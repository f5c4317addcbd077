------------------------- MODULE LedgerCacheProofs -------------------------
(* Theorems about LedgerCache, for any number of users, readers, sessions    *)
(* and queries, any number of commits, outages, restarts and crashes.        *)
EXTENDS LedgerCache, FiniteSetTheorems, TLAPS

Active(r) == reader[r].pc # "idle"

(* A fill that has read the table is behind it only if its user is not       *)
(* settled, and a key in flight never carries a version from the future.     *)
FillExplained(r) == ~reader[r].raced =>
    /\ reader[r].pc = "queried" /\ reader[r].rows < rows[reader[r].user]
         => ~Settled(reader[r].user)
    /\ reader[r].pc = "storing" /\ reader[r].rows < rows[reader[r].user]
         /\ reader[r].key = FullKey(reader[r].user) => ~Settled(reader[r].user)
    /\ reader[r].pc = "storing" => /\ reader[r].key.g <= overall
                                   /\ reader[r].key.v <= local[reader[r].user]

FillsExplained == \A r \in Readers : FillExplained(r)

EntriesNotFromTheFuture == \A e \in entries : ~e.raced =>
    e.key.g <= overall /\ e.key.v <= local[e.user]

ExplainedInv == /\ TypeOK
                /\ FillsExplained
                /\ EntriesNotFromTheFuture
                /\ StaleOnlyWhenExplained

----------------------------------------------------------------------------
(* Type correctness.                                                         *)

LEMMA ActiveReader ==
    ASSUME TypeOK, NEW r \in Readers, reader[r].pc # "idle" PROVE reader[r] \in Reading
BY DEF TypeOK, IdleReader

LEMMA MarkRacedType ==
    ASSUME TypeOK, NEW U
    PROVE  MarkRaced(U) \in [Readers -> Reading \cup {IdleReader}]
<1>1. ASSUME NEW r \in Readers PROVE MarkRaced(U)[r] \in Reading \cup {IdleReader}
  <2>1. CASE reader[r].pc = "idle"
    BY <2>1 DEF TypeOK, MarkRaced
  <2>2. CASE reader[r].pc # "idle"
    <3>1. reader[r] \in Reading
      BY <2>2, ActiveReader
    <3> QED
      BY <3>1 DEF MarkRaced, Reading
  <2> QED
    BY <2>1, <2>2
<1> QED
  BY <1>1 DEF MarkRaced

LEMMA TypeStep == TypeOK /\ [Next]_vars => TypeOK'
<1> SUFFICES ASSUME TypeOK, [Next]_vars PROVE TypeOK'
  OBVIOUS
<1> USE DEF TypeOK, Entry, Key, Reading, Session, IdleReader, IdleSession, FullKey
<1>1. ASSUME NEW r \in Readers, NEW u \in Users, NEW q \in Queries, ReadKey(r, u, q)
      PROVE  TypeOK'
  BY <1>1 DEF ReadKey
<1>2. ASSUME NEW r \in Readers, ReadHit(r) PROVE TypeOK'
  <2>1. reader[r] \in Reading
    BY <1>2, ActiveReader DEF ReadHit
  <2>2. PICK e \in Found(reader[r]) :
            reader' = [reader EXCEPT ![r].pc = "done", ![r].rows = e.rows,
                                     ![r].raced = e.raced]
    BY <1>2 DEF ReadHit
  <2>3. e \in Entry
    BY DEF Found
  <2>4. reader'[r] \in Reading
    BY <2>1, <2>2, <2>3
  <2> QED
    BY <1>2, <2>2, <2>4 DEF ReadHit
<1>3. ASSUME NEW r \in Readers, ReadMiss(r) PROVE TypeOK'
  <2>1. reader[r] \in Reading
    BY <1>3, ActiveReader DEF ReadMiss
  <2>2. reader'[r] \in Reading
    BY <1>3, <2>1 DEF ReadMiss
  <2> QED
    BY <1>3, <2>2 DEF ReadMiss
<1>4. ASSUME NEW r \in Readers, Query(r) PROVE TypeOK'
  <2>1. reader[r] \in Reading
    BY <1>4, ActiveReader DEF Query
  <2>2. reader'[r] \in Reading
    BY <1>4, <2>1 DEF Query
  <2> QED
    BY <1>4, <2>2 DEF Query
<1>5. ASSUME NEW r \in Readers, WriteKey(r) PROVE TypeOK'
  <2>1. reader[r] \in Reading
    BY <1>5, ActiveReader DEF WriteKey
  <2>2. reader'[r] \in Reading
    BY <1>5, <2>1 DEF WriteKey
  <2> QED
    BY <1>5, <2>2 DEF WriteKey
<1>6. ASSUME NEW r \in Readers, WriteSet(r) PROVE TypeOK'
  <2>1. reader[r] \in Reading
    BY <1>6, ActiveReader DEF WriteSet
  <2>2. reader'[r] \in Reading /\ Stored(reader[r]) \in Entry
    BY <1>6, <2>1 DEF WriteSet, Stored
  <2> QED
    BY <1>6, <2>2 DEF WriteSet
<1>7. ASSUME NEW r \in Readers, Return(r) PROVE TypeOK'
  BY <1>7 DEF Return
<1>8. ASSUME NEW s \in Sessions, NEW T \in SUBSET Users, NEW all \in BOOLEAN,
             Flush(s, T, all)
      PROVE  TypeOK'
  BY <1>8 DEF Flush
<1>9. ASSUME NEW s \in Sessions, Rollback(s) PROVE TypeOK'
  BY <1>9 DEF Rollback
<1>10. ASSUME NEW s \in Sessions, Commit(s) PROVE TypeOK'
  BY <1>10 DEF Commit
<1>11. ASSUME NEW s \in Sessions, PublishEverything(s) PROVE TypeOK'
  <2>1. reader' \in [Readers -> Reading \cup {IdleReader}]
    BY <1>11, MarkRacedType DEF PublishEverything
  <2>2. UNCHANGED <<rows, up, local, entries>>
    BY <1>11 DEF PublishEverything
  <2>3. session' \in [Sessions -> Session]
    BY <1>11 DEF PublishEverything
  <2>4. lost' \in [Users -> BOOLEAN]
    BY <1>11 DEF PublishEverything
  <2>5. overall' \in Nat
    BY <1>11 DEF PublishEverything
  <2> QED
    BY <2>1, <2>2, <2>3, <2>4, <2>5
<1>12. ASSUME NEW s \in Sessions, NEW u \in Users, PublishOne(s, u) PROVE TypeOK'
  <2>1. reader' \in [Readers -> Reading \cup {IdleReader}]
    BY <1>12, MarkRacedType DEF PublishOne
  <2>2. UNCHANGED <<rows, up, overall, entries>>
    BY <1>12 DEF PublishOne
  <2>3. session' \in [Sessions -> Session]
    BY <1>12 DEF PublishOne
  <2>4. lost' \in [Users -> BOOLEAN]
    BY <1>12 DEF PublishOne
  <2>5. local' \in [Users -> Nat]
    BY <1>12 DEF PublishOne
  <2> QED
    BY <2>1, <2>2, <2>3, <2>4, <2>5
<1>13. ASSUME NEW u \in Users, NEW q \in Queries, NEW k, Expire(u, q, k) PROVE TypeOK'
  BY <1>13 DEF Expire
<1>14. CASE OutageStarts
  BY <1>14 DEF OutageStarts
<1>15. CASE OutageEnds
  BY <1>15 DEF OutageEnds
<1>16. CASE RedisRestart
  <2>1. ASSUME NEW r \in Readers PROVE reader'[r] \in Reading \cup {IdleReader}
    <3>1. CASE reader[r].pc = "idle"
      BY <1>16, <3>1 DEF RedisRestart
    <3>2. CASE reader[r].pc # "idle"
      <4>1. reader[r] \in Reading
        BY <3>2, ActiveReader
      <4> QED
        BY <1>16, <4>1 DEF RedisRestart
    <3> QED
      BY <3>1, <3>2
  <2> QED
    BY <1>16, <2>1 DEF RedisRestart
<1>17. CASE ApiCrash
  BY <1>17 DEF ApiCrash, Owed
<1>18. CASE UNCHANGED vars
  BY <1>18 DEF vars
<1> QED
  BY <1>1, <1>2, <1>3, <1>4, <1>5, <1>6, <1>7, <1>8, <1>9, <1>10, <1>11, <1>12,
     <1>13, <1>14, <1>15, <1>16, <1>17, <1>18 DEF Next, Read, Publish

(* Every variable of the cache model keeps its type.                         *)
THEOREM TypeCorrect == Spec => []TypeOK
<1>1. Init => TypeOK
  BY DEF Init, TypeOK, Entry, Session, IdleSession
<1> QED
  BY <1>1, TypeStep, PTL DEF Spec

----------------------------------------------------------------------------
(* Staleness is explained.                                                   *)

USE DEF Key, FullKey

LEMMA SettledSame ==
    ASSUME NEW u \in Users, UNCHANGED <<session, lost>> PROVE Settled(u)' = Settled(u)
BY DEF Settled, Owed

(* A step that only moves readers and leaves what they filed consistent.     *)
LEMMA ReaderStep ==
    ASSUME ExplainedInv, TypeOK', UNCHANGED <<rows, overall, local, entries, session, lost>>,
           \A r \in Readers : reader'[r] # reader[r] => FillExplained(r)'
    PROVE  ExplainedInv'
<1>1. \A u \in Users : Settled(u)' = Settled(u)
  BY SettledSame
<1>2. ASSUME NEW r \in Readers, reader'[r] = reader[r] PROVE FillExplained(r)'
  <2>1. CASE reader[r].pc = "idle"
    BY <1>2, <2>1 DEF FillExplained
  <2>2. CASE reader[r].pc # "idle"
    <3>1. reader[r].user \in Users
      BY <2>2, ActiveReader DEF ExplainedInv, Reading
    <3> QED
      BY <1>1, <1>2, <3>1 DEF FillExplained, ExplainedInv, FillsExplained
  <2> QED
    BY <2>1, <2>2
<1>3. StaleOnlyWhenExplained' /\ EntriesNotFromTheFuture'
  BY <1>1 DEF ExplainedInv, TypeOK, Entry, StaleOnlyWhenExplained,
              EntriesNotFromTheFuture, Stale
<1> QED
  BY <1>2, <1>3 DEF ExplainedInv, FillsExplained

(* A step of a session that publishes nothing, or fails to.                  *)
LEMMA SessionStep ==
    ASSUME ExplainedInv, TypeOK', UNCHANGED <<overall, local, entries, reader>>,
           \A u \in Users : Settled(u)' => Settled(u) /\ rows'[u] = rows[u]
    PROVE  ExplainedInv'
<1>1. ASSUME NEW r \in Readers PROVE FillExplained(r)'
  <2>1. CASE reader[r].pc = "idle"
    BY <2>1 DEF FillExplained
  <2>2. CASE reader[r].pc # "idle"
    <3>1. reader[r].user \in Users
      BY <2>2, ActiveReader DEF ExplainedInv, Reading
    <3> QED
      BY <3>1 DEF FillExplained, ExplainedInv, FillsExplained
  <2> QED
    BY <2>1, <2>2
<1>2. StaleOnlyWhenExplained' /\ EntriesNotFromTheFuture'
  BY DEF ExplainedInv, TypeOK, Entry, StaleOnlyWhenExplained, EntriesNotFromTheFuture, Stale
<1> QED
  BY <1>1, <1>2 DEF ExplainedInv, FillsExplained

(* An INCR that reached Redis, for the users of U.                           *)
LEMMA PublishStep ==
    ASSUME ExplainedInv, TypeOK', NEW U \in SUBSET Users,
           UNCHANGED <<rows, entries>>, reader' = MarkRaced(U),
           overall' >= overall, \A u \in Users : local'[u] >= local[u],
           \A u \in U : overall' > overall \/ local'[u] > local[u],
           \A u \in Users \ U : Settled(u)' => Settled(u),
           \A u \in Users \ U : overall' = overall /\ local'[u] = local[u]
    PROVE  ExplainedInv'
<1> USE DEF ExplainedInv
<1>1. ASSUME NEW r \in Readers PROVE FillExplained(r)'
  <2>1. CASE reader[r].pc = "idle"
    BY <2>1 DEF FillExplained, MarkRaced
  <2>2. CASE reader[r].pc # "idle"
    <3>1. reader[r] \in Reading
      BY <2>2, ActiveReader
    <3>2. FillExplained(r)
      BY DEF FillsExplained
    <3>3. CASE reader[r].user \in U
      <4>1. CASE reader[r].pc = "queried" /\ reader[r].rows < rows[reader[r].user]
        BY <3>1, <3>3, <4>1 DEF FillExplained, MarkRaced, Reading
      <4>2. CASE ~(reader[r].pc = "queried" /\ reader[r].rows < rows[reader[r].user])
        <5>1. reader'[r] = reader[r]
          BY <4>2 DEF MarkRaced
        <5> QED
          BY <3>1, <3>2, <3>3, <4>2, <5>1 DEF FillExplained, Reading, TypeOK
      <4> QED
        BY <4>1, <4>2
    <3>4. CASE reader[r].user \notin U
      <4>1. reader'[r] = reader[r]
        BY <3>4 DEF MarkRaced
      <4> QED
        BY <3>1, <3>2, <3>4, <4>1 DEF FillExplained, Reading
    <3> QED
      BY <3>3, <3>4
  <2> QED
    BY <2>1, <2>2
<1>2. ASSUME NEW e \in entries, ~e.raced
      PROVE  /\ e.key.g <= overall' /\ e.key.v <= local'[e.user]
             /\ Stale(e)' => ~Settled(e.user)'
  <2>1. e \in Entry
    BY DEF TypeOK
  <2>2. e.key.g <= overall /\ e.key.v <= local[e.user]
    BY <1>2 DEF EntriesNotFromTheFuture
  <2>3. Stale(e) => ~Settled(e.user)
    BY <1>2 DEF StaleOnlyWhenExplained
  <2>4. CASE e.user \in U
    BY <2>1, <2>2, <2>4 DEF Entry, Stale, TypeOK
  <2>5. CASE e.user \notin U
    BY <2>1, <2>2, <2>3, <2>5 DEF Entry, Stale
  <2> QED
    BY <2>1, <2>2, <2>4, <2>5 DEF Entry, TypeOK
<1>3. StaleOnlyWhenExplained' /\ EntriesNotFromTheFuture'
  BY <1>2 DEF StaleOnlyWhenExplained, EntriesNotFromTheFuture
<1> QED
  BY <1>1, <1>3 DEF FillsExplained

LEMMA ExplainedNext == ExplainedInv /\ [Next]_vars => ExplainedInv'
<1> SUFFICES ASSUME ExplainedInv, [Next]_vars PROVE ExplainedInv'
  OBVIOUS
<1> USE DEF ExplainedInv
<1>0. TypeOK'
  BY TypeStep
<1>1. ASSUME NEW r \in Readers, NEW u \in Users, NEW q \in Queries, ReadKey(r, u, q)
      PROVE  ExplainedInv'
  <2>1. \A f \in Readers : reader'[f] # reader[f] => FillExplained(f)'
    BY <1>1 DEF ReadKey, FillExplained, TypeOK
  <2> QED
    BY <1>0, <1>1, <2>1, ReaderStep DEF ReadKey
<1>2. ASSUME NEW r \in Readers, ReadHit(r) PROVE ExplainedInv'
  <2>1. reader[r] \in Reading
    BY <1>2, ActiveReader DEF ReadHit
  <2>2. \A f \in Readers : reader'[f] # reader[f] => FillExplained(f)'
    BY <1>2, <2>1 DEF ReadHit, FillExplained, TypeOK, Reading
  <2> QED
    BY <1>0, <1>2, <2>2, ReaderStep DEF ReadHit
<1>3. ASSUME NEW r \in Readers, ReadMiss(r) PROVE ExplainedInv'
  <2>1. reader[r] \in Reading
    BY <1>3, ActiveReader DEF ReadMiss
  <2>2. \A f \in Readers : reader'[f] # reader[f] => FillExplained(f)'
    BY <1>3, <2>1 DEF ReadMiss, FillExplained, TypeOK, Reading
  <2> QED
    BY <1>0, <1>3, <2>2, ReaderStep DEF ReadMiss
<1>4. ASSUME NEW r \in Readers, Query(r) PROVE ExplainedInv'
  <2>1. reader[r] \in Reading
    BY <1>4, ActiveReader DEF Query
  <2>2. \A f \in Readers : reader'[f] # reader[f] => FillExplained(f)'
    BY <1>4, <2>1 DEF Query, FillExplained, TypeOK, Reading
  <2> QED
    BY <1>0, <1>4, <2>2, ReaderStep DEF Query
<1>5. ASSUME NEW r \in Readers, WriteKey(r) PROVE ExplainedInv'
  <2>1. reader[r] \in Reading /\ FillExplained(r)
    BY <1>5, ActiveReader DEF WriteKey, FillsExplained
  <2>2. CASE up
    <3>1. reader'[r] = [reader[r] EXCEPT !.pc = "storing", !.key = FullKey(reader[r].user)]
      BY <1>5, <2>1, <2>2 DEF WriteKey, TypeOK, Reading
    <3>2. \A u \in Users : Settled(u)' = Settled(u)
      BY <1>5, SettledSame DEF WriteKey
    <3>3. FillExplained(r)'
      BY <1>5, <2>1, <3>1, <3>2 DEF WriteKey, FillExplained, TypeOK, Reading
    <3>4. \A f \in Readers : reader'[f] # reader[f] => FillExplained(f)'
      BY <1>5, <3>3 DEF WriteKey, TypeOK
    <3> QED
      BY <1>0, <1>5, <3>4, ReaderStep DEF WriteKey
  <2>3. CASE ~up
    <3>1. \A f \in Readers : reader'[f] # reader[f] => FillExplained(f)'
      BY <1>5, <2>1, <2>3 DEF WriteKey, FillExplained, TypeOK, Reading
    <3> QED
      BY <1>0, <1>5, <3>1, ReaderStep DEF WriteKey
  <2> QED
    BY <2>2, <2>3
<1>6. ASSUME NEW r \in Readers, WriteSet(r) PROVE ExplainedInv'
  <2>1. reader[r] \in Reading /\ FillExplained(r)
    BY <1>6, ActiveReader DEF WriteSet, FillsExplained
  <2>2. \A u \in Users : Settled(u)' = Settled(u)
    BY <1>6, SettledSame DEF WriteSet
  <2>3. ASSUME NEW f \in Readers PROVE FillExplained(f)'
    <3>1. CASE f = r
      BY <1>6, <2>1, <3>1 DEF WriteSet, FillExplained, TypeOK, Reading
    <3>2. CASE f # r
      <4>1. reader'[f] = reader[f] /\ FillExplained(f)
        BY <1>6, <3>2 DEF WriteSet, TypeOK, FillsExplained
      <4>2. reader[f].pc # "idle" => reader[f].user \in Users
        BY ActiveReader DEF Reading
      <4> QED
        BY <1>6, <2>2, <4>1, <4>2 DEF WriteSet, FillExplained
    <3> QED
      BY <3>1, <3>2
  <2>4. ASSUME NEW e \in entries', ~e.raced
        PROVE  /\ e.key.g <= overall /\ e.key.v <= local[e.user]
               /\ Stale(e) => ~Settled(e.user)
    <3>1. CASE e \in entries
      BY <2>4, <3>1 DEF EntriesNotFromTheFuture, StaleOnlyWhenExplained
    <3>2. CASE e = Stored(reader[r])
      BY <1>6, <2>1, <2>4, <3>2 DEF WriteSet, Stored, Stale, FillExplained, Reading
    <3> QED
      BY <1>6, <3>1, <3>2 DEF WriteSet, Found
  <2>5. \A e \in entries' : e.user \in Users
    BY <1>0 DEF TypeOK, Entry
  <2>6. StaleOnlyWhenExplained' /\ EntriesNotFromTheFuture'
    BY <1>6, <2>2, <2>4, <2>5 DEF WriteSet, StaleOnlyWhenExplained,
                                  EntriesNotFromTheFuture, Stale
  <2> QED
    BY <1>0, <2>3, <2>6 DEF FillsExplained
<1>7. ASSUME NEW r \in Readers, Return(r) PROVE ExplainedInv'
  <2>1. \A f \in Readers : reader'[f] # reader[f] => FillExplained(f)'
    BY <1>7 DEF Return, FillExplained, TypeOK, IdleReader
  <2> QED
    BY <1>0, <1>7, <2>1, ReaderStep DEF Return
<1>8. ASSUME NEW s \in Sessions, NEW T \in SUBSET Users, NEW all \in BOOLEAN,
             Flush(s, T, all)
      PROVE  ExplainedInv'
  <2>1. \A u \in Users : Settled(u)' => Settled(u) /\ rows'[u] = rows[u]
    BY <1>8 DEF Flush, Settled, Owed, TypeOK
  <2> QED
    BY <1>0, <1>8, <2>1, SessionStep DEF Flush
<1>9. ASSUME NEW s \in Sessions, Rollback(s) PROVE ExplainedInv'
  <2>1. \A u \in Users : Settled(u)' => Settled(u) /\ rows'[u] = rows[u]
    BY <1>9 DEF Rollback, Settled, Owed, TypeOK
  <2> QED
    BY <1>0, <1>9, <2>1, SessionStep DEF Rollback
<1>10. ASSUME NEW s \in Sessions, Commit(s) PROVE ExplainedInv'
  <2>1. session[s] \in Session
    BY DEF TypeOK
  <2>2. /\ session'[s].pc = "publishing"
        /\ session'[s].touched = session[s].touched
        /\ session'[s].everything = session[s].everything
        /\ \A w \in Sessions : w # s => session'[w] = session[w]
    BY <1>10, <2>1 DEF Commit, Session, TypeOK
  <2>3. ASSUME NEW u \in Users, Settled(u)' PROVE Settled(u) /\ rows'[u] = rows[u]
    <3>1. ~(session[s].everything \/ u \in session[s].touched)
      BY <2>2, <2>3 DEF Settled, Owed
    <3>2. ~Owed(u)
      BY <1>10, <2>2, <2>3 DEF Settled, Owed, TypeOK, Commit
    <3>3. ~lost[u]
      BY <1>10, <2>3 DEF Settled, Commit
    <3>4. rows'[u] = rows[u]
      BY <1>10, <3>1 DEF Commit
    <3> QED
      BY <3>2, <3>3, <3>4 DEF Settled
  <2> QED
    BY <1>0, <1>10, <2>3, SessionStep DEF Commit
<1>11. ASSUME NEW s \in Sessions, PublishEverything(s) PROVE ExplainedInv'
  <2>1. CASE up
    <3>1. /\ overall' = overall + 1 /\ reader' = MarkRaced(Users)
          /\ UNCHANGED <<rows, local, entries>>
      BY <1>11, <2>1 DEF PublishEverything
    <3>2. /\ overall' >= overall /\ \A u \in Users : local'[u] >= local[u]
          /\ \A u \in Users : overall' > overall \/ local'[u] > local[u]
      BY <3>1 DEF TypeOK
    <3>3. Users \ Users = {} /\ Users \in SUBSET Users
      OBVIOUS
    <3> QED
      BY <1>0, <3>1, <3>2, <3>3, PublishStep
  <2>2. CASE ~up
    <3>1. UNCHANGED <<overall, local, entries, reader>>
      BY <1>11, <2>2 DEF PublishEverything
    <3>2. \A u \in Users : ~Settled(u)'
      BY <1>11, <2>2 DEF PublishEverything, Settled
    <3> QED
      BY <1>0, <3>1, <3>2, SessionStep
  <2> QED
    BY <2>1, <2>2
<1>12. ASSUME NEW s \in Sessions, NEW u \in Users, PublishOne(s, u) PROVE ExplainedInv'
  <2>1. UNCHANGED <<rows, overall, entries>>
    BY <1>12 DEF PublishOne
  <2>2. ASSUME NEW w \in Users, w # u, Owed(w) PROVE Owed(w)'
    BY <1>12, <2>2 DEF PublishOne, Owed, TypeOK
  <2>3. \A w \in Users \ {u} : Settled(w)' => Settled(w)
    <3>1. \A w \in Users \ {u} : lost'[w] = lost[w]
      BY <1>12 DEF PublishOne, TypeOK
    <3> QED
      BY <2>2, <3>1 DEF Settled
  <2>4. CASE up
    <3>1. reader' = MarkRaced({u})
      BY <1>12, <2>4 DEF PublishOne
    <3>2. local' = [local EXCEPT ![u] = @ + 1]
      BY <1>12, <2>4 DEF PublishOne
    <3>3. /\ overall' >= overall
          /\ \A w \in Users : local'[w] >= local[w]
          /\ local'[u] > local[u]
          /\ \A w \in Users \ {u} : local'[w] = local[w]
      BY <2>1, <3>2 DEF TypeOK
    <3> QED
      BY <1>0, <2>1, <2>3, <3>1, <3>3, PublishStep
  <2>5. CASE ~up
    <3>1. UNCHANGED <<local, reader>>
      BY <1>12, <2>5 DEF PublishOne
    <3>2. ~Settled(u)'
      BY <1>12, <2>5 DEF PublishOne, Settled, TypeOK
    <3>3. \A w \in Users : Settled(w)' => Settled(w) /\ rows'[w] = rows[w]
      BY <2>1, <2>3, <3>2
    <3> QED
      BY <1>0, <2>1, <3>1, <3>3, SessionStep
  <2> QED
    BY <2>4, <2>5
<1>13. ASSUME NEW u \in Users, NEW q \in Queries, NEW k, Expire(u, q, k)
       PROVE  ExplainedInv'
  <2>1. /\ UNCHANGED <<rows, overall, local, reader, session, lost>>
        /\ entries' \subseteq entries
    BY <1>13 DEF Expire
  <2>2. \A w \in Users : Settled(w)' = Settled(w)
    BY <2>1, SettledSame
  <2>3. \A e \in entries : e.user \in Users
    BY DEF TypeOK, Entry
  <2>4. StaleOnlyWhenExplained' /\ EntriesNotFromTheFuture'
    BY <2>1, <2>2, <2>3 DEF StaleOnlyWhenExplained, EntriesNotFromTheFuture, Stale
  <2>5. ASSUME NEW r \in Readers PROVE FillExplained(r)'
    <3>1. reader[r].pc # "idle" => reader[r].user \in Users
      BY ActiveReader DEF Reading
    <3> QED
      BY <2>1, <2>2, <3>1 DEF FillExplained, FillsExplained
  <2> QED
    BY <1>0, <2>4, <2>5 DEF FillsExplained
<1>14. CASE OutageStarts
  BY <1>0, <1>14, SettledSame, SessionStep DEF OutageStarts
<1>15. CASE OutageEnds
  BY <1>0, <1>15, SettledSame, SessionStep DEF OutageEnds
<1>16. CASE RedisRestart
  <2>1. ASSUME NEW r \in Readers PROVE FillExplained(r)'
    <3>1. CASE reader[r].pc = "idle"
      BY <1>16, <3>1 DEF RedisRestart, FillExplained
    <3>2. CASE reader[r].pc # "idle"
      <4>1. reader[r] \in Reading
        BY <3>2, ActiveReader
      <4> QED
        BY <1>16, <4>1 DEF RedisRestart, FillExplained, Reading
    <3> QED
      BY <3>1, <3>2
  <2>2. entries' = {}
    BY <1>16 DEF RedisRestart
  <2> QED
    BY <1>0, <2>1, <2>2 DEF FillsExplained, StaleOnlyWhenExplained, EntriesNotFromTheFuture
<1>17. CASE ApiCrash
  <2>1. UNCHANGED <<rows, up, overall, local, entries>>
    BY <1>17 DEF ApiCrash
  <2>2. \A u \in Users : Settled(u)' => Settled(u)
    BY <1>17 DEF ApiCrash, Settled
  <2>3. \A e \in entries : e.user \in Users
    BY DEF TypeOK, Entry
  <2>4. StaleOnlyWhenExplained' /\ EntriesNotFromTheFuture'
    BY <2>1, <2>2, <2>3 DEF StaleOnlyWhenExplained, EntriesNotFromTheFuture, Stale
  <2>5. \A r \in Readers : FillExplained(r)'
    BY <1>17 DEF ApiCrash, FillExplained, IdleReader
  <2> QED
    BY <1>0, <2>4, <2>5 DEF FillsExplained
<1>18. CASE UNCHANGED vars
  BY <1>0, <1>18, SettledSame, SessionStep DEF vars
<1> QED
  BY <1>1, <1>2, <1>3, <1>4, <1>5, <1>6, <1>7, <1>8, <1>9, <1>10, <1>11, <1>12,
     <1>13, <1>14, <1>15, <1>16, <1>17, <1>18 DEF Next, Read, Publish

(* A hit can be stale only if its fill raced an invalidation, or the         *)
(* invalidation is still to be sent, or was lost and no later one went       *)
(* through: invalidating after the commit is right up to the second MGET.    *)
THEOREM StalenessExplained == Spec => []StaleOnlyWhenExplained
<1>1. Init => ExplainedInv
  BY DEF Init, ExplainedInv, TypeOK, Entry, Session, IdleSession, IdleReader,
         FillsExplained, FillExplained, EntriesNotFromTheFuture, StaleOnlyWhenExplained
<1>2. ExplainedInv => StaleOnlyWhenExplained
  BY DEF ExplainedInv
<1> QED
  BY <1>1, <1>2, ExplainedNext, PTL DEF Spec

----------------------------------------------------------------------------
(* What was published is read.                                               *)

(* Everything a looking reader could still be answered with includes what    *)
(* its floor promises, and so does everything that could yet be filed under  *)
(* its key.                                                                  *)
Promised(r, e) == ~e.raced /\ e.user = reader[r].user /\ e.query = reader[r].query
                    /\ e.key = reader[r].key => e.rows >= reader[r].floor

FillPromised(r, f) ==
    /\ reader[f].pc = "storing" => Promised(r, Stored(reader[f]))
    /\ reader[f].pc = "queried" /\ ~reader[f].raced /\ reader[f].user = reader[r].user
         => reader[f].rows >= reader[r].floor

FloorHolds(r) ==
    /\ Active(r) => reader[r].floor <= rows[reader[r].user]
    /\ reader[r].pc \in {"queried", "storing"} => reader[r].rows >= reader[r].floor
    /\ reader[r].pc = "done" /\ ~reader[r].raced => reader[r].rows >= reader[r].floor
    /\ reader[r].pc = "looking" =>
          (\A e \in entries : Promised(r, e)) /\ (\A f \in Readers : FillPromised(r, f))

FloorsHold == \A r \in Readers : FloorHolds(r)

FloorInv == ExplainedInv /\ FloorsHold

(* The step changes at most `raced' in what r has read, and only to TRUE.    *)
SameRead(r) ==
    /\ reader'[r].pc = reader[r].pc /\ reader'[r].user = reader[r].user
    /\ reader'[r].query = reader[r].query /\ reader'[r].key = reader[r].key
    /\ reader'[r].rows = reader[r].rows /\ reader'[r].floor = reader[r].floor
    /\ reader[r].raced => reader'[r].raced

LEMMA MarkRacedSame ==
    ASSUME TypeOK, NEW U, reader' = MarkRaced(U), NEW r \in Readers PROVE SameRead(r)
<1>1. CASE reader[r].pc = "idle"
  BY <1>1 DEF MarkRaced, SameRead
<1>2. CASE reader[r].pc # "idle"
  <2>1. reader[r] \in Reading
    BY <1>2, ActiveReader
  <2> QED
    BY <2>1 DEF MarkRaced, SameRead, Reading
<1> QED
  BY <1>1, <1>2

(* A step that files nothing and moves no reader.                            *)
LEMMA FloorAround ==
    ASSUME FloorInv, TypeOK', entries' \subseteq entries,
           \A u \in Users : rows'[u] >= rows[u],
           \A r \in Readers : SameRead(r)
    PROVE  FloorsHold'
<1> USE DEF FloorInv, FloorsHold, ExplainedInv
<1> SUFFICES ASSUME NEW r \in Readers, Active(r) PROVE FloorHolds(r)'
  BY DEF FloorHolds, Active, SameRead
<1>1. reader[r] \in Reading
  BY ActiveReader DEF Active
<1>2. reader[r].user \in Users /\ reader[r].floor \in Nat /\ reader[r].rows \in Nat
  BY <1>1 DEF Reading
<1>3. reader'[r].floor <= rows'[reader'[r].user]
  BY <1>2 DEF FloorHolds, TypeOK, SameRead
<1>4. ASSUME reader[r].pc = "looking" PROVE \A e \in entries' : Promised(r, e)'
  BY <1>4 DEF FloorHolds, Promised, SameRead
<1>5. ASSUME reader[r].pc = "looking", NEW f \in Readers PROVE FillPromised(r, f)'
  <2>1. FillPromised(r, f)
    BY <1>5 DEF FloorHolds
  <2> QED
    BY <2>1 DEF FillPromised, Promised, Stored, SameRead
<1> QED
  BY <1>3, <1>4, <1>5 DEF FloorHolds, SameRead

(* A step of the reader r, which may file what it holds.                     *)
LEMMA FloorReader ==
    ASSUME FloorInv, UNCHANGED rows, NEW r \in Readers,
           \A f \in Readers \ {r} : reader'[f] = reader[f],
           \A e \in entries' : \/ e \in entries
                               \/ reader[r].pc = "storing" /\ e = Stored(reader[r]),
           FloorHolds(r)',
           \A h \in Readers \ {r} : reader[h].pc = "looking" => FillPromised(h, r)'
    PROVE  FloorsHold'
<1> USE DEF FloorInv, FloorsHold
<1> SUFFICES ASSUME NEW h \in Readers, h # r PROVE FloorHolds(h)'
  OBVIOUS
<1>1. reader'[h] = reader[h] /\ FloorHolds(h)
  OBVIOUS
<1>2. ASSUME reader[h].pc = "looking", NEW e \in entries' PROVE Promised(h, e)'
  <2>1. CASE e \in entries
    BY <1>1, <1>2, <2>1 DEF FloorHolds, Promised
  <2>2. CASE reader[r].pc = "storing" /\ e = Stored(reader[r])
    <3>1. Promised(h, e)
      BY <1>1, <1>2, <2>2 DEF FloorHolds, FillPromised
    <3> QED
      BY <1>1, <3>1 DEF Promised
  <2> QED
    BY <2>1, <2>2
<1>3. ASSUME reader[h].pc = "looking", NEW f \in Readers PROVE FillPromised(h, f)'
  <2>1. CASE f = r
    BY <1>3, <2>1
  <2>2. CASE f # r
    <3>1. reader'[f] = reader[f] /\ FillPromised(h, f)
      BY <1>1, <1>3, <2>2 DEF FloorHolds
    <3> QED
      BY <1>1, <3>1 DEF FillPromised, Promised, Stored
  <2> QED
    BY <2>1, <2>2
<1> QED
  BY <1>1, <1>2, <1>3 DEF FloorHolds, Active

(* The caller is answered with what it queried.                              *)
LEMMA FloorAnswer ==
    ASSUME FloorInv, UNCHANGED rows, NEW r \in Readers,
           reader[r].pc \in {"queried", "storing"},
           reader'[r].pc = "done", reader'[r].user = reader[r].user,
           reader'[r].rows = reader[r].rows, reader'[r].floor = reader[r].floor,
           \A f \in Readers \ {r} : reader'[f] = reader[f],
           \A e \in entries' : \/ e \in entries
                               \/ reader[r].pc = "storing" /\ e = Stored(reader[r])
    PROVE  FloorsHold'
<1>1. FloorHolds(r)
  BY DEF FloorInv, FloorsHold
<1>2. FloorHolds(r)' /\ \A h \in Readers : FillPromised(h, r)'
  BY <1>1 DEF FloorHolds, FillPromised, Active
<1> QED
  BY <1>2, FloorReader

LEMMA FloorNext == FloorInv /\ [Next]_vars => FloorInv'
<1> SUFFICES ASSUME FloorInv, [Next]_vars PROVE FloorsHold'
  BY ExplainedNext DEF FloorInv
<1> TypeOK /\ FillsExplained /\ StaleOnlyWhenExplained /\ FloorsHold
  BY DEF FloorInv, ExplainedInv
<1>0. TypeOK'
  BY TypeStep
<1>1. ASSUME NEW r \in Readers, NEW u \in Users, NEW q \in Queries, ReadKey(r, u, q)
      PROVE  FloorsHold'
  <2>1. /\ reader'[r].pc \in {"looking", "missed"} /\ reader'[r].user = u
        /\ reader'[r].pc = "looking" => reader'[r].key = FullKey(u)
        /\ reader'[r].floor = IF Settled(u) THEN rows[u] ELSE 0
        /\ UNCHANGED <<rows, overall, local, entries>>
        /\ \A f \in Readers \ {r} : reader'[f] = reader[f]
    BY <1>1 DEF ReadKey, TypeOK
  <2>2. ASSUME NEW e \in entries PROVE Promised(r, e)' \/ reader'[r].pc # "looking"
    <3>1. e \in Entry
      BY DEF TypeOK
    <3>2. Stale(e) /\ ~e.raced => ~Settled(e.user)
      BY DEF StaleOnlyWhenExplained
    <3> QED
      BY <2>1, <3>1, <3>2 DEF Promised, Stale, Entry, TypeOK
  <2>3. ASSUME NEW f \in Readers PROVE FillPromised(r, f)' \/ reader'[r].pc # "looking"
    <3>1. CASE f = r
      BY <2>1, <3>1 DEF FillPromised
    <3>2. CASE f # r /\ reader[f].pc \in {"queried", "storing"}
      <4>1. reader[f] \in Reading /\ FillExplained(f) /\ reader'[f] = reader[f]
        BY <2>1, <3>2, ActiveReader DEF FillsExplained
      <4> QED
        BY <2>1, <3>2, <4>1 DEF FillPromised, Promised, Stored, FillExplained, Reading, TypeOK
    <3>3. CASE f # r /\ reader[f].pc \notin {"queried", "storing"}
      BY <2>1, <3>3 DEF FillPromised
    <3> QED
      BY <3>1, <3>2, <3>3
  <2>4. FloorHolds(r)'
    BY <2>1, <2>2, <2>3 DEF FloorHolds, Active, TypeOK
  <2>5. \A h \in Readers : FillPromised(h, r)'
    BY <2>1 DEF FillPromised
  <2> QED
    BY <2>1, <2>4, <2>5, FloorReader
<1>2. ASSUME NEW r \in Readers, ReadHit(r) PROVE FloorsHold'
  <2>1. PICK e \in Found(reader[r]) :
            reader' = [reader EXCEPT ![r].pc = "done", ![r].rows = e.rows,
                                     ![r].raced = e.raced]
    BY <1>2, Zenon DEF ReadHit
  <2>2. reader[r] \in Reading /\ FloorHolds(r) /\ e \in entries
    BY <1>2, ActiveReader DEF ReadHit, FloorsHold, Found
  <2>3. /\ reader'[r] = [reader[r] EXCEPT !.pc = "done", !.rows = e.rows, !.raced = e.raced]
        /\ \A f \in Readers \ {r} : reader'[f] = reader[f]
    BY <2>1 DEF TypeOK
  <2>4. Promised(r, e)
    BY <1>2, <2>2 DEF ReadHit, FloorHolds
  <2>5. FloorHolds(r)'
    BY <1>2, <2>2, <2>3, <2>4 DEF ReadHit, FloorHolds, Promised, Found, Reading, Active
  <2>6. \A h \in Readers : FillPromised(h, r)'
    BY <2>2, <2>3 DEF FillPromised, Reading
  <2> QED
    BY <1>2, <2>3, <2>5, <2>6, FloorReader DEF ReadHit
<1>3. ASSUME NEW r \in Readers, ReadMiss(r) PROVE FloorsHold'
  <2>1. reader[r] \in Reading /\ FloorHolds(r)
    BY <1>3, ActiveReader DEF ReadMiss, FloorsHold
  <2>2. /\ reader'[r] = [reader[r] EXCEPT !.pc = "missed"]
        /\ \A f \in Readers \ {r} : reader'[f] = reader[f]
    BY <1>3 DEF ReadMiss, TypeOK
  <2>3. FloorHolds(r)' /\ \A h \in Readers : FillPromised(h, r)'
    BY <1>3, <2>1, <2>2 DEF ReadMiss, FloorHolds, FillPromised, Reading, Active
  <2> QED
    BY <1>3, <2>2, <2>3, FloorReader DEF ReadMiss
<1>4. ASSUME NEW r \in Readers, Query(r) PROVE FloorsHold'
  <2>1. reader[r] \in Reading /\ FloorHolds(r)
    BY <1>4, ActiveReader DEF Query, FloorsHold
  <2>2. /\ reader'[r] = [reader[r] EXCEPT !.pc = "queried", !.rows = rows[reader[r].user]]
        /\ \A f \in Readers \ {r} : reader'[f] = reader[f]
    BY <1>4 DEF Query, TypeOK
  <2>3. FloorHolds(r)'
    <3>1. UNCHANGED rows /\ reader[r].pc = "missed"
      BY <1>4 DEF Query
    <3>2. reader'[r].pc = "queried" /\ reader'[r].user = reader[r].user
          /\ reader'[r].rows = rows[reader[r].user] /\ reader'[r].floor = reader[r].floor
      BY <2>1, <2>2 DEF Reading
    <3> QED
      BY <2>1, <3>1, <3>2 DEF FloorHolds, Active
  <2>4. ASSUME NEW h \in Readers \ {r}, reader[h].pc = "looking" PROVE FillPromised(h, r)'
    <3>1. reader[h] \in Reading /\ FloorHolds(h)
      BY <2>4, ActiveReader DEF FloorsHold
    <3> QED
      BY <2>1, <2>2, <2>4, <3>1 DEF FillPromised, FloorHolds, Reading, Active
  <2> QED
    BY <1>4, <2>2, <2>3, <2>4, FloorReader DEF Query
<1>5. ASSUME NEW r \in Readers, WriteKey(r) PROVE FloorsHold'
  <2>1. reader[r] \in Reading /\ FloorHolds(r) /\ reader[r].pc = "queried"
    BY <1>5, ActiveReader DEF WriteKey, FloorsHold
  <2>2. \A f \in Readers \ {r} : reader'[f] = reader[f]
    BY <1>5 DEF WriteKey, TypeOK
  <2>3. CASE up
    <3>1. reader'[r] = [reader[r] EXCEPT !.pc = "storing", !.key = FullKey(reader[r].user)]
      BY <1>5, <2>1, <2>3 DEF WriteKey, TypeOK, Reading
    <3>2. FloorHolds(r)'
      <4>1. UNCHANGED rows
        BY <1>5 DEF WriteKey
      <4>2. /\ reader'[r].pc = "storing" /\ reader'[r].user = reader[r].user
            /\ reader'[r].rows = reader[r].rows /\ reader'[r].floor = reader[r].floor
        BY <2>1, <3>1 DEF Reading
      <4> QED
        BY <2>1, <4>1, <4>2 DEF FloorHolds, Active
    <3>3. ASSUME NEW h \in Readers \ {r}, reader[h].pc = "looking" PROVE FillPromised(h, r)'
      <4>1. FillPromised(h, r) /\ reader'[h] = reader[h]
        BY <2>2, <3>3 DEF FloorsHold, FloorHolds
      <4> QED
        BY <2>1, <3>1, <4>1 DEF FillPromised, Promised, Stored, Reading
    <3> QED
      BY <1>5, <2>2, <3>2, <3>3, FloorReader DEF WriteKey
  <2>4. CASE ~up
    <3>1. reader'[r] = [reader[r] EXCEPT !.pc = "done", !.raced = FALSE]
      BY <1>5, <2>1, <2>4 DEF WriteKey, TypeOK, Reading
    <3>2. UNCHANGED <<rows, entries>>
      BY <1>5 DEF WriteKey
    <3>3. /\ reader'[r].pc = "done" /\ reader'[r].user = reader[r].user
          /\ reader'[r].rows = reader[r].rows /\ reader'[r].floor = reader[r].floor
      BY <2>1, <3>1 DEF Reading
    <3> QED
      BY <2>1, <2>2, <3>2, <3>3, FloorAnswer
  <2> QED
    BY <2>3, <2>4
<1>6. ASSUME NEW r \in Readers, WriteSet(r) PROVE FloorsHold'
  <2>1. reader[r] \in Reading /\ FloorHolds(r) /\ reader[r].pc = "storing"
    BY <1>6, ActiveReader DEF WriteSet, FloorsHold
  <2>2. /\ reader'[r] = [reader[r] EXCEPT !.pc = "done", !.raced = FALSE]
        /\ \A f \in Readers \ {r} : reader'[f] = reader[f]
    BY <1>6, <2>1 DEF WriteSet, TypeOK, Reading
  <2>3. UNCHANGED rows /\ \A e \in entries' : e \in entries \/ e = Stored(reader[r])
    BY <1>6 DEF WriteSet
  <2>4. /\ reader'[r].pc = "done" /\ reader'[r].user = reader[r].user
        /\ reader'[r].rows = reader[r].rows /\ reader'[r].floor = reader[r].floor
    BY <2>1, <2>2 DEF Reading
  <2> QED
    BY <2>1, <2>2, <2>3, <2>4, FloorAnswer
<1>7. ASSUME NEW r \in Readers, Return(r) PROVE FloorsHold'
  <2>1. /\ reader'[r].pc = "idle"
        /\ \A f \in Readers \ {r} : reader'[f] = reader[f]
    BY <1>7 DEF Return, TypeOK, IdleReader
  <2>2. FloorHolds(r)' /\ \A h \in Readers : FillPromised(h, r)'
    BY <2>1 DEF FloorHolds, FillPromised, Active
  <2> QED
    BY <1>7, <2>1, <2>2, FloorReader DEF Return
<1>8. ASSUME UNCHANGED <<reader, entries>>, \A u \in Users : rows'[u] >= rows[u]
      PROVE  FloorsHold'
  <2>1. \A r \in Readers : SameRead(r)
    BY <1>8 DEF SameRead
  <2> QED
    BY <1>0, <1>8, <2>1, FloorAround
<1>9. ASSUME UNCHANGED <<rows, entries>>, NEW U, reader' = MarkRaced(U) PROVE FloorsHold'
  <2>1. \A r \in Readers : SameRead(r)
    BY <1>9, MarkRacedSame
  <2>2. \A u \in Users : rows'[u] >= rows[u]
    BY <1>9 DEF TypeOK
  <2> QED
    BY <1>0, <1>9, <2>1, <2>2, FloorAround
<1>10. UNCHANGED rows => \A u \in Users : rows'[u] >= rows[u]
  BY DEF TypeOK
<1>11. ASSUME NEW s \in Sessions,
              \/ \E T \in SUBSET Users, all \in BOOLEAN : Flush(s, T, all)
              \/ Rollback(s)
       PROVE  FloorsHold'
  BY <1>8, <1>10, <1>11 DEF Flush, Rollback
<1>12. ASSUME NEW s \in Sessions, Commit(s) PROVE FloorsHold'
  <2>1. \A u \in Users : rows'[u] >= rows[u]
    BY <1>12 DEF Commit, TypeOK
  <2> QED
    BY <1>8, <1>12, <2>1 DEF Commit
<1>13. ASSUME NEW s \in Sessions, PublishEverything(s) PROVE FloorsHold'
  BY <1>8, <1>9, <1>10, <1>13 DEF PublishEverything
<1>14. ASSUME NEW s \in Sessions, NEW u \in Users, PublishOne(s, u) PROVE FloorsHold'
  BY <1>8, <1>9, <1>10, <1>14 DEF PublishOne
<1>15. ASSUME NEW u \in Users, NEW q \in Queries, NEW k, Expire(u, q, k) PROVE FloorsHold'
  <2>1. entries' \subseteq entries /\ \A r \in Readers : SameRead(r)
    BY <1>15 DEF Expire, SameRead
  <2> QED
    BY <1>0, <1>10, <1>15, <2>1, FloorAround DEF Expire
<1>16. CASE OutageStarts \/ OutageEnds
  BY <1>8, <1>10, <1>16 DEF OutageStarts, OutageEnds
<1>17. CASE RedisRestart
  <2>1. ASSUME NEW r \in Readers PROVE SameRead(r)
    <3>1. CASE reader[r].pc = "idle"
      BY <1>17, <3>1 DEF RedisRestart, SameRead
    <3>2. CASE reader[r].pc # "idle"
      <4>1. reader[r] \in Reading
        BY <3>2, ActiveReader
      <4> QED
        BY <1>17, <4>1 DEF RedisRestart, SameRead, Reading
    <3> QED
      BY <3>1, <3>2
  <2> QED
    BY <1>0, <1>10, <1>17, <2>1, FloorAround DEF RedisRestart
<1>18. CASE ApiCrash
  <2>1. \A r \in Readers : reader'[r].pc = "idle"
    BY <1>18 DEF ApiCrash, IdleReader
  <2> QED
    BY <2>1 DEF FloorsHold, FloorHolds, Active
<1>19. CASE UNCHANGED vars
  BY <1>8, <1>10, <1>19 DEF vars
<1> QED
  BY <1>1, <1>2, <1>3, <1>4, <1>5, <1>6, <1>7, <1>11, <1>12, <1>13, <1>14, <1>15,
     <1>16, <1>17, <1>18, <1>19 DEF Next, Read, Publish

(* A read that started when everything its user had committed was published  *)
(* answers with all of it, whatever is written, lost or restarted while it   *)
(* runs: get_balance and list_for_user never go back behind an invalidation. *)
THEOREM PublishedIsRead == Spec => []PublishedWritesAreRead
<1>1. Init => FloorInv
  <2>1. Init => ExplainedInv
    BY DEF Init, ExplainedInv, TypeOK, Entry, Session, IdleSession, IdleReader,
           FillsExplained, FillExplained, EntriesNotFromTheFuture, StaleOnlyWhenExplained
  <2>2. Init => FloorsHold
    BY DEF Init, IdleReader, FloorsHold, FloorHolds, Active
  <2> QED
    BY <2>1, <2>2 DEF FloorInv
<1>2. FloorInv => PublishedWritesAreRead
  BY DEF FloorInv, FloorsHold, FloorHolds, PublishedWritesAreRead
<1> QED
  BY <1>1, <1>2, FloorNext, PTL DEF Spec

----------------------------------------------------------------------------
(* The version follows the commits.                                          *)

Publishing == {s \in Sessions : session[s].pc = "publishing"}

(* The sessions that committed a change of u and have not published it yet.  *)
Owing(u) == {s \in Publishing : session[s].everything \/ u \in session[s].touched}

(* Every INCR still to come has its commit already.                          *)
VersionsOwed ==
    \A u \in Users : overall + local[u] + Cardinality(Owing(u)) <= rows[u]

VersionInv == TypeOK /\ IsFiniteSet(Publishing) /\ VersionsOwed

LEMMA OwingFinite ==
    ASSUME VersionInv, NEW u
    PROVE  IsFiniteSet(Owing(u)) /\ Cardinality(Owing(u)) \in Nat
BY FS_Subset, FS_CardinalityType DEF VersionInv, Owing

(* Each ledger owes what it owed, or fewer; or one INCR fewer and its        *)
(* version is one higher; or one more and it has one commit more.            *)
LEMMA VersionStep ==
    ASSUME VersionInv, TypeOK', NEW s \in Sessions,
           Publishing' \subseteq Publishing \cup {s},
           \A u \in Users :
              \/ /\ Owing(u)' \subseteq Owing(u) /\ rows'[u] = rows[u]
                 /\ overall' + local'[u] <= overall + local[u]
              \/ /\ s \in Owing(u) /\ Owing(u)' = Owing(u) \ {s} /\ rows'[u] = rows[u]
                 /\ overall' + local'[u] = overall + local[u] + 1
              \/ /\ Owing(u)' = Owing(u) \cup {s} /\ rows'[u] = rows[u] + 1
                 /\ overall' + local'[u] = overall + local[u]
    PROVE  VersionInv'
<1>1. IsFiniteSet(Publishing)'
  <2>1. IsFiniteSet(Publishing \cup {s})
    BY FS_AddElement DEF VersionInv
  <2> QED
    BY <2>1, FS_Subset
<1>2. ASSUME NEW u \in Users
      PROVE  overall' + local'[u] + Cardinality(Owing(u)') <= rows'[u]
  <2>1. /\ overall \in Nat /\ local[u] \in Nat /\ rows[u] \in Nat
        /\ overall' \in Nat /\ local'[u] \in Nat /\ rows'[u] \in Nat
    BY DEF VersionInv, TypeOK
  <2>2. overall + local[u] + Cardinality(Owing(u)) <= rows[u]
    BY DEF VersionInv, VersionsOwed
  <2>3. IsFiniteSet(Owing(u)) /\ Cardinality(Owing(u)) \in Nat
    BY OwingFinite
  <2>4. CASE /\ Owing(u)' \subseteq Owing(u) /\ rows'[u] = rows[u]
             /\ overall' + local'[u] <= overall + local[u]
    <3>1. Cardinality(Owing(u)') <= Cardinality(Owing(u)) /\ Cardinality(Owing(u)') \in Nat
      BY <2>3, <2>4, FS_Subset, FS_CardinalityType
    <3> QED
      BY <2>1, <2>2, <2>3, <2>4, <3>1
  <2>5. CASE /\ s \in Owing(u) /\ Owing(u)' = Owing(u) \ {s} /\ rows'[u] = rows[u]
             /\ overall' + local'[u] = overall + local[u] + 1
    <3>1. Cardinality(Owing(u)') = Cardinality(Owing(u)) - 1
      BY <2>3, <2>5, FS_RemoveElement
    <3> QED
      BY <2>1, <2>2, <2>3, <2>5, <3>1
  <2>6. CASE /\ Owing(u)' = Owing(u) \cup {s} /\ rows'[u] = rows[u] + 1
             /\ overall' + local'[u] = overall + local[u]
    <3>1. Cardinality(Owing(u)') <= Cardinality(Owing(u)) + 1 /\ Cardinality(Owing(u)') \in Nat
      <4>1. Cardinality(Owing(u) \cup {s})
               = IF s \in Owing(u) THEN Cardinality(Owing(u)) ELSE Cardinality(Owing(u)) + 1
        BY <2>3, FS_AddElement
      <4> QED
        BY <2>3, <2>6, <4>1
    <3> QED
      BY <2>1, <2>2, <2>3, <2>6, <3>1
  <2> QED
    BY <2>4, <2>5, <2>6
<1> QED
  BY <1>1, <1>2 DEF VersionInv, VersionsOwed

(* A step that leaves nobody new publishing and no version higher.           *)
LEMMA VersionQuiet ==
    ASSUME VersionInv, TypeOK', UNCHANGED rows,
           \/ UNCHANGED <<overall, local>>
           \/ overall' = 0 /\ local' = [u \in Users |-> 0],
           \A s \in Sessions : session'[s] = session[s] \/ session'[s].pc # "publishing"
    PROVE  VersionInv'
<1>1. Publishing' \subseteq Publishing
  BY DEF Publishing
<1>2. ASSUME NEW u \in Users
      PROVE  /\ Owing(u)' \subseteq Owing(u) /\ rows'[u] = rows[u]
             /\ overall' + local'[u] <= overall + local[u]
  BY <1>1 DEF Owing, Publishing, VersionInv, TypeOK
<1>3. CASE Sessions = {}
  <2>1. \A u \in Users : Owing(u)' = Owing(u)
    BY <1>3 DEF Owing, Publishing
  <2>2. Publishing' = Publishing
    BY <1>3 DEF Publishing
  <2> QED
    BY <1>2, <2>1, <2>2, OwingFinite DEF VersionInv, VersionsOwed, TypeOK
<1>4. CASE Sessions # {}
  BY <1>1, <1>2, <1>4, VersionStep
<1> QED
  BY <1>3, <1>4

LEMMA VersionNext == VersionInv /\ [Next]_vars => VersionInv'
<1> SUFFICES ASSUME VersionInv, [Next]_vars PROVE VersionInv'
  OBVIOUS
<1>0. TypeOK /\ TypeOK'
  BY TypeStep DEF VersionInv
<1>1. ASSUME UNCHANGED <<rows, overall, local, session>> PROVE VersionInv'
  BY <1>0, <1>1, VersionQuiet
<1>2. ASSUME NEW r \in Readers,
             \/ \E u \in Users, q \in Queries : ReadKey(r, u, q)
             \/ Read(r)
      PROVE  VersionInv'
  <2>1. ReadHit(r) => UNCHANGED <<rows, overall, local, session>>
    BY DEF ReadHit
  <2>2. ReadMiss(r) \/ Query(r) \/ Return(r) => UNCHANGED <<rows, overall, local, session>>
    BY DEF ReadMiss, Query, Return
  <2>3. WriteKey(r) \/ WriteSet(r) => UNCHANGED <<rows, overall, local, session>>
    BY DEF WriteKey, WriteSet
  <2>4. (\E u \in Users, q \in Queries : ReadKey(r, u, q))
           => UNCHANGED <<rows, overall, local, session>>
    BY DEF ReadKey
  <2> QED
    BY <1>1, <1>2, <2>1, <2>2, <2>3, <2>4 DEF Read
<1>3. ASSUME NEW s \in Sessions, NEW T \in SUBSET Users, NEW all \in BOOLEAN,
             Flush(s, T, all)
      PROVE  VersionInv'
  BY <1>0, <1>3, VersionQuiet DEF Flush, TypeOK
<1>4. ASSUME NEW s \in Sessions, Rollback(s) PROVE VersionInv'
  BY <1>0, <1>4, VersionQuiet DEF Rollback, IdleSession, TypeOK
<1>5. ASSUME NEW s \in Sessions, Commit(s) PROVE VersionInv'
  <2>1. session[s] \in Session /\ session[s].pc = "flushed"
    BY <1>0, <1>5 DEF Commit, TypeOK
  <2>2. /\ session'[s].pc = "publishing"
        /\ session'[s].touched = session[s].touched
        /\ session'[s].everything = session[s].everything
        /\ \A w \in Sessions : w # s => session'[w] = session[w]
    BY <1>0, <1>5, <2>1 DEF Commit, Session, TypeOK
  <2>3. Publishing' = Publishing \cup {s}
    BY <2>1, <2>2 DEF Publishing
  <2>4. ASSUME NEW u \in Users
        PROVE  \/ /\ Owing(u)' = Owing(u) \cup {s} /\ rows'[u] = rows[u] + 1
                  /\ overall' + local'[u] = overall + local[u]
               \/ /\ Owing(u)' = Owing(u) /\ rows'[u] = rows[u]
                  /\ overall' + local'[u] = overall + local[u]
    <3>1. UNCHANGED <<overall, local>>
      BY <1>5 DEF Commit
    <3>2. CASE session[s].everything \/ u \in session[s].touched
      <4>1. rows'[u] = rows[u] + 1
        BY <1>5, <3>2 DEF Commit
      <4>2. Owing(u)' = Owing(u) \cup {s}
        BY <2>1, <2>2, <3>2 DEF Owing, Publishing
      <4> QED
        BY <3>1, <4>1, <4>2
    <3>3. CASE ~(session[s].everything \/ u \in session[s].touched)
      <4>1. rows'[u] = rows[u]
        BY <1>5, <3>3 DEF Commit
      <4>2. Owing(u)' = Owing(u)
        BY <2>1, <2>2, <3>3 DEF Owing, Publishing
      <4> QED
        BY <3>1, <4>1, <4>2
    <3> QED
      BY <3>2, <3>3
  <2>5. \A u \in Users : overall + local[u] <= overall + local[u]
    BY <1>0 DEF TypeOK
  <2> QED
    BY <1>0, <2>3, <2>4, <2>5, VersionStep
<1>6. ASSUME NEW s \in Sessions, PublishEverything(s) PROVE VersionInv'
  <2>1. /\ session[s].pc = "publishing" /\ session[s].everything
        /\ session'[s].pc = "idle" /\ UNCHANGED <<rows, local>>
        /\ \A w \in Sessions : w # s => session'[w] = session[w]
    BY <1>0, <1>6 DEF PublishEverything, IdleSession, TypeOK
  <2>2. CASE ~up
    BY <1>0, <1>6, <2>1, <2>2, VersionQuiet DEF PublishEverything
  <2>3. CASE up
    <3>1. overall' = overall + 1
      BY <1>6, <2>3 DEF PublishEverything
    <3>2. Publishing' \subseteq Publishing
      BY <2>1 DEF Publishing
    <3>3. ASSUME NEW u \in Users
          PROVE  /\ s \in Owing(u) /\ Owing(u)' = Owing(u) \ {s} /\ rows'[u] = rows[u]
                 /\ overall' + local'[u] = overall + local[u] + 1
      <4>1. s \in Owing(u) /\ Owing(u)' = Owing(u) \ {s}
        BY <2>1 DEF Owing, Publishing
      <4> QED
        BY <1>0, <2>1, <3>1, <4>1 DEF TypeOK
    <3> QED
      BY <1>0, <3>2, <3>3, VersionStep
  <2> QED
    BY <2>2, <2>3
<1>7. ASSUME NEW s \in Sessions, NEW u \in Users, PublishOne(s, u) PROVE VersionInv'
  <2>1. /\ session[s].pc = "publishing" /\ ~session[s].everything
        /\ u \in session[s].touched /\ UNCHANGED <<rows, overall>>
        /\ session'[s].everything = FALSE
        /\ session'[s].touched = session[s].touched \ {u}
        /\ session[s].touched \ {u} # {} => session'[s].pc = "publishing"
        /\ \A w \in Sessions : w # s => session'[w] = session[w]
    BY <1>0, <1>7 DEF PublishOne, TypeOK
  <2>2. Publishing' \subseteq Publishing
    BY <2>1 DEF Publishing
  <2>3. s \in Owing(u) /\ Owing(u)' = Owing(u) \ {s}
    BY <2>1 DEF Owing, Publishing
  <2>4. \A w \in Users \ {u} : Owing(w)' = Owing(w)
    BY <2>1 DEF Owing, Publishing
  <2>5. /\ \A w \in Users \ {u} : local'[w] = local[w]
        /\ local'[u] = local[u] \/ local'[u] = local[u] + 1
    BY <1>0, <1>7 DEF PublishOne, TypeOK
  <2>6. ASSUME NEW w \in Users
        PROVE  \/ /\ Owing(w)' \subseteq Owing(w) /\ rows'[w] = rows[w]
                  /\ overall' + local'[w] <= overall + local[w]
               \/ /\ s \in Owing(w) /\ Owing(w)' = Owing(w) \ {s} /\ rows'[w] = rows[w]
                  /\ overall' + local'[w] = overall + local[w] + 1
    <3>1. overall \in Nat /\ local[w] \in Nat
      BY <1>0 DEF TypeOK
    <3> QED
      BY <2>1, <2>3, <2>4, <2>5, <3>1
  <2> QED
    BY <1>0, <2>2, <2>6, VersionStep
<1>8. ASSUME NEW u \in Users, NEW q \in Queries, NEW k, Expire(u, q, k) PROVE VersionInv'
  BY <1>1, <1>8 DEF Expire
<1>9. CASE OutageStarts \/ OutageEnds
  BY <1>1, <1>9 DEF OutageStarts, OutageEnds
<1>10. CASE RedisRestart
  BY <1>0, <1>10, VersionQuiet DEF RedisRestart
<1>11. CASE ApiCrash
  BY <1>0, <1>11, VersionQuiet DEF ApiCrash, IdleSession
<1>12. CASE UNCHANGED vars
  BY <1>1, <1>12 DEF vars
<1> QED
  BY <1>2, <1>3, <1>4, <1>5, <1>6, <1>7, <1>8, <1>9, <1>10, <1>11, <1>12
     DEF Next, Publish

(* The version a ledger is filed under never runs ahead of its commits:      *)
(* publish_changes is sent once per committed change, never for one that was *)
(* rolled back or is not visible yet.                                        *)
THEOREM VersionsFollow == Spec => []VersionNeverAheadOfCommits
<1>1. Init => VersionInv
  <2> SUFFICES ASSUME Init PROVE VersionInv
    OBVIOUS
  <2>1. TypeOK
    BY DEF Init, TypeOK, Entry, Session, IdleSession
  <2>2. Publishing = {} /\ \A u \in Users : Owing(u) = {}
    BY DEF Init, Publishing, Owing, IdleSession
  <2>3. IsFiniteSet({}) /\ Cardinality({}) = 0
    BY FS_EmptySet
  <2> QED
    BY <2>1, <2>2, <2>3 DEF Init, VersionInv, VersionsOwed
<1>2. VersionInv => VersionNeverAheadOfCommits
  <2> SUFFICES ASSUME VersionInv, NEW u \in Users PROVE overall + local[u] <= rows[u]
    BY DEF VersionNeverAheadOfCommits
  <2>1. overall + local[u] + Cardinality(Owing(u)) <= rows[u]
    BY DEF VersionInv, VersionsOwed
  <2> QED
    BY <2>1, OwingFinite DEF VersionInv, TypeOK
<1> QED
  BY <1>1, <1>2, VersionNext, PTL DEF Spec
=============================================================================
