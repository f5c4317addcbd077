-------------------------- MODULE RateLimiterProofs --------------------------
(***************************************************************************)
(* Proofs about RateLimiter, for any number of threads and any limit.  A    *)
(* peek that lets an attempt through is the only step that can add to what  *)
(* the quotas count; every other step is shown to add nothing, and for the  *)
(* peek the count is split into what the store holds and what the other     *)
(* threads are doing.                                                       *)
(***************************************************************************)
EXTENDS RateLimiter, FiniteSetTheorems, TLAPS

Busy    == {b \in Attempts : attempt[b] # "idle"}
Counted == {a \in Attempts : (InFlight(a) \/ life[a] > 0) /\ a \notin blind /\ a \notin forgiven}
Local   == fallback \cup {a \in Attempts : attempt[a] \in {"trying", "failed"}}

ThreadsHold == Cardinality(Busy) <= Threads

(* A hit that has time left is somewhere, or was forgiven, and an attempt    *)
(* under way has none yet.                                                   *)
HitsHold ==
    /\ \A a \in Attempts : life[a] > 0 =>
          a \in redis \/ a \in forgiven \/ (a \in fallback /\ a \in blind)
    /\ \A a \in redis \cup fallback \cup forgiven : life[a] > 0
    /\ \A a \in Attempts : attempt[a] \notin {"idle", "recorded"} => life[a] = 0
    /\ fallback \subseteq blind

----------------------------------------------------------------------------
(* The variables of RateLimiter keep their type.                             *)
THEOREM TypeCorrect == Spec => []TypeOK
<1>1. Init => TypeOK
  BY NumbersAssumption DEF Init, TypeOK, States
<1>2. TypeOK /\ [Next]_vars => TypeOK'
  <2> SUFFICES ASSUME TypeOK, [Next]_vars PROVE TypeOK'
    OBVIOUS
  <2> USE NumbersAssumption DEF TypeOK, States
  <2>1. ASSUME NEW a \in Attempts, AskRedis(a) PROVE TypeOK'
    BY <2>1 DEF AskRedis, stores
  <2>2. ASSUME NEW a \in Attempts, PeekDone(a) PROVE TypeOK'
    BY <2>2 DEF PeekDone, Forgive
  <2>3. ASSUME NEW a \in Attempts, AskFallback(a) PROVE TypeOK'
    BY <2>3 DEF AskFallback, stores
  <2>4. ASSUME NEW a \in Attempts, Leave(a) \/ Wrong(a) \/ Right(a) PROVE TypeOK'
    BY <2>4 DEF Leave, Wrong, Right, stores
  <2>5. ASSUME NEW a \in Attempts, RecordRedis(a) PROVE TypeOK'
    BY <2>5 DEF RecordRedis
  <2>6. ASSUME NEW a \in Attempts, RecordDone(a) PROVE TypeOK'
    BY <2>6 DEF RecordDone, Forgive
  <2>7. ASSUME NEW a \in Attempts, NEW ran \in BOOLEAN, RecordFallback(a, ran) PROVE TypeOK'
    BY <2>7 DEF RecordFallback
  <2>8. ASSUME NEW a \in Attempts, ResetFallback(a) PROVE TypeOK'
    BY <2>8 DEF ResetFallback, Forgive
  <2>9. ASSUME NEW a \in Attempts, NEW ran \in BOOLEAN, ResetRedis(a, ran) PROVE TypeOK'
    BY <2>9 DEF ResetRedis, Forgive
  <2>10. CASE Tick
    BY <2>10 DEF Tick
  <2>11. CASE RedisRestart
    BY <2>11 DEF RedisRestart, Forgive
  <2>12. CASE ApiCrash
    BY <2>12 DEF ApiCrash, Forgive
  <2>13. CASE UNCHANGED vars
    BY <2>13 DEF vars, stores
  <2> QED
    BY <2>1, <2>2, <2>3, <2>4, <2>5, <2>6, <2>7, <2>8, <2>9, <2>10, <2>11, <2>12, <2>13 DEF Next
<1> QED
  BY <1>1, <1>2, PTL DEF Spec

----------------------------------------------------------------------------
(* Counting.                                                                 *)

LEMMA SubsetCount ==
    ASSUME NEW S, NEW T, IsFiniteSet(T), S \subseteq T
    PROVE  Cardinality(S) \in Nat /\ Cardinality(T) \in Nat /\ Cardinality(S) <= Cardinality(T)
  BY FS_Subset, FS_CardinalityType

(* What one store holds and what the threads are doing, together.            *)
LEMMA SplitCount ==
    ASSUME NEW A \in SUBSET Attempts, NEW B \in SUBSET Attempts, NEW S \in SUBSET (A \cup B),
           Under(A), Cardinality(B) <= Threads
    PROVE  Cardinality(S) < Limit + Threads
<1>1. IsFiniteSet(A) /\ IsFiniteSet(B)
  BY FS_Subset, AttemptsAssumption
<1>2. /\ IsFiniteSet(A \cup B) /\ Cardinality(A \cup B) \in Nat
      /\ Cardinality(A) \in Nat /\ Cardinality(B) \in Nat
      /\ Cardinality(A \cup B) <= Cardinality(A) + Cardinality(B)
  <2>1. IsFiniteSet(A \cup B) /\ Cardinality(A \cup B) =
            Cardinality(A) + Cardinality(B) - Cardinality(A \cap B)
    BY <1>1, FS_Union
  <2>2. IsFiniteSet(A \cap B)
    BY <1>1, FS_Subset
  <2>3. /\ Cardinality(A \cup B) \in Nat /\ Cardinality(A \cap B) \in Nat
        /\ Cardinality(A) \in Nat /\ Cardinality(B) \in Nat
    BY <1>1, <2>1, <2>2, FS_CardinalityType
  <2> QED
    BY <2>1, <2>3
<1>3. Cardinality(S) \in Nat /\ Cardinality(S) <= Cardinality(A \cup B)
  BY <1>2, SubsetCount
<1> QED
  BY <1>2, <1>3, NumbersAssumption DEF Under

----------------------------------------------------------------------------
(* The threads.                                                              *)

LEMMA ThreadsStay == TypeOK /\ ThreadsHold /\ [Next]_vars => ThreadsHold'
<1> SUFFICES ASSUME TypeOK, ThreadsHold, [Next]_vars PROVE ThreadsHold'
  OBVIOUS
<1>1. IsFiniteSet(Busy) /\ Cardinality(Busy) \in Nat
  BY FS_Subset, FS_CardinalityType, AttemptsAssumption DEF Busy
<1>2. ASSUME Busy' \subseteq Busy PROVE ThreadsHold'
  <2>1. Cardinality(Busy') \in Nat /\ Cardinality(Busy') <= Cardinality(Busy)
    BY <1>1, <1>2, SubsetCount
  <2> QED
    BY <1>1, <2>1, NumbersAssumption DEF ThreadsHold
<1>3. ASSUME NEW a \in Attempts, AskRedis(a) \/ AskFallback(a) PROVE ThreadsHold'
  <2>1. CanStart(a)
    BY <1>3 DEF AskRedis, AskFallback
  <2>2. Cardinality(Busy) < Threads
    BY <2>1 DEF CanStart, Busy
  <2>3. Busy' \subseteq Busy \cup {a}
    BY <1>3 DEF AskRedis, AskFallback, Busy, TypeOK
  <2>4. /\ IsFiniteSet(Busy \cup {a}) /\ Cardinality(Busy \cup {a}) \in Nat
        /\ Cardinality(Busy \cup {a}) <= Cardinality(Busy) + 1
    BY <1>1, FS_AddElement, FS_CardinalityType
  <2>5. Cardinality(Busy') \in Nat /\ Cardinality(Busy') <= Cardinality(Busy \cup {a})
    BY <2>3, <2>4, SubsetCount
  <2> QED
    BY <1>1, <2>2, <2>4, <2>5, NumbersAssumption DEF ThreadsHold
<1>4. ASSUME NEW a \in Attempts,
             \/ PeekDone(a) \/ Leave(a) \/ Wrong(a) \/ Right(a)
             \/ RecordRedis(a) \/ RecordDone(a) \/ (\E ran \in BOOLEAN : RecordFallback(a, ran))
             \/ ResetFallback(a) \/ (\E ran \in BOOLEAN : ResetRedis(a, ran))
      PROVE  ThreadsHold'
  <2>1. \A b \in Attempts \ {a} : attempt'[b] = attempt[b]
    BY <1>4 DEF TypeOK, PeekDone, Leave, Wrong, Right, RecordRedis, RecordDone,
       RecordFallback, ResetFallback, ResetRedis
  <2>2. attempt[a] # "idle"
    BY <1>4 DEF PeekDone, Leave, Wrong, Right, RecordRedis, RecordDone,
       RecordFallback, ResetFallback, ResetRedis
  <2> QED
    BY <1>2, <2>1, <2>2 DEF Busy
<1>5. CASE Tick \/ RedisRestart \/ UNCHANGED vars
  BY <1>2, <1>5 DEF Tick, RedisRestart, vars, Busy
<1>6. CASE ApiCrash
  BY <1>2, <1>6 DEF ApiCrash, Busy
<1> QED
  BY <1>3, <1>4, <1>5, <1>6 DEF Next

----------------------------------------------------------------------------
(* The hits.                                                                 *)

LEMMA HitsStay == TypeOK /\ HitsHold /\ [Next]_vars => HitsHold'
<1> SUFFICES ASSUME TypeOK, HitsHold, [Next]_vars PROVE HitsHold'
  OBVIOUS
<1>1. ASSUME NEW a \in Attempts, AskRedis(a) PROVE HitsHold'
  <2>1. /\ life[a] = 0 /\ \A b \in Attempts : b # a => attempt'[b] = attempt[b]
        /\ blind' = blind \ {a} /\ UNCHANGED stores
    BY <1>1 DEF AskRedis, CanStart, TypeOK
  <2> QED
    BY <2>1 DEF HitsHold, stores, TypeOK
<1>2. ASSUME NEW a \in Attempts, AskFallback(a) PROVE HitsHold'
  <2>1. /\ life[a] = 0 /\ \A b \in Attempts : b # a => attempt'[b] = attempt[b]
        /\ blind' = blind \cup {a} /\ UNCHANGED stores
    BY <1>2 DEF AskFallback, CanStart, TypeOK
  <2> QED
    BY <2>1 DEF HitsHold, stores, TypeOK
<1>3. ASSUME NEW a \in Attempts, Leave(a) \/ Wrong(a) \/ Right(a) PROVE HitsHold'
  <2>1. /\ attempt[a] = "trying" /\ \A b \in Attempts : b # a => attempt'[b] = attempt[b]
        /\ UNCHANGED <<stores, blind>>
    BY <1>3 DEF Leave, Wrong, Right, TypeOK
  <2> QED
    BY <2>1 DEF HitsHold, stores
<1>4. ASSUME NEW a \in Attempts, PeekDone(a) \/ RecordDone(a) \/ ResetFallback(a)
      PROVE  HitsHold'
  <2>1. /\ \A b \in Attempts : attempt'[b] \notin {"idle", "recorded"}
              => attempt[b] \notin {"idle", "recorded"}
        /\ fallback' = {} /\ forgiven' = forgiven \cup (fallback \ redis)
        /\ UNCHANGED <<redis, life, blind>>
    BY <1>4 DEF PeekDone, RecordDone, ResetFallback, Forgive, TypeOK
  <2> QED
    BY <2>1 DEF HitsHold
<1>5. ASSUME NEW a \in Attempts, RecordRedis(a) PROVE HitsHold'
  <2>1. /\ \A b \in Attempts : b # a => attempt'[b] = attempt[b] /\ life'[b] = life[b]
        /\ attempt'[a] = "recorded" /\ life'[a] = Window
        /\ redis' = redis \cup {a} /\ UNCHANGED <<fallback, forgiven, blind>>
    BY <1>5 DEF RecordRedis, TypeOK
  <2> QED
    BY <2>1, NumbersAssumption DEF HitsHold, TypeOK
<1>6. ASSUME NEW a \in Attempts, NEW ran \in BOOLEAN, RecordFallback(a, ran) PROVE HitsHold'
  <2>1. /\ \A b \in Attempts : b # a => attempt'[b] = attempt[b] /\ life'[b] = life[b]
        /\ attempt'[a] = "idle" /\ life'[a] = Window
        /\ redis \subseteq redis' /\ redis' \subseteq redis \cup {a}
        /\ fallback' = fallback \cup {a} /\ blind' = blind \cup {a} /\ UNCHANGED forgiven
    BY <1>6 DEF RecordFallback, TypeOK
  <2> QED
    BY <2>1, NumbersAssumption DEF HitsHold, TypeOK
<1>7. ASSUME NEW a \in Attempts, NEW ran \in BOOLEAN, ResetRedis(a, ran) PROVE HitsHold'
  <2>1. /\ \A b \in Attempts : attempt'[b] \notin {"idle", "recorded"}
              => attempt[b] \notin {"idle", "recorded"}
        /\ redis' \subseteq redis /\ forgiven' = forgiven \cup ((redis \ redis') \ fallback)
        /\ UNCHANGED <<fallback, life, blind>>
    BY <1>7 DEF ResetRedis, Forgive, TypeOK
  <2> QED
    BY <2>1 DEF HitsHold
<1>8. CASE Tick
  <2>1. \A b \in Attempts : life'[b] \in Nat /\ (life'[b] > 0 => life[b] > 0)
                            /\ (life[b] = 0 => life'[b] = 0)
    BY <1>8, NumbersAssumption DEF Tick, TypeOK
  <2>2. /\ redis' = {b \in redis : life'[b] > 0}
        /\ fallback' = {b \in fallback : life'[b] > 0}
        /\ forgiven' = {b \in forgiven : life'[b] > 0}
        /\ blind' = {b \in blind : attempt[b] # "idle" \/ life'[b] > 0}
        /\ UNCHANGED attempt
    BY <1>8 DEF Tick
  <2> QED
    BY <2>1, <2>2 DEF HitsHold, TypeOK
<1>9. CASE RedisRestart
  BY <1>9 DEF RedisRestart, Forgive, HitsHold
<1>10. CASE ApiCrash
  BY <1>10 DEF ApiCrash, Forgive, HitsHold
<1>11. CASE UNCHANGED vars
  BY <1>11 DEF vars, stores, HitsHold
<1> QED
  BY <1>1, <1>2, <1>3, <1>4, <1>5, <1>6, <1>7, <1>8, <1>9, <1>10, <1>11 DEF Next

----------------------------------------------------------------------------
(* The quota.                                                                *)

LEMMA CountedIsCovered == TypeOK /\ HitsHold => Counted \subseteq redis \cup Busy
  BY DEF TypeOK, HitsHold, Counted, InFlight, Busy

LEMMA QuotaStays ==
    TypeOK /\ TypeOK' /\ ThreadsHold' /\ HitsHold /\ HitsHold' /\ QuotaHolds /\ [Next]_vars
        => QuotaHolds'
<1> SUFFICES ASSUME TypeOK, TypeOK', ThreadsHold', HitsHold, HitsHold', QuotaHolds, [Next]_vars
             PROVE  QuotaHolds'
  OBVIOUS
<1>1. ASSUME Counted' \subseteq Counted PROVE QuotaHolds'
  <2>1. IsFiniteSet(Counted)
    BY FS_Subset, AttemptsAssumption DEF Counted
  <2>2. /\ Cardinality(Counted) \in Nat /\ Cardinality(Counted') \in Nat
        /\ Cardinality(Counted') <= Cardinality(Counted)
    BY <1>1, <2>1, SubsetCount
  <2>3. Cardinality(Counted) < Limit + Threads
    BY DEF QuotaHolds, Counted
  <2>4. Cardinality(Counted') < Limit + Threads
    BY <2>2, <2>3, NumbersAssumption
  <2> QED
    BY <2>4 DEF QuotaHolds, Counted
<1>2. ASSUME NEW a \in Attempts, AskRedis(a) PROVE QuotaHolds'
  <2>1. CASE Under(redis)
    <3>1. Under(redis') /\ redis' \in SUBSET Attempts
      BY <1>2, <2>1 DEF AskRedis, stores, Under, TypeOK
    <3>2. Counted' \subseteq redis' \cup Busy'
      BY DEF TypeOK, HitsHold, Counted, InFlight, Busy
    <3>3. Cardinality(Busy') <= Threads /\ Busy' \in SUBSET Attempts
      BY DEF ThreadsHold, Busy
    <3>4. \A A, B \in SUBSET Attempts : \A S \in SUBSET (A \cup B) :
             Under(A) /\ Cardinality(B) <= Threads => Cardinality(S) < Limit + Threads
      BY SplitCount
    <3>5. Cardinality(redis') < Limit
      BY <3>1 DEF Under
    <3>6. Cardinality(Counted') < Limit + Threads
      BY <3>2, <3>3, <3>4, <3>5, <3>1 DEF Under
    <3> QED
      BY <3>6 DEF QuotaHolds, Counted
  <2>2. CASE ~Under(redis)
    <3>1. /\ attempt' = [attempt EXCEPT ![a] = "refused"] /\ attempt[a] = "idle"
          /\ life[a] = 0 /\ blind' = blind \ {a} /\ UNCHANGED stores
      BY <1>2, <2>2 DEF AskRedis, CanStart
    <3> QED
      BY <1>1, <3>1 DEF Counted, InFlight, stores, TypeOK
  <2> QED
    BY <2>1, <2>2
<1>3. ASSUME NEW a \in Attempts, AskFallback(a) PROVE QuotaHolds'
  BY <1>1, <1>3 DEF AskFallback, Counted, InFlight, stores, TypeOK
<1>4. ASSUME NEW a \in Attempts, Leave(a) \/ Wrong(a) \/ Right(a) PROVE QuotaHolds'
  BY <1>1, <1>4 DEF Leave, Wrong, Right, Counted, InFlight, stores, TypeOK
<1>5. ASSUME NEW a \in Attempts,
             \/ PeekDone(a) \/ RecordDone(a) \/ ResetFallback(a)
             \/ (\E ran \in BOOLEAN : ResetRedis(a, ran))
      PROVE  QuotaHolds'
  <2>1. /\ \A b \in Attempts : InFlight(b)' => InFlight(b)
        /\ forgiven \subseteq forgiven' /\ UNCHANGED <<life, blind>>
    BY <1>5 DEF PeekDone, RecordDone, ResetFallback, ResetRedis, Forgive, InFlight, TypeOK
  <2> QED
    BY <1>1, <2>1 DEF Counted
<1>6. ASSUME NEW a \in Attempts, RecordRedis(a) PROVE QuotaHolds'
  <2>1. /\ \A b \in Attempts : b # a => attempt'[b] = attempt[b] /\ life'[b] = life[b]
        /\ InFlight(a) /\ UNCHANGED <<forgiven, blind>>
    BY <1>6 DEF RecordRedis, InFlight, TypeOK
  <2> QED
    BY <1>1, <2>1 DEF Counted, InFlight
<1>7. ASSUME NEW a \in Attempts, NEW ran \in BOOLEAN, RecordFallback(a, ran) PROVE QuotaHolds'
  <2>1. /\ \A b \in Attempts : b # a => attempt'[b] = attempt[b] /\ life'[b] = life[b]
        /\ blind' = blind \cup {a} /\ UNCHANGED forgiven
    BY <1>7 DEF RecordFallback, TypeOK
  <2> QED
    BY <1>1, <2>1 DEF Counted, InFlight
<1>8. CASE Tick
  <2>1. \A b \in Attempts : life'[b] > 0 => life[b] > 0
    BY <1>8, NumbersAssumption DEF Tick, TypeOK
  <2>2. \A b \in forgiven : life'[b] > 0 => b \in forgiven'
    BY <1>8 DEF Tick
  <2>3. \A b \in blind : life'[b] > 0 \/ attempt[b] # "idle" => b \in blind'
    BY <1>8 DEF Tick
  <2>4. attempt' = attempt
    BY <1>8 DEF Tick
  <2>5. \A b \in Attempts : InFlight(b) => b \notin forgiven
    BY DEF HitsHold, InFlight, TypeOK
  <2> QED
    BY <1>1, <2>1, <2>2, <2>3, <2>4, <2>5 DEF Counted, InFlight
<1>9. CASE RedisRestart
  BY <1>1, <1>9 DEF RedisRestart, Forgive, Counted, InFlight
<1>10. CASE ApiCrash
  BY <1>1, <1>10 DEF ApiCrash, Forgive, Counted, InFlight
<1>11. CASE UNCHANGED vars
  BY <1>1, <1>11 DEF vars, stores, Counted, InFlight
<1> QED
  BY <1>2, <1>3, <1>4, <1>5, <1>6, <1>7, <1>8, <1>9, <1>10, <1>11 DEF Next

LEMMA LocalQuotaStays ==
    TypeOK /\ TypeOK' /\ ThreadsHold' /\ LocalQuotaHolds /\ [Next]_vars => LocalQuotaHolds'
<1> SUFFICES ASSUME TypeOK, TypeOK', ThreadsHold', LocalQuotaHolds, [Next]_vars
             PROVE  LocalQuotaHolds'
  OBVIOUS
<1>1. ASSUME Local' \subseteq Local PROVE LocalQuotaHolds'
  <2>1. IsFiniteSet(Local)
    BY FS_Subset, AttemptsAssumption DEF Local, TypeOK
  <2>2. /\ Cardinality(Local) \in Nat /\ Cardinality(Local') \in Nat
        /\ Cardinality(Local') <= Cardinality(Local)
    BY <1>1, <2>1, SubsetCount
  <2>3. Cardinality(Local) < Limit + Threads
    BY DEF LocalQuotaHolds, Local
  <2>4. Cardinality(Local') < Limit + Threads
    BY <2>2, <2>3, NumbersAssumption
  <2> QED
    BY <2>4 DEF LocalQuotaHolds, Local
<1>2. ASSUME Under(fallback') PROVE LocalQuotaHolds'
  <2>1. Local' \subseteq fallback' \cup Busy'
    BY DEF Local, Busy
  <2>2. /\ fallback' \in SUBSET Attempts /\ Busy' \in SUBSET Attempts
        /\ Cardinality(Busy') <= Threads
    BY DEF TypeOK, ThreadsHold, Busy
  <2>3. \A A, B \in SUBSET Attempts : \A S \in SUBSET (A \cup B) :
           Cardinality(A) < Limit /\ Cardinality(B) <= Threads
               => Cardinality(S) < Limit + Threads
    BY SplitCount DEF Under
  <2>4. Cardinality(fallback') < Limit
    BY <1>2 DEF Under
  <2>5. Cardinality(Local') < Limit + Threads
    BY <2>1, <2>2, <2>3, <2>4
  <2> QED
    BY <2>5 DEF LocalQuotaHolds, Local
<1>3. ASSUME NEW a \in Attempts, AskRedis(a) PROVE LocalQuotaHolds'
  BY <1>1, <1>3 DEF AskRedis, Local, stores, TypeOK
<1>4. ASSUME NEW a \in Attempts, AskFallback(a) PROVE LocalQuotaHolds'
  BY <1>2, <1>4 DEF AskFallback, stores, Under
<1>5. ASSUME fallback' = {} PROVE LocalQuotaHolds'
  BY <1>2, <1>5, FS_EmptySet, NumbersAssumption DEF Under
<1>6. ASSUME NEW a \in Attempts, PeekDone(a) \/ RecordDone(a) \/ ResetFallback(a)
      PROVE  LocalQuotaHolds'
  BY <1>5, <1>6 DEF PeekDone, RecordDone, ResetFallback
<1>7. ASSUME NEW a \in Attempts,
             \/ Leave(a) \/ Wrong(a) \/ Right(a) \/ RecordRedis(a)
             \/ (\E ran \in BOOLEAN : ResetRedis(a, ran))
      PROVE  LocalQuotaHolds'
  BY <1>1, <1>7 DEF Leave, Wrong, Right, RecordRedis, ResetRedis, Local, stores, TypeOK
<1>8. ASSUME NEW a \in Attempts, NEW ran \in BOOLEAN, RecordFallback(a, ran)
      PROVE  LocalQuotaHolds'
  BY <1>1, <1>8 DEF RecordFallback, Local, TypeOK
<1>9. CASE Tick \/ RedisRestart \/ UNCHANGED vars
  BY <1>1, <1>9 DEF Tick, RedisRestart, vars, stores, Local
<1>10. CASE ApiCrash
  BY <1>5, <1>10 DEF ApiCrash
<1> QED
  BY <1>3, <1>4, <1>6, <1>7, <1>8, <1>9, <1>10 DEF Next

----------------------------------------------------------------------------
LEMMA InitQuota == Init => ThreadsHold /\ HitsHold /\ QuotaHolds /\ LocalQuotaHolds
<1> SUFFICES ASSUME Init PROVE ThreadsHold /\ HitsHold /\ QuotaHolds /\ LocalQuotaHolds
  OBVIOUS
<1>1. Busy = {} /\ Counted = {} /\ Local = {}
  BY DEF Init, Busy, Counted, Local, InFlight
<1>2. Cardinality({}) = 0
  BY FS_EmptySet
<1>3. HitsHold
  BY DEF Init, HitsHold
<1>4. 0 <= Threads /\ 0 < Limit + Threads
  BY NumbersAssumption
<1>5. ThreadsHold
  BY <1>1, <1>2, <1>4 DEF ThreadsHold, Busy
<1>6. QuotaHolds
  BY <1>1, <1>2, <1>4 DEF QuotaHolds, Counted
<1>7. LocalQuotaHolds
  BY <1>1, <1>2, <1>4 DEF LocalQuotaHolds, Local
<1> QED
  BY <1>3, <1>5, <1>6, <1>7

(* However peeks and records overlap, attempts that Redis answered exceed    *)
(* the limit by fewer than there are threads.                                *)
THEOREM QuotaIsKept == Spec => []QuotaHolds
  BY InitQuota, TypeCorrect, ThreadsStay, HitsStay, QuotaStays, PTL DEF Spec

(* The same bound for the attempts counted here while Redis was away.        *)
THEOREM LocalQuotaIsKept == Spec => []LocalQuotaHolds
  BY InitQuota, TypeCorrect, ThreadsStay, LocalQuotaStays, PTL DEF Spec
=============================================================================
