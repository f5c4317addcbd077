---------------------------- MODULE LedgerCache ----------------------------
(***************************************************************************)
(* The read cache in front of one user's ledger: RedisCache, the SQLAlchemy *)
(* session listeners that invalidate it, and the two repository reads that  *)
(* go through it.  An entry is stored under a key that carries a global and *)
(* a per-user version; a commit that touched a ledger bumps the version, so *)
(* the old entries are orphaned rather than deleted.                        *)
(*                                                                          *)
(* The rows of a ledger are abstracted to the number of commits that        *)
(* changed them.  Every call to Redis is a step of its own, because readers *)
(* (request threads) and writers (request threads and the billing           *)
(* scheduler) interleave between them, and any of them can find Redis gone. *)
(***************************************************************************)
EXTENDS Integers, FiniteSets

CONSTANTS
    Users,       \* owners of ledgers, each a cache namespace
    Queries,     \* distinct read keys: a balance cut-off, a list filter
    Readers,     \* threads running a cached repository read
    Sessions,    \* SQLAlchemy sessions that write
    MaxCommits   \* bound: no write starts on a ledger with this many commits

ASSUME MaxCommitsAssumption == MaxCommits \in Nat

VARIABLES
    rows,        \* rows[u]: commits visible in PostgreSQL that changed u's answers
    up,          \* Redis answers
    overall,     \* GLOBAL_VERSION_KEY in Redis
    local,       \* local[u]: the version key of u's namespace
    entries,     \* the live entries of Redis
    reader,      \* per reader: where it is in get_balance / list_for_user
    session,     \* per session: session.info and where it is in its commit
    lost         \* history: u's latest invalidation failed or was never sent

vars == <<rows, up, overall, local, entries, reader, session, lost>>

Key     == [g : Nat, v : Nat]
Entry   == [user : Users, query : Queries, key : Key, rows : Nat, raced : BOOLEAN]

(* `floor' and `raced' are history.  raced: some commit newer than what this *)
(* fill read had already bumped the version when the fill computed its key.  *)
(* floor: what an answer to this read has to include at least.               *)
IdleReader == [pc |-> "idle", user |-> "none", query |-> "none",
               key |-> [g |-> 0, v |-> 0], rows |-> 0, raced |-> FALSE, floor |-> 0]
Reading == [pc : {"looking", "missed", "queried", "storing", "done"},
            user : Users, query : Queries, key : Key,
            rows : Nat, raced : BOOLEAN, floor : Nat]
Session == [pc : {"idle", "flushed", "publishing"},
            touched : SUBSET Users, everything : BOOLEAN]

TypeOK ==
    /\ rows \in [Users -> Nat]
    /\ up \in BOOLEAN
    /\ overall \in Nat
    /\ local \in [Users -> Nat]
    /\ entries \in SUBSET Entry
    /\ reader \in [Readers -> Reading \cup {IdleReader}]
    /\ session \in [Sessions -> Session]
    /\ lost \in [Users -> BOOLEAN]

(* Mutant: the namespace's own version is left out of the key.               *)
UnversionedKey(u) == [g |-> overall, v |-> 0]

FullKey(u) == [g |-> overall, v |-> local[u]]

(* A committed change of u whose INCR has not been attempted yet.            *)
Owed(u) == \E s \in Sessions :
    /\ session[s].pc = "publishing"
    /\ session[s].everything \/ u \in session[s].touched

Settled(u) == ~Owed(u) /\ ~lost[u]

IdleSession == [pc |-> "idle", touched |-> {}, everything |-> FALSE]

Init ==
    /\ rows = [u \in Users |-> 0]
    /\ up \in BOOLEAN
    /\ overall = 0
    /\ local = [u \in Users |-> 0]
    /\ entries = {}
    /\ reader = [r \in Readers |-> IdleReader]
    /\ session = [s \in Sessions |-> IdleSession]
    /\ lost = [u \in Users |-> FALSE]

----------------------------------------------------------------------------
(* Reading: SqlAlchemyTransactionRepository.get_balance and list_for_user.   *)

(* cache.read, first round trip: MGET of the two versions.                   *)
ReadKey(r, u, q) ==
    /\ reader[r].pc = "idle"
    /\ reader' = [reader EXCEPT ![r] =
          [pc |-> IF up THEN "looking" ELSE "missed", user |-> u, query |-> q,
           key |-> IF up THEN FullKey(u) ELSE @.key, rows |-> 0, raced |-> FALSE,
           floor |-> IF Settled(u) THEN rows[u] ELSE 0]]
    /\ UNCHANGED <<rows, up, overall, local, entries, session, lost>>

Found(rd) == {e \in entries : /\ e.user = rd.user /\ e.query = rd.query
                              /\ e.key = rd.key}

(* cache.read, second round trip: GET.  A hit is the answer.                 *)
ReadHit(r) ==
    /\ reader[r].pc = "looking"
    /\ up
    /\ \E e \in Found(reader[r]) :
          reader' = [reader EXCEPT ![r].pc = "done", ![r].rows = e.rows,
                                   ![r].raced = e.raced]
    /\ UNCHANGED <<rows, up, overall, local, entries, session, lost>>

(* Mutant: read() lets the RedisError escape and the request hangs on it.    *)
ReadMissUncaught(r) ==
    /\ reader[r].pc = "looking" /\ up /\ Found(reader[r]) = {}
    /\ reader' = [reader EXCEPT ![r].pc = "missed"]
    /\ UNCHANGED <<rows, up, overall, local, entries, session, lost>>

(* ... a miss, or a RedisError that read() turns into None.                  *)
ReadMiss(r) ==
    /\ reader[r].pc = "looking"
    /\ ~up \/ Found(reader[r]) = {}
    /\ reader' = [reader EXCEPT ![r].pc = "missed"]
    /\ UNCHANGED <<rows, up, overall, local, entries, session, lost>>

(* _query_balance / _query_for_user: one statement, one snapshot.            *)
Query(r) ==
    /\ reader[r].pc = "missed"
    /\ reader' = [reader EXCEPT ![r].pc = "queried",
                                ![r].rows = rows[reader[r].user]]
    /\ UNCHANGED <<rows, up, overall, local, entries, session, lost>>

(* cache.write, first round trip: the versions are fetched again.            *)
WriteKey(r) ==
    /\ reader[r].pc = "queried"
    /\ reader' = [reader EXCEPT
          ![r].pc    = IF up THEN "storing" ELSE "done",
          ![r].key   = IF up THEN FullKey(reader[r].user) ELSE @,
          ![r].raced = IF up THEN @ ELSE FALSE]
    /\ UNCHANGED <<rows, up, overall, local, entries, session, lost>>

Stored(rd) == [user |-> rd.user, query |-> rd.query, key |-> rd.key,
               rows |-> rd.rows, raced |-> rd.raced]

(* cache.write, second round trip: SET ... EX, replacing what is there.  The *)
(* caller returns what it queried, whether or not it could be stored.        *)
WriteSet(r) ==
    /\ reader[r].pc = "storing"
    /\ entries' = IF up THEN (entries \ Found(reader[r])) \cup {Stored(reader[r])}
                        ELSE entries
    /\ reader' = [reader EXCEPT ![r].pc = "done", ![r].raced = FALSE]
    /\ UNCHANGED <<rows, up, overall, local, session, lost>>

(* The response leaves; the thread serves another request.                   *)
Return(r) ==
    /\ reader[r].pc = "done"
    /\ reader' = [reader EXCEPT ![r] = IdleReader]
    /\ UNCHANGED <<rows, up, overall, local, entries, session, lost>>

----------------------------------------------------------------------------
(* Writing: the before_flush, after_commit and after_rollback listeners.     *)

(* Mutant: the invalidation is done in before_flush instead of noted there.  *)
FlushPublishes(s, T, all) ==
    /\ session[s].pc = "idle" /\ up /\ ~all /\ T # {}
    /\ \A u \in Users : rows[u] < MaxCommits
    /\ session' = [session EXCEPT ![s].pc = "flushed", ![s].touched = T]
    /\ local' = [u \in Users |-> IF u \in T THEN local[u] + 1 ELSE local[u]]
    /\ UNCHANGED <<rows, up, overall, entries, reader, lost>>

(* note_pending_changes: transactions and own categories name their user, a  *)
(* shared category names everybody.                                          *)
Flush(s, T, all) ==
    /\ session[s].pc = "idle"
    /\ T # {} \/ all
    /\ \A u \in Users : rows[u] < MaxCommits
    /\ session' = [session EXCEPT ![s] =
          [pc |-> "flushed", touched |-> @.touched \cup T,
           everything |-> @.everything \/ all]]
    /\ UNCHANGED <<rows, up, overall, local, entries, reader, lost>>

(* forget_pending_changes.                                                   *)
Rollback(s) ==
    /\ session[s].pc = "flushed"
    /\ session' = [session EXCEPT ![s] = IdleSession]
    /\ UNCHANGED <<rows, up, overall, local, entries, reader, lost>>

(* COMMIT, and the entry into publish_changes: session.info is emptied into  *)
(* the listener's own variables.                                             *)
Commit(s) ==
    /\ session[s].pc = "flushed"
    /\ rows' = [u \in Users |->
          IF session[s].everything \/ u \in session[s].touched
          THEN rows[u] + 1 ELSE rows[u]]
    /\ session' = [session EXCEPT ![s].pc = "publishing"]
    /\ UNCHANGED <<up, overall, local, entries, reader, lost>>

(* The fills of the ledgers in U that read before a commit and have not      *)
(* computed their key yet: history only.                                     *)
MarkRaced(U) == [r \in Readers |->
    IF /\ reader[r].pc = "queried" /\ reader[r].user \in U
       /\ reader[r].rows < rows[reader[r].user]
    THEN [reader[r] EXCEPT !.raced = TRUE] ELSE reader[r]]

(* invalidate_everything, then return: the set of users is not looked at.    *)
PublishEverything(s) ==
    /\ session[s].pc = "publishing" /\ session[s].everything
    /\ session' = [session EXCEPT ![s] = IdleSession]
    /\ IF up THEN /\ overall' = overall + 1
                  /\ lost' = [u \in Users |-> FALSE]
                  /\ reader' = MarkRaced(Users)
             ELSE /\ lost' = [u \in Users |-> TRUE]
                  /\ UNCHANGED <<overall, reader>>
    /\ UNCHANGED <<rows, up, local, entries>>

(* Mutant: the loop returns after its first user.                            *)
PublishFirstOnly(s, u) ==
    /\ session[s].pc = "publishing" /\ u \in session[s].touched /\ up
    /\ session' = [session EXCEPT ![s] = IdleSession]
    /\ local' = [local EXCEPT ![u] = @ + 1]
    /\ lost' = [lost EXCEPT ![u] = FALSE]
    /\ reader' = MarkRaced({u})
    /\ UNCHANGED <<rows, up, overall, entries>>

(* Mutant: the version counts down.                                          *)
PublishDecrements(s, u) ==
    /\ session[s].pc = "publishing" /\ session[s].touched = {u} /\ up
    /\ session' = [session EXCEPT ![s] = IdleSession]
    /\ local' = [local EXCEPT ![u] = @ - 1]
    /\ UNCHANGED <<rows, up, overall, entries, reader, lost>>

(* One turn of the loop over the touched users.  A RedisError is swallowed:  *)
(* the invalidation is not retried.                                          *)
PublishOne(s, u) ==
    /\ session[s].pc = "publishing" /\ ~session[s].everything
    /\ u \in session[s].touched
    /\ LET rest == session[s].touched \ {u} IN
       session' = [session EXCEPT ![s] =
          [pc |-> IF rest = {} THEN "idle" ELSE "publishing",
           touched |-> rest, everything |-> FALSE]]
    /\ IF up THEN /\ local' = [local EXCEPT ![u] = @ + 1]
                  /\ lost' = [lost EXCEPT ![u] = FALSE]
                  /\ reader' = MarkRaced({u})
             ELSE /\ lost' = [lost EXCEPT ![u] = TRUE]
                  /\ UNCHANGED <<local, reader>>
    /\ UNCHANGED <<rows, up, overall, entries>>

----------------------------------------------------------------------------
(* The environment: the two servers, and time.                               *)

(* Mutant: SET without EX.                                                   *)
NeverExpires(u, q, k) == FALSE /\ UNCHANGED vars

(* The TTL of an entry runs out.                                             *)
Expire(u, q, k) ==
    /\ \E e \in entries : e.user = u /\ e.query = q /\ e.key = k
    /\ entries' = {e \in entries : ~(e.user = u /\ e.query = q /\ e.key = k)}
    /\ UNCHANGED <<rows, up, overall, local, reader, session, lost>>

OutageStarts ==
    /\ up
    /\ up' = FALSE
    /\ UNCHANGED <<rows, overall, local, entries, reader, session, lost>>

OutageEnds ==
    /\ ~up
    /\ up' = TRUE
    /\ UNCHANGED <<rows, overall, local, entries, reader, session, lost>>

(* Redis keeps nothing on disk: the entries go, and so do the versions.  A   *)
(* fill that is under way may then store under a version that is yet to be   *)
(* reached again.                                                            *)
RedisRestart ==
    /\ overall' = 0
    /\ local' = [u \in Users |-> 0]
    /\ entries' = {}
    /\ lost' = [u \in Users |-> FALSE]
    /\ reader' = [r \in Readers |->
          IF \/ reader[r].pc = "storing"
             \/ reader[r].pc = "queried" /\ reader[r].rows < rows[reader[r].user]
          THEN [reader[r] EXCEPT !.raced = TRUE] ELSE reader[r]]
    /\ UNCHANGED <<rows, up, session>>

(* The API process dies: open transactions roll back, reads are abandoned,   *)
(* and a commit that had not been published never will be.                   *)
ApiCrash ==
    /\ lost' = [u \in Users |-> lost[u] \/ Owed(u)]
    /\ session' = [s \in Sessions |-> IdleSession]
    /\ reader' = [r \in Readers |-> IdleReader]
    /\ UNCHANGED <<rows, up, overall, local, entries>>

----------------------------------------------------------------------------
Read(r) == ReadHit(r) \/ ReadMiss(r) \/ Query(r) \/ WriteKey(r) \/ WriteSet(r) \/ Return(r)

Publish(s) == PublishEverything(s) \/ \E u \in Users : PublishOne(s, u)

Next ==
    \/ \E r \in Readers, u \in Users, q \in Queries : ReadKey(r, u, q)
    \/ \E r \in Readers : Read(r)
    \/ \E s \in Sessions, T \in SUBSET Users, all \in BOOLEAN : Flush(s, T, all)
    \/ \E s \in Sessions : Rollback(s) \/ Commit(s) \/ Publish(s)
    \/ \E u \in Users, q \in Queries, k \in {e.key : e \in entries} : Expire(u, q, k)
    \/ OutageStarts \/ OutageEnds \/ RedisRestart \/ ApiCrash

(* A request thread that started finishes, a session ends its transaction,   *)
(* and every entry was stored with a TTL.  Nothing is assumed about reads    *)
(* and writes being started, nor about outages ending.                       *)
Fairness ==
    /\ \A r \in Readers : WF_vars(Read(r))
    /\ \A s \in Sessions : WF_vars(Commit(s) \/ Rollback(s)) /\ WF_vars(Publish(s))
    /\ \A u \in Users, q \in Queries, g, v \in 0..(MaxCommits + Cardinality(Sessions)) :
          WF_vars(Expire(u, q, [g |-> g, v |-> v]))

Spec     == Init /\ [][Next]_vars
FairSpec == Spec /\ Fairness

----------------------------------------------------------------------------
(* Properties.                                                               *)

(* What a hit by this user would return now is behind what is committed.     *)
Stale(e) == e.key = FullKey(e.user) /\ e.rows < rows[e.user]

(* A stale hit is possible only in three ways: its fill raced an             *)
(* invalidation, the invalidation is about to be sent, or it was lost to an  *)
(* outage or a crash and no later one of that user has gone through since.   *)
(* (publish_changes runs after the commit; invalidate swallows RedisError.)  *)
StaleOnlyWhenExplained ==
    \A e \in entries : Stale(e) /\ ~e.raced => ~Settled(e.user)

(* A read that started when every commit of its user had been published      *)
(* answers with all of them, whatever is written, lost or restarted while it *)
(* runs, unless the entry it hit had been filed by a raced fill.             *)
PublishedWritesAreRead ==
    \A r \in Readers :
        reader[r].pc = "done" /\ ~reader[r].raced => reader[r].rows >= reader[r].floor

(* The version of a ledger never runs ahead of its commits: nothing is       *)
(* invalidated for rows other readers cannot see yet, or that were rolled    *)
(* back (note_pending_changes only notes; forget_pending_changes forgets).   *)
VersionNeverAheadOfCommits ==
    \A u \in Users : overall + local[u] <= rows[u]

(* Redis being down is not an outage: a read that started always ends.       *)
ReadsEnd == \A r \in Readers : reader[r].pc # "idle" ~> reader[r].pc = "idle"

(* Staleness heals by itself: once writing stops, there comes a time after   *)
(* which no stale entry can be hit, whatever raced or was lost before.       *)
StalenessHeals == <>[](\A e \in entries : ~Stale(e))
=============================================================================
