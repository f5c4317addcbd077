---------------------------- MODULE RateLimiter ----------------------------
(***************************************************************************)
(* The sliding window that limits attempts on one key, such as wrong        *)
(* passwords for one address, as the sign-in handler uses it: it peeks,     *)
(* lets the attempt be made, and counts it afterwards or clears the key.    *)
(* Hits are kept in Redis, and in this process while Redis does not answer; *)
(* every call falls back by itself.  Without a Redis URL all of them do.    *)
(*                                                                          *)
(* Redis runs a script whole.  A hit has no time of day here, only the time *)
(* it has left in its window; pruning and the expiry of keys drop what has  *)
(* none left.                                                               *)
(***************************************************************************)
EXTENDS Integers, FiniteSets

CONSTANTS
    Attempts,     \* identities, used again once their hit is out of the window
    Threads,      \* request threads
    Limit,        \* LOGIN_MAX_ATTEMPTS and the like
    Window        \* window_seconds, in ticks

ASSUME AttemptsAssumption == IsFiniteSet(Attempts)
ASSUME NumbersAssumption ==
    Threads \in Nat \ {0} /\ Limit \in Nat \ {0} /\ Window \in Nat \ {0}

VARIABLES
    attempt,      \* what each attempt is doing
    life,         \* the time its hit has left in the window, 0 for none
    redis,        \* the attempts with a hit in Redis
    fallback,     \* ... in the bucket of this process
    blind,        \* history: attempts that Redis did not answer
    forgiven      \* history: attempts whose hit was dropped before its time

stores == <<redis, fallback, life, forgiven>>
vars   == <<attempt, stores, blind>>

States == {"idle", "passed", "refused", "trying", "failed", "recorded", "right", "clearing"}

TypeOK ==
    /\ attempt \in [Attempts -> States]
    /\ life \in [Attempts -> 0 .. Window]
    /\ redis \in SUBSET Attempts
    /\ fallback \in SUBSET Attempts
    /\ blind \in SUBSET Attempts
    /\ forgiven \in SUBSET Attempts

Init ==
    /\ attempt = [a \in Attempts |-> "idle"]
    /\ life = [a \in Attempts |-> 0]
    /\ redis = {} /\ fallback = {} /\ blind = {} /\ forgiven = {}

Under(n) == Cardinality(n) < Limit

(* A free identity and a free thread.                                        *)
CanStart(a) ==
    /\ attempt[a] = "idle" /\ life[a] = 0
    /\ Cardinality({b \in Attempts : attempt[b] # "idle"}) < Threads

(* Hits dropped from one store count as forgiven unless the other has them.  *)
Forgive(dropped, kept) == forgiven' = forgiven \cup (dropped \ kept)

----------------------------------------------------------------------------
(* peek.                                                                     *)

(* Mutant: the attempt that reaches the limit is let through.                *)
AskRedisLate(a) ==
    /\ CanStart(a)
    /\ attempt' = [attempt EXCEPT ![a] =
          IF Cardinality(redis) <= Limit THEN "passed" ELSE "refused"]
    /\ blind' = blind \ {a}
    /\ UNCHANGED stores

AskRedis(a) ==
    /\ CanStart(a)
    /\ attempt' = [attempt EXCEPT ![a] = IF Under(redis) THEN "passed" ELSE "refused"]
    /\ blind' = blind \ {a}
    /\ UNCHANGED stores

(* Mutant: a refused attempt is counted too.                                 *)
PeekDoneCounting(a) ==
    /\ attempt[a] \in {"passed", "refused"}
    /\ attempt' = [attempt EXCEPT ![a] = IF @ = "passed" THEN "trying" ELSE "failed"]
    /\ fallback' = {}
    /\ Forgive(fallback, redis)
    /\ UNCHANGED <<redis, life, blind>>

(* Redis has answered, so the hits of the outage are dropped.                *)
PeekDone(a) ==
    /\ attempt[a] \in {"passed", "refused"}
    /\ attempt' = [attempt EXCEPT ![a] = IF @ = "passed" THEN "trying" ELSE "idle"]
    /\ fallback' = {}
    /\ Forgive(fallback, redis)
    /\ UNCHANGED <<redis, life, blind>>

(* Mutant: without Redis everybody gets through.                             *)
AskFallbackOpen(a) ==
    /\ CanStart(a)
    /\ attempt' = [attempt EXCEPT ![a] = "trying"]
    /\ blind' = blind \cup {a}
    /\ UNCHANGED stores

AskFallback(a) ==
    /\ CanStart(a)
    /\ Under(fallback)
    /\ attempt' = [attempt EXCEPT ![a] = "trying"]
    /\ blind' = blind \cup {a}
    /\ UNCHANGED stores

----------------------------------------------------------------------------
(* The attempt itself.                                                       *)

(* Another key refuses it, the account is switched off, or it was right and  *)
(* the key is one that a right password does not clear.                      *)
Leave(a) ==
    /\ attempt[a] = "trying"
    /\ attempt' = [attempt EXCEPT ![a] = "idle"]
    /\ UNCHANGED <<stores, blind>>

Wrong(a) ==
    /\ attempt[a] = "trying"
    /\ attempt' = [attempt EXCEPT ![a] = "failed"]
    /\ UNCHANGED <<stores, blind>>

Right(a) ==
    /\ attempt[a] = "trying"
    /\ attempt' = [attempt EXCEPT ![a] = "right"]
    /\ UNCHANGED <<stores, blind>>

----------------------------------------------------------------------------
(* record.                                                                   *)

(* Mutant: the window starts a tick late.                                    *)
RecordRedisLater(a) ==
    /\ attempt[a] = "failed"
    /\ attempt' = [attempt EXCEPT ![a] = "recorded"]
    /\ redis' = redis \cup {a}
    /\ life' = [life EXCEPT ![a] = Window + 1]
    /\ UNCHANGED <<fallback, forgiven, blind>>

RecordRedis(a) ==
    /\ attempt[a] = "failed"
    /\ attempt' = [attempt EXCEPT ![a] = "recorded"]
    /\ redis' = redis \cup {a}
    /\ life' = [life EXCEPT ![a] = Window]
    /\ UNCHANGED <<fallback, forgiven, blind>>

RecordDone(a) ==
    /\ attempt[a] = "recorded"
    /\ attempt' = [attempt EXCEPT ![a] = "idle"]
    /\ fallback' = {}
    /\ Forgive(fallback, redis)
    /\ UNCHANGED <<redis, life, blind>>

(* Redis does not answer; it may have run the script all the same.           *)
RecordFallback(a, ran) ==
    /\ attempt[a] = "failed"
    /\ attempt' = [attempt EXCEPT ![a] = "idle"]
    /\ redis' = IF ran THEN redis \cup {a} ELSE redis
    /\ fallback' = fallback \cup {a}
    /\ life' = [life EXCEPT ![a] = Window]
    /\ blind' = blind \cup {a}
    /\ UNCHANGED forgiven

----------------------------------------------------------------------------
(* reset, after the right password.                                          *)

ResetFallback(a) ==
    /\ attempt[a] = "right"
    /\ attempt' = [attempt EXCEPT ![a] = "clearing"]
    /\ fallback' = {}
    /\ Forgive(fallback, redis)
    /\ UNCHANGED <<redis, life, blind>>

ResetRedis(a, ran) ==
    /\ attempt[a] = "clearing"
    /\ attempt' = [attempt EXCEPT ![a] = "idle"]
    /\ redis' = IF ran THEN {} ELSE redis
    /\ Forgive(redis \ redis', fallback)
    /\ UNCHANGED <<fallback, life, blind>>

----------------------------------------------------------------------------
(* Time, Redis and the process.                                              *)

Tick ==
    /\ life' = [a \in Attempts |-> IF life[a] > 0 THEN life[a] - 1 ELSE 0]
    /\ redis' = {a \in redis : life'[a] > 0}
    /\ fallback' = {a \in fallback : life'[a] > 0}
    /\ forgiven' = {a \in forgiven : life'[a] > 0}
    /\ blind' = {a \in blind : attempt[a] # "idle" \/ life'[a] > 0}
    /\ UNCHANGED attempt

RedisRestart ==
    /\ redis' = {}
    /\ Forgive(redis, fallback)
    /\ UNCHANGED <<attempt, fallback, life, blind>>

ApiCrash ==
    /\ attempt' = [a \in Attempts |-> "idle"]
    /\ fallback' = {}
    /\ Forgive(fallback, redis)
    /\ UNCHANGED <<redis, life, blind>>

----------------------------------------------------------------------------
Next ==
    \/ \E a \in Attempts :
          \/ AskRedis(a) \/ PeekDone(a) \/ AskFallback(a)
          \/ Leave(a) \/ Wrong(a) \/ Right(a)
          \/ RecordRedis(a) \/ RecordDone(a) \/ \E ran \in BOOLEAN : RecordFallback(a, ran)
          \/ ResetFallback(a) \/ \E ran \in BOOLEAN : ResetRedis(a, ran)
    \/ Tick \/ RedisRestart \/ ApiCrash

Spec == Init /\ [][Next]_vars

(* The clock does not stop, and a request ends.                              *)
FairSpec ==
    /\ Spec
    /\ WF_vars(Tick)
    /\ \A a \in Attempts : WF_vars(PeekDone(a)) /\ WF_vars(RecordDone(a))

----------------------------------------------------------------------------
(* Properties.                                                               *)

(* On its way from a peek that let it through to the store.                  *)
InFlight(a) == attempt[a] \in {"passed", "trying", "failed"}

(* Attempts are counted after they are made, so those under way when the     *)
(* limit is reached go past it, one for every other thread; nothing else     *)
(* does, as long as Redis answers: neither in any order of peeks and records *)
(* nor because a hit got lost.                                               *)
QuotaHolds ==
    Cardinality({a \in Attempts : /\ InFlight(a) \/ life[a] > 0
                                  /\ a \notin blind /\ a \notin forgiven}) < Limit + Threads

(* "A temporary Redis outage falls back to a process-local window, so the    *)
(* protection does not silently switch off" (README): the same bound holds   *)
(* for what was counted here while Redis was away.                           *)
LocalQuotaHolds ==
    Cardinality(fallback \cup {a \in Attempts : attempt[a] \in {"trying", "failed"}})
        < Limit + Threads

(* Attempts that were refused are not counted, so somebody who keeps trying  *)
(* is let in again once the window has passed.  Only Redis that keeps coming *)
(* and going can let so many through that the window stays full.             *)
LockoutsEnd == <>[](blind = {}) => []<>Under(redis)
=============================================================================
