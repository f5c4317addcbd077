----------------------------- MODULE DeliveryLog -----------------------------
(***************************************************************************)
(* What notifications promise of notification_deliveries, without saying    *)
(* who mails what or when: a mail is only sent for a key that was not found *)
(* recorded, once for each time it was looked up, and a key is only         *)
(* recorded by the attempt that mailed it.  What is recorded stays so.      *)
(* BudgetWarnings and DailySummaries implement it.                          *)
(***************************************************************************)
CONSTANTS
    Keys,         \* reference keys of one kind of mail to one user
    Attempts      \* those who may be mailing at once

VARIABLES
    recorded,     \* keys with a row
    told,         \* keys a mail was sent for
    attempt       \* the key each attempt found unrecorded, and whether it was mailed

log == <<recorded, told, attempt>>

None == [pc |-> "none"]

Init ==
    /\ recorded = {} /\ told = {}
    /\ attempt = [a \in Attempts |-> None]

FindNone(a, k) ==
    /\ attempt[a] = None
    /\ k \notin recorded
    /\ attempt' = [attempt EXCEPT ![a] = [pc |-> "sending", key |-> k]]
    /\ UNCHANGED <<recorded, told>>

Tell(a) ==
    /\ attempt[a].pc = "sending"
    /\ attempt' = [attempt EXCEPT ![a] = [pc |-> "marking", key |-> attempt[a].key]]
    /\ told' = told \cup {attempt[a].key}
    /\ UNCHANGED recorded

Record(a) ==
    /\ attempt[a].pc = "marking"
    /\ attempt' = [attempt EXCEPT ![a] = None]
    /\ recorded' = recorded \cup {attempt[a].key}
    /\ UNCHANGED told

(* Mail, database or process fails.                                          *)
GiveUp(a) ==
    /\ attempt[a] # None
    /\ attempt' = [attempt EXCEPT ![a] = None]
    /\ UNCHANGED <<recorded, told>>

Next == \E a \in Attempts : (\E k \in Keys : FindNone(a, k)) \/ Tell(a) \/ Record(a) \/ GiveUp(a)

Spec == Init /\ [][Next]_log
=============================================================================
