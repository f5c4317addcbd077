--------------------------- MODULE BudgetWarnings ---------------------------
(***************************************************************************)
(* The warning mailed when a category goes over its monthly limit.          *)
(* Whatever raises its spending or sets its limit adds a background task,   *)
(* which reads the user, the limit and the spending, looks the warning up   *)
(* in notification_deliveries, sends it and records it; nothing is held     *)
(* from one of these steps to the next.                                     *)
(*                                                                          *)
(* One category in one month is modelled.  Its spending, what was spent and *)
(* what active plans will still charge, is one number; the key of a warning *)
(* is the limit it names.                                                   *)
(***************************************************************************)
EXTENDS Integers

CONSTANTS
    Limits,       \* monthly limits the category can have
    MaxUsed,      \* bound: spending stops there
    Tasks         \* background tasks of notify_budget_limit

ASSUME LimitsAssumption  == Limits \subseteq Nat \ {0}
ASSUME MaxUsedAssumption == MaxUsed \in Nat

VARIABLES
    used,         \* committed spending of the category
    limit,        \* its row of budgets, 0 for none
    alerts,       \* budget_alerts_enabled, and nothing else against a mail
    task,         \* what each background task is doing
    delivered,    \* the limits recorded in notification_deliveries
    sent,         \* history: limits a warning was sent for
    repeated,     \* history: limits it was sent for again
    excused,      \* history: limits that have a reason to be sent for again
    missed        \* history: why the latest overrun need not have been noticed

ledger == <<used, limit, alerts>>
mails  == <<delivered, sent, repeated, excused>>
vars   == <<ledger, task, mails, missed>>

Idle == [pc |-> "idle", limit |-> 0]
Task == [pc : {"queued", "loaded"}, limit : {0}]
        \cup [pc : {"summing", "checking", "sending", "marking"}, limit : Limits]

TypeOK ==
    /\ used \in 0 .. MaxUsed
    /\ limit \in Limits \cup {0}
    /\ alerts \in BOOLEAN
    /\ task \in [Tasks -> Task \cup {Idle}]
    /\ delivered \in SUBSET Limits
    /\ sent \in SUBSET Limits
    /\ repeated \in SUBSET Limits
    /\ excused \in SUBSET Limits
    /\ missed \in BOOLEAN

Init ==
    /\ used = 0 /\ limit = 0 /\ alerts = TRUE
    /\ task = [t \in Tasks |-> Idle]
    /\ delivered = {} /\ sent = {} /\ repeated = {} /\ excused = {}
    /\ missed = FALSE

(* Somebody has looked the warning up, found nothing, and not recorded it.   *)
Sending(l) == \E t \in Tasks : task[t].pc \in {"sending", "marking"} /\ task[t].limit = l

----------------------------------------------------------------------------
(* The ledger's handlers, which add the task once they have committed.       *)

AddTask(t) ==
    /\ task[t].pc = "idle"
    /\ task' = [task EXCEPT ![t] = [pc |-> "queued", limit |-> 0]]
    /\ missed' = FALSE
    /\ UNCHANGED <<alerts, mails>>

(* An expense recorded, raised or moved here; a plan added or changed.       *)
Spend(t) ==
    /\ used < MaxUsed
    /\ used' = used + 1
    /\ AddTask(t)
    /\ UNCHANGED limit

SetLimit(t, l) ==
    /\ limit' = l
    /\ AddTask(t)
    /\ UNCHANGED used

(* Deleting an expense, a plan or the limit adds no task, nor does moving an *)
(* expense to another category for the one it leaves.                        *)
Unspend ==
    /\ used > 0
    /\ used' = used - 1
    /\ UNCHANGED <<limit, alerts, task, mails, missed>>

(* ... not even deleting, or moving to another category, the charge of a     *)
(* plan that costs more by now: the plan counts as still to be charged.  Two *)
(* edits that cross, as LedgerEntries has it, add the task for the category  *)
(* they meant: spending or a limit changes in another one.                   *)
DropCharge ==
    /\ used < MaxUsed
    /\ used' = used + 1
    /\ missed' = TRUE
    /\ UNCHANGED <<limit, alerts, task, mails>>

CrossedLimit(l) ==
    /\ limit' = l
    /\ missed' = TRUE
    /\ UNCHANGED <<used, alerts, task, mails>>

RemoveLimit ==
    /\ limit' = 0
    /\ UNCHANGED <<used, alerts, task, mails, missed>>

(* Turning warnings on looks at nothing that was spent before.               *)
SetAlerts(flag) ==
    /\ alerts' = flag
    /\ missed' = (missed \/ (flag /\ ~alerts))
    /\ UNCHANGED <<used, limit, task, mails>>

----------------------------------------------------------------------------
(* notify_budget_limit and SendBudgetExceededNotification.                   *)

Goes(t, x) == task' = [task EXCEPT ![t] = x] /\ UNCHANGED ledger

LoadUser(t) ==
    /\ task[t].pc = "queued"
    /\ Goes(t, IF alerts THEN [pc |-> "loaded", limit |-> 0] ELSE Idle)
    /\ UNCHANGED <<mails, missed>>

(* Mutant: no limit counts as a limit of nothing.                            *)
LoadBudgetAnyway(t) ==
    /\ task[t].pc = "loaded"
    /\ Goes(t, [pc |-> "summing", limit |-> limit])
    /\ UNCHANGED <<mails, missed>>

LoadBudget(t) ==
    /\ task[t].pc = "loaded"
    /\ Goes(t, IF limit = 0 THEN Idle ELSE [pc |-> "summing", limit |-> limit])
    /\ UNCHANGED <<mails, missed>>

AddUp(t) ==
    /\ task[t].pc = "summing"
    /\ Goes(t, IF used <= task[t].limit THEN Idle ELSE [task[t] EXCEPT !.pc = "checking"])
    /\ UNCHANGED <<mails, missed>>

(* The transactions come through the ledger cache.  When it can answer with  *)
(* old ones is LedgerCache's subject; the sum is then any other sum.         *)
AddUpStale(t) ==
    /\ task[t].pc = "summing"
    /\ \/ Goes(t, Idle)
       \/ Goes(t, [task[t] EXCEPT !.pc = "checking"])
    /\ missed' = TRUE
    /\ UNCHANGED mails

(* Mutant: was_delivered looks for any limit of the month.                   *)
WasDeliveredAny(l) == delivered # {}

WasDelivered(l) == l \in delivered

AlreadyWarned(t) ==
    /\ task[t].pc = "checking"
    /\ WasDelivered(task[t].limit)
    /\ Goes(t, Idle)
    /\ UNCHANGED <<mails, missed>>

(* Mutant: nobody asks was_delivered.                                        *)
NotYetWarnedUnasked(t) ==
    /\ task[t].pc = "checking"
    /\ Goes(t, [task[t] EXCEPT !.pc = "sending"])
    /\ excused' = IF Sending(task[t].limit) THEN excused \cup {task[t].limit} ELSE excused
    /\ UNCHANGED <<delivered, sent, repeated, missed>>

NotYetWarned(t) ==
    /\ task[t].pc = "checking"
    /\ ~WasDelivered(task[t].limit)
    /\ Goes(t, [task[t] EXCEPT !.pc = "sending"])
    /\ excused' = IF Sending(task[t].limit) THEN excused \cup {task[t].limit} ELSE excused
    /\ UNCHANGED <<delivered, sent, repeated, missed>>

Send(t) ==
    /\ task[t].pc = "sending"
    /\ Goes(t, [task[t] EXCEPT !.pc = "marking"])
    /\ sent' = sent \cup {task[t].limit}
    /\ repeated' = repeated \cup (sent \cap {task[t].limit})
    /\ UNCHANGED <<delivered, excused, missed>>

(* mark_delivered: a second row for the key breaks the unique constraint,    *)
(* which ends the task too.                                                  *)
Mark(t) ==
    /\ task[t].pc = "marking"
    /\ Goes(t, Idle)
    /\ delivered' = delivered \cup {task[t].limit}
    /\ UNCHANGED <<sent, repeated, excused, missed>>

(* Mutant: a warning is recorded even if it could not be sent.               *)
FailsRecorded(t) ==
    /\ task[t].pc \in {"sending", "marking"}
    /\ Goes(t, Idle)
    /\ delivered' = delivered \cup {task[t].limit}
    /\ excused' = excused \cup {task[t].limit}
    /\ missed' = TRUE
    /\ UNCHANGED <<sent, repeated>>

(* The mail server refuses, the database is away, or the process dies: the   *)
(* task is over and nothing retries it.                                      *)
Fails(t) ==
    /\ task[t].pc # "idle"
    /\ Goes(t, Idle)
    /\ excused' = IF task[t].pc = "marking" THEN excused \cup {task[t].limit} ELSE excused
    /\ missed' = TRUE
    /\ UNCHANGED <<delivered, sent, repeated>>

----------------------------------------------------------------------------
Next ==
    \/ \E t \in Tasks :
          \/ Spend(t) \/ (\E l \in Limits : SetLimit(t, l))
          \/ LoadUser(t) \/ LoadBudget(t) \/ AddUp(t) \/ AddUpStale(t)
          \/ AlreadyWarned(t) \/ NotYetWarned(t) \/ Send(t) \/ Mark(t) \/ Fails(t)
    \/ Unspend \/ DropCharge \/ RemoveLimit \/ (\E l \in Limits : CrossedLimit(l))
    \/ \E flag \in BOOLEAN : SetAlerts(flag)

Spec == Init /\ [][Next]_vars

----------------------------------------------------------------------------
(* Properties.                                                               *)

(* Every task looks its warning up, mails and records it the way DeliveryLog *)
(* promises, whatever the other tasks do meanwhile: none mails what it found *)
(* recorded, or twice for one look, or records what it has not mailed.       *)
Mailing == [t \in Tasks |->
    IF task[t].pc \in {"sending", "marking"} THEN [pc |-> task[t].pc, key |-> task[t].limit]
    ELSE [pc |-> "none"]]

Log == INSTANCE DeliveryLog WITH
    Keys <- Limits, Attempts <- Tasks, recorded <- delivered, told <- sent, attempt <- Mailing

LogSpec == Log!Spec

(* What is recorded as delivered was sent: a warning that failed on its way  *)
(* leaves its key open for the next task.                                    *)
DeliveredWasSent == delivered \subseteq sent

(* A warning is repeated only if two tasks had looked its key up before      *)
(* either recorded it, or one failed between sending and recording.          *)
RepeatsExplained == repeated \subseteq excused

(* Once every task is through, a category over its limit has been warned     *)
(* about at that limit, however spending, refunds and new limits overlapped  *)
(* with the tasks and however often the limit came back to where it was.     *)
(* What a task failed at, or did not see in an old cache entry, what was     *)
(* spent while warnings were off, and what no task was added for, is made    *)
(* good by the next expense.                                                 *)
OverrunsAreNoticed ==
    (\A t \in Tasks : task[t] = Idle) /\ alerts /\ ~missed /\ limit # 0 /\ used > limit
        => limit \in delivered
=============================================================================
