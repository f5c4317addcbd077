--------------------------- MODULE Subscriptions ---------------------------
(***************************************************************************)
(* One recurring charge: the plan's row, the charges posted from it, and    *)
(* everything that touches them.  The hourly scheduler and POST             *)
(* /subscriptions/process-due run the same ProcessDueSubscriptions, at the   *)
(* same time if it so happens, while the owner edits or cancels the plan    *)
(* and deletes charges.                                                     *)
(*                                                                          *)
(* One action is one statement or commit of a database session.  list_due   *)
(* locks the plan's row, and the first commit of its session gives the lock *)
(* up: the rest of the run works on the plan as it was loaded.              *)
(*                                                                          *)
(* A date is a month, counted from the first one, and a day of it.  The     *)
(* plan's name, amount and category ride along and are left out.            *)
(***************************************************************************)
EXTENDS Integers

CONSTANTS
    LastMonth,    \* bound: the calendar stops at the end of this month
    MaxDay,       \* the largest billing day (31)
    Length,       \* days in each month
    Runs,         \* runs of ProcessDueSubscriptions that may overlap
    Scheduler,    \* the run that belongs to subscription_scheduler
    Edits,        \* PATCH requests, each made at most once
    MaxAborts     \* bound: runs that die half way

ASSUME LastMonthAssumption == LastMonth \in Nat
ASSUME LengthAssumption    == /\ MaxDay \in Nat
                              /\ Length \in [0 .. LastMonth + 1 -> 1 .. MaxDay]
ASSUME SchedulerAssumption == Scheduler \in Runs
ASSUME MaxAbortsAssumption == MaxAborts \in Nat

VARIABLES
    plan,         \* the row of subscriptions
    charges,      \* rows of transactions that carry each charge date
    billed,       \* history: months that were ever charged
    today,
    run,          \* what each run is doing
    edit,         \* what each PATCH request is doing
    aborts,       \* runs that died so far
    torn          \* history: an edit was written over charges the plan did not know of

vars == <<plan, charges, billed, today, run, edit, aborts, torn>>

Months == 0 .. LastMonth + 1
Dates  == {d \in [month : Months, day : 1 .. MaxDay] : d.day <= Length[d.month]}
Days   == {d \in Dates : d.month <= LastMonth}      \* what `today' can be

OnOrBefore(d, e) == d.month < e.month \/ (d.month = e.month /\ d.day <= e.day)

(* Mutant: no month is ever too short.                                       *)
Unclamped(m, day) == [month |-> m, day |-> day]

(* min(billing_day, last_day), in month m.                                   *)
OnDay(m, day) == [month |-> m, day |-> IF day <= Length[m] THEN day ELSE Length[m]]

Epoch  == [month |-> 0, day |-> 1]
NoPlan == [status |-> "none", day |-> 1, next |-> Epoch, first |-> 0]
Plan   == [status : {"none", "active", "cancelled"}, day : 1 .. MaxDay,
           next : Dates, first : Months]

IdleRun == [pc |-> "idle", date |-> Epoch, day |-> 1, through |-> Epoch, locked |-> FALSE]
Run     == [pc : {"idle", "started", "charging", "inserting"}, date : Dates,
            day : 1 .. MaxDay, through : Days, locked : BOOLEAN]

ReadyEdit == [pc |-> "ready", old |-> 1, next |-> Epoch, new |-> 1]
Edit      == [pc : {"ready", "loaded", "done"}, old : 1 .. MaxDay,
              next : Dates, new : 1 .. MaxDay]

TypeOK ==
    /\ plan \in Plan
    /\ charges \in [Dates -> Nat]
    /\ billed \in SUBSET Months
    /\ today \in Days
    /\ run \in [Runs -> Run]
    /\ edit \in [Edits -> Edit]
    /\ aborts \in Nat
    /\ torn \in BOOLEAN

Init ==
    /\ plan = NoPlan
    /\ charges = [d \in Dates |-> 0]
    /\ billed = {}
    /\ today = Epoch
    /\ run = [r \in Runs |-> IdleRun]
    /\ edit = [e \in Edits |-> ReadyEdit]
    /\ aborts = 0
    /\ torn = FALSE

Locked == \E r \in Runs : run[r].locked

Running(r) == run[r].pc \in {"charging", "inserting"}

----------------------------------------------------------------------------
(* The owner.                                                                *)

(* CreateSubscription: the billing day is the first charge's.  The first     *)
(* charge may lie in the past.                                               *)
Create(d) ==
    /\ plan.status = "none"
    /\ plan' = [status |-> "active", day |-> d.day, next |-> d, first |-> d.month]
    /\ UNCHANGED <<charges, billed, today, run, edit, aborts, torn>>

(* RemoveSubscription.                                                       *)
Deactivate ==
    /\ plan.status = "active"
    /\ ~Locked
    /\ plan' = [plan EXCEPT !.status = "cancelled"]
    /\ UNCHANGED <<charges, billed, today, run, edit, aborts, torn>>

(* UpdateSubscription reads the row without locking it ...                   *)
EditLoad(e, new) ==
    /\ edit[e].pc = "ready"
    /\ plan.status = "active"
    /\ edit' = [edit EXCEPT ![e] =
          [pc |-> "loaded", old |-> plan.day, next |-> plan.next, new |-> new]]
    /\ UNCHANGED <<plan, charges, billed, today, run, aborts, torn>>

(* ... and writes the columns it changed.  The pending charge, as it was     *)
(* read, keeps its month.                                                    *)
Moved(e) == OnDay(edit[e].next.month, edit[e].new)

(* An edit that sees every charge: the pending one is where it was read, no  *)
(* run holds a copy of the plan, and no month from there on is charged.      *)
SeesCharges(e) ==
    /\ edit[e].next = plan.next
    /\ \A r \in Runs : ~Running(r)
    /\ \A d \in Dates : charges[d] > 0 => d.month < plan.next.month

EditCommit(e) ==
    /\ edit[e].pc = "loaded"
    /\ ~Locked
    /\ plan' = IF edit[e].new = edit[e].old THEN plan
               ELSE [plan EXCEPT !.day  = edit[e].new,
                                 !.next = IF Moved(e) = edit[e].next THEN plan.next
                                          ELSE Moved(e)]
    /\ torn' = (torn \/ (edit[e].new # edit[e].old /\ ~SeesCharges(e)))
    /\ edit' = [edit EXCEPT ![e].pc = "done"]
    /\ UNCHANGED <<charges, billed, today, run, aborts>>

(* SqlAlchemyTransactionRepository.remove, of a charge.                      *)
RemoveCharge(d) ==
    /\ charges[d] > 0
    /\ charges' = [charges EXCEPT ![d] = @ - 1]
    /\ UNCHANGED <<plan, billed, today, run, edit, aborts, torn>>

----------------------------------------------------------------------------
(* ProcessDueSubscriptions.                                                  *)

(* Mutant: the day is carried over from the last charge.                     *)
DriftingCharge(d, day) == OnDay(d.month + 1, d.day)

NextMonthCharge(d, day) == OnDay(d.month + 1, day)

(* The scheduler and the endpoint look at the calendar once, first.          *)
StartRun(r) ==
    /\ run[r].pc = "idle"
    /\ run' = [run EXCEPT ![r] = [IdleRun EXCEPT !.pc = "started", !.through = today]]
    /\ UNCHANGED <<plan, charges, billed, today, edit, aborts, torn>>

(* Mutant: a charge is due only on its day.                                  *)
DueToday(r) == plan.status = "active" /\ plan.next = run[r].through

Due(r) == plan.status = "active" /\ OnOrBefore(plan.next, run[r].through)

(* list_due, FOR UPDATE.                                                     *)
ListDue(r) ==
    /\ run[r].pc = "started"
    /\ ~Locked
    /\ Due(r)
    /\ run' = [run EXCEPT ![r].pc = "charging", ![r].date = plan.next,
                          ![r].day = plan.day, ![r].locked = TRUE]
    /\ UNCHANGED <<plan, charges, billed, today, edit, aborts, torn>>

NothingDue(r) ==
    /\ run[r].pc = "started"
    /\ ~Locked
    /\ ~Due(r)
    /\ run' = [run EXCEPT ![r] = IdleRun]
    /\ UNCHANGED <<plan, charges, billed, today, edit, aborts, torn>>

(* The commit of a charge of another subscription, earlier in the loop.      *)
OtherCommits(r) ==
    /\ run[r].pc = "charging"
    /\ run[r].locked
    /\ run' = [run EXCEPT ![r].locked = FALSE]
    /\ UNCHANGED <<plan, charges, billed, today, edit, aborts, torn>>

MoreToCharge(r) == run[r].pc = "charging" /\ OnOrBefore(run[r].date, run[r].through)

(* Mutant: the plan moves on before the charge is posted.                    *)
PlanFirst(r) ==
    /\ MoreToCharge(r)
    /\ plan' = [plan EXCEPT !.next = NextMonthCharge(run[r].date, run[r].day)]
    /\ run' = IF charges[run[r].date] > 0
              THEN [run EXCEPT ![r].date = NextMonthCharge(run[r].date, run[r].day)]
              ELSE [run EXCEPT ![r].pc = "inserting"]
    /\ UNCHANGED <<charges, billed, today, edit, aborts, torn>>

(* add_subscription_charge: the charge is looked up first ...                *)
FindCharge(r) ==
    /\ MoreToCharge(r)
    /\ run' = IF charges[run[r].date] > 0
              THEN [run EXCEPT ![r].date = NextMonthCharge(run[r].date, run[r].day)]
              ELSE [run EXCEPT ![r].pc = "inserting"]
    /\ UNCHANGED <<plan, charges, billed, today, edit, aborts, torn>>

(* Mutant: nothing but the look-up keeps a charge from being posted twice.   *)
InsertUnguarded(r) ==
    /\ run[r].pc = "inserting"
    /\ charges' = [charges EXCEPT ![run[r].date] = @ + 1]
    /\ billed' = billed \cup {run[r].date.month}
    /\ run' = [run EXCEPT ![r].pc = "charging", ![r].locked = FALSE,
                          ![r].date = NextMonthCharge(run[r].date, run[r].day)]
    /\ UNCHANGED <<plan, today, edit, aborts, torn>>

(* ... then inserted.  The unique constraint turns a second one away, and    *)
(* the run goes on as if it had found it.                                    *)
InsertCharge(r) ==
    /\ run[r].pc = "inserting"
    /\ charges' = [charges EXCEPT ![run[r].date] = 1]
    /\ billed' = billed \cup {run[r].date.month}
    /\ run' = [run EXCEPT ![r].pc = "charging", ![r].locked = FALSE,
                          ![r].date = NextMonthCharge(run[r].date, run[r].day)]
    /\ UNCHANGED <<plan, today, edit, aborts, torn>>

(* update_next_charge writes whatever the run arrived at.                    *)
UpdateNextCharge(r) ==
    /\ run[r].pc = "charging" /\ ~MoreToCharge(r)
    /\ \A x \in Runs \ {r} : ~run[x].locked
    /\ plan' = [plan EXCEPT !.next = run[r].date]
    /\ run' = [run EXCEPT ![r] = IdleRun]
    /\ UNCHANGED <<charges, billed, today, edit, aborts, torn>>

(* A run dies: the process, or the database under it.  The scheduler logs    *)
(* the failure, rolls back and comes again in an hour.                       *)
Abort(r) ==
    /\ run[r].pc # "idle"
    /\ aborts < MaxAborts
    /\ run' = [run EXCEPT ![r] = IdleRun]
    /\ aborts' = aborts + 1
    /\ UNCHANGED <<plan, charges, billed, today, edit, torn>>

----------------------------------------------------------------------------
NextDay ==
    /\ today.day < Length[today.month] \/ today.month < LastMonth
    /\ today' = IF today.day < Length[today.month]
                THEN [today EXCEPT !.day = @ + 1]
                ELSE [month |-> today.month + 1, day |-> 1]
    /\ UNCHANGED <<plan, charges, billed, run, edit, aborts, torn>>

Step(r) == ListDue(r) \/ NothingDue(r) \/ FindCharge(r) \/ InsertCharge(r)
           \/ UpdateNextCharge(r)

Next ==
    \/ \E d \in Dates : Create(d) \/ RemoveCharge(d)
    \/ Deactivate
    \/ \E e \in Edits : EditCommit(e) \/ \E new \in 1 .. MaxDay : EditLoad(e, new)
    \/ \E r \in Runs : StartRun(r) \/ Step(r) \/ OtherCommits(r) \/ Abort(r)
    \/ NextDay

Spec == Init /\ [][Next]_vars

(* The scheduler always comes back (subscription_scheduler), and a run that  *)
(* has started goes on.                                                      *)
Fairness == WF_vars(StartRun(Scheduler)) /\ \A r \in Runs : WF_vars(Step(r))

FairSpec == Spec /\ Fairness

----------------------------------------------------------------------------
(* Properties.                                                               *)

(* No month between the first charge and the pending one was passed over,    *)
(* whichever runs overlapped, died or worked on an old copy of the plan.     *)
NoMonthSkipped ==
    plan.status # "none" =>
        \A m \in Months : plan.first <= m /\ m < plan.next.month => m \in billed

(* A month is charged once.                                                  *)
OneChargePerMonth ==
    \A d, e \in Dates :
        charges[d] > 0 /\ charges[e] > 0 /\ d.month = e.month => d = e /\ charges[d] = 1

(* A month is charged twice only after an edit of the billing day that did   *)
(* not see every charge: it was written while a run was at work, or after one *)
(* died before it moved the plan on, or from an old copy of the plan.        *)
TwiceOnlyWhenTorn == ~torn => OneChargePerMonth

(* A month too short for the billing day does not move the ones after it:    *)
(* the pending charge, and every charge from there on, is on the billing day *)
(* as it stands, however often it was edited before.                         *)
NoDrift ==
    ~torn =>
        /\ plan.status # "none" => plan.next = OnDay(plan.next.month, plan.day)
        /\ \A d \in Dates : charges[d] > 0 /\ plan.next.month <= d.month =>
              d = OnDay(d.month, plan.day)

(* A month that is over is charged in the end, unless the plan is cancelled. *)
CatchesUp ==
    \A m \in 0 .. LastMonth :
        (plan.status = "active" /\ plan.next.month = m /\ m < today.month)
            ~> (m \in billed \/ plan.status = "cancelled")
=============================================================================
