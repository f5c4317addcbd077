------------------------ MODULE SubscriptionsProofs ------------------------
(* Theorems about Subscriptions, for any calendar and any number of runs and *)
(* edits that overlap.                                                       *)
EXTENDS Subscriptions, TLAPS

(* A run inserts only what was due when it looked at the calendar.           *)
InsertsAreDue ==
    \A r \in Runs : run[r].pc = "inserting" => OnOrBefore(run[r].date, run[r].through)

TypeInv == TypeOK /\ InsertsAreDue

LEMMA OnDayIsDate ==
    ASSUME NEW m \in Months, NEW day \in 1 .. MaxDay
    PROVE  OnDay(m, day) \in Dates /\ OnDay(m, day).month = m
<1>1. Length[m] \in 1 .. MaxDay
  BY LengthAssumption DEF Months
<1>2. CASE day <= Length[m]
  BY <1>1, <1>2 DEF OnDay, Dates
<1>3. CASE ~(day <= Length[m])
  BY <1>1, <1>3 DEF OnDay, Dates
<1> QED
  BY <1>2, <1>3

LEMMA EpochIsDay == Epoch \in Days /\ Epoch \in Dates
<1>1. Length[0] \in 1 .. MaxDay /\ 0 \in Months /\ MaxDay \in Nat
  BY LengthAssumption, LastMonthAssumption DEF Months
<1> QED
  BY <1>1, LastMonthAssumption DEF Epoch, Days, Dates

(* The charge after one that is due is still on the calendar.                *)
LEMMA NextChargeIsDate ==
    ASSUME NEW d \in Dates, NEW through \in Days, NEW day \in 1 .. MaxDay,
           OnOrBefore(d, through)
    PROVE  NextMonthCharge(d, day) \in Dates /\ NextMonthCharge(d, day).month = d.month + 1
<1>1. d.month \in Months /\ through.month \in Months /\ through.month <= LastMonth
  BY DEF Dates, Days
<1>2. d.month + 1 \in Months
  BY <1>1, LastMonthAssumption DEF Months, OnOrBefore
<1> QED
  BY <1>2, OnDayIsDate DEF NextMonthCharge

LEMMA IdleRunIsRun == IdleRun \in Run
<1>1. 1 \in 1 .. MaxDay
  BY LengthAssumption, LastMonthAssumption
<1> QED
  BY <1>1, EpochIsDay DEF IdleRun, Run

LEMMA InitTypeInv == Init => TypeInv
<1> SUFFICES ASSUME Init PROVE TypeInv
  OBVIOUS
<1>1. 1 \in 1 .. MaxDay /\ 0 \in Months
  BY LengthAssumption, LastMonthAssumption DEF Months
<1>2. plan \in Plan
  BY <1>1, EpochIsDay DEF Init, NoPlan, Plan
<1>3. run \in [Runs -> Run]
  BY IdleRunIsRun DEF Init
<1>4. edit \in [Edits -> Edit]
  BY <1>1, EpochIsDay DEF Init, ReadyEdit, Edit
<1>5. charges \in [Dates -> Nat] /\ billed \in SUBSET Months /\ today \in Days /\ aborts \in Nat /\ torn \in BOOLEAN
  BY EpochIsDay DEF Init
<1>6. InsertsAreDue
  BY DEF Init, IdleRun, InsertsAreDue
<1> QED
  BY <1>2, <1>3, <1>4, <1>5, <1>6 DEF TypeInv, TypeOK

(* A step that changes one run, to another run, is all a type needs.         *)
LEMMA RunStep ==
    ASSUME TypeInv, NEW r \in Runs, NEW x \in Run,
           x.pc = "inserting" => OnOrBefore(x.date, x.through),
           run' = [run EXCEPT ![r] = x]
    PROVE  run' \in [Runs -> Run] /\ InsertsAreDue'
BY DEF TypeInv, TypeOK, InsertsAreDue

LEMMA TypeStep == TypeInv /\ [Next]_vars => TypeInv'
<1> SUFFICES ASSUME TypeInv, [Next]_vars PROVE TypeInv'
  OBVIOUS
<1> USE DEF TypeInv
<1>0. \A r \in Runs : run[r] \in Run
  BY DEF TypeOK
<1>1. ASSUME NEW d \in Dates, Create(d) PROVE TypeInv'
  <2>1. d.day \in 1 .. MaxDay /\ d.month \in Months
    BY DEF Dates
  <2>2. plan' \in Plan
    BY <1>1, <2>1 DEF Create, Plan
  <2> QED
    BY <1>1, <2>2 DEF Create, TypeOK, InsertsAreDue
<1>2. ASSUME NEW d \in Dates, RemoveCharge(d) PROVE TypeInv'
  <2>1. charges[d] \in Nat
    BY DEF TypeOK
  <2>2. charges' \in [Dates -> Nat]
    BY <1>2, <2>1 DEF RemoveCharge, TypeOK
  <2> QED
    BY <1>2, <2>2 DEF RemoveCharge, TypeOK, InsertsAreDue
<1>3. CASE Deactivate
  <2>1. plan' \in Plan
    BY <1>3 DEF Deactivate, TypeOK, Plan
  <2> QED
    BY <1>3, <2>1 DEF Deactivate, TypeOK, InsertsAreDue
<1>4. ASSUME NEW e \in Edits, EditCommit(e) PROVE TypeInv'
  <2>1. edit[e] \in Edit
    BY DEF TypeOK
  <2>2. edit[e].next.month \in Months /\ edit[e].new \in 1 .. MaxDay
    BY <2>1 DEF Edit, Dates
  <2>3. Moved(e) \in Dates
    BY <2>2, OnDayIsDate DEF Moved
  <2>4. plan' \in Plan
    BY <1>4, <2>2, <2>3 DEF EditCommit, TypeOK, Plan
  <2>5. edit' \in [Edits -> Edit]
    BY <1>4, <2>1 DEF EditCommit, TypeOK, Edit
  <2> QED
    BY <1>4, <2>4, <2>5 DEF EditCommit, TypeOK, InsertsAreDue
<1>5. ASSUME NEW e \in Edits, NEW new \in 1 .. MaxDay, EditLoad(e, new) PROVE TypeInv'
  <2>1. edit' \in [Edits -> Edit]
    BY <1>5 DEF EditLoad, TypeOK, Edit, Plan
  <2> QED
    BY <1>5, <2>1 DEF EditLoad, TypeOK, InsertsAreDue
<1>6. ASSUME NEW r \in Runs, StartRun(r) PROVE TypeInv'
  <2> DEFINE x == [IdleRun EXCEPT !.pc = "started", !.through = today]
  <2>1. x \in Run /\ x.pc # "inserting"
    BY IdleRunIsRun DEF Run, TypeOK
  <2>2. run' = [run EXCEPT ![r] = x]
    BY <1>6 DEF StartRun
  <2>3. run' \in [Runs -> Run] /\ InsertsAreDue'
    BY <2>1, <2>2, RunStep
  <2> QED
    BY <1>6, <2>3 DEF StartRun, TypeOK
<1>7. ASSUME NEW r \in Runs, ListDue(r) PROVE TypeInv'
  <2> DEFINE x == [run[r] EXCEPT !.pc = "charging", !.date = plan.next,
                                 !.day = plan.day, !.locked = TRUE]
  <2>1. x \in Run /\ x.pc # "inserting"
    BY <1>0 DEF Run, TypeOK, Plan
  <2>2. run' = [run EXCEPT ![r] = x]
    BY <1>7 DEF ListDue
  <2>3. run' \in [Runs -> Run] /\ InsertsAreDue'
    BY <2>1, <2>2, RunStep
  <2> QED
    BY <1>7, <2>3 DEF ListDue, TypeOK
<1>8. ASSUME NEW r \in Runs, NothingDue(r) \/ Abort(r) PROVE TypeInv'
  <2>1. run' = [run EXCEPT ![r] = IdleRun] /\ IdleRun.pc # "inserting"
    BY <1>8 DEF NothingDue, Abort, IdleRun
  <2>2. run' \in [Runs -> Run] /\ InsertsAreDue'
    BY <2>1, IdleRunIsRun, RunStep
  <2>3. aborts' \in Nat
    BY <1>8 DEF NothingDue, Abort, TypeOK
  <2> QED
    BY <1>8, <2>2, <2>3 DEF NothingDue, Abort, TypeOK
<1>9. ASSUME NEW r \in Runs, OtherCommits(r) PROVE TypeInv'
  <2> DEFINE x == [run[r] EXCEPT !.locked = FALSE]
  <2>1. x \in Run /\ x.pc # "inserting"
    BY <1>0, <1>9 DEF OtherCommits, Run
  <2>2. run' = [run EXCEPT ![r] = x]
    BY <1>9 DEF OtherCommits
  <2>3. run' \in [Runs -> Run] /\ InsertsAreDue'
    BY <2>1, <2>2, RunStep
  <2> QED
    BY <1>9, <2>3 DEF OtherCommits, TypeOK
<1>10. ASSUME NEW r \in Runs, FindCharge(r) PROVE TypeInv'
  <2> DEFINE n == NextMonthCharge(run[r].date, run[r].day)
             x == [run[r] EXCEPT !.date = n]
             y == [run[r] EXCEPT !.pc = "inserting"]
  <2>1. OnOrBefore(run[r].date, run[r].through)
    BY <1>10 DEF FindCharge, MoreToCharge
  <2>2. n \in Dates
    BY <1>0, <2>1, NextChargeIsDate DEF Run
  <2>3. x \in Run /\ x.pc # "inserting"
    BY <1>0, <1>10, <2>2 DEF FindCharge, MoreToCharge, Run
  <2>4. y \in Run /\ OnOrBefore(y.date, y.through)
    BY <1>0, <2>1 DEF Run
  <2>5. run' = [run EXCEPT ![r] = x] \/ run' = [run EXCEPT ![r] = y]
    BY <1>10 DEF FindCharge
  <2>6. run' \in [Runs -> Run] /\ InsertsAreDue'
    BY <2>3, <2>4, <2>5, RunStep
  <2> QED
    BY <1>10, <2>6 DEF FindCharge, TypeOK
<1>11. ASSUME NEW r \in Runs, InsertCharge(r) PROVE TypeInv'
  <2> DEFINE n == NextMonthCharge(run[r].date, run[r].day)
             x == [run[r] EXCEPT !.pc = "charging", !.locked = FALSE, !.date = n]
  <2>1. OnOrBefore(run[r].date, run[r].through)
    BY <1>11 DEF InsertCharge, InsertsAreDue
  <2>2. n \in Dates
    BY <1>0, <2>1, NextChargeIsDate DEF Run
  <2>3. x \in Run /\ x.pc # "inserting"
    BY <1>0, <2>2 DEF Run
  <2>4. run' = [run EXCEPT ![r] = x]
    BY <1>11 DEF InsertCharge
  <2>5. run' \in [Runs -> Run] /\ InsertsAreDue'
    BY <2>3, <2>4, RunStep
  <2>6. run[r].date \in Dates /\ run[r].date.month \in Months
    BY <1>0 DEF Run, Dates
  <2>7. charges' \in [Dates -> Nat] /\ billed' \in SUBSET Months
    BY <1>11, <2>6 DEF InsertCharge, TypeOK
  <2> QED
    BY <1>11, <2>5, <2>7 DEF InsertCharge, TypeOK
<1>12. ASSUME NEW r \in Runs, UpdateNextCharge(r) PROVE TypeInv'
  <2>1. run' = [run EXCEPT ![r] = IdleRun] /\ IdleRun.pc # "inserting"
    BY <1>12 DEF UpdateNextCharge, IdleRun
  <2>2. run' \in [Runs -> Run] /\ InsertsAreDue'
    BY <2>1, IdleRunIsRun, RunStep
  <2>3. run[r].date \in Dates
    BY <1>0 DEF Run
  <2>4. plan' \in Plan
    BY <1>12, <2>3 DEF UpdateNextCharge, TypeOK, Plan
  <2> QED
    BY <1>12, <2>2, <2>4 DEF UpdateNextCharge, TypeOK
<1>13. CASE NextDay
  <2>1. today \in Dates /\ today.month \in Months /\ today.month <= LastMonth
    BY DEF TypeOK, Days, Dates
  <2>2. today' \in Days
    <3>1. CASE today.day < Length[today.month]
      <4>1. Length[today.month] \in 1 .. MaxDay
        BY <2>1, LengthAssumption DEF Months
      <4>2. today.day + 1 \in 1 .. MaxDay /\ today.day + 1 <= Length[today.month]
        BY <3>1, <4>1, LengthAssumption DEF TypeOK, Days, Dates
      <4>3. today' = [today EXCEPT !.day = @ + 1]
        BY <1>13, <3>1 DEF NextDay
      <4> QED
        BY <2>1, <4>2, <4>3 DEF Days, Dates
    <3>2. CASE ~(today.day < Length[today.month])
      <4>1. today.month < LastMonth /\ today' = [month |-> today.month + 1, day |-> 1]
        BY <1>13, <3>2 DEF NextDay
      <4>2. today.month + 1 \in Months /\ today.month + 1 <= LastMonth
        BY <2>1, <4>1, LastMonthAssumption DEF Months
      <4>3. Length[today.month + 1] \in 1 .. MaxDay /\ MaxDay \in Nat
        BY <4>2, LengthAssumption DEF Months
      <4> QED
        BY <4>1, <4>2, <4>3 DEF Days, Dates
    <3> QED
      BY <3>1, <3>2
  <2> QED
    BY <1>13, <2>2 DEF NextDay, TypeOK, InsertsAreDue
<1>14. CASE UNCHANGED vars
  BY <1>14 DEF vars, TypeOK, InsertsAreDue
<1> QED
  BY <1>1, <1>2, <1>3, <1>4, <1>5, <1>6, <1>7, <1>8, <1>9, <1>10, <1>11, <1>12, <1>13, <1>14
     DEF Next, Step

(* Every state has its type.                                                 *)
THEOREM TypeCorrect == Spec => []TypeOK
<1>1. Spec => []TypeInv
  BY InitTypeInv, TypeStep, PTL DEF Spec
<1> QED
  BY <1>1, PTL DEF TypeInv

----------------------------------------------------------------------------
(* No month is skipped.  The plan's pointer is not the only copy of it: every *)
(* run and every edit under way holds one, and may write it back.  None of    *)
(* the copies is ahead of what was charged.                                   *)
Covered(from, to, set) == \A k \in Months : from <= k /\ k < to => k \in set

CopiesNotAhead ==
    /\ plan.status # "none" => Covered(plan.first, plan.next.month, billed)
    /\ \A r \in Runs : Running(r) =>
          plan.status # "none" /\ Covered(plan.first, run[r].date.month, billed)
    /\ \A e \in Edits : edit[e].pc = "loaded" =>
          plan.status # "none" /\ Covered(plan.first, edit[e].next.month, billed)
    /\ \A d \in Dates : charges[d] > 0 => d.month \in billed

LEMMA CopiesInit == Init => CopiesNotAhead
BY DEF Init, CopiesNotAhead, NoPlan, Running, IdleRun, ReadyEdit

(* Once the next month is charged too, the claim holds of the one after it.   *)
LEMMA ChargedNext ==
    ASSUME NEW m \in Months, Covered(plan.first, m, billed), m \in billed
    PROVE  Covered(plan.first, m + 1, billed)
<1> SUFFICES ASSUME NEW k \in Months, plan.first <= k, k < m + 1 PROVE k \in billed
  BY DEF Covered
<1>1. k < m \/ k = m
  BY LastMonthAssumption DEF Months
<1> QED
  BY <1>1 DEF Covered

(* A step that leaves the plan and the charges alone moves at most one run.   *)
LEMMA CopyStep ==
    ASSUME TypeInv, CopiesNotAhead, NEW r \in Runs, NEW x,
           run' = [run EXCEPT ![r] = x],
           UNCHANGED <<plan, charges, billed, edit>>,
           x.pc \in {"charging", "inserting"} =>
              plan.status # "none" /\ Covered(plan.first, x.date.month, billed)
    PROVE  CopiesNotAhead'
<1>1. \A q \in Runs : run'[q] = IF q = r THEN x ELSE run[q]
  BY DEF TypeInv, TypeOK
<1>2. \A m : Covered(plan.first, m, billed) => Covered(plan'.first, m, billed')
  BY DEF Covered
<1>3. \A q \in Runs : Running(q)' => plan'.status # "none" /\ Covered(plan'.first, run'[q].date.month, billed')
  BY <1>1, <1>2 DEF CopiesNotAhead, Running
<1> QED
  BY <1>2, <1>3 DEF CopiesNotAhead

LEMMA CopiesStep == TypeInv /\ CopiesNotAhead /\ [Next]_vars => CopiesNotAhead'
<1> SUFFICES ASSUME TypeInv, CopiesNotAhead, [Next]_vars PROVE CopiesNotAhead'
  OBVIOUS
<1>0. /\ \A r \in Runs : run[r] \in Run
      /\ \A e \in Edits : edit[e] \in Edit
  BY DEF TypeInv, TypeOK
<1>1. ASSUME NEW d \in Dates, Create(d) PROVE CopiesNotAhead'
  <2>1. Covered(plan'.first, d.month, billed')
    BY <1>1, LastMonthAssumption DEF Create, Covered, Dates, Months
  <2>2. \A r \in Runs : ~Running(r)
    BY <1>1 DEF Create, CopiesNotAhead
  <2>3. \A e \in Edits : edit[e].pc # "loaded"
    BY <1>1 DEF Create, CopiesNotAhead
  <2> QED
    BY <1>1, <2>1, <2>2, <2>3 DEF Create, CopiesNotAhead, Running
<1>2. ASSUME NEW d \in Dates, RemoveCharge(d) PROVE CopiesNotAhead'
  <2>1. \A m : Covered(plan.first, m, billed) => Covered(plan'.first, m, billed')
    BY <1>2 DEF RemoveCharge, Covered
  <2>2. \A c \in Dates : charges'[c] > 0 => charges[c] > 0
    BY <1>2 DEF RemoveCharge, TypeInv, TypeOK
  <2>3. \A c \in Dates : charges'[c] > 0 => c.month \in billed'
    BY <1>2, <2>2 DEF RemoveCharge, CopiesNotAhead
  <2> QED
    BY <1>2, <2>1, <2>3 DEF RemoveCharge, CopiesNotAhead, Running
<1>3. CASE Deactivate
  <2>1. plan'.first = plan.first /\ plan'.next = plan.next /\ plan.status # "none" /\ plan'.status # "none"
    BY <1>3 DEF Deactivate, TypeInv, TypeOK, Plan
  <2>2. \A m : Covered(plan.first, m, billed) => Covered(plan'.first, m, billed')
    BY <1>3, <2>1 DEF Deactivate, Covered
  <2> QED
    BY <1>3, <2>1, <2>2 DEF Deactivate, CopiesNotAhead, Running
<1>4. ASSUME NEW e \in Edits, EditCommit(e) PROVE CopiesNotAhead'
  <2>1. plan.status # "none" /\ Covered(plan.first, edit[e].next.month, billed) /\ Covered(plan.first, plan.next.month, billed)
    BY <1>4 DEF EditCommit, CopiesNotAhead
  <2>2. edit[e].next.month \in Months /\ edit[e].new \in 1 .. MaxDay
    BY <1>0 DEF Edit, Dates
  <2>3. Moved(e).month = edit[e].next.month
    BY <2>2, OnDayIsDate DEF Moved
  <2>4. /\ plan'.first = plan.first /\ plan'.status = plan.status
        /\ plan'.next = plan.next \/ plan'.next = Moved(e)
    BY <1>4 DEF EditCommit, TypeInv, TypeOK, Plan
  <2>5. \A m : Covered(plan.first, m, billed) => Covered(plan'.first, m, billed')
    BY <1>4, <2>4 DEF EditCommit, Covered
  <2>6. Covered(plan'.first, plan'.next.month, billed')
    <3>1. Covered(plan'.first, plan.next.month, billed') /\ Covered(plan'.first, edit[e].next.month, billed')
      BY <2>1, <2>5
    <3> QED
      BY <2>3, <2>4, <3>1 DEF Covered
  <2>7. \A q \in Edits : edit'[q].pc = "loaded" => edit'[q] = edit[q]
    BY <1>4, <1>0 DEF EditCommit, TypeInv, TypeOK, Edit
  <2> QED
    BY <1>4, <2>4, <2>5, <2>6, <2>7 DEF EditCommit, CopiesNotAhead, Running
<1>5. ASSUME NEW e \in Edits, NEW new \in 1 .. MaxDay, EditLoad(e, new) PROVE CopiesNotAhead'
  <2>1. \A m : Covered(plan.first, m, billed) => Covered(plan'.first, m, billed')
    BY <1>5 DEF EditLoad, Covered
  <2>2. \A q \in Edits : edit'[q].pc = "loaded" =>
           edit'[q] = edit[q] \/ edit'[q].next = plan.next
    BY <1>5 DEF EditLoad, TypeInv, TypeOK
  <2>3. plan.status # "none"
    BY <1>5 DEF EditLoad
  <2>4. \A q \in Edits : edit'[q].pc = "loaded" =>
           plan'.status # "none" /\ Covered(plan'.first, edit'[q].next.month, billed')
    BY <1>5, <2>1, <2>2, <2>3 DEF EditLoad, CopiesNotAhead
  <2> QED
    BY <1>5, <2>1, <2>4 DEF EditLoad, CopiesNotAhead, Running
<1>6. ASSUME NEW r \in Runs, StartRun(r) PROVE CopiesNotAhead'
  <2> DEFINE x == [IdleRun EXCEPT !.pc = "started", !.through = today]
  <2>1. run' = [run EXCEPT ![r] = x] /\ x.pc = "started"
    BY <1>6 DEF StartRun, IdleRun
  <2> QED
    BY <1>6, <2>1, CopyStep DEF StartRun
<1>7. ASSUME NEW r \in Runs, ListDue(r) PROVE CopiesNotAhead'
  <2> DEFINE x == [run[r] EXCEPT !.pc = "charging", !.date = plan.next,
                                 !.day = plan.day, !.locked = TRUE]
  <2>1. run' = [run EXCEPT ![r] = x]
    BY <1>7 DEF ListDue
  <2>2. plan.status # "none" /\ Covered(plan.first, plan.next.month, billed)
    BY <1>7 DEF ListDue, Due, CopiesNotAhead
  <2>3. x.date = plan.next
    BY <1>0 DEF Run
  <2>4. Covered(plan.first, x.date.month, billed)
    BY <2>2, <2>3
  <2> HIDE DEF x
  <2> QED
    BY <1>7, <2>1, <2>2, <2>4, CopyStep DEF ListDue
<1>8. ASSUME NEW r \in Runs, NothingDue(r) \/ Abort(r) PROVE CopiesNotAhead'
  <2>1. run' = [run EXCEPT ![r] = IdleRun] /\ IdleRun.pc = "idle"
    BY <1>8 DEF NothingDue, Abort, IdleRun
  <2>2. UNCHANGED <<plan, charges, billed, edit>>
    BY <1>8 DEF NothingDue, Abort
  <2> QED
    BY <2>1, <2>2, CopyStep
<1>9. ASSUME NEW r \in Runs, OtherCommits(r) PROVE CopiesNotAhead'
  <2> DEFINE x == [run[r] EXCEPT !.locked = FALSE]
  <2>1. run' = [run EXCEPT ![r] = x]
    BY <1>9 DEF OtherCommits
  <2>2. plan.status # "none" /\ Covered(plan.first, run[r].date.month, billed)
    BY <1>9 DEF OtherCommits, CopiesNotAhead, Running
  <2>3. x.date = run[r].date
    BY <1>0 DEF Run
  <2>4. Covered(plan.first, x.date.month, billed)
    BY <2>2, <2>3
  <2> HIDE DEF x
  <2> QED
    BY <1>9, <2>1, <2>2, <2>4, CopyStep DEF OtherCommits
<1>10. ASSUME NEW r \in Runs, FindCharge(r) PROVE CopiesNotAhead'
  <2> DEFINE n == NextMonthCharge(run[r].date, run[r].day)
             x == [run[r] EXCEPT !.date = n]
             y == [run[r] EXCEPT !.pc = "inserting"]
  <2>1. OnOrBefore(run[r].date, run[r].through) /\ run[r].pc = "charging"
    BY <1>10 DEF FindCharge, MoreToCharge
  <2>2. n.month = run[r].date.month + 1
    BY <1>0, <2>1, NextChargeIsDate DEF Run
  <2>3. run[r].date \in Dates /\ run[r].date.month \in Months
    BY <1>0 DEF Run, Dates
  <2>4. plan.status # "none" /\ Covered(plan.first, run[r].date.month, billed)
    BY <2>1 DEF CopiesNotAhead, Running
  <2>5. UNCHANGED <<plan, charges, billed, edit>>
    BY <1>10 DEF FindCharge
  <2>6. CASE charges[run[r].date] > 0
    <3>1. run[r].date.month \in billed
      BY <2>3, <2>6 DEF CopiesNotAhead
    <3>2. Covered(plan.first, n.month, billed)
      BY <2>2, <2>3, <2>4, <3>1, ChargedNext
    <3>3. run' = [run EXCEPT ![r] = x] /\ x.date = n
      BY <1>0, <1>10, <2>6 DEF FindCharge, Run
    <3>4. Covered(plan.first, x.date.month, billed)
      BY <3>2, <3>3
    <3> HIDE DEF x, n
    <3> QED
      BY <2>4, <2>5, <3>3, <3>4, CopyStep
  <2>7. CASE ~(charges[run[r].date] > 0)
    <3>1. run' = [run EXCEPT ![r] = y] /\ y.date = run[r].date
      BY <1>0, <1>10, <2>7 DEF FindCharge, Run
    <3>2. Covered(plan.first, y.date.month, billed)
      BY <2>4, <3>1
    <3> HIDE DEF y
    <3> QED
      BY <2>4, <2>5, <3>1, <3>2, CopyStep
  <2> QED
    BY <2>6, <2>7
<1>11. ASSUME NEW r \in Runs, InsertCharge(r) PROVE CopiesNotAhead'
  <2> DEFINE d == run[r].date
             n == NextMonthCharge(d, run[r].day)
  <2>1. plan.status # "none" /\ Covered(plan.first, d.month, billed)
    BY <1>11 DEF InsertCharge, CopiesNotAhead, Running
  <2>2. d \in Dates /\ d.month \in Months
    BY <1>0 DEF Run, Dates
  <2>3. n.month = d.month + 1
    BY <1>0, <1>11, NextChargeIsDate DEF InsertCharge, TypeInv, InsertsAreDue, Run
  <2>4. plan' = plan /\ edit' = edit /\ billed' = billed \cup {d.month}
    BY <1>11 DEF InsertCharge
  <2>5. \A m : Covered(plan.first, m, billed) => Covered(plan'.first, m, billed')
    BY <2>4 DEF Covered
  <2>6. \A m : m = d.month + 1 => Covered(plan'.first, m, billed')
    BY <2>1, <2>2, <2>4, LastMonthAssumption DEF Covered, Months, TypeInv, TypeOK
  <2>7. run'[r].date = n /\ \A q \in Runs : q # r => run'[q] = run[q]
    BY <1>0, <1>11 DEF InsertCharge, TypeInv, TypeOK, Run
  <2>8. \A q \in Runs : Running(q)' => plan'.status # "none" /\ Covered(plan'.first, run'[q].date.month, billed')
    BY <2>1, <2>3, <2>4, <2>5, <2>6, <2>7 DEF CopiesNotAhead, Running
  <2>9. \A c \in Dates : charges'[c] > 0 => c.month \in billed'
    BY <1>11, <2>2, <2>4 DEF InsertCharge, CopiesNotAhead, TypeInv, TypeOK
  <2> QED
    BY <2>4, <2>5, <2>8, <2>9 DEF CopiesNotAhead
<1>12. ASSUME NEW r \in Runs, UpdateNextCharge(r) PROVE CopiesNotAhead'
  <2>1. plan.status # "none" /\ Covered(plan.first, run[r].date.month, billed)
    BY <1>12 DEF UpdateNextCharge, CopiesNotAhead, Running
  <2>2. plan'.first = plan.first /\ plan'.status = plan.status /\ plan'.next = run[r].date
    BY <1>12 DEF UpdateNextCharge, TypeInv, TypeOK, Plan
  <2>3. \A m : Covered(plan.first, m, billed) => Covered(plan'.first, m, billed')
    BY <1>12, <2>2 DEF UpdateNextCharge, Covered
  <2>4. Covered(plan'.first, plan'.next.month, billed')
    BY <2>1, <2>2, <2>3 DEF Covered
  <2>5. \A q \in Runs : Running(q)' => Running(q) /\ run'[q] = run[q]
    BY <1>12 DEF UpdateNextCharge, Running, IdleRun, TypeInv, TypeOK
  <2> QED
    BY <1>12, <2>2, <2>3, <2>4, <2>5 DEF UpdateNextCharge, CopiesNotAhead
<1>13. CASE NextDay \/ UNCHANGED vars
  BY <1>13 DEF NextDay, vars, CopiesNotAhead, Covered, Running
<1> QED
  BY <1>1, <1>2, <1>3, <1>4, <1>5, <1>6, <1>7, <1>8, <1>9, <1>10, <1>11, <1>12, <1>13
     DEF Next, Step

(* Whatever overlaps, dies or works on an old copy of the plan, no month      *)
(* between the first charge and the pending one goes uncharged.               *)
THEOREM NothingSkipped == Spec => []NoMonthSkipped
<1>1. Init => TypeInv /\ CopiesNotAhead
  BY InitTypeInv, CopiesInit
<1>2. TypeInv /\ CopiesNotAhead /\ [Next]_vars => (TypeInv /\ CopiesNotAhead)'
  BY TypeStep, CopiesStep
<1>3. CopiesNotAhead => NoMonthSkipped
  BY DEF CopiesNotAhead, NoMonthSkipped, Covered
<1> QED
  BY <1>1, <1>2, <1>3, PTL DEF Spec

----------------------------------------------------------------------------
(* While every edit saw every charge, each copy of the plan's pointer, and    *)
(* each charge from there on, lies on the schedule the billing day fixes, and *)
(* the unique constraint on the date is a constraint on the month.            *)
(* Date c is on the schedule of a billing day, and so is every charge posted  *)
(* from its month on.                                                         *)
KeptFrom(c, day, posted) ==
    /\ c = OnDay(c.month, day)
    /\ \A d \in Dates : posted[d] > 0 /\ c.month <= d.month => d = OnDay(d.month, day)

Scheduled ==
    /\ plan.status # "none" => KeptFrom(plan.next, plan.day, charges)
    /\ \A r \in Runs : Running(r) =>
          /\ plan.status # "none" /\ run[r].day = plan.day
          /\ KeptFrom(run[r].date, plan.day, charges)
    /\ \A d \in Dates : charges[d] > 0 => plan.status # "none" /\ charges[d] = 1
    /\ OneChargePerMonth

ScheduledInv == ~torn => Scheduled

LEMMA ScheduledInit == Init => ScheduledInv
BY DEF Init, ScheduledInv, Scheduled, NoPlan, Running, IdleRun, OneChargePerMonth

(* Moving one run along, and nothing else.                                    *)
LEMMA ScheduledRun ==
    ASSUME TypeInv, Scheduled, NEW r \in Runs, NEW x,
           run' = [run EXCEPT ![r] = x],
           UNCHANGED <<plan, charges>>,
           x.pc \in {"charging", "inserting"} =>
              plan.status # "none" /\ x.day = plan.day /\ KeptFrom(x.date, plan.day, charges)
    PROVE  Scheduled'
<1>1. \A q \in Runs : run'[q] = IF q = r THEN x ELSE run[q]
  BY DEF TypeInv, TypeOK
<1> QED
  BY <1>1 DEF Scheduled, Running, OneChargePerMonth

(* The date after one that is kept is kept.                                   *)
LEMMA KeptNext ==
    ASSUME NEW d \in Dates, NEW day \in 1 .. MaxDay, NEW posted,
           KeptFrom(d, day, posted),
           NextMonthCharge(d, day) \in Dates,
           NextMonthCharge(d, day).month = d.month + 1
    PROVE  KeptFrom(NextMonthCharge(d, day), day, posted)
<1> DEFINE n == NextMonthCharge(d, day)
<1>1. n = OnDay(n.month, day)
  BY DEF NextMonthCharge
<1>2. \A c \in Dates : n.month <= c.month => d.month <= c.month
  BY LastMonthAssumption DEF Dates, Months
<1> HIDE DEF n
<1>3. KeptFrom(n, day, posted)
  BY <1>1, <1>2 DEF KeptFrom
<1> QED
  BY <1>3 DEF n

(* Deleting a charge keeps what is kept, and posting one on schedule does.    *)
LEMMA KeptFewer ==
    ASSUME NEW c, NEW day, NEW posted, NEW fewer, KeptFrom(c, day, posted),
           \A d \in Dates : fewer[d] > 0 => posted[d] > 0
    PROVE  KeptFrom(c, day, fewer)
BY DEF KeptFrom

LEMMA KeptMore ==
    ASSUME NEW c, NEW d \in Dates, NEW day, NEW posted, NEW more, KeptFrom(c, day, posted),
           d = OnDay(d.month, day), \A e \in Dates : e # d => more[e] = posted[e]
    PROVE  KeptFrom(c, day, more)
BY DEF KeptFrom

LEMMA ScheduledStep == TypeInv /\ Scheduled /\ ~torn' /\ [Next]_vars => Scheduled'
<1> SUFFICES ASSUME TypeInv, Scheduled, ~torn', [Next]_vars PROVE Scheduled'
  OBVIOUS
<1>0. \A r \in Runs : run[r] \in Run
  BY DEF TypeInv, TypeOK
<1>1. ASSUME NEW d \in Dates, Create(d) PROVE Scheduled'
  <2>1. d.day <= Length[d.month] /\ d = [month |-> d.month, day |-> d.day]
    BY DEF Dates
  <2>2. d = OnDay(d.month, d.day)
    BY <2>1 DEF OnDay
  <2>3. plan'.status # "none" /\ plan'.next = d /\ plan'.day = d.day
    BY <1>1 DEF Create
  <2>4. (\A r \in Runs : ~Running(r)) /\ (\A c \in Dates : ~(charges[c] > 0))
    BY <1>1 DEF Create, Scheduled
  <2>5. KeptFrom(plan'.next, plan'.day, charges')
    BY <1>1, <2>2, <2>3, <2>4 DEF Create, KeptFrom
  <2> QED
    BY <1>1, <2>4, <2>5 DEF Create, Scheduled, Running, OneChargePerMonth
<1>2. ASSUME NEW d \in Dates, RemoveCharge(d) PROVE Scheduled'
  <2>1. \A c \in Dates : charges'[c] > 0 => charges[c] > 0 /\ charges'[c] = charges[c]
    BY <1>2 DEF RemoveCharge, Scheduled, TypeInv, TypeOK
  <2>2. plan' = plan /\ run' = run
    BY <1>2 DEF RemoveCharge
  <2>3. plan'.status # "none" => KeptFrom(plan'.next, plan'.day, charges')
    BY <2>1, <2>2, KeptFewer DEF Scheduled
  <2>4. \A r \in Runs : Running(r) => KeptFrom(run'[r].date, plan'.day, charges')
    BY <2>1, <2>2, KeptFewer DEF Scheduled
  <2>5. OneChargePerMonth'
    BY <2>1 DEF Scheduled, OneChargePerMonth
  <2> QED
    BY <2>1, <2>2, <2>3, <2>4, <2>5 DEF Scheduled, Running
<1>3. CASE Deactivate
  <2>1. /\ plan.status # "none" /\ plan'.status # "none"
        /\ plan'.next = plan.next /\ plan'.day = plan.day
    BY <1>3 DEF Deactivate, TypeInv, TypeOK, Plan
  <2> QED
    BY <1>3, <2>1 DEF Deactivate, Scheduled, Running, OneChargePerMonth
<1>4. ASSUME NEW e \in Edits, EditCommit(e) PROVE Scheduled'
  <2>1. charges' = charges /\ run' = run
    BY <1>4 DEF EditCommit
  <2>2. CASE edit[e].new = edit[e].old
    BY <1>4, <2>1, <2>2 DEF EditCommit, Scheduled, Running, OneChargePerMonth
  <2>3. CASE edit[e].new # edit[e].old
    <3>1. SeesCharges(e)
      BY <1>4, <2>3 DEF EditCommit
    <3>2. edit[e].next.month \in Months /\ edit[e].new \in 1 .. MaxDay
      BY DEF TypeInv, TypeOK, Edit, Dates
    <3>3. Moved(e).month = edit[e].next.month /\ Moved(e) = OnDay(Moved(e).month, edit[e].new)
      BY <3>2, OnDayIsDate DEF Moved
    <3>4. plan'.next = Moved(e) /\ plan'.day = edit[e].new /\ plan'.status = plan.status
      BY <1>4, <2>3, <3>1 DEF EditCommit, SeesCharges, TypeInv, TypeOK, Plan
    <3>5. \A d \in Dates : charges[d] > 0 => ~(plan'.next.month <= d.month)
      <4>1. plan.next.month \in Months
        BY DEF TypeInv, TypeOK, Plan, Dates
      <4>2. plan'.next.month = plan.next.month
        BY <3>1, <3>3, <3>4 DEF SeesCharges
      <4> QED
        BY <3>1, <4>1, <4>2, LastMonthAssumption DEF SeesCharges, Dates, Months
    <3>6. KeptFrom(plan'.next, plan'.day, charges')
      BY <2>1, <3>3, <3>4, <3>5 DEF KeptFrom
    <3> QED
      BY <2>1, <3>1, <3>4, <3>6 DEF Scheduled, SeesCharges, Running, OneChargePerMonth
  <2> QED
    BY <2>2, <2>3
<1>5. ASSUME NEW e \in Edits, NEW new \in 1 .. MaxDay, EditLoad(e, new) PROVE Scheduled'
  BY <1>5 DEF EditLoad, Scheduled, Running, OneChargePerMonth
<1>6. ASSUME NEW r \in Runs, StartRun(r) PROVE Scheduled'
  <2> DEFINE x == [IdleRun EXCEPT !.pc = "started", !.through = today]
  <2>1. run' = [run EXCEPT ![r] = x] /\ x.pc = "started"
    BY <1>6 DEF StartRun, IdleRun
  <2> QED
    BY <1>6, <2>1, ScheduledRun DEF StartRun
<1>7. ASSUME NEW r \in Runs, ListDue(r) PROVE Scheduled'
  <2> DEFINE x == [run[r] EXCEPT !.pc = "charging", !.date = plan.next,
                                 !.day = plan.day, !.locked = TRUE]
  <2>1. run' = [run EXCEPT ![r] = x] /\ UNCHANGED <<plan, charges>>
    BY <1>7 DEF ListDue
  <2>2. plan.status # "none" /\ KeptFrom(plan.next, plan.day, charges)
    BY <1>7 DEF ListDue, Due, Scheduled
  <2>3. x.date = plan.next /\ x.day = plan.day
    BY <1>0 DEF Run
  <2> HIDE DEF x
  <2> QED
    BY <2>1, <2>2, <2>3, ScheduledRun
<1>8. ASSUME NEW r \in Runs, NothingDue(r) \/ Abort(r) PROVE Scheduled'
  <2>1. run' = [run EXCEPT ![r] = IdleRun] /\ IdleRun.pc = "idle"
    BY <1>8 DEF NothingDue, Abort, IdleRun
  <2>2. UNCHANGED <<plan, charges>>
    BY <1>8 DEF NothingDue, Abort
  <2> QED
    BY <2>1, <2>2, ScheduledRun
<1>9. ASSUME NEW r \in Runs, OtherCommits(r) PROVE Scheduled'
  <2> DEFINE x == [run[r] EXCEPT !.locked = FALSE]
  <2>1. run' = [run EXCEPT ![r] = x] /\ UNCHANGED <<plan, charges>>
    BY <1>9 DEF OtherCommits
  <2>2. x.date = run[r].date /\ x.day = run[r].day
    BY <1>0 DEF Run
  <2>3. /\ plan.status # "none" /\ run[r].day = plan.day
        /\ KeptFrom(run[r].date, plan.day, charges)
    BY <1>9 DEF OtherCommits, Scheduled, Running
  <2> HIDE DEF x
  <2> QED
    BY <2>1, <2>2, <2>3, ScheduledRun
<1>10. ASSUME NEW r \in Runs, FindCharge(r) PROVE Scheduled'
  <2> DEFINE n == NextMonthCharge(run[r].date, run[r].day)
             x == [run[r] EXCEPT !.date = n]
             y == [run[r] EXCEPT !.pc = "inserting"]
  <2>1. OnOrBefore(run[r].date, run[r].through) /\ run[r].pc = "charging"
    BY <1>10 DEF FindCharge, MoreToCharge
  <2>2. /\ run[r].date \in Dates /\ run[r].day \in 1 .. MaxDay
        /\ n \in Dates /\ n.month = run[r].date.month + 1
    BY <1>0, <2>1, NextChargeIsDate DEF Run
  <2>3. /\ plan.status # "none" /\ run[r].day = plan.day
        /\ KeptFrom(run[r].date, run[r].day, charges)
    BY <2>1 DEF Scheduled, Running
  <2>4. KeptFrom(n, run[r].day, charges)
    BY <2>2, <2>3, KeptNext
  <2>5. x.date = n /\ x.day = run[r].day /\ y.date = run[r].date /\ y.day = run[r].day
    BY <1>0 DEF Run
  <2>6. run' = [run EXCEPT ![r] = x] \/ run' = [run EXCEPT ![r] = y]
    BY <1>10 DEF FindCharge
  <2>7. UNCHANGED <<plan, charges>>
    BY <1>10 DEF FindCharge
  <2> HIDE DEF x, y, n
  <2> QED
    BY <2>3, <2>4, <2>5, <2>6, <2>7, ScheduledRun
<1>11. ASSUME NEW r \in Runs, InsertCharge(r) PROVE Scheduled'
  <2> DEFINE d == run[r].date
             n == NextMonthCharge(d, run[r].day)
  <2>1. /\ plan.status # "none" /\ run[r].day = plan.day
        /\ KeptFrom(d, run[r].day, charges)
    BY <1>11 DEF InsertCharge, Scheduled, Running
  <2>2. /\ d \in Dates /\ run[r].day \in 1 .. MaxDay
        /\ n \in Dates /\ n.month = d.month + 1
    BY <1>0, <1>11, NextChargeIsDate DEF InsertCharge, TypeInv, InsertsAreDue, Run
  <2>3. KeptFrom(n, run[r].day, charges)
    BY <2>1, <2>2, KeptNext
  <2>4. /\ run'[r].date = n /\ run'[r].day = run[r].day
        /\ \A q \in Runs : q # r => run'[q] = run[q]
    BY <1>0, <1>11 DEF InsertCharge, TypeInv, TypeOK, Run
  <2>5. \A c \in Dates : charges'[c] = IF c = d THEN 1 ELSE charges[c]
    BY <1>11 DEF InsertCharge, TypeInv, TypeOK
  <2>6. plan' = plan /\ d = OnDay(d.month, plan.day)
    BY <1>11, <2>1 DEF InsertCharge, KeptFrom
  <2>7. KeptFrom(plan.next, plan.day, charges')
    BY <2>1, <2>2, <2>5, <2>6, KeptMore DEF Scheduled
  <2>8. KeptFrom(n, plan.day, charges')
    <3> HIDE DEF n
    <3> QED
      BY <2>1, <2>2, <2>3, <2>5, <2>6, KeptMore
  <2>9. \A q \in Runs : Running(q) =>
           run[q].day = plan.day /\ KeptFrom(run[q].date, plan.day, charges')
    BY <2>2, <2>5, <2>6, KeptMore DEF Scheduled
  <2>10. \A q \in Runs : Running(q)' =>
            run'[q].day = plan.day /\ KeptFrom(run'[q].date, plan.day, charges')
    <3> HIDE DEF n, d
    <3> QED
      BY <2>1, <2>4, <2>8, <2>9 DEF Running
  <2>11. \A c \in Dates : charges[c] > 0 /\ c.month = d.month => c = d
    BY <2>1, <2>2, <2>6, LastMonthAssumption DEF KeptFrom, Dates, Months
  <2>12. OneChargePerMonth'
    BY <2>5, <2>11 DEF Scheduled, OneChargePerMonth
  <2> QED
    BY <2>1, <2>5, <2>6, <2>7, <2>10, <2>12 DEF Scheduled
<1>12. ASSUME NEW r \in Runs, UpdateNextCharge(r) PROVE Scheduled'
  <2>1. plan.status # "none" /\ KeptFrom(run[r].date, plan.day, charges)
    BY <1>12 DEF UpdateNextCharge, Scheduled, Running
  <2>2. plan'.status = plan.status /\ plan'.day = plan.day /\ plan'.next = run[r].date
    BY <1>12 DEF UpdateNextCharge, TypeInv, TypeOK, Plan
  <2>3. \A q \in Runs : Running(q)' => Running(q) /\ run'[q] = run[q]
    BY <1>12 DEF UpdateNextCharge, Running, IdleRun, TypeInv, TypeOK
  <2> QED
    BY <1>12, <2>1, <2>2, <2>3 DEF UpdateNextCharge, Scheduled, OneChargePerMonth
<1>13. CASE NextDay \/ UNCHANGED vars
  BY <1>13 DEF NextDay, vars, Scheduled, Running, OneChargePerMonth
<1> QED
  BY <1>1, <1>2, <1>3, <1>4, <1>5, <1>6, <1>7, <1>8, <1>9, <1>10, <1>11, <1>12, <1>13
     DEF Next, Step

(* Once torn, always torn.                                                    *)
LEMMA TornStays == torn /\ [Next]_vars => torn'
<1> SUFFICES ASSUME torn, [Next]_vars PROVE torn'
  OBVIOUS
<1>1. ASSUME NEW d \in Dates, Create(d) \/ RemoveCharge(d) PROVE torn'
  BY <1>1 DEF Create, RemoveCharge
<1>2. ASSUME NEW e \in Edits, EditCommit(e) PROVE torn'
  BY <1>2 DEF EditCommit
<1>3. ASSUME NEW e \in Edits, NEW new \in 1 .. MaxDay, EditLoad(e, new) PROVE torn'
  BY <1>3 DEF EditLoad
<1>4. ASSUME NEW r \in Runs, StartRun(r) \/ Step(r) \/ OtherCommits(r) \/ Abort(r) PROVE torn'
  <2>1. torn' = torn
    BY <1>4 DEF Step, StartRun, ListDue, NothingDue, OtherCommits, FindCharge, InsertCharge,
                UpdateNextCharge, Abort
  <2> QED
    BY <2>1
<1>5. CASE Deactivate \/ NextDay \/ UNCHANGED vars
  BY <1>5 DEF Deactivate, NextDay, vars
<1> QED
  BY <1>1, <1>2, <1>3, <1>4, <1>5 DEF Next

LEMMA ScheduledInvariant == Spec => [](TypeInv /\ ScheduledInv)
<1>1. Init => TypeInv /\ ScheduledInv
  BY InitTypeInv, ScheduledInit
<1>2. TypeInv /\ ScheduledInv /\ [Next]_vars => (TypeInv /\ ScheduledInv)'
  BY TypeStep, ScheduledStep, TornStays DEF ScheduledInv
<1> QED
  BY <1>1, <1>2, PTL DEF Spec

(* Runs may overlap and die, and the owner may edit the plan, as they like: a *)
(* month is charged once unless an edit did not see every charge.             *)
THEOREM ChargedOnce == Spec => []TwiceOnlyWhenTorn
<1>1. ScheduledInv => TwiceOnlyWhenTorn
  BY DEF ScheduledInv, Scheduled, TwiceOnlyWhenTorn
<1> QED
  BY <1>1, ScheduledInvariant, PTL

(* A short month never moves the schedule, and an edit moves what is still to *)
(* be charged and nothing else.                                               *)
THEOREM BillingDayKept == Spec => []NoDrift
<1>1. TypeInv /\ ScheduledInv => NoDrift
  BY DEF ScheduledInv, Scheduled, KeptFrom, NoDrift
<1> QED
  BY <1>1, ScheduledInvariant, PTL
=============================================================================
