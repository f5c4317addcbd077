------------------------ MODULE BudgetWarningsProofs ------------------------
(***************************************************************************)
(* Proofs about BudgetWarnings, for any limits and any number of tasks.     *)
(* None of the properties is inductive: what the tasks are about to do has  *)
(* to be related to what was sent and recorded.                             *)
(***************************************************************************)
EXTENDS BudgetWarnings, TLAPS

----------------------------------------------------------------------------
(* The type invariant.                                                       *)

(* The variables of BudgetWarnings keep their type.                          *)
THEOREM TypeCorrect == Spec => []TypeOK
<1>1. Init => TypeOK
  <2> SUFFICES ASSUME Init PROVE TypeOK
    OBVIOUS
  <2>1. used \in 0 .. MaxUsed
    BY MaxUsedAssumption DEF Init
  <2>2. alerts \in BOOLEAN /\ missed \in BOOLEAN
    BY DEF Init
  <2> QED
    BY <2>1, <2>2 DEF Init, TypeOK
<1>2. TypeOK /\ [Next]_vars => TypeOK'
  <2> SUFFICES ASSUME TypeOK, [Next]_vars PROVE TypeOK'
    OBVIOUS
  <2> USE LimitsAssumption, MaxUsedAssumption DEF TypeOK, Task, Idle
  <2>1. ASSUME NEW t \in Tasks, Spend(t) PROVE TypeOK'
    <3>1. used' \in 0 .. MaxUsed
      BY <2>1 DEF Spend
    <3>2. task' \in [Tasks -> Task \cup {Idle}]
      BY <2>1 DEF Spend, AddTask
    <3> QED
      BY <2>1, <3>1, <3>2 DEF Spend, AddTask, mails
  <2>2. ASSUME NEW t \in Tasks, NEW l \in Limits, SetLimit(t, l) PROVE TypeOK'
    BY <2>2 DEF SetLimit, AddTask, mails
  <2>3. ASSUME NEW t \in Tasks, LoadUser(t) PROVE TypeOK'
    BY <2>3 DEF LoadUser, Goes, ledger, mails
  <2>4. ASSUME NEW t \in Tasks, LoadBudget(t) PROVE TypeOK'
    BY <2>4 DEF LoadBudget, Goes, ledger, mails
  <2>5. ASSUME NEW t \in Tasks, AddUp(t) PROVE TypeOK'
    BY <2>5 DEF AddUp, Goes, ledger, mails
  <2>6. ASSUME NEW t \in Tasks, AddUpStale(t) PROVE TypeOK'
    BY <2>6 DEF AddUpStale, Goes, ledger, mails
  <2>7. ASSUME NEW t \in Tasks, AlreadyWarned(t) PROVE TypeOK'
    BY <2>7 DEF AlreadyWarned, Goes, ledger, mails
  <2>8. ASSUME NEW t \in Tasks, NotYetWarned(t) PROVE TypeOK'
    BY <2>8 DEF NotYetWarned, Goes, ledger
  <2>9. ASSUME NEW t \in Tasks, Send(t) PROVE TypeOK'
    BY <2>9 DEF Send, Goes, ledger
  <2>10. ASSUME NEW t \in Tasks, Mark(t) PROVE TypeOK'
    <3>1. task[t].limit \in Limits
      BY <2>10 DEF Mark
    <3>2. task' \in [Tasks -> Task \cup {Idle}]
      BY <2>10 DEF Mark, Goes
    <3> QED
      BY <2>10, <3>1, <3>2 DEF Mark, Goes, ledger
  <2>11. ASSUME NEW t \in Tasks, Fails(t) PROVE TypeOK'
    <3>1. task[t].pc = "marking" => task[t].limit \in Limits
      OBVIOUS
    <3>2. task' \in [Tasks -> Task \cup {Idle}]
      BY <2>11 DEF Fails, Goes
    <3>3. excused' \in SUBSET Limits
      BY <2>11, <3>1 DEF Fails
    <3> QED
      BY <2>11, <3>2, <3>3 DEF Fails, Goes, ledger
  <2>12. CASE Unspend
    BY <2>12 DEF Unspend, mails
  <2>13. CASE RemoveLimit
    BY <2>13 DEF RemoveLimit, mails
  <2>14. ASSUME NEW flag \in BOOLEAN, SetAlerts(flag) PROVE TypeOK'
    BY <2>14 DEF SetAlerts, mails
  <2>15. CASE DropCharge
    BY <2>15 DEF DropCharge, mails
  <2>16. CASE UNCHANGED vars
    BY <2>16 DEF vars, ledger, mails
  <2>17. ASSUME NEW l \in Limits, CrossedLimit(l) PROVE TypeOK'
    BY <2>17 DEF CrossedLimit, mails
  <2> QED
    BY <2>1, <2>2, <2>3, <2>4, <2>5, <2>6, <2>7, <2>8, <2>9, <2>10, <2>11, <2>12,
       <2>13, <2>14, <2>15, <2>16, <2>17 DEF Next
<1> QED
  BY <1>1, <1>2, PTL DEF Spec

----------------------------------------------------------------------------
(* What was sent, and why again.                                             *)

(* What was sent is recorded, about to be, or was lost on the way.           *)
SentIsAccountedFor == \A l \in sent :
    \/ l \in delivered
    \/ l \in excused
    \/ \E t \in Tasks : task[t].pc = "marking" /\ task[t].limit = l

MarkingWasSent == \A t \in Tasks : task[t].pc = "marking" => task[t].limit \in sent

(* A task about to send what was sent before has a reason.                   *)
SendingIsFresh == \A t \in Tasks :
    task[t].pc = "sending" /\ task[t].limit \in sent => task[t].limit \in excused

OverlapsAreExcused == \A t, q \in Tasks :
    t # q /\ task[t].limit = task[q].limit
      /\ task[t].pc \in {"sending", "marking"} /\ task[q].pc \in {"sending", "marking"}
        => task[t].limit \in excused

MailInv ==
    /\ TypeOK
    /\ SentIsAccountedFor
    /\ MarkingWasSent
    /\ SendingIsFresh
    /\ OverlapsAreExcused
    /\ DeliveredWasSent
    /\ RepeatsExplained

(* A step that moves one task to where it sends and records nothing.         *)
LEMMA QuietStep ==
    ASSUME MailInv, TypeOK', UNCHANGED mails, NEW t \in Tasks, NEW x,
           task' = [task EXCEPT ![t] = x],
           task[t].pc \notin {"sending", "marking"}, x.pc \notin {"sending", "marking"}
    PROVE  MailInv'
<1> USE DEF MailInv, mails
<1>1. \A q \in Tasks : task'[q].pc \in {"sending", "marking"} => task'[q] = task[q]
  BY DEF TypeOK
<1>2. \A q \in Tasks : task[q].pc \in {"sending", "marking"} => task'[q] = task[q]
  BY DEF TypeOK
<1>3. SentIsAccountedFor'
  BY <1>2 DEF SentIsAccountedFor
<1>4. MarkingWasSent'
  BY <1>1 DEF MarkingWasSent
<1>5. SendingIsFresh'
  BY <1>1 DEF SendingIsFresh
<1>6. OverlapsAreExcused'
  BY <1>1 DEF OverlapsAreExcused
<1> QED
  BY <1>3, <1>4, <1>5, <1>6 DEF DeliveredWasSent, RepeatsExplained

LEMMA MailInvStays == MailInv /\ TypeOK' /\ [Next]_vars => MailInv'
<1> SUFFICES ASSUME MailInv, TypeOK', [Next]_vars PROVE MailInv'
  OBVIOUS
<1> USE DEF MailInv
<1>1. ASSUME NEW t \in Tasks, NotYetWarned(t) PROVE MailInv'
  <2> DEFINE l == task[t].limit
  <2>1. l \in Limits /\ l \notin delivered /\ task[t].pc = "checking"
    BY <1>1 DEF NotYetWarned, WasDelivered, TypeOK, Task, Idle
  <2>2. \A q \in Tasks : q # t => task'[q] = task[q]
    BY <1>1 DEF NotYetWarned, Goes, TypeOK
  <2>3. task'[t].pc = "sending" /\ task'[t].limit = l
    BY <1>1 DEF NotYetWarned, Goes, TypeOK
  <2>4. excused \subseteq excused' /\ (Sending(l) => l \in excused')
    BY <1>1 DEF NotYetWarned
  <2>5. UNCHANGED <<delivered, sent, repeated>>
    BY <1>1 DEF NotYetWarned
  <2>6. SentIsAccountedFor'
    BY <2>1, <2>2, <2>4, <2>5 DEF SentIsAccountedFor
  <2>7. MarkingWasSent'
    BY <2>2, <2>3, <2>5 DEF MarkingWasSent
  <2>8. l \in sent => l \in excused'
    BY <2>1, <2>4 DEF SentIsAccountedFor, Sending
  <2>9. SendingIsFresh'
    BY <2>2, <2>3, <2>4, <2>5, <2>8 DEF SendingIsFresh
  <2>10. OverlapsAreExcused'
    BY <2>2, <2>3, <2>4 DEF OverlapsAreExcused, Sending
  <2> QED
    BY <2>4, <2>5, <2>6, <2>7, <2>9, <2>10 DEF DeliveredWasSent, RepeatsExplained
<1>2. ASSUME NEW t \in Tasks, Send(t) PROVE MailInv'
  <2> DEFINE l == task[t].limit
  <2>1. l \in Limits /\ task[t].pc = "sending"
    BY <1>2 DEF Send, TypeOK, Task, Idle
  <2>2. \A q \in Tasks : q # t => task'[q] = task[q]
    BY <1>2 DEF Send, Goes, TypeOK
  <2>3. task'[t].pc = "marking" /\ task'[t].limit = l
    BY <1>2 DEF Send, Goes, TypeOK
  <2>4. /\ sent' = sent \cup {l} /\ repeated' = repeated \cup (sent \cap {l})
        /\ UNCHANGED <<delivered, excused>>
    BY <1>2 DEF Send
  <2>5. SentIsAccountedFor'
    BY <2>1, <2>2, <2>3, <2>4 DEF SentIsAccountedFor
  <2>6. MarkingWasSent'
    BY <2>2, <2>3, <2>4 DEF MarkingWasSent
  <2>7. \A q \in Tasks : q # t /\ task[q].pc = "sending" /\ task[q].limit = l => l \in excused
    BY <2>1 DEF OverlapsAreExcused
  <2>8. SendingIsFresh'
    BY <2>2, <2>3, <2>4, <2>7 DEF SendingIsFresh
  <2>9. OverlapsAreExcused'
    BY <2>1, <2>2, <2>3, <2>4 DEF OverlapsAreExcused
  <2>10. l \in sent => l \in excused
    BY <2>1 DEF SendingIsFresh
  <2> QED
    BY <2>4, <2>5, <2>6, <2>8, <2>9, <2>10 DEF DeliveredWasSent, RepeatsExplained
<1>3. ASSUME NEW t \in Tasks, Mark(t) PROVE MailInv'
  <2> DEFINE l == task[t].limit
  <2>1. l \in sent /\ task[t].pc = "marking"
    BY <1>3 DEF Mark, MarkingWasSent
  <2>2. \A q \in Tasks : q # t => task'[q] = task[q]
    BY <1>3 DEF Mark, Goes, TypeOK
  <2>3. task'[t].pc = "idle"
    BY <1>3 DEF Mark, Goes, TypeOK, Idle
  <2>4. delivered' = delivered \cup {l} /\ UNCHANGED <<sent, repeated, excused>>
    BY <1>3 DEF Mark
  <2>5. SentIsAccountedFor'
    BY <2>1, <2>2, <2>4 DEF SentIsAccountedFor
  <2>6. MarkingWasSent'
    BY <2>2, <2>3, <2>4 DEF MarkingWasSent
  <2>7. SendingIsFresh'
    BY <2>2, <2>3, <2>4 DEF SendingIsFresh
  <2>8. OverlapsAreExcused'
    BY <2>2, <2>3, <2>4 DEF OverlapsAreExcused
  <2> QED
    BY <2>1, <2>4, <2>5, <2>6, <2>7, <2>8 DEF DeliveredWasSent, RepeatsExplained
<1>4. ASSUME NEW t \in Tasks, Fails(t) PROVE MailInv'
  <2> DEFINE l == task[t].limit
  <2>1. \A q \in Tasks : q # t => task'[q] = task[q]
    BY <1>4 DEF Fails, Goes, TypeOK
  <2>2. task'[t].pc = "idle"
    BY <1>4 DEF Fails, Goes, TypeOK, Idle
  <2>3. /\ excused \subseteq excused' /\ (task[t].pc = "marking" => l \in excused')
        /\ UNCHANGED <<delivered, sent, repeated>>
    BY <1>4 DEF Fails
  <2>4. SentIsAccountedFor'
    BY <2>1, <2>3 DEF SentIsAccountedFor
  <2>5. MarkingWasSent'
    BY <2>1, <2>2, <2>3 DEF MarkingWasSent
  <2>6. SendingIsFresh'
    BY <2>1, <2>2, <2>3 DEF SendingIsFresh
  <2>7. OverlapsAreExcused'
    BY <2>1, <2>2, <2>3 DEF OverlapsAreExcused
  <2> QED
    BY <2>3, <2>4, <2>5, <2>6, <2>7 DEF DeliveredWasSent, RepeatsExplained
<1>5. ASSUME UNCHANGED <<task, mails>> PROVE MailInv'
  BY <1>5 DEF mails, SentIsAccountedFor, MarkingWasSent, SendingIsFresh,
     OverlapsAreExcused, DeliveredWasSent, RepeatsExplained
<1>6. ASSUME NEW t \in Tasks, AddTask(t) PROVE MailInv'
  <2> DEFINE x == [pc |-> "queued", limit |-> 0]
  <2>1. /\ task' = [task EXCEPT ![t] = x] /\ UNCHANGED mails
        /\ task[t].pc \notin {"sending", "marking"} /\ x.pc \notin {"sending", "marking"}
    BY <1>6 DEF AddTask
  <2> QED
    BY <2>1, QuietStep
<1>7. ASSUME NEW t \in Tasks, LoadUser(t) PROVE MailInv'
  <2> DEFINE x == IF alerts THEN [pc |-> "loaded", limit |-> 0] ELSE Idle
  <2>1. /\ task' = [task EXCEPT ![t] = x] /\ UNCHANGED mails
        /\ task[t].pc \notin {"sending", "marking"} /\ x.pc \notin {"sending", "marking"}
    BY <1>7 DEF LoadUser, Goes, Idle
  <2> QED
    BY <2>1, QuietStep
<1>8. ASSUME NEW t \in Tasks, LoadBudget(t) PROVE MailInv'
  <2> DEFINE x == IF limit = 0 THEN Idle ELSE [pc |-> "summing", limit |-> limit]
  <2>1. /\ task' = [task EXCEPT ![t] = x] /\ UNCHANGED mails
        /\ task[t].pc \notin {"sending", "marking"} /\ x.pc \notin {"sending", "marking"}
    BY <1>8 DEF LoadBudget, Goes, Idle
  <2> QED
    BY <2>1, QuietStep
<1>9. ASSUME NEW t \in Tasks, AddUp(t) \/ AddUpStale(t) \/ AlreadyWarned(t) PROVE MailInv'
  <2>1. PICK x \in {Idle, [task[t] EXCEPT !.pc = "checking"]} :
           task' = [task EXCEPT ![t] = x] /\ UNCHANGED mails
    BY <1>9 DEF AddUp, AddUpStale, AlreadyWarned, Goes
  <2>2. task[t].pc \notin {"sending", "marking"}
    BY <1>9 DEF AddUp, AddUpStale, AlreadyWarned
  <2>3. x.pc \notin {"sending", "marking"}
    BY <2>1 DEF TypeOK, Task, Idle
  <2> QED
    BY <2>1, <2>2, <2>3, QuietStep
<1>10. ASSUME \/ Unspend \/ DropCharge \/ RemoveLimit
              \/ (\E flag \in BOOLEAN : SetAlerts(flag)) \/ UNCHANGED vars
              \/ (\E l \in Limits : CrossedLimit(l))
       PROVE  MailInv'
  BY <1>5, <1>10 DEF Unspend, DropCharge, CrossedLimit, RemoveLimit, SetAlerts, vars
<1> QED
  BY <1>1, <1>2, <1>3, <1>4, <1>6, <1>7, <1>8, <1>9, <1>10 DEF Next, Spend, SetLimit

(* Sending and recording a warning stay related as MailInv says, whatever    *)
(* the tasks and the handlers do.                                            *)
THEOREM MailInvariant == Spec => []MailInv
<1>1. Init /\ TypeOK => MailInv
  <2> SUFFICES ASSUME Init, TypeOK PROVE MailInv
    OBVIOUS
  <2>1. /\ \A t \in Tasks : task[t].pc = "idle"
        /\ delivered = {} /\ sent = {} /\ repeated = {}
    BY DEF Init, Idle
  <2>2. MarkingWasSent
    BY <2>1 DEF MarkingWasSent
  <2>3. SendingIsFresh
    BY <2>1 DEF SendingIsFresh
  <2>4. OverlapsAreExcused
    BY <2>1 DEF OverlapsAreExcused
  <2>5. SentIsAccountedFor /\ DeliveredWasSent /\ RepeatsExplained
    BY <2>1 DEF SentIsAccountedFor, DeliveredWasSent, RepeatsExplained
  <2> QED
    BY <2>2, <2>3, <2>4, <2>5 DEF MailInv
<1> QED
  BY <1>1, MailInvStays, TypeCorrect, PTL DEF Spec

(* A key in notification_deliveries stands for a mail that went out.         *)
THEOREM RecordsAreTrue == Spec => []DeliveredWasSent
<1>1. MailInv => DeliveredWasSent
  BY DEF MailInv
<1> QED
  BY <1>1, MailInvariant, PTL

(* Two mails for one limit mean overlapping tasks, or one that failed after  *)
(* it had sent.                                                              *)
THEOREM WarnedAgainForAReason == Spec => []RepeatsExplained
<1>1. MailInv => RepeatsExplained
  BY DEF MailInv
<1> QED
  BY <1>1, MailInvariant, PTL

----------------------------------------------------------------------------
(* What has to be noticed.                                                   *)

(* A task that looks after the limit as it is now.                           *)
WillNotice(t) ==
    \/ task[t].pc \in {"queued", "loaded"}
    \/ task[t].pc \in {"summing", "checking", "sending", "marking"} /\ task[t].limit = limit

NoticeInv ==
    alerts /\ ~missed /\ limit # 0 /\ used > limit
        => limit \in delivered \/ \E t \in Tasks : WillNotice(t)

(* The other tasks go on looking after what they looked after.               *)
LEMMA OthersGoOn ==
    ASSUME TypeOK, NEW t \in Tasks, NEW x, task' = [task EXCEPT ![t] = x], UNCHANGED limit
    PROVE  /\ \A q \in Tasks \ {t} : WillNotice(q) => WillNotice(q)'
           /\ task'[t] = x
  BY DEF TypeOK, WillNotice

(* A step of t that moves on is one after which t still looks after the      *)
(* limit, if it did, or somebody need not.                                   *)
LEMMA NoticeStep ==
    ASSUME TypeOK, NoticeInv, NEW t \in Tasks, NEW x, task' = [task EXCEPT ![t] = x],
           UNCHANGED ledger, delivered \subseteq delivered', missed => missed',
           WillNotice(t) /\ alerts /\ ~missed' /\ limit # 0 /\ used > limit
               => WillNotice(t)' \/ limit \in delivered'
    PROVE  NoticeInv'
<1> SUFFICES ASSUME (alerts /\ ~missed /\ limit # 0 /\ used > limit)'
             PROVE  limit' \in delivered' \/ \E q \in Tasks : WillNotice(q)'
  BY DEF NoticeInv
<1>1. limit \in delivered \/ \E q \in Tasks : WillNotice(q)
  BY DEF NoticeInv, ledger
<1>2. \A q \in Tasks \ {t} : WillNotice(q) => WillNotice(q)'
  BY OthersGoOn DEF ledger
<1>3. WillNotice(t) => WillNotice(t)' \/ limit' \in delivered'
  BY DEF ledger
<1> QED
  BY <1>1, <1>2, <1>3 DEF ledger

LEMMA NoticeInvStays == TypeOK /\ NoticeInv /\ [Next]_vars => NoticeInv'
<1> SUFFICES ASSUME TypeOK, NoticeInv, [Next]_vars PROVE NoticeInv'
  OBVIOUS
<1>1. ASSUME NEW t \in Tasks, AddTask(t) PROVE NoticeInv'
  <2>1. task'[t].pc = "queued"
    BY <1>1 DEF AddTask, TypeOK
  <2> QED
    BY <2>1 DEF NoticeInv, WillNotice
<1>2. ASSUME NEW t \in Tasks, LoadUser(t) PROVE NoticeInv'
  <2> DEFINE x == IF alerts THEN [pc |-> "loaded", limit |-> 0] ELSE Idle
  <2>1. task' = [task EXCEPT ![t] = x] /\ UNCHANGED <<ledger, mails, missed>>
    BY <1>2 DEF LoadUser, Goes
  <2>2. alerts => WillNotice(t)'
    BY <2>1 DEF TypeOK, WillNotice
  <2> QED
    BY <2>1, <2>2, NoticeStep DEF mails
<1>3. ASSUME NEW t \in Tasks, LoadBudget(t) PROVE NoticeInv'
  <2> DEFINE x == IF limit = 0 THEN Idle ELSE [pc |-> "summing", limit |-> limit]
  <2>1. task' = [task EXCEPT ![t] = x] /\ UNCHANGED <<ledger, mails, missed>>
    BY <1>3 DEF LoadBudget, Goes
  <2>2. limit # 0 => WillNotice(t)'
    BY <2>1 DEF TypeOK, WillNotice, ledger
  <2> QED
    BY <2>1, <2>2, NoticeStep DEF mails
<1>4. ASSUME NEW t \in Tasks, AddUp(t) PROVE NoticeInv'
  <2> DEFINE x == IF used <= task[t].limit THEN Idle ELSE [task[t] EXCEPT !.pc = "checking"]
  <2>1. task' = [task EXCEPT ![t] = x] /\ UNCHANGED <<ledger, mails, missed>>
    BY <1>4 DEF AddUp, Goes
  <2>2. ASSUME WillNotice(t), limit # 0, used > limit PROVE WillNotice(t)'
    <3>1. task[t].limit = limit /\ task[t].pc = "summing"
      BY <1>4, <2>2 DEF AddUp, WillNotice
    <3>2. ~(used <= task[t].limit)
      BY <2>2, <3>1, LimitsAssumption, MaxUsedAssumption DEF TypeOK
    <3>3. task'[t].pc = "checking" /\ task'[t].limit = limit
      BY <2>1, <3>1, <3>2 DEF TypeOK, Task, Idle
    <3> QED
      BY <2>1, <3>3 DEF WillNotice, ledger
  <2> QED
    BY <2>1, <2>2, NoticeStep DEF mails
<1>5. ASSUME NEW t \in Tasks, AddUpStale(t) \/ Fails(t) PROVE NoticeInv'
  BY <1>5 DEF AddUpStale, Fails, NoticeInv
<1>6. ASSUME NEW t \in Tasks, AlreadyWarned(t) PROVE NoticeInv'
  <2>1. task' = [task EXCEPT ![t] = Idle] /\ UNCHANGED <<ledger, mails, missed>>
    BY <1>6 DEF AlreadyWarned, Goes
  <2>2. WillNotice(t) => limit \in delivered'
    BY <1>6 DEF AlreadyWarned, WasDelivered, WillNotice, mails
  <2> QED
    BY <2>1, <2>2, NoticeStep DEF mails
<1>7. ASSUME NEW t \in Tasks, NEW pc \in {"sending", "marking"},
             task[t].pc \in {"checking", "sending"},
             task' = [task EXCEPT ![t] = [task[t] EXCEPT !.pc = pc]],
             UNCHANGED <<ledger, delivered, missed>>
      PROVE  NoticeInv'
  <2>1. task'[t].pc = pc /\ task'[t].limit = task[t].limit
    BY <1>7 DEF TypeOK, Task, Idle
  <2>2. WillNotice(t) => WillNotice(t)'
    BY <1>7, <2>1 DEF WillNotice, ledger
  <2> QED
    BY <1>7, <2>2, NoticeStep
<1>8. ASSUME NEW t \in Tasks, NotYetWarned(t) PROVE NoticeInv'
  BY <1>7, <1>8 DEF NotYetWarned, Goes
<1>9. ASSUME NEW t \in Tasks, Send(t) PROVE NoticeInv'
  BY <1>7, <1>9 DEF Send, Goes
<1>10. ASSUME NEW t \in Tasks, Mark(t) PROVE NoticeInv'
  <2>1. /\ task' = [task EXCEPT ![t] = Idle] /\ UNCHANGED <<ledger, missed>>
        /\ delivered \subseteq delivered'
    BY <1>10 DEF Mark, Goes
  <2>2. WillNotice(t) => limit \in delivered'
    BY <1>10 DEF Mark, WillNotice
  <2> QED
    BY <2>1, <2>2, NoticeStep
<1>11. CASE Unspend
  <2>1. used > used' /\ used' \in Nat /\ used \in Nat /\ limit \in Nat
    BY <1>11, LimitsAssumption, MaxUsedAssumption DEF Unspend, TypeOK
  <2>2. UNCHANGED <<limit, alerts, task, delivered, missed>>
    BY <1>11 DEF Unspend, mails
  <2>3. used' > limit => used > limit
    BY <2>1
  <2> QED
    BY <2>2, <2>3 DEF NoticeInv, WillNotice
<1>12. CASE RemoveLimit
  BY <1>12 DEF RemoveLimit, NoticeInv
<1>13. ASSUME NEW flag \in BOOLEAN, SetAlerts(flag) PROVE NoticeInv'
  <2>1. UNCHANGED <<used, limit, task, delivered>> /\ (alerts' /\ ~missed' => alerts /\ ~missed)
    BY <1>13 DEF SetAlerts, mails
  <2> QED
    BY <2>1 DEF NoticeInv, WillNotice
<1>14. CASE DropCharge
  BY <1>14 DEF DropCharge, NoticeInv
<1>15. ASSUME NEW l \in Limits, CrossedLimit(l) PROVE NoticeInv'
  BY <1>15 DEF CrossedLimit, NoticeInv
<1>16. CASE UNCHANGED vars
  BY <1>16 DEF vars, ledger, mails, NoticeInv, WillNotice
<1> QED
  BY <1>1, <1>2, <1>3, <1>4, <1>5, <1>6, <1>8, <1>9, <1>10, <1>11, <1>12, <1>13, <1>14, <1>15,
     <1>16
     DEF Next, Spend, SetLimit

(* When the tasks are through, an overrun has been told, or there is a       *)
(* reason on record why not.                                                 *)
THEOREM OverrunsGetNoticed == Spec => []OverrunsAreNoticed
<1>1. Init => NoticeInv
  BY DEF Init, NoticeInv
<1>2. NoticeInv => OverrunsAreNoticed
  BY DEF NoticeInv, OverrunsAreNoticed, WillNotice, Idle
<1> QED
  BY <1>1, <1>2, NoticeInvStays, TypeCorrect, PTL DEF Spec

----------------------------------------------------------------------------
(* Refinement of DeliveryLog.                                                *)

(* What the log sees of a task that is at x.                                 *)
SeenAs(x) == IF x.pc \in {"sending", "marking"} THEN [pc |-> x.pc, key |-> x.limit] ELSE Log!None

(* The log sees nothing of a step but what it does to the task that takes it.*)
LEMMA LogSeesTheTask ==
    ASSUME TypeOK, NEW t \in Tasks, NEW x, task' = [task EXCEPT ![t] = x]
    PROVE  /\ Mailing[t] = SeenAs(task[t])
           /\ Mailing' = [Mailing EXCEPT ![t] = SeenAs(x)]
<1>1. \A q \in Tasks : Mailing[q] = SeenAs(task[q]) /\ Mailing'[q] = SeenAs(task'[q])
  BY DEF Mailing, SeenAs, Log!None
<1>2. task'[t] = x /\ \A q \in Tasks : q # t => task'[q] = task[q]
  BY DEF TypeOK
<1>3. Mailing' = [q \in Tasks |-> Mailing'[q]] /\ Mailing = [q \in Tasks |-> Mailing[q]]
  BY DEF Mailing
<1> HIDE DEF Mailing
<1> QED
  BY <1>1, <1>2, <1>3

(* The log sees a task once it has found no row, until it is through.        *)
LEMMA SeenOnlyAtTheMail ==
    /\ SeenAs(Idle) = Log!None
    /\ \A x : SeenAs(x) # Log!None <=> x.pc \in {"sending", "marking"}
<1>1. SeenAs(Idle) = Log!None
  BY DEF SeenAs, Idle
<1>2. ASSUME NEW x, x.pc \in {"sending", "marking"} PROVE SeenAs(x) # Log!None
  <2>1. SeenAs(x).pc \in {"sending", "marking"} /\ Log!None.pc = "none"
    BY <1>2 DEF SeenAs, Log!None
  <2> QED
    BY <2>1
<1> QED
  BY <1>1, <1>2 DEF SeenAs

(* A task that neither was nor is at a mail takes no step of the log.        *)
LEMMA LogSeesNothing ==
    ASSUME TypeOK, NEW t \in Tasks, NEW x, task' = [task EXCEPT ![t] = x],
           task[t].pc \notin {"sending", "marking"}, x.pc \notin {"sending", "marking"}
    PROVE  UNCHANGED Mailing
<1>1. Mailing[t] = Log!None /\ Mailing' = [Mailing EXCEPT ![t] = Log!None]
  BY LogSeesTheTask DEF SeenAs
<1>2. Mailing = [q \in Tasks |-> Mailing[q]]
  BY DEF Mailing
<1> HIDE DEF Mailing
<1> QED
  BY <1>1, <1>2

(* Every step of the tasks is one of the log or leaves it as it is.          *)
LEMMA LogStep == TypeOK /\ [Next]_vars => [Log!Next]_<<delivered, sent, Mailing>>
<1> SUFFICES ASSUME TypeOK, [Next]_vars
             PROVE  Log!Next \/ UNCHANGED <<delivered, sent, Mailing>>
  OBVIOUS
<1> DEFINE Stutter == UNCHANGED <<delivered, sent, Mailing>>
<1>1. \A t \in Tasks : task[t] \in Task \cup {Idle}
  BY DEF TypeOK
<1>2. ASSUME UNCHANGED <<task, mails>> PROVE Stutter
  BY <1>2 DEF mails, Mailing
<1>3. ASSUME NEW t \in Tasks, AddTask(t) PROVE Stutter
  <2> DEFINE x == [pc |-> "queued", limit |-> 0]
  <2>1. /\ task' = [task EXCEPT ![t] = x] /\ UNCHANGED mails
        /\ task[t].pc \notin {"sending", "marking"} /\ x.pc \notin {"sending", "marking"}
    BY <1>3 DEF AddTask
  <2> QED
    BY <2>1, LogSeesNothing DEF mails
<1>4. ASSUME NEW t \in Tasks, LoadUser(t) \/ LoadBudget(t) PROVE Stutter
  <2>1. PICK x \in {Idle, [pc |-> "loaded", limit |-> 0], [pc |-> "summing", limit |-> limit]} :
           task' = [task EXCEPT ![t] = x] /\ UNCHANGED mails
    BY <1>4 DEF LoadUser, LoadBudget, Goes
  <2>2. task[t].pc \notin {"sending", "marking"} /\ x.pc \notin {"sending", "marking"}
    BY <1>4 DEF LoadUser, LoadBudget, Idle
  <2> QED
    BY <2>1, <2>2, LogSeesNothing DEF mails
<1>5. ASSUME NEW t \in Tasks, AddUp(t) \/ AddUpStale(t) \/ AlreadyWarned(t) PROVE Stutter
  <2>1. PICK x \in {Idle, [task[t] EXCEPT !.pc = "checking"]} :
           task' = [task EXCEPT ![t] = x] /\ UNCHANGED mails
    BY <1>5 DEF AddUp, AddUpStale, AlreadyWarned, Goes
  <2>2. task[t].pc \notin {"sending", "marking"} /\ x.pc \notin {"sending", "marking"}
    BY <1>1, <1>5 DEF AddUp, AddUpStale, AlreadyWarned, Task, Idle
  <2> QED
    BY <2>1, <2>2, LogSeesNothing DEF mails
<1>6. ASSUME NEW t \in Tasks, NotYetWarned(t) PROVE Log!Next
  <2> DEFINE x == [task[t] EXCEPT !.pc = "sending"]
  <2>1. task[t].pc = "checking" /\ task[t].limit \in Limits \ delivered
    BY <1>1, <1>6 DEF NotYetWarned, WasDelivered, Task, Idle
  <2>2. task' = [task EXCEPT ![t] = x] /\ UNCHANGED <<delivered, sent>>
    BY <1>6 DEF NotYetWarned, Goes
  <2>3. x.pc = "sending" /\ x.limit = task[t].limit
    BY <1>1, <2>1 DEF Task, Idle
  <2>4. /\ Mailing[t] = Log!None
        /\ Mailing' = [Mailing EXCEPT ![t] = [pc |-> "sending", key |-> task[t].limit]]
    BY <2>1, <2>2, <2>3, LogSeesTheTask DEF SeenAs
  <2>5. Log!FindNone(t, task[t].limit)
    BY <2>1, <2>2, <2>4 DEF Log!FindNone
  <2> QED
    BY <2>1, <2>5 DEF Log!Next
<1>7. ASSUME NEW t \in Tasks, Send(t) PROVE Log!Next
  <2> DEFINE x == [task[t] EXCEPT !.pc = "marking"]
  <2>1. /\ task[t].pc = "sending" /\ task' = [task EXCEPT ![t] = x]
        /\ sent' = sent \cup {task[t].limit} /\ UNCHANGED delivered
    BY <1>7 DEF Send, Goes
  <2>2. x.pc = "marking" /\ x.limit = task[t].limit
    BY <1>1, <2>1 DEF Task, Idle
  <2>3. /\ Mailing[t] = [pc |-> "sending", key |-> task[t].limit]
        /\ Mailing' = [Mailing EXCEPT ![t] = [pc |-> "marking", key |-> task[t].limit]]
    BY <2>1, <2>2, LogSeesTheTask DEF SeenAs
  <2>4. Log!Tell(t)
    BY <2>1, <2>3 DEF Log!Tell
  <2> QED
    BY <2>4 DEF Log!Next
<1>8. ASSUME NEW t \in Tasks, Mark(t) PROVE Log!Next
  <2>1. /\ task[t].pc = "marking" /\ task' = [task EXCEPT ![t] = Idle]
        /\ delivered' = delivered \cup {task[t].limit} /\ UNCHANGED sent
    BY <1>8 DEF Mark, Goes
  <2>2. /\ Mailing[t] = [pc |-> "marking", key |-> task[t].limit]
        /\ Mailing' = [Mailing EXCEPT ![t] = Log!None]
    <3>1. Mailing[t] = SeenAs(task[t]) /\ Mailing' = [Mailing EXCEPT ![t] = SeenAs(Idle)]
      BY <2>1, LogSeesTheTask
    <3>2. SeenAs(task[t]) = [pc |-> "marking", key |-> task[t].limit]
      BY <2>1 DEF SeenAs
    <3> QED
      BY <3>1, <3>2, SeenOnlyAtTheMail
  <2>3. Log!Record(t)
    BY <2>1, <2>2 DEF Log!Record
  <2> QED
    BY <2>3 DEF Log!Next
<1>9. ASSUME NEW t \in Tasks, Fails(t) PROVE Log!Next \/ Stutter
  <2>1. task' = [task EXCEPT ![t] = Idle] /\ UNCHANGED <<delivered, sent>>
    BY <1>9 DEF Fails, Goes
  <2>2. CASE task[t].pc \in {"sending", "marking"}
    <3>1. Mailing[t] # Log!None /\ Mailing' = [Mailing EXCEPT ![t] = Log!None]
      <4>1. Mailing[t] = SeenAs(task[t]) /\ Mailing' = [Mailing EXCEPT ![t] = SeenAs(Idle)]
        BY <2>1, LogSeesTheTask
      <4> QED
        BY <2>2, <4>1, SeenOnlyAtTheMail
    <3>2. Log!GiveUp(t)
      BY <2>1, <3>1 DEF Log!GiveUp
    <3> QED
      BY <3>2 DEF Log!Next
  <2>3. CASE task[t].pc \notin {"sending", "marking"}
    BY <2>1, <2>3, LogSeesNothing DEF Idle
  <2> QED
    BY <2>2, <2>3
<1>10. ASSUME \/ Unspend \/ DropCharge \/ RemoveLimit
              \/ (\E flag \in BOOLEAN : SetAlerts(flag)) \/ UNCHANGED vars
              \/ (\E l \in Limits : CrossedLimit(l))
       PROVE  Stutter
  BY <1>2, <1>10 DEF Unspend, DropCharge, CrossedLimit, RemoveLimit, SetAlerts, vars
<1> QED
  BY <1>3, <1>4, <1>5, <1>6, <1>7, <1>8, <1>9, <1>10 DEF Next, Spend, SetLimit

(* Any number of overlapping tasks look up, mail and record warnings as      *)
(* DeliveryLog promises (was_delivered, send and mark_delivered of           *)
(* SendBudgetExceededNotification).                                          *)
THEOREM WarningsFollowTheLog == Spec => LogSpec
<1>1. Init => Log!Init
  BY DEF Init, Idle, Mailing, Log!Init, Log!None
<1> QED
  BY <1>1, LogStep, TypeCorrect, PTL DEF Spec, LogSpec, Log!Spec, Log!log
=============================================================================
