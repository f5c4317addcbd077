--------------------------- MODULE CalendarProofs ---------------------------
(***************************************************************************)
(* Proofs about the two components that walk the calendar forward from      *)
(* where an account began: the daily summaries, for any calendar and any    *)
(* look-back, and the savings, for any calendar, any nets of a month and    *)
(* any number of overviews at once.                                         *)
(***************************************************************************)
EXTENDS DailySummaries, Savings, FiniteSetTheorems, TLAPS

----------------------------------------------------------------------------
(* The daily summaries.                                                      *)

(* Where a round stands: the days it has gone past are recorded or failed,   *)
(* and the one it is recording has been sent.                                *)
Settled(d) == d \in delivered \/ d \in round.failed \/ d \in round.left

RoundInv ==
    /\ round # Idle => \A d \in Days :
          d >= Created /\ d < round.now /\ d >= round.now - CatchUp => Settled(d)
    /\ \A d \in Days : round.pc = "marking" /\ IsNext(d) => d \in sent
    /\ \A d \in Days : round.pc = "sending" /\ IsNext(d) /\ d \in sent => d \in excused

(* What was sent is recorded, about to be, or was lost on the way.           *)
SentIsAccountedFor == \A d \in sent :
    d \in delivered \/ d \in excused \/ (round.pc = "marking" /\ IsNext(d))

DayInv ==
    /\ TypeOK
    /\ RoundInv
    /\ SentIsAccountedFor
    /\ DeliveredWasSent
    /\ RepeatsExplained

----------------------------------------------------------------------------
LEMMA IdleIsNoRound == Idle.pc = "idle" /\ \A x \in Round : x # Idle /\ x.pc # "idle"
  BY DEF Idle, Round

LEMMA InitDay == Init => DayInv
<1> SUFFICES ASSUME Init PROVE DayInv
  OBVIOUS
<1>1. TypeOK
  BY DaysAssumption DEF Init, TypeOK, Days
<1>2. RoundInv
  BY IdleIsNoRound DEF Init, RoundInv
<1> QED
  BY <1>1, <1>2 DEF Init, DayInv, SentIsAccountedFor, DeliveredWasSent, RepeatsExplained

LEMMA NextDay == DayInv /\ [Next]_vars => DayInv'
<1> SUFFICES ASSUME DayInv, [Next]_vars PROVE DayInv'
  OBVIOUS
<1> USE DEF DayInv
<1>1. ASSUME NEW late \in BOOLEAN, Start(late) PROVE DayInv'
  <2>1. /\ round'.pc = "choosing" /\ round'.now = today
        /\ round'.left = Owed(today, late) /\ round'.failed = {}
    BY <1>1 DEF Start
  <2>2. UNCHANGED <<today, delivered, sent, repeated, excused>> /\ round.pc = "idle"
    BY <1>1 DEF Start, mails, Idle
  <2>3. TypeOK'
    BY <1>1, <2>1, <2>2 DEF Start, TypeOK, Round, Owed
  <2>4. RoundInv'
    BY <2>1, <2>2 DEF RoundInv, Settled, Owed
  <2>5. SentIsAccountedFor'
    BY <2>1, <2>2 DEF SentIsAccountedFor
  <2> QED
    BY <2>2, <2>3, <2>4, <2>5 DEF DeliveredWasSent, RepeatsExplained
<1>2. ASSUME NEW d \in Days, Skip(d) PROVE DayInv'
  <2>1. /\ round \in Round /\ round'.pc = "choosing" /\ round'.now = round.now
        /\ round'.left = round.left \ {d} /\ round'.failed = round.failed
        /\ round.pc = "choosing" /\ d \in delivered /\ round' \in Round
    BY <1>2, IdleIsNoRound DEF Skip, TypeOK, Round, WasDelivered
  <2>2. UNCHANGED <<today, delivered, sent, repeated, excused>>
    BY <1>2 DEF Skip, mails
  <2>3. RoundInv'
    BY <2>1, <2>2, IdleIsNoRound DEF RoundInv, Settled
  <2>4. SentIsAccountedFor'
    BY <2>1, <2>2 DEF SentIsAccountedFor
  <2> QED
    BY <2>1, <2>2, <2>3, <2>4 DEF TypeOK, DeliveredWasSent, RepeatsExplained
<1>3. ASSUME NEW d \in Days, Choose(d) PROVE DayInv'
  <2>1. /\ round \in Round /\ round'.pc = "sending" /\ round'.now = round.now
        /\ round'.left = round.left /\ round'.failed = round.failed
        /\ round.pc = "choosing" /\ d \notin delivered /\ IsNext(d) /\ round' \in Round
    BY <1>3, IdleIsNoRound DEF Choose, TypeOK, Round, WasDelivered
  <2>2. UNCHANGED <<today, delivered, sent, repeated, excused>>
    BY <1>3 DEF Choose, mails
  <2>3. \A e \in Days : IsNext(e)' => e = d
    BY <2>1 DEF IsNext, Days
  <2>4. d \in sent => d \in excused
    BY <2>1 DEF SentIsAccountedFor
  <2>5. RoundInv'
    BY <2>1, <2>2, <2>3, <2>4, IdleIsNoRound DEF RoundInv, Settled
  <2>6. SentIsAccountedFor'
    BY <2>1, <2>2 DEF SentIsAccountedFor
  <2> QED
    BY <2>1, <2>2, <2>5, <2>6 DEF TypeOK, DeliveredWasSent, RepeatsExplained
<1>4. ASSUME NEW d \in Days, Send(d) PROVE DayInv'
  <2>1. /\ round \in Round /\ round'.pc = "marking" /\ round'.now = round.now
        /\ round'.left = round.left /\ round'.failed = round.failed
        /\ round.pc = "sending" /\ IsNext(d) /\ round' \in Round
    BY <1>4, IdleIsNoRound DEF Send, TypeOK, Round
  <2>2. /\ sent' = sent \cup {d} /\ repeated' = repeated \cup (sent \cap {d})
        /\ UNCHANGED <<today, delivered, excused>>
    BY <1>4 DEF Send
  <2>3. \A e \in Days : IsNext(e)' <=> e = d
    BY <2>1 DEF IsNext, Days
  <2>4. d \in sent => d \in excused
    BY <2>1 DEF RoundInv
  <2>5. RoundInv'
    BY <2>1, <2>2, <2>3, IdleIsNoRound DEF RoundInv, Settled
  <2>6. SentIsAccountedFor'
    BY <2>1, <2>2, <2>3 DEF SentIsAccountedFor
  <2> QED
    BY <2>1, <2>2, <2>4, <2>5, <2>6 DEF TypeOK, DeliveredWasSent, RepeatsExplained
<1>5. ASSUME NEW d \in Days, Mark(d) PROVE DayInv'
  <2>1. /\ round \in Round /\ round'.pc = "choosing" /\ round'.now = round.now
        /\ round'.left = round.left \ {d} /\ round'.failed = round.failed
        /\ round.pc = "marking" /\ IsNext(d) /\ round' \in Round
    BY <1>5, IdleIsNoRound DEF Mark, TypeOK, Round
  <2>2. delivered' = delivered \cup {d} /\ UNCHANGED <<today, sent, repeated, excused>>
    BY <1>5 DEF Mark
  <2>3. \A e \in Days : IsNext(e) => e = d
    BY <2>1 DEF IsNext, Days
  <2>4. d \in sent
    BY <2>1 DEF RoundInv
  <2>5. RoundInv'
    BY <2>1, <2>2, IdleIsNoRound DEF RoundInv, Settled
  <2>6. SentIsAccountedFor'
    BY <2>2, <2>3, sent \subseteq Days DEF SentIsAccountedFor, TypeOK
  <2> QED
    BY <2>1, <2>2, <2>4, <2>5, <2>6 DEF TypeOK, DeliveredWasSent, RepeatsExplained
<1>6. ASSUME NEW d \in Days, Fails(d) PROVE DayInv'
  <2>1. /\ round \in Round /\ round'.pc = "choosing" /\ round'.now = round.now
        /\ round'.left = round.left \ {d} /\ round'.failed = round.failed \cup {d}
        /\ IsNext(d) /\ round' \in Round
    BY <1>6, IdleIsNoRound DEF Fails, TypeOK, Round
  <2>2. /\ UNCHANGED <<today, delivered, sent, repeated>>
        /\ excused \subseteq excused' /\ excused' \subseteq excused \cup {d}
        /\ round.pc = "marking" => d \in excused'
    BY <1>6 DEF Fails
  <2>3. \A e \in Days : IsNext(e) => e = d
    BY <2>1 DEF IsNext, Days
  <2>4. RoundInv'
    BY <2>1, <2>2, IdleIsNoRound DEF RoundInv, Settled
  <2>5. SentIsAccountedFor'
    BY <2>2, <2>3, sent \subseteq Days DEF SentIsAccountedFor, TypeOK
  <2> QED
    BY <2>1, <2>2, <2>4, <2>5 DEF TypeOK, DeliveredWasSent, RepeatsExplained
<1>7. CASE End
  <2>1. round' = Idle /\ round.pc = "choosing"
        /\ UNCHANGED <<today, delivered, sent, repeated, excused>>
    BY <1>7 DEF End, mails
  <2>2. RoundInv'
    BY <2>1, IdleIsNoRound DEF RoundInv
  <2> QED
    BY <2>1, <2>2 DEF TypeOK, SentIsAccountedFor, DeliveredWasSent, RepeatsExplained
<1>8. CASE ApiCrash
  <2>1. /\ round' = Idle /\ UNCHANGED <<today, delivered, sent, repeated>>
        /\ excused' = excused \cup {d \in Days : round.pc = "marking" /\ IsNext(d)}
    BY <1>8 DEF ApiCrash
  <2>2. RoundInv'
    BY <2>1, IdleIsNoRound DEF RoundInv
  <2>3. SentIsAccountedFor'
    BY <2>1 DEF SentIsAccountedFor, TypeOK
  <2> QED
    BY <2>1, <2>2, <2>3 DEF TypeOK, DeliveredWasSent, RepeatsExplained
<1>9. CASE Midnight
  <2>1. today' \in Days /\ UNCHANGED <<round, delivered, sent, repeated, excused>>
    BY <1>9, DaysAssumption DEF Midnight, mails, TypeOK, Days
  <2> QED
    BY <2>1 DEF TypeOK, RoundInv, Settled, SentIsAccountedFor, DeliveredWasSent,
       RepeatsExplained, IsNext
<1>10. CASE UNCHANGED vars
  BY <1>10 DEF vars, mails, TypeOK, RoundInv, Settled, SentIsAccountedFor,
     DeliveredWasSent, RepeatsExplained, IsNext
<1> QED
  BY <1>1, <1>2, <1>3, <1>4, <1>5, <1>6, <1>7, <1>8, <1>9, <1>10 DEF Next

(* Rounds and records stay related as DayInv says, whatever fails or crashes.*)
THEOREM DayInvariant == Spec => []DayInv
  BY InitDay, NextDay, PTL DEF Spec

----------------------------------------------------------------------------
(* The variables of DailySummaries keep their type.                          *)
THEOREM TypeCorrect == Spec => []TypeOK
<1>1. DayInv => TypeOK
  BY DEF DayInv
<1> QED
  BY <1>1, DayInvariant, PTL

(* A day recorded in notification_deliveries was mailed.                     *)
THEOREM RecordsAreTrue == Spec => []DeliveredWasSent
<1>1. DayInv => DeliveredWasSent
  BY DEF DayInv
<1> QED
  BY <1>1, DayInvariant, PTL

(* A day is mailed twice only after a recording that failed.                 *)
THEOREM MailedAgainForAReason == Spec => []RepeatsExplained
<1>1. DayInv => RepeatsExplained
  BY DEF DayInv
<1> QED
  BY <1>1, DayInvariant, PTL

(* A round that comes to its end leaves no day of the look-back behind.      *)
THEOREM RoundsLoseNoDay == Spec => []NoDayLost
<1>1. DayInv => NoDayLost
  BY DEF DayInv, RoundInv, Settled, NoDayLost, Idle
<1> QED
  BY <1>1, DayInvariant, PTL

----------------------------------------------------------------------------
(* Refinement of DeliveryLog.                                                *)

(* What the log sees of a round r, as the one attempt there is.              *)
FirstOf(left) == CHOOSE d \in Days : d \in left /\ \A e \in left : d <= e
SeenIn(r) ==
    IF r.pc \in {"sending", "marking"} THEN [pc |-> r.pc, key |-> FirstOf(r.left)] ELSE Log!None

(* There is one earliest day.                                                *)
LEMMA FirstOfIs ==
    ASSUME NEW left \in SUBSET Days, NEW d \in left, \A e \in left : d <= e
    PROVE  FirstOf(left) = d
<1>1. \A c \in Days : c \in left /\ (\A e \in left : c <= e) => c = d
  BY DEF Days
<1> QED
  BY <1>1 DEF FirstOf

(* The log sees a round once it has found no row for a day.                  *)
LEMMA SeenOnlyAtTheMail == \A r : SeenIn(r) # Log!None <=> r.pc \in {"sending", "marking"}
<1>1. ASSUME NEW r, r.pc \in {"sending", "marking"} PROVE SeenIn(r) # Log!None
  <2>1. SeenIn(r).pc \in {"sending", "marking"} /\ Log!None.pc = "none"
    BY <1>1 DEF SeenIn, Log!None
  <2> QED
    BY <2>1
<1> QED
  BY <1>1 DEF SeenIn

(* A step moves the one attempt from what is seen to what is seen next.      *)
LEMMA MailingIs ==
    /\ Mailing["round"] = SeenIn(round)
    /\ Mailing' = [Mailing EXCEPT !["round"] = SeenIn(round')]
    /\ SeenIn(round') = SeenIn(round) => Mailing' = Mailing
<1>1. Mailing = [a \in {"round"} |-> SeenIn(round)]
  BY DEF Mailing, DayAtHand, IsNext, SeenIn, FirstOf, Log!None
<1>2. Mailing' = [a \in {"round"} |-> SeenIn(round')]
  BY DEF Mailing, DayAtHand, IsNext, SeenIn, FirstOf, Log!None
<1> QED
  BY <1>1, <1>2

(* Every step of a round, a crash and midnight are steps of the log or leave *)
(* it as it is.                                                              *)
LEMMA LogStep == TypeOK /\ [Next]_vars => [Log!Next]_<<delivered, sent, Mailing>>
<1> SUFFICES ASSUME TypeOK, [Next]_vars
             PROVE  Log!Next \/ UNCHANGED <<delivered, sent, Mailing>>
  OBVIOUS
<1> DEFINE Stutter == UNCHANGED <<delivered, sent, Mailing>>
<1>1. ASSUME SeenIn(round') = SeenIn(round), UNCHANGED <<delivered, sent>> PROVE Stutter
  BY <1>1, MailingIs
<1>2. ASSUME round'.pc \notin {"sending", "marking"}, UNCHANGED <<delivered, sent>>
      PROVE  Log!Next \/ Stutter
  <2>1. SeenIn(round') = Log!None
    BY <1>2, SeenOnlyAtTheMail
  <2>2. CASE SeenIn(round) = Log!None
    BY <1>1, <1>2, <2>1, <2>2
  <2>3. CASE SeenIn(round) # Log!None
    <3>1. Log!GiveUp("round")
      BY <1>2, <2>1, <2>3, MailingIs DEF Log!GiveUp
    <3> QED
      BY <3>1 DEF Log!Next
  <2> QED
    BY <2>2, <2>3
<1>3. ASSUME NEW late \in BOOLEAN, Start(late) PROVE Log!Next \/ Stutter
  BY <1>2, <1>3 DEF Start, mails
<1>4. ASSUME NEW d \in Days, Skip(d) \/ Fails(d) PROVE Log!Next \/ Stutter
  <2>1. round \in Round /\ UNCHANGED <<delivered, sent>>
    BY <1>4, IdleIsNoRound DEF Skip, Fails, TypeOK, mails
  <2>2. round'.pc = "choosing"
    BY <1>4, <2>1 DEF Skip, Fails, Round
  <2> QED
    BY <1>2, <2>1, <2>2
<1>5. ASSUME NEW d \in Days, Choose(d) PROVE Log!Next
  <2>1. /\ round \in Round /\ round.pc = "choosing" /\ IsNext(d) /\ d \notin delivered
        /\ UNCHANGED <<delivered, sent>>
    BY <1>5, IdleIsNoRound DEF Choose, TypeOK, mails, WasDelivered
  <2>2. round'.pc = "sending" /\ round'.left = round.left
    BY <1>5, <2>1 DEF Choose, Round
  <2>3. FirstOf(round.left) = d
    BY <2>1, FirstOfIs DEF IsNext, Round
  <2>4. SeenIn(round) = Log!None /\ SeenIn(round') = [pc |-> "sending", key |-> d]
    BY <2>1, <2>2, <2>3 DEF SeenIn
  <2>5. Log!FindNone("round", d)
    BY <2>1, <2>4, MailingIs DEF Log!FindNone
  <2> QED
    BY <2>5 DEF Log!Next
<1>6. ASSUME NEW d \in Days, Send(d) PROVE Log!Next
  <2>1. /\ round \in Round /\ round.pc = "sending" /\ IsNext(d)
        /\ sent' = sent \cup {d} /\ UNCHANGED delivered
    BY <1>6, IdleIsNoRound DEF Send, TypeOK
  <2>2. round'.pc = "marking" /\ round'.left = round.left
    BY <1>6, <2>1 DEF Send, Round
  <2>3. FirstOf(round.left) = d
    BY <2>1, FirstOfIs DEF IsNext, Round
  <2>4. SeenIn(round) = [pc |-> "sending", key |-> d] /\ SeenIn(round') = [pc |-> "marking", key |-> d]
    BY <2>1, <2>2, <2>3 DEF SeenIn
  <2>5. Log!Tell("round")
    BY <2>1, <2>4, MailingIs DEF Log!Tell
  <2> QED
    BY <2>5 DEF Log!Next
<1>7. ASSUME NEW d \in Days, Mark(d) PROVE Log!Next
  <2>1. /\ round \in Round /\ round.pc = "marking" /\ IsNext(d)
        /\ delivered' = delivered \cup {d} /\ UNCHANGED sent
    BY <1>7, IdleIsNoRound DEF Mark, TypeOK
  <2>2. round'.pc = "choosing"
    BY <1>7, <2>1 DEF Mark, Round
  <2>3. FirstOf(round.left) = d
    BY <2>1, FirstOfIs DEF IsNext, Round
  <2>4. SeenIn(round) = [pc |-> "marking", key |-> d] /\ SeenIn(round') = Log!None
    BY <2>1, <2>2, <2>3 DEF SeenIn
  <2>5. Log!Record("round")
    BY <2>1, <2>4, MailingIs DEF Log!Record
  <2> QED
    BY <2>5 DEF Log!Next
<1>8. CASE End \/ ApiCrash
  BY <1>2, <1>8, IdleIsNoRound DEF End, ApiCrash, mails
<1>9. ASSUME UNCHANGED <<round, mails>> PROVE Stutter
  BY <1>1, <1>9 DEF mails
<1> QED
  BY <1>3, <1>4, <1>5, <1>6, <1>7, <1>8, <1>9 DEF Next, Midnight, vars

(* Rounds look up, mail and record days as DeliveryLog promises, one at a    *)
(* time (was_delivered, send and mark_delivered of SendDailyExpenseSummary). *)
THEOREM SummariesFollowTheLog == Spec => LogSpec
<1>1. Init => Log!Init
  BY DEF Init, Idle, Mailing, Log!Init, Log!None
<1> QED
  BY <1>1, LogStep, TypeCorrect, PTL DEF Spec, LogSpec, Log!Spec, Log!log

----------------------------------------------------------------------------
(* Sums over finite sets.                                                    *)

(* A family of parts of a finite set has a member with no smaller one in it. *)
(* What is stated for every finite set, of months or of rows, is proved from *)
(* it: a smallest counterexample would leave one smaller still.              *)
LEMMA SmallestSet ==
    ASSUME NEW S, IsFiniteSet(S), NEW T, T \subseteq SUBSET S, T # {}
    PROVE  \E U \in T : \A V \in T : V \subseteq U => V = U
<1>1. T \subseteq FiniteSubsetsOf(S)
  BY FS_FiniteSubsetsOfFinite
<1>2. \E U \in T : \A V \in T : ~ (<<V, U>> \in StrictSubsetOrdering(S))
  BY <1>1, FS_StrictSubsetOrderingWellFounded, WFMin
<1> QED
  BY <1>2 DEF StrictSubsetOrdering

(* The fold behind SumFunction takes the members of a set one at a time, in  *)
(* the order CHOOSE hands them out; Adds says that g holds the sums of f     *)
(* over every part of S.                                                     *)
Pick(s) == CHOOSE x \in s : TRUE
Adds(g, f, S) == g = [s \in SUBSET S |-> IF s = {} THEN 0 ELSE f[Pick(s)] + g[s \ {Pick(s)}]]

(* What is picked from a set is in it.                                       *)
LEMMA PickIn == \A s : s # {} => Pick(s) \in s
  BY DEF Pick

(* A sum is read off the function that holds the sums over the parts.        *)
LEMMA SumIsAdds ==
    ASSUME NEW f, NEW S
    PROVE SumFunctionOnSet(f, S) = (CHOOSE g : Adds(g, f, S))[S]
 BY DEF SumFunctionOnSet, FoldFunctionOnSet, MapThenFoldSet, Adds, Pick

(* What such a function holds: nothing for the empty set, and otherwise the  *)
(* picked member more than for the rest.                                     *)
LEMMA AddsAt ==
    ASSUME NEW f, NEW S, NEW g, Adds(g, f, S), NEW s \in SUBSET S
    PROVE  /\ g[{}] = 0
           /\ s # {} => Pick(s) \in s /\ g[s] = f[Pick(s)] + g[s \ {Pick(s)}]
<1>1. g = [r \in SUBSET S |-> IF r = {} THEN 0 ELSE f[Pick(r)] + g[r \ {Pick(r)}]]
  BY DEF Adds
<1>2. \A r \in SUBSET S : g[r] = IF r = {} THEN 0 ELSE f[Pick(r)] + g[r \ {Pick(r)}]
  BY <1>1
<1> QED
  BY <1>2, PickIn

(* Two functions of sums agree wherever both are defined.                    *)
LEMMA AddsUnique ==
    ASSUME NEW f, NEW S, IsFiniteSet(S), NEW g, NEW h, NEW R \in SUBSET S,
           Adds(g, f, S), Adds(h, f, R)
    PROVE  \A s \in SUBSET R : g[s] = h[s]
<1> DEFINE Bad == {s \in SUBSET R : g[s] # h[s]}
<1> SUFFICES ASSUME Bad # {} PROVE FALSE
  OBVIOUS
<1>1. Bad \subseteq SUBSET S
  OBVIOUS
<1>2. PICK s \in Bad : \A r \in Bad : r \subseteq s => r = s
  <2> HIDE DEF Bad
  <2> QED BY <1>1, SmallestSet
<1>3. s \in SUBSET S /\ s \in SUBSET R
  OBVIOUS
<1>4. CASE s = {}
  BY <1>3, <1>4, AddsAt
<1>5. CASE s # {}
  <2> DEFINE t == s \ {Pick(s)}
  <2>1. Pick(s) \in s /\ g[s] = f[Pick(s)] + g[t] /\ h[s] = f[Pick(s)] + h[t]
    BY <1>3, <1>5, AddsAt
  <2>2. t \notin Bad
    BY <1>2, <2>1
  <2>3. g[t] = h[t]
    BY <2>2
  <2> QED
    BY <2>1, <2>3
<1> QED
  BY <1>4, <1>5

(* There is a function of sums over every finite set.                        *)
LEMMA AddsExists ==
    ASSUME NEW f, NEW S, IsFiniteSet(S)
    PROVE  \E g : Adds(g, f, S)
<1> DEFINE Bad == {R \in SUBSET S : ~ \E g : Adds(g, f, R)}
<1> SUFFICES ASSUME Bad # {} PROVE FALSE
  OBVIOUS
<1>1. PICK U \in Bad : \A V \in Bad : V \subseteq U => V = U
  <2>1. Bad \subseteq SUBSET S
    OBVIOUS
  <2> HIDE DEF Bad
  <2> QED BY <2>1, SmallestSet
<1> DEFINE G(V) == CHOOSE g : Adds(g, f, V)
<1>2. \A V \in SUBSET U : V # U => Adds(G(V), f, V)
  BY <1>1
<1> DEFINE step(s) == f[Pick(s)] + G(s \ {Pick(s)})[s \ {Pick(s)}]
           g == [s \in SUBSET U |-> IF s = {} THEN 0 ELSE step(s)]
<1>3. ASSUME NEW s \in SUBSET U, s # {}
      PROVE  g[s \ {Pick(s)}] = G(s \ {Pick(s)})[s \ {Pick(s)}]
  <2> DEFINE t == s \ {Pick(s)}
  <2>1. t \in SUBSET U /\ t # U
    BY <1>3, PickIn
  <2>2. Adds(G(t), f, t)
    BY <1>2, <2>1
  <2> HIDE DEF G
  <2>3. CASE t = {}
    BY <2>1, <2>2, <2>3, AddsAt
  <2>4. CASE t # {}
    <3> DEFINE r == t \ {Pick(t)}
    <3>1. r \in SUBSET U /\ r # U /\ r \in SUBSET t
      BY <2>1, PickIn
    <3>2. Adds(G(r), f, r)
      BY <1>2, <3>1
    <3>3. IsFiniteSet(t)
      BY <2>1, FS_Subset
    <3>4. G(t)[r] = G(r)[r]
      <4> HIDE DEF r, t
      <4> QED BY <2>2, <3>1, <3>2, <3>3, AddsUnique
    <3>5. G(t)[t] = f[Pick(t)] + G(t)[r]
      <4>1. t \in SUBSET t
        OBVIOUS
      <4> HIDE DEF t
      <4> QED BY <4>1, <2>2, <2>4, AddsAt
    <3>6. g[t] = f[Pick(t)] + G(r)[r]
      BY <2>1, <2>4
    <3> QED
      BY <3>4, <3>5, <3>6
  <2> QED
    BY <2>3, <2>4
<1>4. ASSUME NEW s \in SUBSET U
      PROVE  g[s] = IF s = {} THEN 0 ELSE f[Pick(s)] + g[s \ {Pick(s)}]
  <2>1. g[s] = IF s = {} THEN 0 ELSE step(s)
    OBVIOUS
  <2> HIDE DEF g, G
  <2> QED BY <1>3, <2>1
<1>5. Adds(g, f, U)
  <2>1. g = [s \in SUBSET U |-> IF s = {} THEN 0 ELSE f[Pick(s)] + g[s \ {Pick(s)}]]
    <3> HIDE DEF step, G
    <3> QED BY <1>4
  <2> QED BY <2>1 DEF Adds
<1> QED
  BY <1>1, <1>5

(* How a sum unfolds.                                                        *)
LEMMA SumOf ==
    ASSUME NEW f, NEW S, IsFiniteSet(S)
    PROVE  /\ SumFunctionOnSet(f, {}) = 0
           /\ S # {} => /\ Pick(S) \in S
                        /\ SumFunctionOnSet(f, S)
                             = f[Pick(S)] + SumFunctionOnSet(f, S \ {Pick(S)})
<1> DEFINE G(V) == CHOOSE g : Adds(g, f, V)
<1>1. \A R \in SUBSET S : Adds(G(R), f, R) /\ SumFunctionOnSet(f, R) = G(R)[R]
  BY AddsExists, FS_Subset, SumIsAdds
<1> HIDE DEF G
<1>2. SumFunctionOnSet(f, {}) = 0
  BY <1>1, AddsAt
<1>3. ASSUME S # {} PROVE G(S)[S \ {Pick(S)}] = G(S \ {Pick(S)})[S \ {Pick(S)}]
  <2> DEFINE t == S \ {Pick(S)}
  <2>1. t \in SUBSET S /\ Adds(G(S), f, S) /\ Adds(G(t), f, t)
    BY <1>1
  <2> HIDE DEF t
  <2>2. G(S)[t] = G(t)[t]
    BY <2>1, AddsUnique
  <2> QED BY <2>2 DEF t
<1>4. S # {} => Pick(S) \in S /\ G(S)[S] = f[Pick(S)] + G(S)[S \ {Pick(S)}]
  <2>1. Adds(G(S), f, S) /\ S \in SUBSET S
    BY <1>1
  <2>2. \A g, s : Adds(g, f, S) /\ s \in SUBSET S /\ s # {} =>
             Pick(s) \in s /\ g[s] = f[Pick(s)] + g[s \ {Pick(s)}]
    BY AddsAt
  <2> QED BY <2>1, <2>2, Zenon
<1> QED
  BY <1>1, <1>2, <1>3, <1>4

(* Integers add up to an integer.                                            *)
LEMMA SumIsInt ==
    ASSUME NEW f, NEW S, IsFiniteSet(S), \A x \in S : f[x] \in Int
    PROVE  SumFunctionOnSet(f, S) \in Int
<1> DEFINE Bad == {R \in SUBSET S : SumFunctionOnSet(f, R) \notin Int}
<1> SUFFICES ASSUME Bad # {} PROVE FALSE
  OBVIOUS
<1>1. PICK U \in Bad : \A V \in Bad : V \subseteq U => V = U
  <2>1. Bad \subseteq SUBSET S
    OBVIOUS
  <2> HIDE DEF Bad
  <2> QED BY <2>1, SmallestSet
<1>2. IsFiniteSet(U)
  BY FS_Subset
<1>3. U # {}
  <2>1. SumFunctionOnSet(f, {}) = 0
    BY <1>2, SumOf
  <2> QED BY <2>1
<1>4. Pick(U) \in U /\ SumFunctionOnSet(f, U) = f[Pick(U)] + SumFunctionOnSet(f, U \ {Pick(U)})
  BY <1>2, <1>3, SumOf
<1>5. U \ {Pick(U)} \notin Bad
  BY <1>1, <1>4
<1> QED
  BY <1>4, <1>5

(* Any member can be taken out of a sum first, whatever order the fold uses. *)
LEMMA SumWithout ==
    ASSUME NEW f, NEW S, IsFiniteSet(S), \A x \in S : f[x] \in Int, NEW x \in S
    PROVE  SumFunctionOnSet(f, S) = f[x] + SumFunctionOnSet(f, S \ {x})
<1> DEFINE Sum(R) == SumFunctionOnSet(f, R)
           Bad == {R \in SUBSET S : \E y \in R : Sum(R) # f[y] + Sum(R \ {y})}
<1>0. \A R \in SUBSET S : IsFiniteSet(R) /\ Sum(R) \in Int
  BY FS_Subset, SumIsInt
<1> SUFFICES ASSUME Bad # {} PROVE FALSE
  OBVIOUS
<1>1. PICK U \in Bad : \A V \in Bad : V \subseteq U => V = U
  <2>1. Bad \subseteq SUBSET S
    OBVIOUS
  <2> HIDE DEF Bad
  <2> QED BY <2>1, SmallestSet
<1>2. PICK y \in U : Sum(U) # f[y] + Sum(U \ {y})
  OBVIOUS
<1> DEFINE p == Pick(U)
<1>3. p \in U /\ Sum(U) = f[p] + Sum(U \ {p})
  BY <1>0, <1>2, SumOf
<1>4. p # y
  BY <1>2, <1>3
<1>5. U \ {p} \notin Bad /\ U \ {y} \notin Bad
  BY <1>1, <1>3
<1>6. (U \ {p}) \ {y} = (U \ {y}) \ {p}
  OBVIOUS
<1>7. Sum(U \ {p}) = f[y] + Sum((U \ {p}) \ {y}) /\ Sum(U \ {y}) = f[p] + Sum((U \ {y}) \ {p})
  BY <1>3, <1>4, <1>5
<1>8. f[p] \in Int /\ f[y] \in Int /\ Sum((U \ {p}) \ {y}) \in Int
  BY <1>0, <1>3
<1> HIDE DEF Sum, p
<1> QED
  BY <1>2, <1>3, <1>6, <1>7, <1>8

(* A sum depends on the values over its set alone.                           *)
LEMMA SumOfEquals ==
    ASSUME NEW f, NEW g, NEW S, IsFiniteSet(S), \A x \in S : f[x] = g[x]
    PROVE  SumFunctionOnSet(f, S) = SumFunctionOnSet(g, S)
<1> DEFINE Bad == {R \in SUBSET S : SumFunctionOnSet(f, R) # SumFunctionOnSet(g, R)}
<1> SUFFICES ASSUME Bad # {} PROVE FALSE
  OBVIOUS
<1>1. PICK U \in Bad : \A V \in Bad : V \subseteq U => V = U
  <2>1. Bad \subseteq SUBSET S
    OBVIOUS
  <2> HIDE DEF Bad
  <2> QED BY <2>1, SmallestSet
<1>2. IsFiniteSet(U)
  BY FS_Subset
<1>3. U # {}
  BY <1>2, SumOf
<1>4. /\ Pick(U) \in U
      /\ SumFunctionOnSet(f, U) = f[Pick(U)] + SumFunctionOnSet(f, U \ {Pick(U)})
      /\ SumFunctionOnSet(g, U) = g[Pick(U)] + SumFunctionOnSet(g, U \ {Pick(U)})
  BY <1>2, <1>3, SumOf
<1>5. U \ {Pick(U)} \notin Bad
  BY <1>1, <1>4
<1> QED
  BY <1>4, <1>5

----------------------------------------------------------------------------
(* Months, and what a ledger saves by the end of each.                       *)

(* Numbers up to a bound have a least one.                                   *)
LEMMA LeastNumber ==
    ASSUME NEW n \in Nat, NEW T \in SUBSET (0 .. n), T # {}
    PROVE  \E k \in T : \A j \in T : k <= j
<1> DEFINE S    == 0 .. n
           Down == {0 .. k : k \in T}
<1>1. Down \subseteq SUBSET S /\ Down # {}
  <2>1. \A k \in T : 0 .. k \subseteq S
    OBVIOUS
  <2> HIDE DEF S
  <2> QED BY <2>1
<1>2. PICK U \in Down : \A V \in Down : V \subseteq U => V = U
  <2>1. IsFiniteSet(S)
    BY FS_Interval
  <2> HIDE DEF Down, S
  <2> QED BY <1>1, <2>1, SmallestSet
<1>3. PICK k \in T : U = 0 .. k
  OBVIOUS
<1>4. ASSUME NEW j \in T, j < k PROVE FALSE
  <2>1. 0 .. j \in Down
    OBVIOUS
  <2>2. 0 .. j \subseteq 0 .. k /\ k \notin 0 .. j /\ k \in 0 .. k
    BY <1>4
  <2> QED
    BY <1>2, <1>3, <2>1, <2>2
<1> QED
  BY <1>4

(* The first month a walk closes: no later than the account's own, nor than  *)
(* any transaction.                                                          *)
LEMMA FirstIs ==
    ASSUME NEW totals \in Ledgers
    PROVE  /\ First(totals) \in Months
           /\ First(totals) <= CreatedIn
           /\ \A k \in DOMAIN totals : First(totals) <= k
<1> DEFINE T == DOMAIN totals \cup {CreatedIn}
<1>1. T \in SUBSET (0 .. LastMonth) /\ T # {} /\ LastMonth \in Nat
  BY CalendarAssumption DEF Ledgers, Months
<1>2. \E m \in T : \A k \in T : m <= k
  <2> HIDE DEF T
  <2> QED BY <1>1, LeastNumber
<1>3. First(totals) \in T /\ \A k \in T : First(totals) <= k
  BY <1>2 DEF First
<1> QED
  BY <1>1, <1>3 DEF Months

(* A month of a ledger comes to a number, transactions or not.               *)
LEMMA NetIsInt ==
    ASSUME NEW totals \in Ledgers, NEW m
    PROVE  Net(totals, m) \in Int
BY NetsAssumption DEF Net, Ledgers

(* What Saved defines, up to month n.                                        *)
SavesUpTo(g, totals, n) ==
    g = [m \in -1 .. n |-> IF m = -1 THEN 0 ELSE Larger(0, g[m - 1] + Net(totals, m))]

(* There is a function that saves month by month for the whole calendar.     *)
LEMMA SavesExists ==
    ASSUME NEW totals
    PROVE  \E g : SavesUpTo(g, totals, LastMonth)
<1> DEFINE Bad == {n \in 0 .. LastMonth : ~ \E g : SavesUpTo(g, totals, n)}
<1> SUFFICES ASSUME Bad # {} PROVE FALSE
  BY CalendarAssumption
<1>1. PICK n \in Bad : \A j \in Bad : n <= j
  <2>1. Bad \in SUBSET (0 .. LastMonth)
    OBVIOUS
  <2> HIDE DEF Bad
  <2> QED BY <2>1, CalendarAssumption, LeastNumber
<1>2. \E h : n = 0 \/ SavesUpTo(h, totals, n - 1)
  <2>1. CASE n = 0
    BY <2>1
  <2>2. CASE n # 0
    <3>1. n - 1 \in 0 .. LastMonth /\ n - 1 \notin Bad
      BY <1>1, <2>2, CalendarAssumption
    <3> QED BY <3>1
  <2> QED BY <2>1, <2>2
<1>3. PICK h : n = 0 \/ SavesUpTo(h, totals, n - 1)
  BY <1>2
<1> DEFINE below == IF n = 0 THEN 0 ELSE h[n - 1]
           g == [m \in -1 .. n |-> IF m = -1 THEN 0
                                   ELSE IF m = n THEN Larger(0, below + Net(totals, n)) ELSE h[m]]
<1>4. n \in Nat /\ n \in 0 .. LastMonth
  BY CalendarAssumption
<1>5. ASSUME NEW m \in -1 .. n
      PROVE  g[m] = IF m = -1 THEN 0 ELSE Larger(0, g[m - 1] + Net(totals, m))
  <2>1. CASE m = -1
    BY <2>1
  <2>2. CASE m = n /\ m # -1
    <3>1. g[m] = Larger(0, below + Net(totals, n))
      BY <1>4, <2>2
    <3>2. g[n - 1] = below
      <4>1. CASE n = 0
        BY <4>1
      <4>2. CASE n # 0
        BY <1>4, <4>2
      <4> QED BY <4>1, <4>2
    <3> QED BY <2>2, <3>1, <3>2
  <2>3. CASE m # n /\ m # -1
    <3>1. m \in 0 .. n - 1 /\ n # 0 /\ m \in -1 .. n - 1
      BY <1>4, <2>3
    <3>2. h = [k \in -1 .. n - 1 |-> IF k = -1 THEN 0 ELSE Larger(0, h[k - 1] + Net(totals, k))]
      BY <1>3, <3>1 DEF SavesUpTo
    <3>3. h[m] = Larger(0, h[m - 1] + Net(totals, m)) /\ h[-1] = 0
      BY <2>3, <3>1, <3>2
    <3>4. g[m] = h[m]
      BY <2>3, <3>1
    <3>5. g[m - 1] = h[m - 1]
      BY <1>4, <3>1, <3>3
    <3> QED BY <2>3, <3>3, <3>4, <3>5
  <2> QED BY <2>1, <2>2, <2>3
<1>6. g = [m \in -1 .. n |-> IF m = -1 THEN 0 ELSE Larger(0, g[m - 1] + Net(totals, m))]
  <2>1. g = [m \in -1 .. n |-> g[m]]
    OBVIOUS
  <2> HIDE DEF g
  <2> QED BY <1>5, <2>1
<1>7. SavesUpTo(g, totals, n)
  <2> HIDE DEF g
  <2> QED BY <1>6 DEF SavesUpTo
<1> QED
  <2> HIDE DEF g
  <2> QED BY <1>7

(* So Saved is what its definition says: nothing before the calendar, and    *)
(* every month adds its net or empties what there was.                       *)
LEMMA SavedAt ==
    ASSUME NEW totals
    PROVE  /\ Saved(totals)[-1] = 0
           /\ \A m \in Months :
                 Saved(totals)[m] = Larger(0, Saved(totals)[m - 1] + Net(totals, m))
<1>1. Saved(totals) = CHOOSE g : SavesUpTo(g, totals, LastMonth)
  BY DEF Saved, SavesUpTo
<1>2. SavesUpTo(Saved(totals), totals, LastMonth)
  BY <1>1, SavesExists
<1> DEFINE g == Saved(totals)
<1> HIDE DEF g
<1>3. g = [m \in -1 .. LastMonth |-> IF m = -1 THEN 0 ELSE Larger(0, g[m - 1] + Net(totals, m))]
  BY <1>2 DEF g, SavesUpTo
<1>4. g[-1] = 0 /\ \A m \in Months : g[m] = Larger(0, g[m - 1] + Net(totals, m))
  BY <1>3, CalendarAssumption DEF Months
<1> QED
  BY <1>4 DEF g

(* What is saved by the end of a month is never below nothing.               *)
LEMMA SavedIsNat ==
    ASSUME NEW totals \in Ledgers, NEW m \in -1 .. LastMonth
    PROVE  Saved(totals)[m] \in Nat
<1> DEFINE Bad == {n \in 0 .. LastMonth : Saved(totals)[n] \notin Nat}
<1>1. Bad = {}
  <2> SUFFICES ASSUME Bad # {} PROVE FALSE
    OBVIOUS
  <2>1. PICK n \in Bad : \A j \in Bad : n <= j
    <3>1. Bad \in SUBSET (0 .. LastMonth)
      OBVIOUS
    <3> HIDE DEF Bad
    <3> QED BY <3>1, CalendarAssumption, LeastNumber
  <2>2. Saved(totals)[n] = Larger(0, Saved(totals)[n - 1] + Net(totals, n))
    BY SavedAt DEF Months
  <2>3. Saved(totals)[n - 1] \in Nat
    <3>1. CASE n = 0
      BY <3>1, SavedAt
    <3>2. CASE n # 0
      <4>1. n - 1 \in 0 .. LastMonth /\ n - 1 \notin Bad
        BY <2>1, <3>2, CalendarAssumption
      <4> QED BY <4>1
    <3> QED BY <3>1, <3>2
  <2>4. Saved(totals)[n] \in Nat
    BY <2>2, <2>3, NetIsInt DEF Larger
  <2> QED BY <2>4
<1> QED
  <2>1. CASE m = -1
    BY <2>1, SavedAt
  <2>2. CASE m \in 0 .. LastMonth
    BY <1>1, <2>2
  <2> QED BY <2>1, <2>2, CalendarAssumption

(* Nothing has been saved before the first month of a ledger.                *)
LEMMA NothingSavedBeforeFirst ==
    ASSUME NEW totals \in Ledgers
    PROVE  Saved(totals)[First(totals) - 1] = 0
<1> DEFINE f == First(totals)
           Bad == {n \in 0 .. f - 1 : Saved(totals)[n] # 0}
<1>0. f \in Months /\ f \in Nat /\ LastMonth \in Nat
  BY FirstIs, CalendarAssumption DEF Months
<1>1. Bad = {}
  <2> SUFFICES ASSUME Bad # {} PROVE FALSE
    OBVIOUS
  <2>1. PICK n \in Bad : \A j \in Bad : n <= j
    <3>1. Bad \in SUBSET (0 .. LastMonth)
      BY <1>0 DEF Months
    <3> HIDE DEF Bad
    <3> QED BY <3>1, CalendarAssumption, LeastNumber
  <2>2. n \in Months /\ n \notin DOMAIN totals
    BY <1>0, FirstIs DEF Months
  <2>3. Saved(totals)[n] = Larger(0, Saved(totals)[n - 1] + 0)
    BY <2>2, SavedAt DEF Net
  <2>4. Saved(totals)[n - 1] = 0
    <3>1. CASE n = 0
      BY <3>1, SavedAt
    <3>2. CASE n # 0
      <4>1. n - 1 \in 0 .. f - 1 /\ n - 1 \notin Bad
        BY <1>0, <2>1, <3>2
      <4> QED BY <4>1
    <3> QED BY <3>1, <3>2
  <2> QED BY <2>3, <2>4 DEF Larger
<1> QED
  <2>1. CASE f = 0
    BY <2>1, SavedAt
  <2>2. CASE f # 0
    <3>1. f - 1 \in 0 .. f - 1
      BY <1>0, <2>2
    <3> QED BY <1>1, <3>1
  <2> QED BY <2>1, <2>2

----------------------------------------------------------------------------
(* The rows of monthly_savings, and what those before a month come to.       *)

(* Rows of monthly_savings: finitely many months, each with an amount.       *)
Rows(rows) == IsFiniteSet(DOMAIN rows) /\ \A m \in DOMAIN rows : m \in Int /\ rows[m] \in Int

(* The rows before a month come to a number.                                 *)
LEMMA RowsBeforeIsInt ==
    ASSUME NEW rows, Rows(rows), NEW k
    PROVE  RowsBefore(rows, k) \in Int
<1> DEFINE D == {m \in DOMAIN rows : m < k}
<1>1. IsFiniteSet(D) /\ \A x \in D : rows[x] \in Int
  BY FS_Subset DEF Rows
<1> HIDE DEF D
<1>2. SumFunctionOnSet(rows, D) \in Int
  BY <1>1, SumIsInt
<1> QED
  BY <1>2 DEF RowsBefore, D

(* Past the last row, the rows before a month are all the rows.              *)
LEMMA RowsBeforeAll ==
    ASSUME NEW rows, NEW k, \A m \in DOMAIN rows : m < k
    PROVE  RowsBefore(rows, k) = SumFunction(rows)
<1>1. {m \in DOMAIN rows : m < k} = DOMAIN rows
  OBVIOUS
<1> QED
  BY <1>1 DEF RowsBefore, SumFunction

(* Up to the first row, there are none.                                      *)
LEMMA RowsBeforeNone ==
    ASSUME NEW rows, NEW k, \A m \in DOMAIN rows : ~ (m < k)
    PROVE  RowsBefore(rows, k) = 0
<1>1. {m \in DOMAIN rows : m < k} = {}
  OBVIOUS
<1>2. SumFunctionOnSet(rows, {}) = 0
  BY FS_EmptySet, SumOf
<1> QED
  BY <1>1, <1>2 DEF RowsBefore

(* From one month to the next the rows grow by what that month stored.       *)
LEMMA RowsBeforeNext ==
    ASSUME NEW rows, Rows(rows), NEW k \in Int
    PROVE  RowsBefore(rows, k + 1) = RowsBefore(rows, k) + Net(rows, k)
<1> DEFINE D == {m \in DOMAIN rows : m < k}
           E == {m \in DOMAIN rows : m < k + 1}
<1>1. IsFiniteSet(E) /\ \A x \in E : rows[x] \in Int
  BY FS_Subset DEF Rows
<1>2. CASE k \in DOMAIN rows
  <2>1. k \in E /\ E \ {k} = D
    BY <1>2 DEF Rows
  <2>2. SumFunctionOnSet(rows, E) = rows[k] + SumFunctionOnSet(rows, D)
    <3> HIDE DEF D, E
    <3>1. \A x \in E : SumFunctionOnSet(rows, E) = rows[x] + SumFunctionOnSet(rows, E \ {x})
      BY <1>1, SumWithout
    <3>2. SumFunctionOnSet(rows, E) = rows[k] + SumFunctionOnSet(rows, E \ {k})
      BY <2>1, <3>1, Zenon
    <3> QED BY <2>1, <3>2
  <2>3. RowsBefore(rows, k) \in Int /\ rows[k] \in Int
    BY <1>2, RowsBeforeIsInt DEF Rows
  <2> QED
    BY <1>2, <2>2, <2>3 DEF RowsBefore, Net
<1>3. CASE k \notin DOMAIN rows
  <2>1. E = D
    BY <1>3 DEF Rows
  <2>2. RowsBefore(rows, k + 1) = RowsBefore(rows, k)
    BY <2>1 DEF RowsBefore
  <2> QED
    BY <1>3, <2>2, RowsBeforeIsInt DEF Net
<1> QED
  BY <1>2, <1>3

(* Rows that agree on the earlier months come to the same there.             *)
LEMMA RowsBeforeSame ==
    ASSUME NEW rows, Rows(rows), NEW others, NEW k,
           {m \in DOMAIN rows : m < k} = {m \in DOMAIN others : m < k},
           \A m \in DOMAIN rows : m < k => rows[m] = others[m]
    PROVE  RowsBefore(rows, k) = RowsBefore(others, k)
<1> DEFINE D == {m \in DOMAIN rows : m < k}
<1>1. IsFiniteSet(D) /\ \A x \in D : rows[x] = others[x]
  BY FS_Subset DEF Rows
<1> HIDE DEF D
<1>2. SumFunctionOnSet(rows, D) = SumFunctionOnSet(others, D)
  BY <1>1, SumOfEquals
<1> QED
  BY <1>2 DEF RowsBefore, D

(* upsert_month leaves the month with its amount and the others as they      *)
(* were.                                                                     *)
LEMMA PutIsRows ==
    ASSUME NEW rows, Rows(rows), NEW m \in Int, NEW x \in Int
    PROVE  /\ \A k : k \in DOMAIN Put(rows, m, x) <=> k \in DOMAIN rows \/ k = m
           /\ Net(Put(rows, m, x), m) = x
           /\ \A k \in DOMAIN rows : k # m => Put(rows, m, x)[k] = rows[k]
           /\ Rows(Put(rows, m, x))
BY FS_AddElement DEF Put, Rows, Net

(* Storing a month changes nothing of what the earlier ones come to.         *)
LEMMA PutKeepsEarlier ==
    ASSUME NEW rows, Rows(rows), NEW m \in Int, NEW x \in Int, NEW k \in Int, k <= m
    PROVE  RowsBefore(Put(rows, m, x), k) = RowsBefore(rows, k)
<1> DEFINE new == Put(rows, m, x)
<1>1. /\ \A j : j \in DOMAIN new <=> j \in DOMAIN rows \/ j = m
      /\ \A j \in DOMAIN rows : j # m => new[j] = rows[j]
  BY PutIsRows
<1> HIDE DEF new
<1>2. {j \in DOMAIN rows : j < k} = {j \in DOMAIN new : j < k}
  BY <1>1
<1>3. \A j \in DOMAIN rows : j < k => rows[j] = new[j]
  BY <1>1 DEF Rows
<1>4. RowsBefore(rows, k) = RowsBefore(new, k)
  BY <1>2, <1>3, RowsBeforeSame
<1> QED
  BY <1>4 DEF new

----------------------------------------------------------------------------
(* The savings keep their invariant.                                         *)

(* An overview that is under way.                                            *)
Under(w) == walk[w] # NoOverview

(* The records of the overviews under way.                                   *)
Going == [pc : {"walking", "closing"}, current : Months, alone : BOOLEAN, totals : Ledgers,
          cursor : Months, saved : Nat, seen : SUBSET Int]

(* What the month at the cursor adds.                                        *)
Added(w) == Change(Net(walk[w].totals, walk[w].cursor), walk[w].saved)

(* A walk stays between the first month of what it read and the month it was *)
(* when it began.                                                            *)
InBounds == \A w \in Overviews : Under(w) =>
    /\ walk[w].current \in CreatedIn .. now
    /\ First(walk[w].totals) <= walk[w].cursor
    /\ walk[w].cursor <= walk[w].current
    /\ walk[w].pc = "closing" => walk[w].cursor < walk[w].current

(* An overview no other overlapped: no other is under way, no row is of a    *)
(* month it will not close, what it saw of the row at the cursor is still    *)
(* so, and the rows it has gone past come to what its own ledger saves, over *)
(* what was left before it.                                                  *)
AddsUpSoFar == \A w \in Overviews : Under(w) /\ walk[w].alone =>
    /\ \A v \in Overviews : v # w => ~ Under(v)
    /\ \A m \in DOMAIN stored : m < walk[w].current
    /\ walk[w].pc = "closing" =>
          walk[w].seen = {stored[m] : m \in {walk[w].cursor} \cap DOMAIN stored}
    /\ RowsBefore(stored, walk[w].cursor) = walk[w].saved + Leftover(w)
    /\ walk[w].saved = Saved(walk[w].totals)[walk[w].cursor - 1]

(* While no two overviews have overlapped and none has died, the rows before *)
(* any month gone past come to nothing less than nothing, and between        *)
(* overviews those before any month.                                         *)
Calm == ~ torn =>
    /\ \A w \in Overviews : Under(w) =>
          walk[w].alone /\ \A k \in 0 .. walk[w].cursor : RowsBefore(stored, k) >= 0
    /\ (\A w \in Overviews : ~ Under(w)) => \A k \in Months : RowsBefore(stored, k) >= 0

(* The inductive invariant.                                                  *)
SavingsInv == SavingsTypeOK /\ InBounds /\ AddsUpSoFar /\ Calm

(* The fields of a walk under way are of the types the code gives them.      *)
LEMMA UnderWay ==
    ASSUME SavingsTypeOK, NEW w \in Overviews
    PROVE  /\ walk[w].pc \in {"walking", "closing"} => Under(w)
           /\ Under(w) => /\ walk[w].pc \in {"walking", "closing"}
                          /\ walk[w].current \in Months /\ walk[w].cursor \in Months
                          /\ walk[w].alone \in BOOLEAN /\ walk[w].totals \in Ledgers
                          /\ walk[w].saved \in Nat /\ walk[w].seen \in SUBSET Int
<1>1. walk[w] \in Walk
  BY DEF SavingsTypeOK
<1> QED
  BY <1>1 DEF Walk, NoOverview, Under

(* A walk is under way exactly if it is one of the records of Going.         *)
LEMMA GoingIsUnder ==
    /\ Walk = {NoOverview} \cup Going
    /\ \A r \in Going : r # NoOverview
BY DEF Walk, Going, NoOverview

(* The rows stored are finitely many months that are over.                   *)
LEMMA StoredIsRows ==
    ASSUME SavingsTypeOK
    PROVE  /\ now \in Nat /\ now <= LastMonth /\ LastMonth \in Nat
           /\ \A m \in DOMAIN stored : m \in Months /\ m < now
           /\ Rows(stored)
<1>1. now \in Nat /\ now <= LastMonth /\ LastMonth \in Nat
  BY CalendarAssumption DEF SavingsTypeOK, Months
<1>2. DOMAIN stored \subseteq 0 .. now - 1
  BY DEF SavingsTypeOK
<1>3. IsFiniteSet(DOMAIN stored)
  <2>1. IsFiniteSet(0 .. now - 1)
    BY <1>1, FS_Interval
  <2> QED BY <1>2, <2>1, FS_Subset
<1>4. \A m \in DOMAIN stored : stored[m] \in Int
  BY DEF SavingsTypeOK
<1> QED
  BY <1>1, <1>2, <1>3, <1>4 DEF Rows, Months

(* Savings begin with the invariant.                                         *)
LEMMA InitSavings == SavingsInit => SavingsInv
<1> SUFFICES ASSUME SavingsInit PROVE SavingsInv
  OBVIOUS
<1>1. SavingsTypeOK
  <2>1. <<>> \in [{} -> Nets] /\ <<>> \in [{} -> Int] /\ DOMAIN <<>> = {}
    OBVIOUS
  <2>2. flow \in Ledgers
    BY <2>1 DEF SavingsInit, Ledgers
  <2>3. stored \in [DOMAIN stored -> Int] /\ DOMAIN stored \subseteq 0 .. now - 1
    BY <2>1 DEF SavingsInit
  <2>4. now \in CreatedIn .. LastMonth
    BY CalendarAssumption DEF SavingsInit, Months
  <2>5. walk \in [Overviews -> Walk] /\ \A w \in Overviews : walk[w].pc # "walking"
    BY DEF SavingsInit, Walk, NoOverview
  <2> QED
    BY <2>2, <2>3, <2>4, <2>5 DEF SavingsInit, SavingsTypeOK
<1>2. \A w \in Overviews : ~ Under(w)
  BY DEF SavingsInit, Under
<1>3. \A k : RowsBefore(stored, k) = 0
  BY RowsBeforeNone DEF SavingsInit
<1> QED
  BY <1>1, <1>2, <1>3 DEF SavingsInv, InBounds, AddsUpSoFar, Calm

(* Transactions of any month and the turn of the calendar disturb no         *)
(* overview: it works from the ledger it read.                               *)
LEMMA LedgerStep ==
    ASSUME SavingsInv, flow' \in Ledgers, now' \in now .. LastMonth, UNCHANGED <<stored, walk, torn>>, goal' \in Goals
    PROVE  SavingsInv'
<1> USE DEF SavingsInv
<1>1. now \in Nat /\ LastMonth \in Nat /\ CreatedIn \in Nat /\ CreatedIn <= now
  BY CalendarAssumption DEF SavingsTypeOK, Months
<1>2. SavingsTypeOK'
  BY <1>1 DEF SavingsTypeOK
<1>3. InBounds'
  BY <1>1, UnderWay DEF InBounds, Under, Months
<1>4. AddsUpSoFar'
  BY DEF AddsUpSoFar, Under, Leftover
<1>5. Calm'
  BY DEF Calm, Under
<1> QED
  BY <1>2, <1>3, <1>4, <1>5

(* An overview begins: the ones under way are no longer alone, and if there  *)
(* are none it has every row before it and nothing saved yet.                *)
LEMMA BeginStep ==
    ASSUME SavingsInv, NEW w \in Overviews, Begin(w), goal' \in Goals
    PROVE  SavingsInv'
<1> USE DEF SavingsInv
<1>0. UNCHANGED <<flow, stored, now>> /\ ~ Under(w)
  BY DEF Begin, Under
<1>1. now \in Nat /\ now \in Months /\ CreatedIn \in Nat /\ CreatedIn <= now /\ LastMonth \in Nat
  BY CalendarAssumption DEF SavingsTypeOK, Months
<1>2. First(flow) \in Months /\ First(flow) <= CreatedIn
  BY FirstIs DEF SavingsTypeOK
<1> DEFINE r == [pc |-> "walking", current |-> now, alone |-> Others(w) = {},
                 totals |-> flow, cursor |-> First(flow), saved |-> 0, seen |-> {}]
<1>3. walk'[w] = r
  BY DEF Begin
<1>4. r \in Walk /\ r # NoOverview
  <2>1. (Others(w) = {}) \in BOOLEAN
    OBVIOUS
  <2> QED BY <1>1, <1>2, <2>1 DEF Walk, NoOverview, SavingsTypeOK
<1>5. /\ walk'[w].pc = "walking" /\ walk'[w].current = now /\ walk'[w].totals = flow
      /\ walk'[w].cursor = First(flow) /\ walk'[w].saved = 0
      /\ walk'[w].alone = (Others(w) = {})
  BY <1>3
<1>6. ASSUME NEW v \in Overviews, v # w, Under(v)
      PROVE  /\ walk'[v] \in Walk /\ walk'[v] # NoOverview /\ walk'[v].alone = FALSE
             /\ walk'[v].pc = walk[v].pc /\ walk'[v].cursor = walk[v].cursor
             /\ walk'[v].current = walk[v].current /\ walk'[v].totals = walk[v].totals
  <2>1. walk'[v] = [walk[v] EXCEPT !.alone = FALSE]
    BY <1>6 DEF Begin, Under
  <2>2. walk[v] \in Walk
    BY DEF SavingsTypeOK
  <2>3. walk[v] \in Going
    BY <1>6, <2>2, GoingIsUnder DEF Under
  <2>4. walk'[v] \in Going
    BY <2>1, <2>3 DEF Going
  <2> QED
    BY <2>1, <2>3, <2>4, GoingIsUnder DEF Going
<1>7. ASSUME NEW v \in Overviews, v # w, ~ Under(v)
      PROVE  walk'[v] = NoOverview
  BY <1>7 DEF Begin, Under
<1>8. \A v \in Overviews : walk'[v] \in Walk
  BY <1>3, <1>4, <1>6, <1>7 DEF Walk
<1>9. SavingsTypeOK'
  <2>1. walk' = [v \in Overviews |-> walk'[v]]
    BY DEF Begin
  <2>2. walk' \in [Overviews -> Walk]
    BY <1>8, <2>1
  <2>3. torn' \in BOOLEAN
    BY DEF Begin, SavingsTypeOK
  <2>4. \A v \in Overviews : walk'[v].pc = "walking" => walk'[v].cursor <= walk'[v].current
    <3> SUFFICES ASSUME NEW v \in Overviews, walk'[v].pc = "walking"
                 PROVE  walk'[v].cursor <= walk'[v].current
      OBVIOUS
    <3>1. CASE v = w
      BY <1>1, <1>2, <1>5, <3>1 DEF Months
    <3>2. CASE v # w /\ Under(v)
      BY <1>6, <3>2 DEF SavingsTypeOK
    <3>3. CASE v # w /\ ~ Under(v)
      BY <1>7, <3>3 DEF NoOverview
    <3> QED BY <3>1, <3>2, <3>3
  <2> QED
    BY <1>0, <2>2, <2>3, <2>4 DEF SavingsTypeOK
<1>10. InBounds'
  <2> SUFFICES ASSUME NEW v \in Overviews, Under(v)'
               PROVE  /\ walk'[v].current \in CreatedIn .. now'
                      /\ First(walk'[v].totals) <= walk'[v].cursor
                      /\ walk'[v].cursor <= walk'[v].current
                      /\ walk'[v].pc = "closing" => walk'[v].cursor < walk'[v].current
    BY DEF InBounds
  <2>1. CASE v = w
    BY <1>0, <1>1, <1>2, <1>5, <2>1 DEF Months
  <2>2. CASE v # w /\ Under(v)
    BY <1>0, <1>6, <2>2 DEF InBounds
  <2>3. CASE v # w /\ ~ Under(v)
    BY <1>7, <2>3 DEF Under
  <2> QED BY <2>1, <2>2, <2>3
<1>11. AddsUpSoFar'
  <2> SUFFICES ASSUME NEW v \in Overviews, Under(v)', walk'[v].alone
               PROVE  /\ \A u \in Overviews : u # v => ~ Under(u)'
                      /\ \A m \in DOMAIN stored : m < walk'[v].current
                      /\ walk'[v].pc # "closing"
                      /\ RowsBefore(stored, walk'[v].cursor) = walk'[v].saved + Leftover(v)'
                      /\ walk'[v].saved = Saved(walk'[v].totals)[walk'[v].cursor - 1]
    BY <1>0 DEF AddsUpSoFar
  <2>1. v = w
    BY <1>6, <1>7 DEF Under
  <2>2. Others(w) = {}
    BY <1>5, <2>1
  <2>3. \A u \in Overviews : u # v => ~ Under(u)'
    BY <1>7, <2>1, <2>2 DEF Others, Under
  <2>4. \A m \in DOMAIN stored : m < walk'[v].current
    BY <1>5, <2>1, StoredIsRows
  <2>5. RowsBefore(stored, First(flow)) = 0 + Leftover(v)'
    <3>1. Leftover(v)' = RowsBefore(stored, First(flow))
      BY <1>0, <1>5, <2>1 DEF Leftover
    <3> QED BY <3>1, StoredIsRows, RowsBeforeIsInt
  <2>6. 0 = Saved(flow)[First(flow) - 1]
    BY NothingSavedBeforeFirst DEF SavingsTypeOK
  <2> QED
    BY <1>5, <2>1, <2>3, <2>4, <2>5, <2>6
<1>12. Calm'
  <2> SUFFICES ASSUME ~ torn' PROVE
         /\ \A v \in Overviews : Under(v)' =>
               walk'[v].alone /\ \A k \in 0 .. walk'[v].cursor : RowsBefore(stored, k) >= 0
         /\ Under(w)'
    BY <1>0 DEF Calm
  <2>1. ~ torn /\ Others(w) = {}
    BY DEF Begin
  <2>2. \A v \in Overviews : ~ Under(v)
    BY <1>0, <2>1 DEF Others, Under
  <2>3. \A k \in Months : RowsBefore(stored, k) >= 0
    BY <2>1, <2>2 DEF Calm
  <2>4. \A k \in 0 .. walk'[w].cursor : RowsBefore(stored, k) >= 0
    BY <1>1, <1>2, <1>5, <2>3 DEF Months
  <2>5. Under(w)'
    BY <1>3, <1>4 DEF Under
  <2> QED
    BY <1>5, <1>7, <2>1, <2>2, <2>4, <2>5 DEF Under
<1> QED
  BY <1>9, <1>10, <1>11, <1>12

(* Looking for a row changes nothing stored.                                 *)
LEMMA FindMonthStep ==
    ASSUME SavingsInv, NEW w \in Overviews, FindMonth(w)
    PROVE  SavingsInv'
<1> USE DEF SavingsInv
<1>0. UNCHANGED <<flow, stored, goal, now, torn>>
  BY DEF FindMonth
<1> DEFINE found == {stored[m] : m \in {walk[w].cursor} \cap DOMAIN stored}
<1>1. walk[w].pc = "walking" /\ walk[w].cursor < walk[w].current /\ Under(w)
  BY UnderWay DEF FindMonth, MoreToClose
<1>2. walk' = [walk EXCEPT ![w] = walk'[w]] /\ walk[w] \in Walk
      /\ walk'[w] = [walk[w] EXCEPT !.pc = "closing", !.seen = found]
  BY DEF FindMonth, SavingsTypeOK
<1>3. found \in SUBSET Int
  BY DEF SavingsTypeOK
<1>4. walk[w] \in Going
  BY <1>1, <1>2, GoingIsUnder DEF Under
<1>5. /\ walk'[w] \in Walk /\ Under(w)'
      /\ walk'[w].pc = "closing" /\ walk'[w].seen = found /\ walk'[w].cursor = walk[w].cursor
      /\ walk'[w].saved = walk[w].saved /\ walk'[w].alone = walk[w].alone
      /\ walk'[w].current = walk[w].current /\ walk'[w].totals = walk[w].totals
  <2> HIDE DEF found
  <2>1. walk'[w] \in Going
    BY <1>2, <1>3, <1>4 DEF Going
  <2> QED BY <1>2, <1>4, <2>1, GoingIsUnder DEF Going, Under
<1>6. \A v \in Overviews : v # w => walk'[v] = walk[v] /\ (Under(v)' <=> Under(v))
  BY <1>2 DEF SavingsTypeOK, Under
<1> HIDE DEF found
<1>7. SavingsTypeOK'
  <2>1. walk' \in [Overviews -> Walk]
    BY <1>2, <1>5 DEF SavingsTypeOK
  <2>2. \A v \in Overviews : walk'[v].pc = "walking" => walk'[v].cursor <= walk'[v].current
    BY <1>5, <1>6 DEF SavingsTypeOK
  <2> QED BY <1>0, <2>1, <2>2 DEF SavingsTypeOK
<1>8. InBounds'
  <2> SUFFICES ASSUME NEW v \in Overviews, Under(v)'
               PROVE  /\ walk'[v].current \in CreatedIn .. now
                      /\ First(walk'[v].totals) <= walk'[v].cursor
                      /\ walk'[v].cursor <= walk'[v].current
                      /\ walk'[v].pc = "closing" => walk'[v].cursor < walk'[v].current
    BY <1>0 DEF InBounds
  <2>1. CASE v = w
    BY <1>1, <1>5, <2>1 DEF InBounds
  <2>2. CASE v # w
    BY <1>6, <2>2 DEF InBounds
  <2> QED BY <2>1, <2>2
<1>9. AddsUpSoFar'
  <2>1. \A v \in Overviews : Leftover(v)' = Leftover(v)
    BY <1>0, <1>5, <1>6 DEF Leftover
  <2> SUFFICES ASSUME NEW v \in Overviews, Under(v)', walk'[v].alone
               PROVE  /\ \A u \in Overviews : u # v => ~ Under(u)'
                      /\ \A m \in DOMAIN stored : m < walk'[v].current
                      /\ walk'[v].pc = "closing" =>
                            walk'[v].seen = {stored[m] : m \in {walk'[v].cursor} \cap DOMAIN stored}
                      /\ RowsBefore(stored, walk'[v].cursor) = walk'[v].saved + Leftover(v)'
                      /\ walk'[v].saved = Saved(walk'[v].totals)[walk'[v].cursor - 1]
    BY <1>0 DEF AddsUpSoFar
  <2>2. Under(v) /\ walk[v].alone
    BY <1>1, <1>5, <1>6
  <2>3. v = w
    BY <1>1, <2>2 DEF AddsUpSoFar
  <2>4. \A u \in Overviews : u # v => ~ Under(u)'
    BY <1>6, <2>2, <2>3 DEF AddsUpSoFar
  <2>5. walk'[v].seen = {stored[m] : m \in {walk'[v].cursor} \cap DOMAIN stored}
    BY <1>5, <2>3 DEF found
  <2>6. /\ \A m \in DOMAIN stored : m < walk[v].current
        /\ RowsBefore(stored, walk[v].cursor) = walk[v].saved + Leftover(v)
        /\ walk[v].saved = Saved(walk[v].totals)[walk[v].cursor - 1]
    BY <2>2 DEF AddsUpSoFar
  <2> QED
    BY <1>5, <2>1, <2>3, <2>4, <2>5, <2>6
<1>10. Calm'
  <2> SUFFICES ASSUME ~ torn' PROVE
         \A v \in Overviews : Under(v)' =>
               walk'[v].alone /\ \A k \in 0 .. walk'[v].cursor : RowsBefore(stored, k) >= 0
    BY <1>0, <1>5 DEF Calm
  <2>1. \A v \in Overviews : Under(v) =>
               walk[v].alone /\ \A k \in 0 .. walk[v].cursor : RowsBefore(stored, k) >= 0
    BY <1>0 DEF Calm
  <2> QED
    BY <1>1, <1>5, <1>6, <2>1
<1> QED
  BY <1>7, <1>8, <1>9, <1>10

(* Closing a month: the row stored is what the ledger read saves that month, *)
(* so the sums advance together; rows before the cursor, the ones left over  *)
(* included, are as they were.                                               *)
LEMMA CloseMonthStep ==
    ASSUME SavingsInv, NEW w \in Overviews, CloseMonth(w)
    PROVE  SavingsInv'
<1> USE DEF SavingsInv
<1> DEFINE amount == Added(w)
<1>1. walk[w].pc = "closing" /\ Under(w) /\ UNCHANGED <<flow, goal, now, torn>>
  BY UnderWay DEF CloseMonth
<1>2. amount \in Int /\ walk[w].saved \in Nat /\ walk[w].saved + amount \in Nat
  <2>1. Net(walk[w].totals, walk[w].cursor) \in Int /\ walk[w].saved \in Nat
    BY <1>1, UnderWay, NetIsInt
  <2> QED BY <2>1 DEF Added, Change, Larger
<1>3. stored' = IF walk[w].seen = {amount} THEN stored ELSE Put(stored, walk[w].cursor, amount)
  BY DEF CloseMonth, Added
<1>4. /\ walk' = [walk EXCEPT ![w] = walk'[w]]
      /\ walk'[w] = [walk[w] EXCEPT !.pc = "walking", !.seen = {}, !.cursor = walk[w].cursor + 1,
                                    !.saved = walk[w].saved + amount]
  <2>1. walk' = [walk EXCEPT ![w].pc = "walking", ![w].seen = {}, ![w].cursor = walk[w].cursor + 1,
                             ![w].saved = walk[w].saved + amount]
    BY DEF CloseMonth, Added
  <2> HIDE DEF amount
  <2> QED BY <2>1 DEF SavingsTypeOK
<1> HIDE DEF amount
<1> DEFINE m == walk[w].cursor
<1>5. /\ m \in Months /\ m \in Nat /\ m + 1 \in Months /\ walk[w].current \in CreatedIn .. now
      /\ m < walk[w].current /\ now \in Nat /\ m + 1 <= walk[w].current /\ walk[w].current <= now
      /\ CreatedIn \in Nat
  BY <1>1, UnderWay, StoredIsRows, CalendarAssumption DEF InBounds, Months
<1>6. walk[w] \in Going
  BY <1>1, GoingIsUnder DEF SavingsTypeOK, Under
<1>7. /\ walk'[w] \in Walk /\ Under(w)'
      /\ walk'[w].pc = "walking" /\ walk'[w].cursor = m + 1
      /\ walk'[w].saved = walk[w].saved + amount /\ walk'[w].alone = walk[w].alone
      /\ walk'[w].current = walk[w].current /\ walk'[w].totals = walk[w].totals
  <2>1. walk'[w] = [walk[w] EXCEPT !.pc = "walking", !.seen = {}, !.cursor = m + 1,
                                   !.saved = walk[w].saved + amount]
    BY <1>4
  <2> HIDE DEF m
  <2>2. walk'[w] \in Going
    BY <1>2, <1>5, <1>6, <2>1 DEF Going
  <2> QED BY <1>6, <2>1, <2>2, GoingIsUnder DEF Going, Under
<1>8. \A v \in Overviews : v # w => walk'[v] = walk[v] /\ (Under(v)' <=> Under(v))
  BY <1>4 DEF SavingsTypeOK, Under
<1>9. /\ Rows(stored) /\ Rows(stored')
      /\ \A j \in DOMAIN stored' : j \in DOMAIN stored \/ j = m
      /\ \A k \in Int : k <= m => RowsBefore(stored', k) = RowsBefore(stored, k)
  <2>1. Rows(stored)
    BY StoredIsRows
  <2>2. CASE stored' = stored
    BY <2>1, <2>2
  <2>3. CASE stored' = Put(stored, m, amount)
    <3>1. m \in Int /\ amount \in Int
      BY <1>2, <1>5
    <3>2. \A j : j \in DOMAIN Put(stored, m, amount) <=> j \in DOMAIN stored \/ j = m
      BY <2>1, <3>1, PutIsRows, Zenon
    <3>3. Rows(Put(stored, m, amount))
      BY <2>1, <3>1, PutIsRows, Zenon
    <3>4. \A k \in Int : k <= m => RowsBefore(Put(stored, m, amount), k) = RowsBefore(stored, k)
      BY <2>1, <3>1, PutKeepsEarlier
    <3> QED BY <2>1, <2>3, <3>2, <3>3, <3>4
  <2> QED
    BY <1>3, <2>2, <2>3
<1> HIDE DEF m
<1>10. SavingsTypeOK'
  <2>1. walk' \in [Overviews -> Walk]
    BY <1>4, <1>7 DEF SavingsTypeOK
  <2>2. \A v \in Overviews : walk'[v].pc = "walking" => walk'[v].cursor <= walk'[v].current
    BY <1>5, <1>7, <1>8 DEF SavingsTypeOK
  <2>3. stored' \in [DOMAIN stored' -> Int]
    <3>1. stored \in [DOMAIN stored -> Int]
      BY DEF SavingsTypeOK
    <3>2. CASE stored' = stored
      BY <3>1, <3>2
    <3>3. CASE stored' = Put(stored, m, amount)
      BY <1>9, <3>3 DEF Put, Rows
    <3> QED BY <1>3, <3>2, <3>3 DEF m
  <2>4. DOMAIN stored' \subseteq 0 .. now - 1
    BY <1>5, <1>9 DEF SavingsTypeOK
  <2> QED BY <1>1, <2>1, <2>2, <2>3, <2>4 DEF SavingsTypeOK
<1>11. InBounds'
  <2> SUFFICES ASSUME NEW v \in Overviews, Under(v)'
               PROVE  /\ walk'[v].current \in CreatedIn .. now
                      /\ First(walk'[v].totals) <= walk'[v].cursor
                      /\ walk'[v].cursor <= walk'[v].current
                      /\ walk'[v].pc = "closing" => walk'[v].cursor < walk'[v].current
    BY <1>1 DEF InBounds
  <2>1. CASE v = w
    <3>1. First(walk[w].totals) <= m /\ First(walk[w].totals) \in Months
      BY <1>1, UnderWay, FirstIs DEF InBounds, m
    <3> QED BY <1>5, <1>7, <2>1, <3>1, CalendarAssumption DEF Months
  <2>2. CASE v # w
    BY <1>8, <2>2 DEF InBounds
  <2> QED BY <2>1, <2>2
<1>12. ASSUME walk[w].alone
       PROVE  /\ RowsBefore(stored', m + 1) = walk'[w].saved + Leftover(w)
              /\ Leftover(w)' = Leftover(w)
              /\ Leftover(w) \in Int /\ walk'[w].saved \in Nat
  <2>1. /\ walk[w].seen = {stored[k] : k \in {m} \cap DOMAIN stored}
        /\ RowsBefore(stored, m) = walk[w].saved + Leftover(w)
    BY <1>1, <1>12 DEF AddsUpSoFar, m
  <2>2. Net(stored', m) = amount
    <3>1. CASE walk[w].seen = {amount}
      <4>1. m \in DOMAIN stored /\ stored[m] = amount
        BY <2>1, <3>1
      <4> QED BY <1>3, <3>1, <4>1 DEF Net
    <3>2. CASE walk[w].seen # {amount}
      <4>1. stored' = Put(stored, m, amount)
        BY <1>3, <3>2 DEF m
      <4>2. Net(Put(stored, m, amount), m) = amount
        BY <1>2, <1>5, <1>9, PutIsRows
      <4> QED BY <4>1, <4>2
    <3> QED BY <3>1, <3>2
  <2>3. RowsBefore(stored', m + 1) = RowsBefore(stored', m) + amount
    BY <1>5, <1>9, <2>2, RowsBeforeNext
  <2>4. RowsBefore(stored', m) = RowsBefore(stored, m)
    BY <1>5, <1>9
  <2>5. First(walk[w].totals) \in Int /\ First(walk[w].totals) <= m
    BY <1>1, UnderWay, FirstIs, CalendarAssumption DEF InBounds, m, Months
  <2>6. Leftover(w)' = Leftover(w)
    BY <1>7, <1>9, <2>5 DEF Leftover
  <2>7. Leftover(w) \in Int /\ walk[w].saved \in Nat
    BY <1>1, <1>9, UnderWay, RowsBeforeIsInt DEF Leftover
  <2>8. walk'[w].saved = walk[w].saved + amount
    BY <1>7
  <2> HIDE DEF SavingsInv
  <2> QED
    BY <1>2, <2>1, <2>3, <2>4, <2>6, <2>7, <2>8
<1>13. AddsUpSoFar'
  <2> SUFFICES ASSUME NEW v \in Overviews, Under(v)', walk'[v].alone
               PROVE  /\ \A u \in Overviews : u # v => ~ Under(u)'
                      /\ \A j \in DOMAIN stored' : j < walk'[v].current
                      /\ walk'[v].pc # "closing"
                      /\ RowsBefore(stored', walk'[v].cursor) = walk'[v].saved + Leftover(v)'
                      /\ walk'[v].saved = Saved(walk'[v].totals)[walk'[v].cursor - 1]
    BY DEF AddsUpSoFar
  <2>1. Under(v) /\ walk[v].alone
    BY <1>1, <1>7, <1>8
  <2>2. v = w
    BY <1>1, <2>1 DEF AddsUpSoFar
  <2>3. \A u \in Overviews : u # v => ~ Under(u)'
    BY <1>8, <2>1, <2>2 DEF AddsUpSoFar
  <2>4. \A j \in DOMAIN stored' : j < walk'[v].current
    BY <1>5, <1>7, <1>9, <2>1, <2>2 DEF AddsUpSoFar
  <2>5. walk'[w].saved = Saved(walk[w].totals)[m]
    <3>1. walk[w].saved = Saved(walk[w].totals)[m - 1]
      BY <2>1, <2>2 DEF AddsUpSoFar, m
    <3>2. Saved(walk[w].totals)[m] = Larger(0, walk[w].saved + Net(walk[w].totals, m))
      BY <1>5, <3>1, SavedAt
    <3>3. walk[w].saved \in Nat /\ Net(walk[w].totals, m) \in Int
      BY <1>1, UnderWay, NetIsInt
    <3>4. walk[w].saved + amount = Larger(0, walk[w].saved + Net(walk[w].totals, m))
      BY <3>3 DEF amount, Added, Change, Larger, m
    <3> QED BY <1>7, <3>2, <3>4
  <2>6. walk'[v].cursor - 1 = m
    BY <1>5, <1>7, <2>2
  <2>7. RowsBefore(stored', walk'[v].cursor) = RowsBefore(stored', m + 1)
    BY <1>7, <2>2
  <2> QED
    BY <1>7, <1>12, <2>1, <2>2, <2>3, <2>4, <2>5, <2>6, <2>7
<1>14. Calm'
  <2> SUFFICES ASSUME ~ torn, NEW v \in Overviews, Under(v)'
               PROVE  walk'[v].alone /\ \A k \in 0 .. walk'[v].cursor : RowsBefore(stored', k) >= 0
    BY <1>1, <1>7 DEF Calm
  <2>1. walk[w].alone /\ \A k \in 0 .. m : RowsBefore(stored, k) >= 0
    BY <1>1 DEF Calm, m
  <2>2. v = w
    BY <1>1, <1>8, <2>1 DEF AddsUpSoFar
  <2>3. Leftover(w) >= 0
    <3>1. First(walk[w].totals) \in 0 .. m
      BY <1>1, <1>5, UnderWay, FirstIs, CalendarAssumption DEF InBounds, m, Months
    <3> QED BY <2>1, <3>1 DEF Leftover
  <2>4. RowsBefore(stored', m + 1) >= 0
    BY <1>12, <2>1, <2>3
  <2>5. ASSUME NEW k \in 0 .. m + 1 PROVE RowsBefore(stored', k) >= 0
    <3>1. CASE k <= m
      <4>1. k \in 0 .. m /\ k \in Int
        BY <1>5, <3>1
      <4> QED BY <1>9, <2>1, <4>1, <3>1
    <3>2. CASE k = m + 1
      BY <2>4, <3>2
    <3> QED BY <1>5, <3>1, <3>2
  <2> QED
    BY <1>7, <2>1, <2>2, <2>5
<1> QED
  BY <1>10, <1>11, <1>13, <1>14

(* An overview ends or dies. If it ends, alone, its cursor is past every     *)
(* row.                                                                      *)
LEMMA EndStep ==
    ASSUME SavingsInv, NEW w \in Overviews, Under(w), walk' = [walk EXCEPT ![w] = NoOverview],
           UNCHANGED <<flow, stored, goal, now>>,
           torn' \in BOOLEAN, ~ torn' => ~ torn /\ AtEnd(w)
    PROVE  SavingsInv'
<1> USE DEF SavingsInv
<1>1. ~ Under(w)' /\ walk'[w] = NoOverview
  BY DEF SavingsTypeOK, Under
<1>2. \A v \in Overviews : v # w => walk'[v] = walk[v] /\ (Under(v)' <=> Under(v))
  BY DEF SavingsTypeOK, Under
<1>3. SavingsTypeOK'
  <2>1. walk' \in [Overviews -> Walk]
    BY GoingIsUnder DEF SavingsTypeOK
  <2>2. \A v \in Overviews : walk'[v].pc = "walking" => walk'[v].cursor <= walk'[v].current
    BY <1>1, <1>2 DEF SavingsTypeOK, NoOverview
  <2> QED BY <2>1, <2>2 DEF SavingsTypeOK
<1>4. InBounds'
  BY <1>1, <1>2 DEF InBounds
<1>5. AddsUpSoFar'
  <2> SUFFICES ASSUME NEW v \in Overviews, Under(v)', walk'[v].alone
               PROVE  FALSE
    BY DEF AddsUpSoFar
  <2>1. v # w /\ Under(v) /\ walk[v].alone
    BY <1>1, <1>2
  <2> QED BY <2>1 DEF AddsUpSoFar
<1>6. Calm'
  <2> SUFFICES ASSUME ~ torn'
               PROVE  /\ \A v \in Overviews : ~ Under(v)'
                      /\ \A k \in Months : RowsBefore(stored, k) >= 0
    BY DEF Calm
  <2>1. walk[w].alone /\ \A k \in 0 .. walk[w].cursor : RowsBefore(stored, k) >= 0
    BY DEF Calm
  <2>2. \A v \in Overviews : ~ Under(v)'
    BY <1>1, <1>2, <2>1 DEF AddsUpSoFar
  <2>3. /\ walk[w].cursor \in Nat /\ walk[w].cursor = walk[w].current
        /\ \A m \in DOMAIN stored : m < walk[w].cursor
    <3>1. walk[w].cursor \in Months /\ walk[w].current \in Months
      BY UnderWay
    <3> QED BY <2>1, <3>1, CalendarAssumption DEF AtEnd, InBounds, AddsUpSoFar, Months
  <2>4. RowsBefore(stored, walk[w].cursor) >= 0
    BY <2>1, <2>3
  <2>5. ASSUME NEW k \in Months PROVE RowsBefore(stored, k) >= 0
    <3>1. CASE k <= walk[w].cursor
      BY <2>1, <2>3, <3>1 DEF Months
    <3>2. CASE ~ (k <= walk[w].cursor)
      <4>1. \A m \in DOMAIN stored : m < k
        BY <2>3, <3>2, StoredIsRows, CalendarAssumption DEF Months
      <4>2. RowsBefore(stored, k) = RowsBefore(stored, walk[w].cursor)
        BY <2>3, <4>1, RowsBeforeAll
      <4> QED BY <2>4, <4>2
    <3> QED BY <3>1, <3>2
  <2> QED BY <2>2, <2>5
<1> QED
  BY <1>3, <1>4, <1>5, <1>6

(* Every step of the ledger, the calendar and the overviews keeps the        *)
(* invariant.                                                                *)
LEMMA NextSavings == SavingsInv /\ [SavingsNext]_savingsVars => SavingsInv'
<1> SUFFICES ASSUME SavingsInv, [SavingsNext]_savingsVars PROVE SavingsInv'
  OBVIOUS
<1>0. SavingsTypeOK /\ now \in now .. LastMonth /\ flow \in Ledgers /\ goal \in Goals /\ torn \in BOOLEAN
  BY CalendarAssumption DEF SavingsInv, SavingsTypeOK, Months
<1>1. ASSUME NEW m \in Months, Erase(m) PROVE SavingsInv'
  <2>1. flow' = Restrict(flow, DOMAIN flow \ {m}) /\ UNCHANGED <<stored, goal, now, walk, torn>>
    BY <1>1 DEF Erase
  <2>2. flow' \in Ledgers
    <3>1. PICK D \in SUBSET Months : flow \in [D -> Nets]
      BY <1>0 DEF Ledgers
    <3>2. flow' \in [D \ {m} -> Nets] /\ D \ {m} \in SUBSET Months
      BY <2>1, <3>1 DEF Restrict
    <3> QED BY <3>2 DEF Ledgers
  <2> QED BY <1>0, <2>1, <2>2, LedgerStep
<1>2. ASSUME NEW m \in Months, NEW net \in Nets, Record(m, net) PROVE SavingsInv'
  <2>1. flow' = Put(flow, m, net) /\ UNCHANGED <<stored, goal, now, walk, torn>>
    BY <1>2 DEF Record
  <2>2. flow' \in Ledgers
    <3>1. PICK D \in SUBSET Months : flow \in [D -> Nets]
      BY <1>0 DEF Ledgers
    <3>2. flow' \in [D \cup {m} -> Nets] /\ D \cup {m} \in SUBSET Months
      BY <2>1, <3>1 DEF Put
    <3> QED BY <3>2 DEF Ledgers
  <2> QED BY <1>0, <2>1, <2>2, LedgerStep
<1>3. CASE NextMonth
  <2>1. now' \in now .. LastMonth /\ UNCHANGED <<flow, stored, goal, walk, torn>>
    BY <1>0, <1>3, StoredIsRows DEF NextMonth
  <2> QED BY <1>0, <2>1, LedgerStep
<1>4. ASSUME NEW w \in Overviews, ProcessMonthEnd(w) PROVE SavingsInv'
  BY <1>0, <1>4, BeginStep DEF ProcessMonthEnd
<1>5. ASSUME NEW w \in Overviews, NEW g \in Goals, SetGoal(w, g) PROVE SavingsInv'
  BY <1>0, <1>5, BeginStep DEF SetGoal
<1>6. ASSUME NEW w \in Overviews, FindMonth(w) PROVE SavingsInv'
  BY <1>6, FindMonthStep
<1>7. ASSUME NEW w \in Overviews, CloseMonth(w) PROVE SavingsInv'
  BY <1>7, CloseMonthStep
<1>8. ASSUME NEW w \in Overviews, Overview(w) PROVE SavingsInv'
  <2>1. Under(w)
    BY <1>0, <1>8, UnderWay DEF Overview, AtEnd
  <2>2. /\ walk' = [walk EXCEPT ![w] = NoOverview] /\ UNCHANGED <<flow, stored, goal, now, torn>>
        /\ AtEnd(w)
    BY <1>8 DEF Overview
  <2> QED BY <1>0, <2>1, <2>2, EndStep
<1>9. ASSUME NEW w \in Overviews, OverviewFails(w) PROVE SavingsInv'
  <2>1. /\ walk' = [walk EXCEPT ![w] = NoOverview] /\ UNCHANGED <<flow, stored, goal, now>>
        /\ torn' = TRUE /\ Under(w)
    BY <1>9 DEF OverviewFails, Under
  <2> QED BY <2>1, EndStep
<1>10. CASE UNCHANGED savingsVars
  <2>1. UNCHANGED <<flow, stored, goal, now, walk, torn>>
    BY <1>10 DEF savingsVars
  <2> QED BY <1>0, <2>1, LedgerStep
<1> QED
  BY <1>1, <1>2, <1>3, <1>4, <1>5, <1>6, <1>7, <1>8, <1>9, <1>10 DEF SavingsNext

----------------------------------------------------------------------------
(* What the invariant says of every overview.                                *)

(* The invariant holds for ever.                                             *)
LEMMA SavingsInvariant == SavingsSpec => []SavingsInv
  BY InitSavings, NextSavings, PTL DEF SavingsSpec

(* The ledger, the rows of monthly_savings and every walk keep their types;  *)
(* no row is ever of the month in progress or a later one                    *)
(* (ProcessMonthlySavings closes only months that are over).                 *)
THEOREM SavingsTypeCorrect == SavingsSpec => []SavingsTypeOK
<1>1. SavingsInv => SavingsTypeOK
  BY DEF SavingsInv
<1> QED
  BY <1>1, SavingsInvariant, PTL

(* What an overview no other overlapped finds when it has closed its last    *)
(* month.                                                                    *)
LEMMA TotalAtEnd ==
    ASSUME SavingsInv, NEW w \in Overviews, AtEnd(w), walk[w].alone
    PROVE  /\ Total = walk[w].saved + Leftover(w)
           /\ walk[w].saved = Saved(walk[w].totals)[walk[w].current - 1]
           /\ Saved(walk[w].totals)[walk[w].current] = walk[w].saved + Projection(w)
           /\ Saved(walk[w].totals)[walk[w].current] \in Nat
           /\ walk[w].saved \in Nat /\ Leftover(w) \in Int /\ Projection(w) \in Int
           /\ First(walk[w].totals) \in 0 .. walk[w].cursor
<1> USE DEF SavingsInv
<1>1. Under(w)
  BY UnderWay DEF AtEnd
<1>2. /\ walk[w].cursor \in Months /\ walk[w].current \in Months /\ walk[w].totals \in Ledgers
      /\ walk[w].saved \in Nat
  BY <1>1, UnderWay
<1>3. walk[w].cursor = walk[w].current
  BY <1>1, <1>2, CalendarAssumption DEF AtEnd, InBounds, Months
<1>4. Total = RowsBefore(stored, walk[w].cursor)
  <2>1. \A m \in DOMAIN stored : m < walk[w].cursor
    BY <1>1, <1>3 DEF AddsUpSoFar
  <2> QED BY <2>1, RowsBeforeAll DEF Total
<1>5. Total = walk[w].saved + Leftover(w)
  BY <1>1, <1>4 DEF AddsUpSoFar
<1>6. walk[w].saved = Saved(walk[w].totals)[walk[w].current - 1]
  BY <1>1, <1>3 DEF AddsUpSoFar
<1>7. Saved(walk[w].totals)[walk[w].current] = Larger(0, walk[w].saved + Net(walk[w].totals, walk[w].current))
  BY <1>2, <1>6, SavedAt
<1>8. /\ Projection(w) \in Int
      /\ Larger(0, walk[w].saved + Net(walk[w].totals, walk[w].current)) = walk[w].saved + Projection(w)
  <2>1. Net(walk[w].totals, walk[w].current) \in Int
    BY <1>2, NetIsInt
  <2> QED BY <1>2, <2>1 DEF Projection, Change, Larger
<1>9. Saved(walk[w].totals)[walk[w].current] \in Nat
  BY <1>2, SavedIsNat, CalendarAssumption DEF Months
<1>10. Leftover(w) \in Int
  BY StoredIsRows, RowsBeforeIsInt DEF Leftover
<1>11. First(walk[w].totals) \in 0 .. walk[w].cursor
  BY <1>1, <1>2, FirstIs, CalendarAssumption DEF InBounds, Months
<1> QED
  BY <1>2, <1>5, <1>6, <1>7, <1>8, <1>9, <1>10, <1>11

(* The total and the projection an overview answers with                     *)
(* (ProcessMonthlySavings, SumFunction of the rows upsert_month stored) are  *)
(* what the ledger it read saves month by month, plus the rows of months it  *)
(* no longer reaches, as long as no other overview overlapped it: for any    *)
(* calendar, any nets and any number of overviews.                           *)
THEOREM OverviewsAddUp == SavingsSpec => []OverviewAddsUp
<1>1. SavingsInv => OverviewAddsUp
  <2> SUFFICES ASSUME SavingsInv, NEW w \in Overviews, AtEnd(w), walk[w].alone
               PROVE  /\ Total = Saved(walk[w].totals)[walk[w].current - 1] + Leftover(w)
                      /\ Total + Projection(w) = Saved(walk[w].totals)[walk[w].current] + Leftover(w)
    BY DEF OverviewAddsUp
  <2>1. /\ Total = walk[w].saved + Leftover(w)
        /\ walk[w].saved = Saved(walk[w].totals)[walk[w].current - 1]
        /\ Saved(walk[w].totals)[walk[w].current] = walk[w].saved + Projection(w)
        /\ walk[w].saved \in Int /\ Leftover(w) \in Int /\ Projection(w) \in Int
    BY TotalAtEnd
  <2> QED BY <2>1
<1> QED
  BY <1>1, SavingsInvariant, PTL

(* As long as overviews take turns and none dies half way, neither the total *)
(* nor the projection is ever below nothing, the rows left over by earlier   *)
(* walks included.                                                           *)
THEOREM SavingsStayAboveNothing == SavingsSpec => []NeverBelowNothing
<1>1. SavingsInv => NeverBelowNothing
  <2> SUFFICES ASSUME SavingsInv, NEW w \in Overviews, AtEnd(w), ~ torn
               PROVE  Total >= 0 /\ Total + Projection(w) >= 0
    BY DEF NeverBelowNothing
  <2>1. Under(w)
    BY UnderWay DEF SavingsInv, AtEnd
  <2>2. walk[w].alone /\ \A k \in 0 .. walk[w].cursor : RowsBefore(stored, k) >= 0
    BY <2>1 DEF SavingsInv, Calm
  <2>3. /\ Total = walk[w].saved + Leftover(w)
        /\ Saved(walk[w].totals)[walk[w].current] = walk[w].saved + Projection(w)
        /\ Saved(walk[w].totals)[walk[w].current] \in Nat
        /\ walk[w].saved \in Nat /\ Leftover(w) \in Int /\ Projection(w) \in Int
        /\ First(walk[w].totals) \in 0 .. walk[w].cursor
    BY <2>2, TotalAtEnd
  <2>4. Leftover(w) >= 0
    BY <2>2, <2>3 DEF Leftover
  <2> QED BY <2>3, <2>4
<1> QED
  BY <1>1, SavingsInvariant, PTL
=============================================================================
