--------------------------- MODULE DailySummaries ---------------------------
(***************************************************************************)
(* The summary of each day mailed to one user.  A round of the scheduler    *)
(* takes the days still owed, oldest first, and for each looks the day up   *)
(* in notification_deliveries, sends and records.  Rounds never overlap:    *)
(* one asyncio task waits for each before it sleeps.  Days are numbers, and *)
(* the calendar is as long as the bound LastDay.                            *)
(***************************************************************************)
EXTENDS Integers

CONSTANTS
    Created,      \* the day the account was created
    LastDay,      \* bound: the last day of the calendar
    CatchUp       \* DAILY_SUMMARY_CATCHUP_DAYS

ASSUME DaysAssumption ==
    /\ Created \in Nat
    /\ LastDay \in Nat
    /\ Created <= LastDay
    /\ CatchUp \in Nat

VARIABLES
    today,
    round,        \* what send_daily_summaries is doing
    delivered,    \* the days recorded in notification_deliveries
    sent,         \* history: days whose summary was sent
    repeated,     \* history: days whose summary was sent again
    excused       \* history: days that were sent and not recorded

mails == <<delivered, sent, repeated, excused>>
vars  == <<today, round, mails>>

Days == 0 .. LastDay

(* `now' is read once, at the start.  `left' are the dates the generator has *)
(* not gone past; `failed' is history.                                       *)
Idle  == [pc |-> "idle", now |-> 0, left |-> {}, failed |-> {}]
Round == [pc : {"choosing", "sending", "marking"}, now : Days,
          left : SUBSET Days, failed : SUBSET Days]

TypeOK ==
    /\ today \in Days
    /\ round \in Round \cup {Idle}
    /\ delivered \in SUBSET Days
    /\ sent \in SUBSET Days
    /\ repeated \in SUBSET Days
    /\ excused \in SUBSET Days

Init ==
    /\ today = Created
    /\ round = Idle
    /\ delivered = {} /\ sent = {} /\ repeated = {} /\ excused = {}

----------------------------------------------------------------------------
(* Mutant: the look-back is one day short.                                   *)
OwedOneShort(now, late) ==
    {d \in Days : d >= Created /\ now - CatchUp < d /\ (d < now \/ (d = now /\ late))}

(* _summary_dates_owed; `late' is whether the user's hour has come.          *)
Owed(now, late) ==
    {d \in Days : d >= Created /\ now - CatchUp <= d /\ (d < now \/ (d = now /\ late))}

(* The user's hour, and whether there are summaries at all, are settings     *)
(* that may change between any two rounds.                                   *)
Start(late) ==
    /\ round = Idle
    /\ round' = [pc |-> "choosing", now |-> today, left |-> Owed(today, late), failed |-> {}]
    /\ UNCHANGED <<today, mails>>

(* The date the loop is at.                                                  *)
IsNext(d) == d \in round.left /\ \A e \in round.left : d <= e

WasDelivered(d) == d \in delivered

Skip(d) ==
    /\ round.pc = "choosing" /\ IsNext(d)
    /\ WasDelivered(d)
    /\ round' = [round EXCEPT !.left = @ \ {d}]
    /\ UNCHANGED <<today, mails>>

(* Mutant: nobody asks was_delivered.                                        *)
ChooseUnasked(d) ==
    /\ round.pc = "choosing" /\ IsNext(d)
    /\ round' = [round EXCEPT !.pc = "sending"]
    /\ UNCHANGED <<today, mails>>

Choose(d) ==
    /\ round.pc = "choosing" /\ IsNext(d)
    /\ ~WasDelivered(d)
    /\ round' = [round EXCEPT !.pc = "sending"]
    /\ UNCHANGED <<today, mails>>

Send(d) ==
    /\ round.pc = "sending" /\ IsNext(d)
    /\ round' = [round EXCEPT !.pc = "marking"]
    /\ sent' = sent \cup {d}
    /\ repeated' = repeated \cup (sent \cap {d})
    /\ UNCHANGED <<today, delivered, excused>>

(* Mutant: tomorrow's date is recorded.                                      *)
MarkNextDay(d) ==
    /\ round.pc = "marking" /\ IsNext(d)
    /\ round' = [round EXCEPT !.pc = "choosing", !.left = @ \ {d}]
    /\ delivered' = delivered \cup {d + 1}
    /\ UNCHANGED <<today, sent, repeated, excused>>

Mark(d) ==
    /\ round.pc = "marking" /\ IsNext(d)
    /\ round' = [round EXCEPT !.pc = "choosing", !.left = @ \ {d}]
    /\ delivered' = delivered \cup {d}
    /\ UNCHANGED <<today, sent, repeated, excused>>

(* Mutant: the day is recorded although its mail failed.                     *)
FailsRecorded(d) ==
    /\ round.pc # "idle" /\ IsNext(d)
    /\ round' = [round EXCEPT !.pc = "choosing", !.left = @ \ {d}, !.failed = @ \cup {d}]
    /\ excused' = IF round.pc = "marking" THEN excused \cup {d} ELSE excused
    /\ delivered' = delivered \cup {d}
    /\ UNCHANGED <<today, sent, repeated>>

(* Looking up, sending or recording raises: the day is left to the next      *)
(* round, and this one goes on with the days after it.                       *)
Fails(d) ==
    /\ round.pc # "idle" /\ IsNext(d)
    /\ round' = [round EXCEPT !.pc = "choosing", !.left = @ \ {d}, !.failed = @ \cup {d}]
    /\ excused' = IF round.pc = "marking" THEN excused \cup {d} ELSE excused
    /\ UNCHANGED <<today, delivered, sent, repeated>>

End ==
    /\ round.pc = "choosing"
    /\ round.left = {}
    /\ round' = Idle
    /\ UNCHANGED <<today, mails>>

(* The process dies, and may be back days later.                             *)
ApiCrash ==
    /\ round' = Idle
    /\ excused' = excused \cup {d \in Days : round.pc = "marking" /\ IsNext(d)}
    /\ UNCHANGED <<today, delivered, sent, repeated>>

Midnight ==
    /\ today < LastDay
    /\ today' = today + 1
    /\ UNCHANGED <<round, mails>>

----------------------------------------------------------------------------
Next ==
    \/ \E late \in BOOLEAN : Start(late)
    \/ \E d \in Days : Skip(d) \/ Choose(d) \/ Send(d) \/ Mark(d) \/ Fails(d)
    \/ End \/ ApiCrash \/ Midnight

Spec == Init /\ [][Next]_vars

----------------------------------------------------------------------------
(* Properties.                                                               *)

(* Each day is looked up, mailed and recorded the way DeliveryLog promises,  *)
(* by one round at a time: a day that is recorded is never mailed again, and *)
(* no other day's mail, nor one that failed, records it.                     *)
DayAtHand == CHOOSE d \in Days : IsNext(d)

Mailing == [a \in {"round"} |->
    IF round.pc \in {"sending", "marking"} THEN [pc |-> round.pc, key |-> DayAtHand]
    ELSE [pc |-> "none"]]

Log == INSTANCE DeliveryLog WITH
    Keys <- Days, Attempts <- {"round"}, recorded <- delivered, told <- sent, attempt <- Mailing

LogSpec == Log!Spec

(* What is recorded as delivered was sent: neither a mail that failed nor    *)
(* another day's record settles a day.                                       *)
DeliveredWasSent == delivered \subseteq sent

(* A summary is repeated only if it was sent once before and recording that  *)
(* failed.                                                                   *)
RepeatsExplained == repeated \subseteq excused

(* When a round comes to its end, every day of the account that is over and  *)
(* within the look-back has its summary recorded, however many rounds were   *)
(* missed or cut short before it, apart from days that failed in it.         *)
NoDayLost ==
    round.pc = "choosing" /\ round.left = {} =>
        \A d \in Days :
            d >= Created /\ d < round.now /\ d >= round.now - CatchUp /\ d \notin round.failed
                => d \in delivered
=============================================================================
