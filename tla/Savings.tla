------------------------------- MODULE Savings -------------------------------
(***************************************************************************)
(* One user's savings.  An overview (POST /savings/process-month-end, and   *)
(* PUT /savings/goal after it has stored the goal) reads the whole ledger    *)
(* once, then walks the months that are over and stores what each of them   *)
(* added, one transaction of the database per month.  The total it answers   *)
(* with is the sum of every row stored, whoever stored it.                  *)
(*                                                                          *)
(* Nothing keeps two overviews of a user apart, and transactions of any      *)
(* month come and go meanwhile.  A month's transactions count as their       *)
(* income less their expense; years and months are one sequence of months.  *)
(***************************************************************************)
EXTENDS Integers, Functions

CONSTANTS
    LastMonth,    \* bound: the calendar stops there
    CreatedIn,    \* the month the account was created in
    Nets,         \* bound: what the transactions of a month can come to
    Goals,        \* goals the user can set
    Overviews     \* bound: overviews under way at once

Months == 0 .. LastMonth

ASSUME CalendarAssumption == LastMonth \in Nat /\ CreatedIn \in Months
ASSUME NetsAssumption     == Nets \subseteq Int

VARIABLES
    flow,         \* the months that have transactions, and their net
    stored,       \* rows of monthly_savings
    goal,         \* savings_goal_minor of the user
    now,          \* the month it is
    walk,         \* what each overview is doing
    torn          \* history: two overviews overlapped, or one died half way

savingsVars == <<flow, stored, goal, now, walk, torn>>

Ledgers == UNION {[D -> Nets] : D \in SUBSET Months}

NoOverview == [pc |-> "idle"]
Walk == {NoOverview}
    \cup [pc : {"walking", "closing"}, current : Months, alone : BOOLEAN, totals : Ledgers,
          cursor : Months, saved : Nat, seen : SUBSET Int]

SavingsTypeOK ==
    /\ flow \in Ledgers
    /\ stored \in [DOMAIN stored -> Int]
    /\ goal \in Goals
    /\ now \in CreatedIn .. LastMonth
    /\ walk \in [Overviews -> Walk]
    /\ torn \in BOOLEAN
    /\ DOMAIN stored \subseteq 0 .. now - 1
    /\ \A w \in Overviews : walk[w].pc = "walking" => walk[w].cursor <= walk[w].current

SavingsInit ==
    /\ flow = <<>> /\ stored = <<>>
    /\ goal \in Goals
    /\ now = CreatedIn
    /\ walk = [w \in Overviews |-> NoOverview]
    /\ torn = FALSE

Put(f, m, x) == [k \in DOMAIN f \cup {m} |-> IF k = m THEN x ELSE f[k]]
Larger(a, b) == IF a >= b THEN a ELSE b
Net(totals, m) == IF m \in DOMAIN totals THEN totals[m] ELSE 0

----------------------------------------------------------------------------
(* The ledger, whose requests may carry any date, and the calendar.          *)

Record(m, net) ==
    /\ flow' = Put(flow, m, net)
    /\ UNCHANGED <<stored, goal, now, walk, torn>>

Erase(m) ==
    /\ m \in DOMAIN flow
    /\ flow' = Restrict(flow, DOMAIN flow \ {m})
    /\ UNCHANGED <<stored, goal, now, walk, torn>>

NextMonth ==
    /\ now < LastMonth
    /\ now' = now + 1
    /\ UNCHANGED <<flow, stored, goal, walk, torn>>

----------------------------------------------------------------------------
(* ProcessMonthlySavings.                                                    *)

Others(w) == {v \in Overviews \ {w} : walk[v] # NoOverview}

(* Mutant: the history starts when the account was created.                  *)
FirstCreated(totals) == CreatedIn

(* The walk starts with the account, or with the earliest transaction.       *)
First(totals) ==
    CHOOSE m \in DOMAIN totals \cup {CreatedIn} :
        \A k \in DOMAIN totals \cup {CreatedIn} : m <= k

(* The handler looks at the calendar, and monthly_totals reads the ledger.   *)
(* They are one step: whatever the ledger becomes as the month turns between *)
(* them, it could have become before, for it takes transactions of any date. *)
Begin(w) ==
    /\ walk[w] = NoOverview
    /\ walk' = [v \in Overviews |->
          IF v = w THEN [pc |-> "walking", current |-> now, alone |-> Others(w) = {},
                         totals |-> flow, cursor |-> First(flow), saved |-> 0, seen |-> {}]
          ELSE IF walk[v] # NoOverview THEN [walk[v] EXCEPT !.alone = FALSE]
          ELSE NoOverview]
    /\ torn' = (torn \/ Others(w) # {})
    /\ UNCHANGED <<flow, stored, now>>

ProcessMonthEnd(w) == Begin(w) /\ UNCHANGED goal
SetGoal(w, g)      == Begin(w) /\ goal' = g

(* Mutant: the month in progress is closed too.                              *)
MoreThroughToday(w) == walk[w].pc = "walking" /\ walk[w].cursor <= walk[w].current

MoreToClose(w) == walk[w].pc = "walking" /\ walk[w].cursor < walk[w].current

(* upsert_month looks for the row of the month ...                           *)
FindMonth(w) ==
    /\ MoreToClose(w)
    /\ walk' = [walk EXCEPT ![w].pc = "closing",
                            ![w].seen = {stored[m] : m \in {walk[w].cursor} \cap DOMAIN stored}]
    /\ UNCHANGED <<flow, stored, goal, now, torn>>

(* Mutant: a month takes away whatever it cost.                              *)
Unfloored(net, saved) == net

(* What a month adds: it can empty what was saved, and no more.              *)
Change(net, saved) == Larger(net, -saved)

(* ... inserts it, or updates it if the amount differs from the one it saw.  *)
(* A row inserted since fails the request on the unique constraint.          *)
CloseMonth(w) ==
    /\ walk[w].pc = "closing"
    /\ LET m      == walk[w].cursor
           amount == Change(Net(walk[w].totals, m), walk[w].saved)
       IN  /\ walk[w].seen = {} => m \notin DOMAIN stored
           /\ stored' = IF walk[w].seen = {amount} THEN stored ELSE Put(stored, m, amount)
           /\ walk' = [walk EXCEPT ![w].pc = "walking", ![w].seen = {}, ![w].cursor = m + 1,
                                   ![w].saved = walk[w].saved + amount]
    /\ UNCHANGED <<flow, goal, now, torn>>

AtEnd(w) == walk[w].pc = "walking" /\ walk[w].cursor >= walk[w].current

(* What the overview answers with, from the rows as they are by then.        *)
Total         == SumFunction(stored)
Projection(w) == Change(Net(walk[w].totals, walk[w].current), walk[w].saved)

Overview(w) ==
    /\ AtEnd(w)
    /\ walk' = [walk EXCEPT ![w] = NoOverview]
    /\ UNCHANGED <<flow, stored, goal, now, torn>>

(* A failed insert, a lost database, a process that dies: what is stored     *)
(* stays.                                                                    *)
OverviewFails(w) ==
    /\ walk[w] # NoOverview
    /\ walk' = [walk EXCEPT ![w] = NoOverview]
    /\ torn' = TRUE
    /\ UNCHANGED <<flow, stored, goal, now>>

----------------------------------------------------------------------------
SavingsNext ==
    \/ \E m \in Months : Erase(m) \/ \E net \in Nets : Record(m, net)
    \/ NextMonth
    \/ \E w \in Overviews :
          \/ ProcessMonthEnd(w) \/ (\E g \in Goals : SetGoal(w, g))
          \/ FindMonth(w) \/ CloseMonth(w) \/ Overview(w) \/ OverviewFails(w)

SavingsSpec == SavingsInit /\ [][SavingsNext]_savingsVars

----------------------------------------------------------------------------
(* Properties.                                                               *)

(* What is saved by the end of each month, however far back the walk began.  *)
Saved(totals) ==
    LET saved[m \in -1 .. LastMonth] ==
            IF m = -1 THEN 0 ELSE Larger(0, saved[m - 1] + Net(totals, m))
    IN  saved

(* What the rows of the months before k come to.                             *)
RowsBefore(rows, k) == SumFunctionOnSet(rows, {m \in DOMAIN rows : m < k})

(* Rows of months before the first one an overview walks: their transactions *)
(* have been deleted since.                                                  *)
Leftover(w) == RowsBefore(stored, First(walk[w].totals))

(* An overview that no other overlapped answers with what the ledger it read *)
(* comes to, month by month, over whatever earlier walks had stored and      *)
(* however the ledger changed under it; on top come the rows of the months   *)
(* it no longer reaches, and nothing else.                                   *)
OverviewAddsUp ==
    \A w \in Overviews :
        AtEnd(w) /\ walk[w].alone =>
            LET saved == Saved(walk[w].totals)
                now_  == walk[w].current
            IN  /\ Total = saved[now_ - 1] + Leftover(w)
                /\ Total + Projection(w) = saved[now_] + Leftover(w)

(* Savings never fall below nothing, rows left over included, as long as     *)
(* overviews take turns and none dies half way.                              *)
NeverBelowNothing ==
    \A w \in Overviews : AtEnd(w) /\ ~torn => Total >= 0 /\ Total + Projection(w) >= 0
=============================================================================
