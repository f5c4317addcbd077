---------------------------- MODULE LedgerEntries ----------------------------
(***************************************************************************)
(* One user's transactions, categories and monthly budgets, and the         *)
(* requests that change them.  A request that changes a row reads it first, *)
(* holds no lock on it, and commits later; other requests of the user       *)
(* commit in between.                                                       *)
(*                                                                          *)
(* A session's UPDATE names the columns that differ from the copy it read,  *)
(* and no others: the row keeps what somebody else wrote to the rest, while *)
(* the request is answered with its own copy.  A DELETE names the row alone. *)
(*                                                                          *)
(* A category of the user's own is identified by its name and kind, as the  *)
(* unique constraint has it.  Dates and descriptions are left out: they are *)
(* columns like the amount.                                                 *)
(***************************************************************************)
EXTENDS Integers

CONSTANTS
    Shared,       \* the default categories, of every user
    Own,          \* categories CreateCategory can add
    Kind,         \* INCOME or EXPENSE, of each of them
    Amounts,      \* amounts of transactions
    Limits,       \* limits of budgets
    Entries,      \* bound: ids of transactions, each used once
    Budgets,      \* bound: ids of budgets, each used once
    Requests      \* bound: requests under way at once

Kinds      == {"INCOME", "EXPENSE"}
Categories == Shared \cup Own

ASSUME KindAssumption    == Kind \in [Categories -> Kinds]
ASSUME AmountsAssumption == Amounts \subseteq Nat \ {0} /\ Limits \subseteq Nat \ {0}

VARIABLES
    created,      \* the user's own rows of categories
    entry,        \* rows of transactions
    budget,       \* rows of monthly_budgets
    req,          \* what each request has read and is about to write
    asked,        \* history: the limit each category was last answered to have, 0 for none
    crossed,      \* history: categories of rows that came out unlike their answer
    unchecked     \* history: categories whose spending or limit nobody has checked since

vars == <<created, entry, budget, req, asked, crossed, unchecked>>

Unused == [id |-> "unused"]
Gone   == [id |-> "gone"]
Entry  == [category : Categories, kind : Kinds, amount : Amounts]
Budget == [category : Categories, limit : Limits]

Idle    == [op |-> "idle"]
Request == {Idle}
    \cup [op : {"update"}, row : Entries, read : Entry, wanted : Entry]
    \cup [op : {"delete"}, row : Entries]
    \cup [op : {"insert"}, wanted : Budget]
    \cup [op : {"limit"}, row : Budgets, read : Budget, wanted : Budget]
    \cup [op : {"remove"}, row : Budgets, from : Categories]

TypeOK ==
    /\ created \in SUBSET Own
    /\ entry \in [Entries -> Entry \cup {Unused, Gone}]
    /\ budget \in [Budgets -> Budget \cup {Unused, Gone}]
    /\ req \in [Requests -> Request]
    /\ asked \in [Categories -> Limits \cup {0}]
    /\ crossed \in SUBSET Categories
    /\ unchecked \in SUBSET Categories

Init ==
    /\ created = {}
    /\ entry = [t \in Entries |-> Unused]
    /\ budget = [b \in Budgets |-> Unused]
    /\ req = [r \in Requests |-> Idle]
    /\ asked = [c \in Categories |-> 0]
    /\ crossed = {} /\ unchecked = {}

Live(row)    == row \notin {Unused, Gone}
Available(c) == c \in Shared \cup created

(* What a row holds after an UPDATE.                                         *)
Merge(now, read, wanted) ==
    [column \in DOMAIN wanted |->
        IF wanted[column] = read[column] THEN now[column] ELSE wanted[column]]

(* SQLAlchemy sends no UPDATE if nothing changed, and raises StaleDataError  *)
(* if the row it means to change has gone.                                   *)
Lost(now, read, wanted) == ~Live(now) /\ wanted # read

Written(now, read, wanted) == IF Live(now) THEN Merge(now, read, wanted) ELSE now

(* The categories a write has to do with, when the row is not as answered.   *)
Crossing(now, read, wanted) ==
    IF Written(now, read, wanted) = wanted THEN {}
    ELSE {read.category, wanted.category}
         \cup (IF Live(now) THEN {now.category, Written(now, read, wanted).category} ELSE {})

(* What a transaction adds to the spending of a category.                    *)
Spending(row, c) ==
    IF Live(row) /\ row.kind = "EXPENSE" /\ row.category = c THEN row.amount ELSE 0

Raised(old, new) == {c \in Categories : Spending(old, c) < Spending(new, c)}

(* The limits the user has been told of, once a row is written: its category *)
(* has the one asked for, and the one it has left has none.                  *)
Answered(old, wanted) ==
    [c \in Categories |-> IF c = wanted.category THEN wanted.limit
                          ELSE IF Live(old) /\ c = old.category THEN 0 ELSE asked[c]]

Starts(r, x) == req[r] = Idle /\ req' = [req EXCEPT ![r] = x]
Ends(r)      == req' = [req EXCEPT ![r] = Idle]

----------------------------------------------------------------------------
(* Categories and transactions.                                              *)

(* A name and kind the user already has is refused by the constraint.        *)
CreateCategory(c) ==
    /\ c \notin created
    /\ created' = created \cup {c}
    /\ UNCHANGED <<entry, budget, req, asked, crossed, unchecked>>

(* Mutant: any category takes any kind.                                      *)
FiledUnderAny(x) == Available(x.category)

(* get_available_by_id, and the check of the kind.                           *)
Filed(x) == Available(x.category) /\ x.kind = Kind[x.category]

(* Mutant: the handler asks for the category the transaction had before.     *)
CheckedBefore(old, x) ==
    IF x.kind = "EXPENSE" /\ Live(old) THEN {old.category} ELSE {}

(* The category whose limit the handler asks notify_budget_limit to check,   *)
(* once the transaction is committed.                                        *)
Checked(old, x) == IF x.kind = "EXPENSE" THEN {x.category} ELSE {}

(* The charge of a plan is inserted and checked in the same way.             *)
CreateTransaction(t, x) ==
    /\ entry[t] = Unused
    /\ Filed(x)
    /\ entry' = [entry EXCEPT ![t] = x]
    /\ unchecked' = (unchecked \cup Raised(Unused, x)) \ Checked(Unused, x)
    /\ UNCHANGED <<created, budget, req, asked, crossed>>

LoadTransaction(r, t, x) ==
    /\ Live(entry[t])
    /\ Filed(x)
    /\ Starts(r, [op |-> "update", row |-> t, read |-> entry[t], wanted |-> x])
    /\ UNCHANGED <<created, entry, budget, asked, crossed, unchecked>>

UpdateTransaction(r) ==
    /\ req[r].op = "update"
    /\ LET t      == req[r].row
           old    == entry[t]
           read   == req[r].read
           wanted == req[r].wanted
           new    == Written(old, read, wanted)
       IN  /\ ~Lost(old, read, wanted)
           /\ entry' = [entry EXCEPT ![t] = new]
           /\ crossed' = crossed \cup Crossing(old, read, wanted)
           /\ unchecked' = (unchecked \cup Raised(old, new)) \ Checked(read, wanted)
    /\ Ends(r)
    /\ UNCHANGED <<created, budget, asked>>

LoadToDelete(r, t) ==
    /\ Live(entry[t])
    /\ Starts(r, [op |-> "delete", row |-> t])
    /\ UNCHANGED <<created, entry, budget, asked, crossed, unchecked>>

(* Deleting a row that has gone by now is a warning in the log.              *)
DeleteTransaction(r) ==
    /\ req[r].op = "delete"
    /\ entry' = [entry EXCEPT ![req[r].row] = Gone]
    /\ Ends(r)
    /\ UNCHANGED <<created, budget, asked, crossed, unchecked>>

----------------------------------------------------------------------------
(* Budgets.                                                                  *)

LimitsOf(c) == {b \in Budgets : Live(budget[b]) /\ budget[b].category = c}

(* Mutant: nothing keeps a category from a second row.                       *)
SecondAllowed(b, c) == TRUE

(* uq_monthly_budgets_user_category, for row b.                              *)
UniqueIn(b, c) == LimitsOf(c) \subseteq {b}

CanLimit(c) == Available(c) /\ Kind[c] = "EXPENSE"

(* PUT /budgets/{category_id} looks for the category's row ...               *)
FindBudget(r, x) ==
    /\ CanLimit(x.category)
    /\ IF LimitsOf(x.category) = {}
       THEN Starts(r, [op |-> "insert", wanted |-> x])
       ELSE \E b \in LimitsOf(x.category) :
               Starts(r, [op |-> "limit", row |-> b, read |-> budget[b], wanted |-> x])
    /\ UNCHANGED <<created, entry, budget, asked, crossed, unchecked>>

(* ... and inserts one, unless somebody else has: the constraint then fails  *)
(* the request, as Fails has it.                                             *)
InsertBudget(r, b) ==
    /\ req[r].op = "insert"
    /\ budget[b] = Unused
    /\ UniqueIn(b, req[r].wanted.category)
    /\ budget' = [budget EXCEPT ![b] = req[r].wanted]
    /\ asked' = [asked EXCEPT ![req[r].wanted.category] = req[r].wanted.limit]
    /\ unchecked' = unchecked \ {req[r].wanted.category}
    /\ Ends(r)
    /\ UNCHANGED <<created, entry, crossed>>

(* PATCH /budgets/{budget_id} can move a limit to another category.          *)
LoadBudget(r, b, x) ==
    /\ Live(budget[b])
    /\ CanLimit(x.category)
    /\ Starts(r, [op |-> "limit", row |-> b, read |-> budget[b], wanted |-> x])
    /\ UNCHANGED <<created, entry, budget, asked, crossed, unchecked>>

(* Both commits.  A category that has another limit is refused.              *)
UpdateBudget(r) ==
    /\ req[r].op = "limit"
    /\ LET b      == req[r].row
           old    == budget[b]
           read   == req[r].read
           wanted == req[r].wanted
           new    == Written(old, read, wanted)
       IN  /\ ~Lost(old, read, wanted)
           /\ Live(new) => UniqueIn(b, new.category)
           /\ budget' = [budget EXCEPT ![b] = new]
           /\ asked' = Answered(old, wanted)
           /\ crossed' = crossed \cup Crossing(old, read, wanted)
           /\ unchecked' = (IF new = old THEN unchecked
                            ELSE unchecked \cup {new.category}) \ {wanted.category}
    /\ Ends(r)
    /\ UNCHANGED <<created, entry>>

LoadToRemove(r, b) ==
    /\ Live(budget[b])
    /\ Starts(r, [op |-> "remove", row |-> b, from |-> budget[b].category])
    /\ UNCHANGED <<created, entry, budget, asked, crossed, unchecked>>

(* Mutant: removing a limit sets it to nothing.                              *)
RemoveByZero(r) ==
    /\ req[r].op = "remove"
    /\ Live(budget[req[r].row])
    /\ budget' = [budget EXCEPT ![req[r].row].limit = 0]
    /\ asked' = [asked EXCEPT ![req[r].from] = 0]
    /\ Ends(r)
    /\ UNCHANGED <<created, entry, crossed, unchecked>>

(* DELETE /budgets/{category_id} deletes the row it found for the category,  *)
(* wherever that has moved.                                                  *)
RemoveBudget(r) ==
    /\ req[r].op = "remove"
    /\ LET b   == req[r].row
           c   == req[r].from
           now == budget[b]
       IN  /\ budget' = [budget EXCEPT ![b] = Gone]
           /\ asked' = [asked EXCEPT ![c] = 0]
           /\ crossed' = IF Live(now) /\ now.category = c THEN crossed
                         ELSE crossed \cup {c} \cup (IF Live(now) THEN {now.category} ELSE {})
    /\ Ends(r)
    /\ UNCHANGED <<created, entry, unchecked>>

(* A request fails before it commits: on a constraint, on a row that has     *)
(* gone, or with its process.                                                *)
Fails(r) ==
    /\ req[r] # Idle
    /\ Ends(r)
    /\ UNCHANGED <<created, entry, budget, asked, crossed, unchecked>>

----------------------------------------------------------------------------
Next ==
    \/ \E c \in Own : CreateCategory(c)
    \/ \E t \in Entries, x \in Entry : CreateTransaction(t, x)
    \/ \E r \in Requests :
          \/ \E t \in Entries : LoadToDelete(r, t) \/ \E x \in Entry : LoadTransaction(r, t, x)
          \/ UpdateTransaction(r) \/ DeleteTransaction(r)
          \/ \E x \in Budget : FindBudget(r, x) \/ \E b \in Budgets : LoadBudget(r, b, x)
          \/ \E b \in Budgets : InsertBudget(r, b) \/ LoadToRemove(r, b)
          \/ UpdateBudget(r) \/ RemoveBudget(r) \/ Fails(r)

Spec == Init /\ [][Next]_vars

----------------------------------------------------------------------------
(* Properties.                                                               *)

(* Income is filed under income and expenses under expenses, except in a     *)
(* category where two edits of one transaction have crossed: each was        *)
(* checked against the kind it asked for, and the row has a column of each.  *)
KindsAgree ==
    \A t \in Entries :
        Live(entry[t]) /\ entry[t].category \notin crossed => entry[t].kind = Kind[entry[t].category]

(* Whatever raises the spending of a category or changes its limit asks for  *)
(* that category to be checked, except an edit that came out in another      *)
(* category than the one it asked for.                                       *)
OverspendingIsChecked == unchecked \subseteq crossed

(* A category has the limit, and the one limit, that the last request about  *)
(* it was answered with, however PUT, PATCH and DELETE overlapped, unless    *)
(* two of them crossed on one row.                                           *)
AnsweredLimitsStand ==
    \A c \in Categories \ crossed :
        /\ {budget[b].limit : b \in LimitsOf(c)} = {asked[c]} \ {0}
        /\ \A a, b \in LimitsOf(c) : a = b
=============================================================================
