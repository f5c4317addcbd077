------------------------- MODULE LedgerEntriesProofs -------------------------
(* Theorems about LedgerEntries, for any categories, rows and number of      *)
(* requests that overlap.                                                    *)
EXTENDS LedgerEntries, TLAPS

----------------------------------------------------------------------------
(* Rows and what an UPDATE makes of them.                                     *)

LEMMA RowsAreLive ==
    /\ \A x \in Entry : Live(x)
    /\ \A x \in Budget : Live(x)
    /\ \A x \in Entry \cup {Unused, Gone} : Live(x) => x \in Entry
    /\ \A x \in Budget \cup {Unused, Gone} : Live(x) => x \in Budget
    /\ ~Live(Unused) /\ ~Live(Gone)
<1>1. \A x \in Entry : Live(x)
  <2> SUFFICES ASSUME NEW x \in Entry PROVE x # Unused /\ x # Gone
    BY DEF Live
  <2>1. "category" \in DOMAIN x /\ "category" \notin DOMAIN Unused /\ "category" \notin DOMAIN Gone
    BY DEF Entry, Unused, Gone
  <2> QED
    BY <2>1
<1>2. \A x \in Budget : Live(x)
  <2> SUFFICES ASSUME NEW x \in Budget PROVE x # Unused /\ x # Gone
    BY DEF Live
  <2>1. "category" \in DOMAIN x /\ "category" \notin DOMAIN Unused /\ "category" \notin DOMAIN Gone
    BY DEF Budget, Unused, Gone
  <2> QED
    BY <2>1
<1> QED
  BY <1>1, <1>2 DEF Live

LEMMA MergedEntry ==
    ASSUME NEW now \in Entry, NEW read \in Entry, NEW wanted \in Entry
    PROVE  Merge(now, read, wanted) \in Entry
<1>1. DOMAIN wanted = {"category", "kind", "amount"}
  BY DEF Entry
<1> DEFINE m == Merge(now, read, wanted)
<1>2. /\ m = [column \in {"category", "kind", "amount"} |-> m[column]]
      /\ m["category"] \in Categories /\ m["kind"] \in Kinds /\ m["amount"] \in Amounts
  BY <1>1 DEF Merge, Entry
<1> HIDE DEF m
<1>3. m \in Entry
  BY <1>2 DEF Entry
<1> QED
  BY <1>3 DEF m

LEMMA MergedBudget ==
    ASSUME NEW now \in Budget, NEW read \in Budget, NEW wanted \in Budget
    PROVE  Merge(now, read, wanted) \in Budget
<1>1. DOMAIN wanted = {"category", "limit"}
  BY DEF Budget
<1> DEFINE m == Merge(now, read, wanted)
<1>2. /\ m = [column \in {"category", "limit"} |-> m[column]]
      /\ m["category"] \in Categories /\ m["limit"] \in Limits
  BY <1>1 DEF Merge, Budget
<1> HIDE DEF m
<1>3. m \in Budget
  BY <1>2 DEF Budget
<1> QED
  BY <1>3 DEF m

LEMMA WrittenEntry ==
    ASSUME NEW now \in Entry \cup {Unused, Gone}, NEW read \in Entry, NEW wanted \in Entry
    PROVE  /\ Written(now, read, wanted) \in Entry \cup {Unused, Gone}
           /\ ~Live(now) => Written(now, read, wanted) = now
           /\ Live(now) => Written(now, read, wanted) \in Entry
<1>1. CASE Live(now)
  BY <1>1, RowsAreLive, MergedEntry DEF Written
<1>2. CASE ~Live(now)
  BY <1>2 DEF Written
<1> QED
  BY <1>1, <1>2

LEMMA WrittenBudget ==
    ASSUME NEW now \in Budget \cup {Unused, Gone}, NEW read \in Budget, NEW wanted \in Budget
    PROVE  /\ Written(now, read, wanted) \in Budget \cup {Unused, Gone}
           /\ ~Live(now) => Written(now, read, wanted) = now
           /\ Live(now) => Written(now, read, wanted) \in Budget
<1>1. CASE Live(now)
  BY <1>1, RowsAreLive, MergedBudget DEF Written
<1>2. CASE ~Live(now)
  BY <1>2 DEF Written
<1> QED
  BY <1>1, <1>2

(* The operations a request can be in the middle of.                          *)
LEMMA RequestFields ==
    ASSUME NEW x \in Request
    PROVE  /\ x.op = "update" => x.row \in Entries /\ x.read \in Entry /\ x.wanted \in Entry
           /\ x.op = "delete" => x.row \in Entries
           /\ x.op = "insert" => x.wanted \in Budget
           /\ x.op = "limit" => x.row \in Budgets /\ x.read \in Budget /\ x.wanted \in Budget
           /\ x.op = "remove" => x.row \in Budgets /\ x.from \in Categories
BY DEF Request, Idle

----------------------------------------------------------------------------
(* Types.                                                                     *)

LEMMA TypeInit == Init => TypeOK
BY DEF Init, TypeOK, Request

LEMMA CrossingType ==
    ASSUME NEW now, NEW read, NEW wanted,
           read.category \in Categories, wanted.category \in Categories,
           Live(now) => now.category \in Categories
                        /\ Written(now, read, wanted).category \in Categories
    PROVE  Crossing(now, read, wanted) \in SUBSET Categories
BY DEF Crossing

LEMMA TypeStep == TypeOK /\ [Next]_vars => TypeOK'
<1> SUFFICES ASSUME TypeOK, [Next]_vars PROVE TypeOK'
  OBVIOUS
<1>0. /\ \A r \in Requests : req[r] \in Request
      /\ \A t \in Entries : entry[t] \in Entry \cup {Unused, Gone}
      /\ \A b \in Budgets : budget[b] \in Budget \cup {Unused, Gone}
  BY DEF TypeOK
<1>1. ASSUME NEW r \in Requests, NEW x \in Request,
             UNCHANGED <<created, entry, budget, asked, crossed, unchecked>>, Starts(r, x)
      PROVE TypeOK'
  BY <1>1 DEF TypeOK, Starts
<1>2. ASSUME NEW r \in Requests, Ends(r) PROVE req' \in [Requests -> Request]
  BY <1>2 DEF TypeOK, Ends, Request
<1>3. ASSUME NEW c \in Own, CreateCategory(c) PROVE TypeOK'
  BY <1>3 DEF CreateCategory, TypeOK
<1>4. ASSUME NEW t \in Entries, NEW x \in Entry, CreateTransaction(t, x) PROVE TypeOK'
  <2>1. unchecked' \in SUBSET Categories
    BY <1>4 DEF CreateTransaction, TypeOK, Raised
  <2> QED
    BY <1>4, <2>1 DEF CreateTransaction, TypeOK
<1>5. ASSUME NEW r \in Requests, NEW t \in Entries, NEW x \in Entry, LoadTransaction(r, t, x)
      PROVE TypeOK'
  <2>1. [op |-> "update", row |-> t, read |-> entry[t], wanted |-> x] \in Request
    BY <1>0, <1>5, RowsAreLive DEF LoadTransaction, Request
  <2> QED
    BY <1>1, <1>5, <2>1 DEF LoadTransaction
<1>6. ASSUME NEW r \in Requests, UpdateTransaction(r) PROVE TypeOK'
  <2> DEFINE t == req[r].row
             old == entry[t]
             read == req[r].read
             wanted == req[r].wanted
             new == Written(old, read, wanted)
  <2>1. t \in Entries /\ read \in Entry /\ wanted \in Entry
    BY <1>0, <1>6, RequestFields DEF UpdateTransaction
  <2>2. /\ new \in Entry \cup {Unused, Gone}
        /\ Live(old) => new \in Entry /\ old \in Entry
    BY <1>0, <2>1, WrittenEntry, RowsAreLive
  <2>3. Crossing(old, read, wanted) \in SUBSET Categories
    BY <2>1, <2>2, CrossingType DEF Entry
  <2>4. /\ entry' = [entry EXCEPT ![t] = new]
        /\ crossed' = crossed \cup Crossing(old, read, wanted)
        /\ unchecked' = (unchecked \cup Raised(old, new)) \ Checked(read, wanted)
        /\ UNCHANGED <<created, budget, asked>>
    BY <1>6 DEF UpdateTransaction
  <2>5. req' \in [Requests -> Request]
    BY <1>2, <1>6 DEF UpdateTransaction
  <2>6. Raised(old, new) \in SUBSET Categories
    BY DEF Raised
  <2> HIDE DEF t, old, read, wanted, new
  <2> QED
    BY <2>1, <2>2, <2>3, <2>4, <2>5, <2>6 DEF TypeOK
<1>7. ASSUME NEW r \in Requests, NEW t \in Entries, LoadToDelete(r, t) PROVE TypeOK'
  <2>1. [op |-> "delete", row |-> t] \in Request
    BY DEF Request
  <2> QED
    BY <1>1, <1>7, <2>1 DEF LoadToDelete
<1>8. ASSUME NEW r \in Requests, DeleteTransaction(r) PROVE TypeOK'
  <2>1. entry' \in [Entries -> Entry \cup {Unused, Gone}]
    BY <1>8 DEF DeleteTransaction, TypeOK
  <2>2. req' \in [Requests -> Request]
    BY <1>2, <1>8 DEF DeleteTransaction
  <2> QED
    BY <1>8, <2>1, <2>2 DEF DeleteTransaction, TypeOK
<1>9. ASSUME NEW r \in Requests, NEW x \in Budget, FindBudget(r, x) PROVE TypeOK'
  <2>1. [op |-> "insert", wanted |-> x] \in Request
    BY DEF Request
  <2>2. \A b \in LimitsOf(x.category) :
           [op |-> "limit", row |-> b, read |-> budget[b], wanted |-> x] \in Request
    BY <1>0, RowsAreLive DEF LimitsOf, Request
  <2>3. CASE LimitsOf(x.category) = {}
    BY <1>1, <1>9, <2>1, <2>3 DEF FindBudget
  <2>4. CASE LimitsOf(x.category) # {}
    <3>1. PICK b \in LimitsOf(x.category) :
              Starts(r, [op |-> "limit", row |-> b, read |-> budget[b], wanted |-> x])
      BY <1>9, <2>4 DEF FindBudget
    <3> QED
      BY <1>1, <1>9, <2>2, <3>1 DEF FindBudget
  <2> QED
    BY <2>3, <2>4
<1>10. ASSUME NEW r \in Requests, NEW b \in Budgets, InsertBudget(r, b) PROVE TypeOK'
  <2>1. req[r].wanted \in Budget
    BY <1>0, <1>10, RequestFields DEF InsertBudget
  <2>2. budget' \in [Budgets -> Budget \cup {Unused, Gone}]
    BY <1>10, <2>1 DEF InsertBudget, TypeOK
  <2>3. asked' \in [Categories -> Limits \cup {0}]
    BY <1>10, <2>1 DEF InsertBudget, TypeOK, Budget
  <2>4. req' \in [Requests -> Request]
    BY <1>2, <1>10 DEF InsertBudget
  <2> QED
    BY <1>10, <2>2, <2>3, <2>4 DEF InsertBudget, TypeOK
<1>11. ASSUME NEW r \in Requests, NEW b \in Budgets, NEW x \in Budget, LoadBudget(r, b, x)
       PROVE TypeOK'
  <2>1. [op |-> "limit", row |-> b, read |-> budget[b], wanted |-> x] \in Request
    BY <1>0, <1>11, RowsAreLive DEF LoadBudget, Request
  <2> QED
    BY <1>1, <1>11, <2>1 DEF LoadBudget
<1>12. ASSUME NEW r \in Requests, UpdateBudget(r) PROVE TypeOK'
  <2> DEFINE b == req[r].row
             old == budget[b]
             read == req[r].read
             wanted == req[r].wanted
             new == Written(old, read, wanted)
  <2>1. b \in Budgets /\ read \in Budget /\ wanted \in Budget
    BY <1>0, <1>12, RequestFields DEF UpdateBudget
  <2>2. /\ new \in Budget \cup {Unused, Gone}
        /\ Live(old) => new \in Budget /\ old \in Budget
        /\ ~Live(old) => new = old
    BY <1>0, <2>1, WrittenBudget, RowsAreLive
  <2>3. Crossing(old, read, wanted) \in SUBSET Categories
    BY <2>1, <2>2, CrossingType DEF Budget
  <2>4. /\ budget' = [budget EXCEPT ![b] = new]
        /\ crossed' = crossed \cup Crossing(old, read, wanted)
        /\ unchecked' = (IF new = old THEN unchecked
                         ELSE unchecked \cup {new.category}) \ {wanted.category}
        /\ asked' = Answered(old, wanted)
        /\ UNCHANGED <<created, entry>>
    BY <1>12 DEF UpdateBudget
  <2>5. req' \in [Requests -> Request]
    BY <1>2, <1>12 DEF UpdateBudget
  <2>6. Answered(old, wanted) \in [Categories -> Limits \cup {0}]
    BY <2>1 DEF Answered, TypeOK, Budget
  <2>7. new # old => new.category \in Categories
    BY <2>2 DEF Budget
  <2> HIDE DEF b, old, read, wanted, new
  <2>8. unchecked' \in SUBSET Categories
    BY <2>4, <2>7 DEF TypeOK
  <2> QED
    BY <2>1, <2>2, <2>3, <2>4, <2>5, <2>6, <2>8 DEF TypeOK
<1>13. ASSUME NEW r \in Requests, NEW b \in Budgets, LoadToRemove(r, b) PROVE TypeOK'
  <2>1. budget[b].category \in Categories
    BY <1>0, <1>13, RowsAreLive DEF LoadToRemove, Budget
  <2>2. [op |-> "remove", row |-> b, from |-> budget[b].category] \in Request
    BY <2>1 DEF Request
  <2> QED
    BY <1>1, <1>13, <2>2 DEF LoadToRemove
<1>14. ASSUME NEW r \in Requests, RemoveBudget(r) PROVE TypeOK'
  <2>1. req[r].row \in Budgets /\ req[r].from \in Categories
    BY <1>0, <1>14, RequestFields DEF RemoveBudget
  <2>2. Live(budget[req[r].row]) => budget[req[r].row].category \in Categories
    BY <1>0, <2>1, RowsAreLive DEF Budget
  <2>3. crossed' \in SUBSET Categories
    BY <1>14, <2>1, <2>2 DEF RemoveBudget, TypeOK
  <2>4. budget' \in [Budgets -> Budget \cup {Unused, Gone}]
    BY <1>14 DEF RemoveBudget, TypeOK
  <2>5. asked' \in [Categories -> Limits \cup {0}]
    BY <1>14 DEF RemoveBudget, TypeOK
  <2>6. req' \in [Requests -> Request]
    BY <1>2, <1>14 DEF RemoveBudget
  <2> QED
    BY <1>14, <2>3, <2>4, <2>5, <2>6 DEF RemoveBudget, TypeOK
<1>15. ASSUME NEW r \in Requests, Fails(r) PROVE TypeOK'
  <2>1. req' \in [Requests -> Request]
    BY <1>2, <1>15 DEF Fails
  <2> QED
    BY <1>15, <2>1 DEF Fails, TypeOK
<1>16. CASE UNCHANGED vars
  BY <1>16 DEF vars, TypeOK
<1> QED
  BY <1>3, <1>4, <1>5, <1>6, <1>7, <1>8, <1>9, <1>10, <1>11, <1>12, <1>13, <1>14, <1>15, <1>16
     DEF Next

(* Every state has its type.                                                  *)
THEOREM TypeCorrect == Spec => []TypeOK
BY TypeInit, TypeStep, PTL DEF Spec

----------------------------------------------------------------------------
(* What a row holds, and what its request was answered, differ only in the    *)
(* categories the write is said to cross.                                     *)

LEMMA CrossedOrWanted ==
    ASSUME NEW now, NEW read, NEW wanted
    PROVE  \/ Written(now, read, wanted) = wanted
           \/ /\ {read.category, wanted.category} \subseteq Crossing(now, read, wanted)
              /\ Live(now) => /\ now.category \in Crossing(now, read, wanted)
                              /\ Written(now, read, wanted).category \in Crossing(now, read, wanted)
BY DEF Crossing

(* Spending goes up in the category of the new row, if anywhere, and only if  *)
(* that is an expense.                                                        *)
LEMMA RaisedWhere ==
    ASSUME NEW old \in Entry \cup {Unused, Gone}, NEW new \in Entry \cup {Unused, Gone},
           NEW c \in Raised(old, new)
    PROVE  Live(new) /\ new.kind = "EXPENSE" /\ c = new.category
<1>1. \A x \in Entry : x.amount \in Nat
  BY AmountsAssumption DEF Entry
<1>2. Spending(old, c) \in Nat /\ Spending(new, c) \in Nat
  <2>1. (Live(old) => old.amount \in Nat) /\ (Live(new) => new.amount \in Nat)
    BY <1>1, RowsAreLive
  <2> QED
    BY <2>1 DEF Spending
<1>3. Spending(old, c) < Spending(new, c)
  BY DEF Raised
<1>4. Spending(new, c) # 0
  BY <1>2, <1>3
<1> QED
  BY <1>4 DEF Spending

----------------------------------------------------------------------------
(* The kind of a transaction is its category's.                               *)
KindsInv ==
    /\ KindsAgree
    /\ \A r \in Requests : req[r].op = "update" =>
          req[r].wanted.kind = Kind[req[r].wanted.category]

LEMMA KindsInit == Init => KindsInv
BY RowsAreLive DEF Init, KindsInv, KindsAgree, Idle

(* One request moves on, and no transaction is written.                       *)
LEMMA KindsKept ==
    ASSUME TypeOK, KindsInv, NEW r \in Requests, NEW x,
           req' = [req EXCEPT ![r] = x], entry' = entry, crossed \subseteq crossed',
           x.op = "update" => x.wanted.kind = Kind[x.wanted.category]
    PROVE  KindsInv'
<1>1. \A q \in Requests : req'[q] = IF q = r THEN x ELSE req[q]
  BY DEF TypeOK
<1> QED
  BY <1>1 DEF KindsInv, KindsAgree

LEMMA KindsStep == TypeOK /\ KindsInv /\ [Next]_vars => KindsInv'
<1> SUFFICES ASSUME TypeOK, KindsInv, [Next]_vars PROVE KindsInv'
  OBVIOUS
<1>0. /\ \A r \in Requests : req[r] \in Request
      /\ \A t \in Entries : entry[t] \in Entry \cup {Unused, Gone}
  BY DEF TypeOK
<1>1. ASSUME NEW c \in Own, CreateCategory(c) PROVE KindsInv'
  BY <1>1 DEF CreateCategory, KindsInv, KindsAgree
<1>2. ASSUME NEW t \in Entries, NEW x \in Entry, CreateTransaction(t, x) PROVE KindsInv'
  <2>1. \A u \in Entries : entry'[u] = IF u = t THEN x ELSE entry[u]
    BY <1>2 DEF CreateTransaction, TypeOK
  <2>2. x.kind = Kind[x.category] /\ crossed' = crossed /\ req' = req
    BY <1>2 DEF CreateTransaction, Filed
  <2> QED
    BY <2>1, <2>2 DEF KindsInv, KindsAgree
<1>3. ASSUME NEW r \in Requests, NEW t \in Entries, NEW x \in Entry, LoadTransaction(r, t, x)
      PROVE KindsInv'
  <2> DEFINE y == [op |-> "update", row |-> t, read |-> entry[t], wanted |-> x]
  <2>1. y.wanted.kind = Kind[y.wanted.category]
    BY <1>3 DEF LoadTransaction, Filed
  <2>2. req' = [req EXCEPT ![r] = y] /\ entry' = entry /\ crossed' = crossed
    BY <1>3 DEF LoadTransaction, Starts
  <2> HIDE DEF y
  <2> QED
    BY <2>1, <2>2, KindsKept
<1>4. ASSUME NEW r \in Requests, UpdateTransaction(r) PROVE KindsInv'
  <2> DEFINE t == req[r].row
             old == entry[t]
             read == req[r].read
             wanted == req[r].wanted
             new == Written(old, read, wanted)
  <2>1. t \in Entries /\ read \in Entry /\ wanted \in Entry
    BY <1>0, <1>4, RequestFields DEF UpdateTransaction
  <2>2. wanted.kind = Kind[wanted.category]
    BY <1>4 DEF UpdateTransaction, KindsInv
  <2>3. ~Live(old) => new = old
    BY <1>0, <2>1, WrittenEntry
  <2>4. \A u \in Entries : entry'[u] = IF u = t THEN new ELSE entry[u]
    BY <1>4 DEF UpdateTransaction, TypeOK
  <2>5. crossed' = crossed \cup Crossing(old, read, wanted)
    BY <1>4 DEF UpdateTransaction
  <2>6. \A q \in Requests : req'[q] = IF q = r THEN Idle ELSE req[q]
    BY <1>4 DEF UpdateTransaction, Ends, TypeOK
  <2>7. new = wanted \/ (Live(old) => new.category \in crossed')
    BY <2>5, CrossedOrWanted
  <2>8. Live(new) /\ new.category \notin crossed' => new.kind = Kind[new.category]
    BY <2>2, <2>3, <2>7
  <2> HIDE DEF t, old, read, wanted, new
  <2>9. KindsAgree'
    BY <2>4, <2>5, <2>8 DEF KindsInv, KindsAgree
  <2> QED
    BY <2>6, <2>9 DEF KindsInv, Idle
<1>5. ASSUME NEW r \in Requests, DeleteTransaction(r) PROVE KindsInv'
  <2>1. \A u \in Entries : entry'[u] = entry[u] \/ entry'[u] = Gone
    BY <1>5 DEF DeleteTransaction, TypeOK
  <2>2. \A q \in Requests : req'[q] = req[q] \/ req'[q] = Idle
    BY <1>5 DEF DeleteTransaction, Ends, TypeOK
  <2>3. crossed' = crossed
    BY <1>5 DEF DeleteTransaction
  <2> QED
    BY <2>1, <2>2, <2>3, RowsAreLive DEF KindsInv, KindsAgree, Idle
<1>6. ASSUME NEW r \in Requests,
             \/ (\E t \in Entries : LoadToDelete(r, t))
             \/ (\E x \in Budget : FindBudget(r, x) \/ \E b \in Budgets : LoadBudget(r, b, x))
             \/ (\E b \in Budgets : InsertBudget(r, b) \/ LoadToRemove(r, b))
             \/ UpdateBudget(r) \/ RemoveBudget(r) \/ Fails(r)
      PROVE KindsInv'
  <2>1. entry' = entry /\ crossed \subseteq crossed'
    BY <1>6 DEF LoadToDelete, FindBudget, LoadBudget, InsertBudget, LoadToRemove, UpdateBudget,
                RemoveBudget, Fails
  <2>2. \E x : req' = [req EXCEPT ![r] = x] /\ x.op # "update"
    BY <1>6 DEF LoadToDelete, FindBudget, LoadBudget, InsertBudget, LoadToRemove, UpdateBudget,
                RemoveBudget, Fails, Starts, Ends, Idle
  <2> QED
    BY <2>1, <2>2, KindsKept
<1>7. CASE UNCHANGED vars
  BY <1>7 DEF vars, KindsInv, KindsAgree
<1> QED
  BY <1>1, <1>2, <1>3, <1>4, <1>5, <1>6, <1>7 DEF Next

(* A transaction has its category's kind, unless two edits crossed on it.     *)
THEOREM KindsCorrect == Spec => []KindsAgree
<1>1. Init => TypeOK /\ KindsInv
  BY TypeInit, KindsInit
<1>2. TypeOK /\ KindsInv /\ [Next]_vars => (TypeOK /\ KindsInv)'
  BY TypeStep, KindsStep
<1>3. KindsInv => KindsAgree
  BY DEF KindsInv
<1> QED
  BY <1>1, <1>2, <1>3, PTL DEF Spec

----------------------------------------------------------------------------
(* Whoever raises spending, or writes a limit, asks for a check of it.        *)

LEMMA UncheckedStep == TypeOK /\ OverspendingIsChecked /\ [Next]_vars => OverspendingIsChecked'
<1> SUFFICES ASSUME TypeOK, OverspendingIsChecked, [Next]_vars PROVE OverspendingIsChecked'
  OBVIOUS
<1> USE DEF OverspendingIsChecked
<1>0. /\ \A r \in Requests : req[r] \in Request
      /\ \A t \in Entries : entry[t] \in Entry \cup {Unused, Gone}
      /\ \A b \in Budgets : budget[b] \in Budget \cup {Unused, Gone}
  BY DEF TypeOK
<1>1. ASSUME NEW t \in Entries, NEW x \in Entry, CreateTransaction(t, x)
      PROVE OverspendingIsChecked'
  <2>1. \A c \in Raised(Unused, x) : c \in Checked(Unused, x)
    BY RaisedWhere DEF Checked
  <2> QED
    BY <1>1, <2>1 DEF CreateTransaction
<1>2. ASSUME NEW r \in Requests, UpdateTransaction(r) PROVE OverspendingIsChecked'
  <2> DEFINE old == entry[req[r].row]
             read == req[r].read
             wanted == req[r].wanted
             new == Written(old, read, wanted)
  <2>1. old \in Entry \cup {Unused, Gone} /\ read \in Entry /\ wanted \in Entry
    BY <1>0, <1>2, RequestFields DEF UpdateTransaction
  <2>2. /\ new \in Entry \cup {Unused, Gone}
        /\ ~Live(old) => new = old
    BY <2>1, WrittenEntry
  <2>3. /\ crossed' = crossed \cup Crossing(old, read, wanted)
        /\ unchecked' = (unchecked \cup Raised(old, new)) \ Checked(read, wanted)
    BY <1>2 DEF UpdateTransaction
  <2>4. new = wanted \/ (Live(old) => new.category \in Crossing(old, read, wanted))
    BY CrossedOrWanted
  <2> HIDE DEF old, read, wanted, new
  <2>5. ASSUME NEW c \in Raised(old, new) PROVE c \in Checked(read, wanted) \/ c \in crossed'
    <3>1. Live(new) /\ new.kind = "EXPENSE" /\ c = new.category
      BY <2>1, <2>2, RaisedWhere
    <3> QED
      BY <2>2, <2>3, <2>4, <3>1 DEF Checked
  <2> QED
    BY <2>3, <2>5
<1>3. ASSUME NEW r \in Requests, UpdateBudget(r) PROVE OverspendingIsChecked'
  <2> DEFINE old == budget[req[r].row]
             read == req[r].read
             wanted == req[r].wanted
             new == Written(old, read, wanted)
  <2>1. old \in Budget \cup {Unused, Gone} /\ read \in Budget /\ wanted \in Budget
    BY <1>0, <1>3, RequestFields DEF UpdateBudget
  <2>2. ~Live(old) => new = old
    BY <2>1, WrittenBudget
  <2>3. /\ crossed' = crossed \cup Crossing(old, read, wanted)
        /\ unchecked' = (IF new = old THEN unchecked
                         ELSE unchecked \cup {new.category}) \ {wanted.category}
    BY <1>3 DEF UpdateBudget
  <2>4. new = wanted \/ (Live(old) => new.category \in Crossing(old, read, wanted))
    BY CrossedOrWanted
  <2> HIDE DEF old, read, wanted, new
  <2> QED
    BY <2>2, <2>3, <2>4
<1>4. ASSUME NEW r \in Requests, NEW b \in Budgets, InsertBudget(r, b)
      PROVE OverspendingIsChecked'
  BY <1>4 DEF InsertBudget
<1>5. ASSUME NEW r \in Requests, RemoveBudget(r) PROVE OverspendingIsChecked'
  BY <1>5 DEF RemoveBudget
<1>6. ASSUME NEW r \in Requests, NEW t \in Entries,
             LoadToDelete(r, t) \/ \E x \in Entry : LoadTransaction(r, t, x)
      PROVE OverspendingIsChecked'
  BY <1>6 DEF LoadToDelete, LoadTransaction
<1>7. ASSUME NEW r \in Requests,
             DeleteTransaction(r) \/ Fails(r) \/ \E b \in Budgets : LoadToRemove(r, b)
      PROVE OverspendingIsChecked'
  BY <1>7 DEF DeleteTransaction, Fails, LoadToRemove
<1>8. ASSUME NEW r \in Requests, NEW x \in Budget,
             FindBudget(r, x) \/ \E b \in Budgets : LoadBudget(r, b, x)
      PROVE OverspendingIsChecked'
  BY <1>8 DEF FindBudget, LoadBudget
<1>9. CASE (\E c \in Own : CreateCategory(c)) \/ UNCHANGED vars
  BY <1>9 DEF CreateCategory, vars
<1> QED
  BY <1>1, <1>2, <1>3, <1>4, <1>5, <1>6, <1>7, <1>8, <1>9 DEF Next

(* No overspending goes unchecked but where two requests crossed.             *)
THEOREM ChecksCorrect == Spec => []OverspendingIsChecked
<1>1. Init => TypeOK /\ OverspendingIsChecked
  BY TypeInit DEF Init, OverspendingIsChecked
<1>2. TypeOK /\ OverspendingIsChecked /\ [Next]_vars => (TypeOK /\ OverspendingIsChecked)'
  BY TypeStep, UncheckedStep
<1> QED
  BY <1>1, <1>2, PTL DEF Spec

----------------------------------------------------------------------------
(* Limits.  No category ever has two rows, crossed or not, and a row whose    *)
(* category nobody crossed in has the limit that was answered.                *)
Limit(rows, b, c) == Live(rows[b]) /\ rows[b].category = c

OneLimit(rows) ==
    \A a, b \in Budgets, c \in Categories : Limit(rows, a, c) /\ Limit(rows, b, c) => a = b

Stands(rows, c, limit) ==
    /\ \A b \in Budgets : Limit(rows, b, c) => rows[b].limit = limit
    /\ limit # 0 => \E b \in Budgets : Limit(rows, b, c)

LimitsInv ==
    /\ OneLimit(budget)
    /\ \A c \in Categories \ crossed : Stands(budget, c, asked[c])

LEMMA LimitsInit == Init => LimitsInv
BY RowsAreLive DEF Init, LimitsInv, OneLimit, Stands, Limit

(* A category that the written row neither leaves nor enters is as it was.    *)
LEMMA StandsElsewhere ==
    ASSUME NEW rows, NEW b \in Budgets, NEW x, NEW c, NEW limit,
           rows \in [Budgets -> Budget \cup {Unused, Gone}],
           Live(rows[b]) => rows[b].category # c,
           Live(x) => x.category # c,
           Stands(rows, c, limit)
    PROVE  Stands([rows EXCEPT ![b] = x], c, limit)
BY DEF Stands, Limit

(* The category the row enters has that row and no other.                     *)
LEMMA StandsHere ==
    ASSUME NEW rows, NEW b \in Budgets, NEW x, NEW c,
           rows \in [Budgets -> Budget \cup {Unused, Gone}],
           Live(x), x.category = c,
           \A a \in Budgets : Limit(rows, a, c) => a = b
    PROVE  Stands([rows EXCEPT ![b] = x], c, x.limit)
BY DEF Stands, Limit

(* The category the row leaves has none.                                      *)
LEMMA StandsLeft ==
    ASSUME NEW rows, NEW b \in Budgets, NEW x, NEW c \in Categories,
           rows \in [Budgets -> Budget \cup {Unused, Gone}],
           OneLimit(rows), Limit(rows, b, c), Live(x) => x.category # c
    PROVE  Stands([rows EXCEPT ![b] = x], c, 0)
BY DEF Stands, Limit, OneLimit

LEMMA OneLimitKept ==
    ASSUME NEW rows, NEW b \in Budgets, NEW x, OneLimit(rows),
           rows \in [Budgets -> Budget \cup {Unused, Gone}],
           Live(x) => \A a \in Budgets : Limit(rows, a, x.category) => a = b
    PROVE  OneLimit([rows EXCEPT ![b] = x])
BY DEF OneLimit, Limit

LEMMA LimitsStep == TypeOK /\ LimitsInv /\ [Next]_vars => LimitsInv'
<1> SUFFICES ASSUME TypeOK, LimitsInv, [Next]_vars PROVE LimitsInv'
  OBVIOUS
<1>0. /\ \A r \in Requests : req[r] \in Request
      /\ \A b \in Budgets : budget[b] \in Budget \cup {Unused, Gone}
      /\ budget \in [Budgets -> Budget \cup {Unused, Gone}]
  BY DEF TypeOK
<1>1. ASSUME NEW r \in Requests, NEW b \in Budgets, InsertBudget(r, b) PROVE LimitsInv'
  <2> DEFINE x == req[r].wanted
  <2>1. x \in Budget /\ Live(x) /\ ~Live(budget[b])
    BY <1>0, <1>1, RequestFields, RowsAreLive DEF InsertBudget
  <2>2. /\ budget' = [budget EXCEPT ![b] = x] /\ crossed' = crossed
        /\ asked' = [asked EXCEPT ![x.category] = x.limit]
        /\ \A a \in Budgets : ~Limit(budget, a, x.category)
    BY <1>1, <2>1 DEF InsertBudget, UniqueIn, LimitsOf, Limit
  <2> HIDE DEF x
  <2>3. OneLimit(budget')
    BY <1>0, <2>1, <2>2, OneLimitKept DEF LimitsInv
  <2>4. ASSUME NEW c \in Categories \ crossed' PROVE Stands(budget', c, asked'[c])
    <3>1. CASE c = x.category
      <4>1. asked'[c] = x.limit
        BY <2>2, <3>1 DEF TypeOK
      <4>2. Stands(budget', c, x.limit)
        BY <1>0, <2>1, <2>2, <3>1, StandsHere
      <4> QED
        BY <4>1, <4>2
    <3>2. CASE c # x.category
      <4>1. asked'[c] = asked[c] /\ Stands(budget, c, asked[c])
        BY <2>2, <3>2 DEF TypeOK, LimitsInv
      <4>2. Stands(budget', c, asked[c])
        BY <1>0, <2>1, <2>2, <3>2, <4>1, StandsElsewhere
      <4> QED
        BY <4>1, <4>2
    <3> QED
      BY <3>1, <3>2
  <2> QED
    BY <2>3, <2>4 DEF LimitsInv
<1>2. ASSUME NEW r \in Requests, UpdateBudget(r) PROVE LimitsInv'
  <2> DEFINE b == req[r].row
             old == budget[b]
             read == req[r].read
             wanted == req[r].wanted
             new == Written(old, read, wanted)
  <2>1. b \in Budgets /\ read \in Budget /\ wanted \in Budget
    BY <1>0, <1>2, RequestFields DEF UpdateBudget
  <2>2. /\ ~Live(old) => new = old
        /\ Live(old) => new \in Budget /\ Live(new)
    BY <1>0, <2>1, WrittenBudget, RowsAreLive
  <2>3. /\ budget' = [budget EXCEPT ![b] = new]
        /\ crossed' = crossed \cup Crossing(old, read, wanted)
        /\ asked' = Answered(old, wanted)
        /\ Live(new) => \A a \in Budgets : Limit(budget, a, new.category) => a = b
    BY <1>2 DEF UpdateBudget, UniqueIn, LimitsOf, Limit
  <2>4. \/ new = wanted /\ Live(new)
        \/ /\ read.category \in crossed' /\ wanted.category \in crossed'
           /\ Live(old) => old.category \in crossed' /\ new.category \in crossed'
    BY <2>1, <2>3, CrossedOrWanted, RowsAreLive
  <2>5. old = budget[b]
    OBVIOUS
  <2> HIDE DEF b, old, read, wanted, new
  <2>6. OneLimit(budget')
    BY <1>0, <2>1, <2>3, OneLimitKept DEF LimitsInv
  <2>7. ASSUME NEW c \in Categories \ crossed' PROVE Stands(budget', c, asked'[c])
    <3>0. Stands(budget, c, asked[c])
      BY <2>3 DEF LimitsInv
    <3>1. CASE c = wanted.category
      <4>1. new = wanted /\ Live(new) /\ asked'[c] = wanted.limit
        BY <2>3, <2>4, <3>1 DEF Answered
      <4>2. Stands(budget', c, new.limit)
        BY <1>0, <2>1, <2>3, <3>1, <4>1, StandsHere
      <4> QED
        BY <4>1, <4>2
    <3>2. CASE c # wanted.category /\ Live(old) /\ c = old.category
      <4>1. new = wanted /\ Live(new) /\ asked'[c] = 0
        BY <2>3, <2>4, <3>2 DEF Answered
      <4>2. Limit(budget, b, c)
        BY <2>5, <3>2 DEF Limit
      <4>3. Stands(budget', c, 0)
        BY <1>0, <2>1, <2>3, <3>2, <4>1, <4>2, StandsLeft DEF LimitsInv
      <4> QED
        BY <4>1, <4>3
    <3>3. CASE c # wanted.category /\ ~(Live(old) /\ c = old.category)
      <4>1. asked'[c] = asked[c]
        BY <2>3, <3>3 DEF Answered
      <4>2. Live(new) => new.category # c
        BY <2>2, <2>4, <3>3
      <4>3. Stands(budget', c, asked[c])
        BY <1>0, <2>1, <2>3, <2>5, <3>0, <3>3, <4>2, StandsElsewhere
      <4> QED
        BY <4>1, <4>3
    <3> QED
      BY <3>1, <3>2, <3>3
  <2> QED
    BY <2>6, <2>7 DEF LimitsInv
<1>3. ASSUME NEW r \in Requests, RemoveBudget(r) PROVE LimitsInv'
  <2> DEFINE b == req[r].row
             f == req[r].from
             now == budget[b]
  <2>1. b \in Budgets /\ f \in Categories
    BY <1>0, <1>3, RequestFields DEF RemoveBudget
  <2>2. /\ budget' = [budget EXCEPT ![b] = Gone]
        /\ asked' = [asked EXCEPT ![f] = 0]
        /\ crossed \subseteq crossed'
        /\ Limit(budget, b, f) \/ f \in crossed'
        /\ Live(now) => now.category = f \/ now.category \in crossed'
    BY <1>3 DEF RemoveBudget, Limit
  <2>3. now = budget[b]
    OBVIOUS
  <2> HIDE DEF b, f, now
  <2>4. ~Live(Gone)
    BY RowsAreLive
  <2>5. OneLimit(budget')
    BY <1>0, <2>1, <2>2, <2>4, OneLimitKept DEF LimitsInv
  <2>6. ASSUME NEW c \in Categories \ crossed' PROVE Stands(budget', c, asked'[c])
    <3>1. CASE c = f
      <4>1. asked'[c] = 0 /\ Limit(budget, b, c)
        BY <2>2, <3>1 DEF TypeOK
      <4>2. Stands(budget', c, 0)
        BY <1>0, <2>1, <2>2, <2>4, <4>1, StandsLeft DEF LimitsInv
      <4> QED
        BY <4>1, <4>2
    <3>2. CASE c # f
      <4>1. asked'[c] = asked[c] /\ Stands(budget, c, asked[c])
        BY <2>2, <3>2 DEF TypeOK, LimitsInv
      <4>2. Live(budget[b]) => budget[b].category # c
        BY <2>2, <2>3, <3>2
      <4>3. Stands(budget', c, asked[c])
        BY <1>0, <2>1, <2>2, <2>4, <4>1, <4>2, StandsElsewhere
      <4> QED
        BY <4>1, <4>3
    <3> QED
      BY <3>1, <3>2
  <2> QED
    BY <2>5, <2>6 DEF LimitsInv
<1>4. ASSUME UNCHANGED <<budget, asked>>, crossed \subseteq crossed' PROVE LimitsInv'
  BY <1>4 DEF LimitsInv
<1>5. ASSUME NEW r \in Requests, UpdateTransaction(r) \/ DeleteTransaction(r) PROVE LimitsInv'
  <2>1. UNCHANGED <<budget, asked>> /\ crossed \subseteq crossed'
    BY <1>5 DEF UpdateTransaction, DeleteTransaction
  <2> QED
    BY <1>4, <2>1
<1>6. ASSUME NEW r \in Requests, NEW t \in Entries,
             LoadToDelete(r, t) \/ \E x \in Entry : LoadTransaction(r, t, x)
      PROVE LimitsInv'
  BY <1>4, <1>6 DEF LoadToDelete, LoadTransaction
<1>7. ASSUME NEW r \in Requests,
             Fails(r) \/ \E b \in Budgets : LoadToRemove(r, b)
      PROVE LimitsInv'
  BY <1>4, <1>7 DEF Fails, LoadToRemove
<1>8. ASSUME NEW r \in Requests, NEW x \in Budget,
             FindBudget(r, x) \/ \E b \in Budgets : LoadBudget(r, b, x)
      PROVE LimitsInv'
  BY <1>4, <1>8 DEF FindBudget, LoadBudget
<1>9. ASSUME NEW t \in Entries, NEW x \in Entry, CreateTransaction(t, x) PROVE LimitsInv'
  BY <1>4, <1>9 DEF CreateTransaction
<1>10. CASE (\E c \in Own : CreateCategory(c)) \/ UNCHANGED vars
  BY <1>4, <1>10 DEF CreateCategory, vars
<1> QED
  BY <1>1, <1>2, <1>3, <1>5, <1>6, <1>7, <1>8, <1>9, <1>10 DEF Next

LEMMA LimitsMean == TypeOK /\ LimitsInv => AnsweredLimitsStand
<1> SUFFICES ASSUME TypeOK, LimitsInv, NEW c \in Categories \ crossed
    PROVE  /\ {budget[b].limit : b \in LimitsOf(c)} = {asked[c]} \ {0}
           /\ \A a, b \in LimitsOf(c) : a = b
  BY DEF AnsweredLimitsStand
<1>1. \A b \in LimitsOf(c) : budget[b].limit = asked[c] /\ budget[b].limit # 0
  BY RowsAreLive, AmountsAssumption DEF LimitsOf, LimitsInv, Stands, Limit, TypeOK, Budget
<1>2. asked[c] # 0 => LimitsOf(c) # {}
  BY DEF LimitsOf, LimitsInv, Stands, Limit
<1>3. \A a, b \in LimitsOf(c) : a = b
  BY DEF LimitsOf, LimitsInv, OneLimit, Limit
<1> QED
  BY <1>1, <1>2, <1>3

(* The limit a request was answered with is the one in force, unless two      *)
(* requests crossed on it.                                                    *)
THEOREM LimitsCorrect == Spec => []AnsweredLimitsStand
<1>1. Init => TypeOK /\ LimitsInv
  BY TypeInit, LimitsInit
<1>2. TypeOK /\ LimitsInv /\ [Next]_vars => (TypeOK /\ LimitsInv)'
  BY TypeStep, LimitsStep
<1> QED
  BY <1>1, <1>2, LimitsMean, PTL DEF Spec
=============================================================================
