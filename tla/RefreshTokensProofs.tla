------------------------ MODULE RefreshTokensProofs ------------------------
(* Theorems about RefreshTokens and AccessTokens, for any number of tokens,  *)
(* requests, password changes and seconds.                                   *)
EXTENDS AccessTokens, TLAPS

(* A thread that is about to hand out a token refers to a row of the table,  *)
(* and a row's session is named after a row that is there.                   *)
HandedOutExists == \A r \in Requests :
    request[r].pc \in {"answering", "refreshing"} =>
        request[r].token \in Tokens /\ row[request[r].token] # Absent

RootsExist == \A t \in Tokens : row[t] # Absent => row[row[t].root] # Absent

TypeInv == TypeOK /\ HandedOutExists

LEMMA PresentRow ==
    ASSUME TypeOK, NEW t \in Tokens, row[t].status # "absent" PROVE row[t] \in Row
BY DEF TypeOK, Absent

LEMMA AbsentRow ==
    ASSUME TypeOK, NEW t \in Tokens, row[t] # Absent PROVE row[t] \in Row /\ row[t].status # "absent"
BY DEF TypeOK, Row

LEMMA HeldRow ==
    ASSUME TypeOK, NEW t \in Tokens, row[t].held PROVE row[t] \in Row
BY DEF TypeOK, Absent

LEMMA ReplacementRow ==
    ASSUME TypeOK, NEW t \in Tokens, row[t] \in Row PROVE Replacement(t) \in Row
BY DEF TypeOK, Row, Replacement, RotationLateness

LEMMA TypeStep == TypeInv /\ [Next]_vars => TypeInv'
<1> SUFFICES ASSUME TypeInv, [Next]_vars PROVE TypeInv'
  OBVIOUS
<1> USE DEF TypeInv
<1>1. ASSUME NEW r \in Requests, LoginVerify(r) PROVE TypeInv'
  BY <1>1 DEF LoginVerify, TypeOK, Request, HandedOutExists
<1>2. ASSUME NEW r \in Requests, NEW t \in Tokens, IssueSession(r, t) PROVE TypeInv'
  <2>1. row'[t] \in Row /\ row'[t].status # "absent"
    BY <1>2 DEF IssueSession, TypeOK, Row, Request
  <2>2. TypeOK'
    <3>1. row' \in [Tokens -> Row \cup {Absent}]
      BY <1>2, <2>1 DEF IssueSession, TypeOK
    <3>2. request' \in [Requests -> Request]
      <4>1. request'[r] \in Request
        <5>1. request[r] \in Request /\ password + 1 \in Nat
          BY DEF TypeOK
        <5> QED
          BY <1>2, <5>1 DEF IssueSession, TypeOK, Request
      <4> QED
        BY <1>2, <4>1 DEF IssueSession, TypeOK
    <3> QED
      BY <1>2, <3>1, <3>2 DEF IssueSession, TypeOK
  <2>3. row'[t] # Absent
    BY <2>1 DEF Absent
  <2> QED
    BY <1>2, <2>2, <2>3 DEF IssueSession, HandedOutExists, TypeOK, Request
<1>3. ASSUME NEW r \in Requests, Answer(r) PROVE TypeInv'
  <2> DEFINE t == request[r].token
  <2>1. t \in Tokens /\ row[t] # Absent
    BY <1>3 DEF Answer, HandedOutExists
  <2>2. row[t] \in Row /\ row[t].status # "absent"
    BY <2>1, AbsentRow
  <2>3. row'[t] \in Row /\ row'[t].status # "absent"
    BY <1>3, <2>1, <2>2 DEF Answer, TypeOK, Row
  <2>4. row'[t] # Absent
    BY <2>3 DEF Absent
  <2>5. \A n \in Tokens : n # t => row'[n] = row[n]
    BY <1>3, <2>1 DEF Answer, TypeOK
  <2>6. TypeOK'
    BY <1>3, <2>1, <2>3, <2>5 DEF Answer, TypeOK, Request, Idle
  <2> QED
    BY <1>3, <2>4, <2>5, <2>6 DEF Answer, HandedOutExists, TypeOK, Request, Idle
<1>4. ASSUME NEW r \in Requests, NEW t \in Tokens, NEW n \in Tokens, Rotate(r, t, n)
      PROVE  TypeInv'
  <2>1. row[t] \in Row /\ n # t
    BY <1>4, HeldRow DEF Rotate, Absent
  <2>2. row'[n] = Replacement(t) /\ row'[n] \in Row
    BY <1>4, <2>1, ReplacementRow DEF Rotate, TypeOK
  <2>3. row'[t] \in Row
    BY <1>4, <2>1 DEF Rotate, TypeOK, Row
  <2>4. \A m \in Tokens : m # t /\ m # n => row'[m] = row[m]
    BY <1>4 DEF Rotate, TypeOK
  <2>5. TypeOK'
    <3>1. row' \in [Tokens -> Row \cup {Absent}]
      BY <1>4, <2>2, <2>3, <2>4 DEF Rotate, TypeOK
    <3>2. request' \in [Requests -> Request]
      <4>1. request'[r] \in Request
        <5>1. request[r] \in Request /\ password + 1 \in Nat
          BY DEF TypeOK
        <5> QED
          BY <1>4, <5>1 DEF Rotate, TypeOK, Request
      <4> QED
        BY <1>4, <4>1 DEF Rotate, TypeOK
    <3> QED
      BY <1>4, <3>1, <3>2 DEF Rotate, TypeOK
  <2>6. row'[n] # Absent /\ row'[t] # Absent
    BY <2>2, <2>3 DEF Row, Absent
  <2> QED
    BY <1>4, <2>4, <2>5, <2>6 DEF Rotate, HandedOutExists, TypeOK, Request
<1>5. ASSUME NEW r \in Requests, RefreshCheck(r) PROVE TypeInv'
  BY <1>5 DEF RefreshCheck, TypeOK, Request, Idle, HandedOutExists
<1>6. ASSUME NEW t \in Tokens, Logout(t) PROVE TypeInv'
  <2>1. row[t] \in Row
    BY <1>6, HeldRow DEF Logout
  <2>2. row'[t] \in Row /\ row'[t] # Absent
    BY <1>6, <2>1 DEF Logout, TypeOK, Row, Absent
  <2> QED
    BY <1>6, <2>2 DEF Logout, TypeOK, HandedOutExists
<1>7. ASSUME NEW r \in Requests, StartChange(r) \/ StartReset(r) PROVE TypeInv'
  BY <1>7 DEF StartChange, StartReset, TypeOK, Request, HandedOutExists
<1>8. ASSUME NEW r \in Requests, ResetLoad(r) PROVE TypeInv'
  BY <1>8 DEF ResetLoad, TypeOK, Request, Idle, HandedOutExists
<1>9. ASSUME NEW r \in Requests, UpdatePassword(r) PROVE TypeInv'
  <2>1. request' \in [Requests -> Request]
    <3>1. request'[r] \in Request
      <4>1. request[r] \in Request /\ password + 1 \in Nat
        BY DEF TypeOK
      <4> QED
        BY <1>9, <4>1 DEF UpdatePassword, TypeOK, Request
    <3> QED
      BY <1>9, <3>1 DEF UpdatePassword, TypeOK
  <2> QED
    BY <1>9, <2>1 DEF UpdatePassword, TypeOK, HandedOutExists
<1>10. ASSUME NEW r \in Requests, RevokeSnapshot(r) PROVE TypeInv'
  BY <1>10 DEF RevokeSnapshot, TypeOK, Request, HandedOutExists
<1>11. ASSUME NEW r \in Requests, RevokeCommit(r) PROVE TypeInv'
  <2>1. ASSUME NEW t \in Tokens
        PROVE  row'[t] \in Row \cup {Absent} /\ (row'[t] = Absent => row[t] = Absent)
    <3>1. CASE t \in request[r].snap /\ Unrevoked(t)
      <4>1. row[t] \in Row
        BY <3>1, PresentRow DEF Unrevoked
      <4> QED
        BY <1>11, <3>1, <4>1 DEF RevokeCommit, Row, Absent
    <3>2. CASE ~(t \in request[r].snap /\ Unrevoked(t))
      BY <1>11, <3>2 DEF RevokeCommit, TypeOK
    <3> QED
      BY <3>1, <3>2
  <2>2. request' \in [Requests -> Request]
    BY <1>11 DEF RevokeCommit, TypeOK, Request, Idle
  <2>3. TypeOK'
    BY <1>11, <2>1, <2>2 DEF RevokeCommit, TypeOK
  <2> QED
    BY <1>11, <2>1, <2>3 DEF RevokeCommit, HandedOutExists, TypeOK, Request, Idle
<1>12. ASSUME NEW flag \in BOOLEAN, SetActive(flag) PROVE TypeInv'
  BY <1>12 DEF SetActive, TypeOK, HandedOutExists
<1>13. ASSUME NEW t \in Tokens, Expire(t) PROVE TypeInv'
  <2>1. row[t] \in Row
    BY <1>13, PresentRow DEF Expire
  <2>2. row'[t] \in Row /\ row'[t] # Absent
    BY <1>13, <2>1 DEF Expire, TypeOK, Row, Absent
  <2> QED
    BY <1>13, <2>2 DEF Expire, TypeOK, HandedOutExists
<1>14. CASE ApiCrash
  <2>1. ASSUME NEW t \in Tokens PROVE row'[t] \in Row \cup {Absent}
    <3>1. row[t] # Absent => row[t] \in Row
      BY AbsentRow
    <3> QED
      BY <1>14, <3>1 DEF ApiCrash, Row
  <2> QED
    BY <1>14, <2>1 DEF ApiCrash, TypeOK, Request, Idle, HandedOutExists
<1>15. CASE UNCHANGED vars
  BY <1>15 DEF vars, TypeOK, HandedOutExists
<1> QED
  BY <1>1, <1>2, <1>3, <1>4, <1>5, <1>6, <1>7, <1>8, <1>9, <1>10, <1>11, <1>12,
     <1>13, <1>14, <1>15 DEF Next, Others

LEMMA TypeInitially == Init => TypeInv
BY DEF Init, TypeInv, TypeOK, HandedOutExists, Request, Idle

(* Every variable of the refresh token model keeps its type.                 *)
THEOREM TypeCorrect == Spec => []TypeOK
<1>1. TypeInv => TypeOK
  BY DEF TypeInv
<1> QED
  BY <1>1, TypeInitially, TypeStep, PTL DEF Spec

----------------------------------------------------------------------------
(* One token per session.                                                    *)

ChainInv == TypeInv /\ RootsExist /\ OneTokenPerSession

(* A step that revokes, expires or relabels rows, and inserts none.          *)
Shrinks == \A t \in Tokens :
    /\ row'[t] = Absent <=> row[t] = Absent
    /\ row'[t].root = row[t].root
    /\ Unrevoked(t)' => Unrevoked(t)

LEMMA ShrinkStep == ASSUME ChainInv, TypeInv', Shrinks PROVE ChainInv'
<1>1. OneTokenPerSession'
  BY DEF ChainInv, Shrinks, OneTokenPerSession
<1>2. RootsExist'
  <2>1. ASSUME NEW t \in Tokens, row'[t] # Absent PROVE row'[row'[t].root] # Absent
    <3>1. row[t] # Absent
      BY <2>1 DEF Shrinks
    <3>2. row[t].root \in Tokens
      BY <3>1, AbsentRow DEF ChainInv, TypeInv, Row
    <3> QED
      BY <3>1, <3>2 DEF Shrinks, ChainInv, RootsExist
  <2> QED
    BY <2>1 DEF RootsExist
<1> QED
  BY <1>1, <1>2 DEF ChainInv

LEMMA ChainStep == ChainInv /\ [Next]_vars => ChainInv'
<1> SUFFICES ASSUME ChainInv, [Next]_vars PROVE ChainInv'
  OBVIOUS
<1>0. TypeInv /\ TypeInv' /\ TypeOK
  BY TypeStep DEF ChainInv, TypeInv
<1>1. ASSUME UNCHANGED row PROVE ChainInv'
  BY <1>0, <1>1, ShrinkStep DEF Shrinks, Unrevoked
<1>2. ASSUME NEW r \in Requests, NEW t \in Tokens, IssueSession(r, t) PROVE ChainInv'
  <2>1. /\ row'[t].root = t /\ row'[t] # Absent /\ row[t] = Absent
        /\ \A n \in Tokens : n # t => row'[n] = row[n]
    BY <1>0, <1>2 DEF IssueSession, TypeOK, Absent
  <2>2. \A n \in Tokens : row[n] # Absent => row[n].root \in Tokens /\ row[n].root # t
    BY <1>0, <2>1, AbsentRow DEF ChainInv, RootsExist, Row
  <2>3. \A n \in Tokens : Unrevoked(n) => row[n] # Absent
    BY DEF Unrevoked, Absent
  <2>4. OneTokenPerSession'
    BY <2>1, <2>2, <2>3 DEF ChainInv, OneTokenPerSession, Unrevoked
  <2>5. RootsExist'
    BY <2>1, <2>2 DEF ChainInv, RootsExist
  <2> QED
    BY <1>0, <2>4, <2>5 DEF ChainInv
<1>3. ASSUME NEW r \in Requests, Answer(r) PROVE ChainInv'
  <2> DEFINE t == request[r].token
  <2>1. t \in Tokens /\ row[t] \in Row
    BY <1>0, <1>3, AbsentRow DEF Answer, TypeInv, HandedOutExists
  <2>2. /\ row'[t].status = row[t].status /\ row'[t].root = row[t].root
        /\ \A n \in Tokens : n # t => row'[n] = row[n]
    BY <1>0, <1>3, <2>1 DEF Answer, TypeOK, Row
  <2>3. row'[t] # Absent /\ row[t] # Absent
    BY <2>1, <2>2 DEF Row, Absent
  <2> QED
    BY <1>0, <2>2, <2>3, ShrinkStep DEF Shrinks, Unrevoked
<1>4. ASSUME NEW r \in Requests, NEW t \in Tokens, NEW n \in Tokens, Rotate(r, t, n)
      PROVE  ChainInv'
  <2>1. row[t] \in Row /\ n # t /\ row[n] = Absent /\ row[t].status = "live"
    BY <1>0, <1>4, HeldRow DEF Rotate, Absent
  <2>2. /\ row'[t].status = "revoked" /\ row'[t].root = row[t].root
        /\ row'[n].root = row[t].root
        /\ \A m \in Tokens : m # t /\ m # n => row'[m] = row[m]
    BY <1>0, <1>4, <2>1 DEF Rotate, TypeOK, Row, Replacement
  <2>3. row'[t] # Absent /\ row'[n] # Absent
    BY <1>0, <1>4, <2>1, <2>2 DEF Absent, Rotate, TypeOK, Replacement
  <2>4. OneTokenPerSession'
    BY <2>1, <2>2 DEF ChainInv, OneTokenPerSession, Unrevoked
  <2>5. \A m \in Tokens : row[m] # Absent => row[m].root \in Tokens
    BY <1>0, AbsentRow DEF Row
  <2>6. row[t] # Absent
    BY <2>1 DEF Absent
  <2>7. \A m \in Tokens : row[m] # Absent => row'[m] # Absent
    BY <2>2, <2>3
  <2>8. RootsExist'
    BY <2>1, <2>2, <2>5, <2>6, <2>7 DEF ChainInv, RootsExist
  <2> QED
    BY <1>0, <2>4, <2>8 DEF ChainInv
<1>5. ASSUME NEW t \in Tokens, Logout(t) \/ Expire(t) PROVE ChainInv'
  <2>1. row[t] \in Row /\ Unrevoked(t)
    BY <1>0, <1>5, HeldRow, PresentRow DEF Logout, Expire, Unrevoked
  <2>2. /\ row'[t].root = row[t].root /\ row'[t] # Absent /\ row[t] # Absent
        /\ \A n \in Tokens : n # t => row'[n] = row[n]
    BY <1>0, <1>5, <2>1 DEF Logout, Expire, TypeOK, Row, Absent
  <2> QED
    BY <1>0, <2>1, <2>2, ShrinkStep DEF Shrinks, Unrevoked
<1>6. ASSUME NEW r \in Requests, RevokeCommit(r) PROVE ChainInv'
  <2>1. ASSUME NEW t \in Tokens
        PROVE  /\ row'[t] = Absent <=> row[t] = Absent
               /\ row'[t].root = row[t].root
               /\ Unrevoked(t)' => Unrevoked(t)
    <3>1. CASE t \in request[r].snap /\ Unrevoked(t)
      <4>1. row[t] \in Row
        BY <1>0, <3>1, PresentRow DEF Unrevoked
      <4> QED
        BY <1>6, <3>1, <4>1 DEF RevokeCommit, Row, Absent, Unrevoked
    <3>2. CASE ~(t \in request[r].snap /\ Unrevoked(t))
      BY <1>6, <3>2 DEF RevokeCommit, Unrevoked
    <3> QED
      BY <3>1, <3>2
  <2> QED
    BY <1>0, <2>1, ShrinkStep DEF Shrinks
<1>7. CASE ApiCrash
  <2>1. ASSUME NEW t \in Tokens
        PROVE  /\ row'[t] = Absent <=> row[t] = Absent
               /\ row'[t].root = row[t].root
               /\ Unrevoked(t)' => Unrevoked(t)
    <3>1. CASE row[t] # Absent /\ row[t].late = "no" /\ Pending(t)
      <4>1. row[t] \in Row
        BY <1>0, <3>1, AbsentRow
      <4> QED
        BY <1>7, <3>1, <4>1 DEF ApiCrash, Row, Absent, Unrevoked
    <3>2. CASE ~(row[t] # Absent /\ row[t].late = "no" /\ Pending(t))
      BY <1>7, <3>2 DEF ApiCrash, Unrevoked
    <3> QED
      BY <3>1, <3>2
  <2> QED
    BY <1>0, <2>1, ShrinkStep DEF Shrinks
<1> QED
  BY <1>1, <1>2, <1>3, <1>4, <1>5, <1>6, <1>7
     DEF Next, Others, vars, LoginVerify, RefreshCheck, StartChange, StartReset, ResetLoad,
         UpdatePassword, RevokeSnapshot, SetActive

(* However requests are retried, raced or cut off, one sign-in never has two *)
(* tokens that are not revoked.                                              *)
THEOREM SessionsNeverFork == Spec => []OneTokenPerSession
<1>1. Init => ChainInv
  BY TypeInitially DEF Init, ChainInv, RootsExist, OneTokenPerSession, Unrevoked, Absent
<1>2. ChainInv => OneTokenPerSession
  BY DEF ChainInv
<1> QED
  BY <1>1, <1>2, ChainStep, PTL DEF Spec

----------------------------------------------------------------------------
(* Survivors of a password change.                                           *)

SweepInv == TypeInv /\ SurvivorsExplained

Survivor(t) == row[t].status = "live" /\ row[t].gen # password /\ row[t].late = "no"

(* A step that makes no row a survivor and ends no sweep.                    *)
LEMMA NoNewSurvivor ==
    ASSUME SweepInv, TypeInv',
           \A t \in Tokens : Survivor(t)' => Survivor(t) \/ Pending(t)',
           \A r \in Requests, t \in Tokens : Sweeps(r, t) => Sweeps(r, t)'
    PROVE  SweepInv'
BY DEF SweepInv, SurvivorsExplained, Survivor, Pending

LEMMA SweepStep == SweepInv /\ [Next]_vars => SweepInv'
<1> SUFFICES ASSUME SweepInv, [Next]_vars PROVE SweepInv'
  OBVIOUS
<1>0. TypeInv /\ TypeInv' /\ TypeOK
  BY TypeStep DEF SweepInv, TypeInv
<1> USE DEF Sweeps, Sweeping
<1>1. ASSUME UNCHANGED <<password, row>>,
             \A r \in Requests, t \in Tokens : Sweeps(r, t) => Sweeps(r, t)'
      PROVE  SweepInv'
  BY <1>0, <1>1, NoNewSurvivor DEF Survivor
<1>2. ASSUME NEW r \in Requests, NEW t \in Tokens, IssueSession(r, t) PROVE SweepInv'
  <2>1. \A x \in Requests, n \in Tokens : Sweeps(x, n) => Sweeps(x, n)'
    BY <1>0, <1>2 DEF IssueSession, TypeOK
  <2>2. \A n \in Tokens : n # t => row'[n] = row[n]
    BY <1>0, <1>2 DEF IssueSession, TypeOK
  <2>3. Survivor(t)' => \E x \in Requests : Sweeping(x)
    BY <1>0, <1>2 DEF IssueSession, TypeOK, Survivor
  <2>4. Survivor(t)' => Pending(t)'
    BY <2>1, <2>3 DEF Pending
  <2> QED
    BY <1>0, <1>2, <2>1, <2>2, <2>4, NoNewSurvivor DEF Survivor, IssueSession
<1>3. ASSUME NEW r \in Requests, Answer(r) PROVE SweepInv'
  <2> DEFINE t == request[r].token
  <2>1. t \in Tokens /\ row[t] \in Row
    BY <1>0, <1>3, AbsentRow DEF Answer, TypeInv, HandedOutExists
  <2>2. \A n \in Tokens : /\ row'[n].status = row[n].status
                          /\ row'[n].gen = row[n].gen /\ row'[n].late = row[n].late
    BY <1>0, <1>3, <2>1 DEF Answer, TypeOK, Row
  <2>3. \A x \in Requests, n \in Tokens : Sweeps(x, n) => Sweeps(x, n)'
    BY <1>0, <1>3 DEF Answer, TypeOK
  <2> QED
    BY <1>0, <1>3, <2>2, <2>3, NoNewSurvivor DEF Survivor, Answer
<1>4. ASSUME NEW r \in Requests, NEW t \in Tokens, NEW n \in Tokens, Rotate(r, t, n)
      PROVE  SweepInv'
  <2>1. row[t] \in Row /\ n # t
    BY <1>0, <1>4, HeldRow DEF Rotate, Absent
  <2>2. /\ row'[t].status = "revoked" /\ row'[n] = Replacement(t)
        /\ \A m \in Tokens : m # t /\ m # n => row'[m] = row[m]
    BY <1>0, <1>4, <2>1 DEF Rotate, TypeOK, Row
  <2>3. \A x \in Requests, m \in Tokens : Sweeps(x, m) => Sweeps(x, m)'
    BY <1>0, <1>4 DEF Rotate, TypeOK
  <2>4. Survivor(n)' => \E x \in Requests : Sweeping(x)
    BY <1>4, <2>2 DEF Rotate, Survivor, Replacement, RotationLateness
  <2>5. Survivor(n)' => Pending(n)'
    BY <2>3, <2>4 DEF Pending
  <2>6. UNCHANGED password
    BY <1>4 DEF Rotate
  <2>7. ASSUME NEW m \in Tokens, Survivor(m)' PROVE Survivor(m) \/ Pending(m)'
    BY <2>2, <2>5, <2>6, <2>7 DEF Survivor
  <2> QED
    BY <1>0, <2>3, <2>7, NoNewSurvivor
<1>5. ASSUME NEW t \in Tokens, Logout(t) \/ Expire(t) PROVE SweepInv'
  <2>1. row[t] \in Row
    BY <1>0, <1>5, HeldRow, PresentRow DEF Logout, Expire
  <2>2. \A n \in Tokens : Survivor(n)' => Survivor(n)
    BY <1>0, <1>5, <2>1 DEF Logout, Expire, Survivor, TypeOK, Row
  <2>3. UNCHANGED request
    BY <1>5 DEF Logout, Expire
  <2> QED
    BY <1>0, <2>2, <2>3, NoNewSurvivor
<1>6. ASSUME NEW r \in Requests, UpdatePassword(r) PROVE SweepInv'
  <2>1. request'[r].pc = "revoking"
    BY <1>0, <1>6 DEF UpdatePassword, TypeOK, Request
  <2> QED
    BY <1>0, <2>1 DEF SweepInv, SurvivorsExplained, Pending
<1>7. ASSUME NEW r \in Requests, RevokeSnapshot(r) PROVE SweepInv'
  <2>1. request[r] \in Request /\ request[r].pc = "revoking"
    BY <1>0, <1>7 DEF RevokeSnapshot, TypeOK
  <2>2. /\ request'[r].pc = "locking"
        /\ request'[r].snap = {t \in Tokens : Unrevoked(t)}
        /\ \A x \in Requests : x # r => request'[x] = request[x]
    BY <1>0, <1>7, <2>1 DEF RevokeSnapshot, TypeOK, Request
  <2>3. UNCHANGED <<row, password>>
    BY <1>7 DEF RevokeSnapshot
  <2>4. ASSUME NEW t \in Tokens, Survivor(t)' PROVE Pending(t)'
    <3>1. Unrevoked(t)
      BY <2>3, <2>4 DEF Survivor, Unrevoked
    <3> QED
      BY <2>2, <3>1 DEF Pending
  <2> QED
    BY <1>0, <2>4 DEF SweepInv, SurvivorsExplained, Survivor
<1>8. ASSUME NEW r \in Requests, RevokeCommit(r) PROVE SweepInv'
  <2>1. \A x \in Requests : x # r => request'[x] = request[x]
    BY <1>0, <1>8 DEF RevokeCommit, TypeOK
  <2>2. request[r].pc = "locking" /\ UNCHANGED password
    BY <1>8 DEF RevokeCommit
  <2>3. ASSUME NEW t \in Tokens, Survivor(t)' PROVE Pending(t)'
    <3>1. CASE t \in request[r].snap /\ Unrevoked(t)
      <4>1. row[t] \in Row
        BY <1>0, <3>1, PresentRow DEF Unrevoked
      <4>2. row'[t].status = "revoked"
        BY <1>8, <3>1, <4>1 DEF RevokeCommit, Row
      <4> QED
        BY <2>3, <4>2 DEF Survivor
    <3>2. CASE ~(t \in request[r].snap /\ Unrevoked(t))
      <4>1. row'[t] = row[t]
        BY <1>8, <3>2 DEF RevokeCommit
      <4>2. Survivor(t) /\ t \notin request[r].snap
        BY <2>2, <2>3, <3>2, <4>1 DEF Survivor, Unrevoked
      <4>3. PICK x \in Requests : Sweeps(x, t)
        BY <4>2 DEF SweepInv, SurvivorsExplained, Survivor, Pending
      <4>4. x # r
        BY <2>2, <4>2, <4>3
      <4> QED
        BY <2>1, <4>3, <4>4 DEF Pending
    <3> QED
      BY <3>1, <3>2
  <2> QED
    BY <1>0, <2>3 DEF SweepInv, SurvivorsExplained, Survivor
<1>9. CASE ApiCrash
  <2>1. ASSUME NEW t \in Tokens PROVE ~Survivor(t)'
    <3>1. CASE row[t] # Absent /\ row[t].late = "no" /\ Pending(t)
      <4>1. row[t] \in Row
        BY <1>0, <3>1, AbsentRow
      <4> QED
        BY <1>9, <3>1, <4>1 DEF ApiCrash, Row, Survivor
    <3>2. CASE ~(row[t] # Absent /\ row[t].late = "no" /\ Pending(t))
      <4>1. row'[t] = row[t] /\ UNCHANGED password
        BY <1>9, <3>2 DEF ApiCrash
      <4> QED
        BY <3>2, <4>1 DEF SweepInv, SurvivorsExplained, Survivor, Absent
    <3> QED
      BY <3>1, <3>2
  <2> QED
    BY <1>0, <2>1 DEF SweepInv, SurvivorsExplained, Survivor
<1>10. ASSUME NEW r \in Requests,
              LoginVerify(r) \/ RefreshCheck(r) \/ StartChange(r) \/ StartReset(r)
                \/ ResetLoad(r)
       PROVE  SweepInv'
  <2>1. UNCHANGED <<password, row>> /\ ~Sweeping(r) /\ request[r].pc # "locking"
    BY <1>10 DEF LoginVerify, RefreshCheck, StartChange, StartReset, ResetLoad
  <2>2. \A x \in Requests : x # r => request'[x] = request[x]
    BY <1>0, <1>10 DEF LoginVerify, RefreshCheck, StartChange, StartReset, ResetLoad, TypeOK
  <2> QED
    BY <1>1, <2>1, <2>2
<1>11. ASSUME NEW flag \in BOOLEAN, SetActive(flag) PROVE SweepInv'
  BY <1>1, <1>11 DEF SetActive
<1>12. CASE UNCHANGED vars
  BY <1>1, <1>12 DEF vars
<1> QED
  BY <1>2, <1>3, <1>4, <1>5, <1>6, <1>7, <1>8, <1>9, <1>10, <1>11, <1>12 DEF Next, Others

(* A session opened with an earlier password outlives the change only if it  *)
(* was inserted after the sweep had begun, or the process died before it.    *)
THEOREM ChangesSweep == Spec => []SurvivorsExplained
<1>1. Init => SweepInv
  BY TypeInitially DEF Init, SweepInv, SurvivorsExplained, Absent
<1>2. SweepInv => SurvivorsExplained
  BY DEF SweepInv
<1> QED
  BY <1>1, <1>2, SweepStep, PTL DEF Spec

----------------------------------------------------------------------------
(* Refinement of SessionLifecycle.                                           *)

(* A step that inserts no row and brings none back to life closes sessions.  *)
LEMMA ClosingStep ==
    ASSUME \A t \in Tokens : /\ row'[t] = Absent <=> row[t] = Absent
                             /\ row'[t].root = row[t].root
                             /\ row'[t].status = "live" => row[t].status = "live"
    PROVE  Lifecycle!Next
<1> DEFINE S == {s \in Tokens : SessionOf(s) = "open" /\ SessionOf(s)' # "open"}
<1>1. ASSUME NEW s \in Tokens
      PROVE  SessionOf(s)' = IF s \in S THEN "closed" ELSE SessionOf(s)
  BY DEF SessionOf
<1>2. Lifecycle!Close(S)
  BY <1>1 DEF Lifecycle!Close
<1> QED
  BY <1>2 DEF Lifecycle!Next

LEMMA LifecycleStep == ChainInv /\ [Next]_vars => [Lifecycle!Next]_([s \in Tokens |-> SessionOf(s)])
<1> SUFFICES ASSUME ChainInv, Next
             PROVE  Lifecycle!Next \/ \A s \in Tokens : SessionOf(s)' = SessionOf(s)
  BY DEF vars, SessionOf
<1>0. TypeInv /\ TypeOK
  BY DEF ChainInv, TypeInv
<1>1. ASSUME UNCHANGED row PROVE Lifecycle!Next
  BY <1>1, ClosingStep
<1>2. ASSUME NEW r \in Requests, NEW t \in Tokens, IssueSession(r, t) PROVE Lifecycle!Next
  <2>1. /\ row'[t].root = t /\ row'[t] # Absent /\ row'[t].status = "live"
        /\ row[t] = Absent
        /\ \A n \in Tokens : n # t => row'[n] = row[n]
    BY <1>0, <1>2 DEF IssueSession, TypeOK, Absent
  <2>2. \A n \in Tokens : row[n] # Absent => row[n].root \in Tokens /\ row[n].root # t
    BY <1>0, <2>1, AbsentRow DEF ChainInv, RootsExist, Row
  <2>3. SessionOf(t) = "none" /\ SessionOf(t)' = "open"
    BY <2>1 DEF SessionOf
  <2>4. \A s \in Tokens : s # t => SessionOf(s)' = SessionOf(s)
    BY <2>1 DEF SessionOf, Absent
  <2>5. Lifecycle!Open(t)
    BY <2>3, <2>4 DEF Lifecycle!Open
  <2> QED
    BY <2>5 DEF Lifecycle!Next
<1>3. ASSUME NEW r \in Requests, Answer(r) PROVE Lifecycle!Next
  <2> DEFINE t == request[r].token
  <2>1. t \in Tokens /\ row[t] \in Row /\ row[t] # Absent /\ row[t].status # "absent"
    BY <1>0, <1>3, AbsentRow DEF Answer, TypeInv, HandedOutExists
  <2>2. /\ row'[t].status = row[t].status /\ row'[t].root = row[t].root
        /\ \A n \in Tokens : n # t => row'[n] = row[n]
    BY <1>0, <1>3, <2>1 DEF Answer, TypeOK, Row
  <2>3. row'[t] # Absent
    BY <2>1, <2>2 DEF Absent
  <2> QED
    BY <2>1, <2>2, <2>3, ClosingStep
<1>4. ASSUME NEW r \in Requests, NEW t \in Tokens, NEW n \in Tokens, Rotate(r, t, n)
      PROVE  \A s \in Tokens : SessionOf(s)' = SessionOf(s)
  <2>1. row[t] \in Row /\ n # t /\ row[n] = Absent /\ row[t].status = "live"
    BY <1>0, <1>4, HeldRow DEF Rotate, Absent
  <2>2. /\ row'[t].status = "revoked" /\ row'[t].root = row[t].root
        /\ row'[n].root = row[t].root /\ row'[n].status = "live"
        /\ \A m \in Tokens : m # t /\ m # n => row'[m] = row[m]
    BY <1>0, <1>4, <2>1 DEF Rotate, TypeOK, Row, Replacement
  <2>3. row'[t] # Absent /\ row[t] # Absent
    BY <2>1, <2>2 DEF Absent
  <2>4. row[t].root # n
    BY <2>1, <2>3 DEF ChainInv, RootsExist
  <2>5. ASSUME NEW s \in Tokens PROVE SessionOf(s)' = SessionOf(s)
    <3>1. (\E m \in Tokens : row[m].status = "live" /\ row[m].root = s)
            <=> (\E m \in Tokens : row'[m].status = "live" /\ row'[m].root = s)
      <4>1. CASE s = row[t].root
        BY <2>1, <2>2, <4>1
      <4>2. CASE s # row[t].root
        <5>1. row[n].status # "live"
          BY <2>1 DEF Absent
        <5> QED
          BY <2>1, <2>2, <4>2, <5>1
      <4> QED
        BY <4>1, <4>2
    <3>2. (row[s] = Absent \/ row[s].root # s) <=> (row'[s] = Absent \/ row'[s].root # s)
      BY <2>1, <2>2, <2>3, <2>4
    <3> QED
      BY <3>1, <3>2 DEF SessionOf
  <2> QED
    BY <2>5
<1>5. ASSUME NEW t \in Tokens, Logout(t) \/ Expire(t) PROVE Lifecycle!Next
  <2>1. row[t] \in Row /\ Unrevoked(t)
    BY <1>0, <1>5, HeldRow, PresentRow DEF Logout, Expire, Unrevoked
  <2>2. /\ row'[t].root = row[t].root /\ row'[t] # Absent /\ row[t] # Absent
        /\ row'[t].status # "live"
        /\ \A n \in Tokens : n # t => row'[n] = row[n]
    BY <1>0, <1>5, <2>1 DEF Logout, Expire, TypeOK, Row, Absent
  <2> QED
    BY <2>2, ClosingStep
<1>6. ASSUME NEW r \in Requests, RevokeCommit(r) PROVE Lifecycle!Next
  <2>1. ASSUME NEW t \in Tokens
        PROVE  /\ row'[t] = Absent <=> row[t] = Absent
               /\ row'[t].root = row[t].root
               /\ row'[t].status = "live" => row[t].status = "live"
    <3>1. CASE t \in request[r].snap /\ Unrevoked(t)
      <4>1. row[t] \in Row
        BY <1>0, <3>1, PresentRow DEF Unrevoked
      <4> QED
        BY <1>6, <3>1, <4>1 DEF RevokeCommit, Row, Absent, Unrevoked
    <3>2. CASE ~(t \in request[r].snap /\ Unrevoked(t))
      BY <1>6, <3>2 DEF RevokeCommit
    <3> QED
      BY <3>1, <3>2
  <2> QED
    BY <2>1, ClosingStep
<1>7. CASE ApiCrash
  <2>1. ASSUME NEW t \in Tokens
        PROVE  /\ row'[t] = Absent <=> row[t] = Absent
               /\ row'[t].root = row[t].root /\ row'[t].status = row[t].status
    <3>1. CASE row[t] # Absent /\ row[t].late = "no" /\ Pending(t)
      <4>1. row[t] \in Row
        BY <1>0, <3>1, AbsentRow
      <4> QED
        BY <1>7, <3>1, <4>1 DEF ApiCrash, Row, Absent
    <3>2. CASE ~(row[t] # Absent /\ row[t].late = "no" /\ Pending(t))
      BY <1>7, <3>2 DEF ApiCrash
    <3> QED
      BY <3>1, <3>2
  <2> QED
    BY <2>1, ClosingStep
<1> QED
  BY <1>1, <1>2, <1>3, <1>4, <1>5, <1>6, <1>7
     DEF Next, Others, LoginVerify, RefreshCheck, StartChange, StartReset, ResetLoad,
         UpdatePassword, RevokeSnapshot, SetActive

(* The table of tokens implements sessions that open once, are renewed       *)
(* without anybody noticing, and never open again once closed.               *)
THEOREM TokensImplementSessions == Spec => LifecycleSpec
<1>1. Init => ChainInv
  BY TypeInitially DEF Init, ChainInv, RootsExist, OneTokenPerSession, Unrevoked, Absent
<1>2. Init => Lifecycle!Init
  BY DEF Init, Lifecycle!Init, SessionOf
<1> QED
  BY <1>1, <1>2, ChainStep, LifecycleStep, PTL DEF Spec, LifecycleSpec, Lifecycle!Spec

----------------------------------------------------------------------------
(* Access tokens.                                                            *)

LEMMA AccessStep == [AccessNext]_<<vars, clocks>> => [Next]_vars
BY DEF AccessNext, AnswerWithAccess, Mark, CommitMarker, CrashWithMarkers, Tick,
       AccessExpires, Next, clocks

(* Every step of AccessTokens is one of RefreshTokens or leaves its state    *)
(* alone, so that each theorem above holds of AccessTokens too.              *)
THEOREM AccessRefines == AccessSpec => Spec
<1>1. AccessInit => Init
  BY DEF AccessInit
<1> QED
  BY <1>1, AccessStep, PTL DEF AccessSpec, Spec

ClocksOK ==
    /\ now \in 0 .. MaxSecond
    /\ changedAt \in Never .. now
    /\ marker \in [Requests -> Never .. now]
    /\ access \in Access \cup {None}
    /\ access.iat <= now

LEMMA IssuedIsAccess ==
    ASSUME TypeOK, ClocksOK, NEW t \in Tokens, row[t] # Absent PROVE Issued(t) \in Access
<1>1. row[t].gen \in Nat
  BY AbsentRow DEF Row
<1>2. Oddity(t) \in {"no", "marked", "sweep", "late", "overtaken"}
  BY DEF Oddity
<1>3. now \in Nat
  BY MaxSecondAssumption DEF ClocksOK
<1> QED
  BY <1>1, <1>2, <1>3 DEF Issued, Access

LEMMA ClocksStep == TypeInv /\ ClocksOK /\ [AccessNext]_<<vars, clocks>> => ClocksOK'
<1> SUFFICES ASSUME TypeInv, ClocksOK, [AccessNext]_<<vars, clocks>> PROVE ClocksOK'
  OBVIOUS
<1> USE MaxSecondAssumption DEF ClocksOK, Never
<1>1. CASE UNCHANGED clocks
  BY <1>1 DEF clocks
<1>2. ASSUME NEW r \in Requests, AnswerWithAccess(r) PROVE ClocksOK'
  <2>1. request[r].token \in Tokens /\ row[request[r].token] # Absent
    BY <1>2 DEF AnswerWithAccess, Answer, TypeInv, HandedOutExists
  <2>2. Issued(request[r].token) \in Access
    BY <2>1, IssuedIsAccess DEF TypeInv
  <2>3. Issued(request[r].token).iat = now
    BY DEF Issued
  <2>4. access' \in {access, Issued(request[r].token)} /\ now' = now
    BY <1>2 DEF AnswerWithAccess
  <2> QED
    BY <1>2, <2>2, <2>3, <2>4 DEF AnswerWithAccess
<1>3. ASSUME NEW r \in Requests, Mark(r) PROVE ClocksOK'
  BY <1>3 DEF Mark
<1>4. ASSUME NEW r \in Requests, CommitMarker(r) PROVE ClocksOK'
  BY <1>4 DEF CommitMarker
<1>5. CASE CrashWithMarkers
  BY <1>5 DEF CrashWithMarkers
<1>6. CASE Tick
  <2>1. now' = now + 1 /\ now' \in 0 .. MaxSecond
    BY <1>6 DEF Tick
  <2>2. changedAt' \in Never .. now'
    BY <1>6, <2>1 DEF Tick
  <2>3. marker' \in [Requests -> Never .. now']
    BY <1>6, <2>1 DEF Tick
  <2>4. access' = access /\ access.iat <= now'
    BY <1>6, <2>1 DEF Tick, None, Access
  <2> QED
    BY <1>6, <2>1, <2>2, <2>3, <2>4 DEF Tick
<1>7. CASE AccessExpires
  BY <1>7 DEF AccessExpires, None
<1> QED
  BY <1>1, <1>2, <1>3, <1>4, <1>5, <1>6, <1>7 DEF AccessNext, clocks

(* An access token that is not odd was issued before every marker in use, so *)
(* that the one in force is no younger than its last second.                 *)
MarkersFollow ==
    access # None /\ access.why = "no" =>
        /\ \A r \in Requests : marker[r] # Never => marker[r] >= access.iat
        /\ access.gen # password => changedAt >= access.iat

LEMMA MarkersStep ==
    TypeInv /\ SurvivorsExplained /\ ClocksOK /\ MarkersFollow /\ [AccessNext]_<<vars, clocks>>
        => MarkersFollow'
<1> SUFFICES ASSUME TypeInv, SurvivorsExplained, ClocksOK, MarkersFollow,
                    [AccessNext]_<<vars, clocks>>
             PROVE  MarkersFollow'
  OBVIOUS
<1> USE DEF MarkersFollow
<1>1. CASE UNCHANGED <<vars, clocks>>
  BY <1>1 DEF vars, clocks
<1>2. CASE Others /\ UNCHANGED clocks
  <2>1. password' = password
    BY <1>2 DEF Others, LoginVerify, RefreshCheck, StartChange, StartReset, ResetLoad,
                RevokeSnapshot, RevokeCommit, IssueSession, Rotate, Logout, Expire, SetActive
  <2> QED
    BY <1>2, <2>1 DEF clocks
<1>3. ASSUME NEW r \in Requests, AnswerWithAccess(r) PROVE MarkersFollow'
  <2> DEFINE t == request[r].token
  <2>1. t \in Tokens /\ row[t] # Absent
    BY <1>3 DEF AnswerWithAccess, Answer, TypeInv, HandedOutExists
  <2>2. /\ UNCHANGED <<password, now, changedAt, marker>>
        /\ access' \in {access, Issued(t)}
    BY <1>3 DEF AnswerWithAccess, Answer
  <2>3. ASSUME Oddity(t) = "no"
        PROVE  row[t].gen = password /\ \A x \in Requests : marker[x] = Never
    <3>1. CASE row[t].gen = password
      BY <2>3, <3>1 DEF Oddity
    <3>2. CASE row[t].gen # password
      <4>1. row[t].late = "no" /\ ~Pending(t) /\ row[t].status = "live"
        BY <2>3, <3>2 DEF Oddity
      <4> QED
        BY <2>1, <3>2, <4>1 DEF SurvivorsExplained
    <3> QED
      BY <3>1, <3>2
  <2>4. CASE access' = access
    BY <2>2, <2>4
  <2>5. CASE access' = Issued(t)
    <3>1. access'.gen = row[t].gen /\ access'.why = Oddity(t)
      BY <2>5 DEF Issued
    <3> QED
      BY <2>2, <2>3, <3>1
  <2> QED
    BY <2>2, <2>4, <2>5
<1>4. ASSUME NEW r \in Requests, Mark(r) PROVE MarkersFollow'
  <2>1. UNCHANGED <<password, changedAt, access>> /\ marker' = [marker EXCEPT ![r] = now]
    BY <1>4 DEF Mark, vars
  <2>2. access.iat <= now
    BY DEF ClocksOK
  <2> QED
    BY <2>1, <2>2 DEF ClocksOK
<1>5. ASSUME NEW r \in Requests, CommitMarker(r) PROVE MarkersFollow'
  <2>1. /\ access' = access /\ marker[r] # Never /\ changedAt' = marker[r]
        /\ marker' = [marker EXCEPT ![r] = Never]
    BY <1>5 DEF CommitMarker
  <2> QED
    BY <2>1 DEF ClocksOK
<1>6. CASE CrashWithMarkers
  BY <1>6 DEF CrashWithMarkers, ApiCrash
<1>7. CASE Tick
  BY <1>7 DEF Tick, vars
<1>8. CASE AccessExpires
  BY <1>8 DEF AccessExpires
<1> QED
  BY <1>1, <1>2, <1>3, <1>4, <1>5, <1>6, <1>7, <1>8 DEF AccessNext

(* An access token of an earlier password is accepted only if it was issued  *)
(* in the last second before the marker, or for a session the change had not *)
(* caught up with.                                                           *)
THEOREM OldAccessIsExplained == AccessSpec => []OldAccessExplained
<1> DEFINE AccessInv == TypeInv /\ SurvivorsExplained /\ ClocksOK /\ MarkersFollow
<1>1. AccessInit => AccessInv
  <2> SUFFICES ASSUME AccessInit PROVE AccessInv
    OBVIOUS
  <2>1. TypeInv /\ SurvivorsExplained
    BY TypeInitially DEF AccessInit, Init, SurvivorsExplained, Absent
  <2>2. ClocksOK /\ MarkersFollow
    BY MaxSecondAssumption DEF AccessInit, ClocksOK, MarkersFollow, None, Never
  <2> QED
    BY <2>1, <2>2
<1>2. AccessInv /\ [AccessNext]_<<vars, clocks>> => AccessInv'
  <2> SUFFICES ASSUME AccessInv, [AccessNext]_<<vars, clocks>> PROVE AccessInv'
    OBVIOUS
  <2>1. SweepInv'
    BY AccessStep, SweepStep DEF SweepInv
  <2> QED
    BY <2>1, ClocksStep, MarkersStep DEF SweepInv
<1>3. AccessInv => OldAccessExplained
  <2> SUFFICES ASSUME AccessInv, access # None, access.gen # password, Accepted(access),
                      access.why = "no"
               PROVE  access.iat = changedAt
    BY DEF OldAccessExplained
  <2>1. access.iat \in Int /\ changedAt \in Int
    BY MaxSecondAssumption DEF ClocksOK, Access, Never
  <2> QED
    BY <2>1 DEF MarkersFollow, Accepted
<1> QED
  BY <1>1, <1>2, <1>3, PTL DEF AccessSpec

(* The clocks, markers and access tokens keep their type.                    *)
THEOREM AccessTypeCorrect == AccessSpec => []AccessTypeOK
<1> DEFINE ClockInv == TypeInv /\ ClocksOK
<1>1. AccessInit => ClockInv
  BY MaxSecondAssumption, TypeInitially DEF AccessInit, ClocksOK, None, Never
<1>2. ClockInv /\ [AccessNext]_<<vars, clocks>> => ClockInv'
  BY AccessStep, TypeStep, ClocksStep
<1>3. ClockInv => AccessTypeOK
  BY DEF TypeInv, ClocksOK, AccessTypeOK
<1> QED
  BY <1>1, <1>2, <1>3, PTL DEF AccessSpec
=============================================================================
