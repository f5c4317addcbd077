-------------------------- MODULE MailLinksProofs --------------------------
(* Theorems about MailLinks, for any number of accounts, addresses, links    *)
(* and requests.                                                             *)
EXTENDS MailLinks, TLAPS

Carries(r) == request[r].pc \in {"mailing", "followed", "writing"}

(* A request that works on a link works on a row that exists.                *)
LinksExist == \A r \in Requests : Carries(r) => link[request[r].link] # Absent

Registered == \A u \in Users : account[u] = Unregistered \/ account[u].address \in Addresses

TypeInv == TypeOK /\ LinksExist /\ Registered

----------------------------------------------------------------------------
(* Type correctness.                                                         *)

LEMMA LinkRow ==
    ASSUME TypeOK, NEW l \in Links, link[l] # Absent
    PROVE  link[l] \in Link
BY DEF TypeOK

LEMMA PresentLink ==
    ASSUME TypeOK, NEW l \in Links,
           link[l].mailed \/ link[l].status # "absent" \/ link[l].kind # "none"
    PROVE  link[l] \in Link /\ link[l] # Absent
BY DEF TypeOK, Absent

LEMMA ActiveAddress ==
    ASSUME TypeInv, NEW u \in Users, account[u].active
    PROVE  account[u].address \in Addresses
BY DEF TypeInv, Registered, Unregistered

LEMMA CarrierType ==
    ASSUME TypeOK, NEW r \in Requests, Carries(r)
    PROVE  request[r] \in Holding
BY DEF TypeOK, Carries, Asking, Idle

LEMMA AskerType ==
    ASSUME TypeOK, NEW r \in Requests, request[r].pc \in {"asked", "locking"}
    PROVE  request[r] \in Asking
BY DEF TypeOK, Holding, Idle

(* Requests come back to where they started.                                 *)
LEMMA IdleStep ==
    ASSUME TypeInv, NEW r \in Requests, request' = [request EXCEPT ![r] = Idle],
           account' \in [Users -> Account], Registered',
           link' \in [Links -> Link \cup {Absent}], uses' \in [Links -> Nat],
           \A l \in Links : link[l] # Absent => link'[l] # Absent
    PROVE  TypeInv'
<1>1. TypeOK'
  BY DEF TypeInv, TypeOK
<1>2. ASSUME NEW q \in Requests, Carries(q)' PROVE link'[request'[q].link] # Absent
  <2>1. q # r /\ request'[q] = request[q]
    BY <1>2 DEF Carries, Idle, TypeInv, TypeOK
  <2>2. Carries(q) /\ request[q].link \in Links
    BY <1>2, <2>1, CarrierType DEF Carries, TypeInv, Holding
  <2> QED
    BY <2>1, <2>2 DEF TypeInv, LinksExist
<1> QED
  BY <1>1, <1>2 DEF TypeInv, LinksExist

(* ... or go on with x, which works on an existing row if on any.            *)
LEMMA GoOnStep ==
    ASSUME TypeInv, NEW r \in Requests, NEW x, request' = [request EXCEPT ![r] = x],
           x \in Asking \cup Holding, account' = account, uses' = uses,
           link' \in [Links -> Link \cup {Absent}],
           \A l \in Links : link[l] # Absent => link'[l] # Absent,
           x \in Holding => link'[x.link] # Absent
    PROVE  TypeInv'
<1>1. TypeOK'
  BY DEF TypeInv, TypeOK
<1>2. ASSUME NEW q \in Requests, Carries(q)' PROVE link'[request'[q].link] # Absent
  <2>1. CASE q = r
    <3>1. request'[q] = x
      BY <2>1 DEF TypeInv, TypeOK
    <3>2. x \in Holding
      BY <1>2, <3>1 DEF Carries, Asking
    <3> QED
      BY <3>1, <3>2
  <2>2. CASE q # r
    <3>1. request'[q] = request[q]
      BY <2>2 DEF TypeInv, TypeOK
    <3>2. Carries(q) /\ request[q].link \in Links
      BY <1>2, <3>1, CarrierType DEF Carries, TypeInv, Holding
    <3> QED
      BY <3>1, <3>2 DEF TypeInv, LinksExist
  <2> QED
    BY <2>1, <2>2
<1>3. Registered'
  BY DEF TypeInv, Registered
<1> QED
  BY <1>1, <1>2, <1>3 DEF TypeInv, LinksExist

LEMMA AskType ==
    ASSUME TypeInv, NEW r \in Requests, NEW u \in Users, NEW kind \in Kinds,
           NEW a \in Addresses, Ask(r, u, kind, a)
    PROVE  TypeInv'
<1> DEFINE x == [pc |-> "asked", kind |-> kind, user |-> u, to |-> a, link |-> "none",
                 saw |-> LinksOf(u, kind), snap |-> {}]
<1>1. x \in Asking /\ ~(x \in Holding)
  BY DEF Asking, Holding, LinksOf
<1>2. request' = [request EXCEPT ![r] = x] /\ UNCHANGED <<account, link, uses>>
  BY DEF Ask
<1> HIDE DEF x
<1> QED
  BY <1>1, <1>2, GoOnStep DEF TypeInv, TypeOK

LEMMA TypeStep == TypeInv /\ [Next]_vars => TypeInv'
<1> SUFFICES ASSUME TypeInv, [Next]_vars PROVE TypeInv'
  OBVIOUS
<1>0. TypeOK
  BY DEF TypeInv
<1>1. ASSUME NEW u \in Users, NEW a \in Addresses, Register(u, a) PROVE TypeInv'
  <2>1. account' \in [Users -> Account]
    BY <1>0, <1>1 DEF TypeOK, Register, Account
  <2>2. Registered'
    BY <1>1 DEF TypeInv, TypeOK, Registered, Register
  <2> QED
    BY <1>1, <2>1, <2>2 DEF Register, TypeInv, TypeOK, LinksExist, Carries
<1>2. ASSUME NEW u \in Users, NEW flag \in BOOLEAN, SetActive(u, flag) PROVE TypeInv'
  <2>1. account' \in [Users -> Account]
    BY <1>0, <1>2 DEF TypeOK, SetActive, Account
  <2>2. Registered'
    BY <1>2 DEF TypeInv, TypeOK, Registered, SetActive, Account
  <2> QED
    BY <1>2, <2>1, <2>2 DEF SetActive, TypeInv, TypeOK, LinksExist, Carries
<1>3. ASSUME NEW r \in Requests, NEW u \in Users, AskReset(r, u) PROVE TypeInv'
  <2>1. account[u].address \in Addresses
    BY <1>3, ActiveAddress DEF AskReset, Ask
  <2> QED
    BY <1>3, <2>1, AskType DEF AskReset, Kinds
<1>4. ASSUME NEW r \in Requests, NEW u \in Users, NEW a \in Addresses, AskAddress(r, u, a)
      PROVE  TypeInv'
  BY <1>4, AskType DEF AskAddress, Kinds
<1>5. ASSUME NEW r \in Requests, Snapshot(r) PROVE TypeInv'
  <2> DEFINE snap == {l \in LinksOf(request[r].user, request[r].kind) : Unused(l)}
  <2> DEFINE x == [request[r] EXCEPT !.pc = "locking", !.snap = snap]
  <2>1. request[r] \in Asking
    BY <1>0, <1>5, AskerType DEF Snapshot
  <2>2. snap \in SUBSET Links
    BY DEF LinksOf
  <2> HIDE DEF snap
  <2>3. x \in Asking /\ ~(x \in Holding)
    BY <2>1, <2>2 DEF Asking, Holding
  <2>4. request' = [request EXCEPT ![r] = x] /\ UNCHANGED <<account, link, uses>>
    BY <1>0, <1>5 DEF Snapshot, TypeOK, snap
  <2> HIDE DEF x
  <2> QED
    BY <1>0, <2>3, <2>4, GoOnStep DEF TypeOK
<1>6. ASSUME NEW r \in Requests, NEW n \in Links, Insert(r, n) PROVE TypeInv'
  <2> DEFINE x == Sent(request[r], n)
  <2>1. request[r] \in Asking
    BY <1>0, <1>6, AskerType DEF Insert
  <2>2. x \in Holding
    BY <2>1 DEF Asking, Holding, Sent
  <2>3. NewLink(request[r]) \in Link
    BY <2>1 DEF NewLink, Asking, Link
  <2>4. ASSUME NEW l \in Links, l # n
        PROVE  /\ link'[l] \in Link \cup {Absent}
               /\ link[l] # Absent => link'[l] # Absent
    <3>1. CASE Unused(l)
      <4>1. link[l] \in Link
        BY <1>0, <3>1, PresentLink DEF Unused
      <4>2. [link[l] EXCEPT !.status = "retired"] \in Link
        BY <4>1 DEF Link
      <4> QED
        BY <1>0, <1>6, <2>4, <4>1, <4>2 DEF Insert, TypeOK, Link, Absent
    <3>2. CASE ~Unused(l)
      BY <1>0, <1>6, <2>4, <3>2 DEF Insert, TypeOK
    <3> QED
      BY <3>1, <3>2
  <2>5. link'[n] = NewLink(request[r]) /\ link'[n] # Absent
    BY <1>6, <2>3 DEF Insert, Link, Absent
  <2>6. \A l \in Links : link'[l] \in Link \cup {Absent}
    BY <2>3, <2>4, <2>5
  <2>7. link' \in [Links -> Link \cup {Absent}]
    BY <1>6, <2>6 DEF Insert
  <2>8. \A l \in Links : link[l] # Absent => link'[l] # Absent
    BY <2>4, <2>5
  <2>9. request' = [request EXCEPT ![r] = x] /\ UNCHANGED <<account, uses>> /\ x.link = n
    BY <1>6 DEF Insert, Sent
  <2> HIDE DEF x
  <2> QED
    BY <2>2, <2>5, <2>7, <2>8, <2>9, GoOnStep
<1>7. ASSUME NEW r \in Requests, Mail(r) PROVE TypeInv'
  <2>1. request[r].link \in Links /\ link[request[r].link] \in Link
    BY <1>0, <1>7, CarrierType, LinkRow DEF Mail, Carries, TypeInv, LinksExist, Holding
  <2>2. [link[request[r].link] EXCEPT !.mailed = TRUE] \in Link
    BY <2>1 DEF Link
  <2>3. link' \in [Links -> Link \cup {Absent}]
    BY <1>0, <1>7, <2>1, <2>2 DEF Mail, TypeOK
  <2>4. \A l \in Links : link[l] # Absent => link'[l] # Absent
    BY <1>0, <1>7, <2>1, <2>2 DEF Mail, TypeOK, Link, Absent
  <2> QED
    BY <1>0, <1>7, <2>3, <2>4, IdleStep DEF Mail, TypeOK, TypeInv, Registered
<1>8. ASSUME NEW r \in Requests, MailFails(r) \/ Refuse(r) PROVE TypeInv'
  BY <1>0, <1>8, IdleStep DEF MailFails, Refuse, TypeOK, TypeInv, Registered
<1>9. ASSUME NEW r \in Requests, NEW l \in Links, Consume(r, l) PROVE TypeInv'
  <2> DEFINE x == Followed(l)
  <2>1. link[l] \in Link
    BY <1>0, <1>9, PresentLink DEF Consume
  <2>2. x \in Holding /\ x.link = l
    BY <2>1 DEF Followed, Holding, Link
  <2>3. [link[l] EXCEPT !.status = "spent"] \in Link
    BY <2>1 DEF Link
  <2>4. link' \in [Links -> Link \cup {Absent}]
    BY <1>0, <1>9, <2>3 DEF Consume, TypeOK
  <2>5. \A k \in Links : link[k] # Absent => link'[k] # Absent
    BY <1>0, <1>9, <2>3 DEF Consume, TypeOK, Link, Absent
  <2>6. link'[l] # Absent
    BY <1>0, <1>9, <2>3 DEF Consume, TypeOK, Link, Absent
  <2>7. request' = [request EXCEPT ![r] = x] /\ UNCHANGED <<account, uses>>
    BY <1>9 DEF Consume
  <2> HIDE DEF x
  <2> QED
    BY <2>2, <2>4, <2>5, <2>6, <2>7, GoOnStep
<1>10. ASSUME NEW r \in Requests, Accept(r) PROVE TypeInv'
  <2> DEFINE x == [request[r] EXCEPT !.pc = "writing"]
  <2>1. Carries(r) /\ request[r] \in Holding
    BY <1>0, <1>10, CarrierType DEF Accept, Carries
  <2>2. x \in Holding /\ x.link = request[r].link
    BY <2>1 DEF Holding
  <2>3. request' = [request EXCEPT ![r] = x] /\ UNCHANGED <<account, link, uses>>
    BY <1>0, <1>10 DEF Accept, TypeOK
  <2> HIDE DEF x
  <2> QED
    BY <1>0, <2>1, <2>2, <2>3, GoOnStep DEF TypeOK, TypeInv, LinksExist
<1>11. ASSUME NEW r \in Requests, UpdatePassword(r) PROVE TypeInv'
  <2>1. request[r].link \in Links
    BY <1>0, <1>11, CarrierType DEF UpdatePassword, Carries, Holding
  <2>2. uses' \in [Links -> Nat]
    BY <1>0, <1>11, <2>1 DEF UpdatePassword, TypeOK
  <2> QED
    BY <1>0, <1>11, <2>2, IdleStep DEF UpdatePassword, TypeOK, TypeInv, Registered
<1>12. ASSUME NEW r \in Requests, UpdateEmail(r) PROVE TypeInv'
  <2>1. Carries(r) /\ request[r] \in Holding
    BY <1>0, <1>12, CarrierType DEF UpdateEmail, Carries
  <2>2. request[r].user \in Users /\ request[r].to \in Addresses /\ request[r].link \in Links
    BY <2>1 DEF Holding
  <2>3. account' \in [Users -> Account] /\ Registered'
    <3>1. CASE FreeFor(request[r].user, request[r].to)
      <4>1. account' = [account EXCEPT ![request[r].user].address = request[r].to]
        BY <1>12, <3>1 DEF UpdateEmail
      <4>2. account' \in [Users -> Account]
        BY <1>0, <2>2, <4>1 DEF TypeOK, Account
      <4>3. Registered'
        BY <1>0, <2>2, <4>1 DEF TypeInv, TypeOK, Registered, Account
      <4> QED
        BY <4>2, <4>3
    <3>2. CASE ~FreeFor(request[r].user, request[r].to)
      BY <1>0, <1>12, <3>2 DEF UpdateEmail, TypeInv, TypeOK, Registered
    <3> QED
      BY <3>1, <3>2
  <2>4. uses' \in [Links -> Nat]
    BY <1>0, <1>12, <2>2 DEF UpdateEmail, TypeOK
  <2> QED
    BY <1>0, <1>12, <2>3, <2>4, IdleStep DEF UpdateEmail, TypeOK
<1>13. ASSUME NEW l \in Links, Expire(l) PROVE TypeInv'
  <2>1. link[l] \in Link
    BY <1>0, <1>13, PresentLink DEF Expire
  <2>2. [link[l] EXCEPT !.status = "expired"] \in Link
    BY <2>1 DEF Link
  <2>3. link' \in [Links -> Link \cup {Absent}]
    BY <1>0, <1>13, <2>2 DEF Expire, TypeOK
  <2>4. \A k \in Links : link[k] # Absent => link'[k] # Absent
    BY <1>0, <1>13, <2>2 DEF Expire, TypeOK, Link, Absent
  <2>5. \A r \in Requests : Carries(r) => request[r].link \in Links
    BY <1>0, CarrierType DEF Holding
  <2> QED
    BY <1>0, <1>13, <2>3, <2>4, <2>5 DEF Expire, TypeInv, TypeOK, LinksExist, Carries, Registered
<1>14. ApiCrash => TypeInv'
  BY <1>0 DEF ApiCrash, TypeInv, TypeOK, LinksExist, Carries, Idle, Registered
<1>15. UNCHANGED vars => TypeInv'
  BY <1>0 DEF vars, TypeInv, TypeOK, LinksExist, Carries, Registered
<1> QED
  BY <1>1, <1>2, <1>3, <1>4, <1>5, <1>6, <1>7, <1>8, <1>9, <1>10, <1>11, <1>12, <1>13,
     <1>14, <1>15 DEF Next

LEMMA InitTypeInv == Init => TypeInv
BY DEF Init, TypeInv, TypeOK, LinksExist, Registered, Carries, Unregistered, Account, Idle

(* Every variable of the mail link model keeps its type.                     *)
THEOREM TypeCorrect == Spec => []TypeOK
<1>1. TypeInv => TypeOK
  BY DEF TypeInv
<1> QED
  BY InitTypeInv, TypeStep, <1>1, PTL DEF Spec

----------------------------------------------------------------------------
(* What a link can go through: it keeps its owner and its purpose, once      *)
(* mailed it stays mailed, and once used it stays used.                      *)

Ages(l) ==
    /\ link'[l].kind = link[l].kind /\ link'[l].user = link[l].user
    /\ link'[l].to = link[l].to /\ link'[l].saw = link[l].saw
    /\ link[l].mailed => link'[l].mailed
    /\ link'[l].status \in {"good", "expired"} => link[l].status \in {"good", "expired"}
    /\ link[l].status = "spent" => link'[l].status = "spent"

LEMMA LinksAge ==
    ASSUME TypeInv, Next, NEW l \in Links, link[l] # Absent
    PROVE  Ages(l)
<1>0. TypeOK
  BY DEF TypeInv
<1>1. link[l] \in Link
  BY <1>0, LinkRow
<1>2. ASSUME link' = link PROVE Ages(l)
  BY <1>2 DEF Ages
<1>3. ASSUME NEW r \in Requests, NEW n \in Links, Insert(r, n) PROVE Ages(l)
  BY <1>1, <1>3 DEF Insert, Ages, Unused, Link
<1>4. ASSUME NEW r \in Requests, Mail(r) PROVE Ages(l)
  <2>1. request[r].link \in Links
    BY <1>0, <1>4, CarrierType DEF Mail, Carries, Holding
  <2>2. link'[l] = link[l] \/ link'[l] = [link[l] EXCEPT !.mailed = TRUE]
    BY <1>0, <1>4, <2>1 DEF Mail, TypeOK
  <2> QED
    BY <1>1, <2>2 DEF Ages, Link
<1>5. ASSUME NEW r \in Requests, NEW n \in Links, Consume(r, n) PROVE Ages(l)
  <2>1. \/ link'[l] = link[l]
        \/ link'[l] = [link[l] EXCEPT !.status = "spent"] /\ link[l].status = "good"
    BY <1>0, <1>5 DEF Consume, TypeOK
  <2> QED
    BY <1>1, <2>1 DEF Ages, Link
<1>6. ASSUME NEW n \in Links, Expire(n) PROVE Ages(l)
  <2>1. \/ link'[l] = link[l]
        \/ link'[l] = [link[l] EXCEPT !.status = "expired"] /\ link[l].status = "good"
    BY <1>0, <1>6 DEF Expire, TypeOK
  <2> QED
    BY <1>1, <2>1 DEF Ages, Link
<1>7. \/ link' = link
      \/ \E r \in Requests : Mail(r) \/ \E n \in Links : Insert(r, n) \/ Consume(r, n)
      \/ \E n \in Links : Expire(n)
  BY DEF Next, Register, SetActive, AskReset, AskAddress, Ask, Snapshot, MailFails, Refuse,
         Accept, UpdatePassword, UpdateEmail, ApiCrash
<1> QED
  BY <1>2, <1>3, <1>4, <1>5, <1>6, <1>7

LEMMA LinksStay ==
    ASSUME TypeInv, Next, NEW l \in Links, link[l] # Absent
    PROVE  link'[l] # Absent
<1>1. link[l] \in Link
  BY LinkRow DEF TypeInv
<1>2. Ages(l)
  BY LinksAge
<1> QED
  BY <1>1, <1>2 DEF Ages, Link, Absent, Kinds

(* A row appears only by Insert.                                             *)
LEMMA NewRows ==
    ASSUME TypeInv, Next, NEW n \in Links, link[n] = Absent, link'[n] # Absent
    PROVE  \E r \in Requests : Insert(r, n)
<1>0. TypeOK
  BY DEF TypeInv
<1>1. ASSUME NEW r \in Requests, NEW k \in Links, Insert(r, k) PROVE k = n
  BY <1>1 DEF Insert, Absent, Unused
<1>2. ASSUME NEW r \in Requests, Mail(r) PROVE FALSE
  BY <1>0, <1>2, CarrierType DEF Mail, Carries, Holding, TypeOK, TypeInv, LinksExist
<1>3. ASSUME NEW r \in Requests, NEW k \in Links, Consume(r, k) PROVE FALSE
  <2>1. k # n
    BY <1>0, <1>3, PresentLink DEF Consume
  <2> QED
    BY <1>0, <1>3, <2>1 DEF Consume, TypeOK
<1>4. ASSUME NEW k \in Links, Expire(k) PROVE FALSE
  <2>1. k # n
    BY <1>0, <1>4, PresentLink DEF Expire
  <2> QED
    BY <1>0, <1>4, <2>1 DEF Expire, TypeOK
<1> QED
  BY <1>1, <1>2, <1>3, <1>4
     DEF Next, Register, SetActive, AskReset, AskAddress, Ask, Snapshot, MailFails, Refuse,
         Accept, UpdatePassword, UpdateEmail, ApiCrash

----------------------------------------------------------------------------
(* Older links.                                                              *)

(* What a request saw when it started exists and belongs to its account, and *)
(* once it has taken its snapshot, whatever of it is still unused is there.  *)
SawExists == \A r \in Requests :
    /\ request[r].pc \in {"asked", "locking"}
         => \A l \in request[r].saw :
               l \in Links /\ link[l].kind = request[r].kind /\ link[l].user = request[r].user
    /\ request[r].pc = "locking"
         => \A l \in request[r].saw : Unused(l) => l \in request[r].snap

SeenExist == \A n, l \in Links : l \in link[n].saw => link[l] # Absent

DeadInv == TypeInv /\ SawExists /\ SeenExist /\ OlderLinksAreDead

LEMMA OwnedExists ==
    ASSUME NEW l \in Links, link[l].kind \in Kinds PROVE link[l] # Absent
BY DEF Absent, Kinds

(* How a request comes to be asking: it was, it starts, or it has taken its  *)
(* snapshot.                                                                 *)
Starts(r) ==
    /\ request'[r].pc = "asked" /\ request'[r].kind \in Kinds /\ link' = link
    /\ request'[r].saw = LinksOf(request'[r].user, request'[r].kind)

Snaps(r) ==
    /\ request[r].pc = "asked" /\ request[r] \in Asking /\ link' = link
    /\ request'[r] = [request[r] EXCEPT !.pc = "locking",
          !.snap = {l \in LinksOf(request[r].user, request[r].kind) : Unused(l)}]

LEMMA AskersMove ==
    ASSUME TypeInv, Next, NEW r \in Requests, request'[r].pc \in {"asked", "locking"}
    PROVE  request'[r] = request[r] \/ Starts(r) \/ Snaps(r)
<1>0. TypeOK
  BY DEF TypeInv
<1>1. ASSUME NEW q \in Requests, NEW x, request' = [request EXCEPT ![q] = x],
             ~(x.pc \in {"asked", "locking"})
      PROVE  request'[r] = request[r]
  BY <1>0, <1>1 DEF TypeOK
<1>2. ASSUME request' = request PROVE request'[r] = request[r]
  BY <1>2
<1>3. ASSUME NEW q \in Requests, NEW u \in Users, NEW kind \in Kinds, NEW a, Ask(q, u, kind, a)
      PROVE  request'[r] = request[r] \/ Starts(r)
  BY <1>0, <1>3 DEF Ask, TypeOK, Starts
<1>4. ASSUME NEW q \in Requests, NEW u \in Users,
             AskReset(q, u) \/ \E a \in Addresses : AskAddress(q, u, a)
      PROVE  \E kind \in Kinds : \E a : Ask(q, u, kind, a)
  BY <1>4 DEF AskReset, AskAddress, Kinds
<1>5. ASSUME NEW q \in Requests, Snapshot(q)
      PROVE  request'[r] = request[r] \/ Snaps(r)
  BY <1>0, <1>5, AskerType DEF Snapshot, TypeOK, Snaps
<1>6. ASSUME NEW q \in Requests, NEW n \in Links, Insert(q, n) PROVE request'[r] = request[r]
  <2>1. request[q] \in Asking
    BY <1>0, <1>6, AskerType DEF Insert
  <2> QED
    BY <1>1, <1>6, <2>1 DEF Insert, Sent, Asking
<1>7. ASSUME NEW q \in Requests, NEW n \in Links, Consume(q, n) PROVE request'[r] = request[r]
  BY <1>1, <1>7 DEF Consume, Followed
<1>8. ASSUME NEW q \in Requests, Accept(q) PROVE request'[r] = request[r]
  BY <1>0, <1>8 DEF Accept, TypeOK
<1>9. ASSUME NEW q \in Requests,
             Mail(q) \/ MailFails(q) \/ Refuse(q) \/ UpdatePassword(q) \/ UpdateEmail(q)
      PROVE  request'[r] = request[r]
  <2>1. request' = [request EXCEPT ![q] = Idle]
    BY <1>9 DEF Mail, MailFails, Refuse, UpdatePassword, UpdateEmail
  <2> QED
    BY <1>1, <2>1 DEF Idle
<1>10. ApiCrash => FALSE
  BY DEF ApiCrash, Idle
<1>11. \/ request' = request
       \/ \E q \in Requests :
             \/ \E u \in Users : AskReset(q, u) \/ \E a \in Addresses : AskAddress(q, u, a)
             \/ Snapshot(q) \/ Accept(q)
             \/ Mail(q) \/ MailFails(q) \/ Refuse(q) \/ UpdatePassword(q) \/ UpdateEmail(q)
             \/ \E n \in Links : Insert(q, n) \/ Consume(q, n)
       \/ ApiCrash
  BY DEF Next, Register, SetActive, Expire
<1>12. ASSUME NEW q \in Requests, NEW u \in Users,
              AskReset(q, u) \/ \E a \in Addresses : AskAddress(q, u, a)
       PROVE  request'[r] = request[r] \/ Starts(r)
  BY <1>3, <1>4, <1>12
<1> QED
  BY <1>2, <1>5, <1>6, <1>7, <1>8, <1>9, <1>10, <1>11, <1>12

LEMMA DeadStep == DeadInv /\ [Next]_vars => DeadInv'
<1> SUFFICES ASSUME DeadInv, Next PROVE DeadInv'
  <2>1. TypeInv /\ UNCHANGED vars => TypeInv'
    BY TypeStep
  <2> QED
    BY <2>1 DEF DeadInv, SawExists, SeenExist, OlderLinksAreDead, vars, Unused, LinksOf
<1>0. TypeInv /\ TypeInv' /\ TypeOK
  BY TypeStep DEF DeadInv, TypeInv
<1>1. SawExists'
  <2> SUFFICES ASSUME NEW r \in Requests, request'[r].pc \in {"asked", "locking"},
                      NEW l \in request'[r].saw
               PROVE  /\ l \in Links
                      /\ link'[l].kind = request'[r].kind /\ link'[l].user = request'[r].user
                      /\ request'[r].pc = "locking" /\ Unused(l)' => l \in request'[r].snap
    BY DEF SawExists
  <2>1. CASE request'[r] = request[r]
    <3>1. /\ l \in Links
          /\ link[l].kind = request[r].kind /\ link[l].user = request[r].user
          /\ request[r].pc = "locking" /\ Unused(l) => l \in request[r].snap
      BY <2>1 DEF DeadInv, SawExists
    <3>2. link[l] # Absent
      BY <1>0, <2>1, <3>1, AskerType, OwnedExists DEF Asking
    <3>3. Ages(l)
      BY <1>0, <3>1, <3>2, LinksAge
    <3> QED
      BY <2>1, <3>1, <3>3 DEF Ages, Unused
  <2>2. CASE Starts(r)
    BY <2>2 DEF Starts, LinksOf
  <2>3. CASE Snaps(r)
    <3>1. l \in request[r].saw /\ request'[r].kind = request[r].kind
          /\ request'[r].user = request[r].user
      BY <2>3 DEF Snaps, Asking
    <3>2. l \in Links /\ link[l].kind = request[r].kind /\ link[l].user = request[r].user
      BY <2>3, <3>1 DEF DeadInv, SawExists, Snaps
    <3>3. request'[r].snap = {k \in LinksOf(request[r].user, request[r].kind) : Unused(k)}
      BY <2>3 DEF Snaps, Asking
    <3> QED
      BY <2>3, <3>1, <3>2, <3>3 DEF Snaps, LinksOf, Unused
  <2> QED
    BY <1>0, <2>1, <2>2, <2>3, AskersMove
<1>2. ASSUME NEW n \in Links, NEW l \in Links, l \in link'[n].saw
      PROVE  link'[l] # Absent /\ ~Unused(l)'
  <2>1. CASE link[n] # Absent
    <3>1. l \in link[n].saw
      BY <1>0, <1>2, <2>1, LinksAge DEF Ages
    <3>2. link[l] # Absent /\ ~Unused(l)
      BY <3>1 DEF DeadInv, SeenExist, OlderLinksAreDead
    <3>3. ~Unused(l)'
      BY <1>0, <3>2, LinksAge DEF Ages, Unused
    <3>4. link[l].status # "absent"
      BY <1>0, <3>2, LinkRow DEF Link
    <3>5. link'[l] # Absent
      BY <1>0, <3>2, <3>4, LinksStay
    <3> QED
      BY <3>3, <3>5
  <2>2. CASE link[n] = Absent
    <3>1. link'[n] # Absent
      BY <1>2 DEF Absent
    <3>2. PICK r \in Requests : Insert(r, n)
      BY <1>0, <2>2, <3>1, NewRows
    <3>3. request[r] \in Asking
      BY <1>0, <3>2, AskerType DEF Insert
    <3>4. link'[n] = NewLink(request[r])
      BY <3>2 DEF Insert
    <3>5. l \in request[r].saw
      BY <1>2, <3>4 DEF NewLink
    <3>6. link[l].kind = request[r].kind
      BY <3>2, <3>5 DEF DeadInv, SawExists, Insert
    <3>7. link[l] # Absent /\ l # n
      BY <2>2, <3>3, <3>6, OwnedExists DEF Asking
    <3>8. Unused(l) => l \in request[r].snap
      BY <3>2, <3>5 DEF DeadInv, SawExists, Insert
    <3>9. link[l] \in Link
      BY <1>0, <3>7, LinkRow
    <3> QED
      BY <3>2, <3>7, <3>8, <3>9 DEF Insert, Unused, Link, Absent
  <2> QED
    BY <2>1, <2>2
<1> QED
  BY <1>0, <1>1, <1>2 DEF DeadInv, SeenExist, OlderLinksAreDead

(* A link is dead once a newer one of its kind is in the table, however the  *)
(* requests, the links followed and the crashes interleave.                  *)
THEOREM AskingAgainRetires == Spec => []OlderLinksAreDead
<1>1. Init => DeadInv
  BY InitTypeInv DEF Init, DeadInv, SawExists, SeenExist, OlderLinksAreDead, Idle, Absent
<1>2. DeadInv => OlderLinksAreDead
  BY DEF DeadInv
<1> QED
  BY <1>1, <1>2, DeadStep, PTL DEF Spec

----------------------------------------------------------------------------
(* One use for each link.                                                    *)

UseInv == TypeInv /\ OneUsePerLink

(* A request carries a link because it did before, or by consuming it.       *)
Keeps(r, l) ==
    /\ Carrying(r, l)
    /\ request'[r].kind = request[r].kind /\ request'[r].user = request[r].user
    /\ request'[r].to = request[r].to

LEMMA CarriersMove ==
    ASSUME TypeInv, Next, NEW r \in Requests, NEW l \in Links, Carrying(r, l)'
    PROVE  Keeps(r, l) \/ Consume(r, l)
<1>0. TypeOK
  BY DEF TypeInv
<1>1. ASSUME NEW q \in Requests, NEW x, request' = [request EXCEPT ![q] = x],
             ~(x.pc \in {"followed", "writing"})
      PROVE  Keeps(r, l)
  BY <1>0, <1>1 DEF TypeOK, Carrying, Keeps
<1>2. ASSUME request' = request PROVE Keeps(r, l)
  BY <1>2 DEF Carrying, Keeps
<1>3. ASSUME NEW q \in Requests, NEW u, NEW kind, NEW a, Ask(q, u, kind, a)
      PROVE  Keeps(r, l)
  BY <1>1, <1>3 DEF Ask
<1>4. ASSUME NEW q \in Requests, NEW u \in Users,
             AskReset(q, u) \/ \E a \in Addresses : AskAddress(q, u, a)
      PROVE  Keeps(r, l)
  BY <1>3, <1>4 DEF AskReset, AskAddress
<1>5. ASSUME NEW q \in Requests, Snapshot(q) PROVE Keeps(r, l)
  BY <1>0, <1>5, AskerType DEF Snapshot, TypeOK, Carrying, Asking, Keeps
<1>6. ASSUME NEW q \in Requests, NEW n \in Links, Insert(q, n) PROVE Keeps(r, l)
  <2>1. request[q] \in Asking
    BY <1>0, <1>6, AskerType DEF Insert
  <2>2. ~(Sent(request[q], n).pc \in {"followed", "writing"})
    BY <2>1 DEF Sent, Asking
  <2> QED
    BY <1>1, <1>6, <2>2 DEF Insert
<1>7. ASSUME NEW q \in Requests, NEW n \in Links, Consume(q, n)
      PROVE  Keeps(r, l) \/ Consume(r, l)
  BY <1>0, <1>7 DEF Consume, Followed, TypeOK, Carrying, Keeps
<1>8. ASSUME NEW q \in Requests, Accept(q) PROVE Keeps(r, l)
  BY <1>0, <1>8, CarrierType DEF Accept, TypeOK, Carrying, Carries, Holding, Keeps
<1>9. ASSUME NEW q \in Requests,
             Mail(q) \/ MailFails(q) \/ Refuse(q) \/ UpdatePassword(q) \/ UpdateEmail(q)
      PROVE  Keeps(r, l)
  <2>1. request' = [request EXCEPT ![q] = Idle]
    BY <1>9 DEF Mail, MailFails, Refuse, UpdatePassword, UpdateEmail
  <2> QED
    BY <1>1, <2>1 DEF Idle
<1>10. ApiCrash => FALSE
  BY DEF ApiCrash, Idle, Carrying
<1>11. \/ request' = request
       \/ \E q \in Requests :
             \/ \E u \in Users : AskReset(q, u) \/ \E a \in Addresses : AskAddress(q, u, a)
             \/ Snapshot(q) \/ Accept(q)
             \/ Mail(q) \/ MailFails(q) \/ Refuse(q) \/ UpdatePassword(q) \/ UpdateEmail(q)
             \/ \E n \in Links : Insert(q, n) \/ Consume(q, n)
       \/ ApiCrash
  BY DEF Next, Register, SetActive, Expire
<1> QED
  BY <1>2, <1>4, <1>5, <1>6, <1>7, <1>8, <1>9, <1>10, <1>11

(* A use is made by a request that carries the link, and lets go of it.      *)
Uses(r, l) == Carrying(r, l) /\ uses'[l] = uses[l] + 1 /\ ~Carrying(r, l)'

LEMMA UsesMove ==
    ASSUME TypeInv, Next, NEW l \in Links, uses'[l] # uses[l]
    PROVE  \E r \in Requests : Uses(r, l)
<1>0. TypeOK
  BY DEF TypeInv
<1>1. ASSUME NEW r \in Requests, UpdatePassword(r) \/ UpdateEmail(r) PROVE Uses(r, l)
  <2>1. request[r] \in Holding /\ request'[r] = Idle
    BY <1>0, <1>1, CarrierType DEF UpdatePassword, UpdateEmail, Carries, TypeOK
  <2>2. uses' = [uses EXCEPT ![request[r].link] = uses[request[r].link] + 1]
    BY <1>1 DEF UpdatePassword, UpdateEmail
  <2>3. request[r].link = l /\ uses'[l] = uses[l] + 1
    BY <1>0, <2>1, <2>2 DEF TypeOK, Holding
  <2> QED
    BY <1>1, <2>1, <2>3 DEF Uses, Carrying, UpdatePassword, UpdateEmail, Idle
<1> QED
  BY <1>1 DEF Next, Register, SetActive, AskReset, AskAddress, Ask, Snapshot, Insert, Mail,
              MailFails, Consume, Refuse, Accept, Expire, ApiCrash

LEMMA UseStep == UseInv /\ [Next]_vars => UseInv'
<1> SUFFICES ASSUME UseInv, Next PROVE UseInv'
  <2>1. TypeInv /\ UNCHANGED vars => TypeInv'
    BY TypeStep
  <2> QED
    BY <2>1 DEF UseInv, OneUsePerLink, vars, Carrying
<1>0. TypeInv /\ TypeInv' /\ TypeOK
  BY TypeStep DEF UseInv, TypeInv
<1> SUFFICES ASSUME NEW l \in Links
             PROVE  /\ uses'[l] <= 1
                    /\ uses'[l] = 1 => link'[l].status = "spent"
                    /\ \A r \in Requests : Carrying(r, l)' =>
                          /\ link'[l].status = "spent" /\ uses'[l] = 0
                          /\ \A q \in Requests : Carrying(q, l)' => q = r
  BY <1>0 DEF UseInv, OneUsePerLink
<1>1. uses[l] \in Nat /\ uses[l] <= 1 /\ (uses[l] = 1 => link[l].status = "spent")
  BY <1>0 DEF TypeOK, UseInv, OneUsePerLink
<1>2. ASSUME NEW r \in Requests, Carrying(r, l)
      PROVE  /\ link[l].status = "spent" /\ uses[l] = 0
             /\ \A q \in Requests : Carrying(q, l) => q = r
  BY <1>2 DEF UseInv, OneUsePerLink
<1>3. link[l].status = "spent" => link'[l].status = "spent"
  BY <1>0, LinksAge DEF Ages, Absent
<1>4. ASSUME NEW r \in Requests, Consume(r, l)
      PROVE  /\ link[l].status = "good" /\ link'[l].status = "spent" /\ uses' = uses
  BY <1>0, <1>4, PresentLink DEF Consume, TypeOK, Link
<1>5. CASE uses'[l] = uses[l]
  <2>1. ASSUME NEW r \in Requests, Carrying(r, l)'
        PROVE  link'[l].status = "spent" /\ uses'[l] = 0
    BY <1>0, <1>1, <1>2, <1>3, <1>4, <1>5, <2>1, CarriersMove DEF Keeps
  <2>2. ASSUME NEW r \in Requests, Carrying(r, l)', NEW q \in Requests, Carrying(q, l)'
        PROVE  q = r
    <3>1. CASE Carrying(r, l) /\ Carrying(q, l)
      BY <1>2, <3>1
    <3>2. CASE Consume(r, l) /\ Consume(q, l)
      BY <1>0, <2>2, <3>2 DEF Consume, TypeOK, Carrying
    <3>3. CASE \E x \in Requests : Carrying(x, l) /\ \E y \in Requests : Consume(y, l)
      BY <1>2, <1>4, <3>3
    <3> QED
      BY <1>0, <2>2, <3>1, <3>2, <3>3, CarriersMove DEF Keeps
  <2> QED
    BY <1>1, <1>3, <1>5, <2>1, <2>2
<1>6. CASE uses'[l] # uses[l]
  <2>1. PICK r \in Requests : Uses(r, l)
    BY <1>0, <1>6, UsesMove
  <2>2. link[l].status = "spent" /\ uses[l] = 0 /\ uses'[l] = 1
    BY <1>2, <2>1 DEF Uses
  <2>3. ASSUME NEW q \in Requests, Carrying(q, l)' PROVE FALSE
    <3>1. CASE Carrying(q, l)
      <4>1. q = r
        BY <1>2, <2>1, <3>1 DEF Uses
      <4> QED
        BY <2>1, <2>3, <4>1 DEF Uses
    <3>2. CASE Consume(q, l)
      BY <1>4, <2>2, <3>2
    <3> QED
      BY <1>0, <2>3, <3>1, <3>2, CarriersMove DEF Keeps
  <2> QED
    BY <1>3, <2>2, <2>3
<1> QED
  BY <1>5, <1>6

(* A link makes at most one change, followed by however many requests.       *)
THEOREM LinksWorkOnce == Spec => []OneUsePerLink
<1>1. Init => UseInv
  BY InitTypeInv DEF Init, UseInv, OneUsePerLink, Carrying, Idle
<1>2. UseInv => OneUsePerLink
  BY DEF UseInv
<1> QED
  BY <1>1, <1>2, UseStep, PTL DEF Spec

----------------------------------------------------------------------------
(* Addresses.                                                                *)

LEMMA UniqueStep == TypeInv /\ AddressesAreUnique /\ [Next]_vars => AddressesAreUnique'
<1> SUFFICES ASSUME TypeInv, AddressesAreUnique, [Next]_vars PROVE AddressesAreUnique'
  OBVIOUS
<1>0. TypeOK
  BY DEF TypeInv
<1>1. ASSUME NEW u \in Users, NEW a, FreeFor(u, a), account'[u].address = a,
             \A v \in Users : v # u => account'[v] = account[v]
      PROVE  AddressesAreUnique'
  BY <1>1 DEF AddressesAreUnique, FreeFor
<1>2. ASSUME \A v \in Users : account'[v].address = account[v].address
      PROVE  AddressesAreUnique'
  BY <1>2 DEF AddressesAreUnique
<1>3. ASSUME NEW u \in Users, NEW a \in Addresses, Register(u, a) PROVE AddressesAreUnique'
  BY <1>0, <1>1, <1>3 DEF Register, TypeOK, Free, FreeFor
<1>4. ASSUME NEW u \in Users, NEW flag \in BOOLEAN, SetActive(u, flag) PROVE AddressesAreUnique'
  BY <1>0, <1>2, <1>4 DEF SetActive, TypeOK, Account
<1>5. ASSUME NEW r \in Requests, UpdateEmail(r) PROVE AddressesAreUnique'
  <2>1. request[r].user \in Users
    BY <1>0, <1>5, CarrierType DEF UpdateEmail, Carries, Holding
  <2>2. CASE FreeFor(request[r].user, request[r].to)
    <3>1. account' = [account EXCEPT ![request[r].user].address = request[r].to]
      BY <1>5, <2>2 DEF UpdateEmail
    <3>2. account'[request[r].user].address = request[r].to
      BY <1>0, <2>1, <3>1 DEF TypeOK, Account
    <3>3. \A v \in Users : v # request[r].user => account'[v] = account[v]
      BY <1>0, <2>1, <3>1 DEF TypeOK
    <3> QED
      BY <1>1, <2>1, <2>2, <3>2, <3>3
  <2>3. CASE ~FreeFor(request[r].user, request[r].to)
    BY <1>2, <1>5, <2>3 DEF UpdateEmail
  <2> QED
    BY <2>2, <2>3
<1>6. account' = account => AddressesAreUnique'
  BY <1>2
<1> QED
  BY <1>3, <1>4, <1>5, <1>6
     DEF Next, vars, AskReset, AskAddress, Ask, Snapshot, Insert, Mail, MailFails, Consume,
         Refuse, Accept, UpdatePassword, Expire, ApiCrash

(* Two accounts never share an address, whichever requests race for it.      *)
THEOREM AddressesStayUnique == Spec => []AddressesAreUnique
<1>1. Init => AddressesAreUnique
  BY DEF Init, AddressesAreUnique, Unregistered
<1> QED
  BY <1>1, InitTypeInv, TypeStep, UniqueStep, PTL DEF Spec

(* A request that carries an address link asks for what the link asks for,   *)
(* and the link was mailed.                                                  *)
CarriersMatch ==
    \A r \in Requests, l \in Links : Carrying(r, l) =>
        /\ link[l].kind = request[r].kind /\ link[l].user = request[r].user
        /\ link[l].to = request[r].to /\ link[l].mailed

Proof(l, u, a) == /\ link[l].kind = "address" /\ link[l].user = u /\ link[l].to = a
                  /\ link[l].mailed /\ uses[l] = 1

Proved(u) == \/ account[u].address = account[u].first
             \/ \E l \in Links : Proof(l, u, account[u].address)

ProvedInv == UseInv /\ CarriersMatch /\ AddressesAreProved

LEMMA ProvedStep == ProvedInv /\ [Next]_vars => ProvedInv'
<1> SUFFICES ASSUME ProvedInv, Next PROVE ProvedInv'
  <2>1. UseInv /\ UNCHANGED vars => UseInv'
    BY UseStep
  <2> QED
    BY <2>1 DEF ProvedInv, CarriersMatch, AddressesAreProved, vars, Carrying
<1>0. UseInv /\ UseInv' /\ TypeInv /\ TypeOK /\ TypeInv'
  BY UseStep DEF ProvedInv, UseInv, TypeInv
<1>1. ASSUME NEW r \in Requests, NEW l \in Links, Carrying(r, l)'
      PROVE  /\ link'[l].kind = request'[r].kind /\ link'[l].user = request'[r].user
             /\ link'[l].to = request'[r].to /\ link'[l].mailed
  <2>1. CASE Keeps(r, l)
    <3>1. /\ link[l].kind = request[r].kind /\ link[l].user = request[r].user
          /\ link[l].to = request[r].to /\ link[l].mailed
      BY <2>1 DEF Keeps, ProvedInv, CarriersMatch
    <3>2. Ages(l)
      BY <1>0, <3>1, PresentLink, LinksAge
    <3> QED
      BY <2>1, <3>1, <3>2 DEF Ages, Keeps
  <2>2. CASE Consume(r, l)
    <3>1. link[l] \in Link /\ link[l].mailed
      BY <1>0, <2>2, PresentLink DEF Consume
    <3>2. link'[l] = [link[l] EXCEPT !.status = "spent"] /\ request'[r] = Followed(l)
      BY <1>0, <2>2 DEF Consume, TypeOK
    <3> QED
      BY <3>1, <3>2 DEF Followed, Link
  <2> QED
    BY <1>0, <1>1, <2>1, <2>2, CarriersMove
<1>2. ASSUME NEW u, NEW a, NEW l \in Links, Proof(l, u, a) PROVE Proof(l, u, a)'
  <2>1. link[l] # Absent /\ Ages(l)
    BY <1>0, <1>2, PresentLink, LinksAge DEF Proof
  <2>2. uses'[l] = uses[l]
    <3>1. ASSUME NEW r \in Requests, Carrying(r, l) PROVE FALSE
      BY <1>0, <1>2, <3>1 DEF UseInv, OneUsePerLink, Proof
    <3> QED
      BY <1>0, <3>1, UsesMove DEF Uses
  <2> QED
    BY <1>2, <2>1, <2>2 DEF Proof, Ages
<1>3. ASSUME NEW u \in Users,
             account'[u].address = account[u].address, account'[u].first = account[u].first
      PROVE  Proved(u)'
  <2>1. CASE account[u].address = account[u].first
    BY <1>3, <2>1 DEF Proved
  <2>2. CASE \E l \in Links : Proof(l, u, account[u].address)
    <3>1. PICK l \in Links : Proof(l, u, account[u].address)
      BY <2>2
    <3>2. Proof(l, u, account[u].address)'
      BY <1>2, <1>3, <3>1 DEF Proof
    <3> QED
      BY <3>2 DEF Proved
  <2> QED
    BY <2>1, <2>2 DEF ProvedInv, AddressesAreProved, Proof
<1>4. ASSUME NEW u \in Users
      PROVE  Proved(u)'
  <2>1. ASSUME NEW v \in Users, NEW a \in Addresses, Register(v, a) PROVE Proved(u)'
    <3>1. CASE u = v
      BY <1>0, <2>1, <3>1 DEF Register, TypeOK, Proved
    <3>2. CASE u # v
      BY <1>0, <1>3, <2>1, <3>2 DEF Register, TypeOK
    <3> QED
      BY <3>1, <3>2
  <2>2. ASSUME NEW v \in Users, NEW flag \in BOOLEAN, SetActive(v, flag) PROVE Proved(u)'
    BY <1>0, <1>3, <2>2 DEF SetActive, TypeOK, Account
  <2>3. ASSUME NEW r \in Requests, UpdateEmail(r) PROVE Proved(u)'
    <3>1. request[r] \in Holding
      BY <1>0, <2>3, CarrierType DEF UpdateEmail, Carries
    <3>2. PICK k \in Links : k = request[r].link
      BY <3>1 DEF Holding
    <3>3. request[r].user \in Users /\ Carrying(r, k)
      BY <2>3, <3>1, <3>2 DEF Holding, Carrying, UpdateEmail
    <3>4. CASE FreeFor(request[r].user, request[r].to) /\ request[r].user = u
      <4>1. account'[u].address = request[r].to /\ uses'[k] = uses[k] + 1 /\ link' = link
        BY <1>0, <2>3, <3>2, <3>4, <3>3 DEF UpdateEmail, TypeOK, Account
      <4>2. uses[k] = 0
        BY <1>0, <3>2, <3>3 DEF UseInv, OneUsePerLink
      <4>3. /\ link[k].kind = "address" /\ link[k].user = u
            /\ link[k].to = request[r].to /\ link[k].mailed
        BY <2>3, <3>2, <3>4, <3>3 DEF ProvedInv, CarriersMatch, UpdateEmail
      <4>4. Proof(k, u, account[u].address)'
        BY <4>1, <4>2, <4>3 DEF Proof
      <4> QED
        BY <3>2, <4>4 DEF Proved
    <3>5. CASE ~FreeFor(request[r].user, request[r].to)
      BY <1>3, <2>3, <3>5 DEF UpdateEmail
    <3>6. CASE FreeFor(request[r].user, request[r].to) /\ request[r].user # u
      BY <1>0, <1>3, <2>3, <3>6 DEF UpdateEmail, TypeOK
    <3> QED
      BY <3>4, <3>5, <3>6
  <2>4. account' = account => Proved(u)'
    BY <1>3
  <2> QED
    BY <2>1, <2>2, <2>3, <2>4
       DEF Next, AskReset, AskAddress, Ask, Snapshot, Insert, Mail, MailFails, Consume,
           Refuse, Accept, UpdatePassword, Expire, ApiCrash
<1> QED
  BY <1>0, <1>1, <1>4 DEF ProvedInv, CarriersMatch, AddressesAreProved, Proved, Proof

(* An account is only ever at an address that proved to be its own.          *)
THEOREM AddressesStayProved == Spec => []AddressesAreProved
<1>1. Init => ProvedInv
  BY InitTypeInv DEF Init, ProvedInv, UseInv, OneUsePerLink, CarriersMatch, Carrying, Idle,
                     AddressesAreProved, Unregistered
<1>2. ProvedInv => AddressesAreProved
  BY DEF ProvedInv
<1> QED
  BY <1>1, <1>2, ProvedStep, PTL DEF Spec
=============================================================================
