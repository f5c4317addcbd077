----------------------------- MODULE MailLinks -----------------------------
(***************************************************************************)
(* The one-time links the application mails: to reset a password, and to    *)
(* move an account to another address.  Asking again retires the links the  *)
(* account already had of that kind; following a link spends it before      *)
(* anything else happens.                                                   *)
(*                                                                          *)
(* Both token tables work alike and are one variable.  One action is one    *)
(* transaction, except that replace_for_user is two: the snapshot its       *)
(* SELECT ... FOR UPDATE takes when it starts, and the commit, by which it  *)
(* has re-read the rows it had to wait for (READ COMMITTED).  What a reset  *)
(* does to open sessions is in RefreshTokens, and how often somebody may    *)
(* ask is the rate limiter's business.                                      *)
(***************************************************************************)
EXTENDS Integers

CONSTANTS
    Users,
    Addresses,
    Links,        \* rows the two token tables can ever hold
    Requests      \* request threads and background tasks

VARIABLES
    account,      \* the users table: address, is_active
    link,         \* password_reset_tokens and email_change_tokens
    request,      \* what each thread is doing
    uses          \* history: uses[l]: password or address changes made by l

vars == <<account, link, request, uses>>

Kinds == {"reset", "address"}

(* `first' is history: the address the account was registered with.          *)
Unregistered == [address |-> "none", active |-> FALSE, first |-> "none"]
Account == [address : Addresses \cup {"none"}, active : BOOLEAN,
            first : Addresses \cup {"none"}]

(* `to' is the mailbox the link goes to, and of an address link the address  *)
(* it asks for.  used_at is set in both "retired" and "spent": which of the  *)
(* two is history, and so is `saw', the links its account already had of     *)
(* this kind when this one was asked for.                                    *)
Absent == [kind |-> "none", user |-> "none", to |-> "none", status |-> "absent",
           mailed |-> FALSE, saw |-> {}]
Link == [kind : Kinds, user : Users, to : Addresses,
         status : {"good", "expired", "retired", "spent"},
         mailed : BOOLEAN, saw : SUBSET Links]

Idle == [pc |-> "idle", kind |-> "none", user |-> "none", to |-> "none",
         link |-> "none", saw |-> {}, snap |-> {}]
Asking == [pc : {"asked", "locking"}, kind : Kinds, user : Users, to : Addresses,
           link : {"none"}, saw : SUBSET Links, snap : SUBSET Links]
Holding == [pc : {"mailing", "followed", "writing"}, kind : Kinds, user : Users,
            to : Addresses, link : Links, saw : {{}}, snap : {{}}]

TypeOK ==
    /\ account \in [Users -> Account]
    /\ link \in [Links -> Link \cup {Absent}]
    /\ request \in [Requests -> Asking \cup Holding \cup {Idle}]
    /\ uses \in [Links -> Nat]

Init ==
    /\ account = [u \in Users |-> Unregistered]
    /\ link = [l \in Links |-> Absent]
    /\ request = [r \in Requests |-> Idle]
    /\ uses = [l \in Links |-> 0]

Free(a)   == \A u \in Users : account[u].address # a
FreeFor(u, a) == \A v \in Users \ {u} : account[v].address # a
Unused(l) == link[l].status \in {"good", "expired"}       \* used_at IS NULL
LinksOf(u, kind) == {l \in Links : link[l].kind = kind /\ link[l].user = u}

----------------------------------------------------------------------------
(* Accounts.                                                                 *)

(* RegisterUser: whatever it looked up first, the unique index decides.      *)
Register(u, a) ==
    /\ account[u] = Unregistered
    /\ Free(a)
    /\ account' = [account EXCEPT ![u] = [address |-> a, active |-> TRUE, first |-> a]]
    /\ UNCHANGED <<link, request, uses>>

SetActive(u, flag) ==
    /\ account[u] # Unregistered
    /\ account' = [account EXCEPT ![u].active = flag]
    /\ UNCHANGED <<link, request, uses>>

----------------------------------------------------------------------------
(* Asking for a link.                                                        *)

Ask(r, u, kind, a) ==
    /\ request[r].pc = "idle"
    /\ account[u].active
    /\ request' = [request EXCEPT ![r] =
          [pc |-> "asked", kind |-> kind, user |-> u, to |-> a, link |-> "none",
           saw |-> LinksOf(u, kind), snap |-> {}]]
    /\ UNCHANGED <<account, link, uses>>

(* RequestPasswordReset, in a background task: an address nobody has, or an  *)
(* account that is switched off, ends it here.                               *)
AskReset(r, u) == Ask(r, u, "reset", account[u].address)

(* Mutant: the account moves when it asks.                                   *)
AskAddressMoves(r, u, a) ==
    /\ Free(a)
    /\ request[r].pc = "idle"
    /\ account[u].active
    /\ account' = [account EXCEPT ![u].address = a]
    /\ UNCHANGED <<link, request, uses>>

(* RequestEmailChange, by a caller who knows the password.                   *)
AskAddress(r, u, a) == Free(a) /\ Ask(r, u, "address", a)

(* replace_for_user: the statement starts.                                   *)
Snapshot(r) ==
    /\ request[r].pc = "asked"
    /\ request' = [request EXCEPT ![r].pc = "locking",
          ![r].snap = {l \in LinksOf(request[r].user, request[r].kind) : Unused(l)}]
    /\ UNCHANGED <<account, link, uses>>

NewLink(q) == [kind |-> q.kind, user |-> q.user, to |-> q.to, status |-> "good",
               mailed |-> FALSE, saw |-> q.saw]

(* Mutant: the request loses the row it inserted.                            *)
SentBlank(q, n) == [q EXCEPT !.pc = "mailing", !.saw = {}, !.snap = {}]

Sent(q, n) == [q EXCEPT !.pc = "mailing", !.link = n, !.saw = {}, !.snap = {}]

(* Mutant: the older links are left alone.                                   *)
InsertOnly(r, n) ==
    /\ request[r].pc = "locking"
    /\ link[n] = Absent
    /\ link' = [link EXCEPT ![n] = NewLink(request[r])]
    /\ request' = [request EXCEPT ![r] = Sent(request[r], n)]
    /\ UNCHANGED <<account, uses>>

(* ... and commits.  A row used meanwhile no longer matches.                 *)
Insert(r, n) ==
    /\ request[r].pc = "locking"
    /\ link[n] = Absent
    /\ link' = [l \in Links |->
          IF l = n THEN NewLink(request[r])
          ELSE IF l \in request[r].snap /\ Unused(l)
               THEN [link[l] EXCEPT !.status = "retired"] ELSE link[l]]
    /\ request' = [request EXCEPT ![r] = Sent(request[r], n)]
    /\ UNCHANGED <<account, uses>>

(* mailer.send, the one moment the usable token exists anywhere.             *)
Mail(r) ==
    /\ request[r].pc = "mailing"
    /\ link' = [link EXCEPT ![request[r].link].mailed = TRUE]
    /\ request' = [request EXCEPT ![r] = Idle]
    /\ UNCHANGED <<account, uses>>

(* The mail server refuses.  The older links are gone all the same.          *)
MailFails(r) ==
    /\ request[r].pc = "mailing"
    /\ request' = [request EXCEPT ![r] = Idle]
    /\ UNCHANGED <<account, link, uses>>

----------------------------------------------------------------------------
(* Following a link.                                                         *)

Followed(l) == [pc |-> "followed", kind |-> link[l].kind, user |-> link[l].user,
                to |-> link[l].to, link |-> l, saw |-> {}, snap |-> {}]

(* Mutant: the link is looked at and not marked.                             *)
LookAt(r, l) ==
    /\ request[r].pc = "idle"
    /\ link[l].mailed
    /\ link[l].status = "good"
    /\ request' = [request EXCEPT ![r] = Followed(l)]
    /\ UNCHANGED <<account, link, uses>>

(* consume: lock, check and mark in one transaction.  Anything but a good    *)
(* link changes nothing.                                                     *)
Consume(r, l) ==
    /\ request[r].pc = "idle"
    /\ link[l].mailed
    /\ link[l].status = "good"
    /\ link' = [link EXCEPT ![l].status = "spent"]
    /\ request' = [request EXCEPT ![r] = Followed(l)]
    /\ UNCHANGED <<account, uses>>

(* The account is looked at afterwards: for one that is switched off, or an  *)
(* address taken since, the link is spent for nothing.                       *)
Refuse(r) ==
    /\ request[r].pc = "followed"
    /\ \/ ~account[request[r].user].active
       \/ request[r].kind = "address" /\ ~Free(request[r].to)
    /\ request' = [request EXCEPT ![r] = Idle]
    /\ UNCHANGED <<account, link, uses>>

Accept(r) ==
    /\ request[r].pc = "followed"
    /\ account[request[r].user].active
    /\ request[r].kind = "address" => Free(request[r].to)
    /\ request' = [request EXCEPT ![r].pc = "writing"]
    /\ UNCHANGED <<account, link, uses>>

(* update_password.                                                          *)
UpdatePassword(r) ==
    /\ request[r].pc = "writing"
    /\ request[r].kind = "reset"
    /\ uses' = [uses EXCEPT ![request[r].link] = @ + 1]
    /\ request' = [request EXCEPT ![r] = Idle]
    /\ UNCHANGED <<account, link>>

(* Mutant: no unique index on users.email.                                   *)
UpdateEmailUnchecked(r) ==
    /\ request[r].pc = "writing"
    /\ request[r].kind = "address"
    /\ account' = [account EXCEPT ![request[r].user].address = request[r].to]
    /\ uses' = [uses EXCEPT ![request[r].link] = @ + 1]
    /\ request' = [request EXCEPT ![r] = Idle]
    /\ UNCHANGED link

(* update_email: the unique index has the last word.                         *)
UpdateEmail(r) ==
    /\ request[r].pc = "writing"
    /\ request[r].kind = "address"
    /\ IF FreeFor(request[r].user, request[r].to)
       THEN /\ account' = [account EXCEPT ![request[r].user].address = request[r].to]
            /\ uses' = [uses EXCEPT ![request[r].link] = @ + 1]
       ELSE UNCHANGED <<account, uses>>
    /\ request' = [request EXCEPT ![r] = Idle]
    /\ UNCHANGED link

----------------------------------------------------------------------------
(* Time, and the process.                                                    *)

Expire(l) ==
    /\ link[l].status = "good"
    /\ link' = [link EXCEPT ![l].status = "expired"]
    /\ UNCHANGED <<account, request, uses>>

ApiCrash ==
    /\ request' = [r \in Requests |-> Idle]
    /\ UNCHANGED <<account, link, uses>>

----------------------------------------------------------------------------
Next ==
    \/ \E u \in Users, a \in Addresses : Register(u, a)
    \/ \E u \in Users, flag \in BOOLEAN : SetActive(u, flag)
    \/ \E r \in Requests :
          \/ \E u \in Users : AskReset(r, u) \/ \E a \in Addresses : AskAddress(r, u, a)
          \/ Snapshot(r) \/ Mail(r) \/ MailFails(r)
          \/ \E l \in Links : Insert(r, l) \/ Consume(r, l)
          \/ Refuse(r) \/ Accept(r) \/ UpdatePassword(r) \/ UpdateEmail(r)
    \/ \E l \in Links : Expire(l)
    \/ ApiCrash

Spec == Init /\ [][Next]_vars

----------------------------------------------------------------------------
(* Properties.                                                               *)

(* A link is dead once a newer one of its kind is in the table, provided it  *)
(* was there when the newer one was asked for (replace_for_user's docstrings:*)
(* a forwarded mail, a mistyped address).                                    *)
OlderLinksAreDead ==
    \A n, l \in Links : l \in link[n].saw => ~Unused(l)

(* "Two requests carrying the same link cannot both succeed" (consume), nor  *)
(* can one that was retired: a link makes at most one change, counting the   *)
(* requests that are about to make it.                                       *)
Carrying(r, l) == request[r].pc \in {"followed", "writing"} /\ request[r].link = l

OneUsePerLink ==
    \A l \in Links :
        /\ uses[l] <= 1
        /\ (uses[l] = 1 \/ \E r \in Requests : Carrying(r, l)) => link[l].status = "spent"
        /\ \A r \in Requests : Carrying(r, l) =>
              uses[l] = 0 /\ \A q \in Requests : Carrying(q, l) => q = r

(* Two accounts never share an address, though every use case checks it in a *)
(* transaction before the one that writes it.                                *)
AddressesAreUnique ==
    \A u, v \in Users : account[u].address # "none" /\ account[u].address = account[v].address => u = v

(* An account is at the address it was registered with, or at one whose      *)
(* mailbox received a link it then followed.                                 *)
AddressesAreProved ==
    \A u \in Users :
        \/ account[u].address = account[u].first
        \/ \E l \in Links : /\ link[l].kind = "address" /\ link[l].user = u
                            /\ link[l].to = account[u].address
                            /\ link[l].mailed /\ uses[l] = 1
=============================================================================
