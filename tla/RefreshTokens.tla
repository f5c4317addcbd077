--------------------------- MODULE RefreshTokens ---------------------------
(***************************************************************************)
(* The refresh tokens of one account: signing in, renewing, signing out,    *)
(* and what a password change or reset does to the sessions already open.   *)
(* Every other account's rows are out of reach: each statement filters on   *)
(* the token's hash or on user_id.                                          *)
(*                                                                          *)
(* One action is one database transaction, or the part of one that other    *)
(* transactions can see.  PostgreSQL runs at READ COMMITTED, so             *)
(* revoke_all_for_user is two: the snapshot its SELECT ... FOR UPDATE takes *)
(* when it starts, and the commit, by which it has re-read the rows it had  *)
(* to wait for.  A row inserted between the two is not in it.               *)
(*                                                                          *)
(* A password is the number of times it was changed.                        *)
(***************************************************************************)
EXTENDS Integers

CONSTANTS
    Tokens,       \* rows refresh_tokens can ever hold
    Requests,     \* request threads
    MaxChanges,   \* bound: no change or reset starts after this many
    MayCrash      \* whether the process may die

ASSUME MaxChangesAssumption == MaxChanges \in Nat
ASSUME MayCrashAssumption   == MayCrash \in BOOLEAN

VARIABLES
    password,     \* users.password_hash
    active,       \* users.is_active
    row,          \* the refresh_tokens table
    request       \* what each thread is doing

vars == <<password, active, row, request>>

(* An `expired' row still has revoked_at NULL.  `late' is history: why the   *)
(* row escaped the sweep of a password change, if it did.                    *)
Absent == [status |-> "absent", root |-> "none", replacedBy |-> "none",
           gen |-> 0, held |-> FALSE, late |-> "no"]
Row == [status : {"live", "expired", "revoked"}, root : Tokens,
        replacedBy : Tokens \cup {"none"}, gen : Nat, held : BOOLEAN,
        late : {"no", "issue", "rotation", "crash"}]

Idle == [pc |-> "idle", gen |-> 0, reset |-> FALSE, token |-> "none", snap |-> {}]
Request == [pc : {"idle", "resetting", "updating", "revoking", "locking",
                  "issuing", "refreshing", "answering"},
            gen : Nat, reset : BOOLEAN, token : Tokens \cup {"none"},
            snap : SUBSET Tokens]

TypeOK ==
    /\ password \in Nat
    /\ active \in BOOLEAN
    /\ row \in [Tokens -> Row \cup {Absent}]
    /\ request \in [Requests -> Request]

Init ==
    /\ password = 0
    /\ active = TRUE
    /\ row = [t \in Tokens |-> Absent]
    /\ request = [r \in Requests |-> Idle]

Unrevoked(t) == row[t].status \in {"live", "expired"}

(* A password update whose revoke_all_for_user has not committed yet, and    *)
(* will revoke t when it does.                                               *)
Sweeping(r)  == request[r].pc = "revoking"
Sweeps(r, t) == Sweeping(r) \/ (request[r].pc = "locking" /\ t \in request[r].snap)
Pending(t)   == \E r \in Requests : Sweeps(r, t)

----------------------------------------------------------------------------
(* Signing in: LoginUser, then IssueSession.                                 *)

(* get_by_email, then verify: the hash is compared as it was read.           *)
LoginVerify(r) ==
    /\ request[r].pc = "idle"
    /\ active
    /\ request' = [request EXCEPT ![r].pc = "issuing", ![r].gen = password]
    /\ UNCHANGED <<password, active, row>>

(* issue_session: a new row, with no second look at the account.             *)
IssueSession(r, t) ==
    /\ request[r].pc = "issuing"
    /\ row[t] = Absent
    /\ row' = [row EXCEPT ![t] =
          [status |-> "live", root |-> t, replacedBy |-> "none",
           gen |-> request[r].gen, held |-> FALSE,
           late |-> IF request[r].gen = password \/ (\E x \in Requests : Sweeping(x))
                   THEN "no" ELSE "issue"]]
    /\ request' = [request EXCEPT ![r].pc = "answering", ![r].token = t]
    /\ UNCHANGED <<password, active>>

(* set_session_cookies: from here on somebody holds the token.               *)
Answer(r) ==
    /\ request[r].pc = "answering"
    /\ row' = [row EXCEPT ![request[r].token].held = TRUE]
    /\ request' = [request EXCEPT ![r] = Idle]
    /\ UNCHANGED <<password, active>>

----------------------------------------------------------------------------
(* Renewing and signing out.                                                 *)

(* Why a replacement for t inserted now would not be swept, if it would not. *)
RotationLateness(t) ==
    IF row[t].late # "no" THEN row[t].late
    ELSE IF row[t].gen = password \/ (\E r \in Requests : Sweeping(r))
         THEN "no" ELSE "rotation"

Replacement(t) == [status |-> "live", root |-> row[t].root, replacedBy |-> "none",
                   gen |-> row[t].gen, held |-> FALSE, late |-> RotationLateness(t)]

(* Mutant: rotate does not look at revoked_at.                               *)
RotateAny(r, t, n) ==
    /\ request[r].pc = "idle" /\ row[t].held /\ row[n] = Absent
    /\ row' = [row EXCEPT ![t].status = "revoked", ![n] = Replacement(t)]
    /\ request' = [request EXCEPT ![r].pc = "refreshing", ![r].token = n]
    /\ UNCHANGED <<password, active>>

(* rotate: the row is locked, checked, replaced and revoked in one           *)
(* transaction.  A row that is revoked or expired changes nothing.           *)
Rotate(r, t, n) ==
    /\ request[r].pc = "idle"
    /\ row[t].held
    /\ row[t].status = "live"
    /\ row[n] = Absent
    /\ row' = [row EXCEPT ![t].status = "revoked", ![t].replacedBy = n,
                          ![n] = Replacement(t)]
    /\ request' = [request EXCEPT ![r].pc = "refreshing", ![r].token = n]
    /\ UNCHANGED <<password, active>>

(* The account is looked at after the rotation has been committed: for one   *)
(* that is switched off, the new token is never handed out.                  *)
RefreshCheck(r) ==
    /\ request[r].pc = "refreshing"
    /\ request' = [request EXCEPT ![r] =
          IF active THEN [Idle EXCEPT !.pc = "answering", !.token = request[r].token]
                    ELSE Idle]
    /\ UNCHANGED <<password, active, row>>

(* Mutant: signing out deletes the row and leaves its session behind.        *)
LogoutDeletes(t) ==
    /\ row[t].held
    /\ row' = [row EXCEPT ![t].status = "absent"]
    /\ UNCHANGED <<password, active, request>>

(* revoke, from /logout.                                                     *)
Logout(t) ==
    /\ row[t].held
    /\ Unrevoked(t)
    /\ row' = [row EXCEPT ![t].status = "revoked"]
    /\ UNCHANGED <<password, active, request>>

----------------------------------------------------------------------------
(* Changing and resetting the password.                                      *)

(* get_current_user and the check of the current password see one copy of    *)
(* the user: the session keeps the row it has loaded.                        *)
StartChange(r) ==
    /\ request[r].pc = "idle"
    /\ active
    /\ password < MaxChanges
    /\ request' = [request EXCEPT ![r].pc = "updating"]
    /\ UNCHANGED <<password, active, row>>

(* A good link is spent first ...                                            *)
StartReset(r) ==
    /\ request[r].pc = "idle"
    /\ password < MaxChanges
    /\ request' = [request EXCEPT ![r].pc = "resetting", ![r].reset = TRUE]
    /\ UNCHANGED <<password, active, row>>

(* ... and lost if the account is switched off.                              *)
ResetLoad(r) ==
    /\ request[r].pc = "resetting"
    /\ request' = [request EXCEPT ![r] =
          IF active THEN [pc |-> "updating", gen |-> 0, reset |-> TRUE,
                          token |-> "none", snap |-> {}]
                    ELSE Idle]
    /\ UNCHANGED <<password, active, row>>

(* Mutant: the sessions are left alone.                                      *)
UpdateOnly(r) ==
    /\ request[r].pc = "updating"
    /\ password' = password + 1
    /\ request' = [request EXCEPT ![r] = Idle]
    /\ UNCHANGED <<active, row>>

(* update_password, by its own commit.                                       *)
UpdatePassword(r) ==
    /\ request[r].pc = "updating"
    /\ password' = password + 1
    /\ request' = [request EXCEPT ![r].pc = "revoking", ![r].gen = password + 1]
    /\ UNCHANGED <<active, row>>

(* revoke_all_for_user: the statement starts.                                *)
RevokeSnapshot(r) ==
    /\ request[r].pc = "revoking"
    /\ request' = [request EXCEPT ![r].pc = "locking",
                                  ![r].snap = {t \in Tokens : Unrevoked(t)}]
    /\ UNCHANGED <<password, active, row>>

(* ... and commits.  A row revoked meanwhile no longer matches.  A change    *)
(* goes on to open a session for its caller, a reset does not.               *)
RevokeCommit(r) ==
    /\ request[r].pc = "locking"
    /\ row' = [t \in Tokens |->
          IF t \in request[r].snap /\ Unrevoked(t)
          THEN [row[t] EXCEPT !.status = "revoked"] ELSE row[t]]
    /\ request' = [request EXCEPT ![r] =
          IF request[r].reset THEN Idle
          ELSE [Idle EXCEPT !.pc = "issuing", !.gen = request[r].gen]]
    /\ UNCHANGED <<password, active>>

----------------------------------------------------------------------------
(* ChangeAdminUserStatus, time, and the process.                             *)

SetActive(flag) ==
    /\ active' = flag
    /\ UNCHANGED <<password, row, request>>

Expire(t) ==
    /\ row[t].status = "live"
    /\ row' = [row EXCEPT ![t].status = "expired"]
    /\ UNCHANGED <<password, active, request>>

(* A sweep that had not committed never will.                                *)
ApiCrash ==
    /\ MayCrash
    /\ row' = [t \in Tokens |->
          IF row[t] # Absent /\ row[t].late = "no" /\ Pending(t)
          THEN [row[t] EXCEPT !.late = "crash"] ELSE row[t]]
    /\ request' = [r \in Requests |-> Idle]
    /\ UNCHANGED <<password, active>>

----------------------------------------------------------------------------
Others ==
    \/ \E r \in Requests :
          \/ LoginVerify(r) \/ RefreshCheck(r)
          \/ StartChange(r) \/ StartReset(r) \/ ResetLoad(r)
          \/ RevokeSnapshot(r) \/ RevokeCommit(r)
          \/ \E t \in Tokens : IssueSession(r, t)
          \/ \E t, n \in Tokens : Rotate(r, t, n)
    \/ \E t \in Tokens : Logout(t) \/ Expire(t)
    \/ \E flag \in BOOLEAN : SetActive(flag)

Next == Others \/ (\E r \in Requests : Answer(r) \/ UpdatePassword(r)) \/ ApiCrash

Spec == Init /\ [][Next]_vars

----------------------------------------------------------------------------
(* Properties.                                                               *)

(* Whatever is renewed, revoked, retried or raced, one sign-in never has two *)
(* tokens that have not been revoked (rotate's row lock).                    *)
OneTokenPerSession ==
    \A t, n \in Tokens :
        Unrevoked(t) /\ Unrevoked(n) /\ row[t].root = row[n].root => t = n

(* A session opened with a password that is no longer in force can be        *)
(* renewed only while the sweep of the change is under way, or because it    *)
(* was inserted too late for it: issued to a sign-in that had verified the   *)
(* old password, rotated under the sweep's snapshot, or spared by a crash.   *)
SurvivorsExplained ==
    \A t \in Tokens :
        /\ row[t].status = "live"
        /\ row[t].gen # password
        /\ row[t].late = "no"
        => Pending(t)

(* "A changed password must end every session opened with the old one"       *)
(* (change_password.py): with nothing under way, no token that somebody      *)
(* holds is left of such a session.                                          *)
NoOldSessionSurvives ==
    (\A r \in Requests : request[r].pc = "idle")
        => \A t \in Tokens : row[t].status = "live" /\ row[t].held => row[t].gen = password

(* Renewing is invisible, and a closed session never opens again.            *)
SessionOf(s) ==
    IF row[s] = Absent \/ row[s].root # s THEN "none"
    ELSE IF \E t \in Tokens : row[t].status = "live" /\ row[t].root = s THEN "open"
    ELSE "closed"

Lifecycle == INSTANCE SessionLifecycle WITH session <- [s \in Tokens |-> SessionOf(s)]

LifecycleSpec == Lifecycle!Spec
=============================================================================
