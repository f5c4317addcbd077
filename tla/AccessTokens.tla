---------------------------- MODULE AccessTokens ----------------------------
(***************************************************************************)
(* The access tokens of the account of RefreshTokens.  They are signed and  *)
(* kept nowhere, so that a change of the password cannot revoke them:       *)
(* get_current_user compares the second they were issued in with the second *)
(* the password was last changed in.                                        *)
(*                                                                          *)
(* update_password takes that second before it commits, and the sweep of    *)
(* the refresh tokens comes after.  A session renewed in between gets an    *)
(* access token that is younger than the marker.                            *)
(***************************************************************************)
EXTENDS RefreshTokens

CONSTANT MaxSecond    \* bound: the clock stops there

ASSUME MaxSecondAssumption == MaxSecond \in Nat

VARIABLES
    now,          \* the second it is
    changedAt,    \* users.password_changed_at
    marker,       \* the value each update_password is about to commit
    access        \* an access token that somebody holds, or none

clocks == <<now, changedAt, marker, access>>

Never == -1
None  == [iat |-> Never]

(* `why' is history: what the session was renewed or opened in spite of.     *)
Access == [gen : Nat, iat : Nat, why : {"no", "marked", "sweep", "late", "overtaken"}]

AccessTypeOK ==
    /\ TypeOK
    /\ now \in 0 .. MaxSecond
    /\ changedAt \in Never .. now
    /\ marker \in [Requests -> Never .. now]
    /\ access \in Access \cup {None}

AccessInit ==
    /\ Init
    /\ now = 0
    /\ changedAt = Never
    /\ marker = [r \in Requests |-> Never]
    /\ access = None

(* The second and last half of get_current_user; a deactivated account's     *)
(* tokens are refused, and good again once it is activated.                  *)
Accepted(a) == active /\ a.iat >= changedAt

(* What is odd about an access token issued now, for the session of row t:   *)
(* a change has taken its marker and not committed, or has committed and is  *)
(* still to revoke t, or has missed t, or has revoked t in the meantime.     *)
Oddity(t) ==
    CASE row[t].gen = password ->
            IF \E r \in Requests : marker[r] # Never THEN "marked" ELSE "no"
      [] row[t].late # "no"          -> "late"
      [] Pending(t)                  -> "sweep"
      [] row[t].status # "live"      -> "overtaken"
      [] OTHER                       -> "no"

Issued(t) == [gen |-> row[t].gen, iat |-> now, why |-> Oddity(t)]

----------------------------------------------------------------------------
(* JwtTokenService.create, at the end of IssueSession and of RefreshSession, *)
(* and the cookies.  One access token is followed at a time; any of them     *)
(* may be.                                                                   *)
AnswerWithAccess(r) ==
    /\ Answer(r)
    /\ access' \in {access, Issued(request[r].token)}
    /\ UNCHANGED <<now, changedAt, marker>>

(* update_password computes the marker ...                                   *)
Mark(r) ==
    /\ request[r].pc = "updating"
    /\ marker[r] = Never
    /\ marker' = [marker EXCEPT ![r] = now]
    /\ UNCHANGED <<vars, now, changedAt, access>>

(* Mutant: the marker is not stored.                                         *)
MarkerForgotten(r) ==
    /\ marker[r] # Never
    /\ UpdatePassword(r)
    /\ marker' = [marker EXCEPT ![r] = Never]
    /\ UNCHANGED <<now, changedAt, access>>

(* ... and commits it with the hash.                                         *)
CommitMarker(r) ==
    /\ marker[r] # Never
    /\ UpdatePassword(r)
    /\ changedAt' = marker[r]
    /\ marker' = [marker EXCEPT ![r] = Never]
    /\ UNCHANGED <<now, access>>

CrashWithMarkers ==
    /\ ApiCrash
    /\ marker' = [r \in Requests |-> Never]
    /\ UNCHANGED <<now, changedAt, access>>

Tick ==
    /\ now < MaxSecond
    /\ now' = now + 1
    /\ UNCHANGED <<vars, changedAt, marker, access>>

(* After access_token_minutes, whatever happens.                             *)
AccessExpires ==
    /\ access # None
    /\ access' = None
    /\ UNCHANGED <<vars, now, changedAt, marker>>

AccessNext ==
    \/ Others /\ UNCHANGED clocks
    \/ \E r \in Requests : AnswerWithAccess(r) \/ Mark(r) \/ CommitMarker(r)
    \/ CrashWithMarkers \/ Tick \/ AccessExpires

AccessSpec == AccessInit /\ [][AccessNext]_<<vars, clocks>>

----------------------------------------------------------------------------
(* Properties.                                                               *)

(* An access token opened with a password that is no longer in force is      *)
(* refused, unless it was issued in the second of the marker, or for a       *)
(* session the change had not caught up with: while it was committing or     *)
(* sweeping, or for a row it missed or revoked under the sign-in.            *)
OldAccessExplained ==
    access # None /\ access.gen # password /\ Accepted(access)
        => access.iat = changedAt \/ access.why # "no"
=============================================================================
