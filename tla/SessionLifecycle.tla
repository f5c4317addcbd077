-------------------------- MODULE SessionLifecycle --------------------------
(***************************************************************************)
(* What refresh tokens promise, without tokens: a session is opened once,   *)
(* however often it is renewed it stays one session, and once closed it is  *)
(* closed for good.  RefreshTokens implements it.                           *)
(***************************************************************************)
CONSTANT Tokens       \* a session is named after its first token

VARIABLE session      \* session[t] \in {"none", "open", "closed"}

Init == session = [t \in Tokens |-> "none"]

Open(t) ==
    /\ session[t] = "none"
    /\ session' = [session EXCEPT ![t] = "open"]

(* Signing out, a password change and expiry close any number at a time.     *)
Close(S) ==
    /\ \A t \in S : session[t] = "open"
    /\ session' = [t \in Tokens |-> IF t \in S THEN "closed" ELSE session[t]]

Next == (\E t \in Tokens : Open(t)) \/ (\E S \in SUBSET Tokens : Close(S))

Spec == Init /\ [][Next]_session
=============================================================================
