-------------------------- MODULE MCSubscriptions --------------------------
(* The second month is one day too short for the last billing day, as        *)
(* February is for the 29th and later.                                       *)
EXTENDS Subscriptions

MCLength == [m \in 0 .. LastMonth + 1 |-> IF m = 1 THEN MaxDay - 1 ELSE MaxDay]
=============================================================================
