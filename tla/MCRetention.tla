---------------------------- MODULE MCRetention ----------------------------
(* Small instances of Retention for TLC. *)
EXTENDS Retention, TLC

CONSTANTS v1, v2

\* The global cap; a longer cap of its own; a rolling window with no cap.
P(hard, rolling, archived) == [hard |-> hard, rolling |-> rolling, archived |-> archived]
MCPolicies == {P(3, 0, TRUE), P(None, 1, FALSE)}

\* A pool of one volume and of two, with the shares retention may fill.
OneCap  == v1 :> 2
OneSize == v1 :> 5
TwoCaps == v1 :> 1 @@ v2 :> 1
TwoSizes == v1 :> 2 @@ v2 :> 2
=============================================================================
