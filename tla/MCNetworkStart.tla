--------------------------- MODULE MCNetworkStart ---------------------------
(***************************************************************************)
(* Instances of NetworkStart for TLC: three machines, and two machines    *)
(* without a coordinator that synchronises them.                           *)
(***************************************************************************)
EXTENDS NetworkStart

CONSTANTS a1, a2, a3

ThreeCores == [m \in Machine |-> IF m = 2 THEN 1 ELSE 2]
OneEach    == [m \in Machine |-> IF m = 0 THEN a1 ELSE IF m = 1 THEN a2 ELSE a3]
Rejects(m, r) == [[t \in Machine |-> "none"] EXCEPT ![m] = r]
SomeSettings == {<<TRUE, Rejects(0, "none")>>, <<FALSE, Rejects(0, "none")>>,
                 <<TRUE, Rejects(M - 1, "list")>>, <<FALSE, Rejects(0, "timeout")>>}
Unsynced   == {<<FALSE, Rejects(0, "none")>>}

=============================================================================
