----------------------------- MODULE MCShutdown -----------------------------
(***************************************************************************)
(* Instances of Shutdown for TLC.                                          *)
(***************************************************************************)
EXTENDS Shutdown

CONSTANTS b1, b2

OneKind == [b \in Barrier |-> IF b = b1 THEN "local" ELSE IF b = b2 THEN "direct" ELSE "global"]

=============================================================================
