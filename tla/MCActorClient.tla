---------------------------- MODULE MCActorClient ----------------------------
(***************************************************************************)
(* Instances of ActorClient for TLC.                                       *)
(***************************************************************************)
EXTENDS ActorClient

CONSTANTS c1, c2, c3

=============================================================================
