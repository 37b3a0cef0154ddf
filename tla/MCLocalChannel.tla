--------------------------- MODULE MCLocalChannel ---------------------------
(***************************************************************************)
(* Instances of LocalChannel for TLC.                                      *)
(***************************************************************************)
EXTENDS LocalChannel

OneWay == {<<0, 1>>}

=============================================================================
