------------------------ MODULE MCThreadResourcePool ------------------------
(***************************************************************************)
(* Instances of ThreadResourcePool for TLC.                                *)
(***************************************************************************)
EXTENDS ThreadResourcePool

CONSTANTS s1, s2, w1, w2, i1, i2, i3

TwoFrom   == [i \in Item |-> IF i = i1 THEN s1 ELSE s2]

=============================================================================
