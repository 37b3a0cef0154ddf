---------------------------- MODULE MCActorShard ----------------------------
(***************************************************************************)
(* Instances of ActorShard for TLC.                                        *)
(***************************************************************************)
EXTENDS ActorShard

CONSTANTS a1, a2, g1, g2, r, m1, m2, m3, m4

\* r - g1 - g2 - a1,  g1 - a2
DeepParent == (a1 :> g2) @@ (a2 :> g1) @@ (g2 :> g1) @@ (g1 :> r)
DeepAbove  == (a1 :> {g1, g2}) @@ (a2 :> {g1}) @@ (g2 :> {g1}) @@ (g1 :> {})

\* r - a1,  r - a2
PairParent == (a1 :> r) @@ (a2 :> r)
PairAbove  == (a1 :> {}) @@ (a2 :> {})

Conc1 == [a \in Actor |-> 1]
Conc2 == [a \in Actor |-> IF a = a1 THEN 2 ELSE 1]

AnyUse   == [m \in Msg |-> {"USER"} \cup StopType \cup
                            IF m \in Requests THEN {} ELSE ExitType]
FlatUse  == [m \in Msg |-> {"USER"} \cup IF m \in Requests THEN {} ELSE ExitType]

=============================================================================
