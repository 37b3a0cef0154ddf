--------------------------- MODULE MCActorCodegen ---------------------------
(***************************************************************************)
(* Instances of ActorCodegen for TLC: an actor class ca, classes cb and cc *)
(* derived from it (cc from cb in the nested hierarchy), and two groups.   *)
(***************************************************************************)
EXTENDS ActorCodegen

CONSTANTS f1, f2, f3, fg, ca, cb, cc, g1, g2

Headers    == [f \in {f1, f2, f3, fg} |->
                 CASE f = f1 -> <<ca>> [] f = f2 -> <<cb>> [] f = f3 -> <<cc>> [] f = fg -> <<g1, g2>>]
FlatBase   == [x \in {ca, cb, cc} |-> IF x = ca THEN Template ELSE ca]
NestedBase == [x \in {ca, cb, cc} |-> CASE x = ca -> Template [] x = cb -> ca [] x = cc -> cb]
MethodList == [x \in {ca, cb, cc} |->
                 CASE x = ca -> <<"buy", "count">> [] x = cb -> <<"count", "eat">> [] x = cc -> <<"zip">>]
NonePure   == [x \in {ca, cb, cc} |-> {}]
TwoDirs    == [f \in {f1, f2, f3, fg} |->
                 CASE f = f1 -> <<>> [] f = f2 -> <<"x">> [] f = f3 -> <<>> [] f = fg -> <<"x">>]
SharedDirs == [f \in {f1, f2, f3, fg} |->
                 CASE f = fg -> <<>> [] f = f3 -> <<"x", "y">> [] OTHER -> <<"x">>]

=============================================================================
