------------------------------- MODULE MCWire -------------------------------
(***************************************************************************)
(* For TLC: the path of messages between two machines, and the sequential  *)
(* data types that messages and references are made of.  These share no    *)
(* state, so a behaviour exercises the one that its first state names.     *)
(***************************************************************************)
EXTENDS NetworkPath, SerializableQueue, ColumnBatch, ActorTaskQueue, ScopeBuilder

CONSTANTS d1, t1, t2, t3

VARIABLE component

others  == <<sqVars, cbVars, taskVars, scopeVars>>
wireVars == <<pathVars, others, component>>

OneProxy   == [d \in Dest |-> 0]
Buffers    == {<<>>, <<1>>, <<2, 3>>}
Elements   == {<<1>>, <<2, 3, 4, 5>>}
Priorities == [a \in Actor |-> IF a = t1 THEN 1 ELSE 2]
Ids        == {<<1, 0>>, <<2, 0>>}

WireInit ==
  /\ PathInit /\ SqInit /\ CbInit /\ TaskInit /\ ScopeInit
  /\ component \in {"path", "queue", "batch", "tasks", "scope"}
  /\ component = "batch" \/ (batch["x"].kind = "fixed" /\ batch["x"].res = 1)
  /\ component = "tasks" \/ compares
  /\ component = "scope" \/ scopePath = <<0>>

PathStep  == component = "path" /\ PathNext /\ UNCHANGED <<others, component>>
QueueStep == component = "queue" /\ SqNext /\ UNCHANGED <<pathVars, cbVars, taskVars, scopeVars, component>>
BatchStep == component = "batch" /\ CbNext /\ UNCHANGED <<pathVars, sqVars, taskVars, scopeVars, component>>
TaskStep  == component = "tasks" /\ TaskNext /\ UNCHANGED <<pathVars, sqVars, cbVars, scopeVars, component>>
ScopeStep == component = "scope" /\ ScopeNext /\ UNCHANGED <<pathVars, sqVars, cbVars, taskVars, component>>

WireNext == PathStep \/ QueueStep \/ BatchStep \/ TaskStep \/ ScopeStep

WireSpec == WireInit /\ [][WireNext]_wireVars /\ PathFairness

=============================================================================
