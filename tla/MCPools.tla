------------------------------- MODULE MCPools -------------------------------
(***************************************************************************)
(* For TLC: the pools of threads, streams and promises of a process, and   *)
(* the code generator with its pool of threads.  They share no state, so a *)
(* behaviour exercises the one that its first state names, and the others  *)
(* stay as they were configured.                                           *)
(***************************************************************************)
EXTENDS MCThreadResourcePool, AlienThreadPool, GpuResourcePool, MCActorClient, MCActorCodegen

CONSTANTS k1, k2, k3, x1, x2

VARIABLE component

allVars == <<poolVars, alienVars, gpuVars, vars, codegenVars, component>>

PoolsInit ==
  /\ PoolInit /\ AlienInit /\ GpuInit /\ Init /\ CodegenInit
  /\ component \in {"threads", "alien", "gpu", "client", "codegen"}
  /\ component = "gpu" \/ streams = Stream
  /\ component = "codegen" \/ bad = {}

ThreadsStep == component = "threads" /\ PoolNext /\ UNCHANGED <<alienVars, gpuVars, vars, codegenVars, component>>
AlienStep   == component = "alien" /\ AlienNext /\ UNCHANGED <<poolVars, gpuVars, vars, codegenVars, component>>
GpuPoolStep == component = "gpu" /\ GpuNext /\ UNCHANGED <<poolVars, alienVars, vars, codegenVars, component>>
ClientStep  == component = "client" /\ Next /\ UNCHANGED <<poolVars, alienVars, gpuVars, codegenVars, component>>
CodegenStep == component = "codegen" /\ CodegenNext /\ UNCHANGED <<poolVars, alienVars, gpuVars, vars, component>>

PoolsSpec ==
  /\ PoolsInit /\ [][ThreadsStep \/ AlienStep \/ GpuPoolStep \/ ClientStep \/ CodegenStep]_allVars
  /\ PoolFairness /\ AlienFairness /\ GpuFairness /\ Fairness

=============================================================================
