------------------------------ MODULE Shutdown ------------------------------
(***************************************************************************)
(* The end of the actor system of one machine: exit() tells every shard to *)
(* stop, a shard without actors enters the barrier HIACTOR_PEACE_STOPPED,  *)
(* and shard 0 then clears the system and ends the engine.  The shards'    *)
(* actors are modelled by their number; ActorShard models how they stop.   *)
(***************************************************************************)
EXTENDS Coordinator

CONSTANTS
  PeaceStopped,  \* the barrier of wait_others_and_exit()
  MaxActors      \* bound on the actors of a shard

ASSUME ShutdownAssumption ==
  PeaceStopped \in Barrier /\ Kind[PeaceStopped] = "global" /\ MaxActors \in Nat

VARIABLES
  orders,        \* shards that a stop message on its way will stop
  exiting,       \* exit() has been called
  stopping,      \* stopping[s]: _stop_status of the root of s
  actors,        \* actors[s]: _num_actors_managed of the root of s
  pollers,       \* pollers[s]: the actor pollers of s are registered
  cleanups,      \* shards with the clean-up of clear_actor_system() on its way
  engine         \* "up", or "exited" after engine().exit(0)

system == <<orders, exiting, stopping, actors, pollers, cleanups, engine>>
vars   == <<coordinatorVars, system>>

\* actor_smp::configure() has registered the pollers of every shard.
Init ==
  /\ CoordinatorInit
  /\ orders = {} /\ exiting = FALSE /\ engine = "up" /\ cleanups = {}
  /\ stopping = [s \in Shard |-> FALSE] /\ actors = [s \in Shard |-> 0]
  /\ pollers = [s \in Shard |-> TRUE]

Up == engine = "up"

\* wait_others_and_exit() calls the barrier when the last actor has ended.
EntersBarrier(s) ==
  IF s = 0 THEN WaitBarrier(PeaceStopped) ELSE SignalBarrier(s, PeaceStopped)

\* A message creates an actor, on a shard that is not stopping.
CreateActor(s) ==
  /\ Up /\ ~stopping[s] /\ actors[s] < MaxActors
  /\ actors' = [actors EXCEPT ![s] = @ + 1]
  /\ UNCHANGED <<coordinatorVars, orders, exiting, stopping, pollers, cleanups, engine>>

\* notify_child_stopped(), and wait_others_and_exit() after the last one.
ActorEnds(s) ==
  /\ Up /\ actors[s] > 0
  /\ actors' = [actors EXCEPT ![s] = @ - 1]
  /\ IF actors[s] = 1 /\ stopping[s]
     THEN EntersBarrier(s)
     ELSE UNCHANGED coordinatorVars
  /\ UNCHANGED <<orders, exiting, stopping, pollers, cleanups, engine>>

\* exit(): one stop message for every shard.  The application and run() may
\* both call it, and again: stop_actor_system() returns at once on a shard
\* that is stopping, so a message to such a shard does nothing.
exit ==
  /\ Up /\ exiting' = TRUE
  /\ orders' = {s \in Shard : ~stopping[s]}
  /\ UNCHANGED <<coordinatorVars, stopping, actors, pollers, cleanups, engine>>

\* stop_actor_system() on shard s.  The variant enters the barrier although
\* actors are left.
EmptyOrNot(s) == TRUE

Empty(s) == actors[s] = 0

stop_actor_system(s) ==
  /\ Up /\ s \in orders /\ orders' = orders \ {s}
  /\ stopping' = [stopping EXCEPT ![s] = TRUE]
  /\ IF Empty(s) THEN EntersBarrier(s) ELSE UNCHANGED coordinatorVars
  /\ UNCHANGED <<exiting, actors, pollers, cleanups, engine>>

\* clear_actor_system() and engine().exit(0), when the barrier has let shard
\* 0 pass.  The future of the clean-ups of the other shards is not waited
\* for.  The variant clears as soon as shard 0 has called the barrier.
PassedEarly == round[PeaceStopped] # "none"

Passed == round[PeaceStopped] = "done"

clear_actor_system ==
  /\ Up /\ Passed /\ mode = "run"
  /\ pollers' = [pollers EXCEPT ![0] = FALSE]
  /\ cleanups' = Others
  /\ engine' = "exited"
  /\ UNCHANGED <<coordinatorVars, orders, exiting, stopping, actors>>

\* The clean-up of another shard, if it runs before that reactor ends.
cleanup_cpu(s) ==
  /\ s \in cleanups /\ cleanups' = cleanups \ {s}
  /\ pollers' = [pollers EXCEPT ![s] = FALSE]
  /\ UNCHANGED <<coordinatorVars, orders, exiting, stopping, actors, engine>>

Next ==
  \/ exit \/ clear_actor_system
  \/ \E s \in Shard : CreateActor(s) \/ ActorEnds(s) \/ stop_actor_system(s) \/ cleanup_cpu(s)
  \/ Up /\ CoordinatorStep /\ UNCHANGED system
  \/ Up /\ UNCHANGED system
        /\ \/ \E s \in Others, b \in Barrier \ {PeaceStopped} : SignalBarrier(s, b)
           \/ \E b \in Barrier \ {PeaceStopped} : WaitBarrier(b)
  \/ ~Up /\ (StopWorker \/ WorkerStep) /\ UNCHANGED system

Spec == Init /\ [][Next]_vars

\* The system runs the worker and stores become visible; an awake reactor
\* runs its tasks, a sleeping one is woken by its event; stopping actors end
\* (ActorShard, StoppedScopeEnds) and messages to a shard are processed.
Fairness ==
  /\ WF_vars(WorkerStep /\ UNCHANGED system) /\ WF_vars(BecomesVisible /\ UNCHANGED system)
  /\ WF_vars(PollRaced /\ UNCHANGED system) /\ WF_vars(Woken /\ UNCHANGED system)
  /\ SF_vars(ReactorTask /\ UNCHANGED system)
  /\ \A s \in Shard : SF_vars((stopping[s] /\ ActorEnds(s)) \/ stop_actor_system(s))
  /\ SF_vars(clear_actor_system)

FairSpec == Spec /\ Fairness

-----------------------------------------------------------------------------
(* Properties. *)

\* Type correctness of the coordinator and the shards.
TypeOK ==
  /\ CoordinatorTypeOK
  /\ orders \subseteq Shard /\ cleanups \subseteq Others
  /\ exiting \in BOOLEAN /\ engine \in {"up", "exited"}
  /\ stopping \in [Shard -> BOOLEAN] /\ pollers \in [Shard -> BOOLEAN]
  /\ actors \in [Shard -> 0 .. MaxActors]

\* The barriers of the shards and the room in the worker's queues, in every
\* interleaving of reactors, worker thread and stop.
ShutdownSound == TypeOK /\ BarrierHolds /\ RoomAccounted

\* When the engine of the machine ends, however often exit() was called, no
\* shard has an actor left and none has still to be stopped: the destructor
\* of every root_actor_group asserts that _num_actors_managed is 0.
NoActorAtExit ==
  engine = "exited" => orders = {} /\ \A s \in Shard : stopping[s] /\ actors[s] = 0

\* If reactor 0 is awake again and again, a call of exit() ends the engine.
\* Without that, the worker can miss that the reactor has fallen asleep.
ExitEndsEngine == []<>(mode = "run") => (exiting ~> (engine = "exited"))

=============================================================================
