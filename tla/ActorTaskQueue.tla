--------------------------- MODULE ActorTaskQueue ---------------------------
(***************************************************************************)
(* schedulable_actor_task_queue: urgent actors first, then the others in   *)
(* the order of arrival or, with a comparator, by priority.  The queue is  *)
(* made a heap only when something was pushed since the last time; of the  *)
(* heap only matters whether the queue is one.                             *)
(***************************************************************************)
EXTENDS Integers, Sequences, FiniteSets, SequencesExt

CONSTANTS
  Actor,       \* the actors of the group
  Priority     \* Priority[a]: the place of a in the order of compare()

VARIABLES
  compares,    \* there is a comparator
  urgent,      \* _urgent_q
  tasks,       \* _q
  heaped,      \* _q satisfies the heap condition
  need,        \* _need_scheduling
  popped       \* the last actor popped, with what was in _q at that time

taskVars == <<compares, urgent, tasks, heaped, need, popped>>

TaskInit ==
  /\ compares \in BOOLEAN
  /\ urgent = <<>> /\ tasks = <<>> /\ heaped = TRUE /\ need = FALSE
  /\ popped = [queue |-> <<>>, from |-> "none", left |-> <<>>]

Queued == Range(urgent) \cup Range(tasks)

push_urgent_task(a) ==
  /\ a \notin Queued
  /\ urgent' = Append(urgent, a) /\ UNCHANGED <<compares, tasks, heaped, need, popped>>

\* The variant does not ask for a new heap.
NoNeed == need

Need == TRUE

push_task(a) ==
  /\ a \notin Queued
  /\ tasks' = Append(tasks, a) /\ need' = Need
  /\ heaped' = (tasks = <<>>)
  /\ UNCHANGED <<compares, urgent, popped>>

Highest(q) == {i \in DOMAIN q : \A j \in DOMAIN q : Priority[q[j]] <= Priority[q[i]]}

\* pop_heap() takes the first of a heap, which is a highest one; what it
\* takes of a queue that is no heap may be any.
HeapTop(isHeap) == IF isHeap THEN Highest(tasks) ELSE DOMAIN tasks

pop_task ==
  /\ Queued # {} /\ UNCHANGED compares
  /\ IF urgent # <<>>
     THEN /\ popped' = [queue |-> <<Head(urgent)>>, from |-> "urgent", left |-> tasks]
          /\ urgent' = Tail(urgent) /\ UNCHANGED <<tasks, heaped, need>>
     ELSE IF ~compares
     THEN /\ popped' = [queue |-> <<Head(tasks)>>, from |-> "tasks", left |-> Tail(tasks)]
          /\ tasks' = Tail(tasks) /\ UNCHANGED <<urgent, heaped, need>>
     ELSE \E i \in HeapTop(need \/ heaped) :
          /\ popped' = [queue |-> <<tasks[i]>>, from |-> "tasks", left |-> RemoveAt(tasks, i)]
          /\ tasks' = RemoveAt(tasks, i)
          /\ heaped' = (need \/ heaped) /\ need' = FALSE
          /\ UNCHANGED urgent

TaskNext == (\E a \in Actor : push_task(a) \/ push_urgent_task(a)) \/ pop_task

-----------------------------------------------------------------------------
(* Properties. *)

\* With a comparator, an actor taken from _q has the highest priority of
\* those that were queued, although the heap is only made after a push.
PopsHighest ==
  compares /\ popped.from = "tasks" =>
    \A i \in DOMAIN popped.left : Priority[popped.left[i]] <= Priority[popped.queue[1]]

=============================================================================
