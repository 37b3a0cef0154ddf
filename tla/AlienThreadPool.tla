--------------------------- MODULE AlienThreadPool ---------------------------
(***************************************************************************)
(* The pool of plain threads outside the reactors: a queue of tasks under  *)
(* a mutex, threads that leave as soon as they find the queue empty, and   *)
(* the destructor that joins them and then asserts that the queue is empty.*)
(* A debug build aborts on a failed assertion; a release build defines     *)
(* NDEBUG, and drops the tasks.                                            *)
(* The operations of task_queue hold the mutex, so each is one step.       *)
(***************************************************************************)
EXTENDS Integers, Sequences, FiniteSets, SequencesExt

CONSTANTS
  Thread,   \* 0 .. _num_threads - 1, in the order they are created
  Task,     \* the tasks that are added
  NoTask    \* the null pointer of next_task()

ASSUME AlienAssumption == IsFiniteSet(Thread) /\ Thread # {} /\ NoTask \notin Task

VARIABLES
  tasks,    \* task_queue::_tasks
  tpc,      \* tpc[t]: where thread t is in thread_routine()
  task,     \* task[t]: the task it runs
  late,     \* the tasks added after initialize_and_run() had begun
  runs,     \* runs[k]: how often task k was run
  phase     \* what the owner of the pool is doing

alienVars == <<tasks, tpc, task, late, runs, phase>>

AlienInit ==
  /\ tasks = <<>> /\ late = {} /\ phase = "built"
  /\ tpc = [t \in Thread |-> "none"] /\ task = [t \in Thread |-> NoTask]
  /\ runs = [k \in Task |-> 0]

Added(k) == k \in Range(tasks) \/ runs[k] > 0 \/ \E t \in Thread : task[t] = k

\* add_task(), until the pool is destroyed.
add_task(k) ==
  /\ phase \in {"built", "creating", "running"} /\ ~Added(k)
  /\ tasks' = Append(tasks, k)
  /\ late' = IF phase = "built" THEN late ELSE late \cup {k}
  /\ UNCHANGED <<tpc, task, runs, phase>>

\* initialize_and_run(): the threads are created one after the other, and
\* run at once.  A failure ends the process.
initialize_and_run(t) ==
  /\ phase \in {"built", "creating"} /\ tpc[t] = "none" /\ \A u \in Thread : u < t => tpc[u] # "none"
  /\ tpc' = [tpc EXCEPT ![t] = "take"]
  /\ phase' = IF t + 1 \in Thread THEN "creating" ELSE "running"
  /\ UNCHANGED <<tasks, task, late, runs>>

CreateFails ==
  /\ phase \in {"built", "creating"}
  /\ phase' = "exited"
  /\ UNCHANGED <<tasks, tpc, task, late, runs>>

\* next_task()
PopTask == Tail(tasks)

\* Where a thread goes that finds no task; the variant waits for the next.
Waits == "take"

Leaves == "left"

next_task(t) ==
  /\ phase # "exited" /\ tpc[t] = "take"
  /\ IF tasks = <<>>
     THEN tpc' = [tpc EXCEPT ![t] = Leaves] /\ UNCHANGED <<tasks, task>>
     ELSE /\ task' = [task EXCEPT ![t] = Head(tasks)]
          /\ tasks' = PopTask
          /\ tpc' = [tpc EXCEPT ![t] = "run"]
  /\ UNCHANGED <<late, runs, phase>>

\* task->run(); delete task
RunTask(t) ==
  /\ phase # "exited" /\ tpc[t] = "run"
  /\ runs' = [runs EXCEPT ![task[t]] = @ + 1]
  /\ task' = [task EXCEPT ![t] = NoTask]
  /\ tpc' = [tpc EXCEPT ![t] = "take"]
  /\ UNCHANGED <<tasks, late, phase>>

\* ~alien_thread_pool(): join every thread, then ~task_queue().  The variant
\* does not join.
NoJoin == TRUE

Joined == \A t \in Thread : tpc[t] = "left"

BeginDestroy ==
  /\ phase = "running"
  /\ phase' = "joining"
  /\ UNCHANGED <<tasks, tpc, task, late, runs>>

\* What becomes of the process in ~task_queue().
QueueDestroyed == IF tasks = <<>> THEN {"destroyed"} ELSE {"destroyed", "aborted"}

Destroy ==
  /\ phase = "joining" /\ Joined
  /\ phase' \in QueueDestroyed
  /\ UNCHANGED <<tasks, tpc, task, late, runs>>

ThreadStep(t) == next_task(t) \/ RunTask(t)

AlienNext ==
  \/ \E k \in Task : add_task(k)
  \/ \E t \in Thread : initialize_and_run(t) \/ ThreadStep(t)
  \/ CreateFails \/ BeginDestroy \/ Destroy

\* The system runs the threads, and the destructor returns when it can.
AlienFairness == (\A t \in Thread : WF_alienVars(ThreadStep(t))) /\ WF_alienVars(Destroy)

AlienSpec == AlienInit /\ [][AlienNext]_alienVars /\ AlienFairness

-----------------------------------------------------------------------------
(* Properties. *)

\* Type correctness of the queue and the threads.
AlienTypeOK ==
  /\ tasks \in Seq(Task) /\ late \subseteq Task /\ runs \in [Task -> Nat]
  /\ tpc \in [Thread -> {"none", "take", "run", "left"}] /\ task \in [Thread -> Task \cup {NoTask}]
  /\ phase \in {"built", "creating", "running", "joining", "destroyed", "aborted", "exited"}

\* A task is deleted after it ran, so two threads never have the same task
\* and no task that ran is still queued (next_task() under the mutex).
TaskOnce ==
  /\ \A k \in Task : runs[k] <= 1
  /\ \A k \in Task : runs[k] + Cardinality({i \in DOMAIN tasks : tasks[i] = k})
                       + Cardinality({t \in Thread : task[t] = k}) <= 1

\* When ~task_queue() is done, or has aborted, every task that was added
\* before the threads were started has run; it finds a task in the queue, and
\* aborts, only if that task was added to a running pool.
EarlyTasksRun ==
  phase \in {"destroyed", "aborted"} =>
    /\ Range(tasks) \subseteq late /\ \A k \in Task : Added(k) /\ k \notin late => runs[k] = 1
    /\ phase = "aborted" => tasks # <<>>

\* The tasks of the pool, through construction, run() and destruction: none
\* is run twice or by two threads, and no early one is forgotten.
AlienSafe == AlienTypeOK /\ TaskOnce /\ EarlyTasksRun

\* The destructor ends, since a thread leaves when it finds no task.  It
\* returns, with nothing dropped, if no task was added to the running pool;
\* otherwise ~task_queue() may abort.
DestroyReturns ==
  /\ (phase = "joining") ~> (phase \in {"destroyed", "aborted"})
  /\ (phase = "joining" /\ late = {}) ~> (phase = "destroyed" /\ tasks = <<>>)

=============================================================================
