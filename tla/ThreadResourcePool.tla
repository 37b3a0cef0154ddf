------------------------- MODULE ThreadResourcePool -------------------------
(***************************************************************************)
(* The pool of threads that take blocking work from the shards: the free   *)
(* list _threads shared by all shards, the hand-over of a work item to a   *)
(* thread, the queue of completed items of each shard, the protocol by     *)
(* which a reactor falls asleep and a thread wakes its employer, and the   *)
(* stop of the pool.                                                       *)
(*                                                                         *)
(* A thread returns itself to _threads before it reads _employer_shard and *)
(* _employer, so a shard that hires it meanwhile overwrites what it reads. *)
(* The two reads are two steps.  submit() writes the fields in the         *)
(* opposite order, so writing both in one step loses no outcome.  The      *)
(* lock-free queues are sequences; their push and pop are atomic.          *)
(***************************************************************************)
EXTENDS Integers, Sequences, FiniteSets, SequencesExt

CONSTANTS
  Shard,        \* the reactors of the machine
  Worker,       \* the work_threads created by configure()
  Item,         \* the calls of submit_work() that are made
  From,         \* From[i]: the shard that calls submit_work() for item i
  NoItem        \* an empty _work_item

ASSUME PoolAssumption ==
  /\ IsFiniteSet(Worker) /\ Worker \cap {"no", "joined", "stopped"} = {}
  /\ Shard # {} /\ From \in [Item -> Shard] /\ NoItem \notin Item

VARIABLES
  threads,        \* _threads
  work,           \* work[w]: _work_item
  cur,            \* cur[w]: the item released from it, until completed
  signal,         \* signal[w]: _start_eventfd is readable
  employer,       \* employer[w]: _employer
  employerShard,  \* employerShard[w]: _employer_shard
  wpc,            \* where thread w is in work()
  quit,           \* quit[w]: _stopped
  completed,      \* completed[s]: _completed[s]
  idle,           \* idle[s]: _reactors_idle[s]
  notified,       \* notified[s]: the reactor's event has been written
  mode,           \* what reactor s is doing
  asked,          \* asked[i]: state of the future returned by submit_work()
  stop            \* progress of stop(), or the thread it joins

taken  == <<work, cur, employer, employerShard, asked>>
pool   == <<threads, signal, wpc, quit, completed, stop>>
sleep  == <<idle, notified, mode>>
poolVars   == <<taken, pool, sleep>>

\* configure(): every thread is created, waits for its event, and is free.
configure ==
  /\ threads = SetToSeq(Worker)
  /\ work = [w \in Worker |-> NoItem] /\ cur = [w \in Worker |-> NoItem]
  /\ signal = [w \in Worker |-> FALSE] /\ quit = [w \in Worker |-> FALSE]
  /\ wpc = [w \in Worker |-> "read"]
  /\ completed = [s \in Shard |-> <<>>] /\ idle = [s \in Shard |-> FALSE]

PoolInit ==
  /\ configure
  /\ employer = [w \in Worker |-> CHOOSE s \in Shard : TRUE]
  /\ employerShard = employer
  /\ notified = [s \in Shard |-> FALSE] /\ mode = [s \in Shard |-> "run"]
  /\ asked = [i \in Item |-> "new"] /\ stop = "no"

-----------------------------------------------------------------------------
(* submit_work(), on the shard of the item. *)

\* The free list gives a thread away by pop(); the variant leaves it there.
LeaveThread == UNCHANGED threads

PopThread == threads' = Tail(threads)

\* work_thread::submit() on the thread popped from _threads.
submit(i, w) ==
  /\ employer' = [employer EXCEPT ![w] = From[i]]
  /\ employerShard' = [employerShard EXCEPT ![w] = From[i]]
  /\ work' = [work EXCEPT ![w] = i]
  /\ signal' = [signal EXCEPT ![w] = TRUE]
  /\ asked' = [asked EXCEPT ![i] = "hired"]
  /\ UNCHANGED cur

\* One turn of repeat_until_value(): pop a thread, or sleep and try again.
TryHire(i) ==
  IF threads # <<>>
  THEN PopThread /\ submit(i, Head(threads))
  ELSE asked' = [asked EXCEPT ![i] = "waits"]
       /\ UNCHANGED <<threads, work, cur, employer, employerShard, signal>>

submit_work(i) ==
  /\ asked[i] \in {"new", "waits"} /\ mode[From[i]] = "run" /\ stop = "no"
  /\ TryHire(i)
  /\ UNCHANGED <<wpc, quit, completed, stop, sleep>>

-----------------------------------------------------------------------------
(* work_thread::work(), one turn of its loop. *)

ReadEvent(w) ==
  /\ wpc[w] = "read" /\ signal[w]
  /\ signal' = [signal EXCEPT ![w] = FALSE]
  /\ IF quit[w]
     THEN wpc' = [wpc EXCEPT ![w] = "gone"] /\ UNCHANGED <<work, cur>>
     ELSE /\ cur' = [cur EXCEPT ![w] = work[w]]
          /\ work' = [work EXCEPT ![w] = NoItem]
          /\ wpc' = [wpc EXCEPT ![w] = "complete"]
  /\ UNCHANGED <<threads, quit, completed, stop, employer, employerShard, asked, sleep>>

\* process() has run; its item goes to the shard that submitted it.
complete_work_item(w) ==
  /\ wpc[w] = "complete"
  /\ completed' = [completed EXCEPT ![From[cur[w]]] = Append(@, cur[w])]
  /\ cur' = [cur EXCEPT ![w] = NoItem]
  /\ wpc' = [wpc EXCEPT ![w] = "return"]
  /\ UNCHANGED <<threads, signal, quit, stop, work, employer, employerShard, asked, sleep>>

return_worker(w) ==
  /\ wpc[w] = "return"
  /\ threads' = Append(threads, w)
  /\ wpc' = [wpc EXCEPT ![w] = "load"]
  /\ UNCHANGED <<signal, quit, completed, stop, taken, sleep>>

\* The test of the employer's flag; the variant does not look.
SeesAwake(w) == FALSE

SeesIdle(w) == idle[employerShard[w]]

LoadIdle(w) ==
  /\ wpc[w] = "load"
  /\ wpc' = [wpc EXCEPT ![w] = IF SeesIdle(w) THEN "wake" ELSE "read"]
  /\ UNCHANGED <<threads, signal, quit, completed, stop, taken, sleep>>

\* _employer->wakeup() writes the reactor's event.
WakeEmployer(w) ==
  /\ wpc[w] = "wake"
  /\ notified' = [notified EXCEPT ![employer[w]] = TRUE]
  /\ wpc' = [wpc EXCEPT ![w] = "read"]
  /\ UNCHANGED <<threads, signal, quit, completed, stop, taken, idle, mode>>

-----------------------------------------------------------------------------
(* The reactors, through thread_resource_pollfn. *)

\* poll_queues(): complete() of every item sets its promise.
poll_queues(s) ==
  /\ asked' = [i \in Item |-> IF i \in Range(completed[s]) THEN "done" ELSE asked[i]]
  /\ completed' = [completed EXCEPT ![s] = <<>>]

Poll(s) ==
  /\ mode[s] = "run" /\ completed[s] # <<>>
  /\ poll_queues(s)
  /\ UNCHANGED <<threads, signal, wpc, quit, stop, work, cur, employer, employerShard, sleep>>

\* enter_interrupt_mode() raises the flag ...
EnterInterrupt(s) ==
  /\ mode[s] = "run"
  /\ idle' = [idle EXCEPT ![s] = TRUE]
  /\ mode' = [mode EXCEPT ![s] = "entered"]
  /\ UNCHANGED <<notified, taken, pool>>

\* ... and the queue is polled once more before the reactor sleeps.
Raced(s) == completed[s] # <<>>

PollRaced(s) ==
  /\ mode[s] = "entered"
  /\ IF Raced(s)
     THEN /\ poll_queues(s)
          /\ idle' = [idle EXCEPT ![s] = FALSE]
          /\ mode' = [mode EXCEPT ![s] = "run"]
     ELSE mode' = [mode EXCEPT ![s] = "asleep"] /\ UNCHANGED <<idle, asked, completed>>
  /\ UNCHANGED <<threads, signal, wpc, quit, stop, work, cur, employer, employerShard, notified>>

Awake(s) ==
  /\ mode[s] = "asleep"
  /\ mode' = [mode EXCEPT ![s] = "run"]
  /\ idle' = [idle EXCEPT ![s] = FALSE]          \* exit_interrupt_mode()
  /\ notified' = [notified EXCEPT ![s] = FALSE]
  /\ UNCHANGED <<taken, pool>>

\* The reactor sleeps until its event is written or a timer is due ...
Woken(s) ==
  /\ notified[s] \/ \E i \in Item : From[i] = s /\ asked[i] = "waits"
  /\ Awake(s)

\* ... or something outside this module wakes it.
WokenByOther(s) == Awake(s)

-----------------------------------------------------------------------------
(* stop(), on shard 0 once no actor is left: every item asked for is done.  *)

\* The order of the shutdown; the variant stops the pool at any time.
AnyTime == TRUE

Quiet == \A i \in Item : asked[i] \in {"new", "done"}

\* The next free thread is told to leave, and is then joined.
StopThread ==
  /\ Quiet /\ stop \in {"no", "joined"} /\ threads # <<>>
  /\ quit' = [quit EXCEPT ![Head(threads)] = TRUE]
  /\ signal' = [signal EXCEPT ![Head(threads)] = TRUE]
  /\ stop' = Head(threads) /\ threads' = Tail(threads)
  /\ UNCHANGED <<wpc, completed, taken, sleep>>

\* ~work_thread() returns once the thread has left work().
JoinThread ==
  /\ stop \in Worker /\ wpc[stop] = "gone"
  /\ stop' = "joined"
  /\ UNCHANGED <<threads, signal, wpc, quit, completed, taken, sleep>>

\* No free thread is left: the loop ends, whoever has not yet returned.
StopReturns ==
  /\ Quiet /\ stop \in {"no", "joined"} /\ threads = <<>>
  /\ stop' = "stopped"
  /\ UNCHANGED <<threads, signal, wpc, quit, completed, taken, sleep>>

WorkerStep(w) ==
  ReadEvent(w) \/ complete_work_item(w) \/ return_worker(w) \/ LoadIdle(w) \/ WakeEmployer(w)

Stopping == StopThread \/ JoinThread \/ StopReturns

PoolNext ==
  \/ \E i \in Item : submit_work(i)
  \/ \E w \in Worker : WorkerStep(w)
  \/ \E s \in Shard : Poll(s) \/ EnterInterrupt(s) \/ PollRaced(s) \/ Woken(s) \/ WokenByOther(s)
  \/ Stopping

PoolSpec == PoolInit /\ [][PoolNext]_poolVars

\* Threads are run by the system, an awake reactor polls and runs its tasks
\* before it sleeps again, and the event and the timers end its sleep.
\* Nothing is assumed of the events that wake a reactor for other reasons.
PoolFairness ==
  /\ \A i \in Item : SF_poolVars(asked[i] = "waits" /\ submit_work(i))
  /\ \A w \in Worker : WF_poolVars(WorkerStep(w))
  /\ \A s \in Shard : WF_poolVars(PollRaced(s)) /\ WF_poolVars(Woken(s)) /\ SF_poolVars(Poll(s))
  /\ WF_poolVars(JoinThread)

PoolFairSpec == PoolSpec /\ PoolFairness

-----------------------------------------------------------------------------
(* Properties. *)

\* Type correctness of the pool; _threads has room for every thread.
PoolTypeOK ==
  /\ threads \in Seq(Worker) /\ Len(threads) <= Cardinality(Worker)
  /\ work \in [Worker -> Item \cup {NoItem}] /\ cur \in [Worker -> Item \cup {NoItem}]
  /\ signal \in [Worker -> BOOLEAN] /\ quit \in [Worker -> BOOLEAN]
  /\ employer \in [Worker -> Shard] /\ employerShard \in [Worker -> Shard]
  /\ wpc \in [Worker -> {"read", "complete", "return", "load", "wake", "gone"}]
  /\ completed \in [Shard -> Seq(Item)]
  /\ idle \in [Shard -> BOOLEAN] /\ notified \in [Shard -> BOOLEAN]
  /\ mode \in [Shard -> {"run", "entered", "asleep"}]
  /\ asked \in [Item -> {"new", "waits", "hired", "done"}]
  /\ stop \in {"no", "joined", "stopped"} \cup Worker

\* A thread in _threads has no item and is not in the list twice, and every
\* item that was handed over is with exactly one thread or in the completed
\* queue of its own shard, until it is done: no shard overwrites _work_item
\* of a thread that has not released it (thread_resource_pool.hh, submit()).
ItemInOnePlace ==
  /\ IsInjective(threads)
  /\ \A w \in Range(threads) : work[w] = NoItem /\ cur[w] = NoItem
  /\ \A i \in Item :
       (asked[i] = "hired") =
         (Cardinality({w \in Worker : work[w] = i}) + Cardinality({w \in Worker : cur[w] = i})
            + Cardinality({j \in DOMAIN completed[From[i]] : completed[From[i]][j] = i}) = 1)

\* A reactor that sleeps although an item of its own is completed is about
\* to be woken, or some thread has yet to look at a flag, unless a thread
\* has been hired by another shard: the flag is raised before the last poll
\* (thread_resource_pollfn).
SleepIsSeen ==
  \A s \in Shard : mode[s] = "asleep" /\ completed[s] # <<>> =>
    \/ notified[s]
    \/ \E w \in Worker : wpc[w] \in {"return", "load", "wake"} \/ employerShard[w] # s

\* stop() ends with the assertion that the completed queues are empty, and
\* no item is with a thread then; a thread that stop() did not join is
\* between its last item and its return to the list.
StopLosesNoWork ==
  stop = "stopped" =>
    /\ \A s \in Shard : completed[s] = <<>>
    /\ \A w \in Worker : work[w] = NoItem /\ cur[w] = NoItem
    /\ \A w \in Worker : wpc[w] # "gone" => wpc[w] \in {"return", "load", "wake", "read"}

\* What the code of the pool keeps true in every interleaving of shards,
\* threads and stop(): an item is in one place, a sleeping reactor is seen,
\* and stop() loses nothing.
PoolSafe == PoolTypeOK /\ ItemInOnePlace /\ SleepIsSeen /\ StopLosesNoWork

\* As long as every reactor runs again and again, no item stays outstanding:
\* the shards that found no free thread get one in the end, and no completed
\* item is forgotten (submit_work(), poll_queues()).
CompletesWhileAwake == (\A s \in Shard : []<>(mode[s] = "run")) => []<>Quiet

\* Every item asked for is done, as the test of the pool expects of the
\* futures of all shards.  The stale _employer_shard refutes it.
SubmittedCompletes == []<>Quiet

=============================================================================
