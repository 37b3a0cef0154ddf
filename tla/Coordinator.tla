----------------------------- MODULE Coordinator -----------------------------
(***************************************************************************)
(* The barriers of the coordinator: named semaphores on shard 0 that the   *)
(* other shards signal, and the coordinator worker, a thread that runs the *)
(* blocking part of a global barrier for shard 0 and hands the result back *)
(* through a single-producer single-consumer queue.                        *)
(*                                                                         *)
(* The worker publishes a result with a release store and then loads       *)
(* _main_thread_idle.  A release store may leave the store buffer after a  *)
(* later load of another location, so a result enters _completed and       *)
(* becomes visible to the reactor in two steps.  The store of the flag by  *)
(* the reactor is sequentially consistent: one step, before its last poll. *)
(***************************************************************************)
EXTENDS Integers, Sequences, FiniteSets, SequencesExt

CONSTANTS
  N,             \* local_shard_count()
  Barrier,       \* the names of the barriers, each used for one round
  Kind,          \* Kind[b]: "local", "global", or "direct" (with_local = false)
  QueueLength    \* coord_work_queue::queue_length

ASSUME CoordinatorAssumption == N \in Nat \ {0} /\ QueueLength \in Nat

Shard  == 0 .. N - 1
Others == 1 .. N - 1

VARIABLES
  called,     \* called[s]: the barriers that shard s has called
  signals,    \* signals on their way to shard 0: pairs <<s, b>>
  sem,        \* sem[b]: units of the semaphore named b (absent: 0)
  round,      \* round[b]: how far shard 0 is with barrier b
  pending,    \* _pending
  completed,  \* _completed
  hidden,     \* how many of its last entries the reactor cannot see yet
  hasRoom,    \* units of _queue_has_room
  event,      \* _start_eventfd is readable
  batch,      \* tmp_buf of the worker
  wpc,        \* where the worker is in work()
  quit,       \* _stopped
  idle,       \* _main_thread_idle
  notified,   \* the event of reactor 0 has been written
  mode        \* what reactor 0 is doing

barrier == <<called, signals, sem, round>>
queue   == <<pending, completed, hidden, hasRoom, event>>
worker  == <<batch, wpc, quit>>
sleep   == <<idle, notified, mode>>
coordinatorVars == <<barrier, queue, worker, sleep>>

CoordinatorInit ==
  /\ called = [s \in Shard |-> {}] /\ signals = {}
  /\ sem = [b \in Barrier |-> 0] /\ round = [b \in Barrier |-> "none"]
  /\ pending = <<>> /\ completed = <<>> /\ hidden = 0
  /\ hasRoom = QueueLength /\ event = FALSE
  /\ batch = <<>> /\ wpc = "read" /\ quit = FALSE
  /\ idle = FALSE /\ notified = FALSE /\ mode = "run"

-----------------------------------------------------------------------------
(* global_barrier() and local_barrier(). *)

\* On another shard: a signal is sent to shard 0 and nothing is waited for.
SignalBarrier(s, b) ==
  /\ s # 0 /\ b \notin called[s] /\ Kind[b] # "direct"
  /\ called' = [called EXCEPT ![s] = @ \cup {b}]
  /\ signals' = signals \cup {<<s, b>>}
  /\ UNCHANGED <<sem, round, queue, worker, sleep>>

DeliverSignal(g) ==
  /\ g \in signals /\ mode = "run"
  /\ signals' = signals \ {g}
  /\ sem' = [sem EXCEPT ![g[2]] = @ + 1]
  /\ UNCHANGED <<called, round, queue, worker, sleep>>

\* On shard 0: wait for the others, then hand the barrier to the worker.
WaitBarrier(b) ==
  /\ b \notin called[0] /\ mode = "run"
  /\ called' = [called EXCEPT ![0] = @ \cup {b}]
  /\ round' = [round EXCEPT ![b] = IF Kind[b] = "direct" THEN "submits" ELSE "waits"]
  /\ UNCHANGED <<signals, sem, queue, worker, sleep>>

\* The units that shard 0 waits for; the variants are one off.
AllButOne == N - 2
AllShards == N

AllOthers == N - 1

\* The wait is over.  A local barrier is done; its semaphore is erased.
SemaphoreReady(b) ==
  /\ round[b] = "waits" /\ sem[b] >= AllOthers /\ mode = "run"
  /\ sem' = [sem EXCEPT ![b] = @ - AllOthers]
  /\ round' = [round EXCEPT ![b] = IF Kind[b] = "local" THEN "done" ELSE "submits"]
  /\ UNCHANGED <<called, signals, queue, worker, sleep>>

-----------------------------------------------------------------------------
(* coord_work_queue, on shard 0. *)

Room == hasRoom > 0

submit_item(b) ==
  /\ round[b] = "submits" /\ Room /\ mode = "run"
  /\ hasRoom' = hasRoom - 1
  /\ pending' = Append(pending, b) /\ event' = TRUE
  /\ round' = [round EXCEPT ![b] = "submitted"]
  /\ UNCHANGED <<called, signals, sem, completed, hidden, worker, sleep>>

Visible == SubSeq(completed, 1, Len(completed) - hidden)

\* complete(): every visible result resolves its barrier and makes room.
complete ==
  /\ completed' = SubSeq(completed, Len(Visible) + 1, Len(completed))
  /\ round' = [b \in Barrier |-> IF b \in Range(Visible) THEN "done" ELSE round[b]]
  /\ sem' = [b \in Barrier |-> IF b \in Range(Visible) THEN 0 ELSE sem[b]]
  /\ hasRoom' = hasRoom + Len(Visible)

-----------------------------------------------------------------------------
(* coordinator_worker::work(), one turn of its loop. *)

ReadEvent ==
  /\ wpc = "read" /\ event
  /\ event' = FALSE
  /\ IF quit
     THEN wpc' = "gone" /\ UNCHANGED <<batch, pending>>
     ELSE batch' = pending /\ pending' = <<>> /\ wpc' = "process"
  /\ UNCHANGED <<barrier, completed, hidden, hasRoom, quit, sleep>>

\* process() has returned; push the item to _completed.
ProcessItem ==
  /\ wpc = "process" /\ batch # <<>>
  /\ completed' = Append(completed, Head(batch)) /\ hidden' = hidden + 1
  /\ batch' = Tail(batch)
  /\ UNCHANGED <<barrier, pending, hasRoom, event, wpc, quit, sleep>>

\* The store leaves the store buffer.
BecomesVisible ==
  /\ hidden > 0 /\ hidden' = hidden - 1
  /\ UNCHANGED <<barrier, pending, completed, hasRoom, event, worker, sleep>>

\* The variant of the test forgets the flag.
NeverIdle == FALSE

SeesIdle == idle

LoadIdle ==
  /\ wpc = "process" /\ batch = <<>>
  /\ wpc' = IF SeesIdle THEN "wake" ELSE "read"
  /\ UNCHANGED <<barrier, queue, batch, quit, sleep>>

WakeReactor ==
  /\ wpc = "wake" /\ wpc' = "read"
  /\ notified' = TRUE
  /\ UNCHANGED <<barrier, queue, batch, quit, idle, mode>>

\* ~coordinator_worker()
StopWorker ==
  /\ ~quit /\ quit' = TRUE /\ event' = TRUE
  /\ UNCHANGED <<barrier, pending, completed, hidden, hasRoom, batch, wpc, sleep>>

-----------------------------------------------------------------------------
(* Reactor 0, through coordinator_pollfn. *)

Poll ==
  /\ mode = "run" /\ Visible # <<>>
  /\ complete
  /\ UNCHANGED <<called, signals, pending, hidden, event, worker, sleep>>

EnterInterrupt ==
  /\ mode = "run" /\ mode' = "entered" /\ idle' = TRUE
  /\ UNCHANGED <<barrier, queue, worker, notified>>

PollRaced ==
  /\ mode = "entered"
  /\ IF Visible # <<>>
     THEN complete /\ idle' = FALSE /\ mode' = "run"
     ELSE mode' = "asleep" /\ UNCHANGED <<idle, completed, round, sem, hasRoom>>
  /\ UNCHANGED <<called, signals, pending, hidden, event, worker, notified>>

Awake ==
  /\ mode = "asleep" /\ mode' = "run"
  /\ idle' = FALSE /\ notified' = FALSE
  /\ UNCHANGED <<barrier, queue, worker>>

\* The reactor sleeps until its event is written or a signal arrives ...
Woken == (notified \/ signals # {}) /\ Awake

\* ... or something outside this module wakes it.
WokenByOther == Awake

WorkerStep == ReadEvent \/ ProcessItem \/ LoadIdle \/ WakeReactor

\* What the tasks of reactor 0 do; each barrier takes each step once.
ReactorTask ==
  \/ \E g \in signals : DeliverSignal(g)
  \/ \E b \in Barrier : SemaphoreReady(b) \/ submit_item(b)
  \/ Poll

CoordinatorStep ==
  \/ ReactorTask \/ WorkerStep \/ BecomesVisible
  \/ EnterInterrupt \/ PollRaced \/ Woken \/ WokenByOther

-----------------------------------------------------------------------------
(* Properties. *)

\* Type correctness of the barriers and the worker.
CoordinatorTypeOK ==
  /\ called \in [Shard -> SUBSET Barrier] /\ signals \subseteq Others \X Barrier
  /\ sem \in [Barrier -> 0 .. N - 1]
  /\ round \in [Barrier -> {"none", "waits", "submits", "submitted", "done"}]
  /\ hidden \in 0 .. Len(completed) /\ hasRoom \in 0 .. QueueLength
  /\ event \in BOOLEAN /\ quit \in BOOLEAN
  /\ wpc \in {"read", "process", "wake", "gone"}
  /\ idle \in BOOLEAN /\ notified \in BOOLEAN /\ mode \in {"run", "entered", "asleep"}

\* Shard 0 leaves the local part of a barrier only after every other shard
\* has called it, and then finds no unit of this round left over.
BarrierHolds ==
  \A b \in Barrier : round[b] \in {"submits", "submitted", "done"} /\ Kind[b] # "direct" =>
    /\ \A s \in Others : b \in called[s]
    /\ sem[b] = 0 /\ \A g \in signals : g[2] # b

\* The units of _queue_has_room and the items on their way through the
\* worker add up to the capacity, so no push to either queue fails.
RoomAccounted ==
  Len(pending) + Len(batch) + Len(completed) + hasRoom = QueueLength

=============================================================================
