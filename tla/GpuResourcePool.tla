--------------------------- MODULE GpuResourcePool ---------------------------
(***************************************************************************)
(* The streams of one GPU shared by the shards: the lock-free queue of     *)
(* streams that can take another task, the atomic count of the tasks on    *)
(* each stream, and the events by which a shard learns that a task ended.  *)
(* Tasks of different shards interleave between any two accesses to shared *)
(* memory.                                                                 *)
(*                                                                         *)
(* get_stream() keeps the popped id in a local variable and captures it by *)
(* reference.  When the continuation does not run inside the call, because *)
(* no stream is free or the reactor is due to preempt, the variable is     *)
(* gone: the id read afterwards is any value the stack holds.              *)
(***************************************************************************)
EXTENDS Integers, Sequences, FiniteSets, SequencesExt

CONSTANTS
  Stream,        \* the streams that a device may have
  EventNum,      \* _event_num_per_stream
  GpuTask,       \* the calls of submit_work()
  NoStream

ASSUME GpuAssumption == IsFiniteSet(Stream) /\ IsFiniteSet(GpuTask) /\ EventNum \in Nat \ {0}

VARIABLES
  streams,       \* the streams that configure() created
  candidates,    \* _candidates
  count,         \* count[x]: stream_unit::count of stream x
  gstate,        \* gstate[k]: how far submit_work() of task k has come
  stream,        \* stream[k]: the stream_id that its continuation received
  stale          \* some get_stream() returned another id than it popped

gpuVars == <<streams, candidates, count, gstate, stream, stale>>

\* configure(): as many streams as the option says.
GpuInit ==
  /\ streams \in SUBSET Stream \ {{}}
  /\ candidates = SetToSeq(streams)
  /\ count = [x \in Stream |-> 0]
  /\ gstate = [k \in GpuTask |-> "new"] /\ stream = [k \in GpuTask |-> NoStream]
  /\ stale = FALSE

At(k, from, to) == gstate[k] = from /\ gstate' = [gstate EXCEPT ![k] = to]

\* get_stream() with everything inside the call ...
get_stream(k) ==
  /\ At(k, "new", "got") /\ candidates # <<>>
  /\ stream' = [stream EXCEPT ![k] = Head(candidates)]
  /\ candidates' = Tail(candidates)
  /\ UNCHANGED <<streams, count, stale>>

\* ... or its continuation left to a later task of the reactor ...
Defer(k) == At(k, "new", "waits") /\ UNCHANGED <<streams, candidates, count, stream, stale>>

\* ... which pops into the dead variable and returns what it reads there.
GetDeferred(k) ==
  /\ At(k, "waits", "got") /\ candidates # <<>>
  /\ candidates' = Tail(candidates)
  /\ \E x \in streams :
       /\ stream' = [stream EXCEPT ![k] = x]
       /\ stale' = (stale \/ x # Head(candidates))
  /\ UNCHANGED <<streams, count>>

\* The task and its event are on the stream; ++count decides whether the
\* stream can take another one.  The variant allows one task too few.
RoomStrict(x) == count[x] + 2 < EventNum

Room(x) == count[x] + 1 < EventNum

Launch(k) ==
  /\ At(k, "got", IF Room(stream[k]) THEN "returns" ELSE "runs")
  /\ count' = [count EXCEPT ![stream[k]] = @ + 1]
  /\ UNCHANGED <<streams, candidates, stream, stale>>

ReturnStream(k) ==
  /\ At(k, "returns", "runs")
  /\ candidates' = Append(candidates, stream[k])
  /\ UNCHANGED <<streams, count, stream, stale>>

\* poll_queues(): the event is done, set_value() and erase.
PollEvent(k) == At(k, "runs", "ready") /\ UNCHANGED <<streams, candidates, count, stream, stale>>

\* The continuation of the event: count-- and, if the stream was full, back
\* with it.  The variant compares the new count.
WasFullAfter(x) == count[x] - 1 = EventNum

WasFull(x) == count[x] = EventNum

Release(k) ==
  /\ At(k, "ready", IF WasFull(stream[k]) THEN "frees" ELSE "done")
  /\ count' = [count EXCEPT ![stream[k]] = @ - 1]
  /\ UNCHANGED <<streams, candidates, stream, stale>>

FreeStream(k) ==
  /\ At(k, "frees", "done")
  /\ candidates' = Append(candidates, stream[k])
  /\ UNCHANGED <<streams, count, stream, stale>>

GpuStep(k) ==
  \/ get_stream(k) \/ Defer(k) \/ GetDeferred(k) \/ Launch(k) \/ ReturnStream(k)
  \/ PollEvent(k) \/ Release(k) \/ FreeStream(k)

GpuNext == \E k \in GpuTask : GpuStep(k)

\* The device ends its tasks and the awake reactors run theirs; a waiting
\* get_stream() tries again on every timer, whoever else is faster.
GpuFairness ==
  \A k \in GpuTask : WF_gpuVars(Launch(k) \/ ReturnStream(k) \/ PollEvent(k) \/ Release(k) \/ FreeStream(k))
                     /\ SF_gpuVars(GetDeferred(k))

GpuSpec == GpuInit /\ [][GpuNext]_gpuVars /\ GpuFairness

-----------------------------------------------------------------------------
(* Properties. *)

\* Type correctness of the streams and tasks.
GpuTypeOK ==
  /\ candidates \in Seq(streams) /\ count \in [Stream -> Int] /\ stale \in BOOLEAN
  /\ stream \in [GpuTask -> Stream \cup {NoStream}]
  /\ gstate \in [GpuTask -> {"new", "waits", "got", "returns", "runs", "ready", "frees", "done"}]

On(x, states) == {k \in GpuTask : stream[k] = x /\ gstate[k] \in states}

\* A stream never carries more than max-task-num-per-stream tasks, and the
\* count that decides it is the number of tasks on the stream, as long as
\* no get_stream() returned another id than it popped.
StreamBound ==
  ~stale => \A x \in streams :
    /\ count[x] = Cardinality(On(x, {"returns", "runs", "ready"}))
    /\ count[x] <= EventNum

\* A stream with room is exactly once in _candidates or in the hands of the
\* task that popped it or is about to push it, a full one nowhere: ++count
\* and count-- of different shards never both return it nor both keep it.
OneToken ==
  ~stale => \A x \in streams :
    Cardinality({i \in DOMAIN candidates : candidates[i] = x}) + Cardinality(On(x, {"got", "returns", "frees"}))
      = IF count[x] < EventNum THEN 1 ELSE 0

\* The streams of a device under any interleaving of get_stream(), return
\* and completion on several shards: bounded, counted, and in one place.
GpuSafe == GpuTypeOK /\ StreamBound /\ OneToken

\* No get_stream() waits for ever for a stream, as long as none returned
\* another id than it popped.
WaitingIsServed == []<>(stale \/ \A k \in GpuTask : gstate[k] # "waits")

=============================================================================
