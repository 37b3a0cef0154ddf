--------------------------- MODULE ShutdownProofs ---------------------------
(***************************************************************************)
(* Proofs about Shutdown for any number of shards, barriers and queue      *)
(* lengths: a barrier holds every shard back, and the engine ends only     *)
(* when no shard has an actor.                                             *)
(***************************************************************************)
EXTENDS Shutdown, FiniteSetTheorems, SequenceTheorems, TLAPS

Past(b)    == round[b] \in {"submits", "submitted", "done"}
Settled(b) == round[b] \in {"submitted", "done"}

(* The shards that have called barrier b, and those whose signal is still  *)
(* on its way.                                                             *)
Callers(b)    == {s \in Others : b \in called[s]}
Signalling(b) == {s \in Others : <<s, b>> \in signals}

BarrierTypes ==
  /\ called \in [Shard -> SUBSET Barrier] /\ signals \subseteq Others \X Barrier
  /\ sem \in [Barrier -> Nat]
  /\ round \in [Barrier -> {"none", "waits", "submits", "submitted", "done"}]

(* Until shard 0 has passed, the units of a semaphore and the signals on   *)
(* their way are as many as the shards that have called the barrier.       *)
Counted ==
  \A b \in Barrier :
    IF Kind[b] = "direct" THEN sem[b] = 0 /\ round[b] # "waits"
    ELSE ~Past(b) => sem[b] + Cardinality(Signalling(b)) = Cardinality(Callers(b))

BarrierInv ==
  /\ BarrierTypes /\ Counted /\ BarrierHolds
  /\ \A g \in signals : Kind[g[2]] # "direct" /\ g[2] \in called[g[1]]
  /\ \A b \in Barrier : b \notin called[0] => round[b] = "none"

(* The queues of the worker hold barriers that shard 0 has handed to it.   *)
QueueInv ==
  /\ pending \in Seq(Barrier) /\ batch \in Seq(Barrier) /\ completed \in Seq(Barrier)
  /\ hidden \in 0 .. Len(completed) /\ hasRoom \in Nat /\ RoomAccounted
  /\ wpc # "process" => batch = <<>>
  /\ \A i \in DOMAIN pending : Settled(pending[i])
  /\ \A i \in DOMAIN batch : Settled(batch[i])
  /\ \A i \in DOMAIN completed : Settled(completed[i])

FlagsOK ==
  /\ event \in BOOLEAN /\ quit \in BOOLEAN
  /\ wpc \in {"read", "process", "wake", "gone"}
  /\ idle \in BOOLEAN /\ notified \in BOOLEAN /\ mode \in {"run", "entered", "asleep"}

CoordinatorInv == BarrierInv /\ QueueInv /\ FlagsOK

(* A shard that has entered the last barrier has no actor and gets none.   *)
SystemInv ==
  /\ orders \subseteq Shard /\ cleanups \subseteq Others
  /\ exiting \in BOOLEAN /\ engine \in {"up", "exited"}
  /\ stopping \in [Shard -> BOOLEAN] /\ pollers \in [Shard -> BOOLEAN]
  /\ actors \in [Shard -> 0 .. MaxActors]
  /\ \A s \in Shard : PeaceStopped \in called[s] => stopping[s] /\ actors[s] = 0
  /\ \A s \in Shard : stopping[s] => exiting /\ s \notin orders
  /\ orders # {} => exiting
  /\ engine = "exited" => round[PeaceStopped] = "done"

ShutdownInv == CoordinatorInv /\ SystemInv

-----------------------------------------------------------------------------
(* The barriers. *)

LEMMA ShardFacts ==
  /\ IsFiniteSet(Others) /\ Cardinality(Others) = N - 1 /\ Others \subseteq Shard /\ 0 \in Shard
  /\ 0 \notin Others /\ Shard = Others \cup {0} /\ N - 1 \in Nat
<1>1. N \in Nat \ {0}
  BY CoordinatorAssumption
<1>2. IsFiniteSet(1 .. N - 1) /\ Cardinality(1 .. N - 1) = IF 1 > N - 1 THEN 0 ELSE (N - 1) - 1 + 1
  BY <1>1, FS_Interval
<1>3. Cardinality(1 .. N - 1) = N - 1
  BY <1>1, <1>2
<1> QED BY <1>1, <1>2, <1>3 DEF Others, Shard

(* Sets of callers and of signals can be counted. *)
LEMMA Countable ==
  ASSUME NEW S \in SUBSET Others
  PROVE  /\ IsFiniteSet(S) /\ Cardinality(S) \in Nat /\ Cardinality(S) <= N - 1
         /\ Cardinality(S) = N - 1 => S = Others
<1>1. IsFiniteSet(S) /\ Cardinality(S) <= Cardinality(Others) /\ (Cardinality(Others) = Cardinality(S) => S = Others)
  BY ShardFacts, FS_Subset
<1>2. Cardinality(S) \in Nat
  BY <1>1, FS_CardinalityType
<1> QED BY <1>1, <1>2, ShardFacts

LEMMA BarrierInit == CoordinatorInit => BarrierInv
<1> SUFFICES ASSUME CoordinatorInit PROVE BarrierInv
  OBVIOUS
<1>1. \A b \in Barrier : Callers(b) = {} /\ Signalling(b) = {}
  BY ShardFacts DEF CoordinatorInit, Callers, Signalling
<1>2. Counted
  <2>1. Cardinality({}) = 0
    BY FS_EmptySet
  <2>2. \A b \in Barrier : sem[b] = 0 /\ round[b] = "none"
    BY DEF CoordinatorInit
  <2> QED BY <1>1, <2>1, <2>2 DEF Counted
<1> QED BY <1>2 DEF CoordinatorInit, BarrierInv, BarrierTypes, BarrierHolds

LEMMA SignalBarrierInv ==
  ASSUME BarrierInv, NEW s \in Others, NEW b \in Barrier, SignalBarrier(s, b)
  PROVE  BarrierInv'
<1>1. /\ b \notin called[s] /\ Kind[b] # "direct" /\ s \in Shard /\ s # 0
      /\ called' = [called EXCEPT ![s] = @ \cup {b}] /\ signals' = signals \cup {<<s, b>>}
      /\ sem' = sem /\ round' = round /\ called \in [Shard -> SUBSET Barrier]
  BY ShardFacts DEF SignalBarrier, BarrierInv, BarrierTypes
<1>2. BarrierTypes'
  BY <1>1 DEF BarrierInv, BarrierTypes
<1>3. ~Past(b)
  BY <1>1 DEF BarrierInv, BarrierHolds, Past
<1>4. \A u \in Shard, d \in Barrier : d \in called'[u] <=> d \in called[u] \/ (u = s /\ d = b)
  BY <1>1
<1>5. Counted'
  <2> SUFFICES ASSUME NEW d \in Barrier
               PROVE  IF Kind[d] = "direct" THEN sem[d] = 0 /\ round[d] # "waits"
                      ELSE ~Past(d) => sem[d] + Cardinality(Signalling(d)') = Cardinality(Callers(d)')
    BY <1>1 DEF Counted, Past
  <2>1. CASE d # b
    <3>1. Signalling(d)' = Signalling(d) /\ Callers(d)' = Callers(d)
      BY <1>1, <1>4, <2>1, ShardFacts DEF Signalling, Callers
    <3> QED BY <3>1 DEF BarrierInv, Counted
  <2>2. CASE d = b
    <3>1. <<s, b>> \notin signals
      BY <1>1 DEF BarrierInv
    <3>2. /\ Signalling(b)' = Signalling(b) \cup {s} /\ s \notin Signalling(b)
          /\ Callers(b)' = Callers(b) \cup {s} /\ s \notin Callers(b)
      BY <1>1, <1>4, <3>1, ShardFacts DEF Signalling, Callers
    <3>3. IsFiniteSet(Signalling(b)) /\ Cardinality(Signalling(b)) \in Nat
      BY Countable DEF Signalling
    <3>4. IsFiniteSet(Callers(b)) /\ Cardinality(Callers(b)) \in Nat
      BY Countable DEF Callers
    <3>5. Cardinality(Signalling(b)') = Cardinality(Signalling(b)) + 1
      BY <3>2, <3>3, FS_AddElement
    <3>6. Cardinality(Callers(b)') = Cardinality(Callers(b)) + 1
      BY <3>2, <3>4, FS_AddElement
    <3>7. sem[b] \in Nat /\ sem[b] + Cardinality(Signalling(b)) = Cardinality(Callers(b))
      BY <1>1, <1>3 DEF BarrierInv, BarrierTypes, Counted
    <3> QED BY <1>1, <2>2, <3>3, <3>4, <3>5, <3>6, <3>7
  <2> QED BY <2>1, <2>2
<1>6. BarrierHolds'
  <2> SUFFICES ASSUME NEW d \in Barrier, Past(d), Kind[d] # "direct"
               PROVE  (\A u \in Others : d \in called'[u]) /\ sem[d] = 0 /\ \A g \in signals' : g[2] # d
    BY <1>1 DEF BarrierHolds, Past
  <2>1. (\A u \in Others : d \in called[u]) /\ sem[d] = 0 /\ (\A g \in signals : g[2] # d) /\ d # b
    BY <1>3 DEF BarrierInv, BarrierHolds, Past
  <2> QED BY <1>1, <1>4, <2>1, ShardFacts
<1>7. \A g \in signals' : Kind[g[2]] # "direct" /\ g[2] \in called'[g[1]]
  <2> SUFFICES ASSUME NEW g \in signals' PROVE Kind[g[2]] # "direct" /\ g[2] \in called'[g[1]]
    OBVIOUS
  <2>1. CASE g \in signals
    <3>1. g[1] \in Shard /\ g[2] \in Barrier /\ Kind[g[2]] # "direct" /\ g[2] \in called[g[1]]
      BY <2>1, ShardFacts DEF BarrierInv, BarrierTypes
    <3> QED BY <3>1, <1>4
  <2>2. CASE g = <<s, b>>
    BY <2>2, <1>1, <1>4
  <2> QED BY <2>1, <2>2, <1>1
<1>8. \A d \in Barrier : d \notin called'[0] => round'[d] = "none"
  BY <1>1, <1>4, ShardFacts DEF BarrierInv
<1> QED BY <1>2, <1>5, <1>6, <1>7, <1>8 DEF BarrierInv

LEMMA DeliverSignalInv ==
  ASSUME BarrierInv, NEW g \in signals, DeliverSignal(g)
  PROVE  BarrierInv'
<1> DEFINE s == g[1]
           b == g[2]
<1>1. /\ s \in Others /\ b \in Barrier /\ g = <<s, b>> /\ Kind[b] # "direct"
      /\ signals' = signals \ {g} /\ sem' = [sem EXCEPT ![b] = @ + 1]
      /\ called' = called /\ round' = round /\ sem \in [Barrier -> Nat]
  BY DEF DeliverSignal, BarrierInv, BarrierTypes
<1>2. BarrierTypes'
  BY <1>1 DEF BarrierInv, BarrierTypes
<1>3. ~Past(b)
  BY <1>1 DEF BarrierInv, BarrierHolds, Past
<1>4. Counted'
  <2> HIDE DEF s, b
  <2> SUFFICES ASSUME NEW d \in Barrier
               PROVE  IF Kind[d] = "direct" THEN sem'[d] = 0 /\ round[d] # "waits"
                      ELSE ~Past(d) => sem'[d] + Cardinality(Signalling(d)') = Cardinality(Callers(d))
    BY <1>1 DEF Counted, Past, Callers
  <2>1. CASE d # b
    <3>1. Signalling(d)' = Signalling(d) /\ sem'[d] = sem[d]
      BY <1>1, <2>1 DEF Signalling
    <3> QED BY <3>1 DEF BarrierInv, Counted
  <2>2. CASE d = b
    <3>1. Signalling(b)' = Signalling(b) \ {s} /\ s \in Signalling(b)
      BY <1>1 DEF Signalling
    <3>2. IsFiniteSet(Signalling(b)) /\ Cardinality(Signalling(b)) \in Nat
      BY Countable DEF Signalling
    <3>3. Cardinality(Signalling(b)') = Cardinality(Signalling(b)) - 1
      BY <3>1, <3>2, FS_RemoveElement
    <3>4. sem[b] \in Nat /\ sem'[b] = sem[b] + 1 /\ sem[b] + Cardinality(Signalling(b)) = Cardinality(Callers(b))
      BY <1>1, <1>3 DEF BarrierInv, Counted
    <3> QED BY <1>1, <2>2, <3>2, <3>3, <3>4
  <2> QED BY <2>1, <2>2
<1>5. BarrierHolds'
  <2> SUFFICES ASSUME NEW d \in Barrier, Past(d), Kind[d] # "direct"
               PROVE  (\A u \in Others : d \in called[u]) /\ sem'[d] = 0 /\ \A h \in signals' : h[2] # d
    BY <1>1 DEF BarrierHolds, Past
  <2>1. (\A u \in Others : d \in called[u]) /\ sem[d] = 0 /\ (\A h \in signals : h[2] # d) /\ d # b
    BY <1>3 DEF BarrierInv, BarrierHolds, Past
  <2> QED BY <1>1, <2>1
<1> QED BY <1>1, <1>2, <1>4, <1>5 DEF BarrierInv

LEMMA WaitBarrierInv ==
  ASSUME BarrierInv, NEW b \in Barrier, WaitBarrier(b)
  PROVE  BarrierInv'
<1>1. /\ b \notin called[0] /\ round[b] = "none" /\ signals' = signals /\ sem' = sem
      /\ called' = [called EXCEPT ![0] = @ \cup {b}]
      /\ round' = [round EXCEPT ![b] = IF Kind[b] = "direct" THEN "submits" ELSE "waits"]
      /\ called \in [Shard -> SUBSET Barrier]
      /\ round \in [Barrier -> {"none", "waits", "submits", "submitted", "done"}]
  BY DEF WaitBarrier, BarrierInv, BarrierTypes
<1>2. BarrierTypes'
  BY <1>1, ShardFacts DEF BarrierInv, BarrierTypes
<1>3. (\A u \in Others : called'[u] = called[u]) /\ (\A u \in Shard : called[u] \subseteq called'[u]) /\ b \in called'[0]
  BY <1>1, ShardFacts
<1>4. \A d \in Barrier : Kind[d] # "direct" => (Past(d)' <=> Past(d))
  BY <1>1 DEF Past
<1>5. \A d \in Barrier : Callers(d)' = Callers(d) /\ Signalling(d)' = Signalling(d)
  BY <1>1, <1>3 DEF Callers, Signalling
<1>6. Counted'
  <2>1. \A d \in Barrier : Kind[d] = "direct" /\ round[d] # "waits" => round'[d] # "waits"
    BY <1>1
  <2> QED BY <1>1, <1>4, <1>5, <2>1 DEF BarrierInv, Counted
<1>7. BarrierHolds'
  <2> SUFFICES ASSUME NEW d \in Barrier, Past(d)', Kind[d] # "direct"
               PROVE  (\A u \in Others : d \in called'[u]) /\ sem[d] = 0 /\ \A g \in signals : g[2] # d
    BY <1>1 DEF BarrierHolds, Past
  <2> QED BY <1>3, <1>4 DEF BarrierInv, BarrierHolds, Past
<1>8. \A g \in signals' : Kind[g[2]] # "direct" /\ g[2] \in called'[g[1]]
  BY <1>1, <1>3, ShardFacts DEF BarrierInv, BarrierTypes
<1>9. \A d \in Barrier : d \notin called'[0] => round'[d] = "none"
  BY <1>1, <1>3, ShardFacts DEF BarrierInv
<1> QED BY <1>2, <1>6, <1>7, <1>8, <1>9 DEF BarrierInv

(* N - 1 units mean that all other shards have called the barrier.         *)
LEMMA SemaphoreReadyInv ==
  ASSUME BarrierInv, NEW b \in Barrier, SemaphoreReady(b)
  PROVE  BarrierInv'
<1>1. /\ round[b] = "waits" /\ sem[b] >= N - 1 /\ signals' = signals /\ called' = called
      /\ sem' = [sem EXCEPT ![b] = @ - (N - 1)] /\ sem \in [Barrier -> Nat]
      /\ round' = [round EXCEPT ![b] = IF Kind[b] = "local" THEN "done" ELSE "submits"]
      /\ round \in [Barrier -> {"none", "waits", "submits", "submitted", "done"}]
  BY DEF SemaphoreReady, AllOthers, BarrierInv, BarrierTypes
<1>2. ~Past(b)
  BY <1>1 DEF Past
<1>3. CASE Kind[b] # "direct"
  <2>1. /\ IsFiniteSet(Signalling(b)) /\ Cardinality(Signalling(b)) \in Nat
        /\ Cardinality(Callers(b)) \in Nat /\ Cardinality(Callers(b)) <= N - 1
        /\ Cardinality(Callers(b)) = N - 1 => Callers(b) = Others
    BY Countable DEF Signalling, Callers
  <2>2. sem[b] \in Nat /\ sem[b] + Cardinality(Signalling(b)) = Cardinality(Callers(b))
    BY <1>1, <1>2, <1>3 DEF BarrierInv, Counted
  <2>3. sem[b] = N - 1 /\ Cardinality(Signalling(b)) = 0 /\ Callers(b) = Others
    BY <1>1, <2>1, <2>2, ShardFacts
  <2>4. Signalling(b) = {}
    BY <2>1, <2>3, FS_EmptySet
  <2>5. sem'[b] = 0 /\ \A d \in Barrier \ {b} : sem'[d] = sem[d]
    BY <1>1, <2>3, ShardFacts
  <2>6. \A g \in signals : g[2] # b
    BY <2>4 DEF Signalling, BarrierInv, BarrierTypes
  <2>7. Past(b)' /\ \A d \in Barrier \ {b} : Past(d)' <=> Past(d)
    BY <1>1 DEF Past
  <2>8. BarrierTypes'
    <3>1. sem' \in [Barrier -> Nat]
      BY <1>1, <2>3, ShardFacts
    <3> QED BY <1>1, <3>1 DEF BarrierInv, BarrierTypes
  <2>9. \A d \in Barrier : Callers(d)' = Callers(d) /\ Signalling(d)' = Signalling(d)
    BY <1>1 DEF Callers, Signalling
  <2>10. Counted'
    <3>1. \A d \in Barrier \ {b} : round'[d] = round[d]
      BY <1>1
    <3> QED BY <1>3, <2>5, <2>7, <2>9, <3>1 DEF BarrierInv, Counted
  <2>11. BarrierHolds'
    <3> SUFFICES ASSUME NEW d \in Barrier, Past(d)', Kind[d] # "direct"
                 PROVE  (\A u \in Others : d \in called[u]) /\ sem'[d] = 0 /\ \A g \in signals : g[2] # d
      BY <1>1 DEF BarrierHolds, Past
    <3>1. CASE d = b
      BY <3>1, <2>3, <2>5, <2>6 DEF Callers
    <3>2. CASE d # b
      BY <3>2, <2>5, <2>7 DEF BarrierInv, BarrierHolds, Past
    <3> QED BY <3>1, <3>2
  <2>12. \A d \in Barrier : d \notin called'[0] => round'[d] = "none"
    BY <1>1 DEF BarrierInv
  <2> QED BY <1>1, <2>8, <2>10, <2>11, <2>12 DEF BarrierInv
<1>4. CASE Kind[b] = "direct"
  BY <1>1, <1>4 DEF BarrierInv, Counted
<1> QED BY <1>3, <1>4

(* What happens to a barrier after the wait does not matter.               *)
LEMMA PastInv ==
  ASSUME BarrierInv, called' = called, signals' = signals, sem' = sem,
         round' \in [Barrier -> {"none", "waits", "submits", "submitted", "done"}],
         \A b \in Barrier : round'[b] = round[b] \/ (Past(b) /\ Past(b)')
  PROVE  BarrierInv'
<1>1. \A b \in Barrier : Past(b)' <=> Past(b)
  BY DEF Past
<1>2. \A d \in Barrier : Callers(d)' = Callers(d) /\ Signalling(d)' = Signalling(d)
  BY DEF Callers, Signalling
<1>3. BarrierTypes'
  BY DEF BarrierInv, BarrierTypes
<1>4. Counted'
  <2>1. \A b \in Barrier : round'[b] = "waits" => round[b] = "waits"
    BY DEF Past
  <2> QED BY <1>1, <1>2, <2>1 DEF BarrierInv, Counted
<1>5. BarrierHolds'
  <2> SUFFICES ASSUME NEW d \in Barrier, Past(d)', Kind[d] # "direct"
               PROVE  (\A u \in Others : d \in called[u]) /\ sem[d] = 0 /\ \A g \in signals : g[2] # d
    BY DEF BarrierHolds, Past
  <2> QED BY <1>1 DEF BarrierInv, BarrierHolds, Past
<1>6. \A d \in Barrier : d \notin called'[0] => round'[d] = "none"
  BY DEF BarrierInv, Past
<1> QED BY <1>3, <1>4, <1>5, <1>6 DEF BarrierInv

-----------------------------------------------------------------------------
(* The queues of the worker, and all of the coordinator. *)

LEMMA CoordinatorInvInit == CoordinatorInit => CoordinatorInv
<1> SUFFICES ASSUME CoordinatorInit PROVE CoordinatorInv
  OBVIOUS
<1>1. QueueInv
  BY CoordinatorAssumption DEF CoordinatorInit, QueueInv, RoomAccounted
<1>2. FlagsOK
  BY DEF CoordinatorInit, FlagsOK
<1> QED BY <1>1, <1>2, BarrierInit DEF CoordinatorInv

(* The queues only have to know that what was handed over stays so.        *)
LEMMA QueueSame ==
  ASSUME QueueInv, UNCHANGED <<pending, completed, hidden, hasRoom, batch, wpc>>,
         \A b \in Barrier : Settled(b) => Settled(b)'
  PROVE  QueueInv'
<1>1. /\ \A i \in DOMAIN pending : Settled(pending[i])'
      /\ \A i \in DOMAIN batch : Settled(batch[i])'
      /\ \A i \in DOMAIN completed : Settled(completed[i])'
  BY DEF QueueInv, Settled
<1> QED BY <1>1 DEF QueueInv, RoomAccounted, Settled

LEMMA SubmitInv ==
  ASSUME CoordinatorInv, NEW b \in Barrier, submit_item(b)
  PROVE  CoordinatorInv'
<1>1. /\ round[b] = "submits" /\ hasRoom > 0 /\ hasRoom' = hasRoom - 1 /\ pending' = Append(pending, b)
      /\ event' = TRUE /\ round' = [round EXCEPT ![b] = "submitted"]
      /\ UNCHANGED <<called, signals, sem, completed, hidden, batch, wpc, quit, idle, notified, mode>>
      /\ round \in [Barrier -> {"none", "waits", "submits", "submitted", "done"}]
  BY DEF submit_item, Room, worker, sleep, CoordinatorInv, BarrierInv, BarrierTypes
<1>2. BarrierInv'
  <2>1. \A d \in Barrier : round'[d] = round[d] \/ (Past(d) /\ Past(d)')
    BY <1>1 DEF Past
  <2> QED BY <1>1, <2>1, PastInv DEF CoordinatorInv
<1>3. \A d \in Barrier : (Settled(d) => Settled(d)') /\ Settled(b)'
  BY <1>1 DEF Settled
<1>4. /\ pending' \in Seq(Barrier) /\ Len(pending') = Len(pending) + 1
      /\ \A i \in DOMAIN pending' : round'[pending'[i]] \in {"submitted", "done"}
  <2>1. pending \in Seq(Barrier) /\ \A i \in DOMAIN pending : Settled(pending[i]) /\ pending[i] \in Barrier
    BY DEF CoordinatorInv, QueueInv
  <2>2. pending' \in Seq(Barrier) /\ Len(pending') = Len(pending) + 1
    BY <1>1, <2>1
  <2>3. \A i \in DOMAIN pending' : pending'[i] = b \/ (i \in DOMAIN pending /\ pending'[i] = pending[i])
    BY <1>1, <2>1
  <2> QED BY <1>3, <2>1, <2>2, <2>3 DEF Settled
<1>5. /\ \A i \in DOMAIN batch : Settled(batch[i])'
      /\ \A i \in DOMAIN completed : Settled(completed[i])'
  BY <1>1, <1>3 DEF CoordinatorInv, QueueInv, Settled
<1>6. hasRoom' \in Nat /\ RoomAccounted'
  BY <1>1, <1>4 DEF CoordinatorInv, QueueInv, RoomAccounted
<1>7. QueueInv'
  BY <1>1, <1>4, <1>5, <1>6 DEF CoordinatorInv, QueueInv, Settled
<1>8. FlagsOK'
  BY <1>1 DEF CoordinatorInv, FlagsOK
<1> QED BY <1>2, <1>7, <1>8 DEF CoordinatorInv

(* complete() resolves barriers that were handed over, no others.          *)
LEMMA CompleteInv ==
  ASSUME CoordinatorInv, complete,
         UNCHANGED <<called, signals, pending, hidden, event, batch, wpc, quit, notified>>,
         idle' \in BOOLEAN, mode' \in {"run", "entered", "asleep"}
  PROVE  CoordinatorInv'
<1> DEFINE n == Len(completed) - hidden
<1>1. /\ completed \in Seq(Barrier) /\ hidden \in Nat /\ n \in Nat /\ n <= Len(completed) /\ Len(completed) \in Nat
      /\ \A i \in 1 .. Len(completed) : completed[i] \in Barrier /\ Settled(completed[i])
      /\ hidden = Len(completed) - n
  BY DEF CoordinatorInv, QueueInv
<1> HIDE DEF n
<1>2. /\ Visible \in Seq(Barrier) /\ Len(Visible) = n
      /\ \A i \in 1 .. n : Visible[i] = completed[i]
  <2>1. Visible = SubSeq(completed, 1, n)
    BY DEF Visible, n
  <2> QED BY <1>1, <2>1, SubSeqProperties
<1>3. \A b \in Range(Visible) : b \in Barrier /\ Settled(b)
  BY <1>1, <1>2 DEF Range
<1>4. sem' = sem
  <2>1. \A b \in Range(Visible) : sem[b] = 0
    BY <1>3 DEF CoordinatorInv, BarrierInv, Counted, BarrierHolds, Settled
  <2>2. sem' = [b \in Barrier |-> IF b \in Range(Visible) THEN 0 ELSE sem[b]] /\ sem \in [Barrier -> Nat]
    BY DEF complete, CoordinatorInv, BarrierInv, BarrierTypes
  <2> QED BY <2>1, <2>2
<1>5. /\ round' = [b \in Barrier |-> IF b \in Range(Visible) THEN "done" ELSE round[b]]
      /\ round \in [Barrier -> {"none", "waits", "submits", "submitted", "done"}]
  BY DEF complete, CoordinatorInv, BarrierInv, BarrierTypes
<1>6. BarrierInv'
  <2>1. \A b \in Barrier : round'[b] = round[b] \/ (Past(b) /\ Past(b)')
    BY <1>3, <1>5 DEF Past, Settled
  <2>2. round' \in [Barrier -> {"none", "waits", "submits", "submitted", "done"}]
    BY <1>5
  <2> QED BY <1>4, <2>1, <2>2, PastInv DEF CoordinatorInv
<1>7. \A b \in Barrier : Settled(b) => Settled(b)'
  BY <1>5 DEF Settled
<1>8. /\ completed' \in Seq(Barrier) /\ Len(completed') = hidden
      /\ \A i \in 1 .. hidden : completed'[i] = completed[n + i]
  <2>1. completed' = SubSeq(completed, n + 1, Len(completed))
    BY <1>2 DEF complete
  <2>2. \A i \in (n + 1) .. Len(completed) : completed[i] \in Barrier
    BY <1>1
  <2>3. /\ completed' \in Seq(Barrier)
        /\ Len(completed') = IF n + 1 <= Len(completed) THEN Len(completed) - (n + 1) + 1 ELSE 0
        /\ \A i \in 1 .. Len(completed) - (n + 1) + 1 : completed'[i] = completed[(n + 1) + i - 1]
    BY <1>1, <2>1, <2>2, SubSeqProperties
  <2>4. Len(completed') = hidden
    BY <1>1, <2>3
  <2> QED BY <1>1, <2>3, <2>4
<1>9. \A i \in DOMAIN completed' : round'[completed'[i]] \in {"submitted", "done"}
  <2> SUFFICES ASSUME NEW i \in 1 .. hidden PROVE round'[completed'[i]] \in {"submitted", "done"}
    BY <1>8 DEF Settled
  <2>1. n + i \in 1 .. Len(completed)
    BY <1>1
  <2>2. completed'[i] = completed[n + i] /\ completed[n + i] \in Barrier /\ Settled(completed[n + i])
    BY <1>1, <1>8, <2>1
  <2> QED BY <1>7, <2>2 DEF Settled
<1>10. /\ \A i \in DOMAIN pending : Settled(pending[i])'
       /\ \A i \in DOMAIN batch : Settled(batch[i])'
  BY <1>7 DEF CoordinatorInv, QueueInv, Settled
<1>11. hasRoom' \in Nat /\ RoomAccounted' /\ hidden' \in 0 .. Len(completed')
  <2>1. hasRoom' = hasRoom + n /\ hasRoom \in Nat
    BY <1>2 DEF complete, CoordinatorInv, QueueInv
  <2>2. /\ Len(pending) \in Nat /\ Len(batch) \in Nat
        /\ Len(pending) + Len(batch) + Len(completed) + hasRoom = QueueLength
    BY DEF CoordinatorInv, QueueInv, RoomAccounted
  <2>3. Len(pending) + Len(batch) + hidden + (hasRoom + n) = QueueLength
    BY <1>1, <2>1, <2>2
  <2> QED BY <1>1, <1>8, <2>1, <2>3 DEF RoomAccounted
<1>12. QueueInv'
  BY <1>8, <1>9, <1>10, <1>11 DEF CoordinatorInv, QueueInv, Settled
<1>13. FlagsOK'
  BY DEF CoordinatorInv, FlagsOK
<1> QED BY <1>6, <1>12, <1>13 DEF CoordinatorInv

LEMMA WorkerInv ==
  ASSUME CoordinatorInv, WorkerStep
  PROVE  CoordinatorInv'
<1>1. BarrierInv' /\ \A b \in Barrier : Settled(b)' <=> Settled(b)
  <2>1. UNCHANGED <<called, signals, sem, round>>
    BY DEF WorkerStep, ReadEvent, ProcessItem, LoadIdle, WakeReactor, barrier
  <2> QED BY <2>1, PastInv DEF CoordinatorInv, BarrierInv, BarrierTypes, Settled
<1>2. CASE ReadEvent
  <2>1. round' = round /\ completed' = completed /\ hidden' = hidden /\ hasRoom' = hasRoom
    BY <1>2 DEF ReadEvent, barrier
  <2>2. batch = <<>> /\ Len(batch) = 0 /\ pending \in Seq(Barrier) /\ Len(pending) \in Nat
    BY <1>2 DEF ReadEvent, CoordinatorInv, QueueInv
  <2>3. CASE quit
    <3>1. batch' = batch /\ pending' = pending /\ wpc' = "gone"
      BY <1>2, <2>3 DEF ReadEvent
    <3> QED BY <1>1, <1>2, <2>1, <2>2, <3>1
            DEF ReadEvent, sleep, CoordinatorInv, QueueInv, RoomAccounted, FlagsOK, Settled
  <2>4. CASE ~quit
    <3>1. batch' = pending /\ pending' = <<>> /\ wpc' = "process"
      BY <1>2, <2>4 DEF ReadEvent
    <3>2. RoomAccounted'
      BY <2>1, <2>2, <3>1 DEF CoordinatorInv, QueueInv, RoomAccounted
    <3>3. QueueInv'
      BY <2>1, <2>2, <3>1, <3>2 DEF CoordinatorInv, QueueInv, Settled
    <3>4. FlagsOK'
      BY <1>2, <3>1 DEF ReadEvent, sleep, CoordinatorInv, FlagsOK
    <3> QED BY <1>1, <3>3, <3>4 DEF CoordinatorInv
  <2> QED BY <2>3, <2>4
<1>3. CASE ProcessItem
  <2>1. /\ batch # <<>> /\ completed' = Append(completed, Head(batch)) /\ hidden' = hidden + 1
        /\ batch' = Tail(batch) /\ wpc = "process" /\ wpc' = wpc /\ pending' = pending /\ hasRoom' = hasRoom
        /\ round' = round /\ batch \in Seq(Barrier) /\ completed \in Seq(Barrier)
        /\ hidden \in 0 .. Len(completed)
    BY <1>3 DEF ProcessItem, barrier, CoordinatorInv, QueueInv
  <2>2. /\ batch' \in Seq(Barrier) /\ Len(batch') = Len(batch) - 1 /\ Len(batch) \in Nat \ {0}
        /\ \A i \in DOMAIN batch' : i + 1 \in DOMAIN batch /\ batch'[i] = batch[i + 1]
        /\ Head(batch) = batch[1] /\ 1 \in DOMAIN batch /\ Head(batch) \in Barrier
    BY <2>1
  <2>3. /\ completed' \in Seq(Barrier) /\ Len(completed') = Len(completed) + 1
        /\ \A i \in DOMAIN completed' :
             completed'[i] = Head(batch) \/ (i \in DOMAIN completed /\ completed'[i] = completed[i])
    BY <2>1, <2>2
  <2>4. hidden' \in 0 .. Len(completed')
    BY <2>1, <2>3
  <2>5. RoomAccounted'
    BY <2>1, <2>2, <2>3 DEF CoordinatorInv, QueueInv, RoomAccounted
  <2>6. /\ \A i \in DOMAIN batch' : round'[batch'[i]] \in {"submitted", "done"}
        /\ \A i \in DOMAIN completed' : round'[completed'[i]] \in {"submitted", "done"}
    BY <2>1, <2>2, <2>3 DEF CoordinatorInv, QueueInv, Settled
  <2>7. QueueInv'
    BY <2>1, <2>2, <2>3, <2>4, <2>5, <2>6 DEF CoordinatorInv, QueueInv, Settled
  <2>8. FlagsOK'
    BY <1>3 DEF ProcessItem, sleep, CoordinatorInv, FlagsOK
  <2> QED BY <1>1, <2>7, <2>8 DEF CoordinatorInv
<1>4. CASE LoadIdle \/ WakeReactor
  <2>1. FlagsOK'
    BY <1>4 DEF LoadIdle, WakeReactor, queue, sleep, CoordinatorInv, FlagsOK
  <2>2. /\ UNCHANGED <<pending, completed, hidden, hasRoom, batch, round>>
        /\ batch = <<>>
    BY <1>4 DEF LoadIdle, WakeReactor, queue, barrier, CoordinatorInv, QueueInv
  <2>3. QueueInv'
    BY <2>2 DEF CoordinatorInv, QueueInv, RoomAccounted, Settled
  <2> QED BY <1>1, <2>1, <2>3 DEF CoordinatorInv
<1> QED BY <1>2, <1>3, <1>4 DEF WorkerStep

(* Steps that move only flags and what the reactor can see.                *)
LEMMA FlagStepInv ==
  ASSUME CoordinatorInv,
         UNCHANGED <<called, signals, sem, round, pending, completed, hasRoom, batch, wpc>>,
         hidden' \in 0 .. Len(completed), FlagsOK'
  PROVE  CoordinatorInv'
<1>1. BarrierInv'
  BY PastInv DEF CoordinatorInv, BarrierInv, BarrierTypes
<1>2. QueueInv'
  BY DEF CoordinatorInv, QueueInv, RoomAccounted, Settled
<1> QED BY <1>1, <1>2 DEF CoordinatorInv

LEMMA ReactorTaskInv ==
  ASSUME CoordinatorInv, ReactorTask
  PROVE  CoordinatorInv'
<1>1. ASSUME NEW g \in signals, DeliverSignal(g) PROVE CoordinatorInv'
  <2>1. BarrierInv'
    BY <1>1, DeliverSignalInv DEF CoordinatorInv
  <2>2. UNCHANGED <<round, pending, completed, hidden, hasRoom, event, batch, wpc, quit, idle, notified, mode>>
    BY <1>1 DEF DeliverSignal, queue, worker, sleep
  <2>3. QueueInv'
    BY <2>2, QueueSame DEF CoordinatorInv, Settled
  <2> QED BY <2>1, <2>2, <2>3 DEF CoordinatorInv, FlagsOK
<1>2. ASSUME NEW b \in Barrier, SemaphoreReady(b) PROVE CoordinatorInv'
  <2>1. BarrierInv'
    BY <1>2, SemaphoreReadyInv DEF CoordinatorInv
  <2>2. UNCHANGED <<pending, completed, hidden, hasRoom, event, batch, wpc, quit, idle, notified, mode>>
    BY <1>2 DEF SemaphoreReady, queue, worker, sleep
  <2>3. \A d \in Barrier : Settled(d) => Settled(d)'
    BY <1>2 DEF SemaphoreReady, Settled, CoordinatorInv, BarrierInv, BarrierTypes
  <2>4. QueueInv'
    BY <2>2, <2>3, QueueSame DEF CoordinatorInv
  <2> QED BY <2>1, <2>2, <2>4 DEF CoordinatorInv, FlagsOK
<1>3. ASSUME NEW b \in Barrier, submit_item(b) PROVE CoordinatorInv'
  BY <1>3, SubmitInv
<1>4. CASE Poll
  <2>1. /\ complete /\ idle' = idle /\ mode' = mode
        /\ UNCHANGED <<called, signals, pending, hidden, event, batch, wpc, quit, notified>>
    BY <1>4 DEF Poll, worker, sleep
  <2>2. idle \in BOOLEAN /\ mode \in {"run", "entered", "asleep"}
    BY DEF CoordinatorInv, FlagsOK
  <2> QED BY <2>1, <2>2, CompleteInv
<1> QED BY <1>1, <1>2, <1>3, <1>4 DEF ReactorTask

LEMMA CoordinatorStepInv ==
  ASSUME CoordinatorInv, CoordinatorStep
  PROVE  CoordinatorInv'
<1>1. CASE BecomesVisible
  <2>1. /\ UNCHANGED <<called, signals, sem, round, pending, completed, hasRoom, batch, wpc>>
        /\ UNCHANGED <<event, quit, idle, notified, mode>> /\ hidden > 0 /\ hidden' = hidden - 1
    BY <1>1 DEF BecomesVisible, barrier, worker, sleep
  <2>2. hidden' \in 0 .. Len(completed)
    BY <2>1 DEF CoordinatorInv, QueueInv
  <2>3. FlagsOK'
    BY <2>1 DEF CoordinatorInv, FlagsOK
  <2> QED BY <2>1, <2>2, <2>3, FlagStepInv
<1>2. CASE EnterInterrupt \/ Awake
  <2>1. UNCHANGED <<called, signals, sem, round, pending, completed, hidden, hasRoom, batch, wpc>>
    BY <1>2 DEF EnterInterrupt, Awake, barrier, queue, worker
  <2>2. FlagsOK'
    BY <1>2 DEF EnterInterrupt, Awake, queue, worker, CoordinatorInv, FlagsOK
  <2>3. hidden' \in 0 .. Len(completed)
    BY <2>1 DEF CoordinatorInv, QueueInv
  <2> QED BY <2>1, <2>2, <2>3, FlagStepInv
<1>3. CASE PollRaced
  <2>1. CASE Visible # <<>>
    <3>1. /\ complete /\ idle' = FALSE /\ mode' = "run"
          /\ UNCHANGED <<called, signals, pending, hidden, event, batch, wpc, quit, notified>>
      BY <1>3, <2>1 DEF PollRaced, worker
    <3> QED BY <3>1, CompleteInv
  <2>2. CASE Visible = <<>>
    <3>1. UNCHANGED <<called, signals, sem, round, pending, completed, hidden, hasRoom, batch, wpc>>
      BY <1>3, <2>2 DEF PollRaced, worker
    <3>2. UNCHANGED <<event, quit, idle, notified>> /\ mode' = "asleep"
      BY <1>3, <2>2 DEF PollRaced, worker
    <3>3. FlagsOK' /\ hidden' \in 0 .. Len(completed)
      BY <3>1, <3>2 DEF CoordinatorInv, FlagsOK, QueueInv
    <3> QED BY <3>1, <3>3, FlagStepInv
  <2> QED BY <2>1, <2>2
<1> QED BY <1>1, <1>2, <1>3, ReactorTaskInv, WorkerInv DEF CoordinatorStep, Woken, WokenByOther

(* Calls of a barrier leave the queues alone.                              *)
LEMMA CallInv ==
  ASSUME CoordinatorInv, NEW b \in Barrier,
         WaitBarrier(b) \/ \E s \in Others : SignalBarrier(s, b)
  PROVE  CoordinatorInv'
<1>1. BarrierInv'
  BY WaitBarrierInv, SignalBarrierInv DEF CoordinatorInv
<1>2. UNCHANGED <<pending, completed, hidden, hasRoom, event, batch, wpc, quit, idle, notified, mode>>
  BY DEF WaitBarrier, SignalBarrier, queue, worker, sleep
<1>3. \A d \in Barrier : Settled(d) => Settled(d)'
  BY DEF WaitBarrier, SignalBarrier, Settled, CoordinatorInv, BarrierInv, BarrierTypes
<1>4. QueueInv'
  BY <1>2, <1>3, QueueSame DEF CoordinatorInv
<1> QED BY <1>1, <1>2, <1>4 DEF CoordinatorInv, FlagsOK

LEMMA StopWorkerInv ==
  ASSUME CoordinatorInv, StopWorker
  PROVE  CoordinatorInv'
<1>1. UNCHANGED <<called, signals, sem, round, pending, completed, hidden, hasRoom, batch, wpc>>
  BY DEF StopWorker, barrier
<1>2. FlagsOK'
  BY DEF StopWorker, sleep, CoordinatorInv, FlagsOK
<1> QED BY <1>1, <1>2, FlagStepInv DEF CoordinatorInv, QueueInv

LEMMA SameCoordinatorInv ==
  ASSUME CoordinatorInv, UNCHANGED coordinatorVars
  PROVE  CoordinatorInv'
<1>1. /\ UNCHANGED <<called, signals, sem, round, pending, completed, hidden, hasRoom, batch, wpc>>
      /\ UNCHANGED <<event, quit, idle, notified, mode>>
  BY DEF coordinatorVars, barrier, queue, worker, sleep
<1>2. FlagsOK' /\ hidden' \in 0 .. Len(completed)
  BY <1>1 DEF CoordinatorInv, FlagsOK, QueueInv
<1> QED BY <1>1, <1>2, FlagStepInv

-----------------------------------------------------------------------------
(* The shards. *)

(* Shard s calls the last barrier.                                         *)
LEMMA EnterInv ==
  ASSUME CoordinatorInv, NEW s \in Shard, EntersBarrier(s)
  PROVE  /\ CoordinatorInv'
         /\ \A u \in Shard : PeaceStopped \in called'[u] => PeaceStopped \in called[u] \/ u = s
<1>1. CASE s = 0
  <2>1. WaitBarrier(PeaceStopped)
    BY <1>1 DEF EntersBarrier
  <2>2. called' = [called EXCEPT ![0] = @ \cup {PeaceStopped}] /\ called \in [Shard -> SUBSET Barrier]
    BY <2>1 DEF WaitBarrier, CoordinatorInv, BarrierInv, BarrierTypes
  <2> QED BY <1>1, <2>1, <2>2, CallInv, ShutdownAssumption
<1>2. CASE s # 0
  <2>1. SignalBarrier(s, PeaceStopped) /\ s \in Others
    BY <1>2, ShardFacts DEF EntersBarrier
  <2>2. called' = [called EXCEPT ![s] = @ \cup {PeaceStopped}] /\ called \in [Shard -> SUBSET Barrier]
    BY <2>1 DEF SignalBarrier, CoordinatorInv, BarrierInv, BarrierTypes
  <2> QED BY <2>1, <2>2, CallInv, ShutdownAssumption
<1> QED BY <1>1, <1>2

LEMMA ShutdownInit == Init => ShutdownInv
<1> SUFFICES ASSUME Init PROVE ShutdownInv
  OBVIOUS
<1>1. SystemInv
  <2>1. /\ actors \in [Shard -> 0 .. MaxActors] /\ stopping \in [Shard -> BOOLEAN] /\ pollers \in [Shard -> BOOLEAN]
        /\ \A s \in Shard : ~stopping[s]
    BY ShutdownAssumption DEF Init
  <2>2. \A s \in Shard : PeaceStopped \notin called[s]
    BY DEF Init, CoordinatorInit
  <2>3. orders = {} /\ cleanups = {} /\ exiting = FALSE /\ engine = "up"
    BY DEF Init
  <2> QED BY <2>1, <2>2, <2>3 DEF SystemInv
<1> QED BY <1>1, CoordinatorInvInit DEF Init, ShutdownInv

(* Steps of the shards while the engine is up.                             *)
LEMMA ShardStepInv ==
  ASSUME ShutdownInv, NEW s \in Shard, CreateActor(s) \/ ActorEnds(s) \/ stop_actor_system(s)
  PROVE  ShutdownInv'
<1>1. /\ CoordinatorInv /\ SystemInv /\ engine = "up" /\ engine' = "up"
      /\ exiting' = exiting /\ pollers' = pollers /\ cleanups' = cleanups
  BY DEF ShutdownInv, CreateActor, ActorEnds, stop_actor_system, Up
<1>2. actors \in [Shard -> 0 .. MaxActors] /\ stopping \in [Shard -> BOOLEAN] /\ MaxActors \in Nat
  BY <1>1, ShutdownAssumption DEF SystemInv
<1>3. CASE CreateActor(s)
  <2>1. /\ ~stopping[s] /\ actors[s] < MaxActors /\ actors' = [actors EXCEPT ![s] = @ + 1]
        /\ UNCHANGED <<orders, stopping>> /\ UNCHANGED coordinatorVars
    BY <1>3 DEF CreateActor
  <2>2. CoordinatorInv' /\ called' = called
    BY <1>1, <2>1, SameCoordinatorInv DEF coordinatorVars, barrier
  <2>3. actors' \in [Shard -> 0 .. MaxActors] /\ \A u \in Shard \ {s} : actors'[u] = actors[u]
    BY <1>2, <2>1
  <2>4. SystemInv'
    BY <1>1, <2>1, <2>2, <2>3 DEF SystemInv
  <2> QED BY <2>2, <2>4 DEF ShutdownInv
<1>4. CASE ActorEnds(s)
  <2>1. /\ actors[s] > 0 /\ actors' = [actors EXCEPT ![s] = @ - 1] /\ UNCHANGED <<orders, stopping>>
        /\ (actors[s] = 1 /\ stopping[s] /\ EntersBarrier(s)) \/ UNCHANGED coordinatorVars
    BY <1>4 DEF ActorEnds
  <2>2. /\ CoordinatorInv'
        /\ \A u \in Shard : PeaceStopped \in called'[u] =>
             PeaceStopped \in called[u] \/ (u = s /\ actors[s] = 1 /\ stopping[s])
    BY <1>1, <2>1, SameCoordinatorInv, EnterInv DEF coordinatorVars, barrier
  <2>3. /\ actors' \in [Shard -> 0 .. MaxActors] /\ \A u \in Shard \ {s} : actors'[u] = actors[u]
        /\ actors[s] = 1 => actors'[s] = 0
    BY <1>2, <2>1
  <2>4. PeaceStopped \notin called[s]
    BY <1>1, <2>1 DEF SystemInv
  <2>5. \A u \in Shard : PeaceStopped \in called'[u] => stopping'[u] /\ actors'[u] = 0
    BY <1>1, <2>1, <2>2, <2>3, <2>4 DEF SystemInv
  <2>6. SystemInv'
    BY <1>1, <2>1, <2>3, <2>5 DEF SystemInv
  <2> QED BY <2>2, <2>6 DEF ShutdownInv
<1>5. CASE stop_actor_system(s)
  <2>1. /\ s \in orders /\ orders' = orders \ {s} /\ actors' = actors
        /\ stopping' = [stopping EXCEPT ![s] = TRUE]
        /\ (actors[s] = 0 /\ EntersBarrier(s)) \/ UNCHANGED coordinatorVars
    BY <1>5 DEF stop_actor_system, Empty
  <2>2. /\ CoordinatorInv'
        /\ \A u \in Shard : PeaceStopped \in called'[u] => PeaceStopped \in called[u] \/ (u = s /\ actors[s] = 0)
    BY <1>1, <2>1, SameCoordinatorInv, EnterInv DEF coordinatorVars, barrier
  <2>3. /\ stopping' \in [Shard -> BOOLEAN] /\ stopping'[s]
        /\ \A u \in Shard \ {s} : stopping'[u] = stopping[u]
    BY <1>2, <2>1
  <2>4. \A u \in Shard : PeaceStopped \in called'[u] => stopping'[u] /\ actors'[u] = 0
    BY <1>1, <2>1, <2>2, <2>3 DEF SystemInv
  <2>5. exiting /\ \A u \in Shard : stopping'[u] => u \notin orders'
    BY <1>1, <2>1, <2>3 DEF SystemInv
  <2>6. SystemInv'
    BY <1>1, <2>1, <2>3, <2>4, <2>5 DEF SystemInv
  <2> QED BY <2>2, <2>6 DEF ShutdownInv
<1> QED BY <1>3, <1>4, <1>5

LEMMA ShutdownStep == ShutdownInv /\ [Next]_vars => ShutdownInv'
<1> SUFFICES ASSUME ShutdownInv, [Next]_vars PROVE ShutdownInv'
  OBVIOUS
<1>0. CoordinatorInv /\ SystemInv
  BY DEF ShutdownInv
<1>1. CASE exit
  <2>1. /\ exiting' = TRUE /\ orders' = {s \in Shard : ~stopping[s]} /\ UNCHANGED coordinatorVars
        /\ UNCHANGED <<stopping, actors, pollers, cleanups, engine>>
    BY <1>1 DEF exit
  <2>2. CoordinatorInv' /\ called' = called /\ round' = round
    BY <1>0, <2>1, SameCoordinatorInv DEF coordinatorVars, barrier
  <2>3. SystemInv'
    BY <1>0, <2>1, <2>2 DEF SystemInv
  <2> QED BY <2>2, <2>3 DEF ShutdownInv
<1>2. CASE clear_actor_system
  <2>1. /\ round[PeaceStopped] = "done" /\ pollers' = [pollers EXCEPT ![0] = FALSE] /\ cleanups' = Others
        /\ engine' = "exited" /\ UNCHANGED coordinatorVars /\ UNCHANGED <<orders, exiting, stopping, actors>>
    BY <1>2 DEF clear_actor_system, Passed
  <2>2. CoordinatorInv' /\ called' = called /\ round' = round
    BY <1>0, <2>1, SameCoordinatorInv DEF coordinatorVars, barrier
  <2>3. SystemInv'
    BY <1>0, <2>1, <2>2 DEF SystemInv
  <2> QED BY <2>2, <2>3 DEF ShutdownInv
<1>3. ASSUME NEW s \in Shard, cleanup_cpu(s) PROVE ShutdownInv'
  <2>1. /\ cleanups' = cleanups \ {s} /\ pollers' = [pollers EXCEPT ![s] = FALSE]
        /\ UNCHANGED coordinatorVars /\ UNCHANGED <<orders, exiting, stopping, actors, engine>>
    BY <1>3 DEF cleanup_cpu
  <2>2. CoordinatorInv' /\ called' = called /\ round' = round
    BY <1>0, <2>1, SameCoordinatorInv DEF coordinatorVars, barrier
  <2>3. SystemInv'
    BY <1>0, <2>1, <2>2 DEF SystemInv
  <2> QED BY <2>2, <2>3 DEF ShutdownInv
<1>4. ASSUME engine = "up", UNCHANGED system, CoordinatorInv',
             \A s \in Shard : PeaceStopped \in called'[s] <=> PeaceStopped \in called[s]
      PROVE  ShutdownInv'
  BY <1>0, <1>4 DEF SystemInv, ShutdownInv, system
<1>5. CASE Up /\ CoordinatorStep /\ UNCHANGED system
  <2>1. called' = called
    BY <1>5 DEF CoordinatorStep, ReactorTask, DeliverSignal, SemaphoreReady, submit_item, Poll, WorkerStep,
                ReadEvent, ProcessItem, LoadIdle, WakeReactor, BecomesVisible, EnterInterrupt, PollRaced,
                Woken, WokenByOther, Awake, barrier
  <2> QED BY <1>0, <1>4, <1>5, <2>1, CoordinatorStepInv DEF Up
<1>6. ASSUME Up, UNCHANGED system, NEW b \in Barrier \ {PeaceStopped},
             WaitBarrier(b) \/ \E s \in Others : SignalBarrier(s, b)
      PROVE  ShutdownInv'
  <2>1. CoordinatorInv'
    BY <1>0, <1>6, CallInv
  <2>2. \A s \in Shard : PeaceStopped \in called'[s] <=> PeaceStopped \in called[s]
    <3>1. called \in [Shard -> SUBSET Barrier]
      BY <1>0 DEF CoordinatorInv, BarrierInv, BarrierTypes
    <3>2. \E s \in Shard : called' = [called EXCEPT ![s] = @ \cup {b}]
      BY <1>6, ShardFacts DEF WaitBarrier, SignalBarrier
    <3> QED BY <3>1, <3>2
  <2> QED BY <1>4, <1>6, <2>1, <2>2 DEF Up
<1>7. CASE ~Up /\ (StopWorker \/ WorkerStep) /\ UNCHANGED system
  <2>1. CoordinatorInv'
    BY <1>0, <1>7, StopWorkerInv, WorkerInv
  <2>2. called' = called /\ round' = round
    BY <1>7 DEF StopWorker, WorkerStep, ReadEvent, ProcessItem, LoadIdle, WakeReactor, barrier
  <2> QED BY <1>0, <1>7, <2>1, <2>2 DEF SystemInv, ShutdownInv, system
<1>8. CASE UNCHANGED vars
  <2>1. UNCHANGED coordinatorVars /\ UNCHANGED system
    BY <1>8 DEF vars
  <2>2. CoordinatorInv' /\ called' = called /\ round' = round
    BY <1>0, <2>1, SameCoordinatorInv DEF coordinatorVars, barrier
  <2> QED BY <1>0, <2>1, <2>2 DEF SystemInv, ShutdownInv, system
<1> QED BY <1>1, <1>2, <1>3, <1>5, <1>6, <1>7, <1>8, ShardStepInv DEF Next

-----------------------------------------------------------------------------
(* The barriers of a machine hold every shard back, no unit or signal of a *)
(* round is left when shard 0 has passed, and the two queues of the worker *)
(* never hold more than their length, for any number of shards, barriers   *)
(* and any length.                                                         *)
THEOREM ShutdownIsSound == Spec => []ShutdownSound
<1>1. ShutdownInv => ShutdownSound
  <2> SUFFICES ASSUME ShutdownInv PROVE ShutdownSound
    OBVIOUS
  <2>1. BarrierInv /\ QueueInv /\ FlagsOK /\ SystemInv
    BY DEF ShutdownInv, CoordinatorInv
  <2>2. \A b \in Barrier : sem[b] \in 0 .. N - 1
    <3> SUFFICES ASSUME NEW b \in Barrier PROVE sem[b] \in 0 .. N - 1
      OBVIOUS
    <3>1. sem[b] \in Nat /\ N - 1 \in Nat
      BY <2>1, ShardFacts DEF BarrierInv, BarrierTypes
    <3>2. CASE Kind[b] = "direct" \/ Past(b)
      <4>1. sem[b] = 0
        BY <2>1, <3>2 DEF BarrierInv, Counted, BarrierHolds, Past
      <4> QED BY <3>1, <4>1
    <3>3. CASE Kind[b] # "direct" /\ ~Past(b)
      <4>1. sem[b] + Cardinality(Signalling(b)) = Cardinality(Callers(b))
        BY <2>1, <3>3 DEF BarrierInv, Counted
      <4>2. Cardinality(Signalling(b)) \in Nat /\ Cardinality(Callers(b)) \in Nat /\ Cardinality(Callers(b)) <= N - 1
        BY Countable DEF Signalling, Callers
      <4> QED BY <3>1, <4>1, <4>2
    <3> QED BY <3>2, <3>3
  <2>3. hasRoom \in 0 .. QueueLength
    BY <2>1, CoordinatorAssumption DEF QueueInv, RoomAccounted
  <2>4. CoordinatorTypeOK
    <3>1. sem \in [Barrier -> 0 .. N - 1]
      BY <2>1, <2>2 DEF BarrierInv, BarrierTypes
    <3> QED BY <2>1, <2>3, <3>1 DEF CoordinatorTypeOK, BarrierInv, BarrierTypes, QueueInv, FlagsOK
  <2> QED BY <2>1, <2>4 DEF ShutdownSound, TypeOK, SystemInv, BarrierInv, QueueInv
<1> QED BY <1>1, ShutdownInit, ShutdownStep, PTL DEF Spec

(* For any number of shards, the engine ends only when every shard has     *)
(* been told to stop and has no actor left, so the assertion in the        *)
(* destructor of root_actor_group holds.                                   *)
THEOREM NoActorAtExitHolds == Spec => []NoActorAtExit
<1>1. ShutdownInv => NoActorAtExit
  <2> SUFFICES ASSUME ShutdownInv, engine = "exited"
               PROVE  orders = {} /\ \A s \in Shard : stopping[s] /\ actors[s] = 0
    BY DEF NoActorAtExit
  <2>1. BarrierInv /\ SystemInv /\ round[PeaceStopped] = "done"
    BY DEF ShutdownInv, CoordinatorInv, SystemInv
  <2>2. \A s \in Shard : PeaceStopped \in called[s]
    BY <2>1, ShardFacts, ShutdownAssumption DEF BarrierInv, BarrierHolds
  <2> QED BY <2>1, <2>2 DEF SystemInv
<1> QED BY <1>1, ShutdownInit, ShutdownStep, PTL DEF Spec

=============================================================================
