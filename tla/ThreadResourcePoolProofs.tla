---------------------- MODULE ThreadResourcePoolProofs ----------------------
(***************************************************************************)
(* Proofs about ThreadResourcePool, for any number of shards, threads and  *)
(* items: where the items are, whom a sleeping reactor may rely on, and    *)
(* what stop() leaves behind.  The lemmas about counting are in PoolProofs. *)
(*                                                                         *)
(* The invariant of the pool (PoolInv) adds to the properties how the      *)
(* state of a thread, its item, its event and its place in _threads agree. *)
(***************************************************************************)
EXTENDS ThreadResourcePool, PoolProofs

(* Queues without duplicates. *)
LEMMA TailDistinct ==
  ASSUME NEW S, NEW q \in Seq(S), IsInjective(q), q # <<>>
  PROVE  /\ Tail(q) \in Seq(S) /\ Head(q) \in S /\ IsInjective(Tail(q))
         /\ Range(Tail(q)) = Range(q) \ {Head(q)} /\ Head(q) \in Range(q)
<1>1. /\ Head(q) \in S /\ Tail(q) \in Seq(S) /\ Len(Tail(q)) = Len(q) - 1
      /\ \A i \in 1 .. Len(Tail(q)) : Tail(q)[i] = q[i + 1]
  BY HeadTailProperties
<1>2. /\ DOMAIN q = 1 .. Len(q) /\ DOMAIN Tail(q) = 1 .. Len(q) - 1 /\ Len(q) \in Nat /\ Len(q) # 0
      /\ Head(q) = q[1]
  BY <1>1, LenProperties, EmptySeq
<1>3. /\ \A i \in DOMAIN Tail(q) : i \in Nat /\ i + 1 \in DOMAIN q /\ i + 1 # 1 /\ Tail(q)[i] = q[i + 1]
      /\ \A j \in DOMAIN q : j # 1 => j - 1 \in DOMAIN Tail(q) /\ Tail(q)[j - 1] = q[j]
      /\ 1 \in DOMAIN q
  <2>1. \A j \in DOMAIN q : j # 1 => j - 1 \in DOMAIN Tail(q) /\ (j - 1) + 1 = j
    BY <1>2
  <2> QED BY <1>1, <1>2, <2>1
<1>4. \A i, j \in DOMAIN Tail(q) : Tail(q)[i] = Tail(q)[j] => i = j
  <2> SUFFICES ASSUME NEW i \in DOMAIN Tail(q), NEW j \in DOMAIN Tail(q), Tail(q)[i] = Tail(q)[j] PROVE i = j
    OBVIOUS
  <2>1. i + 1 = j + 1
    BY <1>3 DEF IsInjective
  <2> QED BY <1>3, <2>1
<1>5. ASSUME NEW x PROVE x \in Range(Tail(q)) <=> x \in Range(q) /\ x # Head(q)
  <2>1. ASSUME x \in Range(Tail(q)) PROVE x \in Range(q) /\ x # Head(q)
    <3>1. PICK i \in DOMAIN Tail(q) : x = Tail(q)[i]
      BY <2>1 DEF Range
    <3> QED BY <1>2, <1>3, <3>1 DEF Range, IsInjective
  <2>2. ASSUME x \in Range(q), x # Head(q) PROVE x \in Range(Tail(q))
    <3>1. PICK j \in DOMAIN q : x = q[j]
      BY <2>2 DEF Range
    <3> QED BY <1>2, <1>3, <2>2, <3>1 DEF Range
  <2> QED BY <2>1, <2>2
<1>6. Head(q) \in Range(q)
  BY <1>2, <1>3 DEF Range
<1> QED BY <1>1, <1>4, <1>5, <1>6 DEF IsInjective

(* Appending a new element keeps the elements distinct.                    *)
LEMMA AppendDistinct ==
  ASSUME NEW S, NEW q \in Seq(S), NEW e \in S, IsInjective(q), e \notin Range(q)
  PROVE  /\ Append(q, e) \in Seq(S) /\ IsInjective(Append(q, e))
         /\ Range(Append(q, e)) = Range(q) \cup {e}
<1> DEFINE r == Append(q, e)
           n == Len(q) + 1
<1>1. /\ r \in Seq(S) /\ Len(q) \in Nat /\ DOMAIN q = 1 .. Len(q) /\ DOMAIN r = 1 .. n /\ r[n] = e
      /\ \A i \in 1 .. Len(q) : r[i] = q[i]
  OBVIOUS
<1> HIDE DEF r
<1>2. \A i \in DOMAIN r : i = n \/ (i \in DOMAIN q /\ r[i] = q[i] /\ i # n)
  BY <1>1
<1>3. \A i \in DOMAIN q : i \in DOMAIN r /\ r[i] = q[i]
  BY <1>1
<1>4. n \in DOMAIN r
  BY <1>1
<1> HIDE DEF n
<1>5. IsInjective(r)
  BY <1>1, <1>2 DEF IsInjective, Range
<1>6. Range(r) = Range(q) \cup {e}
  BY <1>1, <1>2, <1>3, <1>4 DEF Range
<1> QED BY <1>1, <1>5, <1>6 DEF r

(* A sequence of distinct elements is no longer than the set is large.     *)
LEMMA DistinctBound ==
  ASSUME NEW S, IsFiniteSet(S), NEW q \in Seq(S), IsInjective(q)
  PROVE  Len(q) <= Cardinality(S)
<1>1. Len(q) \in Nat /\ q \in [1 .. Len(q) -> S]
  BY LenProperties
<1>2. q \in Injection(1 .. Len(q), S)
  BY <1>1 DEF Injection
<1>3. Cardinality(1 .. Len(q)) <= Cardinality(S)
  BY <1>2, FS_Injection
<1>4. Cardinality(1 .. Len(q)) = Len(q)
  BY <1>1, FS_Interval
<1> QED BY <1>3, <1>4

-----------------------------------------------------------------------------
WorkerStates == {"read", "complete", "return", "load", "wake", "gone"}
Resting      == {"load", "wake", "read"}

Tables ==
  /\ threads \in Seq(Worker) /\ work \in [Worker -> Item \cup {NoItem}] /\ cur \in [Worker -> Item \cup {NoItem}]
  /\ signal \in [Worker -> BOOLEAN] /\ quit \in [Worker -> BOOLEAN]
  /\ employer \in [Worker -> Shard] /\ employerShard \in [Worker -> Shard]
  /\ wpc \in [Worker -> WorkerStates] /\ completed \in [Shard -> Seq(Item)]
  /\ idle \in [Shard -> BOOLEAN] /\ notified \in [Shard -> BOOLEAN]
  /\ mode \in [Shard -> {"run", "entered", "asleep"}]
  /\ asked \in [Item -> {"new", "waits", "hired", "done"}]
  /\ stop \in {"no", "joined", "stopped"} \cup Worker

(* Where a thread is, what it has and whether it is in _threads agree: a   *)
(* free thread has no item, no event and was not told to stop; the event   *)
(* is there for an item or for the stop.                                   *)
Free(w) == w \in Range(threads)

WorkerOK(w) ==
  /\ Free(w) => work[w] = NoItem /\ ~signal[w] /\ ~quit[w] /\ wpc[w] \in Resting
  /\ work[w] # NoItem => signal[w] /\ ~quit[w] /\ ~Free(w) /\ wpc[w] \in Resting
  /\ cur[w] # NoItem <=> wpc[w] = "complete"
  /\ wpc[w] \in {"complete", "return"} => ~Free(w) /\ work[w] = NoItem /\ ~signal[w]
  /\ signal[w] => work[w] # NoItem \/ quit[w]
  /\ quit[w] => ~Free(w) /\ wpc[w] \notin {"complete", "return"}

(* A completed item is with its own shard, and the flag of a reactor is    *)
(* raised while it sleeps.                                                 *)
ShardOK(s) == (\A i \in Range(completed[s]) : From[i] = s) /\ (mode[s] # "run" => idle[s])

With(F, i) == {w \in Worker : F[w] = i}

InPlaces(i) ==
  Cardinality(With(work, i)) + Cardinality(With(cur, i)) + Times(completed[From[i]], i)

ItemOK(i) == InPlaces(i) = One(asked[i] = "hired")

Seen(s) ==
  mode[s] = "asleep" /\ completed[s] # <<>> =>
    notified[s] \/ \E w \in Worker : wpc[w] \in {"return", "load", "wake"} \/ employerShard[w] # s

PoolInv ==
  /\ Tables /\ IsInjective(threads) /\ employer = employerShard
  /\ (\A w \in Worker : WorkerOK(w)) /\ (\A s \in Shard : ShardOK(s) /\ Seen(s))
  /\ (\A i \in Item : ItemOK(i)) /\ (stop # "no" => Quiet)

(* The threads with an item are counted by a number.                       *)
LEMMA WithFinite ==
  ASSUME NEW F, NEW i
  PROVE  IsFiniteSet(With(F, i)) /\ Cardinality(With(F, i)) \in Nat
         /\ (Cardinality(With(F, i)) = 0 <=> With(F, i) = {})
<1>1. With(F, i) \subseteq Worker /\ IsFiniteSet(Worker)
  BY PoolAssumption DEF With
<1>2. IsFiniteSet(With(F, i))
  BY <1>1, FS_Subset
<1> QED BY <1>2, FS_CardinalityType, FS_EmptySet

(* A table of items after an update for one thread. *)
WithMoved(F, G, w, v, i) ==
  Cardinality(With(G, i)) + One(F[w] = i) = Cardinality(With(F, i)) + One(v = i)

(* Changing the entry of one thread changes the count by that thread.      *)
LEMMA WithMoves ==
  ASSUME NEW V, NEW F \in [Worker -> V], NEW w \in Worker, NEW v, NEW G, G = [F EXCEPT ![w] = v], NEW i
  PROVE  WithMoved(F, G, w, v, i)
<1> DEFINE A == With(F, i)
           B == With(G, i)
<1>1. A \ {w} = B \ {w} /\ (w \in A <=> F[w] = i) /\ (w \in B <=> v = i)
  BY DEF With
<1>2. IsFiniteSet(A)
  BY WithFinite
<1> HIDE DEF A, B
<1>3. Cardinality(B) + One(w \in A) = Cardinality(A) + One(w \in B)
  BY <1>1, <1>2, DifferInOne
<1>4. One(w \in A) = One(F[w] = i) /\ One(w \in B) = One(v = i)
  BY <1>1 DEF One
<1> QED BY <1>3, <1>4 DEF A, B, WithMoved

Numbers(i) ==
  /\ Cardinality(With(work, i)) \in Nat /\ Cardinality(With(cur, i)) \in Nat
  /\ Times(completed[From[i]], i) \in Nat
  /\ (Times(completed[From[i]], i) = 0 <=> i \notin Range(completed[From[i]]))

(* The three counts of an item are numbers.                                *)
LEMMA NumbersType ==
  ASSUME Tables, NEW i \in Item
  PROVE  Numbers(i)
<1>1. completed[From[i]] \in Seq(Item)
  BY PoolAssumption DEF Tables
<1>2. /\ Times(completed[From[i]], i) \in Nat
      /\ (Times(completed[From[i]], i) = 0 <=> i \notin Range(completed[From[i]]))
  BY <1>1, PlacesFinite
<1> QED BY <1>2, WithFinite DEF Numbers

(* The same in the next state.                                             *)
LEMMA NumbersTypeNext ==
  ASSUME Tables', NEW i \in Item
  PROVE  Numbers(i)'
<1>1. completed'[From[i]] \in Seq(Item)
  BY PoolAssumption DEF Tables
<1>2. /\ Times(completed'[From[i]], i) \in Nat
      /\ (Times(completed'[From[i]], i) = 0 <=> i \notin Range(completed'[From[i]]))
  BY <1>1, PlacesFinite
<1> QED BY <1>2, WithFinite DEF Numbers

(* What the invariant says of the work that is left. *)
LEMMA QuietIsEmpty ==
  ASSUME PoolInv, Quiet
  PROVE  (\A w \in Worker : work[w] = NoItem /\ cur[w] = NoItem) /\ (\A s \in Shard : completed[s] = <<>>)
<1>1. ASSUME NEW i \in Item
      PROVE  With(work, i) = {} /\ With(cur, i) = {} /\ i \notin Range(completed[From[i]])
  <2>1. InPlaces(i) = 0
    BY DEF Quiet, PoolInv, ItemOK, One
  <2>2. Numbers(i)
    BY NumbersType DEF PoolInv
  <2>3. Cardinality(With(work, i)) = 0 /\ Cardinality(With(cur, i)) = 0 /\ Times(completed[From[i]], i) = 0
    BY <2>1, <2>2 DEF InPlaces, Numbers
  <2> QED BY <2>2, <2>3, WithFinite DEF Numbers
<1>2. \A w \in Worker : work[w] \in Item \cup {NoItem} /\ cur[w] \in Item \cup {NoItem}
  BY DEF PoolInv, Tables
<1>3. \A w \in Worker : work[w] = NoItem /\ cur[w] = NoItem
  BY <1>1, <1>2 DEF With
<1>4. ASSUME NEW s \in Shard, completed[s] # <<>> PROVE FALSE
  <2>1. completed[s] \in Seq(Item)
    BY DEF PoolInv, Tables
  <2>2. 1 \in DOMAIN completed[s] /\ completed[s][1] \in Item
    BY <1>4, <2>1
  <2>3. completed[s][1] \in Range(completed[s])
    BY <2>2 DEF Range
  <2>4. From[completed[s][1]] = s
    BY <2>3 DEF PoolInv, ShardOK
  <2> QED BY <1>1, <2>2, <2>3, <2>4
<1> QED BY <1>3, <1>4

(* The invariant implies the properties.                                   *)
LEMMA PoolInvSafe == PoolInv => PoolSafe
<1> SUFFICES ASSUME PoolInv PROVE PoolSafe
  OBVIOUS
<1>1. Tables /\ IsInjective(threads)
  BY DEF PoolInv
<1>2. Len(threads) <= Cardinality(Worker)
  BY <1>1, DistinctBound, PoolAssumption DEF Tables
<1>3. PoolTypeOK
  BY <1>1, <1>2 DEF Tables, PoolTypeOK, WorkerStates
<1>4. ItemInOnePlace
  <2>1. ASSUME NEW w \in Range(threads) PROVE work[w] = NoItem /\ cur[w] = NoItem
    <3>1. w \in Worker
      BY <1>1 DEF Tables, Range
    <3> QED BY <3>1 DEF PoolInv, WorkerOK, Free, Resting
  <2>2. ASSUME NEW i \in Item PROVE (asked[i] = "hired") = (InPlaces(i) = 1)
    <3>1. InPlaces(i) = One(asked[i] = "hired")
      BY DEF PoolInv, ItemOK
    <3> QED BY <3>1 DEF One
  <2> QED BY <1>1, <2>1, <2>2 DEF ItemInOnePlace, InPlaces, With, Times, Places
<1>5. SleepIsSeen
  BY DEF PoolInv, Seen, SleepIsSeen
<1>6. StopLosesNoWork
  <2> SUFFICES ASSUME stop = "stopped" PROVE StopLosesNoWork
    BY DEF StopLosesNoWork
  <2>1. (\A w \in Worker : work[w] = NoItem /\ cur[w] = NoItem) /\ (\A s \in Shard : completed[s] = <<>>)
    BY QuietIsEmpty DEF PoolInv
  <2>2. \A w \in Worker : wpc[w] # "complete" /\ wpc[w] \in WorkerStates
    BY <1>1, <2>1 DEF PoolInv, WorkerOK, Tables
  <2> QED BY <2>1, <2>2 DEF StopLosesNoWork, WorkerStates
<1> QED BY <1>3, <1>4, <1>5, <1>6 DEF PoolSafe

(* The invariant holds when configure() has created the threads.           *)
LEMMA PoolInitInv == PoolInit => PoolInv
<1> SUFFICES ASSUME PoolInit PROVE PoolInv
  OBVIOUS
<1>1. threads \in Seq(Worker) /\ IsInjective(threads)
  BY SequenceOfSet, PoolAssumption DEF PoolInit, configure
<1>2. (CHOOSE s \in Shard : TRUE) \in Shard
  BY PoolAssumption
<1>3. Tables
  BY <1>1, <1>2 DEF Tables, PoolInit, configure, WorkerStates
<1>4. \A w \in Worker : WorkerOK(w)
  BY DEF PoolInit, configure, WorkerOK, Resting
<1>5. \A s \in Shard : ShardOK(s) /\ Seen(s)
  BY DEF PoolInit, configure, ShardOK, Seen, Range
<1>6. ASSUME NEW i \in Item PROVE ItemOK(i)
  <2>1. From[i] \in Shard /\ completed[From[i]] = <<>> /\ asked[i] = "new"
    BY PoolAssumption DEF PoolInit, configure
  <2>2. With(work, i) = {} /\ With(cur, i) = {}
    BY PoolAssumption DEF PoolInit, configure, With
  <2>3. Cardinality(With(work, i)) = 0 /\ Cardinality(With(cur, i)) = 0
    BY <2>2, WithFinite
  <2>4. Places(<<>>, i) = {}
    BY DEF Places
  <2>5. Times(completed[From[i]], i) = 0
    BY <2>1, <2>4, FS_EmptySet DEF Times
  <2>6. InPlaces(i) = 0 + 0 + 0 /\ One(asked[i] = "hired") = 0
    BY <2>1, <2>3, <2>5 DEF InPlaces, One
  <2> QED BY <2>6 DEF ItemOK
<1> QED BY <1>1, <1>3, <1>4, <1>5, <1>6 DEF PoolInv, PoolInit, configure

-----------------------------------------------------------------------------
(***************************************************************************)
(* The steps.  What a step leaves alone keeps its part of the invariant.   *)
(***************************************************************************)
LEMMA ItemsKept ==
  ASSUME PoolInv, UNCHANGED <<work, cur, completed, asked>>
  PROVE  (\A i \in Item : ItemOK(i)') /\ (Quiet => Quiet')
BY DEF PoolInv, ItemOK, InPlaces, Quiet

(* What is known of the shards is about these three variables.             *)
LEMMA ShardsKept ==
  ASSUME PoolInv, UNCHANGED <<completed, mode, idle>>
  PROVE  \A s \in Shard : ShardOK(s)'
BY DEF PoolInv, ShardOK

(* What is known of the threads is about these variables.                  *)
LEMMA WorkersKept ==
  ASSUME PoolInv, UNCHANGED <<threads, work, cur, signal, quit, wpc>>
  PROVE  \A w \in Worker : WorkerOK(w)'
BY DEF PoolInv, WorkerOK, Free

Apart(w) ==
  \A u \in Worker : u # w =>
    /\ work'[u] = work[u] /\ cur'[u] = cur[u] /\ signal'[u] = signal[u] /\ quit'[u] = quit[u]
    /\ wpc'[u] = wpc[u] /\ (Free(u)' <=> Free(u))

(* A step of one thread keeps what is known of the others.                 *)
LEMMA OthersKept ==
  ASSUME PoolInv, NEW w \in Worker, Apart(w), WorkerOK(w)'
  PROVE  \A u \in Worker : WorkerOK(u)'
<1> SUFFICES ASSUME NEW u \in Worker, u # w PROVE WorkerOK(u)'
  OBVIOUS
<1>1. WorkerOK(u)
  BY DEF PoolInv
<1> QED BY <1>1 DEF WorkerOK, Apart

(* No shard is asleep that was awake, and whoever looks still looks. *)
LEMMA SeenKept ==
  ASSUME PoolInv, UNCHANGED <<completed, mode, notified>>,
         \A s \in Shard, w \in Worker :
           mode[s] = "asleep" /\ (wpc[w] \in {"return", "load", "wake"} \/ employerShard[w] # s)
             => wpc'[w] \in {"return", "load", "wake"} \/ employerShard'[w] # s
  PROVE  \A s \in Shard : Seen(s)'
BY DEF PoolInv, Seen

(* submit_work() with a free thread. *)
LEMMA HireInv ==
  ASSUME PoolInv, NEW i \in Item, submit_work(i), threads # <<>>
  PROVE  PoolInv'
<1>1. Tables /\ IsInjective(threads) /\ threads \in Seq(Worker)
  BY DEF PoolInv, Tables
<1>0. PICK w \in Worker : w = Head(threads)
  BY <1>1, TailDistinct
<1>2. /\ asked[i] \in {"new", "waits"} /\ mode[From[i]] = "run" /\ stop = "no" /\ threads' = Tail(threads)
      /\ employer' = [employer EXCEPT ![w] = From[i]] /\ employerShard' = [employerShard EXCEPT ![w] = From[i]]
      /\ work' = [work EXCEPT ![w] = i] /\ signal' = [signal EXCEPT ![w] = TRUE]
      /\ asked' = [asked EXCEPT ![i] = "hired"]
      /\ UNCHANGED <<cur, wpc, quit, completed, stop, idle, notified, mode>>
  BY <1>0 DEF submit_work, TryHire, PopThread, submit, sleep
<1>3. /\ Tail(threads) \in Seq(Worker) /\ w \in Worker /\ IsInjective(Tail(threads))
      /\ Range(Tail(threads)) = Range(threads) \ {w} /\ w \in Range(threads)
  BY <1>0, <1>1, TailDistinct
<1>4. From[i] \in Shard
  BY PoolAssumption
<1>5. Tables'
  BY <1>1, <1>2, <1>3, <1>4 DEF Tables
<1>6. WorkerOK(w) /\ Free(w)
  BY <1>3 DEF PoolInv, Free
<1>7. \A u \in Worker : WorkerOK(u)'
  <2>1. Apart(w)
    BY <1>1, <1>2, <1>3 DEF Apart, Tables, Free
  <2>2. work'[w] = i /\ i # NoItem /\ signal'[w] /\ ~Free(w)'
    BY <1>1, <1>2, <1>3, PoolAssumption DEF Tables, Free
  <2>3. WorkerOK(w)'
    BY <1>2, <1>6, <2>2 DEF WorkerOK, Resting
  <2> QED BY <1>3, <2>1, <2>3, OthersKept
<1>8. \A s \in Shard : ShardOK(s)'
  BY <1>2, ShardsKept
<1>9. \A s \in Shard : Seen(s)'
  <2>1. \A s \in Shard : mode[s] = "asleep" => From[i] # s
    BY <1>2
  <2>2. \A s \in Shard, u \in Worker :
          mode[s] = "asleep" /\ (wpc[u] \in {"return", "load", "wake"} \/ employerShard[u] # s)
            => wpc'[u] \in {"return", "load", "wake"} \/ employerShard'[u] # s
    BY <1>1, <1>2, <2>1 DEF Tables
  <2> QED BY <1>2, <2>2, SeenKept
<1>10. ASSUME NEW j \in Item PROVE ItemOK(j)'
  <2>1. WithMoved(work, work', w, i, j)
    BY <1>1, <1>2, <1>3, WithMoves DEF Tables
  <2>2. work[w] = NoItem /\ NoItem # j
    BY <1>6, PoolAssumption DEF WorkerOK
  <2>3. Cardinality(With(work', j)) = Cardinality(With(work, j)) + One(i = j)
    <3>1. One(work[w] = j) = 0
      BY <2>2 DEF One
    <3> QED BY <2>1, <3>1, WithFinite DEF WithMoved
  <2>4. Numbers(j) /\ InPlaces(j) = One(asked[j] = "hired")
    BY <1>1, NumbersType DEF PoolInv, ItemOK
  <2>5. InPlaces(j)' = InPlaces(j) + One(i = j)
    <3>1. InPlaces(j)' = (Cardinality(With(work, j)) + One(i = j)) + Cardinality(With(cur, j)) + Times(completed[From[j]], j)
      BY <1>2, <2>3 DEF InPlaces
    <3>2. One(i = j) \in Nat
      BY DEF One
    <3>3. /\ Cardinality(With(work, j)) \in Nat /\ Cardinality(With(cur, j)) \in Nat
          /\ Times(completed[From[j]], j) \in Nat
      BY <2>4 DEF Numbers
    <3>4. InPlaces(j) = Cardinality(With(work, j)) + Cardinality(With(cur, j)) + Times(completed[From[j]], j)
      BY DEF InPlaces
    <3> QED BY <3>1, <3>2, <3>3, <3>4
  <2>6. One(asked'[j] = "hired") = One(asked[j] = "hired") + One(i = j)
    BY <1>1, <1>2 DEF One, Tables
  <2> QED BY <2>4, <2>5, <2>6 DEF ItemOK
<1>11. employer' = employerShard'
  BY <1>2 DEF PoolInv
<1> QED BY <1>2, <1>3, <1>5, <1>7, <1>8, <1>9, <1>10, <1>11 DEF PoolInv

(* submit_work() without one. *)
LEMMA WaitInv ==
  ASSUME PoolInv, NEW i \in Item, submit_work(i), threads = <<>>
  PROVE  PoolInv'
<1>1. /\ asked[i] \in {"new", "waits"} /\ asked' = [asked EXCEPT ![i] = "waits"] /\ stop = "no"
      /\ UNCHANGED <<threads, work, cur, employer, employerShard, signal, wpc, quit, completed, stop,
                     idle, notified, mode>>
  BY DEF submit_work, TryHire, sleep
<1>2. Tables'
  BY <1>1 DEF PoolInv, Tables
<1>3. (\A w \in Worker : WorkerOK(w)') /\ (\A s \in Shard : ShardOK(s)') /\ (\A s \in Shard : Seen(s)')
  BY <1>1, WorkersKept, ShardsKept, SeenKept
<1>4. ASSUME NEW j \in Item PROVE ItemOK(j)'
  <2>1. One(asked'[j] = "hired") = One(asked[j] = "hired")
    BY <1>1 DEF One, PoolInv, Tables
  <2>2. InPlaces(j)' = InPlaces(j)
    BY <1>1 DEF InPlaces
  <2> QED BY <2>1, <2>2 DEF PoolInv, ItemOK
<1> QED BY <1>1, <1>2, <1>3, <1>4 DEF PoolInv

(* The thread takes its item, or leaves. *)
LEMMA ReadEventInv ==
  ASSUME PoolInv, NEW w \in Worker, ReadEvent(w)
  PROVE  PoolInv'
<1>1. /\ Tables /\ WorkerOK(w) /\ wpc[w] = "read" /\ signal[w] /\ signal' = [signal EXCEPT ![w] = FALSE]
      /\ UNCHANGED <<threads, quit, completed, stop, employer, employerShard, asked, idle, notified, mode>>
  BY DEF PoolInv, ReadEvent, sleep
<1>2. (\A s \in Shard : ShardOK(s)') /\ employer' = employerShard' /\ IsInjective(threads') /\ (stop' # "no" => Quiet')
  BY <1>1, ShardsKept DEF PoolInv, Quiet
<1>3. \A s \in Shard : Seen(s)'
  <2>1. wpc' = [wpc EXCEPT ![w] = wpc'[w]]
    BY <1>1 DEF ReadEvent, Tables
  <2>2. \A s \in Shard, u \in Worker :
          mode[s] = "asleep" /\ (wpc[u] \in {"return", "load", "wake"} \/ employerShard[u] # s)
            => wpc'[u] \in {"return", "load", "wake"} \/ employerShard'[u] # s
    BY <1>1, <2>1 DEF Tables
  <2> QED BY <1>1, <2>2, SeenKept
<1>4. CASE quit[w]
  <2>1. wpc' = [wpc EXCEPT ![w] = "gone"] /\ UNCHANGED <<work, cur>>
    BY <1>4 DEF ReadEvent
  <2>2. Tables'
    BY <1>1, <2>1 DEF Tables, WorkerStates
  <2>3. Apart(w)
    BY <1>1, <2>1 DEF Apart, Tables, Free
  <2>4. WorkerOK(w)'
    BY <1>1, <1>4, <2>1 DEF WorkerOK, Tables, Free, Resting
  <2>5. (\A u \in Worker : WorkerOK(u)') /\ \A i \in Item : ItemOK(i)'
    BY <1>1, <2>1, <2>3, <2>4, OthersKept, ItemsKept
  <2> QED BY <1>2, <1>3, <2>2, <2>5 DEF PoolInv
<1>5. CASE ~quit[w]
  <2>1. /\ cur' = [cur EXCEPT ![w] = work[w]] /\ work' = [work EXCEPT ![w] = NoItem]
        /\ wpc' = [wpc EXCEPT ![w] = "complete"]
    BY <1>5 DEF ReadEvent
  <2>2. Tables'
    BY <1>1, <2>1 DEF Tables, WorkerStates
  <2>3. Apart(w)
    BY <1>1, <2>1 DEF Apart, Tables, Free
  <2>4. work[w] # NoItem /\ cur[w] = NoItem /\ ~Free(w)
    BY <1>1, <1>5 DEF WorkerOK
  <2>5. WorkerOK(w)'
    <3>1. /\ work'[w] = NoItem /\ cur'[w] = work[w] /\ wpc'[w] = "complete" /\ ~signal'[w]
          /\ quit'[w] = quit[w] /\ (Free(w)' <=> Free(w))
      BY <1>1, <2>1 DEF Tables, Free
    <3> QED BY <1>5, <2>4, <3>1 DEF WorkerOK
  <2>6. \A u \in Worker : WorkerOK(u)'
    BY <2>3, <2>5, OthersKept
  <2>7. ASSUME NEW j \in Item PROVE ItemOK(j)'
    <3>1. WithMoved(work, work', w, NoItem, j)
      BY <1>1, <2>1, WithMoves DEF Tables
    <3>2. WithMoved(cur, cur', w, work[w], j)
      BY <1>1, <2>1, WithMoves DEF Tables
    <3>3. One(NoItem = j) = 0 /\ One(cur[w] = j) = 0 /\ One(work[w] = j) \in Nat
      BY <2>4, PoolAssumption DEF One
    <3>4. /\ Cardinality(With(work', j)) + One(work[w] = j) = Cardinality(With(work, j)) + 0
          /\ Cardinality(With(cur', j)) + 0 = Cardinality(With(cur, j)) + One(work[w] = j)
      BY <3>1, <3>2, <3>3 DEF WithMoved
    <3>5. Cardinality(With(work', j)) \in Nat /\ Cardinality(With(cur', j)) \in Nat /\ Numbers(j)
      BY <1>1, WithFinite, NumbersType
    <3>6. Cardinality(With(work', j)) + Cardinality(With(cur', j)) = Cardinality(With(work, j)) + Cardinality(With(cur, j))
      <4>1. ASSUME NEW x \in Nat, NEW y \in Nat, NEW m \in Nat, NEW n \in Nat, NEW o \in Nat,
                   m + o = x + 0, n + 0 = y + o
            PROVE  m + n = x + y
        BY <4>1
      <4>2. Cardinality(With(work, j)) \in Nat /\ Cardinality(With(cur, j)) \in Nat
        BY <3>5 DEF Numbers
      <4> QED BY <3>3, <3>4, <3>5, <4>1, <4>2
    <3>7. InPlaces(j)' = InPlaces(j)
      BY <1>1, <3>6 DEF InPlaces
    <3> QED BY <1>1, <3>7 DEF PoolInv, ItemOK
  <2> QED BY <1>2, <1>3, <2>2, <2>6, <2>7 DEF PoolInv
<1> QED BY <1>4, <1>5

(* The item goes to the queue of its shard. *)
LEMMA CompleteInv ==
  ASSUME PoolInv, NEW w \in Worker, complete_work_item(w)
  PROVE  PoolInv'
<1>1. /\ Tables /\ WorkerOK(w) /\ wpc[w] = "complete"
      /\ cur' = [cur EXCEPT ![w] = NoItem] /\ wpc' = [wpc EXCEPT ![w] = "return"]
      /\ completed' = [completed EXCEPT ![From[cur[w]]] = Append(@, cur[w])]
      /\ UNCHANGED <<threads, signal, quit, stop, work, employer, employerShard, asked, idle, notified, mode>>
  BY DEF PoolInv, complete_work_item, sleep
<1>2. PICK c \in Item : c = cur[w]
  BY <1>1 DEF WorkerOK, Tables
<1>3. From[c] \in Shard /\ From \in [Item -> Shard] /\ completed[From[c]] \in Seq(Item) /\ completed \in [Shard -> Seq(Item)]
  BY <1>1, PoolAssumption DEF Tables
<1>4. completed' = [completed EXCEPT ![From[c]] = Append(completed[From[c]], c)]
  BY <1>1, <1>2
<1>5. Append(completed[From[c]], c) \in Seq(Item)
  BY <1>3
<1>6. Tables'
  <2>1. completed' \in [Shard -> Seq(Item)]
    BY <1>3, <1>4, <1>5
  <2>2. cur' \in [Worker -> Item \cup {NoItem}] /\ wpc' \in [Worker -> WorkerStates]
    BY <1>1 DEF Tables, WorkerStates
  <2> QED BY <1>1, <2>1, <2>2 DEF Tables
<1>7. \A u \in Worker : WorkerOK(u)'
  <2>1. Apart(w)
    BY <1>1 DEF Apart, Tables, Free
  <2>2. /\ work'[w] = work[w] /\ cur'[w] = NoItem /\ wpc'[w] = "return" /\ signal'[w] = signal[w]
        /\ quit'[w] = quit[w] /\ (Free(w)' <=> Free(w))
    BY <1>1 DEF Tables, Free
  <2>3. WorkerOK(w)'
    BY <1>1, <2>2 DEF WorkerOK
  <2> QED BY <2>1, <2>3, OthersKept
<1>8. ASSUME NEW s \in Shard PROVE ShardOK(s)' /\ Seen(s)'
  <2>1. ShardOK(s)
    BY DEF PoolInv
  <2>2. ShardOK(s)'
    <3>1. CASE s = From[c]
      <4>1. completed'[s] = Append(completed[s], c) /\ completed[s] \in Seq(Item)
        BY <1>3, <1>4, <3>1
      <4>2. Range(completed'[s]) = Range(completed[s]) \cup {c}
        BY <4>1 DEF Range
      <4> QED BY <1>1, <2>1, <3>1, <4>2 DEF ShardOK
    <3>2. CASE s # From[c]
      <4>1. completed'[s] = completed[s]
        BY <1>3, <1>4, <3>2
      <4> QED BY <1>1, <2>1, <4>1 DEF ShardOK
    <3> QED BY <3>1, <3>2
  <2>3. wpc'[w] \in {"return", "load", "wake"}
    BY <1>1 DEF Tables
  <2> QED BY <2>2, <2>3 DEF Seen
<1>9. ASSUME NEW j \in Item PROVE ItemOK(j)'
  <2>1. WithMoved(cur, cur', w, NoItem, j)
    BY <1>1, WithMoves DEF Tables
  <2>2. One(NoItem = j) = 0 /\ One(c = j) \in Nat
    BY PoolAssumption DEF One
  <2>3. Cardinality(With(cur', j)) + One(c = j) = Cardinality(With(cur, j)) + 0
    BY <1>2, <2>1, <2>2 DEF WithMoved
  <2>4. Times(completed'[From[j]], j) = Times(completed[From[j]], j) + One(c = j)
    <3>1. CASE From[j] = From[c]
      <4>1. completed'[From[j]] = Append(completed[From[c]], c)
        BY <1>3, <1>4, <3>1
      <4>2. Times(Append(completed[From[c]], c), j) = Times(completed[From[c]], j) + One(c = j)
        BY <1>3, TimesAppend
      <4> QED BY <3>1, <4>1, <4>2
    <3>2. CASE From[j] # From[c]
      <4>1. completed'[From[j]] = completed[From[j]] /\ One(c = j) = 0
        BY <1>3, <1>4, <3>2 DEF One
      <4>2. Numbers(j)
        BY <1>1, NumbersType
      <4>3. Times(completed[From[j]], j) \in Nat
        BY <4>2 DEF Numbers
      <4> QED BY <4>1, <4>3
    <3> QED BY <3>1, <3>2
  <2>5. Cardinality(With(cur', j)) \in Nat /\ Numbers(j)
    BY <1>1, WithFinite, NumbersType
  <2>6. InPlaces(j)' = Cardinality(With(work, j)) + Cardinality(With(cur', j)) + (Times(completed[From[j]], j) + One(c = j))
    BY <1>1, <2>4 DEF InPlaces
  <2>7. InPlaces(j)' = InPlaces(j)
    <3>1. /\ Cardinality(With(work, j)) \in Nat /\ Cardinality(With(cur, j)) \in Nat
          /\ Times(completed[From[j]], j) \in Nat
      BY <2>5 DEF Numbers
    <3>2. Cardinality(With(work, j)) + Cardinality(With(cur', j)) + (Times(completed[From[j]], j) + One(c = j))
            = Cardinality(With(work, j)) + Cardinality(With(cur, j)) + Times(completed[From[j]], j)
      <4>1. ASSUME NEW x \in Nat, NEW y \in Nat, NEW z \in Nat, NEW n \in Nat, NEW o \in Nat, n + o = y + 0
            PROVE  x + n + (z + o) = x + y + z
        BY <4>1
      <4> QED BY <2>2, <2>3, <2>5, <3>1, <4>1
    <3>3. InPlaces(j) = Cardinality(With(work, j)) + Cardinality(With(cur, j)) + Times(completed[From[j]], j)
      BY DEF InPlaces
    <3> QED BY <2>6, <3>2, <3>3
  <2> QED BY <1>1, <2>7 DEF PoolInv, ItemOK
<1>10. employer' = employerShard' /\ IsInjective(threads') /\ (stop' # "no" => Quiet')
  BY <1>1 DEF PoolInv, Quiet
<1> QED BY <1>6, <1>7, <1>8, <1>9, <1>10 DEF PoolInv

(* A thread that returns itself to the pool is free and not yet in it.     *)
LEMMA ReturnInv ==
  ASSUME PoolInv, NEW w \in Worker, return_worker(w)
  PROVE  PoolInv'
<1>1. /\ Tables /\ WorkerOK(w) /\ wpc[w] = "return" /\ threads' = Append(threads, w)
      /\ wpc' = [wpc EXCEPT ![w] = "load"] /\ IsInjective(threads) /\ threads \in Seq(Worker)
      /\ UNCHANGED <<signal, quit, completed, stop, work, cur, employer, employerShard, asked, idle, notified, mode>>
  BY DEF PoolInv, return_worker, taken, sleep, Tables
<1>2. w \notin Range(threads)
  BY <1>1 DEF WorkerOK, Free
<1>3. threads' \in Seq(Worker) /\ IsInjective(threads') /\ Range(threads') = Range(threads) \cup {w}
  BY <1>1, <1>2, AppendDistinct
<1>4. Tables'
  BY <1>1, <1>3 DEF Tables, WorkerStates
<1>5. \A u \in Worker : WorkerOK(u)'
  <2>1. Apart(w)
    BY <1>1, <1>3 DEF Apart, Tables, Free
  <2>2. /\ work'[w] = work[w] /\ cur'[w] = cur[w] /\ wpc'[w] = "load" /\ signal'[w] = signal[w] /\ quit'[w] = quit[w]
    BY <1>1 DEF Tables
  <2>3. work[w] = NoItem /\ ~signal[w] /\ cur[w] = NoItem
    BY <1>1 DEF WorkerOK
  <2>4. WorkerOK(w)'
    BY <1>1, <2>2, <2>3 DEF WorkerOK, Resting
  <2> QED BY <2>1, <2>4, OthersKept
<1>6. \A s \in Shard : Seen(s)'
  <2>1. \A s \in Shard, u \in Worker :
          mode[s] = "asleep" /\ (wpc[u] \in {"return", "load", "wake"} \/ employerShard[u] # s)
            => wpc'[u] \in {"return", "load", "wake"} \/ employerShard'[u] # s
    BY <1>1 DEF Tables
  <2> QED BY <1>1, <2>1, SeenKept
<1>7. (\A s \in Shard : ShardOK(s)') /\ (\A i \in Item : ItemOK(i)') /\ (Quiet => Quiet')
  BY <1>1, ShardsKept, ItemsKept
<1> QED BY <1>1, <1>3, <1>4, <1>5, <1>6, <1>7 DEF PoolInv

(* The thread looks at the flag of its employer, and wakes it. *)
LEMMA LookInv ==
  ASSUME PoolInv, NEW w \in Worker, LoadIdle(w) \/ WakeEmployer(w)
  PROVE  PoolInv'
<1>1. /\ Tables /\ WorkerOK(w) /\ employer = employerShard
      /\ UNCHANGED <<threads, signal, quit, completed, stop, work, cur, employer, employerShard, asked, idle, mode>>
  BY DEF PoolInv, LoadIdle, WakeEmployer, taken, sleep
<1>2. PICK to \in {"wake", "read"} : wpc' = [wpc EXCEPT ![w] = to] /\ wpc[w] \in {"load", "wake"}
  BY DEF LoadIdle, WakeEmployer
<1>3. notified' \in [Shard -> BOOLEAN] /\ \A s \in Shard : notified[s] => notified'[s]
  <2>1. CASE notified' = notified
    BY <1>1, <2>1 DEF Tables
  <2>2. CASE notified' = [notified EXCEPT ![employer[w]] = TRUE]
    BY <1>1, <2>2 DEF Tables
  <2> QED BY <2>1, <2>2 DEF LoadIdle, WakeEmployer, sleep
<1>4. Tables'
  BY <1>1, <1>2, <1>3 DEF Tables, WorkerStates
<1>5. \A u \in Worker : WorkerOK(u)'
  <2>1. Apart(w)
    BY <1>1, <1>2 DEF Apart, Tables, Free
  <2>2. /\ work'[w] = work[w] /\ cur'[w] = cur[w] /\ wpc'[w] = to /\ signal'[w] = signal[w] /\ quit'[w] = quit[w]
        /\ (Free(w)' <=> Free(w)) /\ wpc[w] \in {"load", "wake"} /\ to \in {"wake", "read"}
    BY <1>1, <1>2 DEF Tables, Free
  <2>3. WorkerOK(w)'
    BY <1>1, <2>2 DEF WorkerOK, Resting
  <2> QED BY <2>1, <2>3, OthersKept
<1>6. (\A s \in Shard : ShardOK(s)') /\ (\A i \in Item : ItemOK(i)') /\ (Quiet => Quiet')
  BY <1>1, ShardsKept, ItemsKept
<1>7. ASSUME NEW s \in Shard PROVE Seen(s)'
  <2> SUFFICES ASSUME mode[s] = "asleep", completed[s] # <<>>
               PROVE  notified'[s] \/ \E u \in Worker : wpc'[u] \in {"return", "load", "wake"} \/ employerShard'[u] # s
    BY <1>1 DEF Seen
  <2>1. Seen(s) /\ idle[s]
    BY DEF PoolInv, ShardOK
  <2>2. CASE employerShard[w] # s
    BY <1>1, <2>2
  <2>3. CASE employerShard[w] = s /\ LoadIdle(w)
    <3>1. wpc' = [wpc EXCEPT ![w] = "wake"]
      BY <2>1, <2>3 DEF LoadIdle, SeesIdle
    <3> QED BY <1>1, <3>1 DEF Tables
  <2>4. CASE employerShard[w] = s /\ WakeEmployer(w)
    <3>1. notified' = [notified EXCEPT ![s] = TRUE]
      BY <1>1, <2>4 DEF WakeEmployer
    <3> QED BY <1>1, <3>1 DEF Tables
  <2> QED BY <2>2, <2>3, <2>4
<1> QED BY <1>1, <1>4, <1>5, <1>6, <1>7 DEF PoolInv

(* complete() of the items in the queue of shard s. *)
LEMMA PollItems ==
  ASSUME PoolInv, NEW s \in Shard, poll_queues(s), UNCHANGED <<work, cur>>
  PROVE  /\ completed' \in [Shard -> Seq(Item)] /\ asked' \in [Item -> {"new", "waits", "hired", "done"}]
         /\ completed'[s] = <<>> /\ (\A t \in Shard : t # s => completed'[t] = completed[t])
         /\ (\A i \in Item : ItemOK(i)') /\ (Quiet => Quiet')
<1>1. /\ Tables /\ completed \in [Shard -> Seq(Item)] /\ asked \in [Item -> {"new", "waits", "hired", "done"}]
      /\ asked' = [i \in Item |-> IF i \in Range(completed[s]) THEN "done" ELSE asked[i]]
      /\ completed' = [completed EXCEPT ![s] = <<>>]
  BY DEF PoolInv, Tables, poll_queues
<1>2. /\ completed' \in [Shard -> Seq(Item)] /\ completed'[s] = <<>>
      /\ \A t \in Shard : t # s => completed'[t] = completed[t]
  BY <1>1
<1>3. asked' \in [Item -> {"new", "waits", "hired", "done"}]
  BY <1>1
<1>4. Quiet => Quiet'
  BY <1>1 DEF Quiet
<1>5. ASSUME NEW j \in Item PROVE ItemOK(j)'
  <2>1. Numbers(j) /\ InPlaces(j) = One(asked[j] = "hired") /\ From[j] \in Shard
    BY <1>1, NumbersType, PoolAssumption DEF PoolInv, ItemOK
  <2>2. InPlaces(j)' = Cardinality(With(work, j)) + Cardinality(With(cur, j)) + Times(completed'[From[j]], j)
    BY DEF InPlaces
  <2>3. CASE From[j] # s
    <3>1. j \notin Range(completed[s])
      BY <2>3 DEF PoolInv, ShardOK
    <3>2. asked'[j] = asked[j] /\ completed'[From[j]] = completed[From[j]]
      BY <1>1, <1>2, <2>1, <2>3, <3>1
    <3> QED BY <2>1, <2>2, <3>2 DEF ItemOK, InPlaces
  <2>4. CASE From[j] = s
    <3>1. Times(completed'[From[j]], j) = 0
      <4>1. Places(<<>>, j) = {}
        BY DEF Places
      <4> QED BY <1>2, <2>4, <4>1, FS_EmptySet DEF Times
    <3>2. CASE j \in Range(completed[s])
      <4>1. Cardinality(With(work, j)) = 0 /\ Cardinality(With(cur, j)) = 0
        <5>1. /\ Cardinality(With(work, j)) \in Nat /\ Cardinality(With(cur, j)) \in Nat
              /\ Times(completed[s], j) \in Nat /\ Times(completed[s], j) # 0
          BY <2>1, <2>4, <3>2 DEF Numbers
        <5>2. Cardinality(With(work, j)) + Cardinality(With(cur, j)) + Times(completed[s], j) <= 1
          BY <2>1, <2>4 DEF InPlaces, One
        <5> QED BY <5>1, <5>2
      <4>2. asked'[j] = "done"
        BY <1>1, <3>2
      <4>3. InPlaces(j)' = 0 + 0 + 0
        BY <2>2, <3>1, <4>1
      <4>4. One(asked'[j] = "hired") = 0
        BY <4>2 DEF One
      <4> QED BY <4>3, <4>4 DEF ItemOK
    <3>3. CASE j \notin Range(completed[s])
      <4>1. asked'[j] = asked[j] /\ Times(completed[From[j]], j) = 0
        BY <1>1, <2>1, <2>4, <3>3 DEF Numbers
      <4>2. InPlaces(j)' = InPlaces(j)
        BY <2>2, <3>1, <4>1 DEF InPlaces
      <4> QED BY <2>1, <4>1, <4>2 DEF ItemOK
    <3> QED BY <3>2, <3>3
  <2> QED BY <2>3, <2>4
<1> QED BY <1>2, <1>3, <1>4, <1>5

(* A poll takes all completed items of its shard.                          *)
LEMMA PollInv ==
  ASSUME PoolInv, NEW s \in Shard, Poll(s) \/ (PollRaced(s) /\ Raced(s))
  PROVE  PoolInv'
<1>1. /\ Tables /\ poll_queues(s) /\ mode[s] # "asleep"
      /\ UNCHANGED <<threads, signal, wpc, quit, stop, work, cur, employer, employerShard, notified>>
  BY DEF PoolInv, Poll, PollRaced, sleep
<1>2. /\ completed' \in [Shard -> Seq(Item)] /\ asked' \in [Item -> {"new", "waits", "hired", "done"}]
      /\ completed'[s] = <<>> /\ (\A t \in Shard : t # s => completed'[t] = completed[t])
      /\ (\A i \in Item : ItemOK(i)') /\ (Quiet => Quiet')
  BY <1>1, PollItems
<1>3. /\ mode' \in [Shard -> {"run", "entered", "asleep"}] /\ idle' \in [Shard -> BOOLEAN] /\ mode'[s] = "run"
      /\ \A t \in Shard : t # s => mode'[t] = mode[t] /\ idle'[t] = idle[t]
  <2>1. CASE Poll(s)
    BY <1>1, <2>1 DEF Poll, Tables, sleep
  <2>2. CASE PollRaced(s) /\ Raced(s)
    <3>1. idle' = [idle EXCEPT ![s] = FALSE] /\ mode' = [mode EXCEPT ![s] = "run"]
      BY <2>2 DEF PollRaced
    <3> QED BY <1>1, <3>1 DEF Tables
  <2> QED BY <2>1, <2>2
<1>4. Tables'
  BY <1>1, <1>2, <1>3 DEF Tables
<1>5. \A w \in Worker : WorkerOK(w)'
  BY <1>1, WorkersKept
<1>6. ASSUME NEW t \in Shard PROVE ShardOK(t)' /\ Seen(t)'
  <2>1. ShardOK(t) /\ Seen(t)
    BY DEF PoolInv
  <2>2. CASE t = s
    <3>1. completed'[t] = <<>> /\ mode'[t] = "run"
      BY <1>2, <1>3, <2>2
    <3>2. Range(<<>>) = {}
      BY DEF Range
    <3>3. Range(completed'[t]) = {}
      BY <3>1, <3>2
    <3> QED BY <3>1, <3>3 DEF ShardOK, Seen
  <2>3. CASE t # s
    BY <1>1, <1>2, <1>3, <2>1, <2>3 DEF ShardOK, Seen
  <2> QED BY <2>2, <2>3
<1> QED BY <1>1, <1>2, <1>4, <1>5, <1>6 DEF PoolInv

(* A reactor falls asleep and awakes. *)
LEMMA SleepInv ==
  ASSUME PoolInv, NEW s \in Shard, EnterInterrupt(s) \/ (PollRaced(s) /\ ~Raced(s)) \/ Awake(s)
  PROVE  PoolInv'
<1>1. /\ Tables
      /\ UNCHANGED <<threads, signal, wpc, quit, stop, work, cur, employer, employerShard, asked, completed>>
  BY DEF PoolInv, EnterInterrupt, PollRaced, Awake, taken, pool
<1>2. /\ mode' \in [Shard -> {"run", "entered", "asleep"}] /\ idle' \in [Shard -> BOOLEAN]
      /\ notified' \in [Shard -> BOOLEAN] /\ (mode'[s] = "asleep" => completed[s] = <<>>)
      /\ (mode'[s] # "run" => idle'[s])
      /\ \A t \in Shard : t # s => mode'[t] = mode[t] /\ idle'[t] = idle[t] /\ notified'[t] = notified[t]
  <2>1. CASE EnterInterrupt(s)
    BY <1>1, <2>1 DEF EnterInterrupt, Tables
  <2>2. CASE PollRaced(s) /\ ~Raced(s)
    <3>1. mode[s] = "entered" /\ mode' = [mode EXCEPT ![s] = "asleep"] /\ UNCHANGED <<idle, notified>> /\ completed[s] = <<>>
      BY <2>2 DEF PollRaced, Raced
    <3>2. idle[s]
      BY <3>1 DEF PoolInv, ShardOK
    <3> QED BY <1>1, <3>1, <3>2 DEF Tables
  <2>3. CASE Awake(s)
    BY <1>1, <2>3 DEF Awake, Tables
  <2> QED BY <2>1, <2>2, <2>3
<1>3. Tables'
  BY <1>1, <1>2 DEF Tables
<1>4. (\A w \in Worker : WorkerOK(w)') /\ (\A i \in Item : ItemOK(i)') /\ (Quiet => Quiet')
  BY <1>1, WorkersKept, ItemsKept
<1>5. ASSUME NEW t \in Shard PROVE ShardOK(t)' /\ Seen(t)'
  <2>1. ShardOK(t) /\ Seen(t)
    BY DEF PoolInv
  <2>2. CASE t = s
    BY <1>1, <1>2, <2>1, <2>2 DEF ShardOK, Seen
  <2>3. CASE t # s
    BY <1>1, <1>2, <2>1, <2>3 DEF ShardOK, Seen
  <2> QED BY <2>2, <2>3
<1> QED BY <1>1, <1>3, <1>4, <1>5 DEF PoolInv

(* stop() *)
LEMMA StopThreadInv ==
  ASSUME PoolInv, StopThread
  PROVE  PoolInv'
<1>1. Tables /\ IsInjective(threads) /\ threads \in Seq(Worker) /\ threads # <<>>
  BY DEF PoolInv, Tables, StopThread
<1>2. PICK w \in Worker : w = Head(threads)
  BY <1>1, TailDistinct
<1>3. /\ Quiet /\ quit' = [quit EXCEPT ![w] = TRUE] /\ signal' = [signal EXCEPT ![w] = TRUE]
      /\ stop' = w /\ threads' = Tail(threads)
      /\ UNCHANGED <<wpc, completed, work, cur, employer, employerShard, asked, idle, notified, mode>>
  BY <1>2 DEF StopThread, taken, sleep
<1>4. /\ threads' \in Seq(Worker) /\ IsInjective(threads')
      /\ Range(threads') = Range(threads) \ {w} /\ w \in Range(threads)
  BY <1>1, <1>2, <1>3, TailDistinct
<1>5. Tables'
  BY <1>1, <1>3, <1>4 DEF Tables
<1>6. \A u \in Worker : WorkerOK(u)'
  <2>1. Apart(w)
    BY <1>1, <1>3, <1>4 DEF Apart, Tables, Free
  <2>2. WorkerOK(w) /\ Free(w)
    BY <1>4 DEF PoolInv, Free
  <2>3. /\ work'[w] = work[w] /\ cur'[w] = cur[w] /\ wpc'[w] = wpc[w] /\ signal'[w] /\ quit'[w] /\ ~Free(w)'
    BY <1>1, <1>3, <1>4 DEF Tables, Free
  <2>4. WorkerOK(w)'
    BY <2>2, <2>3 DEF WorkerOK, Resting
  <2> QED BY <2>1, <2>4, OthersKept
<1>7. /\ (\A s \in Shard : ShardOK(s)') /\ (\A s \in Shard : Seen(s)') /\ (\A i \in Item : ItemOK(i)')
      /\ (Quiet => Quiet')
  BY <1>3, ShardsKept, ItemsKept, SeenKept
<1> QED BY <1>3, <1>4, <1>5, <1>6, <1>7 DEF PoolInv

(* stop() joins the threads it took, and returns.                          *)
LEMMA StopEndInv ==
  ASSUME PoolInv, JoinThread \/ StopReturns
  PROVE  PoolInv'
<1>1. /\ UNCHANGED <<threads, signal, wpc, quit, completed, work, cur, employer, employerShard, asked,
                     idle, notified, mode>>
      /\ stop' \in {"joined", "stopped"} /\ (Quiet \/ stop \in Worker)
  BY DEF JoinThread, StopReturns, taken, sleep
<1>2. Tables'
  BY <1>1 DEF PoolInv, Tables
<1>3. /\ (\A w \in Worker : WorkerOK(w)') /\ (\A s \in Shard : ShardOK(s)') /\ (\A s \in Shard : Seen(s)')
      /\ (\A i \in Item : ItemOK(i)') /\ (Quiet => Quiet')
  BY <1>1, WorkersKept, ShardsKept, ItemsKept, SeenKept
<1>4. Quiet
  BY <1>1, PoolAssumption DEF PoolInv
<1> QED BY <1>1, <1>2, <1>3, <1>4 DEF PoolInv

(* Every step keeps the invariant.                                         *)
LEMMA PoolStepInv == PoolInv /\ [PoolNext]_poolVars => PoolInv'
<1> SUFFICES ASSUME PoolInv, [PoolNext]_poolVars PROVE PoolInv'
  OBVIOUS
<1>1. ASSUME NEW i \in Item, submit_work(i) PROVE PoolInv'
  BY <1>1, HireInv, WaitInv
<1>2. ASSUME NEW w \in Worker, WorkerStep(w) PROVE PoolInv'
  BY <1>2, ReadEventInv, CompleteInv, ReturnInv, LookInv DEF WorkerStep
<1>3. ASSUME NEW s \in Shard, Poll(s) \/ EnterInterrupt(s) \/ PollRaced(s) \/ Woken(s) \/ WokenByOther(s)
      PROVE  PoolInv'
  BY <1>3, PollInv, SleepInv DEF Woken, WokenByOther
<1>4. CASE Stopping
  BY <1>4, StopThreadInv, StopEndInv DEF Stopping
<1>5. CASE UNCHANGED poolVars
  BY <1>5 DEF poolVars, taken, pool, sleep, PoolInv, Tables, WorkerOK, Free, ShardOK, Seen, ItemOK, InPlaces, Quiet
<1> QED BY <1>1, <1>2, <1>3, <1>4, <1>5 DEF PoolNext

(* In every interleaving of the shards, the threads and stop(): an item    *)
(* handed over by submit() is with one thread or in the completed queue of *)
(* its shard and nowhere else, a reactor that sleeps on a completed item   *)
(* is notified or some thread has yet to look or was hired by another      *)
(* shard, and stop() returns with no work left.                            *)
THEOREM PoolIsSafe == PoolSpec => []PoolSafe
BY PoolInitInv, PoolStepInv, PoolInvSafe, PTL DEF PoolSpec

=============================================================================
