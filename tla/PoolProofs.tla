----------------------------- MODULE PoolProofs -----------------------------
(***************************************************************************)
(* Proofs about the smaller pools, for any number of threads, streams and  *)
(* tasks: the plain threads of AlienThreadPool and the GPU streams of      *)
(* GpuResourcePool.  The lemmas about counting come first.                 *)
(***************************************************************************)
EXTENDS AlienThreadPool, GpuResourcePool, FiniteSetTheorems, SequenceTheorems, TLAPS

(***************************************************************************)
(* Counting.                                                               *)
(***************************************************************************)
Places(q, x) == {i \in DOMAIN q : q[i] = x}
Times(q, x)  == Cardinality(Places(q, x))

One(P) == IF P THEN 1 ELSE 0

(* Two sets that differ in at most one element. *)
LEMMA DifferInOne ==
  ASSUME NEW A, NEW B, NEW k, IsFiniteSet(A), A \ {k} = B \ {k}
  PROVE  /\ IsFiniteSet(B) /\ Cardinality(A) \in Nat /\ Cardinality(B) \in Nat
         /\ Cardinality(B) + One(k \in A) = Cardinality(A) + One(k \in B)
<1>1. IsFiniteSet(B)
  <2>1. IsFiniteSet(B \ {k})
    BY FS_RemoveElement
  <2>2. IsFiniteSet((B \ {k}) \cup {k})
    BY <2>1, FS_AddElement
  <2>3. B \subseteq (B \ {k}) \cup {k}
    OBVIOUS
  <2> QED BY <2>2, <2>3, FS_Subset
<1>2. Cardinality(A) \in Nat /\ Cardinality(B) \in Nat
  BY <1>1, FS_CardinalityType
<1>3. /\ Cardinality(A \ {k}) = IF k \in A THEN Cardinality(A) - 1 ELSE Cardinality(A)
      /\ Cardinality(B \ {k}) = IF k \in B THEN Cardinality(B) - 1 ELSE Cardinality(B)
  BY <1>1, FS_RemoveElement
<1> QED BY <1>1, <1>2, <1>3 DEF One

(* A finite set with an element is counted. *)
LEMMA CountedOne ==
  ASSUME NEW A, NEW k \in A, IsFiniteSet(A)
  PROVE  Cardinality(A) \in Nat /\ Cardinality(A) >= 1
<1>1. Cardinality(A) \in Nat /\ Cardinality(A) # 0
  BY FS_CardinalityType, FS_EmptySet
<1> QED BY <1>1

(* A value is counted by a number, 0 if it is not in the sequence.         *)
LEMMA PlacesFinite ==
  ASSUME NEW S, NEW q \in Seq(S), NEW x
  PROVE  IsFiniteSet(Places(q, x)) /\ Times(q, x) \in Nat /\ (Times(q, x) = 0 <=> x \notin Range(q))
<1>1. Places(q, x) \subseteq 1 .. Len(q) /\ Len(q) \in Nat
  BY LenProperties DEF Places
<1>2. IsFiniteSet(1 .. Len(q))
  BY <1>1, FS_Interval
<1>3. IsFiniteSet(Places(q, x))
  BY <1>1, <1>2, FS_Subset
<1>4. Times(q, x) \in Nat /\ (Times(q, x) = 0 <=> Places(q, x) = {})
  BY <1>3, FS_CardinalityType, FS_EmptySet DEF Times
<1>5. Places(q, x) = {} <=> x \notin Range(q)
  BY DEF Places, Range
<1> QED BY <1>3, <1>4, <1>5

(* Appending an element counts it once more.                               *)
LEMMA TimesAppend ==
  ASSUME NEW S, NEW q \in Seq(S), NEW e \in S, NEW x
  PROVE  Times(Append(q, e), x) = Times(q, x) + One(e = x)
<1> DEFINE n == Len(q) + 1
           r == Append(q, e)
<1>1. /\ Len(q) \in Nat /\ DOMAIN q = 1 .. Len(q) /\ DOMAIN r = 1 .. n /\ r[n] = e
      /\ \A i \in 1 .. Len(q) : r[i] = q[i]
  OBVIOUS
<1> HIDE DEF r
<1>2. Places(q, x) \ {n} = Places(r, x) \ {n} /\ n \notin Places(q, x) /\ (n \in Places(r, x) <=> e = x)
  BY <1>1 DEF Places
<1>3. IsFiniteSet(Places(q, x))
  BY PlacesFinite
<1>4. /\ Cardinality(Places(q, x)) \in Nat /\ Cardinality(Places(r, x)) \in Nat
      /\ Cardinality(Places(r, x)) + One(n \in Places(q, x))
           = Cardinality(Places(q, x)) + One(n \in Places(r, x))
  BY <1>2, <1>3, DifferInOne
<1> QED BY <1>2, <1>4 DEF Times, One, r

(* Taking the head off counts it once less.                                *)
LEMMA TimesTail ==
  ASSUME NEW S, NEW q \in Seq(S), q # <<>>, NEW x
  PROVE  Times(q, x) = Times(Tail(q), x) + One(Head(q) = x)
<1> DEFINE r == Tail(q)
           A == Places(q, x)
           B == Places(r, x)
           C == A \ {1}
<1>1. /\ Len(q) \in Nat \ {0} /\ DOMAIN q = 1 .. Len(q) /\ r \in Seq(S) /\ Len(r) = Len(q) - 1
      /\ DOMAIN r = 1 .. Len(q) - 1 /\ q[1] = Head(q) /\ \A i \in 1 .. Len(q) - 1 : r[i] = q[i + 1]
  BY HeadTailProperties, LenProperties
<1> HIDE DEF r
<1>2. IsFiniteSet(A) /\ IsFiniteSet(B)
  BY <1>1, PlacesFinite
<1>3. (1 \in A <=> Head(q) = x) /\ Cardinality(A) \in Nat
  BY <1>1, <1>2, FS_CardinalityType DEF Places
<1>4. \A i : i \in B <=> i \in Nat /\ i + 1 \in C
  BY <1>1 DEF Places
<1>5. \A j \in C : j \in Nat /\ j - 1 \in B /\ j - 1 + 1 = j
  BY <1>1 DEF Places
<1>6. ExistsBijection(B, C)
  <2> DEFINE f == [i \in B |-> i + 1]
  <2>1. f \in [B -> C] /\ \A i \in B : f[i] = i + 1
    BY <1>4
  <2>2. \A i, j \in B : f[i] = f[j] => i = j
    BY <1>4, <2>1
  <2>3. \A j \in C : \E i \in B : f[i] = j
    BY <1>5, <2>1
  <2> HIDE DEF f
  <2>4. f \in Bijection(B, C)
    BY <2>1, <2>2, <2>3 DEF Bijection, Injection, Surjection, IsInjective
  <2> QED BY <2>4 DEF ExistsBijection
<1>7. Cardinality(C) = Cardinality(B)
  BY <1>2, <1>6, FS_Bijection
<1>8. Cardinality(C) = IF 1 \in A THEN Cardinality(A) - 1 ELSE Cardinality(A)
  BY <1>2, FS_RemoveElement
<1> QED BY <1>3, <1>7, <1>8 DEF Times, One, r

(* configure() puts every thread or stream once into the queue. *)
LEMMA SequenceOfSet ==
  ASSUME NEW S, IsFiniteSet(S)
  PROVE  /\ SetToSeq(S) \in Seq(S) /\ Len(SetToSeq(S)) = Cardinality(S)
         /\ Cardinality(S) \in Nat /\ IsInjective(SetToSeq(S))
         /\ \A x \in S : Times(SetToSeq(S), x) = 1
<1> DEFINE n == Cardinality(S)
           q == SetToSeq(S)
<1>1. n \in Nat /\ ExistsBijection(1 .. n, S)
  BY FS_CardinalityType
<1>2. q \in [1 .. n -> S] /\ IsInjective(q)
  <2>1. \E f \in [1 .. n -> S] : IsInjective(f)
    BY <1>1 DEF ExistsBijection, Bijection, Injection
  <2> QED BY <2>1 DEF SetToSeq
<1> HIDE DEF q, n
<1>3. q \in Seq(S) /\ Len(q) = n
  BY <1>1, <1>2
<1>4. q \in Injection(1 .. n, S)
  BY <1>2 DEF Injection
<1>5. IsFiniteSet(1 .. n) /\ Cardinality(1 .. n) = n
  BY <1>1, FS_Interval
<1>6. q \in Surjection(1 .. n, S)
  BY <1>4, <1>5, FS_Injection DEF n
<1>7. ASSUME NEW x \in S PROVE Times(q, x) = 1
  <2>1. PICK i \in 1 .. n : q[i] = x
    BY <1>6 DEF Surjection
  <2>2. DOMAIN q = 1 .. n
    BY <1>2
  <2>3. Places(q, x) = {i}
    BY <1>2, <2>1, <2>2 DEF Places, IsInjective
  <2> QED BY <2>3, FS_Singleton DEF Times
<1> QED BY <1>1, <1>2, <1>3, <1>7 DEF q, n

-----------------------------------------------------------------------------
(***************************************************************************)
(* The pool of plain threads.                                              *)
(***************************************************************************)
(* A thread that left found the queue empty, after every early task.       *)
TasksHeld ==
  /\ \A t \in Thread : tpc[t] = "run" <=> task[t] # NoTask
  /\ phase = "built" => \A t \in Thread : tpc[t] = "none"
  /\ \A t \in Thread : tpc[t] = "left" => Range(tasks) \subseteq late
  /\ phase \in {"destroyed", "aborted"} => Joined
  /\ phase = "aborted" => tasks # <<>>

Running(k) == {t \in Thread : task[t] = k}
Copies(k)  == runs[k] + Times(tasks, k) + Cardinality(Running(k))

AlienInv == AlienTypeOK /\ TasksHeld /\ \A k \in Task : Copies(k) <= 1

(* The three counts of a task are numbers.                                 *)
LEMMA CopiesType ==
  ASSUME AlienTypeOK, NEW k \in Task
  PROVE  /\ runs[k] \in Nat /\ Times(tasks, k) \in Nat /\ (Times(tasks, k) = 0 <=> k \notin Range(tasks))
         /\ IsFiniteSet(Running(k)) /\ Cardinality(Running(k)) \in Nat
         /\ (Cardinality(Running(k)) = 0 <=> Running(k) = {})
<1>1. Running(k) \subseteq Thread /\ IsFiniteSet(Thread)
  BY AlienAssumption DEF Running
<1>2. IsFiniteSet(Running(k))
  BY <1>1, FS_Subset
<1>3. Cardinality(Running(k)) \in Nat /\ (Cardinality(Running(k)) = 0 <=> Running(k) = {})
  BY <1>2, FS_CardinalityType, FS_EmptySet
<1>4. runs[k] \in Nat /\ tasks \in Seq(Task)
  BY DEF AlienTypeOK
<1>5. Times(tasks, k) \in Nat /\ (Times(tasks, k) = 0 <=> k \notin Range(tasks))
  BY <1>4, PlacesFinite
<1> QED BY <1>2, <1>3, <1>4, <1>5

(* The invariant implies the properties.                                   *)
LEMMA AlienInvSafe == AlienInv => AlienSafe
<1> SUFFICES ASSUME AlienInv PROVE AlienSafe
  OBVIOUS
<1>1. AlienTypeOK /\ TasksHeld /\ \A k \in Task : Copies(k) <= 1
  BY DEF AlienInv
<1>2. TaskOnce
  <2>1. \A k \in Task : runs[k] <= 1
    BY <1>1, CopiesType DEF Copies
  <2> QED BY <1>1, <2>1 DEF TaskOnce, Copies, Times, Places, Running
<1>3. ASSUME phase \in {"destroyed", "aborted"}
      PROVE  Range(tasks) \subseteq late /\ \A k \in Task : Added(k) /\ k \notin late => runs[k] = 1
  <2>1. \A t \in Thread : tpc[t] = "left"
    BY <1>1, <1>3 DEF TasksHeld, Joined
  <2>2. Range(tasks) \subseteq late
    BY <1>1, <2>1, AlienAssumption DEF TasksHeld
  <2>3. \A t \in Thread : task[t] = NoTask
    BY <1>1, <2>1 DEF TasksHeld
  <2>4. ASSUME NEW k \in Task, Added(k), k \notin late PROVE runs[k] = 1
    <3>1. runs[k] > 0
      BY <2>2, <2>3, <2>4, AlienAssumption DEF Added
    <3> QED BY <1>1, <3>1, CopiesType DEF Copies
  <2> QED BY <2>2, <2>4
<1>4. EarlyTasksRun
  BY <1>1, <1>3 DEF EarlyTasksRun, TasksHeld
<1> QED BY <1>1, <1>2, <1>4 DEF AlienSafe

(* The invariant holds when the pool is built.                             *)
LEMMA AlienInitInv == AlienInit => AlienInv
<1> SUFFICES ASSUME AlienInit PROVE AlienInv
  OBVIOUS
<1>1. AlienTypeOK
  BY DEF AlienInit, AlienTypeOK
<1>2. TasksHeld
  BY DEF AlienInit, TasksHeld
<1>3. ASSUME NEW k \in Task PROVE Copies(k) <= 1
  <2>1. runs[k] = 0 /\ k \notin Range(tasks) /\ Running(k) = {}
    BY AlienAssumption DEF AlienInit, Range, Running
  <2>2. Times(tasks, k) = 0 /\ Cardinality(Running(k)) = 0
    BY <1>1, <2>1, CopiesType
  <2>3. Copies(k) = 0 + 0 + 0
    BY <2>1, <2>2 DEF Copies
  <2> QED BY <2>3
<1> QED BY <1>1, <1>2, <1>3 DEF AlienInv

(* What the threads run, after thread t turned to task j. *)
RunningMoved(k, t, j) ==
  /\ Cardinality(Running(k)') \in Nat
  /\ Cardinality(Running(k)') + One(task[t] = k) = Cardinality(Running(k)) + One(j = k)

(* Giving a thread another task changes the counts by that thread.         *)
LEMMA RunningMoves ==
  ASSUME AlienTypeOK, NEW t \in Thread, NEW j, task' = [task EXCEPT ![t] = j], NEW k \in Task
  PROVE  RunningMoved(k, t, j)
<1> DEFINE A == Running(k)
           B == Running(k)'
<1>1. A \ {t} = B \ {t} /\ (t \in A <=> task[t] = k) /\ (t \in B <=> j = k)
  BY DEF Running, AlienTypeOK
<1>2. IsFiniteSet(A)
  BY CopiesType
<1> HIDE DEF A, B
<1>3. /\ Cardinality(B) \in Nat
      /\ Cardinality(B) + One(t \in A) = Cardinality(A) + One(t \in B)
  BY <1>1, <1>2, DifferInOne
<1>4. One(t \in A) = One(task[t] = k) /\ One(t \in B) = One(j = k)
  BY <1>1 DEF One
<1> QED BY <1>3, <1>4 DEF A, B, RunningMoved

(* add_task() queues a task that is nowhere yet.                           *)
LEMMA AddTaskInv ==
  ASSUME AlienInv, NEW j \in Task, add_task(j)
  PROVE  AlienInv'
<1>1. /\ AlienTypeOK /\ TasksHeld /\ tasks \in Seq(Task) /\ tasks' = Append(tasks, j)
      /\ UNCHANGED <<tpc, task, runs, phase>> /\ phase \in {"built", "creating", "running"} /\ ~Added(j)
      /\ late' = IF phase = "built" THEN late ELSE late \cup {j}
  BY DEF AlienInv, AlienTypeOK, add_task
<1>2. AlienTypeOK'
  BY <1>1 DEF AlienTypeOK
<1>3. Range(tasks') = Range(tasks) \cup {j}
  BY <1>1 DEF Range
<1>4. TasksHeld'
  <2>1. ASSUME NEW t \in Thread, tpc[t] = "left" PROVE Range(tasks') \subseteq late'
    <3>1. phase # "built" /\ Range(tasks) \subseteq late
      BY <1>1, <2>1 DEF TasksHeld
    <3> QED BY <1>1, <1>3, <3>1
  <2> QED BY <1>1, <2>1 DEF TasksHeld
<1>5. ASSUME NEW k \in Task PROVE Copies(k)' <= 1
  <2>1. Times(tasks', k) = Times(tasks, k) + One(j = k)
    BY <1>1, TimesAppend
  <2>2. Running(k)' = Running(k) /\ runs'[k] = runs[k]
    BY <1>1 DEF Running
  <2>3. k = j => runs[k] = 0 /\ Times(tasks, k) = 0 /\ Cardinality(Running(k)) = 0
    <3> SUFFICES ASSUME k = j PROVE runs[k] = 0 /\ Times(tasks, k) = 0 /\ Cardinality(Running(k)) = 0
      OBVIOUS
    <3>1. k \notin Range(tasks) /\ ~(runs[k] > 0) /\ Running(k) = {}
      BY <1>1 DEF Added, Running
    <3>2. /\ runs[k] \in Nat /\ (Times(tasks, k) = 0 <=> k \notin Range(tasks))
          /\ (Cardinality(Running(k)) = 0 <=> Running(k) = {})
      BY <1>1, CopiesType
    <3> QED BY <3>1, <3>2
  <2>4. Copies(k)' = runs[k] + (Times(tasks, k) + One(j = k)) + Cardinality(Running(k))
    BY <2>1, <2>2 DEF Copies
  <2>5. runs[k] + Times(tasks, k) + Cardinality(Running(k)) <= 1
    BY DEF AlienInv, Copies
  <2>6. CASE k = j
    BY <2>3, <2>4, <2>6 DEF One
  <2>7. CASE k # j
    <3>1. One(j = k) = 0
      BY <2>7 DEF One
    <3> QED BY <1>1, <2>4, <2>5, <3>1, CopiesType
  <2> QED BY <2>6, <2>7
<1> QED BY <1>2, <1>4, <1>5 DEF AlienInv

(* next_task() moves a task from the queue to a thread, or lets it leave.  *)
LEMMA NextTaskInv ==
  ASSUME AlienInv, NEW t \in Thread, next_task(t)
  PROVE  AlienInv'
<1>1. /\ AlienTypeOK /\ TasksHeld /\ tasks \in Seq(Task) /\ tpc[t] = "take"
      /\ UNCHANGED <<late, runs, phase>> /\ task[t] = NoTask
      /\ tpc \in [Thread -> {"none", "take", "run", "left"}] /\ task \in [Thread -> Task \cup {NoTask}]
  BY DEF AlienInv, AlienTypeOK, next_task, TasksHeld
<1>2. CASE tasks = <<>>
  <2>1. tpc' = [tpc EXCEPT ![t] = "left"] /\ tasks' = tasks /\ task' = task /\ Range(tasks) = {}
    BY <1>2 DEF next_task, Leaves, Range
  <2>2. AlienTypeOK'
    BY <1>1, <2>1 DEF AlienTypeOK
  <2>3. TasksHeld'
    BY <1>1, <2>1 DEF TasksHeld, Joined
  <2>4. \A k \in Task : Copies(k)' = Copies(k)
    BY <1>1, <2>1 DEF Copies, Running
  <2> QED BY <2>2, <2>3, <2>4 DEF AlienInv
<1>3. CASE tasks # <<>>
  <2>1. /\ task' = [task EXCEPT ![t] = Head(tasks)] /\ tasks' = Tail(tasks)
        /\ tpc' = [tpc EXCEPT ![t] = "run"]
    BY <1>3 DEF next_task, PopTask
  <2>2. Head(tasks) \in Task /\ tasks' \in Seq(Task) /\ Range(tasks') \subseteq Range(tasks)
    <3>1. /\ Head(tasks) \in Task /\ Tail(tasks) \in Seq(Task) /\ Len(Tail(tasks)) = Len(tasks) - 1
          /\ \A i \in 1 .. Len(Tail(tasks)) : Tail(tasks)[i] = tasks[i + 1]
      BY <1>1, <1>3, HeadTailProperties
    <3>2. DOMAIN tasks = 1 .. Len(tasks) /\ DOMAIN Tail(tasks) = 1 .. Len(tasks) - 1 /\ Len(tasks) \in Nat
      BY <1>1, <3>1, LenProperties
    <3>3. \A i \in DOMAIN Tail(tasks) : i + 1 \in DOMAIN tasks /\ Tail(tasks)[i] = tasks[i + 1]
      BY <3>1, <3>2
    <3> QED BY <2>1, <3>1, <3>3 DEF Range
  <2>3. AlienTypeOK'
    BY <1>1, <2>1, <2>2 DEF AlienTypeOK
  <2>4. TasksHeld'
    BY <1>1, <2>1, <2>2, AlienAssumption DEF TasksHeld, Joined
  <2>5. ASSUME NEW k \in Task PROVE Copies(k)' <= 1
    <3>1. Times(tasks, k) = Times(tasks', k) + One(Head(tasks) = k)
      BY <1>1, <1>3, <2>1, TimesTail
    <3>2. /\ Cardinality(Running(k)') \in Nat
          /\ Cardinality(Running(k)') + One(task[t] = k) = Cardinality(Running(k)) + One(Head(tasks) = k)
      <4>1. AlienTypeOK /\ task' = [task EXCEPT ![t] = Head(tasks)]
        BY <1>1, <2>1
      <4>2. RunningMoved(k, t, Head(tasks))
        BY <4>1, RunningMoves
      <4> QED BY <4>2 DEF RunningMoved
    <3>3. One(task[t] = k) = 0 /\ One(Head(tasks) = k) \in Nat
      BY <1>1, AlienAssumption DEF One
    <3>4. Times(tasks', k) \in Nat
      BY <2>2, PlacesFinite
    <3>5. runs[k] + Times(tasks, k) + Cardinality(Running(k)) <= 1
      BY DEF AlienInv, Copies
    <3>6. runs[k] + Times(tasks', k) + Cardinality(Running(k)') <= 1
      BY <1>1, <3>1, <3>2, <3>3, <3>4, <3>5, CopiesType
    <3> QED BY <1>1, <3>6 DEF Copies
  <2> QED BY <2>3, <2>4, <2>5 DEF AlienInv
<1> QED BY <1>2, <1>3

(* A task that ran is with no thread any more.                             *)
LEMMA RunTaskInv ==
  ASSUME AlienInv, NEW t \in Thread, RunTask(t)
  PROVE  AlienInv'
<1>1. /\ AlienTypeOK /\ TasksHeld /\ tasks \in Seq(Task) /\ tpc[t] = "run"
      /\ UNCHANGED <<tasks, late, phase>> /\ task[t] \in Task
      /\ runs' = [runs EXCEPT ![task[t]] = @ + 1] /\ task' = [task EXCEPT ![t] = NoTask]
      /\ tpc' = [tpc EXCEPT ![t] = "take"] /\ runs \in [Task -> Nat]
      /\ tpc \in [Thread -> {"none", "take", "run", "left"}] /\ task \in [Thread -> Task \cup {NoTask}]
  BY DEF AlienInv, AlienTypeOK, RunTask, TasksHeld
<1>2. AlienTypeOK'
  BY <1>1 DEF AlienTypeOK
<1>3. TasksHeld'
  BY <1>1 DEF TasksHeld, Joined
<1>4. ASSUME NEW k \in Task PROVE Copies(k)' <= 1
  <2>1. /\ Cardinality(Running(k)') \in Nat
        /\ Cardinality(Running(k)') + One(task[t] = k) = Cardinality(Running(k)) + One(NoTask = k)
    <3>1. AlienTypeOK /\ task' = [task EXCEPT ![t] = NoTask]
      BY <1>1
    <3>2. RunningMoved(k, t, NoTask)
      BY <3>1, RunningMoves
    <3> QED BY <3>2 DEF RunningMoved
  <2>2. runs'[k] = runs[k] + One(task[t] = k)
    BY <1>1 DEF One
  <2>3. One(NoTask = k) = 0 /\ One(task[t] = k) \in Nat
    BY AlienAssumption DEF One
  <2>4. runs[k] + Times(tasks, k) + Cardinality(Running(k)) <= 1
    BY DEF AlienInv, Copies
  <2>5. runs'[k] + Times(tasks, k) + Cardinality(Running(k)') <= 1
    <3>1. runs[k] \in Nat /\ Times(tasks, k) \in Nat /\ Cardinality(Running(k)) \in Nat
      BY <1>1, CopiesType
    <3> QED BY <2>1, <2>2, <2>3, <2>4, <3>1
  <2> QED BY <1>1, <2>5 DEF Copies
<1> QED BY <1>2, <1>3, <1>4 DEF AlienInv

(* Creating the threads and joining them moves no task.                    *)
LEMMA OwnerInv ==
  ASSUME AlienInv, (\E t \in Thread : initialize_and_run(t)) \/ CreateFails \/ BeginDestroy \/ Destroy
  PROVE  AlienInv'
<1>1. AlienTypeOK /\ TasksHeld /\ UNCHANGED <<tasks, task, late, runs>>
  BY DEF AlienInv, initialize_and_run, CreateFails, BeginDestroy, Destroy
<1>2. \A k \in Task : Copies(k)' = Copies(k)
  BY <1>1 DEF Copies, Running
<1>3. ASSUME NEW t \in Thread, initialize_and_run(t) PROVE AlienTypeOK' /\ TasksHeld'
  <2>1. /\ tpc[t] = "none" /\ tpc' = [tpc EXCEPT ![t] = "take"] /\ phase' \in {"creating", "running"}
    BY <1>3 DEF initialize_and_run
  <2>2. AlienTypeOK'
    BY <1>1, <2>1 DEF AlienTypeOK
  <2>3. TasksHeld'
    BY <1>1, <2>1 DEF TasksHeld, AlienTypeOK
  <2> QED BY <2>2, <2>3
<1>4. CASE CreateFails \/ BeginDestroy \/ Destroy
  <2>1. /\ tpc' = tpc /\ phase' \in {"exited", "joining", "destroyed", "aborted"}
        /\ (phase' \in {"destroyed", "aborted"} => Joined) /\ (phase' = "aborted" => tasks # <<>>)
    BY <1>4 DEF CreateFails, BeginDestroy, Destroy, QueueDestroyed
  <2>2. AlienTypeOK'
    BY <1>1, <2>1 DEF AlienTypeOK
  <2>3. TasksHeld'
    BY <1>1, <2>1 DEF TasksHeld, Joined
  <2> QED BY <1>2, <2>2, <2>3 DEF AlienInv
<1>5. CASE \E t \in Thread : initialize_and_run(t)
  BY <1>2, <1>3, <1>5 DEF AlienInv
<1> QED BY <1>4, <1>5

(* Every step keeps the invariant.                                         *)
LEMMA AlienStepInv == AlienInv /\ [AlienNext]_alienVars => AlienInv'
<1> SUFFICES ASSUME AlienInv, [AlienNext]_alienVars PROVE AlienInv'
  OBVIOUS
<1>1. CASE AlienNext
  BY <1>1, AddTaskInv, NextTaskInv, RunTaskInv, OwnerInv DEF AlienNext, ThreadStep
<1>2. CASE UNCHANGED alienVars
  BY <1>2 DEF alienVars, AlienInv, AlienTypeOK, TasksHeld, Joined, Copies, Running
<1> QED BY <1>1, <1>2

(* No task of the pool runs twice or in two threads, whichever threads     *)
(* take them, and when the destructor has joined the threads every task    *)
(* added before the threads were created has run, so that only a task      *)
(* added to the running pool makes ~task_queue() abort.                    *)
THEOREM AlienIsSafe == AlienSpec => []AlienSafe
<1>1. AlienInit /\ [][AlienNext]_alienVars => []AlienInv
  BY AlienInitInv, AlienStepInv, PTL
<1> QED BY <1>1, AlienInvSafe, PTL DEF AlienSpec

-----------------------------------------------------------------------------
(***************************************************************************)
(* The streams of a GPU.                                                   *)
(***************************************************************************)
GpuStates == {"new", "waits", "got", "returns", "runs", "ready", "frees", "done"}
OnStream == {"returns", "runs", "ready"}
Holding  == {"got", "returns", "frees"}

(* Who is past get_stream() has a stream of the device. *)
Held ==
  /\ streams \subseteq Stream
  /\ \A k \in GpuTask : gstate[k] \notin {"new", "waits"} => stream[k] \in streams

(* What the properties say of one stream. *)
StreamOK(x) ==
  /\ count[x] = Cardinality(On(x, OnStream)) /\ count[x] <= EventNum
  /\ Times(candidates, x) + Cardinality(On(x, Holding)) = One(count[x] < EventNum)

GpuInv == GpuTypeOK /\ Held /\ (~stale => \A x \in streams : StreamOK(x))

(* The invariant implies the properties.                                   *)
LEMMA GpuInvSafe == GpuInv => GpuSafe
BY DEF GpuInv, GpuSafe, StreamBound, OneToken, StreamOK, Times, Places, One, OnStream, Holding

(* The tasks of a stream are counted by a number.                          *)
LEMMA OnFinite ==
  ASSUME NEW x, NEW S
  PROVE  IsFiniteSet(On(x, S)) /\ Cardinality(On(x, S)) \in Nat
<1>1. On(x, S) \subseteq GpuTask /\ IsFiniteSet(GpuTask)
  BY GpuAssumption DEF On
<1>2. IsFiniteSet(On(x, S))
  BY <1>1, FS_Subset
<1> QED BY <1>2, FS_CardinalityType

(* The invariant holds after configure().                                  *)
LEMMA GpuInitInv == GpuInit => GpuInv
<1> SUFFICES ASSUME GpuInit PROVE GpuInv
  OBVIOUS
<1>1. streams \subseteq Stream /\ IsFiniteSet(streams)
  <2>1. streams \subseteq Stream /\ IsFiniteSet(Stream)
    BY GpuAssumption DEF GpuInit
  <2> QED BY <2>1, FS_Subset
<1>2. candidates \in Seq(streams) /\ \A x \in streams : Times(candidates, x) = 1
  BY <1>1, SequenceOfSet DEF GpuInit
<1>3. GpuTypeOK /\ Held
  <2>1. /\ gstate = [k \in GpuTask |-> "new"] /\ stream = [k \in GpuTask |-> NoStream]
        /\ count = [x \in Stream |-> 0] /\ stale = FALSE
    BY DEF GpuInit
  <2>2. GpuTypeOK
    <3>1. stream \in [GpuTask -> Stream \cup {NoStream}]
      BY <2>1
    <3>2. gstate \in [GpuTask -> GpuStates]
      BY <2>1 DEF GpuStates
    <3>3. count \in [Stream -> Int]
      BY <2>1
    <3>4. stale \in BOOLEAN
      BY <2>1, Zenon
    <3> QED BY <1>2, <3>1, <3>2, <3>3, <3>4 DEF GpuTypeOK, GpuStates
  <2> QED BY <1>1, <2>1, <2>2 DEF Held
<1>4. ASSUME NEW x \in streams PROVE StreamOK(x)
  <2>1. On(x, OnStream) = {} /\ On(x, Holding) = {} /\ count[x] = 0
    BY <1>1 DEF GpuInit, On, OnStream, Holding
  <2>2. Cardinality(On(x, OnStream)) = 0 /\ Cardinality(On(x, Holding)) = 0
    BY <2>1, FS_EmptySet
  <2>3. EventNum \in Nat /\ 0 < EventNum
    BY GpuAssumption
  <2> QED BY <1>2, <2>1, <2>2, <2>3 DEF StreamOK, One
<1> QED BY <1>3, <1>4 DEF GpuInv

(* Task k goes from one state to another, with stream x. *)
Moves(k, from, to, x) ==
  /\ At(k, from, to) /\ stream' = [stream EXCEPT ![k] = x]
  /\ from \in {"new", "waits"} \/ stream[k] = x

(* It is then counted for its stream alone. *)
Moved(S, y, x, from, to) ==
  /\ Cardinality(On(y, S)) \in Nat /\ Cardinality(On(y, S)') \in Nat
  /\ Cardinality(On(y, S)') + One(y = x /\ from \in S) = Cardinality(On(y, S)) + One(y = x /\ to \in S)

(* One task that goes on changes the counts of its stream only.            *)
LEMMA OneTaskMoves ==
  ASSUME GpuTypeOK, NEW k \in GpuTask, NEW from, NEW to, NEW x, Moves(k, from, to, x),
         NEW S, "new" \notin S, "waits" \notin S, NEW y
  PROVE  Moved(S, y, x, from, to)
<1> DEFINE A == On(y, S)
           B == On(y, S)'
<1>1. /\ \A j \in GpuTask : j # k => gstate'[j] = gstate[j] /\ stream'[j] = stream[j]
      /\ gstate[k] = from /\ gstate'[k] = to /\ stream'[k] = x /\ (from \in {"new", "waits"} \/ stream[k] = x)
  BY DEF At, GpuTypeOK, Moves
<1>2. A \ {k} = B \ {k} /\ (k \in A <=> y = x /\ from \in S) /\ (k \in B <=> y = x /\ to \in S)
  BY <1>1 DEF On
<1>3. IsFiniteSet(A)
  BY OnFinite
<1> HIDE DEF A, B
<1>4. /\ Cardinality(A) \in Nat /\ Cardinality(B) \in Nat
      /\ Cardinality(B) + One(k \in A) = Cardinality(A) + One(k \in B)
  BY <1>2, <1>3, DifferInOne
<1>5. One(k \in A) = One(y = x /\ from \in S) /\ One(k \in B) = One(y = x /\ to \in S)
  BY <1>2 DEF One
<1> QED BY <1>4, <1>5 DEF A, B, Moved

(* The counts of a stream before and after a step of a task. *)
LEMMA Counts ==
  ASSUME GpuInv, NEW k \in GpuTask, NEW from, NEW to, NEW x, Moves(k, from, to, x), NEW y \in streams
  PROVE  /\ Moved(OnStream, y, x, from, to) /\ Moved(Holding, y, x, from, to)
         /\ Times(candidates, y) \in Nat /\ count[y] \in Int /\ EventNum \in Nat
<1>1. GpuTypeOK /\ streams \subseteq Stream
  BY DEF GpuInv, Held
<1>2. Moved(OnStream, y, x, from, to)
  <2>1. "new" \notin OnStream /\ "waits" \notin OnStream
    BY DEF OnStream
  <2> QED BY <1>1, <2>1, OneTaskMoves
<1>3. Moved(Holding, y, x, from, to)
  <2>1. "new" \notin Holding /\ "waits" \notin Holding
    BY DEF Holding
  <2> QED BY <1>1, <2>1, OneTaskMoves
<1>4. Times(candidates, y) \in Nat
  BY <1>1, PlacesFinite DEF GpuTypeOK
<1>5. count[y] \in Int /\ EventNum \in Nat
  BY <1>1, GpuAssumption DEF GpuTypeOK
<1> QED BY <1>2, <1>3, <1>4, <1>5

(* Types and streams, for every step of a task. *)
LEMMA GpuTypes ==
  ASSUME GpuInv, NEW k \in GpuTask, NEW from, NEW to \in GpuStates, At(k, from, to), streams' = streams,
         stream' = [stream EXCEPT ![k] = stream'[k]],
         (to = "waits" /\ stream' = stream) \/ stream'[k] \in streams,
         candidates' \in Seq(streams), count' \in [Stream -> Int], stale' \in BOOLEAN
  PROVE  GpuTypeOK' /\ Held'
<1>1. /\ gstate \in [GpuTask -> GpuStates] /\ stream \in [GpuTask -> Stream \cup {NoStream}]
      /\ streams \subseteq Stream /\ \A j \in GpuTask : gstate[j] \notin {"new", "waits"} => stream[j] \in streams
  BY DEF GpuInv, GpuTypeOK, Held, GpuStates
<1>2. gstate' = [gstate EXCEPT ![k] = to]
  BY DEF At
<1>3. gstate' \in [GpuTask -> GpuStates] /\ stream' \in [GpuTask -> Stream \cup {NoStream}]
  BY <1>1, <1>2
<1>4. GpuTypeOK'
  BY <1>3 DEF GpuTypeOK, GpuStates
<1>5. \A j \in GpuTask : gstate'[j] \notin {"new", "waits"} => stream'[j] \in streams
  BY <1>1, <1>2
<1> QED BY <1>1, <1>4, <1>5 DEF Held

(* A pop gives the stream to the task. *)
LEMMA PopStep ==
  ASSUME GpuInv, NEW k \in GpuTask, get_stream(k) \/ GetDeferred(k)
  PROVE  GpuInv'
<1>1. PICK x \in streams, from \in {"new", "waits"} :
        /\ At(k, from, "got") /\ stream' = [stream EXCEPT ![k] = x] /\ stale' \in BOOLEAN
        /\ ~stale' => x = Head(candidates) /\ ~stale
  <2>1. candidates # <<>> => Head(candidates) \in streams
    BY HeadTailProperties DEF GpuInv, GpuTypeOK
  <2>2. stale \in BOOLEAN
    BY DEF GpuInv, GpuTypeOK
  <2>3. CASE get_stream(k)
    <3>1. Head(candidates) \in streams /\ stale' = stale /\ At(k, "new", "got")
          /\ stream' = [stream EXCEPT ![k] = Head(candidates)]
      BY <2>1, <2>3 DEF get_stream
    <3> QED BY <2>2, <3>1
  <2>4. CASE GetDeferred(k)
    <3>1. PICK x \in streams : stream' = [stream EXCEPT ![k] = x] /\ stale' = (stale \/ x # Head(candidates))
      BY <2>4 DEF GetDeferred
    <3>2. At(k, "waits", "got")
      BY <2>4 DEF GetDeferred
    <3>3. stale' \in BOOLEAN /\ (~stale' => x = Head(candidates) /\ ~stale)
      BY <2>2, <3>1
    <3> QED BY <3>1, <3>2, <3>3
  <2> QED BY <2>3, <2>4
<1>2. /\ candidates # <<>> /\ candidates' = Tail(candidates) /\ streams' = streams /\ count' = count
      /\ candidates \in Seq(streams) /\ count \in [Stream -> Int] /\ stream \in [GpuTask -> Stream \cup {NoStream}]
  BY DEF get_stream, GetDeferred, GpuInv, GpuTypeOK
<1>3. candidates' \in Seq(streams)
  BY <1>2, HeadTailProperties
<1>4. stream'[k] = x
  BY <1>1, <1>2
<1>5. GpuTypeOK' /\ Held'
  BY <1>1, <1>2, <1>3, <1>4, GpuTypes DEF GpuStates
<1>6. ASSUME ~stale', NEW y \in streams PROVE StreamOK(y)'
  <2>1. StreamOK(y)
    BY <1>1, <1>6 DEF GpuInv
  <2>2. /\ Moved(OnStream, y, x, from, "got") /\ Moved(Holding, y, x, from, "got")
        /\ Times(candidates, y) \in Nat /\ count[y] \in Int /\ EventNum \in Nat
    <3>1. Moves(k, from, "got", x)
      BY <1>1 DEF Moves
    <3> QED BY <3>1, Counts
  <2>3. /\ Cardinality(On(y, OnStream)') = Cardinality(On(y, OnStream))
        /\ Cardinality(On(y, Holding)') = Cardinality(On(y, Holding)) + One(y = x)
        /\ Cardinality(On(y, Holding)) \in Nat
    BY <2>2 DEF One, OnStream, Holding, Moved
  <2>4. Times(candidates, y) = Times(Tail(candidates), y) + One(Head(candidates) = y)
    BY <1>2, TimesTail
  <2>5. Times(Tail(candidates), y) \in Nat
    BY <1>2, <1>3, PlacesFinite
  <2>6. One(Head(candidates) = y) = One(y = x)
    BY <1>1, <1>6 DEF One
  <2>7. One(y = x) \in Nat
    BY DEF One
  <2>8. Times(Tail(candidates), y) + (Cardinality(On(y, Holding)) + One(y = x))
          = Times(candidates, y) + Cardinality(On(y, Holding))
    BY <2>2, <2>3, <2>4, <2>5, <2>6, <2>7
  <2>9. Times(candidates', y) = Times(Tail(candidates), y)
    BY <1>2
  <2> QED BY <1>2, <2>1, <2>3, <2>8, <2>9 DEF StreamOK
<1> QED BY <1>2, <1>5, <1>6 DEF GpuInv

(* A step of a task that has its stream. *)
LEMMA WithStream ==
  ASSUME GpuInv, NEW k \in GpuTask, NEW from \in GpuStates \ {"new", "waits"}, NEW to, At(k, from, to),
         stream' = stream
  PROVE  stream[k] \in streams /\ stream[k] \in Stream /\ Moves(k, from, to, stream[k])
<1>1. stream[k] \in streams /\ stream[k] \in Stream
  BY DEF GpuInv, Held, At
<1>2. stream' = [stream EXCEPT ![k] = stream[k]]
  BY DEF GpuInv, GpuTypeOK
<1> QED BY <1>1, <1>2 DEF Moves

(* ++count and count-- *)
LEMMA CountStep ==
  ASSUME GpuInv, NEW k \in GpuTask, Launch(k) \/ Release(k)
  PROVE  GpuInv'
<1>0. /\ candidates \in Seq(streams) /\ count \in [Stream -> Int] /\ stale \in BOOLEAN
      /\ stream \in [GpuTask -> Stream \cup {NoStream}]
  BY DEF GpuInv, GpuTypeOK
<1>1. PICK x \in Stream \cup {NoStream} : x = stream[k]
  BY <1>0
<1>2. /\ streams' = streams /\ candidates' = candidates /\ stream' = stream /\ stale' = stale
  BY DEF Launch, Release
<1>3. \/ At(k, "got", "returns") /\ count[x] + 1 < EventNum /\ count' = [count EXCEPT ![x] = @ + 1]
      \/ At(k, "got", "runs") /\ ~(count[x] + 1 < EventNum) /\ count' = [count EXCEPT ![x] = @ + 1]
      \/ At(k, "ready", "frees") /\ count[x] = EventNum /\ count' = [count EXCEPT ![x] = @ - 1]
      \/ At(k, "ready", "done") /\ count[x] # EventNum /\ count' = [count EXCEPT ![x] = @ - 1]
  BY <1>1 DEF Launch, Release, Room, WasFull
<1>4. PICK from \in {"got", "ready"}, to \in {"returns", "runs", "frees", "done"}, d \in {1, -1} :
        /\ At(k, from, to) /\ count' = [count EXCEPT ![x] = @ + d]
        /\ \/ from = "got" /\ to = "returns" /\ d = 1 /\ count[x] + 1 < EventNum
           \/ from = "got" /\ to = "runs" /\ d = 1 /\ ~(count[x] + 1 < EventNum)
           \/ from = "ready" /\ to = "frees" /\ d = -1 /\ count[x] = EventNum
           \/ from = "ready" /\ to = "done" /\ d = -1 /\ count[x] # EventNum
  <2>1. x \in Stream => count[x] \in Int
    BY <1>0
  <2>2. x \in streams /\ streams \subseteq Stream
    BY <1>1, <1>3 DEF At, GpuInv, Held
  <2>3. count[x] - 1 = count[x] + -1
    BY <2>1, <2>2
  <2> QED BY <1>3, <2>3
<1>5. from \in GpuStates \ {"new", "waits"} /\ to \in GpuStates
  BY DEF GpuStates
<1>6. x \in streams /\ x \in Stream /\ Moves(k, from, to, x)
  BY <1>1, <1>2, <1>4, <1>5, WithStream
<1>7. count' \in [Stream -> Int] /\ stream' = [stream EXCEPT ![k] = stream'[k]] /\ stream'[k] \in streams
  BY <1>0, <1>1, <1>2, <1>4, <1>6
<1>8. GpuTypeOK' /\ Held'
  BY <1>0, <1>2, <1>4, <1>5, <1>7, GpuTypes
<1>9. ASSUME ~stale', NEW y \in streams PROVE StreamOK(y)'
  <2>1. StreamOK(y)
    BY <1>2, <1>9 DEF GpuInv
  <2>2. /\ Moved(OnStream, y, x, from, to) /\ Moved(Holding, y, x, from, to)
        /\ Times(candidates, y) \in Nat /\ count[y] \in Int /\ EventNum \in Nat
    BY <1>6, Counts
  <2> DEFINE c  == Cardinality(On(y, OnStream))
             c1 == Cardinality(On(y, OnStream)')
             h  == Cardinality(On(y, Holding))
             h1 == Cardinality(On(y, Holding)')
             t  == Times(candidates, y)
  <2>3. /\ c \in Nat /\ c1 \in Nat /\ h \in Nat /\ h1 \in Nat /\ t \in Nat
        /\ c1 + One(y = x /\ from \in OnStream) = c + One(y = x /\ to \in OnStream)
        /\ h1 + One(y = x /\ from \in Holding) = h + One(y = x /\ to \in Holding)
        /\ count[y] = c /\ c <= EventNum /\ t + h = One(count[y] < EventNum)
    BY <2>1, <2>2 DEF Moved, StreamOK
  <2>4. y = x /\ from = "got" => h >= 1
    <3> SUFFICES ASSUME y = x, from = "got" PROVE h >= 1
      OBVIOUS
    <3>1. k \in On(y, Holding)
      BY <1>1, <1>4 DEF On, Holding, At
    <3> QED BY <3>1, OnFinite, CountedOne
  <2>5. count'[y] = IF y = x THEN count[y] + d ELSE count[y]
    <3>1. y \in Stream
      BY DEF GpuInv, Held
    <3> QED BY <1>0, <1>4, <1>6, <3>1
  <2> HIDE DEF c, c1, h, h1, t
  <2>6. CASE y # x
    <3>1. c1 = c /\ h1 = h /\ count'[y] = count[y]
      BY <2>3, <2>5, <2>6 DEF One
    <3>2. count'[y] = c1 /\ count'[y] <= EventNum /\ t + h1 = One(count'[y] < EventNum)
      BY <2>3, <3>1
    <3> QED BY <1>2, <3>2 DEF StreamOK, c1, h1, t
  <2>7. CASE y = x
    <3>1. count'[y] = c1 /\ count'[y] <= EventNum /\ t + h1 = One(count'[y] < EventNum)
      <4>1. CASE from = "got" /\ to = "returns" /\ d = 1 /\ count[x] + 1 < EventNum
        <5>1. c1 = c + 1 /\ h1 = h
          BY <2>3, <2>7, <4>1 DEF One, OnStream, Holding
        <5> QED BY <2>2, <2>3, <2>5, <2>7, <4>1, <5>1 DEF One
      <4>2. CASE from = "got" /\ to = "runs" /\ d = 1 /\ ~(count[x] + 1 < EventNum)
        <5>1. c1 = c + 1 /\ h1 + 1 = h
          BY <2>3, <2>7, <4>2 DEF One, OnStream, Holding
        <5> QED BY <2>2, <2>3, <2>4, <2>5, <2>7, <4>2, <5>1 DEF One
      <4>3. CASE from = "ready" /\ to = "frees" /\ d = -1 /\ count[x] = EventNum
        <5>1. c1 + 1 = c /\ h1 = h + 1
          BY <2>3, <2>7, <4>3 DEF One, OnStream, Holding
        <5> QED BY <2>2, <2>3, <2>5, <2>7, <4>3, <5>1 DEF One
      <4>4. CASE from = "ready" /\ to = "done" /\ d = -1 /\ count[x] # EventNum
        <5>1. c1 + 1 = c /\ h1 = h
          BY <2>3, <2>7, <4>4 DEF One, OnStream, Holding
        <5> QED BY <2>2, <2>3, <2>5, <2>7, <4>4, <5>1 DEF One
      <4> QED BY <1>4, <4>1, <4>2, <4>3, <4>4
    <3> QED BY <1>2, <3>1 DEF StreamOK, c1, h1, t
  <2> QED BY <2>6, <2>7
<1> QED BY <1>2, <1>8, <1>9 DEF GpuInv

(* The stream goes back into the queue. *)
LEMMA PushStep ==
  ASSUME GpuInv, NEW k \in GpuTask, ReturnStream(k) \/ FreeStream(k)
  PROVE  GpuInv'
<1>0. /\ candidates \in Seq(streams) /\ count \in [Stream -> Int] /\ stale \in BOOLEAN
      /\ stream \in [GpuTask -> Stream \cup {NoStream}]
  BY DEF GpuInv, GpuTypeOK
<1>1. PICK from \in {"returns", "frees"}, to \in {"runs", "done"} :
        At(k, from, to) /\ (to \in OnStream <=> from \in OnStream)
  BY DEF ReturnStream, FreeStream, OnStream
<1>2. /\ streams' = streams /\ candidates' = Append(candidates, stream[k]) /\ stream' = stream
      /\ stale' = stale /\ count' = count
  BY DEF ReturnStream, FreeStream
<1>3. from \in GpuStates \ {"new", "waits"} /\ to \in GpuStates
  BY DEF GpuStates
<1>4. stream[k] \in streams /\ stream[k] \in Stream /\ Moves(k, from, to, stream[k])
  BY <1>1, <1>2, <1>3, WithStream
<1>5. candidates' \in Seq(streams) /\ stream' = [stream EXCEPT ![k] = stream'[k]] /\ stream'[k] \in streams
  BY <1>0, <1>2, <1>4
<1>6. GpuTypeOK' /\ Held'
  BY <1>0, <1>1, <1>2, <1>3, <1>5, GpuTypes
<1>7. ASSUME ~stale', NEW y \in streams PROVE StreamOK(y)'
  <2>1. StreamOK(y)
    BY <1>2, <1>7 DEF GpuInv
  <2>2. /\ Moved(OnStream, y, stream[k], from, to) /\ Moved(Holding, y, stream[k], from, to)
        /\ Times(candidates, y) \in Nat /\ count[y] \in Int /\ EventNum \in Nat
    BY <1>4, Counts
  <2>3. /\ Cardinality(On(y, OnStream)') = Cardinality(On(y, OnStream))
        /\ Cardinality(On(y, Holding)') + One(y = stream[k]) = Cardinality(On(y, Holding))
        /\ Cardinality(On(y, Holding)) \in Nat /\ Cardinality(On(y, Holding)') \in Nat
    BY <1>1, <2>2 DEF One, Holding, Moved
  <2>4. Times(candidates', y) = Times(candidates, y) + One(stream[k] = y)
    BY <1>0, <1>2, <1>4, TimesAppend
  <2>5. One(stream[k] = y) = One(y = stream[k]) /\ One(y = stream[k]) \in Nat
    BY DEF One
  <2>6. Times(candidates', y) + Cardinality(On(y, Holding)') = Times(candidates, y) + Cardinality(On(y, Holding))
    <3>1. ASSUME NEW x \in Nat, NEW h \in Nat, NEW n \in Nat, NEW o \in Nat, n + o = h
          PROVE  (x + o) + n = x + h
      BY <3>1
    <3> QED BY <2>2, <2>3, <2>4, <2>5, <3>1
  <2>7. count'[y] = count[y]
    BY <1>2
  <2> QED BY <2>1, <2>3, <2>6, <2>7 DEF StreamOK
<1> QED BY <1>2, <1>6, <1>7 DEF GpuInv

(* Waiting for a stream and polling an event leave the counts alone.       *)
LEMMA QuietGpuStep ==
  ASSUME GpuInv, NEW k \in GpuTask, Defer(k) \/ PollEvent(k)
  PROVE  GpuInv'
<1>0. /\ candidates \in Seq(streams) /\ count \in [Stream -> Int] /\ stale \in BOOLEAN
      /\ stream \in [GpuTask -> Stream \cup {NoStream}]
  BY DEF GpuInv, GpuTypeOK
<1>1. /\ streams' = streams /\ candidates' = candidates /\ stream' = stream /\ stale' = stale /\ count' = count
  BY DEF Defer, PollEvent
<1>2. stream' = [stream EXCEPT ![k] = stream'[k]]
  BY <1>0, <1>1
<1>3. PICK from \in {"new", "runs"}, to \in {"waits", "ready"} :
        /\ At(k, from, to) /\ (from \in OnStream <=> to \in OnStream) /\ (from \in Holding <=> to \in Holding)
        /\ to = "waits" \/ from = "runs"
  BY DEF Defer, PollEvent, OnStream, Holding
<1>4. GpuTypeOK' /\ Held'
  <2>1. to \in GpuStates
    BY DEF GpuStates
  <2>2. (to = "waits" /\ stream' = stream) \/ stream'[k] \in streams
    BY <1>1, <1>3 DEF GpuInv, Held, At
  <2> QED BY <1>0, <1>1, <1>2, <1>3, <2>1, <2>2, GpuTypes
<1>5. ASSUME NEW y \in streams PROVE On(y, OnStream)' = On(y, OnStream) /\ On(y, Holding)' = On(y, Holding)
  <2>1. \A j \in GpuTask : j # k => gstate'[j] = gstate[j]
    BY <1>3 DEF At
  <2>2. gstate[k] = from /\ gstate'[k] = to
    BY <1>3 DEF At, GpuInv, GpuTypeOK
  <2> QED BY <1>1, <1>3, <2>1, <2>2 DEF On
<1> QED BY <1>1, <1>4, <1>5 DEF GpuInv, StreamOK

(* Every step keeps the invariant.                                         *)
LEMMA GpuStepInv == GpuInv /\ [GpuNext]_gpuVars => GpuInv'
<1> SUFFICES ASSUME GpuInv, [GpuNext]_gpuVars PROVE GpuInv'
  OBVIOUS
<1>1. ASSUME NEW k \in GpuTask, GpuStep(k) PROVE GpuInv'
  BY <1>1, PopStep, CountStep, PushStep, QuietGpuStep DEF GpuStep
<1>2. CASE UNCHANGED gpuVars
  BY <1>2 DEF gpuVars, GpuInv, GpuTypeOK, Held, StreamOK, On
<1> QED BY <1>1, <1>2 DEF GpuNext

(* However get_stream(), launches, events and releases of the shards       *)
(* interleave, a stream carries no more tasks than it may, its count is    *)
(* right, and it is in _candidates once if it has room and not otherwise,  *)
(* as long as no deferred get_stream() returned another id than it popped. *)
THEOREM GpuIsSafe == GpuSpec => []GpuSafe
<1>1. GpuInit /\ [][GpuNext]_gpuVars => []GpuInv
  BY GpuInitInv, GpuStepInv, PTL
<1> QED BY <1>1, GpuInvSafe, PTL DEF GpuSpec

=============================================================================
