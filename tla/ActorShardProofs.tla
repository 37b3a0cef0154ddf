-------------------------- MODULE ActorShardProofs --------------------------
(***************************************************************************)
(* Proofs about ActorShard, for every tree, every set of messages and      *)
(* every bound: type correctness, that only a forced stop of its target    *)
(* throws an accepted message away, and that nothing is created under a    *)
(* stopping node.                                                          *)
(***************************************************************************)
EXTENDS ActorShard, FiniteSetTheorems, TLAPS

(* The values the two scheduling variables range over, as one record. *)
SchedSet == [Node -> {"SCHEDULABLE", "SCHEDULED"}]
QueueSet == [Owner -> Seq(Node)]
ScheduleSet == [sched : SchedSet, queue : QueueSet]

(* What activate() computes is a scheduling state again. *)
LEMMA ActivateType ==
  ASSUME NEW n \in Node \cup {Root}, NEW st \in ScheduleSet
  PROVE  activate(n, st) \in ScheduleSet
<1>1. CASE n = Root
  BY <1>1 DEF activate
<1>2. CASE n # Root
  <2>1. n \in Node
    BY <1>2
  <2>2. Woken(n, st) \subseteq Node
    BY <2>1, TreeAssumption DEF Woken, Node
  <2>3. activate(n, st).sched \in SchedSet
    BY <1>2, <2>2 DEF activate, SchedSet, ScheduleSet
  <2>4. ASSUME NEW p \in Owner
        PROVE  activate(n, st).queue[p] \in Seq(Node)
    <3>1. CASE \E k \in Woken(n, st) : Parent[k] = p
      <4> DEFINE c == CHOOSE k \in Woken(n, st) : Parent[k] = p
      <4>1. c \in Node
        BY <2>2, <3>1
      <4>2. activate(n, st).queue[p] = Append(st.queue[p], c)
        BY <1>2, <3>1 DEF activate
      <4> QED BY <4>1, <4>2 DEF ScheduleSet, QueueSet
    <3>2. CASE ~\E k \in Woken(n, st) : Parent[k] = p
      <4>1. activate(n, st).queue[p] = st.queue[p]
        BY <1>2, <3>2 DEF activate
      <4> QED BY <4>1 DEF ScheduleSet, QueueSet
    <3> QED BY <3>1, <3>2
  <2>5. activate(n, st).queue \in QueueSet
    BY <1>2, <2>4 DEF activate, QueueSet
  <2>6. activate(n, st) = [sched |-> activate(n, st).sched, queue |-> activate(n, st).queue]
    BY <1>2 DEF activate
  <2> QED BY <2>3, <2>5, <2>6 DEF ScheduleSet
<1> QED BY <1>1, <1>2

(* The order in which a stopping group activates its children lists nodes. *)
LEMMA OrderType ==
  ASSUME NEW S \in SUBSET Node, NEW order \in SetToSeqs(S)
  PROVE  order \in Seq(Node)
<1>1. IsFiniteSet(S)
  BY TreeAssumption, FS_Union, FS_Subset, ZenonT(30) DEF Node
<1>2. Cardinality(S) \in Nat
  BY <1>1, FS_CardinalityType
<1>3. order \in [1..Cardinality(S) -> S]
  BY DEF SetToSeqs
<1> QED BY <1>2, <1>3

(* So does activating the children of a group one after another. *)
LEMMA ActivateAllType ==
  ASSUME NEW g \in Group, NEW order \in Seq(Node), NEW st \in ScheduleSet
  PROVE  activate_all(g, order, st) \in ScheduleSet
<1> DEFINE st2 == [sched |-> [k \in Node |-> IF k \in ToSet(order) THEN "SCHEDULED"
                                              ELSE st.sched[k]],
                   queue |-> [st.queue EXCEPT ![g] = @ \o order]]
<1>1. st2 \in ScheduleSet
  BY DEF ScheduleSet, SchedSet, QueueSet, Owner
<1>2. activate(g, st2) \in ScheduleSet
  BY <1>1, ActivateType DEF Node
<1> QED BY <1>2 DEF activate_all

(* The scheduling variables after activating a node of the current state. *)
LEMMA ScheduleType ==
  ASSUME TypeOK, NEW st \in ScheduleSet, Schedule(st)
  PROVE  sched' \in SchedSet /\ queue' \in QueueSet
BY DEF ScheduleSet, Schedule

(* The scheduling state of a well-typed shard is well typed. *)
LEMMA CurrentScheduling ==
  ASSUME TypeOK
  PROVE  /\ Scheduling \in ScheduleSet
         /\ \A n \in Node \cup {Root} : activate(n, Scheduling) \in ScheduleSet
<1>1. Scheduling \in ScheduleSet
  BY DEF TypeOK, Scheduling, ScheduleSet, SchedSet, QueueSet
<1> QED BY <1>1, ActivateType

Boxes  == [Node -> Seq(Message)]
FateSet == [Msg -> Fates]

(* Dropping the messages of a mailbox keeps the fates well typed. *)
LEMMA DropType ==
  ASSUME NEW fat \in FateSet, NEW ms
  PROVE  Drop(fat, ms) \in FateSet
BY DEF Drop, FateSet, Fates

(* actor::stop() keeps the types of what it changes. *)
LEMMA StopActorType ==
  ASSUME TypeOK, NEW a \in Actor, NEW force \in BOOLEAN, NEW box \in Boxes,
         NEW fat \in FateSet, StopActor(a, force, box, fat)
  PROVE  /\ inst' \in [Node -> {"absent", "live", "disabled"}]
         /\ status' \in [Node \cup {Root} -> {"RUNNING", "PEACE_STOPPING", "FORCE_STOPPING"}]
         /\ mailbox' \in Boxes /\ fate' \in FateSet
         /\ frames' \in Seq(Actor \cup {Root})
         /\ sched' \in SchedSet /\ queue' \in QueueSet
<1> USE DEF Boxes, SchedSet, QueueSet
<1>1. CASE inst[a] # "live" \/ status[a] # "RUNNING"
  BY <1>1 DEF TypeOK, StopActor
<1>2. CASE inst[a] = "live" /\ status[a] = "RUNNING" /\ force
  <2>1. /\ status' = [status EXCEPT ![a] = "FORCE_STOPPING"]
        /\ mailbox' = [box EXCEPT ![a] = <<>>]
        /\ fate' = Drop(fat, Ids(box[a]))
        /\ frames' = <<a>> \o frames
        /\ UNCHANGED <<inst, sched, queue>>
    BY <1>2, Zenon DEF StopActor
  <2>2. fate' \in FateSet
    BY <2>1, DropType
  <2>3. frames' \in Seq(Actor \cup {Root})
    BY <2>1 DEF TypeOK
  <2> QED BY <2>1, <2>2, <2>3 DEF TypeOK, Node
<1>3. CASE inst[a] = "live" /\ status[a] = "RUNNING" /\ ~force
  <2>1. (IF cur[a] = 0 THEN activate(a, Scheduling) ELSE Scheduling) \in ScheduleSet
    BY CurrentScheduling DEF Node
  <2>2. Schedule(IF cur[a] = 0 THEN activate(a, Scheduling) ELSE Scheduling)
    BY <1>3 DEF StopActor
  <2>3. sched' \in SchedSet /\ queue' \in QueueSet
    BY <2>1, <2>2, ScheduleType
  <2> QED BY <1>3, <2>3, ZenonT(30) DEF TypeOK, StopActor, Node
<1> QED BY <1>1, <1>2, <1>3

(* actor_group::stop() keeps the types of what it changes. *)
LEMMA StopGroupType ==
  ASSUME TypeOK, NEW g \in Group, NEW force \in BOOLEAN, NEW box \in Boxes,
         NEW fat \in FateSet, StopGroup(g, force, box, fat)
  PROVE  /\ inst' \in [Node -> {"absent", "live", "disabled"}]
         /\ status' \in [Node \cup {Root} -> {"RUNNING", "PEACE_STOPPING", "FORCE_STOPPING"}]
         /\ mailbox' \in Boxes /\ fate' \in FateSet
         /\ sched' \in SchedSet /\ queue' \in QueueSet
<1>1. CASE inst[g] # "live" \/ status[g] # "RUNNING"
  BY <1>1, ZenonT(30) DEF TypeOK, StopGroup, Boxes, SchedSet, QueueSet
<1>2. CASE inst[g] = "live" /\ status[g] = "RUNNING"
  <2> DEFINE stop_msg == [type |-> IF force THEN "FORCE_STOP" ELSE "PEACE_STOP",
                          id   |-> NoMsg]
             children == {c \in Node : Parent[c] = g /\ inst[c] = "live"}
  <2>1. stop_msg \in Message
    BY DEF Message, StopType
  <2>2. mailbox' \in Boxes
    <3>1. mailbox' = [n \in Node |->
                        IF n \in children THEN <<stop_msg>> \o box[n]
                        ELSE IF n = g /\ force THEN <<>> ELSE box[n]]
      BY <1>2 DEF StopGroup
    <3>2. ASSUME NEW n \in Node PROVE <<stop_msg>> \o box[n] \in Seq(Message)
      BY <2>1 DEF Boxes
    <3> HIDE DEF stop_msg, children
    <3> QED BY <3>1, <3>2 DEF Boxes
  <2>3. fate' \in FateSet
    BY <1>2, DropType DEF StopGroup
  <2>4. PICK order \in SetToSeqs({c \in children : sched[c] = "SCHEDULABLE"}) :
          Schedule(IF num[g] = 0 THEN activate(g, Scheduling)
                   ELSE activate_all(g, order, Scheduling))
    BY <1>2 DEF StopGroup
  <2>5. order \in Seq(Node)
    BY OrderType
  <2>6. (IF num[g] = 0 THEN activate(g, Scheduling)
         ELSE activate_all(g, order, Scheduling)) \in ScheduleSet
    BY <2>5, CurrentScheduling, ActivateAllType, ZenonT(30) DEF Node
  <2>7. sched' \in SchedSet /\ queue' \in QueueSet
    BY <2>4, <2>6, ScheduleType
  <2>8. /\ status' = [status EXCEPT ![g] = IF force THEN "FORCE_STOPPING"
                                            ELSE "PEACE_STOPPING"]
        /\ inst' = [inst EXCEPT ![g] = "disabled"]
    BY <1>2 DEF StopGroup
  <2> QED BY <2>2, <2>3, <2>7, <2>8 DEF TypeOK, Node
<1> QED BY <1>1, <1>2

(* What the end of a continuation changes keeps its type. *)
LEMMA SuspendType ==
  ASSUME TypeOK, NEW m \in Msg, NEW x \in Node \cup {Root}, Suspend(m, x)
  PROVE  /\ hops' \in [Msg -> 0..MaxHops] /\ ec' \in [Msg -> Node \cup {Root}]
         /\ fate' \in FateSet /\ UNCHANGED dest
         /\ sched' \in SchedSet /\ queue' \in QueueSet
<1>1. activate(x, Scheduling) \in ScheduleSet
  BY CurrentScheduling
<1>2. sched' \in SchedSet /\ queue' \in QueueSet
  <2>1. CASE UNCHANGED <<sched, queue>>
    BY <2>1 DEF TypeOK, SchedSet, QueueSet
  <2>2. CASE Schedule(activate(x, Scheduling))
    BY <1>1, <2>2, ScheduleType
  <2> QED BY <2>1, <2>2 DEF Suspend
<1>3. hops' \in [Msg -> 0..MaxHops]
  BY MessageAssumption DEF TypeOK, Suspend
<1> QED BY <1>2, <1>3, ZenonT(30) DEF TypeOK, Suspend, FateSet, Fates

(* Handing a chain back to its own actor keeps its type. *)
LEMMA HandBackType ==
  ASSUME TypeOK, NEW m \in Msg, HandBack(m)
  PROVE  /\ ec' \in [Msg -> Node \cup {Root}] /\ fate' \in FateSet
         /\ UNCHANGED <<dest, hops>>
         /\ sched' \in SchedSet /\ queue' \in QueueSet
<1>1. dest[m] \in Node \cup {Root}
  BY DEF TypeOK
<1>2. sched' \in SchedSet /\ queue' \in QueueSet
  BY <1>1, CurrentScheduling, ScheduleType DEF HandBack
<1> QED BY <1>1, <1>2 DEF TypeOK, HandBack, FateSet, Fates

(* A message ends answered or done. *)
LEMMA FinishedType == \A m \in Msg : Finished(m) \in {"answered", "done"}
BY DEF Finished

(* post_work_func() of an actor keeps the types of what it changes. *)
LEMMA EndTaskType ==
  ASSUME TypeOK, NEW a \in Actor, NEW m \in Msg, EndTask(a, m)
  PROVE  /\ inst' \in [Node -> {"absent", "live", "disabled"}]
         /\ status' \in [Node \cup {Root} -> {"RUNNING", "PEACE_STOPPING", "FORCE_STOPPING"}]
         /\ mailbox' \in Boxes /\ fate' \in FateSet
         /\ frames' \in Seq(Actor \cup {Root})
         /\ sched' \in SchedSet /\ queue' \in QueueSet
         /\ cur' \in [Actor -> Int] /\ ec' \in [Msg -> Node \cup {Root}]
         /\ UNCHANGED <<dest, hops>>
<1>1. CASE dest[m] # a
  <2>1. HandBack(m) /\ UNCHANGED <<inst, status, mailbox, cur, frames>>
    BY <1>1 DEF EndTask
  <2> QED BY <2>1, HandBackType DEF TypeOK, Boxes
<1>2. CASE dest[m] = a
  <2> DEFINE fat == [fate EXCEPT ![m] = Finished(m)]
  <2>1. fat \in FateSet
    BY FinishedType DEF TypeOK, FateSet, Fates
  <2>2. cur' \in [Actor -> Int] /\ UNCHANGED <<dest, ec, hops>>
    BY <1>2 DEF TypeOK, EndTask
  <2>3. CASE m \in Quit
    <3>1. StopActor(a, TRUE, mailbox, fat)
      BY <1>2, <2>3, ZenonT(30) DEF EndTask
    <3>2. mailbox \in Boxes
      BY DEF TypeOK, Boxes
    <3> HIDE DEF fat
    <3> QED BY <2>1, <2>2, <3>1, <3>2, StopActorType, ZenonT(30) DEF TypeOK
  <2>4. CASE m \notin Quit
    <3>1. fate' = fat /\ UNCHANGED <<inst, status, mailbox, sched, queue, frames>>
      BY <1>2, <2>4 DEF EndTask
    <3> HIDE DEF fat
    <3> QED BY <2>1, <2>2, <3>1 DEF TypeOK, Boxes, SchedSet, QueueSet
  <2> QED BY <2>3, <2>4
<1> QED BY <1>1, <1>2

PcSet == [Node -> {"idle", "mail", "tasks", "intask", "inwork", "inchild", "final"}]

(* The first element and the rest of a sequence that is not empty. *)
LEMMA HeadTail ==
  ASSUME NEW S, NEW s \in Seq(S), s # <<>>
  PROVE  Head(s) \in S /\ Tail(s) \in Seq(S)
OBVIOUS

(* Mailboxes after a node took the first message of its own. *)
LEMMA TailBoxes ==
  ASSUME TypeOK, NEW n \in Node, mailbox[n] # <<>>
  PROVE  [mailbox EXCEPT ![n] = Tail(@)] \in Boxes
<1>1. mailbox \in Boxes
  BY DEF TypeOK, Boxes
<1>2. Tail(mailbox[n]) \in Seq(Message)
  BY <1>1, HeadTail DEF Boxes
<1> QED BY <1>1, <1>2 DEF Boxes

(* Task queues after the first task of p was taken. *)
LEMMA TailQueues ==
  ASSUME TypeOK, NEW p \in Owner, queue[p] # <<>>
  PROVE  [queue EXCEPT ![p] = Tail(@)] \in QueueSet /\ Head(queue[p]) \in Node
<1>1. queue \in QueueSet
  BY DEF TypeOK, QueueSet
<1>2. Head(queue[p]) \in Node /\ Tail(queue[p]) \in Seq(Node)
  BY <1>1, HeadTail DEF QueueSet
<1> QED BY <1>1, <1>2 DEF QueueSet

(* notify_child_stopped() keeps the counts typed. *)
LEMMA NotifyType ==
  ASSUME TypeOK, NEW p \in Owner, NotifyChildStopped(p)
  PROVE  num' \in [Owner -> Int] /\ exits' \in Nat
<1>1. num \in [Owner -> Int] /\ exits \in Nat
  BY DEF TypeOK
<1> QED BY <1>1 DEF NotifyChildStopped

(* A node that moves to a label outside user code. *)
LEMMA PcStep ==
  ASSUME TypeOK, NEW n \in Node, NEW l \in {"mail", "tasks", "final"},
         pc' = [pc EXCEPT ![n] = l], UNCHANGED job
  PROVE  /\ pc' \in PcSet
         /\ \A b \in Actor : pc'[b] \in {"intask", "inwork"} => job'[b] # NoMsg
<1>1. pc \in PcSet /\ \A b \in Actor : pc[b] \in {"intask", "inwork"} => job[b] # NoMsg
  BY DEF TypeOK, PcSet
<1> QED BY <1>1 DEF PcSet, Node

(* An actor that leaves user code. *)
LEMMA LeaveUserCode ==
  ASSUME TypeOK, NEW a \in Actor, NEW l \in {"mail", "tasks", "final"},
         pc' = [pc EXCEPT ![a] = l], job' = [job EXCEPT ![a] = NoMsg]
  PROVE  /\ pc' \in PcSet /\ job' \in [Actor -> Msg \cup {NoMsg}]
         /\ \A b \in Actor : pc'[b] \in {"intask", "inwork"} => job'[b] # NoMsg
<1>1. /\ pc \in PcSet /\ job \in [Actor -> Msg \cup {NoMsg}]
      /\ \A b \in Actor : pc[b] \in {"intask", "inwork"} => job[b] # NoMsg
  BY DEF TypeOK, PcSet
<1> QED BY <1>1 DEF PcSet, Node

(* An actor that enters user code for the message m. *)
LEMMA EnterUserCode ==
  ASSUME TypeOK, NEW a \in Actor, NEW m \in Msg, NEW l \in {"intask", "inwork"},
         pc' = [pc EXCEPT ![a] = l], job' = [job EXCEPT ![a] = m]
  PROVE  /\ pc' \in PcSet /\ job' \in [Actor -> Msg \cup {NoMsg}]
         /\ \A b \in Actor : pc'[b] \in {"intask", "inwork"} => job'[b] # NoMsg
<1>1. /\ pc \in PcSet /\ job \in [Actor -> Msg \cup {NoMsg}]
      /\ \A b \in Actor : pc[b] \in {"intask", "inwork"} => job[b] # NoMsg
  BY DEF TypeOK, PcSet
<1> QED BY <1>1, MessageAssumption DEF PcSet, Node

(* A node that returns leaves no other actor's place changed. *)
LEMMA ReturnType ==
  ASSUME TypeOK, NEW n \in Node, Return(n)
  PROVE  /\ pc' \in PcSet
         /\ \A a \in Actor : pc'[a] \in {"intask", "inwork"} => pc[a] = pc'[a]
<1>1. PICK l \in {"tasks", "final"} :
        pc' = [k \in Node |-> IF k = n THEN "idle"
                              ELSE IF k = Parent[n] THEN l ELSE pc[k]]
  BY DEF Return
<1> QED BY <1>1 DEF TypeOK, PcSet, Node

-----------------------------------------------------------------------------
(***************************************************************************)
(* Type correctness.                                                       *)
(***************************************************************************)
(* receive() keeps the types, stop messages for the root included. *)
LEMMA TypeReceive ==
  ASSUME TypeOK, Receive
  PROVE  TypeOK'
<1> USE DEF FateSet, SchedSet, QueueSet
<1> PICK m \in Msg :
      \/ \E d \in Node : ReceiveRefused(m, d)
      \/ \E a \in Actor : ReceiveUser(m, a)
      \/ \E g \in Group, type \in StopType : ReceiveStop(m, g, type)
      \/ \E type \in ExitType : ReceiveExit(m, type)
  BY DEF Receive
<1>1. ASSUME NEW d \in Node, ReceiveRefused(m, d) PROVE TypeOK'
  BY <1>1, FinishedType DEF TypeOK, ReceiveRefused, tree, stack, Fates
<1>2. ASSUME NEW d \in Node, NEW type \in {"USER"} \cup StopType, Accept(m, d, type)
      PROVE  TypeOK'
  <2> DEFINE new == {k \in Route(d) : inst[k] = "absent"}
  <2>1. new \subseteq Node
    BY TreeAssumption DEF Route, Node
  <2>2. inst' \in [Node -> {"absent", "live", "disabled"}] /\ alive' \subseteq Node
        /\ num' \in [Owner -> Int]
    <3>1. /\ inst' = [k \in Node |-> IF k \in new THEN "live" ELSE inst[k]]
          /\ alive' = alive \cup new
          /\ num' = [p \in Owner |-> IF \E k \in new : Parent[k] = p
                                      THEN num[p] + 1 ELSE num[p]]
      BY <1>2 DEF Accept
    <3> HIDE DEF new
    <3> QED BY <2>1, <3>1 DEF TypeOK
  <2>3. sched' \in SchedSet /\ queue' \in QueueSet
    BY <1>2, CurrentScheduling, ScheduleType DEF Accept
  <2>4. [type |-> type, id |-> m] \in Message
    BY DEF Message
  <2>5. mailbox' \in [Node -> Seq(Message)]
    BY <1>2, <2>4 DEF Accept, TypeOK
  <2>6. fate' \in FateSet /\ dest' \in [Msg -> Node \cup {Root}]
    BY <1>2 DEF Accept, TypeOK, Fates
  <2>7. UNCHANGED <<status, cur, cancel, stack, ec, hops, exits>>
    BY <1>2, ZenonT(30) DEF Accept
  <2> QED BY <2>2, <2>3, <2>5, <2>6, <2>7 DEF TypeOK, stack
<1>3. ASSUME NEW a \in Actor, ReceiveUser(m, a) PROVE TypeOK'
  BY <1>2, <1>3 DEF ReceiveUser, Node
<1>4. ASSUME NEW g \in Group, NEW type \in StopType, ReceiveStop(m, g, type) PROVE TypeOK'
  BY <1>2, <1>4, ZenonT(30) DEF ReceiveStop, Node
<1>5. ASSUME NEW type \in ExitType, ReceiveExit(m, type) PROVE TypeOK'
  <2>1. fate' \in FateSet
    BY <1>5 DEF ReceiveExit, TypeOK, Fates
  <2>2. status' \in [Node \cup {Root} -> {"RUNNING", "PEACE_STOPPING", "FORCE_STOPPING"}]
        /\ frames' \in Seq(Actor \cup {Root}) /\ left' \subseteq Node
    <3>1. CASE status[Root] # "RUNNING"
      BY <1>5, <3>1 DEF ReceiveExit, TypeOK
    <3>2. CASE status[Root] = "RUNNING"
      <4>1. frames' = <<Root>> \o frames /\ left' \subseteq Node
        BY <1>5, <3>2, ZenonT(30) DEF ReceiveExit
      <4>2. frames' \in Seq(Actor \cup {Root})
        BY <4>1 DEF TypeOK
      <4> QED BY <1>5, <3>2, <4>1, <4>2, ZenonT(30) DEF ReceiveExit, TypeOK
    <3> QED BY <3>1, <3>2
  <2>3. UNCHANGED <<tree, sched, mailbox, queue, cur, cancel, pc, job, cjob, dest, ec,
                    hops, exits>>
    BY <1>5, ZenonT(30) DEF ReceiveExit
  <2> QED BY <2>1, <2>2, <2>3 DEF TypeOK, tree
<1> QED BY <1>1, <1>3, <1>4, <1>5

(* actor::clean_task_queue() keeps the types. *)
LEMMA TypeClean ==
  ASSUME TypeOK, NEW a \in Actor,
         \/ \E m \in Msg : CleanTakeTask(a, m)
         \/ CleanSuspend(a) \/ CleanComplete(a) \/ CleanDone(a)
  PROVE  TypeOK'
<1> USE DEF FateSet, SchedSet, QueueSet, Boxes
<1>1. ASSUME NEW m \in Msg, CleanTakeTask(a, m) PROVE TypeOK'
  BY <1>1 DEF TypeOK, CleanTakeTask, tree, Fates
<1>2. CASE CleanSuspend(a)
  <2>1. cjob[a] \in Msg /\ LocalContext \in Node \cup {Root}
    BY <1>2 DEF TypeOK, CleanSuspend, LocalContext, Node
  <2>2. Suspend(cjob[a], LocalContext)
    BY <1>2 DEF CleanSuspend
  <2>3. /\ cjob' = [cjob EXCEPT ![a] = NoMsg]
        /\ UNCHANGED <<tree, status, mailbox, cur, cancel, pc, job, frames, left, exits>>
    BY <1>2 DEF CleanSuspend
  <2> QED BY <2>1, <2>2, <2>3, SuspendType DEF TypeOK, tree
<1>3. CASE CleanComplete(a)
  <2>1. cjob[a] \in Msg /\ EndTask(a, cjob[a])
    BY <1>3 DEF TypeOK, CleanComplete
  <2>2. /\ cjob' = [cjob EXCEPT ![a] = NoMsg]
        /\ UNCHANGED <<alive, num, cancel, pc, job, left, exits>>
    BY <1>3 DEF CleanComplete
  <2> QED BY <2>1, <2>2, EndTaskType, ZenonT(30) DEF TypeOK
<1>4. CASE CleanDone(a)
  <2>1. sched' \in SchedSet /\ queue' \in QueueSet
    BY <1>4, CurrentScheduling, ScheduleType, ZenonT(30) DEF CleanDone, Node
  <2>2. inst' \in [Node -> {"absent", "live", "disabled"}]
    BY <1>4, ZenonT(30) DEF CleanDone, TypeOK
  <2>3. frames' \in Seq(Actor \cup {Root})
    BY <1>4 DEF CleanDone, TypeOK, InClean
  <2>4. UNCHANGED <<alive, num, status, mailbox, cur, cancel, pc, job, cjob, left,
                    chain, exits>>
    BY <1>4 DEF CleanDone
  <2> QED BY <2>1, <2>2, <2>3, <2>4 DEF TypeOK, chain
<1> QED BY <1>1, <1>2, <1>3, <1>4

(* run_and_dispose() of an actor keeps the types. *)
LEMMA TypeActorRun ==
  ASSUME TypeOK, NEW a \in Actor,
         \/ \E m \in Msg : ActorTakeTask(a, m)
         \/ ActorTaskSuspends(a) \/ ActorTaskCompletes(a)
         \/ ActorAtLimit(a) \/ ActorTasksDone(a)
         \/ ActorTakeUser(a) \/ ActorTakeStop(a)
         \/ ActorWorkSuspends(a) \/ ActorWorkCompletes(a)
         \/ ActorDelete(a) \/ ActorYield(a)
  PROVE  TypeOK'
<1> USE DEF FateSet, SchedSet, QueueSet, Boxes, PcSet
<1>0. a \in Node /\ Parent[a] \in Owner
  BY TreeAssumption DEF Node
<1>1. ASSUME NEW m \in Msg, ActorTakeTask(a, m) PROVE TypeOK'
  <2>1. /\ pc' \in PcSet /\ job' \in [Actor -> Msg \cup {NoMsg}]
        /\ \A b \in Actor : pc'[b] \in {"intask", "inwork"} => job'[b] # NoMsg
    <3> HIDE DEF PcSet
    <3> QED BY <1>1, EnterUserCode, ZenonT(30) DEF ActorTakeTask
  <2>2. fate' \in FateSet
    BY <1>1 DEF TypeOK, ActorTakeTask, Fates
  <2> QED BY <1>1, <2>1, <2>2, ZenonT(30) DEF TypeOK, ActorTakeTask, tree
<1>2. CASE ActorTaskSuspends(a)
  <2>1. job[a] \in Msg
    BY <1>2 DEF TypeOK, ActorTaskSuspends, At
  <2>2. Suspend(job[a], a)
    BY <1>2 DEF ActorTaskSuspends
  <2>3. /\ \E l \in {"tasks", "final"} : pc' = [pc EXCEPT ![a] = l]
        /\ job' = [job EXCEPT ![a] = NoMsg]
        /\ UNCHANGED <<tree, status, mailbox, cur, cancel, frames, cjob, left, exits>>
    BY <1>2, ZenonT(30) DEF ActorTaskSuspends
  <2>4. /\ pc' \in PcSet /\ job' \in [Actor -> Msg \cup {NoMsg}]
        /\ \A b \in Actor : pc'[b] \in {"intask", "inwork"} => job'[b] # NoMsg
    <3>1. PICK l \in {"tasks", "final"} : pc' = [pc EXCEPT ![a] = l]
      BY <2>3, ZenonT(30)
    <3> HIDE DEF PcSet
    <3> QED BY <2>3, <3>1, LeaveUserCode, ZenonT(30)
  <2> QED BY <1>0, <2>1, <2>2, <2>3, <2>4, SuspendType DEF TypeOK, tree
<1>3. CASE ActorTaskCompletes(a)
  <2>1. job[a] \in Msg
    BY <1>3 DEF TypeOK, ActorTaskCompletes, At
  <2>2. EndTask(a, job[a])
    BY <1>3 DEF ActorTaskCompletes
  <2>3. /\ \E l \in {"tasks", "final"} : pc' = [pc EXCEPT ![a] = l]
        /\ job' = [job EXCEPT ![a] = NoMsg]
        /\ UNCHANGED <<alive, num, cancel, cjob, left, exits>>
    BY <1>3, ZenonT(30) DEF ActorTaskCompletes
  <2>4. pc' \in PcSet /\ \A b \in Actor : pc'[b] \in {"intask", "inwork"} => job'[b] # NoMsg
    BY <1>0, <2>3 DEF TypeOK
  <2>5. job' \in [Actor -> Msg \cup {NoMsg}]
    BY <2>3 DEF TypeOK
  <2> QED BY <2>1, <2>2, <2>3, <2>4, <2>5, EndTaskType, ZenonT(30) DEF TypeOK
<1>4. CASE ActorAtLimit(a)
  BY <1>0, <1>4, ReturnType, ZenonT(30) DEF TypeOK, ActorAtLimit, tree, chain
<1>5. CASE ActorTasksDone(a)
  <2>1. pc' \in PcSet /\ \A b \in Actor : pc'[b] \in {"intask", "inwork"} => job'[b] # NoMsg
    <3> HIDE DEF PcSet
    <3> QED BY <1>0, <1>5, PcStep, ZenonT(30) DEF ActorTasksDone
  <2> QED BY <1>5, <2>1 DEF TypeOK, ActorTasksDone, tree, chain
<1>6. CASE ActorTakeUser(a)
  <2> DEFINE m == Head(mailbox[a]).id
  <2>1. Head(mailbox[a]) \in Message /\ Tail(mailbox[a]) \in Seq(Message)
    <3>1. mailbox[a] \in Seq(Message)
      BY <1>0 DEF TypeOK
    <3>2. mailbox[a] # <<>>
      BY <1>6 DEF ActorTakeUser
    <3> QED BY <3>1, <3>2, HeadTail
  <2>2. m \in Msg
    BY <1>6, <2>1 DEF ActorTakeUser, Message, StopType
  <2>3. /\ job' = [job EXCEPT ![a] = m] /\ ec' = [ec EXCEPT ![m] = a]
        /\ fate' = [fate EXCEPT ![m] = "running"]
        /\ mailbox' = [mailbox EXCEPT ![a] = Tail(@)]
        /\ pc' = [pc EXCEPT ![a] = "inwork"]
        /\ UNCHANGED <<tree, sched, status, queue, cur, cancel, frames, cjob, left, dest,
                       hops, exits>>
    BY <1>6, ZenonT(30) DEF ActorTakeUser
  <2> HIDE DEF m
  <2>4. /\ pc' \in PcSet /\ job' \in [Actor -> Msg \cup {NoMsg}]
        /\ \A b \in Actor : pc'[b] \in {"intask", "inwork"} => job'[b] # NoMsg
    <3> HIDE DEF PcSet
    <3> QED BY <2>2, <2>3, EnterUserCode, ZenonT(30)
  <2>5. mailbox' \in Boxes
    BY <1>0, <2>1, <2>3 DEF TypeOK
  <2>6. fate' \in FateSet /\ ec' \in [Msg -> Node \cup {Root}]
    BY <1>0, <2>2, <2>3 DEF TypeOK, Fates
  <2> QED BY <2>3, <2>4, <2>5, <2>6 DEF TypeOK, tree
<1>7. CASE ActorTakeStop(a)
  <2> DEFINE box == [mailbox EXCEPT ![a] = Tail(@)]
             force == Head(mailbox[a]).type = "FORCE_STOP"
  <2>1. box \in Boxes /\ force \in BOOLEAN /\ fate \in FateSet
    <3>1. mailbox[a] # <<>>
      BY <1>7, ZenonT(30) DEF ActorTakeStop
    <3>2. box \in Boxes
      BY <1>0, <3>1, TailBoxes
    <3> QED BY <3>2 DEF TypeOK
  <2>2. StopActor(a, force, box, fate)
    BY <1>7, ZenonT(30) DEF ActorTakeStop
  <2>3. /\ \E l \in {"mail", "final"} : pc' = [pc EXCEPT ![a] = l]
        /\ UNCHANGED <<alive, num, cur, cancel, job, cjob, left, dest, ec, hops, exits>>
    BY <1>7, ZenonT(30) DEF ActorTakeStop
  <2>4. pc' \in PcSet /\ \A b \in Actor : pc'[b] \in {"intask", "inwork"} => job'[b] # NoMsg
    BY <1>0, <2>3 DEF TypeOK
  <2> HIDE DEF box, force
  <2> QED BY <2>1, <2>2, <2>3, <2>4, StopActorType, ZenonT(30) DEF TypeOK
<1>8. CASE ActorWorkSuspends(a)
  <2>1. job[a] \in Msg
    BY <1>8 DEF TypeOK, ActorWorkSuspends, At
  <2>2. Suspend(job[a], a)
    BY <1>8 DEF ActorWorkSuspends
  <2>3. /\ cur' = [cur EXCEPT ![a] = @ + 1]
        /\ \E l \in {"mail", "final"} : pc' = [pc EXCEPT ![a] = l]
        /\ job' = [job EXCEPT ![a] = NoMsg]
        /\ UNCHANGED <<tree, status, mailbox, cancel, frames, cjob, left, exits>>
    BY <1>8, ZenonT(30) DEF ActorWorkSuspends, AfterSuspend
  <2>4. /\ pc' \in PcSet /\ job' \in [Actor -> Msg \cup {NoMsg}]
        /\ \A b \in Actor : pc'[b] \in {"intask", "inwork"} => job'[b] # NoMsg
    <3>1. PICK l \in {"mail", "final"} : pc' = [pc EXCEPT ![a] = l]
      BY <2>3, ZenonT(30)
    <3> HIDE DEF PcSet
    <3> QED BY <2>3, <3>1, LeaveUserCode, ZenonT(30)
  <2>5. cur' \in [Actor -> Int]
    BY <2>3 DEF TypeOK
  <2> QED BY <1>0, <2>1, <2>2, <2>3, <2>4, <2>5, SuspendType DEF TypeOK, tree
<1>9. CASE ActorWorkCompletes(a)
  <2> DEFINE fat == [fate EXCEPT ![job[a]] = Finished(job[a])]
  <2>1. job[a] \in Msg
    BY <1>9 DEF TypeOK, ActorWorkCompletes, At
  <2>2. fat \in FateSet /\ mailbox \in Boxes
    BY <2>1, FinishedType DEF TypeOK, Fates
  <2>3. /\ \E l \in {"mail", "final"} : pc' = [pc EXCEPT ![a] = l]
        /\ job' = [job EXCEPT ![a] = NoMsg]
        /\ UNCHANGED <<alive, num, cur, cancel, cjob, left, dest, ec, hops, exits>>
    BY <1>9, ZenonT(30) DEF ActorWorkCompletes
  <2>4. pc' \in PcSet /\ \A b \in Actor : pc'[b] \in {"intask", "inwork"} => job'[b] # NoMsg
    BY <1>0, <2>3, SMTT(30) DEF TypeOK
  <2>5. job' \in [Actor -> Msg \cup {NoMsg}]
    BY <2>3 DEF TypeOK
  <2>6. CASE StopActor(a, TRUE, mailbox, fat)
    <3> HIDE DEF fat
    <3> QED BY <2>2, <2>3, <2>4, <2>5, <2>6, StopActorType, ZenonT(30) DEF TypeOK
  <2>7. CASE fate' = fat /\ UNCHANGED <<inst, status, mailbox, sched, queue, frames>>
    <3> HIDE DEF fat
    <3> QED BY <2>2, <2>3, <2>4, <2>5, <2>7 DEF TypeOK
  <2> QED BY <1>9, <2>6, <2>7, ZenonT(30) DEF ActorWorkCompletes
<1>10. CASE ActorDelete(a)
  <2>1. fate' \in FateSet
    BY <1>10, DropType, ZenonT(30) DEF ActorDelete, TypeOK
  <2>2. num' \in [Owner -> Int] /\ exits' \in Nat
    BY <1>0, <1>10, NotifyType, ZenonT(30) DEF ActorDelete
  <2>3. /\ alive' = alive \ {a} /\ Return(a)
        /\ UNCHANGED <<inst, sched, status, mailbox, queue, cur, cancel, job, frames,
                       cjob, left, dest, ec, hops>>
    BY <1>10, ZenonT(30) DEF ActorDelete
  <2> QED BY <1>0, <2>1, <2>2, <2>3, ReturnType DEF TypeOK
<1>11. CASE ActorYield(a)
  <2> DEFINE st == [Scheduling EXCEPT !.sched[a] = "SCHEDULABLE"]
  <2>1. st \in ScheduleSet
    BY <1>0, ZenonT(30) DEF Scheduling, ScheduleSet, TypeOK
  <2>2. activate(a, st) \in ScheduleSet
    BY <1>0, <2>1, ActivateType
  <2>3. sched' \in SchedSet /\ queue' \in QueueSet
    BY <1>11, <2>1, <2>2, ScheduleType DEF ActorYield
  <2>4. /\ Return(a)
        /\ UNCHANGED <<tree, status, mailbox, cur, cancel, job, frames, cjob, left,
                       chain, exits>>
    BY <1>11 DEF ActorYield
  <2> QED BY <1>0, <2>3, <2>4, ReturnType DEF TypeOK, tree, chain
<1> QED BY <1>1, <1>2, <1>3, <1>4, <1>5, <1>6, <1>7, <1>8, <1>9, <1>10, <1>11

(* run_and_dispose() of a group keeps the types. *)
LEMMA TypeGroupRun ==
  ASSUME TypeOK, NEW g \in Group, GroupStep(g)
  PROVE  TypeOK'
<1> USE DEF FateSet, SchedSet, QueueSet, Boxes, PcSet
<1>0. g \in Node /\ g \in Owner /\ g \notin Actor /\ Parent[g] \in Owner
  BY TreeAssumption DEF Node, Owner
<1>1. CASE GroupProcessMessage(g)
  <2> DEFINE msg == Head(mailbox[g])
             m   == PromiseOf(msg)
             fat == [k \in Msg |-> IF k = m THEN "held"
                                   ELSE IF k = msg.id THEN "done"
                                   ELSE IF k = cancel[g] THEN "superseded" ELSE fate[k]]
             box == [mailbox EXCEPT ![g] = Tail(@)]
             force == msg.type = "FORCE_STOP"
  <2>1. box \in Boxes
    <3>1. mailbox[g] # <<>>
      BY <1>1, ZenonT(30) DEF GroupProcessMessage
    <3> QED BY <1>0, <3>1, TailBoxes
  <2>2. fat \in FateSet /\ force \in BOOLEAN
    BY DEF TypeOK, Fates
  <2>3. StopGroup(g, force, box, fat) /\ cancel' = [cancel EXCEPT ![g] = m]
    BY <1>1, ZenonT(30) DEF GroupProcessMessage
  <2>4. /\ \E l \in {"mail", "final"} : pc' = [pc EXCEPT ![g] = l]
        /\ UNCHANGED <<alive, num, cur, job, frames, cjob, left, dest, ec, hops, exits>>
    BY <1>1, ZenonT(30) DEF GroupProcessMessage
  <2>5. m \in Requests \cup {NoMsg}
    BY DEF PromiseOf
  <2>6. pc' \in PcSet /\ \A b \in Actor : pc'[b] \in {"intask", "inwork"} => job'[b] # NoMsg
    <3>1. PICK l \in {"mail", "final"} : pc' = [pc EXCEPT ![g] = l]
      BY <2>4, ZenonT(30)
    <3> HIDE DEF PcSet
    <3> QED BY <1>0, <2>4, <3>1, PcStep, ZenonT(30)
  <2> HIDE DEF msg, m, fat, box, force
  <2>7. cancel' \in [Group -> Requests \cup {NoMsg}]
    BY <2>3, <2>5 DEF TypeOK
  <2>8. /\ inst' \in [Node -> {"absent", "live", "disabled"}]
        /\ status' \in [Node \cup {Root} -> {"RUNNING", "PEACE_STOPPING", "FORCE_STOPPING"}]
        /\ mailbox' \in Boxes /\ fate' \in FateSet
        /\ sched' \in SchedSet /\ queue' \in QueueSet
    BY <2>1, <2>2, <2>3, StopGroupType, ZenonT(30)
  <2> QED BY <2>4, <2>6, <2>7, <2>8 DEF TypeOK
<1>2. CASE GroupMailDone(g)
  <2>1. pc' \in PcSet /\ \A b \in Actor : pc'[b] \in {"intask", "inwork"} => job'[b] # NoMsg
    <3> HIDE DEF PcSet
    <3> QED BY <1>0, <1>2, PcStep, ZenonT(30) DEF GroupMailDone
  <2> QED BY <1>2, <2>1 DEF TypeOK, GroupMailDone, tree, chain
<1>3. CASE GroupRunChild(g)
  <2>1. queue' \in QueueSet
    BY <1>0, <1>3, TailQueues, ZenonT(30) DEF GroupRunChild
  <2>2. Head(queue[g]) \in Node
    BY <1>0, <1>3, TailQueues DEF GroupRunChild
  <2>3. pc' \in PcSet /\ \A b \in Actor : pc'[b] \in {"intask", "inwork"} => job[b] # NoMsg
    <3> DEFINE c == Head(queue[g])
               e == Enter(c)
    <3>1. pc' = [pc EXCEPT ![g] = "inchild", ![c] = e]
      BY <1>3 DEF GroupRunChild
    <3>2. e \in {"tasks", "mail"}
      BY DEF Enter
    <3> HIDE DEF c, e
    <3>3. pc \in PcSet /\ \A b \in Actor : pc[b] \in {"intask", "inwork"} => job[b] # NoMsg
      BY DEF TypeOK
    <3>4. c \in Node
      BY <2>2 DEF c
    <3>5. pc' \in PcSet
      BY <1>0, <3>1, <3>2, <3>3, <3>4
    <3>6. \A b \in Actor : pc'[b] = (IF b = c THEN e ELSE pc[b])
      BY <1>0, <3>1, <3>3, <3>4 DEF Node
    <3> QED BY <3>2, <3>3, <3>5, <3>6
  <2> QED BY <1>3, <2>1, <2>3, ZenonT(30) DEF TypeOK, GroupRunChild, tree, chain
<1>4. CASE GroupDelete(g)
  <2>1. fate' \in FateSet
    BY <1>4 DEF GroupDelete, TypeOK, Fates
  <2>2. num' \in [Owner -> Int] /\ exits' \in Nat
    BY <1>0, <1>4, NotifyType, ZenonT(30) DEF GroupDelete
  <2>3. /\ alive' = alive \ {g} /\ Return(g)
        /\ UNCHANGED <<inst, sched, status, mailbox, queue, cur, cancel, job, frames,
                       cjob, left, dest, ec, hops>>
    BY <1>4, ZenonT(30) DEF GroupDelete
  <2> QED BY <1>0, <2>1, <2>2, <2>3, ReturnType, ZenonT(30) DEF TypeOK
<1>5. CASE GroupYield(g)
  <2> DEFINE st == [Scheduling EXCEPT !.sched[g] = "SCHEDULABLE"]
  <2>1. st \in ScheduleSet
    BY <1>0, ZenonT(30) DEF Scheduling, ScheduleSet, TypeOK
  <2>2. activate(g, st) \in ScheduleSet
    BY <1>0, <2>1, ActivateType
  <2>3. sched' \in SchedSet /\ queue' \in QueueSet
    BY <1>5, <2>1, <2>2, ScheduleType DEF GroupYield
  <2>4. /\ Return(g)
        /\ UNCHANGED <<tree, status, mailbox, cur, cancel, job, frames, cjob, left,
                       chain, exits>>
    BY <1>5 DEF GroupYield
  <2> QED BY <1>0, <2>3, <2>4, ReturnType, ZenonT(30) DEF TypeOK, tree, chain
<1> QED BY <1>1, <1>2, <1>3, <1>4, <1>5 DEF GroupStep

(* stop_actor_system(), the loop of the reactor and resumed chains keep them. *)
LEMMA TypeRoot ==
  ASSUME TypeOK,
         \/ ReactorRun \/ StopSystemDone
         \/ \E c \in Node : StopNextChild(c)
         \/ \E m \in Msg : ResumeChain(m) \/ ReactorRunChain(m)
  PROVE  TypeOK'
<1> USE DEF FateSet, SchedSet, QueueSet, Boxes, PcSet
<1>1. CASE ReactorRun
  <2>1. queue' \in QueueSet
    BY <1>1, TailQueues, ZenonT(30) DEF ReactorRun, Owner
  <2>2. Head(queue[Root]) \in Node
    BY <1>1, TailQueues DEF ReactorRun, Owner
  <2>3. pc' \in PcSet /\ \A b \in Actor : pc'[b] \in {"intask", "inwork"} => job[b] # NoMsg
    <3> DEFINE l == Enter(Head(queue[Root]))
    <3>1. l \in {"mail", "tasks"} /\ pc' = [pc EXCEPT ![Head(queue[Root])] = l] /\ job' = job
      BY <1>1 DEF ReactorRun, Enter
    <3> HIDE DEF l, PcSet
    <3> QED BY <2>2, <3>1, PcStep, ZenonT(30)
  <2> QED BY <1>1, <2>1, <2>3 DEF TypeOK, ReactorRun, tree, chain
<1>2. CASE StopSystemDone
  <2>1. frames' \in Seq(Actor \cup {Root})
    <3>1. frames \in Seq(Actor \cup {Root})
      BY DEF TypeOK
    <3> QED BY <1>2, <3>1, HeadTail DEF StopSystemDone
  <2>2. exits' \in Nat
    BY <1>2 DEF TypeOK, StopSystemDone
  <2> QED BY <1>2, <2>1, <2>2 DEF TypeOK, StopSystemDone, tree, chain
<1>3. ASSUME NEW c \in Node, StopNextChild(c) PROVE TypeOK'
  <2> DEFINE force == status[Root] = "FORCE_STOPPING"
  <2>1. force \in BOOLEAN /\ mailbox \in Boxes /\ fate \in FateSet
    BY DEF TypeOK
  <2>2. /\ left' = left \ {c}
        /\ UNCHANGED <<alive, num, cur, cancel, pc, job, cjob, dest, ec, hops, exits>>
    BY <1>3 DEF StopNextChild
  <2>3. CASE c \in Actor /\ StopActor(c, force, mailbox, fate)
    <3> HIDE DEF force
    <3> QED BY <2>1, <2>2, <2>3, StopActorType, ZenonT(30) DEF TypeOK
  <2>4. CASE c \in Group /\ StopGroup(c, force, mailbox, fate) /\ UNCHANGED frames
    <3> HIDE DEF force
    <3> QED BY <2>1, <2>2, <2>4, StopGroupType, ZenonT(30) DEF TypeOK
  <2> QED BY <1>3, <2>3, <2>4 DEF StopNextChild
<1>4. ASSUME NEW m \in Msg, ResumeChain(m) PROVE TypeOK'
  <2>1. ec[m] \in Node \cup {Root}
    BY DEF TypeOK
  <2>2. sched' \in SchedSet /\ queue' \in QueueSet
    BY <1>4, <2>1, CurrentScheduling, ScheduleType, ZenonT(30) DEF ResumeChain
  <2> QED BY <1>4, <2>2 DEF TypeOK, ResumeChain, tree, stack, Fates
<1>5. ASSUME NEW m \in Msg, ReactorRunChain(m) PROVE TypeOK'
  <2>1. UNCHANGED <<tree, status, mailbox, cur, cancel, stack, exits>>
    BY <1>5 DEF ReactorRunChain
  <2>2. CASE Suspend(m, Root)
    BY <2>1, <2>2, SuspendType DEF TypeOK, tree, stack
  <2>3. CASE HandBack(m)
    BY <2>1, <2>3, HandBackType DEF TypeOK, tree, stack
  <2> QED BY <1>5, <2>2, <2>3 DEF ReactorRunChain
<1> QED BY <1>1, <1>2, <1>3, <1>4, <1>5

(* A shard starts well typed. *)
LEMMA InitType == Init => TypeOK
<1> SUFFICES ASSUME Init PROVE TypeOK
  OBVIOUS
<1>1. /\ inst \in [Node -> {"absent", "live", "disabled"}] /\ alive \subseteq Node
      /\ sched \in [Node -> {"SCHEDULABLE", "SCHEDULED"}]
      /\ status \in [Node \cup {Root} -> {"RUNNING", "PEACE_STOPPING", "FORCE_STOPPING"}]
  BY DEF Init
<1>2. /\ mailbox \in [Node -> Seq(Message)] /\ queue \in [Owner -> Seq(Node)]
      /\ frames \in Seq(Actor \cup {Root}) /\ left \subseteq Node
  BY DEF Init
<1>3. num \in [Owner -> Int] /\ cur \in [Actor -> Int] /\ exits \in Nat
  BY DEF Init
<1>4. hops \in [Msg -> 0..MaxHops]
  BY MessageAssumption DEF Init
<1>5. /\ cancel \in [Group -> Requests \cup {NoMsg}]
      /\ job \in [Actor -> Msg \cup {NoMsg}] /\ cjob \in [Actor -> Msg \cup {NoMsg}]
  BY DEF Init
<1>6. /\ pc \in [Node -> {"idle", "mail", "tasks", "intask", "inwork", "inchild", "final"}]
      /\ \A a \in Actor : pc[a] \in {"intask", "inwork"} => job[a] # NoMsg
  BY DEF Init, Node
<1>7. /\ fate \in [Msg -> Fates] /\ dest \in [Msg -> Node \cup {Root}]
      /\ ec \in [Msg -> Node \cup {Root}]
  BY DEF Init, Fates
<1> QED BY <1>1, <1>2, <1>3, <1>4, <1>5, <1>6, <1>7 DEF TypeOK

(* Every reachable state of a shard has the types its fields have in the   *)
(* code, for every actor tree.                                             *)
THEOREM TypeCorrect == Spec => []TypeOK
<1>1. Init => TypeOK
  BY InitType
<1>2. TypeOK /\ [Next]_vars => TypeOK'
  <2> SUFFICES ASSUME TypeOK, [Next]_vars PROVE TypeOK'
    OBVIOUS
  <2>1. CASE Receive
    BY <2>1, TypeReceive
  <2>2. ASSUME NEW a \in Actor, ActorStep(a) PROVE TypeOK'
    BY <2>2, TypeClean, TypeActorRun DEF ActorStep
  <2>3. CASE UNCHANGED vars
    BY <2>3 DEF TypeOK, vars, tree, stack, chain
  <2> QED BY <2>1, <2>2, <2>3, TypeGroupRun, TypeRoot DEF Next, Progress, ReactorStep
<1> QED BY <1>1, <1>2, PTL DEF Spec

=============================================================================
