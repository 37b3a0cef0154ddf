----------------------------- MODULE ActorShard -----------------------------
(***************************************************************************)
(* The actor tree of one shard: the root_actor_group of a reactor, the     *)
(* actor_groups and actors below it, their mailboxes and task queues, the  *)
(* activation protocol that puts a node on the task queue of its parent,   *)
(* and the two ways of stopping (PEACE_STOP, FORCE_STOP) an actor, a scope *)
(* or the whole shard.                                                     *)
(*                                                                         *)
(* A reactor is one thread.  The call stack is part of the state: pc says  *)
(* which run_and_dispose() a node is in, frames holds the calls made on    *)
(* top of it that run user code (actor::clean_task_queue, the loop of      *)
(* stop_actor_system).  Only the top of that stack moves.  User code is    *)
(* arbitrary: while it runs it may send messages (delivered at once, by a  *)
(* direct call of receive) and make suspended chains ready.                *)
(***************************************************************************)
EXTENDS Integers, Sequences, FiniteSets, SequencesExt

CONSTANTS
  Actor,      \* leaves of the tree
  Group,      \* inner nodes
  Root,       \* the root_actor_group of the shard
  Parent,     \* the execution context of every node
  Above,      \* the groups on the way from a node to the root
  MaxConc,    \* _max_concurrency of every actor
  Msg,        \* identities of the messages sent to the shard
  Requests,   \* those that carry a promise id (pr_id # 0)
  Quit,       \* those whose do_work() returns stop_reaction::yes
  Uses,       \* what a message may be sent as
  NoMsg,      \* no message
  MaxHops     \* bound: how often the chain of one message may suspend

Node == Actor \cup Group
Owner == Group \cup {Root}

StopType == {"PEACE_STOP", "FORCE_STOP"}   \* to a group: cancel_scope[_request]
ExitType == {"PEACE_EXIT", "FORCE_EXIT"}   \* to the root: exit
Message  == [type : {"USER"}, id : Msg] \cup [type : StopType, id : Msg \cup {NoMsg}]
Fates    == {"unsent", "mailbox", "running", "waiting", "queued", "held",
             "answered", "done", "dropped", "superseded"}

ASSUME TreeAssumption ==
  /\ Actor \cap Group = {} /\ Root \notin Node
  /\ IsFiniteSet(Actor) /\ IsFiniteSet(Group)
  /\ Parent \in [Node -> Owner]
  /\ Above \in [Node -> SUBSET Group]
  /\ \A n \in Node : /\ n \notin Above[n]
                     /\ Above[n] = IF Parent[n] = Root THEN {}
                                   ELSE {Parent[n]} \cup Above[Parent[n]]
                     /\ \A k \in Above[n] : Above[k] \subseteq Above[n]

ASSUME MessageAssumption ==
  /\ NoMsg \notin Msg /\ Requests \subseteq Msg /\ Quit \subseteq Msg \ Requests
  /\ IsFiniteSet(Msg)
  /\ Uses \in [Msg -> SUBSET ({"USER"} \cup StopType \cup ExitType)]
  /\ \A m \in Requests : Uses[m] \cap ExitType = {}
  /\ MaxConc \in [Actor -> Nat \ {0}] /\ MaxHops \in Nat

VARIABLES
  inst,      \* _actor_inst_map of the parents: no entry, a pointer, nullptr
  alive,     \* the objects that are allocated
  sched,     \* _sched_status
  status,    \* _stop_status
  mailbox,   \* _mailbox
  queue,     \* _task_queue of a group; for Root the reactor's task queue
  num,       \* _num_actors_managed
  cur,       \* _cur_concurrency
  cancel,    \* cancel_request_pr_id of a group
  pc,        \* where in run_and_dispose() a node is
  job,       \* the message whose continuation or do_work() an actor runs
  frames,    \* calls on top of the run_and_dispose() stack, innermost first
  cjob,      \* the chain that clean_task_queue() of an actor is running
  left,      \* children stop_actor_system() still has to visit
  fate,      \* what became of a message
  dest,      \* the node a message was delivered to
  ec,        \* the execution context of the pending continuation of a chain
  hops,      \* suspensions left to the chain of a message
  exits      \* number of calls of wait_others_and_exit()

tree  == <<inst, alive, num>>
stack == <<pc, job, frames, cjob, left>>
chain == <<fate, dest, ec, hops>>
vars  == <<tree, sched, status, mailbox, queue, cur, cancel, stack, chain, exits>>


(***************************************************************************)
(* Chains.  A message whose do_work() did not complete is a chain of       *)
(* continuations: waiting for an event, with a continuation in the task    *)
(* queue of its execution context, or running.  A continuation belongs to  *)
(* the context in which it was created (seastar::task takes local_ec); it  *)
(* is the actor itself unless clean_task_queue(), which leaves local_ec as *)
(* it is, ran the code that created it.                                    *)
(***************************************************************************)
Chains(a)   == {m \in Msg : dest[m] = a /\ fate[m] \in {"running", "waiting", "queued"}}
Queued(x)   == {m \in Msg : ec[m] = x /\ fate[m] = "queued"}
Ids(box)    == {box[i].id : i \in DOMAIN box} \ {NoMsg}
Finished(m) == IF m \in Requests THEN "answered" ELSE "done"

-----------------------------------------------------------------------------
(***************************************************************************)
(* The reactor thread.                                                     *)
(***************************************************************************)
Polling == frames = <<>> /\ \A n \in Node : pc[n] = "idle"

InUserCode ==
  \/ frames = <<>> /\ \E a \in Actor : pc[a] \in {"intask", "inwork"}
  \/ frames # <<>> /\ \E a \in Actor : Head(frames) = a /\ cjob[a] # NoMsg

(* n is the node on top of the stack and stands at label l. *)
At(n, l) == frames = <<>> /\ pc[n] = l

(* local_ec: the actor whose run_and_dispose() is innermost. *)
LocalContext == IF \E a \in Actor : pc[a] # "idle"
                THEN CHOOSE a \in Actor : pc[a] # "idle" ELSE Root

-----------------------------------------------------------------------------
(***************************************************************************)
(* activate(): a schedulable node becomes SCHEDULED and is pushed on the   *)
(* task queue of its parent, which activates the parent in turn.  st holds *)
(* the scheduling state the call starts from.                              *)
(***************************************************************************)
Scheduling == [sched |-> sched, queue |-> queue]

Woken(n, st) ==
  LET path == {n} \cup Above[n]
  IN {k \in path : \A j \in path :
         (j = k \/ k \in Above[j]) => st.sched[j] = "SCHEDULABLE"}

(* A root task (n = Root) goes to the reactor, which needs no activation. *)
activate(n, st) ==
  LET woken == Woken(n, st) IN
  IF n = Root THEN st ELSE
  [sched |-> [k \in Node |-> IF k \in woken THEN "SCHEDULED" ELSE st.sched[k]],
   queue |-> [p \in Owner |->
                IF \E k \in woken : Parent[k] = p
                THEN Append(st.queue[p], CHOOSE k \in woken : Parent[k] = p)
                ELSE st.queue[p]]]

(* The children in order, all schedulable, are activated one after another. *)
activate_all(g, order, st) ==
  IF order = <<>> THEN st
  ELSE activate(g,
         [sched |-> [k \in Node |-> IF k \in ToSet(order) THEN "SCHEDULED"
                                    ELSE st.sched[k]],
          queue |-> [st.queue EXCEPT ![g] = @ \o order]])

Schedule(st) == sched' = st.sched /\ queue' = st.queue

-----------------------------------------------------------------------------
(***************************************************************************)
(* Stopping.  box and fat are the mailboxes and fates at the time of the   *)
(* call.  actor::stop(true) goes on in the frame it pushes: the entry of   *)
(* the actor in the map of its parent is cleared when that call returns.   *)
(***************************************************************************)
Drop(fat, ms) == [m \in Msg |-> IF m \in ms THEN "dropped" ELSE fat[m]]

StopActor(a, force, box, fat) ==
  \/ /\ inst[a] # "live" \/ status[a] # "RUNNING"
     /\ inst' = [inst EXCEPT ![a] = "disabled"]
     /\ mailbox' = box /\ fate' = fat
     /\ UNCHANGED <<status, sched, queue, frames>>
  \/ /\ inst[a] = "live" /\ status[a] = "RUNNING" /\ force
     /\ status' = [status EXCEPT ![a] = "FORCE_STOPPING"]
     /\ mailbox' = [box EXCEPT ![a] = <<>>]
     /\ fate' = Drop(fat, Ids(box[a]))
     /\ frames' = <<a>> \o frames
     /\ UNCHANGED <<inst, sched, queue>>
  \/ /\ inst[a] = "live" /\ status[a] = "RUNNING" /\ ~force
     /\ status' = [status EXCEPT ![a] = "PEACE_STOPPING"]
     /\ inst' = [inst EXCEPT ![a] = "disabled"]
     /\ mailbox' = box /\ fate' = fat
     /\ Schedule(IF cur[a] = 0 THEN activate(a, Scheduling) ELSE Scheduling)
     /\ UNCHANGED frames

StopGroup(g, force, box, fat) ==
  \/ /\ inst[g] # "live" \/ status[g] # "RUNNING"
     /\ inst' = [inst EXCEPT ![g] = "disabled"]
     /\ mailbox' = box /\ fate' = fat
     /\ UNCHANGED <<status, sched, queue>>
  \/ /\ inst[g] = "live" /\ status[g] = "RUNNING"
     /\ LET stop_msg == [type |-> IF force THEN "FORCE_STOP" ELSE "PEACE_STOP",
                         id   |-> NoMsg]
            children == {c \in Node : Parent[c] = g /\ inst[c] = "live"}
        IN /\ mailbox' = [n \in Node |->
                            IF n \in children THEN <<stop_msg>> \o box[n]
                            ELSE IF n = g /\ force THEN <<>> ELSE box[n]]
           /\ \E order \in SetToSeqs({c \in children : sched[c] = "SCHEDULABLE"}) :
                Schedule(IF num[g] = 0 THEN activate(g, Scheduling)
                         ELSE activate_all(g, order, Scheduling))
     /\ fate' = IF force THEN Drop(fat, Ids(box[g])) ELSE fat
     /\ status' = [status EXCEPT ![g] = IF force THEN "FORCE_STOPPING"
                                        ELSE "PEACE_STOPPING"]
     /\ inst' = [inst EXCEPT ![g] = "disabled"]

(* notify_child_stopped() of p, called by a child that is about to be      *)
(* deleted: the last child of a stopping root ends the shard.  The         *)
(* variants forget the count, and the test of the root's status.           *)
NotifyWithoutCount(p) ==
  UNCHANGED <<num, exits>>

NotifyAlwaysExit(p) ==
  /\ num' = [num EXCEPT ![p] = @ - 1]
  /\ exits' = IF p = Root /\ num[p] = 1 THEN exits + 1 ELSE exits

NotifyChildStopped(p) ==
  /\ num' = [num EXCEPT ![p] = @ - 1]
  /\ exits' = IF p = Root /\ num[p] = 1 /\ status[Root] # "RUNNING"
              THEN exits + 1 ELSE exits

-----------------------------------------------------------------------------
(***************************************************************************)
(* The end of one continuation of the chain of m.                          *)
(***************************************************************************)

(* The code created the next continuation, in context x; what it waits for *)
(* is still to come, or has happened already.                              *)
Suspend(m, x) ==
  /\ hops[m] > 0
  /\ hops' = [hops EXCEPT ![m] = @ - 1]
  /\ ec' = [ec EXCEPT ![m] = x]
  /\ \/ fate' = [fate EXCEPT ![m] = "waiting"] /\ UNCHANGED <<sched, queue>>
     \/ fate' = [fate EXCEPT ![m] = "queued"] /\ Schedule(activate(x, Scheduling))
  /\ UNCHANGED dest

(* The part that ran in a foreign context is over: the continuation the    *)
(* actor attached itself becomes ready.                                    *)
HandBack(m) ==
  /\ fate' = [fate EXCEPT ![m] = "queued"]
  /\ ec' = [ec EXCEPT ![m] = dest[m]]
  /\ Schedule(activate(dest[m], Scheduling))
  /\ UNCHANGED <<dest, hops>>

(* post_work_func of the actor a. *)
EndTask(a, m) ==
  IF dest[m] # a
  THEN HandBack(m) /\ UNCHANGED <<inst, status, mailbox, cur, frames>>
  ELSE /\ cur' = [cur EXCEPT ![a] = @ - 1]
       /\ LET fat == [fate EXCEPT ![m] = Finished(m)] IN
          IF m \in Quit THEN StopActor(a, TRUE, mailbox, fat)
          ELSE fate' = fat /\ UNCHANGED <<inst, status, mailbox, sched, queue, frames>>
       /\ UNCHANGED <<dest, ec, hops>>

-----------------------------------------------------------------------------
(***************************************************************************)
(* receive(): called by the poller and, for a local destination, directly  *)
(* by the sender.                                                          *)
(***************************************************************************)
CanSend == Polling \/ InUserCode

Route(d) == {d} \cup Above[d]

(* receive() finds a stopped node on the way to d, or would have to create *)
(* a child of a stopping root; the variant forgets the latter.             *)
RefusedDisabledOnly(d) ==
  \E k \in Route(d) : inst[k] = "disabled"

Refused(d) ==
  \/ \E k \in Route(d) : inst[k] = "disabled"
  \/ status[Root] # "RUNNING" /\ \E k \in Route(d) : Parent[k] = Root /\ inst[k] = "absent"

(* stopped_actor_enqueue: only a request is answered. *)
ReceiveRefused(m, d) ==
  /\ CanSend /\ fate[m] = "unsent" /\ Refused(d)
  /\ fate' = [fate EXCEPT ![m] = Finished(m)]
  /\ UNCHANGED <<tree, sched, status, mailbox, queue, cur, cancel, stack, dest, ec, hops, exits>>

Accept(m, d, type) ==
  /\ CanSend /\ fate[m] = "unsent" /\ ~Refused(d)
  /\ LET new == {k \in Route(d) : inst[k] = "absent"} IN
     /\ inst'  = [k \in Node |-> IF k \in new THEN "live" ELSE inst[k]]
     /\ alive' = alive \cup new
     /\ num'   = [p \in Owner |-> IF \E k \in new : Parent[k] = p
                               THEN num[p] + 1 ELSE num[p]]
  /\ Schedule(activate(d, Scheduling))
  /\ mailbox' = [mailbox EXCEPT ![d] =
                   IF type = "USER" THEN Append(@, [type |-> type, id |-> m])
                   ELSE <<[type |-> type, id |-> m]>> \o @]
  /\ fate' = [fate EXCEPT ![m] = "mailbox"] /\ dest' = [dest EXCEPT ![m] = d]
  /\ UNCHANGED <<status, cur, cancel, stack, ec, hops, exits>>

ReceiveUser(m, a)       == "USER" \in Uses[m] /\ Accept(m, a, "USER")
ReceiveStop(m, g, type) == type \in Uses[m] /\ Accept(m, g, type)

(* A stop message for the root itself: stop_actor_system().  The loop over *)
(* the children goes on in the frame pushed here.                          *)
ReceiveExit(m, type) ==
  /\ CanSend /\ fate[m] = "unsent" /\ type \in Uses[m]
  /\ fate' = [fate EXCEPT ![m] = "done"]
  /\ IF status[Root] # "RUNNING"
     THEN UNCHANGED <<status, frames, left>>
     ELSE /\ status' = [status EXCEPT ![Root] =
                          IF type = "FORCE_EXIT" THEN "FORCE_STOPPING"
                          ELSE "PEACE_STOPPING"]
          /\ frames' = <<Root>> \o frames
          /\ left' = {c \in Node : Parent[c] = Root /\ inst[c] = "live"}
  /\ UNCHANGED <<tree, sched, mailbox, queue, cur, cancel, pc, job, cjob, dest, ec, hops, exits>>

(* The event a suspended chain waits for happens: its continuation is put  *)
(* on the actor's task queue.                                              *)
ResumeChain(m) ==
  /\ CanSend /\ fate[m] = "waiting"
  /\ fate' = [fate EXCEPT ![m] = "queued"]
  /\ Schedule(activate(ec[m], Scheduling))
  /\ UNCHANGED <<tree, status, mailbox, cur, cancel, stack, dest, ec, hops, exits>>

-----------------------------------------------------------------------------
(***************************************************************************)
(* stop_actor_system(): the loop over the children, and its end.           *)
(***************************************************************************)
StopNextChild(c) ==
  /\ frames # <<>> /\ Head(frames) = Root /\ c \in left
  /\ left' = left \ {c}
  /\ LET force == status[Root] = "FORCE_STOPPING" IN
     \/ c \in Actor /\ StopActor(c, force, mailbox, fate)
     \/ c \in Group /\ StopGroup(c, force, mailbox, fate) /\ UNCHANGED frames
  /\ UNCHANGED <<alive, num, cur, cancel, pc, job, cjob, dest, ec, hops, exits>>

(* The variant leaves the exit to the last child, even if there is none. *)
StopSystemDoneNoExit ==
  /\ frames # <<>> /\ Head(frames) = Root /\ left = {}
  /\ frames' = Tail(frames)
  /\ UNCHANGED <<tree, sched, status, mailbox, queue, cur, cancel, pc, job, cjob,
                 left, chain, exits>>

StopSystemDone ==
  /\ frames # <<>> /\ Head(frames) = Root /\ left = {}
  /\ frames' = Tail(frames)
  /\ exits' = IF num[Root] = 0 THEN exits + 1 ELSE exits
  /\ UNCHANGED <<tree, sched, status, mailbox, queue, cur, cancel, pc, job, cjob,
                 left, chain>>

-----------------------------------------------------------------------------
(***************************************************************************)
(* actor::clean_task_queue() and what follows it in actor::stop(true).     *)
(***************************************************************************)
InClean(a) == frames # <<>> /\ Head(frames) = a

CleanTakeTask(a, m) ==
  /\ InClean(a) /\ cjob[a] = NoMsg /\ m \in Queued(a)
  /\ cjob' = [cjob EXCEPT ![a] = m]
  /\ fate' = [fate EXCEPT ![m] = "running"]
  /\ UNCHANGED <<tree, sched, status, mailbox, queue, cur, cancel, pc, job, frames,
                 left, dest, ec, hops, exits>>

CleanSuspend(a) ==
  /\ InClean(a) /\ cjob[a] # NoMsg
  /\ Suspend(cjob[a], LocalContext)
  /\ cjob' = [cjob EXCEPT ![a] = NoMsg]
  /\ UNCHANGED <<tree, status, mailbox, cur, cancel, pc, job, frames, left, exits>>

CleanComplete(a) ==
  /\ InClean(a) /\ cjob[a] # NoMsg
  /\ EndTask(a, cjob[a])
  /\ cjob' = [cjob EXCEPT ![a] = NoMsg]
  /\ UNCHANGED <<alive, num, cancel, pc, job, left, exits>>

CleanDone(a) ==
  /\ InClean(a) /\ cjob[a] = NoMsg /\ Queued(a) = {}
  /\ frames' = Tail(frames)
  /\ inst' = [inst EXCEPT ![a] = "disabled"]
  /\ Schedule(IF cur[a] = 0 THEN activate(a, Scheduling) ELSE Scheduling)
  /\ UNCHANGED <<alive, num, status, mailbox, cur, cancel, pc, job, cjob, left,
                 chain, exits>>

-----------------------------------------------------------------------------
(***************************************************************************)
(* run_and_dispose() of an actor.  The label an iteration ends at is       *)
(* "final" when need_yield() says so.                                      *)
(***************************************************************************)
ActorTakeTask(a, m) ==
  /\ At(a, "tasks") /\ m \in Queued(a)
  /\ pc' = [pc EXCEPT ![a] = "intask"]
  /\ job' = [job EXCEPT ![a] = m]
  /\ fate' = [fate EXCEPT ![m] = "running"]
  /\ UNCHANGED <<tree, sched, status, mailbox, queue, cur, cancel, frames, cjob,
                 left, dest, ec, hops, exits>>

ActorTaskSuspends(a) ==
  /\ At(a, "intask")
  /\ Suspend(job[a], a)
  /\ \E l \in {"tasks", "final"} : pc' = [pc EXCEPT ![a] = l]
  /\ job' = [job EXCEPT ![a] = NoMsg]
  /\ UNCHANGED <<tree, status, mailbox, cur, cancel, frames, cjob, left, exits>>

ActorTaskCompletes(a) ==
  /\ At(a, "intask")
  /\ EndTask(a, job[a])
  /\ \E l \in {"tasks", "final"} : pc' = [pc EXCEPT ![a] = l]
  /\ job' = [job EXCEPT ![a] = NoMsg]
  /\ UNCHANGED <<alive, num, cancel, cjob, left, exits>>

(* The child returns to the loop of the group that ran it. *)
Return(n) ==
  \E l \in {"tasks", "final"} :
    pc' = [k \in Node |-> IF k = n THEN "idle"
                          ELSE IF k = Parent[n] THEN l ELSE pc[k]]

ActorAtLimit(a) ==
  /\ At(a, "tasks") /\ Queued(a) = {} /\ cur[a] = MaxConc[a]
  /\ sched' = [sched EXCEPT ![a] = "SCHEDULABLE"]
  /\ Return(a)
  /\ UNCHANGED <<tree, status, mailbox, queue, cur, cancel, job, frames, cjob,
                 left, chain, exits>>

ActorTasksDone(a) ==
  /\ At(a, "tasks") /\ Queued(a) = {} /\ cur[a] # MaxConc[a]
  /\ pc' = [pc EXCEPT ![a] = "mail"]
  /\ UNCHANGED <<tree, sched, status, mailbox, queue, cur, cancel, job, frames,
                 cjob, left, chain, exits>>

ActorTakeUser(a) ==
  /\ At(a, "mail") /\ mailbox[a] # <<>> /\ Head(mailbox[a]).type = "USER"
  /\ LET m == Head(mailbox[a]).id IN
     /\ job' = [job EXCEPT ![a] = m]
     /\ ec' = [ec EXCEPT ![m] = a]
     /\ fate' = [fate EXCEPT ![m] = "running"]
  /\ mailbox' = [mailbox EXCEPT ![a] = Tail(@)]
  /\ pc' = [pc EXCEPT ![a] = "inwork"]
  /\ UNCHANGED <<tree, sched, status, queue, cur, cancel, frames, cjob, left, dest,
                 hops, exits>>

ActorTakeStop(a) ==
  /\ At(a, "mail") /\ mailbox[a] # <<>> /\ Head(mailbox[a]).type \in StopType
  /\ StopActor(a, Head(mailbox[a]).type = "FORCE_STOP",
               [mailbox EXCEPT ![a] = Tail(@)], fate)
  /\ \E l \in {"mail", "final"} : pc' = [pc EXCEPT ![a] = l]
  /\ UNCHANGED <<alive, num, cur, cancel, job, cjob, left, dest, ec, hops, exits>>

(* Where the loop goes on when one more chain is suspended: it must not    *)
(* take another message at the concurrency limit.  The variant does.       *)
AfterSuspendNoLimit(a) == {"mail", "final"}
AfterSuspend(a) ==
  IF cur[a] + 1 = MaxConc[a] THEN {"final"} ELSE {"mail", "final"}

(* do_work() returned a future that is not available. *)
ActorWorkSuspends(a) ==
  /\ At(a, "inwork")
  /\ Suspend(job[a], a)
  /\ cur' = [cur EXCEPT ![a] = @ + 1]
  /\ \E l \in AfterSuspend(a) : pc' = [pc EXCEPT ![a] = l]
  /\ job' = [job EXCEPT ![a] = NoMsg]
  /\ UNCHANGED <<tree, status, mailbox, cancel, frames, cjob, left, exits>>

ActorWorkCompletes(a) ==
  /\ At(a, "inwork")
  /\ \E l \in {"mail", "final"} : pc' = [pc EXCEPT ![a] = l]
  /\ job' = [job EXCEPT ![a] = NoMsg]
  /\ LET fat == [fate EXCEPT ![job[a]] = Finished(job[a])] IN
     IF job[a] \in Quit THEN StopActor(a, TRUE, mailbox, fat)
     ELSE fate' = fat /\ UNCHANGED <<inst, status, mailbox, sched, queue, frames>>
  /\ UNCHANGED <<alive, num, cur, cancel, cjob, left, dest, ec, hops, exits>>

ActorAtFinal(a) == At(a, "final") \/ (At(a, "mail") /\ mailbox[a] = <<>>)

(* The actor deletes itself when it is stopping, without a suspended chain *)
(* and without mail; the variants forget one of the latter two.            *)
ActorEndsWithChains(a) == status[a] # "RUNNING" /\ mailbox[a] = <<>>
ActorEndsWithMail(a)   == status[a] # "RUNNING" /\ cur[a] = 0
ActorEnds(a) == status[a] # "RUNNING" /\ cur[a] = 0 /\ mailbox[a] = <<>>

ActorDelete(a) ==
  /\ ActorAtFinal(a) /\ ActorEnds(a)
  /\ alive' = alive \ {a}
  /\ NotifyChildStopped(Parent[a])
  /\ fate' = Drop(fate, Ids(mailbox[a]))   \* ~actor_base
  /\ Return(a)
  /\ UNCHANGED <<inst, sched, status, mailbox, queue, cur, cancel, job, frames,
                 cjob, left, dest, ec, hops>>

(* What makes the actor activate itself again at the end of a run; the     *)
(* variants forget one of the two queues.                                  *)
RunnableMailOnly(a) == mailbox[a] # <<>> /\ cur[a] < MaxConc[a]
RunnableTaskOnly(a) == Queued(a) # {}
Runnable(a) == Queued(a) # {} \/ (mailbox[a] # <<>> /\ cur[a] < MaxConc[a])

ActorYield(a) ==
  /\ ActorAtFinal(a) /\ ~ActorEnds(a)
  /\ LET st == [Scheduling EXCEPT !.sched[a] = "SCHEDULABLE"] IN
     Schedule(IF Runnable(a) THEN activate(a, st) ELSE st)
  /\ Return(a)
  /\ UNCHANGED <<tree, status, mailbox, cur, cancel, job, frames, cjob, left, chain, exits>>

-----------------------------------------------------------------------------
(***************************************************************************)
(* run_and_dispose() of a group.                                           *)
(***************************************************************************)
Enter(n) == IF n \in Actor THEN "tasks" ELSE "mail"

(* cancel_request_pr_id := pr_id of the message; the variant takes a       *)
(* message without a promise for a request.                                *)
PromiseOfAny(msg) == msg.id
PromiseOf(msg)    == IF msg.id \in Requests THEN msg.id ELSE NoMsg

GroupProcessMessage(g) ==
  /\ At(g, "mail") /\ mailbox[g] # <<>>
  /\ LET msg == Head(mailbox[g])
         m   == PromiseOf(msg)
         \* the request remembered so far is overwritten, the new one kept
         fat == [k \in Msg |-> IF k = m THEN "held"
                               ELSE IF k = msg.id THEN "done"
                               ELSE IF k = cancel[g] THEN "superseded" ELSE fate[k]]
     IN /\ StopGroup(g, msg.type = "FORCE_STOP", [mailbox EXCEPT ![g] = Tail(@)], fat)
        /\ cancel' = [cancel EXCEPT ![g] = m]
  /\ \E l \in {"mail", "final"} : pc' = [pc EXCEPT ![g] = l]
  /\ UNCHANGED <<alive, num, cur, job, frames, cjob, left, dest, ec, hops, exits>>

GroupMailDone(g) ==
  /\ At(g, "mail") /\ mailbox[g] = <<>>
  /\ pc' = [pc EXCEPT ![g] = "tasks"]
  /\ UNCHANGED <<tree, sched, status, mailbox, queue, cur, cancel, job, frames,
                 cjob, left, chain, exits>>

GroupRunChild(g) ==
  /\ At(g, "tasks") /\ queue[g] # <<>>
  /\ queue' = [queue EXCEPT ![g] = Tail(@)]
  /\ pc' = [pc EXCEPT ![g] = "inchild", ![Head(queue[g])] = Enter(Head(queue[g]))]
  /\ UNCHANGED <<tree, sched, status, mailbox, cur, cancel, job, frames, cjob,
                 left, chain, exits>>

GroupAtFinal(g) == At(g, "final") \/ (At(g, "tasks") /\ queue[g] = <<>>)
GroupEnds(g) ==
  status[g] # "RUNNING" /\ num[g] = 0 /\ queue[g] = <<>> /\ mailbox[g] = <<>>

GroupDelete(g) ==
  /\ GroupAtFinal(g) /\ GroupEnds(g)
  /\ alive' = alive \ {g}
  /\ NotifyChildStopped(Parent[g])
  /\ fate' = [m \in Msg |-> IF m = cancel[g] THEN "answered" ELSE fate[m]]
  /\ Return(g)
  /\ UNCHANGED <<inst, sched, status, mailbox, queue, cur, cancel, job, frames,
                 cjob, left, dest, ec, hops>>

GroupYield(g) ==
  /\ GroupAtFinal(g) /\ ~GroupEnds(g)
  /\ LET st == [Scheduling EXCEPT !.sched[g] = "SCHEDULABLE"] IN
     Schedule(IF mailbox[g] # <<>> \/ queue[g] # <<>> THEN activate(g, st) ELSE st)
  /\ Return(g)
  /\ UNCHANGED <<tree, status, mailbox, cur, cancel, job, frames, cjob, left, chain, exits>>

(* The reactor runs the oldest of its tasks. *)
ReactorRun ==
  /\ Polling /\ queue[Root] # <<>>
  /\ queue' = [queue EXCEPT ![Root] = Tail(@)]
  /\ pc' = [pc EXCEPT ![Head(queue[Root])] = Enter(Head(queue[Root]))]
  /\ UNCHANGED <<tree, sched, status, mailbox, cur, cancel, job, frames, cjob,
                 left, chain, exits>>

(* The reactor runs a continuation created outside of any actor. *)
ReactorRunChain(m) ==
  /\ Polling /\ m \in Queued(Root)
  /\ Suspend(m, Root) \/ HandBack(m)
  /\ UNCHANGED <<tree, status, mailbox, cur, cancel, stack, exits>>

-----------------------------------------------------------------------------
Init ==
  /\ inst = [n \in Node |-> "absent"] /\ alive = {}
  /\ sched = [n \in Node |-> "SCHEDULABLE"]
  /\ status = [n \in Node \cup {Root} |-> "RUNNING"]
  /\ mailbox = [n \in Node |-> <<>>] /\ queue = [p \in Owner |-> <<>>]
  /\ num = [p \in Owner |-> 0] /\ cur = [a \in Actor |-> 0]
  /\ cancel = [g \in Group |-> NoMsg]
  /\ pc = [n \in Node |-> "idle"] /\ job = [a \in Actor |-> NoMsg]
  /\ frames = <<>> /\ cjob = [a \in Actor |-> NoMsg] /\ left = {}
  /\ fate = [m \in Msg |-> "unsent"] /\ dest = [m \in Msg |-> Root]
  /\ ec = [m \in Msg |-> Root]
  /\ hops = [m \in Msg |-> MaxHops] /\ exits = 0

Receive ==
  \E m \in Msg :
    \/ \E d \in Node : ReceiveRefused(m, d)
    \/ \E a \in Actor : ReceiveUser(m, a)
    \/ \E g \in Group, type \in StopType : ReceiveStop(m, g, type)
    \/ \E type \in ExitType : ReceiveExit(m, type)

ActorStep(a) ==
  \/ \E m \in Msg : CleanTakeTask(a, m) \/ ActorTakeTask(a, m)
  \/ CleanSuspend(a) \/ CleanComplete(a) \/ CleanDone(a)
  \/ ActorTaskSuspends(a) \/ ActorTaskCompletes(a)
  \/ ActorAtLimit(a) \/ ActorTasksDone(a)
  \/ ActorTakeUser(a) \/ ActorTakeStop(a)
  \/ ActorWorkSuspends(a) \/ ActorWorkCompletes(a)
  \/ ActorDelete(a) \/ ActorYield(a)

GroupStep(g) ==
  \/ GroupProcessMessage(g) \/ GroupMailDone(g) \/ GroupRunChild(g)
  \/ GroupDelete(g) \/ GroupYield(g)

(* What the reactor thread does by itself. *)
ReactorStep ==
  \/ ReactorRun
  \/ \E a \in Actor : ActorStep(a)
  \/ \E g \in Group : GroupStep(g)
  \/ \E c \in Node : StopNextChild(c)
  \/ StopSystemDone
  \/ \E m \in Msg : ReactorRunChain(m)

(* The same, and the events the suspended chains wait for. *)
Progress == ReactorStep \/ \E m \in Msg : ResumeChain(m)

Next == Receive \/ Progress

Spec     == Init /\ [][Next]_vars
FairSpec == Spec /\ WF_vars(Progress)

-----------------------------------------------------------------------------
(***************************************************************************)
(* Properties.                                                             *)
(***************************************************************************)

(* Type correctness of the state of the shard. *)
TypeOK ==
  /\ inst \in [Node -> {"absent", "live", "disabled"}]
  /\ alive \subseteq Node
  /\ sched \in [Node -> {"SCHEDULABLE", "SCHEDULED"}]
  /\ status \in [Node \cup {Root} -> {"RUNNING", "PEACE_STOPPING", "FORCE_STOPPING"}]
  /\ mailbox \in [Node -> Seq(Message)]
  /\ queue \in [Owner -> Seq(Node)]
  /\ num \in [Owner -> Int] /\ cur \in [Actor -> Int]
  /\ cancel \in [Group -> Requests \cup {NoMsg}]
  /\ pc \in [Node -> {"idle", "mail", "tasks", "intask", "inwork", "inchild", "final"}]
  /\ job \in [Actor -> Msg \cup {NoMsg}] /\ cjob \in [Actor -> Msg \cup {NoMsg}]
  /\ \A a \in Actor : pc[a] \in {"intask", "inwork"} => job[a] # NoMsg
  /\ frames \in Seq(Actor \cup {Root}) /\ left \subseteq Node
  /\ fate \in [Msg -> Fates] /\ dest \in [Msg -> Node \cup {Root}]
  /\ ec \in [Msg -> Node \cup {Root}]
  /\ hops \in [Msg -> 0..MaxHops] /\ exits \in Nat

(* A node that delete'd itself in run_and_dispose() is nowhere to be found *)
(* any more: no map entry, task queue, call stack, mailbox or pending      *)
(* continuation reaches it.                                                *)
(* The code does not guarantee this of a root with two actors as children: *)
(* a forced stop of the shard from the code of one may bind a continuation *)
(* of the other to it, and it is deleted all the same (see NoFlyingChain). *)
Referenced(n) ==
  \/ inst[n] = "live"
  \/ \E p \in Owner : n \in ToSet(queue[p])
  \/ pc[n] # "idle"
  \/ n \in ToSet(frames)
  \/ mailbox[n] # <<>>
  \/ \E m \in Msg : n \in {dest[m], ec[m]} /\ fate[m] \in {"running", "waiting", "queued"}
  \/ \E c \in alive : Parent[c] = n

NoDanglingReference == \A n \in Node : Referenced(n) => n \in alive

(* _num_actors_managed counts exactly the children that are allocated: a   *)
(* group neither ends before its last child nor waits for one that is gone. *)
ChildCount ==
  \A p \in Owner : num[p] = Cardinality({c \in alive : Parent[c] = p})

(* _cur_concurrency counts the suspended chains of an actor, and never     *)
(* exceeds _max_concurrency.                                               *)
ConcurrencyCount ==
  \A a \in Actor :
    /\ cur[a] = Cardinality(Chains(a) \ IF pc[a] = "inwork" THEN {job[a]} ELSE {})
    /\ cur[a] <= MaxConc[a]

(* The two counters that decide when a group and when an actor may end.    *)
CountsRight == ChildCount /\ ConcurrencyCount

(* No lost activation: a node that is not scheduled has nothing it could   *)
(* do, and one that is scheduled is either running or once in the task     *)
(* queue of its parent, which is itself scheduled.                         *)
CanRun(n) ==
  IF n \in Actor
  THEN \/ Queued(n) # {}
       \/ mailbox[n] # <<>> /\ cur[n] < MaxConc[n]
       \/ status[n] # "RUNNING" /\ cur[n] = 0 /\ n \notin ToSet(frames)
  ELSE mailbox[n] # <<>> \/ queue[n] # <<>> \/ (status[n] # "RUNNING" /\ num[n] = 0)

NoLostActivation ==
  \A n \in alive :
    /\ sched[n] = "SCHEDULABLE" => ~CanRun(n)
    /\ sched[n] = "SCHEDULED" =>
         /\ Parent[n] = Root \/ sched[Parent[n]] = "SCHEDULED"
         /\ Cardinality({i \in DOMAIN queue[Parent[n]] : queue[Parent[n]][i] = n})
              = IF pc[n] = "idle" THEN 1 ELSE 0

(* wait_others_and_exit() runs at most once, and only when the shard is    *)
(* stopping and every actor of it is gone.                                 *)
ExitOnceEmpty ==
  exits <= 1 /\ (exits = 1 => status[Root] # "RUNNING" /\ alive = {})

(* A message that was accepted is thrown away only by a forced stop of the *)
(* very node it was sent to: PEACE_STOP lets the mailbox run empty.        *)
OnlyForceDrops ==
  \A m \in Msg : fate[m] = "dropped" => status[dest[m]] = "FORCE_STOPPING"

(* What holds also where a forced exit runs the code of one actor in the   *)
(* context of another: counts, activations, the exit and the mailboxes.    *)
ShardConsistent == CountsRight /\ NoLostActivation /\ ExitOnceEmpty /\ OnlyForceDrops

(* "no flying chain", the reading actor::stop() gives to                   *)
(* _cur_concurrency = 0: no continuation is bound to the actor.            *)
NoFlyingChain ==
  \A a \in Actor : cur[a] = 0 =>
    \A m \in Msg : ec[m] = a => fate[m] \notin {"waiting", "queued"}

(* receive() and get_actor_local() never create a child under a node that  *)
(* is stopping, and never re-create one that was stopped.                  *)
NoBirthUnderStopping ==
  [][\A n \in Node : n \in alive' \ alive =>
        inst[n] = "absent" /\ status'[Parent[n]] = "RUNNING"]_vars

(* Once stop_actor_system() has run, the shard reaches the final barrier.  *)
StopReachesExit == status[Root] # "RUNNING" ~> exits = 1

(* A stopped scope goes away, with everything below it. *)
StoppedScopeEnds ==
  \A n \in Node : status[n] # "RUNNING" ~> \A k \in Node : n \in Route(k) => k \notin alive

(* Stopping ends, from the scope that is stopped up to the whole shard.    *)
StoppingEnds == StopReachesExit /\ StoppedScopeEnds

(* Every request that was accepted is answered, unless a forced stop of    *)
(* its target threw it away or a later stop request took its place.        *)
RequestSettled ==
  \A m \in Requests :
    fate[m] = "mailbox" ~> fate[m] \in {"answered", "dropped", "superseded"}

=============================================================================
