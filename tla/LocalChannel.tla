---------------------------- MODULE LocalChannel ----------------------------
(***************************************************************************)
(* The channel between the shards (reactor threads) of one machine: the    *)
(* bounded lock-free queue _qs[t][s] from shard s to shard t, the fifo     *)
(* that s fills in front of it, and the protocol by which a shard goes to  *)
(* sleep and is woken when a message arrives.                              *)
(*                                                                         *)
(* The code orders a push before the test of the receiver's _sleeping flag *)
(* with a compiler barrier only, and lets the shard that falls asleep run  *)
(* a barrier on all CPUs.  So a push has two steps here: it enters the     *)
(* queue, and it becomes visible to the receiver at some later time, or    *)
(* at the next systemwide barrier.                                         *)
(***************************************************************************)
EXTENDS Integers, Sequences, FiniteSetsExt, SequencesExt

CONSTANTS
  N,             \* local_channel::count
  QueueLength,   \* capacity of a lock-free queue
  BatchSize,     \* a fifo of this size is moved to its queue at once
  Traffic,       \* the pairs <<s, t>> such that s sends messages to t
  MaxSeq         \* bound on the messages of a pair

Shard == 0 .. N - 1

ASSUME ChannelAssumption ==
  /\ N \in Nat /\ N > 1 /\ QueueLength \in Nat \ {0} /\ BatchSize \in Nat \ {0}
  /\ MaxSeq \in Nat /\ \A p \in Traffic : p \in Shard \X Shard /\ p[1] # p[2]

VARIABLES
  fifo,       \* fifo[t][s]: pending_fifo of _qs[t][s], used by s only
  ring,       \* ring[t][s]: its lock-free queue
  hidden,     \* how many of the last entries of ring[t][s] t cannot see yet
  hand,       \* the message a shard has popped first in process_incoming()
  inbox,      \* inbox[t][s]: messages from s that t has received
  sent,       \* how many messages s has sent to t
  sleeping,   \* root_actor_group::_sleeping
  event,      \* wakeup_reactor() has written the shard's event
  pc, mode,   \* what a shard is doing, and on behalf of which loop
  peer,       \* the loop variable i of that loop, or the receiver of a send
  got         \* whether the loop has received anything

channel == <<fifo, ring, hidden, hand, inbox, sent>>
control == <<sleeping, event, pc, mode, peer, got>>
vars    == <<channel, control>>

Message == [seq : 1 .. MaxSeq, urgent : BOOLEAN]
Normal  == {m \in Message : ~m.urgent}
Urgent  == {m \in Message : m.urgent}

Table(x) == [t \in Shard |-> [s \in Shard |-> x]]

Init ==
  /\ fifo = Table(<<>>) /\ ring = Table(<<>>) /\ hidden = Table(0)
  /\ inbox = Table(<<>>) /\ sent = Table(0)
  /\ hand = [s \in Shard |-> <<>>]
  /\ sleeping = [s \in Shard |-> FALSE] /\ event = [s \in Shard |-> FALSE]
  /\ pc = [s \in Shard |-> "run"] /\ mode = [s \in Shard |-> "send"]
  /\ peer = [s \in Shard |-> N] /\ got = [s \in Shard |-> FALSE]

-----------------------------------------------------------------------------
(* The loops over the other shards; N ends a loop. *)
Skip(s, k)   == IF k = s THEN k + 1 ELSE k
Goto(s, at)  == pc' = [pc EXCEPT ![s] = at]

(* What a shard does after move_pending(): back to the sender, on to the   *)
(* next shard (poll_queues), or to the test of the same shard's queue      *)
(* (pure_poll_queues).                                                     *)
AfterMove(s) ==
  /\ Goto(s, CASE mode[s] = "send" -> "run"
               [] mode[s] = "pure" -> "check"
               [] OTHER -> "pop")
  /\ peer' = [peer EXCEPT ![s] = IF mode[s] \in {"poll", "sleep"}
                                 THEN Skip(s, peer[s] + 1) ELSE peer[s]]

Enter(s, m, at) ==
  /\ mode' = [mode EXCEPT ![s] = m] /\ Goto(s, at)
  /\ peer' = [peer EXCEPT ![s] = Skip(s, 0)]
  /\ got' = [got EXCEPT ![s] = FALSE]

-----------------------------------------------------------------------------
(* send() and send_urgent(), from a task that runs on s: a normal message  *)
(* goes to the end of the fifo, an urgent one to its front.  A full batch  *)
(* is moved at once.                                                       *)
Send(s, t, urgent) ==
  /\ pc[s] = "run" /\ <<s, t>> \in Traffic /\ sent[t][s] < MaxSeq
  /\ sent' = [sent EXCEPT ![t][s] = @ + 1]
  /\ LET m == [seq |-> sent[t][s] + 1, urgent |-> urgent] IN
     fifo' = [fifo EXCEPT ![t][s] = IF urgent THEN <<m>> \o @ ELSE Append(@, m)]
  /\ IF Len(fifo'[t][s]) >= BatchSize
     THEN /\ Goto(s, "move")
          /\ mode' = [mode EXCEPT ![s] = "send"]
          /\ peer' = [peer EXCEPT ![s] = t]
     ELSE UNCHANGED <<pc, mode, peer>>
  /\ UNCHANGED <<ring, hidden, hand, inbox, sleeping, event, got>>

(* move_pending(): push what fits, then look at the receiver.  The variant *)
(* leaves a fifo alone that is not a full batch.                           *)
Fits(t, s) == Min({Len(fifo[t][s]), QueueLength - Len(ring[t][s])})

Push(s, t, n, rest) ==
  /\ ring' = [ring EXCEPT ![t][s] = @ \o SubSeq(fifo[t][s], 1, n)]
  /\ hidden' = [hidden EXCEPT ![t][s] = @ + n]
  /\ fifo' = [fifo EXCEPT ![t][s] = rest]
  /\ UNCHANGED <<hand, inbox, sent, sleeping, event, mode, got>>
  /\ IF n = 0 THEN AfterMove(s) ELSE Goto(s, "load") /\ UNCHANGED peer

MoveFullBatch(s) ==
  /\ pc[s] = "move"
  /\ LET t == peer[s]
         n == IF Len(fifo[t][s]) < BatchSize THEN 0 ELSE Fits(t, s)
     IN Push(s, t, n, SubSeq(fifo[t][s], n + 1, Len(fifo[t][s])))

MovePending(s) ==
  /\ pc[s] = "move"
  /\ LET t == peer[s]
         n == Fits(t, s)
     IN Push(s, t, n, SubSeq(fifo[t][s], n + 1, Len(fifo[t][s])))

(* maybe_wakeup(): load _sleeping, store false, write the event.  The      *)
(* variant of the load never finds a sleeper.                              *)
LoadNothing(s) ==
  /\ pc[s] = "load" /\ AfterMove(s)
  /\ UNCHANGED <<channel, sleeping, event, mode, got>>

LoadSleeping(s) ==
  /\ pc[s] = "load"
  /\ IF sleeping[peer[s]] THEN Goto(s, "store") /\ UNCHANGED peer ELSE AfterMove(s)
  /\ UNCHANGED <<channel, sleeping, event, mode, got>>

StoreAwake(s) ==
  /\ pc[s] = "store" /\ Goto(s, "wake")
  /\ sleeping' = [sleeping EXCEPT ![peer[s]] = FALSE]
  /\ UNCHANGED <<channel, event, mode, peer, got>>

Wakeup(s) ==
  /\ pc[s] = "wake" /\ AfterMove(s)
  /\ event' = [event EXCEPT ![peer[s]] = TRUE]
  /\ UNCHANGED <<channel, sleeping, mode, got>>

(* A push becomes visible to its receiver. *)
Drain(s, t) ==
  /\ hidden[t][s] > 0
  /\ hidden' = [hidden EXCEPT ![t][s] = 0]
  /\ UNCHANGED <<fifo, ring, hand, inbox, sent, control>>

-----------------------------------------------------------------------------
(* process_incoming(): one message is popped, then all that are visible by *)
(* then; all of them are received.  The variant receives the first last.   *)
Visible(t, s) == Len(ring[t][s]) - hidden[t][s]

PopFirst(t) ==
  /\ pc[t] = "pop" /\ peer[t] < N
  /\ LET s == peer[t] IN
     IF Visible(t, s) = 0
     THEN Goto(t, "move") /\ UNCHANGED <<ring, hand>>
     ELSE /\ Goto(t, "rest")
          /\ hand' = [hand EXCEPT ![t] = <<Head(ring[t][s])>>]
          /\ ring' = [ring EXCEPT ![t][s] = Tail(@)]
  /\ UNCHANGED <<fifo, hidden, inbox, sent, sleeping, event, mode, peer, got>>

PopRestFirst(t) ==
  /\ pc[t] = "rest" /\ Goto(t, "move")
  /\ LET s == peer[t]
         n == Visible(t, s)
     IN /\ inbox' = [inbox EXCEPT ![t][s] = @ \o SubSeq(ring[t][s], 1, n) \o hand[t]]
        /\ ring' = [ring EXCEPT ![t][s] = SubSeq(@, n + 1, Len(@))]
  /\ hand' = [hand EXCEPT ![t] = <<>>]
  /\ got' = [got EXCEPT ![t] = TRUE]
  /\ UNCHANGED <<fifo, hidden, sent, sleeping, event, mode, peer>>

PopRest(t) ==
  /\ pc[t] = "rest" /\ Goto(t, "move")
  /\ LET s == peer[t]
         n == Visible(t, s)
     IN /\ inbox' = [inbox EXCEPT ![t][s] = @ \o hand[t] \o SubSeq(ring[t][s], 1, n)]
        /\ ring' = [ring EXCEPT ![t][s] = SubSeq(@, n + 1, Len(@))]
  /\ hand' = [hand EXCEPT ![t] = <<>>]
  /\ got' = [got EXCEPT ![t] = TRUE]
  /\ UNCHANGED <<fifo, hidden, sent, sleeping, event, mode, peer>>

(* poll_queues(), called by the reactor's loop after it has run tasks. *)
Poll(s) == pc[s] = "run" /\ Enter(s, "poll", "pop") /\ UNCHANGED <<channel, sleeping, event>>

PollDone(s) ==
  /\ pc[s] = "pop" /\ peer[s] = N /\ mode[s] = "poll" /\ Goto(s, "run")
  /\ UNCHANGED <<channel, sleeping, event, mode, peer, got>>

(* pure_poll_queues(), called by the reactor when a poll found no work:    *)
(* moves the fifo of each shard before it looks at the shard's queue.      *)
PurePoll(s) ==
  /\ pc[s] = "run" /\ mode[s] = "poll" /\ Enter(s, "pure", "move")
  /\ UNCHANGED <<channel, sleeping, event>>

PureCheck(t) ==
  /\ pc[t] = "check"
  /\ LET next == Skip(t, peer[t] + 1) IN
     IF Visible(t, peer[t]) # 0 \/ next = N
     THEN Goto(t, "run") /\ UNCHANGED peer
     ELSE Goto(t, "move") /\ peer' = [peer EXCEPT ![t] = next]
  /\ UNCHANGED <<channel, sleeping, event, mode, got>>

-----------------------------------------------------------------------------
(* try_enter_interrupt_mode(), called by an idle reactor: raise _sleeping, *)
(* run the barrier on all CPUs (which may be refused), poll once more, and *)
(* sleep if that received nothing.  The variant leaves the barrier out.    *)
TryEnter(s) ==
  /\ pc[s] = "run" /\ mode[s] \in {"poll", "pure"} /\ Goto(s, "barrier")
  /\ sleeping' = [sleeping EXCEPT ![s] = TRUE]
  /\ UNCHANGED <<channel, event, mode, peer, got>>

BarrierRefused(s) ==
  /\ pc[s] = "barrier" /\ Goto(s, "run")
  /\ sleeping' = [sleeping EXCEPT ![s] = FALSE]
  /\ mode' = [mode EXCEPT ![s] = "sleep"]
  /\ UNCHANGED <<channel, event, peer, got>>

NoBarrier(s) ==
  /\ pc[s] = "barrier" /\ Enter(s, "sleep", "pop")
  /\ UNCHANGED <<channel, sleeping, event>>

Barrier(s) ==
  /\ pc[s] = "barrier" /\ Enter(s, "sleep", "pop")
  /\ hidden' = Table(0)
  /\ UNCHANGED <<fifo, ring, hand, inbox, sent, sleeping, event>>

SleepDone(s) ==
  /\ pc[s] = "pop" /\ peer[s] = N /\ mode[s] = "sleep"
  /\ IF got[s] THEN Goto(s, "run") /\ sleeping' = [sleeping EXCEPT ![s] = FALSE]
               ELSE Goto(s, "asleep") /\ UNCHANGED sleeping
  /\ UNCHANGED <<channel, event, mode, peer, got>>

(* exit_interrupt_mode(): the reactor wakes because its event was written, *)
(* or for a reason of its own (a timer, another poller that found work).   *)
Awake(s) ==
  /\ pc[s] = "asleep" /\ Goto(s, "run")
  /\ sleeping' = [sleeping EXCEPT ![s] = FALSE]
  /\ UNCHANGED <<channel, mode, peer, got>>

WokenByEvent(s) == event[s] /\ event' = [event EXCEPT ![s] = FALSE] /\ Awake(s)
WokenByTimer(s) == UNCHANGED event /\ Awake(s)

-----------------------------------------------------------------------------
Moving(s)   == MovePending(s) \/ LoadSleeping(s) \/ StoreAwake(s) \/ Wakeup(s)
Polling(s)  == Poll(s) \/ PopFirst(s) \/ PopRest(s) \/ PollDone(s) \/ PurePoll(s) \/ PureCheck(s)
Sleeping(s) == TryEnter(s) \/ BarrierRefused(s) \/ Barrier(s) \/ SleepDone(s) \/ WokenByEvent(s)
Step(s)     == Moving(s) \/ Polling(s) \/ Sleeping(s)

Next ==
  \E s \in Shard :
    \/ Step(s) \/ WokenByTimer(s)
    \/ \E t \in Shard : Drain(s, t) \/ \E urgent \in BOOLEAN : Send(s, t, urgent)

Spec == Init /\ [][Next]_vars

(* A reactor that is awake never stops, an event that was written wakes it *)
(* and stores become visible.  Nothing else is sure to wake a reactor: no  *)
(* fairness is assumed of WokenByTimer.                                    *)
FairSpec ==
  Spec /\ \A s \in Shard : WF_vars(Step(s)) /\ \A t \in Shard : WF_vars(Drain(s, t))

-----------------------------------------------------------------------------
(* Type correctness; a queue never holds more than its capacity, and only  *)
(* entries of the queue are hidden.                                        *)
TypeOK ==
  /\ fifo \in [Shard -> [Shard -> Seq(Message)]]
  /\ ring \in [Shard -> [Shard -> Seq(Message)]]
  /\ inbox \in [Shard -> [Shard -> Seq(Message)]]
  /\ hidden \in [Shard -> [Shard -> Nat]] /\ sent \in [Shard -> [Shard -> 0 .. MaxSeq]]
  /\ \A s, t \in Shard : Len(ring[t][s]) \in hidden[t][s] .. QueueLength
  /\ hand \in [Shard -> Seq(Message)]
  /\ sleeping \in [Shard -> BOOLEAN] /\ event \in [Shard -> BOOLEAN]
  /\ pc \in [Shard -> {"run", "move", "load", "store", "wake", "pop", "rest", "check",
                      "barrier", "asleep"}]
  /\ mode \in [Shard -> {"send", "poll", "pure", "sleep"}]
  /\ peer \in [Shard -> 0 .. N] /\ got \in [Shard -> BOOLEAN]

(* The messages on their way from s to t, in the order t receives them. *)
InHand(t, s) == IF pc[t] = "rest" /\ peer[t] = s THEN hand[t] ELSE <<>>
Queue == [t \in Shard |-> [s \in Shard |-> InHand(t, s) \o ring[t][s] \o fifo[t][s]]]

(* The fifos, lock-free queues and polling loops implement the channel     *)
(* that MessageChannel promises.                                           *)
Channel == INSTANCE MessageChannel WITH queue <- Queue
ImplementsChannel == Channel!Spec

(* No message is lost or duplicated, and normal messages keep the order    *)
(* they were sent in: what t received from s and what is on its way are    *)
(* the messages s sent, the normal ones by increasing number.              *)
ExactlyOnceInOrder ==
  \A s, t \in Shard :
    LET all == inbox[t][s] \o Queue[t][s]
    IN /\ Len(all) = sent[t][s] /\ {m.seq : m \in ToSet(all)} = 1 .. sent[t][s]
       /\ \A i, j \in DOMAIN all :
            i < j /\ ~all[i].urgent /\ ~all[j].urgent => all[i].seq < all[j].seq

(* A wakeup of t that is sure to come: its event is written, or a sender   *)
(* is about to write it.                                                   *)
WakeupComing(t) ==
  event[t] \/ \E s \in Shard : pc[s] \in {"store", "wake"} /\ peer[s] = t

(* No lost wakeup: a shard never sleeps on a message in one of its queues, *)
(* unless a wakeup is coming or the sender has still to look at its flag,  *)
(* and will find it raised.                                                *)
NoLostWakeup ==
  \A s, t \in Shard :
    pc[t] = "asleep" /\ ring[t][s] # <<>> =>
      WakeupComing(t) \/ (pc[s] = "load" /\ peer[s] = t /\ sleeping[t])

(* What sending, polling and sleeping shards keep true at every step of    *)
(* each other: no message is lost, doubled or overtaken, no wakeup lost.   *)
ChannelSafe == TypeOK /\ ExactlyOnceInOrder /\ NoLostWakeup

(* A message that reached a queue is received, whatever else happens: the  *)
(* receiver polls, or it sleeps and the sender wakes it.                   *)
QueuedIsReceived ==
  \A p \in Traffic, n \in 1 .. MaxSeq :
    (\E m \in ToSet(ring[p[2]][p[1]]) : m.seq = n) ~> (\E m \in ToSet(inbox[p[2]][p[1]]) : m.seq = n)

(* Every message that is sent is received if its sender does not sleep     *)
(* for ever.  The condition is needed: move_pending() leaves in the fifo   *)
(* what a full queue has no room for, a shard falls asleep whether or not  *)
(* its fifos are empty, and the receiver that makes room does not wake it. *)
SentIsReceived ==
  \A p \in Traffic, n \in 1 .. MaxSeq :
    []<>(pc[p[1]] # "asleep") =>
      (sent[p[2]][p[1]] >= n ~> (\E m \in ToSet(inbox[p[2]][p[1]]) : m.seq = n))

=============================================================================
