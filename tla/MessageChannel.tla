--------------------------- MODULE MessageChannel ---------------------------
(***************************************************************************)
(* What the message channel between the shards of a machine promises: one  *)
(* queue per ordered pair of shards.  A message is delivered once, from    *)
(* the head of its queue.  A normal message joins at the end; an urgent    *)
(* one may overtake messages that are still queued.                        *)
(***************************************************************************)
EXTENDS Integers, Sequences

CONSTANTS Shard, Normal, Urgent   \* the shards; the messages of each urgency

VARIABLES queue,   \* queue[t][s]: on their way from s to t
          inbox    \* inbox[t][s]: received by t from s

vars == <<queue, inbox>>

Init ==
  /\ queue = [t \in Shard |-> [s \in Shard |-> <<>>]]
  /\ inbox = [t \in Shard |-> [s \in Shard |-> <<>>]]

Send(s, t) ==
  /\ \E m \in Normal : queue' = [queue EXCEPT ![t][s] = Append(@, m)]
  /\ UNCHANGED inbox

SendUrgent(s, t) ==
  /\ \E m \in Urgent, k \in 0 .. Len(queue[t][s]) :
       queue' = [queue EXCEPT ![t][s] =
                   SubSeq(@, 1, k) \o <<m>> \o SubSeq(@, k + 1, Len(@))]
  /\ UNCHANGED inbox

Deliver(s, t) ==
  \E k \in 1 .. Len(queue[t][s]) :
    /\ inbox' = [inbox EXCEPT ![t][s] = @ \o SubSeq(queue[t][s], 1, k)]
    /\ queue' = [queue EXCEPT ![t][s] = SubSeq(@, k + 1, Len(@))]

Next == \E s, t \in Shard : Send(s, t) \/ SendUrgent(s, t) \/ Deliver(s, t)

Spec == Init /\ [][Next]_vars

=============================================================================
