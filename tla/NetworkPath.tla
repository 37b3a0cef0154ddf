---------------------------- MODULE NetworkPath ----------------------------
(***************************************************************************)
(* The path of a message from a shard of one machine to a shard of another *)
(* (network_channel, connection_manager, dynamic_queue): the queue to the  *)
(* proxy shard, the buffer of the proxy, its sender, the connection, the   *)
(* receiver of the other machine; and the end of both connection managers. *)
(*                                                                         *)
(* There is one connection per proxy shard.  The queue between two shards  *)
(* is LocalChannel's again, with its fifo, its bounded ring and shards     *)
(* that fall asleep; that a push to the ring wakes the proxy, whatever     *)
(* each has seen of the other's memory, is shown there.                    *)
(***************************************************************************)
EXTENDS Integers, Sequences, FiniteSets, SequencesExt

CONSTANTS
  Shard,      \* shards of the sending machine; each is a proxy
  Dest,       \* shards of the receiving machine
  ProxyOf,    \* ProxyOf[d]: the proxy get_destination() picks for d
  RingCap,    \* queue_length, 128
  BatchSize,  \* batch_size, 16
  MaxSent,    \* bound on the messages sent
  MaxBreaks   \* bound on the connections that break

VARIABLES
  sent,       \* sent[s][d]: messages that s has sent to d
  fifo,       \* fifo[s][p]: pending_fifo of the network_message_queue from s to proxy p
  ring,       \* ring[s][p]: its _pending
  asleep,     \* asleep[s]: the reactor of s waits for an event
  buf,        \* buf[p]: the net_buffer of proxy p
  aborted,    \* aborted[p]: its _ex is set
  spc,        \* spc[p]: where the sender of p is
  hand,       \* hand[p]: the message it is writing (a sequence of at most one)
  wire,       \* wire[p]: the parts written and not yet read
  fin,        \* fin[p]: the out stream is closed
  broken,     \* broken[p]: the connection is lost
  rpc,        \* rpc[p]: where the receiver of the other machine is
  received,   \* received[d]: what has been handed to shard d
  dropped,    \* messages deleted, leaked or lost with a connection
  stopA,      \* stopA[p]: stop() has run on shard p of the sending machine
  stopB,      \* stopB[p]: stop() has run at the other end
  backFin     \* backFin[p]: the other direction has been read to its end

flow  == <<sent, fifo, ring, buf, aborted>>
out   == <<spc, hand, fin>>
in    == <<rpc, received>>
stops == <<stopA, stopB, backFin>>
pathVars == <<flow, out, wire, broken, in, dropped, stops, asleep>>

PathInit ==
  /\ sent = [s \in Shard |-> [d \in Dest |-> 0]]
  /\ fifo = [s \in Shard |-> [p \in Shard |-> <<>>]] /\ ring = fifo
  /\ asleep = [s \in Shard |-> FALSE]
  /\ buf = [p \in Shard |-> <<>>] /\ aborted = [p \in Shard |-> FALSE]
  /\ spc = [p \in Shard |-> "pop"] /\ hand = [p \in Shard |-> <<>>]
  /\ wire = [p \in Shard |-> <<>>] /\ fin = [p \in Shard |-> FALSE]
  /\ broken = [p \in Shard |-> FALSE] /\ rpc = [p \in Shard |-> "length"]
  /\ received = [d \in Dest |-> <<>>] /\ dropped = {}
  /\ stopA = [p \in Shard |-> FALSE] /\ stopB = [p \in Shard |-> FALSE]
  /\ backFin = [p \in Shard |-> FALSE]

-----------------------------------------------------------------------------
(* network_channel *)

\* notify_not_empty(): what becomes of a sender; the variant forgets it.
NotNotified(pc) == pc

Notified(pc) == IF pc = "wait" THEN "pop" ELSE pc

\* push_eventually() tests _ex.
Refuses(p) == aborted[p]

\* push_to_buffer(): the exception of an aborted buffer is dropped, and the
\* message with it.  A waiting sender is notified.
push_to_buffer(p, msgs) ==
  IF Refuses(p)
  THEN dropped' = dropped \cup Range(msgs) /\ UNCHANGED <<buf, spc>>
  ELSE /\ buf' = [buf EXCEPT ![p] = @ \o msgs]
       /\ spc' = [spc EXCEPT ![p] = Notified(@)]
       /\ UNCHANGED dropped

\* The proxy of the next message to d; the variant takes the proxies in turn.
RoundRobin(s, d) == IF sent[s][d] % 2 = 0 THEN ProxyOf[d] ELSE CHOOSE p \in Shard : p # ProxyOf[d]

FixedProxy(s, d) == ProxyOf[d]

Total == FoldFunctionOnSet(+, 0, [f \in Shard \X Dest |-> sent[f[1]][f[2]]], Shard \X Dest)

\* move_pending() with fifo f: as much as the ring has room for.
move_pending(s, p, f) ==
  LET room == RingCap - Len(ring[s][p]) IN
  /\ ring' = [ring EXCEPT ![s][p] = @ \o SubSeq(f, 1, room)]
  /\ fifo' = [fifo EXCEPT ![s][p] = SubSeq(f, room + 1, Len(f))]

\* send(); no caller sends to another machine with the tag for urgent ones.
Send(s, d) ==
  LET p == FixedProxy(s, d)
      m == [src |-> s, dst |-> d, nr |-> sent[s][d] + 1]
  IN
  /\ ~asleep[s] /\ Total < MaxSent
  /\ sent' = [sent EXCEPT ![s][d] = @ + 1]
  /\ IF p = s
     THEN push_to_buffer(p, <<m>>) /\ UNCHANGED <<fifo, ring>>
     ELSE /\ IF Len(fifo[s][p]) + 1 >= BatchSize
             THEN move_pending(s, p, Append(fifo[s][p], m))
             ELSE fifo' = [fifo EXCEPT ![s][p] = Append(@, m)] /\ UNCHANGED ring
          /\ UNCHANGED <<buf, spc, dropped>>
  /\ UNCHANGED <<aborted, hand, fin, wire, broken, in, stops, asleep>>

flush_request_batch(s, p) ==
  /\ ~asleep[s] /\ fifo[s][p] # <<>> /\ Len(ring[s][p]) < RingCap
  /\ move_pending(s, p, fifo[s][p])
  /\ UNCHANGED <<sent, buf, aborted, out, wire, broken, in, dropped, stops, asleep>>

\* process_incoming() on the proxy: the messages that are visible.
process_incoming(s, p, k) ==
  /\ ~asleep[p] /\ ring' = [ring EXCEPT ![s][p] = SubSeq(@, k + 1, Len(@))]
  /\ push_to_buffer(p, SubSeq(ring[s][p], 1, k))
  /\ UNCHANGED <<sent, fifo, aborted, hand, fin, wire, broken, in, stops, asleep>>

\* pure_poll_queues() finds nothing in the rings to s.  It has tried to flush
\* what s sends, which fails where a ring is full, and does not ask.  (With
\* nothing left in the fifos the sleep would make no difference: s is woken
\* by the next message to a ring, and sends when it is awake again.)
Sleep(s) ==
  /\ ~asleep[s] /\ spc[s] \notin {"pop", "close"}
  /\ \A p \in Shard : ring[p][s] = <<>>
  /\ \A p \in Shard : fifo[s][p] = <<>> \/ Len(ring[s][p]) = RingCap
  /\ \E p \in Shard : fifo[s][p] # <<>>
  /\ asleep' = [asleep EXCEPT ![s] = TRUE]
  /\ UNCHANGED <<flow, out, wire, broken, in, dropped, stops>>

\* An event wakes the reactor, also one that has nothing to do with messages.
Woken(s) == asleep' = [asleep EXCEPT ![s] = FALSE]

Wake(s) ==
  /\ asleep[s] /\ Woken(s)
  /\ UNCHANGED <<flow, out, wire, broken, in, dropped, stops>>

\* maybe_wakeup() after a push to a ring.
maybe_wakeup(s) == (\E p \in Shard : ring[p][s] # <<>>) /\ Wake(s)

-----------------------------------------------------------------------------
(* run_senders() *)

pop_eventually(p) ==
  /\ spc[p] = "pop"
  /\ IF aborted[p]
     THEN spc' = [spc EXCEPT ![p] = "close"] /\ UNCHANGED <<buf, hand>>
     ELSE IF buf[p] = <<>>
     THEN spc' = [spc EXCEPT ![p] = "wait"] /\ UNCHANGED <<buf, hand>>
     ELSE /\ spc' = [spc EXCEPT ![p] = "length"]
          /\ hand' = [hand EXCEPT ![p] = <<Head(buf[p])>>]
          /\ buf' = [buf EXCEPT ![p] = Tail(@)]
  /\ UNCHANGED <<sent, fifo, ring, aborted, fin, wire, broken, in, dropped, stops, asleep>>

\* A write fails once the connection is lost, not because of an abort.
WriteFails(p) == broken[p]

\* The message's serialize() writes the length and then the message.  Writing to a lost
\* connection fails, which ends the sender and leaks the message.
WriteMessage(p) ==
  /\ spc[p] \in {"length", "body"}
  /\ IF WriteFails(p)
     THEN /\ spc' = [spc EXCEPT ![p] = "close"]
          /\ dropped' = dropped \cup Range(hand[p])
          /\ hand' = [hand EXCEPT ![p] = <<>>]
          /\ UNCHANGED wire
     ELSE /\ wire' = [wire EXCEPT ![p] = Append(@, [part |-> spc[p], msg |-> hand[p][1]])]
          /\ spc' = [spc EXCEPT ![p] = IF @ = "length" THEN "body" ELSE "pop"]
          /\ hand' = [hand EXCEPT ![p] = IF spc[p] = "length" THEN @ ELSE <<>>]
          /\ UNCHANGED dropped
  /\ Woken(p)
  /\ UNCHANGED <<flow, fin, broken, in, stops>>

\* close_out_streams(); the variant does not close the stream.
LeftOpen == FALSE

Closed == TRUE

close_out_streams(p) ==
  /\ spc[p] = "close"
  /\ spc' = [spc EXCEPT ![p] = "ended"]
  /\ fin' = [fin EXCEPT ![p] = Closed]
  /\ UNCHANGED <<flow, hand, wire, broken, in, dropped, stops, asleep>>

-----------------------------------------------------------------------------
(* run_receivers() of the other machine *)

Rest(p) == [wire EXCEPT ![p] = Tail(@)]

\* read_exactly(4), and the test that follows it.
ReadLength(p) ==
  /\ rpc[p] = "length" /\ wire[p] # <<>>
  /\ rpc' = [rpc EXCEPT ![p] = IF stopB[p] THEN "ended" ELSE "body"]
  /\ wire' = Rest(p)
  /\ UNCHANGED <<flow, out, broken, received, dropped, stops, asleep>>

\* deserialize() and send(); the loop ends after it if stop() has run.
ReadBody(p) ==
  /\ rpc[p] = "body" /\ wire[p] # <<>>
  /\ LET m == Head(wire[p]).msg IN received' = [received EXCEPT ![m.dst] = Append(@, m)]
  /\ rpc' = [rpc EXCEPT ![p] = IF stopB[p] THEN "ended" ELSE "length"]
  /\ wire' = Rest(p)
  /\ UNCHANGED <<flow, out, broken, dropped, stops, asleep>>

\* The end of the stream where a length is expected, or an error anywhere.
ReadEnd(p) ==
  /\ wire[p] = <<>>
  /\ \/ rpc[p] = "length" /\ (fin[p] \/ broken[p])
     \/ rpc[p] = "body" /\ broken[p]
  /\ rpc' = [rpc EXCEPT ![p] = "ended"]
  /\ UNCHANGED <<flow, out, wire, broken, received, dropped, stops, asleep>>

\* The end of the stream in the middle of a message: the short buffer is
\* deserialized all the same, and some shard gets what it makes of it.
ReadTruncated(p, d) ==
  /\ rpc[p] = "body" /\ wire[p] = <<>> /\ (fin[p] \/ broken[p])
  /\ received' = [received EXCEPT ![d] = Append(@, [src |-> p, dst |-> d, nr |-> 0])]
  /\ rpc' = [rpc EXCEPT ![p] = "ended"]
  /\ UNCHANGED <<flow, out, wire, broken, dropped, stops, asleep>>

-----------------------------------------------------------------------------
(* Faults, and connection_manager::stop() at both ends *)

\* A connection is lost with all but some prefix of what is on the wire.
Break(p, k) ==
  /\ ~broken[p] /\ Cardinality({r \in Shard : broken[r]}) < MaxBreaks
  /\ broken' = [broken EXCEPT ![p] = TRUE]
  /\ wire' = [wire EXCEPT ![p] = SubSeq(@, 1, k)]
  /\ dropped' = dropped \cup {x.msg : x \in {x \in Range(SubSeq(wire[p], k + 1, Len(wire[p]))) : x.part = "body"}}
  /\ UNCHANGED <<flow, out, in, stops, asleep>>

\* buffers_helper::abort() deletes what is buffered.
Buffered(p) == Range(buf[p])

StopSending(p) ==
  /\ ~stopA[p] /\ stopA' = [stopA EXCEPT ![p] = TRUE]
  /\ dropped' = dropped \cup Buffered(p)
  /\ buf' = [buf EXCEPT ![p] = <<>>]
  /\ aborted' = [aborted EXCEPT ![p] = TRUE]
  /\ spc' = [spc EXCEPT ![p] = IF @ = "wait" THEN "pop" ELSE @]
  /\ Woken(p)
  /\ UNCHANGED <<sent, fifo, ring, hand, fin, wire, broken, in, stopB, backFin>>

\* At the other end the sender has nothing to send: stop() ends it and its
\* stream is closed.
StopReceiving(p) ==
  /\ ~stopB[p] /\ stopB' = [stopB EXCEPT ![p] = TRUE]
  /\ UNCHANGED <<flow, out, wire, broken, in, dropped, stopA, backFin, asleep>>

\* The receiver of the sending machine reads the end of that stream.
ReadBackEnd(p) ==
  /\ ~backFin[p] /\ (stopB[p] \/ broken[p])
  /\ backFin' = [backFin EXCEPT ![p] = TRUE]
  /\ Woken(p)
  /\ UNCHANGED <<flow, out, wire, broken, in, dropped, stopA, stopB>>

SenderStep(p)   == pop_eventually(p) \/ WriteMessage(p) \/ close_out_streams(p)
ReceiverStep(p) == ReadLength(p) \/ ReadBody(p) \/ ReadEnd(p) \/ \E d \in Dest : ReadTruncated(p, d)
Incoming(p)     == \E s \in Shard \ {p} : \E k \in 1 .. Len(ring[s][p]) : process_incoming(s, p, k)
Flush(s)        == \E p \in Shard \ {s} : flush_request_batch(s, p)

PathNext ==
  \/ \E s \in Shard, d \in Dest : Send(s, d)
  \/ \E p \in Shard :
       \/ Flush(p) \/ Sleep(p) \/ Wake(p)
       \/ Incoming(p) \/ SenderStep(p) \/ ReceiverStep(p) \/ ReadBackEnd(p)
       \/ StopSending(p) \/ StopReceiving(p)
       \/ \E k \in 0 .. Len(wire[p]) : Break(p, k)

\* A reactor that is awake polls and runs its fibers, one with messages in a
\* ring is woken, and data on a connection that has not broken arrives.
PathFairness ==
  \A p \in Shard :
    /\ WF_pathVars(maybe_wakeup(p)) /\ WF_pathVars(Flush(p))
    /\ WF_pathVars(Incoming(p)) /\ WF_pathVars(SenderStep(p))
    /\ WF_pathVars(ReceiverStep(p)) /\ WF_pathVars(ReadBackEnd(p))

PathSpec == PathInit /\ [][PathNext]_pathVars /\ PathFairness

\* stop() of a machine has returned: both loops of every shard have ended.
StopAReturned == \A p \in Shard : stopA[p] /\ spc[p] = "ended" /\ backFin[p]
StopBReturned == \A p \in Shard : stopB[p] /\ rpc[p] = "ended"

-----------------------------------------------------------------------------
(* Properties. *)

\* Type correctness of the senders, receivers and buffers; an aborted buffer
\* stays empty, since nobody would take its messages out again.
PathTypeOK ==
  /\ \A p \in Shard : /\ spc[p] \in {"pop", "wait", "length", "body", "close", "ended"}
                      /\ rpc[p] \in {"length", "body", "ended"}
                      /\ Len(hand[p]) <= 1
  /\ {aborted[p] : p \in Shard} \cup {fin[p] : p \in Shard} \subseteq BOOLEAN
  /\ \A p \in Shard : aborted[p] => buf[p] = <<>>
  /\ \A s, p \in Shard : Len(ring[s][p]) <= RingCap

\* A message that has been sent is in one place: a queue, a buffer, the hand
\* of a sender, a connection, handed over, or dropped.
MessageInOnePlace ==
  \A s \in Shard, d \in Dest : \A n \in 1 .. sent[s][d] :
    LET m == [src |-> s, dst |-> d, nr |-> n]
        Count(q) == Cardinality({i \in DOMAIN q : q[i] = m})
        Bodies(p) == Cardinality({i \in DOMAIN wire[p] : wire[p][i] = [part |-> "body", msg |-> m]})
        In(p) == Count(fifo[s][p]) + Count(ring[s][p]) + Count(buf[p]) + Count(hand[p]) + Bodies(p)
    IN FoldFunctionOnSet(+, 0, [p \in Shard |-> In(p)], Shard)
         + Count(received[d]) + (IF m \in dropped THEN 1 ELSE 0) = 1

\* What a shard gets from another is always a prefix of what was sent to it,
\* in order and without a gap, also when connections break or end.
FifoWithoutGap ==
  \A s \in Shard, d \in Dest :
    LET got == SelectSeq(received[d], LAMBDA m : m.src = s /\ m.nr > 0)
    IN \A i \in DOMAIN got : got[i].nr = i

\* A truncated message is deserialized only after a connection has broken:
\* a stream is never closed in the middle of a message.
TruncatedOnlyWhenBroken ==
  \A d \in Dest : \A i \in DOMAIN received[d] :
    received[d][i].nr = 0 => broken[received[d][i].src]

\* The messages between two machines, whatever breaks or stops: none is in
\* two places or gone unnoticed, overtaken, or cut by an orderly close.
PathSafe == PathTypeOK /\ MessageInOnePlace /\ FifoWithoutGap /\ TruncatedOnlyWhenBroken

\* The messages of s that have been handed over or are still in its fifos.
Arrived(s, d) == Len(SelectSeq(received[d], LAMBDA m : m.src = s))
Held(s, d) ==
  FoldFunctionOnSet(+, 0, [p \in Shard |-> Len(SelectSeq(fifo[s][p], LAMBDA m : m.dst = d))], Shard)

\* Unless a connection breaks or a machine stops, everything that has left
\* the fifo of its shard arrives; and so does everything that a shard sends
\* which does not sleep for ever.  With the ring full it may fall asleep on a
\* fifo, and the proxy does not wake it when it takes from the ring.
EverythingArrives ==
  \A s \in Shard :
    \/ <>(\E p \in Shard : broken[p] \/ stopA[p] \/ stopB[p])
    \/ /\ []<>(\A d \in Dest : Arrived(s, d) + Held(s, d) = sent[s][d])
       /\ <>[]asleep[s] \/ []<>(\A d \in Dest : Arrived(s, d) = sent[s][d])

\* When both machines stop, stop() returns on both: each ends the loops of
\* the other by closing its streams.
BothStopsReturn ==
  (\A p \in Shard : stopA[p] /\ stopB[p]) ~> (StopAReturned /\ StopBReturned)

=============================================================================
