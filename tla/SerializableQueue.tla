-------------------------- MODULE SerializableQueue --------------------------
(***************************************************************************)
(* serializable_queue, the buffers of a message's payload: an array, and a *)
(* linked list of arrays for what does not fit; and the way of a payload   *)
(* over the network, through serialize() of the message and deserialize()  *)
(* of the receiver.  A buffer is the sequence of its bytes.  On the wire   *)
(* every 32-bit word is one unit, as long as a byte.                       *)
(*                                                                         *)
(* The callers use a queue in this order: they push, move the queue into a *)
(* message, and pop.  Both the guards of push and Move below are theirs.   *)
(***************************************************************************)
EXTENDS Integers, Sequences, SequencesExt

CONSTANTS
  Buffer,          \* the buffers a payload is made of
  ArrayCap,        \* ARRAY_BUFFER_SIZE
  HeaderLength,    \* sizeof(actor_message::header), in units
  MaxBuffers       \* bound on the buffers pushed

VARIABLES
  sq,              \* the queue: [array, nodes, count, size]
  sqTaken,         \* the buffers that have been popped
  sqMoved          \* the queue has been moved or received

sqVars == <<sq, sqTaken, sqMoved>>

-----------------------------------------------------------------------------
(* tmpbuf_array *)

NewArray == [bufs |-> <<>>, cur |-> 0]

\* is_full(); the variant counts what has not been popped.
HoldsCap(a) == Len(a.bufs) - a.cur = ArrayCap

ArrayFull(a) == Len(a.bufs) = ArrayCap

ArrayEmpty(a) == a.cur = Len(a.bufs)

ArrayPush(a, b) == [a EXCEPT !.bufs = Append(@, b)]

ArrayRest(a) == SubSeq(a.bufs, a.cur + 1, Len(a.bufs))

-----------------------------------------------------------------------------
(* tmpbuf_linked_list: nodes from head to tail, and node_count, which need *)
(* not be their number.                                                    *)

\* Stands for 2^32, the range of the unsigned node_count, which TLC's
\* integers do not reach.
CountMod == 2 ^ 16

NeedsNode(q) == q.count = 0 \/ ArrayFull(Last(q.nodes))

ListPush(q, b) ==
  IF NeedsNode(q)
  THEN [q EXCEPT !.nodes = IF q.count = 0 THEN <<ArrayPush(NewArray, b)>>
                                          ELSE Append(@, ArrayPush(NewArray, b)),
                 !.count = @ + 1]
  ELSE [q EXCEPT !.nodes[Len(q.nodes)] = ArrayPush(@, b)]

\* The nodes that pop() finds drained it takes out of the list.
FirstNode(q) == CHOOSE k \in DOMAIN q.nodes :
                  ~ArrayEmpty(q.nodes[k]) /\ \A j \in 1 .. k - 1 : ArrayEmpty(q.nodes[j])

ListPop(q) ==
  LET k == FirstNode(q) IN
  [q EXCEPT !.nodes = [SubSeq(@, k, Len(@)) EXCEPT ![1].cur = @ + 1],
            !.count = (@ - (k - 1)) % CountMod]

ListFront(q) == LET a == q.nodes[FirstNode(q)] IN a.bufs[a.cur + 1]

-----------------------------------------------------------------------------
(* serializable_queue *)

EmptyQueue == [array |-> NewArray, nodes |-> <<>>, count |-> 0, size |-> 0]

QueuePush(q, b) ==
  LET r == [q EXCEPT !.size = @ + 1] IN
  IF ArrayFull(q.array) THEN ListPush(r, b) ELSE [r EXCEPT !.array = ArrayPush(@, b)]

QueueFront(q) == IF ArrayEmpty(q.array) THEN ListFront(q) ELSE q.array.bufs[q.array.cur + 1]

QueuePop(q) ==
  LET r == [q EXCEPT !.size = @ - 1] IN
  IF ArrayEmpty(q.array) THEN ListPop(r) ELSE [r EXCEPT !.array.cur = @ + 1]

Remaining(q) ==
  ArrayRest(q.array) \o FlattenSeq([i \in DOMAIN q.nodes |-> ArrayRest(q.nodes[i])])

get_buffer_size(q) == Len(FlattenSeq(Remaining(q)))

\* The move constructors keep neither cur_idx nor node_count.
QueueMoved(q) == [q EXCEPT !.array.cur = 0, !.count = 0]

\* peek(): in the list, whatever the head node has at its cursor.
PeekDefined(q) == ~ArrayEmpty(q.array) \/ ~ArrayEmpty(Head(q.nodes))

QueuePeek(q) ==
  IF ArrayEmpty(q.array) THEN Head(q.nodes).bufs[Head(q.nodes).cur + 1]
  ELSE q.array.bufs[q.array.cur + 1]

-----------------------------------------------------------------------------
(* serialize() and deserialize() *)

\* The number of units that follow the length.
MessageLength(q) == HeaderLength + 1 + q.size + get_buffer_size(q)

serialize(q) ==
  <<MessageLength(q)>> \o [i \in 1 .. HeaderLength |-> 0] \o <<q.size>>
    \o FlattenSeq([i \in DOMAIN Remaining(q) |-> <<Len(Remaining(q)[i])>> \o Remaining(q)[i]])

deserialize(units) ==
  FoldLeft(LAMBDA acc, i :
             LET len == units[acc.pos] IN
             [pos |-> acc.pos + len + 1,
              q   |-> QueuePush(acc.q, SubSeq(units, acc.pos + 1, acc.pos + len))],
           [pos |-> HeaderLength + 2, q |-> EmptyQueue],
           [i \in 1 .. units[HeaderLength + 1] |-> i]).q

\* The receiver reads the length and that many units; others follow.
Receive(stream) == deserialize(SubSeq(stream, 2, stream[1] + 1))

-----------------------------------------------------------------------------
SqInit == sq = EmptyQueue /\ sqTaken = <<>> /\ sqMoved = FALSE

SqPush(b) ==
  /\ ~sqMoved /\ Len(sqTaken) + sq.size < MaxBuffers
  /\ sq' = QueuePush(sq, b) /\ UNCHANGED <<sqTaken, sqMoved>>

SqPop ==
  /\ sq.size > 0
  /\ sqTaken' = Append(sqTaken, QueueFront(sq)) /\ sq' = QueuePop(sq)
  /\ UNCHANGED sqMoved

SqMove ==
  /\ sqTaken = <<>>
  /\ sq' = QueueMoved(sq) /\ sqMoved' = TRUE /\ UNCHANGED sqTaken

SqTransmit ==
  /\ sqTaken = <<>> /\ ~sqMoved
  /\ sq' = QueueMoved(Receive(serialize(sq) \o <<1, 1, 1>>)) /\ sqMoved' = TRUE
  /\ UNCHANGED sqTaken

SqNext == (\E b \in Buffer : SqPush(b)) \/ SqPop \/ SqMove \/ SqTransmit

-----------------------------------------------------------------------------
(* Properties. *)

\* _size is the number of buffers in the queue, so nothing pushed is lost.
SizeIsCount == sq.size = Len(Remaining(sq))

\* Where it is defined, peek() is the buffer that pop() takes.  It is not
\* defined when pop() has drained the head node of the list.
PeekIsFront == sq.size > 0 /\ PeekDefined(sq) => QueuePeek(sq) = Head(Remaining(sq))

\* A queue used in the callers' order is a FIFO queue, across the boundary
\* between array and list, across nodes, and across a move and the network;
\* size() and peek() agree with it.
Fifo == INSTANCE FifoQueue WITH queue <- Remaining(sq), taken <- sqTaken

SerializableIsFifo == Fifo!Spec /\ [](SizeIsCount /\ PeekIsFront)

=============================================================================
