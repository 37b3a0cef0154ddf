---------------------------- MODULE ColumnBatch ----------------------------
(***************************************************************************)
(* Column batches: fixed_column_batch, whose buffer holds a size and the   *)
(* elements, and dynamic_column_batch, with a meta buffer that holds a     *)
(* size and an offset and a length per element, and a data buffer.  A      *)
(* batch x may be shared or moved to y, dumped, and loaded again.          *)
(***************************************************************************)
EXTENDS Integers, Sequences, FiniteSets, SequencesExt

CONSTANTS
  Element,     \* the elements, sequences of data; of length 1 in a fixed batch
  Capacity,    \* capacity of a batch
  Reserves,    \* the values of init_reserved
  UIntMod      \* 2^32

Handle == {"x", "y"}
None   == [kind |-> "none", meta |-> 0, data |-> 0, size |-> 0, cap |-> 0, occ |-> 0, res |-> 0]

VARIABLES
  batch,       \* batch[h]: kind, the ids of its buffers, _size, _capacity, occupied, _reserved
  memory,      \* memory[i]: [used, cells] of the buffer with id i
  dumped,      \* dumped[h]: the batch whose buffers the dump of h consists of, or None
  content,     \* content[h]: what has been pushed to the batch h (or its dump)
  pushers,     \* the batches that have been pushed to since the share
  dumpers,     \* the batches that have been dumped since the share
  fault        \* <<>>, or what a push ran into: <<what, batch, element>>

cbVars == <<batch, memory, dumped, content, pushers, dumpers, fault>>

NewBuffer(cells) == [used |-> 0, cells |-> cells]

CbInit ==
  /\ \E k \in {"fixed", "dynamic"}, r \in Reserves :
       batch = [h \in Handle |-> IF h = "y" THEN None
                  ELSE [None EXCEPT !.kind = k, !.meta = 1, !.data = 2, !.cap = Capacity, !.res = r]]
  /\ memory = <<NewBuffer([i \in 1 .. Capacity |-> <<>>]), NewBuffer(<<>>)>>
  /\ dumped = [h \in Handle |-> None] /\ content = [h \in Handle |-> <<>>]
  /\ pushers = {} /\ dumpers = {} /\ fault = <<>>

-----------------------------------------------------------------------------
(* Growing *)

\* The loop of ensure_space() ends.
Enough(reserved, required) == reserved >= required

\* _reserved is doubled until it is enough; if it never is, 0.
ensure_space(reserved, required) ==
  IF required <= reserved THEN reserved
  ELSE LET grown == {k \in 1 .. UIntMod : Enough((reserved * 2 ^ k) % UIntMod, required)}
       IN IF grown = {} THEN 0
          ELSE (reserved * 2 ^ (CHOOSE k \in grown : \A j \in grown : k <= j)) % UIntMod

\* The data buffer after memcpy of the occupied part and of the element.
\* The variant forgets the first.
NotCopied(cells, occ, e) == [i \in 1 .. occ |-> 0] \o e

Copied(cells, occ, e) == SubSeq(cells, 1, occ) \o e

-----------------------------------------------------------------------------
(* push_back(), push_back_helper().  Neither tests for a place: the loop of *)
(* ensure_space() may not end, and a write may be outside of the buffer.    *)
(* What follows either is undefined and not modelled.                       *)

Fault(what, h, e) == fault' = <<what, h, e>> /\ UNCHANGED <<memory, batch>>

PushFixed(h, e) ==
  LET b == batch[h] IN
  /\ b.kind = "fixed" /\ Len(e) = 1
  /\ IF b.size >= b.cap
     THEN Fault("overrun", h, e)
     ELSE /\ memory' = [memory EXCEPT ![b.meta].cells[b.size + 1] = e]
          /\ batch' = [batch EXCEPT ![h].size = @ + 1]
          /\ UNCHANGED fault

PushDynamic(h, e) ==
  LET b     == batch[h]
      req   == (b.occ + Len(e)) % UIntMod
      res   == ensure_space(b.res, req)
      moves == res # b.res
      cells == Copied(memory[b.data].cells, b.occ, e)
               \o SubSeq(memory[b.data].cells, b.occ + Len(e) + 1, Len(memory[b.data].cells))
      meta  == [memory EXCEPT ![b.meta].cells[b.size + 1] = <<b.occ, Len(e)>>]
  IN
  /\ b.kind = "dynamic"
  /\ IF res < req THEN Fault("loops", h, e)
     ELSE IF b.size >= b.cap \/ b.occ + Len(e) > res THEN Fault("overrun", h, e)
     ELSE /\ memory' = IF moves THEN Append(meta, NewBuffer(Copied(memory[b.data].cells, b.occ, e)))
                                ELSE [meta EXCEPT ![b.data].cells = cells]
          /\ batch' = [batch EXCEPT ![h].size = @ + 1, ![h].occ = @ + Len(e), ![h].res = res,
                                    ![h].data = IF moves THEN Len(memory) + 1 ELSE @]
          /\ UNCHANGED fault

push_back(h, e) ==
  /\ fault = <<>>
  /\ PushFixed(h, e) \/ PushDynamic(h, e)
  /\ content' = IF fault' = <<>> THEN [content EXCEPT ![h] = Append(@, e)] ELSE content
  /\ pushers' = pushers \cup {h}
  /\ UNCHANGED <<dumped, dumpers>>

-----------------------------------------------------------------------------
(* share(), the move, dump_to() and the constructors from buffers *)

\* A batch that has its buffers; one that is left without, by a move or a
\* dump, is still a batch.
Live(h) == batch[h].meta # 0

Emptied(b) == [None EXCEPT !.kind = b.kind]

share ==
  /\ fault = <<>> /\ Live("x") /\ ~Live("y") /\ dumped["y"] = None
  /\ batch' = [batch EXCEPT !["y"] = batch["x"]]
  /\ content' = [content EXCEPT !["y"] = content["x"]]
  /\ pushers' = {} /\ dumpers' = {}
  /\ UNCHANGED <<memory, dumped, fault>>

move ==
  /\ fault = <<>> /\ Live("x") /\ ~Live("y") /\ dumped["y"] = None
  /\ batch' = [batch EXCEPT !["y"] = batch["x"], !["x"] = Emptied(batch["x"])]
  /\ content' = [content EXCEPT !["y"] = content["x"], !["x"] = <<>>]
  /\ pushers' = {"y" : h \in pushers} /\ dumpers' = {"y" : h \in dumpers}
  /\ UNCHANGED <<memory, dumped, fault>>

dump_to(h) ==
  /\ fault = <<>> /\ Live(h) /\ dumped[h] = None
  /\ memory' = [memory EXCEPT ![batch[h].meta].used = batch[h].size]
  /\ dumped' = [dumped EXCEPT ![h] = batch[h]]
  /\ batch' = [batch EXCEPT ![h] = Emptied(@)]
  /\ dumpers' = dumpers \cup {h}
  /\ UNCHANGED <<content, pushers, fault>>

\* get_occupied(): from the last element.  Without elements it reads in front
\* of the meta data and may be anything.
Occupied(b) ==
  LET n == memory[b.meta].used IN
  IF b.kind = "fixed" THEN {0}
  ELSE IF n = 0 THEN {0, 1}
  ELSE {memory[b.meta].cells[n][1] + memory[b.meta].cells[n][2]}

load(h) ==
  /\ fault = <<>> /\ dumped[h] # None
  /\ LET d == dumped[h]
         n == memory[d.meta].used
     IN \E o \in Occupied(d) :
          batch' = [batch EXCEPT ![h] = [d EXCEPT !.size = n, !.cap = n, !.occ = o, !.res = o]]
  /\ dumped' = [dumped EXCEPT ![h] = None]
  /\ UNCHANGED <<memory, content, pushers, dumpers, fault>>

CbNext ==
  \/ \E h \in Handle : (\E e \in Element : push_back(h, e)) \/ dump_to(h) \/ load(h)
  \/ share \/ move

\* operator[] of every index.
View(h) ==
  LET b == batch[h] IN
  [i \in 1 .. b.size |->
     LET c == memory[b.meta].cells[i] IN
     IF b.kind = "fixed" THEN c ELSE SubSeq(memory[b.data].cells, c[1] + 1, c[1] + c[2])]

-----------------------------------------------------------------------------
(* Properties. *)

\* Of two batches that share buffers, only one is pushed to and one dumped.
Exclusive == Cardinality(pushers) <= 1 /\ Cardinality(dumpers) <= 1

\* A batch shows what was pushed to it, also after it has grown, was moved,
\* or was dumped and loaded; and so does a share, as long as only one of the
\* two is pushed to and only one is dumped.
ViewIsContent == Exclusive => \A h \in Handle : Live(h) => View(h) = content[h]

\* What the data of a batch with one more element comes to.
DataSize(h, e) == FoldSeq(LAMBDA f, n : Len(f) + n, Len(e), content[h])

\* A push returns and writes inside of the buffers, unless the batch was
\* moved from or dumped, has had as many elements as were asked for, or is
\* loaded, which leaves no capacity.  A dynamic batch must also have a
\* reserve to double; it may fail to return once it needs over half of what
\* 32 bits can count, and write outside once it needs more than they can.
PushHasPlace ==
  Exclusive /\ fault # <<>> =>
    LET h == fault[2]
        b == batch[h]
    IN \/ ~Live(h) \/ b.cap < Capacity \/ Len(content[h]) >= Capacity
       \/ fault[1] = "loops" /\ (b.res = 0 \/ DataSize(h, fault[3]) > UIntMod \div 2)
       \/ fault[1] = "overrun" /\ b.kind = "dynamic" /\ DataSize(h, fault[3]) >= UIntMod

\* What callers rely on in every order of push, share, move, dump and load.
BatchSound == ViewIsContent /\ PushHasPlace

=============================================================================
