----------------------------- MODULE FifoQueue -----------------------------
(***************************************************************************)
(* A queue: what serializable_queue promises to the code that fills it     *)
(* with the buffers of a message and to the code that takes them out.      *)
(***************************************************************************)
EXTENDS Sequences

CONSTANT Buffer

VARIABLES queue,   \* the buffers in the queue
          taken    \* the buffers taken out of it

Init == queue = <<>> /\ taken = <<>>

Push == \E b \in Buffer : queue' = Append(queue, b) /\ UNCHANGED taken

Pop ==
  /\ queue # <<>>
  /\ taken' = Append(taken, Head(queue)) /\ queue' = Tail(queue)

Spec == Init /\ [][Push \/ Pop]_<<queue, taken>>

=============================================================================
