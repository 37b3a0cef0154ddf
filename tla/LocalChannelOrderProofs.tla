----------------------- MODULE LocalChannelOrderProofs -----------------------
(***************************************************************************)
(* Proofs about LocalChannel, for every number of shards, length of the    *)
(* queues and size of the batches: that the fifos, the bounded queues, the *)
(* prefetched entries and the polling loops together are one queue per     *)
(* pair of shards (MessageChannel), and that every message is in it or     *)
(* received exactly once and in order.                                     *)
(*                                                                         *)
(* Both follow from one fact (QueueStep): a step leaves the messages on    *)
(* their way as they are, inserts one, at the end unless it is urgent, or  *)
(* delivers some from the head.                                            *)
(***************************************************************************)
EXTENDS LocalChannelProofs

(***************************************************************************)
(* Sequences.  The equations between concatenations are operators of their *)
(* own: a step cites the lemma for the sequences it is about and expands   *)
(* the equation in the next one.                                           *)
(***************************************************************************)
Insert(q, k, m) == SubSeq(q, 1, k) \o <<m>> \o SubSeq(q, k + 1, Len(q))

(* A sequence is cut in two. *)
LEMMA Cut ==
  ASSUME NEW S, NEW q \in Seq(S), NEW k \in 0 .. Len(q)
  PROVE  /\ SubSeq(q, 1, k) \in Seq(S) /\ Len(SubSeq(q, 1, k)) = k
         /\ SubSeq(q, k + 1, Len(q)) \in Seq(S) /\ Len(SubSeq(q, k + 1, Len(q))) = Len(q) - k
         /\ SubSeq(q, 1, k) \o SubSeq(q, k + 1, Len(q)) = q
         /\ \A i \in 1 .. k : SubSeq(q, 1, k)[i] = q[i]
         /\ \A i \in 1 .. Len(q) - k : SubSeq(q, k + 1, Len(q))[i] = q[k + i]
<1>1. Len(q) \in Nat /\ k \in Nat /\ k <= Len(q) /\ \A i \in 1 .. Len(q) : q[i] \in S
  BY LenProperties, ElementOfSeq
<1>2. (\A i \in 1 .. k : q[i] \in S) /\ \A i \in (k + 1) .. Len(q) : q[i] \in S
  BY <1>1
<1>3. /\ SubSeq(q, 1, k) \in Seq(S) /\ Len(SubSeq(q, 1, k)) = IF 1 <= k THEN k - 1 + 1 ELSE 0
      /\ \A i \in 1 .. k - 1 + 1 : SubSeq(q, 1, k)[i] = q[1 + i - 1]
  BY <1>1, <1>2, SubSeqProperties
<1>4. /\ SubSeq(q, k + 1, Len(q)) \in Seq(S)
      /\ Len(SubSeq(q, k + 1, Len(q))) = IF k + 1 <= Len(q) THEN Len(q) - (k + 1) + 1 ELSE 0
      /\ \A i \in 1 .. Len(q) - (k + 1) + 1 : SubSeq(q, k + 1, Len(q))[i] = q[k + 1 + i - 1]
  BY <1>1, <1>2, SubSeqProperties
<1>5. SubSeq(q, 1, k) \o SubSeq(q, k + 1, Len(q)) = SubSeq(q, 1, Len(q))
  <2>1. 1 \in 1 .. Len(q) + 1 /\ k \in 1 - 1 .. Len(q) /\ Len(q) \in k .. Len(q)
    BY <1>1
  <2> QED BY <2>1, ConcatAdjacentSubSeq
<1>6. SubSeq(q, 1, Len(q)) = q
  BY SubSeqFull
<1>7. /\ Len(SubSeq(q, 1, k)) = k /\ Len(SubSeq(q, k + 1, Len(q))) = Len(q) - k
  BY <1>1, <1>3, <1>4
<1>8. \A i \in 1 .. k : SubSeq(q, 1, k)[i] = q[i]
  <2> SUFFICES ASSUME NEW i \in 1 .. k PROVE SubSeq(q, 1, k)[i] = q[i]
    OBVIOUS
  <2>1. i \in 1 .. k - 1 + 1 /\ 1 + i - 1 = i
    BY <1>1
  <2> QED BY <1>3, <2>1
<1>9. \A i \in 1 .. Len(q) - k : SubSeq(q, k + 1, Len(q))[i] = q[k + i]
  <2> SUFFICES ASSUME NEW i \in 1 .. Len(q) - k PROVE SubSeq(q, k + 1, Len(q))[i] = q[k + i]
    OBVIOUS
  <2>1. i \in 1 .. Len(q) - (k + 1) + 1 /\ k + 1 + i - 1 = k + i
    BY <1>1
  <2> QED BY <1>4, <2>1
<1> QED BY <1>3, <1>4, <1>5, <1>6, <1>7, <1>8, <1>9

(* What is before the place of the insertion stays, the rest moves up.     *)
LEMMA InsertProperties ==
  ASSUME NEW S, NEW q \in Seq(S), NEW k \in 0 .. Len(q), NEW m \in S
  PROVE  /\ Insert(q, k, m) \in Seq(S) /\ Len(Insert(q, k, m)) = Len(q) + 1
         /\ \A i \in 1 .. Len(q) + 1 :
              Insert(q, k, m)[i] = IF i <= k THEN q[i] ELSE IF i = k + 1 THEN m ELSE q[i - 1]
<1> DEFINE a == SubSeq(q, 1, k)
           b == SubSeq(q, k + 1, Len(q))
<1>1. /\ a \in Seq(S) /\ Len(a) = k /\ b \in Seq(S) /\ Len(b) = Len(q) - k
      /\ (\A i \in 1 .. k : a[i] = q[i]) /\ \A i \in 1 .. Len(q) - k : b[i] = q[k + i]
  BY Cut
<1>2. Len(q) \in Nat /\ k \in Nat /\ k <= Len(q)
  BY LenProperties
<1>3. <<m>> \in Seq(S) /\ Len(<<m>>) = 1 /\ <<m>>[1] = m
  OBVIOUS
<1> HIDE DEF a, b
<1> DEFINE c == a \o <<m>>
<1>4. /\ c \in Seq(S) /\ Len(c) = k + 1
      /\ \A i \in 1 .. k + 1 : c[i] = IF i <= k THEN a[i] ELSE <<m>>[i - k]
  BY <1>1, <1>3, ConcatProperties
<1>5. Insert(q, k, m) = c \o b
  BY DEF Insert, a, b
<1> HIDE DEF c
<1>6. /\ c \o b \in Seq(S) /\ Len(c \o b) = Len(q) + 1
      /\ \A i \in 1 .. Len(q) + 1 : (c \o b)[i] = IF i <= k + 1 THEN c[i] ELSE b[i - (k + 1)]
  <2>1. /\ c \o b \in Seq(S) /\ Len(c \o b) = Len(c) + Len(b)
        /\ \A i \in 1 .. Len(c) + Len(b) : (c \o b)[i] = IF i <= Len(c) THEN c[i] ELSE b[i - Len(c)]
    <3>1. c \in Seq(S) /\ b \in Seq(S)
      BY <1>1, <1>4
    <3> QED BY <3>1, ConcatProperties
  <2>2. Len(c) + Len(b) = Len(q) + 1
    BY <1>1, <1>2, <1>4
  <2> QED BY <1>4, <2>1, <2>2
<1>7. ASSUME NEW i \in 1 .. Len(q) + 1
      PROVE  Insert(q, k, m)[i] = IF i <= k THEN q[i] ELSE IF i = k + 1 THEN m ELSE q[i - 1]
  <2>1. CASE i <= k
    BY <1>1, <1>2, <1>4, <1>5, <1>6, <2>1
  <2>2. CASE i = k + 1
    BY <1>2, <1>3, <1>4, <1>5, <1>6, <2>2
  <2>3. CASE i > k + 1
    <3>1. i - (k + 1) \in 1 .. Len(q) - k /\ k + (i - (k + 1)) = i - 1
      BY <1>2, <2>3
    <3>2. b[i - (k + 1)] = q[i - 1]
      BY <1>1, <3>1
    <3>3. ~(i <= k + 1) /\ (c \o b)[i] = b[i - (k + 1)]
      BY <1>2, <1>6, <2>3
    <3> QED BY <1>2, <1>5, <2>3, <3>2, <3>3
  <2> QED BY <1>2, <2>1, <2>2, <2>3
<1> QED BY <1>2, <1>5, <1>6, <1>7

(* The messages of one pair, received or on their way.                     *)
InOrder(all, n) ==
  /\ Len(all) = n /\ {m.seq : m \in ToSet(all)} = 1 .. n
  /\ \A i, j \in DOMAIN all :
       i < j /\ ~all[i].urgent /\ ~all[j].urgent => all[i].seq < all[j].seq

(* A new message, urgent or at the end, keeps a sequence in order.         *)
LEMMA InsertInOrder ==
  ASSUME NEW all \in Seq(Message), NEW k \in 0 .. Len(all), NEW m \in Message, NEW n \in Nat,
         InOrder(all, n), m.seq = n + 1, m.urgent \/ k = Len(all)
  PROVE  InOrder(Insert(all, k, m), n + 1)
<1> DEFINE new == Insert(all, k, m)
<1>1. /\ new \in Seq(Message) /\ Len(new) = n + 1 /\ Len(all) = n /\ k \in 0 .. n
      /\ \A i \in 1 .. n + 1 : new[i] = IF i <= k THEN all[i] ELSE IF i = k + 1 THEN m ELSE all[i - 1]
  <2>1. Len(all) = n
    BY DEF InOrder
  <2>2. /\ new \in Seq(Message) /\ Len(new) = Len(all) + 1
        /\ \A i \in 1 .. Len(all) + 1 :
             new[i] = IF i <= k THEN all[i] ELSE IF i = k + 1 THEN m ELSE all[i - 1]
    BY InsertProperties
  <2> HIDE DEF new
  <2> QED BY <2>1, <2>2
<1>2. DOMAIN new = 1 .. n + 1 /\ DOMAIN all = 1 .. n
  BY <1>1, LenProperties
<1> HIDE DEF new
<1>3. /\ \A i \in 1 .. n : all[i].seq \in 1 .. n
      /\ \A x \in 1 .. n : \E i \in 1 .. n : all[i].seq = x
  <2>1. {all[i] : i \in DOMAIN all} = ToSet(all)
    BY DEF ToSet
  <2>2. {e.seq : e \in ToSet(all)} = 1 .. n
    BY DEF InOrder
  <2> QED BY <1>2, <2>1, <2>2
<1>4. \A i \in 1 .. n + 1 : new[i].seq \in 1 .. n + 1
  <2> SUFFICES ASSUME NEW i \in 1 .. n + 1 PROVE new[i].seq \in 1 .. n + 1
    OBVIOUS
  <2>1. CASE i <= k
    <3>1. i \in 1 .. n /\ new[i] = all[i]
      BY <1>1, <2>1
    <3> QED BY <1>3, <3>1
  <2>2. CASE i = k + 1
    BY <1>1, <2>2
  <2>3. CASE i > k + 1
    <3>1. i - 1 \in 1 .. n /\ new[i] = all[i - 1]
      BY <1>1, <2>3
    <3>2. all[i - 1].seq \in 1 .. n
      BY <1>3, <3>1
    <3> QED BY <3>1, <3>2
  <2> QED BY <1>1, <2>1, <2>2, <2>3
<1>5. \A x \in 1 .. n + 1 : \E i \in 1 .. n + 1 : new[i].seq = x
  <2> SUFFICES ASSUME NEW x \in 1 .. n + 1 PROVE \E i \in 1 .. n + 1 : new[i].seq = x
    OBVIOUS
  <2>1. CASE x = n + 1
    <3>1. k + 1 \in 1 .. n + 1 /\ new[k + 1] = m
      BY <1>1
    <3> QED BY <2>1, <3>1
  <2>2. CASE x # n + 1
    <3> x \in 1 .. n
      BY <2>2
    <3>1. PICK j \in 1 .. n : all[j].seq = x
      BY <1>3
    <3>2. CASE j <= k
      <4>1. j \in 1 .. n + 1 /\ new[j] = all[j]
        BY <1>1, <3>2
      <4> QED BY <3>1, <4>1
    <3>3. CASE j > k
      <4>1. j + 1 \in 1 .. n + 1 /\ new[j + 1] = all[j]
        BY <1>1, <3>3
      <4> QED BY <3>1, <4>1
    <3> QED BY <1>1, <3>2, <3>3
  <2> QED BY <2>1, <2>2
<1>6. {e.seq : e \in ToSet(new)} = 1 .. n + 1
  <2>1. {new[i] : i \in 1 .. n + 1} = ToSet(new)
    BY <1>2 DEF ToSet
  <2>2. {e.seq : e \in ToSet(new)} = {new[i].seq : i \in 1 .. n + 1}
    BY <2>1
  <2>3. {new[i].seq : i \in 1 .. n + 1} \subseteq 1 .. n + 1
    BY <1>4
  <2>4. 1 .. n + 1 \subseteq {new[i].seq : i \in 1 .. n + 1}
    BY <1>5
  <2> QED BY <2>2, <2>3, <2>4
<1>7. ASSUME NEW i \in 1 .. n + 1, NEW j \in 1 .. n + 1, i < j, ~new[i].urgent, ~new[j].urgent
      PROVE  new[i].seq < new[j].seq
  <2> DEFINE old(x) == IF x <= k THEN x ELSE x - 1
  <2>1. \A x \in 1 .. n + 1 : x # k + 1 => old(x) \in 1 .. n /\ new[x] = all[old(x)]
    BY <1>1
  <2>2. CASE i # k + 1 /\ j # k + 1
    <3>1. old(i) < old(j)
      BY <1>1, <1>7, <2>2
    <3>2. \A a, b \in 1 .. n : a < b /\ ~all[a].urgent /\ ~all[b].urgent => all[a].seq < all[b].seq
      BY <1>2 DEF InOrder
    <3> QED BY <1>7, <2>1, <2>2, <3>1, <3>2
  <2>3. CASE i = k + 1 \/ j = k + 1
    <3>1. new[k + 1] = m /\ k = n
      BY <1>1, <1>7, <2>3
    <3>2. j = n + 1 /\ i \in 1 .. n /\ new[i] = all[i]
      BY <1>1, <1>7, <2>3, <3>1
    <3>3. all[i].seq \in 1 .. n /\ new[j].seq = n + 1
      BY <1>3, <3>1, <3>2
    <3> QED BY <3>2, <3>3
  <2> QED BY <2>2, <2>3
<1> QED BY <1>1, <1>2, <1>6, <1>7 DEF InOrder, new

(* The end of one sequence and the beginning of the next. *)
Regrouped(h, r, a, b) == h \o (r \o a) \o b = h \o r \o (a \o b)

(* Moving messages from the fifo to the queue regroups a concatenation.    *)
LEMMA Regroup ==
  ASSUME NEW h \in Seq(Message), NEW r \in Seq(Message), NEW a \in Seq(Message), NEW b \in Seq(Message)
  PROVE  Regrouped(h, r, a, b)
<1>1. /\ r \o a \in Seq(Message) /\ h \o (r \o a) = (h \o r) \o a /\ h \o r \in Seq(Message)
  OBVIOUS
<1>2. ((h \o r) \o a) \o b = (h \o r) \o (a \o b)
  OBVIOUS
<1> QED BY <1>1, <1>2 DEF Regrouped

Assoc(a, b, c) == (a \o b) \o c = a \o (b \o c)

(* Concatenation of message sequences is associative.                      *)
LEMMA ConcatAssoc ==
  ASSUME NEW a \in Seq(Message), NEW b \in Seq(Message), NEW c \in Seq(Message)
  PROVE  Assoc(a, b, c)
BY DEF Assoc

(* The two parts of a concatenation. *)
Parts(x, y) ==
  /\ x \o y \in Seq(Message) /\ Len(x \o y) = Len(x) + Len(y)
  /\ SubSeq(x \o y, 1, Len(x)) = x /\ SubSeq(x \o y, Len(x) + 1, Len(x \o y)) = y

(* A concatenation is cut into its two parts.                              *)
LEMMA ConcatParts ==
  ASSUME NEW x \in Seq(Message), NEW y \in Seq(Message)
  PROVE  Parts(x, y)
<1>1. /\ x \o y \in Seq(Message) /\ Len(x \o y) = Len(x) + Len(y)
  OBVIOUS
<1>2. SubSeq(x \o y, 1, Len(x)) = x
  OBVIOUS
<1>3. SubSeq(x \o y, Len(x) + 1, Len(x \o y)) = y
  OBVIOUS
<1> QED BY <1>1, <1>2, <1>3 DEF Parts

(* The second pop of process_incoming() delivers what is in the hand and   *)
(* what is visible.                                                        *)
Taken(h, r, f, n) ==
  /\ SubSeq(h \o r \o f, 1, Len(h) + n) = h \o SubSeq(r, 1, n)
  /\ SubSeq(h \o r \o f, Len(h) + n + 1, Len(h \o r \o f)) = SubSeq(r, n + 1, Len(r)) \o f
  /\ Len(h) + n \in 0 .. Len(h \o r \o f)

(* Cutting after the visible part of the queue cuts the whole there.       *)
LEMMA TakenParts ==
  ASSUME NEW h \in Seq(Message), NEW r \in Seq(Message), NEW f \in Seq(Message), NEW n \in 0 .. Len(r)
  PROVE  Taken(h, r, f, n)
<1> DEFINE a == SubSeq(r, 1, n)
           b == SubSeq(r, n + 1, Len(r))
           x == h \o a
           y == b \o f
<1>1. a \in Seq(Message) /\ b \in Seq(Message) /\ Len(a) = n /\ a \o b = r
  BY Cut
<1> HIDE DEF a, b
<1>2. Parts(h, a) /\ Parts(b, f)
  BY <1>1, ConcatParts
<1>3. x \in Seq(Message) /\ y \in Seq(Message) /\ Len(x) = Len(h) + n
  BY <1>1, <1>2 DEF Parts
<1>4. Regrouped(h, a, b, f)
  BY <1>1, Regroup
<1>5. h \o r \o f = x \o y
  <2>1. (h \o (a \o b)) \o f = (h \o a) \o (b \o f)
    BY <1>4 DEF Regrouped
  <2> QED BY <1>1, <2>1
<1> HIDE DEF x, y
<1>6. Parts(x, y)
  BY <1>3, ConcatParts
<1>7. Len(x) \in Nat /\ Len(y) \in Nat
  BY <1>3
<1> DEFINE q == h \o r \o f
<1>8. /\ q = x \o y /\ Len(q) = Len(x) + Len(y) /\ SubSeq(q, 1, Len(x)) = x
      /\ SubSeq(q, Len(x) + 1, Len(q)) = y
  BY <1>5, <1>6 DEF Parts
<1> HIDE DEF q
<1>9. Len(h) + n \in 0 .. Len(q) /\ SubSeq(q, 1, Len(h) + n) = x /\ SubSeq(q, Len(h) + n + 1, Len(q)) = y
  BY <1>3, <1>7, <1>8
<1> QED BY <1>9 DEF Taken, q, x, y, a, b

(* A new message in front of the fifo and at its end. *)
Placed(h, r, f, m) ==
  /\ Len(h \o r) \in 0 .. Len(h \o r \o f)
  /\ h \o r \o (<<m>> \o f) = Insert(h \o r \o f, Len(h \o r), m)
  /\ h \o r \o Append(f, m) = Insert(h \o r \o f, Len(h \o r \o f), m)

(* Sending to the front or the end of the fifo inserts in the whole.       *)
LEMMA PlacedParts ==
  ASSUME NEW h \in Seq(Message), NEW r \in Seq(Message), NEW f \in Seq(Message), NEW m \in Message
  PROVE  Placed(h, r, f, m)
<1> DEFINE g == h \o r
           q == g \o f
           u == <<m>>
<1>1. g \in Seq(Message) /\ u \in Seq(Message) /\ Append(f, m) = f \o u
  OBVIOUS
<1> HIDE DEF g
<1>2. Parts(g, f)
  BY <1>1, ConcatParts
<1>3. q \in Seq(Message) /\ Len(q) = Len(g) + Len(f) /\ SubSeq(q, 1, Len(g)) = g /\ SubSeq(q, Len(g) + 1, Len(q)) = f
  BY <1>2 DEF Parts
<1>4. g \o (f \o u) = q \o u
  BY <1>1
<1>5. g \o (u \o f) = g \o u \o f
  BY <1>1
<1> HIDE DEF q, u
<1>6. Insert(q, Len(g), m) = g \o u \o f
  BY <1>3 DEF Insert, u
<1>7. Insert(q, Len(q), m) = q \o u
  <2>1. SubSeq(q, 1, Len(q)) = q /\ SubSeq(q, Len(q) + 1, Len(q)) = <<>>
    BY <1>3
  <2>2. q \o u \in Seq(Message)
    BY <1>1, <1>3
  <2>3. (q \o u) \o <<>> = q \o u
    BY <2>2
  <2> QED BY <2>1, <2>3 DEF Insert, u
<1>8. Len(g) \in 0 .. Len(q)
  <2>1. Len(g) \in Nat /\ Len(f) \in Nat
    BY <1>1
  <2> QED BY <1>3, <2>1
<1> QED BY <1>1, <1>4, <1>5, <1>6, <1>7, <1>8 DEF Placed, q, g, u

(* A sequence behind another one, taken apart and put together again. *)
Rejoined(x, q, k) == x \o SubSeq(q, 1, k) \o SubSeq(q, k + 1, Len(q)) = x \o q

(* What is delivered and what is left make the queue again.                *)
LEMMA RejoinParts ==
  ASSUME NEW x \in Seq(Message), NEW q \in Seq(Message), NEW k \in 0 .. Len(q)
  PROVE  Rejoined(x, q, k)
<1> DEFINE a == SubSeq(q, 1, k)
           b == SubSeq(q, k + 1, Len(q))
<1>1. a \in Seq(Message) /\ b \in Seq(Message) /\ a \o b = q
  BY Cut
<1> HIDE DEF a, b
<1>2. Assoc(x, a, b)
  BY <1>1, ConcatAssoc
<1> QED BY <1>1, <1>2 DEF Assoc, Rejoined, a, b

(* An insertion behind a sequence of messages that were received. *)
Behind(x, q, k, m) ==
  /\ Len(x) + k \in 0 .. Len(x \o q) /\ (k = Len(q) => Len(x) + k = Len(x \o q))
  /\ x \o Insert(q, k, m) = Insert(x \o q, Len(x) + k, m)

(* Inserting in the queue inserts in what was received and the queue.      *)
LEMMA BehindParts ==
  ASSUME NEW x \in Seq(Message), NEW q \in Seq(Message), NEW k \in 0 .. Len(q), NEW m \in Message
  PROVE  Behind(x, q, k, m)
<1> DEFINE a == SubSeq(q, 1, k)
           b == SubSeq(q, k + 1, Len(q))
           u == <<m>>
           g == x \o a
<1>1. a \in Seq(Message) /\ b \in Seq(Message) /\ Len(a) = k /\ Len(b) = Len(q) - k /\ a \o b = q
  BY Cut
<1>0. u \in Seq(Message)
  OBVIOUS
<1>2. Insert(q, k, m) = (a \o u) \o b
  BY DEF Insert
<1> HIDE DEF a, b, u
<1>3. g \in Seq(Message) /\ Len(g) = Len(x) + k
  <2>1. Parts(x, a)
    BY <1>1, ConcatParts
  <2> QED BY <1>1, <2>1 DEF Parts
<1>4. x \o q = g \o b
  <2>1. Assoc(x, a, b)
    BY <1>1, ConcatAssoc
  <2> QED BY <1>1, <2>1 DEF Assoc
<1>5. x \o ((a \o u) \o b) = (g \o u) \o b
  <2>1. Parts(a, u)
    BY <1>0, <1>1, ConcatParts
  <2>2. a \o u \in Seq(Message)
    BY <2>1 DEF Parts
  <2>3. Assoc(x, a \o u, b) /\ Assoc(x, a, u)
    BY <1>0, <1>1, <2>2, ConcatAssoc
  <2> QED BY <2>3 DEF Assoc
<1> HIDE DEF g
<1>6. Parts(g, b)
  BY <1>1, <1>3, ConcatParts
<1> DEFINE all == x \o q
<1>7. Len(all) = Len(g) + Len(b) /\ SubSeq(all, 1, Len(g)) = g /\ SubSeq(all, Len(g) + 1, Len(all)) = b
  BY <1>4, <1>6 DEF Parts
<1> HIDE DEF all
<1>8. Insert(all, Len(g), m) = (g \o u) \o b
  BY <1>7 DEF Insert, u
<1>9. Len(x) + k \in 0 .. Len(all) /\ (k = Len(q) => Len(x) + k = Len(all))
  <2>1. Len(x) \in Nat /\ Len(q) \in Nat
    OBVIOUS
  <2>2. k \in Nat /\ k <= Len(q) /\ Len(all) = Len(x) + k + (Len(q) - k)
    BY <1>1, <1>3, <1>7, <2>1
  <2> QED BY <2>1, <2>2
<1> QED BY <1>2, <1>3, <1>4, <1>5, <1>8, <1>9 DEF Behind, all, g, a, b

-----------------------------------------------------------------------------
(***************************************************************************)
(* The messages on their way, step by step.                                *)
(***************************************************************************)
LEMMA QueueType ==
  ASSUME Base
  PROVE  /\ Queue \in [Shard -> [Shard -> Seq(Message)]]
         /\ \A s, t \in Shard :
              /\ Queue[t][s] = InHand(t, s) \o ring[t][s] \o fifo[t][s]
              /\ InHand(t, s) \in Seq(Message) /\ Queue[t][s] \in Seq(Message)
<1>1. \A s, t \in Shard : Queue[t][s] = InHand(t, s) \o ring[t][s] \o fifo[t][s]
  BY DEF Queue
<1>2. ASSUME NEW s \in Shard, NEW t \in Shard
      PROVE  InHand(t, s) \in Seq(Message) /\ InHand(t, s) \o ring[t][s] \o fifo[t][s] \in Seq(Message)
  <2>1. hand[t] \in Seq(Message) /\ ring[t][s] \in Seq(Message) /\ fifo[t][s] \in Seq(Message)
    BY Entry DEF Base
  <2>2. InHand(t, s) \in Seq(Message)
    BY <2>1 DEF InHand
  <2> QED BY <2>1, <2>2, ConcatProperties
<1> QED BY <1>1, <1>2 DEF Queue

(* The abstract queue holds a message sequence for each pair of shards.    *)
LEMMA QueueIsTable == Base => Queue \in [Shard -> [Shard -> Seq(Message)]]
BY QueueType

(* The same in the next state.                                             *)
LEMMA QueueIsTableNext == Base' => (Queue \in [Shard -> [Shard -> Seq(Message)]])'
BY QueueIsTable, PTL

(* The three kinds of steps. *)
Kept == UNCHANGED <<Queue, inbox, sent>>

Sends(s, t, k, m) ==
  /\ inbox' = inbox /\ sent' = [sent EXCEPT ![t][s] = @ + 1]
  /\ Queue' = [Queue EXCEPT ![t][s] = Insert(@, k, m)]

Delivers(s, t, k) ==
  /\ sent' = sent /\ inbox' = [inbox EXCEPT ![t][s] = @ \o SubSeq(Queue[t][s], 1, k)]
  /\ Queue' = [Queue EXCEPT ![t][s] = SubSeq(@, k + 1, Len(@))]

(* A step that moves entries of one pair between the parts of its queue.  *)
LEMMA SameParts ==
  ASSUME \A s, t \in Shard :
           InHand(t, s)' \o ring'[t][s] \o fifo'[t][s] = InHand(t, s) \o ring[t][s] \o fifo[t][s]
  PROVE  Queue' = Queue
BY DEF Queue

(* A shard that neither was nor is between its two pops keeps its hands.  *)
LEMMA SameHand ==
  ASSUME NEW u \in Shard, OnlyOf(u), hand' = hand, pc[u] # "rest", pc'[u] # "rest"
  PROVE  \A s, t \in Shard : InHand(t, s)' = InHand(t, s)
BY DEF InHand, OnlyOf

(* A step of a shard that touches no message keeps the abstract queue.     *)
LEMMA QuietKept ==
  ASSUME Base, NEW u \in Shard, OnlyOf(u), UNCHANGED <<fifo, ring, hand, inbox, sent>>,
         pc[u] # "rest", pc'[u] # "rest"
  PROVE  Kept
<1>1. \A s, t \in Shard : InHand(t, s)' = InHand(t, s)
  BY SameHand
<1>2. Queue' = Queue
  BY <1>1 DEF Queue
<1> QED BY <1>2 DEF Kept

(* Reading and clearing the flag and waking a shard keep it.               *)
LEMMA WakingKept ==
  ASSUME Base, NEW u \in Shard, LoadSleeping(u) \/ StoreAwake(u) \/ Wakeup(u)
  PROVE  Kept
<1>1. ControlOK
  BY DEF Base
<1>2. UNCHANGED <<fifo, ring, hand, inbox, sent, mode, got>> /\ pc[u] \in {"load", "store", "wake"}
  BY DEF LoadSleeping, StoreAwake, Wakeup, channel
<1>3. CASE AfterMove(u) /\ pc[u] \in {"load", "wake"}
  <2>1. OnlyOf(u) /\ pc'[u] # "rest"
    BY <1>2, <1>3, AfterMoveSelf
  <2> QED BY <1>2, <2>1, QuietKept
<1>4. CASE \E at \in {"store", "wake"} : pc' = [pc EXCEPT ![u] = at] /\ peer' = peer
  <2>1. OnlyOf(u) /\ pc'[u] # "rest"
    BY <1>1, <1>2, <1>4 DEF ControlOK, OnlyOf
  <2> QED BY <1>2, <2>1, QuietKept
<1>5. \/ AfterMove(u) /\ pc[u] \in {"load", "wake"}
      \/ \E at \in {"store", "wake"} : pc' = [pc EXCEPT ![u] = at] /\ peer' = peer
  BY DEF LoadSleeping, StoreAwake, Wakeup, Goto
<1> QED BY <1>3, <1>4, <1>5

(* The steps of the event loop between its polls keep it.                  *)
LEMMA ControlKept ==
  ASSUME Base, NEW u \in Shard,
         \/ Poll(u) \/ PollDone(u) \/ PurePoll(u) \/ PureCheck(u) \/ Sleeping(u) \/ WokenByTimer(u)
  PROVE  Kept
<1>1. ControlOK
  BY DEF Base
<1>2. UNCHANGED <<fifo, ring, hand, inbox, sent>>
  BY DEF Poll, PollDone, PurePoll, PureCheck, Sleeping, TryEnter, BarrierRefused, Barrier, SleepDone,
         WokenByEvent, WokenByTimer, Awake, channel
<1>3. pc[u] # "rest" /\ pc'[u] # "rest" /\ OnlyOf(u)
  <2>1. CASE Poll(u) \/ PollDone(u) \/ PurePoll(u) \/ PureCheck(u)
    BY <1>1, <2>1 DEF Poll, PollDone, PurePoll, PureCheck, Enter, Goto, OnlyOf, ControlOK
  <2>2. CASE TryEnter(u) \/ BarrierRefused(u)
    BY <1>1, <2>2 DEF TryEnter, BarrierRefused, Goto, OnlyOf, ControlOK
  <2>3. CASE Barrier(u) \/ SleepDone(u)
    BY <1>1, <2>3 DEF Barrier, SleepDone, Enter, Goto, OnlyOf, ControlOK
  <2>4. CASE WokenByEvent(u) \/ WokenByTimer(u)
    BY <1>1, <2>4 DEF WokenByEvent, WokenByTimer, Awake, Goto, OnlyOf, ControlOK
  <2> QED BY <2>1, <2>2, <2>3, <2>4 DEF Sleeping
<1> QED BY <1>2, <1>3, QuietKept

(* A push that becomes visible keeps it.                                   *)
LEMMA DrainKept ==
  ASSUME NEW s \in Shard, NEW t \in Shard, Drain(s, t)
  PROVE  Kept
<1>1. UNCHANGED <<fifo, ring, hand, inbox, sent, pc, peer>>
  BY DEF Drain, control
<1> QED BY <1>1 DEF Kept, Queue, InHand

(* move_pending() keeps it: the fifo follows the queue.                    *)
LEMMA MoveKept ==
  ASSUME Base, NEW u \in Shard, MovePending(u)
  PROVE  Kept
<1>0. PICK t \in Shard : t = peer[u]
  BY MoveChannel
<1> DEFINE n == Fits(t, u)
           q == fifo[t][u]
           moved == SubSeq(q, 1, n)
           rest == SubSeq(q, n + 1, Len(q))
<1>1. ChannelOK /\ ControlOK
  BY DEF Base
<1>3. /\ ring' = [ring EXCEPT ![t][u] = @ \o moved] /\ fifo' = [fifo EXCEPT ![t][u] = rest]
      /\ UNCHANGED <<hand, inbox, sent, mode, got>> /\ pc[u] = "move"
      /\ AfterMove(u) \/ (pc' = [pc EXCEPT ![u] = "load"] /\ peer' = peer)
  BY <1>0 DEF MovePending, Push, Goto
<1>4. OnlyOf(u) /\ pc'[u] # "rest"
  <2>1. CASE AfterMove(u)
    BY <1>3, <2>1, AfterMoveSelf
  <2>2. CASE pc' = [pc EXCEPT ![u] = "load"] /\ peer' = peer
    BY <1>1, <1>3, <2>2 DEF ControlOK, OnlyOf
  <2> QED BY <1>3, <2>1, <2>2
<1>5. \A s, v \in Shard : InHand(v, s)' = InHand(v, s)
  BY <1>3, <1>4, SameHand
<1>6. /\ q \in Seq(Message) /\ ring[t][u] \in Seq(Message) /\ n \in 0 .. Len(q)
  BY <1>1, Entry, FitsType
<1>7. moved \in Seq(Message) /\ rest \in Seq(Message) /\ moved \o rest = q
  <2> HIDE DEF n, q
  <2> QED BY <1>6, Cut
<1>8. /\ ring'[t][u] = ring[t][u] \o moved /\ fifo'[t][u] = rest
      /\ \A s, v \in Shard : <<v, s>> # <<t, u>> => ring'[v][s] = ring[v][s] /\ fifo'[v][s] = fifo[v][s]
      /\ q = fifo[t][u]
  BY <1>1, <1>3 DEF ChannelOK
<1> HIDE DEF moved, rest, q
<1>9. ASSUME NEW s \in Shard, NEW v \in Shard
      PROVE  InHand(v, s)' \o ring'[v][s] \o fifo'[v][s] = InHand(v, s) \o ring[v][s] \o fifo[v][s]
  <2>1. CASE v = t /\ s = u
    <3>1. InHand(t, u) \in Seq(Message)
      BY QueueType
    <3>2. Regrouped(InHand(t, u), ring[t][u], moved, rest)
      BY <1>6, <1>7, <3>1, Regroup
    <3> QED BY <1>5, <1>7, <1>8, <2>1, <3>2 DEF Regrouped
  <2>2. CASE ~(v = t /\ s = u)
    BY <1>5, <1>8, <2>2
  <2> QED BY <2>1, <2>2
<1> QED BY <1>3, <1>9, SameParts DEF Kept

(* The first pop of process_incoming() keeps it: the hand precedes the     *)
(* queue.                                                                  *)
LEMMA PopFirstKept ==
  ASSUME Base, NEW t \in Shard, PopFirst(t)
  PROVE  Kept
<1>0. PICK u \in Shard : u = peer[t]
  BY PopChannel
<1> DEFINE q == ring[t][u]
<1>1. ChannelOK /\ ControlOK
  BY DEF Base
<1>3. UNCHANGED <<fifo, hidden, inbox, sent, mode, peer, got>> /\ pc[t] = "pop"
  BY DEF PopFirst
<1>4. CASE Visible(t, u) = 0
  <2>1. pc' = [pc EXCEPT ![t] = "move"] /\ UNCHANGED <<ring, hand>>
    BY <1>0, <1>4 DEF PopFirst, Goto
  <2>2. OnlyOf(t) /\ pc'[t] # "rest"
    BY <1>1, <1>3, <2>1 DEF OnlyOf, ControlOK
  <2> QED BY <1>3, <2>1, <2>2, QuietKept
<1>5. CASE Visible(t, u) # 0
  <2>1. /\ pc' = [pc EXCEPT ![t] = "rest"] /\ hand' = [hand EXCEPT ![t] = <<Head(q)>>]
        /\ ring' = [ring EXCEPT ![t][u] = Tail(@)]
    BY <1>0, <1>5 DEF PopFirst, Goto
  <2>2. q \in Seq(Message) /\ q # <<>>
    <3>1. q \in Seq(Message) /\ Len(q) \in Nat /\ hidden[t][u] \in Nat /\ hidden[t][u] <= Len(q)
      BY <1>1, Entry
    <3>2. Len(q) # 0
      BY <1>5, <3>1 DEF Visible
    <3> QED BY <3>1, <3>2
  <2>3. /\ ring'[t][u] = Tail(q) /\ \A s, v \in Shard : <<v, s>> # <<t, u>> => ring'[v][s] = ring[v][s]
    BY <1>1, <2>1 DEF ChannelOK
  <2>4. /\ InHand(t, u)' = <<Head(q)>> /\ InHand(t, u) = <<>>
        /\ \A s, v \in Shard : <<v, s>> # <<t, u>> => InHand(v, s)' = InHand(v, s)
    BY <1>0, <1>1, <1>3, <2>1 DEF InHand, ControlOK, ChannelOK
  <2>5. <<Head(q)>> \o Tail(q) = <<>> \o q
    <3>1. <<Head(q)>> \in Seq(Message) /\ Tail(q) \in Seq(Message) /\ <<>> \o q = q
      BY <2>2, HeadTailProperties, ConcatEmptySeq
    <3> QED BY <2>2, <3>1, HeadTailProperties, ConcatProperties, SeqEqual
  <2>6. \A s, v \in Shard :
          InHand(v, s)' \o ring'[v][s] \o fifo'[v][s] = InHand(v, s) \o ring[v][s] \o fifo[v][s]
    BY <1>3, <2>3, <2>4, <2>5
  <2> QED BY <1>3, <2>6, SameParts DEF Kept
<1> QED BY <1>4, <1>5

(* A table in which one entry is replaced. *)
Updated(G, F, t, s, v) == G = [F EXCEPT ![t][s] = v]

(* Tables that differ in one entry differ by an update of that entry.      *)
LEMMA EntryUpdate ==
  ASSUME NEW F \in [Shard -> [Shard -> Seq(Message)]], NEW G \in [Shard -> [Shard -> Seq(Message)]],
         NEW t \in Shard, NEW s \in Shard,
         \A x, y \in Shard : <<x, y>> # <<t, s>> => G[x][y] = F[x][y]
  PROVE  Updated(G, F, t, s, G[t][s])
<1> DEFINE v == G[t][s]
<1>1. \A x \in Shard : G[x] = [F EXCEPT ![t][s] = v][x]
  <2> SUFFICES ASSUME NEW x \in Shard PROVE G[x] = [F EXCEPT ![t][s] = v][x]
    OBVIOUS
  <2>1. CASE x = t
    BY <2>1
  <2>2. CASE x # t
    BY <2>2
  <2> QED BY <2>1, <2>2
<1> QED BY <1>1 DEF Updated

(* The second pop of process_incoming() delivers what is in the hand and   *)
(* what is visible.                                                        *)
LEMMA PopRestDelivers ==
  ASSUME Base, NEW t \in Shard, PopRest(t)
  PROVE  \E u \in Shard : \E k \in 0 .. Len(Queue[t][u]) : Delivers(u, t, k)
<1>0. PICK u \in Shard : u = peer[t]
  BY PopChannel
<1> DEFINE h == hand[t]
           r == ring[t][u]
           f == fifo[t][u]
           n == Visible(t, u)
           k == Len(h) + n
           got1 == SubSeq(r, 1, n)
<1>1. ChannelOK /\ ControlOK
  BY DEF Base
<1>2. Base'
  BY PollingBase DEF Polling
<1>3. /\ pc[t] = "rest" /\ pc' = [pc EXCEPT ![t] = "move"] /\ peer' = peer
      /\ inbox' = [inbox EXCEPT ![t][u] = @ \o h \o got1]
      /\ ring' = [ring EXCEPT ![t][u] = SubSeq(@, n + 1, Len(@))]
      /\ UNCHANGED <<fifo, sent>> /\ hand' = [hand EXCEPT ![t] = <<>>]
  BY <1>0 DEF PopRest, Goto
<1>4. /\ h \in Seq(Message) /\ r \in Seq(Message) /\ f \in Seq(Message) /\ inbox[t][u] \in Seq(Message)
      /\ n \in 0 .. Len(r)
  <2>1. /\ h \in Seq(Message) /\ r \in Seq(Message) /\ f \in Seq(Message) /\ inbox[t][u] \in Seq(Message)
        /\ hidden[t][u] \in Nat /\ Len(r) \in Nat /\ hidden[t][u] <= Len(r)
    BY <1>1, Entry
  <2> QED BY <2>1 DEF Visible
<1>5. Queue[t][u] = h \o r \o f
  BY <1>0, <1>3, QueueType DEF InHand
<1>6. Taken(h, r, f, n)
  <2> HIDE DEF n, h, r, f
  <2> QED BY <1>4, TakenParts
<1>7. got1 \in Seq(Message) /\ Assoc(inbox[t][u], h, got1)
  <2> HIDE DEF n, h, r
  <2>1. got1 \in Seq(Message)
    BY <1>4, Cut
  <2> QED BY <1>4, <2>1, ConcatAssoc
<1>8. /\ ring'[t][u] = SubSeq(r, n + 1, Len(r)) /\ inbox'[t][u] = inbox[t][u] \o h \o got1
      /\ \A x, y \in Shard : <<x, y>> # <<t, u>> => ring'[x][y] = ring[x][y] /\ inbox'[x][y] = inbox[x][y]
  BY <1>1, <1>3 DEF ChannelOK
<1>9. /\ InHand(t, u)' = <<>>
      /\ \A x, y \in Shard : <<x, y>> # <<t, u>> => InHand(x, y)' = InHand(x, y)
  BY <1>0, <1>1, <1>3 DEF InHand, ControlOK, ChannelOK
<1>10. /\ inbox'[t][u] = inbox[t][u] \o SubSeq(Queue[t][u], 1, k)
       /\ k \in 0 .. Len(Queue[t][u])
  BY <1>5, <1>6, <1>7, <1>8 DEF Taken, Assoc
<1>11. Queue'[t][u] = SubSeq(Queue[t][u], k + 1, Len(Queue[t][u]))
  <2>1. Queue'[t][u] = <<>> \o ring'[t][u] \o fifo'[t][u]
    BY <1>2, <1>9, QueueType DEF Queue
  <2>2. ring'[t][u] \in Seq(Message)
    BY <1>2 DEF Base, ChannelOK
  <2>3. <<>> \o ring'[t][u] = ring'[t][u]
    BY <2>2
  <2>4. fifo'[t][u] = f
    BY <1>3
  <2> HIDE DEF h, r, f, n
  <2>5. SubSeq(Queue[t][u], k + 1, Len(Queue[t][u])) = SubSeq(r, n + 1, Len(r)) \o f
    BY <1>5, <1>6 DEF Taken
  <2> QED BY <1>8, <2>1, <2>3, <2>4, <2>5
<1>12. \A x, y \in Shard : <<x, y>> # <<t, u>> => Queue'[x][y] = Queue[x][y]
  <2>1. \A x, y \in Shard : /\ Queue[x][y] = InHand(x, y) \o ring[x][y] \o fifo[x][y]
                            /\ Queue'[x][y] = InHand(x, y)' \o ring'[x][y] \o fifo'[x][y]
    BY DEF Queue
  <2> SUFFICES ASSUME NEW x \in Shard, NEW y \in Shard, <<x, y>> # <<t, u>> PROVE Queue'[x][y] = Queue[x][y]
    OBVIOUS
  <2>2. InHand(x, y)' = InHand(x, y) /\ ring'[x][y] = ring[x][y] /\ fifo'[x][y] = fifo[x][y]
    BY <1>3, <1>8, <1>9
  <2>3. Queue'[x][y] = InHand(x, y)' \o ring'[x][y] \o fifo'[x][y]
    BY <2>1
  <2> QED BY <2>1, <2>2, <2>3
<1>13. /\ Queue \in [Shard -> [Shard -> Seq(Message)]] /\ Queue' \in [Shard -> [Shard -> Seq(Message)]]
       /\ inbox \in [Shard -> [Shard -> Seq(Message)]] /\ inbox' \in [Shard -> [Shard -> Seq(Message)]]
  <2>1. Queue \in [Shard -> [Shard -> Seq(Message)]]
    BY QueueType
  <2>2. Queue' \in [Shard -> [Shard -> Seq(Message)]]
    BY <1>2, QueueIsTableNext
  <2> QED BY <1>1, <1>2, <2>1, <2>2 DEF Base, ChannelOK
<1> HIDE DEF k, h, r, f, n, got1
<1>14. Updated(inbox', inbox, t, u, inbox'[t][u])
  BY <1>8, <1>13, EntryUpdate
<1>15. Updated(Queue', Queue, t, u, Queue'[t][u])
  BY <1>12, <1>13, EntryUpdate
<1>16. Delivers(u, t, k)
  BY <1>3, <1>10, <1>11, <1>14, <1>15 DEF Delivers, Updated
<1> QED BY <1>10, <1>16

(* send() inserts a message: in front of the fifo if it is urgent, at the  *)
(* end of everything that is on its way otherwise.                         *)
LEMMA SendInserts ==
  ASSUME Base, NEW s \in Shard, NEW t \in Shard, NEW urgent \in BOOLEAN, Send(s, t, urgent)
  PROVE  LET m == [seq |-> sent[t][s] + 1, urgent |-> urgent]
         IN  /\ m \in Message
             /\ \E k \in 0 .. Len(Queue[t][s]) :
                  Sends(s, t, k, m) /\ (urgent \/ k = Len(Queue[t][s]))
<1> DEFINE m == [seq |-> sent[t][s] + 1, urgent |-> urgent]
           h == InHand(t, s)
           r == ring[t][s]
           f == fifo[t][s]
           q == IF urgent THEN <<m>> \o f ELSE Append(f, m)
<1>1. ChannelOK /\ ControlOK
  BY DEF Base
<1>2. Base'
  BY SendBase
<1>3. sent[t][s] \in 0 .. MaxSeq /\ sent[t][s] < MaxSeq /\ MaxSeq \in Nat
  BY <1>1, ChannelAssumption DEF Send, ChannelOK
<1>4. m \in Message
  BY <1>3 DEF Message
<1>5. /\ sent' = [sent EXCEPT ![t][s] = sent[t][s] + 1] /\ fifo' = [fifo EXCEPT ![t][s] = q]
      /\ UNCHANGED <<ring, hand, inbox, got>> /\ pc[s] = "run"
      /\ \/ UNCHANGED <<pc, mode, peer>>
         \/ /\ pc' = [pc EXCEPT ![s] = "move"] /\ mode' = [mode EXCEPT ![s] = "send"]
            /\ peer' = [peer EXCEPT ![s] = t]
  BY DEF Send, Goto
<1>6. OnlyOf(s) /\ pc'[s] # "rest"
  BY <1>1, <1>5 DEF OnlyOf, ControlOK
<1>7. \A x, y \in Shard : InHand(x, y)' = InHand(x, y)
  BY <1>5, <1>6, SameHand
<1>8. h \in Seq(Message) /\ r \in Seq(Message) /\ f \in Seq(Message)
  BY <1>1, Entry, QueueType
<1> HIDE DEF m
<1>9. Placed(h, r, f, m) /\ Queue[t][s] = h \o r \o f
  <2>1. Queue[t][s] = h \o r \o f
    BY QueueType
  <2> HIDE DEF h, r, f
  <2> QED BY <1>4, <1>8, <2>1, PlacedParts
<1> DEFINE k == IF urgent THEN Len(h \o r) ELSE Len(Queue[t][s])
<1>10. fifo'[t][s] = q /\ \A x, y \in Shard : <<x, y>> # <<t, s>> => fifo'[x][y] = fifo[x][y]
  BY <1>1, <1>5 DEF ChannelOK
<1>11. \A x, y \in Shard : /\ Queue[x][y] = InHand(x, y) \o ring[x][y] \o fifo[x][y]
                           /\ Queue'[x][y] = InHand(x, y)' \o ring'[x][y] \o fifo'[x][y]
  BY DEF Queue
<1>12. Queue'[t][s] = h \o r \o q
  <2>1. InHand(t, s)' = h /\ ring'[t][s] = r /\ fifo'[t][s] = q
    BY <1>5, <1>7, <1>10
  <2>2. Queue'[t][s] = InHand(t, s)' \o ring'[t][s] \o fifo'[t][s]
    BY <1>11
  <2> QED BY <2>1, <2>2
<1>13. /\ Queue'[t][s] = Insert(Queue[t][s], k, m) /\ k \in 0 .. Len(Queue[t][s])
       /\ urgent \/ k = Len(Queue[t][s])
  <2> HIDE DEF h, r, f
  <2>1. CASE urgent
    <3>1. q = <<m>> \o f /\ k = Len(h \o r)
      BY <2>1
    <3> QED BY <1>9, <1>12, <2>1, <3>1 DEF Placed
  <2>2. CASE ~urgent
    <3>1. q = Append(f, m) /\ k = Len(Queue[t][s])
      BY <2>2
    <3>2. Len(Queue[t][s]) \in 0 .. Len(Queue[t][s])
      <4>1. Queue[t][s] \in Seq(Message)
        BY QueueType
      <4> QED BY <4>1
    <3> QED BY <1>9, <1>12, <3>1, <3>2 DEF Placed
  <2> QED BY <2>1, <2>2
<1>14. \A x, y \in Shard : <<x, y>> # <<t, s>> => Queue'[x][y] = Queue[x][y]
  <2> SUFFICES ASSUME NEW x \in Shard, NEW y \in Shard, <<x, y>> # <<t, s>> PROVE Queue'[x][y] = Queue[x][y]
    OBVIOUS
  <2>1. InHand(x, y)' = InHand(x, y) /\ ring'[x][y] = ring[x][y] /\ fifo'[x][y] = fifo[x][y]
    BY <1>5, <1>7, <1>10
  <2>2. Queue'[x][y] = InHand(x, y)' \o ring'[x][y] \o fifo'[x][y]
    BY <1>11
  <2> QED BY <1>11, <2>1, <2>2
<1>15. Queue \in [Shard -> [Shard -> Seq(Message)]] /\ Queue' \in [Shard -> [Shard -> Seq(Message)]]
  BY <1>2, QueueIsTable, QueueIsTableNext
<1> HIDE DEF k, h, r, f, q
<1>16. Updated(Queue', Queue, t, s, Queue'[t][s])
  BY <1>14, <1>15, EntryUpdate
<1>17. Sends(s, t, k, m)
  BY <1>5, <1>13, <1>16 DEF Sends, Updated
<1> QED BY <1>4, <1>13, <1>17 DEF m

-----------------------------------------------------------------------------
(***************************************************************************)
(* The refinement.                                                         *)
(***************************************************************************)
LEMMA QueueStep ==
  ASSUME Base, Next
  PROVE  \/ Kept
         \/ \E s, t \in Shard, k \in Nat : k <= Len(Queue[t][s]) /\ Delivers(s, t, k)
         \/ \E s, t \in Shard, k \in Nat, m \in Message :
              /\ k <= Len(Queue[t][s]) /\ Sends(s, t, k, m) /\ m.seq = sent[t][s] + 1
              /\ m.urgent \/ k = Len(Queue[t][s])
<1>0. \A s, t \in Shard : Queue[t][s] \in Seq(Message) /\ Len(Queue[t][s]) \in Nat
  <2>1. \A s, t \in Shard : Queue[t][s] \in Seq(Message)
    BY QueueType
  <2> QED BY <2>1
<1>1. ASSUME NEW s \in Shard, Moving(s) PROVE Kept
  BY <1>1, MoveKept, WakingKept DEF Moving
<1>2. ASSUME NEW s \in Shard, Polling(s), ~PopRest(s) PROVE Kept
  BY <1>2, PopFirstKept, ControlKept DEF Polling
<1>3. ASSUME NEW s \in Shard, Sleeping(s) \/ WokenByTimer(s) PROVE Kept
  BY <1>3, ControlKept
<1>4. ASSUME NEW t \in Shard, PopRest(t)
      PROVE  \E s \in Shard, k \in Nat : k <= Len(Queue[t][s]) /\ Delivers(s, t, k)
  <2>1. PICK s \in Shard : \E k \in 0 .. Len(Queue[t][s]) : Delivers(s, t, k)
    BY <1>4, PopRestDelivers
  <2>2. PICK k \in 0 .. Len(Queue[t][s]) : Delivers(s, t, k)
    BY <2>1
  <2>3. k \in Nat /\ k <= Len(Queue[t][s])
    BY <1>0
  <2> QED BY <2>2, <2>3
<1>5. ASSUME NEW s \in Shard, NEW t \in Shard, NEW urgent \in BOOLEAN, Send(s, t, urgent)
      PROVE  \E k \in Nat, m \in Message :
               /\ k <= Len(Queue[t][s]) /\ Sends(s, t, k, m) /\ m.seq = sent[t][s] + 1
               /\ m.urgent \/ k = Len(Queue[t][s])
  <2>1. PICK m \in Message : m = [seq |-> sent[t][s] + 1, urgent |-> urgent]
    BY <1>5, SendInserts
  <2>2. \E k \in 0 .. Len(Queue[t][s]) : Sends(s, t, k, m) /\ (urgent \/ k = Len(Queue[t][s]))
    BY <1>5, <2>1, SendInserts
  <2>3. PICK k \in 0 .. Len(Queue[t][s]) : Sends(s, t, k, m) /\ (urgent \/ k = Len(Queue[t][s]))
    BY <2>2
  <2>4. k \in Nat /\ k <= Len(Queue[t][s]) /\ m.seq = sent[t][s] + 1 /\ m.urgent = urgent
    BY <1>0, <2>1
  <2> QED BY <2>3, <2>4
<1>6. ASSUME NEW s \in Shard, NEW t \in Shard, Drain(s, t) PROVE Kept
  BY <1>6, DrainKept
<1>7. PICK s \in Shard :
        \/ Step(s) \/ WokenByTimer(s)
        \/ \E t \in Shard : Drain(s, t) \/ \E urgent \in BOOLEAN : Send(s, t, urgent)
  BY DEF Next
<1>8. CASE Step(s) \/ WokenByTimer(s)
  BY <1>1, <1>2, <1>3, <1>4, <1>8 DEF Step
<1>9. CASE \E t \in Shard : Drain(s, t) \/ \E urgent \in BOOLEAN : Send(s, t, urgent)
  BY <1>5, <1>6, <1>9
<1> QED BY <1>7, <1>8, <1>9

(* Appending is inserting at the end.                                      *)
LEMMA AppendInserts ==
  ASSUME NEW q \in Seq(Message), NEW m \in Message
  PROVE  Insert(q, Len(q), m) = Append(q, m)
<1>1. SubSeq(q, 1, Len(q)) = q /\ SubSeq(q, Len(q) + 1, Len(q)) = <<>>
  OBVIOUS
<1>2. (q \o <<m>>) \o <<>> = Append(q, m)
  OBVIOUS
<1> QED BY <1>1, <1>2 DEF Insert

(* A delivery of nothing is no step of the channel. *)
LEMMA NothingDelivered ==
  ASSUME NEW q \in Seq(Message)
  PROVE  SubSeq(q, 1, 0) = <<>> /\ SubSeq(q, 1, Len(q)) = q /\ q \o <<>> = q
OBVIOUS

(* Every step is a step of the abstract channel or leaves it unchanged.    *)
LEMMA StepRefines == Base /\ [Next]_vars => [Channel!Next]_(Channel!vars)
<1> SUFFICES ASSUME Base, [Next]_vars PROVE [Channel!Next]_(Channel!vars)
  OBVIOUS
<1> HIDE DEF Queue
<1>0. /\ \A s, t \in Shard : Queue[t][s] \in Seq(Message) /\ Len(Queue[t][s]) \in Nat
                              /\ inbox[t][s] \in Seq(Message)
      /\ Queue \in [Shard -> [Shard -> Seq(Message)]] /\ inbox \in [Shard -> [Shard -> Seq(Message)]]
  <2>1. \A s, t \in Shard : Queue[t][s] \in Seq(Message)
    BY QueueType
  <2>2. inbox \in [Shard -> [Shard -> Seq(Message)]]
    BY DEF Base, ChannelOK
  <2> QED BY <2>1, <2>2, QueueIsTable
<1>1. CASE Kept
  BY <1>1 DEF Kept, Channel!vars
<1>2. ASSUME NEW s \in Shard, NEW t \in Shard, NEW k \in Nat, k <= Len(Queue[t][s]), Delivers(s, t, k)
      PROVE  [Channel!Next]_(Channel!vars)
  <2>1. /\ inbox' = [inbox EXCEPT ![t][s] = @ \o SubSeq(Queue[t][s], 1, k)]
        /\ Queue' = [Queue EXCEPT ![t][s] = SubSeq(@, k + 1, Len(@))]
    BY <1>2 DEF Delivers
  <2>2. CASE k = 0
    <3>1. SubSeq(Queue[t][s], 1, 0) = <<>> /\ SubSeq(Queue[t][s], 1, Len(Queue[t][s])) = Queue[t][s]
      BY <1>0, NothingDelivered
    <3>2. inbox[t][s] \o <<>> = inbox[t][s]
      BY <1>0, NothingDelivered
    <3>3. inbox' = inbox
      <4>1. inbox' = [inbox EXCEPT ![t][s] = inbox[t][s]]
        BY <2>1, <2>2, <3>1, <3>2
      <4> QED BY <1>0, <4>1
    <3>4. Queue' = Queue
      <4>1. k + 1 = 1
        BY <2>2
      <4>2. Queue' = [Queue EXCEPT ![t][s] = Queue[t][s]]
        BY <2>1, <3>1, <4>1
      <4> QED BY <1>0, <4>2
    <3> QED BY <3>3, <3>4 DEF Channel!vars
  <2>3. CASE k # 0
    <3>1. k \in 1 .. Len(Queue[t][s])
      BY <1>0, <1>2, <2>3
    <3> QED BY <2>1, <3>1 DEF Channel!Next, Channel!Deliver
  <2> QED BY <2>2, <2>3
<1>3. ASSUME NEW s \in Shard, NEW t \in Shard, NEW k \in Nat, NEW m \in Message,
             k <= Len(Queue[t][s]), Sends(s, t, k, m), m.urgent \/ k = Len(Queue[t][s])
      PROVE  [Channel!Next]_(Channel!vars)
  <2>1. UNCHANGED inbox /\ Queue' = [Queue EXCEPT ![t][s] = Insert(@, k, m)]
    BY <1>3 DEF Sends
  <2>2. CASE m.urgent
    <3>1. m \in Urgent /\ k \in 0 .. Len(Queue[t][s])
      BY <1>0, <1>3, <2>2 DEF Urgent
    <3>2. Queue' = [Queue EXCEPT ![t][s] = SubSeq(@, 1, k) \o <<m>> \o SubSeq(@, k + 1, Len(@))]
      BY <2>1 DEF Insert
    <3>3. Channel!SendUrgent(s, t)
      BY <2>1, <3>1, <3>2 DEF Channel!SendUrgent
    <3> QED BY <3>3 DEF Channel!Next
  <2>3. CASE ~m.urgent
    <3>1. m \in Normal /\ k = Len(Queue[t][s])
      BY <1>3, <2>3 DEF Normal
    <3>2. Queue' = [Queue EXCEPT ![t][s] = Append(@, m)]
      <4>1. Insert(Queue[t][s], k, m) = Append(Queue[t][s], m)
        BY <1>0, <3>1, AppendInserts
      <4> QED BY <2>1, <4>1
    <3>3. Channel!Send(s, t)
      BY <2>1, <3>1, <3>2 DEF Channel!Send
    <3> QED BY <3>3 DEF Channel!Next
  <2> QED BY <2>2, <2>3
<1>4. CASE Next
  BY <1>1, <1>2, <1>3, <1>4, QueueStep
<1>5. CASE UNCHANGED vars
  BY <1>5 DEF vars, channel, control, Channel!vars, Queue, InHand
<1> QED BY <1>4, <1>5

(* The channel starts as the abstract one.                                 *)
LEMMA InitRefines == Init => Channel!Init
<1> SUFFICES ASSUME Init PROVE Channel!Init
  OBVIOUS
<1>1. \A s, t \in Shard : InHand(t, s) \o ring[t][s] \o fifo[t][s] = <<>>
  BY DEF Init, Table, InHand
<1>2. Queue = [t \in Shard |-> [s \in Shard |-> <<>>]]
  BY <1>1 DEF Queue
<1> QED BY <1>2 DEF Init, Table, Channel!Init

(* The channel implements one queue per pair of shards: whatever send(),    *)
(* move_pending(), process_incoming() and the event loops do in between, a *)
(* shard receives from the head of that queue, and what is sent goes to    *)
(* its end, or anywhere in it when it is urgent.                           *)
THEOREM ChannelIsQueuePerPair == Spec => ImplementsChannel
<1>1. Spec => []Base
  BY Invariant, PTL
<1> QED BY <1>1, InitRefines, StepRefines, PTL DEF Spec, ImplementsChannel, Channel!Spec

-----------------------------------------------------------------------------
(***************************************************************************)
(* Exactly once and in order.                                              *)
(***************************************************************************)
(* The entries of a table after an update of one of them. *)
LEMMA EntryOfUpdate ==
  ASSUME NEW V, NEW F \in [Shard -> [Shard -> V]], NEW G, NEW t \in Shard, NEW s \in Shard, NEW v,
         G = [F EXCEPT ![t][s] = v]
  PROVE  /\ G[t][s] = v
         /\ \A a, b \in Shard : ~(a = s /\ b = t) => G[b][a] = F[b][a]
OBVIOUS

(* One pair's messages, those received before those on their way. *)
Order(t, s) == InOrder(inbox[t][s] \o Queue[t][s], sent[t][s])

(* ExactlyOnceInOrder, pair by pair.                                       *)
LEMMA OrderMeaning == ExactlyOnceInOrder <=> \A s, t \in Shard : Order(t, s)
<1> DEFINE P(all, n) == /\ Len(all) = n /\ {m.seq : m \in ToSet(all)} = 1 .. n
                        /\ \A i, j \in DOMAIN all :
                             i < j /\ ~all[i].urgent /\ ~all[j].urgent => all[i].seq < all[j].seq
<1>1. ExactlyOnceInOrder <=> \A s, t \in Shard : P(inbox[t][s] \o Queue[t][s], sent[t][s])
  BY DEF ExactlyOnceInOrder
<1>2. \A s, t \in Shard : Order(t, s) <=> P(inbox[t][s] \o Queue[t][s], sent[t][s])
  BY DEF Order, InOrder
<1> HIDE DEF P
<1> QED BY <1>1, <1>2

(* Nothing is sent at first.                                               *)
LEMMA InitOrder == Init => ExactlyOnceInOrder
<1> SUFFICES ASSUME Init, NEW s \in Shard, NEW t \in Shard PROVE Order(t, s)
  BY OrderMeaning
<1>1. InHand(t, s) \o ring[t][s] \o fifo[t][s] = <<>> /\ inbox[t][s] = <<>> /\ sent[t][s] = 0
  BY DEF Init, Table, InHand
<1>2. Queue[t][s] = <<>>
  BY <1>1 DEF Queue
<1>3. InOrder(<<>>, 0)
  BY DEF InOrder, ToSet
<1>4. <<>> \o <<>> = <<>>
  OBVIOUS
<1> QED BY <1>1, <1>2, <1>3, <1>4 DEF Order

(* Every step keeps the messages of every pair complete and in order.      *)
LEMMA StepOrder ==
  ASSUME Base, ExactlyOnceInOrder, [Next]_vars
  PROVE  \A s, t \in Shard : Order(t, s)'
<1> USE DEF Order
<1>0. \A s, t \in Shard : Order(t, s)
  BY OrderMeaning
<1>1. \A s, t \in Shard : Queue[t][s] \in Seq(Message) /\ inbox[t][s] \in Seq(Message) /\ sent[t][s] \in Nat
  <2>1. \A s, t \in Shard : Queue[t][s] \in Seq(Message)
    BY QueueType
  <2>2. \A s, t \in Shard : inbox[t][s] \in Seq(Message) /\ sent[t][s] \in Nat
    BY DEF Base, ChannelOK
  <2> QED BY <2>1, <2>2
<1>2. /\ Queue \in [Shard -> [Shard -> Seq(Message)]] /\ inbox \in [Shard -> [Shard -> Seq(Message)]]
      /\ sent \in [Shard -> [Shard -> Nat]]
  <2>1. /\ inbox \in [Shard -> [Shard -> Seq(Message)]] /\ sent \in [Shard -> [Shard -> Nat]]
    BY DEF Base, ChannelOK
  <2> QED BY <2>1, QueueIsTable
<1>3. CASE Kept
  BY <1>0, <1>3 DEF Kept
<1>4. ASSUME NEW s \in Shard, NEW t \in Shard, NEW k \in Nat, k <= Len(Queue[t][s]), Delivers(s, t, k),
             NEW a \in Shard, NEW b \in Shard
      PROVE  Order(b, a)'
  <2> DEFINE x == inbox[t][s]
             q == Queue[t][s]
             d == SubSeq(q, 1, k)
             e == SubSeq(q, k + 1, Len(q))
  <2>1. /\ sent' = sent /\ inbox' = [inbox EXCEPT ![t][s] = x \o d] /\ Queue' = [Queue EXCEPT ![t][s] = e]
    BY <1>4 DEF Delivers
  <2>2. x \in Seq(Message) /\ q \in Seq(Message)
    BY <1>1
  <2>3. k \in 0 .. Len(q)
    BY <1>4, <2>2
  <2> HIDE DEF x, q
  <2>5. Rejoined(x, q, k)
    BY <2>2, <2>3, RejoinParts
  <2>6. (x \o d) \o e = x \o q
    BY <2>5 DEF Rejoined
  <2> HIDE DEF d, e
  <2>7. inbox'[t][s] = x \o d /\ \A i, j \in Shard : ~(i = s /\ j = t) => inbox'[j][i] = inbox[j][i]
    BY <1>2, <2>1, EntryOfUpdate
  <2>8. Queue'[t][s] = e /\ \A i, j \in Shard : ~(i = s /\ j = t) => Queue'[j][i] = Queue[j][i]
    BY <1>2, <2>1, EntryOfUpdate
  <2>9. CASE a = s /\ b = t
    <3>1. inbox'[b][a] \o Queue'[b][a] = inbox[b][a] \o Queue[b][a]
      BY <2>6, <2>7, <2>8, <2>9 DEF x, q
    <3> QED BY <1>0, <2>1, <3>1
  <2>10. CASE ~(a = s /\ b = t)
    <3>1. inbox'[b][a] = inbox[b][a] /\ Queue'[b][a] = Queue[b][a]
      BY <2>7, <2>8, <2>10
    <3> QED BY <1>0, <2>1, <3>1
  <2> QED BY <2>9, <2>10
<1>5. ASSUME NEW s \in Shard, NEW t \in Shard, NEW k \in Nat, NEW m \in Message,
             k <= Len(Queue[t][s]), Sends(s, t, k, m), m.seq = sent[t][s] + 1,
             m.urgent \/ k = Len(Queue[t][s]), NEW a \in Shard, NEW b \in Shard
      PROVE  Order(b, a)'
  <2> DEFINE x == inbox[t][s]
             q == Queue[t][s]
             n == sent[t][s]
             new == Insert(q, k, m)
             all == x \o q
  <2>1. /\ inbox' = inbox /\ sent' = [sent EXCEPT ![t][s] = n + 1] /\ Queue' = [Queue EXCEPT ![t][s] = new]
    BY <1>5 DEF Sends
  <2>2. x \in Seq(Message) /\ q \in Seq(Message) /\ n \in Nat /\ m.seq = n + 1 /\ (m.urgent \/ k = Len(q))
    BY <1>1, <1>5
  <2>3. k \in 0 .. Len(q)
    BY <1>5, <2>2
  <2>4. InOrder(all, n)
    BY <1>0
  <2> HIDE DEF x, q, n
  <2>5. Behind(x, q, k, m)
    BY <2>2, <2>3, BehindParts
  <2>6. all \in Seq(Message)
    BY <2>2
  <2>7. Len(x) + k \in 0 .. Len(all) /\ (k = Len(q) => Len(x) + k = Len(all)) /\ x \o new = Insert(all, Len(x) + k, m)
    BY <2>5 DEF Behind
  <2> HIDE DEF all, new
  <2>8. InOrder(x \o new, n + 1)
    <3>1. m.urgent \/ Len(x) + k = Len(all)
      BY <2>2, <2>7
    <3>2. InOrder(Insert(all, Len(x) + k, m), n + 1)
      BY <2>2, <2>4, <2>6, <2>7, <3>1, InsertInOrder
    <3> QED BY <2>7, <3>2
  <2>9. sent'[t][s] = n + 1 /\ \A i, j \in Shard : ~(i = s /\ j = t) => sent'[j][i] = sent[j][i]
    BY <1>2, <2>1, EntryOfUpdate
  <2>10. Queue'[t][s] = new /\ \A i, j \in Shard : ~(i = s /\ j = t) => Queue'[j][i] = Queue[j][i]
    BY <1>2, <2>1, EntryOfUpdate
  <2>11. CASE a = s /\ b = t
    <3>1. inbox'[b][a] \o Queue'[b][a] = x \o new /\ sent'[b][a] = n + 1
      BY <2>1, <2>9, <2>10, <2>11 DEF x
    <3> QED BY <2>8, <3>1
  <2>12. CASE ~(a = s /\ b = t)
    <3>1. sent'[b][a] = sent[b][a] /\ Queue'[b][a] = Queue[b][a]
      BY <2>9, <2>10, <2>12
    <3> QED BY <1>0, <2>1, <3>1
  <2> QED BY <2>11, <2>12
<1>6. CASE Next
  BY <1>3, <1>4, <1>5, <1>6, QueueStep
<1>7. CASE UNCHANGED vars
  BY <1>0, <1>7 DEF vars, channel, control, Queue, InHand
<1> QED BY <1>6, <1>7

(* ExactlyOnceInOrder, pair by pair, in the next state.                    *)
LEMMA OrderMeaningNext == ExactlyOnceInOrder' <=> (\A s, t \in Shard : Order(t, s))'
BY OrderMeaning, PTL

(* With the type invariant, ExactlyOnceInOrder is inductive.               *)
LEMMA StepExactly == Base /\ ExactlyOnceInOrder /\ [Next]_vars => ExactlyOnceInOrder'
BY StepOrder, OrderMeaningNext

(* No message is lost, duplicated or, among those that are not urgent,      *)
(* reordered on its way through the fifo, the queue and the batches that   *)
(* move_pending() and process_incoming() take from them.                   *)
THEOREM ExactlyOnce == Spec => []ExactlyOnceInOrder
<1>1. Spec => []Base
  BY Invariant, PTL
<1> QED BY <1>1, InitOrder, StepExactly, PTL DEF Spec

(* All that the runs check as invariants of the channel.                   *)
THEOREM ChannelIsSafe == Spec => []ChannelSafe
<1>1. TypeOK /\ ExactlyOnceInOrder /\ NoLostWakeup => ChannelSafe
  BY DEF ChannelSafe
<1> QED BY <1>1, ExactlyOnce, TypeCorrect, NoWakeupIsLost, PTL

=============================================================================
