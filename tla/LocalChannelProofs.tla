------------------------- MODULE LocalChannelProofs -------------------------
(***************************************************************************)
(* Proofs about LocalChannel for any number of shards and any length of    *)
(* the queues: no wakeup is lost.                                          *)
(***************************************************************************)
EXTENDS LocalChannel, SequenceTheorems, TLAPS

(* Types; nobody sends to itself.                                         *)
ChannelOK ==
  /\ fifo \in [Shard -> [Shard -> Seq(Message)]]
  /\ ring \in [Shard -> [Shard -> Seq(Message)]]
  /\ inbox \in [Shard -> [Shard -> Seq(Message)]]
  /\ hidden \in [Shard -> [Shard -> Nat]] /\ sent \in [Shard -> [Shard -> 0 .. MaxSeq]]
  /\ \A s, t \in Shard : Len(ring[t][s]) \in hidden[t][s] .. QueueLength
  /\ hand \in [Shard -> Seq(Message)]
  /\ \A s \in Shard : fifo[s][s] = <<>> /\ ring[s][s] = <<>>

(* Where peer[s] is the number of a shard.                                 *)
ControlOK ==
  /\ sleeping \in [Shard -> BOOLEAN] /\ event \in [Shard -> BOOLEAN]
  /\ pc \in [Shard -> {"run", "move", "load", "store", "wake", "pop", "rest", "check",
                      "barrier", "asleep"}]
  /\ mode \in [Shard -> {"send", "poll", "pure", "sleep"}]
  /\ peer \in [Shard -> 0 .. N] /\ got \in [Shard -> BOOLEAN]
  /\ \A s \in Shard : pc[s] \in {"move", "load", "store", "wake", "rest", "check"} => peer[s] < N
  /\ \A s \in Shard : pc[s] = "check" => mode[s] = "pure"

Base == ChannelOK /\ ControlOK

(* Shard t polls for the last time before it sleeps; from the raising of   *)
(* its flag until it runs again it is Flagged.                             *)
InFinal(t) == mode[t] = "sleep" /\ pc[t] \in {"pop", "rest", "move", "load", "store", "wake"}
Flagged(t) == pc[t] \in {"barrier", "asleep"} \/ InFinal(t)

(* The last poll of t has found the queue from s empty.                    *)
Passed(t, s) ==
  \/ pc[t] = "asleep"
  \/ /\ InFinal(t) /\ ~got[t]
     /\ s < peer[t] \/ (s = peer[t] /\ pc[t] \in {"move", "load", "store", "wake"})

Covered(s, t) == WakeupComing(t) \/ (pc[s] = "load" /\ peer[s] = t /\ sleeping[t])

(* The flag of t is up unless somebody who took it down wakes t.  What t   *)
(* cannot see was pushed after the barrier, and what it has passed over    *)
(* too, so the sender still looks at the flag or has seen it.              *)
WakeOf(t) ==
  /\ Flagged(t) => sleeping[t] \/ WakeupComing(t)
  /\ \A s \in Shard : InFinal(t) /\ hidden[t][s] > 0 => Covered(s, t)
  /\ \A s \in Shard : Passed(t, s) /\ ring[t][s] # <<>> => Covered(s, t)

Wake == \A t \in Shard : WakeOf(t)

-----------------------------------------------------------------------------
(* Types. *)

LEMMA SkipType ==
  ASSUME NEW s \in Shard, NEW k \in 0 .. N
  PROVE  Skip(s, k) \in 0 .. N /\ Skip(s, 0) < N /\ (Skip(s, k) = k \/ (k = s /\ Skip(s, k) = s + 1))
BY ChannelAssumption DEF Skip, Shard

LEMMA NumbersOfShards == N \in Nat /\ \A k \in 0 .. N : k < N => k \in Shard
BY ChannelAssumption DEF Shard

(* The queue and the fifo from s to t. *)
LEMMA Entry ==
  ASSUME ChannelOK, NEW s \in Shard, NEW t \in Shard
  PROVE  /\ fifo[t][s] \in Seq(Message) /\ ring[t][s] \in Seq(Message) /\ inbox[t][s] \in Seq(Message)
         /\ hand[t] \in Seq(Message) /\ hidden[t][s] \in Nat /\ Len(fifo[t][s]) \in Nat
         /\ Len(ring[t][s]) \in Nat /\ hidden[t][s] <= Len(ring[t][s]) /\ Len(ring[t][s]) <= QueueLength
         /\ QueueLength \in Nat
<1>1. /\ fifo[t][s] \in Seq(Message) /\ ring[t][s] \in Seq(Message) /\ inbox[t][s] \in Seq(Message)
      /\ hand[t] \in Seq(Message) /\ hidden[t][s] \in Nat
  BY DEF ChannelOK
<1>2. QueueLength \in Nat
  BY ChannelAssumption
<1>3. Len(fifo[t][s]) \in Nat /\ Len(ring[t][s]) \in Nat
  BY <1>1
<1>4. Len(ring[t][s]) \in hidden[t][s] .. QueueLength
  BY DEF ChannelOK
<1>5. hidden[t][s] <= Len(ring[t][s]) /\ Len(ring[t][s]) <= QueueLength
  BY <1>1, <1>2, <1>4
<1> QED BY <1>1, <1>2, <1>3, <1>5

(* What fits into the queue. *)
LEMMA FitsType ==
  ASSUME ChannelOK, NEW s \in Shard, NEW t \in Shard
  PROVE  /\ Fits(t, s) \in Nat /\ Fits(t, s) <= Len(fifo[t][s])
         /\ Fits(t, s) + Len(ring[t][s]) <= QueueLength
<1>1. /\ Len(fifo[t][s]) \in Nat /\ Len(ring[t][s]) \in Nat /\ QueueLength \in Nat
      /\ Len(ring[t][s]) <= QueueLength
  BY Entry
<1> DEFINE a == Len(fifo[t][s])
           b == QueueLength - Len(ring[t][s])
<1>2. a \in Nat /\ b \in Nat
  BY <1>1
<1>3. Fits(t, s) = CHOOSE x \in {a, b} : \A y \in {a, b} : x <= y
  BY DEF Fits, Min
<1> HIDE DEF a, b
<1>4. Fits(t, s) \in {a, b} /\ Fits(t, s) <= a /\ Fits(t, s) <= b
  <2>1. CASE a <= b
    BY <1>2, <1>3, <2>1
  <2>2. CASE b <= a
    BY <1>2, <1>3, <2>2
  <2> QED BY <1>2, <2>1, <2>2
<1> QED BY <1>1, <1>2, <1>4 DEF a, b

LEMMA AfterMoveControl ==
  ASSUME ControlOK, NEW s \in Shard, pc[s] \in {"move", "load", "wake"}, AfterMove(s),
         UNCHANGED <<sleeping, mode, got>>, event' \in [Shard -> BOOLEAN]
  PROVE  ControlOK'
<1> DEFINE at == CASE mode[s] = "send" -> "run" [] mode[s] = "pure" -> "check" [] OTHER -> "pop"
           next == IF mode[s] \in {"poll", "sleep"} THEN Skip(s, peer[s] + 1) ELSE peer[s]
<1>1. /\ pc' = [pc EXCEPT ![s] = at] /\ peer' = [peer EXCEPT ![s] = next] /\ peer[s] \in 0 .. N /\ peer[s] < N
      /\ mode[s] \in {"send", "poll", "pure", "sleep"}
  BY DEF AfterMove, Goto, ControlOK
<1>2. /\ at \in {"run", "check", "pop"} /\ (at = "check" => mode[s] = "pure" /\ next < N)
  BY <1>1
<1>3. next \in 0 .. N
  <2>1. peer[s] + 1 \in 0 .. N
    BY <1>1, NumbersOfShards
  <2> QED BY <1>1, <2>1, SkipType
<1> HIDE DEF at, next
<1> QED BY <1>1, <1>2, <1>3 DEF ControlOK

LEMMA EnterControl ==
  ASSUME ControlOK, NEW s \in Shard, NEW m \in {"poll", "pure", "sleep"}, NEW at \in {"pop", "move"},
         Enter(s, m, at), UNCHANGED <<sleeping, event>>
  PROVE  ControlOK'
<1>1. Skip(s, 0) \in 0 .. N /\ Skip(s, 0) < N
  BY SkipType, NumbersOfShards
<1> QED BY <1>1 DEF Enter, Goto, ControlOK

LEMMA InitBase == Init => Base
<1> SUFFICES ASSUME Init PROVE ChannelOK /\ ControlOK
  BY DEF Base
<1>1. ChannelOK
  BY ChannelAssumption DEF Init, Table, ChannelOK
<1>2. ControlOK
  BY NumbersOfShards DEF Init, ControlOK
<1> QED BY <1>1, <1>2

LEMMA SendBase ==
  ASSUME Base, NEW s \in Shard, NEW t \in Shard, NEW urgent \in BOOLEAN, Send(s, t, urgent)
  PROVE  Base'
<1> DEFINE m == [seq |-> sent[t][s] + 1, urgent |-> urgent]
           q == IF urgent THEN <<m>> \o fifo[t][s] ELSE Append(fifo[t][s], m)
<1>1. ChannelOK /\ ControlOK
  BY DEF Base
<1>2. s # t /\ sent[t][s] \in 0 .. MaxSeq /\ sent[t][s] < MaxSeq /\ MaxSeq \in Nat
  BY <1>1, ChannelAssumption DEF Send, ChannelOK
<1>3. m \in Message /\ sent[t][s] + 1 \in 0 .. MaxSeq
  BY <1>2 DEF Message
<1>4. q \in Seq(Message)
  BY <1>1, <1>3 DEF ChannelOK
<1>5. /\ sent' = [sent EXCEPT ![t][s] = sent[t][s] + 1] /\ fifo' = [fifo EXCEPT ![t][s] = q]
      /\ UNCHANGED <<ring, hidden, hand, inbox>>
  BY DEF Send
<1> HIDE DEF q, m
<1>6. ChannelOK'
  <2>1. sent' \in [Shard -> [Shard -> 0 .. MaxSeq]] /\ fifo' \in [Shard -> [Shard -> Seq(Message)]]
    BY <1>1, <1>3, <1>4, <1>5 DEF ChannelOK
  <2>2. \A u \in Shard : fifo'[u][u] = <<>>
    BY <1>1, <1>2, <1>5 DEF ChannelOK
  <2> QED BY <1>1, <1>5, <2>1, <2>2 DEF ChannelOK
<1>7. ControlOK'
  <2>1. UNCHANGED <<sleeping, event, got>> /\ t \in 0 .. N /\ t < N
    BY ChannelAssumption DEF Send, Shard
  <2>2. \/ UNCHANGED <<pc, mode, peer>>
        \/ /\ pc' = [pc EXCEPT ![s] = "move"] /\ mode' = [mode EXCEPT ![s] = "send"]
           /\ peer' = [peer EXCEPT ![s] = t]
    BY DEF Send, Goto
  <2> QED BY <1>1, <2>1, <2>2 DEF ControlOK
<1> QED BY <1>6, <1>7 DEF Base

(* What move_pending() does: n messages go from the fifo to the queue.     *)
LEMMA MoveChannel ==
  ASSUME Base, NEW s \in Shard, MovePending(s)
  PROVE  LET t == peer[s]
             n == Fits(t, s)
         IN /\ t \in Shard /\ n \in Nat /\ ChannelOK'
            /\ \A u, v \in Shard : <<u, v>> # <<t, s>> =>
                 ring'[u][v] = ring[u][v] /\ hidden'[u][v] = hidden[u][v]
            /\ n = 0 => ring'[t][s] = ring[t][s] /\ hidden'[t][s] = hidden[t][s]
            /\ n # 0 => t # s
<1> DEFINE t == peer[s]
           n == Fits(t, s)
           moved == SubSeq(fifo[t][s], 1, n)
           rest == SubSeq(fifo[t][s], n + 1, Len(fifo[t][s]))
<1>1. ChannelOK /\ ControlOK
  BY DEF Base
<1>2. t \in Shard
  BY <1>1, NumbersOfShards DEF MovePending, ControlOK
<1>3. /\ ring' = [ring EXCEPT ![t][s] = @ \o moved] /\ hidden' = [hidden EXCEPT ![t][s] = @ + n]
      /\ fifo' = [fifo EXCEPT ![t][s] = rest] /\ UNCHANGED <<hand, inbox, sent>>
  BY DEF MovePending, Push
<1> HIDE DEF t
<1>4. /\ n \in Nat /\ n <= Len(fifo[t][s]) /\ n + Len(ring[t][s]) <= QueueLength
      /\ fifo[t][s] \in Seq(Message) /\ ring[t][s] \in Seq(Message) /\ hidden[t][s] \in Nat
      /\ Len(ring[t][s]) \in Nat /\ hidden[t][s] <= Len(ring[t][s]) /\ QueueLength \in Nat
      /\ Len(fifo[t][s]) \in Nat
  BY <1>1, <1>2, FitsType, Entry
<1> HIDE DEF n
<1>5. moved \in Seq(Message) /\ Len(moved) = n /\ rest \in Seq(Message)
  <2>1. \A i \in 1 .. n : fifo[t][s][i] \in Message
    BY <1>4
  <2>2. \A i \in (n + 1) .. Len(fifo[t][s]) : fifo[t][s][i] \in Message
    BY <1>4
  <2>3. moved \in Seq(Message) /\ Len(moved) = IF 1 <= n THEN n - 1 + 1 ELSE 0
    BY <1>4, <2>1, SubSeqProperties
  <2>4. rest \in Seq(Message)
    BY <1>4, <2>2, SubSeqProperties
  <2> QED BY <1>4, <2>3, <2>4
<1>6. t = s => n = 0
  BY <1>1, <1>2, <1>4 DEF ChannelOK
<1>7. fifo[t][s] = <<>> => rest = <<>>
  BY <1>4
<1> HIDE DEF moved, rest
<1>8. ring[t][s] \o moved \in Seq(Message) /\ Len(ring[t][s] \o moved) = Len(ring[t][s]) + n
  BY <1>4, <1>5, ConcatProperties
<1>9. n = 0 => ring[t][s] \o moved = ring[t][s]
  <2>1. n = 0 => moved = <<>>
    BY <1>5
  <2> QED BY <1>4, <2>1, ConcatEmptySeq
<1>10. /\ ring'[t][s] = ring[t][s] \o moved /\ hidden'[t][s] = hidden[t][s] + n /\ fifo'[t][s] = rest
       /\ \A u, v \in Shard : <<u, v>> # <<t, s>> =>
            ring'[u][v] = ring[u][v] /\ hidden'[u][v] = hidden[u][v] /\ fifo'[u][v] = fifo[u][v]
  BY <1>1, <1>2, <1>3 DEF ChannelOK
<1>11. ChannelOK'
  <2>1. /\ fifo' \in [Shard -> [Shard -> Seq(Message)]] /\ ring' \in [Shard -> [Shard -> Seq(Message)]]
        /\ hidden' \in [Shard -> [Shard -> Nat]]
    <3>1. fifo' \in [Shard -> [Shard -> Seq(Message)]]
      BY <1>1, <1>2, <1>3, <1>5 DEF ChannelOK
    <3>2. ring' \in [Shard -> [Shard -> Seq(Message)]]
      BY <1>1, <1>2, <1>3, <1>8 DEF ChannelOK
    <3>3. hidden[t][s] + n \in Nat
      BY <1>4
    <3>4. hidden' \in [Shard -> [Shard -> Nat]]
      BY <1>1, <1>2, <1>3, <3>3 DEF ChannelOK
    <3> QED BY <3>1, <3>2, <3>4
  <2>2. \A v, u \in Shard : Len(ring'[u][v]) \in hidden'[u][v] .. QueueLength
    <3> SUFFICES ASSUME NEW u \in Shard, NEW v \in Shard PROVE Len(ring'[u][v]) \in hidden'[u][v] .. QueueLength
      OBVIOUS
    <3>1. CASE <<u, v>> = <<t, s>>
      <4>1. Len(ring'[t][s]) = Len(ring[t][s]) + n /\ hidden'[t][s] = hidden[t][s] + n
        BY <1>8, <1>10
      <4>2. Len(ring'[t][s]) \in hidden'[t][s] .. QueueLength
        BY <1>4, <4>1
      <4> QED BY <3>1, <4>2
    <3>2. CASE <<u, v>> # <<t, s>>
      BY <1>1, <1>10, <3>2 DEF ChannelOK
    <3> QED BY <3>1, <3>2
  <2>3. \A u \in Shard : fifo'[u][u] = <<>> /\ ring'[u][u] = <<>>
    <3> SUFFICES ASSUME NEW u \in Shard PROVE fifo'[u][u] = <<>> /\ ring'[u][u] = <<>>
      OBVIOUS
    <3>1. CASE u = t /\ u = s
      BY <1>1, <1>6, <1>7, <1>9, <1>10, <3>1 DEF ChannelOK
    <3>2. CASE ~(u = t /\ u = s)
      BY <1>1, <1>10, <3>2 DEF ChannelOK
    <3> QED BY <3>1, <3>2
  <2> QED BY <1>1, <1>3, <2>1, <2>2, <2>3 DEF ChannelOK
<1>12. n = 0 => hidden'[t][s] = hidden[t][s]
  BY <1>4, <1>10
<1> QED BY <1>2, <1>4, <1>6, <1>9, <1>10, <1>11, <1>12 DEF n, t

LEMMA MoveBase ==
  ASSUME Base, NEW s \in Shard, MovePending(s)
  PROVE  Base'
<1>1. ControlOK /\ ChannelOK'
  BY MoveChannel DEF Base
<1>2. pc[s] = "move" /\ UNCHANGED <<sleeping, event, mode, got>>
  BY DEF MovePending, Push
<1>3. AfterMove(s) \/ (pc' = [pc EXCEPT ![s] = "load"] /\ peer' = peer)
  BY DEF MovePending, Push, Goto
<1>4. CASE AfterMove(s)
  BY <1>1, <1>2, <1>4, AfterMoveControl DEF Base, ControlOK
<1>5. CASE pc' = [pc EXCEPT ![s] = "load"] /\ peer' = peer
  <2>1. ControlOK'
    BY <1>1, <1>2, <1>5 DEF ControlOK
  <2> QED BY <1>1, <2>1 DEF Base
<1> QED BY <1>3, <1>4, <1>5

LEMMA SameChannel == ChannelOK /\ UNCHANGED channel => ChannelOK'
BY DEF channel, ChannelOK

LEMMA WakingBase ==
  ASSUME Base, NEW s \in Shard, LoadSleeping(s) \/ StoreAwake(s) \/ Wakeup(s)
  PROVE  Base'
<1>1. ControlOK /\ ChannelOK'
  BY SameChannel DEF Base, LoadSleeping, StoreAwake, Wakeup
<1>2. peer[s] \in Shard /\ pc[s] \in {"load", "store", "wake"} /\ UNCHANGED <<mode, got>>
  BY <1>1, NumbersOfShards DEF LoadSleeping, StoreAwake, Wakeup, ControlOK
<1>3. CASE LoadSleeping(s)
  <2>1. UNCHANGED <<sleeping, event>> /\ pc[s] = "load"
    BY <1>3 DEF LoadSleeping
  <2>2. AfterMove(s) \/ (pc' = [pc EXCEPT ![s] = "store"] /\ peer' = peer)
    BY <1>3 DEF LoadSleeping, Goto
  <2>3. ControlOK'
    <3>1. CASE AfterMove(s)
      BY <1>1, <1>2, <2>1, <3>1, AfterMoveControl DEF ControlOK
    <3>2. CASE pc' = [pc EXCEPT ![s] = "store"] /\ peer' = peer
      BY <1>1, <1>2, <2>1, <3>2 DEF ControlOK
    <3> QED BY <2>2, <3>1, <3>2
  <2> QED BY <1>1, <2>3 DEF Base
<1>4. CASE StoreAwake(s)
  <2>1. ControlOK'
    BY <1>1, <1>2, <1>4 DEF StoreAwake, Goto, ControlOK
  <2> QED BY <1>1, <2>1 DEF Base
<1>5. CASE Wakeup(s)
  <2>1. event' \in [Shard -> BOOLEAN]
    BY <1>1, <1>2, <1>5 DEF Wakeup, ControlOK
  <2>2. ControlOK'
    BY <1>1, <1>5, <2>1, AfterMoveControl DEF Wakeup
  <2> QED BY <1>1, <2>2 DEF Base
<1> QED BY <1>3, <1>4, <1>5

(* What process_incoming() takes out of a queue.                           *)
LEMMA PopChannel ==
  ASSUME Base, NEW t \in Shard, PopFirst(t) \/ PopRest(t)
  PROVE  /\ ChannelOK' /\ peer[t] \in Shard /\ hidden' = hidden
         /\ \A u, v \in Shard : ring[u][v] = <<>> => ring'[u][v] = <<>>
         /\ \A u, v \in Shard : u # t => ring'[u][v] = ring[u][v]
         /\ \A v \in Shard : v # peer[t] => ring'[t][v] = ring[t][v]
         /\ PopFirst(t) /\ pc'[t] = "move" => ring' = ring /\ Len(ring[t][peer[t]]) = hidden[t][peer[t]]
<1> DEFINE s == peer[t]
<1>1. ChannelOK /\ ControlOK
  BY DEF Base
<1>2. s \in Shard
  BY <1>1, NumbersOfShards DEF PopFirst, PopRest, ControlOK
<1> HIDE DEF s
<1>3. /\ ring[t][s] \in Seq(Message) /\ hidden[t][s] \in Nat /\ Len(ring[t][s]) \in Nat
      /\ hidden[t][s] <= Len(ring[t][s]) /\ Len(ring[t][s]) <= QueueLength /\ QueueLength \in Nat
      /\ hand[t] \in Seq(Message) /\ inbox[t][s] \in Seq(Message)
  BY <1>1, <1>2, Entry
<1>4. ASSUME NEW q \in Seq(Message), Len(q) \in hidden[t][s] .. QueueLength, ring[t][s] = <<>> => q = <<>>,
             ring' = [ring EXCEPT ![t][s] = q], hand' \in [Shard -> Seq(Message)],
             inbox' \in [Shard -> [Shard -> Seq(Message)]], UNCHANGED <<fifo, hidden, sent>>
      PROVE  /\ ChannelOK'
             /\ \A u, v \in Shard : ring[u][v] = <<>> => ring'[u][v] = <<>>
             /\ \A u, v \in Shard : u # t => ring'[u][v] = ring[u][v]
             /\ \A v \in Shard : v # s => ring'[t][v] = ring[t][v]
  <2>1. /\ ring' \in [Shard -> [Shard -> Seq(Message)]] /\ ring'[t][s] = q
        /\ \A u, v \in Shard : <<u, v>> # <<t, s>> => ring'[u][v] = ring[u][v]
    BY <1>1, <1>2, <1>4 DEF ChannelOK
  <2>2. \A u, v \in Shard : ring[u][v] = <<>> => ring'[u][v] = <<>>
    BY <1>4, <2>1
  <2>3. \A v, u \in Shard : Len(ring'[u][v]) \in hidden[u][v] .. QueueLength
    <3> SUFFICES ASSUME NEW u \in Shard, NEW v \in Shard PROVE Len(ring'[u][v]) \in hidden[u][v] .. QueueLength
      OBVIOUS
    <3>1. CASE u = t /\ v = s
      BY <1>4, <2>1, <3>1
    <3>2. CASE ~(u = t /\ v = s)
      BY <1>1, <2>1, <3>2 DEF ChannelOK
    <3> QED BY <3>1, <3>2
  <2>4. ChannelOK'
    BY <1>1, <1>4, <2>1, <2>2, <2>3 DEF ChannelOK
  <2> QED BY <2>1, <2>2, <2>4
<1>5. CASE PopFirst(t)
  <2>1. UNCHANGED <<fifo, hidden, inbox, sent>> /\ pc[t] = "pop"
    BY <1>5 DEF PopFirst
  <2>2. CASE Visible(t, s) = 0
    <3>1. ring' = ring /\ hand' = hand
      BY <1>5, <2>2 DEF PopFirst, s
    <3>2. Len(ring[t][s]) = hidden[t][s]
      BY <1>3, <2>2 DEF Visible
    <3>3. ChannelOK'
      BY <1>1, <2>1, <3>1 DEF ChannelOK
    <3> QED BY <1>2, <2>1, <3>1, <3>2, <3>3 DEF s
  <2>3. CASE Visible(t, s) # 0
    <3>1. /\ ring' = [ring EXCEPT ![t][s] = Tail(ring[t][s])] /\ hand' = [hand EXCEPT ![t] = <<Head(ring[t][s])>>]
          /\ pc' = [pc EXCEPT ![t] = "rest"]
      BY <1>5, <2>3 DEF PopFirst, Goto, s
    <3>2. ring[t][s] # <<>> /\ Len(ring[t][s]) > hidden[t][s]
      BY <1>3, <2>3 DEF Visible
    <3>3. Tail(ring[t][s]) \in Seq(Message) /\ Len(Tail(ring[t][s])) = Len(ring[t][s]) - 1 /\ Head(ring[t][s]) \in Message
      BY <1>3, <3>2
    <3>4. hand' \in [Shard -> Seq(Message)] /\ inbox' \in [Shard -> [Shard -> Seq(Message)]]
      <4>1. <<Head(ring[t][s])>> \in Seq(Message)
        BY <3>3
      <4> QED BY <1>1, <2>1, <3>1, <4>1 DEF ChannelOK
    <3>5. Len(Tail(ring[t][s])) \in hidden[t][s] .. QueueLength
      BY <1>3, <3>2, <3>3
    <3>6. pc'[t] = "rest"
      BY <1>1, <3>1 DEF ControlOK
    <3> QED BY <1>2, <1>4, <2>1, <3>1, <3>2, <3>3, <3>4, <3>5, <3>6 DEF s
  <2> QED BY <2>2, <2>3
<1>6. CASE PopRest(t)
  <2> DEFINE n == Visible(t, s)
             rest == SubSeq(ring[t][s], n + 1, Len(ring[t][s]))
             taken == SubSeq(ring[t][s], 1, n)
  <2>1. /\ UNCHANGED <<fifo, hidden, sent>> /\ pc[t] = "rest"
        /\ inbox' = [inbox EXCEPT ![t][s] = inbox[t][s] \o hand[t] \o taken]
        /\ ring' = [ring EXCEPT ![t][s] = rest] /\ hand' = [hand EXCEPT ![t] = <<>>]
    BY <1>6 DEF PopRest, s
  <2>2. n \in Nat /\ n <= Len(ring[t][s]) /\ Len(ring[t][s]) - n = hidden[t][s]
    BY <1>3 DEF Visible
  <2> HIDE DEF n
  <2>3. /\ taken \in Seq(Message) /\ rest \in Seq(Message)
        /\ Len(rest) = hidden[t][s]
    <3>1. (\A i \in 1 .. n : ring[t][s][i] \in Message) /\ \A i \in (n + 1) .. Len(ring[t][s]) : ring[t][s][i] \in Message
      BY <1>3, <2>2
    <3>2. taken \in Seq(Message)
      BY <1>3, <2>2, <3>1, SubSeqProperties
    <3>3. rest \in Seq(Message) /\ Len(rest) = IF n + 1 <= Len(ring[t][s]) THEN Len(ring[t][s]) - (n + 1) + 1 ELSE 0
      BY <1>3, <2>2, <3>1, SubSeqProperties
    <3> QED BY <1>3, <2>2, <3>2, <3>3
  <2>4. ring[t][s] = <<>> => rest = <<>>
    BY <1>3, <2>2, <2>3
  <2> HIDE DEF rest, taken
  <2>5. hand' \in [Shard -> Seq(Message)] /\ inbox' \in [Shard -> [Shard -> Seq(Message)]]
    <3>1. inbox[t][s] \o hand[t] \o taken \in Seq(Message)
      BY <1>3, <2>3
    <3>2. hand' \in [Shard -> Seq(Message)]
      BY <1>1, <2>1 DEF ChannelOK
    <3>3. inbox' \in [Shard -> [Shard -> Seq(Message)]]
      BY <1>1, <1>2, <2>1, <3>1 DEF ChannelOK
    <3> QED BY <3>2, <3>3
  <2>6. Len(rest) \in hidden[t][s] .. QueueLength
    BY <1>3, <2>3
  <2> QED BY <1>2, <1>4, <2>1, <2>3, <2>4, <2>5, <2>6 DEF s, PopFirst
<1> QED BY <1>5, <1>6

LEMMA PollingBase ==
  ASSUME Base, NEW s \in Shard, Polling(s)
  PROVE  Base'
<1>1. ChannelOK /\ ControlOK
  BY DEF Base
<1>2. CASE PopFirst(s) \/ PopRest(s)
  <2>1. ChannelOK' /\ peer[s] \in Shard
    BY <1>2, PopChannel
  <2>2. /\ pc' = [pc EXCEPT ![s] = "move"] \/ pc' = [pc EXCEPT ![s] = "rest"]
        /\ got' = got \/ got' = [got EXCEPT ![s] = TRUE]
        /\ UNCHANGED <<sleeping, event, mode, peer>>
    BY <1>2 DEF PopFirst, PopRest, Goto
  <2>3. peer[s] < N
    BY <2>1, ChannelAssumption DEF Shard
  <2>4. ControlOK'
    BY <1>1, <2>2, <2>3 DEF ControlOK
  <2> QED BY <2>1, <2>4 DEF Base
<1>3. CASE Poll(s) \/ PurePoll(s)
  BY <1>1, <1>3, EnterControl, SameChannel DEF Base, Poll, PurePoll
<1>4. CASE PollDone(s)
  <2>1. ControlOK'
    BY <1>1, <1>4 DEF PollDone, Goto, ControlOK
  <2> QED BY <1>1, <1>4, <2>1, SameChannel DEF Base, PollDone
<1>5. CASE PureCheck(s)
  <2> DEFINE next == Skip(s, peer[s] + 1)
  <2>1. next \in 0 .. N /\ N \in Nat
    <3>1. peer[s] + 1 \in 0 .. N
      BY <1>1, <1>5, NumbersOfShards DEF PureCheck, ControlOK
    <3> QED BY <3>1, SkipType, NumbersOfShards
  <2>2. \/ pc' = [pc EXCEPT ![s] = "run"] /\ peer' = peer
        \/ next # N /\ pc' = [pc EXCEPT ![s] = "move"] /\ peer' = [peer EXCEPT ![s] = next]
    BY <1>5 DEF PureCheck, Goto
  <2>3. UNCHANGED <<sleeping, event, mode, got>>
    BY <1>5 DEF PureCheck
  <2> HIDE DEF next
  <2>4. ControlOK'
    BY <1>1, <2>1, <2>2, <2>3 DEF ControlOK
  <2> QED BY <1>1, <1>5, <2>4, SameChannel DEF Base, PureCheck
<1> QED BY <1>2, <1>3, <1>4, <1>5 DEF Polling

LEMMA SleepingBase ==
  ASSUME Base, NEW s \in Shard, Sleeping(s) \/ WokenByTimer(s)
  PROVE  Base'
<1>1. ChannelOK /\ ControlOK
  BY DEF Base
<1>2. CASE Barrier(s)
  <2>1. ControlOK'
    BY <1>1, <1>2, EnterControl DEF Barrier
  <2>2. ChannelOK'
    <3>1. hidden' \in [Shard -> [Shard -> Nat]] /\ \A u, v \in Shard : hidden'[u][v] = 0
      BY <1>2 DEF Barrier, Table
    <3>2. \A v, u \in Shard : Len(ring[u][v]) \in hidden'[u][v] .. QueueLength
      BY <1>1, <3>1, Entry
    <3> QED BY <1>1, <1>2, <3>1, <3>2 DEF Barrier, ChannelOK
  <2> QED BY <2>1, <2>2 DEF Base
<1>3. CASE TryEnter(s) \/ BarrierRefused(s) \/ SleepDone(s)
  <2>1. ControlOK'
    BY <1>1, <1>3 DEF TryEnter, BarrierRefused, SleepDone, Goto, ControlOK
  <2> QED BY <1>1, <1>3, <2>1, SameChannel DEF Base, TryEnter, BarrierRefused, SleepDone
<1>4. CASE WokenByEvent(s) \/ WokenByTimer(s)
  <2>1. ControlOK'
    BY <1>1, <1>4 DEF WokenByEvent, WokenByTimer, Awake, Goto, ControlOK
  <2> QED BY <1>1, <1>4, <2>1, SameChannel DEF Base, WokenByEvent, WokenByTimer, Awake
<1> QED BY <1>2, <1>3, <1>4 DEF Sleeping

LEMMA DrainBase ==
  ASSUME Base, NEW s \in Shard, NEW t \in Shard, Drain(s, t)
  PROVE  Base' /\ \A u, v \in Shard : hidden'[u][v] = hidden[u][v] \/ hidden'[u][v] = 0
<1>1. ChannelOK /\ ControlOK
  BY DEF Base
<1>2. /\ hidden' \in [Shard -> [Shard -> Nat]]
      /\ \A u, v \in Shard : hidden'[u][v] = hidden[u][v] \/ hidden'[u][v] = 0
  BY <1>1 DEF Drain, ChannelOK
<1>3. \A v, u \in Shard : Len(ring[u][v]) \in hidden'[u][v] .. QueueLength
  <2> SUFFICES ASSUME NEW u \in Shard, NEW v \in Shard PROVE Len(ring[u][v]) \in hidden'[u][v] .. QueueLength
    OBVIOUS
  <2>1. /\ hidden[u][v] \in Nat /\ Len(ring[u][v]) \in Nat /\ QueueLength \in Nat
        /\ hidden[u][v] <= Len(ring[u][v]) /\ Len(ring[u][v]) <= QueueLength
    BY <1>1, Entry
  <2>2. hidden'[u][v] = hidden[u][v] \/ hidden'[u][v] = 0
    BY <1>2
  <2> QED BY <2>1, <2>2
<1>4. ChannelOK'
  BY <1>1, <1>2, <1>3 DEF Drain, ChannelOK
<1>5. ControlOK'
  BY <1>1 DEF Drain, control, ControlOK
<1> QED BY <1>2, <1>4, <1>5 DEF Base

LEMMA StepBase == Base /\ [Next]_vars => Base'
<1> SUFFICES ASSUME Base, [Next]_vars PROVE Base'
  OBVIOUS
<1>1. ASSUME NEW s \in Shard, Step(s) PROVE Base'
  BY <1>1, MoveBase, WakingBase, PollingBase, SleepingBase DEF Step, Moving
<1>2. CASE UNCHANGED vars
  <2>1. ControlOK'
    BY <1>2 DEF vars, control, Base, ControlOK
  <2> QED BY <1>2, <2>1, SameChannel DEF vars, Base
<1> QED BY <1>1, <1>2, SleepingBase, DrainBase, SendBase DEF Next

-----------------------------------------------------------------------------
(* Wakeups. *)

(* What has to be shown of a step, for a shard t that is on its way.       *)
LEMMA Preserved ==
  ASSUME NEW t \in Shard, WakeOf(t),
         Flagged(t)' => Flagged(t),
         InFinal(t)' => InFinal(t),
         WakeupComing(t) => WakeupComing(t)',
         sleeping[t] => sleeping'[t] \/ WakeupComing(t)',
         \A s \in Shard : Covered(s, t) => Covered(s, t)',
         \A s \in Shard : InFinal(t)' /\ hidden'[t][s] > 0 => hidden[t][s] > 0 \/ Covered(s, t)',
         \A s \in Shard : Passed(t, s)' /\ ring'[t][s] # <<>> =>
           (Passed(t, s) /\ ring[t][s] # <<>>) \/ Covered(s, t)'
  PROVE  WakeOf(t)'
<1>1. (Flagged(t) => sleeping[t] \/ WakeupComing(t))
  BY DEF WakeOf
<1>2. (Flagged(t) => sleeping[t] \/ WakeupComing(t))'
  BY <1>1
<1>3. \A s \in Shard : InFinal(t)' /\ hidden'[t][s] > 0 => Covered(s, t)'
  BY DEF WakeOf
<1>4. \A s \in Shard : Passed(t, s)' /\ ring'[t][s] # <<>> => Covered(s, t)'
  BY DEF WakeOf
<1> QED BY <1>2, <1>3, <1>4 DEF WakeOf

(* A step of shard u that is not waking anybody keeps what others wait for *)
(* and concerns only u.                                                    *)
OnlyOf(u) ==
  \A v \in Shard \ {u} :
    /\ pc'[v] = pc[v] /\ peer'[v] = peer[v] /\ mode'[v] = mode[v] /\ got'[v] = got[v]

LEMMA QuietCover ==
  ASSUME NEW u \in Shard, pc[u] \notin {"load", "store", "wake"}, OnlyOf(u),
         NEW t \in Shard, event'[t] = event[t], sleeping[t] => sleeping'[t]
  PROVE  /\ WakeupComing(t) => WakeupComing(t)'
         /\ \A s \in Shard : Covered(s, t) => Covered(s, t)'
<1>1. WakeupComing(t) => WakeupComing(t)'
  BY DEF WakeupComing, OnlyOf
<1>2. \A s \in Shard : pc[s] = "load" => s # u
  OBVIOUS
<1> QED BY <1>1, <1>2 DEF Covered, OnlyOf

LEMMA QuietOther ==
  ASSUME NEW u \in Shard, pc[u] \notin {"load", "store", "wake"}, OnlyOf(u),
         NEW t \in Shard \ {u}, WakeOf(t), event'[t] = event[t], sleeping'[t] = sleeping[t],
         \A s \in Shard : ring[t][s] = <<>> => ring'[t][s] = <<>>,
         \A s \in Shard : hidden'[t][s] = hidden[t][s] \/ hidden'[t][s] = 0
  PROVE  WakeOf(t)'
<1>1. /\ (Flagged(t)' <=> Flagged(t)) /\ (InFinal(t)' <=> InFinal(t))
      /\ \A s \in Shard : Passed(t, s)' <=> Passed(t, s)
  BY DEF OnlyOf, Flagged, InFinal, Passed
<1>2. /\ WakeupComing(t) => WakeupComing(t)'
      /\ \A s \in Shard : Covered(s, t) => Covered(s, t)'
  BY QuietCover
<1>3. \A s \in Shard : hidden'[t][s] > 0 => hidden[t][s] > 0
  OBVIOUS
<1>4. \A s \in Shard : ring'[t][s] # <<>> => ring[t][s] # <<>>
  OBVIOUS
<1> QED BY <1>1, <1>2, <1>3, <1>4, Preserved

(* What a shard does after move_pending(), seen by itself.                 *)
LEMMA AfterMoveSelf ==
  ASSUME Base, NEW u \in Shard, pc[u] \in {"move", "load", "wake"}, AfterMove(u), UNCHANGED <<mode, got>>
  PROVE  /\ OnlyOf(u) /\ pc'[u] \in {"run", "check", "pop"}
         /\ Flagged(u)' => Flagged(u)
         /\ InFinal(u)' => InFinal(u)
         /\ \A s \in Shard : Passed(u, s)' => Passed(u, s) \/ s = u
<1> DEFINE at == CASE mode[u] = "send" -> "run" [] mode[u] = "pure" -> "check" [] OTHER -> "pop"
           next == IF mode[u] \in {"poll", "sleep"} THEN Skip(u, peer[u] + 1) ELSE peer[u]
<1>1. /\ pc' = [pc EXCEPT ![u] = at] /\ peer' = [peer EXCEPT ![u] = next]
      /\ peer[u] \in 0 .. N /\ peer[u] < N /\ mode[u] \in {"send", "poll", "pure", "sleep"}
      /\ DOMAIN pc = Shard /\ DOMAIN peer = Shard
  BY DEF AfterMove, Goto, Base, ControlOK
<1>2. at \in {"run", "check", "pop"} /\ (mode[u] = "sleep" => next = Skip(u, peer[u] + 1))
  BY <1>1
<1>3. mode[u] = "sleep" => \A s \in Shard : s < next => s <= peer[u] \/ s = u
  <2>1. peer[u] + 1 \in 0 .. N /\ N \in Nat
    BY <1>1, NumbersOfShards
  <2>2. Skip(u, peer[u] + 1) = peer[u] + 1 \/ (peer[u] + 1 = u /\ Skip(u, peer[u] + 1) = u + 1)
    BY <2>1, SkipType
  <2>3. \A s \in Shard : s \in Nat
    BY NumbersOfShards DEF Shard
  <2> QED BY <1>1, <1>2, <2>1, <2>2, <2>3
<1> HIDE DEF at, next
<1>4. pc'[u] = at /\ peer'[u] = next /\ mode'[u] = mode[u] /\ got'[u] = got[u]
  BY <1>1
<1>5. OnlyOf(u)
  BY <1>1 DEF OnlyOf
<1>6. (Flagged(u)' => Flagged(u)) /\ (InFinal(u)' => InFinal(u))
  BY <1>2, <1>4 DEF Flagged, InFinal
<1>7. ASSUME NEW s \in Shard, Passed(u, s)' PROVE Passed(u, s) \/ s = u
  <2>1. mode[u] = "sleep" /\ ~got[u] /\ s < next
    BY <1>2, <1>4, <1>7 DEF Passed, InFinal
  <2>2. s <= peer[u] \/ s = u
    BY <1>3, <2>1
  <2>3. s \in Nat /\ peer[u] \in Nat
    BY <1>1, NumbersOfShards DEF Shard
  <2>4. CASE s # u
    <3>1. s < peer[u] \/ s = peer[u]
      BY <2>2, <2>3, <2>4
    <3>2. CASE pc[u] \in {"move", "load", "wake"}
      BY <2>1, <3>1, <3>2 DEF Passed, InFinal
    <3> QED BY <3>2
  <2> QED BY <2>4
<1> QED BY <1>2, <1>4, <1>5, <1>6, <1>7

LEMMA SendWake ==
  ASSUME Base, Wake, NEW u \in Shard, NEW t \in Shard, NEW urgent \in BOOLEAN, Send(u, t, urgent)
  PROVE  Wake'
<1>1. /\ pc[u] = "run" /\ UNCHANGED <<ring, hidden, sleeping, event, got>>
      /\ \/ UNCHANGED <<pc, mode, peer>>
         \/ /\ pc' = [pc EXCEPT ![u] = "move"] /\ mode' = [mode EXCEPT ![u] = "send"]
            /\ peer' = [peer EXCEPT ![u] = t]
  BY DEF Send, Goto
<1>2. OnlyOf(u) /\ ~Flagged(u)'
  BY <1>1 DEF OnlyOf, Flagged, InFinal, Base, ControlOK
<1>3. WakeOf(u)'
  BY <1>2 DEF WakeOf, Flagged, Passed
<1>4. ASSUME NEW v \in Shard \ {u} PROVE WakeOf(v)'
  BY <1>1, <1>2, QuietOther DEF Wake
<1> QED BY <1>3, <1>4 DEF Wake

LEMMA DrainWake ==
  ASSUME Base, Wake, NEW s \in Shard, NEW t \in Shard, Drain(s, t)
  PROVE  Wake'
<1> SUFFICES ASSUME NEW v \in Shard PROVE WakeOf(v)'
  BY DEF Wake
<1>1. UNCHANGED <<ring, sleeping, event, pc, mode, peer, got>>
  BY DEF Drain, control
<1>2. \A u \in Shard : hidden'[v][u] > 0 => hidden[v][u] > 0
  BY DrainBase
<1>3. /\ (Flagged(v)' <=> Flagged(v)) /\ (InFinal(v)' <=> InFinal(v)) /\ (WakeupComing(v)' <=> WakeupComing(v))
      /\ \A u \in Shard : (Passed(v, u)' <=> Passed(v, u)) /\ (Covered(u, v)' <=> Covered(u, v))
  BY <1>1 DEF Flagged, InFinal, Passed, Covered, WakeupComing
<1> QED BY <1>1, <1>2, <1>3, Preserved DEF Wake

LEMMA MoveWake ==
  ASSUME Base, Wake, NEW u \in Shard, MovePending(u)
  PROVE  Wake'
<1>0. PICK t \in Shard : t = peer[u]
  BY NumbersOfShards DEF MovePending, Base, ControlOK
<1> DEFINE n == Fits(t, u)
<1>1. /\ pc[u] = "move" /\ UNCHANGED <<sleeping, event, mode, got>>
      /\ IF n = 0 THEN AfterMove(u) ELSE pc' = [pc EXCEPT ![u] = "load"] /\ peer' = peer
  BY <1>0 DEF MovePending, Push, Goto
<1>2. /\ t \in Shard
      /\ \A v, s \in Shard : <<v, s>> # <<t, u>> => ring'[v][s] = ring[v][s] /\ hidden'[v][s] = hidden[v][s]
      /\ n = 0 => ring'[t][u] = ring[t][u] /\ hidden'[t][u] = hidden[t][u]
      /\ n # 0 => t # u
  BY <1>0, MoveChannel
<1> HIDE DEF n
<1>3. CASE n = 0
  <2>1. \A v, s \in Shard : ring'[v][s] = ring[v][s] /\ hidden'[v][s] = hidden[v][s]
    <3> SUFFICES ASSUME NEW v \in Shard, NEW s \in Shard
                 PROVE  ring'[v][s] = ring[v][s] /\ hidden'[v][s] = hidden[v][s]
      OBVIOUS
    <3>1. CASE v = t /\ s = u
      BY <1>2, <1>3, <3>1
    <3>2. CASE ~(v = t /\ s = u)
      BY <1>2, <3>2
    <3> QED BY <3>1, <3>2
  <2>2. /\ OnlyOf(u) /\ (Flagged(u)' => Flagged(u)) /\ (InFinal(u)' => InFinal(u))
        /\ \A s \in Shard : Passed(u, s)' => Passed(u, s) \/ s = u
    BY <1>1, <1>3, AfterMoveSelf
  <2>3. WakeOf(u)'
    <3>1. /\ WakeupComing(u) => WakeupComing(u)'
          /\ \A s \in Shard : Covered(s, u) => Covered(s, u)'
      BY <1>1, <2>2, QuietCover
    <3>2. ring[u][u] = <<>>
      BY DEF Base, ChannelOK
    <3>3. \A s \in Shard : Passed(u, s)' /\ ring'[u][s] # <<>> => Passed(u, s) /\ ring[u][s] # <<>>
      BY <2>1, <2>2, <3>2
    <3>4. \A s \in Shard : hidden'[u][s] > 0 => hidden[u][s] > 0
      BY <2>1
    <3> QED BY <1>1, <2>2, <3>1, <3>3, <3>4, Preserved DEF Wake
  <2>4. ASSUME NEW v \in Shard \ {u} PROVE WakeOf(v)'
    BY <1>1, <2>1, <2>2, QuietOther DEF Wake
  <2> QED BY <2>3, <2>4 DEF Wake
<1>4. CASE n # 0
  <2>1. pc' = [pc EXCEPT ![u] = "load"] /\ peer' = peer /\ DOMAIN pc = Shard
    BY <1>1, <1>4 DEF Base, ControlOK
  <2>2. OnlyOf(u) /\ pc'[u] = "load" /\ peer'[u] = t /\ t # u
    BY <1>0, <1>1, <1>2, <1>4, <2>1 DEF OnlyOf
  <2>3. \A v \in Shard : /\ WakeupComing(v) => WakeupComing(v)'
                         /\ \A s \in Shard : Covered(s, v) => Covered(s, v)'
    BY <1>1, <2>2, QuietCover
  <2>4. \A v \in Shard : /\ (Flagged(v)' <=> Flagged(v)) /\ (InFinal(v)' <=> InFinal(v))
                         /\ \A s \in Shard : Passed(v, s)' <=> Passed(v, s)
    <3> SUFFICES ASSUME NEW v \in Shard
                 PROVE  /\ (Flagged(v)' <=> Flagged(v)) /\ (InFinal(v)' <=> InFinal(v))
                        /\ \A s \in Shard : Passed(v, s)' <=> Passed(v, s)
      OBVIOUS
    <3>1. CASE v = u
      BY <1>1, <2>1, <2>2, <3>1 DEF Flagged, InFinal, Passed
    <3>2. CASE v # u
      BY <2>2, <3>2 DEF OnlyOf, Flagged, InFinal, Passed
    <3> QED BY <3>1, <3>2
  <2>5. Flagged(t) => Covered(u, t)'
    <3>1. Flagged(t) => sleeping[t] \/ WakeupComing(t)
      BY <1>2 DEF Wake, WakeOf
    <3>2. WakeupComing(t) => WakeupComing(t)'
      BY <1>2, <2>3
    <3> QED BY <1>1, <2>2, <3>1, <3>2 DEF Covered
  <2>6. ASSUME NEW v \in Shard PROVE WakeOf(v)'
    <3>1. ASSUME NEW s \in Shard, InFinal(v)', hidden'[v][s] > 0 PROVE hidden[v][s] > 0 \/ Covered(s, v)'
      <4>1. CASE v = t /\ s = u
        BY <2>4, <2>5, <3>1, <4>1 DEF Flagged
      <4>2. CASE ~(v = t /\ s = u)
        BY <1>2, <3>1, <4>2
      <4> QED BY <4>1, <4>2
    <3>2. ASSUME NEW s \in Shard, Passed(v, s)', ring'[v][s] # <<>>
          PROVE  (Passed(v, s) /\ ring[v][s] # <<>>) \/ Covered(s, v)'
      <4>1. CASE v = t /\ s = u
        BY <2>4, <2>5, <3>2, <4>1 DEF Flagged, Passed
      <4>2. CASE ~(v = t /\ s = u)
        BY <1>2, <2>4, <3>2, <4>2
      <4> QED BY <4>1, <4>2
    <3> QED BY <1>1, <2>3, <2>4, <3>1, <3>2, Preserved DEF Wake
  <2> QED BY <2>6 DEF Wake
<1> QED BY <1>3, <1>4

(* The three steps of maybe_wakeup(): who counted on u still can.          *)
LEMMA WakingWake ==
  ASSUME Base, Wake, NEW u \in Shard, LoadSleeping(u) \/ StoreAwake(u) \/ Wakeup(u)
  PROVE  Wake'
<1>1. /\ UNCHANGED <<ring, hidden, mode, got>> /\ pc[u] \in {"load", "store", "wake"}
  BY DEF LoadSleeping, StoreAwake, Wakeup, channel
<1>2. peer[u] \in Shard /\ DOMAIN pc = Shard /\ DOMAIN sleeping = Shard /\ DOMAIN event = Shard
  BY <1>1, NumbersOfShards DEF Base, ControlOK
<1>3. ASSUME OnlyOf(u), Flagged(u)' => Flagged(u), InFinal(u)' => InFinal(u),
             \A s \in Shard : Passed(u, s)' => Passed(u, s) \/ s = u,
             \A v \in Shard : /\ WakeupComing(v) => WakeupComing(v)'
                              /\ sleeping[v] => sleeping'[v] \/ WakeupComing(v)'
                              /\ \A s \in Shard : Covered(s, v) => Covered(s, v)'
      PROVE  Wake'
  <2> SUFFICES ASSUME NEW v \in Shard PROVE WakeOf(v)'
    BY DEF Wake
  <2>1. ring[u][u] = <<>>
    BY DEF Base, ChannelOK
  <2>2. /\ (Flagged(v)' => Flagged(v)) /\ (InFinal(v)' => InFinal(v))
        /\ \A s \in Shard : Passed(v, s)' => Passed(v, s) \/ (v = u /\ s = u)
    <3>1. CASE v = u
      BY <1>3, <3>1
    <3>2. CASE v # u
      BY <1>3, <3>2 DEF OnlyOf, Flagged, InFinal, Passed
    <3> QED BY <3>1, <3>2
  <2>3. \A s \in Shard : Passed(v, s)' /\ ring'[v][s] # <<>> => Passed(v, s) /\ ring[v][s] # <<>>
    BY <1>1, <2>1, <2>2
  <2> QED BY <1>1, <1>3, <2>2, <2>3, Preserved DEF Wake
<1>0. PICK t \in Shard : t = peer[u]
  BY <1>2
<1>4. CASE LoadSleeping(u)
  <2>1. pc[u] = "load" /\ UNCHANGED <<sleeping, event>>
    BY <1>4 DEF LoadSleeping
  <2>2. CASE sleeping[t]
    <3>1. pc' = [pc EXCEPT ![u] = "store"] /\ peer' = peer
      BY <1>0, <1>4, <2>2 DEF LoadSleeping, Goto
    <3>2. OnlyOf(u) /\ pc'[u] = "store" /\ peer'[u] = t
      BY <1>0, <1>1, <1>2, <3>1 DEF OnlyOf
    <3>3. /\ Flagged(u)' => Flagged(u)
          /\ InFinal(u)' => InFinal(u)
          /\ \A s \in Shard : Passed(u, s)' => Passed(u, s)
      BY <1>1, <2>1, <3>1, <3>2 DEF Flagged, InFinal, Passed
    <3>4. WakeupComing(t)'
      BY <3>2 DEF WakeupComing
    <3>5. \A v \in Shard : WakeupComing(v) => WakeupComing(v)'
      BY <2>1, <3>2 DEF WakeupComing, OnlyOf
    <3>6. \A v, s \in Shard : Covered(s, v) => Covered(s, v)'
      <4> SUFFICES ASSUME NEW v \in Shard, NEW s \in Shard, Covered(s, v) PROVE Covered(s, v)'
        OBVIOUS
      <4>1. CASE s = u /\ v = t
        BY <3>4, <4>1 DEF Covered
      <4>2. CASE s = u /\ v # t
        BY <1>0, <3>5, <4>2 DEF Covered
      <4>3. CASE s # u
        BY <2>1, <3>2, <3>5, <4>3 DEF Covered, OnlyOf
      <4> QED BY <4>1, <4>2, <4>3
    <3> QED BY <1>3, <2>1, <3>2, <3>3, <3>5, <3>6
  <2>3. CASE ~sleeping[t]
    <3>1. AfterMove(u)
      BY <1>0, <1>4, <2>3 DEF LoadSleeping
    <3>2. /\ OnlyOf(u) /\ pc'[u] \in {"run", "check", "pop"}
          /\ (Flagged(u)' => Flagged(u)) /\ (InFinal(u)' => InFinal(u))
          /\ \A s \in Shard : Passed(u, s)' => Passed(u, s) \/ s = u
      BY <1>1, <2>1, <3>1, AfterMoveSelf
    <3>3. \A v \in Shard : WakeupComing(v) => WakeupComing(v)'
      BY <2>1, <3>2 DEF WakeupComing, OnlyOf
    <3>4. \A v, s \in Shard : Covered(s, v) => Covered(s, v)'
      <4> SUFFICES ASSUME NEW v \in Shard, NEW s \in Shard, Covered(s, v) PROVE Covered(s, v)'
        OBVIOUS
      <4>1. CASE s = u
        BY <1>0, <2>3, <3>3, <4>1 DEF Covered
      <4>2. CASE s # u
        BY <2>1, <3>2, <3>3, <4>2 DEF Covered, OnlyOf
      <4> QED BY <4>1, <4>2
    <3> QED BY <1>3, <2>1, <3>2, <3>3, <3>4
  <2> QED BY <2>2, <2>3
<1>5. CASE StoreAwake(u)
  <2>1. /\ pc[u] = "store" /\ pc' = [pc EXCEPT ![u] = "wake"] /\ peer' = peer /\ event' = event
        /\ sleeping' = [sleeping EXCEPT ![t] = FALSE]
    BY <1>0, <1>5 DEF StoreAwake, Goto
  <2>2. OnlyOf(u) /\ pc'[u] = "wake" /\ peer'[u] = t
    BY <1>0, <1>1, <1>2, <2>1 DEF OnlyOf
  <2>3. /\ Flagged(u)' => Flagged(u)
        /\ InFinal(u)' => InFinal(u)
        /\ \A s \in Shard : Passed(u, s)' => Passed(u, s)
    BY <1>1, <2>1, <2>2 DEF Flagged, InFinal, Passed
  <2>4. WakeupComing(t)'
    BY <2>2 DEF WakeupComing
  <2>5. \A v \in Shard : WakeupComing(v) => WakeupComing(v)'
    BY <2>1, <2>2 DEF WakeupComing, OnlyOf
  <2>6. \A v \in Shard : sleeping[v] => sleeping'[v] \/ WakeupComing(v)'
    BY <1>2, <2>1, <2>4
  <2>7. \A v, s \in Shard : Covered(s, v) => Covered(s, v)'
    <3> SUFFICES ASSUME NEW v \in Shard, NEW s \in Shard, Covered(s, v) PROVE Covered(s, v)'
      OBVIOUS
    <3>1. CASE s = u
      BY <2>1, <2>5, <3>1 DEF Covered
    <3>2. CASE s # u
      BY <2>2, <2>5, <2>6, <3>2 DEF Covered, OnlyOf
    <3> QED BY <3>1, <3>2
  <2> QED BY <1>3, <2>2, <2>3, <2>5, <2>6, <2>7
<1>6. CASE Wakeup(u)
  <2>1. pc[u] = "wake" /\ AfterMove(u) /\ sleeping' = sleeping /\ event' = [event EXCEPT ![t] = TRUE]
    BY <1>0, <1>6 DEF Wakeup
  <2>2. /\ OnlyOf(u) /\ pc'[u] \in {"run", "check", "pop"}
        /\ (Flagged(u)' => Flagged(u)) /\ (InFinal(u)' => InFinal(u))
        /\ \A s \in Shard : Passed(u, s)' => Passed(u, s) \/ s = u
    BY <1>1, <2>1, AfterMoveSelf
  <2>3. event'[t] /\ \A v \in Shard : event[v] => event'[v]
    BY <1>2, <2>1
  <2>4. \A v \in Shard : WakeupComing(v) => WakeupComing(v)'
    <3> SUFFICES ASSUME NEW v \in Shard, WakeupComing(v) PROVE WakeupComing(v)'
      OBVIOUS
    <3>1. CASE v = t
      BY <2>3, <3>1 DEF WakeupComing
    <3>2. CASE v # t
      BY <1>0, <2>2, <2>3, <3>2 DEF WakeupComing, OnlyOf
    <3> QED BY <3>1, <3>2
  <2>5. \A v, s \in Shard : Covered(s, v) => Covered(s, v)'
    <3> SUFFICES ASSUME NEW v \in Shard, NEW s \in Shard, Covered(s, v) PROVE Covered(s, v)'
      OBVIOUS
    <3>1. CASE s = u
      BY <2>1, <2>4, <3>1 DEF Covered
    <3>2. CASE s # u
      BY <2>1, <2>2, <2>4, <3>2 DEF Covered, OnlyOf
    <3> QED BY <3>1, <3>2
  <2> QED BY <1>3, <2>1, <2>2, <2>4, <2>5
<1> QED BY <1>4, <1>5, <1>6

(* A step of u that concerns u alone is settled by what it does to u.      *)
LEMMA QuietStep ==
  ASSUME Wake, NEW u \in Shard, pc[u] \notin {"load", "store", "wake"}, OnlyOf(u), WakeOf(u)',
         \A v \in Shard \ {u} : event'[v] = event[v] /\ sleeping'[v] = sleeping[v],
         \A v, s \in Shard : ring[v][s] = <<>> => ring'[v][s] = <<>>,
         \A v, s \in Shard : hidden'[v][s] = hidden[v][s] \/ hidden'[v][s] = 0
  PROVE  Wake'
<1> SUFFICES ASSUME NEW v \in Shard \ {u} PROVE WakeOf(v)'
  BY DEF Wake
<1>1. WakeOf(v)
  BY DEF Wake
<1> QED BY <1>1, QuietOther

LEMMA PollingWake ==
  ASSUME Base, Wake, NEW u \in Shard, Polling(u)
  PROVE  Wake'
<1>1. ControlOK /\ WakeOf(u)
  BY DEF Base, Wake
<1>2. CASE Poll(u) \/ PurePoll(u) \/ PollDone(u) \/ PureCheck(u)
  <2>1. /\ UNCHANGED <<ring, hidden, sleeping, event>> /\ pc[u] \in {"run", "pop", "check"}
    BY <1>2 DEF Poll, PurePoll, PollDone, PureCheck, channel
  <2>2. OnlyOf(u)
    BY <1>1, <1>2 DEF Poll, PurePoll, PollDone, PureCheck, Enter, Goto, OnlyOf, ControlOK
  <2>3. ~Flagged(u)'
    <3>1. CASE Poll(u) \/ PurePoll(u)
      BY <1>1, <3>1 DEF Poll, PurePoll, Enter, Goto, Flagged, InFinal, ControlOK
    <3>2. CASE PollDone(u)
      BY <1>1, <3>2 DEF PollDone, Goto, Flagged, InFinal, ControlOK
    <3>3. CASE PureCheck(u)
      <4>1. mode'[u] = "pure" /\ pc'[u] \in {"run", "move"}
        BY <1>1, <3>3 DEF PureCheck, Goto, ControlOK
      <4> QED BY <4>1 DEF Flagged, InFinal
    <3> QED BY <1>2, <3>1, <3>2, <3>3
  <2>4. WakeOf(u)'
    BY <2>3 DEF WakeOf, Flagged, Passed
  <2> QED BY <2>1, <2>2, <2>4, QuietStep
<1>3. CASE PopFirst(u) \/ PopRest(u)
  <2>1. /\ hidden' = hidden /\ peer[u] \in Shard
        /\ \A v, s \in Shard : ring[v][s] = <<>> => ring'[v][s] = <<>>
        /\ PopFirst(u) /\ pc'[u] = "move" => ring' = ring /\ Len(ring[u][peer[u]]) = hidden[u][peer[u]]
    BY <1>3, PopChannel
  <2>2. /\ UNCHANGED <<sleeping, event, mode, peer>> /\ pc[u] \in {"pop", "rest"}
        /\ pc' = [pc EXCEPT ![u] = "move"] \/ pc' = [pc EXCEPT ![u] = "rest"]
        /\ got' = got \/ got' = [got EXCEPT ![u] = TRUE]
    BY <1>3 DEF PopFirst, PopRest, Goto
  <2>3. OnlyOf(u) /\ pc'[u] \in {"move", "rest"}
    BY <1>1, <2>2 DEF OnlyOf, ControlOK
  <2>4. /\ WakeupComing(u) => WakeupComing(u)'
        /\ \A s \in Shard : Covered(s, u) => Covered(s, u)'
    BY <2>2, <2>3, QuietCover
  <2>5. (Flagged(u)' <=> Flagged(u)) /\ (InFinal(u)' <=> InFinal(u))
    BY <2>2, <2>3 DEF Flagged, InFinal
  <2>6. ASSUME NEW s \in Shard, Passed(u, s)', ring'[u][s] # <<>>
        PROVE  (Passed(u, s) /\ ring[u][s] # <<>>) \/ Covered(s, u)'
    <3>1. InFinal(u) /\ ~got'[u] /\ ring[u][s] # <<>>
      BY <2>1, <2>3, <2>5, <2>6 DEF Passed
    <3>2. CASE PopRest(u)
      <4>1. got'[u]
        BY <1>1, <3>2 DEF PopRest, ControlOK
      <4> QED BY <3>1, <4>1
    <3>3. CASE PopFirst(u)
      <4>1. got' = got
        BY <3>3 DEF PopFirst
      <4>2. CASE s = peer[u] /\ pc'[u] = "move"
        <5>1. hidden[u][s] > 0
          <6>1. ring[u][s] \in Seq(Message) /\ Len(ring[u][s]) = hidden[u][s]
            BY <2>1, <3>3, <4>2, Entry DEF Base
          <6> QED BY <3>1, <6>1
        <5> QED BY <1>1, <2>4, <3>1, <5>1 DEF WakeOf
      <4>3. CASE ~(s = peer[u] /\ pc'[u] = "move")
        BY <2>2, <2>3, <2>6, <3>1, <4>1, <4>3 DEF Passed
      <4> QED BY <4>2, <4>3
    <3> QED BY <1>3, <3>2, <3>3
  <2>7. WakeOf(u)'
    BY <1>1, <2>1, <2>2, <2>4, <2>5, <2>6, Preserved
  <2> QED BY <2>1, <2>2, <2>3, <2>7, QuietStep
<1> QED BY <1>2, <1>3 DEF Polling

LEMMA SleepingWake ==
  ASSUME Base, Wake, NEW u \in Shard, Sleeping(u) \/ WokenByTimer(u)
  PROVE  Wake'
<1>1. ControlOK /\ WakeOf(u)
  BY DEF Base, Wake
<1>2. CASE TryEnter(u)
  <2>1. /\ UNCHANGED <<ring, hidden, event>> /\ pc[u] = "run" /\ OnlyOf(u) /\ pc'[u] = "barrier"
        /\ sleeping'[u] /\ \A v \in Shard \ {u} : sleeping'[v] = sleeping[v]
    BY <1>1, <1>2 DEF TryEnter, Goto, channel, OnlyOf, ControlOK
  <2>2. WakeOf(u)'
    BY <2>1 DEF WakeOf, Passed, InFinal
  <2> QED BY <2>1, <2>2, QuietStep
<1>3. CASE BarrierRefused(u) \/ WokenByEvent(u) \/ WokenByTimer(u)
  <2>1. /\ UNCHANGED <<ring, hidden>> /\ pc[u] \in {"barrier", "asleep"} /\ OnlyOf(u) /\ pc'[u] = "run"
        /\ \A v \in Shard \ {u} : sleeping'[v] = sleeping[v] /\ event'[v] = event[v]
    BY <1>1, <1>3 DEF BarrierRefused, WokenByEvent, WokenByTimer, Awake, Goto, channel, OnlyOf, ControlOK
  <2>2. WakeOf(u)'
    BY <2>1 DEF WakeOf, Passed, InFinal, Flagged
  <2> QED BY <2>1, <2>2, QuietStep
<1>4. CASE Barrier(u)
  <2>1. /\ UNCHANGED <<ring, event, sleeping>> /\ pc[u] = "barrier" /\ OnlyOf(u) /\ pc'[u] = "pop"
        /\ peer'[u] = Skip(u, 0)
    BY <1>1, <1>4 DEF Barrier, Enter, Goto, OnlyOf, ControlOK
  <2>2. \A v, s \in Shard : hidden'[v][s] = 0
    BY <1>4 DEF Barrier, Table
  <2>3. Flagged(u)' => sleeping'[u] \/ WakeupComing(u)'
    <3>1. WakeupComing(u) => WakeupComing(u)'
      BY <2>1, QuietCover
    <3> QED BY <1>1, <2>1, <3>1 DEF WakeOf, Flagged
  <2>4. \A s \in Shard : Passed(u, s)' => s = u
    <3>1. \A s \in Shard : s < Skip(u, 0) => s = u
      BY ChannelAssumption DEF Skip, Shard
    <3> QED BY <2>1, <3>1 DEF Passed
  <2>5. ring'[u][u] = <<>>
    BY <2>1 DEF Base, ChannelOK
  <2>6. WakeOf(u)'
    <3>1. \A s \in Shard : (InFinal(u) /\ hidden[u][s] > 0 => Covered(s, u))'
      BY <2>2
    <3>2. \A s \in Shard : (Passed(u, s) /\ ring[u][s] # <<>> => Covered(s, u))'
      BY <2>4, <2>5
    <3> QED BY <2>3, <3>1, <3>2 DEF WakeOf
  <2> QED BY <2>1, <2>2, <2>6, QuietStep
<1>5. CASE SleepDone(u)
  <2>1. /\ UNCHANGED <<ring, hidden, event, mode, got>> /\ pc[u] = "pop" /\ OnlyOf(u) /\ peer[u] = N
        /\ mode[u] = "sleep" /\ \A v \in Shard \ {u} : sleeping'[v] = sleeping[v]
    BY <1>1, <1>5 DEF SleepDone, Goto, channel, OnlyOf, ControlOK
  <2>2. CASE got[u]
    <3>1. pc'[u] = "run"
      BY <1>1, <1>5, <2>2 DEF SleepDone, Goto, ControlOK
    <3>2. WakeOf(u)'
      BY <3>1 DEF WakeOf, Passed, InFinal, Flagged
    <3> QED BY <2>1, <3>2, QuietStep
  <2>3. CASE ~got[u]
    <3>1. pc'[u] = "asleep" /\ sleeping' = sleeping
      BY <1>1, <1>5, <2>3 DEF SleepDone, Goto, ControlOK
    <3>2. /\ WakeupComing(u) => WakeupComing(u)'
          /\ \A s \in Shard : Covered(s, u) => Covered(s, u)'
      BY <2>1, <3>1, QuietCover
    <3>3. Flagged(u) /\ \A s \in Shard : Passed(u, s)
      <4>1. \A s \in Shard : s < N
        BY ChannelAssumption DEF Shard
      <4> QED BY <2>1, <2>3, <4>1 DEF Flagged, InFinal, Passed
    <3>4. ~InFinal(u)'
      BY <3>1 DEF InFinal
    <3>5. WakeOf(u)'
      BY <1>1, <2>1, <3>1, <3>2, <3>3, <3>4, Preserved
    <3> QED BY <2>1, <3>1, <3>5, QuietStep
  <2> QED BY <2>2, <2>3
<1> QED BY <1>2, <1>3, <1>4, <1>5 DEF Sleeping

LEMMA StepWake == Base /\ Wake /\ [Next]_vars => Wake'
<1> SUFFICES ASSUME Base, Wake, [Next]_vars PROVE Wake'
  OBVIOUS
<1>1. ASSUME NEW s \in Shard, Step(s) PROVE Wake'
  BY <1>1, MoveWake, WakingWake, PollingWake, SleepingWake DEF Step, Moving
<1>2. CASE UNCHANGED vars
  BY <1>2 DEF vars, channel, control, Wake, WakeOf, Flagged, InFinal, Passed, Covered, WakeupComing
<1> QED BY <1>1, <1>2, SleepingWake, DrainWake, SendWake DEF Next

-----------------------------------------------------------------------------
LEMMA Invariant == Spec => [](Base /\ Wake)
<1>1. Init => Base /\ Wake
  <2> SUFFICES ASSUME Init PROVE Base /\ Wake
    OBVIOUS
  <2>1. \A t \in Shard : pc[t] = "run"
    BY DEF Init
  <2>2. Wake
    BY <2>1 DEF Wake, WakeOf, Flagged, InFinal, Passed
  <2> QED BY <2>2, InitBase
<1>2. Base /\ Wake /\ [Next]_vars => (Base /\ Wake)'
  BY StepBase, StepWake
<1> QED BY <1>1, <1>2, PTL DEF Spec

(* The variables keep their types and no queue exceeds its capacity, for   *)
(* any number of shards and any size of queue and batch.                   *)
THEOREM TypeCorrect == Spec => []TypeOK
<1>1. Base /\ Wake => TypeOK
  BY DEF Base, ChannelOK, ControlOK, TypeOK
<1> QED BY <1>1, Invariant, PTL

(* No wakeup is lost: whatever the shards do, one that sleeps in           *)
(* try_enter_interrupt_mode() while a message is in one of its queues is   *)
(* about to be woken by maybe_wakeup().                                    *)
THEOREM NoWakeupIsLost == Spec => []NoLostWakeup
<1>1. Base /\ Wake => NoLostWakeup
  BY DEF Wake, WakeOf, Passed, Covered, NoLostWakeup
<1> QED BY <1>1, Invariant, PTL

=============================================================================
