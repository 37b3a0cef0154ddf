--------------------------- MODULE ActorCallProofs ---------------------------
(***************************************************************************)
(* What a call between actors rests on, at its two ends: the type id under *)
(* which generated code registers the class of the callee (ActorCodegen,   *)
(* for any number of threads, headers and classes), and the promise slot   *)
(* in which the caller waits for the response (ActorClient, for any set of *)
(* requests, as long as none is made after stop_actor_system()).           *)
(***************************************************************************)
EXTENDS ActorClient, ActorCodegen, WellFoundedInduction, TLAPS

-----------------------------------------------------------------------------
(***************************************************************************)
(* The promise slots of actor_client.                                      *)
(***************************************************************************)
(* What relates slots, requests and responses before the sweep of          *)
(* stop_actor_system(), and what is left of it afterwards.                 *)
Linked ==
  /\ \A c \in Outstanding : prid[c] \in Active
  /\ \A c \in Req : server[c] = "asked" => state[c] = "sent"
  /\ \A r \in wire : state[r.of] = "sent" /\ r.pr = prid[r.of] /\ server[r.of] = "answered"

Owned ==
  \A i \in Ids : slots[i].owner # NoReq =>
    slots[i].active /\ state[slots[i].owner] = "sent" /\ prid[slots[i].owner] = i

AskedHasSlot == \A c \in Req : server[c] = "asked" => prid[c] \in Ids

Inv ==
  /\ TypeOK /\ AskedHasSlot /\ FreeListSound /\ NoSharedId /\ WaitingIsOwner /\ OwnResult /\ Owned
  /\ ~stopped => Linked
  /\ stopped => Active = {}

(* The invariant holds when the shard starts. *)
LEMMA InitInv == Init => Inv
<1> SUFFICES ASSUME Init PROVE Inv
  OBVIOUS
<1>1. Ids = {} /\ Active = {} /\ Outstanding = {} /\ slots \in Seq(Slot)
  BY DEF Init, Ids, Active, Outstanding
<1>2. TypeOK
  BY <1>1 DEF Init, TypeOK
<1>3. OwnResult
  BY RequestAssumption DEF Init, OwnResult
<1>4. FreeListSound /\ NoSharedId /\ WaitingIsOwner /\ Owned /\ Linked /\ AskedHasSlot
  BY <1>1 DEF Init, FreeListSound, NoSharedId, WaitingIsOwner, Owned, Linked, AskedHasSlot
<1> QED BY <1>1, <1>2, <1>3, <1>4 DEF Init, Inv

(* A request that grows the array keeps the invariant. *)
LEMMA GrowInv ==
  ASSUME Inv, ~LateRequests, NEW c \in Req, Request(c), available = 0
  PROVE  Inv'
<1> DEFINE n == Len(slots) + 1
<1>0. /\ ~stopped /\ state[c] = "new" /\ stopped' = stopped /\ wire' = wire
      /\ slots' = Append(slots, [next |-> 0, active |-> TRUE, owner |-> c])
      /\ prid' = [prid EXCEPT ![c] = n] /\ state' = [state EXCEPT ![c] = "sent"]
      /\ available' = available /\ got' = got
      /\ server' = [server EXCEPT ![c] = "asked"]
  BY DEF Request, acquire_pr, GrowArray, ReuseHead
<1>1. /\ TypeOK /\ slots \in Seq(Slot) /\ Len(slots) \in Nat /\ c # NoReq
  BY RequestAssumption DEF Inv, TypeOK
<1>2. [next |-> 0, active |-> TRUE, owner |-> c] \in Slot
  BY DEF Slot
<1>3. /\ slots' \in Seq(Slot) /\ Ids' = Ids \cup {n} /\ n \notin Ids /\ n # 0
      /\ slots'[n] = [next |-> 0, active |-> TRUE, owner |-> c]
      /\ \A i \in Ids : slots'[i] = slots[i] /\ slots[i] \in Slot
  BY <1>0, <1>1, <1>2 DEF Ids
<1>4. /\ Active' = Active \cup {n} /\ n \notin Active
      /\ (Ids \ Active)' = Ids \ Active
  BY <1>3 DEF Active
<1>5. TypeOK'
  BY <1>0, <1>1, <1>3 DEF TypeOK
<1>6. FreeListSound'
  BY <1>0, <1>3, <1>4, ZenonT(30) DEF Inv, FreeListSound
<1>7. /\ prid'[c] = n /\ state'[c] = "sent"
      /\ \A d \in Req : d # c => prid'[d] = prid[d] /\ state'[d] = state[d]
  BY <1>0, <1>1 DEF TypeOK
<1>8. \A d \in Outstanding : prid[d] \in Active /\ d # c
  BY <1>0 DEF Inv, Linked, Outstanding
<1>9. NoSharedId'
  BY <1>0, <1>4, <1>7, <1>8 DEF Inv, NoSharedId, Outstanding
<1>10. WaitingIsOwner'
  BY <1>3, <1>4, <1>7 DEF Inv, WaitingIsOwner, Active
<1>11. OwnResult'
  BY <1>0 DEF Inv, OwnResult
<1>12. Owned'
  <2> SUFFICES ASSUME NEW i \in Ids', slots'[i].owner # NoReq
               PROVE  /\ slots'[i].active /\ state'[slots'[i].owner] = "sent"
                      /\ prid'[slots'[i].owner] = i
    BY DEF Owned
  <2>1. CASE i = n
    BY <1>3, <1>7, <2>1
  <2>2. CASE i \in Ids
    <3>1. slots'[i] = slots[i] /\ slots[i].owner \in Req
      BY <1>3, <2>2 DEF Slot
    <3> QED BY <1>0, <1>7, <2>2, <3>1, ZenonT(30) DEF Inv, Owned
  <2> QED BY <1>3, <2>1, <2>2
<1>13. Linked'
  <2>1. \A d \in Outstanding' : prid'[d] \in Active'
    BY <1>4, <1>7, <1>8 DEF Outstanding
  <2>2. \A d \in Req : server'[d] = "asked" => state'[d] = "sent"
    BY <1>0, <1>1, <1>7 DEF Inv, Linked, TypeOK
  <2>3. \A r \in wire : r.of \in Req /\ r.of # c
    BY <1>0, <1>1 DEF Inv, Linked, TypeOK
  <2> QED BY <1>0, <1>1, <1>7, <2>1, <2>2, <2>3 DEF Inv, Linked, TypeOK
<1>14. AskedHasSlot'
  BY <1>0, <1>1, <1>3, <1>7 DEF Inv, AskedHasSlot, TypeOK
<1> QED BY <1>0, <1>14, <1>5, <1>6, <1>9, <1>10, <1>11, <1>12, <1>13 DEF Inv

(* A request that reuses the head of the free list keeps the invariant. *)
LEMMA ReuseInv ==
  ASSUME Inv, ~LateRequests, NEW c \in Req, Request(c), available # 0
  PROVE  Inv'
<1> DEFINE n == available
           new == [next |-> slots[n].next, active |-> TRUE, owner |-> c]
<1>1. /\ TypeOK /\ slots \in Seq(Slot) /\ Len(slots) \in Nat /\ c # NoReq
  BY RequestAssumption DEF Inv, TypeOK
<1>2. /\ ~stopped /\ state[c] = "new" /\ stopped' = stopped /\ wire' = wire
      /\ slots' = [slots EXCEPT ![n] = new] /\ available' = slots[n].next
      /\ prid' = [prid EXCEPT ![c] = n]
      /\ server' = [server EXCEPT ![c] = "asked"]
      /\ state' = [r \in Req |-> IF r = c THEN "sent"
                                 ELSE IF r = slots[n].owner THEN "ready" ELSE state[r]]
      /\ got' = [r \in Req |-> IF r = slots[n].owner THEN "broken" ELSE got[r]]
  BY DEF Request, acquire_pr, GrowArray, ReuseHead
<1>3. n \in Ids \ Active /\ slots[n] \in Slot
  BY <1>1, <1>2 DEF Inv, FreeListSound, Ids
<1>4. slots[n].owner = NoReq
  BY <1>3 DEF Inv, Owned, Active
<1>5. state' = [state EXCEPT ![c] = "sent"] /\ got' = got
  BY <1>1, <1>2, <1>4, RequestAssumption DEF TypeOK
<1>6. new \in Slot
  BY <1>3 DEF Slot
<1>7. /\ slots' \in Seq(Slot) /\ Ids' = Ids /\ slots'[n] = new
      /\ \A i \in Ids : i # n => slots'[i] = slots[i]
  BY <1>1, <1>2, <1>3, <1>6 DEF Ids
<1>8. Active' = Active \cup {n}
  BY <1>3, <1>7 DEF Active
<1>9. slots[n].next \in {0} \cup Ids
  BY <1>2, <1>3 DEF Inv, FreeListSound
<1>10. TypeOK'
  BY <1>1, <1>2, <1>3, <1>5, <1>7, <1>9 DEF TypeOK
<1>11. FreeListSound'
  BY <1>2, <1>3, <1>7, <1>8 DEF Inv, FreeListSound
<1>12. /\ prid'[c] = n /\ state'[c] = "sent"
       /\ \A d \in Req : d # c => prid'[d] = prid[d] /\ state'[d] = state[d]
  BY <1>1, <1>2, <1>5 DEF TypeOK
<1>13. \A d \in Outstanding : prid[d] \in Active /\ d # c
  BY <1>2 DEF Inv, Linked, Outstanding
<1>14. NoSharedId'
  BY <1>2, <1>3, <1>12, <1>13 DEF Inv, NoSharedId, Outstanding
<1>15. WaitingIsOwner'
  BY <1>3, <1>7, <1>8, <1>12 DEF Inv, WaitingIsOwner, Active
<1>16. OwnResult'
  BY <1>5 DEF Inv, OwnResult
<1>17. Owned'
  <2>1. \A i \in Ids : slots[i] \in Slot
    BY <1>1 DEF Ids
  <2> QED BY <1>2, <1>3, <1>7, <1>12, <2>1 DEF Inv, Owned, Slot
<1>18. Linked'
  <2>1. \A d \in Outstanding' : prid'[d] \in Active'
    BY <1>8, <1>12, <1>13 DEF Outstanding
  <2>2. \A d \in Req : server'[d] = "asked" => state'[d] = "sent"
    BY <1>2, <1>1, <1>12 DEF Inv, Linked, TypeOK
  <2>3. \A r \in wire : r.of \in Req /\ r.of # c
    BY <1>1, <1>2 DEF Inv, Linked, TypeOK
  <2> QED BY <1>1, <1>2, <1>12, <2>1, <2>2, <2>3 DEF Inv, Linked, TypeOK
<1>19. AskedHasSlot'
  BY <1>1, <1>2, <1>3, <1>7, <1>12 DEF Inv, AskedHasSlot, TypeOK
<1> QED BY <1>2, <1>19, <1>10, <1>11, <1>14, <1>15, <1>16, <1>17, <1>18 DEF Inv

(* A response resolves the promise of the request it belongs to. *)
LEMMA ReceiveInv ==
  ASSUME Inv, NEW r \in wire, ReceiveResponse(r)
  PROVE  Inv'
<1> DEFINE i == r.pr
           c == slots[i].owner
           new == [next |-> slots[i].next, active |-> TRUE, owner |-> NoReq]
<1>1. /\ TypeOK /\ slots \in Seq(Slot) /\ Len(slots) \in Nat
      /\ i \in Ids /\ slots[i] \in Slot /\ r.of \in Req
  BY DEF Inv, TypeOK, Ids
<1>2. /\ wire' = wire \ {r} /\ available' = available /\ stopped' = stopped
      /\ prid' = prid /\ server' = server
  BY DEF ReceiveResponse
<1>3. CASE ~Resolvable(i)
  <2>1. slots' = slots /\ state' = state /\ got' = got
    BY <1>3 DEF ReceiveResponse
  <2>2. Ids' = Ids /\ Active' = Active /\ Outstanding' = Outstanding
    BY <2>1 DEF Ids, Active, Outstanding
  <2> QED BY <1>2, <2>1, <2>2
       DEF Inv, TypeOK, FreeListSound, NoSharedId, WaitingIsOwner, OwnResult, Owned, Linked,
           AskedHasSlot
<1>4. CASE Resolvable(i)
  <2>1. /\ slots' = [slots EXCEPT ![i] = new] /\ state' = [state EXCEPT ![c] = "ready"]
        /\ got' = [got EXCEPT ![c] = r.of] /\ c # NoReq /\ i \in Active /\ ~stopped
    BY <1>1, <1>4 DEF ReceiveResponse, Resolvable, Active, Inv
  <2>2. c \in Req /\ state[c] = "sent" /\ prid[c] = i
    BY <1>1, <2>1 DEF Inv, Owned, Slot
  <2>3. c = r.of
    BY <1>1, <2>1, <2>2 DEF Inv, Linked, NoSharedId, Outstanding
  <2>4. new \in Slot
    BY <1>1 DEF Slot
  <2>5. /\ slots' \in Seq(Slot) /\ Ids' = Ids /\ slots'[i] = new
        /\ \A j \in Ids : j # i => slots'[j] = slots[j]
    BY <1>1, <2>1, <2>4 DEF Ids
  <2>6. Active' = Active /\ \A j \in Ids : slots'[j].next = slots[j].next
    BY <2>1, <2>5 DEF Active
  <2>7. state'[c] = "ready" /\ \A d \in Req : d # c => state'[d] = state[d]
    BY <1>1, <2>1, <2>2 DEF TypeOK
  <2>8. Outstanding' = Outstanding
    BY <2>2, <2>7 DEF Outstanding
  <2>9. TypeOK'
    BY <1>1, <1>2, <2>1, <2>2, <2>5 DEF TypeOK
  <2>10. FreeListSound' /\ NoSharedId'
    BY <1>2, <2>5, <2>6, <2>8 DEF Inv, FreeListSound, NoSharedId
  <2>11. WaitingIsOwner' /\ Owned'
    <3>1. \A j \in Ids : slots[j] \in Slot
      BY <1>1 DEF Ids
    <3>2. Owned'
      BY <1>2, <2>2, <2>5, <2>7, <3>1 DEF Inv, Owned, Slot
    <3>3. WaitingIsOwner'
      BY <1>2, <2>2, <2>5, <2>6, <2>7 DEF Inv, WaitingIsOwner, Active
    <3> QED BY <3>2, <3>3
  <2>12. OwnResult'
    BY <1>1, <2>1, <2>3 DEF Inv, OwnResult, TypeOK
  <2>13. \A q \in wire' : q \in wire /\ q.of \in Req /\ q.of # c
    <3> SUFFICES ASSUME NEW q \in wire, q # r, q.of = c PROVE FALSE
      BY <1>1, <1>2 DEF TypeOK
    <3>1. q.pr = r.pr
      BY <2>1, <2>2 DEF Inv, Linked
    <3> QED BY <1>1, <2>3, <3>1 DEF TypeOK
  <2>14. server[c] = "answered"
    BY <2>1, <2>3 DEF Inv, Linked
  <2>15. Linked'
    BY <1>2, <2>1, <2>6, <2>7, <2>8, <2>13, <2>14 DEF Inv, Linked
  <2>16. AskedHasSlot'
    BY <1>2, <2>5 DEF Inv, AskedHasSlot
  <2> QED BY <1>2, <2>1, <2>9, <2>10, <2>11, <2>12, <2>15, <2>16 DEF Inv
<1> QED BY <1>3, <1>4

(* The continuation of a resolved request frees its slot; after the sweep  *)
(* of stop_actor_system() the free list does not matter any more.          *)
LEMMA ContinueInv ==
  ASSUME Inv, NEW c \in Req, Continue(c)
  PROVE  Inv'
<1> DEFINE i == prid[c]
           new == [next |-> available, active |-> FALSE, owner |-> slots[i].owner]
<1>1. /\ TypeOK /\ slots \in Seq(Slot) /\ Len(slots) \in Nat /\ i \in {0} \cup Ids
      /\ \A j \in Ids : slots[j] \in Slot
  BY DEF Inv, TypeOK, Ids
<1>2. /\ wire' = wire /\ stopped' = stopped /\ prid' = prid /\ server' = server
      /\ got' = got /\ slots' = [slots EXCEPT ![i] = new] /\ available' = i
      /\ state[c] = "ready" /\ state' = [state EXCEPT ![c] = "done"]
  BY DEF Continue, remove_pr
<1>3. state'[c] = "done" /\ \A d \in Req : d # c => state'[d] = state[d]
  BY <1>1, <1>2 DEF TypeOK
<1>4. i \in Ids => slots[i].owner = NoReq
  <2> SUFFICES ASSUME i \in Ids, slots[i].owner # NoReq PROVE FALSE
    OBVIOUS
  <2>1. ~stopped /\ slots[i].owner \in Req /\ prid[slots[i].owner] = i
        /\ state[slots[i].owner] = "sent"
    BY <1>1 DEF Inv, Owned, Active, Slot
  <2> QED BY <1>2, <2>1 DEF Inv, NoSharedId, Outstanding
<1>5. i \in Ids => new \in Slot
  BY <1>1, <1>4 DEF Slot, TypeOK, Ids
<1>6. /\ slots' \in Seq(Slot) /\ Ids' = Ids /\ (i \in Ids => slots'[i] = new)
      /\ \A j \in Ids : j # i => slots'[j] = slots[j]
  <2>1. CASE i \in Ids
    <3>1. new \in Slot
      BY <1>5, <2>1
    <3> HIDE DEF i, new
    <3> QED BY <1>1, <1>2, <2>1, <3>1 DEF Ids
  <2>2. CASE i \notin Ids
    <3>1. slots' = slots
      BY <1>1, <1>2, <2>2 DEF Ids
    <3> QED BY <1>1, <2>2, <3>1 DEF Ids
  <2> QED BY <2>1, <2>2
<1>7. Active' = Active \ {i}
  BY <1>6 DEF Active
<1>8. TypeOK'
  BY <1>1, <1>2, <1>6 DEF TypeOK
<1>9. Owned' /\ OwnResult' /\ AskedHasSlot'
  <2>1. Owned'
    BY <1>1, <1>2, <1>3, <1>4, <1>6 DEF Inv, Owned, Slot
  <2> QED BY <1>2, <1>6, <2>1 DEF Inv, OwnResult, AskedHasSlot
<1>10. CASE stopped
  <2>1. \A d \in Req : state[d] # "sent"
    BY <1>10 DEF Inv, WaitingIsOwner
  <2> QED BY <1>2, <1>3, <1>7, <1>8, <1>9, <1>10, <2>1
       DEF Inv, WaitingIsOwner, FreeListSound, NoSharedId
<1>11. CASE ~stopped
  <2>1. i \in Active
    BY <1>2, <1>11 DEF Inv, Linked, Outstanding
  <2>2. i \in Ids /\ slots'[i] = new /\ (Ids \ Active)' = (Ids \ Active) \cup {i}
    BY <1>6, <1>7, <2>1 DEF Active
  <2>3. FreeListSound'
    BY <1>2, <1>6, <1>11, <2>1, <2>2 DEF Inv, FreeListSound
  <2>4. Outstanding' = Outstanding \ {c} /\ c \in Outstanding
    BY <1>2, <1>3 DEF Outstanding
  <2>5. NoSharedId'
    BY <1>2, <1>11, <2>4 DEF Inv, NoSharedId
  <2>6. \A d \in Outstanding' : prid[d] # i
    BY <1>11, <2>4 DEF Inv, NoSharedId
  <2>7. WaitingIsOwner'
    BY <1>2, <1>3, <1>6, <1>7, <2>4, <2>6 DEF Inv, WaitingIsOwner, Outstanding, Active
  <2>8. Linked'
    BY <1>1, <1>2, <1>3, <1>7, <1>11, <2>4, <2>6 DEF Inv, Linked, TypeOK
  <2> QED BY <1>2, <1>8, <1>9, <1>11, <2>3, <2>5, <2>7, <2>8 DEF Inv
<1> QED BY <1>10, <1>11

(* A non-empty set of slot numbers has a maximum. *)
LEMMA MaxInInterval ==
  ASSUME NEW n \in Nat, NEW S, S \subseteq 1 .. n, S # {}
  PROVE  Max(S) \in S
<1> DEFINE T == {k \in Nat : n - k \in S}
<1>1. T # {} /\ T \subseteq Nat
  <2>1. PICK x \in S : TRUE
    OBVIOUS
  <2>2. n - x \in Nat /\ n - (n - x) = x
    BY <2>1
  <2> QED BY <2>1, <2>2
<1> DEFINE R == OpToRel(<, Nat)
<1>2. PICK k \in T : \A m \in T : ~(<<m, k>> \in R)
  <2>1. IsWellFoundedOn(R, Nat)
    BY NatLessThanWellFounded
  <2>2. ASSUME NEW Q, IsWellFoundedOn(Q, Nat)
        PROVE  \E x \in T : \A y \in T : ~(<<y, x>> \in Q)
    <3> HIDE DEF T
    <3> QED BY <1>1, <2>2, WFMin
  <2> HIDE DEF T, R
  <2> QED BY <2>1, <2>2
<1>3. \A m \in T : ~(m < k)
  BY <1>1, <1>2 DEF OpToRel
<1> HIDE DEF R
<1>4. n - k \in S /\ \A y \in S : n - k >= y
  <2> SUFFICES ASSUME NEW y \in S PROVE n - k >= y
    BY <1>2
  <2>1. n - y \in Nat /\ n - (n - y) = y
    OBVIOUS
  <2>2. n - y \in T
    BY <2>1
  <2>3. ~(n - y < k)
    BY <1>3, <2>2
  <2>4. k \in Nat /\ y \in Nat
    OBVIOUS
  <2> QED BY <2>1, <2>3, <2>4
<1> QED BY <1>4 DEF Max

(* stop_actor_system() resolves every waiting request and leaves no slot   *)
(* active.                                                                 *)
LEMMA StopInv ==
  ASSUME Inv, StopActorSystem
  PROVE  Inv'
<1> DEFINE hit == {slots[i].owner : i \in Active}
<1>1. /\ TypeOK /\ slots \in Seq(Slot) /\ Len(slots) \in Nat /\ Ids = 1 .. Len(slots)
      /\ \A j \in Ids : slots[j] \in Slot
  BY DEF Inv, TypeOK, Ids
<1>2. /\ ~stopped /\ stopped' /\ slots' = Swept /\ wire' = wire /\ prid' = prid
      /\ available' = IF Active = {} THEN available ELSE Max(Active)
      /\ server' = server
      /\ state' = [c \in Req |-> IF c \in hit THEN "ready" ELSE state[c]]
      /\ got' = [c \in Req |-> IF c \in hit THEN "canceled" ELSE got[c]]
  BY DEF StopActorSystem
<1>3. \A S \in SUBSET Ids : S # {} => Max(S) \in S
  BY <1>1, MaxInInterval
<1>4. \A i \in Ids : Swept[i] \in Slot /\ ~Swept[i].active /\ Swept[i].owner = NoReq
  <2> SUFFICES ASSUME NEW i \in Ids
               PROVE  Swept[i] \in Slot /\ ~Swept[i].active /\ Swept[i].owner = NoReq
    OBVIOUS
  <2> DEFINE below == {j \in Active : j < i}
             link == IF below = {} THEN available ELSE Max(below)
  <2>1. below \in SUBSET Ids /\ available \in Nat
    BY <1>1 DEF Active, TypeOK
  <2>2. link \in Nat
    <3>1. below # {} => Max(below) \in Ids
      BY <1>3, <2>1
    <3> HIDE DEF below
    <3> QED BY <1>1, <2>1, <3>1
  <2>3. CASE i \in Active
    <3>1. Swept[i] = [next |-> link, active |-> FALSE, owner |-> NoReq]
      BY <2>3 DEF Swept
    <3> QED BY <2>2, <3>1 DEF Slot
  <2>4. CASE i \notin Active
    <3>1. Swept[i] = slots[i]
      BY <2>4 DEF Swept
    <3> QED BY <1>1, <2>4, <3>1 DEF Inv, Owned, Active
  <2> QED BY <2>3, <2>4
<1>5. DOMAIN Swept = Ids
  BY DEF Swept
<1>6. slots' \in Seq(Slot) /\ Ids' = Ids /\ Active' = {}
  <2>1. Swept \in [1 .. Len(slots) -> Slot]
    BY <1>1, <1>4, <1>5 DEF Swept
  <2>2. slots' \in Seq(Slot)
    BY <1>1, <1>2, <2>1
  <2>3. Ids' = Ids
    BY <1>2, <1>5 DEF Ids
  <2> QED BY <1>2, <1>4, <2>2, <2>3 DEF Active
<1>7. available' \in {0} \cup Ids
  <2>1. Active \in SUBSET Ids
    BY DEF Active
  <2> QED BY <1>1, <1>2, <1>3, <2>1 DEF TypeOK
<1>8. TypeOK'
  BY <1>1, <1>2, <1>6, <1>7 DEF TypeOK
<1>9. \A c \in Req : state'[c] # "sent"
  BY <1>1, <1>2 DEF Inv, WaitingIsOwner, Active, TypeOK
<1>10. WaitingIsOwner' /\ FreeListSound' /\ NoSharedId'
  BY <1>2, <1>9 DEF WaitingIsOwner, FreeListSound, NoSharedId
<1>11. OwnResult'
  BY <1>2, RequestAssumption DEF Inv, OwnResult
<1>12. Owned' /\ AskedHasSlot'
  BY <1>2, <1>4, <1>6 DEF Inv, Owned, AskedHasSlot
<1> QED BY <1>2, <1>6, <1>8, <1>10, <1>11, <1>12 DEF Inv

(* Every step of the shard keeps the invariant. *)
LEMMA StepInv == ~LateRequests /\ Inv /\ [Next]_vars => Inv'
<1> SUFFICES ASSUME ~LateRequests, Inv, [Next]_vars PROVE Inv'
  OBVIOUS
<1>1. ASSUME NEW c \in Req, Request(c) PROVE Inv'
  BY <1>1, GrowInv, ReuseInv
<1>2. ASSUME NEW c \in Req, Respond(c) PROVE Inv'
  <2>1. /\ server[c] = "asked" /\ server' = [server EXCEPT ![c] = "answered"]
        /\ wire' = wire \cup {[pr |-> prid[c], of |-> c]}
        /\ UNCHANGED <<slots, available, stopped, state, prid, got>>
    BY <1>2 DEF Respond
  <2>2. Ids' = Ids /\ Active' = Active /\ Outstanding' = Outstanding
    BY <2>1 DEF Ids, Active, Outstanding
  <2>3. prid[c] \in Ids
    BY <2>1 DEF Inv, AskedHasSlot
  <2>4. TypeOK'
    BY <2>1, <2>2, <2>3 DEF Inv, TypeOK
  <2>5. ~stopped => Linked'
    BY <2>1, <2>2 DEF Inv, Linked, TypeOK
  <2>6. FreeListSound' /\ NoSharedId' /\ WaitingIsOwner'
    BY <2>1, <2>2 DEF Inv, FreeListSound, NoSharedId, WaitingIsOwner
  <2>7. OwnResult' /\ Owned'
    BY <2>1, <2>2 DEF Inv, OwnResult, Owned
  <2>8. AskedHasSlot'
    <3>1. \A d \in Req : server'[d] = "asked" => server[d] = "asked"
      BY <2>1 DEF Inv, TypeOK
    <3> QED BY <2>1, <2>2, <3>1 DEF Inv, AskedHasSlot
  <2> QED BY <2>1, <2>2, <2>4, <2>5, <2>6, <2>7, <2>8 DEF Inv
<1>3. ASSUME NEW c \in Req, Continue(c) PROVE Inv'
  BY <1>3, ContinueInv
<1>4. ASSUME NEW r \in wire, ReceiveResponse(r) PROVE Inv'
  BY <1>4, ReceiveInv
<1>5. CASE StopActorSystem
  BY <1>5, StopInv
<1>6. CASE UNCHANGED vars
  <2>1. /\ slots' = slots /\ available' = available /\ stopped' = stopped /\ wire' = wire
        /\ state' = state /\ prid' = prid /\ got' = got /\ server' = server
    BY <1>6 DEF vars
  <2>2. Ids' = Ids /\ Active' = Active /\ Outstanding' = Outstanding
    BY <2>1 DEF Ids, Active, Outstanding
  <2>3. TypeOK' /\ FreeListSound' /\ NoSharedId' /\ WaitingIsOwner'
    BY <2>1, <2>2 DEF Inv, TypeOK, FreeListSound, NoSharedId, WaitingIsOwner
  <2>4. OwnResult' /\ Owned' /\ AskedHasSlot' /\ (Linked => Linked')
    BY <2>1, <2>2 DEF Inv, OwnResult, Owned, Linked, AskedHasSlot
  <2> QED BY <2>1, <2>2, <2>3, <2>4 DEF Inv
<1> QED BY <1>1, <1>2, <1>3, <1>4, <1>5, <1>6 DEF Next

(* As long as no request is made after stop_actor_system(), the free list  *)
(* of pr_manager is sound, no two requests share a promise id and a        *)
(* waiting request owns its slot, for any number of requests.              *)
THEOREM RequestsSafe == ~LateRequests /\ Spec => []RequestsSound
<1> SUFFICES ASSUME ~LateRequests PROVE Spec => []RequestsSound
  OBVIOUS
<1>1. Inv /\ [Next]_vars => Inv'
  BY StepInv
<1>2. Inv => RequestsSound
  BY DEF Inv, RequestsSound
<1> QED BY <1>1, <1>2, InitInv, PTL DEF Spec

(* A response never resolves the future of another request. *)
THEOREM OwnResultHolds == ~LateRequests /\ Spec => []OwnResult
<1> SUFFICES ASSUME ~LateRequests PROVE Spec => []OwnResult
  OBVIOUS
<1>1. Inv /\ [Next]_vars => Inv'
  BY StepInv
<1>2. Inv => OwnResult
  BY DEF Inv
<1> QED BY <1>1, <1>2, InitInv, PTL DEF Spec

-----------------------------------------------------------------------------
(***************************************************************************)
(* The type ids of the generator.                                          *)
(***************************************************************************)
(* The headers of a phase, and their classes. *)
PhaseFile  == IF genPhase = "groups" THEN GroupFile ELSE ActorFile
PhaseClass == IF genPhase = "groups" THEN GroupClass ELSE ActorClass
Counter    == IF genPhase = "groups" THEN actgTid ELSE actTid

(* The mutex: who holds it is about to read or to increment the counter,   *)
(* nobody else is, and what was read is still the value of the counter.    *)
Locked ==
  /\ \A t \in GenThread : t \in mutex <=> gpc[t] \in {"read", "increment"}
  /\ \A t, u \in mutex : t = u
  /\ \A t \in GenThread : gpc[t] = "increment" => seen[t] = Counter

(* A thread works on headers and classes of its phase, and the other       *)
(* phases find all threads idle.                                           *)
InPhase ==
  /\ genPhase \in {"groups", "actors"} => todo \subseteq PhaseFile
  /\ genPhase \in {"program", "failed"} =>
       todo = {} /\ \A t \in GenThread : gpc[t] = "idle"
  /\ \A t \in GenThread : gpc[t] # "idle" => left[t] \in Seq(PhaseClass)
  /\ \A t \in GenThread : gpc[t] \in {"read", "increment"} => left[t] # <<>>
  /\ \A t \in GenThread : gpc[t] \in {"mkdir", "write"} => left[t] = <<>>

(* Ids come from below the counters. *)
Drawn ==
  /\ FirstGroupTid <= actgTid
  /\ \A c \in ActorClass : tid[c] < actTid
  /\ \A c \in GroupClass : tid[c] # -1 => FirstGroupTid <= tid[c] /\ tid[c] < actgTid
  /\ \A c, d \in ActorClass : tid[c] # -1 /\ tid[c] = tid[d] => c = d
  /\ \A c, d \in GroupClass : tid[c] # -1 /\ tid[c] = tid[d] => c = d

(* No class is left out: without an id, its header has still to be taken,  *)
(* it is ahead of the thread that works on the header, or the phase fails. *)
Ahead(f, c) ==
  \/ tid[c] # -1 \/ raised # {} \/ f \in todo
  \/ \E t \in GenThread : gpc[t] # "idle" /\ header[t] = f /\ \E i \in DOMAIN left[t] : left[t][i] = c

Visited(F) == \A f \in F : \A i \in DOMAIN Classes[f] : Ahead(f, Classes[f][i])

Covered ==
  /\ genPhase \in {"groups", "actors", "program"} => Visited(GroupFile)
  /\ genPhase \in {"actors", "program"} => Visited(ActorFile)
  /\ genPhase = "program" => raised = {}

(* The directory is an array, with every registered class at its id.       *)
Filed ==
  /\ registered = {} => directory = <<>>
  /\ registered # {} =>
       genPhase = "program" /\ \E n \in 0 .. actTid + actgTid : DOMAIN directory = 0 .. n
  /\ actTid <= FirstGroupTid =>
       \A c \in registered : tid[c] \in DOMAIN directory /\ directory[tid[c]] = c

GenInv == CodegenTypeOK /\ Locked /\ InPhase /\ Drawn /\ Covered /\ Filed

(* The classes of a header are those of its phase, and no class is both an *)
(* actor and a group.                                                      *)
LEMMA HeaderClasses ==
  /\ \A f \in ActorFile : Classes[f] \in Seq(ActorClass)
  /\ \A f \in GroupFile : Classes[f] \in Seq(GroupClass)
  /\ ActorClass \cap GroupClass = {}
<1>1. ASSUME NEW f \in ActorFile \cup GroupFile, NEW S, Range(Classes[f]) \subseteq S
      PROVE  Classes[f] \in Seq(S)
  <2>1. Classes[f] \in Seq(Range(Classes[f]))
    BY CodegenAssumption
  <2> QED BY <2>1, <1>1
<1>2. \A f \in ActorFile : Range(Classes[f]) \subseteq ActorClass
  BY DEF ActorClass
<1>3. \A f \in GroupFile : Range(Classes[f]) \subseteq GroupClass
  BY DEF GroupClass
<1>4. ActorClass \cap GroupClass = {}
  BY CodegenAssumption DEF ActorClass, GroupClass, Range
<1> QED BY <1>1, <1>2, <1>3, <1>4

(* The generator starts with the invariant. *)
LEMMA GenInit == CodegenInit => GenInv
<1> SUFFICES ASSUME CodegenInit PROVE GenInv
  OBVIOUS
<1>1. (CHOOSE f \in File : TRUE) \in File /\ GroupFile \subseteq File
  BY CodegenAssumption DEF File
<1>2. CodegenTypeOK
  <2>1. header \in [GenThread -> File] /\ todo \subseteq File
    BY <1>1 DEF CodegenInit
  <2>2. left \in [GenThread -> Seq(Class)] /\ tid \in [Class -> Nat \cup {-1}]
    BY DEF CodegenInit
  <2> QED BY <2>1, <2>2, CodegenAssumption DEF CodegenInit, CodegenTypeOK
<1>3. Locked /\ InPhase
  BY DEF CodegenInit, Locked, InPhase, PhaseFile
<1>4. Drawn
  BY CodegenAssumption DEF CodegenInit, Drawn, Class
<1>5. Covered /\ Filed
  BY DEF CodegenInit, Covered, Visited, Ahead, Filed
<1> QED BY <1>2, <1>3, <1>4, <1>5 DEF GenInv

(* A thread takes a header. *)
LEMMA TakeHeaderInv ==
  ASSUME GenInv, NEW t \in GenThread, NEW f \in todo, TakeHeader(t, f)
  PROVE  GenInv'
<1> USE DEF GenInv, TakeHeader, Raise, counters, factory
<1>1. /\ f \in File /\ genPhase \in {"groups", "actors"} /\ f \in PhaseFile
      /\ Classes[f] \in Seq(PhaseClass) /\ Classes[f] \in Seq(Class)
  <2>1. f \in File /\ genPhase \in {"groups", "actors"} /\ f \in PhaseFile
    BY DEF InPhase, CodegenTypeOK
  <2>2. Classes[f] \in Seq(PhaseClass) /\ PhaseClass \subseteq Class
    BY <2>1, HeaderClasses DEF PhaseFile, PhaseClass, Class
  <2> QED BY <2>1, <2>2
<1>2. CodegenTypeOK'
  BY <1>1 DEF CodegenTypeOK
<1>3. Locked'
  BY DEF Locked, Counter, CodegenTypeOK
<1>4. InPhase'
  BY <1>1 DEF InPhase, PhaseFile, PhaseClass, CodegenTypeOK
<1>5. Drawn'
  BY DEF Drawn
<1>6. Covered'
  <2>1. ASSUME NEW g \in File, NEW i \in DOMAIN Classes[g], Ahead(g, Classes[g][i])
        PROVE  Ahead(g, Classes[g][i])'
    BY <2>1 DEF Ahead, CodegenTypeOK
  <2> QED BY <1>1, <2>1 DEF Covered, Visited, File
<1>7. Filed'
  BY <1>1 DEF Filed
<1> QED BY <1>2, <1>3, <1>4, <1>5, <1>6, <1>7

(* A thread waits for the mutex, or gives up on a group of no template. *)
LEMMA AcquireMutexInv ==
  ASSUME GenInv, NEW t \in GenThread, AcquireMutex(t)
  PROVE  GenInv'
<1> USE DEF GenInv, AcquireMutex, Raise, Unlocked, visit, factory
<1>1. CodegenTypeOK'
  <2>1. raised' \subseteq File
    <3> HIDE DEF GenInv, AcquireMutex, Raise
    <3>1. raised' = raised \/ raised' = raised \cup {header[t]}
      BY DEF AcquireMutex, Raise
    <3>2. raised \subseteq File /\ header[t] \in File
      BY DEF GenInv, CodegenTypeOK
    <3> QED BY <3>1, <3>2
  <2>2. gpc' \in [GenThread -> {"idle", "visit", "read", "increment", "mkdir", "write"}] /\ mutex' \subseteq GenThread
    BY DEF CodegenTypeOK
  <2> QED BY <2>1, <2>2 DEF CodegenTypeOK
<1>2. Locked'
  BY DEF Locked, Counter, CodegenTypeOK
<1>3. InPhase'
  BY DEF InPhase, PhaseFile, PhaseClass, CodegenTypeOK
<1>4. Drawn'
  BY DEF Drawn
<1>5. Covered'
  <2>1. ASSUME NEW g \in File, NEW i \in DOMAIN Classes[g], Ahead(g, Classes[g][i])
        PROVE  Ahead(g, Classes[g][i])'
    BY <2>1 DEF Ahead, CodegenTypeOK
  <2> QED BY <2>1 DEF Covered, Visited, File, InPhase, CodegenTypeOK
<1>6. Filed'
  BY DEF Filed
<1> QED BY <1>1, <1>2, <1>3, <1>4, <1>5, <1>6

(* The thread that holds the mutex reads the counter. *)
LEMMA ReadTidInv ==
  ASSUME GenInv, NEW t \in GenThread, ReadTid(t)
  PROVE  GenInv'
<1> USE DEF GenInv, ReadTid, visit, counters, factory
<1>1. CodegenTypeOK'
  BY DEF CodegenTypeOK
<1>2. Locked'
  BY DEF Locked, Counter, CodegenTypeOK
<1>3. InPhase'
  BY DEF InPhase, PhaseFile, PhaseClass, CodegenTypeOK
<1>4. Drawn'
  BY DEF Drawn
<1>5. Covered'
  <2>1. ASSUME NEW g \in File, NEW i \in DOMAIN Classes[g], Ahead(g, Classes[g][i])
        PROVE  Ahead(g, Classes[g][i])'
    BY <2>1 DEF Ahead, CodegenTypeOK
  <2> QED BY <2>1 DEF Covered, Visited, File
<1>6. Filed'
  BY DEF Filed
<1> QED BY <1>1, <1>2, <1>3, <1>4, <1>5, <1>6

(* The thread that holds the mutex increments the counter, and its class   *)
(* gets the value from before: no class has it, since all ids are smaller. *)
LEMMA AssignTidInv ==
  ASSUME GenInv, NEW t \in GenThread, AssignTid(t)
  PROVE  GenInv'
<1> USE DEF GenInv, AssignTid, Raise, visit, factory
<1> DEFINE c == Head(left[t])
<1>1. /\ genPhase \in {"groups", "actors"} /\ left[t] \in Seq(PhaseClass) /\ left[t] # <<>>
      /\ seen[t] = Counter /\ PhaseClass \subseteq Class /\ gpc[t] = "increment" /\ t \in mutex
  BY DEF InPhase, CodegenTypeOK, Locked, PhaseClass, Class
<1>2. c \in PhaseClass /\ c \in Class /\ Tail(left[t]) \in Seq(PhaseClass) /\ Tail(left[t]) \in Seq(Class)
  <2> HIDE DEF GenInv, AssignTid, Raise, visit, factory
  <2>1. ASSUME NEW S, NEW q \in Seq(S), q # <<>>
        PROVE  Head(q) \in S /\ Tail(q) \in Seq(S)
    BY <2>1
  <2>2. c \in PhaseClass /\ Tail(left[t]) \in Seq(PhaseClass)
    BY <1>1, <2>1
  <2>3. Seq(PhaseClass) \subseteq Seq(Class)
    BY <1>1
  <2> QED BY <1>1, <2>2, <2>3
<1>3. /\ Counter \in Nat /\ actTid \in Nat /\ actgTid \in Nat
      /\ tid' = tid \/ tid' = [tid EXCEPT ![c] = Counter]
      /\ genPhase = "groups" => actgTid' = actgTid + 1 /\ actTid' = actTid
      /\ genPhase = "actors" => actTid' = actTid + 1 /\ actgTid' = actgTid
  BY <1>1 DEF Counter, CodegenTypeOK
<1>4. CodegenTypeOK'
  <2>1. tid' \in [Class -> Nat \cup {-1}] /\ actTid' \in Nat /\ actgTid' \in Nat
    <3> HIDE DEF GenInv, AssignTid, Raise, c
    <3>1. tid \in [Class -> Nat \cup {-1}]
      BY DEF GenInv, CodegenTypeOK
    <3> QED BY <3>1, <1>1, <1>2, <1>3
  <2>2. left' \in [GenThread -> Seq(Class)] /\ header' \in [GenThread -> File] /\ mutex' \subseteq GenThread
    BY <1>1, <1>2 DEF CodegenTypeOK
  <2>3. gpc' \in [GenThread -> {"idle", "visit", "read", "increment", "mkdir", "write"}]
    BY DEF CodegenTypeOK
  <2>4. raised' \subseteq File
    <3> HIDE DEF GenInv, AssignTid, Raise
    <3>1. raised' = raised \/ raised' = raised \cup {header[t]}
      BY DEF AssignTid, Raise, visit
    <3>2. raised \subseteq File /\ header[t] \in File
      BY DEF GenInv, CodegenTypeOK
    <3> QED BY <3>1, <3>2
  <2> QED BY <2>1, <2>2, <2>3, <2>4 DEF CodegenTypeOK
<1>5. Locked'
  <2> HIDE DEF GenInv, AssignTid, Raise, c
  <2>1. /\ mutex' = mutex \ {t} /\ seen' = seen /\ gpc'[t] \in {"idle", "visit"}
        /\ \A u \in GenThread \ {t} : gpc'[u] = gpc[u]
    BY DEF GenInv, AssignTid, Raise, CodegenTypeOK
  <2>2. Locked /\ mutex \subseteq GenThread
    BY DEF GenInv, CodegenTypeOK
  <2>3. \A u \in GenThread \ {t} : gpc[u] # "increment"
    BY <1>1, <2>2 DEF Locked
  <2> QED BY <1>1, <2>1, <2>2, <2>3 DEF Locked
<1>6. InPhase'
  BY <1>1, <1>2 DEF InPhase, PhaseFile, PhaseClass, CodegenTypeOK
<1>7. Drawn'
  <2> HIDE DEF GenInv, AssignTid, Raise, c
  <2>0. Drawn /\ tid \in [Class -> Nat \cup {-1}] /\ FirstGroupTid \in Nat
    BY CodegenAssumption DEF GenInv, CodegenTypeOK
  <2>1. CASE genPhase = "groups"
    <3>1. Counter = actgTid /\ c \in GroupClass /\ actgTid' = actgTid + 1 /\ actTid' = actTid
      BY <2>1, <1>2, <1>3 DEF Counter, PhaseClass
    <3>2. \A d \in ActorClass : tid'[d] = tid[d]
      BY <2>0, <3>1, <1>3, HeaderClasses DEF Class
    <3>3. \A d \in GroupClass : tid'[d] = tid[d] \/ (d = c /\ tid'[d] = actgTid)
      BY <2>0, <3>1, <1>3 DEF Class
    <3>4. \A d \in GroupClass : tid[d] \in Nat \cup {-1}
      BY <2>0 DEF Class
    <3> QED BY <2>0, <1>3, <3>1, <3>2, <3>3, <3>4 DEF Drawn
  <2>2. CASE genPhase = "actors"
    <3>1. Counter = actTid /\ c \in ActorClass /\ actTid' = actTid + 1 /\ actgTid' = actgTid
      BY <2>2, <1>2, <1>3 DEF Counter, PhaseClass
    <3>2. \A d \in GroupClass : tid'[d] = tid[d]
      BY <2>0, <3>1, <1>3, HeaderClasses DEF Class
    <3>3. \A d \in ActorClass : tid'[d] = tid[d] \/ (d = c /\ tid'[d] = actTid)
      BY <2>0, <3>1, <1>3 DEF Class
    <3>4. \A d \in ActorClass : tid[d] \in Nat \cup {-1}
      BY <2>0 DEF Class
    <3> QED BY <2>0, <1>3, <3>1, <3>2, <3>3, <3>4 DEF Drawn
  <2> QED BY <1>1, <2>1, <2>2
<1>8. Covered'
  <2> HIDE DEF GenInv, AssignTid, Raise, visit, factory
  <2>0. /\ tid \in [Class -> Nat \cup {-1}] /\ left \in [GenThread -> Seq(Class)]
        /\ gpc \in [GenThread -> {"idle", "visit", "read", "increment", "mkdir", "write"}]
        /\ Covered /\ (raised # {} => raised' # {}) /\ genPhase' = genPhase /\ todo' = todo
        /\ raised' = {} => /\ tid' = [tid EXCEPT ![c] = Counter] /\ left' = [left EXCEPT ![t] = Tail(left[t])]
                       /\ gpc' = [gpc EXCEPT ![t] = "visit"] /\ header' = header
    BY <1>1 DEF GenInv, CodegenTypeOK, AssignTid, Raise
  <2>1. \A i \in DOMAIN left[t] : left[t][i] = c \/ \E j \in DOMAIN Tail(left[t]) : Tail(left[t])[j] = left[t][i]
    <3>1. ASSUME NEW q \in Seq(PhaseClass), q # <<>>, NEW i \in DOMAIN q, q[i] # Head(q)
          PROVE  \E j \in DOMAIN Tail(q) : Tail(q)[j] = q[i]
      <4>1. i \in 2 .. Len(q)
        BY <3>1
      <4>2. i - 1 \in DOMAIN Tail(q) /\ Tail(q)[i - 1] = q[i]
        BY <3>1, <4>1
      <4> QED BY <4>2
    <3> QED BY <1>1, <3>1
  <2> HIDE DEF c
  <2>2. ASSUME NEW g \in File, NEW d \in Class, Ahead(g, d), raised' = {}
        PROVE  Ahead(g, d)'
    <3>1. /\ tid'[c] = Counter /\ tid'[c] # -1 /\ (d # c => tid'[d] = tid[d])
      BY <1>2, <1>3, <2>0, <2>2
    <3>2. /\ left'[t] = Tail(left[t]) /\ gpc'[t] = "visit" /\ header'[t] = header[t]
          /\ \A u \in GenThread \ {t} : left'[u] = left[u] /\ gpc'[u] = gpc[u] /\ header'[u] = header[u]
      BY <2>0, <2>2
    <3>3. CASE d = c
      BY <3>1, <3>3 DEF Ahead
    <3>4. CASE d # c /\ tid[d] # -1
      BY <3>1, <3>4 DEF Ahead
    <3>5. CASE g \in todo
      BY <2>0, <3>5 DEF Ahead
    <3>6. ASSUME NEW u \in GenThread, gpc[u] # "idle", header[u] = g,
                 NEW k \in DOMAIN left[u], left[u][k] = d, d # c
          PROVE  Ahead(g, d)'
      <4>1. CASE u # t
        BY <3>2, <3>6, <4>1 DEF Ahead
      <4>2. CASE u = t
        <5>1. \E j \in DOMAIN left'[t] : left'[t][j] = d
          BY <2>1, <3>2, <3>6, <4>2
        <5> QED BY <3>2, <3>6, <4>2, <5>1 DEF Ahead
      <4> QED BY <4>1, <4>2
    <3> QED BY <2>0, <2>2, <3>3, <3>4, <3>5, <3>6 DEF Ahead
  <2>3. ASSUME NEW g \in File, NEW i \in DOMAIN Classes[g] PROVE Classes[g][i] \in Class
    <3>1. Classes[g] \in Seq(ActorClass) \/ Classes[g] \in Seq(GroupClass)
      BY HeaderClasses DEF File
    <3>2. Classes[g][i] \in ActorClass \cup GroupClass
      BY <3>1
    <3> QED BY <3>2 DEF Class
  <2>4. ASSUME NEW g \in File, NEW i \in DOMAIN Classes[g], Ahead(g, Classes[g][i])
        PROVE  Ahead(g, Classes[g][i])'
    <3>1. CASE raised' # {}
      BY <3>1 DEF Ahead
    <3>2. CASE raised' = {}
      <4>1. PICK d \in Class : d = Classes[g][i]
        BY <2>3
      <4>2. Ahead(g, d)'
        BY <2>2, <2>4, <3>2, <4>1
      <4> QED BY <4>1, <4>2
    <3> QED BY <3>1, <3>2
  <2> QED BY <1>1, <2>0, <2>4 DEF Covered, Visited, File
<1>9. Filed'
  BY <1>1 DEF Filed
<1> QED BY <1>4, <1>5, <1>6, <1>7, <1>8, <1>9

(* A thread whose header has no more classes generates code. *)
LEMMA WriteInv ==
  ASSUME GenInv, NEW t \in GenThread, TestDir(t) \/ MakeDir(t) \/ WriteCode(t)
  PROVE  GenInv'
<1> USE DEF GenInv, TestDir, MakeDir, WriteCode, MakeIfMissing, Raise, visit, counters, factory
<1>1. left[t] = <<>>
  BY DEF InPhase, CodegenTypeOK
<1>2. CodegenTypeOK'
  <2>1. raised' \subseteq File
    <3> HIDE DEF GenInv, TestDir, MakeDir, WriteCode, Raise
    <3>1. raised' = raised \/ raised' = raised \cup {header[t]}
      BY DEF TestDir, MakeDir, WriteCode, Raise
    <3>2. raised \subseteq File /\ header[t] \in File
      BY DEF GenInv, CodegenTypeOK
    <3> QED BY <3>1, <3>2
  <2>2. gpc' \in [GenThread -> {"idle", "visit", "read", "increment", "mkdir", "write"}] /\ written' \subseteq File
    BY DEF CodegenTypeOK
  <2> QED BY <2>1, <2>2 DEF CodegenTypeOK
<1>3. Locked'
  BY DEF Locked, Counter, CodegenTypeOK
<1>4. InPhase'
  BY <1>1 DEF InPhase, PhaseFile, PhaseClass, CodegenTypeOK
<1>5. Drawn'
  BY DEF Drawn
<1>6. Covered'
  <2>1. ASSUME NEW g \in File, NEW i \in DOMAIN Classes[g], Ahead(g, Classes[g][i])
        PROVE  Ahead(g, Classes[g][i])'
    <3> HIDE DEF GenInv, TestDir, MakeDir, WriteCode, MakeIfMissing, Raise
    <3>1. /\ tid' = tid /\ todo' = todo /\ left' = left /\ header' = header /\ (raised # {} => raised' # {})
          /\ \A u \in GenThread \ {t} : gpc'[u] = gpc[u]
      BY DEF GenInv, TestDir, MakeDir, WriteCode, Raise, CodegenTypeOK
    <3>2. DOMAIN left[t] = {}
      BY <1>1
    <3>3. CASE tid[Classes[g][i]] # -1 \/ raised # {} \/ g \in todo
      BY <3>1, <3>3 DEF Ahead
    <3>4. ASSUME NEW u \in GenThread, gpc[u] # "idle", header[u] = g,
                 NEW k \in DOMAIN left[u], left[u][k] = Classes[g][i]
          PROVE  Ahead(g, Classes[g][i])'
      <4>1. u # t
        BY <3>2, <3>4
      <4>2. gpc'[u] # "idle" /\ header'[u] = g /\ left'[u][k] = Classes[g][i] /\ k \in DOMAIN left'[u]
        BY <3>1, <3>4, <4>1
      <4> QED BY <4>2 DEF Ahead
    <3> QED BY <2>1, <3>3, <3>4 DEF Ahead
  <2>2. genPhase' = genPhase /\ (genPhase = "program" => raised' = raised)
    BY DEF InPhase, CodegenTypeOK
  <2> HIDE DEF GenInv, TestDir, MakeDir, WriteCode, MakeIfMissing, Raise
  <2>3. Covered
    BY DEF GenInv
  <2>4. Visited(GroupFile) => Visited(GroupFile)'
    BY <2>1 DEF Visited, File
  <2>5. Visited(ActorFile) => Visited(ActorFile)'
    BY <2>1 DEF Visited, File
  <2> QED BY <2>2, <2>3, <2>4, <2>5 DEF Covered
<1>7. Filed'
  BY DEF Filed
<1> QED BY <1>2, <1>3, <1>4, <1>5, <1>6, <1>7

(* The end of a phase, with all threads idle. *)
LEMMA PhaseEndsInv == GenInv /\ PhaseEnds => GenInv'
<1> SUFFICES ASSUME GenInv, PhaseEnds PROVE GenInv'
  OBVIOUS
<1> USE DEF GenInv, PhaseEnds, visit, counters, factory
<1>1. CodegenTypeOK'
  BY DEF CodegenTypeOK, File
<1>2. Locked'
  BY DEF Locked, CodegenTypeOK
<1>3. InPhase'
  BY DEF InPhase, PhaseFile, CodegenTypeOK
<1>4. Drawn'
  BY DEF Drawn
<1>5. Covered'
  <2>1. ASSUME NEW g, NEW i \in DOMAIN Classes[g], Ahead(g, Classes[g][i]), raised = {}
        PROVE  Ahead(g, Classes[g][i])'
    BY <2>1 DEF Ahead
  <2>2. ASSUME NEW g \in ActorFile, NEW i \in DOMAIN Classes[g], genPhase' = "actors"
        PROVE  Ahead(g, Classes[g][i])'
    BY <2>2 DEF Ahead
  <2> QED BY <2>1, <2>2 DEF Covered, Visited
<1>6. Filed'
  BY DEF Filed
<1> QED BY <1>1, <1>2, <1>3, <1>4, <1>5, <1>6

(* A class is registered: the directory grows to hold its id, which no     *)
(* other class has.                                                        *)
LEMMA RegisterInv ==
  ASSUME GenInv, NEW c \in Concrete, register_actor(c)
  PROVE  GenInv'
<1> DEFINE k == tid[c]
           D == DOMAIN directory \cup {k}
<1>1. /\ genPhase = "program" /\ c \in Class /\ raised = {} /\ todo = {} /\ \A t \in GenThread : gpc[t] = "idle"
      /\ tid \in [Class -> Nat \cup {-1}] /\ registered \subseteq Class
      /\ UNCHANGED <<bad, genPhase, todo, gpc, visit, seen, counters, tid, dirs, written, raised>>
      /\ registered' = registered \cup {c}
      /\ directory' = [i \in 0 .. Max(D) |->
                         IF i = k THEN c ELSE IF i \in DOMAIN directory THEN directory[i] ELSE NoClass]
  BY DEF GenInv, register_actor, Concrete, InPhase, Covered, CodegenTypeOK
<1>2. \A d \in Class : tid[d] \in Nat
  <2> SUFFICES ASSUME NEW d \in Class PROVE tid[d] # -1
    BY <1>1
  <2>1. PICK f \in File : \E i \in DOMAIN Classes[f] : Classes[f][i] = d
    BY DEF Class, ActorClass, GroupClass, File, Range
  <2>2. Ahead(f, d)
    BY <1>1, <2>1 DEF GenInv, Covered, Visited, File
  <2> QED BY <1>1, <2>2 DEF Ahead
<1>3. k \in Nat /\ k <= actTid + actgTid /\ actTid \in Nat /\ actgTid \in Nat /\ FirstGroupTid \in Nat
  <2>1. actTid \in Nat /\ actgTid \in Nat /\ Drawn
    BY DEF GenInv, CodegenTypeOK
  <2>2. FirstGroupTid \in Nat
    BY CodegenAssumption
  <2>3. k \in Nat
    BY <1>1, <1>2
  <2>4. k < actTid \/ k < actgTid
    <3> HIDE DEF GenInv
    <3> QED BY <1>1, <2>1, <2>3 DEF Drawn, Class
  <2> HIDE DEF k, GenInv
  <2> QED BY <2>1, <2>2, <2>3, <2>4
<1>4. \E n \in 0 .. actTid + actgTid : /\ Max(D) = n /\ k <= n /\ DOMAIN directory \subseteq 0 .. n
  <2>1. CASE registered = {}
    <3>1. D = {k}
      BY <2>1 DEF GenInv, Filed
    <3>2. Max(D) = k
      BY <3>1, <1>3 DEF Max
    <3> QED BY <3>2, <1>3, <2>1 DEF GenInv, Filed
  <2>2. CASE registered # {}
    <3>1. PICK n \in 0 .. actTid + actgTid : DOMAIN directory = 0 .. n
      BY <2>2 DEF GenInv, Filed
    <3>2. CASE k <= n
      <4>1. Max(D) = n
        BY <3>1, <3>2, <1>3 DEF Max
      <4> QED BY <4>1, <3>1, <3>2
    <3>3. CASE ~(k <= n)
      <4>1. Max(D) = k
        BY <3>1, <3>3, <1>3 DEF Max
      <4> QED BY <4>1, <3>1, <3>3, <1>3
    <3> QED BY <3>2, <3>3
  <2> QED BY <2>1, <2>2
<1>5. CodegenTypeOK' /\ Locked' /\ InPhase' /\ Drawn'
  <2>1. CodegenTypeOK'
    BY <1>1 DEF GenInv, CodegenTypeOK, visit, counters
  <2>2. Locked' /\ Drawn'
    BY <1>1 DEF GenInv, Locked, Drawn, Counter, visit, counters
  <2>3. InPhase'
    BY <1>1 DEF GenInv, InPhase, PhaseFile, PhaseClass, visit
  <2> QED BY <2>1, <2>2, <2>3
<1>6. Covered'
  <2>1. /\ UNCHANGED <<genPhase, todo, gpc, header, left, tid, raised>>
        /\ Covered
    BY <1>1 DEF GenInv, visit
  <2>2. \A f, d : Ahead(f, d)' <=> Ahead(f, d)
    BY <2>1 DEF Ahead
  <2> QED BY <2>1, <2>2 DEF Covered, Visited
<1>7. Filed'
  <2>1. PICK n \in 0 .. actTid + actgTid : Max(D) = n /\ k <= n /\ DOMAIN directory \subseteq 0 .. n
    BY <1>4
  <2>2. DOMAIN directory' = 0 .. n
    BY <1>1, <2>1
  <2>3. ASSUME actTid <= FirstGroupTid, NEW d \in registered
        PROVE  tid[d] \in 0 .. n /\ directory'[tid[d]] = d
    <3>1. tid[d] \in DOMAIN directory /\ directory[tid[d]] = d /\ d \in Class
      BY <2>3, <1>1 DEF GenInv, Filed
    <3>2. tid[d] = k => d = c
      <4>1. Drawn /\ tid \in [Class -> Nat \cup {-1}] /\ c \in Class /\ tid[c] = k /\ k # -1
        BY <1>1, <1>2, <1>3 DEF GenInv, CodegenTypeOK
      <4>2. \A x, y \in ActorClass : tid[x] # -1 /\ tid[x] = tid[y] => x = y
        BY <4>1 DEF Drawn
      <4>3. \A x, y \in GroupClass : tid[x] # -1 /\ tid[x] = tid[y] => x = y
        BY <4>1 DEF Drawn
      <4>4. ASSUME NEW x \in ActorClass, NEW y \in GroupClass, tid[x] # -1, tid[y] # -1 PROVE tid[x] # tid[y]
        <5>1. tid[x] \in Nat /\ tid[y] \in Nat /\ tid[x] < actTid /\ FirstGroupTid <= tid[y]
          BY <4>1, <4>4 DEF Drawn, Class
        <5> QED BY <1>3, <2>3, <5>1
      <4>5. c \in ActorClass \cup GroupClass /\ d \in ActorClass \cup GroupClass
        BY <3>1, <4>1 DEF Class
      <4> HIDE DEF k
      <4> QED BY <4>1, <4>2, <4>3, <4>4, <4>5
    <3> QED BY <3>1, <3>2, <1>1, <2>1
  <2>4. k \in 0 .. n /\ directory'[k] = c
    BY <1>1, <1>3, <2>1
  <2> QED BY <1>1, <2>2, <2>3, <2>4 DEF Filed, counters
<1> QED BY <1>5, <1>6, <1>7 DEF GenInv

(* Every step keeps the invariant. *)
LEMMA GenStepInv == GenInv /\ [CodegenNext]_codegenVars => GenInv'
<1> SUFFICES ASSUME GenInv, [CodegenNext]_codegenVars PROVE GenInv'
  OBVIOUS
<1>1. ASSUME NEW t \in GenThread, GenStep(t) PROVE GenInv'
  BY <1>1, TakeHeaderInv, AcquireMutexInv, ReadTidInv, AssignTidInv, WriteInv DEF GenStep
<1>2. ASSUME NEW c \in Concrete, register_actor(c) PROVE GenInv'
  BY <1>2, RegisterInv
<1>3. CASE UNCHANGED codegenVars
  <2>1. /\ UNCHANGED <<bad, genPhase, todo, gpc, header, left, seen, mutex, actTid, actgTid, tid>>
        /\ UNCHANGED <<dirs, written, raised, directory, registered>>
    BY <1>3 DEF codegenVars, visit, counters, factory
  <2>2. CodegenTypeOK'
    BY <2>1 DEF GenInv, CodegenTypeOK
  <2>3. Locked' /\ Drawn'
    BY <2>1 DEF GenInv, Locked, Drawn, Counter
  <2>4. InPhase'
    BY <2>1 DEF GenInv, InPhase, PhaseFile, PhaseClass
  <2>5. Covered'
    <3>1. \A f, d : Ahead(f, d)' <=> Ahead(f, d)
      BY <2>1 DEF Ahead
    <3> QED BY <2>1, <3>1 DEF GenInv, Covered, Visited
  <2>6. Filed'
    BY <2>1 DEF GenInv, Filed
  <2> QED BY <2>2, <2>3, <2>4, <2>5, <2>6 DEF GenInv
<1> QED BY <1>1, <1>2, <1>3, PhaseEndsInv DEF CodegenNext

(* As long as there are fewer actor classes than the ids below those of    *)
(* the groups, no two classes have the same type id, and the program       *)
(* creates from an id the class that has it, for any number of threads,    *)
(* headers and classes, whatever the order of visits and registrations.    *)
THEOREM TypeIdsAreSound == CodegenSpec => []TypeIdsSound
<1>1. GenInv => TypeIdsSound
  <2> SUFFICES ASSUME GenInv PROVE TypeIdsSound
    OBVIOUS
  <2>1. UniqueTids
    <3> SUFFICES ASSUME actTid <= FirstGroupTid, NEW c \in Class, NEW d \in Class, tid[c] # -1, tid[c] = tid[d]
                 PROVE  c = d
      BY DEF UniqueTids
    <3>1. tid \in [Class -> Nat \cup {-1}] /\ actTid \in Nat /\ FirstGroupTid \in Nat /\ Drawn
      BY CodegenAssumption DEF GenInv, CodegenTypeOK
    <3> QED BY <3>1 DEF Drawn, Class
  <2>2. CreatesItsClass
    BY DEF GenInv, Filed, CreatesItsClass, create
  <2> QED BY <2>1, <2>2 DEF GenInv, TypeIdsSound
<1> QED BY <1>1, GenInit, GenStepInv, PTL DEF CodegenSpec

=============================================================================
