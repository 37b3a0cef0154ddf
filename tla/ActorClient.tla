----------------------------- MODULE ActorClient -----------------------------
(***************************************************************************)
(* Requests and their responses on one shard: the pr_manager of the root   *)
(* actor group (a vector of promises with an intrusive free list), the     *)
(* calls of actor_client and cancel_scope_request() that acquire and       *)
(* release its slots, the responses that resolve them, and the sweep over  *)
(* all slots in stop_actor_system().                                       *)
(*                                                                         *)
(* The rest of the system is the set wire of responses on their way.  Each *)
(* request is answered at most once, or never.                             *)
(***************************************************************************)
EXTENDS Integers, Sequences, FiniteSetsExt

CONSTANTS
  Req,            \* the requests made by the actors of the shard
  NoReq,          \* no request
  LateRequests    \* whether requests are made after stop_actor_system()

ASSUME RequestAssumption ==
  /\ {NoReq, "nothing", "broken", "canceled"} \cap Req = {}
  /\ LateRequests \in BOOLEAN

VARIABLES
  slots,       \* pr_array without the reserved slot 0
  available,   \* head of the free list, 0 when it is empty
  stopped,     \* stop_actor_system() has run
  state,       \* where a request is: new, sent, ready (resolved), done
  prid,        \* pr_id of a request
  got,         \* what its future was resolved with
  server,      \* whether its receiver still has to answer it
  wire         \* responses on their way back

vars == <<slots, available, stopped, state, prid, got, server, wire>>

(* owner is the request whose future is attached to the promise of a slot, *)
(* NoReq once the promise is resolved.                                     *)
Slot == [next : Nat, active : BOOLEAN, owner : Req \cup {NoReq}]
Ids  == DOMAIN slots

Init ==
  /\ slots = <<>> /\ available = 0 /\ stopped = FALSE
  /\ state = [c \in Req |-> "new"] /\ prid = [c \in Req |-> 0]
  /\ got = [c \in Req |-> "nothing"]
  /\ server = [c \in Req |-> "idle"] /\ wire = {}

-----------------------------------------------------------------------------
(* The two ways acquire_pr() finds a slot for c: it grows the array, or    *)
(* takes the head of the free list and gives its slot a new promise; a     *)
(* future that was still attached to the old promise is broken.            *)
GrowArray(c, id) ==
  /\ available = 0
  /\ slots' = Append(slots, [next |-> 0, active |-> TRUE, owner |-> c])
  /\ prid' = [prid EXCEPT ![c] = id]
  /\ state' = [state EXCEPT ![c] = "sent"]
  /\ UNCHANGED <<available, got>>

ReuseHead(c, next) ==
  /\ available # 0
  /\ slots' = [slots EXCEPT ![available] = [next |-> slots[available].next,
                                           active |-> TRUE, owner |-> c]]
  /\ available' = next
  /\ prid' = [prid EXCEPT ![c] = available]
  /\ LET broken == slots[available].owner IN
     /\ state' = [r \in Req |-> IF r = c THEN "sent"
                                ELSE IF r = broken THEN "ready" ELSE state[r]]
     /\ got' = [r \in Req |-> IF r = broken THEN "broken" ELSE got[r]]

(* acquire_pr().  The variant does not advance the list head.              *)
AcquireKeepHead(c) == GrowArray(c, Len(slots) + 1) \/ ReuseHead(c, available)

acquire_pr(c) ==
  GrowArray(c, Len(slots) + 1) \/ ReuseHead(c, slots[available].next)

(* remove_pr(): the slot becomes the head of the free list. *)
remove_pr(id) ==
  /\ slots' = [slots EXCEPT ![id] = [next |-> available, active |-> FALSE,
                                    owner |-> slots[id].owner]]
  /\ available' = id

-----------------------------------------------------------------------------
(* request() and cancel_scope_request(): acquire a promise and send. *)
Request(c) ==
  /\ state[c] = "new" /\ (stopped => LateRequests)
  /\ acquire_pr(c)
  /\ server' = [server EXCEPT ![c] = "asked"]
  /\ UNCHANGED <<stopped, wire>>

(* The receiver of the request responds to the promise id in its header. *)
Respond(c) ==
  /\ server[c] = "asked"
  /\ server' = [server EXCEPT ![c] = "answered"]
  /\ wire' = wire \cup {[pr |-> prid[c], of |-> c]}
  /\ UNCHANGED <<slots, available, stopped, state, prid, got>>

(* receive() of a RESPONSE or EXCEPTION_RESPONSE: the message resolves the *)
(* promise of an active slot, and is dropped otherwise.  The variant also  *)
(* releases the slot.                                                      *)
Resolvable(id) == slots[id].active /\ slots[id].owner # NoReq

ReceiveAndRemove(r) ==
  /\ wire' = wire \ {r}
  /\ IF Resolvable(r.pr)
     THEN /\ slots' = [slots EXCEPT ![r.pr] = [next |-> available, active |-> FALSE,
                                               owner |-> NoReq]]
          /\ available' = r.pr
          /\ state' = [state EXCEPT ![slots[r.pr].owner] = "ready"]
          /\ got' = [got EXCEPT ![slots[r.pr].owner] = r.of]
     ELSE UNCHANGED <<slots, available, state, got>>
  /\ UNCHANGED <<stopped, prid, server>>

ReceiveResponse(r) ==
  /\ wire' = wire \ {r}
  /\ IF Resolvable(r.pr)
     THEN /\ slots' = [slots EXCEPT ![r.pr] = [next |-> slots[r.pr].next, active |-> TRUE,
                                               owner |-> NoReq]]
          /\ state' = [state EXCEPT ![slots[r.pr].owner] = "ready"]
          /\ got' = [got EXCEPT ![slots[r.pr].owner] = r.of]
     ELSE UNCHANGED <<slots, state, got>>
  /\ UNCHANGED <<available, stopped, prid, server>>

(* The continuation of send_and_wait(): release the slot, then return the  *)
(* result.                                                                 *)
Continue(c) ==
  /\ state[c] = "ready"
  /\ remove_pr(prid[c])
  /\ state' = [state EXCEPT ![c] = "done"]
  /\ UNCHANGED <<stopped, prid, got, server, wire>>

(* stop_actor_system(): an exception for every active slot, and the slot   *)
(* is removed; slots are swept in ascending order.  The variant sweeps     *)
(* without setting the exception.                                          *)
Active == {i \in Ids : slots[i].active}

Swept ==
  [i \in Ids |->
     IF i \in Active
     THEN [next   |-> LET below == {j \in Active : j < i}
                      IN IF below = {} THEN available ELSE Max(below),
           active |-> FALSE, owner |-> NoReq]
     ELSE slots[i]]

StopSilently ==
  /\ ~stopped /\ stopped' = TRUE
  /\ slots' = Swept
  /\ available' = IF Active = {} THEN available ELSE Max(Active)
  /\ UNCHANGED <<prid, server, wire, state, got>>

StopActorSystem ==
  /\ ~stopped /\ stopped' = TRUE
  /\ slots' = Swept
  /\ available' = IF Active = {} THEN available ELSE Max(Active)
  /\ LET hit == {slots[i].owner : i \in Active} IN
     /\ state' = [c \in Req |-> IF c \in hit THEN "ready" ELSE state[c]]
     /\ got' = [c \in Req |-> IF c \in hit THEN "canceled" ELSE got[c]]
  /\ UNCHANGED <<prid, server, wire>>

Next ==
  \/ \E c \in Req : Request(c) \/ Respond(c) \/ Continue(c)
  \/ \E r \in wire : ReceiveResponse(r)
  \/ StopActorSystem

Spec     == Init /\ [][Next]_vars
Fairness == \A c \in Req : WF_vars(Continue(c))
FairSpec == Spec /\ Fairness

-----------------------------------------------------------------------------
(* Type correctness of the promise manager and its clients; every promise  *)
(* id that acquire_pr() hands out is an index of pr_array.                 *)
TypeOK ==
  /\ slots \in Seq(Slot) /\ available \in {0} \cup Ids /\ stopped \in BOOLEAN
  /\ state \in [Req -> {"new", "sent", "ready", "done"}]
  /\ prid \in [Req -> {0} \cup Ids]
  /\ got \in [Req -> Req \cup {"nothing", "broken", "canceled"}]
  /\ server \in [Req -> {"idle", "asked", "answered"}]
  /\ wire \subseteq [pr : Ids, of : Req]

Outstanding == {c \in Req : state[c] \in {"sent", "ready"}}

(* The free list holds inactive slots only, none of them twice: no two of  *)
(* its links, head included, lead to the same slot.                        *)
FreeListSound ==
  ~stopped =>
    /\ available # 0 => available \in Ids \ Active
    /\ \A i \in Ids \ Active :
         /\ slots[i].next # 0 =>
              /\ slots[i].next \in Ids \ Active
              /\ slots[i].next # available
              /\ \A j \in Ids \ Active : slots[j].next = slots[i].next => i = j

(* As long as the shard is not stopping, two requests that are under way   *)
(* never hold the same promise id.                                         *)
NoSharedId ==
  ~stopped => \A c, d \in Outstanding : prid[c] = prid[d] => c = d

(* The slot of a request that waits for its response is active, and the    *)
(* promise in it is the one the request waits for.                         *)
WaitingIsOwner ==
  \A c \in Req : state[c] = "sent" =>
    prid[c] \in Active /\ slots[prid[c]].owner = c

(* "The processing result of this message will be returned as the result   *)
(* of the method call": a response never resolves the future of another    *)
(* request.                                                                *)
OwnResult == \A c \in Req : got[c] \in Req => got[c] = c

(* The promise ids of a shard, through sends, responses and the stop: the  *)
(* free list is sound, no id is shared, and a caller that waits owns its.  *)
RequestsSound == TypeOK /\ FreeListSound /\ NoSharedId /\ WaitingIsOwner

(* After stop_actor_system() no caller is left waiting. *)
StopReleasesCallers == stopped ~> \A c \in Req : state[c] \in {"new", "done"}

=============================================================================
