---------------------------- MODULE ScopeBuilder ----------------------------
(***************************************************************************)
(* Addresses: scope_builder enters and leaves scopes, build_ref() appends  *)
(* an actor, and a request stores the type of the called method in the     *)
(* tail of the address.  data is a sequence of units of two bytes: the     *)
(* shard id takes two, a layer three (type, and two of the id).            *)
(***************************************************************************)
EXTENDS Integers, Sequences, SequencesExt

CONSTANTS
  MaxLayer,    \* GMaxAddrLayer
  ScopeShard,  \* shards
  ScopeId,     \* ids of groups and actors, pairs of units
  MethodType   \* the type of the actor class that defines the method called

ShardUnits == 2
LayerUnits == 3
MaxUnits   == ShardUnits + MaxLayer * LayerUnits   \* GMaxAddrLength

VARIABLES
  scope,       \* the address of the builder: [data, length]
  scopePath,   \* the shard and the ids of the scopes entered
  ref,         \* the address of the last reference built, as a request carries it
  refPath      \* the shard and the ids it was built from

scopeVars == <<scope, scopePath, ref, refPath>>

\* memcpy() of some units to an offset.
Put(data, at, units) ==
  [i \in DOMAIN data |-> IF i \in at + 1 .. at + Len(units) THEN units[i - at] ELSE data[i]]

NoAddress == [data |-> [i \in 1 .. MaxUnits |-> 0], length |-> 0]

\* A layer: a type and an id.
AddLayer(addr, id) ==
  [data |-> Put(addr.data, addr.length, <<1>> \o id), length |-> addr.length + LayerUnits]

\* The constructor with a shard.
ShardScope(s) == [data |-> Put(NoAddress.data, 0, <<s, 0>>), length |-> ShardUnits]

ScopeInit ==
  /\ \E s \in ScopeShard : scope = ShardScope(s) /\ scopePath = <<s>>
  /\ ref = NoAddress /\ refPath = <<>>

\* The assertion of enter_sub_scope(); the variant lets the last layer in.
FitsExactly == scope.length + LayerUnits <= MaxUnits

Fits == scope.length + LayerUnits < MaxUnits

\* Also the constructor with a list of scopes, which enters them one by one.
enter_sub_scope(id) ==
  /\ Fits
  /\ scope' = AddLayer(scope, id) /\ scopePath' = Append(scopePath, id)
  /\ UNCHANGED <<ref, refPath>>

back_to_parent_scope ==
  /\ scope.length >= ShardUnits + LayerUnits
  /\ scope' = [scope EXCEPT !.length = @ - LayerUnits]
  /\ scopePath' = Front(scopePath)
  /\ UNCHANGED <<ref, refPath>>

set_shard(s) ==
  /\ scope' = [scope EXCEPT !.data = Put(@, 0, <<s, 0>>)]
  /\ scopePath' = [scopePath EXCEPT ![1] = s]
  /\ UNCHANGED <<ref, refPath>>

\* set_method_actor_tid()
SetMethodType(addr) == [addr EXCEPT !.data = Put(@, MaxUnits - 1, <<MethodType>>)]

\* make_address(): no assertion guards it.  The actor's proxy then sets the
\* type of the method in the address.
build_ref(id) ==
  /\ ref' = SetMethodType(AddLayer([NoAddress EXCEPT !.data = Put(@, 0, SubSeq(scope.data, 1, scope.length)),
                                                     !.length = scope.length], id))
  /\ refPath' = Append(scopePath, id)
  /\ UNCHANGED <<scope, scopePath>>

\* actor_base::get_scope(), in the actor that the reference leads to: its
\* shard, and from bottom to top the addresses of the groups around it.
get_scope ==
  /\ refPath # <<>>
  /\ scope' = FoldLeft(AddLayer, ShardScope(refPath[1]), SubSeq(refPath, 2, Len(refPath) - 1))
  /\ scopePath' = Front(refPath) /\ UNCHANGED <<ref, refPath>>

ScopeNext ==
  \/ \E id \in ScopeId : enter_sub_scope(id) \/ build_ref(id)
  \/ back_to_parent_scope \/ get_scope
  \/ \E s \in ScopeShard : set_shard(s)

\* get_shard_id(), and the ids that the groups on the way read.
Path(addr) ==
  <<addr.data[1]>> \o
  [i \in 1 .. (addr.length - ShardUnits) \div LayerUnits |->
     SubSeq(addr.data, ShardUnits + (i - 1) * LayerUnits + 2, ShardUnits + i * LayerUnits)]

-----------------------------------------------------------------------------
(* Properties. *)

\* The builder's address is that of the scopes entered and not left again.
ScopeIsPath == Path(scope) = scopePath

\* An address fits, and leads to the actor that the reference was built for
\* while the type of the method is read from its tail, if there are no more
\* than the MaxLayer - 2 groups that the format of address allows: the
\* assertions of scope_builder allow one more.
AddressIntact ==
  /\ ScopeIsPath
  /\ ref.length <= MaxUnits
  /\ refPath # <<>> /\ Len(refPath) - 2 <= MaxLayer - 2 =>
       Path(ref) = refPath /\ ref.data[MaxUnits] = MethodType

=============================================================================
