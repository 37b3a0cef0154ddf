------------------------ MODULE ActorShardStopProofs ------------------------
(***************************************************************************)
(* Two guarantees of stopping, for every actor tree: only a forced stop of *)
(* the node it was sent to throws an accepted message away, and nothing is *)
(* created under a node that is stopping.                                  *)
(*                                                                         *)
(* StopStep says what any step may do to the state the two depend on.      *)
(* Every action is shown to be a StopStep, and StopInv to be preserved by  *)
(* a StopStep.                                                             *)
(***************************************************************************)
EXTENDS ActorShardProofs

(* What is in a mailbox was delivered there. *)
MailDelivered ==
  \A n \in Node : \A m \in Ids(mailbox[n]) : dest[m] = n /\ fate[m] # "unsent"

(* A group that is not disabled in the map of its parent is not stopping. *)
EnabledGroupRuns ==
  \A g \in Group : inst[g] # "disabled" => status[g] = "RUNNING"

StopInv == TypeOK /\ MailDelivered /\ EnabledGroupRuns /\ OnlyForceDrops

ForceIsFinal ==
  \A n \in Node \cup {Root} :
    status[n] = "FORCE_STOPPING" => status'[n] = "FORCE_STOPPING"
SentIsFinal ==
  \A m \in Msg : fate[m] # "unsent" => fate'[m] # "unsent" /\ dest'[m] = dest[m]
MailIsSent ==
  \A n \in Node : \A m \in Ids(mailbox'[n]) :
    m \in Ids(mailbox[n]) \/ (dest'[m] = n /\ fate'[m] # "unsent")
DropIsForced ==
  \A m \in Msg : fate'[m] = "dropped" =>
    fate[m] = "dropped" \/ (fate[m] # "unsent" /\ status'[dest[m]] = "FORCE_STOPPING")
GroupIsEnabled ==
  \A g \in Group : inst'[g] # "disabled" => inst[g] # "disabled" /\ status'[g] = status[g]
BirthIsAllowed ==
  \A n \in Node : n \in alive' \ alive =>
    inst[n] = "absent" /\ status'[Parent[n]] = "RUNNING"

StopStep ==
  /\ ForceIsFinal /\ SentIsFinal /\ MailIsSent /\ DropIsForced
  /\ GroupIsEnabled /\ BirthIsAllowed

(* The messages in a mailbox after a message was taken or added. *)
LEMMA IdsFacts ==
  ASSUME NEW s \in Seq(Message)
  PROVE  /\ Ids(s) \subseteq Msg
         /\ s # <<>> => Ids(Tail(s)) \subseteq Ids(s) /\ Head(s).id \in Ids(s) \cup {NoMsg}
         /\ \A x \in Message : /\ Ids(<<x>> \o s) \subseteq Ids(s) \cup ({x.id} \ {NoMsg})
                               /\ Ids(Append(s, x)) \subseteq Ids(s) \cup ({x.id} \ {NoMsg})
<1>1. Ids(s) \subseteq Msg
  BY DEF Ids, Message
<1>2. ASSUME s # <<>>
      PROVE  Ids(Tail(s)) \subseteq Ids(s) /\ Head(s).id \in Ids(s) \cup {NoMsg}
  <2>1. \A i \in DOMAIN Tail(s) : i + 1 \in DOMAIN s /\ Tail(s)[i] = s[i + 1]
    BY <1>2
  <2>2. 1 \in DOMAIN s /\ Head(s) = s[1]
    BY <1>2
  <2> QED BY <2>1, <2>2 DEF Ids
<1>3. ASSUME NEW x \in Message
      PROVE  /\ Ids(<<x>> \o s) \subseteq Ids(s) \cup ({x.id} \ {NoMsg})
             /\ Ids(Append(s, x)) \subseteq Ids(s) \cup ({x.id} \ {NoMsg})
  <2>1. \A i \in DOMAIN (<<x>> \o s) :
          \/ (<<x>> \o s)[i] = x
          \/ i - 1 \in DOMAIN s /\ (<<x>> \o s)[i] = s[i - 1]
    OBVIOUS
  <2>2. \A i \in DOMAIN Append(s, x) :
          Append(s, x)[i] = x \/ (i \in DOMAIN s /\ Append(s, x)[i] = s[i])
    OBVIOUS
  <2> QED BY <2>1, <2>2 DEF Ids
<1> QED BY <1>1, <1>2, <1>3

(* A node that takes its first message leaves no new one in any mailbox. *)
LEMMA TailIds ==
  ASSUME TypeOK, NEW k \in Node, mailbox[k] # <<>>
  PROVE  \A n \in Node : Ids([mailbox EXCEPT ![k] = Tail(@)][n]) \subseteq Ids(mailbox[n])
<1>1. mailbox \in [Node -> Seq(Message)]
  BY DEF TypeOK
<1>2. Ids(Tail(mailbox[k])) \subseteq Ids(mailbox[k])
  BY <1>1, IdsFacts
<1> QED BY <1>1, <1>2

(* A StopStep to a well-typed state preserves the invariant. *)
LEMMA StopInvStep ==
  ASSUME StopInv, TypeOK', StopStep
  PROVE  StopInv'
<1> USE DEF StopInv, StopStep
<1>0. \A n \in Node : Ids(mailbox[n]) \subseteq Msg
  BY IdsFacts DEF TypeOK
<1>1. MailDelivered'
  BY <1>0 DEF MailDelivered, MailIsSent, SentIsFinal
<1>2. EnabledGroupRuns'
  BY DEF EnabledGroupRuns, GroupIsEnabled
<1>3. OnlyForceDrops'
  <2> SUFFICES ASSUME NEW m \in Msg, fate'[m] = "dropped"
               PROVE  status'[dest'[m]] = "FORCE_STOPPING"
    BY DEF OnlyForceDrops
  <2>1. fate[m] # "unsent" /\ dest[m] \in Node \cup {Root}
    BY DEF DropIsForced, TypeOK
  <2>2. dest'[m] = dest[m]
    BY <2>1 DEF SentIsFinal
  <2>3. CASE fate[m] = "dropped"
    BY <2>1, <2>2, <2>3 DEF OnlyForceDrops, ForceIsFinal
  <2>4. CASE fate[m] # "dropped"
    BY <2>2, <2>4 DEF DropIsForced
  <2> QED BY <2>3, <2>4
<1> QED BY <1>1, <1>2, <1>3

(* A step that leaves maps, mailboxes and status alone only has to account *)
(* for the fates it changes.                                               *)
LEMMA QuietStep ==
  ASSUME StopInv, UNCHANGED <<inst, status, mailbox, dest>>, alive' \subseteq alive,
         \A m \in Msg : fate'[m] = fate[m] \/ fate'[m] \notin {"unsent", "dropped"}
  PROVE  StopStep
BY DEF StopStep, ForceIsFinal, SentIsFinal, MailIsSent, DropIsForced, GroupIsEnabled,
       BirthIsAllowed

(* actor::stop(): box and fat hold what the caller has already done.       *)
LEMMA StopActorStep ==
  ASSUME StopInv, NEW a \in Actor, NEW force \in BOOLEAN, NEW box \in Boxes,
         NEW fat \in FateSet, StopActor(a, force, box, fat),
         UNCHANGED dest, alive' \subseteq alive,
         \A n \in Node : Ids(box[n]) \subseteq Ids(mailbox[n]),
         \A m \in Msg : fat[m] = fate[m] \/ fat[m] \notin {"unsent", "dropped"}
  PROVE  StopStep
<1> USE DEF StopStep, ForceIsFinal, SentIsFinal, MailIsSent, DropIsForced, GroupIsEnabled,
            BirthIsAllowed
<1>0. a \in Node /\ a \notin Group
  BY TreeAssumption DEF Node
<1>1. CASE inst[a] # "live" \/ status[a] # "RUNNING"
  <2>1. /\ inst' = [inst EXCEPT ![a] = "disabled"] /\ mailbox' = box /\ fate' = fat
        /\ UNCHANGED status
    BY <1>1 DEF StopActor
  <2> QED BY <1>0, <2>1, ZenonT(30) DEF StopInv, TypeOK, Node
<1>2. CASE inst[a] = "live" /\ status[a] = "RUNNING" /\ force
  <2>1. /\ status' = [status EXCEPT ![a] = "FORCE_STOPPING"]
        /\ mailbox' = [box EXCEPT ![a] = <<>>]
        /\ fate' = Drop(fat, Ids(box[a]))
        /\ UNCHANGED inst
    BY <1>2, Zenon DEF StopActor
  <2>2. status'[a] = "FORCE_STOPPING" /\ \A n \in (Node \cup {Root}) \ {a} : status'[n] = status[n]
    BY <1>0, <2>1 DEF StopInv, TypeOK
  <2>3. \A n \in Node : Ids(mailbox'[n]) \subseteq Ids(mailbox[n])
    <3>1. mailbox'[a] = <<>> /\ \A n \in Node \ {a} : mailbox'[n] = box[n]
      BY <1>0, <2>1 DEF Boxes
    <3>2. Ids(<<>>) = {}
      BY DEF Ids
    <3> QED BY <3>1, <3>2
  <2>4. ASSUME NEW m \in Msg
        PROVE  /\ fate[m] # "unsent" => fate'[m] # "unsent"
               /\ fate'[m] = "dropped" => \/ fate[m] = "dropped"
                                          \/ fate[m] # "unsent" /\ dest[m] = a
    <3>1. m \in Ids(box[a]) => dest[m] = a /\ fate[m] # "unsent"
      BY <1>0 DEF StopInv, MailDelivered
    <3>2. fate'[m] = IF m \in Ids(box[a]) THEN "dropped" ELSE fat[m]
      BY <2>1 DEF Drop
    <3> QED BY <3>1, <3>2
  <2> QED BY <1>0, <2>1, <2>2, <2>3, <2>4, ZenonT(30) DEF StopInv, TypeOK, Node
<1>3. CASE inst[a] = "live" /\ status[a] = "RUNNING" /\ ~force
  <2>1. /\ status' = [status EXCEPT ![a] = "PEACE_STOPPING"]
        /\ inst' = [inst EXCEPT ![a] = "disabled"]
        /\ mailbox' = box /\ fate' = fat
    BY <1>3, Zenon DEF StopActor
  <2> QED BY <1>0, <1>3, <2>1, ZenonT(30) DEF StopInv, TypeOK, Node
<1> QED BY <1>1, <1>2, <1>3

(* actor_group::stop(): the same. *)
LEMMA StopGroupStep ==
  ASSUME StopInv, NEW g \in Group, NEW force \in BOOLEAN, NEW box \in Boxes,
         NEW fat \in FateSet, StopGroup(g, force, box, fat),
         UNCHANGED dest, alive' \subseteq alive,
         \A n \in Node : Ids(box[n]) \subseteq Ids(mailbox[n]),
         \A m \in Msg : fat[m] = fate[m] \/ fat[m] \notin {"unsent", "dropped"}
  PROVE  StopStep
<1> USE DEF StopStep, ForceIsFinal, SentIsFinal, MailIsSent, DropIsForced, GroupIsEnabled,
            BirthIsAllowed
<1>0. g \in Node
  BY DEF Node
<1>1. CASE inst[g] # "live" \/ status[g] # "RUNNING"
  <2>1. /\ inst' = [inst EXCEPT ![g] = "disabled"] /\ mailbox' = box /\ fate' = fat
        /\ UNCHANGED status
    BY <1>1 DEF StopGroup
  <2> QED BY <1>0, <2>1, ZenonT(30) DEF StopInv, TypeOK, Node
<1>2. CASE inst[g] = "live" /\ status[g] = "RUNNING"
  <2> DEFINE stop_msg == [type |-> IF force THEN "FORCE_STOP" ELSE "PEACE_STOP",
                          id   |-> NoMsg]
             children == {c \in Node : Parent[c] = g /\ inst[c] = "live"}
  <2>1. /\ mailbox' = [n \in Node |->
                         IF n \in children THEN <<stop_msg>> \o box[n]
                         ELSE IF n = g /\ force THEN <<>> ELSE box[n]]
        /\ fate' = IF force THEN Drop(fat, Ids(box[g])) ELSE fat
        /\ status' = [status EXCEPT ![g] = IF force THEN "FORCE_STOPPING"
                                           ELSE "PEACE_STOPPING"]
        /\ inst' = [inst EXCEPT ![g] = "disabled"]
    BY <1>2 DEF StopGroup
  <2>2. stop_msg \in Message /\ stop_msg.id = NoMsg
    BY DEF Message, StopType
  <2> HIDE DEF stop_msg, children
  <2>3. \A n \in Node : Ids(mailbox'[n]) \subseteq Ids(mailbox[n])
    <3> SUFFICES ASSUME NEW n \in Node PROVE Ids(mailbox'[n]) \subseteq Ids(box[n])
      OBVIOUS
    <3>1. box[n] \in Seq(Message)
      BY DEF Boxes
    <3>2. Ids(<<stop_msg>> \o box[n]) \subseteq Ids(box[n]) \cup ({NoMsg} \ {NoMsg})
      BY <2>2, <3>1, IdsFacts
    <3>3. Ids(<<>>) = {}
      BY DEF Ids
    <3>4. mailbox'[n] \in {<<stop_msg>> \o box[n], <<>>, box[n]}
      BY <2>1
    <3> QED BY <3>2, <3>3, <3>4, ZenonT(30)
  <2>4. status'[g] = (IF force THEN "FORCE_STOPPING" ELSE "PEACE_STOPPING")
        /\ \A n \in (Node \cup {Root}) \ {g} : status'[n] = status[n]
    BY <1>0, <2>1 DEF StopInv, TypeOK
  <2>5. ASSUME NEW m \in Msg
        PROVE  /\ fate[m] # "unsent" => fate'[m] # "unsent"
               /\ fate'[m] = "dropped" => \/ fate[m] = "dropped"
                                          \/ fate[m] # "unsent" /\ dest[m] = g /\ force
    <3>1. m \in Ids(box[g]) => dest[m] = g /\ fate[m] # "unsent"
      BY <1>0 DEF StopInv, MailDelivered
    <3>2. fate'[m] = IF force /\ m \in Ids(box[g]) THEN "dropped" ELSE fat[m]
      BY <2>1 DEF Drop
    <3> QED BY <3>1, <3>2
  <2> QED BY <1>0, <1>2, <2>1, <2>3, <2>4, <2>5, ZenonT(30) DEF StopInv, TypeOK, Node
<1> QED BY <1>1, <1>2

-----------------------------------------------------------------------------
(* receive(): a child is created only under nodes that are not stopping.   *)
LEMMA ReceiveStep ==
  ASSUME StopInv, Receive
  PROVE  StopStep
<1> PICK m \in Msg :
      \/ \E d \in Node : ReceiveRefused(m, d)
      \/ \E a \in Actor : ReceiveUser(m, a)
      \/ \E g \in Group, type \in StopType : ReceiveStop(m, g, type)
      \/ \E type \in ExitType : ReceiveExit(m, type)
  BY DEF Receive
<1>1. ASSUME NEW d \in Node, ReceiveRefused(m, d) PROVE StopStep
  BY <1>1, FinishedType, QuietStep, ZenonT(30) DEF ReceiveRefused, tree, StopInv, TypeOK
<1>2. ASSUME NEW d \in Node, NEW type \in {"USER"} \cup StopType, Accept(m, d, type)
      PROVE  StopStep
  <2> DEFINE new == {k \in Route(d) : inst[k] = "absent"}
             msg == [type |-> type, id |-> m]
  <2>1. /\ inst' = [k \in Node |-> IF k \in new THEN "live" ELSE inst[k]]
        /\ alive' = alive \cup new
        /\ mailbox' = [mailbox EXCEPT ![d] = IF type = "USER" THEN Append(@, msg)
                                             ELSE <<msg>> \o @]
        /\ fate' = [fate EXCEPT ![m] = "mailbox"] /\ dest' = [dest EXCEPT ![m] = d]
        /\ UNCHANGED status /\ fate[m] = "unsent" /\ ~Refused(d)
    BY <1>2 DEF Accept
  <2>2. msg \in Message /\ msg.id = m
    BY DEF Message
  <2>3. ForceIsFinal /\ SentIsFinal /\ DropIsForced
    BY <2>1 DEF ForceIsFinal, SentIsFinal, DropIsForced, StopInv, TypeOK
  <2>4. MailIsSent
    <3> SUFFICES ASSUME NEW n \in Node, NEW k \in Ids(mailbox'[n])
                 PROVE  k \in Ids(mailbox[n]) \/ (dest'[k] = n /\ fate'[k] # "unsent")
      BY DEF MailIsSent
    <3>1. mailbox[n] \in Seq(Message)
      BY DEF StopInv, TypeOK
    <3>2. CASE n = d
      <4>1. mailbox'[n] \in {Append(mailbox[n], msg), <<msg>> \o mailbox[n]}
        BY <2>1, <3>2 DEF StopInv, TypeOK
      <4>2. k \in Ids(mailbox[n]) \/ k = m
        <5> HIDE DEF msg
        <5> QED BY <2>2, <3>1, <4>1, IdsFacts, ZenonT(30)
      <4>3. dest'[m] = n /\ fate'[m] # "unsent"
        BY <2>1, <3>2 DEF StopInv, TypeOK
      <4> QED BY <4>2, <4>3
    <3>3. CASE n # d
      BY <2>1, <3>3 DEF StopInv, TypeOK
    <3> QED BY <3>2, <3>3
  <2>5. GroupIsEnabled
    BY <2>1 DEF GroupIsEnabled, StopInv, TypeOK, Node
  <2>6. BirthIsAllowed
    <3> SUFFICES ASSUME NEW n \in Node, n \in alive' \ alive
                 PROVE  inst[n] = "absent" /\ status[Parent[n]] = "RUNNING"
      BY <2>1 DEF BirthIsAllowed
    <3>1. n \in Route(d) /\ inst[n] = "absent"
      BY <2>1
    <3>2. CASE Parent[n] = Root
      BY <2>1, <3>1, <3>2 DEF Refused
    <3>3. CASE Parent[n] # Root
      <4>1. Parent[n] \in Group /\ Above[n] = {Parent[n]} \cup Above[Parent[n]]
        BY <3>3, TreeAssumption DEF Owner
      <4>2. Above[n] \subseteq Route(d)
        BY <3>1, TreeAssumption DEF Route
      <4>3. inst[Parent[n]] # "disabled"
        BY <2>1, <4>1, <4>2 DEF Refused
      <4> QED BY <3>1, <4>1, <4>3 DEF StopInv, EnabledGroupRuns
    <3> QED BY <3>2, <3>3
  <2> QED BY <2>3, <2>4, <2>5, <2>6 DEF StopStep
<1>3. ASSUME NEW a \in Actor, ReceiveUser(m, a) PROVE StopStep
  BY <1>2, <1>3 DEF ReceiveUser, Node
<1>4. ASSUME NEW g \in Group, NEW type \in StopType, ReceiveStop(m, g, type) PROVE StopStep
  BY <1>2, <1>4, ZenonT(30) DEF ReceiveStop, Node
<1>5. ASSUME NEW type \in ExitType, ReceiveExit(m, type) PROVE StopStep
  <2>1. /\ fate' = [fate EXCEPT ![m] = "done"] /\ UNCHANGED <<inst, alive, mailbox, dest>>
        /\ \/ UNCHANGED status
           \/ /\ status[Root] = "RUNNING"
              /\ \E s \in {"FORCE_STOPPING", "PEACE_STOPPING"} :
                   status' = [status EXCEPT ![Root] = s]
    BY <1>5 DEF ReceiveExit, tree
  <2>2. \A n \in Node : status'[n] = status[n]
    BY <2>1, TreeAssumption DEF StopInv, TypeOK
  <2> QED BY <2>1, <2>2 DEF StopStep, ForceIsFinal, SentIsFinal, MailIsSent, DropIsForced,
                            GroupIsEnabled, BirthIsAllowed, StopInv, TypeOK, Node
<1> QED BY <1>1, <1>3, <1>4, <1>5

(* The end of a continuation, for whoever ran it. *)
LEMMA EndTaskStep ==
  ASSUME StopInv, NEW a \in Actor, NEW m \in Msg, EndTask(a, m), UNCHANGED alive
  PROVE  StopStep
<1>1. CASE dest[m] # a
  BY <1>1, QuietStep DEF EndTask, HandBack, StopInv, TypeOK
<1>2. CASE dest[m] = a
  <2> DEFINE fat == [fate EXCEPT ![m] = Finished(m)]
  <2>1. /\ fat \in FateSet /\ mailbox \in Boxes /\ UNCHANGED dest
        /\ \A k \in Msg : fat[k] = fate[k] \/ fat[k] \notin {"unsent", "dropped"}
    BY <1>2, FinishedType, ZenonT(30) DEF EndTask, StopInv, TypeOK, FateSet, Fates, Boxes
  <2>2. \/ StopActor(a, TRUE, mailbox, fat)
        \/ fate' = fat /\ UNCHANGED <<inst, status, mailbox>>
    BY <1>2, ZenonT(30) DEF EndTask
  <2> HIDE DEF fat
  <2> QED BY <2>1, <2>2, StopActorStep, QuietStep, ZenonT(30)
<1> QED BY <1>1, <1>2

(* A suspended chain was sent before, and stays sent. *)
LEMMA SuspendStep ==
  ASSUME StopInv, NEW m \in Msg, NEW x, Suspend(m, x), UNCHANGED <<inst, alive, status, mailbox>>
  PROVE  StopStep
BY QuietStep DEF Suspend, StopInv, TypeOK

(* Every step of an actor is a StopStep. *)
LEMMA ActorStopStep ==
  ASSUME StopInv, NEW a \in Actor, ActorStep(a)
  PROVE  StopStep
<1> USE DEF tree, chain
<1>0. a \in Node
  BY DEF Node
<1>1. ASSUME NEW m \in Msg, CleanTakeTask(a, m) \/ ActorTakeTask(a, m) PROVE StopStep
  BY <1>1, QuietStep, ZenonT(30) DEF CleanTakeTask, ActorTakeTask, StopInv, TypeOK
<1>2. CASE CleanSuspend(a)
  BY <1>2, SuspendStep DEF CleanSuspend, StopInv, TypeOK
<1>3. CASE CleanComplete(a)
  BY <1>3, EndTaskStep DEF CleanComplete, StopInv, TypeOK
<1>4. CASE CleanDone(a)
  <2>1. inst' = [inst EXCEPT ![a] = "disabled"] /\ UNCHANGED <<alive, status, mailbox, fate, dest>>
    BY <1>4 DEF CleanDone
  <2> QED BY <1>0, <2>1 DEF StopStep, ForceIsFinal, SentIsFinal, MailIsSent, DropIsForced,
                            GroupIsEnabled, BirthIsAllowed, StopInv, TypeOK, Node
<1>5. CASE ActorTaskSuspends(a)
  BY <1>0, <1>5, SuspendStep DEF ActorTaskSuspends, At, StopInv, TypeOK
<1>6. CASE ActorTaskCompletes(a)
  BY <1>6, EndTaskStep DEF ActorTaskCompletes, At, StopInv, TypeOK
<1>7. CASE ActorAtLimit(a) \/ ActorTasksDone(a) \/ ActorYield(a)
  BY <1>7, QuietStep DEF ActorAtLimit, ActorTasksDone, ActorYield
<1>8. CASE ActorTakeUser(a)
  <2>1. /\ mailbox' = [mailbox EXCEPT ![a] = Tail(@)] /\ mailbox[a] # <<>>
        /\ \A m \in Msg : fate'[m] \in {fate[m], "running"}
        /\ UNCHANGED <<inst, alive, status, dest>>
    BY <1>8, ZenonT(30) DEF ActorTakeUser, StopInv, TypeOK
  <2>2. \A n \in Node : Ids(mailbox'[n]) \subseteq Ids(mailbox[n])
    BY <1>0, <2>1, TailIds, ZenonT(30) DEF StopInv
  <2> QED BY <2>1, <2>2 DEF StopStep, ForceIsFinal, SentIsFinal, MailIsSent, DropIsForced,
                            GroupIsEnabled, BirthIsAllowed
<1>9. CASE ActorTakeStop(a)
  <2> DEFINE box == [mailbox EXCEPT ![a] = Tail(@)]
             force == Head(mailbox[a]).type = "FORCE_STOP"
  <2>1. /\ StopActor(a, force, box, fate) /\ mailbox[a] # <<>>
        /\ UNCHANGED <<alive, dest>>
    BY <1>9 DEF ActorTakeStop
  <2>2. box \in Boxes /\ force \in BOOLEAN /\ fate \in FateSet
    <3>1. box \in Boxes
      BY <1>0, <2>1, TailBoxes DEF StopInv
    <3> QED BY <3>1 DEF StopInv, TypeOK, FateSet
  <2>3. \A n \in Node : Ids(box[n]) \subseteq Ids(mailbox[n])
    BY <1>0, <2>1, TailIds DEF StopInv
  <2> HIDE DEF box, force
  <2> QED BY <2>1, <2>2, <2>3, StopActorStep
<1>10. CASE ActorWorkSuspends(a)
  BY <1>0, <1>10, SuspendStep DEF ActorWorkSuspends, At, StopInv, TypeOK
<1>11. CASE ActorWorkCompletes(a)
  <2> DEFINE fat == [fate EXCEPT ![job[a]] = Finished(job[a])]
  <2>1. job[a] \in Msg
    BY <1>0, <1>11 DEF ActorWorkCompletes, At, StopInv, TypeOK
  <2>2. /\ fat \in FateSet /\ mailbox \in Boxes
        /\ \A k \in Msg : fat[k] = fate[k] \/ fat[k] \notin {"unsent", "dropped"}
    BY <2>1, FinishedType DEF StopInv, TypeOK, FateSet, Fates, Boxes
  <2>3. /\ UNCHANGED <<dest, alive>>
        /\ \/ StopActor(a, TRUE, mailbox, fat)
           \/ fate' = fat /\ UNCHANGED <<inst, status, mailbox>>
    BY <1>11, ZenonT(30) DEF ActorWorkCompletes
  <2> HIDE DEF fat
  <2> QED BY <2>2, <2>3, StopActorStep, QuietStep, ZenonT(30)
<1>12. CASE ActorDelete(a)
  <2>1. /\ alive' = alive \ {a} /\ mailbox[a] = <<>>
        /\ fate' = Drop(fate, Ids(mailbox[a])) /\ UNCHANGED <<inst, status, mailbox, dest>>
    BY <1>12 DEF ActorDelete, ActorEnds
  <2>2. Ids(mailbox[a]) = {}
    BY <2>1, SMTT(30) DEF Ids
  <2>3. \A m \in Msg : fate'[m] = fate[m]
    BY <2>1, <2>2 DEF Drop
  <2> QED BY <2>1, <2>3, QuietStep
<1> QED BY <1>1, <1>2, <1>3, <1>4, <1>5, <1>6, <1>7, <1>8, <1>9, <1>10, <1>11, <1>12 DEF ActorStep

(* Every step of a group is a StopStep. *)
LEMMA GroupStopStep ==
  ASSUME StopInv, NEW g \in Group, GroupStep(g)
  PROVE  StopStep
<1> USE DEF tree, chain
<1>0. g \in Node
  BY DEF Node
<1>1. CASE GroupProcessMessage(g)
  <2> DEFINE msg == Head(mailbox[g])
             m   == PromiseOf(msg)
             fat == [k \in Msg |-> IF k = m THEN "held"
                                   ELSE IF k = msg.id THEN "done"
                                   ELSE IF k = cancel[g] THEN "superseded" ELSE fate[k]]
             box == [mailbox EXCEPT ![g] = Tail(@)]
             force == msg.type = "FORCE_STOP"
  <2>1. StopGroup(g, force, box, fat) /\ mailbox[g] # <<>> /\ UNCHANGED <<alive, dest>>
    BY <1>1 DEF GroupProcessMessage
  <2>2. box \in Boxes /\ force \in BOOLEAN
    BY <1>0, <2>1, TailBoxes DEF StopInv
  <2>3. /\ fat \in FateSet
        /\ \A k \in Msg : fat[k] = fate[k] \/ fat[k] \notin {"unsent", "dropped"}
    BY DEF StopInv, TypeOK, FateSet, Fates
  <2>4. \A n \in Node : Ids(box[n]) \subseteq Ids(mailbox[n])
    BY <1>0, <2>1, TailIds, ZenonT(30) DEF StopInv
  <2> HIDE DEF msg, m, fat, box, force
  <2> QED BY <2>1, <2>2, <2>3, <2>4, StopGroupStep
<1>2. CASE GroupMailDone(g) \/ GroupRunChild(g) \/ GroupYield(g)
  BY <1>2, QuietStep DEF GroupMailDone, GroupRunChild, GroupYield
<1>3. CASE GroupDelete(g)
  BY <1>3, QuietStep DEF GroupDelete
<1> QED BY <1>1, <1>2, <1>3 DEF GroupStep

(* Every step of the shard is a StopStep. *)
LEMMA AnyStopStep ==
  ASSUME StopInv, [Next]_vars
  PROVE  StopStep
<1> USE DEF tree, chain
<1>1. CASE Receive
  BY <1>1, ReceiveStep
<1>2. CASE UNCHANGED vars
  BY <1>2, QuietStep DEF vars
<1>3. CASE ReactorRun \/ StopSystemDone
  BY <1>3, QuietStep DEF ReactorRun, StopSystemDone
<1>4. ASSUME NEW c \in Node, StopNextChild(c) PROVE StopStep
  <2> DEFINE force == status[Root] = "FORCE_STOPPING"
  <2>1. force \in BOOLEAN /\ mailbox \in Boxes /\ fate \in FateSet
    BY DEF StopInv, TypeOK, Boxes, FateSet
  <2>2. /\ UNCHANGED <<alive, dest>>
        /\ \/ c \in Actor /\ StopActor(c, force, mailbox, fate)
           \/ c \in Group /\ StopGroup(c, force, mailbox, fate)
    BY <1>4 DEF StopNextChild
  <2> HIDE DEF force
  <2> QED BY <2>1, <2>2, StopActorStep, StopGroupStep
<1>5. ASSUME NEW m \in Msg, ResumeChain(m) PROVE StopStep
  BY <1>5, QuietStep DEF ResumeChain, StopInv, TypeOK
<1>6. ASSUME NEW m \in Msg, ReactorRunChain(m) PROVE StopStep
  <2>1. UNCHANGED <<inst, alive, status, mailbox>>
    BY <1>6 DEF ReactorRunChain
  <2>2. CASE Suspend(m, Root)
    BY <2>1, <2>2, SuspendStep
  <2>3. CASE HandBack(m)
    BY <2>1, <2>3, QuietStep DEF HandBack, StopInv, TypeOK
  <2> QED BY <1>6, <2>2, <2>3 DEF ReactorRunChain
<1> QED BY <1>1, <1>2, <1>3, <1>4, <1>5, <1>6, ActorStopStep, GroupStopStep DEF Next, Progress, ReactorStep

(* The invariant holds in every reachable state. *)
LEMMA StopInvariant == Spec => []StopInv
<1>1. Init => TypeOK
  BY InitType
<1>2. Init => StopInv
  <2> SUFFICES ASSUME Init PROVE StopInv
    OBVIOUS
  <2>1. \A n \in Node : Ids(mailbox[n]) = {}
    <3>1. \A n \in Node : mailbox[n] = <<>>
      BY DEF Init
    <3>2. Ids(<<>>) = {}
      BY DEF Ids
    <3> QED BY <3>1, <3>2
  <2>2. EnabledGroupRuns /\ OnlyForceDrops
    BY DEF Init, EnabledGroupRuns, OnlyForceDrops, Node
  <2> QED BY <1>1, <2>1, <2>2 DEF StopInv, MailDelivered
<1>3. StopInv /\ [Next]_vars /\ TypeOK' => StopInv'
  BY AnyStopStep, StopInvStep
<1> QED BY <1>2, <1>3, TypeCorrect, PTL DEF Spec

(* A message is thrown away only by a forced stop of the node it was sent  *)
(* to, whatever the tree and whatever is stopped elsewhere.                *)
THEOREM OnlyForceDropsHolds == Spec => []OnlyForceDrops
<1>1. StopInv => OnlyForceDrops
  BY DEF StopInv
<1> QED BY <1>1, StopInvariant, PTL

(* No step creates a node under a stopping parent, or one that was stopped *)
(* before.                                                                 *)
THEOREM NoBirthHolds == Spec => NoBirthUnderStopping
<1>1. StopInv /\ [Next]_vars =>
        [\A n \in Node : n \in alive' \ alive =>
            inst[n] = "absent" /\ status'[Parent[n]] = "RUNNING"]_vars
  BY AnyStopStep DEF StopStep, BirthIsAllowed
<1> QED BY <1>1, StopInvariant, PTL DEF Spec, NoBirthUnderStopping

=============================================================================
