---------------------------- MODULE ActorCodegen ----------------------------
(***************************************************************************)
(* The code generator and what the program does with the generated code.   *)
(* A pool of threads works through the headers of actor groups, then those *)
(* of actors: each class gets a type id from a shared counter, and a file  *)
(* is generated.  The program registers its classes by type id, creates an *)
(* actor by the id in an address, and its do_work() picks the method by    *)
(* the type id and the number in the message.                              *)
(***************************************************************************)
EXTENDS Integers, Sequences, FiniteSets, SequencesExt, FiniteSetsExt

CONSTANTS
  GenThread,     \* threads of the ThreadPool
  ActorFile,     \* the .act.h headers
  GroupFile,     \* the .actg.h headers
  Classes,       \* Classes[f]: the annotated classes of a header, in order
  Base,          \* Base[c]: the class that the actor class c derives from
  Template,      \* hiactor::actor, or a class template of groups
  Methods,       \* Methods[c]: its annotated methods, sorted by name
  Pure,          \* Pure[c]: those that are pure virtual
  Dir,           \* Dir[f]: the directory of a header, a sequence of names
  FirstGroupTid, \* 0xF002
  NoClass        \* an empty entry of the directory

ASSUME CodegenAssumption ==
  /\ ActorFile \cap GroupFile = {} /\ ActorFile \cup GroupFile # {} /\ FirstGroupTid \in Nat
  /\ \A f \in ActorFile \cup GroupFile : Classes[f] \in Seq(Range(Classes[f]))
  /\ \A f, g \in ActorFile \cup GroupFile :
       \A i \in DOMAIN Classes[f], j \in DOMAIN Classes[g] :
         Classes[f][i] = Classes[g][j] => f = g /\ i = j

File       == ActorFile \cup GroupFile
ActorClass == UNION {Range(Classes[f]) : f \in ActorFile}
GroupClass == UNION {Range(Classes[f]) : f \in GroupFile}
Class      == ActorClass \cup GroupClass

VARIABLES
  bad,       \* headers with a diagnostic, and classes that break a rule
  genPhase,  \* what the main program does
  todo,      \* headers that no thread has taken
  gpc,       \* gpc[t]: where thread t is
  header,    \* header[t]: the header it works on
  left,      \* left[t]: the classes of that header not yet visited
  seen,      \* seen[t]: the value of the counter it has read
  mutex,     \* the threads that hold the mutex of the phase's counter
  actTid,    \* global_act_tid
  actgTid,   \* global_actg_tid
  tid,       \* tid[c]: the type id of a class, -1 before it has one
  dirs,      \* directories below "generated"
  written,   \* headers whose code has been generated
  raised,    \* headers whose work has ended with an exception
  directory, \* actor_factory::_actor_directory
  registered \* classes whose actor_registration has run

visit      == <<header, left>>
counters   == <<mutex, actTid, actgTid>>
factory    == <<directory, registered>>
codegenVars == <<bad, genPhase, todo, gpc, visit, seen, counters, tid, dirs, written, raised, factory>>

CodegenInit ==
  /\ bad \in {{}} \cup {{x} : x \in File \cup Class}
  /\ genPhase = "groups" /\ todo = GroupFile
  /\ gpc = [t \in GenThread |-> "idle"]
  /\ header = [t \in GenThread |-> CHOOSE f \in File : TRUE] /\ left = [t \in GenThread |-> <<>>]
  /\ seen = [t \in GenThread |-> 0] /\ mutex = {}
  /\ actTid = 0 /\ actgTid = FirstGroupTid /\ tid = [c \in Class |-> -1]
  /\ dirs = {<<>>} /\ written = {} /\ raised = {}
  /\ directory = <<>> /\ registered = {}

-----------------------------------------------------------------------------
(* process_one_actor(), process_one_actor_group() *)

\* An exception ends the work on a header and reaches map() of the pool.
Raise(t, f) == raised' = raised \cup {f} /\ gpc' = [gpc EXCEPT ![t] = "idle"]

\* Any diagnostic is an error, a warning too.
HasDiagnostics(f) == f \in bad

TakeHeader(t, f) ==
  /\ gpc[t] = "idle" /\ todo' = todo \ {f}
  /\ header' = [header EXCEPT ![t] = f] /\ left' = [left EXCEPT ![t] = Classes[f]]
  /\ IF HasDiagnostics(f) THEN Raise(t, f) ELSE gpc' = [gpc EXCEPT ![t] = "visit"] /\ UNCHANGED raised
  /\ UNCHANGED <<bad, genPhase, seen, counters, tid, dirs, written, factory>>

\* The mutex of the counter; the variant does without.
NotLocked == TRUE

Unlocked == mutex = {}

\* A group must derive from one of the templates, directly or not.  Groups
\* are checked before they get a type id.
NotDerived(c) == c \in bad

AcquireMutex(t) ==
  /\ gpc[t] = "visit" /\ left[t] # <<>>
  /\ IF genPhase = "groups" /\ NotDerived(Head(left[t]))
     THEN Raise(t, header[t]) /\ UNCHANGED mutex
     ELSE /\ Unlocked /\ mutex' = mutex \cup {t}
          /\ gpc' = [gpc EXCEPT ![t] = "read"] /\ UNCHANGED raised
  /\ UNCHANGED <<bad, genPhase, todo, visit, seen, actTid, actgTid, tid, dirs, written, factory>>

ReadTid(t) ==
  /\ gpc[t] = "read"
  /\ seen' = [seen EXCEPT ![t] = IF genPhase = "groups" THEN actgTid ELSE actTid]
  /\ gpc' = [gpc EXCEPT ![t] = "increment"]
  /\ UNCHANGED <<bad, genPhase, todo, visit, counters, tid, dirs, written, raised, factory>>

\* The methods of an actor must be public, return void or a future and have
\* at most one argument, an rvalue reference, and it has one base.  Actors
\* are checked after they have got a type id.
Invalid(c) == c \in bad

AssignTid(t) ==
  /\ gpc[t] = "increment" /\ mutex' = mutex \ {t}
  /\ IF genPhase = "groups"
     THEN actgTid' = actgTid + 1 /\ UNCHANGED actTid
     ELSE actTid' = actTid + 1 /\ UNCHANGED actgTid
  /\ IF genPhase = "actors" /\ Invalid(Head(left[t]))
     THEN Raise(t, header[t]) /\ UNCHANGED <<visit, tid>>
     ELSE /\ tid' = [tid EXCEPT ![Head(left[t])] = seen[t]]
          /\ left' = [left EXCEPT ![t] = Tail(@)]
          /\ gpc' = [gpc EXCEPT ![t] = "visit"] /\ UNCHANGED <<raised, header>>
  /\ UNCHANGED <<bad, genPhase, todo, seen, dirs, written, factory>>

\* What follows the test for the output directory; the variant does not test.
AlwaysMake(t) == "mkdir"

MakeIfMissing(t) == IF Dir[header[t]] \in dirs THEN "write" ELSE "mkdir"

TestDir(t) ==
  /\ gpc[t] = "visit" /\ left[t] = <<>>
  /\ gpc' = [gpc EXCEPT ![t] = MakeIfMissing(t)]
  /\ UNCHANGED <<bad, genPhase, todo, visit, seen, counters, tid, dirs, written, raised, factory>>

\* mkdir() fails if the directory has appeared, or its parent is missing.
CanMake(d) == d \notin dirs /\ d # <<>> /\ Front(d) \in dirs

MakeDir(t) ==
  /\ gpc[t] = "mkdir"
  /\ IF CanMake(Dir[header[t]])
     THEN /\ dirs' = dirs \cup {Dir[header[t]]}
          /\ gpc' = [gpc EXCEPT ![t] = "write"] /\ UNCHANGED raised
     ELSE Raise(t, header[t]) /\ UNCHANGED dirs
  /\ UNCHANGED <<bad, genPhase, todo, visit, seen, counters, tid, written, factory>>

WriteCode(t) ==
  /\ gpc[t] = "write"
  /\ written' = written \cup {header[t]} /\ gpc' = [gpc EXCEPT ![t] = "idle"]
  /\ UNCHANGED <<bad, genPhase, todo, visit, seen, counters, tid, dirs, raised, factory>>

\* map() and join() return when all headers are done, map() with the
\* exception of one that failed.
PhaseEnds ==
  /\ genPhase \in {"groups", "actors"} /\ todo = {} /\ \A t \in GenThread : gpc[t] = "idle"
  /\ IF raised # {}
     THEN genPhase' = "failed" /\ UNCHANGED todo
     ELSE /\ genPhase' = IF genPhase = "groups" THEN "actors" ELSE "program"
          /\ todo' = IF genPhase = "groups" THEN ActorFile ELSE {}
  /\ UNCHANGED <<bad, gpc, visit, seen, counters, tid, dirs, written, raised, factory>>

-----------------------------------------------------------------------------
(* The program that is built from the generated code. *)

\* An abstract actor class is not registered.
Concrete == {c \in Class : c \in ActorClass => Pure[c] = {}}

\* The static registrations run in any order before main().
register_actor(c) ==
  /\ genPhase = "program" /\ c \notin registered
  /\ registered' = registered \cup {c}
  /\ directory' = [i \in 0 .. Max(DOMAIN directory \cup {tid[c]}) |->
                     IF i = tid[c] THEN c
                     ELSE IF i \in DOMAIN directory THEN directory[i] ELSE NoClass]
  /\ UNCHANGED <<bad, genPhase, todo, gpc, visit, seen, counters, tid, dirs, written, raised>>

create(type) == directory[type]

\* The nearest class from c up that has the method m: the reference classes
\* derive from each other as the actor classes do.
Declarer(o, m) ==
  LET up[c \in ActorClass] ==
        IF m \in Range(Methods[c]) THEN c ELSE IF Base[c] = Template THEN NoClass ELSE up[Base[c]]
  IN up[o]

\* The enum of a class numbers its methods.
MethodNumber(c, m) == CHOOSE i \in DOMAIN Methods[c] : Methods[c][i] = m

\* The message that a call of m through a reference to an o sends.
RefCall(o, m) ==
  LET c == Declarer(o, m) IN [type |-> tid[o], method |-> tid[c], behavior |-> MethodNumber(c, m)]

\* The test of do_work(), in every class the same: is the method one of the
\* actor's own class?  The variant asks whether the actor is of its class.
OwnActor(o, msg) == msg.type = tid[o]

OwnMethod(o, msg) == msg.method = tid[o]

\* do_work() of actor o: the method that runs, <<>> if there is none.
do_work(o, msg) ==
  LET work[c \in ActorClass] ==
        IF Base[c] # Template /\ ~OwnMethod(o, msg) THEN work[Base[c]]
        ELSE IF msg.behavior \in DOMAIN Methods[c] /\ Methods[c][msg.behavior] \notin Pure[c]
        THEN <<c, Methods[c][msg.behavior]>>
        ELSE <<>>
  IN work[o]

-----------------------------------------------------------------------------
GenStep(t) ==
  \/ \E f \in todo : TakeHeader(t, f)
  \/ AcquireMutex(t) \/ ReadTid(t) \/ AssignTid(t)
  \/ TestDir(t) \/ MakeDir(t) \/ WriteCode(t)

CodegenNext ==
  \/ \E t \in GenThread : GenStep(t)
  \/ PhaseEnds
  \/ \E c \in Concrete : register_actor(c)

CodegenSpec == CodegenInit /\ [][CodegenNext]_codegenVars

-----------------------------------------------------------------------------
(* Properties. *)

\* Type correctness of the generator's threads, counters and files.
CodegenTypeOK ==
  /\ genPhase \in {"groups", "actors", "program", "failed"} /\ raised \subseteq File
  /\ todo \subseteq File /\ written \subseteq File /\ mutex \subseteq GenThread
  /\ gpc \in [GenThread -> {"idle", "visit", "read", "increment", "mkdir", "write"}]
  /\ header \in [GenThread -> File] /\ left \in [GenThread -> Seq(Class)]
  /\ seen \in [GenThread -> Nat] /\ actTid \in Nat /\ actgTid \in Nat
  /\ tid \in [Class -> Nat \cup {-1}] /\ registered \subseteq Class

\* Classes never share a type id, in whatever order the threads of the
\* generator meet them, as long as the ids of actors stay below the groups'.
UniqueTids ==
  actTid <= FirstGroupTid =>
    \A c, d \in Class : tid[c] # -1 /\ tid[c] = tid[d] => c = d

\* The program creates an actor of the class that a reference names.
CreatesItsClass ==
  actTid <= FirstGroupTid => \A c \in registered : create(tid[c]) = c

\* From the counters that the generator's threads share to the directory of
\* the running program, a type id stands for one class.
TypeIdsSound == CodegenTypeOK /\ UniqueTids /\ CreatesItsClass

\* "Calling the actor method from an actor reference will trigger the true
\* actor behaviours": the message reaches the method that was called.
MethodReached ==
  registered = Concrete =>
    \A o \in Concrete \cap ActorClass : \A d \in ActorClass : \A m \in Range(Methods[d]) :
      Declarer(o, m) # NoClass =>
        LET msg == RefCall(o, m) IN do_work(create(msg.type), msg) = <<Declarer(o, m), m>>

\* What may end the work on header f: it or one of its classes is rejected;
\* a header of the same kind makes the same directory; the directory is to
\* be made in one that is missing.
Rejected(f) == f \in bad \/ Range(Classes[f]) \cap bad # {}

Kin(f) == IF f \in GroupFile THEN GroupFile ELSE ActorFile

\* Directory d exists before the phase of f.
MadeBefore(f, d) == d = <<>> \/ (f \in ActorFile /\ \E g \in GroupFile : Dir[g] = d)

Contended(f) == ~MadeBefore(f, Dir[f]) /\ \E g \in Kin(f) \ {f} : Dir[g] = Dir[f]

Orphan(f) == ~MadeBefore(f, Dir[f]) /\ ~MadeBefore(f, Front(Dir[f]))

\* The generator fails on a header without fault only if two threads race for
\* a directory between the test and mkdir(), or mkdir() lacks the parent.  A
\* race has a winner: another header of the directory gets its code.
FailsForCause ==
  \A f \in raised : ~Rejected(f) /\ ~Orphan(f) =>
    Contended(f) /\ \E g \in Kin(f) \ raised : Dir[g] = Dir[f] /\ Dir[f] \in dirs

=============================================================================
