---------------------------- MODULE NetworkStart ----------------------------
(***************************************************************************)
(* How the machines of a distributed actor system find each other:         *)
(* set_network_config() computes who connects to whom and from which       *)
(* shard, each machine listens, passes a barrier, connects to the machines *)
(* with smaller ids, accepts the ones with larger ids, reads their ids,    *)
(* and builds the routing table that maps a shard to a local proxy shard.  *)
(***************************************************************************)
EXTENDS Integers, Sequences, FiniteSets, SequencesExt

CONSTANTS
  M,        \* the number of machines
  Cores,    \* Cores[m]: nr_cores of machine m in the worker-node-list
  Addr,     \* Addr[m]: its IP address (equal in pseudo-distributed mode)
  P2P,      \* p2p_conn_count
  Settings  \* pairs of the possible values of synced and reject

Machine   == 0 .. M - 1
Shards(m) == 0 .. Cores[m] - 1

VARIABLES
  synced,   \* the coordinator has an implementation, which synchronises machines
  reject,   \* reject[m]: what is wrong with the options of m: "list", "timeout" or "none"
  phase,    \* phase[m]: how far start_network() is
  ntc,      \* ntc[m]: _ntc, the connections still to be accepted
  lsid,     \* lsid[m]: _addr_lsid_map
  backlog,  \* backlog[m]: connections that m has not accepted
  server,   \* server[m][s]: the server_side of shard s
  holder,   \* holder[m][s]: _holder
  client,   \* client[m][s]: how each connection of the server list went
  table,    \* table[m][s]: the connections of _conn_table, newest first
  written,  \* the connections that carry a machine id
  cells     \* cells[m]: the cells of the routing table

listen  == <<ntc, lsid, server, holder>>
connect == <<client, table, written>>
setting == <<synced, reject>>
vars    == <<setting, phase, listen, backlog, connect, cells>>

-----------------------------------------------------------------------------
(* set_network_config() *)

\* The next shard of machine m after n more connections.
Rotate(m, dst, n) == (dst + n) % Cores[m]

\* P2P entries for server t, dealt to the shards of m from shard dst on.
Deal(m, lists, dst, t) ==
  [s \in Shards(m) |-> lists[s] \o
     [k \in 1 .. Cardinality({i \in 0 .. P2P - 1 : Rotate(m, dst, i) = s}) |-> t]]

\* One turn of the loop over the node list.
ConfigureNode(m, acc, t) ==
  IF t = m THEN acc
  ELSE IF m < t
  THEN [acc EXCEPT !.wait = @ + P2P,
                   !.addr = IF @[Addr[t]] = -1 THEN [@ EXCEPT ![Addr[t]] = acc.dst] ELSE @,
                   !.dst = Rotate(m, @, P2P)]
  ELSE [acc EXCEPT !.anchor = @ + Cores[t],
                   !.lists = Deal(m, @, acc.dst, t),
                   !.dst = Rotate(m, @, P2P)]

set_network_config ==
  [m \in Machine |->
     FoldLeft(LAMBDA acc, t : ConfigureNode(m, acc, t),
              [wait |-> 0, anchor |-> 0, dst |-> 0, addr |-> [a \in Range(Addr) |-> -1],
               lists |-> [s \in Shards(m) |-> <<>>]],
              [i \in 1 .. M |-> i - 1])]

Config == set_network_config

-----------------------------------------------------------------------------
Init ==
  /\ \E c \in Settings : synced = c[1] /\ reject = c[2]
  /\ phase = [m \in Machine |-> "off"]
  /\ ntc = [m \in Machine |-> 0]
  /\ lsid = [m \in Machine |-> Config[m].addr]
  /\ backlog = [m \in Machine |-> <<>>]
  /\ server = [m \in Machine |-> [s \in Shards(m) |-> "none"]]
  /\ holder = [m \in Machine |-> [s \in Shards(m) |-> <<>>]]
  /\ client = [m \in Machine |-> [s \in Shards(m) |->
                 [i \in DOMAIN Config[m].lists[s] |-> "todo"]]]
  /\ table = [m \in Machine |-> [s \in Shards(m) |-> <<>>]]
  /\ written = {}
  /\ cells = [m \in Machine |-> [t \in Machine |-> <<>>]]

\* load_worker_node_list() throws: _num_shards is still 0, so exit() sends
\* no stop message and the process stays as it is.  The test of the timeout
\* throws after set_network_config(): exit() sends to every shard of the
\* system, but there is no routing table yet and not even the range of the
\* local shards is known, so that send() reads from a null pointer.
ConfigFails(m) ==
  /\ reject[m] # "none" /\ phase[m] = "off"
  /\ phase' = [phase EXCEPT ![m] = IF reject[m] = "list" THEN "stuck" ELSE "failed"]
  /\ UNCHANGED <<setting, listen, backlog, connect, cells>>

\* start_server(): a machine that waits for nobody does not accept.
start_server(m) ==
  /\ reject[m] = "none" /\ phase[m] = "off"
  /\ phase' = [phase EXCEPT ![m] = "listening"]
  /\ ntc' = [ntc EXCEPT ![m] = Config[m].wait]
  /\ server' = [server EXCEPT ![m] = [s \in Shards(m) |->
                  IF Config[m].wait = 0 THEN "collect" ELSE "accept"]]
  /\ UNCHANGED <<setting, lsid, holder, backlog, connect, cells>>

\* The machines in one of the phases; a global barrier that an implementation
\* synchronises waits for all, otherwise it is a sleep of one second.
\* The variant never waits.
NoBarrier(phases) == TRUE

BarrierOpen(phases) == synced => \A t \in Machine : phase[t] \in phases

ServerStarted(m) ==
  /\ phase[m] = "listening"
  /\ BarrierOpen({"listening", "connecting", "established", "running", "crashed"})
  /\ phase' = [phase EXCEPT ![m] = "connecting"]
  /\ UNCHANGED <<setting, listen, backlog, connect, cells>>

-----------------------------------------------------------------------------
(* clients_side::start() *)

\* connection_table::add() and find(): the map is a multimap, whose find()
\* returns the newest connection to the machine in the standard library used.
Add(tbl, c)    == <<c>> \o tbl
Find(m, tbl, t) == SelectSeq(tbl, LAMBDA c : c.peer = t)[1].conn

\* The connection is made, entered in the table, and told this machine's id.
\* The variant does not tell it.
NotTold(c) == {}

Told(c) == {c}

Listens(t) == phase[t] \notin {"off", "stuck", "failed", "crashed"}

Connect(m, s, i) ==
  LET t == Config[m].lists[s][i]
      c == [from |-> m, shard |-> s, nr |-> i, to |-> t]
  IN
  /\ phase[m] = "connecting" /\ client[m][s][i] = "todo"
  /\ Listens(t)
  /\ backlog' = [backlog EXCEPT ![t] = Append(@, c)]
  /\ table' = [table EXCEPT ![m][s] = Add(@, [peer |-> t, conn |-> c])]
  /\ written' = written \cup Told(Find(m, table'[m][s], t))
  /\ client' = [client EXCEPT ![m][s][i] = "done"]
  /\ UNCHANGED <<setting, phase, listen, cells>>

\* Nobody listens, yet or any more: the connection is refused.
ConnectRefused(m, s, i) ==
  /\ phase[m] = "connecting" /\ client[m][s][i] = "todo"
  /\ ~Listens(Config[m].lists[s][i])
  /\ client' = [client EXCEPT ![m][s][i] = "refused"]
  /\ UNCHANGED <<setting, phase, listen, backlog, table, written, cells>>

\* with_timeout(): the timeout passes before there is an answer.
ConnectTimeout(m, s, i) ==
  /\ phase[m] = "connecting" /\ client[m][s][i] = "todo"
  /\ client' = [client EXCEPT ![m][s][i] = "timeout"]
  /\ UNCHANGED <<setting, phase, listen, backlog, table, written, cells>>

\* It does not cancel the connect(): a connection that is made later is
\* closed at once, and never carries an id.
LateConnect(m, s, i) ==
  LET t == Config[m].lists[s][i] IN
  /\ client[m][s][i] = "timeout" /\ Listens(t)
  /\ client' = [client EXCEPT ![m][s][i] = "late"]
  /\ backlog' = [backlog EXCEPT ![t] = Append(@, [from |-> m, shard |-> s, nr |-> i, to |-> t])]
  /\ UNCHANGED <<setting, phase, listen, table, written, cells>>

-----------------------------------------------------------------------------
(* server_side::start() *)

\* get_client_target_shard(): the shard for a client, and the map after it.
TargetShard(m, a) == IF lsid[m][a] = -1 THEN 0 ELSE lsid[m][a]

NextTarget(m, a) ==
  IF lsid[m][a] = -1 THEN lsid[m] ELSE [lsid[m] EXCEPT ![a] = (@ + 1) % Cores[m]]

\* optional_listen(): the loop of shard 0 accepts for all shards; a loop
\* whose timeout has passed goes on accepting.
Accept(m) ==
  /\ backlog[m] # <<>> /\ ntc[m] > 0
  /\ LET c == Head(backlog[m])
         s == TargetShard(m, Addr[c.from])
     IN /\ holder' = [holder EXCEPT ![m][s] = Append(@, c)]
        /\ lsid' = [lsid EXCEPT ![m] = NextTarget(m, Addr[c.from])]
  /\ backlog' = [backlog EXCEPT ![m] = Tail(@)]
  /\ ntc' = [ntc EXCEPT ![m] = @ - 1]
  /\ UNCHANGED <<setting, phase, server, connect, cells>>

\* The last connection of the machine ends the loops of all its shards.  The
\* variant ends a loop after the first connection of the shard.
FirstAccepted(m, s) == ntc[m] < Config[m].wait

AllAccepted(m, s) == ntc[m] = 0

AbortAccept(m, s) ==
  /\ server[m][s] = "accept" /\ AllAccepted(m, s)
  /\ server' = [server EXCEPT ![m][s] = "collect"]
  /\ UNCHANGED <<setting, phase, ntc, lsid, holder, backlog, connect, cells>>

\* with_timeout(): the connections already held never reach the table.
ListenTimeout(m, s) ==
  /\ server[m][s] = "accept" /\ phase[m] = "connecting"
  /\ server' = [server EXCEPT ![m][s] = "timeout"]
  /\ UNCHANGED <<setting, phase, ntc, lsid, holder, backlog, connect, cells>>

collect_machine_ids(m, s) ==
  /\ server[m][s] = "collect" /\ Range(holder[m][s]) \subseteq written
  /\ table' = [table EXCEPT ![m][s] =
                 FoldLeft(LAMBDA tbl, c : Add(tbl, [peer |-> c.from, conn |-> c]), @, holder[m][s])]
  /\ holder' = [holder EXCEPT ![m][s] = <<>>]
  /\ server' = [server EXCEPT ![m][s] = "ready"]
  /\ UNCHANGED <<setting, phase, ntc, lsid, backlog, client, written, cells>>

\* read_exactly() at the end of a closed connection returns no buffer, and
\* the id is read from a null pointer.
ReadEmpty(m, s) ==
  /\ server[m][s] = "collect"
  /\ \E c \in Range(holder[m][s]) : client[c.from][c.shard][c.nr] = "late"
  /\ phase' = [phase EXCEPT ![m] = "crashed"]
  /\ UNCHANGED <<setting, listen, backlog, connect, cells>>

-----------------------------------------------------------------------------
(* network_io::establish_connections() and the routing table *)

\* managed_mach_ids() of a shard.
Managed(m, s) == {e.peer : e \in Range(table[m][s])}

\* routing_table::build(): the shards with a connection to t, in order.
build(m) ==
  [t \in Machine |-> SelectSeq([i \in 1 .. Cores[m] |-> i - 1], LAMBDA s : t \in Managed(m, s))]

\* when_all(...).discard_result(): every outcome ends the wait, also a
\* failed one.
Over(m) ==
  \A s \in Shards(m) :
    /\ server[m][s] \in {"ready", "timeout"}
    /\ \A i \in DOMAIN client[m][s] : client[m][s][i] # "todo"

establish_connections(m) ==
  /\ phase[m] = "connecting" /\ Over(m)
  /\ phase' = [phase EXCEPT ![m] = "established"]
  /\ cells' = [cells EXCEPT ![m] = build(m)]
  /\ UNCHANGED <<setting, listen, backlog, connect>>

\* The last barrier of start_and_connect(); then the application runs.
ConnectionEstablished(m) ==
  /\ phase[m] = "established"
  /\ BarrierOpen({"established", "running"})
  /\ phase' = [phase EXCEPT ![m] = "running"]
  /\ UNCHANGED <<setting, listen, backlog, connect, cells>>

\* _sid2mid: the machine of every shard of the system.
Sid2mid == FlattenSeq([j \in 1 .. M |-> [k \in 1 .. Cores[j - 1] |-> j - 1]])

\* get_destination(): the fixed proxy of a shard; the variant takes the shard
\* of the same number.
SameNumber(m, g) == [machine |-> Sid2mid[g + 1], sid |-> g % Cores[m]]

get_destination(m, g) ==
  LET t    == Sid2mid[g + 1]
      cell == cells[m][t]
  IN [machine |-> t, sid |-> cell[(g % Len(cell)) + 1]]

-----------------------------------------------------------------------------
StepOf(m) ==
  \/ ConfigFails(m) \/ start_server(m) \/ ServerStarted(m)
  \/ \E s \in Shards(m) :
       \/ \E i \in DOMAIN client[m][s] :
            \/ Connect(m, s, i) \/ ConnectRefused(m, s, i)
            \/ ConnectTimeout(m, s, i) \/ LateConnect(m, s, i)
       \/ AbortAccept(m, s) \/ ListenTimeout(m, s)
       \/ collect_machine_ids(m, s) \/ ReadEmpty(m, s)
  \/ Accept(m) \/ establish_connections(m) \/ ConnectionEstablished(m)

Step(m) == phase[m] # "crashed" /\ StepOf(m)

Next == \E m \in Machine : Step(m)

Spec == Init /\ [][Next]_vars

\* Every step that is possible is taken: connects and barriers return, and a
\* timeout fires where nothing comes first.
FairSpec == Spec /\ \A m \in Machine : WF_vars(Step(m))

-----------------------------------------------------------------------------
(* Properties. *)

\* Type correctness of the phases, counters, lists and shard numbers.
TypeOK ==
  /\ phase \in [Machine -> {"off", "stuck", "failed", "listening", "connecting", "established",
                         "running", "crashed"}]
  /\ \A m \in Machine : ntc[m] \in 0 .. Config[m].wait
  /\ \A m \in Machine : Range(lsid[m]) \subseteq -1 .. Cores[m] - 1
  /\ \A m \in Machine : \A s \in Shards(m) :
       /\ server[m][s] \in {"none", "accept", "collect", "ready", "timeout"}
       /\ \A i \in DOMAIN client[m][s] : client[m][s][i] \in {"todo", "done", "refused", "timeout", "late"}

\* A connection of machine m, on either side, has failed or timed out.
Missed(m) ==
  \E s \in Shards(m) : server[m][s] = "timeout" \/ Range(client[m][s]) \cap {"refused", "timeout", "late"} # {}

Remote(m) == {g \in 0 .. Len(Sid2mid) - 1 : Sid2mid[g + 1] # m}

\* A machine that runs and has missed no connection reaches every shard of
\* the others: the proxy of the routing table has a connection to the
\* machine that owns the shard.
RoutesReach ==
  \A m \in Machine : phase[m] = "running" /\ ~Missed(m) =>
    \A g \in Remote(m) :
      LET d == get_destination(m, g) IN d.machine \in Managed(m, d.sid)

\* Two running machines that have missed no connection have the same P2P
\* connections to each other in their tables.
ConnectionsMirror ==
  \A m, t \in Machine :
    m # t /\ {phase[m], phase[t]} = {"running"} /\ ~Missed(m) /\ ~Missed(t) =>
      LET Conns(a, b) == {e.conn : e \in {e \in UNION {Range(table[a][s]) : s \in Shards(a)} : e.peer = b}}
      IN Conns(m, t) = Conns(t, m) /\ Cardinality(Conns(m, t)) = P2P

\* With distinct addresses the connections are dealt evenly: those of two
\* shards of a running machine differ by at most one.
Balanced ==
  \A m \in Machine : phase[m] = "running" /\ ~Missed(m) /\ IsInjective(Addr) =>
    \A s, r \in Shards(m) : Len(table[m][s]) <= Len(table[m][r]) + 1

\* The connection tables of the machines that run: mirrored and balanced.
TablesSound == TypeOK /\ ConnectionsMirror /\ Balanced

\* A coordinator that synchronises the machines keeps every client from
\* connecting to a machine that does not listen yet: only one that has
\* crashed since refuses a connection.
BarrierPreventsRefusal ==
  synced => \A m \in Machine : \A s \in Shards(m) : \A i \in DOMAIN client[m][s] :
              client[m][s][i] = "refused" => phase[Config[m].lists[s][i]] = "crashed"

\* Every machine gets to run the application, unless the options of one are
\* rejected or one misses a connection.  (One that does is meant to exit.)
AllStart ==
  (\A m \in Machine : reject[m] = "none") =>
    <>((\E m \in Machine : Missed(m)) \/ \A m \in Machine : phase[m] = "running")

\* The application runs only on a machine with all its connections: run()
\* reports a timed_out_error as "Actor system failed with network connection
\* exception" and exits.
RunningIsConnected == \A m \in Machine : phase[m] = "running" => ~Missed(m)

=============================================================================
