------------------------------- MODULE Wireup --------------------------------
(***************************************************************************)
(* comm_remote_wireup() (comm/comm_remote.c:165-326): every pair of PEs on *)
(* different hosts gets two TCP connections, a command and a data one.     *)
(* The PEs go through levels of stride 2, 4, 8, ...; at each level a PE    *)
(* either accepts connections or makes them.  Before it starts, each PE    *)
(* has mapped the others (comm/comm_node.c) and opened its two servers,    *)
(* and has passed the first rte_barrier_all of shmem_init.                 *)
(*                                                                         *)
(* A server takes any connection that waits, also that of a PE that is a   *)
(* level ahead, and learns who it is from the handshake.                   *)
(***************************************************************************)
EXTENDS Integers, Sequences, FiniteSets, FiniteSetsExt

CONSTANTS
  N,           \* number of PEs
  Placements   \* the placements considered: the list of nodes, the host of each PE

PE     == 0 .. N - 1
NoPeer == -1

(* PMIx lists every host of the job once, under the name gethostname has   *)
(* for it.                                                                 *)
ASSUME WireupAssumption ==
  /\ N \in Nat \ {0}
  /\ \A place \in Placements :
       /\ DOMAIN place.nodes \subseteq Nat
       /\ DOMAIN place.host = PE
       /\ \A q \in PE : \E k \in DOMAIN place.nodes :
            /\ place.nodes[k] = place.host[q]
            /\ \A m \in DOMAIN place.nodes : place.nodes[m] = place.host[q] => m = k

VARIABLES
  local_pe,    \* local_pe[p]: PMIX_LOCAL_RANK of p, the number of its region
  map,         \* map[p][q]: type and index of PE q in the locality map of p
  pc,          \* pc[p]: where p is in comm_remote_wireup
  level,       \* level[p], complete[p]: its loop
  complete,
  todo,        \* PEs the loop of __comm_remote_wire_server or _client has ahead
  peer,        \* peer[p]: whose connection the server p has accepted
  listening,   \* listening[p]: p's two servers are open
  cmd_queue,   \* cmd_queue[p]: connections waiting at __server_cmd of p
  data_queue,  \* data_queue[p]: connections waiting at __server_data of p
  hello,       \* hello[p][q]: bytes under way on the connection from p to q
  cmd,         \* cmd[p][s]: whom slot s of __sockets_cmd leads to
  data         \* data[p][s]: whom slot s of __sockets_data leads to

serverVars == <<listening, cmd_queue, data_queue>>
vars == <<local_pe, map, pc, level, complete, todo, peer, serverVars, hello, cmd, data>>

(* The names of the nodes as PMIx resolves them, and the node's own name.  *)
rte_hosts(place)       == place.nodes
rte_hostname(place, p) == place.host[p]

(* The elements of a finite set of numbers in ascending order.  (The       *)
(* provers have no definition of SortSeq, so this is not SetToSortSeq.)    *)
Ascending(S) ==
  CHOOSE s \in [1 .. Cardinality(S) -> S] : \A m, n \in DOMAIN s : m < n => s[m] < s[n]

(* The ranks on a host, ascending, and how many of them are below p. *)
rte_local_peers(place, hostname) == Ascending({q \in PE : place.host[q] = hostname})

(* Variant: local ranks are counted from 1.                                *)
rte_my_local_pe_from1(place, p) ==
  Cardinality({q \in PE : place.host[q] = place.host[p] /\ q <= p})

rte_my_local_pe(place, p) ==
  Cardinality({q \in PE : place.host[q] = place.host[p] /\ q < p})

(* The PEs of each host of the job. *)
rte_remote_peers(place) ==
  LET hosts == rte_hosts(place)
  IN  [k \in DOMAIN hosts |-> rte_local_peers(place, hosts[k])]

(* The list PE q is in, and its place there: i and j of the loops of       *)
(* comm_node_map_locality when they come to q.                             *)
HostOf(pes, q)     == CHOOSE i \in DOMAIN pes : \E j \in DOMAIN pes[i] : pes[i][j] = q
PositionOf(pes, q) == CHOOSE j \in DOMAIN pes[HostOf(pes, q)] : pes[HostOf(pes, q)][j] = q

(* The loops come to PE r before they come to PE q.                        *)
VisitedBefore(pes, r, q) ==
  \/ HostOf(pes, r) < HostOf(pes, q)
  \/ HostOf(pes, r) = HostOf(pes, q) /\ PositionOf(pes, r) < PositionOf(pes, q)

(* Variant: the PEs of all hosts are numbered through.                     *)
comm_node_map_locality_through(hostname, hosts, pes) ==
  [q \in PE |-> [type  |-> IF hosts[HostOf(pes, q)] = hostname THEN "LOCAL" ELSE "REMOTE",
                 index |-> Cardinality({r \in PE : VisitedBefore(pes, r, q)})]]

(* comm_node_map_locality: a PE of the host called hostname gets its       *)
(* position in the host's list; the others get a number that is counted up *)
(* with each of them.                                                      *)
comm_node_map_locality(hostname, hosts, pes) ==
  LET RemotePE(q) == hosts[HostOf(pes, q)] # hostname
  IN  [q \in PE |->
         IF RemotePE(q)
         THEN [type |-> "REMOTE",
               index |-> Cardinality({r \in PE : RemotePE(r) /\ VisitedBefore(pes, r, q)})]
         ELSE [type |-> "LOCAL", index |-> PositionOf(pes, q) - 1]]

Remote(p, q) == map[p][q].type = "REMOTE"

Slots(p) == 0 .. Cardinality({q \in PE : Remote(p, q)}) - 1

TypeOK ==
  /\ local_pe   \in [PE -> PE]
  /\ map        \in [PE -> [PE -> [type : {"LOCAL", "REMOTE"}, index : PE]]]
  /\ pc         \in [PE -> {"level", "serve", "identify", "accept_data",
                            "client", "greeting", "connect_data", "done"}]
  /\ level      \in [PE -> Nat]
  /\ complete   \in [PE -> BOOLEAN]
  /\ todo       \in [PE -> SUBSET PE]
  /\ peer       \in [PE -> PE \cup {NoPeer}]
  /\ listening  \in [PE -> BOOLEAN]
  /\ cmd_queue  \in [PE -> Seq(PE)]
  /\ data_queue \in [PE -> Seq(PE)]
  /\ hello      \in [PE -> [PE -> {"none", "greeting", "pe"}]]
  /\ DOMAIN cmd = PE /\ DOMAIN data = PE
  /\ \A p \in PE : /\ cmd[p]  \in [Slots(p) -> PE \cup {NoPeer}]
                   /\ data[p] \in [Slots(p) -> PE \cup {NoPeer}]

(* Both servers of every PE listen, and nobody has connected. *)
comm_remote_open_servers ==
  /\ listening  = [p \in PE |-> TRUE]
  /\ cmd_queue  = [p \in PE |-> << >>]
  /\ data_queue = [p \in PE |-> << >>]

Init ==
  /\ \E place \in Placements :
       /\ local_pe = [p \in PE |-> rte_my_local_pe(place, p)]
       /\ map = [p \in PE |->
                   comm_node_map_locality(rte_hostname(place, p), rte_hosts(place),
                                          rte_remote_peers(place))]
  /\ pc         = [p \in PE |-> "level"]
  /\ level      = [p \in PE |-> 0]
  /\ complete   = [p \in PE |-> FALSE]
  /\ todo       = [p \in PE |-> {}]
  /\ peer       = [p \in PE |-> NoPeer]
  /\ comm_remote_open_servers
  /\ hello      = [p \in PE |-> [q \in PE |-> "none"]]
  /\ cmd        = [p \in PE |-> [s \in Slots(p) |-> NoPeer]]
  /\ data       = [p \in PE |-> [s \in Slots(p) |-> NoPeer]]

-----------------------------------------------------------------------------
(* comm_remote_wireup *)

(* Variant: floor(log2(n_pes)).                                            *)
Levels_floor == CHOOSE k \in 0 .. N : 2^k <= N /\ 2^(k + 1) > N

(* ceil(log2(n_pes)) *)
Levels == CHOOSE k \in 0 .. N : 2^k >= N /\ \A m \in 0 .. k - 1 : 2^m < N

(* A PE serves at a level if it is the first even or the first odd one of  *)
(* its group of stride PEs; odd PEs do not serve at level 0.               *)
Serves(p, l) == p % (2^(l + 1)) = 0 \/ (l > 0 /\ p % (2^(l + 1)) = 1)

(* The PEs from start on, stride apart, that the loops do not skip.        *)
Peers(p, start, stride) ==
  {q \in PE : q >= start /\ (q - start) % stride = 0 /\ Remote(p, q)}

EnterLevel(p) ==
  LET l      == level[p]
      stride == 2^(l + 1)
  IN  /\ pc[p] = "level" /\ l < Levels /\ ~complete[p]
      /\ IF Serves(p, l)
         THEN /\ pc'   = [pc EXCEPT ![p] = "serve"]
              /\ todo' = [todo EXCEPT ![p] = Peers(p, (p % 2) + 2^l, stride)]
              /\ UNCHANGED complete
         ELSE /\ pc'   = [pc EXCEPT ![p] = "client"]
              /\ todo' = [todo EXCEPT
                            ![p] = Peers(p, IF stride > 2 THEN p % 2 ELSE 0, stride)]
              /\ complete' = [complete EXCEPT ![p] = l > 0]
      /\ UNCHANGED <<local_pe, map, level, peer, serverVars, hello, cmd, data>>

(* Variant: the servers are closed after every level.                      *)
LeaveLevel_closes(p) ==
  /\ pc[p] \in {"serve", "client"} /\ todo[p] = {}
  /\ pc'        = [pc EXCEPT ![p] = "level"]
  /\ level'     = [level EXCEPT ![p] = @ + 1]
  /\ listening' = [listening EXCEPT ![p] = FALSE]
  /\ UNCHANGED <<local_pe, map, complete, todo, peer, cmd_queue, data_queue, hello, cmd, data>>

(* Variant: the level is not counted.                                      *)
LeaveLevel_again(p) ==
  /\ pc[p] \in {"serve", "client"} /\ todo[p] = {}
  /\ pc' = [pc EXCEPT ![p] = "level"]
  /\ UNCHANGED <<local_pe, map, level, complete, todo, peer, serverVars, hello, cmd, data>>

(* __comm_remote_wire_server or __comm_remote_wire_client returns. *)
LeaveLevel(p) ==
  /\ pc[p] \in {"serve", "client"} /\ todo[p] = {}
  /\ pc'    = [pc EXCEPT ![p] = "level"]
  /\ level' = [level EXCEPT ![p] = @ + 1]
  /\ UNCHANGED <<local_pe, map, complete, todo, peer, serverVars, hello, cmd, data>>

comm_remote_close_servers(p) == listening' = [listening EXCEPT ![p] = FALSE]

(* The servers are closed and the sockets become non-blocking. *)
Return(p) ==
  /\ pc[p] = "level" /\ (level[p] = Levels \/ complete[p])
  /\ pc' = [pc EXCEPT ![p] = "done"]
  /\ comm_remote_close_servers(p)
  /\ UNCHANGED <<local_pe, map, level, complete, todo, peer, cmd_queue, data_queue, hello,
                 cmd, data>>

-----------------------------------------------------------------------------
(* The connections waiting at the servers after p has connected to q, and  *)
(* after p has accepted one.                                               *)
network_connect(queue, p, q) == [queue EXCEPT ![q] = Append(@, p)]
network_accept_2(queue, p)   == [queue EXCEPT ![p] = Tail(@)]

(* __comm_remote_wire_client: the PEs of todo in turn *)

(* While the server is closed network_connect fails and is tried again.    *)
Connect(p) ==
  LET q == Min(todo[p])
  IN  /\ pc[p] = "client" /\ todo[p] # {}
      /\ listening[q]
      /\ cmd_queue' = network_connect(cmd_queue, p, q)
      /\ cmd'       = [cmd EXCEPT ![p][map[p][q].index] = q]
      /\ pc'        = [pc EXCEPT ![p] = "greeting"]
      /\ UNCHANGED <<local_pe, map, level, complete, todo, peer, listening, data_queue,
                     hello, data>>

(* Receive the byte, answer with the PE's number. *)
Greeting(p) ==
  LET q == Min(todo[p])
  IN  /\ pc[p] = "greeting" /\ hello[p][q] = "greeting"
      /\ hello' = [hello EXCEPT ![p][q] = "pe"]
      /\ pc'    = [pc EXCEPT ![p] = "connect_data"]
      /\ UNCHANGED <<local_pe, map, level, complete, todo, peer, serverVars, cmd, data>>

ConnectData(p) ==
  LET q == Min(todo[p])
  IN  /\ pc[p] = "connect_data"
      /\ data_queue' = network_connect(data_queue, p, q)
      /\ data'       = [data EXCEPT ![p][map[p][q].index] = q]
      /\ todo'       = [todo EXCEPT ![p] = @ \ {q}]
      /\ pc'         = [pc EXCEPT ![p] = "client"]
      /\ UNCHANGED <<local_pe, map, level, complete, peer, listening, cmd_queue, hello, cmd>>

-----------------------------------------------------------------------------
(* __comm_remote_wire_server: one connection for each PE of todo, from     *)
(* whomever it comes                                                       *)

Accept(p) ==
  /\ pc[p] = "serve" /\ todo[p] # {}
  /\ cmd_queue[p] # << >>
  /\ LET q == Head(cmd_queue[p])
     IN  /\ peer'  = [peer EXCEPT ![p] = q]
         /\ hello' = [hello EXCEPT ![q][p] = "greeting"]
  /\ cmd_queue' = network_accept_2(cmd_queue, p)
  /\ pc'        = [pc EXCEPT ![p] = "identify"]
  /\ UNCHANGED <<local_pe, map, level, complete, todo, listening, data_queue, cmd, data>>

Identify(p) ==
  LET q == peer[p]
  IN  /\ pc[p] = "identify" /\ hello[q][p] = "pe"
      /\ hello' = [hello EXCEPT ![q][p] = "none"]
      /\ cmd'   = [cmd EXCEPT ![p][map[p][q].index] = q]
      /\ pc'    = [pc EXCEPT ![p] = "accept_data"]
      /\ UNCHANGED <<local_pe, map, level, complete, todo, peer, serverVars, data>>

(* Variant: the data socket goes to the slot of the loop's own PE.         *)
AcceptData_loop(p) ==
  /\ pc[p] = "accept_data" /\ data_queue[p] # << >>
  /\ data'       = [data EXCEPT ![p][map[p][Min(todo[p])].index] = Head(data_queue[p])]
  /\ data_queue' = network_accept_2(data_queue, p)
  /\ todo'       = [todo EXCEPT ![p] = @ \ {Min(@)}]
  /\ peer'       = [peer EXCEPT ![p] = NoPeer]
  /\ pc'         = [pc EXCEPT ![p] = "serve"]
  /\ UNCHANGED <<local_pe, map, level, complete, listening, cmd_queue, hello, cmd>>

AcceptData(p) ==
  /\ pc[p] = "accept_data" /\ data_queue[p] # << >>
  /\ data'       = [data EXCEPT ![p][map[p][peer[p]].index] = Head(data_queue[p])]
  /\ data_queue' = network_accept_2(data_queue, p)
  /\ todo'       = [todo EXCEPT ![p] = @ \ {Min(@)}]
  /\ peer'       = [peer EXCEPT ![p] = NoPeer]
  /\ pc'         = [pc EXCEPT ![p] = "serve"]
  /\ UNCHANGED <<local_pe, map, level, complete, listening, cmd_queue, hello, cmd>>

-----------------------------------------------------------------------------
Step(p) ==
  \/ EnterLevel(p) \/ LeaveLevel(p) \/ Return(p)
  \/ Connect(p) \/ Greeting(p) \/ ConnectData(p)
  \/ Accept(p) \/ Identify(p) \/ AcceptData(p)

AllDone == \A p \in PE : pc[p] = "done"

(* All PEs wait in the second rte_barrier_all. *)
Finished == AllDone /\ UNCHANGED vars

Next == (\E p \in PE : Step(p)) \/ Finished

Spec == Init /\ [][Next]_vars

(* The main thread of every PE runs.                                       *)
FairSpec == Spec /\ \A p \in PE : WF_vars(Step(p))

-----------------------------------------------------------------------------
(* Properties *)

(* A slot of either socket table leads to the PE the locality map numbers  *)
(* with it (comm_remote.c:212-213, 257-259), although a server does not    *)
(* choose whose connections it accepts and the data connection carries no  *)
(* name: two PEs that connect at the same time are never mixed up.         *)
SocketsMatch ==
  \A p \in PE : \A s \in Slots(p) : \A table \in {cmd, data} :
    table[p][s] # NoPeer => Remote(p, table[p][s]) /\ map[p][table[p][s]].index = s

(* The position of a local PE in the host list, which comm_local_put uses  *)
(* (comm_local.c:126), is the number its region was created and mapped     *)
(* under (comm_local.c:40, 78), although one comes from                    *)
(* PMIx_Resolve_peers and the other from PMIX_LOCAL_RANK; and every remote *)
(* PE has a slot of its own.                                               *)
IndexesMatch ==
  \A p, q \in PE :
    /\ ~Remote(p, q) => map[p][q].index = local_pe[q]
    /\ Remote(p, q)  => /\ map[p][q].index \in Slots(p)
                        /\ \A r \in PE \ {q} : Remote(p, r) => map[p][r].index # map[p][q].index

(* Nobody closes its servers (comm_remote.c:316) while another PE has a    *)
(* connection to it ahead: the loop of comm_remote.c:219 would never end.  *)
NobodyRefused ==
  \A p \in PE : pc[p] \in {"client", "greeting", "connect_data"} =>
    \A q \in todo[p] : listening[q]

(* shmem.c:60 of comm_wireup: "Wire up all PE communication".  A PE that   *)
(* returns has a command and a data socket with every remote PE.           *)
AllWired ==
  \A p \in PE : pc[p] = "done" =>
    \A s \in Slots(p) : cmd[p][s] # NoPeer /\ data[p][s] # NoPeer

(* The accepts of the servers and the connects of the clients add up on    *)
(* every placement, and no circle of PEs waits for each other: wireup ends *)
(* on every PE.                                                            *)
WireupEnds == <>AllDone
=============================================================================
