------------------------------ MODULE Lifecycle -------------------------------
(***************************************************************************)
(* A job from shmem_init to rte_finalize: the calls of shmem_init bring up *)
(* what the threads of module Comm use, the calls of shmem_finalize take   *)
(* it down, and PEs do both at their own speed.                            *)
(*                                                                         *)
(* A PE makes the calls of shmem_init one by one, then those of its        *)
(* program.  The two threads exist once comm_remote_start and work_start   *)
(* have been called; from then on they take the steps of Comm.  alive[p]   *)
(* is what p has initialised and not yet released; a step that touches     *)
(* anything else is recorded in misuse.                                    *)
(*                                                                         *)
(* The processes of one host share memory objects with fixed names, and    *)
(* nobody unlinks them (memory/shared_mem.c): a job may find the objects   *)
(* of an earlier one, with their contents.                                 *)
(***************************************************************************)
EXTENDS Comm

CONSTANT
  ShmFails    \* may shm_open and mmap fail?

ASSUME LifecycleAssumption == ShmFails \in BOOLEAN

VARIABLES
  booted,     \* booted[p]: calls of shmem_init that p has returned from
  objects,    \* PEs whose shared memory object has its full size
  region,     \* region[p]: PEs whose memory p has mapped (__shared_memory of p)
  fence_in,   \* fence_in[p], fence_out[p]: PMIx_Fence calls and returns of p
  fence_out,
  entered,    \* PEs that have called comm_remote_wireup
  alive,      \* alive[p]: what p has initialised and not released
  misuse      \* history: misuse[p], what p touched that was not alive, "shm"
              \*   if shm_open or mmap has failed

shmVars   == <<objects, region>>
fenceVars == <<fence_in, fence_out>>
lifeVars  == <<vars, booted, shmVars, fenceVars, entered, alive, misuse>>

Resources == {"node_region", "locality_map", "symmetric_heap", "servers",
              "comm_lock", "work_lock"}

(* Besides these: memory that is not mapped, the PE's own region when it   *)
(* is unmapped a second time, and failed calls.                            *)
Misuses == Resources \cup {"region", "own_region", "shm"}

(* PMIx_Fence promises what shmem_barrier_all promises. *)
Fence == INSTANCE BarrierSpec WITH arrived <- fence_in, left <- fence_out, MaxRounds <- 2

(* shmem_init, call by call.  rte_init only learns the numbers of PEs,     *)
(* constants here.                                                         *)
comm_init   == << "comm_node_init", "comm_local_init", "comm_remote_init" >>
comm_start  == << "comm_remote_start", "work_start" >>
comm_wireup == << "comm_local_wireup", "comm_remote_wireup", "create_pSync" >> \o comm_start

(* Variant: a PE goes on as soon as its own wireup is over.                *)
shmem_init_unfenced ==
  comm_init \o << "map_locality", "rte_barrier_all" >> \o comm_wireup

shmem_init ==
  comm_init \o << "map_locality", "rte_barrier_all" >> \o comm_wireup \o << "rte_barrier_all" >>

(* p has returned from shmem_init. *)
Booted(p) == booted[p] = Len(shmem_init)

(* p has not returned from the call op of shmem_init. *)
Ahead(p, op) == \E n \in DOMAIN shmem_init : n > booted[p] /\ shmem_init[n] = op

LifeTypeOK ==
  /\ booted    \in [PE -> 0 .. Len(shmem_init)]
  /\ objects   \subseteq PE
  /\ region    \in [PE -> SUBSET PE]
  /\ fence_in  \in [PE -> 0 .. 2]
  /\ fence_out \in [PE -> 0 .. 2]
  /\ entered   \subseteq PE
  /\ alive     \in [PE -> SUBSET Resources]
  /\ misuse    \in [PE -> SUBSET Misuses]

(* The objects of an earlier job are there, or none are. *)
LifeInit ==
  /\ \E j \in Jobs : host = j.host /\ prog = j.prog
  /\ booted    = [p \in PE |-> 0]
  /\ \E old \in BOOLEAN :
       /\ objects = IF old THEN PE ELSE {}
       /\ mem     = [p \in PE |-> [a \in Addr |-> IF old THEN Garbage ELSE 0]]
  /\ Idle
  /\ region    = [p \in PE |-> {}]
  /\ Fence!Init
  /\ entered   = {}
  /\ alive     = [p \in PE |-> {}]
  /\ misuse    = [p \in PE |-> {}]

-----------------------------------------------------------------------------
(* shmem_init *)

(* op is the call of shmem_init the main thread of p has come to. *)
BootCalls(p, op) == ~Booted(p) /\ shmem_init[booted[p] + 1] = op

(* The main thread of p returns from call op of shmem_init. *)
Boot(p, op) ==
  /\ BootCalls(p, op)
  /\ booted' = [booted EXCEPT ![p] = @ + 1]
  /\ UNCHANGED <<host, prog, pc, i, arrived, left, wire, threads, logs>>

Gains(p, resources)  == alive' = [alive EXCEPT ![p] = @ \cup resources]
Records(p, troubles) == misuse' = [misuse EXCEPT ![p] = @ \cup troubles]

comm_node_init(p) ==
  /\ Boot(p, "comm_node_init")
  /\ Gains(p, {"node_region"})
  /\ UNCHANGED <<mem, queue_send, work_queue, finished, shmVars, fenceVars, entered, misuse>>

ShmResults == {"mapped"} \cup (IF ShmFails THEN {"shm_open", "mmap"} ELSE {})

(* shared_mem_create with result r: the object gets its size, and is       *)
(* mapped and cleared. A failing mmap is not noticed (shared_mem_map       *)
(* compares the wrong pointer), and the process dies of the clearing. A    *)
(* failing shm_open leaves a null heap: the process goes on until          *)
(* comm_local_wireup follows it.                                           *)
shared_mem_create(p, r) ==
  /\ objects' = IF r = "shm_open" THEN objects ELSE objects \cup {p}
  /\ IF r = "mapped"
     THEN /\ region' = [region EXCEPT ![p] = @ \cup {p}]
          /\ mem'    = [mem EXCEPT ![p] = [a \in Addr |-> 0]]
          /\ Gains(p, {"symmetric_heap"})
          /\ UNCHANGED misuse
     ELSE /\ Records(p, IF r = "mmap" THEN {"shm", "region"} ELSE {"shm"})
          /\ UNCHANGED <<region, mem, alive>>

comm_local_init(p) ==
  /\ Boot(p, "comm_local_init")
  /\ \E r \in ShmResults : shared_mem_create(p, r)
  /\ UNCHANGED <<queue_send, work_queue, finished, fenceVars, entered>>

(* The two servers are opened. *)
comm_remote_init(p) ==
  /\ Boot(p, "comm_remote_init")
  /\ Gains(p, {"servers"})
  /\ UNCHANGED <<mem, queue_send, work_queue, finished, shmVars, fenceVars, entered, misuse>>

map_locality(p) ==
  /\ Boot(p, "map_locality")
  /\ Gains(p, {"locality_map"})
  /\ UNCHANGED <<mem, queue_send, work_queue, finished, shmVars, fenceVars, entered, misuse>>

FenceEnter(p) ==
  /\ BootCalls(p, "rte_barrier_all")
  /\ Fence!Arrive(p)
  /\ UNCHANGED <<vars, booted, shmVars, entered, alive, misuse>>

FenceLeave(p) ==
  /\ Boot(p, "rte_barrier_all")
  /\ Fence!Leave(p)
  /\ UNCHANGED <<mem, queue_send, work_queue, finished, shmVars, entered, alive, misuse>>

(* The regions shared_mem_open maps when q is opened with result r[q].  It *)
(* creates what is missing but gives it no size.                           *)
shared_mem_open(r) == {q \in DOMAIN r : r[q] = "mapped"}

(* Variant: the loop also opens the region behind the last one.            *)
comm_local_wireup_beyond(p) ==
  /\ Boot(p, "comm_local_wireup")
  /\ \E r \in [{q \in PE : q # p /\ Local(p, q)} -> ShmResults] :
       region' = [region EXCEPT ![p] = @ \cup shared_mem_open(r) \cup {N}]
  /\ UNCHANGED <<mem, queue_send, work_queue, finished, objects, fenceVars, entered, alive, misuse>>

(* A null heap ends the process. The loop stops when shared_mem_open       *)
(* returns 0, which it does not: its results are descriptors above those   *)
(* of the standard streams, and -1.                                        *)
comm_local_wireup(p) ==
  /\ Boot(p, "comm_local_wireup")
  /\ IF "symmetric_heap" \in alive[p]
     THEN \E r \in [{q \in PE : q # p /\ Local(p, q)} -> ShmResults] :
            /\ region' = [region EXCEPT ![p] = @ \cup shared_mem_open(r)]
            /\ Records(p, IF shared_mem_open(r) = DOMAIN r THEN {} ELSE {"shm"})
     ELSE Records(p, {"region"}) /\ UNCHANGED region
  /\ UNCHANGED <<mem, queue_send, work_queue, finished, objects, fenceVars, entered, alive>>

(* comm_remote_wireup returns when the remote PEs p connects with have     *)
(* taken part; module Wireup is about what happens in between.             *)
WireupEnter(p) ==
  /\ BootCalls(p, "comm_remote_wireup") /\ p \notin entered
  /\ entered' = entered \cup {p}
  /\ UNCHANGED <<vars, booted, shmVars, fenceVars, alive, misuse>>

WireupLeave(p) ==
  /\ p \in entered /\ {q \in Remotes(p) : Meets(p, q)} \subseteq entered
  /\ Boot(p, "comm_remote_wireup")
  /\ alive' = [alive EXCEPT ![p] = @ \ {"servers"}]
  /\ UNCHANGED <<mem, queue_send, work_queue, finished, shmVars, fenceVars, entered, misuse>>

(* comm_wireup allocates __pSync, the first block, and clears it. *)
create_pSync(p) ==
  /\ Boot(p, "create_pSync")
  /\ mem' = [mem EXCEPT ![p] = [a \in Addr |-> IF a \in PE THEN 0 ELSE @[a]]]
  /\ UNCHANGED <<queue_send, work_queue, finished, shmVars, fenceVars, entered, alive, misuse>>

comm_remote_start(p) ==
  /\ Boot(p, "comm_remote_start")
  /\ queue_send' = [queue_send EXCEPT ![p] = << >>]
  /\ finished'   = [finished EXCEPT ![p] = @ \ {"comm"}]
  /\ Gains(p, {"comm_lock"})
  /\ UNCHANGED <<mem, work_queue, shmVars, fenceVars, entered, misuse>>

work_start(p) ==
  /\ Boot(p, "work_start")
  /\ work_queue' = [work_queue EXCEPT ![p] = << >>]
  /\ finished'   = [finished EXCEPT ![p] = @ \ {"work"}]
  /\ Gains(p, {"work_lock"})
  /\ UNCHANGED <<mem, queue_send, shmVars, fenceVars, entered, misuse>>

Initialise(p) ==
  \/ comm_node_init(p) \/ comm_local_init(p) \/ comm_remote_init(p)
  \/ map_locality(p) \/ FenceEnter(p) \/ FenceLeave(p)
  \/ comm_local_wireup(p) \/ WireupEnter(p) \/ WireupLeave(p)
  \/ create_pSync(p) \/ comm_remote_start(p) \/ work_start(p)

-----------------------------------------------------------------------------
(* The steps of Comm, and what they touch and release *)

(* shared_mem_close of every region, the PE's own among them;              *)
(* shared_heap_close unmaps that one again and frees the heap.             *)
shared_mem_close(p) == region' = [region EXCEPT ![p] = {}]
shared_heap_close   == {"symmetric_heap"}

(* What the calls of shmem_finalize release when they return. *)
WorkFinalized   == {"work_lock"}
RemoteFinalized == {"comm_lock"}
LocalFinalized  == shared_heap_close
NodeFinalized   == {"node_region", "locality_map"}

Frees == [work_finalize       |-> WorkFinalized,  comm_remote_finalize |-> RemoteFinalized,
          comm_local_finalize |-> LocalFinalized, comm_node_finalize   |-> NodeFinalized]

(* The step is the return of p from op. *)
Ends(p, op) == prog'[p] # prog[p] /\ Head(prog[p]).op = op

(* The PEs whose memory a step of p writes for a put or reads for a get.   *)
Accessed(p) ==
  {q \in PE : \/ \E s \in PE : landed'[s][q] # landed[s][q]
              \/ Ends(p, "get") /\ Head(prog[p]).pe = q /\ Local(p, q)}

(* Every comm_put and comm_get, those of packet jobs included, and the     *)
(* sending of a packet look up the locality map.                           *)
NeedsMap(p) ==
  \/ issued'[p] # issued[p] \/ Accessed(p) # {} \/ Ends(p, "get")
  \/ queue_send'[p] # queue_send[p]

(* The data go through a region that must be mapped and have its full      *)
(* size; comm_local_finalize unmaps whatever stands in the table.          *)
NeedsUnmapped(p) ==
  \/ ~(Accessed(p) \subseteq region[p] \cap objects)
  \/ Ends(p, "comm_local_finalize") /\ ~({q \in PE : Local(p, q)} \subseteq region[p])

(* The offset of a call's argument is taken from the symmetric heap, and   *)
(* comm_heap_free goes there.                                              *)
NeedsHeap(p) ==
  \E op \in {"put", "put_nbi", "get", "get_nbi", "barrier", "comm_heap_free"} : Ends(p, op)

(* Both queues are used under their locks. *)
Touched(p) ==
  {r \in Misuses :
     \/ r = "comm_lock"      /\ queue_send'[p] # queue_send[p]
     \/ r = "work_lock"      /\ work_queue'[p] # work_queue[p]
     \/ r = "locality_map"   /\ NeedsMap(p)
     \/ r = "region"         /\ NeedsUnmapped(p)
     \/ r = "own_region"     /\ Ends(p, "comm_local_finalize")
     \/ r = "symmetric_heap" /\ NeedsHeap(p)}

Effects(p) ==
  /\ Records(p, Touched(p) \ alive[p])
  /\ alive'  = [alive EXCEPT
                  ![p] = @ \ UNION {Frees[op] : op \in {o \in DOMAIN Frees : Ends(p, o)}}]
  /\ IF Ends(p, "comm_local_finalize") THEN shared_mem_close(p) ELSE UNCHANGED region
  /\ UNCHANGED <<booted, objects, fenceVars, entered>>

(* A process that has touched memory it has not mapped is gone; nothing is *)
(* said of one that has used a lock or a table that is not there.          *)
Sane(p) == misuse[p] \subseteq {"symmetric_heap", "own_region", "shm"}

LifeMain(p)   == Sane(p) /\ (Initialise(p) \/ (Booted(p) /\ MainThread(p) /\ Effects(p)))
LifeWorker(p) == Sane(p) /\ ~Ahead(p, "work_start") /\ Worker(p) /\ Effects(p)
LifeComm(p)   == Sane(p) /\ ~Ahead(p, "comm_remote_start") /\ CommThread(p) /\ Effects(p)

-----------------------------------------------------------------------------
(* All programs have ended. *)
JobEnded == Terminated /\ \A p \in PE : Booted(p)

(* Or a process is gone, and the others may be waiting for it. *)
LifeEnded == (JobEnded \/ \E p \in PE : ~Sane(p)) /\ UNCHANGED lifeVars

LifeNext ==
  \/ \E p \in PE : LifeMain(p) \/ LifeWorker(p) \/ LifeComm(p)
  \/ LifeEnded

LifeSpec == LifeInit /\ [][LifeNext]_lifeVars

(* As in Comm: threads are scheduled, and TCP delivers. *)
FairLifeSpec ==
  /\ LifeSpec
  /\ \A p \in PE :
       /\ WF_vars(Sane(p) /\ Booted(p) /\ MainThread(p)) /\ WF_lifeVars(Sane(p) /\ Initialise(p))
       /\ WF_vars(Sane(p) /\ Worker(p))
       /\ WF_vars(Sane(p) /\ ~Ahead(p, "comm_remote_start") /\ CommThread(p))
       /\ \A s \in PE \ {p} : SF_vars(Sane(p) /\ ReceivePacket(p, s))

-----------------------------------------------------------------------------
(* Properties *)

(* The memory of a PE that has not created its __pSync counts as clear.    *)
ClearedMem ==
  [p \in PE |-> IF Ahead(p, "create_pSync") THEN [a \in Addr |-> 0] ELSE mem[p]]

C == INSTANCE Comm WITH mem <- ClearedMem

(* The library behaves as Comm says, which starts where every PE has       *)
(* returned from shmem_init: although a PE can be through with shmem_init  *)
(* and put to another that is not, no put lands in memory that is then     *)
(* cleared (shared_mem.c:81, comm.c:80), no packet is queued that          *)
(* comm_remote_start or work_start then forgets (comm_remote.c:333,        *)
(* work.c:100), and nothing of an earlier job is left in the heap.         *)
ImplementsComm == C!Spec

(* No thread touches what its process has not initialised or has released: *)
(* a packet is never queued before work_start or after work_finalize       *)
(* (comm.c:41, 90-91), the worker never writes through an unmapped region  *)
(* (comm.c:47), neither thread needs a freed map. The exceptions are at    *)
(* the end of comm_finalize: shared_heap_close unmaps the region that the  *)
(* loop of comm_local_finalize has unmapped (comm_local.c:53,              *)
(* shared_heap.c:86), and comm_heap_free(__pSync) uses the heap that was   *)
(* freed there (comm.c:53). Said of PEs for which shm_open and mmap have   *)
(* worked, in jobs with puts between PEs of one host and blocking puts to  *)
(* and from PE 0: any other put can be under way when its target has left  *)
(* the last barrier (see SyncFlushes), and is then queued behind the       *)
(* destroyed lock.                                                         *)
OnlyHeapMisused == \A p \in PE : "shm" \notin misuse[p] => Sane(p)

(* Every put that was called is eventually in its target's memory, as long *)
(* as neither of the two PEs finalizes or dies: no packet is forgotten in  *)
(* a queue while the threads of the sender and of the target run           *)
(* (comm_remote.c:155-161, work.c:82-93).                                  *)
PutsLand ==
  \A s, d \in PE :
    []<>(landed[s][d] = issued[s][d] \/ \E p \in {s, d} : finished[p] # {} \/ ~Sane(p))

(* The release of the last barrier is still queued and the communication   *)
(* thread of PE 0 has ended.                                               *)
ReleaseLost == ct[0] = "exited" /\ queue_send[0] # << >>

(* Every program ends: no PE waits for ever in one of the fences, in       *)
(* wireup, in a barrier or in a join, with two exceptions: a process has   *)
(* died, which OnlyHeapMisused says happens only where shm_open or mmap    *)
(* fails, or the communication thread of PE 0 has left a release signal    *)
(* behind (comm_remote.c:157).                                             *)
JobEnds == <>(JobEnded \/ ReleaseLost \/ \E p \in PE : ~Sane(p))
=============================================================================
