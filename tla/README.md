# A verification project for OpenSHMEM-CSCI

The repository is a small OpenSHMEM library in C: processes ("PEs") of a parallel
job share a *symmetric heap*, put and get data in each other's copy of it, and
synchronise with barriers. PEs of one host reach each other through shared
memory, PEs of different hosts through TCP. This directory models the library
in TLA+, checks the models with TLC on small instances, and proves with TLAPS,
for every instance, the safety of the barrier, of the put path under it, of the
allocator's list of blocks and of the socket tables. `PROJECT.json` lists the
runs, the source lines behind each definition, the findings, the hazards and the
theorems. Source paths
below are relative to the repository.

## 1. Inventory

| component | state | operations | meets the others through |
|---|---|---|---|
| API, `src/shmem.c` | none of its own | init, finalize, put, get and their `_nbi` forms, barrier, sync, quiet, malloc, free | calls into `comm` |
| dispatch and barrier, `src/comm/comm.c` | `__pSync`, one int per PE, the first block of the symmetric heap | `comm_barrier_all`, `comm_put`, `comm_get`, `comm_flush`, start and finalize | signals are ordinary puts into other PEs' `__pSync` |
| local communication, `src/comm/comm_local.c` | the mapped regions of the PEs of this host | copy in, copy out | shared memory |
| remote communication, `src/comm/comm_remote.c` | socket tables, send queue with a lock, `__finished`, communication thread | wireup, enqueue, the thread's receive and send loops | main and worker threads enqueue packets; the thread writes sockets and gives received packets to the worker |
| locality map, `src/comm/comm_node.c` | type and index of every PE | `comm_node_map_locality` | index = slot in the socket table or in the list of regions |
| worker, `src/job/work.c` | job queue with a lock, `__finished`, thread | queue a job, execute it | executes non-blocking puts of its own PE and puts received from others |
| heap and table, `src/memory/heap.c`, `hashmap.c` | list of blocks, next-fit position, table from address to predecessor | init, malloc, free | the symmetric heap of each PE |
| shared heap and memory, `src/memory/shared_heap.c`, `shared_mem.c` | a mapped region | create, open, close | POSIX shared memory; objects with fixed names that outlive the job |
| sockets, `src/network/` | file descriptors | connect, accept, send, receive, set non-blocking | TCP |
| runtime, `src/rte/` | rank and size | barrier, host lists | PMIx (the MPI variant is not built) |

What is hard here: three threads per PE, and all PEs, run concurrently and
communicate through unacknowledged puts; the barrier reuses its slots at once
and carries no round number; sockets are non-blocking and their results are not
checked; shutdown races with delivery; the allocator keeps pointers to freed
structs; the wireup is a distributed handshake whose pairing is arithmetic on PE
numbers; `shmem_init` and `shmem_finalize` set up and tear down all this while
other PEs may be ahead or behind. The list with lines is `hazards` in `PROJECT.json`.

What makes each component correct:

* barrier: nobody returns early; no signal is lost; everybody returns;
* put path: puts between two PEs land once, in order, with their data, eventually;
  a barrier or quiet says something about completed puts;
* start: no PE reaches another one's memory, queues or sockets before they are
  set up, and nothing that has arrived is wiped afterwards;
* finalize: it returns on every PE, and nothing is used after its release;
* allocator: live blocks do not overlap, freed blocks are free, the heap is
  symmetric, the search ends;
* wireup: every pair of remote PEs is connected, slots and peers match, it ends.

## 2. Modules

    BarrierSpec          what shmem_barrier_all promises
      ^ implemented by (checked and proved)
    Barrier              comm_barrier_all over an asynchronous comm_put   -- Barrier.cfg
      |                                                                   -- BarrierProofs
      ^ implemented by (checked and proved)
    Comm                 main, worker and communication threads           -- MCComm*.cfg
      |                                     -- CommProofs, CommBarrierProofs, CommOrderProofs,
      |                                        CommRefinementProofs
      ^ extended, and implemented (checked and proved), by
    Lifecycle            whole jobs, shmem_init to rte_finalize           -- MCLifecycle.cfg
      |                  (its PMIx fence is BarrierSpec again; its comm_remote_wireup
      v                  waits for the PEs that the levels of Wireup connect)
                                                                          -- LifecycleProofs
    Heap                 allocator, table, one heap per PE                -- MCHeap*.cfg
                                                                          -- HeapProofs
    Wireup               comm_remote_wireup and the locality map          -- MCWireup*.cfg
                                                                          -- WireupProofs

**Barrier.** `pSync[p][k]` is `__pSync[k]` in the heap of PE p, `i` the root's
loop variable, `pc` the place in `comm_barrier_all`. A put to a PE of the same
host changes `pSync` in the step; a put to another host adds one to
`wire[p][q]`, and `Land` stores it later. All signals between two PEs are the
same value for the same slot, so a count describes the packets. Polling and
clearing a slot are separate steps. `arrived` and `left` count calls and returns.
The build uses no optimisation, so the polling loops reread memory.

**Comm.** Starts where `shmem_init` has returned on every PE. `prog[p]` is what
is left of the main thread's program, a sequence of calls; `shmem_sync_all` and
`shmem_finalize` are the sequences of calls they make. The worker is the actions
`Execute` and `WorkerExit`, the communication thread `Check`, `Receive...`,
`Received`, `Send`, `Sent`: one step for each access to a shared queue, socket
or flag. A packet is three cells on the wire, two of header and one of data, so
a read can find half a header, a header without data, or the bytes of a
different packet. `Splits` turns such reads on; `SockCap` bounds what a
connection holds. A thread that has lost the packet boundaries reads sizes and
offsets out of other data; it goes to "undefined" and is not followed further.
`issued` and `landed` record the puts of each pair of PEs in call and in memory
order; in a put, `seq` is its number in `issued` and `round` the number of barriers
its caller had called. Both are history: no guard reads them, and both are set when
`comm_put` is called. For a blocking put, and for a signal, that is within the call of the
program; for a `put_nbi` it is when the worker executes the job, at any later time, so what
the properties say of puts "called before a barrier" they say of such a put only from then on.
The job sets obey
`JobsAssumption`: programs do not write to `__pSync`, an allocation of the library's own;
and `WiringAssumption`: PEs on different hosts have sockets with each other. `Meets` is the
arithmetic of the level loop (`comm_remote.c:304-313`) that decides it. Up to six PEs it holds
for all pairs. From seven on the code leaves some pairs with uninitialised sockets (2 and 6
first), so there the assumption excludes the placements that put such a pair on two hosts.
The worker's test, dequeue and execution are one step: only the worker dequeues, and the main thread waits in `pthread_join` after setting the flag.
What `comm_finalize` does after the joins is one action, `Release`, which only
`Lifecycle` gives a meaning.
Data are single values; copies are not split into bytes.

**Lifecycle.** Extends `Comm`: a PE first makes the calls of
`shmem_init` (those of `comm_init`, `comm_wireup`, `comm_start` in their places),
each an action; `booted[p]` is how many p has returned from, and after the last its
main thread goes on with the job's own calls. A thread takes steps
once its start call has been made. `objects` are the shared memory objects of
full size and `region[p]` what p has mapped; initially the objects of an earlier
job are there, with old contents, or none are. `alive[p]` is what p has
initialised and not released. `Effects` goes with every step of `Comm`: it
computes from the step what the thread touched (`Touched`: the two queues under their
locks; the locality map and the region that a put, a get or a packet job of the worker goes
through; the heap; at `comm_local_finalize` the regions it unmaps) and records in
`misuse[p]` what was not alive. A process that has touched unmapped memory is
gone (`Sane`). The PE's own region is unmapped twice, by the loop of
`comm_local_finalize` and by `shared_heap_close` (`comm_local.c:53`, `shared_heap.c:86`);
the second `munmap` is recorded as "own_region", the use of the freed heap in `comm_heap_free`
as "symmetric_heap", and the process goes on after both.

`ShmFails` lets `shm_open` and `mmap` fail, which `misuse` records as "shm". A failing `shm_open` of the PE's own
object leaves `__symmetric_heap` NULL; nobody looks, and the process goes on through
`comm_remote_init`, the map and the first fence until `comm_local_wireup` follows the pointer
(`comm_local.c:73`). A failing `mmap` is not seen (`shared_mem.c:98` compares the address of
the pointer with `MAP_FAILED`), and the process dies when it clears the region. When
another PE's region is opened, the code takes -1 for a success (`comm_local.c:79`): the
process goes on without the region and dies at the first access to it. `WireupLeave` waits for
the remote PEs with which p connects (`Meets`), not for all. `ImplementsComm` maps a state to one of `Comm` by leaving out the variables of this
module; the heap of a PE whose `__pSync` has not been created counts as clear
(`ClearedMem`).

**Heap.** Offsets, sizes and the addresses of `struct block_t` (`Ids`). The list
is a sequence; `heap->tail` is its first element. Addresses matter because freed
ones are reused, because the table keeps them, and because one is passed as a
key (`heap.c:91`): `hash` gives its bucket. Reading a freed struct returns
anything; following a null or freed pointer is recorded in `fault` and ends the
PE. `heap_init` leaves the dummy's `next` unset: `clean` says whether malloc
returned zeroed memory. All PEs make the same calls (they are collective), each
on its own heap, and each has remainders of struct addresses of its own. `legible` is
history: in every state so far the keys of the linked blocks (their offsets, and the struct
addresses that can be passed at `heap.c:91`) had buckets of their own, and no block but the
dummy was empty.

**Wireup.** A placement is the list of nodes and the host of each PE. From it
come the peer lists and local ranks of the runtime layer (`rte_local_peers`,
`rte_my_local_pe`, `rte_remote_peers`; PMIx lists ranks in ascending order) and
the locality map of each PE: a local PE's index is its place in the host's list,
a remote one's the number of remote PEs the loops came to before it. The module starts after the first `rte_barrier_all` of `shmem_init`, with both
servers of every PE open. `todo[p]` is what the loop of
`__comm_remote_wire_server` or `__comm_remote_wire_client` has ahead;
`cmd_queue` and `data_queue` are the backlogs; `hello[p][q]` the handshake bytes
on the connection p made to q; `cmd[p][s]` and `data[p][s]` whom slot s leads to.
The backlog holds all PEs (`listen(n_pes)`). Accept errors and short handshake
reads are left out.

Operators with a comment that begins with "Variant" are the mutated forms named
in `PROJECT.json`; no specification uses them.

## 3. Runs

Passing runs:

| run | instance | shows |
|---|---|---|
| `barrier` | 4 PEs, all placements on 2 hosts, 3 barriers | safety, no lost signal, everybody returns, refinement of `BarrierSpec`. Three barriers: the second reuses every slot, the third follows a reuse |
| `comm_root` | 3 PEs, 4 placements, 2 barriers, puts to and from PE 0, 6 cells of socket buffer | order of puts, no write that does not fit (6 cells are two packets; with 5 TLC reports `WritesFit` violated), completion of puts on the root's connections, refinement of `Barrier` |
| `lifecycle` | 2 PEs; 3 jobs: 2 hosts with blocking and non-blocking traffic and no finalize, 1 host that finalizes with jobs queued, 2 hosts that finalize after puts and gets; each with and without old memory objects, and every `shm_open` and `mmap` may fail | unless a system call has failed nothing is used before its initialisation or after its release, but for the second `munmap` and `comm_heap_free` at the end of `comm_finalize`; refinement of `Comm`, order of puts, every put between running PEs lands, programs end (or a process has died after a failed call, or the release of `comm_finalize` below is lost) |
| `comm_split` | 2 hosts, short reads, 5 cells of socket buffer; 2 barriers, or non-blocking calls and `shmem_finalize` | garbled traffic never opens a barrier early. Deadlock is not checked here: a lost signal really stops the job |
| `heap` | 2 PEs, region of 3, sizes 0, 1 and 2, 4 structs, 7 calls; 8 buckets; the struct addresses of each PE fall into the bucket of offset 2 or into one no offset has | list order and linked search start in every state, also after clashes; live blocks disjoint and equal offsets while the table is legible. Without the condition both are false in this very instance: TLC then finds PEs that differ after seven calls |
| `wireup` | 5 PEs, by slot, by node, and with the hosts listed backwards, on 1 to 5 hosts | region numbers agree with list positions, right peers in the slots, no refused client, everything wired, it ends. Five PEs have three levels, and PE 1 and 3 are clients first and servers or clients again |

Runs that find a stated promise broken (each has a finding with the quotation):

| run | promise | what happens |
|---|---|---|
| `wireup_missing` | all PEs are wired | with 7 PEs, 2 and 6 are both clients at level 1, then stop |
| `comm_sync` | `shmem_sync_all` flushes | a put from PE 1 to PE 2 is still queued when both have returned from `shmem_sync_all`: barrier through PE 0, then the empty `comm_flush` |
| `comm_finalize` | everybody leaves the last barrier | PE 0's thread stops with the release queued |
| `comm_partial_read` | put copies the data | header arrived, data not: garbage is stored |
| `heap_clash` | free releases that block | with a shared bucket the successor is taken instead |
| `heap_leak` | a freed block can be allocated again (`test/shmem_heap.c:55-62`) | `hashmap_remove` compares the key with the predecessor's offset: a block in the middle is not found and stays allocated |

The models also contain, without a run of their own: a failing `shm_open` or `mmap` in
`comm_local_wireup` is taken for a success (`comm_local.c:79`; `comm_local.c:75` says "Map all
local symmetric heaps into memory"), and the PE goes on without the region (explored in
`lifecycle`, where `OnlyHeapMisused` and `JobEnds` except such PEs); `comm_finalize` unmaps the PE's own
region twice and frees `__pSync` on a heap it has closed (`comm.c:53`), the exceptions of
`OnlyHeapMisused`; a non-blocking
put to another host, or any put between two PEs neither of which is PE 0, that is
still under way when its target finalizes is queued behind the mutex
`work_finalize` has destroyed (`work.c:114`; with such a job in `WholeJobs` TLC
reports `OnlyHeapMisused` violated, which is why the jobs leave it out); `shmem_quiet` does nothing
because `comm_flush` is empty (`comm.c:184`; `shmem.h:148` promises completion);
a remote get copies nothing (`comm_remote.c:370`); a packet that does not fit
into the socket buffer is dropped (`comm_remote.c:146`, on in `comm_split`);
blocks are packed without regard to alignment (`heap.c:95`; `shmem.h:135`); and
freeing an empty block can take its live successor off the list.

Bounds are the constants `MaxRounds` (barriers per PE), `MaxCalls` (allocator
calls), `Ids` (structs), `SockCap` (cells per connection) and the job sets in
`MCComm`. In `Comm` the guard of `BarrierCall` keeps `MaxRounds`; no job reaches it. The address symmetry of `MCHeap` is sound: ids are only compared with
each other, and `Remainders` is closed under exchanging them (all ids of a PE have the same
remainder in `OneBucket`, any in `AnyBucket`).

**Fairness.** Threads inside the library keep running (weak fairness of each
thread, the scheduler's promise; all waiting is polling or blocking reads). For
sockets, strong fairness of `ReceivePacket`: a reader that polls again and again
finds data that was written, as TCP delivers. Nothing obliges a program to make a
call in `Barrier`; in `Comm` and `Lifecycle` main threads run their programs. In `lifecycle`
sockets never fill and reads return whole writes. `PutsLand` says nothing of PEs
that have begun to finalize: their threads end whatever is queued.

## 4. Proofs

Every theorem holds for every number of PEs, every placement, every program and
every bound the constants allow, under the assumptions named below where it has any. Those
about `Comm` and `Lifecycle` rest on `WiringAssumption`, so for seven and more PEs they speak
only of placements in which `comm_remote_wireup` connects all pairs of different hosts.

| module | theorem | says |
|---|---|---|
| `BarrierProofs` | `TypeCorrect`, `BarrierSafe`, `NoSignalLost`, `Refinement` | types; `NoEarlyReturn`; the action property `SignalsNotLost`; `Barrier` implements `BarrierSpec` |
| `CommProofs` | `TypeCorrect` | types of `Comm`, split reads and cut writes included |
| `CommBarrierProofs` | `NoReturnIsEarly` | `NoEarlyReturn` through queues, sockets and threads, split reads and cut writes included |
| `CommOrderProofs` | `PutsStayInOrder`, `RootPutsAreComplete` | `PutsInOrder` and `RootPutsComplete` with whole reads and writes |
| `CommRefinementProofs` | `Refinement` | `Comm` implements `Barrier` with whole reads and writes |
| `CommRefinementProofs` | `LightJobsFit`, `LightJobsDeliver` | `WritesFit` for light jobs; for them order, completion and refinement with whole reads, and no assumption on writes |
| `LifecycleProofs` | `LifeTypeCorrect`, `LibraryImplementsComm` | types; `Lifecycle` implements `Comm`, failing system calls included |
| `HeapProofs` | `TypeCorrect`, `BlocksStayDisjoint`, `HeadStaysLinked` | types; `BlocksDisjoint`; `HeadLinked` |
| `HeapProofs` | `LiveMemoryDisjoint`, `HeapIsSymmetric` | `LegibleLive` and `SameOffset`: live memory is not given out again and the heap is symmetric while the table is legible |
| `WireupProofs` | `TypeCorrect`, `IndexesAgree`, `SocketsStayMatched` | types; `IndexesMatch`; `SocketsMatch` |

**Assumptions.** `BarrierAssumption`, `CommAssumption`, `HeapAssumption` and
`WireupAssumption` say that sizes and bounds are numbers, and in `Wireup` that PMIx
lists the host of every PE once under the name the PE has for it; `JobsAssumption`
and `WiringAssumption` are in section 2. The proofs about `Comm` do not compute with `Meets`: the
assumption is what makes `Comm` a model of the code, in which every pair of hosts has a socket. TLC evaluates all of them. Order of puts, completion and the
refinement of `Barrier` are stated for reads that return whole packets (`~Splits`)
and behaviours in which every write fits (`[]WritesFit`, a property of the run
`comm_root`): the code checks neither, and without them the statements are false
(`comm_partial_read` breaks `PutsInOrder`). The types and the safety of the barrier
need neither. Together: with whole reads and writes `Comm` implements `Barrier`,
which implements `BarrierSpec`; with others it is still true that nobody leaves
early, for as long as no reader has lost the packet boundaries.

`[]WritesFit` is itself proved for jobs that are `Light` (module `Comm`), a condition on
the programs, the placement and the size of a socket only: puts to other hosts are
blocking, and the packets of the calls of p to q that the program's barriers do not keep
apart fit into a socket. `RootJobsLight` (module `MCComm`, evaluated by TLC) says that
the jobs of `comm_root` are light with the 6 cells of that run. Programs may be of any
length as long as barriers separate the puts on the root's connections; between two
PEs other than the root no barrier waits for a put, so there all puts of the program
have to fit. A non-blocking put is left out because
the worker may send it at any later time, past any number of barriers.

**Barrier.** `NoEarlyReturn` is not inductive: that a slot holds 1 says nothing about who has
arrived. The invariant `IInv` follows each leaf's signal. `OneSignal`: while
leaf k is inside the barrier there is exactly one of it, on its way to PE 0, in
PE 0's slot, collected by PE 0 and not yet returned, on its way back, or in the
leaf's slot; outside there is none. `CountInv`: where the signal is tells how
far the leaf's two counters are from the number of barriers in which PE 0 has
released it. `PolledInv`: between poll and reset the slot still holds the signal.
`HistoryInv` ties the counters to `pc`. `ReleasedBound` concludes that PE 0 only
releases what everybody has called.

**Comm, types** (`TInv`). `TypeOK` with what makes it inductive: what is left of a
program and the jobs it has queued do not write to `__pSync` (`ProgInv`, `WorkInv`), the
root's loop variable is below N at a reset and only the root releases (`LoopInv`), and a call under
way is the first of the program, with the barrier counters one apart exactly inside
a barrier (`CallInv`).

**Comm, barrier** (`SInv`). A signal is now a packet in the send queue, the socket or
the work queue, among those of the program. `RouteInv`: what is addressed to a slot of
`__pSync` is a signal between that leaf and PE 0. `SigInv`: in each direction at most
one signal of a leaf is under way (`AtMostOne`), and while it is, or is in its slot, the leaf's
counters are a fixed distance from the number of barriers in which PE 0 has released
it (`UpInv`, `DownInv`, `Released`). A packet cut or lost makes signals fewer, never
more: this needs no assumption on sockets, and nothing in it says that there is a signal.

**Comm, order** (`OInv`: `SInv` and `Flow`). The puts from p to q, numbered, are stored, in
the work queue, in the socket and in the send queue, as four adjoining intervals, each
complete and in order (`Pipeline`, `Carries`). A socket holds whole packets
(`Framed`), a packet under way is the put the log has under its number
(`GenuineInv`), and what landed is a prefix of what was called (`LogInv`).

**Comm, completion** (`FInv`). A put of a finished round that has not landed has a
signal behind it (`Behind`). Signals land in order with the puts, so when `SInv` says
that none is under way, at the release on the root and at the return on the leaf,
the puts of that round have landed (`Through`).

**Comm, refinement** (`RInv`). A signal is in one of the queues exactly if it has been
called and has not landed, and there is at most one (`CountInv`), so that the packets on
the wire of `Barrier` are a function of the two logs; its value is 1 (`SignalValue`).
A step of `Comm` is then the step of `Barrier` of the same name, or `Land`, or a stutter.

**Comm, room in the sockets** (`FitInv`: `FInv` and `LightInv`). `WritesFit` speaks of a
socket and `Light` of a program, so the invariant says that the logs tell the programs
(`Told`): the puts of p to q are those of the calls p has come past, one for each, and
carry a round no later than the barriers before the call. `FInv` bounds the rounds of
puts that have not landed: a leaf has its signal, and all before it, at the root before it
goes on, and the root is at most one release ahead of a leaf. So these puts come from calls that are
`Together` (`UnderWayTogether`), and `CellsUnderWay` counts the cells of a socket, with the packet
about to be written, as three for each such put at most.

**Heap** (`IInv`). `BlocksDisjoint` holds whatever the table says. `GoodList`: blocks
are ordered by address, inside the region, no struct is linked twice, the list is not
empty and the head is linked. All results of `hashmap_set` and `hashmap_remove`,
faults and reads of freed memory included, keep it.

**Heap, live memory** (`LiveInv`). `LiveDisjoint` and `SameOffset` do depend on the table,
and are false when two keys share a bucket (`heap_clash`) or a block is empty. They are proved
for as long as the table has been legible, a condition on the blocks that are linked at a time
and not on the sizes a program may ask for. A program with few blocks usually
keeps it: offsets and struct addresses have to differ modulo 1023. No program can keep it
with more than 1023 linked blocks, freed ones that have leaked included, nor once two of them
are a multiple of 1023 bytes apart. `TableInv` says what a legible history leaves in the table:
bucket 0 holds the dummy while a block starts at offset 0; a node in the bucket of another
offset belongs to a block that is linked there and names a different struct, so that
`hashmap_remove` does not match it unless that struct has been freed; all other nodes are in buckets of
struct addresses. So `heap_free` finds no block but the one at offset 0. `HeldInv`: each allocation the program holds is a block of its own.
`ShapeInv`: the lists of all PEs are equal but for the struct addresses, as long as no PE has
crashed.

**Lifecycle** (`BInv`). The steps of `shmem_init` have to be stutters of `Comm`, and the
threads have to take steps of `Comm` while main threads are still in `shmem_init`. The
counters of the fence follow `booted` (`FenceInv`), so the first PE to return from
`shmem_init` shows that all have reached the second fence (`AllThere`), with memory cleared, queues
set up and threads started. Until then nothing is under way, so the resets of
`comm_remote_start` and `work_start` change nothing and no thread touches memory; a living PE has clear
memory between `comm_local_init` and `create_pSync` (`ClearInv`). `SameIssue` to
`SameCommThread` carry each action of `Comm` over to the instance with the cleared memory.

**Wireup** (`IInv`). The map: lists of PEs are ascending, so that a place in one is a
local rank; remote indexes count a set that grows strictly from one remote PE to the
next. The handshake (`HInv`): the backlog of a command port holds only clients that
wait for a greeting they have not been sent, none of them twice (`QueueInv`); greeting
and answer are under way only with the client a server has accepted (`HelloInv`); a
client about to make its data connection has its server to itself (`ClientInv`), and
a server's data port holds no connection but the one of the client it has accepted
(`ServerInv`). No part of it uses how the levels choose whom a PE meets, so it holds also
for the numbers of PEs for which `AllWired` fails.

Only model-checked:

* all liveness (`EveryoneReturns`, `PutsLand`, `JobEnds`, `Termination`,
  `WireupEnds`): fairness and ENABLED are outside the prover's reach;
* `NobodyRefused` and `AllWired` of `Wireup`: they count connections over the
  levels 2^k, and the provers know nothing of powers but of given numbers (`AllWired` is
  false from 7 PEs on);
* `WritesFit` for jobs that are not light: with 5 cells instead of 6 it is false for
  the jobs of `comm_root`;
* `OnlyHeapMisused` of `Lifecycle`: it needs that all PEs are through their last barrier
  when one of them frees what others use, for whole jobs. What is proved of `Comm`
  carries over to `Lifecycle` by `LibraryImplementsComm`; it is not restated there, as
  tlapm cannot cite the theorems of an instance.

## 5. Not modelled

* The old job module and the MPI runtime (not built), `rte_barrier_node`,
  `rte_local_root`, `hashmap_get` and `shared_heap_open` (not called).
* PMIx and its failures; address resolution; a server whose port is taken
  (`network_create_server` returns NULL and nobody looks); `ftruncate` failing.
* Two jobs at once on a host: region names and ports depend only on the rank
  (`common.h`), and nothing keeps the jobs apart.
* Host names that differ between `gethostname` and PMIx (`WireupAssumption`).
* Splitting of a copy into bytes; the process exit after `shmem_finalize`, when
  the sockets close; the contents of memory after it has been freed.
* When a program may change the source of a non-blocking put: the library has no
  call that says so, as `comm_flush` is empty.

## 6. Plan

Modelled and checked: all components but those of section 5. Proved: section 4. What
could be proved next:

1. *Lifecycle*: `OnlyHeapMisused`, from the barrier invariant `SInv` restated over the
   variables of `Lifecycle`.
2. *Wireup*: `NobodyRefused`, with an invariant that orders the levels of two PEs by
   their connections instead of by the powers of two.
3. *Comm*: `WritesFit` for jobs with non-blocking puts to other hosts, which needs a
   bound on the worker's queue in place of the barriers.
