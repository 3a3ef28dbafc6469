-------------------------- MODULE LifecycleProofs ---------------------------
(***************************************************************************)
(* A job from shmem_init on behaves as module Comm says, for any number of *)
(* PEs, any placement that wireup connects (WiringAssumption of Comm) and  *)
(* any program: the refinement C of Lifecycle, without assumptions beyond  *)
(* those on the constants. With the theorems about Comm this carries what  *)
(* is proved of the running library over to whole jobs.                    *)
(*                                                                         *)
(* The steps of shmem_init must be stutters of Comm, and the steps of the  *)
(* threads must be steps of Comm even when the main thread of their PE, or *)
(* of another, is still in shmem_init. Nothing in Comm says who has        *)
(* returned from shmem_init; the place in shmem_init does, and the         *)
(* counters of PMIx_Fence follow it (FenceInv). The first PE to return     *)
(* proves that all have reached the second fence (AllThere): their memory  *)
(* is cleared, their queues are set up and their threads are started.      *)
(* Until then nothing is under way (Quiet in BInv), so the resets of       *)
(* comm_remote_start and work_start change nothing and the threads do not  *)
(* touch memory. ClearInv joins the memory of Comm, clear from the start,  *)
(* to that of the program, cleared twice on the way.                       *)
(*                                                                         *)
(* The first lemmas say that a step of Comm is a step of the instance C of *)
(* Comm, action by action: the two differ in the memory alone.             *)
(***************************************************************************)
EXTENDS Lifecycle, CommProofs

(* The eleven calls of shmem_init in their places.                         *)
LEMMA InitCalls ==
  /\ Len(shmem_init) = 11 /\ DOMAIN shmem_init = 1 .. 11
  /\ shmem_init[1] = "comm_node_init"     /\ shmem_init[2] = "comm_local_init"
  /\ shmem_init[3] = "comm_remote_init"   /\ shmem_init[4] = "map_locality"
  /\ shmem_init[5] = "rte_barrier_all"    /\ shmem_init[6] = "comm_local_wireup"
  /\ shmem_init[7] = "comm_remote_wireup" /\ shmem_init[8] = "create_pSync"
  /\ shmem_init[9] = "comm_remote_start"  /\ shmem_init[10] = "work_start"
  /\ shmem_init[11] = "rte_barrier_all"
BY DEF shmem_init, comm_init, comm_wireup, comm_start

(* comm_put writes the same memory, queues and logs in C as in Comm, when  *)
(* memory and cleared memory are the same.                                 *)
LEMMA SameIssue ==
  ASSUME ClearedMem = mem, ClearedMem' = mem', NEW p, NEW q, NEW a, NEW v, Issue(p, q, a, v)
  PROVE  C!Issue(p, q, a, v)
BY DEF Issue, C!Issue, comm_put, C!comm_put, comm_local_put, C!comm_local_put, comm_remote_put,
   C!comm_remote_put,
       comm_thread_enqueue, C!comm_thread_enqueue, Local, C!Local

(* An assignment of the program is a step of C as it is one of Comm, when  *)
(* memory and cleared memory are the same.                                 *)
LEMMA SameStore ==
  ASSUME ClearedMem = mem, ClearedMem' = mem', NEW p, Store(p)
  PROVE  C!Store(p)
BY DEF Store, C!Store, Calls, C!Calls, Returns, C!Returns, queueVars, C!queueVars, threads,
   C!threads, logs, C!logs

(* shmem_putmem is a step of C as it is one of Comm, when memory and       *)
(* cleared memory are the same.                                            *)
LEMMA SamePut ==
  ASSUME ClearedMem = mem, ClearedMem' = mem', NEW p, shmem_putmem(p)
  PROVE  C!shmem_putmem(p)
BY SameIssue DEF shmem_putmem, C!shmem_putmem, Calls, C!Calls, Returns, C!Returns, threads,
   C!threads

(* shmem_getmem is a step of C as it is one of Comm, when memory and       *)
(* cleared memory are the same.                                            *)
LEMMA SameGet ==
  ASSUME ClearedMem = mem, ClearedMem' = mem', NEW p, shmem_getmem(p)
  PROVE  C!shmem_getmem(p)
BY DEF shmem_getmem, C!shmem_getmem, comm_get, C!comm_get, comm_local_get, C!comm_local_get,
   comm_remote_get, C!comm_remote_get, Local, C!Local, Calls, C!Calls, Returns, C!Returns,
   queueVars, C!queueVars, threads, C!threads, logs, C!logs

(* A non-blocking call is a step of C as it is one of Comm, when memory    *)
(* and cleared memory are the same.                                        *)
LEMMA SameNbi ==
  ASSUME ClearedMem = mem, ClearedMem' = mem', NEW p, shmem_nbi(p)
  PROVE  C!shmem_nbi(p)
BY DEF shmem_nbi, C!shmem_nbi, work_put, C!work_put, work_thread_enqueue, C!work_thread_enqueue,
   NbiHandler, C!NbiHandler, Calls, C!Calls, Returns, C!Returns, threads, C!threads, logs, C!logs

(* shmem_quiet is a step of C as it is one of Comm, when memory and        *)
(* cleared memory are the same.                                            *)
LEMMA SameQuiet ==
  ASSUME ClearedMem = mem, ClearedMem' = mem', NEW p, shmem_quiet(p)
  PROVE  C!shmem_quiet(p)
BY DEF shmem_quiet, C!shmem_quiet, Calls, C!Calls, Returns, C!Returns, queueVars, C!queueVars,
   threads, C!threads, logs, C!logs

(* The root's call of the barrier is a step of C as it is one of Comm,     *)
(* when memory and cleared memory are the same.                            *)
LEMMA SameRootEnter ==
  ASSUME ClearedMem = mem, ClearedMem' = mem', RootEnter
  PROVE  C!RootEnter
BY DEF RootEnter, C!RootEnter, BarrierCall, C!BarrierCall, Calls, C!Calls, queueVars, C!queueVars,
   threads, C!threads, logs, C!logs

(* The root's poll is a step of C as it is one of Comm, when memory and    *)
(* cleared memory are the same.                                            *)
LEMMA SameRootPoll ==
  ASSUME ClearedMem = mem, ClearedMem' = mem', RootPoll
  PROVE  C!RootPoll
BY DEF RootPoll, C!RootPoll, queueVars, C!queueVars, threads, C!threads, logs, C!logs

(* The root's reset of a slot is a step of C as it is one of Comm, when    *)
(* memory and cleared memory are the same.                                 *)
LEMMA SameRootReset ==
  ASSUME ClearedMem = mem, ClearedMem' = mem', RootReset
  PROVE  C!RootReset
BY DEF RootReset, C!RootReset, queueVars, C!queueVars, threads, C!threads, logs, C!logs

(* The end of the root's first loop is a step of C as it is one of Comm,   *)
(* when memory and cleared memory are the same.                            *)
LEMMA SameRootGathered ==
  ASSUME ClearedMem = mem, ClearedMem' = mem', RootGathered
  PROVE  C!RootGathered
BY DEF RootGathered, C!RootGathered, queueVars, C!queueVars, threads, C!threads, logs, C!logs

(* The root's release of a leaf is a step of C as it is one of Comm, when  *)
(* memory and cleared memory are the same.                                 *)
LEMMA SameRootRelease ==
  ASSUME ClearedMem = mem, ClearedMem' = mem', RootRelease
  PROVE  C!RootRelease
BY SameIssue DEF RootRelease, C!RootRelease, threads, C!threads

(* The root's return is a step of C as it is one of Comm, when memory and  *)
(* cleared memory are the same.                                            *)
LEMMA SameRootReturn ==
  ASSUME ClearedMem = mem, ClearedMem' = mem', RootReturn
  PROVE  C!RootReturn
BY DEF RootReturn, C!RootReturn, BarrierReturn, C!BarrierReturn, Returns, C!Returns, queueVars,
   C!queueVars, threads, C!threads, logs, C!logs

(* A leaf's call of the barrier is a step of C as it is one of Comm, when  *)
(* memory and cleared memory are the same.                                 *)
LEMMA SameLeafEnter ==
  ASSUME ClearedMem = mem, ClearedMem' = mem', NEW k, LeafEnter(k)
  PROVE  C!LeafEnter(k)
BY SameIssue DEF LeafEnter, C!LeafEnter, BarrierCall, C!BarrierCall, Calls, C!Calls, threads,
   C!threads

(* A leaf's poll is a step of C as it is one of Comm, when memory and      *)
(* cleared memory are the same.                                            *)
LEMMA SameLeafPoll ==
  ASSUME ClearedMem = mem, ClearedMem' = mem', NEW k, LeafPoll(k)
  PROVE  C!LeafPoll(k)
BY DEF LeafPoll, C!LeafPoll, queueVars, C!queueVars, threads, C!threads, logs, C!logs

(* A leaf's reset and return is a step of C as it is one of Comm, when     *)
(* memory and cleared memory are the same.                                 *)
LEMMA SameLeafReset ==
  ASSUME ClearedMem = mem, ClearedMem' = mem', NEW k, LeafReset(k)
  PROVE  C!LeafReset(k)
BY DEF LeafReset, C!LeafReset, BarrierReturn, C!BarrierReturn, Returns, C!Returns, queueVars,
   C!queueVars, threads, C!threads, logs, C!logs

(* Telling a thread to end is a step of C as it is one of Comm, when       *)
(* memory and cleared memory are the same.                                 *)
LEMMA SameSetFinished ==
  ASSUME ClearedMem = mem, ClearedMem' = mem', NEW p, SetFinished(p)
  PROVE  C!SetFinished(p)
BY DEF SetFinished, C!SetFinished, Calls, C!Calls, queueVars, C!queueVars, threads, C!threads,
   logs, C!logs

(* Joining a thread is a step of C as it is one of Comm, when memory and   *)
(* cleared memory are the same.                                            *)
LEMMA SameJoin ==
  ASSUME ClearedMem = mem, ClearedMem' = mem', NEW p, Join(p)
  PROVE  C!Join(p)
BY DEF Join, C!Join, Returns, C!Returns, queueVars, C!queueVars, threads, C!threads, logs, C!logs

(* A release of comm_finalize is a step of C as it is one of Comm, when    *)
(* memory and cleared memory are the same.                                 *)
LEMMA SameRelease ==
  ASSUME ClearedMem = mem, ClearedMem' = mem', NEW p, Release(p)
  PROVE  C!Release(p)
BY DEF Release, C!Release, Releasing, C!Releasing, Calls, C!Calls, Returns, C!Returns, queueVars,
   C!queueVars, threads, C!threads, logs, C!logs

(* So every step of the main thread is a step of C,                        *)
LEMMA SameMain ==
  ASSUME ClearedMem = mem, ClearedMem' = mem', NEW p, MainThread(p)
  PROVE  C!MainThread(p)
BY SameStore, SamePut, SameGet, SameNbi, SameQuiet, SameRootEnter, SameRootPoll, SameRootReset,
   SameRootGathered,
   SameRootRelease, SameRootReturn, SameLeafEnter, SameLeafPoll, SameLeafReset, SameSetFinished, SameJoin, SameRelease
   DEF MainThread, C!MainThread

(* The execution of a job is a step of C as it is one of Comm, when memory *)
(* and cleared memory are the same.                                        *)
LEMMA SameExecute ==
  ASSUME ClearedMem = mem, ClearedMem' = mem', NEW p, Execute(p)
  PROVE  C!Execute(p)
BY SameIssue DEF Execute, C!Execute, work_thread_dequeue, C!work_thread_dequeue, comm_put,
   C!comm_put, comm_local_put, C!comm_local_put, comm_remote_put, C!comm_remote_put,
   comm_thread_enqueue, C!comm_thread_enqueue, Local, C!Local, mainVars, C!mainVars, threads,
   C!threads, logs, C!logs

(* The end of the worker is a step of C as it is one of Comm, when memory  *)
(* and cleared memory are the same.                                        *)
LEMMA SameWorkerExit ==
  ASSUME ClearedMem = mem, ClearedMem' = mem', NEW p, WorkerExit(p)
  PROVE  C!WorkerExit(p)
BY DEF WorkerExit, C!WorkerExit, mainVars, C!mainVars, queueVars, C!queueVars, logs, C!logs

(* and every step of the worker.                                           *)
LEMMA SameWorker ==
  ASSUME ClearedMem = mem, ClearedMem' = mem', NEW p, Worker(p)
  PROVE  C!Worker(p)
BY SameExecute, SameWorkerExit DEF Worker, C!Worker

(* The communication thread does not look at memory: it takes the steps of *)
(* C also while some memory counts as clear. Here, its look at the flag.   *)
LEMMA SameCheck ==
  ASSUME UNCHANGED mem => UNCHANGED ClearedMem, NEW p, Check(p)
  PROVE  C!Check(p)
BY DEF Check, C!Check, Remotes, C!Remotes, Local, C!Local, PE, C!PE, mainVars, C!mainVars,
   queueVars, C!queueVars, logs, C!logs

(* A read that finds nothing.                                              *)
LEMMA SameReceiveNothing ==
  ASSUME UNCHANGED mem => UNCHANGED ClearedMem, NEW p, NEW s, ReceiveNothing(p, s)
  PROVE  C!ReceiveNothing(p, s)
BY DEF ReceiveNothing, C!ReceiveNothing, Polls, C!Polls, mainVars, C!mainVars, logs, C!logs

(* A header cut short, thrown away.                                        *)
LEMMA SameReceiveBadPacket ==
  ASSUME UNCHANGED mem => UNCHANGED ClearedMem, NEW p, NEW s, ReceiveBadPacket(p, s)
  PROVE  C!ReceiveBadPacket(p, s)
BY SMTT(60) DEF ReceiveBadPacket, C!ReceiveBadPacket, network_receive, C!network_receive, Polls, C!Polls,
   mainVars, C!mainVars, logs, C!logs

(* A packet received and given to the worker.                              *)
LEMMA SameReceivePacket ==
  ASSUME UNCHANGED mem => UNCHANGED ClearedMem, NEW p, NEW s, ReceivePacket(p, s)
  PROVE  C!ReceivePacket(p, s)
BY DEF ReceivePacket, C!ReceivePacket, IsHeader, C!IsHeader, work_put_remote, C!work_put_remote,
   work_thread_enqueue, C!work_thread_enqueue, network_receive, C!network_receive, Garbage,
   C!Garbage, Polls, C!Polls, mainVars, C!mainVars, logs, C!logs

(* A header read out of other data.                                        *)
LEMMA SameReceiveMisframed ==
  ASSUME UNCHANGED mem => UNCHANGED ClearedMem, NEW p, NEW s, ReceiveMisframed(p, s)
  PROVE  C!ReceiveMisframed(p, s)
BY DEF ReceiveMisframed, C!ReceiveMisframed, IsHeader, C!IsHeader, Polls, C!Polls, mainVars,
   C!mainVars, logs, C!logs

(* The end of the receive loop.                                            *)
LEMMA SameReceived ==
  ASSUME UNCHANGED mem => UNCHANGED ClearedMem, NEW p, Received(p)
  PROVE  C!Received(p)
BY SMTT(60) DEF Received, C!Received, mainVars, C!mainVars, queueVars, C!queueVars, logs, C!logs

(* A packet written.                                                       *)
LEMMA SameSend ==
  ASSUME UNCHANGED mem => UNCHANGED ClearedMem, NEW p, Send(p)
  PROVE  C!Send(p)
BY DEF Send, C!Send, network_send, C!network_send, comm_thread_dequeue, C!comm_thread_dequeue,
   mainVars, C!mainVars, threads, C!threads, logs, C!logs

(* The end of the send loop.                                               *)
LEMMA SameSent ==
  ASSUME UNCHANGED mem => UNCHANGED ClearedMem, NEW p, Sent(p)
  PROVE  C!Sent(p)
BY DEF Sent, C!Sent, mainVars, C!mainVars, queueVars, C!queueVars, logs, C!logs

(* So every step of the communication thread is a step of C.               *)
LEMMA SameCommThread ==
  ASSUME UNCHANGED mem => UNCHANGED ClearedMem, NEW p, CommThread(p)
  PROVE  C!CommThread(p)
BY SameCheck, SameReceiveNothing, SameReceiveBadPacket, SameReceivePacket, SameReceiveMisframed,
   SameReceived,
   SameSend, SameSent DEF CommThread, C!CommThread, PE, C!PE

(* Memory as shared_mem_create clears it.                                  *)
Zeros == [a \in Addr |-> 0]

(* No thread has anything to do: nothing is queued or on the wire, and no  *)
(* thread has been told to end.                                            *)
Quiet ==
  /\ queue_send = [p \in PE |-> << >>]
  /\ wire       = [p \in PE |-> [q \in PE |-> << >>]]
  /\ work_queue = [p \in PE |-> << >>]
  /\ finished   = [p \in PE |-> {}]

(* The calls of PMIx_Fence are counted by the place in shmem_init: the     *)
(* fences are its fifth and its eleventh call.                             *)
FenceInv ==
  \A p \in PE :
    /\ fence_out[p] = IF booted[p] < 5 THEN 0 ELSE IF booted[p] < 11 THEN 1 ELSE 2
    /\ fence_in[p] = fence_out[p] \/ (booted[p] \in {4, 10} /\ fence_in[p] = fence_out[p] + 1)

(* Who has returned from shmem_init has left the second fence, so every PE *)
(* has come to it.                                                         *)
AllThere == \A p \in PE : Booted(p) => \A q \in PE : booted[q] >= 10

(* Between comm_local_init and create_pSync the memory of a PE that lives  *)
(* holds zeros, also at the addresses that create_pSync does not clear,    *)
(* unless shm_open failed: then the heap is null, and comm_local_wireup is *)
(* still ahead.                                                            *)
Clear(p) ==
  /\ booted[p] < 2 => "symmetric_heap" \notin alive[p]
  /\ (booted[p] \in 2 .. 7 /\ Sane(p)) =>
       mem[p] = Zeros \/ (booted[p] < 6 /\ "symmetric_heap" \notin alive[p])

ClearInv == \A p \in PE : Clear(p)

(* The inductive invariant: with the types of both modules, nothing is     *)
(* under way before the first PE has returned from shmem_init.             *)
BInv ==
  /\ TInv /\ LifeTypeOK
  /\ FenceInv /\ AllThere /\ ClearInv
  /\ (\A p \in PE : ~Booted(p)) => Quiet

(* A call that shmem_init makes once, at place m, is ahead exactly of who  *)
(* has returned from fewer than m calls.                                   *)
LEMMA AheadOf ==
  ASSUME NEW b \in 0 .. 11, NEW op, NEW m \in 1 .. 11, shmem_init[m] = op,
         op \in {"comm_local_wireup", "create_pSync", "comm_remote_start", "work_start"}
  PROVE  (\E n \in DOMAIN shmem_init : n > b /\ shmem_init[n] = op) <=> b < m
<1>1. \A n \in 1 .. 11 : n \in {1, 2, 3, 4, 5, 6, 7, 8, 9, 10, 11}
  OBVIOUS
<1>2. \A n \in 1 .. 11 : shmem_init[n] = op => n = m
  BY <1>1, InitCalls
<1> QED BY <1>2, InitCalls

(* The place in shmem_init as a number.                                    *)
LEMMA BootedFacts ==
  ASSUME LifeTypeOK, NEW p \in PE
  PROVE  /\ booted[p] \in 0 .. 11 /\ booted[p] \in Nat
         /\ Booted(p) <=> booted[p] = 11
         /\ Ahead(p, "create_pSync") <=> booted[p] < 8
         /\ Ahead(p, "comm_remote_start") <=> booted[p] < 9
         /\ Ahead(p, "work_start") <=> booted[p] < 10
         /\ Ahead(p, "comm_local_wireup") <=> booted[p] < 6
<1>1. booted[p] \in 0 .. 11 /\ booted[p] \in Nat
  BY InitCalls DEF LifeTypeOK
<1>2. Booted(p) <=> booted[p] = 11
  BY InitCalls DEF Booted
<1>3. 8 \in 1 .. 11 /\ 9 \in 1 .. 11 /\ 10 \in 1 .. 11 /\ 6 \in 1 .. 11
  OBVIOUS
<1>4. /\ Ahead(p, "create_pSync") <=> booted[p] < 8
      /\ Ahead(p, "comm_remote_start") <=> booted[p] < 9
      /\ Ahead(p, "work_start") <=> booted[p] < 10
      /\ Ahead(p, "comm_local_wireup") <=> booted[p] < 6
  BY <1>1, <1>3, InitCalls, AheadOf DEF Ahead
<1> QED BY <1>1, <1>2, <1>4

(* The call a PE has come to gives its place.                              *)
LEMMA BootCallsFacts ==
  ASSUME LifeTypeOK, NEW p \in PE
  PROVE  /\ BootCalls(p, "comm_node_init")     => booted[p] = 0
         /\ BootCalls(p, "comm_local_init")    => booted[p] = 1
         /\ BootCalls(p, "comm_remote_init")   => booted[p] = 2
         /\ BootCalls(p, "map_locality")       => booted[p] = 3
         /\ BootCalls(p, "rte_barrier_all")    => booted[p] \in {4, 10}
         /\ BootCalls(p, "comm_local_wireup")  => booted[p] = 5
         /\ BootCalls(p, "comm_remote_wireup") => booted[p] = 6
         /\ BootCalls(p, "create_pSync")       => booted[p] = 7
         /\ BootCalls(p, "comm_remote_start")  => booted[p] = 8
         /\ BootCalls(p, "work_start")         => booted[p] = 9
<1>1. booted[p] \in 0 .. 11 /\ (Booted(p) <=> booted[p] = 11)
  BY BootedFacts
<1> DEFINE b == booted[p]
<1>2. b \in 0 .. 11 /\ (Booted(p) <=> b = 11)
  BY <1>1
<1>3. \A op : BootCalls(p, op) => ~Booted(p) /\ shmem_init[b + 1] = op
  BY DEF BootCalls
<1> HIDE DEF b
<1>4. b \in {0, 1, 2, 3, 4, 5, 6, 7, 8, 9, 10, 11}
  BY <1>2
<1>5. /\ b = 0 => shmem_init[b + 1] = "comm_node_init"
      /\ b = 1 => shmem_init[b + 1] = "comm_local_init"
      /\ b = 2 => shmem_init[b + 1] = "comm_remote_init"
      /\ b = 3 => shmem_init[b + 1] = "map_locality"
      /\ b = 4 => shmem_init[b + 1] = "rte_barrier_all"
      /\ b = 5 => shmem_init[b + 1] = "comm_local_wireup"
      /\ b = 6 => shmem_init[b + 1] = "comm_remote_wireup"
      /\ b = 7 => shmem_init[b + 1] = "create_pSync"
      /\ b = 8 => shmem_init[b + 1] = "comm_remote_start"
      /\ b = 9 => shmem_init[b + 1] = "work_start"
      /\ b = 10 => shmem_init[b + 1] = "rte_barrier_all"
  BY InitCalls
<1>6. ASSUME NEW op, BootCalls(p, op) PROVE shmem_init[b + 1] = op /\ b # 11
  BY <1>2, <1>3, <1>6
<1> QED BY <1>4, <1>5, <1>6 DEF b

(* A step that only writes memory keeps the invariant behind the types of  *)
(* Comm.                                                                   *)
LEMMA MemStep ==
  ASSUME TInv, mem' \in MemType,
         UNCHANGED <<host, prog, pc, i, arrived, left, finished, queue_send, wire, work_queue, threads, logs>>
  PROVE  TInv'
<1>1. TypeOK'
  BY DEF TInv, TypeOK, MemType, Value, threads, logs
<1> QED BY <1>1 DEF TInv, ProgInv, WorkInv, LoopInv, CallInv, CallOK, Inside

(* The memory of C: clear until create_pSync.                              *)
LEMMA ClearedValue ==
  ASSUME LifeTypeOK, NEW p \in PE
  PROVE  ClearedMem[p] = IF booted[p] < 8 THEN Zeros ELSE mem[p]
BY BootedFacts DEF ClearedMem, Zeros

(* When the memory of C stays as it is.                                    *)
LEMMA ClearedSame ==
  ASSUME LifeTypeOK, LifeTypeOK',
         \A p \in PE : (IF booted[p] < 8 THEN Zeros ELSE mem[p]) = (IF booted'[p] < 8 THEN Zeros ELSE mem'[p])
  PROVE  UNCHANGED ClearedMem
<1>1. \A p \in PE : ClearedMem[p] = IF booted[p] < 8 THEN Zeros ELSE mem[p]
  BY ClearedValue
<1>2. ASSUME NEW p \in PE PROVE ClearedMem'[p] = IF booted'[p] < 8 THEN Zeros ELSE mem'[p]
  <2>1. Ahead(p, "create_pSync")' <=> booted'[p] < 8
    <3>1. booted'[p] \in 0 .. 11 /\ 8 \in 1 .. 11
      BY InitCalls DEF LifeTypeOK
    <3> QED BY <3>1, InitCalls, AheadOf DEF Ahead
  <2> QED BY <2>1 DEF ClearedMem, Zeros
<1>3. ClearedMem = [p \in PE |-> ClearedMem[p]] /\ ClearedMem' = [p \in PE |-> ClearedMem'[p]]
  BY DEF ClearedMem
<1>4. \A p \in PE : ClearedMem[p] = ClearedMem'[p]
  BY <1>1, <1>2
<1> QED BY <1>3, <1>4, Zenon

(* A call of shmem_init other than a fence changes nothing that C sees,    *)
(* provided that it leaves cleared memory alone: nobody has returned from  *)
(* shmem_init then, so the queues it resets are empty.                     *)
LEMMA BootStep ==
  ASSUME BInv, LifeTypeOK', NEW p \in PE, NEW op, Boot(p, op), booted[p] # 4, booted[p] # 10,
         UNCHANGED <<queue_send, work_queue, finished, fenceVars>>, mem' \in MemType,
         \A q \in PE : q # p => mem'[q] = mem[q] /\ misuse'[q] = misuse[q] /\ alive'[q] = alive[q],
         Clear(p)',
         booted[p] = 7 => mem'[p] = Zeros,
         booted[p] > 7 => mem'[p] = mem[p]
  PROVE  BInv' /\ UNCHANGED C!vars
<1>1. /\ TInv /\ LifeTypeOK /\ FenceInv /\ AllThere /\ ClearInv
      /\ UNCHANGED <<host, prog, pc, i, arrived, left, wire, threads, logs>>
      /\ booted' = [booted EXCEPT ![p] = @ + 1] /\ ~Booted(p)
  BY DEF BInv, Boot, BootCalls
<1>2. \A q \in PE : booted[q] \in 0 .. 11 /\ (Booted(q) <=> booted[q] = 11)
  BY <1>1, BootedFacts
<1>3. booted \in [PE -> 0 .. Len(shmem_init)]
  BY <1>1 DEF LifeTypeOK
<1>4. /\ booted'[p] = booted[p] + 1 /\ \A q \in PE : q # p => booted'[q] = booted[q]
      /\ booted[p] \in 0 .. 9
  BY <1>1, <1>2, <1>3
<1>5. \A q \in PE : ~Booted(q) /\ booted[q] # 11
  BY <1>1, <1>2, <1>4 DEF AllThere
<1>6. Quiet
  BY <1>5 DEF BInv
<1>7. TInv'
  BY <1>1, MemStep
<1>8. \A q \in PE : booted'[q] # 11 /\ booted'[q] \in 0 .. 11
  BY <1>2, <1>4, <1>5
<1>9. \A q \in PE : ~Booted(q)'
  BY <1>8, InitCalls DEF Booted
<1>10. FenceInv'
  <2>1. ASSUME NEW q \in PE
        PROVE  /\ fence_out'[q] = IF booted'[q] < 5 THEN 0 ELSE IF booted'[q] < 11 THEN 1 ELSE 2
               /\ \/ fence_in'[q] = fence_out'[q]
                  \/ (booted'[q] \in {4, 10} /\ fence_in'[q] = fence_out'[q] + 1)
    <3>1. fence_in'[q] = fence_in[q] /\ fence_out'[q] = fence_out[q]
      BY DEF fenceVars
    <3>2. /\ fence_out[q] = IF booted[q] < 5 THEN 0 ELSE IF booted[q] < 11 THEN 1 ELSE 2
          /\ \/ fence_in[q] = fence_out[q]
             \/ (booted[q] \in {4, 10} /\ fence_in[q] = fence_out[q] + 1)
      BY <1>1 DEF FenceInv
    <3>3. CASE q = p
      BY <1>4, <3>1, <3>2, <3>3
    <3>4. CASE q # p
      BY <1>4, <3>1, <3>2, <3>4
    <3> QED BY <3>3, <3>4
  <2> QED BY <2>1 DEF FenceInv
<1>11. AllThere'
  BY <1>9 DEF AllThere
<1>12. ClearInv'
  <2>1. ASSUME NEW q \in PE PROVE Clear(q)'
    <3>1. CASE q = p
      BY <3>1
    <3>2. CASE q # p
      BY <1>1, <1>4, <3>2 DEF ClearInv, Clear, Sane
    <3> QED BY <3>1, <3>2
  <2> QED BY <2>1 DEF ClearInv
<1>13. Quiet'
  BY <1>1, <1>6 DEF Quiet
<1>14. UNCHANGED ClearedMem
  <2>1. ASSUME NEW q \in PE
        PROVE (IF booted[q] < 8 THEN Zeros ELSE mem[q]) = (IF booted'[q] < 8 THEN Zeros ELSE mem'[q])
    <3>1. CASE q # p
      BY <1>4, <3>1
    <3>2. CASE q = p
      <4>1. PICK b \in 0 .. 9 : b = booted[p] /\ b + 1 = booted'[p]
        BY <1>4
      <4>2. CASE b < 7
        BY <3>2, <4>1, <4>2
      <4>3. CASE b = 7
        BY <3>2, <4>1, <4>3
      <4>4. CASE b > 7
        BY <3>2, <4>1, <4>4
      <4> QED BY <4>1, <4>2, <4>3, <4>4
    <3> QED BY <3>1, <3>2
  <2> QED BY <1>1, <2>1, ClearedSame
<1>15. UNCHANGED C!vars
  BY <1>1, <1>14 DEF C!vars, C!mainVars, C!queueVars, C!threads, C!logs, threads, logs
<1> QED BY <1>7, <1>9, <1>10, <1>11, <1>12, <1>13, <1>15 DEF BInv

(* The types of Lifecycle after a call of shmem_init.                      *)
LEMMA BootType ==
  ASSUME BInv, NEW p \in PE, NEW op, Boot(p, op),
         objects' \subseteq PE, region' \in [PE -> SUBSET PE], UNCHANGED <<fenceVars, entered>>,
         alive' \in [PE -> SUBSET Resources], misuse' \in [PE -> SUBSET Misuses]
  PROVE  LifeTypeOK'
<1>1. LifeTypeOK /\ booted' = [booted EXCEPT ![p] = @ + 1] /\ ~Booted(p)
  BY DEF BInv, Boot, BootCalls
<1>2. booted \in [PE -> 0 .. 11] /\ booted[p] # 11
  BY <1>1, InitCalls, BootedFacts DEF LifeTypeOK
<1>3. booted' \in [PE -> 0 .. Len(shmem_init)]
  BY <1>1, <1>2, InitCalls
<1> QED BY <1>1, <1>3 DEF LifeTypeOK, fenceVars

(* What a call of shmem_init leaves alone in Lifecycle, and the place      *)
(* after it.                                                               *)
LEMMA BootFacts ==
  ASSUME BInv, NEW p \in PE, NEW op, Boot(p, op)
  PROVE  /\ BootCalls(p, op) /\ booted[p] \in 0 .. 11 /\ booted'[p] = booted[p] + 1
         /\ mem \in MemType /\ LifeTypeOK
         /\ \A q \in PE : q # p => booted'[q] = booted[q]
         /\ booted[p] < 10 => Quiet
<1>1. /\ TInv /\ LifeTypeOK /\ AllThere /\ booted' = [booted EXCEPT ![p] = @ + 1]
      /\ BootCalls(p, op)
  BY DEF BInv, Boot
<1>2. booted \in [PE -> 0 .. 11]
  BY <1>1, InitCalls DEF LifeTypeOK
<1>3. booted[p] < 10 => \A q \in PE : ~Booted(q)
  BY <1>1, <1>2 DEF AllThere
<1>4. mem \in MemType
  BY <1>1 DEF TInv, TypeOK, MemType, Value
<1> QED BY <1>1, <1>2, <1>3, <1>4 DEF BInv

(* comm_node_init, comm_remote_init and map_locality only make resources.  *)
LEMMA CommInitStep ==
  ASSUME BInv, NEW p \in PE, comm_node_init(p) \/ comm_remote_init(p) \/ map_locality(p)
  PROVE  BInv' /\ UNCHANGED C!vars
<1>1. PICK op \in {"comm_node_init", "comm_remote_init", "map_locality"},
           r \in {"node_region", "servers", "locality_map"} :
        /\ Boot(p, op) /\ Gains(p, {r})
        /\ UNCHANGED <<mem, queue_send, work_queue, finished, shmVars, fenceVars, entered, misuse>>
  BY DEF comm_node_init, comm_remote_init, map_locality
<1>2. /\ mem \in MemType /\ LifeTypeOK /\ booted[p] \in {0, 2, 3} /\ booted'[p] = booted[p] + 1
  BY <1>1, BootFacts, BootCallsFacts
<1>3. LifeTypeOK'
  <2>1. alive' \in [PE -> SUBSET Resources]
    BY <1>1, <1>2 DEF Gains, LifeTypeOK, Resources
  <2> QED BY <1>1, <1>2, <2>1, BootType DEF LifeTypeOK, shmVars
<1>4. /\ "symmetric_heap" \in alive'[p] => "symmetric_heap" \in alive[p]
      /\ \A q \in PE : q # p => alive'[q] = alive[q]
  BY <1>1, <1>2 DEF Gains, LifeTypeOK
<1>5. Clear(p)'
  <2>1. Clear(p)
    BY DEF BInv, ClearInv
  <2>2. PICK m \in {0, 2, 3} : m = booted[p] /\ m + 1 = booted'[p]
    BY <1>2
  <2> QED BY <1>1, <1>4, <2>1, <2>2 DEF Clear, Sane
<1>6. booted[p] # 4 /\ booted[p] # 10 /\ booted[p] # 7 /\ ~(booted[p] > 7)
  BY <1>2
<1> QED BY <1>1, <1>2, <1>3, <1>4, <1>5, <1>6, BootStep

(* comm_local_init clears the memory, whatever an earlier job left there,  *)
(* or the process is gone, or its heap is null.                            *)
LEMMA LocalInitStep ==
  ASSUME BInv, NEW p \in PE, comm_local_init(p)
  PROVE  BInv' /\ UNCHANGED C!vars
<1>1. /\ Boot(p, "comm_local_init")
      /\ UNCHANGED <<queue_send, work_queue, finished, fenceVars, entered>>
  BY DEF comm_local_init
<1>2. PICK r \in ShmResults : shared_mem_create(p, r)
  BY DEF comm_local_init
<1>3. mem \in MemType /\ LifeTypeOK /\ booted[p] = 1 /\ booted'[p] = booted[p] + 1
  BY <1>1, BootFacts, BootCallsFacts
<1>4. Zeros \in [Addr -> Value]
  BY DEF Zeros, Value
<1>5. CASE r = "mapped"
  <2>1. /\ objects' = objects \cup {p} /\ region' = [region EXCEPT ![p] = @ \cup {p}]
        /\ mem' = [mem EXCEPT ![p] = Zeros] /\ Gains(p, {"symmetric_heap"}) /\ UNCHANGED misuse
    BY <1>2, <1>5 DEF shared_mem_create, Zeros
  <2>2. LifeTypeOK'
    <3>1. alive' \in [PE -> SUBSET Resources] /\ region' \in [PE -> SUBSET PE]
      BY <1>3, <2>1 DEF Gains, LifeTypeOK, Resources
    <3> QED BY <1>1, <1>3, <2>1, <3>1, BootType DEF LifeTypeOK
  <2>3. mem' \in MemType /\ mem'[p] = Zeros /\ \A q \in PE : q # p => mem'[q] = mem[q]
    BY <1>3, <1>4, <2>1 DEF MemType
  <2>4. booted[p] # 4 /\ booted[p] # 10 /\ booted[p] # 7 /\ ~(booted[p] > 7)
    BY <1>3
  <2>5. /\ \A q \in PE : q # p => alive'[q] = alive[q]
        /\ booted'[p] = 2
    BY <1>3, <2>1 DEF Gains, LifeTypeOK
  <2>6. Clear(p)'
    BY <2>3, <2>5 DEF Clear
  <2> QED BY <1>1, <2>1, <2>2, <2>3, <2>4, <2>5, <2>6, BootStep
<1>6. CASE r # "mapped"
  <2>1. PICK t \in {{"shm"}, {"shm", "region"}} :
          /\ objects' \in {objects, objects \cup {p}} /\ misuse' = [misuse EXCEPT ![p] = @ \cup t]
          /\ UNCHANGED <<region, mem, alive>>
    BY <1>2, <1>6 DEF shared_mem_create, Records
  <2>2. misuse \in [PE -> SUBSET Misuses]
    BY <1>3 DEF LifeTypeOK
  <2>3. misuse' \in [PE -> SUBSET Misuses]
    BY <2>1, <2>2 DEF Misuses
  <2>4. LifeTypeOK'
    BY <1>1, <1>3, <2>1, <2>3, BootType DEF LifeTypeOK
  <2>5. \A q \in PE : q # p => misuse'[q] = misuse[q]
    BY <2>1, <2>2
  <2>6. Clear(p)'
    <3>1. "symmetric_heap" \notin alive[p]
      BY <1>3 DEF BInv, ClearInv, Clear
    <3>2. booted'[p] = 2
      BY <1>3
    <3> QED BY <2>1, <3>1, <3>2 DEF Clear
  <2>7. booted[p] # 4 /\ booted[p] # 10 /\ booted[p] # 7 /\ ~(booted[p] > 7)
    BY <1>3
  <2> QED BY <1>1, <1>3, <2>1, <2>4, <2>5, <2>6, <2>7, BootStep
<1> QED BY <1>5, <1>6

(* comm_local_wireup maps the other regions; if the heap is null the       *)
(* process is gone.                                                        *)
LEMMA LocalWireupStep ==
  ASSUME BInv, NEW p \in PE, comm_local_wireup(p)
  PROVE  BInv' /\ UNCHANGED C!vars
<1>1. /\ Boot(p, "comm_local_wireup")
      /\ UNCHANGED <<mem, queue_send, work_queue, finished, objects, fenceVars, entered, alive>>
  BY DEF comm_local_wireup
<1>2. mem \in MemType /\ LifeTypeOK /\ booted[p] = 5 /\ booted'[p] = booted[p] + 1
  BY <1>1, BootFacts, BootCallsFacts
<1>3. misuse \in [PE -> SUBSET Misuses] /\ region \in [PE -> SUBSET PE]
  BY <1>2 DEF LifeTypeOK
<1>4. Clear(p)
  BY DEF BInv, ClearInv
<1>5. booted[p] # 4 /\ booted[p] # 10 /\ booted[p] # 7 /\ ~(booted[p] > 7) /\ booted'[p] = 6
  BY <1>2
<1>6. PICK t \in {{}, {"shm"}, {"region"}}, S \in SUBSET PE :
        /\ misuse' = [misuse EXCEPT ![p] = @ \cup t] /\ region' = [region EXCEPT ![p] = @ \cup S]
        /\ t # {"region"} => "symmetric_heap" \in alive[p]
  <2>1. CASE "symmetric_heap" \in alive[p]
    <3>1. PICK r \in [{q \in PE : q # p /\ Local(p, q)} -> ShmResults] :
            /\ region' = [region EXCEPT ![p] = @ \cup shared_mem_open(r)]
            /\ Records(p, IF shared_mem_open(r) = DOMAIN r THEN {} ELSE {"shm"})
      BY <2>1 DEF comm_local_wireup
    <3>2. shared_mem_open(r) \in SUBSET PE
      BY DEF shared_mem_open
    <3>3. CASE shared_mem_open(r) = DOMAIN r
      <4>1. misuse' = [misuse EXCEPT ![p] = @ \cup {}]
        BY <3>1, <3>3 DEF Records
      <4> QED BY <2>1, <3>1, <3>2, <4>1
    <3>4. CASE shared_mem_open(r) # DOMAIN r
      <4>1. misuse' = [misuse EXCEPT ![p] = @ \cup {"shm"}]
        BY <3>1, <3>4 DEF Records
      <4> QED BY <2>1, <3>1, <3>2, <4>1
    <3> QED BY <3>3, <3>4
  <2>2. CASE "symmetric_heap" \notin alive[p]
    <3>1. Records(p, {"region"}) /\ UNCHANGED region
      BY <2>2 DEF comm_local_wireup
    <3>2. region = [region EXCEPT ![p] = @ \cup {}]
      BY <1>3
    <3>3. region' = [region EXCEPT ![p] = @ \cup {}] /\ misuse' = [misuse EXCEPT ![p] = @ \cup {"region"}]
      BY <3>1, <3>2 DEF Records
    <3>4. {} \in SUBSET PE /\ {"region"} \in {{}, {"shm"}, {"region"}}
      OBVIOUS
    <3> QED BY <3>3, <3>4
  <2> QED BY <2>1, <2>2
<1>7. LifeTypeOK'
  <2>1. misuse' \in [PE -> SUBSET Misuses] /\ region' \in [PE -> SUBSET PE]
    BY <1>3, <1>6 DEF Misuses
  <2> QED BY <1>1, <1>2, <2>1, BootType DEF LifeTypeOK
<1>8. /\ \A q \in PE : q # p => misuse'[q] = misuse[q]
      /\ misuse[p] \subseteq misuse'[p] /\ (t = {"region"} => "region" \in misuse'[p])
  BY <1>3, <1>6
<1>9. Clear(p)'
  <2>1. CASE t = {"region"}
    BY <1>5, <1>8, <2>1 DEF Clear, Sane
  <2>2. CASE t # {"region"}
    <3>1. Sane(p)' => Sane(p)
      BY <1>8 DEF Sane
    <3>2. Sane(p) => mem[p] = Zeros
      BY <1>2, <1>4, <1>6, <2>2 DEF Clear
    <3> QED BY <1>1, <1>5, <3>1, <3>2 DEF Clear
  <2> QED BY <2>1, <2>2
<1> QED BY <1>1, <1>2, <1>5, <1>7, <1>8, <1>9, BootStep

(* The return from comm_remote_wireup.                                     *)
LEMMA WireupStep ==
  ASSUME BInv, NEW p \in PE, WireupLeave(p)
  PROVE  BInv' /\ UNCHANGED C!vars
<1>1. /\ Boot(p, "comm_remote_wireup") /\ alive' = [alive EXCEPT ![p] = @ \ {"servers"}]
      /\ UNCHANGED <<mem, queue_send, work_queue, finished, shmVars, fenceVars, entered, misuse>>
  BY DEF WireupLeave
<1>2. mem \in MemType /\ LifeTypeOK /\ booted[p] = 6 /\ booted'[p] = booted[p] + 1
  BY <1>1, BootFacts, BootCallsFacts
<1>3. alive' \in [PE -> SUBSET Resources] /\ \A q \in PE : q # p => alive'[q] = alive[q]
  BY <1>1, <1>2 DEF LifeTypeOK
<1>4. LifeTypeOK'
  BY <1>1, <1>2, <1>3, BootType DEF LifeTypeOK, shmVars
<1>5. booted[p] # 4 /\ booted[p] # 10 /\ booted[p] # 7 /\ ~(booted[p] > 7) /\ booted'[p] = 7
  BY <1>2
<1>6. Clear(p)'
  <2>1. Clear(p)
    BY DEF BInv, ClearInv
  <2> QED BY <1>1, <1>2, <1>5, <2>1 DEF Clear, Sane
<1> QED BY <1>1, <1>2, <1>3, <1>4, <1>5, <1>6, BootStep

(* create_pSync finds clear memory, so that what C saw as clear is what it *)
(* then sees.                                                              *)
LEMMA PSyncStep ==
  ASSUME BInv, NEW p \in PE, Sane(p), create_pSync(p)
  PROVE  BInv' /\ UNCHANGED C!vars
<1>1. /\ Boot(p, "create_pSync")
      /\ mem' = [mem EXCEPT ![p] = [a \in Addr |-> IF a \in PE THEN 0 ELSE mem[p][a]]]
      /\ UNCHANGED <<queue_send, work_queue, finished, shmVars, fenceVars, entered, alive, misuse>>
  BY DEF create_pSync
<1>2. mem \in MemType /\ LifeTypeOK /\ booted[p] = 7 /\ booted'[p] = booted[p] + 1
  BY <1>1, BootFacts, BootCallsFacts
<1>3. mem[p] = Zeros
  BY <1>2 DEF BInv, ClearInv, Clear
<1>4. [a \in Addr |-> IF a \in PE THEN 0 ELSE mem[p][a]] = Zeros
  BY <1>3 DEF Zeros
<1>5. Zeros \in [Addr -> Value]
  BY DEF Zeros, Value
<1>6. mem' \in MemType /\ mem'[p] = Zeros /\ \A q \in PE : q # p => mem'[q] = mem[q]
  BY <1>1, <1>2, <1>4, <1>5 DEF MemType
<1>7. LifeTypeOK'
  BY <1>1, <1>2, BootType DEF LifeTypeOK, shmVars
<1>8. booted[p] # 4 /\ booted[p] # 10 /\ ~(booted[p] > 7) /\ booted'[p] = 8
  BY <1>2
<1>9. Clear(p)'
  BY <1>8 DEF Clear
<1> QED BY <1>1, <1>6, <1>7, <1>8, <1>9, BootStep

(* comm_remote_start and work_start reset queues and flags that nobody has *)
(* used: every PE is before the second fence.                              *)
LEMMA StartStep ==
  ASSUME BInv, NEW p \in PE, comm_remote_start(p) \/ work_start(p)
  PROVE  BInv' /\ UNCHANGED C!vars
<1>1. PICK op \in {"comm_remote_start", "work_start"}, r \in Resources :
        /\ Boot(p, op) /\ Gains(p, {r})
        /\ UNCHANGED <<mem, shmVars, fenceVars, entered, misuse>>
  BY DEF comm_remote_start, work_start, Resources
<1>2. mem \in MemType /\ LifeTypeOK /\ booted[p] \in {8, 9} /\ booted'[p] = booted[p] + 1 /\ Quiet
  BY <1>1, BootFacts, BootCallsFacts
<1>3. UNCHANGED <<queue_send, work_queue, finished>>
  <2>1. /\ queue_send' = queue_send \/ queue_send' = [queue_send EXCEPT ![p] = << >>]
        /\ work_queue' = work_queue \/ work_queue' = [work_queue EXCEPT ![p] = << >>]
        /\ finished' \in {[finished EXCEPT ![p] = @ \ {"comm"}], [finished EXCEPT ![p] = @ \ {"work"}]}
    BY DEF comm_remote_start, work_start
  <2> QED BY <1>2, <2>1 DEF Quiet
<1>4. LifeTypeOK'
  <2>1. alive' \in [PE -> SUBSET Resources]
    BY <1>1, <1>2 DEF Gains, LifeTypeOK
  <2> QED BY <1>1, <1>2, <2>1, BootType DEF LifeTypeOK, shmVars
<1>5. booted[p] # 4 /\ booted[p] # 10 /\ booted[p] # 7 /\ ~(booted'[p] \in 2 .. 7) /\ ~(booted'[p] < 2)
  BY <1>2
<1>6. Clear(p)' /\ \A q \in PE : q # p => alive'[q] = alive[q]
  BY <1>1, <1>2, <1>5 DEF Clear, Gains, LifeTypeOK
<1> QED BY <1>1, <1>2, <1>3, <1>4, <1>5, <1>6, BootStep

(* Calling PMIx_Fence.                                                     *)
LEMMA FenceEnterStep ==
  ASSUME BInv, NEW p \in PE, FenceEnter(p)
  PROVE  BInv' /\ UNCHANGED C!vars
<1>1. /\ BootCalls(p, "rte_barrier_all")
      /\ fence_in[p] = fence_out[p] /\ fence_in[p] < 2
      /\ fence_in' = [fence_in EXCEPT ![p] = @ + 1] /\ fence_out' = fence_out
      /\ UNCHANGED <<vars, booted, shmVars, entered, alive, misuse>>
  BY DEF FenceEnter, Fence!Arrive
<1>2. TInv /\ LifeTypeOK /\ FenceInv /\ AllThere /\ ClearInv
  BY DEF BInv
<1>3. booted[p] \in {4, 10}
  BY <1>1, <1>2, BootCallsFacts
<1>4. UNCHANGED <<host, prog, pc, i, arrived, left, mem, finished, queue_send, wire, work_queue, threads, logs>>
  BY <1>1 DEF vars, mainVars, queueVars
<1>5. TInv'
  <2>1. mem' \in MemType
    BY <1>2, <1>4 DEF TInv, TypeOK, MemType, Value
  <2> QED BY <1>2, <1>4, <2>1, MemStep
<1>6. fence_in \in [PE -> 0 .. 2] /\ fence_out \in [PE -> 0 .. 2]
  BY <1>2 DEF LifeTypeOK
<1>7. fence_in' \in [PE -> 0 .. 2] /\ fence_in'[p] = fence_out[p] + 1
      /\ \A q \in PE : q # p => fence_in'[q] = fence_in[q]
  BY <1>1, <1>6
<1>8. LifeTypeOK'
  BY <1>1, <1>2, <1>6, <1>7 DEF LifeTypeOK, shmVars
<1>9. FenceInv'
  <2>1. ASSUME NEW q \in PE
        PROVE  /\ fence_out'[q] = IF booted'[q] < 5 THEN 0 ELSE IF booted'[q] < 11 THEN 1 ELSE 2
               /\ \/ fence_in'[q] = fence_out'[q]
                  \/ (booted'[q] \in {4, 10} /\ fence_in'[q] = fence_out'[q] + 1)
    BY <1>1, <1>2, <1>3, <1>7 DEF FenceInv
  <2> QED BY <2>1 DEF FenceInv
<1>10. AllThere' /\ ClearInv'
  BY <1>1, <1>2, <1>4 DEF AllThere, ClearInv, Clear, Booted, Sane
<1>11. (\A q \in PE : ~Booted(q)) => Quiet
  BY DEF BInv
<1>12. (\A q \in PE : ~Booted(q)') => Quiet'
  BY <1>1, <1>4, <1>11 DEF Booted, Quiet
<1>13. UNCHANGED ClearedMem
  BY <1>1, <1>4 DEF ClearedMem, Ahead
<1>14. UNCHANGED C!vars
  BY <1>4, <1>13 DEF C!vars, C!mainVars, C!queueVars, C!threads, C!logs, threads, logs
<1> QED BY <1>5, <1>8, <1>9, <1>10, <1>12, <1>14 DEF BInv

(* Calling comm_remote_wireup.                                             *)
LEMMA WireupEnterStep ==
  ASSUME BInv, NEW p \in PE, WireupEnter(p)
  PROVE  BInv' /\ UNCHANGED C!vars
<1>1. entered' = entered \cup {p} /\ UNCHANGED <<vars, booted, shmVars, fenceVars, alive, misuse>>
  BY DEF WireupEnter
<1>2. TInv /\ LifeTypeOK /\ FenceInv /\ AllThere /\ ClearInv
  BY DEF BInv
<1>3. UNCHANGED <<host, prog, pc, i, arrived, left, mem, finished, queue_send, wire, work_queue, threads, logs>>
  BY <1>1 DEF vars, mainVars, queueVars
<1>4. TInv'
  <2>1. mem' \in MemType
    BY <1>2, <1>3 DEF TInv, TypeOK, MemType, Value
  <2> QED BY <1>2, <1>3, <2>1, MemStep
<1>5. LifeTypeOK'
  BY <1>1, <1>2 DEF LifeTypeOK, shmVars, fenceVars
<1>6. FenceInv' /\ AllThere' /\ ClearInv'
  BY <1>1, <1>2, <1>3 DEF FenceInv, AllThere, ClearInv, Clear, Booted, Sane, fenceVars
<1>7. (\A q \in PE : ~Booted(q)) => Quiet
  BY DEF BInv
<1>8. (\A q \in PE : ~Booted(q)') => Quiet'
  BY <1>1, <1>3, <1>7 DEF Booted, Quiet
<1>9. UNCHANGED ClearedMem
  BY <1>1, <1>3 DEF ClearedMem, Ahead
<1>10. UNCHANGED C!vars
  BY <1>3, <1>9 DEF C!vars, C!mainVars, C!queueVars, C!threads, C!logs, threads, logs
<1> QED BY <1>4, <1>5, <1>6, <1>8, <1>10 DEF BInv

(* Returning from PMIx_Fence: from the second one when every PE has called *)
(* it, that is with its threads started and its __pSync clear.             *)
LEMMA FenceLeaveStep ==
  ASSUME BInv, NEW p \in PE, FenceLeave(p)
  PROVE  BInv' /\ UNCHANGED C!vars
<1>1. /\ Boot(p, "rte_barrier_all")
      /\ fence_out[p] < fence_in[p] /\ \A q \in PE : fence_in[q] >= fence_in[p]
      /\ fence_out' = [fence_out EXCEPT ![p] = @ + 1] /\ fence_in' = fence_in
      /\ UNCHANGED <<mem, queue_send, work_queue, finished, shmVars, entered, alive, misuse>>
  BY DEF FenceLeave, Fence!Leave
<1>2. TInv /\ LifeTypeOK /\ FenceInv /\ AllThere /\ ClearInv
  BY DEF BInv
<1>3. /\ booted[p] \in {4, 10} /\ booted'[p] = booted[p] + 1
      /\ \A q \in PE : q # p => booted'[q] = booted[q]
      /\ booted' = [booted EXCEPT ![p] = @ + 1]
  BY <1>1, <1>2, BootFacts, BootCallsFacts DEF Boot
<1>4. UNCHANGED <<host, prog, pc, i, arrived, left, mem, finished, queue_send, wire, work_queue, threads, logs>>
  BY <1>1 DEF Boot
<1>5. TInv'
  <2>1. mem' \in MemType
    BY <1>2, <1>4 DEF TInv, TypeOK, MemType, Value
  <2> QED BY <1>2, <1>4, <2>1, MemStep
<1>6. fence_in \in [PE -> 0 .. 2] /\ fence_out \in [PE -> 0 .. 2] /\ booted \in [PE -> 0 .. 11]
  BY <1>2, InitCalls DEF LifeTypeOK
<1>7. /\ fence_out[p] = (IF booted[p] = 4 THEN 0 ELSE 1) /\ fence_in[p] = fence_out[p] + 1
  BY <1>1, <1>2, <1>3, <1>6 DEF FenceInv
<1>8. fence_out' \in [PE -> 0 .. 2] /\ fence_out'[p] = fence_out[p] + 1
      /\ \A q \in PE : q # p => fence_out'[q] = fence_out[q]
  BY <1>1, <1>6, <1>7
<1>9. booted' \in [PE -> 0 .. 11]
  BY <1>3, <1>6
<1>10. LifeTypeOK'
  BY <1>1, <1>2, <1>6, <1>8, <1>9, InitCalls DEF LifeTypeOK, shmVars
<1>11. FenceInv'
  <2>1. ASSUME NEW q \in PE
        PROVE  /\ fence_out'[q] = IF booted'[q] < 5 THEN 0 ELSE IF booted'[q] < 11 THEN 1 ELSE 2
               /\ \/ fence_in'[q] = fence_out'[q]
                  \/ (booted'[q] \in {4, 10} /\ fence_in'[q] = fence_out'[q] + 1)
    <3>1. CASE q = p
      BY <1>1, <1>3, <1>7, <1>8, <3>1
    <3>2. CASE q # p
      BY <1>1, <1>2, <1>3, <1>8, <3>2 DEF FenceInv
    <3> QED BY <3>1, <3>2
  <2> QED BY <2>1 DEF FenceInv
<1>12. \A q \in PE : /\ Booted(q)  <=> booted[q] = 11
                     /\ Booted(q)' <=> booted'[q] = 11
  BY InitCalls DEF Booted
<1>13. AllThere'
  <2>1. ASSUME NEW s \in PE, booted'[s] = 11, NEW q \in PE PROVE booted'[q] >= 10
    <3>1. CASE s # p
      <4>1. booted[s] = 11
        BY <1>3, <2>1, <3>1
      <4>2. booted[q] >= 10
        BY <1>2, <1>12, <4>1 DEF AllThere
      <4> QED BY <1>3, <1>6, <4>2
    <3>2. CASE s = p
      <4>1. booted[p] = 10
        BY <1>3, <2>1, <3>2
      <4>2. fence_in[p] = 2
        BY <1>7, <4>1
      <4>3. fence_in[q] = 2
        BY <1>1, <1>6, <4>2
      <4>4. booted[q] >= 10
        BY <1>2, <1>6, <4>3 DEF FenceInv
      <4> QED BY <1>3, <1>6, <4>4
    <3> QED BY <3>1, <3>2
  <2> QED BY <1>12, <2>1 DEF AllThere
<1>14. ClearInv'
  <2>1. ASSUME NEW q \in PE PROVE Clear(q)'
    <3>1. Clear(q)
      BY <1>2 DEF ClearInv
    <3>2. CASE q = p
      BY <1>1, <1>3, <3>1, <3>2 DEF Clear, Sane
    <3>3. CASE q # p
      BY <1>1, <1>3, <3>1, <3>3 DEF Clear, Sane
    <3> QED BY <3>2, <3>3
  <2> QED BY <2>1 DEF ClearInv
<1>15. (\A q \in PE : ~Booted(q)) => Quiet
  BY DEF BInv
<1>16. (\A q \in PE : ~Booted(q)') => \A q \in PE : ~Booted(q)
  <2>1. ASSUME NEW q \in PE, booted[q] = 11 PROVE booted'[q] = 11
    BY <1>3, <2>1
  <2> QED BY <1>12, <2>1
<1>17. (\A q \in PE : ~Booted(q)') => Quiet'
  BY <1>4, <1>15, <1>16 DEF Quiet
<1>18. UNCHANGED ClearedMem
  <2>1. ASSUME NEW q \in PE
        PROVE (IF booted[q] < 8 THEN Zeros ELSE mem[q]) = (IF booted'[q] < 8 THEN Zeros ELSE mem'[q])
    BY <1>1, <1>3
  <2> QED BY <1>2, <1>10, <2>1, ClearedSame
<1>19. UNCHANGED C!vars
  BY <1>4, <1>18 DEF C!vars, C!mainVars, C!queueVars, C!threads, C!logs, threads, logs
<1> QED BY <1>5, <1>10, <1>11, <1>13, <1>14, <1>17, <1>19 DEF BInv

(* So every step of shmem_init is a stutter of C.                          *)
LEMMA InitialiseStep ==
  ASSUME BInv, NEW p \in PE, Sane(p), Initialise(p)
  PROVE  BInv' /\ UNCHANGED C!vars
BY CommInitStep, LocalInitStep, FenceEnterStep, FenceLeaveStep, LocalWireupStep, WireupStep, WireupEnterStep,
   PSyncStep, StartStep
   DEF Initialise

(* What a step of Comm touches and releases has its types.                 *)
LEMMA EffectsType ==
  ASSUME LifeTypeOK, NEW p \in PE, Effects(p)
  PROVE  LifeTypeOK' /\ UNCHANGED <<booted, fence_in, fence_out>>
         /\ \A q \in PE : misuse[q] \subseteq misuse'[q] /\ alive'[q] \subseteq alive[q]
<1>1. UNCHANGED <<booted, objects, fence_in, fence_out, entered>>
  BY DEF Effects, fenceVars
<1>2. misuse' = [misuse EXCEPT ![p] = @ \cup (Touched(p) \ alive[p])]
  BY DEF Effects, Records
<1>3. Touched(p) \subseteq Misuses
  BY DEF Touched
<1>4. misuse \in [PE -> SUBSET Misuses]
  BY DEF LifeTypeOK
<1>5. /\ misuse' \in [PE -> SUBSET Misuses]
      /\ \A q \in PE : misuse[q] \subseteq misuse'[q]
  BY <1>2, <1>3, <1>4
<1> DEFINE gone == UNION {Frees[op] : op \in {o \in DOMAIN Frees : Ends(p, o)}}
<1>6. alive' = [alive EXCEPT ![p] = @ \ gone]
  BY DEF Effects
<1> HIDE DEF gone
<1>7. alive' \in [PE -> SUBSET Resources] /\ \A q \in PE : alive'[q] \subseteq alive[q]
  BY <1>6 DEF LifeTypeOK
<1>8. region' \in [PE -> SUBSET PE]
  BY DEF Effects, shared_mem_close, LifeTypeOK
<1> QED BY <1>1, <1>5, <1>7, <1>8 DEF LifeTypeOK

(* Before the first PE has returned from shmem_init the worker finds no    *)
(* job, and the communication thread no packet and no reason to end.       *)
LEMMA QuietStep ==
  ASSUME Quiet, NEW p \in PE, Worker(p) \/ CommThread(p)
  PROVE  Quiet' /\ UNCHANGED mem /\ CommThread(p)
<1>1. /\ queue_send[p] = << >> /\ work_queue[p] = << >> /\ finished[p] = {}
      /\ \A s \in PE : wire[s][p] = << >>
  BY DEF Quiet
<1>2. ~Worker(p)
  BY <1>1 DEF Worker, Execute, WorkerExit
<1>3. ASSUME NEW s \in PE
      PROVE  ~ReceiveBadPacket(p, s) /\ ~ReceivePacket(p, s) /\ ~ReceiveMisframed(p, s)
  <2>1. wire[s][p] = << >> /\ ~(Len(<< >>) >= 2)
    BY <1>1
  <2> QED BY <2>1 DEF ReceiveBadPacket, ReceivePacket, ReceiveMisframed, IsHeader
<1>4. ~Send(p)
  BY <1>1 DEF Send
<1>5. Check(p) \/ Received(p) \/ Sent(p) \/ \E s \in PE : ReceiveNothing(p, s)
  BY <1>2, <1>3, <1>4 DEF CommThread
<1>6. UNCHANGED <<queue_send, wire, work_queue, finished, mem>>
  BY <1>5 DEF Check, Received, Sent, ReceiveNothing, Polls, mainVars, queueVars
<1> QED BY <1>2, <1>6 DEF Quiet

(* A step of a thread that exists is a step of C: if some PE has returned  *)
(* from shmem_init then no memory counts as clear any more, and otherwise  *)
(* the step does not touch memory.                                         *)
LEMMA RunningStep ==
  ASSUME BInv, NEW p \in PE, Effects(p),
         \/ Booted(p) /\ MainThread(p)
         \/ ~Ahead(p, "work_start") /\ Worker(p)
         \/ ~Ahead(p, "comm_remote_start") /\ CommThread(p)
  PROVE  BInv' /\ C!Next
<1>1. TInv /\ LifeTypeOK /\ FenceInv /\ AllThere /\ ClearInv
  BY DEF BInv
<1>2. /\ LifeTypeOK' /\ UNCHANGED <<booted, fence_in, fence_out>>
      /\ \A q \in PE : misuse[q] \subseteq misuse'[q] /\ alive'[q] \subseteq alive[q]
  BY <1>1, EffectsType
<1>3. MainThread(p) \/ Worker(p) \/ CommThread(p)
  OBVIOUS
<1>4. Next
  BY <1>3 DEF Next
<1>5. TInv'
  BY <1>1, <1>4, NextTInv
<1>6. mem \in MemType /\ mem' \in MemType
  BY <1>1, <1>5 DEF TInv, TypeOK, MemType, Value
<1>7. FenceInv' /\ AllThere'
  BY <1>1, <1>2 DEF FenceInv, AllThere, Booted
<1>8. \A q \in PE : Booted(q)' <=> Booted(q)
  BY <1>2 DEF Booted
<1>9. \A q \in PE : Sane(q)' => Sane(q)
  BY <1>2 DEF Sane
<1>10. PE = C!PE
  BY DEF PE, C!PE
<1>11. CASE \E q \in PE : Booted(q)
  <2>1. \A q \in PE : booted[q] \in 0 .. 11 /\ booted[q] >= 10
    BY <1>1, <1>11, BootedFacts DEF AllThere
  <2>2. \A q \in PE : ~(booted[q] < 8) /\ booted[q] \notin 2 .. 7 /\ ~(booted[q] < 2)
    BY <2>1
  <2>3. \A q \in PE : ~Ahead(q, "create_pSync")
    BY <1>1, <2>2, BootedFacts
  <2>4. \A q \in PE : ~Ahead(q, "create_pSync")'
    BY <1>2, <2>3 DEF Ahead
  <2>5. ClearedMem = mem /\ ClearedMem' = mem'
    BY <1>6, <2>3, <2>4 DEF ClearedMem, MemType
  <2>6. C!MainThread(p) \/ C!Worker(p) \/ C!CommThread(p)
    <3>1. UNCHANGED mem => UNCHANGED ClearedMem
      BY <2>5
    <3> QED BY <1>3, <2>5, <3>1, SameMain, SameWorker, SameCommThread
  <2>7. C!Next
    BY <1>10, <2>6 DEF C!Next
  <2>8. ClearInv'
    BY <1>2, <2>2 DEF ClearInv, Clear
  <2> QED BY <1>2, <1>5, <1>7, <1>8, <1>11, <2>7, <2>8 DEF BInv
<1>12. CASE \A q \in PE : ~Booted(q)
  <2>1. Quiet /\ ~Booted(p)
    BY <1>12 DEF BInv
  <2>2. Quiet' /\ UNCHANGED mem /\ CommThread(p)
    BY <2>1, QuietStep
  <2>3. UNCHANGED ClearedMem
    BY <1>2, <2>2 DEF ClearedMem, Ahead
  <2>4. C!CommThread(p)
    BY <2>2, <2>3, SameCommThread
  <2>5. C!Next
    BY <1>10, <2>4 DEF C!Next
  <2>6. ClearInv'
    <3>1. ASSUME NEW q \in PE PROVE Clear(q)'
      <4>1. /\ Clear(q) /\ (Sane(q)' => Sane(q)) /\ alive'[q] \subseteq alive[q]
            /\ booted'[q] = booted[q] /\ mem'[q] = mem[q]
        BY <1>1, <1>2, <1>9, <2>2 DEF ClearInv
      <4> QED BY <4>1 DEF Clear
    <3> QED BY <3>1 DEF ClearInv
  <2> QED BY <1>2, <1>5, <1>7, <2>2, <2>5, <2>6 DEF BInv
<1> QED BY <1>11, <1>12

(* Initially nothing has been called, and what an earlier job left in      *)
(* memory is not seen by C.                                                *)
LEMMA InitBInv ==
  ASSUME LifeInit
  PROVE  BInv /\ C!Init
<1>1. PICK j \in Jobs : host = j.host /\ prog = j.prog
  BY DEF LifeInit
<1>2. host \in [PE -> Hosts] /\ prog \in [PE -> Seq(Call)] /\ ProgInv
  BY <1>1, JobsAssumption DEF ProgInv, UserOps
<1>3. 1 \in 1 .. N /\ 0 \in 0 .. MaxRounds /\ 0 \in PE /\ \A k \in Leaves : k \in PE
  BY CommAssumption, PEFacts
<1>4. /\ Idle /\ booted = [p \in PE |-> 0] /\ objects \subseteq PE
      /\ region = [p \in PE |-> {}] /\ entered = {} /\ alive = [p \in PE |-> {}] /\ misuse = [p \in PE |-> {}]
      /\ fence_in = [p \in PE |-> 0] /\ fence_out = [p \in PE |-> 0]
  BY DEF LifeInit, Fence!Init
<1>5. mem \in [PE -> [Addr -> Nat \cup {Garbage}]]
  BY DEF LifeInit
<1>6. TypeOK
  BY <1>2, <1>3, <1>4, <1>5 DEF Idle, TypeOK
<1>7. WorkInv /\ LoopInv /\ CallInv
  BY <1>3, <1>4 DEF Idle, WorkInv, LoopInv, CallInv, CallOK, Inside, Bit
<1>8. LifeTypeOK
  BY <1>4, InitCalls DEF LifeTypeOK
<1>9. \A p \in PE : booted[p] = 0 /\ ~Booted(p)
  BY <1>4, InitCalls DEF Booted
<1>10. FenceInv /\ AllThere /\ ClearInv
  BY <1>4, <1>9 DEF FenceInv, AllThere, ClearInv, Clear
<1>11. Quiet
  BY <1>4 DEF Idle, Quiet
<1>12. ClearedMem = [p \in PE |-> [a \in Addr |-> 0]]
  <2>1. \A p \in PE : Ahead(p, "create_pSync")
    BY <1>8, <1>9, BootedFacts
  <2> QED BY <2>1 DEF ClearedMem
<1>13. C!Init
  BY <1>1, <1>4, <1>12 DEF C!Init, C!Idle, Idle, C!PE, PE, C!Addr, Addr
<1> QED BY <1>2, <1>6, <1>7, <1>8, <1>10, <1>11, <1>13 DEF BInv, TInv

(* Every step of every PE keeps BInv and is a step or a stutter of C.      *)
LEMMA NextBInv ==
  ASSUME BInv, [LifeNext]_lifeVars
  PROVE  BInv' /\ [C!Next]_(C!vars)
<1>1. ASSUME NEW p \in PE, LifeMain(p) PROVE BInv' /\ [C!Next]_(C!vars)
  BY <1>1, InitialiseStep, RunningStep DEF LifeMain
<1>2. ASSUME NEW p \in PE, LifeWorker(p) PROVE BInv' /\ [C!Next]_(C!vars)
  BY <1>2, RunningStep DEF LifeWorker
<1>3. ASSUME NEW p \in PE, LifeComm(p) PROVE BInv' /\ [C!Next]_(C!vars)
  BY <1>3, RunningStep DEF LifeComm
<1>4. CASE UNCHANGED lifeVars
  <2>1. /\ UNCHANGED <<host, prog, pc, i, arrived, left, mem, finished, queue_send, wire, work_queue, threads, logs>>
        /\ UNCHANGED <<booted, objects, region, fence_in, fence_out, entered, alive, misuse>>
    BY <1>4 DEF lifeVars, vars, mainVars, queueVars, shmVars, fenceVars
  <2>2. TInv'
    <3>1. TInv /\ mem' \in MemType
      BY <2>1 DEF BInv, TInv, TypeOK, MemType, Value
    <3> QED BY <2>1, <3>1, MemStep
  <2>3. UNCHANGED ClearedMem
    BY <2>1 DEF ClearedMem, Ahead
  <2>4. UNCHANGED C!vars
    BY <2>1, <2>3 DEF C!vars, C!mainVars, C!queueVars, C!threads, C!logs, threads, logs
  <2>5. /\ LifeTypeOK /\ FenceInv /\ AllThere /\ ClearInv
        /\ (\A p \in PE : ~Booted(p)) => Quiet
    BY DEF BInv
  <2>6. LifeTypeOK' /\ FenceInv' /\ AllThere' /\ ClearInv'
    BY <2>1, <2>5 DEF LifeTypeOK, FenceInv, AllThere, ClearInv, Clear, Booted, Sane
  <2>7. (\A p \in PE : ~Booted(p)') => Quiet'
    BY <2>1, <2>5 DEF Booted, Quiet
  <2> QED BY <2>2, <2>4, <2>6, <2>7 DEF BInv
<1> QED BY <1>1, <1>2, <1>3, <1>4 DEF LifeNext, LifeEnded

(* Lifecycle.LifeTypeOK: regions, fences, resources and misuses keep their *)
(* types from shmem_init to rte_finalize, for any number of PEs and any    *)
(* program, with and without failing system calls.                         *)
THEOREM LifeTypeCorrect == LifeSpec => []LifeTypeOK
<1>1. LifeInit => BInv
  BY InitBInv
<1>2. BInv /\ [LifeNext]_lifeVars => BInv'
  BY NextBInv
<1>3. BInv => LifeTypeOK
  BY DEF BInv
<1> QED BY <1>1, <1>2, <1>3, PTL DEF LifeSpec

(* Lifecycle.ImplementsComm: the library, started by shmem_init with PEs   *)
(* at different places of it (shmem.c:40-65, comm.c:57-92), behaves as     *)
(* Comm, which starts where all of them have returned. No put lands in     *)
(* memory that is then cleared (shared_mem.c:81, comm.c:80), no packet is  *)
(* forgotten by a queue that is then set up (comm_remote.c:333,            *)
(* work.c:100), and nothing of an earlier job is left. It holds for any    *)
(* program, also when shm_open and mmap fail, and for any number of PEs    *)
(* placed so that wireup connects all PEs of different hosts               *)
(* (WiringAssumption of Comm, which up to six PEs always holds); a PE's    *)
(* return from wireup waits only for those it connects with.               *)
THEOREM LibraryImplementsComm == LifeSpec => ImplementsComm
<1>1. LifeInit => BInv /\ C!Init
  BY InitBInv
<1>2. BInv /\ [LifeNext]_lifeVars => BInv' /\ [C!Next]_(C!vars)
  BY NextBInv
<1> QED BY <1>1, <1>2, PTL DEF LifeSpec, ImplementsComm, C!Spec
=============================================================================
