-------------------------------- MODULE Comm ---------------------------------
(***************************************************************************)
(* One-sided communication between running PEs: the main thread of each PE *)
(* makes the calls of shmem.c; its worker thread (job/work.c) executes the *)
(* queued jobs; its communication thread (comm/comm_remote.c) moves        *)
(* packets between the send queue, the sockets and the work queue.         *)
(*                                                                         *)
(* Memory is the symmetric heap of each PE: the offsets 0 .. N-1 are the   *)
(* array __pSync, which comm_wireup allocates first, and the following     *)
(* NData offsets are the user's.  A datum is one value.                    *)
(*                                                                         *)
(* A packet is written to the socket as three cells: two for the header    *)
(* (packet_t), one for the data.  With Splits a reader can find any prefix *)
(* of what was written, which TCP permits; without, it finds whole writes  *)
(* only.  SockCap is what the buffers of one connection hold: the sockets  *)
(* are non-blocking, so a write that does not fit is cut short.            *)
(***************************************************************************)
EXTENDS Integers, Sequences, FiniteSets, SequencesExt

CONSTANTS
  N,          \* number of PEs
  Hosts,      \* host names
  NData,      \* user variables in the symmetric heap
  Jobs,       \* the parallel jobs considered: records [host, prog]
  MaxRounds,  \* bound: no program calls more barriers than this
  Splits,     \* may a read return part of what a write sent?
  SockCap     \* bound: cells the buffers of one connection hold

ASSUME CommAssumption ==
  /\ N \in Nat \ {0} /\ NData \in Nat /\ MaxRounds \in Nat
  /\ Splits \in BOOLEAN /\ SockCap \in Nat

PE     == 0 .. N - 1
Leaves == 1 .. N - 1
Addr   == 0 .. N + NData - 1

(* A call of the program, with the arguments the call has. *)
Call == [op : {"store", "put", "put_nbi", "get", "get_nbi", "barrier", "quiet",
               "work_finalize", "comm_remote_finalize", "comm_local_finalize",
               "comm_node_finalize", "comm_heap_free", "rte_finalize"},
         dest : Addr, src : Addr, pe : PE]

(* Programs do not write to __pSync, an allocation of the library's own.   *)
ASSUME JobsAssumption ==
  \A j \in Jobs :
    /\ j.host \in [PE -> Hosts] /\ j.prog \in [PE -> Seq(Call)]
    /\ \A p \in PE : \A n \in DOMAIN j.prog[p] :
         j.prog[p][n].op \in {"store", "put", "put_nbi", "get", "get_nbi"} =>
           j.prog[p][n].dest \notin PE

(* comm_remote_wireup connects p and q: at level 0 if one is even and the  *)
(* other odd, else at the level at which one of them serves and the other, *)
(* a client of that level, connects and is through.                        *)
Meets(p, q) ==
  \/ p % 2 # q % 2
  \/ \E l \in 1 .. N : {p % 2^(l + 1), q % 2^(l + 1)} = {p % 2, (p % 2) + 2^l}

(* The PEs of different hosts all have sockets with each other. That is so *)
(* up to six PEs; from seven on it depends on the placement, PEs 2 and 6   *)
(* being clients of the same level (run wireup_missing).                   *)
ASSUME WiringAssumption ==
  \A j \in Jobs : \A p, q \in PE : j.host[p] # j.host[q] => Meets(p, q)

VARIABLES
  host,       \* host[p]: where PE p runs (the locality map)
  prog,       \* prog[p]: the calls p's main thread has still to make
  pc,         \* pc[p]: where the main thread is within the current call
  i,          \* loop variable of comm_barrier_all on PE 0
  mem,        \* mem[p][a]: the symmetric heap of p
  queue_send, \* queue_send[p]: __queue_send, packets waiting for the comm thread
  wire,       \* wire[p][q]: cells written by p to its socket with q, not yet read
  work_queue, \* work_queue[p]: the worker's jobs
  ct,         \* ct[p]: where the comm thread is
  todo,       \* todo[p]: sockets the comm thread has still to poll in this pass
  wt,         \* wt[p]: the worker thread
  finished,   \* finished[p]: the __finished flags that are set ("work", "comm")
  arrived,    \* history: barriers called, and
  left,       \*   returned from
  issued,     \* history: issued[s][d], the comm_puts of s to d, in call order
  landed      \* history: landed[s][d], those stored in d's memory, in that order

mainVars  == <<prog, pc, i, finished, arrived, left>>
queueVars == <<queue_send, wire, work_queue>>
threads   == <<ct, todo, wt>>
logs      == <<issued, landed>>
vars      == <<host, mainVars, mem, queueVars, threads, logs>>

(* What an uninitialised buffer holds, when that is not zero. *)
Garbage == -1

(* The calls of shmem.c that consist of several of these. *)
Do(op) == [op |-> op, dest |-> 0, src |-> 0, pe |-> 0]

shmem_barrier_all == << Do("barrier") >>
shmem_sync_all    == shmem_barrier_all \o << Do("quiet") >>

(* Variant: the regions are unmapped before the worker is joined.          *)
comm_finalize_local_first ==
  << Do("comm_local_finalize"), Do("work_finalize"), Do("comm_remote_finalize"),
     Do("comm_node_finalize"), Do("comm_heap_free") >>

comm_finalize ==
  << Do("work_finalize"), Do("comm_remote_finalize"), Do("comm_local_finalize"),
     Do("comm_node_finalize"), Do("comm_heap_free") >>

shmem_finalize == shmem_sync_all \o comm_finalize \o << Do("rte_finalize") >>

(* What a put carries; round, the barriers its caller had called, and seq, *)
(* its number among the puts of the caller to the target, are history only. *)
Put == [dest : Addr, val : Nat \cup {Garbage}, round : 0 .. MaxRounds, seq : Nat]

(* A job of the caller's own main thread names the source, and is read     *)
(* when executed; a job made from a packet owns a copy of the data.        *)
OwnJob    == [handler : {"PUT", "GET"}, origin_pe : PE, dest_pe : PE,
              dest : Addr, src : Addr]
PacketJob == [handler : {"PUT"}, origin_pe : PE, dest_pe : PE, data_buf : Put]

TypeOK ==
  /\ host       \in [PE -> Hosts]
  /\ prog       \in [PE -> Seq(Call)]
  /\ pc         \in [PE -> {"call", "poll", "reset", "release", "join"}]
  /\ i          \in 1 .. N
  /\ mem        \in [PE -> [Addr -> Nat \cup {Garbage}]]
  /\ queue_send \in [PE -> Seq([pe : PE, packet : Put])]
  /\ wire       \in [PE -> [PE -> Seq([part : 1 .. 3, packet : Put])]]
  /\ work_queue \in [PE -> Seq(OwnJob \cup PacketJob)]
  /\ ct         \in [PE -> {"receive", "send", "check", "exited", "undefined"}]
  /\ todo       \in [PE -> SUBSET PE]
  /\ wt         \in [PE -> {"run", "exited"}]
  /\ finished   \in [PE -> SUBSET {"work", "comm"}]
  /\ arrived    \in [PE -> 0 .. MaxRounds]
  /\ left       \in [PE -> 0 .. MaxRounds]
  /\ issued     \in [PE -> [PE -> Seq(Put)]]
  /\ landed     \in [PE -> [PE -> Seq(Put)]]

Local(p, q) == host[p] = host[q]

(* The peers p has a socket with: all of another host, by                  *)
(* WiringAssumption. Their order in the socket table is that of the host   *)
(* list; here it is the order of the PE numbers.                           *)
Remotes(p) == {q \in PE : ~Local(p, q)}

(* Nothing has been called or sent; each thread is at its beginning. *)
Idle ==
  /\ pc         = [p \in PE |-> "call"]
  /\ i          = 1
  /\ queue_send = [p \in PE |-> << >>]
  /\ wire       = [p \in PE |-> [q \in PE |-> << >>]]
  /\ work_queue = [p \in PE |-> << >>]
  /\ ct         = [p \in PE |-> "check"]
  /\ todo       = [p \in PE |-> {}]
  /\ wt         = [p \in PE |-> "run"]
  /\ finished   = [p \in PE |-> {}]
  /\ arrived    = [p \in PE |-> 0]
  /\ left       = [p \in PE |-> 0]
  /\ issued     = [p \in PE |-> [q \in PE |-> << >>]]
  /\ landed     = [p \in PE |-> [q \in PE |-> << >>]]

(* Every PE has returned from shmem_init: __pSync is zero, the queues are  *)
(* empty and both threads run (comm_remote_start, work_start).             *)
Init ==
  /\ \E j \in Jobs : host = j.host /\ prog = j.prog
  /\ mem = [p \in PE |-> [a \in Addr |-> 0]]
  /\ Idle

-----------------------------------------------------------------------------
(* Moving data *)

comm_local_put(q, put) ==
  /\ mem' = [mem EXCEPT ![q][put.dest] = put.val]
  /\ UNCHANGED queue_send

(* Variant: the packet is put in front of the queue.                       *)
comm_thread_enqueue_front(p, q, packet) ==
  queue_send' = [queue_send EXCEPT ![p] = <<[pe |-> q, packet |-> packet]>> \o @]

comm_thread_enqueue(p, q, packet) ==
  queue_send' = [queue_send EXCEPT ![p] = Append(@, [pe |-> q, packet |-> packet])]

(* Variant: the packet is sent and stays in the queue.                     *)
comm_thread_dequeue_keep(p) == UNCHANGED queue_send

comm_thread_dequeue(p) == queue_send' = [queue_send EXCEPT ![p] = Tail(@)]

(* The packet holds a copy of the data from here on. *)
comm_remote_put(p, q, put) ==
  /\ comm_thread_enqueue(p, q, put)
  /\ UNCHANGED mem

comm_put(p, q, put) ==
  IF Local(p, q) THEN comm_local_put(q, put) ELSE comm_remote_put(p, q, put)

(* comm_put called on behalf of p itself, by its main or worker thread.    *)
(* The put is logged here, so the round and the number of a put_nbi are    *)
(* those of the time the worker executes it.                               *)
Issue(p, q, a, v) ==
  LET put == [dest |-> a, val |-> v, round |-> arrived[p], seq |-> Len(issued[p][q]) + 1]
  IN  /\ comm_put(p, q, put)
      /\ issued' = [issued EXCEPT ![p][q] = Append(@, put)]
      /\ landed' = IF Local(p, q)
                   THEN [landed EXCEPT ![p][q] = Append(@, put)]
                   ELSE landed

comm_local_get(p, q, dest, src) == mem' = [mem EXCEPT ![p][dest] = mem[q][src]]

(* comm_remote_get has an empty body. *)
comm_remote_get(p, q, dest, src) == UNCHANGED mem

comm_get(p, q, dest, src) ==
  IF Local(p, q) THEN comm_local_get(p, q, dest, src) ELSE comm_remote_get(p, q, dest, src)

(* Variant: the job is put in front of the queue.                          *)
work_thread_enqueue_front(p, job) ==
  work_queue' = [work_queue EXCEPT ![p] = <<job>> \o @]

work_thread_enqueue(p, job) ==
  work_queue' = [work_queue EXCEPT ![p] = Append(@, job)]

work_thread_dequeue(p) == work_queue' = [work_queue EXCEPT ![p] = Tail(@)]

work_put(p, handler, q, dest, src) ==
  work_thread_enqueue(p, [handler |-> handler, origin_pe |-> p, dest_pe |-> q,
                          dest |-> dest, src |-> src])

work_put_remote(p, origin, data_buf) ==
  work_thread_enqueue(p, [handler |-> "PUT", origin_pe |-> origin, dest_pe |-> p,
                          data_buf |-> data_buf])

(* The sockets are non-blocking: what does not fit is not written. *)
network_send(p, q, cells) ==
  LET room == SockCap - Len(wire[p][q])
  IN  wire' = [wire EXCEPT
                 ![p][q] = @ \o SubSeq(cells, 1, IF room < Len(cells) THEN room ELSE Len(cells))]

(* p reads n cells that s has written. *)
network_receive(p, s, n) ==
  wire' = [wire EXCEPT ![s][p] = SubSeq(@, n + 1, Len(@))]

-----------------------------------------------------------------------------
(* The main thread *)

Calls(p, op) ==
  /\ pc[p] = "call"
  /\ prog[p] # << >> /\ Head(prog[p]).op = op

Returns(p) == prog' = [prog EXCEPT ![p] = Tail(@)]

(* The program updates its own copy of a symmetric variable. *)
Store(p) ==
  /\ Calls(p, "store")
  /\ mem' = [mem EXCEPT ![p][Head(prog[p]).dest] = @ + 1]
  /\ Returns(p)
  /\ UNCHANGED <<host, pc, i, finished, arrived, left, queueVars, threads, logs>>

shmem_putmem(p) ==
  /\ Calls(p, "put")
  /\ LET c == Head(prog[p]) IN Issue(p, c.pe, c.dest, mem[p][c.src])
  /\ Returns(p)
  /\ UNCHANGED <<host, pc, i, finished, arrived, left, wire, work_queue, threads>>

shmem_getmem(p) ==
  /\ Calls(p, "get")
  /\ LET c == Head(prog[p]) IN comm_get(p, c.pe, c.dest, c.src)
  /\ Returns(p)
  /\ UNCHANGED <<host, pc, i, finished, arrived, left, queueVars, threads, logs>>

NbiHandler == [put_nbi |-> "PUT", get_nbi |-> "GET"]

shmem_nbi(p) ==
  /\ \E op \in DOMAIN NbiHandler : Calls(p, op)
  /\ LET c == Head(prog[p])
     IN  work_put(p, NbiHandler[c.op], c.pe, c.dest, c.src)
  /\ Returns(p)
  /\ UNCHANGED <<host, pc, i, finished, arrived, left, mem, queue_send, wire,
                 threads, logs>>

(* shmem_quiet calls comm_flush, which has an empty body. *)
shmem_quiet(p) ==
  /\ Calls(p, "quiet")
  /\ Returns(p)
  /\ UNCHANGED <<host, pc, i, finished, arrived, left, mem, queueVars, threads,
                 logs>>

(* comm_barrier_all: PE 0 *)

BarrierCall(p) ==
  /\ Calls(p, "barrier") /\ arrived[p] < MaxRounds
  /\ pc'      = [pc EXCEPT ![p] = "poll"]
  /\ arrived' = [arrived EXCEPT ![p] = @ + 1]

BarrierReturn(p) ==
  /\ pc'   = [pc EXCEPT ![p] = "call"]
  /\ left' = [left EXCEPT ![p] = @ + 1]
  /\ Returns(p)

RootEnter ==
  /\ BarrierCall(0)
  /\ i' = 1
  /\ UNCHANGED <<host, prog, finished, left, mem, queueVars, threads, logs>>

(* Variant: the root does not wait for the signal.                         *)
RootPoll_nowait ==
  /\ pc[0] = "poll" /\ i < N
  /\ pc' = [pc EXCEPT ![0] = "reset"]
  /\ UNCHANGED <<host, prog, i, finished, arrived, left, mem, queueVars,
                 threads, logs>>

RootPoll ==
  /\ pc[0] = "poll" /\ i < N
  /\ mem[0][i] # 0
  /\ pc' = [pc EXCEPT ![0] = "reset"]
  /\ UNCHANGED <<host, prog, i, finished, arrived, left, mem, queueVars,
                 threads, logs>>

RootReset ==
  /\ pc[0] = "reset"
  /\ mem' = [mem EXCEPT ![0][i] = 0]
  /\ i'  = i + 1
  /\ pc' = [pc EXCEPT ![0] = "poll"]
  /\ UNCHANGED <<host, prog, finished, arrived, left, queueVars, threads, logs>>

(* Variant: the second loop starts at 0.                                   *)
RootGathered_zero ==
  /\ pc[0] = "poll" /\ i = N
  /\ pc' = [pc EXCEPT ![0] = "release"]
  /\ i'  = 0
  /\ UNCHANGED <<host, prog, finished, arrived, left, mem, queueVars, threads,
                 logs>>

RootGathered ==
  /\ pc[0] = "poll" /\ i = N
  /\ pc' = [pc EXCEPT ![0] = "release"]
  /\ i'  = 1
  /\ UNCHANGED <<host, prog, finished, arrived, left, mem, queueVars, threads,
                 logs>>

RootRelease ==
  /\ pc[0] = "release" /\ i < N
  /\ Issue(0, i, i, 1)
  /\ i' = i + 1
  /\ UNCHANGED <<host, prog, pc, finished, arrived, left, wire, work_queue,
                 threads>>

RootReturn ==
  /\ pc[0] = "release" /\ i = N
  /\ BarrierReturn(0)
  /\ UNCHANGED <<host, i, finished, arrived, mem, queueVars, threads, logs>>

(* comm_barrier_all: every other PE *)

LeafEnter(k) ==
  /\ BarrierCall(k)
  /\ Issue(k, 0, k, 1)
  /\ UNCHANGED <<host, prog, i, finished, left, wire, work_queue, threads>>

(* Variant: the leaf does not wait for the release.                        *)
LeafPoll_nowait(k) ==
  /\ pc[k] = "poll"
  /\ pc' = [pc EXCEPT ![k] = "reset"]
  /\ UNCHANGED <<host, prog, i, finished, arrived, left, mem, queueVars,
                 threads, logs>>

LeafPoll(k) ==
  /\ pc[k] = "poll"
  /\ mem[k][k] # 0
  /\ pc' = [pc EXCEPT ![k] = "reset"]
  /\ UNCHANGED <<host, prog, i, finished, arrived, left, mem, queueVars,
                 threads, logs>>

LeafReset(k) ==
  /\ pc[k] = "reset"
  /\ mem' = [mem EXCEPT ![k][k] = 0]
  /\ BarrierReturn(k)
  /\ UNCHANGED <<host, i, finished, arrived, queueVars, threads, logs>>

(* work_finalize and comm_remote_finalize: set the flag, join the thread. *)

(* Variant: the communication thread is joined without being told to end.  *)
SetFinished_untold(p) ==
  /\ \/ Calls(p, "work_finalize") /\ finished' = [finished EXCEPT ![p] = @ \cup {"work"}]
     \/ Calls(p, "comm_remote_finalize") /\ UNCHANGED finished
  /\ pc' = [pc EXCEPT ![p] = "join"]
  /\ UNCHANGED <<host, prog, i, arrived, left, mem, queueVars, threads, logs>>

SetFinished(p) ==
  /\ \/ Calls(p, "work_finalize") /\ finished' = [finished EXCEPT ![p] = @ \cup {"work"}]
     \/ Calls(p, "comm_remote_finalize") /\ finished' = [finished EXCEPT ![p] = @ \cup {"comm"}]
  /\ pc' = [pc EXCEPT ![p] = "join"]
  /\ UNCHANGED <<host, prog, i, arrived, left, mem, queueVars, threads, logs>>

Join(p) ==
  /\ pc[p] = "join"
  /\ \/ Head(prog[p]).op = "work_finalize" /\ wt[p] = "exited"
     \/ Head(prog[p]).op = "comm_remote_finalize" /\ ct[p] = "exited"
  /\ pc' = [pc EXCEPT ![p] = "call"]
  /\ Returns(p)
  /\ UNCHANGED <<host, i, finished, arrived, left, mem, queueVars, threads, logs>>

(* The rest of comm_finalize and rte_finalize release what no thread of    *)
(* this module uses; module Lifecycle says what.                           *)
Releasing == {"comm_local_finalize", "comm_node_finalize", "comm_heap_free", "rte_finalize"}

Release(p) ==
  /\ \E op \in Releasing : Calls(p, op)
  /\ Returns(p)
  /\ UNCHANGED <<host, pc, i, finished, arrived, left, mem, queueVars, threads,
                 logs>>

MainThread(p) ==
  \/ Store(p) \/ shmem_putmem(p) \/ shmem_getmem(p) \/ shmem_nbi(p)
  \/ shmem_quiet(p)
  \/ p = 0 /\ (\/ RootEnter \/ RootPoll \/ RootReset \/ RootGathered
               \/ RootRelease \/ RootReturn)
  \/ p # 0 /\ (LeafEnter(p) \/ LeafPoll(p) \/ LeafReset(p))
  \/ SetFinished(p) \/ Join(p) \/ Release(p)

-----------------------------------------------------------------------------
(* The worker thread.  The test of __finished, the dequeue and the         *)
(* execution of a job are one step: only the worker removes jobs, and the  *)
(* main thread does nothing between setting the flag and the join.         *)

Execute(p) ==
  /\ wt[p] = "run" /\ "work" \notin finished[p]
  /\ work_queue[p] # << >>
  /\ work_thread_dequeue(p)
  /\ LET job == Head(work_queue[p])
     IN  IF job.handler = "GET"
         THEN UNCHANGED <<mem, queue_send, logs>>
         ELSE IF "src" \in DOMAIN job
         THEN Issue(p, job.dest_pe, job.dest, mem[p][job.src])
         ELSE /\ comm_put(p, job.dest_pe, job.data_buf)
              /\ landed' = [landed EXCEPT
                              ![job.origin_pe][p] = Append(@, job.data_buf)]
              /\ UNCHANGED issued
  /\ UNCHANGED <<host, mainVars, wire, threads>>

WorkerExit(p) ==
  /\ wt[p] = "run" /\ "work" \in finished[p]
  /\ wt' = [wt EXCEPT ![p] = "exited"]
  /\ UNCHANGED <<host, mainVars, mem, queueVars, ct, todo, logs>>

Worker(p) == Execute(p) \/ WorkerExit(p)

-----------------------------------------------------------------------------
(* The communication thread *)

(* while (!__finished) *)
Check(p) ==
  /\ ct[p] = "check"
  /\ IF "comm" \in finished[p]
     THEN ct' = [ct EXCEPT ![p] = "exited"] /\ UNCHANGED todo
     ELSE /\ ct'   = [ct EXCEPT ![p] = "receive"]
          /\ todo' = [todo EXCEPT ![p] = Remotes(p)]
  /\ UNCHANGED <<host, mainVars, mem, queueVars, wt, logs>>

(* The socket __comm_thread_receive polls next is the one with PE s. *)
Polls(p, s) ==
  /\ ct[p] = "receive"
  /\ s \in todo[p] /\ \A t \in todo[p] : s <= t
  /\ todo' = [todo EXCEPT ![p] = @ \ {s}]
  /\ UNCHANGED <<host, mainVars, mem, queue_send, wt, logs>>

IsHeader(cells) == Len(cells) >= 2 /\ cells[1].part = 1 /\ cells[2].part = 2

(* Nothing has arrived: the read returns -1, or 0 if the peer is gone. *)
ReceiveNothing(p, s) ==
  /\ Polls(p, s)
  /\ UNCHANGED <<wire, work_queue, ct>>

(* Less than a header has arrived: it is read and thrown away. *)
ReceiveBadPacket(p, s) ==
  /\ Splits \/ Len(wire[s][p]) = 1
  /\ wire[s][p] # << >>
  /\ Polls(p, s)
  /\ network_receive(p, s, 1)
  /\ UNCHANGED <<work_queue, ct>>

(* A header and then whatever the second read returns: the data, nothing   *)
(* because it has not arrived (data_buf keeps what malloc left in it), or  *)
(* the bytes of a later packet because the sender's write was cut short.   *)
(* The result of that read is not looked at.                               *)
ReceivePacket(p, s) ==
  LET cells  == wire[s][p]
      Job(v) == work_put_remote(p, s, [cells[1].packet EXCEPT !.val = v])
      Body   == Len(cells) >= 3 /\ cells[3].part = 3
  IN  /\ IsHeader(cells)
      /\ Polls(p, s)
      /\ \/ Body /\ Job(cells[1].packet.val) /\ network_receive(p, s, 3)
         \/ /\ Splits \/ Len(cells) = 2
            /\ \E v \in {0, Garbage} : Job(v)
            /\ network_receive(p, s, 2)
         \/ /\ Len(cells) >= 3 /\ ~Body
            /\ Job(Garbage)
            /\ network_receive(p, s, 3)
      /\ UNCHANGED ct

(* The reader has lost the packet boundaries and takes the bytes of        *)
(* something else for a header: whatever size and offset they spell, the   *)
(* behaviour of the thread is undefined from here on.                      *)
ReceiveMisframed(p, s) ==
  /\ Len(wire[s][p]) >= 2 /\ ~IsHeader(wire[s][p])
  /\ Polls(p, s)
  /\ ct' = [ct EXCEPT ![p] = "undefined"]
  /\ UNCHANGED <<wire, work_queue>>

(* Variant: the loop goes back to receiving without sending.               *)
Received_nosend(p) ==
  /\ ct[p] = "receive" /\ todo[p] = {}
  /\ ct' = [ct EXCEPT ![p] = "check"]
  /\ UNCHANGED <<host, mainVars, mem, queueVars, todo, wt, logs>>

Received(p) ==
  /\ ct[p] = "receive" /\ todo[p] = {}
  /\ ct' = [ct EXCEPT ![p] = "send"]
  /\ UNCHANGED <<host, mainVars, mem, queueVars, todo, wt, logs>>

(* One turn of __comm_thread_send: the result of network_send is not       *)
(* looked at, so what was not written is lost.                             *)
Send(p) ==
  /\ ct[p] = "send" /\ queue_send[p] # << >>
  /\ LET first == Head(queue_send[p])
     IN  network_send(p, first.pe,
                      [n \in 1 .. 3 |-> [part |-> n, packet |-> first.packet]])
  /\ comm_thread_dequeue(p)
  /\ UNCHANGED <<host, mainVars, mem, work_queue, threads, logs>>

(* The queue is found empty; __finished is read later. *)
Sent(p) ==
  /\ ct[p] = "send" /\ queue_send[p] = << >>
  /\ ct' = [ct EXCEPT ![p] = "check"]
  /\ UNCHANGED <<host, mainVars, mem, queueVars, todo, wt, logs>>

CommThread(p) ==
  \/ Check(p) \/ Received(p) \/ Send(p) \/ Sent(p)
  \/ \E s \in PE : \/ ReceiveNothing(p, s) \/ ReceiveBadPacket(p, s)
                   \/ ReceivePacket(p, s)  \/ ReceiveMisframed(p, s)

-----------------------------------------------------------------------------
Terminated == \A p \in PE : prog[p] = << >>

(* All programs have ended, and so have the threads they joined. *)
Finished == Terminated /\ UNCHANGED vars

Next ==
  \/ \E p \in PE : MainThread(p) \/ Worker(p) \/ CommThread(p)
  \/ Finished

Spec == Init /\ [][Next]_vars

(* Threads are scheduled, and TCP delivers: a reader that keeps polling a  *)
(* socket with data in it finds the data.                                  *)
Fairness ==
  \A p \in PE :
    /\ WF_vars(MainThread(p)) /\ WF_vars(Worker(p)) /\ WF_vars(CommThread(p))
    /\ \A s \in PE \ {p} : SF_vars(ReceivePacket(p, s))

FairSpec == Spec /\ Fairness

-----------------------------------------------------------------------------
(* Properties *)

(* The barrier signals from p to q that have left p and not reached the    *)
(* memory of q: queued at p, in the socket, or queued at q.                *)
SignalsUnderWay(p, q) ==
  LET IsSignal(put) == put.dest \in PE
  IN  Cardinality({n \in DOMAIN queue_send[p] : /\ queue_send[p][n].pe = q
                                               /\ IsSignal(queue_send[p][n].packet)})
    + Cardinality({n \in DOMAIN wire[p][q] : /\ wire[p][q][n].part = 1
                                            /\ IsSignal(wire[p][q][n].packet)})
    + Cardinality({n \in DOMAIN work_queue[q] : /\ "data_buf" \in DOMAIN work_queue[q][n]
                                               /\ work_queue[q][n].origin_pe = p
                                               /\ IsSignal(work_queue[q][n].data_buf)})

(* The threads, queues and sockets implement the asynchronous put that     *)
(* module Barrier assumes of comm_put: each barrier signal is under way    *)
(* exactly once until one worker step stores it, whatever other traffic    *)
(* shares the queues, so all that is proved of Barrier holds of the        *)
(* running library.                                                        *)
B == INSTANCE Barrier WITH
       pc    <- [p \in PE |-> IF pc[p] \in {"poll", "reset", "release"}
                              THEN pc[p] ELSE "out"],
       pSync <- [p \in PE |-> [k \in PE |-> mem[p][k]]],
       wire  <- [p \in PE |-> [q \in PE |-> SignalsUnderWay(p, q)]]
ImplementsBarrier == B!Spec

(* No PE returns from a barrier some PE has not called, even when reads    *)
(* split packets (comm_remote.c:116-130) and full sockets cut writes short *)
(* (comm_remote.c:146): lost or garbled signals only delay a barrier, as   *)
(* long as no reader has lost the packet boundaries (ReceiveMisframed,     *)
(* after which the thread of that PE is not followed any further).         *)
NoEarlyReturn == \A p, q \in PE : left[p] <= arrived[q]

(* The puts of one PE to another reach its memory once each, with the data *)
(* they were called with, in the order of the comm_put calls: queue_send,  *)
(* the socket and the work queue (comm_remote.c:73-150, work.c:32-77) are  *)
(* FIFO and none of them drops or repeats anything.                        *)
PutsInOrder == \A s, d \in PE : IsPrefix(landed[s][d], issued[s][d])

(* Whenever the communication thread comes to write a packet the socket    *)
(* has room for all of it.  Nothing in the code sees to this: the result   *)
(* of network_send is ignored and the packet freed (comm_remote.c:146), so *)
(* PutsInOrder needs it, and only the barriers, which let a PE run at most *)
(* one round ahead of the others, keep a connection from filling up.       *)
WritesFit ==
  \A p \in PE : ct[p] = "send" /\ queue_send[p] # << >> =>
    Len(wire[p][Head(queue_send[p]).pe]) + 3 <= SockCap

(* The calls of a program that send from p to q: puts to q and, if one of  *)
(* the two is the root, barriers.                                          *)
Sending(prg, p, q) ==
  {n \in DOMAIN prg : \/ prg[n].op = "put" /\ prg[n].pe = q
                      \/ prg[n].op = "barrier" /\ (p = 0 \/ q = 0)}

Barriers(prg) == {n \in DOMAIN prg : prg[n].op = "barrier"}

Between(S, a, b) == {n \in S : a <= n /\ n <= b}

(* The barriers T let the data of calls c and b, from p to q, be under way *)
(* at the same time: a leaf does not go on before the root has its signal, *)
(* the root can be one round ahead of a leaf.                              *)
Together(T, p, q, c, b) ==
  IF q = 0 THEN Between(T, c, b - 1) = {}
  ELSE p = 0 => Cardinality(Between(T, c + 1, b)) <= 1

(* Jobs for which WritesFit can be expected: job j puts to another host    *)
(* with blocking calls only, and what its barriers let be under way at the *)
(* same time fits into a socket.                                           *)
Light(j) ==
  \A p, q \in PE : j.host[p] # j.host[q] =>
    /\ \A n \in DOMAIN j.prog[p] : j.prog[p][n].op = "put_nbi" => j.prog[p][n].pe # q
    /\ \A c, b \in DOMAIN j.prog[p] :
         c <= b /\ Together(Barriers(j.prog[p]), p, q, c, b) =>
           3 * Cardinality(Between(Sending(j.prog[p], p, q), c, b)) <= SockCap

Completed(s, d) ==
  \A n \in DOMAIN issued[s][d] :
    issued[s][d][n].round < left[d] => n <= Len(landed[s][d])

(* A put between two PEs of one host, or to or from PE 0, whose comm_put   *)
(* was called before a barrier is in the target's memory when the target   *)
(* returns from it: the barrier's own signal takes the same queues behind  *)
(* the put (comm.c:107, 110), although nothing in comm_barrier_all waits   *)
(* for puts. (A put_nbi calls comm_put when the worker gets to it, which   *)
(* no barrier waits for.)                                                  *)
RootPutsComplete ==
  \A s, d \in PE : (s = 0 \/ d = 0 \/ Local(s, d)) => Completed(s, d)

(* The calls of shmem_sync_all that p has returned from, when its barriers *)
(* are all part of one: the last is not over while the quiet behind its    *)
(* barrier is ahead.                                                       *)
Synced(p) ==
  IF prog[p] # << >> /\ Head(prog[p]).op = "quiet" THEN left[p] - 1 ELSE left[p]

(* shmem.h:127 of shmem_sync_all: "Barrier and flush all current           *)
(* requests". A put that was called before it is in its target's memory    *)
(* once the caller and the target have both returned from it. Said of jobs *)
(* that call no barrier but that of shmem_sync_all.                        *)
SyncFlushes ==
  \A s, d \in PE : \A n \in DOMAIN issued[s][d] :
    LET round == issued[s][d][n].round
    IN  round < Synced(s) /\ round < Synced(d) => n <= Len(landed[s][d])

(* Every program ends: nobody waits for ever in a barrier or a join        *)
(* (comm.c:103, 111; work.c:113; comm_remote.c:284).                       *)
Termination == <>Terminated
=============================================================================
