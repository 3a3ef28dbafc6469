------------------------------- MODULE Barrier -------------------------------
(***************************************************************************)
(* comm_barrier_all() (src/src/comm/comm.c:96-114): a central barrier over *)
(* one int per PE in the symmetric heap, the array __pSync.  PE 0 gathers  *)
(* a 1 from every other PE, then puts a 1 back to each of them.            *)
(*                                                                         *)
(* The signals travel by comm_put.  To a PE of the same host that is a     *)
(* memcpy into the peer's shared memory; to a PE of another host it is an  *)
(* asynchronous packet that the target stores some time after the call has *)
(* returned.  All signals between two given PEs are the same put (value 1, *)
(* same slot), so the packets under way are counted, not listed; module    *)
(* Comm replaces the count by the threads, queues and sockets.             *)
(*                                                                         *)
(* "while (__pSync[k] == 0);" and "__pSync[k] = 0" are separate steps: a   *)
(* signal may land between the two.                                        *)
(***************************************************************************)
EXTENDS Integers

CONSTANTS
  N,          \* number of PEs, comm_remote_n_pes()
  Hosts,      \* host names
  MaxRounds   \* bound: how many barriers each PE calls

ASSUME BarrierAssumption ==
  /\ N \in Nat \ {0}
  /\ MaxRounds \in Nat

PE     == 0 .. N - 1
Leaves == 1 .. N - 1      \* every PE but the root, PE 0

VARIABLES
  host,       \* host[p]: where PE p runs; fixed by shmem_init's locality map
  pc,         \* pc[p]: where p is in comm_barrier_all ("out": not inside it)
  i,          \* the root's loop variable
  pSync,      \* pSync[p][k]: __pSync[k] in the symmetric heap of PE p
  wire,       \* wire[p][q]: signals put by p to a remote q that have not landed
  arrived,    \* history: barriers called
  left        \* history: barriers returned from

vars == <<host, pc, i, pSync, wire, arrived, left>>

TypeOK ==
  /\ host    \in [PE -> Hosts]
  /\ pc      \in [PE -> {"out", "poll", "reset", "release"}]
  /\ i       \in 1 .. N
  /\ pSync   \in [PE -> [PE -> {0, 1}]]
  /\ wire    \in [PE -> [PE -> Nat]]
  /\ arrived \in [PE -> 0 .. MaxRounds]
  /\ left    \in [PE -> 0 .. MaxRounds]

Init ==
  /\ host    \in [PE -> Hosts]
  /\ pc      = [p \in PE |-> "out"]
  /\ i       = 1
  /\ pSync   = [p \in PE |-> [k \in PE |-> 0]]
  /\ wire    = [p \in PE |-> [q \in PE |-> 0]]
  /\ arrived = [p \in PE |-> 0]
  /\ left    = [p \in PE |-> 0]

-----------------------------------------------------------------------------
(* The slot of __pSync a signal between p and q goes to: the leaf's.       *)
Slot(p, q) == IF q = 0 THEN p ELSE q

(* comm_put of the value 1 into __pSync[Slot(p, q)] of PE q, called by p.  *)
comm_put(p, q) ==
  IF host[p] = host[q]
  THEN /\ pSync' = [pSync EXCEPT ![q][Slot(p, q)] = 1]
       /\ UNCHANGED wire
  ELSE /\ wire' = [wire EXCEPT ![p][q] = @ + 1]
       /\ UNCHANGED pSync

(* A signal to a remote PE reaches the memory of its target. *)
Land(p, q) ==
  /\ wire[p][q] > 0
  /\ wire'  = [wire EXCEPT ![p][q] = @ - 1]
  /\ pSync' = [pSync EXCEPT ![q][Slot(p, q)] = 1]
  /\ UNCHANGED <<host, pc, i, arrived, left>>

(* A PE calls comm_barrier_all for the next time. *)
Enter(p) ==
  /\ pc[p] = "out"
  /\ arrived[p] < MaxRounds
  /\ pc'      = [pc EXCEPT ![p] = "poll"]
  /\ arrived' = [arrived EXCEPT ![p] = @ + 1]

Return(p) ==
  /\ pc'   = [pc EXCEPT ![p] = "out"]
  /\ left' = [left EXCEPT ![p] = @ + 1]

-----------------------------------------------------------------------------
(* PE 0 *)

RootEnter ==
  /\ Enter(0)
  /\ i' = 1
  /\ UNCHANGED <<host, pSync, wire, left>>

(* Variant: the root does not wait for the signal.                         *)
RootPoll_nowait ==
  /\ pc[0] = "poll" /\ i < N
  /\ pc' = [pc EXCEPT ![0] = "reset"]
  /\ UNCHANGED <<host, i, pSync, wire, arrived, left>>

(* while (__pSync[i] == 0); *)
RootPoll ==
  /\ pc[0] = "poll" /\ i < N
  /\ pSync[0][i] # 0
  /\ pc' = [pc EXCEPT ![0] = "reset"]
  /\ UNCHANGED <<host, i, pSync, wire, arrived, left>>

(* Variant: the slot is not cleared.                                       *)
RootReset_keeps ==
  /\ pc[0] = "reset"
  /\ i'  = i + 1
  /\ pc' = [pc EXCEPT ![0] = "poll"]
  /\ UNCHANGED <<host, pSync, wire, arrived, left>>

(* __pSync[i] = 0; and on to the next leaf *)
RootReset ==
  /\ pc[0] = "reset"
  /\ pSync' = [pSync EXCEPT ![0][i] = 0]
  /\ i'  = i + 1
  /\ pc' = [pc EXCEPT ![0] = "poll"]
  /\ UNCHANGED <<host, wire, arrived, left>>

(* Variant: the second loop starts at 0.                                   *)
RootGathered_zero ==
  /\ pc[0] = "poll" /\ i = N
  /\ pc' = [pc EXCEPT ![0] = "release"]
  /\ i'  = 0
  /\ UNCHANGED <<host, pSync, wire, arrived, left>>

RootGathered ==
  /\ pc[0] = "poll" /\ i = N
  /\ pc' = [pc EXCEPT ![0] = "release"]
  /\ i'  = 1
  /\ UNCHANGED <<host, pSync, wire, arrived, left>>

RootRelease ==
  /\ pc[0] = "release" /\ i < N
  /\ comm_put(0, i)
  /\ i' = i + 1
  /\ UNCHANGED <<host, pc, arrived, left>>

RootReturn ==
  /\ pc[0] = "release" /\ i = N
  /\ Return(0)
  /\ UNCHANGED <<host, i, pSync, wire, arrived>>

-----------------------------------------------------------------------------
(* Every other PE *)

(* Variant: the arrival signal is not put.                                 *)
LeafEnter_silent(k) ==
  /\ Enter(k)
  /\ UNCHANGED <<host, i, pSync, wire, left>>

(* The call puts the arrival signal first. *)
LeafEnter(k) ==
  /\ Enter(k)
  /\ comm_put(k, 0)
  /\ UNCHANGED <<host, i, left>>

(* Variant: the leaf does not wait for the release.                        *)
LeafPoll_nowait(k) ==
  /\ pc[k] = "poll"
  /\ pc' = [pc EXCEPT ![k] = "reset"]
  /\ UNCHANGED <<host, i, pSync, wire, arrived, left>>

(* while (__pSync[me] == 0); *)
LeafPoll(k) ==
  /\ pc[k] = "poll"
  /\ pSync[k][k] # 0
  /\ pc' = [pc EXCEPT ![k] = "reset"]
  /\ UNCHANGED <<host, i, pSync, wire, arrived, left>>

(* __pSync[me] = 0; and return *)
LeafReset(k) ==
  /\ pc[k] = "reset"
  /\ pSync' = [pSync EXCEPT ![k][k] = 0]
  /\ Return(k)
  /\ UNCHANGED <<host, i, wire, arrived>>

-----------------------------------------------------------------------------
(* Every PE has made all the calls of the bounded model. *)
Finished ==
  /\ \A p \in PE : left[p] = MaxRounds
  /\ UNCHANGED vars

RootStep == RootPoll \/ RootReset \/ RootGathered \/ RootRelease \/ RootReturn

LeafStep(k) == LeafPoll(k) \/ LeafReset(k)

Next ==
  \/ RootEnter
  \/ RootStep
  \/ \E k \in Leaves : LeafEnter(k) \/ LeafStep(k)
  \/ \E k \in Leaves : Land(k, 0) \/ Land(0, k)
  \/ Finished

Spec == Init /\ [][Next]_vars

(* Threads inside the barrier keep running and packets keep moving; nobody *)
(* is obliged to call the barrier.                                         *)
Fairness ==
  /\ WF_vars(RootStep)
  /\ \A k \in Leaves : WF_vars(LeafStep(k))
  /\ \A k \in Leaves : WF_vars(Land(k, 0)) /\ WF_vars(Land(0, k))

FairSpec == Spec /\ Fairness

-----------------------------------------------------------------------------
(* Properties *)

(* No PE returns from its r-th barrier before every PE has called its r-th *)
(* barrier (comm.c:96-114, the promise of shmem.h:121).                    *)
NoEarlyReturn == \A p, q \in PE : left[p] <= arrived[q]

(* A signal is stored only into a slot whose previous signal has been      *)
(* consumed: no landing or local comm_put (comm.c:107, 110) hits a slot    *)
(* that still holds a 1, not even between a poll and the reset that        *)
(* follows it (comm.c:103-104, 111-112), so no reset ever wipes a signal   *)
(* of a later barrier.                                                     *)
SignalsNotLost ==
  [][\A k \in Leaves :
       /\ (Land(k, 0) \/ (LeafEnter(k) /\ host[k] = host[0])) => pSync[0][k] = 0
       /\ (Land(0, k) \/ (RootRelease /\ i = k /\ host[0] = host[k]))
            => pSync[k][k] = 0]_vars

(* Once everybody has called the r-th barrier, everybody returns from it.  *)
EveryoneReturns ==
  \A r \in 1 .. MaxRounds :
    (\A p \in PE : arrived[p] >= r) ~> (\A p \in PE : left[p] >= r)

(* comm_barrier_all implements the barrier of BarrierSpec: every step of   *)
(* the two loops and every landing packet is a step of it or a stutter.    *)
BS == INSTANCE BarrierSpec
ImplementsBarrier == BS!Spec
=============================================================================
