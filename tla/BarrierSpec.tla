----------------------------- MODULE BarrierSpec -----------------------------
(***************************************************************************)
(* What shmem_barrier_all() promises its callers (src/src/shmem.h:119-123, *)
(* "Blocks the PE until all other PEs arrive at the barrier").  Nothing is *)
(* said about pSync arrays, threads or packets: a PE is described by the   *)
(* number of barriers it has called and the number it has returned from.   *)
(***************************************************************************)
EXTENDS Integers

CONSTANTS
  PE,         \* the processing elements of the job
  MaxRounds   \* bound: how many barriers each PE calls

VARIABLES
  arrived,    \* arrived[p]: barriers PE p has called
  left        \* left[p]: barriers PE p has returned from

vars == <<arrived, left>>

Init ==
  /\ arrived = [p \in PE |-> 0]
  /\ left    = [p \in PE |-> 0]

(* A PE that is outside the barrier calls it. *)
Arrive(p) ==
  /\ arrived[p] = left[p]
  /\ arrived[p] < MaxRounds
  /\ arrived' = [arrived EXCEPT ![p] = @ + 1]
  /\ UNCHANGED left

(* A PE returns only when every PE has called this barrier. *)
Leave(p) ==
  /\ left[p] < arrived[p]
  /\ \A q \in PE : arrived[q] >= arrived[p]
  /\ left' = [left EXCEPT ![p] = @ + 1]
  /\ UNCHANGED arrived

Next == \E p \in PE : Arrive(p) \/ Leave(p)

Spec == Init /\ [][Next]_vars
=============================================================================
