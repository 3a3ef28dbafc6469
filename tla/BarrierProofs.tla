---------------------------- MODULE BarrierProofs ----------------------------
(***************************************************************************)
(* Proofs about comm_barrier_all (module Barrier) for any number of PEs,   *)
(* any placement on hosts, any delay of the packets and any number of      *)
(* barriers.                                                               *)
(*                                                                         *)
(* NoEarlyReturn is not inductive: that a leaf finds a 1 in its slot says  *)
(* nothing by itself.  The invariant follows each leaf's signal instead:   *)
(* there is exactly one while the leaf is inside the barrier (OneSignal),  *)
(* and where it is fixes how far the leaf's counters are from the root's   *)
(* (CountInv).                                                             *)
(***************************************************************************)
EXTENDS Barrier, TLAPS

Bit(b) == IF b THEN 1 ELSE 0

(* The root holds k's signal: gathered and not yet put back.               *)
AtRoot(k) ==
  \/ (pc[0] \in {"poll", "reset"} /\ k < i)
  \/ (pc[0] = "release" /\ k >= i)

(* Barriers in which the root has put the release of leaf k.               *)
Released(k) == left[0] + Bit(pc[0] = "release" /\ k < i)

(* A PE is inside the barrier exactly while it has called more barriers    *)
(* than it has returned from.                                              *)
HistoryInv ==
  \A p \in PE : arrived[p] = left[p] + Bit(pc[p] # "out")

(* Leaf k owns one signal while it is inside the barrier, none outside: it *)
(* is on its way to the root, in the root's slot, held by the root, on its *)
(* way back or in the leaf's slot.                                         *)
OneSignal ==
  \A k \in Leaves :
    wire[k][0] + pSync[0][k] + Bit(AtRoot(k)) + wire[0][k] + pSync[k][k]
      = Bit(pc[k] # "out")

(* Between a poll and its reset the slot still holds the signal. *)
PolledInv ==
  /\ pc[0] = "reset" => i < N /\ pSync[0][i] = 1
  /\ \A k \in Leaves :
       /\ pc[k] # "release"
       /\ pc[k] = "reset" => pSync[k][k] = 1

(* A leaf's two counters differ from the root's by the signals under way.  *)
LeafCount(k) ==
  /\ arrived[k] = Released(k) + wire[k][0] + pSync[0][k] + Bit(AtRoot(k))
  /\ left[k] = Released(k) - wire[0][k] - pSync[k][k]

CountInv == \A k \in Leaves : LeafCount(k)

IInv == TypeOK /\ HistoryInv /\ OneSignal /\ PolledInv /\ CountInv

-----------------------------------------------------------------------------
(* The root is PE 0 and the leaves are the others; the root's loop variable *)
(* names a leaf until it reaches N (comm.c:101-109).                        *)
LEMMA PEFacts ==
  /\ N \in Nat
  /\ MaxRounds \in Nat
  /\ 0 \in PE
  /\ \A k \in Leaves : k \in PE /\ k # 0 /\ k \in Nat /\ k < N /\ 1 <= k
  /\ \A j \in 1 .. N : j < N => j \in Leaves
BY BarrierAssumption DEF PE, Leaves

(* What OneSignal says of one leaf: wherever its signal is, every other    *)
(* place is empty.                                                         *)
LEMMA SignalPlaces ==
  ASSUME TypeOK, OneSignal, NEW k \in Leaves
  PROVE  /\ AtRoot(k) => /\ wire[k][0] = 0 /\ pSync[0][k] = 0
                         /\ wire[0][k] = 0 /\ pSync[k][k] = 0
                         /\ pc[k] # "out"
         /\ pc[k] = "out" => /\ wire[k][0] = 0 /\ pSync[0][k] = 0
                             /\ wire[0][k] = 0 /\ pSync[k][k] = 0
                             /\ ~AtRoot(k)
         /\ wire[k][0] > 0 => /\ wire[k][0] = 1 /\ pSync[0][k] = 0
                              /\ wire[0][k] = 0 /\ pSync[k][k] = 0
                              /\ ~AtRoot(k)
         /\ wire[0][k] > 0 => /\ wire[k][0] = 0 /\ pSync[0][k] = 0
                              /\ wire[0][k] = 1 /\ pSync[k][k] = 0
                              /\ ~AtRoot(k)
<1> DEFINE up == wire[k][0]  cell0 == pSync[0][k]
           down == wire[0][k]  cellk == pSync[k][k]
           held == Bit(AtRoot(k))  inside == Bit(pc[k] # "out")
<1>1. up \in Nat /\ down \in Nat /\ cell0 \in {0, 1} /\ cellk \in {0, 1}
  BY PEFacts DEF TypeOK
<1>2. held \in {0, 1} /\ inside \in {0, 1}
  BY DEF Bit
<1>3. up + cell0 + held + down + cellk = inside
  BY DEF OneSignal
<1>4. (AtRoot(k) <=> held = 1) /\ (pc[k] # "out" <=> inside = 1)
  BY DEF Bit
<1> HIDE DEF up, cell0, down, cellk, held, inside
<1>5. /\ held = 1 => up = 0 /\ cell0 = 0 /\ down = 0 /\ cellk = 0 /\ inside = 1
      /\ inside = 0 => up = 0 /\ cell0 = 0 /\ down = 0 /\ cellk = 0 /\ held = 0
      /\ up > 0 => up = 1 /\ cell0 = 0 /\ down = 0 /\ cellk = 0 /\ held = 0
      /\ down > 0 => up = 0 /\ cell0 = 0 /\ down = 1 /\ cellk = 0 /\ held = 0
  BY <1>1, <1>2, <1>3
<1> QED
  BY <1>1, <1>2, <1>4, <1>5 DEF up, cell0, down, cellk, held, inside

(* Before the first barrier there is no signal anywhere: __pSync has been  *)
(* cleared by comm_wireup (comm.c:79-80) and no packet is under way.       *)
LEMMA InitIInv == Init => IInv
<1> SUFFICES ASSUME Init PROVE IInv
  OBVIOUS
<1> USE BarrierAssumption DEF Init, PE, Leaves
<1>1. TypeOK
  BY DEF TypeOK
<1>2. HistoryInv /\ PolledInv
  BY DEF HistoryInv, PolledInv, Bit
<1>3. OneSignal /\ CountInv
  BY DEF OneSignal, CountInv, LeafCount, Released, AtRoot, Bit
<1> QED
  BY <1>1, <1>2, <1>3 DEF IInv

(* Each step of the root's two loops and of a leaf (comm.c:101-113), and   *)
(* each packet that lands, moves at most one signal to its next place and  *)
(* the counters with it.                                                   *)
LEMMA NextIInv == IInv /\ [Next]_vars => IInv'
<1> SUFFICES ASSUME IInv, [Next]_vars PROVE IInv'
  OBVIOUS
<1> USE PEFacts DEF IInv
<1>1. CASE RootEnter
  <2> USE <1>1 DEF RootEnter, Enter
  <2>1. TypeOK'
    BY DEF TypeOK
  <2>2. HistoryInv' /\ PolledInv'
    BY DEF TypeOK, HistoryInv, PolledInv, Bit
  <2>3. OneSignal'
    BY DEF TypeOK, OneSignal, AtRoot, Bit
  <2>4. CountInv'
    BY DEF TypeOK, CountInv, LeafCount, Released, AtRoot, Bit
  <2> QED
    BY <2>1, <2>2, <2>3, <2>4
<1>2. CASE RootPoll
  <2> USE <1>2 DEF RootPoll
  <2>1. TypeOK'
    BY DEF TypeOK
  <2>2. HistoryInv' /\ PolledInv'
    BY DEF TypeOK, HistoryInv, PolledInv, Bit
  <2>3. OneSignal'
    BY DEF TypeOK, OneSignal, AtRoot, Bit
  <2>4. CountInv'
    BY DEF TypeOK, CountInv, LeafCount, Released, AtRoot, Bit
  <2> QED
    BY <2>1, <2>2, <2>3, <2>4
<1>3. CASE RootReset
  <2> USE <1>3 DEF RootReset
  <2>1. TypeOK'
    BY DEF TypeOK, PolledInv
  <2>2. HistoryInv' /\ PolledInv'
    BY DEF TypeOK, HistoryInv, PolledInv, Bit
  <2>3. OneSignal'
    BY DEF TypeOK, OneSignal, PolledInv, AtRoot, Bit
  <2>4. CountInv'
    BY DEF TypeOK, CountInv, LeafCount, PolledInv, Released, AtRoot, Bit
  <2> QED
    BY <2>1, <2>2, <2>3, <2>4
<1>4. CASE RootGathered
  <2> USE <1>4 DEF RootGathered
  <2>1. TypeOK'
    BY DEF TypeOK
  <2>2. HistoryInv' /\ PolledInv'
    BY DEF TypeOK, HistoryInv, PolledInv, Bit
  <2>3. OneSignal'
    BY DEF TypeOK, OneSignal, AtRoot, Bit
  <2>4. CountInv'
    BY DEF TypeOK, CountInv, LeafCount, Released, AtRoot, Bit
  <2> QED
    BY <2>1, <2>2, <2>3, <2>4
<1>5. CASE RootRelease
  <2> USE <1>5 DEF RootRelease
  <2>1. PICK k \in Leaves : k = i
    BY DEF TypeOK
  <2>2. AtRoot(k)
    BY <2>1 DEF AtRoot
  <2>3. CASE host[0] = host[k]
    <3>0. wire' = wire /\ pSync' = [pSync EXCEPT ![k][k] = 1]
      BY <2>1, <2>3 DEF comm_put, Slot
    <3> USE <2>1, <2>2, <3>0
    <3>1. TypeOK'
      BY DEF TypeOK
    <3>2. HistoryInv' /\ PolledInv'
      BY DEF TypeOK, HistoryInv, PolledInv, Bit
    <3>3. OneSignal'
      BY SignalPlaces DEF TypeOK, OneSignal, AtRoot, Bit
    <3>4. ASSUME NEW j \in Leaves, j # k PROVE LeafCount(j)'
      BY <3>4 DEF TypeOK, CountInv, LeafCount, Released, AtRoot, Bit
    <3>5. LeafCount(k)'
      BY SignalPlaces DEF TypeOK, CountInv, LeafCount, Released, AtRoot, Bit
    <3> QED
      BY <3>1, <3>2, <3>3, <3>4, <3>5 DEF CountInv
  <2>4. CASE host[0] # host[k]
    <3>0. pSync' = pSync /\ wire' = [wire EXCEPT ![0][k] = @ + 1]
      BY <2>1, <2>4 DEF comm_put
    <3> USE <2>1, <2>2, <3>0
    <3>1. TypeOK'
      BY DEF TypeOK
    <3>2. HistoryInv' /\ PolledInv'
      BY DEF TypeOK, HistoryInv, PolledInv, Bit
    <3>3. OneSignal'
      BY SignalPlaces DEF TypeOK, OneSignal, AtRoot, Bit
    <3>4. ASSUME NEW j \in Leaves, j # k PROVE LeafCount(j)'
      BY <3>4 DEF TypeOK, CountInv, LeafCount, Released, AtRoot, Bit
    <3>5. LeafCount(k)'
      BY SignalPlaces DEF TypeOK, CountInv, LeafCount, Released, AtRoot, Bit
    <3> QED
      BY <3>1, <3>2, <3>3, <3>4, <3>5 DEF CountInv
  <2> QED
    BY <2>3, <2>4
<1>6. CASE RootReturn
  <2> USE <1>6 DEF RootReturn, Return
  <2>1. TypeOK'
    BY DEF TypeOK, HistoryInv, Bit
  <2>2. HistoryInv' /\ PolledInv'
    BY DEF TypeOK, HistoryInv, PolledInv, Bit
  <2>3. OneSignal'
    BY DEF TypeOK, OneSignal, AtRoot, Bit
  <2>4. CountInv'
    BY DEF TypeOK, CountInv, LeafCount, Released, AtRoot, Bit
  <2> QED
    BY <2>1, <2>2, <2>3, <2>4
<1>7. ASSUME NEW k \in Leaves, LeafEnter(k)
      PROVE  IInv'
  <2> USE <1>7 DEF LeafEnter, Enter
  <2>1. CASE host[k] = host[0]
    <3>0. wire' = wire /\ pSync' = [pSync EXCEPT ![0][k] = 1]
      BY <2>1 DEF comm_put, Slot
    <3> USE <3>0
    <3>1. TypeOK'
      BY DEF TypeOK
    <3>2. HistoryInv' /\ PolledInv'
      BY DEF TypeOK, HistoryInv, PolledInv, Bit
    <3>3. OneSignal'
      BY SignalPlaces DEF TypeOK, OneSignal, AtRoot, Bit
    <3>4. ASSUME NEW j \in Leaves, j # k PROVE LeafCount(j)'
      BY <3>4 DEF TypeOK, CountInv, LeafCount, Released, AtRoot, Bit
    <3>5. LeafCount(k)'
      BY SignalPlaces DEF TypeOK, CountInv, LeafCount, Released, AtRoot, Bit
    <3> QED
      BY <3>1, <3>2, <3>3, <3>4, <3>5 DEF CountInv
  <2>2. CASE host[k] # host[0]
    <3>0. pSync' = pSync /\ wire' = [wire EXCEPT ![k][0] = @ + 1]
      BY <2>2 DEF comm_put
    <3> USE <3>0
    <3>1. TypeOK'
      BY DEF TypeOK
    <3>2. HistoryInv' /\ PolledInv'
      BY DEF TypeOK, HistoryInv, PolledInv, Bit
    <3>3. OneSignal'
      BY SignalPlaces DEF TypeOK, OneSignal, AtRoot, Bit
    <3>4. ASSUME NEW j \in Leaves, j # k PROVE LeafCount(j)'
      BY <3>4 DEF TypeOK, CountInv, LeafCount, Released, AtRoot, Bit
    <3>5. LeafCount(k)'
      BY SignalPlaces DEF TypeOK, CountInv, LeafCount, Released, AtRoot, Bit
    <3> QED
      BY <3>1, <3>2, <3>3, <3>4, <3>5 DEF CountInv
  <2> QED
    BY <2>1, <2>2
<1>8. ASSUME NEW k \in Leaves, LeafPoll(k)
      PROVE  IInv'
  <2> USE <1>8 DEF LeafPoll
  <2>1. TypeOK'
    BY DEF TypeOK
  <2>2. HistoryInv' /\ PolledInv'
    BY DEF TypeOK, HistoryInv, PolledInv, Bit
  <2>3. OneSignal'
    BY DEF TypeOK, OneSignal, AtRoot, Bit
  <2>4. CountInv'
    BY DEF TypeOK, CountInv, LeafCount, Released, AtRoot, Bit
  <2> QED
    BY <2>1, <2>2, <2>3, <2>4
<1>9. ASSUME NEW k \in Leaves, LeafReset(k)
      PROVE  IInv'
  <2> USE <1>9 DEF LeafReset, Return
  <2>1. TypeOK'
    BY DEF TypeOK, HistoryInv, Bit
  <2>2. HistoryInv' /\ PolledInv'
    BY DEF TypeOK, HistoryInv, PolledInv, Bit
  <2>3. OneSignal'
    BY SMTT(60) DEF TypeOK, OneSignal, PolledInv, AtRoot, Bit
  <2>4. CountInv'
    BY DEF TypeOK, CountInv, LeafCount, PolledInv, Released, AtRoot, Bit
  <2> QED
    BY <2>1, <2>2, <2>3, <2>4
<1>10. ASSUME NEW k \in Leaves, Land(k, 0)
       PROVE  IInv'
  <2>0. /\ wire[k][0] > 0 /\ wire' = [wire EXCEPT ![k][0] = 0]
        /\ pSync' = [pSync EXCEPT ![0][k] = 1]
        /\ UNCHANGED <<host, pc, i, arrived, left>>
    <3>1. wire[k][0] = 1
      BY <1>10, SignalPlaces DEF Land
    <3>2. wire[k][0] - 1 = 0
      BY <3>1
    <3> QED
      BY <1>10, <3>1, <3>2 DEF Land, Slot
  <2> USE <2>0
  <2>1. TypeOK'
    BY DEF TypeOK
  <2>2. HistoryInv' /\ PolledInv'
    BY DEF TypeOK, HistoryInv, PolledInv, Bit
  <2>3. OneSignal'
    BY SignalPlaces DEF TypeOK, OneSignal, AtRoot, Bit
  <2>4. ASSUME NEW j \in Leaves, j # k PROVE LeafCount(j)'
    BY <2>4 DEF TypeOK, CountInv, LeafCount, Released, AtRoot, Bit
  <2>5. LeafCount(k)'
    BY SignalPlaces DEF TypeOK, CountInv, LeafCount, Released, AtRoot, Bit
  <2> QED
    BY <2>1, <2>2, <2>3, <2>4, <2>5 DEF CountInv
<1>11. ASSUME NEW k \in Leaves, Land(0, k)
       PROVE  IInv'
  <2>0. /\ wire[0][k] > 0 /\ wire' = [wire EXCEPT ![0][k] = 0]
        /\ pSync' = [pSync EXCEPT ![k][k] = 1]
        /\ UNCHANGED <<host, pc, i, arrived, left>>
    <3>1. wire[0][k] = 1
      BY <1>11, SignalPlaces DEF Land
    <3>2. wire[0][k] - 1 = 0
      BY <3>1
    <3> QED
      BY <1>11, <3>1, <3>2 DEF Land, Slot
  <2> USE <2>0
  <2>1. TypeOK'
    BY DEF TypeOK
  <2>2. HistoryInv' /\ PolledInv'
    BY DEF TypeOK, HistoryInv, PolledInv, Bit
  <2>3. OneSignal'
    BY SignalPlaces DEF TypeOK, OneSignal, AtRoot, Bit
  <2>4. ASSUME NEW j \in Leaves, j # k PROVE LeafCount(j)'
    BY <2>4 DEF TypeOK, CountInv, LeafCount, Released, AtRoot, Bit
  <2>5. LeafCount(k)'
    BY SignalPlaces DEF TypeOK, CountInv, LeafCount, Released, AtRoot, Bit
  <2> QED
    BY <2>1, <2>2, <2>3, <2>4, <2>5 DEF CountInv
<1>12. CASE Finished \/ UNCHANGED vars
  BY <1>12 DEF Finished, vars, TypeOK, HistoryInv, OneSignal, PolledInv,
               CountInv, LeafCount, Released, AtRoot, Bit
<1> QED
  BY <1>1, <1>2, <1>3, <1>4, <1>5, <1>6, <1>7, <1>8, <1>9, <1>10, <1>11, <1>12
     DEF Next, RootStep, LeafStep

-----------------------------------------------------------------------------
(* No release runs ahead of an arrival: once the root has put the release  *)
(* of its r-th barrier to some leaf, every PE has called r barriers.       *)
LEMMA ReleasedBound ==
  ASSUME IInv, NEW k \in Leaves, NEW q \in PE
  PROVE  /\ Released(k) \in Nat
         /\ left[0] <= Released(k)
         /\ Released(k) <= arrived[q]
<1> USE PEFacts DEF IInv
<1>1. left[0] \in Nat /\ arrived[q] \in Nat
  BY DEF TypeOK
<1>2. Released(k) \in Nat /\ left[0] <= Released(k)
  BY <1>1 DEF Released, Bit
<1>3. CASE q = 0
  BY <1>1, <1>3 DEF Released, HistoryInv, Bit
<1>4. CASE q # 0
  <2>1. q \in Leaves
    BY <1>4, BarrierAssumption DEF PE, Leaves
  <2>2. /\ wire[q][0] \in Nat /\ pSync[0][q] \in Nat
        /\ Bit(AtRoot(q)) \in Nat /\ Released(q) \in Nat
    BY <1>1, <2>1, SMTT(60) DEF TypeOK, Released, Bit
  <2>3. arrived[q] = Released(q) + wire[q][0] + pSync[0][q] + Bit(AtRoot(q))
    BY <2>1 DEF CountInv, LeafCount
  <2>4. Released(k) <= Released(q) + Bit(AtRoot(q))
    BY <1>1, <2>1 DEF TypeOK, Released, AtRoot, Bit
  <2> QED
    BY <1>1, <1>2, <2>2, <2>3, <2>4
<1> QED
  BY <1>2, <1>3, <1>4

(* Every reachable state satisfies the inductive invariant. *)
THEOREM Invariance == Spec => []IInv
<1>1. Init => IInv
  BY InitIInv
<1>2. IInv /\ [Next]_vars => IInv'
  BY NextIInv
<1> QED
  BY <1>1, <1>2, PTL DEF Spec

(* The variables of comm_barrier_all keep their types for any number of    *)
(* PEs; in particular __pSync only ever holds 0 and 1.                     *)
THEOREM TypeCorrect == Spec => []TypeOK
<1>1. IInv => TypeOK
  BY DEF IInv
<1> QED
  BY <1>1, Invariance, PTL

(* For any number of PEs, hosts and rounds no PE returns from a barrier    *)
(* that some PE has not called (comm.c:96-114).                            *)
THEOREM BarrierSafe == Spec => []NoEarlyReturn
<1>1. IInv => NoEarlyReturn
  <2> SUFFICES ASSUME IInv, NEW p \in PE, NEW q \in PE
               PROVE  left[p] <= arrived[q]
    BY DEF NoEarlyReturn
  <2> USE PEFacts DEF IInv
  <2>1. left[p] \in Nat /\ arrived[q] \in Nat /\ left[0] \in Nat
    BY DEF TypeOK
  <2>2. CASE p = 0 /\ q = 0
    BY <2>1, <2>2 DEF HistoryInv, Bit
  <2>3. CASE p = 0 /\ q # 0
    <3>1. q \in Leaves
      BY <2>3, BarrierAssumption DEF PE, Leaves
    <3> QED
      BY <2>1, <2>3, <3>1, ReleasedBound
  <2>4. CASE p # 0
    <3>1. p \in Leaves
      BY <2>4, BarrierAssumption DEF PE, Leaves
    <3>2. Released(p) \in Nat /\ Released(p) <= arrived[q]
      BY <3>1, ReleasedBound
    <3>3. left[p] = Released(p) - wire[0][p] - pSync[p][p]
      BY <3>1 DEF CountInv, LeafCount
    <3>4. wire[0][p] \in Nat /\ pSync[p][p] \in Nat
      BY <3>1 DEF TypeOK
    <3> QED
      BY <2>1, <3>2, <3>3, <3>4
  <2> QED
    BY <2>2, <2>3, <2>4
<1> QED
  BY <1>1, Invariance, PTL

(* Every signal of the barrier is stored into an empty slot, for any       *)
(* placement of the PEs on hosts and any delay of the packets (comm.c:     *)
(* 103-112): none overwrites another and no reset wipes a later one.       *)
THEOREM NoSignalLost == Spec => SignalsNotLost
<1> DEFINE Stored(k) ==
      /\ (Land(k, 0) \/ (LeafEnter(k) /\ host[k] = host[0])) => pSync[0][k] = 0
      /\ (Land(0, k) \/ (RootRelease /\ i = k /\ host[0] = host[k]))
           => pSync[k][k] = 0
<1>1. IInv => \A k \in Leaves : Stored(k)
  <2> SUFFICES ASSUME IInv, NEW k \in Leaves PROVE Stored(k)
    OBVIOUS
  <2>1. TypeOK /\ OneSignal
    BY DEF IInv
  <2>2. Land(k, 0) => wire[k][0] > 0
    BY DEF Land
  <2>3. Land(0, k) => wire[0][k] > 0
    BY DEF Land
  <2>4. LeafEnter(k) => pc[k] = "out"
    BY DEF LeafEnter, Enter
  <2>5. RootRelease /\ i = k => AtRoot(k)
    BY PEFacts DEF RootRelease, AtRoot
  <2> QED
    BY <2>1, <2>2, <2>3, <2>4, <2>5, SignalPlaces
<1>2. IInv => [\A k \in Leaves : Stored(k)]_vars
  BY <1>1
<1> QED
  BY <1>2, Invariance, PTL DEF SignalsNotLost

(* comm_barrier_all implements BarrierSpec with the two history counters   *)
(* as the abstract state: each step of the loops and each landing packet   *)
(* is an arrival, a departure or a stuttering step.                        *)
THEOREM Refinement == Spec => ImplementsBarrier
<1>1. Init => BS!Init
  BY DEF Init, BS!Init
<1>2. IInv /\ [Next]_vars => [BS!Next]_(BS!vars)
  <2> SUFFICES ASSUME IInv, [Next]_vars PROVE [BS!Next]_(BS!vars)
    OBVIOUS
  <2> USE PEFacts DEF IInv, BS!Next, BS!vars
  <2>1. ASSUME NEW p \in PE, Enter(p), UNCHANGED left
        PROVE  BS!Arrive(p)
    BY <2>1 DEF Enter, BS!Arrive, HistoryInv, Bit, TypeOK
  <2>2. CASE RootEnter
    BY <2>1, <2>2 DEF RootEnter
  <2>3. ASSUME NEW k \in Leaves, LeafEnter(k)
        PROVE  BS!Next
    BY <2>1, <2>3 DEF LeafEnter
  <2>4. CASE RootReturn
    <3>1. left[0] \in Nat /\ arrived[0] = left[0] + 1
      BY <2>4 DEF RootReturn, HistoryInv, Bit, TypeOK
    <3>2. ASSUME NEW q \in PE PROVE arrived[q] >= arrived[0]
      <4>1. CASE q = 0
        BY <3>1, <4>1
      <4>2. CASE q # 0
        <5>1. q \in Leaves
          BY <4>2, BarrierAssumption DEF PE, Leaves
        <5>2. Released(q) = left[0] + 1
          BY <2>4, <5>1 DEF RootReturn, Released, Bit
        <5>3. Released(q) <= arrived[q] /\ arrived[q] \in Nat
          BY <5>1, ReleasedBound DEF TypeOK
        <5> QED
          BY <3>1, <5>2, <5>3
      <4> QED
        BY <4>1, <4>2
    <3>3. BS!Leave(0)
      BY <2>4, <3>1, <3>2 DEF RootReturn, Return, BS!Leave
    <3> QED
      BY <3>3
  <2>5. ASSUME NEW k \in Leaves, LeafReset(k)
        PROVE  BS!Next
    <3>1. left[k] \in Nat /\ arrived[k] = left[k] + 1
      BY <2>5 DEF LeafReset, HistoryInv, Bit, TypeOK
    <3>2. arrived[k] <= Released(k) /\ Released(k) \in Nat
      <4>1. pSync[k][k] = 1 /\ wire[0][k] \in Nat
        BY <2>5 DEF LeafReset, PolledInv, TypeOK
      <4>2. left[k] = Released(k) - wire[0][k] - pSync[k][k]
        BY DEF CountInv, LeafCount
      <4>3. Released(k) \in Nat
        BY ReleasedBound
      <4> QED
        BY <3>1, <4>1, <4>2, <4>3
    <3>3. ASSUME NEW q \in PE PROVE arrived[q] >= arrived[k]
      <4>1. Released(k) <= arrived[q] /\ arrived[q] \in Nat
        BY ReleasedBound DEF TypeOK
      <4> QED
        BY <3>1, <3>2, <4>1
    <3>4. BS!Leave(k)
      BY <2>5, <3>1, <3>3 DEF LeafReset, Return, BS!Leave
    <3> QED
      BY <3>4
  <2>6. CASE RootPoll \/ RootReset \/ RootGathered \/ RootRelease
    BY <2>6 DEF RootPoll, RootReset, RootGathered, RootRelease
  <2>7. ASSUME NEW k \in Leaves, LeafPoll(k) \/ Land(k, 0) \/ Land(0, k)
        PROVE  UNCHANGED BS!vars
    BY <2>7 DEF LeafPoll, Land
  <2>8. CASE Finished \/ UNCHANGED vars
    BY <2>8 DEF Finished, vars
  <2> QED
    BY <2>2, <2>3, <2>4, <2>5, <2>6, <2>7, <2>8 DEF Next, RootStep, LeafStep
<1> QED
  BY <1>1, <1>2, Invariance, PTL DEF Spec, ImplementsBarrier, BS!Spec
=============================================================================
