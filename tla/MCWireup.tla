------------------------------ MODULE MCWireup -------------------------------
(***************************************************************************)
(* Placements for module Wireup: those of the usual launchers.             *)
(***************************************************************************)
EXTENDS Wireup, SequencesExt

(* H hosts, PE p on host On(p).                                            *)
Place(H, On(_)) == [nodes |-> [k \in 1 .. H |-> k - 1], host |-> [p \in PE |-> On(p)]]

(* Blocks of PEs on each host, or one after the other; and the first of    *)
(* these with the hosts listed backwards.                                  *)
BySlot(H) == Place(H, LAMBDA p : (p * H) \div N)
ByNode(H) == Place(H, LAMBDA p : p % H)
Backwards(H) == [BySlot(H) EXCEPT !.nodes = Reverse(@)]

AllPlacements ==
  UNION {{BySlot(H), ByNode(H), Backwards(H)} : H \in 1 .. N}

TwoHosts == {BySlot(2)}
=============================================================================
