------------------------------- MODULE MCHeap --------------------------------
(***************************************************************************)
(* Instances of module Heap.  The struct addresses are only compared with  *)
(* each other, so they are interchangeable wherever the set of ways they   *)
(* can fall into buckets is.                                               *)
(***************************************************************************)
EXTENDS Heap

(* All struct addresses of a PE share a bucket: that of offset 2, or one   *)
(* that no offset has.                                                     *)
OneBucket == {[b \in Ids |-> k] : k \in {2, NumBuckets - 1}}

(* Struct addresses fall into any bucket.                                  *)
AnyBucket == [Ids -> Bucket]

AddressSymmetry == Permutations(Ids)
=============================================================================
