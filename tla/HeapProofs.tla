----------------------------- MODULE HeapProofs ------------------------------
(***************************************************************************)
(* Proofs about the shared heap (module Heap) for any number of PEs, any   *)
(* size of the region, any number of buckets and of calls: the list of     *)
(* blocks stays ordered, within the region and free of overlaps, and       *)
(* heap->head stays a block of the list, whatever the table of             *)
(* predecessors says. That is worth a proof because the table is often     *)
(* wrong (heap.c looks blocks up by the key of the wrong block, hashmap.c  *)
(* follows freed values): every heap the table can lead heap_malloc and    *)
(* heap_free to is covered, those with a fault included.                   *)
(*                                                                         *)
(* BlocksDisjoint is not inductive. GoodList adds what heap_malloc relies  *)
(* on: the blocks are in the order of their addresses, so that the gap     *)
(* BLOCK_GAP measures really is free; each block struct is in the list     *)
(* once, so that the head names one position; and the list is never empty, *)
(* so that the search for room has a place to start from.                  *)
(*                                                                         *)
(* LegibleLive and SameOffset do depend on the table, and are about        *)
(* executions in which it has been legible: in every state so far the      *)
(* offsets of the linked blocks, and the addresses of their structs, have  *)
(* fallen into buckets of their own on each PE, and no block but the dummy *)
(* was empty (Legible of Heap). Nothing is asked of the heap's size or of  *)
(* offsets that are not in use, so an execution with few allocations in    *)
(* the 64 MiB region and the 1023 buckets of the code can be one; with     *)
(* more than 1023 blocks none is. The run MCHeapClash shows what happens   *)
(* once keys share a bucket; a block of 0 bytes has the address of the     *)
(* next one, and freeing one frees the other. LiveInv is the inductive     *)
(* invariant: TableInv says what the table can hold then, and that         *)
(* heap_free finds a block only at offset 0; HeldInv ties each allocation  *)
(* to a block of its own; ShapeInv says that the lists of all PEs agree in *)
(* all but the struct addresses.                                           *)
(***************************************************************************)
EXTENDS Heap, SequenceTheorems, WellFoundedInduction, TLAPS

(* The heap of one PE, and an allocation the program holds, as TypeOK has  *)
(* them.                                                                   *)
HeapRec == [blocks : Seq(Block), head : Ids, buckets : [Bucket -> Seq(Ids)],
            clean : BOOLEAN, fault : Faults]

Allocation == [call : 0 .. MaxCalls, size : Sizes, ptr : [PE -> (0 .. HeapSize) \cup {NULL}]]

(* Every block lies within the region and ends before the next ones start. *)
Ordered(blocks) ==
  \A m, n \in DOMAIN blocks :
    /\ BLOCK_END(blocks[m]) <= HeapSize
    /\ m < n => BLOCK_END(blocks[m]) <= blocks[n].ptr

(* No block struct is linked twice.                                        *)
DistinctIds(blocks) ==
  \A m, n \in DOMAIN blocks : blocks[m].id = blocks[n].id => m = n

(* What heap_malloc and heap_free keep true of the list.                   *)
GoodList(h) ==
  /\ h.blocks # << >>
  /\ Ordered(h.blocks)
  /\ DistinctIds(h.blocks)
  /\ Linked(h.blocks, h.head)

(* The remainders hashmap.c takes are indexes of its table.                *)
LEMMA BucketFacts ==
  /\ NumBuckets \in Nat \ {0} /\ HeapSize \in Nat
  /\ \A n \in Nat : n % NumBuckets \in Bucket
  /\ \A r \in Remainders : r \in [Ids -> Bucket]
BY HeapAssumption DEF Bucket

(* A remainder is smaller than the divisor.                                *)
LEMMA ModRange ==
  ASSUME NEW x \in Nat, NEW d \in Nat \ {0}
  PROVE  x % d \in 0 .. d - 1
OBVIOUS

(* NEXT_BLOCK never leaves the list (heap.c: the wrap to the tail).        *)
LEMMA NextBlockType ==
  ASSUME NEW blocks \in Seq(Block), blocks # << >>,
         NEW n \in DOMAIN blocks, NEW k \in Nat
  PROVE  NEXT_BLOCK(blocks, n, k) \in DOMAIN blocks
<1>1. Len(blocks) \in Nat \ {0} /\ DOMAIN blocks = 1 .. Len(blocks)
  BY EmptySeq, LenProperties
<1>2. n - 1 + k \in Nat
  BY <1>1
<1>3. (n - 1 + k) % Len(blocks) \in 0 .. Len(blocks) - 1
  BY <1>1, <1>2, ModRange
<1> QED BY <1>1, <1>3 DEF NEXT_BLOCK

(* The list after a block is linked in behind another one: length and      *)
(* elements.                                                               *)
LEMMA InsertProperties ==
  ASSUME NEW S, NEW s \in Seq(S), NEW e \in S, NEW at \in 1 .. Len(s) + 1
  PROVE  /\ InsertAt(s, at, e) \in Seq(S)
         /\ Len(InsertAt(s, at, e)) = Len(s) + 1
         /\ \A n \in 1 .. Len(s) + 1 :
              InsertAt(s, at, e)[n] = IF n < at THEN s[n]
                                      ELSE IF n = at THEN e ELSE s[n - 1]
<1> DEFINE f == SubSeq(s, 1, at - 1)  g == SubSeq(s, at, Len(s))
<1>0. Len(s) \in Nat /\ \A n \in 1 .. Len(s) : s[n] \in S
  BY LenProperties, ElementOfSeq
<1>1. f \in Seq(S) /\ Len(f) = at - 1 /\ \A n \in 1 .. at - 1 : f[n] = s[n]
  BY <1>0, SubSeqProperties
<1>2. g \in Seq(S) /\ Len(g) = Len(s) - at + 1
      /\ \A n \in 1 .. Len(s) - at + 1 : g[n] = s[at + n - 1]
  BY <1>0, SubSeqProperties
<1> HIDE DEF f, g
<1>3. <<e>> \in Seq(S) /\ Len(<<e>>) = 1 /\ <<e>>[1] = e
  OBVIOUS
<1>4. /\ f \o <<e>> \in Seq(S) /\ Len(f \o <<e>>) = at
      /\ \A n \in 1 .. at : (f \o <<e>>)[n] = IF n < at THEN s[n] ELSE e
  BY <1>0, <1>1, <1>3, ConcatProperties, SMTT(60)
<1> DEFINE h == f \o <<e>>
<1> HIDE DEF h
<1>4a. h \in Seq(S) /\ Len(h) = at
  BY <1>4 DEF h
<1>5. /\ h \o g \in Seq(S) /\ Len(h \o g) = Len(s) + 1
      /\ \A n \in 1 .. Len(s) + 1 : (h \o g)[n] =
           IF n <= at THEN h[n] ELSE g[n - at]
  <2>1. /\ h \o g \in Seq(S) /\ Len(h \o g) = Len(h) + Len(g)
        /\ \A n \in 1 .. Len(h) + Len(g) :
             (h \o g)[n] = IF n <= Len(h) THEN h[n] ELSE g[n - Len(h)]
    BY <1>2, <1>4a, ConcatProperties
  <2>2. Len(h) + Len(g) = Len(s) + 1
    BY <1>0, <1>2, <1>4a
  <2> QED BY <2>1, <2>2, <1>4a
<1>6. InsertAt(s, at, e) = h \o g
  BY DEF InsertAt, f, g, h
<1> QED BY <1>0, <1>2, <1>4, <1>5, <1>6, SMTT(60) DEF h

(* The list, or a chain of the table, after one node is taken out: length  *)
(* and elements.                                                           *)
LEMMA RemoveProperties ==
  ASSUME NEW S, NEW s \in Seq(S), NEW at \in 1 .. Len(s)
  PROVE  /\ RemoveAt(s, at) \in Seq(S)
         /\ Len(RemoveAt(s, at)) = Len(s) - 1
         /\ \A n \in 1 .. Len(s) - 1 :
              RemoveAt(s, at)[n] = IF n < at THEN s[n] ELSE s[n + 1]
<1> DEFINE f == SubSeq(s, 1, at - 1)  g == SubSeq(s, at + 1, Len(s))
<1>0. Len(s) \in Nat /\ \A n \in 1 .. Len(s) : s[n] \in S
  BY LenProperties, ElementOfSeq
<1>1. f \in Seq(S) /\ Len(f) = at - 1 /\ \A n \in 1 .. at - 1 : f[n] = s[n]
  BY <1>0, SubSeqProperties
<1>2. g \in Seq(S) /\ Len(g) = Len(s) - at
      /\ \A n \in 1 .. Len(s) - at : g[n] = s[at + n]
  BY <1>0, SubSeqProperties
<1> HIDE DEF f, g
<1>3. /\ f \o g \in Seq(S) /\ Len(f \o g) = Len(s) - 1
      /\ \A n \in 1 .. Len(s) - 1 : (f \o g)[n] =
           IF n <= at - 1 THEN f[n] ELSE g[n - (at - 1)]
  <2>1. /\ f \o g \in Seq(S) /\ Len(f \o g) = Len(f) + Len(g)
        /\ \A n \in 1 .. Len(f) + Len(g) :
             (f \o g)[n] = IF n <= Len(f) THEN f[n] ELSE g[n - Len(f)]
    BY <1>1, <1>2, ConcatProperties
  <2>2. Len(f) + Len(g) = Len(s) - 1
    BY <1>0, <1>1, <1>2
  <2> QED BY <2>1, <2>2, <1>1
<1>4. RemoveAt(s, at) = f \o g
  BY DEF RemoveAt, f, g
<1> QED BY <1>0, <1>1, <1>2, <1>3, <1>4, SMTT(60)

(* A block that is linked has a position.                                  *)
LEMMA PositionType ==
  ASSUME NEW blocks, NEW id, Linked(blocks, id)
  PROVE  /\ Position(blocks, id) \in DOMAIN blocks
         /\ blocks[Position(blocks, id)].id = id
BY DEF Linked, Position

(* The fields of a block of a good list, and where the block ends.         *)
LEMMA BlockFacts ==
  ASSUME NEW h \in HeapRec, GoodList(h), NEW n \in DOMAIN h.blocks
  PROVE  /\ n \in Nat /\ Len(h.blocks) \in Nat /\ n \in 1 .. Len(h.blocks)
         /\ h.blocks[n] \in Block
         /\ h.blocks[n].ptr \in Nat /\ h.blocks[n].size \in Nat
         /\ BLOCK_END(h.blocks[n]) \in 0 .. HeapSize
<1>1. h.blocks \in Seq(Block)
  BY DEF HeapRec
<1>2. n \in 1 .. Len(h.blocks) /\ Len(h.blocks) \in Nat /\ h.blocks[n] \in Block
  BY <1>1, LenProperties, ElementOfSeq
<1>3. BLOCK_END(h.blocks[n]) <= HeapSize
  BY DEF GoodList, Ordered
<1>4. h.blocks[n].ptr \in Nat /\ h.blocks[n].size \in Nat
  <2>1. \A x \in 0 .. HeapSize : x \in Nat
    BY BucketFacts
  <2>2. h.blocks[n].ptr \in 0 .. HeapSize /\ h.blocks[n].size \in Nat
    BY <1>2 DEF Block
  <2> QED BY <2>1, <2>2
<1>5. BLOCK_END(h.blocks[n]) \in Nat
  BY <1>4 DEF BLOCK_END
<1>6. ASSUME NEW x \in Nat, x <= HeapSize PROVE x \in 0 .. HeapSize
  BY <1>6, BucketFacts
<1>7. BLOCK_END(h.blocks[n]) \in 0 .. HeapSize
  BY <1>3, <1>5, <1>6
<1>8. n \in Nat
  BY <1>2
<1> QED BY <1>2, <1>4, <1>7, <1>8

(* A block that fits into the gap ends before the next block starts.       *)
LEMMA GapArith ==
  ASSUME NEW x \in Nat, NEW y \in Nat, NEW z \in Nat, x - y >= z
  PROVE  y + z <= x
OBVIOUS

(* heap_malloc links the new block into a gap that is large enough, and    *)
(* makes it the head: the list stays good.                                 *)
LEMMA FitsGood ==
  ASSUME NEW h \in HeapRec, GoodList(h), NEW n \in DOMAIN h.blocks, NEW bytes \in Nat,
         NEW b \in Ids, ~Linked(h.blocks, b),
         BLOCK_GAP(h.blocks, n) >= bytes,
         NEW g, g.head = b,
         g.blocks = InsertAt(h.blocks, n + 1,
                             [id |-> b, ptr |-> BLOCK_END(h.blocks[n]), size |-> bytes])
  PROVE  GoodList(g) /\ g.blocks \in Seq(Block)
<1> DEFINE e == [id |-> b, ptr |-> BLOCK_END(h.blocks[n]), size |-> bytes]
           s == h.blocks
           t == g.blocks
           L == Len(s)
<1>1. s \in Seq(Block) /\ L \in Nat /\ DOMAIN s = 1 .. L /\ n \in 1 .. L
  BY BlockFacts, LenProperties DEF HeapRec
<1>2. e \in Block /\ BLOCK_END(e) = BLOCK_END(s[n]) + bytes /\ e.id = b /\ e.ptr = BLOCK_END(s[n])
  BY BlockFacts DEF Block, BLOCK_END
<1>3. n + 1 \in 1 .. L + 1
  BY <1>1
<1> HIDE DEF e, s, t, L
<1>3a. t = InsertAt(s, n + 1, e)
  BY DEF e, s, t
<1>4. /\ t \in Seq(Block) /\ Len(t) = L + 1
      /\ \A m \in 1 .. L + 1 : t[m] = IF m < n + 1 THEN s[m]
                                      ELSE IF m = n + 1 THEN e ELSE s[m - 1]
  <2>1. n + 1 \in 1 .. Len(s) + 1
    BY <1>3 DEF L
  <2>2. /\ InsertAt(s, n + 1, e) \in Seq(Block) /\ Len(InsertAt(s, n + 1, e)) = Len(s) + 1
        /\ \A m \in 1 .. Len(s) + 1 :
             InsertAt(s, n + 1, e)[m] = IF m < n + 1 THEN s[m]
                                        ELSE IF m = n + 1 THEN e ELSE s[m - 1]
    <3>1. s \in Seq(Block) /\ e \in Block
      BY <1>1, <1>2
    <3> DEFINE at == n + 1
    <3>2. at \in 1 .. Len(s) + 1
      BY <2>1
    <3> HIDE DEF at
    <3>3. /\ InsertAt(s, at, e) \in Seq(Block) /\ Len(InsertAt(s, at, e)) = Len(s) + 1
          /\ \A m \in 1 .. Len(s) + 1 :
               InsertAt(s, at, e)[m] = IF m < at THEN s[m]
                                       ELSE IF m = at THEN e ELSE s[m - 1]
      BY <3>1, <3>2, InsertProperties
    <3> QED BY <3>3 DEF at
  <2> QED BY <2>2, <1>3a DEF L
<1>5. DOMAIN t = 1 .. L + 1
  BY <1>1, <1>4, LenProperties
<1>6. /\ \A m \in 1 .. L : /\ BLOCK_END(s[m]) \in 0 .. HeapSize
                          /\ s[m].ptr \in Nat /\ s[m].size \in Nat
                          /\ s[m].id # b
      /\ \A m, k \in 1 .. L : m < k => BLOCK_END(s[m]) <= s[k].ptr
      /\ \A m, k \in 1 .. L : s[m].id = s[k].id => m = k
  BY <1>1, BlockFacts DEF GoodList, Ordered, DistinctIds, Linked, s
<1>7. /\ BLOCK_END(e) <= HeapSize
      /\ n + 1 <= L => BLOCK_END(e) <= s[n + 1].ptr
  <2>1. (IF n = L THEN HeapSize ELSE s[n + 1].ptr) - BLOCK_END(s[n]) >= bytes
    BY DEF BLOCK_GAP, s, L
  <2>2. BLOCK_END(s[n]) \in Nat /\ BLOCK_END(s[n]) <= HeapSize
    BY <1>1, <1>6, BucketFacts
  <2>3. CASE n = L
    <3>1. HeapSize - BLOCK_END(s[n]) >= bytes
      BY <2>1, <2>3
    <3>2. BLOCK_END(s[n]) + bytes <= HeapSize
      BY <3>1, <2>2, BucketFacts, GapArith
    <3> QED BY <3>2, <2>3, <1>1, <1>2
  <2>4. CASE n # L
    <3>1. n + 1 \in 1 .. L
      BY <1>1, <2>4
    <3>2. s[n + 1].ptr \in Nat /\ s[n + 1].ptr <= HeapSize
      <4>1. /\ s[n + 1].ptr \in Nat /\ s[n + 1].size \in Nat
            /\ BLOCK_END(s[n + 1]) \in 0 .. HeapSize
        BY <3>1, <1>6
      <4> QED BY <4>1, BucketFacts DEF BLOCK_END
    <3>3. s[n + 1].ptr - BLOCK_END(s[n]) >= bytes
      BY <2>1, <2>4
    <3>4. BLOCK_END(e) <= s[n + 1].ptr
      BY <3>2, <3>3, <2>2, <1>2, GapArith
    <3>5. BLOCK_END(e) \in Nat
      BY <1>2, <2>2
    <3> QED BY <3>2, <3>4, <3>5, BucketFacts
  <2> QED BY <2>3, <2>4
<1>8. BLOCK_END(e) \in Nat /\ \A m \in n + 1 .. L : BLOCK_END(e) <= s[m].ptr
  <2>1. SUFFICES ASSUME NEW m \in n + 1 .. L PROVE BLOCK_END(e) <= s[m].ptr
    BY <1>1, <1>2, <1>6
  <2>2. CASE m = n + 1
    BY <2>2, <1>7, <1>1
  <2>3. CASE m > n + 1
    <3>0. n + 1 \in 1 .. L /\ m \in 1 .. L
      BY <2>3, <1>1
    <3>1. s[n + 1].ptr <= BLOCK_END(s[n + 1])
      <4>1. s[n + 1].ptr \in Nat /\ s[n + 1].size \in Nat
        BY <3>0, <1>6
      <4> QED BY <4>1 DEF BLOCK_END
    <3>2. BLOCK_END(s[n + 1]) <= s[m].ptr
      BY <2>3, <3>0, <1>1, <1>6
    <3>3. BLOCK_END(s[n + 1]) \in Nat /\ s[n + 1].ptr \in Nat /\ s[m].ptr \in Nat
      BY <3>0, <1>6, BucketFacts
    <3>4. BLOCK_END(e) <= s[n + 1].ptr /\ BLOCK_END(e) \in Nat
      BY <3>0, <1>1, <1>2, <1>6, <1>7, SMTT(60)
    <3> QED BY <3>1, <3>2, <3>3, <3>4
  <2> QED BY <2>2, <2>3, <1>1
<1>9. ASSUME NEW m \in 1 .. L + 1, NEW k \in 1 .. L + 1
      PROVE  /\ BLOCK_END(t[m]) <= HeapSize
             /\ m < k => BLOCK_END(t[m]) <= t[k].ptr
             /\ t[m].id = t[k].id => m = k
  <2> DEFINE src(j) == IF j < n + 1 THEN j ELSE j - 1
  <2>a. n \in Nat /\ L \in Nat
    BY <1>1
  <2>0. t[m] = (IF m = n + 1 THEN e ELSE s[src(m)]) /\ t[k] = (IF k = n + 1 THEN e ELSE s[src(k)])
    BY <2>a, <1>4
  <2>1. (m # n + 1 => src(m) \in 1 .. L) /\ (k # n + 1 => src(k) \in 1 .. L)
    BY <1>1
  <2>2. CASE m = n + 1 /\ k = n + 1
    BY <2>2, <2>0, <1>7, <1>1
  <2>3. CASE m = n + 1 /\ k # n + 1
    <3>1. t[m] = e /\ t[k] = s[src(k)] /\ src(k) \in 1 .. L /\ (m < k => src(k) \in n + 1 .. L)
      BY <2>3, <2>0, <1>1
    <3> QED BY <3>1, <1>1, <1>2, <1>6, <1>7, <1>8, <2>3
  <2>4. CASE m # n + 1 /\ k = n + 1
    <3>1. t[k] = e /\ t[m] = s[src(m)] /\ src(m) \in 1 .. L /\ (m < k => src(m) \in 1 .. n)
      BY <2>4, <2>0, <1>1
    <3>2. s[n].ptr <= BLOCK_END(s[n])
      BY <1>1, <1>6, SMTT(60) DEF BLOCK_END
    <3>3. m < k => BLOCK_END(s[src(m)]) <= BLOCK_END(s[n])
      BY <3>1, <3>2, <1>1, <1>6, SMTT(60)
    <3> QED BY <3>1, <3>3, <1>1, <1>2, <1>6, <2>4
  <2>5. CASE m # n + 1 /\ k # n + 1
    <3>1. /\ t[k] = s[src(k)] /\ t[m] = s[src(m)] /\ src(m) \in 1 .. L /\ src(k) \in 1 .. L
          /\ (m < k => src(m) < src(k)) /\ (src(m) = src(k) => m = k)
      BY <2>5, <2>0, <1>1
    <3> QED BY <3>1, <1>1, <1>6, SMTT(60)
  <2> QED BY <2>2, <2>3, <2>4, <2>5
<1>10. t # << >> /\ Linked(t, b)
  <2>1. n + 1 \in DOMAIN t /\ t[n + 1] = e
    BY <1>1, <1>3, <1>4, <1>5
  <2>2. t # << >>
    BY <1>1, <1>4, EmptySeq
  <2> QED BY <2>1, <2>2, <1>2 DEF Linked
<1>11. Ordered(t) /\ DistinctIds(t)
  BY <1>5, <1>9 DEF Ordered, DistinctIds
<1> QED BY <1>4, <1>10, <1>11 DEF GoodList, t

(* heap_free takes a block out and moves the head to its successor or to   *)
(* the tail: the list stays good.                                          *)
LEMMA RemoveGood ==
  ASSUME NEW h \in HeapRec, GoodList(h), NEW at \in DOMAIN h.blocks, at # Len(h.blocks),
         NEW g, g.blocks = RemoveAt(h.blocks, at + 1),
         g.head = IF at + 1 = Len(h.blocks) THEN h.blocks[1].id ELSE h.blocks[at + 2].id
  PROVE  GoodList(g) /\ g.blocks \in Seq(Block) /\ g.head \in Ids
<1> DEFINE s == h.blocks
           t == g.blocks
           L == Len(s)
           n == at + 1
           src(j) == IF j < n THEN j ELSE j + 1
<1>1. /\ s \in Seq(Block) /\ L \in Nat /\ DOMAIN s = 1 .. L
      /\ n \in 2 .. L /\ n \in 1 .. Len(s) /\ at = n - 1 /\ n \in Nat
  BY BlockFacts, LenProperties DEF HeapRec
<1>2. /\ \A m \in 1 .. L : BLOCK_END(s[m]) <= HeapSize /\ s[m].id \in Ids
      /\ \A m, k \in 1 .. L : m < k => BLOCK_END(s[m]) <= s[k].ptr
      /\ \A m, k \in 1 .. L : s[m].id = s[k].id => m = k
  BY <1>1, BlockFacts DEF GoodList, Ordered, DistinctIds, Block
<1>3. t = RemoveAt(s, n) /\ g.head = IF n = L THEN s[1].id ELSE s[n + 1].id
  BY <1>1, SMTT(60)
<1> HIDE DEF s, t, n
<1>4. /\ t \in Seq(Block) /\ Len(t) = Len(s) - 1
      /\ \A m \in 1 .. Len(s) - 1 : t[m] = IF m < n THEN s[m] ELSE s[m + 1]
  BY <1>1, <1>3, RemoveProperties
<1> HIDE DEF L
<1>5. DOMAIN t = 1 .. L - 1 /\ Len(t) = L - 1
  BY <1>1, <1>4, LenProperties DEF L
<1>6. ASSUME NEW m \in 1 .. L - 1
      PROVE  t[m] = s[src(m)] /\ src(m) \in 1 .. L
  BY <1>1, <1>4 DEF L
<1>7. ASSUME NEW m \in 1 .. L - 1, NEW k \in 1 .. L - 1
      PROVE  (m < k => src(m) < src(k)) /\ (src(m) = src(k) => m = k)
  BY <1>1
<1> HIDE DEF src
<1>8. Ordered(t) /\ DistinctIds(t)
  BY <1>2, <1>5, <1>6, <1>7, SMTT(60) DEF Ordered, DistinctIds
<1>9. \E m \in 1 .. L - 1 : t[m].id = g.head
  <2>1. CASE n = L
    <3>1. src(1) = 1 /\ 1 \in 1 .. L - 1
      BY <2>1, <1>1 DEF src
    <3>2. t[1].id = g.head
      BY <2>1, <3>1, <1>3, <1>6
    <3> QED BY <3>1, <3>2
  <2>2. CASE n # L
    <3>1. src(n) = n + 1 /\ n \in 1 .. L - 1
      BY <2>2, <1>1 DEF src
    <3>2. t[n].id = g.head
      BY <2>2, <3>1, <1>3, <1>6
    <3> QED BY <3>1, <3>2
  <2> QED BY <2>1, <2>2
<1>10. Linked(t, g.head)
  BY <1>5, <1>9 DEF Linked
<1>11. g.head \in Ids
  BY <1>2, <1>6, <1>9, ZenonT(60)
<1>12. t # << >>
  <2>1. Len(t) # 0
    BY <1>1, <1>5
  <2> QED BY <2>1, <1>4, EmptySeq
<1> QED BY <1>4, <1>8, <1>10, <1>11, <1>12 DEF GoodList, t

(* A non-empty set of naturals has a least element: the search of          *)
(* heap_malloc stops at the first gap that fits.                           *)
LEMMA LeastNat ==
  ASSUME NEW S \in SUBSET Nat, S # {}
  PROVE  \E n \in S : \A m \in S : n <= m
<1>1. PICK n \in S : \A m \in S : ~(<<m, n>> \in OpToRel(<, Nat))
  BY NatLessThanWellFounded, WFMin, Zenon
<1>2. ASSUME NEW m \in S PROVE n <= m
  <2>1. m \in Nat /\ n \in Nat
    OBVIOUS
  <2>2. ~(m < n)
    BY <1>1, <2>1 DEF OpToRel
  <2> QED BY <2>1, <2>2
<1> QED BY <1>2

(* hashmap_set changes the table and the fault, never the list.            *)
LEMMA SetKeeps ==
  ASSUME NEW h \in HeapRec, NEW k \in Bucket, NEW key, NEW v \in Ids,
         NEW g \in hashmap_set(h, k, key, v)
  PROVE  /\ g \in HeapRec
         /\ g.blocks = h.blocks /\ g.head = h.head /\ g.clean = h.clean
<1> DEFINE nodes == h.buckets[k]
<1>1. h.buckets \in [Bucket -> Seq(Ids)] /\ nodes \in Seq(Ids)
  BY DEF HeapRec
<1>2. \/ \E n \in DOMAIN nodes : g = [h EXCEPT !.buckets[k][n] = v]
      \/ \E f \in {"null", "wild"} : g = [h EXCEPT !.fault = f]
      \/ g = [h EXCEPT !.buckets[k] = <<v>> \o @]
  BY DEF hashmap_set
<1>3. ASSUME NEW n \in DOMAIN nodes, g = [h EXCEPT !.buckets[k][n] = v]
      PROVE  g \in HeapRec /\ g.blocks = h.blocks /\ g.head = h.head /\ g.clean = h.clean
  <2>1. [nodes EXCEPT ![n] = v] \in Seq(Ids)
    BY <1>1, ExceptSeq, LenProperties
  <2>2. [h.buckets EXCEPT ![k] = [nodes EXCEPT ![n] = v]] \in [Bucket -> Seq(Ids)]
    BY <1>1, <2>1
  <2>3. g = [h EXCEPT !.buckets = [h.buckets EXCEPT ![k] = [nodes EXCEPT ![n] = v]]]
    BY <1>3
  <2> QED BY <2>2, <2>3 DEF HeapRec
<1>4. ASSUME NEW f \in {"null", "wild"}, g = [h EXCEPT !.fault = f]
      PROVE  g \in HeapRec /\ g.blocks = h.blocks /\ g.head = h.head /\ g.clean = h.clean
  BY <1>4 DEF HeapRec, Faults
<1>5. ASSUME g = [h EXCEPT !.buckets[k] = <<v>> \o @]
      PROVE  g \in HeapRec /\ g.blocks = h.blocks /\ g.head = h.head /\ g.clean = h.clean
  <2>1. <<v>> \o nodes \in Seq(Ids)
    BY <1>1, ConcatProperties
  <2>2. [h.buckets EXCEPT ![k] = <<v>> \o nodes] \in [Bucket -> Seq(Ids)]
    BY <1>1, <2>1
  <2>3. g = [h EXCEPT !.buckets = [h.buckets EXCEPT ![k] = <<v>> \o nodes]]
    BY <1>5
  <2> QED BY <2>2, <2>3 DEF HeapRec
<1> QED BY <1>2, <1>3, <1>4, <1>5

(* Two heaps with the same list and head.                                  *)
SameList(g, h) == g.blocks = h.blocks /\ g.head = h.head

(* Only the list and the head matter to GoodList.                          *)
LEMMA SameListGood ==
  ASSUME NEW g, NEW h, SameList(g, h), GoodList(h)
  PROVE  GoodList(g)
BY SMTT(60) DEF SameList, GoodList

(* heap_malloc, with all that its two hashmap_set calls can do, keeps the  *)
(* heap well-formed; its result is NULL or an offset within the region.    *)
LEMMA MallocGood ==
  ASSUME NEW h \in HeapRec, GoodList(h), NEW hs \in [Ids -> Bucket], NEW bytes \in Nat,
         NEW r \in heap_malloc(h, hs, bytes)
  PROVE  /\ r.heap \in HeapRec
         /\ GoodList(r.heap)
         /\ r.ptr \in (0 .. HeapSize) \cup {NULL}
<1> DEFINE start == Position(h.blocks, h.head)
           fits  == Fits(h.blocks, start, bytes)
           at    == NEXT_BLOCK(h.blocks, start, CHOOSE k \in fits : \A m \in fits : k <= m)
           prev  == h.blocks[at]
           new(b) == [id |-> b, ptr |-> BLOCK_END(prev), size |-> bytes]
           First(b) == IF at = Len(h.blocks) THEN {h}
                       ELSE hashmap_set(h, hs[h.blocks[at + 1].id], NULL, b)
           Link(g, b) == [g EXCEPT !.blocks = InsertAt(@, at + 1, new(b)), !.head = b]
           Second(g, b) == hashmap_set(Link(g, b), new(b).ptr % NumBuckets, new(b).ptr, prev.id)
           Result(g, b) == [heap |-> g, ptr |-> IF g.fault = "none" THEN new(b).ptr ELSE NULL]
<1>1. \/ ~h.clean /\ r = [heap |-> [h EXCEPT !.fault = "wild"], ptr |-> NULL]
      \/ h.clean /\ r = [heap |-> h, ptr |-> NULL]
      \/ fits # {} /\ \E b \in Ids : ~Linked(h.blocks, b) /\ \E g \in First(b) :
           \/ r = Result(g, b)
           \/ \E f \in Second(g, b) : r = Result(f, b)
  <2>1. r \in (IF ~h.clean
              THEN {[heap |-> [h EXCEPT !.fault = "wild"], ptr |-> NULL]}
              ELSE IF fits = {}
              THEN {[heap |-> h, ptr |-> NULL]}
              ELSE UNION {UNION {IF g.fault # "none"
                                 THEN {Result(g, b)}
                                 ELSE {Result(f, b) : f \in Second(g, b)} : g \in First(b)} :
                            b \in {c \in Ids : ~Linked(h.blocks, c)}})
    BY Zenon DEF heap_malloc
  <2> HIDE DEF fits, First, Second, Result
  <2> QED BY <2>1
<1>2. CASE ~h.clean /\ r = [heap |-> [h EXCEPT !.fault = "wild"], ptr |-> NULL]
  <2>1. r.heap \in HeapRec /\ SameList(r.heap, h)
    BY <1>2 DEF HeapRec, Faults, SameList
  <2> QED BY <1>2, <2>1, SameListGood
<1>3. CASE h.clean /\ r = [heap |-> h, ptr |-> NULL]
  BY <1>3
<1>4. ASSUME fits # {}, NEW b \in Ids, ~Linked(h.blocks, b), NEW g \in First(b),
             r = Result(g, b) \/ \E f \in Second(g, b) : r = Result(f, b)
      PROVE  r.heap \in HeapRec /\ GoodList(r.heap) /\ r.ptr \in (0 .. HeapSize) \cup {NULL}
  <2>1. h.blocks \in Seq(Block) /\ h.blocks # << >> /\ Len(h.blocks) \in Nat
        /\ DOMAIN h.blocks = 1 .. Len(h.blocks)
    BY LenProperties DEF HeapRec, GoodList
  <2>2. start \in DOMAIN h.blocks
    BY PositionType DEF GoodList
  <2>3. at \in DOMAIN h.blocks /\ BLOCK_GAP(h.blocks, at) >= bytes
    <3> HIDE DEF start
    <3>1. \A k \in fits : k \in Nat /\ BLOCK_GAP(h.blocks, NEXT_BLOCK(h.blocks, start, k)) >= bytes
      BY <2>1 DEF Fits
    <3> HIDE DEF fits
    <3>2. \E k \in fits : \A m \in fits : k <= m
      BY <1>4, <3>1, LeastNat
    <3> DEFINE k == CHOOSE k \in fits : \A m \in fits : k <= m
    <3>3. k \in fits
      BY <3>2
    <3> HIDE DEF k
    <3>4. NEXT_BLOCK(h.blocks, start, k) \in DOMAIN h.blocks
      BY <3>1, <3>3, <2>1, <2>2, NextBlockType
    <3> QED BY <3>1, <3>3, <3>4 DEF k
  <2> HIDE DEF at
  <2>4. /\ prev \in Block /\ prev.id \in Ids
        /\ BLOCK_END(prev) \in 0 .. HeapSize /\ BLOCK_END(prev) \in Nat
        /\ \A n \in DOMAIN h.blocks : h.blocks[n].id \in Ids
    <3>1. \A n \in DOMAIN h.blocks : h.blocks[n] \in Block
      BY <2>1, ElementOfSeq
    <3>2. \A n \in DOMAIN h.blocks : h.blocks[n].id \in Ids
      BY <3>1 DEF Block
    <3>3. BLOCK_END(prev) \in 0 .. HeapSize
      BY <2>3, BlockFacts
    <3>4. \A x \in 0 .. HeapSize : x \in Nat
      BY BucketFacts
    <3> QED BY <2>3, <3>1, <3>2, <3>3, <3>4
  <2>5. g \in HeapRec /\ SameList(g, h)
    <3>1. CASE at = Len(h.blocks)
      BY <3>1, <1>4 DEF SameList
    <3>2. CASE at # Len(h.blocks)
      <4>1. at + 1 \in DOMAIN h.blocks
        BY <2>1, <2>3, <3>2
      <4>2. hs[h.blocks[at + 1].id] \in Bucket
        BY <4>1, <2>4, BucketFacts
      <4>3. g \in hashmap_set(h, hs[h.blocks[at + 1].id], NULL, b)
        BY <1>4, <3>2
      <4> QED BY <4>2, <4>3, SetKeeps DEF SameList
    <3> QED BY <3>1, <3>2
  <2>6. Link(g, b) \in HeapRec /\ GoodList(Link(g, b))
    <3>1. /\ Link(g, b).head = b
          /\ Link(g, b).blocks = InsertAt(h.blocks, at + 1, new(b))
          /\ Link(g, b).buckets = g.buckets /\ Link(g, b).clean = g.clean
          /\ Link(g, b).fault = g.fault
      BY <2>5 DEF HeapRec, SameList
    <3>2. GoodList(Link(g, b)) /\ Link(g, b).blocks \in Seq(Block)
      <4> DEFINE l == Link(g, b)
      <4> HIDE DEF l
      <4>1. l.head = b /\ l.blocks = InsertAt(h.blocks, at + 1,
                  [id |-> b, ptr |-> BLOCK_END(h.blocks[at]), size |-> bytes])
        BY <3>1 DEF l
      <4>2. GoodList(l) /\ l.blocks \in Seq(Block)
        BY <4>1, <2>3, <1>4, FitsGood
      <4> QED BY <4>2 DEF l
    <3>3. Link(g, b) \in HeapRec
      BY <2>5, <3>1, <3>2, <1>4 DEF HeapRec
    <3> QED BY <3>2, <3>3
  <2>7. ASSUME NEW f \in HeapRec, GoodList(f), r = Result(f, b)
        PROVE  r.heap \in HeapRec /\ GoodList(r.heap) /\ r.ptr \in (0 .. HeapSize) \cup {NULL}
    BY <2>4, <2>7
  <2>8. CASE r = Result(g, b)
    <3>1. GoodList(g)
      BY <2>5, SameListGood
    <3> QED BY <2>5, <2>7, <2>8, <3>1
  <2>9. ASSUME NEW f \in Second(g, b), r = Result(f, b)
        PROVE  r.heap \in HeapRec /\ GoodList(r.heap) /\ r.ptr \in (0 .. HeapSize) \cup {NULL}
    <3>1. new(b).ptr % NumBuckets \in Bucket
      BY <2>4, BucketFacts
    <3>2. f \in HeapRec /\ SameList(f, Link(g, b))
      <4> DEFINE l == Link(g, b)
                 k == new(b).ptr % NumBuckets
                 key == new(b).ptr
      <4>1. l \in HeapRec /\ k \in Bucket /\ f \in hashmap_set(l, k, key, prev.id)
        BY <2>6, <3>1, <2>9
      <4> HIDE DEF l, k, key, prev
      <4>2. f \in HeapRec /\ SameList(f, l)
        BY <4>1, <2>4, SetKeeps DEF SameList
      <4> QED BY <4>2 DEF l
    <3>3. GoodList(f)
      BY <3>2, <2>6, SameListGood, SMTT(60)
    <3> QED BY <2>7, <2>9, <3>2, <3>3
  <2> QED BY <1>4, <2>8, <2>9
<1> QED BY <1>1, <1>2, <1>3, <1>4, ZenonT(60)

(* heap_free, whichever node hashmap_remove finds, keeps the heap well-    *)
(* formed.                                                                 *)
LEMMA FreeGood ==
  ASSUME NEW h \in HeapRec, GoodList(h), NEW ptr \in Nat, NEW r \in heap_free(h, ptr)
  PROVE  r \in HeapRec /\ GoodList(r)
<1> DEFINE k == ptr % NumBuckets
           v(n)  == h.buckets[k][n]
           g(n)  == [h EXCEPT !.buckets[k] = RemoveAt(@, n)]
           at(n) == Position(h.blocks, v(n))
           Removed(n) ==
             IF ~Linked(h.blocks, v(n))       THEN [g(n) EXCEPT !.fault = "wild"]
             ELSE IF at(n) = Len(h.blocks)    THEN [g(n) EXCEPT !.fault = "null"]
             ELSE [g(n) EXCEPT !.blocks = RemoveAt(@, at(n) + 1),
                               !.head = IF at(n) + 1 = Len(h.blocks)
                                        THEN h.blocks[1].id ELSE h.blocks[at(n) + 2].id]
<1>1. k \in Bucket
  BY BucketFacts
<1>2. r = h \/ \E n \in DOMAIN h.buckets[k] : r = Removed(n)
  <2>1. \E n \in hashmap_remove(h, k, ptr) : r = IF n = 0 THEN h ELSE Removed(n)
    BY Zenon DEF heap_free
  <2>2. \A n \in hashmap_remove(h, k, ptr) : n = 0 \/ n \in DOMAIN h.buckets[k]
    BY DEF hashmap_remove
  <2> HIDE DEF k, Removed
  <2> QED BY <2>1, <2>2
<1>3. ASSUME NEW n \in DOMAIN h.buckets[k], r = Removed(n)
      PROVE  r \in HeapRec /\ GoodList(r)
  <2> HIDE DEF k
  <2>1. /\ h.buckets \in [Bucket -> Seq(Ids)] /\ h.buckets[k] \in Seq(Ids)
        /\ h.blocks \in Seq(Block)
    BY <1>1 DEF HeapRec
  <2>2. g(n) \in HeapRec /\ SameList(g(n), h) /\ g(n).blocks = h.blocks
    <3>1. RemoveAt(h.buckets[k], n) \in Seq(Ids)
      BY <2>1, <1>3, LenProperties, RemoveProperties
    <3>2. [h.buckets EXCEPT ![k] = RemoveAt(@, n)] \in [Bucket -> Seq(Ids)]
      BY <2>1, <3>1
    <3>3. g(n) = [h EXCEPT !.buckets = [h.buckets EXCEPT ![k] = RemoveAt(@, n)]]
      OBVIOUS
    <3> QED BY <3>2, <3>3 DEF HeapRec, SameList
  <2> HIDE DEF g
  <2>3. ASSUME NEW f \in Faults, r = [g(n) EXCEPT !.fault = f]
        PROVE  r \in HeapRec /\ GoodList(r)
    <3>1. r \in HeapRec /\ SameList(r, h)
      BY <2>2, <2>3 DEF HeapRec, SameList
    <3> QED BY <3>1, SameListGood
  <2>4. CASE ~Linked(h.blocks, v(n)) \/ at(n) = Len(h.blocks)
    <3>1. "wild" \in Faults /\ "null" \in Faults
      BY DEF Faults
    <3>2. r = [g(n) EXCEPT !.fault = "wild"] \/ r = [g(n) EXCEPT !.fault = "null"]
      BY <1>3, <2>4
    <3> QED BY <2>3, <3>1, <3>2
  <2>5. CASE Linked(h.blocks, v(n)) /\ at(n) # Len(h.blocks)
    <3>1. at(n) \in DOMAIN h.blocks
      BY <2>5, PositionType
    <3> HIDE DEF at
    <3>2. /\ r.blocks = RemoveAt(h.blocks, at(n) + 1)
          /\ r.head = IF at(n) + 1 = Len(h.blocks)
                      THEN h.blocks[1].id ELSE h.blocks[at(n) + 2].id
          /\ r = [g(n) EXCEPT !.blocks = r.blocks, !.head = r.head]
      BY <1>3, <2>2, <2>5 DEF HeapRec
    <3>3. GoodList(r) /\ r.blocks \in Seq(Block) /\ r.head \in Ids
      BY <2>5, <3>1, <3>2, RemoveGood
    <3>4. r \in HeapRec
      BY <2>2, <3>2, <3>3 DEF HeapRec
    <3> QED BY <3>3, <3>4
  <2> QED BY <2>4, <2>5
<1> QED BY <1>2, <1>3

(* The inductive invariant.                                                *)
IInv == TypeOK /\ \A p \in PE : GoodList(heap[p])

(* heap_init makes a list of the dummy block alone.                        *)
LEMMA InitIInv == Init => IInv
<1> SUFFICES ASSUME Init PROVE IInv
  OBVIOUS
<1>1. PICK b \in Ids, c \in [PE -> BOOLEAN] : heap = [p \in PE |-> heap_init(b, c[p])]
  BY DEF Init
<1>2. ASSUME NEW d \in BOOLEAN
      PROVE  heap_init(b, d) \in HeapRec /\ GoodList(heap_init(b, d))
  <2> DEFINE h == heap_init(b, d)
             first == [id |-> b, ptr |-> 0, size |-> 0]
  <2>1. first \in Block /\ BLOCK_END(first) = 0 /\ first.id = b /\ 0 <= HeapSize
    BY BucketFacts DEF Block, BLOCK_END
  <2>2. /\ h.blocks = <<first>> /\ h.head = b /\ h.buckets = hashmap_init
        /\ h.clean = d /\ h.fault = "none"
    BY DEF heap_init
  <2>3. hashmap_init \in [Bucket -> Seq(Ids)]
    BY DEF hashmap_init
  <2>4. h \in HeapRec
    BY <2>1, <2>3 DEF heap_init, HeapRec, Faults
  <2> HIDE DEF first
  <2>5. DOMAIN <<first>> = {1} /\ <<first>>[1] = first /\ <<first>> # << >>
    OBVIOUS
  <2>6. Ordered(<<first>>) /\ DistinctIds(<<first>>) /\ Linked(<<first>>, b)
    BY <2>1, <2>5 DEF Ordered, DistinctIds, Linked
  <2> QED BY <2>2, <2>4, <2>5, <2>6 DEF GoodList
<1>3. heap \in [PE -> HeapRec] /\ \A p \in PE : GoodList(heap[p])
  BY <1>1, <1>2
<1>4. TypeOK
  BY <1>3, HeapAssumption DEF TypeOK, Init, HeapRec
<1> QED BY <1>3, <1>4 DEF IInv

(* Every collective shmem_malloc and shmem_free keeps the invariant on     *)
(* every PE.                                                               *)
LEMMA NextIInv == IInv /\ [Next]_vars => IInv'
<1> SUFFICES ASSUME IInv, [Next]_vars PROVE IInv'
  OBVIOUS
<1>1. /\ heap \in [PE -> HeapRec] /\ \A p \in PE : GoodList(heap[p])
      /\ hash \in [PE -> Remainders] /\ calls \in 0 .. MaxCalls /\ legible \in BOOLEAN
      /\ \A a \in held : a \in Allocation
  BY DEF IInv, TypeOK, HeapRec, Allocation
<1>2. ASSUME heap' \in [PE -> HeapRec], \A p \in PE : GoodList(heap'[p]),
             UNCHANGED hash, calls' \in 0 .. MaxCalls, legible' \in BOOLEAN,
             \A a \in held' : a \in Allocation
      PROVE  IInv'
  BY <1>1, <1>2 DEF IInv, TypeOK, HeapRec, Allocation
<1>3. Running => calls + 1 \in 0 .. MaxCalls
  BY <1>1, HeapAssumption DEF Running
<1>4. ASSUME NEW bytes \in Sizes, Malloc(bytes) PROVE IInv'
  <2> DEFINE results == [p \in PE |-> heap_malloc(heap[p], hash[p], bytes)]
  <2>1. PICK r \in {f \in [PE -> UNION {results[p] : p \in PE}] :
                     \A p \in PE : f[p] \in results[p]} :
          /\ heap' = [p \in PE |-> r[p].heap]
          /\ held' = held \cup
               {a \in {[call |-> calls, size |-> bytes, ptr |-> [p \in PE |-> r[p].ptr]]} :
                  \E p \in PE : a.ptr[p] # NULL}
    BY <1>4, Zenon DEF Malloc
  <2>2. bytes \in Nat
    BY HeapAssumption
  <2>3. ASSUME NEW p \in PE
        PROVE  /\ r[p].heap \in HeapRec /\ GoodList(r[p].heap)
               /\ r[p].ptr \in (0 .. HeapSize) \cup {NULL}
    <3>1. r[p] \in heap_malloc(heap[p], hash[p], bytes)
      OBVIOUS
    <3>2. heap[p] \in HeapRec /\ GoodList(heap[p]) /\ hash[p] \in [Ids -> Bucket]
      BY <1>1, BucketFacts
    <3> QED BY <2>2, <3>1, <3>2, MallocGood
  <2>4. heap' \in [PE -> HeapRec] /\ \A p \in PE : GoodList(heap'[p])
    BY <2>1, <2>3
  <2>5. [p \in PE |-> r[p].ptr] \in [PE -> (0 .. HeapSize) \cup {NULL}]
    BY <2>3
  <2>6. \A a \in held' : a \in Allocation
    <3> DEFINE new == [call |-> calls, size |-> bytes, ptr |-> [p \in PE |-> r[p].ptr]]
    <3>1. new \in Allocation
      BY <1>1, <2>5 DEF Allocation
    <3>2. \A a \in held' : a \in held \/ a = new
      BY <2>1
    <3> QED BY <1>1, <3>1, <3>2
  <2>7. UNCHANGED hash /\ calls' = calls + 1 /\ Running /\ legible' = (legible /\ Legible')
    BY <1>4, Zenon DEF Malloc
  <2>8. legible' \in BOOLEAN
    BY <2>7
  <2> QED BY <1>2, <1>3, <2>4, <2>6, <2>7, <2>8
<1>5. ASSUME NEW a \in held, Free(a) PROVE IInv'
  <2> DEFINE results == [p \in PE |-> IF a.ptr[p] = NULL THEN {heap[p]}
                                      ELSE heap_free(heap[p], a.ptr[p])]
  <2>1. heap' \in [PE -> UNION {results[p] : p \in PE}] /\ \A p \in PE : heap'[p] \in results[p]
    BY <1>5, Zenon DEF Free
  <2>2. ASSUME NEW p \in PE PROVE heap'[p] \in HeapRec /\ GoodList(heap'[p])
    <3>1. heap[p] \in HeapRec /\ GoodList(heap[p]) /\ a.ptr[p] \in (0 .. HeapSize) \cup {NULL}
      BY <1>1 DEF Allocation
    <3>2. CASE a.ptr[p] = NULL
      BY <2>1, <3>1, <3>2
    <3>3. CASE a.ptr[p] # NULL
      <4>1. heap'[p] \in heap_free(heap[p], a.ptr[p])
        BY <2>1, <3>3
      <4>2. \A x \in 0 .. HeapSize : x \in Nat
        BY BucketFacts
      <4>3. a.ptr[p] \in Nat
        BY <3>1, <3>3, <4>2
      <4> QED BY <3>1, <4>1, <4>3, FreeGood
    <3> QED BY <3>2, <3>3
  <2>3. heap' \in [PE -> HeapRec]
    BY <2>1, <2>2
  <2>4. UNCHANGED hash /\ calls' = calls + 1 /\ Running /\ legible' = (legible /\ Legible')
        /\ held' = held \ {a}
    BY <1>5, Zenon DEF Free
  <2>5. legible' \in BOOLEAN
    BY <2>4
  <2> QED BY <1>1, <1>2, <1>3, <2>2, <2>3, <2>4, <2>5
<1>6. CASE UNCHANGED vars
  BY <1>1, <1>2, <1>6 DEF vars
<1> QED BY <1>4, <1>5, <1>6 DEF Next, Stopped

(* The list of blocks of every PE is good in every reachable state         *)
(* (heap_malloc, heap_free).                                               *)
THEOREM IInvHolds == Spec => []IInv
BY InitIInv, NextIInv, PTL DEF Spec

(* Every heap, table and allocation has its type: in particular            *)
(* shmem_malloc returns NULL or an offset within the region, and the head  *)
(* names an existing struct.                                               *)
THEOREM TypeCorrect == Spec => []TypeOK
<1>1. IInv => TypeOK
  BY DEF IInv
<1> QED BY <1>1, IInvHolds, PTL

(* No two blocks of a heap overlap and none reaches beyond the region      *)
(* (BLOCK_GAP in heap_malloc), whatever the table has lost or confused.    *)
THEOREM BlocksStayDisjoint == Spec => []BlocksDisjoint
<1>1. IInv => BlocksDisjoint
  BY DEF IInv, GoodList, Ordered, BlocksDisjoint
<1> QED BY <1>1, IInvHolds, PTL

(* heap->head is always a block of the list (heap_malloc sets it to the    *)
(* new block, heap_free to the successor of the one it frees), so the next *)
(* search starts inside the list.                                          *)
THEOREM HeadStaysLinked == Spec => []HeadLinked
<1>1. IInv => HeadLinked
  BY DEF IInv, GoodList, HeadLinked
<1> QED BY <1>1, IInvHolds, PTL

(* The buckets of these offsets are their own: no two have the same        *)
(* remainder modulo NUM_BUCKETS, none that of a struct used as a key.      *)
Spread(offsets, keys) ==
  /\ offsets \subseteq 0 .. HeapSize /\ 0 \in offsets
  /\ \A x, y \in offsets : x % NumBuckets = y % NumBuckets => x = y
  /\ \A x \in offsets : x % NumBuckets \notin keys

(* What the table holds when offsets are spread out. Bucket 0 holds the    *)
(* dummy block while the block behind it starts at offset 0; a node in the *)
(* bucket of another offset stands for a block that is there, under the    *)
(* address of a different struct, so that hashmap_remove does not match it *)
(* unless that struct has been freed.                                      *)
TableOK(h, offsets) ==
  /\ h.blocks[1].ptr = 0 /\ h.blocks[1].size = 0
  /\ \A n \in DOMAIN h.blocks :
       h.blocks[n].ptr \in offsets /\ (n # 1 => h.blocks[n].size # 0)
  /\ h.buckets[0] = IF Len(h.blocks) > 1 /\ h.blocks[2].ptr = 0
                    THEN << h.blocks[1].id >> ELSE << >>
  /\ \A x \in offsets \ {0} : \A m \in DOMAIN h.buckets[x % NumBuckets] :
       /\ \E n \in DOMAIN h.blocks : h.blocks[n].ptr = x
       /\ \A n \in DOMAIN h.blocks :
            h.blocks[n].ptr = x => h.blocks[n].id # h.buckets[x % NumBuckets][m]

(* The table of a heap whose keys have buckets of their own: it is as      *)
(* above, and the other buckets in use are those of structs.               *)
TableInv(h, hs) ==
  /\ TableOK(h, Offsets(h))
  /\ \A k \in Bucket : h.buckets[k] # << >> =>
       k \in StructKeys(h, hs) \/ \E x \in Offsets(h) : x % NumBuckets = k

(* A block other than the dummy has this offset and size.                  *)
Holds(blocks, ptr, size) ==
  \E n \in DOMAIN blocks : n # 1 /\ blocks[n].ptr = ptr /\ blocks[n].size = size

(* Two heaps whose lists agree in offsets and sizes and whose heads are at *)
(* the same place.                                                         *)
SameShape(g, h) ==
  /\ Len(g.blocks) = Len(h.blocks)
  /\ \A n \in DOMAIN g.blocks : /\ g.blocks[n].ptr  = h.blocks[n].ptr
                                /\ g.blocks[n].size = h.blocks[n].size
  /\ Position(g.blocks, g.head) = Position(h.blocks, h.head)

(* No process has crashed.                                                 *)
NoFault == \A p \in PE : heap[p].fault = "none"

(* Every allocation the program holds is a block of the list, and no other *)
(* has its offset.                                                         *)
HeldInv ==
  \A p \in PE : \A a \in held : a.ptr[p] # NULL =>
    /\ Holds(heap[p].blocks, a.ptr[p], a.size)
    /\ \A b \in held : a # b => a.ptr[p] # b.ptr[p]

(* The heaps of all PEs have the same shape while none has crashed.        *)
ShapeInv == NoFault => \A p, q \in PE : SameShape(heap[p], heap[q])

(* What holds as long as the table has been legible.                       *)
Live ==
  /\ \A p \in PE : Apart(heap[p], hash[p]) /\ TableInv(heap[p], hash[p])
  /\ HeldInv /\ ShapeInv /\ SameOffset

(* The inductive invariant of LegibleLive and SameOffset.                  *)
LiveInv == IInv /\ (legible => Live)

(* The position heap_malloc stops its search at.                           *)
FirstFit(h, bytes) ==
  LET start == Position(h.blocks, h.head)
      fits  == Fits(h.blocks, start, bytes)
  IN  NEXT_BLOCK(h.blocks, start, CHOOSE k \in fits : \A m \in fits : k <= m)

(* The search of heap_malloc finds a gap.                                  *)
Room(h, bytes) == Fits(h.blocks, Position(h.blocks, h.head), bytes) # {}

(* The block heap_malloc makes behind position at.                         *)
NewBlock(h, at, b, bytes) == [id |-> b, ptr |-> BLOCK_END(h.blocks[at]), size |-> bytes]

(* What Spread says of single offsets, and that bucket 0 belongs to        *)
(* offset 0.                                                               *)
LEMMA SpreadFacts ==
  ASSUME NEW offsets, NEW keys, Spread(offsets, keys)
  PROVE  /\ 0 \in offsets /\ 0 % NumBuckets = 0
         /\ \A x \in offsets : x \in Nat /\ x <= HeapSize /\ x % NumBuckets \in Bucket
         /\ \A x \in offsets : x # 0 => x % NumBuckets # 0
         /\ 0 \notin keys /\ 0 \in Bucket
<1>1. HeapSize \in Nat /\ NumBuckets \in Nat \ {0}
  BY BucketFacts
<1>2. \A x \in offsets : x \in Nat /\ x <= HeapSize
  BY <1>1 DEF Spread
<1>3. 0 % NumBuckets = 0
  BY <1>1
<1>4. \A x \in offsets : x % NumBuckets \in Bucket
  BY <1>2, BucketFacts
<1>5. 0 \in Bucket
  BY <1>1 DEF Bucket
<1> QED BY <1>2, <1>3, <1>4, <1>5 DEF Spread

(* The search stops at a block of the list followed by enough room.        *)
LEMMA FitPlace ==
  ASSUME NEW h \in HeapRec, GoodList(h), NEW bytes \in Nat, Room(h, bytes)
  PROVE  /\ FirstFit(h, bytes) \in DOMAIN h.blocks
         /\ BLOCK_GAP(h.blocks, FirstFit(h, bytes)) >= bytes
<1> DEFINE start == Position(h.blocks, h.head)
           fits  == Fits(h.blocks, start, bytes)
           k     == CHOOSE k \in fits : \A m \in fits : k <= m
<1>1. h.blocks \in Seq(Block) /\ h.blocks # << >> /\ Len(h.blocks) \in Nat
  BY LenProperties DEF HeapRec, GoodList
<1>2. start \in DOMAIN h.blocks
  BY PositionType DEF GoodList
<1>3. FirstFit(h, bytes) = NEXT_BLOCK(h.blocks, start, k)
  BY DEF FirstFit
<1>4. fits # {}
  BY DEF Room
<1> HIDE DEF start
<1>5. \A m \in fits : m \in Nat /\ BLOCK_GAP(h.blocks, NEXT_BLOCK(h.blocks, start, m)) >= bytes
  BY <1>1 DEF Fits
<1> HIDE DEF fits
<1>6. \E m \in fits : \A n \in fits : m <= n
  BY <1>4, <1>5, LeastNat
<1>7. k \in fits
  BY <1>6
<1> HIDE DEF k
<1>8. NEXT_BLOCK(h.blocks, start, k) \in DOMAIN h.blocks
  BY <1>1, <1>2, <1>5, <1>7, NextBlockType
<1> QED BY <1>3, <1>5, <1>7, <1>8

(* hashmap_set changes one bucket only, and none when it crashes.          *)
LEMMA SetOthers ==
  ASSUME NEW h \in HeapRec, NEW k \in Bucket, NEW key, NEW v \in Ids,
         NEW g \in hashmap_set(h, k, key, v)
  PROVE  /\ g.fault = h.fault \/ g.fault \in {"null", "wild"}
         /\ g.fault \in {"null", "wild"} /\ h.fault = "none" => g.buckets = h.buckets
         /\ \A m \in Bucket : m # k => g.buckets[m] = h.buckets[m]
<1> DEFINE nodes == h.buckets[k]
<1>1. h.buckets \in [Bucket -> Seq(Ids)] /\ nodes \in Seq(Ids)
  BY DEF HeapRec
<1>2. \/ \E n \in DOMAIN nodes : g = [h EXCEPT !.buckets[k][n] = v]
      \/ \E f \in {"null", "wild"} : g = [h EXCEPT !.fault = f]
      \/ g = [h EXCEPT !.buckets[k] = <<v>> \o @]
  BY DEF hashmap_set
<1>3. ASSUME NEW e, g = [h EXCEPT !.buckets = [h.buckets EXCEPT ![k] = e]]
      PROVE  g.fault = h.fault /\ \A m \in Bucket : m # k => g.buckets[m] = h.buckets[m]
  BY <1>1, <1>3 DEF HeapRec
<1>4. ASSUME NEW n \in DOMAIN nodes, g = [h EXCEPT !.buckets[k][n] = v]
      PROVE  g.fault = h.fault /\ \A m \in Bucket : m # k => g.buckets[m] = h.buckets[m]
  <2>1. g = [h EXCEPT !.buckets = [h.buckets EXCEPT ![k] = [nodes EXCEPT ![n] = v]]]
    BY <1>4
  <2> QED BY <1>3, <2>1
<1>5. ASSUME NEW f \in {"null", "wild"}, g = [h EXCEPT !.fault = f]
      PROVE  g.fault = f /\ g.buckets = h.buckets
  BY <1>5 DEF HeapRec
<1>6. ASSUME g = [h EXCEPT !.buckets[k] = <<v>> \o @]
      PROVE  g.fault = h.fault /\ \A m \in Bucket : m # k => g.buckets[m] = h.buckets[m]
  <2>1. g = [h EXCEPT !.buckets = [h.buckets EXCEPT ![k] = <<v>> \o nodes]]
    BY <1>6
  <2> QED BY <1>3, <2>1
<1> QED BY <1>2, <1>4, <1>5, <1>6

(* In an empty bucket hashmap_set finds nothing to follow: it puts the new *)
(* node there.                                                             *)
LEMMA SetEmpty ==
  ASSUME NEW h \in HeapRec, NEW k \in Bucket, NEW key, NEW v \in Ids, h.buckets[k] = << >>,
         NEW g \in hashmap_set(h, k, key, v)
  PROVE  g.fault = h.fault /\ g.buckets[k] = <<v>>
<1>1. h.buckets \in [Bucket -> Seq(Ids)] /\ DOMAIN h.buckets[k] = {} /\ Len(h.buckets[k]) = 0
  BY DEF HeapRec
<1>2. g = [h EXCEPT !.buckets[k] = <<v>> \o @]
  BY <1>1 DEF hashmap_set
<1>3. <<v>> \o << >> = <<v>>
  BY ConcatEmptySeq
<1>4. g = [h EXCEPT !.buckets = [h.buckets EXCEPT ![k] = <<v>>]]
  BY <1>2, <1>3
<1> QED BY <1>1, <1>4 DEF HeapRec

(* The list after heap_malloc has linked a block in behind position at.    *)
Inserted(h, g, at, b, bytes) ==
  /\ g.blocks = InsertAt(h.blocks, at + 1, NewBlock(h, at, b, bytes))
  /\ g.head = b

(* What a successful heap_malloc leaves: the new block behind position at, *)
(* as the head, and in the bucket of its offset the node of its            *)
(* predecessor alone; apart from that only buckets of struct addresses     *)
(* change.                                                                 *)
Placed(h, g, at, b, bytes, keys) ==
  /\ Inserted(h, g, at, b, bytes)
  /\ g.fault = h.fault
  /\ g.buckets[BLOCK_END(h.blocks[at]) % NumBuckets] = << h.blocks[at].id >>
  /\ \A m \in Bucket \ keys :
       m # BLOCK_END(h.blocks[at]) % NumBuckets => g.buckets[m] = h.buckets[m]

(* Offsets and ends of the blocks as numbers; only the dummy block is      *)
(* empty, so two blocks share an offset at most when the first is the      *)
(* dummy.                                                                  *)
LEMMA ListArith ==
  ASSUME NEW h \in HeapRec, GoodList(h), NEW offsets, TableOK(h, offsets)
  PROVE  /\ Len(h.blocks) \in Nat /\ DOMAIN h.blocks = 1 .. Len(h.blocks) /\ 1 \in DOMAIN h.blocks
         /\ \A n \in DOMAIN h.blocks : /\ h.blocks[n].ptr \in Nat /\ BLOCK_END(h.blocks[n]) \in Nat
                                       /\ BLOCK_END(h.blocks[n]) <= HeapSize
                                       /\ n # 1 => h.blocks[n].ptr < BLOCK_END(h.blocks[n])
         /\ \A m, n \in DOMAIN h.blocks : m < n => BLOCK_END(h.blocks[m]) <= h.blocks[n].ptr
         /\ h.blocks[1].ptr = 0 /\ BLOCK_END(h.blocks[1]) = 0
<1>1. h.blocks \in Seq(Block) /\ h.blocks # << >> /\ Len(h.blocks) \in Nat
      /\ DOMAIN h.blocks = 1 .. Len(h.blocks) /\ 1 \in DOMAIN h.blocks
  BY LenProperties, EmptySeq DEF HeapRec, GoodList
<1>2. \A n \in DOMAIN h.blocks : /\ h.blocks[n].ptr \in Nat /\ h.blocks[n].size \in Nat
                                 /\ BLOCK_END(h.blocks[n]) \in 0 .. HeapSize
  BY BlockFacts
<1>3. \A y \in 0 .. HeapSize : y \in Nat /\ y <= HeapSize
  BY BucketFacts
<1>4. ASSUME NEW n \in DOMAIN h.blocks, n # 1 PROVE h.blocks[n].ptr < BLOCK_END(h.blocks[n])
  <2>1. PICK y \in Nat, z \in Nat : y = h.blocks[n].ptr /\ z = h.blocks[n].size
    BY <1>2
  <2>2. z # 0
    BY <1>4, <2>1 DEF TableOK
  <2>3. y < y + z
    BY <2>2
  <2> QED BY <2>1, <2>3 DEF BLOCK_END
<1>5. h.blocks[1].ptr = 0 /\ BLOCK_END(h.blocks[1]) = 0
  BY DEF TableOK, BLOCK_END
<1> QED BY <1>1, <1>2, <1>3, <1>4, <1>5 DEF GoodList, Ordered

(* No block but the dummy has the offset of a new one already, its bucket  *)
(* is empty, and the block behind it is not at offset 0.                   *)
LEMMA FreshPlace ==
  ASSUME NEW h \in HeapRec, GoodList(h), NEW offsets, NEW keys, Spread(offsets, keys), TableOK(h, offsets),
         NEW at \in DOMAIN h.blocks, NEW bytes \in Nat \ {0}, BLOCK_GAP(h.blocks, at) >= bytes,
         BLOCK_END(h.blocks[at]) \in offsets
  PROVE  /\ at # Len(h.blocks) => h.blocks[at + 1].ptr # 0
         /\ \A n \in DOMAIN h.blocks : n # 1 => h.blocks[n].ptr # BLOCK_END(h.blocks[at])
         /\ BLOCK_END(h.blocks[at]) = 0 <=> at = 1
         /\ at # 1 => h.blocks[at].ptr # BLOCK_END(h.blocks[at])
         /\ h.buckets[BLOCK_END(h.blocks[at]) % NumBuckets] = << >>
<1> DEFINE L == Len(h.blocks)
           P == [n \in 1 .. L |-> h.blocks[n].ptr]
           E == [n \in 1 .. L |-> BLOCK_END(h.blocks[n])]
<1>1. /\ L \in Nat /\ DOMAIN h.blocks = 1 .. L /\ 1 \in DOMAIN h.blocks
      /\ \A n \in DOMAIN h.blocks : /\ h.blocks[n].ptr \in Nat /\ BLOCK_END(h.blocks[n]) \in Nat
                                    /\ BLOCK_END(h.blocks[n]) <= HeapSize
                                    /\ n # 1 => h.blocks[n].ptr < BLOCK_END(h.blocks[n])
      /\ \A m, n \in DOMAIN h.blocks : m < n => BLOCK_END(h.blocks[m]) <= h.blocks[n].ptr
      /\ h.blocks[1].ptr = 0 /\ BLOCK_END(h.blocks[1]) = 0
  BY ListArith
<1>2. bytes \in Nat /\ bytes > 0
  OBVIOUS
<1>3. at < L => BLOCK_END(h.blocks[at]) + bytes <= h.blocks[at + 1].ptr
  <2>1. SUFFICES ASSUME at < L PROVE BLOCK_END(h.blocks[at]) + bytes <= h.blocks[at + 1].ptr
    OBVIOUS
  <2>2. at # Len(h.blocks) /\ at + 1 \in DOMAIN h.blocks
    BY <1>1, <2>1
  <2>3. h.blocks[at + 1].ptr - BLOCK_END(h.blocks[at]) >= bytes
    BY <2>2 DEF BLOCK_GAP
  <2>4. PICK y \in Nat, z \in Nat : y = h.blocks[at + 1].ptr /\ z = BLOCK_END(h.blocks[at])
    BY <1>1, <2>2
  <2>5. y - z >= bytes
    BY <2>3, <2>4
  <2>6. z + bytes <= y
    BY <1>2, <2>5
  <2> QED BY <2>4, <2>6
<1>4. P \in [1 .. L -> Nat] /\ E \in [1 .. L -> Nat] /\ at \in 1 .. L
  BY <1>1
<1>6. /\ \A n \in 1 .. L : P[n] = h.blocks[n].ptr
      /\ \A n \in 1 .. L : E[n] = BLOCK_END(h.blocks[n])
  OBVIOUS
<1> HIDE DEF L, P, E
<1>5. /\ P[1] = 0 /\ E[1] = 0 /\ \A n \in 1 .. L : n # 1 => P[n] < E[n]
      /\ \A m, n \in 1 .. L : m < n => E[m] <= P[n]
      /\ at < L => E[at] + bytes <= P[at + 1]
  <2>1. P[1] = 0 /\ E[1] = 0 /\ \A n \in 1 .. L : n # 1 => P[n] < E[n]
    BY <1>1, <1>6
  <2>2. \A m, n \in 1 .. L : m < n => E[m] <= P[n]
    BY <1>1, <1>6, SMTT(60)
  <2>3. at < L => at + 1 \in 1 .. L
    BY <1>1, <1>4, SMTT(60)
  <2>4. at < L => E[at] + bytes <= P[at + 1]
    BY <1>3, <1>4, <1>6, <2>3
  <2> QED BY <2>1, <2>2, <2>4
<1>7. /\ \A n \in 1 .. L : n # 1 => P[n] # E[at]
      /\ E[at] = 0 <=> at = 1
      /\ at # 1 => P[at] # E[at]
  <2>1. L \in Nat /\ at \in 1 .. L /\ P \in [1 .. L -> Nat] /\ E \in [1 .. L -> Nat]
    BY <1>1, <1>4
  <2>2. ASSUME NEW n \in 1 .. L, n # 1 PROVE P[n] # E[at]
    <3>1. CASE n < at
      BY <1>5, <2>1, <2>2, <3>1
    <3>2. CASE n = at
      BY <1>5, <2>1, <2>2, <3>2
    <3>3. CASE n = at + 1
      BY <1>2, <1>5, <2>1, <3>3
    <3>4. CASE n > at + 1
      <4>1. at < L /\ at + 1 \in 1 .. L
        BY <2>1, <3>4, SMTT(60)
      <4>2. E[at + 1] <= P[n] /\ P[at + 1] < E[at + 1] /\ E[at] + bytes <= P[at + 1]
        BY <1>5, <2>1, <3>4, <4>1
      <4> QED BY <1>2, <2>1, <4>1, <4>2, SMTT(60)
    <3> QED BY <2>1, <3>1, <3>2, <3>3, <3>4
  <2>3. at # 1 => P[at] < E[at]
    BY <1>5, <2>1
  <2> QED BY <1>5, <2>1, <2>2, <2>3
<1>8. /\ \A n \in DOMAIN h.blocks : n # 1 => h.blocks[n].ptr # BLOCK_END(h.blocks[at])
      /\ BLOCK_END(h.blocks[at]) = 0 <=> at = 1
      /\ at # 1 => h.blocks[at].ptr # BLOCK_END(h.blocks[at])
  BY <1>1, <1>4, <1>6, <1>7
<1>9. at # Len(h.blocks) => h.blocks[at + 1].ptr # 0
  <2>1. SUFFICES ASSUME at # Len(h.blocks) PROVE h.blocks[at + 1].ptr # 0
    OBVIOUS
  <2>2. at < L /\ at + 1 \in 1 .. L
    BY <1>1, <1>4, <2>1 DEF L
  <2>3. P[at + 1] # 0
    <3>1. P[at + 1] \in Nat /\ E[at] \in Nat /\ E[at] + bytes <= P[at + 1]
      BY <1>4, <1>5, <2>2
    <3> QED BY <1>2, <3>1
  <2> QED BY <1>6, <2>2, <2>3
<1>10. h.buckets[BLOCK_END(h.blocks[at]) % NumBuckets] = << >>
  <2>1. CASE at = 1
    <3>1. BLOCK_END(h.blocks[at]) % NumBuckets = 0
      BY <1>8, <2>1, SpreadFacts
    <3>2. ~(Len(h.blocks) > 1 /\ h.blocks[2].ptr = 0)
      <4>1. Len(h.blocks) > 1 => 2 \in DOMAIN h.blocks
        BY <1>1 DEF L
      <4> QED BY <1>8, <2>1, <4>1
    <3> QED BY <3>1, <3>2 DEF TableOK
  <2>2. CASE at # 1
    <3>1. PICK x \in offsets \ {0} : x = BLOCK_END(h.blocks[at])
      BY <1>8, <2>2
    <3>2. ~ \E n \in DOMAIN h.blocks : h.blocks[n].ptr = x
      BY <1>1, <1>8, <3>1
    <3>3. DOMAIN h.buckets[x % NumBuckets] = {}
      BY <3>2 DEF TableOK
    <3>4. h.buckets[x % NumBuckets] \in Seq(Ids)
      BY SpreadFacts DEF HeapRec
    <3>5. h.buckets[x % NumBuckets] = << >>
      <4>1. PICK s \in Seq(Ids) : s = h.buckets[x % NumBuckets]
        BY <3>4
      <4>2. Len(s) \in Nat /\ 1 .. Len(s) = {}
        BY <3>3, <4>1, LenProperties
      <4>3. Len(s) = 0
        <5>1. ASSUME NEW n \in Nat, 1 .. n = {} PROVE n = 0
          <6>1. n # 0 => 1 \in 1 .. n
            BY SMTT(60)
          <6> QED BY <5>1, <6>1
        <5> QED BY <4>2, <5>1
      <4> QED BY <4>1, <4>3, EmptySeq
    <3> QED BY <3>1, <3>5
  <2> QED BY <2>1, <2>2
<1> QED BY <1>8, <1>9, <1>10

(* What makes a place fit for a block: the offset it gets there is spread  *)
(* out with those in use, and the structs that may be keys are known.      *)
Fresh(h, hs, at, bytes, offsets, keys) ==
  /\ bytes # 0 /\ BLOCK_END(h.blocks[at]) \in offsets
  /\ Spread(offsets, keys) /\ TableOK(h, offsets)
  /\ \A n \in DOMAIN h.blocks : h.blocks[n].ptr # 0 => hs[h.blocks[n].id] \in keys

(* heap_malloc either fails and leaves list and table alone, or places a   *)
(* block: with spread offsets its second hashmap_set meets an empty        *)
(* bucket.                                                                 *)
LEMMA MallocCases ==
  ASSUME NEW h \in HeapRec, GoodList(h), h.fault = "none", NEW offsets, NEW keys,
         NEW hs \in [Ids -> Bucket], NEW bytes \in Nat,
         NEW r \in heap_malloc(h, hs, bytes),
         \A b \in Ids : Room(h, bytes) /\ Inserted(h, r.heap, FirstFit(h, bytes), b, bytes)
                       => Fresh(h, hs, FirstFit(h, bytes), bytes, offsets, keys)
  PROVE  \/ /\ r.ptr = NULL /\ SameList(r.heap, h) /\ r.heap.buckets = h.buckets
            /\ r.heap.fault = "none" => ~Room(h, bytes)
         \/ /\ Room(h, bytes) /\ r.ptr = BLOCK_END(h.blocks[FirstFit(h, bytes)])
            /\ r.heap.fault = "none"
            /\ \E b \in Ids : ~Linked(h.blocks, b) /\ Placed(h, r.heap, FirstFit(h, bytes), b, bytes, keys)
<1> DEFINE start == Position(h.blocks, h.head)
           fits  == Fits(h.blocks, start, bytes)
           at    == NEXT_BLOCK(h.blocks, start, CHOOSE k \in fits : \A m \in fits : k <= m)
           prev  == h.blocks[at]
           new(b) == [id |-> b, ptr |-> BLOCK_END(prev), size |-> bytes]
           First(b) == IF at = Len(h.blocks) THEN {h}
                       ELSE hashmap_set(h, hs[h.blocks[at + 1].id], NULL, b)
           Link(g, b) == [g EXCEPT !.blocks = InsertAt(@, at + 1, new(b)), !.head = b]
           Second(g, b) == hashmap_set(Link(g, b), new(b).ptr % NumBuckets, new(b).ptr, prev.id)
           Result(g, b) == [heap |-> g, ptr |-> IF g.fault = "none" THEN new(b).ptr ELSE NULL]
<1>1. \/ ~h.clean /\ r = [heap |-> [h EXCEPT !.fault = "wild"], ptr |-> NULL]
      \/ fits = {} /\ r = [heap |-> h, ptr |-> NULL]
      \/ fits # {} /\ \E b \in Ids : ~Linked(h.blocks, b) /\ \E g \in First(b) :
           \/ g.fault # "none" /\ r = Result(g, b)
           \/ g.fault = "none" /\ \E f \in Second(g, b) : r = Result(f, b)
  <2>1. r \in (IF ~h.clean
              THEN {[heap |-> [h EXCEPT !.fault = "wild"], ptr |-> NULL]}
              ELSE IF fits = {}
              THEN {[heap |-> h, ptr |-> NULL]}
              ELSE UNION {UNION {IF g.fault # "none"
                                 THEN {Result(g, b)}
                                 ELSE {Result(f, b) : f \in Second(g, b)} : g \in First(b)} :
                            b \in {c \in Ids : ~Linked(h.blocks, c)}})
    BY Zenon DEF heap_malloc
  <2> HIDE DEF fits, First, Second, Result
  <2> QED BY <2>1
<1>2. CASE ~h.clean /\ r = [heap |-> [h EXCEPT !.fault = "wild"], ptr |-> NULL]
  BY <1>2 DEF HeapRec, SameList
<1>3. CASE fits = {} /\ r = [heap |-> h, ptr |-> NULL]
  BY <1>3 DEF SameList, Room
<1>4. ASSUME fits # {}, NEW b \in Ids, ~Linked(h.blocks, b), NEW g \in First(b),
             \/ g.fault # "none" /\ r = Result(g, b)
             \/ g.fault = "none" /\ \E f \in Second(g, b) : r = Result(f, b)
      PROVE  \/ /\ r.ptr = NULL /\ SameList(r.heap, h) /\ r.heap.buckets = h.buckets
                /\ r.heap.fault = "none" => ~Room(h, bytes)
             \/ /\ Room(h, bytes) /\ r.ptr = BLOCK_END(h.blocks[FirstFit(h, bytes)])
                /\ r.heap.fault = "none"
                /\ \E c \in Ids : ~Linked(h.blocks, c) /\ Placed(h, r.heap, FirstFit(h, bytes), c, bytes, keys)
  <2>1. Room(h, bytes) /\ at = FirstFit(h, bytes)
    BY <1>4 DEF Room, FirstFit
  <2>3. at \in DOMAIN h.blocks /\ BLOCK_GAP(h.blocks, at) >= bytes
    BY <2>1, FitPlace
  <2> HIDE DEF at
  <2>4. /\ h.blocks \in Seq(Block) /\ DOMAIN h.blocks = 1 .. Len(h.blocks) /\ Len(h.blocks) \in Nat
        /\ \A n \in DOMAIN h.blocks : h.blocks[n] \in Block /\ h.blocks[n].id \in Ids
    BY BlockFacts, LenProperties DEF HeapRec, Block
  <2>5. PICK x \in Nat : x = BLOCK_END(prev)
    <3>1. BLOCK_END(prev) \in 0 .. HeapSize /\ HeapSize \in Nat
      BY <2>3, BlockFacts, BucketFacts
    <3> QED BY <3>1
  <2>6. x % NumBuckets \in Bucket
    BY BucketFacts
  <2>7. g \in HeapRec /\ SameList(g, h) /\ g.fault \in Faults
        /\ (g.fault # "none" => g.buckets = h.buckets)
        /\ \A m \in Bucket : \/ g.buckets[m] = h.buckets[m]
                             \/ at # Len(h.blocks) /\ m = hs[h.blocks[at + 1].id]
    <3>1. CASE at = Len(h.blocks)
      BY <3>1, <1>4 DEF SameList, HeapRec
    <3>2. CASE at # Len(h.blocks)
      <4>1. at + 1 \in DOMAIN h.blocks
        BY <2>3, <2>4, <3>2
      <4>2. PICK k \in Bucket : k = hs[h.blocks[at + 1].id]
        BY <2>4, <4>1
      <4>3. g \in hashmap_set(h, k, NULL, b)
        BY <1>4, <3>2, <4>2
      <4>4. g \in HeapRec /\ g.blocks = h.blocks /\ g.head = h.head
        BY <1>4, <4>3, SetKeeps
      <4>5. /\ g.fault = h.fault \/ g.fault \in {"null", "wild"}
            /\ g.fault \in {"null", "wild"} /\ h.fault = "none" => g.buckets = h.buckets
            /\ \A m \in Bucket : m # k => g.buckets[m] = h.buckets[m]
        BY <1>4, <4>3, SetOthers
      <4>6. \A m \in Bucket : \/ g.buckets[m] = h.buckets[m]
                              \/ at # Len(h.blocks) /\ m = hs[h.blocks[at + 1].id]
        BY <3>2, <4>2, <4>5
      <4> QED BY <4>4, <4>5, <4>6 DEF SameList, Faults
    <3> QED BY <3>1, <3>2
  <2>8. CASE g.fault # "none" /\ r = Result(g, b)
    BY <2>7, <2>8, SMTT(60) DEF NULL
  <2>9. ASSUME g.fault = "none", NEW f \in Second(g, b), r = Result(f, b)
        PROVE  /\ r.ptr = BLOCK_END(h.blocks[at]) /\ r.heap.fault = "none"
               /\ Placed(h, r.heap, at, b, bytes, keys)
    <3> DEFINE l == Link(g, b)
               e == NewBlock(h, at, b, bytes)
               k == x % NumBuckets
    <3>1. new(b) = e /\ e.ptr = x
      BY <2>5 DEF NewBlock
    <3>2. /\ l.head = b
          /\ l.blocks = InsertAt(h.blocks, at + 1, e)
          /\ l.buckets = g.buckets /\ l.clean = g.clean /\ l.fault = "none"
      BY <2>7, <2>9, <3>1 DEF HeapRec, SameList
    <3>3. f \in hashmap_set(l, k, x, prev.id)
      BY <2>9, <3>1
    <3>4. GoodList(l) /\ l.blocks \in Seq(Block)
      <4>1. l.blocks = InsertAt(h.blocks, at + 1,
                  [id |-> b, ptr |-> BLOCK_END(h.blocks[at]), size |-> bytes])
        BY <3>2 DEF NewBlock
      <4> HIDE DEF l
      <4> QED BY <1>4, <2>3, <3>2, <4>1, FitsGood
    <3>5. l \in HeapRec
      BY <1>4, <2>7, <3>2, <3>4 DEF HeapRec
    <3>6. k \in Bucket /\ prev.id \in Ids /\ prev = h.blocks[at]
      BY <2>3, <2>4, <2>6
    <3>7. r.heap = f
      BY <2>9
    <3> HIDE DEF l, e, prev
    <3>8. f.blocks = l.blocks /\ f.head = l.head
      BY <3>3, <3>5, <3>6, SetKeeps
    <3>9. Inserted(h, r.heap, at, b, bytes)
      BY <3>2, <3>7, <3>8 DEF Inserted, e
    <3>10. Fresh(h, hs, at, bytes, offsets, keys)
      BY <1>4, <2>1, <3>9
    <3>11. /\ bytes \in Nat \ {0} /\ Spread(offsets, keys) /\ TableOK(h, offsets)
           /\ BLOCK_END(h.blocks[at]) \in offsets /\ x \in offsets
      BY <2>5, <3>6, <3>10 DEF Fresh
    <3>12. /\ h.buckets[k] = << >> /\ k \notin keys
           /\ at # Len(h.blocks) => h.blocks[at + 1].ptr # 0
      <4>1. /\ h.buckets[BLOCK_END(h.blocks[at]) % NumBuckets] = << >>
            /\ at # Len(h.blocks) => h.blocks[at + 1].ptr # 0
        BY <2>3, <3>11, FreshPlace
      <4> QED BY <2>5, <3>6, <3>11, <4>1 DEF Spread
    <3>13. \A m \in Bucket \ keys : g.buckets[m] = h.buckets[m]
      <4>1. at # Len(h.blocks) => hs[h.blocks[at + 1].id] \in keys
        <5>1. at # Len(h.blocks) => at + 1 \in DOMAIN h.blocks
          BY <2>3, <2>4
        <5> QED BY <3>10, <3>12, <5>1 DEF Fresh
      <4> QED BY <2>7, <4>1
    <3>14. l.buckets[k] = << >>
      BY <3>2, <3>6, <3>12, <3>13
    <3> HIDE DEF k
    <3>15. f.fault = "none" /\ f.buckets[k] = << prev.id >>
      BY <3>2, <3>3, <3>5, <3>6, <3>14, SetEmpty
    <3>16. \A m \in Bucket : m # k => f.buckets[m] = l.buckets[m]
      BY <3>3, <3>5, <3>6, SetOthers
    <3>17. \A m \in Bucket \ keys : m # k => f.buckets[m] = h.buckets[m]
      BY <3>2, <3>13, <3>16
    <3>18. r.ptr = x
      <4>1. r = [heap |-> f, ptr |-> IF f.fault = "none" THEN new(b).ptr ELSE NULL]
        BY <2>9
      <4> QED BY <3>1, <3>15, <4>1
    <3>19. x = BLOCK_END(h.blocks[at])
      BY <2>5, <3>6
    <3> QED BY <3>6, <3>7, <3>9, <3>15, <3>17, <3>18, <3>19 DEF Placed, k
  <2> QED BY <1>4, <2>1, <2>8, <2>9
<1> QED BY <1>1, <1>2, <1>3, <1>4, ZenonT(60)

(* The list after a block is placed, element by element.                   *)
LEMMA InsertedList ==
  ASSUME NEW h \in HeapRec, GoodList(h), NEW at \in DOMAIN h.blocks, NEW b \in Ids, NEW bytes \in Nat,
         NEW g, Inserted(h, g, at, b, bytes)
  PROVE  LET L == Len(h.blocks)
         IN  /\ L \in Nat /\ at \in 1 .. L /\ DOMAIN h.blocks = 1 .. L /\ DOMAIN g.blocks = 1 .. L + 1
             /\ Len(g.blocks) = L + 1
             /\ g.blocks[at + 1].id = b /\ g.blocks[at + 1].size = bytes
             /\ g.blocks[at + 1].ptr = BLOCK_END(h.blocks[at])
             /\ \A n \in 1 .. at : g.blocks[n] = h.blocks[n]
             /\ \A n \in at + 1 .. L : g.blocks[n + 1] = h.blocks[n]
             /\ \A n \in 1 .. L + 1 :
                  n = at + 1 \/ \E m \in 1 .. L : g.blocks[n] = h.blocks[m] /\ (m = 1 <=> n = 1)
<1> DEFINE L == Len(h.blocks)
           e == NewBlock(h, at, b, bytes)
           s == h.blocks
<1>1. s \in Seq(Block) /\ L \in Nat /\ DOMAIN s = 1 .. L /\ at \in 1 .. L /\ at + 1 \in 1 .. L + 1
  BY LenProperties DEF HeapRec
<1>2. BLOCK_END(h.blocks[at]) \in 0 .. HeapSize
  BY BlockFacts
<1>2a. h.blocks[at] \in Block
  BY <1>1, ElementOfSeq
<1>3. /\ e \in Block /\ e.id = b /\ e.size = bytes /\ e.ptr = BLOCK_END(h.blocks[at])
  BY <1>2 DEF NewBlock, Block
<1>4. g.blocks = InsertAt(s, at + 1, e)
  BY DEF Inserted
<1> HIDE DEF L, e, s
<1>5. /\ g.blocks \in Seq(Block) /\ Len(g.blocks) = L + 1
      /\ \A n \in 1 .. L + 1 : g.blocks[n] = IF n < at + 1 THEN s[n]
                                             ELSE IF n = at + 1 THEN e ELSE s[n - 1]
  <2>1. L = Len(s)
    BY DEF L, s
  <2>2. at + 1 \in 1 .. Len(s) + 1
    BY <1>1, <2>1
  <2>3. s \in Seq(Block) /\ e \in Block
    BY <1>1, <1>3
  <2>4. /\ InsertAt(s, at + 1, e) \in Seq(Block) /\ Len(InsertAt(s, at + 1, e)) = Len(s) + 1
        /\ \A n \in 1 .. Len(s) + 1 :
             InsertAt(s, at + 1, e)[n] = IF n < at + 1 THEN s[n]
                                         ELSE IF n = at + 1 THEN e ELSE s[n - 1]
    <3> DEFINE c == at + 1
    <3>1. c \in 1 .. Len(s) + 1
      BY <2>2
    <3> HIDE DEF c
    <3>2. /\ InsertAt(s, c, e) \in Seq(Block) /\ Len(InsertAt(s, c, e)) = Len(s) + 1
          /\ \A n \in 1 .. Len(s) + 1 :
               InsertAt(s, c, e)[n] = IF n < c THEN s[n] ELSE IF n = c THEN e ELSE s[n - 1]
      BY <2>3, <3>1, InsertProperties
    <3> QED BY <3>2 DEF c
  <2> QED BY <1>4, <2>1, <2>4
<1>6. DOMAIN g.blocks = 1 .. L + 1
  BY <1>5, LenProperties
<1>7. g.blocks[at + 1] = e
  BY <1>1, <1>5
<1>8. \A n \in 1 .. at : g.blocks[n] = s[n]
  BY <1>1, <1>5
<1>9. ASSUME NEW n \in at + 1 .. L PROVE g.blocks[n + 1] = s[n]
  <2>1. n + 1 \in 1 .. L + 1 /\ ~(n + 1 < at + 1) /\ n + 1 # at + 1 /\ (n + 1) - 1 = n
    BY <1>1
  <2> QED BY <1>5, <2>1
<1>10. ASSUME NEW n \in 1 .. L + 1, n # at + 1
       PROVE  \E m \in 1 .. L : g.blocks[n] = s[m] /\ (m = 1 <=> n = 1)
  <2>1. CASE n < at + 1
    BY <1>1, <1>5, <2>1
  <2>2. CASE n > at + 1
    <3>1. n - 1 \in 1 .. L /\ n - 1 # 1 /\ n # 1
      BY <1>1, <2>2
    <3>2. g.blocks[n] = s[n - 1]
      BY <1>1, <1>5, <2>2
    <3> QED BY <3>1, <3>2
  <2> QED BY <1>1, <1>10, <2>1, <2>2
<1> QED BY <1>1, <1>3, <1>5, <1>6, <1>7, <1>8, <1>9, <1>10 DEF L, s

(* Placing a block keeps TableOK.                                          *)
LEMMA PlacedTable ==
  ASSUME NEW h \in HeapRec, GoodList(h), NEW hs, NEW offsets, NEW keys,
         NEW at \in DOMAIN h.blocks, NEW bytes \in Nat, BLOCK_GAP(h.blocks, at) >= bytes,
         Fresh(h, hs, at, bytes, offsets, keys),
         NEW b \in Ids, ~Linked(h.blocks, b), NEW g, Placed(h, g, at, b, bytes, keys)
  PROVE  TableOK(g, offsets)
<1> DEFINE L == Len(h.blocks)
<1>0. /\ bytes \in Nat \ {0} /\ Spread(offsets, keys) /\ TableOK(h, offsets)
      /\ BLOCK_END(h.blocks[at]) \in offsets /\ Inserted(h, g, at, b, bytes)
  BY DEF Fresh, Placed
<1>1. /\ L \in Nat /\ at \in 1 .. L /\ DOMAIN h.blocks = 1 .. L /\ DOMAIN g.blocks = 1 .. L + 1
      /\ Len(g.blocks) = L + 1
      /\ g.blocks[at + 1].id = b /\ g.blocks[at + 1].size = bytes
      /\ g.blocks[at + 1].ptr = BLOCK_END(h.blocks[at])
      /\ \A n \in 1 .. at : g.blocks[n] = h.blocks[n]
      /\ \A n \in at + 1 .. L : g.blocks[n + 1] = h.blocks[n]
      /\ \A n \in 1 .. L + 1 :
           n = at + 1 \/ \E m \in 1 .. L : g.blocks[n] = h.blocks[m] /\ (m = 1 <=> n = 1)
  BY <1>0, InsertedList
<1> HIDE DEF L
<1>2. PICK x \in offsets : x = BLOCK_END(h.blocks[at])
  BY <1>0
<1>3. /\ \A n \in DOMAIN h.blocks : n # 1 => h.blocks[n].ptr # x
      /\ x = 0 <=> at = 1
      /\ at # 1 => h.blocks[at].ptr # x
  BY <1>0, <1>2, FreshPlace
<1>4. /\ g.buckets[x % NumBuckets] = << h.blocks[at].id >>
      /\ \A y \in offsets : y # x => g.buckets[y % NumBuckets] = h.buckets[y % NumBuckets]
  <2>1. /\ g.buckets[x % NumBuckets] = << h.blocks[at].id >>
        /\ \A m \in Bucket \ keys : m # x % NumBuckets => g.buckets[m] = h.buckets[m]
    BY <1>2 DEF Placed
  <2>2. ASSUME NEW y \in offsets, y # x PROVE g.buckets[y % NumBuckets] = h.buckets[y % NumBuckets]
    <3>1. y % NumBuckets \in Bucket /\ y % NumBuckets \notin keys
      BY <1>0, SpreadFacts DEF Spread
    <3>2. y % NumBuckets # x % NumBuckets
      BY <1>0, <2>2 DEF Spread
    <3> QED BY <2>1, <3>1, <3>2
  <2> QED BY <2>1, <2>2
<1>5. g.blocks[1] = h.blocks[1] /\ g.blocks[1].ptr = 0 /\ g.blocks[1].size = 0 /\ 1 \in 1 .. L
  BY <1>0, <1>1 DEF TableOK
<1>6. ASSUME NEW n \in DOMAIN g.blocks
      PROVE  g.blocks[n].ptr \in offsets /\ (n # 1 => g.blocks[n].size # 0)
  <2>1. CASE n = at + 1
    BY <1>0, <1>1, <1>2, <2>1
  <2>2. ASSUME NEW m \in 1 .. L, g.blocks[n] = h.blocks[m], m = 1 <=> n = 1
        PROVE  g.blocks[n].ptr \in offsets /\ (n # 1 => g.blocks[n].size # 0)
    <3>1. m \in DOMAIN h.blocks
      BY <1>1
    <3>2. h.blocks[m].ptr \in offsets /\ (m # 1 => h.blocks[m].size # 0)
      BY <1>0, <3>1 DEF TableOK
    <3> QED BY <2>2, <3>2
  <2> QED BY <1>1, <2>1, <2>2
<1>7. g.buckets[0] = IF Len(g.blocks) > 1 /\ g.blocks[2].ptr = 0
                     THEN << g.blocks[1].id >> ELSE << >>
  <2>0. 0 \in offsets /\ 0 % NumBuckets = 0
    BY <1>0, SpreadFacts
  <2>1. CASE at = 1
    <3>1. x = 0 /\ g.buckets[0] = << h.blocks[1].id >>
      BY <1>3, <1>4, <2>0, <2>1
    <3>2. Len(g.blocks) > 1 /\ g.blocks[2].ptr = 0
      BY <1>1, <1>2, <2>1, <3>1
    <3> QED BY <1>5, <3>1, <3>2
  <2>2. CASE at # 1
    <3>1. g.buckets[0] = h.buckets[0]
      BY <1>3, <1>4, <2>0, <2>2
    <3>2. 2 \in 1 .. at /\ L > 1 /\ Len(g.blocks) > 1
      BY <1>1, <2>2
    <3>3. g.blocks[2] = h.blocks[2]
      BY <1>1, <3>2
    <3>4. h.buckets[0] = IF L > 1 /\ h.blocks[2].ptr = 0 THEN << h.blocks[1].id >> ELSE << >>
      BY <1>0 DEF TableOK, L
    <3> QED BY <1>5, <3>1, <3>2, <3>3, <3>4
  <2> QED BY <2>1, <2>2
<1>8. ASSUME NEW y \in offsets \ {0}, NEW m \in DOMAIN g.buckets[y % NumBuckets]
      PROVE  /\ \E n \in DOMAIN g.blocks : g.blocks[n].ptr = y
             /\ \A n \in DOMAIN g.blocks :
                  g.blocks[n].ptr = y => g.blocks[n].id # g.buckets[y % NumBuckets][m]
  <2>1. CASE y = x
    <3>1. at + 1 \in DOMAIN g.blocks /\ at # 1
      BY <1>1, <1>3, <2>1
    <3>2. \A n \in DOMAIN g.blocks : g.blocks[n].ptr = y => n = at + 1
      <4>1. ASSUME NEW n \in DOMAIN g.blocks, g.blocks[n].ptr = y, n # at + 1 PROVE FALSE
        <5>1. PICK j \in 1 .. L : g.blocks[n] = h.blocks[j] /\ (j = 1 <=> n = 1)
          BY <1>1, <4>1
        <5>2. h.blocks[j].ptr = y /\ y # 0
          BY <4>1, <5>1
        <5>3. j # 1
          BY <1>0, <5>2 DEF TableOK
        <5> QED BY <1>1, <1>3, <2>1, <5>2, <5>3
      <4> QED BY <4>1
    <3>3. g.buckets[y % NumBuckets][m] = h.blocks[at].id
      <4>1. g.buckets[y % NumBuckets] = << h.blocks[at].id >>
        BY <1>4, <2>1
      <4>2. m = 1
        BY <4>1
      <4> QED BY <4>1, <4>2
    <3>4. h.blocks[at].id # b
      BY DEF Linked
    <3> QED BY <1>1, <1>2, <2>1, <3>1, <3>2, <3>3, <3>4
  <2>2. CASE y # x
    <3>1. m \in DOMAIN h.buckets[y % NumBuckets] /\ g.buckets[y % NumBuckets] = h.buckets[y % NumBuckets]
      BY <1>4, <1>8, <2>2
    <3>2. PICK n \in DOMAIN h.blocks : h.blocks[n].ptr = y
      BY <1>0, <3>1 DEF TableOK
    <3>3. \E j \in DOMAIN g.blocks : g.blocks[j].ptr = y
      <4>1. CASE n <= at
        <5>1. n \in 1 .. at /\ n \in DOMAIN g.blocks
          BY <1>1, <4>1
        <5> QED BY <1>1, <3>2, <5>1
      <4>2. CASE n > at
        <5>1. n \in at + 1 .. L /\ n + 1 \in DOMAIN g.blocks
          BY <1>1, <4>2
        <5> QED BY <1>1, <3>2, <5>1
      <4> QED BY <1>1, <4>1, <4>2
    <3>4. ASSUME NEW j \in DOMAIN g.blocks, g.blocks[j].ptr = y
          PROVE  g.blocks[j].id # g.buckets[y % NumBuckets][m]
      <4>1. j # at + 1
        BY <1>1, <1>2, <2>2, <3>4
      <4>2. PICK i \in 1 .. L : g.blocks[j] = h.blocks[i]
        BY <1>1, <4>1
      <4>3. h.blocks[i].ptr = y /\ i \in DOMAIN h.blocks
        BY <1>1, <3>4, <4>2
      <4> QED BY <1>0, <3>1, <4>2, <4>3 DEF TableOK
    <3> QED BY <3>3, <3>4
  <2> QED BY <2>1, <2>2
<1> QED BY <1>5, <1>6, <1>7, <1>8 DEF TableOK

(* A placed block is there, and all the others still are.                  *)
LEMMA InsertedHolds ==
  ASSUME NEW h \in HeapRec, GoodList(h), NEW at \in DOMAIN h.blocks, NEW b \in Ids, NEW bytes \in Nat,
         NEW g, Inserted(h, g, at, b, bytes)
  PROVE  /\ Holds(g.blocks, BLOCK_END(h.blocks[at]), bytes)
         /\ \A x, y : Holds(h.blocks, x, y) => Holds(g.blocks, x, y)
<1> DEFINE L == Len(h.blocks)
<1>1. /\ L \in Nat /\ at \in 1 .. L /\ DOMAIN h.blocks = 1 .. L /\ DOMAIN g.blocks = 1 .. L + 1
      /\ Len(g.blocks) = L + 1
      /\ g.blocks[at + 1].id = b /\ g.blocks[at + 1].size = bytes
      /\ g.blocks[at + 1].ptr = BLOCK_END(h.blocks[at])
      /\ \A n \in 1 .. at : g.blocks[n] = h.blocks[n]
      /\ \A n \in at + 1 .. L : g.blocks[n + 1] = h.blocks[n]
      /\ \A n \in 1 .. L + 1 :
           n = at + 1 \/ \E m \in 1 .. L : g.blocks[n] = h.blocks[m] /\ (m = 1 <=> n = 1)
  BY InsertedList
<1> HIDE DEF L
<1>2. Holds(g.blocks, BLOCK_END(h.blocks[at]), bytes)
  <2>1. at + 1 \in DOMAIN g.blocks /\ at + 1 # 1
    BY <1>1
  <2> QED BY <1>1, <2>1 DEF Holds
<1>3. ASSUME NEW x, NEW y, Holds(h.blocks, x, y) PROVE Holds(g.blocks, x, y)
  <2>1. PICK n \in 1 .. L : n # 1 /\ h.blocks[n].ptr = x /\ h.blocks[n].size = y
    BY <1>1, <1>3 DEF Holds
  <2>2. CASE n <= at
    <3>1. n \in 1 .. at /\ n \in DOMAIN g.blocks
      BY <1>1, <2>2
    <3> QED BY <1>1, <2>1, <3>1 DEF Holds
  <2>3. CASE n > at
    <3>1. n \in at + 1 .. L /\ n + 1 \in DOMAIN g.blocks /\ n + 1 # 1
      BY <1>1, <2>3
    <3>2. g.blocks[n + 1].ptr = x /\ g.blocks[n + 1].size = y
      BY <1>1, <2>1, <3>1
    <3> QED BY <3>1, <3>2 DEF Holds
  <2> QED BY <1>1, <2>2, <2>3
<1> QED BY <1>2, <1>3

(* What a heap_free that finds its block leaves: only the block behind the *)
(* dummy, at offset 0, can be found.                                       *)
Unlinked(h, g) ==
  /\ Len(h.blocks) > 1 /\ h.blocks[2].ptr = 0
  /\ g.blocks = RemoveAt(h.blocks, 2)
  /\ g.head = IF Len(h.blocks) = 2 THEN h.blocks[1].id ELSE h.blocks[3].id
  /\ g.buckets = [h.buckets EXCEPT ![0] = << >>]
  /\ g.fault = h.fault

(* What a heap_free leaves that finds a node whose struct has been freed:  *)
(* it crashes, the node is gone.                                           *)
Failed(h, g, x) ==
  /\ g.fault = "wild" /\ SameList(g, h)
  /\ \E n \in DOMAIN h.buckets[x % NumBuckets] :
       g.buckets = [h.buckets EXCEPT ![x % NumBuckets] = RemoveAt(@, n)]

(* heap_free either finds nothing and changes nothing, or crashes on a     *)
(* freed struct, or takes out the block at offset 0.                       *)
LEMMA FreeCases ==
  ASSUME NEW h \in HeapRec, GoodList(h), NEW offsets, NEW keys, Spread(offsets, keys), TableOK(h, offsets),
         NEW x \in offsets, NEW r \in heap_free(h, x)
  PROVE  \/ r = h /\ (x = 0 => ~(Len(h.blocks) > 1 /\ h.blocks[2].ptr = 0))
         \/ x # 0 /\ Failed(h, r, x)
         \/ x = 0 /\ Unlinked(h, r)
<1> DEFINE k == x % NumBuckets
           nodes == h.buckets[k]
           test  == [n \in DOMAIN nodes |-> PtrIs(h.blocks, nodes[n], x)]
           Reached(n) == \A m \in 1 .. n - 1 : "no" \in test[m]
           v(n)  == h.buckets[k][n]
           g(n)  == [h EXCEPT !.buckets[k] = RemoveAt(@, n)]
           at(n) == Position(h.blocks, v(n))
           Removed(n) ==
             IF ~Linked(h.blocks, v(n))       THEN [g(n) EXCEPT !.fault = "wild"]
             ELSE IF at(n) = Len(h.blocks)    THEN [g(n) EXCEPT !.fault = "null"]
             ELSE [g(n) EXCEPT !.blocks = RemoveAt(@, at(n) + 1),
                               !.head = IF at(n) + 1 = Len(h.blocks)
                                        THEN h.blocks[1].id ELSE h.blocks[at(n) + 2].id]
<1>1. k \in Bucket
  BY SpreadFacts
<1>2. PICK n \in hashmap_remove(h, k, x) : r = IF n = 0 THEN h ELSE Removed(n)
  BY Zenon DEF heap_free
<1>3. \/ n \in DOMAIN nodes /\ "yes" \in test[n]
      \/ n = 0 /\ Reached(Len(nodes) + 1)
  <2>1. n \in {m \in DOMAIN nodes : Reached(m) /\ "yes" \in test[m]}
              \cup (IF Reached(Len(nodes) + 1) THEN {0} ELSE {})
    BY Zenon DEF hashmap_remove
  <2> HIDE DEF Reached, test, nodes
  <2> QED BY <2>1
<1>4. /\ h.buckets \in [Bucket -> Seq(Ids)] /\ nodes \in Seq(Ids) /\ DOMAIN nodes = 1 .. Len(nodes)
      /\ Len(nodes) \in Nat /\ h.blocks \in Seq(Block) /\ DOMAIN h.blocks = 1 .. Len(h.blocks)
      /\ Len(h.blocks) \in Nat /\ h.blocks # << >>
  BY <1>1, LenProperties DEF HeapRec, GoodList
<1>5. 1 \in DOMAIN h.blocks
  BY <1>4, EmptySeq
<1>6. \A m \in DOMAIN nodes : test[m] = PtrIs(h.blocks, v(m), x)
  OBVIOUS
<1> HIDE DEF test
<1>7. CASE x = 0
  <2>1. k = 0
    BY <1>7, SpreadFacts
  <2>2. nodes = IF Len(h.blocks) > 1 /\ h.blocks[2].ptr = 0 THEN << h.blocks[1].id >> ELSE << >>
    BY <2>1 DEF TableOK
  <2>3. CASE ~(Len(h.blocks) > 1 /\ h.blocks[2].ptr = 0)
    <3>1. nodes = << >>
      BY <2>2, <2>3
    <3>2. n = 0
      BY <1>3, <3>1
    <3> QED BY <1>2, <2>3, <3>2
  <2>4. CASE Len(h.blocks) > 1 /\ h.blocks[2].ptr = 0
    <3>1. nodes = << h.blocks[1].id >> /\ Len(nodes) = 1 /\ DOMAIN nodes = {1}
      BY <2>2, <2>4
    <3>2. v(1) = h.blocks[1].id
      BY <3>1
    <3>3. Linked(h.blocks, v(1))
      BY <1>5, <3>2 DEF Linked
    <3>4. at(1) = 1
      <4>1. at(1) \in DOMAIN h.blocks /\ h.blocks[at(1)].id = v(1)
        BY <3>3, PositionType
      <4> QED BY <1>5, <3>2, <4>1 DEF GoodList, DistinctIds
    <3>5. test[1] = {"yes"}
      <4>1. h.blocks[Position(h.blocks, v(1))].ptr = x
        BY <1>7, <3>4 DEF TableOK
      <4>2. PtrIs(h.blocks, v(1), x) = {"yes"}
        BY <3>3, <4>1 DEF PtrIs
      <4> QED BY <1>6, <3>1, <4>2
    <3>6. n = 1
      <4>1. ~Reached(Len(nodes) + 1)
        <5>1. 1 \in 1 .. (Len(nodes) + 1) - 1
          BY <3>1
        <5> QED BY <3>5, <5>1
      <4> QED BY <1>3, <3>1, <4>1
    <3>7. r = Removed(1)
      BY <1>2, <3>6
    <3> HIDE DEF at, v
    <3>8. r = [g(1) EXCEPT !.blocks = RemoveAt(@, 1 + 1),
                           !.head = IF 1 + 1 = Len(h.blocks)
                                    THEN h.blocks[1].id ELSE h.blocks[1 + 2].id]
      <4>1. at(1) # Len(h.blocks)
        BY <2>4, <3>4
      <4> QED BY <3>3, <3>4, <3>7, <4>1
    <3>9. RemoveAt(nodes, 1) = << >>
      <4>1. 1 \in 1 .. Len(nodes)
        BY <3>1
      <4>2. RemoveAt(nodes, 1) \in Seq(Ids) /\ Len(RemoveAt(nodes, 1)) = Len(nodes) - 1
        BY <1>4, <4>1, RemoveProperties
      <4>3. Len(RemoveAt(nodes, 1)) = 0
        BY <3>1, <4>2
      <4> QED BY <4>2, <4>3, EmptySeq
    <3>10. g(1) = [h EXCEPT !.buckets = [h.buckets EXCEPT ![0] = << >>]]
      BY <2>1, <3>9
    <3> HIDE DEF g
    <3>11. /\ r.blocks = RemoveAt(h.blocks, 2) /\ r.fault = h.fault
           /\ r.buckets = [h.buckets EXCEPT ![0] = << >>]
           /\ r.head = IF Len(h.blocks) = 2 THEN h.blocks[1].id ELSE h.blocks[3].id
      <4> DEFINE hd == IF Len(h.blocks) = 2 THEN h.blocks[1].id ELSE h.blocks[3].id
                 bk == [h.buckets EXCEPT ![0] = << >>]
                 bl == RemoveAt(h.blocks, 2)
      <4>1. /\ 1 + 1 = 2 /\ 1 + 2 = 3
            /\ hd = IF 1 + 1 = Len(h.blocks) THEN h.blocks[1].id ELSE h.blocks[1 + 2].id
        BY <1>4
      <4>2. g(1) = [h EXCEPT !.buckets = bk]
        BY <3>10
      <4>3. g(1).blocks = h.blocks
        BY <4>2 DEF HeapRec
      <4>4. bl = RemoveAt(g(1).blocks, 1 + 1)
        BY <4>1, <4>3
      <4> HIDE DEF hd, bk, bl
      <4>5. r = [g(1) EXCEPT !.blocks = bl, !.head = hd]
        BY <3>8, <4>1, <4>4
      <4>6. r.blocks = bl /\ r.head = hd /\ r.buckets = bk /\ r.fault = h.fault
        BY <4>2, <4>5 DEF HeapRec
      <4> QED BY <4>6 DEF hd, bk, bl
    <3> QED BY <1>7, <2>4, <3>11 DEF Unlinked
  <2> QED BY <2>3, <2>4
<1>8. CASE x # 0
  <2>1. CASE n = 0
    BY <1>2, <1>8, <2>1
  <2>2. CASE n # 0
    <3>1. n \in DOMAIN nodes /\ "yes" \in PtrIs(h.blocks, v(n), x)
      BY <1>3, <1>6, <2>2
    <3>2. ~Linked(h.blocks, v(n))
      <4>1. SUFFICES ASSUME Linked(h.blocks, v(n)) PROVE FALSE
        OBVIOUS
      <4>2. at(n) \in DOMAIN h.blocks /\ h.blocks[at(n)].id = v(n)
        BY <4>1, PositionType
      <4>3. h.blocks[at(n)].ptr = x
        BY <3>1, <4>1 DEF PtrIs
      <4> QED BY <1>8, <3>1, <4>2, <4>3 DEF TableOK
    <3>3. r = [g(n) EXCEPT !.fault = "wild"]
      BY <1>2, <2>2, <3>2
    <3>4. g(n) = [h EXCEPT !.buckets = [h.buckets EXCEPT ![k] = RemoveAt(@, n)]]
      OBVIOUS
    <3> HIDE DEF g
    <3>5. r.fault = "wild" /\ SameList(r, h) /\ r.buckets = [h.buckets EXCEPT ![k] = RemoveAt(@, n)]
      BY <3>3, <3>4 DEF HeapRec, SameList
    <3> QED BY <1>8, <3>1, <3>5 DEF Failed
  <2> QED BY <2>1, <2>2
<1> QED BY <1>7, <1>8

(* A crash in heap_free keeps TableOK.                                     *)
LEMMA FailedTable ==
  ASSUME NEW h \in HeapRec, NEW offsets, NEW keys, Spread(offsets, keys), TableOK(h, offsets),
         NEW x \in offsets, x # 0, NEW g, Failed(h, g, x)
  PROVE  TableOK(g, offsets)
<1> DEFINE k == x % NumBuckets
           nodes == h.buckets[k]
<1>1. k \in Bucket /\ k # 0 /\ 0 \in Bucket
  BY SpreadFacts
<1>2. h.buckets \in [Bucket -> Seq(Ids)] /\ nodes \in Seq(Ids) /\ DOMAIN nodes = 1 .. Len(nodes)
      /\ Len(nodes) \in Nat
  BY <1>1, LenProperties DEF HeapRec
<1>3. PICK n \in DOMAIN nodes : g.buckets = [h.buckets EXCEPT ![k] = RemoveAt(nodes, n)]
  BY DEF Failed
<1>4. g.blocks = h.blocks
  BY DEF Failed, SameList
<1>5. g.buckets[k] = RemoveAt(nodes, n) /\ \A m \in Bucket : m # k => g.buckets[m] = h.buckets[m]
  BY <1>1, <1>2, <1>3
<1>6. \A m \in DOMAIN RemoveAt(nodes, n) : \E j \in DOMAIN nodes : RemoveAt(nodes, n)[m] = nodes[j]
  <2> HIDE DEF nodes
  <2>1. /\ RemoveAt(nodes, n) \in Seq(Ids) /\ Len(RemoveAt(nodes, n)) = Len(nodes) - 1
        /\ \A m \in 1 .. Len(nodes) - 1 :
             RemoveAt(nodes, n)[m] = IF m < n THEN nodes[m] ELSE nodes[m + 1]
    BY <1>2, RemoveProperties
  <2>2. DOMAIN RemoveAt(nodes, n) = 1 .. Len(nodes) - 1
    BY <2>1, LenProperties
  <2>3. ASSUME NEW m \in 1 .. Len(nodes) - 1
        PROVE  \E j \in DOMAIN nodes : RemoveAt(nodes, n)[m] = nodes[j]
    <3>1. m \in DOMAIN nodes /\ m + 1 \in DOMAIN nodes
      BY <1>2
    <3> QED BY <2>1, <3>1
  <2> QED BY <2>2, <2>3, SMTT(60)
<1> HIDE DEF nodes, k
<1>7. ASSUME NEW y \in offsets \ {0}, NEW m \in DOMAIN g.buckets[y % NumBuckets]
      PROVE  /\ \E j \in DOMAIN g.blocks : g.blocks[j].ptr = y
             /\ \A j \in DOMAIN g.blocks :
                  g.blocks[j].ptr = y => g.blocks[j].id # g.buckets[y % NumBuckets][m]
  <2>1. PICK i \in DOMAIN h.buckets[y % NumBuckets] :
          g.buckets[y % NumBuckets][m] = h.buckets[y % NumBuckets][i]
    <3>1. CASE y % NumBuckets = k
      BY <1>5, <1>6, <1>7, <3>1 DEF nodes, k
    <3>2. CASE y % NumBuckets # k
      BY <1>5, <1>7, <3>2, SpreadFacts
    <3> QED BY <3>1, <3>2
  <2> QED BY <1>4, <2>1 DEF TableOK
<1>8. g.buckets[0] = h.buckets[0]
  BY <1>1, <1>5
<1> QED BY <1>4, <1>7, <1>8 DEF TableOK

(* The list after the block behind the dummy is taken out, element by      *)
(* element.                                                                *)
LEMMA UnlinkedList ==
  ASSUME NEW h \in HeapRec, NEW g, Unlinked(h, g)
  PROVE  LET L == Len(h.blocks)
         IN  /\ L \in Nat /\ L > 1 /\ DOMAIN h.blocks = 1 .. L /\ DOMAIN g.blocks = 1 .. L - 1
             /\ Len(g.blocks) = L - 1
             /\ g.blocks[1] = h.blocks[1]
             /\ \A n \in 2 .. L - 1 : g.blocks[n] = h.blocks[n + 1]
<1> DEFINE L == Len(h.blocks)
           s == h.blocks
<1>1. s \in Seq(Block) /\ L \in Nat /\ DOMAIN s = 1 .. L /\ L > 1 /\ 2 \in 1 .. L
  BY LenProperties DEF HeapRec, Unlinked
<1>2. g.blocks = RemoveAt(s, 2)
  BY DEF Unlinked
<1> HIDE DEF s
<1>3. /\ RemoveAt(s, 2) \in Seq(Block) /\ Len(RemoveAt(s, 2)) = Len(s) - 1
      /\ \A n \in 1 .. Len(s) - 1 : RemoveAt(s, 2)[n] = IF n < 2 THEN s[n] ELSE s[n + 1]
  <2>1. 2 \in 1 .. Len(s)
    BY <1>1 DEF s
  <2> QED BY <1>1, <2>1, RemoveProperties
<1>4. L = Len(s)
  BY DEF s
<1> HIDE DEF L
<1>5. DOMAIN g.blocks = 1 .. L - 1
  <2>1. DOMAIN RemoveAt(s, 2) = 1 .. Len(s) - 1
    BY <1>3, LenProperties
  <2> QED BY <1>2, <1>4, <2>1
<1>6. g.blocks[1] = s[1] /\ \A n \in 2 .. L - 1 : g.blocks[n] = s[n + 1]
  BY <1>1, <1>2, <1>3, <1>4
<1>7. Len(g.blocks) = L - 1
  BY <1>2, <1>3, <1>4
<1> QED BY <1>1, <1>5, <1>6, <1>7 DEF s, L

(* Taking out the block at offset 0 keeps TableOK.                         *)
LEMMA UnlinkedTable ==
  ASSUME NEW h \in HeapRec, GoodList(h), NEW offsets, NEW keys, Spread(offsets, keys), TableOK(h, offsets),
         NEW g, Unlinked(h, g)
  PROVE  TableOK(g, offsets)
<1> DEFINE L == Len(h.blocks)
<1>1. /\ L \in Nat /\ L > 1 /\ DOMAIN h.blocks = 1 .. L /\ DOMAIN g.blocks = 1 .. L - 1
      /\ Len(g.blocks) = L - 1
      /\ g.blocks[1] = h.blocks[1]
      /\ \A n \in 2 .. L - 1 : g.blocks[n] = h.blocks[n + 1]
  BY UnlinkedList
<1> HIDE DEF L
<1>2. \A n \in DOMAIN g.blocks : \E m \in DOMAIN h.blocks : g.blocks[n] = h.blocks[m] /\ (n # 1 => m # 1)
  <2>1. ASSUME NEW n \in DOMAIN g.blocks, n # 1
        PROVE  \E m \in DOMAIN h.blocks : g.blocks[n] = h.blocks[m] /\ m # 1
    <3>1. n \in 2 .. L - 1 /\ n + 1 \in DOMAIN h.blocks /\ n + 1 # 1
      BY <1>1, <2>1
    <3> QED BY <1>1, <3>1
  <2>2. 1 \in DOMAIN h.blocks
    BY <1>1
  <2> QED BY <1>1, <2>1, <2>2
<1>3. /\ g.buckets = [h.buckets EXCEPT ![0] = << >>] /\ h.blocks[2].ptr = 0
      /\ h.buckets \in [Bucket -> Seq(Ids)] /\ 0 \in Bucket
  BY SpreadFacts DEF Unlinked, HeapRec
<1>4. g.buckets[0] = << >> /\ \A y \in offsets \ {0} : g.buckets[y % NumBuckets] = h.buckets[y % NumBuckets]
  BY <1>3, SpreadFacts
<1>5. ~(Len(g.blocks) > 1 /\ g.blocks[2].ptr = 0)
  <2>1. SUFFICES ASSUME Len(g.blocks) > 1 PROVE g.blocks[2].ptr # 0
    OBVIOUS
  <2>2. 2 \in 2 .. L - 1 /\ 2 \in DOMAIN h.blocks /\ 3 \in DOMAIN h.blocks /\ 2 + 1 = 3
    BY <1>1, <2>1
  <2>3. g.blocks[2] = h.blocks[3]
    BY <1>1, <2>2
  <2>4. /\ h.blocks[2].ptr < BLOCK_END(h.blocks[2]) /\ BLOCK_END(h.blocks[2]) <= h.blocks[3].ptr
        /\ BLOCK_END(h.blocks[2]) \in Nat /\ h.blocks[3].ptr \in Nat
    BY <2>2, ListArith
  <2>5. PICK y \in Nat, z \in Nat : y = BLOCK_END(h.blocks[2]) /\ z = h.blocks[3].ptr
    BY <2>4
  <2>6. 0 < y /\ y <= z
    BY <1>3, <2>4, <2>5
  <2>7. z # 0
    BY <2>6
  <2> QED BY <2>3, <2>5, <2>7
<1>6. ASSUME NEW y \in offsets \ {0}, NEW m \in DOMAIN g.buckets[y % NumBuckets]
      PROVE  /\ \E j \in DOMAIN g.blocks : g.blocks[j].ptr = y
             /\ \A j \in DOMAIN g.blocks :
                  g.blocks[j].ptr = y => g.blocks[j].id # g.buckets[y % NumBuckets][m]
  <2>1. g.buckets[y % NumBuckets] = h.buckets[y % NumBuckets]
    BY <1>4
  <2>2. PICK n \in DOMAIN h.blocks : h.blocks[n].ptr = y
    BY <1>6, <2>1 DEF TableOK
  <2>3. n # 1 /\ n # 2
    BY <1>3, <2>2 DEF TableOK
  <2>4. n - 1 \in 2 .. L - 1 /\ n - 1 \in DOMAIN g.blocks /\ (n - 1) + 1 = n
    BY <1>1, <2>3
  <2>5. g.blocks[n - 1] = h.blocks[n]
    BY <1>1, <2>4
  <2>6. \A j \in DOMAIN g.blocks :
          g.blocks[j].ptr = y => g.blocks[j].id # g.buckets[y % NumBuckets][m]
    BY <1>2, <1>6, <2>1 DEF TableOK
  <2> QED BY <2>2, <2>4, <2>5, <2>6
<1>7. \A n \in DOMAIN g.blocks :
        g.blocks[n].ptr \in offsets /\ (n # 1 => g.blocks[n].size # 0)
  BY <1>2 DEF TableOK
<1> QED BY <1>1, <1>4, <1>5, <1>6, <1>7 DEF TableOK

(* Every block at another offset is still there.                           *)
LEMMA UnlinkedHolds ==
  ASSUME NEW h \in HeapRec, NEW g, Unlinked(h, g), NEW x, NEW y, Holds(h.blocks, x, y), x # 0
  PROVE  Holds(g.blocks, x, y)
<1> DEFINE L == Len(h.blocks)
<1>1. /\ L \in Nat /\ L > 1 /\ DOMAIN h.blocks = 1 .. L /\ DOMAIN g.blocks = 1 .. L - 1
      /\ Len(g.blocks) = L - 1
      /\ g.blocks[1] = h.blocks[1]
      /\ \A n \in 2 .. L - 1 : g.blocks[n] = h.blocks[n + 1]
  BY UnlinkedList
<1> HIDE DEF L
<1>2. PICK n \in DOMAIN h.blocks : n # 1 /\ h.blocks[n].ptr = x /\ h.blocks[n].size = y
  BY DEF Holds
<1>3. n # 2
  BY <1>2 DEF Unlinked
<1>4. n - 1 \in 2 .. L - 1 /\ n - 1 \in DOMAIN g.blocks /\ (n - 1) + 1 = n /\ n - 1 # 1
  BY <1>1, <1>2, <1>3, SMTT(60)
<1>5. g.blocks[n - 1] = h.blocks[n]
  BY <1>1, <1>4
<1> QED BY <1>2, <1>4, <1>5 DEF Holds

(* In a good list the position of the head is where its struct is.         *)
LEMMA PositionIs ==
  ASSUME NEW h, GoodList(h), NEW n \in DOMAIN h.blocks, h.head = h.blocks[n].id
  PROVE  Position(h.blocks, h.head) = n
<1>1. Linked(h.blocks, h.head)
  BY DEF Linked
<1>2. Position(h.blocks, h.head) \in DOMAIN h.blocks /\ h.blocks[Position(h.blocks, h.head)].id = h.head
  BY <1>1, PositionType
<1> QED BY <1>2 DEF GoodList, DistinctIds

(* Heaps of one shape give the same answer to a search for room.           *)
LEMMA ShapeFit ==
  ASSUME NEW g \in HeapRec, GoodList(g), NEW h \in HeapRec, GoodList(h), SameShape(g, h), NEW bytes \in Nat
  PROVE  /\ DOMAIN g.blocks = DOMAIN h.blocks
         /\ Room(g, bytes) <=> Room(h, bytes)
         /\ FirstFit(g, bytes) = FirstFit(h, bytes)
         /\ \A n \in DOMAIN h.blocks : BLOCK_END(g.blocks[n]) = BLOCK_END(h.blocks[n])
<1>1. /\ Len(g.blocks) = Len(h.blocks) /\ Len(h.blocks) \in Nat
      /\ DOMAIN g.blocks = 1 .. Len(h.blocks) /\ DOMAIN h.blocks = 1 .. Len(h.blocks)
      /\ h.blocks \in Seq(Block) /\ h.blocks # << >>
  BY LenProperties DEF HeapRec, SameShape, GoodList
<1>2. \A n \in DOMAIN h.blocks : /\ BLOCK_END(g.blocks[n]) = BLOCK_END(h.blocks[n])
                                 /\ g.blocks[n].ptr = h.blocks[n].ptr
  BY <1>1 DEF SameShape, BLOCK_END
<1>3. \A n \in DOMAIN h.blocks : BLOCK_GAP(g.blocks, n) = BLOCK_GAP(h.blocks, n)
  <2>1. ASSUME NEW n \in DOMAIN h.blocks PROVE BLOCK_GAP(g.blocks, n) = BLOCK_GAP(h.blocks, n)
    <3>1. n # Len(h.blocks) => n + 1 \in DOMAIN h.blocks
      BY <1>1
    <3> QED BY <1>1, <1>2, <3>1 DEF BLOCK_GAP
  <2> QED BY <2>1
<1>4. PICK p \in DOMAIN h.blocks : p = Position(h.blocks, h.head) /\ p = Position(g.blocks, g.head)
  BY PositionType DEF SameShape, GoodList
<1>5. \A k : NEXT_BLOCK(g.blocks, p, k) = NEXT_BLOCK(h.blocks, p, k)
  BY <1>1 DEF NEXT_BLOCK
<1>6. \A k \in 0 .. Len(h.blocks) - 1 :
        BLOCK_GAP(g.blocks, NEXT_BLOCK(g.blocks, p, k)) = BLOCK_GAP(h.blocks, NEXT_BLOCK(h.blocks, p, k))
  <2>1. ASSUME NEW k \in 0 .. Len(h.blocks) - 1
        PROVE  BLOCK_GAP(g.blocks, NEXT_BLOCK(g.blocks, p, k)) = BLOCK_GAP(h.blocks, NEXT_BLOCK(h.blocks, p, k))
    <3>1. k \in Nat
      OBVIOUS
    <3>2. NEXT_BLOCK(h.blocks, p, k) \in DOMAIN h.blocks
      BY <1>1, <3>1, NextBlockType
    <3>3. BLOCK_GAP(g.blocks, NEXT_BLOCK(h.blocks, p, k)) = BLOCK_GAP(h.blocks, NEXT_BLOCK(h.blocks, p, k))
      BY <1>3, <3>2
    <3>4. NEXT_BLOCK(g.blocks, p, k) = NEXT_BLOCK(h.blocks, p, k)
      BY <1>5
    <3> QED BY <3>3, <3>4
  <2> QED BY <2>1
<1>7. Fits(g.blocks, p, bytes) = Fits(h.blocks, p, bytes)
  <2>1. Len(g.blocks) = Len(h.blocks)
    BY <1>1
  <2> QED BY <1>6, <2>1 DEF Fits
<1>8. Room(g, bytes) <=> Room(h, bytes)
  BY <1>4, <1>7 DEF Room
<1>9. FirstFit(g, bytes) = FirstFit(h, bytes)
  <2> DEFINE k == CHOOSE k \in Fits(h.blocks, p, bytes) : \A m \in Fits(h.blocks, p, bytes) : k <= m
  <2>1. FirstFit(h, bytes) = NEXT_BLOCK(h.blocks, p, k)
    BY <1>4 DEF FirstFit
  <2>2. FirstFit(g, bytes) = NEXT_BLOCK(g.blocks, p, k)
    BY <1>4, <1>7 DEF FirstFit
  <2> HIDE DEF k
  <2> QED BY <1>5, <2>1, <2>2
<1> QED BY <1>1, <1>2, <1>8, <1>9

(* What the list g has more than h: a block b behind place at.             *)
Grown(h, g, at, b, bytes) ==
  LET L == Len(h.blocks)
  IN  /\ L \in Nat /\ at \in 1 .. L /\ DOMAIN h.blocks = 1 .. L /\ DOMAIN g.blocks = 1 .. L + 1
      /\ Len(g.blocks) = L + 1
      /\ g.blocks[at + 1].id = b /\ g.blocks[at + 1].size = bytes
      /\ g.blocks[at + 1].ptr = BLOCK_END(h.blocks[at])
      /\ \A n \in 1 .. at : g.blocks[n] = h.blocks[n]
      /\ \A n \in at + 1 .. L : g.blocks[n + 1] = h.blocks[n]

(* InsertedList, as one statement.                                           *)
LEMMA InsertedGrown ==
  ASSUME NEW h \in HeapRec, GoodList(h), NEW at \in DOMAIN h.blocks, NEW b \in Ids, NEW bytes \in Nat,
         NEW g, Inserted(h, g, at, b, bytes)
  PROVE  Grown(h, g, at, b, bytes)
BY InsertedList DEF Grown

(* Placing a block in heaps of one shape leaves heaps of one shape,        *)
(* whatever structs malloc returned.                                       *)
LEMMA InsertedShape ==
  ASSUME NEW g \in HeapRec, GoodList(g), NEW h \in HeapRec, GoodList(h), SameShape(g, h),
         NEW at \in DOMAIN h.blocks, NEW bytes \in Nat, NEW b \in Ids, NEW c \in Ids,
         NEW f, Inserted(g, f, at, b, bytes), GoodList(f),
         NEW e, Inserted(h, e, at, c, bytes), GoodList(e)
  PROVE  SameShape(f, e)
<1> DEFINE L == Len(h.blocks)
<1>1. /\ L \in Nat /\ at \in 1 .. L /\ DOMAIN h.blocks = 1 .. L /\ DOMAIN e.blocks = 1 .. L + 1
      /\ Len(e.blocks) = L + 1
      /\ e.blocks[at + 1].id = c /\ e.blocks[at + 1].size = bytes
      /\ e.blocks[at + 1].ptr = BLOCK_END(h.blocks[at])
      /\ \A n \in 1 .. at : e.blocks[n] = h.blocks[n]
      /\ \A n \in at + 1 .. L : e.blocks[n + 1] = h.blocks[n]
  <2>1. Grown(h, e, at, c, bytes)
    BY InsertedGrown, Zenon
  <2> QED BY <2>1 DEF Grown
<1>2. DOMAIN g.blocks = DOMAIN h.blocks /\ Len(g.blocks) = L
      /\ \A n \in DOMAIN h.blocks : BLOCK_END(g.blocks[n]) = BLOCK_END(h.blocks[n])
  BY ShapeFit DEF SameShape
<1>3. /\ DOMAIN f.blocks = 1 .. L + 1 /\ Len(f.blocks) = L + 1
      /\ f.blocks[at + 1].id = b /\ f.blocks[at + 1].size = bytes
      /\ f.blocks[at + 1].ptr = BLOCK_END(g.blocks[at])
      /\ \A n \in 1 .. at : f.blocks[n] = g.blocks[n]
      /\ \A n \in at + 1 .. L : f.blocks[n + 1] = g.blocks[n]
  <2>1. at \in DOMAIN g.blocks
    BY <1>2
  <2> DEFINE M == Len(g.blocks)
  <2>2. /\ DOMAIN f.blocks = 1 .. M + 1 /\ Len(f.blocks) = M + 1
        /\ f.blocks[at + 1].id = b /\ f.blocks[at + 1].size = bytes
        /\ f.blocks[at + 1].ptr = BLOCK_END(g.blocks[at])
        /\ \A n \in 1 .. at : f.blocks[n] = g.blocks[n]
        /\ \A n \in at + 1 .. M : f.blocks[n + 1] = g.blocks[n]
    <3>1. Grown(g, f, at, b, bytes)
      BY <2>1, InsertedGrown, Zenon
    <3> QED BY <3>1 DEF Grown
  <2> HIDE DEF M, L
  <2>3. M = L
    BY <1>2 DEF M
  <2> QED BY <2>2, <2>3
<1>4. \A n \in 1 .. L : g.blocks[n].ptr = h.blocks[n].ptr /\ g.blocks[n].size = h.blocks[n].size
  BY <1>1, <1>2 DEF SameShape
<1> HIDE DEF L
<1>5. ASSUME NEW n \in 1 .. L + 1
      PROVE  f.blocks[n].ptr = e.blocks[n].ptr /\ f.blocks[n].size = e.blocks[n].size
  <2>1. CASE n = at + 1
    BY <1>1, <1>2, <1>3, <2>1
  <2>2. CASE n < at + 1
    <3>1. n \in 1 .. at /\ n \in 1 .. L
      BY <1>1, <2>2
    <3> QED BY <1>1, <1>3, <1>4, <3>1
  <2>3. CASE n > at + 1
    <3>1. n - 1 \in at + 1 .. L /\ n - 1 \in 1 .. L /\ (n - 1) + 1 = n
      BY <1>1, <2>3
    <3>2. e.blocks[n] = h.blocks[n - 1] /\ f.blocks[n] = g.blocks[n - 1]
      <4>1. e.blocks[(n - 1) + 1] = h.blocks[n - 1] /\ f.blocks[(n - 1) + 1] = g.blocks[n - 1]
        BY <1>1, <1>3, <3>1
      <4> QED BY <3>1, <4>1
    <3> QED BY <1>4, <3>1, <3>2
  <2> QED BY <1>1, <2>1, <2>2, <2>3
<1>6. Position(f.blocks, f.head) = at + 1 /\ Position(e.blocks, e.head) = at + 1
  <2>1. at + 1 \in 1 .. L + 1
    BY <1>1
  <2>2. f.head = b /\ e.head = c
    BY DEF Inserted
  <2> QED BY <1>1, <1>3, <2>1, <2>2, PositionIs
<1> QED BY <1>1, <1>3, <1>5, <1>6 DEF SameShape

(* Taking out the block at offset 0 of heaps of one shape leaves heaps of  *)
(* one shape.                                                              *)
LEMMA UnlinkedShape ==
  ASSUME NEW g \in HeapRec, NEW h \in HeapRec, SameShape(g, h),
         NEW f, Unlinked(g, f), GoodList(f),
         NEW e, Unlinked(h, e), GoodList(e)
  PROVE  SameShape(f, e)
<1> DEFINE L == Len(h.blocks)
<1>1. /\ L \in Nat /\ L > 1 /\ DOMAIN h.blocks = 1 .. L /\ DOMAIN e.blocks = 1 .. L - 1
      /\ Len(e.blocks) = L - 1
      /\ e.blocks[1] = h.blocks[1]
      /\ \A n \in 2 .. L - 1 : e.blocks[n] = h.blocks[n + 1]
  BY UnlinkedList
<1>2. Len(g.blocks) = L
  BY DEF SameShape
<1>3. /\ DOMAIN g.blocks = 1 .. L /\ DOMAIN f.blocks = 1 .. L - 1
      /\ Len(f.blocks) = L - 1
      /\ f.blocks[1] = g.blocks[1]
      /\ \A n \in 2 .. L - 1 : f.blocks[n] = g.blocks[n + 1]
  BY <1>2, UnlinkedList
<1>4. \A n \in 1 .. L : g.blocks[n].ptr = h.blocks[n].ptr /\ g.blocks[n].size = h.blocks[n].size
  BY <1>3 DEF SameShape
<1>5. /\ f.head = IF L = 2 THEN g.blocks[1].id ELSE g.blocks[3].id
      /\ e.head = IF L = 2 THEN h.blocks[1].id ELSE h.blocks[3].id
  BY <1>2 DEF Unlinked
<1> HIDE DEF L
<1>6. ASSUME NEW n \in 1 .. L - 1
      PROVE  f.blocks[n].ptr = e.blocks[n].ptr /\ f.blocks[n].size = e.blocks[n].size
  <2>1. CASE n = 1
    BY <1>1, <1>3, <1>4, <2>1
  <2>2. CASE n # 1
    <3>1. n \in 2 .. L - 1 /\ n + 1 \in 1 .. L
      BY <1>1, <2>2
    <3> QED BY <1>1, <1>3, <1>4, <3>1
  <2> QED BY <2>1, <2>2
<1>7. Position(f.blocks, f.head) = Position(e.blocks, e.head)
  <2>1. CASE L = 2
    <3>1. f.head = f.blocks[1].id /\ e.head = e.blocks[1].id /\ 1 \in 1 .. L - 1
      BY <1>1, <1>3, <1>5, <2>1
    <3> QED BY <1>1, <1>3, <3>1, PositionIs
  <2>2. CASE L # 2
    <3>1. 2 \in 2 .. L - 1 /\ 2 \in 1 .. L - 1 /\ 2 + 1 = 3
      BY <1>1, <2>2
    <3>2. f.head = f.blocks[2].id /\ e.head = e.blocks[2].id
      BY <1>1, <1>3, <1>5, <2>2, <3>1
    <3> QED BY <1>1, <1>3, <3>1, <3>2, PositionIs
  <2> QED BY <2>1, <2>2
<1> QED BY <1>1, <1>3, <1>6, <1>7 DEF SameShape

(* What Apart says of a heap, in the form the lemmas above have it.        *)
LEMMA ApartSpread ==
  ASSUME NEW h \in HeapRec, GoodList(h), NEW hs, Apart(h, hs), h.blocks[1].ptr = 0
  PROVE  Spread(Offsets(h), StructKeys(h, hs))
<1>1. h.blocks \in Seq(Block) /\ 1 \in DOMAIN h.blocks
  BY LenProperties, EmptySeq DEF HeapRec, GoodList
<1>2. \A n \in DOMAIN h.blocks : h.blocks[n].ptr \in 0 .. HeapSize
  BY BlockFacts, ElementOfSeq, <1>1 DEF Block
<1>3. Offsets(h) \subseteq 0 .. HeapSize /\ 0 \in Offsets(h)
  BY <1>1, <1>2 DEF Offsets
<1> QED BY <1>3 DEF Apart, Spread

(* A larger set of keys that are spread out changes nothing: the buckets   *)
(* of those that are not in use are empty.                                 *)
LEMMA Widen ==
  ASSUME NEW h \in HeapRec, NEW hs, TableInv(h, hs), NEW offsets, NEW keys, Spread(offsets, keys),
         Offsets(h) \subseteq offsets, StructKeys(h, hs) \subseteq keys
  PROVE  TableOK(h, offsets)
<1>1. TableOK(h, Offsets(h))
  BY DEF TableInv
<1>2. ASSUME NEW x \in offsets \ {0}, NEW m \in DOMAIN h.buckets[x % NumBuckets]
      PROVE  x \in Offsets(h) \ {0}
  <2>1. x % NumBuckets \in Bucket
    BY SpreadFacts
  <2>2. h.buckets[x % NumBuckets] # << >>
    <3>1. DOMAIN << >> = {}
      OBVIOUS
    <3> QED BY <1>2, <3>1
  <2>3. x % NumBuckets \notin StructKeys(h, hs)
    BY DEF Spread
  <2>4. PICK y \in Offsets(h) : y % NumBuckets = x % NumBuckets
    BY <2>1, <2>2, <2>3 DEF TableInv
  <2> QED BY <2>4 DEF Spread
<1>3. \A n \in DOMAIN h.blocks : h.blocks[n].ptr \in offsets
  BY DEF Offsets
<1> QED BY <1>1, <1>2, <1>3 DEF TableOK

(* The table speaks of the offsets in use only.                            *)
LEMMA Narrow ==
  ASSUME NEW g, NEW offsets, TableOK(g, offsets)
  PROVE  TableOK(g, Offsets(g))
<1>1. Offsets(g) \subseteq offsets /\ \A n \in DOMAIN g.blocks : g.blocks[n].ptr \in Offsets(g)
  BY DEF TableOK, Offsets
<1> QED BY <1>1 DEF TableOK

(* A list with a block more has its keys and those it had.                 *)
LEMMA InsertedKeys ==
  ASSUME NEW h \in HeapRec, GoodList(h), NEW at \in DOMAIN h.blocks, NEW b \in Ids, NEW bytes \in Nat,
         NEW g, Inserted(h, g, at, b, bytes), NEW hs
  PROVE  /\ Offsets(h) \subseteq Offsets(g) /\ BLOCK_END(h.blocks[at]) \in Offsets(g)
         /\ StructKeys(h, hs) \subseteq StructKeys(g, hs)
<1> DEFINE L == Len(h.blocks)
<1>1. /\ L \in Nat /\ at \in 1 .. L /\ DOMAIN h.blocks = 1 .. L /\ DOMAIN g.blocks = 1 .. L + 1
      /\ g.blocks[at + 1].size = bytes /\ g.blocks[at + 1].ptr = BLOCK_END(h.blocks[at])
      /\ \A n \in 1 .. at : g.blocks[n] = h.blocks[n]
      /\ \A n \in at + 1 .. L : g.blocks[n + 1] = h.blocks[n]
  BY InsertedList
<1> HIDE DEF L
<1>2. ASSUME NEW n \in DOMAIN h.blocks PROVE \E m \in DOMAIN g.blocks : g.blocks[m] = h.blocks[n]
  <2>1. CASE n <= at
    <3>1. n \in 1 .. at /\ n \in DOMAIN g.blocks
      BY <1>1, <2>1
    <3> QED BY <1>1, <3>1
  <2>2. CASE n > at
    <3>1. n \in at + 1 .. L /\ n + 1 \in DOMAIN g.blocks
      BY <1>1, <2>2
    <3> QED BY <1>1, <3>1
  <2> QED BY <1>1, <2>1, <2>2
<1>3. at + 1 \in DOMAIN g.blocks
  BY <1>1
<1>4. Offsets(h) \subseteq Offsets(g)
  BY <1>2 DEF Offsets
<1>5. BLOCK_END(h.blocks[at]) \in Offsets(g)
  BY <1>1, <1>3 DEF Offsets
<1>6. StructKeys(h, hs) \subseteq StructKeys(g, hs)
  BY <1>2 DEF StructKeys
<1> QED BY <1>4, <1>5, <1>6

(* If the keys are apart with the new block in the list, its place was     *)
(* fit for it.                                                             *)
LEMMA InsertedFresh ==
  ASSUME NEW h \in HeapRec, GoodList(h), NEW hs, TableInv(h, hs),
         NEW at \in DOMAIN h.blocks, NEW b \in Ids, NEW bytes \in Nat,
         NEW g \in HeapRec, GoodList(g), Apart(g, hs), Inserted(h, g, at, b, bytes)
  PROVE  Fresh(h, hs, at, bytes, Offsets(g), StructKeys(g, hs))
<1>1. /\ Offsets(h) \subseteq Offsets(g) /\ BLOCK_END(h.blocks[at]) \in Offsets(g)
      /\ StructKeys(h, hs) \subseteq StructKeys(g, hs)
  BY InsertedKeys
<1>2. g.blocks[1] = h.blocks[1] /\ bytes # 0
  <2> DEFINE L == Len(h.blocks)
  <2>1. /\ L \in Nat /\ at \in 1 .. L /\ DOMAIN g.blocks = 1 .. L + 1 /\ g.blocks[at + 1].size = bytes
        /\ \A n \in 1 .. at : g.blocks[n] = h.blocks[n]
    BY InsertedList
  <2> HIDE DEF L
  <2>2. at + 1 \in DOMAIN g.blocks /\ at + 1 # 1 /\ 1 \in 1 .. at
    BY <2>1
  <2>3. g.blocks[at + 1].size # 0
    BY <2>2 DEF Apart
  <2> QED BY <2>1, <2>2, <2>3
<1>3. g.blocks[1].ptr = 0
  BY <1>2 DEF TableInv, TableOK
<1>4. Spread(Offsets(g), StructKeys(g, hs))
  BY <1>3, ApartSpread
<1>5. TableOK(h, Offsets(g))
  BY <1>1, <1>4, Widen
<1>6. \A n \in DOMAIN h.blocks : h.blocks[n].ptr # 0 => hs[h.blocks[n].id] \in StructKeys(g, hs)
  BY <1>1 DEF StructKeys
<1> QED BY <1>1, <1>2, <1>4, <1>5, <1>6 DEF Fresh

(* Placing a block keeps TableInv.                                         *)
LEMMA PlacedInv ==
  ASSUME NEW h \in HeapRec, GoodList(h), NEW hs, TableInv(h, hs),
         NEW at \in DOMAIN h.blocks, NEW b \in Ids, NEW bytes \in Nat, BLOCK_GAP(h.blocks, at) >= bytes,
         ~Linked(h.blocks, b), NEW g \in HeapRec, GoodList(g), Apart(g, hs),
         Placed(h, g, at, b, bytes, StructKeys(g, hs))
  PROVE  TableInv(g, hs)
<1>1. Inserted(h, g, at, b, bytes)
  BY DEF Placed
<1>2. Fresh(h, hs, at, bytes, Offsets(g), StructKeys(g, hs))
  BY <1>1, InsertedFresh
<1>3. TableOK(g, Offsets(g))
  BY <1>2, PlacedTable
<1>4. /\ Offsets(h) \subseteq Offsets(g) /\ BLOCK_END(h.blocks[at]) \in Offsets(g)
      /\ StructKeys(h, hs) \subseteq StructKeys(g, hs)
  BY <1>1, InsertedKeys
<1>5. ASSUME NEW k \in Bucket, g.buckets[k] # << >>, k \notin StructKeys(g, hs),
             k # BLOCK_END(h.blocks[at]) % NumBuckets
      PROVE  \E x \in Offsets(g) : x % NumBuckets = k
  <2>1. h.buckets[k] # << >>
    BY <1>5 DEF Placed
  <2>2. k \notin StructKeys(h, hs)
    BY <1>4, <1>5
  <2> QED BY <1>4, <2>1, <2>2 DEF TableInv
<1> QED BY <1>3, <1>4, <1>5 DEF TableInv

(* A crash in heap_free keeps TableInv.                                    *)
LEMMA FailedInv ==
  ASSUME NEW h \in HeapRec, GoodList(h), NEW hs, Apart(h, hs), TableInv(h, hs),
         NEW x \in Offsets(h), x # 0, NEW g, Failed(h, g, x)
  PROVE  TableInv(g, hs)
<1>1. Spread(Offsets(h), StructKeys(h, hs)) /\ TableOK(h, Offsets(h))
  BY ApartSpread DEF TableInv, TableOK
<1>2. TableOK(g, Offsets(h))
  BY <1>1, FailedTable
<1>3. Offsets(g) = Offsets(h) /\ StructKeys(g, hs) = StructKeys(h, hs)
  BY DEF Failed, SameList, Offsets, StructKeys
<1>4. ASSUME NEW k \in Bucket, k # x % NumBuckets PROVE g.buckets[k] = h.buckets[k]
  BY <1>4 DEF Failed, HeapRec
<1> QED BY <1>2, <1>3, <1>4 DEF TableInv

(* Taking out the block at offset 0 keeps TableInv: the dummy has its      *)
(* offset, and its struct was no key.                                      *)
LEMMA UnlinkedInv ==
  ASSUME NEW h \in HeapRec, GoodList(h), NEW hs, Apart(h, hs), TableInv(h, hs),
         NEW g, Unlinked(h, g)
  PROVE  TableInv(g, hs)
<1>1. Spread(Offsets(h), StructKeys(h, hs)) /\ TableOK(h, Offsets(h))
  BY ApartSpread DEF TableInv, TableOK
<1>2. TableOK(g, Offsets(h))
  BY <1>1, UnlinkedTable
<1>3. TableOK(g, Offsets(g))
  BY <1>2, Narrow
<1> DEFINE L == Len(h.blocks)
<1>4. /\ L \in Nat /\ L > 1 /\ DOMAIN h.blocks = 1 .. L /\ DOMAIN g.blocks = 1 .. L - 1
      /\ g.blocks[1] = h.blocks[1]
      /\ \A n \in 2 .. L - 1 : g.blocks[n] = h.blocks[n + 1]
  BY UnlinkedList
<1>5. h.blocks[1].ptr = 0 /\ h.blocks[2].ptr = 0 /\ 1 \in DOMAIN g.blocks
  BY <1>1, <1>4 DEF Unlinked, TableOK
<1> HIDE DEF L
<1>6. ASSUME NEW n \in DOMAIN h.blocks, h.blocks[n].ptr # 0
      PROVE  \E m \in DOMAIN g.blocks : g.blocks[m] = h.blocks[n]
  <2>1. n # 1 /\ n # 2
    BY <1>5, <1>6
  <2>2. n - 1 \in 2 .. L - 1 /\ n - 1 \in DOMAIN g.blocks /\ (n - 1) + 1 = n
    BY <1>4, <2>1
  <2> QED BY <1>4, <2>2
<1>7. Offsets(h) \subseteq Offsets(g)
  BY <1>4, <1>5, <1>6 DEF Offsets
<1>8. StructKeys(h, hs) \subseteq StructKeys(g, hs)
  BY <1>6 DEF StructKeys
<1>9. ASSUME NEW k \in Bucket, g.buckets[k] # << >> PROVE h.buckets[k] # << >>
  <2>1. g.buckets = [h.buckets EXCEPT ![0] = << >>] /\ h.buckets \in [Bucket -> Seq(Ids)]
    BY DEF Unlinked, HeapRec
  <2> QED BY <1>9, <2>1
<1> QED BY <1>3, <1>7, <1>8, <1>9 DEF TableInv

(* The heaps heap_init makes satisfy the invariant.                        *)
LEMMA InitLive == Init => LiveInv
<1> SUFFICES ASSUME Init PROVE LiveInv
  OBVIOUS
<1>1. PICK b \in Ids, c \in [PE -> BOOLEAN] : heap = [p \in PE |-> heap_init(b, c[p])]
  BY DEF Init
<1>2. held = {} /\ IInv
  BY InitIInv DEF Init
<1>3. ASSUME NEW p \in PE
      PROVE  /\ heap[p].blocks = << [id |-> b, ptr |-> 0, size |-> 0] >> /\ heap[p].head = b
             /\ heap[p].buckets = hashmap_init
  BY <1>1 DEF heap_init
<1>4. ASSUME NEW p \in PE PROVE Apart(heap[p], hash[p]) /\ TableInv(heap[p], hash[p])
  <2> DEFINE s == << [id |-> b, ptr |-> 0, size |-> 0] >>
             h == heap[p]
  <2>1. h.blocks = s /\ h.buckets = hashmap_init
    BY <1>3
  <2>2. DOMAIN s = {1} /\ Len(s) = 1 /\ s[1].ptr = 0 /\ s[1].size = 0
    OBVIOUS
  <2> HIDE DEF s, h
  <2>3. Offsets(h) = {0} /\ StructKeys(h, hash[p]) = {}
    BY <2>1, <2>2 DEF Offsets, StructKeys
  <2>4. \A k \in Bucket : h.buckets[k] = << >>
    BY <2>1 DEF hashmap_init
  <2>5. 0 \in Bucket
    BY BucketFacts DEF Bucket
  <2>6. Apart(h, hash[p])
    BY <2>1, <2>2, <2>3 DEF Apart
  <2>7. TableOK(h, Offsets(h))
    BY <2>1, <2>2, <2>3, <2>4, <2>5 DEF TableOK
  <2> QED BY <2>4, <2>6, <2>7 DEF TableInv, h
<1>5. ASSUME NEW p \in PE, NEW q \in PE PROVE SameShape(heap[p], heap[q])
  BY <1>3 DEF SameShape
<1> QED BY <1>2, <1>4, <1>5 DEF LiveInv, Live, HeldInv, ShapeInv, SameOffset

(* A collective shmem_malloc keeps the invariant.                          *)
LEMMA MallocLive ==
  ASSUME LiveInv, IInv', NEW bytes \in Sizes, Malloc(bytes)
  PROVE  LiveInv'
<1> SUFFICES ASSUME legible' PROVE Live'
  BY DEF LiveInv
<1> DEFINE results == [p \in PE |-> heap_malloc(heap[p], hash[p], bytes)]
<1>1. PICK r \in {f \in [PE -> UNION {results[p] : p \in PE}] :
                   \A p \in PE : f[p] \in results[p]} :
        /\ heap' = [p \in PE |-> r[p].heap]
        /\ held' = held \cup
             {a \in {[call |-> calls, size |-> bytes, ptr |-> [p \in PE |-> r[p].ptr]]} :
                \E p \in PE : a.ptr[p] # NULL}
  BY Zenon DEF Malloc
<1>2. bytes \in Nat /\ Running /\ hash' = hash /\ legible /\ Legible'
  BY HeapAssumption DEF Malloc
<1>0. Live
  BY <1>2 DEF LiveInv
<1>3. ASSUME NEW p \in PE
      PROVE  /\ heap[p] \in HeapRec /\ GoodList(heap[p]) /\ TableInv(heap[p], hash[p])
             /\ heap[p].fault = "none" /\ hash[p] \in [Ids -> Bucket]
             /\ heap'[p] = r[p].heap /\ heap'[p] \in HeapRec /\ GoodList(heap'[p])
             /\ Apart(heap'[p], hash[p])
             /\ r[p] \in heap_malloc(heap[p], hash[p], bytes)
  <2>1. heap[p] \in HeapRec /\ GoodList(heap[p]) /\ heap'[p] \in HeapRec /\ GoodList(heap'[p])
    BY DEF LiveInv, IInv, TypeOK, HeapRec
  <2>2. TableInv(heap[p], hash[p]) /\ Apart(heap'[p], hash[p])
    BY <1>0, <1>2 DEF Live, Legible
  <2>3. hash[p] \in [Ids -> Bucket]
    BY HeapAssumption DEF LiveInv, IInv, TypeOK, Bucket
  <2>4. heap[p].fault = "none" /\ heap'[p] = r[p].heap /\ r[p] \in heap_malloc(heap[p], hash[p], bytes)
    BY <1>1, <1>2 DEF Running
  <2> QED BY <2>1, <2>2, <2>3, <2>4
<1> HIDE DEF results
<1>5. ASSUME NEW p \in PE, Room(heap[p], bytes)
      PROVE  /\ FirstFit(heap[p], bytes) \in DOMAIN heap[p].blocks
             /\ BLOCK_GAP(heap[p].blocks, FirstFit(heap[p], bytes)) >= bytes
  BY <1>2, <1>3, <1>5, FitPlace
<1>4. ASSUME NEW p \in PE
      PROVE  \/ /\ r[p].ptr = NULL /\ SameList(heap'[p], heap[p]) /\ heap'[p].buckets = heap[p].buckets
                /\ heap'[p].fault = "none" => ~Room(heap[p], bytes)
             \/ /\ Room(heap[p], bytes) /\ r[p].ptr = BLOCK_END(heap[p].blocks[FirstFit(heap[p], bytes)])
                /\ heap'[p].fault = "none"
                /\ \E b \in Ids : /\ ~Linked(heap[p].blocks, b)
                                  /\ Placed(heap[p], heap'[p], FirstFit(heap[p], bytes), b, bytes,
                                            StructKeys(heap'[p], hash[p]))
  <2> DEFINE h == heap[p]
             g == heap'[p]
             s == r[p]
             hs == hash[p]
             at == FirstFit(h, bytes)
             keys == StructKeys(g, hs)
  <2>1. /\ h \in HeapRec /\ GoodList(h) /\ h.fault = "none" /\ TableInv(h, hs) /\ g = s.heap
        /\ hs \in [Ids -> Bucket] /\ s \in heap_malloc(h, hs, bytes)
        /\ g \in HeapRec /\ GoodList(g) /\ Apart(g, hs)
    BY <1>3
  <2>0. Room(h, bytes) => at \in DOMAIN h.blocks
    BY <1>5
  <2> HIDE DEF h, g, s, hs, at, keys
  <2>4. ASSUME NEW b \in Ids, Room(h, bytes), Inserted(h, g, at, b, bytes)
        PROVE  Fresh(h, hs, at, bytes, Offsets(g), keys)
    BY <1>2, <2>0, <2>1, <2>4, InsertedFresh DEF keys
  <2>2. \/ /\ s.ptr = NULL /\ SameList(s.heap, h) /\ s.heap.buckets = h.buckets
           /\ s.heap.fault = "none" => ~Room(h, bytes)
        \/ /\ Room(h, bytes) /\ s.ptr = BLOCK_END(h.blocks[FirstFit(h, bytes)])
           /\ s.heap.fault = "none"
           /\ \E b \in Ids : ~Linked(h.blocks, b) /\ Placed(h, s.heap, FirstFit(h, bytes), b, bytes, keys)
    <3>1. \A b \in Ids : Room(h, bytes) /\ Inserted(h, s.heap, FirstFit(h, bytes), b, bytes)
            => Fresh(h, hs, FirstFit(h, bytes), bytes, Offsets(g), keys)
      BY <2>1, <2>4 DEF at
    <3> QED BY <1>2, <2>1, <3>1, MallocCases
  <2>3. \/ /\ s.ptr = NULL /\ SameList(g, h) /\ g.buckets = h.buckets
           /\ g.fault = "none" => ~Room(h, bytes)
        \/ /\ Room(h, bytes) /\ s.ptr = BLOCK_END(h.blocks[FirstFit(h, bytes)])
           /\ g.fault = "none"
           /\ \E b \in Ids : ~Linked(h.blocks, b) /\ Placed(h, g, FirstFit(h, bytes), b, bytes, keys)
    BY <2>1, <2>2
  <2> QED BY <2>3, Zenon DEF h, g, s, hs, keys
<1>6. ASSUME NEW p \in PE PROVE TableInv(heap'[p], hash[p])
  <2>1. CASE SameList(heap'[p], heap[p]) /\ heap'[p].buckets = heap[p].buckets
    <3>1. heap'[p].blocks = heap[p].blocks
      BY <2>1 DEF SameList
    <3>2. /\ Offsets(heap'[p]) = Offsets(heap[p])
          /\ StructKeys(heap'[p], hash[p]) = StructKeys(heap[p], hash[p])
      BY <3>1 DEF Offsets, StructKeys
    <3>3. TableOK(heap'[p], Offsets(heap[p]))
      <4>1. TableOK(heap[p], Offsets(heap[p]))
        BY <1>3 DEF TableInv
      <4> QED BY <2>1, <3>1, <4>1 DEF TableOK
    <3>4. TableInv(heap[p], hash[p])
      BY <1>3
    <3> QED BY <2>1, <3>2, <3>3, <3>4 DEF TableInv
  <2>2. ASSUME Room(heap[p], bytes), NEW b \in Ids, ~Linked(heap[p].blocks, b),
               Placed(heap[p], heap'[p], FirstFit(heap[p], bytes), b, bytes,
                      StructKeys(heap'[p], hash[p]))
        PROVE  TableInv(heap'[p], hash[p])
    <3> DEFINE h == heap[p]
               g == heap'[p]
               hs == hash[p]
               at == FirstFit(h, bytes)
    <3>1. /\ h \in HeapRec /\ GoodList(h) /\ TableInv(h, hs) /\ at \in DOMAIN h.blocks
          /\ BLOCK_GAP(h.blocks, at) >= bytes /\ ~Linked(h.blocks, b)
          /\ g \in HeapRec /\ GoodList(g) /\ Apart(g, hs)
          /\ Placed(h, g, at, b, bytes, StructKeys(g, hs))
      BY <1>3, <1>5, <2>2
    <3> HIDE DEF h, g, hs, at
    <3>2. TableInv(g, hs)
      BY <1>2, <3>1, PlacedInv
    <3> QED BY <3>2 DEF g, hs
  <2> QED BY <1>4, <2>1, <2>2
<1>7. ASSUME NEW p \in PE
      PROVE  /\ \A x, y : Holds(heap[p].blocks, x, y) => Holds(heap'[p].blocks, x, y)
             /\ r[p].ptr # NULL => /\ Holds(heap'[p].blocks, r[p].ptr, bytes)
                                   /\ \A y : ~Holds(heap[p].blocks, r[p].ptr, y)
  <2>1. CASE r[p].ptr = NULL /\ SameList(heap'[p], heap[p])
    BY <2>1 DEF SameList
  <2>2. ASSUME Room(heap[p], bytes), NEW b \in Ids, ~Linked(heap[p].blocks, b),
               r[p].ptr = BLOCK_END(heap[p].blocks[FirstFit(heap[p], bytes)]),
               Placed(heap[p], heap'[p], FirstFit(heap[p], bytes), b, bytes,
                      StructKeys(heap'[p], hash[p]))
        PROVE  /\ \A x, y : Holds(heap[p].blocks, x, y) => Holds(heap'[p].blocks, x, y)
               /\ Holds(heap'[p].blocks, r[p].ptr, bytes)
               /\ \A y : ~Holds(heap[p].blocks, r[p].ptr, y)
    <3> DEFINE h == heap[p]
               g == heap'[p]
               hs == hash[p]
               at == FirstFit(h, bytes)
    <3>1. /\ h \in HeapRec /\ GoodList(h) /\ TableInv(h, hs) /\ at \in DOMAIN h.blocks
          /\ BLOCK_GAP(h.blocks, at) >= bytes /\ ~Linked(h.blocks, b)
          /\ g \in HeapRec /\ GoodList(g) /\ Apart(g, hs)
          /\ Inserted(h, g, at, b, bytes)
      BY <1>3, <1>5, <2>2 DEF Placed
    <3>2. r[p].ptr = BLOCK_END(h.blocks[at])
      BY <2>2
    <3> HIDE DEF h, g, hs, at
    <3>3. /\ Holds(g.blocks, BLOCK_END(h.blocks[at]), bytes)
          /\ \A x, y : Holds(h.blocks, x, y) => Holds(g.blocks, x, y)
      BY <1>2, <3>1, InsertedHolds
    <3>4. \A n \in DOMAIN h.blocks : n # 1 => h.blocks[n].ptr # BLOCK_END(h.blocks[at])
      <4>1. Fresh(h, hs, at, bytes, Offsets(g), StructKeys(g, hs))
        BY <1>2, <3>1, InsertedFresh
      <4>2. /\ bytes \in Nat \ {0} /\ Spread(Offsets(g), StructKeys(g, hs)) /\ TableOK(h, Offsets(g))
            /\ BLOCK_END(h.blocks[at]) \in Offsets(g)
        BY <1>2, <4>1 DEF Fresh
      <4> QED BY <3>1, <4>2, FreshPlace
    <3>5. \A y : ~Holds(h.blocks, r[p].ptr, y)
      BY <3>2, <3>4 DEF Holds
    <3> QED BY <3>2, <3>3, <3>5 DEF h, g
  <2> QED BY <1>4, <2>1, <2>2
<1> DEFINE new == [call |-> calls, size |-> bytes, ptr |-> [p \in PE |-> r[p].ptr]]
<1>8. /\ \A a \in held' : a \in held \/ a = new
      /\ \A p \in PE : new.ptr[p] = r[p].ptr
      /\ new.size = bytes
  BY <1>1
<1> HIDE DEF new
<1>9. HeldInv'
  <2>1. ASSUME NEW p \in PE, NEW a \in held', a.ptr[p] # NULL
        PROVE  /\ Holds(heap'[p].blocks, a.ptr[p], a.size)
               /\ \A b \in held' : a # b => a.ptr[p] # b.ptr[p]
    <3>1. \A b \in held : b.ptr[p] # NULL =>
            Holds(heap[p].blocks, b.ptr[p], b.size) /\ \A c \in held : b # c => b.ptr[p] # c.ptr[p]
      BY <1>0 DEF Live, HeldInv
    <3>2. Holds(heap'[p].blocks, a.ptr[p], a.size)
      BY <1>7, <1>8, <2>1, <3>1
    <3>3. ASSUME NEW b \in held', a # b PROVE a.ptr[p] # b.ptr[p]
      <4>1. CASE a \in held /\ b \in held
        BY <2>1, <3>1, <3>3, <4>1
      <4>2. CASE a \in held /\ b = new
        BY <1>7, <1>8, <2>1, <3>1, <4>2
      <4>3. CASE a = new /\ b \in held
        BY <1>7, <1>8, <2>1, <3>1, <4>3
      <4> QED BY <1>8, <3>3, <4>1, <4>2, <4>3
    <3> QED BY <3>2, <3>3
  <2> QED BY <2>1 DEF HeldInv
<1>10. ASSUME NoFault', NEW p \in PE, NEW q \in PE
       PROVE  SameShape(heap'[p], heap'[q]) /\ r[p].ptr = r[q].ptr
  <2> DEFINE g == heap[p]
             h == heap[q]
             f == heap'[p]
             e == heap'[q]
  <2>1. /\ g \in HeapRec /\ GoodList(g) /\ h \in HeapRec /\ GoodList(h) /\ GoodList(f) /\ GoodList(e)
        /\ f.fault = "none" /\ e.fault = "none"
    BY <1>3, <1>10 DEF NoFault
  <2>2. SameShape(g, h)
    BY <1>0, <1>2 DEF Live, ShapeInv, NoFault, Running
  <2> DEFINE x == r[p].ptr
             y == r[q].ptr
  <2>3. \/ ~Room(g, bytes) /\ x = NULL /\ SameList(f, g)
        \/ /\ Room(g, bytes) /\ x = BLOCK_END(g.blocks[FirstFit(g, bytes)])
           /\ \E b \in Ids : Inserted(g, f, FirstFit(g, bytes), b, bytes)
    BY <1>4, <2>1 DEF Placed
  <2>4. \/ ~Room(h, bytes) /\ y = NULL /\ SameList(e, h)
        \/ /\ Room(h, bytes) /\ y = BLOCK_END(h.blocks[FirstFit(h, bytes)])
           /\ \E b \in Ids : Inserted(h, e, FirstFit(h, bytes), b, bytes)
    BY <1>4, <2>1 DEF Placed
  <2>5. Room(h, bytes) => FirstFit(h, bytes) \in DOMAIN h.blocks
    BY <1>5
  <2> HIDE DEF g, h, f, e, x, y
  <2>6. /\ Room(g, bytes) <=> Room(h, bytes)
        /\ FirstFit(g, bytes) = FirstFit(h, bytes)
        /\ \A n \in DOMAIN h.blocks : BLOCK_END(g.blocks[n]) = BLOCK_END(h.blocks[n])
    BY <1>2, <2>1, <2>2, ShapeFit
  <2>7. CASE ~Room(h, bytes)
    <3>1. x = y /\ SameList(f, g) /\ SameList(e, h)
      BY <2>3, <2>4, <2>6, <2>7
    <3>2. SameShape(f, e)
      BY <2>2, <3>1 DEF SameList, SameShape
    <3> QED BY <3>1, <3>2 DEF f, e, x, y
  <2>8. CASE Room(h, bytes)
    <3> DEFINE at == FirstFit(h, bytes)
    <3>1. at \in DOMAIN h.blocks /\ at = FirstFit(g, bytes)
      BY <2>5, <2>6, <2>8
    <3> HIDE DEF at
    <3>2. PICK b \in Ids : Inserted(g, f, at, b, bytes)
      BY <2>3, <2>6, <2>8, <3>1
    <3>3. PICK c \in Ids : Inserted(h, e, at, c, bytes)
      BY <2>4, <2>8 DEF at
    <3>4. SameShape(f, e)
      BY <1>2, <2>1, <2>2, <3>1, <3>2, <3>3, InsertedShape
    <3>5. x = y
      BY <2>3, <2>4, <2>6, <2>8, <3>1 DEF at
    <3> QED BY <3>4, <3>5 DEF f, e, x, y
  <2> QED BY <2>7, <2>8
<1>11. SameOffset'
  <2>1. ASSUME \A p \in PE : heap'[p].fault = "none", NEW a \in held', NEW p \in PE, NEW q \in PE
        PROVE  a.ptr[p] = a.ptr[q]
    <3>1. CASE a \in held
      BY <1>0, <1>2, <3>1 DEF Live, SameOffset, Running
    <3>2. CASE a = new
      BY <1>8, <1>10, <2>1, <3>2 DEF NoFault
    <3> QED BY <1>8, <3>1, <3>2
  <2> QED BY <2>1 DEF SameOffset
<1>12. \A p \in PE : Apart(heap'[p], hash'[p]) /\ TableInv(heap'[p], hash'[p])
  BY <1>2, <1>3, <1>6
<1> QED BY <1>9, <1>10, <1>11, <1>12 DEF Live, ShapeInv

(* A collective shmem_free of an allocation the program holds keeps the    *)
(* invariant.                                                              *)
LEMMA FreeLive ==
  ASSUME LiveInv, IInv', NEW a \in held, Free(a)
  PROVE  LiveInv'
<1> SUFFICES ASSUME legible' PROVE Live'
  BY DEF LiveInv
<1> DEFINE results == [p \in PE |-> IF a.ptr[p] = NULL THEN {heap[p]}
                                    ELSE heap_free(heap[p], a.ptr[p])]
           Second0(h) == Len(h.blocks) > 1 /\ h.blocks[2].ptr = 0
<1>1. /\ \A p \in PE : heap'[p] \in results[p]
      /\ Running /\ held' = held \ {a} /\ hash' = hash
  BY Zenon DEF Free
<1>0. Live /\ Legible'
  BY DEF Free, LiveInv
<1>2. ASSUME NEW p \in PE
      PROVE  /\ heap[p] \in HeapRec /\ GoodList(heap[p])
             /\ Apart(heap[p], hash[p]) /\ TableInv(heap[p], hash[p]) /\ Apart(heap'[p], hash[p])
             /\ heap[p].fault = "none" /\ GoodList(heap'[p])
             /\ IF a.ptr[p] = NULL THEN heap'[p] = heap[p]
                ELSE heap'[p] \in heap_free(heap[p], a.ptr[p])
  <2>1. heap[p] \in HeapRec /\ GoodList(heap[p]) /\ GoodList(heap'[p])
    BY DEF LiveInv, IInv, TypeOK, HeapRec
  <2>2. Apart(heap[p], hash[p]) /\ TableInv(heap[p], hash[p]) /\ Apart(heap'[p], hash[p])
    BY <1>0, <1>1 DEF Live, Legible
  <2>3. /\ heap[p].fault = "none"
        /\ IF a.ptr[p] = NULL THEN heap'[p] = heap[p]
           ELSE heap'[p] \in heap_free(heap[p], a.ptr[p])
    BY <1>1 DEF Running
  <2> QED BY <2>1, <2>2, <2>3
<1> HIDE DEF results
<1>3. ASSUME NEW p \in PE, a.ptr[p] # NULL PROVE a.ptr[p] \in Offsets(heap[p])
  <2>1. Holds(heap[p].blocks, a.ptr[p], a.size)
    BY <1>0, <1>3 DEF Live, HeldInv
  <2> QED BY <2>1 DEF Holds, Offsets
<1>4. ASSUME NEW p \in PE
      PROVE  \/ heap'[p] = heap[p] /\ (a.ptr[p] = 0 => ~Second0(heap[p]))
             \/ a.ptr[p] # 0 /\ a.ptr[p] \in Offsets(heap[p]) /\ Failed(heap[p], heap'[p], a.ptr[p])
             \/ a.ptr[p] = 0 /\ Unlinked(heap[p], heap'[p])
  <2>1. CASE a.ptr[p] = NULL
    BY <1>2, <2>1 DEF NULL
  <2>2. CASE a.ptr[p] # NULL
    <3> DEFINE h == heap[p]
               g == heap'[p]
               x == a.ptr[p]
               hs == hash[p]
    <3>1. /\ h \in HeapRec /\ GoodList(h) /\ x \in Offsets(h) /\ g \in heap_free(h, x)
          /\ Apart(h, hs) /\ TableInv(h, hs)
      BY <1>2, <1>3, <2>2
    <3> HIDE DEF h, g, x, hs
    <3>3. Spread(Offsets(h), StructKeys(h, hs)) /\ TableOK(h, Offsets(h))
      BY <3>1, ApartSpread DEF TableInv, TableOK
    <3>2. \/ g = h /\ (x = 0 => ~(Len(h.blocks) > 1 /\ h.blocks[2].ptr = 0))
          \/ x # 0 /\ Failed(h, g, x)
          \/ x = 0 /\ Unlinked(h, g)
      BY <3>1, <3>3, FreeCases
    <3> QED BY <3>1, <3>2 DEF h, g, x
  <2> QED BY <2>1, <2>2
<1>5. ASSUME NEW p \in PE PROVE TableInv(heap'[p], hash[p])
  <2> DEFINE h == heap[p]
             g == heap'[p]
             x == a.ptr[p]
             hs == hash[p]
  <2>1. h \in HeapRec /\ GoodList(h) /\ Apart(h, hs) /\ TableInv(h, hs)
    BY <1>2
  <2>2. \/ g = h
        \/ x # 0 /\ x \in Offsets(h) /\ Failed(h, g, x)
        \/ Unlinked(h, g)
    BY <1>4
  <2> HIDE DEF h, g, x, hs
  <2>3. TableInv(g, hs)
    BY <2>1, <2>2, FailedInv, UnlinkedInv
  <2> QED BY <2>3 DEF g, hs
<1>6. HeldInv'
  <2>1. ASSUME NEW p \in PE, NEW b \in held', b.ptr[p] # NULL
        PROVE  /\ Holds(heap'[p].blocks, b.ptr[p], b.size)
               /\ \A c \in held' : b # c => b.ptr[p] # c.ptr[p]
    <3>1. b \in held /\ b # a
      BY <1>1
    <3>2. /\ Holds(heap[p].blocks, b.ptr[p], b.size)
          /\ \A c \in held : b # c => b.ptr[p] # c.ptr[p]
      BY <1>0, <2>1, <3>1 DEF Live, HeldInv
    <3>3. b.ptr[p] # a.ptr[p]
      BY <3>1, <3>2
    <3>4. CASE heap'[p].blocks = heap[p].blocks
      BY <1>1, <3>2, <3>4
    <3>5. CASE a.ptr[p] = 0 /\ Unlinked(heap[p], heap'[p])
      <4>1. Holds(heap'[p].blocks, b.ptr[p], b.size)
        BY <1>2, <3>2, <3>3, <3>5, UnlinkedHolds
      <4> QED BY <1>1, <3>2, <4>1
    <3> QED BY <1>4, <3>4, <3>5 DEF Failed, SameList
  <2> QED BY <2>1 DEF HeldInv
<1>7. SameOffset'
  BY <1>0, <1>1 DEF Live, LiveInv, Free, SameOffset, Running
<1>8. ASSUME NoFault', NEW p \in PE, NEW q \in PE PROVE SameShape(heap'[p], heap'[q])
  <2>1. SameShape(heap[p], heap[q])
    BY <1>0, <1>1 DEF Live, ShapeInv, NoFault, Running
  <2>2. a.ptr[p] = a.ptr[q]
    BY <1>0, <1>1 DEF Live, Free, SameOffset, Running
  <2>3. heap'[p].fault = "none" /\ heap'[q].fault = "none"
    BY <1>8 DEF NoFault
  <2> DEFINE g == heap[p]
             h == heap[q]
             f == heap'[p]
             e == heap'[q]
             x == a.ptr[p]
  <2>4. g \in HeapRec /\ h \in HeapRec /\ GoodList(f) /\ GoodList(e)
    BY <1>2
  <2>5. \/ f = g /\ (x = 0 => ~Second0(g))
        \/ x = 0 /\ Unlinked(g, f)
    BY <1>4, <2>3 DEF Failed
  <2>6. \/ e = h /\ (x = 0 => ~Second0(h))
        \/ x = 0 /\ Unlinked(h, e)
    BY <1>4, <2>2, <2>3 DEF Failed
  <2>7. SameShape(g, h)
    BY <2>1
  <2> HIDE DEF g, h, f, e, x
  <2>8. Second0(g) <=> Second0(h)
    <3>1. Len(g.blocks) = Len(h.blocks) /\ Len(g.blocks) \in Nat /\ DOMAIN g.blocks = 1 .. Len(g.blocks)
      BY <2>4, <2>7, LenProperties DEF SameShape, HeapRec
    <3>2. Len(g.blocks) > 1 => 2 \in DOMAIN g.blocks
      BY <3>1
    <3>3. Len(g.blocks) > 1 => g.blocks[2].ptr = h.blocks[2].ptr
      BY <2>7, <3>2 DEF SameShape
    <3> QED BY <3>1, <3>3
  <2>9. Unlinked(g, f) => Second0(g)
    BY DEF Unlinked
  <2>10. Unlinked(h, e) => Second0(h)
    BY DEF Unlinked
  <2> HIDE DEF Second0
  <2>11. SameShape(f, e)
    BY <2>4, <2>5, <2>6, <2>7, <2>8, <2>9, <2>10, UnlinkedShape
  <2> QED BY <2>11 DEF f, e
<1>9. \A p \in PE : Apart(heap'[p], hash'[p]) /\ TableInv(heap'[p], hash'[p])
  BY <1>1, <1>2, <1>5
<1> QED BY <1>6, <1>7, <1>8, <1>9 DEF Live, ShapeInv

(* Every step keeps the invariant.                                         *)
LEMMA NextLive == LiveInv /\ [Next]_vars => LiveInv'
<1> SUFFICES ASSUME LiveInv, [Next]_vars PROVE LiveInv'
  OBVIOUS
<1>1. IInv'
  BY NextIInv DEF LiveInv
<1>2. ASSUME NEW bytes \in Sizes, Malloc(bytes) PROVE LiveInv'
  BY <1>1, <1>2, MallocLive
<1>3. ASSUME NEW a \in held, Free(a) PROVE LiveInv'
  BY <1>1, <1>3, FreeLive
<1>4. CASE UNCHANGED vars
  BY <1>1, <1>4 DEF vars, LiveInv, Live, HeldInv, ShapeInv, NoFault, SameOffset
<1> QED BY <1>2, <1>3, <1>4 DEF Next, Stopped

(* Two allocations are two blocks of an ordered list, so they share no     *)
(* byte.                                                                   *)
LEMMA LiveDisjointHolds == LiveInv => LegibleLive
<1> SUFFICES ASSUME IInv, HeldInv PROVE LiveDisjoint
  BY DEF LiveInv, Live, LegibleLive
<1>1. ASSUME NEW a \in held, NEW b \in held, a # b, NEW p \in PE, a.ptr[p] # NULL, b.ptr[p] # NULL
      PROVE  \/ a.ptr[p] + a.size <= b.ptr[p]
             \/ b.ptr[p] + b.size <= a.ptr[p]
  <2>1. heap[p] \in HeapRec /\ GoodList(heap[p])
    BY DEF IInv, TypeOK, HeapRec
  <2>2. /\ Holds(heap[p].blocks, a.ptr[p], a.size)
        /\ Holds(heap[p].blocks, b.ptr[p], b.size)
        /\ a.ptr[p] # b.ptr[p]
    BY <1>1 DEF HeldInv
  <2> DEFINE s == heap[p].blocks
  <2>3. s \in Seq(Block) /\ Len(s) \in Nat /\ DOMAIN s = 1 .. Len(s) /\ Ordered(s)
    BY <2>1, LenProperties DEF HeapRec, GoodList
  <2> HIDE DEF s
  <2>4. PICK m \in DOMAIN s : s[m].ptr = a.ptr[p] /\ s[m].size = a.size
    BY <2>2 DEF Holds, s
  <2>5. PICK n \in DOMAIN s : s[n].ptr = b.ptr[p] /\ s[n].size = b.size
    BY <2>2 DEF Holds, s
  <2>6. m # n
    BY <2>2, <2>4, <2>5
  <2>7. m < n \/ n < m
    BY <2>3, <2>6
  <2>8. m < n => BLOCK_END(s[m]) <= s[n].ptr
    BY <2>3 DEF Ordered
  <2>9. n < m => BLOCK_END(s[n]) <= s[m].ptr
    BY <2>3 DEF Ordered
  <2> QED BY <2>4, <2>5, <2>7, <2>8, <2>9 DEF BLOCK_END
<1> QED BY <1>1 DEF LiveDisjoint

(* As long as the keys of the linked blocks have had buckets of their own, *)
(* and none of the blocks is empty, memory the program holds is never      *)
(* given out again by heap_malloc, on any PE, for any number of PEs, any   *)
(* size of the heap and of the table and any sequence of shmem_malloc and  *)
(* shmem_free: neither the search under the predecessor's offset           *)
(* (hashmap.c:126) nor the nodes of freed structs that stay in the table   *)
(* make heap_free take out a block that is held.                           *)
THEOREM LiveMemoryDisjoint == Spec => []LegibleLive
<1> QED BY InitLive, NextLive, LiveDisjointHolds, PTL DEF Spec

(* As long as that is so and no process has crashed, an allocation has the *)
(* same offset on every PE, although the struct addresses that are keys of *)
(* the table differ from process to process: the address a put computes    *)
(* (shmem.c:114) is the one its target was given.                          *)
THEOREM HeapIsSymmetric == Spec => []SameOffset
<1>1. LiveInv => SameOffset
  BY DEF LiveInv, Live, SameOffset
<1> QED BY <1>1, InitLive, NextLive, PTL DEF Spec
=============================================================================
