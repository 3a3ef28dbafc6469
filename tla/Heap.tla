-------------------------------- MODULE Heap ---------------------------------
(***************************************************************************)
(* The symmetric heap: memory/heap.c, the allocator each PE runs over its  *)
(* shared region (memory/shared_heap.c), and memory/hashmap.c, the table   *)
(* heap_free finds blocks with.  shmem_malloc and shmem_free are           *)
(* collective: every PE makes the same call on a heap of its own, so one   *)
(* action steps the heaps of all PEs.  The calls are those of any client,  *)
(* as in test/shmem_heap.c; in a job the first one is that of comm_wireup, *)
(* for __pSync.                                                            *)
(*                                                                         *)
(* A block is an offset in the region, a size and the address of its       *)
(* struct block_t.  Such an address matters in three ways: freed ones are  *)
(* reused by later mallocs, the table may still hold them, and one of them *)
(* is passed as a key, so its remainder modulo NUM_BUCKETS picks a bucket. *)
(***************************************************************************)
EXTENDS Integers, Sequences, SequencesExt

CONSTANTS
  PE,          \* the processes of the job
  HeapSize,    \* size of the region in bytes
  Sizes,       \* sizes the program asks for
  NumBuckets,  \* NUM_BUCKETS
  Ids,         \* bound: addresses of struct block_t
  Remainders,  \* ways those addresses can fall into buckets
  MaxCalls     \* bound: calls of shmem_malloc and shmem_free

ASSUME HeapAssumption ==
  /\ HeapSize \in Nat /\ Sizes \subseteq Nat /\ MaxCalls \in Nat
  /\ NumBuckets \in Nat \ {0} /\ Remainders \subseteq [Ids -> 0 .. NumBuckets - 1]

VARIABLES
  heap,   \* heap[p]: the struct heap_t of PE p
  hash,   \* hash[p][b]: struct address b of PE p modulo NUM_BUCKETS
  held,   \* allocations the program has not freed: size and address on each PE
  calls,  \* number of calls made
  legible \* history: Legible has held so far

vars == <<heap, hash, held, calls, legible>>

NULL   == -1
Bucket == 0 .. NumBuckets - 1
Block  == [id : Ids, ptr : 0 .. HeapSize, size : Nat]

(* What became of the process: "null" and "wild" are dereferences of a     *)
(* null and of a freed pointer.                                            *)
Faults == {"none", "null", "wild"}

TypeOK ==
  /\ heap \in [PE -> [blocks : Seq(Block), head : Ids,
                      buckets : [Bucket -> Seq(Ids)],
                      clean : BOOLEAN, fault : Faults]]
  /\ hash \in [PE -> Remainders]
  /\ \A a \in held : a \in [call : 0 .. MaxCalls, size : Sizes, ptr : [PE -> (0 .. HeapSize) \cup {NULL}]]
  /\ calls \in 0 .. MaxCalls
  /\ legible \in BOOLEAN

hashmap_init == [k \in Bucket |-> << >>]

(* heap_init: one dummy block of size 0 at the start of the region, tail   *)
(* for ever and head for now.  Its next field is not set: clean says that  *)
(* malloc happened to return zeroed memory for it.                         *)
heap_init(b, c) ==
  [blocks  |-> << [id |-> b, ptr |-> 0, size |-> 0] >>, head |-> b,
   buckets |-> hashmap_init, clean |-> c, fault |-> "none"]

Init ==
  /\ \E b \in Ids, c \in [PE -> BOOLEAN] : heap = [p \in PE |-> heap_init(b, c[p])]
  /\ hash \in [PE -> Remainders]
  /\ held = {}
  /\ calls = 0
  /\ legible = TRUE

-----------------------------------------------------------------------------
(* The list of blocks *)

BLOCK_END(b) == b.ptr + b.size

(* Variant: the room of the last block is counted beyond the region.       *)
BLOCK_GAP_beyond(blocks, n) ==
  (IF n = Len(blocks) THEN HeapSize + 2 ELSE blocks[n + 1].ptr) - BLOCK_END(blocks[n])

(* Variant: the size of the block itself is counted as room after it.      *)
BLOCK_GAP_own(blocks, n) ==
  (IF n = Len(blocks) THEN HeapSize ELSE blocks[n + 1].ptr) - blocks[n].ptr

(* BLOCK_GAP: the room between the n-th block and the next or the end.     *)
BLOCK_GAP(blocks, n) ==
  (IF n = Len(blocks) THEN HeapSize ELSE blocks[n + 1].ptr) - BLOCK_END(blocks[n])

Linked(blocks, id) == \E n \in DOMAIN blocks : blocks[n].id = id

Position(blocks, id) == CHOOSE n \in DOMAIN blocks : blocks[n].id = id

(* NEXT_BLOCK applied k times to the block at position n: past the last    *)
(* one comes the tail, the first.                                          *)
NEXT_BLOCK(blocks, n, k) == ((n - 1 + k) % Len(blocks)) + 1

(* How often the search of heap_malloc that starts at position n may move  *)
(* on to be at a block followed by enough room; it gives up when it is     *)
(* back at n.                                                              *)
Fits(blocks, n, bytes) ==
  {k \in 0 .. Len(blocks) - 1 : BLOCK_GAP(blocks, NEXT_BLOCK(blocks, n, k)) >= bytes}

-----------------------------------------------------------------------------
(* The table.  A node holds the predecessor of the block it stands for.    *)

(* What "key == node->value->next->ptr" can give, the value being v: a     *)
(* null dereference if v is the last block; anything if v has been freed.  *)
NextPtrIs(blocks, v, key) ==
  IF ~Linked(blocks, v) THEN {"yes", "no", "wild"}
  ELSE LET n == Position(blocks, v)
       IN  IF n = Len(blocks)           THEN {"null"}
           ELSE IF blocks[n + 1].ptr = key THEN {"yes"} ELSE {"no"}

(* Variant: the keys are not compared.                                     *)
PtrIs_unchecked(blocks, v, key) == IF Linked(blocks, v) THEN {"yes"} ELSE {"no"}

(* What the test of hashmap_remove, of key against value->ptr, can give.  *)
PtrIs(blocks, v, key) ==
  IF ~Linked(blocks, v) THEN {"yes", "no"}
  ELSE IF blocks[Position(blocks, v)].ptr = key THEN {"yes"} ELSE {"no"}

(* hashmap_set: the first node of bucket k that matches gets the value,    *)
(* and if none does a new one is put in front.                             *)
hashmap_set(h, k, key, v) ==
  LET nodes == h.buckets[k]
      test  == [n \in DOMAIN nodes |-> NextPtrIs(h.blocks, nodes[n], key)]
      Reached(n) == \A m \in 1 .. n - 1 : "no" \in test[m]
  IN  {[h EXCEPT !.buckets[k][n] = v] :
         n \in {m \in DOMAIN nodes : Reached(m) /\ "yes" \in test[m]}}
      \cup {[h EXCEPT !.fault = f] :
         f \in {g \in {"null", "wild"} :
                  \E m \in DOMAIN nodes : Reached(m) /\ g \in test[m]}}
      \cup (IF Reached(Len(nodes) + 1)
            THEN {[h EXCEPT !.buckets[k] = <<v>> \o @]} ELSE {})

(* hashmap_remove: the positions of the nodes it can find, none if 0.      *)
hashmap_remove(h, k, key) ==
  LET nodes == h.buckets[k]
      test  == [n \in DOMAIN nodes |-> PtrIs(h.blocks, nodes[n], key)]
      Reached(n) == \A m \in 1 .. n - 1 : "no" \in test[m]
  IN  {n \in DOMAIN nodes : Reached(n) /\ "yes" \in test[n]}
      \cup (IF Reached(Len(nodes) + 1) THEN {0} ELSE {})

-----------------------------------------------------------------------------
(* heap_malloc(bytes) on heap h, the struct addresses having the           *)
(* remainders hs: the possible heaps and results.  The first thing it does *)
(* is to follow the next field of the dummy block.                         *)
heap_malloc(h, hs, bytes) ==
  LET start == Position(h.blocks, h.head)
      fits  == Fits(h.blocks, start, bytes)
      at    == NEXT_BLOCK(h.blocks, start, CHOOSE k \in fits : \A m \in fits : k <= m)
      prev  == h.blocks[at]
      new(b) == [id |-> b, ptr |-> BLOCK_END(prev), size |-> bytes]
      (* "Update the next block's hashmap info": the key is head->next     *)
      First(b) == IF at = Len(h.blocks) THEN {h}
                  ELSE hashmap_set(h, hs[h.blocks[at + 1].id], NULL, b)
      Link(g, b) == [g EXCEPT !.blocks = InsertAt(@, at + 1, new(b)), !.head = b]
      Second(g, b) == hashmap_set(Link(g, b), new(b).ptr % NumBuckets, new(b).ptr, prev.id)
      Result(g, b) == [heap |-> g, ptr |-> IF g.fault = "none" THEN new(b).ptr ELSE NULL]
  IN  IF ~h.clean
      THEN {[heap |-> [h EXCEPT !.fault = "wild"], ptr |-> NULL]}
      ELSE IF fits = {}
      THEN {[heap |-> h, ptr |-> NULL]}
      ELSE UNION {UNION {IF g.fault # "none"
                         THEN {Result(g, b)}
                         ELSE {Result(f, b) : f \in Second(g, b)} : g \in First(b)} :
                    b \in {c \in Ids : ~Linked(h.blocks, c)}}

(* Variant: heap->head is left as it was.                                  *)
heap_free_keeps_head(h, ptr) ==
  LET k == ptr % NumBuckets
      Removed(n) ==
        LET v  == h.buckets[k][n]
            g  == [h EXCEPT !.buckets[k] = RemoveAt(@, n)]
            at == Position(h.blocks, v)
        IN  IF ~Linked(h.blocks, v)    THEN [g EXCEPT !.fault = "wild"]
            ELSE IF at = Len(h.blocks) THEN [g EXCEPT !.fault = "null"]
            ELSE [g EXCEPT !.blocks = RemoveAt(@, at + 1)]
  IN  {IF n = 0 THEN h ELSE Removed(n) : n \in hashmap_remove(h, k, ptr)}

(* Variant: the list is cut after the block the table gives.               *)
heap_free_cuts(h, ptr) ==
  LET k == ptr % NumBuckets
      Removed(n) ==
        LET v  == h.buckets[k][n]
            at == Position(h.blocks, v)
        IN  IF ~Linked(h.blocks, v) THEN [h EXCEPT !.fault = "wild"]
            ELSE [h EXCEPT !.buckets[k] = RemoveAt(@, n),
                           !.blocks = SubSeq(@, 1, at), !.head = h.blocks[1].id]
  IN  {IF n = 0 THEN h ELSE Removed(n) : n \in hashmap_remove(h, k, ptr)}

(* heap_free(ptr): the block after the one the table gives is taken out of *)
(* the list and freed.                                                     *)
heap_free(h, ptr) ==
  LET k == ptr % NumBuckets
      Removed(n) ==
        LET v  == h.buckets[k][n]
            g  == [h EXCEPT !.buckets[k] = RemoveAt(@, n)]
            at == Position(h.blocks, v)
        IN  IF ~Linked(h.blocks, v)       THEN [g EXCEPT !.fault = "wild"]
            ELSE IF at = Len(h.blocks)    THEN [g EXCEPT !.fault = "null"]
            ELSE [g EXCEPT !.blocks = RemoveAt(@, at + 1),
                           !.head = IF at + 1 = Len(h.blocks)
                                    THEN h.blocks[1].id ELSE h.blocks[at + 2].id]
  IN  {IF n = 0 THEN h ELSE Removed(n) : n \in hashmap_remove(h, k, ptr)}

-----------------------------------------------------------------------------
(* When the table can be read.  A key of it is the offset of a block, or   *)
(* the address of the struct of a block that another one was put in front  *)
(* of, which is then not at offset 0.                                      *)

Offsets(h) == {h.blocks[n].ptr : n \in DOMAIN h.blocks}

StructKeys(h, hs) ==
  {hs[h.blocks[n].id] : n \in {m \in DOMAIN h.blocks : h.blocks[m].ptr # 0}}

(* The linked blocks have keys with buckets of their own, and none but the *)
(* dummy is empty.                                                         *)
Apart(h, hs) ==
  /\ \A n \in DOMAIN h.blocks : n # 1 => h.blocks[n].size # 0
  /\ \A x, y \in Offsets(h) : x % NumBuckets = y % NumBuckets => x = y
  /\ \A x \in Offsets(h) : x % NumBuckets \notin StructKeys(h, hs)

Legible == \A p \in PE : Apart(heap[p], hash[p])

-----------------------------------------------------------------------------
Running == calls < MaxCalls /\ \A p \in PE : heap[p].fault = "none"

(* shmem_malloc(bytes) on every PE *)
Malloc(bytes) ==
  LET results == [p \in PE |-> heap_malloc(heap[p], hash[p], bytes)]
  IN  /\ Running
      /\ \E r \in {f \in [PE -> UNION {results[p] : p \in PE}] :
                     \A p \in PE : f[p] \in results[p]} :
           /\ heap' = [p \in PE |-> r[p].heap]
           /\ held' = held \cup
                {a \in {[call |-> calls, size |-> bytes, ptr |-> [p \in PE |-> r[p].ptr]]} :
                   \E p \in PE : a.ptr[p] # NULL}
      /\ calls' = calls + 1
      /\ UNCHANGED hash
      /\ legible' = (legible /\ Legible')

(* shmem_free of an allocation the program holds *)
Free(a) ==
  LET results == [p \in PE |-> IF a.ptr[p] = NULL THEN {heap[p]}
                               ELSE heap_free(heap[p], a.ptr[p])]
  IN  /\ Running
      /\ heap' \in {f \in [PE -> UNION {results[p] : p \in PE}] :
                      \A p \in PE : f[p] \in results[p]}
      /\ held' = held \ {a}
      /\ calls' = calls + 1
      /\ UNCHANGED hash
      /\ legible' = (legible /\ Legible')

Stopped == ~Running /\ UNCHANGED vars

Next ==
  \/ \E bytes \in Sizes : Malloc(bytes)
  \/ \E a \in held : Free(a)
  \/ Stopped

Spec == Init /\ [][Next]_vars

-----------------------------------------------------------------------------
(* Properties *)

(* The blocks lie in the region in list order and do not overlap, whatever *)
(* the table does to the order of frees: the gaps heap_malloc computes     *)
(* (heap.c:15, 83) are gaps, and no size_t difference wraps.               *)
BlocksDisjoint ==
  \A p \in PE :
    LET blocks == heap[p].blocks
    IN  \A m, n \in DOMAIN blocks :
          /\ BLOCK_END(blocks[m]) <= HeapSize
          /\ m < n => BLOCK_END(blocks[m]) <= blocks[n].ptr

(* The next-fit search of heap_malloc starts at a block of the list, so it *)
(* comes back to its start and ends (heap.c:83-87): whatever block the     *)
(* table makes heap_free take out, also the one the last search stopped    *)
(* at, heap->head is never left pointing to it (heap.c:125-128).           *)
HeadLinked == \A p \in PE : Linked(heap[p].blocks, heap[p].head)

(* Memory the program holds is not given out again: two allocations it has *)
(* not freed share no byte on any PE (heap.c:74-129).  shmem.h:141 says of *)
(* shmem_free: "Free up a block of memory".                                *)
LiveDisjoint ==
  \A a, b \in held : a # b =>
    \A p \in PE : (a.ptr[p] # NULL /\ b.ptr[p] # NULL) =>
      \/ a.ptr[p] + a.size <= b.ptr[p]
      \/ b.ptr[p] + b.size <= a.ptr[p]

(* As long as the keys of the blocks that are linked have had buckets of   *)
(* their own, memory the program holds is not given out again, although    *)
(* heap_free looks for a block under its predecessor's offset              *)
(* (hashmap.c:126) and the table keeps nodes of structs that are freed.    *)
LegibleLive == legible => LiveDisjoint

(* The heap is symmetric: as long as that is so and no process has         *)
(* crashed, an allocation has the same offset on every PE, which is what a *)
(* put computes the remote address from (shmem.c:114), although the struct *)
(* addresses that are keys, and what reads of freed structs return, differ *)
(* from process to process.                                                *)
SameOffset ==
  (legible /\ \A p \in PE : heap[p].fault = "none") =>
    \A a \in held : \A p, q \in PE : a.ptr[p] = a.ptr[q]

(* What the program has freed can be allocated again: the blocks of a PE   *)
(* that has not crashed are those of allocations the program holds.        *)
(* test/shmem_heap.c:55 frees "an integer located in the middle of the     *)
(* heap" and expects to get it back.                                       *)
NothingLeaked ==
  \A p \in PE : heap[p].fault = "none" =>
    \A n \in DOMAIN heap[p].blocks :
      n # 1 => \E a \in held : a.ptr[p] = heap[p].blocks[n].ptr
=============================================================================
