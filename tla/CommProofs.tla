----------------------------- MODULE CommProofs ------------------------------
(***************************************************************************)
(* Type correctness of the running library (module Comm) for any number of *)
(* PEs, any placement that wireup connects (WiringAssumption), any         *)
(* program, any capacity of the sockets, with and without split reads, and *)
(* the facts about its queues that the later proofs of this module family  *)
(* use.                                                                    *)
(*                                                                         *)
(* TypeOK is not inductive: that arrived stays within the bound and that a *)
(* call is there to return from needs CallInv, and that the barrier's loop *)
(* variable is a leaf when the root resets a slot needs LoopInv. ProgInv   *)
(* and WorkInv carry the assumption on programs, that they do not write    *)
(* __pSync, to the jobs made from their calls.                             *)
(***************************************************************************)
EXTENDS Comm, SequenceTheorems, TLAPS

(* The calls of a program that name memory.                                *)
UserOps == {"store", "put", "put_nbi", "get", "get_nbi"}

(* The PEs, the leaves among them, and their slots of __pSync.             *)
LEMMA PEFacts ==
  /\ N \in Nat /\ MaxRounds \in Nat /\ SockCap \in Nat
  /\ 0 \in PE
  /\ \A k \in PE : k \in Nat /\ k \in Addr
  /\ \A k \in PE : k # 0 <=> k \in Leaves
  /\ \A k \in Leaves : k \in PE /\ k # 0 /\ k \in Nat /\ k < N /\ 1 <= k
  /\ \A j \in 1 .. N : j < N => j \in Leaves
BY CommAssumption DEF PE, Leaves, Addr

(* A job made from a packet is told from one of the own main thread by its *)
(* fields (work.c: work_put, work_put_remote).                             *)
LEMMA JobKinds ==
  /\ \A job \in OwnJob : "src" \in DOMAIN job /\ "data_buf" \notin DOMAIN job
  /\ \A job \in PacketJob : "src" \notin DOMAIN job /\ "data_buf" \in DOMAIN job /\ job.handler # "GET"
BY DEF OwnJob, PacketJob

(* Taking the first element off a queue.                                   *)
LEMMA QueueFacts ==
  ASSUME NEW S, NEW s \in Seq(S), s # << >>
  PROVE  /\ Head(s) \in S /\ Head(s) = s[1] /\ 1 \in DOMAIN s
         /\ Tail(s) \in Seq(S) /\ Len(s) \in Nat /\ Len(Tail(s)) = Len(s) - 1
         /\ DOMAIN s = 1 .. Len(s)
         /\ DOMAIN Tail(s) = 1 .. Len(s) - 1
         /\ \A n \in DOMAIN Tail(s) : n + 1 \in DOMAIN s /\ Tail(s)[n] = s[n + 1]
<1>1. Len(s) \in Nat \ {0} /\ DOMAIN s = 1 .. Len(s)
  BY EmptySeq, LenProperties
<1>2. /\ Head(s) \in S /\ Tail(s) \in Seq(S) /\ Len(Tail(s)) = Len(s) - 1
      /\ \A n \in 1 .. Len(Tail(s)) : Tail(s)[n] = s[n + 1]
  BY HeadTailProperties
<1>3. Head(s) = s[1]
  OBVIOUS
<1>4. DOMAIN Tail(s) = 1 .. Len(Tail(s))
  BY <1>2, LenProperties
<1> QED BY <1>1, <1>2, <1>3, <1>4

(* Adding an element at the end of a queue.                                *)
LEMMA AppendFacts ==
  ASSUME NEW S, NEW s \in Seq(S), NEW e \in S
  PROVE  /\ Append(s, e) \in Seq(S) /\ Len(s) \in Nat /\ Len(Append(s, e)) = Len(s) + 1
         /\ DOMAIN s = 1 .. Len(s) /\ DOMAIN Append(s, e) = 1 .. Len(s) + 1
         /\ \A n \in DOMAIN s : Append(s, e)[n] = s[n]
         /\ Append(s, e)[Len(s) + 1] = e
<1>1. Len(s) \in Nat /\ DOMAIN s = 1 .. Len(s)
  BY LenProperties
<1>2. /\ Append(s, e) \in Seq(S) /\ Len(Append(s, e)) = Len(s) + 1
      /\ \A n \in 1 .. Len(s) : Append(s, e)[n] = s[n]
      /\ Append(s, e)[Len(s) + 1] = e
  BY AppendProperties
<1>3. DOMAIN Append(s, e) = 1 .. Len(Append(s, e))
  BY <1>2, LenProperties
<1> QED BY <1>1, <1>2, <1>3

(* Dropping the first m elements: a read from a socket.                    *)
LEMMA SuffixFacts ==
  ASSUME NEW S, NEW s \in Seq(S), NEW m \in Nat, m <= Len(s)
  PROVE  /\ SubSeq(s, m + 1, Len(s)) \in Seq(S)
         /\ Len(s) \in Nat /\ DOMAIN s = 1 .. Len(s)
         /\ Len(SubSeq(s, m + 1, Len(s))) = Len(s) - m
         /\ DOMAIN SubSeq(s, m + 1, Len(s)) = 1 .. Len(s) - m
         /\ \A n \in DOMAIN SubSeq(s, m + 1, Len(s)) :
              n + m \in DOMAIN s /\ SubSeq(s, m + 1, Len(s))[n] = s[n + m]
<1>1. Len(s) \in Nat /\ DOMAIN s = 1 .. Len(s) /\ \A n \in 1 .. Len(s) : s[n] \in S
  BY LenProperties, ElementOfSeq
<1> DEFINE t == SubSeq(s, m + 1, Len(s))
<1>2. /\ t \in Seq(S) /\ Len(t) = Len(s) - m
      /\ \A n \in 1 .. Len(s) - m : t[n] = s[n + m]
  <2> DEFINE a == m + 1  b == Len(s)
  <2>1. a \in Int /\ b \in Int /\ \A n \in a .. b : s[n] \in S
    BY <1>1
  <2> HIDE DEF a, b
  <2>2. /\ SubSeq(s, a, b) \in Seq(S)
        /\ Len(SubSeq(s, a, b)) = IF a <= b THEN b - a + 1 ELSE 0
        /\ \A n \in 1 .. b - a + 1 : SubSeq(s, a, b)[n] = s[a + n - 1]
    BY <2>1, SubSeqProperties
  <2>3. b - a + 1 = Len(s) - m /\ (IF a <= b THEN b - a + 1 ELSE 0) = Len(s) - m
    <3>1. ASSUME NEW l \in Nat, m <= l
          PROVE  /\ l - (m + 1) + 1 = l - m
                 /\ m + 1 <= l => l - (m + 1) + 1 = l - m
                 /\ ~(m + 1 <= l) => 0 = l - m
      BY <3>1, SMTT(60)
    <3>2. /\ b - a + 1 = Len(s) - m
          /\ a <= b => b - a + 1 = Len(s) - m
          /\ ~(a <= b) => 0 = Len(s) - m
      BY <1>1, <3>1 DEF a, b
    <3> QED BY <3>2
  <2>4. \A n \in 1 .. Len(s) - m : a + n - 1 = n + m
    BY <1>1 DEF a
  <2> QED BY <2>2, <2>3, <2>4 DEF a, b
<1> HIDE DEF t
<1>3. DOMAIN t = 1 .. Len(s) - m
  BY <1>2, LenProperties
<1> QED BY <1>1, <1>2, <1>3, SMTT(60) DEF t

(* The types of TypeOK, by name.                                           *)
Value   == Nat \cup {Garbage}
MemType == [PE -> [Addr -> Value]]
Entry   == [pe : PE, packet : Put]
Cell    == [part : 1 .. 3, packet : Put]
Job     == OwnJob \cup PacketJob
LogType == [PE -> [PE -> Seq(Put)]]

(* Programs and the jobs made from their calls do not name __pSync. *)
ProgInv ==
  \A p \in PE : \A n \in DOMAIN prog[p] :
    prog[p][n].op \in UserOps => prog[p][n].dest \notin PE

WorkInv ==
  \A p \in PE : \A n \in DOMAIN work_queue[p] :
    work_queue[p][n] \in OwnJob => work_queue[p][n].dest \notin PE

(* The root resets a leaf's slot; only the root releases.                  *)
LoopInv ==
  /\ pc[0] = "reset" => i < N
  /\ \A k \in Leaves : pc[k] # "release"

(* 1 if b, 0 if not.                                                       *)
Bit(b) == IF b THEN 1 ELSE 0

(* p is within comm_barrier_all.                                           *)
Inside(p) == pc[p] \in {"poll", "reset", "release"}

(* A call that is under way is still the first of the program, and a       *)
(* barrier has been called once more often than returned from exactly      *)
(* while it is under way.                                                  *)
CallOK(p) ==
  /\ pc[p] # "call" => prog[p] # << >>
  /\ arrived[p] = left[p] + Bit(Inside(p))

CallInv == \A p \in PE : CallOK(p)

(* The inductive invariant.                                                *)
TInv == TypeOK /\ ProgInv /\ WorkInv /\ LoopInv /\ CallInv

(* What TypeOK says of memory, counters and the loop variable.             *)
LEMMA TypeFacts ==
  ASSUME TypeOK
  PROVE  /\ mem \in MemType /\ \A p \in PE : \A a \in Addr : mem[p][a] \in Value
         /\ arrived \in [PE -> 0 .. MaxRounds] /\ left \in [PE -> 0 .. MaxRounds]
         /\ \A p \in PE : arrived[p] \in Nat /\ arrived[p] <= MaxRounds /\ left[p] \in Nat
         /\ i \in Nat /\ 1 <= i /\ i <= N
         /\ i < N => i \in Leaves /\ i \in PE /\ i \in Addr /\ i + 1 \in 1 .. N
<1>1. mem \in MemType /\ \A p \in PE : \A a \in Addr : mem[p][a] \in Value
  <2>1. mem \in MemType
    BY DEF TypeOK, MemType, Value
  <2> QED BY <2>1 DEF MemType
<1>2. arrived \in [PE -> 0 .. MaxRounds] /\ left \in [PE -> 0 .. MaxRounds] /\ i \in 1 .. N
  BY DEF TypeOK
<1>3. \A x \in 0 .. MaxRounds : x \in Nat /\ x <= MaxRounds
  BY PEFacts
<1>4. \A p \in PE : arrived[p] \in Nat /\ arrived[p] <= MaxRounds /\ left[p] \in Nat
  BY <1>2, <1>3
<1>5. i \in Nat /\ 1 <= i /\ i <= N /\ (i < N => i \in Leaves /\ i + 1 \in 1 .. N)
  BY <1>2, PEFacts
<1> QED BY <1>1, <1>2, <1>4, <1>5, PEFacts

(* comm_put, to a PE of the same host or another, keeps the types.         *)
LEMMA IssueType ==
  ASSUME TypeOK, NEW p \in PE, NEW q \in PE, NEW a \in Addr, NEW v \in Value, Issue(p, q, a, v)
  PROVE  mem' \in MemType /\ queue_send' \in [PE -> Seq(Entry)] /\ issued' \in LogType /\ landed' \in LogType
<1> DEFINE put == [dest |-> a, val |-> v, round |-> arrived[p], seq |-> Len(issued[p][q]) + 1]
<1>1. put \in Put
  <2>1. issued[p][q] \in Seq(Put)
    BY DEF TypeOK
  <2>2. Len(issued[p][q]) + 1 \in Nat
    BY <2>1, LenProperties
  <2>3. arrived[p] \in 0 .. MaxRounds
    BY DEF TypeOK
  <2> QED BY <2>2, <2>3 DEF Put, Value
<1>2. /\ mem \in MemType /\ queue_send \in [PE -> Seq(Entry)]
      /\ issued \in LogType /\ landed \in LogType
  BY DEF TypeOK, MemType, Entry, LogType, Value
<1>3. /\ comm_put(p, q, put)
      /\ issued' = [issued EXCEPT ![p][q] = Append(@, put)]
      /\ landed' = IF Local(p, q) THEN [landed EXCEPT ![p][q] = Append(@, put)] ELSE landed
  BY DEF Issue
<1>4. put.dest = a /\ put.val = v /\ [pe |-> q, packet |-> put] \in Entry
  BY <1>1 DEF Entry
<1> HIDE DEF put
<1>5. issued' \in LogType
  BY <1>1, <1>2, <1>3, AppendFacts, SMTT(60) DEF LogType
<1>6. landed' \in LogType
  BY <1>1, <1>2, <1>3, AppendFacts, SMTT(60) DEF LogType
<1>7. CASE Local(p, q)
  <2>1. mem' = [mem EXCEPT ![q][a] = v] /\ queue_send' = queue_send
    BY <1>3, <1>4, <1>7 DEF comm_put, comm_local_put
  <2> QED BY <1>2, <1>5, <1>6, <2>1 DEF MemType
<1>8. CASE ~Local(p, q)
  <2>1. mem' = mem /\ queue_send' = [queue_send EXCEPT ![p] = Append(@, [pe |-> q, packet |-> put])]
    BY <1>3, <1>8 DEF comm_put, comm_remote_put, comm_thread_enqueue
  <2> QED BY <1>2, <1>4, <1>5, <1>6, <2>1, AppendFacts
<1> QED BY <1>7, <1>8

(* The next call of a program: its arguments, and the rest of the program. *)
LEMMA CallFacts ==
  ASSUME TInv, NEW p \in PE, prog[p] # << >>
  PROVE  /\ Head(prog[p]) \in Call /\ Head(prog[p]).dest \in Addr
         /\ Head(prog[p]).src \in Addr /\ Head(prog[p]).pe \in PE
         /\ Head(prog[p]).op \in UserOps => Head(prog[p]).dest \notin PE
         /\ Tail(prog[p]) \in Seq(Call)
         /\ \A n \in DOMAIN Tail(prog[p]) :
              Tail(prog[p])[n].op \in UserOps => Tail(prog[p])[n].dest \notin PE
<1>1. prog[p] \in Seq(Call)
  BY DEF TInv, TypeOK
<1>2. /\ Head(prog[p]) \in Call /\ Tail(prog[p]) \in Seq(Call)
      /\ Head(prog[p]) = prog[p][1] /\ 1 \in DOMAIN prog[p]
      /\ \A n \in DOMAIN Tail(prog[p]) : n + 1 \in DOMAIN prog[p] /\ Tail(prog[p])[n] = prog[p][n + 1]
  BY <1>1, QueueFacts
<1>3. \A n \in DOMAIN prog[p] : prog[p][n].op \in UserOps => prog[p][n].dest \notin PE
  BY DEF TInv, ProgInv
<1>4. /\ Head(prog[p]).dest \in Addr /\ Head(prog[p]).src \in Addr /\ Head(prog[p]).pe \in PE
  BY <1>2 DEF Call
<1>5. Head(prog[p]).op \in UserOps => Head(prog[p]).dest \notin PE
  BY <1>2, <1>3
<1>6. \A n \in DOMAIN Tail(prog[p]) :
        Tail(prog[p])[n].op \in UserOps => Tail(prog[p])[n].dest \notin PE
  BY <1>2, <1>3
<1> QED BY <1>2, <1>4, <1>5, <1>6

(* Returning from a call leaves a program.                                 *)
LEMMA ReturnsType ==
  ASSUME TInv, NEW p \in PE, prog[p] # << >>, Returns(p)
  PROVE  /\ prog' \in [PE -> Seq(Call)]
         /\ ProgInv'
<1>1. prog \in [PE -> Seq(Call)] /\ prog' = [prog EXCEPT ![p] = Tail(prog[p])]
  BY DEF TInv, TypeOK, Returns
<1>2. \A q \in PE : \A n \in DOMAIN prog[q] :
              prog[q][n].op \in UserOps => prog[q][n].dest \notin PE
  BY DEF TInv, ProgInv
<1>3. Tail(prog[p]) \in Seq(Call) /\ \A n \in DOMAIN Tail(prog[p]) :
        Tail(prog[p])[n].op \in UserOps => Tail(prog[p])[n].dest \notin PE
  BY CallFacts
<1>4. prog' \in [PE -> Seq(Call)]
  BY <1>1, <1>3
<1>5. \A q \in PE : prog'[q] = IF q = p THEN Tail(prog[p]) ELSE prog[q]
  BY <1>1
<1> QED BY <1>2, <1>3, <1>4, <1>5 DEF ProgInv

(* work_thread_enqueue keeps the types, and jobs of user calls off         *)
(* __pSync.                                                                *)
LEMMA WorkType ==
  ASSUME TInv, NEW p \in PE, NEW job \in Job, job \in OwnJob => job.dest \notin PE,
         work_thread_enqueue(p, job)
  PROVE  work_queue' \in [PE -> Seq(Job)] /\ WorkInv'
<1>1. work_queue \in [PE -> Seq(Job)] /\ work_queue' = [work_queue EXCEPT ![p] = Append(work_queue[p], job)]
  BY DEF TInv, TypeOK, Job, work_thread_enqueue
<1> DEFINE s == work_queue[p]
<1>2. s \in Seq(Job)
  BY <1>1
<1>3. /\ Append(s, job) \in Seq(Job)
      /\ Len(s) \in Nat /\ DOMAIN s = 1 .. Len(s) /\ DOMAIN Append(s, job) = 1 .. Len(s) + 1
      /\ \A n \in DOMAIN s : Append(s, job)[n] = s[n]
      /\ Append(s, job)[Len(s) + 1] = job
  BY <1>2, AppendFacts
<1>4. work_queue' \in [PE -> Seq(Job)]
  BY <1>1, <1>3
<1>5. ASSUME NEW q \in PE, NEW n \in DOMAIN work_queue'[q], work_queue'[q][n] \in OwnJob
      PROVE  work_queue'[q][n].dest \notin PE
  <2>1. CASE q # p
    BY <1>1, <1>5, <2>1 DEF TInv, WorkInv
  <2>2. CASE q = p
    <3>1. work_queue'[q] = Append(s, job)
      BY <1>1, <2>2
    <3>2. n \in 1 .. Len(s) + 1
      BY <1>3, <3>1
    <3>3. CASE n = Len(s) + 1
      BY <1>3, <1>5, <3>1, <3>3
    <3>4. CASE n # Len(s) + 1
      <4>1. n \in DOMAIN s
        BY <1>3, <3>2, <3>4
      <4> QED BY <1>3, <1>5, <3>1, <4>1 DEF TInv, WorkInv
    <3> QED BY <3>3, <3>4
  <2> QED BY <2>1, <2>2
<1> QED BY <1>4, <1>5 DEF WorkInv

(* CallInv after a step of p, when the others stay where they are.         *)
LEMMA KeepsCallInv ==
  ASSUME TInv, NEW p \in PE, CallOK(p)',
         \A q \in PE \ {p} : /\ pc'[q] = pc[q] /\ prog'[q] = prog[q]
                            /\ arrived'[q] = arrived[q] /\ left'[q] = left[q]
  PROVE  CallInv'
<1>1. ASSUME NEW q \in PE \ {p} PROVE CallOK(q)'
  BY <1>1 DEF TInv, CallInv, CallOK, Inside, Bit
<1> QED BY <1>1 DEF CallInv

(* CallInv after a call that is over in one step.                          *)
LEMMA ReturnsCallInv ==
  ASSUME TInv, NEW p \in PE, pc[p] = "call", Returns(p), UNCHANGED <<pc, arrived, left>>
  PROVE  CallInv'
<1>1. CallOK(p)'
  BY DEF TInv, CallInv, CallOK, Inside, Bit
<1>2. prog' = [prog EXCEPT ![p] = Tail(prog[p])] /\ prog \in [PE -> Seq(Call)]
  BY DEF Returns, TInv, TypeOK
<1> QED BY <1>1, <1>2, KeepsCallInv

(* CallInv after a step within the barrier.                                *)
LEMMA InsideCallInv ==
  ASSUME TInv, NEW p \in PE, Inside(p), Inside(p)', \A q \in PE \ {p} : pc'[q] = pc[q],
         UNCHANGED <<prog, arrived, left>>
  PROVE  CallInv'
<1>1. CallOK(p)'
  <2>1. prog[p] # << >>
    BY DEF TInv, CallInv, CallOK, Inside
  <2> QED BY <2>1 DEF TInv, CallInv, CallOK, Bit
<1> QED BY <1>1, KeepsCallInv

(* A store of the program keeps TInv.                                      *)
LEMMA StoreType == ASSUME TInv, NEW p \in PE, Store(p) PROVE TInv'
<1> DEFINE a == Head(prog[p]).dest
<1>1. prog[p] # << >> /\ Returns(p) /\ mem' = [mem EXCEPT ![p][a] = mem[p][a] + 1]
      /\ UNCHANGED <<host, pc, i, finished, arrived, left, queueVars, threads, logs>>
  BY DEF Store, Calls
<1>2. prog' \in [PE -> Seq(Call)] /\ ProgInv' /\ a \in Addr
  BY <1>1, ReturnsType, CallFacts
<1> HIDE DEF a
<1>3. mem' \in MemType
  <2>1. mem \in MemType
    BY DEF TInv, TypeOK, MemType, Value
  <2>2. mem[p][a] \in Value
    BY <1>2, <2>1 DEF MemType
  <2>3. mem[p][a] + 1 \in Value
    BY <2>2 DEF Value, Garbage
  <2> QED BY <1>1, <1>2, <2>1, <2>3 DEF MemType
<1>4. CallInv'
  BY <1>1, ReturnsCallInv DEF Store, Calls
<1> QED BY <1>1, <1>2, <1>3, <1>4
        DEF TInv, TypeOK, WorkInv, LoopInv, MemType, Value, queueVars, threads, logs

(* shmem_putmem keeps TInv.                                                *)
LEMMA PutType == ASSUME TInv, NEW p \in PE, shmem_putmem(p) PROVE TInv'
<1> DEFINE c == Head(prog[p])
<1>1. /\ prog[p] # << >> /\ pc[p] = "call" /\ Returns(p) /\ Issue(p, c.pe, c.dest, mem[p][c.src])
      /\ UNCHANGED <<host, pc, i, finished, arrived, left, wire, work_queue, threads>>
  BY DEF shmem_putmem, Calls
<1>2. prog' \in [PE -> Seq(Call)] /\ ProgInv' /\ c.dest \in Addr /\ c.src \in Addr /\ c.pe \in PE
  BY <1>1, ReturnsType, CallFacts
<1>3. CallInv'
  BY <1>1, ReturnsCallInv
<1> HIDE DEF c
<1>4. TypeOK /\ mem[p][c.src] \in Value
  BY <1>2, TypeFacts DEF TInv
<1>5. mem' \in MemType /\ queue_send' \in [PE -> Seq(Entry)] /\ issued' \in LogType /\ landed' \in LogType
  BY <1>1, <1>2, <1>4, IssueType
<1> QED BY <1>1, <1>2, <1>3, <1>5
        DEF TInv, TypeOK, WorkInv, LoopInv, MemType, Value, Entry, LogType, threads

(* shmem_getmem keeps TInv.                                                *)
LEMMA GetType == ASSUME TInv, NEW p \in PE, shmem_getmem(p) PROVE TInv'
<1> DEFINE c == Head(prog[p])
<1>1. /\ prog[p] # << >> /\ pc[p] = "call" /\ Returns(p) /\ comm_get(p, c.pe, c.dest, c.src)
      /\ UNCHANGED <<host, pc, i, finished, arrived, left, queueVars, threads, logs>>
  BY DEF shmem_getmem, Calls
<1>2. prog' \in [PE -> Seq(Call)] /\ ProgInv' /\ c.dest \in Addr /\ c.src \in Addr /\ c.pe \in PE
  BY <1>1, ReturnsType, CallFacts
<1>3. CallInv'
  BY <1>1, ReturnsCallInv
<1> DEFINE a == c.dest  v == mem[c.pe][c.src]
<1>4. mem' = mem \/ mem' = [mem EXCEPT ![p][a] = v]
  BY <1>1 DEF comm_get, comm_local_get, comm_remote_get
<1>5. mem \in MemType /\ v \in Value /\ a \in Addr
  BY <1>2, TypeFacts DEF TInv
<1> HIDE DEF c, a, v
<1>6. mem' \in MemType
  BY <1>4, <1>5 DEF MemType
<1> QED BY <1>1, <1>2, <1>3, <1>6
        DEF TInv, TypeOK, WorkInv, LoopInv, MemType, Value, queueVars, threads, logs

(* The non-blocking calls keep TInv.                                       *)
LEMMA NbiType == ASSUME TInv, NEW p \in PE, shmem_nbi(p) PROVE TInv'
<1> DEFINE c == Head(prog[p])
           job == [handler |-> NbiHandler[c.op], origin_pe |-> p, dest_pe |-> c.pe,
                   dest |-> c.dest, src |-> c.src]
<1>1. /\ prog[p] # << >> /\ pc[p] = "call" /\ Returns(p) /\ c.op \in {"put_nbi", "get_nbi"}
      /\ work_thread_enqueue(p, job)
      /\ UNCHANGED <<host, pc, i, finished, arrived, left, mem, queue_send, wire, threads, logs>>
  BY DEF shmem_nbi, Calls, NbiHandler, work_put
<1>2. /\ prog' \in [PE -> Seq(Call)] /\ ProgInv'
      /\ c.dest \in Addr /\ c.src \in Addr /\ c.pe \in PE /\ c.dest \notin PE
  BY <1>1, ReturnsType, CallFacts DEF UserOps
<1>3. NbiHandler[c.op] \in {"PUT", "GET"}
  BY <1>1 DEF NbiHandler
<1>4. job \in OwnJob /\ job.dest = c.dest
  BY <1>2, <1>3 DEF OwnJob
<1>5. work_queue' \in [PE -> Seq(Job)] /\ WorkInv'
  BY <1>1, <1>2, <1>4, WorkType DEF Job
<1>6. CallInv'
  BY <1>1, ReturnsCallInv
<1> QED BY <1>1, <1>2, <1>5, <1>6 DEF TInv, TypeOK, LoopInv, Job, threads, logs

(* shmem_quiet, and the calls of comm_finalize that stop no thread, keep   *)
(* TInv.                                                                   *)
LEMMA QuietType ==
  ASSUME TInv, NEW p \in PE, shmem_quiet(p) \/ Release(p)
  PROVE  TInv'
<1>1. /\ prog[p] # << >> /\ pc[p] = "call" /\ Returns(p)
      /\ UNCHANGED <<host, pc, i, finished, arrived, left, mem, queueVars, threads, logs>>
  BY DEF shmem_quiet, Release, Calls
<1>2. prog' \in [PE -> Seq(Call)] /\ ProgInv'
  BY <1>1, ReturnsType
<1>3. CallInv'
  BY <1>1, ReturnsCallInv
<1> QED BY <1>1, <1>2, <1>3 DEF TInv, TypeOK, WorkInv, LoopInv, queueVars, threads, logs

(* Entering comm_barrier_all keeps the types and CallInv.                  *)
LEMMA BarrierCallType ==
  ASSUME TInv, NEW p \in PE, BarrierCall(p), UNCHANGED <<prog, left>>
  PROVE  /\ pc' \in [PE -> {"call", "poll", "reset", "release", "join"}]
         /\ arrived' \in [PE -> 0 .. MaxRounds]
         /\ CallInv'
<1>1. /\ pc \in [PE -> {"call", "poll", "reset", "release", "join"}]
      /\ arrived \in [PE -> 0 .. MaxRounds] /\ arrived[p] \in Nat /\ left[p] \in Nat
  BY TypeFacts DEF TInv, TypeOK
<1>2. /\ pc[p] = "call" /\ prog[p] # << >> /\ arrived[p] < MaxRounds
      /\ pc' = [pc EXCEPT ![p] = "poll"] /\ arrived' = [arrived EXCEPT ![p] = arrived[p] + 1]
  BY DEF BarrierCall, Calls
<1>3. arrived[p] + 1 \in 0 .. MaxRounds
  BY <1>1, <1>2, PEFacts
<1>4. arrived' \in [PE -> 0 .. MaxRounds]
  BY <1>1, <1>2, <1>3
<1>5. CallOK(p)'
  BY <1>1, <1>2 DEF TInv, CallInv, CallOK, Inside, Bit
<1>6. CallInv'
  BY <1>1, <1>2, <1>5, KeepsCallInv
<1> QED BY <1>1, <1>2, <1>4, <1>6

(* Returning from comm_barrier_all keeps the types and CallInv.            *)
LEMMA BarrierReturnType ==
  ASSUME TInv, NEW p \in PE, Inside(p), BarrierReturn(p), UNCHANGED arrived
  PROVE  /\ pc' \in [PE -> {"call", "poll", "reset", "release", "join"}]
         /\ left' \in [PE -> 0 .. MaxRounds]
         /\ prog' \in [PE -> Seq(Call)] /\ ProgInv'
         /\ CallInv'
<1>1. /\ pc \in [PE -> {"call", "poll", "reset", "release", "join"}]
      /\ left \in [PE -> 0 .. MaxRounds] /\ left[p] \in Nat
      /\ arrived[p] \in Nat /\ arrived[p] <= MaxRounds
  BY TypeFacts DEF TInv, TypeOK
<1>2. /\ pc' = [pc EXCEPT ![p] = "call"] /\ left' = [left EXCEPT ![p] = left[p] + 1]
      /\ prog[p] # << >> /\ Returns(p) /\ arrived[p] = left[p] + 1
  BY DEF BarrierReturn, TInv, CallInv, CallOK, Inside, Bit
<1>3. left[p] + 1 \in 0 .. MaxRounds
  BY <1>1, <1>2, PEFacts
<1>4. left' \in [PE -> 0 .. MaxRounds]
  BY <1>1, <1>2, <1>3
<1>5. prog' \in [PE -> Seq(Call)] /\ ProgInv'
  BY <1>2, ReturnsType
<1>6. CallInv'
  <2>1. prog \in [PE -> Seq(Call)] /\ prog' = [prog EXCEPT ![p] = Tail(prog[p])]
    BY <1>2 DEF Returns, TInv, TypeOK
  <2>2. CallOK(p)'
    BY <1>1, <1>2 DEF CallOK, Inside, Bit
  <2> QED BY <1>1, <1>2, <2>1, <2>2, KeepsCallInv
<1> QED BY <1>1, <1>2, <1>4, <1>5, <1>6

(* Every step of PE 0 within comm_barrier_all keeps TInv.                  *)
LEMMA RootType ==
  ASSUME TInv, \/ RootEnter \/ RootPoll \/ RootReset \/ RootGathered \/ RootRelease \/ RootReturn
  PROVE  TInv'
<1>0. 0 \in PE /\ 1 \in 1 .. N /\ 1 \in Value /\ 0 \in Value /\ N \in Nat /\ TypeOK
      /\ \A k \in Leaves : k # 0 /\ k \in PE
  BY CommAssumption, PEFacts DEF Value, TInv
<1>1. CASE RootEnter
  <2>1. BarrierCall(0) /\ UNCHANGED <<prog, left>> /\ i' = 1
        /\ UNCHANGED <<host, prog, finished, left, mem, queueVars, threads, logs>>
    BY <1>1 DEF RootEnter
  <2>2. /\ pc' \in [PE -> {"call", "poll", "reset", "release", "join"}]
        /\ arrived' \in [PE -> 0 .. MaxRounds] /\ CallInv'
    BY <1>0, <2>1, BarrierCallType
  <2>3. LoopInv'
    BY <1>0, <2>1 DEF BarrierCall, LoopInv, TInv, TypeOK
  <2> QED BY <1>0, <2>1, <2>2, <2>3 DEF TInv, TypeOK, ProgInv, WorkInv, queueVars, threads, logs
<1>2. CASE RootPoll
  <2>1. CallInv'
    BY <1>0, <1>2, InsideCallInv DEF RootPoll, TInv, TypeOK, Inside
  <2> QED BY <1>0, <1>2, <2>1
          DEF RootPoll, TInv, TypeOK, ProgInv, WorkInv, LoopInv, queueVars, threads, logs
<1>3. CASE RootReset
  <2>1. i \in Addr /\ i + 1 \in 1 .. N /\ mem \in MemType
    BY <1>0, <1>3, TypeFacts DEF RootReset, TInv, LoopInv
  <2>2. mem' \in MemType
    BY <1>0, <1>3, <2>1 DEF RootReset, MemType
  <2>3. CallInv'
    BY <1>0, <1>3, InsideCallInv DEF RootReset, TInv, TypeOK, Inside
  <2>4. LoopInv'
    BY <1>0, <1>3 DEF RootReset, TInv, TypeOK, LoopInv
  <2> QED BY <1>3, <2>1, <2>2, <2>3, <2>4
          DEF RootReset, TInv, TypeOK, ProgInv, WorkInv, MemType, Value, queueVars, threads, logs
<1>4. CASE RootGathered
  <2>1. CallInv'
    BY <1>0, <1>4, InsideCallInv DEF RootGathered, TInv, TypeOK, Inside
  <2>2. LoopInv'
    BY <1>0, <1>4 DEF RootGathered, TInv, TypeOK, LoopInv
  <2> QED BY <1>0, <1>4, <2>1, <2>2
          DEF RootGathered, TInv, TypeOK, ProgInv, WorkInv, queueVars, threads, logs
<1>5. CASE RootRelease
  <2>1. i \in PE /\ i \in Addr /\ i + 1 \in 1 .. N
    BY <1>0, <1>5, TypeFacts DEF RootRelease
  <2>2. mem' \in MemType /\ queue_send' \in [PE -> Seq(Entry)] /\ issued' \in LogType /\ landed' \in LogType
    BY <1>0, <1>5, <2>1, IssueType DEF RootRelease
  <2>3. CallInv' /\ LoopInv'
    BY <1>5 DEF RootRelease, TInv, TypeOK, CallInv, CallOK, LoopInv, Inside
  <2> QED BY <1>5, <2>1, <2>2, <2>3
          DEF RootRelease, TInv, TypeOK, ProgInv, WorkInv, MemType, Value, Entry, LogType, threads
<1>6. CASE RootReturn
  <2>1. /\ Inside(0) /\ BarrierReturn(0) /\ UNCHANGED arrived
        /\ UNCHANGED <<host, i, finished, arrived, mem, queueVars, threads, logs>>
    BY <1>6 DEF RootReturn, Inside
  <2>2. /\ pc' \in [PE -> {"call", "poll", "reset", "release", "join"}]
        /\ left' \in [PE -> 0 .. MaxRounds]
        /\ prog' \in [PE -> Seq(Call)] /\ ProgInv' /\ CallInv'
    BY <1>0, <2>1, BarrierReturnType
  <2>3. LoopInv'
    BY <1>0, <2>1 DEF BarrierReturn, LoopInv, TInv, TypeOK
  <2> QED BY <2>1, <2>2, <2>3 DEF TInv, TypeOK, WorkInv, queueVars, threads, logs
<1> QED BY <1>1, <1>2, <1>3, <1>4, <1>5, <1>6

(* Every step of another PE within comm_barrier_all keeps TInv.            *)
LEMMA LeafType ==
  ASSUME TInv, NEW k \in Leaves, LeafEnter(k) \/ LeafPoll(k) \/ LeafReset(k)
  PROVE  TInv'
<1>0. k \in PE /\ k # 0 /\ k \in Addr /\ 0 \in PE /\ 0 \in Value /\ 1 \in Value /\ TypeOK
      /\ \A j \in Leaves : j \in PE
  BY PEFacts DEF Value, TInv
<1>1. CASE LeafEnter(k)
  <2>1. /\ BarrierCall(k) /\ Issue(k, 0, k, 1) /\ UNCHANGED <<prog, left>>
        /\ UNCHANGED <<host, prog, i, finished, left, wire, work_queue, threads>>
    BY <1>1 DEF LeafEnter
  <2>2. /\ pc' \in [PE -> {"call", "poll", "reset", "release", "join"}]
        /\ arrived' \in [PE -> 0 .. MaxRounds] /\ CallInv'
    BY <1>0, <2>1, BarrierCallType
  <2>3. LoopInv'
    BY <1>0, <2>1 DEF BarrierCall, LoopInv, TInv, TypeOK
  <2>4. mem' \in MemType /\ queue_send' \in [PE -> Seq(Entry)] /\ issued' \in LogType /\ landed' \in LogType
    BY <1>0, <2>1, IssueType
  <2> QED BY <2>1, <2>2, <2>3, <2>4
          DEF TInv, TypeOK, ProgInv, WorkInv, MemType, Value, Entry, LogType, threads
<1>2. CASE LeafPoll(k)
  <2>1. CallInv'
    BY <1>0, <1>2, InsideCallInv DEF LeafPoll, TInv, TypeOK, Inside
  <2> QED BY <1>0, <1>2, <2>1
          DEF LeafPoll, TInv, TypeOK, ProgInv, WorkInv, LoopInv, queueVars, threads, logs
<1>3. CASE LeafReset(k)
  <2>1. /\ Inside(k) /\ BarrierReturn(k) /\ UNCHANGED arrived
        /\ mem' = [mem EXCEPT ![k][k] = 0]
        /\ UNCHANGED <<host, i, finished, arrived, queueVars, threads, logs>>
    BY <1>3 DEF LeafReset, Inside
  <2>2. /\ pc' \in [PE -> {"call", "poll", "reset", "release", "join"}]
        /\ left' \in [PE -> 0 .. MaxRounds]
        /\ prog' \in [PE -> Seq(Call)] /\ ProgInv' /\ CallInv'
    BY <1>0, <2>1, BarrierReturnType
  <2>3. LoopInv'
    BY <1>0, <2>1 DEF BarrierReturn, LoopInv, TInv, TypeOK
  <2>4. mem' \in MemType
    BY <1>0, <2>1, TypeFacts DEF MemType
  <2> QED BY <2>1, <2>2, <2>3, <2>4
          DEF TInv, TypeOK, WorkInv, MemType, Value, queueVars, threads, logs
<1> QED BY <1>1, <1>2, <1>3

(* work_finalize and comm_remote_finalize keep TInv.                       *)
LEMMA FinalizeType ==
  ASSUME TInv, NEW p \in PE, SetFinished(p) \/ Join(p)
  PROVE  TInv'
<1>0. TypeOK /\ 0 \in PE /\ \A k \in Leaves : k \in PE
  BY PEFacts DEF TInv
<1>1. CASE SetFinished(p)
  <2>1. /\ pc[p] = "call" /\ prog[p] # << >> /\ pc' = [pc EXCEPT ![p] = "join"]
        /\ finished' \in [PE -> SUBSET {"work", "comm"}]
        /\ UNCHANGED <<host, prog, i, arrived, left, mem, queueVars, threads, logs>>
    <3>1. finished' \in [PE -> SUBSET {"work", "comm"}]
      <4>1. /\ finished \in [PE -> SUBSET {"work", "comm"}]
            /\ \E f \in {"work", "comm"} : finished' = [finished EXCEPT ![p] = @ \cup {f}]
        BY <1>0, <1>1 DEF SetFinished, TypeOK
      <4>2. \A f \in {"work", "comm"} : finished[p] \cup {f} \in SUBSET {"work", "comm"}
        BY <4>1
      <4> QED BY <4>1, <4>2
    <3> QED BY <1>1, <3>1 DEF SetFinished, Calls
  <2>2. CallOK(p)'
    BY <1>0, <2>1 DEF CallOK, Inside, Bit, TInv, CallInv, TypeOK
  <2>3. CallInv'
    BY <1>0, <2>1, <2>2, KeepsCallInv DEF TypeOK
  <2>4. LoopInv'
    BY <1>0, <2>1 DEF LoopInv, TInv, TypeOK
  <2> QED BY <2>1, <2>3, <2>4 DEF TInv, TypeOK, ProgInv, WorkInv, queueVars, threads, logs
<1>2. CASE Join(p)
  <2>1. /\ pc[p] = "join" /\ pc' = [pc EXCEPT ![p] = "call"] /\ Returns(p)
        /\ UNCHANGED <<host, i, finished, arrived, left, mem, queueVars, threads, logs>>
    BY <1>2 DEF Join
  <2>2. prog[p] # << >>
    BY <2>1 DEF TInv, CallInv, CallOK
  <2>3. prog' \in [PE -> Seq(Call)] /\ ProgInv'
    BY <2>1, <2>2, ReturnsType
  <2>4. CallOK(p)'
    BY <1>0, <2>1 DEF CallOK, Inside, Bit, TInv, CallInv, TypeOK
  <2>5. CallInv'
    <3>1. \A q \in PE \ {p} : pc'[q] = pc[q] /\ prog'[q] = prog[q]
      BY <1>0, <2>1 DEF TypeOK, Returns
    <3> QED BY <2>1, <2>4, <3>1, KeepsCallInv
  <2>6. LoopInv'
    BY <1>0, <2>1 DEF LoopInv, TInv, TypeOK
  <2> QED BY <1>0, <2>1, <2>3, <2>5, <2>6 DEF TInv, TypeOK, WorkInv, queueVars, threads, logs
<1> QED BY <1>1, <1>2

(* The job work_thread_dequeue takes.                                      *)
LEMMA WorkHead ==
  ASSUME TInv, NEW p \in PE, work_queue[p] # << >>, work_thread_dequeue(p)
  PROVE  /\ Head(work_queue[p]) \in Job /\ Head(work_queue[p]) = work_queue[p][1]
         /\ Head(work_queue[p]) \in OwnJob => Head(work_queue[p]).dest \notin PE
         /\ work_queue' = [work_queue EXCEPT ![p] = Tail(work_queue[p])]
         /\ work_queue' \in [PE -> Seq(Job)] /\ WorkInv'
<1>1. work_queue \in [PE -> Seq(Job)] /\ work_queue' = [work_queue EXCEPT ![p] = Tail(work_queue[p])]
  BY DEF TInv, TypeOK, Job, work_thread_dequeue
<1> DEFINE s == work_queue[p]
<1>2. s \in Seq(Job)
  BY <1>1
<1>3. /\ Head(s) \in Job /\ Head(s) = s[1] /\ 1 \in DOMAIN s /\ Tail(s) \in Seq(Job)
      /\ \A n \in DOMAIN Tail(s) : n + 1 \in DOMAIN s /\ Tail(s)[n] = s[n + 1]
  BY <1>2, QueueFacts
<1>4. work_queue' \in [PE -> Seq(Job)]
  BY <1>1, <1>3
<1>5. Head(s) \in OwnJob => Head(s).dest \notin PE
  BY <1>3 DEF TInv, WorkInv
<1>6. ASSUME NEW q \in PE, NEW n \in DOMAIN work_queue'[q], work_queue'[q][n] \in OwnJob
      PROVE  work_queue'[q][n].dest \notin PE
  <2>1. CASE q # p
    BY <1>1, <1>6, <2>1 DEF TInv, WorkInv
  <2>2. CASE q = p
    <3>1. work_queue'[q] = Tail(s)
      BY <1>1, <2>2
    <3>2. n + 1 \in DOMAIN s /\ work_queue'[q][n] = s[n + 1]
      BY <1>3, <3>1
    <3> QED BY <1>6, <3>2 DEF TInv, WorkInv
  <2> QED BY <2>1, <2>2
<1> QED BY <1>1, <1>3, <1>4, <1>5, <1>6 DEF WorkInv

(* Storing the data of a packet keeps the types.                           *)
LEMMA LandType ==
  ASSUME TypeOK, NEW p \in PE, NEW s \in PE, NEW q \in PE, NEW put \in Put, comm_put(p, q, put)
  PROVE  /\ mem' \in MemType /\ queue_send' \in [PE -> Seq(Entry)]
         /\ [landed EXCEPT ![s][p] = Append(@, put)] \in LogType
<1>1. mem \in MemType /\ queue_send \in [PE -> Seq(Entry)] /\ landed \in LogType
  BY DEF TypeOK, MemType, Entry, LogType, Value
<1>2. put.dest \in Addr /\ put.val \in Value /\ [pe |-> q, packet |-> put] \in Entry
  BY DEF Put, Value, Entry
<1>3. [landed EXCEPT ![s][p] = Append(@, put)] \in LogType
  BY <1>1, AppendFacts, SMTT(60) DEF LogType
<1>4. CASE Local(p, q)
  <2>1. mem' = [mem EXCEPT ![q][put.dest] = put.val] /\ queue_send' = queue_send
    BY <1>4 DEF comm_put, comm_local_put
  <2> QED BY <1>1, <1>2, <1>3, <2>1 DEF MemType
<1>5. CASE ~Local(p, q)
  <2>1. mem' = mem /\ queue_send' = [queue_send EXCEPT ![p] = Append(@, [pe |-> q, packet |-> put])]
    BY <1>5 DEF comm_put, comm_remote_put, comm_thread_enqueue
  <2> QED BY <1>1, <1>2, <1>3, <2>1, AppendFacts
<1> QED BY <1>4, <1>5

(* Every step of the worker thread keeps TInv.                             *)
LEMMA WorkerType == ASSUME TInv, NEW p \in PE, Worker(p) PROVE TInv'
<1>1. CASE Execute(p)
  <2> DEFINE job == Head(work_queue[p])
  <2>1. /\ work_queue[p] # << >> /\ work_thread_dequeue(p)
        /\ UNCHANGED <<host, mainVars, wire, threads>>
    BY <1>1 DEF Execute
  <2>2. job \in Job /\ work_queue' \in [PE -> Seq(Job)] /\ WorkInv'
    BY <2>1, WorkHead
  <2>3. mem' \in MemType /\ queue_send' \in [PE -> Seq(Entry)] /\ issued' \in LogType /\ landed' \in LogType
    <3>0. /\ TypeOK /\ mem \in MemType /\ queue_send \in [PE -> Seq(Entry)]
          /\ issued \in LogType /\ landed \in LogType
      BY DEF TInv, TypeOK, MemType, Entry, LogType, Value
    <3>1. CASE job.handler = "GET"
      BY <1>1, <3>0, <3>1 DEF Execute, logs
    <3>2. CASE job.handler # "GET" /\ job \in OwnJob
      <4>1. job.dest_pe \in PE /\ job.dest \in Addr /\ job.src \in Addr /\ "src" \in DOMAIN job
        BY <3>2, JobKinds DEF OwnJob
      <4>2. Issue(p, job.dest_pe, job.dest, mem[p][job.src])
        BY <1>1, <3>2, <4>1 DEF Execute
      <4>3. mem[p][job.src] \in Value
        BY <3>0, <4>1, TypeFacts
      <4> HIDE DEF job
      <4> QED BY <3>0, <4>1, <4>2, <4>3, IssueType
    <3>3. CASE job \in PacketJob
      <4>1. /\ job.dest_pe \in PE /\ job.origin_pe \in PE /\ job.data_buf \in Put
            /\ "src" \notin DOMAIN job /\ job.handler # "GET"
        BY <3>3, JobKinds DEF PacketJob
      <4>2. /\ comm_put(p, job.dest_pe, job.data_buf) /\ issued' = issued
            /\ landed' = [landed EXCEPT ![job.origin_pe][p] = Append(@, job.data_buf)]
        BY <1>1, <4>1 DEF Execute
      <4> HIDE DEF job
      <4> QED BY <3>0, <4>1, <4>2, LandType
    <3> QED BY <2>2, <3>1, <3>2, <3>3 DEF Job
  <2> QED BY <2>1, <2>2, <2>3
          DEF TInv, TypeOK, ProgInv, LoopInv, CallInv, CallOK, Inside, MemType, Value, Entry, LogType,
              Job, mainVars, threads
<1>2. CASE WorkerExit(p)
  BY <1>2 DEF WorkerExit, TInv, TypeOK, ProgInv, WorkInv, LoopInv, CallInv, CallOK, Inside,
              mainVars, queueVars, logs
<1> QED BY <1>1, <1>2 DEF Worker

(* network_receive keeps the type of the sockets.                          *)
LEMMA WireType ==
  ASSUME TypeOK, NEW p \in PE, NEW s \in PE, NEW n \in Nat, n <= Len(wire[s][p]),
         network_receive(p, s, n)
  PROVE  /\ wire' = [wire EXCEPT ![s][p] = SubSeq(wire[s][p], n + 1, Len(wire[s][p]))]
         /\ wire' \in [PE -> [PE -> Seq(Cell)]]
<1>1. wire \in [PE -> [PE -> Seq(Cell)]] /\ wire[s][p] \in Seq(Cell)
  <2>1. wire \in [PE -> [PE -> Seq(Cell)]]
    BY DEF TypeOK, Cell
  <2> QED BY <2>1
<1>2. wire' = [wire EXCEPT ![s][p] = SubSeq(wire[s][p], n + 1, Len(wire[s][p]))]
  BY DEF network_receive
<1> DEFINE w == wire[s][p]
<1>3. SubSeq(w, n + 1, Len(w)) \in Seq(Cell)
  <2>1. w \in Seq(Cell) /\ n <= Len(w)
    BY <1>1
  <2> HIDE DEF w
  <2> QED BY <2>1, SuffixFacts
<1> QED BY <1>1, <1>2, <1>3

(* A turn of __comm_thread_receive keeps TInv if the sockets and the work  *)
(* queue keep their types.                                                 *)
LEMMA PollsType ==
  ASSUME TInv, NEW p \in PE, NEW s \in PE, Polls(p, s),
         wire' \in [PE -> [PE -> Seq(Cell)]], work_queue' \in [PE -> Seq(Job)], WorkInv',
         ct' \in [PE -> {"receive", "send", "check", "exited", "undefined"}]
  PROVE  TInv'
BY DEF Polls, TInv, TypeOK, ProgInv, LoopInv, CallInv, CallOK, Inside, Cell, Job, mainVars, logs

(* c is what network_send wrote of the three cells of packet. *)
Wrote(p, q, packet, c) ==
  /\ wire' = [wire EXCEPT ![p][q] = wire[p][q] \o c]
  /\ wire' \in [PE -> [PE -> Seq(Cell)]]
  /\ \A n \in DOMAIN c : c[n] = [part |-> n, packet |-> packet]
  /\ Len(c) \in 0 .. 3 /\ DOMAIN c = 1 .. Len(c)
  /\ Len(wire[p][q]) + 3 <= SockCap => Len(c) = 3

(* network_send writes all three cells, or as many of the first ones as    *)
(* fit.                                                                    *)
LEMMA SentCells ==
  ASSUME TypeOK, NEW p \in PE, NEW q \in PE, NEW packet \in Put,
         network_send(p, q, [n \in 1 .. 3 |-> [part |-> n, packet |-> packet]])
  PROVE  \E c \in Seq(Cell) : Wrote(p, q, packet, c)
<1> DEFINE cells == [n \in 1 .. 3 |-> [part |-> n, packet |-> packet]]
           room == SockCap - Len(wire[p][q])
           m == IF room < Len(cells) THEN room ELSE Len(cells)
           c == SubSeq(cells, 1, m)
<1>1. wire \in [PE -> [PE -> Seq(Cell)]] /\ wire[p][q] \in Seq(Cell)
  <2>1. wire \in [PE -> [PE -> Seq(Cell)]]
    BY DEF TypeOK, Cell
  <2> QED BY <2>1
<1>2. Len(wire[p][q]) \in Nat /\ SockCap \in Nat
  BY <1>1, LenProperties, PEFacts
<1>3. /\ \A n \in 1 .. 3 : cells[n] = [part |-> n, packet |-> packet] /\ cells[n] \in Cell
      /\ Len(cells) = 3
  <2>1. cells \in [1 .. 3 -> Cell]
    BY DEF Cell
  <2>2. Len(cells) = 3
    BY <2>1
  <2> QED BY <2>1, <2>2
<1>4. wire' = [wire EXCEPT ![p][q] = wire[p][q] \o c]
  BY DEF network_send
<1>5. m \in Int /\ m <= 3 /\ (Len(wire[p][q]) + 3 <= SockCap => m = 3)
  BY <1>2, <1>3
<1> HIDE DEF m, cells
<1>6. /\ c \in Seq(Cell) /\ Len(c) = (IF 1 <= m THEN m - 1 + 1 ELSE 0)
      /\ \A n \in 1 .. m - 1 + 1 : c[n] = cells[1 + n - 1]
  <2>1. \A n \in 1 .. m : cells[n] \in Cell
    BY <1>3, <1>5
  <2> QED BY <1>5, <2>1, SubSeqProperties
<1> HIDE DEF c
<1>7. Len(c) = (IF 1 <= m THEN m ELSE 0) /\ DOMAIN c = 1 .. Len(c)
  BY <1>5, <1>6, LenProperties
<1>8. \A n \in 1 .. m : c[n] = cells[n]
  BY <1>5, <1>6
<1>9. \A n \in DOMAIN c : c[n] = [part |-> n, packet |-> packet]
  BY <1>3, <1>5, <1>7, <1>8
<1>10. wire[p][q] \o c \in Seq(Cell)
  BY <1>1, <1>6, ConcatProperties
<1>11. wire' \in [PE -> [PE -> Seq(Cell)]]
  BY <1>1, <1>4, <1>10
<1>12. Len(c) \in 0 .. 3 /\ (Len(wire[p][q]) + 3 <= SockCap => Len(c) = 3)
  BY <1>5, <1>7
<1> QED BY <1>4, <1>6, <1>7, <1>9, <1>11, <1>12 DEF Wrote

(* Every step of the communication thread keeps TInv.                      *)
LEMMA CommThreadType == ASSUME TInv, NEW p \in PE, CommThread(p) PROVE TInv'
<1>0. /\ TypeOK /\ WorkInv /\ work_queue \in [PE -> Seq(Job)]
      /\ wire \in [PE -> [PE -> Seq(Cell)]]
      /\ ct \in [PE -> {"receive", "send", "check", "exited", "undefined"}]
      /\ queue_send \in [PE -> Seq(Entry)]
  BY DEF TInv, TypeOK, Job, Cell, Entry
<1>1. CASE Check(p)
  <2>1. Remotes(p) \subseteq PE
    BY DEF Remotes
  <2>2. /\ ct' \in [PE -> {"receive", "send", "check", "exited", "undefined"}]
        /\ todo' \in [PE -> SUBSET PE]
        /\ UNCHANGED <<host, mainVars, mem, queueVars, wt, logs>>
    <3>1. todo \in [PE -> SUBSET PE] /\ (todo' = todo \/ todo' = [todo EXCEPT ![p] = Remotes(p)])
      BY <1>0, <1>1 DEF Check, TypeOK
    <3>2. todo' \in [PE -> SUBSET PE]
      BY <2>1, <3>1
    <3> QED BY <1>0, <1>1, <3>2 DEF Check
  <2> QED BY <2>2 DEF TInv, TypeOK, ProgInv, WorkInv, LoopInv, CallInv, CallOK, Inside,
                     mainVars, queueVars, logs
<1>2. CASE Received(p) \/ Sent(p)
  BY <1>2, ZenonT(60) DEF Received, Sent, TInv, TypeOK, ProgInv, WorkInv, LoopInv, CallInv, CallOK, Inside,
              mainVars, queueVars, logs
<1>3. CASE Send(p)
  <2> DEFINE first == Head(queue_send[p])
  <2>1. /\ queue_send[p] # << >> /\ comm_thread_dequeue(p)
        /\ network_send(p, first.pe, [n \in 1 .. 3 |-> [part |-> n, packet |-> first.packet]])
        /\ UNCHANGED <<host, mainVars, mem, work_queue, threads, logs>>
    BY <1>3 DEF Send
  <2>2. first \in Entry /\ Tail(queue_send[p]) \in Seq(Entry)
    BY <1>0, <2>1, QueueFacts
  <2>3. first.pe \in PE /\ first.packet \in Put
    BY <2>2 DEF Entry
  <2>4. queue_send' \in [PE -> Seq(Entry)]
    BY <1>0, <2>1, <2>2 DEF comm_thread_dequeue
  <2> HIDE DEF first
  <2>5. wire' \in [PE -> [PE -> Seq(Cell)]]
    BY <1>0, <2>1, <2>3, SentCells DEF Wrote
  <2> QED BY <2>1, <2>4, <2>5
          DEF TInv, TypeOK, ProgInv, WorkInv, LoopInv, CallInv, CallOK, Inside, Cell, Entry,
              mainVars, threads, logs
<1>4. ASSUME NEW s \in PE, ReceiveNothing(p, s) \/ ReceiveMisframed(p, s) PROVE TInv'
  <2>1. /\ Polls(p, s) /\ wire' = wire /\ work_queue' = work_queue
        /\ (ct' = ct \/ ct' = [ct EXCEPT ![p] = "undefined"])
    BY <1>4 DEF ReceiveNothing, ReceiveMisframed
  <2>2. WorkInv'
    BY <1>0, <2>1 DEF WorkInv
  <2> QED BY <1>0, <2>1, <2>2, PollsType
<1>5. ASSUME NEW s \in PE, ReceiveBadPacket(p, s) PROVE TInv'
  <2>1. /\ Polls(p, s) /\ network_receive(p, s, 1) /\ work_queue' = work_queue /\ ct' = ct
        /\ wire[s][p] # << >>
    BY <1>5 DEF ReceiveBadPacket
  <2>2. wire[s][p] \in Seq(Cell)
    BY <1>0
  <2>3. 1 <= Len(wire[s][p])
    BY <2>1, <2>2, EmptySeq, LenProperties
  <2>4. wire' \in [PE -> [PE -> Seq(Cell)]]
    BY <1>0, <2>1, <2>3, WireType
  <2>5. WorkInv'
    BY <1>0, <2>1 DEF WorkInv
  <2> QED BY <1>0, <2>1, <2>4, <2>5, PollsType
<1>6. ASSUME NEW s \in PE, ReceivePacket(p, s) PROVE TInv'
  <2> DEFINE cells == wire[s][p]
             Made(v) == work_put_remote(p, s, [cells[1].packet EXCEPT !.val = v])
  <2>1. cells \in Seq(Cell) /\ Len(cells) \in Nat
    BY <1>0, LenProperties
  <2>2. /\ IsHeader(cells) /\ Polls(p, s) /\ ct' = ct
        /\ \E v \in {cells[1].packet.val, 0, Garbage}, n \in {2, 3} :
             Made(v) /\ network_receive(p, s, n) /\ n <= Len(cells)
    BY <1>6, <2>1 DEF ReceivePacket, IsHeader
  <2>3. PICK v \in {cells[1].packet.val, 0, Garbage}, n \in {2, 3} :
          Made(v) /\ network_receive(p, s, n) /\ n <= Len(cells)
    BY <2>2
  <2>4. cells[1].packet \in Put
    <3>1. cells[1] \in Cell
      BY <2>1, <2>2, ElementOfSeq DEF IsHeader
    <3> QED BY <3>1 DEF Cell
  <2>5. [cells[1].packet EXCEPT !.val = v] \in Put
    BY <2>4 DEF Put
  <2> DEFINE job == [handler |-> "PUT", origin_pe |-> s, dest_pe |-> p,
                     data_buf |-> [cells[1].packet EXCEPT !.val = v]]
  <2>6. job \in PacketJob /\ work_thread_enqueue(p, job)
    BY <2>3, <2>5 DEF PacketJob, work_put_remote
  <2>7. job \notin OwnJob
    BY <2>6, JobKinds
  <2> HIDE DEF job
  <2>8. work_queue' \in [PE -> Seq(Job)] /\ WorkInv'
    BY <2>6, <2>7, WorkType DEF Job
  <2>9. wire' \in [PE -> [PE -> Seq(Cell)]]
    BY <1>0, <2>3, WireType
  <2> QED BY <1>0, <2>2, <2>8, <2>9, PollsType
<1> QED BY <1>1, <1>2, <1>3, <1>4, <1>5, <1>6 DEF CommThread

(* TInv holds when every PE has returned from shmem_init.                  *)
LEMMA InitTInv == Init => TInv
<1> SUFFICES ASSUME Init PROVE TInv
  OBVIOUS
<1>1. PICK j \in Jobs : host = j.host /\ prog = j.prog
  BY DEF Init
<1>2. host \in [PE -> Hosts] /\ prog \in [PE -> Seq(Call)] /\ ProgInv
  BY <1>1, JobsAssumption DEF ProgInv, UserOps
<1>3. 1 \in 1 .. N /\ 0 \in 0 .. MaxRounds /\ 0 \in PE /\ \A k \in Leaves : k \in PE
  BY CommAssumption, PEFacts
<1>4. TypeOK
  BY <1>2, <1>3 DEF Init, Idle, TypeOK
<1>5. WorkInv /\ LoopInv /\ CallInv
  BY <1>3 DEF Init, Idle, WorkInv, LoopInv, CallInv, CallOK, Inside, Bit
<1> QED BY <1>2, <1>4, <1>5 DEF TInv

(* Every step of every thread keeps TInv.                                  *)
LEMMA NextTInv == TInv /\ [Next]_vars => TInv'
<1> SUFFICES ASSUME TInv, [Next]_vars PROVE TInv'
  OBVIOUS
<1>1. ASSUME NEW p \in PE, MainThread(p) PROVE TInv'
  <2>1. p # 0 => p \in Leaves
    BY PEFacts
  <2> QED BY <1>1, <2>1, StoreType, PutType, GetType, NbiType, QuietType, RootType, LeafType, FinalizeType
          DEF MainThread
<1>2. ASSUME UNCHANGED vars PROVE TInv'
  BY <1>2 DEF vars, TInv, TypeOK, ProgInv, WorkInv, LoopInv, CallInv, CallOK, Inside,
              mainVars, queueVars, threads, logs
<1> QED BY <1>1, <1>2, WorkerType, CommThreadType DEF Next, Finished

(* Comm.TypeOK holds in every reachable state: no queue, socket, log or    *)
(* slot ever holds anything of another type, and the counters stay within  *)
(* the bound (comm.c, comm_remote.c, work.c).                              *)
THEOREM TypeCorrect == Spec => []TypeOK
<1>1. TInv => TypeOK
  BY DEF TInv
<1> QED BY <1>1, InitTInv, NextTInv, PTL DEF Spec
=============================================================================
