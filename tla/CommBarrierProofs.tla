-------------------------- MODULE CommBarrierProofs --------------------------
(***************************************************************************)
(* NoEarlyReturn of the running library: for any number of PEs, any        *)
(* placement that wireup connects (WiringAssumption), any program, any     *)
(* capacity of the sockets and with split reads, no PE returns from a      *)
(* barrier that some PE has not called. Module BarrierProofs proves this   *)
(* of comm_barrier_all over an idealised asynchronous put; here the put is *)
(* the one of the code, with the send queue, the socket that cuts writes   *)
(* short, the reader that splits packets and throws parts away, and the    *)
(* worker, all shared with the traffic of the program.                     *)
(*                                                                         *)
(* The invariant follows the signals of each leaf k. At most one is under  *)
(* way from k to the root and at most one from the root to k (AtMostOne),  *)
(* in the send queue, the socket or the work queue; where it is fixes how  *)
(* far the counters of the leaf are from those of the root (UpInv,         *)
(* DownInv). A signal may be lost or arrive as 0, so unlike in             *)
(* BarrierProofs nothing says that there is one. RouteInv says that        *)
(* whatever is addressed to a slot of __pSync is such a signal: it is what *)
(* keeps user traffic apart.                                               *)
(***************************************************************************)
EXTENDS CommProofs

(* The barrier signals from s to d that are queued at s, in the socket, or *)
(* queued at d.                                                            *)
SendAt(s, d) ==
  {n \in DOMAIN queue_send[s] : /\ queue_send[s][n].pe = d
                                /\ queue_send[s][n].packet.dest \in PE}
WireAt(s, d) ==
  {n \in DOMAIN wire[s][d] : /\ wire[s][d][n].part = 1
                             /\ wire[s][d][n].packet.dest \in PE}
WorkAt(s, d) ==
  {n \in DOMAIN work_queue[d] : /\ work_queue[d][n] \in PacketJob
                                /\ work_queue[d][n].origin_pe = s
                                /\ work_queue[d][n].data_buf.dest \in PE}

(* No signal from s to d is in a queue or a socket.                        *)
NoneUnderWay(s, d) == SendAt(s, d) = {} /\ WireAt(s, d) = {} /\ WorkAt(s, d) = {}

(* No more than one is.                                                    *)
AtMostOne(s, d) ==
  /\ \A m, n \in SendAt(s, d) : m = n
  /\ \A m, n \in WireAt(s, d) : m = n
  /\ \A m, n \in WorkAt(s, d) : m = n
  /\ SendAt(s, d) # {} => WireAt(s, d) = {} /\ WorkAt(s, d) = {}
  /\ WireAt(s, d) # {} => WorkAt(s, d) = {}

(* What goes to a slot of __pSync goes to the leaf's slot, between the     *)
(* leaf and the root.                                                      *)
Route(s, d, put) ==
  put.dest \in PE => \/ s = 0 /\ d \in Leaves /\ put.dest = d
                     \/ d = 0 /\ s \in Leaves /\ put.dest = s

(* What the queues and the sockets hold: packets that respect Route, and   *)
(* packet jobs of the PE whose worker has them.                            *)
RoutedEntry(s) == {e \in Entry : Route(s, e.pe, e.packet)}
RoutedCell(s, d) == {c \in Cell : Route(s, d, c.packet)}
RoutedJob(d) ==
  {job \in Job : job \in PacketJob => job.dest_pe = d /\ Route(job.origin_pe, d, job.data_buf)}

RouteInv ==
  /\ \A s \in PE : queue_send[s] \in Seq(RoutedEntry(s))
  /\ \A s, d \in PE : wire[s][d] \in Seq(RoutedCell(s, d))
  /\ \A d \in PE : work_queue[d] \in Seq(RoutedJob(d))

(* The root holds k's signal: gathered and not yet put back.               *)
AtRoot(k) ==
  \/ (pc[0] \in {"poll", "reset"} /\ k < i)
  \/ (pc[0] = "release" /\ k >= i)

(* Barriers in which the root has put the release of leaf k.               *)
Released(k) == left[0] + Bit(pc[0] = "release" /\ k < i)

(* While leaf k's signal is on its way to the root, or the root has it and *)
(* has not put it back.                                                    *)
UpInv(k) ==
  /\ (~NoneUnderWay(k, 0) \/ mem[0][k] # 0 \/ AtRoot(k)) => arrived[k] = Released(k) + 1
  /\ mem[0][k] # 0 => NoneUnderWay(k, 0) /\ ~AtRoot(k)
  /\ AtRoot(k) => NoneUnderWay(k, 0)

(* While the release of leaf k is on its way or in its slot, the leaf has  *)
(* one barrier less behind it than the root has released it from.          *)
DownInv(k) ==
  /\ (~NoneUnderWay(0, k) \/ mem[k][k] # 0) => left[k] + 1 = Released(k)
  /\ mem[k][k] # 0 => NoneUnderWay(0, k)

(* What is true of leaf k.                                                 *)
SigInv(k) ==
  /\ AtMostOne(k, 0) /\ AtMostOne(0, k)
  /\ UpInv(k) /\ DownInv(k)
  /\ left[k] <= Released(k) /\ Released(k) <= arrived[k]
  /\ pc[0] = "reset" /\ i = k => mem[0][k] # 0
  /\ pc[k] = "reset" => mem[k][k] # 0

(* The inductive invariant.                                                *)
SInv == TInv /\ RouteInv /\ \A k \in Leaves : SigInv(k)

(* The types of the queues and sockets.                                    *)
LEMMA SeqTypes ==
  ASSUME TypeOK
  PROVE  /\ queue_send \in [PE -> Seq(Entry)] /\ wire \in [PE -> [PE -> Seq(Cell)]]
         /\ work_queue \in [PE -> Seq(Job)]
         /\ \A s \in PE : queue_send[s] \in Seq(Entry) /\ work_queue[s] \in Seq(Job)
         /\ \A s, d \in PE : wire[s][d] \in Seq(Cell)
<1>1. /\ queue_send \in [PE -> Seq(Entry)] /\ wire \in [PE -> [PE -> Seq(Cell)]]
      /\ work_queue \in [PE -> Seq(Job)]
  BY DEF TypeOK, Entry, Cell, Job
<1> QED BY <1>1

(* A place of a signal is an index of the queue it is in.                  *)
LEMMA PlacesNat ==
  ASSUME TypeOK, NEW s \in PE, NEW d \in PE
  PROVE  /\ SendAt(s, d) \subseteq 1 .. Len(queue_send[s]) /\ Len(queue_send[s]) \in Nat
         /\ WireAt(s, d) \subseteq 1 .. Len(wire[s][d]) /\ Len(wire[s][d]) \in Nat
         /\ WorkAt(s, d) \subseteq 1 .. Len(work_queue[d]) /\ Len(work_queue[d]) \in Nat
BY SeqTypes, LenProperties DEF SendAt, WireAt, WorkAt

(* comm_thread_enqueue adds a signal if it is given one, nothing else.     *)
LEMMA SendAppend ==
  ASSUME TypeOK, NEW p \in PE, NEW q \in PE, NEW put \in Put,
         comm_thread_enqueue(p, q, put)
  PROVE  \A s, d \in PE :
           SendAt(s, d)' = IF s = p /\ d = q /\ put.dest \in PE
                           THEN SendAt(s, d) \cup {Len(queue_send[p]) + 1}
                           ELSE SendAt(s, d)
<1> DEFINE e == [pe |-> q, packet |-> put]
           u == queue_send[p]
<1>1. e \in Entry /\ e.pe = q /\ e.packet = put
  BY DEF Entry
<1>2. queue_send \in [PE -> Seq(Entry)] /\ u \in Seq(Entry)
  BY SeqTypes
<1>3. queue_send' = [queue_send EXCEPT ![p] = Append(u, e)]
  BY DEF comm_thread_enqueue
<1> HIDE DEF e
<1>4. /\ Len(u) \in Nat /\ DOMAIN u = 1 .. Len(u) /\ DOMAIN Append(u, e) = 1 .. Len(u) + 1
      /\ \A n \in DOMAIN u : Append(u, e)[n] = u[n]
      /\ Append(u, e)[Len(u) + 1] = e
  BY <1>1, <1>2, AppendFacts
<1> SUFFICES ASSUME NEW s \in PE, NEW d \in PE
             PROVE  SendAt(s, d)' = IF s = p /\ d = q /\ put.dest \in PE
                                    THEN SendAt(s, d) \cup {Len(queue_send[p]) + 1}
                                    ELSE SendAt(s, d)
  OBVIOUS
<1>5. CASE s # p
  <2>1. queue_send'[s] = queue_send[s]
    BY <1>2, <1>3, <1>5
  <2> QED BY <1>5, <2>1 DEF SendAt
<1>6. CASE s = p
  <2>1. queue_send'[s] = Append(u, e)
    BY <1>2, <1>3, <1>6
  <2>2. SendAt(s, d)' = {n \in DOMAIN Append(u, e) : Append(u, e)[n].pe = d
                                                     /\ Append(u, e)[n].packet.dest \in PE}
    BY <2>1 DEF SendAt
  <2>3. SendAt(s, d) = {n \in DOMAIN u : u[n].pe = d /\ u[n].packet.dest \in PE}
    BY <1>6 DEF SendAt
  <2>4. \A n : n \in DOMAIN Append(u, e) <=> n \in DOMAIN u \/ n = Len(u) + 1
    BY <1>4
  <2> HIDE DEF u
  <2>5. SendAt(s, d)' = SendAt(s, d) \cup {n \in {Len(u) + 1} : d = q /\ put.dest \in PE}
    BY <1>1, <1>4, <2>2, <2>3, <2>4
  <2> QED BY <1>6, <2>5 DEF u
<1> QED BY <1>5, <1>6

(* comm_thread_dequeue moves every other packet one place forward.         *)
LEMMA SendTail ==
  ASSUME TypeOK, NEW p \in PE, queue_send[p] # << >>, comm_thread_dequeue(p)
  PROVE  /\ \A s, d \in PE : s # p => SendAt(s, d)' = SendAt(s, d)
         /\ \A d \in PE : \A n \in SendAt(p, d)' : n \in Nat \ {0} /\ n + 1 \in SendAt(p, d)
         /\ \A d \in PE : \A n \in SendAt(p, d) : n = 1 \/ (n - 1 \in SendAt(p, d)')
<1> DEFINE u == queue_send[p]
<1>2. queue_send \in [PE -> Seq(Entry)] /\ u \in Seq(Entry)
  BY SeqTypes
<1>3. queue_send' = [queue_send EXCEPT ![p] = Tail(u)]
  BY DEF comm_thread_dequeue
<1>4. /\ Len(u) \in Nat /\ DOMAIN u = 1 .. Len(u) /\ DOMAIN Tail(u) = 1 .. Len(u) - 1
      /\ \A n \in DOMAIN Tail(u) : n + 1 \in DOMAIN u /\ Tail(u)[n] = u[n + 1]
  BY <1>2, QueueFacts
<1>5. ASSUME NEW s \in PE, NEW d \in PE, s # p PROVE SendAt(s, d)' = SendAt(s, d)
  <2>1. queue_send'[s] = queue_send[s]
    BY <1>2, <1>3, <1>5
  <2> QED BY <2>1 DEF SendAt
<1>6. ASSUME NEW d \in PE
      PROVE  /\ \A n \in SendAt(p, d)' : n \in Nat \ {0} /\ n + 1 \in SendAt(p, d)
             /\ \A n \in SendAt(p, d) : n = 1 \/ (n - 1 \in SendAt(p, d)')
  <2>1. queue_send'[p] = Tail(u)
    BY <1>2, <1>3
  <2>2. SendAt(p, d)' = {n \in DOMAIN Tail(u) : Tail(u)[n].pe = d /\ Tail(u)[n].packet.dest \in PE}
    BY <2>1 DEF SendAt
  <2>3. SendAt(p, d) = {n \in DOMAIN u : u[n].pe = d /\ u[n].packet.dest \in PE}
    BY DEF SendAt
  <2> HIDE DEF u
  <2>4. \A n \in SendAt(p, d)' : n \in Nat \ {0} /\ n + 1 \in SendAt(p, d)
    BY <1>4, <2>2, <2>3
  <2>5. ASSUME NEW n \in SendAt(p, d), n # 1 PROVE n - 1 \in SendAt(p, d)'
    <3>1. n - 1 \in DOMAIN Tail(u) /\ (n - 1) + 1 = n
      BY <1>4, <2>3, <2>5
    <3> QED BY <1>4, <2>2, <2>3, <3>1
  <2> QED BY <2>4, <2>5
<1> QED BY <1>5, <1>6

(* work_thread_enqueue adds a signal if the job stores one.                *)
LEMMA WorkAppend ==
  ASSUME TypeOK, NEW p \in PE, NEW job \in Job, work_thread_enqueue(p, job)
  PROVE  \A s, d \in PE :
           WorkAt(s, d)' = IF /\ d = p /\ job \in PacketJob /\ job.origin_pe = s
                              /\ job.data_buf.dest \in PE
                           THEN WorkAt(s, d) \cup {Len(work_queue[p]) + 1}
                           ELSE WorkAt(s, d)
<1> DEFINE u == work_queue[p]
           Sig(s, j) == j \in PacketJob /\ j.origin_pe = s /\ j.data_buf.dest \in PE
<1>2. work_queue \in [PE -> Seq(Job)] /\ u \in Seq(Job)
  BY SeqTypes
<1>3. work_queue' = [work_queue EXCEPT ![p] = Append(u, job)]
  BY DEF work_thread_enqueue
<1>4. /\ Len(u) \in Nat /\ DOMAIN u = 1 .. Len(u) /\ DOMAIN Append(u, job) = 1 .. Len(u) + 1
      /\ \A n \in DOMAIN u : Append(u, job)[n] = u[n]
      /\ Append(u, job)[Len(u) + 1] = job
  BY <1>2, AppendFacts
<1> SUFFICES ASSUME NEW s \in PE, NEW d \in PE
             PROVE  WorkAt(s, d)' = IF d = p /\ Sig(s, job)
                                    THEN WorkAt(s, d) \cup {Len(u) + 1}
                                    ELSE WorkAt(s, d)
  OBVIOUS
<1>5. CASE d # p
  <2>1. work_queue'[d] = work_queue[d]
    BY <1>2, <1>3, <1>5
  <2> QED BY <1>5, <2>1 DEF WorkAt
<1>6. CASE d = p
  <2>1. work_queue'[d] = Append(u, job)
    BY <1>2, <1>3, <1>6
  <2>2. WorkAt(s, d)' = {n \in DOMAIN Append(u, job) : Sig(s, Append(u, job)[n])}
    BY <2>1 DEF WorkAt
  <2>3. WorkAt(s, d) = {n \in DOMAIN u : Sig(s, u[n])}
    BY <1>6 DEF WorkAt
  <2>4. \A n : n \in DOMAIN Append(u, job) <=> n \in DOMAIN u \/ n = Len(u) + 1
    BY <1>4
  <2> HIDE DEF u, Sig
  <2>5. WorkAt(s, d)' = WorkAt(s, d) \cup {n \in {Len(u) + 1} : Sig(s, job)}
    BY <1>4, <2>2, <2>3, <2>4
  <2> QED BY <1>6, <2>5
<1> QED BY <1>5, <1>6

(* work_thread_dequeue moves every other job one place forward.            *)
LEMMA WorkTail ==
  ASSUME TypeOK, NEW p \in PE, work_queue[p] # << >>, work_thread_dequeue(p)
  PROVE  /\ \A s, d \in PE : d # p => WorkAt(s, d)' = WorkAt(s, d)
         /\ \A s \in PE : \A n \in WorkAt(s, p)' : n \in Nat \ {0} /\ n + 1 \in WorkAt(s, p)
<1> DEFINE u == work_queue[p]
           Sig(s, j) == j \in PacketJob /\ j.origin_pe = s /\ j.data_buf.dest \in PE
<1>2. work_queue \in [PE -> Seq(Job)] /\ u \in Seq(Job)
  BY SeqTypes
<1>3. work_queue' = [work_queue EXCEPT ![p] = Tail(u)]
  BY DEF work_thread_dequeue
<1>4. /\ Len(u) \in Nat /\ DOMAIN u = 1 .. Len(u) /\ DOMAIN Tail(u) = 1 .. Len(u) - 1
      /\ \A n \in DOMAIN Tail(u) : n + 1 \in DOMAIN u /\ Tail(u)[n] = u[n + 1]
  BY <1>2, QueueFacts
<1>5. ASSUME NEW s \in PE, NEW d \in PE, d # p PROVE WorkAt(s, d)' = WorkAt(s, d)
  <2>1. work_queue'[d] = work_queue[d]
    BY <1>2, <1>3, <1>5
  <2> QED BY <2>1 DEF WorkAt
<1>6. ASSUME NEW s \in PE
      PROVE  \A n \in WorkAt(s, p)' : n \in Nat \ {0} /\ n + 1 \in WorkAt(s, p)
  <2>1. work_queue'[p] = Tail(u)
    BY <1>2, <1>3
  <2>2. WorkAt(s, p)' = {n \in DOMAIN Tail(u) : Sig(s, Tail(u)[n])}
    BY <2>1 DEF WorkAt
  <2>3. WorkAt(s, p) = {n \in DOMAIN u : Sig(s, u[n])}
    BY DEF WorkAt
  <2> HIDE DEF u, Sig
  <2> QED BY <1>4, <2>2, <2>3
<1> QED BY <1>5, <1>6

(* network_receive moves every cell that is left m places forward.         *)
LEMMA WireSuffix ==
  ASSUME TypeOK, NEW p \in PE, NEW s \in PE, NEW m \in Nat, m <= Len(wire[s][p]),
         network_receive(p, s, m)
  PROVE  /\ \A a, b \in PE : a # s \/ b # p => WireAt(a, b)' = WireAt(a, b)
         /\ \A n \in WireAt(s, p)' : n \in Nat \ {0} /\ n + m \in WireAt(s, p)
<1> DEFINE w == wire[s][p]
           t == SubSeq(w, m + 1, Len(w))
           Sig(c) == c.part = 1 /\ c.packet.dest \in PE
<1>1. wire \in [PE -> [PE -> Seq(Cell)]] /\ w \in Seq(Cell)
  BY SeqTypes
<1>2. wire' = [wire EXCEPT ![s][p] = t]
  BY WireType
<1>3. /\ Len(w) \in Nat /\ DOMAIN t = 1 .. Len(w) - m
      /\ \A n \in DOMAIN t : n + m \in DOMAIN w /\ t[n] = w[n + m]
  <2> HIDE DEF w
  <2> QED BY <1>1, SuffixFacts, SMTT(60) DEF w
<1> HIDE DEF t
<1>4. ASSUME NEW a \in PE, NEW b \in PE, a # s \/ b # p PROVE WireAt(a, b)' = WireAt(a, b)
  <2>1. wire'[a][b] = wire[a][b]
    BY <1>1, <1>2, <1>4
  <2> QED BY <2>1 DEF WireAt
<1>5. wire'[s][p] = t
  BY <1>1, <1>2
<1>6. WireAt(s, p)' = {n \in DOMAIN t : Sig(t[n])} /\ WireAt(s, p) = {n \in DOMAIN w : Sig(w[n])}
  BY <1>5 DEF WireAt
<1> HIDE DEF w, Sig
<1>7. \A n \in WireAt(s, p)' : n \in Nat \ {0} /\ n + m \in WireAt(s, p)
  BY <1>3, <1>6
<1> QED BY <1>4, <1>7

(* One sequence written behind another.                                    *)
LEMMA ConcatFacts ==
  ASSUME NEW S, NEW s \in Seq(S), NEW c \in Seq(S)
  PROVE  /\ Len(s) \in Nat /\ Len(c) \in Nat /\ DOMAIN s = 1 .. Len(s) /\ DOMAIN c = 1 .. Len(c)
         /\ Len(s \o c) = Len(s) + Len(c) /\ DOMAIN (s \o c) = 1 .. Len(s) + Len(c)
         /\ \A n \in DOMAIN s : (s \o c)[n] = s[n]
         /\ \A n \in DOMAIN (s \o c) :
              n \notin DOMAIN s => n - Len(s) \in DOMAIN c /\ (s \o c)[n] = c[n - Len(s)]
<1>1. Len(s) \in Nat /\ Len(c) \in Nat /\ DOMAIN s = 1 .. Len(s) /\ DOMAIN c = 1 .. Len(c)
  BY LenProperties
<1>2. /\ s \o c \in Seq(S) /\ Len(s \o c) = Len(s) + Len(c)
      /\ \A n \in 1 .. Len(s) + Len(c) :
           (s \o c)[n] = IF n <= Len(s) THEN s[n] ELSE c[n - Len(s)]
  BY ConcatProperties
<1>3. DOMAIN (s \o c) = 1 .. Len(s) + Len(c)
  BY <1>2, LenProperties
<1> DEFINE a == Len(s)  b == Len(c)  x == s \o c
<1> HIDE DEF a, b, x
<1>4. /\ \A n \in 1 .. a : n \in 1 .. a + b /\ n <= a
      /\ \A n \in 1 .. a + b : n \notin 1 .. a => ~(n <= a) /\ n - a \in 1 .. b
  BY <1>1 DEF a, b
<1>5. \A n \in 1 .. a + b : x[n] = IF n <= a THEN s[n] ELSE c[n - a]
  BY <1>2 DEF a, b, x
<1>6. /\ \A n \in 1 .. a : x[n] = s[n]
      /\ \A n \in 1 .. a + b : n \notin 1 .. a => n - a \in 1 .. b /\ x[n] = c[n - a]
  BY <1>4, <1>5
<1> QED BY <1>1, <1>2, <1>3, <1>6 DEF a, b, x

(* network_send adds at most one cell that begins a signal.                *)
LEMMA WireAppend ==
  ASSUME TypeOK, NEW p \in PE, NEW q \in PE, NEW packet \in Put,
         network_send(p, q, [n \in 1 .. 3 |-> [part |-> n, packet |-> packet]])
  PROVE  /\ \A a, b \in PE : a # p \/ b # q => WireAt(a, b)' = WireAt(a, b)
         /\ \A n \in WireAt(p, q)' :
              n \in WireAt(p, q) \/ (n = Len(wire[p][q]) + 1 /\ packet.dest \in PE)
<1>1. wire \in [PE -> [PE -> Seq(Cell)]] /\ wire[p][q] \in Seq(Cell)
  BY SeqTypes
<1>2. PICK c \in Seq(Cell) : Wrote(p, q, packet, c)
  BY SentCells
<1>9. /\ wire' = [wire EXCEPT ![p][q] = wire[p][q] \o c]
      /\ \A n \in DOMAIN c : c[n] = [part |-> n, packet |-> packet]
  BY <1>2 DEF Wrote
<1> DEFINE w == wire[p][q]
           t == w \o c
           Sig(x) == x.part = 1 /\ x.packet.dest \in PE
<1>3. /\ Len(w) \in Nat /\ \A n \in DOMAIN w : t[n] = w[n]
      /\ \A n \in DOMAIN t : n \notin DOMAIN w => n - Len(w) \in DOMAIN c /\ t[n] = c[n - Len(w)]
      /\ DOMAIN t \subseteq Nat
  <2>1. w \in Seq(Cell)
    BY <1>1
  <2> HIDE DEF w
  <2> QED BY <2>1, ConcatFacts
<1> HIDE DEF t
<1>4. ASSUME NEW a \in PE, NEW b \in PE, a # p \/ b # q PROVE WireAt(a, b)' = WireAt(a, b)
  <2>1. wire'[a][b] = wire[a][b]
    BY <1>1, <1>4, <1>9
  <2> QED BY <2>1 DEF WireAt
<1>5. wire'[p][q] = t
  BY <1>1, <1>9 DEF t
<1>6. WireAt(p, q)' = {n \in DOMAIN t : Sig(t[n])} /\ WireAt(p, q) = {n \in DOMAIN w : Sig(w[n])}
  BY <1>5 DEF WireAt
<1>7. \A n \in DOMAIN c : Sig(c[n]) => n = 1 /\ packet.dest \in PE
  BY <1>9
<1> HIDE DEF w, Sig
<1>8. ASSUME NEW n \in WireAt(p, q)', n \notin WireAt(p, q)
      PROVE  n = Len(w) + 1 /\ packet.dest \in PE
  <2>1. n \in DOMAIN t /\ n \notin DOMAIN w /\ Sig(t[n])
    BY <1>3, <1>6, <1>8
  <2>2. n - Len(w) = 1 /\ packet.dest \in PE /\ n \in Nat
    BY <1>3, <1>7, <2>1
  <2> QED BY <1>3, <2>2
<1> QED BY <1>4, <1>8 DEF w

(* No signal from s to d is added. *)
Fewer(s, d) ==
  /\ NoneUnderWay(s, d) => NoneUnderWay(s, d)'
  /\ AtMostOne(s, d) => AtMostOne(s, d)'

(* T is part of S, m places further on.                                    *)
Shifted(T, S, m) == \A n \in T : n \in Nat /\ n + m \in S

(* Moving forward adds no signal and merges none.                          *)
LEMMA ShiftedOne ==
  ASSUME NEW S, NEW T, NEW m \in Nat, Shifted(T, S, m)
  PROVE  /\ S = {} => T = {}
         /\ (\A x, y \in S : x = y) => (\A x, y \in T : x = y)
         /\ (\A x, y \in S : x = y) /\ m \in S /\ m # 0 => 0 \in T \/ T = {}
<1>1. S = {} => T = {}
  BY DEF Shifted
<1>2. ASSUME \A x, y \in S : x = y, NEW x \in T, NEW y \in T PROVE x = y
  <2>1. x + m = y + m /\ x \in Nat /\ y \in Nat
    BY <1>2 DEF Shifted
  <2> QED BY <2>1
<1>3. ASSUME \A x, y \in S : x = y, m \in S, NEW x \in T PROVE x = 0
  <2>1. x + m = m /\ x \in Nat
    BY <1>3 DEF Shifted
  <2> QED BY <2>1
<1> QED BY <1>1, <1>2, <1>3

(* If the signals in all three places have only moved forward, or been     *)
(* lost, none is added.                                                    *)
LEMMA FewerShifted ==
  ASSUME NEW s \in PE, NEW d \in PE, NEW a \in Nat, NEW b \in Nat, NEW c \in Nat,
         Shifted(SendAt(s, d)', SendAt(s, d), a), Shifted(WireAt(s, d)', WireAt(s, d), b),
         Shifted(WorkAt(s, d)', WorkAt(s, d), c)
  PROVE  Fewer(s, d)
<1> DEFINE S == SendAt(s, d)  W == WireAt(s, d)  J == WorkAt(s, d)
           T == SendAt(s, d)'  V == WireAt(s, d)'  K == WorkAt(s, d)'
<1>1. /\ S = {} => T = {}
      /\ (\A x, y \in S : x = y) => (\A x, y \in T : x = y)
  <2> HIDE DEF S, T
  <2> QED BY ShiftedOne DEF S, T
<1>2. /\ W = {} => V = {}
      /\ (\A x, y \in W : x = y) => (\A x, y \in V : x = y)
  <2> HIDE DEF W, V
  <2> QED BY ShiftedOne DEF W, V
<1>3. /\ J = {} => K = {}
      /\ (\A x, y \in J : x = y) => (\A x, y \in K : x = y)
  <2> HIDE DEF J, K
  <2> QED BY ShiftedOne DEF J, K
<1>4. NoneUnderWay(s, d) => NoneUnderWay(s, d)'
  BY <1>1, <1>2, <1>3 DEF NoneUnderWay
<1>5. AtMostOne(s, d) => AtMostOne(s, d)'
  BY <1>1, <1>2, <1>3, Zenon DEF AtMostOne
<1> QED BY <1>4, <1>5 DEF Fewer

(* A place that has not changed has moved forward by 0.                    *)
LEMMA UnchangedShifted ==
  ASSUME TypeOK, NEW s \in PE, NEW d \in PE
  PROVE  /\ SendAt(s, d)' = SendAt(s, d) => Shifted(SendAt(s, d)', SendAt(s, d), 0)
         /\ WireAt(s, d)' = WireAt(s, d) => Shifted(WireAt(s, d)', WireAt(s, d), 0)
         /\ WorkAt(s, d)' = WorkAt(s, d) => Shifted(WorkAt(s, d)', WorkAt(s, d), 0)
<1>1. ASSUME NEW S, NEW l \in Nat, S \subseteq 1 .. l PROVE Shifted(S, S, 0)
  BY <1>1 DEF Shifted
<1>2. /\ SendAt(s, d) \subseteq 1 .. Len(queue_send[s]) /\ Len(queue_send[s]) \in Nat
      /\ WireAt(s, d) \subseteq 1 .. Len(wire[s][d]) /\ Len(wire[s][d]) \in Nat
      /\ WorkAt(s, d) \subseteq 1 .. Len(work_queue[d]) /\ Len(work_queue[d]) \in Nat
  BY PlacesNat
<1>3. /\ Shifted(SendAt(s, d), SendAt(s, d), 0)
      /\ Shifted(WireAt(s, d), WireAt(s, d), 0)
      /\ Shifted(WorkAt(s, d), WorkAt(s, d), 0)
  BY <1>1, <1>2
<1> QED BY <1>3

(* Send takes a signal from the send queue to the socket, or loses it, and *)
(* adds none.                                                              *)
LEMMA SendFewer ==
  ASSUME TInv, NEW p \in PE, Send(p), NEW s \in PE, NEW d \in PE
  PROVE  Fewer(s, d)
<1> DEFINE first == Head(queue_send[p])
<1>1. /\ queue_send[p] # << >> /\ comm_thread_dequeue(p) /\ work_queue' = work_queue
      /\ network_send(p, first.pe, [n \in 1 .. 3 |-> [part |-> n, packet |-> first.packet]])
  BY DEF Send
<1>2. TypeOK /\ queue_send[p] \in Seq(Entry)
  BY SeqTypes DEF TInv
<1>3. first \in Entry /\ first = queue_send[p][1] /\ 1 \in DOMAIN queue_send[p]
  BY <1>1, <1>2, QueueFacts
<1>4. PICK q \in PE, packet \in Put : first.pe = q /\ first.packet = packet
  BY <1>3 DEF Entry
<1>5. packet.dest \in PE => 1 \in SendAt(p, q)
  BY <1>3, <1>4 DEF SendAt
<1>13. network_send(p, q, [n \in 1 .. 3 |-> [part |-> n, packet |-> packet]])
  BY <1>1, <1>4
<1> HIDE DEF first
<1>6. /\ \A a, b \in PE : a # p => SendAt(a, b)' = SendAt(a, b)
      /\ \A b \in PE : \A n \in SendAt(p, b)' : n \in Nat \ {0} /\ n + 1 \in SendAt(p, b)
  BY <1>1, <1>2, SendTail
<1>7. /\ \A a, b \in PE : a # p \/ b # q => WireAt(a, b)' = WireAt(a, b)
      /\ \A n \in WireAt(p, q)' :
           n \in WireAt(p, q) \/ (n = Len(wire[p][q]) + 1 /\ packet.dest \in PE)
  BY <1>2, <1>13, WireAppend
<1>8. WorkAt(s, d)' = WorkAt(s, d)
  BY <1>1 DEF WorkAt
<1>9. \A b \in PE : Shifted(SendAt(p, b)', SendAt(p, b), 1)
  BY <1>6 DEF Shifted
<1>10. CASE s # p
  BY <1>2, <1>6, <1>7, <1>8, <1>10, UnchangedShifted, FewerShifted
<1>11. CASE s = p /\ d # q
  BY <1>2, <1>7, <1>8, <1>9, <1>11, UnchangedShifted, FewerShifted
<1>12. CASE s = p /\ d = q
  <2>1. CASE packet.dest \notin PE
    <3>1. Shifted(WireAt(p, q)', WireAt(p, q), 0)
      <4>1. WireAt(p, q) \subseteq Nat
        BY <1>2, <1>4, PlacesNat
      <4>2. \A n \in WireAt(p, q)' : n \in WireAt(p, q)
        BY <1>7, <2>1
      <4> QED BY <4>1, <4>2 DEF Shifted
    <3> QED BY <1>2, <1>4, <1>8, <1>9, <1>12, <3>1, UnchangedShifted, FewerShifted
  <2>2. CASE packet.dest \in PE
    <3>1. ~NoneUnderWay(p, q)
      BY <1>5, <2>2 DEF NoneUnderWay
    <3>2. ASSUME AtMostOne(p, q) PROVE AtMostOne(p, q)'
      <4>1. 1 \in SendAt(p, q)
        BY <1>5, <2>2
      <4>2. /\ \A m, n \in SendAt(p, q) : m = n
            /\ WireAt(p, q) = {} /\ WorkAt(p, q) = {}
        BY <3>2, <4>1 DEF AtMostOne
      <4>3. SendAt(p, q)' = {}
        BY <1>4, <1>6, <4>1, <4>2
      <4>4. \A m, n \in WireAt(p, q)' : m = n
        BY <1>7, <4>2
      <4>5. WorkAt(p, q)' = {}
        BY <1>8, <1>12, <4>2
      <4> QED BY <4>3, <4>4, <4>5 DEF AtMostOne
    <3> QED BY <1>12, <3>1, <3>2 DEF Fewer
  <2> QED BY <2>1, <2>2
<1> QED BY <1>10, <1>11, <1>12

(* The job that __comm_thread_receive makes of the n cells it reads. *)
Takes(p, s, n, job) ==
  /\ n <= Len(wire[s][p]) /\ network_receive(p, s, n) /\ work_thread_enqueue(p, job)
  /\ 1 \in DOMAIN wire[s][p] /\ wire[s][p][1].part = 1
  /\ job.origin_pe = s /\ job.dest_pe = p
  /\ \E v \in Value : job.data_buf = [wire[s][p][1].packet EXCEPT !.val = v]
  /\ job.data_buf.dest = wire[s][p][1].packet.dest

(* What ReceivePacket does to the socket and the work queue.               *)
LEMMA TakesJob ==
  ASSUME TypeOK, NEW p \in PE, NEW s \in PE, ReceivePacket(p, s)
  PROVE  /\ Polls(p, s) /\ ct' = ct
         /\ \E n \in {2, 3}, job \in PacketJob : Takes(p, s, n, job)
<1> DEFINE cells == wire[s][p]
           Made(v) == work_put_remote(p, s, [cells[1].packet EXCEPT !.val = v])
<1>1. cells \in Seq(Cell) /\ Len(cells) \in Nat /\ DOMAIN cells = 1 .. Len(cells)
  BY SeqTypes, LenProperties
<1>2. /\ IsHeader(cells) /\ Polls(p, s) /\ ct' = ct
      /\ \E v \in {cells[1].packet.val, 0, Garbage}, n \in {2, 3} :
           Made(v) /\ network_receive(p, s, n) /\ n <= Len(cells)
  BY <1>1 DEF ReceivePacket, IsHeader
<1>3. PICK v \in {cells[1].packet.val, 0, Garbage}, n \in {2, 3} :
        Made(v) /\ network_receive(p, s, n) /\ n <= Len(cells)
  BY <1>2
<1>4. 1 \in DOMAIN cells /\ cells[1].part = 1 /\ cells[1].packet \in Put
  <2>1. 1 \in DOMAIN cells /\ cells[1].part = 1
    BY <1>1, <1>2 DEF IsHeader
  <2>2. cells[1] \in Cell
    BY <1>1, <2>1, ElementOfSeq
  <2> QED BY <2>1, <2>2 DEF Cell
<1>5. v \in Value /\ [cells[1].packet EXCEPT !.val = v] \in Put
  BY <1>4 DEF Put, Value
<1>6. [cells[1].packet EXCEPT !.val = v].dest = cells[1].packet.dest
  BY <1>4 DEF Put
<1> DEFINE job == [handler |-> "PUT", origin_pe |-> s, dest_pe |-> p,
                   data_buf |-> [cells[1].packet EXCEPT !.val = v]]
<1>7. /\ job \in PacketJob /\ work_thread_enqueue(p, job) /\ job.origin_pe = s
      /\ job.dest_pe = p /\ job.data_buf = [cells[1].packet EXCEPT !.val = v]
  BY <1>3, <1>5 DEF PacketJob, work_put_remote
<1> HIDE DEF job
<1>8. Takes(p, s, n, job)
  BY <1>3, <1>4, <1>5, <1>6, <1>7 DEF Takes
<1> QED BY <1>2, <1>7, <1>8

(* ReceivePacket takes a signal from the socket to the work queue and adds *)
(* none.                                                                   *)
LEMMA ReceiveFewer ==
  ASSUME TInv, NEW p \in PE, NEW s \in PE, ReceivePacket(p, s), NEW a \in PE, NEW b \in PE
  PROVE  Fewer(a, b)
<1>1. TypeOK
  BY DEF TInv
<1>2. PICK m \in {2, 3}, job \in PacketJob : Takes(p, s, m, job)
  BY <1>1, TakesJob
<1>3. /\ m <= Len(wire[s][p]) /\ network_receive(p, s, m) /\ work_thread_enqueue(p, job)
      /\ job.origin_pe = s /\ job \in Job
      /\ job.data_buf.dest \in PE => 1 \in WireAt(s, p)
  BY <1>2 DEF Takes, WireAt, Job
<1>4. queue_send' = queue_send
  BY <1>1, TakesJob DEF Polls
<1>5. /\ \A c, d \in PE : c # s \/ d # p => WireAt(c, d)' = WireAt(c, d)
      /\ \A n \in WireAt(s, p)' : n \in Nat \ {0} /\ n + m \in WireAt(s, p)
  BY <1>1, <1>3, WireSuffix
<1>6. \A c, d \in PE :
           WorkAt(c, d)' = IF /\ d = p /\ job \in PacketJob /\ job.origin_pe = c
                              /\ job.data_buf.dest \in PE
                           THEN WorkAt(c, d) \cup {Len(work_queue[p]) + 1}
                           ELSE WorkAt(c, d)
  BY <1>1, <1>3, WorkAppend
<1>7. SendAt(a, b)' = SendAt(a, b)
  BY <1>4 DEF SendAt
<1>8. CASE a # s \/ b # p
  <2>1. WireAt(a, b)' = WireAt(a, b) /\ WorkAt(a, b)' = WorkAt(a, b)
    BY <1>3, <1>5, <1>6, <1>8
  <2> QED BY <1>1, <1>7, <2>1, UnchangedShifted, FewerShifted
<1>9. CASE a = s /\ b = p /\ job.data_buf.dest \notin PE
  <2>1. Shifted(WireAt(a, b)', WireAt(a, b), m) /\ WorkAt(a, b)' = WorkAt(a, b)
    BY <1>5, <1>6, <1>9 DEF Shifted
  <2> QED BY <1>1, <1>7, <2>1, UnchangedShifted, FewerShifted
<1>10. CASE a = s /\ b = p /\ job.data_buf.dest \in PE
  <2>1. ~NoneUnderWay(s, p)
    BY <1>3, <1>10 DEF NoneUnderWay
  <2>2. ASSUME AtMostOne(s, p) PROVE AtMostOne(s, p)'
    <3>1. /\ 1 \in WireAt(s, p) /\ \A x, y \in WireAt(s, p) : x = y
          /\ SendAt(s, p) = {} /\ WorkAt(s, p) = {}
      BY <1>3, <1>10, <2>2 DEF AtMostOne
    <3>2. WireAt(s, p)' = {}
      <4> SUFFICES ASSUME NEW n \in WireAt(s, p)' PROVE FALSE
        OBVIOUS
      <4>1. n \in Nat \ {0} /\ n + m = 1
        BY <1>5, <3>1
      <4> QED BY <4>1
    <3>3. \A x, y \in WorkAt(s, p)' : x = y
      BY <1>6, <3>1
    <3>4. SendAt(s, p)' = {}
      BY <1>7, <1>10, <3>1
    <3> QED BY <3>2, <3>3, <3>4 DEF AtMostOne
  <2> QED BY <1>10, <2>1, <2>2 DEF Fewer
<1> QED BY <1>8, <1>9, <1>10

(* ReceiveBadPacket loses a signal or none, and adds none.                 *)
LEMMA BadPacketFewer ==
  ASSUME TInv, NEW p \in PE, NEW s \in PE, ReceiveBadPacket(p, s), NEW a \in PE, NEW b \in PE
  PROVE  Fewer(a, b)
<1>1. TypeOK /\ wire[s][p] \in Seq(Cell)
  BY SeqTypes DEF TInv
<1>2. /\ network_receive(p, s, 1) /\ work_queue' = work_queue /\ queue_send' = queue_send
      /\ wire[s][p] # << >>
  BY DEF ReceiveBadPacket, Polls
<1>3. 1 <= Len(wire[s][p])
  BY <1>1, <1>2, EmptySeq, LenProperties
<1>4. /\ \A c, d \in PE : c # s \/ d # p => WireAt(c, d)' = WireAt(c, d)
      /\ \A n \in WireAt(s, p)' : n \in Nat \ {0} /\ n + 1 \in WireAt(s, p)
  BY <1>1, <1>2, <1>3, WireSuffix
<1>5. SendAt(a, b)' = SendAt(a, b) /\ WorkAt(a, b)' = WorkAt(a, b)
  BY <1>2 DEF SendAt, WorkAt
<1>6. CASE a # s \/ b # p
  BY <1>1, <1>4, <1>5, <1>6, UnchangedShifted, FewerShifted
<1>7. CASE a = s /\ b = p
  <2>1. Shifted(WireAt(a, b)', WireAt(a, b), 1)
    BY <1>4, <1>7 DEF Shifted
  <2> QED BY <1>1, <1>5, <2>1, UnchangedShifted, FewerShifted
<1> QED BY <1>6, <1>7

(* comm_put of the caller's own: stored if the target is local, queued if  *)
(* not.                                                                    *)
LEMMA IssueAt ==
  ASSUME TInv, RouteInv, NEW p \in PE, NEW q \in PE, NEW a \in Addr, NEW v \in Value,
         Issue(p, q, a, v), a \in PE => \/ p = 0 /\ q \in Leaves /\ a = q
                                        \/ q = 0 /\ p \in Leaves /\ a = p
  PROVE  /\ \A s \in PE : queue_send'[s] \in Seq(RoutedEntry(s))
         /\ Local(p, q) => /\ mem' = [mem EXCEPT ![q][a] = v]
                           /\ \A s, d \in PE : SendAt(s, d)' = SendAt(s, d)
         /\ ~Local(p, q) => /\ mem' = mem
                            /\ \A s, d \in PE :
                                 SendAt(s, d)' = IF s = p /\ d = q /\ a \in PE
                                                 THEN SendAt(s, d) \cup {Len(queue_send[p]) + 1}
                                                 ELSE SendAt(s, d)
<1> DEFINE put == [dest |-> a, val |-> v, round |-> arrived[p], seq |-> Len(issued[p][q]) + 1]
<1>1. put \in Put /\ put.dest = a /\ put.val = v /\ comm_put(p, q, put)
  <2>1. issued[p][q] \in Seq(Put) /\ arrived[p] \in 0 .. MaxRounds
    BY DEF TInv, TypeOK
  <2>2. Len(issued[p][q]) + 1 \in Nat
    BY <2>1, LenProperties
  <2>3. comm_put(p, q, put)
    BY DEF Issue
  <2> QED BY <2>1, <2>2, <2>3 DEF Put, Value
<1> HIDE DEF put
<1>2. /\ TypeOK /\ queue_send \in [PE -> Seq(Entry)]
      /\ \A s \in PE : queue_send[s] \in Seq(RoutedEntry(s))
  BY SeqTypes DEF TInv, RouteInv
<1>3. CASE Local(p, q)
  <2>1. mem' = [mem EXCEPT ![q][a] = v] /\ queue_send' = queue_send
    BY <1>1, <1>3 DEF comm_put, comm_local_put
  <2> QED BY <1>2, <1>3, <2>1 DEF SendAt
<1>4. CASE ~Local(p, q)
  <2>1. mem' = mem /\ comm_thread_enqueue(p, q, put)
    BY <1>1, <1>4 DEF comm_put, comm_remote_put
  <2>2. \A s, d \in PE :
          SendAt(s, d)' = IF s = p /\ d = q /\ put.dest \in PE
                          THEN SendAt(s, d) \cup {Len(queue_send[p]) + 1}
                          ELSE SendAt(s, d)
    BY <1>1, <1>2, <2>1, SendAppend
  <2>3. Route(p, q, put)
    BY <1>1 DEF Route
  <2> DEFINE e == [pe |-> q, packet |-> put]
  <2>4. e \in RoutedEntry(p)
    BY <1>1, <2>3 DEF RoutedEntry, Entry
  <2>5. queue_send' = [queue_send EXCEPT ![p] = Append(queue_send[p], e)]
    BY <2>1 DEF comm_thread_enqueue
  <2> HIDE DEF e
  <2>6. Append(queue_send[p], e) \in Seq(RoutedEntry(p))
    BY <1>2, <2>4, AppendFacts
  <2>7. \A s \in PE : queue_send'[s] \in Seq(RoutedEntry(s))
    BY <1>2, <2>5, <2>6
  <2> QED BY <1>1, <1>4, <2>1, <2>2, <2>7
<1> QED BY <1>3, <1>4

(* Send keeps RouteInv.                                                    *)
LEMMA SendRouted == ASSUME TInv, RouteInv, NEW p \in PE, Send(p) PROVE RouteInv'
<1> DEFINE first == Head(queue_send[p])
<1>1. /\ queue_send[p] # << >> /\ comm_thread_dequeue(p) /\ work_queue' = work_queue
      /\ network_send(p, first.pe, [n \in 1 .. 3 |-> [part |-> n, packet |-> first.packet]])
  BY DEF Send
<1>2. /\ TypeOK /\ queue_send[p] \in Seq(RoutedEntry(p)) /\ queue_send \in [PE -> Seq(Entry)]
      /\ wire \in [PE -> [PE -> Seq(Cell)]]
  BY SeqTypes DEF TInv, RouteInv
<1>3. first \in RoutedEntry(p) /\ Tail(queue_send[p]) \in Seq(RoutedEntry(p))
  BY <1>1, <1>2, QueueFacts
<1>4. PICK q \in PE, packet \in Put : /\ first.pe = q /\ first.packet = packet
                                      /\ Route(p, q, packet)
  BY <1>3 DEF RoutedEntry, Entry
<1>5. network_send(p, q, [n \in 1 .. 3 |-> [part |-> n, packet |-> packet]])
  BY <1>1, <1>4
<1> HIDE DEF first
<1>6. \A s \in PE : queue_send'[s] \in Seq(RoutedEntry(s))
  BY <1>1, <1>2, <1>3 DEF comm_thread_dequeue, RouteInv
<1>7. PICK c \in Seq(Cell) : Wrote(p, q, packet, c)
  BY <1>2, <1>5, SentCells
<1>8. c \in Seq(RoutedCell(p, q))
  <2>1. /\ \A n \in DOMAIN c : c[n] = [part |-> n, packet |-> packet]
        /\ Len(c) \in Nat /\ DOMAIN c = 1 .. Len(c) /\ Len(c) \in 0 .. 3
    BY <1>7, LenProperties DEF Wrote
  <2>2. \A n \in 1 .. Len(c) : c[n] \in RoutedCell(p, q)
    BY <1>4, <2>1 DEF RoutedCell, Cell
  <2>3. c \in [1 .. Len(c) -> RoutedCell(p, q)]
    BY <2>1, <2>2, LenProperties
  <2> QED BY <2>1, <2>3
<1>9. wire[p][q] \o c \in Seq(RoutedCell(p, q))
  BY <1>8, ConcatProperties DEF RouteInv
<1>10. \A s, d \in PE : wire'[s][d] = IF s = p /\ d = q THEN wire[p][q] \o c ELSE wire[s][d]
  BY <1>2, <1>7 DEF Wrote
<1>11. \A s, d \in PE : wire'[s][d] \in Seq(RoutedCell(s, d))
  BY <1>9, <1>10 DEF RouteInv
<1> QED BY <1>1, <1>6, <1>11 DEF RouteInv

(* What is left in a socket after a read still respects Route.             *)
LEMMA WireRouted ==
  ASSUME TInv, RouteInv, NEW p \in PE, NEW s \in PE, NEW m \in Nat, m <= Len(wire[s][p]),
         network_receive(p, s, m)
  PROVE  \A a, b \in PE : wire'[a][b] \in Seq(RoutedCell(a, b))
<1>1. /\ TypeOK /\ wire \in [PE -> [PE -> Seq(Cell)]]
      /\ wire[s][p] \in Seq(RoutedCell(s, p))
  BY SeqTypes DEF TInv, RouteInv
<1> DEFINE t == SubSeq(wire[s][p], m + 1, Len(wire[s][p]))
<1>2. wire' = [wire EXCEPT ![s][p] = t]
  BY <1>1, WireType
<1>3. t \in Seq(RoutedCell(s, p))
  <2> DEFINE w == wire[s][p]  S == RoutedCell(s, p)
  <2>1. w \in Seq(S) /\ m <= Len(w)
    BY <1>1
  <2>2. t = SubSeq(w, m + 1, Len(w))
    OBVIOUS
  <2> HIDE DEF w, S, t
  <2>3. t \in Seq(S)
    BY <2>1, <2>2, SuffixFacts
  <2> QED BY <2>3 DEF S
<1> HIDE DEF t
<1> QED BY <1>1, <1>2, <1>3 DEF RouteInv

(* A job that respects Route may be queued.                                *)
LEMMA WorkRouted ==
  ASSUME TInv, RouteInv, NEW p \in PE, NEW job \in RoutedJob(p), work_thread_enqueue(p, job)
  PROVE  \A d \in PE : work_queue'[d] \in Seq(RoutedJob(d))
<1>1. work_queue \in [PE -> Seq(Job)] /\ work_queue[p] \in Seq(RoutedJob(p))
  BY SeqTypes DEF TInv, RouteInv
<1>2. Append(work_queue[p], job) \in Seq(RoutedJob(p))
  BY <1>1, AppendFacts
<1> QED BY <1>1, <1>2 DEF work_thread_enqueue, RouteInv

(* ReceivePacket, with data or garbage, and ReceiveBadPacket keep          *)
(* RouteInv: a split read spoils the data of a packet, not its address.    *)
LEMMA ReceiveRouted ==
  ASSUME TInv, RouteInv, NEW p \in PE, NEW s \in PE, ReceivePacket(p, s) \/ ReceiveBadPacket(p, s)
  PROVE  RouteInv'
<1>1. TypeOK /\ wire[s][p] \in Seq(RoutedCell(s, p)) /\ wire[s][p] \in Seq(Cell)
  BY SeqTypes DEF TInv, RouteInv
<1>2. CASE ReceivePacket(p, s)
  <2>1. PICK m \in {2, 3}, job \in PacketJob : Takes(p, s, m, job)
    BY <1>1, <1>2, TakesJob
  <2>2. queue_send' = queue_send
    BY <1>1, <1>2, TakesJob DEF Polls
  <2>3. Route(s, p, wire[s][p][1].packet)
    <3>1. wire[s][p][1] \in RoutedCell(s, p)
      BY <1>1, <2>1, ElementOfSeq, LenProperties DEF Takes
    <3> QED BY <3>1 DEF RoutedCell
  <2>4. job \in RoutedJob(p)
    BY <2>1, <2>3 DEF RoutedJob, Job, Takes, Route
  <2>5. \A d \in PE : work_queue'[d] \in Seq(RoutedJob(d))
    BY <2>1, <2>4, WorkRouted DEF Takes
  <2>6. \A a, b \in PE : wire'[a][b] \in Seq(RoutedCell(a, b))
    BY <2>1, WireRouted DEF Takes
  <2> QED BY <2>2, <2>5, <2>6 DEF RouteInv
<1>3. CASE ReceiveBadPacket(p, s)
  <2>1. /\ network_receive(p, s, 1) /\ work_queue' = work_queue /\ queue_send' = queue_send
        /\ wire[s][p] # << >>
    BY <1>3 DEF ReceiveBadPacket, Polls
  <2>2. 1 <= Len(wire[s][p])
    BY <1>1, <2>1, EmptySeq, LenProperties
  <2>3. \A a, b \in PE : wire'[a][b] \in Seq(RoutedCell(a, b))
    BY <2>1, <2>2, WireRouted
  <2> QED BY <2>1, <2>3 DEF RouteInv
<1> QED BY <1>2, <1>3

(* A step that adds no signal and leaves the barrier of k alone keeps      *)
(* SigInv(k).                                                              *)
LEMMA SameSignals ==
  ASSUME TInv, NEW k \in Leaves, SigInv(k), Fewer(k, 0), Fewer(0, k),
         mem'[0][k] = mem[0][k], mem'[k][k] = mem[k][k], i' = i,
         left'[0] = left[0], left'[k] = left[k], arrived'[k] = arrived[k],
         pc'[0] = pc[0] \/ (~Inside(0) /\ ~Inside(0)'),
         pc'[k] = "reset" => pc[k] = "reset"
  PROVE  SigInv(k)'
<1>1. AtRoot(k)' <=> AtRoot(k)
  BY DEF AtRoot, Inside
<1>2. Released(k)' = Released(k)
  BY DEF Released, Inside, Bit
<1>3. /\ pc'[0] = "reset" => pc[0] = "reset"
  BY DEF Inside
<1> HIDE DEF AtRoot, Released
<1>4. UpInv(k)'
  BY <1>1, <1>2 DEF SigInv, UpInv, Fewer
<1>5. DownInv(k)'
  BY <1>2 DEF SigInv, DownInv, Fewer
<1> QED BY <1>2, <1>3, <1>4, <1>5 DEF SigInv, Fewer

(* A store to an address of the user's leaves every slot of __pSync alone. *)
LEMMA KeepsPSync ==
  ASSUME TypeOK, NEW q \in PE, NEW a \in Addr, a \notin PE, NEW v,
         mem' = mem \/ mem' = [mem EXCEPT ![q][a] = v]
  PROVE  \A x, k \in PE : mem'[x][k] = mem[x][k]
<1>1. mem \in [PE -> [Addr -> Value]]
  BY TypeFacts DEF MemType
<1> QED BY <1>1, PEFacts

(* The counters, the loop of the root and the slots are left alone. *)
KeepsBarrier ==
  /\ \A x, k \in PE : mem'[x][k] = mem[x][k]
  /\ i' = i /\ arrived' = arrived /\ left' = left
  /\ \A p \in PE : pc'[p] = pc[p] \/ (~Inside(p) /\ ~Inside(p)')

(* A step that leaves the barrier alone and adds no signal keeps SInv.     *)
LEMMA OtherStep ==
  ASSUME SInv, TInv', RouteInv', KeepsBarrier,
         \A s, d \in PE : Fewer(s, d)
  PROVE  SInv'
<1>1. ASSUME NEW k \in Leaves PROVE SigInv(k)'
  <2>1. k \in PE /\ 0 \in PE
    BY PEFacts
  <2> QED BY <2>1, SameSignals DEF SInv, KeepsBarrier, Inside
<1> QED BY <1>1 DEF SInv

(* A step that leaves the queues alone adds no signal.                     *)
LEMMA StaysFewer ==
  ASSUME TypeOK, UNCHANGED <<queue_send, wire, work_queue>>
  PROVE  \A s, d \in PE : Fewer(s, d)
<1> SUFFICES ASSUME NEW s \in PE, NEW d \in PE PROVE Fewer(s, d)
  OBVIOUS
<1>1. SendAt(s, d)' = SendAt(s, d) /\ WireAt(s, d)' = WireAt(s, d) /\ WorkAt(s, d)' = WorkAt(s, d)
  BY DEF SendAt, WireAt, WorkAt
<1> QED BY <1>1, UnchangedShifted, FewerShifted

(* A put of the user's adds no signal.                                     *)
LEMMA IssueFewer ==
  ASSUME TypeOK, UNCHANGED <<wire, work_queue>>, \A s, d \in PE : SendAt(s, d)' = SendAt(s, d)
  PROVE  \A s, d \in PE : Fewer(s, d)
<1> SUFFICES ASSUME NEW s \in PE, NEW d \in PE PROVE Fewer(s, d)
  OBVIOUS
<1>1. WireAt(s, d)' = WireAt(s, d) /\ WorkAt(s, d)' = WorkAt(s, d)
  BY DEF WireAt, WorkAt
<1> QED BY <1>1, UnchangedShifted, FewerShifted

(* The calls of the program that move data keep SInv.                      *)
LEMMA UserSignals ==
  ASSUME SInv, NEW p \in PE, Store(p) \/ shmem_putmem(p) \/ shmem_getmem(p) \/ shmem_nbi(p)
  PROVE  SInv'
<1>1. TInv /\ RouteInv /\ TypeOK /\ TInv'
  BY StoreType, PutType, GetType, NbiType DEF SInv, TInv
<1> DEFINE c == Head(prog[p])
<1>2. /\ prog[p] # << >> /\ c.op \in UserOps
      /\ UNCHANGED <<pc, i, arrived, left>>
  BY DEF Store, shmem_putmem, shmem_getmem, shmem_nbi, Calls, UserOps, NbiHandler
<1>3. c.dest \in Addr /\ c.src \in Addr /\ c.pe \in PE /\ c.dest \notin PE
  BY <1>1, <1>2, CallFacts
<1>4. CASE Store(p) \/ shmem_getmem(p)
  <2>1. UNCHANGED <<queue_send, wire, work_queue>>
    BY <1>4 DEF Store, shmem_getmem, queueVars
  <2>2. \E v : mem' = mem \/ mem' = [mem EXCEPT ![p][c.dest] = v]
    BY <1>4 DEF Store, shmem_getmem, comm_get, comm_local_get, comm_remote_get
  <2> HIDE DEF c
  <2>3. KeepsBarrier
    BY <1>1, <1>2, <1>3, <2>2, KeepsPSync DEF KeepsBarrier
  <2>4. RouteInv'
    BY <1>1, <2>1 DEF RouteInv
  <2> QED BY <1>1, <2>1, <2>3, <2>4, StaysFewer, OtherStep
<1>5. CASE shmem_putmem(p)
  <2>1. UNCHANGED <<wire, work_queue>> /\ Issue(p, c.pe, c.dest, mem[p][c.src])
    BY <1>5 DEF shmem_putmem
  <2>2. mem[p][c.src] \in Value
    BY <1>1, <1>3, TypeFacts
  <2> HIDE DEF c
  <2>3. PICK q \in PE, a \in Addr, v \in Value : q = c.pe /\ a = c.dest /\ v = mem[p][c.src]
    BY <1>3, <2>2
  <2>4. Issue(p, q, a, v) /\ a \notin PE
    BY <1>3, <2>1, <2>3
  <2>5. /\ \A s \in PE : queue_send'[s] \in Seq(RoutedEntry(s))
        /\ Local(p, q) => /\ mem' = [mem EXCEPT ![q][a] = v]
                          /\ \A s, d \in PE : SendAt(s, d)' = SendAt(s, d)
        /\ ~Local(p, q) => /\ mem' = mem
                           /\ \A s, d \in PE :
                                SendAt(s, d)' = IF s = p /\ d = q /\ a \in PE
                                                THEN SendAt(s, d) \cup {Len(queue_send[p]) + 1}
                                                ELSE SendAt(s, d)
    BY <1>1, <2>4, IssueAt
  <2>6. \A s, d \in PE : SendAt(s, d)' = SendAt(s, d)
    BY <2>4, <2>5
  <2>7. KeepsBarrier
    BY <1>1, <1>2, <2>4, <2>5, KeepsPSync DEF KeepsBarrier
  <2>8. RouteInv'
    BY <1>1, <2>1, <2>5 DEF RouteInv
  <2> QED BY <1>1, <2>1, <2>6, <2>7, <2>8, IssueFewer, OtherStep
<1>6. CASE shmem_nbi(p)
  <2> DEFINE job == [handler |-> NbiHandler[c.op], origin_pe |-> p, dest_pe |-> c.pe,
                     dest |-> c.dest, src |-> c.src]
  <2>1. /\ UNCHANGED <<mem, queue_send, wire>> /\ work_thread_enqueue(p, job)
        /\ c.op \in {"put_nbi", "get_nbi"}
    BY <1>6 DEF shmem_nbi, work_put, Calls, NbiHandler
  <2>2. NbiHandler[c.op] \in {"PUT", "GET"}
    BY <2>1 DEF NbiHandler
  <2>3. job \in OwnJob
    BY <1>3, <2>2 DEF OwnJob
  <2>4. job \notin PacketJob /\ job \in RoutedJob(p) /\ job \in Job
    BY <2>3, JobKinds DEF RoutedJob, Job
  <2> HIDE DEF c, job
  <2>10. PICK j \in RoutedJob(p) : j \notin PacketJob /\ work_thread_enqueue(p, j) /\ j \in Job
    BY <2>1, <2>4
  <2>5. \A s, d \in PE : WorkAt(s, d)' = WorkAt(s, d)
    BY <1>1, <2>10, WorkAppend
  <2>6. RouteInv'
    BY <1>1, <2>1, <2>10, WorkRouted DEF RouteInv
  <2>7. KeepsBarrier
    BY <1>2, <2>1 DEF KeepsBarrier
  <2>8. ASSUME NEW s \in PE, NEW d \in PE PROVE Fewer(s, d)
    <3>1. SendAt(s, d)' = SendAt(s, d) /\ WireAt(s, d)' = WireAt(s, d)
      BY <2>1 DEF SendAt, WireAt
    <3> QED BY <1>1, <2>5, <3>1, UnchangedShifted, FewerShifted
  <2> QED BY <1>1, <2>6, <2>7, <2>8, OtherStep
<1> QED BY <1>4, <1>5, <1>6

(* shmem_quiet and the calls of comm_finalize keep SInv.                   *)
LEMMA FinalizeSignals ==
  ASSUME SInv, NEW p \in PE, shmem_quiet(p) \/ Release(p) \/ SetFinished(p) \/ Join(p)
  PROVE  SInv'
<1>1. TInv /\ RouteInv /\ TypeOK /\ TInv'
  BY QuietType, FinalizeType DEF SInv, TInv
<1>2. UNCHANGED <<mem, i, arrived, left, queue_send, wire, work_queue>>
  BY DEF shmem_quiet, Release, SetFinished, Join, queueVars
<1>3. \A q \in PE : pc'[q] = pc[q] \/ (~Inside(q) /\ ~Inside(q)')
  <2>1. pc \in [PE -> {"call", "poll", "reset", "release", "join"}]
    BY <1>1 DEF TypeOK
  <2>2. pc' = pc \/ (pc[p] \in {"call", "join"} /\ \E x \in {"call", "join"} : pc' = [pc EXCEPT ![p] = x])
    BY DEF shmem_quiet, Release, SetFinished, Join, Calls
  <2> QED BY <2>1, <2>2 DEF Inside
<1>4. KeepsBarrier
  BY <1>2, <1>3 DEF KeepsBarrier
<1>5. RouteInv'
  BY <1>1, <1>2 DEF RouteInv
<1> QED BY <1>1, <1>2, <1>4, <1>5, StaysFewer, OtherStep

(* Every step of the communication thread keeps SInv: it moves or loses    *)
(* signals, it never makes one.                                            *)
LEMMA CommThreadSignals ==
  ASSUME SInv, NEW p \in PE, CommThread(p)
  PROVE  SInv'
<1>1. TInv /\ RouteInv /\ TypeOK /\ TInv'
  BY CommThreadType, SMTT(60) DEF SInv, TInv
<1>2. UNCHANGED <<mem, i, arrived, left, pc>>
  BY DEF CommThread, Check, Received, Send, Sent, ReceiveNothing, ReceiveBadPacket, ReceivePacket,
         ReceiveMisframed, Polls, mainVars
<1>3. KeepsBarrier
  BY <1>2 DEF KeepsBarrier
<1>4. CASE UNCHANGED <<queue_send, wire, work_queue>>
  <2>1. RouteInv'
    BY <1>1, <1>4 DEF RouteInv
  <2> QED BY <1>1, <1>3, <1>4, <2>1, StaysFewer, OtherStep
<1>5. CASE Send(p)
  BY <1>1, <1>3, <1>5, SendFewer, SendRouted, OtherStep
<1>6. ASSUME NEW s \in PE, ReceivePacket(p, s) \/ ReceiveBadPacket(p, s) PROVE SInv'
  BY <1>1, <1>3, <1>6, ReceiveFewer, BadPacketFewer, ReceiveRouted, OtherStep
<1> QED BY <1>4, <1>5, <1>6
        DEF CommThread, Check, Received, Sent, ReceiveNothing, ReceiveMisframed, Polls, queueVars

(* Every step of the worker keeps SInv: a job of the program does not      *)
(* touch __pSync, and a signal that is stored was the one under way.       *)
LEMMA WorkerSignals ==
  ASSUME SInv, NEW p \in PE, Worker(p)
  PROVE  SInv'
<1>1. TInv /\ RouteInv /\ TypeOK /\ TInv'
  BY WorkerType DEF SInv, TInv
<1>2. UNCHANGED <<wire, i, arrived, left, pc, host>>
  BY DEF Worker, Execute, WorkerExit, mainVars, queueVars
<1>3. CASE WorkerExit(p)
  <2>1. UNCHANGED <<mem, queue_send, wire, work_queue>>
    BY <1>3 DEF WorkerExit, queueVars
  <2>2. RouteInv' /\ KeepsBarrier
    BY <1>1, <1>2, <2>1 DEF RouteInv, KeepsBarrier
  <2> QED BY <1>1, <2>1, <2>2, StaysFewer, OtherStep
<1>4. CASE Execute(p)
  <2> DEFINE head == Head(work_queue[p])
  <2>1. work_queue[p] # << >> /\ work_thread_dequeue(p) /\ work_queue[p] \in Seq(RoutedJob(p))
    BY <1>1, <1>4 DEF Execute, RouteInv
  <2>2. /\ head \in Job /\ head = work_queue[p][1] /\ (head \in OwnJob => head.dest \notin PE)
        /\ head \in RoutedJob(p) /\ 1 \in DOMAIN work_queue[p]
        /\ Tail(work_queue[p]) \in Seq(RoutedJob(p))
    BY <1>1, <2>1, WorkHead, QueueFacts
  <2>3. PICK job \in Job : job = head
    BY <2>2
  <2>4. /\ \A s, d \in PE : d # p => WorkAt(s, d)' = WorkAt(s, d)
        /\ \A s \in PE : \A n \in WorkAt(s, p)' : n \in Nat \ {0} /\ n + 1 \in WorkAt(s, p)
    BY <1>1, <2>1, WorkTail
  <2>5. \A s, d \in PE : \E c \in Nat : Shifted(WorkAt(s, d)', WorkAt(s, d), c)
    <3> SUFFICES ASSUME NEW s \in PE, NEW d \in PE
                 PROVE  \E c \in Nat : Shifted(WorkAt(s, d)', WorkAt(s, d), c)
      OBVIOUS
    <3>1. CASE d = p
      BY <2>4, <3>1 DEF Shifted
    <3>2. CASE d # p
      BY <1>1, <2>4, <3>2, UnchangedShifted
    <3> QED BY <3>1, <3>2
  <2>6. ASSUME \A s, d \in PE : SendAt(s, d)' = SendAt(s, d)
        PROVE  \A s, d \in PE : Fewer(s, d)
    <3> SUFFICES ASSUME NEW s \in PE, NEW d \in PE PROVE Fewer(s, d)
      OBVIOUS
    <3>1. WireAt(s, d)' = WireAt(s, d)
      BY <1>2 DEF WireAt
    <3> QED BY <1>1, <2>5, <2>6, <3>1, UnchangedShifted, FewerShifted
  <2>7. \A d \in PE : work_queue'[d] \in Seq(RoutedJob(d))
    <3>1. work_queue \in [PE -> Seq(Job)]
      BY <1>1, SeqTypes
    <3> QED BY <1>1, <2>1, <2>2, <3>1 DEF work_thread_dequeue, RouteInv
  <2>8. CASE job.handler = "GET"
    <3>1. UNCHANGED <<mem, queue_send>>
      BY <1>4, <2>3, <2>8 DEF Execute
    <3>2. RouteInv' /\ KeepsBarrier
      BY <1>1, <1>2, <2>7, <3>1 DEF RouteInv, KeepsBarrier
    <3>3. \A s, d \in PE : SendAt(s, d)' = SendAt(s, d)
      BY <3>1 DEF SendAt
    <3> QED BY <1>1, <2>6, <3>2, <3>3, OtherStep
  <2>9. CASE job.handler # "GET" /\ job \in OwnJob
    <3>1. /\ job.dest_pe \in PE /\ job.dest \in Addr /\ job.src \in Addr /\ "src" \in DOMAIN job
          /\ job.dest \notin PE
      BY <2>2, <2>3, <2>9, JobKinds DEF OwnJob
    <3>2. Issue(p, job.dest_pe, job.dest, mem[p][job.src]) /\ mem[p][job.src] \in Value
      BY <1>1, <1>4, <2>3, <2>9, <3>1, TypeFacts DEF Execute
    <3>3. PICK q \in PE, a \in Addr, v \in Value :
            q = job.dest_pe /\ a = job.dest /\ v = mem[p][job.src]
      BY <3>1, <3>2
    <3>4. Issue(p, q, a, v) /\ a \notin PE
      BY <3>1, <3>2, <3>3
    <3>5. /\ \A s \in PE : queue_send'[s] \in Seq(RoutedEntry(s))
          /\ Local(p, q) => /\ mem' = [mem EXCEPT ![q][a] = v]
                            /\ \A s, d \in PE : SendAt(s, d)' = SendAt(s, d)
          /\ ~Local(p, q) => /\ mem' = mem
                             /\ \A s, d \in PE :
                                  SendAt(s, d)' = IF s = p /\ d = q /\ a \in PE
                                                  THEN SendAt(s, d) \cup {Len(queue_send[p]) + 1}
                                                  ELSE SendAt(s, d)
      BY <1>1, <3>4, IssueAt
    <3>6. \A s, d \in PE : SendAt(s, d)' = SendAt(s, d)
      BY <3>4, <3>5
    <3>7. KeepsBarrier
      BY <1>1, <1>2, <3>4, <3>5, KeepsPSync DEF KeepsBarrier
    <3>8. RouteInv'
      BY <1>1, <1>2, <2>7, <3>5 DEF RouteInv
    <3> QED BY <1>1, <2>6, <3>6, <3>7, <3>8, OtherStep
  <2>10. CASE job \in PacketJob
    <3>1. /\ job.dest_pe = p /\ job.origin_pe \in PE /\ job.data_buf \in Put
          /\ Route(job.origin_pe, p, job.data_buf)
          /\ "src" \notin DOMAIN job /\ job.handler # "GET"
      BY <2>2, <2>3, <2>10, JobKinds DEF PacketJob, RoutedJob
    <3>2. /\ comm_put(p, p, job.data_buf)
      BY <1>4, <2>3, <3>1 DEF Execute
    <3>3. PICK s \in PE, a \in Addr, v \in Value :
            s = job.origin_pe /\ a = job.data_buf.dest /\ v = job.data_buf.val
      BY <3>1 DEF Put, Value
    <3>4. mem' = [mem EXCEPT ![p][a] = v] /\ queue_send' = queue_send
      BY <3>2, <3>3 DEF comm_put, Local, comm_local_put
    <3>5. (\A c, d \in PE : SendAt(c, d)' = SendAt(c, d)) /\ (\A c, d \in PE : Fewer(c, d))
      <4>1. \A c, d \in PE : SendAt(c, d)' = SendAt(c, d)
        BY <3>4 DEF SendAt
      <4> QED BY <2>6, <4>1
    <3>6. RouteInv'
      BY <1>1, <1>2, <2>7, <3>4 DEF RouteInv
    <3>7. CASE a \notin PE
      <4>1. KeepsBarrier
        BY <1>1, <1>2, <3>4, <3>7, KeepsPSync DEF KeepsBarrier
      <4> QED BY <1>1, <3>5, <3>6, <4>1, OtherStep
    <3>8. CASE a \in PE
      <4>1. (s = 0 /\ p \in Leaves /\ a = p) \/ (p = 0 /\ s \in Leaves /\ a = s)
        BY <3>1, <3>3, <3>8 DEF Route
      <4>2. PICK k \in Leaves : a = k /\ ((s = 0 /\ p = k) \/ (s = k /\ p = 0))
        BY <4>1
      <4>3. k \in PE /\ 0 \in PE /\ k # 0 /\ k \in Addr
        BY PEFacts
      <4>4. 1 \in WorkAt(s, p)
        BY <2>2, <2>3, <2>10, <3>3, <3>8 DEF WorkAt
      <4>5. ~NoneUnderWay(s, p)
        BY <4>4 DEF NoneUnderWay
      <4>6. NoneUnderWay(s, p)'
        <5>1. AtMostOne(s, p)
          BY <4>2 DEF SInv, SigInv
        <5>2. SendAt(s, p) = {} /\ WireAt(s, p) = {} /\ \A m, n \in WorkAt(s, p) : m = n
          BY <4>4, <5>1 DEF AtMostOne
        <5>3. WorkAt(s, p)' = {}
          BY <2>4, <4>4, <5>2
        <5>4. WireAt(s, p)' = WireAt(s, p)
          BY <1>2 DEF WireAt
        <5> QED BY <3>5, <5>2, <5>3, <5>4 DEF NoneUnderWay
      <4>7. mem \in [PE -> [Addr -> Value]]
        BY <1>1, TypeFacts DEF MemType
      <4>8. \A x, y \in PE : mem'[x][y] = IF x = p /\ y = k THEN v ELSE mem[x][y]
        BY <3>4, <4>2, <4>7, PEFacts
      <4>9. ASSUME NEW j \in Leaves, j # k PROVE SigInv(j)'
        <5>1. j \in PE /\ 0 \in PE
          BY PEFacts
        <5>2. mem'[0][j] = mem[0][j] /\ mem'[j][j] = mem[j][j]
          BY <4>8, <4>9, <5>1
        <5> QED BY <1>1, <1>2, <3>5, <5>1, <5>2, SameSignals DEF SInv
      <4>10. /\ SigInv(k) /\ AtMostOne(k, 0)' /\ AtMostOne(0, k)'
             /\ AtRoot(k)' = AtRoot(k) /\ Released(k)' = Released(k)
        BY <1>2, <3>5, <4>3 DEF SInv, SigInv, Fewer, AtRoot, Released
      <4> HIDE DEF AtRoot, Released
      <4>11. CASE s = 0 /\ p = k
        <5>1. mem'[0][k] = mem[0][k]
          BY <4>3, <4>8, <4>11
        <5>2. UpInv(k)'
          BY <1>2, <3>5, <4>3, <4>10, <5>1 DEF SigInv, UpInv, Fewer
        <5>3. DownInv(k)' /\ mem[k][k] = 0
          BY <1>2, <4>5, <4>6, <4>10, <4>11 DEF SigInv, DownInv
        <5>4. SigInv(k)'
          BY <1>2, <4>10, <5>1, <5>2, <5>3 DEF SigInv
        <5> QED BY <1>1, <3>6, <4>9, <5>4 DEF SInv
      <4>12. CASE s = k /\ p = 0
        <5>1. mem'[k][k] = mem[k][k]
          BY <4>3, <4>8, <4>12
        <5>2. UpInv(k)' /\ mem[0][k] = 0
          BY <1>2, <4>5, <4>6, <4>10, <4>12 DEF SigInv, UpInv
        <5>3. DownInv(k)'
          BY <1>2, <3>5, <4>3, <4>10, <5>1 DEF SigInv, DownInv, Fewer
        <5>4. SigInv(k)'
          BY <1>2, <4>10, <5>1, <5>2, <5>3 DEF SigInv
        <5> QED BY <1>1, <3>6, <4>9, <5>4 DEF SInv
      <4> QED BY <4>2, <4>11, <4>12
    <3> QED BY <3>7, <3>8
  <2> QED BY <2>8, <2>9, <2>10 DEF Job
<1> QED BY <1>3, <1>4 DEF Worker

(* The numbers SigInv relates, and their types.                            *)
LEMMA SignalArith ==
  ASSUME SInv, NEW k \in Leaves
  PROVE  /\ left[0] \in Nat /\ left[k] \in Nat /\ arrived[k] \in Nat /\ i \in Nat /\ 1 <= i /\ i <= N
         /\ Released(k) \in Nat /\ Released(k) >= left[0] /\ Released(k) <= left[0] + 1
         /\ arrived[k] = left[k] + Bit(Inside(k)) /\ k \in Nat /\ k < N /\ 1 <= k /\ k \in PE /\ k # 0
         /\ 0 \in PE /\ N \in Nat /\ SigInv(k)
<1>1. TypeOK /\ k \in PE /\ 0 \in PE
  BY PEFacts DEF SInv, TInv
<1>2. left[0] \in Nat /\ left[k] \in Nat /\ arrived[k] \in Nat /\ i \in Nat /\ 1 <= i /\ i <= N
  BY <1>1, TypeFacts
<1>3. arrived[k] = left[k] + Bit(Inside(k))
  BY <1>1 DEF SInv, TInv, CallInv, CallOK
<1>4. Released(k) \in Nat /\ Released(k) >= left[0] /\ Released(k) <= left[0] + 1
  BY <1>2 DEF Released, Bit
<1> QED BY <1>1, <1>2, <1>3, <1>4, PEFacts DEF SInv

(* Entering, polling, finishing the first loop and returning: the root     *)
(* changes neither slots nor queues, and keeps SInv.                       *)
LEMMA RootWaitSignals == ASSUME SInv, RootEnter \/ RootPoll \/ RootGathered \/ RootReturn PROVE SInv'
<1>1. TInv /\ RouteInv /\ TypeOK /\ TInv'
  BY RootType DEF SInv, TInv
<1>2. UNCHANGED <<mem, queue_send, wire, work_queue>>
  BY DEF RootEnter, RootPoll, RootGathered, RootReturn, queueVars
<1>3. RouteInv'
  BY <1>1, <1>2 DEF RouteInv
<1>4. \A s, d \in PE : Fewer(s, d)
  BY <1>1, <1>2, StaysFewer
<1>5. ASSUME NEW k \in Leaves PROVE SigInv(k)'
  <2>1. /\ left[0] \in Nat /\ left[k] \in Nat /\ arrived[k] \in Nat /\ i \in Nat /\ 1 <= i /\ i <= N
        /\ Released(k) \in Nat /\ k \in Nat /\ k < N /\ 1 <= k /\ k \in PE /\ k # 0
        /\ 0 \in PE /\ N \in Nat /\ SigInv(k)
    BY SignalArith
  <2>2. /\ pc \in [PE -> {"call", "poll", "reset", "release", "join"}]
        /\ arrived \in [PE -> 0 .. MaxRounds] /\ left \in [PE -> 0 .. MaxRounds]
    BY <1>1 DEF TypeOK
  <2>3. /\ arrived'[k] = arrived[k] /\ left'[k] = left[k] /\ pc'[k] = pc[k]
    BY <2>1, <2>2 DEF RootEnter, RootPoll, RootGathered, RootReturn, BarrierCall, BarrierReturn
  <2>4. /\ AtRoot(k)' = AtRoot(k) /\ Released(k)' = Released(k)
        /\ (pc'[0] = "reset" /\ i' = k => mem[0][k] # 0)
    <3>1. CASE RootEnter
      <4>1. pc[0] = "call" /\ pc'[0] = "poll" /\ i' = 1 /\ left' = left
        BY <2>1, <2>2, <3>1 DEF RootEnter, BarrierCall, Calls
      <4> QED BY <2>1, <4>1 DEF AtRoot, Released, Bit
    <3>2. CASE RootPoll
      <4>1. pc[0] = "poll" /\ pc'[0] = "reset" /\ i' = i /\ left' = left /\ mem[0][i] # 0
        BY <2>1, <2>2, <3>2 DEF RootPoll
      <4> QED BY <2>1, <4>1 DEF AtRoot, Released, Bit
    <3>3. CASE RootGathered
      <4>1. pc[0] = "poll" /\ pc'[0] = "release" /\ i = N /\ i' = 1 /\ left' = left
        BY <2>1, <2>2, <3>3 DEF RootGathered
      <4> QED BY <2>1, <4>1 DEF AtRoot, Released, Bit
    <3>4. CASE RootReturn
      <4>1. pc[0] = "release" /\ pc'[0] = "call" /\ i = N /\ i' = i /\ left'[0] = left[0] + 1
        BY <2>1, <2>2, <3>4 DEF RootReturn, BarrierReturn
      <4> QED BY <2>1, <4>1 DEF AtRoot, Released, Bit
    <3> QED BY <3>1, <3>2, <3>3, <3>4
  <2> HIDE DEF AtRoot, Released
  <2>5. Fewer(k, 0) /\ Fewer(0, k)
    BY <1>4, <2>1
  <2>6. UpInv(k)'
    BY <1>2, <2>1, <2>3, <2>4, <2>5 DEF SigInv, UpInv, Fewer
  <2>7. DownInv(k)'
    BY <1>2, <2>1, <2>3, <2>4, <2>5 DEF SigInv, DownInv, Fewer
  <2> QED BY <1>2, <2>1, <2>3, <2>4, <2>5, <2>6, <2>7 DEF SigInv, Fewer
<1> QED BY <1>1, <1>3, <1>5 DEF SInv

(* The root resets the slot it has seen set: from there on it holds the    *)
(* signal.                                                                 *)
LEMMA RootResetSignals == ASSUME SInv, RootReset PROVE SInv'
<1>1. TInv /\ RouteInv /\ TypeOK /\ TInv'
  BY RootType DEF SInv, TInv
<1>2. UNCHANGED <<left, arrived, queue_send, wire, work_queue>> /\ i' = i + 1
  BY DEF RootReset, queueVars
<1>3. RouteInv'
  BY <1>1, <1>2 DEF RouteInv
<1>4. \A s, d \in PE : Fewer(s, d)
  BY <1>1, <1>2, StaysFewer
<1>0. pc[0] = "reset" /\ i < N /\ i \in PE /\ 0 \in PE /\ mem' = [mem EXCEPT ![0][i] = 0]
  BY <1>1, PEFacts, TypeFacts DEF RootReset, TInv, LoopInv
<1>6. mem \in [PE -> [Addr -> Value]] /\ pc \in [PE -> {"call", "poll", "reset", "release", "join"}]
  BY <1>1, TypeFacts DEF MemType, TypeOK
<1>7. pc' = [pc EXCEPT ![0] = "poll"]
  BY DEF RootReset
<1>5. ASSUME NEW k \in Leaves PROVE SigInv(k)'
  <2>1. /\ left[0] \in Nat /\ left[k] \in Nat /\ arrived[k] \in Nat /\ i \in Nat /\ 1 <= i /\ i <= N
        /\ Released(k) \in Nat /\ k \in Nat /\ k < N /\ 1 <= k /\ k \in PE /\ k # 0
        /\ 0 \in PE /\ N \in Nat /\ SigInv(k)
    BY SignalArith
  <2>2. mem'[k][k] = mem[k][k] /\ (k # i => mem'[0][k] = mem[0][k]) /\ (k = i => mem'[0][k] = 0)
    BY <1>0, <1>6, <2>1, PEFacts
  <2>3. pc'[0] = "poll" /\ pc'[k] = pc[k]
    BY <1>6, <1>7, <2>1
  <2>4. /\ Released(k)' = Released(k)
        /\ k # i => AtRoot(k)' = AtRoot(k)
        /\ k = i => AtRoot(k)'
    BY <1>0, <1>2, <2>1, <2>3 DEF Released, AtRoot, Bit
  <2>8. k = i => mem[0][k] # 0
    BY <1>0, <2>1 DEF SigInv
  <2> HIDE DEF AtRoot, Released
  <2>5. Fewer(k, 0) /\ Fewer(0, k)
    BY <1>4, <2>1
  <2>6. UpInv(k)'
    BY <1>2, <2>1, <2>2, <2>4, <2>5, <2>8 DEF SigInv, UpInv, Fewer
  <2>7. DownInv(k)'
    BY <1>2, <2>1, <2>2, <2>4, <2>5 DEF SigInv, DownInv, Fewer
  <2> QED BY <1>2, <2>1, <2>2, <2>3, <2>4, <2>5, <2>6, <2>7 DEF SigInv, Fewer
<1> QED BY <1>1, <1>3, <1>5 DEF SInv

(* A signal put when none is under way is the only one.                    *)
LEMMA FirstSignal ==
  ASSUME TypeOK, NEW s \in PE, NEW d \in PE, NEW n, NoneUnderWay(s, d), UNCHANGED <<wire, work_queue>>,
         SendAt(s, d)' = SendAt(s, d) \cup {n} \/ SendAt(s, d)' = SendAt(s, d)
  PROVE  AtMostOne(s, d)'
<1>1. WireAt(s, d)' = {} /\ WorkAt(s, d)' = {}
  BY DEF NoneUnderWay, WireAt, WorkAt
<1>2. SendAt(s, d) = {}
  BY DEF NoneUnderWay
<1> QED BY <1>1, <1>2 DEF AtMostOne

(* A signal is put from p to q, one of which is the root and the other k. *)
LEMMA SignalIssued ==
  ASSUME SInv, NEW k \in Leaves, NEW p \in PE, NEW q \in PE,
         (p = 0 /\ q = k) \/ (p = k /\ q = 0), NoneUnderWay(p, q),
         Issue(p, q, k, 1), UNCHANGED <<wire, work_queue>>
  PROVE  /\ RouteInv'
         /\ \A s, d \in PE : s # p \/ d # q => Fewer(s, d)
         /\ AtMostOne(p, q)'
         /\ \A x, y \in PE : x # q \/ y # k => mem'[x][y] = mem[x][y]
         /\ \/ mem'[q][k] = 1 /\ NoneUnderWay(p, q)'
            \/ mem'[q][k] = mem[q][k]
<1>1. TInv /\ RouteInv /\ TypeOK /\ k \in PE /\ k \in Addr /\ 1 \in Value
  BY PEFacts DEF SInv, TInv, Value
<1>2. /\ \A s \in PE : queue_send'[s] \in Seq(RoutedEntry(s))
      /\ Local(p, q) => /\ mem' = [mem EXCEPT ![q][k] = 1]
                        /\ \A s, d \in PE : SendAt(s, d)' = SendAt(s, d)
      /\ ~Local(p, q) => /\ mem' = mem
                         /\ \A s, d \in PE :
                              SendAt(s, d)' = IF s = p /\ d = q /\ k \in PE
                                              THEN SendAt(s, d) \cup {Len(queue_send[p]) + 1}
                                              ELSE SendAt(s, d)
  BY <1>1, IssueAt
<1>3. RouteInv'
  BY <1>1, <1>2 DEF RouteInv
<1>4. mem \in [PE -> [Addr -> Value]]
  BY <1>1, TypeFacts DEF MemType
<1>5. \A x, y \in PE : x # q \/ y # k => mem'[x][y] = mem[x][y]
  BY <1>1, <1>2, <1>4, PEFacts
<1>6. ASSUME NEW s \in PE, NEW d \in PE, s # p \/ d # q PROVE Fewer(s, d)
  <2>1. SendAt(s, d)' = SendAt(s, d) /\ WireAt(s, d)' = WireAt(s, d) /\ WorkAt(s, d)' = WorkAt(s, d)
    BY <1>2, <1>6 DEF WireAt, WorkAt
  <2> QED BY <1>1, <2>1, UnchangedShifted, FewerShifted
<1>7. AtMostOne(p, q)'
  BY <1>1, <1>2, FirstSignal
<1>8. CASE Local(p, q)
  <2>1. mem'[q][k] = 1
    BY <1>1, <1>2, <1>4, <1>8
  <2>2. WireAt(p, q)' = WireAt(p, q) /\ WorkAt(p, q)' = WorkAt(p, q) /\ SendAt(p, q)' = SendAt(p, q)
    BY <1>2, <1>8 DEF WireAt, WorkAt
  <2> QED BY <1>3, <1>5, <1>6, <1>7, <2>1, <2>2 DEF NoneUnderWay
<1>9. CASE ~Local(p, q)
  BY <1>2, <1>3, <1>5, <1>6, <1>7, <1>9
<1> QED BY <1>8, <1>9

(* The root releases a leaf whose signal it holds: there is no release     *)
(* under way yet, because the leaf has not returned since.                 *)
LEMMA RootReleaseSignals == ASSUME SInv, RootRelease PROVE SInv'
<1>1. TInv /\ RouteInv /\ TypeOK /\ TInv'
  BY RootType DEF SInv, TInv
<1>2. /\ UNCHANGED <<left, arrived, pc, wire, work_queue>> /\ i' = i + 1
      /\ pc[0] = "release" /\ i < N /\ Issue(0, i, i, 1)
  BY DEF RootRelease
<1>3. PICK k \in Leaves : k = i
  BY <1>1, <1>2, TypeFacts
<1>4. /\ left[0] \in Nat /\ left[k] \in Nat /\ arrived[k] \in Nat
      /\ Released(k) \in Nat /\ arrived[k] = left[k] + Bit(Inside(k))
      /\ k \in Nat /\ k \in PE /\ k # 0 /\ 0 \in PE /\ SigInv(k)
  BY SignalArith
<1>5. AtRoot(k) /\ ~AtRoot(k)' /\ Released(k)' = Released(k) + 1
  BY <1>2, <1>3, <1>4 DEF AtRoot, Released, Bit
<1>6. /\ arrived[k] = Released(k) + 1 /\ NoneUnderWay(k, 0) /\ mem[0][k] = 0
  BY <1>4, <1>5 DEF SigInv, UpInv
<1>7. left[k] = Released(k)
  <2>1. left[k] <= Released(k) /\ Bit(Inside(k)) \in {0, 1}
    BY <1>4 DEF SigInv, Bit
  <2> QED BY <1>4, <1>6, <2>1
<1>8. NoneUnderWay(0, k) /\ mem[k][k] = 0
  BY <1>4, <1>7 DEF SigInv, DownInv
<1>9. Issue(0, k, k, 1)
  BY <1>2, <1>3
<1>10. /\ RouteInv'
       /\ \A s, d \in PE : s # 0 \/ d # k => Fewer(s, d)
       /\ AtMostOne(0, k)'
       /\ \A x, y \in PE : x # k \/ y # k => mem'[x][y] = mem[x][y]
       /\ \/ mem'[k][k] = 1 /\ NoneUnderWay(0, k)'
          \/ mem'[k][k] = mem[k][k]
  BY <1>2, <1>4, <1>8, <1>9, SignalIssued
<1>11. SigInv(k)'
  <2>1. Fewer(k, 0) /\ mem'[0][k] = 0
    BY <1>4, <1>6, <1>10
  <2>2. NoneUnderWay(k, 0)' /\ AtMostOne(k, 0)'
    BY <1>4, <1>6, <2>1 DEF Fewer, SigInv
  <2> HIDE DEF AtRoot, Released
  <2>3. UpInv(k)'
    BY <1>5, <2>1, <2>2 DEF UpInv
  <2>4. DownInv(k)'
    BY <1>2, <1>4, <1>5, <1>7, <1>8, <1>10 DEF DownInv
  <2>5. pc[k] # "reset" /\ pc[0] # "reset"
    BY <1>2, <1>4, <1>8 DEF SigInv
  <2>6. left'[k] <= Released(k)' /\ Released(k)' <= arrived'[k]
    BY <1>2, <1>4, <1>5, <1>6, <1>7
  <2> QED BY <1>2, <1>10, <2>2, <2>3, <2>4, <2>5, <2>6 DEF SigInv
<1>12. ASSUME NEW j \in Leaves, j # k PROVE SigInv(j)'
  <2>1. /\ j \in PE /\ j # 0 /\ j \in Nat /\ SigInv(j) /\ i \in Nat /\ left[0] \in Nat
    BY SignalArith
  <2>2. AtRoot(j)' = AtRoot(j) /\ Released(j)' = Released(j)
    BY <1>2, <1>3, <1>12, <2>1 DEF AtRoot, Released, Bit
  <2>3. Fewer(j, 0) /\ Fewer(0, j) /\ mem'[0][j] = mem[0][j] /\ mem'[j][j] = mem[j][j]
    BY <1>4, <1>10, <1>12, <2>1
  <2>5. pc[0] # "reset"
    BY <1>2
  <2> HIDE DEF AtRoot, Released
  <2>6. UpInv(j)'
    BY <1>2, <2>1, <2>2, <2>3 DEF SigInv, UpInv, Fewer
  <2>7. DownInv(j)'
    BY <1>2, <2>1, <2>2, <2>3 DEF SigInv, DownInv, Fewer
  <2> QED BY <1>2, <2>1, <2>2, <2>3, <2>5, <2>6, <2>7 DEF SigInv, Fewer
<1> QED BY <1>1, <1>10, <1>11, <1>12 DEF SInv

(* A leaf that calls the barrier has no signal under way; one that returns *)
(* has been released.                                                      *)
LEMMA LeafSignals ==
  ASSUME SInv, NEW k \in Leaves, LeafEnter(k) \/ LeafPoll(k) \/ LeafReset(k)
  PROVE  SInv'
<1>1. TInv /\ RouteInv /\ TypeOK /\ TInv'
  BY LeafType DEF SInv, TInv
<1>2. /\ left[0] \in Nat /\ left[k] \in Nat /\ arrived[k] \in Nat
      /\ Released(k) \in Nat /\ arrived[k] = left[k] + Bit(Inside(k))
      /\ k \in Nat /\ k \in PE /\ k # 0 /\ 0 \in PE /\ SigInv(k)
  BY SignalArith
<1>3. /\ pc \in [PE -> {"call", "poll", "reset", "release", "join"}]
      /\ arrived \in [PE -> 0 .. MaxRounds] /\ left \in [PE -> 0 .. MaxRounds]
      /\ mem \in [PE -> [Addr -> Value]]
  BY <1>1, TypeFacts DEF TypeOK, MemType
<1>4. /\ i' = i
      /\ \A q \in PE : q # k => /\ pc'[q] = pc[q] /\ arrived'[q] = arrived[q]
                               /\ left'[q] = left[q]
  BY <1>2, <1>3 DEF LeafEnter, LeafPoll, LeafReset, BarrierCall, BarrierReturn
<1>5. \A j \in Leaves : AtRoot(j)' = AtRoot(j) /\ Released(j)' = Released(j)
  BY <1>2, <1>4 DEF AtRoot, Released
<1>6. ASSUME NEW j \in Leaves, j # k, Fewer(j, 0), Fewer(0, j),
             mem'[0][j] = mem[0][j], mem'[j][j] = mem[j][j]
      PROVE  SigInv(j)'
  <2>1. j \in PE /\ j # k /\ SigInv(j)
    BY <1>6, PEFacts DEF SInv
  <2> QED BY <1>1, <1>2, <1>4, <1>6, <2>1, SameSignals
<1> HIDE DEF AtRoot, Released
<1>7. CASE LeafEnter(k)
  <2>1. /\ pc[k] = "call" /\ pc'[k] = "poll" /\ arrived'[k] = arrived[k] + 1 /\ left' = left
        /\ Issue(k, 0, k, 1) /\ UNCHANGED <<wire, work_queue>>
    BY <1>2, <1>3, <1>7 DEF LeafEnter, BarrierCall, Calls
  <2>2. arrived[k] = left[k]
    BY <1>2, <2>1 DEF Inside, Bit
  <2>3. left[k] <= Released(k) /\ Released(k) <= arrived[k]
    BY <1>2 DEF SigInv
  <2>4. Released(k) = arrived[k]
    BY <1>2, <2>2, <2>3
  <2>5. NoneUnderWay(k, 0) /\ mem[0][k] = 0 /\ ~AtRoot(k)
    BY <1>2, <2>4 DEF SigInv, UpInv
  <2>6. /\ RouteInv'
        /\ \A s, d \in PE : s # k \/ d # 0 => Fewer(s, d)
        /\ AtMostOne(k, 0)'
        /\ \A x, y \in PE : x # 0 \/ y # k => mem'[x][y] = mem[x][y]
        /\ \/ mem'[0][k] = 1 /\ NoneUnderWay(k, 0)'
           \/ mem'[0][k] = mem[0][k]
    BY <1>2, <2>1, <2>5, SignalIssued, ZenonT(60)
  <2>7. Fewer(0, k) /\ mem'[k][k] = mem[k][k]
    BY <1>2, <2>6
  <2>8. UpInv(k)'
    BY <1>2, <1>5, <2>1, <2>4, <2>5, <2>6 DEF UpInv
  <2>9. DownInv(k)'
    BY <1>2, <1>5, <2>1, <2>7 DEF SigInv, DownInv, Fewer
  <2>10. ~(pc[0] = "reset" /\ i = k)
    BY <1>2, <2>5 DEF SigInv
  <2>11. Released(k)' <= arrived'[k] /\ left'[k] <= Released(k)'
    BY <1>2, <1>5, <2>1, <2>2, <2>4
  <2>12. AtMostOne(0, k)' /\ pc'[0] = pc[0]
    BY <1>2, <1>4, <2>7 DEF SigInv, Fewer
  <2>13. SigInv(k)'
    BY <1>4, <2>1, <2>6, <2>8, <2>9, <2>10, <2>11, <2>12 DEF SigInv
  <2>14. ASSUME NEW j \in Leaves, j # k PROVE SigInv(j)'
    <3>1. j \in PE /\ j # 0
      BY PEFacts
    <3>2. Fewer(j, 0) /\ Fewer(0, j) /\ mem'[0][j] = mem[0][j] /\ mem'[j][j] = mem[j][j]
      BY <1>2, <2>6, <2>14, <3>1
    <3> QED BY <1>6, <2>14, <3>2
  <2> QED BY <1>1, <2>6, <2>13, <2>14 DEF SInv
<1>8. CASE LeafPoll(k) \/ LeafReset(k)
  <2>1. UNCHANGED <<queue_send, wire, work_queue>>
    BY <1>8 DEF LeafPoll, LeafReset, queueVars
  <2>2. RouteInv'
    BY <1>1, <2>1 DEF RouteInv
  <2>3. \A s, d \in PE : Fewer(s, d)
    BY <1>1, <2>1, StaysFewer
  <2>4. \A x, y \in PE : x # k \/ y # k => mem'[x][y] = mem[x][y]
    BY <1>2, <1>3, <1>8, PEFacts DEF LeafPoll, LeafReset
  <2>5. ASSUME NEW j \in Leaves, j # k PROVE SigInv(j)'
    <3>1. j \in PE /\ j # 0
      BY PEFacts
    <3> QED BY <1>2, <1>6, <2>3, <2>4, <2>5, <3>1
  <2>6. /\ mem[k][k] # 0 /\ arrived' = arrived /\ mem'[0][k] = mem[0][k]
        /\ Fewer(k, 0) /\ Fewer(0, k) /\ pc'[0] = pc[0]
        /\ \/ pc'[k] = "reset" /\ left'[k] = left[k] /\ mem'[k][k] = mem[k][k]
           \/ pc'[k] = "call" /\ left'[k] = left[k] + 1 /\ mem'[k][k] = 0
    BY <1>2, <1>3, <1>4, <1>8, <2>3, <2>4, PEFacts DEF LeafPoll, LeafReset, BarrierReturn, SigInv
  <2>7. NoneUnderWay(0, k) /\ left[k] + 1 = Released(k)
    BY <1>2, <2>6 DEF SigInv, DownInv
  <2>8. UpInv(k)'
    BY <1>2, <1>5, <2>6 DEF SigInv, UpInv, Fewer
  <2>9. DownInv(k)'
    BY <1>5, <2>6, <2>7 DEF DownInv, Fewer
  <2>10. left'[k] <= Released(k)'
    BY <1>2, <1>5, <2>6, <2>7
  <2>11. /\ AtMostOne(k, 0)' /\ AtMostOne(0, k)' /\ Released(k)' <= arrived'[k]
         /\ pc'[0] = "reset" /\ i' = k => mem'[0][k] # 0
         /\ pc'[k] = "reset" => mem'[k][k] # 0
    BY <1>2, <1>4, <1>5, <2>6 DEF SigInv, Fewer
  <2>12. SigInv(k)'
    BY <2>8, <2>9, <2>10, <2>11 DEF SigInv
  <2> QED BY <1>1, <2>2, <2>5, <2>12 DEF SInv
<1> QED BY <1>7, <1>8

(* SInv holds when every PE has returned from shmem_init.                  *)
LEMMA InitSInv == Init => SInv
<1> SUFFICES ASSUME Init PROVE SInv
  OBVIOUS
<1>1. TInv
  BY InitTInv
<1>2. /\ \A s \in PE : queue_send[s] = << >> /\ work_queue[s] = << >>
      /\ \A s, d \in PE : wire[s][d] = << >>
      /\ \A s, k \in PE : mem[s][k] = 0
      /\ \A p \in PE : pc[p] = "call" /\ arrived[p] = 0 /\ left[p] = 0
  BY PEFacts DEF Init, Idle
<1>3. \A S : << >> \in Seq(S)
  OBVIOUS
<1>4. RouteInv
  BY <1>2, <1>3 DEF RouteInv
<1>5. \A s, d \in PE : SendAt(s, d) = {} /\ WireAt(s, d) = {} /\ WorkAt(s, d) = {}
  BY <1>2 DEF SendAt, WireAt, WorkAt
<1>6. \A s, d \in PE : NoneUnderWay(s, d) /\ AtMostOne(s, d)
  BY <1>5 DEF NoneUnderWay, AtMostOne
<1>7. ASSUME NEW k \in Leaves PROVE SigInv(k)
  <2>1. k \in PE /\ 0 \in PE
    BY PEFacts
  <2>2. ~AtRoot(k) /\ Released(k) = 0
    BY <1>2, <2>1 DEF AtRoot, Released, Bit
  <2> QED BY <1>2, <1>6, <2>1, <2>2 DEF SigInv, UpInv, DownInv
<1> QED BY <1>1, <1>4, <1>7 DEF SInv

(* Every step of every thread keeps SInv.                                  *)
LEMMA NextSInv == SInv /\ [Next]_vars => SInv'
<1> SUFFICES ASSUME SInv, [Next]_vars PROVE SInv'
  OBVIOUS
<1>1. ASSUME NEW p \in PE, MainThread(p) PROVE SInv'
  <2>1. p # 0 => p \in Leaves
    BY PEFacts
  <2> QED BY <1>1, <2>1, UserSignals, FinalizeSignals, RootWaitSignals, RootResetSignals,
             RootReleaseSignals, LeafSignals
          DEF MainThread
<1>2. ASSUME UNCHANGED vars PROVE SInv'
  <2>1. UNCHANGED <<mem, i, pc, arrived, left, queue_send, wire, work_queue>>
    BY <1>2 DEF vars, mainVars, queueVars
  <2>2. TInv /\ TInv' /\ RouteInv' /\ KeepsBarrier /\ TypeOK
    BY <2>1, NextTInv DEF SInv, TInv, RouteInv, KeepsBarrier
  <2> QED BY <2>1, <2>2, StaysFewer, OtherStep
<1> QED BY <1>1, <1>2, WorkerSignals, CommThreadSignals DEF Next, Finished

(* Comm.NoEarlyReturn: no PE returns from comm_barrier_all before every PE *)
(* has called it (comm.c:96-115), although reads split packets             *)
(* (comm_remote.c:116-130), full sockets cut writes short                  *)
(* (comm_remote.c:146) and the program's puts share all queues.            *)
THEOREM NoReturnIsEarly == Spec => []NoEarlyReturn
<1>1. SInv => NoEarlyReturn
  <2> SUFFICES ASSUME SInv, NEW p \in PE, NEW q \in PE PROVE left[p] <= arrived[q]
    BY DEF NoEarlyReturn
  <2>1. /\ 0 \in PE /\ left[0] \in Nat /\ arrived[0] \in Nat
        /\ arrived[0] = left[0] + Bit(Inside(0))
    BY PEFacts, TypeFacts DEF SInv, TInv, CallInv, CallOK
  <2>2. (p # 0 => p \in Leaves) /\ (q # 0 => q \in Leaves)
    BY PEFacts
  <2>3. ASSUME NEW k \in Leaves
        PROVE  /\ left[k] \in Nat /\ arrived[k] \in Nat /\ k \in Nat /\ i \in Nat
               /\ left[0] \in Nat
               /\ left[k] <= left[0] + Bit(pc[0] = "release")
               /\ left[0] + Bit(pc[0] = "release") <= arrived[k]
    <3>1. /\ left[k] \in Nat /\ arrived[k] \in Nat /\ k \in Nat /\ i \in Nat /\ left[0] \in Nat
          /\ SigInv(k)
      BY SignalArith
    <3>2. left[k] <= Released(k) /\ Released(k) <= arrived[k]
          /\ (AtRoot(k) => arrived[k] = Released(k) + 1)
      BY <3>1 DEF SigInv, UpInv
    <3>3. CASE pc[0] = "release"
      BY <3>1, <3>2, <3>3 DEF Released, AtRoot, Bit
    <3>4. CASE pc[0] # "release"
      BY <3>1, <3>2, <3>4 DEF Released, Bit
    <3> QED BY <3>1, <3>3, <3>4
  <2>4. left[0] + Bit(pc[0] = "release") <= arrived[0] /\ left[0] <= left[0] + Bit(pc[0] = "release")
        /\ Bit(pc[0] = "release") \in Nat
    BY <2>1 DEF Inside, Bit
  <2>5. /\ left[p] \in Nat /\ left[p] <= left[0] + Bit(pc[0] = "release")
    BY <2>1, <2>2, <2>3, <2>4
  <2>6. arrived[q] \in Nat /\ left[0] + Bit(pc[0] = "release") <= arrived[q]
    BY <2>1, <2>2, <2>3, <2>4
  <2> QED BY <2>1, <2>4, <2>5, <2>6
<1> QED BY <1>1, InitSInv, NextSInv, PTL DEF Spec
=============================================================================
