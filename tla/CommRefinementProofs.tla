------------------------ MODULE CommRefinementProofs ------------------------
(***************************************************************************)
(* The running library implements comm_barrier_all over an asynchronous    *)
(* put: for any number of PEs, any placement that wireup connects          *)
(* (WiringAssumption) and any program, every step of every thread is a     *)
(* step of module Barrier or a stutter, if reads return whole packets      *)
(* (~Splits) and no write is cut short (WritesFit). So all that            *)
(* BarrierProofs proves of Barrier holds of the threads, queues and        *)
(* sockets, and with it that they implement the abstract barrier of        *)
(* BarrierSpec.                                                            *)
(*                                                                         *)
(* Barrier has a number of signals on the wire where Comm has three        *)
(* queues. OInv ties the queues to the logs: a signal is in one of them    *)
(* exactly if it has been called and has not landed (Pending), and SInv    *)
(* says that it is one at most. So the mapped wire is a function of the    *)
(* logs alone (CountInv), and the steps that move packets from queue to    *)
(* queue are stutters. SignalValue is needed for the landing: the value    *)
(* stored is the 1 Barrier stores.                                         *)
(*                                                                         *)
(* The second part proves WritesFit itself, for jobs whose traffic is      *)
(* light (Light, a condition on the programs, the placement and the size   *)
(* of a socket only), and so removes it from the assumptions. The          *)
(* inductive invariant LightInv says that the logs tell the story of the   *)
(* programs: the puts of p to q are those of the calls p has come past,    *)
(* one for each, and a put carries a round that is the number of barriers  *)
(* before its call. With the bounds on rounds from FInv, which the barrier *)
(* enforces, the puts that have not landed come from calls with no barrier *)
(* between them, or one if the caller is PE 0, and Light says that these   *)
(* fit. CellsUnderWay relates the puts that have not landed to the cells   *)
(* in the socket.                                                          *)
(***************************************************************************)
EXTENDS CommOrderProofs, FiniteSetTheorems

(* A signal from s to d has been called and has not landed.                *)
Pending(s, d) ==
  \E n \in DOMAIN issued[s][d] : n > Len(landed[s][d]) /\ issued[s][d][n].dest \in PE

(* What is put into __pSync is 1.                                          *)
SignalValue ==
  \A s, d \in PE : \A n \in DOMAIN issued[s][d] :
    issued[s][d][n].dest \in PE => issued[s][d][n].val = 1

(* The signals under way are the pending ones of the log, and one at most; *)
(* none between PEs of one host.                                           *)
CountInv ==
  \A s, d \in PE : /\ NoneUnderWay(s, d) <=> ~Pending(s, d)
                   /\ SignalsUnderWay(s, d) = Bit(Pending(s, d))
                   /\ Local(s, d) => ~Pending(s, d)

(* The invariant behind the simulation.                                    *)
RInv == OInv /\ SignalValue /\ CountInv

(* A signal in a queue or socket has been called and has not landed: its   *)
(* number is above those of the landed puts.                               *)
LEMMA SignalPending ==
  ASSUME TypeOK, Flow, NEW s \in PE, NEW d \in PE, ~NoneUnderWay(s, d)
  PROVE  Pending(s, d)
<1>1. /\ queue_send[s] \in Seq(TrueEntry(s)) /\ wire[s][d] \in Seq(TrueCell(s, d))
      /\ work_queue[d] \in Seq(TrueJob(d)) /\ Pipeline(s, d)
  BY DEF Flow, GenuineInv
<1>2. PICK l \in Nat, a \in Nat, b \in Nat, h \in Nat : Shares(s, d, l, a, b, h)
  BY <1>1, PipelineShares
<1>3. /\ l <= a /\ a <= b /\ b <= h
      /\ l = Len(landed[s][d]) /\ h = Len(issued[s][d])
      /\ Carries(WorkSeq(s, d), l, a) /\ Carries(WireSeq(s, d), a, b) /\ Carries(SendSeq(s, d), b, h)
  BY <1>2 DEF Shares
<1>4. ASSUME NEW j \in Nat, j > l, j \in DOMAIN issued[s][d], issued[s][d][j].dest \in PE PROVE Pending(s, d)
  BY <1>3, <1>4 DEF Pending
<1>5. ASSUME NEW n \in SendAt(s, d) PROVE Pending(s, d)
  <2>1. n \in DOMAIN queue_send[s] /\ queue_send[s][n].pe = d /\ queue_send[s][n].packet.dest \in PE
    BY DEF SendAt
  <2>2. queue_send[s][n] \in TrueEntry(s)
    BY <1>1, <2>1, ElementOfSeq, LenProperties
  <2>3. PICK e \in Entry : e = queue_send[s][n] /\ Genuine(s, d, e.packet)
    BY <2>1, <2>2 DEF TrueEntry
  <2>4. e \in EntriesTo(d) /\ EntrySeq[e] = e.packet.seq
    BY <2>1, <2>3 DEF EntriesTo, EntrySeq
  <2>5. n \in DOMAIN SendSeq(s, d) /\ SendSeq(s, d)[n] = e.packet.seq
    BY <2>1, <2>3, <2>4, NumbersFacts DEF SendSeq
  <2>6. e.packet.seq \in b + 1 .. h
    BY <1>3, <2>5 DEF Carries
  <2>7. PICK j \in Nat : j = e.packet.seq /\ j > l
    BY <1>3, <2>6
  <2> QED BY <1>4, <2>1, <2>3, <2>7 DEF Genuine
<1>6. ASSUME NEW n \in WireAt(s, d) PROVE Pending(s, d)
  <2>1. n \in DOMAIN wire[s][d] /\ wire[s][d][n].part = 1 /\ wire[s][d][n].packet.dest \in PE
    BY DEF WireAt
  <2>2. wire[s][d][n] \in TrueCell(s, d)
    BY <1>1, <2>1, ElementOfSeq, LenProperties
  <2>3. PICK c \in Cell : c = wire[s][d][n] /\ Genuine(s, d, c.packet)
    BY <2>1, <2>2 DEF TrueCell
  <2>4. c \in Starts /\ CellSeq[c] = c.packet.seq
    BY <2>1, <2>3 DEF Starts, CellSeq
  <2>5. n \in DOMAIN WireSeq(s, d) /\ WireSeq(s, d)[n] = c.packet.seq
    BY <2>1, <2>3, <2>4, NumbersFacts DEF WireSeq
  <2>6. c.packet.seq \in a + 1 .. b
    BY <1>3, <2>5 DEF Carries
  <2>7. PICK j \in Nat : j = c.packet.seq /\ j > l
    BY <1>3, <2>6
  <2> QED BY <1>4, <2>1, <2>3, <2>7 DEF Genuine
<1>7. ASSUME NEW n \in WorkAt(s, d) PROVE Pending(s, d)
  <2>1. /\ n \in DOMAIN work_queue[d] /\ work_queue[d][n] \in PacketJob
        /\ work_queue[d][n].origin_pe = s /\ work_queue[d][n].data_buf.dest \in PE
    BY DEF WorkAt
  <2>2. work_queue[d][n] \in TrueJob(d)
    BY <1>1, <2>1, ElementOfSeq, LenProperties
  <2>3. PICK job \in PacketJob : job = work_queue[d][n] /\ Genuine(s, d, job.data_buf)
    BY <2>1, <2>2 DEF TrueJob
  <2>4. job \in JobsFrom(s) /\ JobSeq[job] = job.data_buf.seq
    BY <2>1, <2>3 DEF JobsFrom, JobSeq, Job
  <2>5. n \in DOMAIN WorkSeq(s, d) /\ WorkSeq(s, d)[n] = job.data_buf.seq
    BY <2>1, <2>3, <2>4, NumbersFacts DEF WorkSeq
  <2>6. job.data_buf.seq \in l + 1 .. a
    BY <1>3, <2>5 DEF Carries
  <2>7. PICK j \in Nat : j = job.data_buf.seq /\ j > l
    BY <1>3, <2>6
  <2> QED BY <1>4, <2>1, <2>3, <2>7 DEF Genuine
<1> QED BY <1>5, <1>6, <1>7 DEF NoneUnderWay

(* The signals in the queues and sockets are those the logs have pending.  *)
LEMMA PendingIsUnderWay ==
  ASSUME TypeOK, Flow, NEW s \in PE, NEW d \in PE
  PROVE  NoneUnderWay(s, d) <=> ~Pending(s, d)
BY SignalPending, NoSignalLeft DEF Pending

(* SignalsUnderWay counts the places of CommBarrierProofs.                 *)
LEMMA PlacesCounted ==
  ASSUME TypeOK, NEW s \in PE, NEW d \in PE
  PROVE  SignalsUnderWay(s, d) = Cardinality(SendAt(s, d)) + Cardinality(WireAt(s, d)) + Cardinality(WorkAt(s, d))
<1> DEFINE J == work_queue[d]
           W == {n \in DOMAIN J : /\ "data_buf" \in DOMAIN J[n] /\ J[n].origin_pe = s
                                  /\ J[n].data_buf.dest \in PE}
<1>1. SignalsUnderWay(s, d) = Cardinality(SendAt(s, d)) + Cardinality(WireAt(s, d)) + Cardinality(W)
  BY DEF SignalsUnderWay, SendAt, WireAt
<1>2. J \in Seq(Job)
  BY SeqTypes
<1>3. \A m \in DOMAIN J : J[m] \in Job
  BY <1>2, ElementOfSeq, LenProperties
<1>4. \A m \in DOMAIN J : "data_buf" \in DOMAIN J[m] <=> J[m] \in PacketJob
  BY <1>3, JobKinds DEF Job
<1>5. W = WorkAt(s, d)
  BY <1>4 DEF WorkAt
<1> QED BY <1>1, <1>5

(* A set with no two elements has none or one.                             *)
LEMMA OneOrNone ==
  ASSUME NEW S, \A m, n \in S : m = n
  PROVE  Cardinality(S) = Bit(S # {})
<1>1. CASE S = {}
  BY <1>1, FS_EmptySet DEF Bit
<1>2. CASE S # {}
  <2>1. PICK x : x \in S
    BY <1>2
  <2>2. S = {x}
    BY <2>1
  <2>3. Cardinality({x}) = 1
    BY FS_Singleton
  <2> QED BY <1>2, <2>2, <2>3 DEF Bit
<1> QED BY <1>1, <1>2

(* There is at most one signal under way between any two PEs; between two  *)
(* leaves there is none.                                                   *)
LEMMA OtherPairs ==
  ASSUME SInv, NEW s \in PE, NEW d \in PE
  PROVE  AtMostOne(s, d)
<1>1. CASE (s = 0 /\ d \in Leaves) \/ (d = 0 /\ s \in Leaves)
  BY <1>1 DEF SInv, SigInv
<1>2. CASE ~(s = 0 /\ d \in Leaves) /\ ~(d = 0 /\ s \in Leaves)
  <2>1. /\ queue_send[s] \in Seq(RoutedEntry(s)) /\ wire[s][d] \in Seq(RoutedCell(s, d))
        /\ work_queue[d] \in Seq(RoutedJob(d))
    BY DEF SInv, RouteInv
  <2>2. ASSUME NEW put, Route(s, d, put) PROVE put.dest \notin PE
    BY <1>2, <2>2 DEF Route
  <2>3. \A n \in DOMAIN queue_send[s] : queue_send[s][n] \in RoutedEntry(s)
    BY <2>1, ElementOfSeq, LenProperties
  <2>4. \A n \in DOMAIN wire[s][d] : wire[s][d][n] \in RoutedCell(s, d)
    BY <2>1, ElementOfSeq, LenProperties
  <2>5. \A n \in DOMAIN work_queue[d] : work_queue[d][n] \in RoutedJob(d)
    BY <2>1, ElementOfSeq, LenProperties
  <2>6. SendAt(s, d) = {}
    BY <2>2, <2>3 DEF SendAt, RoutedEntry
  <2>7. WireAt(s, d) = {}
    BY <2>2, <2>4 DEF WireAt, RoutedCell
  <2>8. WorkAt(s, d) = {}
    BY <2>2, <2>5 DEF WorkAt, RoutedJob
  <2> QED BY <2>6, <2>7, <2>8 DEF AtMostOne
<1> QED BY <1>1, <1>2

(* SignalsUnderWay is 0 or 1.                                              *)
LEMMA SignalCount ==
  ASSUME SInv, NEW s \in PE, NEW d \in PE
  PROVE  SignalsUnderWay(s, d) = Bit(~NoneUnderWay(s, d))
<1>1. SignalsUnderWay(s, d) = Cardinality(SendAt(s, d)) + Cardinality(WireAt(s, d)) + Cardinality(WorkAt(s, d))
  BY PlacesCounted DEF SInv, TInv
<1>2. AtMostOne(s, d)
  BY OtherPairs
<1>3. /\ Cardinality(SendAt(s, d)) = Bit(SendAt(s, d) # {})
      /\ Cardinality(WireAt(s, d)) = Bit(WireAt(s, d) # {})
      /\ Cardinality(WorkAt(s, d)) = Bit(WorkAt(s, d) # {})
  BY <1>2, OneOrNone DEF AtMostOne
<1>4. /\ SendAt(s, d) # {} => WireAt(s, d) = {} /\ WorkAt(s, d) = {}
      /\ WireAt(s, d) # {} => WorkAt(s, d) = {}
  BY <1>2 DEF AtMostOne
<1> QED BY <1>1, <1>3, <1>4 DEF NoneUnderWay, Bit

(* CountInv follows from the invariant of CommOrderProofs.                 *)
LEMMA CountFromLog == OInv => CountInv
<1> SUFFICES ASSUME OInv, NEW s \in PE, NEW d \in PE
             PROVE  /\ NoneUnderWay(s, d) <=> ~Pending(s, d)
                    /\ SignalsUnderWay(s, d) = Bit(Pending(s, d))
                    /\ Local(s, d) => ~Pending(s, d)
  BY DEF CountInv
<1>1. NoneUnderWay(s, d) <=> ~Pending(s, d)
  BY PendingIsUnderWay DEF OInv, SInv, TInv
<1>2. SignalsUnderWay(s, d) = Bit(~NoneUnderWay(s, d))
  BY SignalCount DEF OInv
<1>3. SignalsUnderWay(s, d) = Bit(Pending(s, d))
  BY <1>1, <1>2 DEF Bit
<1>4. ASSUME Local(s, d) PROVE ~Pending(s, d)
  <2>1. Len(landed[s][d]) = Len(issued[s][d])
    BY <1>4 DEF OInv, Flow, LogInv
  <2>2. \A n \in DOMAIN issued[s][d] : ~(n > Len(landed[s][d]))
    BY <2>1, LogTypes DEF OInv, SInv, TInv
  <2> QED BY <2>2 DEF Pending
<1> QED BY <1>1, <1>3, <1>4

(* What comm_put of the caller's own does to logs and memory.              *)
LEMMA IssuePut ==
  ASSUME TypeOK, NEW p \in PE, NEW q \in PE, NEW a \in Addr, NEW v \in Value, Issue(p, q, a, v)
  PROVE  /\ \E put \in Put : /\ put.dest = a /\ put.val = v /\ put.round = arrived[p]
                              /\ issued'[p][q] = Append(issued[p][q], put)
         /\ \A s, d \in PE : s # p \/ d # q => issued'[s][d] = issued[s][d] /\ landed'[s][d] = landed[s][d]
         /\ ~Local(p, q) => landed' = landed /\ mem' = mem
         /\ Local(p, q) => mem' = [mem EXCEPT ![q][a] = v]
<1> DEFINE x == [dest |-> a, val |-> v, round |-> arrived[p], seq |-> Len(issued[p][q]) + 1]
<1>1. x \in Put /\ x.dest = a /\ x.val = v /\ x.round = arrived[p]
  <2>1. Len(issued[p][q]) + 1 \in Nat
    BY LogTypes
  <2>2. arrived[p] \in 0 .. MaxRounds
    BY DEF TypeOK
  <2> QED BY <2>1, <2>2 DEF Put, Value
<1>2. /\ comm_put(p, q, x)
      /\ issued' = [issued EXCEPT ![p][q] = Append(@, x)]
      /\ landed' = IF Local(p, q) THEN [landed EXCEPT ![p][q] = Append(@, x)] ELSE landed
  BY DEF Issue
<1>3. /\ ~Local(p, q) => mem' = mem
      /\ Local(p, q) => mem' = [mem EXCEPT ![q][a] = v]
  BY <1>1, <1>2 DEF comm_put, comm_local_put, comm_remote_put
<1> HIDE DEF x
<1>4. PICK put \in Put : put = x
  BY <1>1
<1>5. /\ put.dest = a /\ put.val = v /\ put.round = arrived[p]
      /\ issued' = [issued EXCEPT ![p][q] = Append(issued[p][q], put)]
      /\ landed' = [landed EXCEPT ![p][q] = Append(landed[p][q], put)] \/ landed' = landed
      /\ ~Local(p, q) => landed' = landed
  BY <1>1, <1>2, <1>4
<1>6. issued \in [PE -> [PE -> Seq(Put)]] /\ landed \in [PE -> [PE -> Seq(Put)]]
  BY LogTypes DEF LogType
<1>7. /\ issued'[p][q] = Append(issued[p][q], put)
      /\ \A s, d \in PE : s # p \/ d # q => issued'[s][d] = issued[s][d]
  BY <1>5, <1>6
<1>8. \A s, d \in PE : s # p \/ d # q => landed'[s][d] = landed[s][d]
  <2>1. CASE landed' = landed
    BY <2>1
  <2>2. CASE landed' = [landed EXCEPT ![p][q] = Append(landed[p][q], put)]
    BY <1>6, <2>2
  <2> QED BY <1>5, <2>1, <2>2
<1> QED BY <1>3, <1>5, <1>7, <1>8

(* The log of a pair after a put.                                          *)
LEMMA Appended ==
  ASSUME TypeOK, NEW s \in PE, NEW d \in PE, NEW put \in Put, issued'[s][d] = Append(issued[s][d], put)
  PROVE  /\ DOMAIN issued[s][d] \subseteq DOMAIN issued'[s][d] /\ DOMAIN issued'[s][d] \subseteq Nat
         /\ \A n \in DOMAIN issued[s][d] : issued'[s][d][n] = issued[s][d][n]
         /\ \A n \in DOMAIN issued'[s][d] : n \notin DOMAIN issued[s][d] => issued'[s][d][n] = put
         /\ Len(issued[s][d]) + 1 \in DOMAIN issued'[s][d]
         /\ issued'[s][d][Len(issued[s][d]) + 1] = put
<1>1. PICK u \in Seq(Put) : u = issued[s][d]
  BY LogTypes
<1>2. /\ Len(u) \in Nat /\ DOMAIN u = 1 .. Len(u) /\ DOMAIN Append(u, put) = 1 .. Len(u) + 1
      /\ Append(u, put)[Len(u) + 1] = put
      /\ \A n \in DOMAIN u : Append(u, put)[n] = u[n]
  BY AppendFacts
<1>3. PICK w : w = Append(u, put)
  OBVIOUS
<1>4. /\ DOMAIN u \subseteq DOMAIN w /\ DOMAIN w \subseteq Nat
      /\ \A n \in DOMAIN u : w[n] = u[n]
      /\ \A n \in DOMAIN w : n \notin DOMAIN u => n = Len(u) + 1
      /\ Len(u) + 1 \in DOMAIN w /\ w[Len(u) + 1] = put
  BY <1>2, <1>3
<1>5. issued'[s][d] = w
  BY <1>1, <1>3
<1> QED BY <1>1, <1>4, <1>5

(* A put of 1, or of anything outside __pSync, keeps SignalValue.          *)
LEMMA IssueValue ==
  ASSUME TypeOK, SignalValue, NEW p \in PE, NEW q \in PE, NEW a \in Addr, NEW v \in Value,
         Issue(p, q, a, v), a \in PE => v = 1
  PROVE  SignalValue'
<1>1. PICK put \in Put : put.dest = a /\ put.val = v /\ issued'[p][q] = Append(issued[p][q], put)
  BY IssuePut
<1>2. \A s, d \in PE : s # p \/ d # q => issued'[s][d] = issued[s][d]
  BY IssuePut
<1>3. ASSUME NEW s \in PE, NEW d \in PE, NEW n \in DOMAIN issued'[s][d], issued'[s][d][n].dest \in PE
      PROVE  issued'[s][d][n].val = 1
  <2>1. CASE s # p \/ d # q
    BY <1>2, <1>3, <2>1 DEF SignalValue
  <2>2. CASE s = p /\ d = q
    <3>1. CASE n \in DOMAIN issued[s][d]
      <4>1. issued'[s][d][n] = issued[s][d][n]
        BY <1>1, <2>2, <3>1, Appended, SMTT(60)
      <4> QED BY <1>3, <3>1, <4>1 DEF SignalValue
    <3>2. CASE n \notin DOMAIN issued[s][d]
      <4>1. issued'[s][d][n] = put
        BY <1>1, <1>3, <2>2, <3>2, Appended, SMTT(60)
      <4> QED BY <1>1, <1>3, <4>1
    <3> QED BY <3>1, <3>2
  <2> QED BY <2>1, <2>2
<1> QED BY <1>3 DEF SignalValue

(* Every step of every thread keeps SignalValue.                           *)
LEMMA NextSignalValue ==
  ASSUME TInv, SignalValue, [Next]_vars PROVE SignalValue'
<1>1. TypeOK
  BY DEF TInv
<1>2. CASE UNCHANGED issued
  BY <1>2 DEF SignalValue
<1>3. ASSUME NEW p \in PE, shmem_putmem(p) PROVE SignalValue'
  <2>1. PICK c \in Call : c = Head(prog[p])
    BY <1>3, CallFacts DEF shmem_putmem, Calls
  <2>2. c.dest \in Addr /\ c.src \in Addr /\ c.pe \in PE /\ c.dest \notin PE
    BY <1>3, <2>1, CallFacts DEF shmem_putmem, Calls, UserOps
  <2>3. Issue(p, c.pe, c.dest, mem[p][c.src]) /\ mem[p][c.src] \in Value
    BY <1>1, <1>3, <2>1, <2>2, TypeFacts DEF shmem_putmem
  <2>4. PICK q \in PE, a \in Addr, v \in Value : q = c.pe /\ a = c.dest /\ v = mem[p][c.src]
    BY <2>2, <2>3
  <2> QED BY <1>1, <2>2, <2>3, <2>4, IssueValue
<1>4. CASE RootRelease
  <2>1. i \in PE /\ i \in Addr /\ 0 \in PE /\ 1 \in Value /\ Issue(0, i, i, 1)
    BY <1>1, <1>4, TypeFacts, PEFacts DEF RootRelease, Value
  <2> QED BY <1>1, <2>1, IssueValue
<1>5. ASSUME NEW p \in PE, LeafEnter(p) PROVE SignalValue'
  <2>1. p \in Addr /\ 0 \in PE /\ 1 \in Value /\ Issue(p, 0, p, 1)
    BY <1>5, PEFacts DEF LeafEnter, Value
  <2> QED BY <1>1, <2>1, IssueValue
<1>6. ASSUME NEW p \in PE, Execute(p) PROVE SignalValue'
  <2>1. PICK job \in Job : job = Head(work_queue[p])
    BY <1>1, <1>6, WorkHead DEF Execute
  <2>2. CASE job \in PacketJob \/ job.handler = "GET"
    <3>1. UNCHANGED issued
      BY <1>6, <2>1, <2>2, JobKinds DEF Execute, logs
    <3> QED BY <1>2, <3>1
  <2>3. CASE job \in OwnJob /\ job.handler # "GET"
    <3>1. /\ job.dest_pe \in PE /\ job.dest \in Addr /\ job.src \in Addr /\ "src" \in DOMAIN job
          /\ work_queue[p] # << >>
      BY <1>6, <2>3, JobKinds DEF OwnJob, Execute
    <3>2. job.dest \notin PE
      <4>1. work_queue[p] \in Seq(Job)
        BY <1>1, SeqTypes
      <4>2. 1 \in DOMAIN work_queue[p] /\ job = work_queue[p][1]
        BY <2>1, <3>1, <4>1, QueueFacts
      <4> QED BY <2>3, <4>2 DEF TInv, WorkInv
    <3>3. Issue(p, job.dest_pe, job.dest, mem[p][job.src]) /\ mem[p][job.src] \in Value
      BY <1>1, <1>6, <2>1, <2>3, <3>1, TypeFacts DEF Execute
    <3>4. PICK q \in PE, a \in Addr, v \in Value :
            q = job.dest_pe /\ a = job.dest /\ v = mem[p][job.src]
      BY <3>1, <3>3
    <3> QED BY <1>1, <3>2, <3>3, <3>4, IssueValue
  <2> QED BY <2>2, <2>3 DEF Job
<1>7. CASE \E p \in PE : MainThread(p)
  BY <1>2, <1>3, <1>4, <1>5, <1>7
     DEF MainThread, Store, shmem_getmem, shmem_nbi, shmem_quiet, RootEnter, RootPoll, RootReset, RootGathered,
         RootReturn, LeafPoll, LeafReset, SetFinished, Join, Release, logs
<1>8. CASE \E p \in PE : Worker(p)
  BY <1>2, <1>6, <1>8 DEF Worker, WorkerExit, logs
<1>9. ASSUME NEW p \in PE, CommThread(p) PROVE SignalValue'
  <2>1. UNCHANGED <<issued, landed>>
    BY <1>9 DEF CommThread, Check, Received, Send, Sent, ReceiveNothing, ReceiveBadPacket,
                ReceivePacket, ReceiveMisframed, Polls, logs
  <2> QED BY <1>2, <2>1, SMTT(60)
<1>10. CASE UNCHANGED vars
  BY <1>2, <1>10 DEF vars, logs
<1> QED BY <1>7, <1>8, <1>9, <1>10 DEF Next, Finished

(* The variables of module Barrier, as Comm maps them.                     *)
BarrierPc   == [p \in PE |-> IF pc[p] \in {"poll", "reset", "release"} THEN pc[p] ELSE "out"]
BarrierSync == [p \in PE |-> [k \in PE |-> mem[p][k]]]
BarrierWire == [p \in PE |-> [q \in PE |-> SignalsUnderWay(p, q)]]

(* The variables of Barrier under the mapping.                             *)
LEMMA MappedVars ==
  /\ B!Leaves = Leaves
  /\ B!vars = <<host, BarrierPc, i, BarrierSync, BarrierWire, arrived, left>>
  /\ B!vars' = <<host', BarrierPc', i', BarrierSync', BarrierWire', arrived', left'>>
<1>1. B!Leaves = Leaves
  BY DEF B!Leaves, Leaves
<1>2. B!vars = <<host, BarrierPc, i, BarrierSync, BarrierWire, arrived, left>>
  BY DEF B!vars, BarrierPc, BarrierSync, BarrierWire
<1>3. B!vars' = <<host', BarrierPc', i', BarrierSync', BarrierWire', arrived', left'>>
  BY DEF B!vars, BarrierPc, BarrierSync, BarrierWire
<1> QED BY <1>1, <1>2, <1>3

(* The actions of Barrier under the mapping: PE 0 calls the barrier,       *)
LEMMA MappedRootEnter ==
  ASSUME BarrierPc[0] = "out" /\ arrived[0] < MaxRounds,
         BarrierPc' = [BarrierPc EXCEPT ![0] = "poll"],
         arrived' = [arrived EXCEPT ![0] = @ + 1],
         i' = 1,
         UNCHANGED <<host, BarrierSync, BarrierWire, left>>
  PROVE  B!RootEnter
BY DEF B!RootEnter, B!Enter, B!Return, B!PE, BarrierPc, BarrierSync, BarrierWire, PE

(* sees a slot set,                                                        *)
LEMMA MappedRootPoll ==
  ASSUME BarrierPc[0] = "poll" /\ i < N /\ BarrierSync[0][i] # 0,
         BarrierPc' = [BarrierPc EXCEPT ![0] = "reset"],
         UNCHANGED <<host, i, BarrierSync, BarrierWire, arrived, left>>
  PROVE  B!RootPoll
BY DEF B!RootPoll, B!Enter, B!Return, B!PE, BarrierPc, BarrierSync, BarrierWire, PE

(* clears it,                                                              *)
LEMMA MappedRootReset ==
  ASSUME BarrierPc[0] = "reset",
         BarrierSync' = [BarrierSync EXCEPT ![0][i] = 0],
         i' = i + 1,
         BarrierPc' = [BarrierPc EXCEPT ![0] = "poll"],
         UNCHANGED <<host, BarrierWire, arrived, left>>
  PROVE  B!RootReset
BY DEF B!RootReset, B!Enter, B!Return, B!PE, BarrierPc, BarrierSync, BarrierWire, PE

(* has them all,                                                           *)
LEMMA MappedRootGathered ==
  ASSUME BarrierPc[0] = "poll" /\ i = N,
         BarrierPc' = [BarrierPc EXCEPT ![0] = "release"],
         i' = 1,
         UNCHANGED <<host, BarrierSync, BarrierWire, arrived, left>>
  PROVE  B!RootGathered
BY DEF B!RootGathered, B!Enter, B!Return, B!PE, BarrierPc, BarrierSync, BarrierWire, PE

(* and returns;                                                            *)
LEMMA MappedRootReturn ==
  ASSUME BarrierPc[0] = "release" /\ i = N,
         BarrierPc' = [BarrierPc EXCEPT ![0] = "out"],
         left' = [left EXCEPT ![0] = @ + 1],
         UNCHANGED <<host, i, BarrierSync, BarrierWire, arrived>>
  PROVE  B!RootReturn
BY DEF B!RootReturn, B!Enter, B!Return, B!PE, BarrierPc, BarrierSync, BarrierWire, PE

(* a leaf sees its slot set,                                               *)
LEMMA MappedLeafPoll ==
  ASSUME NEW k \in Leaves,
         BarrierPc[k] = "poll" /\ BarrierSync[k][k] # 0,
         BarrierPc' = [BarrierPc EXCEPT ![k] = "reset"],
         UNCHANGED <<host, i, BarrierSync, BarrierWire, arrived, left>>
  PROVE  B!LeafPoll(k)
BY DEF B!LeafPoll, B!Enter, B!Return, B!PE, BarrierPc, BarrierSync, BarrierWire, PE

(* clears it and returns;                                                  *)
LEMMA MappedLeafReset ==
  ASSUME NEW k \in Leaves,
         BarrierPc[k] = "reset",
         BarrierSync' = [BarrierSync EXCEPT ![k][k] = 0],
         BarrierPc' = [BarrierPc EXCEPT ![k] = "out"],
         left' = [left EXCEPT ![k] = @ + 1],
         UNCHANGED <<host, i, BarrierWire, arrived>>
  PROVE  B!LeafReset(k)
BY DEF B!LeafReset, B!Enter, B!Return, B!PE, BarrierPc, BarrierSync, BarrierWire, PE

(* PE 0 releases a leaf, through memory or the network;                    *)
LEMMA MappedRootRelease ==
  ASSUME BarrierPc[0] = "release" /\ i < N, i # 0, i' = i + 1,
         host[0] = host[i] => BarrierSync' = [BarrierSync EXCEPT ![i][i] = 1] /\ BarrierWire' = BarrierWire,
         host[0] # host[i] => BarrierWire' = [BarrierWire EXCEPT ![0][i] = @ + 1] /\ BarrierSync' = BarrierSync,
         UNCHANGED <<host, BarrierPc, arrived, left>>
  PROVE  B!RootRelease
BY DEF B!RootRelease, B!comm_put, B!Slot, B!PE, BarrierPc, BarrierSync, BarrierWire, PE

(* a leaf calls the barrier, likewise;                                     *)
LEMMA MappedLeafEnter ==
  ASSUME NEW k \in Leaves, BarrierPc[k] = "out" /\ arrived[k] < MaxRounds,
         BarrierPc' = [BarrierPc EXCEPT ![k] = "poll"], arrived' = [arrived EXCEPT ![k] = @ + 1],
         host[k] = host[0] => BarrierSync' = [BarrierSync EXCEPT ![0][k] = 1] /\ BarrierWire' = BarrierWire,
         host[k] # host[0] => BarrierWire' = [BarrierWire EXCEPT ![k][0] = @ + 1] /\ BarrierSync' = BarrierSync,
         UNCHANGED <<host, i, left>>
  PROVE  B!LeafEnter(k)
BY DEF B!LeafEnter, B!Enter, B!comm_put, B!Slot, B!PE, BarrierPc, BarrierSync, BarrierWire, PE

(* a signal lands.                                                         *)
LEMMA MappedLand ==
  ASSUME NEW s \in PE, NEW d \in PE, NEW k \in Leaves, (d = 0 /\ k = s) \/ (d # 0 /\ k = d),
         BarrierWire[s][d] > 0, BarrierWire' = [BarrierWire EXCEPT ![s][d] = @ - 1],
         BarrierSync' = [BarrierSync EXCEPT ![d][k] = 1],
         UNCHANGED <<host, BarrierPc, i, arrived, left>>
  PROVE  B!Land(s, d)
BY DEF B!Land, B!Slot, B!PE, BarrierPc, BarrierSync, BarrierWire, PE

(* __pSync does not change,                                                *)
LEMMA SyncSame ==
  ASSUME \A p, k \in PE : mem'[p][k] = mem[p][k]
  PROVE  BarrierSync' = BarrierSync
BY DEF BarrierSync

(* or one slot does, or another address.                                   *)
LEMMA SyncSet ==
  ASSUME TypeOK, NEW q \in PE, NEW a \in Addr, NEW v \in Value, mem' = [mem EXCEPT ![q][a] = v]
  PROVE  /\ a \in PE => BarrierSync' = [BarrierSync EXCEPT ![q][a] = v]
         /\ a \notin PE => BarrierSync' = BarrierSync
<1>1. mem \in [PE -> [Addr -> Value]] /\ PE \subseteq Addr
  BY TypeFacts, PEFacts DEF MemType
<1>2. \A p \in PE : \A k \in Addr : mem'[p][k] = IF p = q /\ k = a THEN v ELSE mem[p][k]
  BY <1>1
<1>3. CASE a \in PE
  <2>1. \A p, k \in PE : mem'[p][k] = IF p = q /\ k = a THEN v ELSE mem[p][k]
    BY <1>1, <1>2
  <2>2. [BarrierSync EXCEPT ![q][a] = v] =
          [p \in PE |-> [k \in PE |-> IF p = q /\ k = a THEN v ELSE mem[p][k]]]
    BY <1>3 DEF BarrierSync
  <2>3. BarrierSync' = [p \in PE |-> [k \in PE |-> mem'[p][k]]]
    BY DEF BarrierSync
  <2>4. [p \in PE |-> [k \in PE |-> mem'[p][k]]] =
          [p \in PE |-> [k \in PE |-> IF p = q /\ k = a THEN v ELSE mem[p][k]]]
    <3>1. ASSUME NEW p \in PE
          PROVE  [k \in PE |-> mem'[p][k]] = [k \in PE |-> IF p = q /\ k = a THEN v ELSE mem[p][k]]
      <4>1. PICK f : f = mem'[p]
        OBVIOUS
      <4>2. \A k \in PE : f[k] = IF p = q /\ k = a THEN v ELSE mem[p][k]
        BY <2>1, <4>1
      <4>3. [k \in PE |-> f[k]] = [k \in PE |-> IF p = q /\ k = a THEN v ELSE mem[p][k]]
        BY <4>2
      <4> QED BY <4>1, <4>3
    <3> QED BY <3>1
  <2> QED BY <1>3, <2>2, <2>3, <2>4
<1>4. CASE a \notin PE
  <2>1. \A p, k \in PE : mem'[p][k] = mem[p][k]
    BY <1>1, <1>2, <1>4
  <2> QED BY <1>4, <2>1, SyncSame
<1> QED BY <1>3, <1>4

(* The mapped wire when no signal is added or lands,                       *)
LEMMA WireSame ==
  ASSUME CountInv, CountInv', \A s, d \in PE : Pending(s, d)' <=> Pending(s, d)
  PROVE  BarrierWire' = BarrierWire
<1>1. \A s, d \in PE : SignalsUnderWay(s, d) = Bit(Pending(s, d)) /\ SignalsUnderWay(s, d)' = Bit(Pending(s, d)')
  BY DEF CountInv, Bit
<1>2. \A s, d \in PE : SignalsUnderWay(s, d)' = SignalsUnderWay(s, d)
  BY <1>1 DEF Bit
<1> QED BY <1>2 DEF BarrierWire

(* when one is called,                                                     *)
LEMMA WireUp ==
  ASSUME CountInv, CountInv', NEW p \in PE, NEW q \in PE, ~Pending(p, q), Pending(p, q)',
         \A s, d \in PE : s # p \/ d # q => (Pending(s, d)' <=> Pending(s, d))
  PROVE  BarrierWire' = [BarrierWire EXCEPT ![p][q] = @ + 1]
<1>1. \A s, d \in PE : SignalsUnderWay(s, d) = Bit(Pending(s, d)) /\ SignalsUnderWay(s, d)' = Bit(Pending(s, d)')
  BY DEF CountInv, Bit
<1>2. \A s, d \in PE : s # p \/ d # q => SignalsUnderWay(s, d)' = SignalsUnderWay(s, d)
  BY <1>1 DEF Bit
<1>3. SignalsUnderWay(p, q)' = SignalsUnderWay(p, q) + 1
  BY <1>1 DEF Bit
<1>4. [BarrierWire EXCEPT ![p][q] = @ + 1] =
        [s \in PE |-> [d \in PE |-> IF s = p /\ d = q THEN SignalsUnderWay(s, d) + 1 ELSE SignalsUnderWay(s, d)]]
  BY DEF BarrierWire
<1>5. BarrierWire' = [s \in PE |-> [d \in PE |-> SignalsUnderWay(s, d)']]
  BY DEF BarrierWire
<1> QED BY <1>2, <1>3, <1>4, <1>5

(* and when one lands.                                                     *)
LEMMA WireDown ==
  ASSUME CountInv, CountInv', NEW p \in PE, NEW q \in PE, Pending(p, q), ~Pending(p, q)',
         \A s, d \in PE : s # p \/ d # q => (Pending(s, d)' <=> Pending(s, d))
  PROVE  BarrierWire[p][q] > 0 /\ BarrierWire' = [BarrierWire EXCEPT ![p][q] = @ - 1]
<1>1. \A s, d \in PE : SignalsUnderWay(s, d) = Bit(Pending(s, d)) /\ SignalsUnderWay(s, d)' = Bit(Pending(s, d)')
  BY DEF CountInv, Bit
<1>2. \A s, d \in PE : s # p \/ d # q => SignalsUnderWay(s, d)' = SignalsUnderWay(s, d)
  BY <1>1 DEF Bit
<1>3. SignalsUnderWay(p, q)' = SignalsUnderWay(p, q) - 1 /\ SignalsUnderWay(p, q) = 1
  BY <1>1 DEF Bit
<1>4. [BarrierWire EXCEPT ![p][q] = @ - 1] =
        [s \in PE |-> [d \in PE |-> IF s = p /\ d = q THEN SignalsUnderWay(s, d) - 1 ELSE SignalsUnderWay(s, d)]]
  BY DEF BarrierWire
<1>5. BarrierWire' = [s \in PE |-> [d \in PE |-> SignalsUnderWay(s, d)']]
  BY DEF BarrierWire
<1>6. BarrierWire[p][q] = SignalsUnderWay(p, q)
  BY DEF BarrierWire
<1> QED BY <1>2, <1>3, <1>4, <1>5, <1>6

(* A step that leaves the logs alone.                                      *)
LEMMA LogsSame ==
  ASSUME UNCHANGED <<issued, landed>>
  PROVE  \A s, d \in PE : Pending(s, d)' <=> Pending(s, d)
BY DEF Pending

(* A put adds a pending signal exactly if it is a signal to another host.  *)
LEMMA IssuePending ==
  ASSUME TypeOK, Flow, CountInv, CountInv', UNCHANGED host,
         NEW p \in PE, NEW q \in PE, NEW a \in Addr, NEW v \in Value, Issue(p, q, a, v)
  PROVE  /\ \A s, d \in PE : s # p \/ d # q => (Pending(s, d)' <=> Pending(s, d))
         /\ a \notin PE \/ Local(p, q) => (Pending(p, q)' <=> Pending(p, q))
         /\ a \in PE /\ ~Local(p, q) => Pending(p, q)'
<1>1. PICK put \in Put : put.dest = a /\ put.val = v /\ issued'[p][q] = Append(issued[p][q], put)
  BY IssuePut
<1>2. \A s, d \in PE : s # p \/ d # q => issued'[s][d] = issued[s][d] /\ landed'[s][d] = landed[s][d]
  BY IssuePut
<1>3. \A s, d \in PE : s # p \/ d # q => (Pending(s, d)' <=> Pending(s, d))
  BY <1>2 DEF Pending
<1>4. CASE Local(p, q)
  <2>1. ~Pending(p, q) /\ ~Pending(p, q)'
    BY <1>4 DEF CountInv, Local
  <2> QED BY <1>3, <1>4, <2>1
<1>5. CASE ~Local(p, q)
  <2>1. landed' = landed
    BY <1>5, IssuePut
  <2>2. /\ DOMAIN issued[p][q] \subseteq DOMAIN issued'[p][q]
        /\ \A n \in DOMAIN issued[p][q] : issued'[p][q][n] = issued[p][q][n]
        /\ \A n \in DOMAIN issued'[p][q] : n \notin DOMAIN issued[p][q] => issued'[p][q][n] = put
        /\ Len(issued[p][q]) + 1 \in DOMAIN issued'[p][q]
        /\ issued'[p][q][Len(issued[p][q]) + 1] = put
    BY <1>1, Appended, SMTT(60)
  <2>3. ASSUME a \notin PE PROVE Pending(p, q)' <=> Pending(p, q)
    <3>1. Pending(p, q) => Pending(p, q)'
      BY <2>1, <2>2 DEF Pending
    <3>2. ASSUME NEW n \in DOMAIN issued'[p][q], n > Len(landed'[p][q]), issued'[p][q][n].dest \in PE
          PROVE  Pending(p, q)
      <4>1. n \in DOMAIN issued[p][q]
        BY <1>1, <2>2, <2>3, <3>2
      <4> QED BY <2>1, <2>2, <3>2, <4>1 DEF Pending
    <3>3. Pending(p, q)' => Pending(p, q)
      BY <3>2 DEF Pending
    <3> QED BY <3>1, <3>3
  <2>4. ASSUME a \in PE PROVE Pending(p, q)'
    <3>1. PICK l \in Nat, h \in Nat : l = Len(landed[p][q]) /\ h = Len(issued[p][q])
      BY LogTypes
    <3>2. l <= h
      <4>1. PICK e \in Nat, f \in Nat, b \in Nat, g \in Nat : Shares(p, q, e, f, b, g)
        BY PipelineShares DEF Flow
      <4> QED BY <3>1, <4>1 DEF Shares
    <3>3. h + 1 \in DOMAIN issued'[p][q] /\ h + 1 > Len(landed'[p][q]) /\ issued'[p][q][h + 1].dest \in PE
      BY <1>1, <2>1, <2>2, <2>4, <3>1, <3>2, SMTT(60)
    <3> QED BY <3>3 DEF Pending
  <2> QED BY <1>3, <1>5, <2>3, <2>4
<1> QED BY <1>4, <1>5

(* What lands is the first put that has not landed, so a pending signal if *)
(* it is a signal.                                                         *)
LEMMA LandPending ==
  ASSUME TypeOK, Flow', NEW q \in PE, NEW p \in PE, NEW put \in Put, issued' = issued,
         landed' = [landed EXCEPT ![q][p] = Append(landed[q][p], put)]
  PROVE  /\ \A s, d \in PE : s # q \/ d # p => (Pending(s, d)' <=> Pending(s, d))
         /\ put.dest \notin PE => (Pending(q, p)' <=> Pending(q, p))
         /\ put.dest \in PE => Pending(q, p)
         /\ \E n \in DOMAIN issued[q][p] : issued[q][p][n] = put
<1>1. landed \in [PE -> [PE -> Seq(Put)]]
  BY LogTypes DEF LogType
<1>2. /\ landed'[q][p] = Append(landed[q][p], put) /\ landed[q][p] \in Seq(Put)
      /\ \A s, d \in PE : s # q \/ d # p => landed'[s][d] = landed[s][d]
  BY <1>1
<1>3. \A s, d \in PE : s # q \/ d # p => (Pending(s, d)' <=> Pending(s, d))
  BY <1>2 DEF Pending
<1>4. PICK l \in Nat : l = Len(landed[q][p])
  BY LogTypes
<1>5. Len(landed'[q][p]) = l + 1 /\ l + 1 \in DOMAIN landed'[q][p] /\ landed'[q][p][l + 1] = put
  <2>1. PICK u \in Seq(Put) : u = landed[q][p]
    BY <1>2
  <2>2. /\ Len(u) \in Nat /\ DOMAIN Append(u, put) = 1 .. Len(u) + 1
        /\ Len(Append(u, put)) = Len(u) + 1 /\ Append(u, put)[Len(u) + 1] = put
    BY AppendFacts
  <2>3. Len(u) + 1 \in DOMAIN Append(u, put)
    BY <2>2
  <2> QED BY <1>2, <1>4, <2>1, <2>2, <2>3
<1>6. l + 1 \in DOMAIN issued[q][p] /\ issued[q][p][l + 1] = put
  <2>1. \A n \in DOMAIN landed'[q][p] : n \in DOMAIN issued'[q][p] /\ landed'[q][p][n] = issued'[q][p][n]
    BY DEF Flow, LogInv
  <2> QED BY <1>5, <2>1
<1>7. \A n \in DOMAIN issued[q][p] : n \in Nat
  BY LogTypes
<1>8. Pending(q, p)' <=> \E n \in DOMAIN issued[q][p] : n > l + 1 /\ issued[q][p][n].dest \in PE
  BY <1>5 DEF Pending
<1>9. Pending(q, p) <=> \E n \in DOMAIN issued[q][p] : n > l /\ issued[q][p][n].dest \in PE
  BY <1>4 DEF Pending
<1>10. put.dest \in PE => Pending(q, p)
  BY <1>6, <1>9
<1>11. put.dest \notin PE => (Pending(q, p)' <=> Pending(q, p))
  <2>1. \A n \in DOMAIN issued[q][p] : n > l => n > l + 1 \/ n = l + 1
    BY <1>7
  <2>2. \A n \in DOMAIN issued[q][p] : n > l + 1 => n > l
    BY <1>7
  <2> QED BY <1>6, <1>8, <1>9, <2>1, <2>2
<1> QED BY <1>3, <1>6, <1>10, <1>11

(* A step of module Barrier, or a stutter.                                 *)
Simulated == B!Next \/ UNCHANGED B!vars

(* A step that changes no variable of Barrier.                             *)
LEMMA Stutter ==
  ASSUME UNCHANGED <<host, BarrierPc, i, BarrierSync, BarrierWire, arrived, left>>
  PROVE  Simulated
BY MappedVars DEF Simulated

(* A step of a main thread outside the barrier.                            *)
LEMMA PcSame ==
  ASSUME \A p \in PE : Inside(p)' <=> Inside(p), \A p \in PE : Inside(p) => pc'[p] = pc[p]
  PROVE  BarrierPc' = BarrierPc
BY DEF BarrierPc, Inside

(* A step that neither calls nor stores a put, nor moves in the barrier.   *)
LEMMA QuietStep ==
  ASSUME RInv, RInv', UNCHANGED <<host, pc, i, arrived, left, issued, landed>>,
         \A p, k \in PE : mem'[p][k] = mem[p][k]
  PROVE  Simulated
<1>1. BarrierWire' = BarrierWire
  BY WireSame, LogsSame DEF RInv
<1>2. BarrierPc' = BarrierPc
  BY DEF BarrierPc
<1> QED BY <1>1, <1>2, SyncSame, Stutter

(* A store outside __pSync.                                                *)
LEMMA StoreStep ==
  ASSUME RInv, RInv', UNCHANGED <<host, pc, i, arrived, left, issued, landed>>,
         NEW p \in PE, NEW a \in Addr, NEW v \in Value, a \notin PE, mem' = [mem EXCEPT ![p][a] = v]
  PROVE  Simulated
<1>1. BarrierWire' = BarrierWire
  BY WireSame, LogsSame DEF RInv
<1>2. BarrierPc' = BarrierPc
  BY DEF BarrierPc
<1>3. BarrierSync' = BarrierSync
  <2>1. TypeOK
    BY DEF RInv, OInv, SInv, TInv
  <2> QED BY <2>1, SyncSet, Zenon
<1> QED BY <1>1, <1>2, <1>3, Stutter

(* A put of the program.                                                   *)
LEMMA UserIssueStep ==
  ASSUME RInv, RInv', UNCHANGED <<host, pc, i, arrived, left>>,
         NEW p \in PE, NEW q \in PE, NEW a \in Addr, NEW v \in Value, a \notin PE, Issue(p, q, a, v)
  PROVE  Simulated
<1>1. TypeOK /\ Flow /\ CountInv /\ CountInv'
  BY DEF RInv, OInv, SInv, TInv
<1>2. \A s, d \in PE : Pending(s, d)' <=> Pending(s, d)
  BY <1>1, IssuePending
<1>3. BarrierWire' = BarrierWire
  BY <1>1, <1>2, WireSame
<1>4. BarrierPc' = BarrierPc
  BY DEF BarrierPc
<1>5. BarrierSync' = BarrierSync
  <2>1. CASE Local(p, q)
    <3>1. TypeOK /\ mem' = [mem EXCEPT ![q][a] = v]
      BY <1>1, <2>1, IssuePut
    <3> QED BY <3>1, SyncSet, Zenon
  <2>2. CASE ~Local(p, q)
    BY <1>1, <2>2, IssuePut, SyncSame
  <2> QED BY <2>1, <2>2
<1> QED BY <1>3, <1>4, <1>5, Stutter

(* A signal: stored at once on the same host, one more on the wire         *)
(* otherwise, where there was none.                                        *)
LEMMA SignalIssue ==
  ASSUME RInv, RInv', UNCHANGED host, NEW p \in PE, NEW q \in PE, NEW a \in PE, Issue(p, q, a, 1),
         NoneUnderWay(p, q)
  PROVE  /\ Local(p, q) => BarrierSync' = [BarrierSync EXCEPT ![q][a] = 1] /\ BarrierWire' = BarrierWire
         /\ ~Local(p, q) => /\ BarrierWire' = [BarrierWire EXCEPT ![p][q] = @ + 1]
                            /\ BarrierSync' = BarrierSync
<1>1. TypeOK /\ Flow /\ CountInv /\ CountInv' /\ a \in Addr /\ 1 \in Value
  BY PEFacts DEF RInv, OInv, SInv, TInv, Value
<1>2. PICK v \in Value : v = 1
  BY <1>1
<1>3. Issue(p, q, a, v)
  BY <1>2
<1>4. ~Pending(p, q)
  BY <1>1 DEF CountInv
<1>5. /\ \A s, d \in PE : s # p \/ d # q => (Pending(s, d)' <=> Pending(s, d))
      /\ Local(p, q) => (Pending(p, q)' <=> Pending(p, q))
      /\ ~Local(p, q) => Pending(p, q)'
  BY <1>1, <1>3, IssuePending
<1>6. CASE Local(p, q)
  <2>1. mem' = [mem EXCEPT ![q][a] = v]
    BY <1>1, <1>3, <1>6, IssuePut
  <2>2. BarrierSync' = [BarrierSync EXCEPT ![q][a] = v]
    <3>1. TypeOK /\ a \in Addr
      BY <1>1
    <3> QED BY <2>1, <3>1, SyncSet, ZenonT(60)
  <2>3. BarrierWire' = BarrierWire
    BY <1>1, <1>5, <1>6, WireSame
  <2> QED BY <1>2, <1>6, <2>2, <2>3
<1>7. CASE ~Local(p, q)
  <2>1. mem' = mem
    BY <1>1, <1>3, <1>7, IssuePut
  <2>2. BarrierSync' = BarrierSync
    BY <2>1, SyncSame
  <2>3. BarrierWire' = [BarrierWire EXCEPT ![p][q] = @ + 1]
    BY <1>1, <1>4, <1>5, <1>7, WireUp
  <2> QED BY <1>7, <2>2, <2>3
<1> QED BY <1>6, <1>7

(* The mapped place of a PE that moves.                                    *)
LEMMA PcMoves ==
  ASSUME TypeOK, NEW p \in PE, NEW x \in {"call", "poll", "reset", "release", "join"},
         pc' = [pc EXCEPT ![p] = x]
  PROVE  BarrierPc' = [BarrierPc EXCEPT ![p] = IF x \in {"poll", "reset", "release"} THEN x ELSE "out"]
<1>1. \A q \in PE : pc'[q] = IF q = p THEN x ELSE pc[q]
  BY DEF TypeOK
<1> QED BY <1>1 DEF BarrierPc

(* The steps of PE 0 that touch neither slots nor queues.                  *)
LEMMA RootQuietStep ==
  ASSUME RInv, RInv', RootEnter \/ RootPoll \/ RootGathered \/ RootReturn
  PROVE  Simulated
<1>1. TypeOK /\ 0 \in PE /\ UNCHANGED <<host, mem, issued, landed>>
  BY PEFacts DEF RInv, OInv, SInv, TInv, RootEnter, RootPoll, RootGathered, RootReturn, logs
<1>2. BarrierWire' = BarrierWire /\ BarrierSync' = BarrierSync
  BY <1>1, WireSame, LogsSame, SyncSame DEF RInv
<1>3. BarrierPc[0] = IF pc[0] \in {"poll", "reset", "release"} THEN pc[0] ELSE "out"
  BY <1>1 DEF BarrierPc
<1>4. CASE RootEnter
  <2>1. BarrierPc' = [BarrierPc EXCEPT ![0] = "poll"]
    BY <1>1, <1>4, PcMoves DEF RootEnter, BarrierCall
  <2>2. B!RootEnter
    BY <1>1, <1>2, <1>3, <1>4, <2>1, MappedRootEnter DEF RootEnter, BarrierCall, Calls
  <2> QED BY <2>2 DEF Simulated, B!Next
<1>5. CASE RootPoll
  <2>1. BarrierPc' = [BarrierPc EXCEPT ![0] = "reset"]
    BY <1>1, <1>5, PcMoves DEF RootPoll
  <2>2. BarrierSync[0][i] # 0
    BY <1>1, <1>5, TypeFacts DEF RootPoll, BarrierSync
  <2>3. B!RootPoll
    BY <1>1, <1>2, <1>3, <1>5, <2>1, <2>2, MappedRootPoll DEF RootPoll
  <2> QED BY <2>3 DEF Simulated, B!Next, B!RootStep
<1>6. CASE RootGathered
  <2>1. BarrierPc' = [BarrierPc EXCEPT ![0] = "release"]
    BY <1>1, <1>6, PcMoves DEF RootGathered
  <2>2. B!RootGathered
    BY <1>1, <1>2, <1>3, <1>6, <2>1, MappedRootGathered DEF RootGathered
  <2> QED BY <2>2 DEF Simulated, B!Next, B!RootStep
<1>7. CASE RootReturn
  <2>1. BarrierPc' = [BarrierPc EXCEPT ![0] = "out"]
    BY <1>1, <1>7, PcMoves DEF RootReturn, BarrierReturn
  <2>2. B!RootReturn
    BY <1>1, <1>2, <1>3, <1>7, <2>1, MappedRootReturn DEF RootReturn, BarrierReturn
  <2> QED BY <2>2 DEF Simulated, B!Next, B!RootStep
<1> QED BY <1>4, <1>5, <1>6, <1>7

(* PE 0 clears a slot.                                                     *)
LEMMA RootResetStep ==
  ASSUME RInv, RInv', RootReset PROVE Simulated
<1>1. TypeOK /\ 0 \in PE /\ i \in PE /\ i \in Addr /\ 0 \in Value /\ UNCHANGED <<host, issued, landed>>
  <2>1. i < N
    BY DEF RInv, OInv, SInv, TInv, LoopInv, RootReset
  <2> QED BY <2>1, TypeFacts, PEFacts DEF RInv, OInv, SInv, TInv, RootReset, Value, logs
<1>2. BarrierWire' = BarrierWire
  BY <1>1, WireSame, LogsSame DEF RInv
<1>3. BarrierSync' = [BarrierSync EXCEPT ![0][i] = 0]
  <2>1. mem' = [mem EXCEPT ![0][i] = 0]
    BY DEF RootReset
  <2>2. TypeOK /\ 0 \in PE /\ i \in PE /\ i \in Addr /\ 0 \in Value
    BY <1>1
  <2> QED BY <2>1, <2>2, SyncSet, ZenonT(60)
<1>4. BarrierPc' = [BarrierPc EXCEPT ![0] = "poll"]
  BY <1>1, PcMoves DEF RootReset
<1>5. BarrierPc[0] = "reset"
  BY <1>1 DEF RootReset, BarrierPc
<1>6. B!RootReset
  BY <1>1, <1>2, <1>3, <1>4, <1>5, MappedRootReset DEF RootReset
<1> QED BY <1>6 DEF Simulated, B!Next, B!RootStep

(* PE 0 releases a leaf: no release of it is under way, because the leaf   *)
(* has called the barrier once more than it was released.                  *)
LEMMA RootReleaseStep ==
  ASSUME RInv, RInv', RootRelease PROVE Simulated
<1>1. TypeOK /\ 0 \in PE /\ i \in PE /\ i \in Leaves /\ i < N /\ i # 0 /\ UNCHANGED host
  <2>1. TypeOK /\ i < N /\ UNCHANGED host
    BY DEF RInv, OInv, SInv, TInv, RootRelease
  <2>2. i \in Leaves /\ i \in PE /\ i # 0
    BY <2>1, TypeFacts
  <2> QED BY <2>1, <2>2, PEFacts
<1>2. NoneUnderWay(0, i)
  <2>1. SigInv(i) /\ CallOK(i) /\ pc[0] = "release"
    BY <1>1 DEF RInv, OInv, SInv, TInv, CallInv, RootRelease
  <2>2. AtRoot(i)
    BY <1>1, <2>1, TypeFacts DEF AtRoot
  <2>3. arrived[i] = Released(i) + 1 /\ left[i] <= Released(i)
        /\ (~NoneUnderWay(0, i) => left[i] + 1 = Released(i))
    BY <2>1, <2>2 DEF SigInv, UpInv, DownInv
  <2>4. arrived[i] = left[i] \/ arrived[i] = left[i] + 1
    BY <2>1, <1>1, TypeFacts DEF CallOK, Bit
  <2>5. arrived[i] \in Nat /\ left[i] \in Nat /\ Released(i) \in Nat
    BY <1>1, RootAhead DEF RInv, OInv
  <2> QED BY <2>3, <2>4, <2>5
<1>3. Issue(0, i, i, 1)
  BY DEF RootRelease
<1>4. /\ Local(0, i) => BarrierSync' = [BarrierSync EXCEPT ![i][i] = 1] /\ BarrierWire' = BarrierWire
      /\ ~Local(0, i) => /\ BarrierWire' = [BarrierWire EXCEPT ![0][i] = @ + 1]
                         /\ BarrierSync' = BarrierSync
  BY <1>1, <1>2, <1>3, SignalIssue
<1>5. BarrierPc' = BarrierPc /\ BarrierPc[0] = "release"
  BY <1>1 DEF RootRelease, BarrierPc
<1>6. B!RootRelease
  BY <1>1, <1>4, <1>5, MappedRootRelease DEF RootRelease, Local
<1> QED BY <1>6 DEF Simulated, B!Next, B!RootStep

(* The steps of a leaf within the barrier; when it calls it no signal of   *)
(* it is under way.                                                        *)
LEMMA LeafStepSimulated ==
  ASSUME RInv, RInv', NEW k \in Leaves, LeafEnter(k) \/ LeafPoll(k) \/ LeafReset(k)
  PROVE  Simulated
<1>1. /\ TypeOK /\ 0 \in PE /\ k \in PE /\ k \in Addr /\ 0 \in Value /\ B!Leaves = Leaves
      /\ UNCHANGED <<host, i>>
  BY PEFacts, MappedVars DEF RInv, OInv, SInv, TInv, LeafEnter, LeafPoll, LeafReset, Value
<1>2. BarrierPc[k] = IF pc[k] \in {"poll", "reset", "release"} THEN pc[k] ELSE "out"
  BY <1>1 DEF BarrierPc
<1>3. CASE LeafEnter(k)
  <2>1. BarrierPc' = [BarrierPc EXCEPT ![k] = "poll"]
    BY <1>1, <1>3, PcMoves DEF LeafEnter, BarrierCall
  <2>2. NoneUnderWay(k, 0)
    <3>1. SigInv(k) /\ CallOK(k) /\ pc[k] = "call"
      BY <1>1, <1>3 DEF RInv, OInv, SInv, TInv, CallInv, LeafEnter, BarrierCall, Calls
    <3>2. left[k] <= Released(k) /\ (~NoneUnderWay(k, 0) => arrived[k] = Released(k) + 1)
      BY <3>1 DEF SigInv, UpInv
    <3>3. arrived[k] \in Nat /\ left[k] \in Nat /\ Released(k) \in Nat
      BY RootAhead DEF RInv, OInv
    <3>4. arrived[k] = left[k]
      BY <3>1, <3>3 DEF CallOK, Bit, Inside
    <3> QED BY <3>2, <3>3, <3>4
  <2>3. Issue(k, 0, k, 1) /\ pc[k] = "call" /\ arrived[k] < MaxRounds
        /\ arrived' = [arrived EXCEPT ![k] = @ + 1] /\ left' = left
    BY <1>3 DEF LeafEnter, BarrierCall, Calls
  <2>4. /\ Local(k, 0) => BarrierSync' = [BarrierSync EXCEPT ![0][k] = 1] /\ BarrierWire' = BarrierWire
        /\ ~Local(k, 0) => /\ BarrierWire' = [BarrierWire EXCEPT ![k][0] = @ + 1]
                           /\ BarrierSync' = BarrierSync
    BY <1>1, <2>2, <2>3, SignalIssue
  <2>5. B!LeafEnter(k)
    BY <1>1, <1>2, <2>1, <2>3, <2>4, MappedLeafEnter DEF Local
  <2> QED BY <1>1, <2>5 DEF Simulated, B!Next
<1>4. CASE LeafPoll(k)
  <2>1. BarrierPc' = [BarrierPc EXCEPT ![k] = "reset"]
    BY <1>1, <1>4, PcMoves DEF LeafPoll
  <2>2. UNCHANGED <<mem, issued, landed>>
    BY <1>4 DEF LeafPoll, logs
  <2>3. BarrierWire' = BarrierWire /\ BarrierSync' = BarrierSync
    BY <2>2, WireSame, LogsSame, SyncSame DEF RInv
  <2>4. BarrierSync[k][k] # 0
    BY <1>1, <1>4 DEF LeafPoll, BarrierSync
  <2>5. B!LeafPoll(k)
    BY <1>1, <1>2, <1>4, <2>1, <2>3, <2>4, MappedLeafPoll DEF LeafPoll
  <2> QED BY <1>1, <2>5 DEF Simulated, B!Next, B!LeafStep
<1>5. CASE LeafReset(k)
  <2>1. BarrierPc' = [BarrierPc EXCEPT ![k] = "out"]
    BY <1>1, <1>5, PcMoves DEF LeafReset, BarrierReturn
  <2>2. UNCHANGED <<issued, landed>>
    BY <1>5 DEF LeafReset, logs
  <2>3. BarrierWire' = BarrierWire
    BY <2>2, WireSame, LogsSame DEF RInv
  <2>4. BarrierSync' = [BarrierSync EXCEPT ![k][k] = 0]
    <3>1. mem' = [mem EXCEPT ![k][k] = 0]
      BY <1>5 DEF LeafReset
    <3>2. PICK a \in Addr, v \in Value : a = k /\ v = 0
      BY <1>1
    <3>3. mem' = [mem EXCEPT ![k][a] = v] /\ a \in PE
      BY <1>1, <3>1, <3>2
    <3>4. BarrierSync' = [BarrierSync EXCEPT ![k][a] = v]
      <4>1. TypeOK /\ k \in PE
        BY <1>1
      <4> QED BY <3>3, <4>1, SyncSet, ZenonT(60)
    <3> QED BY <3>2, <3>4
  <2>5. B!LeafReset(k)
    BY <1>1, <1>2, <1>5, <2>1, <2>3, <2>4, MappedLeafReset DEF LeafReset, BarrierReturn
  <2> QED BY <1>1, <2>5 DEF Simulated, B!Next, B!LeafStep
<1> QED BY <1>3, <1>4, <1>5

(* The worker stores a received packet: Land of Barrier if it is a signal, *)
(* and then it was the only one.                                           *)
LEMMA LandStep ==
  ASSUME RInv, RInv', NEW p \in PE, work_queue[p] # << >>,
         NEW job \in PacketJob, job = Head(work_queue[p]), comm_put(p, job.dest_pe, job.data_buf),
         landed' = [landed EXCEPT ![job.origin_pe][p] = Append(@, job.data_buf)],
         UNCHANGED <<host, pc, i, arrived, left, issued>>
  PROVE  Simulated
<1>1. TypeOK /\ Flow' /\ CountInv /\ CountInv' /\ SignalValue /\ 0 \in PE /\ B!Leaves = Leaves
  BY PEFacts, MappedVars DEF RInv, OInv, SInv, TInv
<1>2. PICK q \in PE, put \in Put : q = job.origin_pe /\ put = job.data_buf
  BY DEF PacketJob
<1>3. job.dest_pe = p /\ Route(q, p, put)
  <2>1. work_queue[p] \in Seq(RoutedJob(p))
    BY DEF RInv, OInv, SInv, RouteInv
  <2>2. job \in RoutedJob(p)
    BY <2>1, QueueFacts
  <2> QED BY <1>2, <2>2 DEF RoutedJob
<1>4. landed' = [landed EXCEPT ![q][p] = Append(landed[q][p], put)] /\ issued' = issued
  BY <1>2, SMTT(60)
<1>5. mem' = [mem EXCEPT ![p][put.dest] = put.val] /\ put.dest \in Addr /\ put.val \in Value
  BY <1>2, <1>3, SMTT(60) DEF comm_put, Local, comm_local_put, Put, Value
<1>6. /\ \A s, d \in PE : s # q \/ d # p => (Pending(s, d)' <=> Pending(s, d))
      /\ put.dest \notin PE => (Pending(q, p)' <=> Pending(q, p))
      /\ put.dest \in PE => Pending(q, p)
      /\ \E n \in DOMAIN issued[q][p] : issued[q][p][n] = put
  BY <1>1, <1>4, LandPending, ZenonT(60)
<1>7. BarrierPc' = BarrierPc
  BY DEF BarrierPc
<1>8. PICK a \in Addr, v \in Value : a = put.dest /\ v = put.val
  BY <1>5
<1>9. mem' = [mem EXCEPT ![p][a] = v]
  BY <1>5, <1>8
<1>10. CASE a \notin PE
  <2>1. BarrierSync' = BarrierSync
    <3>1. TypeOK
      BY <1>1
    <3> QED BY <1>9, <1>10, <3>1, SyncSet, Zenon
  <2>2. \A s, d \in PE : Pending(s, d)' <=> Pending(s, d)
    BY <1>6, <1>8, <1>10
  <2>3. BarrierWire' = BarrierWire
    BY <1>1, <2>2, WireSame
  <2> QED BY <1>7, <2>1, <2>3, Stutter
<1>11. CASE a \in PE
  <2>1. v = 1
    BY <1>1, <1>6, <1>8, <1>11 DEF SignalValue
  <2>2. BarrierSync' = [BarrierSync EXCEPT ![p][a] = 1]
    <3>1. TypeOK
      BY <1>1
    <3>2. BarrierSync' = [BarrierSync EXCEPT ![p][a] = v]
      BY <1>9, <1>11, <3>1, SyncSet, ZenonT(60)
    <3> QED BY <2>1, <3>2
  <2>3. \/ q = 0 /\ p \in Leaves /\ a = p
        \/ p = 0 /\ q \in Leaves /\ a = q
    BY <1>3, <1>8, <1>11 DEF Route
  <2>4. mem'[p][a] = 1
    <3>1. mem \in [PE -> [Addr -> Value]]
      BY <1>1, TypeFacts DEF MemType
    <3> QED BY <1>9, <2>1, <3>1
  <2>5. ~Pending(q, p)'
    <3>1. \A k \in Leaves : SigInv(k)'
      BY DEF RInv, OInv, SInv
    <3>2. \A k \in Leaves : /\ mem'[0][k] # 0 => NoneUnderWay(k, 0)'
                            /\ mem'[k][k] # 0 => NoneUnderWay(0, k)'
      BY <3>1 DEF SigInv, UpInv, DownInv
    <3>3. NoneUnderWay(q, p)'
      BY <2>3, <2>4, <3>2
    <3> QED BY <1>1, <3>3 DEF CountInv
  <2>6. BarrierWire[q][p] > 0 /\ BarrierWire' = [BarrierWire EXCEPT ![q][p] = @ - 1]
    BY <1>1, <1>6, <1>8, <1>11, <2>5, WireDown
  <2>7. a \in Leaves /\ ((p = 0 /\ a = q) \/ (p # 0 /\ a = p))
    BY <2>3 DEF Leaves
  <2>8. B!Land(q, p)
    BY <1>7, <2>2, <2>6, <2>7, MappedLand
  <2> QED BY <1>1, <2>3, <2>8 DEF Simulated, B!Next
<1> QED BY <1>10, <1>11

(* The calls of the program that move data.                                *)
LEMMA UserStep ==
  ASSUME RInv, RInv', NEW p \in PE,
         Store(p) \/ shmem_putmem(p) \/ shmem_getmem(p) \/ shmem_nbi(p) \/ shmem_quiet(p)
  PROVE  Simulated
<1>1. TInv /\ TypeOK /\ UNCHANGED <<host, pc, i, arrived, left>>
  BY DEF RInv, OInv, SInv, TInv, Store, shmem_putmem, shmem_getmem, shmem_nbi, shmem_quiet
<1>2. CASE shmem_nbi(p) \/ shmem_quiet(p)
  <2>1. UNCHANGED <<mem, issued, landed>>
    BY <1>2 DEF shmem_nbi, shmem_quiet, logs
  <2> QED BY <1>1, <2>1, QuietStep
<1>3. ASSUME prog[p] # << >>, Head(prog[p]).op \in {"store", "put", "get"}
      PROVE  /\ Head(prog[p]).dest \in Addr /\ Head(prog[p]).src \in Addr /\ Head(prog[p]).pe \in PE
             /\ Head(prog[p]).dest \notin PE
  BY <1>1, <1>3, CallFacts DEF UserOps
<1>4. CASE Store(p)
  <2>1. prog[p] # << >> /\ Head(prog[p]).op = "store" /\ UNCHANGED <<issued, landed>>
    BY <1>4 DEF Store, Calls, logs
  <2>2. PICK a \in Addr : a = Head(prog[p]).dest /\ a \notin PE
    BY <1>3, <2>1
  <2>3. mem[p][a] \in Value
    BY <1>1, TypeFacts
  <2>4. mem[p][a] + 1 \in Value
    BY <2>3 DEF Value, Garbage
  <2>5. mem' = [mem EXCEPT ![p][a] = mem[p][a] + 1]
    BY <1>4, <2>2 DEF Store
  <2>6. PICK v \in Value : v = mem[p][a] + 1
    BY <2>4
  <2> QED BY <1>1, <2>1, <2>2, <2>5, <2>6, StoreStep
<1>5. CASE shmem_getmem(p)
  <2>1. /\ prog[p] # << >> /\ Head(prog[p]).op = "get" /\ UNCHANGED <<issued, landed>>
        /\ comm_get(p, Head(prog[p]).pe, Head(prog[p]).dest, Head(prog[p]).src)
    BY <1>5 DEF shmem_getmem, Calls, logs
  <2>2. PICK q \in PE, a \in Addr, b \in Addr :
          q = Head(prog[p]).pe /\ a = Head(prog[p]).dest /\ b = Head(prog[p]).src /\ a \notin PE
    BY <1>3, <2>1
  <2>3. PICK v \in Value : v = mem[q][b]
    BY <1>1, TypeFacts
  <2>4. mem' = mem \/ mem' = [mem EXCEPT ![p][a] = v]
    BY <2>1, <2>2, <2>3 DEF comm_get, comm_local_get, comm_remote_get
  <2>5. CASE mem' = mem
    BY <1>1, <2>1, <2>5, QuietStep
  <2>6. CASE mem' = [mem EXCEPT ![p][a] = v]
    BY <1>1, <2>1, <2>2, <2>6, StoreStep
  <2> QED BY <2>4, <2>5, <2>6
<1>6. CASE shmem_putmem(p)
  <2>1. /\ prog[p] # << >> /\ Head(prog[p]).op = "put"
        /\ Issue(p, Head(prog[p]).pe, Head(prog[p]).dest, mem[p][Head(prog[p]).src])
    BY <1>6 DEF shmem_putmem, Calls
  <2>2. PICK q \in PE, a \in Addr, b \in Addr :
          q = Head(prog[p]).pe /\ a = Head(prog[p]).dest /\ b = Head(prog[p]).src /\ a \notin PE
    BY <1>3, <2>1
  <2>3. PICK v \in Value : v = mem[p][b]
    BY <1>1, TypeFacts
  <2>4. Issue(p, q, a, v)
    BY <2>1, <2>2, <2>3
  <2> QED BY <1>1, <2>2, <2>4, UserIssueStep
<1> QED BY <1>2, <1>4, <1>5, <1>6

(* The calls of comm_finalize.                                             *)
LEMMA FinalizeStep ==
  ASSUME RInv, RInv', NEW p \in PE, SetFinished(p) \/ Join(p) \/ Release(p)
  PROVE  Simulated
<1>1. TypeOK /\ UNCHANGED <<host, i, arrived, left, mem, issued, landed>>
  BY DEF RInv, OInv, SInv, TInv, SetFinished, Join, Release, logs
<1>2. BarrierPc' = BarrierPc
  <2>1. \A q \in PE : /\ pc'[q] = pc[q] \/ (q = p /\ pc[q] \in {"call", "join"} /\ pc'[q] \in {"call", "join"})
    BY <1>1 DEF SetFinished, Join, Release, Calls, TypeOK
  <2> QED BY <2>1, PcSame DEF Inside
<1>3. BarrierWire' = BarrierWire
  BY <1>1, WireSame, LogsSame DEF RInv
<1> QED BY <1>1, <1>2, <1>3, SyncSame, Stutter

(* Every step of the worker.                                               *)
LEMMA WorkerStep ==
  ASSUME RInv, RInv', NEW p \in PE, Worker(p)
  PROVE  Simulated
<1>1. TInv /\ TypeOK /\ UNCHANGED <<host, pc, i, arrived, left>>
  BY DEF RInv, OInv, SInv, TInv, Worker, Execute, WorkerExit, mainVars
<1>2. CASE WorkerExit(p)
  <2>1. UNCHANGED <<mem, issued, landed>>
    BY <1>2 DEF WorkerExit, logs
  <2> QED BY <1>1, <2>1, QuietStep
<1>3. CASE Execute(p)
  <2>1. work_queue[p] # << >> /\ work_thread_dequeue(p)
    BY <1>3 DEF Execute
  <2>2. PICK job \in Job : job = Head(work_queue[p])
    BY <1>1, <2>1, WorkHead, SMTT(60)
  <2>3. CASE job \in PacketJob
    <3>1. /\ comm_put(p, job.dest_pe, job.data_buf) /\ issued' = issued
          /\ landed' = [landed EXCEPT ![job.origin_pe][p] = Append(@, job.data_buf)]
      BY <1>3, <2>2, <2>3, JobKinds DEF Execute
    <3> QED BY <1>1, <2>1, <2>2, <2>3, <3>1, LandStep
  <2>4. CASE job \in OwnJob /\ job.handler = "GET"
    <3>1. UNCHANGED <<mem, issued, landed>>
      BY <1>3, <2>2, <2>4 DEF Execute, logs
    <3> QED BY <1>1, <3>1, QuietStep
  <2>5. CASE job \in OwnJob /\ job.handler # "GET"
    <3>1. job.dest_pe \in PE /\ job.dest \in Addr /\ job.src \in Addr /\ "src" \in DOMAIN job
      BY <2>5, JobKinds DEF OwnJob
    <3>2. job.dest \notin PE
      <4>1. work_queue[p] \in Seq(Job)
        BY <1>1, SeqTypes
      <4>2. 1 \in DOMAIN work_queue[p] /\ job = work_queue[p][1]
        BY <2>1, <2>2, <4>1, QueueFacts
      <4> QED BY <1>1, <2>5, <4>2 DEF TInv, WorkInv
    <3>3. Issue(p, job.dest_pe, job.dest, mem[p][job.src])
      BY <1>3, <2>2, <2>5, <3>1 DEF Execute
    <3>4. PICK q \in PE, a \in Addr, v \in Value :
            q = job.dest_pe /\ a = job.dest /\ v = mem[p][job.src]
      BY <1>1, <3>1, TypeFacts
    <3>5. Issue(p, q, a, v) /\ a \notin PE
      BY <3>2, <3>3, <3>4
    <3> QED BY <1>1, <3>5, UserIssueStep
  <2> QED BY <2>3, <2>4, <2>5 DEF Job
<1> QED BY <1>2, <1>3 DEF Worker

(* Every step of the communication thread is a stutter.                    *)
LEMMA CommThreadStep ==
  ASSUME RInv, RInv', NEW p \in PE, CommThread(p)
  PROVE  Simulated
<1>1. UNCHANGED <<host, pc, i, arrived, left, mem, issued, landed>>
  BY DEF CommThread, Check, Received, Send, Sent, ReceiveNothing, ReceiveBadPacket,
         ReceivePacket, ReceiveMisframed, Polls, logs, mainVars
<1> QED BY <1>1, QuietStep, SMTT(60)

(* The initial states map to initial states.                               *)
LEMMA InitMapped == Init => B!Init /\ SignalValue
<1> SUFFICES ASSUME Init PROVE B!Init /\ SignalValue
  OBVIOUS
<1>1. OInv /\ CountInv /\ TypeOK
  BY InitOInv, CountFromLog DEF OInv, SInv, TInv
<1>2. /\ \A s, d \in PE : issued[s][d] = << >>
      /\ pc = [p \in PE |-> "call"] /\ i = 1 /\ mem = [p \in PE |-> [a \in Addr |-> 0]]
      /\ arrived = [p \in PE |-> 0] /\ left = [p \in PE |-> 0]
  BY DEF Init, Idle
<1>3. DOMAIN << >> = {}
  OBVIOUS
<1>4. \A s, d \in PE : ~Pending(s, d)
  BY <1>2, <1>3 DEF Pending
<1>5. \A s, d \in PE : SignalsUnderWay(s, d) = 0
  BY <1>1, <1>4 DEF CountInv, Bit
<1>6. BarrierWire = [p \in PE |-> [q \in PE |-> 0]]
  BY <1>5 DEF BarrierWire
<1>7. BarrierSync = [p \in PE |-> [k \in PE |-> 0]]
  <2>1. PE \subseteq Addr
    BY PEFacts
  <2>2. \A p, k \in PE : mem[p][k] = 0
    BY <1>2, <2>1
  <2> QED BY <2>2 DEF BarrierSync
<1>8. BarrierPc = [p \in PE |-> "out"]
  BY <1>2 DEF BarrierPc
<1>9. host \in [PE -> Hosts]
  BY <1>1 DEF TypeOK
<1>10. B!Init
  BY <1>2, <1>6, <1>7, <1>8, <1>9 DEF B!Init, B!PE, BarrierWire, BarrierSync, BarrierPc, PE
<1>11. SignalValue
  BY <1>2, <1>3 DEF SignalValue
<1> QED BY <1>10, <1>11

(* Every step maps to a step or a stutter.                                 *)
LEMMA NextSimulated ==
  ASSUME RInv, RInv', [Next]_vars
  PROVE  [B!Next]_(B!vars)
<1>1. CASE UNCHANGED vars
  <2>1. UNCHANGED <<host, pc, i, arrived, left, mem, issued, landed>>
    BY <1>1 DEF vars, mainVars, logs
  <2>2. Simulated
    BY <2>1, QuietStep
  <2> QED BY <2>2 DEF Simulated
<1>2. ASSUME NEW p \in PE, MainThread(p) PROVE Simulated
  <2>1. p # 0 => p \in Leaves
    BY PEFacts
  <2>2. CASE p = 0 /\ (\/ RootEnter \/ RootPoll \/ RootReset \/ RootGathered \/ RootRelease \/ RootReturn)
    BY <2>2, RootQuietStep, RootResetStep, RootReleaseStep
  <2>3. CASE p # 0 /\ (LeafEnter(p) \/ LeafPoll(p) \/ LeafReset(p))
    BY <2>1, <2>3, LeafStepSimulated
  <2> QED BY <1>2, <2>2, <2>3, UserStep, FinalizeStep DEF MainThread
<1>3. ASSUME NEW p \in PE, MainThread(p) \/ Worker(p) \/ CommThread(p) PROVE Simulated
  BY <1>2, <1>3, WorkerStep, CommThreadStep
<1> QED BY <1>1, <1>3 DEF Next, Finished, Simulated

(* Comm.ImplementsBarrier: if reads return whole packets and no write is   *)
(* cut short, the library's threads, queues and sockets implement          *)
(* comm_barrier_all over an asynchronous put (comm.c:96-165,               *)
(* comm_remote.c:73-161, work.c:32-93), whatever else the program sends    *)
(* through them.                                                           *)
THEOREM Refinement ==
  ASSUME ~Splits
  PROVE  Spec /\ []WritesFit => ImplementsBarrier
<1>1. OInv /\ WritesFit /\ [Next]_vars => OInv'
  BY NextOInv
<1>2. OInv /\ SignalValue /\ [Next]_vars => SignalValue'
  BY NextSignalValue DEF OInv, SInv
<1>3. Init => OInv /\ B!Init /\ SignalValue
  BY InitOInv, InitMapped
<1>4. OInv /\ SignalValue => RInv
  BY CountFromLog DEF RInv
<1>5. RInv /\ RInv' /\ [Next]_vars => [B!Next]_(B!vars)
  BY NextSimulated
<1> QED BY <1>1, <1>2, <1>3, <1>4, <1>5, PTL DEF Spec, ImplementsBarrier, B!Spec

-----------------------------------------------------------------------------
(* How many calls p has returned from.                                     *)
Done(j, p) == Len(j.prog[p]) - Len(prog[p])

(* The job that is running is j: prog holds what is left of its programs.  *)
ProgOf(j) ==
  /\ host = j.host
  /\ \A p \in PE : /\ Len(prog[p]) <= Len(j.prog[p])
                   /\ \A m \in DOMAIN prog[p] : prog[p][m] = j.prog[p][m + Done(j, p)]

(* Non-blocking puts go to PEs of the same host.                           *)
LocalJob(p) ==
  {job \in Job : job \in OwnJob /\ job.handler = "PUT" => Local(p, job.dest_pe)}

(* A PE within comm_barrier_all has the barrier as its first call.         *)
BarrierFirst(p) == Inside(p) => prog[p][1].op = "barrier"

(* How many calls of p have sent what they send to q,                      *)
Pos(j, p, q) ==
  Done(j, p) + Bit(IF p = 0 THEN pc[0] = "release" /\ q < i ELSE q = 0 /\ Inside(p))

(* and the barriers among them.                                            *)
Rounds(p, q) == IF p = 0 THEN Released(q) ELSE IF q = 0 THEN arrived[p] ELSE left[p]

(* How many members of S are at most b.                                    *)
Num(S, b) == Cardinality(Between(S, 1, b))

(* The log holds one put for each call of S up to b, with a round that is  *)
(* at most the number of barriers up to that call, or before it if q is 0. *)
Tale(S, T, q, b, r, log) ==
  /\ r = Num(T, b) /\ Len(log) = Num(S, b)
  /\ \A n \in DOMAIN log :
       \E c \in S : /\ c <= b /\ Num(S, c) = n
                    /\ log[n].round <= Num(T, IF q = 0 THEN c - 1 ELSE c)

(* The log of p and q tells the program of p in job j.                     *)
Told(j, p, q) ==
  Tale(Sending(j.prog[p], p, q), Barriers(j.prog[p]), q, Pos(j, p, q), Rounds(p, q), issued[p][q])

(* The invariant of a light job.                                           *)
LightInv(j) ==
  /\ ProgOf(j)
  /\ \A p \in PE : work_queue[p] \in Seq(LocalJob(p)) /\ BarrierFirst(p)
  /\ \A p, q \in PE : ~Local(p, q) => Told(j, p, q)

(* Parts of a finite set.                                                  *)
LEMMA BetweenFinite ==
  ASSUME NEW S \in SUBSET (Nat \ {0}), IsFiniteSet(S), NEW a, NEW b
  PROVE  IsFiniteSet(Between(S, a, b)) /\ Cardinality(Between(S, a, b)) \in Nat
<1>1. Between(S, a, b) \subseteq S
  BY DEF Between
<1> QED BY <1>1, FS_Subset, FS_CardinalityType

(* Counting on from a to b.                                                *)
LEMMA NumBetween ==
  ASSUME NEW S \in SUBSET (Nat \ {0}), IsFiniteSet(S), NEW a \in Nat, NEW b \in Nat, a <= b
  PROVE  /\ Num(S, a) \in Nat /\ Num(S, b) \in Nat /\ Cardinality(Between(S, a + 1, b)) \in Nat
         /\ Num(S, b) = Num(S, a) + Cardinality(Between(S, a + 1, b))
<1> DEFINE X == Between(S, 1, a)
           Y == Between(S, a + 1, b)
           Z == Between(S, 1, b)
<1>1. /\ IsFiniteSet(X) /\ IsFiniteSet(Y) /\ IsFiniteSet(Z)
      /\ Cardinality(X) \in Nat /\ Cardinality(Y) \in Nat /\ Cardinality(Z) \in Nat
  BY BetweenFinite
<1>0. \A n \in S : n \in Nat /\ 1 <= n /\ (n <= b <=> n <= a \/ (a + 1 <= n /\ n <= b)) /\ ~(n <= a /\ a + 1 <= n)
  OBVIOUS
<1>2. Z = X \cup Y /\ X \cap Y = {}
  BY <1>0, Zenon DEF Between
<1>3. Num(S, a) = Cardinality(X) /\ Num(S, b) = Cardinality(Z)
  BY DEF Num
<1> HIDE DEF X, Y, Z
<1>4. Cardinality(X \cup Y) = Cardinality(X) + Cardinality(Y) - Cardinality(X \cap Y)
  BY <1>1, FS_Union
<1>5. Cardinality(X \cap Y) = 0
  BY <1>2, FS_EmptySet
<1>6. Cardinality(Z) = Cardinality(X) + Cardinality(Y)
  BY <1>1, <1>2, <1>4, <1>5
<1> QED BY <1>1, <1>3, <1>6 DEF Y

(* Counting on by one.                                                     *)
LEMMA NumNext ==
  ASSUME NEW S \in SUBSET (Nat \ {0}), IsFiniteSet(S), NEW b \in Nat
  PROVE  /\ Num(S, b) \in Nat /\ Num(S, b + 1) \in Nat /\ Num(S, 0) = 0
         /\ Num(S, b + 1) = Num(S, b) + Bit(b + 1 \in S)
<1>1. /\ Num(S, b) \in Nat /\ Num(S, b + 1) \in Nat
      /\ Num(S, b + 1) = Num(S, b) + Cardinality(Between(S, b + 1, b + 1))
  <2>1. b + 1 \in Nat /\ b <= b + 1
    OBVIOUS
  <2> QED BY <2>1, NumBetween, Zenon
<1>2. Num(S, 0) = 0
  <2>0. \A n \in S : ~(1 <= n /\ n <= 0)
    OBVIOUS
  <2>1. Between(S, 1, 0) = {}
    BY <2>0, Zenon DEF Between
  <2> QED BY <2>1, FS_EmptySet DEF Num
<1>3. Cardinality(Between(S, b + 1, b + 1)) = Bit(b + 1 \in S)
  <2>0. (\A n \in S : b + 1 <= n /\ n <= b + 1 => n = b + 1) /\ b + 1 <= b + 1
    OBVIOUS
  <2>1. CASE b + 1 \in S
    <3>1. Between(S, b + 1, b + 1) = {b + 1}
      BY <2>0, <2>1, Zenon DEF Between
    <3> QED BY <2>1, <3>1, FS_Singleton DEF Bit
  <2>2. CASE b + 1 \notin S
    <3>1. Between(S, b + 1, b + 1) = {}
      BY <2>0, <2>2, Zenon DEF Between
    <3> QED BY <2>2, <3>1, FS_EmptySet DEF Bit
  <2> QED BY <2>1, <2>2
<1> QED BY <1>1, <1>2, <1>3

(* The empty log.                                                          *)
LEMMA TaleStart ==
  ASSUME NEW S \in SUBSET (Nat \ {0}), IsFiniteSet(S), NEW T \in SUBSET (Nat \ {0}), IsFiniteSet(T), NEW q
  PROVE  Tale(S, T, q, 0, 0, << >>)
<1>1. Num(S, 0) = 0 /\ Num(T, 0) = 0
  BY NumNext
<1>2. Len(<< >>) = 0 /\ DOMAIN << >> = {}
  OBVIOUS
<1> QED BY <1>1, <1>2 DEF Tale

(* The next call sends nothing.                                            *)
LEMMA TaleSilent ==
  ASSUME NEW S \in SUBSET (Nat \ {0}), IsFiniteSet(S), NEW T \in SUBSET (Nat \ {0}), IsFiniteSet(T), NEW q,
         NEW b \in Nat, NEW r, NEW log \in Seq(Put), Tale(S, T, q, b, r, log), b + 1 \notin S
  PROVE  Tale(S, T, q, b + 1, r + Bit(b + 1 \in T), log)
<1>1. Num(T, b + 1) = Num(T, b) + Bit(b + 1 \in T)
  BY NumNext
<1>2. Num(S, b + 1) = Num(S, b)
  <2>1. Num(S, b + 1) = Num(S, b) + Bit(b + 1 \in S) /\ Num(S, b) \in Nat
    BY NumNext
  <2> QED BY <2>1 DEF Bit
<1>3. r + Bit(b + 1 \in T) = Num(T, b + 1) /\ Len(log) = Num(S, b + 1)
  BY <1>1, <1>2 DEF Tale
<1>4. ASSUME NEW n \in DOMAIN log
      PROVE  \E c \in S : /\ c <= b + 1 /\ Num(S, c) = n
                          /\ log[n].round <= Num(T, IF q = 0 THEN c - 1 ELSE c)
  <2>1. PICK c \in S : /\ c <= b /\ Num(S, c) = n
                       /\ log[n].round <= Num(T, IF q = 0 THEN c - 1 ELSE c)
    BY <1>4 DEF Tale
  <2>2. c <= b + 1
    BY <2>1
  <2> QED BY <2>1, <2>2
<1> QED BY <1>3, <1>4 DEF Tale

(* The next call sends, and the put is at the end of the log.              *)
LEMMA TaleSend ==
  ASSUME NEW S \in SUBSET (Nat \ {0}), IsFiniteSet(S), NEW T \in SUBSET (Nat \ {0}), IsFiniteSet(T), NEW q,
         NEW b \in Nat, NEW r, NEW log \in Seq(Put), Tale(S, T, q, b, r, log), b + 1 \in S,
         NEW put \in Put, put.round = r \/ (q # 0 /\ put.round = r + Bit(b + 1 \in T))
  PROVE  Tale(S, T, q, b + 1, r + Bit(b + 1 \in T), Append(log, put))
<1> DEFINE t == Append(log, put)
<1>1. Num(T, b + 1) = Num(T, b) + Bit(b + 1 \in T) /\ Num(T, b) \in Nat
  BY NumNext
<1>2. Num(S, b + 1) = Num(S, b) + 1 /\ Num(S, b) \in Nat
  BY NumNext DEF Bit
<1>3. r = Num(T, b) /\ Len(log) = Num(S, b)
  BY DEF Tale
<1>4. /\ Len(log) \in Nat /\ Len(t) = Len(log) + 1 /\ DOMAIN log = 1 .. Len(log)
      /\ DOMAIN t = 1 .. Len(log) + 1 /\ (\A n \in DOMAIN log : t[n] = log[n]) /\ t[Len(log) + 1] = put
  BY AppendFacts
<1> HIDE DEF t
<1>5. r + Bit(b + 1 \in T) = Num(T, b + 1) /\ Len(t) = Num(S, b + 1)
  BY <1>1, <1>2, <1>3, <1>4
<1>6. ASSUME NEW n \in DOMAIN t
      PROVE  \E c \in S : /\ c <= b + 1 /\ Num(S, c) = n
                          /\ t[n].round <= Num(T, IF q = 0 THEN c - 1 ELSE c)
  <2>1. CASE n \in DOMAIN log
    <3>1. PICK c \in S : /\ c <= b /\ Num(S, c) = n
                         /\ log[n].round <= Num(T, IF q = 0 THEN c - 1 ELSE c)
      BY <2>1 DEF Tale
    <3>2. c <= b + 1 /\ t[n] = log[n]
      BY <1>4, <2>1, <3>1
    <3> QED BY <3>1, <3>2
  <2>2. CASE n = Len(log) + 1
    <3>1. t[n] = put /\ Num(S, b + 1) = n
      BY <1>2, <1>3, <1>4, <2>2
    <3>2. (b + 1) - 1 = b
      OBVIOUS
    <3>3. put.round <= Num(T, IF q = 0 THEN (b + 1) - 1 ELSE b + 1)
      BY <1>1, <1>3, <3>2 DEF Bit
    <3> QED BY <3>1, <3>3
  <2> QED BY <1>4, <2>1, <2>2
<1> QED BY <1>5, <1>6 DEF Tale, t

(* A socket with whole packets of the numbers above a up to b holds three  *)
(* cells for each: a cell is told from the others by the number of its     *)
(* packet and its part.                                                    *)
LEMMA WireLength ==
  ASSUME NEW w \in Seq(Cell), Framed(w), NEW a \in Nat, NEW b \in Nat, a <= b,
         Carries(Numbers(w, Starts, CellSeq), a, b)
  PROVE  Len(w) \in Nat /\ Len(w) <= 3 * (b - a)
<1> DEFINE c == Numbers(w, Starts, CellSeq)
           L == Len(w)
<1>1. L \in Nat /\ DOMAIN w = 1 .. L /\ \A n \in DOMAIN w : w[n] \in Cell
  BY LenProperties, ElementOfSeq
<1>2. \A n \in DOMAIN w : w[n].part \in 1 .. 3 /\ CellSeq[w[n]] = w[n].packet.seq
  BY <1>1 DEF Cell, CellSeq
<1>3. /\ \A n : n \in DOMAIN c <=> n \in DOMAIN w /\ w[n] \in Starts
      /\ \A n \in DOMAIN c : c[n] = CellSeq[w[n]]
  BY NumbersFacts
<1>4. /\ \A n \in DOMAIN c : n \in Nat /\ c[n] \in a + 1 .. b
      /\ \A m, n \in DOMAIN c : m < n => c[m] < c[n]
  BY DEF Carries
<1> HIDE DEF c, L
<1>5. ASSUME NEW n \in DOMAIN w, w[n].part # 1
      PROVE  n - 1 \in DOMAIN w /\ w[n - 1].part = w[n].part - 1
  <2>1. n \in 1 .. L /\ n # 1
    BY <1>1, <1>5 DEF Framed
  <2>2. n - 1 \in DOMAIN w /\ (n - 1) + 1 = n
    BY <1>1, <2>1
  <2>3. w[n - 1].part \in 1 .. 3 /\ w[n].part \in 1 .. 3
    BY <1>2, <2>2
  <2>4. w[n - 1].part # 3
    BY <1>5, <2>2 DEF Framed
  <2>5. w[n].part = w[n - 1].part + 1
    BY <2>2, <2>3, <2>4 DEF Framed
  <2> QED BY <2>2, <2>3, <2>5
<1>6. ASSUME NEW n \in DOMAIN w PROVE n - w[n].part + 1 \in DOMAIN c
  <2>1. n \in Int /\ w[n].part \in 1 .. 3
    BY <1>1, <1>2
  <2>2. PICK m \in DOMAIN w : m = n - w[n].part + 1 /\ w[m].part = 1
    <3>1. CASE w[n].part = 1
      BY <2>1, <3>1
    <3>2. CASE w[n].part = 2
      <4>1. n - 1 \in DOMAIN w /\ w[n - 1].part = 1
        BY <1>5, <3>2
      <4> QED BY <2>1, <3>2, <4>1
    <3>3. CASE w[n].part = 3
      <4>1. n - 1 \in DOMAIN w /\ w[n - 1].part = 2
        BY <1>5, <3>3
      <4>2. (n - 1) - 1 \in DOMAIN w /\ w[(n - 1) - 1].part = 1
        BY <1>5, <4>1
      <4>3. (n - 1) - 1 = n - 3 + 1
        BY <2>1
      <4> QED BY <3>3, <4>2, <4>3
    <3> QED BY <2>1, <3>1, <3>2, <3>3
  <2>3. m \in DOMAIN c
    BY <1>1, <1>3, <2>2 DEF Starts
  <2> QED BY <2>2, <2>3
<1> DEFINE k == [n \in DOMAIN w |-> n - w[n].part + 1]
           g == [n \in DOMAIN w |-> c[k[n]]]
           f == [n \in DOMAIN w |-> 3 * (g[n] - a) - 3 + w[n].part]
<1>7. \A n \in DOMAIN w : k[n] = n - w[n].part + 1 /\ k[n] \in DOMAIN c /\ k[n] \in Nat
  BY <1>4, <1>6
<1>8. \A m, n \in DOMAIN c : c[m] = c[n] => m = n
  <2>1. ASSUME NEW m \in DOMAIN c, NEW n \in DOMAIN c, c[m] = c[n] PROVE m = n
    <3>1. ~(m < n) /\ ~(n < m)
      BY <1>4, <2>1
    <3> QED BY <1>4, <3>1
  <2> QED BY <2>1
<1> HIDE DEF k
<1>9. \A n \in DOMAIN w : g[n] = c[k[n]] /\ g[n] \in a + 1 .. b
  <2>1. ASSUME NEW n \in DOMAIN w PROVE g[n] = c[k[n]] /\ g[n] \in a + 1 .. b
    <3>1. g[n] = c[k[n]]
      OBVIOUS
    <3> HIDE DEF g
    <3>2. k[n] \in DOMAIN c
      BY <1>7
    <3>3. c[k[n]] \in a + 1 .. b
      BY <1>4, <3>2, Zenon
    <3> QED BY <3>1, <3>3
  <2> QED BY <2>1, Zenon
<1> HIDE DEF g
<1>10. \A n \in DOMAIN w : f[n] = 3 * (g[n] - a) - 3 + w[n].part /\ f[n] \in 1 .. 3 * (b - a)
  BY <1>2, <1>9, SMTT(60)
<1>11. f \in [1 .. L -> 1 .. 3 * (b - a)]
  <2>1. DOMAIN f = 1 .. L /\ f = [n \in DOMAIN w |-> f[n]]
    BY <1>1
  <2> QED BY <1>1, <1>10, <2>1
<1> HIDE DEF f
<1>12. ASSUME NEW m \in DOMAIN w, NEW n \in DOMAIN w, f[m] = f[n] PROVE m = n
  <2>1. 3 * (g[m] - a) - 3 + w[m].part = 3 * (g[n] - a) - 3 + w[n].part
    BY <1>10, <1>12
  <2>2. PICK x \in a + 1 .. b, y \in a + 1 .. b, u \in 1 .. 3, v \in 1 .. 3 :
          x = g[m] /\ y = g[n] /\ u = w[m].part /\ v = w[n].part
    BY <1>2, <1>9
  <2>3. 3 * (x - a) - 3 + u = 3 * (y - a) - 3 + v
    BY <2>1, <2>2
  <2>4. x = y /\ u = v
    BY <2>3
  <2>5. k[m] = k[n]
    <3>1. c[k[m]] = c[k[n]]
      BY <1>9, <2>2, <2>4
    <3> QED BY <1>7, <1>8, <3>1, Zenon
  <2>6. m - u + 1 = n - v + 1
    BY <1>7, <2>2, <2>5
  <2> QED BY <1>1, <2>4, <2>6
<1>13. f \in Injection(1 .. L, 1 .. 3 * (b - a))
  BY <1>1, <1>11, <1>12 DEF Injection, IsInjective
<1>14. /\ IsFiniteSet(1 .. 3 * (b - a)) /\ Cardinality(1 .. 3 * (b - a)) = 3 * (b - a)
       /\ Cardinality(1 .. L) = L
  <2>1. 3 * (b - a) \in Nat
    OBVIOUS
  <2>2. PICK z \in Nat : z = 3 * (b - a)
    BY <2>1
  <2>3. IsFiniteSet(1 .. z) /\ Cardinality(1 .. z) = z
    BY FS_Interval
  <2>4. Cardinality(1 .. L) = L
    BY <1>1, FS_Interval
  <2> QED BY <2>2, <2>3, <2>4
<1>15. Cardinality(1 .. L) <= Cardinality(1 .. 3 * (b - a))
  BY <1>13, <1>14, FS_Injection
<1> QED BY <1>1, <1>14, <1>15 DEF L

(* The cells in the socket and those of the packet to be written are no    *)
(* more than three for each put that has not landed.                       *)
LEMMA CellsUnderWay ==
  ASSUME OInv, NEW p \in PE, NEW q \in PE, queue_send[p] # << >>, Head(queue_send[p]).pe = q
  PROVE  Len(wire[p][q]) + 3 <= 3 * (Len(issued[p][q]) - Len(landed[p][q])) /\ Len(wire[p][q]) \in Nat
<1>1. TypeOK /\ Framed(wire[p][q]) /\ Pipeline(p, q)
  BY DEF OInv, SInv, TInv, Flow
<1>2. PICK l \in Nat, a \in Nat, b \in Nat, h \in Nat : Shares(p, q, l, a, b, h)
  BY <1>1, PipelineShares
<1>3. /\ l <= a /\ a <= b /\ b <= h /\ l = Len(landed[p][q]) /\ h = Len(issued[p][q])
      /\ Carries(WireSeq(p, q), a, b) /\ Carries(SendSeq(p, q), b, h)
  BY <1>2 DEF Shares
<1>4. Len(wire[p][q]) \in Nat /\ Len(wire[p][q]) <= 3 * (b - a)
  <2>1. wire[p][q] \in Seq(Cell) /\ Carries(Numbers(wire[p][q], Starts, CellSeq), a, b)
    BY <1>1, <1>3, SeqTypes DEF WireSeq
  <2> QED BY <1>1, <1>3, <2>1, WireLength
<1>5. b + 1 <= h
  <2>1. queue_send[p] \in Seq(Entry)
    BY <1>1, SeqTypes
  <2>2. 1 \in DOMAIN queue_send[p] /\ queue_send[p][1] \in EntriesTo(q)
    BY <2>1, QueueFacts DEF EntriesTo
  <2>3. 1 \in DOMAIN SendSeq(p, q)
    BY <2>2, NumbersFacts DEF SendSeq
  <2>4. SendSeq(p, q)[1] \in b + 1 .. h
    BY <1>3, <2>3 DEF Carries
  <2> QED BY <2>4
<1>6. PICK z \in Nat : z = Len(wire[p][q])
  BY <1>4
<1>7. z + 3 <= 3 * (h - l)
  <2>1. z <= 3 * (b - a) /\ l <= a
    BY <1>3, <1>4, <1>6
  <2> QED BY <1>5, <2>1
<1> QED BY <1>3, <1>4, <1>6, <1>7

(* The calls of a program that send are finitely many numbers from 1.      *)
LEMMA SendSets ==
  ASSUME NEW j \in Jobs, NEW p \in PE, NEW q
  PROVE  /\ j.prog[p] \in Seq(Call) /\ Len(j.prog[p]) \in Nat /\ DOMAIN j.prog[p] = 1 .. Len(j.prog[p])
         /\ Sending(j.prog[p], p, q) \in SUBSET (Nat \ {0}) /\ IsFiniteSet(Sending(j.prog[p], p, q))
         /\ Barriers(j.prog[p]) \in SUBSET (Nat \ {0}) /\ IsFiniteSet(Barriers(j.prog[p]))
<1>1. j.prog[p] \in Seq(Call)
  BY JobsAssumption
<1>2. Len(j.prog[p]) \in Nat /\ DOMAIN j.prog[p] = 1 .. Len(j.prog[p])
  BY <1>1, LenProperties
<1>3. PICK L \in Nat : L = Len(j.prog[p])
  BY <1>2
<1>4. IsFiniteSet(1 .. L) /\ 1 .. L \subseteq Nat \ {0}
  BY FS_Interval
<1>5. Sending(j.prog[p], p, q) \subseteq 1 .. L /\ Barriers(j.prog[p]) \subseteq 1 .. L
  BY <1>2, <1>3 DEF Sending, Barriers
<1> QED BY <1>1, <1>2, <1>4, <1>5, FS_Subset

(* Where p is in its program: at a call that is still to be made, and      *)
(* within it if it is inside a barrier.                                    *)
LEMMA Places ==
  ASSUME TInv, NEW j \in Jobs, LightInv(j), NEW p \in PE, NEW q \in PE
  PROVE  /\ Done(j, p) \in Nat /\ Pos(j, p, q) \in Nat /\ Pos(j, p, q) <= Len(j.prog[p])
         /\ prog[p] # << >> => /\ Done(j, p) + 1 \in DOMAIN j.prog[p]
                               /\ j.prog[p][Done(j, p) + 1] = Head(prog[p])
         /\ Inside(p) => prog[p] # << >> /\ Head(prog[p]).op = "barrier"
         /\ Pos(j, p, q) = Done(j, p) \/ (Pos(j, p, q) = Done(j, p) + 1 /\ Inside(p))
<1>1. prog[p] \in Seq(Call)
  BY DEF TInv, TypeOK
<1>2. j.prog[p] \in Seq(Call) /\ Len(j.prog[p]) \in Nat /\ DOMAIN j.prog[p] = 1 .. Len(j.prog[p])
  BY SendSets
<1>3. /\ Len(prog[p]) <= Len(j.prog[p]) /\ BarrierFirst(p)
      /\ \A m \in DOMAIN prog[p] : prog[p][m] = j.prog[p][m + Done(j, p)]
  BY DEF LightInv, ProgOf
<1>4. Len(prog[p]) \in Nat
  BY <1>1, LenProperties
<1>5. PICK x \in Nat, y \in Nat : x = Len(prog[p]) /\ y = Len(j.prog[p]) /\ x <= y
  BY <1>2, <1>3, <1>4
<1>6. Done(j, p) = y - x
  BY <1>5 DEF Done
<1>13. x <= y
  BY <1>5
<1>7. Done(j, p) \in Nat /\ Done(j, p) <= y
  <2>1. y - x \in Nat /\ y - x <= y
    BY <1>13
  <2> QED BY <1>6, <2>1
<1>8. ASSUME prog[p] # << >>
      PROVE  /\ Done(j, p) + 1 \in 1 .. y /\ j.prog[p][Done(j, p) + 1] = Head(prog[p])
             /\ Head(prog[p]) = prog[p][1]
  <2>1. 1 \in DOMAIN prog[p] /\ Head(prog[p]) = prog[p][1] /\ DOMAIN prog[p] = 1 .. Len(prog[p])
    BY <1>1, <1>8, QueueFacts
  <2>2. 1 <= x
    BY <1>5, <2>1
  <2>3. prog[p][1] = j.prog[p][1 + Done(j, p)] /\ 1 + Done(j, p) = Done(j, p) + 1
    BY <1>3, <1>7, <2>1
  <2>4. Done(j, p) + 1 \in 1 .. y
    <3>1. (y - x) + 1 \in 1 .. y
      BY <1>13, <2>2
    <3> QED BY <1>6, <3>1
  <2> QED BY <2>1, <2>3, <2>4
<1>9. Inside(p) => prog[p] # << >>
  BY DEF TInv, CallInv, CallOK, Inside
<1>10. Inside(p) => Head(prog[p]).op = "barrier"
  BY <1>3, <1>8, <1>9 DEF BarrierFirst
<1>11. Pos(j, p, q) = Done(j, p) \/ (Pos(j, p, q) = Done(j, p) + 1 /\ Inside(p))
  <2> HIDE DEF Done
  <2> QED BY <1>7 DEF Pos, Bit, Inside
<1>12. Pos(j, p, q) \in Nat /\ Pos(j, p, q) <= y
  <2>1. CASE Pos(j, p, q) = Done(j, p)
    BY <1>7, <2>1
  <2>2. CASE Pos(j, p, q) = Done(j, p) + 1 /\ Inside(p)
    BY <1>7, <1>8, <1>9, <2>2
  <2> QED BY <1>11, <2>1, <2>2
<1> QED BY <1>2, <1>5, <1>7, <1>8, <1>9, <1>10, <1>11, <1>12

(* If a leaf's call c has at least as many barriers before it as the leaf  *)
(* has left, there is none from c on before the call it is at.             *)
LEMMA LeafTogether ==
  ASSUME NEW T \in SUBSET (Nat \ {0}), IsFiniteSet(T), NEW c \in Nat \ {0}, NEW b \in Nat, c <= b,
         NEW r \in Nat, NEW l \in Nat, r <= Num(T, c - 1), l <= r,
         Num(T, b) = l \/ (Num(T, b) = l + 1 /\ b \in T)
  PROVE  Between(T, c, b - 1) = {}
<1>1. PICK d \in Nat, a \in Nat : d = c - 1 /\ c = d + 1 /\ a = b - 1 /\ b = a + 1 /\ d <= a
  OBVIOUS
<1>2. /\ Num(T, d) \in Nat /\ Num(T, a) \in Nat /\ Cardinality(Between(T, d + 1, a)) \in Nat
      /\ Num(T, a) = Num(T, d) + Cardinality(Between(T, d + 1, a))
  BY <1>1, NumBetween
<1>3. Num(T, a + 1) = Num(T, a) + Bit(a + 1 \in T)
  BY NumNext
<1>4. Num(T, d) >= l
  BY <1>1, <1>2
<1>5. Num(T, a) <= l
  <2>1. CASE Num(T, b) = l
    BY <1>1, <1>2, <1>3, <2>1 DEF Bit
  <2>2. CASE Num(T, b) = l + 1 /\ b \in T
    BY <1>1, <1>2, <1>3, <2>2 DEF Bit
  <2> QED BY <2>1, <2>2
<1>6. Cardinality(Between(T, d + 1, a)) = 0
  BY <1>2, <1>4, <1>5
<1>7. IsFiniteSet(Between(T, d + 1, a))
  BY BetweenFinite
<1>8. Between(T, d + 1, a) = {}
  BY <1>6, <1>7, FS_EmptySet
<1> QED BY <1>1, <1>8

(* A put that has not landed and the latest call of its sender are within  *)
(* the window of Together: the barrier keeps a leaf from going on before   *)
(* its signal, and with it all before it, has landed at the root, and      *)
(* keeps the root at most one release ahead of a leaf.                     *)
LEMMA UnderWayTogether ==
  ASSUME FInv, NEW j \in Jobs, LightInv(j), NEW p \in PE, NEW q \in PE, ~Local(p, q),
         NEW n \in DOMAIN issued[p][q], n > Len(landed[p][q]), NEW c \in Nat \ {0}, c <= Pos(j, p, q),
         issued[p][q][n].round <= Num(Barriers(j.prog[p]), IF q = 0 THEN c - 1 ELSE c),
         Rounds(p, q) = Num(Barriers(j.prog[p]), Pos(j, p, q))
  PROVE  Together(Barriers(j.prog[p]), p, q, c, Pos(j, p, q))
<1> DEFINE T == Barriers(j.prog[p])
           b == Pos(j, p, q)
<1>1. SInv /\ TInv /\ TypeOK /\ 0 \in PE /\ p # q
  BY PEFacts DEF FInv, OInv, SInv, TInv, Local
<1>2. /\ T \in SUBSET (Nat \ {0}) /\ IsFiniteSet(T) /\ b \in Nat /\ c <= b
  BY <1>1, SendSets, Places
<1>3. issued[p][q][n].round \in Nat /\ n \in Nat /\ Len(landed[p][q]) \in Nat
  <2>1. issued[p][q] \in Seq(Put) /\ n \in 1 .. Len(issued[p][q]) /\ Len(landed[p][q]) \in Nat
    BY <1>1, LogTypes
  <2>2. issued[p][q][n] \in Put
    BY <2>1, ElementOfSeq
  <2> QED BY <2>1, <2>2, PEFacts DEF Put
<1>4. PICK r \in Nat : r = issued[p][q][n].round
  BY <1>3
<1>5. ~(n <= Len(landed[p][q]))
  BY <1>3
<1>6. Rounds(p, q) = Num(T, b) /\ r <= Num(T, IF q = 0 THEN c - 1 ELSE c)
  BY <1>4
<1>7. CASE q = 0
  <2>1. PICK k \in Leaves : k = p
    BY <1>1, <1>7, PEFacts
  <2>2. /\ Through(k, 0, Released(k)) /\ Released(k) \in Nat /\ left[k] \in Nat /\ left[k] <= Released(k)
        /\ arrived[k] \in Nat
    BY <1>1, RootAhead DEF FInv, FlushInv
  <2>3. ~(r < Released(k))
    BY <1>4, <1>5, <1>7, <2>1, <2>2 DEF Through
  <2>4. PICK l \in Nat : l = left[k] /\ l <= r
    BY <2>2, <2>3
  <2>5. arrived[k] = l + Bit(Inside(k))
    BY <1>1, <2>1, <2>4 DEF TInv, CallInv, CallOK
  <2>6. k # 0 /\ Num(T, b) = arrived[k]
    BY <1>6, <1>7, <2>1, PEFacts DEF Rounds
  <2>7. Num(T, b) = l \/ (Num(T, b) = l + 1 /\ b \in T)
    <3>1. CASE ~Inside(k)
      BY <2>4, <2>5, <2>6, <3>1 DEF Bit
    <3>2. CASE Inside(k)
      <4>1. Num(T, b) = l + 1
        BY <2>5, <2>6, <3>2 DEF Bit
      <4>2. b = Done(j, p) + 1
        <5>1. Done(j, p) \in Nat
          BY <1>1, Places
        <5> HIDE DEF Done
        <5> QED BY <1>7, <2>1, <2>6, <3>2, <5>1 DEF Pos, Bit
      <4>3. Done(j, p) + 1 \in DOMAIN j.prog[p] /\ j.prog[p][Done(j, p) + 1].op = "barrier"
        BY <1>1, <2>1, <3>2, Places
      <4> QED BY <4>1, <4>2, <4>3 DEF Barriers
    <3> QED BY <3>1, <3>2
  <2>8. r <= Num(T, c - 1)
    BY <1>6, <1>7
  <2> HIDE DEF T, b
  <2>9. Between(T, c, b - 1) = {}
    BY <1>2, <2>4, <2>7, <2>8, LeafTogether
  <2> QED BY <1>7, <2>9 DEF Together, T, b
<1>8. CASE q # 0 /\ p = 0
  <2>1. PICK k \in Leaves : k = q
    BY <1>8, PEFacts
  <2>2. /\ Through(0, k, left[k]) /\ Released(k) \in Nat /\ left[k] \in Nat /\ Released(k) <= arrived[k]
        /\ arrived[k] \in Nat
    BY <1>1, RootAhead DEF FInv, FlushInv
  <2>3. ~(r < left[k])
    BY <1>4, <1>5, <1>8, <2>1, <2>2 DEF Through
  <2>4. arrived[k] = left[k] + Bit(Inside(k)) /\ k \in PE
    BY <1>1, <2>1 DEF TInv, CallInv, CallOK
  <2>5. PICK l \in Nat : l = left[k] /\ l <= r /\ Released(k) <= l + 1
    BY <2>2, <2>3, <2>4 DEF Bit
  <2>6. Num(T, b) = Released(k) /\ r <= Num(T, c)
    BY <1>6, <1>8, <2>1 DEF Rounds
  <2> HIDE DEF T, b
  <2>7. /\ Num(T, c) \in Nat /\ Num(T, b) \in Nat /\ Cardinality(Between(T, c + 1, b)) \in Nat
        /\ Num(T, b) = Num(T, c) + Cardinality(Between(T, c + 1, b))
    BY <1>2, NumBetween
  <2>8. Cardinality(Between(T, c + 1, b)) <= 1
    BY <2>5, <2>6, <2>7, SMTT(60)
  <2> QED BY <1>8, <2>8 DEF Together, T, b
<1>9. CASE q # 0 /\ p # 0
  BY <1>9 DEF Together
<1> QED BY <1>7, <1>8, <1>9

(* The invariant implies WritesFit.                                        *)
LEMMA FitsNow ==
  ASSUME FInv, NEW j \in Jobs, Light(j), LightInv(j)
  PROVE  WritesFit
<1> SUFFICES ASSUME NEW p \in PE, queue_send[p] # << >>
             PROVE  Len(wire[p][Head(queue_send[p]).pe]) + 3 <= SockCap
  BY DEF WritesFit
<1>1. OInv /\ SInv /\ TInv /\ TypeOK /\ SockCap \in Nat
  BY PEFacts DEF FInv, OInv, SInv, TInv
<1>2. PICK q \in PE : q = Head(queue_send[p]).pe
  <2>1. queue_send[p] \in Seq(Entry)
    BY <1>1, SeqTypes
  <2>2. Head(queue_send[p]) \in Entry
    BY <2>1, QueueFacts
  <2> QED BY <2>2 DEF Entry
<1>3. PICK W \in Nat, I \in Nat, L \in Nat :
        W = Len(wire[p][q]) /\ I = Len(issued[p][q]) /\ L = Len(landed[p][q])
  BY <1>1, <1>2, CellsUnderWay, LogTypes
<1>4. W + 3 <= 3 * (I - L)
  BY <1>1, <1>2, <1>3, CellsUnderWay
<1>5. L + 1 <= I /\ L + 1 \in Nat
  BY <1>4
<1>6. ~Local(p, q)
  <2>1. Local(p, q) => L = I
    BY <1>1, <1>3 DEF OInv, Flow, LogInv
  <2> QED BY <1>5, <2>1
<1> DEFINE S == Sending(j.prog[p], p, q)
           T == Barriers(j.prog[p])
           b == Pos(j, p, q)
<1>7. Tale(S, T, q, b, Rounds(p, q), issued[p][q])
  BY <1>6 DEF LightInv, Told
<1>8. /\ S \in SUBSET (Nat \ {0}) /\ IsFiniteSet(S) /\ b \in Nat /\ b <= Len(j.prog[p])
      /\ Len(j.prog[p]) \in Nat /\ DOMAIN j.prog[p] = 1 .. Len(j.prog[p])
  BY <1>1, SendSets, Places
<1>9. L + 1 \in DOMAIN issued[p][q] /\ DOMAIN issued[p][q] = 1 .. I
  BY <1>1, <1>3, <1>5, LogTypes
<1>10. /\ Rounds(p, q) = Num(T, b) /\ I = Num(S, b)
       /\ \E c \in S : /\ c <= b /\ Num(S, c) = L + 1
                       /\ issued[p][q][L + 1].round <= Num(T, IF q = 0 THEN c - 1 ELSE c)
  BY <1>3, <1>7, <1>9 DEF Tale
<1>11. PICK c \in S : /\ c <= b /\ Num(S, c) = L + 1
                      /\ issued[p][q][L + 1].round <= Num(T, IF q = 0 THEN c - 1 ELSE c)
  BY <1>10
<1>12. c \in Nat \ {0}
  BY <1>8
<1>13. Together(T, p, q, c, b)
  <2>1. L + 1 > Len(landed[p][q])
    BY <1>3
  <2> QED BY <1>6, <1>9, <1>10, <1>11, <1>12, <2>1, UnderWayTogether
<1>14. c \in DOMAIN j.prog[p] /\ b \in DOMAIN j.prog[p]
  <2> HIDE DEF b
  <2> QED BY <1>8, <1>11, <1>12
<1>15. p \in PE /\ q \in PE /\ j.host[p] # j.host[q]
  BY <1>6 DEF LightInv, ProgOf, Local
<1>16. 3 * Cardinality(Between(S, c, b)) <= SockCap
  BY <1>11, <1>13, <1>14, <1>15 DEF Light
<1> HIDE DEF S, T, b
<1>17. PICK d \in Nat : c = d + 1 /\ d <= b
  <2>1. c - 1 \in Nat /\ c = (c - 1) + 1 /\ c - 1 <= b
    BY <1>8, <1>11, <1>12
  <2> QED BY <2>1
<1>18. /\ Num(S, d) \in Nat /\ Cardinality(Between(S, d + 1, b)) \in Nat
       /\ Num(S, b) = Num(S, d) + Cardinality(Between(S, d + 1, b))
  BY <1>8, <1>17, NumBetween, ZenonT(60)
<1>19. Num(S, d + 1) = Num(S, d) + 1
  <2>1. Num(S, d + 1) = Num(S, d) + Bit(d + 1 \in S)
    BY <1>8, NumNext
  <2> QED BY <1>17, <2>1 DEF Bit
<1>20. PICK x \in Nat : x = Cardinality(Between(S, c, b))
  BY <1>17, <1>18
<1>21. I - L = x
  BY <1>10, <1>11, <1>17, <1>18, <1>19, <1>20, SMTT(60)
<1>22. W + 3 <= SockCap
  <2>1. 3 * x <= SockCap
    BY <1>16, <1>20
  <2> QED BY <1>1, <1>4, <1>21, <2>1
<1> QED BY <1>2, <1>3, <1>22

(* The log and the place in the program do not move.                       *)
LEMMA ToldStays ==
  ASSUME NEW j \in Jobs, NEW p \in PE, NEW q \in PE, Told(j, p, q),
         Pos(j, p, q)' = Pos(j, p, q), Rounds(p, q)' = Rounds(p, q), issued'[p][q] = issued[p][q]
  PROVE  Told(j, p, q)'
<1>1. Tale(Sending(j.prog[p], p, q), Barriers(j.prog[p]), q, Pos(j, p, q)', Rounds(p, q)', issued'[p][q])
  BY DEF Told
<1> QED BY <1>1, Zenon DEF Told

(* The place moves past a call that sends nothing to q.                    *)
LEMMA ToldSilent ==
  ASSUME TInv, NEW j \in Jobs, LightInv(j), NEW p \in PE, NEW q \in PE, Told(j, p, q), NEW b \in Nat,
         b = Pos(j, p, q), b + 1 \notin Sending(j.prog[p], p, q), Pos(j, p, q)' = b + 1,
         Rounds(p, q)' = Rounds(p, q) + Bit(b + 1 \in Barriers(j.prog[p])), issued'[p][q] = issued[p][q]
  PROVE  Told(j, p, q)'
<1>1. issued[p][q] \in Seq(Put)
  BY LogTypes DEF TInv
<1>2. Tale(Sending(j.prog[p], p, q), Barriers(j.prog[p]), q, b, Rounds(p, q), issued[p][q])
  BY DEF Told
<1>3. Tale(Sending(j.prog[p], p, q), Barriers(j.prog[p]), q, b + 1,
           Rounds(p, q) + Bit(b + 1 \in Barriers(j.prog[p])), issued[p][q])
  BY <1>1, <1>2, SendSets, TaleSilent
<1> QED BY <1>3 DEF Told

(* The place moves past a call that sends to q, and the log grows.         *)
LEMMA ToldSend ==
  ASSUME TInv, NEW j \in Jobs, LightInv(j), NEW p \in PE, NEW q \in PE, Told(j, p, q), NEW b \in Nat,
         b = Pos(j, p, q), b + 1 \in Sending(j.prog[p], p, q), Pos(j, p, q)' = b + 1,
         Rounds(p, q)' = Rounds(p, q) + Bit(b + 1 \in Barriers(j.prog[p])),
         NEW put \in Put, issued'[p][q] = Append(issued[p][q], put),
         put.round = Rounds(p, q) \/ (q # 0 /\ put.round = Rounds(p, q)')
  PROVE  Told(j, p, q)'
<1>1. issued[p][q] \in Seq(Put)
  BY LogTypes DEF TInv
<1>2. Tale(Sending(j.prog[p], p, q), Barriers(j.prog[p]), q, b, Rounds(p, q), issued[p][q])
  BY DEF Told
<1>3. PICK r : r = Rounds(p, q)
  OBVIOUS
<1>4. Tale(Sending(j.prog[p], p, q), Barriers(j.prog[p]), q, b + 1,
           r + Bit(b + 1 \in Barriers(j.prog[p])), Append(issued[p][q], put))
  BY <1>1, <1>2, <1>3, SendSets, TaleSend
<1> QED BY <1>3, <1>4 DEF Told

(* Returning from a call leaves the rest of the program.                   *)
LEMMA ProgTail ==
  ASSUME TInv, NEW j \in Jobs, LightInv(j), NEW p \in PE, prog[p] # << >>, prog'[p] = Tail(prog[p])
  PROVE  /\ Done(j, p)' = Done(j, p) + 1
         /\ Len(prog'[p]) <= Len(j.prog[p])
         /\ \A m \in DOMAIN prog'[p] : prog'[p][m] = j.prog[p][m + (Done(j, p) + 1)]
<1>1. prog[p] \in Seq(Call) /\ Len(j.prog[p]) \in Nat
  BY SendSets DEF TInv, TypeOK
<1>2. /\ Len(prog[p]) <= Len(j.prog[p])
      /\ \A m \in DOMAIN prog[p] : prog[p][m] = j.prog[p][m + Done(j, p)]
  BY DEF LightInv, ProgOf
<1>3. /\ Len(prog[p]) \in Nat /\ Len(prog'[p]) = Len(prog[p]) - 1
      /\ DOMAIN prog'[p] = 1 .. Len(prog[p]) - 1
      /\ \A n \in DOMAIN prog'[p] : n + 1 \in DOMAIN prog[p] /\ prog'[p][n] = prog[p][n + 1]
  BY <1>1, QueueFacts
<1>4. PICK x \in Nat, y \in Nat : x = Len(prog[p]) /\ y = Len(j.prog[p])
  BY <1>1, <1>3
<1>5. x <= y /\ Len(prog'[p]) = x - 1
  BY <1>2, <1>3, <1>4
<1>6. Done(j, p) = y - x /\ Done(j, p)' = y - (x - 1)
  BY <1>4, <1>5 DEF Done
<1>7. y - (x - 1) = (y - x) + 1 /\ x - 1 <= y /\ y - x \in Nat
  BY <1>5
<1>8. ASSUME NEW m \in DOMAIN prog'[p] PROVE prog'[p][m] = j.prog[p][m + (Done(j, p) + 1)]
  <2>1. prog'[p][m] = j.prog[p][(m + 1) + Done(j, p)]
    BY <1>2, <1>3
  <2>2. m \in Int
    BY <1>3
  <2>3. PICK d \in Nat : d = Done(j, p)
    BY <1>6, <1>7
  <2>4. (m + 1) + d = m + (d + 1)
    BY <2>2
  <2> QED BY <2>1, <2>3, <2>4
<1>9. Done(j, p)' = Done(j, p) + 1
  BY <1>6, <1>7
<1>10. Len(prog'[p]) <= Len(j.prog[p])
  BY <1>4, <1>5, <1>7
<1> QED BY <1>8, <1>9, <1>10

(* The program of p stays or loses its first call.                         *)
ProgMove(p) == prog'[p] = prog[p] \/ (prog[p] # << >> /\ prog'[p] = Tail(prog[p]))

(* Every step of every thread moves programs this way, and no PE to        *)
(* another host.                                                           *)
LEMMA ProgMoves == ASSUME TInv, [Next]_vars PROVE host' = host /\ \A p \in PE : ProgMove(p)
<1>1. CASE prog' = prog /\ host' = host
  BY <1>1 DEF ProgMove
<1>2. prog \in [PE -> Seq(Call)] /\ 0 \in PE
  BY PEFacts DEF TInv, TypeOK
<1>3. ASSUME NEW p \in PE, prog[p] # << >>, Returns(p), host' = host
      PROVE  host' = host /\ \A q \in PE : ProgMove(q)
  BY <1>2, <1>3 DEF Returns, ProgMove
<1>4. ASSUME NEW p \in PE, MainThread(p) PROVE host' = host /\ \A q \in PE : ProgMove(q)
  <2>1. CASE Store(p) \/ shmem_putmem(p) \/ shmem_getmem(p) \/ shmem_nbi(p) \/ shmem_quiet(p) \/ Release(p)
    <3>1. prog[p] # << >> /\ Returns(p) /\ host' = host
      BY <2>1 DEF Store, shmem_putmem, shmem_getmem, shmem_nbi, shmem_quiet, Release, Calls
    <3> QED BY <1>3, <3>1
  <2>2. CASE Join(p) \/ (p = 0 /\ RootReturn) \/ (p # 0 /\ LeafReset(p))
    <3>1. Returns(p) /\ host' = host /\ pc[p] # "call"
      BY <2>2 DEF Join, RootReturn, LeafReset, BarrierReturn
    <3>2. prog[p] # << >>
      BY <3>1 DEF TInv, CallInv, CallOK
    <3> QED BY <1>3, <3>1, <3>2
  <2>3. CASE \/ SetFinished(p) \/ RootEnter \/ RootPoll \/ RootReset \/ RootGathered \/ RootRelease
             \/ LeafEnter(p) \/ LeafPoll(p)
    <3>1. prog' = prog /\ host' = host
      BY <2>3, SMTT(60) DEF SetFinished, RootEnter, RootPoll, RootReset, RootGathered, RootRelease, LeafEnter, LeafPoll
    <3> QED BY <1>1, <3>1
  <2> QED BY <1>4, <2>1, <2>2, <2>3 DEF MainThread
<1>5. ASSUME NEW p \in PE, Worker(p) \/ CommThread(p) PROVE prog' = prog /\ host' = host
  BY <1>5 DEF Worker, Execute, WorkerExit, CommThread, Check, Received, Send, Sent, ReceiveNothing,
              ReceiveBadPacket, ReceivePacket, ReceiveMisframed, Polls, mainVars
<1>6. CASE UNCHANGED vars
  BY <1>1, <1>6 DEF vars, mainVars
<1> QED BY <1>1, <1>4, <1>5, <1>6 DEF Next, Finished

(* What is left of the programs is left of those of the same job.          *)
LEMMA ProgStep ==
  ASSUME TInv, NEW j \in Jobs, LightInv(j), [Next]_vars
  PROVE  ProgOf(j)'
<1>1. host' = host /\ host = j.host /\ \A p \in PE : ProgMove(p)
  BY ProgMoves DEF LightInv, ProgOf
<1>2. ASSUME NEW p \in PE
      PROVE  /\ Len(prog'[p]) <= Len(j.prog[p])
             /\ \A m \in DOMAIN prog'[p] : prog'[p][m] = j.prog[p][m + Done(j, p)']
  <2>1. CASE prog'[p] = prog[p]
    <3>1. Done(j, p)' = Done(j, p)
      BY <2>1 DEF Done
    <3> QED BY <2>1, <3>1 DEF LightInv, ProgOf
  <2>2. CASE prog[p] # << >> /\ prog'[p] = Tail(prog[p])
    <3>1. /\ Done(j, p)' = Done(j, p) + 1 /\ Len(prog'[p]) <= Len(j.prog[p])
          /\ \A m \in DOMAIN prog'[p] : prog'[p][m] = j.prog[p][m + (Done(j, p) + 1)]
      BY <2>2, ProgTail
    <3> QED BY <3>1
  <2> QED BY <1>1, <2>1, <2>2 DEF ProgMove
<1> QED BY <1>1, <1>2, Zenon DEF ProgOf

(* A call that is no barrier returns.                                      *)
LEMMA ReturnTold ==
  ASSUME TInv, NEW j \in Jobs, LightInv(j), NEW p \in PE, NEW q \in PE, Told(j, p, q), p # q,
         prog[p] # << >>, Returns(p), Head(prog[p]).op # "barrier", ~Inside(p), ~Inside(p)',
         UNCHANGED <<arrived, left>>,
         \/ ~(Head(prog[p]).op = "put" /\ Head(prog[p]).pe = q) /\ issued'[p][q] = issued[p][q]
         \/ /\ Head(prog[p]).op = "put" /\ Head(prog[p]).pe = q
            /\ \E put \in Put : put.round = arrived[p] /\ issued'[p][q] = Append(issued[p][q], put)
  PROVE  Told(j, p, q)'
<1>1. prog'[p] = Tail(prog[p])
  BY DEF Returns, TInv, TypeOK
<1>2. /\ Done(j, p) \in Nat /\ Done(j, p)' = Done(j, p) + 1 /\ Done(j, p) + 1 \in DOMAIN j.prog[p]
      /\ j.prog[p][Done(j, p) + 1] = Head(prog[p])
  BY <1>1, Places, ProgTail
<1>3. PICK b \in Nat : b = Done(j, p)
  BY <1>2
<1> HIDE DEF Done
<1>4. Pos(j, p, q) = b /\ Pos(j, p, q)' = b + 1
  BY <1>2, <1>3 DEF Pos, Bit, Inside
<1>5. b + 1 \notin Barriers(j.prog[p])
  BY <1>2, <1>3 DEF Barriers
<1>6. b + 1 \in Sending(j.prog[p], p, q) <=> Head(prog[p]).op = "put" /\ Head(prog[p]).pe = q
  BY <1>2, <1>3 DEF Sending
<1>7. Rounds(p, q)' = Rounds(p, q) /\ Rounds(p, q) = arrived[p] /\ arrived[p] \in Nat
  <2>1. arrived[p] = left[p] /\ arrived[p] \in Nat
    <3>1. arrived[p] \in Nat /\ left[p] \in Nat
      BY TypeFacts DEF TInv
    <3> QED BY <3>1 DEF TInv, CallInv, CallOK, Bit
  <2> QED BY <2>1 DEF Rounds, Released, Bit, Inside
<1>8. Rounds(p, q)' = Rounds(p, q) + Bit(b + 1 \in Barriers(j.prog[p]))
  BY <1>5, <1>7 DEF Bit
<1>9. CASE ~(Head(prog[p]).op = "put" /\ Head(prog[p]).pe = q) /\ issued'[p][q] = issued[p][q]
  BY <1>4, <1>6, <1>8, <1>9, ToldSilent
<1>10. CASE /\ Head(prog[p]).op = "put" /\ Head(prog[p]).pe = q
            /\ \E put \in Put : put.round = arrived[p] /\ issued'[p][q] = Append(issued[p][q], put)
  <2>1. PICK put \in Put : put.round = arrived[p] /\ issued'[p][q] = Append(issued[p][q], put)
    BY <1>10
  <2> QED BY <1>4, <1>6, <1>7, <1>8, <1>10, <2>1, ToldSend
<1> QED BY <1>9, <1>10

(* The barrier sends its signal: PE 0 releases q, or a leaf enters.        *)
LEMMA SignalTold ==
  ASSUME SInv, NEW j \in Jobs, LightInv(j), NEW p \in PE, NEW q \in PE, Told(j, p, q), p # q,
         \/ p = 0 /\ q = i /\ RootRelease
         \/ p # 0 /\ q = 0 /\ LeafEnter(p)
  PROVE  Told(j, p, q)'
<1>1. TInv /\ TypeOK /\ 0 \in PE /\ 1 \in Value /\ (p # 0 => p \in Leaves) /\ p \in Addr /\ q \in Addr
  BY PEFacts DEF SInv, TInv, Value
<1>2. prog[p] # << >> /\ Head(prog[p]).op = "barrier" /\ prog' = prog
  <2>1. CASE p = 0 /\ RootRelease
    <3>1. Inside(p) /\ prog' = prog
      BY <2>1 DEF RootRelease, Inside
    <3> QED BY <1>1, <3>1, Places
  <2>2. CASE LeafEnter(p)
    BY <2>2 DEF LeafEnter, BarrierCall, Calls
  <2> QED BY <2>1, <2>2
<1>3. /\ Done(j, p) \in Nat /\ Done(j, p)' = Done(j, p) /\ Done(j, p) + 1 \in DOMAIN j.prog[p]
      /\ j.prog[p][Done(j, p) + 1] = Head(prog[p])
  <2>1. Done(j, p)' = Done(j, p)
    BY <1>2 DEF Done
  <2> QED BY <1>1, <1>2, <2>1, Places
<1>4. PICK b \in Nat : b = Done(j, p)
  BY <1>3
<1> HIDE DEF Done
<1>5. b + 1 \in Barriers(j.prog[p]) /\ b + 1 \in Sending(j.prog[p], p, q)
  BY <1>2, <1>3, <1>4 DEF Barriers, Sending
<1>6. pc \in [PE -> {"call", "poll", "reset", "release", "join"}] /\ arrived \in [PE -> 0 .. MaxRounds]
  BY <1>1 DEF TypeOK
<1>7. arrived[p] \in Nat /\ left[p] \in Nat /\ arrived[p] = left[p] + Bit(Inside(p)) /\ i \in Nat
  BY <1>1, TypeFacts DEF TInv, CallInv, CallOK
<1>8. CASE p = 0 /\ q = i /\ RootRelease
  <2>1. /\ pc[0] = "release" /\ pc' = pc /\ i' = i + 1 /\ i < N /\ left' = left /\ Issue(0, q, q, 1)
    BY <1>8 DEF RootRelease
  <2>2. Pos(j, p, q) = b /\ Pos(j, p, q)' = b + 1
    BY <1>3, <1>4, <1>7, <1>8, <2>1 DEF Pos, Bit
  <2>3. Rounds(p, q) = left[0] /\ Rounds(p, q)' = left[0] + 1 /\ arrived[0] = left[0] + 1
    BY <1>7, <1>8, <2>1 DEF Rounds, Released, Bit, Inside
  <2>4. PICK put \in Put : put.round = arrived[0] /\ issued'[0][q] = Append(issued[0][q], put)
    BY <1>1, <2>1, IssuePut
  <2>5. Rounds(p, q)' = Rounds(p, q) + Bit(b + 1 \in Barriers(j.prog[p]))
    BY <1>5, <2>3 DEF Bit
  <2> QED BY <1>1, <1>5, <1>8, <2>2, <2>3, <2>4, <2>5, ToldSend
<1>9. CASE p # 0 /\ q = 0 /\ LeafEnter(p)
  <2>1. /\ pc[p] = "call" /\ pc'[p] = "poll" /\ arrived'[p] = arrived[p] + 1 /\ Issue(p, 0, p, 1)
    BY <1>1, <1>6, <1>9 DEF LeafEnter, BarrierCall, Calls
  <2>2. Pos(j, p, q) = b /\ Pos(j, p, q)' = b + 1
    BY <1>3, <1>4, <1>9, <2>1 DEF Pos, Bit, Inside
  <2>3. Rounds(p, q) = arrived[p] /\ Rounds(p, q)' = arrived[p] + 1
    BY <1>9, <2>1 DEF Rounds
  <2>4. PICK put \in Put : put.round = arrived[p] /\ issued'[p][0] = Append(issued[p][0], put)
    BY <1>1, <2>1, IssuePut
  <2>5. Rounds(p, q)' = Rounds(p, q) + Bit(b + 1 \in Barriers(j.prog[p]))
    BY <1>5, <2>3 DEF Bit
  <2> QED BY <1>1, <1>5, <1>9, <2>2, <2>3, <2>4, <2>5, ToldSend
<1> QED BY <1>8, <1>9

(* A PE leaves the barrier.                                                *)
LEMMA LeavesTold ==
  ASSUME SInv, NEW j \in Jobs, LightInv(j), NEW p \in PE, NEW q \in PE, Told(j, p, q), p # q,
         \/ p = 0 /\ RootReturn
         \/ p # 0 /\ LeafReset(p)
  PROVE  Told(j, p, q)'
<1>1. TInv /\ TypeOK /\ 0 \in PE /\ q \in Nat /\ q < N /\ N \in Nat
  BY PEFacts DEF SInv, TInv, PE
<1>2. Inside(p) /\ Returns(p) /\ pc'[p] = "call" /\ left'[p] = left[p] + 1 /\ UNCHANGED <<issued, arrived, i>>
  <2>1. pc[p] \in {"release", "reset"} /\ BarrierReturn(p) /\ UNCHANGED <<issued, arrived, i>>
    BY DEF RootReturn, LeafReset, logs
  <2>2. pc'[p] = "call" /\ left'[p] = left[p] + 1 /\ Returns(p)
    BY <1>1, <2>1 DEF BarrierReturn, TypeOK
  <2> QED BY <2>1, <2>2 DEF Inside
<1>3. /\ prog[p] # << >> /\ Head(prog[p]).op = "barrier" /\ Done(j, p) \in Nat
      /\ Done(j, p) + 1 \in DOMAIN j.prog[p] /\ j.prog[p][Done(j, p) + 1] = Head(prog[p])
  BY <1>1, <1>2, Places
<1>4. Done(j, p)' = Done(j, p) + 1
  <2>1. prog'[p] = Tail(prog[p])
    BY <1>1, <1>2 DEF Returns, TypeOK
  <2> QED BY <1>1, <1>3, <2>1, ProgTail
<1>5. PICK b \in Nat : b = Done(j, p)
  BY <1>3
<1>6. left[p] \in Nat
  BY <1>1, TypeFacts
<1> HIDE DEF Done
<1>7. CASE p = 0
  <2>1. pc[0] = "release" /\ i = N /\ pc'[0] = "call"
    BY <1>2, <1>7 DEF RootReturn
  <2>2. Pos(j, p, q)' = Pos(j, p, q)
    BY <1>1, <1>2, <1>4, <1>5, <1>7, <2>1 DEF Pos, Bit
  <2>3. Rounds(p, q)' = Rounds(p, q)
    BY <1>1, <1>2, <1>6, <1>7, <2>1 DEF Rounds, Released, Bit
  <2> QED BY <1>2, <2>2, <2>3, ToldStays
<1>8. CASE p # 0 /\ q = 0
  <2>1. Pos(j, p, q)' = Pos(j, p, q)
    BY <1>2, <1>4, <1>5, <1>8 DEF Pos, Bit, Inside
  <2>2. Rounds(p, q)' = Rounds(p, q)
    BY <1>2, <1>8 DEF Rounds
  <2> QED BY <1>2, <2>1, <2>2, ToldStays
<1>9. CASE p # 0 /\ q # 0
  <2>1. Pos(j, p, q) = b /\ Pos(j, p, q)' = b + 1
    BY <1>4, <1>5, <1>9 DEF Pos, Bit
  <2>2. b + 1 \in Barriers(j.prog[p]) /\ b + 1 \notin Sending(j.prog[p], p, q)
    BY <1>3, <1>5, <1>9 DEF Barriers, Sending
  <2>3. Rounds(p, q)' = Rounds(p, q) + Bit(b + 1 \in Barriers(j.prog[p]))
    BY <1>2, <1>9, <2>2 DEF Rounds, Bit
  <2> QED BY <1>1, <1>2, <2>1, <2>2, <2>3, ToldSilent
<1> QED BY <1>7, <1>8, <1>9

(* A step of p that neither returns nor sends to q.                        *)
LEMMA StaysTold ==
  ASSUME TInv, NEW j \in Jobs, NEW p \in PE, NEW q \in PE, Told(j, p, q), p # q,
         prog'[p] = prog[p], left'[p] = left[p], issued'[p][q] = issued[p][q],
         p = 0 => (pc'[0] = "release" /\ q < i' <=> pc[0] = "release" /\ q < i),
         p # 0 /\ q = 0 => arrived'[p] = arrived[p] /\ (Inside(p)' <=> Inside(p))
  PROVE  Told(j, p, q)'
<1>1. Done(j, p)' = Done(j, p)
  BY DEF Done
<1> HIDE DEF Done
<1>2. Pos(j, p, q)' = Pos(j, p, q)
  <2>1. CASE p = 0
    BY <1>1, <2>1 DEF Pos, Bit
  <2>2. CASE p # 0
    BY <1>1, <2>2 DEF Pos, Bit
  <2> QED BY <2>1, <2>2
<1>3. Rounds(p, q)' = Rounds(p, q)
  <2>1. CASE p = 0
    BY <2>1 DEF Rounds, Released, Bit
  <2>2. CASE p # 0
    BY <2>2 DEF Rounds
  <2> QED BY <2>1, <2>2
<1> QED BY <1>2, <1>3, ToldStays

(* The calls of the program, and those of comm_finalize.                   *)
LEMMA UserTold ==
  ASSUME TInv, NEW j \in Jobs, LightInv(j), NEW p \in PE, NEW q \in PE, Told(j, p, q), p # q,
         \/ Store(p) \/ shmem_putmem(p) \/ shmem_getmem(p) \/ shmem_nbi(p) \/ shmem_quiet(p)
         \/ Release(p) \/ Join(p)
  PROVE  Told(j, p, q)'
<1>1. TypeOK
  BY DEF TInv
<1>2. CASE Store(p) \/ shmem_getmem(p) \/ shmem_nbi(p) \/ shmem_quiet(p) \/ Release(p)
  <2>1. /\ prog[p] # << >> /\ Returns(p) /\ pc[p] = "call" /\ UNCHANGED <<pc, arrived, left, issued>>
        /\ Head(prog[p]).op \notin {"barrier", "put"}
    BY <1>2 DEF Store, shmem_getmem, shmem_nbi, shmem_quiet, Release, Calls, NbiHandler, Releasing, logs
  <2> QED BY <2>1, ReturnTold DEF Inside
<1>3. CASE Join(p)
  <2>1. /\ Returns(p) /\ pc[p] = "join" /\ pc' = [pc EXCEPT ![p] = "call"] /\ UNCHANGED <<arrived, left, issued>>
        /\ Head(prog[p]).op \notin {"barrier", "put"}
    BY <1>3 DEF Join, logs
  <2>2. pc'[p] = "call" /\ prog[p] # << >>
    BY <1>1, <2>1 DEF TypeOK, TInv, CallInv, CallOK
  <2> QED BY <2>1, <2>2, ReturnTold DEF Inside
<1>4. CASE shmem_putmem(p)
  <2> DEFINE c == Head(prog[p])
  <2>1. /\ prog[p] # << >> /\ Returns(p) /\ pc[p] = "call" /\ UNCHANGED <<pc, arrived, left>>
        /\ c.op = "put" /\ Issue(p, c.pe, c.dest, mem[p][c.src])
    BY <1>4 DEF shmem_putmem, Calls
  <2>2. c.dest \in Addr /\ c.src \in Addr /\ c.pe \in PE
    BY <2>1, CallFacts
  <2>3. mem[p][c.src] \in Value
    BY <1>1, <2>2, TypeFacts
  <2> HIDE DEF c
  <2>4. PICK d \in PE, a \in Addr, v \in Value : d = c.pe /\ a = c.dest /\ v = mem[p][c.src]
    BY <2>2, <2>3
  <2>5. Issue(p, d, a, v)
    BY <2>1, <2>4
  <2>6. CASE d = q
    <3>1. \E put \in Put : put.round = arrived[p] /\ issued'[p][q] = Append(issued[p][q], put)
      BY <1>1, <2>5, <2>6, IssuePut
    <3> QED BY <2>1, <2>4, <2>6, <3>1, ReturnTold DEF Inside, c
  <2>7. CASE d # q
    <3>1. issued'[p][q] = issued[p][q]
      BY <1>1, <2>5, <2>7, IssuePut
    <3> QED BY <2>1, <2>4, <2>7, <3>1, ReturnTold DEF Inside, c
  <2> QED BY <2>6, <2>7
<1> QED BY <1>2, <1>3, <1>4

(* Every step of the main thread of p.                                     *)
LEMMA OwnTold ==
  ASSUME SInv, NEW j \in Jobs, LightInv(j), NEW p \in PE, NEW q \in PE, Told(j, p, q), p # q,
         MainThread(p)
  PROVE  Told(j, p, q)'
<1>1. TInv /\ TypeOK /\ 0 \in PE /\ q \in Nat /\ i \in Nat /\ (q # 0 => 1 <= q)
  BY PEFacts, TypeFacts DEF SInv, TInv
<1>2. pc \in [PE -> {"call", "poll", "reset", "release", "join"}]
  BY <1>1 DEF TypeOK
<1>3. CASE SetFinished(p)
  <2>1. pc[p] = "call" /\ pc'[p] = "join" /\ UNCHANGED <<prog, left, arrived, issued, i>>
    BY <1>2, <1>3 DEF SetFinished, Calls, logs
  <2> QED BY <1>1, <2>1, StaysTold DEF Inside
<1>4. CASE p = 0 /\ (RootEnter \/ RootPoll \/ RootReset \/ RootGathered)
  <2>1. UNCHANGED <<prog, left, issued>>
    BY <1>4 DEF RootEnter, RootPoll, RootReset, RootGathered, logs
  <2>2. pc[0] # "release" /\ (pc'[0] = "release" => i' = 1) /\ q # 0
    BY <1>1, <1>2, <1>4 DEF RootEnter, RootPoll, RootReset, RootGathered, BarrierCall, Calls
  <2>3. pc'[0] = "release" /\ q < i' <=> pc[0] = "release" /\ q < i
    BY <1>1, <2>2
  <2> QED BY <1>1, <1>4, <2>1, <2>3, StaysTold
<1>5. CASE p = 0 /\ RootRelease /\ q # i
  <2>1. /\ pc[0] = "release" /\ pc' = pc /\ i' = i + 1 /\ i < N /\ UNCHANGED <<prog, left>> /\ Issue(0, i, i, 1)
    BY <1>5 DEF RootRelease
  <2>2. i \in PE /\ i \in Addr /\ 1 \in Value
    BY <1>1, <2>1, TypeFacts DEF Value
  <2>3. issued'[0][q] = issued[0][q]
    BY <1>1, <1>5, <2>1, <2>2, IssuePut
  <2>4. pc'[0] = "release" /\ q < i' <=> pc[0] = "release" /\ q < i
    BY <1>1, <1>5, <2>1
  <2> QED BY <1>1, <1>5, <2>1, <2>3, <2>4, StaysTold
<1>6. CASE p # 0 /\ LeafEnter(p) /\ q # 0
  <2>1. UNCHANGED <<prog, left>> /\ Issue(p, 0, p, 1)
    BY <1>6 DEF LeafEnter
  <2>2. p \in Addr /\ 1 \in Value
    BY PEFacts DEF Value
  <2>3. issued'[p][q] = issued[p][q]
    BY <1>1, <1>6, <2>1, <2>2, IssuePut
  <2> QED BY <1>1, <1>6, <2>1, <2>3, StaysTold
<1>7. CASE p # 0 /\ LeafPoll(p)
  <2>1. pc[p] = "poll" /\ pc'[p] = "reset" /\ UNCHANGED <<prog, left, arrived, issued, i>>
    BY <1>2, <1>7 DEF LeafPoll, logs
  <2> QED BY <1>1, <1>7, <2>1, StaysTold DEF Inside
<1> QED BY <1>1, <1>3, <1>4, <1>5, <1>6, <1>7, UserTold, SignalTold, LeavesTold DEF MainThread

(* What the main thread of p keeps is as it was.                           *)
Resting(p) ==
  /\ prog'[p] = prog[p] /\ pc'[p] = pc[p] /\ arrived'[p] = arrived[p] /\ left'[p] = left[p]
  /\ p = 0 => i' = i
  /\ \A q \in PE : ~Local(p, q) => issued'[p][q] = issued[p][q]

(* A step of one main thread leaves what the others keep.                  *)
LEMMA OthersRest ==
  ASSUME TInv, NEW p \in PE, NEW s \in PE, s # p, MainThread(p)
  PROVE  Resting(s)
<1>1. TypeOK /\ 0 \in PE /\ 1 \in Value /\ p \in Addr
  BY PEFacts DEF TInv, Value
<1>2. /\ prog \in [PE -> Seq(Call)] /\ pc \in [PE -> {"call", "poll", "reset", "release", "join"}]
      /\ arrived \in [PE -> 0 .. MaxRounds] /\ left \in [PE -> 0 .. MaxRounds]
  BY <1>1 DEF TypeOK
<1>3. prog'[s] = prog[s] /\ pc'[s] = pc[s] /\ arrived'[s] = arrived[s] /\ left'[s] = left[s]
  <2>1. CASE \/ Store(p) \/ shmem_putmem(p) \/ shmem_getmem(p) \/ shmem_nbi(p) \/ shmem_quiet(p)
             \/ Release(p) \/ Join(p) \/ SetFinished(p)
    BY <1>2, <2>1 DEF Store, shmem_putmem, shmem_getmem, shmem_nbi, shmem_quiet, Release, Join,
                      SetFinished, Returns
  <2>2. CASE p = 0 /\ (RootEnter \/ RootPoll \/ RootReset \/ RootGathered \/ RootRelease \/ RootReturn)
    BY <1>2, <2>2 DEF RootEnter, RootPoll, RootReset, RootGathered, RootRelease, RootReturn,
                      BarrierCall, BarrierReturn, Returns
  <2>3. CASE LeafEnter(p) \/ LeafPoll(p) \/ LeafReset(p)
    BY <1>2, <2>3 DEF LeafEnter, LeafPoll, LeafReset, BarrierCall, BarrierReturn, Returns
  <2> QED BY <2>1, <2>2, <2>3 DEF MainThread
<1>4. s = 0 => i' = i
  BY DEF MainThread, Store, shmem_putmem, shmem_getmem, shmem_nbi, shmem_quiet, Release, Join,
         SetFinished, LeafEnter, LeafPoll, LeafReset
<1>5. ASSUME NEW q \in PE PROVE issued'[s][q] = issued[s][q]
  <2>1. CASE issued' = issued
    BY <2>1
  <2>2. CASE shmem_putmem(p)
    <3> DEFINE c == Head(prog[p])
    <3>1. prog[p] # << >> /\ Issue(p, c.pe, c.dest, mem[p][c.src])
      BY <2>2 DEF shmem_putmem, Calls
    <3>2. c.dest \in Addr /\ c.src \in Addr /\ c.pe \in PE
      BY <3>1, CallFacts
    <3>3. mem[p][c.src] \in Value
      BY <1>1, <3>2, TypeFacts
    <3> HIDE DEF c
    <3> QED BY <1>1, <3>1, <3>2, <3>3, IssuePut
  <2>3. CASE p = 0 /\ RootRelease
    <3>1. i < N /\ Issue(0, i, i, 1)
      BY <2>3 DEF RootRelease
    <3>2. i \in PE /\ i \in Addr
      BY <1>1, <3>1, TypeFacts
    <3> QED BY <1>1, <2>3, <3>1, <3>2, IssuePut
  <2>4. CASE LeafEnter(p)
    <3>1. Issue(p, 0, p, 1)
      BY <2>4, SMTT(60) DEF LeafEnter
    <3> QED BY <1>1, <3>1, IssuePut
  <2> QED BY <2>1, <2>2, <2>3, <2>4
          DEF MainThread, Store, shmem_getmem, shmem_nbi, shmem_quiet, Release, Join, SetFinished,
              RootEnter, RootPoll, RootReset, RootGathered, RootReturn, LeafPoll, LeafReset, logs
<1> QED BY <1>3, <1>4, <1>5 DEF Resting

(* The worker and the communication thread leave what the main threads     *)
(* keep; non-blocking puts, which the worker issues, do not go to other    *)
(* hosts.                                                                  *)
LEMMA ThreadsRest ==
  ASSUME TInv, NEW j \in Jobs, LightInv(j), NEW p \in PE, Worker(p) \/ CommThread(p), NEW s \in PE
  PROVE  Resting(s)
<1>1. TypeOK
  BY DEF TInv
<1>2. UNCHANGED <<prog, pc, arrived, left, i>>
  BY DEF Worker, Execute, WorkerExit, CommThread, Check, Received, Send, Sent, ReceiveNothing,
         ReceiveBadPacket, ReceivePacket, ReceiveMisframed, Polls, mainVars
<1>3. CASE issued' = issued
  BY <1>2, <1>3 DEF Resting
<1>4. CASE Execute(p) /\ issued' # issued
  <2>1. work_queue[p] # << >> /\ work_thread_dequeue(p)
    BY <1>4 DEF Execute
  <2>2. PICK job \in Job : job = Head(work_queue[p])
    BY <2>1, WorkHead
  <2>3. "src" \in DOMAIN job /\ job.handler # "GET" /\ Issue(p, job.dest_pe, job.dest, mem[p][job.src])
    BY <1>4, <2>2 DEF Execute, logs
  <2>4. job \in OwnJob
    BY <2>2, <2>3, JobKinds DEF Job
  <2>5. job.dest_pe \in PE /\ job.dest \in Addr /\ job.src \in Addr /\ job.handler = "PUT"
    BY <2>3, <2>4 DEF OwnJob
  <2>6. Local(p, job.dest_pe)
    <3>1. work_queue[p] \in Seq(LocalJob(p))
      BY DEF LightInv
    <3>2. job \in LocalJob(p)
      BY <2>1, <2>2, <3>1, QueueFacts
    <3> QED BY <2>4, <2>5, <3>2 DEF LocalJob
  <2>7. PICK q \in PE, a \in Addr, v \in Value :
          q = job.dest_pe /\ a = job.dest /\ v = mem[p][job.src]
    BY <1>1, <2>5, TypeFacts
  <2>8. Issue(p, q, a, v) /\ Local(p, q)
    BY <2>3, <2>6, <2>7
  <2>9. \A x, d \in PE : x # p \/ d # q => issued'[x][d] = issued[x][d]
    BY <1>1, <2>8, IssuePut
  <2>10. \A d \in PE : ~Local(s, d) => issued'[s][d] = issued[s][d]
    BY <2>8, <2>9
  <2> QED BY <1>2, <2>10 DEF Resting
<1> QED BY <1>3, <1>4 DEF Worker, WorkerExit, CommThread, Check, Received, Send, Sent, ReceiveNothing,
           ReceiveBadPacket, ReceivePacket, ReceiveMisframed, Polls, logs

(* The log of a PE that rests.                                             *)
LEMMA RestingTold ==
  ASSUME TInv, NEW j \in Jobs, NEW p \in PE, NEW q \in PE, Told(j, p, q), ~Local(p, q), Resting(p)
  PROVE  Told(j, p, q)'
<1>1. p # q
  BY DEF Local
<1> QED BY <1>1, StaysTold DEF Resting, Inside

(* A PE enters the barrier at a barrier call and returns from the call     *)
(* when it leaves.                                                         *)
LEMMA OwnBarrierFirst ==
  ASSUME SInv, NEW j \in Jobs, LightInv(j), NEW p \in PE, MainThread(p)
  PROVE  BarrierFirst(p)'
<1>1. TInv /\ TypeOK /\ BarrierFirst(p)
  BY DEF SInv, TInv, LightInv
<1>2. pc \in [PE -> {"call", "poll", "reset", "release", "join"}] /\ prog[p] \in Seq(Call)
  BY <1>1 DEF TypeOK
<1>3. CASE (p = 0 /\ RootEnter) \/ LeafEnter(p)
  <2>1. prog[p] # << >> /\ Head(prog[p]).op = "barrier" /\ prog' = prog
    BY <1>3 DEF RootEnter, LeafEnter, BarrierCall, Calls
  <2>2. Head(prog[p]) = prog[p][1]
    BY <1>2, <2>1, QueueFacts
  <2> QED BY <2>1, <2>2 DEF BarrierFirst
<1>4. CASE (p = 0 /\ (RootPoll \/ RootReset \/ RootGathered \/ RootRelease)) \/ LeafPoll(p)
  <2>1. Inside(p) /\ prog' = prog
    BY <1>4 DEF RootPoll, RootReset, RootGathered, RootRelease, LeafPoll, Inside
  <2> QED BY <1>1, <2>1 DEF BarrierFirst
<1>5. CASE \/ Store(p) \/ shmem_putmem(p) \/ shmem_getmem(p) \/ shmem_nbi(p) \/ shmem_quiet(p)
           \/ Release(p) \/ Join(p) \/ SetFinished(p) \/ (p = 0 /\ RootReturn) \/ LeafReset(p)
  <2>1. ~Inside(p)'
    BY <1>2, <1>5 DEF Store, shmem_putmem, shmem_getmem, shmem_nbi, shmem_quiet, Release, Join,
                      SetFinished, RootReturn, LeafReset, BarrierReturn, Calls, Inside
  <2> QED BY <2>1 DEF BarrierFirst
<1> QED BY <1>3, <1>4, <1>5 DEF MainThread

(* Non-blocking puts of a light job stay on the host.                      *)
LEMMA JobsLocal ==
  ASSUME SInv, NEW j \in Jobs, Light(j), LightInv(j), [Next]_vars, NEW d \in PE
  PROVE  work_queue'[d] \in Seq(LocalJob(d))
<1>1. TInv /\ TypeOK /\ work_queue[d] \in Seq(LocalJob(d))
  BY DEF SInv, TInv, LightInv
<1>2. work_queue \in [PE -> Seq(Job)]
  BY <1>1, SeqTypes
<1>3. CASE work_queue' = work_queue
  BY <1>1, <1>3
<1>4. ASSUME NEW p \in PE, NEW job \in Job, job \in LocalJob(p), work_thread_enqueue(p, job)
      PROVE  work_queue'[d] \in Seq(LocalJob(d))
  <2>1. CASE d = p
    <3>1. work_queue'[d] = Append(work_queue[d], job)
      BY <1>2, <1>4, <2>1 DEF work_thread_enqueue
    <3> QED BY <1>1, <1>4, <2>1, <3>1, AppendFacts
  <2>2. CASE d # p
    <3>1. work_queue'[d] = work_queue[d]
      BY <1>2, <1>4, <2>2 DEF work_thread_enqueue
    <3> QED BY <1>1, <3>1
  <2> QED BY <2>1, <2>2
<1>5. ASSUME NEW p \in PE, shmem_nbi(p) PROVE work_queue'[d] \in Seq(LocalJob(d))
  <2> DEFINE c == Head(prog[p])
             h == NbiHandler[c.op]
             job == [handler |-> h, origin_pe |-> p, dest_pe |-> c.pe, dest |-> c.dest, src |-> c.src]
  <2>1. /\ prog[p] # << >> /\ (c.op = "put_nbi" \/ c.op = "get_nbi") /\ work_thread_enqueue(p, job)
    BY <1>5 DEF shmem_nbi, Calls, NbiHandler, work_put
  <2>2. c.dest \in Addr /\ c.src \in Addr /\ c.pe \in PE
    BY <1>1, <2>1, CallFacts
  <2>3. h \in {"PUT", "GET"} /\ (h = "PUT" => c.op = "put_nbi")
    BY <2>1 DEF NbiHandler
  <2>4. h = "PUT" => Local(p, c.pe)
    <3>1. Done(j, p) + 1 \in DOMAIN j.prog[p] /\ j.prog[p][Done(j, p) + 1] = c
      BY <1>1, <2>1, Places
    <3>2. host = j.host
      BY DEF LightInv, ProgOf
    <3> HIDE DEF Done, c
    <3> QED BY <2>2, <2>3, <3>1, <3>2 DEF Light, Local
  <2> HIDE DEF c, h
  <2>5. job \in OwnJob
    BY <2>2, <2>3 DEF OwnJob
  <2>6. job \in Job /\ job \in LocalJob(p)
    BY <2>4, <2>5 DEF Job, LocalJob
  <2> HIDE DEF job
  <2> QED BY <1>4, <2>1, <2>6
<1>6. ASSUME NEW p \in PE, Execute(p) PROVE work_queue'[d] \in Seq(LocalJob(d))
  <2>1. work_queue[p] # << >> /\ work_queue' = [work_queue EXCEPT ![p] = Tail(work_queue[p])]
    BY <1>6 DEF Execute, work_thread_dequeue
  <2>2. CASE d = p
    <3>1. work_queue'[d] = Tail(work_queue[d]) /\ work_queue[d] # << >>
      BY <1>2, <2>1, <2>2
    <3> QED BY <1>1, <3>1, QueueFacts
  <2>3. CASE d # p
    <3>1. work_queue'[d] = work_queue[d]
      BY <1>2, <2>1, <2>3
    <3> QED BY <1>1, <3>1
  <2> QED BY <2>2, <2>3
<1>7. ASSUME NEW p \in PE, NEW s \in PE, ReceivePacket(p, s) PROVE work_queue'[d] \in Seq(LocalJob(d))
  <2>1. PICK n \in {2, 3}, job \in PacketJob : Takes(p, s, n, job)
    BY <1>1, <1>7, TakesJob
  <2>2. work_thread_enqueue(p, job) /\ job \in Job /\ job \notin OwnJob
    BY <2>1, JobKinds DEF Takes, Job
  <2>3. job \in LocalJob(p)
    BY <2>2 DEF LocalJob
  <2> QED BY <1>4, <2>2, <2>3
<1>8. ASSUME NEW p \in PE, MainThread(p) PROVE shmem_nbi(p) \/ work_queue' = work_queue
  BY <1>8 DEF MainThread, Store, shmem_putmem, shmem_getmem, shmem_quiet, Release, Join, SetFinished,
              RootEnter, RootPoll, RootReset, RootGathered, RootRelease, RootReturn, LeafEnter, LeafPoll,
              LeafReset, queueVars
<1>9. ASSUME NEW p \in PE, Worker(p) PROVE Execute(p) \/ work_queue' = work_queue
  BY <1>9 DEF Worker, WorkerExit, queueVars
<1>10. ASSUME NEW p \in PE, CommThread(p) PROVE (\E s \in PE : ReceivePacket(p, s)) \/ work_queue' = work_queue
  BY <1>10 DEF CommThread, Check, Received, Send, Sent, ReceiveNothing, ReceiveBadPacket,
               ReceiveMisframed, queueVars
<1>11. CASE UNCHANGED vars
  BY <1>3, <1>11 DEF vars, queueVars
<1> QED BY <1>3, <1>5, <1>6, <1>7, <1>8, <1>9, <1>10, <1>11 DEF Next, Finished

(* Every step of every thread keeps LightInv.                              *)
LEMMA NextLight ==
  ASSUME SInv, NEW j \in Jobs, Light(j), LightInv(j), [Next]_vars
  PROVE  LightInv(j)'
<1>1. TInv
  BY DEF SInv
<1>2. host' = host /\ ProgOf(j)'
  BY <1>1, ProgMoves, ProgStep
<1>3. \A p \in PE : LocalJob(p)' = LocalJob(p)
  BY <1>2 DEF LocalJob, Local
<1>4. \A p \in PE : work_queue'[p] \in Seq(LocalJob(p)')
  BY <1>3, JobsLocal
<1>5. ASSUME NEW p \in PE PROVE MainThread(p) \/ Resting(p)
  <2>1. CASE UNCHANGED vars
    BY <2>1 DEF vars, mainVars, logs, Resting
  <2>2. ASSUME NEW s \in PE, MainThread(s) PROVE MainThread(p) \/ Resting(p)
    BY <1>1, <2>2, OthersRest
  <2>3. ASSUME NEW s \in PE, Worker(s) \/ CommThread(s) PROVE Resting(p)
    BY <1>1, <2>3, ThreadsRest
  <2> QED BY <2>1, <2>2, <2>3 DEF Next, Finished
<1>6. ASSUME NEW p \in PE PROVE BarrierFirst(p)'
  <2>1. CASE MainThread(p)
    BY <2>1, OwnBarrierFirst
  <2>2. CASE Resting(p)
    BY <2>2 DEF Resting, BarrierFirst, Inside, LightInv
  <2> QED BY <1>5, <2>1, <2>2
<1>7. ASSUME NEW p \in PE, NEW q \in PE, ~Local(p, q)' PROVE Told(j, p, q)'
  <2>1. ~Local(p, q) /\ p # q
    BY <1>2, <1>7 DEF Local
  <2>2. Told(j, p, q)
    BY <2>1 DEF LightInv
  <2> QED BY <1>1, <1>5, <2>1, <2>2, OwnTold, RestingTold
<1> QED BY <1>2, <1>4, <1>6, <1>7, Zenon DEF LightInv

(* The job as it starts.                                                   *)
LEMMA InitLight ==
  ASSUME Init, NEW j \in Jobs, host = j.host, prog = j.prog
  PROVE  LightInv(j)
<1>1. /\ pc = [p \in PE |-> "call"] /\ arrived = [p \in PE |-> 0] /\ left = [p \in PE |-> 0]
      /\ work_queue = [p \in PE |-> << >>] /\ issued = [p \in PE |-> [q \in PE |-> << >>]] /\ 0 \in PE
  BY PEFacts DEF Init, Idle
<1>2. \A p \in PE : Done(j, p) = 0
  <2>1. ASSUME NEW p \in PE PROVE Done(j, p) = 0
    <3>1. Len(j.prog[p]) \in Nat
      BY SendSets
    <3>2. PICK x \in Nat : x = Len(j.prog[p])
      BY <3>1
    <3>3. Done(j, p) = x - x
      BY <3>2 DEF Done
    <3> QED BY <3>3
  <2> QED BY <2>1
<1> HIDE DEF Done
<1>3. ProgOf(j)
  <2>1. ASSUME NEW p \in PE
        PROVE  /\ Len(prog[p]) <= Len(j.prog[p])
               /\ \A m \in DOMAIN prog[p] : prog[p][m] = j.prog[p][m + Done(j, p)]
    <3>1. Len(j.prog[p]) \in Nat /\ DOMAIN j.prog[p] = 1 .. Len(j.prog[p])
      BY SendSets
    <3>2. \A m \in DOMAIN prog[p] : m + 0 = m
      BY <3>1
    <3> QED BY <1>2, <3>1, <3>2
  <2> QED BY <2>1 DEF ProgOf
<1>4. ASSUME NEW p \in PE PROVE work_queue[p] \in Seq(LocalJob(p)) /\ BarrierFirst(p)
  <2>1. << >> \in Seq(LocalJob(p))
    OBVIOUS
  <2> QED BY <1>1, <2>1 DEF BarrierFirst, Inside
<1>5. ASSUME NEW p \in PE, NEW q \in PE PROVE Told(j, p, q)
  <2>1. Pos(j, p, q) = 0 /\ Rounds(p, q) = 0 /\ issued[p][q] = << >>
    BY <1>1, <1>2 DEF Pos, Rounds, Released, Bit, Inside
  <2>2. Tale(Sending(j.prog[p], p, q), Barriers(j.prog[p]), q, 0, 0, << >>)
    BY SendSets, TaleStart
  <2> QED BY <2>1, <2>2 DEF Told
<1> QED BY <1>3, <1>4, <1>5 DEF LightInv

(* The inductive invariant: the barrier's, the logs' and that of a light   *)
(* job.                                                                    *)
FitInv == FInv /\ \E j \in Jobs : Light(j) /\ LightInv(j)

(* Comm.WritesFit: in a light job, with reads that return whole packets,   *)
(* the communication thread never finds a socket without room for the      *)
(* whole packet (comm_remote.c:137-150), although nothing in the code      *)
(* checks the result of network_send. The barriers of the program alone    *)
(* keep the sockets from filling up.                                       *)
THEOREM LightJobsFit ==
  ASSUME ~Splits, \A j \in Jobs : Light(j)
  PROVE  Spec => []WritesFit
<1>1. Init => FitInv
  <2> SUFFICES ASSUME Init PROVE FitInv
    OBVIOUS
  <2>1. PICK j \in Jobs : host = j.host /\ prog = j.prog
    BY DEF Init
  <2>2. Light(j) /\ LightInv(j)
    BY <2>1, InitLight
  <2> QED BY <2>2, InitFInv DEF FitInv
<1>2. FitInv => WritesFit
  BY FitsNow DEF FitInv
<1>3. FitInv /\ [Next]_vars => FitInv'
  <2> SUFFICES ASSUME FitInv, [Next]_vars PROVE FitInv'
    OBVIOUS
  <2>1. PICK j \in Jobs : Light(j) /\ LightInv(j)
    BY DEF FitInv
  <2>2. FInv /\ SInv
    BY DEF FitInv, FInv, OInv
  <2>3. LightInv(j)'
    BY <2>1, <2>2, NextLight
  <2>4. FInv'
    BY <1>2, <2>2, NextFInv
  <2> QED BY <2>1, <2>3, <2>4 DEF FitInv
<1> QED BY <1>1, <1>2, <1>3, PTL DEF Spec

(* For light jobs the order of puts, their completion at the barrier on    *)
(* the root's connections, and the refinement of Barrier hold without an   *)
(* assumption on the writes (comm.c:96-165, comm_remote.c:73-161,          *)
(* work.c:32-93).                                                          *)
THEOREM LightJobsDeliver ==
  ASSUME ~Splits, \A j \in Jobs : Light(j)
  PROVE  Spec => []PutsInOrder /\ []RootPutsComplete /\ ImplementsBarrier
<1>1. Spec => []WritesFit
  BY LightJobsFit
<1> QED BY <1>1, PutsStayInOrder, RootPutsAreComplete, Refinement, PTL
=============================================================================
