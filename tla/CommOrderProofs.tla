--------------------------- MODULE CommOrderProofs ---------------------------
(***************************************************************************)
(* PutsInOrder of the running library, for any number of PEs, any          *)
(* placement that wireup connects (WiringAssumption) and any program: the  *)
(* puts of one PE to another land once each, unharmed and in the order of  *)
(* the calls, if reads return whole packets (~Splits) and no write is cut  *)
(* short (WritesFit). Both conditions are needed: the code looks neither   *)
(* at what network_receive returned for the data (comm_remote.c:125) nor   *)
(* at what network_send did (comm_remote.c:146), and without the first TLC *)
(* finds PutsInOrder violated.                                             *)
(*                                                                         *)
(* The invariant numbers the puts of a pair (field seq of a packet, a      *)
(* history) and says where each number is: stored, in the target's work    *)
(* queue, in the socket, or in the send queue, as four adjoining           *)
(* intervals, each complete and in order in its queue although the queues  *)
(* are shared with other traffic (Pipeline, Carries). Framed keeps the     *)
(* reader at packet boundaries. GenuineInv says that what is under way is  *)
(* what the log has under that number, so that what lands extends the      *)
(* landed log by the next put of the issued one (LogInv).                  *)
(*                                                                         *)
(* RootPutsComplete, under the same conditions: a put between two PEs of   *)
(* one host, or to or from PE 0, that was called before a barrier is       *)
(* stored when its target returns from the barrier, although               *)
(* comm_barrier_all waits for no put. CommBarrierProofs knows when no      *)
(* signal is under way between a leaf and the root: when the root releases *)
(* the leaf, and when the leaf returns. A put behind which a signal was    *)
(* called lands before it. FlushInv says that every put of a finished      *)
(* round that has not landed has a signal behind it (Behind); when no      *)
(* signal is under way none such is left (NothingLeft), so all puts of     *)
(* that round are through.                                                 *)
(***************************************************************************)
EXTENDS CommBarrierProofs

(* A socket holds whole packets, each as its three cells in order. *)
Framed(w) ==
  /\ 1 \in DOMAIN w => w[1].part = 1
  /\ \A n \in DOMAIN w :
       w[n].part \in {1, 2} => /\ n + 1 \in DOMAIN w /\ w[n + 1].part = w[n].part + 1
                               /\ w[n + 1].packet = w[n].packet
  /\ \A n \in DOMAIN w : w[n].part = 3 /\ n + 1 \in DOMAIN w => w[n + 1].part = 1

(* What F gives for the elements of the sequence u that are in S, by their *)
(* place in u.                                                             *)
Numbers(u, S, F) == [n \in {m \in DOMAIN u : u[m] \in S} |-> F[u[n]]]

(* The numbers of the puts of s to d that are in the send queue of s, in   *)
(* the socket and in the work queue of d, by the place they have there.    *)
EntriesTo(d) == {e \in Entry : e.pe = d}
EntrySeq     == [e \in Entry |-> e.packet.seq]
Starts       == {c \in Cell : c.part = 1}
CellSeq      == [c \in Cell |-> c.packet.seq]
JobsFrom(s)  == {job \in PacketJob : job.origin_pe = s}
JobSeq       == [job \in Job |-> IF job \in PacketJob THEN job.data_buf.seq ELSE 0]

SendSeq(s, d) == Numbers(queue_send[s], EntriesTo(d), EntrySeq)
WireSeq(s, d) == Numbers(wire[s][d], Starts, CellSeq)
WorkSeq(s, d) == Numbers(work_queue[d], JobsFrom(s), JobSeq)

(* The values of c are the numbers above lo, up to hi, in order. *)
Carries(c, lo, hi) ==
  /\ \A n \in DOMAIN c : n \in Nat /\ c[n] \in lo + 1 .. hi
  /\ \A m, n \in DOMAIN c : m < n => c[m] < c[n]
  /\ \A j \in lo + 1 .. hi : \E n \in DOMAIN c : c[n] = j

(* The puts of s to d are, in the order of the calls: stored, queued for   *)
(* the worker of d, in the socket, queued at s.                            *)
Pipeline(s, d) ==
  \E a, b \in 0 .. Len(issued[s][d]) :
    /\ Len(landed[s][d]) <= a /\ a <= b /\ b <= Len(issued[s][d])
    /\ Carries(WorkSeq(s, d), Len(landed[s][d]), a)
    /\ Carries(WireSeq(s, d), a, b)
    /\ Carries(SendSeq(s, d), b, Len(issued[s][d]))

(* The put is the one the log has under its number: the data is unharmed. *)
Genuine(s, d, put) ==
  put.seq \in DOMAIN issued[s][d] /\ issued[s][d][put.seq] = put

TrueEntry(s)   == {e \in Entry : Genuine(s, e.pe, e.packet)}
TrueCell(s, d) == {c \in Cell : Genuine(s, d, c.packet)}
TrueJob(d)     == {job \in Job : job \in PacketJob => Genuine(job.origin_pe, d, job.data_buf)}

(* Everything under way is genuine.                                        *)
GenuineInv ==
  /\ \A s \in PE : queue_send[s] \in Seq(TrueEntry(s))
  /\ \A s, d \in PE : wire[s][d] \in Seq(TrueCell(s, d))
  /\ \A d \in PE : work_queue[d] \in Seq(TrueJob(d))

(* What has landed is a prefix of what was called; all of it between PEs   *)
(* of one host.                                                            *)
LogInv(s, d) ==
  /\ \A n \in DOMAIN landed[s][d] :
       n \in DOMAIN issued[s][d] /\ landed[s][d][n] = issued[s][d][n]
  /\ Local(s, d) => Len(landed[s][d]) = Len(issued[s][d])

(* The puts of every pair of PEs.                                          *)
Flow ==
  GenuineInv /\ \A s, d \in PE : Framed(wire[s][d]) /\ Pipeline(s, d) /\ LogInv(s, d)

(* The inductive invariant.                                                *)
OInv == SInv /\ Flow

(* Adding the next number at the end of a queue.                           *)
LEMMA CarriesGrow ==
  ASSUME NEW c, NEW e, NEW lo \in Nat, NEW hi \in Nat, lo <= hi, NEW m \in Nat, Carries(c, lo, hi),
         \A n : n \in DOMAIN e <=> n \in DOMAIN c \/ n = m, e[m] = hi + 1,
         \A n \in DOMAIN c : n < m /\ e[n] = c[n]
  PROVE  Carries(e, lo, hi + 1)
<1>1. /\ \A n \in DOMAIN c : n \in Nat /\ c[n] \in lo + 1 .. hi
      /\ \A x, y \in DOMAIN c : x < y => c[x] < c[y]
      /\ \A j \in lo + 1 .. hi : \E n \in DOMAIN c : c[n] = j
  BY DEF Carries
<1>2. \A n \in DOMAIN e : n \in Nat /\ e[n] \in lo + 1 .. hi + 1
  BY <1>1
<1>3. \A x, y \in DOMAIN e : x < y => e[x] < e[y]
  BY <1>1
<1>4. ASSUME NEW j \in lo + 1 .. hi + 1 PROVE \E n \in DOMAIN e : e[n] = j
  <2>1. CASE j = hi + 1
    BY <2>1
  <2>2. CASE j # hi + 1
    <3>1. j \in lo + 1 .. hi
      BY <1>4, <2>2
    <3> QED BY <1>1, <3>1
  <2> QED BY <2>1, <2>2
<1> QED BY <1>2, <1>3, <1>4 DEF Carries

(* What is left, m places further on, when none of the numbers is taken.   *)
LEMMA CarriesMove ==
  ASSUME NEW c, NEW e, NEW lo \in Nat, NEW hi \in Nat, NEW m \in Nat, Carries(c, lo, hi),
         \A n \in DOMAIN e : n \in Nat /\ n + m \in DOMAIN c /\ e[n] = c[n + m],
         \A x \in DOMAIN c : x - m \in DOMAIN e
  PROVE  Carries(e, lo, hi)
<1>1. /\ \A n \in DOMAIN c : n \in Nat /\ c[n] \in lo + 1 .. hi
      /\ \A x, y \in DOMAIN c : x < y => c[x] < c[y]
      /\ \A j \in lo + 1 .. hi : \E n \in DOMAIN c : c[n] = j
  BY DEF Carries
<1>2. \A n \in DOMAIN e : n \in Nat /\ e[n] \in lo + 1 .. hi
  BY <1>1
<1>3. ASSUME NEW x \in DOMAIN e, NEW y \in DOMAIN e, x < y PROVE e[x] < e[y]
  <2>1. x \in Nat /\ y \in Nat /\ x + m < y + m
    BY <1>3
  <2> QED BY <1>1, <2>1
<1>4. ASSUME NEW j \in lo + 1 .. hi PROVE \E n \in DOMAIN e : e[n] = j
  <2>1. PICK x \in DOMAIN c : c[x] = j
    BY <1>1
  <2>2. x - m \in DOMAIN e /\ (x - m) + m = x
    BY <1>1
  <2> QED BY <2>1, <2>2
<1> QED BY <1>2, <1>3, <1>4 DEF Carries

(* The first of the numbers is the lowest; taking it leaves the rest.      *)
LEMMA CarriesFirst ==
  ASSUME NEW c, NEW e, NEW lo \in Nat, NEW hi \in Nat, NEW m \in Nat, Carries(c, lo, hi),
         NEW f \in DOMAIN c, \A x \in DOMAIN c : f <= x,
         \A n \in DOMAIN e : /\ n \in Nat /\ n + m \in DOMAIN c /\ n + m # f /\ e[n] = c[n + m],
         \A x \in DOMAIN c : x # f => x - m \in DOMAIN e
  PROVE  c[f] = lo + 1 /\ lo + 1 <= hi /\ Carries(e, lo + 1, hi)
<1>1. /\ \A n \in DOMAIN c : n \in Nat /\ c[n] \in lo + 1 .. hi
      /\ \A x, y \in DOMAIN c : x < y => c[x] < c[y]
      /\ \A j \in lo + 1 .. hi : \E n \in DOMAIN c : c[n] = j
  BY DEF Carries
<1>2. f \in Nat /\ c[f] \in lo + 1 .. hi
  BY <1>1
<1>3. lo + 1 <= hi /\ lo + 1 \in lo + 1 .. hi
  BY <1>2
<1>4. PICK g \in DOMAIN c : c[g] = lo + 1
  BY <1>1, <1>3
<1>5. g = f
  <2>1. f <= g /\ g \in Nat
    BY <1>1
  <2>2. f < g => c[f] < c[g]
    BY <1>1
  <2> QED BY <1>2, <1>4, <2>1, <2>2
<1>6. \A x \in DOMAIN c : x # f => c[x] \in (lo + 1) + 1 .. hi
  <2> SUFFICES ASSUME NEW x \in DOMAIN c, x # f PROVE c[x] \in (lo + 1) + 1 .. hi
    OBVIOUS
  <2>1. f < x /\ c[x] \in lo + 1 .. hi
    BY <1>1, <1>2, SMTT(60)
  <2>2. c[f] < c[x]
    BY <1>1, <2>1
  <2> QED BY <1>4, <1>5, <2>1, <2>2
<1>7. \A n \in DOMAIN e : n \in Nat /\ e[n] \in (lo + 1) + 1 .. hi
  BY <1>6
<1>8. ASSUME NEW x \in DOMAIN e, NEW y \in DOMAIN e, x < y PROVE e[x] < e[y]
  <2>1. x \in Nat /\ y \in Nat /\ x + m < y + m
    BY <1>8
  <2> QED BY <1>1, <2>1
<1>9. ASSUME NEW j \in (lo + 1) + 1 .. hi PROVE \E n \in DOMAIN e : e[n] = j
  <2>1. j \in lo + 1 .. hi /\ j # lo + 1
    BY <1>9
  <2>2. PICK x \in DOMAIN c : c[x] = j
    BY <1>1, <2>1
  <2>3. x # f
    BY <1>4, <1>5, <2>1, <2>2
  <2>4. x - m \in DOMAIN e /\ (x - m) + m = x
    BY <1>1, <2>3
  <2> QED BY <2>2, <2>4
<1> QED BY <1>3, <1>4, <1>5, <1>7, <1>8, <1>9 DEF Carries

(* Numbers as a function.                                                  *)
LEMMA NumbersFacts ==
  ASSUME NEW u, NEW S, NEW F
  PROVE  /\ \A n : n \in DOMAIN Numbers(u, S, F) <=> n \in DOMAIN u /\ u[n] \in S
         /\ \A n \in DOMAIN Numbers(u, S, F) : Numbers(u, S, F)[n] = F[u[n]]
BY DEF Numbers

(* Writing w behind u: no new number, or the next one with the first       *)
(* element of w.                                                           *)
LEMMA NumbersConcat ==
  ASSUME NEW T, NEW u \in Seq(T), NEW w \in Seq(T), NEW S, NEW F, NEW lo \in Nat, NEW hi \in Nat,
         lo <= hi, Carries(Numbers(u, S, F), lo, hi)
  PROVE  /\ (\A n \in DOMAIN w : w[n] \notin S) => Carries(Numbers(u \o w, S, F), lo, hi)
         /\ 1 \in DOMAIN w /\ w[1] \in S /\ F[w[1]] = hi + 1 /\ (\A n \in DOMAIN w : n # 1 => w[n] \notin S)
              => Carries(Numbers(u \o w, S, F), lo, hi + 1)
<1> DEFINE c == Numbers(u, S, F)
           t == u \o w
           e == Numbers(t, S, F)
<1>1. /\ Len(u) \in Nat /\ Len(w) \in Nat /\ DOMAIN u = 1 .. Len(u) /\ DOMAIN w = 1 .. Len(w)
      /\ DOMAIN t = 1 .. Len(u) + Len(w)
      /\ \A n \in DOMAIN u : t[n] = u[n]
      /\ \A n \in DOMAIN t : n \notin DOMAIN u => n - Len(u) \in DOMAIN w /\ t[n] = w[n - Len(u)]
  BY ConcatFacts
<1> HIDE DEF t
<1>c. /\ \A n : n \in DOMAIN c <=> n \in DOMAIN u /\ u[n] \in S
      /\ \A n \in DOMAIN c : c[n] = F[u[n]]
      /\ Carries(c, lo, hi)
  BY NumbersFacts
<1>e. /\ \A n : n \in DOMAIN e <=> n \in DOMAIN t /\ t[n] \in S
      /\ \A n \in DOMAIN e : e[n] = F[t[n]]
  BY NumbersFacts
<1> HIDE DEF c, e
<1>2. /\ \A n : n \in DOMAIN c <=> n \in DOMAIN u /\ u[n] \in S
      /\ \A n \in DOMAIN c : c[n] = F[u[n]]
      /\ \A n : n \in DOMAIN e <=> n \in DOMAIN t /\ t[n] \in S
      /\ \A n \in DOMAIN e : e[n] = F[t[n]]
      /\ Carries(c, lo, hi)
  BY <1>c, <1>e
<1>3. \A n \in DOMAIN u : n \in DOMAIN t /\ n \in Nat /\ n < Len(u) + 1
  BY <1>1
<1>4. \A n \in DOMAIN c : n \in DOMAIN e /\ e[n] = c[n] /\ n < Len(u) + 1
  BY <1>1, <1>2, <1>3
<1>5. ASSUME \A n \in DOMAIN w : w[n] \notin S PROVE Carries(e, lo, hi)
  <2>1. DOMAIN e \subseteq DOMAIN c
    BY <1>1, <1>2, <1>5
  <2>2. \A n \in DOMAIN e : n \in Nat /\ n + 0 \in DOMAIN c /\ e[n] = c[n + 0]
    BY <1>2, <1>3, <1>4, <2>1
  <2>3. \A x \in DOMAIN c : x - 0 \in DOMAIN e
    BY <1>2, <1>3, <1>4
  <2> QED BY <1>2, <2>2, <2>3, CarriesMove
<1>6. ASSUME 1 \in DOMAIN w, w[1] \in S, F[w[1]] = hi + 1, \A n \in DOMAIN w : n # 1 => w[n] \notin S
      PROVE  Carries(e, lo, hi + 1)
  <2>1. Len(u) + 1 \in DOMAIN t /\ Len(u) + 1 \notin DOMAIN u /\ (Len(u) + 1) - Len(u) = 1
    BY <1>1, <1>6
  <2>2. Len(u) + 1 \in DOMAIN e /\ e[Len(u) + 1] = hi + 1
    BY <1>1, <1>2, <1>6, <2>1
  <2>3. ASSUME NEW n \in DOMAIN e, n \notin DOMAIN c PROVE n = Len(u) + 1
    <3>1. n \in DOMAIN t /\ t[n] \in S /\ n \notin DOMAIN u
      BY <1>1, <1>2, <2>3
    <3>2. n - Len(u) = 1 /\ n \in Nat
      BY <1>1, <1>6, <3>1
    <3> QED BY <1>1, <3>2
  <2>4. DOMAIN e = DOMAIN c \cup {Len(u) + 1}
    BY <1>4, <2>2, <2>3
  <2>5. PICK k \in Nat : k = Len(u) + 1
    BY <1>1
  <2>6. /\ \A n : n \in DOMAIN e <=> n \in DOMAIN c \/ n = k
        /\ e[k] = hi + 1 /\ \A n \in DOMAIN c : n < k /\ e[n] = c[n]
    BY <1>4, <2>2, <2>4, <2>5
  <2> QED BY <1>2, <2>6, CarriesGrow, ZenonT(60)
<1> QED BY <1>5, <1>6 DEF e, t

(* Adding one element to a queue.                                          *)
LEMMA NumbersAppend ==
  ASSUME NEW T, NEW u \in Seq(T), NEW x \in T, NEW S, NEW F, NEW lo \in Nat, NEW hi \in Nat,
         lo <= hi, Carries(Numbers(u, S, F), lo, hi)
  PROVE  /\ x \notin S => Carries(Numbers(Append(u, x), S, F), lo, hi)
         /\ x \in S /\ F[x] = hi + 1 => Carries(Numbers(Append(u, x), S, F), lo, hi + 1)
<1> DEFINE w == <<x>>
<1>1. w \in Seq(T) /\ DOMAIN w = {1} /\ w[1] = x /\ Append(u, x) = u \o w
  OBVIOUS
<1> HIDE DEF w
<1> QED BY <1>1, NumbersConcat

(* Taking m elements of which at most the first carries a number: if it    *)
(* does, it is the lowest.                                                 *)
LEMMA NumbersSuffix ==
  ASSUME NEW T, NEW u \in Seq(T), NEW m \in Nat, 1 <= m, m <= Len(u), NEW S, NEW F,
         NEW lo \in Nat, NEW hi \in Nat, Carries(Numbers(u, S, F), lo, hi),
         \A n \in 2 .. m : u[n] \notin S
  PROVE  /\ u[1] \notin S => Carries(Numbers(SubSeq(u, m + 1, Len(u)), S, F), lo, hi)
         /\ u[1] \in S => /\ F[u[1]] = lo + 1 /\ lo + 1 <= hi
                          /\ Carries(Numbers(SubSeq(u, m + 1, Len(u)), S, F), lo + 1, hi)
<1> DEFINE c == Numbers(u, S, F)
           t == SubSeq(u, m + 1, Len(u))
           e == Numbers(t, S, F)
<1>1. /\ Len(u) \in Nat /\ DOMAIN u = 1 .. Len(u) /\ DOMAIN t = 1 .. Len(u) - m
      /\ \A n \in DOMAIN t : n + m \in DOMAIN u /\ t[n] = u[n + m]
  BY SuffixFacts, SMTT(60)
<1> HIDE DEF t
<1>c. /\ \A n : n \in DOMAIN c <=> n \in DOMAIN u /\ u[n] \in S
      /\ \A n \in DOMAIN c : c[n] = F[u[n]]
      /\ Carries(c, lo, hi)
  BY NumbersFacts
<1>e. /\ \A n : n \in DOMAIN e <=> n \in DOMAIN t /\ t[n] \in S
      /\ \A n \in DOMAIN e : e[n] = F[t[n]]
  BY NumbersFacts
<1> HIDE DEF c, e
<1>2. /\ \A n : n \in DOMAIN c <=> n \in DOMAIN u /\ u[n] \in S
      /\ \A n \in DOMAIN c : c[n] = F[u[n]]
      /\ \A n : n \in DOMAIN e <=> n \in DOMAIN t /\ t[n] \in S
      /\ \A n \in DOMAIN e : e[n] = F[t[n]]
      /\ Carries(c, lo, hi)
  BY <1>c, <1>e
<1>3. \A n \in DOMAIN e : n \in Nat /\ n + m \in DOMAIN c /\ n + m # 1 /\ e[n] = c[n + m]
  BY <1>1, <1>2
<1>4. ASSUME NEW x \in DOMAIN c, x # 1 PROVE x - m \in DOMAIN e
  <2>1. x \in 1 .. Len(u) /\ u[x] \in S
    BY <1>1, <1>2
  <2>2. x \notin 2 .. m
    BY <2>1
  <2>3. x - m \in 1 .. Len(u) - m /\ (x - m) + m = x
    BY <1>1, <1>4, <2>1, <2>2
  <2> QED BY <1>1, <1>2, <2>1, <2>3
<1>5. CASE u[1] \notin S
  <2>1. \A x \in DOMAIN c : x # 1
    BY <1>2, <1>5
  <2> QED BY <1>2, <1>3, <1>4, <1>5, <2>1, CarriesMove, ZenonT(60) DEF e, t
<1>6. CASE u[1] \in S
  <2>1. 1 \in DOMAIN c /\ c[1] = F[u[1]] /\ \A x \in DOMAIN c : 1 <= x
    BY <1>1, <1>2, <1>6
  <2>3. PICK f \in DOMAIN c : f = 1
    BY <2>1
  <2>4. \A x \in DOMAIN c : f <= x
    BY <2>1, <2>3
  <2>6. \A n \in DOMAIN e : n \in Nat /\ n + m \in DOMAIN c /\ n + m # f /\ e[n] = c[n + m]
    BY <1>3, <2>3
  <2>7. \A x \in DOMAIN c : x # f => x - m \in DOMAIN e
    BY <1>4, <2>3
  <2>8. Carries(c, lo, hi)
    BY <1>2
  <2>5. c[f] = lo + 1 /\ lo + 1 <= hi /\ Carries(e, lo + 1, hi)
    BY <2>4, <2>6, <2>7, <2>8, CarriesFirst, ZenonT(40)
  <2>2. c[1] = lo + 1 /\ lo + 1 <= hi /\ Carries(e, lo + 1, hi)
    BY <2>3, <2>5
  <2> QED BY <1>6, <2>1, <2>2 DEF e, t
<1> QED BY <1>5, <1>6

(* A queue that carries nothing carries nothing whatever the bounds.       *)
LEMMA CarriesNone ==
  ASSUME NEW c, NEW lo \in Nat, Carries(c, lo, lo), NEW hi \in Nat
  PROVE  Carries(c, hi, hi)
<1>1. DOMAIN c = {}
  <2>1. \A n \in DOMAIN c : c[n] \in lo + 1 .. lo
    BY DEF Carries
  <2>2. \A x : x \notin lo + 1 .. lo
    OBVIOUS
  <2> QED BY <2>1, <2>2
<1>2. \A x : x \notin hi + 1 .. hi
  OBVIOUS
<1> QED BY <1>1, <1>2 DEF Carries

(* Taking the first element is dropping one.                               *)
LEMMA TailIsSuffix ==
  ASSUME NEW T, NEW u \in Seq(T), u # << >>
  PROVE  Tail(u) = SubSeq(u, 2, Len(u)) /\ 1 <= Len(u) /\ Head(u) = u[1]
<1>1. Len(u) \in Nat \ {0}
  BY EmptySeq
<1>2. /\ Tail(u) \in Seq(T) /\ Len(Tail(u)) = Len(u) - 1
      /\ \A n \in DOMAIN Tail(u) : Tail(u)[n] = u[n + 1]
      /\ DOMAIN Tail(u) = 1 .. Len(u) - 1
      /\ Head(u) = u[1]
  BY QueueFacts
<1>3. PICK m \in Nat : m = 1
  OBVIOUS
<1> DEFINE t == SubSeq(u, m + 1, Len(u))
<1>4. m <= Len(u) /\ m + 1 = 2
  BY <1>1, <1>3
<1>5. /\ t \in Seq(T) /\ Len(t) = Len(u) - m /\ DOMAIN t = 1 .. Len(u) - m
      /\ \A n \in DOMAIN t : t[n] = u[n + m]
  BY <1>4, SuffixFacts
<1> HIDE DEF t
<1>6. Len(t) = Len(Tail(u)) /\ \A n \in 1 .. Len(t) : t[n] = Tail(u)[n]
  BY <1>2, <1>3, <1>5
<1>7. t = Tail(u)
  BY <1>2, <1>5, <1>6, SeqEqual
<1> QED BY <1>1, <1>2, <1>4, <1>7 DEF t

(* Taking the first element of a queue.                                    *)
LEMMA NumbersTail ==
  ASSUME NEW T, NEW u \in Seq(T), u # << >>, NEW S, NEW F,
         NEW lo \in Nat, NEW hi \in Nat, Carries(Numbers(u, S, F), lo, hi)
  PROVE  /\ Head(u) \notin S => Carries(Numbers(Tail(u), S, F), lo, hi)
         /\ Head(u) \in S => /\ F[Head(u)] = lo + 1 /\ lo + 1 <= hi
                             /\ Carries(Numbers(Tail(u), S, F), lo + 1, hi)
<1>1. Tail(u) = SubSeq(u, 2, Len(u)) /\ 1 <= Len(u) /\ Head(u) = u[1]
  BY TailIsSuffix
<1>2. PICK m \in Nat : m = 1
  OBVIOUS
<1>3. 1 <= m /\ m <= Len(u) /\ m + 1 = 2 /\ \A n \in 2 .. m : u[n] \notin S
  BY <1>1, <1>2
<1>4. /\ u[1] \notin S => Carries(Numbers(SubSeq(u, m + 1, Len(u)), S, F), lo, hi)
      /\ u[1] \in S => /\ F[u[1]] = lo + 1 /\ lo + 1 <= hi
                       /\ Carries(Numbers(SubSeq(u, m + 1, Len(u)), S, F), lo + 1, hi)
  BY <1>3, NumbersSuffix
<1> QED BY <1>1, <1>3, <1>4

(* comm_thread_enqueue adds the next number to the queue of its pair, and  *)
(* leaves the others alone.                                                *)
LEMMA SendGrow ==
  ASSUME TypeOK, NEW p \in PE, NEW q \in PE, NEW put \in Put, comm_thread_enqueue(p, q, put),
         NEW s \in PE, NEW d \in PE, NEW lo \in Nat, NEW hi \in Nat, lo <= hi,
         Carries(SendSeq(s, d), lo, hi)
  PROVE  /\ s # p \/ d # q => Carries(SendSeq(s, d)', lo, hi)
         /\ s = p /\ d = q /\ put.seq = hi + 1 => Carries(SendSeq(s, d)', lo, hi + 1)
<1> DEFINE e == [pe |-> q, packet |-> put]
<1>1. queue_send \in [PE -> Seq(Entry)] /\ queue_send' = [queue_send EXCEPT ![p] = Append(queue_send[p], e)]
  BY SeqTypes DEF comm_thread_enqueue
<1>2. e \in Entry /\ (e \in EntriesTo(d) <=> d = q) /\ EntrySeq[e] = put.seq
  BY DEF Entry, EntriesTo, EntrySeq
<1> HIDE DEF e
<1>3. SendSeq(s, d)' = Numbers(queue_send'[s], EntriesTo(d), EntrySeq)
  BY DEF SendSeq, Numbers, EntriesTo, EntrySeq, Entry, Put, PE
<1>4. CASE s # p
  <2>1. queue_send'[s] = queue_send[s]
    BY <1>1, <1>4
  <2> QED BY <1>3, <1>4, <2>1 DEF SendSeq
<1>5. CASE s = p
  <2>1. queue_send'[s] = Append(queue_send[p], e) /\ queue_send[p] \in Seq(Entry)
    BY <1>1, <1>5
  <2>2. Carries(Numbers(queue_send[p], EntriesTo(d), EntrySeq), lo, hi)
    BY <1>5 DEF SendSeq
  <2>3. /\ e \notin EntriesTo(d) => Carries(Numbers(Append(queue_send[p], e), EntriesTo(d), EntrySeq), lo, hi)
        /\ e \in EntriesTo(d) /\ EntrySeq[e] = hi + 1 =>
             Carries(Numbers(Append(queue_send[p], e), EntriesTo(d), EntrySeq), lo, hi + 1)
    BY <1>2, <2>1, <2>2, NumbersAppend
  <2> QED BY <1>2, <1>3, <1>5, <2>1, <2>3
<1> QED BY <1>4, <1>5

(* comm_thread_dequeue takes the lowest number of its pair, and leaves the *)
(* others alone.                                                           *)
LEMMA SendDrop ==
  ASSUME TypeOK, NEW p \in PE, queue_send[p] # << >>, comm_thread_dequeue(p),
         NEW s \in PE, NEW d \in PE, NEW lo \in Nat, NEW hi \in Nat,
         Carries(SendSeq(s, d), lo, hi)
  PROVE  /\ s # p \/ d # Head(queue_send[p]).pe => Carries(SendSeq(s, d)', lo, hi)
         /\ s = p /\ d = Head(queue_send[p]).pe =>
              /\ Head(queue_send[p]).packet.seq = lo + 1 /\ lo + 1 <= hi
              /\ Carries(SendSeq(s, d)', lo + 1, hi)
<1> DEFINE e == Head(queue_send[p])
<1>1. queue_send \in [PE -> Seq(Entry)] /\ queue_send' = [queue_send EXCEPT ![p] = Tail(queue_send[p])]
  BY SeqTypes DEF comm_thread_dequeue
<1>2. e \in Entry
  BY <1>1, QueueFacts
<1>3. (e \in EntriesTo(d) <=> d = e.pe) /\ EntrySeq[e] = e.packet.seq
  BY <1>2 DEF EntriesTo, EntrySeq
<1>4. SendSeq(s, d)' = Numbers(queue_send'[s], EntriesTo(d), EntrySeq)
  BY DEF SendSeq, Numbers, EntriesTo, EntrySeq, Entry, Put, PE
<1>5. CASE s # p
  <2>1. queue_send'[s] = queue_send[s]
    BY <1>1, <1>5
  <2> QED BY <1>4, <1>5, <2>1 DEF SendSeq
<1>6. CASE s = p
  <2>1. queue_send'[s] = Tail(queue_send[p]) /\ queue_send[p] \in Seq(Entry)
    BY <1>1, <1>6
  <2>2. Carries(Numbers(queue_send[p], EntriesTo(d), EntrySeq), lo, hi)
    BY <1>6 DEF SendSeq
  <2>3. /\ e \notin EntriesTo(d) => Carries(Numbers(Tail(queue_send[p]), EntriesTo(d), EntrySeq), lo, hi)
        /\ e \in EntriesTo(d) =>
             /\ EntrySeq[e] = lo + 1 /\ lo + 1 <= hi
             /\ Carries(Numbers(Tail(queue_send[p]), EntriesTo(d), EntrySeq), lo + 1, hi)
    BY <2>1, <2>2, NumbersTail
  <2> HIDE DEF e
  <2> QED BY <1>3, <1>4, <1>6, <2>1, <2>3 DEF e
<1> QED BY <1>5, <1>6

(* work_thread_enqueue of a received packet adds the next number of its    *)
(* pair; an own job adds none.                                             *)
LEMMA WorkGrow ==
  ASSUME TypeOK, NEW p \in PE, NEW job \in Job, work_thread_enqueue(p, job),
         NEW s \in PE, NEW d \in PE, NEW lo \in Nat, NEW hi \in Nat, lo <= hi,
         Carries(WorkSeq(s, d), lo, hi)
  PROVE  /\ d # p \/ job \notin PacketJob \/ job.origin_pe # s => Carries(WorkSeq(s, d)', lo, hi)
         /\ d = p /\ job \in PacketJob /\ job.origin_pe = s /\ job.data_buf.seq = hi + 1 =>
              Carries(WorkSeq(s, d)', lo, hi + 1)
<1>1. work_queue \in [PE -> Seq(Job)] /\ work_queue' = [work_queue EXCEPT ![p] = Append(work_queue[p], job)]
  BY SeqTypes DEF work_thread_enqueue
<1>2. /\ job \in JobsFrom(s) <=> job \in PacketJob /\ job.origin_pe = s
      /\ job \in PacketJob => JobSeq[job] = job.data_buf.seq
  BY DEF JobsFrom, JobSeq
<1>3. WorkSeq(s, d)' = Numbers(work_queue'[d], JobsFrom(s), JobSeq)
  BY DEF WorkSeq, Numbers, JobsFrom, JobSeq, Job, PacketJob, OwnJob, Put, PE, Addr
<1>4. CASE d # p
  <2>1. work_queue'[d] = work_queue[d]
    BY <1>1, <1>4
  <2> QED BY <1>3, <1>4, <2>1 DEF WorkSeq
<1>5. CASE d = p
  <2>1. work_queue'[d] = Append(work_queue[p], job) /\ work_queue[p] \in Seq(Job)
    BY <1>1, <1>5
  <2>2. Carries(Numbers(work_queue[p], JobsFrom(s), JobSeq), lo, hi)
    BY <1>5 DEF WorkSeq
  <2>3. /\ job \notin JobsFrom(s) => Carries(Numbers(Append(work_queue[p], job), JobsFrom(s), JobSeq), lo, hi)
        /\ job \in JobsFrom(s) /\ JobSeq[job] = hi + 1 =>
             Carries(Numbers(Append(work_queue[p], job), JobsFrom(s), JobSeq), lo, hi + 1)
    BY <2>1, <2>2, NumbersAppend
  <2> QED BY <1>2, <1>3, <1>5, <2>1, <2>3
<1> QED BY <1>4, <1>5

(* work_thread_dequeue takes the lowest number of the pair the packet      *)
(* belongs to, or none.                                                    *)
LEMMA WorkDrop ==
  ASSUME TypeOK, NEW p \in PE, work_queue[p] # << >>, work_thread_dequeue(p),
         NEW job \in Job, job = Head(work_queue[p]),
         NEW s \in PE, NEW d \in PE, NEW lo \in Nat, NEW hi \in Nat,
         Carries(WorkSeq(s, d), lo, hi)
  PROVE  /\ d # p \/ job \notin PacketJob \/ job.origin_pe # s => Carries(WorkSeq(s, d)', lo, hi)
         /\ d = p /\ job \in PacketJob /\ job.origin_pe = s =>
              /\ job.data_buf.seq = lo + 1 /\ lo + 1 <= hi
              /\ Carries(WorkSeq(s, d)', lo + 1, hi)
<1>1. work_queue \in [PE -> Seq(Job)] /\ work_queue' = [work_queue EXCEPT ![p] = Tail(work_queue[p])]
  BY SeqTypes DEF work_thread_dequeue
<1>2. /\ job \in JobsFrom(s) <=> job \in PacketJob /\ job.origin_pe = s
      /\ job \in PacketJob => JobSeq[job] = job.data_buf.seq
  BY SMTT(60) DEF JobsFrom, JobSeq
<1>3. WorkSeq(s, d)' = Numbers(work_queue'[d], JobsFrom(s), JobSeq)
  BY DEF WorkSeq, Numbers, JobsFrom, JobSeq, Job, PacketJob, OwnJob, Put, PE, Addr
<1>4. CASE d # p
  <2>1. work_queue'[d] = work_queue[d]
    BY <1>1, <1>4
  <2> QED BY <1>3, <1>4, <2>1 DEF WorkSeq
<1>5. CASE d = p
  <2>1. work_queue'[d] = Tail(work_queue[p]) /\ work_queue[p] \in Seq(Job)
    BY <1>1, <1>5
  <2>2. Carries(Numbers(work_queue[p], JobsFrom(s), JobSeq), lo, hi)
    BY <1>5 DEF WorkSeq
  <2>3. /\ job \notin JobsFrom(s) => Carries(Numbers(Tail(work_queue[p]), JobsFrom(s), JobSeq), lo, hi)
        /\ job \in JobsFrom(s) =>
             /\ JobSeq[job] = lo + 1 /\ lo + 1 <= hi
             /\ Carries(Numbers(Tail(work_queue[p]), JobsFrom(s), JobSeq), lo + 1, hi)
    BY <2>1, <2>2, NumbersTail
  <2> QED BY <1>2, <1>3, <1>5, <2>1, <2>3
<1> QED BY <1>4, <1>5

(* A socket that holds whole packets and is not empty begins with one.     *)
LEMMA FramedHead ==
  ASSUME NEW w \in Seq(Cell), Framed(w), w # << >>
  PROVE  /\ 3 <= Len(w) /\ Len(w) \in Nat /\ DOMAIN w = 1 .. Len(w)
         /\ w[1].part = 1 /\ w[2].part = 2 /\ w[3].part = 3
         /\ 1 \in DOMAIN w /\ w[1] \in Cell /\ w[2] \notin Starts /\ w[3] \notin Starts
<1>1. Len(w) \in Nat \ {0} /\ DOMAIN w = 1 .. Len(w)
  BY EmptySeq, LenProperties
<1>2. 1 \in DOMAIN w /\ w[1].part = 1
  BY <1>1 DEF Framed
<1>3. 1 + 1 \in DOMAIN w /\ w[1 + 1].part = 1 + 1
  BY <1>2 DEF Framed
<1>4. 2 \in DOMAIN w /\ w[2].part = 2
  BY <1>3
<1>5. 2 + 1 \in DOMAIN w /\ w[2 + 1].part = 2 + 1
  BY <1>4 DEF Framed
<1>6. 3 \in DOMAIN w /\ w[3].part = 3
  BY <1>5
<1>7. w[1] \in Cell
  BY <1>1, <1>2, ElementOfSeq
<1> QED BY <1>1, <1>2, <1>4, <1>6, <1>7 DEF Starts

(* Reading a whole packet leaves whole packets.                            *)
LEMMA FramedDrop ==
  ASSUME NEW w \in Seq(Cell), Framed(w), w # << >>
  PROVE  Framed(SubSeq(w, 4, Len(w)))
<1>1. /\ 3 <= Len(w) /\ Len(w) \in Nat /\ DOMAIN w = 1 .. Len(w) /\ w[3].part = 3
  BY FramedHead
<1>2. PICK m \in Nat : m = 3
  OBVIOUS
<1> DEFINE t == SubSeq(w, m + 1, Len(w))
<1>3. /\ DOMAIN t = 1 .. Len(w) - m
      /\ \A n \in DOMAIN t : n + m \in DOMAIN w /\ t[n] = w[n + m]
  BY <1>1, <1>2, SuffixFacts
<1> HIDE DEF t
<1>4. ASSUME 1 \in DOMAIN t PROVE t[1].part = 1
  <2>1. 1 + m = 3 + 1 /\ 1 + m \in DOMAIN w /\ t[1] = w[1 + m]
    BY <1>2, <1>3, <1>4
  <2>2. 3 \in DOMAIN w /\ 3 + 1 \in DOMAIN w
    BY <1>1, <2>1
  <2> QED BY <1>1, <2>1, <2>2 DEF Framed
<1>5. ASSUME NEW n \in DOMAIN t, t[n].part \in {1, 2}
      PROVE  n + 1 \in DOMAIN t /\ t[n + 1].part = t[n].part + 1 /\ t[n + 1].packet = t[n].packet
  <2>1. n \in Nat /\ n + m \in DOMAIN w /\ t[n] = w[n + m]
    BY <1>3
  <2>2. /\ (n + m) + 1 \in DOMAIN w /\ w[(n + m) + 1].part = w[n + m].part + 1
        /\ w[(n + m) + 1].packet = w[n + m].packet
    BY <1>5, <2>1 DEF Framed
  <2>3. n + 1 \in DOMAIN t /\ (n + 1) + m = (n + m) + 1
    BY <1>1, <1>3, <2>1, <2>2
  <2>4. t[n + 1] = w[(n + m) + 1]
    BY <1>3, <2>3
  <2> QED BY <2>1, <2>2, <2>3, <2>4
<1>6. ASSUME NEW n \in DOMAIN t, t[n].part = 3, n + 1 \in DOMAIN t PROVE t[n + 1].part = 1
  <2>1. n \in Nat /\ n + m \in DOMAIN w /\ t[n] = w[n + m] /\ (n + 1) + m \in DOMAIN w
        /\ t[n + 1] = w[(n + 1) + m] /\ (n + 1) + m = (n + m) + 1
    BY <1>3, <1>6, SMTT(60)
  <2>2. (n + m) + 1 \in DOMAIN w /\ t[n + 1] = w[(n + m) + 1]
    BY <2>1
  <2> QED BY <1>6, <2>1, <2>2, SMTT(60) DEF Framed
<1>7. Framed(t)
  BY <1>4, <1>5, <1>6 DEF Framed
<1> QED BY <1>2, <1>7 DEF t

(* Three elements written behind others.                                   *)
LEMMA ConcatThree ==
  ASSUME NEW S, NEW w \in Seq(S), NEW c \in Seq(S)
  PROVE  Len(c) = 3 =>
         /\ Len(w) \in Nat /\ DOMAIN w = 1 .. Len(w) /\ DOMAIN c = 1 .. 3
         /\ DOMAIN (w \o c) = 1 .. Len(w) + 3
         /\ \A n \in DOMAIN w : (w \o c)[n] = w[n]
         /\ \A n \in DOMAIN (w \o c) :
              n \notin DOMAIN w => n - Len(w) \in DOMAIN c /\ (w \o c)[n] = c[n - Len(w)]
<1> DEFINE t == w \o c
<1>1. /\ Len(w) \in Nat /\ DOMAIN w = 1 .. Len(w) /\ DOMAIN c = 1 .. Len(c)
      /\ DOMAIN t = 1 .. Len(w) + Len(c)
      /\ \A n \in DOMAIN w : t[n] = w[n]
      /\ \A n \in DOMAIN t : n \notin DOMAIN w => n - Len(w) \in DOMAIN c /\ t[n] = c[n - Len(w)]
  BY ConcatFacts
<1> HIDE DEF t
<1>2. ASSUME Len(c) = 3
      PROVE  /\ Len(w) \in Nat /\ DOMAIN w = 1 .. Len(w) /\ DOMAIN c = 1 .. 3
             /\ DOMAIN t = 1 .. Len(w) + 3
             /\ \A n \in DOMAIN w : t[n] = w[n]
             /\ \A n \in DOMAIN t : n \notin DOMAIN w => n - Len(w) \in DOMAIN c /\ t[n] = c[n - Len(w)]
  BY <1>1, <1>2
<1> QED BY <1>2 DEF t

(* Writing a whole packet leaves whole packets.                            *)
LEMMA FramedGrow ==
  ASSUME NEW w \in Seq(Cell), Framed(w), NEW c \in Seq(Cell), NEW packet, Len(c) = 3,
         \A n \in DOMAIN c : c[n] = [part |-> n, packet |-> packet]
  PROVE  Framed(w \o c)
<1> DEFINE t == w \o c
<1>1. /\ Len(w) \in Nat /\ DOMAIN w = 1 .. Len(w) /\ DOMAIN c = 1 .. 3
      /\ DOMAIN t = 1 .. Len(w) + 3
      /\ \A n \in DOMAIN w : t[n] = w[n]
      /\ \A n \in DOMAIN t : n \notin DOMAIN w => n - Len(w) \in DOMAIN c /\ t[n] = c[n - Len(w)]
  BY ConcatThree, SMTT(60)
<1> HIDE DEF t
<1>2. PICK l \in Nat : l = Len(w)
  BY <1>1
<1>3. /\ t[l + 1].part = 1 /\ t[l + 2].part = 2 /\ t[l + 3].part = 3
      /\ t[l + 1].packet = packet /\ t[l + 2].packet = packet /\ t[l + 3].packet = packet
  <2>1. \A n \in 1 .. 3 : t[l + n] = c[n]
    <3> SUFFICES ASSUME NEW n \in 1 .. 3 PROVE t[l + n] = c[n]
      OBVIOUS
    <3>1. l + n \in DOMAIN t /\ l + n \notin DOMAIN w /\ (l + n) - Len(w) = n
      BY <1>1, <1>2
    <3> QED BY <1>1, <3>1
  <2>2. \A n \in 1 .. 3 : c[n].part = n /\ c[n].packet = packet
    BY <1>1
  <2> QED BY <2>1, <2>2
<1>4. \A n \in DOMAIN t : n \in DOMAIN w \/ n = l + 1 \/ n = l + 2 \/ n = l + 3
  BY <1>1, <1>2
<1>5. ASSUME 1 \in DOMAIN t PROVE t[1].part = 1
  <2>1. CASE l = 0
    <3>1. 1 = l + 1
      BY <2>1
    <3> QED BY <1>3, <3>1
  <2>2. CASE l # 0
    <3>1. 1 \in DOMAIN w
      BY <1>1, <1>2, <2>2
    <3> QED BY <1>1, <3>1 DEF Framed
  <2> QED BY <2>1, <2>2
<1>6. ASSUME NEW n \in DOMAIN t, t[n].part \in {1, 2}
      PROVE  n + 1 \in DOMAIN t /\ t[n + 1].part = t[n].part + 1 /\ t[n + 1].packet = t[n].packet
  <2>1. CASE n \in DOMAIN w
    <3>1. t[n] = w[n] /\ n + 1 \in DOMAIN w /\ w[n + 1].part = w[n].part + 1 /\ w[n + 1].packet = w[n].packet
      BY <1>1, <1>6, <2>1 DEF Framed
    <3>2. t[n + 1] = w[n + 1] /\ n + 1 \in DOMAIN t
      BY <1>1, <3>1
    <3> QED BY <3>1, <3>2
  <2>2. CASE n = l + 1
    <3>1. n + 1 = l + 2 /\ n + 1 \in DOMAIN t
      BY <1>1, <1>2, <2>2
    <3> QED BY <1>3, <2>2, <3>1
  <2>3. CASE n = l + 2
    <3>1. n + 1 = l + 3 /\ n + 1 \in DOMAIN t
      BY <1>1, <1>2, <2>3
    <3> QED BY <1>3, <2>3, <3>1
  <2>4. CASE n = l + 3
    BY <1>3, <1>6, <2>4
  <2> QED BY <1>4, <2>1, <2>2, <2>3, <2>4
<1>7. ASSUME NEW n \in DOMAIN t, t[n].part = 3, n + 1 \in DOMAIN t PROVE t[n + 1].part = 1
  <2>1. CASE n \in DOMAIN w
    <3>1. CASE n + 1 \in DOMAIN w
      <4>1. t[n] = w[n] /\ t[n + 1] = w[n + 1]
        BY <1>1, <2>1, <3>1
      <4> QED BY <1>7, <2>1, <3>1, <4>1 DEF Framed
    <3>2. CASE n + 1 \notin DOMAIN w
      <4>1. n + 1 = l + 1
        BY <1>1, <1>2, <2>1, <3>2
      <4> QED BY <1>3, <4>1
    <3> QED BY <3>1, <3>2
  <2>2. CASE n = l + 1 \/ n = l + 2
    BY <1>3, <1>7, <2>2
  <2>3. CASE n = l + 3
    BY <1>1, <1>2, <1>7, <2>3
  <2> QED BY <1>4, <2>1, <2>2, <2>3
<1>8. Framed(t)
  BY <1>5, <1>6, <1>7 DEF Framed
<1> QED BY <1>8 DEF t

(* network_send of all three cells: whole packets, and the next number of  *)
(* the pair.                                                               *)
LEMMA WireGrow ==
  ASSUME TypeOK, NEW p \in PE, NEW q \in PE, NEW packet \in Put, NEW c \in Seq(Cell),
         Wrote(p, q, packet, c), Len(c) = 3, NEW s \in PE, NEW d \in PE
  PROVE  /\ Framed(wire[s][d]) => Framed(wire'[s][d])
         /\ \A lo, hi \in Nat : lo <= hi /\ Carries(WireSeq(s, d), lo, hi) =>
              /\ s # p \/ d # q => Carries(WireSeq(s, d)', lo, hi)
              /\ s = p /\ d = q /\ packet.seq = hi + 1 => Carries(WireSeq(s, d)', lo, hi + 1)
<1>1. /\ wire \in [PE -> [PE -> Seq(Cell)]] /\ wire[p][q] \in Seq(Cell)
      /\ wire' = [wire EXCEPT ![p][q] = wire[p][q] \o c]
      /\ \A n \in DOMAIN c : c[n] = [part |-> n, packet |-> packet]
      /\ DOMAIN c = 1 .. 3
  BY SeqTypes DEF Wrote
<1>2. WireSeq(s, d)' = Numbers(wire'[s][d], Starts, CellSeq)
  BY DEF WireSeq, Numbers, Starts, CellSeq, Cell, Put
<1>3. CASE s # p \/ d # q
  <2>1. wire'[s][d] = wire[s][d]
    BY <1>1, <1>3
  <2> QED BY <1>2, <1>3, <2>1 DEF WireSeq
<1>4. CASE s = p /\ d = q
  <2>1. wire'[s][d] = wire[p][q] \o c
    BY <1>1, <1>4
  <2>2. Framed(wire[s][d]) => Framed(wire'[s][d])
    BY <1>1, <1>4, <2>1, FramedGrow
  <2>3. ASSUME NEW lo \in Nat, NEW hi \in Nat, lo <= hi, Carries(WireSeq(s, d), lo, hi), packet.seq = hi + 1
        PROVE  Carries(WireSeq(s, d)', lo, hi + 1)
    <3>1. 1 \in DOMAIN c /\ c[1] \in Starts /\ CellSeq[c[1]] = hi + 1
      <4>1. 1 \in DOMAIN c /\ c[1] = [part |-> 1, packet |-> packet]
        BY <1>1
      <4>2. [part |-> 1, packet |-> packet] \in Starts
        BY DEF Starts, Cell
      <4>3. CellSeq[c[1]] = c[1].packet.seq
        BY <4>1, <4>2 DEF Starts, CellSeq
      <4> QED BY <2>3, <4>1, <4>2, <4>3
    <3>2. \A n \in DOMAIN c : n # 1 => c[n] \notin Starts
      <4> SUFFICES ASSUME NEW n \in DOMAIN c, n # 1 PROVE c[n] \notin Starts
        OBVIOUS
      <4>1. c[n] = [part |-> n, packet |-> packet]
        BY <1>1, Zenon
      <4>2. c[n].part = n
        BY <4>1
      <4> QED BY <4>2 DEF Starts
    <3>3. Carries(Numbers(wire[p][q], Starts, CellSeq), lo, hi)
      BY <1>4, <2>3 DEF WireSeq
    <3>4. Carries(Numbers(wire[p][q] \o c, Starts, CellSeq), lo, hi + 1)
      BY <1>1, <2>3, <3>1, <3>2, <3>3, NumbersConcat
    <3> QED BY <1>2, <2>1, <3>4
  <2> QED BY <1>4, <2>2, <2>3
<1> QED BY <1>3, <1>4

(* network_receive of three cells: whole packets, and the lowest number of *)
(* the pair is gone.                                                       *)
LEMMA WireDrop ==
  ASSUME TypeOK, NEW p \in PE, NEW q \in PE, wire[q][p] # << >>, network_receive(p, q, 3),
         Framed(wire[q][p]), NEW s \in PE, NEW d \in PE
  PROVE  /\ Framed(wire[s][d]) => Framed(wire'[s][d])
         /\ \A lo, hi \in Nat : Carries(WireSeq(s, d), lo, hi) =>
              /\ s # q \/ d # p => Carries(WireSeq(s, d)', lo, hi)
              /\ s = q /\ d = p => /\ wire[q][p][1].packet.seq = lo + 1 /\ lo + 1 <= hi
                                   /\ Carries(WireSeq(s, d)', lo + 1, hi)
<1> DEFINE w == wire[q][p]
<1>1. wire \in [PE -> [PE -> Seq(Cell)]] /\ w \in Seq(Cell)
  BY SeqTypes
<1>2. /\ 3 <= Len(w) /\ Len(w) \in Nat /\ DOMAIN w = 1 .. Len(w) /\ w[1].part = 1
      /\ w[1] \in Cell /\ w[2] \notin Starts /\ w[3] \notin Starts
  BY <1>1, FramedHead
<1>3. wire' = [wire EXCEPT ![q][p] = SubSeq(w, 3 + 1, Len(w))]
  BY DEF network_receive
<1>4. WireSeq(s, d)' = Numbers(wire'[s][d], Starts, CellSeq)
  BY DEF WireSeq, Numbers, Starts, CellSeq, Cell, Put
<1>5. CASE s # q \/ d # p
  <2>1. wire'[s][d] = wire[s][d]
    BY <1>1, <1>3, <1>5
  <2> QED BY <1>4, <1>5, <2>1 DEF WireSeq
<1>6. CASE s = q /\ d = p
  <2>1. wire'[s][d] = SubSeq(w, 4, Len(w))
    BY <1>1, <1>3, <1>6
  <2>2. Framed(SubSeq(w, 4, Len(w)))
    BY <1>1, FramedDrop
  <2>3. ASSUME NEW lo \in Nat, NEW hi \in Nat, Carries(WireSeq(s, d), lo, hi)
        PROVE  /\ w[1].packet.seq = lo + 1 /\ lo + 1 <= hi /\ Carries(WireSeq(s, d)', lo + 1, hi)
    <3>1. PICK m \in Nat : m = 3
      OBVIOUS
    <3>2. Carries(Numbers(w, Starts, CellSeq), lo, hi)
      BY <1>6, <2>3 DEF WireSeq
    <3>3. 1 <= m /\ m <= Len(w) /\ m + 1 = 4 /\ \A n \in 2 .. m : w[n] \notin Starts
      BY <1>2, <3>1
    <3>4. w[1] \in Starts /\ CellSeq[w[1]] = w[1].packet.seq
      BY <1>2 DEF Starts, CellSeq
    <3> HIDE DEF w
    <3>5. CellSeq[w[1]] = lo + 1 /\ lo + 1 <= hi /\ Carries(Numbers(SubSeq(w, m + 1, Len(w)), Starts, CellSeq), lo + 1, hi)
      BY <1>1, <3>2, <3>3, <3>4, NumbersSuffix
    <3> QED BY <1>4, <2>1, <3>3, <3>4, <3>5
  <2> QED BY <1>6, <2>1, <2>2, <2>3
<1> QED BY <1>5, <1>6

(* A sequence over a set is one over a larger set.                         *)
LEMMA SeqMono == ASSUME NEW S, NEW T, S \subseteq T, NEW u \in Seq(S) PROVE u \in Seq(T)
<1>1. Len(u) \in Nat /\ u \in [1 .. Len(u) -> S]
  BY LenProperties
<1>2. u \in [1 .. Len(u) -> T]
  BY <1>1
<1> QED BY <1>1, <1>2, SeqDef

(* The types of the logs.                                                  *)
LEMMA LogTypes ==
  ASSUME TypeOK
  PROVE  /\ issued \in LogType /\ landed \in LogType
         /\ \A s, d \in PE : /\ issued[s][d] \in Seq(Put) /\ Len(issued[s][d]) \in Nat
                             /\ DOMAIN issued[s][d] = 1 .. Len(issued[s][d])
                             /\ landed[s][d] \in Seq(Put) /\ Len(landed[s][d]) \in Nat
                             /\ DOMAIN landed[s][d] = 1 .. Len(landed[s][d])
<1>1. issued \in LogType /\ landed \in LogType
  BY DEF TypeOK, LogType
<1>2. \A s, d \in PE : issued[s][d] \in Seq(Put) /\ landed[s][d] \in Seq(Put)
  BY <1>1 DEF LogType
<1> QED BY <1>1, <1>2, LenProperties

(* The shares of the pipeline, with the numbers that bound them. *)
Shares(s, d, l, a, b, h) ==
  /\ l \in Nat /\ a \in Nat /\ b \in Nat /\ h \in Nat /\ l <= a /\ a <= b /\ b <= h
  /\ l = Len(landed[s][d]) /\ h = Len(issued[s][d])
  /\ Carries(WorkSeq(s, d), l, a) /\ Carries(WireSeq(s, d), a, b) /\ Carries(SendSeq(s, d), b, h)

(* Pipeline with its bounds named,                                         *)
LEMMA PipelineShares ==
  ASSUME TypeOK, NEW s \in PE, NEW d \in PE, Pipeline(s, d)
  PROVE  \E l, a, b, h \in Nat : Shares(s, d, l, a, b, h)
<1> DEFINE m == Len(landed[s][d])
           g == Len(issued[s][d])
<1>1. m \in Nat /\ g \in Nat
  BY LogTypes
<1>2. PICK a \in 0 .. g, b \in 0 .. g :
        /\ m <= a /\ a <= b /\ b <= g
        /\ Carries(WorkSeq(s, d), m, a)
        /\ Carries(WireSeq(s, d), a, b)
        /\ Carries(SendSeq(s, d), b, g)
  BY DEF Pipeline
<1>3. a \in Nat /\ b \in Nat
  BY <1>1
<1>4. Shares(s, d, m, a, b, g)
  BY <1>1, <1>2, <1>3 DEF Shares
<1> QED BY <1>1, <1>3, <1>4

(* and back, in the next state.                                            *)
LEMMA SharesPipeline ==
  ASSUME NEW s \in PE, NEW d \in PE, NEW l \in Nat, NEW a \in Nat, NEW b \in Nat, NEW h \in Nat,
         Shares(s, d, l, a, b, h)'
  PROVE  Pipeline(s, d)'
<1>1. /\ l <= a /\ a <= b /\ b <= h /\ l = Len(landed'[s][d]) /\ h = Len(issued'[s][d])
      /\ Carries(WorkSeq(s, d)', l, a) /\ Carries(WireSeq(s, d)', a, b) /\ Carries(SendSeq(s, d)', b, h)
  BY DEF Shares
<1>2. a \in 0 .. h /\ b \in 0 .. h
  BY <1>1
<1> QED BY <1>1, <1>2 DEF Pipeline

(* The log of s and d has what it had. *)
Kept(s, d) ==
  \A n \in DOMAIN issued[s][d] : n \in DOMAIN issued'[s][d] /\ issued'[s][d][n] = issued[s][d][n]

(* What is genuine stays genuine when the log only grows.                  *)
LEMMA GenuineKept ==
  ASSUME \A s, d \in PE : Kept(s, d)
  PROVE  /\ \A s \in PE : \A u \in Seq(TrueEntry(s)) : u \in Seq(TrueEntry(s)')
         /\ \A s, d \in PE : \A u \in Seq(TrueCell(s, d)) : u \in Seq(TrueCell(s, d)')
         /\ \A d \in PE : \A u \in Seq(TrueJob(d)) : u \in Seq(TrueJob(d)')
<1>1. ASSUME NEW s \in PE, NEW d \in PE, NEW put, Genuine(s, d, put)
      PROVE  put.seq \in DOMAIN issued'[s][d] /\ issued'[s][d][put.seq] = put
  BY <1>1 DEF Genuine, Kept
<1>2. ASSUME NEW s \in PE PROVE TrueEntry(s) \subseteq TrueEntry(s)'
  <2> SUFFICES ASSUME NEW e \in Entry, Genuine(s, e.pe, e.packet)
               PROVE  e.packet.seq \in DOMAIN issued'[s][e.pe] /\ issued'[s][e.pe][e.packet.seq] = e.packet
    BY DEF TrueEntry, Genuine, Entry, Put
  <2>1. e.pe \in PE
    BY DEF Entry
  <2> QED BY <1>1, <2>1
<1>3. ASSUME NEW s \in PE, NEW d \in PE PROVE TrueCell(s, d) \subseteq TrueCell(s, d)'
  <2> SUFFICES ASSUME NEW c \in Cell, Genuine(s, d, c.packet)
               PROVE  c.packet.seq \in DOMAIN issued'[s][d] /\ issued'[s][d][c.packet.seq] = c.packet
    BY DEF TrueCell, Genuine, Cell, Put
  <2> QED BY <1>1
<1>4. ASSUME NEW d \in PE PROVE TrueJob(d) \subseteq TrueJob(d)'
  <2> SUFFICES ASSUME NEW job \in Job, job \in PacketJob, Genuine(job.origin_pe, d, job.data_buf)
               PROVE  /\ job.data_buf.seq \in DOMAIN issued'[job.origin_pe][d]
                      /\ issued'[job.origin_pe][d][job.data_buf.seq] = job.data_buf
    BY DEF TrueJob, Genuine, Job, PacketJob, OwnJob, Put
  <2>1. job.origin_pe \in PE
    BY DEF PacketJob
  <2> QED BY <1>1, <2>1
<1> QED BY <1>2, <1>3, <1>4, SeqMono

(* The work queues lose and gain own jobs only. *)
WorkKept ==
  /\ \A d \in PE : work_queue[d] \in Seq(TrueJob(d)) => work_queue'[d] \in Seq(TrueJob(d))
  /\ \A s, d \in PE : \A lo, hi \in Nat :
       lo <= hi /\ Carries(WorkSeq(s, d), lo, hi) => Carries(WorkSeq(s, d)', lo, hi)

(* Queues that do not change carry what they carried.                      *)
LEMMA SameSeqs ==
  ASSUME NEW s \in PE, NEW d \in PE
  PROVE  /\ wire'[s][d] = wire[s][d] => WireSeq(s, d)' = WireSeq(s, d)
         /\ queue_send'[s] = queue_send[s] => SendSeq(s, d)' = SendSeq(s, d)
         /\ work_queue'[d] = work_queue[d] => WorkSeq(s, d)' = WorkSeq(s, d)
<1>1. WireSeq(s, d)' = Numbers(wire'[s][d], Starts, CellSeq)
  BY DEF WireSeq, Numbers, Starts, CellSeq, Cell, Put
<1>2. SendSeq(s, d)' = Numbers(queue_send'[s], EntriesTo(d), EntrySeq)
  BY DEF SendSeq, Numbers, EntriesTo, EntrySeq, Entry, Put, PE
<1>3. WorkSeq(s, d)' = Numbers(work_queue'[d], JobsFrom(s), JobSeq)
  BY DEF WorkSeq, Numbers, JobsFrom, JobSeq, Job, PacketJob, OwnJob, Put, PE, Addr
<1> QED BY <1>1, <1>2, <1>3 DEF WireSeq, SendSeq, WorkSeq

(* comm_put of the caller's own keeps Flow: stored at once on the same     *)
(* host, the last in the send queue otherwise.                             *)
LEMMA IssueFlow ==
  ASSUME TypeOK, TypeOK', Flow, NEW p \in PE, NEW q \in PE, NEW a \in Addr, NEW v \in Value,
         Issue(p, q, a, v), UNCHANGED <<wire, host>>, WorkKept
  PROVE  Flow'
<1> DEFINE x == [dest |-> a, val |-> v, round |-> arrived[p], seq |-> Len(issued[p][q]) + 1]
<1>1. x \in Put /\ x.seq = Len(issued[p][q]) + 1
  <2>1. Len(issued[p][q]) + 1 \in Nat
    BY LogTypes
  <2>2. arrived[p] \in 0 .. MaxRounds
    BY DEF TypeOK
  <2> QED BY <2>1, <2>2 DEF Put, Value
<1>2. /\ comm_put(p, q, x)
      /\ issued' = [issued EXCEPT ![p][q] = Append(@, x)]
      /\ landed' = IF Local(p, q) THEN [landed EXCEPT ![p][q] = Append(@, x)] ELSE landed
  BY DEF Issue
<1> HIDE DEF x
<1>3. PICK put \in Put : put = x
  BY <1>1
<1>4. /\ comm_put(p, q, put) /\ put.seq = Len(issued[p][q]) + 1
      /\ issued' = [issued EXCEPT ![p][q] = Append(issued[p][q], put)]
      /\ landed' = IF Local(p, q) THEN [landed EXCEPT ![p][q] = Append(landed[p][q], put)] ELSE landed
  BY <1>1, <1>2, <1>3
<1>5. issued \in [PE -> [PE -> Seq(Put)]] /\ landed \in [PE -> [PE -> Seq(Put)]]
  BY LogTypes DEF LogType
<1>6. /\ issued'[p][q] = Append(issued[p][q], put)
      /\ \A s, d \in PE : s # p \/ d # q => issued'[s][d] = issued[s][d] /\ landed'[s][d] = landed[s][d]
      /\ Local(p, q) => landed'[p][q] = Append(landed[p][q], put)
      /\ ~Local(p, q) => landed'[p][q] = landed[p][q]
  BY <1>4, <1>5
<1> DEFINE h == Len(issued[p][q])
<1>7. /\ h \in Nat /\ DOMAIN issued[p][q] = 1 .. h /\ DOMAIN issued'[p][q] = 1 .. h + 1
      /\ Len(issued'[p][q]) = h + 1 /\ issued'[p][q][h + 1] = put
      /\ \A n \in DOMAIN issued[p][q] : issued'[p][q][n] = issued[p][q][n]
  BY <1>5, <1>6, AppendFacts, SMTT(60)
<1> HIDE DEF h
<1>8. \A s, d \in PE : Kept(s, d)
  <2> SUFFICES ASSUME NEW s \in PE, NEW d \in PE PROVE Kept(s, d)
    OBVIOUS
  <2>1. CASE s = p /\ d = q
    BY <1>7, <2>1 DEF Kept
  <2>2. CASE s # p \/ d # q
    BY <1>6, <2>2 DEF Kept
  <2> QED BY <2>1, <2>2
<1>9. /\ \A s \in PE : \A u \in Seq(TrueEntry(s)) : u \in Seq(TrueEntry(s)')
      /\ \A s, d \in PE : \A u \in Seq(TrueCell(s, d)) : u \in Seq(TrueCell(s, d)')
      /\ \A d \in PE : \A u \in Seq(TrueJob(d)) : u \in Seq(TrueJob(d)')
  BY <1>8, GenuineKept
<1>10. /\ \A s \in PE : queue_send[s] \in Seq(TrueEntry(s))
       /\ \A s, d \in PE : wire[s][d] \in Seq(TrueCell(s, d))
       /\ \A d \in PE : work_queue[d] \in Seq(TrueJob(d))
  BY DEF Flow, GenuineInv
<1>11. /\ \A s, d \in PE : wire'[s][d] \in Seq(TrueCell(s, d)')
       /\ \A d \in PE : work_queue'[d] \in Seq(TrueJob(d)')
  BY <1>9, <1>10 DEF WorkKept
<1>12. \A s, d \in PE : Local(s, d)' = Local(s, d)
  BY DEF Local
<1>13. \A s, d \in PE : Framed(wire[s][d]) /\ Pipeline(s, d) /\ LogInv(s, d)
  BY DEF Flow
<1>14. \A s, d \in PE : Framed(wire'[s][d])
  BY <1>13
<1>15. ASSUME NEW s \in PE, NEW d \in PE, s # p \/ d # q PROVE LogInv(s, d)'
  <2>1. issued'[s][d] = issued[s][d] /\ landed'[s][d] = landed[s][d]
    BY <1>6, <1>15
  <2>2. LogInv(s, d) /\ Local(s, d)' = Local(s, d)
    BY <1>12, <1>13
  <2> QED BY <2>1, <2>2 DEF LogInv, Local
<1>16. CASE Local(p, q)
  <2>1. queue_send' = queue_send
    BY <1>4, <1>16 DEF comm_put, comm_local_put
  <2>2. GenuineInv'
    BY <1>9, <1>10, <1>11, <2>1 DEF GenuineInv
  <2> DEFINE l == Len(landed[p][q])
  <2>3. l = h
    <3>1. LogInv(p, q)
      BY <1>13
    <3> QED BY <1>16, <3>1 DEF LogInv, h
  <2>4. /\ l \in Nat /\ DOMAIN landed[p][q] = 1 .. l /\ DOMAIN landed'[p][q] = 1 .. l + 1
        /\ Len(landed'[p][q]) = l + 1 /\ landed'[p][q][l + 1] = put
        /\ \A n \in DOMAIN landed[p][q] : landed'[p][q][n] = landed[p][q][n]
    <3>1. landed'[p][q] = Append(landed[p][q], put) /\ landed[p][q] \in Seq(Put)
      BY <1>5, <1>6, <1>16
    <3>2. /\ l \in Nat /\ DOMAIN landed[p][q] = 1 .. l /\ DOMAIN Append(landed[p][q], put) = 1 .. l + 1
          /\ Len(Append(landed[p][q], put)) = l + 1 /\ Append(landed[p][q], put)[l + 1] = put
          /\ \A n \in DOMAIN landed[p][q] : Append(landed[p][q], put)[n] = landed[p][q][n]
      BY <3>1, AppendFacts, SMTT(60)
    <3> HIDE DEF l
    <3> QED BY <3>1, <3>2
  <2> HIDE DEF l
  <2>5. LogInv(p, q)'
    <3>1. ASSUME NEW n \in DOMAIN landed'[p][q]
          PROVE  n \in DOMAIN issued'[p][q] /\ landed'[p][q][n] = issued'[p][q][n]
      <4>1. CASE n = l + 1
        BY <1>7, <2>3, <2>4, <4>1
      <4>2. CASE n # l + 1
        <5>1. n \in DOMAIN landed[p][q]
          BY <2>4, <4>2
        <5>2. n \in DOMAIN issued[p][q] /\ landed[p][q][n] = issued[p][q][n]
          BY <1>13, <5>1 DEF LogInv
        <5> QED BY <1>7, <2>4, <5>1, <5>2
      <4> QED BY <4>1, <4>2
    <3> QED BY <1>7, <2>3, <2>4, <3>1 DEF LogInv
  <2>6. ASSUME NEW s \in PE, NEW d \in PE PROVE Pipeline(s, d)'
    <3>1. PICK e \in Nat, f \in Nat, b \in Nat, g \in Nat : Shares(s, d, e, f, b, g)
      BY <1>13, PipelineShares
    <3>2. /\ e <= f /\ f <= b /\ b <= g
          /\ e = Len(landed[s][d]) /\ g = Len(issued[s][d])
          /\ Carries(WorkSeq(s, d), e, f) /\ Carries(WireSeq(s, d), f, b) /\ Carries(SendSeq(s, d), b, g)
      BY <3>1 DEF Shares
    <3>3. /\ Carries(WorkSeq(s, d)', e, f) /\ Carries(WireSeq(s, d)', f, b)
          /\ Carries(SendSeq(s, d)', b, g)
      BY <2>1, <3>2, SameSeqs DEF WorkKept
    <3>4. CASE s # p \/ d # q
      <4>1. e = Len(landed'[s][d]) /\ g = Len(issued'[s][d])
        BY <1>6, <3>2, <3>4
      <4>2. Shares(s, d, e, f, b, g)'
        BY <3>2, <3>3, <4>1 DEF Shares
      <4> QED BY <4>2, SharesPipeline
    <3>5. CASE s = p /\ d = q
      <4>1. e = h /\ f = h /\ b = h /\ g = h
        BY <1>7, <2>3, <3>2, <3>5 DEF l, h
      <4>2. PICK k \in Nat : k = h + 1
        BY <1>7
      <4>3. /\ Carries(WorkSeq(s, d)', k, k) /\ Carries(WireSeq(s, d)', k, k)
            /\ Carries(SendSeq(s, d)', k, k)
        BY <3>3, <4>1, CarriesNone
      <4>4. k = Len(landed'[s][d]) /\ k = Len(issued'[s][d])
        BY <1>7, <2>3, <2>4, <3>5, <4>2
      <4>5. Shares(s, d, k, k, k, k)'
        BY <4>3, <4>4 DEF Shares
      <4> QED BY <4>5, SharesPipeline
    <3> QED BY <3>4, <3>5
  <2> QED BY <1>14, <1>15, <2>2, <2>5, <2>6 DEF Flow
<1>17. CASE ~Local(p, q)
  <2>1. comm_thread_enqueue(p, q, put)
    BY <1>4, <1>17 DEF comm_put, comm_remote_put
  <2>2. GenuineInv'
    <3> DEFINE en == [pe |-> q, packet |-> put]
    <3>1. en \in Entry /\ en.pe = q /\ en.packet = put
      BY DEF Entry
    <3>2. Genuine(p, q, put)'
      BY <1>4, <1>7 DEF Genuine, h
    <3>3. en \in TrueEntry(p)'
      BY <3>1, <3>2 DEF TrueEntry, Entry, Put
    <3>4. queue_send \in [PE -> Seq(Entry)] /\ queue_send' = [queue_send EXCEPT ![p] = Append(queue_send[p], en)]
      BY <2>1, SeqTypes DEF comm_thread_enqueue
    <3> HIDE DEF en
    <3>5. queue_send[p] \in Seq(TrueEntry(p)')
      BY <1>9, <1>10
    <3>6. Append(queue_send[p], en) \in Seq(TrueEntry(p)')
      BY <3>3, <3>5, AppendFacts
    <3>7. \A s \in PE : queue_send'[s] \in Seq(TrueEntry(s)')
      BY <1>9, <1>10, <3>4, <3>6
    <3> QED BY <1>11, <3>7 DEF GenuineInv
  <2>3. LogInv(p, q)'
    <3>1. ASSUME NEW n \in DOMAIN landed'[p][q]
          PROVE  n \in DOMAIN issued'[p][q] /\ landed'[p][q][n] = issued'[p][q][n]
      <4>1. n \in DOMAIN landed[p][q] /\ landed'[p][q][n] = landed[p][q][n]
        BY <1>6, <1>17
      <4>2. n \in DOMAIN issued[p][q] /\ landed[p][q][n] = issued[p][q][n]
        BY <1>13, <4>1 DEF LogInv
      <4> QED BY <1>7, <4>1, <4>2
    <3> QED BY <1>12, <1>17, <3>1 DEF LogInv
  <2>4. ASSUME NEW s \in PE, NEW d \in PE PROVE Pipeline(s, d)'
    <3>1. PICK e \in Nat, f \in Nat, b \in Nat, g \in Nat : Shares(s, d, e, f, b, g)
      BY <1>13, PipelineShares
    <3>2. /\ e <= f /\ f <= b /\ b <= g
          /\ e = Len(landed[s][d]) /\ g = Len(issued[s][d])
          /\ Carries(WorkSeq(s, d), e, f) /\ Carries(WireSeq(s, d), f, b) /\ Carries(SendSeq(s, d), b, g)
      BY <3>1 DEF Shares
    <3>3. /\ Carries(WorkSeq(s, d)', e, f) /\ Carries(WireSeq(s, d)', f, b)
      BY <3>2, SameSeqs DEF WorkKept
    <3>4. e = Len(landed'[s][d])
      BY <1>6, <1>17, <3>2
    <3>5. /\ s # p \/ d # q => Carries(SendSeq(s, d)', b, g)
          /\ s = p /\ d = q /\ put.seq = g + 1 => Carries(SendSeq(s, d)', b, g + 1)
      BY <2>1, <3>2, SendGrow
    <3>6. CASE s # p \/ d # q
      <4>1. g = Len(issued'[s][d])
        BY <1>6, <3>2, <3>6
      <4>2. Shares(s, d, e, f, b, g)'
        BY <3>2, <3>3, <3>4, <3>5, <3>6, <4>1 DEF Shares
      <4> QED BY <4>2, SharesPipeline
    <3>7. CASE s = p /\ d = q
      <4>1. g = h /\ put.seq = g + 1
        BY <1>4, <3>2, <3>7 DEF h
      <4>2. PICK k \in Nat : k = g + 1
        OBVIOUS
      <4>3. Carries(SendSeq(s, d)', b, k) /\ b <= k
        BY <3>2, <3>5, <3>7, <4>1, <4>2, SMTT(60)
      <4>4. k = Len(issued'[s][d])
        BY <1>7, <3>7, <4>1, <4>2
      <4>5. Shares(s, d, e, f, b, k)'
        BY <3>2, <3>3, <3>4, <4>3, <4>4 DEF Shares
      <4> QED BY <4>5, SharesPipeline
    <3> QED BY <3>6, <3>7
  <2> QED BY <1>14, <1>15, <2>2, <2>3, <2>4 DEF Flow
<1> QED BY <1>16, <1>17

(* A step that leaves the work queues alone.                               *)
LEMMA WorkSame == ASSUME UNCHANGED work_queue PROVE WorkKept
<1>1. \A s, d \in PE : WorkSeq(s, d)' = WorkSeq(s, d)
  BY SameSeqs
<1> QED BY <1>1 DEF WorkKept

(* Queueing an own job.                                                    *)
LEMMA OwnEnqueued ==
  ASSUME TypeOK, NEW p \in PE, NEW job \in OwnJob, work_thread_enqueue(p, job)
  PROVE  WorkKept
<1>1. job \in Job /\ job \notin PacketJob /\ job \in TrueJob(p)
  BY JobKinds DEF Job, TrueJob
<1>2. work_queue \in [PE -> Seq(Job)] /\ work_queue' = [work_queue EXCEPT ![p] = Append(work_queue[p], job)]
  BY SeqTypes DEF work_thread_enqueue
<1>3. ASSUME NEW d \in PE, work_queue[d] \in Seq(TrueJob(d)) PROVE work_queue'[d] \in Seq(TrueJob(d))
  <2>1. CASE d = p
    <3>1. work_queue'[d] = Append(work_queue[d], job) /\ job \in TrueJob(d)
      BY <1>1, <1>2, <2>1
    <3>2. Append(work_queue[d], job) \in Seq(TrueJob(d))
      BY <1>3, <3>1, AppendFacts
    <3> QED BY <3>1, <3>2
  <2>2. CASE d # p
    BY <1>2, <1>3, <2>2
  <2> QED BY <2>1, <2>2
<1>4. ASSUME NEW s \in PE, NEW d \in PE, NEW lo \in Nat, NEW hi \in Nat, lo <= hi,
             Carries(WorkSeq(s, d), lo, hi)
      PROVE  Carries(WorkSeq(s, d)', lo, hi)
  BY <1>1, <1>4, WorkGrow
<1> QED BY <1>3, <1>4 DEF WorkKept

(* Taking a job leaves genuine ones.                                       *)
LEMMA DequeueTrue ==
  ASSUME TypeOK, NEW p \in PE, work_queue[p] # << >>, work_thread_dequeue(p),
         NEW d \in PE, work_queue[d] \in Seq(TrueJob(d))
  PROVE  work_queue'[d] \in Seq(TrueJob(d)) /\ (d = p => Head(work_queue[p]) \in TrueJob(p))
<1>1. work_queue \in [PE -> Seq(Job)] /\ work_queue' = [work_queue EXCEPT ![p] = Tail(work_queue[p])]
  BY SeqTypes DEF work_thread_dequeue
<1>2. CASE d = p
  <2>1. work_queue'[d] = Tail(work_queue[d]) /\ work_queue[d] # << >>
    BY <1>1, <1>2
  <2>2. Tail(work_queue[d]) \in Seq(TrueJob(d)) /\ Head(work_queue[d]) \in TrueJob(d)
    BY <2>1, QueueFacts
  <2> QED BY <1>2, <2>1, <2>2
<1>3. CASE d # p
  BY <1>1, <1>3
<1> QED BY <1>2, <1>3

(* Taking an own job.                                                      *)
LEMMA OwnDequeued ==
  ASSUME TypeOK, NEW p \in PE, work_queue[p] # << >>, work_thread_dequeue(p),
         NEW job \in OwnJob, job = Head(work_queue[p])
  PROVE  WorkKept
<1>1. job \in Job /\ job \notin PacketJob
  BY JobKinds DEF Job
<1>2. ASSUME NEW d \in PE, work_queue[d] \in Seq(TrueJob(d)) PROVE work_queue'[d] \in Seq(TrueJob(d))
  BY <1>2, DequeueTrue
<1>3. ASSUME NEW s \in PE, NEW d \in PE, NEW lo \in Nat, NEW hi \in Nat, lo <= hi,
             Carries(WorkSeq(s, d), lo, hi)
      PROVE  Carries(WorkSeq(s, d)', lo, hi)
  BY <1>1, <1>3, WorkDrop
<1> QED BY <1>2, <1>3 DEF WorkKept

(* A step that moves no put keeps Flow.                                    *)
LEMMA QuietFlow ==
  ASSUME TypeOK, TypeOK', Flow, WorkKept, UNCHANGED <<host, queue_send, wire, issued, landed>>
  PROVE  Flow'
<1>1. \A s, d \in PE : Kept(s, d)
  BY DEF Kept
<1>2. /\ \A s \in PE : \A u \in Seq(TrueEntry(s)) : u \in Seq(TrueEntry(s)')
      /\ \A s, d \in PE : \A u \in Seq(TrueCell(s, d)) : u \in Seq(TrueCell(s, d)')
      /\ \A d \in PE : \A u \in Seq(TrueJob(d)) : u \in Seq(TrueJob(d)')
  BY <1>1, GenuineKept
<1>3. GenuineInv'
  BY <1>2 DEF Flow, GenuineInv, WorkKept
<1>4. ASSUME NEW s \in PE, NEW d \in PE PROVE Framed(wire'[s][d]) /\ LogInv(s, d)' /\ Pipeline(s, d)'
  <2>1. Framed(wire[s][d]) /\ LogInv(s, d) /\ Pipeline(s, d)
    BY DEF Flow
  <2>2. Framed(wire'[s][d]) /\ LogInv(s, d)'
    BY <2>1 DEF LogInv, Local
  <2>3. PICK e \in Nat, f \in Nat, b \in Nat, g \in Nat : Shares(s, d, e, f, b, g)
    BY <2>1, PipelineShares
  <2>4. /\ e <= f /\ f <= b /\ b <= g
        /\ e = Len(landed[s][d]) /\ g = Len(issued[s][d])
        /\ Carries(WorkSeq(s, d), e, f) /\ Carries(WireSeq(s, d), f, b) /\ Carries(SendSeq(s, d), b, g)
    BY <2>3 DEF Shares
  <2>5. /\ Carries(WorkSeq(s, d)', e, f) /\ Carries(WireSeq(s, d)', f, b)
        /\ Carries(SendSeq(s, d)', b, g)
    BY <2>4, SameSeqs DEF WorkKept
  <2>6. Shares(s, d, e, f, b, g)'
    BY <2>4, <2>5 DEF Shares
  <2> QED BY <2>2, <2>6, SharesPipeline
<1> QED BY <1>3, <1>4 DEF Flow

(* Executing a received packet keeps Flow: what lands is the next put of   *)
(* its pair.                                                               *)
LEMMA LandFlow ==
  ASSUME TypeOK, TypeOK', Flow, NEW p \in PE, work_queue[p] # << >>, work_thread_dequeue(p),
         NEW job \in PacketJob, job = Head(work_queue[p]),
         landed' = [landed EXCEPT ![job.origin_pe][p] = Append(@, job.data_buf)],
         UNCHANGED <<host, queue_send, wire, issued>>
  PROVE  Flow'
<1>1. job \in Job /\ job.origin_pe \in PE /\ job.data_buf \in Put
  BY DEF Job, PacketJob
<1>2. PICK q \in PE, put \in Put : q = job.origin_pe /\ put = job.data_buf
  BY <1>1
<1>3. landed' = [landed EXCEPT ![q][p] = Append(landed[q][p], put)]
  BY <1>2
<1>4. \A s, d \in PE : Kept(s, d)
  BY DEF Kept
<1>5. /\ \A s \in PE : \A u \in Seq(TrueEntry(s)) : u \in Seq(TrueEntry(s)')
      /\ \A s, d \in PE : \A u \in Seq(TrueCell(s, d)) : u \in Seq(TrueCell(s, d)')
      /\ \A d \in PE : \A u \in Seq(TrueJob(d)) : u \in Seq(TrueJob(d)')
  BY <1>4, GenuineKept
<1>6. /\ \A s \in PE : queue_send[s] \in Seq(TrueEntry(s))
      /\ \A s, d \in PE : wire[s][d] \in Seq(TrueCell(s, d))
      /\ \A d \in PE : work_queue[d] \in Seq(TrueJob(d))
  BY DEF Flow, GenuineInv
<1>7. \A d \in PE : work_queue'[d] \in Seq(TrueJob(d))
  BY <1>6, DequeueTrue
<1>8. GenuineInv'
  BY <1>5, <1>6, <1>7 DEF GenuineInv
<1>9. Genuine(q, p, put)
  <2>1. job \in TrueJob(p)
    BY <1>6, DequeueTrue
  <2> QED BY <1>2, <2>1 DEF TrueJob
<1>10. \A s, d \in PE : Framed(wire[s][d]) /\ LogInv(s, d) /\ Pipeline(s, d)
  BY DEF Flow
<1>11. landed \in [PE -> [PE -> Seq(Put)]]
  BY LogTypes, SMTT(60) DEF LogType
<1>12. /\ landed'[q][p] = Append(landed[q][p], put) /\ landed[q][p] \in Seq(Put)
       /\ \A s, d \in PE : s # q \/ d # p => landed'[s][d] = landed[s][d]
  BY <1>3, <1>11, SMTT(60)
<1>13. PICK x \in Nat : x = Len(landed[q][p])
  BY LogTypes
<1>14. /\ DOMAIN landed[q][p] = 1 .. x /\ DOMAIN landed'[q][p] = 1 .. x + 1
       /\ Len(landed'[q][p]) = x + 1 /\ landed'[q][p][x + 1] = put
       /\ \A n \in DOMAIN landed[q][p] : landed'[q][p][n] = landed[q][p][n]
  <2>1. PICK u \in Seq(Put) : u = landed[q][p]
    BY <1>12
  <2>2. /\ DOMAIN u = 1 .. Len(u) /\ DOMAIN Append(u, put) = 1 .. Len(u) + 1
        /\ Len(Append(u, put)) = Len(u) + 1 /\ Append(u, put)[Len(u) + 1] = put
        /\ \A n \in DOMAIN u : Append(u, put)[n] = u[n]
    BY AppendFacts
  <2> QED BY <1>12, <1>13, <2>1, <2>2, ZenonT(60)
<1>15. PICK e \in Nat, f \in Nat, b \in Nat, g \in Nat : Shares(q, p, e, f, b, g)
  BY <1>10, PipelineShares
<1>16. /\ e <= f /\ f <= b /\ b <= g
       /\ e = Len(landed[q][p]) /\ g = Len(issued[q][p])
       /\ Carries(WorkSeq(q, p), e, f) /\ Carries(WireSeq(q, p), f, b) /\ Carries(SendSeq(q, p), b, g)
  BY <1>15 DEF Shares
<1>17. put.seq = e + 1 /\ e + 1 <= f /\ Carries(WorkSeq(q, p)', e + 1, f)
  <2>0. Carries(WorkSeq(q, p), e, f)
    BY <1>16
  <2>1. p = p /\ job \in PacketJob /\ job.origin_pe = q =>
          job.data_buf.seq = e + 1 /\ e + 1 <= f /\ Carries(WorkSeq(q, p)', e + 1, f)
    BY <1>1, <2>0, WorkDrop, ZenonT(60)
  <2> QED BY <1>2, <2>1
<1>18. x = e
  BY <1>13, <1>16
<1>19. Pipeline(q, p)'
  <2>1. PICK k \in Nat : k = e + 1
    OBVIOUS
  <2>2. Carries(WireSeq(q, p)', f, b) /\ Carries(SendSeq(q, p)', b, g)
    BY <1>16, SameSeqs
  <2>3. k = Len(landed'[q][p]) /\ g = Len(issued'[q][p])
    BY <1>14, <1>16, <1>18, <2>1
  <2>4. k <= f /\ Carries(WorkSeq(q, p)', k, f)
    BY <1>17, <2>1, SMTT(60)
  <2>5. Shares(q, p, k, f, b, g)'
    BY <1>16, <2>2, <2>3, <2>4, ZenonT(60) DEF Shares
  <2> QED BY <2>5, SharesPipeline
<1>20. LogInv(q, p)'
  <2>0. LogInv(q, p)
    BY <1>10
  <2>1. ASSUME NEW n \in DOMAIN landed'[q][p]
        PROVE  n \in DOMAIN issued[q][p] /\ landed'[q][p][n] = issued[q][p][n]
    <3>0. n \in 1 .. x + 1
      <4>1. DOMAIN landed'[q][p] = 1 .. x + 1
        BY <1>14
      <4> QED BY <2>1, <4>1, Zenon
    <3>1. CASE n = x + 1
      BY <1>9, <1>14, <1>17, <1>18, <3>1, ZenonT(60) DEF Genuine
    <3>2. CASE n # x + 1
      <4>0. n \in 1 .. x
        BY <3>0, <3>2, SMTT(60)
      <4>1. n \in DOMAIN landed[q][p]
        <5>1. DOMAIN landed[q][p] = 1 .. x
          BY <1>14
        <5> QED BY <4>0, <5>1, ZenonT(60)
      <4> QED BY <1>14, <2>0, <4>1 DEF LogInv
    <3> QED BY <3>1, <3>2
  <2>2. ~Local(q, p)
    <3>1. Local(q, p) => e = g
      BY <1>16, <2>0 DEF LogInv
    <3> QED BY <1>16, <1>17, <3>1, SMTT(60)
  <2> QED BY <2>1, <2>2 DEF LogInv, Local
<1>21. ASSUME NEW s \in PE, NEW d \in PE, s # q \/ d # p PROVE LogInv(s, d)' /\ Pipeline(s, d)'
  <2>1. landed'[s][d] = landed[s][d] /\ LogInv(s, d)
    BY <1>10, <1>12, <1>21, ZenonT(60)
  <2>2. LogInv(s, d)'
    BY <2>1 DEF LogInv, Local
  <2>3. PICK l \in Nat, a \in Nat, c \in Nat, h \in Nat : Shares(s, d, l, a, c, h)
    BY <1>10, PipelineShares
  <2>4. /\ l <= a /\ a <= c /\ c <= h
        /\ l = Len(landed[s][d]) /\ h = Len(issued[s][d])
        /\ Carries(WorkSeq(s, d), l, a) /\ Carries(WireSeq(s, d), a, c) /\ Carries(SendSeq(s, d), c, h)
    BY <2>3 DEF Shares
  <2>5. Carries(WireSeq(s, d)', a, c) /\ Carries(SendSeq(s, d)', c, h)
    BY <2>4, SameSeqs
  <2>6. Carries(WorkSeq(s, d)', l, a)
    BY <1>1, <1>2, <1>21, <2>4, WorkDrop, SMTT(60)
  <2>7. Shares(s, d, l, a, c, h)'
    BY <2>1, <2>4, <2>5, <2>6 DEF Shares
  <2> QED BY <2>2, <2>7, SharesPipeline, SMTT(60)
<1> QED BY <1>8, <1>10, <1>19, <1>20, <1>21 DEF Flow

(* Send keeps Flow: a packet that fits moves from the send queue to the    *)
(* socket.                                                                 *)
LEMMA SendFlow ==
  ASSUME TypeOK, TypeOK', Flow, WritesFit, NEW p \in PE, Send(p)
  PROVE  Flow'
<1> DEFINE x == Head(queue_send[p])
<1>1. /\ queue_send[p] # << >> /\ comm_thread_dequeue(p)
      /\ network_send(p, x.pe, [n \in 1 .. 3 |-> [part |-> n, packet |-> x.packet]])
      /\ UNCHANGED <<host, work_queue, issued, landed>> /\ ct[p] = "send"
  BY DEF Send, logs
<1>2. Len(wire[p][x.pe]) + 3 <= SockCap
  BY <1>1 DEF WritesFit
<1>3. /\ \A s \in PE : queue_send[s] \in Seq(TrueEntry(s))
      /\ \A s, d \in PE : wire[s][d] \in Seq(TrueCell(s, d))
      /\ \A d \in PE : work_queue[d] \in Seq(TrueJob(d))
  BY DEF Flow, GenuineInv
<1>4. x \in TrueEntry(p) /\ Tail(queue_send[p]) \in Seq(TrueEntry(p))
  BY <1>1, <1>3, QueueFacts
<1>5. x.pe \in PE /\ x.packet \in Put /\ Genuine(p, x.pe, x.packet)
  BY <1>4 DEF TrueEntry, Entry
<1>6. PICK q \in PE, put \in Put : q = x.pe /\ put = x.packet
  BY <1>5
<1>7. /\ network_send(p, q, [n \in 1 .. 3 |-> [part |-> n, packet |-> put]])
      /\ Genuine(p, q, put) /\ Len(wire[p][q]) + 3 <= SockCap
  BY <1>1, <1>2, <1>5, <1>6
<1>8. PICK c \in Seq(Cell) : Wrote(p, q, put, c)
  BY <1>7, SentCells
<1>9. Len(c) = 3
  BY <1>7, <1>8 DEF Wrote
<1>10. /\ wire' = [wire EXCEPT ![p][q] = wire[p][q] \o c] /\ wire \in [PE -> [PE -> Seq(Cell)]]
       /\ \A n \in DOMAIN c : c[n] = [part |-> n, packet |-> put]
       /\ DOMAIN c = 1 .. Len(c)
  BY <1>8, SeqTypes DEF Wrote
<1>11. \A s, d \in PE : Kept(s, d)
  BY <1>1 DEF Kept
<1>12. /\ \A s \in PE : \A u \in Seq(TrueEntry(s)) : u \in Seq(TrueEntry(s)')
       /\ \A s, d \in PE : \A u \in Seq(TrueCell(s, d)) : u \in Seq(TrueCell(s, d)')
       /\ \A d \in PE : \A u \in Seq(TrueJob(d)) : u \in Seq(TrueJob(d)')
  BY <1>11, GenuineKept
<1>13. \A s \in PE : queue_send'[s] \in Seq(TrueEntry(s))
  <2>1. queue_send \in [PE -> Seq(Entry)] /\ queue_send' = [queue_send EXCEPT ![p] = Tail(queue_send[p])]
    BY <1>1, SeqTypes DEF comm_thread_dequeue
  <2> QED BY <1>3, <1>4, <2>1
<1>14. \A s, d \in PE : wire'[s][d] \in Seq(TrueCell(s, d))
  <2>1. c \in Seq(TrueCell(p, q))
    <3>1. ASSUME NEW n \in DOMAIN c PROVE c[n] \in TrueCell(p, q)
      <4>1. c[n] \in Cell /\ c[n].packet = put
        <5>1. c[n] = [part |-> n, packet |-> put]
          BY <1>10, Zenon
        <5>2. c[n] \in Cell
          BY <1>10, ElementOfSeq
        <5> QED BY <5>1, <5>2
      <4> QED BY <1>7, <4>1 DEF TrueCell
    <3>2. Len(c) \in Nat /\ c \in [1 .. Len(c) -> Cell]
      BY LenProperties
    <3>3. c \in [1 .. Len(c) -> TrueCell(p, q)]
      BY <3>1, <3>2
    <3> QED BY <3>2, <3>3, SeqDef
  <2>2. wire[p][q] \o c \in Seq(TrueCell(p, q))
    BY <1>3, <2>1, ConcatProperties
  <2> QED BY <1>3, <1>10, <2>2
<1>15. GenuineInv'
  BY <1>1, <1>3, <1>12, <1>13, <1>14 DEF GenuineInv
<1>16. ASSUME NEW s \in PE, NEW d \in PE PROVE Framed(wire'[s][d]) /\ LogInv(s, d)' /\ Pipeline(s, d)'
  <2>1. Framed(wire[s][d]) /\ LogInv(s, d) /\ Pipeline(s, d)
    BY DEF Flow
  <2>2. LogInv(s, d)'
    BY <1>1, <2>1 DEF LogInv, Local
  <2>3. PICK e \in Nat, f \in Nat, b \in Nat, g \in Nat : Shares(s, d, e, f, b, g)
    BY <2>1, PipelineShares
  <2>4. /\ e <= f /\ f <= b /\ b <= g
        /\ e = Len(landed[s][d]) /\ g = Len(issued[s][d])
        /\ Carries(WorkSeq(s, d), e, f) /\ Carries(WireSeq(s, d), f, b) /\ Carries(SendSeq(s, d), b, g)
    BY <2>3 DEF Shares
  <2>5. Carries(WorkSeq(s, d)', e, f)
    BY <1>1, <2>4, SameSeqs
  <2>6. /\ s # p \/ d # q => Carries(SendSeq(s, d)', b, g)
        /\ s = p /\ d = q => put.seq = b + 1 /\ b + 1 <= g /\ Carries(SendSeq(s, d)', b + 1, g)
    <3>1. /\ s # p \/ d # x.pe => Carries(SendSeq(s, d)', b, g)
          /\ s = p /\ d = x.pe => x.packet.seq = b + 1 /\ b + 1 <= g /\ Carries(SendSeq(s, d)', b + 1, g)
      BY <1>1, <2>4, SendDrop, SMTT(60)
    <3> QED BY <1>6, <3>1
  <2>7. /\ Framed(wire'[s][d])
        /\ s # p \/ d # q => Carries(WireSeq(s, d)', f, b)
        /\ s = p /\ d = q /\ put.seq = b + 1 => Carries(WireSeq(s, d)', f, b + 1)
    BY <1>8, <1>9, <2>1, <2>4, WireGrow
  <2>8. CASE s # p \/ d # q
    <3>1. Shares(s, d, e, f, b, g)'
      BY <1>1, <2>4, <2>5, <2>6, <2>7, <2>8 DEF Shares
    <3> QED BY <2>2, <2>7, <3>1, SharesPipeline
  <2>9. CASE s = p /\ d = q
    <3>1. PICK k \in Nat : k = b + 1
      OBVIOUS
    <3>2. /\ Carries(SendSeq(s, d)', k, g) /\ Carries(WireSeq(s, d)', f, k) /\ f <= k /\ k <= g
      BY <2>4, <2>6, <2>7, <2>9, <3>1
    <3>3. Shares(s, d, e, f, k, g)'
      BY <1>1, <2>4, <2>5, <3>2 DEF Shares
    <3> QED BY <2>2, <2>7, <3>3, SharesPipeline
  <2> QED BY <2>8, <2>9
<1> QED BY <1>15, <1>16 DEF Flow

(* With whole packets in the socket and no split reads,                    *)
(* __comm_thread_receive only ever reads one whole packet.                 *)
LEMMA WholePackets ==
  ASSUME TypeOK, ~Splits, NEW p \in PE, NEW s \in PE, Framed(wire[s][p])
  PROVE  /\ ~ReceiveBadPacket(p, s) /\ ~ReceiveMisframed(p, s)
         /\ ReceivePacket(p, s) =>
              /\ wire[s][p] # << >> /\ network_receive(p, s, 3)
              /\ work_thread_enqueue(p, [handler |-> "PUT", origin_pe |-> s, dest_pe |-> p,
                                         data_buf |-> wire[s][p][1].packet])
<1> DEFINE w == wire[s][p]
<1>1. w \in Seq(Cell) /\ Framed(w) /\ Len(w) \in Nat
  BY SeqTypes, LenProperties
<1>2. w # << >> => /\ 3 <= Len(w) /\ w[1].part = 1 /\ w[2].part = 2 /\ w[3].part = 3
                   /\ w[1] \in Cell
  BY <1>1, FramedHead
<1>3. Len(w) >= 1 => w # << >>
  BY <1>1, EmptySeq
<1> HIDE DEF w
<1>4. ~ReceiveBadPacket(p, s)
  <2> SUFFICES ASSUME ReceiveBadPacket(p, s) PROVE FALSE
    OBVIOUS
  <2>1. w # << >> /\ Len(w) = 1
    BY DEF ReceiveBadPacket, w
  <2> QED BY <1>2, <2>1
<1>5. ~ReceiveMisframed(p, s)
  <2> SUFFICES ASSUME ReceiveMisframed(p, s) PROVE FALSE
    OBVIOUS
  <2>1. Len(w) >= 2 /\ ~IsHeader(w)
    BY DEF ReceiveMisframed, w
  <2>2. w # << >>
    BY <1>1, <1>3, <2>1
  <2> QED BY <1>1, <1>2, <2>1, <2>2 DEF IsHeader
<1>6. ASSUME ReceivePacket(p, s)
      PROVE  /\ w # << >> /\ network_receive(p, s, 3)
             /\ work_thread_enqueue(p, [handler |-> "PUT", origin_pe |-> s, dest_pe |-> p,
                                        data_buf |-> w[1].packet])
  <2> DEFINE Made(v) == work_put_remote(p, s, [w[1].packet EXCEPT !.val = v])
  <2>1. /\ IsHeader(w)
        /\ \/ Made(w[1].packet.val) /\ network_receive(p, s, 3)
           \/ Len(w) = 2
           \/ Len(w) >= 3 /\ ~(Len(w) >= 3 /\ w[3].part = 3)
    BY <1>6 DEF ReceivePacket, w
  <2>2. Len(w) >= 2
    BY <2>1 DEF IsHeader
  <2>3. w # << >>
    BY <1>1, <1>3, <2>2
  <2>4. 3 <= Len(w) /\ w[3].part = 3 /\ w[1] \in Cell
    BY <1>2, <2>3
  <2>5. Len(w) # 2 /\ ~(Len(w) >= 3 /\ ~(Len(w) >= 3 /\ w[3].part = 3))
    BY <1>1, <2>4
  <2>6. Made(w[1].packet.val) /\ network_receive(p, s, 3)
    BY <2>1, <2>5
  <2>7. PICK put \in Put : put = w[1].packet
    BY <2>4 DEF Cell
  <2>8. [put EXCEPT !.val = put.val] = put
    BY DEF Put
  <2>9. work_put_remote(p, s, w[1].packet)
    BY <2>6, <2>7, <2>8
  <2> QED BY <2>3, <2>6, <2>9 DEF work_put_remote
<1> QED BY <1>4, <1>5, <1>6 DEF w

(* ReceivePacket keeps Flow: the packet moves from the socket to the work  *)
(* queue.                                                                  *)
LEMMA ReceiveFlow ==
  ASSUME TypeOK, TypeOK', Flow, ~Splits, NEW p \in PE, NEW q \in PE, ReceivePacket(p, q)
  PROVE  Flow'
<1> DEFINE w == wire[q][p]
<1>1. /\ \A s \in PE : queue_send[s] \in Seq(TrueEntry(s))
      /\ \A s, d \in PE : wire[s][d] \in Seq(TrueCell(s, d))
      /\ \A d \in PE : work_queue[d] \in Seq(TrueJob(d))
      /\ \A s, d \in PE : Framed(wire[s][d]) /\ LogInv(s, d) /\ Pipeline(s, d)
  BY DEF Flow, GenuineInv
<1>2. /\ w # << >> /\ network_receive(p, q, 3)
      /\ work_thread_enqueue(p, [handler |-> "PUT", origin_pe |-> q, dest_pe |-> p,
                                 data_buf |-> w[1].packet])
  BY <1>1, WholePackets
<1>3. UNCHANGED <<host, queue_send, issued, landed>>
  BY DEF ReceivePacket, Polls, logs
<1>4. wire \in [PE -> [PE -> Seq(Cell)]] /\ w \in Seq(Cell) /\ w \in Seq(TrueCell(q, p)) /\ Framed(w)
  BY <1>1, SeqTypes
<1>5. 3 <= Len(w) /\ Len(w) \in Nat /\ DOMAIN w = 1 .. Len(w) /\ 1 \in DOMAIN w
  BY <1>2, <1>4, FramedHead
<1>6. w[1] \in TrueCell(q, p)
  BY <1>4, <1>5, ElementOfSeq
<1>7. w[1].packet \in Put /\ Genuine(q, p, w[1].packet)
  BY <1>6 DEF TrueCell, Cell
<1> HIDE DEF w
<1>8. PICK put \in Put : put = w[1].packet
  BY <1>7
<1> DEFINE x == [handler |-> "PUT", origin_pe |-> q, dest_pe |-> p, data_buf |-> put]
<1>9. x \in PacketJob /\ x.origin_pe = q /\ x.data_buf = put /\ work_thread_enqueue(p, x)
  BY <1>2, <1>8 DEF PacketJob
<1> HIDE DEF x
<1>10. PICK job \in PacketJob : job = x
  BY <1>9
<1>11. job \in Job /\ job.origin_pe = q /\ job.data_buf = put /\ work_thread_enqueue(p, job)
  BY <1>9, <1>10 DEF Job
<1>12. job \in TrueJob(p)
  BY <1>7, <1>8, <1>11 DEF TrueJob
<1>13. \A d \in PE : work_queue'[d] \in Seq(TrueJob(d))
  <2>1. work_queue \in [PE -> Seq(Job)] /\ work_queue' = [work_queue EXCEPT ![p] = Append(work_queue[p], job)]
    BY <1>11, SeqTypes DEF work_thread_enqueue
  <2>2. Append(work_queue[p], job) \in Seq(TrueJob(p))
    BY <1>1, <1>12, AppendFacts
  <2> QED BY <1>1, <2>1, <2>2
<1>14. \A s, d \in PE : wire'[s][d] \in Seq(TrueCell(s, d))
  <2>1. PICK m \in Nat : m = 3
    OBVIOUS
  <2>2. wire' = [wire EXCEPT ![q][p] = SubSeq(w, m + 1, Len(w))]
    BY <1>2, <2>1 DEF network_receive, w
  <2>3. m <= Len(w)
    BY <1>5, <2>1
  <2>4. SubSeq(w, m + 1, Len(w)) \in Seq(TrueCell(q, p))
    BY <1>4, <2>3, SuffixFacts
  <2> QED BY <1>1, <1>4, <2>2, <2>4
<1>15. \A s, d \in PE : Kept(s, d)
  BY <1>3 DEF Kept
<1>16. /\ \A s \in PE : \A u \in Seq(TrueEntry(s)) : u \in Seq(TrueEntry(s)')
       /\ \A s, d \in PE : \A u \in Seq(TrueCell(s, d)) : u \in Seq(TrueCell(s, d)')
       /\ \A d \in PE : \A u \in Seq(TrueJob(d)) : u \in Seq(TrueJob(d)')
  BY <1>15, GenuineKept
<1>17. GenuineInv'
  BY <1>1, <1>3, <1>13, <1>14, <1>16 DEF GenuineInv
<1>18. ASSUME NEW s \in PE, NEW d \in PE PROVE Framed(wire'[s][d]) /\ LogInv(s, d)' /\ Pipeline(s, d)'
  <2>1. Framed(wire[s][d]) /\ LogInv(s, d) /\ Pipeline(s, d)
    BY <1>1
  <2>2. LogInv(s, d)'
    BY <1>3, <2>1 DEF LogInv, Local
  <2>3. PICK e \in Nat, f \in Nat, b \in Nat, g \in Nat : Shares(s, d, e, f, b, g)
    BY <2>1, PipelineShares
  <2>4. /\ e <= f /\ f <= b /\ b <= g
        /\ e = Len(landed[s][d]) /\ g = Len(issued[s][d])
        /\ Carries(WorkSeq(s, d), e, f) /\ Carries(WireSeq(s, d), f, b) /\ Carries(SendSeq(s, d), b, g)
    BY <2>3 DEF Shares
  <2>5. Carries(SendSeq(s, d)', b, g)
    BY <1>3, <2>4, SameSeqs
  <2>6. /\ Framed(wire'[s][d])
        /\ s # q \/ d # p => Carries(WireSeq(s, d)', f, b)
        /\ s = q /\ d = p => /\ w[1].packet.seq = f + 1 /\ f + 1 <= b
                             /\ Carries(WireSeq(s, d)', f + 1, b)
    BY <1>2, <1>4, <2>1, <2>4, WireDrop DEF w
  <2>7. /\ d # p \/ job \notin PacketJob \/ job.origin_pe # s => Carries(WorkSeq(s, d)', e, f)
        /\ d = p /\ job \in PacketJob /\ job.origin_pe = s /\ job.data_buf.seq = f + 1 =>
             Carries(WorkSeq(s, d)', e, f + 1)
    BY <1>11, <2>4, WorkGrow
  <2>8. CASE s # q \/ d # p
    <3>1. Carries(WorkSeq(s, d)', e, f) /\ Carries(WireSeq(s, d)', f, b)
      BY <1>11, <2>6, <2>7, <2>8
    <3>2. Shares(s, d, e, f, b, g)'
      BY <1>3, <2>4, <2>5, <3>1 DEF Shares
    <3> QED BY <2>2, <2>6, <3>2, SharesPipeline
  <2>9. CASE s = q /\ d = p
    <3>1. PICK k \in Nat : k = f + 1
      OBVIOUS
    <3>2. Carries(WorkSeq(s, d)', e, k) /\ Carries(WireSeq(s, d)', k, b) /\ e <= k /\ k <= b
      BY <1>8, <1>11, <2>4, <2>6, <2>7, <2>9, <3>1
    <3>3. Shares(s, d, e, k, b, g)'
      BY <1>3, <2>4, <2>5, <3>2 DEF Shares
    <3> QED BY <2>2, <2>6, <3>3, SharesPipeline
  <2> QED BY <2>8, <2>9
<1> QED BY <1>17, <1>18 DEF Flow

(* Every step of the main thread keeps Flow.                               *)
LEMMA MainFlow == ASSUME SInv, TypeOK', Flow, NEW p \in PE, MainThread(p) PROVE Flow'
<1>1. TypeOK /\ TInv /\ UNCHANGED host
  BY DEF SInv, TInv, MainThread, Store, shmem_putmem, shmem_getmem, shmem_nbi, shmem_quiet, RootEnter,
         RootPoll, RootReset, RootGathered, RootRelease, RootReturn, LeafEnter, LeafPoll, LeafReset,
         SetFinished, Join, Release
<1>2. CASE UNCHANGED <<queue_send, wire, work_queue, issued, landed>>
  BY <1>1, <1>2, WorkSame, QuietFlow
<1>3. ASSUME UNCHANGED <<wire, work_queue>>,
             NEW q \in PE, NEW s \in PE, NEW a \in Addr, NEW v \in Value, Issue(s, q, a, v)
      PROVE  Flow'
  BY <1>1, <1>3, WorkSame, IssueFlow
<1>4. CASE shmem_putmem(p)
  <2> DEFINE c == Head(prog[p])
  <2>1. prog[p] # << >> /\ UNCHANGED <<wire, work_queue>> /\ Issue(p, c.pe, c.dest, mem[p][c.src])
    BY <1>4 DEF shmem_putmem, Calls
  <2>2. c.dest \in Addr /\ c.src \in Addr /\ c.pe \in PE
    BY <1>1, <2>1, CallFacts
  <2>3. mem[p][c.src] \in Value
    BY <1>1, <2>2, TypeFacts
  <2> HIDE DEF c
  <2> QED BY <1>3, <2>1, <2>2, <2>3
<1>5. CASE shmem_nbi(p)
  <2> DEFINE c == Head(prog[p])
             job == [handler |-> NbiHandler[c.op], origin_pe |-> p, dest_pe |-> c.pe,
                     dest |-> c.dest, src |-> c.src]
  <2>1. /\ prog[p] # << >> /\ UNCHANGED <<queue_send, wire, issued, landed>>
        /\ work_thread_enqueue(p, job) /\ c.op \in {"put_nbi", "get_nbi"}
    BY <1>5 DEF shmem_nbi, work_put, Calls, NbiHandler, logs
  <2>2. c.dest \in Addr /\ c.src \in Addr /\ c.pe \in PE
    BY <1>1, <2>1, CallFacts
  <2>3. NbiHandler[c.op] \in {"PUT", "GET"}
    BY <2>1 DEF NbiHandler
  <2>4. job \in OwnJob
    BY <2>2, <2>3 DEF OwnJob
  <2> HIDE DEF c, job
  <2>5. WorkKept
    BY <1>1, <2>1, <2>4, OwnEnqueued
  <2> QED BY <1>1, <2>1, <2>5, QuietFlow
<1>6. CASE RootRelease
  <2>1. i < N /\ Issue(0, i, i, 1) /\ UNCHANGED <<wire, work_queue>>
    BY <1>6 DEF RootRelease
  <2>2. i \in PE /\ i \in Addr /\ 0 \in PE /\ 1 \in Value
    BY <1>1, <2>1, TypeFacts, PEFacts DEF Value
  <2> QED BY <1>3, <2>1, <2>2
<1>7. CASE LeafEnter(p)
  <2>1. Issue(p, 0, p, 1) /\ UNCHANGED <<wire, work_queue>>
    BY <1>7 DEF LeafEnter
  <2>2. p \in Addr /\ 0 \in PE /\ 1 \in Value
    BY PEFacts DEF Value
  <2> QED BY <1>3, <2>1, <2>2
<1> QED BY <1>2, <1>4, <1>5, <1>6, <1>7
        DEF MainThread, Store, shmem_getmem, shmem_quiet, RootEnter, RootPoll, RootReset, RootGathered,
            RootReturn, LeafPoll, LeafReset, SetFinished, Join, Release, queueVars, logs

(* Every step of the worker keeps Flow.                                    *)
LEMMA WorkerFlow == ASSUME SInv, TypeOK', Flow, NEW p \in PE, Worker(p) PROVE Flow'
<1>1. TypeOK /\ TInv /\ UNCHANGED <<host, wire>>
  BY DEF SInv, TInv, Worker, Execute, WorkerExit, queueVars
<1>2. CASE WorkerExit(p)
  <2>1. UNCHANGED <<queue_send, wire, work_queue, issued, landed>>
    BY <1>2 DEF WorkerExit, queueVars, logs
  <2> QED BY <1>1, <2>1, WorkSame, QuietFlow
<1>3. CASE Execute(p)
  <2>1. work_queue[p] # << >> /\ work_thread_dequeue(p)
    BY <1>3 DEF Execute
  <2>2. PICK job \in Job : job = Head(work_queue[p])
    BY <1>1, <2>1, WorkHead, SMTT(60)
  <2>3. CASE job \in PacketJob
    <3>1. "src" \notin DOMAIN job /\ job.handler # "GET"
      BY <2>3, JobKinds
    <3>2. /\ comm_put(p, job.dest_pe, job.data_buf) /\ issued' = issued
          /\ landed' = [landed EXCEPT ![job.origin_pe][p] = Append(@, job.data_buf)]
      BY <1>3, <2>2, <3>1 DEF Execute
    <3>3. job.dest_pe = p
      <4>1. work_queue[p] \in Seq(RoutedJob(p))
        BY DEF SInv, RouteInv
      <4>2. job \in RoutedJob(p)
        BY <2>1, <2>2, <4>1, QueueFacts
      <4> QED BY <2>3, <4>2 DEF RoutedJob
    <3>4. queue_send' = queue_send
      BY <3>2, <3>3 DEF comm_put, Local, comm_local_put
    <3> QED BY <1>1, <2>1, <2>2, <2>3, <3>2, <3>4, LandFlow
  <2>4. CASE job \in OwnJob
    <3>1. WorkKept
      BY <1>1, <2>1, <2>2, <2>4, OwnDequeued
    <3>2. CASE job.handler = "GET"
      <4>1. UNCHANGED <<queue_send, issued, landed>>
        BY <1>3, <2>2, <3>2 DEF Execute, logs
      <4> QED BY <1>1, <3>1, <4>1, QuietFlow
    <3>3. CASE job.handler # "GET"
      <4>1. job.dest_pe \in PE /\ job.dest \in Addr /\ job.src \in Addr /\ "src" \in DOMAIN job
        BY <2>4, JobKinds DEF OwnJob
      <4>2. Issue(p, job.dest_pe, job.dest, mem[p][job.src]) /\ mem[p][job.src] \in Value
        BY <1>1, <1>3, <2>2, <3>3, <4>1, TypeFacts DEF Execute
      <4>3. PICK q \in PE, a \in Addr, v \in Value :
              q = job.dest_pe /\ a = job.dest /\ v = mem[p][job.src]
        BY <4>1, <4>2
      <4>4. Issue(p, q, a, v)
        BY <4>2, <4>3
      <4> QED BY <1>1, <3>1, <4>4, IssueFlow
    <3> QED BY <3>2, <3>3
  <2> QED BY <2>3, <2>4 DEF Job
<1> QED BY <1>2, <1>3 DEF Worker

(* Every step of the communication thread keeps Flow.                      *)
LEMMA CommThreadFlow ==
  ASSUME SInv, TypeOK', Flow, ~Splits, WritesFit, NEW p \in PE, CommThread(p)
  PROVE  Flow'
<1>1. TypeOK /\ \A s \in PE : Framed(wire[s][p])
  BY DEF SInv, TInv, Flow
<1>2. CASE Send(p)
  BY <1>1, <1>2, SendFlow
<1>3. ASSUME NEW s \in PE, ReceivePacket(p, s) PROVE Flow'
  BY <1>1, <1>3, ReceiveFlow
<1>4. \A s \in PE : ~ReceiveBadPacket(p, s) /\ ~ReceiveMisframed(p, s)
  BY <1>1, WholePackets
<1>5. CASE Check(p) \/ Received(p) \/ Sent(p) \/ \E s \in PE : ReceiveNothing(p, s)
  <2>1. UNCHANGED <<host, queue_send, wire, work_queue, issued, landed>>
    BY <1>5 DEF Check, Received, Sent, ReceiveNothing, Polls, queueVars, logs
  <2> QED BY <1>1, <2>1, WorkSame, QuietFlow
<1> QED BY <1>2, <1>3, <1>4, <1>5 DEF CommThread

(* OInv holds when every PE has returned from shmem_init.                  *)
LEMMA InitOInv == Init => OInv
<1> SUFFICES ASSUME Init PROVE OInv
  OBVIOUS
<1>1. SInv /\ TypeOK
  BY InitSInv DEF SInv, TInv
<1>2. /\ \A s \in PE : queue_send[s] = << >> /\ work_queue[s] = << >>
      /\ \A s, d \in PE : wire[s][d] = << >> /\ issued[s][d] = << >> /\ landed[s][d] = << >>
  BY DEF Init, Idle
<1>3. \A S : << >> \in Seq(S)
  OBVIOUS
<1>4. GenuineInv
  BY <1>2, <1>3 DEF GenuineInv
<1>5. DOMAIN << >> = {} /\ Len(<< >>) = 0
  OBVIOUS
<1>6. ASSUME NEW s \in PE, NEW d \in PE PROVE Framed(wire[s][d]) /\ LogInv(s, d) /\ Pipeline(s, d)
  <2>1. Framed(wire[s][d])
    BY <1>2, <1>5 DEF Framed
  <2>2. LogInv(s, d)
    BY <1>2, <1>5 DEF LogInv
  <2>3. DOMAIN WorkSeq(s, d) = {} /\ DOMAIN WireSeq(s, d) = {} /\ DOMAIN SendSeq(s, d) = {}
    BY <1>2, <1>5 DEF WorkSeq, WireSeq, SendSeq, Numbers
  <2>4. \A x : x \notin 0 + 1 .. 0
    OBVIOUS
  <2>5. Carries(WorkSeq(s, d), 0, 0) /\ Carries(WireSeq(s, d), 0, 0) /\ Carries(SendSeq(s, d), 0, 0)
    BY <2>3, <2>4 DEF Carries
  <2>6. Len(landed[s][d]) = 0 /\ Len(issued[s][d]) = 0 /\ 0 \in 0 .. Len(issued[s][d]) /\ 0 <= 0
    BY <1>2, <1>5
  <2>7. Pipeline(s, d)
    BY <2>5, <2>6 DEF Pipeline
  <2> QED BY <2>1, <2>2, <2>7
<1> QED BY <1>1, <1>4, <1>6 DEF OInv, Flow

(* Every step of every thread keeps OInv.                                  *)
LEMMA NextOInv == ASSUME ~Splits, OInv, WritesFit, [Next]_vars PROVE OInv'
<1>1. SInv /\ Flow /\ TypeOK /\ SInv' /\ TypeOK'
  BY NextSInv DEF OInv, SInv, TInv
<1>2. CASE UNCHANGED vars
  <2>1. UNCHANGED <<host, queue_send, wire, work_queue, issued, landed>>
    BY <1>2 DEF vars, mainVars, queueVars, logs
  <2> QED BY <1>1, <2>1, WorkSame, QuietFlow DEF OInv
<1>3. ASSUME NEW p \in PE, MainThread(p) \/ Worker(p) \/ CommThread(p) PROVE OInv'
  BY <1>1, <1>3, MainFlow, WorkerFlow, CommThreadFlow DEF OInv
<1> QED BY <1>2, <1>3 DEF Next, Finished

(* OInv says that the landed log is a prefix of the issued one.            *)
LEMMA OrderFromLog == OInv => PutsInOrder
<1> SUFFICES ASSUME OInv, NEW s \in PE, NEW d \in PE PROVE IsPrefix(landed[s][d], issued[s][d])
  BY DEF PutsInOrder
<1> DEFINE u == landed[s][d]
           w == issued[s][d]
<1>1. /\ u \in Seq(Put) /\ w \in Seq(Put) /\ Len(u) \in Nat /\ Len(w) \in Nat
      /\ DOMAIN u = 1 .. Len(u) /\ DOMAIN w = 1 .. Len(w)
  BY LogTypes DEF OInv, SInv, TInv
<1>2. \A n \in DOMAIN u : n \in DOMAIN w /\ u[n] = w[n]
  BY DEF OInv, Flow, LogInv
<1> HIDE DEF u, w
<1>3. Len(u) <= Len(w)
  <2>1. CASE Len(u) = 0
    BY <1>1, <2>1
  <2>2. CASE Len(u) # 0
    <3>1. Len(u) \in DOMAIN u
      BY <1>1, <2>2
    <3>2. Len(u) \in DOMAIN w
      BY <1>2, <3>1
    <3> QED BY <1>1, <3>2
  <2> QED BY <2>1, <2>2
<1>4. SubSeq(u, 1, Len(u)) = SubSeq(w, 1, Len(u))
  <2>1. PICK m \in Nat : m = Len(u)
    BY <1>1
  <2>2. \A n \in 1 .. m : u[n] = w[n]
    BY <1>1, <1>2, <2>1
  <2>3. SubSeq(u, 1, m) = SubSeq(w, 1, m)
    BY <2>2
  <2> QED BY <2>1, <2>3, SMTT(60)
<1> QED BY <1>3, <1>4 DEF IsPrefix, u, w

(* Comm.PutsInOrder: if reads return whole packets and no write is cut     *)
(* short, the puts of one PE to another land once each, with their data,   *)
(* in the order of the comm_put calls (comm_remote.c:73-150,               *)
(* work.c:32-77).                                                          *)
THEOREM PutsStayInOrder ==
  ASSUME ~Splits
  PROVE  Spec /\ []WritesFit => []PutsInOrder
<1>1. OInv /\ WritesFit /\ [Next]_vars => OInv'
  BY NextOInv
<1> QED BY <1>1, InitOInv, OrderFromLog, PTL DEF Spec

-----------------------------------------------------------------------------

(* Of the puts of s to d with a round below r: one that has not landed has *)
(* a barrier signal at or behind it; or, all have landed.                  *)
Behind(s, d, r) ==
  \A n \in DOMAIN issued[s][d] :
    n > Len(landed[s][d]) /\ issued[s][d][n].round < r =>
      \E j \in DOMAIN issued[s][d] : j >= n /\ issued[s][d][j].dest \in PE

Through(s, d, r) ==
  \A n \in DOMAIN issued[s][d] : issued[s][d][n].round < r => n <= Len(landed[s][d])

(* Puts to the root are flushed when it releases the leaf, puts of the     *)
(* root when the leaf returns.                                             *)
FlushInv(k) ==
  /\ Behind(k, 0, arrived[k]) /\ Through(k, 0, Released(k))
  /\ Behind(0, k, Released(k)) /\ Through(0, k, left[k])

(* The inductive invariant.                                                *)
FInv == OInv /\ \A k \in Leaves : FlushInv(k)

(* One step of the log of s and d: a put may be called, puts may land. *)
LogStep(s, d) ==
  /\ Len(landed[s][d]) <= Len(landed'[s][d])
  /\ \/ issued'[s][d] = issued[s][d]
     \/ \E put \in Put : put.round = arrived[s] /\ issued'[s][d] = Append(issued[s][d], put)

(* A put that is called now has the current round, so it is none of the    *)
(* rounds before.                                                          *)
LEMMA ThroughStep ==
  ASSUME TypeOK, TypeOK', NEW s \in PE, NEW d \in PE, NEW r \in Nat, r <= arrived[s], LogStep(s, d)
  PROVE  /\ Through(s, d, r) => Through(s, d, r)'
         /\ Behind(s, d, r) => Behind(s, d, r)'
<1> DEFINE u == issued[s][d]
           w == issued'[s][d]
           l == Len(landed[s][d])
           m == Len(landed'[s][d])
<1>1. /\ u \in Seq(Put) /\ Len(u) \in Nat /\ DOMAIN u = 1 .. Len(u) /\ l \in Nat
      /\ arrived[s] \in Nat
  BY LogTypes, TypeFacts
<1>2. m \in Nat /\ l <= m
  <2>1. landed'[s][d] \in Seq(Put)
    BY DEF TypeOK
  <2>2. m \in Nat
    BY <2>1, LenProperties
  <2> QED BY <2>2 DEF LogStep
<1>3. /\ \A n \in DOMAIN u : n \in DOMAIN w /\ w[n] = u[n]
      /\ \A n \in DOMAIN w : n \in DOMAIN u \/ w[n].round = arrived[s]
  <2>1. CASE w = u
    BY <2>1
  <2>2. ASSUME NEW put \in Put, put.round = arrived[s], w = Append(u, put)
        PROVE  /\ \A n \in DOMAIN u : n \in DOMAIN w /\ w[n] = u[n]
               /\ \A n \in DOMAIN w : n \in DOMAIN u \/ w[n].round = arrived[s]
    <3>1. PICK x \in Seq(Put) : x = u
      BY <1>1
    <3>2. /\ Len(x) \in Nat /\ DOMAIN x = 1 .. Len(x) /\ DOMAIN Append(x, put) = 1 .. Len(x) + 1
          /\ \A n \in DOMAIN x : Append(x, put)[n] = x[n]
          /\ Append(x, put)[Len(x) + 1] = put
      BY AppendFacts
    <3>3. \A n \in DOMAIN Append(x, put) : n \in DOMAIN x \/ n = Len(x) + 1
      BY <3>2
    <3>4. \A n \in DOMAIN x : n \in DOMAIN Append(x, put)
      BY <3>2
    <3> HIDE DEF u, w
    <3> QED BY <2>2, <3>1, <3>2, <3>3, <3>4
  <2> QED BY <2>1, <2>2 DEF LogStep
<1>4. /\ Through(s, d, r) <=> \A n \in DOMAIN u : u[n].round < r => n <= l
      /\ Through(s, d, r)' <=> \A n \in DOMAIN w : w[n].round < r => n <= m
  BY DEF Through
<1>5. /\ Behind(s, d, r) <=> \A n \in DOMAIN u : n > l /\ u[n].round < r =>
                               \E j \in DOMAIN u : j >= n /\ u[j].dest \in PE
      /\ Behind(s, d, r)' <=> \A n \in DOMAIN w : n > m /\ w[n].round < r =>
                                \E j \in DOMAIN w : j >= n /\ w[j].dest \in PE
  BY DEF Behind, PE
<1> HIDE DEF u, w, l, m
<1>6. \A n \in DOMAIN w : w[n].round < r => n \in DOMAIN u /\ w[n] = u[n] /\ n \in Nat
  BY <1>1, <1>3
<1>7. ASSUME Through(s, d, r) PROVE Through(s, d, r)'
  BY <1>2, <1>1, <1>4, <1>6, <1>7
<1>8. ASSUME Behind(s, d, r) PROVE Behind(s, d, r)'
  <2> SUFFICES ASSUME NEW n \in DOMAIN w, n > m, w[n].round < r
               PROVE  \E j \in DOMAIN w : j >= n /\ w[j].dest \in PE
    BY <1>5
  <2>1. n \in DOMAIN u /\ w[n] = u[n] /\ n \in Nat /\ n > l
    BY <1>1, <1>2, <1>6
  <2>2. PICK j \in DOMAIN u : j >= n /\ u[j].dest \in PE
    BY <1>5, <1>8, <2>1
  <2> QED BY <1>3, <2>2
<1> QED BY <1>7, <1>8

(* A signal called now is behind everything.                               *)
LEMMA BehindSignal ==
  ASSUME TypeOK, NEW s \in PE, NEW d \in PE, NEW r, NEW put \in Put, put.dest \in PE,
         issued'[s][d] = Append(issued[s][d], put)
  PROVE  Behind(s, d, r)'
<1>1. PICK x \in Seq(Put) : x = issued[s][d]
  BY LogTypes
<1>2. /\ Len(x) \in Nat /\ DOMAIN Append(x, put) = 1 .. Len(x) + 1
      /\ Append(x, put)[Len(x) + 1] = put
  BY AppendFacts
<1>3. PICK w : w = Append(x, put) /\ w = issued'[s][d]
  BY <1>1
<1>4. \A n \in DOMAIN w : Len(x) + 1 \in DOMAIN w /\ Len(x) + 1 >= n /\ w[Len(x) + 1].dest \in PE
  BY <1>2, <1>3
<1>5. \A n \in DOMAIN w : \E j \in DOMAIN w : j >= n /\ w[j].dest \in PE
  BY <1>4
<1> QED BY <1>3, <1>5 DEF Behind, PE

(* If no signal is in a queue or socket then none that was called has      *)
(* still to land: a number that has not landed is in one of the queues.    *)
LEMMA NoSignalLeft ==
  ASSUME TypeOK, Flow, NEW s \in PE, NEW d \in PE, NoneUnderWay(s, d), NEW j \in DOMAIN issued[s][d],
         j > Len(landed[s][d])
  PROVE  issued[s][d][j].dest \notin PE
<1>1. /\ queue_send[s] \in Seq(TrueEntry(s)) /\ wire[s][d] \in Seq(TrueCell(s, d))
      /\ work_queue[d] \in Seq(TrueJob(d)) /\ Pipeline(s, d)
  BY DEF Flow, GenuineInv
<1>2. PICK l \in Nat, a \in Nat, b \in Nat, h \in Nat : Shares(s, d, l, a, b, h)
  BY <1>1, PipelineShares
<1>3. /\ l <= a /\ a <= b /\ b <= h
      /\ l = Len(landed[s][d]) /\ h = Len(issued[s][d])
      /\ Carries(WorkSeq(s, d), l, a) /\ Carries(WireSeq(s, d), a, b) /\ Carries(SendSeq(s, d), b, h)
  BY <1>2 DEF Shares
<1>4. DOMAIN issued[s][d] = 1 .. h
  BY <1>3, LogTypes
<1>5. j \in l + 1 .. h
  BY <1>3, <1>4
<1>6. CASE j \in l + 1 .. a
  <2>1. PICK n \in DOMAIN WorkSeq(s, d) : WorkSeq(s, d)[n] = j
    BY <1>3, <1>6 DEF Carries
  <2>2. n \in DOMAIN work_queue[d] /\ work_queue[d][n] \in JobsFrom(s)
        /\ JobSeq[work_queue[d][n]] = j
    BY <2>1, NumbersFacts DEF WorkSeq
  <2>3. PICK job \in PacketJob : job = work_queue[d][n] /\ job.origin_pe = s
    BY <2>2 DEF JobsFrom
  <2>4. job.data_buf.seq = j
    BY <2>2, <2>3 DEF JobSeq, Job
  <2>5. job \in TrueJob(d)
    BY <1>1, <2>2, <2>3, ElementOfSeq, LenProperties
  <2>6. issued[s][d][j] = job.data_buf
    BY <2>3, <2>4, <2>5 DEF TrueJob, Genuine
  <2>7. n \notin WorkAt(s, d)
    BY DEF NoneUnderWay
  <2> QED BY <2>2, <2>3, <2>6, <2>7 DEF WorkAt
<1>7. CASE j \in a + 1 .. b
  <2>1. PICK n \in DOMAIN WireSeq(s, d) : WireSeq(s, d)[n] = j
    BY <1>3, <1>7 DEF Carries
  <2>2. n \in DOMAIN wire[s][d] /\ wire[s][d][n] \in Starts /\ CellSeq[wire[s][d][n]] = j
    BY <2>1, NumbersFacts DEF WireSeq
  <2>3. PICK c \in Cell : c = wire[s][d][n] /\ c.part = 1
    BY <2>2 DEF Starts
  <2>4. c.packet.seq = j
    BY <2>2, <2>3 DEF CellSeq
  <2>5. c \in TrueCell(s, d)
    BY <1>1, <2>2, <2>3, ElementOfSeq, LenProperties
  <2>6. issued[s][d][j] = c.packet
    BY <2>3, <2>4, <2>5 DEF TrueCell, Genuine
  <2>7. n \notin WireAt(s, d)
    BY DEF NoneUnderWay
  <2> QED BY <2>2, <2>3, <2>6, <2>7 DEF WireAt
<1>8. CASE j \in b + 1 .. h
  <2>1. PICK n \in DOMAIN SendSeq(s, d) : SendSeq(s, d)[n] = j
    BY <1>3, <1>8 DEF Carries
  <2>2. n \in DOMAIN queue_send[s] /\ queue_send[s][n] \in EntriesTo(d) /\ EntrySeq[queue_send[s][n]] = j
    BY <2>1, NumbersFacts DEF SendSeq
  <2>3. PICK e \in Entry : e = queue_send[s][n] /\ e.pe = d
    BY <2>2 DEF EntriesTo
  <2>4. e.packet.seq = j
    BY <2>2, <2>3 DEF EntrySeq
  <2>5. e \in TrueEntry(s)
    BY <1>1, <2>2, <2>3, ElementOfSeq, LenProperties
  <2>6. issued[s][d][j] = e.packet
    BY <2>3, <2>4, <2>5 DEF TrueEntry, Genuine
  <2>7. n \notin SendAt(s, d)
    BY DEF NoneUnderWay
  <2> QED BY <2>2, <2>3, <2>6, <2>7 DEF SendAt
<1> QED BY <1>3, <1>5, <1>6, <1>7, <1>8

(* If no signal is under way then every put with a signal behind it has    *)
(* landed: the signal has, and puts land in order.                         *)
LEMMA NothingLeft ==
  ASSUME TypeOK, Flow, NEW s \in PE, NEW d \in PE, NoneUnderWay(s, d), NEW r \in Nat, Behind(s, d, r)
  PROVE  Through(s, d, r)
<1> SUFFICES ASSUME NEW n \in DOMAIN issued[s][d], issued[s][d][n].round < r, ~(n <= Len(landed[s][d]))
             PROVE  FALSE
  BY DEF Through
<1>1. DOMAIN issued[s][d] \subseteq Nat /\ Len(landed[s][d]) \in Nat
  BY LogTypes
<1>2. PICK j \in DOMAIN issued[s][d] : j >= n /\ issued[s][d][j].dest \in PE
  BY <1>1 DEF Behind
<1>3. j > Len(landed[s][d])
  BY <1>1, <1>2
<1> QED BY <1>2, <1>3, NoSignalLeft

(* A step that neither calls nor stores a put.                             *)
LEMMA SameLogs ==
  ASSUME TypeOK, UNCHANGED <<issued, landed>>, NEW s \in PE, NEW d \in PE
  PROVE  LogStep(s, d)
<1>1. Len(landed[s][d]) \in Nat
  BY LogTypes
<1> QED BY <1>1 DEF LogStep

(* Storing a put makes the landed log no shorter.                          *)
LEMMA LandedLonger ==
  ASSUME TypeOK, NEW p \in PE, NEW q \in PE, NEW put \in Put,
         landed' = [landed EXCEPT ![p][q] = Append(landed[p][q], put)] \/ landed' = landed,
         NEW s \in PE, NEW d \in PE
  PROVE  Len(landed[s][d]) <= Len(landed'[s][d])
<1>1. landed \in [PE -> [PE -> Seq(Put)]] /\ Len(landed[s][d]) \in Nat
  BY LogTypes DEF LogType
<1>2. CASE landed'[s][d] = landed[s][d]
  BY <1>1, <1>2
<1>3. CASE landed'[s][d] = Append(landed[s][d], put)
  <2>1. PICK u \in Seq(Put) : u = landed[s][d]
    BY <1>1
  <2>2. Len(u) \in Nat /\ Len(Append(u, put)) = Len(u) + 1
    BY AppendFacts
  <2>3. Len(u) <= Len(Append(u, put))
    BY <2>2
  <2> QED BY <1>3, <2>1, <2>3
<1> QED BY <1>1, <1>2, <1>3, ZenonT(60)

(* comm_put adds to the log of its pair, with the round of its caller.     *)
LEMMA IssueLogs ==
  ASSUME TypeOK, NEW p \in PE, NEW q \in PE, NEW a \in Addr, NEW v \in Value, Issue(p, q, a, v)
  PROVE  /\ \A s, d \in PE : LogStep(s, d)
         /\ \E put \in Put : put.dest = a /\ issued'[p][q] = Append(issued[p][q], put)
<1> DEFINE x == [dest |-> a, val |-> v, round |-> arrived[p], seq |-> Len(issued[p][q]) + 1]
<1>1. x \in Put /\ x.round = arrived[p] /\ x.dest = a
  <2>1. Len(issued[p][q]) + 1 \in Nat
    BY LogTypes
  <2>2. arrived[p] \in 0 .. MaxRounds
    BY DEF TypeOK
  <2> QED BY <2>1, <2>2 DEF Put, Value
<1>2. /\ issued' = [issued EXCEPT ![p][q] = Append(@, x)]
      /\ landed' = IF Local(p, q) THEN [landed EXCEPT ![p][q] = Append(@, x)] ELSE landed
  BY DEF Issue
<1> HIDE DEF x
<1>3. PICK put \in Put : put = x
  BY <1>1
<1>4. /\ put.round = arrived[p] /\ put.dest = a
      /\ issued' = [issued EXCEPT ![p][q] = Append(issued[p][q], put)]
      /\ landed' = [landed EXCEPT ![p][q] = Append(landed[p][q], put)] \/ landed' = landed
  BY <1>1, <1>2, <1>3
<1>5. issued \in [PE -> [PE -> Seq(Put)]]
  BY LogTypes DEF LogType
<1>6. /\ issued'[p][q] = Append(issued[p][q], put)
      /\ \A s, d \in PE : s # p \/ d # q => issued'[s][d] = issued[s][d]
  BY <1>4, <1>5
<1>7. ASSUME NEW s \in PE, NEW d \in PE PROVE LogStep(s, d)
  <2>1. Len(landed[s][d]) <= Len(landed'[s][d])
    BY <1>4, LandedLonger
  <2>2. CASE s = p /\ d = q
    BY <1>4, <1>6, <2>1, <2>2 DEF LogStep
  <2>3. CASE s # p \/ d # q
    BY <1>6, <2>1, <2>3 DEF LogStep
  <2> QED BY <2>2, <2>3
<1> QED BY <1>4, <1>6, <1>7

(* Every step of the main thread is a LogStep,                             *)
LEMMA MainLogs == ASSUME TInv, NEW p \in PE, MainThread(p) PROVE \A s, d \in PE : LogStep(s, d)
<1>1. TypeOK
  BY DEF TInv
<1>2. CASE UNCHANGED <<issued, landed>>
  BY <1>1, <1>2, SameLogs
<1>3. CASE shmem_putmem(p)
  <2> DEFINE c == Head(prog[p])
  <2>1. prog[p] # << >> /\ Issue(p, c.pe, c.dest, mem[p][c.src])
    BY <1>3 DEF shmem_putmem, Calls
  <2>2. c.dest \in Addr /\ c.src \in Addr /\ c.pe \in PE
    BY <1>1, <2>1, CallFacts
  <2>3. mem[p][c.src] \in Value
    BY <1>1, <2>2, TypeFacts
  <2> HIDE DEF c
  <2> QED BY <1>1, <2>1, <2>2, <2>3, IssueLogs
<1>4. CASE RootRelease
  <2>1. i < N /\ Issue(0, i, i, 1)
    BY <1>4 DEF RootRelease
  <2>2. i \in PE /\ i \in Addr /\ 0 \in PE /\ 1 \in Value
    BY <1>1, <2>1, TypeFacts, PEFacts DEF Value
  <2> QED BY <1>1, <2>1, <2>2, IssueLogs
<1>5. CASE LeafEnter(p)
  <2>1. Issue(p, 0, p, 1)
    BY <1>5 DEF LeafEnter
  <2>2. p \in Addr /\ 0 \in PE /\ 1 \in Value
    BY PEFacts DEF Value
  <2> QED BY <1>1, <2>1, <2>2, IssueLogs
<1> QED BY <1>2, <1>3, <1>4, <1>5
        DEF MainThread, Store, shmem_getmem, shmem_nbi, shmem_quiet, RootEnter, RootPoll, RootReset,
            RootGathered, RootReturn, LeafPoll, LeafReset, SetFinished, Join, Release, logs

(* every step of the worker,                                               *)
LEMMA WorkerLogs == ASSUME TInv, NEW p \in PE, Worker(p) PROVE \A s, d \in PE : LogStep(s, d)
<1>1. TypeOK
  BY DEF TInv
<1>2. CASE WorkerExit(p)
  BY <1>1, <1>2, SameLogs DEF WorkerExit, logs
<1>3. CASE Execute(p)
  <2>1. work_queue[p] # << >> /\ work_thread_dequeue(p)
    BY <1>3 DEF Execute
  <2>2. PICK job \in Job : job = Head(work_queue[p])
    BY <2>1, WorkHead
  <2>3. CASE job \in PacketJob
    <3>1. "src" \notin DOMAIN job /\ job.handler # "GET" /\ job.origin_pe \in PE /\ job.data_buf \in Put
      BY <2>3, JobKinds DEF PacketJob
    <3>2. issued' = issued /\ landed' = [landed EXCEPT ![job.origin_pe][p] = Append(@, job.data_buf)]
      BY <1>3, <2>2, <3>1 DEF Execute
    <3>3. PICK q \in PE, put \in Put : q = job.origin_pe /\ put = job.data_buf
      BY <3>1
    <3>4. landed' = [landed EXCEPT ![q][p] = Append(landed[q][p], put)]
      BY <3>2, <3>3
    <3> QED BY <1>1, <3>2, <3>4, LandedLonger DEF LogStep
  <2>4. CASE job \in OwnJob /\ job.handler = "GET"
    <3>1. UNCHANGED <<issued, landed>>
      BY <1>3, <2>2, <2>4 DEF Execute, logs
    <3> QED BY <1>1, <3>1, SameLogs
  <2>5. CASE job \in OwnJob /\ job.handler # "GET"
    <3>1. job.dest_pe \in PE /\ job.dest \in Addr /\ job.src \in Addr /\ "src" \in DOMAIN job
      BY <2>5, JobKinds DEF OwnJob
    <3>2. Issue(p, job.dest_pe, job.dest, mem[p][job.src]) /\ mem[p][job.src] \in Value
      BY <1>1, <1>3, <2>2, <2>5, <3>1, TypeFacts DEF Execute
    <3>3. PICK q \in PE, a \in Addr, v \in Value :
            q = job.dest_pe /\ a = job.dest /\ v = mem[p][job.src]
      BY <3>1, <3>2
    <3>4. Issue(p, q, a, v)
      BY <3>2, <3>3
    <3> QED BY <1>1, <3>4, IssueLogs
  <2> QED BY <2>3, <2>4, <2>5 DEF Job
<1> QED BY <1>2, <1>3 DEF Worker

(* and every step.                                                         *)
LEMMA OneStepOfLogs == ASSUME TInv, [Next]_vars PROVE \A s, d \in PE : LogStep(s, d)
<1>1. TypeOK
  BY DEF TInv
<1>2. CASE UNCHANGED vars
  BY <1>1, <1>2, SameLogs DEF vars, logs
<1>3. ASSUME NEW p \in PE, CommThread(p) PROVE \A s, d \in PE : LogStep(s, d)
  <2>1. UNCHANGED <<issued, landed>>
    BY <1>3 DEF CommThread, Check, Received, Send, Sent, ReceiveNothing, ReceiveBadPacket,
                ReceivePacket, ReceiveMisframed, Polls, logs
  <2> QED BY <1>1, <2>1, SameLogs, SMTT(60)
<1> QED BY <1>2, <1>3, MainLogs, WorkerLogs DEF Next, Finished

(* A leaf has returned from no more barriers than the root has released it *)
(* from, and has called these.                                             *)
LEMMA RootAhead ==
  ASSUME SInv, NEW k \in Leaves
  PROVE  /\ arrived[0] \in Nat /\ arrived[k] \in Nat /\ left[0] \in Nat /\ left[k] \in Nat
         /\ Released(k) \in Nat /\ left[0] <= Released(k)
         /\ left[k] <= Released(k) /\ Released(k) <= arrived[k] /\ Released(k) <= arrived[0]
<1>1. /\ left[0] \in Nat /\ left[k] \in Nat /\ arrived[k] \in Nat /\ Released(k) \in Nat
      /\ Released(k) >= left[0] /\ SigInv(k)
  BY SignalArith
<1>2. left[k] <= Released(k) /\ Released(k) <= arrived[k]
  BY <1>1 DEF SigInv
<1>3. arrived[0] \in Nat /\ arrived[0] = left[0] + Bit(Inside(0))
  BY PEFacts, TypeFacts DEF SInv, TInv, CallInv, CallOK
<1>4. Released(k) <= arrived[0]
  BY <1>1, <1>3 DEF Released, Inside, Bit
<1> QED BY <1>1, <1>2, <1>3, <1>4

(* The rounds of leaf k: each moves with one action only. *)
Moves(k) ==
  \/ arrived'[k] = arrived[k] /\ Released(k)' = Released(k) /\ left'[k] = left[k]
  \/ LeafEnter(k) /\ Released(k)' = Released(k) /\ left'[k] = left[k]
  \/ /\ RootRelease /\ i = k /\ NoneUnderWay(k, 0)
     /\ Released(k)' = arrived[k] /\ arrived'[k] = arrived[k] /\ left'[k] = left[k]
  \/ /\ LeafReset(k) /\ NoneUnderWay(0, k)
     /\ left'[k] = Released(k) /\ Released(k)' = Released(k) /\ arrived'[k] = arrived[k]

(* Steps of the root: a release is given when no signal of the leaf is     *)
(* under way.                                                              *)
LEMMA RootMoves ==
  ASSUME SInv, RootEnter \/ RootPoll \/ RootReset \/ RootGathered \/ RootRelease \/ RootReturn,
         NEW k \in Leaves
  PROVE  Moves(k)
<1>1. /\ left[0] \in Nat /\ left[k] \in Nat /\ arrived[k] \in Nat /\ i \in Nat /\ 1 <= i /\ i <= N
      /\ Released(k) \in Nat /\ k \in Nat /\ k < N /\ 1 <= k /\ k \in PE /\ k # 0
      /\ 0 \in PE /\ N \in Nat /\ SigInv(k)
  BY SignalArith
<1>2. /\ pc \in [PE -> {"call", "poll", "reset", "release", "join"}]
      /\ arrived \in [PE -> 0 .. MaxRounds] /\ left \in [PE -> 0 .. MaxRounds]
  BY DEF SInv, TInv, TypeOK
<1>3. arrived'[k] = arrived[k] /\ left'[k] = left[k]
  BY <1>1, <1>2 DEF RootEnter, RootPoll, RootReset, RootGathered, RootRelease, RootReturn,
                   BarrierCall, BarrierReturn
<1>4. CASE RootEnter
  <2>1. pc[0] = "call" /\ pc'[0] = "poll" /\ left' = left
    BY <1>1, <1>2, <1>4 DEF RootEnter, BarrierCall, Calls
  <2>2. Released(k)' = Released(k)
    BY <1>1, <2>1 DEF Released, Bit
  <2> QED BY <1>3, <2>2 DEF Moves
<1>5. CASE RootPoll
  <2>1. pc[0] = "poll" /\ pc'[0] = "reset" /\ left' = left
    BY <1>1, <1>2, <1>5 DEF RootPoll
  <2>2. Released(k)' = Released(k)
    BY <1>1, <2>1 DEF Released, Bit
  <2> QED BY <1>3, <2>2 DEF Moves
<1>6. CASE RootReset
  <2>1. pc[0] = "reset" /\ pc'[0] = "poll" /\ left' = left
    BY <1>1, <1>2, <1>6 DEF RootReset
  <2>2. Released(k)' = Released(k)
    BY <1>1, <2>1 DEF Released, Bit
  <2> QED BY <1>3, <2>2 DEF Moves
<1>7. CASE RootGathered
  <2>1. pc[0] = "poll" /\ pc'[0] = "release" /\ i' = 1 /\ left' = left
    BY <1>1, <1>2, <1>7 DEF RootGathered
  <2>2. Released(k)' = Released(k)
    BY <1>1, <2>1 DEF Released, Bit
  <2> QED BY <1>3, <2>2 DEF Moves
<1>8. CASE RootReturn
  <2>1. pc[0] = "release" /\ pc'[0] = "call" /\ i = N /\ i' = i /\ left'[0] = left[0] + 1
    BY <1>1, <1>2, <1>8 DEF RootReturn, BarrierReturn
  <2>2. Released(k)' = Released(k)
    BY <1>1, <2>1 DEF Released, Bit
  <2> QED BY <1>3, <2>2 DEF Moves
<1>9. CASE RootRelease
  <2>1. pc[0] = "release" /\ pc'[0] = "release" /\ i' = i + 1 /\ left' = left
    BY <1>1, <1>2, <1>9 DEF RootRelease
  <2>2. CASE i = k
    <3>1. AtRoot(k) /\ Released(k)' = Released(k) + 1
      BY <1>1, <2>1, <2>2 DEF AtRoot, Released, Bit
    <3> HIDE DEF Released
    <3>2. arrived[k] = Released(k) + 1 /\ NoneUnderWay(k, 0)
      BY <1>1, <3>1 DEF SigInv, UpInv
    <3> QED BY <1>3, <1>9, <2>2, <3>1, <3>2 DEF Moves
  <2>3. CASE i # k
    <3>1. Released(k)' = Released(k)
      BY <1>1, <2>1, <2>3 DEF Released, Bit
    <3> QED BY <1>3, <3>1 DEF Moves
  <2> QED BY <2>2, <2>3
<1> QED BY <1>4, <1>5, <1>6, <1>7, <1>8, <1>9

(* Steps of a leaf: it returns when no release is under way.               *)
LEMMA LeafMoves ==
  ASSUME SInv, NEW p \in Leaves, LeafEnter(p) \/ LeafPoll(p) \/ LeafReset(p), NEW k \in Leaves
  PROVE  Moves(k)
<1>1. /\ left[0] \in Nat /\ left[k] \in Nat /\ arrived[k] \in Nat /\ Released(k) \in Nat
      /\ k \in PE /\ 0 \in PE /\ SigInv(k) /\ p \in PE /\ p # 0
  BY SignalArith, PEFacts
<1>2. /\ pc \in [PE -> {"call", "poll", "reset", "release", "join"}]
      /\ arrived \in [PE -> 0 .. MaxRounds] /\ left \in [PE -> 0 .. MaxRounds]
  BY DEF SInv, TInv, TypeOK
<1>3. i' = i /\ \A q \in PE : q # p => pc'[q] = pc[q] /\ arrived'[q] = arrived[q] /\ left'[q] = left[q]
  BY <1>1, <1>2 DEF LeafEnter, LeafPoll, LeafReset, BarrierCall, BarrierReturn
<1>4. Released(k)' = Released(k)
  BY <1>1, <1>3 DEF Released
<1> HIDE DEF Released
<1>5. CASE k # p
  BY <1>1, <1>3, <1>4, <1>5 DEF Moves
<1>6. CASE k = p /\ LeafEnter(p)
  <2>1. left'[k] = left[k]
    BY <1>6 DEF LeafEnter
  <2> QED BY <1>4, <1>6, <2>1 DEF Moves
<1>7. CASE k = p /\ LeafPoll(p)
  <2>1. left'[k] = left[k] /\ arrived'[k] = arrived[k]
    BY <1>7 DEF LeafPoll
  <2> QED BY <1>4, <2>1 DEF Moves
<1>8. CASE k = p /\ LeafReset(p)
  <2>1. left'[k] = left[k] + 1 /\ arrived'[k] = arrived[k] /\ pc[k] = "reset"
    BY <1>1, <1>2, <1>8 DEF LeafReset, BarrierReturn
  <2>2. mem[k][k] # 0
    BY <1>1, <2>1 DEF SigInv
  <2>3. NoneUnderWay(0, k) /\ left[k] + 1 = Released(k)
    BY <1>1, <2>2 DEF SigInv, DownInv
  <2> QED BY <1>4, <1>8, <2>1, <2>3 DEF Moves
<1> QED BY <1>5, <1>6, <1>7, <1>8

(* Every step.                                                             *)
LEMMA AllMoves == ASSUME SInv, [Next]_vars, NEW k \in Leaves PROVE Moves(k)
<1>1. CASE UNCHANGED <<i, arrived, left>> /\ \A q \in PE : (pc'[q] = "release") = (pc[q] = "release")
  <2>1. Released(k)' = Released(k)
    BY <1>1, PEFacts DEF Released, Bit
  <2> QED BY <1>1, <2>1 DEF Moves
<1>2. pc \in [PE -> {"call", "poll", "reset", "release", "join"}]
  BY DEF SInv, TInv, TypeOK
<1>3. ASSUME NEW p \in PE, MainThread(p) PROVE Moves(k)
  <2>1. p # 0 => p \in Leaves
    BY PEFacts
  <2>2. CASE Store(p) \/ shmem_putmem(p) \/ shmem_getmem(p) \/ shmem_nbi(p) \/ shmem_quiet(p) \/ Release(p)
    BY <1>1, <2>2 DEF Store, shmem_putmem, shmem_getmem, shmem_nbi, shmem_quiet, Release
  <2>3. CASE SetFinished(p)
    <3>1. pc[p] = "call" /\ pc' = [pc EXCEPT ![p] = "join"] /\ UNCHANGED <<i, arrived, left>>
      BY <2>3 DEF SetFinished, Calls
    <3> QED BY <1>1, <1>2, <3>1
  <2>4. CASE Join(p)
    <3>1. pc[p] = "join" /\ pc' = [pc EXCEPT ![p] = "call"] /\ UNCHANGED <<i, arrived, left>>
      BY <2>4 DEF Join
    <3> QED BY <1>1, <1>2, <3>1
  <2> QED BY <1>3, <2>1, <2>2, <2>3, <2>4, RootMoves, LeafMoves DEF MainThread
<1>4. ASSUME NEW p \in PE, Worker(p) \/ CommThread(p) PROVE Moves(k)
  <2>1. UNCHANGED <<i, arrived, left, pc>>
    BY <1>4 DEF Worker, Execute, WorkerExit, CommThread, Check, Received, Send, Sent, ReceiveNothing,
                ReceiveBadPacket, ReceivePacket, ReceiveMisframed, Polls, mainVars
  <2> QED BY <1>1, <2>1, SMTT(60)
<1>5. CASE UNCHANGED vars
  BY <1>1, <1>5 DEF vars, mainVars
<1> QED BY <1>3, <1>4, <1>5 DEF Next, Finished

(* Every step keeps FlushInv.                                              *)
LEMMA FlushStep ==
  ASSUME OInv, OInv', [Next]_vars, NEW k \in Leaves, FlushInv(k)
  PROVE  FlushInv(k)'
<1>1. SInv /\ Flow /\ TInv /\ TypeOK /\ TypeOK' /\ k \in PE /\ 0 \in PE /\ k \in Addr /\ 1 \in Value
  BY PEFacts DEF OInv, SInv, TInv, Value
<1>2. PICK a \in Nat, r \in Nat, l \in Nat : a = arrived[k] /\ r = Released(k) /\ l = left[k]
  BY <1>1, RootAhead
<1>3. a <= arrived[k] /\ r <= arrived[k] /\ r <= arrived[0] /\ l <= arrived[0] /\ arrived[0] \in Nat
  BY <1>1, <1>2, RootAhead
<1>4. LogStep(k, 0) /\ LogStep(0, k)
  BY <1>1, OneStepOfLogs
<1>5. Behind(k, 0, a) /\ Through(k, 0, r) /\ Behind(0, k, r) /\ Through(0, k, l)
  BY <1>2 DEF FlushInv
<1>6. Behind(k, 0, a)' /\ Through(k, 0, r)' /\ Behind(0, k, r)' /\ Through(0, k, l)'
  BY <1>1, <1>3, <1>4, <1>5, ThroughStep
<1>7. FlushInv(k)' <=> /\ Behind(k, 0, arrived[k])' /\ Through(k, 0, Released(k))'
                       /\ Behind(0, k, Released(k))' /\ Through(0, k, left[k])'
  BY DEF FlushInv
<1>8. CASE arrived'[k] = arrived[k] /\ Released(k)' = Released(k) /\ left'[k] = left[k]
  BY <1>2, <1>6, <1>7, <1>8
<1>9. CASE LeafEnter(k) /\ Released(k)' = Released(k) /\ left'[k] = left[k]
  <2>1. Issue(k, 0, k, 1)
    BY <1>9 DEF LeafEnter
  <2>2. PICK put \in Put : put.dest = k /\ issued'[k][0] = Append(issued[k][0], put)
    BY <1>1, <2>1, IssueLogs
  <2>3. PICK x : x = arrived'[k]
    OBVIOUS
  <2>4. Behind(k, 0, x)'
    BY <1>1, <2>2, BehindSignal
  <2> QED BY <1>2, <1>6, <1>7, <1>9, <2>3, <2>4
<1>10. CASE /\ RootRelease /\ i = k /\ NoneUnderWay(k, 0)
            /\ Released(k)' = arrived[k] /\ arrived'[k] = arrived[k] /\ left'[k] = left[k]
  <2>1. Issue(0, k, k, 1)
    BY <1>10 DEF RootRelease
  <2>2. PICK put \in Put : put.dest = k /\ issued'[0][k] = Append(issued[0][k], put)
    BY <1>1, <2>1, IssueLogs
  <2>3. Behind(0, k, a)'
    BY <1>1, <2>2, BehindSignal
  <2>4. Through(k, 0, a)
    BY <1>1, <1>5, <1>10, NothingLeft
  <2>5. Through(k, 0, a)'
    BY <1>1, <1>3, <1>4, <2>4, ThroughStep
  <2> QED BY <1>2, <1>6, <1>7, <1>10, <2>3, <2>5
<1>11. CASE /\ LeafReset(k) /\ NoneUnderWay(0, k)
            /\ left'[k] = Released(k) /\ Released(k)' = Released(k) /\ arrived'[k] = arrived[k]
  <2>1. Through(0, k, r)
    BY <1>1, <1>5, <1>11, NothingLeft
  <2>2. Through(0, k, r)'
    BY <1>1, <1>3, <1>4, <2>1, ThroughStep
  <2> QED BY <1>2, <1>6, <1>7, <1>11, <2>2
<1>12. Moves(k)
  BY <1>1, AllMoves
<1> QED BY <1>8, <1>9, <1>10, <1>11, <1>12 DEF Moves

(* FInv holds when every PE has returned from shmem_init.                  *)
LEMMA InitFInv == Init => FInv
<1> SUFFICES ASSUME Init PROVE FInv
  OBVIOUS
<1>1. OInv /\ \A s, d \in PE : issued[s][d] = << >>
  BY InitOInv DEF Init, Idle
<1>2. DOMAIN << >> = {}
  OBVIOUS
<1>3. ASSUME NEW k \in Leaves PROVE FlushInv(k)
  <2>1. issued[k][0] = << >> /\ issued[0][k] = << >>
    BY <1>1, PEFacts
  <2> QED BY <1>2, <2>1 DEF FlushInv, Behind, Through
<1> QED BY <1>1, <1>3 DEF FInv

(* Every step of every thread keeps FInv.                                  *)
LEMMA NextFInv == ASSUME ~Splits, FInv, WritesFit, [Next]_vars PROVE FInv'
<1>1. OInv /\ OInv'
  BY NextOInv DEF FInv
<1>2. ASSUME NEW k \in Leaves PROVE FlushInv(k)'
  BY <1>1, FlushStep DEF FInv
<1> QED BY <1>1, <1>2 DEF FInv

(* FInv says of every put of a round the target has left that it has       *)
(* landed.                                                                 *)
LEMMA CompleteFromLog == FInv => RootPutsComplete
<1> SUFFICES ASSUME FInv, NEW s \in PE, NEW d \in PE, s = 0 \/ d = 0 \/ Local(s, d)
             PROVE  Completed(s, d)
  BY DEF RootPutsComplete
<1>1. SInv /\ TypeOK /\ 0 \in PE /\ LogInv(s, d)
  BY PEFacts DEF FInv, OInv, SInv, TInv, Flow
<1>2. CASE Local(s, d)
  <2>1. Len(landed[s][d]) = Len(issued[s][d])
    BY <1>1, <1>2 DEF LogInv
  <2>2. \A n \in DOMAIN issued[s][d] : n <= Len(landed[s][d])
    BY <1>1, <2>1, LogTypes
  <2> QED BY <2>2 DEF Completed
<1>3. CASE ~Local(s, d)
  <2>1. s # d
    BY <1>3 DEF Local
  <2>2. CASE d = 0
    <3>1. PICK k \in Leaves : k = s
      BY <2>1, <2>2, PEFacts
    <3>2. Through(k, 0, Released(k)) /\ left[0] \in Nat /\ Released(k) \in Nat /\ left[0] <= Released(k)
      BY <1>1, RootAhead DEF FInv, FlushInv
    <3>3. ASSUME NEW n \in DOMAIN issued[k][0], issued[k][0][n].round < left[0]
          PROVE  n <= Len(landed[k][0])
      <4>1. issued[k][0] \in Seq(Put) /\ n \in 1 .. Len(issued[k][0])
        BY <1>1, LogTypes, PEFacts
      <4>2. issued[k][0][n] \in Put
        BY <4>1, ElementOfSeq
      <4>3. issued[k][0][n].round \in Nat
        BY <4>2, PEFacts DEF Put
      <4>4. issued[k][0][n].round < Released(k)
        BY <3>2, <3>3, <4>3
      <4> QED BY <3>2, <4>4 DEF Through
    <3> QED BY <2>2, <3>1, <3>3 DEF Completed
  <2>3. CASE s = 0
    <3>1. PICK k \in Leaves : k = d
      BY <2>1, <2>3, PEFacts
    <3>2. Through(0, k, left[k])
      BY DEF FInv, FlushInv
    <3> QED BY <2>3, <3>1, <3>2 DEF Completed, Through
  <2> QED BY <1>3, <2>2, <2>3
<1> QED BY <1>2, <1>3

(* Comm.RootPutsComplete: if reads return whole packets and no write is    *)
(* cut short, puts on the root's paths that were called before a barrier   *)
(* are in the target's memory when the target returns from it (comm.c:107, *)
(* 110).                                                                   *)
THEOREM RootPutsAreComplete ==
  ASSUME ~Splits
  PROVE  Spec /\ []WritesFit => []RootPutsComplete
<1>1. FInv /\ WritesFit /\ [Next]_vars => FInv'
  BY NextFInv
<1> QED BY <1>1, InitFInv, CompleteFromLog, PTL DEF Spec
=============================================================================
