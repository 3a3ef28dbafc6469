---------------------------- MODULE WireupProofs -----------------------------
(***************************************************************************)
(* Proofs about comm_remote_wireup (module Wireup) for any number of PEs   *)
(* and any set of placements: the locality map numbers the PEs as the      *)
(* regions and socket tables are numbered, and a slot of a socket table    *)
(* never leads to another PE than the map says.                            *)
(*                                                                         *)
(* The second is a matter of the handshake alone. A server accepts whoever *)
(* comes, a data connection carries no name, and nothing but the order of  *)
(* the calls makes the data connection a server finds that of the PE it    *)
(* has identified. HInv says why: a client has sent its number to at most  *)
(* one server, that server is waiting for it, and a server that is not     *)
(* waiting has no data connection in its queue. How the levels choose whom *)
(* a PE meets does not matter to it, so the proofs hold also for the       *)
(* numbers of PEs with which the levels leave PEs out.                     *)
(***************************************************************************)
EXTENDS Wireup, FiniteSetTheorems, TLAPS

(* The loops take the PEs in ascending order: Min gives the next one.      *)
LEMMA LeastElement ==
  ASSUME NEW S, S \subseteq Nat, S # {}
  PROVE  /\ Min(S) \in S
         /\ \A y \in S : Min(S) <= y
<1>1. PICK n \in S : \A m \in S : ~(<<m, n>> \in OpToRel(<, Nat))
  BY NatLessThanWellFounded, WFMin, Zenon
<1>2. ASSUME NEW m \in S PROVE n <= m
  <2>1. m \in Nat /\ n \in Nat
    OBVIOUS
  <2>2. ~(m < n)
    BY <1>1, <2>1 DEF OpToRel
  <2> QED BY <2>1, <2>2
<1> QED BY <1>2, Zenon DEF Min

(* A finite set of numbers can be listed in ascending order: the inverse   *)
(* of the rank is such a list.                                             *)
LEMMA SortedExists ==
  ASSUME NEW S, S \subseteq Nat, IsFiniteSet(S)
  PROVE  \E s \in [1 .. Cardinality(S) -> S] :
           \A m, n \in DOMAIN s : m < n => s[m] < s[n]
<1> DEFINE upto(q) == {r \in S : r <= q}
           rank == [q \in S |-> Cardinality(upto(q))]
           card == Cardinality(S)
<1>1. card \in Nat
  BY FS_CardinalityType
<1>2. ASSUME NEW q \in S
      PROVE  /\ IsFiniteSet(upto(q)) /\ Cardinality(upto(q)) \in 1 .. card
             /\ Cardinality(upto(q)) \in Nat
  <2>1. upto(q) \in SUBSET S
    OBVIOUS
  <2>2. IsFiniteSet(upto(q)) /\ Cardinality(upto(q)) <= card
    BY <2>1, FS_Subset
  <2>3. Cardinality(upto(q)) \in Nat
    BY <2>2, FS_CardinalityType
  <2>4. q \in upto(q)
    OBVIOUS
  <2>5. Cardinality(upto(q)) # 0
    BY <2>2, <2>4, FS_EmptySet, Zenon
  <2> HIDE DEF upto, card
  <2> QED BY <1>1, <2>2, <2>3, <2>5
<1>3. ASSUME NEW q \in S, NEW r \in S, q < r
      PROVE  rank[q] < rank[r]
  <2>0. q \in Nat /\ r \in Nat /\ \A x \in S : x \in Nat
    OBVIOUS
  <2>1. upto(q) \in SUBSET upto(r)
    <3>1. SUFFICES ASSUME NEW x \in upto(q) PROVE x \in upto(r)
      OBVIOUS
    <3>2. x \in S /\ x <= q /\ x \in Nat
      BY <2>0
    <3>3. x <= r
      BY <1>3, <2>0, <3>2
    <3> QED BY <3>2, <3>3
  <2>2. r \in upto(r) /\ r \notin upto(q)
    BY <1>3, <2>0
  <2>3. /\ Cardinality(upto(q)) <= Cardinality(upto(r))
        /\ Cardinality(upto(q)) # Cardinality(upto(r))
    BY <1>2, <2>1, <2>2, FS_Subset, Zenon
  <2>4. rank[q] = Cardinality(upto(q)) /\ rank[r] = Cardinality(upto(r))
    OBVIOUS
  <2>5. Cardinality(upto(q)) \in Nat /\ Cardinality(upto(r)) \in Nat
    BY <1>2
  <2> HIDE DEF upto, rank
  <2> QED BY <2>3, <2>4, <2>5
<1>4. rank \in [S -> 1 .. card]
  BY <1>2
<1> HIDE DEF rank, upto
<1>5. rank \in Injection(S, 1 .. card)
  <2>1. ASSUME NEW q \in S, NEW r \in S, rank[q] = rank[r] PROVE q = r
    <3>1. rank[q] \in Nat /\ rank[r] \in Nat
      BY <1>1, <1>4
    <3>2. q \in Nat /\ r \in Nat
      OBVIOUS
    <3> QED BY <1>3, <2>1, <3>1, <3>2
  <2> QED BY <1>4, <2>1 DEF Injection, IsInjective
<1>6. IsFiniteSet(1 .. card) /\ Cardinality(1 .. card) = card
  BY <1>1, FS_Interval
<1>7. rank \in Surjection(S, 1 .. card)
  BY <1>5, <1>6, FS_Injection
<1>8. \A k \in 1 .. card : \E q \in S : rank[q] = k
  BY <1>7 DEF Surjection
<1> DEFINE s == [k \in 1 .. card |-> CHOOSE q \in S : rank[q] = k]
<1>9. \A k \in 1 .. card : s[k] \in S /\ rank[s[k]] = k
  BY <1>8
<1>10. s \in [1 .. card -> S] /\ DOMAIN s = 1 .. card
  BY <1>9
<1> HIDE DEF s
<1>11. ASSUME NEW m \in 1 .. card, NEW n \in 1 .. card, m < n PROVE s[m] < s[n]
  <2>1. s[m] \in S /\ s[n] \in S /\ rank[s[m]] = m /\ rank[s[n]] = n
    BY <1>9
  <2>2. PICK a \in S, b \in S : s[m] = a /\ s[n] = b
    BY <2>1
  <2>3. rank[a] = m /\ rank[b] = n
    BY <2>1, <2>2
  <2>4. ~(b < a)
    <3>1. SUFFICES ASSUME b < a PROVE FALSE
      OBVIOUS
    <3>2. rank[b] < rank[a]
      BY <1>3, <3>1
    <3> QED BY <1>11, <1>1, <2>3, <3>2
  <2>5. a # b
    BY <1>11, <1>1, <2>3
  <2>6. a \in Nat /\ b \in Nat
    OBVIOUS
  <2> QED BY <2>2, <2>4, <2>5, <2>6
<1> QED BY <1>10, <1>11

(* The ascending list of a finite set has every element, the one at place  *)
(* k with k - 1 smaller ones.                                              *)
LEMMA AscendingFacts ==
  ASSUME NEW S, S \subseteq Nat, IsFiniteSet(S)
  PROVE  /\ Ascending(S) \in [1 .. Cardinality(S) -> S]
         /\ \A q \in S : \E k \in 1 .. Cardinality(S) : Ascending(S)[k] = q
         /\ \A k \in 1 .. Cardinality(S) :
              Cardinality({r \in S : r < Ascending(S)[k]}) = k - 1
<1> DEFINE card == Cardinality(S)
<1>1. card \in Nat
  BY FS_CardinalityType
<1>2. PICK s : s = Ascending(S)
  OBVIOUS
<1>3. /\ s \in [1 .. card -> S]
      /\ \A m, n \in 1 .. card : m < n => s[m] < s[n]
  BY <1>2, SortedExists DEF Ascending
<1>4. IsFiniteSet(1 .. card) /\ Cardinality(1 .. card) = card
  BY <1>1, FS_Interval
<1>5. ASSUME NEW m \in 1 .. card, NEW n \in 1 .. card, s[m] = s[n] PROVE m = n
  <2>1. PICK a \in Nat : s[m] = a
    BY <1>3
  <2>2. m \in Nat /\ n \in Nat
    BY <1>1
  <2>3. ~(a < a)
    BY <2>1
  <2>4. s[n] = a
    BY <1>5, <2>1
  <2>5. ~(m < n) /\ ~(n < m)
    BY <1>3, <2>1, <2>3, <2>4
  <2> QED BY <2>2, <2>5
<1>6. s \in Injection(1 .. card, S)
  BY <1>3, <1>5 DEF Injection, IsInjective
<1>7. s \in Surjection(1 .. card, S)
  BY <1>4, <1>6, FS_Injection
<1>8. \A q \in S : \E k \in 1 .. card : s[k] = q
  BY <1>7 DEF Surjection
<1>9. ASSUME NEW k \in 1 .. card
      PROVE  Cardinality({r \in S : r < s[k]}) = k - 1
  <2> DEFINE below == {r \in S : r < s[k]}
             t == [m \in 1 .. k - 1 |-> s[m]]
  <2>1. k - 1 \in Nat /\ 1 .. k - 1 \subseteq 1 .. card /\ k \in Nat
    BY <1>1
  <2>2. ASSUME NEW m \in 1 .. k - 1 PROVE t[m] = s[m] /\ t[m] \in below
    <3>1. m \in 1 .. card /\ m < k
      BY <2>1
    <3>2. s[m] \in S /\ s[m] < s[k]
      BY <1>3, <3>1
    <3> QED BY <3>2
  <2>3. t \in [1 .. k - 1 -> below]
    BY <2>2
  <2>4. ASSUME NEW r \in below PROVE \E m \in 1 .. k - 1 : t[m] = r
    <3>1. PICK m \in 1 .. card : s[m] = r
      BY <1>8
    <3>2. PICK a \in Nat, b \in Nat : s[m] = a /\ s[k] = b
      BY <1>3
    <3>3. a < b
      BY <3>1, <3>2
    <3>4. ~(k < m)
      BY <1>3, <3>2, <3>3
    <3>5. m # k
      BY <3>2, <3>3
    <3>6. m \in 1 .. k - 1
      BY <3>4, <3>5, <2>1, <1>1
    <3> QED BY <3>1, <3>6
  <2>5. t \in Injection(1 .. k - 1, below)
    BY <2>1, <2>2, <2>3, <1>5 DEF Injection, IsInjective
  <2>6. t \in Surjection(1 .. k - 1, below)
    BY <2>3, <2>4 DEF Surjection
  <2>7. ExistsBijection(1 .. k - 1, below)
    BY <2>5, <2>6 DEF ExistsBijection, Bijection
  <2> HIDE DEF t, below
  <2>8. Cardinality(below) = k - 1
    BY <2>1, <2>7, FS_CountingElements
  <2> QED BY <2>8 DEF below
<1> QED BY <1>2, <1>3, <1>8, <1>9

(* The PEs are finitely many numbers.                                      *)
LEMMA PEFacts ==
  /\ N \in Nat \ {0} /\ PE \subseteq Nat /\ PE \subseteq Int /\ IsFiniteSet(PE) /\ Cardinality(PE) = N
<1>1. N \in Nat /\ N # 0
  BY WireupAssumption
<1>2. IsFiniteSet(0 .. N - 1) /\ Cardinality(0 .. N - 1) = N
  BY <1>1, FS_Interval
<1> QED BY <1>1, <1>2 DEF PE

(* A set of PEs that leaves one out has less than N elements: its size is  *)
(* a PE number.                                                            *)
LEMMA FewerThanAll ==
  ASSUME NEW S \in SUBSET PE, NEW q \in PE, q \notin S
  PROVE  Cardinality(S) \in PE
<1>1. IsFiniteSet(PE \ {q}) /\ Cardinality(PE \ {q}) = N - 1
  BY PEFacts, FS_RemoveElement
<1>2. S \in SUBSET (PE \ {q})
  OBVIOUS
<1>3. IsFiniteSet(S) /\ Cardinality(S) <= N - 1
  BY <1>1, <1>2, FS_Subset
<1>4. Cardinality(S) \in Nat
  BY <1>3, FS_CardinalityType
<1> QED BY <1>3, <1>4, PEFacts DEF PE

(* Where PE q is in the lists of PEs (rte_remote_peers): in that of its    *)
(* own host, at the place of its PMIX_LOCAL_RANK.                          *)
LEMMA ListFacts ==
  ASSUME NEW place \in Placements, NEW q \in PE
  PROVE  LET pes == rte_remote_peers(place)
             i == HostOf(pes, q)
             j == PositionOf(pes, q)
         IN  /\ i \in Nat /\ j \in Nat
             /\ place.nodes[i] = place.host[q]
             /\ pes[i][j] = q
             /\ j - 1 = rte_my_local_pe(place, q)
<1> DEFINE on(h) == {r \in PE : place.host[r] = h}
<1>1. PICK pes : pes = rte_remote_peers(place)
  OBVIOUS
<1>2. /\ DOMAIN pes = DOMAIN place.nodes
      /\ \A k \in DOMAIN pes : pes[k] = Ascending(on(place.nodes[k]))
  BY <1>1 DEF rte_remote_peers, rte_hosts, rte_local_peers
<1>3. ASSUME NEW h
      PROVE  /\ Cardinality(on(h)) \in Nat
             /\ Ascending(on(h)) \in [1 .. Cardinality(on(h)) -> on(h)]
             /\ \A r \in on(h) : \E k \in 1 .. Cardinality(on(h)) : Ascending(on(h))[k] = r
             /\ \A k \in 1 .. Cardinality(on(h)) :
                  Cardinality({r \in on(h) : r < Ascending(on(h))[k]}) = k - 1
  <2>1. on(h) \in SUBSET PE
    OBVIOUS
  <2>2. on(h) \subseteq Nat /\ IsFiniteSet(on(h))
    BY <2>1, PEFacts, FS_Subset
  <2> HIDE DEF on
  <2> QED BY <2>2, AscendingFacts, FS_CardinalityType
<1>4. PICK k \in DOMAIN place.nodes : place.nodes[k] = place.host[q]
  BY WireupAssumption
<1>5. q \in on(place.nodes[k])
  BY <1>4
<1>6. \E j \in DOMAIN pes[k] : pes[k][j] = q
  <2>1. pes[k] = Ascending(on(place.nodes[k]))
    BY <1>2
  <2> HIDE DEF on
  <2>2. PICK h : h = place.nodes[k]
    OBVIOUS
  <2> QED BY <1>3, <1>5, <2>1, <2>2
<1>7. PICK i : i = HostOf(pes, q)
  OBVIOUS
<1>8. i \in DOMAIN pes /\ \E j \in DOMAIN pes[i] : pes[i][j] = q
  BY <1>2, <1>4, <1>6, <1>7 DEF HostOf
<1>9. PICK j : j = PositionOf(pes, q)
  OBVIOUS
<1>10. j \in DOMAIN pes[i] /\ pes[i][j] = q
  BY <1>7, <1>8, <1>9 DEF PositionOf
<1>11. PICK h : h = place.nodes[i]
  OBVIOUS
<1>12. pes[i] = Ascending(on(h)) /\ i \in Nat
  BY <1>2, <1>8, <1>11, WireupAssumption
<1>13. /\ j \in 1 .. Cardinality(on(h)) /\ q \in on(h)
       /\ Cardinality({r \in on(h) : r < q}) = j - 1
  <2> HIDE DEF on
  <2> QED BY <1>3, <1>10, <1>12
<1>14. place.host[q] = h
  BY <1>13
<1>15. {r \in on(h) : r < q} = {r \in PE : place.host[r] = place.host[q] /\ r < q}
  BY <1>14
<1>16. j - 1 = rte_my_local_pe(place, q)
  BY <1>13, <1>15 DEF rte_my_local_pe
<1>17. j \in Nat
  <2>1. PICK c \in Nat : c = Cardinality(on(h))
    BY <1>3
  <2> QED BY <1>13, <2>1
<1> HIDE DEF on
<1> QED BY <1>1, <1>7, <1>9, <1>10, <1>11, <1>12, <1>14, <1>16, <1>17

(* The locality map of PE p.                                               *)
MapOf(place, p) ==
  comm_node_map_locality(rte_hostname(place, p), rte_hosts(place), rte_remote_peers(place))

(* What comm_node_map_locality computes: remote are the PEs of the other   *)
(* hosts, local ones have their local rank and remote ones a slot of their *)
(* own.                                                                    *)
LEMMA MapFacts ==
  ASSUME NEW place \in Placements, NEW p \in PE
  PROVE  LET m == MapOf(place, p)
             remote == {q \in PE : m[q].type = "REMOTE"}
         IN  /\ m \in [PE -> [type : {"LOCAL", "REMOTE"}, index : PE]]
             /\ remote = {q \in PE : place.host[q] # place.host[p]}
             /\ \A q \in PE \ remote : m[q].index = rte_my_local_pe(place, q)
             /\ \A q \in remote : m[q].index \in 0 .. Cardinality(remote) - 1
             /\ \A q, r \in remote : q # r => m[q].index # m[r].index
<1> DEFINE pes == rte_remote_peers(place)
           hst(q) == HostOf(pes, q)
           pos(q) == PositionOf(pes, q)
           far(q) == place.host[q] # place.host[p]
           before(q) == {r \in PE : far(r) /\ VisitedBefore(pes, r, q)}
           all == {q \in PE : far(q)}
<1>1. \A q \in PE : /\ hst(q) \in Nat /\ pos(q) \in Nat
                   /\ place.nodes[hst(q)] = place.host[q]
                   /\ pes[hst(q)][pos(q)] = q
                   /\ pos(q) - 1 = rte_my_local_pe(place, q)
  BY ListFacts
<1>2. PICK m : m = MapOf(place, p)
  OBVIOUS
<1>3. m = [q \in PE |->
         IF far(q)
         THEN [type |-> "REMOTE", index |-> Cardinality(before(q))]
         ELSE [type |-> "LOCAL", index |-> rte_my_local_pe(place, q)]]
  <2>1. \A q \in PE : rte_hosts(place)[HostOf(rte_remote_peers(place), q)] # rte_hostname(place, p) <=> far(q)
    BY <1>1 DEF rte_hosts, rte_hostname
  <2>2. \A q \in PE : {r \in PE : /\ rte_hosts(place)[HostOf(rte_remote_peers(place), r)] # rte_hostname(place, p)
                                  /\ VisitedBefore(rte_remote_peers(place), r, q)} = before(q)
    BY <2>1
  <2>3. \A q \in PE : PositionOf(rte_remote_peers(place), q) - 1 = rte_my_local_pe(place, q)
    BY <1>1
  <2> HIDE DEF before, far
  <2> QED BY <1>2, <2>1, <2>2, <2>3, Zenon DEF MapOf, comm_node_map_locality
<1>4. ASSUME NEW q \in PE, NEW r \in PE
      PROVE  /\ ~VisitedBefore(pes, q, q)
             /\ q # r => (VisitedBefore(pes, q, r) \/ VisitedBefore(pes, r, q))
             /\ \A x \in PE : VisitedBefore(pes, x, q) /\ VisitedBefore(pes, q, r) => VisitedBefore(pes, x, r)
  <2> HIDE DEF pes
  <2>1. PICK a \in Nat, b \in Nat, c \in Nat, d \in Nat : hst(q) = a /\ pos(q) = b /\ hst(r) = c /\ pos(r) = d
    BY <1>1
  <2>2. q # r => a # c \/ b # d
    BY <1>1, <2>1
  <2>3. ~VisitedBefore(pes, q, q)
    BY <2>1 DEF VisitedBefore
  <2>4. q # r => VisitedBefore(pes, q, r) \/ VisitedBefore(pes, r, q)
    BY <2>1, <2>2 DEF VisitedBefore
  <2>5. ASSUME NEW x \in PE, VisitedBefore(pes, x, q), VisitedBefore(pes, q, r) PROVE VisitedBefore(pes, x, r)
    <3>1. PICK e \in Nat, f \in Nat : hst(x) = e /\ pos(x) = f
      BY <1>1
    <3>2. e < a \/ (e = a /\ f < b)
      BY <2>1, <2>5, <3>1 DEF VisitedBefore
    <3>3. a < c \/ (a = c /\ b < d)
      BY <2>1, <2>5 DEF VisitedBefore
    <3>4. e < c \/ (e = c /\ f < d)
      BY <3>2, <3>3
    <3> QED BY <3>1, <3>4, <2>1 DEF VisitedBefore
  <2> QED BY <2>3, <2>4, <2>5
<1> HIDE DEF pes, hst, pos, far
<1>5. all \in SUBSET PE /\ IsFiniteSet(all) /\ Cardinality(all) \in Nat
  BY PEFacts, FS_Subset, FS_CardinalityType
<1>6. ASSUME NEW q \in PE
      PROVE  /\ before(q) \in SUBSET all /\ before(q) \in SUBSET PE /\ q \notin before(q)
             /\ IsFiniteSet(before(q)) /\ Cardinality(before(q)) \in Nat
             /\ Cardinality(before(q)) \in PE
  <2>1. before(q) \in SUBSET all /\ before(q) \in SUBSET PE /\ q \notin before(q)
    BY <1>4
  <2> HIDE DEF before, all
  <2> QED BY <2>1, <1>5, FS_Subset, FS_CardinalityType, FewerThanAll
<1>7. ASSUME NEW q \in all PROVE Cardinality(before(q)) \in 0 .. Cardinality(all) - 1
  <2>1. q \in all /\ q \in PE
    OBVIOUS
  <2> HIDE DEF before, all
  <2>2. Cardinality(before(q)) # Cardinality(all) /\ Cardinality(before(q)) <= Cardinality(all)
    BY <1>5, <1>6, <2>1, FS_Subset, Zenon
  <2> QED BY <1>5, <1>6, <2>1, <2>2
<1>8. ASSUME NEW q \in all, NEW r \in all, VisitedBefore(pes, q, r)
      PROVE  Cardinality(before(q)) # Cardinality(before(r))
  <2>1. before(q) \in SUBSET before(r) /\ q \in before(r)
    BY <1>4, <1>8
  <2>2. q \in PE /\ r \in PE
    OBVIOUS
  <2> HIDE DEF before, all
  <2> QED BY <1>6, <2>1, <2>2, FS_Subset, Zenon
<1>9. ASSUME NEW q \in PE PROVE rte_my_local_pe(place, q) \in PE
  <2>1. {r \in PE : place.host[r] = place.host[q] /\ r < q} \in SUBSET PE
    OBVIOUS
  <2>2. q \notin {r \in PE : place.host[r] = place.host[q] /\ r < q}
    BY PEFacts
  <2> QED BY <2>1, <2>2, FewerThanAll DEF rte_my_local_pe
<1>10. {q \in PE : m[q].type = "REMOTE"} = all
  BY <1>3
<1>11. m \in [PE -> [type : {"LOCAL", "REMOTE"}, index : PE]]
  <2> HIDE DEF before
  <2> QED BY <1>3, <1>6, <1>9
<1>12. \A q \in PE \ all : m[q].index = rte_my_local_pe(place, q)
  BY <1>3
<1>13. \A q \in all : m[q].index = Cardinality(before(q))
  <2> HIDE DEF before
  <2> QED BY <1>3
<1>14. \A q \in all : m[q].index \in 0 .. Cardinality(all) - 1
  BY <1>7, <1>13, Zenon
<1>15. ASSUME NEW q \in all, NEW r \in all, q # r PROVE m[q].index # m[r].index
  <2>1. q \in PE /\ r \in PE
    OBVIOUS
  <2> HIDE DEF before, all
  <2> QED BY <1>4, <1>8, <1>13, <1>15, <2>1, Zenon
<1>16. all = {q \in PE : place.host[q] # place.host[p]}
  BY DEF far
<1> HIDE DEF all
<1> QED BY <1>2, <1>10, <1>11, <1>12, <1>14, <1>15, <1>16, Zenon

(* Two PEs agree on whether they are remote.                               *)
Symmetric == \A p, q \in PE : Remote(p, q) => Remote(q, p)

(* A PE only has remote PEs ahead (the loops skip local ones), and one     *)
(* that is connecting has at least one.                                    *)
TodoInv ==
  \A p \in PE : /\ \A q \in todo[p] : Remote(p, q)
                /\ pc[p] \in {"greeting", "connect_data"} => todo[p] # {}

(* Client q is busy with server p, at the step called at.                  *)
CallsOn(q, p, at) == pc[q] = at /\ Min(todo[q]) = p

(* Each connection in the backlog of a server's command port is that of a  *)
(* client that waits for its greeting, which it has not been sent; no      *)
(* client is there twice.                                                  *)
QueueInv ==
  \A p \in PE : \A k \in DOMAIN cmd_queue[p] :
    /\ CallsOn(cmd_queue[p][k], p, "greeting")
    /\ hello[cmd_queue[p][k]][p] # "greeting"
    /\ \A m \in DOMAIN cmd_queue[p] : cmd_queue[p][m] = cmd_queue[p][k] => m = k

(* Bytes of a handshake are under way only with the client a server has    *)
(* accepted.                                                               *)
HelloInv ==
  \A p, q \in PE : hello[q][p] # "none" => pc[p] = "identify" /\ peer[p] = q

(* Server p has greeted q, which has not answered: q waits for the byte,   *)
(* and no data connection is there.                                        *)
Greeted(p, q) ==
  /\ pc[p] = "identify" /\ hello[q][p] = "greeting"
  /\ CallsOn(q, p, "greeting")
  /\ \A k \in DOMAIN cmd_queue[p] : cmd_queue[p][k] # q
  /\ data_queue[p] = << >>

(* q has sent its number, and either has the data connection ahead or has  *)
(* made it; the queue of the data port holds this connection and no other. *)
Answered(p, q) ==
  /\ pc[p] = "identify" => hello[q][p] = "pe"
  /\ \/ CallsOn(q, p, "connect_data") /\ data_queue[p] = << >>
     \/ data_queue[p] = <<q>>

(* A server in the middle of a handshake is with a remote client that is   *)
(* in the middle of it too; other servers have no data connection waiting. *)
ServerInv ==
  \A p \in PE :
    IF pc[p] \in {"identify", "accept_data"}
    THEN \E q \in PE : peer[p] = q /\ Remote(p, q) /\ (Greeted(p, q) \/ Answered(p, q))
    ELSE data_queue[p] = << >>

(* A client about to make its data connection has a server that waits for  *)
(* it and for nobody else.                                                 *)
ClientInv ==
  \A p, q \in PE : CallsOn(q, p, "connect_data") =>
    /\ pc[p] \in {"identify", "accept_data"} /\ peer[p] = q
    /\ data_queue[p] = << >>

(* The state of the handshakes.                                            *)
HInv == TodoInv /\ QueueInv /\ HelloInv /\ ServerInv /\ ClientInv

(* The inductive invariant.                                                *)
IInv == TypeOK /\ IndexesMatch /\ Symmetric /\ HInv /\ SocketsMatch

(* The maps and local ranks shmem_init computes are right.                 *)
LEMMA InitMap ==
  ASSUME Init
  PROVE  /\ local_pe \in [PE -> PE]
         /\ map \in [PE -> [PE -> [type : {"LOCAL", "REMOTE"}, index : PE]]]
         /\ IndexesMatch /\ Symmetric
<1>1. PICK place \in Placements :
        /\ local_pe = [p \in PE |-> rte_my_local_pe(place, p)]
        /\ map = [p \in PE |-> MapOf(place, p)]
  BY DEF Init, MapOf
<1> DEFINE far(p) == {q \in PE : map[p][q].type = "REMOTE"}
<1>2. ASSUME NEW p \in PE
      PROVE  /\ map[p] \in [PE -> [type : {"LOCAL", "REMOTE"}, index : PE]]
             /\ far(p) = {q \in PE : place.host[q] # place.host[p]}
             /\ \A q \in PE \ far(p) : map[p][q].index = rte_my_local_pe(place, q)
             /\ \A q \in far(p) : map[p][q].index \in 0 .. Cardinality(far(p)) - 1
             /\ \A q, r \in far(p) : q # r => map[p][q].index # map[p][r].index
  <2>1. map[p] = MapOf(place, p)
    BY <1>1
  <2>2. LET m == MapOf(place, p)
            remote == {q \in PE : m[q].type = "REMOTE"}
        IN  /\ m \in [PE -> [type : {"LOCAL", "REMOTE"}, index : PE]]
            /\ remote = {q \in PE : place.host[q] # place.host[p]}
            /\ \A q \in PE \ remote : m[q].index = rte_my_local_pe(place, q)
            /\ \A q \in remote : m[q].index \in 0 .. Cardinality(remote) - 1
            /\ \A q, r \in remote : q # r => m[q].index # m[r].index
    BY MapFacts, Zenon
  <2> QED BY <2>1, <2>2, Zenon
<1>3. ASSUME NEW q \in PE PROVE rte_my_local_pe(place, q) \in PE
  <2>1. {r \in PE : place.host[r] = place.host[q] /\ r < q} \in SUBSET PE
    OBVIOUS
  <2>2. q \notin {r \in PE : place.host[r] = place.host[q] /\ r < q}
    BY PEFacts
  <2> QED BY <2>1, <2>2, FewerThanAll DEF rte_my_local_pe
<1>4. local_pe \in [PE -> PE]
  BY <1>1, <1>3
<1>5. map \in [PE -> [PE -> [type : {"LOCAL", "REMOTE"}, index : PE]]]
  <2>1. \A p \in PE : map[p] \in [PE -> [type : {"LOCAL", "REMOTE"}, index : PE]]
    BY <1>2
  <2>2. DOMAIN map = PE /\ map = [p \in PE |-> map[p]]
    BY <1>1
  <2> QED BY <2>1, <2>2
<1>6. \A p, q \in PE : q \in far(p) <=> Remote(p, q)
  BY DEF Remote
<1>7. \A p \in PE : Slots(p) = 0 .. Cardinality(far(p)) - 1
  BY DEF Slots, Remote
<1> HIDE DEF far
<1>8. IndexesMatch
  <2>1. ASSUME NEW p \in PE, NEW q \in PE, ~Remote(p, q) PROVE map[p][q].index = local_pe[q]
    BY <1>1, <1>2, <1>6, <2>1, Zenon
  <2>2. ASSUME NEW p \in PE, NEW q \in PE, Remote(p, q)
        PROVE /\ map[p][q].index \in Slots(p)
              /\ \A r \in PE \ {q} : Remote(p, r) => map[p][r].index # map[p][q].index
    BY <1>2, <1>6, <1>7, <2>2, Zenon
  <2> QED BY <2>1, <2>2, Zenon DEF IndexesMatch
<1>9. Symmetric
  BY <1>2, <1>6, Zenon DEF Symmetric
<1> QED BY <1>4, <1>5, <1>8, <1>9

(* The invariant holds when wireup begins.                                 *)
LEMMA InitInv == Init => IInv
<1> SUFFICES ASSUME Init PROVE IInv
  OBVIOUS
<1>1. TypeOK
  BY InitMap DEF Init, TypeOK, comm_remote_open_servers, NoPeer
<1>2. HInv
  BY DEF Init, HInv, TodoInv, QueueInv, HelloInv, ServerInv, ClientInv, CallsOn, comm_remote_open_servers
<1>3. SocketsMatch
  BY DEF Init, SocketsMatch
<1> QED BY <1>1, <1>2, <1>3, InitMap DEF IInv

(* Nothing changes the locality map.                                       *)
LEMMA MapStays ==
  ASSUME [Next]_vars
  PROVE  /\ map' = map /\ local_pe' = local_pe
         /\ \A p : Slots(p)' = Slots(p)
         /\ \A p, q : Remote(p, q)' <=> Remote(p, q)
<1>1. map' = map /\ local_pe' = local_pe
  BY DEF Next, Step, vars, serverVars, EnterLevel, LeaveLevel, Return, Connect, Greeting, ConnectData,
         Accept, Identify, AcceptData, Finished
<1> QED BY <1>1, SMTT(60) DEF Slots, Remote

(* The next PE of a client's loop is one of those ahead.                   *)
LEMMA ConnectFacts ==
  ASSUME TypeOK, NEW p \in PE, todo[p] # {}
  PROVE  Min(todo[p]) \in todo[p] /\ Min(todo[p]) \in PE
<1>1. todo[p] \subseteq PE
  BY DEF TypeOK
<1>2. todo[p] \subseteq Nat
  BY <1>1, PEFacts
<1> QED BY <1>1, <1>2, LeastElement

(* Storing a socket into a slot keeps a table's type.                      *)
LEMMA TableUpdate ==
  ASSUME NEW t, DOMAIN t = PE, NEW V,
         \A r \in PE : t[r] \in [Slots(r) -> V],
         NEW p \in PE, NEW i, NEW q \in V
  PROVE  /\ DOMAIN [t EXCEPT ![p][i] = q] = PE
         /\ \A r \in PE : [t EXCEPT ![p][i] = q][r] \in [Slots(r) -> V]
<1>1. PICK u : u = [t EXCEPT ![p][i] = q]
  OBVIOUS
<1>2. DOMAIN u = PE /\ u[p] = [t[p] EXCEPT ![i] = q] /\ \A r \in PE : r # p => u[r] = t[r]
  BY <1>1
<1>3. u[p] \in [Slots(p) -> V]
  BY <1>2
<1> QED BY <1>1, <1>2, <1>3

(* Every step keeps the types.                                             *)
LEMMA TypeStep ==
  ASSUME TypeOK, TodoInv, [Next]_vars
  PROVE  TypeOK'
<1> DEFINE Tables == /\ DOMAIN cmd = PE /\ DOMAIN data = PE
                     /\ \A p \in PE : /\ cmd[p]  \in [Slots(p) -> PE \cup {NoPeer}]
                                      /\ data[p] \in [Slots(p) -> PE \cup {NoPeer}]
<1>1. map' = map /\ local_pe' = local_pe /\ \A p : Slots(p)' = Slots(p)
  BY MapStays
<1>2. CASE UNCHANGED vars
  BY <1>1, <1>2 DEF TypeOK, vars, serverVars
<1>3. ASSUME NEW p \in PE, EnterLevel(p) PROVE TypeOK'
  <2>1. \A a, b : Peers(p, a, b) \in SUBSET PE
    BY DEF Peers
  <2>2. todo' \in [PE -> SUBSET PE]
    <3>1. \E a, b : todo' = [todo EXCEPT ![p] = Peers(p, a, b)]
      BY <1>3, Zenon DEF EnterLevel
    <3>2. todo \in [PE -> SUBSET PE]
      BY DEF TypeOK
    <3> QED BY <2>1, <3>1, <3>2
  <2>3. complete' \in [PE -> BOOLEAN]
    <3>1. complete' = complete \/ \E b \in BOOLEAN : complete' = [complete EXCEPT ![p] = b]
      <4>1. (level[p] > 0) \in BOOLEAN
        OBVIOUS
      <4> QED BY <1>3, <4>1, Zenon DEF EnterLevel
    <3>2. complete \in [PE -> BOOLEAN]
      BY DEF TypeOK
    <3> QED BY <3>1, <3>2
  <2>4. pc' \in [PE -> {"level", "serve", "identify", "accept_data", "client", "greeting", "connect_data", "done"}]
    <3>1. pc' = [pc EXCEPT ![p] = "serve"] \/ pc' = [pc EXCEPT ![p] = "client"]
      BY <1>3, Zenon DEF EnterLevel
    <3> QED BY <3>1 DEF TypeOK
  <2>5. UNCHANGED <<local_pe, map, level, peer, serverVars, hello, cmd, data>>
    BY <1>3 DEF EnterLevel
  <2> QED BY <1>1, <2>2, <2>3, <2>4, <2>5 DEF TypeOK, serverVars
<1>4. ASSUME NEW p \in PE, LeaveLevel(p) PROVE TypeOK'
  BY <1>1, <1>4, SMTT(60) DEF TypeOK, LeaveLevel, serverVars
<1>5. ASSUME NEW p \in PE, Return(p) PROVE TypeOK'
  BY <1>1, <1>5 DEF TypeOK, Return, comm_remote_close_servers
<1>6. ASSUME NEW p \in PE, Connect(p) PROVE TypeOK'
  <2>1. PICK q \in PE : q = Min(todo[p])
    BY <1>6, ConnectFacts DEF Connect
  <2>2. cmd_queue' \in [PE -> Seq(PE)]
    BY <1>6, <2>1 DEF Connect, network_connect, TypeOK
  <2>3. PICK i : cmd' = [cmd EXCEPT ![p][i] = q]
    BY <1>6, <2>1 DEF Connect
  <2>4. Tables'
    <3>1. DOMAIN cmd' = PE /\ \A r \in PE : cmd'[r] \in [Slots(r) -> PE \cup {NoPeer}]
      <4>1. DOMAIN cmd = PE /\ \A r \in PE : cmd[r] \in [Slots(r) -> PE \cup {NoPeer}]
        BY DEF TypeOK
      <4>2. PICK V : V = PE \cup {NoPeer} /\ q \in V
        OBVIOUS
      <4> QED BY <2>3, <4>1, <4>2, TableUpdate
    <3>2. data' = data
      BY <1>6 DEF Connect
    <3> QED BY <1>1, <3>1, <3>2 DEF TypeOK
  <2> QED BY <1>1, <1>6, <2>2, <2>4 DEF TypeOK, Connect
<1>7. ASSUME NEW p \in PE, Greeting(p) PROVE TypeOK'
  <2>1. PICK q \in PE : q = Min(todo[p])
    BY <1>7, ConnectFacts DEF Greeting, TodoInv
  <2> QED BY <1>1, <1>7, <2>1 DEF TypeOK, Greeting, serverVars
<1>8. ASSUME NEW p \in PE, ConnectData(p) PROVE TypeOK'
  <2>1. PICK q \in PE : q = Min(todo[p])
    BY <1>8, ConnectFacts DEF ConnectData, TodoInv
  <2>2. data_queue' \in [PE -> Seq(PE)]
    BY <1>8, <2>1 DEF ConnectData, network_connect, TypeOK
  <2>3. PICK i : data' = [data EXCEPT ![p][i] = q]
    BY <1>8, <2>1 DEF ConnectData
  <2>4. Tables'
    <3>1. DOMAIN data' = PE /\ \A r \in PE : data'[r] \in [Slots(r) -> PE \cup {NoPeer}]
      <4>1. DOMAIN data = PE /\ \A r \in PE : data[r] \in [Slots(r) -> PE \cup {NoPeer}]
        BY DEF TypeOK
      <4>2. PICK V : V = PE \cup {NoPeer} /\ q \in V
        OBVIOUS
      <4> QED BY <2>3, <4>1, <4>2, TableUpdate
    <3>2. cmd' = cmd
      BY <1>8 DEF ConnectData
    <3> QED BY <1>1, <3>1, <3>2 DEF TypeOK
  <2> QED BY <1>1, <1>8, <2>2, <2>4 DEF TypeOK, ConnectData
<1>9. ASSUME NEW p \in PE, Accept(p) PROVE TypeOK'
  <2>1. cmd_queue[p] \in Seq(PE) /\ cmd_queue[p] # << >>
    BY <1>9 DEF Accept, TypeOK
  <2>2. Head(cmd_queue[p]) \in PE /\ Tail(cmd_queue[p]) \in Seq(PE)
    BY <2>1
  <2> QED BY <1>1, <1>9, <2>2 DEF TypeOK, Accept, network_accept_2
<1>10. ASSUME NEW p \in PE, Identify(p) PROVE TypeOK'
  <2>1. PICK q \in PE \cup {NoPeer} : q = peer[p]
    BY DEF TypeOK
  <2>2. PICK i : cmd' = [cmd EXCEPT ![p][i] = q]
    BY <1>10, <2>1 DEF Identify
  <2>3. Tables'
    <3>1. DOMAIN cmd' = PE /\ \A r \in PE : cmd'[r] \in [Slots(r) -> PE \cup {NoPeer}]
      <4>1. DOMAIN cmd = PE /\ \A r \in PE : cmd[r] \in [Slots(r) -> PE \cup {NoPeer}]
        BY DEF TypeOK
      <4>2. PICK V : V = PE \cup {NoPeer} /\ q \in V
        OBVIOUS
      <4> QED BY <2>2, <4>1, <4>2, TableUpdate
    <3>2. data' = data
      BY <1>10 DEF Identify
    <3> QED BY <1>1, <3>1, <3>2 DEF TypeOK
  <2>4. hello' \in [PE -> [PE -> {"none", "greeting", "pe"}]]
    <3>1. PICK b : b = peer[p]
      OBVIOUS
    <3>2. hello' = [hello EXCEPT ![b][p] = "none"]
      BY <1>10, <3>1 DEF Identify
    <3> QED BY <3>2 DEF TypeOK
  <2>5. pc' = [pc EXCEPT ![p] = "accept_data"] /\ UNCHANGED <<local_pe, map, level, complete, todo, peer, serverVars, data>>
    BY <1>10 DEF Identify
  <2> QED BY <1>1, <2>3, <2>4, <2>5 DEF TypeOK, serverVars
<1>11. ASSUME NEW p \in PE, AcceptData(p) PROVE TypeOK'
  <2>1. data_queue[p] \in Seq(PE) /\ data_queue[p] # << >>
    BY <1>11 DEF AcceptData, TypeOK
  <2>2. Head(data_queue[p]) \in PE /\ Tail(data_queue[p]) \in Seq(PE)
    BY <2>1
  <2>3. PICK i, q : q \in PE /\ data' = [data EXCEPT ![p][i] = q]
    BY <1>11, <2>2, Zenon DEF AcceptData
  <2>4. Tables'
    <3>1. DOMAIN data' = PE /\ \A r \in PE : data'[r] \in [Slots(r) -> PE \cup {NoPeer}]
      <4>1. DOMAIN data = PE /\ \A r \in PE : data[r] \in [Slots(r) -> PE \cup {NoPeer}]
        BY DEF TypeOK
      <4>2. PICK V : V = PE \cup {NoPeer} /\ q \in V
        BY <2>3
      <4> QED BY <2>3, <4>1, <4>2, TableUpdate
    <3>2. cmd' = cmd
      BY <1>11 DEF AcceptData
    <3> QED BY <1>1, <3>1, <3>2 DEF TypeOK
  <2> QED BY <1>1, <1>11, <2>2, <2>4 DEF TypeOK, AcceptData, network_accept_2
<1> QED BY <1>2, <1>3, <1>4, <1>5, <1>6, <1>7, <1>8, <1>9, <1>10, <1>11 DEF Next, Step, Finished

(* A table whose slots lead where the map says.                            *)
Match(t) ==
  \A p \in PE : \A s \in Slots(p) :
    t[p][s] # NoPeer => Remote(p, t[p][s]) /\ map[p][t[p][s]].index = s

(* Storing the socket of a remote PE under its index keeps a table         *)
(* matched.                                                                *)
LEMMA MatchUpdate ==
  ASSUME NEW t, Match(t), DOMAIN t = PE, \A r \in PE : DOMAIN t[r] = Slots(r),
         NEW p \in PE, NEW q \in PE, Remote(p, q)
  PROVE  Match([t EXCEPT ![p][map[p][q].index] = q])
<1>1. PICK i : i = map[p][q].index
  OBVIOUS
<1>2. PICK u : u = [t EXCEPT ![p][i] = q]
  OBVIOUS
<1>3. u[p] = [t[p] EXCEPT ![i] = q] /\ \A r \in PE : r # p => u[r] = t[r]
  BY <1>2
<1>4. \A s \in Slots(p) : u[p][s] = IF s = i THEN q ELSE t[p][s]
  BY <1>3
<1>5. Match(u)
  BY <1>1, <1>3, <1>4 DEF Match
<1> QED BY <1>1, <1>2, <1>5

(* The same for the two tables and a step.                                 *)
LEMMA SocketsStep ==
  ASSUME TypeOK, SocketsMatch, map' = map,
         NEW p \in PE, NEW q \in PE, Remote(p, q),
         \/ cmd' = cmd
         \/ cmd' = [cmd EXCEPT ![p][map[p][q].index] = q],
         \/ data' = data
         \/ data' = [data EXCEPT ![p][map[p][q].index] = q]
  PROVE  SocketsMatch'
<1>1. Match(cmd) /\ Match(data)
  BY DEF SocketsMatch, Match
<1>2. /\ DOMAIN cmd = PE /\ \A r \in PE : DOMAIN cmd[r] = Slots(r)
      /\ DOMAIN data = PE /\ \A r \in PE : DOMAIN data[r] = Slots(r)
  BY DEF TypeOK
<1>3. PICK c, d : c = cmd' /\ d = data'
  OBVIOUS
<1>4. Match(c) /\ Match(d)
  <2>1. Match([cmd EXCEPT ![p][map[p][q].index] = q])
    BY <1>1, <1>2, MatchUpdate
  <2>2. Match([data EXCEPT ![p][map[p][q].index] = q])
    BY <1>1, <1>2, MatchUpdate
  <2>3. c = cmd \/ c = [cmd EXCEPT ![p][map[p][q].index] = q]
    BY <1>3
  <2>4. d = data \/ d = [data EXCEPT ![p][map[p][q].index] = q]
    BY <1>3
  <2> QED BY <1>1, <2>1, <2>2, <2>3, <2>4, Zenon
<1>5. \A r : Slots(r)' = Slots(r)
  BY DEF Remote, Slots
<1>6. \A t : Match(t) => \A r \in PE : \A s \in Slots(r) :
         t[r][s] # NoPeer => map[r][t[r][s]].type = "REMOTE" /\ map[r][t[r][s]].index = s
  BY DEF Match, Remote
<1>7. \A r \in PE : \A s \in Slots(r) : \A table \in {c, d} :
         table[r][s] # NoPeer => map[r][table[r][s]].type = "REMOTE" /\ map[r][table[r][s]].index = s
  BY <1>4, <1>6
<1>8. SocketsMatch' <=> \A r \in PE : \A s \in Slots(r) : \A table \in {c, d} :
         table[r][s] # NoPeer => map[r][table[r][s]].type = "REMOTE" /\ map[r][table[r][s]].index = s
  BY <1>3, <1>5 DEF SocketsMatch, Remote
<1> QED BY <1>7, <1>8

(* The elements of a queue after a connection has come in.                 *)
LEMMA AppendFacts ==
  ASSUME NEW Q \in Seq(PE), NEW x \in PE
  PROVE  /\ Append(Q, x) \in Seq(PE)
         /\ \A k \in DOMAIN Append(Q, x) :
              \/ k \in DOMAIN Q /\ Append(Q, x)[k] = Q[k]
              \/ k = Len(Q) + 1 /\ Append(Q, x)[k] = x
OBVIOUS

(* The elements of a queue after its first connection has been accepted.   *)
LEMMA TailFacts ==
  ASSUME NEW Q \in Seq(PE), Q # << >>
  PROVE  /\ 1 \in DOMAIN Q /\ Head(Q) = Q[1] /\ Q[1] \in PE
         /\ \A k \in DOMAIN Tail(Q) : k + 1 \in DOMAIN Q /\ k \in Nat /\ k + 1 # 1 /\ Tail(Q)[k] = Q[k + 1]
OBVIOUS

(* Entering and leaving a level and returning touch no handshake.          *)
LEMMA QuietStep ==
  ASSUME TypeOK, HInv, map' = map, NEW p \in PE,
         pc[p] \in {"level", "serve", "client"},
         NEW to \in {"level", "serve", "client", "done"},
         pc' = [pc EXCEPT ![p] = to],
         \A r \in PE : r # p => todo'[r] = todo[r],
         \A q \in todo'[p] : Remote(p, q),
         peer' = peer, cmd_queue' = cmd_queue, data_queue' = data_queue, hello' = hello
  PROVE  HInv'
<1>1. pc'[p] = to /\ \A r \in PE : r # p => pc'[r] = pc[r]
  BY DEF TypeOK
<1>2. \A q, r : Remote(q, r)' <=> Remote(q, r)
  BY DEF Remote
<1>3. \A q \in PE : \A r, at : at \in {"greeting", "connect_data"} => (CallsOn(q, r, at)' <=> CallsOn(q, r, at))
  BY <1>1 DEF CallsOn
<1>4. TodoInv'
  BY <1>1, <1>2 DEF HInv, TodoInv
<1>5. QueueInv'
  <2>1. \A r \in PE : \A k \in DOMAIN cmd_queue[r] : cmd_queue[r][k] \in PE
    BY DEF TypeOK
  <2> QED BY <1>3, <2>1 DEF HInv, QueueInv
<1>6. HelloInv'
  BY <1>1 DEF HInv, HelloInv
<1>7. \A r, q \in PE : r # p => (Greeted(r, q) => Greeted(r, q)') /\ (Answered(r, q) => Answered(r, q)')
  BY <1>1, <1>3 DEF Greeted, Answered
<1>8. ServerInv'
  <2>1. SUFFICES ASSUME NEW r \in PE
                 PROVE  IF pc'[r] \in {"identify", "accept_data"}
                        THEN \E q \in PE : peer'[r] = q /\ Remote(r, q)' /\ (Greeted(r, q)' \/ Answered(r, q)')
                        ELSE data_queue'[r] = << >>
    BY DEF ServerInv
  <2>2. IF pc[r] \in {"identify", "accept_data"}
        THEN \E q \in PE : peer[r] = q /\ Remote(r, q) /\ (Greeted(r, q) \/ Answered(r, q))
        ELSE data_queue[r] = << >>
    BY DEF HInv, ServerInv
  <2> QED BY <1>1, <1>2, <1>7, <2>2
<1>9. ClientInv'
  BY <1>1, <1>3 DEF HInv, ClientInv
<1> QED BY <1>4, <1>5, <1>6, <1>8, <1>9 DEF HInv

(* A client that connects joins the backlog of its server, where it was    *)
(* not.                                                                    *)
LEMMA ConnectStep ==
  ASSUME TypeOK, HInv, map' = map, NEW p \in PE, Connect(p)
  PROVE  HInv'
<1>1. PICK q \in PE : q = Min(todo[p])
  BY ConnectFacts DEF Connect
<1>2. /\ pc[p] = "client" /\ pc'[p] = "greeting" /\ \A r \in PE : r # p => pc'[r] = pc[r]
      /\ todo' = todo /\ peer' = peer /\ data_queue' = data_queue /\ hello' = hello
      /\ todo[p] # {}
  BY DEF Connect, TypeOK
<1>3. PICK Q \in Seq(PE) : Q = cmd_queue[q]
  BY DEF TypeOK
<1>4. cmd_queue'[q] = Append(Q, p) /\ \A r \in PE : r # q => cmd_queue'[r] = cmd_queue[r]
  BY <1>1, <1>3 DEF Connect, network_connect, TypeOK
<1>5. \A x, r : Remote(x, r)' <=> Remote(x, r)
  BY DEF Remote
<1>6. \A x \in PE : \A r, at : x # p => (CallsOn(x, r, at)' <=> CallsOn(x, r, at))
  BY <1>2 DEF CallsOn
<1>7. CallsOn(p, q, "greeting")' /\ \A r, at : at # "client" => ~CallsOn(p, r, at)
  BY <1>1, <1>2 DEF CallsOn
<1>8. \A r \in PE : \A k \in DOMAIN cmd_queue[r] : cmd_queue[r][k] \in PE /\ cmd_queue[r][k] # p
  BY <1>7, SMTT(60) DEF HInv, QueueInv, TypeOK
<1>9. hello[p][q] # "greeting"
  BY <1>7 DEF HInv, HelloInv, ServerInv, Greeted, Answered
<1>10. TodoInv'
  BY <1>2, <1>5 DEF HInv, TodoInv
<1>11. QueueInv'
  <2>1. SUFFICES ASSUME NEW r \in PE, NEW k \in DOMAIN cmd_queue'[r]
                 PROVE  /\ pc'[cmd_queue'[r][k]] = "greeting" /\ Min(todo'[cmd_queue'[r][k]]) = r
                        /\ hello'[cmd_queue'[r][k]][r] # "greeting"
                        /\ \A m \in DOMAIN cmd_queue'[r] : cmd_queue'[r][m] = cmd_queue'[r][k] => m = k
    BY DEF QueueInv, CallsOn
  <2>2. CASE r # q
    BY <1>2, <1>4, <1>8, <2>2 DEF HInv, QueueInv, CallsOn
  <2>3. CASE r = q
    <3>1. PICK R : R = cmd_queue'[q]
      OBVIOUS
    <3>2. R = Append(Q, p)
      BY <1>4, <3>1
    <3>3. \A m \in DOMAIN R :
            \/ m \in DOMAIN Q /\ R[m] = Q[m]
            \/ m = Len(Q) + 1 /\ R[m] = p
      <4>1. \A m \in DOMAIN Append(Q, p) :
          \/ m \in DOMAIN Q /\ Append(Q, p)[m] = Q[m]
          \/ m = Len(Q) + 1 /\ Append(Q, p)[m] = p
        BY AppendFacts, Zenon
      <4> QED BY <3>2, <4>1, Zenon
    <3>4. \A m \in DOMAIN Q : /\ Q[m] \in PE /\ Q[m] # p /\ CallsOn(Q[m], q, "greeting") /\ hello[Q[m]][q] # "greeting"
                             /\ \A n \in DOMAIN Q : Q[n] = Q[m] => n = m
      BY <1>3, <1>8 DEF HInv, QueueInv
    <3>5. k \in DOMAIN R
      BY <2>3, <3>1
    <3>6. PICK x : x = R[k]
      OBVIOUS
    <3>7. x \in PE /\ CallsOn(x, q, "greeting")' /\ hello[x][q] # "greeting"
      BY <1>6, <1>7, <1>9, <3>3, <3>4, <3>5, <3>6
    <3>9. pc'[x] = "greeting" /\ Min(todo'[x]) = q
      BY <3>7 DEF CallsOn
    <3>8. \A m \in DOMAIN R : R[m] = R[k] => m = k
      BY <3>3, <3>4, <3>5
    <3> QED BY <1>2, <2>3, <3>1, <3>6, <3>7, <3>8, <3>9
  <2> QED BY <2>2, <2>3
<1>12. HelloInv'
  BY <1>2 DEF HInv, HelloInv
<1>13. \A r, x \in PE : Greeted(r, x) => Greeted(r, x)'
  <2>1. SUFFICES ASSUME NEW r \in PE, NEW x \in PE, Greeted(r, x) PROVE Greeted(r, x)'
    OBVIOUS
  <2>2. x # p /\ r # p
    BY <1>2, <1>7, <2>1 DEF Greeted
  <2>3. \A k \in DOMAIN cmd_queue'[r] : cmd_queue'[r][k] # x
    <3>1. CASE r # q
      BY <1>4, <2>1, <3>1 DEF Greeted
    <3>2. CASE r = q
      <4>1. PICK R : R = cmd_queue'[q] /\ R = Append(Q, p)
        BY <1>4
      <4>2. \A m \in DOMAIN R :
            \/ m \in DOMAIN Q /\ R[m] = Q[m]
            \/ m = Len(Q) + 1 /\ R[m] = p
        <5>1. \A m \in DOMAIN Append(Q, p) :
          \/ m \in DOMAIN Q /\ Append(Q, p)[m] = Q[m]
          \/ m = Len(Q) + 1 /\ Append(Q, p)[m] = p
          BY AppendFacts, Zenon
        <5> QED BY <4>1, <5>1, Zenon
      <4>3. \A m \in DOMAIN Q : Q[m] # x
        BY <1>3, <2>1, <3>2 DEF Greeted
      <4> QED BY <2>2, <3>2, <4>1, <4>2, <4>3
    <3> QED BY <3>1, <3>2
  <2> QED BY <1>2, <1>6, <2>1, <2>2, <2>3 DEF Greeted
<1>14. \A r, x \in PE : r # p /\ Answered(r, x) => Answered(r, x)'
  BY <1>2, <1>6, <1>7 DEF Answered
<1>15. ServerInv'
  <2>1. SUFFICES ASSUME NEW r \in PE
                 PROVE  IF pc'[r] \in {"identify", "accept_data"}
                        THEN \E x \in PE : peer'[r] = x /\ Remote(r, x)' /\ (Greeted(r, x)' \/ Answered(r, x)')
                        ELSE data_queue'[r] = << >>
    BY DEF ServerInv
  <2>2. IF pc[r] \in {"identify", "accept_data"}
        THEN \E x \in PE : peer[r] = x /\ Remote(r, x) /\ (Greeted(r, x) \/ Answered(r, x))
        ELSE data_queue[r] = << >>
    BY DEF HInv, ServerInv
  <2> QED BY <1>2, <1>5, <1>13, <1>14, <2>2
<1>16. ClientInv'
  <2>1. SUFFICES ASSUME NEW r \in PE, NEW x \in PE, CallsOn(x, r, "connect_data")'
                 PROVE  /\ pc'[r] \in {"identify", "accept_data"} /\ peer'[r] = x
                        /\ data_queue'[r] = << >>
    BY DEF ClientInv
  <2>2. x # p
    BY <1>2, <2>1 DEF CallsOn
  <2>3. CallsOn(x, r, "connect_data")
    BY <1>6, <2>1, <2>2
  <2>4. pc[r] \in {"identify", "accept_data"} /\ peer[r] = x /\ data_queue[r] = << >>
    BY <2>3 DEF HInv, ClientInv
  <2> QED BY <1>2, <2>4
<1> QED BY <1>10, <1>11, <1>12, <1>15, <1>16 DEF HInv

(* A client that has read the greeting has the server it answers to        *)
(* itself.                                                                 *)
LEMMA GreetingStep ==
  ASSUME TypeOK, HInv, map' = map, NEW p \in PE, Greeting(p)
  PROVE  HInv'
<1>0. pc[p] = "greeting" /\ todo[p] # {}
  BY DEF Greeting, HInv, TodoInv
<1>1. PICK q \in PE : q = Min(todo[p])
  BY <1>0, ConnectFacts
<1>2. /\ pc'[p] = "connect_data" /\ \A r \in PE : r # p => pc'[r] = pc[r]
      /\ todo' = todo /\ peer' = peer /\ data_queue' = data_queue /\ cmd_queue' = cmd_queue
  BY DEF Greeting, TypeOK, serverVars
<1>3. /\ hello[p][q] = "greeting" /\ hello'[p][q] = "pe"
      /\ \A x, r \in PE : (x # p \/ r # q) => hello'[x][r] = hello[x][r]
  <2>1. hello[p][q] = "greeting" /\ hello' = [hello EXCEPT ![p][q] = "pe"]
    BY <1>1 DEF Greeting
  <2> QED BY <2>1 DEF TypeOK
<1>4. pc[q] = "identify" /\ peer[q] = p /\ q # p
  BY <1>0, <1>3 DEF HInv, HelloInv
<1>5. Greeted(q, p) /\ Remote(q, p)
  BY <1>3, <1>4 DEF HInv, ServerInv, Answered
<1>6. \A x, r : Remote(x, r)' <=> Remote(x, r)
  BY DEF Remote
<1>7. \A x \in PE : \A r, at : x # p => (CallsOn(x, r, at)' <=> CallsOn(x, r, at))
  BY <1>2 DEF CallsOn
<1>8. /\ CallsOn(p, q, "connect_data")'
      /\ \A r : CallsOn(p, r, "connect_data")' => r = q
      /\ \A r : CallsOn(p, r, "greeting") => r = q
      /\ \A r : ~CallsOn(p, r, "connect_data")
  BY <1>0, <1>1, <1>2 DEF CallsOn
<1>9. TodoInv'
  <2>1. SUFFICES ASSUME NEW r \in PE
                 PROVE  /\ \A x \in todo'[r] : Remote(r, x)'
                        /\ pc'[r] \in {"greeting", "connect_data"} => todo'[r] # {}
    BY DEF TodoInv
  <2> QED BY <1>0, <1>2, <1>6 DEF HInv, TodoInv
<1>10. QueueInv'
  <2>1. SUFFICES ASSUME NEW r \in PE, NEW k \in DOMAIN cmd_queue[r]
                 PROVE  /\ pc'[cmd_queue[r][k]] = "greeting" /\ Min(todo'[cmd_queue[r][k]]) = r
                        /\ hello'[cmd_queue[r][k]][r] # "greeting"
                        /\ \A m \in DOMAIN cmd_queue[r] : cmd_queue[r][m] = cmd_queue[r][k] => m = k
    BY <1>2 DEF QueueInv, CallsOn
  <2>2. PICK x \in PE : x = cmd_queue[r][k]
    BY DEF TypeOK
  <2>3. CallsOn(x, r, "greeting") /\ hello[x][r] # "greeting"
        /\ \A m \in DOMAIN cmd_queue[r] : cmd_queue[r][m] = cmd_queue[r][k] => m = k
    BY <2>2 DEF HInv, QueueInv
  <2>4. x # p
    BY <1>5, <1>8, <2>2, <2>3 DEF Greeted
  <2>5. CallsOn(x, r, "greeting")' /\ hello'[x][r] # "greeting"
    BY <1>3, <1>7, <2>3, <2>4
  <2> QED BY <2>2, <2>3, <2>5 DEF CallsOn
<1>11. HelloInv'
  <2>1. SUFFICES ASSUME NEW r \in PE, NEW x \in PE, hello'[x][r] # "none"
                 PROVE  pc'[r] = "identify" /\ peer'[r] = x
    BY DEF HelloInv
  <2>2. CASE x = p /\ r = q
    BY <1>2, <1>4, <2>2
  <2>3. CASE x # p \/ r # q
    <3>1. hello[x][r] # "none"
      BY <1>3, <2>1, <2>3
    <3>2. pc[r] = "identify" /\ peer[r] = x
      BY <3>1 DEF HInv, HelloInv
    <3> QED BY <1>0, <1>2, <3>2
  <2> QED BY <2>2, <2>3
<1>12. ServerInv'
  <2>1. SUFFICES ASSUME NEW r \in PE
                 PROVE  IF pc'[r] \in {"identify", "accept_data"}
                        THEN \E x \in PE : peer'[r] = x /\ Remote(r, x)' /\ (Greeted(r, x)' \/ Answered(r, x)')
                        ELSE data_queue'[r] = << >>
    BY DEF ServerInv
  <2>2. IF pc[r] \in {"identify", "accept_data"}
        THEN \E x \in PE : peer[r] = x /\ Remote(r, x) /\ (Greeted(r, x) \/ Answered(r, x))
        ELSE data_queue[r] = << >>
    BY DEF HInv, ServerInv
  <2>3. CASE r = p
    BY <1>0, <1>2, <2>2, <2>3
  <2>4. CASE r = q
    <3>1. Answered(q, p)'
      BY <1>2, <1>3, <1>5, <1>8 DEF Answered, Greeted
    <3> QED BY <1>2, <1>4, <1>5, <1>6, <2>4, <3>1
  <2>5. CASE r # p /\ r # q
    <3>1. \A x \in PE : Greeted(r, x) => Greeted(r, x)'
      BY <1>2, <1>3, <1>7, <1>8, <2>5 DEF Greeted
    <3>2. \A x \in PE : Answered(r, x) => Answered(r, x)'
      BY <1>2, <1>3, <1>7, <1>8, <2>5 DEF Answered
    <3> QED BY <1>2, <1>6, <2>2, <2>5, <3>1, <3>2
  <2> QED BY <2>3, <2>4, <2>5
<1>13. ClientInv'
  <2>1. SUFFICES ASSUME NEW r \in PE, NEW x \in PE, CallsOn(x, r, "connect_data")'
                 PROVE  /\ pc'[r] \in {"identify", "accept_data"} /\ peer'[r] = x
                        /\ data_queue'[r] = << >>
    BY DEF ClientInv
  <2>2. CASE x = p
    BY <1>2, <1>4, <1>5, <1>8, <2>1, <2>2 DEF Greeted
  <2>3. CASE x # p
    <3>1. CallsOn(x, r, "connect_data")
      BY <1>7, <2>1, <2>3
    <3>2. pc[r] \in {"identify", "accept_data"} /\ peer[r] = x /\ data_queue[r] = << >>
      BY <3>1 DEF HInv, ClientInv
    <3> QED BY <1>0, <1>2, <3>2
  <2> QED BY <2>2, <2>3
<1> QED BY <1>9, <1>10, <1>11, <1>12, <1>13 DEF HInv

(* The data connection arrives at a server with an empty queue that has    *)
(* accepted this client.                                                   *)
LEMMA ConnectDataStep ==
  ASSUME TypeOK, HInv, map' = map, NEW p \in PE, ConnectData(p)
  PROVE  HInv'
<1>0. pc[p] = "connect_data" /\ todo[p] # {}
  BY DEF ConnectData, HInv, TodoInv
<1>1. PICK q \in PE : q = Min(todo[p])
  BY <1>0, ConnectFacts
<1>2. /\ pc'[p] = "client" /\ \A r \in PE : r # p => pc'[r] = pc[r]
      /\ todo'[p] \subseteq todo[p] /\ \A r \in PE : r # p => todo'[r] = todo[r]
      /\ peer' = peer /\ cmd_queue' = cmd_queue /\ hello' = hello
  <2>1. todo' = [todo EXCEPT ![p] = @ \ {q}]
    BY <1>1 DEF ConnectData
  <2> QED BY <2>1 DEF ConnectData, TypeOK
<1>3. CallsOn(p, q, "connect_data")
  BY <1>0, <1>1 DEF CallsOn
<1>4. pc[q] \in {"identify", "accept_data"} /\ peer[q] = p /\ data_queue[q] = << >> /\ q # p
  BY <1>0, <1>3 DEF HInv, ClientInv
<1>5. data_queue'[q] = <<p>> /\ \A r \in PE : r # q => data_queue'[r] = data_queue[r]
  <2>1. data_queue' = [data_queue EXCEPT ![q] = Append(@, p)]
    BY <1>1 DEF ConnectData, network_connect
  <2>2. data_queue'[q] = Append(<< >>, p)
    BY <1>4, <2>1 DEF TypeOK
  <2>3. Append(<< >>, p) = <<p>>
    OBVIOUS
  <2> QED BY <2>1, <2>2, <2>3 DEF TypeOK
<1>6. \A x, r : Remote(x, r)' <=> Remote(x, r)
  BY DEF Remote
<1>7. \A x \in PE : \A r, at : x # p => (CallsOn(x, r, at)' <=> CallsOn(x, r, at))
  BY <1>2 DEF CallsOn
<1>8. /\ \A r : ~CallsOn(p, r, "connect_data")' /\ ~CallsOn(p, r, "greeting")
      /\ \A r : CallsOn(p, r, "connect_data") => r = q
  BY <1>0, <1>1, <1>2 DEF CallsOn
<1>9. TodoInv'
  <2>1. SUFFICES ASSUME NEW r \in PE
                 PROVE  /\ \A x \in todo'[r] : Remote(r, x)'
                        /\ pc'[r] \in {"greeting", "connect_data"} => todo'[r] # {}
    BY DEF TodoInv
  <2> QED BY <1>0, <1>2, <1>6 DEF HInv, TodoInv
<1>10. QueueInv'
  <2>1. \A r \in PE : \A k \in DOMAIN cmd_queue[r] : cmd_queue[r][k] \in PE /\ cmd_queue[r][k] # p
    BY <1>8 DEF TypeOK, HInv, QueueInv
  <2> QED BY <1>2, <1>7, <2>1 DEF HInv, QueueInv
<1>11. HelloInv'
  BY <1>0, <1>2 DEF HInv, HelloInv
<1>12. ServerInv'
  <2>1. SUFFICES ASSUME NEW r \in PE
                 PROVE  IF pc'[r] \in {"identify", "accept_data"}
                        THEN \E x \in PE : peer'[r] = x /\ Remote(r, x)' /\ (Greeted(r, x)' \/ Answered(r, x)')
                        ELSE data_queue'[r] = << >>
    BY DEF ServerInv
  <2>2. IF pc[r] \in {"identify", "accept_data"}
        THEN \E x \in PE : peer[r] = x /\ Remote(r, x) /\ (Greeted(r, x) \/ Answered(r, x))
        ELSE data_queue[r] = << >>
    BY DEF HInv, ServerInv
  <2>3. CASE r = p
    BY <1>0, <1>2, <1>4, <1>5, <2>2, <2>3
  <2>4. CASE r = q
    <3>1. Remote(q, p) /\ Answered(q, p)
      BY <1>4, <1>8, <2>2, <2>4 DEF Greeted
    <3>2. Answered(q, p)'
      BY <1>2, <1>4, <1>5, <3>1 DEF Answered
    <3> QED BY <1>2, <1>4, <1>6, <2>4, <3>1, <3>2
  <2>5. CASE r # p /\ r # q
    <3>1. \A x \in PE : Greeted(r, x) => Greeted(r, x)'
      BY <1>2, <1>5, <1>7, <1>8, <2>5 DEF Greeted
    <3>2. \A x \in PE : Answered(r, x) => Answered(r, x)'
      BY <1>2, <1>5, <1>7, <1>8, <2>5 DEF Answered
    <3> QED BY <1>2, <1>5, <1>6, <2>2, <2>5, <3>1, <3>2
  <2> QED BY <2>3, <2>4, <2>5
<1>13. ClientInv'
  <2>1. SUFFICES ASSUME NEW r \in PE, NEW x \in PE, CallsOn(x, r, "connect_data")'
                 PROVE  /\ pc'[r] \in {"identify", "accept_data"} /\ peer'[r] = x
                        /\ data_queue'[r] = << >>
    BY DEF ClientInv
  <2>2. x # p
    BY <1>8, <2>1
  <2>3. CallsOn(x, r, "connect_data")
    BY <1>7, <2>1, <2>2
  <2>4. pc[r] \in {"identify", "accept_data"} /\ peer[r] = x /\ data_queue[r] = << >>
    BY <2>3 DEF HInv, ClientInv
  <2>5. r # q /\ r # p
    BY <1>0, <1>4, <2>2, <2>4
  <2> QED BY <1>2, <1>5, <2>4, <2>5
<1> QED BY <1>9, <1>10, <1>11, <1>12, <1>13 DEF HInv

(* A server between two handshakes takes the first connection of its       *)
(* backlog and greets it.                                                  *)
LEMMA AcceptStep ==
  ASSUME TypeOK, Symmetric, HInv, map' = map, NEW p \in PE, Accept(p)
  PROVE  HInv'
<1>1. PICK Q \in Seq(PE) : Q = cmd_queue[p] /\ Q # << >>
  BY DEF TypeOK, Accept
<1>2. /\ pc[p] = "serve" /\ pc'[p] = "identify" /\ \A r \in PE : r # p => pc'[r] = pc[r]
      /\ todo' = todo /\ data_queue' = data_queue
      /\ \A r \in PE : r # p => peer'[r] = peer[r]
      /\ \A r \in PE : r # p => cmd_queue'[r] = cmd_queue[r]
  BY DEF Accept, TypeOK, network_accept_2
<1>3. PICK q \in PE : q = Q[1] /\ q = Head(Q) /\ 1 \in DOMAIN Q
  BY <1>1, TailFacts
<1>4. /\ peer'[p] = q /\ hello'[q][p] = "greeting"
      /\ \A x, r \in PE : (x # q \/ r # p) => hello'[x][r] = hello[x][r]
  <2>1. peer' = [peer EXCEPT ![p] = q] /\ hello' = [hello EXCEPT ![q][p] = "greeting"]
    BY <1>1, <1>3 DEF Accept
  <2> QED BY <2>1 DEF TypeOK
<1>5. \A x, r : Remote(x, r)' <=> Remote(x, r)
  BY DEF Remote
<1>6. \A x \in PE : \A r, at : x # p => (CallsOn(x, r, at)' <=> CallsOn(x, r, at))
  BY <1>2 DEF CallsOn
<1>7. CallsOn(q, p, "greeting") /\ \A k \in DOMAIN Q : Q[k] = q => k = 1
  BY <1>1, <1>3 DEF HInv, QueueInv
<1>8. q # p
  BY <1>2, <1>7 DEF CallsOn
<1>9. Remote(p, q)
  <2>1. pc[q] = "greeting" /\ Min(todo[q]) = p /\ todo[q] # {}
    BY <1>7 DEF CallsOn, HInv, TodoInv
  <2>2. p \in todo[q]
    BY <2>1, ConnectFacts
  <2> QED BY <2>2 DEF HInv, TodoInv, Symmetric
<1>10. PICK R : R = cmd_queue'[p]
  OBVIOUS
<1>11. \A k \in DOMAIN R : k + 1 \in DOMAIN Q /\ k \in Nat /\ k + 1 # 1 /\ R[k] = Q[k + 1]
  <2>1. R = Tail(Q)
    BY <1>1, <1>10 DEF Accept, TypeOK, network_accept_2
  <2>2. \A k \in DOMAIN Tail(Q) : k + 1 \in DOMAIN Q /\ k \in Nat /\ k + 1 # 1 /\ Tail(Q)[k] = Q[k + 1]
    BY <1>1, TailFacts, Zenon
  <2> QED BY <2>1, <2>2, Zenon
<1>12. \A k \in DOMAIN R : R[k] # q
  BY <1>7, <1>11
<1>13. \A x, r \in PE : CallsOn(x, r, "greeting") \/ CallsOn(x, r, "connect_data") => x # p
  BY <1>2 DEF CallsOn
<1>14. TodoInv'
  <2>1. SUFFICES ASSUME NEW r \in PE
                 PROVE  /\ \A x \in todo'[r] : Remote(r, x)'
                        /\ pc'[r] \in {"greeting", "connect_data"} => todo'[r] # {}
    BY DEF TodoInv
  <2> QED BY <1>2, <1>5 DEF HInv, TodoInv
<1>15. QueueInv'
  <2>1. SUFFICES ASSUME NEW r \in PE, NEW k \in DOMAIN cmd_queue'[r]
                 PROVE  /\ pc'[cmd_queue'[r][k]] = "greeting" /\ Min(todo'[cmd_queue'[r][k]]) = r
                        /\ hello'[cmd_queue'[r][k]][r] # "greeting"
                        /\ \A m \in DOMAIN cmd_queue'[r] : cmd_queue'[r][m] = cmd_queue'[r][k] => m = k
    BY DEF QueueInv, CallsOn
  <2>2. CASE r # p
    <3>2. k \in DOMAIN cmd_queue[r] /\ cmd_queue'[r] = cmd_queue[r]
      BY <1>2, <2>2
    <3>1. PICK x \in PE : x = cmd_queue[r][k]
      BY <3>2 DEF TypeOK
    <3>3. CallsOn(x, r, "greeting") /\ hello[x][r] # "greeting"
          /\ \A m \in DOMAIN cmd_queue[r] : cmd_queue[r][m] = cmd_queue[r][k] => m = k
      BY <3>1, <3>2 DEF HInv, QueueInv
    <3>4. pc'[x] = "greeting" /\ Min(todo'[x]) = r /\ hello'[x][r] # "greeting"
      BY <1>2, <1>4, <1>13, <2>2, <3>3 DEF CallsOn
    <3> QED BY <3>1, <3>2, <3>3, <3>4
  <2>3. CASE r = p
    <3>1. k \in DOMAIN R /\ cmd_queue'[r] = R
      BY <1>10, <2>3
    <3>2. PICK n : n = k + 1
      OBVIOUS
    <3>3. n \in DOMAIN Q /\ R[k] = Q[n]
      BY <1>11, <3>1, <3>2
    <3>4. PICK x \in PE : x = R[k]
      BY <3>3
    <3>5. CallsOn(x, p, "greeting") /\ hello[x][p] # "greeting"
          /\ \A m \in DOMAIN Q : Q[m] = x => m = n
      BY <1>1, <3>3, <3>4 DEF HInv, QueueInv
    <3>6. x # q
      BY <1>12, <3>1, <3>4
    <3>7. pc'[x] = "greeting" /\ Min(todo'[x]) = p /\ hello'[x][p] # "greeting"
      BY <1>2, <1>4, <1>13, <3>5, <3>6 DEF CallsOn
    <3>8. ASSUME NEW m \in DOMAIN R, R[m] = x PROVE m = k
      <4>1. m + 1 = n
        BY <1>11, <3>5, <3>8
      <4>2. m \in Nat /\ k \in Nat
        BY <1>11, <3>1
      <4> QED BY <3>2, <4>1, <4>2
    <3> QED BY <2>3, <3>1, <3>4, <3>7, <3>8
  <2> QED BY <2>2, <2>3
<1>16. HelloInv'
  <2>1. SUFFICES ASSUME NEW r \in PE, NEW x \in PE, hello'[x][r] # "none"
                 PROVE  pc'[r] = "identify" /\ peer'[r] = x
    BY DEF HelloInv
  <2>2. CASE x = q /\ r = p
    BY <1>2, <1>4, <2>2
  <2>3. CASE x # q \/ r # p
    <3>1. hello[x][r] # "none"
      BY <1>4, <2>1, <2>3
    <3>2. pc[r] = "identify" /\ peer[r] = x
      BY <3>1 DEF HInv, HelloInv
    <3> QED BY <1>2, <3>2
  <2> QED BY <2>2, <2>3
<1>17. ServerInv'
  <2>1. SUFFICES ASSUME NEW r \in PE
                 PROVE  IF pc'[r] \in {"identify", "accept_data"}
                        THEN \E x \in PE : peer'[r] = x /\ Remote(r, x)' /\ (Greeted(r, x)' \/ Answered(r, x)')
                        ELSE data_queue'[r] = << >>
    BY DEF ServerInv
  <2>2. IF pc[r] \in {"identify", "accept_data"}
        THEN \E x \in PE : peer[r] = x /\ Remote(r, x) /\ (Greeted(r, x) \/ Answered(r, x))
        ELSE data_queue[r] = << >>
    BY DEF HInv, ServerInv
  <2>3. CASE r = p
    <3>1. data_queue[p] = << >>
      BY <1>2, <2>2, <2>3
    <3>2. CallsOn(q, p, "greeting")'
      BY <1>6, <1>7, <1>8
    <3>3. Greeted(p, q)'
      BY <1>2, <1>4, <1>10, <1>12, <3>1, <3>2 DEF Greeted
    <3> QED BY <1>2, <1>4, <1>5, <1>9, <2>3, <3>3
  <2>4. CASE r # p
    <3>1. \A x \in PE : Greeted(r, x) => Greeted(r, x)'
      BY <1>2, <1>4, <1>6, <1>13, <2>4 DEF Greeted
    <3>2. \A x \in PE : Answered(r, x) => Answered(r, x)'
      BY <1>2, <1>4, <1>6, <1>13, <2>4 DEF Answered
    <3> QED BY <1>2, <1>5, <2>2, <2>4, <3>1, <3>2
  <2> QED BY <2>3, <2>4
<1>18. ClientInv'
  <2>1. SUFFICES ASSUME NEW r \in PE, NEW x \in PE, CallsOn(x, r, "connect_data")'
                 PROVE  /\ pc'[r] \in {"identify", "accept_data"} /\ peer'[r] = x
                        /\ data_queue'[r] = << >>
    BY DEF ClientInv
  <2>2. x # p
    BY <1>2, <2>1 DEF CallsOn
  <2>3. CallsOn(x, r, "connect_data")
    BY <1>6, <2>1, <2>2
  <2>4. pc[r] \in {"identify", "accept_data"} /\ peer[r] = x /\ data_queue[r] = << >>
    BY <2>3 DEF HInv, ClientInv
  <2> QED BY <1>2, <2>4
<1> QED BY <1>14, <1>15, <1>16, <1>17, <1>18 DEF HInv

(* The number a server reads is that of the client it accepted, a remote   *)
(* PE.                                                                     *)
LEMMA IdentifyStep ==
  ASSUME TypeOK, HInv, map' = map, NEW p \in PE, Identify(p)
  PROVE  HInv' /\ peer[p] \in PE /\ Remote(p, peer[p])
<1>1. pc[p] = "identify" /\ hello[peer[p]][p] = "pe"
  BY DEF Identify
<1>2. /\ pc[p] = "identify" /\ pc'[p] = "accept_data" /\ \A r \in PE : r # p => pc'[r] = pc[r]
      /\ todo' = todo /\ peer' = peer /\ data_queue' = data_queue /\ cmd_queue' = cmd_queue
  BY DEF Identify, TypeOK, serverVars
<1>3. PICK q \in PE : peer[p] = q /\ Remote(p, q) /\ Answered(p, q)
  BY <1>1 DEF HInv, ServerInv, Greeted
<1>4. /\ hello'[q][p] = "none"
      /\ \A x, r \in PE : (x # q \/ r # p) => hello'[x][r] = hello[x][r]
  <2>1. hello' = [hello EXCEPT ![q][p] = "none"]
    BY <1>3 DEF Identify
  <2> QED BY <2>1 DEF TypeOK
<1>5. \A x, r : Remote(x, r)' <=> Remote(x, r)
  BY DEF Remote
<1>6. \A x \in PE : \A r, at : x # p => (CallsOn(x, r, at)' <=> CallsOn(x, r, at))
  BY <1>2 DEF CallsOn
<1>7. \A x, r \in PE : CallsOn(x, r, "greeting") \/ CallsOn(x, r, "connect_data") => x # p
  BY <1>2 DEF CallsOn
<1>8. TodoInv'
  <2>1. SUFFICES ASSUME NEW r \in PE
                 PROVE  /\ \A x \in todo'[r] : Remote(r, x)'
                        /\ pc'[r] \in {"greeting", "connect_data"} => todo'[r] # {}
    BY DEF TodoInv
  <2> QED BY <1>2, <1>5 DEF HInv, TodoInv
<1>9. QueueInv'
  <2>1. SUFFICES ASSUME NEW r \in PE, NEW k \in DOMAIN cmd_queue[r]
                 PROVE  /\ pc'[cmd_queue[r][k]] = "greeting" /\ Min(todo'[cmd_queue[r][k]]) = r
                        /\ hello'[cmd_queue[r][k]][r] # "greeting"
                        /\ \A m \in DOMAIN cmd_queue[r] : cmd_queue[r][m] = cmd_queue[r][k] => m = k
    BY <1>2 DEF QueueInv, CallsOn
  <2>2. PICK x \in PE : x = cmd_queue[r][k]
    BY DEF TypeOK
  <2>3. CallsOn(x, r, "greeting") /\ hello[x][r] # "greeting"
        /\ \A m \in DOMAIN cmd_queue[r] : cmd_queue[r][m] = cmd_queue[r][k] => m = k
    BY <2>2 DEF HInv, QueueInv
  <2>4. pc'[x] = "greeting" /\ Min(todo'[x]) = r
    BY <1>2, <1>7, <2>3 DEF CallsOn
  <2>5. hello'[x][r] # "greeting"
    BY <1>4, <2>3
  <2> QED BY <2>2, <2>3, <2>4, <2>5
<1>10. HelloInv'
  <2>1. SUFFICES ASSUME NEW r \in PE, NEW x \in PE, hello'[x][r] # "none"
                 PROVE  pc'[r] = "identify" /\ peer'[r] = x
    BY DEF HelloInv
  <2>2. x # q \/ r # p
    BY <1>4, <2>1
  <2>3. hello[x][r] # "none"
    BY <1>4, <2>1, <2>2
  <2>4. pc[r] = "identify" /\ peer[r] = x
    BY <2>3 DEF HInv, HelloInv
  <2> QED BY <1>2, <1>3, <2>2, <2>4
<1>11. ServerInv'
  <2>1. SUFFICES ASSUME NEW r \in PE
                 PROVE  IF pc'[r] \in {"identify", "accept_data"}
                        THEN \E x \in PE : peer'[r] = x /\ Remote(r, x)' /\ (Greeted(r, x)' \/ Answered(r, x)')
                        ELSE data_queue'[r] = << >>
    BY DEF ServerInv
  <2>2. IF pc[r] \in {"identify", "accept_data"}
        THEN \E x \in PE : peer[r] = x /\ Remote(r, x) /\ (Greeted(r, x) \/ Answered(r, x))
        ELSE data_queue[r] = << >>
    BY DEF HInv, ServerInv
  <2>3. CASE r = p
    <3>1. Answered(p, q)'
      BY <1>2, <1>3, <1>6, <1>7 DEF Answered
    <3> QED BY <1>2, <1>3, <1>5, <2>3, <3>1
  <2>4. CASE r # p
    <3>1. \A x \in PE : Greeted(r, x) => Greeted(r, x)'
      BY <1>2, <1>4, <1>6, <1>7, <2>4 DEF Greeted
    <3>2. \A x \in PE : Answered(r, x) => Answered(r, x)'
      BY <1>2, <1>4, <1>6, <1>7, <2>4 DEF Answered
    <3> QED BY <1>2, <1>5, <2>2, <2>4, <3>1, <3>2
  <2> QED BY <2>3, <2>4
<1>12. ClientInv'
  <2>1. SUFFICES ASSUME NEW r \in PE, NEW x \in PE, CallsOn(x, r, "connect_data")'
                 PROVE  /\ pc'[r] \in {"identify", "accept_data"} /\ peer'[r] = x
                        /\ data_queue'[r] = << >>
    BY DEF ClientInv
  <2>2. x # p
    BY <1>2, <2>1 DEF CallsOn
  <2>3. CallsOn(x, r, "connect_data")
    BY <1>6, <2>1, <2>2
  <2>4. pc[r] \in {"identify", "accept_data"} /\ peer[r] = x /\ data_queue[r] = << >>
    BY <2>3 DEF HInv, ClientInv
  <2> QED BY <1>2, <2>4
<1> QED BY <1>3, <1>8, <1>9, <1>10, <1>11, <1>12 DEF HInv

(* The data connection a server accepts is that of the client it has       *)
(* identified.                                                             *)
LEMMA AcceptDataStep ==
  ASSUME TypeOK, HInv, map' = map, NEW p \in PE, AcceptData(p)
  PROVE  HInv' /\ \E q \in PE : peer[p] = q /\ Remote(p, q) /\ data_queue[p] = <<q>>
<1>1. pc[p] = "accept_data" /\ data_queue[p] # << >>
  BY DEF AcceptData
<1>2. /\ pc[p] = "accept_data" /\ pc'[p] = "serve" /\ \A r \in PE : r # p => pc'[r] = pc[r]
      /\ \A r \in PE : r # p => todo'[r] = todo[r] /\ peer'[r] = peer[r]
      /\ todo'[p] \subseteq todo[p]
      /\ cmd_queue' = cmd_queue /\ hello' = hello
  BY DEF AcceptData, TypeOK
<1>3. PICK q \in PE : peer[p] = q /\ Remote(p, q) /\ Answered(p, q) /\ data_queue[p] = <<q>>
  BY <1>1 DEF HInv, ServerInv, Greeted, Answered
<1>4. data_queue'[p] = << >> /\ \A r \in PE : r # p => data_queue'[r] = data_queue[r]
  <2>1. data_queue' = [data_queue EXCEPT ![p] = Tail(@)]
    BY DEF AcceptData, network_accept_2
  <2>2. Tail(<<q>>) = << >>
    OBVIOUS
  <2> QED BY <1>3, <2>1, <2>2 DEF TypeOK
<1>5. \A x, r : Remote(x, r)' <=> Remote(x, r)
  BY DEF Remote
<1>6. \A x \in PE : \A r, at : x # p => (CallsOn(x, r, at)' <=> CallsOn(x, r, at))
  BY <1>2 DEF CallsOn
<1>7. \A x, r \in PE : CallsOn(x, r, "greeting") \/ CallsOn(x, r, "connect_data") => x # p
  BY <1>2 DEF CallsOn
<1>8. TodoInv'
  <2>1. SUFFICES ASSUME NEW r \in PE
                 PROVE  /\ \A x \in todo'[r] : Remote(r, x)'
                        /\ pc'[r] \in {"greeting", "connect_data"} => todo'[r] # {}
    BY DEF TodoInv
  <2> QED BY <1>2, <1>5 DEF HInv, TodoInv
<1>9. QueueInv'
  <2>1. \A r \in PE : \A k \in DOMAIN cmd_queue[r] : cmd_queue[r][k] \in PE /\ cmd_queue[r][k] # p
    BY <1>7 DEF TypeOK, HInv, QueueInv
  <2> QED BY <1>2, <1>6, <2>1 DEF HInv, QueueInv
<1>10. HelloInv'
  BY <1>2 DEF HInv, HelloInv
<1>11. ServerInv'
  <2>1. SUFFICES ASSUME NEW r \in PE
                 PROVE  IF pc'[r] \in {"identify", "accept_data"}
                        THEN \E x \in PE : peer'[r] = x /\ Remote(r, x)' /\ (Greeted(r, x)' \/ Answered(r, x)')
                        ELSE data_queue'[r] = << >>
    BY DEF ServerInv
  <2>2. IF pc[r] \in {"identify", "accept_data"}
        THEN \E x \in PE : peer[r] = x /\ Remote(r, x) /\ (Greeted(r, x) \/ Answered(r, x))
        ELSE data_queue[r] = << >>
    BY DEF HInv, ServerInv
  <2>3. CASE r = p
    BY <1>2, <1>4, <2>3
  <2>4. CASE r # p
    <3>1. \A x \in PE : Greeted(r, x) => Greeted(r, x)'
      BY <1>2, <1>4, <1>6, <1>7, <2>4 DEF Greeted
    <3>2. \A x \in PE : Answered(r, x) => Answered(r, x)'
      BY <1>2, <1>4, <1>6, <1>7, <2>4 DEF Answered
    <3> QED BY <1>2, <1>4, <1>5, <2>2, <2>4, <3>1, <3>2
  <2> QED BY <2>3, <2>4
<1>12. ClientInv'
  <2>1. SUFFICES ASSUME NEW r \in PE, NEW x \in PE, CallsOn(x, r, "connect_data")'
                 PROVE  /\ pc'[r] \in {"identify", "accept_data"} /\ peer'[r] = x
                        /\ data_queue'[r] = << >>
    BY DEF ClientInv
  <2>2. x # p
    BY <1>2, <2>1 DEF CallsOn
  <2>3. CallsOn(x, r, "connect_data")
    BY <1>6, <2>1, <2>2
  <2>4. pc[r] \in {"identify", "accept_data"} /\ peer[r] = x /\ data_queue[r] = << >>
    BY <2>3 DEF HInv, ClientInv
  <2>5. r # p
    BY <1>1, <2>4
  <2> QED BY <1>2, <1>4, <2>4, <2>5
<1> QED BY <1>3, <1>8, <1>9, <1>10, <1>11, <1>12 DEF HInv

(* Every step keeps the invariant.                                         *)
LEMMA InvStep == IInv /\ [Next]_vars => IInv'
<1> SUFFICES ASSUME IInv, [Next]_vars PROVE IInv'
  OBVIOUS
<1>1. TypeOK /\ IndexesMatch /\ Symmetric /\ HInv /\ SocketsMatch /\ TodoInv
  BY DEF IInv, HInv
<1>2. /\ map' = map /\ local_pe' = local_pe
      /\ \A p : Slots(p)' = Slots(p)
      /\ \A p, q : Remote(p, q)' <=> Remote(p, q)
  BY MapStays
<1>3. TypeOK'
  BY <1>1, TypeStep
<1>4. IndexesMatch'
  BY <1>1, <1>2 DEF IndexesMatch
<1>5. Symmetric'
  BY <1>1, <1>2 DEF Symmetric
<1>6. ASSUME UNCHANGED <<cmd, data>> PROVE SocketsMatch'
  BY <1>1, <1>2, <1>6 DEF SocketsMatch
<1>7. HInv' /\ SocketsMatch'
  <2>1. CASE UNCHANGED vars
    <3>1. UNCHANGED <<pc, todo, peer, cmd_queue, data_queue, hello, cmd, data>>
      BY <2>1 DEF vars, serverVars
    <3> QED BY <1>1, <1>2, <1>6, <3>1 DEF HInv, TodoInv, QueueInv, HelloInv, ServerInv, ClientInv,
                                          CallsOn, Greeted, Answered
  <2>2. ASSUME NEW p \in PE, EnterLevel(p) PROVE HInv' /\ SocketsMatch'
    <3>0. \/ /\ pc' = [pc EXCEPT ![p] = "serve"]
             /\ \E a, b : todo' = [todo EXCEPT ![p] = Peers(p, a, b)]
          \/ /\ pc' = [pc EXCEPT ![p] = "client"]
             /\ \E a, b : todo' = [todo EXCEPT ![p] = Peers(p, a, b)]
      BY <2>2, Zenon DEF EnterLevel
    <3>1. PICK to, a, b : /\ to \in {"serve", "client"} /\ pc' = [pc EXCEPT ![p] = to]
                          /\ todo' = [todo EXCEPT ![p] = Peers(p, a, b)]
      BY <3>0, Zenon
    <3>2. pc[p] = "level" /\ UNCHANGED <<peer, cmd_queue, data_queue, hello, cmd, data>>
      BY <2>2 DEF EnterLevel, serverVars
    <3>3. todo'[p] = Peers(p, a, b) /\ \A r \in PE : r # p => todo'[r] = todo[r]
      BY <1>1, <3>1 DEF TypeOK
    <3>4. \A q \in todo'[p] : Remote(p, q)
      BY <3>3 DEF Peers
    <3> QED BY <1>1, <1>2, <1>6, <3>1, <3>2, <3>3, <3>4, QuietStep
  <2>3. ASSUME NEW p \in PE, LeaveLevel(p) \/ Return(p) PROVE HInv' /\ SocketsMatch'
    <3>1. PICK to : to \in {"level", "done"} /\ pc' = [pc EXCEPT ![p] = to]
      BY <2>3, Zenon DEF LeaveLevel, Return
    <3>2. /\ pc[p] \in {"serve", "client", "level"}
          /\ UNCHANGED <<todo, peer, cmd_queue, data_queue, hello, cmd, data>>
      BY <2>3 DEF LeaveLevel, Return, serverVars
    <3>3. \A q \in todo'[p] : Remote(p, q)
      BY <1>1, <3>2 DEF TodoInv
    <3> QED BY <1>1, <1>2, <1>6, <3>1, <3>2, <3>3, QuietStep
  <2>4. ASSUME NEW p \in PE, Connect(p) PROVE HInv' /\ SocketsMatch'
    <3>1. PICK q \in PE : q = Min(todo[p]) /\ q \in todo[p]
      BY <1>1, <2>4, ConnectFacts DEF Connect
    <3>2. Remote(p, q) /\ cmd' = [cmd EXCEPT ![p][map[p][q].index] = q] /\ data' = data
      BY <1>1, <2>4, <3>1 DEF Connect, TodoInv
    <3> QED BY <1>1, <1>2, <2>4, <3>2, ConnectStep, SocketsStep
  <2>5. ASSUME NEW p \in PE, Greeting(p) PROVE HInv' /\ SocketsMatch'
    BY <1>1, <1>2, <1>6, <2>5, GreetingStep DEF Greeting
  <2>6. ASSUME NEW p \in PE, ConnectData(p) PROVE HInv' /\ SocketsMatch'
    <3>1. PICK q \in PE : q = Min(todo[p]) /\ q \in todo[p]
      BY <1>1, <2>6, ConnectFacts DEF ConnectData, TodoInv
    <3>2. Remote(p, q) /\ data' = [data EXCEPT ![p][map[p][q].index] = q] /\ cmd' = cmd
      BY <1>1, <2>6, <3>1 DEF ConnectData, TodoInv
    <3> QED BY <1>1, <1>2, <2>6, <3>2, ConnectDataStep, SocketsStep
  <2>7. ASSUME NEW p \in PE, Accept(p) PROVE HInv' /\ SocketsMatch'
    BY <1>1, <1>2, <1>6, <2>7, AcceptStep DEF Accept
  <2>8. ASSUME NEW p \in PE, Identify(p) PROVE HInv' /\ SocketsMatch'
    <3>1. PICK q \in PE : q = peer[p] /\ Remote(p, q)
      BY <1>1, <1>2, <2>8, IdentifyStep
    <3>2. cmd' = [cmd EXCEPT ![p][map[p][q].index] = q] /\ data' = data
      BY <2>8, <3>1 DEF Identify
    <3> QED BY <1>1, <1>2, <2>8, <3>1, <3>2, IdentifyStep, SocketsStep
  <2>9. ASSUME NEW p \in PE, AcceptData(p) PROVE HInv' /\ SocketsMatch'
    <3>1. HInv' /\ \E q \in PE : peer[p] = q /\ Remote(p, q) /\ data_queue[p] = <<q>>
      BY <1>1, <1>2, <2>9, AcceptDataStep
    <3>2. PICK q \in PE : peer[p] = q /\ Remote(p, q) /\ data_queue[p] = <<q>>
      BY <3>1
    <3>3. Head(<<q>>) = q
      OBVIOUS
    <3>4. data' = [data EXCEPT ![p][map[p][q].index] = q] /\ cmd' = cmd
      BY <2>9, <3>2, <3>3 DEF AcceptData
    <3> QED BY <1>1, <1>2, <3>1, <3>2, <3>4, SocketsStep
  <2> QED BY <2>1, <2>2, <2>3, <2>4, <2>5, <2>6, <2>7, <2>8, <2>9 DEF Next, Step, Finished
<1> QED BY <1>3, <1>4, <1>5, <1>7 DEF IInv

(* The state of wireup keeps its type; in particular every index of the    *)
(* locality map is a PE number (comm_node_map_locality) and only existing  *)
(* slots are written.                                                      *)
THEOREM TypeCorrect == Spec => []TypeOK
<1>1. Spec => []IInv
  BY InitInv, InvStep, PTL DEF Spec
<1>2. IInv => TypeOK
  BY DEF IInv
<1> QED BY <1>1, <1>2, PTL

(* The index comm_node_map_locality gives a local PE is the number of its  *)
(* region (PMIX_LOCAL_RANK), and every remote PE has a slot of its own     *)
(* within the tables, for every placement.                                 *)
THEOREM IndexesAgree == Spec => []IndexesMatch
<1>1. Spec => []IInv
  BY InitInv, InvStep, PTL DEF Spec
<1>2. IInv => IndexesMatch
  BY DEF IInv
<1> QED BY <1>1, <1>2, PTL

(* A slot of either socket table leads to the PE the locality map numbers  *)
(* with it (__comm_remote_wire_server, __comm_remote_wire_client),         *)
(* whichever connections a server happens to accept first.                 *)
THEOREM SocketsStayMatched == Spec => []SocketsMatch
<1>1. Spec => []IInv
  BY InitInv, InvStep, PTL DEF Spec
<1>2. IInv => SocketsMatch
  BY DEF IInv
<1> QED BY <1>1, <1>2, PTL

====
