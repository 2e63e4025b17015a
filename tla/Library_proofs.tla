---- MODULE Library_proofs ----
(***************************************************************************)
(* Theorems about collections that callbacks change while they are walked: *)
(* the lists of an event handler, with the descriptors that point into     *)
(* them, and the vector of the interpolation manager.                      *)
(***************************************************************************)
EXTENDS Library, FiniteSetTheorems, WellFoundedInduction, TLAPS

\* A set of numbers that is not empty has a least one.
LEMMA Least ==
    ASSUME NEW S, S \subseteq Nat, S # {}
    PROVE  \E m \in S : \A z \in S : m <= z
<1> DEFINE R == {ss \in Nat \X Nat : ss[1] < ss[2]}
<1>1. IsWellFoundedOn(R, Nat)
  BY Zenon, NatLessThanWellFounded DEF OpToRel
<1>2. \E m \in S : \A z \in S : ~(<<z, m>> \in R)
  <2> HIDE DEF R
  <2> QED
    BY <1>1, WFMin
<1>3. \A z, m \in S : ~(<<z, m>> \in R) => m <= z
  OBVIOUS
<1> QED
  BY <1>2, <1>3

(***************************************************************************)
(* The event handler: an invariant over the lists L, the descriptors pts,  *)
(* the walk it and those it has called, ca.                                *)
(***************************************************************************)
Entry == [node : Event!Nodes, desc : Nat]

\* The lists L, of nodes handed out to n descriptors at most.
Lists(L, n) ==
    /\ L \in [Handlers -> Seq(Entry)]
    /\ \A h \in Handlers : \A i \in 1 .. Len(L[h]) : L[h][i].desc \in 1 .. n

\* No node and no descriptor is in two places.
Distinct(L) ==
    \A g, h \in Handlers : \A i \in 1 .. Len(L[g]), j \in 1 .. Len(L[h]) :
        L[g][i].node = L[h][j].node \/ L[g][i].desc = L[h][j].desc => g = h /\ i = j

PointsHold(L, pts) ==
    /\ \A h \in Handlers : \A i \in 1 .. Len(L[h]) : pts[L[h][i].desc] = L[h][i].node
    /\ \A d \in 1 .. Len(pts) : pts[d] # 0 =>
            \E h \in Handlers : \E i \in 1 .. Len(L[h]) : L[h][i].desc = d

Called(ca) == {ca[i] : i \in 1 .. Len(ca)}
EachOnce(ca, n) == ca \in Seq(1 .. n) /\ \A i, j \in 1 .. Len(ca) : ca[i] = ca[j] => i = j

\* Of a list, those up to place k have been called.
Reached(list, k, ca) == \A i \in 1 .. Len(list) : list[i].desc \in Called(ca) <=> i <= k

Iterator == [handler : Handlers \cup {0}, node : Event!Nodes \cup {0, Event!End, Event!Dangling}]

Walks(L, it, ca) ==
    /\ it \in Iterator
    /\ it.handler = 0 => it.node = 0 /\ ca = <<>>
    /\ it.handler # 0 /\ it.node = Event!End => Reached(L[it.handler], Len(L[it.handler]), ca)
    /\ it.node \in Event!Nodes =>
        /\ it.handler # 0
        /\ \E k \in 1 .. Len(L[it.handler]) : L[it.handler][k].node = it.node /\ Reached(L[it.handler], k, ca)

Handled(L, pts, it, ca, ow) ==
    /\ pts \in Seq(Event!Nodes \cup {0}) /\ Len(pts) <= MaxDescriptors
    /\ Lists(L, Len(pts)) /\ Distinct(L) /\ EachOnce(ca, Len(pts)) /\ Walks(L, it, ca)
    /\ ~ow => PointsHold(L, pts)

EventInv == Handled(subscribers, points, iterator, called, overwritten)

LEMMA EventConstants ==
    /\ MaxDescriptors \in Nat /\ 0 \notin Handlers /\ Event!Nodes = 1 .. MaxDescriptors
    /\ Event!End = MaxDescriptors + 1 /\ Event!Dangling = MaxDescriptors + 2
    /\ Event!Null = 0 /\ 0 \notin Event!Nodes
  BY EventAssumption DEF Event!EventAssumption, Event!Nodes, Event!End, Event!Dangling, Event!Null

----------------------------------------------------------------------------
(***************************************************************************)
(* The lists.                                                              *)
(***************************************************************************)
LEMMA Entries ==
    ASSUME NEW L, NEW n \in Nat, Lists(L, n), NEW h \in Handlers
    PROVE  /\ L[h] \in Seq(Entry) /\ Len(L[h]) \in Nat
           /\ \A i \in 1 .. Len(L[h]) :
                L[h][i] \in Entry /\ L[h][i].node \in Event!Nodes /\ L[h][i].desc \in 1 .. n
<1>1. L[h] \in Seq(Entry)
  BY DEF Lists
<1>2. Len(L[h]) \in Nat /\ \A i \in 1 .. Len(L[h]) : L[h][i] \in Entry
  BY <1>1
<1> QED
  BY <1>1, <1>2 DEF Lists, Entry

LEMMA SequenceOf ==
    ASSUME NEW S, NEW n \in Nat, NEW s, s = [i \in 1 .. n |-> s[i]], \A i \in 1 .. n : s[i] \in S
    PROVE  s \in Seq(S) /\ Len(s) = n
  OBVIOUS

\* A list without what was in place k.
Thinned(list, k, list2) ==
    /\ Len(list2) = Len(list) - 1
    /\ \A i \in 1 .. Len(list) - 1 : list2[i] = IF i < k THEN list[i] ELSE list[i + 1]

LEMMA RemoveAtThins ==
    ASSUME NEW S, NEW list \in Seq(S), NEW k \in 1 .. Len(list)
    PROVE  Event!RemoveAt(list, k) \in Seq(S) /\ Thinned(list, k, Event!RemoveAt(list, k))
<1> DEFINE a == SubSeq(list, 1, k - 1)  b == SubSeq(list, k + 1, Len(list))  r == a \o b
<1>1. Len(list) \in Nat /\ k \in Nat /\ 1 <= k /\ k <= Len(list)
  OBVIOUS
<1>2. a \in Seq(S) /\ Len(a) = k - 1 /\ \A i \in 1 .. k - 1 : a[i] = list[i]
  BY <1>1
<1>3. b \in Seq(S) /\ Len(b) = Len(list) - k /\ \A i \in 1 .. Len(list) - k : b[i] = list[k + i]
  BY <1>1
<1> HIDE DEF a, b
<1>4. r \in Seq(S) /\ Len(r) = Len(list) - 1
  <2>0. ASSUME NEW p \in Seq(S), NEW q \in Seq(S)
        PROVE  p \o q \in Seq(S) /\ Len(p \o q) = Len(p) + Len(q)
    OBVIOUS
  <2>1. r \in Seq(S) /\ Len(r) = Len(a) + Len(b)
    BY Zenon, <1>2, <1>3, <2>0
  <2> QED
    BY <1>1, <1>2, <1>3, <2>1
<1>5. ASSUME NEW i \in 1 .. Len(list) - 1 PROVE r[i] = IF i < k THEN list[i] ELSE list[i + 1]
  <2>1. CASE i < k
    BY <1>1, <1>2, <1>3, <2>1
  <2>2. CASE ~(i < k)
    <3>1. i - Len(a) \in 1 .. Len(b) /\ r[i] = b[i - Len(a)]
      BY <1>1, <1>2, <1>3, <2>2
    <3>2. b[i - Len(a)] = list[k + (i - Len(a))] /\ k + (i - Len(a)) = i + 1
      BY <1>1, <1>2, <1>3, <3>1
    <3> QED
      BY <2>2, <3>1, <3>2
  <2> QED
    BY <2>1, <2>2
<1>6. Event!RemoveAt(list, k) = r
  BY DEF Event!RemoveAt, a, b
<1> HIDE DEF r
<1> QED
  BY <1>4, <1>5, <1>6 DEF Thinned

\* A node that is in a list is in one place of it.
LEMMA PlaceIs ==
    ASSUME NEW L, Distinct(L), NEW h \in Handlers, NEW k \in 1 .. Len(L[h]), NEW node, L[h][k].node = node
    PROVE  Event!Place(L[h], node) = k
<1>1. \A i \in 1 .. Len(L[h]) : L[h][i].node = node => i = k
  BY DEF Distinct
<1>2. \E i \in 1 .. Len(L[h]) : L[h][i].node = node
  OBVIOUS
<1> QED
  BY <1>1, <1>2 DEF Event!Place

\* Each list has nodes of its own, and no more nodes are used than descriptors
\* were given out: there is a fresh one as long as subscribe may be called.
LEMMA NodeIsFresh ==
    ASSUME NEW n \in Nat, n < MaxDescriptors, Lists(subscribers, n), Distinct(subscribers)
    PROVE  Event!FreshNode \in Event!Nodes \ Event!UsedNodes
<1> DEFINE S == Event!Nodes \ Event!UsedNodes
           L == subscribers
<1>1. ASSUME S = {} PROVE FALSE
  <2> DEFINE Has(a, d) == \E h \in Handlers : \E i \in 1 .. Len(L[h]) : L[h][i].node = a /\ L[h][i].desc = d
             f == [a \in Event!Nodes |-> CHOOSE d \in 1 .. n : Has(a, d)]
  <2>1. ASSUME NEW a \in Event!Nodes PROVE \E d \in 1 .. n : Has(a, d)
    <3>1. a \in Event!UsedNodes
      BY <1>1
    <3>2. PICK h \in Handlers : \E i \in 1 .. Len(L[h]) : L[h][i].node = a
      BY <3>1 DEF Event!UsedNodes, Event!NodesOf
    <3>3. PICK i \in 1 .. Len(L[h]) : L[h][i].node = a
      BY <3>2
    <3>4. L[h][i].desc \in 1 .. n
      BY Entries
    <3> QED
      BY <3>3, <3>4
  <2>2. ASSUME NEW a, NEW b, NEW d, Has(a, d), Has(b, d) PROVE a = b
    BY <2>2 DEF Distinct
  <2> HIDE DEF Has
  <2>3. \A a \in Event!Nodes : f[a] \in 1 .. n /\ Has(a, f[a])
    BY <2>1
  <2>4. f \in [Event!Nodes -> 1 .. n]
    BY <2>3
  <2> HIDE DEF f
  <2>5. /\ IsFiniteSet(1 .. MaxDescriptors) /\ Cardinality(1 .. MaxDescriptors) = MaxDescriptors
        /\ IsFiniteSet(1 .. n) /\ Cardinality(1 .. n) = n
    <3>1. \A m \in Nat : IsFiniteSet(1 .. m) /\ Cardinality(1 .. m) = IF 1 > m THEN 0 ELSE m - 1 + 1
      BY FS_Interval
    <3>2. \A m \in Nat : (IF 1 > m THEN 0 ELSE m - 1 + 1) = m
      OBVIOUS
    <3> QED
      BY <3>1, <3>2, EventConstants
  <2>6. Event!Nodes = 1 .. MaxDescriptors /\ Cardinality(1 .. n) < Cardinality(1 .. MaxDescriptors)
    BY <2>5, EventConstants
  <2>7. \E a, b \in Event!Nodes : a # b /\ f[a] = f[b]
    BY <2>4, <2>5, <2>6, FS_PigeonHole
  <2> QED
    BY <2>2, <2>3, <2>7
<1>2. S \subseteq Nat
  BY EventConstants
<1> HIDE DEF S
<1>3. \E m \in S : \A z \in S : m <= z
  BY <1>1, <1>2, Least
<1>4. Event!Min(S) \in S
  BY <1>3 DEF Event!Min
<1> QED
  BY <1>4 DEF S, Event!FreshNode

----------------------------------------------------------------------------
(***************************************************************************)
(* subscribe: one more, behind those of its list.                          *)
(***************************************************************************)
Grown(L, h, e, L2) ==
    /\ L2 \in [Handlers -> Seq(Entry)]
    /\ Len(L2[h]) = Len(L[h]) + 1 /\ L2[h][Len(L[h]) + 1] = e
    /\ \A i \in 1 .. Len(L[h]) : L2[h][i] = L[h][i]
    /\ \A g \in Handlers \ {h} : L2[g] = L[g]

LEMMA AppendGrows ==
    ASSUME NEW L \in [Handlers -> Seq(Entry)], NEW h \in Handlers, NEW e \in Entry,
           NEW L2, L2 = [L EXCEPT ![h] = Append(L[h], e)]
    PROVE  Grown(L, h, e, L2)
<1> DEFINE list == Append(L[h], e)
<1>1. /\ list \in Seq(Entry) /\ Len(list) = Len(L[h]) + 1 /\ list[Len(L[h]) + 1] = e
      /\ \A i \in 1 .. Len(L[h]) : list[i] = L[h][i]
  OBVIOUS
<1>2. L2 = [L EXCEPT ![h] = list]
  OBVIOUS
<1> HIDE DEF list
<1>3. L2 \in [Handlers -> Seq(Entry)] /\ L2[h] = list /\ \A g \in Handlers \ {h} : L2[g] = L[g]
  BY <1>1, <1>2
<1> QED
  BY <1>1, <1>3 DEF Grown

LEMMA GrownKeeps ==
    ASSUME NEW L, NEW n \in Nat, Lists(L, n), Distinct(L), NEW h \in Handlers,
           NEW a \in Event!Nodes, \A g \in Handlers : \A i \in 1 .. Len(L[g]) : L[g][i].node # a,
           NEW e \in Entry, e.node = a, e.desc = n + 1, NEW L2, Grown(L, h, e, L2)
    PROVE  Lists(L2, n + 1) /\ Distinct(L2)
<1>1. \A g \in Handlers : Len(L[g]) \in Nat /\ \A i \in 1 .. Len(L[g]) : L[g][i].desc \in 1 .. n
  BY Entries
<1>2. ASSUME NEW g \in Handlers, NEW i \in 1 .. Len(L2[g])
      PROVE  \/ i \in 1 .. Len(L[g]) /\ L2[g][i] = L[g][i]
             \/ g = h /\ i = Len(L[h]) + 1 /\ L2[g][i] = e
  <2>1. CASE g = h
    <3>1. i \in 1 .. Len(L[h]) \/ i = Len(L[h]) + 1
      BY <1>1, <2>1 DEF Grown
    <3> QED
      BY <2>1, <3>1 DEF Grown
  <2>2. CASE g # h
    BY <2>2 DEF Grown
  <2> QED
    BY <2>1, <2>2
<1>3. ASSUME NEW g \in Handlers, NEW i \in 1 .. Len(L2[g])
      PROVE  L2[g][i].desc \in 1 .. n + 1
  <2>1. CASE i \in 1 .. Len(L[g]) /\ L2[g][i] = L[g][i]
    <3>1. L[g][i].desc \in 1 .. n
      BY <1>1, <2>1
    <3> QED
      BY <2>1, <3>1
  <2>2. CASE L2[g][i] = e
    BY <2>2
  <2> QED
    BY <1>2, <2>1, <2>2
<1>4. Lists(L2, n + 1)
  BY <1>3 DEF Lists, Grown
<1>5. ASSUME NEW f \in Handlers, NEW g \in Handlers, NEW i \in 1 .. Len(L2[f]), NEW j \in 1 .. Len(L2[g]),
             L2[f][i].node = L2[g][j].node \/ L2[f][i].desc = L2[g][j].desc
      PROVE  f = g /\ i = j
  <2>1. CASE i \in 1 .. Len(L[f]) /\ L2[f][i] = L[f][i]
    <3>1. CASE j \in 1 .. Len(L[g]) /\ L2[g][j] = L[g][j]
      BY <1>5, <2>1, <3>1 DEF Distinct
    <3>2. CASE L2[g][j] = e
      BY <1>1, <1>5, <2>1, <3>2
    <3> QED
      BY <1>2, <3>1, <3>2
  <2>2. CASE f = h /\ i = Len(L[h]) + 1 /\ L2[f][i] = e
    <3>1. CASE j \in 1 .. Len(L[g]) /\ L2[g][j] = L[g][j]
      BY <1>1, <1>5, <2>2, <3>1
    <3>2. CASE g = h /\ j = Len(L[h]) + 1
      BY <2>2, <3>2
    <3> QED
      BY <1>2, <3>1, <3>2
  <2> QED
    BY <1>2, <2>1, <2>2
<1> QED
  BY <1>4, <1>5 DEF Distinct

LEMMA GrownPoints ==
    ASSUME NEW L, NEW pts \in Seq(Event!Nodes \cup {0}), Lists(L, Len(pts)), PointsHold(L, pts),
           NEW h \in Handlers, NEW a \in Event!Nodes,
           NEW e \in Entry, e.node = a, e.desc = Len(pts) + 1, NEW L2, Grown(L, h, e, L2),
           NEW pts2, pts2 = Append(pts, a)
    PROVE  PointsHold(L2, pts2)
<1> DEFINE n == Len(pts)
<1>1. /\ n \in Nat /\ Len(pts2) = n + 1 /\ pts2[n + 1] = a /\ \A d \in 1 .. n : pts2[d] = pts[d]
  OBVIOUS
<1>2. \A g \in Handlers : Len(L[g]) \in Nat /\ \A i \in 1 .. Len(L[g]) : L[g][i].desc \in 1 .. n
  BY Entries
<1>3. ASSUME NEW g \in Handlers, NEW i \in 1 .. Len(L2[g])
      PROVE  pts2[L2[g][i].desc] = L2[g][i].node
  <2>1. CASE i \in 1 .. Len(L[g]) /\ L2[g][i] = L[g][i]
    BY <1>1, <1>2, <2>1 DEF PointsHold
  <2>2. CASE L2[g][i] = e
    BY <1>1, <2>2
  <2>3. (i \in 1 .. Len(L[g]) /\ L2[g][i] = L[g][i]) \/ L2[g][i] = e
    <3>1. CASE g = h
      <4>1. i \in 1 .. Len(L[h]) \/ i = Len(L[h]) + 1
        BY <1>2, <3>1 DEF Grown
      <4> QED
        BY <3>1, <4>1 DEF Grown
    <3>2. CASE g # h
      BY <3>2 DEF Grown
    <3> QED
      BY <3>1, <3>2
  <2> QED
    BY <2>1, <2>2, <2>3
<1>4. ASSUME NEW d \in 1 .. Len(pts2), pts2[d] # 0
      PROVE  \E g \in Handlers : \E i \in 1 .. Len(L2[g]) : L2[g][i].desc = d
  <2>1. CASE d = n + 1
    <3>1. Len(L[h]) + 1 \in 1 .. Len(L2[h]) /\ L2[h][Len(L[h]) + 1].desc = d
      BY <1>2, <2>1 DEF Grown
    <3> QED
      BY <3>1
  <2>2. CASE d \in 1 .. n
    <3>1. PICK g \in Handlers : \E i \in 1 .. Len(L[g]) : L[g][i].desc = d
      BY <1>1, <1>4, <2>2 DEF PointsHold
    <3>2. PICK i \in 1 .. Len(L[g]) : L[g][i].desc = d
      BY <3>1
    <3>3. i \in 1 .. Len(L2[g]) /\ L2[g][i] = L[g][i]
      <4>1. CASE g = h
        BY <1>2, <4>1 DEF Grown
      <4>2. CASE g # h
        BY <4>2 DEF Grown
      <4> QED
        BY <4>1, <4>2
    <3> QED
      BY <3>2, <3>3
  <2> QED
    BY <1>1, <2>1, <2>2
<1> QED
  BY <1>3, <1>4 DEF PointsHold

\* Whoever has been reached stays reached, and the new one is still to come.
LEMMA GrownWalks ==
    ASSUME NEW L, NEW n \in Nat, Lists(L, n), NEW h \in Handlers, NEW e \in Entry, e.desc = n + 1,
           NEW L2, Grown(L, h, e, L2),
           NEW ca, EachOnce(ca, n), NEW it, Walks(L, it, ca), it.handler = 0 \/ it.node \in Event!Nodes
    PROVE  EachOnce(ca, n + 1) /\ Walks(L2, it, ca)
<1>1. \A g \in Handlers : Len(L[g]) \in Nat
  BY Entries
<1>2. ca \in Seq(1 .. n) /\ \A i, j \in 1 .. Len(ca) : ca[i] = ca[j] => i = j
  BY DEF EachOnce
<1>3. Len(ca) \in Nat /\ \A i \in 1 .. Len(ca) : ca[i] \in 1 .. n
  BY <1>2
<1>4. ca \in Seq(1 .. n + 1)
  <2>1. ca = [i \in 1 .. Len(ca) |-> ca[i]] /\ \A i \in 1 .. Len(ca) : ca[i] \in 1 .. n + 1
    BY <1>2, <1>3
  <2> QED
    BY <1>3, <2>1, SequenceOf
<1>5. n + 1 \notin Called(ca)
  BY <1>3 DEF Called
<1>6. ASSUME NEW g \in Handlers, NEW k \in 1 .. Len(L[g]), Reached(L[g], k, ca)
      PROVE  k \in 1 .. Len(L2[g]) /\ L2[g][k] = L[g][k] /\ Reached(L2[g], k, ca)
  <2>1. CASE g = h
    <3>1. k \in 1 .. Len(L2[h]) /\ L2[h][k] = L[h][k]
      BY <1>1, <2>1 DEF Grown
    <3>2. ASSUME NEW i \in 1 .. Len(L2[h])
          PROVE  L2[h][i].desc \in Called(ca) <=> i <= k
      <4>1. CASE i \in 1 .. Len(L[h])
        BY <1>6, <2>1, <4>1 DEF Grown, Reached
      <4>2. CASE i = Len(L[h]) + 1
        BY <1>1, <1>5, <2>1, <4>2 DEF Grown
      <4> QED
        BY <1>1, <4>1, <4>2 DEF Grown
    <3> QED
      BY <2>1, <3>1, <3>2 DEF Reached
  <2>2. CASE g # h
    BY <1>6, <2>2 DEF Grown
  <2> QED
    BY <2>1, <2>2
<1>7. it.node # Event!End \/ it.handler = 0
  BY EventConstants
<1>8. ASSUME it.node \in Event!Nodes
      PROVE  /\ it.handler # 0
             /\ \E k \in 1 .. Len(L2[it.handler]) : L2[it.handler][k].node = it.node /\ Reached(L2[it.handler], k, ca)
  <2>1. /\ it.handler # 0 /\ it.handler \in Handlers
        /\ \E k \in 1 .. Len(L[it.handler]) : L[it.handler][k].node = it.node /\ Reached(L[it.handler], k, ca)
    BY <1>8 DEF Walks, Iterator
  <2>2. PICK k \in 1 .. Len(L[it.handler]) : L[it.handler][k].node = it.node /\ Reached(L[it.handler], k, ca)
    BY <2>1
  <2>3. k \in 1 .. Len(L2[it.handler]) /\ L2[it.handler][k] = L[it.handler][k] /\ Reached(L2[it.handler], k, ca)
    BY <1>6, <2>1, <2>2
  <2> QED
    BY <2>1, <2>2, <2>3
<1>9. it \in Iterator /\ (it.handler = 0 => it.node = 0 /\ ca = <<>>)
  BY DEF Walks
<1> QED
  BY <1>2, <1>4, <1>7, <1>8, <1>9 DEF EachOnce, Walks

----------------------------------------------------------------------------
(***************************************************************************)
(* unsubscribe: the one in place k of the list of h leaves.                *)
(***************************************************************************)
Shrunk(L, h, k, L2) ==
    /\ L2 \in [Handlers -> Seq(Entry)] /\ Thinned(L[h], k, L2[h])
    /\ \A g \in Handlers \ {h} : L2[g] = L[g]

\* Where the one that is at i of the list of g was before.
Was(h, k, g, i) == IF g = h /\ ~(i < k) THEN i + 1 ELSE i

LEMMA RemoveAtShrinks ==
    ASSUME NEW L \in [Handlers -> Seq(Entry)], NEW h \in Handlers, NEW k \in 1 .. Len(L[h]),
           NEW L2, L2 = [L EXCEPT ![h] = Event!RemoveAt(L[h], k)]
    PROVE  Shrunk(L, h, k, L2)
<1> DEFINE list == Event!RemoveAt(L[h], k)
<1>1. L[h] \in Seq(Entry)
  OBVIOUS
<1>2. list \in Seq(Entry) /\ Thinned(L[h], k, list)
  BY <1>1, RemoveAtThins
<1>3. L2 = [L EXCEPT ![h] = list]
  OBVIOUS
<1> HIDE DEF list
<1>4. L2 \in [Handlers -> Seq(Entry)] /\ L2[h] = list /\ \A g \in Handlers \ {h} : L2[g] = L[g]
  BY <1>2, <1>3
<1> QED
  BY <1>2, <1>4 DEF Shrunk

LEMMA WasBefore ==
    ASSUME NEW L, NEW n \in Nat, Lists(L, n), NEW h \in Handlers, NEW k \in 1 .. Len(L[h]), NEW L2, Shrunk(L, h, k, L2)
    PROVE  /\ \A g \in Handlers : \A i \in 1 .. Len(L2[g]) :
                /\ Was(h, k, g, i) \in 1 .. Len(L[g]) /\ L2[g][i] = L[g][Was(h, k, g, i)]
                /\ g = h => Was(h, k, g, i) # k
           /\ \A g \in Handlers : \A j \in 1 .. Len(L[g]) : ~(g = h /\ j = k) =>
                \E i \in 1 .. Len(L2[g]) : Was(h, k, g, i) = j
<1>1. \A g \in Handlers : Len(L[g]) \in Nat
  BY Entries
<1>2. Len(L2[h]) = Len(L[h]) - 1 /\ \A i \in 1 .. Len(L[h]) - 1 : L2[h][i] = IF i < k THEN L[h][i] ELSE L[h][i + 1]
  BY DEF Shrunk, Thinned
<1>3. \A g \in Handlers : g # h => L2[g] = L[g]
  BY DEF Shrunk
<1>4. k \in Nat /\ 1 <= k /\ k <= Len(L[h])
  BY <1>1
<1>5. ASSUME NEW g \in Handlers, NEW i \in 1 .. Len(L2[g])
      PROVE  /\ Was(h, k, g, i) \in 1 .. Len(L[g]) /\ L2[g][i] = L[g][Was(h, k, g, i)]
             /\ g = h => Was(h, k, g, i) # k
  <2>1. CASE g = h
    <3>1. i \in 1 .. Len(L[h]) - 1
      BY <1>2, <2>1
    <3>2. CASE i < k
      BY <1>1, <1>2, <2>1, <3>1, <3>2 DEF Was
    <3>3. CASE ~(i < k)
      <4>1. i + 1 \in 1 .. Len(L[h]) /\ i + 1 # k
        BY <1>1, <1>4, <3>1, <3>3
      <4> QED
        BY <1>2, <2>1, <3>1, <3>3, <4>1 DEF Was
    <3> QED
      BY <3>2, <3>3
  <2>2. CASE g # h
    BY <1>3, <2>2 DEF Was
  <2> QED
    BY <2>1, <2>2
<1>6. ASSUME NEW g \in Handlers, NEW j \in 1 .. Len(L[g]), ~(g = h /\ j = k)
      PROVE  \E i \in 1 .. Len(L2[g]) : Was(h, k, g, i) = j
  <2>1. CASE g = h /\ j < k
    <3>1. j \in 1 .. Len(L2[g]) /\ Was(h, k, g, j) = j
      BY <1>1, <1>2, <1>4, <2>1 DEF Was
    <3> QED
      BY <3>1
  <2>2. CASE g = h /\ k < j
    <3>1. j - 1 \in 1 .. Len(L2[g]) /\ ~(j - 1 < k) /\ j - 1 + 1 = j
      BY <1>1, <1>2, <1>4, <2>2
    <3>2. Was(h, k, g, j - 1) = j
      BY <2>2, <3>1 DEF Was
    <3> QED
      BY <3>1, <3>2
  <2>3. CASE g # h
    <3>1. j \in 1 .. Len(L2[g]) /\ Was(h, k, g, j) = j
      BY <1>3, <2>3 DEF Was
    <3> QED
      BY <3>1
  <2> QED
    BY <1>1, <1>4, <1>6, <2>1, <2>2, <2>3
<1> QED
  BY <1>5, <1>6

LEMMA WasInjective ==
    ASSUME NEW h, NEW k \in Nat, NEW g, NEW i \in Nat, NEW j \in Nat
    PROVE  /\ Was(h, k, g, i) = Was(h, k, g, j) => i = j
           /\ Was(h, k, g, i) # k \/ g # h => (i <= j <=> Was(h, k, g, i) <= Was(h, k, g, j))
<1>1. CASE g = h
  BY <1>1 DEF Was
<1>2. CASE g # h
  BY <1>2 DEF Was
<1> QED
  BY <1>1, <1>2

LEMMA ShrunkKeeps ==
    ASSUME NEW L, NEW n \in Nat, Lists(L, n), Distinct(L), NEW h \in Handlers, NEW k \in 1 .. Len(L[h]),
           NEW L2, Shrunk(L, h, k, L2)
    PROVE  Lists(L2, n) /\ Distinct(L2)
<1>1. \A g \in Handlers : \A i \in 1 .. Len(L2[g]) :
        Was(h, k, g, i) \in 1 .. Len(L[g]) /\ L2[g][i] = L[g][Was(h, k, g, i)]
  BY WasBefore
<1>2. \A g \in Handlers : \A i \in 1 .. Len(L[g]) : L[g][i].desc \in 1 .. n
  BY Entries
<1>3. \A g \in Handlers : \A i \in 1 .. Len(L2[g]) : L2[g][i].desc \in 1 .. n
  BY Zenon, <1>1, <1>2
<1>4. Lists(L2, n)
  BY <1>3 DEF Lists, Shrunk
<1>5. ASSUME NEW f \in Handlers, NEW g \in Handlers, NEW i \in 1 .. Len(L2[f]), NEW j \in 1 .. Len(L2[g]),
             L2[f][i].node = L2[g][j].node \/ L2[f][i].desc = L2[g][j].desc
      PROVE  f = g /\ i = j
  <2>1. f = g /\ Was(h, k, f, i) = Was(h, k, g, j)
    <3> DEFINE a == Was(h, k, f, i)  b == Was(h, k, g, j)
    <3>1. a \in 1 .. Len(L[f]) /\ b \in 1 .. Len(L[g]) /\ L2[f][i] = L[f][a] /\ L2[g][j] = L[g][b]
      BY <1>1
    <3> HIDE DEF a, b
    <3>2. L[f][a].node = L[g][b].node \/ L[f][a].desc = L[g][b].desc
      BY <1>5, <3>1
    <3>3. f = g /\ a = b
      BY SMTT(30), <3>1, <3>2 DEF Distinct
    <3> QED
      BY <3>3 DEF a, b
  <2>2. i \in Nat /\ j \in Nat /\ k \in Nat
    OBVIOUS
  <2> QED
    BY <2>1, <2>2, WasInjective
<1> QED
  BY <1>4, <1>5 DEF Distinct

LEMMA ShrunkPoints ==
    ASSUME NEW L, NEW pts \in Seq(Event!Nodes \cup {0}), Lists(L, Len(pts)), Distinct(L), PointsHold(L, pts),
           NEW h \in Handlers, NEW k \in 1 .. Len(L[h]), NEW d \in 1 .. Len(pts), pts[d] = L[h][k].node,
           NEW L2, Shrunk(L, h, k, L2), NEW pts2, pts2 = [pts EXCEPT ![d] = 0]
    PROVE  PointsHold(L2, pts2)
<1>1. Len(pts) \in Nat /\ Len(pts2) = Len(pts) /\ \A c \in 1 .. Len(pts) : pts2[c] = IF c = d THEN 0 ELSE pts[c]
  OBVIOUS
<1>2. /\ \A g \in Handlers : \A i \in 1 .. Len(L2[g]) :
           /\ Was(h, k, g, i) \in 1 .. Len(L[g]) /\ L2[g][i] = L[g][Was(h, k, g, i)]
           /\ g = h => Was(h, k, g, i) # k
      /\ \A g \in Handlers : \A j \in 1 .. Len(L[g]) : ~(g = h /\ j = k) =>
           \E i \in 1 .. Len(L2[g]) : Was(h, k, g, i) = j
  BY <1>1, WasBefore
<1>3. \A g \in Handlers : \A i \in 1 .. Len(L[g]) : L[g][i].desc \in 1 .. Len(pts) /\ L[g][i].node # 0
  BY <1>1, Entries, EventConstants
<1>4. L[h][k].desc = d
  <2>1. pts[d] # 0
    BY <1>3
  <2>2. PICK g \in Handlers : \E i \in 1 .. Len(L[g]) : L[g][i].desc = d
    BY <2>1 DEF PointsHold
  <2>3. PICK i \in 1 .. Len(L[g]) : L[g][i].desc = d
    BY <2>2
  <2>4. L[g][i].node = L[h][k].node
    BY <2>3 DEF PointsHold
  <2>5. g = h /\ i = k
    BY <2>4 DEF Distinct
  <2> QED
    BY <2>3, <2>5
<1>5. ASSUME NEW g \in Handlers, NEW i \in 1 .. Len(L2[g])
      PROVE  pts2[L2[g][i].desc] = L2[g][i].node
  <2> DEFINE j == Was(h, k, g, i)
  <2>1. j \in 1 .. Len(L[g]) /\ L2[g][i] = L[g][j] /\ (g = h => j # k)
    BY <1>2
  <2> HIDE DEF j
  <2>2. L[g][j].desc # d
    BY SMTT(30), <1>4, <2>1 DEF Distinct
  <2>3. pts[L[g][j].desc] = L[g][j].node /\ L[g][j].desc \in 1 .. Len(pts)
    BY <1>3, <2>1 DEF PointsHold
  <2>4. pts2[L[g][j].desc] = pts[L[g][j].desc]
    BY <1>1, <2>2, <2>3
  <2> QED
    BY <2>1, <2>3, <2>4
<1>6. ASSUME NEW c \in 1 .. Len(pts2), pts2[c] # 0
      PROVE  \E g \in Handlers : \E i \in 1 .. Len(L2[g]) : L2[g][i].desc = c
  <2>1. c \in 1 .. Len(pts) /\ c # d /\ pts[c] # 0
    BY <1>1, <1>6
  <2>2. PICK g \in Handlers : \E j \in 1 .. Len(L[g]) : L[g][j].desc = c
    BY <2>1 DEF PointsHold
  <2>3. PICK j \in 1 .. Len(L[g]) : L[g][j].desc = c
    BY <2>2
  <2>4. ~(g = h /\ j = k)
    BY <1>4, <2>1, <2>3
  <2>5. PICK i \in 1 .. Len(L2[g]) : Was(h, k, g, i) = j
    BY <1>2, <2>4
  <2>6. L2[g][i] = L[g][j]
    BY <1>2, <2>5
  <2> QED
    BY <2>3, <2>6
<1> HIDE DEF PointsHold
<1> QED
  BY <1>5, <1>6 DEF PointsHold

\* The walk goes on where it was, unless it stood at the one that left.
LEMMA ShrunkWalks ==
    ASSUME NEW L, NEW n \in Nat, Lists(L, n), Distinct(L), NEW h \in Handlers, NEW k \in 1 .. Len(L[h]),
           NEW L2, Shrunk(L, h, k, L2),
           NEW ca, NEW it, Walks(L, it, ca), it.handler = 0 \/ it.node \in Event!Nodes,
           NEW it2, it2 = IF it.node = L[h][k].node THEN [it EXCEPT !.node = Event!Dangling] ELSE it
    PROVE  Walks(L2, it2, ca)
<1>1. it \in Iterator /\ (it.handler = 0 => it.node = 0 /\ ca = <<>>)
  BY DEF Walks
<1>2. L[h][k].node \in Event!Nodes /\ L[h][k].node # 0
  BY Entries, EventConstants
<1>3. CASE it.node = L[h][k].node
  <2>1. it.handler \in Handlers /\ it.handler # 0
    BY <1>1, <1>2, <1>3 DEF Iterator
  <2>2. it2 = [it EXCEPT !.node = Event!Dangling]
    BY <1>3
  <2>3. it2 \in Iterator /\ it2.handler = it.handler /\ it2.node = Event!Dangling
    BY <1>1, <2>2 DEF Iterator
  <2>4. Event!Dangling # Event!End /\ Event!Dangling \notin Event!Nodes
    BY EventConstants
  <2> QED
    BY <2>1, <2>3, <2>4 DEF Walks
<1>4. CASE it.node # L[h][k].node
  <2>1. it2 = it
    BY <1>4
  <2>2. it.handler = 0 \/ it.node # Event!End
    BY EventConstants
  <2>3. ASSUME it.node \in Event!Nodes
        PROVE  /\ it.handler # 0
               /\ \E i \in 1 .. Len(L2[it.handler]) :
                    L2[it.handler][i].node = it.node /\ Reached(L2[it.handler], i, ca)
    <3> DEFINE g == it.handler
    <3>1. /\ g # 0 /\ g \in Handlers
          /\ \E j \in 1 .. Len(L[g]) : L[g][j].node = it.node /\ Reached(L[g], j, ca)
      BY <2>3 DEF Walks, Iterator
    <3>2. PICK j \in 1 .. Len(L[g]) : L[g][j].node = it.node /\ Reached(L[g], j, ca)
      BY <3>1
    <3> HIDE DEF g
    <3>3. ~(g = h /\ j = k)
      BY <1>4, <3>2
    <3>4. /\ \A i \in 1 .. Len(L2[g]) :
               /\ Was(h, k, g, i) \in 1 .. Len(L[g]) /\ L2[g][i] = L[g][Was(h, k, g, i)]
               /\ g = h => Was(h, k, g, i) # k
          /\ \E i \in 1 .. Len(L2[g]) : Was(h, k, g, i) = j
      BY SMTT(30), <3>1, <3>3, WasBefore
    <3>5. PICK i \in 1 .. Len(L2[g]) : Was(h, k, g, i) = j
      BY <3>4
    <3>6. L2[g][i].node = it.node
      BY <3>2, <3>4, <3>5
    <3>7. ASSUME NEW m \in 1 .. Len(L2[g])
          PROVE  L2[g][m].desc \in Called(ca) <=> m <= i
      <4> DEFINE w == Was(h, k, g, m)
      <4>1. w \in 1 .. Len(L[g]) /\ L2[g][m] = L[g][w] /\ (w # k \/ g # h)
        BY <3>4
      <4>2. k \in Nat /\ m \in Nat /\ i \in Nat
        OBVIOUS
      <4>3. m <= i <=> w <= j
        BY <3>5, <4>1, <4>2, WasInjective
      <4> HIDE DEF w
      <4>4. L[g][w].desc \in Called(ca) <=> w <= j
        BY <3>2, <4>1 DEF Reached
      <4> QED
        BY <4>1, <4>3, <4>4
    <3>8. Reached(L2[g], i, ca)
      BY <3>7 DEF Reached
    <3> QED
      BY <3>1, <3>6, <3>8 DEF g
  <2> QED
    BY <1>1, <2>1, <2>2, <2>3 DEF Walks
<1> QED
  BY <1>3, <1>4

----------------------------------------------------------------------------
(***************************************************************************)
(* Handlers that are moved and destroyed.                                  *)
(***************************************************************************)
Moved(L, to, from, L2) ==
    /\ L2 \in [Handlers -> Seq(Entry)] /\ Len(L2[from]) = 0 /\ L2[to] = L[from]
    /\ \A g \in Handlers : g # to /\ g # from => L2[g] = L[g]

Emptied(L, h, L2) ==
    /\ L2 \in [Handlers -> Seq(Entry)] /\ Len(L2[h]) = 0
    /\ \A g \in Handlers : g # h => L2[g] = L[g]

LEMMA AssignMoves ==
    ASSUME NEW L \in [Handlers -> Seq(Entry)], NEW to \in Handlers, NEW from \in Handlers, to # from,
           NEW L2, L2 = [L EXCEPT ![to] = L[from], ![from] = <<>>]
    PROVE  Moved(L, to, from, L2)
<1>1. <<>> \in Seq(Entry) /\ L[from] \in Seq(Entry)
  OBVIOUS
<1>2. L2[from] = <<>> /\ L2[to] = L[from] /\ \A g \in Handlers : g # to /\ g # from => L2[g] = L[g]
  OBVIOUS
<1>3. L2 \in [Handlers -> Seq(Entry)]
  BY <1>1
<1> QED
  BY <1>2, <1>3 DEF Moved

LEMMA DestroyEmpties ==
    ASSUME NEW L \in [Handlers -> Seq(Entry)], NEW h \in Handlers, NEW L2, L2 = [L EXCEPT ![h] = <<>>]
    PROVE  Emptied(L, h, L2)
<1>1. <<>> \in Seq(Entry)
  OBVIOUS
<1>2. L2[h] = <<>> /\ \A g \in Handlers : g # h => L2[g] = L[g]
  OBVIOUS
<1>3. L2 \in [Handlers -> Seq(Entry)]
  BY <1>1
<1> QED
  BY <1>2, <1>3 DEF Emptied

LEMMA MovedKeeps ==
    ASSUME NEW L, NEW n \in Nat, Lists(L, n), Distinct(L), NEW to \in Handlers, NEW from \in Handlers, to # from,
           NEW L2, Moved(L, to, from, L2)
    PROVE  /\ Lists(L2, n) /\ Distinct(L2)
           /\ \A pts : PointsHold(L, pts) /\ L[to] = <<>> => PointsHold(L2, pts)
<1>1. /\ L2 \in [Handlers -> Seq(Entry)] /\ Len(L2[from]) = 0 /\ L2[to] = L[from]
      /\ \A g \in Handlers : g # to /\ g # from => L2[g] = L[g]
  BY DEF Moved
<1> DEFINE Of(g) == IF g = to THEN from ELSE g
<1>2. ASSUME NEW g \in Handlers, NEW i \in 1 .. Len(L2[g])
      PROVE  Of(g) \in Handlers /\ g # from /\ i \in 1 .. Len(L[Of(g)]) /\ L2[g][i] = L[Of(g)][i]
  <2>1. g # from
    BY <1>1
  <2> QED
    BY <1>1, <2>1
<1>3. ASSUME NEW f \in Handlers, NEW g \in Handlers, f # from, g # from, Of(f) = Of(g) PROVE f = g
  BY <1>3
<1> HIDE DEF Of
<1>4. \A g \in Handlers : \A i \in 1 .. Len(L[g]) : L[g][i].desc \in 1 .. n
  BY Entries
<1>5. \A g \in Handlers : \A i \in 1 .. Len(L2[g]) : L2[g][i].desc \in 1 .. n
  BY Zenon, <1>2, <1>4
<1>6. Lists(L2, n)
  BY Zenon, <1>1, <1>5 DEF Lists
<1>7. ASSUME NEW f \in Handlers, NEW g \in Handlers, NEW i \in 1 .. Len(L2[f]), NEW j \in 1 .. Len(L2[g]),
             L2[f][i].node = L2[g][j].node \/ L2[f][i].desc = L2[g][j].desc
      PROVE  f = g /\ i = j
  <2>1. Of(f) \in Handlers /\ f # from /\ i \in 1 .. Len(L[Of(f)]) /\ L2[f][i] = L[Of(f)][i]
    BY Zenon, <1>2
  <2>2. Of(g) \in Handlers /\ g # from /\ j \in 1 .. Len(L[Of(g)]) /\ L2[g][j] = L[Of(g)][j]
    BY Zenon, <1>2
  <2>3. Of(f) = Of(g) /\ i = j
    BY SMTT(30), <1>7, <2>1, <2>2 DEF Distinct
  <2> QED
    BY Zenon, <1>3, <2>1, <2>2, <2>3
<1>8. Distinct(L2)
  BY Zenon, <1>7 DEF Distinct
<1>9. ASSUME NEW pts, PointsHold(L, pts), L[to] = <<>>
      PROVE  PointsHold(L2, pts)
  <2>1. \A g \in Handlers : \A i \in 1 .. Len(L2[g]) : pts[L2[g][i].desc] = L2[g][i].node
    BY <1>2, <1>9 DEF PointsHold
  <2>2. ASSUME NEW d \in 1 .. Len(pts), pts[d] # 0
        PROVE  \E g \in Handlers : \E i \in 1 .. Len(L2[g]) : L2[g][i].desc = d
    <3>1. PICK g \in Handlers : \E i \in 1 .. Len(L[g]) : L[g][i].desc = d
      BY Zenon, <1>9, <2>2 DEF PointsHold
    <3>2. PICK i \in 1 .. Len(L[g]) : L[g][i].desc = d
      BY <3>1
    <3>3. Len(L[to]) = 0
      BY <1>9
    <3>4. g # to
      BY <3>2, <3>3
    <3>5. CASE g = from
      BY Zenon, <1>1, <3>2, <3>5
    <3>6. CASE g # from
      BY Zenon, <1>1, <3>2, <3>4, <3>6
    <3> QED
      BY <3>5, <3>6
  <2> QED
    BY Zenon, <2>1, <2>2 DEF PointsHold
<1> QED
  BY Zenon, <1>6, <1>8, <1>9

LEMMA DestroyedKeeps ==
    ASSUME NEW L, NEW pts \in Seq(Event!Nodes \cup {0}), Lists(L, Len(pts)), Distinct(L), NEW h \in Handlers,
           NEW L2, Emptied(L, h, L2),
           NEW pts2, pts2 = [d \in 1 .. Len(pts) |-> IF \E k \in 1 .. Len(L[h]) : L[h][k].desc = d THEN 0 ELSE pts[d]]
    PROVE  /\ Lists(L2, Len(pts)) /\ Distinct(L2) /\ pts2 \in Seq(Event!Nodes \cup {0}) /\ Len(pts2) = Len(pts)
           /\ PointsHold(L, pts) => PointsHold(L2, pts2)
<1>1. /\ L2 \in [Handlers -> Seq(Entry)] /\ Len(L2[h]) = 0
      /\ \A g \in Handlers : g # h => L2[g] = L[g]
  BY DEF Emptied
<1> DEFINE Gone(d) == \E k \in 1 .. Len(L[h]) : L[h][k].desc = d
<1>2. /\ Len(pts) \in Nat /\ Len(pts2) = Len(pts) /\ pts2 \in Seq(Event!Nodes \cup {0})
      /\ \A d \in 1 .. Len(pts) : pts2[d] = IF Gone(d) THEN 0 ELSE pts[d]
  <2>1. pts2 = [d \in 1 .. Len(pts) |-> IF Gone(d) THEN 0 ELSE pts[d]]
    OBVIOUS
  <2> HIDE DEF Gone
  <2>2. Len(pts) \in Nat /\ \A d \in 1 .. Len(pts) : pts[d] \in Event!Nodes \cup {0}
    OBVIOUS
  <2>3. \A d \in 1 .. Len(pts) : pts2[d] = IF Gone(d) THEN 0 ELSE pts[d]
    BY <2>1
  <2>4. \A d \in 1 .. Len(pts) : pts2[d] \in Event!Nodes \cup {0}
    BY <2>2, <2>3
  <2>5. pts2 = [d \in 1 .. Len(pts) |-> pts2[d]]
    BY <2>1
  <2>6. pts2 \in Seq(Event!Nodes \cup {0}) /\ Len(pts2) = Len(pts)
    BY <2>2, <2>4, <2>5, SequenceOf
  <2> QED
    BY <2>2, <2>3, <2>6
<1>a. \A d : Gone(d) <=> \E k \in 1 .. Len(L[h]) : L[h][k].desc = d
  OBVIOUS
<1> HIDE DEF Gone
<1>3. \A g \in Handlers : \A i \in 1 .. Len(L[g]) : L[g][i].desc \in 1 .. Len(pts)
  BY <1>2, Entries
<1>4. \A g \in Handlers : \A i \in 1 .. Len(L2[g]) : g # h /\ i \in 1 .. Len(L[g]) /\ L2[g][i] = L[g][i]
  BY <1>1
<1>5. Lists(L2, Len(pts))
  BY Zenon, <1>1, <1>3, <1>4 DEF Lists
<1>6. Distinct(L2)
  <2>1. ASSUME NEW f \in Handlers, NEW g \in Handlers, NEW i \in 1 .. Len(L2[f]), NEW j \in 1 .. Len(L2[g]),
               L2[f][i].node = L2[g][j].node \/ L2[f][i].desc = L2[g][j].desc
        PROVE  f = g /\ i = j
    <3>1. i \in 1 .. Len(L[f]) /\ L2[f][i] = L[f][i] /\ j \in 1 .. Len(L[g]) /\ L2[g][j] = L[g][j]
      BY <1>4
    <3> QED
      BY <2>1, <3>1 DEF Distinct
  <2> QED
    BY <2>1 DEF Distinct
<1>7. ASSUME PointsHold(L, pts) PROVE PointsHold(L2, pts2)
  <2>1. ASSUME NEW g \in Handlers, NEW i \in 1 .. Len(L2[g])
        PROVE  pts2[L2[g][i].desc] = L2[g][i].node
    <3>1. g # h /\ i \in 1 .. Len(L[g]) /\ L2[g][i] = L[g][i]
      BY Zenon, <1>4
    <3>2. pts[L[g][i].desc] = L[g][i].node /\ L[g][i].desc \in 1 .. Len(pts)
      BY Zenon, <1>3, <1>7, <3>1 DEF PointsHold
    <3>3. ~Gone(L[g][i].desc)
      BY Zenon, <1>a, <3>1 DEF Distinct
    <3> QED
      BY <1>2, <3>1, <3>2, <3>3
  <2>2. ASSUME NEW d \in 1 .. Len(pts2), pts2[d] # 0
        PROVE  \E g \in Handlers : \E i \in 1 .. Len(L2[g]) : L2[g][i].desc = d
    <3>1. d \in 1 .. Len(pts) /\ ~Gone(d) /\ pts[d] # 0
      BY <1>2, <2>2
    <3>2. PICK g \in Handlers : \E i \in 1 .. Len(L[g]) : L[g][i].desc = d
      BY Zenon, <1>7, <3>1 DEF PointsHold
    <3>3. g # h
      BY Zenon, <1>a, <3>1, <3>2
    <3> QED
      BY Zenon, <1>1, <3>2, <3>3
  <2> QED
    BY Zenon, <2>1, <2>2 DEF PointsHold
<1> QED
  BY Zenon, <1>2, <1>5, <1>6, <1>7

----------------------------------------------------------------------------
(***************************************************************************)
(* publish: the walk comes to the next one, which was not called before.   *)
(***************************************************************************)
LEMMA VisitKeeps ==
    ASSUME NEW L, NEW n \in Nat, Lists(L, n), Distinct(L), NEW h \in Handlers,
           NEW ca, EachOnce(ca, n), NEW k \in 0 .. Len(L[h]), Reached(L[h], k, ca),
           NEW it, NEW ca2,
           IF k + 1 <= Len(L[h])
           THEN it = [handler |-> h, node |-> L[h][k + 1].node] /\ ca2 = Append(ca, L[h][k + 1].desc)
           ELSE it = [handler |-> h, node |-> Event!End] /\ ca2 = ca
    PROVE  EachOnce(ca2, n) /\ Walks(L, it, ca2)
<1>1. /\ Len(L[h]) \in Nat /\ k \in Nat /\ k <= Len(L[h]) /\ h # 0
      /\ \A i \in 1 .. Len(L[h]) : L[h][i].node \in Event!Nodes /\ L[h][i].desc \in 1 .. n
      /\ Event!End \notin Event!Nodes /\ 0 \notin Event!Nodes
  BY Entries, EventConstants
<1>2. CASE k + 1 <= Len(L[h])
  <2> DEFINE c == L[h][k + 1].desc  a == L[h][k + 1].node
  <2>1. it = [handler |-> h, node |-> a] /\ ca2 = Append(ca, c)
    BY <1>2
  <2>2. k + 1 \in 1 .. Len(L[h]) /\ c \in 1 .. n /\ a \in Event!Nodes
    BY <1>1, <1>2
  <2>3. c \notin Called(ca)
    BY <1>1, <2>2 DEF Reached
  <2>4. \A i \in 1 .. Len(L[h]) : L[h][i].desc = c => i = k + 1
    BY <2>2 DEF Distinct
  <2>a. L[h][k + 1].node = a /\ L[h][k + 1].desc = c
    OBVIOUS
  <2> HIDE DEF c, a
  <2>5. ca \in Seq(1 .. n) /\ Len(ca) \in Nat /\ \A i, j \in 1 .. Len(ca) : ca[i] = ca[j] => i = j
    BY DEF EachOnce
  <2>6. /\ ca2 \in Seq(1 .. n) /\ Len(ca2) = Len(ca) + 1 /\ ca2[Len(ca) + 1] = c
        /\ \A i \in 1 .. Len(ca) : ca2[i] = ca[i]
    BY <2>1, <2>2, <2>5
  <2>7. Called(ca2) = Called(ca) \cup {c}
    <3>1. ASSUME NEW i \in 1 .. Len(ca2) PROVE ca2[i] \in Called(ca) \cup {c}
      <4>1. CASE i \in 1 .. Len(ca)
        BY <2>6, <4>1 DEF Called
      <4>2. CASE i = Len(ca) + 1
        BY <2>6, <4>2
      <4> QED
        BY <2>5, <2>6, <4>1, <4>2
    <3>2. c \in Called(ca2)
      <4>1. Len(ca) + 1 \in 1 .. Len(ca2)
        BY <2>5, <2>6
      <4> QED
        BY <2>6, <4>1 DEF Called
    <3>3. ASSUME NEW i \in 1 .. Len(ca) PROVE ca[i] \in Called(ca2)
      <4>1. i \in 1 .. Len(ca2) /\ ca2[i] = ca[i]
        BY <2>5, <2>6
      <4> QED
        BY <4>1 DEF Called
    <3> QED
      BY <3>1, <3>2, <3>3 DEF Called
  <2>8. ASSUME NEW i \in 1 .. Len(ca2), NEW j \in 1 .. Len(ca2), ca2[i] = ca2[j] PROVE i = j
    <3>1. \A m \in 1 .. Len(ca) : ca2[m] # c
      BY <2>3, <2>6 DEF Called
    <3>2. CASE i \in 1 .. Len(ca) /\ j \in 1 .. Len(ca)
      BY <2>5, <2>6, <2>8, <3>2
    <3>3. CASE i = Len(ca) + 1 \/ j = Len(ca) + 1
      <4>1. ca2[i] = c /\ ca2[j] = c
        BY <2>6, <2>8, <3>3
      <4>2. i \notin 1 .. Len(ca) /\ j \notin 1 .. Len(ca)
        BY <3>1, <4>1
      <4>3. i \in 1 .. Len(ca) + 1 /\ j \in 1 .. Len(ca) + 1
        BY <2>6
      <4> QED
        BY <2>5, <4>2, <4>3
    <3> QED
      BY SMTT(30), <2>5, <2>6, <3>2, <3>3
  <2>9. Reached(L[h], k + 1, ca2)
    <3>1. ASSUME NEW i \in 1 .. Len(L[h]) PROVE L[h][i].desc \in Called(ca2) <=> i <= k + 1
      <4>1. CASE i = k + 1
        BY <1>1, <2>7, <2>a, <4>1
      <4>2. CASE i # k + 1
        <5>1. L[h][i].desc \in Called(ca2) <=> L[h][i].desc \in Called(ca)
          BY <2>4, <2>7, <4>2
        <5>2. L[h][i].desc \in Called(ca) <=> i <= k
          BY DEF Reached
        <5> QED
          BY <1>1, <4>2, <5>1, <5>2
      <4> QED
        BY <4>1, <4>2
    <3> QED
      BY <3>1 DEF Reached
  <2>10. it \in Iterator /\ it.handler = h /\ it.node = a
    BY <2>1, <2>2 DEF Iterator
  <2>11. a # Event!End
    BY <1>1, <2>2
  <2>12. EachOnce(ca2, n)
    BY <2>6, <2>8 DEF EachOnce
  <2>13. \E i \in 1 .. Len(L[h]) : L[h][i].node = a /\ Reached(L[h], i, ca2)
    BY <2>2, <2>9, <2>a
  <2>14. Walks(L, it, ca2)
    BY <1>1, <2>10, <2>11, <2>13 DEF Walks
  <2> QED
    BY <2>12, <2>14
<1>3. CASE ~(k + 1 <= Len(L[h]))
  <2>1. it = [handler |-> h, node |-> Event!End] /\ ca2 = ca /\ k = Len(L[h])
    BY <1>1, <1>3
  <2>2. it \in Iterator /\ it.handler = h /\ it.node = Event!End
    BY <2>1 DEF Iterator
  <2>3. Reached(L[h], Len(L[h]), ca2)
    BY <2>1
  <2> QED
    BY <1>1, <2>1, <2>2, <2>3 DEF Walks
<1> QED
  BY <1>2, <1>3

----------------------------------------------------------------------------
(***************************************************************************)
(* The steps.                                                              *)
(***************************************************************************)
LEMMA EventInit == Event!Init => EventInv
<1> SUFFICES ASSUME Event!Init PROVE EventInv
  OBVIOUS
<1>1. /\ subscribers = [h \in Handlers |-> <<>>] /\ points = <<>> /\ called = <<>>
      /\ iterator = [handler |-> 0, node |-> 0]
  BY EventConstants DEF Event!Init, Event!Idle
<1>2. /\ points \in Seq(Event!Nodes \cup {0}) /\ Len(points) = 0 /\ 0 <= MaxDescriptors
      /\ called \in Seq(1 .. 0) /\ Len(called) = 0
  BY <1>1, EventConstants
<1>3. /\ subscribers \in [Handlers -> Seq(Entry)]
      /\ \A h \in Handlers : Len(subscribers[h]) = 0
  BY <1>1
<1>4. Lists(subscribers, Len(points)) /\ Distinct(subscribers)
  BY <1>3 DEF Lists, Distinct
<1>5. EachOnce(called, Len(points))
  BY <1>2 DEF EachOnce
<1>6. PointsHold(subscribers, points)
  BY <1>2, <1>3 DEF PointsHold
<1>7. Walks(subscribers, iterator, called)
  <2>1. iterator \in Iterator /\ iterator.handler = 0 /\ iterator.node = 0
    BY <1>1 DEF Iterator
  <2> QED
    BY <1>1, <2>1, EventConstants DEF Walks
<1> QED
  BY <1>2, <1>4, <1>5, <1>6, <1>7 DEF EventInv, Handled

\* What every step starts from.
LEMMA EventFacts ==
    ASSUME EventInv
    PROVE  /\ points \in Seq(Event!Nodes \cup {0}) /\ Len(points) \in Nat /\ Len(points) <= MaxDescriptors
           /\ subscribers \in [Handlers -> Seq(Entry)]
           /\ Lists(subscribers, Len(points)) /\ Distinct(subscribers)
           /\ EachOnce(called, Len(points)) /\ Walks(subscribers, iterator, called)
           /\ iterator \in Iterator
           /\ ~overwritten => PointsHold(subscribers, points)
           /\ Event!UsedNodes \subseteq Event!Nodes
           /\ Event!ProgramRuns => iterator.handler = 0 \/ iterator.node \in Event!Nodes
<1>1. /\ points \in Seq(Event!Nodes \cup {0}) /\ Len(points) <= MaxDescriptors
      /\ Lists(subscribers, Len(points)) /\ Distinct(subscribers)
      /\ EachOnce(called, Len(points)) /\ Walks(subscribers, iterator, called)
      /\ ~overwritten => PointsHold(subscribers, points)
  BY DEF EventInv, Handled
<1>2. Len(points) \in Nat
  BY <1>1
<1>3. subscribers \in [Handlers -> Seq(Entry)] /\ iterator \in Iterator
  BY <1>1 DEF Lists, Walks
<1>4. Event!UsedNodes \subseteq Event!Nodes
  BY <1>1, <1>2, Entries DEF Event!UsedNodes, Event!NodesOf
<1>5. Event!ProgramRuns => iterator.handler = 0 \/ iterator.node \in Event!Nodes
  BY <1>4, EventConstants DEF Event!ProgramRuns, Event!Publishing
<1> QED
  BY <1>1, <1>2, <1>3, <1>4, <1>5

LEMMA SubscribeHandles ==
    ASSUME EventInv, NEW h \in Handlers, Event!Subscribe(h)
    PROVE  EventInv'
<1> DEFINE n == Len(points)  a == Event!FreshNode  e == [node |-> a, desc |-> n + 1]
<1>1. /\ Event!ProgramRuns /\ n < MaxDescriptors
      /\ subscribers' = [subscribers EXCEPT ![h] = Append(subscribers[h], e)]
      /\ points' = Append(points, a)
      /\ iterator' = iterator /\ called' = called /\ overwritten' = overwritten
  BY DEF Event!Subscribe
<1>2. /\ points \in Seq(Event!Nodes \cup {0}) /\ n \in Nat
      /\ subscribers \in [Handlers -> Seq(Entry)] /\ Lists(subscribers, n) /\ Distinct(subscribers)
      /\ EachOnce(called, n) /\ Walks(subscribers, iterator, called)
      /\ ~overwritten => PointsHold(subscribers, points)
      /\ iterator.handler = 0 \/ iterator.node \in Event!Nodes
  BY <1>1, EventFacts
<1>3. a \in Event!Nodes \ Event!UsedNodes
  BY <1>1, <1>2, NodeIsFresh
<1>4. \A g \in Handlers : \A i \in 1 .. Len(subscribers[g]) : subscribers[g][i].node # a
  BY <1>3 DEF Event!UsedNodes, Event!NodesOf
<1> HIDE DEF a
<1>5. e \in Entry /\ e.node = a /\ e.desc = n + 1
  BY <1>2, <1>3 DEF Entry
<1> HIDE DEF e
<1>6. Grown(subscribers, h, e, subscribers')
  BY <1>1, <1>2, <1>5, AppendGrows
<1>7. points' \in Seq(Event!Nodes \cup {0}) /\ Len(points') = n + 1 /\ n + 1 <= MaxDescriptors
  BY <1>1, <1>2, <1>3, EventConstants
<1>8. Lists(subscribers', n + 1) /\ Distinct(subscribers')
  BY <1>2, <1>3, <1>4, <1>5, <1>6, GrownKeeps
<1>9. EachOnce(called, n + 1) /\ Walks(subscribers', iterator, called)
  BY <1>2, <1>5, <1>6, GrownWalks
<1>10. ~overwritten => PointsHold(subscribers', points')
  BY <1>1, <1>2, <1>3, <1>5, <1>6, GrownPoints
<1> QED
  BY <1>1, <1>7, <1>8, <1>9, <1>10 DEF EventInv, Handled

LEMMA UnsubscribeHandles ==
    ASSUME EventInv, NEW h \in Handlers, NEW d \in Event!Descriptors, Event!Unsubscribe(h, d)
    PROVE  EventInv'
<1>1. /\ points \in Seq(Event!Nodes \cup {0}) /\ Len(points) \in Nat /\ Len(points) <= MaxDescriptors
      /\ subscribers \in [Handlers -> Seq(Entry)] /\ Lists(subscribers, Len(points)) /\ Distinct(subscribers)
      /\ EachOnce(called, Len(points)) /\ Walks(subscribers, iterator, called)
      /\ ~overwritten => PointsHold(subscribers, points)
      /\ iterator.handler = 0 \/ iterator.node \in Event!Nodes
  BY EventFacts DEF Event!Unsubscribe
<1>2. d \in 1 .. Len(points)
  BY DEF Event!Descriptors
<1>3. PICK k \in 1 .. Len(subscribers[h]) : subscribers[h][k].node = points[d]
  BY DEF Event!Unsubscribe, Event!NodesOf
<1>4. Event!Place(subscribers[h], points[d]) = k
  BY <1>1, <1>3, PlaceIs
<1>5. /\ subscribers' = [subscribers EXCEPT ![h] = Event!RemoveAt(subscribers[h], k)]
      /\ points' = [points EXCEPT ![d] = 0]
      /\ iterator' = IF iterator.node = subscribers[h][k].node
                     THEN [iterator EXCEPT !.node = Event!Dangling] ELSE iterator
      /\ called' = called /\ overwritten' = overwritten
  BY <1>3, <1>4 DEF Event!Unsubscribe, Event!Remaining, Event!Cleared, Event!Null
<1>6. Shrunk(subscribers, h, k, subscribers')
  BY <1>1, <1>5, RemoveAtShrinks
<1>7. points' \in Seq(Event!Nodes \cup {0}) /\ Len(points') = Len(points)
  BY <1>1, <1>2, <1>5
<1>8. Lists(subscribers', Len(points)) /\ Distinct(subscribers')
  BY <1>1, <1>6, ShrunkKeeps
<1>9. Walks(subscribers', iterator', called)
  BY <1>1, <1>5, <1>6, ShrunkWalks
<1>10. ~overwritten => PointsHold(subscribers', points')
  BY <1>1, <1>2, <1>3, <1>5, <1>6, ShrunkPoints
<1> QED
  BY <1>1, <1>5, <1>7, <1>8, <1>9, <1>10 DEF EventInv, Handled

\* Between two calls of publish a walk says nothing about the lists.
LEMMA NobodyWalks ==
    ASSUME NEW L, NEW L2, NEW it, NEW ca, Walks(L, it, ca), it.handler = 0
    PROVE  Walks(L2, it, ca)
  BY EventConstants DEF Walks

LEMMA AssignHandles ==
    ASSUME EventInv, NEW to \in Handlers, NEW from \in Handlers, Event!MoveAssign(to, from)
    PROVE  EventInv'
<1>1. /\ points \in Seq(Event!Nodes \cup {0}) /\ Len(points) \in Nat /\ Len(points) <= MaxDescriptors
      /\ subscribers \in [Handlers -> Seq(Entry)] /\ Lists(subscribers, Len(points)) /\ Distinct(subscribers)
      /\ EachOnce(called, Len(points)) /\ Walks(subscribers, iterator, called)
      /\ ~overwritten => PointsHold(subscribers, points)
  BY EventFacts
<1>2. /\ iterator.handler = 0 /\ to # from
      /\ subscribers' = [subscribers EXCEPT ![to] = subscribers[from], ![from] = <<>>]
      /\ overwritten' = (overwritten \/ subscribers[to] # <<>>)
      /\ points' = points /\ iterator' = iterator /\ called' = called
  BY EventConstants DEF Event!MoveAssign, Event!Publishing
<1>3. Moved(subscribers, to, from, subscribers')
  BY <1>1, <1>2, AssignMoves
<1>4. /\ Lists(subscribers', Len(points)) /\ Distinct(subscribers')
      /\ PointsHold(subscribers, points) /\ subscribers[to] = <<>> => PointsHold(subscribers', points)
  BY <1>1, <1>2, <1>3, MovedKeeps
<1>5. Walks(subscribers', iterator, called)
  BY <1>1, <1>2, NobodyWalks
<1>6. ~overwritten' => ~overwritten /\ subscribers[to] = <<>>
  BY Zenon, <1>2
<1>7. points' = points /\ iterator' = iterator /\ called' = called
  BY <1>2
<1> QED
  BY <1>1, <1>4, <1>5, <1>6, <1>7 DEF EventInv, Handled

LEMMA DestroyHandles ==
    ASSUME EventInv, NEW h \in Handlers, Event!Destroy(h)
    PROVE  EventInv'
<1>1. /\ points \in Seq(Event!Nodes \cup {0}) /\ Len(points) \in Nat /\ Len(points) <= MaxDescriptors
      /\ subscribers \in [Handlers -> Seq(Entry)] /\ Lists(subscribers, Len(points)) /\ Distinct(subscribers)
      /\ EachOnce(called, Len(points)) /\ Walks(subscribers, iterator, called)
      /\ ~overwritten => PointsHold(subscribers, points)
  BY EventFacts
<1>2. /\ iterator.handler = 0
      /\ subscribers' = [subscribers EXCEPT ![h] = <<>>]
      /\ points' = [d \in 1 .. Len(points) |->
            IF \E k \in 1 .. Len(subscribers[h]) : subscribers[h][k].desc = d THEN 0 ELSE points[d]]
      /\ overwritten' = overwritten /\ iterator' = iterator /\ called' = called
  BY EventConstants DEF Event!Destroy, Event!Publishing, Event!Descriptors
<1>3. Emptied(subscribers, h, subscribers')
  BY <1>1, <1>2, DestroyEmpties
<1>4. /\ Lists(subscribers', Len(points)) /\ Distinct(subscribers')
      /\ points' \in Seq(Event!Nodes \cup {0}) /\ Len(points') = Len(points)
      /\ PointsHold(subscribers, points) => PointsHold(subscribers', points')
  BY SMTT(30), <1>1, <1>2, <1>3, DestroyedKeeps
<1>5. Walks(subscribers', iterator, called)
  BY <1>1, <1>2, NobodyWalks
<1>6. overwritten' = overwritten /\ iterator' = iterator /\ called' = called
  BY <1>2
<1> QED
  BY <1>1, <1>4, <1>5, <1>6 DEF EventInv, Handled

\* The iterator comes to place k + 1, all before it having been called.
LEMMA VisitHandles ==
    ASSUME EventInv, NEW h \in Handlers, NEW k \in 0 .. Len(subscribers[h]), Reached(subscribers[h], k, called),
           Event!Visit(h, k + 1), subscribers' = subscribers, points' = points, overwritten' = overwritten
    PROVE  EventInv'
<1>1. /\ points \in Seq(Event!Nodes \cup {0}) /\ Len(points) \in Nat /\ Len(points) <= MaxDescriptors
      /\ Lists(subscribers, Len(points)) /\ Distinct(subscribers) /\ EachOnce(called, Len(points))
      /\ ~overwritten => PointsHold(subscribers, points)
  BY EventFacts
<1>2. IF k + 1 <= Len(subscribers[h])
      THEN /\ iterator' = [handler |-> h, node |-> subscribers[h][k + 1].node]
           /\ called' = Append(called, subscribers[h][k + 1].desc)
      ELSE iterator' = [handler |-> h, node |-> Event!End] /\ called' = called
  BY DEF Event!Visit
<1>3. EachOnce(called', Len(points)) /\ Walks(subscribers, iterator', called')
  BY <1>1, <1>2, VisitKeeps
<1> QED
  BY <1>1, <1>3 DEF EventInv, Handled

LEMMA PublishHandles ==
    ASSUME EventInv, NEW h \in Handlers, Event!Publish(h)
    PROVE  EventInv'
<1>1. /\ iterator.handler = 0 /\ Event!Visit(h, 1)
      /\ subscribers' = subscribers /\ points' = points /\ overwritten' = overwritten
  BY EventConstants DEF Event!Publish, Event!Publishing
<1>2. called = <<>>
  BY <1>1, EventFacts DEF Walks
<1>3. Called(called) = {}
  BY <1>2 DEF Called
<1>4. Len(subscribers[h]) \in Nat
  BY EventFacts, Entries
<1>5. 0 \in 0 .. Len(subscribers[h]) /\ Reached(subscribers[h], 0, called) /\ 0 + 1 = 1
  BY <1>3, <1>4 DEF Reached
<1> QED
  BY <1>1, <1>5, VisitHandles

LEMMA CallHandles ==
    ASSUME EventInv, Event!CallNext
    PROVE  EventInv'
<1> DEFINE h == iterator.handler
<1>1. /\ h # 0 /\ iterator.node \in Event!UsedNodes
      /\ Event!Visit(h, Event!Place(subscribers[h], iterator.node) + 1)
      /\ subscribers' = subscribers /\ points' = points /\ overwritten' = overwritten
  BY EventConstants DEF Event!CallNext, Event!Publishing
<1>2. /\ iterator.node \in Event!Nodes /\ Walks(subscribers, iterator, called) /\ h \in Handlers
      /\ Distinct(subscribers) /\ Len(points) \in Nat /\ Lists(subscribers, Len(points))
  BY <1>1, EventFacts DEF Iterator
<1>3. PICK k \in 1 .. Len(subscribers[h]) :
        subscribers[h][k].node = iterator.node /\ Reached(subscribers[h], k, called)
  BY <1>2 DEF Walks
<1> HIDE DEF h
<1>4. Event!Place(subscribers[h], iterator.node) = k
  BY <1>2, <1>3, PlaceIs
<1>5. k \in 0 .. Len(subscribers[h])
  BY <1>3
<1> QED
  BY <1>1, <1>2, <1>3, <1>4, <1>5, VisitHandles

LEMMA EventNext == EventInv /\ [Event!Next]_Event!vars => EventInv'
<1> SUFFICES ASSUME EventInv, [Event!Next]_Event!vars PROVE EventInv'
  OBVIOUS
<1>1. ASSUME NEW h \in Handlers, Event!Subscribe(h) PROVE EventInv'
  BY <1>1, SubscribeHandles
<1>2. ASSUME NEW h \in Handlers, NEW d \in Event!Descriptors, Event!Unsubscribe(h, d) PROVE EventInv'
  BY <1>2, UnsubscribeHandles
<1>3. ASSUME NEW h \in Handlers, NEW d \in Event!Descriptors, Event!UnsubscribeMissing(h, d) PROVE EventInv'
  BY <1>3 DEF Event!UnsubscribeMissing, Event!vars, EventInv
<1>4. ASSUME NEW h \in Handlers, NEW from \in Handlers, Event!MoveAssign(h, from) PROVE EventInv'
  BY <1>4, AssignHandles
<1>5. ASSUME NEW h \in Handlers, Event!Destroy(h) PROVE EventInv'
  BY <1>5, DestroyHandles
<1>6. ASSUME NEW h \in Handlers, Event!Publish(h) PROVE EventInv'
  BY <1>6, PublishHandles
<1>7. CASE Event!CallNext
  BY <1>7, CallHandles
<1>8. CASE Event!PublishReturns
  <2>1. /\ iterator' = [handler |-> 0, node |-> 0] /\ called' = <<>>
        /\ subscribers' = subscribers /\ points' = points /\ overwritten' = overwritten
    BY <1>8, EventConstants DEF Event!PublishReturns, Event!Idle
  <2>2. /\ points \in Seq(Event!Nodes \cup {0}) /\ Len(points) \in Nat /\ Len(points) <= MaxDescriptors
        /\ Lists(subscribers, Len(points)) /\ Distinct(subscribers)
        /\ ~overwritten => PointsHold(subscribers, points)
    BY EventFacts
  <2>3. iterator' \in Iterator /\ iterator'.handler = 0 /\ iterator'.node = 0
    BY <2>1 DEF Iterator
  <2>4. Walks(subscribers, iterator', called')
    BY <2>1, <2>3, EventConstants DEF Walks
  <2>5. EachOnce(called', Len(points))
    BY <2>1 DEF EachOnce
  <2> QED
    BY <2>1, <2>2, <2>4, <2>5 DEF EventInv, Handled
<1>9. CASE UNCHANGED Event!vars
  BY <1>9 DEF Event!vars, EventInv
<1> QED
  BY <1>1, <1>2, <1>3, <1>4, <1>5, <1>6, <1>7, <1>8, <1>9 DEF Event!Next

----------------------------------------------------------------------------
\* A publish (event.h:291) calls every subscriber once, those its callbacks
\* add included, and none again, whatever they unsubscribe but themselves.
THEOREM PublishCallsEveryone == Event!Spec => []PublishReachesAll
<1>1. EventInv => PublishReachesAll
  <2> SUFFICES ASSUME EventInv PROVE PublishReachesAll
    OBVIOUS
  <2>1. /\ Walks(subscribers, iterator, called) /\ EachOnce(called, Len(points)) /\ iterator \in Iterator
        /\ Len(points) \in Nat /\ Lists(subscribers, Len(points))
    BY EventFacts
  <2>2. ASSUME iterator.node = Event!End, NEW k \in 1 .. Len(subscribers[iterator.handler])
        PROVE  subscribers[iterator.handler][k].desc \in {called[i] : i \in 1 .. Len(called)}
    <3> DEFINE list == subscribers[iterator.handler]
    <3>1. iterator.handler # 0
      BY <2>1, <2>2, EventConstants DEF Walks
    <3>2. Reached(list, Len(list), called) /\ iterator.handler \in Handlers
      BY <2>1, <2>2, <3>1 DEF Walks, Iterator
    <3>3. Len(list) \in Nat /\ k <= Len(list)
      BY <2>1, <3>2, Entries
    <3> QED
      BY <3>2, <3>3 DEF Reached, Called
  <2>3. \A i, j \in 1 .. Len(called) : called[i] = called[j] => i = j
    BY <2>1 DEF EachOnce
  <2> QED
    BY <2>2, <2>3 DEF PublishReachesAll, Event!PublishReachesAll
<1> QED
  BY <1>1, EventInit, EventNext, PTL DEF Event!Spec

\* A descriptor is valid exactly while its subscriber is in the list of some
\* handler, at the node it points to: through copies, exceptions, moved and
\* destroyed handlers (event.h:274), until a handler that has subscribers is
\* assigned to.
THEOREM DescriptorsAreValid == Event!Spec => []SubscriptionsHold
<1>1. EventInv => SubscriptionsHold
  <2> SUFFICES ASSUME EventInv, ~overwritten, NEW d \in Event!Descriptors
               PROVE  LET homes == {s \in UNION {{subscribers[h][k] : k \in 1 .. Len(subscribers[h])} : h \in Handlers} : s.desc = d}
                      IN  IF points[d] = 0 THEN homes = {} ELSE homes = {[node |-> points[d], desc |-> d]}
    BY EventConstants DEF SubscriptionsHold, Event!SubscriptionsHold
  <2> DEFINE homes == {s \in UNION {{subscribers[h][k] : k \in 1 .. Len(subscribers[h])} : h \in Handlers} : s.desc = d}
  <2>1. PointsHold(subscribers, points) /\ d \in 1 .. Len(points) /\ Len(points) \in Nat /\ Lists(subscribers, Len(points))
    BY EventFacts DEF Event!Descriptors
  <2>2. ASSUME NEW s \in homes PROVE points[d] # 0 /\ s = [node |-> points[d], desc |-> d]
    <3>1. PICK h \in Handlers : s \in {subscribers[h][k] : k \in 1 .. Len(subscribers[h])}
      OBVIOUS
    <3>2. PICK k \in 1 .. Len(subscribers[h]) : s = subscribers[h][k]
      BY <3>1
    <3>3. s \in Entry /\ s.node \in Event!Nodes /\ s.desc = d
      BY <2>1, <3>2, Entries
    <3>4. points[d] = s.node
      BY <2>1, <3>2, <3>3 DEF PointsHold
    <3> HIDE DEF homes
    <3>5. points[d] # 0
      BY <3>3, <3>4, EventConstants
    <3> QED
      BY <3>3, <3>4, <3>5 DEF Entry
  <2>3. ASSUME points[d] # 0 PROVE homes # {}
    <3>1. PICK h \in Handlers : \E k \in 1 .. Len(subscribers[h]) : subscribers[h][k].desc = d
      BY <2>1, <2>3 DEF PointsHold
    <3>2. PICK k \in 1 .. Len(subscribers[h]) : subscribers[h][k].desc = d
      BY <3>1
    <3>3. subscribers[h][k] \in homes
      BY <3>2
    <3> QED
      BY <3>3
  <2> HIDE DEF homes
  <2>4. IF points[d] = 0 THEN homes = {} ELSE homes = {[node |-> points[d], desc |-> d]}
    BY <2>2, <2>3
  <2> QED
    BY <2>4 DEF homes
<1> QED
  BY <1>1, EventInit, EventNext, PTL DEF Event!Spec

----------------------------------------------------------------------------
(***************************************************************************)
(* The interpolations: the vector v, and what lies at the addresses, es.   *)
(***************************************************************************)
Interpolated == [left : Nat, pos : Nat, coroutine : Coroutines \cup {0}]

\* Everyone stands in the vector once, where it says.
Holds(v, es) ==
    /\ DOMAIN es \subseteq Interp!Addresses /\ \A a \in DOMAIN es : es[a] \in Interpolated
    /\ v \in Seq(DOMAIN es)
    /\ \A a \in DOMAIN es : es[a].pos < Len(v) /\ v[es[a].pos + 1] = a
    /\ \A k \in 1 .. Len(v) : es[v[k]].pos = k - 1

\* es2 differs from es in what is left of its events, no more.
SamePlaces(es, es2) ==
    /\ DOMAIN es2 = DOMAIN es
    /\ \A b \in DOMAIN es : es2[b] \in Interpolated /\ es2[b].pos = es[b].pos /\ es2[b].coroutine = es[b].coroutine

\* Promises pr name events of their own, never the one that is finishing, fi.
PromisesNamed(es, pr, fi) ==
    /\ pr \in [Coroutines -> Interp!Addresses \cup {0}] /\ fi \in DOMAIN es \cup {0}
    /\ \A c \in Coroutines : pr[c] # 0 => pr[c] \in DOMAIN es /\ es[pr[c]].coroutine = c /\ pr[c] # fi

\* None of them names a.
Spares(es, pr, fi, a) == PromisesNamed(es, pr, fi) /\ \A c \in Coroutines : pr[c] # a

\* Where the pass goes on, and whom it has left behind.
Onward(i, fi) == IF fi = 0 THEN i ELSE i + 1
Missed(es, ad, ps, n) == {a \in ps \ ad : es[a].pos < n}

\* A pass at index i that has advanced ad of ps, with rm removed.
InPassInv(es, i, fi, ad, ps, rm) ==
    /\ i \in Nat /\ rm \in 0 .. MaxInterpolators
    /\ ad \subseteq DOMAIN es /\ ps \subseteq DOMAIN es
    /\ \A a \in ad : es[a].pos < Onward(i, fi) /\ (a # fi => es[a].pos < i)
    /\ fi # 0 => fi \in ad
    /\ Interp!Cardinality(Missed(es, ad, ps, Onward(i, fi))) <= rm

Interpolates(v, es, pr, i, fi, ad, ps, rm) ==
    /\ Holds(v, es) /\ PromisesNamed(es, pr, fi) /\ rm \in 0 .. MaxInterpolators
    /\ IF i = -1 THEN fi = 0 ELSE InPassInv(es, i, fi, ad, ps, rm)

InterpInv == Interpolates(interpolators, events, promise, index, finishing, advanced, present, removed)

LEMMA InterpConstants == MaxInterpolators \in Nat /\ Interp!Addresses = 1 .. MaxInterpolators /\ 0 \notin Coroutines
  BY InterpolationAssumption DEF Interp!InterpolationAssumption, Interp!Addresses

LEMMA SameCardinality == \A S : Interp!Cardinality(S) = Cardinality(S)
  BY Zenon DEF Interp!Cardinality, Cardinality

\* There are no more than MaxInterpolators of anything, one more than of its part, or fewer.
LEMMA AddressesCounted ==
    ASSUME NEW S, S \subseteq Interp!Addresses
    PROVE  IsFiniteSet(S) /\ Interp!Cardinality(S) \in Nat /\ Interp!Cardinality(S) <= MaxInterpolators
<1>1. MaxInterpolators \in Nat /\ Interp!Addresses = 1 .. MaxInterpolators
  BY InterpConstants
<1>2. IsFiniteSet(1 .. MaxInterpolators) /\ Cardinality(1 .. MaxInterpolators) = MaxInterpolators
  BY <1>1, FS_Interval
<1>3. IsFiniteSet(S) /\ Cardinality(S) <= MaxInterpolators
  BY <1>1, <1>2, FS_Subset
<1>4. Cardinality(S) \in Nat
  BY <1>3, FS_CardinalityType
<1> QED
  BY <1>3, <1>4, SameCardinality

LEMMA OneMore ==
    ASSUME NEW S, S \subseteq Interp!Addresses, NEW T, NEW z, T \subseteq S \cup {z}
    PROVE  Interp!Cardinality(T) <= Interp!Cardinality(S) + 1
<1>1. IsFiniteSet(S) /\ Cardinality(S) \in Nat
  BY AddressesCounted, SameCardinality
<1>2. IsFiniteSet(S \cup {z}) /\ Cardinality(S \cup {z}) <= Cardinality(S) + 1
  <2>1. IsFiniteSet(S \cup {z}) /\ Cardinality(S \cup {z}) = IF z \in S THEN Cardinality(S) ELSE Cardinality(S) + 1
    BY <1>1, FS_AddElement
  <2>2. CASE z \in S
    BY <1>1, <2>1, <2>2
  <2>3. CASE z \notin S
    BY <1>1, <2>1, <2>3
  <2> QED
    BY <2>2, <2>3
<1>3. IsFiniteSet(T) /\ Cardinality(T) <= Cardinality(S \cup {z})
  BY <1>2, FS_Subset
<1>4. Cardinality(T) \in Nat /\ Cardinality(S \cup {z}) \in Nat
  BY <1>2, <1>3, FS_CardinalityType
<1>5. Cardinality(T) <= Cardinality(S) + 1
  BY <1>1, <1>2, <1>3, <1>4
<1> QED
  BY <1>5, SameCardinality

LEMMA NoMore ==
    ASSUME NEW S, S \subseteq Interp!Addresses, NEW T, T \subseteq S
    PROVE  Interp!Cardinality(T) <= Interp!Cardinality(S)
<1>1. IsFiniteSet(S)
  BY AddressesCounted
<1>2. Cardinality(T) <= Cardinality(S)
  BY <1>1, FS_Subset
<1> QED
  BY <1>2, SameCardinality

----------------------------------------------------------------------------
\* push
LEMMA PushHolds ==
    ASSUME NEW v, NEW es, Holds(v, es), NEW a \in Interp!Addresses \ DOMAIN es,
           NEW v2, v2 = Append(v, a), NEW es2, DOMAIN es2 = DOMAIN es \cup {a},
           es2[a] \in Interpolated, es2[a].pos = Len(v), \A b \in DOMAIN es : es2[b] = es[b]
    PROVE  Holds(v2, es2)
<1>1. /\ DOMAIN es2 = DOMAIN es \cup {a} /\ es2[a] \in Interpolated /\ es2[a].pos = Len(v)
      /\ \A b \in DOMAIN es : es2[b] = es[b] /\ b # a
  OBVIOUS
<1>2. v \in Seq(DOMAIN es) /\ Len(v) \in Nat /\ \A k \in 1 .. Len(v) : v[k] \in DOMAIN es
  BY DEF Holds
<1>3. /\ v2 \in Seq(DOMAIN es2) /\ Len(v2) = Len(v) + 1 /\ v2[Len(v) + 1] = a
      /\ \A k \in 1 .. Len(v) : v2[k] = v[k]
  BY <1>1, <1>2
<1>4. \A b \in DOMAIN es : es[b] \in Interpolated /\ es[b].pos \in Nat /\ es[b].pos < Len(v) /\ v[es[b].pos + 1] = b
  BY DEF Holds, Interpolated
<1>5. ASSUME NEW b \in DOMAIN es2 PROVE es2[b].pos < Len(v2) /\ v2[es2[b].pos + 1] = b
  <2>1. CASE b = a
    BY <1>1, <1>2, <1>3, <2>1
  <2>2. CASE b \in DOMAIN es
    <3>1. es[b].pos + 1 \in 1 .. Len(v)
      BY <1>2, <1>4, <2>2
    <3> QED
      BY <1>1, <1>2, <1>3, <1>4, <2>2, <3>1
  <2> QED
    BY <1>1, <2>1, <2>2
<1>6. ASSUME NEW k \in 1 .. Len(v2) PROVE es2[v2[k]].pos = k - 1
  <2>1. CASE k \in 1 .. Len(v)
    BY <1>1, <1>2, <1>3, <2>1 DEF Holds
  <2>2. CASE k = Len(v) + 1
    BY <1>1, <1>2, <1>3, <2>2
  <2> QED
    BY <1>2, <1>3, <2>1, <2>2
<1>7. DOMAIN es2 \subseteq Interp!Addresses /\ \A b \in DOMAIN es2 : es2[b] \in Interpolated
  BY <1>1, <1>4 DEF Holds
<1> QED
  BY <1>3, <1>5, <1>6, <1>7 DEF Holds

LEMMA SequenceIn ==
    ASSUME NEW S, NEW T, NEW w \in Seq(S), \A k \in 1 .. Len(w) : w[k] \in T
    PROVE  w \in Seq(T)
  OBVIOUS

\* The vector of pop: the last element in the place i.
LEMMA FrontMoved ==
    ASSUME NEW S, NEW v \in Seq(S), NEW i \in 1 .. Len(v)
    PROVE  LET w == Interp!Front([v EXCEPT ![i] = Interp!Last(v)])
           IN  /\ w \in Seq(S) /\ Len(w) = Len(v) - 1
               /\ \A k \in 1 .. Len(v) - 1 : w[k] = IF k = i THEN v[Len(v)] ELSE v[k]
<1>1. Len(v) \in Nat /\ Len(v) >= 1 /\ v[Len(v)] \in S
  OBVIOUS
<1> DEFINE u == [v EXCEPT ![i] = v[Len(v)]]
<1>2. u \in Seq(S) /\ Len(u) = Len(v) /\ \A k \in 1 .. Len(v) : u[k] = IF k = i THEN v[Len(v)] ELSE v[k]
  BY <1>1
<1> HIDE DEF u
<1> DEFINE w == SubSeq(u, 1, Len(u) - 1)
<1>3. w \in Seq(S) /\ Len(w) = Len(v) - 1 /\ \A k \in 1 .. Len(v) - 1 : w[k] = u[k]
  BY <1>1, <1>2
<1> DEFINE f == Interp!Front([v EXCEPT ![i] = Interp!Last(v)])
<1>4. f = w
  BY DEF Interp!Front, Interp!Last, u
<1> HIDE DEF w, f
<1>5. f \in Seq(S) /\ Len(f) = Len(v) - 1 /\ \A k \in 1 .. Len(v) - 1 : f[k] = IF k = i THEN v[Len(v)] ELSE v[k]
  BY <1>2, <1>3, <1>4
<1> QED
  BY <1>5 DEF f

\* pop and destroy_event
LEMMA PopHolds ==
    ASSUME NEW v, NEW es, Holds(v, es), NEW a \in DOMAIN es, NEW p, p = Interp!Popped(v, es, a)
    PROVE  /\ Holds(p.vector, p.events) /\ DOMAIN p.events = DOMAIN es \ {a}
           /\ \A b \in DOMAIN es \ {a} :
                /\ p.events[b].coroutine = es[b].coroutine
                /\ p.events[b].pos = IF b = v[Len(v)] THEN es[a].pos ELSE es[b].pos
           /\ \A b \in DOMAIN es : es[b].pos \in Nat /\ es[b].pos <= es[v[Len(v)]].pos
           /\ v[Len(v)] \in DOMAIN es
<1> DEFINE n == Len(v)  i == es[a].pos + 1  last == v[n]
           w == Interp!Front([v EXCEPT ![i] = Interp!Last(v)])
           es2 == [b \in DOMAIN es \ {a} |-> IF b = last THEN [es[b] EXCEPT !.pos = i - 1] ELSE es[b]]
<1>1. /\ v \in Seq(DOMAIN es) /\ n \in Nat
      /\ \A b \in DOMAIN es : es[b] \in Interpolated /\ es[b].pos \in Nat /\ es[b].pos < n /\ v[es[b].pos + 1] = b
  BY DEF Holds, Interpolated
<1>2. \A k \in 1 .. n : v[k] \in DOMAIN es /\ es[v[k]].pos = k - 1
  BY <1>1 DEF Holds
<1>3. i \in 1 .. n /\ n >= 1 /\ v[i] = a
  BY <1>1
<1>4. last \in DOMAIN es /\ es[last].pos = n - 1
  BY <1>1, <1>2, <1>3
<1>5. w \in Seq(DOMAIN es) /\ Len(w) = n - 1 /\ \A k \in 1 .. n - 1 : w[k] = IF k = i THEN last ELSE v[k]
  BY <1>1, <1>3, FrontMoved
<1>6. p = [vector |-> w, events |-> es2]
  BY DEF Interp!Popped, Interp!Last
<1> HIDE DEF w, last
<1>7. /\ DOMAIN es2 = DOMAIN es \ {a}
      /\ \A b \in DOMAIN es \ {a} :
            /\ es2[b] \in Interpolated /\ es2[b].coroutine = es[b].coroutine
            /\ es2[b].pos = IF b = last THEN i - 1 ELSE es[b].pos
  <2>1. ASSUME NEW b \in DOMAIN es \ {a}
        PROVE  /\ es2[b] \in Interpolated /\ es2[b].coroutine = es[b].coroutine
               /\ es2[b].pos = IF b = last THEN i - 1 ELSE es[b].pos
    <3>1. es[b] \in Interpolated /\ i - 1 \in Nat
      BY <1>1, <1>3
    <3>2. CASE b = last
      BY <3>1, <3>2 DEF Interpolated
    <3>3. CASE b # last
      BY <3>1, <3>3
    <3> QED
      BY <3>2, <3>3
  <2> QED
    BY <2>1
<1> HIDE DEF es2, n, i
<1>8. ASSUME NEW k \in 1 .. n - 1
      PROVE  w[k] \in DOMAIN es2 /\ es2[w[k]].pos = k - 1
  <2>1. k \in 1 .. n
    BY <1>1
  <2>2. CASE k = i
    <3>1. w[k] = last /\ es[last].pos # es[a].pos
      BY <1>1, <1>4, <1>5, <2>2 DEF i
    <3>2. last # a
      BY <3>1
    <3> QED
      BY <1>4, <1>7, <2>2, <3>1, <3>2
  <2>3. CASE k # i
    <3>1. w[k] = v[k] /\ v[k] \in DOMAIN es /\ es[v[k]].pos = k - 1
      BY <1>2, <1>5, <2>1, <2>3
    <3>2. v[k] # a
      BY <1>1, <2>1, <2>3, <3>1 DEF i
    <3>3. v[k] # last
      BY <1>1, <1>4, <3>1
    <3> QED
      BY <1>7, <3>1, <3>2, <3>3
  <2> QED
    BY <2>2, <2>3
<1>9. ASSUME NEW b \in DOMAIN es2
      PROVE  es2[b].pos < n - 1 /\ w[es2[b].pos + 1] = b
  <2>0. b \in DOMAIN es /\ b # a
    BY <1>7
  <2>1. CASE b = last
    <3>1. es2[b].pos = i - 1
      BY <1>7, <2>0, <2>1
    <3>2. i # n
      BY <1>3, <2>0, <2>1 DEF last
    <3>3. i \in 1 .. n - 1 /\ i - 1 < n - 1
      BY <1>1, <1>3, <3>2
    <3>4. w[i] = last
      BY <1>5, <3>3
    <3>5. (i - 1) + 1 = i
      BY <1>1, <1>3
    <3> QED
      BY <2>1, <3>1, <3>3, <3>4, <3>5
  <2>2. CASE b # last
    <3>1. es2[b].pos = es[b].pos /\ es[b].pos \in Nat /\ es[b].pos < n /\ v[es[b].pos + 1] = b
      BY <1>1, <1>7, <2>0, <2>2
    <3>2. es[b].pos + 1 # n
      BY <2>2, <3>1 DEF last
    <3>3. es[b].pos + 1 # i
      BY <1>3, <2>0, <3>1
    <3>4. es[b].pos + 1 \in 1 .. n - 1 /\ es[b].pos < n - 1
      BY <1>1, <3>1, <3>2
    <3> QED
      BY <1>5, <3>1, <3>3, <3>4
  <2> QED
    BY <2>1, <2>2
<1>10. w \in Seq(DOMAIN es2)
  <2>1. \A k \in 1 .. Len(w) : w[k] \in DOMAIN es2
    BY <1>5, <1>8
  <2> QED
    BY <1>5, <2>1, SequenceIn
<1>11. DOMAIN es2 \subseteq Interp!Addresses /\ \A b \in DOMAIN es2 : es2[b] \in Interpolated
  BY <1>7 DEF Holds
<1>12. Holds(w, es2)
  BY <1>5, <1>8, <1>9, <1>10, <1>11 DEF Holds
<1>13. \A b \in DOMAIN es : es[b].pos \in Nat /\ es[b].pos <= es[last].pos
  BY <1>1, <1>4
<1> QED
  BY <1>4, <1>6, <1>7, <1>12, <1>13 DEF n, i, last

\* The same, as the program calls it.
LEMMA PushedHolds ==
    ASSUME NEW v, NEW es, Holds(v, es), Interp!Addresses # DOMAIN es,
           NEW c \in Coroutines \cup {0}, NEW max_x \in Lengths,
           NEW p, p = Interp!Pushed(v, es, c, max_x)
    PROVE  /\ p.addr \in Interp!Addresses \ DOMAIN es
           /\ Holds(p.vector, p.events) /\ DOMAIN p.events = DOMAIN es \cup {p.addr}
           /\ p.events[p.addr].coroutine = c
           /\ \A b \in DOMAIN es : p.events[b] = es[b]
<1> DEFINE a == Interp!Min(Interp!Addresses \ DOMAIN es)
           e == [left |-> max_x, pos |-> Len(v), coroutine |-> c]
           v2 == Append(v, a)
           es2 == [b \in DOMAIN es \cup {a} |-> IF b = a THEN e ELSE es[b]]
<1>1. a \in Interp!Addresses \ DOMAIN es
  <2> DEFINE S == Interp!Addresses \ DOMAIN es
  <2>0. DOMAIN es \subseteq Interp!Addresses
    BY Zenon DEF Holds
  <2>a. S # {}
    BY Zenon, <2>0
  <2>b. S \subseteq Interp!Addresses
    OBVIOUS
  <2> HIDE DEF S
  <2>1. S \subseteq Nat /\ S # {}
    <3>1. Interp!Addresses \subseteq Nat
      BY InterpConstants
    <3> QED
      BY Zenon, <2>a, <2>b, <3>1
  <2>2. \E m \in S : \A z \in S : m <= z
    BY <2>1, Least
  <2>3. Interp!Min(S) \in S
    BY <2>2 DEF Interp!Min
  <2> QED
    BY <2>3 DEF S
<1>2. p = [vector |-> v2, addr |-> a, events |-> es2]
  BY DEF Interp!Pushed
<1>3. e \in Interpolated /\ e.pos = Len(v) /\ e.coroutine = c
  BY InterpolationAssumption DEF Interpolated, Holds, Interp!InterpolationAssumption
<1> HIDE DEF a, e
<1>4. DOMAIN es2 = DOMAIN es \cup {a} /\ es2[a] = e /\ \A b \in DOMAIN es : es2[b] = es[b]
  BY <1>1
<1>a. v2 = Append(v, a)
  OBVIOUS
<1> HIDE DEF v2, es2
<1>5. Holds(v2, es2)
  <2>1. es2[a] \in Interpolated /\ es2[a].pos = Len(v)
    BY Zenon, <1>3, <1>4
  <2> QED
    BY <1>a, <1>1, <1>4, <2>1, PushHolds
<1> QED
  BY <1>1, <1>2, <1>3, <1>4, <1>5

LEMMA PushInterpolates ==
    ASSUME NEW v, NEW es, NEW pr, NEW i, NEW fi, NEW ad, NEW ps, NEW rm,
           Interpolates(v, es, pr, i, fi, ad, ps, rm),
           NEW v2, NEW es2, NEW a \in Interp!Addresses \ DOMAIN es, Holds(v2, es2),
           DOMAIN es2 = DOMAIN es \cup {a}, \A b \in DOMAIN es : es2[b] = es[b]
    PROVE  Interpolates(v2, es2, pr, i, fi, ad, ps, rm)
<1>1. PromisesNamed(es2, pr, fi)
  BY DEF Interpolates, PromisesNamed
<1>2. ASSUME InPassInv(es, i, fi, ad, ps, rm) PROVE InPassInv(es2, i, fi, ad, ps, rm)
  <2>1. ad \subseteq DOMAIN es /\ ps \subseteq DOMAIN es
    BY <1>2 DEF InPassInv
  <2>2. Missed(es2, ad, ps, Onward(i, fi)) = Missed(es, ad, ps, Onward(i, fi))
    BY <2>1 DEF Missed
  <2> QED
    BY <1>2, <2>1, <2>2 DEF InPassInv
<1> QED
  BY <1>1, <1>2 DEF Interpolates

\* A removal brings at most one behind the pass that it had not reached.
LEMMA OneMissed ==
    ASSUME NEW S, S \subseteq Interp!Addresses, NEW T, T \subseteq Interp!Addresses,
           NEW z, T \subseteq S \cup {z}, NEW rm \in 0 .. MaxInterpolators,
           Interp!Cardinality(S) <= rm, NEW rm2, rm2 = IF rm = MaxInterpolators THEN rm ELSE rm + 1
    PROVE  rm2 \in 0 .. MaxInterpolators /\ Interp!Cardinality(T) <= rm2
<1>1. Interp!Cardinality(T) <= Interp!Cardinality(S) + 1
  BY OneMore
<1>2. Interp!Cardinality(S) \in Nat /\ Interp!Cardinality(T) \in Nat /\ Interp!Cardinality(T) <= MaxInterpolators
  BY AddressesCounted
<1> QED
  BY <1>1, <1>2, InterpConstants

LEMMA PopInterpolates ==
    ASSUME NEW v, NEW es, NEW pr, NEW i, NEW fi, NEW ad, NEW ps, NEW rm,
           Interpolates(v, es, pr, i, fi, ad, ps, rm), i = -1 \/ fi # 0,
           NEW a \in DOMAIN es, a # fi, NEW p, p = Interp!Popped(v, es, a),
           NEW pr2, Spares(es, pr2, fi, a),
           NEW rm2, rm2 = IF i = -1 \/ rm = MaxInterpolators THEN rm ELSE rm + 1
    PROVE  Interpolates(p.vector, p.events, pr2, i, fi, ad \ {a}, ps \ {a}, rm2)
<1> DEFINE es2 == p.events  last == v[Len(v)]
<1>1. Holds(v, es) /\ rm \in 0 .. MaxInterpolators /\ DOMAIN es \subseteq Interp!Addresses /\ fi \in DOMAIN es \cup {0}
  BY DEF Interpolates, Holds, PromisesNamed
<1>2. Holds(p.vector, es2) /\ DOMAIN es2 = DOMAIN es \ {a}
  BY <1>1, PopHolds
<1>3. \A b \in DOMAIN es \ {a} :
        /\ es2[b].coroutine = es[b].coroutine
        /\ es2[b].pos = IF b = last THEN es[a].pos ELSE es[b].pos
  BY <1>1, PopHolds
<1>4. (\A b \in DOMAIN es : es[b].pos \in Nat /\ es[b].pos <= es[last].pos) /\ last \in DOMAIN es
  BY <1>1, PopHolds
<1> HIDE DEF es2, last
<1>5. PromisesNamed(es2, pr2, fi)
  BY <1>1, <1>2, <1>3 DEF Spares, PromisesNamed
<1>6. CASE i = -1
  BY <1>1, <1>2, <1>5, <1>6 DEF Interpolates, es2
<1>7. CASE i # -1
  <2>1. InPassInv(es, i, fi, ad, ps, rm) /\ fi # 0
    BY <1>7 DEF Interpolates
  <2>2. rm2 = IF rm = MaxInterpolators THEN rm ELSE rm + 1
    BY <1>7
  <2>3. /\ i \in Nat /\ Onward(i, fi) = i + 1 /\ i + 1 \in Int
        /\ ad \subseteq DOMAIN es /\ ps \subseteq DOMAIN es /\ fi \in ad
    BY <2>1 DEF InPassInv, Onward
  <2>4. Interp!Cardinality(Missed(es, ad, ps, i + 1)) <= rm
    BY <2>1, <2>3 DEF InPassInv
  <2>5. rm2 \in 0 .. MaxInterpolators /\ Interp!Cardinality(Missed(es2, ad \ {a}, ps \ {a}, i + 1)) <= rm2
    <3> DEFINE S == Missed(es, ad, ps, i + 1)  T == Missed(es2, ad \ {a}, ps \ {a}, i + 1)
    <3>1. S \subseteq Interp!Addresses /\ T \subseteq Interp!Addresses
      BY <1>1, <2>3 DEF Missed
    <3>2. T \subseteq S \cup {last}
      BY <1>3, <2>3 DEF Missed
    <3>3. Interp!Cardinality(S) <= rm
      BY <2>4
    <3> HIDE DEF S, T
    <3>4. rm2 \in 0 .. MaxInterpolators /\ Interp!Cardinality(T) <= rm2
      BY <1>1, <2>2, <3>1, <3>2, <3>3, OneMissed
    <3> QED
      BY <3>4 DEF T
  <2>6. ASSUME NEW b \in ad \ {a}
        PROVE  es2[b].pos < i + 1 /\ (b # fi => es2[b].pos < i)
    <3>1. b \in DOMAIN es \ {a} /\ es[b].pos < i + 1 /\ (b # fi => es[b].pos < i)
      BY <2>1, <2>3 DEF InPassInv
    <3>2. es2[b].pos \in Nat /\ es2[b].pos <= es[b].pos /\ es[b].pos \in Nat
      BY <1>3, <1>4, <3>1
    <3> QED
      BY <2>3, <3>1, <3>2
  <2>7. InPassInv(es2, i, fi, ad \ {a}, ps \ {a}, rm2)
    BY <1>2, <2>3, <2>5, <2>6 DEF InPassInv
  <2> QED
    BY <1>2, <1>5, <1>7, <2>5, <2>7 DEF Interpolates, es2
<1> QED
  BY <1>6, <1>7

\* The one that finished is removed at last, and the pass goes on behind its place.
LEMMA PopFinished ==
    ASSUME NEW v, NEW es, NEW pr, NEW i, NEW fi, NEW ad, NEW ps, NEW rm,
           Interpolates(v, es, pr, i, fi, ad, ps, rm), fi # 0,
           NEW p, p = Interp!Popped(v, es, fi),
           NEW rm2, rm2 = IF rm = MaxInterpolators THEN rm ELSE rm + 1
    PROVE  Interpolates(p.vector, p.events, pr, i + 1, 0, ad \ {fi}, ps \ {fi}, rm2)
<1> DEFINE es2 == p.events  last == v[Len(v)]
<1>1. /\ Holds(v, es) /\ rm \in 0 .. MaxInterpolators /\ DOMAIN es \subseteq Interp!Addresses
      /\ fi \in DOMAIN es /\ PromisesNamed(es, pr, fi) /\ InPassInv(es, i, fi, ad, ps, rm)
  BY DEF Interpolates, Holds, PromisesNamed
<1>2. Holds(p.vector, es2) /\ DOMAIN es2 = DOMAIN es \ {fi}
  BY <1>1, PopHolds
<1>3. \A b \in DOMAIN es \ {fi} :
        /\ es2[b].coroutine = es[b].coroutine
        /\ es2[b].pos = IF b = last THEN es[fi].pos ELSE es[b].pos
  BY <1>1, PopHolds
<1>4. (\A b \in DOMAIN es : es[b].pos \in Nat /\ es[b].pos <= es[last].pos) /\ last \in DOMAIN es
  BY <1>1, PopHolds
<1> HIDE DEF es2, last
<1>5. PromisesNamed(es2, pr, 0)
  BY <1>1, <1>2, <1>3 DEF PromisesNamed
<1>6. /\ i \in Nat /\ Onward(i, fi) = i + 1 /\ Onward(i + 1, 0) = i + 1 /\ i + 1 \in Int
      /\ ad \subseteq DOMAIN es /\ ps \subseteq DOMAIN es
  BY <1>1 DEF InPassInv, Onward
<1>7. Interp!Cardinality(Missed(es, ad, ps, i + 1)) <= rm
  BY <1>1, <1>6 DEF InPassInv
<1>8. rm2 \in 0 .. MaxInterpolators /\ Interp!Cardinality(Missed(es2, ad \ {fi}, ps \ {fi}, i + 1)) <= rm2
  <2> DEFINE S == Missed(es, ad, ps, i + 1)  T == Missed(es2, ad \ {fi}, ps \ {fi}, i + 1)
  <2>1. S \subseteq Interp!Addresses /\ T \subseteq Interp!Addresses
    BY <1>1, <1>6 DEF Missed
  <2>2. T \subseteq S \cup {last}
    BY <1>3, <1>6 DEF Missed
  <2>3. Interp!Cardinality(S) <= rm
    BY <1>7
  <2> HIDE DEF S, T
  <2>4. rm2 \in 0 .. MaxInterpolators /\ Interp!Cardinality(T) <= rm2
    BY <1>1, <2>1, <2>2, <2>3, OneMissed
  <2> QED
    BY <2>4 DEF T
<1>9. ASSUME NEW b \in ad \ {fi} PROVE es2[b].pos < i + 1
  <2>1. b \in DOMAIN es \ {fi} /\ es[b].pos < i + 1
    BY <1>1, <1>6 DEF InPassInv
  <2>2. es2[b].pos \in Nat /\ es2[b].pos <= es[b].pos /\ es[b].pos \in Nat
    <3>1. es2[b].pos = IF b = last THEN es[fi].pos ELSE es[b].pos
      BY <1>3, <2>1
    <3>2. fi \in DOMAIN es /\ es[fi].pos \in Nat /\ es[fi].pos <= es[last].pos /\ es[b].pos \in Nat
      BY <1>1, <1>4, <2>1
    <3> QED
      BY <3>1, <3>2
  <2> QED
    BY <1>6, <2>1, <2>2
<1>10. InPassInv(es2, i + 1, 0, ad \ {fi}, ps \ {fi}, rm2)
  BY <1>2, <1>6, <1>8, <1>9 DEF InPassInv
<1>11. i + 1 # -1
  BY <1>6
<1> QED
  BY <1>2, <1>5, <1>8, <1>10, <1>11 DEF Interpolates, es2

----------------------------------------------------------------------------
\* The promise of c names a new event of its own.
LEMMA NewPromise ==
    ASSUME NEW es, NEW pr, NEW fi, PromisesNamed(es, pr, fi),
           NEW a \in Interp!Addresses \ DOMAIN es, NEW c \in Coroutines,
           NEW es2, DOMAIN es2 = DOMAIN es \cup {a}, es2[a].coroutine = c,
           \A b \in DOMAIN es : es2[b] = es[b],
           NEW pr2, pr2 = [pr EXCEPT ![c] = a]
    PROVE  /\ PromisesNamed(es2, pr2, fi)
           /\ pr[c] # 0 => Spares(es2, pr2, fi, pr[c])
<1>1. pr \in [Coroutines -> Interp!Addresses \cup {0}] /\ fi \in DOMAIN es \cup {0} /\ a # 0
  BY InterpConstants DEF PromisesNamed
<1>2. pr2 \in [Coroutines -> Interp!Addresses \cup {0}]
  BY <1>1
<1>3. ASSUME NEW d \in Coroutines, pr2[d] # 0
      PROVE  pr2[d] \in DOMAIN es2 /\ pr2[d] # pr[c] /\ pr2[d] # fi /\ es2[pr2[d]].coroutine = d
  <2>1. CASE d = c
    <3>1. pr2[d] = a
      BY <1>1, <2>1
    <3>2. pr[c] \in DOMAIN es \cup {0}
      BY DEF PromisesNamed
    <3> QED
      BY <1>1, <2>1, <3>1, <3>2
  <2>2. CASE d # c
    <3>1. pr2[d] = pr[d]
      BY <1>1, <2>2
    <3>2. pr[d] \in DOMAIN es /\ es[pr[d]].coroutine = d /\ pr[d] # fi
      BY <1>3, <3>1 DEF PromisesNamed
    <3>3. pr[d] # pr[c]
      BY <1>3, <2>2, <3>1, <3>2 DEF PromisesNamed
    <3> QED
      BY <3>1, <3>2, <3>3
  <2> QED
    BY <2>1, <2>2
<1>4. PromisesNamed(es2, pr2, fi)
  BY <1>1, <1>2, <1>3 DEF PromisesNamed
<1>5. ASSUME pr[c] # 0 PROVE \A d \in Coroutines : pr2[d] # pr[c]
  BY <1>3, <1>5
<1> QED
  BY <1>4, <1>5 DEF Spares

\* Whatever cancels the event at a, in the vector v of the events es.
LEMMA CancelInterpolates ==
    ASSUME NEW v, NEW es, Interpolates(v, es, promise, index, finishing, advanced, present, removed),
           Interp!ProgramRuns, NEW a \in DOMAIN es, a # finishing,
           Interp!Cancels(a, Interp!Popped(v, es, a)),
           Spares(es, promise', finishing, a)
    PROVE  InterpInv'
<1> DEFINE p == Interp!Popped(v, es, a)
<1>1. index = -1 \/ finishing # 0
  BY DEF Interp!ProgramRuns, Interp!Idle, Interp!Null
<1>2. /\ interpolators' = p.vector /\ events' = p.events
      /\ present' = present \ {a} /\ advanced' = advanced \ {a}
      /\ index' = index /\ finishing' = finishing
  BY DEF Interp!Cancels
<1>3. removed' = IF index = -1 \/ removed = MaxInterpolators THEN removed ELSE removed + 1
  BY DEF Interp!Cancels, Interp!InPass, Interp!Idle
<1>4. p = Interp!Popped(v, es, a)
  OBVIOUS
<1> HIDE DEF p
<1>5. Interpolates(p.vector, p.events, promise', index, finishing, advanced \ {a}, present \ {a}, removed')
  BY <1>1, <1>3, <1>4, PopInterpolates
<1> QED
  BY <1>2, <1>5 DEF InterpInv

LEMMA Places ==
    ASSUME NEW v, NEW es, Holds(v, es)
    PROVE  /\ v \in Seq(DOMAIN es) /\ DOMAIN es \subseteq Interp!Addresses /\ Len(v) \in Nat
           /\ \A b \in DOMAIN es : es[b] \in Interpolated /\ es[b].pos \in Nat /\ es[b].pos < Len(v) /\ v[es[b].pos + 1] = b
           /\ \A k \in 1 .. Len(v) : v[k] \in DOMAIN es /\ es[v[k]].pos = k - 1
<1>1. /\ v \in Seq(DOMAIN es) /\ Len(v) \in Nat /\ DOMAIN es \subseteq Interp!Addresses
      /\ \A b \in DOMAIN es : es[b] \in Interpolated /\ es[b].pos \in Nat /\ es[b].pos < Len(v) /\ v[es[b].pos + 1] = b
  BY DEF Holds, Interpolated
<1>2. \A k \in 1 .. Len(v) : v[k] \in DOMAIN es /\ es[v[k]].pos = k - 1
  BY <1>1 DEF Holds
<1> QED
  BY <1>1, <1>2

----------------------------------------------------------------------------
LEMMA InterpInit == Interp!Init => InterpInv
<1> SUFFICES ASSUME Interp!Init PROVE InterpInv
  OBVIOUS
<1>1. /\ DOMAIN events = {} /\ Len(interpolators) = 0 /\ interpolators \in Seq(DOMAIN events)
      /\ promise = [c \in Coroutines |-> 0] /\ index = -1 /\ finishing = 0 /\ removed = 0
  BY DEF Interp!Init, Interp!Null, Interp!Idle
<1>2. Holds(interpolators, events)
  BY <1>1 DEF Holds
<1>3. PromisesNamed(events, promise, finishing)
  BY <1>1 DEF PromisesNamed
<1>4. removed \in 0 .. MaxInterpolators
  BY <1>1, InterpConstants
<1> QED
  BY <1>1, <1>2, <1>3, <1>4 DEF InterpInv, Interpolates

\* A coroutine waits anew, or an interpolation is added for nobody.
LEMMA AddInterpolates ==
    ASSUME InterpInv, Interp!Alive # Interp!Addresses,
           NEW c \in Coroutines \cup {0}, NEW max_x \in Lengths,
           NEW p, p = Interp!Pushed(interpolators, events, c, max_x)
    PROVE  /\ Interpolates(p.vector, p.events, promise, index, finishing, advanced, present, removed)
           /\ p.addr \in Interp!Addresses \ DOMAIN events /\ DOMAIN p.events = DOMAIN events \cup {p.addr}
           /\ p.events[p.addr].coroutine = c
           /\ \A b \in DOMAIN events : p.events[b] = events[b]
<1>1. Holds(interpolators, events) /\ Interp!Addresses # DOMAIN events
  BY DEF InterpInv, Interpolates, Interp!Alive
<1>2. /\ p.addr \in Interp!Addresses \ DOMAIN events
      /\ Holds(p.vector, p.events) /\ DOMAIN p.events = DOMAIN events \cup {p.addr}
      /\ p.events[p.addr].coroutine = c
      /\ \A b \in DOMAIN events : p.events[b] = events[b]
  BY <1>1, PushedHolds
<1>3. Interpolates(interpolators, events, promise, index, finishing, advanced, present, removed)
  BY DEF InterpInv
<1> DEFINE w == p.vector  f == p.events  a == p.addr
<1>4. a \in Interp!Addresses \ DOMAIN events /\ Holds(w, f) /\ DOMAIN f = DOMAIN events \cup {a} /\ \A b \in DOMAIN events : f[b] = events[b]
  BY <1>2
<1> HIDE DEF w, f, a
<1>5. Interpolates(w, f, promise, index, finishing, advanced, present, removed)
  BY <1>3, <1>4, PushInterpolates
<1> QED
  BY <1>2, <1>5 DEF w, f, a

LEMMA AwaitsInterpolate ==
    ASSUME InterpInv, NEW c \in Coroutines, Interp!Await(c)
    PROVE  InterpInv'
<1>1. PICK max_x \in Lengths :
        LET p == Interp!Pushed(interpolators, events, c, max_x)
        IN  /\ interpolators' = p.vector /\ events' = p.events
            /\ promise' = [promise EXCEPT ![c] = p.addr]
  BY DEF Interp!Await
<1> DEFINE p == Interp!Pushed(interpolators, events, c, max_x)
<1>2. /\ interpolators' = p.vector /\ events' = p.events
      /\ promise' = [promise EXCEPT ![c] = p.addr]
  BY <1>1
<1>3. /\ Interp!Alive # Interp!Addresses /\ index' = index /\ finishing' = finishing
      /\ advanced' = advanced /\ present' = present /\ removed' = removed
  BY DEF Interp!Await
<1>4. p = Interp!Pushed(interpolators, events, c, max_x)
  OBVIOUS
<1> HIDE DEF p
<1>5. /\ Interpolates(p.vector, p.events, promise, index, finishing, advanced, present, removed)
      /\ p.addr \in Interp!Addresses \ DOMAIN events /\ DOMAIN p.events = DOMAIN events \cup {p.addr}
      /\ p.events[p.addr].coroutine = c
      /\ \A b \in DOMAIN events : p.events[b] = events[b]
  BY <1>3, <1>4, AddInterpolates
<1>6. PromisesNamed(events, promise, finishing)
  BY DEF InterpInv, Interpolates
<1>7. PromisesNamed(events', promise', finishing)
  BY <1>2, <1>5, <1>6, NewPromise
<1> QED
  BY <1>2, <1>3, <1>5, <1>7 DEF InterpInv, Interpolates

LEMMA RemovesInterpolate ==
    ASSUME InterpInv, NEW a \in Interp!Alive, Interp!RemoveInterpolator(a)
    PROVE  InterpInv'
<1>1. /\ Interp!ProgramRuns /\ events[a].coroutine = 0 /\ a # finishing
      /\ Interp!Cancels(a, Interp!Popped(interpolators, events, a)) /\ promise' = promise
  BY DEF Interp!RemoveInterpolator, Interp!Null
<1>2. a \in DOMAIN events /\ Interpolates(interpolators, events, promise, index, finishing, advanced, present, removed)
  BY DEF InterpInv, Interp!Alive
<1>3. PromisesNamed(events, promise, finishing)
  BY <1>2 DEF Interpolates
<1>4. a # 0
  BY <1>2, InterpConstants DEF Interpolates, Holds
<1>5. \A c \in Coroutines : promise[c] # a
  BY <1>1, <1>3, <1>4, InterpConstants DEF PromisesNamed
<1>6. Spares(events, promise', finishing, a)
  BY <1>1, <1>3, <1>5 DEF Spares
<1> QED
  BY <1>1, <1>2, <1>6, CancelInterpolates

\* The promise of c is void.
LEMMA VoidSpares ==
    ASSUME NEW es, NEW pr, NEW fi, PromisesNamed(es, pr, fi), NEW c \in Coroutines, pr[c] # 0,
           NEW pr2, pr2 = [pr EXCEPT ![c] = 0]
    PROVE  Spares(es, pr2, fi, pr[c])
<1>1. pr \in [Coroutines -> Interp!Addresses \cup {0}]
  BY DEF PromisesNamed
<1>2. pr2 \in [Coroutines -> Interp!Addresses \cup {0}]
  BY <1>1
<1>3. ASSUME NEW d \in Coroutines
      PROVE  /\ pr2[d] # pr[c]
             /\ pr2[d] # 0 => pr2[d] \in DOMAIN es /\ es[pr2[d]].coroutine = d /\ pr2[d] # fi
  <2>1. CASE d = c
    BY <1>1, <2>1
  <2>2. CASE d # c
    <3>1. pr2[d] = pr[d]
      BY <1>1, <2>2
    <3> QED
      BY <2>2, <3>1 DEF PromisesNamed
  <2> QED
    BY <2>1, <2>2
<1>4. PromisesNamed(es, pr2, fi)
  BY <1>2, <1>3 DEF PromisesNamed
<1> QED
  BY <1>3, <1>4 DEF Spares

LEMMA UnregistersInterpolate ==
    ASSUME InterpInv, NEW c \in Coroutines, Interp!ProgramRuns, promise[c] # 0,
           Interp!Cancels(promise[c], Interp!Popped(interpolators, events, promise[c])),
           promise' = [promise EXCEPT ![c] = 0]
    PROVE  InterpInv'
<1>1. Interpolates(interpolators, events, promise, index, finishing, advanced, present, removed)
  BY DEF InterpInv
<1>2. PromisesNamed(events, promise, finishing)
  BY <1>1 DEF Interpolates
<1>3. promise[c] \in DOMAIN events /\ promise[c] # finishing
  BY <1>2 DEF PromisesNamed
<1>4. Spares(events, promise', finishing, promise[c])
  BY <1>2, VoidSpares
<1> QED
  BY <1>1, <1>3, <1>4, CancelInterpolates

\* It waits again before the old event is removed.
LEMMA ResumesInterpolate ==
    ASSUME InterpInv, NEW c \in Coroutines, Interp!ProgramRuns, promise[c] # 0,
           Interp!Alive # Interp!Addresses, NEW max_x \in Lengths,
           NEW p, p = Interp!Pushed(interpolators, events, c, max_x),
           Interp!Cancels(promise[c], Interp!Popped(p.vector, p.events, promise[c])),
           promise' = [promise EXCEPT ![c] = p.addr]
    PROVE  InterpInv'
<1>1. /\ Interpolates(p.vector, p.events, promise, index, finishing, advanced, present, removed)
      /\ p.addr \in Interp!Addresses \ DOMAIN events /\ DOMAIN p.events = DOMAIN events \cup {p.addr}
      /\ p.events[p.addr].coroutine = c
      /\ \A b \in DOMAIN events : p.events[b] = events[b]
  BY AddInterpolates
<1>2. PromisesNamed(events, promise, finishing)
  BY DEF InterpInv, Interpolates
<1>3. promise[c] \in DOMAIN p.events /\ promise[c] # finishing
  BY <1>1, <1>2 DEF PromisesNamed
<1>4. Spares(p.events, promise', finishing, promise[c])
  BY <1>1, <1>2, NewPromise
<1> QED
  BY <1>1, <1>3, <1>4, CancelInterpolates

----------------------------------------------------------------------------
LEMMA StartInterpolates ==
    ASSUME InterpInv, Interp!StartPass
    PROVE  InterpInv'
<1>1. /\ index = -1 /\ index' = 0 /\ advanced' = {} /\ present' = Interp!InVector /\ removed' = 0
      /\ interpolators' = interpolators /\ events' = events /\ promise' = promise /\ finishing' = finishing
  BY DEF Interp!StartPass, Interp!Idle
<1>2. Holds(interpolators, events) /\ PromisesNamed(events, promise, finishing) /\ finishing = 0
  BY <1>1 DEF InterpInv, Interpolates
<1>3. Interp!InVector \subseteq DOMAIN events /\ \A a \in DOMAIN events : events[a].pos \in Nat
  BY <1>2, Places DEF Interp!InVector
<1>4. Missed(events, {}, Interp!InVector, 0) = {}
  BY <1>3 DEF Missed
<1>5. Interp!Cardinality({}) = 0
  BY FS_EmptySet, SameCardinality
<1>6. Onward(0, 0) = 0
  BY DEF Onward
<1>7. Interp!Cardinality(Missed(events, {}, Interp!InVector, Onward(0, 0))) <= 0
  BY <1>4, <1>5, <1>6
<1>8. 0 \in 0 .. MaxInterpolators
  BY InterpConstants
<1>9. InPassInv(events, 0, 0, {}, Interp!InVector, 0)
  BY <1>3, <1>7, <1>8 DEF InPassInv
<1> QED
  BY <1>1, <1>2, <1>8, <1>9 DEF InterpInv, Interpolates

LEMMA LeftChanges ==
    ASSUME NEW es, \A b \in DOMAIN es : es[b] \in Interpolated, NEW at, NEW left \in Nat,
           NEW es2, es2 = [es EXCEPT ![at].left = left]
    PROVE  SamePlaces(es, es2)
<1>1. ASSUME NEW b \in DOMAIN es
      PROVE  es2[b] \in Interpolated /\ es2[b].pos = es[b].pos /\ es2[b].coroutine = es[b].coroutine
  <2>1. CASE b = at
    <3>1. es2[b] = [es[b] EXCEPT !.left = left]
      BY <2>1
    <3> QED
      BY <3>1 DEF Interpolated
  <2>2. CASE b # at
    <3>1. es2[b] = es[b]
      BY <2>2
    <3> QED
      BY <3>1
  <2> QED
    BY <2>1, <2>2
<1> QED
  BY <1>1 DEF SamePlaces

\* What an advance, and an interpolation that finishes, have in common.
LEMMA AdvancedHolds ==
    ASSUME InterpInv, Interp!HasNext, NEW es2, SamePlaces(events, es2)
    PROVE  /\ Holds(interpolators, es2) /\ DOMAIN es2 = DOMAIN events
           /\ Interp!At \in DOMAIN events /\ Interp!At \notin advanced
           /\ \A b \in DOMAIN events : es2[b].pos = events[b].pos /\ es2[b].coroutine = events[b].coroutine
           /\ events[Interp!At].pos = index
           /\ advanced \cup {Interp!At} \subseteq DOMAIN es2 /\ present \subseteq DOMAIN es2
           /\ \A b \in advanced : es2[b].pos < index
           /\ Interp!Cardinality(Missed(es2, advanced \cup {Interp!At}, present, index + 1)) <= removed
<1>a. index # -1 /\ index < Len(interpolators) /\ finishing = 0
  BY DEF Interp!HasNext, Interp!Idle, Interp!Null
<1>b. Holds(interpolators, events) /\ InPassInv(events, index, 0, advanced, present, removed)
  BY <1>a DEF InterpInv, Interpolates
<1> DEFINE at == Interp!At
<1>c. index \in Nat /\ at = interpolators[index + 1]
  BY <1>b DEF InPassInv, Interp!At
<1> HIDE DEF at
<1>1. /\ interpolators \in Seq(DOMAIN events) /\ DOMAIN events \subseteq Interp!Addresses /\ Len(interpolators) \in Nat
      /\ \A b \in DOMAIN events :
            /\ events[b] \in Interpolated /\ events[b].pos \in Nat /\ events[b].pos < Len(interpolators)
            /\ interpolators[events[b].pos + 1] = b
      /\ \A k \in 1 .. Len(interpolators) : interpolators[k] \in DOMAIN events /\ events[interpolators[k]].pos = k - 1
  BY <1>b, Places
<1>2. index + 1 \in 1 .. Len(interpolators)
  BY <1>1, <1>a, <1>c
<1>3. at \in DOMAIN events /\ events[at].pos = index
  BY <1>1, <1>2, <1>c
<1>4. /\ advanced \subseteq DOMAIN events /\ present \subseteq DOMAIN events
      /\ \A b \in advanced : events[b].pos < index
      /\ Interp!Cardinality(Missed(events, advanced, present, index)) <= removed
  BY <1>b DEF InPassInv, Onward
<1>5. at \notin advanced
  BY <1>3, <1>4, <1>c
<1>6. DOMAIN es2 = DOMAIN events
  BY DEF SamePlaces
<1>7. \A b \in DOMAIN events : es2[b] \in Interpolated /\ es2[b].pos = events[b].pos /\ es2[b].coroutine = events[b].coroutine
  BY DEF SamePlaces
<1>8. Holds(interpolators, es2)
  <2>1. \A b \in DOMAIN es2 : es2[b].pos < Len(interpolators) /\ interpolators[es2[b].pos + 1] = b
    BY Zenon, <1>1, <1>6, <1>7
  <2>2. \A k \in 1 .. Len(interpolators) : es2[interpolators[k]].pos = k - 1
    BY Zenon, <1>1, <1>7
  <2>3. DOMAIN es2 \subseteq Interp!Addresses /\ (\A b \in DOMAIN es2 : es2[b] \in Interpolated) /\ interpolators \in Seq(DOMAIN es2)
    BY Zenon, <1>1, <1>6, <1>7
  <2> QED
    BY Zenon, <2>1, <2>2, <2>3 DEF Holds
<1>9. \A b \in advanced : es2[b].pos < index
  BY Zenon, <1>4, <1>7
<1>10. Interp!Cardinality(Missed(es2, advanced \cup {at}, present, index + 1)) <= removed
  <2> DEFINE S == Missed(events, advanced, present, index)  T == Missed(es2, advanced \cup {at}, present, index + 1)
  <2>1. S \subseteq Interp!Addresses /\ T \subseteq Interp!Addresses
    BY <1>1, <1>4 DEF Missed
  <2>2. ASSUME NEW b \in T PROVE b \in S
    <3>1. b \in present /\ b \notin advanced /\ b # at /\ es2[b].pos < index + 1
      BY DEF Missed
    <3>2. b \in DOMAIN events /\ es2[b].pos = events[b].pos
      BY <1>4, <1>7, <3>1
    <3>3. events[b].pos \in Nat /\ interpolators[events[b].pos + 1] = b
      BY <1>1, <3>2
    <3>4. events[b].pos # index
      BY <1>c, <3>1, <3>3
    <3>5. events[b].pos < index
      BY <1>c, <3>1, <3>2, <3>3, <3>4
    <3> QED
      BY <3>1, <3>5 DEF Missed
  <2>3. T \subseteq S
    BY <2>2
  <2>4. Interp!Cardinality(S) <= removed
    BY <1>4
  <2>5. removed \in Nat
    BY <1>b, InterpConstants DEF InPassInv
  <2> HIDE DEF S, T
  <2>6. Interp!Cardinality(T) <= Interp!Cardinality(S)
    BY <2>1, <2>3, NoMore
  <2>7. Interp!Cardinality(T) \in Nat /\ Interp!Cardinality(S) \in Nat
    BY <2>1, AddressesCounted
  <2>8. Interp!Cardinality(T) <= removed
    BY <2>4, <2>5, <2>6, <2>7
  <2> QED
    BY <2>8 DEF T
<1>11. advanced \cup {at} \subseteq DOMAIN es2 /\ present \subseteq DOMAIN es2
  BY Zenon, <1>3, <1>4, <1>6
<1> QED
  BY Zenon, <1>3, <1>5, <1>6, <1>7, <1>8, <1>9, <1>10, <1>11 DEF at

LEMMA AdvancesInterpolate ==
    ASSUME InterpInv, Interp!Advances
    PROVE  InterpInv'
<1> DEFINE left == events[Interp!At].left - 1
           es2 == [events EXCEPT ![Interp!At].left = left]
           ad2 == advanced \cup {Interp!At}
<1>1. /\ Interp!HasNext /\ events[Interp!At].left > 1 /\ events' = es2
      /\ advanced' = ad2 /\ index' = index + 1 /\ interpolators' = interpolators
      /\ promise' = promise /\ finishing' = finishing /\ present' = present /\ removed' = removed
  BY DEF Interp!Advances
<1>2. /\ Holds(interpolators, events) /\ PromisesNamed(events, promise, 0) /\ removed \in 0 .. MaxInterpolators
      /\ index \in Nat /\ index < Len(interpolators) /\ finishing = 0
  BY <1>1 DEF InterpInv, Interpolates, InPassInv, Interp!HasNext, Interp!Idle, Interp!Null
<1>3. left \in Nat
  <2>1. Interp!At \in DOMAIN events
    BY <1>2, Places DEF Interp!At
  <2>2. events[Interp!At].left \in Nat
    BY <1>2, <2>1 DEF Holds, Interpolated
  <2> QED
    BY <1>1, <2>2
<1>a. SamePlaces(events, es2)
  <2>1. (\A b \in DOMAIN events : events[b] \in Interpolated) /\ left \in Nat
    BY <1>2, <1>3 DEF Holds
  <2> QED
    BY <2>1, LeftChanges
<1> HIDE DEF left, es2
<1>4. /\ Holds(interpolators, es2) /\ DOMAIN es2 = DOMAIN events
      /\ \A b \in DOMAIN events : es2[b].pos = events[b].pos /\ es2[b].coroutine = events[b].coroutine
      /\ events[Interp!At].pos = index
      /\ ad2 \subseteq DOMAIN es2 /\ present \subseteq DOMAIN es2
      /\ \A b \in advanced : es2[b].pos < index
      /\ Interp!At \in DOMAIN events
      /\ Interp!Cardinality(Missed(es2, ad2, present, index + 1)) <= removed
  BY <1>1, <1>a, AdvancedHolds
<1>5. \A b \in ad2 : es2[b].pos \in Nat /\ es2[b].pos < index + 1
  <2>1. \A b \in DOMAIN events : events[b].pos \in Nat
    BY <1>2, Places
  <2> QED
    BY <1>2, <1>4, <2>1
<1>6. PromisesNamed(es2, promise, 0)
  BY <1>2, <1>4 DEF PromisesNamed
<1> HIDE DEF ad2
<1>7. Onward(index + 1, 0) = index + 1 /\ index + 1 \in Nat /\ index + 1 # -1
  BY <1>2 DEF Onward
<1>8. InPassInv(es2, index + 1, 0, ad2, present, removed)
  BY <1>2, <1>4, <1>5, <1>7 DEF InPassInv
<1>9. Interpolates(interpolators, es2, promise, index + 1, 0, ad2, present, removed)
  BY <1>2, <1>4, <1>6, <1>7, <1>8 DEF Interpolates
<1> QED
  BY <1>1, <1>2, <1>9 DEF InterpInv

LEMMA FinishesInterpolate ==
    ASSUME InterpInv, Interp!Finishes
    PROVE  InterpInv'
<1> DEFINE at == Interp!At
           es2 == [events EXCEPT ![Interp!At].left = 0]
           ad2 == advanced \cup {Interp!At}
           pr2 == [c \in Coroutines |-> IF promise[c] = Interp!At THEN 0 ELSE promise[c]]
<1>1. /\ Interp!HasNext /\ events' = es2 /\ promise' = pr2 /\ finishing' = at
      /\ advanced' = ad2 /\ index' = index /\ interpolators' = interpolators
      /\ present' = present /\ removed' = removed
  BY DEF Interp!Finishes, Interp!Null
<1>2. /\ Holds(interpolators, events) /\ PromisesNamed(events, promise, 0) /\ removed \in 0 .. MaxInterpolators
      /\ index \in Nat /\ finishing = 0
  BY <1>1 DEF InterpInv, Interpolates, InPassInv, Interp!HasNext, Interp!Idle, Interp!Null
<1>a. SamePlaces(events, es2)
  <2>1. (\A b \in DOMAIN events : events[b] \in Interpolated) /\ 0 \in Nat
    BY <1>2 DEF Holds
  <2> QED
    BY <2>1, LeftChanges
<1> HIDE DEF es2
<1>4. /\ Holds(interpolators, es2) /\ DOMAIN es2 = DOMAIN events
      /\ \A b \in DOMAIN events : es2[b].pos = events[b].pos /\ es2[b].coroutine = events[b].coroutine
      /\ events[at].pos = index
      /\ ad2 \subseteq DOMAIN es2 /\ present \subseteq DOMAIN es2
      /\ \A b \in advanced : es2[b].pos < index
      /\ at \in DOMAIN events
      /\ Interp!Cardinality(Missed(es2, ad2, present, index + 1)) <= removed
  BY <1>1, <1>a, AdvancedHolds
<1>5. \A b \in ad2 : es2[b].pos \in Nat /\ es2[b].pos < index + 1 /\ (b # at => es2[b].pos < index)
  <2>1. \A b \in DOMAIN events : events[b].pos \in Nat
    BY <1>2, Places
  <2> QED
    BY <1>2, <1>4, <2>1
<1>6. at # 0 /\ at \in ad2
  BY <1>2, <1>4, InterpConstants DEF Holds
<1>7. pr2 \in [Coroutines -> Interp!Addresses \cup {0}]
      /\ \A c \in Coroutines : pr2[c] # 0 => pr2[c] = promise[c] /\ pr2[c] # at
  BY <1>2 DEF PromisesNamed
<1> HIDE DEF ad2, at, pr2
<1>8. PromisesNamed(es2, pr2, at)
  BY <1>2, <1>4, <1>7 DEF PromisesNamed
<1>9. Onward(index, at) = index + 1 /\ index # -1
  BY <1>2, <1>6 DEF Onward
<1>10. InPassInv(es2, index, at, ad2, present, removed)
  BY <1>2, <1>4, <1>5, <1>6, <1>9 DEF InPassInv
<1>11. Interpolates(interpolators, es2, pr2, index, at, ad2, present, removed)
  BY <1>2, <1>4, <1>8, <1>9, <1>10 DEF Interpolates
<1> QED
  BY <1>1, <1>11 DEF InterpInv

LEMMA FinishedInterpolate ==
    ASSUME InterpInv, Interp!Removes
    PROVE  InterpInv'
<1> DEFINE p == Interp!Popped(interpolators, events, finishing)
<1>1. /\ finishing # 0 /\ interpolators' = p.vector /\ events' = p.events
      /\ present' = present \ {finishing} /\ advanced' = advanced \ {finishing}
      /\ finishing' = 0 /\ index' = index + 1 /\ promise' = promise
      /\ removed' = IF index = -1 \/ removed = MaxInterpolators THEN removed ELSE removed + 1
  BY DEF Interp!Removes, Interp!InPass, Interp!Null, Interp!Idle
<1>2. Interpolates(interpolators, events, promise, index, finishing, advanced, present, removed)
  BY DEF InterpInv
<1>3. index # -1
  BY <1>1, <1>2 DEF Interpolates
<1>4. removed' = IF removed = MaxInterpolators THEN removed ELSE removed + 1
  BY <1>1, <1>3
<1>5. p = Interp!Popped(interpolators, events, finishing)
  OBVIOUS
<1> HIDE DEF p
<1>6. Interpolates(p.vector, p.events, promise, index + 1, 0, advanced \ {finishing}, present \ {finishing}, removed')
  BY <1>1, <1>2, <1>4, <1>5, PopFinished
<1> QED
  BY <1>1, <1>6 DEF InterpInv

LEMMA InterpNext == InterpInv /\ [Interp!Next]_Interp!vars => InterpInv'
<1> SUFFICES ASSUME InterpInv, [Interp!Next]_Interp!vars PROVE InterpInv'
  OBVIOUS
<1>1. CASE Interp!Add
  <2>1. PICK max_x \in Lengths :
          LET p == Interp!Pushed(interpolators, events, 0, max_x)
          IN  interpolators' = p.vector /\ events' = p.events
    BY <1>1 DEF Interp!Add, Interp!Null
  <2> DEFINE p == Interp!Pushed(interpolators, events, 0, max_x)
  <2>2. interpolators' = p.vector /\ events' = p.events
    BY <2>1
  <2>3. /\ Interp!Alive # Interp!Addresses /\ promise' = promise /\ index' = index /\ finishing' = finishing
        /\ advanced' = advanced /\ present' = present /\ removed' = removed
    BY <1>1 DEF Interp!Add
  <2>4. Interpolates(p.vector, p.events, promise, index, finishing, advanced, present, removed)
    BY <2>3, AddInterpolates
  <2> QED
    BY <2>2, <2>3, <2>4 DEF InterpInv
<1>2. CASE Interp!StartPass
  BY <1>2, StartInterpolates
<1>3. CASE Interp!Advances
  BY <1>3, AdvancesInterpolate
<1>4. CASE Interp!Finishes
  BY <1>4, FinishesInterpolate
<1>5. CASE Interp!Removes
  BY <1>5, FinishedInterpolate
<1>6. CASE Interp!EndPass
  <2>1. /\ finishing = 0 /\ index' = -1 /\ interpolators' = interpolators /\ events' = events /\ promise' = promise
        /\ finishing' = finishing /\ advanced' = advanced /\ present' = present /\ removed' = removed
    BY <1>6 DEF Interp!EndPass, Interp!Idle, Interp!Null
  <2> QED
    BY <2>1 DEF InterpInv, Interpolates
<1>7. ASSUME NEW a \in Interp!Alive, Interp!RemoveInterpolator(a) PROVE InterpInv'
  BY <1>7, RemovesInterpolate
<1>8. ASSUME NEW c \in Coroutines, Interp!Await(c) PROVE InterpInv'
  BY <1>8, AwaitsInterpolate
<1>9. ASSUME NEW c \in Coroutines, Interp!Unregister(c) PROVE InterpInv'
  BY <1>9, UnregistersInterpolate DEF Interp!Unregister, Interp!Null
<1>10. ASSUME NEW c \in Coroutines, Interp!ForceResume(c) PROVE InterpInv'
  <2>1. Interp!ProgramRuns /\ promise[c] # 0
    BY <1>10 DEF Interp!ForceResume, Interp!Null
  <2>2. CASE /\ Interp!Cancels(promise[c], Interp!Popped(interpolators, events, promise[c]))
             /\ promise' = [promise EXCEPT ![c] = 0]
    BY <2>1, <2>2, UnregistersInterpolate
  <2>3. ASSUME Interp!Alive # Interp!Addresses, NEW max_x \in Lengths,
               NEW p, p = Interp!Pushed(interpolators, events, c, max_x),
               Interp!Cancels(promise[c], Interp!Popped(p.vector, p.events, promise[c])),
               promise' = [promise EXCEPT ![c] = p.addr]
        PROVE  InterpInv'
    BY <2>1, <2>3, ResumesInterpolate
  <2> QED
    BY <1>10, <2>2, <2>3 DEF Interp!ForceResume, Interp!Null
<1>11. CASE UNCHANGED Interp!vars
  BY <1>11 DEF Interp!vars, InterpInv
<1> QED
  BY <1>1, <1>2, <1>3, <1>4, <1>5, <1>6, <1>7, <1>8, <1>9, <1>10, <1>11 DEF Interp!Next

----------------------------------------------------------------------------
\* Every interpolation stands in the vector once, where its vector_pos says,
\* and belongs to the coroutine whose promise names it, however removals
\* (interpolation.h:318), callbacks and resumes follow one another.
THEOREM PlacesAreRight == Interp!Spec => []PlacesHold
<1>1. InterpInv => PlacesHold
  <2> SUFFICES ASSUME InterpInv PROVE PlacesHold
    OBVIOUS
  <2>1. Holds(interpolators, events) /\ PromisesNamed(events, promise, finishing)
    BY DEF InterpInv, Interpolates
  <2>2. Interp!InVector = DOMAIN events
    <3>1. \A b \in DOMAIN events : events[b].pos + 1 \in 1 .. Len(interpolators) /\ interpolators[events[b].pos + 1] = b
      BY <2>1, Places
    <3>2. \A k \in 1 .. Len(interpolators) : interpolators[k] \in DOMAIN events
      BY <2>1, Places
    <3> QED
      BY <3>1, <3>2 DEF Interp!InVector
  <2>3. \A k \in 1 .. Len(interpolators) : events[interpolators[k]].pos = k - 1
    BY <2>1, Places
  <2> QED
    BY <2>1, <2>2, <2>3 DEF PlacesHold, Interp!PlacesHold, Interp!Alive, Interp!Null, PromisesNamed
<1> QED
  BY <1>1, InterpInit, InterpNext, PTL DEF Interp!Spec

\* A pass of process_interpolation (interpolation.h:219) advances no
\* interpolation twice, and of those it found when it started it misses at most
\* one for each that was removed while it went on.
THEOREM PassesAdvanceEveryone == Interp!Spec => PassesAdvance
<1> DEFINE Once == Interp!Advances \/ Interp!Finishes => Interp!At \notin advanced
           Few == Interp!EndPass => Interp!Cardinality(present \ advanced) <= removed
<1>1. InterpInv /\ [Interp!Next]_Interp!vars => [Once]_Interp!vars
  <2> SUFFICES ASSUME InterpInv, Interp!HasNext PROVE Interp!At \notin advanced
    BY DEF Interp!Advances, Interp!Finishes
  <2>1. SamePlaces(events, events)
    BY DEF SamePlaces, InterpInv, Interpolates, Holds
  <2> QED
    BY <2>1, AdvancedHolds
<1>2. InterpInv /\ [Interp!Next]_Interp!vars => [Few]_Interp!vars
  <2> SUFFICES ASSUME InterpInv, Interp!EndPass PROVE Interp!Cardinality(present \ advanced) <= removed
    OBVIOUS
  <2>1. index # -1 /\ finishing = 0 /\ index >= Len(interpolators)
    BY DEF Interp!EndPass, Interp!Idle, Interp!Null
  <2>2. Holds(interpolators, events) /\ InPassInv(events, index, 0, advanced, present, removed)
    BY <2>1 DEF InterpInv, Interpolates
  <2>3. index \in Nat /\ present \subseteq DOMAIN events /\ Interp!Cardinality(Missed(events, advanced, present, index)) <= removed
    BY <2>2 DEF InPassInv, Onward
  <2>4. \A b \in DOMAIN events : events[b].pos \in Nat /\ events[b].pos < Len(interpolators) /\ Len(interpolators) \in Nat
    BY <2>2, Places
  <2>5. Missed(events, advanced, present, index) = present \ advanced
    BY <2>1, <2>3, <2>4 DEF Missed
  <2> QED
    BY <2>3, <2>5
<1> QED
  BY <1>1, <1>2, InterpInit, InterpNext, PTL DEF Interp!Spec, PassesAdvance, Interp!PassesAdvance

====
