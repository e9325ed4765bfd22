-------------------------- MODULE EngineScanner_proofs --------------------------
(* The route table for any graph, base mints, streams of updates and bounds: every  *)
(* route is a cycle, none is there twice, the index is exact, and a pool handled     *)
(* while running has all its routes.  The search is a recursion over the hops left,   *)
(* each step of which folds over the edges; both are followed with the lemmas on      *)
(* folds, induction on the number of steps being that a set of numbers has a least.  *)
EXTENDS EngineScanner, NaturalsInduction, WellFoundedInduction, TLAPS

-----------------------------------------------------------------------------
(* Folds.                                                                     *)

\* A set of numbers has a least one.
LEMMA LeastOf ==
  ASSUME NEW T, T \subseteq Nat, T # {}
  PROVE  \E m \in T : \A k \in T : ~(k < m)
  <1> DEFINE R == {ss \in Nat \X Nat : ss[1] < ss[2]}
  <1>1. IsWellFoundedOn(R, Nat)
    BY NatLessThanWellFounded DEF OpToRel
  <1>2. \E x \in T : \A y \in T : ~(<<y, x>> \in R)
    BY <1>1, WFMin
  <1>. QED
    BY <1>2

\* What holds at first and is kept by every step holds after every step.
LEMMA FoldStays ==
  ASSUME NEW n \in Nat, NEW S, NEW e, e[0] \in S[0],
         \A k \in 1..n : e[k - 1] \in S[k - 1] => e[k] \in S[k]
  PROVE  \A k \in 0..n : e[k] \in S[k]
  <1> DEFINE T == {k \in 0..n : e[k] \notin S[k]}
  <1> SUFFICES ASSUME T # {} PROVE FALSE
    OBVIOUS
  <1>1. PICK m \in T : \A k \in T : ~(k < m)
    <2>1. T \subseteq Nat
      OBVIOUS
    <2>. HIDE DEF T
    <2>. QED
      BY <2>1, LeastOf
  <1>2. m # 0 /\ m - 1 \notin T /\ m \in 1..n /\ m - 1 \in 0..n
    BY <1>1
  <1>. QED
    BY <1>2

\* The results of a fold of the functions F from b.
IsFold(h, n, b, F) == h[0] = b /\ \A k \in 1..n : h[k] = F[k][h[k - 1]]

\* A fold of functions on a set has its intermediate results in the set.
LEMMA FoldExists ==
  ASSUME NEW n \in Nat, NEW S, NEW b \in S, NEW F \in [1..n -> [S -> S]]
  PROVE  \E h \in [0..n -> S] : IsFold(h, n, b, F)
  <1> DEFINE Upto(m) == {h \in [0..m -> S] : h[0] = b /\ \A k \in 1..m : h[k] = F[k][h[k - 1]]}
             T == {m \in 0..n : Upto(m) = {}}
  <1>1. Upto(0) # {}
    <2> DEFINE h == [k \in 0..0 |-> b]
    <2>1. h \in Upto(0)
      OBVIOUS
    <2>. QED
      BY <2>1
  <1>2. ASSUME NEW m \in 1..n, Upto(m - 1) # {} PROVE Upto(m) # {}
    <2>1. PICK h \in [0..(m - 1) -> S] : h[0] = b /\ \A k \in 1..(m - 1) : h[k] = F[k][h[k - 1]]
      BY <1>2
    <2> DEFINE x == F[m][h[m - 1]]
               g == [k \in 0..m |-> IF k = m THEN x ELSE h[k]]
    <2>2. x \in S
      BY <2>1
    <2>3. g \in [0..m -> S]
      BY <2>1, <2>2
    <2>4. g[0] = b
      BY <2>1
    <2>5. ASSUME NEW k \in 1..m PROVE g[k] = F[k][g[k - 1]]
      <3>1. g[k - 1] = h[k - 1]
        OBVIOUS
      <3>2. CASE k = m
        BY <3>1, <3>2
      <3>3. CASE k # m
        <4>1. k \in 1..(m - 1)
          BY <3>3
        <4>. QED
          BY <2>1, <3>1, <4>1
      <3>. QED
        BY <3>2, <3>3
    <2>. QED
      BY <2>3, <2>4, <2>5
  <1>3. T = {}
    <2>1. T \subseteq Nat
      OBVIOUS
    <2>2. ASSUME NEW m \in T PROVE \E k \in T : k < m
      <3>1. m # 0
        BY <1>1
      <3>2. m \in 1..n /\ m - 1 \in 0..n /\ m - 1 < m
        BY <3>1
      <3>3. Upto(m - 1) = {}
        <4>. HIDE DEF Upto
        <4>. QED
          BY <1>2, <3>2
      <3>. QED
        BY <3>2, <3>3
    <2>. HIDE DEF T
    <2>. QED
      BY <2>1, <2>2, LeastOf
  <1>4. Upto(n) # {}
    <2>. HIDE DEF Upto
    <2>1. n \notin T
      <3>. HIDE DEF T
      <3>. QED
        BY <1>3
    <2>. QED
      BY <2>1
  <1>. QED
    BY <1>4 DEF IsFold


-----------------------------------------------------------------------------
(* Paths.                                                                     *)

\* A path of the search: over different pools of the graph, from the base on, and
\* back at the base at its last hop at the earliest.
Trail(g, b, p) ==
  /\ p \in Paths
  /\ \A i \in 1..Len(p) : p[i].pool \in 1..Len(g)
  /\ \A i, j \in 1..Len(p) : p[i].pool = p[j].pool => i = j
  /\ Len(p) > 0 => Source(g, p[1]) = b
  /\ \A i \in 1..(Len(p) - 1) : Target(g, p[i]) = Source(g, p[i + 1]) /\ Target(g, p[i]) # b
  /\ Len(p) = 1 => Target(g, p[1]) # b

Open(g, b, p) == Len(p) >= 2 => Node(g, b, p) # b

Closed(g, b, p) ==
  Trail(g, b, p) /\ Len(p) \in 2..MaxHops /\ Target(g, p[Len(p)]) = b

Begins(p, q) == Len(p) <= Len(q) /\ \A i \in 1..Len(p) : q[i] = p[i]

\* The numbers of what a list has more than one it begins with.
Added(f, h) == (Len(f) + 1)..Len(h)

\* A search that had found f and was given the path p has found h: behind f the closed
\* paths that begin with p, none of them twice.
More(g, b, p, f, h) ==
  /\ h \in Seq(Paths) /\ Begins(f, h)
  /\ \A n \in Added(f, h) : Closed(g, b, h[n]) /\ Begins(p, h[n])
  /\ \A n, m \in Added(f, h) : h[n] = h[m] => n = m

\* What a search below its cap must find: the closed paths of affordable pools.
Wanted(g, b, c) ==
  Closed(g, b, c) /\ \A i \in 1..Len(c) : ~TooExpensive(g[c[i].pool].math)

Has(h, c) == \E n \in 1..Len(h) : h[n] = c

HasAll(g, b, p, h) ==
  Len(h) < MaxRoutes => \A c : Wanted(g, b, c) /\ Begins(p, c) => Has(h, c)

\* As far as the edge k: what was found goes on from p with one of the edges tried, and
\* all that goes on with them was found.
Tries(g, b, p, f, k) ==
  {h \in Seq(Paths) :
     /\ More(g, b, p, f, h)
     /\ \A n \in Added(f, h) :
          Len(h[n]) > Len(p) /\ \E j \in 1..k : h[n][Len(p) + 1] = Edge(j)
     /\ \A j \in 1..k : HasAll(g, b, Append(p, Edge(j)), h)}

Visits == [Paths -> [Seq(Paths) -> Seq(Paths)]]

\* What a search does that has so many hops left.
Searches(g, b, left) ==
  {v \in Visits :
     \A p \in Paths : Trail(g, b, p) /\ Len(p) + left = MaxHops =>
       \A f \in Seq(Paths) : More(g, b, p, f, v[p][f]) /\ HasAll(g, b, p, v[p][f])}

\* An edge is a hop over a pool of the graph, and no two edges are the same hop.
LEMMA EdgesDiffer ==
  ASSUME NEW n \in Nat
  PROVE  /\ \A k \in 1..(2 * n) : Edge(k) \in Hop /\ Edge(k).pool \in 1..n
         /\ \A j, k \in 1..(2 * n) : Edge(j) = Edge(k) => j = k
  <1>1. ASSUME NEW k \in 1..(2 * n) PROVE Edge(k) \in Hop /\ Edge(k).pool \in 1..n
    BY DEF Edge, Hop
  <1>2. ASSUME NEW j \in 1..(2 * n), NEW k \in 1..(2 * n), Edge(j) = Edge(k) PROVE j = k
    <2>1. (j + 1) \div 2 = (k + 1) \div 2 /\ (j % 2 = 1 <=> k % 2 = 1)
      BY <1>2 DEF Edge
    <2>. QED
      BY <2>1
  <1>. QED
    BY <1>1, <1>2

\* Every hop over a pool of the graph is an edge.
LEMMA EdgeOf ==
  ASSUME NEW n \in Nat, NEW e \in Hop, e.pool \in 1..n
  PROVE  \E k \in 1..(2 * n) : Edge(k) = e
  <1>1. e = [pool |-> e.pool, aToB |-> e.aToB] /\ e.aToB \in BOOLEAN
    BY DEF Hop
  <1>2. CASE e.aToB
    <2> DEFINE k == 2 * e.pool - 1
    <2>1. k \in 1..(2 * n) /\ (k + 1) \div 2 = e.pool /\ k % 2 = 1
      OBVIOUS
    <2>. HIDE DEF k
    <2>2. Edge(k) = [pool |-> e.pool, aToB |-> TRUE]
      BY <2>1 DEF Edge
    <2>. QED
      BY <1>1, <1>2, <2>1, <2>2
  <1>3. CASE ~e.aToB
    <2> DEFINE k == 2 * e.pool
    <2>1. k \in 1..(2 * n) /\ (k + 1) \div 2 = e.pool /\ k % 2 # 1
      OBVIOUS
    <2>. HIDE DEF k
    <2>2. Edge(k) = [pool |-> e.pool, aToB |-> FALSE]
      BY <2>1 DEF Edge
    <2>. QED
      BY <1>1, <1>3, <2>1, <2>2
  <1>. QED
    BY <1>2, <1>3

\* The empty path is a trail.
LEMMA EmptyTrail == ASSUME NEW g, NEW b PROVE Trail(g, b, <<>>) /\ Open(g, b, <<>>)
  BY DEF Trail, Open, Paths

\* A usable edge of the node where an open trail ends makes it a longer trail.
LEMMA LongerTrail ==
  ASSUME NEW g, NEW b, NEW p, Trail(g, b, p), Open(g, b, p), NEW e \in Hop,
         e.pool \in 1..Len(g), Source(g, e) = Node(g, b, p), Usable(g, b, p, e)
  PROVE  Trail(g, b, Append(p, e))
  <1> DEFINE q == Append(p, e)
             n == Len(p)
  <1>1. /\ q \in Paths /\ n \in Nat /\ Len(q) = n + 1 /\ q[n + 1] = e
        /\ \A i \in 1..n : q[i] = p[i]
    BY DEF Trail, Paths
  <1>2. /\ \A i \in 1..n : p[i].pool # e.pool
        /\ Target(g, e) = b => n >= 1
    BY <1>1 DEF Usable, Trail, Paths
  <1>3. \A i \in 1..(n + 1) : i \in 1..n \/ i = n + 1
    BY <1>1
  <1>. HIDE DEF q, n
  <1>4. \A i \in 1..(n + 1) : q[i].pool \in 1..Len(g)
    BY <1>1, <1>3 DEF Trail, n
  <1>5. \A i, j \in 1..(n + 1) : q[i].pool = q[j].pool => i = j
    BY <1>1, <1>2, <1>3 DEF Trail, n
  <1>6. Source(g, q[1]) = b
    <2>1. CASE n = 0
      <3>1. p = <<>>
        BY <2>1 DEF n, Trail, Paths
      <3>. QED
        BY <1>1, <2>1, <3>1 DEF Node
    <2>2. CASE n > 0
      BY <1>1, <2>2 DEF Trail, n
    <2>. QED
      BY <1>1, <2>1, <2>2
  <1>7. ASSUME NEW i \in 1..n PROVE Target(g, q[i]) = Source(g, q[i + 1]) /\ Target(g, q[i]) # b
    <2>1. CASE i < n
      <3>1. i \in 1..(Len(p) - 1) /\ i + 1 \in 1..n
        BY <1>1, <2>1 DEF n
      <3>. QED
        BY <1>1, <3>1 DEF Trail
    <2>2. CASE i = n
      <3>1. p # <<>> /\ Node(g, b, p) = Target(g, p[n])
        BY <2>2, <1>1 DEF Node, n
      <3>2. Target(g, p[n]) # b
        BY <1>1, <2>2, <3>1 DEF Open, Trail, n
      <3>. QED
        BY <1>1, <2>2, <3>1, <3>2
    <2>. QED
      BY <1>1, <2>1, <2>2
  <1>8. Len(q) = 1 => Target(g, q[1]) # b
    <2>1. n = 0 \/ Len(q) # 1
      BY <1>1
    <2>2. n = 0 => q[1] = e /\ Target(g, e) # b
      BY <1>1, <1>2
    <2>. QED
      BY <2>1, <2>2
  <1>. QED
    <2>1. \A i \in 1..(Len(q) - 1) : Target(g, q[i]) = Source(g, q[i + 1]) /\ Target(g, q[i]) # b
      BY <1>1, <1>7
    <2>2. Trail(g, b, q)
      BY ONLY <1>1, <1>4, <1>5, <1>6, <2>1, <1>8 DEF Trail
    <2>. QED
      BY <2>2 DEF q

\* A closed path that begins with an open trail is longer.
LEMMA WantedLonger ==
  ASSUME NEW g, NEW b, NEW p \in Paths, NEW c, Wanted(g, b, c), Begins(p, c), Open(g, b, p)
  PROVE  Len(c) > Len(p)
  <1>1. /\ c \in Paths /\ Len(c) \in Nat /\ Len(c) >= 2 /\ Target(g, c[Len(c)]) = b
        /\ Len(p) \in Nat /\ Len(p) <= Len(c)
    BY RouteAssumption DEF Wanted, Closed, Trail, Paths, Begins
  <1>2. ASSUME Len(p) = Len(c) PROVE FALSE
    <2>1. p # <<>> /\ Len(p) >= 2 /\ p[Len(p)] = c[Len(c)]
      BY <1>1, <1>2 DEF Begins
    <2>. QED
      BY <1>1, <2>1 DEF Open, Node
  <1>. QED
    BY <1>1, <1>2

\* A closed path that begins with a closed one is that one.
LEMMA WantedSame ==
  ASSUME NEW g, NEW b, NEW p \in Paths, NEW c, Wanted(g, b, c), Begins(p, c), ~Open(g, b, p)
  PROVE  c = p
  <1>1. /\ c \in Paths /\ Len(c) \in Nat /\ Len(p) \in Nat /\ Len(p) <= Len(c)
        /\ \A i \in 1..Len(p) : c[i] = p[i]
        /\ \A i \in 1..(Len(c) - 1) : Target(g, c[i]) # b
    BY DEF Wanted, Closed, Trail, Paths, Begins
  <1>2. p # <<>> /\ Len(p) \in 1..Len(p) /\ Target(g, p[Len(p)]) = b
    BY <1>1 DEF Open, Node
  <1>3. Len(p) = Len(c)
    BY <1>1, <1>2
  <1>. QED
    BY <1>1, <1>3 DEF Paths

\* The search takes every edge by which a path it wants goes on.
LEMMA WantedTakes ==
  ASSUME NEW g, NEW b, NEW p \in Paths, NEW e \in Hop, NEW c, Wanted(g, b, c),
         Begins(Append(p, e), c)
  PROVE  Source(g, e) = Node(g, b, p) /\ Usable(g, b, p, e)
  <1> DEFINE n == Len(p)
  <1>1. /\ n \in Nat /\ n + 1 <= Len(c) /\ Len(c) \in Nat /\ c[n + 1] = e
        /\ \A i \in 1..n : c[i] = p[i]
    <2>1. /\ Len(Append(p, e)) = n + 1 /\ Append(p, e)[n + 1] = e /\ n \in Nat
          /\ \A i \in 1..n : Append(p, e)[i] = p[i]
      BY DEF Paths
    <2>. QED
      BY <2>1 DEF Begins, Wanted, Closed, Trail, Paths
  <1>2. /\ \A i, j \in 1..Len(c) : c[i].pool = c[j].pool => i = j
        /\ Source(g, c[1]) = b /\ Len(c) >= 2
        /\ \A i \in 1..(Len(c) - 1) : Target(g, c[i]) = Source(g, c[i + 1]) /\ Target(g, c[i]) # b
        /\ \A i \in 1..Len(c) : ~TooExpensive(g[c[i].pool].math)
    BY RouteAssumption DEF Wanted, Closed, Trail
  <1>3. n + 1 \in 1..Len(c) /\ \A i \in 1..n : i \in 1..Len(c) /\ i # n + 1
    BY <1>1
  <1>4. \A i \in DOMAIN p : p[i].pool # e.pool
    BY <1>1, <1>2, <1>3 DEF Paths
  <1>5. ~TooExpensive(g[e.pool].math)
    BY <1>1, <1>2, <1>3
  <1>6. CASE n = 0
    <2>1. p = <<>> /\ c[1] = e /\ 1 \in 1..(Len(c) - 1)
      BY <1>1, <1>2, <1>6 DEF Paths
    <2>. QED
      BY <1>2, <1>4, <1>5, <2>1 DEF Node, Usable
  <1>7. CASE n # 0
    <2>1. p # <<>> /\ n \in 1..(Len(c) - 1) /\ c[n] = p[n] /\ ~(n < 1)
      BY <1>1, <1>7
    <2>2. Source(g, e) = Target(g, p[n])
      BY <1>1, <1>2, <2>1
    <2>. QED
      BY <1>4, <1>5, <2>1, <2>2 DEF Node, Usable
  <1>. QED
    BY <1>6, <1>7

\* What a list has, a longer one has.
LEMMA HasStill ==
  ASSUME NEW g, NEW b, NEW p, NEW h \in Seq(Paths), NEW i \in Seq(Paths), Begins(h, i),
         HasAll(g, b, p, h)
  PROVE  HasAll(g, b, p, i)
  <1>1. Len(h) \in Nat /\ Len(i) \in Nat /\ Len(h) <= Len(i) /\ \A n \in 1..Len(h) : i[n] = h[n]
    BY DEF Begins
  <1>2. \A c : Has(h, c) => Has(i, c)
    BY <1>1 DEF Has
  <1>3. Len(i) < MaxRoutes => Len(h) < MaxRoutes
    BY <1>1, RouteAssumption
  <1>. QED
    BY <1>2, <1>3 DEF HasAll

-----------------------------------------------------------------------------
(* The search.                                                                *)

\* What a fold over the edges passes through.
IsTried(e, g, b, p, f, deeper) ==
  /\ e[0] = f
  /\ \A k \in 1..(2 * Len(g)) :
       e[k] = IF Source(g, Edge(k)) = Node(g, b, p) /\ Usable(g, b, p, Edge(k))
              THEN deeper[Append(p, Edge(k))][e[k - 1]] ELSE e[k - 1]

\* Trying the edges of a node is a fold over them.
LEMMA TriedFold ==
  ASSUME NEW g, Len(g) \in Nat, NEW b, NEW p \in Paths, NEW f \in Seq(Paths),
         NEW deeper \in Visits
  PROVE  \E e \in [0..(2 * Len(g)) -> Seq(Paths)] :
           Tried(g, b, p, f, deeper) = e[2 * Len(g)] /\ IsTried(e, g, b, p, f, deeper)
  <1> DEFINE N == 2 * Len(g)
             S == Seq(Paths)
             Takes(k) == Source(g, Edge(k)) = Node(g, b, p) /\ Usable(g, b, p, Edge(k))
             Step(k, s) == IF Takes(k) THEN deeper[Append(p, Edge(k))][s] ELSE s
             F == [k \in 1..N |-> [s \in S |-> Step(k, s)]]
             E(e) == e = [k \in 0..N |-> IF k = 0 THEN f ELSE Step(k, e[k - 1])]
  <1>0. N \in Nat /\ f \in S
    OBVIOUS
  <1>1. \A k \in 1..N, s \in S : Step(k, s) \in S
    <2> SUFFICES ASSUME NEW k \in 1..N, NEW s \in S PROVE Step(k, s) \in S
      OBVIOUS
    <2>1. Append(p, Edge(k)) \in Paths
      <3>1. Edge(k) \in Hop
        BY EdgesDiffer
      <3>. QED
        BY <3>1 DEF Paths
    <2>. HIDE DEF Takes
    <2>. QED
      BY <2>1 DEF Visits
  <1>2. F \in [1..N -> [S -> S]]
    <2>. HIDE DEF Step, S, N
    <2>. QED
      BY <1>1
  <1>3. PICK h \in [0..N -> S] : IsFold(h, N, f, F)
    <2>. HIDE DEF F, S, N
    <2>. QED
      BY ONLY <1>0, <1>2, FoldExists
  <1>4. E(h)
    <2>. HIDE DEF S, N, Step
    <2>1. \A k \in 1..N : h[k] = Step(k, h[k - 1])
      <3> SUFFICES ASSUME NEW k \in 1..N PROVE h[k] = Step(k, h[k - 1])
        OBVIOUS
      <3>1. h[k - 1] \in S
        BY <1>0
      <3>. QED
        BY <1>3, <3>1 DEF IsFold
    <2>. QED
      BY <1>0, <1>3, <2>1 DEF IsFold
  <1> DEFINE each == CHOOSE e : E(e)
  <1>5. E(each)
    <2>. HIDE DEF E
    <2>. QED
      BY <1>4
  <1>6. each[0] = f /\ \A k \in 1..N : each[k] = Step(k, each[k - 1])
    <2>. HIDE DEF each, Step, N
    <2>. QED
      BY <1>0, <1>5
  <1>7. each \in [0..N -> S]
    <2>1. \A k \in 0..N : each[k] \in S
      <3> DEFINE SS == [k \in 0..N |-> S]
      <3>. HIDE DEF each, Step, N, S
      <3>1. SS[0] = S /\ \A k \in 1..N : SS[k - 1] = S /\ SS[k] = S
        BY <1>0
      <3>2. \A k \in 1..N : each[k - 1] \in SS[k - 1] => each[k] \in SS[k]
        BY <1>1, <1>6, <3>1
      <3>3. each[0] \in SS[0]
        BY <1>0, <1>6, <3>1
      <3>4. \A k \in 0..N : each[k] \in SS[k]
        <4>. HIDE DEF SS
        <4>. QED
          BY ONLY <1>0, <3>2, <3>3, FoldStays
      <3>. QED
        BY <3>4
    <2>2. each = [k \in 0..N |-> each[k]]
      <3>. HIDE DEF each, Step, N
      <3>. QED
        BY <1>5
    <2>. HIDE DEF each, N, S
    <2>. QED
      BY <2>1, <2>2
  <1>8. Tried(g, b, p, f, deeper) = each[N]
    BY DEF Tried
  <1>9. IsTried(each, g, b, p, f, deeper)
    <2>. HIDE DEF each
    <2>. QED
      BY <1>6 DEF IsTried
  <1>. QED
    <2>. HIDE DEF each
    <2>. QED
      BY <1>7, <1>8, <1>9

\* A longer search goes on from where it begins: what more was found is in addition.
LEMMA FoundMore ==
  ASSUME NEW g, NEW b, NEW p, NEW f \in Seq(Paths), NEW k \in Nat \ {0},
         NEW h \in Tries(g, b, p, f, k - 1), NEW e, e = Edge(k), NEW i,
         p \in Paths, NEW q, q = Append(p, e), More(g, b, q, h, i), HasAll(g, b, q, i),
         \A j \in 1..(k - 1) : Edge(j) # e
  PROVE  i \in Tries(g, b, p, f, k)
  <1>1. /\ q[Len(p) + 1] = e /\ Len(q) = Len(p) + 1 /\ Len(p) \in Nat
        /\ \A x \in 1..Len(p) : q[x] = p[x]
    BY DEF Paths
  <1>2. /\ h \in Seq(Paths) /\ i \in Seq(Paths) /\ Begins(f, h) /\ Begins(h, i)
        /\ Len(f) \in Nat /\ Len(h) \in Nat /\ Len(i) \in Nat
    BY DEF Tries, More
  <1>3. Begins(f, i)
    BY <1>2 DEF Begins
  <1>4. ASSUME NEW n \in Added(f, i)
        PROVE  \/ n \in Added(f, h) /\ i[n] = h[n]
               \/ n \in Added(h, i) /\ n \notin Added(f, h)
    BY <1>2 DEF Added, Begins
  <1>5. ASSUME NEW n \in Added(f, h)
        PROVE  /\ Closed(g, b, h[n]) /\ Begins(p, h[n]) /\ Len(h[n]) > Len(p)
               /\ \E j \in 1..(k - 1) : h[n][Len(p) + 1] = Edge(j)
    BY DEF Tries, More
  <1>6. ASSUME NEW n \in Added(h, i)
        PROVE  /\ Closed(g, b, i[n]) /\ Begins(p, i[n]) /\ Len(i[n]) > Len(p)
               /\ i[n][Len(p) + 1] = e
    <2>1. Closed(g, b, i[n]) /\ Begins(q, i[n])
      BY DEF More
    <2>2. Len(i[n]) \in Nat
      BY <2>1 DEF Closed, Trail, Paths
    <2>. QED
      BY <1>1, <2>1, <2>2 DEF Begins
  <1>7. ASSUME NEW n \in Added(f, i)
        PROVE  /\ Closed(g, b, i[n]) /\ Begins(p, i[n]) /\ Len(i[n]) > Len(p)
               /\ \E j \in 1..k : i[n][Len(p) + 1] = Edge(j)
    BY <1>4, <1>5, <1>6
  <1>8. ASSUME NEW n \in Added(f, i), NEW m \in Added(f, i), i[n] = i[m] PROVE n = m
    <2>1. CASE n \in Added(f, h) /\ m \in Added(f, h)
      BY <1>4, <1>8, <2>1 DEF Tries, More
    <2>2. CASE n \in Added(h, i) /\ m \in Added(h, i)
      BY <1>8, <2>2 DEF More
    <2>3. CASE n \in Added(f, h) /\ m \in Added(h, i)
      BY <1>4, <1>5, <1>6, <1>8, <2>3
    <2>4. CASE n \in Added(h, i) /\ m \in Added(f, h)
      BY <1>4, <1>5, <1>6, <1>8, <2>4
    <2>. QED
      BY <1>4, <2>1, <2>2, <2>3, <2>4
  <1>9. More(g, b, p, f, i)
    BY <1>2, <1>3, <1>7, <1>8 DEF More
  <1>10. ASSUME NEW j \in 1..k PROVE HasAll(g, b, Append(p, Edge(j)), i)
    <2>1. CASE j = k
      BY <2>1
    <2>2. CASE j # k
      <3>1. HasAll(g, b, Append(p, Edge(j)), h)
        BY <2>2 DEF Tries
      <3>. QED
        BY <1>2, <3>1, HasStill
    <2>. QED
      BY <2>1, <2>2
  <1>. QED
    BY <1>2, <1>7, <1>9, <1>10 DEF Tries

\* An edge that takes nowhere is passed over: all that begins with it has been found.
LEMMA PassedOver ==
  ASSUME NEW g, NEW b, NEW p, NEW f, NEW k \in Nat \ {0}, NEW h \in Tries(g, b, p, f, k - 1),
         HasAll(g, b, Append(p, Edge(k)), h)
  PROVE  h \in Tries(g, b, p, f, k)
  <1>1. h \in Seq(Paths) /\ More(g, b, p, f, h)
    BY DEF Tries
  <1>2. \A j \in 1..(k - 1) : j \in 1..k
    OBVIOUS
  <1>3. ASSUME NEW n \in Added(f, h)
        PROVE  Len(h[n]) > Len(p) /\ \E j \in 1..k : h[n][Len(p) + 1] = Edge(j)
    <2>1. /\ Len(h[n]) > Len(p)
          /\ \E j \in 1..(k - 1) : h[n][Len(p) + 1] = Edge(j)
      BY DEF Tries
    <2>. QED
      BY <1>2, <2>1
  <1>4. ASSUME NEW j \in 1..k PROVE HasAll(g, b, Append(p, Edge(j)), h)
    <2>1. CASE j = k
      BY <2>1
    <2>2. CASE j # k
      <3>1. j \in 1..(k - 1)
        BY <2>2
      <3>. QED
        BY <3>1 DEF Tries
    <2>. QED
      BY <2>1, <2>2
  <1>. QED
    BY <1>1, <1>3, <1>4 DEF Tries

\* Trying the edges of an open trail's node finds more, and all there is.
LEMMA TriedMore ==
  ASSUME NEW g, Len(g) \in Nat, NEW b, NEW left \in Nat, NEW deeper \in Searches(g, b, left),
         NEW p \in Paths, Trail(g, b, p), Open(g, b, p), Len(p) + left + 1 = MaxHops,
         NEW f \in Seq(Paths)
  PROVE  /\ More(g, b, p, f, Tried(g, b, p, f, deeper))
         /\ HasAll(g, b, p, Tried(g, b, p, f, deeper))
  <1> DEFINE N == 2 * Len(g)
             S == [k \in 0..N |-> Tries(g, b, p, f, k)]
  <1>1. PICK e \in [0..N -> Seq(Paths)] :
               Tried(g, b, p, f, deeper) = e[N] /\ IsTried(e, g, b, p, f, deeper)
    BY TriedFold DEF Searches
  <1>2. N \in Nat
    OBVIOUS
  <1>3. e[0] \in S[0]
    BY <1>1, <1>2 DEF IsTried, Tries, More, Begins, Added
  <1>4. ASSUME NEW k \in 1..N, e[k - 1] \in S[k - 1] PROVE e[k] \in S[k]
    <2>1. k \in Nat \ {0} /\ k \in 0..N /\ k - 1 \in 0..N /\ e[k - 1] \in Tries(g, b, p, f, k - 1)
      BY <1>4
    <2>2. CASE Source(g, Edge(k)) = Node(g, b, p) /\ Usable(g, b, p, Edge(k))
      <3> DEFINE q == Append(p, Edge(k))
      <3>1. e[k] = deeper[q][e[k - 1]]
        BY <1>1, <2>2 DEF IsTried
      <3>2. /\ Edge(k) \in Hop /\ Edge(k).pool \in 1..Len(g)
            /\ \A j \in 1..(k - 1) : Edge(j) # Edge(k)
        BY EdgesDiffer, <2>1
      <3>3. Trail(g, b, q)
        BY <2>2, <3>2, LongerTrail
      <3>4. q \in Paths /\ Len(q) + left = MaxHops
        BY <3>2, RouteAssumption DEF Paths
      <3>5. e[k - 1] \in Seq(Paths)
        BY <2>1
      <3>. HIDE DEF q
      <3>6. More(g, b, q, e[k - 1], e[k]) /\ HasAll(g, b, q, e[k])
        BY <3>1, <3>3, <3>4, <3>5 DEF Searches
      <3>7. e[k] \in Tries(g, b, p, f, k)
        BY <2>1, <3>2, <3>6, FoundMore DEF q
      <3>. QED
        BY <2>1, <3>7
    <2>3. CASE ~(Source(g, Edge(k)) = Node(g, b, p) /\ Usable(g, b, p, Edge(k)))
      <3>1. e[k] = e[k - 1]
        BY <1>1, <2>3 DEF IsTried
      <3>2. HasAll(g, b, Append(p, Edge(k)), e[k])
        <4>1. Edge(k) \in Hop
          BY EdgesDiffer
        <4>. QED
          BY <2>3, <4>1, WantedTakes DEF HasAll
      <3>3. e[k] \in Tries(g, b, p, f, k)
        BY <2>1, <3>1, <3>2, PassedOver
      <3>. QED
        BY <2>1, <3>3
    <2>. QED
      BY <2>2, <2>3
  <1>5. \A k \in 0..N : e[k] \in S[k]
    <2>. HIDE DEF N, S
    <2>. QED
      BY ONLY <1>2, <1>3, <1>4, FoldStays
  <1>6. e[N] \in Tries(g, b, p, f, N)
    BY <1>2, <1>5
  <1>7. HasAll(g, b, p, e[N])
    <2> SUFFICES ASSUME Len(e[N]) < MaxRoutes, NEW c, Wanted(g, b, c), Begins(p, c)
                 PROVE  Has(e[N], c)
      BY DEF HasAll
    <2>1. Len(c) > Len(p)
      BY WantedLonger
    <2>2. /\ c \in Paths /\ Len(c) \in Nat /\ Len(p) \in Nat
          /\ \A i \in 1..Len(c) : c[i].pool \in 1..Len(g)
      BY DEF Wanted, Closed, Trail, Paths
    <2>3. Len(p) + 1 \in 1..Len(c)
      BY <2>1, <2>2
    <2>4. c[Len(p) + 1] \in Hop
      BY <2>2, <2>3 DEF Paths
    <2>5. PICK j \in 1..N : Edge(j) = c[Len(p) + 1]
      BY <2>2, <2>3, <2>4, EdgeOf
    <2>6. Begins(Append(p, Edge(j)), c)
      <3> DEFINE q == Append(p, c[Len(p) + 1])
      <3>1. /\ Len(q) = Len(p) + 1 /\ q[Len(p) + 1] = c[Len(p) + 1]
            /\ \A i \in 1..Len(p) : q[i] = p[i]
        BY <2>4 DEF Paths
      <3>2. \A i \in 1..Len(q) : i \in 1..Len(p) \/ i = Len(p) + 1
        BY <2>2, <3>1
      <3>. HIDE DEF q
      <3>3. Begins(q, c)
        BY <2>1, <2>2, <3>1, <3>2, SMTT(40) DEF Begins
      <3>. QED
        BY <2>5, <3>3 DEF q
    <2>7. HasAll(g, b, Append(p, Edge(j)), e[N])
      BY <1>6 DEF Tries
    <2>. QED
      BY <2>6, <2>7 DEF HasAll
  <1>. QED
    BY <1>1, <1>6, <1>7 DEF Tries

\* One call is a function of the path and of what was found.
LEMMA VisitedTyped ==
  ASSUME NEW g, Len(g) \in Nat, NEW b, NEW left, NEW deeper, left = 0 \/ deeper \in Visits
  PROVE  Visited(g, b, left, deeper) \in Visits
  <1> SUFFICES ASSUME NEW p \in Paths, NEW f \in Seq(Paths)
               PROVE  (IF Len(f) >= MaxRoutes THEN f
                       ELSE IF Len(p) >= 2 /\ Node(g, b, p) = b THEN Append(f, p)
                       ELSE IF left = 0 THEN f
                       ELSE Tried(g, b, p, f, deeper)) \in Seq(Paths)
    BY DEF Visited, Visits
  <1>1. left # 0 => Tried(g, b, p, f, deeper) \in Seq(Paths)
    <2> SUFFICES ASSUME left # 0 PROVE Tried(g, b, p, f, deeper) \in Seq(Paths)
      OBVIOUS
    <2>1. \E e \in [0..(2 * Len(g)) -> Seq(Paths)] :
            Tried(g, b, p, f, deeper) = e[2 * Len(g)] /\ IsTried(e, g, b, p, f, deeper)
      BY TriedFold
    <2>2. 2 * Len(g) \in 0..(2 * Len(g))
      OBVIOUS
    <2>. QED
      BY <2>1, <2>2
  <1>. QED
    BY <1>1

\* One call finds more, if those it makes do.
LEMMA VisitedMore ==
  ASSUME NEW g, Len(g) \in Nat, NEW b, NEW left \in Nat, NEW deeper,
         left = 0 \/ deeper \in Searches(g, b, left - 1)
  PROVE  Visited(g, b, left, deeper) \in Searches(g, b, left)
  <1>1. Visited(g, b, left, deeper) \in Visits
    BY VisitedTyped DEF Searches
  <1>2. ASSUME NEW p \in Paths, Trail(g, b, p), Len(p) + left = MaxHops, NEW f \in Seq(Paths)
        PROVE  /\ More(g, b, p, f, Visited(g, b, left, deeper)[p][f])
               /\ HasAll(g, b, p, Visited(g, b, left, deeper)[p][f])
    <2> DEFINE v == Visited(g, b, left, deeper)[p][f]
    <2>0. Len(p) \in Nat /\ MaxHops \in Nat
      BY RouteAssumption DEF Paths
    <2>1. More(g, b, p, f, f)
      BY DEF More, Begins, Added
    <2>2. ASSUME ~Open(g, b, p)
          PROVE  More(g, b, p, f, Append(f, p)) /\ HasAll(g, b, p, Append(f, p))
      <3>1. Closed(g, b, p) /\ Begins(p, p)
        <4>1. Len(p) \in 2..MaxHops /\ p # <<>>
          BY <1>2, <2>0, <2>2 DEF Open
        <4>. QED
          BY <1>2, <2>2, <4>1 DEF Closed, Node, Begins, Open
      <3>2. /\ Append(f, p) \in Seq(Paths) /\ Begins(f, Append(f, p))
            /\ \A n \in Added(f, Append(f, p)) : n = Len(f) + 1 /\ Append(f, p)[n] = p
            /\ Has(Append(f, p), p)
        BY DEF Added, Begins, Has
      <3>3. HasAll(g, b, p, Append(f, p))
        BY <2>2, <3>2, WantedSame DEF HasAll
      <3>. QED
        BY <3>1, <3>2, <3>3 DEF More
    <2>3. ASSUME left # 0, Open(g, b, p)
          PROVE  /\ More(g, b, p, f, Tried(g, b, p, f, deeper))
                 /\ HasAll(g, b, p, Tried(g, b, p, f, deeper))
      <3>1. left - 1 \in Nat /\ Len(p) + (left - 1) + 1 = MaxHops
        BY <1>2, <2>0, <2>3
      <3>. QED
        BY <1>2, <2>3, <3>1, TriedMore
    <2>4. v = IF Len(f) >= MaxRoutes THEN f
              ELSE IF ~Open(g, b, p) THEN Append(f, p)
              ELSE IF left = 0 THEN f
              ELSE Tried(g, b, p, f, deeper)
      BY DEF Visited, Open
    <2>5. ASSUME Len(f) >= MaxRoutes PROVE HasAll(g, b, p, f)
      <3>1. ~(Len(f) < MaxRoutes)
        BY <2>5, RouteAssumption
      <3>. QED
        BY <3>1 DEF HasAll
    <2>6. ASSUME left = 0, Open(g, b, p) PROVE HasAll(g, b, p, f)
      <3>1. \A c : Wanted(g, b, c) => Len(c) <= Len(p)
        BY <1>2, <2>0, <2>6 DEF Wanted, Closed
      <3>2. \A c : Wanted(g, b, c) => Len(c) \in Nat
        BY DEF Wanted, Closed, Trail, Paths
      <3>3. \A c : ~(Wanted(g, b, c) /\ Begins(p, c))
        BY <2>0, <2>6, <3>1, <3>2, WantedLonger
      <3>. QED
        BY <3>3 DEF HasAll
    <2>. HIDE DEF v
    <2>. QED
      BY <2>1, <2>2, <2>3, <2>4, <2>5, <2>6 DEF v
  <1>. QED
    BY <1>1, <1>2 DEF Searches

\* The search from a base finds routes that close there, and all that may be used.
LEMMA DfsMore ==
  ASSUME NEW g, Len(g) \in Nat, NEW b
  PROVE  /\ Dfs(g, b) \in Visits
         /\ \A f \in Seq(Paths) : /\ More(g, b, <<>>, f, Dfs(g, b)[<<>>][f])
                                  /\ HasAll(g, b, <<>>, Dfs(g, b)[<<>>][f])
  <1> DEFINE N == MaxHops
             Call(left, v) == Visited(g, b, left, v)
             first == Call(0, <<>>)
             F == [left \in 1..N |-> [v \in Visits |-> Call(left, v)]]
             E(e) == e = [left \in 0..N |->
                            Visited(g, b, left, IF left = 0 THEN <<>> ELSE e[left - 1])]
  <1>0. N \in Nat
    BY RouteAssumption
  <1>1. first \in Visits /\ \A left \in 1..N, v \in Visits : Call(left, v) \in Visits
    BY VisitedTyped
  <1>2. F \in [1..N -> [Visits -> Visits]]
    <2>. HIDE DEF Call, N
    <2>. QED
      BY <1>1
  <1>3. PICK h \in [0..N -> Visits] : IsFold(h, N, first, F)
    <2>. HIDE DEF F, N, first
    <2>. QED
      BY ONLY <1>0, <1>1, <1>2, FoldExists
  <1>4. E(h)
    <2>1. \A left \in 1..N : h[left] = Call(left, h[left - 1])
      <3>. HIDE DEF N, Call
      <3> SUFFICES ASSUME NEW left \in 1..N PROVE h[left] = Call(left, h[left - 1])
        OBVIOUS
      <3>1. h[left - 1] \in Visits
        BY <1>0
      <3>. QED
        BY <1>3, <3>1 DEF IsFold
    <2>2. h[0] = Call(0, <<>>)
      BY <1>3 DEF IsFold
    <2>3. \A left \in 0..N : h[left] = Call(left, IF left = 0 THEN <<>> ELSE h[left - 1])
      <3>. HIDE DEF Call, N
      <3>. QED
        BY <1>0, <2>1, <2>2
    <2>4. h = [left \in 0..N |-> Call(left, IF left = 0 THEN <<>> ELSE h[left - 1])]
      <3>. HIDE DEF Call, N
      <3>. QED
        BY <2>3
    <2>. QED
      BY <2>4
  <1> DEFINE dfs == CHOOSE e : E(e)
  <1>5. E(dfs)
    <2>. HIDE DEF E
    <2>. QED
      BY <1>4
  <1>6. dfs[0] = Call(0, <<>>) /\ \A left \in 1..N : dfs[left] = Call(left, dfs[left - 1])
    <2>1. dfs = [left \in 0..N |-> Call(left, IF left = 0 THEN <<>> ELSE dfs[left - 1])]
      BY <1>5
    <2>. HIDE DEF dfs, Call, N
    <2>. QED
      BY <1>0, <2>1
  <1>7. dfs[N] \in Searches(g, b, N)
    <2> DEFINE S == [left \in 0..N |-> Searches(g, b, left)]
    <2>. HIDE DEF dfs
    <2>1. dfs[0] \in S[0]
      BY <1>0, <1>6, VisitedMore
    <2>2. \A left \in 1..N : dfs[left - 1] \in S[left - 1] => dfs[left] \in S[left]
      <3> SUFFICES ASSUME NEW left \in 1..N, dfs[left - 1] \in S[left - 1]
                   PROVE  dfs[left] \in S[left]
        OBVIOUS
      <3>1. left \in Nat /\ left \in 0..N /\ left - 1 \in 0..N
        BY <1>0
      <3>2. dfs[left - 1] \in Searches(g, b, left - 1)
        BY <3>1
      <3>3. dfs[left] \in Searches(g, b, left)
        BY <1>6, <3>1, <3>2, VisitedMore
      <3>. QED
        BY <3>1, <3>3
    <2>3. \A left \in 0..N : dfs[left] \in S[left]
      <3>. HIDE DEF S, N
      <3>. QED
        BY ONLY <1>0, <2>1, <2>2, FoldStays
    <2>. QED
      BY <1>0, <2>3
  <1>8. Dfs(g, b) = dfs[N]
    BY DEF Dfs
  <1>. QED
    <2>. HIDE DEF dfs
    <2>1. <<>> \in Paths /\ Len(<<>>) + N = MaxHops
      BY <1>0 DEF Paths
    <2>. QED
      BY <1>7, <1>8, <2>1, EmptyTrail DEF Searches

-----------------------------------------------------------------------------
(* The table.                                                                 *)

\* No base mint is configured twice, as in the default list.  A mint listed twice is
\* searched twice, and its routes are then in the table twice.
BasesOnce == \A i, j \in 1..Len(BaseMints) : BaseMints[i] = BaseMints[j] => i = j

\* What the search adds with the first k base mints.
FromBases(g, f, k) ==
  {h \in Seq(Paths) :
     /\ Begins(f, h)
     /\ \A n \in Added(f, h) : \E j \in 1..k : Closed(g, BaseMints[j], h[n])
     /\ BasesOnce => \A n, m \in Added(f, h) : h[n] = h[m] => n = m
     /\ \A j \in 1..k : HasAll(g, BaseMints[j], <<>>, h)}

\* The search from one base after others.
LEMMA FoundFromBase ==
  ASSUME NEW g, NEW f \in Seq(Paths), NEW k \in 1..Len(BaseMints),
         NEW h \in FromBases(g, f, k - 1), NEW i, More(g, BaseMints[k], <<>>, h, i),
         HasAll(g, BaseMints[k], <<>>, i)
  PROVE  i \in FromBases(g, f, k)
  <1>0. Len(BaseMints) \in Nat
    BY RouteAssumption
  <1>2. /\ h \in Seq(Paths) /\ i \in Seq(Paths) /\ Begins(f, h) /\ Begins(h, i)
        /\ Len(f) \in Nat /\ Len(h) \in Nat /\ Len(i) \in Nat
    BY DEF FromBases, More
  <1>3. Begins(f, i)
    BY <1>2 DEF Begins
  <1>4. ASSUME NEW n \in Added(f, i)
        PROVE  \/ n \in Added(f, h) /\ i[n] = h[n]
               \/ n \in Added(h, i) /\ n \notin Added(f, h)
    BY <1>2 DEF Added, Begins
  <1>5. \A n \in Added(f, h) : \E j \in 1..(k - 1) : Closed(g, BaseMints[j], h[n])
    BY DEF FromBases
  <1>6. \A n \in Added(h, i) : Closed(g, BaseMints[k], i[n])
    BY DEF More
  <1>7. \A n \in Added(f, i) : \E j \in 1..k : Closed(g, BaseMints[j], i[n])
    BY <1>0, <1>4, <1>5, <1>6
  <1>8. ASSUME BasesOnce, NEW n \in Added(f, h), NEW m \in Added(h, i) PROVE h[n] # i[m]
    <2>1. PICK j \in 1..(k - 1) : Closed(g, BaseMints[j], h[n])
      BY <1>5
    <2>2. j \in 1..Len(BaseMints) /\ j # k
      BY <1>0
    <2>3. Len(h[n]) > 0 /\ Source(g, h[n][1]) = BaseMints[j]
      BY <2>1, RouteAssumption DEF Closed, Trail
    <2>4. Len(i[m]) > 0 /\ Source(g, i[m][1]) = BaseMints[k]
      BY <1>6, RouteAssumption DEF Closed, Trail
    <2>. QED
      BY <1>8, <2>2, <2>3, <2>4 DEF BasesOnce
  <1>9. ASSUME BasesOnce, NEW n \in Added(f, i), NEW m \in Added(f, i), i[n] = i[m] PROVE n = m
    <2>1. CASE n \in Added(f, h) /\ m \in Added(f, h)
      BY <1>4, <1>9, <2>1 DEF FromBases
    <2>2. CASE n \in Added(h, i) /\ m \in Added(h, i)
      BY <1>9, <2>2 DEF More
    <2>. QED
      BY <1>4, <1>8, <1>9, <2>1, <2>2
  <1>10. ASSUME NEW j \in 1..k PROVE HasAll(g, BaseMints[j], <<>>, i)
    <2>1. CASE j = k
      BY <2>1
    <2>2. CASE j # k
      <3>1. HasAll(g, BaseMints[j], <<>>, h)
        BY <2>2 DEF FromBases
      <3>. QED
        BY <1>2, <3>1, HasStill
    <2>. QED
      BY <2>1, <2>2
  <1>. QED
    BY <1>2, <1>3, <1>7, <1>9, <1>10 DEF FromBases

\* The search from all of them.
LEMMA SearchAllMore ==
  ASSUME NEW g, Len(g) \in Nat, NEW f \in Seq(Paths)
  PROVE  SearchAll(g, f) \in FromBases(g, f, Len(BaseMints))
  <1> DEFINE N == Len(BaseMints)
             T == Seq(Paths)
             Go(k, s) == Dfs(g, BaseMints[k])[<<>>][s]
             F == [k \in 1..N |-> [s \in T |-> Go(k, s)]]
             E(e) == e = [k \in 0..N |-> IF k = 0 THEN f ELSE Go(k, e[k - 1])]
  <1>0. N \in Nat
    BY RouteAssumption
  <1>1. \A k \in 1..N, s \in T : Go(k, s) \in T
    BY DfsMore DEF More
  <1>2. F \in [1..N -> [T -> T]]
    <2>. HIDE DEF Go, N, T
    <2>. QED
      BY <1>1
  <1>3. PICK h \in [0..N -> T] : IsFold(h, N, f, F)
    <2>1. f \in T
      OBVIOUS
    <2>. HIDE DEF F, N, T
    <2>. QED
      BY ONLY <1>0, <1>2, <2>1, FoldExists
  <1>4. E(h)
    <2>. HIDE DEF N, Go, T
    <2>1. \A k \in 1..N : h[k] = Go(k, h[k - 1])
      <3> SUFFICES ASSUME NEW k \in 1..N PROVE h[k] = Go(k, h[k - 1])
        OBVIOUS
      <3>1. h[k - 1] \in T
        BY <1>0
      <3>. QED
        BY <1>3, <3>1 DEF IsFold
    <2>. QED
      BY <1>0, <1>3, <2>1 DEF IsFold
  <1> DEFINE after == CHOOSE e : E(e)
  <1>5. E(after)
    <2>. HIDE DEF E
    <2>. QED
      BY <1>4
  <1>6. after[0] = f /\ \A k \in 1..N : after[k] = Go(k, after[k - 1])
    <2>. HIDE DEF after, Go, N
    <2>. QED
      BY <1>0, <1>5
  <1>7. after[N] \in FromBases(g, f, N)
    <2> DEFINE S == [k \in 0..N |-> FromBases(g, f, k)]
    <2>. HIDE DEF after
    <2>1. after[0] \in S[0]
      BY <1>0, <1>6 DEF FromBases, Begins, Added
    <2>2. \A k \in 1..N : after[k - 1] \in S[k - 1] => after[k] \in S[k]
      <3> SUFFICES ASSUME NEW k \in 1..N, after[k - 1] \in S[k - 1] PROVE after[k] \in S[k]
        OBVIOUS
      <3>1. k \in 0..N /\ k - 1 \in 0..N /\ k \in 1..Len(BaseMints)
        BY <1>0
      <3>2. after[k - 1] \in FromBases(g, f, k - 1)
        BY <3>1
      <3>3. after[k - 1] \in Seq(Paths)
        BY <3>2 DEF FromBases
      <3>4. /\ More(g, BaseMints[k], <<>>, after[k - 1], after[k])
            /\ HasAll(g, BaseMints[k], <<>>, after[k])
        <4>1. after[k] = Go(k, after[k - 1])
          BY <1>6
        <4>. HIDE DEF N, S
        <4>2. /\ More(g, BaseMints[k], <<>>, after[k - 1], Go(k, after[k - 1]))
              /\ HasAll(g, BaseMints[k], <<>>, Go(k, after[k - 1]))
          BY <3>3, DfsMore
        <4>. HIDE DEF Go
        <4>. QED
          BY <4>1, <4>2
      <3>5. after[k] \in FromBases(g, f, k)
        BY ONLY f \in Seq(Paths), <3>1, <3>2, <3>4, FoundFromBase
      <3>. QED
        BY <3>1, <3>5
    <2>3. \A k \in 0..N : after[k] \in S[k]
      <3>. HIDE DEF S, N
      <3>. QED
        BY ONLY <1>0, <2>1, <2>2, FoldStays
    <2>. QED
      BY <1>0, <2>3
  <1>8. SearchAll(g, f) = after[N]
    BY DEF SearchAll
  <1>. QED
    <2>. HIDE DEF after
    <2>. QED
      BY <1>7, <1>8

\* A route of the table starts and ends at a base mint.
IsRoute(g, r) == \E j \in 1..Len(BaseMints) : Closed(g, BaseMints[j], r)

Distinct(s) == \A n, m \in 1..Len(s) : s[n] = s[m] => n = m

Touches(r, p) == \E h \in 1..Len(r) : r[h].pool = p

\* The index names of the first n routes exactly those through each pool.
Exact(routes, index, n) ==
  \A p \in 1..Len(index) : \A x : x \in index[p] <=> x \in 1..n /\ Touches(routes[x], p)

\* The pools of a route are in the index.
Within(r, index) == \A i \in 1..Len(r) : r[i].pool \in 1..Len(index)

\* The table of a graph: different routes, all of them closed, and an exact index.
TableOf(g, t) ==
  /\ t.routes \in Seq(Paths) /\ t.index \in Seq(SUBSET Nat)
  /\ \A n \in 1..Len(t.routes) : IsRoute(g, t.routes[n]) /\ Within(t.routes[n], t.index)
  /\ BasesOnce => Distinct(t.routes)
  /\ Exact(t.routes, t.index, Len(t.routes))

\* Registering the routes behind those the index has makes it exact for all.
LEMMA RegisterExact ==
  ASSUME NEW routes \in Seq(Paths), NEW index \in Seq(SUBSET Nat), NEW from \in Nat \ {0},
         from <= Len(routes) + 1, Exact(routes, index, from - 1)
  PROVE  /\ Register(index, routes, from) \in Seq(SUBSET Nat)
         /\ Len(Register(index, routes, from)) = Len(index)
         /\ Exact(routes, Register(index, routes, from), Len(routes))
  <1> DEFINE new == Register(index, routes, from)
  <1>1. ASSUME NEW p \in 1..Len(index)
        PROVE  new[p] = index[p] \cup {n \in from..Len(routes) : Touches(routes[n], p)}
    <2>1. ASSUME NEW n \in from..Len(routes)
          PROVE  Touches(routes[n], p) <=> \E h \in DOMAIN routes[n] : routes[n][h].pool = p
      <3>1. n \in 1..Len(routes)
        OBVIOUS
      <3>2. routes[n] \in Paths
        BY <3>1
      <3>3. DOMAIN routes[n] = 1..Len(routes[n])
        BY <3>2 DEF Paths
      <3>. QED
        BY <3>3 DEF Touches
    <2>2. {n \in from..Len(routes) : \E h \in DOMAIN routes[n] : routes[n][h].pool = p}
            = {n \in from..Len(routes) : Touches(routes[n], p)}
      BY <2>1
    <2>3. p \in DOMAIN index
      OBVIOUS
    <2>. QED
      BY ONLY <2>2, <2>3 DEF Register
  <1>2. new \in Seq(SUBSET Nat) /\ Len(new) = Len(index)
    <2>1. new = [p \in 1..Len(index) |-> new[p]]
      BY DEF Register
    <2>2. \A p \in 1..Len(index) : new[p] \in SUBSET Nat
      BY <1>1
    <2>. HIDE DEF new
    <2>. QED
      BY <2>1, <2>2
  <1>3. ASSUME NEW p \in 1..Len(index), NEW x
        PROVE  x \in new[p] <=> x \in 1..Len(routes) /\ Touches(routes[x], p)
    <2>1. x \in index[p] <=> x \in 1..(from - 1) /\ Touches(routes[x], p)
      BY DEF Exact
    <2>2. x \in 1..Len(routes) <=> x \in 1..(from - 1) \/ x \in from..Len(routes)
      OBVIOUS
    <2>. HIDE DEF new
    <2>. QED
      BY <1>1, <2>1, <2>2
  <1>. QED
    <2>. HIDE DEF new
    <2>1. Exact(routes, new, Len(routes))
      BY <1>2, <1>3 DEF Exact
    <2>. QED
      BY <1>2, <2>1 DEF new

\* The empty table is the table of the empty graph, and of any.
LEMMA EmptyTableOf == ASSUME NEW g PROVE TableOf(g, EmptyTable)
  BY DEF TableOf, EmptyTable, Exact, Distinct

\* A route's pools are pools of the graph.
LEMMA RoutePools ==
  ASSUME NEW g, NEW r, IsRoute(g, r) PROVE \A i \in 1..Len(r) : r[i].pool \in 1..Len(g)
  BY DEF IsRoute, Closed, Trail

\* The table built at the end of the warm-up.
LEMMA Built ==
  ASSUME NEW S, NEW g \in Seq(S)
  PROVE  TableOf(g, BuildFromGraph(g))
  <1> DEFINE found == SearchAll(g, <<>>)
             blank == [i \in DOMAIN g |-> {}]
             index == Register(blank, found, 1)
  <1>1. found \in FromBases(g, <<>>, Len(BaseMints))
    <2>1. Len(g) \in Nat /\ <<>> \in Seq(Paths)
      OBVIOUS
    <2>. QED
      BY <2>1, SearchAllMore
  <1>2. /\ found \in Seq(Paths) /\ (BasesOnce => Distinct(found))
        /\ \A n \in 1..Len(found) : IsRoute(g, found[n])
    <2>. HIDE DEF found
    <2>1. Added(<<>>, found) = 1..Len(found)
      BY DEF Added
    <2>. QED
      BY <1>1, <2>1 DEF FromBases, Distinct, IsRoute
  <1>3. blank \in Seq(SUBSET Nat) /\ Len(blank) = Len(g) /\ \A p \in 1..Len(g) : blank[p] = {}
    <2>1. DOMAIN g = 1..Len(g) /\ Len(g) \in Nat
      OBVIOUS
    <2>. QED
      BY <2>1
  <1>. HIDE DEF found, blank
  <1>4. Exact(found, blank, 1 - 1)
    BY <1>3 DEF Exact
  <1>5. index \in Seq(SUBSET Nat) /\ Len(index) = Len(g) /\ Exact(found, index, Len(found))
    BY <1>2, <1>3, <1>4, RegisterExact
  <1>. HIDE DEF index
  <1>6. \A n \in 1..Len(found) : Within(found[n], index)
    BY <1>2, <1>5, RoutePools DEF Within
  <1>7. BuildFromGraph(g) = [routes |-> found, index |-> index]
    BY DEF BuildFromGraph, found, index, blank
  <1>. QED
    BY <1>2, <1>5, <1>6, <1>7 DEF TableOf

\* Of what was found, all that go through the pool and were not known are kept, once.
LEMMA NewRoutesKept ==
  ASSUME NEW routes \in Seq(Paths), NEW found \in Seq(Paths), NEW p
  PROVE  /\ NewRoutes(routes, found, p) \in Seq(Paths)
         /\ Distinct(found) => Distinct(NewRoutes(routes, found, p))
         /\ \A n \in 1..Len(NewRoutes(routes, found, p)) :
              /\ \E j \in 1..Len(found) : NewRoutes(routes, found, p)[n] = found[j]
              /\ \A i \in 1..Len(routes) : routes[i] # NewRoutes(routes, found, p)[n]
         /\ \A j \in 1..Len(found) :
              Touches(found[j], p) =>
                Has(routes, found[j]) \/ Has(NewRoutes(routes, found, p), found[j])
  <1> DEFINE N == Len(found)
             T == Seq(Paths)
             IsNew(r) == /\ \E h \in DOMAIN r : r[h].pool = p
                         /\ \A i \in DOMAIN routes : routes[i] # r
             Go(k, s) == IF IsNew(found[k]) THEN Append(s, found[k]) ELSE s
             F == [k \in 1..N |-> [s \in T |-> Go(k, s)]]
             E(e) == e = [k \in 0..N |-> IF k = 0 THEN <<>> ELSE Go(k, e[k - 1])]
             Kept(k) == {s \in T : /\ Distinct(found) => Distinct(s)
                                   /\ \A n \in 1..Len(s) :
                                        \E j \in 1..k : s[n] = found[j] /\ IsNew(found[j])
                                   /\ \A j \in 1..k : IsNew(found[j]) => Has(s, found[j])}
  <1>0. N \in Nat /\ <<>> \in T
    OBVIOUS
  <1>1. \A k \in 1..N, s \in T : Go(k, s) \in T
    OBVIOUS
  <1>2. F \in [1..N -> [T -> T]]
    <2>. HIDE DEF Go, N, T
    <2>. QED
      BY <1>1
  <1>3. PICK h \in [0..N -> T] : IsFold(h, N, <<>>, F)
    <2>. HIDE DEF F, N, T
    <2>. QED
      BY ONLY <1>0, <1>2, FoldExists
  <1>4. E(h)
    <2>. HIDE DEF N, Go, T
    <2>1. \A k \in 1..N : h[k] = Go(k, h[k - 1])
      <3> SUFFICES ASSUME NEW k \in 1..N PROVE h[k] = Go(k, h[k - 1])
        OBVIOUS
      <3>1. h[k - 1] \in T
        BY <1>0
      <3>. QED
        BY <1>3, <3>1 DEF IsFold
    <2>. QED
      BY <1>0, <1>3, <2>1 DEF IsFold
  <1> DEFINE kept == CHOOSE e : E(e)
  <1>5. E(kept)
    <2>. HIDE DEF E
    <2>. QED
      BY <1>4
  <1>6. kept[0] = <<>> /\ \A k \in 1..N : kept[k] = Go(k, kept[k - 1])
    <2>. HIDE DEF kept, Go, N
    <2>. QED
      BY <1>0, <1>5
  <1>7. kept[N] \in Kept(N)
    <2> DEFINE S == [k \in 0..N |-> Kept(k)]
    <2>. HIDE DEF kept
    <2>1. kept[0] \in S[0]
      BY <1>0, <1>6 DEF Distinct
    <2>2. \A k \in 1..N : kept[k - 1] \in S[k - 1] => kept[k] \in S[k]
      <3> SUFFICES ASSUME NEW k \in 1..N, kept[k - 1] \in S[k - 1] PROVE kept[k] \in S[k]
        OBVIOUS
      <3>1. k \in 0..N /\ k - 1 \in 0..N
        BY <1>0
      <3> DEFINE s == kept[k - 1]
      <3>2. s \in Kept(k - 1)
        <4>. HIDE DEF Kept
        <4>. QED
          BY <3>1
      <3>. HIDE DEF s, IsNew
      <3>3. /\ s \in T /\ (Distinct(found) => Distinct(s)) /\ Len(s) \in Nat
            /\ \A j \in 1..(k - 1) : IsNew(found[j]) => Has(s, found[j])
            /\ \A n \in 1..Len(s) : \E j \in 1..(k - 1) : s[n] = found[j] /\ IsNew(found[j])
        BY <3>2
      <3>4. CASE IsNew(found[k])
        <4> DEFINE t == Append(s, found[k])
        <4>1. kept[k] = t
          BY <1>6, <3>4 DEF s
        <4>2. /\ t \in T /\ Len(t) = Len(s) + 1 /\ t[Len(s) + 1] = found[k]
              /\ \A n \in 1..Len(s) : t[n] = s[n]
          BY <3>3
        <4>. HIDE DEF t
        <4>3. ASSUME Distinct(found), NEW n \in 1..Len(s) PROVE s[n] # found[k]
          <5>1. PICK j \in 1..(k - 1) : s[n] = found[j]
            BY <3>3
          <5>2. j \in 1..Len(found) /\ k \in 1..Len(found) /\ j # k
            BY <1>0
          <5>. QED
            BY <4>3, <5>1, <5>2 DEF Distinct
        <4>4. \A n \in 1..Len(t) : n \in 1..Len(s) \/ n = Len(s) + 1
          BY <3>3, <4>2
        <4>5. Distinct(found) => Distinct(t)
          BY <3>3, <4>2, <4>3, <4>4, ZenonT(40) DEF Distinct
        <4>6. \A n \in 1..Len(t) : \E j \in 1..k : t[n] = found[j] /\ IsNew(found[j])
          <5> SUFFICES ASSUME NEW n \in 1..Len(t)
                       PROVE  \E j \in 1..k : t[n] = found[j] /\ IsNew(found[j])
            OBVIOUS
          <5>1. CASE n \in 1..Len(s)
            <6>1. PICK j \in 1..(k - 1) : s[n] = found[j] /\ IsNew(found[j])
              BY <3>3, <5>1
            <6>2. j \in 1..k
              OBVIOUS
            <6>. QED
              BY <4>2, <5>1, <6>1, <6>2
          <5>2. CASE n = Len(s) + 1
            BY <3>4, <4>2, <5>2
          <5>. QED
            BY <4>4, <5>1, <5>2
        <4>7. \A j \in 1..k : IsNew(found[j]) => Has(t, found[j])
          <5>0. Len(s) + 1 \in 1..Len(t) /\ \A n \in 1..Len(s) : n \in 1..Len(t)
            BY <3>3, <4>2
          <5>1. Has(t, found[k]) /\ \A r : Has(s, r) => Has(t, r)
            BY <4>2, <5>0 DEF Has
          <5>2. \A j \in 1..k : j \in 1..(k - 1) \/ j = k
            BY <3>1
          <5>. QED
            BY <3>3, <5>1, <5>2
        <4>. QED
          BY <3>1, <4>1, <4>2, <4>5, <4>6, <4>7
      <3>5. CASE ~IsNew(found[k])
        <4>1. kept[k] = s
          BY <1>6, <3>5 DEF s
        <4>2. \A j \in 1..k : j \in 1..(k - 1) \/ j = k
          BY <3>1
        <4>3. \A j \in 1..k : IsNew(found[j]) => Has(s, found[j])
          BY <3>3, <3>5, <4>2
        <4>4. kept[k] \in Kept(k)
          BY <3>3, <4>1, <4>3
        <4>. QED
          BY <3>1, <4>4
      <3>. QED
        BY <3>4, <3>5
    <2>3. \A k \in 0..N : kept[k] \in S[k]
      <3>. HIDE DEF S, N
      <3>. QED
        BY ONLY <1>0, <2>1, <2>2, FoldStays
    <2>. HIDE DEF Kept
    <2>. QED
      BY <1>0, <2>3
  <1>8. NewRoutes(routes, found, p) = kept[N]
    BY DEF NewRoutes
  <1>. QED
    <2>. HIDE DEF kept, IsNew
    <2>1. /\ kept[N] \in Seq(Paths) /\ (Distinct(found) => Distinct(kept[N]))
          /\ \A n \in 1..Len(kept[N]) :
               \E j \in 1..Len(found) : kept[N][n] = found[j] /\ IsNew(found[j])
          /\ \A j \in 1..Len(found) : IsNew(found[j]) => Has(kept[N], found[j])
      BY <1>7
    <2>2. \A r : IsNew(r) => \A i \in 1..Len(routes) : routes[i] # r
      BY DEF IsNew
    <2>3. \A j \in 1..Len(found) : Touches(found[j], p) => Has(routes, found[j]) \/ IsNew(found[j])
      <3> SUFFICES ASSUME NEW j \in 1..Len(found), Touches(found[j], p), ~Has(routes, found[j])
                   PROVE  IsNew(found[j])
        OBVIOUS
      <3>1. DOMAIN found[j] = 1..Len(found[j]) /\ DOMAIN routes = 1..Len(routes)
        BY DEF Paths
      <3>. QED
        BY <3>1 DEF IsNew, Touches, Has
    <2>. HIDE DEF N
    <2>. QED
      BY <1>8, <2>1, <2>2, <2>3

\* Two sequences joined.
LEMMA Joined ==
  ASSUME NEW S, NEW s \in Seq(S), NEW t \in Seq(S)
  PROVE  /\ s \o t \in Seq(S) /\ Len(s \o t) = Len(s) + Len(t)
         /\ \A i \in 1..Len(s) : (s \o t)[i] = s[i]
         /\ \A i \in 1..Len(t) : (s \o t)[Len(s) + i] = t[i]
  OBVIOUS

\* What is left of a sequence behind its first elements.
LEMMA Rest ==
  ASSUME NEW S, NEW s \in Seq(S), NEW n \in 0..Len(s)
  PROVE  /\ SubSeq(s, n + 1, Len(s)) \in Seq(S) /\ Len(SubSeq(s, n + 1, Len(s))) = Len(s) - n
         /\ \A i \in 1..(Len(s) - n) : SubSeq(s, n + 1, Len(s))[i] = s[n + i]
  OBVIOUS

\* The index made long enough for the graph says what it said.
LEMMA Capacity ==
  ASSUME NEW routes \in Seq(Paths), NEW index \in Seq(SUBSET Nat), NEW count \in Nat,
         Exact(routes, index, Len(routes)), \A n \in 1..Len(routes) : Within(routes[n], index)
  PROVE  /\ EnsureCapacity(index, count) \in Seq(SUBSET Nat)
         /\ Len(EnsureCapacity(index, count)) >= count
         /\ Len(EnsureCapacity(index, count)) >= Len(index)
         /\ Exact(routes, EnsureCapacity(index, count), Len(routes))
  <1>1. CASE ~(count > Len(index))
    BY <1>1 DEF EnsureCapacity
  <1>2. CASE count > Len(index)
    <2> DEFINE blank == [i \in 1..(count - Len(index)) |-> {}]
               long == index \o blank
    <2>1. /\ blank \in Seq(SUBSET Nat) /\ Len(blank) = count - Len(index) /\ Len(index) \in Nat
          /\ \A i \in 1..Len(blank) : blank[i] = {}
      BY <1>2
    <2>. HIDE DEF blank
    <2>2. /\ long \in Seq(SUBSET Nat) /\ Len(long) = count
          /\ \A i \in 1..Len(index) : long[i] = index[i]
          /\ \A i \in (Len(index) + 1)..count : long[i] = {}
      <3>1. /\ long \in Seq(SUBSET Nat) /\ Len(long) = Len(index) + Len(blank)
            /\ \A i \in 1..Len(index) : long[i] = index[i]
            /\ \A i \in 1..Len(blank) : long[Len(index) + i] = blank[i]
        BY <2>1, Joined
      <3>2. ASSUME NEW i \in (Len(index) + 1)..count PROVE long[i] = {}
        <4>1. i - Len(index) \in 1..Len(blank) /\ i = Len(index) + (i - Len(index))
          BY <2>1
        <4>. HIDE DEF long
        <4>. QED
          BY <2>1, <3>1, <4>1
      <3>. QED
        BY <2>1, <3>1, <3>2
    <2>. HIDE DEF long
    <2>3. ASSUME NEW p \in 1..count, NEW x
          PROVE  x \in long[p] <=> x \in 1..Len(routes) /\ Touches(routes[x], p)
      <3>1. CASE p \in 1..Len(index)
        BY <2>2, <3>1 DEF Exact
      <3>2. CASE p \in (Len(index) + 1)..count
        <4>1. x \in 1..Len(routes) => ~Touches(routes[x], p)
          BY <3>2 DEF Within, Touches
        <4>. QED
          BY <2>2, <3>2, <4>1
      <3>. QED
        BY <3>1, <3>2
    <2>4. Exact(routes, long, Len(routes))
      BY <2>2, <2>3 DEF Exact
    <2>5. EnsureCapacity(index, count) = long
      BY <1>2 DEF EnsureCapacity, long, blank
    <2>. QED
      BY <1>2, <2>2, <2>4, <2>5
  <1>. QED
    BY <1>1, <1>2

\* Adding a pool's routes leaves a table of the graph.
LEMMA RoutesAddedTo ==
  ASSUME NEW S, NEW g \in Seq(S), NEW t, TableOf(g, t), NEW p
  PROVE  TableOf(g, AddRoutesForPool(t, g, p))
  <1> DEFINE old == t.routes
             n == Len(old)
             found == SearchAll(g, old)
             behind == SubSeq(found, n + 1, Len(found))
             kept == NewRoutes(old, behind, p)
             routes == old \o kept
             long == EnsureCapacity(t.index, Len(g))
             index == Register(long, routes, n + 1)
  <1>1. /\ old \in Seq(Paths) /\ n \in Nat /\ t.index \in Seq(SUBSET Nat)
        /\ BasesOnce => Distinct(old)
        /\ \A i \in 1..n : IsRoute(g, old[i]) /\ Within(old[i], t.index)
        /\ Exact(old, t.index, n)
    BY DEF TableOf
  <1>2. found \in FromBases(g, old, Len(BaseMints))
    BY <1>1, SearchAllMore
  <1>. HIDE DEF found
  <1>3. /\ found \in Seq(Paths) /\ n <= Len(found) /\ Len(found) \in Nat
        /\ \A i \in (n + 1)..Len(found) : IsRoute(g, found[i])
        /\ BasesOnce => \A i, j \in (n + 1)..Len(found) : found[i] = found[j] => i = j
    BY <1>2 DEF FromBases, Added, Begins, IsRoute
  <1>4. /\ behind \in Seq(Paths) /\ Len(behind) = Len(found) - n
        /\ \A i \in 1..Len(behind) : behind[i] = found[n + i]
    <2>1. n \in 0..Len(found)
      BY <1>1, <1>3
    <2>. HIDE DEF n
    <2>. QED
      BY <1>3, <2>1, Rest
  <1>. HIDE DEF behind
  <1>5. (BasesOnce => Distinct(behind)) /\ \A i \in 1..Len(behind) : IsRoute(g, behind[i])
    <2>. HIDE DEF n
    <2>1. \A i \in 1..Len(behind) : n + i \in (n + 1)..Len(found)
      BY <1>1, <1>3, <1>4
    <2>2. \A i \in 1..Len(behind) : IsRoute(g, behind[i])
      BY <1>3, <1>4, <2>1
    <2>3. BasesOnce => \A i, j \in 1..Len(behind) : behind[i] = behind[j] => i = j
      <3> SUFFICES ASSUME BasesOnce, NEW i \in 1..Len(behind), NEW j \in 1..Len(behind),
                          behind[i] = behind[j]
                   PROVE  i = j
        OBVIOUS
      <3>1. n + i = n + j
        <4>1. found[n + i] = found[n + j]
          BY <1>4
        <4>. QED
          BY <1>3, <2>1, <4>1
      <3>. QED
        BY <1>1, <3>1
    <2>. QED
      BY <2>2, <2>3 DEF Distinct
  <1>6. /\ kept \in Seq(Paths) /\ (BasesOnce => Distinct(kept))
        /\ \A i \in 1..Len(kept) : /\ \E j \in 1..Len(behind) : kept[i] = behind[j]
                                   /\ \A j \in 1..n : old[j] # kept[i]
    BY <1>1, <1>4, <1>5, NewRoutesKept, SMTT(40)
  <1>. HIDE DEF kept
  <1>7. \A i \in 1..Len(kept) : IsRoute(g, kept[i])
    BY <1>5, <1>6
  <1>. HIDE DEF old, n
  <1>8. /\ routes \in Seq(Paths) /\ Len(routes) = n + Len(kept) /\ Len(kept) \in Nat
        /\ \A i \in 1..n : routes[i] = old[i]
        /\ \A i \in 1..Len(kept) : routes[n + i] = kept[i]
    BY <1>1, <1>6 DEF n
  <1>. HIDE DEF routes
  <1>9. ASSUME NEW i \in 1..Len(routes)
        PROVE  i \in 1..n \/ \E j \in 1..Len(kept) : i = n + j
    <2>1. i \in 1..n \/ (i - n \in 1..Len(kept) /\ i = n + (i - n))
      BY <1>1, <1>8
    <2>. QED
      BY <2>1
  <1>10. BasesOnce => Distinct(routes)
    <2> SUFFICES ASSUME BasesOnce, NEW i \in 1..Len(routes), NEW j \in 1..Len(routes),
                        routes[i] = routes[j]
                 PROVE  i = j
      BY DEF Distinct
    <2>1. CASE i \in 1..n /\ j \in 1..n
      BY <1>1, <1>8, <2>1 DEF Distinct, n
    <2>2. CASE i \in 1..n /\ j \notin 1..n
      <3>1. PICK x \in 1..Len(kept) : j = n + x
        BY <1>9, <2>2
      <3>2. old[i] = kept[x]
        BY <1>8, <2>2, <3>1
      <3>. QED
        BY <1>6, <2>2, <3>2
    <2>3. CASE i \notin 1..n /\ j \in 1..n
      <3>1. PICK x \in 1..Len(kept) : i = n + x
        BY <1>9, <2>3
      <3>2. old[j] = kept[x]
        BY <1>8, <2>3, <3>1
      <3>. QED
        BY <1>6, <2>3, <3>2
    <2>4. CASE i \notin 1..n /\ j \notin 1..n
      <3>1. PICK x \in 1..Len(kept), y \in 1..Len(kept) : i = n + x /\ j = n + y
        BY <1>9, <2>4
      <3>2. kept[x] = kept[y]
        BY <1>8, <3>1
      <3>. QED
        BY <1>6, <3>1, <3>2 DEF Distinct
    <2>. QED
      BY <2>1, <2>2, <2>3, <2>4
  <1>11. \A i \in 1..Len(routes) : IsRoute(g, routes[i])
    BY <1>1, <1>7, <1>8, <1>9
  <1>12. /\ long \in Seq(SUBSET Nat) /\ Len(long) \in Nat
         /\ Len(long) >= Len(g) /\ Len(long) >= Len(t.index)
         /\ Exact(old, long, n)
    BY <1>1, Capacity DEF n
  <1>. HIDE DEF long
  <1>13. Exact(routes, long, (n + 1) - 1)
    <2>1. (n + 1) - 1 = n /\ \A x \in 1..n : routes[x] = old[x]
      BY <1>1, <1>8
    <2>2. Exact(old, long, n)
      BY <1>12
    <2>. QED
      BY <2>1, <2>2 DEF Exact
  <1>14. index \in Seq(SUBSET Nat) /\ Len(index) = Len(long) /\ Exact(routes, index, Len(routes))
    <2>1. n + 1 \in Nat \ {0} /\ n + 1 <= Len(routes) + 1
      BY <1>1, <1>8
    <2>. QED
      BY <1>8, <1>12, <1>13, <2>1, RegisterExact
  <1>. HIDE DEF index
  <1>15. \A i \in 1..Len(routes) : Within(routes[i], index)
    <2>1. \A x : x \in 1..Len(g) => x \in 1..Len(index)
      BY <1>12, <1>14
    <2>. QED
      BY <1>11, <2>1, RoutePools DEF Within
  <1>16. AddRoutesForPool(t, g, p) = [routes |-> routes, index |-> index]
    BY DEF AddRoutesForPool, old, n, found, behind, kept, routes, long, index
  <1>. QED
    BY <1>8, <1>10, <1>11, <1>14, <1>15, <1>16 DEF TableOf

-----------------------------------------------------------------------------
(* The graph.                                                                 *)

\* A graph has each pool once.
GraphOK(g) ==
  g \in Seq(Entries) /\ \A i, j \in 1..Len(g) : g[i].addr = g[j].addr => i = j

\* A pool keeps its number, address and mints.
GrewTo(g, h) ==
  /\ Len(g) <= Len(h)
  /\ \A i \in 1..Len(g) : h[i].addr = g[i].addr /\ h[i].a = g[i].a /\ h[i].b = g[i].b

\* What was a table of the graph is one when the graph has grown.
LEMMA TableOfGrown ==
  ASSUME NEW S, NEW g \in Seq(S), NEW h \in Seq(S), GrewTo(g, h), NEW t, TableOf(g, t)
  PROVE  TableOf(h, t)
  <1>1. ASSUME NEW b, NEW r, Closed(g, b, r) PROVE Closed(h, b, r)
    <2>1. /\ r \in Paths /\ Len(r) \in 2..MaxHops /\ \A i \in 1..Len(r) : r[i].pool \in 1..Len(g)
      BY <1>1 DEF Closed, Trail
    <2>2. \A i \in 1..Len(r) :
            /\ r[i].pool \in 1..Len(h)
            /\ Target(h, r[i]) = Target(g, r[i]) /\ Source(h, r[i]) = Source(g, r[i])
      BY <2>1 DEF GrewTo, Target, Source
    <2>3. /\ Len(r) \in 1..Len(r) /\ 1 \in 1..Len(r) /\ Len(r) # 1
          /\ \A i \in 1..(Len(r) - 1) : i \in 1..Len(r) /\ i + 1 \in 1..Len(r)
      BY <2>1, RouteAssumption
    <2>4. Trail(h, b, r)
      BY <1>1, <2>2, <2>3 DEF Closed, Trail
    <2>. QED
      BY <1>1, <2>2, <2>3, <2>4 DEF Closed
  <1>. QED
    BY <1>1 DEF TableOf, IsRoute

\* The upsert: a known pool is updated where it stands, a new one comes last.
LEMMA PoolAdded ==
  ASSUME NEW g, GraphOK(g), NEW u \in Entries
  PROVE  GraphOK(AddPool(g, u)) /\ GrewTo(g, AddPool(g, u))
  <1>0. g \in Seq(Entries) /\ Len(g) \in Nat /\ DOMAIN g = 1..Len(g)
    BY DEF GraphOK
  <1>1. CASE Knows(g, u.addr)
    <2> DEFINE n == Number(g, u.addr)
               x == Updated(g[n], u)
               h == [g EXCEPT ![n] = x]
    <2>1. n \in 1..Len(g)
      BY <1>0, <1>1 DEF Knows, Number
    <2>2. g[n] \in Entries
      BY <1>0, <2>1
    <2>3. x \in Entries /\ x.addr = g[n].addr /\ x.a = g[n].a /\ x.b = g[n].b
      BY <2>2 DEF Updated, Entries
    <2>4. AddPool(g, u) = h
      BY <1>1 DEF AddPool
    <2>. HIDE DEF n, x
    <2>5. /\ h \in Seq(Entries) /\ Len(h) = Len(g)
          /\ \A i \in 1..Len(g) : h[i] = IF i = n THEN x ELSE g[i]
      BY <1>0, <2>1, <2>3
    <2>. HIDE DEF h
    <2>6. \A i \in 1..Len(g) : h[i].addr = g[i].addr /\ h[i].a = g[i].a /\ h[i].b = g[i].b
      BY <2>3, <2>5
    <2>. QED
      BY <1>0, <2>4, <2>5, <2>6 DEF GraphOK, GrewTo
  <1>2. CASE ~Knows(g, u.addr)
    <2> DEFINE h == Append(g, u)
    <2>1. AddPool(g, u) = h
      BY <1>2 DEF AddPool
    <2>2. /\ h \in Seq(Entries) /\ Len(h) = Len(g) + 1 /\ h[Len(g) + 1] = u
          /\ \A i \in 1..Len(g) : h[i] = g[i]
      BY <1>0
    <2>3. \A i \in 1..Len(g) : g[i].addr # u.addr
      BY <1>0, <1>2 DEF Knows
    <2>4. \A i \in 1..Len(h) : i \in 1..Len(g) \/ i = Len(g) + 1
      BY <1>0, <2>2
    <2>. HIDE DEF h
    <2>5. \A i, j \in 1..Len(h) : h[i].addr = h[j].addr => i = j
      BY <2>2, <2>3, <2>4 DEF GraphOK
    <2>. QED
      BY <1>0, <2>1, <2>2, <2>5 DEF GraphOK, GrewTo
  <1>. QED
    BY <1>1, <1>2

\* What a graph may become.
Grown(g) == {h \in Seq(Entries) : GraphOK(h) /\ GrewTo(g, h)}

\* Updating grows what had grown.
LEMMA GrownMore ==
  ASSUME NEW g \in Seq(Entries), NEW h \in Grown(g), NEW u \in Entries
  PROVE  AddPool(h, u) \in Grown(g)
  <1> DEFINE i == AddPool(h, u)
  <1>1. GraphOK(i) /\ GrewTo(h, i) /\ GrewTo(g, h)
    BY PoolAdded DEF Grown
  <1>2. i \in Seq(Entries) /\ h \in Seq(Entries)
    BY <1>1 DEF GraphOK, Grown
  <1>. HIDE DEF i
  <1>3. GrewTo(g, i)
    BY <1>1, <1>2 DEF GrewTo
  <1>. QED
    BY <1>1, <1>2, <1>3 DEF Grown, i

\* So does taking the rest of the queue.
LEMMA DrainedGrown ==
  ASSUME NEW g, GraphOK(g), NEW rest \in Seq(Entries)
  PROVE  GraphOK(Drained(g, rest)) /\ GrewTo(g, Drained(g, rest))
  <1> DEFINE N == Len(rest)
             S == Grown(g)
             F == [k \in 1..N |-> [h \in S |-> AddPool(h, rest[k])]]
             E(e) == e = [k \in 0..N |-> IF k = 0 THEN g ELSE AddPool(e[k - 1], rest[k])]
             SS == [k \in 0..N |-> S]
  <1>0. N \in Nat /\ g \in Seq(Entries) /\ g \in S
    BY DEF GraphOK, Grown, GrewTo
  <1>1. \A k \in 1..N, h \in S : AddPool(h, rest[k]) \in S
    BY <1>0, GrownMore
  <1>2. F \in [1..N -> [S -> S]]
    <2>. HIDE DEF S, N
    <2>. QED
      BY <1>1
  <1>3. PICK h \in [0..N -> S] : IsFold(h, N, g, F)
    <2>. HIDE DEF F, N, S
    <2>. QED
      BY ONLY <1>0, <1>2, FoldExists
  <1>4. E(h)
    <2>. HIDE DEF S, N
    <2>1. \A k \in 1..N : h[k] = AddPool(h[k - 1], rest[k])
      <3> SUFFICES ASSUME NEW k \in 1..N PROVE h[k] = AddPool(h[k - 1], rest[k])
        OBVIOUS
      <3>1. h[k - 1] \in S
        BY <1>0
      <3>. QED
        BY <1>3, <3>1 DEF IsFold
    <2>. QED
      BY <1>0, <1>3, <2>1 DEF IsFold
  <1> DEFINE after == CHOOSE e : E(e)
  <1>5. E(after)
    <2>. HIDE DEF E
    <2>. QED
      BY <1>4
  <1>6. after[0] = g /\ \A k \in 1..N : after[k] = AddPool(after[k - 1], rest[k])
    <2>. HIDE DEF after, N
    <2>. QED
      BY <1>0, <1>5
  <1>7. after[N] \in S
    <2>. HIDE DEF after, S, N
    <2>1. SS[0] = S /\ \A k \in 1..N : SS[k - 1] = S /\ SS[k] = S
      BY <1>0
    <2>2. after[0] \in SS[0] /\ \A k \in 1..N : after[k - 1] \in SS[k - 1] => after[k] \in SS[k]
      BY <1>0, <1>1, <1>6, <2>1
    <2>3. \A k \in 0..N : after[k] \in SS[k]
      <3>. HIDE DEF SS
      <3>. QED
        BY ONLY <1>0, <2>2, FoldStays
    <2>. QED
      BY <1>0, <2>3
  <1>8. Drained(g, rest) = after[N]
    BY DEF Drained
  <1>. QED
    <2>. HIDE DEF after
    <2>. QED
      BY <1>7, <1>8 DEF Grown

-----------------------------------------------------------------------------
(* The task.                                                                  *)

\* Updates are entries, and the table is one of the graph, which may have grown since.
TableInv ==
  /\ queue \in Seq(Entries) /\ feed \in Seq(Entries)
  /\ GraphOK(graph)
  /\ TableOf(graph, table)

\* At first there is nothing.
LEMMA TableInit == Init => TableInv
  <1> SUFFICES ASSUME Init PROVE TableInv
    OBVIOUS
  <1>1. GraphOK(graph)
    BY DEF Init, GraphOK
  <1>. QED
    BY <1>1, EmptyTableOf, StreamsAssumption DEF Init, TableInv

\* Handling an update: the graph gets it, the table becomes one of that graph, and the
\* rest of the queue makes the graph grow behind it.
LEMMA HandledTable ==
  ASSUME TableInv, queue # <<>>, NEW t,
         TableOf(AddPool(graph, Head(queue)), t)
  PROVE  /\ GraphOK(Drained(AddPool(graph, Head(queue)), Tail(queue)))
         /\ TableOf(Drained(AddPool(graph, Head(queue)), Tail(queue)), t)
  <1> DEFINE g == AddPool(graph, Head(queue))
             h == Drained(g, Tail(queue))
  <1>1. Head(queue) \in Entries /\ Tail(queue) \in Seq(Entries)
    BY DEF TableInv
  <1>2. GraphOK(g)
    BY <1>1, PoolAdded DEF TableInv
  <1>. HIDE DEF g
  <1>3. GraphOK(h) /\ GrewTo(g, h)
    BY <1>1, <1>2, DrainedGrown
  <1>. HIDE DEF h
  <1>4. g \in Seq(Entries) /\ h \in Seq(Entries) /\ TableOf(g, t)
    BY <1>2, <1>3 DEF GraphOK, g
  <1>5. TableOf(h, t)
    BY <1>3, <1>4, TableOfGrown
  <1>. QED
    BY <1>3, <1>5 DEF g, h

\* The table was one of the graph with the update, too.
LEMMA TableWithUpdate ==
  ASSUME TableInv, queue # <<>>
  PROVE  /\ AddPool(graph, Head(queue)) \in Seq(Entries)
         /\ TableOf(AddPool(graph, Head(queue)), table)
  <1> DEFINE g == AddPool(graph, Head(queue))
  <1>1. GraphOK(g) /\ GrewTo(graph, g)
    BY PoolAdded DEF TableInv
  <1>. HIDE DEF g
  <1>2. g \in Seq(Entries) /\ graph \in Seq(Entries) /\ TableOf(graph, table)
    BY <1>1 DEF TableInv, GraphOK
  <1>3. TableOf(g, table)
    BY <1>1, <1>2, TableOfGrown
  <1>. QED
    BY <1>2, <1>3 DEF g

\* Only the two handlers write the graph and the table, and only they and Send a sequence.
LEMMA TableStep ==
  ASSUME TableInv, [Next]_vars PROVE TableInv'
  <1>1. CASE HandleWarmup
    <2> DEFINE g == AddPool(graph, Head(queue))
    <2>1. queue # <<>> /\ queue' = <<>> /\ feed' = feed
      BY <1>1 DEF HandleWarmup
    <2>2. graph' = Drained(g, Tail(queue)) /\ table' \in {BuildFromGraph(g), table}
      BY <1>1 DEF HandleWarmup
    <2>3. TableOf(g, table')
      BY <2>1, <2>2, TableWithUpdate, Built
    <2>4. GraphOK(graph') /\ TableOf(graph', table')
      BY <2>1, <2>2, <2>3, HandledTable
    <2>. QED
      BY <2>1, <2>4 DEF TableInv, GraphOK, TableOf
  <1>2. CASE HandleUpdate
    <2> DEFINE g == AddPool(graph, Head(queue))
    <2>1. queue # <<>> /\ queue' = <<>> /\ feed' = feed
      BY <1>2 DEF HandleUpdate
    <2>2. graph' = Drained(g, Tail(queue)) /\ table' = Routed(table, graph, Head(queue))
      BY <1>2 DEF HandleUpdate
    <2>3. TableOf(g, table')
      BY <2>1, <2>2, TableWithUpdate, RoutesAddedTo DEF Routed
    <2>4. GraphOK(graph') /\ TableOf(graph', table')
      BY <2>1, <2>2, <2>3, HandledTable
    <2>. QED
      BY <2>1, <2>4 DEF TableInv
  <1>3. CASE Send
    <2>1. feed # <<>> /\ queue' = Append(queue, Head(feed)) /\ feed' = Tail(feed)
      BY <1>3 DEF Send
    <2>2. queue' \in Seq(Entries) /\ feed' \in Seq(Entries)
      BY <2>1 DEF TableInv
    <2>3. graph' = graph /\ table' = table
      BY <1>3 DEF Send
    <2>. QED
      BY <2>2, <2>3 DEF TableInv
  <1>4. CASE FullScan \/ Receive \/ Done \/ Second \/ UNCHANGED vars
    <2>1. queue' = queue /\ feed' = feed /\ graph' = graph /\ table' = table
      BY <1>4 DEF FullScan, Receive, Done, Second, vars
    <2>. QED
      BY <2>1 DEF TableInv
  <1>. QED
    BY <1>1, <1>2, <1>3, <1>4 DEF Next

\* The invariant is what the run checks.
LEMMA TableInvSound == ASSUME BasesOnce, TableInv PROVE TableSound
  <1>1. /\ table.routes \in Seq(Paths) /\ table.index \in Seq(SUBSET Nat)
        /\ \A n \in 1..Len(table.routes) :
             IsRoute(graph, table.routes[n]) /\ Within(table.routes[n], table.index)
        /\ Distinct(table.routes) /\ Exact(table.routes, table.index, Len(table.routes))
    BY DEF TableInv, TableOf
  <1>2. \A i, j \in DOMAIN graph : graph[i].addr = graph[j].addr => i = j
    BY DEF TableInv, GraphOK
  <1>3. ASSUME NEW n \in DOMAIN table.routes
        PROVE  /\ IsCycle(graph, table.routes[n])
               /\ \A k \in DOMAIN table.routes : table.routes[k] = table.routes[n] => k = n
               /\ \A i \in DOMAIN table.routes[n] :
                    n \in RoutesForPool(table, table.routes[n][i].pool)
    <2> DEFINE r == table.routes[n]
    <2>1. n \in 1..Len(table.routes) /\ r \in Paths /\ DOMAIN r = 1..Len(r) /\ Len(r) \in Nat
      BY <1>1 DEF Paths
    <2>2. PICK b \in Range(BaseMints) : Closed(graph, b, r)
      <3>1. PICK j \in 1..Len(BaseMints) : Closed(graph, BaseMints[j], r)
        BY <1>1, <2>1 DEF IsRoute
      <3>2. BaseMints[j] \in Range(BaseMints)
        BY RouteAssumption DEF Range
      <3>. QED
        BY <3>1, <3>2
    <2>3. IsCycle(graph, r)
      <3>. HIDE DEF r
      <3>. QED
        BY <2>1, <2>2 DEF IsCycle, Closed, Trail
    <2>4. \A k \in DOMAIN table.routes : table.routes[k] = r => k = n
      BY <1>1, <2>1 DEF Distinct
    <2>5. ASSUME NEW i \in DOMAIN r PROVE n \in RoutesForPool(table, r[i].pool)
      <3>1. r[i].pool \in 1..Len(table.index) /\ Touches(r, r[i].pool)
        BY <1>1, <2>1 DEF Within, Touches
      <3>2. n \in table.index[r[i].pool]
        BY <1>1, <2>1, <3>1 DEF Exact
      <3>. QED
        BY <1>1, <3>1, <3>2 DEF RoutesForPool
    <2>. QED
      BY <2>3, <2>4, <2>5
  <1>4. ASSUME NEW p \in DOMAIN table.index, NEW n \in table.index[p]
        PROVE  \E i \in DOMAIN table.routes[n] : table.routes[n][i].pool = p
    <2>1. n \in 1..Len(table.routes) /\ Touches(table.routes[n], p)
      BY <1>1 DEF Exact
    <2>. QED
      BY <1>1, <2>1 DEF Touches, Paths
  <1>. QED
    BY <1>2, <1>3, <1>4 DEF TableSound

\* TableSound for any market: the graph has each pool once, every route of the table is a
\* cycle of at most max_hops hops over different pools from a base mint, none is there
\* twice, and the index leads from a pool to exactly the routes through it.
THEOREM TableAlwaysSound == ASSUME BasesOnce PROVE Spec => []TableSound
  <1>1. Init => TableInv
    BY TableInit
  <1>2. TableInv /\ [Next]_vars => TableInv'
    BY TableStep
  <1>3. TableInv => TableSound
    BY TableInvSound
  <1>. QED
    BY <1>1, <1>2, <1>3, PTL DEF Spec

-----------------------------------------------------------------------------
(* Completeness.                                                              *)

\* The reference: an affordable cycle is what the search of its base wants.
LEMMA CycleWanted ==
  ASSUME NEW S, NEW g \in Seq(S), NEW c \in Cycles(g)
  PROVE  \E j \in 1..Len(BaseMints) : Wanted(g, BaseMints[j], c)
  <1>1. PICK n \in 2..MaxHops : c \in [1..n -> [pool : DOMAIN g, aToB : BOOLEAN]]
    BY DEF Cycles
  <1>2. IsCycle(g, c) /\ \A i \in DOMAIN c : ~TooExpensive(g[c[i].pool].math)
    BY DEF Cycles
  <1>3. DOMAIN g = 1..Len(g) /\ Len(g) \in Nat /\ MaxHops \in Nat
    BY RouteAssumption
  <1>4. n \in Nat /\ n >= 2 /\ n <= MaxHops
    BY <1>1, <1>3
  <1>5. ASSUME NEW i \in 1..n PROVE c[i] \in Hop /\ c[i].pool \in 1..Len(g)
    BY <1>1, <1>3 DEF Hop
  <1>6. c \in Paths /\ Len(c) = n /\ DOMAIN c = 1..n
    <2>1. c \in [1..n -> Hop]
      BY <1>1, <1>5
    <2>. QED
      BY <1>4, <2>1 DEF Paths
  <1>7. PICK b \in Range(BaseMints) :
               /\ Source(g, c[1]) = b /\ Target(g, c[Len(c)]) = b
               /\ \A i \in 1..(Len(c) - 1) : Target(g, c[i]) # b
    BY <1>2 DEF IsCycle
  <1>8. PICK j \in 1..Len(BaseMints) : BaseMints[j] = b
    BY RouteAssumption DEF Range
  <1>9. Trail(g, b, c)
    <2>1. \A i \in 1..(Len(c) - 1) : Target(g, c[i]) = Source(g, c[i + 1])
      BY <1>2 DEF IsCycle
    <2>2. \A i, k \in 1..Len(c) : c[i].pool = c[k].pool => i = k
      BY <1>2, <1>6 DEF IsCycle
    <2>3. Len(c) > 0 /\ Len(c) # 1
      BY <1>4, <1>6
    <2>. QED
      BY <1>5, <1>6, <1>7, <2>1, <2>2, <2>3 DEF Trail
  <1>10. Len(c) \in 2..MaxHops
    BY <1>3, <1>4, <1>6
  <1>11. Wanted(g, b, c)
    BY <1>2, <1>6, <1>7, <1>9, <1>10 DEF Wanted, Closed
  <1>. QED
    BY <1>8, <1>11

\* Adding a pool's routes keeps those there were, and below the cap all affordable
\* cycles through the pool are there.
LEMMA RoutesComplete ==
  ASSUME NEW S, NEW g \in Seq(S), NEW t, t.routes \in Seq(Paths), NEW p
  PROVE  /\ \A n \in 1..Len(t.routes) : AddRoutesForPool(t, g, p).routes[n] = t.routes[n]
         /\ Len(SearchAll(g, t.routes)) < MaxRoutes =>
              \A c \in Cycles(g) : Touches(c, p) => Has(AddRoutesForPool(t, g, p).routes, c)
  <1> DEFINE old == t.routes
             n == Len(old)
             found == SearchAll(g, old)
             behind == SubSeq(found, n + 1, Len(found))
             kept == NewRoutes(old, behind, p)
             routes == old \o kept
  <1>1. found \in FromBases(g, old, Len(BaseMints))
    BY SearchAllMore
  <1>. HIDE DEF found
  <1>2. n \in Nat /\ found \in Seq(Paths) /\ n <= Len(found) /\ \A i \in 1..n : found[i] = old[i]
    BY <1>1 DEF FromBases, Begins
  <1>3. /\ behind \in Seq(Paths) /\ Len(behind) = Len(found) - n
        /\ \A i \in 1..Len(behind) : behind[i] = found[n + i]
    <2>1. n \in 0..Len(found)
      BY <1>2
    <2>. HIDE DEF n
    <2>. QED
      BY <1>2, <2>1, Rest
  <1>. HIDE DEF behind
  <1>4. /\ kept \in Seq(Paths)
        /\ \A j \in 1..Len(behind) :
             Touches(behind[j], p) => Has(old, behind[j]) \/ Has(kept, behind[j])
    BY <1>3, NewRoutesKept
  <1>. HIDE DEF kept
  <1>5. /\ routes \in Seq(Paths) /\ Len(routes) = n + Len(kept) /\ Len(kept) \in Nat
        /\ \A i \in 1..n : routes[i] = old[i]
        /\ \A i \in 1..Len(kept) : routes[n + i] = kept[i]
    BY <1>4, Joined
  <1>6. AddRoutesForPool(t, g, p).routes = routes
    BY DEF AddRoutesForPool, old, n, found, behind, kept
  <1>. HIDE DEF routes, old
  <1>7. \A c : Has(old, c) \/ Has(kept, c) => Has(routes, c)
    <2>1. ASSUME NEW c, Has(old, c) PROVE Has(routes, c)
      <3>1. PICK i \in 1..n : old[i] = c
        BY <2>1 DEF Has
      <3>2. i \in 1..Len(routes)
        BY <1>2, <1>5
      <3>. QED
        BY <1>5, <3>1, <3>2 DEF Has
    <2>2. ASSUME NEW c, Has(kept, c) PROVE Has(routes, c)
      <3>1. PICK i \in 1..Len(kept) : kept[i] = c
        BY <2>2 DEF Has
      <3>2. n + i \in 1..Len(routes)
        BY <1>2, <1>5
      <3>. QED
        BY <1>5, <3>1, <3>2 DEF Has
    <2>. QED
      BY <2>1, <2>2
  <1>8. ASSUME Len(found) < MaxRoutes, NEW c \in Cycles(g), Touches(c, p) PROVE Has(routes, c)
    <2>1. PICK j \in 1..Len(BaseMints) : Wanted(g, BaseMints[j], c)
      BY CycleWanted
    <2>2. Begins(<<>>, c)
      BY <2>1 DEF Wanted, Closed, Trail, Paths, Begins
    <2>3. Has(found, c)
      BY <1>1, <1>8, <2>1, <2>2 DEF FromBases, HasAll
    <2>4. PICK i \in 1..Len(found) : found[i] = c
      BY <2>3 DEF Has
    <2>5. CASE i \in 1..n
      <3>1. Has(old, c)
        BY <1>2, <2>4, <2>5 DEF Has
      <3>. QED
        BY <1>7, <3>1
    <2>6. CASE i \notin 1..n
      <3>1. i - n \in 1..Len(behind) /\ n + (i - n) = i
        BY <1>2, <1>3, <2>6
      <3>2. behind[i - n] = c
        BY <1>3, <2>4, <3>1
      <3>. QED
        BY <1>4, <1>7, <1>8, <3>1, <3>2
    <2>. QED
      BY <2>5, <2>6
  <1>. QED
    BY <1>5, <1>6, <1>8 DEF old, found, n

\* A handled update gets its routes, and no other step of a running task changes them.
LEMMA AddedStep == ASSUME TableInv, TableInv', [Next]_vars PROVE GetsItsRoutes
  <1> DEFINE u == Head(queue)
             g == AddPool(graph, u)
             p == Number(g, u.addr)
             Kept == phase = "running" =>
                       \A n \in DOMAIN table.routes : table'.routes[n] = table.routes[n]
             All == (queue # <<>> /\ queue' = <<>> /\ phase = "running") =>
                      (/\ ~Knows(graph, u.addr) \/ Revives(graph, u)
                       /\ Len(SearchAll(g, table.routes)) < MaxRoutes
                       => {r \in Cycles(g) : p \in Range(Key(r))} \subseteq Range(table'.routes))
  <1> SUFFICES Kept /\ All
    BY DEF GetsItsRoutes
  <1>1. CASE HandleUpdate
    <2>1. queue # <<>> /\ table' = Routed(table, graph, u)
      BY <1>1 DEF HandleUpdate
    <2>2. table.routes \in Seq(Paths) /\ g \in Seq(Entries)
      BY <2>1, TableWithUpdate DEF TableOf
    <2>. HIDE DEF u, g, p
    <2>3. table' = table \/ table' = AddRoutesForPool(table, g, p)
      BY <2>1 DEF Routed, g, p
    <2>4. Kept
      BY <2>2, <2>3, RoutesComplete
    <2>5. ASSUME ~Knows(graph, u.addr) \/ Revives(graph, u),
                 Len(SearchAll(g, table.routes)) < MaxRoutes,
                 NEW c \in Cycles(g), p \in Range(Key(c))
          PROVE  c \in Range(table'.routes)
      <3>1. table' = AddRoutesForPool(table, g, p)
        BY <2>1, <2>5 DEF Routed, g, p
      <3>2. c \in Paths
        BY <2>2, CycleWanted DEF Wanted, Closed, Trail
      <3>3. Touches(c, p)
        BY <2>5, <3>2 DEF Key, Range, Touches, Paths
      <3>4. Has(table'.routes, c)
        BY <2>2, <2>5, <3>1, <3>3, RoutesComplete
      <3>5. table'.routes \in Seq(Paths)
        BY DEF TableInv, TableOf
      <3>. QED
        BY <3>4, <3>5 DEF Has, Range
    <2>. QED
      BY <2>4, <2>5
  <1>2. CASE HandleWarmup
    BY <1>2 DEF HandleWarmup
  <1>3. CASE FullScan \/ Send \/ Receive \/ Done \/ Second \/ UNCHANGED vars
    <2>1. table' = table /\ (queue' = queue \/ queue' = Append(queue, Head(feed)))
      BY <1>3 DEF FullScan, Send, Receive, Done, Second, vars
    <2>2. queue # <<>> => queue' # <<>>
      BY <2>1 DEF TableInv
    <2>. QED
      BY <2>1, <2>2
  <1>. QED
    BY <1>1, <1>2, <1>3 DEF Next

\* RoutesAdded for any market: a pool handled while running, new or come to life, has all
\* its affordable routes afterwards, unless the search met its cap, and no step loses one.
THEOREM RoutesAlwaysAdded == Spec => RoutesAdded
  <1>1. Init => TableInv
    BY TableInit
  <1>2. TableInv /\ [Next]_vars => TableInv'
    BY TableStep
  <1>3. TableInv /\ TableInv' /\ [Next]_vars => GetsItsRoutes
    BY AddedStep
  <1>. QED
    BY <1>1, <1>2, <1>3, PTL DEF Spec, RoutesAdded
=============================================================================
