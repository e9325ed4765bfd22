----------------------------- MODULE RouteTable ------------------------------
(* engine/src/route.rs: the routes found in the graph and, for each pool, the     *)
(* numbers of the routes through it.  A table is [routes, index].                *)
EXTENDS TokenGraph

CONSTANTS
  BaseMints,    \* the sequence of mints a route starts and ends at
  MaxHops,      \* max_hops; a route holds at most 4 hops
  MaxRoutes     \* the cap of the search (50_000)

ASSUME RouteAssumption ==
  MaxHops \in 1..4 /\ MaxRoutes \in Nat /\ BaseMints \in Seq(Range(BaseMints))

Hop   == [pool : Nat, aToB : BOOLEAN]
Paths == Seq(Hop)

\* What keeps an edge out of a path.
Usable(g, base, path, hop) ==
  /\ \A i \in DOMAIN path : path[i].pool # hop.pool
  /\ ~TooExpensive(g[hop.pool].math)
  /\ ~(Target(g, hop) = base /\ Len(path) < 1)

\* Where the search is after a path.
Node(g, base, path) == IF path = <<>> THEN base ELSE Target(g, path[Len(path)])

\* The edges of the node are tried in turn; `deeper` is the search from the next node.
Tried(g, base, path, found, deeper) ==
  LET each[k \in 0..(2 * Len(g))] ==
        IF k = 0 THEN found
        ELSE IF Source(g, Edge(k)) = Node(g, base, path) /\ Usable(g, base, path, Edge(k))
        THEN deeper[Append(path, Edge(k))][each[k - 1]]
        ELSE each[k - 1]
  IN  each[2 * Len(g)]

\* One call: `found` grows by the routes through `path` that close at the base.
Visited(g, base, left, deeper) ==
  [path \in Paths |-> [found \in Seq(Paths) |->
     IF Len(found) >= MaxRoutes THEN found
     ELSE IF Len(path) >= 2 /\ Node(g, base, path) = base THEN Append(found, path)
     ELSE IF left = 0 THEN found
     ELSE Tried(g, base, path, found, deeper)]]

\* The depth-first search, by the number of hops that are left.
Dfs(g, base) ==
  LET dfs[left \in 0..MaxHops] == Visited(g, base, left, IF left = 0 THEN <<>> ELSE dfs[left - 1])
  IN  dfs[MaxHops]

\* The search from every base mint the graph knows.
SearchAll(g, found) ==
  LET after[k \in 0..Len(BaseMints)] ==
        IF k = 0 THEN found ELSE Dfs(g, BaseMints[k])[<<>>][after[k - 1]]
  IN  after[Len(BaseMints)]

\* Mutant: the last pool of the index is overlooked.
RegisterShort(index, routes, from) ==
  [i \in DOMAIN index |->
     index[i] \cup {n \in from..Len(routes) :
                      i < Len(index) /\ \E h \in DOMAIN routes[n] : routes[n][h].pool = i}]

\* register_route for the routes from the given number on: pools beyond the index are
\* passed over.
Register(index, routes, from) ==
  [i \in DOMAIN index |->
     index[i] \cup {n \in from..Len(routes) : \E h \in DOMAIN routes[n] : routes[n][h].pool = i}]

EmptyTable == [routes |-> <<>>, index |-> <<>>]

BuildFromGraph(g) ==
  LET found == SearchAll(g, <<>>)
  IN  [routes |-> found, index |-> Register([i \in DOMAIN g |-> {}], found, 1)]

EnsureCapacity(index, count) ==
  IF count > Len(index) THEN index \o [i \in 1..(count - Len(index)) |-> {}] ELSE index

\* Of what the second search found, the routes through the pool that are not known.
NewRoutes(routes, found, p) ==
  LET IsNew(r) == /\ \E h \in DOMAIN r : r[h].pool = p
                  /\ \A i \in DOMAIN routes : routes[i] # r
      kept[k \in 0..Len(found)] ==
        IF k = 0 THEN <<>>
        ELSE IF IsNew(found[k]) THEN Append(kept[k - 1], found[k]) ELSE kept[k - 1]
  IN  kept[Len(found)]

\* add_routes_for_pool: the whole search again, behind the routes already there, whose
\* number counts against the cap.
AddRoutesForPool(t, g, p) ==
  LET found  == SearchAll(g, t.routes)
      routes == t.routes \o NewRoutes(t.routes, SubSeq(found, Len(t.routes) + 1, Len(found)), p)
  IN  [routes |-> routes,
       index  |-> Register(EnsureCapacity(t.index, Len(g)), routes, Len(t.routes) + 1)]

RoutesForPool(t, p) == IF p \in DOMAIN t.index THEN t.index[p] ELSE {}

-----------------------------------------------------------------------------
(* The reference: what a route is, without a search.                          *)

IsCycle(g, r) ==
  /\ Len(r) \in 2..MaxHops
  /\ \E b \in Range(BaseMints) :
       /\ Source(g, r[1]) = b /\ Target(g, r[Len(r)]) = b
       /\ \A i \in 1..(Len(r) - 1) : Target(g, r[i]) # b
  /\ \A i \in 1..(Len(r) - 1) : Target(g, r[i]) = Source(g, r[i + 1])
  /\ \A i, j \in DOMAIN r : i # j => r[i].pool # r[j].pool

Cycles(g) ==
  LET hops == [pool : DOMAIN g, aToB : BOOLEAN]
  IN  {r \in UNION {[1..n -> hops] : n \in 2..MaxHops} :
         IsCycle(g, r) /\ \A i \in DOMAIN r : ~TooExpensive(g[r[i].pool].math)}
=============================================================================
