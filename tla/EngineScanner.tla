---------------------------- MODULE EngineScanner ----------------------------
(* engine/src/scanner.rs and engine.rs: the task that keeps the graph and the     *)
(* routes up to date, looks for profitable routes after updates and on a timer,    *)
(* and offers them to the executor on a bounded channel.                          *)
EXTENDS RouteTable

CONSTANTS
  Streams,          \* the sequences of pool updates the cache may send, as graph entries
  QueueCap,         \* bound: updates waiting at once (the code's channel is larger)
  WarmupSecs, WarmupPools,    \* when the warm-up ends
  ScanEvery,        \* full_scan_interval_secs
  DedupSecs,        \* 2
  TopN,             \* how many probed routes are optimized (10)
  OfferCap,         \* capacity of the opportunity channel (4096)
  MaxInput, MinProfit, MaxProfit,   \* max_input, min_profit, max_absolute_profit
  RatioNum, RatioDen,               \* max_profit_ratio
  Guesses,          \* what the closed forms may answer; 0 is none
  Amounts,          \* the inputs the quote properties sample, ascending
  Watched           \* the routes the liveness property looks at

\* What a pool may be in the graph: an entry of a stream, or one updated by others.
Entries ==
  LET sent == UNION {Range(s) : s \in Streams}
  IN  [addr : {u.addr : u \in sent}, a : {u.a : u \in sent}, b : {u.b : u \in sent},
       dex : {u.dex : u \in sent}, math : {u.math : u \in sent},
       slot : {u.slot : u \in sent}, known : SUBSET UNION {u.known : u \in sent}]

ASSUME StreamsAssumption == Streams \subseteq Seq(Entries)

VARIABLES
  queue,      \* update_rx
  graph,
  table,      \* route_table
  phase,      \* "warmup" or "running"
  uptime,     \* seconds since the start, while warming up
  timer,      \* seconds since the last full scan
  recent,     \* recent_emissions: [key, age, profit]
  offers,     \* the opportunity channel
  inHand,     \* the opportunity the executor is working on
  feed        \* the updates still to be sent

vars == <<queue, graph, table, phase, uptime, timer, recent, offers, inHand, feed>>

Nothing == [hops |-> <<>>, amount |-> 0, profit |-> 0, slot |-> 0]

Init ==
  /\ queue = <<>> /\ graph = <<>> /\ table = EmptyTable /\ phase = "warmup"
  /\ uptime = 0 /\ timer = 0 /\ recent = {} /\ offers = <<>> /\ inHand = Nothing
  /\ feed \in Streams

-----------------------------------------------------------------------------
(* Evaluating routes.                                                         *)

OverRatio(profit, amount) == amount > 0 /\ profit * RatioDen > amount * RatioNum

Probe(g, r) == SimulateRouteProfit(g, r, ProbeAmount)

\* Phase 1: routes with reserves whose probe has a believable profit.
Probed(g, routes) ==
  {r \in routes : /\ \A i \in DOMAIN r : HasMinReserve(g[r[i].pool].math)
                  /\ \E profit \in {Probe(g, r)} : profit > 0 /\ ~OverRatio(profit, ProbeAmount)}

\* The orders a sort by value, best first, may leave: equal ones come in any order.
Ranked(S, value) ==
  {q \in SetToSeqs(S) : \A i, j \in DOMAIN q : i < j => value[q[i]] >= value[q[j]]}

Best(g, r, guess) == FindOptimalAmount(g, r, MaxInput, guess)

\* Phase 2: the trade of a route, if it is worth sending and believable.
Worth(g, r, guess) ==
  {t \in {Best(g, r, guess)} : /\ t.amount > 0 /\ t.profit >= MinProfit
                               /\ ~OverRatio(t.profit, t.amount) /\ t.profit <= MaxProfit}

\* The trades of the routes of S that have one, each with its route.
Evaluated(g, S, guess) ==
  UNION {{[route |-> r, trade |-> t] : t \in Worth(g, r, guess)} : r \in S}

\* route_key: the pools of the route, whatever the direction.
Key(r) == [i \in DOMAIN r |-> r[i].pool]

\* emit_opportunity: not within two seconds of the last emission of these pools unless
\* the profit grew by more than a tenth; recorded only when the channel took it.
EmitOpportunity(e, g, r, slot, trade) ==
  LET last == {x \in e.recent : x.key = Key(r)}
      opp  == [hops |-> r, amount |-> trade.amount, profit |-> trade.profit,
               slot |-> Max({slot} \cup {g[r[i].pool].slot : i \in DOMAIN r})]
  IN  IF \/ \E x \in last : x.age < DedupSecs
                            /\ trade.profit <= x.profit + x.profit \div 10
         \/ \E i \in DOMAIN r : ~HasAccounts(g[r[i].pool], r[i].aToB)
         \/ Len(e.offers) = OfferCap
      THEN e
      ELSE [recent |-> (e.recent \ last)
                         \cup {[key |-> Key(r), age |-> 0, profit |-> trade.profit]},
            offers |-> Append(e.offers, opp)]

EmitAll(e, g, order, slot) ==
  FoldLeft(LAMBDA f, x : EmitOpportunity(f, g, x.route, slot, x.trade), e, order)

-----------------------------------------------------------------------------
(* The task.                                                                  *)

\* The upsert of an update and what it does to routes; `g` is the graph before.
Revives(g, u) == Knows(g, u.addr) /\ IsPoolDead(g[Number(g, u.addr)].math) /\ ~IsPoolDead(u.math)

\* Mutant: a new pool gets no routes, only a revived one.
RoutedRevivedOnly(t, g, u) ==
  IF Revives(g, u)
  THEN AddRoutesForPool(t, AddPool(g, u), Number(AddPool(g, u), u.addr)) ELSE t

\* While running: routes for a pool that is new or comes to life.
Routed(t, g, u) ==
  IF ~Knows(g, u.addr) \/ Revives(g, u)
  THEN AddRoutesForPool(t, AddPool(g, u), Number(AddPool(g, u), u.addr)) ELSE t

\* The updates behind the first reach the graph alone.
Drained(g, rest) ==
  LET after[k \in 0..Len(rest)] == IF k = 0 THEN g ELSE AddPool(after[k - 1], rest[k])
  IN  after[Len(rest)]

WarmedUp(g) == uptime >= WarmupSecs \/ Len(g) >= WarmupPools

\* An update during the warm-up; the one that ends it builds the routes.
HandleWarmup ==
  /\ queue # <<>> /\ phase = "warmup"
  /\ LET g == AddPool(graph, Head(queue))
     IN  /\ graph' = Drained(g, Tail(queue))
         /\ phase' = IF WarmedUp(g) THEN "running" ELSE "warmup"
         /\ table' = IF WarmedUp(g) THEN BuildFromGraph(g) ELSE table
  /\ queue' = <<>>
  /\ UNCHANGED <<uptime, timer, recent, offers, inHand, feed>>

\* An update while running: its routes are scanned, best first.
HandleUpdate ==
  /\ queue # <<>> /\ phase = "running"
  /\ LET u == Head(queue)
         g == AddPool(graph, u)
         t == Routed(table, graph, u)
         probed == Probed(g, {t.routes[n] : n \in RoutesForPool(t, Number(g, u.addr))})
     IN  /\ graph' = Drained(g, Tail(queue))
         /\ table' = t
         /\ \E guess \in Guesses, ranked \in Ranked(probed, [r \in probed |-> Probe(g, r)]) :
              LET top == ToSet(SubSeq(ranked, 1, Least(TopN, Len(ranked))))
              IN  \E trades \in {Evaluated(g, top, guess)} :
                  \E order \in Ranked(trades, [x \in trades |-> x.trade.profit]) :
                  \E e \in {EmitAll([recent |-> recent, offers |-> offers], g, order, u.slot)} :
                    recent' = e.recent /\ offers' = e.offers
  /\ queue' = <<>>
  /\ UNCHANGED <<phase, uptime, timer, inHand, feed>>

\* Mutant: the timer only forgets what was emitted.
FullScanMaintains ==
  /\ timer >= ScanEvery
  /\ timer' = 0 /\ recent' = {}
  /\ UNCHANGED <<queue, graph, table, phase, uptime, offers, inHand, feed>>

\* The timer: everything is scanned, and every route may be offered again.
FullScan ==
  /\ timer >= ScanEvery
  /\ timer' = 0
  /\ IF phase = "running"
     THEN LET probed == Probed(graph, Range(table.routes))
              newest == Max({0} \cup {graph[i].slot : i \in DOMAIN graph})
          IN  \E guess \in Guesses, ranked \in Ranked(probed, [r \in probed |-> Probe(graph, r)]) :
                LET top  == SubSeq(ranked, 1, Least(TopN, Len(ranked)))
                    each == FlattenSeq([i \in DOMAIN top |->
                                          SetToSeq(Evaluated(graph, {top[i]}, guess))])
                IN  \E e \in {EmitAll([recent |-> {}, offers |-> offers], graph, each, newest)} :
                      recent' = e.recent /\ offers' = e.offers
     ELSE UNCHANGED <<recent, offers>>
  /\ UNCHANGED <<queue, graph, table, phase, uptime, inHand, feed>>

-----------------------------------------------------------------------------
(* The surroundings.                                                          *)

Send ==
  /\ feed # <<>> /\ Len(queue) < QueueCap
  /\ queue' = Append(queue, Head(feed)) /\ feed' = Tail(feed)
  /\ UNCHANGED <<graph, table, phase, uptime, timer, recent, offers, inHand>>

\* The executor takes the next opportunity when it is done with the last one.
Receive ==
  /\ offers # <<>> /\ inHand = Nothing
  /\ inHand' = Head(offers) /\ offers' = Tail(offers)
  /\ UNCHANGED <<queue, graph, table, phase, uptime, timer, recent, feed>>

Done ==
  /\ inHand # Nothing /\ inHand' = Nothing
  /\ UNCHANGED <<queue, graph, table, phase, uptime, timer, recent, offers, feed>>

\* A second passes; ages are counted only as far as they are compared.
Second ==
  /\ uptime' = Least(uptime + 1, WarmupSecs)
  /\ timer' = Least(timer + 1, ScanEvery)
  /\ recent' = {[x EXCEPT !.age = Least(@ + 1, DedupSecs)] : x \in recent}
  /\ UNCHANGED <<queue, graph, table, phase, offers, inHand, feed>>

Next == HandleWarmup \/ HandleUpdate \/ FullScan \/ Send \/ Receive \/ Done \/ Second

Spec == Init /\ [][Next]_vars

\* The scanner's and the executor's tasks run, and time passes.  Handling is always
\* possible when an update waits, and only it empties the queue; the same for the scan
\* and the timer.
Handling == queue # <<>> /\ queue' = <<>>
Scanning == timer >= ScanEvery /\ timer' = 0

FairSpec == Spec /\ WF_queue(Handling) /\ WF_timer(Scanning)
                 /\ WF_vars(Receive) /\ WF_vars(Done) /\ WF_vars(Second)

-----------------------------------------------------------------------------
(* Properties.                                                                *)

\* The graph has each pool once.  The route table says what it should: every entry is a
\* cycle from a base mint over different pools, none is there twice, and the index leads from a pool to exactly
\* the routes through it, also for pools that came while updates were drained.
TableSound ==
  /\ \A i, j \in DOMAIN graph : graph[i].addr = graph[j].addr => i = j
  /\ \A n \in DOMAIN table.routes :
       /\ IsCycle(graph, table.routes[n])
       /\ \A k \in DOMAIN table.routes : table.routes[k] = table.routes[n] => k = n
       /\ \A i \in DOMAIN table.routes[n] : n \in RoutesForPool(table, table.routes[n][i].pool)
  /\ \A p \in DOMAIN table.index : \A n \in table.index[p] :
       \E i \in DOMAIN table.routes[n] : table.routes[n][i].pool = p

\* A pool handled while running, new or revived, has all its affordable routes
\* afterwards, unless the search met its cap; no step loses a route (route.rs:124,
\* scanner.rs:167).
GetsItsRoutes ==
  /\ phase = "running" => \A n \in DOMAIN table.routes : table'.routes[n] = table.routes[n]
  /\ (queue # <<>> /\ queue' = <<>> /\ phase = "running") =>
       LET u == Head(queue)
           g == AddPool(graph, u)
           p == Number(g, u.addr)
       IN  /\ ~Knows(graph, u.addr) \/ Revives(graph, u)
           /\ Len(SearchAll(g, table.routes)) < MaxRoutes
           => {r \in Cycles(g) : p \in Range(Key(r))} \subseteq Range(table'.routes)

RoutesAdded == [][GetsItsRoutes]_vars

\* What a scan sees: the graph after the first update of the queue, before the drain.
Scanned == IF queue' = queue THEN graph ELSE AddPool(graph, Head(queue))

\* What is offered has a profit on the state that was scanned, and can be executed: the
\* first hop of a CLMM route stays before the nearest tick, and the tick arrays of every
\* CLMM hop begin with the one that holds the price and go on in the swap's direction
\* (optimizer.rs:336, scanner.rs:535).
OffersSound ==
  [][\A n \in (Len(offers) + 1)..Len(offers') :
       LET o == offers'[n]
           g == Scanned
       IN  /\ o.profit = SimulateRouteProfit(g, o.hops, o.amount) /\ o.profit >= MinProfit
           /\ o.amount <= MaxInput
           /\ \A i \in DOMAIN o.hops :
                LET e   == g[o.hops[i].pool]
                    acc == TickAccounts(e.dex, e.math, o.hops[i].aToB)
                IN  e.math.kind = "clmm" =>
                      /\ \A k \in 1..(Len(acc) - 1) :
                           IF o.hops[i].aToB THEN acc[k + 1] < acc[k] ELSE acc[k + 1] > acc[k]
                      /\ LET limit == IF o.hops[i].aToB THEN e.math.limits.a ELSE e.math.limits.b
                         IN  i = 1 /\ limit > 0 =>
                               ClmmWalk(e.math, o.amount, o.hops[i].aToB).ranges <= 1
    ]_vars

\* What a pool of each kind may pay at most, and never less for more: a constant-product
\* pool's product does not fall, a bonding curve and a DLMM pool pay what they hold, a
\* CLMM pool within its cached limits does not leave the range the limits were computed
\* for (state.rs:110, cache.rs:424).  A DAMM pool quotes 0 beyond its price range.
WithinHoldings(m, amt, out, d) ==
  CASE m.kind = "cp"    -> LET rIn == IF d THEN m.a ELSE m.b
                               rOut == IF d THEN m.b ELSE m.a
                           IN  (rIn + amt) * (rOut - out) >= rIn * rOut
    [] m.kind = "curve" -> out <= IF d THEN m.rtok ELSE m.rsol
    [] m.kind = "dlmm"  -> out <= FoldSet(LAMBDA b, n : n + (IF d THEN b.y ELSE b.x),
                                          0, BinsIn(m))
    [] m.kind = "clmm"  -> amt <= (IF d THEN m.limits.a ELSE m.limits.b)
                             => ClmmWalk(m, amt, d).ranges <= 1
    [] m.kind = "damm"  -> AmountOut(m, out, ~d) <= amt

QuotesSound ==
  [][\A i \in DOMAIN graph' : \A d \in BOOLEAN :
       LET m    == graph'[i].math
           quote == [k \in DOMAIN Amounts |-> AmountOut(m, Amounts[k], d)]
       IN  (i \in DOMAIN graph => m # graph[i].math)
           => \A k \in DOMAIN Amounts :
                /\ WithinHoldings(m, Amounts[k], quote[k], d)
                /\ k > 1 /\ quote[k] > 0 => quote[k - 1] <= quote[k]
    ]_graph

\* The ternary search over a probed route comes within a tenth of the best of the
\* sampled inputs it may use (optimizer.rs:409).
SearchFinds ==
  [][\A r \in Probed(graph', Range(table'.routes)) :
       LET cap == ClmmCapInput(graph', r, MaxInput)
       IN  10 * TernarySearch(graph', r, cap).profit
             >= 9 * Max({0} \cup {SimulateRouteProfit(graph', r, Amounts[k]) :
                                   k \in {n \in DOMAIN Amounts : Amounts[n] \in MinInput..cap}})
    ]_<<graph, table>>

\* The market is at rest, a route passes every test whatever the closed forms say, and
\* no other has as good a probe.
Standing(r) ==
  /\ feed = <<>> /\ queue = <<>> /\ phase = "running" /\ r \in Range(table.routes)
  /\ r \in Probed(graph, Range(table.routes))
  /\ \A x \in Probed(graph, Range(table.routes)) \ {r} : Probe(graph, x) < Probe(graph, r)
  /\ \A guess \in Guesses : Worth(graph, r, guess) # {}
  /\ \A i \in DOMAIN r : HasAccounts(graph[r[i].pool], r[i].aToB)

\* The best route, while it stays profitable, reaches the executor again and again: not
\* kept out by a full channel it met once, nor by having been offered before
\* (scanner.rs:318 and 505).  Others may wait for ever behind a channel that stays full.
StandingServed ==
  \A r \in Watched : <>[]Standing(r) => []<>(inHand.hops = r)
=============================================================================
