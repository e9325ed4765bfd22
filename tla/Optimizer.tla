------------------------------ MODULE Optimizer ------------------------------
(* engine/src/optimizer.rs: how much to put into a route, and what it yields.    *)
(* A route is a sequence of hops [pool |-> index, aToB |-> BOOLEAN]; pools is the *)
(* graph's list of entries, each with its math.                                  *)
EXTENDS Quotes

CONSTANTS
  MinInput,     \* where the ternary search starts (10_000)
  Iterations    \* ternary_iterations

\* i64::MIN, the profit of a route that pays nothing.
Hopeless == -MaxU64 - 1

\* No result.
NoTrade == [amount |-> 0, profit |-> 0]

\* What comes out at the end of the route; a hop that pays nothing ends it.
RouteOut(pools, route, amt) ==
  LET pay[i \in Nat, c \in Nat] ==
        IF i > Len(route) \/ c = 0 THEN c
        ELSE pay[i + 1, AmountOut(pools[route[i].pool].math, c, route[i].aToB)]
  IN  pay[1, amt]

ProfitOf(out, amt) == IF out = 0 THEN Hopeless ELSE out - amt

SimulateRouteProfit(pools, route, amt) == ProfitOf(RouteOut(pools, route, amt), amt)

\* The trade of an input, if it has a profit.
TradeOf(a, profit) ==
  IF a > 0 /\ profit > 0 THEN [amount |-> a, profit |-> profit] ELSE NoTrade

Trade(pools, route, a) == TradeOf(a, SimulateRouteProfit(pools, route, a))

\* Mutant: the search may spend what the loaded ticks do not cover.
ClmmCapNone(pools, route, max) == max

\* The input stays before the nearest tick of a CLMM pool at the first hop, whose
\* limits are cached with the pool; a limit of 0 is taken for "no limit".
ClmmCapInput(pools, route, max) ==
  LET m     == pools[route[1].pool].math
      limit == IF route[1].aToB THEN m.limits.a ELSE m.limits.b
  IN  IF m.kind = "clmm" /\ limit > 0 /\ limit < max THEN limit ELSE max

\* Which pairs of pools have a closed form, and the extraction of their parameters.
Solvable(m) ==
  CASE m.kind = "cp"    -> m.a > 0 /\ m.b > 0 /\ m.den > 0
    [] m.kind = "curve" -> ~m.complete /\ m.vsol > 0 /\ m.vtok > 0
    [] m.kind \in {"clmm", "damm"} -> m.liq > 0 /\ m.sqrt > 0
    [] OTHER -> FALSE

HasClosedForm(pools, route) == \A i \in 1..2 : Solvable(pools[route[i].pool].math)

\* The formulas are in floating point and their answer is any amount (`guess`) or
\* none (0); above the cap they are replaced by the cap, if that has a profit.
TryClosedForm(pools, route, max, guess) ==
  IF ~HasClosedForm(pools, route) \/ guess = 0 THEN 0
  ELSE IF guess <= max THEN guess
  ELSE IF SimulateRouteProfit(pools, route, max) > 0 THEN max ELSE 0

\* Mutant: the lower part is kept when the upper point is the better one.
UpperBetterFlipped(pools, route, low, high) ==
  SimulateRouteProfit(pools, route, low) >= SimulateRouteProfit(pools, route, high)

UpperBetter(pools, route, low, high) ==
  SimulateRouteProfit(pools, route, low) < SimulateRouteProfit(pools, route, high)

\* The search drops, at each step, the third that cannot hold the best input.
TernarySearch(pools, route, max) ==
  LET middle[n \in Nat, lo \in Nat, hi \in Nat] ==
        LET third == (hi - lo) \div 3
        IN  IF n = 0 \/ hi - lo < 3 THEN (lo + hi) \div 2
            ELSE IF UpperBetter(pools, route, lo + third, hi - third)
            THEN middle[n - 1, lo + third, hi]
            ELSE middle[n - 1, lo, hi - third]
  IN  IF MinInput >= max THEN NoTrade
      ELSE Trade(pools, route, middle[Iterations, MinInput, max])

OrElseTrade(closed, search) == IF closed # NoTrade THEN closed ELSE search

\* Two hops try the formulas first; their answer counts if the simulation agrees that
\* there is a profit, which is then the simulated one.
FindOptimalAmount(pools, route, max, guess) ==
  LET cap == ClmmCapInput(pools, route, max)
  IN  OrElseTrade(IF Len(route) = 2
                  THEN Trade(pools, route, TryClosedForm(pools, route, cap, guess))
                  ELSE NoTrade,
                  TernarySearch(pools, route, cap))
=============================================================================
