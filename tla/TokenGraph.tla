----------------------------- MODULE TokenGraph ------------------------------
(* engine/src/graph.rs: the pools by number, each an edge in both directions     *)
(* between its mints.  A graph is the sequence of its pool entries; mint numbers, *)
(* adjacency lists and the address index follow from it, because nothing is ever  *)
(* removed.  An entry is [addr, a, b, dex, math, slot, known]; known is the set   *)
(* of the optional parts an update has brought (vaults, 2022 flags, accounts).    *)
EXTENDS Optimizer, SwapAccounts

CONSTANTS
  MinReserve,     \* min_reserve_lamports
  MaxFee,         \* max_hop_fee, in 1/FeeDen
  ProbeAmount     \* probe_amount_lamports, also taken for the death probe

Number(g, addr) == CHOOSE i \in DOMAIN g : g[i].addr = addr
Knows(g, addr)  == \E i \in DOMAIN g : g[i].addr = addr

\* An update of a known pool replaces math and slot, adds to what is known, and keeps
\* the pool's number and mints.
Updated(old, e) ==
  [old EXCEPT !.math = e.math, !.slot = e.slot, !.known = old.known \cup e.known]

AddPool(g, e) ==
  IF Knows(g, e.addr)
  THEN LET n == Number(g, e.addr) IN [g EXCEPT ![n] = Updated(g[n], e)]
  ELSE Append(g, e)

\* pool_has_min_reserve
HasMinReserve(m) ==
  CASE m.kind = "cp"    -> m.a >= MinReserve /\ m.b >= MinReserve
    [] m.kind = "curve" -> m.vsol >= MinReserve
    [] m.kind \in {"clmm", "damm"} -> m.liq > 0
    [] m.kind = "dlmm"  -> m.arrays # {}

\* pool_fee_ratio > max_hop_fee.  A DLMM pool's fee is that of its volatility now.
TooExpensive(m) ==
  CASE m.kind = "cp"    -> m.num * FeeDen > MaxFee * m.den
    [] m.kind = "curve" -> FeeDen > MaxFee * 100
    [] m.kind \in {"clmm", "damm"} -> m.fee > MaxFee
    [] m.kind = "dlmm"  ->
         Least(m.factor * m.step * 10
                 + (m.control * (m.vol * m.step) * (m.vol * m.step)) \div VolDen,
               FeeDen \div 10) > MaxFee

\* is_pool_dead: the probe yields nothing either way.
IsPoolDead(m) == \A d \in BOOLEAN : AmountOut(m, ProbeAmount, d) = 0

\* The edges are numbered in the order they were added, two for each pool.
\* adjacency[mint] is those with this source.
Edge(k) == [pool |-> (k + 1) \div 2, aToB |-> k % 2 = 1]

Target(g, hop) == IF hop.aToB THEN g[hop.pool].b ELSE g[hop.pool].a
Source(g, hop) == IF hop.aToB THEN g[hop.pool].a ELSE g[hop.pool].b

\* Whether build_pool_accounts has anything to return.
HasAccounts(e, aToB) ==
  e.math.kind # "clmm" \/ TickAccounts(e.dex, e.math, aToB) # <<>>
=============================================================================
