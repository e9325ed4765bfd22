-------------------------------- MODULE Quotes --------------------------------
(* get_amount_out of solana-streamer/src/pool/state.rs: what a pool of each kind *)
(* is expected to pay, in integers.  The code works on u64, u128 and U256, on     *)
(* Q64.64 prices and, for CLMM pools and bonding curves, on f64; here the fixed   *)
(* point is One, the fee denominators are constants, and what f64 computes is     *)
(* rounded down at each range of the walk.                                        *)
EXTENDS Integers, FiniteSets, SequencesExt

CONSTANTS
  One,        \* 1.0 as a fixed-point price (2^64)
  MaxU64,     \* u64::MAX
  FeeDen,     \* fee denominator of CLMM, DAMM v2 and DLMM pools
  Bps,        \* BASIS_POINT_MAX (10_000)
  VolDen,     \* divisor of the DLMM variable fee (10^11)
  SqrtAt(_)   \* tick_index_to_sqrt_price, as a multiple of 1/One

ASSUME QuotesAssumption ==
  /\ One \in Nat \ {0} /\ MaxU64 \in Nat \ {0} /\ FeeDen \in Nat \ {0}
  /\ Bps \in Nat \ {0} /\ VolDen \in Nat \ {0}

Ceil(n, d)      == (n + d - 1) \div d
Least(a, b)     == IF a <= b THEN a ELSE b
Minus(a, b)     == IF a >= b THEN a - b ELSE 0      \* saturating_sub
OrElse(n, x)    == IF n <= MaxU64 THEN n ELSE x     \* u64::try_from(n).unwrap_or(x)

-----------------------------------------------------------------------------
(* Constant product.                                                          *)

\* What the fee, rounded up, leaves of the input.
CpNet(amt, num, den) == Minus(amt, Minus(amt * num + den, 1) \div den)

\* Mutant: the swap rounds up.
CpSwapUp(rIn, rOut, net) == Ceil(net * rOut, rIn + net)

CpSwap(rIn, rOut, net) == (net * rOut) \div (rIn + net)

CpOut(rIn, rOut, num, den, amt) ==
  IF rIn = 0 \/ rOut = 0 \/ CpNet(amt, num, den) = 0 THEN 0
  ELSE CpSwap(rIn, rOut, CpNet(amt, num, den))

\* The bonding curve keeps one percent of the input and pays at most what is really
\* there.  "a to b" is SOL to token.
CurveOut(m, amt, aToB) ==
  LET rIn  == IF aToB THEN m.vsol ELSE m.vtok
      rOut == IF aToB THEN m.vtok ELSE m.vsol
      cap  == IF aToB THEN m.rtok ELSE m.rsol
  IN  IF m.complete \/ rIn = 0 \/ rOut = 0 THEN 0
      ELSE Least((rOut * 99 * amt) \div (100 * rIn + 99 * amt), cap)

-----------------------------------------------------------------------------
(* Concentrated liquidity: the walk over initialized ticks.                    *)

\* Token amounts that move the price between lo and hi at liquidity l.
DeltaA(l, lo, hi) == (l * One * (hi - lo)) \div (lo * hi)
DeltaB(l, lo, hi) == (l * (hi - lo)) \div One

\* What an input too small to reach the next tick pays, from price s.
PartOut(l, s, c, aToB) ==
  IF aToB THEN (l * c * s * s) \div (One * (l * One + c * s))
  ELSE (l * c * One * One) \div (s * (l * s + c * One))

\* m.arrays is a set of arrays, each with its first tick and its ticks.
TicksOf(m) == {t \in UNION {a.ticks : a \in m.arrays} : t.net # 0}

\* The ticks the walk meets; it takes the nearest first.
Relevant(m, aToB) == {t \in TicksOf(m) : IF aToB THEN t.index <= m.tick ELSE t.index > m.tick}

Nearest(S, aToB) ==
  CHOOSE x \in S : \A y \in S : IF aToB THEN y.index <= x.index ELSE x.index <= y.index

\* The liquidity beyond a crossed tick.
Cross(l, net, aToB) == IF aToB THEN l - net ELSE l + net

\* One range of the walk: w is what is left, paid, the price and the liquidity;
\* w.stop when there is nothing left to fill or to fill it with.
ClmmStep(w, t, aToB) ==
  LET to  == SqrtAt(t.index)
      all == IF aToB THEN DeltaA(w.liq, to, w.sqrt) ELSE DeltaB(w.liq, w.sqrt, to)
      out == IF aToB THEN DeltaB(w.liq, to, w.sqrt) ELSE DeltaA(w.liq, w.sqrt, to)
  IN  IF \/ w.stop \/ w.left = 0
         \/ (IF aToB THEN to >= w.sqrt ELSE to <= w.sqrt)
         \/ all <= 0
      THEN w
      ELSE IF w.left >= all
      THEN [left |-> w.left - all, out |-> w.out + out, sqrt |-> to,
            liq |-> Cross(w.liq, t.net, aToB), ranges |-> w.ranges + 1,
            stop |-> Cross(w.liq, t.net, aToB) <= 0]
      ELSE [w EXCEPT !.left = 0, !.out = @ + PartOut(w.liq, w.sqrt, w.left, aToB),
                     !.ranges = @ + 1]

ClmmWalk(m, amt, aToB) ==
  LET walk[S \in SUBSET Relevant(m, aToB),
           w \in [left : Int, out : Int, sqrt : Int, liq : Int, ranges : Nat,
                  stop : BOOLEAN]] ==
        IF S = {} THEN w
        ELSE LET t == Nearest(S, aToB) IN walk[S \ {t}, ClmmStep(w, t, aToB)]
  IN  walk[Relevant(m, aToB),
           [left |-> Minus(amt, (amt * m.fee) \div FeeDen), out |-> 0, sqrt |-> m.sqrt,
            liq |-> m.liq, ranges |-> 0, stop |-> FALSE]]

\* The walk ends at the last loaded tick; 0.3% is taken off for what f64 loses.
ClmmOut(m, amt, aToB) ==
  IF m.liq = 0 \/ m.sqrt = 0 \/ m.fee = 0 \/ m.arrays = {} THEN 0
  ELSE (ClmmWalk(m, amt, aToB).out * 997) \div 1000

\* The gross input of a net one.
Gross(net, fee) == (net * FeeDen) \div (FeeDen - fee)

\* compute_clmm_limits_with_fee: the largest inputs that stay before the nearest
\* initialized ticks.  MinTick and MaxTick stand for ticks that are not loaded.
ClmmLimits(m, minTick, maxTick) ==
  LET below == {t.index : t \in {u \in TicksOf(m) : u.index <= m.tick}}
      above == {t.index : t \in {u \in TicksOf(m) : u.index > m.tick}}
      lo == SqrtAt(IF below = {} THEN minTick ELSE CHOOSE x \in below : \A y \in below : y <= x)
      hi == SqrtAt(IF above = {} THEN maxTick ELSE CHOOSE x \in above : \A y \in above : x <= y)
  IN  IF m.liq = 0 \/ m.sqrt = 0 \/ m.arrays = {} THEN [a |-> 0, b |-> 0]
      ELSE [a |-> Gross(IF lo > 0 /\ lo < m.sqrt THEN DeltaA(m.liq, lo, m.sqrt) ELSE 0, m.fee),
            b |-> Gross(IF hi > m.sqrt THEN DeltaB(m.liq, m.sqrt, hi) ELSE 0, m.fee)]

-----------------------------------------------------------------------------
(* Meteora DAMM v2: one range, U256 arithmetic.                                *)

\* The next price of an a-to-b swap, rounded up.
DammDown(l, sp, amt) == Ceil(l * sp, l + amt * sp)

\* The output before the fee; 0 when the price would leave the pool's range.
DammSwap(m, amt, aToB) ==
  LET down == DammDown(m.liq, m.sqrt, amt)
      up   == m.sqrt + (amt * One * One) \div m.liq
  IN  IF aToB
      THEN IF down <= m.min THEN 0
           ELSE OrElse((m.liq * Minus(m.sqrt, down)) \div (One * One), 0)
      ELSE IF up >= m.max THEN 0
           ELSE OrElse((m.liq * (up - m.sqrt)) \div (m.sqrt * up), 0)

\* collect_fee_mode 2 takes the fee from the input, the others from the output.
DammOut(m, amt, aToB) ==
  LET onInput == m.mode = 2
      net == IF onInput THEN Minus(amt, (amt * m.fee) \div FeeDen) ELSE amt
      out == DammSwap(m, net, aToB)
  IN  IF m.sqrt = 0 \/ m.liq = 0 \/ net = 0 THEN 0
      ELSE IF onInput THEN out ELSE Minus(out, (out * m.fee) \div FeeDen)

-----------------------------------------------------------------------------
(* Meteora DLMM: the walk over bins.                                           *)

\* mul_shr64: the product of two fixed-point numbers, from their halves.
MulShr(a, b) ==
  (a \div One) * (b \div One) * One
    + ((a \div One) * (b % One) + (a % One) * (b \div One))
    + ((a % One) * (b % One)) \div One

\* dlmm_price_q64: (1 + step/Bps)^bin by repeated squaring, for the bits of |bin| from
\* the lowest; a negative bin has the inverse of its positive one.
BinPrice(bin, step) ==
  LET e    == IF bin < 0 THEN -bin ELSE bin
      bits == CHOOSE n \in 0..31 : e < 2^n /\ \A k \in 0..(n - 1) : e >= 2^k
      power[i \in Nat, r \in Nat, sq \in Nat] ==
        IF i = bits THEN r
        ELSE power[i + 1, IF (e \div 2^i) % 2 = 1 THEN MulShr(r, sq) ELSE r, MulShr(sq, sq)]
      p    == power[0, One, One + (step * One) \div Bps]
  IN  IF bin >= 0 THEN p ELSE IF p = 0 THEN 0 ELSE (One * One - 1) \div p

\* The fee rate in a bin, capped at a tenth: the base fee and a variable part that
\* grows with the bins crossed since the active one.
BinFee(m, delta) ==
  LET vol  == Least(delta * Bps, m.maxVol)
      base == m.factor * m.step * 10
      var  == IF m.control > 0 THEN Ceil(m.control * (vol * m.step) * (vol * m.step), VolDen)
              ELSE 0
  IN  Least(base + var, FeeDen \div 10)

BinsIn(m) == UNION m.arrays

RelevantBins(m, aToB) ==
  {b \in BinsIn(m) : IF aToB THEN b.index <= m.active /\ b.y > 0
                     ELSE b.index >= m.active /\ b.x > 0}

\* A bin pays no more than it holds.
BinPays(has, want) == Least(want, has)

\* The input that buys all of a bin, with and without the fee.
BinNet(has, price, aToB) ==
  OrElse(IF aToB THEN Ceil(has * One, price) ELSE Ceil(has * price, One), MaxU64)
BinGross(net, rate) == Least(net + Ceil(net * rate, FeeDen - rate), MaxU64)

\* What an input without the fee buys.
BinWant(net, price, aToB) == IF aToB THEN (price * net) \div One ELSE (net * One) \div price

\* One bin: its whole content for the input that buys it with the fee, or the part
\* the rest of the input buys.
BinFill(w, has, next, price, rate, aToB) ==
  IF w.left = 0 \/ price = 0 THEN w
  ELSE LET gross == BinGross(BinNet(has, price, aToB), rate)
       IN  IF w.left >= gross
           THEN [left |-> w.left - gross, out |-> Least(w.out + has, MaxU64), at |-> next]
           ELSE LET want == BinWant(Minus(w.left, Ceil(w.left * rate, FeeDen)), price, aToB)
                IN  [left |-> 0, at |-> next,
                     out |-> Least(w.out + BinPays(has, OrElse(want, MaxU64)), MaxU64)]

BinStep(m, w, b, aToB) ==
  BinFill(w, IF aToB THEN b.y ELSE b.x, IF aToB THEN b.index - 1 ELSE b.index + 1,
          BinPrice(b.index, m.step),
          BinFee(m, IF m.active >= w.at THEN m.active - w.at ELSE w.at - m.active), aToB)

DlmmOut(m, amt, aToB) ==
  LET walk[S \in SUBSET RelevantBins(m, aToB), w \in [left : Int, out : Int, at : Int]] ==
        IF S = {} THEN w
        ELSE LET b == Nearest(S, aToB) IN walk[S \ {b}, BinStep(m, w, b, aToB)]
  IN  IF m.arrays = {} \/ amt = 0 \/ m.step = 0 THEN 0
      ELSE walk[RelevantBins(m, aToB), [left |-> amt, out |-> 0, at |-> m.active]].out

-----------------------------------------------------------------------------

AmountOut(m, amt, aToB) ==
  CASE m.kind = "cp"    -> IF aToB THEN CpOut(m.a, m.b, m.num, m.den, amt)
                           ELSE CpOut(m.b, m.a, m.num, m.den, amt)
    [] m.kind = "curve" -> CurveOut(m, amt, aToB)
    [] m.kind = "clmm"  -> ClmmOut(m, amt, aToB)
    [] m.kind = "damm"  -> DammOut(m, amt, aToB)
    [] m.kind = "dlmm"  -> DlmmOut(m, amt, aToB)
=============================================================================
