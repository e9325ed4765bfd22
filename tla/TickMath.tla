------------------------------- MODULE TickMath -------------------------------
(* Which tick array holds a tick, and which bin array a bin.  The decoders use   *)
(* Rust's division, which rounds toward zero, and correct it for negative ticks. *)
EXTENDS Integers

\* i32 / i32 and i32 % i32.
TruncDiv(a, b) == IF a >= 0 THEN a \div b ELSE -((-a) \div b)
TruncRem(a, b) == a - b * TruncDiv(a, b)

\* The first tick of the array of `span` ticks that holds `tick` (span is the tick
\* spacing times 60 for Raydium, times 88 for Orca).
StartIndex(tick, span) ==
  LET start == TruncDiv(tick, span) * span
  IN  IF tick < 0 /\ TruncRem(tick, span) # 0 THEN start - span ELSE start

\* The arrays asked for around a tick: three to each side.
StartIndices(tick, span) == [i \in 1..7 |-> StartIndex(tick, span) + (i - 4) * span]

\* The array of `size` (70) bins that holds a bin.
BinArrayIndex(bin, size) ==
  IF bin < 0 /\ TruncRem(bin, size) # 0
  THEN TruncDiv(bin, size) - 1 ELSE TruncDiv(bin, size)

\* The bins an array decodes to.
BinsOf(index, size) == (index * size) .. (index * size + size - 1)

\* The arrays a swap is given: the active bin's and its two neighbours.
BinArraysForSwap(bin, size) ==
  LET i == BinArrayIndex(bin, size) IN [k \in 1..3 |-> i - 2 + k]

\* A tick inside an array of `span` ticks that starts at `start`.
Inside(tick, start, span) == start <= tick /\ tick < start + span

\* update_math's test whether the loaded arrays hold the new tick.  It takes every
\* array to have `size` (60) ticks, Orca's 88 too.
CoveredBy(tick, starts, spacing, size) ==
  \E s \in starts : Inside(tick, s, spacing * size)
=============================================================================
