----------------------------- MODULE SwapAccounts -----------------------------
(* The array accounts a swap is given.  engine/src/arb_scanner.rs and scanner.rs    *)
(* each have a build_pool_accounts with the same rules for tick arrays.           *)
EXTENDS TickMath, FiniteSets, SequencesExt

CONSTANT ArraySize(_)   \* ticks of an array of a DEX (60, Orca 88)

\* The first of S in the swap's direction.
NextStart(S, aToB) == CHOOSE s \in S : \A t \in S : IF aToB THEN t <= s ELSE s <= t

\* The tick arrays: the one that holds the price (for Orca going up, the one a spacing
\* further), then at most two in the swap's direction.
TickAccounts(dex, m, aToB) ==
  LET span  == m.spacing * ArraySize(dex)
      ref   == IF dex = "OrcaWhirlpool" /\ ~aToB THEN m.tick + m.spacing ELSE m.tick
      starts == {a.start : a \in m.arrays}
      here  == {s \in starts : Inside(ref, s, span)}
      take[n \in 0..2, S \in SUBSET starts] ==
        IF n = 0 \/ S = {} THEN <<>>
        ELSE <<NextStart(S, aToB)>> \o take[n - 1, S \ {NextStart(S, aToB)}]
      first == CHOOSE s \in here : TRUE
  IN  IF here = {} THEN <<>>
      ELSE <<first>> \o take[2, {s \in starts : IF aToB THEN s < first ELSE s > first}]

\* The bin arrays the DLMM accounts end with: those listed with the pool, then what is
\* missing of the active bin's and its neighbours.
BinAccounts(listed, active, size) ==
  listed \o SelectSeq(BinArraysForSwap(active, size), LAMBDA i : i \notin ToSet(listed))
=============================================================================
