----------------------------- MODULE MCTransaction -----------------------------
(* Small instances of ArbTransaction.                                         *)
EXTENDS ArbTransaction

Snap(dex, ab, t22, arrays) == [dex |-> dex, ab |-> ab, t22 |-> t22, arrays |-> arrays]

\* The layouts that differ: CLMM with a repeated tick array, DLMM with as many bin
\* arrays as two bits can count, PumpSwap and Orca against their order, Bonk, which
\* reads one account whatever the direction, and a CLMM pool without arrays.
EveryLayout == {
  Snap("RaydiumCpmm", FALSE, TRUE, <<>>), Snap("RaydiumClmm", TRUE, FALSE, <<1, 2, 1>>),
  Snap("PumpSwap", FALSE, TRUE, <<>>), Snap("Bonk", FALSE, FALSE, <<>>),
  Snap("MeteoraDlmm", FALSE, FALSE, <<1, 2, 3>>),
  Snap("OrcaWhirlpool", FALSE, FALSE, <<1>>), Snap("RaydiumClmm", FALSE, FALSE, <<>>)}

\* A DLMM pool whose active bin moved one array: its old arrays and its new ones.
MovedDlmm == {
  Snap("RaydiumCpmm", FALSE, TRUE, <<>>), Snap("RaydiumClmm", TRUE, FALSE, <<1, 2, 3>>),
  Snap("MeteoraDlmm", FALSE, FALSE, <<1, 2, 3, 4>>)}

\* 80% of 20 is one more than the 4 bits of the field hold here.
Expected == {10, 20}
Ten    == {10}
Deltas == {-1, 0, 7, 8}
Every  == {"swqos", "astralane", "jito"}
Send   == {"swqos", "astralane"}
=============================================================================
