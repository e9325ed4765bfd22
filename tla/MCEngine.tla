------------------------------- MODULE MCEngine -------------------------------
(* A small market: six pools, each of another kind, between SOL and a token.        *)
EXTENDS EngineScanner

MCSqrtAt(t)     == 16 + 2 * t
MCArraySize(d)  == IF d = "OrcaWhirlpool" THEN 3 ELSE 2

Bases == <<"W">>

Entry(addr, a, b, dex, math, slot, known) ==
  [addr |-> addr, a |-> a, b |-> b, dex |-> dex, math |-> math, slot |-> slot, known |-> known]

Cp(a, b) == [kind |-> "cp", a |-> a, b |-> b, num |-> 3, den |-> 1000]

Tick(i, n) == [index |-> i, net |-> n]
Array(s, ticks) == [start |-> s, ticks |-> ticks]

Clmm(sqrt, tick, arrays) ==
  LET m == [kind |-> "clmm", sqrt |-> sqrt, liq |-> 3000, tick |-> tick, fee |-> 10,
            spacing |-> 1, arrays |-> arrays, limits |-> [a |-> 0, b |-> 0]]
  IN  [m EXCEPT !.limits = ClmmLimits(m, -7, 7)]

Around == {Array(-6, {Tick(-5, 600)}), Array(-3, {Tick(-3, 900), Tick(-1, -600)}),
           Array(0, {Tick(0, -900), Tick(2, 0)})}

Damm == [kind |-> "damm", sqrt |-> 13, min |-> 4, max |-> 40, liq |-> 6000,
         fee |-> 10, mode |-> 2]

Bin(i, x, y) == [index |-> i, x |-> x, y |-> y]
Dlmm(vol) == [kind |-> "dlmm", active |-> -2, step |-> 1, factor |-> 1, control |-> 1,
              maxVol |-> 8, vol |-> vol,
              arrays |-> {{Bin(-4, 0, 200), Bin(-3, 0, 200)}, {Bin(-2, 50, 200), Bin(-1, 200, 0)}}]

Curve == [kind |-> "curve", vsol |-> 600, vtok |-> 1000, rtok |-> 900, rsol |-> 300,
          complete |-> FALSE]

All == {"vaults", "accounts"}

SolToken   == Entry("p1", "W", "T", "RaydiumCpmm", Cp(10000, 20000), 1, All)
Unfunded   == Entry("p1", "W", "T", "RaydiumCpmm", Cp(0, 0), 1, {})
TokenSol   == Entry("p2", "T", "W", "PumpSwap", Cp(18000, 11000), 1, All)
Dearer     == Entry("p2", "T", "W", "PumpSwap", Cp(18000, 14000), 2, {})
Whirlpool  == Entry("p3", "T", "W", "OrcaWhirlpool", Clmm(13, -2, Around), 2, All)
Bins       == Entry("p4", "T", "W", "MeteoraDlmm", Dlmm(0), 1, All)
Volatile   == Entry("p4", "T", "W", "MeteoraDlmm", Dlmm(8), 2, All)
ToOther    == Entry("p5", "T", "U", "MeteoraDammV2", Damm, 1, All)
OtherToSol == Entry("p6", "W", "U", "PumpFun", Curve, 2, All)

\* Pools that come while others are drained, come to life, become dearer, or close a
\* route of three hops.
MCStreams ==
  { <<SolToken, TokenSol, Whirlpool, Dearer>>, <<Whirlpool, Dearer, SolToken, TokenSol>>,
    <<Unfunded, TokenSol, Whirlpool, SolToken>>, <<SolToken, Bins, Volatile, TokenSol>>,
    <<SolToken, ToOther, OtherToSol, Dearer>> }

MCAmounts == <<1, 2, 7, 40, 55, 90, 130, 180, 187, 190, 230, 280, 330, 400, 450, 520, 600>>
MCGuesses == {0, 230, 700}

MCHop(p, d) == [pool |-> p, aToB |-> d]
MCWatched == {<<MCHop(1, TRUE), MCHop(2, TRUE)>>}
=============================================================================
