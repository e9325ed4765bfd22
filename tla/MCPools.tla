------------------------------- MODULE MCPools --------------------------------
(* The pools of the scanner's instances: three of one token, of three DEXes.        *)
EXTENDS Integers

MCSqrtAt(t)    == 16 + 2 * t
MCArraySize(d) == 2

MCPoolNames == {"cpmm", "pump", "dlmm"}

Cp(a, b) == [kind |-> "cp", a |-> a, b |-> b, num |-> 3, den |-> 1000]

Bin(i, x, y) == [index |-> i, x |-> x, y |-> y]
Bins == {{Bin(-2, 0, 900), Bin(-1, 0, 900)}, {Bin(0, 600, 900), Bin(1, 900, 0)}}
Dlmm(active, arrays) ==
  [kind |-> "dlmm", active |-> active, step |-> 1, factor |-> 1, control |-> 1,
   maxVol |-> 8, vol |-> 0, arrays |-> arrays]

Cpmm(sol, tok, slot) == [a |-> "WSOL", b |-> "T", dex |-> "RaydiumCpmm", math |-> Cp(sol, tok),
                         listed |-> <<>>, slot |-> slot]
Pump(tok, sol, slot) == [a |-> "T", b |-> "WSOL", dex |-> "PumpSwap", math |-> Cp(tok, sol),
                         listed |-> <<>>, slot |-> slot]
Dl(active, arrays, slot) ==
  [a |-> "T", b |-> "WSOL", dex |-> "MeteoraDlmm", math |-> Dlmm(active, arrays),
   listed |-> <<>>, slot |-> slot]

Account(p, e)          == [pool |-> p, part |-> "account", entry |-> e]
Vault(p, s, bal, slot) == [pool |-> p, part |-> s, balance |-> bal, slot |-> slot]
=============================================================================
