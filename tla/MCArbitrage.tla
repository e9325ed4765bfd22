----------------------------- MODULE MCArbitrage ------------------------------
(* Three pools of one token: constant product, PumpSwap and DLMM.                  *)
EXTENDS ArbPipeline, MCPools

MCFeeds ==
  { <<Account("cpmm", Cpmm(0, 0, 2)), Vault("cpmm", "a", 4000, 2), Vault("cpmm", "b", 4700, 2),
      Account("dlmm", Dl(0, Bins, 3)), Vault("cpmm", "a", 4600, 6)>>,
    <<Account("pump", Pump(0, 0, 2)), Account("dlmm", Dl(0, Bins, 3)),
      Vault("pump", "a", 4600, 4), Vault("pump", "b", 4000, 4)>>,
    <<Account("pump", Pump(0, 0, 2)), Vault("pump", "a", 4600, 4), Account("cpmm", Cpmm(0, 0, 3)),
      Vault("pump", "b", 4000, 4), Vault("cpmm", "a", 4000, 7), Vault("cpmm", "b", 4000, 7)>> }
=============================================================================
