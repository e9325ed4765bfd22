------------------------------ MODULE MCStartup -------------------------------
EXTENDS Startup, MCPools

MCFound(p) == CASE p = "cpmm" -> Cpmm(0, 0, 0) [] p = "pump" -> Pump(0, 0, 0)
                [] p = "dlmm" -> Dl(0, {}, 0)
MCOnChain(p) == CASE p = "cpmm" -> Cpmm(4000, 4000, 1) [] p = "pump" -> Pump(4000, 4000, 1)
                  [] p = "dlmm" -> Dl(0, Bins, 1)

\* A handler that meets a pool before the bootstrap has it inserts it without balances, or
\* without arrays, at any time after.
MCFeeds ==
  { <<Account("cpmm", Cpmm(0, 0, 2)), Vault("cpmm", "b", 4700, 3)>>,
    <<Account("dlmm", Dl(0, {}, 2)), Account("dlmm", Dl(1, Bins, 4))>>,
    <<Account("pump", Pump(0, 0, 3)), Vault("pump", "a", 4600, 4), Vault("pump", "b", 4000, 4)>> }
=============================================================================
