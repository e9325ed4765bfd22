------------------------------ MODULE Bootstrap -------------------------------
(* solana-streamer/src/pool/bootstrap.rs: at the start the pools are downloaded,    *)
(* then their vault balances, then the bin arrays of DLMM pools whose token trades *)
(* on another DEX too; then every pool with data is sent to the engine again, and  *)
(* the scanner is armed.                                                          *)
EXTENDS ArbScanner

CONSTANTS
  BootPools,    \* the pools the queries answer with
  Found(_),     \* a downloaded pool: no reserves, no arrays
  OnChain(_),   \* its balances and arrays when they are fetched
  MaxBootFails  \* bound: pools of which a call fails

VARIABLES
  boot          \* [phase, todo, half, failed]; half: pools with one vault fetched

BootInit ==
  /\ boot = [phase |-> "pools", todo |-> BootPools, half |-> {}, failed |-> {}]
  /\ ready = FALSE

Working(phase) == boot.phase = phase /\ boot.todo # {}
Finished(p)    == boot' = [boot EXCEPT !.todo = @ \ {p}]
Enter(phase, todo) == boot' = [boot EXCEPT !.phase = phase, !.todo = todo]
Passed(phase)  == boot.phase = phase /\ boot.todo = {}

bootOthers == <<opps, ready, recent, clean, task>>

\* Phase 1: register_pool_lightweight keeps a pool the stream has brought.
BootRegister(p) ==
  /\ Working("pools") /\ p \in boot.todo /\ Finished(p)
  /\ IF cache[p] = Absent
     THEN cache' = [cache EXCEPT ![p] = Found(p)] /\ updates' = Offered(updates, UpdateCap, p)
     ELSE UNCHANGED <<cache, updates>>
  /\ UNCHANGED bootOthers

\* The call that was to bring p fails, or brings nothing.
MayFail(p) == Cardinality(boot.failed \cup {p}) <= MaxBootFails

BootFails(p) ==
  /\ boot.phase \in {"pools", "arrays"} /\ p \in boot.todo /\ MayFail(p)
  /\ boot' = [boot EXCEPT !.todo = @ \ {p}, !.failed = @ \cup {p}]
  /\ UNCHANGED <<cache, updates>> /\ UNCHANGED bootOthers

\* Phase 2: the vaults of all pools that were downloaded, known before or not.
BootPhase2 ==
  /\ Passed("pools") /\ Enter("vaults", {p \in BootPools : p \notin boot.failed})
  /\ UNCHANGED <<cache, updates>> /\ UNCHANGED bootOthers

\* A pool's vaults are fetched one after the other, perhaps by two calls.
AfterVault(p) ==
  IF p \in boot.half THEN [boot EXCEPT !.todo = @ \ {p}, !.half = @ \ {p}]
  ELSE [boot EXCEPT !.half = @ \cup {p}]
VaultOf(p) == IF p \in boot.half THEN "b" ELSE "a"
Balance(m, side) == IF side = "a" THEN m.a ELSE m.b

\* One vault's balance, with an update.  What the stream wrote meanwhile is overwritten.
BootVault(p) ==
  /\ Working("vaults") /\ p \in boot.todo /\ boot' = AfterVault(p)
  /\ cache' = [cache EXCEPT ![p] =
                 WithBalance(@, VaultOf(p), Balance(OnChain(p).math, VaultOf(p)), OnChain(p).slot)]
  /\ updates' = Offered(updates, UpdateCap, p)
  /\ UNCHANGED bootOthers

BootVaultFails(p) ==
  /\ Working("vaults") /\ p \in boot.todo /\ MayFail(p)
  /\ boot' = [AfterVault(p) EXCEPT !.failed = @ \cup {p}]
  /\ UNCHANGED <<cache, updates>> /\ UNCHANGED bootOthers

\* Mutant: a mint counts as traded elsewhere only if three DEXes have it.
MultiDexThree(mint) ==
  Cardinality({cache[q].dex : q \in {r \in Pools : mint \in {cache[r].a, cache[r].b}}}) >= 3

\* A mint that pools of two DEXes have (WSOL among them).
MultiDex(mint) ==
  Cardinality({cache[q].dex : q \in {r \in Pools : mint \in {cache[r].a, cache[r].b}}}) >= 2

\* Phase 3: the DLMM pools without arrays.
NeedsArrays(p) ==
  /\ cache[p].math.kind = "dlmm" /\ cache[p].math.arrays = {}
  /\ MultiDex(cache[p].a) \/ MultiDex(cache[p].b)

BootPhase3 ==
  /\ Passed("vaults") /\ Enter("arrays", {p \in Pools : NeedsArrays(p)})
  /\ UNCHANGED <<cache, updates>> /\ UNCHANGED bootOthers

\* The arrays that were found, if any, and their accounts behind the oracle's.  No update.
BootArrays(p) ==
  /\ Working("arrays") /\ p \in boot.todo /\ Finished(p)
  /\ cache' = IF OnChain(p).math.arrays = {} THEN cache
              ELSE [cache EXCEPT ![p].math.arrays = OnChain(p).math.arrays,
                                 ![p].listed = OnChain(p).listed]
  /\ UNCHANGED updates /\ UNCHANGED bootOthers

\* has_data
HasData(m) ==
  CASE m.kind = "cp"   -> m.a > 0 \/ m.b > 0
    [] m.kind \in {"clmm", "dlmm"} -> m.arrays # {}
    [] m.kind = "damm" -> m.liq > 0
    [] m.kind = "curve" -> TRUE
    [] m.kind = "none" -> FALSE

BootPhase4 ==
  /\ Passed("arrays") /\ Enter("emit", {p \in Pools : cache[p] # Absent})
  /\ UNCHANGED <<cache, updates>> /\ UNCHANGED bootOthers

\* Phase 4: re_emit_pool.
Reemit(p) ==
  /\ Working("emit") /\ p \in boot.todo /\ Finished(p)
  /\ updates' = IF HasData(cache[p].math) THEN Offered(updates, UpdateCap, p) ELSE updates
  /\ UNCHANGED cache /\ UNCHANGED bootOthers

\* full_pipeline arms the scanner when bootstrap_pools has returned.
Arm ==
  /\ Passed("emit") /\ Enter("armed", {}) /\ ready' = TRUE
  /\ UNCHANGED <<cache, updates, opps, recent, clean, task>>

BootStep ==
  \/ \E p \in Pools : BootRegister(p) \/ BootVault(p) \/ BootArrays(p) \/ Reemit(p)
  \/ BootPhase2 \/ BootPhase3 \/ BootPhase4 \/ Arm

BootNext == BootStep \/ \E p \in Pools : BootFails(p) \/ BootVaultFails(p)
=============================================================================
