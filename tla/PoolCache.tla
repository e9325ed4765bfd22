------------------------------ MODULE PoolCache ------------------------------
(* The state of PoolStateCache (pool/cache.rs) and its operations.             *)
(*                                                                           *)
(* An operation that holds a DashMap entry for its whole duration is one      *)
(* atomic step; `insert`, which touches four maps one after the other, is     *)
(* four.  The module has no behaviour of its own: PoolStreamer calls it.      *)
(*                                                                           *)
(* Data is abstracted to versions: a balance, the price/liquidity pair of a   *)
(* pool account or the content of an array account is the slot of the chain   *)
(* state it was read from, 0 standing for "zero" or "not there".              *)
EXTENDS Integers, Sequences

CONSTANTS
  Pools,      \* pool addresses
  Kind,       \* Pools -> Kinds: the PoolMath variant of a pool
  Ticks,      \* tick_current / active_id values
  Idx,        \* indices of tick arrays / bin arrays
  Span,       \* ticks (bins) of one array account of a pool
  CheckSpan,  \* ticks of an array as update_math counts them, for every CLMM
  Radius,     \* arrays fetched on each side of the current one
  MaxVer,     \* bound: the last slot
  ChanCap     \* capacity of the PoolUpdate channel (update_channel_size)

Kinds == {"cp", "damm", "clmm", "orca", "dlmm"}

ASSUME CacheAssumption ==
  /\ Kind \in [Pools -> Kinds]
  /\ Ticks \subseteq Int /\ Ticks # {} /\ Idx \subseteq Int
  /\ Span \in [Pools -> Nat \ {0}]
  /\ CheckSpan \in Nat \ {0}
  /\ \A p \in Pools : Kind[p] = "clmm" => Span[p] = CheckSpan
  /\ Radius \in [Pools -> Nat]
  /\ MaxVer \in Nat \ {0}
  /\ ChanCap \in Nat \ {0}

VARIABLES
  cached,       \* keys of `pools`
  pool,         \* values of `pools` (meaningful on `cached`)
  vaultIndex,   \* keys of `vault_to_pool`
  arrayIndex,   \* entries of `tick_array_to_pool`
  mintIndex,    \* pools listed under their mints in `mint_to_pools`
  tickQ,        \* `tick_reload_queue`
  binQ,         \* `bin_array_reload_queue`
  reloadPermit, \* the permit `tick_reload_notify` holds
  inFlight,     \* number of updates in `update_tx`
  sent,         \* content of the last update sent for a pool
  lost          \* history: pools whose last update found the channel full

chanVars  == <<inFlight, sent, lost>>
indexVars == <<vaultIndex, arrayIndex, mintIndex>>
queueVars == <<tickQ, binQ, reloadPermit>>
cacheVars == <<cached, pool, indexVars, queueVars, chanVars>>

Vers   == 0..MaxVer
Sides  == {"a", "b"}
Vaults == Pools \X Sides
Fees   == {"zero", "default", "config"}

\* The content of an array: the slot it is from, Absent when it is not loaded,
\* Garbled when it was decoded with another tick spacing than the pool's.
Absent   == 0
Garbled  == -1
Arrays   == [Idx -> {Garbled} \cup Vers]
NoArrays == [i \in Idx |-> Absent]
Loaded(arrays) == {i \in Idx : arrays[i] # Absent}

\* limit_in_a / limit_in_b are a function of these four fields; the model keeps
\* the arguments they were computed from.
Limits  == [px : Vers, cur : Ticks, arrays : Arrays, fee : Fees]
AnyTick == CHOOSE t \in Ticks : TRUE
NoLimit == [px |-> 0, cur |-> AnyTick, arrays |-> NoArrays, fee |-> "zero"]

PoolState ==
  [ra : Vers, rb : Vers, fee : Fees, px : Vers, cur : Ticks, arrays : Arrays,
   extra : SUBSET Idx, lim : Limits, slot : Vers]

BlankPool ==
  [ra |-> 0, rb |-> 0, fee |-> "zero", px |-> 0, cur |-> AnyTick,
   arrays |-> NoArrays, extra |-> {}, lim |-> NoLimit, slot |-> 0]

Concentrated(p) == Kind[p] \in {"clmm", "orca"}

-----------------------------------------------------------------------------
(* Helpers of state.rs and of the decoders.                                   *)

\* compute_clmm_limits_with_fee: zero limits without arrays, otherwise a
\* function of price, liquidity, tick, arrays and fee.
ComputeLimits(st) ==
  IF st.arrays = NoArrays THEN NoLimit
  ELSE [px |-> st.px, cur |-> st.cur, arrays |-> st.arrays, fee |-> st.fee]

\* tick_array_start_index and bin_id_to_bin_array_index: division towards minus
\* infinity, which is what \div is.
ArrayOf(p, t) == t \div Span[p]

\* tick_array_start_indices and bin_array_pdas_for_swap.
Window(p, t) == {i \in Idx : /\ i >= ArrayOf(p, t) - Radius[p]
                             /\ i <= ArrayOf(p, t) + Radius[p]}

\* The `covered` test of update_math: for CLMM and Orca alike an array is taken
\* to hold CheckSpan ticks.
Covered(p, arrays, t) ==
  IF Kind[p] = "dlmm" THEN ArrayOf(p, t) \in Loaded(arrays)
  ELSE \E i \in Loaded(arrays) : i * Span[p] <= t /\ t < i * Span[p] + CheckSpan

-----------------------------------------------------------------------------
(* Operations.                                                                *)

\* update_tx.try_send: an update that finds the channel full is dropped.
Emit(p, st) ==
  IF inFlight < ChanCap
  THEN /\ inFlight' = inFlight + 1
       /\ sent' = [sent EXCEPT ![p] = st]
       /\ lost' = lost \ {p}
  ELSE /\ lost' = lost \cup {p}
       /\ UNCHANGED <<inFlight, sent>>

\* Mutant: the update is made before the new state is stored.
StoreAfterEmit(p, st) ==
  /\ pool' = [pool EXCEPT ![p] = st]
  /\ Emit(p, pool[p])

\* Store st under the entry lock and emit it before the lock is released.
Store(p, st) ==
  /\ pool' = [pool EXCEPT ![p] = st]
  /\ Emit(p, st)

CacheInit ==
  /\ cached = {} /\ vaultIndex = {} /\ arrayIndex = {} /\ mintIndex = {}
  /\ pool = [p \in Pools |-> BlankPool]
  /\ tickQ = {} /\ binQ = {} /\ reloadPermit = FALSE
  /\ inFlight = 0 /\ sent = [p \in Pools |-> BlankPool] /\ lost = {}

\* The receiver of the channel takes an update.
Receive ==
  /\ inFlight > 0
  /\ inFlight' = inFlight - 1
  /\ UNCHANGED <<cached, pool, indexVars, queueVars, sent, lost>>

\* insert, in the order of the code: vault index, update, mint index, pools.
WithLimits(p, st) ==
  IF Concentrated(p) THEN [st EXCEPT !.lim = ComputeLimits(st)] ELSE st

InsertVaults(p) ==
  /\ vaultIndex' = vaultIndex \cup ({p} \X Sides)
  /\ UNCHANGED <<cached, pool, arrayIndex, mintIndex, queueVars, chanVars>>

\* Mutant: the pool can be seen before its mints are indexed.
InsertEmitEarly(p, st) ==
  /\ Emit(p, WithLimits(p, st))
  /\ cached' = cached \cup {p}
  /\ pool' = [pool EXCEPT ![p] = WithLimits(p, st)]
  /\ UNCHANGED <<indexVars, queueVars>>

InsertEmit(p, st) ==
  /\ Emit(p, WithLimits(p, st))
  /\ UNCHANGED <<cached, pool, indexVars, queueVars>>

InsertMints(p) ==
  /\ mintIndex' = mintIndex \cup {p}
  /\ UNCHANGED <<cached, pool, vaultIndex, arrayIndex, queueVars, chanVars>>

InsertPool(p, st) ==
  /\ cached' = cached \cup {p}
  /\ pool' = [pool EXCEPT ![p] = WithLimits(p, st)]
  /\ UNCHANGED <<indexVars, queueVars, chanVars>>

\* A freshly decoded pool account carries no arrays, no vault balances unless
\* the account itself holds the reserves, and the decoder's own fee.
NonZero(new, old) == IF new # 0 THEN new ELSE old

\* Mutant: the decoded math replaces the stored one.
MergeMathOverwrite(p, old, new) ==
  WithLimits(p, [new EXCEPT !.arrays = old.arrays, !.extra = old.extra])

MergeMath(p, old, new) ==
  CASE Kind[p] = "cp" ->
         [old EXCEPT !.ra = NonZero(new.ra, @), !.rb = NonZero(new.rb, @),
                     !.slot = new.slot]
    [] Concentrated(p) ->
         WithLimits(p, [old EXCEPT !.px = new.px, !.cur = new.cur, !.slot = new.slot,
                          !.fee = IF new.fee # "zero" THEN new.fee ELSE @])
    [] OTHER ->
         [old EXCEPT !.px = new.px, !.cur = new.cur, !.slot = new.slot, !.fee = new.fee]

\* The tick (active bin) moved to where no loaded array is.
NeedsReload(p, old, new) ==
  /\ Concentrated(p) \/ Kind[p] = "dlmm"
  /\ old.arrays # NoArrays
  /\ new.cur # old.cur
  /\ ~Covered(p, old.arrays, new.cur)

\* One request per pool: a pool already queued keeps its older request.
Request(q, p, cur) == IF \E r \in q : r[1] = p THEN q ELSE q \cup {<<p, cur>>}

\* got: what try_lock on the reload queue answers.
UpdateMath(p, new, got) ==
  LET ask == NeedsReload(p, pool[p], new) /\ got IN
  /\ Store(p, MergeMath(p, pool[p], new))
  /\ tickQ' = IF ask /\ Concentrated(p) THEN Request(tickQ, p, new.cur) ELSE tickQ
  /\ binQ' = IF ask /\ Kind[p] = "dlmm" THEN Request(binQ, p, new.cur) ELSE binQ
  /\ reloadPermit' = (reloadPermit \/ tickQ' # tickQ \/ binQ' # binQ)
  /\ UNCHANGED <<cached, indexVars>>

\* Reserves are vault balances for constant-product pools only; the slot and the
\* update are for every kind.
SetBalance(p, side, balance, slot) ==
  [pool[p] EXCEPT !.slot = slot,
                  !.ra = IF Kind[p] = "cp" /\ side = "a" THEN balance ELSE @,
                  !.rb = IF Kind[p] = "cp" /\ side = "b" THEN balance ELSE @]

UpdateVaultBalance(p, side, balance, slot) ==
  /\ IF <<p, side>> \in vaultIndex /\ p \in cached
     THEN Store(p, SetBalance(p, side, balance, slot))
     ELSE UNCHANGED <<pool, chanVars>>
  /\ UNCHANGED <<cached, indexVars, queueVars>>

\* Mutant: the limits are not computed again.
UpdateArrayOnly(p, i, ver, slot) ==
  /\ IF <<p, i>> \in arrayIndex /\ p \in cached
     THEN Store(p, [pool[p] EXCEPT !.arrays[i] = ver, !.slot = slot])
     ELSE UNCHANGED <<pool, chanVars>>
  /\ UNCHANGED <<cached, indexVars, queueVars>>

\* update_tick_array and update_bin_array: nothing happens when the account is
\* not in the index or its pool is not in the cache.
UpdateArray(p, i, ver, slot) ==
  /\ IF <<p, i>> \in arrayIndex /\ p \in cached
     THEN Store(p, WithLimits(p, [pool[p] EXCEPT !.arrays[i] = ver, !.slot = slot]))
     ELSE UNCHANGED <<pool, chanVars>>
  /\ UNCHANGED <<cached, indexVars, queueVars>>

\* register_tick_array for each array of is.
RegisterArrays(p, is) == arrayIndex' = arrayIndex \cup ({p} \X is)

\* replace_tick_arrays; an empty answer replaces nothing.
ReplaceTickArrays(p, arrays) ==
  IF arrays = NoArrays THEN UNCHANGED <<pool, chanVars>>
  ELSE Store(p, WithLimits(p, [pool[p] EXCEPT !.arrays = arrays]))

\* replace_bin_arrays_simple: neither extra_accounts nor the index change.
ReplaceBinArraysSimple(p, arrays, slot) ==
  Store(p, [pool[p] EXCEPT !.arrays = arrays, !.slot = slot])
=============================================================================
