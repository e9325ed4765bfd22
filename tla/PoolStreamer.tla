----------------------------- MODULE PoolStreamer -----------------------------
(* The event handlers of PoolStreamer (pool/streamer.rs) and its background    *)
(* workers, as executor/examples/full_pipeline.rs runs them: every gRPC event  *)
(* is a tokio task of its own, and three loops (vault fetcher, tick reloader,  *)
(* DLMM refresher) sleep on a Notify each.  A step of a task ends where the    *)
(* code awaits, or where another thread can see what it did.                   *)
EXTENDS PoolCache, FiniteSets

CONSTANTS
  Tasks,      \* bound: event handlers running at the same time
  Feed,       \* the events the gRPC stream can carry
  MaxEvents,  \* bound: events delivered
  MaxFail,    \* bound: RPC calls that fail, whole or in part
  OnChain,    \* the arrays that exist on chain
  VaultChunk, \* getMultipleAccounts: vaults per call (50 in the code)
  ArrayChunk  \* getMultipleAccounts: bin arrays per call (50 in the code)

EventTypes == {"account", "discovery", "boot", "token", "array", "block"}

\* p: the pool; side: the vault; idx: the array; cur: the decoded tick or active
\* id; mints: the event tells both mints; res: the account holds the reserves.
Event == [type : EventTypes, p : Pools, side : Sides, idx : Idx, cur : Ticks,
          mints : BOOLEAN, res : BOOLEAN]

ASSUME StreamerAssumption ==
  /\ Feed \subseteq Event /\ Feed # {}
  /\ MaxEvents \in Nat /\ MaxFail \in Nat
  /\ OnChain \subseteq Pools \X Idx
  /\ VaultChunk \in Nat \ {0} /\ ArrayChunk \in Nat \ {0}

VARIABLES
  now,          \* the slot the chain is at
  budget,       \* events still to come
  fails,        \* RPC failures so far
  task,         \* the event handlers
  discovered,   \* pending_discoveries
  pendingSubs,  \* everything pushed to pending_subscriptions
  pendingVaults, vaultPermit,  \* pending_vaults, vault_notify
  dirty, dlmmPermit,           \* dirty_dlmm_pools, dlmm_refresh_notify
  latestHash, latestSlot,      \* latest_blockhash (0: None), its slot
  fetcher, reloader, refresher, \* the three loops
  answered,     \* history: vaults some batch fetch answered
  booted,       \* history: pools inserted by register_pool_lightweight
  overwritten   \* history: pools inserted again while cached

envVars   == <<now, budget, fails>>
blockVars == <<latestHash, latestSlot>>
fetchVars == <<pendingVaults, vaultPermit, fetcher, answered>>
dlmmVars  == <<dirty, dlmmPermit, refresher>>
histVars  == <<booted, overwritten>>
vars == <<cacheVars, envVars, task, discovered, pendingSubs, blockVars,
          fetchVars, dlmmVars, reloader, histVars>>

VaultsOf(p) == {p} \X Sides

\* A handler: its event, the slot the event is from, the pool state it builds
\* and the slot (or whether the pool was found) it read before a write.
AnyEvent == CHOOSE e \in Feed : TRUE
IdleTask == [pc |-> "idle", ev |-> AnyEvent, at |-> 0, st |-> BlankPool, read |-> 0]
IdleFetcher == [pc |-> "wait", batch |-> {}, got |-> [v \in Vaults |-> 0], slot |-> 0]
IdleReloader == [pc |-> "wait", reqs |-> {}, cur |-> {}, left |-> {}, got |-> NoArrays]
IdleRefresher == [pc |-> "wait", pdas |-> {}, cut |-> {}, got |-> {}, ver |-> 0, slot |-> 0]

Init ==
  /\ CacheInit
  /\ now = 1 /\ budget = MaxEvents /\ fails = 0
  /\ task = [t \in Tasks |-> IdleTask]
  /\ discovered = [p \in Pools |-> "no"]
  /\ pendingSubs = {} /\ pendingVaults = {} /\ vaultPermit = FALSE
  /\ dirty = {} /\ dlmmPermit = FALSE
  /\ latestHash = 0 /\ latestSlot = 0
  /\ fetcher = IdleFetcher
  /\ reloader = IdleReloader
  /\ refresher = IdleRefresher
  /\ answered = {} /\ booted = {} /\ overwritten = {}

At(t, l)   == task[t].pc = l
Goto(t, l) == task' = [task EXCEPT ![t].pc = l]
Done(t)    == task' = [task EXCEPT ![t] = IdleTask]
PoolOf(t)  == task[t].ev.p

-----------------------------------------------------------------------------
(* The chain and the stream.                                                  *)

Advance ==
  /\ now < MaxVer
  /\ now' = now + 1
  /\ UNCHANGED <<cacheVars, budget, fails, task, discovered, pendingSubs, blockVars,
                 fetchVars, dlmmVars, reloader, histVars>>

\* The label a handler of an event starts at, and what the decoder makes of a
\* pool account: no arrays, the decoder's fee, and for a DLMM pool the addresses
\* of the arrays around the active one.
Entry ==
  [account |-> "contains", discovery |-> "discContains", boot |-> "bootContains",
   token |-> "token", array |-> "spacing", block |-> "blockLoad"]

DecodedFee(p) ==
  CASE Kind[p] = "cp" -> "default" [] Kind[p] = "clmm" -> "zero" [] OTHER -> "config"

Decoded(e, slot) ==
  [BlankPool EXCEPT !.ra = IF e.res THEN slot ELSE 0,
                    !.rb = IF e.res THEN slot ELSE 0,
                    !.px = slot, !.cur = e.cur, !.slot = slot,
                    !.fee = DecodedFee(e.p),
                    !.extra = IF Kind[e.p] = "dlmm" THEN Window(e.p, e.cur) ELSE {}]

\* subscribe_events_immediate's callback: tokio::spawn(streamer.on_event(event)).
Deliver(t, e) ==
  /\ budget > 0
  /\ At(t, "idle")
  /\ budget' = budget - 1
  /\ task' = [task EXCEPT ![t] =
                [pc |-> Entry[e.type], ev |-> e, at |-> now, st |-> Decoded(e, now),
                 read |-> 0]]
  /\ UNCHANGED <<cacheVars, now, fails, discovered, pendingSubs, blockVars,
                 fetchVars, dlmmVars, reloader, histVars>>

\* RPC calls of which the ones in missed fail.  An answer is the state at any
\* slot up to now: the RPC node reads a later commitment level than the stream.
Rpc(missed) ==
  /\ missed = {} \/ fails < MaxFail
  /\ fails' = IF missed = {} THEN fails ELSE fails + 1

Wanted(p, cur) == {i \in Window(p, cur) : <<p, i>> \in OnChain}
Answer(is, v)  == [i \in Idx |-> IF i \in is THEN v ELSE Absent]

-----------------------------------------------------------------------------
(* handle_discovery.                                                          *)

DiscContains(t) ==
  /\ At(t, "discContains")
  /\ IF PoolOf(t) \in cached THEN Done(t) ELSE Goto(t, "discPending")
  /\ UNCHANGED <<cacheVars, envVars, discovered, pendingSubs, blockVars, fetchVars,
                 dlmmVars, reloader, histVars>>

DiscPending(t) ==
  /\ At(t, "discPending")
  /\ IF discovered[PoolOf(t)] # "no" THEN Done(t) ELSE Goto(t, "discInsert")
  /\ UNCHANGED <<cacheVars, envVars, discovered, pendingSubs, blockVars, fetchVars,
                 dlmmVars, reloader, histVars>>

DiscInsert(t) ==
  /\ At(t, "discInsert")
  /\ discovered' = [discovered EXCEPT ![PoolOf(t)] =
                      IF task[t].ev.mints THEN "mints" ELSE "bare"]
  /\ Done(t)
  /\ UNCHANGED <<cacheVars, envVars, pendingSubs, blockVars, fetchVars, dlmmVars,
                 reloader, histVars>>

-----------------------------------------------------------------------------
(* handle_account_update: a pool that is in the cache.                         *)

Contains(t) ==
  /\ At(t, "contains")
  /\ Goto(t, IF PoolOf(t) \in cached THEN "math" ELSE "claim")
  /\ UNCHANGED <<cacheVars, envVars, discovered, pendingSubs, blockVars, fetchVars,
                 dlmmVars, reloader, histVars>>

\* A handler of another pool may be in update_math with the queue locked, and the
\* reloader locks the tick queue to drain it.
ReloadLockTaken(t) ==
  \/ reloader.pc = "drain" /\ Concentrated(PoolOf(t))
  \/ \E u \in Tasks \ {t} :
       /\ At(u, "math") /\ PoolOf(u) # PoolOf(t)
       /\ (Kind[PoolOf(u)] = "dlmm") = (Kind[PoolOf(t)] = "dlmm")
       /\ NeedsReload(PoolOf(u), pool[PoolOf(u)], task[u].st)

Math(t) ==
  /\ At(t, "math")
  /\ \E got \in BOOLEAN :
       /\ got \/ ReloadLockTaken(t)
       /\ UpdateMath(PoolOf(t), task[t].st, got)
  /\ Goto(t, "needs")
  /\ UNCHANGED <<envVars, discovered, pendingSubs, blockVars, fetchVars, dlmmVars,
                 reloader, histVars>>

NeedsVaults(p) == Kind[p] = "cp" /\ pool[p].ra = 0 /\ pool[p].rb = 0

Needs(t) ==
  /\ At(t, "needs")
  /\ IF NeedsVaults(PoolOf(t)) THEN Goto(t, "requeue") ELSE Done(t)
  /\ UNCHANGED <<cacheVars, envVars, discovered, pendingSubs, blockVars, fetchVars,
                 dlmmVars, reloader, histVars>>

\* Both queues are locked while both are filled.
Requeue(t) ==
  /\ At(t, "requeue")
  /\ pendingSubs' = pendingSubs \cup VaultsOf(PoolOf(t))
  /\ pendingVaults' = pendingVaults \cup VaultsOf(PoolOf(t))
  /\ Goto(t, "wake")
  /\ UNCHANGED <<cacheVars, envVars, discovered, blockVars, vaultPermit, fetcher,
                 answered, dlmmVars, reloader, histVars>>

\* Mutant: notify_waiters, which leaves no permit when the fetcher is busy.
WakeWaiters(t) ==
  /\ At(t, "wake")
  /\ vaultPermit' = (vaultPermit \/ fetcher.pc = "wait")
  /\ Done(t)
  /\ UNCHANGED <<cacheVars, envVars, discovered, pendingSubs, blockVars, pendingVaults,
                 fetcher, answered, dlmmVars, reloader, histVars>>

\* vault_notify.notify_one(), the end of both branches.
Wake(t) ==
  /\ At(t, "wake")
  /\ vaultPermit' = TRUE
  /\ Done(t)
  /\ UNCHANGED <<cacheVars, envVars, discovered, pendingSubs, blockVars, pendingVaults,
                 fetcher, answered, dlmmVars, reloader, histVars>>

-----------------------------------------------------------------------------
(* handle_account_update: a pool that is not in the cache yet.                 *)

\* Take the discovery, patch the mints, give up when they stay unknown.
Claim(t) ==
  /\ At(t, "claim")
  /\ discovered' = [discovered EXCEPT ![PoolOf(t)] = "no"]
  /\ IF task[t].ev.mints \/ discovered[PoolOf(t)] = "mints"
     THEN Goto(t, "subscribe") ELSE Done(t)
  /\ UNCHANGED <<cacheVars, envVars, pendingSubs, blockVars, fetchVars, dlmmVars,
                 reloader, histVars>>

\* Mutant: vaults are subscribed only when the mints came with a discovery.
SubscribeDiscovered(t) ==
  /\ At(t, "subscribe")
  /\ pendingSubs' = IF task[t].ev.mints THEN pendingSubs \cup VaultsOf(PoolOf(t))
                    ELSE pendingSubs
  /\ Goto(t, CASE Kind[PoolOf(t)] \in {"cp", "clmm"}   -> "fetchFee"
               [] Kind[PoolOf(t)] \in {"orca", "dlmm"} -> "fetchArrays"
               [] OTHER -> "insVaults")
  /\ UNCHANGED <<cacheVars, envVars, discovered, blockVars, fetchVars, dlmmVars,
                 reloader, histVars>>

Subscribe(t) ==
  /\ At(t, "subscribe")
  /\ pendingSubs' = pendingSubs \cup VaultsOf(PoolOf(t))
  /\ Goto(t, CASE Kind[PoolOf(t)] \in {"cp", "clmm"}   -> "fetchFee"
               [] Kind[PoolOf(t)] \in {"orca", "dlmm"} -> "fetchArrays"
               [] OTHER -> "insVaults")
  /\ UNCHANGED <<cacheVars, envVars, discovered, blockVars, fetchVars, dlmmVars,
                 reloader, histVars>>

\* fetch_clmm_extras, fetch_cpmm_fee, apply_pumpswap_fee: the configured fee, or
\* what the decoder set when the call fails.
FetchFee(t) ==
  /\ At(t, "fetchFee")
  /\ \E missed \in SUBSET {"config"} :
       /\ Rpc(missed)
       /\ task' = [task EXCEPT
            ![t].pc = IF Concentrated(PoolOf(t)) THEN "fetchArrays" ELSE "insVaults",
            ![t].st.fee = IF missed = {} THEN "config" ELSE @]
  /\ UNCHANGED <<cacheVars, now, budget, discovered, pendingSubs, blockVars, fetchVars,
                 dlmmVars, reloader, histVars>>

\* fetch_clmm_extras, fetch_whirlpool_tick_arrays, fetch_dlmm_bin_arrays: the
\* arrays that arrive are registered, and listed in a DLMM pool's extra accounts.
FetchArrays(t) ==
  /\ At(t, "fetchArrays")
  /\ \E missed \in SUBSET Wanted(PoolOf(t), task[t].st.cur), v \in 1..now :
       LET is == Wanted(PoolOf(t), task[t].st.cur) \ missed IN
       /\ Rpc(missed)
       /\ RegisterArrays(PoolOf(t), is)
       /\ task' = [task EXCEPT
            ![t].pc = "insVaults",
            ![t].st.arrays = Answer(is, v),
            ![t].st.extra = IF Kind[PoolOf(t)] = "dlmm" THEN is ELSE @]
  /\ UNCHANGED <<cached, pool, vaultIndex, mintIndex, queueVars, chanVars, now, budget,
                 discovered, pendingSubs, blockVars, fetchVars, dlmmVars, reloader, histVars>>

InsVaults(t) ==
  /\ At(t, "insVaults")
  /\ InsertVaults(PoolOf(t))
  /\ Goto(t, "insEmit")
  /\ UNCHANGED <<envVars, discovered, pendingSubs, blockVars, fetchVars, dlmmVars,
                 reloader, histVars>>

InsEmit(t) ==
  /\ At(t, "insEmit")
  /\ InsertEmit(PoolOf(t), task[t].st)
  /\ Goto(t, "insMints")
  /\ UNCHANGED <<envVars, discovered, pendingSubs, blockVars, fetchVars, dlmmVars,
                 reloader, histVars>>

InsMints(t) ==
  /\ At(t, "insMints")
  /\ InsertMints(PoolOf(t))
  /\ Goto(t, "insPool")
  /\ UNCHANGED <<envVars, discovered, pendingSubs, blockVars, fetchVars, dlmmVars,
                 reloader, histVars>>

\* The lightweight registration ends here; the handler goes on to its vaults.
InsPool(t) ==
  /\ At(t, "insPool")
  /\ InsertPool(PoolOf(t), task[t].st)
  /\ overwritten' = overwritten \cup (cached \cap {PoolOf(t)})
  /\ IF task[t].ev.type = "boot"
     THEN /\ booted' = booted \cup {PoolOf(t)}
          /\ Done(t)
     ELSE /\ booted' = booted
          /\ Goto(t, "queueVaults")
  /\ UNCHANGED <<envVars, discovered, pendingSubs, blockVars, fetchVars, dlmmVars,
                 reloader>>

\* Mutant: nobody is woken after a registration.
QueueVaultsSilent(t) ==
  /\ At(t, "queueVaults")
  /\ pendingVaults' = pendingVaults \cup VaultsOf(PoolOf(t))
  /\ Done(t)
  /\ UNCHANGED <<cacheVars, envVars, discovered, pendingSubs, blockVars, vaultPermit,
                 fetcher, answered, dlmmVars, reloader, histVars>>

QueueVaults(t) ==
  /\ At(t, "queueVaults")
  /\ pendingVaults' = pendingVaults \cup VaultsOf(PoolOf(t))
  /\ Goto(t, "wake")
  /\ UNCHANGED <<cacheVars, envVars, discovered, pendingSubs, blockVars, vaultPermit,
                 fetcher, answered, dlmmVars, reloader, histVars>>

\* register_pool_lightweight up to its insert.
BootContains(t) ==
  /\ At(t, "bootContains")
  /\ IF PoolOf(t) \in cached \/ ~task[t].ev.mints THEN Done(t) ELSE Goto(t, "insVaults")
  /\ UNCHANGED <<cacheVars, envVars, discovered, pendingSubs, blockVars, fetchVars,
                 dlmmVars, reloader, histVars>>

-----------------------------------------------------------------------------
(* The other events: vault token accounts, array accounts, block metadata.     *)

\* Mutant: a pool of any kind is marked, not only a DLMM pool.
TokenMarksAll(t) ==
  /\ At(t, "token")
  /\ UpdateVaultBalance(PoolOf(t), task[t].ev.side, task[t].at, task[t].at)
  /\ IF <<PoolOf(t), task[t].ev.side>> \in vaultIndex /\ PoolOf(t) \in cached
     THEN Goto(t, "dirty") ELSE Done(t)
  /\ UNCHANGED <<envVars, discovered, pendingSubs, blockVars, fetchVars, dlmmVars,
                 reloader, histVars>>

\* is_vault_a decides whether the event is a known vault's; a known vault stays
\* known, so the test and the update are one step.
Token(t) ==
  /\ At(t, "token")
  /\ UpdateVaultBalance(PoolOf(t), task[t].ev.side, task[t].at, task[t].at)
  /\ IF /\ <<PoolOf(t), task[t].ev.side>> \in vaultIndex /\ PoolOf(t) \in cached
        /\ Kind[PoolOf(t)] = "dlmm"
     THEN Goto(t, "dirty") ELSE Done(t)
  /\ UNCHANGED <<envVars, discovered, pendingSubs, blockVars, fetchVars, dlmmVars,
                 reloader, histVars>>

DirtyLockTaken(t) ==
  refresher.pc = "drain" \/ \E u \in Tasks \ {t} : At(u, "dirty")

\* Mutant: the refresher is not woken.
MarkDirtySilent(t) ==
  /\ At(t, "dirty")
  /\ dirty' = dirty \cup {PoolOf(t)}
  /\ Done(t)
  /\ UNCHANGED <<cacheVars, envVars, discovered, pendingSubs, blockVars, fetchVars,
                 dlmmPermit, refresher, reloader, histVars>>

\* try_lock: when the set is locked the pool is not marked, and the refresher is
\* woken all the same.
MarkDirty(t) ==
  /\ At(t, "dirty")
  /\ \/ dirty' = dirty \cup {PoolOf(t)}
     \/ DirtyLockTaken(t) /\ dirty' = dirty
  /\ Goto(t, "dirtyWake")
  /\ UNCHANGED <<cacheVars, envVars, discovered, pendingSubs, blockVars, fetchVars,
                 dlmmPermit, refresher, reloader, histVars>>

\* Mutant: notify_waiters, which leaves no permit when the refresher is busy.
DirtyWakeWaiters(t) ==
  /\ At(t, "dirtyWake")
  /\ dlmmPermit' = (dlmmPermit \/ refresher.pc = "wait")
  /\ Done(t)
  /\ UNCHANGED <<cacheVars, envVars, discovered, pendingSubs, blockVars, fetchVars,
                 dirty, refresher, reloader, histVars>>

DirtyWake(t) ==
  /\ At(t, "dirtyWake")
  /\ dlmmPermit' = TRUE
  /\ Done(t)
  /\ UNCHANGED <<cacheVars, envVars, discovered, pendingSubs, blockVars, fetchVars,
                 dirty, refresher, reloader, histVars>>

\* An Orca array is decoded with the spacing of its pool, or with 1 when the pool
\* is not in the cache; the other kinds need nothing of the pool.
ReadSpacing(t) ==
  /\ At(t, "spacing")
  /\ task' = [task EXCEPT ![t].pc = "array",
                          ![t].read = IF PoolOf(t) \in cached THEN 1 ELSE 0]
  /\ UNCHANGED <<cacheVars, envVars, discovered, pendingSubs, blockVars, fetchVars,
                 dlmmVars, reloader, histVars>>

Array(t) ==
  /\ At(t, "array")
  /\ UpdateArray(PoolOf(t), task[t].ev.idx,
                 IF Kind[PoolOf(t)] = "orca" /\ task[t].read = 0 THEN Garbled
                 ELSE task[t].at,
                 task[t].at)
  /\ Done(t)
  /\ UNCHANGED <<envVars, discovered, pendingSubs, blockVars, fetchVars, dlmmVars,
                 reloader, histVars>>

\* BlockMeta: the slot is read, the hash written under its lock (an await), the
\* slot stored.  The hash of a slot is the slot.
BlockLoad(t) ==
  /\ At(t, "blockLoad")
  /\ IF task[t].at > latestSlot THEN Goto(t, "blockHash") ELSE Done(t)
  /\ UNCHANGED <<cacheVars, envVars, discovered, pendingSubs, blockVars, fetchVars,
                 dlmmVars, reloader, histVars>>

BlockHash(t) ==
  /\ At(t, "blockHash")
  /\ latestHash' = task[t].at
  /\ Goto(t, "blockSlot")
  /\ UNCHANGED <<cacheVars, envVars, discovered, pendingSubs, latestSlot, fetchVars,
                 dlmmVars, reloader, histVars>>

BlockSlot(t) ==
  /\ At(t, "blockSlot")
  /\ latestSlot' = task[t].at
  /\ Done(t)
  /\ UNCHANGED <<cacheVars, envVars, discovered, pendingSubs, latestHash, fetchVars,
                 dlmmVars, reloader, histVars>>

-----------------------------------------------------------------------------
(* The vault fetcher: notified().await, then flush_pending_vaults.             *)

FetcherWake ==
  /\ fetcher.pc = "wait" /\ vaultPermit
  /\ vaultPermit' = FALSE
  /\ fetcher' = [fetcher EXCEPT !.pc = "drain"]
  /\ UNCHANGED <<cacheVars, envVars, task, discovered, pendingSubs, blockVars,
                 pendingVaults, answered, dlmmVars, reloader, histVars>>

FetcherDrain ==
  /\ fetcher.pc = "drain"
  /\ pendingVaults' = {}
  /\ fetcher' = [fetcher EXCEPT !.pc = IF pendingVaults = {} THEN "wait" ELSE "fetch",
                                !.batch = pendingVaults]
  /\ UNCHANGED <<cacheVars, envVars, task, discovered, pendingSubs, blockVars,
                 vaultPermit, answered, dlmmVars, reloader, histVars>>

\* A chunk of what is left of the batch.
Chunks == {c \in SUBSET fetcher.batch :
             \/ Cardinality(c) = VaultChunk
             \/ c = fetcher.batch /\ Cardinality(c) < VaultChunk}

AfterChunk(c) == IF fetcher.batch = c THEN "wait" ELSE "fetch"

\* The call succeeds: a balance for every vault the node knows (an account it
\* does not know is passed over).
FetchVaults ==
  /\ fetcher.pc = "fetch"
  /\ \E c \in Chunks : \E missed \in SUBSET c, v \in 1..now :
       /\ Rpc(missed)
       /\ answered' = answered \cup c
       /\ fetcher' = [pc |-> IF c = missed THEN AfterChunk(c) ELSE "apply",
                      batch |-> fetcher.batch \ c,
                      got |-> [w \in Vaults |-> IF w \in c \ missed THEN v ELSE 0],
                      slot |-> latestSlot]
  /\ UNCHANGED <<cacheVars, now, budget, task, discovered, pendingSubs, blockVars,
                 pendingVaults, vaultPermit, dlmmVars, reloader, histVars>>

\* Mutant: the vaults of a failed call are not queued again.
FetchVaultsForgets ==
  /\ fetcher.pc = "fetch"
  /\ \E c \in Chunks :
       /\ Rpc(c)
       /\ fetcher' = [fetcher EXCEPT !.pc = AfterChunk(c), !.batch = @ \ c]
  /\ UNCHANGED <<cacheVars, now, budget, task, discovered, pendingSubs, blockVars,
                 pendingVaults, vaultPermit, answered, dlmmVars, reloader, histVars>>

\* The call fails: its vaults go back to the queue, and nobody is woken.
FetchVaultsFails ==
  /\ fetcher.pc = "fetch"
  /\ \E c \in Chunks :
       /\ Rpc(c)
       /\ pendingVaults' = pendingVaults \cup c
       /\ fetcher' = [fetcher EXCEPT !.pc = AfterChunk(c), !.batch = @ \ c]
  /\ UNCHANGED <<cacheVars, now, budget, task, discovered, pendingSubs, blockVars,
                 vaultPermit, answered, dlmmVars, reloader, histVars>>

\* update_vault_balance for each answer, with the slot that was the latest when the
\* answer of the chunk came.
ToApply == {w \in Vaults : fetcher.got[w] # 0}

ApplyVault ==
  /\ fetcher.pc = "apply"
  /\ \E w \in ToApply :
       /\ UpdateVaultBalance(w[1], w[2], fetcher.got[w], fetcher.slot)
       /\ fetcher' = [fetcher EXCEPT
                        !.got[w] = 0,
                        !.pc = IF ToApply # {w} THEN "apply"
                               ELSE IF fetcher.batch = {} THEN "wait" ELSE "fetch"]
  /\ UNCHANGED <<envVars, task, discovered, pendingSubs, blockVars, pendingVaults,
                 vaultPermit, answered, dlmmVars, reloader, histVars>>

-----------------------------------------------------------------------------
(* The tick reloader: notified().await, then flush_tick_reloads.               *)

ReloaderWake ==
  /\ reloader.pc = "wait" /\ reloadPermit
  /\ reloadPermit' = FALSE
  /\ reloader' = [reloader EXCEPT !.pc = "drain"]
  /\ UNCHANGED <<cached, pool, indexVars, tickQ, binQ, chanVars, envVars, task, discovered,
                 pendingSubs, blockVars, fetchVars, dlmmVars, histVars>>

\* Mutant: the queue is tried, and left alone when it is locked.
ReloaderDrainTry ==
  /\ reloader.pc = "drain"
  /\ \/ /\ tickQ' = {}
        /\ reloader' = [reloader EXCEPT !.pc = IF tickQ = {} THEN "wait" ELSE "load",
                                        !.reqs = tickQ]
     \/ tickQ' = tickQ /\ reloader' = IdleReloader
  /\ UNCHANGED <<cached, pool, indexVars, binQ, reloadPermit, chanVars, envVars, task,
                 discovered, pendingSubs, blockVars, fetchVars, dlmmVars, histVars>>

ReloaderDrain ==
  /\ reloader.pc = "drain"
  /\ tickQ' = {}
  /\ reloader' = [reloader EXCEPT !.pc = IF tickQ = {} THEN "wait" ELSE "load",
                                  !.reqs = tickQ]
  /\ UNCHANGED <<cached, pool, indexVars, binQ, reloadPermit, chanVars, envVars, task,
                 discovered, pendingSubs, blockVars, fetchVars, dlmmVars, histVars>>

\* The next request (cur: it alone): the window around its tick is to be loaded.
ReloadTake ==
  /\ reloader.pc = "load"
  /\ \E r \in reloader.reqs :
       reloader' = [pc |-> "array", reqs |-> reloader.reqs \ {r}, cur |-> {r},
                    left |-> Window(r[1], r[2]), got |-> NoArrays]
  /\ UNCHANGED <<cacheVars, envVars, task, discovered, pendingSubs, blockVars, fetchVars,
                 dlmmVars, histVars>>

\* Mutant: an array is fetched and not registered.
ReloadArrayOnly ==
  /\ reloader.pc = "array"
  /\ \E r \in reloader.cur, i \in reloader.left, v \in 1..now :
       /\ \A j \in reloader.left : i <= j
       /\ Rpc({})
       /\ reloader' = [reloader EXCEPT
                         !.left = @ \ {i},
                         !.got[i] = IF <<r[1], i>> \in OnChain THEN v ELSE @]
  /\ UNCHANGED <<cacheVars, now, budget, task, discovered, pendingSubs, blockVars,
                 fetchVars, dlmmVars, histVars>>

\* The arrays of the window, ascending: each is registered, and then asked for (an
\* await).  The answer is of any slot so far, so that a stream event between call and
\* replacement is undone in one of the outcomes.
ReloadArray ==
  /\ reloader.pc = "array"
  /\ \E r \in reloader.cur, i \in reloader.left :
       \E missed \in SUBSET (OnChain \cap {<<r[1], i>>}), v \in 1..now :
         /\ \A j \in reloader.left : i <= j
         /\ Rpc(missed)
         /\ RegisterArrays(r[1], {i})
         /\ reloader' = [reloader EXCEPT
                           !.left = @ \ {i},
                           !.got[i] = IF <<r[1], i>> \in OnChain \ missed THEN v ELSE @]
  /\ UNCHANGED <<cached, pool, vaultIndex, mintIndex, queueVars, chanVars, now, budget,
                 task, discovered, pendingSubs, blockVars, fetchVars, dlmmVars, histVars>>

\* What arrived replaces the arrays of the pool; the slot of the pool, read just
\* before, stays.
Reload ==
  /\ reloader.pc = "array" /\ reloader.left = {}
  /\ \E r \in reloader.cur : ReplaceTickArrays(r[1], reloader.got)
  /\ reloader' = [IdleReloader EXCEPT !.pc = IF reloader.reqs = {} THEN "wait" ELSE "load",
                                      !.reqs = reloader.reqs]
  /\ UNCHANGED <<cached, indexVars, queueVars, envVars, task, discovered, pendingSubs,
                 blockVars, fetchVars, dlmmVars, histVars>>

-----------------------------------------------------------------------------
(* The DLMM refresher: notified().await, sleep, then flush_dirty_dlmm_pools.    *)

RefresherWake ==
  /\ refresher.pc = "wait" /\ dlmmPermit
  /\ dlmmPermit' = FALSE
  /\ refresher' = [refresher EXCEPT !.pc = "sleep"]
  /\ UNCHANGED <<cacheVars, envVars, task, discovered, pendingSubs, blockVars, fetchVars,
                 dirty, reloader, histVars>>

RefresherSlept ==
  /\ refresher.pc = "sleep"
  /\ refresher' = [refresher EXCEPT !.pc = "drain"]
  /\ UNCHANGED <<cacheVars, envVars, task, discovered, pendingSubs, blockVars, fetchVars,
                 dirty, dlmmPermit, reloader, histVars>>

\* The addresses to ask for: the arrays around the active one of each pool.
RefresherDrain ==
  /\ refresher.pc = "drain"
  /\ dirty' = {}
  /\ LET pdas == UNION {{p} \X Window(p, pool[p].cur) : p \in dirty} IN
     refresher' = [IdleRefresher EXCEPT !.pc = IF pdas = {} THEN "wait" ELSE "fetch",
                                        !.pdas = pdas]
  /\ UNCHANGED <<cacheVars, envVars, task, discovered, pendingSubs, blockVars, fetchVars,
                 dlmmPermit, reloader, histVars>>

\* The addresses are listed pool by pool (in any order of the pools: a hash set was
\* drained), ascending within a pool, and cut into chunks without regard to pools.
\* cut holds the pool the last chunk ended in the middle of.
PartOf(c, p) == {x \in c : x[1] = p}
CutBy(c)     == {x[1] : x \in {y \in c : PartOf(c, y[1]) # PartOf(refresher.pdas, y[1])}}
ArrayChunks ==
  {c \in SUBSET refresher.pdas :
     /\ \/ Cardinality(c) = ArrayChunk
        \/ c = refresher.pdas /\ Cardinality(c) < ArrayChunk
     /\ \A x \in c, y \in refresher.pdas : x[1] = y[1] /\ y[2] < x[2] => y \in c
     /\ \A p, q \in CutBy(c) : p = q
     /\ \A p \in refresher.cut : /\ PartOf(c, p) # {}
                                 /\ p \in CutBy(c) => c = PartOf(c, p)}

FetchBins ==
  /\ refresher.pc = "fetch"
  /\ \E c \in ArrayChunks : \E missed \in SUBSET (c \cap OnChain), v \in 1..now :
       /\ Rpc(missed)
       /\ refresher' = [pc |-> "apply", pdas |-> refresher.pdas \ c, cut |-> CutBy(c),
                        got |-> (c \cap OnChain) \ missed, ver |-> v, slot |-> latestSlot]
  /\ UNCHANGED <<cacheVars, now, budget, task, discovered, pendingSubs, blockVars,
                 fetchVars, dirty, dlmmPermit, reloader, histVars>>

\* replace_bin_arrays_simple for each pool the chunk had an answer for.
ApplyBins ==
  /\ refresher.pc = "apply"
  /\ \E x \in refresher.got :
       LET part == PartOf(refresher.got, x[1]) IN
       /\ ReplaceBinArraysSimple(x[1], Answer({y[2] : y \in part}, refresher.ver),
                                 refresher.slot)
       /\ refresher' = [refresher EXCEPT !.got = @ \ part]
  /\ UNCHANGED <<cached, indexVars, queueVars, envVars, task, discovered, pendingSubs,
                 blockVars, fetchVars, dirty, dlmmPermit, reloader, histVars>>

ChunkDone ==
  /\ refresher.pc = "apply" /\ refresher.got = {}
  /\ refresher' = IF refresher.pdas = {} THEN IdleRefresher
                  ELSE [refresher EXCEPT !.pc = "fetch"]
  /\ UNCHANGED <<cacheVars, envVars, task, discovered, pendingSubs, blockVars, fetchVars,
                 dirty, dlmmPermit, reloader, histVars>>

-----------------------------------------------------------------------------
\* The engine side of the update channel.
Engine ==
  /\ Receive
  /\ UNCHANGED <<envVars, task, discovered, pendingSubs, blockVars, fetchVars, dlmmVars,
                 reloader, histVars>>

Handler(t) ==
  \/ DiscContains(t) \/ DiscPending(t) \/ DiscInsert(t)
  \/ Contains(t) \/ Math(t) \/ Needs(t) \/ Requeue(t) \/ Wake(t)
  \/ Claim(t) \/ Subscribe(t) \/ FetchFee(t) \/ FetchArrays(t)
  \/ InsVaults(t) \/ InsEmit(t) \/ InsMints(t) \/ InsPool(t) \/ QueueVaults(t)
  \/ BootContains(t)
  \/ Token(t) \/ MarkDirty(t) \/ DirtyWake(t) \/ ReadSpacing(t) \/ Array(t)
  \/ BlockLoad(t) \/ BlockHash(t) \/ BlockSlot(t)

Fetcher   == FetcherWake \/ FetcherDrain \/ FetchVaults \/ FetchVaultsFails \/ ApplyVault
Reloader  == ReloaderWake \/ ReloaderDrain \/ ReloadTake \/ ReloadArray \/ Reload
Refresher == RefresherWake \/ RefresherSlept \/ RefresherDrain \/ FetchBins \/ ApplyBins
               \/ ChunkDone

Next ==
  \/ Advance \/ Engine
  \/ \E t \in Tasks : Handler(t) \/ \E e \in Feed : Deliver(t, e)
  \/ Fetcher \/ Reloader \/ Refresher

Spec == Init /\ [][Next]_vars

\* Tokio polls every runnable task again and again, and an RPC call returns: each
\* handler and each loop goes on when it can.  Events need not come.
Fairness ==
  /\ \A t \in Tasks : WF_vars(Handler(t))
  /\ WF_vars(Fetcher) /\ WF_vars(Reloader) /\ WF_vars(Refresher)
FairSpec == Spec /\ Fairness

-----------------------------------------------------------------------------
(* Properties.                                                                *)

Labels == {"idle", "contains", "math", "needs", "requeue", "wake", "claim", "subscribe",
           "fetchFee", "fetchArrays", "insVaults", "insEmit", "insMints", "insPool",
           "queueVaults", "discContains", "discPending", "discInsert", "bootContains",
           "token", "dirty", "dirtyWake", "spacing", "array", "blockLoad", "blockHash",
           "blockSlot"}

Task      == [pc : Labels, ev : Feed, at : Vers, st : PoolState, read : Vers]
Requests  == Pools \X Ticks
DlmmPools == {p \in Pools : Kind[p] = "dlmm"}

\* Every variable stays within its type.
TypeOK ==
  /\ cached \in SUBSET Pools /\ pool \in [Pools -> PoolState]
  /\ vaultIndex \in SUBSET Vaults /\ arrayIndex \in SUBSET (Pools \X Idx)
  /\ mintIndex \in SUBSET Pools
  /\ tickQ \in SUBSET Requests /\ binQ \in SUBSET Requests /\ reloadPermit \in BOOLEAN
  /\ inFlight \in 0..ChanCap /\ sent \in [Pools -> PoolState] /\ lost \in SUBSET Pools
  /\ now \in 1..MaxVer /\ budget \in Nat /\ fails \in Nat
  /\ task \in [Tasks -> Task]
  /\ discovered \in [Pools -> {"no", "bare", "mints"}]
  /\ pendingSubs \in SUBSET Vaults /\ pendingVaults \in SUBSET Vaults
  /\ vaultPermit \in BOOLEAN
  /\ dirty \in SUBSET DlmmPools /\ dlmmPermit \in BOOLEAN
  /\ latestHash \in Vers /\ latestSlot \in Vers
  /\ fetcher \in [pc : {"wait", "drain", "fetch", "apply"}, batch : SUBSET Vaults,
                  got : [Vaults -> Vers], slot : Vers]
  /\ reloader \in [pc : {"wait", "drain", "load", "array"}, reqs : SUBSET Requests,
                   cur : SUBSET Requests, left : SUBSET Idx, got : Arrays]
  /\ refresher \in [pc : {"wait", "sleep", "drain", "fetch", "apply"},
                    pdas : SUBSET (DlmmPools \X Idx), cut : SUBSET DlmmPools,
                    got : SUBSET (DlmmPools \X Idx), ver : Vers, slot : Vers]
  /\ answered \in SUBSET Vaults
  /\ booted \in SUBSET Pools /\ overwritten \in SUBSET Pools

\* Who finds a pool in the cache also finds it under both its vaults and under
\* its mints: insert writes the indexes first.
IndexSound ==
  \A p \in cached : VaultsOf(p) \subseteq vaultIndex /\ p \in mintIndex

\* The limits stored with a concentrated pool are those of the price, the tick,
\* the arrays and the fee stored with it, whichever of the four changed last.
LimitsFresh ==
  \A p \in cached : Concentrated(p) => pool[p].lim = ComputeLimits(pool[p])

\* The vaults of a pool registered from the stream are queued for the batch fetch,
\* in the hands of the fetcher, answered, or about to be queued: a failed call, a
\* chunk boundary or a second registration loses none.
VaultsAccounted ==
  \A p \in cached \ booted :
    \/ VaultsOf(p) \subseteq pendingVaults \cup fetcher.batch \cup answered
    \/ \E t \in Tasks : At(t, "queueVaults") /\ PoolOf(t) = p

\* No vault address of a pool registered from the stream is missing from the
\* subscription queue by the time the pool can be seen.
VaultsSubscribed ==
  \A p \in cached \ booted : VaultsOf(p) \subseteq pendingSubs

\* Array updates from the stream reach every array a tick-array pool holds: the
\* reverse index knows each array of the pool, reloaded ones included.
ArraysIndexed ==
  \A p \in cached : Concentrated(p) =>
    {p} \X Loaded(pool[p].arrays) \subseteq arrayIndex

\* The vault fetcher never sleeps over queued vaults without a wake-up on its way: a
\* push between its drain and its next wait leaves a permit.  A failed call is the
\* exception: its vaults are queued again in silence.
Waking(l) == \E t \in Tasks : At(t, l)
FetcherNotStranded ==
  fetcher.pc = "wait" /\ pendingVaults # {} => vaultPermit \/ Waking("wake")
                                                 \/ fails > 0

\* Nor does the tick reloader over queued reload requests,
ReloaderNotStranded == reloader.pc = "wait" /\ tickQ # {} => reloadPermit

\* nor the DLMM refresher over dirty pools.
RefresherNotStranded ==
  refresher.pc = "wait" /\ dirty # {} => dlmmPermit \/ Waking("dirtyWake")

\* The last update the engine was sent about a pool carries what the cache holds,
\* unless it was dropped or the pool was registered twice.
Inserting(p) == \E t \in Tasks : PoolOf(t) = p /\ task[t].pc \in
                  {"insVaults", "insEmit", "insMints", "insPool"}
EngineAgrees ==
  \A p \in cached \ (lost \cup overwritten) : Inserting(p) \/ sent[p] = pool[p]

\* What a pool account does not tell is not forgotten when it is decoded again:
\* only a registration takes a reserve back to zero or a fetched fee back to the
\* decoder's.
KeptWhileCached ==
  \A p \in cached \ overwritten' :
      /\ pool[p].ra # 0 => pool'[p].ra # 0
      /\ pool[p].rb # 0 => pool'[p].rb # 0
      /\ pool[p].fee = "config" => pool'[p].fee = "config"
StateKept == [][KeptWhileCached]_vars

\* Under fairness, every queued vault is answered, unless a call fails: the vaults
\* of a failed call are queued again but nobody is woken for them.
VaultsAnswered == \A v \in Vaults : v \in pendingVaults ~> v \in answered \/ fails > 0

\* Under fairness, a pool marked dirty is taken by the refresher.
DirtyTaken == \A p \in Pools : p \in dirty ~> p \notin dirty

-----------------------------------------------------------------------------
(* What comments of the code say and the code does not do; a run refutes each.  *)

\* handle_account_update's comment: "If already registered, just update math."  Two
\* handlers that both find the pool missing both insert it, and the second insert
\* takes back what arrived in between.
RegisteredOnlyUpdated ==
  [][\A p \in cached : /\ pool[p].ra # 0 => pool'[p].ra # 0
                       /\ pool[p].fee = "config" => pool'[p].fee = "config"]_vars

\* latest_blockhash_slot: "Slot of the latest blockhash".  Between two block events
\* the published slot is that of the published hash.
SlotIsHashSlot ==
  (\A t \in Tasks : task[t].pc \notin {"blockHash", "blockSlot"}) => latestHash = latestSlot
=============================================================================
