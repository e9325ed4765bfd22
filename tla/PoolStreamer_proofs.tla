-------------------------- MODULE PoolStreamer_proofs --------------------------
(* PoolStreamer for any pools, events, handlers and chunk sizes.  Safety: types,    *)
(* what a registration has done by the time its pool can be seen, where its vaults   *)
(* are from then on, and that the stored limits are never stale.  Delivery: a        *)
(* wake-up on its way to a loop, an array update on its way to its pool, a pool's     *)
(* state on its way to the engine; none is lost.                                    *)
(*                                                                               *)
(* The variables fall into groups: the cache, the handlers, the queues and the      *)
(* loops.  Type correctness is proved group by group, since an action writes one    *)
(* or two groups and leaves the rest alone.                                         *)
EXTENDS PoolStreamer, TLAPS

-----------------------------------------------------------------------------
(* The types of the values the operations build.                              *)

\* The constants of a blank pool have their types.
LEMMA BlankTypes ==
  /\ NoArrays \in Arrays
  /\ AnyTick \in Ticks
  /\ NoLimit \in Limits
  /\ BlankPool \in PoolState
  /\ 0 \in Vers
<1> USE CacheAssumption
<1>1. 0 \in Vers
  BY DEF Vers
<1>2. NoArrays \in Arrays
  BY <1>1 DEF NoArrays, Arrays, Absent
<1>3. AnyTick \in Ticks
  BY DEF AnyTick
<1>4. NoLimit \in Limits
  BY <1>1, <1>2, <1>3 DEF NoLimit, Limits, Fees
<1>5. BlankPool \in PoolState
  BY <1>1, <1>2, <1>3, <1>4 DEF BlankPool, PoolState, Fees
<1> QED
  BY <1>1, <1>2, <1>3, <1>4, <1>5

\* Computing the limits keeps a pool state a pool state.
LEMMA LimitsType ==
  ASSUME NEW p \in Pools, NEW st \in PoolState
  PROVE  ComputeLimits(st) \in Limits /\ WithLimits(p, st) \in PoolState
<1>1. ComputeLimits(st) \in Limits
  BY BlankTypes DEF ComputeLimits, Limits, PoolState
<1>2. WithLimits(p, st) \in PoolState
  BY <1>1 DEF WithLimits, PoolState
<1> QED
  BY <1>1, <1>2

\* So does merging a decoded account into a cached pool.
LEMMA MergeType ==
  ASSUME NEW p \in Pools, NEW old \in PoolState, NEW new \in PoolState
  PROVE  MergeMath(p, old, new) \in PoolState
<1>1. CASE Kind[p] = "cp"
  <2>1. MergeMath(p, old, new) =
          [old EXCEPT !.ra = NonZero(new.ra, @), !.rb = NonZero(new.rb, @),
                      !.slot = new.slot]
    BY <1>1 DEF MergeMath, Concentrated
  <2>2. NonZero(new.ra, old.ra) \in Vers /\ NonZero(new.rb, old.rb) \in Vers
    BY DEF NonZero, PoolState
  <2> QED
    BY <2>1, <2>2 DEF PoolState
<1>2. CASE Kind[p] # "cp" /\ Concentrated(p)
  <2> DEFINE st == [old EXCEPT !.px = new.px, !.cur = new.cur, !.slot = new.slot,
                               !.fee = IF new.fee # "zero" THEN new.fee ELSE @]
  <2>1. st \in PoolState
    BY DEF PoolState
  <2>2. MergeMath(p, old, new) = WithLimits(p, st)
    BY <1>2 DEF MergeMath
  <2> QED
    BY <2>1, <2>2, LimitsType
<1>3. CASE Kind[p] # "cp" /\ ~Concentrated(p)
  <2>1. MergeMath(p, old, new) =
          [old EXCEPT !.px = new.px, !.cur = new.cur, !.slot = new.slot, !.fee = new.fee]
    BY <1>3 DEF MergeMath
  <2> QED
    BY <2>1 DEF PoolState
<1> QED
  BY <1>1, <1>2, <1>3

\* A decoded account is a pool state.
LEMMA DecodedType ==
  ASSUME NEW e \in Feed, NEW v \in Vers
  PROVE  Decoded(e, v) \in PoolState
<1>1. e \in Event
  BY StreamerAssumption
<1>2. DecodedFee(e.p) \in Fees
  BY DEF DecodedFee, Fees
<1>3. (IF Kind[e.p] = "dlmm" THEN Window(e.p, e.cur) ELSE {}) \in SUBSET Idx
  BY DEF Window
<1> QED
  BY <1>1, <1>2, <1>3, BlankTypes DEF Decoded, Event, PoolState, Vers

-----------------------------------------------------------------------------
(* The operations of the cache.                                               *)

CacheOK ==
  /\ cached \in SUBSET Pools /\ pool \in [Pools -> PoolState]
  /\ vaultIndex \in SUBSET Vaults /\ arrayIndex \in SUBSET (Pools \X Idx)
  /\ mintIndex \in SUBSET Pools
QueueOK ==
  tickQ \in SUBSET Requests /\ binQ \in SUBSET Requests /\ reloadPermit \in BOOLEAN
ChanOK ==
  inFlight \in 0..ChanCap /\ sent \in [Pools -> PoolState] /\ lost \in SUBSET Pools

\* Sending an update keeps the channel's type, whether it is dropped or not.
LEMMA EmitType ==
  ASSUME ChanOK, NEW p \in Pools, NEW st \in PoolState, Emit(p, st)
  PROVE  ChanOK'
BY CacheAssumption DEF ChanOK, Emit

\* Storing a pool state keeps the types.
LEMMA StoreType ==
  ASSUME ChanOK, pool \in [Pools -> PoolState], NEW p \in Pools, NEW st \in PoolState,
         Store(p, st)
  PROVE  ChanOK' /\ pool' \in [Pools -> PoolState]
BY EmitType DEF Store

\* update_math keeps the types: of the pool, of the channel and of the two queues.
LEMMA MathType ==
  ASSUME CacheOK, QueueOK, ChanOK, NEW p \in Pools, NEW new \in PoolState,
         NEW got \in BOOLEAN, UpdateMath(p, new, got)
  PROVE  CacheOK' /\ QueueOK' /\ ChanOK'
<1>1. MergeMath(p, pool[p], new) \in PoolState
  BY MergeType DEF CacheOK
<1>2. ChanOK' /\ pool' \in [Pools -> PoolState]
  BY <1>1, StoreType DEF UpdateMath, CacheOK
<1>3. CacheOK'
  BY <1>2 DEF CacheOK, UpdateMath, indexVars
<1>4. <<p, new.cur>> \in Requests
  BY DEF Requests, PoolState
<1>5. tickQ' \in SUBSET Requests /\ binQ' \in SUBSET Requests
  BY <1>4 DEF UpdateMath, Request, QueueOK
<1>6. reloadPermit' \in BOOLEAN
  BY DEF UpdateMath
<1> QED
  BY <1>2, <1>3, <1>5, <1>6 DEF QueueOK

\* update_vault_balance keeps the types.
LEMMA BalanceType ==
  ASSUME CacheOK, ChanOK, NEW p \in Pools, NEW side \in Sides, NEW balance \in Vers,
         NEW slot \in Vers, UpdateVaultBalance(p, side, balance, slot)
  PROVE  CacheOK' /\ ChanOK'
<1>1. SetBalance(p, side, balance, slot) \in PoolState
  BY ZenonT(40) DEF SetBalance, CacheOK, PoolState
<1>2. ChanOK' /\ pool' \in [Pools -> PoolState]
  <2>1. CASE <<p, side>> \in vaultIndex /\ p \in cached
    BY <1>1, <2>1, StoreType DEF UpdateVaultBalance, CacheOK
  <2>2. CASE ~(<<p, side>> \in vaultIndex /\ p \in cached)
    BY <2>2 DEF UpdateVaultBalance, CacheOK, ChanOK, chanVars
  <2> QED
    BY <2>1, <2>2
<1> QED
  BY <1>2 DEF CacheOK, UpdateVaultBalance, indexVars

\* update_tick_array and update_bin_array keep the types.
LEMMA ArrayType ==
  ASSUME CacheOK, ChanOK, NEW p \in Pools, NEW i \in Idx, NEW ver \in {Garbled} \cup Vers,
         NEW slot \in Vers, UpdateArray(p, i, ver, slot)
  PROVE  CacheOK' /\ ChanOK'
<1> DEFINE st == [pool[p] EXCEPT !.arrays[i] = ver, !.slot = slot]
<1>1. st \in PoolState
  <2>1. [pool[p].arrays EXCEPT ![i] = ver] \in Arrays
    BY DEF CacheOK, PoolState, Arrays
  <2> QED
    BY <2>1, ZenonT(40) DEF CacheOK, PoolState
<1>2. WithLimits(p, st) \in PoolState
  BY <1>1, LimitsType
<1>3. ChanOK' /\ pool' \in [Pools -> PoolState]
  <2>1. CASE <<p, i>> \in arrayIndex /\ p \in cached
    BY <1>2, <2>1, StoreType DEF UpdateArray, CacheOK
  <2>2. CASE ~(<<p, i>> \in arrayIndex /\ p \in cached)
    BY <2>2 DEF UpdateArray, CacheOK, ChanOK, chanVars
  <2> QED
    BY <2>1, <2>2
<1> QED
  BY <1>3 DEF CacheOK, UpdateArray, indexVars

-----------------------------------------------------------------------------
(* Type correctness.                                                          *)

EnvOK == now \in 1..MaxVer /\ budget \in Nat /\ fails \in Nat

\* Only the handler of a DLMM vault gets to the label that marks a pool dirty.
HandlerOK ==
  /\ task \in [Tasks -> Task]
  /\ \A t \in Tasks : At(t, "dirty") => PoolOf(t) \in DlmmPools
SubsOK  == discovered \in [Pools -> {"no", "bare", "mints"}] /\ pendingSubs \in SUBSET Vaults
BlockOK == latestHash \in Vers /\ latestSlot \in Vers
FetchOK ==
  /\ pendingVaults \in SUBSET Vaults /\ vaultPermit \in BOOLEAN
  /\ fetcher \in [pc : {"wait", "drain", "fetch", "apply"}, batch : SUBSET Vaults,
                  got : [Vaults -> Vers], slot : Vers]
  /\ answered \in SUBSET Vaults
DlmmOK ==
  /\ dirty \in SUBSET DlmmPools /\ dlmmPermit \in BOOLEAN
  /\ refresher \in [pc : {"wait", "sleep", "drain", "fetch", "apply"},
                    pdas : SUBSET (DlmmPools \X Idx), cut : SUBSET DlmmPools,
                    got : SUBSET (DlmmPools \X Idx), ver : Vers, slot : Vers]
ReloaderOK ==
  reloader \in [pc : {"wait", "drain", "load", "array"}, reqs : SUBSET Requests,
                cur : SUBSET Requests, left : SUBSET Idx, got : Arrays]
HistOK     == booted \in SUBSET Pools /\ overwritten \in SUBSET Pools

TypeInv ==
  /\ CacheOK /\ QueueOK /\ ChanOK /\ EnvOK /\ HandlerOK /\ SubsOK /\ BlockOK
  /\ FetchOK /\ DlmmOK /\ ReloaderOK /\ HistOK

\* The groups together are the type invariant.
LEMMA TypeInvIsTypeOK == TypeInv => TypeOK
BY DEF TypeInv, TypeOK, CacheOK, QueueOK, ChanOK, EnvOK, HandlerOK, SubsOK, BlockOK,
       FetchOK, DlmmOK, ReloaderOK, HistOK

\* A group keeps its type while its variables do not change.
LEMMA Frames ==
  ASSUME TypeInv
  PROVE  /\ UNCHANGED cacheVars => CacheOK' /\ QueueOK' /\ ChanOK'
         /\ UNCHANGED chanVars  => ChanOK'
         /\ UNCHANGED queueVars => QueueOK'
         /\ UNCHANGED envVars   => EnvOK'
         /\ UNCHANGED task      => HandlerOK'
         /\ UNCHANGED <<discovered, pendingSubs>> => SubsOK'
         /\ UNCHANGED blockVars => BlockOK'
         /\ UNCHANGED fetchVars => FetchOK'
         /\ UNCHANGED dlmmVars  => DlmmOK'
         /\ UNCHANGED reloader  => ReloaderOK'
         /\ UNCHANGED histVars  => HistOK'
<1> USE DEF TypeInv
<1>1. UNCHANGED chanVars => ChanOK'
  BY DEF chanVars, ChanOK
<1>2. UNCHANGED queueVars => QueueOK'
  BY DEF queueVars, QueueOK
<1>3. UNCHANGED cacheVars => CacheOK' /\ QueueOK' /\ ChanOK'
  BY <1>1, <1>2 DEF cacheVars, indexVars, CacheOK
<1>4. UNCHANGED envVars => EnvOK'
  BY DEF envVars, EnvOK
<1>5. UNCHANGED task => HandlerOK'
  BY DEF HandlerOK, At, PoolOf
<1>6. UNCHANGED <<discovered, pendingSubs>> => SubsOK'
  BY DEF SubsOK
<1>7. UNCHANGED blockVars => BlockOK'
  BY DEF blockVars, BlockOK
<1>8. UNCHANGED fetchVars => FetchOK'
  BY DEF fetchVars, FetchOK
<1>9. UNCHANGED dlmmVars => DlmmOK'
  BY DEF dlmmVars, DlmmOK
<1>10. UNCHANGED reloader => ReloaderOK'
  BY DEF ReloaderOK
<1>11. UNCHANGED histVars => HistOK'
  BY DEF histVars, HistOK
<1> QED
  BY <1>1, <1>2, <1>3, <1>4, <1>5, <1>6, <1>7, <1>8, <1>9, <1>10, <1>11

\* A handler's event names a pool, a vault, an array and a tick.
LEMMA EventType ==
  ASSUME HandlerOK, NEW t \in Tasks
  PROVE  /\ task[t] \in Task /\ task[t].ev \in Event /\ PoolOf(t) \in Pools
         /\ VaultsOf(PoolOf(t)) \in SUBSET Vaults
BY StreamerAssumption DEF HandlerOK, Task, Event, PoolOf, VaultsOf, Vaults

\* A function that differs at one place only is the other with that place set.
LEMMA SetOnly ==
  ASSUME NEW f, NEW h, NEW x \in DOMAIN f, NEW v,
         f = [y \in DOMAIN f |-> f[y]], h = [y \in DOMAIN h |-> h[y]],
         DOMAIN h = DOMAIN f, h[x] = v, \A y \in DOMAIN f : y # x => h[y] = f[y]
  PROVE  h = [f EXCEPT ![x] = v]
  OBVIOUS

\* Going to another label keeps the handlers' type.
LEMMA GotoType ==
  ASSUME HandlerOK, NEW t \in Tasks, NEW l \in Labels, Goto(t, l),
         l = "dirty" => PoolOf(t) \in DlmmPools
  PROVE  HandlerOK'
BY DEF HandlerOK, Goto, Task, At, PoolOf

\* So does the end of a handler.
LEMMA DoneType ==
  ASSUME HandlerOK, NEW t \in Tasks, Done(t)
  PROVE  HandlerOK'
<1>1. IdleTask \in Task
  BY BlankTypes, StreamerAssumption DEF IdleTask, Task, Labels, AnyEvent
<1> QED
  BY <1>1 DEF HandlerOK, Done, At, PoolOf, IdleTask

\* So does any other change of a task's record that leads to another label.
LEMMA SetType ==
  ASSUME HandlerOK, NEW t \in Tasks, NEW r \in Task, r.pc # "dirty",
         task' = [task EXCEPT ![t] = r]
  PROVE  HandlerOK'
BY DEF HandlerOK, At, PoolOf

\* The initial state has the types.
LEMMA TypeInit == Init => TypeInv
<1> SUFFICES ASSUME Init
             PROVE  TypeInv
  OBVIOUS
<1> USE CacheAssumption, StreamerAssumption, BlankTypes
<1>1. CacheOK /\ QueueOK
  BY DEF Init, CacheInit, CacheOK, QueueOK
<1>2. ChanOK /\ EnvOK
  BY DEF Init, CacheInit, ChanOK, EnvOK
<1>3. IdleTask \in Task
  BY DEF IdleTask, Task, Labels, AnyEvent
<1>4. HandlerOK
  BY <1>3 DEF Init, HandlerOK, At, IdleTask
<1>5. SubsOK /\ BlockOK /\ ReloaderOK /\ HistOK
  BY BlankTypes DEF Init, SubsOK, BlockOK, IdleReloader, ReloaderOK, HistOK
<1>6. FetchOK
  BY DEF Init, FetchOK, IdleFetcher
<1>7. DlmmOK
  BY DEF Init, DlmmOK, IdleRefresher
<1> QED
  BY <1>1, <1>2, <1>4, <1>5, <1>6, <1>7 DEF TypeInv

\* Every step of a handler keeps the types.
LEMMA TypeHandler ==
  ASSUME TypeInv, NEW t \in Tasks, Handler(t)
  PROVE  TypeInv'
<1> USE DEF TypeInv
<1> USE EventType, Frames
<1>1. CASE \/ DiscContains(t) \/ DiscPending(t) \/ Contains(t) \/ BootContains(t)
           \/ Needs(t) \/ BlockLoad(t)
  <2>1. HandlerOK'
    BY <1>1, GotoType, DoneType
       DEF DiscContains, DiscPending, Contains, BootContains, Needs, BlockLoad, Labels
  <2> QED
    BY <1>1, <2>1 DEF DiscContains, DiscPending, Contains, BootContains, Needs, BlockLoad
<1>2. CASE DiscInsert(t) \/ Claim(t)
  <2>1. HandlerOK'
    BY <1>2, GotoType, DoneType DEF DiscInsert, Claim, Labels
  <2>2. SubsOK'
    BY <1>2 DEF DiscInsert, Claim, SubsOK
  <2> QED
    BY <1>2, <2>1, <2>2 DEF DiscInsert, Claim
<1>3. CASE Math(t)
  <2>1. PICK got \in BOOLEAN : UpdateMath(PoolOf(t), task[t].st, got)
    BY <1>3 DEF Math
  <2>2. CacheOK' /\ QueueOK' /\ ChanOK'
    BY <2>1, MathType DEF Task
  <2>3. HandlerOK'
    BY <1>3, GotoType DEF Math, Labels
  <2> QED
    BY <1>3, <2>2, <2>3 DEF Math
<1>4. CASE Requeue(t) \/ QueueVaults(t)
  <2>1. HandlerOK'
    BY <1>4, GotoType DEF Requeue, QueueVaults, Labels
  <2>2. SubsOK'
    BY <1>4 DEF Requeue, QueueVaults, SubsOK
  <2>3. FetchOK'
    BY <1>4 DEF Requeue, QueueVaults, FetchOK
  <2> QED
    BY <1>4, <2>1, <2>2, <2>3 DEF Requeue, QueueVaults
<1>5. CASE Wake(t)
  <2>1. HandlerOK'
    BY <1>5, DoneType DEF Wake
  <2>2. FetchOK'
    BY <1>5 DEF Wake, FetchOK
  <2> QED
    BY <1>5, <2>1, <2>2 DEF Wake
<1>6. CASE Subscribe(t)
  <2>1. HandlerOK'
    BY <1>6, GotoType DEF Subscribe, Labels
  <2>2. SubsOK'
    BY <1>6 DEF Subscribe, SubsOK
  <2> QED
    BY <1>6, <2>1, <2>2 DEF Subscribe
<1>7. CASE FetchFee(t)
  <2>1. PICK missed \in SUBSET {"config"} :
          /\ Rpc(missed)
          /\ task' = [task EXCEPT
               ![t].pc = IF Concentrated(PoolOf(t)) THEN "fetchArrays" ELSE "insVaults",
               ![t].st.fee = IF missed = {} THEN "config" ELSE @]
    BY <1>7 DEF FetchFee
  <2> DEFINE st == [task[t].st EXCEPT !.fee = IF missed = {} THEN "config" ELSE @]
             r  == [task[t] EXCEPT
                      !.pc = IF Concentrated(PoolOf(t)) THEN "fetchArrays" ELSE "insVaults",
                      !.st = st]
  <2>2. st \in PoolState
    BY DEF Task, PoolState, Fees
  <2>3. HandlerOK'
    <3>1. r \in Task /\ r.pc # "dirty"
      BY <2>2, ZenonT(40) DEF Task, Labels
    <3>2. task' = [task EXCEPT ![t] = r]
      BY <2>1, ZenonT(40) DEF HandlerOK
    <3> QED
      BY <3>1, <3>2, SetType
  <2>4. EnvOK'
    BY <1>7, <2>1 DEF FetchFee, Rpc, EnvOK
  <2> QED
    BY <1>7, <2>3, <2>4 DEF FetchFee
<1>8. CASE FetchArrays(t)
  <2>1. PICK missed \in SUBSET Wanted(PoolOf(t), task[t].st.cur), v \in 1..now :
          LET is == Wanted(PoolOf(t), task[t].st.cur) \ missed IN
          /\ Rpc(missed)
          /\ RegisterArrays(PoolOf(t), is)
          /\ task' = [task EXCEPT
               ![t].pc = "insVaults",
               ![t].st.arrays = Answer(is, v),
               ![t].st.extra = IF Kind[PoolOf(t)] = "dlmm" THEN is ELSE @]
    BY <1>8 DEF FetchArrays
  <2> DEFINE is == Wanted(PoolOf(t), task[t].st.cur) \ missed
  <2>2. is \in SUBSET Idx
    BY DEF Wanted, Window
  <2>3. v \in Vers
    BY CacheAssumption DEF EnvOK, Vers
  <2>4. Answer(is, v) \in Arrays
    BY <2>3, BlankTypes DEF Answer, Arrays, Absent
  <2> DEFINE st == [task[t].st EXCEPT
                      !.arrays = Answer(is, v),
                      !.extra = IF Kind[PoolOf(t)] = "dlmm" THEN is ELSE @]
             r  == [task[t] EXCEPT !.pc = "insVaults", !.st = st]
  <2>5. st \in PoolState
    BY <2>2, <2>4 DEF Task, PoolState
  <2>6. HandlerOK'
    <3>1. r \in Task /\ r.pc # "dirty"
      BY <2>5, ZenonT(40) DEF Task, Labels
    <3> DEFINE old == task[t]
               answer == Answer(is, v)
    <3>2. task' = [task EXCEPT
                     ![t].pc = "insVaults",
                     ![t].st.arrays = answer,
                     ![t].st.extra = IF Kind[PoolOf(t)] = "dlmm" THEN is ELSE @]
      BY <2>1
    <3>3. t \in DOMAIN task /\ task = [u \in DOMAIN task |-> task[u]]
      BY DEF HandlerOK
    <3>. HIDE DEF answer, is
    <3>4. task' = [task EXCEPT ![t] = r]
      <4>1. task'[t] = r
        BY ONLY <3>2, <3>3 DEF answer
      <4>2. DOMAIN task' = DOMAIN task /\ \A u \in DOMAIN task : u # t => task'[u] = task[u]
        BY ONLY <3>2, <3>3
      <4>3. task' = [u \in DOMAIN task' |-> task'[u]]
        BY ONLY <3>2
      <4>. HIDE DEF r
      <4>. QED
        BY ONLY <3>3, <4>1, <4>2, <4>3, SetOnly
    <3> QED
      BY <3>1, <3>4, SetType
  <2>7. EnvOK'
    BY <1>8, <2>1 DEF FetchArrays, Rpc, EnvOK
  <2>8. CacheOK'
    BY <1>8, <2>1, <2>2 DEF FetchArrays, RegisterArrays, CacheOK
  <2> QED
    BY <1>8, <2>6, <2>7, <2>8 DEF FetchArrays
<1>9. CASE InsVaults(t) \/ InsMints(t)
  <2>1. HandlerOK'
    BY <1>9, GotoType DEF InsVaults, InsMints, Labels
  <2>2. CacheOK'
    BY <1>9 DEF InsVaults, InsMints, InsertVaults, InsertMints, CacheOK, Vaults
  <2> QED
    BY <1>9, <2>1, <2>2 DEF InsVaults, InsMints, InsertVaults, InsertMints
<1>10. CASE InsEmit(t)
  <2>1. HandlerOK'
    BY <1>10, GotoType DEF InsEmit, Labels
  <2>2. WithLimits(PoolOf(t), task[t].st) \in PoolState
    BY LimitsType DEF Task
  <2>3. ChanOK'
    BY <1>10, <2>2, EmitType DEF InsEmit, InsertEmit
  <2>4. CacheOK'
    BY <1>10 DEF InsEmit, InsertEmit, indexVars, CacheOK
  <2> QED
    BY <1>10, <2>1, <2>3, <2>4 DEF InsEmit, InsertEmit
<1>11. CASE InsPool(t)
  <2>1. HandlerOK'
    BY <1>11, GotoType, DoneType DEF InsPool, Labels
  <2>2. WithLimits(PoolOf(t), task[t].st) \in PoolState
    BY LimitsType DEF Task
  <2>3. CacheOK'
    BY <1>11, <2>2 DEF InsPool, InsertPool, indexVars, CacheOK
  <2>4. HistOK'
    BY <1>11 DEF InsPool, HistOK
  <2> QED
    BY <1>11, <2>1, <2>3, <2>4 DEF InsPool, InsertPool
<1>12. CASE Token(t)
  <2>1. HandlerOK'
    BY <1>12, GotoType, DoneType DEF Token, Labels, DlmmPools
  <2>2. CacheOK' /\ ChanOK'
    BY <1>12, BalanceType DEF Token, Task, Event
  <2> QED
    BY <1>12, <2>1, <2>2 DEF Token, UpdateVaultBalance
<1>13. CASE MarkDirty(t)
  <2>1. PoolOf(t) \in DlmmPools
    BY <1>13 DEF MarkDirty, HandlerOK
  <2>2. HandlerOK'
    BY <1>13, GotoType DEF MarkDirty, Labels
  <2>3. DlmmOK'
    BY <1>13, <2>1 DEF MarkDirty, DlmmOK
  <2> QED
    BY <1>13, <2>2, <2>3 DEF MarkDirty
<1>14. CASE DirtyWake(t)
  <2>1. HandlerOK'
    BY <1>14, DoneType DEF DirtyWake
  <2>2. DlmmOK'
    BY <1>14 DEF DirtyWake, DlmmOK
  <2> QED
    BY <1>14, <2>1, <2>2 DEF DirtyWake
<1>15. CASE ReadSpacing(t)
  <2> DEFINE r == [task[t] EXCEPT !.pc = "array",
                                  !.read = IF PoolOf(t) \in cached THEN 1 ELSE 0]
  <2>1. HandlerOK'
    <3>1. 0 \in Vers /\ 1 \in Vers
      BY CacheAssumption DEF Vers
    <3>2. r \in Task /\ r.pc # "dirty"
      BY <3>1, ZenonT(40) DEF Task, Labels
    <3>3. task' = [task EXCEPT ![t] = r]
      BY <1>15 DEF ReadSpacing, HandlerOK
    <3> QED
      BY <3>2, <3>3, SetType
  <2> QED
    BY <1>15, <2>1 DEF ReadSpacing
<1>16. CASE Array(t)
  <2>1. HandlerOK'
    BY <1>16, DoneType DEF Array
  <2>2. CacheOK' /\ ChanOK'
    BY <1>16, ArrayType DEF Array, Task, Event
  <2> QED
    BY <1>16, <2>1, <2>2 DEF Array, UpdateArray
<1>17. CASE BlockHash(t) \/ BlockSlot(t)
  <2>1. HandlerOK'
    BY <1>17, GotoType, DoneType DEF BlockHash, BlockSlot, Labels
  <2>2. BlockOK'
    BY <1>17 DEF BlockHash, BlockSlot, BlockOK, Task
  <2> QED
    BY <1>17, <2>1, <2>2 DEF BlockHash, BlockSlot
<1> QED
  BY <1>1, <1>2, <1>3, <1>4, <1>5, <1>6, <1>7, <1>8, <1>9, <1>10, <1>11, <1>12, <1>13,
     <1>14, <1>15, <1>16, <1>17 DEF Handler

\* Every step of the vault fetcher keeps the types.
LEMMA TypeFetcher ==
  ASSUME TypeInv, Fetcher
  PROVE  TypeInv'
<1> USE DEF TypeInv
<1> USE Frames
<1>1. CASE FetcherWake \/ FetcherDrain
  <2>1. FetchOK'
    BY <1>1 DEF FetcherWake, FetcherDrain, FetchOK
  <2> QED
    BY <1>1, <2>1 DEF FetcherWake, FetcherDrain
<1>2. CASE FetchVaults
  <2>0. PICK c \in Chunks : \E missed \in SUBSET c, v \in 1..now :
          /\ Rpc(missed)
          /\ answered' = answered \cup c
          /\ fetcher' = [pc |-> IF c = missed THEN AfterChunk(c) ELSE "apply",
                         batch |-> fetcher.batch \ c,
                         got |-> [w \in Vaults |-> IF w \in c \ missed THEN v ELSE 0],
                         slot |-> latestSlot]
    BY <1>2 DEF FetchVaults
  <2>1. PICK missed \in SUBSET c, v \in 1..now :
          /\ Rpc(missed)
          /\ answered' = answered \cup c
          /\ fetcher' = [pc |-> IF c = missed THEN AfterChunk(c) ELSE "apply",
                         batch |-> fetcher.batch \ c,
                         got |-> [w \in Vaults |-> IF w \in c \ missed THEN v ELSE 0],
                         slot |-> latestSlot]
    BY <2>0
  <2>2. c \in SUBSET Vaults
    BY DEF Chunks, FetchOK
  <2>3. v \in Vers /\ 0 \in Vers
    BY CacheAssumption DEF EnvOK, Vers
  <2>4. [w \in Vaults |-> IF w \in c \ missed THEN v ELSE 0] \in [Vaults -> Vers]
    BY <2>3
  <2>5. FetchOK'
    BY <1>2, <2>1, <2>2, <2>4 DEF FetchVaults, AfterChunk, FetchOK, BlockOK
  <2>6. EnvOK'
    BY <1>2, <2>1 DEF FetchVaults, Rpc, EnvOK
  <2> QED
    BY <1>2, <2>5, <2>6 DEF FetchVaults
<1>3. CASE FetchVaultsFails
  <2>1. PICK c \in Chunks :
          /\ Rpc(c)
          /\ pendingVaults' = pendingVaults \cup c
          /\ fetcher' = [fetcher EXCEPT !.pc = AfterChunk(c), !.batch = @ \ c]
    BY <1>3 DEF FetchVaultsFails
  <2>2. c \in SUBSET Vaults
    BY DEF Chunks, FetchOK
  <2>3. FetchOK'
    BY <1>3, <2>1, <2>2 DEF FetchVaultsFails, AfterChunk, FetchOK
  <2>4. EnvOK'
    BY <1>3, <2>1 DEF FetchVaultsFails, Rpc, EnvOK
  <2> QED
    BY <1>3, <2>3, <2>4 DEF FetchVaultsFails
<1>4. CASE ApplyVault
  <2>1. PICK w \in Vaults :
          /\ UpdateVaultBalance(w[1], w[2], fetcher.got[w], fetcher.slot)
          /\ fetcher' = [fetcher EXCEPT
                           !.got[w] = 0,
                           !.pc = IF ToApply # {w} THEN "apply"
                                  ELSE IF fetcher.batch = {} THEN "wait" ELSE "fetch"]
    BY <1>4 DEF ApplyVault, ToApply
  <2>2. w[1] \in Pools /\ w[2] \in Sides /\ fetcher.got[w] \in Vers
    BY DEF Vaults, FetchOK
  <2>3. CacheOK' /\ ChanOK'
    BY <2>1, <2>2, BalanceType DEF FetchOK
  <2>4. [fetcher.got EXCEPT ![w] = 0] \in [Vaults -> Vers]
    BY BlankTypes, SMTT(40) DEF FetchOK
  <2>5. FetchOK'
    BY <1>4, <2>1, <2>4 DEF ApplyVault, FetchOK
  <2> QED
    BY <1>4, <2>1, <2>3, <2>5 DEF ApplyVault, UpdateVaultBalance
<1> QED
  BY <1>1, <1>2, <1>3, <1>4 DEF Fetcher

\* An answer of the node is the content of some arrays.
LEMMA AnswerType ==
  ASSUME NEW is, NEW v \in Vers
  PROVE  Answer(is, v) \in Arrays
BY BlankTypes DEF Answer, Arrays, Absent

\* What the reloader has read after array i of its request.
ArrayRead(r, i, missed, v) ==
  reloader' = [reloader EXCEPT
                 !.left = @ \ {i},
                 !.got[i] = IF <<r[1], i>> \in OnChain \ missed THEN v ELSE @]

\* Every step of the tick reloader keeps the types.
LEMMA TypeReloader ==
  ASSUME TypeInv, Reloader
  PROVE  TypeInv'
<1> USE DEF TypeInv
<1> USE Frames
<1>1. CASE ReloaderWake \/ ReloaderDrain
  <2>1. QueueOK'
    BY <1>1 DEF ReloaderWake, ReloaderDrain, QueueOK
  <2>2. ReloaderOK'
    <3>1. CASE ReloaderWake
      BY <3>1 DEF ReloaderWake, ReloaderOK
    <3>2. CASE ReloaderDrain
      BY <3>2 DEF ReloaderDrain, ReloaderOK, QueueOK
    <3> QED
      BY <1>1, <3>1, <3>2
  <2>3. CacheOK'
    BY <1>1 DEF ReloaderWake, ReloaderDrain, indexVars, CacheOK
  <2> QED
    BY <1>1, <2>1, <2>2, <2>3 DEF ReloaderWake, ReloaderDrain
<1>2. CASE ReloadTake
  <2>1. PICK r \in reloader.reqs :
          reloader' = [pc |-> "array", reqs |-> reloader.reqs \ {r}, cur |-> {r},
                       left |-> Window(r[1], r[2]), got |-> NoArrays]
    BY <1>2 DEF ReloadTake
  <2>2. r \in Requests /\ Window(r[1], r[2]) \subseteq Idx
    BY DEF ReloaderOK, Window
  <2>3. ReloaderOK'
    BY <2>1, <2>2, BlankTypes DEF ReloaderOK
  <2> QED
    BY <1>2, <2>3 DEF ReloadTake
<1>3. CASE ReloadArray
  <2>1. PICK r \in reloader.cur, i \in reloader.left :
          \E missed \in SUBSET (OnChain \cap {<<r[1], i>>}), v \in 1..now :
            /\ Rpc(missed)
            /\ RegisterArrays(r[1], {i})
            /\ ArrayRead(r, i, missed, v)
    BY <1>3 DEF ReloadArray, ArrayRead
  <2>2. PICK missed \in SUBSET (OnChain \cap {<<r[1], i>>}), v \in 1..now :
          /\ Rpc(missed)
          /\ RegisterArrays(r[1], {i})
          /\ ArrayRead(r, i, missed, v)
    BY <2>1
  <2>3. v \in Vers
    BY CacheAssumption DEF EnvOK, Vers
  <2>4. r[1] \in Pools /\ i \in Idx
    BY DEF ReloaderOK, Requests
  <2>5. ReloaderOK'
    <3>1. \A ver \in Vers \cup {reloader.got[i]} :
            [reloader.got EXCEPT ![i] = ver] \in Arrays
      BY <2>4 DEF ReloaderOK, Arrays
    <3> QED
      BY <2>2, <2>3, <3>1 DEF ArrayRead, ReloaderOK
  <2>6. CacheOK'
    <3>1. arrayIndex' \in SUBSET (Pools \X Idx)
      BY <2>2, <2>4 DEF RegisterArrays, CacheOK
    <3> QED
      BY <1>3, <3>1 DEF ReloadArray, CacheOK
  <2>7. EnvOK'
    BY <1>3, <2>2 DEF ReloadArray, Rpc, EnvOK
  <2> QED
    BY <1>3, <2>5, <2>6, <2>7 DEF ReloadArray
<1>4. CASE Reload
  <2>1. PICK r \in reloader.cur : ReplaceTickArrays(r[1], reloader.got)
    BY <1>4 DEF Reload
  <2> DEFINE st == [pool[r[1]] EXCEPT !.arrays = reloader.got]
  <2>2. r[1] \in Pools
    BY DEF ReloaderOK, Requests
  <2>3. st \in PoolState
    BY <2>2 DEF ReloaderOK, CacheOK, PoolState
  <2>4. WithLimits(r[1], st) \in PoolState
    BY <2>2, <2>3, LimitsType
  <2>5. ChanOK' /\ pool' \in [Pools -> PoolState]
    <3>1. CASE reloader.got = NoArrays
      BY <2>1, <3>1 DEF ReplaceTickArrays, chanVars, ChanOK, CacheOK
    <3>2. CASE reloader.got # NoArrays
      <4>1. Store(r[1], WithLimits(r[1], st))
        BY <2>1, <3>2 DEF ReplaceTickArrays
      <4> QED
        BY <2>2, <2>4, <4>1, StoreType DEF CacheOK
    <3> QED
      BY <3>1, <3>2
  <2>6. CacheOK'
    BY <1>4, <2>5 DEF Reload, indexVars, CacheOK
  <2>7. ReloaderOK'
    BY <1>4, BlankTypes DEF Reload, IdleReloader, ReloaderOK
  <2> QED
    BY <1>4, <2>5, <2>6, <2>7 DEF Reload
<1> QED
  BY <1>1, <1>2, <1>3, <1>4 DEF Reloader

\* Every step of the DLMM refresher keeps the types.
LEMMA TypeRefresher ==
  ASSUME TypeInv, Refresher
  PROVE  TypeInv'
<1> USE DEF TypeInv
<1> USE Frames
<1>1. CASE RefresherWake \/ RefresherSlept \/ ChunkDone
  <2>1. DlmmOK'
    <3>1. IdleRefresher.ver \in Vers
      BY BlankTypes DEF IdleRefresher
    <3>2. CASE RefresherWake \/ RefresherSlept
      BY <3>2 DEF RefresherWake, RefresherSlept, DlmmOK
    <3>3. CASE ChunkDone
      BY <3>1, <3>3 DEF ChunkDone, IdleRefresher, DlmmOK
    <3> QED
      BY <1>1, <3>2, <3>3
  <2> QED
    BY <1>1, <2>1 DEF RefresherWake, RefresherSlept, ChunkDone
<1>2. CASE RefresherDrain
  <2> DEFINE pdas == UNION {{p} \X Window(p, pool[p].cur) : p \in dirty}
  <2>1. pdas \in SUBSET (DlmmPools \X Idx)
    BY DEF Window, DlmmOK
  <2>2. DlmmOK'
    BY <1>2, <2>1, BlankTypes DEF RefresherDrain, IdleRefresher, DlmmOK
  <2> QED
    BY <1>2, <2>2 DEF RefresherDrain
<1>3. CASE FetchBins
  <2>0. PICK c \in ArrayChunks : \E missed \in SUBSET (c \cap OnChain), v \in 1..now :
          /\ Rpc(missed)
          /\ refresher' = [pc |-> "apply", pdas |-> refresher.pdas \ c, cut |-> CutBy(c),
                           got |-> (c \cap OnChain) \ missed, ver |-> v,
                           slot |-> latestSlot]
    BY <1>3 DEF FetchBins
  <2>1. PICK missed \in SUBSET (c \cap OnChain), v \in 1..now :
          /\ Rpc(missed)
          /\ refresher' = [pc |-> "apply", pdas |-> refresher.pdas \ c, cut |-> CutBy(c),
                           got |-> (c \cap OnChain) \ missed, ver |-> v,
                           slot |-> latestSlot]
    BY <2>0
  <2>2. c \in SUBSET (DlmmPools \X Idx)
    BY DEF ArrayChunks, DlmmOK
  <2>3. CutBy(c) \in SUBSET DlmmPools
    BY <2>2 DEF CutBy
  <2>4. v \in Vers
    BY CacheAssumption DEF EnvOK, Vers
  <2>5. DlmmOK'
    BY <1>3, <2>1, <2>2, <2>3, <2>4 DEF FetchBins, DlmmOK, BlockOK
  <2>6. EnvOK'
    BY <1>3, <2>1 DEF FetchBins, Rpc, EnvOK
  <2> QED
    BY <1>3, <2>5, <2>6 DEF FetchBins, fetchVars
<1>4. CASE ApplyBins
  <2>1. PICK x \in refresher.got :
          LET part == PartOf(refresher.got, x[1]) IN
          /\ ReplaceBinArraysSimple(x[1], Answer({y[2] : y \in part}, refresher.ver),
                                    refresher.slot)
          /\ refresher' = [refresher EXCEPT !.got = @ \ part]
    BY <1>4 DEF ApplyBins
  <2> DEFINE arrays == Answer({y[2] : y \in PartOf(refresher.got, x[1])}, refresher.ver)
             st     == [pool[x[1]] EXCEPT !.arrays = arrays, !.slot = refresher.slot]
  <2>2. x[1] \in Pools
    BY DEF DlmmOK, DlmmPools
  <2>3. arrays \in Arrays
    BY AnswerType DEF DlmmOK
  <2>4. st \in PoolState
    <3>1. refresher.slot \in Vers
      BY DEF DlmmOK
    <3> QED
      BY <2>2, <2>3, <3>1, ZenonT(40) DEF CacheOK, PoolState
  <2>5. ChanOK' /\ pool' \in [Pools -> PoolState]
    BY <2>1, <2>2, <2>4, StoreType DEF ReplaceBinArraysSimple, CacheOK
  <2>6. CacheOK'
    BY <1>4, <2>5 DEF ApplyBins, indexVars, CacheOK
  <2>7. DlmmOK'
    BY <1>4, <2>1 DEF ApplyBins, DlmmOK
  <2> QED
    BY <1>4, <2>5, <2>6, <2>7 DEF ApplyBins
<1> QED
  BY <1>1, <1>2, <1>3, <1>4 DEF Refresher

\* Every step keeps the types.
LEMMA TypeStep == TypeInv /\ [Next]_vars => TypeInv'
<1> SUFFICES ASSUME TypeInv, [Next]_vars
             PROVE  TypeInv'
  OBVIOUS
<1> USE Frames DEF TypeInv
<1>1. CASE Advance
  <2>1. EnvOK'
    BY <1>1, CacheAssumption DEF Advance, EnvOK
  <2> QED
    BY <1>1, <2>1 DEF Advance
<1>2. CASE Engine
  <2>1. CacheOK' /\ ChanOK'
    BY <1>2, CacheAssumption DEF Engine, Receive, indexVars, CacheOK, ChanOK
  <2> QED
    BY <1>2, <2>1 DEF Engine, Receive
<1>3. ASSUME NEW t \in Tasks, Handler(t)
      PROVE  TypeInv'
  BY <1>3, TypeHandler
<1>4. ASSUME NEW t \in Tasks, NEW e \in Feed, Deliver(t, e)
      PROVE  TypeInv'
  <2> DEFINE r == [pc |-> Entry[e.type], ev |-> e, at |-> now, st |-> Decoded(e, now),
                   read |-> 0]
  <2>1. now \in Vers
    BY CacheAssumption DEF EnvOK, Vers
  <2>2. e.type \in EventTypes
    BY StreamerAssumption DEF Event
  <2>3. Entry[e.type] \in Labels \ {"dirty"}
    BY <2>2 DEF EventTypes, Entry, Labels
  <2>4. r \in Task /\ r.pc # "dirty"
    BY <2>1, <2>3, DecodedType, BlankTypes DEF Task
  <2>5. HandlerOK'
    BY <1>4, <2>4, SetType DEF Deliver
  <2>6. EnvOK'
    BY <1>4 DEF Deliver, EnvOK
  <2> QED
    BY <1>4, <2>5, <2>6 DEF Deliver
<1>5. CASE Fetcher
  BY <1>5, TypeFetcher
<1>6. CASE Reloader
  BY <1>6, TypeReloader
<1>7. CASE Refresher
  BY <1>7, TypeRefresher
<1>8. CASE UNCHANGED vars
  BY <1>8 DEF vars
<1> QED
  BY <1>1, <1>2, <1>3, <1>4, <1>5, <1>6, <1>7, <1>8 DEF Next

\* Every variable of the streamer stays within its type.
THEOREM TypeCorrect == Spec => []TypeOK
<1>1. Spec => []TypeInv
  BY TypeInit, TypeStep, PTL DEF Spec
<1> QED
  BY <1>1, TypeInvIsTypeOK, PTL

-----------------------------------------------------------------------------
(* The flow of a handler.                                                     *)

\* What a step of handler t does to the handlers: the other ones stay, t keeps its
\* event unless it ends, and the labels of a registration are reached in order.
Moves(t) ==
  /\ \A u \in Tasks \ {t} : task'[u] = task[u]
  /\ task'[t].pc = "idle" \/ task'[t].ev = task[t].ev
  /\ task'[t].pc # "bootContains"
  /\ task'[t].pc = "fetchFee"    => Subscribe(t)
  /\ task'[t].pc = "fetchArrays" => Subscribe(t) \/ FetchFee(t)
  /\ task'[t].pc = "insVaults"   => \/ Subscribe(t) \/ FetchFee(t) \/ FetchArrays(t)
                                    \/ BootContains(t)
  /\ task'[t].pc = "insEmit"     => InsVaults(t)
  /\ task'[t].pc = "insMints"    => InsEmit(t)
  /\ task'[t].pc = "insPool"     => InsMints(t)
  /\ task'[t].pc = "queueVaults" => InsPool(t)

\* What it does to the registration's records: they only grow, and the cache and the
\* history of bootstrap pools grow by InsPool alone.
Grows(t) ==
  /\ vaultIndex \subseteq vaultIndex' /\ mintIndex \subseteq mintIndex'
  /\ pendingSubs \subseteq pendingSubs' /\ pendingVaults \subseteq pendingVaults'
  /\ UNCHANGED <<fetcher, answered>>
  /\ InsPool(t) \/ UNCHANGED <<cached, booted>>

\* Setting a label moves a handler to that label and leaves its event alone.
LEMMA GotoMoves ==
  ASSUME HandlerOK, NEW t \in Tasks, NEW l, Goto(t, l)
  PROVE  /\ \A u \in Tasks \ {t} : task'[u] = task[u]
         /\ task'[t].pc = l /\ task'[t].ev = task[t].ev
BY DEF HandlerOK, Goto, Task

\* Its end makes it idle.
LEMMA DoneMoves ==
  ASSUME HandlerOK, NEW t \in Tasks, Done(t)
  PROVE  /\ \A u \in Tasks \ {t} : task'[u] = task[u]
         /\ task'[t].pc = "idle"
BY DEF HandlerOK, Done, IdleTask

\* Fetching the fee moves a handler to the next label of its registration.
LEMMA FetchFeeMoves ==
  ASSUME HandlerOK, NEW t \in Tasks, FetchFee(t)
  PROVE  /\ \A u \in Tasks \ {t} : task'[u] = task[u]
         /\ task'[t].pc \in {"fetchArrays", "insVaults"} /\ task'[t].ev = task[t].ev
<1>1. PICK missed \in SUBSET {"config"} :
        /\ Rpc(missed)
        /\ task' = [task EXCEPT
             ![t].pc = IF Concentrated(PoolOf(t)) THEN "fetchArrays" ELSE "insVaults",
             ![t].st.fee = IF missed = {} THEN "config" ELSE @]
  BY DEF FetchFee
<1> DEFINE st == [task[t].st EXCEPT !.fee = IF missed = {} THEN "config" ELSE @]
           r  == [task[t] EXCEPT
                    !.pc = IF Concentrated(PoolOf(t)) THEN "fetchArrays" ELSE "insVaults",
                    !.st = st]
<1>2. task' = [task EXCEPT ![t] = r]
  BY <1>1, EventType DEF HandlerOK
<1>3. r.pc \in {"fetchArrays", "insVaults"} /\ r.ev = task[t].ev
  BY EventType DEF Task
<1> QED
  BY <1>2, <1>3 DEF HandlerOK

\* The shape of every handler step.
LEMMA Flow ==
  ASSUME TypeInv, NEW t \in Tasks, Handler(t)
  PROVE  Moves(t) /\ Grows(t)
<1> USE GotoMoves, DoneMoves DEF TypeInv
<1>1. CASE \/ DiscContains(t) \/ DiscPending(t) \/ DiscInsert(t) \/ Contains(t)
           \/ Needs(t) \/ Claim(t) \/ BlockLoad(t) \/ BlockHash(t) \/ BlockSlot(t)
  <2>1. Moves(t)
    BY <1>1 DEF Moves, DiscContains, DiscPending, DiscInsert, Contains, Needs, Claim,
                BlockLoad, BlockHash, BlockSlot
  <2>2. Grows(t)
    BY <1>1 DEF Grows, DiscContains, DiscPending, DiscInsert, Contains, Needs, Claim,
                BlockLoad, BlockHash, BlockSlot, cacheVars, indexVars, fetchVars, histVars
  <2> QED
    BY <2>1, <2>2
<1>2. CASE Math(t) \/ Array(t) \/ Token(t)
  <2>1. Moves(t)
    BY <1>2 DEF Moves, Math, Array, Token
  <2>2. Grows(t)
    BY <1>2 DEF Grows, Math, Array, Token, UpdateMath, UpdateArray, UpdateVaultBalance,
                indexVars, fetchVars, histVars
  <2> QED
    BY <2>1, <2>2
<1>3. CASE Requeue(t) \/ QueueVaults(t) \/ Wake(t) \/ MarkDirty(t) \/ DirtyWake(t)
  <2>1. Moves(t)
    BY <1>3 DEF Moves, Requeue, QueueVaults, Wake, MarkDirty, DirtyWake
  <2>2. Grows(t)
    BY <1>3 DEF Grows, Requeue, QueueVaults, Wake, MarkDirty, DirtyWake, cacheVars,
                indexVars, fetchVars, histVars
  <2> QED
    BY <2>1, <2>2
<1>4. CASE Subscribe(t) \/ BootContains(t)
  <2>1. Moves(t)
    BY <1>4 DEF Moves, Subscribe, BootContains
  <2>2. Grows(t)
    BY <1>4 DEF Grows, Subscribe, BootContains, cacheVars, indexVars, fetchVars, histVars
  <2> QED
    BY <2>1, <2>2
<1>5. CASE FetchFee(t)
  <2>3. Moves(t)
    BY <1>5, FetchFeeMoves DEF Moves
  <2>4. Grows(t)
    BY <1>5 DEF Grows, FetchFee, cacheVars, indexVars, fetchVars, histVars
  <2> QED
    BY <2>3, <2>4
<1>6. CASE FetchArrays(t)
  <2>1. PICK missed \in SUBSET Wanted(PoolOf(t), task[t].st.cur), v \in 1..now :
          LET is == Wanted(PoolOf(t), task[t].st.cur) \ missed IN
          task' = [task EXCEPT
               ![t].pc = "insVaults",
               ![t].st.arrays = Answer(is, v),
               ![t].st.extra = IF Kind[PoolOf(t)] = "dlmm" THEN is ELSE @]
    BY <1>6 DEF FetchArrays
  <2>2. /\ \A u \in Tasks \ {t} : task'[u] = task[u]
        /\ task'[t].pc = "insVaults" /\ task'[t].ev = task[t].ev
    BY <2>1 DEF HandlerOK, Task
  <2>3. Moves(t)
    BY <1>6, <2>2 DEF Moves
  <2>4. Grows(t)
    BY <1>6 DEF Grows, FetchArrays, fetchVars, histVars
  <2> QED
    BY <2>3, <2>4, SMTT(40)
<1>7. CASE InsVaults(t) \/ InsEmit(t) \/ InsMints(t)
  <2>1. Moves(t)
    BY <1>7 DEF Moves, InsVaults, InsEmit, InsMints
  <2>2. Grows(t)
    BY <1>7 DEF Grows, InsVaults, InsEmit, InsMints, InsertVaults, InsertEmit,
                InsertMints, indexVars, fetchVars, histVars
  <2> QED
    BY <2>1, <2>2
<1>8. CASE InsPool(t)
  <2>1. Moves(t)
    BY <1>8 DEF Moves, InsPool
  <2>2. Grows(t)
    BY <1>8 DEF Grows, InsPool, InsertPool, indexVars, fetchVars
  <2> QED
    BY <2>1, <2>2
<1>9. CASE ReadSpacing(t)
  <2>1. /\ \A u \in Tasks \ {t} : task'[u] = task[u]
        /\ task'[t].pc = "array" /\ task'[t].ev = task[t].ev
    BY <1>9 DEF ReadSpacing, HandlerOK, Task
  <2>2. Moves(t)
    BY <1>9, <2>1 DEF Moves
  <2>3. Grows(t)
    BY <1>9 DEF Grows, ReadSpacing, cacheVars, indexVars, fetchVars, histVars
  <2> QED
    BY <2>2, <2>3
<1> QED
  BY <1>1, <1>2, <1>3, <1>4, <1>5, <1>6, <1>7, <1>8, <1>9 DEF Handler

-----------------------------------------------------------------------------
(* What a registration has done by the time its pool can be seen.             *)

\* The inductive part: at each label of a registration, what it has already written.
Registering(t) ==
  /\ task[t].pc \in {"insEmit", "insMints", "insPool"}
       => VaultsOf(PoolOf(t)) \subseteq vaultIndex
  /\ task[t].pc = "insPool" => PoolOf(t) \in mintIndex
  /\ task[t].pc = "bootContains" => task[t].ev.type = "boot"
  /\ task[t].pc \in {"fetchFee", "fetchArrays", "insVaults", "insEmit", "insMints",
                     "insPool"} /\ task[t].ev.type # "boot"
       => VaultsOf(PoolOf(t)) \subseteq pendingSubs
RegisterInv == IndexSound /\ VaultsSubscribed /\ \A t \in Tasks : Registering(t)

\* A handler's own record of its registration stays true.
LEMMA RegisteringSteps ==
  ASSUME TypeInv, RegisterInv, NEW t \in Tasks, Handler(t)
  PROVE  Registering(t)'
<1>1. Moves(t) /\ Grows(t)
  BY Flow
<1>2. /\ task'[t].pc \in {"fetchFee", "fetchArrays", "insVaults", "insEmit", "insMints",
                          "insPool", "bootContains"}
         => task'[t].ev = task[t].ev /\ PoolOf(t)' = PoolOf(t)
  BY <1>1 DEF Moves, PoolOf
<1>3. task'[t].pc \in {"insEmit", "insMints", "insPool"}
        => VaultsOf(PoolOf(t)') \subseteq vaultIndex'
  <2>1. CASE task'[t].pc = "insEmit"
    BY <1>1, <1>2, <2>1 DEF Moves, InsVaults, InsertVaults, VaultsOf
  <2>2. CASE task'[t].pc = "insMints"
    BY <1>1, <1>2, <2>2 DEF Moves, Grows, InsEmit, At, RegisterInv, Registering, VaultsOf
  <2>3. CASE task'[t].pc = "insPool"
    BY <1>1, <1>2, <2>3 DEF Moves, Grows, InsMints, At, RegisterInv, Registering, VaultsOf
  <2> QED
    BY <2>1, <2>2, <2>3
<1>4. task'[t].pc = "insPool" => PoolOf(t)' \in mintIndex'
  BY <1>1, <1>2 DEF Moves, InsMints, InsertMints
<1>5. task'[t].pc # "bootContains"
  BY <1>1 DEF Moves
<1>6. ASSUME task'[t].pc \in {"fetchFee", "fetchArrays", "insVaults", "insEmit",
                              "insMints", "insPool"},
             task'[t].ev.type # "boot"
      PROVE  VaultsOf(PoolOf(t)') \subseteq pendingSubs'
  <2>1. \/ Subscribe(t)
        \/ /\ task[t].pc \in {"fetchFee", "fetchArrays", "insVaults", "insEmit", "insMints"}
           /\ task[t].ev.type # "boot"
    <3>1. \/ Subscribe(t) \/ FetchFee(t) \/ FetchArrays(t) \/ BootContains(t)
          \/ InsVaults(t) \/ InsEmit(t) \/ InsMints(t)
      BY <1>1, <1>6 DEF Moves
    <3>2. BootContains(t) => task[t].ev.type = "boot"
      BY DEF BootContains, At, RegisterInv, Registering
    <3> QED
      BY <1>2, <1>6, <3>1, <3>2
         DEF FetchFee, FetchArrays, InsVaults, InsEmit, InsMints, At
  <2>2. CASE Subscribe(t)
    BY <1>2, <1>6, <2>2 DEF Subscribe, VaultsOf
  <2>3. CASE /\ task[t].pc \in {"fetchFee", "fetchArrays", "insVaults", "insEmit",
                                "insMints"}
             /\ task[t].ev.type # "boot"
    BY <1>1, <1>2, <1>6, <2>3 DEF Grows, RegisterInv, Registering, VaultsOf
  <2> QED
    BY <2>1, <2>2, <2>3
<1> QED
  BY <1>3, <1>4, <1>5, <1>6 DEF Registering, VaultsOf, PoolOf

\* What the registration record of u says stays true while u stays where it is and the
\* indexes and queues grow.
LEMMA RegisteringStays ==
  ASSUME NEW u \in Tasks, Registering(u), task'[u] = task[u],
         vaultIndex \subseteq vaultIndex', mintIndex \subseteq mintIndex',
         pendingSubs \subseteq pendingSubs'
  PROVE  Registering(u)'
BY DEF Registering, PoolOf, VaultsOf

\* The two invariants survive a step that leaves the cache's keys alone.
LEMMA SeenStays ==
  ASSUME IndexSound, VaultsSubscribed, cached' = cached, booted' = booted,
         vaultIndex \subseteq vaultIndex', mintIndex \subseteq mintIndex',
         pendingSubs \subseteq pendingSubs'
  PROVE  IndexSound' /\ VaultsSubscribed'
BY DEF IndexSound, VaultsSubscribed, VaultsOf

\* A step of no handler changes neither the records nor the keys.
LEMMA OthersKeepRecords ==
  ASSUME Advance \/ Engine \/ Fetcher \/ Reloader \/ Refresher \/ UNCHANGED vars
  PROVE  UNCHANGED <<task, cached, booted, vaultIndex, mintIndex, pendingSubs>>
<1>1. CASE Advance \/ Engine \/ UNCHANGED vars
  BY <1>1 DEF Advance, Engine, Receive, vars, cacheVars, indexVars, histVars
<1>2. CASE Fetcher
  BY <1>2 DEF Fetcher, FetcherWake, FetcherDrain, FetchVaults, FetchVaultsFails, ApplyVault,
              UpdateVaultBalance, cacheVars, indexVars, histVars
<1>3. CASE Reloader
  BY <1>3 DEF Reloader, ReloaderWake, ReloaderDrain, ReloadTake, ReloadArray, Reload,
              cacheVars, indexVars, histVars
<1>4. CASE Refresher
  BY <1>4 DEF Refresher, RefresherWake, RefresherSlept, RefresherDrain, FetchBins,
              ApplyBins, ChunkDone, cacheVars, indexVars, histVars
<1> QED
  BY <1>1, <1>2, <1>3, <1>4

\* The registration invariant holds initially,
LEMMA RegisterInit == Init => RegisterInv
BY DEF Init, CacheInit, RegisterInv, IndexSound, VaultsSubscribed, Registering, IdleTask

\* and every step keeps it.
LEMMA RegisterStep == TypeInv /\ RegisterInv /\ [Next]_vars => RegisterInv'
<1> SUFFICES ASSUME TypeInv, RegisterInv, [Next]_vars
             PROVE  RegisterInv'
  OBVIOUS
<1>1. ASSUME NEW t \in Tasks, Handler(t)
      PROVE  RegisterInv'
  <2>1. Moves(t) /\ Grows(t)
    BY <1>1, Flow
  <2>2. \A u \in Tasks : Registering(u)'
    <3>1. Registering(t)'
      BY <1>1, RegisteringSteps
    <3>2. ASSUME NEW u \in Tasks \ {t}
          PROVE  Registering(u)'
      BY <2>1, RegisteringStays DEF Moves, Grows, RegisterInv
    <3> QED
      BY <3>1, <3>2
  <2>3. IndexSound' /\ VaultsSubscribed'
    <3>1. CASE UNCHANGED <<cached, booted>>
      BY <2>1, <3>1, SeenStays DEF Grows, RegisterInv
    <3>2. CASE InsPool(t)
      <4>1. /\ cached' = cached \cup {PoolOf(t)}
            /\ UNCHANGED <<vaultIndex, mintIndex, pendingSubs>>
            /\ booted' = IF task[t].ev.type = "boot" THEN booted \cup {PoolOf(t)}
                         ELSE booted
        BY <3>2 DEF InsPool, InsertPool, indexVars
      <4>2. /\ VaultsOf(PoolOf(t)) \subseteq vaultIndex /\ PoolOf(t) \in mintIndex
            /\ task[t].ev.type # "boot" => VaultsOf(PoolOf(t)) \subseteq pendingSubs
        BY <3>2 DEF InsPool, At, RegisterInv, Registering
      <4>3. IndexSound'
        BY <4>1, <4>2 DEF RegisterInv, IndexSound, VaultsOf
      <4>4. VaultsSubscribed'
        BY <4>1, <4>2 DEF RegisterInv, VaultsSubscribed, VaultsOf
      <4> QED
        BY <4>3, <4>4
    <3> QED
      BY <2>1, <3>1, <3>2 DEF Grows
  <2> QED
    BY <2>2, <2>3 DEF RegisterInv
<1>2. ASSUME NEW t \in Tasks, NEW e \in Feed, Deliver(t, e)
      PROVE  RegisterInv'
  <2>1. UNCHANGED <<cached, booted, vaultIndex, mintIndex, pendingSubs>>
    BY <1>2 DEF Deliver, cacheVars, indexVars, histVars
  <2>2. e.type \in EventTypes
    BY StreamerAssumption DEF Event
  <2>3. /\ \A u \in Tasks \ {t} : task'[u] = task[u]
        /\ task'[t].pc = Entry[e.type] /\ task'[t].ev = e
    BY <1>2 DEF Deliver, TypeInv, HandlerOK
  <2>4. Registering(t)'
    BY <2>2, <2>3 DEF Registering, Entry, EventTypes
  <2>5. ASSUME NEW u \in Tasks \ {t}
        PROVE  Registering(u)'
    BY <2>1, <2>3, RegisteringStays DEF RegisterInv
  <2>6. IndexSound' /\ VaultsSubscribed'
    BY <2>1, SeenStays DEF RegisterInv
  <2> QED
    BY <2>4, <2>5, <2>6 DEF RegisterInv
<1>3. CASE Advance \/ Engine \/ Fetcher \/ Reloader \/ Refresher \/ UNCHANGED vars
  <2>1. UNCHANGED <<task, cached, booted, vaultIndex, mintIndex, pendingSubs>>
    BY <1>3, OthersKeepRecords
  <2>2. \A u \in Tasks : Registering(u)'
    BY <2>1, RegisteringStays DEF RegisterInv
  <2> QED
    BY <2>1, <2>2, SeenStays DEF RegisterInv
<1> QED
  BY <1>1, <1>2, <1>3 DEF Next

\* A pool found in the cache is found under its vaults and its mints.
THEOREM PoolsIndexed == Spec => []IndexSound
<1>1. RegisterInv => IndexSound
  BY DEF RegisterInv
<1> QED
  BY <1>1, TypeInit, TypeStep, RegisterInit, RegisterStep, PTL DEF Spec

\* Its vaults have been queued for the subscription, unless the bootstrap inserted it.
THEOREM PoolsSubscribed == Spec => []VaultsSubscribed
<1>1. RegisterInv => VaultsSubscribed
  BY DEF RegisterInv
<1> QED
  BY <1>1, TypeInit, TypeStep, RegisterInit, RegisterStep, PTL DEF Spec

-----------------------------------------------------------------------------
(* Where the vaults of a registered pool are.                                 *)

\* The fetcher has no batch in its hands while it waits or is about to drain, so that
\* taking the queue does not throw a batch away.
AccountedInv ==
  /\ VaultsAccounted
  /\ fetcher.pc \in {"wait", "drain"} => fetcher.batch = {}

Held == pendingVaults \cup fetcher.batch \cup answered

\* A handler leaves the label where it is about to queue its vaults by queueing them.
LEMMA LeavesQueue ==
  ASSUME NEW t \in Tasks, Handler(t), At(t, "queueVaults")
  PROVE  QueueVaults(t)
BY DEF Handler, At, DiscContains, DiscPending, DiscInsert, Contains, Math, Needs, Requeue,
       Wake, Claim, Subscribe, FetchFee, FetchArrays, InsVaults, InsEmit, InsMints, InsPool,
       BootContains, Token, MarkDirty, DirtyWake, ReadSpacing, Array, BlockLoad,
       BlockHash, BlockSlot

\* Vaults stay accounted for when what is held grows, no pool is added and no handler
\* leaves that label.
LEMMA HeldGrows ==
  ASSUME VaultsAccounted, Held \subseteq Held',
         cached' \ booted' \subseteq cached \ booted,
         \A t \in Tasks : At(t, "queueVaults") =>
           /\ At(t, "queueVaults")' /\ PoolOf(t)' = PoolOf(t)
           \/ VaultsOf(PoolOf(t)) \subseteq Held'
  PROVE  VaultsAccounted'
BY DEF VaultsAccounted, Held, VaultsOf

\* The steps of the vault fetcher keep what is held.
LEMMA FetcherHolds ==
  ASSUME TypeInv, AccountedInv, Fetcher
  PROVE  /\ Held \subseteq Held'
         /\ fetcher'.pc \in {"wait", "drain"} => fetcher'.batch = {}
<1> USE DEF TypeInv, FetchOK
<1>1. CASE FetcherWake
  BY <1>1 DEF FetcherWake, AccountedInv, Held
<1>2. CASE FetcherDrain
  BY <1>2 DEF FetcherDrain, AccountedInv, Held
<1>3. CASE FetchVaults
  <2>1. PICK c \in Chunks : \E missed \in SUBSET c :
          /\ answered' = answered \cup c
          /\ fetcher'.pc = (IF c = missed THEN AfterChunk(c) ELSE "apply")
          /\ fetcher'.batch = fetcher.batch \ c
    BY <1>3 DEF FetchVaults
  <2>2. c \subseteq fetcher.batch
    BY DEF Chunks
  <2>3. pendingVaults' = pendingVaults
    BY <1>3 DEF FetchVaults
  <2> QED
    BY <2>1, <2>2, <2>3 DEF AfterChunk, Held
<1>4. CASE FetchVaultsFails
  <2>1. PICK c \in Chunks :
          /\ pendingVaults' = pendingVaults \cup c
          /\ fetcher' = [fetcher EXCEPT !.pc = AfterChunk(c), !.batch = @ \ c]
    BY <1>4 DEF FetchVaultsFails
  <2>2. c \subseteq fetcher.batch
    BY DEF Chunks
  <2>3. answered' = answered
    BY <1>4 DEF FetchVaultsFails
  <2> QED
    BY <2>1, <2>2, <2>3 DEF AfterChunk, Held
<1>5. CASE ApplyVault
  <2>1. PICK w \in ToApply :
          fetcher' = [fetcher EXCEPT
                        !.got[w] = 0,
                        !.pc = IF ToApply # {w} THEN "apply"
                               ELSE IF fetcher.batch = {} THEN "wait" ELSE "fetch"]
    BY <1>5 DEF ApplyVault
  <2>2. /\ fetcher'.batch = fetcher.batch
        /\ fetcher'.pc \in {"wait", "drain"} => fetcher.batch = {}
    BY <2>1
  <2>3. UNCHANGED <<pendingVaults, answered>>
    BY <1>5 DEF ApplyVault
  <2> QED
    BY <2>2, <2>3, SMTT(40) DEF Held
<1> QED
  BY <1>1, <1>2, <1>3, <1>4, <1>5 DEF Fetcher

\* The other loops, the stream's clock and the engine do not touch the fetcher.
LEMMA OthersKeepFetcher ==
  ASSUME Advance \/ Engine \/ Reloader \/ Refresher \/ UNCHANGED vars
  PROVE  UNCHANGED <<pendingVaults, fetcher, answered>>
BY DEF Advance, Engine, Reloader, ReloaderWake, ReloaderDrain, ReloadTake, ReloadArray,
       Reload, Refresher, RefresherWake, RefresherSlept, RefresherDrain, FetchBins, ApplyBins, ChunkDone,
       vars, fetchVars

\* Every vault is accounted for initially,
LEMMA AccountedInit == Init => AccountedInv
BY DEF Init, CacheInit, IdleFetcher, AccountedInv, VaultsAccounted

\* and after every step.
LEMMA AccountedStep == TypeInv /\ AccountedInv /\ [Next]_vars => AccountedInv'
<1> SUFFICES ASSUME TypeInv, AccountedInv, [Next]_vars
             PROVE  AccountedInv'
  OBVIOUS
<1>1. ASSUME NEW t \in Tasks, Handler(t)
      PROVE  AccountedInv'
  <2>1. Moves(t) /\ Grows(t)
    BY <1>1, Flow
  <2>2. Held \subseteq Held' /\ UNCHANGED fetcher
    BY <2>1 DEF Grows, Held
  <2>3. ASSUME NEW u \in Tasks, At(u, "queueVaults")
        PROVE  \/ At(u, "queueVaults")' /\ PoolOf(u)' = PoolOf(u)
               \/ VaultsOf(PoolOf(u)) \subseteq Held'
    <3>1. CASE u = t
      <4>1. QueueVaults(t)
        BY <1>1, <2>3, <3>1, LeavesQueue
      <4> QED
        BY <3>1, <4>1 DEF QueueVaults, Held
    <3>2. CASE u # t
      BY <2>1, <2>3, <3>2 DEF Moves, At, PoolOf
    <3> QED
      BY <3>1, <3>2
  <2>4. VaultsAccounted'
    <3>1. CASE UNCHANGED <<cached, booted>>
      BY <2>2, <2>3, <3>1, HeldGrows DEF AccountedInv
    <3>2. CASE InsPool(t) /\ task[t].ev.type = "boot"
      <4>1. cached' \ booted' \subseteq cached \ booted
        BY <3>2 DEF InsPool, InsertPool
      <4> QED
        BY <2>2, <2>3, <4>1, HeldGrows DEF AccountedInv
    <3>3. CASE InsPool(t) /\ task[t].ev.type # "boot"
      <4>1. cached' = cached \cup {PoolOf(t)} /\ booted' = booted
        BY <3>3 DEF InsPool, InsertPool
      <4>2. At(t, "queueVaults")' /\ PoolOf(t)' = PoolOf(t)
        BY <3>3, GotoMoves DEF InsPool, At, PoolOf, TypeInv
      <4>3. ASSUME NEW p \in cached' \ booted'
            PROVE  \/ VaultsOf(p) \subseteq Held'
                   \/ \E u \in Tasks : At(u, "queueVaults")' /\ PoolOf(u)' = p
        <5>1. CASE p = PoolOf(t)
          BY <4>2, <5>1
        <5>2. CASE p \in cached \ booted
          BY <2>2, <2>3, <5>2 DEF AccountedInv, VaultsAccounted, Held
        <5> QED
          BY <4>1, <5>1, <5>2
      <4> QED
        BY <4>3 DEF VaultsAccounted, Held, VaultsOf
    <3> QED
      BY <2>1, <3>1, <3>2, <3>3 DEF Grows
  <2> QED
    BY <2>2, <2>4 DEF AccountedInv
<1>2. ASSUME NEW t \in Tasks, NEW e \in Feed, Deliver(t, e)
      PROVE  AccountedInv'
  <2>1. UNCHANGED <<cached, booted, pendingVaults, fetcher, answered>>
    BY <1>2 DEF Deliver, cacheVars, fetchVars, histVars
  <2>2. At(t, "idle") /\ \A u \in Tasks \ {t} : task'[u] = task[u]
    BY <1>2 DEF Deliver, TypeInv, HandlerOK
  <2>3. \A u \in Tasks : At(u, "queueVaults")
          => At(u, "queueVaults")' /\ PoolOf(u)' = PoolOf(u)
    BY <2>2 DEF At, PoolOf
  <2>4. VaultsAccounted'
    BY <2>1, <2>3, HeldGrows DEF AccountedInv, Held
  <2> QED
    BY <2>1, <2>4 DEF AccountedInv
<1>3. CASE Advance \/ Engine \/ Fetcher \/ Reloader \/ Refresher \/ UNCHANGED vars
  <2>1. UNCHANGED <<task, cached, booted>>
    BY <1>3, OthersKeepRecords
  <2>2. /\ Held \subseteq Held'
        /\ fetcher'.pc \in {"wait", "drain"} => fetcher'.batch = {}
    BY <1>3, FetcherHolds, OthersKeepFetcher DEF AccountedInv, Held
  <2>3. VaultsAccounted'
    BY <2>1, <2>2, HeldGrows DEF AccountedInv, At, PoolOf
  <2> QED
    BY <2>2, <2>3 DEF AccountedInv
<1> QED
  BY <1>1, <1>2, <1>3 DEF Next

\* The vaults of a pool registered from the stream are queued, in the fetcher's hands or
\* answered, whatever calls fail and however batches are cut into chunks.
THEOREM VaultsNeverForgotten == Spec => []VaultsAccounted
<1>1. AccountedInv => VaultsAccounted
  BY DEF AccountedInv
<1> QED
  BY <1>1, TypeInit, TypeStep, AccountedInit, AccountedStep, PTL DEF Spec

-----------------------------------------------------------------------------
(* The limits stored with a pool.                                             *)

\* Limits are fresh for every pool, in the cache or not yet: the record of a pool that
\* is not there has never been written.
Fresh(p, st) == Concentrated(p) => st.lim = ComputeLimits(st)
LimitsInv    == \A p \in Pools : Fresh(p, pool[p])

\* Computing the limits makes them fresh: they are no argument of their own.
LEMMA LimitsAreFresh ==
  ASSUME NEW p \in Pools, NEW st \in PoolState
  PROVE  Fresh(p, WithLimits(p, st))
BY DEF Fresh, WithLimits, ComputeLimits, PoolState

\* A merged account has fresh limits.
LEMMA MergeIsFresh ==
  ASSUME NEW p \in Pools, NEW old \in PoolState, NEW new \in PoolState
  PROVE  Fresh(p, MergeMath(p, old, new))
<1>1. CASE ~Concentrated(p)
  BY <1>1 DEF Fresh
<1>2. CASE Concentrated(p)
  <2> DEFINE st == [old EXCEPT !.px = new.px, !.cur = new.cur, !.slot = new.slot,
                               !.fee = IF new.fee # "zero" THEN new.fee ELSE @]
  <2>1. st \in PoolState
    BY DEF PoolState
  <2>2. MergeMath(p, old, new) = WithLimits(p, st)
    BY <1>2 DEF MergeMath, Concentrated
  <2> QED
    BY <2>1, <2>2, LimitsAreFresh
<1> QED
  BY <1>1, <1>2

\* A balance or a slot is no argument of the limits.
LEMMA BalanceIsFresh ==
  ASSUME CacheOK, NEW p \in Pools, Fresh(p, pool[p]), NEW side, NEW balance, NEW slot
  PROVE  Fresh(p, SetBalance(p, side, balance, slot))
BY DEF CacheOK, Fresh, SetBalance, Concentrated, ComputeLimits, PoolState

\* Writing a fresh state keeps all limits fresh.
LEMMA WriteFresh ==
  ASSUME CacheOK, LimitsInv, NEW p \in Pools, NEW st, Fresh(p, st),
         pool' = [pool EXCEPT ![p] = st]
  PROVE  LimitsInv'
<1>1. ASSUME NEW q \in Pools
      PROVE  Fresh(q, pool'[q])
  BY DEF CacheOK, LimitsInv
<1> QED
  BY <1>1 DEF LimitsInv, Fresh, Concentrated, ComputeLimits, NoLimit, NoArrays, AnyTick

\* So does writing none.
LEMMA KeepFresh ==
  ASSUME LimitsInv, pool' = pool
  PROVE  LimitsInv'
BY DEF LimitsInv, Fresh, Concentrated, ComputeLimits, NoLimit, NoArrays, AnyTick

\* A handler's write is fresh.
LEMMA HandlerFresh ==
  ASSUME TypeInv, LimitsInv, NEW t \in Tasks, Handler(t)
  PROVE  LimitsInv'
<1> USE EventType DEF TypeInv
<1> DEFINE p == PoolOf(t)
<1>1. CASE Math(t)
  <2>1. pool' = [pool EXCEPT ![p] = MergeMath(p, pool[p], task[t].st)]
    BY <1>1 DEF Math, UpdateMath, Store
  <2>2. pool[p] \in PoolState /\ task[t].st \in PoolState
    BY DEF CacheOK, Task
  <2> QED
    BY <2>1, <2>2, MergeIsFresh, WriteFresh
<1>2. CASE InsPool(t)
  <2>1. pool' = [pool EXCEPT ![p] = WithLimits(p, task[t].st)]
    BY <1>2 DEF InsPool, InsertPool
  <2>2. task[t].st \in PoolState
    BY DEF Task
  <2> QED
    BY <2>1, <2>2, LimitsAreFresh, WriteFresh
<1>3. CASE Token(t)
  <2>1. \/ pool' = [pool EXCEPT ![p] = SetBalance(p, task[t].ev.side, task[t].at,
                                                  task[t].at)]
        \/ pool' = pool
    BY <1>3 DEF Token, UpdateVaultBalance, Store
  <2>2. Fresh(p, SetBalance(p, task[t].ev.side, task[t].at, task[t].at))
    BY BalanceIsFresh DEF LimitsInv
  <2> QED
    BY <2>1, <2>2, WriteFresh, KeepFresh
<1>4. CASE Array(t)
  <2>1. PICK ver \in {Garbled} \cup Vers :
          \/ pool' = [pool EXCEPT ![p] =
               WithLimits(p, [pool[p] EXCEPT !.arrays[task[t].ev.idx] = ver,
                                             !.slot = task[t].at])]
          \/ pool' = pool
    BY <1>4 DEF Array, UpdateArray, Store, Task
  <2> DEFINE st == [pool[p] EXCEPT !.arrays[task[t].ev.idx] = ver, !.slot = task[t].at]
  <2>2. st \in PoolState
    <3>1. [pool[p].arrays EXCEPT ![task[t].ev.idx] = ver] \in Arrays
      BY DEF CacheOK, PoolState, Arrays, Event
    <3> QED
      BY <3>1, ZenonT(40) DEF CacheOK, PoolState, Task
  <2>3. CASE pool' = [pool EXCEPT ![p] = WithLimits(p, st)]
    BY <2>2, <2>3, LimitsAreFresh, WriteFresh
  <2> QED
    BY <2>1, <2>3, KeepFresh
<1>5. CASE ~(Math(t) \/ InsPool(t) \/ Token(t) \/ Array(t))
  <2>1. pool' = pool
    BY <1>5 DEF Handler, DiscContains, DiscPending, DiscInsert, Contains, Needs, Requeue,
                Wake, Claim, Subscribe, FetchFee, FetchArrays, InsVaults, InsertVaults, InsEmit,
                InsertEmit, InsMints, InsertMints, QueueVaults, BootContains, MarkDirty,
                DirtyWake, ReadSpacing, BlockLoad, BlockHash, BlockSlot, cacheVars
  <2> QED
    BY <2>1, KeepFresh, SMTT(40)
<1> QED
  BY <1>1, <1>2, <1>3, <1>4, <1>5

\* The loops' writes are fresh.
LEMMA LoopsFresh ==
  ASSUME TypeInv, LimitsInv, Fetcher \/ Reloader \/ Refresher
  PROVE  LimitsInv'
<1> USE DEF TypeInv
<1>1. CASE ApplyVault
  <2>1. PICK w \in Vaults :
          UpdateVaultBalance(w[1], w[2], fetcher.got[w], fetcher.slot)
    BY <1>1 DEF ApplyVault, ToApply
  <2>2. w[1] \in Pools
    BY DEF Vaults
  <2>3. \/ pool' = [pool EXCEPT ![w[1]] =
                      SetBalance(w[1], w[2], fetcher.got[w], fetcher.slot)]
        \/ pool' = pool
    BY <2>1 DEF UpdateVaultBalance, Store
  <2>4. Fresh(w[1], SetBalance(w[1], w[2], fetcher.got[w], fetcher.slot))
    BY <2>2, BalanceIsFresh DEF LimitsInv
  <2> QED
    BY <2>2, <2>3, <2>4, WriteFresh, KeepFresh
<1>2. CASE Reload
  <2>1. PICK r \in reloader.cur : ReplaceTickArrays(r[1], reloader.got)
    BY <1>2 DEF Reload
  <2> DEFINE st == [pool[r[1]] EXCEPT !.arrays = reloader.got]
  <2>2. r[1] \in Pools
    BY DEF ReloaderOK, Requests
  <2>3. st \in PoolState
    BY <2>2 DEF ReloaderOK, CacheOK, PoolState
  <2>4. pool' = [pool EXCEPT ![r[1]] = WithLimits(r[1], st)] \/ pool' = pool
    BY <2>1 DEF ReplaceTickArrays, Store, chanVars
  <2> QED
    BY <2>2, <2>3, <2>4, LimitsAreFresh, WriteFresh, KeepFresh
<1>3. CASE ApplyBins
  <2>1. PICK x \in refresher.got :
          \E arrays : ReplaceBinArraysSimple(x[1], arrays, refresher.slot)
    BY <1>3 DEF ApplyBins
  <2>2. x[1] \in Pools /\ ~Concentrated(x[1])
    BY DEF DlmmOK, DlmmPools, Concentrated
  <2>3. PICK st : pool' = [pool EXCEPT ![x[1]] = st]
    BY <2>1 DEF ReplaceBinArraysSimple, Store
  <2>4. Fresh(x[1], st)
    BY <2>2 DEF Fresh
  <2> QED
    BY <2>2, <2>3, <2>4, WriteFresh
<1>4. CASE ~(ApplyVault \/ Reload \/ ApplyBins)
  <2>1. pool' = pool
    BY <1>4 DEF Fetcher, FetcherWake, FetcherDrain, FetchVaults, FetchVaultsFails, Reloader,
                ReloaderWake, ReloaderDrain, ReloadTake, ReloadArray, Refresher,
                RefresherWake, RefresherSlept, RefresherDrain, FetchBins, ChunkDone, cacheVars
  <2> QED
    BY <2>1, KeepFresh
<1> QED
  BY <1>1, <1>2, <1>3, <1>4

\* No array, no limit: the initial state is fresh,
LEMMA LimitsInit == Init => LimitsInv
BY DEF Init, CacheInit, BlankPool, LimitsInv, Fresh, ComputeLimits

\* and every step keeps it so.
LEMMA LimitsStep == TypeInv /\ LimitsInv /\ [Next]_vars => LimitsInv'
<1> SUFFICES ASSUME TypeInv, LimitsInv, [Next]_vars
             PROVE  LimitsInv'
  OBVIOUS
<1>1. ASSUME NEW t \in Tasks, Handler(t)
      PROVE  LimitsInv'
  BY <1>1, HandlerFresh
<1>2. ASSUME NEW t \in Tasks, NEW e \in Feed, Deliver(t, e)
      PROVE  LimitsInv'
  BY <1>2, KeepFresh DEF Deliver, cacheVars
<1>3. CASE Advance \/ Engine \/ UNCHANGED vars
  BY <1>3, KeepFresh DEF Advance, Engine, Receive, vars, cacheVars
<1>4. CASE Fetcher \/ Reloader \/ Refresher
  BY <1>4, LoopsFresh
<1> QED
  BY <1>1, <1>2, <1>3, <1>4 DEF Next

\* Whichever of price, tick, arrays and fee changed last, the limits the cache holds and
\* sends to the engine are those of all four.
THEOREM LimitsNeverStale == Spec => []LimitsFresh
<1>1. TypeInv /\ LimitsInv => LimitsFresh
  BY SMTT(40) DEF TypeInv, CacheOK, LimitsInv, LimitsFresh, Fresh
<1> QED
  BY <1>1, TypeInit, TypeStep, LimitsInit, LimitsStep, PTL DEF Spec

-----------------------------------------------------------------------------
(* Wake-ups.  A loop that waits is no inductive notion: what is queued while the     *)
(* loop works is still there when it waits again.  So the permit is owed whenever    *)
(* something is queued and the loop is not just about to take all of it.            *)

VaultsWoken ==
  pendingVaults # {} /\ fetcher.pc # "drain"
    => vaultPermit \/ Waking("wake") \/ fails > 0
PoolsWoken ==
  dirty # {} /\ refresher.pc \notin {"sleep", "drain"} => dlmmPermit \/ Waking("dirtyWake")
ReloadsWoken == tickQ # {} /\ reloader.pc # "drain" => reloadPermit
WakeInv == VaultsWoken /\ PoolsWoken /\ ReloadsWoken

\* A handler that has filled a queue wakes the loop in its next step.
LEMMA LeavesWake ==
  ASSUME NEW t \in Tasks, Handler(t)
  PROVE  /\ At(t, "wake") => Wake(t)
         /\ At(t, "dirtyWake") => DirtyWake(t)
BY ZenonT(40) DEF Handler, At, DiscContains, DiscPending, DiscInsert, Contains, Math, Needs, Requeue,
       Wake, Claim, Subscribe, FetchFee, FetchArrays, InsVaults, InsEmit, InsMints, InsPool,
       QueueVaults, BootContains, Token, MarkDirty, DirtyWake, ReadSpacing, Array, BlockLoad,
       BlockHash, BlockSlot

\* The handlers that touch the queues of the vault fetcher and of the refresher.
LEMMA OthersKeepQueues ==
  ASSUME NEW t \in Tasks, Handler(t)
  PROVE  /\ \/ Requeue(t) \/ QueueVaults(t) \/ Wake(t)
            \/ UNCHANGED <<pendingVaults, vaultPermit>>
         /\ MarkDirty(t) \/ DirtyWake(t) \/ UNCHANGED <<dirty, dlmmPermit>>
         /\ Math(t) \/ UNCHANGED <<tickQ, reloadPermit>>
         /\ UNCHANGED <<fetcher, refresher, reloader>>
BY DEF Handler, DiscContains, DiscPending, DiscInsert, Contains, Math, Needs, Requeue,
       Wake, Claim, Subscribe, FetchFee, FetchArrays, InsVaults, InsEmit, InsMints, InsPool,
       QueueVaults, BootContains, Token, MarkDirty, DirtyWake, ReadSpacing, Array, BlockLoad,
       BlockHash, BlockSlot, InsertVaults, InsertEmit, InsertMints, InsertPool,
       UpdateVaultBalance, UpdateArray, cacheVars, queueVars, fetchVars, dlmmVars

\* A call that fails is counted for good.
LEMMA FailsGrow ==
  ASSUME EnvOK, [Next]_vars
  PROVE  fails > 0 => fails' > 0
<1> USE DEF EnvOK
<1>1. ASSUME NEW missed, Rpc(missed)
      PROVE  fails > 0 => fails' > 0
  BY <1>1 DEF Rpc
<1>2. ASSUME NEW t \in Tasks, Handler(t)
      PROVE  fails > 0 => fails' > 0
  <2>1. CASE FetchFee(t) \/ FetchArrays(t)
    BY <1>1, <2>1 DEF FetchFee, FetchArrays
  <2>2. CASE ~(FetchFee(t) \/ FetchArrays(t))
    BY <1>2, <2>2
       DEF Handler, DiscContains, DiscPending, DiscInsert, Contains, Math, Needs, Requeue,
           Wake, Claim, Subscribe, InsVaults, InsEmit, InsMints, InsPool, QueueVaults,
           BootContains, Token, MarkDirty, DirtyWake, ReadSpacing, Array, BlockLoad,
           BlockHash, BlockSlot, envVars
  <2> QED
    BY <2>1, <2>2
<1>3. CASE FetchVaults \/ FetchVaultsFails \/ ReloadArray \/ FetchBins
  BY <1>1, <1>3 DEF FetchVaults, FetchVaultsFails, ReloadArray, FetchBins
<1>4. CASE /\ Fetcher \/ Reloader \/ Refresher
           /\ ~(FetchVaults \/ FetchVaultsFails \/ ReloadArray \/ FetchBins)
  BY <1>4 DEF Fetcher, FetcherWake, FetcherDrain, ApplyVault, Reloader, ReloaderWake,
              ReloaderDrain, ReloadTake, Reload, Refresher, RefresherWake, RefresherSlept, RefresherDrain,
              ApplyBins, ChunkDone, envVars
<1>5. CASE Advance \/ Engine \/ UNCHANGED vars
  BY <1>5 DEF Advance, Engine, vars, envVars
<1>6. ASSUME NEW t \in Tasks, NEW e \in Feed, Deliver(t, e)
      PROVE  fails > 0 => fails' > 0
  BY <1>6 DEF Deliver
<1> QED
  BY <1>2, <1>3, <1>4, <1>5, <1>6 DEF Next

\* A wake-up that another handler is about to make stays on its way.
LEMMA StaysWaking ==
  ASSUME NEW l, Waking(l),
         \A u \in Tasks : At(u, l) => task'[u] = task[u]
  PROVE  Waking(l)'
BY DEF Waking, At

\* Nobody has queued anything initially.
LEMMA WakeInit == Init => WakeInv
BY DEF Init, CacheInit, WakeInv, VaultsWoken, PoolsWoken, ReloadsWoken

\* A handler that queues something wakes the loop, or is about to.
LEMMA WakeHandler ==
  ASSUME TypeInv, WakeInv, [Next]_vars, NEW t \in Tasks, Handler(t)
  PROVE  WakeInv'
<1> USE DEF TypeInv
<1>1. \A u \in Tasks \ {t} : task'[u] = task[u]
  BY Flow DEF Moves
<1>2. VaultsWoken'
  <2>1. CASE Wake(t)
    BY <2>1 DEF Wake, VaultsWoken
  <2>2. CASE Requeue(t) \/ QueueVaults(t)
    <3>1. At(t, "wake")'
      BY <2>2, GotoMoves DEF Requeue, QueueVaults, At
    <3> QED
      BY <3>1 DEF VaultsWoken, Waking, At
  <2>3. CASE ~(Wake(t) \/ Requeue(t) \/ QueueVaults(t))
    <3>1. UNCHANGED <<pendingVaults, vaultPermit, fetcher>>
      BY <2>3, OthersKeepQueues
    <3>2. Waking("wake") => Waking("wake")'
      BY <1>1, <2>3, LeavesWake, StaysWaking
    <3> QED
      BY <3>1, <3>2, FailsGrow DEF WakeInv, VaultsWoken
  <2> QED
    BY <2>1, <2>2, <2>3
<1>3. PoolsWoken'
  <2>1. CASE DirtyWake(t)
    BY <2>1 DEF DirtyWake, PoolsWoken
  <2>2. CASE MarkDirty(t)
    <3>1. At(t, "dirtyWake")'
      BY <2>2, GotoMoves DEF MarkDirty, At
    <3> QED
      BY <3>1 DEF PoolsWoken, Waking, At
  <2>3. CASE ~(DirtyWake(t) \/ MarkDirty(t))
    <3>1. UNCHANGED <<dirty, dlmmPermit, refresher>>
      BY <2>3, OthersKeepQueues
    <3>2. Waking("dirtyWake") => Waking("dirtyWake")'
      BY <1>1, <2>3, LeavesWake, StaysWaking
    <3> QED
      BY <3>1, <3>2 DEF WakeInv, PoolsWoken
  <2> QED
    BY <2>1, <2>2, <2>3
<1>4. ReloadsWoken'
  <2>1. CASE Math(t)
    BY <2>1 DEF Math, UpdateMath, WakeInv, ReloadsWoken
  <2>2. CASE ~Math(t)
    BY <2>2, OthersKeepQueues DEF WakeInv, ReloadsWoken
  <2> QED
    BY <2>1, <2>2
<1> QED
  BY <1>2, <1>3, <1>4 DEF WakeInv

\* A loop that takes a permit drains its queue next; only a failed call refills the
\* queue of the vault fetcher without one.
LEMMA WakeLoops ==
  ASSUME TypeInv, WakeInv, [Next]_vars, Fetcher \/ Reloader \/ Refresher
  PROVE  WakeInv'
<1> USE DEF TypeInv
<1>1. task' = task
  BY OthersKeepRecords
<1>2. Waking("wake") = Waking("wake")' /\ Waking("dirtyWake") = Waking("dirtyWake")'
  BY <1>1 DEF Waking, At
<1>3. CASE Fetcher
  <2>1. UNCHANGED <<dirty, dlmmPermit, refresher, tickQ, reloadPermit, reloader>>
    BY <1>3 DEF Fetcher, FetcherWake, FetcherDrain, FetchVaults, FetchVaultsFails, ApplyVault,
                UpdateVaultBalance, cacheVars, queueVars, dlmmVars
  <2>2. PoolsWoken' /\ ReloadsWoken'
    BY <1>2, <2>1 DEF WakeInv, PoolsWoken, ReloadsWoken
  <2>3. VaultsWoken'
    <3>1. CASE FetcherWake
      BY <3>1 DEF FetcherWake, VaultsWoken, FetchOK
    <3>2. CASE FetcherDrain
      BY <3>2 DEF FetcherDrain, VaultsWoken
    <3>3. CASE FetchVaults \/ ApplyVault
      BY <1>2, <3>3, FailsGrow DEF FetchVaults, ApplyVault, WakeInv, VaultsWoken
    <3>4. CASE FetchVaultsFails
      <4>1. PICK c \in Chunks : Rpc(c) /\ pendingVaults' = pendingVaults \cup c
        BY <3>4 DEF FetchVaultsFails
      <4>2. CASE c = {}
        BY <1>2, <3>4, <4>1, <4>2, FailsGrow DEF FetchVaultsFails, WakeInv, VaultsWoken
      <4>3. CASE c # {}
        BY <4>1, <4>3 DEF Rpc, EnvOK, VaultsWoken
      <4> QED
        BY <4>2, <4>3
    <3> QED
      BY <1>3, <3>1, <3>2, <3>3, <3>4 DEF Fetcher
  <2> QED
    BY <2>2, <2>3 DEF WakeInv
<1>4. CASE Reloader
  <2>1. UNCHANGED <<dirty, dlmmPermit, refresher, pendingVaults, vaultPermit, fetcher>>
    BY <1>4 DEF Reloader, ReloaderWake, ReloaderDrain, ReloadTake, ReloadArray, Reload,
                fetchVars, dlmmVars
  <2>2. PoolsWoken' /\ VaultsWoken'
    BY <1>2, <2>1, FailsGrow DEF WakeInv, PoolsWoken, VaultsWoken
  <2>3. ReloadsWoken'
    <3>1. CASE ReloaderWake
      BY <3>1 DEF ReloaderWake, ReloadsWoken, ReloaderOK
    <3>2. CASE ReloaderDrain
      BY <3>2 DEF ReloaderDrain, ReloadsWoken
    <3>3. CASE ReloadTake \/ ReloadArray \/ Reload
      BY <3>3 DEF ReloadTake, ReloadArray, Reload, cacheVars, queueVars, WakeInv,
                  ReloadsWoken
    <3> QED
      BY <1>4, <3>1, <3>2, <3>3 DEF Reloader
  <2> QED
    BY <2>2, <2>3 DEF WakeInv
<1>5. CASE Refresher
  <2>1. UNCHANGED <<pendingVaults, vaultPermit, fetcher, tickQ, reloadPermit, reloader>>
    BY <1>5 DEF Refresher, RefresherWake, RefresherSlept, RefresherDrain, FetchBins,
                ApplyBins, ChunkDone, cacheVars, queueVars, fetchVars
  <2>2. ReloadsWoken' /\ VaultsWoken'
    BY <1>2, <2>1, FailsGrow DEF WakeInv, ReloadsWoken, VaultsWoken
  <2>3. PoolsWoken'
    <3>1. CASE RefresherWake \/ RefresherSlept
      BY <3>1 DEF RefresherWake, RefresherSlept, PoolsWoken, DlmmOK
    <3>2. CASE RefresherDrain
      BY <3>2 DEF RefresherDrain, PoolsWoken
    <3>3. CASE FetchBins \/ ApplyBins \/ ChunkDone
      <4>1. /\ UNCHANGED <<dirty, dlmmPermit>>
            /\ refresher.pc \notin {"sleep", "drain"}
        BY <3>3 DEF FetchBins, ApplyBins, ChunkDone
      <4> QED
        BY <1>2, <4>1 DEF WakeInv, PoolsWoken
    <3> QED
      BY <1>5, <3>1, <3>2, <3>3 DEF Refresher
  <2> QED
    BY <2>2, <2>3 DEF WakeInv
<1> QED
  BY <1>3, <1>4, <1>5

\* Every step keeps the permits that are owed.
LEMMA WakeStep == TypeInv /\ WakeInv /\ [Next]_vars => WakeInv'
<1> SUFFICES ASSUME TypeInv, WakeInv, [Next]_vars
             PROVE  WakeInv'
  OBVIOUS
<1>1. ASSUME NEW t \in Tasks, Handler(t)
      PROVE  WakeInv'
  BY <1>1, WakeHandler
<1>2. ASSUME NEW t \in Tasks, NEW e \in Feed, Deliver(t, e)
      PROVE  WakeInv'
  <2>1. \A u \in Tasks : At(u, "wake") \/ At(u, "dirtyWake") => task'[u] = task[u]
    BY <1>2 DEF Deliver, At, TypeInv, HandlerOK
  <2>2. /\ Waking("wake") => Waking("wake")'
        /\ Waking("dirtyWake") => Waking("dirtyWake")'
    BY <2>1, StaysWaking
  <2> QED
    BY <1>2, <2>2 DEF Deliver, cacheVars, queueVars, fetchVars, dlmmVars, WakeInv,
                      VaultsWoken, PoolsWoken, ReloadsWoken
<1>3. CASE Fetcher \/ Reloader \/ Refresher
  BY <1>3, WakeLoops
<1>4. CASE Advance \/ Engine \/ UNCHANGED vars
  BY <1>4 DEF Advance, Engine, Receive, vars, cacheVars, queueVars, envVars, fetchVars,
              dlmmVars, WakeInv, VaultsWoken, PoolsWoken, ReloadsWoken, Waking, At
<1> QED
  BY <1>1, <1>2, <1>3, <1>4 DEF Next

\* The vault fetcher does not wait over queued vaults without a permit or a wake-up on its
\* way: a push between its drain and its next wait leaves one, unless a call has failed.
THEOREM FetcherAwake == Spec => []FetcherNotStranded
<1>1. WakeInv => FetcherNotStranded
  BY DEF WakeInv, VaultsWoken, FetcherNotStranded
<1> QED
  BY <1>1, TypeInit, TypeStep, WakeInit, WakeStep, PTL DEF Spec

\* Neither does the refresher over dirty pools, although a pool may be marked while it
\* sleeps or fetches,
THEOREM RefresherAwake == Spec => []RefresherNotStranded
<1>1. WakeInv => RefresherNotStranded
  BY DEF WakeInv, PoolsWoken, RefresherNotStranded
<1> QED
  BY <1>1, TypeInit, TypeStep, WakeInit, WakeStep, PTL DEF Spec

\* nor the reloader over requests pushed while it loads.
THEOREM ReloaderAwake == Spec => []ReloaderNotStranded
<1>1. WakeInv => ReloaderNotStranded
  BY DEF WakeInv, ReloadsWoken, ReloaderNotStranded
<1> QED
  BY <1>1, TypeInit, TypeStep, WakeInit, WakeStep, PTL DEF Spec

-----------------------------------------------------------------------------
(* What handlers and loops carry.  A step uses what an earlier step of the task, or  *)
(* another task, found: the pool seen in the cache, the decoded state, the slot.      *)

\* What a step of handler t does to what it carries.
Carries(t) ==
  /\ \/ task'[t] = IdleTask
     \/ /\ task'[t].ev = task[t].ev /\ task'[t].at = task[t].at
        /\ FetchFee(t) \/ FetchArrays(t) \/ task'[t].st = task[t].st
  /\ task'[t].pc # "contains"
  /\ task'[t].pc = "math"  => Contains(t)
  /\ task'[t].pc = "dirty" => Token(t)

\* Going to another label carries everything on.
LEMMA GotoCarries ==
  ASSUME HandlerOK, NEW t \in Tasks, NEW l, Goto(t, l)
  PROVE  /\ task'[t].ev = task[t].ev /\ task'[t].at = task[t].at
         /\ task'[t].st = task[t].st /\ task'[t].pc = l
BY DEF HandlerOK, Goto, Task

\* The end of a handler leaves nothing.
LEMMA DoneCarries ==
  ASSUME HandlerOK, NEW t \in Tasks, Done(t)
  PROVE  task'[t] = IdleTask /\ task'[t].pc = "idle"
BY DEF HandlerOK, Done, IdleTask

\* The fee that was fetched changes the state alone.
LEMMA FetchFeeCarries ==
  ASSUME HandlerOK, NEW t \in Tasks, FetchFee(t)
  PROVE  /\ task'[t].ev = task[t].ev /\ task'[t].at = task[t].at
         /\ task'[t].pc \in {"fetchArrays", "insVaults"}
         /\ task'[t].st.arrays = task[t].st.arrays
<1>1. PICK missed \in SUBSET {"config"} :
        task' = [task EXCEPT
          ![t].pc = IF Concentrated(PoolOf(t)) THEN "fetchArrays" ELSE "insVaults",
          ![t].st.fee = IF missed = {} THEN "config" ELSE @]
  BY DEF FetchFee
<1> DEFINE st == [task[t].st EXCEPT !.fee = IF missed = {} THEN "config" ELSE @]
           r  == [task[t] EXCEPT
                    !.pc = IF Concentrated(PoolOf(t)) THEN "fetchArrays" ELSE "insVaults",
                    !.st = st]
<1>2. task'[t] = r
  BY <1>1, EventType DEF HandlerOK
<1>3. st.arrays = task[t].st.arrays
  BY EventType DEF Task, PoolState
<1>4. r.pc \in {"fetchArrays", "insVaults"} /\ r.ev = task[t].ev /\ r.at = task[t].at
      /\ r.st = st
  BY EventType DEF Task
<1> QED
  BY <1>2, <1>3, <1>4

\* The arrays that were fetched are those of the answer, and registered.
LEMMA FetchArraysCarries ==
  ASSUME TypeInv, NEW t \in Tasks, FetchArrays(t)
  PROVE  /\ task'[t].ev = task[t].ev /\ task'[t].at = task[t].at
         /\ task'[t].pc = "insVaults"
         /\ {PoolOf(t)} \X Loaded(task'[t].st.arrays) \subseteq arrayIndex'
<1>1. PICK missed \in SUBSET Wanted(PoolOf(t), task[t].st.cur), v \in 1..now :
        LET is == Wanted(PoolOf(t), task[t].st.cur) \ missed IN
        /\ RegisterArrays(PoolOf(t), is)
        /\ task' = [task EXCEPT
             ![t].pc = "insVaults",
             ![t].st.arrays = Answer(is, v),
             ![t].st.extra = IF Kind[PoolOf(t)] = "dlmm" THEN is ELSE @]
  BY DEF FetchArrays
<1> DEFINE is == Wanted(PoolOf(t), task[t].st.cur) \ missed
           st == [task[t].st EXCEPT
                    !.arrays = Answer(is, v),
                    !.extra = IF Kind[PoolOf(t)] = "dlmm" THEN is ELSE @]
           r  == [task[t] EXCEPT !.pc = "insVaults", !.st = st]
<1>2. task'[t] = r
  BY <1>1 DEF TypeInv, HandlerOK
<1>3. st.arrays = Answer(is, v)
  BY EventType DEF TypeInv, Task, PoolState
<1>4. r.pc = "insVaults" /\ r.ev = task[t].ev /\ r.at = task[t].at /\ r.st = st
  BY EventType DEF TypeInv, Task
<1>5. Loaded(Answer(is, v)) \subseteq is
  BY DEF Loaded, Answer
<1>6. {PoolOf(t)} \X is \subseteq arrayIndex'
  BY <1>1 DEF RegisterArrays
<1> QED
  BY <1>2, <1>3, <1>4, <1>5, <1>6

\* Every handler step carries its event, its slot and its state on, or ends.
LEMMA CarriesOn ==
  ASSUME TypeInv, NEW t \in Tasks, Handler(t)
  PROVE  Carries(t)
<1> USE DEF TypeInv
<1>1. CASE FetchFee(t)
  BY <1>1, FetchFeeCarries DEF Carries
<1>2. CASE FetchArrays(t)
  BY <1>2, FetchArraysCarries DEF Carries
<1>3. CASE ReadSpacing(t)
  <2>1. /\ task'[t].ev = task[t].ev /\ task'[t].at = task[t].at
        /\ task'[t].st = task[t].st /\ task'[t].pc = "array"
    BY <1>3 DEF ReadSpacing, HandlerOK, Task
  <2> QED
    BY <2>1 DEF Carries
<1>4. CASE \/ DiscContains(t) \/ DiscPending(t) \/ DiscInsert(t) \/ Contains(t) \/ Math(t)
           \/ Needs(t) \/ Requeue(t) \/ Wake(t) \/ Claim(t) \/ BootContains(t)
  BY <1>4, GotoCarries, DoneCarries
     DEF Carries, DiscContains, DiscPending, DiscInsert, Contains, Math, Needs, Requeue,
         Wake, Claim, BootContains
<1>5. CASE \/ Subscribe(t) \/ InsVaults(t) \/ InsEmit(t) \/ InsMints(t) \/ InsPool(t)
           \/ QueueVaults(t)
  BY <1>5, GotoCarries, DoneCarries
     DEF Carries, Subscribe, InsVaults, InsEmit, InsMints, InsPool, QueueVaults
<1>6. CASE \/ Token(t) \/ MarkDirty(t) \/ DirtyWake(t) \/ Array(t) \/ BlockLoad(t)
           \/ BlockHash(t) \/ BlockSlot(t)
  BY <1>6, GotoCarries, DoneCarries
     DEF Carries, Token, MarkDirty, DirtyWake, Array, BlockLoad, BlockHash, BlockSlot
<1> QED
  BY <1>1, <1>2, <1>3, <1>4, <1>5, <1>6 DEF Handler

\* Who updates a pool without asking for it has found it in the cache before, and pools
\* stay: handlers past the lookup, reload requests, dirty pools and their addresses.
Found(t) ==
  /\ task[t].pc \in {"math", "dirty"} => PoolOf(t) \in cached
  /\ task[t].pc \in {"contains", "math"} => task[t].st.fee = DecodedFee(PoolOf(t))
  /\ task[t].pc # "idle" => task[t].at # 0
FoundInv ==
  /\ \A t \in Tasks : Found(t)
  /\ \A r \in tickQ \cup reloader.reqs \cup reloader.cur : r[1] \in cached
  /\ dirty \subseteq cached
  /\ \A x \in refresher.pdas \cup refresher.got : x[1] \in cached

\* The arrays a tick-array pool holds, and those a handler or the reloader brings, are
\* registered.
Indexed(p, st) == Concentrated(p) => {p} \X Loaded(st.arrays) \subseteq arrayIndex
ReloadIndexed ==
  /\ \A r, q \in reloader.cur : r = q
  /\ \A r \in reloader.cur : {r[1]} \X Loaded(reloader.got) \subseteq arrayIndex
IndexInv ==
  /\ \A p \in Pools : Indexed(p, pool[p])
  /\ \A t \in Tasks : {PoolOf(t)} \X Loaded(task[t].st.arrays) \subseteq arrayIndex
  /\ ReloadIndexed

\* Nothing is carried initially.
LEMMA FoundInit == Init => FoundInv
BY DEF Init, CacheInit, IdleTask, IdleReloader, IdleRefresher, FoundInv, Found

\* What is found stays found while the cache grows and the handler stays.
LEMMA FoundStays ==
  ASSUME NEW u \in Tasks, Found(u), task'[u] = task[u], cached \subseteq cached'
  PROVE  Found(u)'
BY DEF Found, PoolOf, DecodedFee

\* What a handler finds.
LEMMA FoundByHandler ==
  ASSUME TypeInv, FoundInv, NEW t \in Tasks, Handler(t)
  PROVE  FoundInv'
<1>1. Moves(t) /\ Grows(t) /\ Carries(t)
  BY Flow, CarriesOn
<1>2. cached \subseteq cached'
  BY <1>1 DEF Grows, InsPool, InsertPool
<1>3. Found(t)'
  <2>1. task'[t].pc = "math"
          => PoolOf(t)' \in cached' /\ task'[t].st.fee = DecodedFee(PoolOf(t)')
    <3> SUFFICES ASSUME Contains(t), task'[t].pc = "math"
                 PROVE  PoolOf(t)' \in cached' /\ task'[t].st.fee = DecodedFee(PoolOf(t)')
      BY <1>1 DEF Carries
    <3>1. /\ task'[t].ev = task[t].ev /\ task'[t].st = task[t].st
          /\ PoolOf(t) \in cached
      BY GotoCarries DEF Contains, TypeInv
    <3>2. task[t].st.fee = DecodedFee(PoolOf(t))
      BY DEF Contains, At, FoundInv, Found
    <3> QED
      BY <1>2, <3>1, <3>2 DEF PoolOf
  <2>2. task'[t].pc = "dirty" => PoolOf(t)' \in cached'
    <3> SUFFICES ASSUME Token(t), task'[t].pc = "dirty"
                 PROVE  PoolOf(t)' \in cached'
      BY <1>1 DEF Carries
    <3>1. task'[t].ev = task[t].ev /\ PoolOf(t) \in cached
      BY GotoCarries, DoneCarries DEF Token, TypeInv
    <3> QED
      BY <1>2, <3>1 DEF PoolOf
  <2>3. task'[t].pc # "idle" => task'[t].at # 0
    <3>1. CASE task'[t] = IdleTask
      BY <3>1, SMTT(40) DEF IdleTask
    <3>2. CASE task'[t].at = task[t].at
      BY <3>2 DEF Handler, At, DiscContains, DiscPending, DiscInsert, Contains, Math, Needs,
             Requeue, Wake, Claim, Subscribe, FetchFee, FetchArrays, InsVaults, InsEmit,
             InsMints, InsPool, QueueVaults, BootContains, Token, MarkDirty, DirtyWake,
             ReadSpacing, Array, BlockLoad, BlockHash, BlockSlot, FoundInv, Found
    <3> QED
      BY <1>1, <3>1, <3>2 DEF Carries
  <2> QED
    BY <1>1, <2>1, <2>2, <2>3 DEF Carries, Found, PoolOf, DecodedFee
<1>4. \A u \in Tasks : Found(u)'
  BY <1>1, <1>2, <1>3, FoundStays DEF Moves, FoundInv
<1>5. \A r \in tickQ' \cup reloader'.reqs \cup reloader'.cur : r[1] \in cached'
  <2>1. CASE Math(t)
    <3>1. PoolOf(t) \in cached
      BY <2>1 DEF Math, At, FoundInv, Found
    <3>2. tickQ' \subseteq tickQ \cup {<<PoolOf(t), task[t].st.cur>>}
      BY <2>1 DEF Math, UpdateMath, Request
    <3> QED
      BY <1>2, <2>1, <3>1, <3>2 DEF Math, FoundInv
  <2>2. CASE ~Math(t)
    BY <1>2, <2>2, OthersKeepQueues DEF FoundInv
  <2> QED
    BY <2>1, <2>2
<1>6. dirty' \subseteq cached'
  <2>1. CASE MarkDirty(t)
    BY <1>2, <2>1 DEF MarkDirty, At, FoundInv, Found
  <2>2. CASE ~MarkDirty(t)
    BY <1>2, <2>2, OthersKeepQueues DEF DirtyWake, FoundInv
  <2> QED
    BY <2>1, <2>2
<1>7. \A x \in refresher'.pdas \cup refresher'.got : x[1] \in cached'
  BY <1>2, OthersKeepQueues DEF FoundInv
<1> QED
  BY <1>4, <1>5, <1>6, <1>7 DEF FoundInv

\* What the loops take over from the queues was found by a handler.
LEMMA FoundByLoops ==
  ASSUME TypeInv, FoundInv, Fetcher \/ Reloader \/ Refresher
  PROVE  FoundInv'
<1>1. UNCHANGED <<task, cached>>
  BY OthersKeepRecords
<1>2. \A u \in Tasks : Found(u)'
  BY <1>1, FoundStays DEF FoundInv
<1>3. CASE Fetcher
  <2>1. UNCHANGED <<tickQ, dirty, refresher, reloader>>
    BY <1>3 DEF Fetcher, FetcherWake, FetcherDrain, FetchVaults, FetchVaultsFails, ApplyVault,
                UpdateVaultBalance, cacheVars, queueVars, dlmmVars
  <2> QED
    BY <1>1, <1>2, <2>1 DEF FoundInv
<1>4. CASE Reloader
  <2>1. UNCHANGED <<dirty, refresher>>
    BY <1>4 DEF Reloader, ReloaderWake, ReloaderDrain, ReloadTake, ReloadArray, Reload,
                dlmmVars
  <2>2. tickQ' \cup reloader'.reqs \cup reloader'.cur
          \subseteq tickQ \cup reloader.reqs \cup reloader.cur
    <3>1. CASE ReloaderWake
      BY <3>1 DEF ReloaderWake, TypeInv, ReloaderOK
    <3>2. CASE ReloaderDrain
      BY <3>2 DEF ReloaderDrain, TypeInv, ReloaderOK
    <3>3. CASE ReloadTake
      BY <3>3 DEF ReloadTake, cacheVars, queueVars
    <3>4. CASE ReloadArray
      BY <3>4 DEF ReloadArray, queueVars, TypeInv, ReloaderOK
    <3>5. CASE Reload
      BY <3>5 DEF Reload, IdleReloader, queueVars
    <3> QED
      BY <1>4, <3>1, <3>2, <3>3, <3>4, <3>5 DEF Reloader
  <2> QED
    BY <1>1, <1>2, <2>1, <2>2 DEF FoundInv
<1>5. CASE Refresher
  <2>1. UNCHANGED <<tickQ, reloader>>
    BY <1>5 DEF Refresher, RefresherWake, RefresherSlept, RefresherDrain, FetchBins,
                ApplyBins, ChunkDone, cacheVars, queueVars
  <2>2. /\ dirty' \subseteq cached
        /\ \A x \in refresher'.pdas \cup refresher'.got : x[1] \in cached
    <3>1. CASE RefresherWake \/ RefresherSlept
      BY <3>1 DEF RefresherWake, RefresherSlept, FoundInv, TypeInv, DlmmOK
    <3>2. CASE RefresherDrain
      BY <3>2 DEF RefresherDrain, IdleRefresher, FoundInv
    <3>3. CASE FetchBins
      <4>1. PICK c \in ArrayChunks :
              \E missed : /\ refresher'.pdas = refresher.pdas \ c
                          /\ refresher'.got = (c \cap OnChain) \ missed
        BY <3>3 DEF FetchBins
      <4>2. c \subseteq refresher.pdas /\ dirty' = dirty
        BY <3>3 DEF ArrayChunks, FetchBins
      <4> QED
        BY <4>1, <4>2 DEF FoundInv
    <3>4. CASE ApplyBins
      BY <3>4 DEF ApplyBins, FoundInv, TypeInv, DlmmOK
    <3>5. CASE ChunkDone
      BY <3>5 DEF ChunkDone, IdleRefresher, FoundInv, TypeInv, DlmmOK
    <3> QED
      BY <1>5, <3>1, <3>2, <3>3, <3>4, <3>5 DEF Refresher
  <2> QED
    BY <1>1, <1>2, <2>1, <2>2 DEF FoundInv
<1> QED
  BY <1>3, <1>4, <1>5

\* Every step keeps what was found.
LEMMA FoundStep == TypeInv /\ FoundInv /\ [Next]_vars => FoundInv'
<1> SUFFICES ASSUME TypeInv, FoundInv, [Next]_vars
             PROVE  FoundInv'
  OBVIOUS
<1>1. ASSUME NEW t \in Tasks, Handler(t)
      PROVE  FoundInv'
  BY <1>1, FoundByHandler
<1>2. ASSUME NEW t \in Tasks, NEW e \in Feed, Deliver(t, e)
      PROVE  FoundInv'
  <2>1. UNCHANGED <<cached, tickQ, dirty, refresher, reloader>>
    BY <1>2 DEF Deliver, cacheVars, queueVars, dlmmVars
  <2>2. e.type \in EventTypes
    BY StreamerAssumption DEF Event
  <2>3. /\ \A u \in Tasks \ {t} : task'[u] = task[u]
        /\ task'[t].pc = Entry[e.type] /\ task'[t].ev = e /\ task'[t].at = now
        /\ task'[t].st = Decoded(e, now)
    BY <1>2 DEF Deliver, TypeInv, HandlerOK
  <2>4. task'[t].pc \notin {"math", "dirty"}
    BY <2>2, <2>3 DEF Entry, EventTypes
  <2>5. task'[t].st.fee = DecodedFee(PoolOf(t)')
    BY <2>3 DEF Decoded, BlankPool, PoolOf
  <2>6. Found(t)'
    BY <2>3, <2>4, <2>5 DEF Found, TypeInv, EnvOK, PoolOf, DecodedFee
  <2>7. \A u \in Tasks : Found(u)'
    BY <2>1, <2>3, <2>6, FoundStays DEF FoundInv
  <2> QED
    BY <2>1, <2>7 DEF FoundInv
<1>3. CASE Fetcher \/ Reloader \/ Refresher
  BY <1>3, FoundByLoops
<1>4. CASE Advance \/ Engine \/ UNCHANGED vars
  <2>1. UNCHANGED <<task, cached, tickQ, dirty, refresher, reloader>>
    BY <1>4 DEF Advance, Engine, Receive, vars, cacheVars, queueVars, dlmmVars
  <2> QED
    BY <2>1, FoundStays DEF FoundInv
<1> QED
  BY <1>1, <1>2, <1>3, <1>4 DEF Next

-----------------------------------------------------------------------------
(* What a step writes to the cache and sends to the engine.                        *)

\* What is not forgotten, by field: a reserve does not go back to zero, nor a fetched fee
\* to the decoder's.
Keeps(old, new) ==
  /\ old.ra # 0 => new.ra # 0
  /\ old.rb # 0 => new.rb # 0
  /\ old.fee = "config" => new.fee = "config"

\* A pool that was found is written and sent: nothing is forgotten, and the arrays it
\* holds from now on are registered.
Updates ==
  \E p \in cached, st \in PoolState :
    /\ Store(p, st)
    /\ Keeps(pool[p], st)
    /\ Concentrated(p) => {p} \X Loaded(st.arrays) \subseteq arrayIndex'
WritesOnly == UNCHANGED <<cached, overwritten>> /\ (UNCHANGED <<pool, sent, lost>> \/ Updates)

\* Computing the limits changes the limits only.
LEMMA LimitsKeep ==
  ASSUME NEW p \in Pools, NEW st \in PoolState
  PROVE  /\ WithLimits(p, st).ra = st.ra /\ WithLimits(p, st).rb = st.rb
         /\ WithLimits(p, st).fee = st.fee /\ WithLimits(p, st).arrays = st.arrays
BY DEF WithLimits, PoolState

\* A decoded account does not take back what it does not tell.
LEMMA MergeKeeps ==
  ASSUME NEW p \in Pools, NEW old \in PoolState, NEW new \in PoolState,
         new.fee = DecodedFee(p)
  PROVE  /\ Keeps(old, MergeMath(p, old, new))
         /\ MergeMath(p, old, new).arrays = old.arrays
<1>1. CASE Kind[p] = "cp"
  <2>1. MergeMath(p, old, new) =
          [old EXCEPT !.ra = NonZero(new.ra, @), !.rb = NonZero(new.rb, @),
                      !.slot = new.slot]
    BY <1>1 DEF MergeMath, Concentrated
  <2>2. /\ old.ra # 0 => NonZero(new.ra, old.ra) # 0
        /\ old.rb # 0 => NonZero(new.rb, old.rb) # 0
    BY DEF NonZero
  <2> QED
    BY <2>1, <2>2 DEF Keeps, PoolState
<1>2. CASE Kind[p] # "cp" /\ Concentrated(p)
  <2> DEFINE fee == IF new.fee # "zero" THEN new.fee ELSE old.fee
             st  == [old EXCEPT !.px = new.px, !.cur = new.cur, !.slot = new.slot,
                                !.fee = fee]
  <2>1. MergeMath(p, old, new) = WithLimits(p, st)
    BY <1>2 DEF MergeMath
  <2>2. fee \in Fees /\ (old.fee = "config" => fee = "config")
    BY <1>2 DEF DecodedFee, Fees, PoolState
  <2>3. st \in PoolState /\ Keeps(old, st) /\ st.arrays = old.arrays
    BY <2>2 DEF Keeps, PoolState
  <2> HIDE DEF st
  <2> QED
    BY <2>1, <2>3, LimitsKeep DEF Keeps
<1>3. CASE Kind[p] # "cp" /\ ~Concentrated(p)
  <2>1. MergeMath(p, old, new) =
          [old EXCEPT !.px = new.px, !.cur = new.cur, !.slot = new.slot, !.fee = new.fee]
    BY <1>3 DEF MergeMath
  <2>2. new.fee = "config"
    BY <1>3 DEF DecodedFee, Concentrated
  <2> QED
    BY <2>1, <2>2 DEF Keeps, PoolState
<1> QED
  BY <1>1, <1>2, <1>3

\* Nor does a balance, which is never zero: it is a slot.
LEMMA BalanceKeeps ==
  ASSUME CacheOK, NEW p \in Pools, NEW side \in Sides, NEW balance \in Vers \ {0},
         NEW slot \in Vers
  PROVE  LET st == SetBalance(p, side, balance, slot) IN
         st \in PoolState /\ Keeps(pool[p], st) /\ st.arrays = pool[p].arrays
BY ZenonT(40) DEF CacheOK, SetBalance, PoolState, Keeps

\* A balance update writes a pool that is in the cache, or nothing.
LEMMA BalanceWrites ==
  ASSUME CacheOK, IndexInv, NEW p \in Pools, NEW side \in Sides,
         NEW balance \in Vers \ {0}, NEW slot \in Vers,
         UpdateVaultBalance(p, side, balance, slot), UNCHANGED overwritten
  PROVE  WritesOnly
<1> DEFINE st == SetBalance(p, side, balance, slot)
<1>1. UNCHANGED <<cached, arrayIndex>>
  BY DEF UpdateVaultBalance, indexVars
<1>2. CASE <<p, side>> \in vaultIndex /\ p \in cached
  <2>1. Store(p, st)
    BY <1>2 DEF UpdateVaultBalance
  <2>2. st \in PoolState /\ Keeps(pool[p], st) /\ st.arrays = pool[p].arrays
    BY BalanceKeeps
  <2>3. Concentrated(p) => {p} \X Loaded(st.arrays) \subseteq arrayIndex'
    BY <1>1, <2>2 DEF IndexInv, Indexed
  <2> HIDE DEF st
  <2> QED
    BY <1>1, <1>2, <2>1, <2>2, <2>3 DEF WritesOnly, Updates
<1>3. CASE ~(<<p, side>> \in vaultIndex /\ p \in cached)
  BY <1>1, <1>3 DEF UpdateVaultBalance, WritesOnly, chanVars
<1> QED
  BY <1>2, <1>3

\* The steps of a handler that write a pool: two of its registration, and those that
\* write a pool that was found.
LEMMA HandlerWrites ==
  ASSUME TypeInv, FoundInv, IndexInv, NEW t \in Tasks, Handler(t)
  PROVE  InsEmit(t) \/ InsPool(t) \/ WritesOnly
<1> USE EventType DEF TypeInv
<1> DEFINE p == PoolOf(t)
<1>1. CASE Math(t)
  <2> DEFINE st == MergeMath(p, pool[p], task[t].st)
  <2>1. p \in cached /\ task[t].st.fee = DecodedFee(p)
    BY <1>1 DEF Math, At, FoundInv, Found
  <2>2. /\ Store(p, st) /\ UNCHANGED <<cached, overwritten, arrayIndex>>
    BY <1>1 DEF Math, UpdateMath, indexVars, histVars
  <2>3. pool[p] \in PoolState /\ task[t].st \in PoolState
    BY DEF CacheOK, Task
  <2>4. st \in PoolState /\ Keeps(pool[p], st) /\ st.arrays = pool[p].arrays
    BY <2>1, <2>3, MergeType, MergeKeeps
  <2>5. Concentrated(p) => {p} \X Loaded(st.arrays) \subseteq arrayIndex'
    BY <2>2, <2>4 DEF IndexInv, Indexed
  <2> HIDE DEF st
  <2> QED
    BY <2>1, <2>2, <2>4, <2>5 DEF WritesOnly, Updates
<1>2. CASE Token(t)
  <2>1. task[t].at \in Vers \ {0} /\ task[t].ev.side \in Sides
    BY <1>2 DEF Token, At, FoundInv, Found, Task, Event
  <2>2. UpdateVaultBalance(p, task[t].ev.side, task[t].at, task[t].at)
        /\ UNCHANGED overwritten
    BY <1>2 DEF Token, histVars
  <2> QED
    BY <2>1, <2>2, BalanceWrites
<1>3. CASE Array(t)
  <2>1. PICK ver \in {Garbled} \cup Vers :
          UpdateArray(p, task[t].ev.idx, ver, task[t].at)
    BY <1>3 DEF Array, Task
  <2> DEFINE i == task[t].ev.idx
             new == [pool[p] EXCEPT !.arrays[i] = ver, !.slot = task[t].at]
             st  == WithLimits(p, new)
  <2>2. UNCHANGED <<cached, arrayIndex, overwritten>>
    BY <1>3, <2>1 DEF Array, UpdateArray, indexVars, histVars
  <2>3. CASE <<p, i>> \in arrayIndex /\ p \in cached
    <3>1. [pool[p].arrays EXCEPT ![i] = ver] \in Arrays
      BY DEF CacheOK, PoolState, Arrays, Event
    <3>2. /\ new \in PoolState /\ Keeps(pool[p], new)
          /\ new.arrays = [pool[p].arrays EXCEPT ![i] = ver]
      BY <3>1, ZenonT(40) DEF CacheOK, PoolState, Task, Keeps
    <3>3. st \in PoolState /\ Keeps(pool[p], st) /\ st.arrays = new.arrays
      <4>. HIDE DEF new
      <4>1. st \in PoolState
        BY <3>2, LimitsType
      <4>2. /\ st.ra = new.ra /\ st.rb = new.rb /\ st.fee = new.fee
            /\ st.arrays = new.arrays
        BY <3>2, LimitsKeep
      <4>. HIDE DEF st
      <4>3. Keeps(pool[p], st)
        BY <3>2, <4>2 DEF Keeps
      <4>. QED
        BY <4>1, <4>2, <4>3
    <3>4. Loaded(st.arrays) \subseteq Loaded(pool[p].arrays) \cup {i}
      BY <3>2, <3>3 DEF Loaded, CacheOK, PoolState, Arrays
    <3>5. Concentrated(p) => {p} \X Loaded(st.arrays) \subseteq arrayIndex'
      BY <2>2, <2>3, <3>4 DEF IndexInv, Indexed
    <3>6. Store(p, st)
      BY <2>1, <2>3 DEF UpdateArray
    <3> HIDE DEF st
    <3> QED
      BY <2>2, <2>3, <3>3, <3>5, <3>6 DEF WritesOnly, Updates
  <2>4. CASE ~(<<p, i>> \in arrayIndex /\ p \in cached)
    BY <2>1, <2>2, <2>4 DEF UpdateArray, WritesOnly, chanVars
  <2> QED
    BY <2>3, <2>4
<1>4. CASE ~(Math(t) \/ Token(t) \/ Array(t) \/ InsEmit(t) \/ InsPool(t))
  <2>1. UNCHANGED <<cached, overwritten, pool, sent, lost>>
    BY <1>4 DEF Handler, DiscContains, DiscPending, DiscInsert, Contains, Needs, Requeue,
                Wake, Claim, Subscribe, FetchFee, FetchArrays, InsVaults, InsertVaults,
                InsMints, InsertMints, QueueVaults, BootContains, MarkDirty, DirtyWake,
                ReadSpacing, BlockLoad, BlockHash, BlockSlot, cacheVars, chanVars, histVars
  <2> QED
    BY <2>1, SMTT(40) DEF WritesOnly
<1> QED
  BY <1>1, <1>2, <1>3, <1>4

\* So do the loops: the fetcher's balances, the reloader's and the refresher's arrays.
LEMMA LoopsWrite ==
  ASSUME TypeInv, FoundInv, IndexInv, Fetcher \/ Reloader \/ Refresher
  PROVE  WritesOnly
<1> USE DEF TypeInv
<1>1. CASE ApplyVault
  <2>1. PICK w \in ToApply :
          UpdateVaultBalance(w[1], w[2], fetcher.got[w], fetcher.slot)
    BY <1>1 DEF ApplyVault
  <2>2. /\ w[1] \in Pools /\ w[2] \in Sides
        /\ fetcher.got[w] \in Vers \ {0} /\ fetcher.slot \in Vers
    BY DEF ToApply, Vaults, FetchOK
  <2> QED
    BY <1>1, <2>1, <2>2, BalanceWrites DEF ApplyVault, histVars
<1>2. CASE Reload
  <2>1. PICK r \in reloader.cur : ReplaceTickArrays(r[1], reloader.got)
    BY <1>2 DEF Reload
  <2> DEFINE p      == r[1]
             arrays == reloader.got
             new    == [pool[p] EXCEPT !.arrays = arrays]
             st     == WithLimits(p, new)
  <2>2. p \in Pools /\ p \in cached /\ arrays \in Arrays
    BY DEF FoundInv, ReloaderOK, Requests
  <2>3. UNCHANGED <<cached, arrayIndex, overwritten>>
    BY <1>2 DEF Reload, indexVars, histVars
  <2>4. CASE arrays = NoArrays
    BY <2>1, <2>3, <2>4 DEF ReplaceTickArrays, WritesOnly, chanVars
  <2>5. CASE arrays # NoArrays
    <3>1. new \in PoolState /\ Keeps(pool[p], new) /\ new.arrays = arrays
      BY <2>2 DEF CacheOK, PoolState, Keeps
    <3>2. st \in PoolState /\ Keeps(pool[p], st) /\ st.arrays = arrays
      BY <2>2, <3>1, LimitsType, LimitsKeep DEF Keeps
    <3>3. {p} \X Loaded(st.arrays) \subseteq arrayIndex'
      BY <2>3, <3>2 DEF IndexInv, ReloadIndexed
    <3>4. Store(p, st)
      BY <2>1, <2>5 DEF ReplaceTickArrays
    <3> HIDE DEF st
    <3> QED
      BY <2>2, <2>3, <3>2, <3>3, <3>4 DEF WritesOnly, Updates
  <2> QED
    BY <2>4, <2>5
<1>3. CASE ApplyBins
  <2>1. PICK x \in refresher.got :
          ReplaceBinArraysSimple(x[1],
            Answer({y[2] : y \in PartOf(refresher.got, x[1])}, refresher.ver),
            refresher.slot)
    BY <1>3 DEF ApplyBins
  <2> DEFINE p      == x[1]
             arrays == Answer({y[2] : y \in PartOf(refresher.got, x[1])}, refresher.ver)
             st     == [pool[p] EXCEPT !.arrays = arrays, !.slot = refresher.slot]
  <2>2. p \in Pools /\ p \in cached /\ ~Concentrated(p)
    BY DEF FoundInv, DlmmOK, DlmmPools, Concentrated
  <2>3. UNCHANGED <<cached, overwritten>>
    BY <1>3 DEF ApplyBins, histVars
  <2>4. arrays \in Arrays /\ refresher.slot \in Vers
    BY AnswerType DEF DlmmOK
  <2>5. st \in PoolState /\ Keeps(pool[p], st)
    <3> HIDE DEF arrays
    <3> QED
      BY <2>2, <2>4 DEF CacheOK, PoolState, Keeps
  <2>6. Store(p, st)
    BY <2>1 DEF ReplaceBinArraysSimple
  <2> HIDE DEF st
  <2> QED
    BY <2>2, <2>3, <2>5, <2>6 DEF WritesOnly, Updates
<1>4. CASE ~(ApplyVault \/ Reload \/ ApplyBins)
  <2>1. UNCHANGED <<cached, overwritten, pool, sent, lost>>
    BY <1>4 DEF Fetcher, FetcherWake, FetcherDrain, FetchVaults, FetchVaultsFails, Reloader,
                ReloaderWake, ReloaderDrain, ReloadTake, ReloadArray, Refresher,
                RefresherWake, RefresherSlept, RefresherDrain, FetchBins, ChunkDone, cacheVars, chanVars, histVars
  <2> QED
    BY <2>1 DEF WritesOnly
<1> QED
  BY <1>1, <1>2, <1>3, <1>4

\* So does every step but the two of a registration.
LEMMA StepWrites ==
  ASSUME TypeInv, FoundInv, IndexInv, [Next]_vars
  PROVE  (\E t \in Tasks : InsEmit(t) \/ InsPool(t)) \/ WritesOnly
<1>1. CASE Advance \/ Engine \/ UNCHANGED vars
  BY <1>1 DEF Advance, Engine, Receive, vars, cacheVars, chanVars, histVars, WritesOnly
<1>2. ASSUME NEW t \in Tasks, NEW e \in Feed, Deliver(t, e)
      PROVE  WritesOnly
  BY <1>2 DEF Deliver, cacheVars, chanVars, histVars, WritesOnly
<1>3. CASE Fetcher \/ Reloader \/ Refresher
  BY <1>3, LoopsWrite
<1> QED
  BY <1>1, <1>2, <1>3, HandlerWrites DEF Next

-----------------------------------------------------------------------------
(* Array updates reach the arrays a pool holds.                                   *)

\* Arrays that were registered stay registered.
LEMMA IndexGrows ==
  ASSUME [Next]_vars
  PROVE  arrayIndex \subseteq arrayIndex'
<1>1. ASSUME NEW t \in Tasks, Handler(t)
      PROVE  arrayIndex \subseteq arrayIndex'
  <2>1. CASE FetchArrays(t)
    BY <2>1 DEF FetchArrays, RegisterArrays
  <2>2. CASE ~FetchArrays(t)
    BY <1>1, <2>2
       DEF Handler, DiscContains, DiscPending, DiscInsert, Contains, Math, Needs, Requeue,
           Wake, Claim, Subscribe, FetchFee, InsVaults, InsEmit, InsMints, InsPool,
           QueueVaults, BootContains, Token, MarkDirty, DirtyWake, ReadSpacing, Array,
           BlockLoad, BlockHash, BlockSlot, InsertVaults, InsertEmit, InsertMints, InsertPool,
           UpdateMath, UpdateVaultBalance, UpdateArray, cacheVars, indexVars
  <2> QED
    BY <2>1, <2>2
<1>2. CASE ReloadArray
  BY <1>2 DEF ReloadArray, RegisterArrays
<1>3. CASE (Fetcher \/ Reloader \/ Refresher) /\ ~ReloadArray
  BY <1>3 DEF Fetcher, FetcherWake, FetcherDrain, FetchVaults, FetchVaultsFails, ApplyVault,
              Reloader, ReloaderWake, ReloaderDrain, ReloadTake, Reload, Refresher,
              RefresherWake, RefresherSlept, RefresherDrain, FetchBins, ApplyBins,
              ChunkDone, UpdateVaultBalance, cacheVars, indexVars
<1>4. CASE Advance \/ Engine \/ UNCHANGED vars
  BY <1>4 DEF Advance, Engine, Receive, vars, cacheVars, indexVars
<1>5. ASSUME NEW t \in Tasks, NEW e \in Feed, Deliver(t, e)
      PROVE  arrayIndex \subseteq arrayIndex'
  BY <1>5 DEF Deliver, cacheVars, indexVars
<1> QED
  BY <1>1, <1>2, <1>3, <1>4, <1>5 DEF Next

\* Nobody has arrays initially.
LEMMA IndexInit == Init => IndexInv
BY DEF Init, CacheInit, BlankPool, IdleTask, IdleReloader, NoArrays, Loaded, IndexInv,
       Indexed, ReloadIndexed

\* The arrays of a handler are registered.
LEMMA IndexTasks ==
  ASSUME TypeInv, IndexInv, [Next]_vars, NEW u \in Tasks
  PROVE  {PoolOf(u)'} \X Loaded(task'[u].st.arrays) \subseteq arrayIndex'
<1> USE DEF TypeInv
<1>1. arrayIndex \subseteq arrayIndex'
  BY IndexGrows
<1>2. {PoolOf(u)} \X Loaded(task[u].st.arrays) \subseteq arrayIndex
  BY DEF IndexInv
<1>3. Loaded(NoArrays) = {}
  BY DEF Loaded, NoArrays
<1>4. CASE task'[u] = task[u]
  BY <1>1, <1>2, <1>4 DEF PoolOf
<1>5. CASE Handler(u)
  <2>1. CASE task'[u] = IdleTask
    <3>1. task'[u].st.arrays = NoArrays
      BY <2>1 DEF IdleTask, BlankPool
    <3> QED
      BY <1>3, <3>1
  <2>2. CASE FetchArrays(u)
    BY <2>2, FetchArraysCarries DEF PoolOf
  <2>3. CASE FetchFee(u)
    BY <1>1, <1>2, <2>3, FetchFeeCarries DEF PoolOf
  <2>4. CASE task'[u].ev = task[u].ev /\ task'[u].st = task[u].st
    BY <1>1, <1>2, <2>4 DEF PoolOf
  <2> QED
    BY <1>5, <2>1, <2>2, <2>3, <2>4, CarriesOn DEF Carries
<1>6. ASSUME NEW e \in Feed, Deliver(u, e)
      PROVE  {PoolOf(u)'} \X Loaded(task'[u].st.arrays) \subseteq arrayIndex'
  <2>1. task'[u].st.arrays = NoArrays
    BY <1>6 DEF Deliver, HandlerOK, Decoded, BlankPool
  <2> QED
    BY <1>3, <2>1
<1>7. ASSUME NEW t \in Tasks \ {u}, Handler(t)
      PROVE  task'[u] = task[u]
  BY <1>7, Flow DEF Moves
<1>8. ASSUME NEW t \in Tasks \ {u}, NEW e \in Feed, Deliver(t, e)
      PROVE  task'[u] = task[u]
  BY <1>8 DEF Deliver, HandlerOK
<1>9. CASE Advance \/ Engine \/ Fetcher \/ Reloader \/ Refresher \/ UNCHANGED vars
  BY <1>9, <1>4, OthersKeepRecords
<1> QED
  BY <1>4, <1>5, <1>6, <1>7, <1>8, <1>9 DEF Next

\* Only the reloader changes what it holds.
LEMMA OthersKeepReloader ==
  ASSUME [Next]_vars, ~Reloader
  PROVE  UNCHANGED reloader
<1>1. ASSUME NEW t \in Tasks, Handler(t)
      PROVE  UNCHANGED reloader
  BY <1>1 DEF Handler, DiscContains, DiscPending, DiscInsert, Contains, Math, Needs,
         Requeue, Wake, Claim, Subscribe, FetchFee, FetchArrays, InsVaults, InsEmit,
         InsMints, InsPool, QueueVaults, BootContains, Token, MarkDirty, DirtyWake,
         ReadSpacing, Array, BlockLoad, BlockHash, BlockSlot
<1>2. CASE Fetcher \/ Refresher
  BY <1>2 DEF Fetcher, FetcherWake, FetcherDrain, FetchVaults, FetchVaultsFails, ApplyVault,
              Refresher, RefresherWake, RefresherSlept, RefresherDrain, FetchBins,
              ApplyBins, ChunkDone
<1>3. CASE Advance \/ Engine \/ UNCHANGED vars
  BY <1>3 DEF Advance, Engine, vars
<1>4. ASSUME NEW t \in Tasks, NEW e \in Feed, Deliver(t, e)
      PROVE  UNCHANGED reloader
  BY <1>4 DEF Deliver
<1> QED
  BY <1>1, <1>2, <1>3, <1>4 DEF Next

\* What the reloader has read of a pool is registered: it registers an array before it
\* asks for it.
LEMMA IndexReload ==
  ASSUME TypeInv, IndexInv, [Next]_vars
  PROVE  ReloadIndexed'
<1> USE DEF TypeInv
<1>1. arrayIndex \subseteq arrayIndex'
  BY IndexGrows
<1>2. /\ \A r, q \in reloader.cur : r = q
      /\ \A r \in reloader.cur : {r[1]} \X Loaded(reloader.got) \subseteq arrayIndex
  BY DEF IndexInv, ReloadIndexed
<1>3. Loaded(NoArrays) = {}
  BY DEF Loaded, NoArrays
<1> SUFFICES /\ \A r, q \in reloader'.cur : r = q
             /\ \A r \in reloader'.cur :
                  {r[1]} \X Loaded(reloader'.got) \subseteq arrayIndex'
  BY DEF ReloadIndexed, Loaded, Absent
<1>4. CASE ReloadTake \/ Reload
  <2>1. reloader'.got = NoArrays /\ \A r, q \in reloader'.cur : r = q
    <3>1. CASE ReloadTake
      <4>1. PICK r \in reloader.reqs : reloader'.got = NoArrays /\ reloader'.cur = {r}
        BY <3>1 DEF ReloadTake
      <4> QED
        BY <4>1
    <3>2. CASE Reload
      BY <3>2 DEF Reload, IdleReloader
    <3> QED
      BY <1>4, <3>1, <3>2
  <2> QED
    BY <1>3, <2>1
<1>5. CASE ReloadArray
  <2>1. PICK r \in reloader.cur, i \in reloader.left :
          \E missed, v : RegisterArrays(r[1], {i}) /\ ArrayRead(r, i, missed, v)
    BY <1>5 DEF ReloadArray, ArrayRead
  <2>2. /\ reloader'.cur = reloader.cur
        /\ Loaded(reloader'.got) \subseteq Loaded(reloader.got) \cup {i}
    BY <2>1 DEF ArrayRead, ReloaderOK, Arrays, Loaded
  <2>3. <<r[1], i>> \in arrayIndex'
    BY <2>1 DEF RegisterArrays
  <2> QED
    BY <1>1, <1>2, <2>2, <2>3
<1>6. CASE ReloaderWake \/ ReloaderDrain
  <2>1. reloader'.cur = reloader.cur /\ reloader'.got = reloader.got
    BY <1>6 DEF ReloaderWake, ReloaderDrain, ReloaderOK
  <2> QED
    BY <1>1, <1>2, <2>1
<1>7. CASE ~Reloader
  BY <1>1, <1>2, <1>7, OthersKeepReloader
<1> QED
  BY <1>4, <1>5, <1>6, <1>7 DEF Reloader

\* The arrays of a pool were a handler's, were held before, or were registered by the
\* step that brought them.
LEMMA IndexStep == TypeInv /\ FoundInv /\ IndexInv /\ [Next]_vars => IndexInv'
<1> SUFFICES ASSUME TypeInv, FoundInv, IndexInv, [Next]_vars
             PROVE  IndexInv'
  OBVIOUS
<1>1. arrayIndex \subseteq arrayIndex'
  BY IndexGrows
<1>2. ASSUME NEW p \in Pools, Concentrated(p)
      PROVE  {p} \X Loaded(pool'[p].arrays) \subseteq arrayIndex'
  <2>1. {p} \X Loaded(pool[p].arrays) \subseteq arrayIndex
    BY <1>2 DEF IndexInv, Indexed
  <2>2. CASE pool' = pool
    BY <1>1, <2>1, <2>2
  <2>3. ASSUME NEW t \in Tasks, InsPool(t)
        PROVE  {p} \X Loaded(pool'[p].arrays) \subseteq arrayIndex'
    <3>1. pool' = [pool EXCEPT ![PoolOf(t)] = WithLimits(PoolOf(t), task[t].st)]
      BY <2>3 DEF InsPool, InsertPool
    <3>2. CASE p = PoolOf(t)
      <4>1. pool'[p].arrays = task[t].st.arrays
        BY <3>1, <3>2, EventType, LimitsKeep DEF TypeInv, CacheOK, Task
      <4> QED
        BY <1>1, <3>2, <4>1 DEF IndexInv
    <3>3. CASE p # PoolOf(t)
      BY <1>1, <2>1, <3>1, <3>3 DEF TypeInv, CacheOK
    <3> QED
      BY <3>2, <3>3
  <2>4. ASSUME Updates
        PROVE  {p} \X Loaded(pool'[p].arrays) \subseteq arrayIndex'
    <3>1. PICK q \in cached, st \in PoolState :
            /\ pool' = [pool EXCEPT ![q] = st]
            /\ Concentrated(q) => {q} \X Loaded(st.arrays) \subseteq arrayIndex'
      BY <2>4 DEF Updates, Store
    <3> QED
      BY <1>1, <1>2, <2>1, <3>1 DEF TypeInv, CacheOK
  <2>5. ASSUME NEW t \in Tasks, InsEmit(t)
        PROVE  pool' = pool
    BY <2>5 DEF InsEmit, InsertEmit
  <2> QED
    BY <2>2, <2>3, <2>4, <2>5, StepWrites DEF WritesOnly
<1>3. \A p \in Pools : Indexed(p, pool[p])'
  BY <1>2 DEF Indexed, Concentrated, Loaded, Absent
<1>4. \A u \in Tasks : ({PoolOf(u)} \X Loaded(task[u].st.arrays) \subseteq arrayIndex)'
  BY IndexTasks DEF Loaded, Absent
<1> QED
  BY <1>3, <1>4, IndexReload DEF IndexInv

\* An array of a tick-array pool, fetched, streamed or reloaded, is one the reverse index
\* finds when its account changes.
THEOREM ArraysReached == Spec => []ArraysIndexed
<1>1. TypeInv /\ IndexInv => ArraysIndexed
  BY DEF TypeInv, CacheOK, IndexInv, Indexed, ArraysIndexed
<1> QED
  BY <1>1, TypeInit, TypeStep, FoundInit, FoundStep, IndexInit, IndexStep, PTL DEF Spec

-----------------------------------------------------------------------------
(* What the engine was told.                                                     *)

\* The labels of insert, and another handler between them for the same pool.
InsertLabels == {"insVaults", "insEmit", "insMints", "insPool"}
Inserts(u, p) == PoolOf(u) = p /\ task[u].pc \in InsertLabels

\* insert sends the update before it shows the pool: what a handler is about to show was
\* sent, unless it was dropped or somebody else is inserting the pool too.
Announced(t) ==
  task[t].pc \in {"insMints", "insPool"} /\ PoolOf(t) \notin cached \cup lost =>
    \/ sent[PoolOf(t)] = WithLimits(PoolOf(t), task[t].st)
    \/ \E u \in Tasks \ {t} : Inserts(u, PoolOf(t))
AgreeInv == EngineAgrees /\ \A t \in Tasks : Announced(t)

\* An update that is sent replaces the last one of its pool; one that is dropped is
\* remembered as lost.  Other pools are not concerned.
LEMMA EmitTells ==
  ASSUME ChanOK, NEW p \in Pools, NEW st, Emit(p, st)
  PROVE  /\ p \in lost' \/ sent'[p] = st
         /\ \A q \in Pools \ {p} : sent'[q] = sent[q] /\ (q \in lost <=> q \in lost')
BY DEF ChanOK, Emit

\* The state a handler is about to show, one step later.
LEMMA AnnouncedNext ==
  ASSUME NEW t \in Tasks, PoolOf(t)' = PoolOf(t), task'[t].st = task[t].st
  PROVE  WithLimits(PoolOf(t), task[t].st)' = WithLimits(PoolOf(t), task[t].st)
BY DEF WithLimits, ComputeLimits, NoLimit, NoArrays, AnyTick, Concentrated, Absent

\* A handler that inserts goes on inserting until it shows the pool, with the same state.
LEMMA InsertsOn ==
  ASSUME TypeInv, [Next]_vars, NEW u \in Tasks
  PROVE  /\ \A p : Inserts(u, p) => InsPool(u) \/ Inserts(u, p)'
         /\ task'[u].pc \in {"insMints", "insPool"} =>
              /\ InsEmit(u) \/ task[u].pc \in {"insMints", "insPool"}
              /\ PoolOf(u)' = PoolOf(u) /\ task'[u].st = task[u].st
<1> USE DEF TypeInv
<1>1. CASE task'[u] = task[u]
  BY <1>1 DEF Inserts, PoolOf
<1>2. CASE Handler(u)
  <2>1. Moves(u) /\ Carries(u)
    BY <1>2, Flow, CarriesOn
  <2>2. \A p : Inserts(u, p) => InsPool(u) \/ Inserts(u, p)'
    <3> SUFFICES ASSUME NEW p, Inserts(u, p), ~InsPool(u)
                 PROVE  Inserts(u, p)'
      OBVIOUS
    <3>1. InsVaults(u) \/ InsEmit(u) \/ InsMints(u)
      BY <1>2 DEF Inserts, InsertLabels, Handler, At, DiscContains, DiscPending, DiscInsert,
             Contains, Math, Needs, Requeue, Wake, Claim, Subscribe, FetchFee, FetchArrays,
             QueueVaults, BootContains, Token, MarkDirty, DirtyWake, ReadSpacing, Array,
             BlockLoad, BlockHash, BlockSlot
    <3>2. task'[u].ev = task[u].ev /\ task'[u].pc \in InsertLabels
      BY <3>1, GotoCarries DEF InsVaults, InsEmit, InsMints, InsertLabels
    <3> QED
      BY <3>2 DEF Inserts, PoolOf
  <2>3. ASSUME task'[u].pc \in {"insMints", "insPool"}
        PROVE  /\ InsEmit(u) \/ task[u].pc \in {"insMints", "insPool"}
               /\ PoolOf(u)' = PoolOf(u) /\ task'[u].st = task[u].st
    <3>1. InsEmit(u) \/ InsMints(u)
      BY <2>1, <2>3 DEF Moves
    <3>2. task'[u].ev = task[u].ev /\ task'[u].st = task[u].st
      BY <3>1, GotoCarries DEF InsEmit, InsMints
    <3> QED
      BY <3>1, <3>2 DEF InsMints, At, PoolOf
  <2> QED
    BY <2>2, <2>3
<1>3. ASSUME NEW e \in Feed, Deliver(u, e)
      PROVE  ~(\E p : Inserts(u, p)) /\ task'[u].pc \notin {"insMints", "insPool"}
  <2>1. e.type \in EventTypes
    BY StreamerAssumption DEF Event
  <2>2. task'[u].pc = Entry[e.type] /\ task[u].pc = "idle"
    BY <1>3 DEF Deliver, HandlerOK, At
  <2> QED
    BY <2>1, <2>2 DEF Entry, EventTypes, Inserts, InsertLabels
<1>4. ASSUME NEW t \in Tasks \ {u}, Handler(t)
      PROVE  task'[u] = task[u]
  BY <1>4, Flow DEF Moves
<1>5. ASSUME NEW t \in Tasks \ {u}, NEW e \in Feed, Deliver(t, e)
      PROVE  task'[u] = task[u]
  BY <1>5 DEF Deliver, HandlerOK
<1>6. CASE Advance \/ Engine \/ Fetcher \/ Reloader \/ Refresher \/ UNCHANGED vars
  BY <1>1, <1>6, OthersKeepRecords
<1> QED
  BY <1>1, <1>2, <1>3, <1>4, <1>5, <1>6 DEF Next

\* The inserts of a pool none of which shows it go on.
LEMMA InsertingOn ==
  ASSUME TypeInv, [Next]_vars, NEW p, Inserting(p),
         \A u \in Tasks : Inserts(u, p) => ~InsPool(u)
  PROVE  Inserting(p)'
<1>1. PICK u \in Tasks : Inserts(u, p)
  BY DEF Inserting, Inserts, InsertLabels
<1>2. Inserts(u, p)'
  BY <1>1, InsertsOn
<1> QED
  BY <1>2 DEF Inserting, Inserts, InsertLabels

\* Whatever writes a pool that was found tells the engine.
LEMMA AgreeWrites ==
  ASSUME TypeInv, AgreeInv, [Next]_vars, WritesOnly,
         \A u \in Tasks : ~InsEmit(u) /\ ~InsPool(u)
  PROVE  AgreeInv'
<1> USE DEF TypeInv
<1>1. cached' = cached /\ overwritten' = overwritten
  BY DEF WritesOnly
<1>2. ASSUME NEW p \in Pools
      PROVE  \/ p \in lost' \/ sent'[p] = pool'[p]
             \/ /\ sent'[p] = sent[p] /\ pool'[p] = pool[p]
                /\ p \in lost <=> p \in lost'
  <2>1. CASE UNCHANGED <<pool, sent, lost>>
    BY <2>1
  <2>2. CASE Updates
    <3>1. PICK q \in cached, st \in PoolState : Store(q, st)
      BY <2>2 DEF Updates
    <3>2. CASE p = q
      BY <3>1, <3>2, EmitTells DEF Store, CacheOK
    <3>3. CASE p # q
      BY <3>1, <3>3, EmitTells DEF Store, CacheOK
    <3> QED
      BY <3>2, <3>3
  <2> QED
    BY <2>1, <2>2 DEF WritesOnly
<1>3. ASSUME NEW p \in Pools \ cached
      PROVE  sent'[p] = sent[p] /\ (p \in lost <=> p \in lost')
  <2>1. CASE UNCHANGED <<pool, sent, lost>>
    BY <2>1
  <2>2. CASE Updates
    BY <2>2, EmitTells DEF Updates, Store, CacheOK
  <2> QED
    BY <2>1, <2>2 DEF WritesOnly
<1>4. EngineAgrees'
  <2>1. ASSUME NEW p \in cached' \ (lost' \cup overwritten')
        PROVE  Inserting(p)' \/ sent'[p] = pool'[p]
    <3>1. p \in Pools /\ p \in cached /\ p \notin overwritten
      BY <1>1 DEF CacheOK
    <3>2. CASE Inserting(p)
      BY <3>2, InsertingOn
    <3>3. CASE ~Inserting(p)
      BY <1>2, <3>1, <3>3 DEF AgreeInv, EngineAgrees
    <3> QED
      BY <3>2, <3>3
  <2> QED
    BY <2>1 DEF EngineAgrees
<1>5. ASSUME NEW t \in Tasks
      PROVE  Announced(t)'
  <2> SUFFICES ASSUME task'[t].pc \in {"insMints", "insPool"},
                      PoolOf(t)' \notin cached' \cup lost'
               PROVE  \/ sent'[PoolOf(t)'] = WithLimits(PoolOf(t), task[t].st)'
                      \/ \E u \in Tasks \ {t} : Inserts(u, PoolOf(t))'
    BY DEF Announced
  <2>1. /\ task[t].pc \in {"insMints", "insPool"}
        /\ PoolOf(t)' = PoolOf(t) /\ task'[t].st = task[t].st
    BY InsertsOn
  <2>2. PoolOf(t) \in Pools /\ PoolOf(t) \notin cached \cup lost
    BY <1>1, <1>3, <2>1, EventType
  <2>3. \/ sent[PoolOf(t)] = WithLimits(PoolOf(t), task[t].st)
        \/ \E u \in Tasks \ {t} : Inserts(u, PoolOf(t))
    BY <2>1, <2>2 DEF AgreeInv, Announced
  <2>4. CASE sent[PoolOf(t)] = WithLimits(PoolOf(t), task[t].st)
    BY <1>3, <2>1, <2>2, <2>4, AnnouncedNext
  <2>5. ASSUME NEW u \in Tasks \ {t}, Inserts(u, PoolOf(t))
        PROVE  Inserts(u, PoolOf(t))'
    <3>1. task'[u].pc \in InsertLabels /\ PoolOf(u)' = PoolOf(t)
      BY <2>5, InsertsOn DEF Inserts
    <3> QED
      BY <2>1, <3>1 DEF Inserts
  <2> QED
    BY <2>3, <2>4, <2>5
<1> QED
  BY <1>4, <1>5 DEF AgreeInv

\* The update an insert sends is what it is about to show.
LEMMA AgreeEmit ==
  ASSUME TypeInv, AgreeInv, [Next]_vars, NEW t \in Tasks, InsEmit(t)
  PROVE  AgreeInv'
<1> USE DEF TypeInv
<1> DEFINE p == PoolOf(t)
<1>1. Emit(p, WithLimits(p, task[t].st)) /\ UNCHANGED <<cached, pool, overwritten>>
  BY DEF InsEmit, InsertEmit, histVars
<1>2. /\ task'[t].ev = task[t].ev /\ task'[t].st = task[t].st /\ PoolOf(t)' = p
      /\ task'[t].pc = "insMints"
  BY GotoCarries DEF InsEmit, PoolOf
<1>3. \A u \in Tasks \ {t} : task'[u] = task[u]
  BY GotoMoves DEF InsEmit
<1>4. p \in Pools
  BY EventType
<1>5. /\ p \in lost' \/ sent'[p] = WithLimits(p, task[t].st)
      /\ \A q \in Pools \ {p} : sent'[q] = sent[q] /\ (q \in lost <=> q \in lost')
  BY <1>1, <1>4, EmitTells
<1>6. \A u \in Tasks : \A q : Inserts(u, q) => Inserts(u, q)'
  BY <1>2, <1>3 DEF Inserts, InsertLabels, PoolOf
<1>7. EngineAgrees'
  <2>1. ASSUME NEW q \in cached' \ (lost' \cup overwritten')
        PROVE  Inserting(q)' \/ sent'[q] = pool'[q]
    <3>1. CASE q = p
      BY <1>2, <3>1 DEF Inserting
    <3>2. CASE q # p
      <4>1. q \in Pools /\ sent'[q] = sent[q] /\ q \notin lost
        BY <1>1, <1>5, <3>2 DEF CacheOK
      <4>2. Inserting(q) => Inserting(q)'
        BY <1>6 DEF Inserting, Inserts, InsertLabels
      <4> QED
        BY <1>1, <4>1, <4>2 DEF AgreeInv, EngineAgrees
    <3> QED
      BY <3>1, <3>2
  <2> QED
    BY <2>1 DEF EngineAgrees
<1>8. Announced(t)'
  BY <1>2, <1>5, AnnouncedNext DEF Announced
<1>9. ASSUME NEW u \in Tasks \ {t}
      PROVE  Announced(u)'
  <2>1. PoolOf(u)' = PoolOf(u) /\ task'[u] = task[u] /\ PoolOf(u) \in Pools
    BY <1>3, EventType DEF PoolOf
  <2>2. CASE PoolOf(u) = p
    <3>1. Inserts(t, PoolOf(u))'
      BY <1>2, <2>1, <2>2 DEF Inserts, InsertLabels
    <3> QED
      BY <3>1 DEF Announced
  <2>3. CASE PoolOf(u) # p
    <3>1. /\ sent'[PoolOf(u)] = sent[PoolOf(u)]
          /\ PoolOf(u) \in cached \cup lost <=> PoolOf(u) \in cached' \cup lost'
      BY <1>1, <1>5, <2>1, <2>3
    <3>2. \A v \in Tasks : Inserts(v, PoolOf(u)) => Inserts(v, PoolOf(u))'
      BY <1>6, <2>1 DEF Inserts
    <3> QED
      BY <2>1, <3>1, <3>2, AnnouncedNext DEF AgreeInv, Announced
  <2> QED
    BY <2>2, <2>3
<1> QED
  BY <1>7, <1>8, <1>9 DEF AgreeInv

\* The pool an insert shows is what the engine was told, unless it was shown before.
LEMMA AgreeShow ==
  ASSUME TypeInv, AgreeInv, [Next]_vars, NEW t \in Tasks, InsPool(t)
  PROVE  AgreeInv'
<1> USE DEF TypeInv
<1> DEFINE p == PoolOf(t)
<1>1. /\ cached' = cached \cup {p} /\ UNCHANGED <<sent, lost>>
      /\ pool' = [pool EXCEPT ![p] = WithLimits(p, task[t].st)]
      /\ overwritten' = overwritten \cup (cached \cap {p})
  BY DEF InsPool, InsertPool, chanVars
<1>2. task[t].pc = "insPool" /\ task'[t].pc \in {"idle", "queueVaults"}
  BY GotoMoves, DoneMoves DEF InsPool, At
<1>3. \A u \in Tasks \ {t} : task'[u] = task[u]
  BY GotoMoves, DoneMoves DEF InsPool
<1>4. p \in Pools
  BY EventType
<1>5. \A u \in Tasks \ {t} : \A q : Inserts(u, q) => Inserts(u, q)'
  BY <1>3 DEF Inserts, InsertLabels, PoolOf
<1>6. EngineAgrees'
  <2>1. ASSUME NEW q \in cached' \ (lost' \cup overwritten')
        PROVE  Inserting(q)' \/ sent'[q] = pool'[q]
    <3>1. CASE q = p
      <4>1. p \notin cached \cup lost
        BY <1>1, <3>1
      <4>2. \/ sent[p] = WithLimits(p, task[t].st)
            \/ \E u \in Tasks \ {t} : Inserts(u, p)
        BY <1>2, <4>1 DEF AgreeInv, Announced
      <4>3. CASE sent[p] = WithLimits(p, task[t].st)
        BY <1>1, <1>4, <3>1, <4>3 DEF CacheOK
      <4>4. ASSUME NEW u \in Tasks \ {t}, Inserts(u, p)
            PROVE  Inserting(q)'
        BY <1>5, <3>1, <4>4 DEF Inserting, Inserts, InsertLabels
      <4> QED
        BY <4>2, <4>3, <4>4
    <3>2. CASE q # p
      <4>1. /\ q \in cached \ (lost \cup overwritten)
            /\ sent'[q] = sent[q] /\ pool'[q] = pool[q]
        BY <1>1, <3>2 DEF CacheOK
      <4>2. Inserting(q) => Inserting(q)'
        <5>1. ~Inserts(t, q)
          BY <3>2 DEF Inserts
        <5> QED
          BY <1>5, <5>1 DEF Inserting, Inserts, InsertLabels
      <4> QED
        BY <4>1, <4>2 DEF AgreeInv, EngineAgrees
    <3> QED
      BY <3>1, <3>2
  <2> QED
    BY <2>1 DEF EngineAgrees
<1>7. Announced(t)'
  BY <1>2 DEF Announced
<1>8. ASSUME NEW u \in Tasks \ {t}
      PROVE  Announced(u)'
  <2>1. PoolOf(u)' = PoolOf(u) /\ task'[u] = task[u]
    BY <1>3 DEF PoolOf
  <2>2. CASE PoolOf(u) = p
    BY <1>1, <2>1, <2>2 DEF Announced
  <2>3. CASE PoolOf(u) # p
    <3>1. ~Inserts(t, PoolOf(u))
      BY <2>3 DEF Inserts
    <3>2. \A v \in Tasks : Inserts(v, PoolOf(u)) => Inserts(v, PoolOf(u))'
      BY <1>5, <2>1, <3>1 DEF Inserts
    <3>3. PoolOf(u) \in cached \cup lost <=> PoolOf(u) \in cached' \cup lost'
      BY <1>1, <2>3
    <3> QED
      BY <1>1, <2>1, <3>2, <3>3, AnnouncedNext DEF AgreeInv, Announced
  <2> QED
    BY <2>2, <2>3
<1> QED
  BY <1>6, <1>7, <1>8 DEF AgreeInv

\* Nothing is shown initially,
LEMMA AgreeInit == Init => AgreeInv
BY DEF Init, CacheInit, IdleTask, AgreeInv, EngineAgrees, Announced

\* and no step shows anything else than it tells.
LEMMA AgreeStep ==
  TypeInv /\ FoundInv /\ IndexInv /\ AgreeInv /\ [Next]_vars => AgreeInv'
<1> SUFFICES ASSUME TypeInv, FoundInv, IndexInv, AgreeInv, [Next]_vars
             PROVE  AgreeInv'
  OBVIOUS
<1>1. ASSUME NEW t \in Tasks, InsEmit(t)
      PROVE  AgreeInv'
  BY <1>1, AgreeEmit
<1>2. ASSUME NEW t \in Tasks, InsPool(t)
      PROVE  AgreeInv'
  BY <1>2, AgreeShow
<1>3. CASE \A t \in Tasks : ~InsEmit(t) /\ ~InsPool(t)
  BY <1>3, StepWrites, AgreeWrites
<1> QED
  BY <1>1, <1>2, <1>3

\* What the engine heard last of a pool is what the cache holds, but for updates dropped
\* at a full channel, a second insert of the pool, or an insert under way.
THEOREM EngineUpToDate == Spec => []EngineAgrees
<1>1. AgreeInv => EngineAgrees
  BY DEF AgreeInv
<1> QED
  BY <1>1, TypeInit, TypeStep, FoundInit, FoundStep, IndexInit, IndexStep, AgreeInit,
     AgreeStep, PTL DEF Spec

\* Only a second insert takes a reserve of a cached pool back to zero or a fetched fee
\* back to the decoder's.
LEMMA KeptStep == TypeInv /\ FoundInv /\ IndexInv /\ [Next]_vars => KeptWhileCached
<1> SUFFICES ASSUME TypeInv, FoundInv, IndexInv, [Next]_vars,
                    NEW p \in cached \ overwritten'
             PROVE  Keeps(pool[p], pool'[p])
  BY DEF KeptWhileCached, Keeps
<1>1. CASE pool' = pool
  BY <1>1 DEF Keeps
<1>2. CASE Updates
  BY <1>2 DEF Updates, Store, Keeps, TypeInv, CacheOK
<1>3. ASSUME NEW t \in Tasks, InsEmit(t)
      PROVE  pool' = pool
  BY <1>3 DEF InsEmit, InsertEmit
<1>4. ASSUME NEW t \in Tasks, InsPool(t)
      PROVE  Keeps(pool[p], pool'[p])
  <2>1. p # PoolOf(t)
    BY <1>4 DEF InsPool
  <2>2. pool'[p] = pool[p]
    BY <1>4, <2>1 DEF InsPool, InsertPool, TypeInv, CacheOK
  <2> QED
    BY <2>2 DEF Keeps
<1> QED
  BY <1>1, <1>2, <1>3, <1>4, StepWrites DEF WritesOnly

\* What a pool account does not tell survives every decoding of it.
THEOREM KeptByDecoding == Spec => StateKept
<1>1. Spec => [](TypeInv /\ FoundInv /\ IndexInv)
  BY TypeInit, TypeStep, FoundInit, FoundStep, IndexInit, IndexStep, PTL DEF Spec
<1> QED
  BY <1>1, KeptStep, PTL DEF Spec, StateKept
=============================================================================
