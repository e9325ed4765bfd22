---------------------------- MODULE Startup_proofs -----------------------------
(* Nothing the scanner has noticed is forgotten: a change waits in the channel or  *)
(* in the batch, or its pool is being compared as it is, until it was compared.     *)
EXTENDS Startup, ArbStream_proofs, FiniteSetTheorems

\* Both pools have a price, of the same token.
Comparable(c) ==
  \A p, q \in c : Priced(cache[p]) /\ TokenOf(cache[p]) = TokenOf(cache[q])

InHand(c) == \E p \in c : p \in Range(updates) \cup Range(task.batch)

\* One is being compared as it is now, and the other is still to come.
Underway(c) ==
  task.trig \in c /\ c \ {task.trig} \subseteq task.todo /\ task.a = cache[task.trig]

SeenInv == \A c \in Couples : watch[c] = "due" /\ Comparable(c) => InHand(c) \/ Underway(c)

StartupInv == TaskTyped /\ SeenInv

-----------------------------------------------------------------------------
(* Lemmas on what channels hold.                                              *)

\* An offer loses nothing that waits.
LEMMA OfferKeeps ==
  ASSUME NEW chan \in Seq(Pools), NEW cap, NEW x
  PROVE  Range(chan) \subseteq Range(Offered(chan, cap, x))
  BY DEF Offered, Range

\* An offered pool leaves the channel one of pools.
LEMMA OfferOnce ==
  ASSUME NEW chan \in Seq(Pools), NEW cap, NEW x \in Pools
  PROVE  Offered(chan, cap, x) \in Seq(Pools)
  BY DEF Offered

\* One channel holds all that another holds.
Extends(s, t) == t \in Seq(Pools) /\ Range(s) \subseteq Range(t)

\* What is offered extends the channel.
LEMMA OfferExtends ==
  ASSUME NEW chan \in Seq(Pools), NEW cap, NEW x \in Pools
  PROVE  Extends(chan, Offered(chan, cap, x))
  BY OfferKeeps, OfferOnce DEF Extends

\* What is received is the first.
LEMMA ReceivedFirst ==
  ASSUME NEW S, NEW s \in Seq(S), s # <<>>
  PROVE  Range(s) \subseteq {Head(s)} \cup Range(Tail(s))
  <1> SUFFICES ASSUME NEW i \in 1..Len(s), i # 1 PROVE s[i] \in Range(Tail(s))
    BY DEF Range
  <1>1. i - 1 \in DOMAIN Tail(s) /\ Tail(s)[i - 1] = s[i]
    OBVIOUS
  <1>. QED
    BY <1>1 DEF Range

\* A batch and what it leaves hold everything.
LEMMA PartedHolds ==
  ASSUME NEW S, NEW s \in Seq(S), NEW n \in 0..Len(s)
  PROVE  Range(s) \subseteq Range(SubSeq(s, 1, n)) \cup Range(SubSeq(s, n + 1, Len(s)))
  <1> SUFFICES ASSUME NEW i \in 1..Len(s)
               PROVE  s[i] \in Range(SubSeq(s, 1, n)) \cup Range(SubSeq(s, n + 1, Len(s)))
    <2>1. Range(s) = {s[i] : i \in 1..Len(s)}
      BY DEF Range
    <2>. QED
      BY <2>1
  <1>1. CASE i <= n
    <2>1. i \in DOMAIN SubSeq(s, 1, n) /\ SubSeq(s, 1, n)[i] = s[i]
      BY <1>1
    <2>. QED
      BY <2>1 DEF Range
  <1>2. CASE i > n
    <2> DEFINE m == n + 1
               j == i - n
    <2>1. m \in Nat /\ Len(s) \in Nat /\ m + j - 1 = i /\ j \in 1..(Len(s) - m + 1)
      BY <1>2
    <2>. HIDE DEF m, j
    <2>2. j \in DOMAIN SubSeq(s, m, Len(s)) /\ SubSeq(s, m, Len(s))[j] = s[i]
      BY <2>1
    <2>3. j \in DOMAIN SubSeq(s, n + 1, Len(s)) /\ SubSeq(s, n + 1, Len(s))[j] = s[i]
      BY <2>2 DEF m
    <2>. QED
      BY <2>3 DEF Range
  <1>. QED
    BY <1>1, <1>2

-----------------------------------------------------------------------------
(* The steps of the composition.                                              *)

\* What a step does to the channel and the task, as far as it matters here.
Grows == UNCHANGED task /\ updates' \in Seq(Pools) /\ Range(updates) \subseteq Range(updates')

\* The bootstrap leaves the task alone, and offers a pool at most once.
LEMMA BootOffers ==
  ASSUME BootNext
  PROVE  /\ UNCHANGED task
         /\ UNCHANGED updates \/ \E p \in Pools : updates' = Offered(updates, UpdateCap, p)
  <1>1. ASSUME NEW p \in Pools, BootRegister(p) \/ BootVault(p) \/ Reemit(p)
        PROVE  UNCHANGED task /\ (UNCHANGED updates \/ updates' = Offered(updates, UpdateCap, p))
    BY <1>1 DEF BootRegister, BootVault, Reemit, bootOthers
  <1>2. ASSUME NEW p \in Pools, BootArrays(p) \/ BootFails(p) \/ BootVaultFails(p)
        PROVE  UNCHANGED <<task, updates>>
    BY <1>2 DEF BootArrays, BootFails, BootVaultFails, bootOthers
  <1>3. ASSUME BootPhase2 \/ BootPhase3 \/ BootPhase4 \/ Arm PROVE UNCHANGED <<task, updates>>
    BY <1>3 DEF BootPhase2, BootPhase3, BootPhase4, Arm, bootOthers
  <1>. QED
    BY <1>1, <1>2, <1>3 DEF BootNext, BootStep

\* The stream and the bootstrap only add updates.
LEMMA OthersGrow ==
  ASSUME TaskTyped, Stream \/ (BootNext /\ UNCHANGED streamVars)
  PROVE  Grows /\ TaskTyped'
  <1>1. UNCHANGED task
    BY BootOffers DEF Stream, StreamWrites, StreamBalances, StreamMeets, StreamInserts, Shown,
                      StreamShows, scanVars
  <1>2. CASE Stream
    <2>1. TaskTyped'
      BY <1>2, StreamTyped
    <2>2. UNCHANGED updates \/ \E p : updates' = Offered(updates, UpdateCap, p)
      BY <1>2 DEF Stream, StreamWrites, StreamBalances, StreamMeets, StreamInserts, Shown,
                  StreamShows
    <2>. QED
      BY <1>1, <2>1, <2>2, OfferKeeps DEF Grows, TaskTyped
  <1>3. CASE BootNext /\ UNCHANGED streamVars
    <2>1. Extends(updates, updates')
      <3>1. UNCHANGED updates \/ \E p \in Pools : updates' = Offered(updates, UpdateCap, p)
        BY <1>3, BootOffers
      <3>. QED
        BY <3>1, OfferExtends DEF Extends, TaskTyped
    <2>. QED
      BY <1>1, <1>3, <2>1 DEF Grows, Extends, TaskTyped, streamVars
  <1>. QED
    BY <1>2, <1>3

\* Two different pools, neither of them the absence of one.
LEMMA CouplesArePools ==
  ASSUME NEW c \in Couples
  PROVE  c \subseteq Pools /\ NoTrigger \notin c /\ \A p \in c : \E q \in c \ {p} : c = {p, q}
  BY NoTriggerAssumption DEF Couples

\* Nothing about a couple changes while its pools do not.
LEMMA SameComparable ==
  ASSUME NEW c, Changed(c) = {}, Comparable(c)' PROVE Comparable(c)
  BY DEF Changed, Comparable

\* A pair that was due and was neither compared nor thrown away keeps what it waits in.
Quiet(c) == Changed(c) = {} /\ Comparable(c) /\ ~Met(c) /\ ~Tossed(c)

\* While the task rests over an update, or takes it for a pool of no couple, nothing is
\* lost: a batch is cut off the channel without loss.
LEMMA TakeBatchKeeps ==
  ASSUME TaskTyped, TakeBatch, NEW c \in Couples, InHand(c) \/ Underway(c)
  PROVE  InHand(c)'
  <1> DEFINE n == IF Len(updates) < BatchMax THEN Len(updates) ELSE BatchMax
  <1>1. n \in 0..Len(updates)
    BY ScannerAssumption DEF TaskTyped
  <1>2. task'.batch = SubSeq(updates, 1, n) /\ updates' = SubSeq(updates, n + 1, Len(updates))
    BY DEF TakeBatch, Resting
  <1>3. Range(updates) \subseteq Range(task'.batch) \cup Range(updates')
    BY <1>1, <1>2, PartedHolds DEF TaskTyped
  <1>4. task.batch = <<>> /\ task.trig = NoTrigger
    BY DEF TakeBatch, Resting
  <1>5. Range(task.batch) = {}
    BY <1>4 DEF Range
  <1>. QED
    BY <1>3, <1>4, <1>5, CouplesArePools DEF InHand, Underway

\* What is taken from the batch is read, with all the other pools of its token to come;
\* only an update that has nothing to compare is passed over.
LEMMA BeginKeeps ==
  ASSUME TaskTyped, Begin, NEW c \in Couples, Quiet(c), InHand(c) \/ Underway(c)
  PROVE  InHand(c)' \/ Underway(c)'
  <1> DEFINE p == Head(task.batch)
             others == SameToken(cache[p]) \ {p}
  <1>1. /\ task.trig = NoTrigger /\ task.batch # <<>> /\ UNCHANGED <<cache, updates>>
        /\ p \in Pools /\ Range(task.batch) \subseteq {p} \cup Range(Tail(task.batch))
    BY Received, ReceivedFirst DEF Begin, TaskTyped
  <1>2. task'.batch = Tail(task.batch)
    BY DEF Begin, TaskTyped
  <1>3. InHand(c)
    BY <1>1, CouplesArePools DEF Underway
  <1>4. CASE p \notin c
    BY <1>1, <1>2, <1>3, <1>4 DEF InHand
  <1>5. CASE p \in c
    <2>1. PICK q \in c \ {p} : c = {p, q}
      BY <1>5, CouplesArePools
    <2>2. Priced(cache[p]) /\ Priced(cache[q]) /\ TokenOf(cache[p]) = TokenOf(cache[q])
      BY <1>5, <2>1 DEF Quiet, Comparable
    <2>3. TokenOf(cache[p]) # "none" /\ cache[p] # Absent /\ cache[q] # Absent
      <3>1. Absent.a = "" /\ Absent.b = ""
        BY DEF Absent
      <3>2. TokenOf(Absent) = "none"
        BY <3>1 DEF TokenOf, SolIsA
      <3>. QED
        BY <2>2, <3>2 DEF Priced
    <2>4. q \in others
      BY <2>1, <2>2, <2>3, CouplesArePools DEF SameToken, TokenOf, SolIsA
    <2>5. CASE ready
      <3>1. task' = [batch |-> Tail(task.batch), trig |-> p, a |-> cache[p], todo |-> others]
        BY <2>2, <2>3, <2>4, <2>5 DEF Begin
      <3>. QED
        BY <1>1, <2>1, <2>4, <3>1 DEF Underway
    <2>6. CASE ~ready
      <3>1. task'.trig = NoTrigger
        BY <1>1, <2>6 DEF Begin, TaskTyped
      <3>. QED
        BY <1>1, <1>2, <1>5, <2>6, <3>1 DEF Quiet, Tossed
    <2>. QED
      BY <2>5, <2>6
  <1>. QED
    BY <1>4, <1>5

\* A comparison with one pool leaves those with the others to come.
LEMMA CompareKeeps ==
  ASSUME TaskTyped, NEW q \in Pools, Compare(q),
         NEW c \in Couples, Quiet(c), InHand(c) \/ Underway(c)
  PROVE  InHand(c)' \/ Underway(c)'
  <1>1. UNCHANGED <<cache, updates>> /\ task'.batch = task.batch /\ q \in task.todo
    BY DEF Compare, TaskTyped, Resting
  <1>2. CASE InHand(c)
    BY <1>1, <1>2 DEF InHand
  <1>3. CASE Underway(c)
    <2>1. PICK r \in c \ {task.trig} : c = {task.trig, r}
      BY <1>3, CouplesArePools DEF Underway
    <2>2. r \in task.todo
      BY <1>3, <2>1 DEF Underway
    <2>3. CASE task.todo = {q}
      <3>1. task'.todo = {}
        BY <2>3 DEF Compare, Resting
      <3>. QED
        BY <1>3, <2>1, <2>2, <3>1 DEF Quiet, Met, Underway
    <2>4. CASE task.todo # {q}
      <3>1. task' = [task EXCEPT !.todo = @ \ {q}]
        BY <2>4 DEF Compare
      <3>2. /\ task'.todo = task.todo \ {q} /\ task'.trig = task.trig /\ task'.a = task.a
        BY <3>1 DEF TaskTyped
      <3>3. CASE q = r
        BY <1>1, <1>3, <2>1, <2>2, <3>2, <3>3 DEF Quiet, Met, Underway
      <3>4. CASE q # r
        BY <1>1, <1>3, <2>1, <2>2, <3>2, <3>4 DEF Underway
      <3>. QED
        BY <3>3, <3>4
    <2>. QED
      BY <2>3, <2>4
  <1>. QED
    BY <1>2, <1>3

\* What only adds updates disturbs no couple whose pools do not change.
LEMMA GrowsKeeps ==
  ASSUME Grows, NEW c \in Couples, Quiet(c), InHand(c) \/ Underway(c)
  PROVE  InHand(c)' \/ Underway(c)'
  BY DEF Grows, Quiet, Changed, InHand, Underway

\* A change is due with an update that waits, and stays so until both were compared.
LEMMA NextSeen ==
  ASSUME StartupInv, Next, NEW c \in Couples, watch'[c] = "due", Comparable(c)'
  PROVE  InHand(c)' \/ Underway(c)'
  <1>1. CASE Changed(c) # {}
    <2>1. \E p \in Changed(c) : Pending(p)
      BY <1>1 DEF Next, Watching
    <2>. QED
      BY <2>1 DEF Changed, Pending, InHand
  <1>2. CASE Changed(c) = {}
    <2>1. watch[c] = "due" /\ ~Met(c) /\ ~Tossed(c)
      BY <1>2 DEF Next, Watching
    <2>2. Quiet(c) /\ (InHand(c) \/ Underway(c)) /\ TaskTyped
      BY <1>2, <2>1, SameComparable DEF Quiet, StartupInv, SeenInv
    <2>3. CASE Stream \/ (BootNext /\ UNCHANGED streamVars) \/ Clean
      <3>1. Grows
        BY <2>2, <2>3, OthersGrow DEF Grows, Clean, TaskTyped
      <3>. QED
        BY <2>2, <3>1, GrowsKeeps
    <2>4. CASE Handle
      BY <2>2, <2>4, TakeBatchKeeps, BeginKeeps, CompareKeeps DEF Handle
    <2>. QED
      BY <2>3, <2>4 DEF Next, ScannerStep
  <1>. QED
    BY <1>1, <1>2

LEMMA StartupStep ==
  ASSUME StartupInv, [Next]_vars PROVE StartupInv'
  <1>1. CASE Next
    <2>1. TaskTyped'
      <3>1. CASE Stream \/ (BootNext /\ UNCHANGED streamVars)
        BY <3>1, OthersGrow DEF StartupInv
      <3>2. CASE ScannerStep /\ UNCHANGED streamVars
        BY <3>2, ScannerTyped DEF StartupInv, streamVars
      <3>. QED
        BY <1>1, <3>1, <3>2 DEF Next
    <2>. QED
      BY <1>1, <2>1, NextSeen DEF StartupInv, SeenInv
  <1>2. CASE UNCHANGED vars
    BY <1>2 DEF vars, scanVars, streamVars, StartupInv, SeenInv, TaskTyped, Comparable,
                InHand, Underway
  <1>. QED
    BY <1>1, <1>2

\* At the start nothing has changed that was not compared.
LEMMA StartupInit == Init => StartupInv
  <1> SUFFICES ASSUME Init PROVE StartupInv
    OBVIOUS
  <1>1. TaskTyped
    BY FeedsAssumption DEF Init, ArbStreamInit, ScannerInit, TaskTyped, Resting
  <1>2. SeenInv
    BY DEF Init, SeenInv
  <1>. QED
    BY <1>1, <1>2 DEF StartupInv

\* When nothing is under way every change that was noticed has been compared: the
\* invariant the Startup run checks.  A pool that changes after it was read is compared
\* again because its update still waits.
THEOREM NoticedIsSeen == Spec => []SeenLast
  <1>1. StartupInv => SeenLast
    <2> SUFFICES ASSUME StartupInv, updates = <<>>, task = Resting,
                        NEW p \in Pools, NEW q \in Pools, p # q,
                        Priced(cache[p]), Priced(cache[q]), TokenOf(cache[p]) = TokenOf(cache[q])
                 PROVE  watch[{p, q}] # "due"
      BY DEF SeenLast
    <2>1. {p, q} \in Couples /\ Comparable({p, q})
      <3>1. ASSUME NEW r, {p, q} = {r} PROVE FALSE
        <4>1. p \in {r} /\ q \in {r}
          BY <3>1
        <4>. QED
          BY <4>1
      <3> DEFINE both == {{x, y} : x, y \in Pools}
                 single == {{x} : x \in Pools}
      <3>2. {p, q} \in both
        OBVIOUS
      <3>3. {p, q} \notin single
        BY <3>1
      <3>4. Couples = both \ single
        BY DEF Couples
      <3>5. Comparable({p, q})
        BY DEF Comparable
      <3>. HIDE DEF both, single
      <3>. QED
        BY <3>2, <3>3, <3>4, <3>5
    <2>2. ~InHand({p, q})
      BY DEF InHand, Resting, Range
    <2>3. ~Underway({p, q})
      BY NoTriggerAssumption DEF Underway, Resting
    <2>. QED
      BY <2>1, <2>2, <2>3 DEF StartupInv, SeenInv
  <1>2. Init => StartupInv
    BY StartupInit
  <1>3. StartupInv /\ [Next]_vars => StartupInv'
    BY StartupStep
  <1>. QED
    BY <1>1, <1>2, <1>3, PTL DEF Spec
-----------------------------------------------------------------------------
(* What the bootstrap leaves.                                                  *)

\* No vault of the chain is empty, and every DLMM pool has arrays there: a pool that has
\* none is out of the bootstrap's hands.  What the handlers of new pools insert is not
\* restricted.
Whole ==
  /\ \A w \in Arrivals : w.part # "account" => w.balance > 0
  /\ \A p \in Pools :
       /\ Found(p).math.kind = "cp" => OnChain(p).math.a > 0 /\ OnChain(p).math.b > 0
       /\ Found(p).math.kind = "dlmm" => OnChain(p).math.arrays # {}

\* The pools whose calls did not fail, and those of them that no handler emptied.
Brought == BootPools \ boot.failed
Spared  == Brought \ undone

Phases == {"pools", "vaults", "arrays", "emit", "armed"}

\* A cached pool is still what it was, and what arrives is an arrival.
Unchanging ==
  /\ boot = [phase |-> boot.phase, todo |-> boot.todo, half |-> boot.half, failed |-> boot.failed]
  /\ boot.phase \in Phases
  /\ cache = [p \in Pools |-> cache[p]]
  /\ \A p \in Pools : cache[p] = Absent \/ Alike(cache[p], Found(p))
  /\ feed \in Seq(Arrivals) /\ arriving \subseteq Handlers

\* A phase has done its work for the pools that it no longer has to do.
After(p, phase, later) == boot.phase \in later \/ (boot.phase = phase /\ p \notin boot.todo)
Registered(p) == After(p, "pools", Phases \ {"pools"}) => cache[p] # Absent
Balanced(p) ==
  cache[p].math.kind = "cp" =>
    /\ After(p, "vaults", {"arrays", "emit", "armed"}) =>
         cache[p].math.a > 0 /\ cache[p].math.b > 0
    /\ boot.phase = "vaults" /\ p \in boot.half => cache[p].math.a > 0

\* No pool of another DEX that has one of its mints was brought.
Alone(p) ==
  \A q \in Brought : Mints(Found(q)) \cap Mints(Found(p)) # {} => Found(q).dex = Found(p).dex
Supplied(p) ==
  /\ After(p, "arrays", {"emit", "armed"})
  /\ cache[p].math.kind = "dlmm" /\ cache[p].math.arrays = {}
  => Alone(p)

\* A pool whose vaults or arrays are still to be fetched is cached.
Reached(p) ==
  /\ boot.phase \in {"vaults", "arrays"} => cache[p] # Absent
  /\ boot.phase = "arrays" => cache[p].math.kind = "dlmm"

\* Only phase 2 has pools with one of their vaults fetched.
Halves == boot.half \subseteq boot.todo /\ (boot.half # {} => boot.phase = "vaults")

BootInv ==
  /\ Unchanging /\ Halves
  /\ \A p \in boot.todo : p \in Pools /\ Reached(p)
  /\ \A p \in Brought : Registered(p)
  /\ \A p \in Spared : Balanced(p) /\ Supplied(p)

\* Absence is no pool's state.
LEMMA NotAbsent ==
  ASSUME NEW p \in Pools, NEW e, Alike(e, Found(p)) PROVE e # Absent
  <1>1. Absent.math.kind = "none"
    <2>1. Absent.math = [kind |-> "none"]
      BY DEF Absent
    <2>. QED
      BY <2>1
  <1>2. Found(p).math.kind # "none"
    BY StartupAssumption
  <1>. QED
    BY <1>1, <1>2 DEF Alike

\* A set with two different elements has at least two.
LEMMA TwoInIt ==
  ASSUME NEW S, IsFiniteSet(S), NEW x \in S, NEW y \in S, x # y
  PROVE  Cardinality(S) >= 2
  <1>1. IsFiniteSet({x}) /\ Cardinality({x}) = 1
    BY FS_Singleton
  <1>2. Cardinality({x} \cup {y}) = 2
    <2>1. y \notin {x}
      OBVIOUS
    <2>. QED
      BY <1>1, <2>1, FS_AddElement
  <1>3. Cardinality({x} \cup {y}) <= Cardinality(S) /\ Cardinality(S) \in Nat
    <2>1. {x} \cup {y} \in SUBSET S
      OBVIOUS
    <2>. QED
      BY <2>1, FS_Subset, FS_CardinalityType
  <1>. QED
    BY <1>2, <1>3

\* A mint that two pools of different DEXes have is one of several DEXes.
LEMMA TwoDexes ==
  ASSUME NEW p \in Pools, NEW q \in Pools, cache[p].dex # cache[q].dex,
         NEW mint \in Mints(cache[p]) \cap Mints(cache[q])
  PROVE  MultiDex(mint)
  <1> DEFINE R == {r \in Pools : mint \in {cache[r].a, cache[r].b}}
             D == {cache[r].dex : r \in R}
  <1>1. p \in R /\ q \in R
    BY DEF Mints
  <1>2. IsFiniteSet(R)
    BY StartupAssumption, FS_Subset
  <1>3. IsFiniteSet(D)
    <2> DEFINE f == [r \in R |-> cache[r].dex]
    <2>1. f \in Surjection(R, D)
      BY DEF Surjection
    <2>. QED
      BY <1>2, <2>1, FS_Surjection
  <1>4. Cardinality(D) >= 2
    BY <1>1, <1>3, TwoInIt
  <1>. QED
    BY <1>4 DEF MultiDex

\* A pool's state is written: what the pool is stays.
LEMMA WriteKeeps ==
  ASSUME Unchanging, NEW p \in Pools, NEW e, Alike(e, Found(p)),
         cache' = [cache EXCEPT ![p] = e]
  PROVE  /\ cache' = [q \in Pools |-> cache'[q]]
         /\ cache'[p] = e /\ \A q \in Pools \ {p} : cache'[q] = cache[q]
         /\ \A q \in Pools : cache'[q] = Absent \/ Alike(cache'[q], Found(q))
         /\ cache'[p] # Absent
  <1>1. /\ cache' = [q \in Pools |-> cache'[q]]
        /\ cache'[p] = e /\ \A q \in Pools \ {p} : cache'[q] = cache[q]
    BY DEF Unchanging
  <1>2. \A q \in Pools : cache'[q] = Absent \/ Alike(cache'[q], Found(q))
    BY <1>1 DEF Unchanging
  <1>. QED
    BY <1>1, <1>2, NotAbsent

\* The stream changes what a pool has, not what it is, and may take all of it only by an
\* insert, which marks the pool.
Keeps(old, new) ==
  /\ old.kind = "cp" => (old.a > 0 => new.a > 0) /\ (old.b > 0 => new.b > 0)
  /\ old.kind = "dlmm" /\ old.arrays # {} => new.arrays # {}

LEMMA WriteBoot ==
  ASSUME BootInv, Unchanging', UNCHANGED boot, undone \subseteq undone',
         NEW p \in Pools, NEW e, Alike(e, Found(p)), cache' = [cache EXCEPT ![p] = e],
         p \in Spared' /\ cache[p] # Absent => Keeps(cache[p].math, e.math)
  PROVE  BootInv'
  <1>1. /\ cache'[p] = e /\ \A q \in Pools \ {p} : cache'[q] = cache[q]
        /\ cache'[p] # Absent
    BY WriteKeeps DEF BootInv
  <1>2. Halves' /\ Brought' = Brought /\ Spared' \subseteq Spared
    BY DEF BootInv, Halves, Brought, Spared
  <1>3. ASSUME NEW q \in boot.todo PROVE q \in Pools /\ Reached(q)'
    <2>1. q \in Pools /\ Reached(q)
      BY DEF BootInv
    <2>2. CASE q = p
      <3>1. cache[q] # Absent => Alike(cache[q], Found(q))
        BY <2>1 DEF BootInv, Unchanging
      <3>. QED
        BY <1>1, <2>1, <2>2, <3>1 DEF Reached, Alike
    <2>3. CASE q # p
      BY <1>1, <2>1, <2>3 DEF Reached
    <2>. QED
      BY <2>1, <2>2, <2>3
  <1>4. ASSUME NEW q \in Brought PROVE Registered(q)'
    <2>1. q \in Pools /\ Registered(q)
      BY StartupAssumption DEF BootInv, Brought
    <2>. QED
      BY <1>1, <2>1 DEF Registered, After
  <1>5. ASSUME NEW q \in Spared' PROVE Balanced(q)' /\ Supplied(q)'
    <2>1. /\ q \in Pools /\ q \in Brought /\ q \in Spared
          /\ Registered(q) /\ Balanced(q) /\ Supplied(q)
      BY <1>2, StartupAssumption DEF BootInv, Brought, Spared
    <2>2. CASE q # p
      BY <1>1, <1>2, <2>1, <2>2 DEF Balanced, Supplied, Alone, After
    <2>3. CASE q = p /\ boot.phase = "pools"
      BY <2>3 DEF Balanced, Supplied, After
    <2>4. CASE q = p /\ boot.phase # "pools"
      <3>1. cache[q] # Absent
        BY <2>1, <2>4 DEF Registered, After, BootInv, Unchanging
      <3>2. Alike(cache[q], Found(q))
        BY <2>1, <3>1 DEF BootInv, Unchanging
      <3>3. cache'[q].math.kind = cache[q].math.kind /\ Keeps(cache[q].math, cache'[q].math)
        BY <1>1, <1>5, <2>4, <3>1, <3>2 DEF Alike
      <3>4. Balanced(q)'
        BY <2>1, <3>3 DEF Balanced, Keeps, After
      <3>5. Supplied(q)'
        BY <1>2, <2>1, <3>3 DEF Supplied, Keeps, After, Alone
      <3>. QED
        BY <3>4, <3>5
    <2>. QED
      BY <2>2, <2>3, <2>4
  <1>. QED
    BY <1>2, <1>3, <1>4, <1>5 DEF BootInv

\* What does not write the cache disturbs nothing.
LEMMA KeptBoot ==
  ASSUME BootInv, Unchanging', UNCHANGED <<cache, boot>>, undone \subseteq undone'
  PROVE  BootInv'
  <1>1. Brought' = Brought /\ Spared' \subseteq Spared
    BY DEF Brought, Spared
  <1>. QED
    BY <1>1 DEF BootInv, Halves, Reached, Registered, Balanced, Supplied, Alone, After

\* The updated state of a known pool: no balance and no array is lost.
LEMMA MergedKeeps ==
  ASSUME NEW p \in Pools, NEW e, NEW f, Alike(e, Found(p)), Alike(f, Found(p)),
         f.math.kind = "cp" => f.math.a \in Nat /\ f.math.b \in Nat
  PROVE  Alike(Updated(e, f), Found(p)) /\ Keeps(e.math, Updated(e, f).math)
  <1> DEFINE m == Merged(e.math, f.math)
             g == [e EXCEPT !.math = m, !.slot = f.slot]
  <1>1. Entry(e) /\ Entry(f) /\ e.math.kind = f.math.kind
    BY DEF Alike
  <1>2. g = Updated(e, f)
    <2>. HIDE DEF m
    <2>1. m = Merged(e.math, f.math)
      BY DEF m
    <2>. QED
      BY <1>1, <2>1 DEF Updated, Entry
  <1>3. /\ m.kind = e.math.kind /\ "kind" \in DOMAIN m
        /\ m.kind = "cp" => {"a", "b"} \subseteq DOMAIN m
        /\ m.kind = "dlmm" => "arrays" \in DOMAIN m
    BY <1>1 DEF Merged, Entry
  <1>4. Keeps(e.math, m)
    <2>1. CASE e.math.kind = "cp"
      <3>1. m.a = NonZero(f.math.a, e.math.a) /\ m.b = NonZero(f.math.b, e.math.b)
        BY <1>1, <2>1 DEF Merged, Entry
      <3>2. f.math.a \in Nat /\ f.math.b \in Nat
        BY <1>1, <2>1
      <3>. QED
        BY <2>1, <3>1, <3>2 DEF Keeps, NonZero
    <2>2. CASE e.math.kind = "dlmm"
      <3>1. m.arrays = e.math.arrays
        BY <1>1, <2>2 DEF Merged, Entry
      <3>. QED
        BY <2>2, <3>1 DEF Keeps
    <2>. QED
      BY <2>1, <2>2 DEF Keeps
  <1>. HIDE DEF m
  <1>5. g.math = m /\ g.a = e.a /\ g.b = e.b /\ g.dex = e.dex /\ DOMAIN g = DOMAIN e
    BY <1>1 DEF Entry
  <1>. HIDE DEF g
  <1>6. Alike(g, Found(p))
    BY <1>1, <1>3, <1>5 DEF Alike, Entry
  <1>. QED
    BY <1>2, <1>4, <1>5, <1>6

\* A balance is set, and nothing else is lost.
LEMMA BalanceKeeps ==
  ASSUME NEW p \in Pools, NEW e, Alike(e, Found(p)), NEW side, NEW n, NEW slot
  PROVE  LET f == WithBalance(e, side, n, slot)
         IN  /\ Alike(f, Found(p))
             /\ f.math.kind = e.math.kind
             /\ f.math.kind = "cp" =>
                  IF side = "a" THEN f.math.a = n /\ f.math.b = e.math.b
                  ELSE f.math.b = n /\ f.math.a = e.math.a
             /\ f.math.kind # "cp" => f.math = e.math
  <1> DEFINE m == IF e.math.kind # "cp" THEN e.math
                  ELSE IF side = "a" THEN [e.math EXCEPT !.a = n]
                  ELSE [e.math EXCEPT !.b = n]
             f == [e EXCEPT !.slot = slot, !.math = m]
  <1>1. Entry(e)
    BY DEF Alike
  <1>2. f = WithBalance(e, side, n, slot)
    BY <1>1 DEF WithBalance, Entry
  <1>3. /\ m.kind = e.math.kind /\ DOMAIN m = DOMAIN e.math
        /\ m.kind = "cp" => IF side = "a" THEN m.a = n /\ m.b = e.math.b
                            ELSE m.b = n /\ m.a = e.math.a
        /\ m.kind # "cp" => m = e.math
    BY <1>1 DEF Entry
  <1>. HIDE DEF m
  <1>4. f.math = m /\ f.a = e.a /\ f.b = e.b /\ f.dex = e.dex /\ DOMAIN f = DOMAIN e
    BY <1>1 DEF Entry
  <1>. HIDE DEF f
  <1>5. Alike(f, Found(p))
    BY <1>1, <1>3, <1>4 DEF Alike, Entry
  <1>. QED
    BY <1>2, <1>3, <1>4, <1>5

\* The stream, at any time: updates keep what is there, and an insert that does not marks
\* its pool.
LEMMA StreamBoot ==
  ASSUME Whole, BootInv, TaskTyped, Stream, Undoing, UNCHANGED boot PROVE BootInv'
  <1>1. TaskTyped' /\ undone \subseteq undone'
    BY StreamTyped DEF Undoing
  <1>2. ASSUME feed # <<>> PROVE Head(feed) \in Arrivals
    BY <1>2, Received DEF TaskTyped
  <1>3. ASSUME NEW p \in Pools, NEW e, Alike(e, Found(p)), cache' = [cache EXCEPT ![p] = e]
        PROVE  Unchanging'
    BY <1>1, <1>3, WriteKeeps DEF BootInv, Unchanging, TaskTyped
  <1>4. CASE UNCHANGED cache
    <2>1. Unchanging'
      BY <1>1, <1>4 DEF BootInv, Unchanging, TaskTyped
    <2>. QED
      BY <1>1, <1>4, <2>1, KeptBoot
  <1>5. CASE StreamWrites
    <2> DEFINE w == Head(feed)
               e == Updated(cache[w.pool], w.entry)
    <2>1. w \in Arrivals /\ w.part = "account" /\ w.pool \in Pools /\ cache[w.pool] # Absent
      BY <1>2, <1>5 DEF StreamWrites, Brings, Arrivals
    <2>2. cache' = [cache EXCEPT ![w.pool] = e]
      BY <1>5 DEF StreamWrites, BootInv, Unchanging
    <2>3. Alike(cache[w.pool], Found(w.pool)) /\ Alike(w.entry, Found(w.pool))
          /\ (w.entry.math.kind = "cp" => w.entry.math.a \in Nat /\ w.entry.math.b \in Nat)
      BY <2>1, StartupAssumption DEF BootInv, Unchanging
    <2>6. Alike(e, Found(w.pool)) /\ Keeps(cache[w.pool].math, e.math)
      <3>. HIDE DEF w
      <3>. QED
        BY <2>1, <2>3, MergedKeeps
    <2>. HIDE DEF e
    <2>7. Unchanging'
      BY <1>3, <2>1, <2>2, <2>6
    <2>. HIDE DEF w
    <2>. QED
      BY <1>1, <2>1, <2>2, <2>6, <2>7, WriteBoot
  <1>6. CASE StreamBalances /\ cache' # cache
    <2> DEFINE w == Head(feed)
               e == WithBalance(cache[w.pool], w.part, w.balance, w.slot)
    <2>1. /\ w \in Arrivals /\ w.part \in {"a", "b"} /\ w.pool \in Pools
          /\ cache[w.pool] # Absent /\ cache' = [cache EXCEPT ![w.pool] = e]
      BY <1>2, <1>6 DEF StreamBalances, Brings, Arrivals
    <2>2. Alike(cache[w.pool], Found(w.pool)) /\ w.balance > 0
      BY <2>1 DEF BootInv, Unchanging, Whole
    <2>3. /\ Alike(e, Found(w.pool)) /\ e.math.kind = cache[w.pool].math.kind
          /\ e.math.kind = "cp" =>
               IF w.part = "a" THEN e.math.a = w.balance /\ e.math.b = cache[w.pool].math.b
               ELSE e.math.b = w.balance /\ e.math.a = cache[w.pool].math.a
          /\ e.math.kind # "cp" => e.math = cache[w.pool].math
      BY <2>1, <2>2, BalanceKeeps
    <2>. HIDE DEF e
    <2>4. Keeps(cache[w.pool].math, e.math)
      BY <2>2, <2>3 DEF Keeps
    <2>5. Unchanging'
      BY <1>3, <2>1, <2>3
    <2>. HIDE DEF w
    <2>. QED
      BY <1>1, <2>1, <2>3, <2>4, <2>5, WriteBoot
  <1>7. ASSUME NEW h \in arriving, StreamShows(h) PROVE BootInv'
    <2> DEFINE p == h.of.pool
               e == h.of.entry
    <2>1. /\ h.of \in Arrivals /\ h.of.part = "account" /\ p \in Pools
          /\ cache' = [cache EXCEPT ![p] = e]
      BY <1>7 DEF StreamShows, TaskTyped, Handlers, Arrivals
    <2>2. /\ Alike(e, Found(p))
          /\ e.math.kind = "cp" => e.math.a \in Nat /\ e.math.b \in Nat
      BY <2>1, StartupAssumption
    <2>3. cache'[p] = e
      BY <2>1, <2>2, WriteKeeps DEF BootInv
    <2>4. undone' = undone \cup {q \in Pools : Emptied(cache[q].math, cache'[q].math)}
      BY <1>7 DEF Undoing, Shown
    <2>. HIDE DEF p, e
    <2>5. ASSUME p \in Spared', cache[p] # Absent PROVE Keeps(cache[p].math, e.math)
      <3>1. ~Emptied(cache[p].math, e.math)
        BY <2>1, <2>3, <2>4, <2>5 DEF Spared
      <3>2. cache[p].math.kind = e.math.kind
        BY <2>1, <2>2, <2>5 DEF BootInv, Unchanging, Alike
      <3>. QED
        BY <2>2, <3>1, <3>2 DEF Emptied, Keeps
    <2>6. Unchanging'
      BY <1>3, <2>1, <2>2
    <2>. QED
      BY <1>1, <2>1, <2>2, <2>5, <2>6, WriteBoot
  <1>. QED
    BY <1>4, <1>5, <1>6, <1>7 DEF Stream, StreamMeets, StreamInserts, Shown

\* A step of the bootstrap that writes no pool: what later phases have done is not
\* undone, and what a pool has in its way was not.
LEMMA QuietBoot ==
  ASSUME BootInv, UNCHANGED <<cache, feed, arriving>>, undone \subseteq undone',
         boot' = [phase |-> boot'.phase, todo |-> boot'.todo, half |-> boot'.half,
                  failed |-> boot'.failed],
         boot'.phase \in Phases, boot.failed \subseteq boot'.failed, Halves',
         \A p \in boot'.todo : p \in Pools /\ Reached(p)',
         \A p \in BootPools \ boot'.failed :
           /\ After(p, "pools", Phases \ {"pools"})' => After(p, "pools", Phases \ {"pools"})
           /\ After(p, "vaults", {"arrays", "emit", "armed"})'
                => After(p, "vaults", {"arrays", "emit", "armed"})
           /\ p \in boot'.half => boot.phase = "vaults" /\ p \in boot.half
           /\ After(p, "arrays", {"emit", "armed"})' =>
                After(p, "arrays", {"emit", "armed"}) \/ Supplied(p)'
  PROVE  BootInv'
  <1>1. Unchanging'
    BY DEF BootInv, Unchanging
  <1>2. ASSUME NEW p \in Brought' PROVE Registered(p)'
    BY DEF BootInv, Brought, Registered
  <1>3. ASSUME NEW p \in Spared' PROVE Balanced(p)' /\ Supplied(p)'
    <2>1. p \in BootPools \ boot'.failed /\ Balanced(p) /\ Supplied(p)
      BY DEF BootInv, Brought, Spared
    <2>2. Alone(p) => Alone(p)'
      BY DEF Alone, Brought
    <2>3. Balanced(p)'
      BY <2>1 DEF Balanced
    <2>4. Supplied(p)'
      BY <2>1, <2>2 DEF Supplied
    <2>. QED
      BY <2>3, <2>4
  <1>. QED
    BY <1>1, <1>2, <1>3 DEF BootInv

\* A call that fails takes its pool out of those the invariant is about.
LEMMA FailBoot ==
  ASSUME BootInv, NEW p \in Pools, BootFails(p) \/ BootVaultFails(p),
         UNCHANGED <<feed, arriving>>, undone \subseteq undone'
  PROVE  BootInv'
  <1>1. /\ boot'.phase = boot.phase /\ boot'.failed = boot.failed \cup {p} /\ p \in boot.todo
        /\ boot' = [phase |-> boot'.phase, todo |-> boot'.todo, half |-> boot'.half,
                    failed |-> boot'.failed]
        /\ UNCHANGED cache
    BY DEF BootFails, BootVaultFails, AfterVault, BootInv, Unchanging
  <1>2. \/ boot'.todo = boot.todo \ {p} /\ boot'.half = boot.half \ {p}
        \/ boot.phase = "vaults" /\ boot'.todo = boot.todo /\ boot'.half = boot.half \cup {p}
    <2>1. CASE BootFails(p)
      <3>1. boot'.todo = boot.todo \ {p} /\ boot'.half = boot.half /\ boot.phase # "vaults"
        BY <2>1 DEF BootFails, BootInv, Unchanging
      <3>2. boot.half = {}
        BY <3>1 DEF BootInv, Halves
      <3>. QED
        BY <3>1, <3>2
    <2>2. CASE BootVaultFails(p)
      BY <2>2 DEF BootVaultFails, AfterVault, Working, BootInv, Unchanging
    <2>. QED
      BY <2>1, <2>2
  <1>3. Halves'
    BY <1>1, <1>2 DEF BootInv, Halves
  <1>4. \A q \in boot'.todo : q \in Pools /\ Reached(q)'
    BY <1>1, <1>2 DEF BootInv, Reached
  <1>5. \A q \in BootPools \ boot'.failed :
           /\ q \in boot'.todo <=> q \in boot.todo
           /\ q \in boot'.half => boot.phase = "vaults" /\ q \in boot.half
    BY <1>1, <1>2 DEF BootInv, Halves
  <1>6. boot'.phase \in Phases
    BY <1>1 DEF BootInv, Unchanging
  <1>. QED
    BY <1>1, <1>3, <1>4, <1>5, <1>6, QuietBoot DEF After

\* A phase ends when it has done every pool, and the next one begins.
LEMMA PhaseBoot ==
  ASSUME BootInv, BootPhase2 \/ BootPhase4 \/ Arm, UNCHANGED <<feed, arriving>>, undone \subseteq undone'
  PROVE  BootInv'
  <1>1. UNCHANGED cache /\ boot'.failed = boot.failed /\ boot.todo = {}
        /\ boot' = [phase |-> boot'.phase, todo |-> boot'.todo, half |-> boot'.half,
                    failed |-> boot'.failed]
    BY DEF BootPhase2, BootPhase4, Arm, Passed, Enter, BootInv, Unchanging
  <1>halves. boot'.half = {} /\ Halves'
    <2>1. boot'.half = boot.half
      BY DEF BootPhase2, BootPhase4, Arm, Enter, BootInv, Unchanging
    <2>. QED
      BY <1>1, <2>1 DEF BootInv, Halves
  <1>2. \/ boot.phase = "pools" /\ boot'.phase = "vaults" /\ boot'.todo = Brought
        \/ boot.phase = "arrays" /\ boot'.phase = "emit" /\ boot'.todo \subseteq Pools
        \/ boot.phase = "emit" /\ boot'.phase = "armed" /\ boot'.todo = {}
    BY DEF BootPhase2, BootPhase4, Arm, Passed, Enter, BootInv, Unchanging, Brought
  <1>3. \A q \in Brought : q \in Pools /\ (boot.phase = "pools" => cache[q] # Absent)
    BY <1>1, StartupAssumption DEF BootInv, Registered, After, Brought
  <1>4. \A q \in boot'.todo : q \in Pools /\ Reached(q)'
    BY <1>1, <1>2, <1>3 DEF Reached
  <1>5. boot'.phase \in Phases
    BY <1>2 DEF Phases
  <1>6. \A q \in BootPools \ boot'.failed : q \in Brought
    BY <1>1 DEF Brought
  <1>7. \A q \in BootPools \ boot'.failed :
           /\ After(q, "pools", Phases \ {"pools"})' => After(q, "pools", Phases \ {"pools"})
           /\ After(q, "vaults", {"arrays", "emit", "armed"})'
                => After(q, "vaults", {"arrays", "emit", "armed"})
           /\ After(q, "arrays", {"emit", "armed"})' => After(q, "arrays", {"emit", "armed"})
    BY <1>1, <1>2, <1>6 DEF After, Phases
  <1>. QED
    BY <1>1, <1>halves, <1>4, <1>5, <1>7, QuietBoot

\* Phase 3 passes over a DLMM pool without arrays only if no pool of another DEX has one
\* of its mints.
LEMMA Phase3Boot ==
  ASSUME BootInv, BootPhase3, UNCHANGED <<feed, arriving>>, undone \subseteq undone' PROVE BootInv'
  <1>1. /\ UNCHANGED cache /\ boot.todo = {} /\ boot.phase = "vaults"
        /\ boot'.phase = "arrays" /\ boot'.failed = boot.failed
        /\ boot'.todo = {p \in Pools : NeedsArrays(p)}
        /\ boot' = [phase |-> boot'.phase, todo |-> boot'.todo, half |-> boot'.half,
                    failed |-> boot'.failed]
    BY DEF BootPhase3, Passed, Enter, BootInv, Unchanging
  <1>halves. boot'.half = {} /\ Halves'
    <2>1. boot'.half = boot.half
      BY DEF BootPhase3, Enter, BootInv, Unchanging
    <2>. QED
      BY <1>1, <2>1 DEF BootInv, Halves
  <1>2. \A q \in boot'.todo : q \in Pools /\ Reached(q)'
    <2>1. Absent.math.kind = "none"
      <3>1. Absent.math = [kind |-> "none"]
        BY DEF Absent
      <3>. QED
        BY <3>1
    <2>. QED
      BY <1>1, <2>1 DEF NeedsArrays, Reached
  <1>3. \A q \in Brought : q \in Pools /\ Alike(cache[q], Found(q))
    BY <1>1, StartupAssumption DEF BootInv, Unchanging, Registered, After, Brought, Phases
  <1>4. ASSUME NEW p \in Brought PROVE Supplied(p)'
    <2>1. SUFFICES ASSUME ~NeedsArrays(p), cache[p].math.kind = "dlmm",
                          cache[p].math.arrays = {},
                          NEW q \in Brought, Mints(Found(q)) \cap Mints(Found(p)) # {},
                          Found(q).dex # Found(p).dex
                   PROVE  FALSE
      BY <1>1, <1>3 DEF Supplied, After, Alone, Brought
    <2>2. /\ Mints(cache[p]) = Mints(Found(p)) /\ Mints(cache[q]) = Mints(Found(q))
          /\ cache[p].dex = Found(p).dex /\ cache[q].dex = Found(q).dex
      BY <1>3 DEF Mints, Alike
    <2>3. PICK mint \in Mints(cache[p]) : mint \in Mints(cache[q])
      BY <2>1, <2>2
    <2>4. MultiDex(mint)
      BY <1>3, <2>1, <2>2, <2>3, TwoDexes
    <2>. QED
      BY <2>1, <2>3, <2>4 DEF NeedsArrays, Mints
  <1>5. \A q \in BootPools \ boot'.failed :
           /\ After(q, "pools", Phases \ {"pools"})' => After(q, "pools", Phases \ {"pools"})
           /\ After(q, "vaults", {"arrays", "emit", "armed"})'
                => After(q, "vaults", {"arrays", "emit", "armed"})
    BY <1>1 DEF After, Phases
  <1>6. boot'.phase \in Phases
    BY <1>1 DEF Phases
  <1>7. BootPools \ boot'.failed = Brought
    BY <1>1 DEF Brought
  <1>. QED
    BY <1>1, <1>halves, <1>2, <1>4, <1>5, <1>6, <1>7, QuietBoot

\* A pool's turn: its state is e, and all there is to show is about it.
LEMMA TurnBoot ==
  ASSUME BootInv, NEW p \in boot.todo, UNCHANGED <<feed, arriving>>, undone \subseteq undone',
         boot' = [phase |-> boot.phase, todo |-> boot'.todo, half |-> boot'.half,
                  failed |-> boot.failed],
         boot'.todo \subseteq boot.todo, boot.todo \ {p} \subseteq boot'.todo,
         boot'.half \ {p} \subseteq boot.half, Halves',
         NEW e, cache' = [cache EXCEPT ![p] = e], Alike(e, Found(p)),
         p \in Spared => Balanced(p)' /\ Supplied(p)'
  PROVE  BootInv'
  <1>1. /\ boot'.phase = boot.phase /\ boot'.failed = boot.failed
        /\ boot' = [phase |-> boot'.phase, todo |-> boot'.todo, half |-> boot'.half,
                    failed |-> boot'.failed]
    OBVIOUS
  <1>2. p \in Pools
    BY DEF BootInv
  <1>3. /\ cache' = [q \in Pools |-> cache'[q]]
        /\ cache'[p] = e /\ \A q \in Pools \ {p} : cache'[q] = cache[q]
        /\ \A q \in Pools : cache'[q] = Absent \/ Alike(cache'[q], Found(q))
        /\ cache'[p] # Absent
    BY <1>2, WriteKeeps DEF BootInv
  <1>4. Unchanging'
    BY <1>1, <1>3 DEF BootInv, Unchanging
  <1>5. ASSUME NEW q \in boot'.todo PROVE q \in Pools /\ Reached(q)'
    <2>1. q \in Pools /\ Reached(q)
      BY DEF BootInv
    <2>2. CASE q # p
      BY <1>1, <1>3, <2>1, <2>2 DEF Reached
    <2>3. CASE q = p
      <3>1. cache[q] # Absent => Alike(cache[q], Found(q))
        BY <2>1 DEF BootInv, Unchanging
      <3>. QED
        BY <1>1, <1>3, <2>1, <2>3, <3>1 DEF Reached, Alike
    <2>. QED
      BY <2>1, <2>2, <2>3
  <1>6. ASSUME NEW q \in Brought' PROVE Registered(q)'
    <2>1. q \in Pools /\ Registered(q)
      BY <1>1, StartupAssumption DEF BootInv, Brought
    <2>. QED
      BY <1>1, <1>3, <2>1 DEF Registered, After
  <1>7. ASSUME NEW q \in Spared' PROVE Balanced(q)' /\ Supplied(q)'
    <2>1. q \in Spared /\ q \in Pools /\ Balanced(q) /\ Supplied(q)
      BY <1>1, StartupAssumption DEF BootInv, Brought, Spared
    <2>2. CASE q # p
      <3>1. Alone(q) => Alone(q)'
        BY <1>1 DEF Alone, Brought
      <3>2. Balanced(q)'
        BY <1>1, <1>3, <2>1, <2>2 DEF Balanced, After
      <3>3. Supplied(q)'
        BY <1>1, <1>3, <2>1, <2>2, <3>1 DEF Supplied, After
      <3>. QED
        BY <3>2, <3>3
    <2>. QED
      BY <2>1, <2>2
  <1>. QED
    BY <1>4, <1>5, <1>6, <1>7 DEF BootInv

\* A pool that is done leaves a phase that has no halves.
LEMMA FinishedTurn ==
  ASSUME BootInv, NEW p \in boot.todo, Finished(p), boot.phase # "vaults"
  PROVE  /\ boot' = [phase |-> boot.phase, todo |-> boot'.todo, half |-> boot'.half,
                     failed |-> boot.failed]
         /\ boot'.todo = boot.todo \ {p} /\ boot'.half = {} /\ Halves'
  <1>1. boot.half = {}
    BY DEF BootInv, Halves
  <1>. QED
    BY <1>1 DEF Finished, BootInv, Unchanging, Halves

\* Phase 1 keeps what the stream has brought.
LEMMA RegisterBoot ==
  ASSUME BootInv, NEW p \in Pools, BootRegister(p),
         UNCHANGED <<feed, arriving>>, undone \subseteq undone'
  PROVE  BootInv'
  <1> DEFINE e == IF cache[p] = Absent THEN Found(p) ELSE cache[p]
  <1>1. p \in boot.todo /\ Finished(p) /\ boot.phase = "pools"
    BY DEF BootRegister, Working
  <1>2. cache' = [cache EXCEPT ![p] = e]
    BY DEF BootRegister, BootInv, Unchanging
  <1>3. Alike(e, Found(p))
    BY StartupAssumption DEF BootInv, Unchanging
  <1>4. Balanced(p)' /\ Supplied(p)'
    <2>1. boot'.phase = "pools"
      BY <1>1 DEF Finished, BootInv, Unchanging
    <2>. QED
      BY <2>1 DEF Balanced, Supplied, After
  <1>. HIDE DEF e
  <1>. QED
    BY <1>1, <1>2, <1>3, <1>4, FinishedTurn, TurnBoot

\* Phase 2 brings the balances of a constant-product pool, one by one: when the second is
\* there the first has not gone.
LEMMA VaultsBoot ==
  ASSUME Whole, BootInv, NEW p \in Pools, BootVault(p),
         UNCHANGED <<feed, arriving>>, undone \subseteq undone'
  PROVE  BootInv'
  <1> DEFINE e == WithBalance(cache[p], VaultOf(p), Balance(OnChain(p).math, VaultOf(p)), OnChain(p).slot)
  <1>1. p \in boot.todo /\ boot' = AfterVault(p) /\ boot.phase = "vaults"
    BY DEF BootVault, Working
  <1>2. Alike(cache[p], Found(p))
    BY <1>1 DEF BootInv, Unchanging, Reached
  <1>3. cache' = [cache EXCEPT ![p] = e]
    BY DEF BootVault, BootInv, Unchanging
  <1>4. /\ Alike(e, Found(p)) /\ e.math.kind = cache[p].math.kind
        /\ e.math.kind = "cp" =>
             IF VaultOf(p) = "a"
             THEN e.math.a = Balance(OnChain(p).math, VaultOf(p)) /\ e.math.b = cache[p].math.b
             ELSE e.math.b = Balance(OnChain(p).math, VaultOf(p)) /\ e.math.a = cache[p].math.a
    BY <1>2, BalanceKeeps
  <1>. HIDE DEF e
  <1>5. cache'[p] = e
    BY <1>3, <1>4, WriteKeeps DEF BootInv
  <1>6. /\ boot'.phase = "vaults" /\ boot'.failed = boot.failed
        /\ boot' = [phase |-> boot.phase, todo |-> boot'.todo, half |-> boot'.half,
                    failed |-> boot.failed]
        /\ IF p \in boot.half THEN boot'.todo = boot.todo \ {p} /\ boot'.half = boot.half \ {p}
           ELSE boot'.todo = boot.todo /\ boot'.half = boot.half \cup {p}
    BY <1>1 DEF AfterVault, BootInv, Unchanging
  <1>7. Halves'
    BY <1>1, <1>6 DEF BootInv, Halves
  <1>8. ASSUME p \in Spared PROVE Balanced(p)' /\ Supplied(p)'
    <2>1. Balanced(p)
      BY <1>8 DEF BootInv
    <2>2. ASSUME cache[p].math.kind = "cp"
          PROVE  OnChain(p).math.a > 0 /\ OnChain(p).math.b > 0
      BY <1>2, <2>2 DEF Whole, Alike
    <2>3. CASE p \in boot.half
      <3>1. VaultOf(p) = "b" /\ Balance(OnChain(p).math, "b") = OnChain(p).math.b
        BY <2>3 DEF VaultOf, Balance
      <3>2. p \notin boot'.half
        BY <1>6, <2>3
      <3>. QED
        BY <1>1, <1>4, <1>5, <1>6, <2>1, <2>2, <2>3, <3>1, <3>2
           DEF Balanced, Supplied, After
    <2>4. CASE p \notin boot.half
      <3>1. VaultOf(p) = "a" /\ Balance(OnChain(p).math, "a") = OnChain(p).math.a
        BY <2>4 DEF VaultOf, Balance
      <3>2. p \in boot'.todo
        BY <1>1, <1>6, <2>4
      <3>. QED
        BY <1>1, <1>4, <1>5, <1>6, <2>2, <3>1, <3>2 DEF Balanced, Supplied, After
    <2>. QED
      BY <2>3, <2>4
  <1>9. /\ boot'.todo \subseteq boot.todo /\ boot.todo \ {p} \subseteq boot'.todo
        /\ boot'.half \ {p} \subseteq boot.half
    BY <1>6
  <1>. QED
    BY <1>1, <1>3, <1>4, <1>6, <1>7, <1>8, <1>9, TurnBoot

\* Phase 3 brings the arrays of a DLMM pool.
LEMMA ArraysBoot ==
  ASSUME Whole, BootInv, NEW p \in Pools, BootArrays(p),
         UNCHANGED <<feed, arriving>>, undone \subseteq undone'
  PROVE  BootInv'
  <1> DEFINE m == [cache[p].math EXCEPT !.arrays = OnChain(p).math.arrays]
             e == [cache[p] EXCEPT !.math = m, !.listed = OnChain(p).listed]
  <1>1. p \in boot.todo /\ Finished(p) /\ boot.phase = "arrays"
    BY DEF BootArrays, Working
  <1>2. Alike(cache[p], Found(p)) /\ cache[p].math.kind = "dlmm"
    BY <1>1 DEF BootInv, Unchanging, Reached
  <1>3. Entry(cache[p]) /\ OnChain(p).math.arrays # {}
    BY <1>2 DEF Alike, Whole
  <1>4. cache' = [cache EXCEPT ![p] = e]
    BY <1>3 DEF BootArrays, Entry, BootInv, Unchanging
  <1>5. m.kind = "dlmm" /\ DOMAIN m = DOMAIN cache[p].math /\ m.arrays = OnChain(p).math.arrays
    BY <1>2, <1>3 DEF Entry
  <1>6. e.math = m /\ e.a = cache[p].a /\ e.b = cache[p].b /\ e.dex = cache[p].dex
        /\ DOMAIN e = DOMAIN cache[p]
    <2>. HIDE DEF m
    <2>. QED
      BY <1>3 DEF Entry
  <1>. HIDE DEF m, e
  <1>7. Alike(e, Found(p))
    BY <1>2, <1>5, <1>6 DEF Alike, Entry
  <1>8. Balanced(p)' /\ Supplied(p)'
    <2>1. cache'[p] = e
      BY <1>4, <1>7, WriteKeeps DEF BootInv
    <2>. QED
      BY <1>3, <1>5, <1>6, <2>1 DEF Balanced, Supplied
  <1>. QED
    BY <1>1, <1>4, <1>7, <1>8, FinishedTurn, TurnBoot

\* Phase 4 writes no pool.
LEMMA ReemitBoot ==
  ASSUME BootInv, NEW p \in Pools, Reemit(p),
         UNCHANGED <<feed, arriving>>, undone \subseteq undone'
  PROVE  BootInv'
  <1>1. p \in boot.todo /\ Finished(p) /\ boot.phase = "emit" /\ UNCHANGED cache
    BY DEF Reemit, Working
  <1>2. /\ boot' = [phase |-> boot.phase, todo |-> boot'.todo, half |-> boot'.half,
                    failed |-> boot.failed]
        /\ boot'.todo = boot.todo \ {p} /\ boot'.half = {} /\ Halves'
    BY <1>1, FinishedTurn
  <1>3. \A q \in boot'.todo : q \in Pools /\ Reached(q)'
    BY <1>1, <1>2 DEF BootInv, Reached
  <1>. QED
    BY <1>1, <1>2, <1>3, QuietBoot DEF After, Phases

\* When the scanner is armed the bootstrap's pools are complete: the invariant the Startup
\* run checks, for any order of the queries, any update and insert of the stream and any
\* failed call; the pools it excludes are those of a failed call and those that the insert
\* of a handler emptied.
THEOREM CompleteWhenArmed == ASSUME Whole PROVE Spec => []ArmedComplete
  <1>1. BootInv => ArmedComplete
    <2> SUFFICES ASSUME BootInv, boot.phase = "armed", NEW p \in Spared
                 PROVE  /\ cache[p].math.kind = "cp" => cache[p].math.a > 0 /\ cache[p].math.b > 0
                        /\ cache[p].math.kind = "dlmm" /\ cache[p].math.arrays = {} =>
                             \A q \in Brought :
                               Mints(cache[q]) \cap Mints(cache[p]) # {} =>
                                 cache[q].dex = cache[p].dex
      <3>1. Spared = BootPools \ (boot.failed \cup undone)
        BY DEF Spared, Brought
      <3>. QED
        BY <3>1 DEF ArmedComplete, Brought
    <2>1. \A q \in Brought : Alike(cache[q], Found(q))
      BY StartupAssumption DEF BootInv, Unchanging, Registered, After, Brought, Phases
    <2>2. Balanced(p) /\ Supplied(p) /\ p \in Brought
      BY DEF BootInv, Spared
    <2>. QED
      BY <2>1, <2>2 DEF Balanced, Supplied, After, Alone, Mints, Alike
  <1>2. Init => TaskTyped /\ BootInv
    <2> SUFFICES ASSUME Init PROVE BootInv
      BY StartupInit DEF StartupInv
    <2>1. /\ boot = [phase |-> "pools", todo |-> BootPools, half |-> {}, failed |-> {}]
          /\ cache = [p \in Pools |-> Absent] /\ feed \in Seq(Arrivals) /\ arriving = {}
      BY FeedsAssumption DEF Init, ArbStreamInit, BootInit
    <2>2. boot.phase = "pools" /\ boot.todo = BootPools /\ boot.half = {} /\ boot.failed = {}
      BY <2>1
    <2>3. Unchanging /\ Halves
      BY <2>1, <2>2 DEF Unchanging, Halves, Phases
    <2>4. \A p \in boot.todo : p \in Pools /\ Reached(p)
      BY <2>2, StartupAssumption DEF Reached
    <2>5. \A p \in Brought : Registered(p) /\ Balanced(p) /\ Supplied(p)
      BY <2>2 DEF Registered, Balanced, Supplied, After, Brought
    <2>. QED
      BY <2>3, <2>4, <2>5 DEF BootInv, Spared
  <1>3. TaskTyped /\ BootInv /\ [Next]_vars => TaskTyped' /\ BootInv'
    <2> SUFFICES ASSUME TaskTyped, BootInv, [Next]_vars PROVE TaskTyped' /\ BootInv'
      OBVIOUS
    <2>1. CASE ScannerStep /\ UNCHANGED <<boot, streamVars>> /\ Undoing
      <3>1. UNCHANGED cache /\ undone \subseteq undone'
        BY <2>1 DEF ScannerStep, Handle, TakeBatch, Begin, Compare, Clean, Undoing
      <3>2. Unchanging'
        BY <2>1, <3>1 DEF BootInv, Unchanging, streamVars
      <3>. QED
        BY <2>1, <3>1, <3>2, KeptBoot, ScannerTyped DEF streamVars
    <2>2. CASE BootNext /\ UNCHANGED streamVars /\ Undoing
      <3>1. undone \subseteq undone' /\ UNCHANGED <<feed, arriving>>
        BY <2>2 DEF Undoing, streamVars
      <3>2. TaskTyped'
        BY <2>2, OthersGrow
      <3>. QED
        BY <2>2, <3>1, <3>2, RegisterBoot, VaultsBoot, ArraysBoot, ReemitBoot, PhaseBoot, Phase3Boot,
           FailBoot DEF BootNext, BootStep
    <2>3. CASE Stream /\ UNCHANGED boot /\ Undoing
      BY <2>3, StreamBoot, StreamTyped
    <2>4. CASE UNCHANGED vars
      <3>1. Unchanging' /\ undone \subseteq undone'
        BY <2>4 DEF vars, streamVars, BootInv, Unchanging
      <3>2. TaskTyped'
        BY <2>4 DEF vars, streamVars, scanVars, TaskTyped
      <3>. QED
        BY <2>4, <3>1, <3>2, KeptBoot DEF vars
    <2>. QED
      BY <2>1, <2>2, <2>3, <2>4 DEF Next
  <1>. QED
    BY <1>1, <1>2, <1>3, PTL DEF Spec
=============================================================================
