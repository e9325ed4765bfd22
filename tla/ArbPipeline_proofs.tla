-------------------------- MODULE ArbPipeline_proofs ---------------------------
(* What the seconds counted by the pair table, the rate limit and the refresh add   *)
(* up to: no pair is offered twice within PairSecs, and nothing is sent with a     *)
(* blockhash older than the refresher's sleeps and calls explain.                  *)
EXTENDS ArbPipeline, ArbStream_proofs

\* The table is behind the clock by no pair: what it has forgotten was offered long ago.
TableBehind ==
  /\ gap \in [Pairs -> 0..PairSecs] /\ recent \in [DOMAIN recent -> 0..KeepSecs]
  /\ \A k \in Pairs :
       gap[k] >= PairSecs \/ (k \in DOMAIN recent /\ recent[k] <= gap[k])

\* The opportunities that wait are a sequence, whatever they are.
Sequential == opps \in Seq(Range(opps))

SpacedInv == TaskTyped /\ TableBehind /\ Sequential

\* The clocks of the executor: a blockhash is as old as the sleeps whose call failed
\* since it was written, the time all calls took since then, and the sleep that is under
\* way or over; what waits for the rate limit has grown older only as long as the limit
\* was waited for.
SentInv ==
  /\ tx = [opp |-> tx.opp, lag |-> tx.lag, misses |-> tx.misses, waited |-> tx.waited]
  /\ tx.lag \in Nat /\ tx.misses \in Nat /\ tx.waited \in Nat
  /\ tx.lag <= RefreshEvery * (1 + tx.misses) + tx.waited + since

HashInv ==
  /\ since \in 0..SendEvery /\ refresh \in 0..RefreshEvery
  /\ misses \in Nat /\ waited \in Nat /\ hashLag \in Nat
  /\ asking => refresh = RefreshEvery
  /\ hashLag <= RefreshEvery * misses + waited + refresh
  /\ at = "wait" => SentInv

-----------------------------------------------------------------------------
(* The executor's clocks.                                                     *)

\* A blockhash's age grows with the calls that failed: the products that bound it.
LEMMA Products ==
  ASSUME NEW r \in Nat, NEW n \in Nat
  PROVE  /\ r * n \in Nat /\ r * (1 + n) \in Nat /\ r * (1 + (n + 1)) \in Nat
         /\ r * (1 + n) = r * n + r /\ r * (n + 1) = r * n + r
         /\ r * (1 + (n + 1)) = r * (1 + n) + r
  OBVIOUS

LEMMA HashInit == Init => HashInv
  <1> SUFFICES ASSUME Init PROVE HashInv
    OBVIOUS
  <1>1. /\ at = "start" /\ since = SendEvery /\ hashLag = 0 /\ refresh = 0
        /\ asking = FALSE /\ misses = 0 /\ waited = 0
    BY DEF Init, ExecutorInit
  <1>2. RefreshEvery \in Nat /\ SendEvery \in Nat
    BY ExecutorAssumption
  <1>. QED
    BY <1>1, <1>2, Products DEF HashInv

\* A new blockhash has nothing to explain, and a call that fails adds the sleep before it.
LEMMA RefreshHash ==
  ASSUME HashInv, RefreshStep PROVE HashInv'
  <1>1. RefreshEvery \in Nat /\ SendEvery \in Nat /\ misses \in Nat
    BY ExecutorAssumption DEF HashInv
  <1>2. /\ RefreshEvery * misses \in Nat /\ RefreshEvery * 0 = 0
        /\ RefreshEvery * (misses + 1) = RefreshEvery * misses + RefreshEvery
    BY <1>1, Products
  <1>3. UNCHANGED <<at, tx, since>>
    BY DEF RefreshStep, RefreshCopies, RefreshAsks, RefreshAnswered
  <1>4. at' = "wait" => SentInv'
    BY <1>3 DEF HashInv, SentInv
  <1>5. CASE Written /\ asking' = FALSE
    BY <1>1, <1>2, <1>3, <1>4, <1>5 DEF HashInv, Written
  <1>6. CASE RefreshCopies
    <2>1. Written /\ asking' = FALSE
      BY <1>6 DEF RefreshCopies, Slept
    <2>. QED
      BY <1>5, <2>1
  <1>7. CASE RefreshAsks
    <2>1. refresh = RefreshEvery /\ UNCHANGED <<hashLag, refresh, misses, waited>>
      BY <1>1, <1>7 DEF RefreshAsks, Slept, HashInv
    <2>. QED
      BY <1>1, <1>3, <1>4, <2>1 DEF HashInv
  <1>8. CASE RefreshAnswered /\ ~Written
    <2>1. /\ asking /\ asking' = FALSE /\ misses' = misses + 1 /\ refresh' = 0
          /\ UNCHANGED <<hashLag, waited>>
      BY <1>8 DEF RefreshAnswered, Awaits
    <2>2. hashLag' <= RefreshEvery * misses' + waited' + refresh'
      BY <1>1, <1>2, <2>1 DEF HashInv
    <2>. QED
      BY <1>1, <1>3, <1>4, <2>1, <2>2 DEF HashInv
  <1>. QED
    BY <1>5, <1>6, <1>7, <1>8 DEF RefreshStep, RefreshAnswered

\* The executor's own steps leave the refresher's clocks alone; what is signed is no
\* older than the blockhash.
LEMMA LoopHash ==
  ASSUME HashInv, Start \/ Discard \/ Build \/ SendAll PROVE HashInv'
  <1>1. RefreshEvery \in Nat /\ SendEvery \in Nat /\ misses \in Nat /\ waited \in Nat
    BY ExecutorAssumption DEF HashInv
  <1>2. UNCHANGED refreshVars
    BY DEF Start, Discard, Build, SendAll
  <1>3. SUFFICES since' \in 0..SendEvery /\ (at' = "wait" => SentInv')
    BY <1>2 DEF HashInv, refreshVars
  <1>4. CASE Start \/ SendAll
    BY <1>1, <1>4 DEF HashInv, Start, SendAll
  <1>5. CASE Discard
    BY <1>5 DEF HashInv, SentInv, Discard
  <1>6. CASE Build
    <2> DEFINE p == RefreshEvery * misses
               q == RefreshEvery * (1 + misses)
    <2>1. /\ UNCHANGED since
          /\ tx' = [opp |-> Head(opps), lag |-> hashLag, misses |-> misses, waited |-> waited]
      BY <1>6 DEF Build
    <2>2. /\ tx' = [opp |-> tx'.opp, lag |-> tx'.lag, misses |-> tx'.misses, waited |-> tx'.waited]
          /\ tx'.lag = hashLag /\ tx'.misses = misses /\ tx'.waited = waited
      BY <2>1
    <2>3. /\ p \in Nat /\ q \in Nat /\ q = p + RefreshEvery
          /\ hashLag <= p + waited + refresh /\ hashLag \in Nat
          /\ since \in 0..SendEvery /\ refresh \in 0..RefreshEvery
      BY <1>1, Products DEF HashInv
    <2>4. hashLag <= q + waited + since
      <3>. HIDE DEF p, q
      <3>. QED
        BY <1>1, <2>3
    <2>5. tx'.lag <= RefreshEvery * (1 + tx'.misses) + tx'.waited + since'
      BY <2>1, <2>2, <2>4
    <2>. QED
      BY <1>1, <2>1, <2>2, <2>3, <2>5 DEF SentInv
  <1>. QED
    BY <1>4, <1>5, <1>6

\* A second passes only when nothing is due: what waits for the rate limit grows older
\* with the limit's clock, and the blockhash with the refresher's sleep or its call.
LEMMA SecondHash ==
  ASSUME HashInv, ExecutorSecond PROVE HashInv'
  <1>1. RefreshEvery \in Nat /\ SendEvery \in Nat /\ misses \in Nat /\ misses' = misses
    BY ExecutorAssumption DEF HashInv, ExecutorSecond
  <1>2. RefreshEvery * misses \in Nat
    BY <1>1, Products
  <1>3. since' \in 0..SendEvery /\ since' = IF since < SendEvery THEN since + 1 ELSE since
    BY <1>1 DEF HashInv, ExecutorSecond
  <1>4. /\ refresh' \in 0..RefreshEvery /\ hashLag' \in Nat /\ waited' \in Nat
        /\ asking' = asking /\ (asking => refresh' = refresh)
    BY <1>1 DEF HashInv, ExecutorSecond, Due, Slept, Awaits
  <1>5. hashLag' <= RefreshEvery * misses + waited' + refresh'
    <2> DEFINE p == RefreshEvery * misses
    <2>1. p \in Nat /\ hashLag <= p + waited + refresh /\ hashLag \in Nat /\ waited \in Nat
          /\ refresh \in Nat
      BY <1>1, <1>2 DEF HashInv
    <2>2. \/ hashLag' = hashLag /\ waited' = waited /\ refresh' = refresh
          \/ hashLag' = hashLag + 1 /\ waited' = waited /\ refresh' = refresh + 1
          \/ hashLag' = hashLag + 1 /\ waited' = waited + 1 /\ refresh' = refresh
      BY DEF ExecutorSecond, Awaits, HashInv
    <2>. HIDE DEF p
    <2>3. hashLag' <= p + waited' + refresh'
      BY <2>1, <2>2
    <2>. QED
      BY <2>3 DEF p
  <1>6. ASSUME at' = "wait" PROVE SentInv'
    <2>1. at = "wait" /\ since < SendEvery /\ since \in Nat
      BY <1>6, <1>1 DEF ExecutorSecond, Due, HashInv
    <2>2. /\ tx' = [opp |-> tx.opp, lag |-> tx.lag + 1, misses |-> tx.misses, waited |-> tx.waited]
          /\ tx.lag \in Nat /\ tx.misses \in Nat /\ tx.waited \in Nat
          /\ tx.lag <= RefreshEvery * (1 + tx.misses) + tx.waited + since
      BY <2>1 DEF HashInv, SentInv, ExecutorSecond
    <2>3. RefreshEvery * (1 + tx.misses) \in Nat
      BY <1>1, <2>2, Products
    <2>. DEFINE q == RefreshEvery * (1 + tx.misses)
    <2>4. q \in Nat /\ tx.lag <= q + tx.waited + since
      BY <2>2, <2>3
    <2>5. /\ tx'.lag = tx.lag + 1 /\ tx'.misses = tx.misses /\ tx'.waited = tx.waited
          /\ tx' = [opp |-> tx'.opp, lag |-> tx'.lag, misses |-> tx'.misses, waited |-> tx'.waited]
          /\ since' = since + 1
      BY <1>3, <2>1, <2>2
    <2>6. tx.lag + 1 <= q + tx.waited + since'
      <3>. HIDE DEF q
      <3>. QED
        BY <2>1, <2>2, <2>4, <2>5
    <2>. QED
      BY <2>2, <2>5, <2>6 DEF SentInv
  <1>. QED
    BY <1>1, <1>3, <1>4, <1>5, <1>6 DEF HashInv

\* The clocks are the executor's alone.
LEMMA StepHash ==
  ASSUME HashInv, [Next]_vars PROVE HashInv'
  <1>1. ASSUME UNCHANGED execVars PROVE HashInv'
    BY <1>1 DEF HashInv, SentInv, execVars
  <1>2. CASE Next
    BY <1>1, <1>2, RefreshHash, LoopHash, SecondHash
       DEF Next, Scan, Feeding, Execute, ExecutorStep, Second
  <1>3. CASE UNCHANGED vars
    BY <1>1, <1>3 DEF vars
  <1>. QED
    BY <1>2, <1>3

\* What is sent carries a blockhash whose age the rate limit, a sleep of the refresher and
\* the calls since it was written explain, however long these took and however many of
\* them failed: the property the Arbitrage run checks on the clocks of its instance.
THEOREM HashYoung == Spec => []HashFresh
  <1>1. HashInv => HashFresh
    <2> SUFFICES ASSUME HashInv, at = "wait"
                 PROVE  tx.lag <= RefreshEvery * (1 + tx.misses) + tx.waited + SendEvery
      BY DEF HashFresh
    <2> DEFINE q == RefreshEvery * (1 + tx.misses)
    <2>1. /\ tx.lag \in Nat /\ tx.misses \in Nat /\ tx.waited \in Nat
          /\ tx.lag <= q + tx.waited + since
      BY DEF HashInv, SentInv
    <2>2. SendEvery \in Nat /\ since \in 0..SendEvery /\ q \in Nat
      BY <2>1, ExecutorAssumption, Products DEF HashInv
    <2>. HIDE DEF q
    <2>3. tx.lag <= q + tx.waited + SendEvery
      BY <2>1, <2>2
    <2>. QED
      BY <2>3 DEF q
  <1>2. Init => HashInv
    BY HashInit
  <1>3. HashInv /\ [Next]_vars => HashInv'
    BY StepHash
  <1>. QED
    BY <1>1, <1>2, <1>3, PTL DEF Spec

-----------------------------------------------------------------------------
(* The scanner's table of pairs.                                              *)

\* The stages start with nothing in hand, and every pair as if offered long ago.
LEMMA SpacedInit == Init => SpacedInv
  <1> SUFFICES ASSUME Init PROVE SpacedInv
    OBVIOUS
  <1>1. /\ feed \in Feeds /\ arriving = {} /\ updates = <<>> /\ opps = <<>> /\ task = Resting
        /\ recent = [k \in {} |-> 0] /\ gap = [k \in Pairs |-> PairSecs]
    BY DEF Init, ArbStreamInit, ScannerInit
  <1>2. TaskTyped
    BY <1>1, FeedsAssumption DEF TaskTyped, Resting
  <1>3. TableBehind
    BY <1>1, ScannerAssumption DEF TableBehind
  <1>4. Sequential
    BY <1>1 DEF Sequential, Range
  <1>. QED
    BY <1>2, <1>3, <1>4 DEF SpacedInv

\* A step that offers nothing leaves the clock of every pair as it is.
LEMMA NothingOffered ==
  ASSUME Sequential, Spacing, UNCHANGED opps PROVE UNCHANGED gap /\ ~(Len(opps') > Len(opps))
  BY DEF Sequential, Spacing

\* What is offered has not been for long: the table would have said so.  The pair is
\* recorded whether or not it can be built or the channel takes it.
LEMMA CompareSpaced ==
  ASSUME NEW q \in Pools, SpacedInv, Compare(q), Spacing
  PROVE  /\ TableBehind' /\ Sequential'
         /\ Len(opps') > Len(opps) => gap[opps'[Len(opps')].pair] >= PairSecs
  <1> DEFINE first == BuysFrom(task.a, cache[q])
             buy   == IF first THEN task.a ELSE cache[q]
             sell  == IF first THEN cache[q] ELSE task.a
             pair  == IF first THEN <<task.trig, q>> ELSE <<q, task.trig>>
             o     == Opportunity(pair[1], pair[2], buy, sell)
             now   == [k \in DOMAIN recent \cup {pair} |-> IF k = pair THEN 0 ELSE recent[k]]
  <1>1. CASE UNCHANGED <<recent, opps>>
    BY <1>1, NothingOffered DEF SpacedInv, TableBehind, Sequential
  <1>2. CASE /\ ~Suppressed(pair) /\ recent' = now
             /\ opps' = opps \/ opps' = Offered(opps, OfferCap, o)
    <2>1. pair \in Pairs /\ o.pair = pair
      BY DEF Compare, SpacedInv, TaskTyped, Pairs, Opportunity
    <2>2. PairSecs \in Nat /\ KeepSecs \in Nat
      BY ScannerAssumption
    <2>3. gap[pair] >= PairSecs
      BY <1>2, <2>1, <2>2 DEF SpacedInv, TableBehind, Suppressed
    <2>4. Sequential'
      <3>1. opps' \in Seq(Range(opps)) \/ opps' \in Seq(Range(opps) \cup {o})
        BY <1>2, OfferedTo DEF SpacedInv, Sequential
      <3>. QED
        BY <3>1, OverRange DEF Sequential
    <2>5. ASSUME Len(opps') > Len(opps) PROVE opps'[Len(opps')].pair = pair
      <3>1. opps' # opps
        BY <2>5 DEF SpacedInv, Sequential
      <3>2. opps'[Len(opps')] = o
        <4>. HIDE DEF o
        <4>1. opps' = Offered(opps, OfferCap, o) /\ opps \in Seq(Range(opps))
          BY <1>2, <3>1 DEF SpacedInv, Sequential
        <4>. QED
          BY <4>1, <2>5, OfferedTo
      <3>. QED
        BY <2>1, <3>2
    <2>6. /\ gap' \in [Pairs -> 0..PairSecs]
          /\ \A k \in Pairs \ {pair} : gap'[k] = gap[k]
      BY <2>1, <2>2, <2>5 DEF SpacedInv, TableBehind, Spacing
    <2>7. TableBehind'
      <3>1. recent' \in [DOMAIN recent' -> 0..KeepSecs] /\ DOMAIN recent' = DOMAIN recent \cup {pair}
        BY <1>2, <2>2 DEF SpacedInv, TableBehind
      <3>2. ASSUME NEW k \in Pairs
            PROVE  gap'[k] >= PairSecs \/ (k \in DOMAIN recent' /\ recent'[k] <= gap'[k])
        <4>1. CASE k = pair
          BY <1>2, <2>2, <2>6, <3>1, <4>1
        <4>2. CASE k # pair
          BY <1>2, <2>2, <2>6, <3>1, <4>2 DEF SpacedInv, TableBehind
        <4>. QED
          BY <4>1, <4>2
      <3>. QED
        BY <2>6, <3>1, <3>2 DEF TableBehind
    <2>. QED
      BY <2>3, <2>4, <2>5, <2>7
  <1>. QED
    BY <1>1, <1>2 DEF Compare

\* The cleanup forgets only pairs that were offered long ago.
LEMMA CleanSpaced ==
  ASSUME SpacedInv, Clean, UNCHANGED gap PROVE TableBehind'
  <1>1. PairSecs \in Nat /\ KeepSecs \in Nat /\ PairSecs <= KeepSecs
    BY ScannerAssumption
  <1>2. /\ recent' = [k \in Kept |-> recent[k]]
        /\ \A k \in DOMAIN recent \ Kept : recent[k] >= PairSecs
    BY <1>1 DEF Clean, Kept, SpacedInv, TableBehind
  <1>. QED
    BY <1>1, <1>2 DEF SpacedInv, TableBehind, Kept

\* Table and clock grow together, until neither matters any more.
LEMMA SecondSpaced ==
  ASSUME SpacedInv, Second PROVE TableBehind'
  <1>1. PairSecs \in Nat /\ KeepSecs \in Nat /\ PairSecs <= KeepSecs
    BY ScannerAssumption
  <1>2. /\ recent' = [k \in DOMAIN recent |->
                        IF recent[k] < KeepSecs THEN recent[k] + 1 ELSE KeepSecs]
        /\ gap' = [k \in Pairs |-> IF gap[k] < PairSecs THEN gap[k] + 1 ELSE gap[k]]
    BY DEF Second, ScannerSecond
  <1>. QED
    BY <1>1, <1>2 DEF SpacedInv, TableBehind

\* What is received leaves the channel a sequence, and shorter.
LEMMA ExecutorSpaced ==
  ASSUME Sequential, ExecutorStep PROVE Sequential' /\ ~(Len(opps') > Len(opps))
  <1>1. opps' = opps \/ (opps # <<>> /\ opps' = Tail(opps))
    BY DEF ExecutorStep, RefreshStep, Start, RefreshCopies, RefreshAsks, RefreshAnswered, Discard,
           Build, SendAll
  <1>2. opps' \in Seq(Range(opps))
    BY <1>1, Received DEF Sequential
  <1>. QED
    BY <1>1, <1>2, Received, OverRange DEF Sequential

\* Every step keeps the invariant, and offers only what has not been offered for long.
LEMMA StepSpaced ==
  ASSUME SpacedInv, [Next]_vars
  PROVE  /\ SpacedInv'
         /\ Len(opps') > Len(opps) => gap[opps'[Len(opps')].pair] >= PairSecs
  <1>1. CASE Scan
    <2>1. TaskTyped'
      BY <1>1, ScannerTyped DEF Scan, SpacedInv, streamVars
    <2>2. CASE UNCHANGED <<opps, recent>>
      BY <1>1, <2>1, <2>2, NothingOffered DEF Scan, SpacedInv, TableBehind, Sequential
    <2>3. CASE Clean
      BY <1>1, <2>1, <2>3, NothingOffered, CleanSpaced DEF Scan, Clean, SpacedInv, Sequential
    <2>4. CASE \E q \in Pools : Compare(q)
      BY <1>1, <2>1, <2>4, CompareSpaced DEF Scan, SpacedInv
    <2>. QED
      BY <1>1, <2>2, <2>3, <2>4 DEF Scan, ScannerStep, Handle, TakeBatch, Begin
  <1>2. CASE Feeding
    <2>1. UNCHANGED <<opps, recent>>
      BY <1>2 DEF Feeding, Stream, StreamWrites, StreamBalances, StreamMeets, StreamInserts,
                  Shown, StreamShows, scanVars
    <2>2. TaskTyped' /\ UNCHANGED gap /\ ~(Len(opps') > Len(opps))
      BY <1>2, <2>1, StreamTyped, NothingOffered DEF Feeding, SpacedInv
    <2>. QED
      BY <2>1, <2>2 DEF SpacedInv, TableBehind, Sequential
  <1>3. CASE Execute
    <2>1. UNCHANGED <<feed, arriving, updates, task, recent, gap>>
      BY <1>3 DEF Execute, scanVars, streamVars
    <2>. QED
      BY <1>3, <2>1, ExecutorSpaced DEF Execute, SpacedInv, TaskTyped, TableBehind
  <1>4. CASE Second
    <2>1. UNCHANGED <<feed, arriving, updates, task, opps>>
      BY <1>4 DEF Second, ScannerSecond, streamVars
    <2>. QED
      BY <1>4, <2>1, SecondSpaced DEF SpacedInv, TaskTyped, Sequential
  <1>5. CASE UNCHANGED vars
    BY <1>5 DEF vars, scanVars, streamVars, SpacedInv, TaskTyped, TableBehind, Sequential
  <1>. QED
    BY <1>1, <1>2, <1>3, <1>4, <1>5 DEF Next

\* Two offers of one pair into the opportunity channel are at least PairSecs apart, whatever
\* the cleanup forgets and whatever the stream brings: the action property the Arbitrage
\* run checks.  Offers that wait in the channel may be sent closer to each other.
THEOREM PairsApart == Spec => PairSpaced
  <1>1. Init => SpacedInv
    BY SpacedInit
  <1>2. SpacedInv /\ [Next]_vars => SpacedInv'
    BY StepSpaced
  <1>3. SpacedInv /\ [Next]_vars =>
          [Len(opps') > Len(opps) => gap[opps'[Len(opps')].pair] >= PairSecs]_vars
    BY StepSpaced
  <1>. QED
    BY <1>1, <1>2, <1>3, PTL DEF Spec, PairSpaced
=============================================================================
