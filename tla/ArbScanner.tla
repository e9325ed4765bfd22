------------------------------ MODULE ArbScanner ------------------------------
(* engine/src/arb_scanner.rs: when a pool changed, compare it with the other pools *)
(* of its token and offer the executor a round trip through two of them.  The task *)
(* reads the cache, which others write meanwhile, and not the update it received.  *)
EXTENDS Quotes, SwapAccounts, Channels

CONSTANTS
  Pools,
  ProbeAmount,      \* probe_amount: the input of every round trip
  PriceProbe,       \* the input that prices a pool without reserves (10_000_000)
  MinSolReserve,    \* MIN_SOL_RESERVE
  MinSpread, MaxSpread, SpreadDen,   \* MIN_SPREAD_PCT and MAX_SPREAD_PCT, as fractions
  LossDen,          \* the probe may lose 1/LossDen (200)
  BatchMax,         \* updates handled in a row (100)
  PairSecs,         \* a pair is offered at most once in so many seconds (2)
  KeepSecs,         \* what the cleanup keeps (5)
  CleanEvery        \* seconds between cleanups (30)

ASSUME ScannerAssumption ==
  /\ PairSecs \in Nat /\ KeepSecs \in Nat /\ PairSecs <= KeepSecs
  /\ BatchMax \in Nat \ {0} /\ ProbeAmount \in Nat \ {0}

VARIABLES
  ready,        \* set when the bootstrap is over
  recent,       \* pair -> seconds since it was offered
  clean,        \* seconds since the last cleanup
  task          \* [batch, trig, a, todo]: the updates in hand and the one being compared

scanVars == <<recent, clean, task>>

Pairs == {k \in Pools \X Pools : k[1] # k[2]}

NoTrigger == "none"

ASSUME NoTriggerAssumption == NoTrigger \notin Pools

Resting   == [batch |-> <<>>, trig |-> NoTrigger, a |-> Absent, todo |-> {}]

ScannerInit == recent = [k \in {} |-> 0] /\ clean = 0 /\ task = Resting

-----------------------------------------------------------------------------

SolIsA(e)  == e.a = "WSOL"
TokenOf(e) == IF SolIsA(e) THEN e.b ELSE IF e.b = "WSOL" THEN e.a ELSE "none"

\* get_price, tokens per SOL as a fraction; <<0, 1>> is none.  A constant-product pool
\* needs a SOL reserve; other pools are probed with what they have loaded.
Price(e) ==
  IF e.math.kind = "cp"
  THEN LET sol == IF SolIsA(e) THEN e.math.a ELSE e.math.b
           tok == IF SolIsA(e) THEN e.math.b ELSE e.math.a
       IN  IF sol < MinSolReserve \/ tok = 0 THEN <<0, 1>> ELSE <<tok, sol>>
  ELSE <<AmountOut(e.math, PriceProbe, SolIsA(e)), PriceProbe>>

Priced(e) == TokenOf(e) # "none" /\ Price(e)[1] > 0

\* The first price is higher: more tokens for a SOL.
Above(x, y) == x[1] * y[2] > y[1] * x[2]

\* The spread over the lower price is within the window.
SpreadFits(x, y) ==
  LET diff == x[1] * y[2] - y[1] * x[2]
  IN  SpreadDen * diff \in (MinSpread * (y[1] * x[2]))..(MaxSpread * (y[1] * x[2]))

\* Mutant: the pool with fewer tokens for a SOL is bought from.
BuysFromLower(x, y) == Above(Price(y), Price(x))

\* Buy from x, sell to y; otherwise the other way round.
BuysFrom(x, y) == Above(Price(x), Price(y))

Tokens(buy) == AmountOut(buy.math, ProbeAmount, SolIsA(buy))
Back(buy, sell) == AmountOut(sell.math, Tokens(buy), ~SolIsA(sell))

\* PumpSwap multiplies in u64; checked for every constant-product side.
Overflows(buy, sell) ==
  /\ "PumpSwap" \in {buy.dex, sell.dex}
  /\ \/ buy.math.kind = "cp"
        /\ ProbeAmount * (IF SolIsA(buy) THEN buy.math.b ELSE buy.math.a) > MaxU64
     \/ sell.math.kind = "cp"
        /\ Tokens(buy) * (IF SolIsA(sell) THEN sell.math.a ELSE sell.math.b) > MaxU64

Profit(buy, sell) == Back(buy, sell) - ProbeAmount

Passes(buy, sell) ==
  /\ SpreadFits(Price(buy), Price(sell))
  /\ Tokens(buy) # 0 /\ ~Overflows(buy, sell)
  /\ Profit(buy, sell) >= -(ProbeAmount \div LossDen)

\* build_pool_accounts has nothing to return without the tick array at the price.
HasAccounts(e, aToB) ==
  e.dex \in {"RaydiumClmm", "OrcaWhirlpool"} /\ e.math.kind = "clmm"
    => TickAccounts(e.dex, e.math, aToB) # <<>>

\* build_opportunity
Opportunity(p, q, buy, sell) ==
  [pair |-> <<p, q>>, profit |-> IF Profit(buy, sell) > 0 THEN Profit(buy, sell) ELSE 0,
   slot |-> IF buy.slot > sell.slot THEN buy.slot ELSE sell.slot]

Buildable(buy, sell) == HasAccounts(buy, SolIsA(buy)) /\ HasAccounts(sell, ~SolIsA(sell))

-----------------------------------------------------------------------------

\* Mutant: a full batch is noticed only when one more update was received.
TakeBatchLossy ==
  /\ task = Resting /\ updates # <<>>
  /\ LET n == IF Len(updates) < BatchMax THEN Len(updates) ELSE BatchMax
     IN  /\ task' = [Resting EXCEPT !.batch = SubSeq(updates, 1, n)]
         /\ updates' = SubSeq(updates, n + 2, Len(updates))
  /\ UNCHANGED <<cache, opps, ready, recent, clean>>

\* An update wakes the task; it takes what else waits, up to a batch.
TakeBatch ==
  /\ task = Resting /\ updates # <<>>
  /\ LET n == IF Len(updates) < BatchMax THEN Len(updates) ELSE BatchMax
     IN  /\ task' = [Resting EXCEPT !.batch = SubSeq(updates, 1, n)]
         /\ updates' = SubSeq(updates, n + 1, Len(updates))
  /\ UNCHANGED <<cache, opps, ready, recent, clean>>

\* The pools of the same token that are in the mint index.
SameToken(e) == {q \in Pools : cache[q] # Absent /\ TokenOf(e) \in {cache[q].a, cache[q].b}}

\* process_update up to the loop over the other pools: the triggered pool is read once.
Begin ==
  /\ task.trig = NoTrigger /\ task.batch # <<>>
  /\ LET p == Head(task.batch)
         a == cache[p]
         others == SameToken(a) \ {p}
         rest == Tail(task.batch)
     IN  task' = IF ready /\ TokenOf(a) # "none" /\ others # {} /\ Priced(a)
                 THEN [batch |-> rest, trig |-> p, a |-> a, todo |-> others]
                 ELSE [task EXCEPT !.batch = rest]
  /\ UNCHANGED <<cache, updates, opps, ready, recent, clean>>

\* Offered less than two seconds ago.
Suppressed(pair) == pair \in DOMAIN recent /\ recent[pair] < PairSecs

\* One other pool, read now; the triggered one is as it was read.  The pair is recorded
\* before the opportunity is built and sent.
Compare(q) ==
  /\ q \in task.todo
  /\ task' = IF task.todo = {q} THEN [Resting EXCEPT !.batch = task.batch]
             ELSE [task EXCEPT !.todo = @ \ {q}]
  /\ LET b     == cache[q]
         first == BuysFrom(task.a, b)
         buy   == IF first THEN task.a ELSE b
         sell  == IF first THEN b ELSE task.a
         pair  == IF first THEN <<task.trig, q>> ELSE <<q, task.trig>>
     IN  IF Priced(b) /\ Passes(buy, sell) /\ ~Suppressed(pair)
         THEN /\ recent' = [k \in DOMAIN recent \cup {pair} |-> IF k = pair THEN 0 ELSE recent[k]]
              /\ opps' = IF Buildable(buy, sell)
                         THEN Offered(opps, OfferCap, Opportunity(pair[1], pair[2], buy, sell))
                         ELSE opps
         ELSE UNCHANGED <<recent, opps>>
  /\ UNCHANGED <<cache, updates, ready, clean>>

\* Mutant: the cleanup forgets everything.
KeptNone == {}

\* What the cleanup keeps.
Kept == {k \in DOMAIN recent : recent[k] < KeepSecs}

Clean ==
  /\ task = Resting /\ clean >= CleanEvery
  /\ recent' = [k \in Kept |-> recent[k]] /\ clean' = 0
  /\ UNCHANGED <<cache, updates, opps, ready, task>>

Handle == TakeBatch \/ Begin \/ \E q \in Pools : Compare(q)

ScannerStep == Handle \/ Clean

\* Ages are counted as far as they are compared.
ScannerSecond ==
  /\ recent' = [k \in DOMAIN recent |-> IF recent[k] < KeepSecs THEN recent[k] + 1 ELSE KeepSecs]
  /\ clean' = IF clean < CleanEvery THEN clean + 1 ELSE clean
  /\ UNCHANGED task
=============================================================================
