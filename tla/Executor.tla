------------------------------- MODULE Executor -------------------------------
(* executor/src/executor.rs and sender/: takes opportunities off the channel one by *)
(* one, drops the stale and the worthless, signs a transaction with the newest     *)
(* blockhash it has, waits for the rate limit and hands it to the senders, which    *)
(* post it on their own.  A task of its own, the refresher, sleeps two seconds and  *)
(* then copies the stream's blockhash, or awaits a call that asks for one.          *)
EXTENDS Channels, FiniteSets

CONSTANTS
  RefreshEvery,    \* seconds the refresher sleeps (2)
  SendEvery,       \* seconds between sends (1)
  MaxSlotLag,      \* slots an opportunity may be behind (2)
  MaxRefreshFails, \* bound: calls for a blockhash that fail in a row
  MaxCallSecs      \* bound: seconds these calls take from one blockhash to the next

ASSUME ExecutorAssumption ==
  /\ RefreshEvery \in Nat /\ SendEvery \in Nat /\ MaxSlotLag \in Nat
  /\ MaxRefreshFails \in Nat /\ MaxCallSecs \in Nat

VARIABLES
  at,         \* "start", "recv", "wait" (for the rate limit), "ended" or "panicked"
  testMode,
  latest,     \* latest_slot
  tx,         \* the opportunity being sent; history: how old its blockhash is, and the
              \* misses and waited of the moment it was signed
  since,      \* seconds since last_send_time
  hashLag,    \* seconds since latest_bh was written
  refresh,    \* seconds the refresher has slept
  asking,     \* the refresher awaits its call
  misses,     \* history: calls that failed since latest_bh was written
  waited      \* history: seconds spent in calls since then

execVars == <<at, testMode, latest, tx, since, hashLag, refresh, asking, misses, waited>>
refreshVars == <<hashLag, refresh, asking, misses, waited>>

NoTx == [opp |-> [pair |-> <<>>, profit |-> 0, slot |-> 0], lag |-> 0, misses |-> 0, waited |-> 0]

ExecutorInit ==
  /\ at = "start" /\ testMode \in BOOLEAN /\ latest = 0 /\ tx = NoTx
  /\ since = SendEvery /\ hashLag = 0 /\ refresh = 0
  /\ asking = FALSE /\ misses = 0 /\ waited = 0

\* The first blockhash: the stream's, or that of a call which must not fail.
Start ==
  /\ at = "start" /\ at' \in {"recv", "panicked"}
  /\ UNCHANGED <<opps, testMode, latest, tx, since>> /\ UNCHANGED refreshVars

-----------------------------------------------------------------------------
(* The refresher.                                                             *)

Running == at \in {"recv", "wait"}
Slept   == Running /\ ~asking /\ refresh >= RefreshEvery
Awaits  == Running /\ asking

\* latest_bh is written, and the refresher goes back to sleep.
Written == hashLag' = 0 /\ refresh' = 0 /\ misses' = 0 /\ waited' = 0

\* Mutant: a refresh that finds the stream's blockhash being written keeps the old one.
RefreshLost ==
  /\ Slept /\ refresh' = 0
  /\ UNCHANGED <<opps, at, testMode, latest, tx, since, hashLag, asking, misses, waited>>

\* The stream's blockhash is there and nobody is writing it.
RefreshCopies ==
  /\ Slept /\ Written
  /\ UNCHANGED <<opps, at, testMode, latest, tx, since, asking>>

\* There is none yet, or it is just being written: a call.
RefreshAsks ==
  /\ Slept /\ asking' = TRUE
  /\ UNCHANGED <<opps, at, testMode, latest, tx, since, hashLag, refresh, misses, waited>>

\* The call ends; one that failed leaves the old blockhash.
RefreshAnswered ==
  /\ Awaits /\ asking' = FALSE
  /\ \/ Written
     \/ misses < MaxRefreshFails /\ misses' = misses + 1 /\ refresh' = 0
        /\ UNCHANGED <<hashLag, waited>>
  /\ UNCHANGED <<opps, at, testMode, latest, tx, since>>

-----------------------------------------------------------------------------
(* The executor's loop.                                                       *)

Newest(slot) == IF slot > latest THEN slot ELSE latest

\* Neither stale nor worthless.
Worthy(o) == Newest(o.slot) - o.slot <= MaxSlotLag /\ o.profit > 0

\* Mutant: the first opportunity that is not worth sending ends the loop.
DiscardEnds ==
  /\ at = "recv" /\ opps # <<>> /\ opps' = Tail(opps)
  /\ latest' = Newest(Head(opps).slot)
  /\ at' = "ended"
  /\ UNCHANGED <<testMode, tx, since>> /\ UNCHANGED refreshVars

\* An opportunity is dropped: stale, worthless, without a transaction (a conflict between
\* its hops), or too large.
Discard ==
  /\ at = "recv" /\ opps # <<>> /\ opps' = Tail(opps)
  /\ latest' = Newest(Head(opps).slot)
  /\ UNCHANGED <<at, testMode, tx, since>> /\ UNCHANGED refreshVars

\* A transaction is signed with the blockhash of this moment.
Build ==
  /\ at = "recv" /\ opps # <<>> /\ opps' = Tail(opps)
  /\ latest' = Newest(Head(opps).slot)
  /\ Worthy(Head(opps))
  /\ at' = "wait"
  /\ tx' = [opp |-> Head(opps), lag |-> hashLag, misses |-> misses, waited |-> waited]
  /\ UNCHANGED <<testMode, since>> /\ UNCHANGED refreshVars

\* send_all starts a task for every enabled sender; how its request ends is only logged.
\* In test mode the first transaction is the last.
SendAll ==
  /\ at = "wait" /\ since >= SendEvery
  /\ since' = 0 /\ tx' = NoTx
  /\ at' = IF testMode THEN "ended" ELSE "recv"
  /\ UNCHANGED <<opps, testMode, latest>> /\ UNCHANGED refreshVars

Over == at \in {"ended", "panicked"}

\* Something is due at once: time waits for it (timers fire within the second).
Due == Slept \/ (at = "wait" /\ since >= SendEvery)

\* While the refresher awaits its call the blockhash grows older and its sleep does not.
ExecutorSecond ==
  /\ ~Due /\ (Awaits => waited < MaxCallSecs)
  /\ since' = IF since < SendEvery THEN since + 1 ELSE since
  /\ hashLag' = IF Running THEN hashLag + 1 ELSE hashLag
  /\ refresh' = IF Running /\ ~asking THEN refresh + 1 ELSE refresh
  /\ waited' = IF Awaits THEN waited + 1 ELSE waited
  /\ tx' = IF at = "wait" THEN [tx EXCEPT !.lag = @ + 1] ELSE tx
  /\ UNCHANGED <<at, testMode, latest, asking, misses>>

RefreshStep  == RefreshCopies \/ RefreshAsks \/ RefreshAnswered
ExecutorStep == Start \/ RefreshStep \/ Discard \/ Build \/ SendAll
=============================================================================
