----------------------------- MODULE ArbPipeline ------------------------------
(* executor/examples/full_pipeline.rs: the scanner and the executor around the      *)
(* cache and the two channels, with enable_gpa_bootstrap off: the scanner is armed. *)
EXTENDS ArbStream, Executor

VARIABLE gap        \* history: seconds since a pair was offered

vars == <<cache, updates, opps, ready, scanVars, execVars, streamVars, gap>>

Init ==
  /\ ArbStreamInit /\ ready = TRUE
  /\ ExecutorInit /\ gap = [k \in Pairs |-> PairSecs]

-----------------------------------------------------------------------------

\* A second passes for everybody.
Second ==
  /\ ScannerSecond /\ ExecutorSecond
  /\ gap' = [k \in Pairs |-> IF gap[k] < PairSecs THEN gap[k] + 1 ELSE gap[k]]
  /\ UNCHANGED <<cache, updates, opps, ready, streamVars>>

Spacing ==
  gap' = IF Len(opps') > Len(opps) THEN [gap EXCEPT ![opps'[Len(opps')].pair] = 0] ELSE gap

Scan    == ScannerStep /\ Spacing /\ UNCHANGED <<execVars, streamVars>>
Feeding == Stream /\ Spacing /\ UNCHANGED execVars
Execute == ExecutorStep /\ UNCHANGED <<cache, updates, ready, scanVars, streamVars, gap>>

\* select! ends every stage with the first that ends.
Next ==
  \/ ~Over /\ (Scan \/ Feeding \/ Execute)
  \/ Second

Spec == Init /\ [][Next]_vars

\* The scanner handles updates while there are some: weak fairness of Handle, whose steps
\* are those that change task and are possible exactly then.
Handling == []<>(Over \/ (task = Resting /\ updates = <<>>)) \/ []<><<TRUE>>_task

\* The tasks run, the client's calls end and time passes; nothing is assumed of the stream.
FairSpec ==
  /\ Spec /\ Handling
  /\ WF_vars(~Over /\ Start /\ Execute)
  /\ WF_vars(~Over /\ (RefreshCopies \/ RefreshAsks) /\ Execute)
  /\ WF_vars(~Over /\ RefreshAnswered /\ Execute)
  /\ WF_vars(~Over /\ (Discard \/ Build \/ SendAll) /\ Execute)
  /\ WF_vars(Second)

-----------------------------------------------------------------------------
(* Properties.                                                                *)

\* A pair is not offered again within two seconds, also across the cleanup of the
\* table that remembers it (arb_scanner.rs:96 and 204).
PairSpaced ==
  [][Len(opps') > Len(opps) => gap[opps'[Len(opps')].pair] >= PairSecs]_vars

\* The direction is decided by prices that contain fees on one side or none; still no
\* round trip with a profit is the one not tried, and what is offered loses no more than
\* the probe's allowance (arb_scanner.rs:155 and 199).
DirectionRight ==
  [][\A q \in task.todo \ task'.todo :
       LET a == task.a
           b == cache[q]
           buy == IF BuysFrom(a, b) THEN a ELSE b
           sell == IF BuysFrom(a, b) THEN b ELSE a
       IN  Priced(b) =>
             /\ Profit(sell, buy) <= 0 \/ Tokens(sell) = 0
             /\ Len(opps') > Len(opps) => LossDen * Back(buy, sell) >= (LossDen - 1) * ProbeAmount
    ]_<<task, opps>>

\* What is sent carries a blockhash whose age is explained: a sleep of the refresher, the
\* rate limit, a sleep more for every call that failed since it was written, and all the
\* time these calls took (executor.rs:142, 161 and 203).
HashFresh ==
  at = "wait" => tx.lag <= RefreshEvery * (1 + tx.misses) + tx.waited + SendEvery

\* Everything in the channels is handled in the end, unless the executor stopped: after
\* the first transaction in test mode, or without a first blockhash.
Drained ==
  \/ <>(at = "panicked" \/ (testMode /\ at = "ended"))
  \/ <>[](task = Resting /\ updates = <<>> /\ opps = <<>> /\ at = "recv")

=============================================================================
