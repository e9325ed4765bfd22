-------------------------- MODULE SubscriptionUpdater --------------------------
(* The loop of executor/examples/full_pipeline.rs that turns the vault addresses *)
(* queued by PoolStreamer into gRPC subscription updates, with the handlers that *)
(* feed it.  notify_waiters wakes the loop only while it is waiting; unlike      *)
(* notify_one it leaves no permit behind.                                        *)
EXTENDS Naturals, FiniteSets

CONSTANTS
  Producers,  \* registrations (handlers of pool account updates)
  Addrs,      \* vault addresses
  VaultsOf,   \* Producers -> the addresses a registration queues
  MaxFail     \* bound: update_subscription calls that fail

ASSUME UpdaterAssumption ==
  /\ VaultsOf \in [Producers -> SUBSET Addrs]
  /\ MaxFail \in Nat

VARIABLES
  producer,    \* where each registration is
  pending,     \* pending_subscriptions
  asked,       \* history: every address ever queued
  pc,          \* where the loop is
  woken,       \* the Notified future the loop waits on is complete
  account_set, \* addresses collected since the start (also account_list)
  added,       \* some address was new in this window (total_added > 0)
  subscribed,  \* the explicit addresses of the live gRPC subscription
  fails

vars == <<producer, pending, asked, pc, woken, account_set, added, subscribed, fails>>
loopVars == <<pc, woken, account_set, added, subscribed, fails>>

Init ==
  /\ producer = [x \in Producers |-> "push"]
  /\ pending = {} /\ asked = {}
  /\ pc = "start" /\ woken = FALSE
  /\ account_set = {} /\ added = FALSE
  /\ subscribed = {} /\ fails = 0

\* A registration queues its vaults under the queue's lock,
Push(x) ==
  /\ producer[x] = "push"
  /\ pending' = pending \cup VaultsOf[x]
  /\ asked' = asked \cup VaultsOf[x]
  /\ producer' = [producer EXCEPT ![x] = "notify"]
  /\ UNCHANGED loopVars

\* and calls notify_waiters.
Waiting == pc \in {"asleep", "window"}
Notify(x) ==
  /\ producer[x] = "notify"
  /\ producer' = [producer EXCEPT ![x] = "done"]
  /\ woken' = (woken \/ Waiting)
  /\ UNCHANGED <<pending, asked, pc, account_set, added, subscribed, fails>>

\* Phase 1: notified() is created, and completes.
Sleep ==
  /\ pc = "start"
  /\ pc' = "asleep" /\ woken' = FALSE /\ added' = FALSE
  /\ UNCHANGED <<producer, pending, asked, account_set, subscribed, fails>>

Awake ==
  /\ pc = "asleep" /\ woken
  /\ pc' = "drain" /\ woken' = FALSE
  /\ UNCHANGED <<producer, pending, asked, account_set, added, subscribed, fails>>

\* Mutant: the drained addresses replace the collected ones.
CollectReplaces(next) ==
  /\ pending' = {}
  /\ account_set' = pending
  /\ added' = (added \/ ~(pending \subseteq account_set))
  /\ pc' = next
  /\ UNCHANGED <<producer, asked, woken, subscribed, fails>>

\* Mutant: only the last drain of the window decides whether an update is sent.
CollectLast(next) ==
  /\ pending' = {}
  /\ account_set' = account_set \cup pending
  /\ added' = ~(pending \subseteq account_set)
  /\ pc' = next
  /\ UNCHANGED <<producer, asked, woken, subscribed, fails>>

\* drain_pending_subscriptions, and the addresses that are new to account_set.
Collect(next) ==
  /\ pending' = {}
  /\ account_set' = account_set \cup pending
  /\ added' = (added \/ ~(pending \subseteq account_set))
  /\ pc' = next
  /\ UNCHANGED <<producer, asked, woken, subscribed, fails>>

\* Phase 2: drain, and wait for more until the deadline.
Drain == pc = "drain" /\ Collect("arm")

Arm ==
  /\ pc = "arm"
  /\ pc' = "window" /\ woken' = FALSE
  /\ UNCHANGED <<producer, pending, asked, account_set, added, subscribed, fails>>

More ==
  /\ pc = "window" /\ woken
  /\ pc' = "drain" /\ woken' = FALSE
  /\ UNCHANGED <<producer, pending, asked, account_set, added, subscribed, fails>>

\* Mutant: no drain after the deadline.
DeadlineDecides ==
  /\ pc = "window" /\ ~woken
  /\ pc' = "decide"
  /\ UNCHANGED <<producer, pending, asked, woken, account_set, added, subscribed, fails>>

\* timeout_at looks at the notification before it looks at the deadline.
Deadline ==
  /\ pc = "window" /\ ~woken
  /\ pc' = "final"
  /\ UNCHANGED <<producer, pending, asked, woken, account_set, added, subscribed, fails>>

FinalDrain == pc = "final" /\ Collect("decide")

\* Nothing new: no update is sent.
Skip ==
  /\ pc = "decide" /\ ~added
  /\ pc' = "start"
  /\ UNCHANGED <<producer, pending, asked, woken, account_set, added, subscribed, fails>>

\* Mutant: only the addresses that are new are sent.
SendNew ==
  /\ pc = "decide" /\ added
  /\ subscribed' = account_set \ subscribed
  /\ pc' = "start"
  /\ UNCHANGED <<producer, pending, asked, woken, account_set, added, fails>>

\* update_subscription with the whole list; a failure is logged.
Send ==
  /\ pc = "decide" /\ added
  /\ subscribed' = account_set
  /\ pc' = "start"
  /\ UNCHANGED <<producer, pending, asked, woken, account_set, added, fails>>

SendFails ==
  /\ pc = "decide" /\ added /\ fails < MaxFail
  /\ fails' = fails + 1
  /\ pc' = "start"
  /\ UNCHANGED <<producer, pending, asked, woken, account_set, added, subscribed>>

Loop == \/ Sleep \/ Awake \/ Drain \/ Arm \/ More \/ Deadline
        \/ FinalDrain \/ Skip \/ Send \/ SendFails

Next == Loop \/ \E x \in Producers : Push(x) \/ Notify(x)

Spec == Init /\ [][Next]_vars

\* The loop and the handlers are tokio tasks; the deadline passes.
FairSpec == Spec /\ WF_vars(Loop) /\ \A x \in Producers : WF_vars(Push(x) \/ Notify(x))

-----------------------------------------------------------------------------
(* Properties.                                                                *)

Labels == {"start", "asleep", "drain", "arm", "window", "final", "decide"}

\* Every variable stays within its type.
TypeOK ==
  /\ producer \in [Producers -> {"push", "notify", "done"}]
  /\ pending \in SUBSET Addrs /\ asked \in SUBSET Addrs
  /\ pc \in Labels /\ woken \in BOOLEAN
  /\ account_set \in SUBSET Addrs /\ added \in BOOLEAN
  /\ subscribed \in SUBSET Addrs /\ fails \in Nat

\* An address that was queued is in the queue or collected; neither a drain that
\* meets a push nor a failed update loses it.
NoneLost == asked = pending \cup account_set

\* When no update failed, the loop never goes to sleep with a collected address that
\* is not subscribed: whatever drain of the window brought it, an update was sent.
Settled == pc \in {"start", "asleep"} /\ fails = 0 => account_set = subscribed

\* Under fairness, an address that is queued while the loop can still collect it in
\* the current window is subscribed in the end, unless an update fails.
Collecting == {"drain", "arm", "window", "final"}
WindowServed ==
  \A a \in Addrs : (a \in pending /\ pc \in Collecting) ~> a \in subscribed \/ fails > 0

\* The updater keeps its promise.
Promise == INSTANCE SubscriptionPromise WITH wanted <- asked, subscribed <- subscribed
KeepsPromise == Promise!Spec

\* README.md: "a new vault joins the gRPC subscription as soon as it is discovered".
\* A run refutes it: the notification is lost when it comes between the final drain
\* and the next wait.
QueuedIsSubscribed == \A a \in Addrs : a \in asked ~> a \in subscribed
=============================================================================
