-------------------------- MODULE Subscription_proofs --------------------------
(* The two halves of the subscription, for any registrations, addresses, filters   *)
(* and streams.  The updater: nothing queued is lost, the loop sleeps only when    *)
(* every collected address is subscribed, and it implements SubscriptionPromise.   *)
(* The client: a request that was kept as current is the one the server has or gets. *)
EXTENDS SubscriptionUpdater, GrpcClient, SequenceTheorems, TLAPS

-----------------------------------------------------------------------------
(* The updater.                                                               *)

\* Settled strengthened to the whole window: until an update is sent the loop
\* remembers that there is something new.
Remembered ==
  fails = 0 => /\ pc \in {"start", "asleep"} => account_set = subscribed
               /\ added \/ account_set = subscribed

\* The stream never holds an address that was not collected.
OnlyCollected == subscribed \subseteq account_set

UpdaterInv == TypeOK /\ NoneLost /\ OnlyCollected /\ Remembered

\* The initial state satisfies the invariant.
LEMMA UpdaterInit == Init => UpdaterInv
<1> SUFFICES ASSUME Init
             PROVE  UpdaterInv
  OBVIOUS
<1>1. TypeOK
  BY DEF Init, TypeOK, Labels
<1>2. NoneLost /\ OnlyCollected /\ Remembered
  BY DEF Init, NoneLost, OnlyCollected, Remembered
<1> QED
  BY <1>1, <1>2 DEF UpdaterInv

\* A drain of the queue moves addresses from the queue to account_set.
LEMMA CollectKeeps ==
  ASSUME UpdaterInv, NEW next \in Labels, Collect(next), next \notin {"start", "asleep"}
  PROVE  UpdaterInv'
<1> USE DEF UpdaterInv, Collect
<1>1. TypeOK'
  BY DEF TypeOK
<1>2. NoneLost'
  BY DEF NoneLost
<1>3. OnlyCollected'
  BY DEF OnlyCollected
<1>4. Remembered'
  <2>1. CASE pending \subseteq account_set
    <3>1. account_set' = account_set
      BY <2>1
    <3> QED
      BY <2>1, <3>1 DEF Remembered, TypeOK
  <2>2. CASE ~(pending \subseteq account_set)
    BY <2>2 DEF Remembered, TypeOK
  <2> QED
    BY <2>1, <2>2
<1> QED
  BY <1>1, <1>2, <1>3, <1>4

\* Every step keeps the invariant.
LEMMA UpdaterStep == UpdaterInv /\ [Next]_vars => UpdaterInv'
<1> SUFFICES ASSUME UpdaterInv, [Next]_vars
             PROVE  UpdaterInv'
  OBVIOUS
<1> USE UpdaterAssumption
<1>1. ASSUME NEW x \in Producers, Push(x)
      PROVE  UpdaterInv'
  BY <1>1 DEF Push, loopVars, UpdaterInv, TypeOK, NoneLost, OnlyCollected, Remembered
<1>2. ASSUME NEW x \in Producers, Notify(x)
      PROVE  UpdaterInv'
  BY <1>2 DEF Notify, Waiting, UpdaterInv, TypeOK, NoneLost, OnlyCollected, Remembered
<1>3. CASE Sleep
  BY <1>3 DEF Sleep, UpdaterInv, TypeOK, Labels, NoneLost, OnlyCollected, Remembered
<1>4. CASE Awake \/ Arm \/ More \/ Deadline
  BY <1>4 DEF Awake, Arm, More, Deadline, UpdaterInv, TypeOK, Labels, NoneLost,
              OnlyCollected, Remembered
<1>5. CASE Drain
  BY <1>5, CollectKeeps DEF Drain, Labels
<1>6. CASE FinalDrain
  BY <1>6, CollectKeeps DEF FinalDrain, Labels
<1>7. CASE Skip
  BY <1>7 DEF Skip, UpdaterInv, TypeOK, Labels, NoneLost, OnlyCollected, Remembered
<1>8. CASE Send
  BY <1>8 DEF Send, UpdaterInv, TypeOK, Labels, NoneLost, OnlyCollected, Remembered
<1>9. CASE SendFails
  <2>1. fails' # 0
    BY <1>9 DEF SendFails, UpdaterInv, TypeOK
  <2> QED
    BY <1>9, <2>1 DEF SendFails, UpdaterInv, TypeOK, Labels, NoneLost, OnlyCollected,
                      Remembered
<1>10. CASE UNCHANGED vars
  BY <1>10 DEF vars, UpdaterInv, TypeOK, NoneLost, OnlyCollected, Remembered
<1> QED
  BY <1>1, <1>2, <1>3, <1>4, <1>5, <1>6, <1>7, <1>8, <1>9, <1>10 DEF Next, Loop

\* The invariant holds in every state the updater reaches.
THEOREM UpdaterInvariant == Spec => []UpdaterInv
BY UpdaterInit, UpdaterStep, PTL DEF Spec

\* An address that was queued is queued or collected, whatever drain it meets.
THEOREM NothingLost == Spec => []NoneLost
<1>1. UpdaterInv => NoneLost
  BY DEF UpdaterInv
<1> QED
  BY <1>1, UpdaterInvariant, PTL

\* Without failures, the loop goes to sleep only when every collected address is
\* subscribed.
THEOREM SleepsSettled == Spec => []Settled
<1>1. UpdaterInv => Settled
  BY DEF UpdaterInv, Remembered, Settled
<1> QED
  BY <1>1, UpdaterInvariant, PTL

\* Each step of the updater is one of the abstract specification, or leaves the
\* addresses asked for and subscribed alone.
LEMMA StepRefines ==
  UpdaterInv /\ [Next]_vars => [Promise!Next]_<<asked, subscribed>>
<1> SUFFICES ASSUME UpdaterInv, [Next]_vars
             PROVE  [Promise!Next]_<<asked, subscribed>>
  OBVIOUS
<1>1. ASSUME NEW x \in Producers, Push(x)
      PROVE  Promise!Next
  <2>1. VaultsOf[x] \in SUBSET Addrs
    BY UpdaterAssumption
  <2>2. Promise!Ask(VaultsOf[x])
    BY <1>1 DEF Push, loopVars, Promise!Ask
  <2> QED
    BY <2>1, <2>2 DEF Promise!Next
<1>2. CASE Send
  <2>1. account_set \in SUBSET Addrs
    BY DEF UpdaterInv, TypeOK
  <2>2. Promise!Resubscribe(account_set)
    BY <1>2 DEF Send, Promise!Resubscribe, UpdaterInv, OnlyCollected, NoneLost
  <2> QED
    BY <2>1, <2>2 DEF Promise!Next
<1>3. ASSUME NEW x \in Producers, Notify(x)
      PROVE  UNCHANGED <<asked, subscribed>>
  BY <1>3 DEF Notify
<1>4. CASE \/ Sleep \/ Awake \/ Drain \/ Arm \/ More \/ Deadline
           \/ FinalDrain \/ Skip \/ SendFails \/ UNCHANGED vars
  BY <1>4 DEF Sleep, Awake, Drain, Arm, More, Deadline, FinalDrain, Collect, Skip,
              SendFails, vars
<1> QED
  BY <1>1, <1>2, <1>3, <1>4 DEF Next, Loop

\* The updater implements its promise: what is subscribed was asked for, and stays
\* subscribed.
THEOREM UpdaterKeepsPromise == Spec => KeepsPromise
<1>1. Init => Promise!Init
  BY DEF Init, Promise!Init
<1> QED
  BY <1>1, StepRefines, UpdaterInvariant, PTL DEF Spec, KeepsPromise, Promise!Spec

-----------------------------------------------------------------------------
(* The client.                                                                *)

Requests == [transactions : BOOLEAN, accounts : Lists \cup {{}}, blocks_meta : BOOLEAN]
States == {"none", "connected", "run", "aborted", "gone", "ended"}
Resting == {"idle", "stop control", "stop current", "stop active"}

CallRecords ==
  [at : Resting, calls : Nat]
  \cup [at : {"claim", "connect"}, calls : Nat, list : Lists, filter : Filters]
  \cup [at : {"current", "control", "handle"}, calls : Nat, g : Streams, request : Requests]

UpdateRecords ==
  {Idle}
  \cup [at : {"build"}, to : Streams, list : Lists]
  \cup [at : {"send"}, to : Streams, request : Requests]
  \cup [at : {"store"}, request : Requests]

StreamTyped ==
  /\ active \in BOOLEAN /\ torn \in BOOLEAN /\ filter \in Filters
  /\ handle \in {0} \cup Streams /\ control \in {0} \cup Streams
  /\ current \in Requests \cup {None}
  /\ stream \in [Streams -> States]
  /\ queue \in [Streams -> Seq(Requests)]
  /\ live \in [Streams -> Requests \cup {None}]

CallTyped == call \in CallRecords /\ update \in UpdateRecords

\* A sender is stored only while a subscription is active, and not while one is made
\* or after stop has cleared it.
SenderActive ==
  /\ control # 0 => active
  /\ call.at \in {"connect", "current", "control"} => active /\ control = 0
  /\ call.at \in {"stop current", "stop active"} => control = 0

\* A stream that is not yet run has an empty channel, and the server has its first
\* request, which becomes the current one.
FirstRequest ==
  /\ \A g \in Streams : stream[g] = "none" => queue[g] = <<>>
  /\ call.at \in {"current", "control"} =>
       /\ stream[call.g] = "connected" /\ queue[call.g] = <<>>
       /\ live[call.g] = call.request
  /\ call.at = "control" /\ ~torn => current = call.request

\* An update that no stop has overlapped feeds the channel of the current subscription.
SameChannel ==
  ~torn => /\ update.at \in {"build", "send"} => control = update.to
           /\ update.at = "store" => control # 0

\* The request the server has, or will have when the channel has drained.
Latest(g) == IF queue[g] = <<>> THEN live[g] ELSE queue[g][Len(queue[g])]

LatestCurrent ==
  ~torn => \A g \in Streams : control = g /\ stream[g] = "run" =>
             Latest(g) = IF update.at = "store" THEN update.request ELSE current

ClientInv ==
  StreamTyped /\ CallTyped /\ SenderActive /\ FirstRequest /\ SameChannel /\ LatestCurrent

-----------------------------------------------------------------------------
(* Requests.                                                                  *)

\* The first request of a subscription is a request.
LEMMA RequestTyped ==
  ASSUME NEW list \in Lists, NEW f \in Filters
  PROVE  Request(list, f) \in Requests
<1>1. /\ include_transaction_event(f) \in BOOLEAN
      /\ include_block_event(f) \in BOOLEAN
  BY DEF include_transaction_event, include_block_event
<1>2. subscribe_with_account_request(list, f) \in Lists \cup {{}}
  BY DEF subscribe_with_account_request
<1> QED
  BY <1>1, <1>2 DEF Request, Requests, get_subscribe_request_filter

\* An amended request is a request.
LEMMA AmendedTyped ==
  ASSUME NEW base \in Requests, NEW list \in Lists, NEW f \in Filters
  PROVE  Amended(base, list, f) \in Requests
<1>1. include_transaction_event(f) \in BOOLEAN
  BY DEF include_transaction_event
<1>2. subscribe_with_account_request(list, f) \in Lists \cup {{}}
  BY DEF subscribe_with_account_request
<1> QED
  BY <1>1, <1>2 DEF Amended, Requests, get_subscribe_request_filter

-----------------------------------------------------------------------------
(* A control channel, and the locals of a call and of an update.              *)

\* Only the empty sequence has no elements.
LEMMA EmptyLen ==
  ASSUME NEW S, NEW t \in Seq(S)
  PROVE  t = <<>> <=> Len(t) = 0
BY EmptySeq

\* Taking the head of a sequence leaves its last element last, or was that element.
LEMMA TailLast ==
  ASSUME NEW S, NEW q \in Seq(S), q # <<>>
  PROVE  IF Tail(q) = <<>> THEN Head(q) = q[Len(q)]
                           ELSE Tail(q)[Len(Tail(q))] = q[Len(q)]
<1>1. Tail(q) \in Seq(S) /\ Len(Tail(q)) = Len(q) - 1
  BY HeadTailProperties
<1>2. Tail(q) = <<>> <=> Len(Tail(q)) = 0
  BY <1>1, EmptyLen, Zenon
<1>3. Len(q) \in Nat \ {0}
  BY EmptySeq
<1>4. CASE Len(q) = 1
  <2>1. Len(Tail(q)) = 0
    BY <1>1, <1>4
  <2>2. Tail(q) = <<>>
    BY <1>2, <2>1, Zenon
  <2>3. Head(q) = q[Len(q)]
    BY <1>4
  <2> QED
    BY <2>2, <2>3, Zenon
<1>5. CASE Len(q) # 1
  <2>1. Len(Tail(q)) # 0
    BY <1>1, <1>3, <1>5
  <2>2. Tail(q) # <<>>
    BY <1>2, <2>1, Zenon
  <2>3. Tail(q)[Len(Tail(q))] = q[Len(q)]
    BY <1>1, <1>3, <1>5
  <2> QED
    BY <2>2, <2>3, Zenon
<1> QED
  BY <1>4, <1>5, Zenon

\* What the locals of a call are at each of its steps.
LEMMA CallAt ==
  ASSUME CallTyped
  PROVE  /\ call.calls \in Nat
         /\ call.at \in {"claim", "connect"} => call.list \in Lists /\ call.filter \in Filters
         /\ call.at \in {"current", "control", "handle"} =>
              call.g \in Streams /\ call.request \in Requests
BY DEF CallTyped, CallRecords, Resting

\* What the locals of an update are at each of its steps.
LEMMA UpdateAt ==
  ASSUME CallTyped
  PROVE  /\ update.at = "build" => update.to \in Streams /\ update.list \in Lists
         /\ update.at = "send" => update.to \in Streams /\ update.request \in Requests
         /\ update.at = "store" => update.request \in Requests
BY DEF CallTyped, UpdateRecords, Idle

\* 0 is no stream.
LEMMA NotStream == 0 \notin Streams
BY ClientAssumption DEF Streams

-----------------------------------------------------------------------------
(* The initial state and the steps.                                           *)

\* Before any call the invariant holds.
LEMMA ClientStart == ClientInit => ClientInv
<1> SUFFICES ASSUME ClientInit PROVE ClientInv
  OBVIOUS
<1> USE ClientAssumption
<1>1. StreamTyped
  <2>1. <<>> \in Seq(Requests)
    OBVIOUS
  <2>2. stream \in [Streams -> States] /\ live \in [Streams -> Requests \cup {None}]
    BY DEF ClientInit, States
  <2>3. queue \in [Streams -> Seq(Requests)]
    BY <2>1 DEF ClientInit
  <2> QED
    BY <2>2, <2>3 DEF ClientInit, StreamTyped
<1>2. CallTyped
  BY DEF ClientInit, CallTyped, CallRecords, Resting, UpdateRecords
<1>3. SenderActive /\ FirstRequest /\ SameChannel
  BY DEF ClientInit, SenderActive, FirstRequest, SameChannel, Idle
<1>4. LatestCurrent
  BY DEF ClientInit, LatestCurrent
<1> QED
  BY <1>1, <1>2, <1>3, <1>4 DEF ClientInv

\* The steps of subscribe_events_immediate and stop keep it:
\* the sender is stored after the current request and cleared before it.
LEMMA MainStep ==
  ASSUME ClientInv, Main
  PROVE  ClientInv'
<1>1. ASSUME NEW list \in FirstLists, NEW f \in Filters, WriteFilter(list, f) PROVE ClientInv'
  <2>1. StreamTyped'
    BY <1>1 DEF ClientInv, StreamTyped, WriteFilter
  <2>2. CallTyped'
    <3>1. call.calls + 1 \in Nat
      BY CallAt DEF ClientInv
    <3> QED
      BY <1>1, ClientAssumption DEF ClientInv, CallTyped, WriteFilter, CallRecords
  <2>3. SenderActive'
    BY <1>1 DEF ClientInv, SenderActive, WriteFilter
  <2>4. FirstRequest'
    BY <1>1 DEF ClientInv, FirstRequest, WriteFilter
  <2>5. SameChannel'
    BY <1>1 DEF ClientInv, SameChannel, WriteFilter
  <2>6. LatestCurrent'
    BY <1>1 DEF ClientInv, LatestCurrent, Latest, WriteFilter
  <2> QED
    BY <2>1, <2>2, <2>3, <2>4, <2>5, <2>6 DEF ClientInv
<1>2. ASSUME Refused PROVE ClientInv'
  <2>1. StreamTyped'
    BY <1>2 DEF ClientInv, StreamTyped, Refused
  <2>2. CallTyped'
    BY <1>2 DEF ClientInv, CallTyped, Refused, CallRecords, Resting
  <2>3. SenderActive'
    BY <1>2 DEF SenderActive, Refused
  <2>4. FirstRequest'
    BY <1>2 DEF ClientInv, FirstRequest, Refused
  <2>5. SameChannel'
    BY <1>2 DEF ClientInv, SameChannel, Refused
  <2>6. LatestCurrent'
    BY <1>2 DEF ClientInv, LatestCurrent, Latest, Refused
  <2> QED
    BY <2>1, <2>2, <2>3, <2>4, <2>5, <2>6 DEF ClientInv
<1>3. ASSUME Claim PROVE ClientInv'
  <2>1. StreamTyped'
    BY <1>3 DEF ClientInv, StreamTyped, Claim
  <2>2. CallTyped'
    BY <1>3 DEF ClientInv, CallTyped, Claim, CallRecords, Resting
  <2>3. SenderActive'
    BY <1>3 DEF ClientInv, SenderActive, Claim
  <2>4. FirstRequest'
    BY <1>3 DEF ClientInv, FirstRequest, Claim
  <2>5. SameChannel'
    BY <1>3 DEF ClientInv, SameChannel, Claim
  <2>6. LatestCurrent'
    BY <1>3 DEF ClientInv, LatestCurrent, Latest, Claim
  <2> QED
    BY <2>1, <2>2, <2>3, <2>4, <2>5, <2>6 DEF ClientInv
<1>4. ASSUME ConnectFails PROVE ClientInv'
  <2>1. StreamTyped'
    BY <1>4 DEF ClientInv, StreamTyped, ConnectFails
  <2>2. CallTyped'
    BY <1>4 DEF ClientInv, CallTyped, ConnectFails, CallRecords, Resting
  <2>3. SenderActive'
    BY <1>4 DEF ClientInv, SenderActive, ConnectFails
  <2>4. FirstRequest'
    BY <1>4 DEF ClientInv, FirstRequest, ConnectFails
  <2>5. SameChannel'
    BY <1>4 DEF ClientInv, SameChannel, ConnectFails
  <2>6. LatestCurrent'
    BY <1>4 DEF ClientInv, LatestCurrent, Latest, ConnectFails
  <2> QED
    BY <2>1, <2>2, <2>3, <2>4, <2>5, <2>6 DEF ClientInv
<1>5. ASSUME NEW g \in Streams, Connect(g) PROVE ClientInv'
  <2>1. StreamTyped'
    BY <1>5, RequestTyped DEF ClientInv, StreamTyped, CallTyped, Connect, CallRecords, Resting, States
  <2>2. CallTyped'
    BY <1>5, RequestTyped DEF ClientInv, CallTyped, Connect, CallRecords, Resting
  <2>3. SenderActive'
    BY <1>5 DEF ClientInv, SenderActive, Connect
  <2>4. FirstRequest'
    BY <1>5 DEF ClientInv, StreamTyped, FirstRequest, Connect
  <2>5. SameChannel'
    BY <1>5 DEF ClientInv, SameChannel, Connect
  <2>6. LatestCurrent'
    BY <1>5 DEF ClientInv, LatestCurrent, Latest, Connect
  <2> QED
    BY <2>1, <2>2, <2>3, <2>4, <2>5, <2>6 DEF ClientInv
<1>6. ASSUME WriteCurrent PROVE ClientInv'
  <2>1. StreamTyped'
    BY <1>6 DEF ClientInv, StreamTyped, CallTyped, WriteCurrent, CallRecords, Resting
  <2>2. CallTyped'
    BY <1>6 DEF ClientInv, CallTyped, WriteCurrent, CallRecords, Resting
  <2>3. SenderActive'
    BY <1>6 DEF ClientInv, SenderActive, WriteCurrent
  <2>4. FirstRequest'
    BY <1>6 DEF ClientInv, FirstRequest, WriteCurrent
  <2>5. SameChannel'
    BY <1>6 DEF ClientInv, SameChannel, WriteCurrent
  <2>6. LatestCurrent'
    <3>1. control' = 0
      BY <1>6 DEF ClientInv, SenderActive, WriteCurrent
    <3> QED
      BY <3>1, NotStream DEF LatestCurrent
  <2> QED
    BY <2>1, <2>2, <2>3, <2>4, <2>5, <2>6 DEF ClientInv
<1>7. ASSUME WriteControl PROVE ClientInv'
  <2>1. StreamTyped'
    BY <1>7 DEF ClientInv, StreamTyped, CallTyped, WriteControl, CallRecords, Resting, States
  <2>2. CallTyped'
    BY <1>7 DEF ClientInv, CallTyped, WriteControl, CallRecords, Resting
  <2>3. SenderActive'
    BY <1>7 DEF ClientInv, SenderActive, WriteControl
  <2>4. FirstRequest'
    BY <1>7 DEF ClientInv, FirstRequest, WriteControl
  <2>5. SameChannel'
    <3>1. ~torn => update.at \notin {"build", "send", "store"}
      BY <1>7, UpdateAt, NotStream DEF ClientInv, SenderActive, SameChannel, WriteControl
    <3> QED
      BY <1>7, <3>1 DEF SameChannel, WriteControl
  <2>6. LatestCurrent'
    BY <1>7 DEF ClientInv, LatestCurrent, Latest, SameChannel, SenderActive, FirstRequest, WriteControl
  <2> QED
    BY <2>1, <2>2, <2>3, <2>4, <2>5, <2>6 DEF ClientInv
<1>8. ASSUME WriteHandle PROVE ClientInv'
  <2>1. StreamTyped'
    BY <1>8 DEF ClientInv, StreamTyped, CallTyped, WriteHandle, CallRecords, Resting
  <2>2. CallTyped'
    BY <1>8 DEF ClientInv, CallTyped, WriteHandle, CallRecords, Resting
  <2>3. SenderActive'
    BY <1>8 DEF ClientInv, SenderActive, WriteHandle
  <2>4. FirstRequest'
    BY <1>8 DEF ClientInv, FirstRequest, WriteHandle
  <2>5. SameChannel'
    BY <1>8 DEF ClientInv, SameChannel, WriteHandle
  <2>6. LatestCurrent'
    BY <1>8 DEF ClientInv, LatestCurrent, Latest, WriteHandle
  <2> QED
    BY <2>1, <2>2, <2>3, <2>4, <2>5, <2>6 DEF ClientInv
<1>9. ASSUME StopTask PROVE ClientInv'
  <2>1. StreamTyped'
    BY <1>9 DEF ClientInv, StreamTyped, StopTask, States
  <2>2. CallTyped'
    BY <1>9 DEF ClientInv, CallTyped, StopTask, CallRecords, Resting
  <2>3. SenderActive'
    BY <1>9 DEF ClientInv, CallTyped, SenderActive, StopTask, CallRecords
  <2>4. FirstRequest'
    BY <1>9 DEF ClientInv, StreamTyped, CallTyped, FirstRequest, StopTask, CallRecords
  <2>5. SameChannel'
    BY <1>9 DEF ClientInv, SameChannel, StopTask
  <2>6. LatestCurrent'
    BY <1>9 DEF ClientInv, StreamTyped, LatestCurrent, Latest, StopTask
  <2> QED
    BY <2>1, <2>2, <2>3, <2>4, <2>5, <2>6 DEF ClientInv
<1>10. ASSUME StopControl PROVE ClientInv'
  <2>1. StreamTyped'
    BY <1>10 DEF ClientInv, StreamTyped, StopControl
  <2>2. CallTyped'
    BY <1>10 DEF ClientInv, CallTyped, StopControl, CallRecords, Resting
  <2>3. SenderActive'
    BY <1>10 DEF ClientInv, CallTyped, SenderActive, StopControl, CallRecords
  <2>4. FirstRequest'
    BY <1>10 DEF ClientInv, CallTyped, FirstRequest, StopControl, CallRecords
  <2>5. SameChannel'
    BY <1>10 DEF SameChannel, StopControl, Updating
  <2>6. LatestCurrent'
    <3>1. control' = 0
      BY <1>10 DEF StopControl
    <3> QED
      BY <3>1, NotStream DEF LatestCurrent
  <2> QED
    BY <2>1, <2>2, <2>3, <2>4, <2>5, <2>6 DEF ClientInv
<1>11. ASSUME StopCurrent PROVE ClientInv'
  <2>1. StreamTyped'
    BY <1>11 DEF ClientInv, StreamTyped, StopCurrent
  <2>2. CallTyped'
    BY <1>11 DEF ClientInv, CallTyped, StopCurrent, CallRecords, Resting
  <2>3. SenderActive'
    BY <1>11 DEF ClientInv, CallTyped, SenderActive, StopCurrent, CallRecords
  <2>4. FirstRequest'
    BY <1>11 DEF ClientInv, CallTyped, FirstRequest, StopCurrent, CallRecords
  <2>5. SameChannel'
    BY <1>11 DEF ClientInv, SameChannel, StopCurrent
  <2>6. LatestCurrent'
    <3>1. control' = 0
      BY <1>11 DEF ClientInv, SenderActive, StopCurrent
    <3> QED
      BY <3>1, NotStream DEF LatestCurrent
  <2> QED
    BY <2>1, <2>2, <2>3, <2>4, <2>5, <2>6 DEF ClientInv
<1>12. ASSUME StopActive PROVE ClientInv'
  <2>1. StreamTyped'
    BY <1>12 DEF ClientInv, StreamTyped, StopActive
  <2>2. CallTyped'
    BY <1>12 DEF ClientInv, CallTyped, StopActive, CallRecords, Resting
  <2>3. SenderActive'
    BY <1>12 DEF ClientInv, CallTyped, SenderActive, StopActive, CallRecords
  <2>4. FirstRequest'
    BY <1>12 DEF ClientInv, CallTyped, FirstRequest, StopActive, CallRecords
  <2>5. SameChannel'
    BY <1>12 DEF ClientInv, SameChannel, StopActive
  <2>6. LatestCurrent'
    BY <1>12 DEF ClientInv, LatestCurrent, Latest, StopActive
  <2> QED
    BY <2>1, <2>2, <2>3, <2>4, <2>5, <2>6 DEF ClientInv
<1> QED
  BY <1>1, <1>2, <1>3, <1>4, <1>5, <1>6, <1>7, <1>8, <1>9, <1>10, <1>11, <1>12 DEF Main

\* The steps of update_subscription keep it:
\* what was sent is what is stored, and a channel that closed was no longer read.
LEMMA CallerStep ==
  ASSUME ClientInv, Caller
  PROVE  ClientInv'
<1>1. ASSUME NEW list \in Lists, CloneSender(list) PROVE ClientInv'
  <2>1. StreamTyped'
    BY <1>1 DEF ClientInv, StreamTyped, CloneSender
  <2>2. CallTyped'
    BY <1>1 DEF ClientInv, StreamTyped, CallTyped, CloneSender, UpdateRecords
  <2>3. SenderActive'
    BY <1>1 DEF ClientInv, SenderActive, CloneSender
  <2>4. FirstRequest'
    BY <1>1 DEF ClientInv, FirstRequest, CloneSender
  <2>5. SameChannel'
    BY <1>1 DEF SameChannel, CloneSender
  <2>6. LatestCurrent'
    BY <1>1 DEF ClientInv, LatestCurrent, Latest, CloneSender, Idle
  <2> QED
    BY <2>1, <2>2, <2>3, <2>4, <2>5, <2>6 DEF ClientInv
<1>2. ASSUME NoSender PROVE ClientInv'
  BY <1>2 DEF NoSender, clientVars, ClientInv, StreamTyped, CallTyped, SenderActive, FirstRequest, SameChannel, LatestCurrent, Latest
<1>3. ASSUME Build PROVE ClientInv'
  <2>1. StreamTyped'
    BY <1>3 DEF ClientInv, StreamTyped, Build
  <2>2. CallTyped'
    <3>1. current \in Requests /\ update.to \in Streams /\ update.list \in Lists /\ filter \in Filters
      BY <1>3, UpdateAt DEF ClientInv, StreamTyped, Build
    <3>2. Amended(current, update.list, filter) \in Requests
      BY <3>1, AmendedTyped
    <3> QED
      BY <1>3, <3>1, <3>2 DEF ClientInv, CallTyped, Build, UpdateRecords
  <2>3. SenderActive'
    BY <1>3 DEF ClientInv, SenderActive, Build
  <2>4. FirstRequest'
    BY <1>3 DEF ClientInv, FirstRequest, Build
  <2>5. SameChannel'
    BY <1>3 DEF ClientInv, SameChannel, Build
  <2>6. LatestCurrent'
    BY <1>3 DEF ClientInv, LatestCurrent, Latest, Build
  <2> QED
    BY <2>1, <2>2, <2>3, <2>4, <2>5, <2>6 DEF ClientInv
<1>4. ASSUME NoCurrent PROVE ClientInv'
  <2>1. StreamTyped'
    BY <1>4 DEF ClientInv, StreamTyped, NoCurrent
  <2>2. CallTyped'
    BY <1>4 DEF ClientInv, CallTyped, NoCurrent, UpdateRecords
  <2>3. SenderActive'
    BY <1>4 DEF ClientInv, SenderActive, NoCurrent
  <2>4. FirstRequest'
    BY <1>4 DEF ClientInv, FirstRequest, NoCurrent
  <2>5. SameChannel'
    BY <1>4 DEF SameChannel, NoCurrent, Idle
  <2>6. LatestCurrent'
    BY <1>4 DEF ClientInv, LatestCurrent, Latest, NoCurrent, Idle
  <2> QED
    BY <2>1, <2>2, <2>3, <2>4, <2>5, <2>6 DEF ClientInv
<1>5. ASSUME SendRequest PROVE ClientInv'
  <2>1. StreamTyped'
    <3>1. update.to \in Streams /\ update.request \in Requests
      BY <1>5, UpdateAt DEF ClientInv, SendRequest
    <3>2. queue[update.to] \in Seq(Requests)
      BY <3>1 DEF ClientInv, StreamTyped
    <3>3. Append(queue[update.to], update.request) \in Seq(Requests)
      BY <3>1, <3>2
    <3>4. queue' \in [Streams -> Seq(Requests)]
      BY <1>5, <3>3 DEF ClientInv, StreamTyped, SendRequest
    <3> QED
      BY <1>5, <3>4 DEF ClientInv, StreamTyped, SendRequest
  <2>2. CallTyped'
    <3>1. update.request \in Requests
      BY <1>5, UpdateAt DEF ClientInv, SendRequest
    <3> QED
      BY <1>5, <3>1 DEF ClientInv, CallTyped, SendRequest, UpdateRecords
  <2>3. SenderActive'
    BY <1>5 DEF ClientInv, SenderActive, SendRequest
  <2>4. FirstRequest'
    BY <1>5 DEF ClientInv, FirstRequest, SendRequest, Receiving, CallRecords, Resting
  <2>5. SameChannel'
    <3>1. update.to \in Streams
      BY <1>5, UpdateAt DEF ClientInv, SendRequest
    <3> QED
      BY <1>5, <3>1, NotStream DEF ClientInv, SameChannel, SendRequest
  <2>6. LatestCurrent'
    <3>1. SUFFICES ASSUME ~torn, NEW g \in Streams, control = g, stream[g] = "run"
                   PROVE  Latest(g)' = update.request
      BY <1>5 DEF LatestCurrent, SendRequest
    <3>2. update.to = g /\ update.request \in Requests
      BY <1>5, <3>1, UpdateAt DEF ClientInv, SameChannel, SendRequest
    <3>3. queue[g] \in Seq(Requests)
      BY DEF ClientInv, StreamTyped
    <3>4. queue'[g] = Append(queue[g], update.request)
      BY <1>5, <3>2 DEF ClientInv, StreamTyped, SendRequest
    <3> QED
      BY <3>3, <3>4 DEF Latest
  <2> QED
    BY <2>1, <2>2, <2>3, <2>4, <2>5, <2>6 DEF ClientInv
<1>6. ASSUME ChannelClosed PROVE ClientInv'
  <2>1. StreamTyped'
    BY <1>6 DEF ClientInv, StreamTyped, ChannelClosed
  <2>2. CallTyped'
    BY <1>6 DEF ClientInv, CallTyped, ChannelClosed, UpdateRecords
  <2>3. SenderActive'
    BY <1>6 DEF ClientInv, SenderActive, ChannelClosed
  <2>4. FirstRequest'
    BY <1>6 DEF ClientInv, FirstRequest, ChannelClosed
  <2>5. SameChannel'
    BY <1>6 DEF SameChannel, ChannelClosed, Idle
  <2>6. LatestCurrent'
    BY <1>6 DEF ClientInv, LatestCurrent, SameChannel, ChannelClosed, Receiving
  <2> QED
    BY <2>1, <2>2, <2>3, <2>4, <2>5, <2>6 DEF ClientInv
<1>7. ASSUME StoreCurrent PROVE ClientInv'
  <2>1. StreamTyped'
    <3>1. update.request \in Requests
      BY <1>7, UpdateAt DEF ClientInv, StoreCurrent
    <3> QED
      BY <1>7, <3>1 DEF ClientInv, StreamTyped, StoreCurrent
  <2>2. CallTyped'
    BY <1>7 DEF ClientInv, CallTyped, StoreCurrent, UpdateRecords
  <2>3. SenderActive'
    BY <1>7 DEF ClientInv, SenderActive, StoreCurrent
  <2>4. FirstRequest'
    BY <1>7 DEF ClientInv, FirstRequest, SenderActive, SameChannel, StoreCurrent
  <2>5. SameChannel'
    BY <1>7 DEF SameChannel, StoreCurrent, Idle
  <2>6. LatestCurrent'
    BY <1>7 DEF ClientInv, LatestCurrent, Latest, StoreCurrent, Idle
  <2> QED
    BY <2>1, <2>2, <2>3, <2>4, <2>5, <2>6 DEF ClientInv
<1> QED
  BY <1>1, <1>2, <1>3, <1>4, <1>5, <1>6, <1>7 DEF Caller

\* The steps of a stream's task keep it:
\* a channel drains in order, and a stream that ends is no longer run.
LEMMA TaskStep ==
  ASSUME ClientInv, NEW g \in Streams, Task(g)
  PROVE  ClientInv'
<1>1. ASSUME Forward(g) PROVE ClientInv'
  <2>1. StreamTyped'
    <3>1. queue[g] \in Seq(Requests) /\ queue[g] # <<>>
      BY <1>1 DEF ClientInv, StreamTyped, Forward
    <3>2. Head(queue[g]) \in Requests /\ Tail(queue[g]) \in Seq(Requests)
      BY <3>1
    <3>3. /\ queue' \in [Streams -> Seq(Requests)]
          /\ live' \in [Streams -> Requests \cup {None}]
      BY <1>1 DEF ClientInv, StreamTyped, Forward
    <3> QED
      BY <1>1 DEF ClientInv, StreamTyped, Forward
  <2>2. CallTyped'
    BY <1>1 DEF ClientInv, CallTyped, Forward
  <2>3. SenderActive'
    BY <1>1 DEF ClientInv, SenderActive, Forward
  <2>4. FirstRequest'
    BY <1>1 DEF ClientInv, FirstRequest, Forward, CallRecords, Resting
  <2>5. SameChannel'
    BY <1>1 DEF ClientInv, SameChannel, Forward
  <2>6. LatestCurrent'
    <3>1. queue[g] \in Seq(Requests) /\ queue[g] # <<>>
      BY <1>1 DEF ClientInv, StreamTyped, Forward
    <3>2. queue'[g] = Tail(queue[g]) /\ live'[g] = Head(queue[g])
      BY <1>1 DEF ClientInv, StreamTyped, Forward
    <3>3. Latest(g)' = Latest(g)
      BY <3>1, <3>2, TailLast DEF Latest
    <3>4. \A h \in Streams \ {g} : Latest(h)' = Latest(h)
      BY <1>1 DEF Forward, Latest
    <3> QED
      BY <1>1, <3>3, <3>4 DEF ClientInv, LatestCurrent, Forward
  <2> QED
    BY <2>1, <2>2, <2>3, <2>4, <2>5, <2>6 DEF ClientInv
<1>2. ASSUME StreamEnds(g) PROVE ClientInv'
  <2>1. StreamTyped'
    <3>1. <<>> \in Seq(Requests)
      OBVIOUS
    <3>2. queue' \in [Streams -> Seq(Requests)] /\ stream' \in [Streams -> States]
      BY <1>2 DEF ClientInv, StreamTyped, StreamEnds, States
    <3> QED
      BY <1>2, <3>2 DEF ClientInv, StreamTyped, StreamEnds
  <2>2. CallTyped'
    BY <1>2 DEF ClientInv, CallTyped, StreamEnds
  <2>3. SenderActive'
    BY <1>2 DEF ClientInv, SenderActive, StreamEnds
  <2>4. FirstRequest'
    BY <1>2 DEF ClientInv, FirstRequest, StreamEnds, CallRecords, Resting
  <2>5. SameChannel'
    BY <1>2 DEF ClientInv, SameChannel, StreamEnds
  <2>6. LatestCurrent'
    BY <1>2 DEF ClientInv, StreamTyped, LatestCurrent, Latest, StreamEnds
  <2> QED
    BY <2>1, <2>2, <2>3, <2>4, <2>5, <2>6 DEF ClientInv
<1>3. ASSUME Dropped(g) PROVE ClientInv'
  <2>1. StreamTyped'
    <3>1. <<>> \in Seq(Requests)
      OBVIOUS
    <3>2. queue' \in [Streams -> Seq(Requests)] /\ stream' \in [Streams -> States]
      BY <1>3 DEF ClientInv, StreamTyped, Dropped, States
    <3> QED
      BY <1>3, <3>2 DEF ClientInv, StreamTyped, Dropped
  <2>2. CallTyped'
    BY <1>3 DEF ClientInv, CallTyped, Dropped
  <2>3. SenderActive'
    BY <1>3 DEF ClientInv, SenderActive, Dropped
  <2>4. FirstRequest'
    BY <1>3 DEF ClientInv, FirstRequest, Dropped, CallRecords, Resting
  <2>5. SameChannel'
    BY <1>3 DEF ClientInv, SameChannel, Dropped
  <2>6. LatestCurrent'
    BY <1>3 DEF ClientInv, LatestCurrent, Latest, Dropped
  <2> QED
    BY <2>1, <2>2, <2>3, <2>4, <2>5, <2>6 DEF ClientInv
<1>4. ASSUME Reads(g) PROVE ClientInv'
  BY <1>4 DEF Reads, clientVars, ClientInv, StreamTyped, CallTyped, SenderActive, FirstRequest, SameChannel, LatestCurrent, Latest
<1> QED
  BY <1>1, <1>2, <1>3, <1>4 DEF Task

\* Every step keeps it.
LEMMA ClientStep == ClientInv /\ [ClientNext]_clientVars => ClientInv'
<1> SUFFICES ASSUME ClientInv, [ClientNext]_clientVars PROVE ClientInv'
  OBVIOUS
<1>1. CASE Main
  BY <1>1, MainStep
<1>2. CASE Caller
  BY <1>2, CallerStep
<1>3. ASSUME NEW g \in Streams, Task(g) PROVE ClientInv'
  BY <1>3, TaskStep
<1>4. CASE UNCHANGED clientVars
  BY <1>4 DEF clientVars, ClientInv, StreamTyped, CallTyped, SenderActive, FirstRequest, SameChannel, LatestCurrent, Latest
<1> QED
  BY <1>1, <1>2, <1>3, <1>4 DEF ClientNext

-----------------------------------------------------------------------------
(* The property.                                                              *)

\* A channel that has drained leaves the server the latest request, which no
\* unfinished store separates from the current one.
LEMMA DrainedApplied == ClientInv => RequestApplied
BY DEF ClientInv, LatestCurrent, Latest, RequestApplied

\* A server filters by the request the client holds as current once the channel of the
\* subscription has drained (subscribe_events_immediate, update_subscription, stop),
\* whatever the streams, calls, lists and filters.
THEOREM RequestsApplied == ClientSpec => []RequestApplied
<1>1. ClientInv => RequestApplied
  BY DrainedApplied
<1> QED
  BY <1>1, ClientStart, ClientStep, PTL DEF ClientSpec
=============================================================================
