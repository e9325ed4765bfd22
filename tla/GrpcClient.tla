------------------------------ MODULE GrpcClient ------------------------------
(* YellowstoneGrpc: a subscription made by subscribe_events_immediate, changed in  *)
(* place by update_subscription and ended by stop.  The main task subscribes and   *)
(* stops, another task updates, and every subscription has a task that reads the   *)
(* stream and forwards the requests of its control channel to the server.  The     *)
(* n-th stream that is connected is stream n.                                      *)
EXTENDS Integers, Sequences

CONSTANTS
  Filters,     \* the event type filters a caller may pass; {} is None
  Lists,       \* the accounts a call may ask for
  FirstLists,  \* and those a subscription may begin with
  MaxStreams,  \* bound: streams connected
  MaxCalls     \* bound: calls of subscribe_events_immediate

NoFilter == {}

ASSUME ClientAssumption ==
  /\ NoFilter \in Filters /\ FirstLists \subseteq Lists
  /\ MaxStreams \in Nat \ {0} /\ MaxCalls \in Nat

VARIABLES
  active,     \* active_subscription
  handle,     \* subscription_handle: the stream it aborts, 0 for None
  control,    \* control_tx: the stream whose channel it feeds, 0 for None
  current,    \* current_request, or None
  filter,     \* event_type_filter
  call,       \* the main task: the step of subscribe or stop it is at, and its locals
  update,     \* the updating task: the step of update_subscription, and its locals
  stream,     \* stream -> its task: "none", "run", "aborted", "gone", "ended"
  queue,      \* stream -> the requests in its control channel
  closure,    \* stream -> the filter its task was spawned with
  live,       \* stream -> the last request the server took, or None
  torn        \* history: a stop overlapped an update

clientVars == <<active, handle, control, current, filter, call, update,
                stream, queue, closure, live, torn>>

Streams == 1..MaxStreams
None == [none |-> TRUE]
Idle == [at |-> "idle"]

-----------------------------------------------------------------------------
(* Requests.  A filter is the set of event types it includes.                 *)

ACCOUNT_EVENT_TYPES == {"protocol", "nonce", "TokenAccount"}
BLOCK_EVENT_TYPES == {"BlockMeta"}
include_account_event(f) == f = NoFilter \/ f \cap ACCOUNT_EVENT_TYPES # {}
include_block_event(f) == f = NoFilter \/ f \cap BLOCK_EVENT_TYPES # {}
include_transaction_event(f) ==
  f = NoFilter \/ f \ (ACCOUNT_EVENT_TYPES \cup BLOCK_EVENT_TYPES) # {}

\* The transactions and accounts maps; None becomes the empty map.
get_subscribe_request_filter(f) == include_transaction_event(f)
subscribe_with_account_request(list, f) ==
  IF include_account_event(f) THEN list ELSE {}

Request(list, f) ==
  [transactions |-> get_subscribe_request_filter(f),
   accounts     |-> subscribe_with_account_request(list, f),
   blocks_meta  |-> include_block_event(f)]

\* An update keeps the blocks (and the commitment) of the request it starts from.
Amended(base, list, f) ==
  [base EXCEPT !.transactions = get_subscribe_request_filter(f),
               !.accounts = subscribe_with_account_request(list, f)]

ClientInit ==
  /\ active = FALSE /\ handle = 0 /\ control = 0 /\ current = None
  /\ filter = NoFilter
  /\ call = [at |-> "idle", calls |-> 0] /\ update = Idle
  /\ stream = [g \in Streams |-> "none"]
  /\ queue = [g \in Streams |-> <<>>]
  /\ closure = [g \in Streams |-> NoFilter]
  /\ live = [g \in Streams |-> None]
  /\ torn = FALSE

Updating == update.at # "idle"
Stopping == call.at \in {"stop control", "stop current", "stop active"}

-----------------------------------------------------------------------------
(* subscribe_events_immediate.                                                *)

\* The filter is written before it is known whether the call is refused.
WriteFilter(list, f) ==
  /\ call.at = "idle" /\ call.calls < MaxCalls
  /\ filter' = f
  /\ call' = [at |-> "claim", calls |-> call.calls + 1, list |-> list, filter |-> f]
  /\ UNCHANGED <<active, handle, control, current, update, stream, queue, live, torn, closure>>

\* compare_exchange: "Already subscribed".
Refused ==
  /\ call.at = "claim" /\ active
  /\ call' = [at |-> "idle", calls |-> call.calls]
  /\ UNCHANGED <<active, handle, control, current, filter, update, stream, queue,
                 live, torn, closure>>

\* Mutant: a second subscription is not refused.
ClaimAnyway ==
  /\ call.at = "claim"
  /\ active' = TRUE
  /\ call' = [call EXCEPT !.at = "connect"]
  /\ UNCHANGED <<handle, control, current, filter, update, stream, queue, live, torn, closure>>

Claim ==
  /\ call.at = "claim" /\ ~active
  /\ active' = TRUE
  /\ call' = [call EXCEPT !.at = "connect"]
  /\ UNCHANGED <<handle, control, current, filter, update, stream, queue, live, torn, closure>>

\* A failed connect leaves active_subscription set.
ConnectFails ==
  /\ call.at = "connect"
  /\ call' = [at |-> "idle", calls |-> call.calls]
  /\ UNCHANGED <<active, handle, control, current, filter, update, stream, queue,
                 live, torn, closure>>

\* subscribe_with_request: the server holds the first request.
Connect(g) ==
  /\ call.at = "connect"
  /\ stream[g] = "none" /\ \A h \in Streams : h < g => stream[h] # "none"
  /\ LET r == Request(call.list, call.filter) IN
       /\ live' = [live EXCEPT ![g] = r]
       /\ closure' = [closure EXCEPT ![g] = call.filter]
       /\ call' = [at |-> "current", calls |-> call.calls, g |-> g, request |-> r]
  /\ stream' = [stream EXCEPT ![g] = "connected"]
  /\ UNCHANGED <<active, handle, control, current, filter, update, queue, torn>>

WriteCurrent ==
  /\ call.at = "current"
  /\ current' = call.request
  /\ call' = [call EXCEPT !.at = "control"]
  /\ UNCHANGED <<active, handle, control, filter, update, stream, queue, live, torn, closure>>

\* The control channel is made and its sender stored; the task is spawned.
WriteControl ==
  /\ call.at = "control"
  /\ control' = call.g
  /\ stream' = [stream EXCEPT ![call.g] = "run"]
  /\ call' = [call EXCEPT !.at = "handle"]
  /\ UNCHANGED <<active, handle, current, filter, update, queue, live, torn, closure>>

WriteHandle ==
  /\ call.at = "handle"
  /\ handle' = call.g
  /\ call' = [at |-> "idle", calls |-> call.calls]
  /\ UNCHANGED <<active, control, current, filter, update, stream, queue, live, torn, closure>>

-----------------------------------------------------------------------------
(* stop.                                                                      *)

\* An aborted task ends where it next waits.
StopTask ==
  /\ call.at = "idle"
  /\ stream' = IF handle = 0 \/ stream[handle] # "run" THEN stream
               ELSE [stream EXCEPT ![handle] = "aborted"]
  /\ handle' = 0
  /\ call' = [call EXCEPT !.at = "stop control"]
  /\ torn' = (torn \/ Updating)
  /\ UNCHANGED <<active, control, current, filter, update, queue, live, closure>>

StopControl ==
  /\ call.at = "stop control"
  /\ control' = 0
  /\ call' = [call EXCEPT !.at = "stop current"]
  /\ torn' = (torn \/ Updating)
  /\ UNCHANGED <<active, handle, current, filter, update, stream, queue, live, closure>>

StopCurrent ==
  /\ call.at = "stop current"
  /\ current' = None
  /\ call' = [call EXCEPT !.at = "stop active"]
  /\ torn' = (torn \/ Updating)
  /\ UNCHANGED <<active, handle, control, filter, update, stream, queue, live, closure>>

StopActive ==
  /\ call.at = "stop active"
  /\ active' = FALSE
  /\ call' = [call EXCEPT !.at = "idle"]
  /\ torn' = (torn \/ Updating)
  /\ UNCHANGED <<handle, control, current, filter, update, stream, queue, live, closure>>

Main ==
  \/ \E list \in FirstLists, f \in Filters : WriteFilter(list, f)
  \/ Refused \/ Claim \/ ConnectFails \/ \E g \in Streams : Connect(g)
  \/ WriteCurrent \/ WriteControl \/ WriteHandle
  \/ StopTask \/ StopControl \/ StopCurrent \/ StopActive

-----------------------------------------------------------------------------
(* update_subscription.  The locks are released between the steps.            *)

\* The sender is cloned; without a subscription, or a channel, an error.
CloneSender(list) ==
  /\ update = Idle
  /\ active /\ control # 0
  /\ update' = [at |-> "build", to |-> control, list |-> list]
  /\ torn' = (torn \/ Stopping)
  /\ UNCHANGED <<active, handle, control, current, filter, call, stream, queue, live, closure>>

NoSender ==
  /\ update = Idle
  /\ ~active \/ control = 0
  /\ UNCHANGED clientVars

\* current_request is read and amended; None is an error.
Build ==
  /\ update.at = "build" /\ current # None
  /\ update' = [at |-> "send", to |-> update.to,
                request |-> Amended(current, update.list, filter)]
  /\ UNCHANGED <<active, handle, control, current, filter, call, stream, queue, live,
                 torn, closure>>

NoCurrent ==
  /\ update.at = "build" /\ current = None
  /\ update' = Idle
  /\ UNCHANGED <<active, handle, control, current, filter, call, stream, queue, live,
                 torn, closure>>

\* The channel takes the request while its task has not ended,
Receiving(g) == stream[g] \in {"run", "aborted"}
SendRequest ==
  /\ update.at = "send" /\ Receiving(update.to)
  /\ queue' = [queue EXCEPT ![update.to] = Append(@, update.request)]
  /\ update' = [at |-> "store", request |-> update.request]
  /\ UNCHANGED <<active, handle, control, current, filter, call, stream, live, torn, closure>>

\* and is an error after it.
ChannelClosed ==
  /\ update.at = "send" /\ ~Receiving(update.to)
  /\ update' = Idle
  /\ UNCHANGED <<active, handle, control, current, filter, call, stream, queue, live,
                 torn, closure>>

\* Only a request that was sent becomes the current one.
StoreCurrent ==
  /\ update.at = "store"
  /\ current' = update.request
  /\ update' = Idle
  /\ UNCHANGED <<active, handle, control, filter, call, stream, queue, live, torn, closure>>

-----------------------------------------------------------------------------
(* The stream's task.                                                         *)

\* A request of the control channel goes to the server.
Forward(g) ==
  /\ Receiving(g) /\ queue[g] # <<>>
  /\ live' = [live EXCEPT ![g] = Head(queue[g])]
  /\ queue' = [queue EXCEPT ![g] = Tail(@)]
  /\ UNCHANGED <<active, handle, control, current, filter, call, update, stream, torn, closure>>

\* A stream error, the end of the stream or a failed forward ends the loop; nothing
\* restarts it, and active_subscription stays set.
StreamEnds(g) ==
  /\ stream[g] = "run"
  /\ stream' = [stream EXCEPT ![g] = "ended"]
  /\ queue' = [queue EXCEPT ![g] = <<>>]
  /\ UNCHANGED <<active, handle, control, current, filter, call, update, live, torn, closure>>

\* The aborted task is dropped at its next await.
Dropped(g) ==
  /\ stream[g] = "aborted"
  /\ stream' = [stream EXCEPT ![g] = "gone"]
  /\ queue' = [queue EXCEPT ![g] = <<>>]
  /\ UNCHANGED <<active, handle, control, current, filter, call, update, live, torn, closure>>

\* The task takes a message of the stream.
Reads(g) == Receiving(g) /\ UNCHANGED clientVars

-----------------------------------------------------------------------------
(* The client by itself, with a caller that updates at any time.              *)

Caller ==
  \/ \E list \in Lists : CloneSender(list)
  \/ NoSender \/ Build \/ NoCurrent \/ SendRequest \/ ChannelClosed \/ StoreCurrent

Task(g) == Forward(g) \/ StreamEnds(g) \/ Dropped(g) \/ Reads(g)

ClientNext == Main \/ Caller \/ \E g \in Streams : Task(g)

ClientSpec == ClientInit /\ [][ClientNext]_clientVars

-----------------------------------------------------------------------------
(* Properties.                                                                *)

\* Once its channel has drained, the server filters by the request the client holds as
\* current, but between a send and the store of what was sent: so an update never starts
\* from a request the server does not have, across refused and failed subscriptions,
\* requests forwarded late and channels that close under an update.  Only a stop that
\* overlaps an update breaks it.
RequestApplied ==
  \A g \in Streams :
    (~torn /\ control = g /\ stream[g] = "run" /\ queue[g] = <<>> /\ update.at # "store")
      => live[g] = current
=============================================================================
