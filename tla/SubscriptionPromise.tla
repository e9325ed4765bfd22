-------------------------- MODULE SubscriptionPromise --------------------------
(* What the subscription updater promises its clients: the addresses the gRPC   *)
(* stream is subscribed to were asked for, and none is ever dropped again.      *)
CONSTANT Addrs
VARIABLES wanted, subscribed

Init == wanted = {} /\ subscribed = {}

Ask(as) == wanted' = wanted \cup as /\ UNCHANGED subscribed

\* A subscription request replaces the one before it.
Resubscribe(as) ==
  /\ subscribed \subseteq as /\ as \subseteq wanted
  /\ subscribed' = as /\ UNCHANGED wanted

Next == \E as \in SUBSET Addrs : Ask(as) \/ Resubscribe(as)

Spec == Init /\ [][Next]_<<wanted, subscribed>>
=============================================================================
