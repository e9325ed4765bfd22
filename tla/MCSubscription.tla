---------------------------- MODULE MCSubscription ----------------------------
(* Three registrations of pools with two vaults, two of them sharing a vault.   *)
EXTENDS SubscriptionUpdater

Three == 1..3
Four  == 1..4
MCVaultsOf == [x \in Producers |-> {x, x + 1}]
=============================================================================
