------------------------------- MODULE Channels -------------------------------
(* What the stages of full_pipeline share: the cached pools and the two bounded    *)
(* channels between them.                                                         *)
EXTENDS Integers, Sequences

CONSTANTS
  UpdateCap,    \* capacity of the update channel
  OfferCap      \* capacity of the opportunity channel (4096)

VARIABLES
  cache,        \* the pools, with their math and slot; Absent before they are known
  updates,      \* update_rx: which pool changed
  opps          \* opp_rx

Absent == [a |-> "", b |-> "", dex |-> "", math |-> [kind |-> "none"], listed |-> <<>>, slot |-> 0]

\* update_vault_balance: a constant-product pool has reserves to set; the slot is every
\* pool's.
WithBalance(e, side, balance, slot) ==
  [e EXCEPT !.slot = slot,
            !.math = IF @.kind # "cp" THEN @
                     ELSE IF side = "a" THEN [@ EXCEPT !.a = balance]
                     ELSE [@ EXCEPT !.b = balance]]

\* try_send
Offered(chan, cap, x) == IF Len(chan) < cap THEN Append(chan, x) ELSE chan
=============================================================================
