------------------------------ MODULE EventParser ------------------------------
(* EventParser and GlobalState: the events a transaction, an account update or a   *)
(* block gives the callback, in the order it is called.  A transaction is a         *)
(* sequence of instructions, each with the inner instructions it caused; an         *)
(* instruction knows its program, what it is, the length of its data, the number    *)
(* of its accounts and, to tell its parts from another's, an id.                    *)
EXTENDS Integers, Sequences, FiniteSets, SequencesExt, EventLayout, EventLogs

CONSTANTS
  Protocols,          \* the protocols subscribed to
  Transactions,       \* the transactions the stream may bring
  Accounts,           \* and the account updates
  Signatures,         \* 1..n, the signatures of transactions
  MAX_SIGNATURES,     \* bounds: the code has 1000
  CLEANUP_BATCH_SIZE  \* and 100

\* match_protocol_by_program_id knows the protocols a subscription may name.
Dex == {"PumpFun", "PumpSwap", "Bonk", "RaydiumCpmm", "RaydiumClmm", "RaydiumAmmV4",
        "MeteoraDammV2", "MeteoraDlmm", "OrcaWhirlpool"}
ASSUME ParserAssumption == Protocols \subseteq Dex /\ Signatures \subseteq Nat

VARIABLES
  sigs,  \* GlobalState.signature_data: signature -> the developers seen in it
  tx,    \* what the callback was last called for, or Nought
  out    \* the events it was called with

parserVars == <<sigs, tx, out>>

Nought == [kind |-> "none"]
Default == <<"default">>
Zero == << >>  \* an amount is <<id, side>>: which call moved it, and in or out
NoSwap == [from_mint |-> Default, to_mint |-> Default,
           from_amount |-> Zero, to_amount |-> Zero]

ParserInit == sigs = << >> /\ tx = Nought /\ out = << >>

\* The program is a known one and asked for; the event type filter is not looked at.
should_handle(prog) == prog \in Dex \cap Protocols \/ prog = "ComputeBudget"

\* A limit is five bytes, a price nine; here the length counts the tag.
parse_compute_budget_instruction(x) ==
  \/ x.op = "limit" /\ x.len >= 5
  \/ x.op = "price" /\ x.len >= 9

-----------------------------------------------------------------------------
(* The swap data, from the transfers that follow an instruction.               *)

AccountAt(x, p) == IF p = NoRole THEN Default ELSE <<x.prog, p>>

\* The accounts of an event's roles.  A PumpFun or PumpSwap trade knows its mints.
RoleAccounts(x, roles) == [r \in DOMAIN roles |-> AccountAt(x, roles[r])]
Preset(kind, accts) ==
  CASE kind = "PumpFunBuy" -> [NoSwap EXCEPT !.from_mint = <<"SOL">>, !.to_mint = accts.to_mint]
    [] kind = "PumpFunSell" -> [NoSwap EXCEPT !.from_mint = accts.from_mint, !.to_mint = <<"SOL">>]
    [] kind \in {"PumpSwapBuy", "PumpSwapSell"} ->
         [NoSwap EXCEPT !.from_mint = accts.from_mint, !.to_mint = accts.to_mint]
    [] OTHER -> NoSwap

\* The pairs of accounts, in the order the code tries them.
FromSide(s, mint, amount) == [s EXCEPT !.from_mint = mint, !.from_amount = amount]
ToSide(s, mint, amount) == [s EXCEPT !.to_mint = mint, !.to_amount = amount]
Sided(s, a, x) ==
  LET Is(src, dst) == x.src = src /\ x.dst = dst IN
  IF Is(a.user_to, a.to_vault) THEN FromSide(s, a.to_mint, x.amount)
  ELSE IF Is(a.from_vault, a.user_from) THEN ToSide(s, a.from_mint, x.amount)
  ELSE IF Is(a.user_from, a.from_vault) THEN FromSide(s, a.from_mint, x.amount)
  ELSE IF Is(a.to_vault, a.user_to) THEN ToSide(s, a.to_mint, x.amount)
  ELSE IF Is(a.user_from, a.to_vault) THEN FromSide(s, a.from_mint, x.amount)
  ELSE IF Is(a.from_vault, a.user_to) THEN ToSide(s, a.to_mint, x.amount)
  ELSE s

\* One turn of the loop: it stops at the first program that is not the system's or a
\* token program, skips what is not a plain transfer (one with a fee is not), and stops
\* when both mints or both amounts are known.
SYSTEM_PROGRAMS == {"System", "Token", "Token2022"}
Turn(acc, x) ==
  IF acc.done THEN acc
  ELSE IF x.prog \notin SYSTEM_PROGRAMS THEN [acc EXCEPT !.done = TRUE]
  ELSE IF x.op \notin {"transfer", "transferChecked"} THEN acc
  ELSE LET s == Sided(acc.swap, acc.accts, x) IN
       [acc EXCEPT !.swap = s,
          !.done = \/ s.from_mint # Default /\ s.to_mint # Default
                   \/ s.from_amount # Zero /\ s.to_amount # Zero]

\* NoSwap is None: nothing was found.
parse_swap_data_from_next_grpc_instructions(e, x, inner, current) ==
  LET accts == RoleAccounts(x, e.roles)
      start == [swap |-> Preset(e.kind, accts), accts |-> accts, done |-> FALSE]
      turns[k \in 0..(Len(inner) - current)] ==
        IF k = 0 THEN start ELSE Turn(turns[k - 1], inner[current + k])
  IN  turns[Len(inner) - current].swap

-----------------------------------------------------------------------------
(* One instruction.  Its event is completed by the first log after it that the    *)
(* protocol's parser accepts.                                                     *)

\* Mutant: the search starts at the beginning of the list.
LogAnywhere(x, inner, current) ==
  LET found == {j \in DOMAIN inner :
                  /\ inner[j].op = "log"
                  /\ dispatch_inner_instruction(x.prog, inner[j].disc, inner[j].len)
                       # NoEvent}
  IN  IF found = {} THEN Nought
      ELSE inner[CHOOSE j \in found : \A k \in found : j <= k]

LogOf(x, inner, current) ==
  LET found == {j \in DOMAIN inner :
                  /\ j > current /\ inner[j].op = "log"
                  /\ dispatch_inner_instruction(x.prog, inner[j].disc, inner[j].len)
                       # NoEvent}
  IN  IF found = {} THEN Nought
      ELSE inner[CHOOSE j \in found : \A k \in found : j <= k]

\* merge: what the log says replaces what the instruction says.
merge(event, log) ==
  IF log = Nought
     \/ <<event.kind, dispatch_inner_instruction(event.prog, log.disc, log.len)>> \notin Merges
  THEN event
  ELSE [event EXCEPT !.log = log.id, !.user = log.user, !.creator = log.creator]

\* A trade's creator is in its log only; a pool's or a token's is in the instruction.
Raw(x, at, parsed) ==
  [kind |-> parsed.kind, at |-> at, prog |-> x.prog, id |-> x.id, log |-> 0,
   swap |-> NoSwap, user |-> x.user,
   creator |-> IF parsed.kind \in {"PumpFunBuy", "PumpFunSell"} THEN "default" ELSE x.creator,
   dev |-> FALSE]

Budget(at) == [kind |-> "ComputeBudget", at |-> at, id |-> 0]
Panicked(at) == [kind |-> "panic", at |-> at, id |-> 0]

\* The events (none or one) of instruction x, the current-th of its list (0 for the
\* outer instruction); inner is the list, empty when the node sent none.
parse_events_from_grpc_instruction(x, at, inner, current) ==
  LET parsed == dispatch_instruction(x.prog, x.op, x.len, x.n) IN
  IF ~should_handle(x.prog) THEN << >>
  ELSE IF x.prog = "ComputeBudget" THEN
    IF parse_compute_budget_instruction(x) THEN <<Budget(at)>> ELSE << >>
  ELSE IF parsed = Nothing THEN << >>
  ELSE IF parsed = Panic THEN <<Panicked(at)>>
  ELSE LET raw == Raw(x, at, parsed)
           swap == IF inner = << >> THEN NoSwap
                   ELSE parse_swap_data_from_next_grpc_instructions(parsed, x, inner, current)
       IN  <<merge([raw EXCEPT !.swap = swap], LogOf(x, inner, current))>>

\* The twin for a VersionedTransaction looks for the log and the transfers in two
\* threads and joins them.
parse_events_from_instruction(x, at, inner, current) ==
  parse_events_from_grpc_instruction(x, at, inner, current)

-----------------------------------------------------------------------------
(* A transaction: every instruction, and after it those it caused, in order, if    *)
(* one of its accounts is a program to handle.                                     *)

has_program(t) ==
  \E o \in DOMAIN t.outer :
    \/ should_handle(t.outer[o].ins.prog)
    \/ \E i \in DOMAIN t.outer[o].inner : should_handle(t.outer[o].inner[i].prog)

\* Mutant: the inner instructions come after all the outer ones.
InnerLast(t) ==
  FlattenSeq([o \in DOMAIN t.outer |->
    parse_events_from_grpc_instruction(t.outer[o].ins, <<o, 0>>, t.outer[o].inner, 0)])
  \o FlattenSeq([o \in DOMAIN t.outer |->
       FlattenSeq([i \in DOMAIN t.outer[o].inner |->
         parse_events_from_grpc_instruction(t.outer[o].inner[i], <<o, i>>,
                                            t.outer[o].inner, i)])])

parse_instruction_events_from_grpc_transaction(t) ==
  LET OfOuter(o) ==
        LET g == t.outer[o] IN
        parse_events_from_grpc_instruction(g.ins, <<o, 0>>, g.inner, 0)
        \o FlattenSeq([i \in DOMAIN g.inner |->
             parse_events_from_grpc_instruction(g.inner[i], <<o, i>>, g.inner, i)])
  IN  IF has_program(t) THEN FlattenSeq([o \in DOMAIN t.outer |-> OfOuter(o)]) ELSE << >>

\* A shred has no inner instructions.
parse_instruction_events_from_versioned_transaction(t) ==
  IF has_program([outer |-> [o \in DOMAIN t.outer |-> [t.outer[o] EXCEPT !.inner = << >>]]])
  THEN FlattenSeq([o \in DOMAIN t.outer |->
         parse_events_from_instruction(t.outer[o].ins, <<o, 0>>, << >>, 0)])
  ELSE << >>

\* The balances after the transaction come last: an account that is not in the list,
\* or an amount that is not a number, is passed over.
BalanceEvents(t) ==
  LET good == {b \in DOMAIN t.balances : t.balances[b].listed /\ t.balances[b].amount} IN
  [i \in 1..Cardinality(good) |->
     [kind |-> "TokenAccount", at |-> <<Len(t.outer) + 1, i>>, id |-> 0]]

-----------------------------------------------------------------------------
(* GlobalState.                                                                *)

\* Above the limit a batch of signatures, whichever the map lists first, is removed;
\* compare_exchange_weak may fail, and then none is.
maybe_cleanup(s) ==
  IF Cardinality(DOMAIN s) <= MAX_SIGNATURES THEN {s}
  ELSE {s} \cup {[g \in DOMAIN s \ gone |-> s[g]] :
                   gone \in {d \in SUBSET DOMAIN s : Cardinality(d) = CLEANUP_BATCH_SIZE}}

Insert(s, g, entry) ==
  [h \in DOMAIN s \cup {g} |-> (IF h \in DOMAIN s THEN s[h] ELSE {})
                                \cup (IF h = g THEN {entry} ELSE {})]

\* Mutant: the cleanup comes after the insertion, and may remove what was inserted.
CleanupLast(s, g, entry) == maybe_cleanup(Insert(s, g, entry))

\* The cleanup comes before the insertion.
add_dev_address(s, g, entry) == {Insert(c, g, entry) : c \in maybe_cleanup(s)}

IsDev(s, g, entry) == g \in DOMAIN s /\ entry \in s[g]

-----------------------------------------------------------------------------
(* process_event.                                                              *)

\* The developers an event adds: a creator who is not the user after the user.
Adds(s, g, e) ==
  CASE e.kind \in {"PumpFunCreateToken", "PumpFunCreateV2Token"} ->
         LET first == add_dev_address(s, g, <<"dev", e.user>>) IN
         IF e.creator \in {"default", e.user} THEN first
         ELSE UNION {add_dev_address(c, g, <<"dev", e.creator>>) : c \in first}
    [] e.kind = "BonkPoolCreate" -> add_dev_address(s, g, <<"bonk", e.creator>>)
    [] OTHER -> {s}

\* A trade is marked as its developer's, and takes its amounts from the log.
Amounts(e) ==
  [e EXCEPT !.swap = IF @ = NoSwap THEN @
     ELSE [@ EXCEPT !.from_amount = IF e.log = 0 THEN Zero ELSE <<e.log, "in">>,
                    !.to_amount = IF e.log = 0 THEN Zero ELSE <<e.log, "out">>]]

Processed(s, g, e) ==
  CASE e.kind \in {"PumpFunBuy", "PumpFunSell"} ->
         [Amounts(e) EXCEPT !.dev = IsDev(s, g, <<"dev", e.user>>)
                                    \/ IsDev(s, g, <<"dev", e.creator>>)]
    [] e.kind \in {"PumpSwapBuy", "PumpSwapSell"} -> Amounts(e)
    [] e.kind = "BonkTrade" -> [e EXCEPT !.dev = IsDev(s, g, <<"bonk", e.user>>)]
    [] OTHER -> e

\* What handling the events of a transaction may lead to.  A panic ends the task.
process_event(acc, g, e) ==
  IF acc.out # << >> /\ Last(acc.out).kind = "panic" THEN {acc}
  ELSE {[sigs |-> s, out |-> Append(acc.out, Processed(s, g, e))] :
          s \in Adds(acc.sigs, g, e)}

Outcomes(g, events) ==
  LET after[k \in 0..Len(events)] ==
        IF k = 0 THEN {[sigs |-> sigs, out |-> << >>]}
        ELSE UNION {process_event(acc, g, events[k]) : acc \in after[k - 1]}
  IN  after[Len(events)]

Fresh == CHOOSE g \in Signatures \ DOMAIN sigs :
           \A h \in Signatures \ DOMAIN sigs : g <= h

\* parse_grpc_transaction: the instructions' events, then the balances.
parse_grpc_transaction(t) ==
  /\ tx = Nought /\ Signatures \ DOMAIN sigs # {}
  /\ \E acc \in Outcomes(Fresh, parse_instruction_events_from_grpc_transaction(t)) :
       /\ sigs' = acc.sigs
       /\ out' = acc.out \o BalanceEvents(t)
  /\ tx' = [kind |-> "transaction", t |-> t]

process_shred_transaction(t) ==
  /\ tx = Nought /\ Signatures \ DOMAIN sigs # {}
  /\ \E acc \in Outcomes(Fresh, parse_instruction_events_from_versioned_transaction(t)) :
       /\ sigs' = acc.sigs
       /\ out' = acc.out
  /\ tx' = [kind |-> "shred", t |-> t]

-----------------------------------------------------------------------------
(* An account update, and a block.                                             *)

\* A mint, or whatever else as a token account; both are of type TokenAccount.
parse_token_account_event(a) ==
  [kind |-> IF a.mint THEN "TokenInfo" ELSE "TokenAccount", type |-> "TokenAccount"]

\* The protocol's own account, if its parser takes it; a nonce; a token account.  The
\* first the filter includes is passed on.
parse_account_event(a, f) ==
  LET own == IF a.owner \in Dex \cap Protocols /\ a.known
             THEN <<[kind |-> "protocol", type |-> "protocol"]>> ELSE << >>
      nonce == IF a.nonce THEN <<[kind |-> "nonce", type |-> "nonce"]>> ELSE << >>
      all == own \o nonce \o <<parse_token_account_event(a)>>
      passed == SelectSeq(all, LAMBDA k : f = {} \/ k.type \in f)
  IN  IF passed = << >> THEN << >>
      ELSE <<[kind |-> Head(passed).kind, at |-> <<0, 0>>, id |-> 0]>>

\* f is the filter of the subscription, {} for none.
AccountUpdate(a, f) ==
  /\ tx = Nought
  /\ out' = parse_account_event(a, f)
  /\ tx' = [kind |-> "account", a |-> a, f |-> f]
  /\ UNCHANGED sigs

BlockMeta ==
  /\ tx = Nought
  /\ out' = <<[kind |-> "BlockMeta", at |-> <<0, 0>>, id |-> 0]>>
  /\ tx' = [kind |-> "block"]
  /\ UNCHANGED sigs

\* The callback has been called; nothing of the message is kept but the developers.
Done ==
  /\ tx # Nought
  /\ tx' = Nought /\ out' = << >>
  /\ UNCHANGED sigs
=============================================================================
