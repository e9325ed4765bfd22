------------------------------ MODULE EventStream ------------------------------
(* The subscription as full_pipeline.rs runs it: the updater's loop calls          *)
(* update_subscription with the addresses it collected, the main task subscribes   *)
(* and stops, and the stream's task parses the messages it reads.                  *)
EXTENDS SubscriptionUpdater, GrpcClient, EventParser, ChainTx

\* The transactions are such as the chain brings.
ASSUME TransactionsAssumption == \A t \in Transactions : OnChain(t)

streamVars == <<vars, clientVars, parserVars>>

StreamInit == Init /\ ClientInit /\ ParserInit

-----------------------------------------------------------------------------
(* Phase 3 of the loop: the call, and its result.  The loop is at "decide" until   *)
(* the call returns.                                                               *)

Sending == pc = "decide" /\ added

UpdateStarts == Sending /\ CloneSender(account_set) /\ UNCHANGED vars
UpdateContinues == Sending /\ (Build \/ SendRequest) /\ UNCHANGED vars
UpdateDone == StoreCurrent /\ Send
UpdateError == SendFails /\ (NoSender \/ NoCurrent \/ ChannelClosed)

Updater ==
  \/ (Sleep \/ Awake \/ Drain \/ Arm \/ More \/ Deadline \/ FinalDrain \/ Skip)
     /\ UNCHANGED clientVars
  \/ UpdateStarts \/ UpdateContinues \/ UpdateDone \/ UpdateError

Register(x) == (Push(x) \/ Notify(x)) /\ UNCHANGED clientVars

\* A bound: messages are parsed before the registrations come and while no call is in
\* flight.  Parsing is one poll of the task, and shares nothing with the rest but the
\* request and the filter the stream was opened with.
Quiet ==
  /\ \A x \in Producers : producer[x] = "push"
  /\ pc = "start" /\ call.at = "idle"
  /\ call.calls = IF \E g \in Streams : stream[g] = "run" THEN 1 ELSE 0

\* The server sends what its request asks for.
Message(g) ==
  \/ live[g].transactions /\ \E t \in Transactions : parse_grpc_transaction(t)
  \/ live[g].accounts # {} /\ \E a \in Accounts : AccountUpdate(a, closure[g])
  \/ live[g].blocks_meta /\ BlockMeta

StreamTask(g) ==
  \/ (Forward(g) \/ StreamEnds(g) \/ Dropped(g)) /\ UNCHANGED parserVars
  \/ Quiet /\ Reads(g) /\ Message(g)

\* Another task feeds the parser with shreds.
Shred == Quiet /\ \E t \in Transactions : process_shred_transaction(t)

StreamNext ==
  \/ (Updater \/ \E x \in Producers : Register(x)) /\ UNCHANGED parserVars
  \/ Main /\ UNCHANGED <<vars, parserVars>>
  \/ (\E g \in Streams : StreamTask(g)) /\ UNCHANGED vars
  \/ (Shred \/ Done) /\ UNCHANGED <<vars, clientVars>>

StreamSpec == StreamInit /\ [][StreamNext]_streamVars

\* The loop and the handlers are tokio tasks; the deadline passes.
FairStream ==
  /\ StreamSpec
  /\ WF_streamVars(Updater /\ UNCHANGED parserVars)
  /\ \A x \in Producers : WF_streamVars(Register(x) /\ UNCHANGED parserVars)
-----------------------------------------------------------------------------
(* Properties of the parser.                                                    *)

Of(kind) == tx.kind = kind
\* The instructions of a transaction, by position.
Placed(t) ==
  UNION {{<<o, i>> : i \in 0..Len(t.outer[o].inner)} : o \in DOMAIN t.outer}
InsAt(t, p) == IF p[2] = 0 THEN t.outer[p[1]].ins ELSE t.outer[p[1]].inner[p[2]]
Before(p, q) == p[1] < q[1] \/ (p[1] = q[1] /\ p[2] < q[2])

\* The callback sees a transaction's events in the order its instructions ran, every
\* instruction of a wanted protocol once, whoever called it, and the balances after the
\* transaction last (event_parser.rs: "immediately process inner instructions for
\* correct ordering").
Parseable(x) ==
  \/ x.prog \in Protocols /\ x.op # "log"
       /\ dispatch_instruction(x.prog, x.op, x.len, x.n).result = "event"
  \/ x.prog = "ComputeBudget" /\ parse_compute_budget_instruction(x)
EventsInOrder ==
  Of("transaction") =>
    /\ \A i, j \in DOMAIN out : i < j => Before(out[i].at, out[j].at)
    /\ {out[i].at : i \in {j \in DOMAIN out : out[j].kind # "TokenAccount"}}
         = {p \in Placed(tx.t) : Parseable(InsAt(tx.t, p))}

\* An event is completed with the log and the amounts of its own call, never with those
\* of another call of the same pool in the same list: the first log after a call that
\* decodes is its own, and the transfers looked at end at the next call.
Swaps == {i \in DOMAIN out : "swap" \in DOMAIN out[i]}
WithFees(t) ==
  \E o \in DOMAIN t.outer : \E i \in DOMAIN t.outer[o].inner :
    t.outer[o].inner[i].op = "transferCheckedWithFee"
Whole(t, x) == SidesOf(x) # NoSides /\ ~WithFees(t)
OwnParts ==
  Of("transaction") => \A i \in Swaps :
    LET e == out[i]  x == InsAt(tx.t, e.at) IN
    /\ e.log = IF LogKind(x) = << >> THEN 0 ELSE x.id
    /\ e.swap.from_amount \in {Zero, <<x.id, "in">>}
    /\ e.swap.to_amount \in {Zero, <<x.id, "out">>}
    /\ Whole(tx.t, x) => e.swap.from_amount # Zero /\ e.swap.to_amount # Zero

\* What the interfaces allow never makes a parser index past what it was given, and the
\* mints of a swap's two sides are those of the accounts the program takes there: the
\* accounts are read by position, and every protocol, every optional account and either
\* direction has positions of its own.
ReadsRight ==
  Of("transaction") =>
    /\ \A i \in DOMAIN out : out[i].kind # "panic"
    /\ \A i \in Swaps :
         LET e == out[i]  x == InsAt(tx.t, e.at)  s == SidesOf(x) IN
         Whole(tx.t, x) => /\ e.swap.from_mint = Mint(x, s.mint_in)
                          /\ e.swap.to_mint = Mint(x, s.mint_out)

\* In a transaction that creates one token, a later trade of it is marked as the
\* developer's, and no trade is that has neither the user nor the creator of a creation
\* before it (a creator that is the default key is nobody).  The signatures remembered
\* for this are bounded, and a cleanup that comes between the two addresses a creation
\* adds may remove the first.
Creates == {i \in DOMAIN out :
              out[i].kind \in {"PumpFunCreateToken", "PumpFunCreateV2Token", "BonkPoolCreate"}}
Developers(e) == IF e.kind = "BonkPoolCreate" THEN {e.creator} ELSE {e.user, e.creator}
Trader(e) == IF e.kind = "BonkTrade" THEN {e.user} ELSE {e.user, e.creator}
Stake(e) == IF e.kind = "BonkTrade" THEN e.user ELSE e.creator
DevMarked ==
  Of("transaction") => \A j \in Swaps :
    out[j].kind \in {"PumpFunBuy", "PumpFunSell", "BonkTrade"} =>
      LET made == {i \in Creates : i < j /\ out[i].prog = out[j].prog} IN
      (Cardinality(made) <= 1 /\ \A i \in Creates : out[i].prog = out[j].prog)
        => /\ (\E i \in made : out[i].creator = Stake(out[j]) /\ Stake(out[j]) # "default")
                => out[j].dev
           /\ out[j].dev => \E i \in made : Developers(out[i]) \cap Trader(out[j]) # {}
=============================================================================
