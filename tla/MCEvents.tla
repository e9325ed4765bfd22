------------------------------- MODULE MCEvents -------------------------------
(* The subscription of full_pipeline.rs with two registrations, two streams and the *)
(* transactions below.                                                              *)
EXTENDS EventStream

Two == 1..2
Three == 1..3
MCVaultsOf == [x \in Producers |-> {x, x + 1}]
MCFilters == {{}, {"TokenAccount"}}
MCLists == SUBSET Three
MCFirstLists == {{3}}

Balance(listed, amount) == [listed |-> listed, amount |-> amount]
Tx(outer) == [outer |-> outer, balances |-> << >>]

\* Every call the interfaces allow, alone at the top of a transaction,
Alone ==
  UNION {{Tx(<<Called(Ins(row[1], row[2], len, n, 1, "u", "c", dir), op)>>) :
            len \in row[3], n \in row[4],
            dir \in IF row[1] = "RaydiumAmmV4" THEN {1, 2} ELSE {1},
            op \in {"transferChecked", "transferCheckedWithFee"}} : row \in Idl}

\* and two calls of a router, of the same pool or of two protocols.
Swap(prog, id) ==
  CASE prog = "Bonk" -> Ins(prog, "buy_exact_in", 24, 18, id, "u", "c", 1)
    [] prog = "PumpFun" -> Ins(prog, "sell", 16, 14, id, "u", "c", 1)
    [] prog = "PumpSwap" -> Ins(prog, "buy", 17, 23, id, "u", "c", 1)
    [] prog = "RaydiumCpmm" -> Ins(prog, "swap_base_input", 16, 13, id, "u", "c", 1)
    [] prog = "RaydiumClmm" -> Ins(prog, "swap_v2", 33, 13, id, "u", "c", 1)
    [] prog = "RaydiumAmmV4" -> Ins(prog, "swap_base_in", 16, 17, id, "u", "c", 2)
    [] prog = "MeteoraDammV2" -> Ins(prog, "swap2", 17, 14, id, "u", "c", 1)
Traded == {"Bonk", "PumpFun", "PumpSwap", "RaydiumCpmm", "RaydiumClmm", "RaydiumAmmV4",
           "MeteoraDammV2"}
Routed == {Tx(<<TwoCalls(Swap(p, 1), Swap(q, 2))>>) : p, q \in Traded}
\* The same with the router's own transfers between them, tokens with a fee or not.
Tipped ==
  {Tx(<<Tipping(Swap(p, 1), op, Swap(q, 2))>>) :
     p \in Traded, q \in {"PumpSwap", "RaydiumCpmm"},
     op \in {"transferChecked", "transferCheckedWithFee"}}

\* A budget, a router, a direct call, and balances that are not all good.
Mixed ==
  {[outer |-> <<BudgetCall("limit", 5), BudgetCall("price", len),
                TwoCalls(Swap("PumpFun", 1), Swap("Bonk", 2)),
                Called(Swap("RaydiumCpmm", 3), "transferChecked")>>,
    balances |-> <<Balance(listed, TRUE), Balance(TRUE, amount), Balance(TRUE, TRUE)>>]
     : len \in {8, 9}, listed, amount \in BOOLEAN}

\* Tokens created and traded in one transaction, by the developer and by another.
Creation(op, user, creator) ==
  CASE op = "create" -> Ins("PumpFun", op, 44, 14, 1, user, creator, 1)
    [] op = "create_v2" -> Ins("PumpFun", op, 46, 16, 1, user, creator, 1)
    [] op = "initialize" -> Ins("Bonk", op, 55, 18, 1, user, creator, 1)
Bought(op, user, creator) ==
  IF op = "initialize" THEN Ins("Bonk", "buy_exact_in", 24, 18, 2, user, creator, 1)
  ELSE Ins("PumpFun", "buy", 17, 16, 2, user, creator, 1)
Launched ==
  {Tx(<<TwoCalls(Creation(op, "u", "c"), Bought(op, user, creator))>>) :
     op \in {"create", "initialize"}, user \in {"u", "c", "v"}, creator \in {"c", "d"}}
  \cup {Tx(<<TwoCalls(Creation("create_v2", "u", "u"), Bought("create_v2", "v", "u"))>>),
        Tx(<<TwoCalls(Creation("create", "u", "default"), Bought("create", "v", "default"))>>)}
Plain == {Tx(<<Called(Bought(op, "c", "c"), "transferChecked")>>) : op \in {"create", "initialize"}}
Launches == Launched \cup Plain

MCTransactions == Alone \cup Routed \cup Tipped \cup Mixed \cup Launches
Update(owner, known, nonce, mint) ==
  [owner |-> owner, known |-> known, nonce |-> nonce, mint |-> mint]
MCAccounts ==
  {Update("RaydiumCpmm", known, FALSE, FALSE) : known \in BOOLEAN}
  \cup {Update("System", FALSE, TRUE, FALSE), Update("Token", FALSE, FALSE, TRUE)}

\* What the parser keeps touches nothing of the client's: while it holds something, the
\* rest of the system is at rest, and what it remembers meets only launches.
Apart ==
  /\ tx # Nought \/ DOMAIN sigs # {} => Quiet
  /\ DOMAIN sigs # {} /\ tx.kind \in {"transaction", "shred"} => tx.t \in Launches
  /\ DOMAIN sigs # {} => tx.kind \notin {"account", "block"}
=============================================================================
