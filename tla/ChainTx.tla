-------------------------------- MODULE ChainTx --------------------------------
(* The transactions the programs on chain can put in front of the parser: their    *)
(* interfaces (the idl directory), and what a swap does after it is called.        *)
EXTENDS Integers, Sequences

\* <<program, instruction, sizes of its data, numbers of its accounts>>.  Options and
\* curves make the sizes vary, optional and remaining accounts the numbers.
BonkIdl ==
  {<<"Bonk", "buy_exact_in", {24}, {15, 18}>>, <<"Bonk", "buy_exact_out", {24}, {15, 18}>>,
   <<"Bonk", "sell_exact_in", {24}, {15, 18}>>, <<"Bonk", "sell_exact_out", {24}, {15, 18}>>,
   <<"Bonk", "initialize", {55, 63}, {18}>>, <<"Bonk", "initialize_v2", {56, 64}, {18}>>,
   <<"Bonk", "initialize_with_token_2022", {57, 65}, {15}>>,
   <<"Bonk", "migrate_to_amm", {17}, {32}>>, <<"Bonk", "migrate_to_cpswap", {0}, {28}>>}
PumpFunIdl ==
  {<<"PumpFun", "create", {44}, {14}>>, <<"PumpFun", "create_v2", {46}, {16}>>,
   <<"PumpFun", "buy", {17}, {16}>>, <<"PumpFun", "buy_exact_sol_in", {17}, {16}>>,
   <<"PumpFun", "sell", {16}, {14}>>, <<"PumpFun", "migrate", {0}, {24}>>}
PumpSwapIdl ==
  {<<"PumpSwap", "buy", {17}, {23}>>, <<"PumpSwap", "buy_exact_quote_in", {17}, {23}>>,
   <<"PumpSwap", "sell", {16}, {21}>>, <<"PumpSwap", "create_pool", {52}, {18}>>,
   <<"PumpSwap", "deposit", {24}, {15}>>, <<"PumpSwap", "withdraw", {24}, {15}>>}
CpmmIdl ==
  {<<"RaydiumCpmm", "swap_base_input", {16}, {13}>>,
   <<"RaydiumCpmm", "swap_base_output", {16}, {13}>>,
   <<"RaydiumCpmm", "deposit", {24}, {13}>>, <<"RaydiumCpmm", "withdraw", {24}, {14}>>,
   <<"RaydiumCpmm", "initialize", {24}, {20}>>}
ClmmIdl ==
  {<<"RaydiumClmm", "swap", {33}, {10, 12}>>, <<"RaydiumClmm", "swap_v2", {33}, {13, 16}>>,
   <<"RaydiumClmm", "create_pool", {24}, {13}>>,
   <<"RaydiumClmm", "close_position", {0}, {6}>>,
   <<"RaydiumClmm", "increase_liquidity_v2", {33, 34}, {15}>>,
   <<"RaydiumClmm", "decrease_liquidity_v2", {32}, {16}>>,
   <<"RaydiumClmm", "open_position_v2", {50, 51}, {22}>>,
   <<"RaydiumClmm", "open_position_with_token_22_nft", {50, 51}, {20}>>}
AmmIdl ==
  {<<"RaydiumAmmV4", "swap_base_in", {16}, {17, 18}>>,
   <<"RaydiumAmmV4", "swap_base_out", {16}, {17, 18}>>,
   <<"RaydiumAmmV4", "deposit", {24}, {14}>>, <<"RaydiumAmmV4", "withdraw", {8}, {22}>>,
   <<"RaydiumAmmV4", "initialize2", {25}, {21}>>,
   <<"RaydiumAmmV4", "withdraw_pnl", {0}, {17}>>}
MeteoraIdl ==
  {<<"MeteoraDammV2", "swap", {16}, {14}>>, <<"MeteoraDammV2", "swap2", {17}, {14, 15}>>,
   <<"MeteoraDammV2", "initialize_pool", {33, 41}, {20}>>,
   <<"MeteoraDammV2", "initialize_customizable_pool", {99, 107}, {19}>>,
   <<"MeteoraDammV2", "initialize_pool_with_dynamic_config", {99, 107}, {21}>>,
   <<"MeteoraDlmm", "swap", {16}, {15}>>, <<"MeteoraDlmm", "swap2", {20}, {16, 18}>>}
OrcaIdl ==
  {<<"OrcaWhirlpool", "swap", {34}, {11}>>, <<"OrcaWhirlpool", "swap_v2", {35}, {15}>>}
Idl == BonkIdl \cup PumpFunIdl \cup PumpSwapIdl \cup CpmmIdl \cup ClmmIdl \cup AmmIdl
         \cup MeteoraIdl \cup OrcaIdl

\* An instruction as signed by user; creator is the token's, dir the side a swap takes
\* where the data and not the instruction says it.
Ins(prog, op, len, n, id, user, creator, dir) ==
  [prog |-> prog, op |-> op, len |-> len, n |-> n, id |-> id,
   user |-> user, creator |-> creator, dir |-> dir]

-----------------------------------------------------------------------------
(* The accounts a swap moves tokens between, and the mints on either side.      *)

Sides(pays, into, from, gets, mint_in, mint_out) ==
  [pays |-> pays, into |-> into, from |-> from, gets |-> gets,
   mint_in |-> mint_in, mint_out |-> mint_out]
NoSides == Sides(-1, -1, -1, -1, -1, -1)

\* Without target orders the accounts behind them come one place earlier.
AmmSides(x) ==
  LET At(p) == IF x.n = 17 THEN p - 1 ELSE p IN
  IF x.dir = 1 THEN Sides(At(15), At(5), At(6), At(16), -1, -1)
  ELSE Sides(At(15), At(6), At(5), At(16), -1, -1)

SidesOf(x) ==
  CASE x.prog = "Bonk" /\ x.op \in {"buy_exact_in", "buy_exact_out"} -> Sides(6, 8, 7, 5, 10, 9)
    [] x.prog = "Bonk" /\ x.op \in {"sell_exact_in", "sell_exact_out"} -> Sides(5, 7, 8, 6, 9, 10)
    [] x.prog = "PumpFun" /\ x.op \in {"buy", "buy_exact_sol_in"} -> Sides(6, 3, 4, 5, -2, 2)
    [] x.prog = "PumpFun" /\ x.op = "sell" -> Sides(5, 4, 3, 6, 2, -2)
    [] x.prog = "PumpSwap" /\ x.op \in {"buy", "buy_exact_quote_in"} -> Sides(6, 8, 7, 5, 4, 3)
    [] x.prog = "PumpSwap" /\ x.op = "sell" -> Sides(5, 7, 8, 6, 3, 4)
    [] x.prog = "RaydiumCpmm" /\ x.op \in {"swap_base_input", "swap_base_output"} ->
         Sides(4, 6, 7, 5, 10, 11)
    [] x.prog = "RaydiumClmm" /\ x.op = "swap" -> Sides(3, 5, 6, 4, -1, -1)
    [] x.prog = "RaydiumClmm" /\ x.op = "swap_v2" -> Sides(3, 5, 6, 4, 11, 12)
    [] x.prog = "RaydiumAmmV4" /\ x.op \in {"swap_base_in", "swap_base_out"} -> AmmSides(x)
    [] OTHER -> NoSides

Mint(x, p) == CASE p = -1 -> <<"default">> [] p = -2 -> <<"SOL">> [] OTHER -> <<x.prog, p>>

-----------------------------------------------------------------------------
(* What a call is followed by in the list of inner instructions.                *)

\* A token with a fee on transfers is moved by TransferCheckedWithFee.
Move(x, src, dst, side, op) ==
  [prog |-> "Token", op |-> op, len |-> 10, n |-> 4, id |-> x.id,
   src |-> <<x.prog, src>>, dst |-> <<x.prog, dst>>, amount |-> <<x.id, side>>]
Moves(x, op) ==
  LET s == SidesOf(x) IN
  IF s = NoSides THEN << >>
  ELSE <<Move(x, s.pays, s.into, "in", op), Move(x, s.from, s.gets, "out", "transferChecked")>>

\* The programs' own logs: what the call is logged as, and how long the log is.
LogKind(x) ==
  CASE x.prog = "Bonk" /\ SidesOf(x) # NoSides -> <<"trade", 139>>
    [] x.prog = "Bonk" /\ x.op \in {"initialize", "initialize_v2", "initialize_with_token_2022"} ->
         <<"pool create", 256>>
    [] x.prog = "PumpFun" /\ SidesOf(x) # NoSides -> <<"trade", 250>>
    [] x.prog = "PumpFun" /\ x.op \in {"create", "create_v2"} -> <<"create", 214>>
    [] x.prog = "PumpFun" /\ x.op = "migrate" -> <<"migrate", 160>>
    [] x.prog = "PumpSwap" /\ x.op \in {"buy", "buy_exact_quote_in"} -> <<"swap buy", 385>>
    [] x.prog = "PumpSwap" /\ x.op = "sell" -> <<"swap sell", 352>>
    [] x.prog = "PumpSwap" /\ x.op = "create_pool" -> <<"swap pool", 325>>
    [] x.prog = "PumpSwap" /\ x.op = "deposit" -> <<"swap deposit", 248>>
    [] x.prog = "PumpSwap" /\ x.op = "withdraw" -> <<"swap withdraw", 248>>
    [] x.prog = "MeteoraDammV2" /\ x.op \in {"swap", "swap2"} -> <<"damm swap", 180>>
    [] x.prog = "MeteoraDammV2" /\ x.op \notin {"swap", "swap2"} -> <<"damm init", 180>>
    [] OTHER -> << >>
Log(x) ==
  IF LogKind(x) = << >> THEN << >>
  ELSE <<[prog |-> x.prog, op |-> "log", disc |-> LogKind(x)[1], len |-> LogKind(x)[2],
          n |-> 1, id |-> x.id, user |-> x.user, creator |-> x.creator]>>

Caused(x, op) == Moves(x, op) \o Log(x)

\* A transfer of the router's own, to whoever it serves or tips.
Tip(op) ==
  [prog |-> "System", op |-> op, len |-> 8, n |-> 2, id |-> 0,
   src |-> <<"router", 1>>, dst |-> <<"router", 2>>, amount |-> <<0, "tip">>]

\* A call at the top of a transaction, and a router that makes the calls xs.
Called(x, op) == [ins |-> x, inner |-> Caused(x, op)]
Router == [prog |-> "router", op |-> "route", len |-> 9, n |-> 9, id |-> 0]
TwoCalls(x, y) == [ins |-> Router, inner |-> <<x>> \o Caused(x, "transferChecked")
                                             \o <<y>> \o Caused(y, "transferChecked")]
Tipping(x, op, y) ==
  [ins |-> Router, inner |-> <<x>> \o Caused(x, op) \o <<Tip("transfer"), y>>
                             \o Caused(y, "transferChecked") \o <<Tip("transfer")>>]
BudgetCall(op, len) ==
  [ins |-> [prog |-> "ComputeBudget", op |-> op, len |-> len, n |-> 0, id |-> 0],
   inner |-> << >>]

-----------------------------------------------------------------------------
(* What the parser may count on.                                               *)

Programs == {row[1] : row \in Idl}

\* A call is one the interfaces allow.
IsCall(x) ==
  /\ \E row \in Idl : x.prog = row[1] /\ x.op = row[2] /\ x.len \in row[3] /\ x.n \in row[4]
  /\ x.id # 0

\* A transfer that is not between accounts of x's pool.
Elsewhere(y, x) == y.src # <<"default">> /\ (SidesOf(x) = NoSides \/ y.src[1] # x.prog)

\* The node sends what x, the c-th of the list, caused, in the order it ran.  Until the
\* next program's instruction there may be transfers of the caller's behind it, apart
\* from x's pool.
Plumbing == {"System", "Token", "Token2022"}
Follows(list, c, x) ==
  \E op \in {"transferChecked", "transferCheckedWithFee"} :
    LET n == Len(Caused(x, op)) IN
    /\ c + n <= Len(list)
    /\ \A i \in 1..n : list[c + i] = Caused(x, op)[i]
    /\ \A j \in (c + n + 1)..Len(list) :
         \/ \E i \in (c + 1)..j : list[i].prog \notin Plumbing
         \/ list[j].op \notin {"transfer", "transferChecked"}
         \/ Elsewhere(list[j], x)

IsSeq(s) == s \in Seq({s[i] : i \in DOMAIN s})
OnChain(t) ==
  /\ IsSeq(t.outer) /\ IsSeq(t.balances)
  /\ \A o \in DOMAIN t.outer :
       LET g == t.outer[o]
           At(c) == IF c = 0 THEN g.ins ELSE g.inner[c]
       IN  /\ IsSeq(g.inner)
           /\ \A c \in 0..Len(g.inner) :
                At(c).prog \in Programs /\ At(c).op # "log" =>
                  IsCall(At(c)) /\ Follows(g.inner, c, At(c))
=============================================================================
