------------------------------ MODULE EventLayout ------------------------------
(* What the instruction parsers of streaming/event_parser/protocols read: the       *)
(* length and the number of accounts each insists on, how far it then reads, and    *)
(* the accounts it takes for the two sides of a swap.  Positions count from 0, and  *)
(* the length is that of the data after the discriminator.                          *)
EXTENDS Integers

\* The accounts a parser takes for the payer's, the pool's and the mints' side of a
\* swap; the fields parse_swap_data_from_next_grpc_instructions looks at.
NoRole == -1
NoRoles == [user_from |-> NoRole, user_to |-> NoRole, from_vault |-> NoRole,
            to_vault |-> NoRole, from_mint |-> NoRole, to_mint |-> NoRole]
Roles(uf, ut, fv, tv, fm, tm) ==
  [user_from |-> uf, user_to |-> ut, from_vault |-> fv, to_vault |-> tv,
   from_mint |-> fm, to_mint |-> tm]
Mints(fm, tm) == Roles(NoRole, NoRole, NoRole, NoRole, fm, tm)

Nothing == [result |-> "none"]
Panic == [result |-> "panic"]
Event(kind, roles) == [result |-> "event", kind |-> kind, roles |-> roles]

\* Below minLen bytes or minAccounts accounts a parser returns None.  Past that it
\* indexes the first `reads` bytes and the first `last` accounts without a check.
Checked(len, n, minLen, minAccounts, reads, last, event) ==
  IF len < minLen \/ n < minAccounts THEN Nothing
  ELSE IF len < reads \/ n < last THEN Panic
  ELSE event

\* The usual parser: everything it reads is covered by its checks.
Guarded(len, n, minLen, minAccounts, event) ==
  Checked(len, n, minLen, minAccounts, minLen, minAccounts, event)

-----------------------------------------------------------------------------
(* Bonk.  share_fee_rate is read with a check of its own, so trades need 24.   *)

BonkRoles == Roles(5, 6, 7, 8, 9, 10)
bonk_buy_exact_in(len, n)   == Guarded(len, n, 24, 18, Event("BonkTrade", BonkRoles))
bonk_buy_exact_out(len, n)  == Guarded(len, n, 24, 18, Event("BonkTrade", BonkRoles))
bonk_sell_exact_in(len, n)  == Guarded(len, n, 24, 18, Event("BonkTrade", BonkRoles))
bonk_sell_exact_out(len, n) == Guarded(len, n, 24, 18, Event("BonkTrade", BonkRoles))

\* The three parameter structures: mint 13, fixed curve 18, vesting 24 bytes, the
\* strings empty.
BonkParams == 13 + 18 + 24
bonk_initialize(len, n) ==
  Checked(len, n, BonkParams, 0, BonkParams, 10, Event("BonkPoolCreate", NoRoles))
\* amm_fee_on is indexed after them.
bonk_initialize_v2(len, n) ==
  Checked(len, n, BonkParams, 0, BonkParams + 1, 10, Event("BonkPoolCreate", NoRoles))
bonk_initialize_with_token_2022(len, n) ==
  Checked(len, n, BonkParams, 0, BonkParams + 1, 10, Event("BonkPoolCreate", NoRoles))
bonk_migrate_to_amm(len, n) ==
  Checked(len, n, 16, 0, 17, 32, Event("BonkMigrateToAmm", NoRoles))
bonk_migrate_to_cpswap(len, n) ==
  Checked(len, n, 0, 0, 0, 28, Event("BonkMigrateToCpswap", NoRoles))

parse_bonk_instruction_data(op, len, n) ==
  CASE op = "buy_exact_in" -> bonk_buy_exact_in(len, n)
    [] op = "buy_exact_out" -> bonk_buy_exact_out(len, n)
    [] op = "sell_exact_in" -> bonk_sell_exact_in(len, n)
    [] op = "sell_exact_out" -> bonk_sell_exact_out(len, n)
    [] op = "initialize" -> bonk_initialize(len, n)
    [] op = "initialize_v2" -> bonk_initialize_v2(len, n)
    [] op = "initialize_with_token_2022" -> bonk_initialize_with_token_2022(len, n)
    [] op = "migrate_to_amm" -> bonk_migrate_to_amm(len, n)
    [] op = "migrate_to_cpswap" -> bonk_migrate_to_cpswap(len, n)
    [] OTHER -> Nothing

-----------------------------------------------------------------------------
(* PumpFun and PumpSwap.  A trade's mints are known from the instruction.      *)

pumpfun_create(len, n) == Guarded(len, n, 16, 14, Event("PumpFunCreateToken", NoRoles))
pumpfun_create_v2(len, n) ==
  Guarded(len, n, 16, 16, Event("PumpFunCreateV2Token", NoRoles))
pumpfun_buy(len, n) == Guarded(len, n, 16, 16, Event("PumpFunBuy", Mints(NoRole, 2)))
pumpfun_buy_exact_sol_in(len, n) ==
  Guarded(len, n, 16, 16, Event("PumpFunBuy", Mints(NoRole, 2)))
pumpfun_sell(len, n) == Guarded(len, n, 16, 14, Event("PumpFunSell", Mints(2, NoRole)))
pumpfun_migrate(len, n) == Guarded(len, n, 0, 24, Event("PumpFunMigrate", NoRoles))

parse_pumpfun_instruction_data(op, len, n) ==
  CASE op = "create" -> pumpfun_create(len, n)
    [] op = "create_v2" -> pumpfun_create_v2(len, n)
    [] op = "buy" -> pumpfun_buy(len, n)
    [] op = "buy_exact_sol_in" -> pumpfun_buy_exact_sol_in(len, n)
    [] op = "sell" -> pumpfun_sell(len, n)
    [] op = "migrate" -> pumpfun_migrate(len, n)
    [] OTHER -> Nothing

pumpswap_buy(len, n) == Guarded(len, n, 16, 13, Event("PumpSwapBuy", Mints(4, 3)))
pumpswap_buy_exact_quote_in(len, n) ==
  Guarded(len, n, 16, 13, Event("PumpSwapBuy", Mints(4, 3)))
pumpswap_sell(len, n) == Guarded(len, n, 16, 13, Event("PumpSwapSell", Mints(3, 4)))
pumpswap_create_pool(len, n) ==
  Guarded(len, n, 18, 11, Event("PumpSwapCreatePool", NoRoles))
pumpswap_deposit(len, n) == Guarded(len, n, 24, 11, Event("PumpSwapDeposit", NoRoles))
pumpswap_withdraw(len, n) == Guarded(len, n, 24, 11, Event("PumpSwapWithdraw", NoRoles))

parse_pumpswap_instruction_data(op, len, n) ==
  CASE op = "buy" -> pumpswap_buy(len, n)
    [] op = "buy_exact_quote_in" -> pumpswap_buy_exact_quote_in(len, n)
    [] op = "sell" -> pumpswap_sell(len, n)
    [] op = "create_pool" -> pumpswap_create_pool(len, n)
    [] op = "deposit" -> pumpswap_deposit(len, n)
    [] op = "withdraw" -> pumpswap_withdraw(len, n)
    [] OTHER -> Nothing

-----------------------------------------------------------------------------
(* Raydium.                                                                    *)

\* Mutant: the two mints are exchanged.
CpmmMintsExchanged(len, n) ==
  Guarded(len, n, 16, 13, Event("CpmmSwap", Roles(4, 5, 6, 7, 11, 10)))

cpmm_swap_base_input(len, n) ==
  Guarded(len, n, 16, 13, Event("CpmmSwap", Roles(4, 5, 6, 7, 10, 11)))

cpmm_swap_base_output(len, n) ==
  Guarded(len, n, 16, 13, Event("CpmmSwap", Roles(4, 5, 6, 7, 10, 11)))
cpmm_deposit(len, n) == Guarded(len, n, 24, 13, Event("CpmmDeposit", NoRoles))
cpmm_initialize(len, n) == Guarded(len, n, 24, 20, Event("CpmmInitialize", NoRoles))
cpmm_withdraw(len, n) == Guarded(len, n, 24, 14, Event("CpmmWithdraw", NoRoles))

parse_raydium_cpmm_instruction_data(op, len, n) ==
  CASE op = "swap_base_input" -> cpmm_swap_base_input(len, n)
    [] op = "swap_base_output" -> cpmm_swap_base_output(len, n)
    [] op = "deposit" -> cpmm_deposit(len, n)
    [] op = "initialize" -> cpmm_initialize(len, n)
    [] op = "withdraw" -> cpmm_withdraw(len, n)
    [] OTHER -> Nothing

clmm_swap(len, n) ==
  Guarded(len, n, 33, 10, Event("ClmmSwap", Roles(3, 4, 5, 6, NoRole, NoRole)))
clmm_swap_v2(len, n) ==
  Guarded(len, n, 33, 13, Event("ClmmSwapV2", Roles(3, 4, 5, 6, 11, 12)))
clmm_close_position(len, n) == Guarded(len, n, 0, 6, Event("ClmmClose", NoRoles))
clmm_decrease_liquidity_v2(len, n) ==
  Guarded(len, n, 32, 16, Event("ClmmDecrease", NoRoles))
clmm_create_pool(len, n) == Guarded(len, n, 24, 13, Event("ClmmCreate", NoRoles))
\* An optional flag that is absent leaves the data a byte short of these.
clmm_increase_liquidity_v2(len, n) ==
  Guarded(len, n, 34, 15, Event("ClmmIncrease", NoRoles))
clmm_open_position_with_token_22_nft(len, n) ==
  Guarded(len, n, 51, 20, Event("ClmmOpen", NoRoles))
clmm_open_position_v2(len, n) == Guarded(len, n, 51, 22, Event("ClmmOpen", NoRoles))

parse_raydium_clmm_instruction_data(op, len, n) ==
  CASE op = "swap" -> clmm_swap(len, n)
    [] op = "swap_v2" -> clmm_swap_v2(len, n)
    [] op = "close_position" -> clmm_close_position(len, n)
    [] op = "decrease_liquidity_v2" -> clmm_decrease_liquidity_v2(len, n)
    [] op = "create_pool" -> clmm_create_pool(len, n)
    [] op = "increase_liquidity_v2" -> clmm_increase_liquidity_v2(len, n)
    [] op = "open_position_with_token_22_nft" ->
         clmm_open_position_with_token_22_nft(len, n)
    [] op = "open_position_v2" -> clmm_open_position_v2(len, n)
    [] OTHER -> Nothing

\* With 17 accounts the target orders are missing: a default is inserted at 4, and
\* what follows is read one place earlier than its index says.
AmmRoles(n) ==
  IF n = 17 THEN Roles(14, 15, 5, 4, NoRole, NoRole)
            ELSE Roles(15, 16, 6, 5, NoRole, NoRole)
amm_v4_swap_base_in(len, n) == Guarded(len, n, 16, 17, Event("AmmSwap", AmmRoles(n)))
amm_v4_swap_base_out(len, n) == Guarded(len, n, 16, 17, Event("AmmSwap", AmmRoles(n)))
amm_v4_deposit(len, n) == Guarded(len, n, 24, 14, Event("AmmDeposit", NoRoles))
amm_v4_initialize2(len, n) == Guarded(len, n, 25, 21, Event("AmmInitialize2", NoRoles))
amm_v4_withdraw(len, n) == Guarded(len, n, 8, 22, Event("AmmWithdraw", NoRoles))
amm_v4_withdraw_pnl(len, n) == Guarded(len, n, 0, 17, Event("AmmWithdrawPnl", NoRoles))

parse_raydium_amm_v4_instruction_data(op, len, n) ==
  CASE op = "swap_base_in" -> amm_v4_swap_base_in(len, n)
    [] op = "swap_base_out" -> amm_v4_swap_base_out(len, n)
    [] op = "deposit" -> amm_v4_deposit(len, n)
    [] op = "initialize2" -> amm_v4_initialize2(len, n)
    [] op = "withdraw" -> amm_v4_withdraw(len, n)
    [] op = "withdraw_pnl" -> amm_v4_withdraw_pnl(len, n)
    [] OTHER -> Nothing

-----------------------------------------------------------------------------
(* Meteora and Orca.  Their swaps carry no accounts for the swap data.         *)

damm_swap(len, n) == Guarded(len, n, 16, 14, Event("DammSwap", NoRoles))
\* The swap mode is byte 16, indexed after a check for 16.  From 15 accounts on the
\* twelfth is the referral's and the fifteenth is read; with fewer, the fourteenth is.
damm_swap2(len, n) ==
  Checked(len, n, 16, 13, 17, IF n >= 15 THEN 15 ELSE 14, Event("DammSwap2", NoRoles))
damm_initialize_pool(len, n) == Guarded(len, n, 33, 20, Event("DammInit", NoRoles))
damm_initialize_customizable_pool(len, n) ==
  Guarded(len, n, 99, 19, Event("DammInitCustomizable", NoRoles))
damm_initialize_pool_with_dynamic_config(len, n) ==
  Guarded(len, n, 99, 21, Event("DammInitDynamic", NoRoles))

parse_meteora_damm_v2_instruction_data(op, len, n) ==
  CASE op = "swap" -> damm_swap(len, n)
    [] op = "swap2" -> damm_swap2(len, n)
    [] op = "initialize_pool" -> damm_initialize_pool(len, n)
    [] op = "initialize_customizable_pool" -> damm_initialize_customizable_pool(len, n)
    [] op = "initialize_pool_with_dynamic_config" ->
         damm_initialize_pool_with_dynamic_config(len, n)
    [] OTHER -> Nothing

dlmm_swap2(len, n) == Guarded(len, n, 16, 15, Event("DlmmSwap2", NoRoles))
parse_meteora_dlmm_instruction_data(op, len, n) ==
  IF op = "swap2" THEN dlmm_swap2(len, n) ELSE Nothing

orca_swap_v2(len, n) == Guarded(len, n, 34, 15, Event("OrcaSwapV2", NoRoles))
parse_orca_whirlpool_instruction_data(op, len, n) ==
  IF op = "swap_v2" THEN orca_swap_v2(len, n) ELSE Nothing

dispatch_instruction(protocol, op, len, n) ==
  CASE protocol = "PumpFun" -> parse_pumpfun_instruction_data(op, len, n)
    [] protocol = "PumpSwap" -> parse_pumpswap_instruction_data(op, len, n)
    [] protocol = "Bonk" -> parse_bonk_instruction_data(op, len, n)
    [] protocol = "RaydiumCpmm" -> parse_raydium_cpmm_instruction_data(op, len, n)
    [] protocol = "RaydiumClmm" -> parse_raydium_clmm_instruction_data(op, len, n)
    [] protocol = "RaydiumAmmV4" -> parse_raydium_amm_v4_instruction_data(op, len, n)
    [] protocol = "MeteoraDammV2" -> parse_meteora_damm_v2_instruction_data(op, len, n)
    [] protocol = "MeteoraDlmm" -> parse_meteora_dlmm_instruction_data(op, len, n)
    [] protocol = "OrcaWhirlpool" -> parse_orca_whirlpool_instruction_data(op, len, n)
=============================================================================
