------------------------------- MODULE EventLogs -------------------------------
(* The events the programs log through a call to themselves, as the inner          *)
(* instruction parsers decode them, and the pairs of events that are merged.  A     *)
(* log is known by its discriminator and the length of what follows it; the         *)
(* program that logged it is not looked at.                                         *)
EXTENDS Naturals

NoEvent == "none"

bonk_trade_event_log_decode(len) == len >= 32 + 8 * 13 + 1 + 1 + 1
bonk_pool_create_event_log_decode(len) == len >= 256
\* Three strings, here empty, four keys and five numbers; the flags of v2 are optional.
pumpfun_create_v2_token_event_log_decode(len) == len >= 3 * 4 + 4 * 32 + 5 * 8
pumpfun_trade_event_log_decode(len) == len >= 250
pumpfun_migrate_event_log_decode(len) == len >= 160
pump_swap_buy_event_log_decode(len) == len >= 385
pump_swap_sell_event_log_decode(len) == len >= 352
pump_swap_create_pool_event_log_decode(len) == len >= 325
pump_swap_deposit_event_log_decode(len) == len >= 248
pump_swap_withdraw_event_log_decode(len) == len >= 248
meteora_damm_v2_swap_event_decode(len) == len >= 180

Decoded(ok, kind) == IF ok THEN kind ELSE NoEvent

\* Bonk and PumpFun give their trade events the same discriminator.
parse_bonk_inner_instruction_data(disc, len) ==
  CASE disc = "trade" -> Decoded(bonk_trade_event_log_decode(len), "BonkTrade")
    [] disc = "pool create" ->
         Decoded(bonk_pool_create_event_log_decode(len), "BonkPoolCreate")
    [] OTHER -> NoEvent

\* The log of a create is decoded as a create_v2 event.
parse_pumpfun_inner_instruction_data(disc, len) ==
  CASE disc = "create" ->
         Decoded(pumpfun_create_v2_token_event_log_decode(len), "PumpFunCreateV2Token")
    [] disc = "trade" -> Decoded(pumpfun_trade_event_log_decode(len), "PumpFunTrade")
    [] disc = "migrate" -> Decoded(pumpfun_migrate_event_log_decode(len), "PumpFunMigrate")
    [] OTHER -> NoEvent

parse_pumpswap_inner_instruction_data(disc, len) ==
  CASE disc = "swap buy" -> Decoded(pump_swap_buy_event_log_decode(len), "PumpSwapBuy")
    [] disc = "swap sell" -> Decoded(pump_swap_sell_event_log_decode(len), "PumpSwapSell")
    [] disc = "swap pool" ->
         Decoded(pump_swap_create_pool_event_log_decode(len), "PumpSwapCreatePool")
    [] disc = "swap deposit" ->
         Decoded(pump_swap_deposit_event_log_decode(len), "PumpSwapDeposit")
    [] disc = "swap withdraw" ->
         Decoded(pump_swap_withdraw_event_log_decode(len), "PumpSwapWithdraw")
    [] OTHER -> NoEvent

parse_meteora_damm_v2_inner_instruction_data(disc, len) ==
  CASE disc = "damm swap" -> Decoded(meteora_damm_v2_swap_event_decode(len), "DammSwap")
    [] disc = "damm init" -> "DammInit"
    [] OTHER -> NoEvent

\* The Raydium, DLMM and Orca parsers decode no logs.
dispatch_inner_instruction(protocol, disc, len) ==
  CASE protocol = "PumpFun" -> parse_pumpfun_inner_instruction_data(disc, len)
    [] protocol = "PumpSwap" -> parse_pumpswap_inner_instruction_data(disc, len)
    [] protocol = "Bonk" -> parse_bonk_inner_instruction_data(disc, len)
    [] protocol = "MeteoraDammV2" ->
         parse_meteora_damm_v2_inner_instruction_data(disc, len)
    [] OTHER -> NoEvent

-----------------------------------------------------------------------------
(* merge: which log completes which event; any other pair is left alone.       *)

MergesTrade == {<<"PumpFunBuy", "PumpFunTrade">>, <<"PumpFunSell", "PumpFunTrade">>}
MergesCreate == {<<"PumpFunCreateToken", "PumpFunCreateV2Token">>}
MergesCreateV2 == {<<"PumpFunCreateV2Token", "PumpFunCreateV2Token">>}
MergesMigrate == {<<"PumpFunMigrate", "PumpFunMigrate">>}
MergesBonkTrade == {<<"BonkTrade", "BonkTrade">>}
MergesBonkPool == {<<"BonkPoolCreate", "BonkPoolCreate">>}
MergesSwapBuy == {<<"PumpSwapBuy", "PumpSwapBuy">>}
MergesSwapSell == {<<"PumpSwapSell", "PumpSwapSell">>}
MergesSwapPool == {<<"PumpSwapCreatePool", "PumpSwapCreatePool">>}
MergesSwapDeposit == {<<"PumpSwapDeposit", "PumpSwapDeposit">>}
MergesSwapWithdraw == {<<"PumpSwapWithdraw", "PumpSwapWithdraw">>}
MergesDammSwap == {<<"DammSwap", "DammSwap">>, <<"DammSwap2", "DammSwap">>}
MergesDammInit == {"DammInit", "DammInitCustomizable", "DammInitDynamic"} \X {"DammInit"}

Merges ==
  MergesTrade \cup MergesCreate \cup MergesCreateV2 \cup MergesMigrate
  \cup MergesBonkTrade \cup MergesBonkPool \cup MergesSwapBuy \cup MergesSwapSell
  \cup MergesSwapPool \cup MergesSwapDeposit \cup MergesSwapWithdraw
  \cup MergesDammSwap \cup MergesDammInit
=============================================================================
