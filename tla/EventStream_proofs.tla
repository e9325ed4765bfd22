-------------------------- MODULE EventStream_proofs --------------------------
(* The events the callback is given, for every set of transactions the chain may    *)
(* bring.  An instruction gives at most one event (OneEvent); a transaction's events *)
(* are those of its instructions, in the order of their positions                    *)
(* (InstructionsInOrder); handling them one by one keeps kinds, places and parts,    *)
(* and what is remembered of the developers (AllHandled).                            *)
EXTENDS EventStream, WellFoundedInduction, SequenceTheorems, FiniteSetTheorems, TLAPS

-----------------------------------------------------------------------------
(* What a call of each program is read as.                                    *)

Read(x) == dispatch_instruction(x.prog, x.op, x.len, x.n)

PumpTrades == {"PumpFunBuy", "PumpFunSell", "PumpSwapBuy", "PumpSwapSell"}

\* The parser takes no account for a user's or a vault's.
NoPlaces(r) ==
  /\ DOMAIN r = DOMAIN NoRoles
  /\ {r.user_from, r.user_to, r.from_vault, r.to_vault} = {NoRole}

\* The four accounts it takes are those the tokens move between, and it takes the mint
\* of each side there.
Placing(x, r, uf, ut, fv, tv, fm, tm) ==
  LET s == SidesOf(x) IN
  /\ s.pays = uf /\ s.gets = ut /\ s.into = fv /\ s.from = tv
  /\ Mint(x, s.mint_in) = AccountAt(x, fm) /\ Mint(x, s.mint_out) = AccountAt(x, tm)
Direct(x, r) ==
  Placing(x, r, r.user_from, r.user_to, r.from_vault, r.to_vault, r.from_mint, r.to_mint)
Backward(x, r) ==
  Placing(x, r, r.user_to, r.user_from, r.to_vault, r.from_vault, r.to_mint, r.from_mint)
Crossed(x, r) ==
  Placing(x, r, r.user_from, r.user_to, r.to_vault, r.from_vault, r.from_mint, r.to_mint)
Distinct(r) ==
  /\ DOMAIN r = DOMAIN NoRoles
  /\ {r.user_from, r.user_to, r.from_vault, r.to_vault} \subseteq Nat
  /\ r.user_from \notin {r.user_to, r.from_vault, r.to_vault}
  /\ r.user_to \notin {r.from_vault, r.to_vault}
  /\ r.from_vault # r.to_vault

ReadPlaces(x, d) ==
  IF SidesOf(x) = NoSides THEN NoPlaces(d.roles) /\ d.kind \notin PumpTrades
  ELSE IF d.kind \in PumpTrades
  THEN /\ NoPlaces(d.roles)
       /\ Preset(d.kind, RoleAccounts(x, d.roles))
            = [NoSwap EXCEPT !.from_mint = Mint(x, SidesOf(x).mint_in),
                             !.to_mint = Mint(x, SidesOf(x).mint_out)]
       /\ Mint(x, SidesOf(x).mint_in) # Default
  ELSE /\ Distinct(d.roles)
       /\ Direct(x, d.roles) \/ Backward(x, d.roles) \/ Crossed(x, d.roles)

ReadLog(x, d) ==
  IF LogKind(x) = << >> THEN \A decoded : <<d.kind, decoded>> \notin Merges
  ELSE <<d.kind, dispatch_inner_instruction(x.prog, LogKind(x)[1], LogKind(x)[2])>> \in Merges

PumpFunKinds == {"PumpFunCreateToken", "PumpFunCreateV2Token", "PumpFunBuy", "PumpFunSell"}
BonkKinds == {"BonkPoolCreate", "BonkTrade"}
ReadKind(x, d) ==
  /\ d.kind \notin {"panic", "TokenAccount", "ComputeBudget"}
  /\ d.kind \in PumpFunKinds => x.prog = "PumpFun"
  /\ d.kind \in BonkKinds => x.prog = "Bonk"

CallReads(x) ==
  LET d == Read(x) IN
  \/ d = Nothing
  \/ d.result = "event" /\ ReadKind(x, d) /\ ReadPlaces(x, d) /\ ReadLog(x, d)

\* Each interface is that of its program.
LEMMA RowsOf ==
  /\ \A row \in BonkIdl : row[1] = "Bonk"
  /\ \A row \in PumpFunIdl : row[1] = "PumpFun"
  /\ \A row \in PumpSwapIdl : row[1] = "PumpSwap"
  /\ \A row \in CpmmIdl : row[1] = "RaydiumCpmm"
  /\ \A row \in ClmmIdl : row[1] = "RaydiumClmm"
  /\ \A row \in AmmIdl : row[1] = "RaydiumAmmV4"
  /\ \A row \in MeteoraIdl : row[1] \in {"MeteoraDammV2", "MeteoraDlmm"}
  /\ \A row \in OrcaIdl : row[1] = "OrcaWhirlpool"
<1>1. \A row \in BonkIdl : row[1] = "Bonk"
  BY DEF BonkIdl
<1>2. \A row \in PumpFunIdl : row[1] = "PumpFun"
  BY DEF PumpFunIdl
<1>3. \A row \in PumpSwapIdl : row[1] = "PumpSwap"
  BY DEF PumpSwapIdl
<1>4. \A row \in CpmmIdl : row[1] = "RaydiumCpmm"
  BY DEF CpmmIdl
<1>5. \A row \in ClmmIdl : row[1] = "RaydiumClmm"
  BY DEF ClmmIdl
<1>6. \A row \in AmmIdl : row[1] = "RaydiumAmmV4"
  BY DEF AmmIdl
<1>7. \A row \in MeteoraIdl : row[1] \in {"MeteoraDammV2", "MeteoraDlmm"}
  BY DEF MeteoraIdl
<1>8. \A row \in OrcaIdl : row[1] = "OrcaWhirlpool"
  BY DEF OrcaIdl
<1>. QED  BY <1>1, <1>2, <1>3, <1>4, <1>5, <1>6, <1>7, <1>8

\* The events no log completes.
Unlogged == {"BonkMigrateToAmm", "BonkMigrateToCpswap", "CpmmSwap", "CpmmDeposit",
          "CpmmInitialize", "CpmmWithdraw", "ClmmSwap", "ClmmSwapV2", "ClmmClose",
          "ClmmDecrease", "ClmmCreate", "ClmmIncrease", "ClmmOpen", "AmmSwap", "AmmDeposit",
          "AmmInitialize2", "AmmWithdraw", "AmmWithdrawPnl", "DlmmSwap2", "OrcaSwapV2"}

\* No log is merged into them.
LEMMA NoMerge == \A kind \in Unlogged : \A decoded : <<kind, decoded>> \notin Merges
BY DEF Unlogged, Merges, MergesTrade, MergesCreate, MergesCreateV2, MergesMigrate, MergesBonkTrade,
  MergesBonkPool, MergesSwapBuy, MergesSwapSell, MergesSwapPool, MergesSwapDeposit,
  MergesSwapWithdraw, MergesDammSwap, MergesDammInit

\* The pairs that are merged.
LEMMA MergedPairs ==
  /\ <<"PumpFunBuy", "PumpFunTrade">> \in Merges /\ <<"PumpFunSell", "PumpFunTrade">> \in Merges
  /\ <<"PumpFunCreateToken", "PumpFunCreateV2Token">> \in Merges
  /\ <<"PumpFunCreateV2Token", "PumpFunCreateV2Token">> \in Merges
  /\ <<"PumpFunMigrate", "PumpFunMigrate">> \in Merges
  /\ <<"BonkTrade", "BonkTrade">> \in Merges /\ <<"BonkPoolCreate", "BonkPoolCreate">> \in Merges
  /\ <<"PumpSwapBuy", "PumpSwapBuy">> \in Merges /\ <<"PumpSwapSell", "PumpSwapSell">> \in Merges
  /\ <<"PumpSwapCreatePool", "PumpSwapCreatePool">> \in Merges
  /\ <<"PumpSwapDeposit", "PumpSwapDeposit">> \in Merges
  /\ <<"PumpSwapWithdraw", "PumpSwapWithdraw">> \in Merges
  /\ <<"DammSwap", "DammSwap">> \in Merges /\ <<"DammSwap2", "DammSwap">> \in Merges
  /\ \A kind \in {"DammInit", "DammInitCustomizable", "DammInitDynamic"} :
       <<kind, "DammInit">> \in Merges
BY DEF Merges, MergesTrade, MergesCreate, MergesCreateV2, MergesMigrate, MergesBonkTrade,
  MergesBonkPool, MergesSwapBuy, MergesSwapSell, MergesSwapPool, MergesSwapDeposit,
  MergesSwapWithdraw, MergesDammSwap, MergesDammInit

\* A call whose log its event is merged with.
LEMMA OwnLog ==
  ASSUME NEW x, NEW kind, NEW roles, NEW disc, NEW len, LogKind(x) = <<disc, len>>,
         <<kind, dispatch_inner_instruction(x.prog, disc, len)>> \in Merges
  PROVE  ReadLog(x, Event(kind, roles))
<1>1. LogKind(x) # << >>
  OBVIOUS
<1>2. Event(kind, roles).kind = kind
  BY DEF Event
<1>. QED  BY <1>1, <1>2 DEF ReadLog

\* A call that logs nothing and whose event no log completes.
LEMMA NoLog ==
  ASSUME NEW x, NEW kind \in Unlogged, NEW roles, LogKind(x) = << >>
  PROVE  ReadLog(x, Event(kind, roles))
BY NoMerge DEF ReadLog, Event

\* A call that moves no tokens the parser would look for.
LEMMA PlainCall ==
  ASSUME NEW x, NEW kind, Read(x) \in {Nothing, Event(kind, NoRoles)}, SidesOf(x) = NoSides,
         kind \notin PumpTrades \cup {"panic", "TokenAccount", "ComputeBudget"},
         kind \in PumpFunKinds => x.prog = "PumpFun", kind \in BonkKinds => x.prog = "Bonk",
         ReadLog(x, Event(kind, NoRoles))
  PROVE  CallReads(x)
<1>. DEFINE e == Event(kind, NoRoles)
<1>1. e.kind = kind /\ e.result = "event" /\ e.roles = NoRoles
  BY DEF Event
<1>. HIDE DEF e
<1>2. ReadKind(x, e)
  BY <1>1 DEF ReadKind
<1>3. ReadPlaces(x, e)
  BY <1>1 DEF ReadPlaces, NoPlaces, NoRoles
<1>. QED  BY <1>1, <1>2, <1>3 DEF CallReads, e

\* A swap whose accounts the parser takes.
LEMMA SwapCall ==
  ASSUME NEW x, NEW kind, NEW r, Read(x) \in {Nothing, Event(kind, r)}, SidesOf(x) # NoSides,
         kind \notin PumpTrades \cup PumpFunKinds \cup {"panic", "TokenAccount", "ComputeBudget"},
         kind \in BonkKinds => x.prog = "Bonk",
         Distinct(r), Direct(x, r) \/ Backward(x, r) \/ Crossed(x, r),
         ReadLog(x, Event(kind, r))
  PROVE  CallReads(x)
<1>. DEFINE e == Event(kind, r)
<1>1. e.kind = kind /\ e.result = "event" /\ e.roles = r
  BY DEF Event
<1>. HIDE DEF e
<1>2. ReadKind(x, e)
  BY <1>1 DEF ReadKind
<1>3. ReadPlaces(x, e)
  BY <1>1 DEF ReadPlaces
<1>. QED  BY <1>1, <1>2, <1>3 DEF CallReads, e

\* A trade of the pump programs: its instruction says the mints, its log the amounts.
LEMMA PumpCall ==
  ASSUME NEW x, NEW kind \in PumpTrades, NEW fm, NEW tm, Read(x) = Event(kind, Mints(fm, tm)),
         SidesOf(x) # NoSides, kind \in PumpFunKinds => x.prog = "PumpFun",
         LET s == SidesOf(x) IN
         /\ Mint(x, s.mint_in) # Default
         /\ Mint(x, s.mint_in) = IF kind = "PumpFunBuy" THEN <<"SOL">> ELSE AccountAt(x, fm)
         /\ Mint(x, s.mint_out) = IF kind = "PumpFunSell" THEN <<"SOL">> ELSE AccountAt(x, tm),
         ReadLog(x, Event(kind, Mints(fm, tm)))
  PROVE  CallReads(x)
<1>. DEFINE r == Mints(fm, tm)
            e == Event(kind, r)
            a == RoleAccounts(x, r)
<1>1. e.kind = kind /\ e.result = "event" /\ e.roles = r
  BY DEF Event
<1>2. NoPlaces(r)
  BY DEF NoPlaces, Mints, Roles, NoRoles
<1>3. a.from_mint = AccountAt(x, fm) /\ a.to_mint = AccountAt(x, tm)
  BY DEF RoleAccounts, Mints, Roles
<1>. HIDE DEF e, a, r
<1>4. Preset(kind, a) = [NoSwap EXCEPT !.from_mint = Mint(x, SidesOf(x).mint_in),
                                       !.to_mint = Mint(x, SidesOf(x).mint_out)]
  <2>1. CASE kind = "PumpFunBuy"
    BY <1>3, <2>1 DEF Preset
  <2>2. CASE kind = "PumpFunSell"
    BY <1>3, <2>2 DEF Preset
  <2>3. CASE kind \in {"PumpSwapBuy", "PumpSwapSell"}
    BY <1>3, <2>3 DEF Preset
  <2>. QED  BY <2>1, <2>2, <2>3 DEF PumpTrades
<1>5. ReadKind(x, e)
  BY <1>1 DEF ReadKind, PumpTrades, BonkKinds
<1>6. ReadPlaces(x, e)
  BY <1>1, <1>2, <1>4 DEF ReadPlaces, a
<1>. QED  BY <1>1, <1>5, <1>6 DEF CallReads, e, r

\* Bonk.
LEMMA BonkCalls ==
  ASSUME NEW x, IsCall(x), x.prog = "Bonk"
  PROVE  CallReads(x)
<1>1. PICK row \in BonkIdl : x.op = row[2] /\ x.len \in row[3] /\ x.n \in row[4]
  BY RowsOf DEF IsCall, Idl
<1>2. \/ /\ x.op \in {"buy_exact_in", "buy_exact_out", "sell_exact_in", "sell_exact_out"}
         /\ x.len = 24 /\ x.n \in {15, 18}
      \/ /\ x.op \in {"initialize", "initialize_v2", "initialize_with_token_2022"}
         /\ x.len \in Nat /\ x.n \in Nat
         /\ x.len >= IF x.op = "initialize" THEN 55 ELSE 56
         /\ x.n >= 15
      \/ x.op = "migrate_to_amm" /\ x.len = 17 /\ x.n = 32
      \/ x.op = "migrate_to_cpswap" /\ x.len = 0 /\ x.n = 28
  BY <1>1 DEF BonkIdl
<1>3. Read(x) = parse_bonk_instruction_data(x.op, x.len, x.n)
  BY DEF Read, dispatch_instruction
<1>4. CASE x.op \in {"buy_exact_in", "buy_exact_out", "sell_exact_in", "sell_exact_out"}
  <2>1. Read(x) \in {Nothing, Event("BonkTrade", BonkRoles)}
    BY <1>2, <1>3, <1>4 DEF parse_bonk_instruction_data, bonk_buy_exact_in, bonk_buy_exact_out,
      bonk_sell_exact_in, bonk_sell_exact_out, Guarded, Checked
  <2>2. Mint(x, 9) = AccountAt(x, 9) /\ Mint(x, 10) = AccountAt(x, 10)
    BY DEF Mint, AccountAt, NoRole
  <2>3. /\ SidesOf(x) # NoSides
        /\ Direct(x, BonkRoles) \/ Backward(x, BonkRoles)
    <3>1. CASE x.op \in {"buy_exact_in", "buy_exact_out"}
      <4>1. SidesOf(x) = Sides(6, 8, 7, 5, 10, 9)
        BY <3>1 DEF SidesOf
      <4>. QED  BY <2>2, <4>1 DEF Sides, NoSides, Backward, Placing, BonkRoles, Roles
    <3>2. CASE x.op \in {"sell_exact_in", "sell_exact_out"}
      <4>1. SidesOf(x) = Sides(5, 7, 8, 6, 9, 10)
        BY <3>2 DEF SidesOf
      <4>. QED  BY <2>2, <4>1 DEF Sides, NoSides, Direct, Placing, BonkRoles, Roles
    <3>. QED  BY <1>4, <3>1, <3>2
  <2>4. LogKind(x) = <<"trade", 139>>
    BY <1>4, <2>3, ZenonT(60) DEF LogKind
  <2>5. dispatch_inner_instruction(x.prog, "trade", 139) = "BonkTrade"
    BY DEF dispatch_inner_instruction, parse_bonk_inner_instruction_data, Decoded,
      bonk_trade_event_log_decode
  <2>6. ReadLog(x, Event("BonkTrade", BonkRoles))
    BY <2>4, <2>5, MergedPairs, OwnLog
  <2>7. Distinct(BonkRoles)
    BY DEF Distinct, BonkRoles, Roles, NoRoles
  <2>. QED  BY <2>1, <2>3, <2>6, <2>7, SwapCall DEF PumpTrades, PumpFunKinds
<1>5. CASE x.op \in {"initialize", "initialize_v2", "initialize_with_token_2022"}
  <2>1. Read(x) = Event("BonkPoolCreate", NoRoles)
    BY <1>2, <1>3, <1>5 DEF parse_bonk_instruction_data, bonk_initialize, bonk_initialize_v2,
      bonk_initialize_with_token_2022, Checked, BonkParams
  <2>2. SidesOf(x) = NoSides
    BY <1>5 DEF SidesOf
  <2>3. LogKind(x) = <<"pool create", 256>>
    BY <1>5, <2>2, ZenonT(60) DEF LogKind
  <2>4. dispatch_inner_instruction(x.prog, "pool create", 256) = "BonkPoolCreate"
    BY DEF dispatch_inner_instruction, parse_bonk_inner_instruction_data, Decoded,
      bonk_pool_create_event_log_decode
  <2>5. ReadLog(x, Event("BonkPoolCreate", NoRoles))
    BY <2>3, <2>4, MergedPairs, OwnLog, ZenonT(60)
  <2>. QED  BY <2>1, <2>2, <2>5, PlainCall DEF PumpTrades, PumpFunKinds
<1>6. CASE x.op \in {"migrate_to_amm", "migrate_to_cpswap"}
  <2>1. Read(x) \in {Event("BonkMigrateToAmm", NoRoles), Event("BonkMigrateToCpswap", NoRoles)}
    BY <1>2, <1>3, <1>6 DEF parse_bonk_instruction_data, bonk_migrate_to_amm,
      bonk_migrate_to_cpswap, Checked
  <2>. PICK kind \in {"BonkMigrateToAmm", "BonkMigrateToCpswap"} :
              Read(x) = Event(kind, NoRoles)
    BY <2>1
  <2>2. SidesOf(x) = NoSides
    BY <1>6 DEF SidesOf
  <2>3. LogKind(x) = << >>
    BY <1>6, <2>2 DEF LogKind
  <2>4. ReadLog(x, Event(kind, NoRoles))
    BY <2>3, NoLog DEF Unlogged
  <2>. QED  BY <2>2, <2>4, PlainCall DEF PumpTrades, PumpFunKinds, BonkKinds
<1>. QED  BY <1>2, <1>4, <1>5, <1>6

\* The log of a PumpFun trade.
LEMMA PumpFunTradeLog == dispatch_inner_instruction("PumpFun", "trade", 250) = "PumpFunTrade"
BY DEF dispatch_inner_instruction, parse_pumpfun_inner_instruction_data, Decoded,
  pumpfun_trade_event_log_decode

\* PumpFun.
LEMMA PumpFunCalls ==
  ASSUME NEW x, IsCall(x), x.prog = "PumpFun"
  PROVE  CallReads(x)
<1>1. PICK row \in PumpFunIdl : x.op = row[2] /\ x.len \in row[3] /\ x.n \in row[4]
  BY RowsOf DEF IsCall, Idl
<1>2. \/ x.op = "create" /\ x.len = 44 /\ x.n = 14
      \/ x.op = "create_v2" /\ x.len = 46 /\ x.n = 16
      \/ x.op \in {"buy", "buy_exact_sol_in"} /\ x.len = 17 /\ x.n = 16
      \/ x.op = "sell" /\ x.len = 16 /\ x.n = 14
      \/ x.op = "migrate" /\ x.len = 0 /\ x.n = 24
  BY <1>1 DEF PumpFunIdl
<1>3. Read(x) = parse_pumpfun_instruction_data(x.op, x.len, x.n)
  BY DEF Read, dispatch_instruction
<1>4. CASE x.op \in {"create", "create_v2"}
  <2>1. PICK kind \in {"PumpFunCreateToken", "PumpFunCreateV2Token"} :
               Read(x) = Event(kind, NoRoles)
    BY <1>2, <1>3, <1>4 DEF parse_pumpfun_instruction_data, pumpfun_create, pumpfun_create_v2,
      Guarded, Checked
  <2>2. SidesOf(x) = NoSides
    BY <1>4 DEF SidesOf
  <2>3. LogKind(x) = <<"create", 214>>
    BY <1>4, <2>2 DEF LogKind
  <2>4. dispatch_inner_instruction(x.prog, "create", 214) = "PumpFunCreateV2Token"
    BY DEF dispatch_inner_instruction, parse_pumpfun_inner_instruction_data, Decoded,
      pumpfun_create_v2_token_event_log_decode
  <2>5. ReadLog(x, Event(kind, NoRoles))
    BY <2>3, <2>4, MergedPairs, OwnLog
  <2>. QED  BY <2>1, <2>2, <2>5, PlainCall DEF PumpTrades, BonkKinds
<1>5. CASE x.op \in {"buy", "buy_exact_sol_in"}
  <2>1. Read(x) = Event("PumpFunBuy", Mints(NoRole, 2))
    BY <1>2, <1>3, <1>5 DEF parse_pumpfun_instruction_data, pumpfun_buy,
      pumpfun_buy_exact_sol_in, Guarded, Checked
  <2>2. SidesOf(x) = Sides(6, 3, 4, 5, -2, 2)
    BY <1>5 DEF SidesOf
  <2>3. SidesOf(x) # NoSides /\ SidesOf(x).mint_in = -2 /\ SidesOf(x).mint_out = 2
    BY <2>2 DEF Sides, NoSides
  <2>4. Mint(x, -2) = <<"SOL">> /\ Mint(x, -2) # Default /\ Mint(x, 2) = AccountAt(x, 2)
    BY DEF Mint, AccountAt, NoRole, Default
  <2>5. ReadLog(x, Event("PumpFunBuy", Mints(NoRole, 2)))
    <3>1. LogKind(x) = <<"trade", 250>>
      BY <1>5, <2>3 DEF LogKind
    <3>. QED  BY <3>1, PumpFunTradeLog, MergedPairs, OwnLog
  <2>. QED  BY <2>1, <2>3, <2>4, <2>5, PumpCall DEF PumpTrades
<1>6. CASE x.op = "sell"
  <2>1. Read(x) = Event("PumpFunSell", Mints(2, NoRole))
    BY <1>2, <1>3, <1>6 DEF parse_pumpfun_instruction_data, pumpfun_sell, Guarded, Checked
  <2>2. SidesOf(x) = Sides(5, 4, 3, 6, 2, -2)
    BY <1>6 DEF SidesOf
  <2>3. SidesOf(x) # NoSides /\ SidesOf(x).mint_in = 2 /\ SidesOf(x).mint_out = -2
    BY <2>2 DEF Sides, NoSides
  <2>4. Mint(x, -2) = <<"SOL">> /\ Mint(x, 2) # Default /\ Mint(x, 2) = AccountAt(x, 2)
    BY DEF Mint, AccountAt, NoRole, Default
  <2>5. ReadLog(x, Event("PumpFunSell", Mints(2, NoRole)))
    <3>1. LogKind(x) = <<"trade", 250>>
      BY <1>6, <2>3 DEF LogKind
    <3>. QED  BY <3>1, PumpFunTradeLog, MergedPairs, OwnLog
  <2>. QED  BY <2>1, <2>3, <2>4, <2>5, PumpCall DEF PumpTrades
<1>7. CASE x.op = "migrate"
  <2>1. Read(x) = Event("PumpFunMigrate", NoRoles)
    BY <1>2, <1>3, <1>7 DEF parse_pumpfun_instruction_data, pumpfun_migrate, Guarded, Checked
  <2>2. SidesOf(x) = NoSides
    BY <1>7 DEF SidesOf
  <2>3. LogKind(x) = <<"migrate", 160>>
    BY <1>7, <2>2 DEF LogKind
  <2>4. dispatch_inner_instruction(x.prog, "migrate", 160) = "PumpFunMigrate"
    BY DEF dispatch_inner_instruction, parse_pumpfun_inner_instruction_data, Decoded,
      pumpfun_migrate_event_log_decode
  <2>5. ReadLog(x, Event("PumpFunMigrate", NoRoles))
    BY <2>3, <2>4, MergedPairs, OwnLog
  <2>. QED  BY <2>1, <2>2, <2>5, PlainCall DEF PumpTrades, BonkKinds, PumpFunKinds
<1>. QED  BY <1>2, <1>4, <1>5, <1>6, <1>7

\* PumpSwap.
LEMMA PumpSwapCalls ==
  ASSUME NEW x, IsCall(x), x.prog = "PumpSwap"
  PROVE  CallReads(x)
<1>1. PICK row \in PumpSwapIdl : x.op = row[2] /\ x.len \in row[3] /\ x.n \in row[4]
  BY RowsOf DEF IsCall, Idl
<1>2. \/ x.op \in {"buy", "buy_exact_quote_in"} /\ x.len = 17 /\ x.n = 23
      \/ x.op = "sell" /\ x.len = 16 /\ x.n = 21
      \/ x.op = "create_pool" /\ x.len = 52 /\ x.n = 18
      \/ x.op \in {"deposit", "withdraw"} /\ x.len = 24 /\ x.n = 15
  BY <1>1 DEF PumpSwapIdl
<1>3. Read(x) = parse_pumpswap_instruction_data(x.op, x.len, x.n)
  BY DEF Read, dispatch_instruction
<1>4. \A p \in {3, 4} : Mint(x, p) # Default /\ Mint(x, p) = AccountAt(x, p)
  BY DEF Mint, AccountAt, NoRole, Default
<1>5. CASE x.op \in {"buy", "buy_exact_quote_in"}
  <2>1. Read(x) = Event("PumpSwapBuy", Mints(4, 3))
    BY <1>2, <1>3, <1>5 DEF parse_pumpswap_instruction_data, pumpswap_buy,
      pumpswap_buy_exact_quote_in, Guarded, Checked
  <2>2. SidesOf(x) = Sides(6, 8, 7, 5, 4, 3)
    BY <1>5 DEF SidesOf
  <2>3. SidesOf(x) # NoSides /\ SidesOf(x).mint_in = 4 /\ SidesOf(x).mint_out = 3
    BY <2>2 DEF Sides, NoSides
  <2>4. ReadLog(x, Event("PumpSwapBuy", Mints(4, 3)))
    <3>1. LogKind(x) = <<"swap buy", 385>>
      BY <1>5, ZenonT(60) DEF LogKind
    <3>2. dispatch_inner_instruction(x.prog, "swap buy", 385) = "PumpSwapBuy"
      BY DEF dispatch_inner_instruction, parse_pumpswap_inner_instruction_data, Decoded,
        pump_swap_buy_event_log_decode
    <3>. QED  BY <3>1, <3>2, MergedPairs, OwnLog, ZenonT(60)
  <2>. QED  BY <1>4, <2>1, <2>3, <2>4, PumpCall DEF PumpTrades, PumpFunKinds
<1>6. CASE x.op = "sell"
  <2>1. Read(x) = Event("PumpSwapSell", Mints(3, 4))
    BY <1>2, <1>3, <1>6 DEF parse_pumpswap_instruction_data, pumpswap_sell, Guarded, Checked
  <2>2. SidesOf(x) = Sides(5, 7, 8, 6, 3, 4)
    BY <1>6 DEF SidesOf
  <2>3. SidesOf(x) # NoSides /\ SidesOf(x).mint_in = 3 /\ SidesOf(x).mint_out = 4
    BY <2>2 DEF Sides, NoSides
  <2>4. ReadLog(x, Event("PumpSwapSell", Mints(3, 4)))
    <3>1. LogKind(x) = <<"swap sell", 352>>
      BY <1>6, ZenonT(60) DEF LogKind
    <3>2. dispatch_inner_instruction(x.prog, "swap sell", 352) = "PumpSwapSell"
      BY DEF dispatch_inner_instruction, parse_pumpswap_inner_instruction_data, Decoded,
        pump_swap_sell_event_log_decode
    <3>. QED  BY <3>1, <3>2, MergedPairs, OwnLog, ZenonT(60)
  <2>. QED  BY <1>4, <2>1, <2>3, <2>4, PumpCall DEF PumpTrades, PumpFunKinds
<1>7. CASE x.op \in {"create_pool", "deposit", "withdraw"}
  <2>1. SidesOf(x) = NoSides
    BY <1>7 DEF SidesOf
  <2>2. PICK kind \in {"PumpSwapCreatePool", "PumpSwapDeposit", "PumpSwapWithdraw"} :
               Read(x) = Event(kind, NoRoles) /\ ReadLog(x, Event(kind, NoRoles))
    <3>1. CASE x.op = "create_pool"
      <4>1. Read(x) = Event("PumpSwapCreatePool", NoRoles)
        BY <1>2, <1>3, <3>1 DEF parse_pumpswap_instruction_data, pumpswap_create_pool,
          Guarded, Checked
      <4>2. LogKind(x) = <<"swap pool", 325>>
        BY <3>1, ZenonT(60) DEF LogKind
      <4>3. dispatch_inner_instruction(x.prog, "swap pool", 325) = "PumpSwapCreatePool"
        BY DEF dispatch_inner_instruction, parse_pumpswap_inner_instruction_data, Decoded,
          pump_swap_create_pool_event_log_decode
      <4>. QED  BY <4>1, <4>2, <4>3, MergedPairs, OwnLog, ZenonT(60)
    <3>2. CASE x.op = "deposit"
      <4>1. Read(x) = Event("PumpSwapDeposit", NoRoles)
        BY <1>2, <1>3, <3>2 DEF parse_pumpswap_instruction_data, pumpswap_deposit,
          Guarded, Checked
      <4>2. LogKind(x) = <<"swap deposit", 248>>
        BY <3>2, ZenonT(60) DEF LogKind
      <4>3. dispatch_inner_instruction(x.prog, "swap deposit", 248) = "PumpSwapDeposit"
        BY DEF dispatch_inner_instruction, parse_pumpswap_inner_instruction_data, Decoded,
          pump_swap_deposit_event_log_decode
      <4>. QED  BY <4>1, <4>2, <4>3, MergedPairs, OwnLog, ZenonT(60)
    <3>3. CASE x.op = "withdraw"
      <4>1. Read(x) = Event("PumpSwapWithdraw", NoRoles)
        BY <1>2, <1>3, <3>3 DEF parse_pumpswap_instruction_data, pumpswap_withdraw,
          Guarded, Checked
      <4>2. LogKind(x) = <<"swap withdraw", 248>>
        BY <3>3, ZenonT(60) DEF LogKind
      <4>3. dispatch_inner_instruction(x.prog, "swap withdraw", 248) = "PumpSwapWithdraw"
        BY DEF dispatch_inner_instruction, parse_pumpswap_inner_instruction_data, Decoded,
          pump_swap_withdraw_event_log_decode
      <4>. QED  BY <4>1, <4>2, <4>3, MergedPairs, OwnLog, ZenonT(60)
    <3>. QED  BY <1>7, <3>1, <3>2, <3>3
  <2>. QED  BY <2>1, <2>2, PlainCall DEF PumpTrades, PumpFunKinds, BonkKinds
<1>. QED  BY <1>2, <1>5, <1>6, <1>7

\* Raydium's constant-product pools.
LEMMA CpmmCalls ==
  ASSUME NEW x, IsCall(x), x.prog = "RaydiumCpmm"
  PROVE  CallReads(x)
<1>1. PICK row \in CpmmIdl : x.op = row[2] /\ x.len \in row[3] /\ x.n \in row[4]
  BY RowsOf DEF IsCall, Idl
<1>2. \/ x.op \in {"swap_base_input", "swap_base_output"} /\ x.len = 16 /\ x.n = 13
      \/ x.op = "deposit" /\ x.len = 24 /\ x.n = 13
      \/ x.op = "withdraw" /\ x.len = 24 /\ x.n = 14
      \/ x.op = "initialize" /\ x.len = 24 /\ x.n = 20
  BY <1>1 DEF CpmmIdl
<1>3. Read(x) = parse_raydium_cpmm_instruction_data(x.op, x.len, x.n)
  BY DEF Read, dispatch_instruction
<1>4. LogKind(x) = << >>
  BY DEF LogKind
<1>5. CASE x.op \in {"swap_base_input", "swap_base_output"}
  <2>. DEFINE r == Roles(4, 5, 6, 7, 10, 11)
  <2>1. Read(x) = Event("CpmmSwap", r)
    BY <1>2, <1>3, <1>5 DEF parse_raydium_cpmm_instruction_data, cpmm_swap_base_input,
      cpmm_swap_base_output, Guarded, Checked
  <2>2. SidesOf(x) = Sides(4, 6, 7, 5, 10, 11)
    BY <1>5 DEF SidesOf
  <2>3. Mint(x, 10) = AccountAt(x, 10) /\ Mint(x, 11) = AccountAt(x, 11)
    BY DEF Mint, AccountAt, NoRole
  <2>4. SidesOf(x) # NoSides /\ Direct(x, r)
    BY <2>2, <2>3 DEF Sides, NoSides, Direct, Placing, Roles
  <2>5. Distinct(r)
    BY DEF Distinct, Roles, NoRoles
  <2>6. ReadLog(x, Event("CpmmSwap", r))
    BY <1>4, NoLog DEF Unlogged
  <2>. HIDE DEF r
  <2>. QED  BY <2>1, <2>4, <2>5, <2>6, SwapCall DEF PumpTrades, PumpFunKinds, BonkKinds
<1>6. CASE x.op \in {"deposit", "withdraw", "initialize"}
  <2>1. PICK kind \in {"CpmmDeposit", "CpmmWithdraw", "CpmmInitialize"} :
               Read(x) = Event(kind, NoRoles)
    BY <1>2, <1>3, <1>6 DEF parse_raydium_cpmm_instruction_data, cpmm_deposit, cpmm_withdraw,
      cpmm_initialize, Guarded, Checked
  <2>2. SidesOf(x) = NoSides
    BY <1>6 DEF SidesOf
  <2>3. ReadLog(x, Event(kind, NoRoles))
    BY <1>4, NoLog DEF Unlogged
  <2>. QED  BY <2>1, <2>2, <2>3, PlainCall DEF PumpTrades, PumpFunKinds, BonkKinds
<1>. QED  BY <1>2, <1>5, <1>6

\* Raydium's concentrated pools.
LEMMA ClmmCalls ==
  ASSUME NEW x, IsCall(x), x.prog = "RaydiumClmm"
  PROVE  CallReads(x)
<1>1. PICK row \in ClmmIdl : x.op = row[2] /\ x.len \in row[3] /\ x.n \in row[4]
  BY RowsOf DEF IsCall, Idl
<1>2. \/ x.op = "swap" /\ x.len = 33 /\ x.n \in {10, 12}
      \/ x.op = "swap_v2" /\ x.len = 33 /\ x.n \in {13, 16}
      \/ x.op = "create_pool" /\ x.len = 24 /\ x.n = 13
      \/ x.op = "close_position" /\ x.len = 0 /\ x.n = 6
      \/ x.op = "increase_liquidity_v2" /\ x.len \in {33, 34} /\ x.n = 15
      \/ x.op = "decrease_liquidity_v2" /\ x.len = 32 /\ x.n = 16
      \/ x.op = "open_position_v2" /\ x.len \in {50, 51} /\ x.n = 22
      \/ x.op = "open_position_with_token_22_nft" /\ x.len \in {50, 51} /\ x.n = 20
  BY <1>1 DEF ClmmIdl
<1>3. Read(x) = parse_raydium_clmm_instruction_data(x.op, x.len, x.n)
  BY DEF Read, dispatch_instruction
<1>4. LogKind(x) = << >>
  BY DEF LogKind
<1>5. CASE x.op = "swap"
  <2>. DEFINE r == Roles(3, 4, 5, 6, NoRole, NoRole)
  <2>1. Read(x) = Event("ClmmSwap", r)
    BY <1>2, <1>3, <1>5 DEF parse_raydium_clmm_instruction_data, clmm_swap, Guarded, Checked
  <2>2. SidesOf(x) = Sides(3, 5, 6, 4, -1, -1)
    BY <1>5 DEF SidesOf
  <2>3. Mint(x, -1) = AccountAt(x, NoRole)
    BY DEF Mint, AccountAt, Default
  <2>4. SidesOf(x) # NoSides /\ Direct(x, r)
    BY <2>2, <2>3 DEF Sides, NoSides, Direct, Placing, Roles
  <2>5. Distinct(r)
    BY DEF Distinct, Roles, NoRoles
  <2>6. ReadLog(x, Event("ClmmSwap", r))
    BY <1>4, NoLog DEF Unlogged
  <2>. HIDE DEF r
  <2>. QED  BY <2>1, <2>4, <2>5, <2>6, SwapCall DEF PumpTrades, PumpFunKinds, BonkKinds
<1>6. CASE x.op = "swap_v2"
  <2>. DEFINE r == Roles(3, 4, 5, 6, 11, 12)
  <2>1. Read(x) = Event("ClmmSwapV2", r)
    BY <1>2, <1>3, <1>6 DEF parse_raydium_clmm_instruction_data, clmm_swap_v2, Guarded, Checked
  <2>2. SidesOf(x) = Sides(3, 5, 6, 4, 11, 12)
    BY <1>6 DEF SidesOf
  <2>3. Mint(x, 11) = AccountAt(x, 11) /\ Mint(x, 12) = AccountAt(x, 12)
    BY DEF Mint, AccountAt, NoRole
  <2>4. SidesOf(x) # NoSides /\ Direct(x, r)
    BY <2>2, <2>3 DEF Sides, NoSides, Direct, Placing, Roles
  <2>5. Distinct(r)
    BY DEF Distinct, Roles, NoRoles
  <2>6. ReadLog(x, Event("ClmmSwapV2", r))
    BY <1>4, NoLog DEF Unlogged
  <2>. HIDE DEF r
  <2>. QED  BY <2>1, <2>4, <2>5, <2>6, SwapCall DEF PumpTrades, PumpFunKinds, BonkKinds
<1>7. CASE x.op \notin {"swap", "swap_v2"}
  <2>1. PICK kind \in {"ClmmClose", "ClmmCreate", "ClmmIncrease", "ClmmDecrease", "ClmmOpen"} :
               Read(x) \in {Nothing, Event(kind, NoRoles)}
    BY <1>2, <1>3, <1>7 DEF parse_raydium_clmm_instruction_data, clmm_close_position,
      clmm_decrease_liquidity_v2, clmm_create_pool, clmm_increase_liquidity_v2,
      clmm_open_position_with_token_22_nft, clmm_open_position_v2, Guarded, Checked
  <2>2. SidesOf(x) = NoSides
    BY <1>7 DEF SidesOf
  <2>3. ReadLog(x, Event(kind, NoRoles))
    BY <1>4, NoLog DEF Unlogged
  <2>. QED  BY <2>1, <2>2, <2>3, PlainCall DEF PumpTrades, PumpFunKinds, BonkKinds
<1>. QED  BY <1>5, <1>6, <1>7

\* Raydium's AMM, with its target orders or without.
LEMMA AmmCalls ==
  ASSUME NEW x, IsCall(x), x.prog = "RaydiumAmmV4"
  PROVE  CallReads(x)
<1>1. PICK row \in AmmIdl : x.op = row[2] /\ x.len \in row[3] /\ x.n \in row[4]
  BY RowsOf DEF IsCall, Idl
<1>2. \/ x.op \in {"swap_base_in", "swap_base_out"} /\ x.len = 16 /\ x.n \in {17, 18}
      \/ x.op = "deposit" /\ x.len = 24 /\ x.n = 14
      \/ x.op = "withdraw" /\ x.len = 8 /\ x.n = 22
      \/ x.op = "initialize2" /\ x.len = 25 /\ x.n = 21
      \/ x.op = "withdraw_pnl" /\ x.len = 0 /\ x.n = 17
  BY <1>1 DEF AmmIdl
<1>3. Read(x) = parse_raydium_amm_v4_instruction_data(x.op, x.len, x.n)
  BY DEF Read, dispatch_instruction
<1>4. LogKind(x) = << >>
  BY DEF LogKind
<1>5. CASE x.op \in {"swap_base_in", "swap_base_out"}
  <2>. DEFINE r == AmmRoles(x.n)
  <2>1. Read(x) = Event("AmmSwap", r)
    BY <1>2, <1>3, <1>5 DEF parse_raydium_amm_v4_instruction_data, amm_v4_swap_base_in,
      amm_v4_swap_base_out, Guarded, Checked
  <2>2. SidesOf(x) = AmmSides(x)
    BY <1>5 DEF SidesOf
  <2>3. Mint(x, -1) = AccountAt(x, NoRole)
    BY DEF Mint, AccountAt, Default
  <2>4. /\ SidesOf(x) # NoSides /\ Distinct(r)
        /\ Direct(x, r) \/ Crossed(x, r)
    <3>1. CASE x.n = 17
      <4>1. r = Roles(14, 15, 5, 4, NoRole, NoRole)
        BY <3>1 DEF AmmRoles
      <4>2. SidesOf(x) \in {Sides(14, 4, 5, 15, -1, -1), Sides(14, 5, 4, 15, -1, -1)}
        BY <2>2, <3>1 DEF AmmSides
      <4>. HIDE DEF r
      <4>. QED  BY <2>3, <4>1, <4>2 DEF Sides, NoSides, Distinct, Direct, Crossed, Placing, Roles,
          NoRoles
    <3>2. CASE x.n = 18
      <4>1. r = Roles(15, 16, 6, 5, NoRole, NoRole)
        BY <3>2 DEF AmmRoles
      <4>2. SidesOf(x) \in {Sides(15, 5, 6, 16, -1, -1), Sides(15, 6, 5, 16, -1, -1)}
        BY <2>2, <3>2 DEF AmmSides
      <4>. HIDE DEF r
      <4>. QED  BY <2>3, <4>1, <4>2 DEF Sides, NoSides, Distinct, Direct, Crossed, Placing, Roles,
          NoRoles
    <3>. QED  BY <1>2, <1>5, <3>1, <3>2
  <2>5. ReadLog(x, Event("AmmSwap", r))
    BY <1>4, NoLog DEF Unlogged
  <2>. HIDE DEF r
  <2>. QED  BY <2>1, <2>4, <2>5, SwapCall DEF PumpTrades, PumpFunKinds, BonkKinds
<1>6. CASE x.op \in {"deposit", "withdraw", "initialize2", "withdraw_pnl"}
  <2>1. PICK kind \in {"AmmDeposit", "AmmWithdraw", "AmmInitialize2", "AmmWithdrawPnl"} :
               Read(x) = Event(kind, NoRoles)
    BY <1>2, <1>3, <1>6 DEF parse_raydium_amm_v4_instruction_data, amm_v4_deposit,
      amm_v4_withdraw, amm_v4_initialize2, amm_v4_withdraw_pnl, Guarded, Checked
  <2>2. SidesOf(x) = NoSides
    BY <1>6 DEF SidesOf
  <2>3. ReadLog(x, Event(kind, NoRoles))
    BY <1>4, NoLog DEF Unlogged
  <2>. QED  BY <2>1, <2>2, <2>3, PlainCall DEF PumpTrades, PumpFunKinds, BonkKinds
<1>. QED  BY <1>2, <1>5, <1>6

\* Meteora.
LEMMA DammCalls ==
  ASSUME NEW x, IsCall(x), x.prog = "MeteoraDammV2"
  PROVE  CallReads(x)
<1>1. PICK row \in MeteoraIdl :
             x.prog = row[1] /\ x.op = row[2] /\ x.len \in row[3] /\ x.n \in row[4]
  BY RowsOf DEF IsCall, Idl
<1>2. \/ x.op = "swap" /\ x.len = 16 /\ x.n = 14
      \/ x.op = "swap2" /\ x.len = 17 /\ x.n \in {14, 15}
      \/ x.op = "initialize_pool" /\ x.len \in {33, 41} /\ x.n = 20
      \/ x.op = "initialize_customizable_pool" /\ x.len \in {99, 107} /\ x.n = 19
      \/ x.op = "initialize_pool_with_dynamic_config" /\ x.len \in {99, 107} /\ x.n = 21
  BY <1>1 DEF MeteoraIdl
<1>3. Read(x) = parse_meteora_damm_v2_instruction_data(x.op, x.len, x.n)
  BY DEF Read, dispatch_instruction
<1>4. SidesOf(x) = NoSides
  BY DEF SidesOf
<1>5. CASE x.op \in {"swap", "swap2"}
  <2>1. PICK kind \in {"DammSwap", "DammSwap2"} : Read(x) = Event(kind, NoRoles)
    BY <1>2, <1>3, <1>5 DEF parse_meteora_damm_v2_instruction_data, damm_swap, damm_swap2,
      Guarded, Checked
  <2>2. LogKind(x) = <<"damm swap", 180>>
    BY <1>5, ZenonT(60) DEF LogKind
  <2>3. dispatch_inner_instruction(x.prog, "damm swap", 180) = "DammSwap"
    BY DEF dispatch_inner_instruction, parse_meteora_damm_v2_inner_instruction_data, Decoded,
      meteora_damm_v2_swap_event_decode
  <2>4. ReadLog(x, Event(kind, NoRoles))
    BY <2>2, <2>3, MergedPairs, OwnLog, ZenonT(60)
  <2>. QED  BY <1>4, <2>1, <2>4, PlainCall DEF PumpTrades, PumpFunKinds, BonkKinds
<1>6. CASE x.op \notin {"swap", "swap2"}
  <2>1. PICK kind \in {"DammInit", "DammInitCustomizable", "DammInitDynamic"} :
               Read(x) = Event(kind, NoRoles)
    BY <1>2, <1>3, <1>6 DEF parse_meteora_damm_v2_instruction_data, damm_initialize_pool,
      damm_initialize_customizable_pool, damm_initialize_pool_with_dynamic_config,
      Guarded, Checked
  <2>2. LogKind(x) = <<"damm init", 180>>
    BY <1>6, ZenonT(60) DEF LogKind
  <2>3. dispatch_inner_instruction(x.prog, "damm init", 180) = "DammInit"
    BY DEF dispatch_inner_instruction, parse_meteora_damm_v2_inner_instruction_data
  <2>4. ReadLog(x, Event(kind, NoRoles))
    BY <2>2, <2>3, MergedPairs, OwnLog, ZenonT(60)
  <2>. QED  BY <1>4, <2>1, <2>4, PlainCall DEF PumpTrades, PumpFunKinds, BonkKinds
<1>. QED  BY <1>5, <1>6

\* The parsers of DLMM and Orca know one swap each, and their checks cover what they read.
LEMMA BinAndTickCalls ==
  ASSUME NEW x, IsCall(x), x.prog \in {"MeteoraDlmm", "OrcaWhirlpool"}
  PROVE  CallReads(x)
<1>1. SidesOf(x) = NoSides /\ LogKind(x) = << >>
  BY DEF SidesOf, LogKind
<1>2. PICK kind \in {"DlmmSwap2", "OrcaSwapV2"} : Read(x) \in {Nothing, Event(kind, NoRoles)}
  <2>1. PICK row \in MeteoraIdl \cup OrcaIdl : x.len \in row[3] /\ x.n \in row[4]
    BY RowsOf DEF IsCall, Idl
  <2>2. x.len \in Int /\ x.n \in Int
    BY <2>1 DEF MeteoraIdl, OrcaIdl
  <2>. QED  BY <2>2 DEF Read, dispatch_instruction, parse_meteora_dlmm_instruction_data, dlmm_swap2,
      parse_orca_whirlpool_instruction_data, orca_swap_v2, Guarded, Checked
<1>3. ReadLog(x, Event(kind, NoRoles))
  BY <1>1, NoLog DEF Unlogged
<1>. QED  BY <1>1, <1>2, <1>3, PlainCall DEF PumpTrades, PumpFunKinds, BonkKinds

\* Every call the interfaces allow.
LEMMA EveryCall ==
  ASSUME NEW x, IsCall(x), x.prog \in Dex
  PROVE  CallReads(x)
BY BonkCalls, PumpFunCalls, PumpSwapCalls, CpmmCalls, ClmmCalls, AmmCalls, DammCalls,
  BinAndTickCalls DEF Dex

-----------------------------------------------------------------------------
(* Steps that are counted.                                                    *)

\* A set of numbers has a least one.
LEMMA LeastOf ==
  ASSUME NEW T, T \subseteq Nat, T # {}
  PROVE  \E m \in T : \A k \in T : ~(k < m)
  <1> DEFINE R == {ss \in Nat \X Nat : ss[1] < ss[2]}
  <1>1. IsWellFoundedOn(R, Nat)
    BY NatLessThanWellFounded DEF OpToRel
  <1>2. \E x \in T : \A y \in T : ~(<<y, x>> \in R)
    BY <1>1, WFMin
  <1>. QED
    BY <1>2

\* What holds at m and is kept by every step holds up to n.
LEMMA Upward ==
  ASSUME NEW m \in Nat, NEW n \in Nat, m <= n, NEW T, m \in T,
         \A k \in (m + 1)..n : k - 1 \in T => k \in T
  PROVE  m..n \subseteq T
<1>. DEFINE Missed == {k \in m..n : k \notin T}
<1>. SUFFICES ASSUME Missed # {} PROVE FALSE
  OBVIOUS
<1>1. PICK k \in Missed : \A j \in Missed : ~(j < k)
  <2>1. Missed \subseteq Nat
    OBVIOUS
  <2>. HIDE DEF Missed
  <2>. QED  BY <2>1, LeastOf
<1>2. k # m
  OBVIOUS
<1>3. k \in (m + 1)..n /\ k - 1 \in m..n
  BY <1>2
<1>4. k - 1 \notin Missed
  BY <1>1, <1>3
<1>. QED  BY <1>1, <1>3, <1>4

-----------------------------------------------------------------------------
(* The swap data.                                                             *)

Swap(from_mint, to_mint, from_amount, to_amount) ==
  [from_mint |-> from_mint, to_mint |-> to_mint,
   from_amount |-> from_amount, to_amount |-> to_amount]
Looked(s, a, done) == [swap |-> s, accts |-> a, done |-> done]
IsPlain(y) == y.prog \in SYSTEM_PROGRAMS /\ y.op \in {"transfer", "transferChecked"}
Known(s) ==
  \/ s.from_mint # Default /\ s.to_mint # Default
  \/ s.from_amount # Zero /\ s.to_amount # Zero

\* One turn: done for good, done at another program, or a look at a plain transfer.
LEMMA OneTurn ==
  ASSUME NEW s, NEW a, NEW y, NEW done \in BOOLEAN
  PROVE  /\ done => Turn(Looked(s, a, done), y) = Looked(s, a, done)
         /\ y.prog \notin SYSTEM_PROGRAMS =>
              Turn(Looked(s, a, FALSE), y) = Looked(s, a, TRUE)
         /\ y.prog \in SYSTEM_PROGRAMS /\ ~IsPlain(y) =>
              Turn(Looked(s, a, FALSE), y) = Looked(s, a, FALSE)
         /\ IsPlain(y) =>
              Turn(Looked(s, a, FALSE), y)
                = Looked(Sided(s, a, y), a, Known(Sided(s, a, y)))
<1>1. done => Turn(Looked(s, a, done), y) = Looked(s, a, done)
  BY DEF Turn, Looked
<1>2. y.prog \notin SYSTEM_PROGRAMS => Turn(Looked(s, a, FALSE), y) = Looked(s, a, TRUE)
  BY DEF Turn, Looked
<1>3. y.prog \in SYSTEM_PROGRAMS /\ ~IsPlain(y) =>
        Turn(Looked(s, a, FALSE), y) = Looked(s, a, FALSE)
  BY DEF Turn, Looked, IsPlain
<1>4. IsPlain(y) =>
        Turn(Looked(s, a, FALSE), y) = Looked(Sided(s, a, y), a, Known(Sided(s, a, y)))
  BY DEF Turn, Looked, IsPlain, Known
<1>. QED  BY <1>1, <1>2, <1>3, <1>4

\* The turns of the loop over what follows the c-th of the list.
IsTurns(h, list, c, start) ==
  h = [k \in 0..(Len(list) - c) |-> IF k = 0 THEN start ELSE Turn(h[k - 1], list[c + k])]

\* There are such turns, a list of turns of any length.
LEMMA TurnsExist ==
  ASSUME NEW list, Len(list) \in Nat, NEW c \in 0..Len(list), NEW start
  PROVE  \E h : IsTurns(h, list, c, start)
<1>. DEFINE n == Len(list) - c
            Upto(m) == \E h : h = [k \in 0..m |-> IF k = 0 THEN start
                                                  ELSE Turn(h[k - 1], list[c + k])]
            T == {m \in 0..n : Upto(m)}
<1>1. n \in Nat
  OBVIOUS
<1>2. Upto(0)
  <2>. DEFINE h == [k \in 0..0 |-> start]
  <2>1. h = [k \in 0..0 |-> IF k = 0 THEN start ELSE Turn(h[k - 1], list[c + k])]
    OBVIOUS
  <2>. QED  BY <2>1
<1>3. ASSUME NEW m \in 1..n, Upto(m - 1) PROVE Upto(m)
  <2>1. PICK h : h = [k \in 0..(m - 1) |-> IF k = 0 THEN start
                                           ELSE Turn(h[k - 1], list[c + k])]
    BY <1>3
  <2>. DEFINE g == [k \in 0..m |-> IF k = m THEN Turn(h[m - 1], list[c + m]) ELSE h[k]]
  <2>2. ASSUME NEW k \in 0..m
        PROVE  g[k] = IF k = 0 THEN start ELSE Turn(g[k - 1], list[c + k])
    <3>1. CASE k = 0
      BY <2>1, <3>1
    <3>2. CASE k # 0
      <4>1. g[k - 1] = h[k - 1]
        BY <3>2
      <4>2. CASE k = m
        BY <3>2, <4>1, <4>2
      <4>3. CASE k # m
        <5>1. k \in 0..(m - 1)
          BY <4>3
        <5>. QED  BY <2>1, <3>2, <4>1, <4>3, <5>1
      <4>. QED  BY <4>2, <4>3
    <3>. QED  BY <3>1, <3>2
  <2>3. g = [k \in 0..m |-> g[k]]
    OBVIOUS
  <2>. HIDE DEF g
  <2>4. g = [k \in 0..m |-> IF k = 0 THEN start ELSE Turn(g[k - 1], list[c + k])]
    BY <2>2, <2>3
  <2>. QED  BY <2>4
<1>4. n \in T
  <2>1. 0 \in T
    BY <1>1, <1>2
  <2>2. \A k \in (0 + 1)..n : k - 1 \in T => k \in T
    <3>. HIDE DEF n, Upto
    <3>. QED  BY <1>1, <1>3
  <2>. HIDE DEF n, T
  <2>3. 0..n \subseteq T
    <3>. 0 \in Nat /\ 0 <= n
      BY <1>1
    <3>. QED  BY <1>1, <2>1, <2>2, Upward
  <2>. QED  BY <1>1, <2>3
<1>. QED  BY <1>4 DEF IsTurns

\* The k-th instruction behind the c-th.
Nth(list, c, k) == list[c + k]

\* The swap data is that of the last turn.
TurnsOf(e, x, list, c, a, h) ==
  /\ a = RoleAccounts(x, e.roles)
  /\ IsTurns(h, list, c, Looked(Preset(e.kind, a), a, FALSE))
  /\ h[0] = Looked(Preset(e.kind, a), a, FALSE)
  /\ \A k \in 1..(Len(list) - c) : \A j : j = k - 1 => h[k] = Turn(h[j], Nth(list, c, k))
  /\ parse_swap_data_from_next_grpc_instructions(e, x, list, c) = h[Len(list) - c].swap

\* The swap data is what the last of the turns has.
LEMMA SwapFrom ==
  ASSUME NEW list, Len(list) \in Nat, NEW c \in 0..Len(list), NEW e, NEW x
  PROVE  \E a, h : TurnsOf(e, x, list, c, a, h)
<1>. DEFINE a == RoleAccounts(x, e.roles)
            start == Looked(Preset(e.kind, a), a, FALSE)
            h == CHOOSE h : IsTurns(h, list, c, start)
<1>1. IsTurns(h, list, c, start)
  <2>. HIDE DEF start
  <2>. QED  BY TurnsExist
<1>2. parse_swap_data_from_next_grpc_instructions(e, x, list, c) = h[Len(list) - c].swap
  BY DEF parse_swap_data_from_next_grpc_instructions, IsTurns, Looked
<1>. HIDE DEF h, start
<1>3. h[0] = start /\ \A k \in 1..(Len(list) - c) : \A j : j = k - 1 => h[k] = Turn(h[j], Nth(list, c, k))
  BY <1>1 DEF IsTurns, Nth
<1>. QED  BY <1>1, <1>2, <1>3 DEF start, TurnsOf

\* From a turn on the swap data stays if every transfer looked at leaves it alone.
LEMMA TurnsRest ==
  ASSUME NEW list, Len(list) \in Nat, NEW c \in 0..Len(list), NEW h,
         \A k \in 1..(Len(list) - c) : \A j : j = k - 1 => h[k] = Turn(h[j], Nth(list, c, k)),
         NEW m \in 0..(Len(list) - c), NEW s, NEW a, \E d \in BOOLEAN : h[m] = Looked(s, a, d),
         \A i \in 1..m : Nth(list, c, i).prog \in SYSTEM_PROGRAMS,
         \A j \in (m + 1)..(Len(list) - c) :
           \/ \E i \in 1..j : Nth(list, c, i).prog \notin SYSTEM_PROGRAMS
           \/ ~IsPlain(Nth(list, c, j))
           \/ Sided(s, a, Nth(list, c, j)) = s
  PROVE  h[Len(list) - c].swap = s
<1>. DEFINE n == Len(list) - c
            Here(k) == \E done \in BOOLEAN :
                         /\ h[k] = Looked(s, a, done)
                         /\ done \/ \A i \in 1..k : Nth(list, c, i).prog \in SYSTEM_PROGRAMS
            T == {k \in m..n : Here(k)}
<1>1. n \in Nat /\ m \in Nat /\ m <= n
  OBVIOUS
<1>2. m \in T
  <2>1. Here(m)
    OBVIOUS
  <2>. HIDE DEF Here
  <2>. QED  BY <1>1, <2>1
<1>3. ASSUME NEW k \in (m + 1)..n, Here(k - 1) PROVE Here(k)
  <2>. DEFINE y == Nth(list, c, k)
  <2>1. PICK done \in BOOLEAN :
               /\ h[k - 1] = Looked(s, a, done)
               /\ done \/ \A i \in 1..(k - 1) : Nth(list, c, i).prog \in SYSTEM_PROGRAMS
    BY <1>3
  <2>2. h[k] = Turn(Looked(s, a, done), y)
    BY <2>1
  <2>3. CASE done
    <3>1. h[k] = Looked(s, a, TRUE)
      BY <2>2, <2>3, OneTurn
    <3>. QED  BY <3>1
  <2>4. CASE ~done /\ y.prog \notin SYSTEM_PROGRAMS
    <3>1. h[k] = Looked(s, a, TRUE)
      BY <2>2, <2>4, OneTurn, ZenonT(60)
    <3>. QED  BY <3>1
  <2>5. CASE ~done /\ y.prog \in SYSTEM_PROGRAMS
    <3>1. \A i \in 1..k : Nth(list, c, i).prog \in SYSTEM_PROGRAMS
      <4>1. \A i \in 1..k : i = k \/ i \in 1..(k - 1)
        OBVIOUS
      <4>. QED  BY <2>1, <2>5, <4>1
    <3>2. ~IsPlain(y) \/ Sided(s, a, y) = s
      BY <3>1
    <3>. h[k] = Turn(Looked(s, a, FALSE), y)
      <4>1. done = FALSE
        BY <2>5
      <4>. QED  BY <2>2, <4>1
    <3>3. PICK b \in BOOLEAN : h[k] = Looked(s, a, b)
      <4>1. CASE IsPlain(y)
        <5>1. h[k] = Looked(Sided(s, a, y), a, Known(Sided(s, a, y)))
          BY <4>1, OneTurn
        <5>2. h[k] = Looked(s, a, Known(s))
          BY <3>2, <4>1, <5>1
        <5>3. Known(s) \in BOOLEAN
          BY DEF Known
        <5>. QED  BY <5>2, <5>3
      <4>2. CASE ~IsPlain(y)
        BY <2>5, <4>2, OneTurn
      <4>. QED  BY <4>1, <4>2
    <3>. QED  BY <3>1, <3>3
  <2>. QED  BY <2>3, <2>4, <2>5
<1>4. m..n \subseteq T
  <2>1. \A k \in (m + 1)..n : k - 1 \in T => k \in T
    <3>. HIDE DEF n, Here
    <3>. QED  BY <1>1, <1>3
  <2>. HIDE DEF n, T
  <2>. QED  BY <1>1, <1>2, <2>1, Upward
<1>5. Here(n)
  <2>. HIDE DEF n, Here
  <2>. QED  BY <1>1, <1>4
<1>. QED  BY <1>5 DEF Looked

-----------------------------------------------------------------------------
(* What a call is followed by.                                                *)

\* The two transfers of a swap, then the log.
LEMMA CausedParts ==
  ASSUME NEW x, NEW op
  PROVE  LET s == SidesOf(x)  u == Caused(x, op)  m == IF s = NoSides THEN 0 ELSE 2 IN
         /\ Len(u) = IF LogKind(x) = << >> THEN m ELSE m + 1
         /\ s # NoSides => /\ u[1] = Move(x, s.pays, s.into, "in", op)
                           /\ u[2] = Move(x, s.from, s.gets, "out", "transferChecked")
         /\ LogKind(x) # << >> => u[m + 1] = Log(x)[1]
<1>1. CASE SidesOf(x) = NoSides
  <2>1. CASE LogKind(x) = << >>
    BY <1>1, <2>1 DEF Caused, Moves, Log
  <2>2. CASE LogKind(x) # << >>
    BY <1>1, <2>2 DEF Caused, Moves, Log
  <2>. QED  BY <2>1, <2>2
<1>2. CASE SidesOf(x) # NoSides
  <2>1. CASE LogKind(x) = << >>
    BY <1>2, <2>1 DEF Caused, Moves, Log
  <2>2. CASE LogKind(x) # << >>
    BY <1>2, <2>2 DEF Caused, Moves, Log
  <2>. QED  BY <2>1, <2>2
<1>. QED  BY <1>1, <1>2

\* Behind the two transfers, what is looked at is apart from the pool.
LEMMA Behind ==
  ASSUME NEW list, Len(list) \in Nat, NEW c \in 0..Len(list), NEW x, x.prog \in Dex,
         Follows(list, c, x)
  PROVE  LET s == SidesOf(x)  m == IF s = NoSides THEN 0 ELSE 2 IN
         /\ m <= Len(list) - c
         /\ s # NoSides =>
              /\ \E op \in {"transferChecked", "transferCheckedWithFee"} :
                   Nth(list, c, 1) = Move(x, s.pays, s.into, "in", op)
              /\ Nth(list, c, 2) = Move(x, s.from, s.gets, "out", "transferChecked")
         /\ LogKind(x) # << >> =>
              c + m + 1 \in 1..Len(list) /\ list[c + m + 1] = Log(x)[1]
         /\ \A j \in (m + 1)..(Len(list) - c) :
              \/ \E i \in 1..j : Nth(list, c, i).prog \notin SYSTEM_PROGRAMS
              \/ ~IsPlain(Nth(list, c, j))
              \/ Elsewhere(Nth(list, c, j), x)
<1>. DEFINE s == SidesOf(x)
            m == IF s = NoSides THEN 0 ELSE 2
            Rest(n) == \A j \in (c + n + 1)..Len(list) :
                         \/ \E i \in (c + 1)..j : list[i].prog \notin Plumbing
                         \/ list[j].op \notin {"transfer", "transferChecked"}
                         \/ Elsewhere(list[j], x)
<1>1. PICK op \in {"transferChecked", "transferCheckedWithFee"} :
             LET u == Caused(x, op) IN
             /\ c + Len(u) <= Len(list)
             /\ \A i \in 1..Len(u) : list[c + i] = u[i]
             /\ Rest(Len(u))
  BY DEF Follows
<1>. DEFINE u == Caused(x, op)
<1>2. /\ Len(u) = IF LogKind(x) = << >> THEN m ELSE m + 1
      /\ s # NoSides => /\ u[1] = Move(x, s.pays, s.into, "in", op)
                        /\ u[2] = Move(x, s.from, s.gets, "out", "transferChecked")
      /\ LogKind(x) # << >> => u[m + 1] = Log(x)[1]
  BY CausedParts
<1>3. m \in {0, 2} /\ Len(u) \in {m, m + 1} /\ (s # NoSides => m = 2)
  BY <1>2
<1>. HIDE DEF m, s, u
<1>4. m <= Len(list) - c
  BY <1>1, <1>3 DEF u
<1>5. s # NoSides =>
        /\ list[c + 1] = Move(x, s.pays, s.into, "in", op)
        /\ list[c + 2] = Move(x, s.from, s.gets, "out", "transferChecked")
  BY <1>1, <1>2, <1>3 DEF u
<1>6. LogKind(x) # << >> => c + m + 1 \in 1..Len(list) /\ list[c + m + 1] = Log(x)[1]
  <2>1. SUFFICES ASSUME LogKind(x) # << >>
                 PROVE  c + m + 1 \in 1..Len(list) /\ list[c + m + 1] = Log(x)[1]
    OBVIOUS
  <2>2. Len(u) = m + 1
    BY <1>2, <2>1
  <2>3. list[c + (m + 1)] = u[m + 1]
    BY <1>1, <1>3, <2>2 DEF u
  <2>. QED  BY <1>1, <1>2, <1>3, <2>1, <2>2, <2>3 DEF u
<1>7. ASSUME NEW j \in (m + 1)..(Len(list) - c)
      PROVE  \/ \E i \in 1..j : list[c + i].prog \notin SYSTEM_PROGRAMS
             \/ ~IsPlain(list[c + j])
             \/ Elsewhere(list[c + j], x)
  <2>1. CASE j <= Len(u)
    <3>1. j = m + 1 /\ LogKind(x) # << >> /\ j \in Nat
      BY <1>2, <1>3, <2>1
    <3>2. list[c + j] = Log(x)[1]
      BY <1>3, <1>6, <3>1
    <3>3. list[c + j].prog = x.prog
      BY <3>1, <3>2 DEF Log
    <3>4. x.prog \notin SYSTEM_PROGRAMS
      BY DEF Dex, SYSTEM_PROGRAMS
    <3>5. j \in 1..j
      BY <1>3, <3>1
    <3>. QED  BY <3>3, <3>4, <3>5
  <2>2. CASE ~(j <= Len(u))
    <3>1. c + j \in (c + Len(u) + 1)..Len(list)
      BY <1>3, <2>2
    <3>2. \/ \E i \in (c + 1)..(c + j) : list[i].prog \notin Plumbing
          \/ list[c + j].op \notin {"transfer", "transferChecked"}
          \/ Elsewhere(list[c + j], x)
      BY <1>1, <3>1 DEF u
    <3>3. CASE \E i \in (c + 1)..(c + j) : list[i].prog \notin Plumbing
      <4>1. PICK i \in (c + 1)..(c + j) : list[i].prog \notin Plumbing
        BY <3>3
      <4>2. i - c \in 1..j /\ c + (i - c) = i
        BY <1>3
      <4>3. list[c + (i - c)].prog \notin SYSTEM_PROGRAMS
        BY <4>1, <4>2 DEF Plumbing, SYSTEM_PROGRAMS
      <4>. QED  BY <4>2, <4>3
    <3>. QED  BY <3>2, <3>3 DEF IsPlain
  <2>. QED  BY <2>1, <2>2
<1>8. /\ s # NoSides => /\ Nth(list, c, 1) = Move(x, s.pays, s.into, "in", op)
                        /\ Nth(list, c, 2) = Move(x, s.from, s.gets, "out", "transferChecked")
      /\ \A j \in (m + 1)..(Len(list) - c) :
           \/ \E i \in 1..j : Nth(list, c, i).prog \notin SYSTEM_PROGRAMS
           \/ ~IsPlain(Nth(list, c, j))
           \/ Elsewhere(Nth(list, c, j), x)
  BY <1>5, <1>7 DEF Nth
<1>. QED  BY <1>4, <1>6, <1>8 DEF m, s

-----------------------------------------------------------------------------
(* The swap data of a call.                                                   *)

\* No transfer matches an event that takes no accounts.
LEMMA NoneSided ==
  ASSUME NEW x, NEW r, NoPlaces(r), NEW s, NEW y, y.src # Default
  PROVE  Sided(s, RoleAccounts(x, r), y) = s
<1>. DEFINE a == RoleAccounts(x, r)
<1>1. /\ a.user_from = Default /\ a.user_to = Default
      /\ a.from_vault = Default /\ a.to_vault = Default
  BY DEF RoleAccounts, AccountAt, NoPlaces, NoRoles
<1>. HIDE DEF a
<1>2. Sided(s, a, y) = s
  BY <1>1 DEF Sided
<1>. QED  BY <1>2 DEF a

\* Nor does one that is not of the program's accounts.
LEMMA ElsewhereSided ==
  ASSUME NEW x, NEW r, DOMAIN r = DOMAIN NoRoles, NEW s, NEW y, SidesOf(x) # NoSides,
         Elsewhere(y, x)
  PROVE  Sided(s, RoleAccounts(x, r), y) = s
<1>. DEFINE a == RoleAccounts(x, r)
<1>1. \A p : y.src # AccountAt(x, p)
  BY DEF Elsewhere, AccountAt, Default
<1>2. /\ a.user_from = AccountAt(x, r.user_from) /\ a.user_to = AccountAt(x, r.user_to)
      /\ a.from_vault = AccountAt(x, r.from_vault) /\ a.to_vault = AccountAt(x, r.to_vault)
  BY DEF RoleAccounts, NoRoles
<1>. HIDE DEF a
<1>3. Sided(s, a, y) = s
  BY <1>1, <1>2 DEF Sided
<1>. QED  BY <1>3 DEF a

\* What a match sets.
LEMMA SetSide ==
  ASSUME NEW fm, NEW tm, NEW fa, NEW ta, NEW mint, NEW amount
  PROVE  /\ FromSide(Swap(fm, tm, fa, ta), mint, amount) = Swap(mint, tm, amount, ta)
         /\ ToSide(Swap(fm, tm, fa, ta), mint, amount) = Swap(fm, mint, fa, amount)
<1>1. /\ [Swap(fm, tm, fa, ta) EXCEPT !.from_mint = mint] = Swap(mint, tm, fa, ta)
      /\ [Swap(fm, tm, fa, ta) EXCEPT !.to_mint = mint] = Swap(fm, mint, fa, ta)
  BY DEF Swap
<1>2. /\ [Swap(mint, tm, fa, ta) EXCEPT !.from_amount = amount] = Swap(mint, tm, amount, ta)
      /\ [Swap(fm, mint, fa, ta) EXCEPT !.to_amount = amount] = Swap(fm, mint, fa, amount)
  BY DEF Swap
<1>. QED  BY <1>1, <1>2 DEF FromSide, ToSide

\* The six pairs of accounts that are tried.
LEMMA PairsTried ==
  ASSUME NEW a, NEW s, NEW y, a.user_from \notin {a.user_to, a.from_vault, a.to_vault},
         a.user_to \notin {a.from_vault, a.to_vault}, a.from_vault # a.to_vault
  PROVE  LET From(mint) == FromSide(s, mint, y.amount)
             To(mint) == ToSide(s, mint, y.amount)
             Is(src, dst) == y.src = src /\ y.dst = dst
         IN  /\ Is(a.user_from, a.from_vault) => Sided(s, a, y) = From(a.from_mint)
             /\ Is(a.to_vault, a.user_to) => Sided(s, a, y) = To(a.to_mint)
             /\ Is(a.user_to, a.to_vault) => Sided(s, a, y) = From(a.to_mint)
             /\ Is(a.from_vault, a.user_from) => Sided(s, a, y) = To(a.from_mint)
             /\ Is(a.user_from, a.to_vault) => Sided(s, a, y) = From(a.from_mint)
             /\ Is(a.from_vault, a.user_to) => Sided(s, a, y) = To(a.to_mint)
BY DEF Sided

\* The accounts an event takes are the program's, and different.
LEMMA Taken ==
  ASSUME NEW x, NEW r, Distinct(r)
  PROVE  LET a == RoleAccounts(x, r) IN
         /\ a.user_from = <<x.prog, r.user_from>> /\ a.user_to = <<x.prog, r.user_to>>
         /\ a.from_vault = <<x.prog, r.from_vault>> /\ a.to_vault = <<x.prog, r.to_vault>>
         /\ a.from_mint = AccountAt(x, r.from_mint) /\ a.to_mint = AccountAt(x, r.to_mint)
         /\ a.user_from \notin {a.user_to, a.from_vault, a.to_vault}
         /\ a.user_to \notin {a.from_vault, a.to_vault} /\ a.from_vault # a.to_vault
<1>1. \A p \in Nat : AccountAt(x, p) = <<x.prog, p>>
  BY DEF AccountAt, NoRole
<1>. QED  BY <1>1 DEF RoleAccounts, Distinct, NoRoles

\* The transfers of a swap are found from either end, and give each side its mint.
LEMMA SwapSided ==
  ASSUME NEW x, NEW r, Distinct(r), Direct(x, r) \/ Backward(x, r) \/ Crossed(x, r),
         NEW y, NEW fm, NEW tm, NEW fa, NEW ta
  PROVE  LET s == SidesOf(x)  w == Swap(fm, tm, fa, ta)  a == RoleAccounts(x, r) IN
         /\ y.src = <<x.prog, s.pays>> /\ y.dst = <<x.prog, s.into>> =>
              Sided(w, a, y) = Swap(Mint(x, s.mint_in), tm, y.amount, ta)
         /\ y.src = <<x.prog, s.from>> /\ y.dst = <<x.prog, s.gets>> =>
              Sided(w, a, y) = Swap(fm, Mint(x, s.mint_out), fa, y.amount)
<1>. DEFINE a == RoleAccounts(x, r)
            w == Swap(fm, tm, fa, ta)
            s == SidesOf(x)
            From(mint) == FromSide(w, mint, y.amount)
            To(mint) == ToSide(w, mint, y.amount)
            Paid == y.src = <<x.prog, s.pays>> /\ y.dst = <<x.prog, s.into>>
            Got == y.src = <<x.prog, s.from>> /\ y.dst = <<x.prog, s.gets>>
<1>1. \A mint : From(mint) = Swap(mint, tm, y.amount, ta) /\ To(mint) = Swap(fm, mint, fa, y.amount)
  BY SetSide
<1>2. /\ a.user_from = <<x.prog, r.user_from>> /\ a.user_to = <<x.prog, r.user_to>>
      /\ a.from_vault = <<x.prog, r.from_vault>> /\ a.to_vault = <<x.prog, r.to_vault>>
      /\ a.from_mint = AccountAt(x, r.from_mint) /\ a.to_mint = AccountAt(x, r.to_mint)
      /\ a.user_from \notin {a.user_to, a.from_vault, a.to_vault}
      /\ a.user_to \notin {a.from_vault, a.to_vault} /\ a.from_vault # a.to_vault
  BY Taken
<1>. HIDE DEF a
<1>3. /\ y.src = a.user_from /\ y.dst = a.from_vault => Sided(w, a, y) = From(a.from_mint)
      /\ y.src = a.to_vault /\ y.dst = a.user_to => Sided(w, a, y) = To(a.to_mint)
      /\ y.src = a.user_to /\ y.dst = a.to_vault => Sided(w, a, y) = From(a.to_mint)
      /\ y.src = a.from_vault /\ y.dst = a.user_from => Sided(w, a, y) = To(a.from_mint)
      /\ y.src = a.user_from /\ y.dst = a.to_vault => Sided(w, a, y) = From(a.from_mint)
      /\ y.src = a.from_vault /\ y.dst = a.user_to => Sided(w, a, y) = To(a.to_mint)
  <2>. HIDE DEF w
  <2>. QED  BY <1>2, PairsTried
<1>. HIDE DEF w, From, To, s
<1>4. /\ Paid => Sided(w, a, y) = From(Mint(x, s.mint_in))
      /\ Got => Sided(w, a, y) = To(Mint(x, s.mint_out))
  <2>1. CASE Direct(x, r)
    BY <1>2, <1>3, <2>1 DEF Direct, Placing, s
  <2>2. CASE Backward(x, r)
    BY <1>2, <1>3, <2>2 DEF Backward, Placing, s
  <2>3. CASE Crossed(x, r)
    BY <1>2, <1>3, <2>3 DEF Crossed, Placing, s
  <2>. QED  BY <2>1, <2>2, <2>3
<1>. QED  BY <1>1, <1>4 DEF a, w, s

\* The swap data of a call's event: nothing, the mints the instruction knows, or the two
\* sides as they moved; a transfer with a fee is not seen.
IsSwapOf(x, kind, w, list, c) ==
  LET s == SidesOf(x)  gave == Mint(x, s.mint_in)  got == Mint(x, s.mint_out) IN
  IF s = NoSides THEN w = NoSwap
  ELSE IF kind \in PumpTrades THEN w = Swap(gave, got, Zero, Zero) /\ gave # Default
  ELSE \/ w = Swap(gave, got, <<x.id, "in">>, <<x.id, "out">>)
       \/ /\ list[c + 1].op = "transferCheckedWithFee" /\ c + 1 \in 1..Len(list)
          /\ w = Swap(Default, got, Zero, <<x.id, "out">>)

\* An event that takes no accounts keeps what it starts with.
LEMMA NoneRead ==
  ASSUME NEW list, Len(list) \in Nat, NEW c \in 0..Len(list), NEW x, NEW d, NoPlaces(d.roles),
         \A j \in 1..(Len(list) - c) :
           \/ \E i \in 1..j : Nth(list, c, i).prog \notin SYSTEM_PROGRAMS
           \/ ~IsPlain(Nth(list, c, j))
           \/ Nth(list, c, j).src # Default
  PROVE  parse_swap_data_from_next_grpc_instructions(d, x, list, c)
           = Preset(d.kind, RoleAccounts(x, d.roles))
<1>1. PICK a, h : TurnsOf(d, x, list, c, a, h)
  BY SwapFrom
<1>2. PICK first : first = Preset(d.kind, a)
  OBVIOUS
<1>3. /\ a = RoleAccounts(x, d.roles)
      /\ h[0] = Looked(first, a, FALSE)
      /\ \A k \in 1..(Len(list) - c) : \A j : j = k - 1 => h[k] = Turn(h[j], Nth(list, c, k))
  BY <1>1, <1>2 DEF TurnsOf
<1>4. parse_swap_data_from_next_grpc_instructions(d, x, list, c) = h[Len(list) - c].swap
  BY <1>1 DEF TurnsOf
<1>5. \A j \in (0 + 1)..(Len(list) - c) :
        \/ \E i \in 1..j : Nth(list, c, i).prog \notin SYSTEM_PROGRAMS
        \/ ~IsPlain(Nth(list, c, j))
        \/ Sided(first, a, Nth(list, c, j)) = first
  <2>1. \A y : y.src # Default => Sided(first, RoleAccounts(x, d.roles), y) = first
    BY NoneSided
  <2>2. \A y : y.src # Default => Sided(first, a, y) = first
    BY <1>3, <2>1
  <2>. QED  BY <2>2
<1>6. \E b \in BOOLEAN : h[0] = Looked(first, a, b)
  BY <1>3
<1>7. 0 \in 0..(Len(list) - c) /\ \A i \in 1..0 : Nth(list, c, i).prog \in SYSTEM_PROGRAMS
  OBVIOUS
<1>8. h[Len(list) - c].swap = first
  BY <1>3, <1>5, <1>6, <1>7, TurnsRest
<1>. QED  BY <1>2, <1>3, <1>4, <1>8

\* An event that takes the four accounts finds the sides as they moved.
LEMMA PlacesRead ==
  ASSUME NEW list, Len(list) \in Nat, NEW c \in 0..Len(list), NEW x, x.prog \in Dex,
         SidesOf(x) # NoSides, Follows(list, c, x), NEW d, Distinct(d.roles),
         Direct(x, d.roles) \/ Backward(x, d.roles) \/ Crossed(x, d.roles),
         d.kind \notin PumpTrades
  PROVE  LET s == SidesOf(x)  gave == Mint(x, s.mint_in)  got == Mint(x, s.mint_out)
             w == parse_swap_data_from_next_grpc_instructions(d, x, list, c)
         IN  \/ w = Swap(gave, got, <<x.id, "in">>, <<x.id, "out">>)
             \/ /\ list[c + 1].op = "transferCheckedWithFee" /\ c + 1 \in 1..Len(list)
                /\ w = Swap(Default, got, Zero, <<x.id, "out">>)
<1>. DEFINE s == SidesOf(x)
            gave == Mint(x, s.mint_in)
            got == Mint(x, s.mint_out)
<1>1. PICK a, h : TurnsOf(d, x, list, c, a, h)
  BY SwapFrom
<1>2. PICK first : first = Preset(d.kind, a)
  OBVIOUS
<1>3. /\ a = RoleAccounts(x, d.roles)
      /\ h[0] = Looked(first, a, FALSE)
      /\ \A k \in 1..(Len(list) - c) : \A j : j = k - 1 => h[k] = Turn(h[j], Nth(list, c, k))
  BY <1>1, <1>2 DEF TurnsOf
<1>4. parse_swap_data_from_next_grpc_instructions(d, x, list, c) = h[Len(list) - c].swap
  BY <1>1 DEF TurnsOf
<1>5. first = Swap(Default, Default, Zero, Zero)
  BY <1>2 DEF Preset, PumpTrades, NoSwap, Swap
<1>6. /\ 2 <= Len(list) - c
      /\ \E op \in {"transferChecked", "transferCheckedWithFee"} :
           Nth(list, c, 1) = Move(x, s.pays, s.into, "in", op)
      /\ Nth(list, c, 2) = Move(x, s.from, s.gets, "out", "transferChecked")
      /\ \A j \in (2 + 1)..(Len(list) - c) :
           \/ \E i \in 1..j : Nth(list, c, i).prog \notin SYSTEM_PROGRAMS
           \/ ~IsPlain(Nth(list, c, j))
           \/ Elsewhere(Nth(list, c, j), x)
  BY Behind
<1>. HIDE DEF s
<1>7. /\ h[0] = Looked(first, a, FALSE)
      /\ h[1] = Turn(h[0], Nth(list, c, 1))
      /\ h[2] = Turn(h[1], Nth(list, c, 2))
  <2>1. {1, 2} \subseteq 1..(Len(list) - c)
    BY <1>6
  <2>2. 0 = 1 - 1 /\ 1 = 2 - 1
    OBVIOUS
  <2>. QED  BY <1>3, <2>1, <2>2
<1>8. \A fm, tm, fa, ta :
        /\ Nth(list, c, 1).op = "transferChecked" =>
             Sided(Swap(fm, tm, fa, ta), a, Nth(list, c, 1)) = Swap(gave, tm, <<x.id, "in">>, ta)
        /\ Sided(Swap(fm, tm, fa, ta), a, Nth(list, c, 2)) = Swap(fm, got, fa, <<x.id, "out">>)
  <2>1. /\ Nth(list, c, 1).src = <<x.prog, s.pays>> /\ Nth(list, c, 1).dst = <<x.prog, s.into>>
        /\ Nth(list, c, 1).amount = <<x.id, "in">>
        /\ Nth(list, c, 2).src = <<x.prog, s.from>> /\ Nth(list, c, 2).dst = <<x.prog, s.gets>>
        /\ Nth(list, c, 2).amount = <<x.id, "out">>
    BY <1>6 DEF Move
  <2>2. ASSUME NEW fm, NEW tm, NEW fa, NEW ta, NEW y
        PROVE  LET w == Swap(fm, tm, fa, ta)  b == RoleAccounts(x, d.roles) IN
               /\ y.src = <<x.prog, s.pays>> /\ y.dst = <<x.prog, s.into>> =>
                    Sided(w, b, y) = Swap(gave, tm, y.amount, ta)
               /\ y.src = <<x.prog, s.from>> /\ y.dst = <<x.prog, s.gets>> =>
                    Sided(w, b, y) = Swap(fm, got, fa, y.amount)
    BY SwapSided DEF s
  <2>3. \A fm, tm, fa, ta, y :
          /\ y.src = <<x.prog, s.pays>> /\ y.dst = <<x.prog, s.into>> =>
               Sided(Swap(fm, tm, fa, ta), a, y) = Swap(gave, tm, y.amount, ta)
          /\ y.src = <<x.prog, s.from>> /\ y.dst = <<x.prog, s.gets>> =>
               Sided(Swap(fm, tm, fa, ta), a, y) = Swap(fm, got, fa, y.amount)
    BY <1>3, <2>2
  <2>. QED  BY <2>1, <2>3, SMTT(60)
<1>9. IsPlain(Nth(list, c, 2)) /\ Nth(list, c, 1).prog \in SYSTEM_PROGRAMS
      /\ Nth(list, c, 2).prog \in SYSTEM_PROGRAMS
      /\ \/ IsPlain(Nth(list, c, 1)) /\ Nth(list, c, 1).op = "transferChecked"
         \/ ~IsPlain(Nth(list, c, 1)) /\ Nth(list, c, 1).op = "transferCheckedWithFee"
  BY <1>6 DEF Move, IsPlain, SYSTEM_PROGRAMS
<1>10. ASSUME NEW w, NEW b \in BOOLEAN, h[2] = Looked(w, a, b)
      PROVE  h[Len(list) - c].swap = w
  <2>1. \A j \in (2 + 1)..(Len(list) - c) :
          \/ \E i \in 1..j : Nth(list, c, i).prog \notin SYSTEM_PROGRAMS
          \/ ~IsPlain(Nth(list, c, j))
          \/ Sided(w, a, Nth(list, c, j)) = w
    <3>1. DOMAIN d.roles = DOMAIN NoRoles
      BY DEF Distinct
    <3>2. \A y : Elsewhere(y, x) => Sided(w, RoleAccounts(x, d.roles), y) = w
      BY <3>1, ElsewhereSided
    <3>3. \A y : Elsewhere(y, x) => Sided(w, a, y) = w
      BY <1>3, <3>2
    <3>. QED  BY <1>6, <3>3
  <2>2. 2 \in 0..(Len(list) - c)
    BY <1>6
  <2>3. \A i \in 1..2 : Nth(list, c, i).prog \in SYSTEM_PROGRAMS
    <3>1. \A i \in 1..2 : i = 1 \/ i = 2
      OBVIOUS
    <3>. QED  BY <1>9, <3>1
  <2>4. \E done \in BOOLEAN : h[2] = Looked(w, a, done)
    BY <1>10
  <2>5. PICK m \in Nat : m = 2
    OBVIOUS
  <2>6. /\ m \in 0..(Len(list) - c)
        /\ \E done \in BOOLEAN : h[m] = Looked(w, a, done)
        /\ \A i \in 1..m : Nth(list, c, i).prog \in SYSTEM_PROGRAMS
        /\ \A j \in (m + 1)..(Len(list) - c) :
             \/ \E i \in 1..j : Nth(list, c, i).prog \notin SYSTEM_PROGRAMS
             \/ ~IsPlain(Nth(list, c, j))
             \/ Sided(w, a, Nth(list, c, j)) = w
    BY <2>1, <2>2, <2>3, <2>4, <2>5
  <2>. QED  BY <1>3, <2>6, TurnsRest, ZenonT(60)
<1>11. CASE Nth(list, c, 1).op = "transferChecked"
  <2>. DEFINE w == Swap(gave, Default, <<x.id, "in">>, Zero)
              z == Swap(gave, got, <<x.id, "in">>, <<x.id, "out">>)
  <2>1. IsPlain(Nth(list, c, 1))
    BY <1>9, <1>11
  <2>2. Sided(first, a, Nth(list, c, 1)) = w
    BY <1>5, <1>8, <1>11
  <2>3. h[1] = Looked(w, a, Known(w))
    BY <1>7, <2>1, <2>2, OneTurn
  <2>4. ~Known(w)
    BY DEF Known, Swap
  <2>5. h[1] = Looked(w, a, FALSE)
    <3>. HIDE DEF w
    <3>1. Known(w) = FALSE
      BY <2>4 DEF Known
    <3>. QED  BY <2>3, <3>1
  <2>6. Sided(w, a, Nth(list, c, 2)) = z
    BY <1>8
  <2>. HIDE DEF w, z
  <2>7. h[2] = Looked(z, a, Known(z))
    BY <1>7, <1>9, <2>5, <2>6, OneTurn, ZenonT(60)
  <2>8. Known(z) \in BOOLEAN
    BY DEF Known
  <2>9. h[Len(list) - c].swap = z
    BY <1>10, <2>7, <2>8
  <2>. QED  BY <1>4, <2>9 DEF z, s
<1>12. CASE Nth(list, c, 1).op = "transferCheckedWithFee"
  <2>. DEFINE z == Swap(Default, got, Zero, <<x.id, "out">>)
  <2>1. h[1] = Looked(first, a, FALSE)
    BY <1>7, <1>9, <1>12, OneTurn
  <2>2. Sided(first, a, Nth(list, c, 2)) = z
    BY <1>5, <1>8
  <2>. HIDE DEF z
  <2>3. h[2] = Looked(z, a, Known(z))
    BY <1>7, <1>9, <2>1, <2>2, OneTurn
  <2>4. Known(z) \in BOOLEAN
    BY DEF Known
  <2>5. h[Len(list) - c].swap = z
    BY <1>10, <2>3, <2>4
  <2>6. c + 1 \in 1..Len(list)
    BY <1>6
  <2>. QED  BY <1>4, <1>12, <2>5, <2>6 DEF z, s, Nth
<1>. QED  BY <1>9, <1>11, <1>12 DEF s

\* Whatever places an event's accounts have, its swap is that of its own call.
LEMMA SwapRead ==
  ASSUME NEW list, Len(list) \in Nat, NEW c \in 0..Len(list), NEW x, x.prog \in Dex,
         Follows(list, c, x), NEW d, ReadPlaces(x, d)
  PROVE  IsSwapOf(x, d.kind, parse_swap_data_from_next_grpc_instructions(d, x, list, c), list, c)
<1>. DEFINE s == SidesOf(x)
            gave == Mint(x, s.mint_in)
            got == Mint(x, s.mint_out)
            w == parse_swap_data_from_next_grpc_instructions(d, x, list, c)
<1>1. CASE Distinct(d.roles) /\ s # NoSides /\ d.kind \notin PumpTrades
  <2>1. Direct(x, d.roles) \/ Backward(x, d.roles) \/ Crossed(x, d.roles)
    BY <1>1 DEF ReadPlaces
  <2>2. \/ w = Swap(gave, got, <<x.id, "in">>, <<x.id, "out">>)
        \/ /\ list[c + 1].op = "transferCheckedWithFee" /\ c + 1 \in 1..Len(list)
           /\ w = Swap(Default, got, Zero, <<x.id, "out">>)
    BY <1>1, <2>1, PlacesRead
  <2>. QED  BY <1>1, <2>2 DEF IsSwapOf
<1>2. CASE NoPlaces(d.roles)
  <2>1. \A j \in 1..(Len(list) - c) :
          \/ \E i \in 1..j : Nth(list, c, i).prog \notin SYSTEM_PROGRAMS
          \/ ~IsPlain(Nth(list, c, j))
          \/ Nth(list, c, j).src # Default
    <3>. DEFINE m == IF s = NoSides THEN 0 ELSE 2
    <3>1. /\ s # NoSides =>
               /\ \E op \in {"transferChecked", "transferCheckedWithFee"} :
                    Nth(list, c, 1) = Move(x, s.pays, s.into, "in", op)
               /\ Nth(list, c, 2) = Move(x, s.from, s.gets, "out", "transferChecked")
          /\ \A j \in (m + 1)..(Len(list) - c) :
               \/ \E i \in 1..j : Nth(list, c, i).prog \notin SYSTEM_PROGRAMS
               \/ ~IsPlain(Nth(list, c, j))
               \/ Elsewhere(Nth(list, c, j), x)
      BY Behind
    <3>2. m \in {0, 2} /\ (m = 2 => s # NoSides)
      OBVIOUS
    <3>. HIDE DEF m, s
    <3>3. ASSUME NEW j \in 1..(Len(list) - c), j \notin (m + 1)..(Len(list) - c)
          PROVE  Nth(list, c, j).src # Default
      <4>1. m = 2 /\ j \in {1, 2}
        BY <3>2, <3>3
      <4>. QED  BY <3>1, <3>2, <4>1 DEF Move, Default
    <3>. QED  BY <3>1, <3>3 DEF Elsewhere, Default
  <2>2. w = Preset(d.kind, RoleAccounts(x, d.roles))
    BY <1>2, <2>1, NoneRead
  <2>3. CASE s = NoSides
    <3>1. w = NoSwap
      BY <2>2, <2>3 DEF ReadPlaces, PumpTrades, Preset
    <3>. QED  BY <2>3, <3>1 DEF IsSwapOf
  <2>4. CASE s # NoSides /\ d.kind \in PumpTrades
    <3>1. w = [NoSwap EXCEPT !.from_mint = gave, !.to_mint = got] /\ gave # Default
      BY <2>2, <2>4 DEF ReadPlaces
    <3>2. w = Swap(gave, got, Zero, Zero)
      BY <3>1 DEF NoSwap, Swap
    <3>. QED  BY <2>4, <3>1, <3>2 DEF IsSwapOf
  <2>5. CASE s # NoSides /\ d.kind \notin PumpTrades
    BY <1>2, <2>5 DEF ReadPlaces, Distinct, NoPlaces, NoRoles, NoRole
  <2>. QED  BY <2>3, <2>4, <2>5
<1>. QED  BY <1>1, <1>2 DEF ReadPlaces

-----------------------------------------------------------------------------
(* The event of an instruction.                                               *)

\* What cannot be decoded completes nothing.
LEMMA UndecodedMerges == \A kind : <<kind, NoEvent>> \notin Merges
BY DEF NoEvent, Merges, MergesTrade, MergesCreate, MergesCreateV2, MergesMigrate, MergesBonkTrade,
  MergesBonkPool, MergesSwapBuy, MergesSwapSell, MergesSwapPool, MergesSwapDeposit,
  MergesSwapWithdraw, MergesDammSwap, MergesDammInit

\* The first log that decodes is the call's own.
LEMMA LogFound ==
  ASSUME NEW list, Len(list) \in Nat, DOMAIN list = 1..Len(list), NEW c \in 0..Len(list), NEW x,
         x.prog \in Dex, Follows(list, c, x), LogKind(x) # << >>,
         dispatch_inner_instruction(x.prog, LogKind(x)[1], LogKind(x)[2]) # NoEvent
  PROVE  LogOf(x, list, c) = Log(x)[1]
<1>. DEFINE s == SidesOf(x)
            m == IF s = NoSides THEN 0 ELSE 2
            log == Log(x)[1]
            Decodes(j) == dispatch_inner_instruction(x.prog, list[j].disc, list[j].len) # NoEvent
            found == {j \in DOMAIN list : j > c /\ list[j].op = "log" /\ Decodes(j)}
<1>1. /\ s # NoSides =>
           /\ \E op \in {"transferChecked", "transferCheckedWithFee"} :
                Nth(list, c, 1) = Move(x, s.pays, s.into, "in", op)
           /\ Nth(list, c, 2) = Move(x, s.from, s.gets, "out", "transferChecked")
      /\ c + m + 1 \in 1..Len(list) /\ list[c + m + 1] = log
  BY Behind
<1>2. m \in {0, 2} /\ (m = 2 => s # NoSides)
  OBVIOUS
<1>. HIDE DEF s, m
<1>3. log.op = "log" /\ log.disc = LogKind(x)[1] /\ log.len = LogKind(x)[2]
  BY DEF Log
<1>. HIDE DEF log
<1>4. PICK k : k = c + m + 1 /\ k \in Nat /\ k \in DOMAIN list /\ k > c /\ list[k] = log
  BY <1>1, <1>2
<1>5. k \in found
  BY <1>3, <1>4
<1>6. ASSUME NEW j \in found PROVE k <= j
  <2>1. j \in Nat /\ j > c /\ list[j].op = "log"
    OBVIOUS
  <2>2. SUFFICES ASSUME j < k PROVE FALSE
    BY <1>4, <2>1
  <2>3. m = 2 /\ (j = c + 1 \/ j = c + 2)
    BY <1>2, <1>4, <2>1, <2>2
  <2>4. list[j] = Nth(list, c, 1) \/ list[j] = Nth(list, c, 2)
    BY <2>3 DEF Nth
  <2>5. list[j].op # "log"
    BY <1>1, <1>2, <2>3, <2>4 DEF Move
  <2>. QED  BY <2>1, <2>5
<1>7. ASSUME NEW j \in found, \A i \in found : j <= i PROVE j = k
  <2>1. j \in Nat /\ j <= k /\ k <= j
    BY <1>5, <1>6, <1>7
  <2>. QED  BY <1>4, <2>1
<1>. HIDE DEF found
<1>8. (CHOOSE j \in found : \A i \in found : j <= i) = k
  BY <1>5, <1>6, <1>7
<1>9. LogOf(x, list, c) = IF found = {} THEN Nought
                          ELSE list[CHOOSE j \in found : \A i \in found : j <= i]
  BY DEF LogOf, found
<1>. QED  BY <1>4, <1>5, <1>8, <1>9 DEF log

\* An event and its parts; kind is the instruction's, swap what the transfers say.
Parts == {"kind", "at", "prog", "id", "log", "swap", "user", "creator", "dev"}
Full(e, kind, at, x, log, swap) ==
  /\ DOMAIN e = Parts
  /\ e.kind = kind /\ e.at = at /\ e.prog = x.prog /\ e.log = log /\ e.swap = swap
  /\ e.dev = FALSE

\* What completing an event leaves alone.
LEMMA SetPart ==
  ASSUME NEW e, NEW kind, NEW at, NEW x, NEW log, NEW swap, Full(e, kind, at, x, log, swap), NEW v
  PROVE  /\ Full([e EXCEPT !.swap = v], kind, at, x, log, v)
         /\ Full([e EXCEPT !.log = v], kind, at, x, v, swap)
         /\ Full([e EXCEPT !.user = v], kind, at, x, log, swap)
         /\ Full([e EXCEPT !.creator = v], kind, at, x, log, swap)
<1>1. Full([e EXCEPT !.swap = v], kind, at, x, log, v)
  BY DEF Full, Parts
<1>2. Full([e EXCEPT !.log = v], kind, at, x, v, swap)
  BY DEF Full, Parts
<1>3. Full([e EXCEPT !.user = v], kind, at, x, log, swap)
  BY DEF Full, Parts
<1>4. Full([e EXCEPT !.creator = v], kind, at, x, log, swap)
  BY DEF Full, Parts
<1>. QED  BY <1>1, <1>2, <1>3, <1>4

\* A call's log completes its event, and nobody else's does.
LEMMA LogRead ==
  ASSUME NEW list, Len(list) \in Nat, DOMAIN list = 1..Len(list), NEW c \in 0..Len(list), NEW x,
         x.prog \in Dex, Follows(list, c, x), NEW d, ReadLog(x, d), NEW at, NEW w
  PROVE  Full(merge([Raw(x, at, d) EXCEPT !.swap = w], LogOf(x, list, c)), d.kind, at, x,
              IF LogKind(x) = << >> THEN 0 ELSE x.id, w)
<1>. DEFINE e == [Raw(x, at, d) EXCEPT !.swap = w]
            log == Log(x)[1]
<1>1. Full(e, d.kind, at, x, 0, w)
  <2>1. Full(Raw(x, at, d), d.kind, at, x, 0, NoSwap)
    BY DEF Raw, Full, Parts
  <2>. QED  BY <2>1, SetPart
<1>. HIDE DEF e
<1>2. e.kind = d.kind /\ e.prog = x.prog
  BY <1>1 DEF Full
<1>3. CASE LogKind(x) = << >>
  <2>1. merge(e, LogOf(x, list, c)) = e
    BY <1>2, <1>3 DEF merge, ReadLog
  <2>. QED  BY <1>1, <1>3, <2>1 DEF e
<1>4. CASE LogKind(x) # << >>
  <2>1. <<d.kind, dispatch_inner_instruction(x.prog, LogKind(x)[1], LogKind(x)[2])>> \in Merges
    BY <1>4 DEF ReadLog
  <2>2. dispatch_inner_instruction(x.prog, LogKind(x)[1], LogKind(x)[2]) # NoEvent
    BY <2>1, UndecodedMerges
  <2>3. LogOf(x, list, c) = log
    BY <1>4, <2>2, LogFound
  <2>4. /\ log # Nought /\ log.disc = LogKind(x)[1] /\ log.len = LogKind(x)[2]
        /\ log.id = x.id
    BY <1>4 DEF Log, Nought
  <2>. HIDE DEF log
  <2>5. merge(e, log) = [e EXCEPT !.log = log.id, !.user = log.user, !.creator = log.creator]
    BY <1>2, <2>1, <2>4 DEF merge
  <2>6. Full([e EXCEPT !.log = log.id], d.kind, at, x, x.id, w)
    BY <1>1, <2>4, SetPart
  <2>7. Full([[e EXCEPT !.log = log.id] EXCEPT !.user = log.user], d.kind, at, x, x.id, w)
    BY <2>6, SetPart
  <2>8. Full([[[e EXCEPT !.log = log.id] EXCEPT !.user = log.user] EXCEPT !.creator = log.creator],
             d.kind, at, x, x.id, w)
    BY <2>7, SetPart
  <2>. QED  BY <1>4, <2>3, <2>5, <2>8 DEF e
<1>. QED  BY <1>3, <1>4

\* A log is not an instruction of its program.
LEMMA LogsNothing ==
  ASSUME NEW x, x.prog \in Dex, x.op = "log"
  PROVE  Read(x) = Nothing
BY DEF Dex, Read, dispatch_instruction, parse_pumpfun_instruction_data,
  parse_pumpswap_instruction_data, parse_bonk_instruction_data,
  parse_raydium_cpmm_instruction_data, parse_raydium_clmm_instruction_data,
  parse_raydium_amm_v4_instruction_data, parse_meteora_damm_v2_instruction_data,
  parse_meteora_dlmm_instruction_data, parse_orca_whirlpool_instruction_data

\* Every protocol has an interface.
LEMMA KnownPrograms == Dex \subseteq Programs
<1>1. /\ <<"Bonk", "migrate_to_amm", {17}, {32}>> \in BonkIdl
      /\ <<"PumpFun", "create", {44}, {14}>> \in PumpFunIdl
      /\ <<"PumpSwap", "buy", {17}, {23}>> \in PumpSwapIdl
      /\ <<"RaydiumCpmm", "deposit", {24}, {13}>> \in CpmmIdl
      /\ <<"RaydiumClmm", "create_pool", {24}, {13}>> \in ClmmIdl
      /\ <<"RaydiumAmmV4", "deposit", {24}, {14}>> \in AmmIdl
      /\ <<"MeteoraDammV2", "swap", {16}, {14}>> \in MeteoraIdl
      /\ <<"MeteoraDlmm", "swap", {16}, {15}>> \in MeteoraIdl
      /\ <<"OrcaWhirlpool", "swap", {34}, {11}>> \in OrcaIdl
  BY DEF BonkIdl, PumpFunIdl, PumpSwapIdl, CpmmIdl, ClmmIdl, AmmIdl, MeteoraIdl, OrcaIdl
<1>2. ASSUME NEW p \in Dex PROVE \E row \in Idl : p = row[1]
  <2>1. \A row \in BonkIdl \cup PumpFunIdl \cup PumpSwapIdl \cup CpmmIdl \cup ClmmIdl \cup AmmIdl
                     \cup MeteoraIdl \cup OrcaIdl : row \in Idl
    BY DEF Idl
  <2>2. \E row \in BonkIdl \cup PumpFunIdl \cup PumpSwapIdl \cup CpmmIdl \cup ClmmIdl \cup AmmIdl
                     \cup MeteoraIdl \cup OrcaIdl : p = row[1]
    <3>1. CASE p = "Bonk"  BY <1>1, <3>1
    <3>2. CASE p = "PumpFun"  BY <1>1, <3>2
    <3>3. CASE p = "PumpSwap"  BY <1>1, <3>3
    <3>4. CASE p = "RaydiumCpmm"  BY <1>1, <3>4
    <3>5. CASE p = "RaydiumClmm"  BY <1>1, <3>5
    <3>6. CASE p = "RaydiumAmmV4"  BY <1>1, <3>6
    <3>7. CASE p = "MeteoraDammV2"  BY <1>1, <3>7
    <3>8. CASE p = "MeteoraDlmm"  BY <1>1, <3>8
    <3>9. CASE p = "OrcaWhirlpool"  BY <1>1, <3>9
    <3>. QED  BY <3>1, <3>2, <3>3, <3>4, <3>5, <3>6, <3>7, <3>8, <3>9 DEF Dex
  <2>. QED  BY <2>1, <2>2
<1>. QED  BY <1>2 DEF Programs

\* What the event of a call says, of the call x, the c-th of the list.
CallEvent(e, x, list, c) ==
  /\ Full(e, e.kind, e.at, x, IF LogKind(x) = << >> THEN 0 ELSE x.id, e.swap)
  /\ IsSwapOf(x, e.kind, e.swap, list, c)
  /\ e.kind \notin {"panic", "TokenAccount", "ComputeBudget"}
  /\ e.kind \in PumpFunKinds => e.prog = "PumpFun"
  /\ e.kind \in BonkKinds => e.prog = "Bonk"
  /\ e.kind \in PumpTrades => LogKind(x) # << >>
  /\ x.id # 0
Ours(t, e) ==
  LET p == e.at  x == InsAt(t, p) IN
  /\ p \in Placed(t) /\ Parseable(x)
  /\ e = Budget(p) \/ CallEvent(e, x, t.outer[p[1]].inner, p[2])

\* A call that is read gives its event.
LEMMA CallRead ==
  ASSUME NEW list, Len(list) \in Nat, DOMAIN list = 1..Len(list), NEW c \in 0..Len(list),
         NEW x, x.prog \in Dex, IsCall(x), Follows(list, c, x), Read(x) # Nothing, NEW at,
         should_handle(x.prog)
  PROVE  /\ Read(x).result = "event"
         /\ \E e : /\ parse_events_from_grpc_instruction(x, at, list, c) = <<e>>
                   /\ e.at = at /\ CallEvent(e, x, list, c)
<1>1. PICK d : d = Read(x)
  OBVIOUS
<1>2. d.result = "event" /\ ReadKind(x, d) /\ ReadPlaces(x, d) /\ ReadLog(x, d)
  BY <1>1, EveryCall DEF CallReads
<1>. DEFINE w == IF list = << >> THEN NoSwap
                 ELSE parse_swap_data_from_next_grpc_instructions(d, x, list, c)
            e == merge([Raw(x, at, d) EXCEPT !.swap = w], LogOf(x, list, c))
<1>3. parse_events_from_grpc_instruction(x, at, list, c) = <<e>>
  <2>1. x.prog # "ComputeBudget" /\ d # Nothing /\ d # Panic
    BY <1>1, <1>2 DEF Dex, Panic
  <2>. QED  BY <1>1, <2>1 DEF parse_events_from_grpc_instruction, Read
<1>4. IsSwapOf(x, d.kind, w, list, c)
  <2>1. CASE list # << >>
    BY <1>2, <2>1, SwapRead
  <2>2. CASE list = << >>
    <3>1. 0 <= Len(list) - c /\ (SidesOf(x) # NoSides => 2 <= Len(list) - c)
      <4>. DEFINE m == IF SidesOf(x) = NoSides THEN 0 ELSE 2
      <4>1. m <= Len(list) - c
        BY Behind
      <4>. QED  BY <4>1
    <3>2. Len(list) = 0 /\ w = NoSwap
      BY <2>2
    <3>3. SidesOf(x) = NoSides
      BY <3>1, <3>2
    <3>. QED  BY <3>2, <3>3 DEF IsSwapOf
  <2>. QED  BY <2>1, <2>2
<1>. HIDE DEF w
<1>5. Full(e, d.kind, at, x, IF LogKind(x) = << >> THEN 0 ELSE x.id, w)
  BY <1>2, LogRead
<1>. HIDE DEF e
<1>6. d.kind \in PumpTrades => LogKind(x) # << >>
  BY <1>2, MergedPairs DEF ReadLog, PumpTrades
<1>7. e.kind = d.kind /\ e.at = at /\ e.swap = w /\ e.prog = x.prog
  BY <1>5 DEF Full
<1>8. CallEvent(e, x, list, c)
  BY <1>2, <1>4, <1>5, <1>6, <1>7 DEF CallEvent, ReadKind, IsCall
<1>. QED  BY <1>1, <1>2, <1>3, <1>7, <1>8

\* An instruction gives one event if it can be parsed and none otherwise.
LEMMA OneEvent ==
  ASSUME NEW t, OnChain(t), NEW o \in DOMAIN t.outer, NEW i \in 0..Len(t.outer[o].inner)
  PROVE  LET x == InsAt(t, <<o, i>>)
             found == parse_events_from_grpc_instruction(x, <<o, i>>, t.outer[o].inner, i)
         IN  /\ Parseable(x) => \E e : found = <<e>> /\ e.at = <<o, i>> /\ Ours(t, e)
             /\ ~Parseable(x) => found = << >>
<1>. DEFINE p == <<o, i>>
            x == InsAt(t, p)
            list == t.outer[o].inner
            found == parse_events_from_grpc_instruction(x, p, list, i)
<1>1. p[1] = o /\ p[2] = i /\ p \in Placed(t)
  BY DEF Placed
<1>2. Len(list) \in Nat /\ DOMAIN list = 1..Len(list)
  <2>1. IsSeq(list)
    BY DEF OnChain
  <2>. QED  BY <2>1, LenProperties DEF IsSeq
<1>3. x.prog \in Programs /\ x.op # "log" => IsCall(x) /\ Follows(list, i, x)
  <2>1. x = IF i = 0 THEN t.outer[o].ins ELSE list[i]
    BY <1>1 DEF InsAt
  <2>. QED  BY <2>1 DEF OnChain
<1>. HIDE DEF x, p, list
<1>4. CASE ~should_handle(x.prog)
  <2>1. found = << >>
    BY <1>4 DEF parse_events_from_grpc_instruction
  <2>2. ~Parseable(x)
    BY <1>4, ParserAssumption DEF should_handle, Parseable
  <2>. QED  BY <2>1, <2>2 DEF p, x, list
<1>5. CASE x.prog = "ComputeBudget"
  <2>1. Parseable(x) <=> parse_compute_budget_instruction(x)
    BY <1>5, ParserAssumption DEF Parseable, Dex
  <2>2. found = IF parse_compute_budget_instruction(x) THEN <<Budget(p)>> ELSE << >>
    BY <1>5 DEF parse_events_from_grpc_instruction, should_handle
  <2>3. Budget(p).at = p
    BY DEF Budget
  <2>4. Parseable(x) => Ours(t, Budget(p))
    BY <1>1, <2>3 DEF Ours, x
  <2>. QED  BY <2>1, <2>2, <2>3, <2>4 DEF p, x, list
<1>6. CASE should_handle(x.prog) /\ x.prog # "ComputeBudget"
  <2>1. x.prog \in Dex /\ x.prog \in Protocols /\ x.prog \in Programs
    BY <1>6, KnownPrograms DEF should_handle
  <2>2. Parseable(x) <=> x.op # "log" /\ Read(x).result = "event"
    BY <1>6, <2>1 DEF Parseable, Read
  <2>3. CASE Read(x) = Nothing
    <3>1. found = << >>
      BY <1>6, <2>3 DEF parse_events_from_grpc_instruction, Read
    <3>2. ~Parseable(x)
      BY <2>2, <2>3 DEF Nothing
    <3>. QED  BY <3>1, <3>2 DEF p, x, list
  <2>4. CASE Read(x) # Nothing
    <3>1. x.op # "log"
      BY <2>1, <2>4, LogsNothing
    <3>2. IsCall(x) /\ Follows(list, i, x)
      BY <1>3, <2>1, <3>1
    <3>3. i \in 0..Len(list)
      BY DEF list
    <3>4. Read(x).result = "event" /\ \E e : /\ found = <<e>>
                                             /\ e.at = p /\ CallEvent(e, x, list, i)
      BY <1>2, <1>6, <2>1, <2>4, <3>2, <3>3, CallRead
    <3>5. PICK e : found = <<e>> /\ e.at = p /\ CallEvent(e, x, list, i)
      BY <3>4
    <3>6. Parseable(x)
      BY <2>2, <3>1, <3>4
    <3>7. Ours(t, e)
      BY <1>1, <3>5, <3>6 DEF Ours, x, list
    <3>. QED  BY <3>5, <3>6, <3>7 DEF p, x, list
  <2>. QED  BY <2>3, <2>4
<1>. QED  BY <1>4, <1>5, <1>6

-----------------------------------------------------------------------------
(* The order of the events.                                                   *)

\* The events of the places P, one each, in the order of the places.
InOrder(t, s, P) ==
  /\ IsSeq(s)
  /\ \A i \in DOMAIN s : Ours(t, s[i])
  /\ \A i, j \in DOMAIN s : i < j => Before(s[i].at, s[j].at)
  /\ {s[i].at : i \in DOMAIN s} = P

\* A sequence of anything is one of its own elements.
LEMMA OwnSeq ==
  ASSUME NEW S, NEW s \in Seq(S)
  PROVE  IsSeq(s) /\ Len(s) \in Nat /\ DOMAIN s = 1..Len(s)
<1>1. Len(s) \in Nat /\ DOMAIN s = 1..Len(s)
  BY LenProperties
<1>2. s \in Seq({s[i] : i \in DOMAIN s})
  BY <1>1
<1>. QED  BY <1>1, <1>2 DEF IsSeq

\* No events are in order.
LEMMA NoneInOrder == \A t : InOrder(t, << >>, {})
<1>1. << >> \in Seq({})
  BY EmptySeq
<1>2. IsSeq(<< >>) /\ DOMAIN << >> = {}
  <2>1. IsSeq(<< >>)
    BY <1>1, OwnSeq
  <2>. QED  BY <2>1
<1>. QED  BY <1>2 DEF InOrder

\* One event is.
LEMMA OneInOrder ==
  ASSUME NEW t, NEW e, Ours(t, e)
  PROVE  InOrder(t, <<e>>, {e.at})
<1>1. <<e>> \in Seq({e}) /\ DOMAIN <<e>> = {1} /\ <<e>>[1] = e
  OBVIOUS
<1>2. IsSeq(<<e>>)
  BY <1>1, OwnSeq
<1>3. \A i, j \in DOMAIN <<e>> : ~(i < j)
  BY <1>1
<1>. QED  BY <1>1, <1>2, <1>3 DEF InOrder

\* Events of later places come behind.
LEMMA JoinInOrder ==
  ASSUME NEW t, NEW s, NEW u, NEW P, NEW Q, InOrder(t, s, P), InOrder(t, u, Q),
         \A p \in P : \A q \in Q : Before(p, q)
  PROVE  InOrder(t, s \o u, P \cup Q)
<1>. DEFINE S == {s[i] : i \in DOMAIN s} \cup {u[i] : i \in DOMAIN u}
            w == s \o u
            m == Len(s)
            n == Len(u)
<1>1. s \in Seq(S) /\ u \in Seq(S)
  <2>1. s \in Seq({s[i] : i \in DOMAIN s}) /\ u \in Seq({u[i] : i \in DOMAIN u})
    BY DEF InOrder, IsSeq
  <2>. QED  BY <2>1, SeqMonotonic
<1>. HIDE DEF S
<1>2. m \in Nat /\ n \in Nat /\ DOMAIN s = 1..m /\ DOMAIN u = 1..n
  BY <1>1, LenProperties
<1>3. /\ w \in Seq(S) /\ Len(w) = m + n
      /\ \A i \in 1..(m + n) : w[i] = IF i <= m THEN s[i] ELSE u[i - m]
  BY <1>1, ConcatProperties
<1>4. IsSeq(w) /\ DOMAIN w = 1..(m + n)
  BY <1>3, OwnSeq
<1>. HIDE DEF w, m, n
<1>5. ASSUME NEW i \in DOMAIN w
      PROVE  \/ i \in DOMAIN s /\ w[i] = s[i]
             \/ i - m \in DOMAIN u /\ i > m /\ w[i] = u[i - m]
  BY <1>2, <1>3, <1>4
<1>6. \A i \in DOMAIN w : Ours(t, w[i])
  BY <1>5 DEF InOrder
<1>7. ASSUME NEW i \in DOMAIN w, NEW j \in DOMAIN w, i < j PROVE Before(w[i].at, w[j].at)
  <2>1. i \in Nat /\ j \in Nat
    BY <1>2, <1>4
  <2>2. CASE i \in DOMAIN s /\ w[i] = s[i] /\ j \in DOMAIN s /\ w[j] = s[j]
    BY <1>7, <2>2 DEF InOrder
  <2>3. CASE i \in DOMAIN s /\ w[i] = s[i] /\ j - m \in DOMAIN u /\ w[j] = u[j - m]
    <3>1. w[i].at \in P /\ w[j].at \in Q
      BY <2>3 DEF InOrder
    <3>. QED  BY <3>1
  <2>4. CASE i - m \in DOMAIN u /\ w[i] = u[i - m] /\ j - m \in DOMAIN u /\ w[j] = u[j - m]
    <3>1. i - m < j - m
      BY <1>2, <1>7, <2>1
    <3>. QED  BY <2>4, <3>1 DEF InOrder
  <2>5. CASE i - m \in DOMAIN u /\ i > m /\ j \in DOMAIN s
    BY <1>2, <1>7, <2>1, <2>5
  <2>. QED  BY <1>5, <2>2, <2>3, <2>4, <2>5
<1>8. {w[i].at : i \in DOMAIN w} = P \cup Q
  <2>1. ASSUME NEW i \in DOMAIN w PROVE w[i].at \in P \cup Q
    BY <1>5 DEF InOrder
  <2>2. ASSUME NEW p \in P PROVE \E i \in DOMAIN w : w[i].at = p
    <3>1. PICK i \in DOMAIN s : s[i].at = p
      BY DEF InOrder
    <3>2. i \in DOMAIN w /\ w[i] = s[i]
      BY <1>2, <1>3, <1>4
    <3>. QED  BY <3>1, <3>2
  <2>3. ASSUME NEW q \in Q PROVE \E i \in DOMAIN w : w[i].at = q
    <3>1. PICK i \in DOMAIN u : u[i].at = q
      BY DEF InOrder
    <3>2. i + m \in DOMAIN w /\ w[i + m] = u[i]
      BY <1>2, <1>3, <1>4, SMTT(60)
    <3>. QED  BY <3>1, <3>2
  <2>. QED  BY <2>1, <2>2, <2>3
<1>. QED  BY <1>4, <1>6, <1>7, <1>8 DEF InOrder, w

\* Flattening appends one after another.
LEMMA FlattenSteps ==
  ASSUME NEW n \in Nat, n # 0, NEW F, Len(F) = n
  PROVE  \E f : /\ f[1] = F[1]
                /\ \A i \in 2..n : f[i] = f[i - 1] \o F[i]
                /\ FlattenSeq(F) = f[n]
<1>. DEFINE Is(f, m) == f = [i \in 1..m |-> IF i = 1 THEN F[i] ELSE f[i - 1] \o F[i]]
            Upto(m) == \E f : Is(f, m)
            T == {m \in 1..n : Upto(m)}
<1>1. Upto(1)
  <2>. DEFINE f == [i \in 1..1 |-> F[i]]
  <2>1. Is(f, 1)
    OBVIOUS
  <2>. QED  BY <2>1
<1>2. ASSUME NEW m \in 2..n, Upto(m - 1) PROVE Upto(m)
  <2>1. PICK f : Is(f, m - 1)
    BY <1>2
  <2>. DEFINE g == [i \in 1..m |-> IF i = m THEN f[m - 1] \o F[m] ELSE f[i]]
  <2>2. ASSUME NEW i \in 1..m PROVE g[i] = IF i = 1 THEN F[i] ELSE g[i - 1] \o F[i]
    <3>1. CASE i = 1
      BY <2>1, <3>1
    <3>2. CASE i # 1
      <4>1. g[i - 1] = f[i - 1]
        BY <3>2
      <4>2. CASE i = m
        BY <3>2, <4>1, <4>2
      <4>3. CASE i # m
        <5>1. i \in 1..(m - 1)
          BY <4>3
        <5>2. f[i] = f[i - 1] \o F[i]
          BY <2>1, <3>2, <5>1
        <5>. QED  BY <3>2, <4>1, <4>3, <5>2
      <4>. QED  BY <4>2, <4>3
    <3>. QED  BY <3>1, <3>2
  <2>3. g = [i \in 1..m |-> g[i]]
    OBVIOUS
  <2>. HIDE DEF g
  <2>4. Is(g, m)
    BY <2>2, <2>3
  <2>. QED  BY <2>4
<1>3. Upto(n)
  <2>1. 1 \in T
    <3>1. 1 \in 1..n
      OBVIOUS
    <3>. HIDE DEF Upto
    <3>. QED  BY <1>1, <3>1
  <2>2. \A k \in (1 + 1)..n : k - 1 \in T => k \in T
    <3>. HIDE DEF Upto
    <3>. QED  BY <1>2
  <2>. HIDE DEF T
  <2>3. 1..n \subseteq T
    <3>. 1 \in Nat /\ 1 <= n
      OBVIOUS
    <3>. QED  BY <2>1, <2>2, Upward
  <2>4. n \in 1..n
    OBVIOUS
  <2>. QED  BY <2>3, <2>4 DEF T
<1>. DEFINE f == CHOOSE f : Is(f, n)
<1>4. Is(f, n)
  <2>. HIDE DEF Is
  <2>. QED  BY <1>3
<1>5. FlattenSeq(F) = f[n]
  BY DEF FlattenSeq
<1>. HIDE DEF f
<1>6. f[1] = F[1] /\ \A i \in 2..n : f[i] = f[i - 1] \o F[i]
  <2>1. \A i \in 1..n : f[i] = IF i = 1 THEN F[i] ELSE f[i - 1] \o F[i]
    BY <1>4
  <2>2. 1 \in 1..n /\ \A i \in 2..n : i \in 1..n /\ i # 1
    OBVIOUS
  <2>. QED  BY <2>1, <2>2
<1>. QED  BY <1>5, <1>6

\* The places of the first n parts, and parts that follow one another.
Together(P, n) == UNION {P[k] : k \in 1..n}
InTurn(t, F, P) ==
  /\ IsSeq(F)
  /\ \A k \in 1..Len(F) : InOrder(t, F[k], P[k])
  /\ \A k, l \in 1..Len(F) : k < l => \A p \in P[k] : \A q \in P[l] : Before(p, q)

\* Parts that are in order, each behind the one before, are in order when joined.
LEMMA FlattenInOrder ==
  ASSUME NEW t, NEW F, NEW P, InTurn(t, F, P)
  PROVE  InOrder(t, FlattenSeq(F), Together(P, Len(F)))
<1>. USE DEF InTurn
<1>. DEFINE n == Len(F)
            Upto(k) == UNION {P[j] : j \in 1..k}
<1>1. \A k : Together(P, k) = Upto(k)
  BY DEF Together
<1>2. n \in Nat /\ F \in Seq({F[i] : i \in DOMAIN F})
  BY LenProperties DEF IsSeq
<1>3. CASE n = 0
  <2>1. F = << >> /\ Upto(n) = {}
    BY <1>2, <1>3
  <2>2. FlattenSeq(F) = << >>
    BY <1>3, <2>1 DEF FlattenSeq
  <2>3. Together(P, Len(F)) = {}
    BY <1>3 DEF Together
  <2>. QED  BY <2>2, <2>3, NoneInOrder
<1>4. CASE n # 0
  <2>1. PICK f : /\ f[1] = F[1]
                 /\ \A i \in 2..n : f[i] = f[i - 1] \o F[i]
                 /\ FlattenSeq(F) = f[n]
    BY <1>2, <1>4, FlattenSteps
  <2>. DEFINE T == {k \in 1..n : InOrder(t, f[k], Upto(k))}
  <2>. HIDE DEF n
  <2>2. 1 \in T
    <3>1. Upto(1) = P[1]
      OBVIOUS
    <3>2. 1 \in 1..n /\ InOrder(t, F[1], P[1])
      BY <1>2, <1>4 DEF n
    <3>. HIDE DEF Upto
    <3>. QED  BY <2>1, <3>1, <3>2
  <2>3. ASSUME NEW k \in 2..n, k - 1 \in T PROVE k \in T
    <3>1. InOrder(t, f[k - 1], Upto(k - 1)) /\ InOrder(t, F[k], P[k]) /\ k \in 1..n
      BY <1>2, <2>3 DEF n
    <3>2. ASSUME NEW p \in Upto(k - 1), NEW q \in P[k] PROVE Before(p, q)
      <4>1. PICK j \in 1..(k - 1) : p \in P[j]
        OBVIOUS
      <4>2. j \in 1..n /\ k \in 1..n /\ j < k
        BY <1>2, <2>3
      <4>. QED  BY <4>1, <4>2 DEF n
    <3>3. Upto(k - 1) \cup P[k] = Upto(k)
      <4>1. 1..k = 1..(k - 1) \cup {k}
        BY <1>2, <2>3
      <4>. QED  BY <4>1
    <3>. HIDE DEF Upto
    <3>4. InOrder(t, f[k - 1] \o F[k], Upto(k - 1) \cup P[k])
      BY <3>1, <3>2, JoinInOrder
    <3>. QED  BY <2>1, <3>1, <3>3, <3>4
  <2>4. n \in T
    <3>1. \A k \in (1 + 1)..n : k - 1 \in T => k \in T
      <4>. HIDE DEF T
      <4>. QED  BY <2>3
    <3>. HIDE DEF T
    <3>2. 1..n \subseteq T
      <4>. 1 \in Nat /\ 1 <= n
        BY <1>2, <1>4
      <4>. QED  BY <1>2, <2>2, <3>1, Upward
    <3>. QED  BY <1>2, <1>4, <3>2
  <2>. QED  BY <1>1, <2>1, <2>4 DEF n
<1>. QED  BY <1>3, <1>4

\* The places of outer instruction o, out of I of its list, that give an event.
Giving(t, o, I) == {<<o, i>> : i \in {k \in I : Parseable(InsAt(t, <<o, k>>))}}

\* What such a place is.
LEMMA GivenPlaces ==
  ASSUME NEW t, NEW o, NEW I, NEW p
  PROVE  /\ p \in Giving(t, o, I) <=> \E i \in I : p = <<o, i>> /\ Parseable(InsAt(t, p))
         /\ p \in Giving(t, o, I) => p[1] = o /\ p[2] \in I
<1>1. p \in Giving(t, o, I) <=> \E i \in I : p = <<o, i>> /\ Parseable(InsAt(t, p))
  BY DEF Giving
<1>2. ASSUME p \in Giving(t, o, I) PROVE p[1] = o /\ p[2] \in I
  <2>1. PICK i \in I : p = <<o, i>>
    BY <1>1, <1>2
  <2>. QED  BY <2>1
<1>. QED  BY <1>1, <1>2

\* They are those of each instruction, together.
LEMMA GivenOneByOne ==
  ASSUME NEW t, NEW o, NEW I, NEW p
  PROVE  p \in Giving(t, o, I) <=> \E i \in I : p \in Giving(t, o, {i})
<1>1. \A i : p \in Giving(t, o, {i}) <=> p = <<o, i>> /\ Parseable(InsAt(t, p))
  <2>1. ASSUME NEW i
        PROVE  p \in Giving(t, o, {i}) <=> \E k \in {i} : p = <<o, k>> /\ Parseable(InsAt(t, p))
    BY GivenPlaces
  <2>. QED  BY <2>1
<1>2. p \in Giving(t, o, I) <=> \E i \in I : p = <<o, i>> /\ Parseable(InsAt(t, p))
  BY GivenPlaces
<1>. QED  BY <1>1, <1>2

\* A function on the first n numbers is a sequence.
LEMMA FunctionSeq ==
  ASSUME NEW n \in Nat, NEW F, F = [i \in 1..n |-> F[i]]
  PROVE  IsSeq(F) /\ Len(F) = n
<1>. DEFINE S == {F[i] : i \in 1..n}
<1>1. F \in [1..n -> S]
  BY Zenon
<1>. HIDE DEF S
<1>2. F \in Seq(S) /\ Len(F) = n
  BY <1>1
<1>. QED  BY <1>2, OwnSeq

\* The events of one instruction, none or one, are in order.
LEMMA PlaceInOrder ==
  ASSUME NEW t, OnChain(t), NEW o \in DOMAIN t.outer, NEW i \in 0..Len(t.outer[o].inner)
  PROVE  InOrder(t, parse_events_from_grpc_instruction(InsAt(t, <<o, i>>), <<o, i>>,
                                                       t.outer[o].inner, i),
                 Giving(t, o, {i}))
<1>. DEFINE x == InsAt(t, <<o, i>>)
            found == parse_events_from_grpc_instruction(x, <<o, i>>, t.outer[o].inner, i)
<1>1. CASE Parseable(x)
  <2>1. PICK e : found = <<e>> /\ e.at = <<o, i>> /\ Ours(t, e)
    BY <1>1, OneEvent
  <2>2. Giving(t, o, {i}) = {<<o, i>>}
    BY <1>1 DEF Giving
  <2>. QED  BY <2>1, <2>2, OneInOrder
<1>2. CASE ~Parseable(x)
  <2>1. found = << >>
    BY <1>2, OneEvent
  <2>2. Giving(t, o, {i}) = {}
    BY <1>2 DEF Giving
  <2>. QED  BY <2>1, <2>2, NoneInOrder
<1>. QED  BY <1>1, <1>2

\* The instructions one outer instruction caused, in order.
LEMMA InnerInOrder ==
  ASSUME NEW t, OnChain(t), NEW o \in DOMAIN t.outer
  PROVE  LET list == t.outer[o].inner IN
         InOrder(t, FlattenSeq([i \in DOMAIN list |->
                      parse_events_from_grpc_instruction(list[i], <<o, i>>, list, i)]),
                 Giving(t, o, 1..Len(list)))
<1>. DEFINE list == t.outer[o].inner
            n == Len(list)
            F == [i \in DOMAIN list |->
                    parse_events_from_grpc_instruction(list[i], <<o, i>>, list, i)]
            P == [i \in 1..n |-> Giving(t, o, {i})]
<1>1. n \in Nat /\ DOMAIN list = 1..n
  <2>1. IsSeq(list)
    BY DEF OnChain
  <2>. QED  BY <2>1, OwnSeq DEF IsSeq
<1>2. IsSeq(F) /\ Len(F) = n
  <2>. HIDE DEF n
  <2>1. F = [i \in 1..n |-> F[i]]
    BY <1>1
  <2>. HIDE DEF F
  <2>. QED  BY <1>1, <2>1, FunctionSeq
<1>3. ASSUME NEW k \in 1..n PROVE InOrder(t, F[k], P[k])
  <2>1. k \in 0..n /\ k # 0 /\ k \in DOMAIN list
    BY <1>1
  <2>2. InsAt(t, <<o, k>>) = list[k]
    BY <2>1 DEF InsAt
  <2>3. F[k] = parse_events_from_grpc_instruction(InsAt(t, <<o, k>>), <<o, k>>, list, k)
    BY <2>1, <2>2
  <2>4. InOrder(t, parse_events_from_grpc_instruction(InsAt(t, <<o, k>>), <<o, k>>, list, k),
                Giving(t, o, {k}))
    BY <2>1, PlaceInOrder
  <2>. QED  BY <2>3, <2>4
<1>4. ASSUME NEW k \in 1..n, NEW l \in 1..n, k < l, NEW p \in P[k], NEW q \in P[l]
      PROVE  Before(p, q)
  <2>1. p[1] = o /\ p[2] = k /\ q[1] = o /\ q[2] = l
    BY GivenPlaces
  <2>. QED  BY <1>4, <2>1 DEF Before
<1>5. Together(P, n) = Giving(t, o, 1..n)
  <2>1. \A p : p \in UNION {P[k] : k \in 1..n} <=> \E k \in 1..n : p \in Giving(t, o, {k})
    OBVIOUS
  <2>2. Together(P, n) = UNION {P[k] : k \in 1..n}
    BY DEF Together
  <2>3. \A p : p \in Giving(t, o, 1..n) <=> \E k \in 1..n : p \in Giving(t, o, {k})
    <3>. HIDE DEF n
    <3>. QED  BY GivenOneByOne
  <2>. QED  BY <2>1, <2>3, <2>2
<1>. HIDE DEF F, P, n
<1>6. InTurn(t, F, P)
  BY <1>2, <1>3, <1>4 DEF InTurn
<1>7. InOrder(t, FlattenSeq(F), Together(P, Len(F)))
  BY <1>6, FlattenInOrder
<1>. QED  BY <1>2, <1>5, <1>7 DEF F, n

\* The events of a transaction are those of its instructions, as they ran.
LEMMA InstructionsInOrder ==
  ASSUME NEW t, OnChain(t)
  PROVE  InOrder(t, parse_instruction_events_from_grpc_transaction(t),
                 {p \in Placed(t) : Parseable(InsAt(t, p))})
<1>. DEFINE N == Len(t.outer)
            Last0(o) == Len(t.outer[o].inner)
            G(o) == parse_events_from_grpc_instruction(t.outer[o].ins, <<o, 0>>, t.outer[o].inner, 0)
                    \o FlattenSeq([i \in DOMAIN t.outer[o].inner |->
                         parse_events_from_grpc_instruction(t.outer[o].inner[i], <<o, i>>,
                                                            t.outer[o].inner, i)])
            U(o) == Giving(t, o, 0..Last0(o))
            all == {p \in Placed(t) : Parseable(InsAt(t, p))}
<1>1. N \in Nat /\ DOMAIN t.outer = 1..N
  <2>1. IsSeq(t.outer)
    BY DEF OnChain
  <2>. QED  BY <2>1, OwnSeq DEF IsSeq
<1>2. \A o \in DOMAIN t.outer : Last0(o) \in Nat /\ DOMAIN t.outer[o].inner = 1..Last0(o)
  <2>1. \A o \in DOMAIN t.outer : IsSeq(t.outer[o].inner)
    BY DEF OnChain
  <2>. QED  BY <2>1, OwnSeq DEF IsSeq
<1>3. ASSUME NEW o \in 1..N PROVE InOrder(t, G(o), Giving(t, o, 0..Last0(o)))
  <2>. DEFINE first == parse_events_from_grpc_instruction(t.outer[o].ins, <<o, 0>>,
                                                          t.outer[o].inner, 0)
              rest == FlattenSeq([i \in DOMAIN t.outer[o].inner |->
                         parse_events_from_grpc_instruction(t.outer[o].inner[i], <<o, i>>,
                                                            t.outer[o].inner, i)])
              n == Last0(o)
  <2>1. o \in DOMAIN t.outer /\ 0 \in 0..n /\ n \in Nat
    BY <1>1, <1>2
  <2>2. InsAt(t, <<o, 0>>) = t.outer[o].ins
    BY DEF InsAt
  <2>3. InOrder(t, first, Giving(t, o, {0}))
    BY <2>1, <2>2, PlaceInOrder
  <2>4. InOrder(t, rest, Giving(t, o, 1..n))
    BY <2>1, InnerInOrder
  <2>. HIDE DEF first, rest, n
  <2>5. \A p \in Giving(t, o, {0}) : \A q \in Giving(t, o, 1..n) : Before(p, q)
    <3>1. ASSUME NEW p \in Giving(t, o, {0}), NEW q \in Giving(t, o, 1..n)
          PROVE  p[1] = o /\ p[2] \in {0} /\ q[1] = o /\ q[2] \in 1..n
      BY GivenPlaces, ZenonT(60)
    <3>2. ASSUME NEW p \in Giving(t, o, {0}), NEW q \in Giving(t, o, 1..n) PROVE Before(p, q)
      BY <2>1, <3>1 DEF Before
    <3>. QED  BY <3>2
  <2>6. InOrder(t, first \o rest, Giving(t, o, {0}) \cup Giving(t, o, 1..n))
    BY <2>3, <2>4, <2>5, JoinInOrder
  <2>7. Giving(t, o, {0}) \cup Giving(t, o, 1..n) = Giving(t, o, 0..n)
    <3>1. 0..n = {0} \cup 1..n
      BY <2>1
    <3>. QED  BY <3>1 DEF Giving
  <2>. QED  BY <2>6, <2>7 DEF first, rest, n
<1>4. UNION {U(o) : o \in 1..N} = all
  <2>1. ASSUME NEW p \in all PROVE \E o \in 1..N : p \in U(o)
    <3>1. PICK o \in DOMAIN t.outer : p \in {<<o, i>> : i \in 0..Last0(o)}
      BY DEF Placed
    <3>. QED  BY <1>1, <3>1 DEF Giving
  <2>2. ASSUME NEW o \in 1..N, NEW p \in U(o) PROVE p \in all
    <3>1. PICK i \in 0..Last0(o) : p = <<o, i>> /\ Parseable(InsAt(t, p))
      BY DEF Giving
    <3>2. p \in Placed(t)
      BY <1>1, <3>1 DEF Placed
    <3>. QED  BY <3>1, <3>2
  <2>. QED  BY <2>1, <2>2
<1>5. CASE ~has_program(t)
  <2>1. ASSUME NEW p \in Placed(t) PROVE ~Parseable(InsAt(t, p))
    <3>1. PICK o \in DOMAIN t.outer : \E i \in 0..Last0(o) : p = <<o, i>>
      BY DEF Placed
    <3>2. PICK i \in 0..Last0(o) : p = <<o, i>>
      BY <3>1
    <3>3. InsAt(t, p) = IF i = 0 THEN t.outer[o].ins ELSE t.outer[o].inner[i]
      BY <3>2 DEF InsAt
    <3>4. i # 0 => i \in DOMAIN t.outer[o].inner
      BY <1>2
    <3>5. ~should_handle(InsAt(t, p).prog)
      BY <1>5, <3>3, <3>4 DEF has_program
    <3>. QED  BY <3>5, ParserAssumption DEF Parseable, should_handle
  <2>2. all = {}
    BY <2>1
  <2>3. parse_instruction_events_from_grpc_transaction(t) = << >>
    BY <1>5 DEF parse_instruction_events_from_grpc_transaction
  <2>. QED  BY <2>2, <2>3, NoneInOrder
<1>6. CASE has_program(t)
  <2>. DEFINE F0 == [o \in DOMAIN t.outer |-> G(o)]
  <2>1. parse_instruction_events_from_grpc_transaction(t) = FlattenSeq(F0)
    BY <1>6 DEF parse_instruction_events_from_grpc_transaction
  <2>. HIDE DEF G, N, U
  <2>2. PICK F : F = F0
    OBVIOUS
  <2>3. PICK P : P = [o \in 1..N |-> U(o)]
    OBVIOUS
  <2>4. parse_instruction_events_from_grpc_transaction(t) = FlattenSeq(F)
    BY <2>2, <2>1
  <2>5. IsSeq(F) /\ Len(F) = N
    <3>1. F = [i \in 1..N |-> F[i]]
      BY <1>1, <2>2
    <3>. QED  BY <1>1, <3>1, FunctionSeq
  <2>6. \A k \in 1..N : InOrder(t, F[k], P[k])
    BY <1>1, <1>3, <2>2, <2>3 DEF U
  <2>7. ASSUME NEW k \in 1..N, NEW l \in 1..N, k < l, NEW p \in P[k], NEW q \in P[l]
        PROVE  Before(p, q)
    <3>1. p \in U(k) /\ q \in U(l)
      BY <2>7, <2>3
    <3>2. p[1] = k /\ q[1] = l
      BY <3>1, GivenPlaces DEF U
    <3>. QED  BY <2>7, <3>2 DEF Before
  <2>8. InTurn(t, F, P)
    BY <2>5, <2>6, <2>7 DEF InTurn
  <2>9. InOrder(t, FlattenSeq(F), Together(P, Len(F)))
    BY <2>8, FlattenInOrder
  <2>10. Together(P, N) = all
    BY <1>4, <2>3 DEF Together
  <2>. QED  BY <2>4, <2>5, <2>9, <2>10
<1>. QED  BY <1>5, <1>6

-----------------------------------------------------------------------------
(* The developers remembered.                                                 *)

CreateKinds == {"PumpFunCreateToken", "PumpFunCreateV2Token", "BonkPoolCreate"}
TradeKinds == {"PumpFunBuy", "PumpFunSell", "BonkTrade"}

\* What an event may add, what is there for sure after it, and what a trade looks for.
Entries(e) ==
  IF e.kind = "BonkPoolCreate" THEN {<<"bonk", e.creator>>}
  ELSE IF e.kind \in CreateKinds THEN {<<"dev", e.user>>, <<"dev", e.creator>>} ELSE {}
Sure(e) ==
  IF e.kind = "BonkPoolCreate" THEN {<<"bonk", e.creator>>}
  ELSE IF e.kind \in CreateKinds /\ e.creator # "default" THEN {<<"dev", e.creator>>} ELSE {}
Sought(e) ==
  IF e.kind = "BonkTrade" THEN {<<"bonk", e.user>>}
  ELSE {<<"dev", e.user>>, <<"dev", e.creator>>}

\* An address added is there, and nothing else is new.
LEMMA AddOne ==
  ASSUME NEW s, NEW g, NEW entry, NEW c \in add_dev_address(s, g, entry)
  PROVE  /\ IsDev(c, g, entry)
         /\ \A other : IsDev(c, g, other) => other = entry \/ IsDev(s, g, other)
<1>1. PICK r \in maybe_cleanup(s) : c = Insert(r, g, entry)
  BY DEF add_dev_address
<1>2. \A other : IsDev(r, g, other) => IsDev(s, g, other)
  <2>1. CASE r = s
    BY <2>1
  <2>2. CASE r # s
    <3>1. PICK gone : r = [h \in DOMAIN s \ gone |-> s[h]]
      BY <1>1, <2>2 DEF maybe_cleanup
    <3>. QED  BY <3>1 DEF IsDev
  <2>. QED  BY <2>1, <2>2
<1>3. g \in DOMAIN c /\ c[g] = (IF g \in DOMAIN r THEN r[g] ELSE {}) \cup {entry}
  BY <1>1 DEF Insert
<1>. QED  BY <1>2, <1>3 DEF IsDev

\* What an event's additions leave.
LEMMA AddsDevs ==
  ASSUME NEW s, NEW g, NEW e, NEW c \in Adds(s, g, e)
  PROVE  /\ e.kind \notin CreateKinds => c = s
         /\ \A entry \in Sure(e) : IsDev(c, g, entry)
         /\ \A entry : IsDev(c, g, entry) => entry \in Entries(e) \/ IsDev(s, g, entry)
<1>1. CASE e.kind \in {"PumpFunCreateToken", "PumpFunCreateV2Token"}
  <2>. DEFINE first == add_dev_address(s, g, <<"dev", e.user>>)
  <2>1. c \in IF e.creator \in {"default", e.user} THEN first
              ELSE UNION {add_dev_address(r, g, <<"dev", e.creator>>) : r \in first}
    BY <1>1 DEF Adds
  <2>2. CASE e.creator \in {"default", e.user}
    <3>1. c \in first
      BY <2>1, <2>2
    <3>. QED  BY <1>1, <2>2, <3>1, AddOne DEF CreateKinds, Sure, Entries
  <2>3. CASE e.creator \notin {"default", e.user}
    <3>1. PICK r \in first : c \in add_dev_address(r, g, <<"dev", e.creator>>)
      BY <2>1, <2>3
    <3>2. /\ IsDev(c, g, <<"dev", e.creator>>)
          /\ \A entry : IsDev(c, g, entry) => entry = <<"dev", e.creator>> \/ IsDev(r, g, entry)
      BY <3>1, AddOne
    <3>3. \A entry : IsDev(r, g, entry) => entry = <<"dev", e.user>> \/ IsDev(s, g, entry)
      BY <3>1, AddOne
    <3>. QED  BY <1>1, <3>2, <3>3 DEF CreateKinds, Sure, Entries
  <2>. QED  BY <2>2, <2>3
<1>2. CASE e.kind = "BonkPoolCreate"
  <2>1. c \in add_dev_address(s, g, <<"bonk", e.creator>>)
    BY <1>2 DEF Adds
  <2>. QED  BY <1>2, <2>1, AddOne DEF CreateKinds, Sure, Entries
<1>3. CASE e.kind \notin CreateKinds
  <2>1. c = s
    BY <1>3 DEF Adds, CreateKinds
  <2>. QED  BY <1>3, <2>1 DEF CreateKinds, Sure, Entries
<1>. QED  BY <1>1, <1>2, <1>3 DEF CreateKinds

-----------------------------------------------------------------------------
(* What the callback is given for an event.                                   *)

\* Of the call x, the c-th of the list.
Told(d, x, list, c) ==
  LET s == SidesOf(x)  gave == Mint(x, s.mint_in)  got == Mint(x, s.mint_out) IN
  /\ d.log = IF LogKind(x) = << >> THEN 0 ELSE x.id
  /\ IF s = NoSides THEN d.swap = NoSwap
     ELSE \/ d.swap = Swap(gave, got, <<x.id, "in">>, <<x.id, "out">>)
          \/ /\ list[c + 1].op = "transferCheckedWithFee" /\ c + 1 \in 1..Len(list)
             /\ d.swap = Swap(Default, got, Zero, <<x.id, "out">>)

\* Nothing else of an event is changed.
SameParts(d, e) ==
  d.kind = e.kind /\ d.at = e.at /\ d.prog = e.prog /\ d.user = e.user /\ d.creator = e.creator
  /\ DOMAIN d = DOMAIN e

\* The amounts of an event that has them from its log.
LEMMA AmountsParts ==
  ASSUME NEW e, DOMAIN e = Parts
  PROVE  /\ SameParts(Amounts(e), e) /\ Amounts(e).log = e.log
         /\ e.swap = NoSwap => Amounts(e).swap = NoSwap
         /\ \A fm, tm : e.swap = Swap(fm, tm, Zero, Zero) /\ fm # Default /\ e.log # 0 =>
              Amounts(e).swap = Swap(fm, tm, <<e.log, "in">>, <<e.log, "out">>)
<1>1. SameParts(Amounts(e), e) /\ Amounts(e).log = e.log
  BY DEF Amounts, SameParts, Parts
<1>. DEFINE v == IF e.swap = NoSwap THEN e.swap
                 ELSE [e.swap EXCEPT
                         !.from_amount = IF e.log = 0 THEN Zero ELSE <<e.log, "in">>,
                         !.to_amount = IF e.log = 0 THEN Zero ELSE <<e.log, "out">>]
<1>2. Amounts(e).swap = v
  BY DEF Amounts, Parts
<1>3. ASSUME NEW fm, NEW tm, e.swap = Swap(fm, tm, Zero, Zero), fm # Default, e.log # 0
      PROVE  v = Swap(fm, tm, <<e.log, "in">>, <<e.log, "out">>)
  <2>1. e.swap # NoSwap
    BY <1>3 DEF Swap, NoSwap
  <2>2. PICK a, b : a = <<e.log, "in">> /\ b = <<e.log, "out">>
    OBVIOUS
  <2>3. v = [Swap(fm, tm, Zero, Zero) EXCEPT !.from_amount = a, !.to_amount = b]
    BY <1>3, <2>1, <2>2
  <2>4. [Swap(fm, tm, Zero, Zero) EXCEPT !.from_amount = a] = Swap(fm, tm, a, Zero)
    BY DEF Swap
  <2>5. [Swap(fm, tm, a, Zero) EXCEPT !.to_amount = b] = Swap(fm, tm, a, b)
    BY DEF Swap
  <2>. QED  BY <2>2, <2>3, <2>4, <2>5
<1>. QED  BY <1>1, <1>2, <1>3

\* Processing an event of a transaction.
LEMMA ProcessedParts ==
  ASSUME NEW t, NEW e, Ours(t, e), NEW s, NEW g
  PROVE  LET d == Processed(s, g, e)  p == e.at IN
         /\ d.kind = e.kind /\ d.at = e.at /\ e.kind \notin {"panic", "TokenAccount"}
         /\ e.kind \in CreateKinds \cup TradeKinds => SameParts(d, e)
         /\ e.kind \in TradeKinds => d.dev = \E entry \in Sought(e) : IsDev(s, g, entry)
         /\ "swap" \in DOMAIN d => Told(d, InsAt(t, p), t.outer[p[1]].inner, p[2])
         /\ e.kind \in CreateKinds \cup TradeKinds =>
              d.prog = IF e.kind \in BonkKinds THEN "Bonk" ELSE "PumpFun"
<1>. DEFINE d == Processed(s, g, e)
            p == e.at
            x == InsAt(t, p)
            list == t.outer[p[1]].inner
            c == p[2]
<1>1. CASE e = Budget(p)
  <2>1. e.kind = "ComputeBudget" /\ "swap" \notin DOMAIN e
    BY <1>1 DEF Budget
  <2>2. d = e
    BY <2>1 DEF Processed
  <2>. QED  BY <2>1, <2>2 DEF CreateKinds, TradeKinds
<1>2. CASE CallEvent(e, x, list, c)
  <2>1. /\ DOMAIN e = Parts /\ e.prog = x.prog
        /\ e.log = IF LogKind(x) = << >> THEN 0 ELSE x.id
    BY <1>2 DEF CallEvent, Full
  <2>2. SameParts(d, e) /\ d.log = e.log
    <3>1. CASE e.kind \in {"PumpFunBuy", "PumpFunSell"}
      <4>1. PICK a : a = Amounts(e)
        OBVIOUS
      <4>2. SameParts(a, e) /\ a.log = e.log
        BY <2>1, <4>1, AmountsParts
      <4>. HIDE DEF p, d
      <4>3. d = [a EXCEPT !.dev = IsDev(s, g, <<"dev", e.user>>) \/ IsDev(s, g, <<"dev", e.creator>>)]
        BY <3>1, <4>1 DEF Processed, d
      <4>. QED  BY <4>2, <4>3 DEF SameParts
    <3>2. CASE e.kind \in {"PumpSwapBuy", "PumpSwapSell"}
      <4>1. d = Amounts(e)
        BY <3>2 DEF Processed
      <4>. QED  BY <2>1, <4>1, AmountsParts
    <3>3. CASE e.kind = "BonkTrade"
      <4>1. PICK b : b = IsDev(s, g, <<"bonk", e.user>>)
        OBVIOUS
      <4>2. d = [e EXCEPT !.dev = b]
        BY <3>3, <4>1 DEF Processed
      <4>. QED  BY <4>2 DEF SameParts
    <3>4. CASE e.kind \notin PumpTrades \cup {"BonkTrade"}
      <4>1. d = e
        BY <3>4 DEF Processed, PumpTrades
      <4>. QED  BY <4>1 DEF SameParts
    <3>. QED  BY <3>1, <3>2, <3>3, <3>4 DEF PumpTrades
  <2>3. d.swap = IF e.kind \in PumpTrades THEN Amounts(e).swap ELSE e.swap
    <3>1. CASE e.kind \in {"PumpFunBuy", "PumpFunSell"}
      <4>1. PICK a : a = Amounts(e)
        OBVIOUS
      <4>2. d.swap = a.swap
        BY <3>1, <4>1 DEF Processed
      <4>. QED  BY <3>1, <4>1, <4>2 DEF PumpTrades
    <3>2. CASE e.kind \in {"PumpSwapBuy", "PumpSwapSell"}
      BY <3>2 DEF Processed, PumpTrades
    <3>3. CASE e.kind \notin PumpTrades
      BY <3>3 DEF Processed, PumpTrades
    <3>. QED  BY <3>1, <3>2, <3>3 DEF PumpTrades
  <2>4. e.kind \in TradeKinds => d.dev = \E entry \in Sought(e) : IsDev(s, g, entry)
    <3>1. CASE e.kind \in {"PumpFunBuy", "PumpFunSell"}
      <4>1. PICK a : a = Amounts(e)
        OBVIOUS
      <4>2. "dev" \in DOMAIN a
        BY <2>1, <4>1, AmountsParts DEF SameParts, Parts
      <4>3. d.dev = (IsDev(s, g, <<"dev", e.user>>) \/ IsDev(s, g, <<"dev", e.creator>>))
        BY <3>1, <4>1, <4>2 DEF Processed
      <4>. QED  BY <3>1, <4>3 DEF Sought
    <3>2. CASE e.kind = "BonkTrade"
      <4>1. d.dev = IsDev(s, g, <<"bonk", e.user>>)
        <5>1. "dev" \in DOMAIN e
          BY <2>1 DEF Parts
        <5>. HIDE DEF d, p, x
        <5>2. d = [e EXCEPT !.dev = IsDev(s, g, <<"bonk", e.user>>)]
          BY <3>2 DEF Processed, d
        <5>. QED  BY <5>1, <5>2
      <4>2. Sought(e) = {<<"bonk", e.user>>} /\ IsDev(s, g, <<"bonk", e.user>>) \in BOOLEAN
        BY <3>2 DEF Sought, IsDev
      <4>. QED  BY <4>1, <4>2
    <3>. QED  BY <3>1, <3>2 DEF TradeKinds
  <2>. HIDE DEF d, p, x, list, c
  <2>5. Told(d, x, list, c)
    <3>1. IsSwapOf(x, e.kind, e.swap, list, c) /\ x.id # 0
          /\ (e.kind \in PumpTrades => LogKind(x) # << >>)
      BY <1>2 DEF CallEvent
    <3>2. CASE SidesOf(x) = NoSides
      <4>1. e.swap = NoSwap
        BY <3>1, <3>2 DEF IsSwapOf
      <4>2. d.swap = NoSwap
        BY <2>1, <2>3, <4>1, AmountsParts
      <4>. QED  BY <2>1, <2>2, <3>2, <4>2 DEF Told
    <3>3. CASE SidesOf(x) # NoSides /\ e.kind \in PumpTrades
      <4>. DEFINE gave == Mint(x, SidesOf(x).mint_in)
                  got == Mint(x, SidesOf(x).mint_out)
      <4>1. e.swap = Swap(gave, got, Zero, Zero) /\ gave # Default
        BY <3>1, <3>3 DEF IsSwapOf
      <4>2. e.log = x.id
        BY <2>1, <3>1, <3>3
      <4>. HIDE DEF gave, got
      <4>3. d.swap = Swap(gave, got, <<x.id, "in">>, <<x.id, "out">>)
        BY <2>1, <2>3, <3>1, <3>3, <4>1, <4>2, AmountsParts
      <4>. QED  BY <2>1, <2>2, <3>3, <4>3 DEF Told, gave, got
    <3>4. CASE SidesOf(x) # NoSides /\ e.kind \notin PumpTrades
      <4>1. d.swap = e.swap
        BY <2>3, <3>4
      <4>. QED  BY <2>1, <2>2, <3>1, <3>4, <4>1 DEF Told, IsSwapOf
    <3>. QED  BY <3>2, <3>3, <3>4
  <2>6. e.kind \in CreateKinds \cup TradeKinds =>
          d.prog = IF e.kind \in BonkKinds THEN "Bonk" ELSE "PumpFun"
    BY <1>2, <2>2 DEF CallEvent, SameParts, CreateKinds, TradeKinds, PumpFunKinds, BonkKinds
  <2>7. e.kind \notin {"panic", "TokenAccount"}
    BY <1>2 DEF CallEvent
  <2>. QED  BY <2>2, <2>4, <2>5, <2>6, <2>7 DEF SameParts, d, p, x, list, c
<1>. QED  BY <1>1, <1>2 DEF Ours

-----------------------------------------------------------------------------
(* Handling the events of a transaction, one after another.                   *)

\* What may be after each event comes from what may be before it.
LEMMA OutcomeSteps ==
  ASSUME NEW g, NEW events, Len(events) \in Nat
  PROVE  \E f : /\ f[0] = {[sigs |-> sigs, out |-> << >>]}
                /\ \A k \in 1..Len(events) : \A j : j = k - 1 =>
                     f[k] = UNION {process_event(acc, g, events[k]) : acc \in f[j]}
                /\ Outcomes(g, events) = f[Len(events)]
<1>. DEFINE n == Len(events)
            Start == {[sigs |-> sigs, out |-> << >>]}
            Step(k, V) == UNION {process_event(acc, g, events[k]) : acc \in V}
            Is(f, m) == f = [k \in 0..m |-> IF k = 0 THEN Start ELSE Step(k, f[k - 1])]
            Upto(m) == \E f : Is(f, m)
            T == {m \in 0..n : Upto(m)}
<1>. HIDE DEF Start, Step
<1>1. Upto(0)
  <2>. DEFINE f == [i \in 0..0 |-> Start]
  <2>1. Is(f, 0)
    OBVIOUS
  <2>. QED  BY <2>1
<1>2. ASSUME NEW m \in 1..n, Upto(m - 1) PROVE Upto(m)
  <2>1. PICK f : Is(f, m - 1)
    BY <1>2
  <2>. DEFINE h == [i \in 0..m |-> IF i = m THEN Step(m, f[m - 1]) ELSE f[i]]
  <2>2. ASSUME NEW i \in 0..m PROVE h[i] = IF i = 0 THEN Start ELSE Step(i, h[i - 1])
    <3>1. CASE i = 0
      BY <2>1, <3>1
    <3>2. CASE i # 0
      <4>1. h[i - 1] = f[i - 1]
        BY <3>2
      <4>2. CASE i = m
        BY <3>2, <4>1, <4>2
      <4>3. CASE i # m
        <5>1. i \in 0..(m - 1)
          BY <4>3
        <5>2. f[i] = Step(i, f[i - 1])
          BY <2>1, <3>2, <5>1
        <5>. QED  BY <3>2, <4>1, <4>3, <5>2
      <4>. QED  BY <4>2, <4>3
    <3>. QED  BY <3>1, <3>2
  <2>3. h = [i \in 0..m |-> h[i]]
    OBVIOUS
  <2>. HIDE DEF h
  <2>4. Is(h, m)
    BY <2>2, <2>3
  <2>. QED  BY <2>4
<1>3. Upto(n)
  <2>1. 0 \in T
    <3>1. 0 \in 0..n
      OBVIOUS
    <3>. HIDE DEF Upto
    <3>. QED  BY <1>1, <3>1
  <2>2. \A k \in (0 + 1)..n : k - 1 \in T => k \in T
    <3>. HIDE DEF Upto
    <3>. QED  BY <1>2
  <2>. HIDE DEF T
  <2>3. 0..n \subseteq T
    <3>. 0 \in Nat /\ 0 <= n
      OBVIOUS
    <3>. QED  BY <2>1, <2>2, Upward
  <2>4. n \in 0..n
    OBVIOUS
  <2>. QED  BY <2>3, <2>4 DEF T
<1>. DEFINE f == CHOOSE f : Is(f, n)
<1>4. Is(f, n)
  <2>. HIDE DEF Is
  <2>. QED  BY <1>3
<1>5. Outcomes(g, events) = f[n]
  BY DEF Outcomes, Start, Step
<1>. HIDE DEF f
<1>6. f[0] = Start /\ \A k \in 1..n : \A j : j = k - 1 => f[k] = Step(k, f[j])
  <2>1. \A k \in 0..n : f[k] = IF k = 0 THEN Start ELSE Step(k, f[k - 1])
    BY <1>4
  <2>2. 0 \in 0..n /\ \A k \in 1..n : k \in 0..n /\ k # 0
    OBVIOUS
  <2>. QED  BY <2>1, <2>2
<1>. QED  BY <1>5, <1>6 DEF Start, Step

\* The last creation among the first k.
Latest(events, i, k) ==
  /\ i \in 1..k /\ events[i].kind \in CreateKinds
  /\ \A j \in (i + 1)..k : events[j].kind \notin CreateKinds

\* The trade d of event j is marked for those before it and for nobody else.
MarkedRight(d, events, j) ==
  events[j].kind \in TradeKinds =>
    /\ d.dev => \E i \in 1..(j - 1) : Entries(events[i]) \cap Sought(events[j]) # {}
    /\ \A i : Latest(events, i, j - 1) /\ Sure(events[i]) \cap Sought(events[j]) # {} => d.dev

\* After the first k events: each is as it was processed, and the developers remembered
\* are those of the creations, those of the last one for sure.
Handled(acc, g, events, k) ==
  /\ IsSeq(acc.out) /\ Len(acc.out) = k
  /\ \A i \in 1..k : \E s : acc.out[i] = Processed(s, g, events[i])
  /\ \A i \in 1..k : MarkedRight(acc.out[i], events, i)
  /\ \A entry : IsDev(acc.sigs, g, entry) => \E i \in 1..k : entry \in Entries(events[i])
  /\ \A i : Latest(events, i, k) => \A entry \in Sure(events[i]) : IsDev(acc.sigs, g, entry)

\* One more.
LEMMA HandleOne ==
  ASSUME NEW t, NEW g, NEW events, NEW k \in Nat, NEW j, j = k - 1, k # 0,
         \A i \in 1..k : Ours(t, events[i]),
         NEW acc, Handled(acc, g, events, j), NEW next \in process_event(acc, g, events[k])
  PROVE  Handled(next, g, events, k)
<1>. DEFINE e == events[k]
<1>1. j \in Nat /\ k \in 1..k /\ \A i \in 1..k : i = k \/ i \in 1..j
  OBVIOUS
<1>2. acc.out # << >> => Last(acc.out).kind # "panic"
  <2>1. SUFFICES ASSUME acc.out # << >> PROVE Last(acc.out).kind # "panic"
    OBVIOUS
  <2>2. j # 0
    <3>1. acc.out \in Seq({acc.out[i] : i \in DOMAIN acc.out}) /\ Len(acc.out) = j
      BY DEF Handled, IsSeq
    <3>. QED  BY <2>1, <3>1, EmptySeq
  <2>3. j \in 1..j /\ j \in 1..k
    BY <1>1, <2>2
  <2>4. Last(acc.out) = acc.out[j]
    BY DEF Last, Handled
  <2>5. PICK s : acc.out[j] = Processed(s, g, events[j])
    BY <2>3 DEF Handled
  <2>6. Ours(t, events[j])
    BY <2>3
  <2>7. Processed(s, g, events[j]).kind # "panic"
    <3>1. PICK before : before = events[j]
      OBVIOUS
    <3>2. Processed(s, g, before).kind = before.kind /\ before.kind \notin {"panic", "TokenAccount"}
      <4>1. Ours(t, before)
        BY <2>6, <3>1
      <4>. QED  BY <4>1, ProcessedParts, ZenonT(60)
    <3>. QED  BY <3>1, <3>2
  <2>. QED  BY <2>4, <2>5, <2>7
<1>3. PICK s \in Adds(acc.sigs, g, e) :
             next = [sigs |-> s, out |-> Append(acc.out, Processed(s, g, e))]
  BY <1>2 DEF process_event
<1>. DEFINE d == Processed(s, g, e)
<1>4. /\ IsSeq(next.out) /\ Len(next.out) = k
      /\ next.out[k] = d /\ \A i \in 1..j : next.out[i] = acc.out[i]
  <2>. DEFINE S == {acc.out[i] : i \in DOMAIN acc.out} \cup {d}
  <2>1. acc.out \in Seq(S) /\ d \in S /\ Len(acc.out) = j
    <3>1. acc.out \in Seq({acc.out[i] : i \in DOMAIN acc.out}) /\ Len(acc.out) = j
      BY DEF Handled, IsSeq
    <3>. QED  BY <3>1, SeqMonotonic
  <2>. HIDE DEF S, d
  <2>2. next.out = Append(acc.out, d)
    BY <1>3 DEF d
  <2>3. /\ next.out \in Seq(S) /\ Len(next.out) = j + 1
        /\ next.out[j + 1] = d /\ \A i \in 1..j : next.out[i] = acc.out[i]
    BY <2>1, <2>2
  <2>. QED  BY <1>1, <2>3, OwnSeq
<1>5. \A i \in 1..k : \E r : next.out[i] = Processed(r, g, events[i])
  BY <1>1, <1>4 DEF Handled
<1>6. /\ e.kind \notin CreateKinds => s = acc.sigs
      /\ \A entry \in Sure(e) : IsDev(s, g, entry)
      /\ \A entry : IsDev(s, g, entry) => entry \in Entries(e) \/ IsDev(acc.sigs, g, entry)
  BY AddsDevs
<1>7. MarkedRight(d, events, k)
  <2>1. SUFFICES ASSUME e.kind \in TradeKinds
                 PROVE  /\ d.dev => \E i \in 1..(k - 1) : Entries(events[i]) \cap Sought(e) # {}
                        /\ \A i : Latest(events, i, k - 1) /\ Sure(events[i]) \cap Sought(e) # {}
                             => d.dev
    BY DEF MarkedRight
  <2>2. s = acc.sigs
    BY <1>6, <2>1 DEF TradeKinds, CreateKinds
  <2>3. d.dev = \E entry \in Sought(e) : IsDev(s, g, entry)
    <3>1. Ours(t, e)
      BY <1>1
    <3>. HIDE DEF e
    <3>. QED  BY <2>1, <3>1, ProcessedParts
  <2>. HIDE DEF d, e
  <2>4. ASSUME d.dev PROVE \E i \in 1..j : Entries(events[i]) \cap Sought(e) # {}
    <3>1. PICK entry \in Sought(e) : IsDev(s, g, entry)
      BY <2>3, <2>4
    <3>2. PICK i \in 1..j : entry \in Entries(events[i])
      BY <2>2, <3>1 DEF Handled
    <3>. QED  BY <3>1, <3>2
  <2>5. ASSUME NEW i, Latest(events, i, j), Sure(events[i]) \cap Sought(e) # {} PROVE d.dev
    <3>1. PICK entry \in Sure(events[i]) : entry \in Sought(e)
      BY <2>5
    <3>2. IsDev(s, g, entry)
      BY <2>2, <2>5, <3>1 DEF Handled
    <3>. QED  BY <2>3, <3>1, <3>2
  <2>. QED  BY <2>4, <2>5
<1>. HIDE DEF d
<1>8. \A i \in 1..k : MarkedRight(next.out[i], events, i)
  BY <1>1, <1>4, <1>7 DEF Handled
<1>9. ASSUME NEW entry, IsDev(s, g, entry) PROVE \E i \in 1..k : entry \in Entries(events[i])
  <2>1. CASE entry \in Entries(e)
    BY <1>1, <2>1
  <2>2. CASE IsDev(acc.sigs, g, entry)
    <3>1. PICK i \in 1..j : entry \in Entries(events[i])
      BY <2>2 DEF Handled
    <3>. QED  BY <3>1
  <2>. QED  BY <1>6, <1>9, <2>1, <2>2
<1>10. ASSUME NEW i, Latest(events, i, k), NEW entry \in Sure(events[i]) PROVE IsDev(s, g, entry)
  <2>1. CASE i = k
    BY <1>6, <2>1
  <2>2. CASE i # k
    <3>1. i \in 1..j /\ k \in (i + 1)..k /\ \A l \in (i + 1)..j : l \in (i + 1)..k
      BY <1>1, <1>10, <2>2 DEF Latest
    <3>2. e.kind \notin CreateKinds /\ Latest(events, i, j)
      BY <1>10, <3>1 DEF Latest
    <3>. QED  BY <1>6, <3>2 DEF Handled
  <2>. QED  BY <2>1, <2>2
<1>11. next.sigs = s
  BY <1>3
<1>. QED  BY <1>4, <1>5, <1>8, <1>9, <1>10, <1>11 DEF Handled

\* And all of them.
LEMMA AllHandled ==
  ASSUME NEW t, NEW g, g \notin DOMAIN sigs, NEW events, IsSeq(events),
         \A i \in DOMAIN events : Ours(t, events[i]),
         NEW acc \in Outcomes(g, events)
  PROVE  Handled(acc, g, events, Len(events))
<1>. DEFINE n == Len(events)
<1>1. n \in Nat /\ DOMAIN events = 1..n
  BY OwnSeq DEF IsSeq
<1>2. PICK f : /\ f[0] = {[sigs |-> sigs, out |-> << >>]}
               /\ \A k \in 1..n : \A j : j = k - 1 =>
                    f[k] = UNION {process_event(a, g, events[k]) : a \in f[j]}
               /\ Outcomes(g, events) = f[n]
  BY <1>1, OutcomeSteps
<1>. DEFINE T == {k \in 0..n : \A a \in f[k] : Handled(a, g, events, k)}
<1>. HIDE DEF n
<1>3. 0 \in T
  <2>1. ASSUME NEW a \in f[0] PROVE Handled(a, g, events, 0)
    <3>1. a.sigs = sigs /\ a.out = << >>
      BY <1>2
    <3>2. \A entry : ~IsDev(a.sigs, g, entry)
      BY <3>1 DEF IsDev
    <3>3. IsSeq(a.out) /\ Len(a.out) = 0
      BY <3>1, EmptySeq, OwnSeq
    <3>4. 1..0 = {} /\ \A i : ~Latest(events, i, 0)
      BY DEF Latest
    <3>. QED  BY <3>2, <3>3, <3>4 DEF Handled
  <2>. QED  BY <1>1, <2>1
<1>4. ASSUME NEW k \in 1..n, k - 1 \in T PROVE k \in T
  <2>1. ASSUME NEW a \in f[k] PROVE Handled(a, g, events, k)
    <3>1. PICK j : j = k - 1
      OBVIOUS
    <3>2. PICK b \in f[j] : a \in process_event(b, g, events[k])
      BY <1>2, <2>1, <3>1
    <3>3. Handled(b, g, events, j) /\ k \in Nat /\ k # 0
      BY <1>1, <1>4, <3>1
    <3>4. \A i \in 1..k : Ours(t, events[i])
      BY <1>1
    <3>. QED  BY <3>1, <3>2, <3>3, <3>4, HandleOne
  <2>. QED  BY <1>1, <2>1
<1>5. 0..n \subseteq T
  <2>1. \A k \in (0 + 1)..n : k - 1 \in T => k \in T
    <3>. HIDE DEF T
    <3>. QED  BY <1>1, <1>4
  <2>. HIDE DEF T
  <2>2. 0 \in Nat /\ 0 <= n
    BY <1>1
  <2>. QED  BY <1>1, <1>3, <2>1, <2>2, Upward
<1>6. n \in T
  BY <1>1, <1>5
<1>. QED  BY <1>2, <1>6 DEF n

-----------------------------------------------------------------------------
(* What the callback is called with.                                          *)

\* The events as they were processed, then the balances.
Given(t, g, events, o) ==
  \E b \in Nat :
    /\ DOMAIN o = 1..(Len(events) + b)
    /\ \A i \in 1..Len(events) :
         (\E s : o[i] = Processed(s, g, events[i])) /\ MarkedRight(o[i], events, i)
    /\ \A i \in (Len(events) + 1)..(Len(events) + b) :
         o[i] = [kind |-> "TokenAccount", at |-> <<Len(t.outer) + 1, i - Len(events)>>, id |-> 0]

\* What handling leaves, with the balances behind it.
LEMMA OutGiven ==
  ASSUME NEW t, OnChain(t), NEW g, NEW events, IsSeq(events), NEW acc,
         Handled(acc, g, events, Len(events))
  PROVE  Given(t, g, events, acc.out \o BalanceEvents(t))
<1>. DEFINE good == {b \in DOMAIN t.balances : t.balances[b].listed /\ t.balances[b].amount}
            b == Cardinality(good)
            B == BalanceEvents(t)
            o == acc.out \o B
            n == Len(events)
<1>1. b \in Nat
  <2>1. IsSeq(t.balances)
    BY DEF OnChain
  <2>2. DOMAIN t.balances = 1..Len(t.balances) /\ Len(t.balances) \in Nat
    BY <2>1, OwnSeq DEF IsSeq
  <2>3. IsFiniteSet(DOMAIN t.balances)
    BY <2>2, FS_Interval
  <2>4. IsFiniteSet(good)
    BY <2>3, FS_Subset
  <2>. QED  BY <2>4, FS_CardinalityType
<1>. HIDE DEF b
<1>2. B = [i \in 1..b |-> [kind |-> "TokenAccount", at |-> <<Len(t.outer) + 1, i>>, id |-> 0]]
  BY DEF BalanceEvents, b
<1>. HIDE DEF B
<1>3. IsSeq(B) /\ Len(B) = b
  <2>1. B = [i \in 1..b |-> B[i]]
    BY <1>2
  <2>. QED  BY <1>1, <2>1, FunctionSeq
<1>4. n \in Nat
  BY OwnSeq DEF IsSeq
<1>. DEFINE S == {acc.out[i] : i \in DOMAIN acc.out} \cup {B[i] : i \in DOMAIN B}
<1>5. acc.out \in Seq(S) /\ B \in Seq(S) /\ Len(acc.out) = n
  <2>1. acc.out \in Seq({acc.out[i] : i \in DOMAIN acc.out}) /\ Len(acc.out) = n
    BY DEF Handled, IsSeq
  <2>2. B \in Seq({B[i] : i \in DOMAIN B})
    BY <1>3 DEF IsSeq
  <2>. QED  BY <2>1, <2>2, SeqMonotonic
<1>. HIDE DEF S, n
<1>6. /\ o \in Seq(S) /\ Len(o) = n + b
      /\ \A i \in 1..(n + b) : o[i] = IF i <= n THEN acc.out[i] ELSE B[i - n]
  BY <1>3, <1>5, ConcatProperties
<1>7. DOMAIN o = 1..(n + b)
  BY <1>6, OwnSeq
<1>. HIDE DEF o
<1>8. \A i \in 1..n : (\E s : o[i] = Processed(s, g, events[i])) /\ MarkedRight(o[i], events, i)
  <2>1. \A i \in 1..n : o[i] = acc.out[i]
    BY <1>1, <1>4, <1>6
  <2>. QED  BY <2>1 DEF Handled, n
<1>9. ASSUME NEW i \in (n + 1)..(n + b)
      PROVE  o[i] = [kind |-> "TokenAccount", at |-> <<Len(t.outer) + 1, i - n>>, id |-> 0]
  <2>1. i \in 1..(n + b) /\ ~(i <= n) /\ i - n \in 1..b
    BY <1>1, <1>4
  <2>2. o[i] = B[i - n]
    BY <1>6, <2>1
  <2>. QED  BY <1>2, <2>1, <2>2
<1>. QED  BY <1>1, <1>7, <1>8, <1>9 DEF Given, o, B, n

\* Their order.
LEMMA OrderGiven ==
  ASSUME NEW t, OnChain(t), NEW g, NEW events, NEW P, InOrder(t, events, P), NEW o,
         Given(t, g, events, o)
  PROVE  /\ \A i, j \in DOMAIN o : i < j => Before(o[i].at, o[j].at)
         /\ {o[i].at : i \in {j \in DOMAIN o : o[j].kind # "TokenAccount"}} = P
<1>. DEFINE n == Len(events)
            N == Len(t.outer)
<1>1. n \in Nat /\ DOMAIN events = 1..n
  BY OwnSeq DEF IsSeq, InOrder
<1>2. PICK b \in Nat :
        /\ DOMAIN o = 1..(n + b)
        /\ \A i \in 1..n : \E s : o[i] = Processed(s, g, events[i])
        /\ \A i \in (n + 1)..(n + b) :
             o[i] = [kind |-> "TokenAccount", at |-> <<N + 1, i - n>>, id |-> 0]
  BY DEF Given
<1>3. N \in Nat /\ DOMAIN t.outer = 1..N
  <2>1. IsSeq(t.outer)
    BY DEF OnChain
  <2>. QED  BY <2>1, OwnSeq DEF IsSeq
<1>4. ASSUME NEW i \in 1..n
      PROVE  o[i].at = events[i].at /\ o[i].kind # "TokenAccount" /\ o[i].at[1] \in 1..N
             /\ i \in DOMAIN o
  <2>1. PICK s : o[i] = Processed(s, g, events[i])
    BY <1>2
  <2>2. PICK e : e = events[i]
    OBVIOUS
  <2>3. Ours(t, e)
    BY <1>1, <2>2 DEF InOrder
  <2>4. Processed(s, g, e).kind = e.kind /\ Processed(s, g, e).at = e.at
        /\ e.kind \notin {"panic", "TokenAccount"}
    BY <2>3, ProcessedParts, ZenonT(60)
  <2>5. e.at[1] \in DOMAIN t.outer
    BY <2>3 DEF Ours, Placed
  <2>6. i \in DOMAIN o
    BY <1>1, <1>2
  <2>. QED  BY <1>3, <2>1, <2>2, <2>4, <2>5, <2>6
<1>. HIDE DEF n, N
<1>5. ASSUME NEW i \in DOMAIN o, i \notin 1..n
      PROVE  /\ o[i].at[1] = N + 1 /\ o[i].at[2] = i - n /\ o[i].kind = "TokenAccount"
             /\ i \in Int /\ i > n
  <2>1. i \in (n + 1)..(n + b)
    BY <1>1, <1>2, <1>5
  <2>2. o[i] = [kind |-> "TokenAccount", at |-> <<N + 1, i - n>>, id |-> 0]
    BY <1>2, <2>1
  <2>. QED  BY <1>1, <2>1, <2>2
<1>6. ASSUME NEW i \in DOMAIN o, NEW j \in DOMAIN o, i < j PROVE Before(o[i].at, o[j].at)
  <2>1. CASE i \in 1..n /\ j \in 1..n
    BY <1>1, <1>4, <1>6, <2>1 DEF InOrder
  <2>2. CASE i \in 1..n /\ j \notin 1..n
    BY <1>3, <1>4, <1>5, <2>2 DEF Before
  <2>3. CASE i \notin 1..n /\ j \notin 1..n
    <3>1. o[i].at[1] = o[j].at[1] /\ o[i].at[2] < o[j].at[2]
      BY <1>1, <1>5, <1>6, <2>3
    <3>. QED  BY <3>1 DEF Before
  <2>4. CASE i \notin 1..n /\ j \in 1..n
    BY <1>1, <1>5, <1>6, <2>4
  <2>. QED  BY <2>1, <2>2, <2>3, <2>4
<1>7. {j \in DOMAIN o : o[j].kind # "TokenAccount"} = 1..n
  BY <1>4, <1>5
<1>8. {o[i].at : i \in 1..n} = P
  <2>1. {o[i].at : i \in 1..n} = {events[i].at : i \in 1..n}
    BY <1>4
  <2>. QED  BY <1>1, <2>1 DEF InOrder
<1>. QED  BY <1>6, <1>7, <1>8

\* Their parts.
LEMMA PartsGiven ==
  ASSUME NEW t, NEW g, NEW events, NEW P, InOrder(t, events, P), NEW o,
         Given(t, g, events, o), NEW i \in DOMAIN o
  PROVE  /\ o[i].kind # "panic"
         /\ "swap" \in DOMAIN o[i] =>
              LET p == o[i].at IN
              p \in Placed(t) /\ Told(o[i], InsAt(t, p), t.outer[p[1]].inner, p[2])
         /\ o[i].kind \in CreateKinds \cup TradeKinds =>
              /\ i \in 1..Len(events) /\ SameParts(o[i], events[i])
              /\ MarkedRight(o[i], events, i)
              /\ o[i].prog = IF o[i].kind \in BonkKinds THEN "Bonk" ELSE "PumpFun"
<1>. DEFINE n == Len(events)
            N == Len(t.outer)
<1>1. n \in Nat /\ DOMAIN events = 1..n
  BY OwnSeq DEF IsSeq, InOrder
<1>2. PICK b \in Nat :
        /\ DOMAIN o = 1..(n + b)
        /\ \A k \in 1..n : (\E s : o[k] = Processed(s, g, events[k])) /\ MarkedRight(o[k], events, k)
        /\ \A k \in (n + 1)..(n + b) :
             o[k] = [kind |-> "TokenAccount", at |-> <<N + 1, k - n>>, id |-> 0]
  BY DEF Given
<1>3. CASE i \notin 1..n
  <2>1. i \in (n + 1)..(n + b)
    BY <1>1, <1>2, <1>3
  <2>. HIDE DEF n, N
  <2>2. o[i] = [kind |-> "TokenAccount", at |-> <<N + 1, i - n>>, id |-> 0]
    BY <1>2, <2>1
  <2>. QED  BY <2>2 DEF CreateKinds, TradeKinds
<1>4. CASE i \in 1..n
  <2>1. PICK s : o[i] = Processed(s, g, events[i])
    BY <1>2, <1>4
  <2>2. PICK e : e = events[i]
    OBVIOUS
  <2>3. Ours(t, e)
    BY <1>1, <1>4, <2>2 DEF InOrder
  <2>4. PICK d : d = Processed(s, g, e)
    OBVIOUS
  <2>5. /\ d.kind = e.kind /\ d.at = e.at /\ e.kind \notin {"panic", "TokenAccount"}
        /\ e.kind \in CreateKinds \cup TradeKinds => SameParts(d, e)
        /\ "swap" \in DOMAIN d => Told(d, InsAt(t, e.at), t.outer[e.at[1]].inner, e.at[2])
        /\ e.kind \in CreateKinds \cup TradeKinds =>
             d.prog = IF e.kind \in BonkKinds THEN "Bonk" ELSE "PumpFun"
    BY <2>3, <2>4, ProcessedParts, ZenonT(60)
  <2>6. e.at \in Placed(t)
    BY <2>3 DEF Ours
  <2>7. o[i] = d
    BY <2>1, <2>2, <2>4
  <2>8. MarkedRight(d, events, i) /\ SameParts(d, events[i]) = SameParts(d, e)
    BY <1>2, <1>4, <2>2, <2>7
  <2>. QED  BY <1>4, <2>2, <2>5, <2>6, <2>7, <2>8
<1>. QED  BY <1>3, <1>4

\* Two creations are two.
LEMMA OnlyOne ==
  ASSUME NEW n \in Nat, NEW made \in SUBSET (1..n), Cardinality(made) <= 1, NEW i \in made,
         NEW j \in made
  PROVE  i = j
<1>1. IsFiniteSet(made)
  <2>1. IsFiniteSet(1..n)
    BY FS_Interval
  <2>. QED  BY <2>1, FS_Subset
<1>2. SUFFICES ASSUME i # j PROVE FALSE
  OBVIOUS
<1>3. Cardinality({i}) = 1 /\ IsFiniteSet({i})
  BY FS_Singleton
<1>4. Cardinality({i} \cup {j}) = 2
  BY <1>2, <1>3, FS_AddElement
<1>5. {i} \cup {j} \subseteq made
  OBVIOUS
<1>6. Cardinality({i} \cup {j}) <= Cardinality(made) /\ Cardinality(made) \in Nat
  BY <1>1, <1>5, FS_Subset, FS_CardinalityType
<1>. QED  BY <1>4, <1>6

\* An event's kind is not changed.
SameKinds(o, events) == \A i \in 1..Len(events) : o[i].kind = events[i].kind
LEMMA KindsGiven ==
  ASSUME NEW t, NEW g, NEW events, NEW P, InOrder(t, events, P), NEW o,
         Given(t, g, events, o)
  PROVE  SameKinds(o, events)
<1>1. SUFFICES ASSUME NEW i \in 1..Len(events) PROVE o[i].kind = events[i].kind
  BY DEF SameKinds
<1>2. PICK s : o[i] = Processed(s, g, events[i])
  BY DEF Given
<1>3. PICK e : e = events[i]
  OBVIOUS
<1>4. Ours(t, e)
  <2>1. DOMAIN events = 1..Len(events)
    BY OwnSeq DEF IsSeq, InOrder
  <2>. QED  BY <1>3, <2>1 DEF InOrder
<1>5. Processed(s, g, e).kind = e.kind /\ Processed(s, g, e).at = e.at
      /\ e.kind \notin {"panic", "TokenAccount"}
  BY <1>4, ProcessedParts, ZenonT(60)
<1>. QED  BY <1>2, <1>3, <1>5

\* The creations given, and those of a trade's program before it.
CreatesIn(o) == {i \in DOMAIN o : o[i].kind \in CreateKinds}
MadeIn(o, j) == {i \in CreatesIn(o) : i < j /\ o[i].prog = o[j].prog}
OneToken(o, j) ==
  Cardinality(MadeIn(o, j)) <= 1 /\ \A i \in CreatesIn(o) : o[i].prog = o[j].prog
RightMark(o, j) ==
  /\ (\E i \in MadeIn(o, j) : o[i].creator = Stake(o[j]) /\ Stake(o[j]) # "default") => o[j].dev
  /\ o[j].dev => \E i \in MadeIn(o, j) : Developers(o[i]) \cap Trader(o[j]) # {}

\* The marks of the trades.
LEMMA DevGiven ==
  ASSUME NEW t, NEW g, NEW events, NEW P, InOrder(t, events, P), NEW o,
         Given(t, g, events, o), NEW j \in DOMAIN o, o[j].kind \in TradeKinds, OneToken(o, j)
  PROVE  RightMark(o, j)
<1>1. SameKinds(o, events)
  BY KindsGiven
<1>2. PICK creates, made : creates = CreatesIn(o) /\ made = MadeIn(o, j)
  OBVIOUS
<1>3. /\ creates = {i \in DOMAIN o : o[i].kind \in CreateKinds}
      /\ made = {i \in creates : i < j /\ o[i].prog = o[j].prog}
      /\ Cardinality(made) <= 1 /\ \A i \in creates : o[i].prog = o[j].prog
  BY <1>2 DEF CreatesIn, MadeIn, OneToken
<1>. DEFINE n == Len(events)
<1>4. n \in Nat /\ DOMAIN events = 1..n
  BY OwnSeq DEF IsSeq, InOrder
<1>5. \A i \in DOMAIN o :
        o[i].kind \in CreateKinds \cup TradeKinds =>
          /\ i \in 1..n /\ SameParts(o[i], events[i]) /\ MarkedRight(o[i], events, i)
          /\ o[i].prog = IF o[i].kind \in BonkKinds THEN "Bonk" ELSE "PumpFun"
  BY PartsGiven
<1>6. 1..n \subseteq DOMAIN o
  BY <1>4 DEF Given
<1>7. \A i \in 1..n : o[i].kind = events[i].kind
  BY <1>1 DEF SameKinds
<1>. HIDE DEF n
<1>8. j \in 1..n /\ SameParts(o[j], events[j]) /\ MarkedRight(o[j], events, j)
      /\ o[j].prog = IF o[j].kind \in BonkKinds THEN "Bonk" ELSE "PumpFun"
  <2>1. o[j].kind \in CreateKinds \cup TradeKinds
    OBVIOUS
  <2>. QED  BY <1>5, <2>1
<1>9. \A i \in creates :
        /\ i \in 1..n /\ SameParts(o[i], events[i]) /\ o[i].kind \in CreateKinds
        /\ o[i].kind \in BonkKinds <=> o[j].kind \in BonkKinds
  <2>1. ASSUME NEW i \in creates
        PROVE  /\ i \in 1..n /\ SameParts(o[i], events[i]) /\ o[i].kind \in CreateKinds
               /\ o[i].kind \in BonkKinds <=> o[j].kind \in BonkKinds
    <3>1. i \in DOMAIN o /\ o[i].kind \in CreateKinds
      BY <1>3
    <3>2. o[i].prog = IF o[i].kind \in BonkKinds THEN "Bonk" ELSE "PumpFun"
      BY <1>5, <3>1
    <3>. QED  BY <1>3, <1>5, <1>8, <3>1, <3>2
  <2>. QED  BY <2>1
<1>10. ASSUME NEW i \in made, o[i].creator = Stake(o[j]), Stake(o[j]) # "default"
      PROVE  o[j].dev
  <2>1. i \in creates /\ i < j /\ i \in 1..n /\ j \in 1..n
    BY <1>3, <1>8, <1>9
  <2>2. Latest(events, i, j - 1)
    <3>1. i \in 1..(j - 1) /\ events[i].kind \in CreateKinds
      BY <1>4, <1>7, <1>9, <2>1
    <3>2. ASSUME NEW l \in (i + 1)..(j - 1), events[l].kind \in CreateKinds PROVE FALSE
      <4>1. l \in 1..n /\ l < j /\ l # i
        BY <1>4, <2>1
      <4>2. l \in creates
        BY <1>3, <1>6, <1>7, <3>2, <4>1
      <4>3. l \in made
        BY <1>3, <4>1, <4>2
      <4>4. made \in SUBSET (1..n)
        BY <1>3, <1>9
      <4>. HIDE DEF n
      <4>5. i = l
        BY <1>3, <1>4, <4>3, <4>4, OnlyOne
      <4>. QED  BY <4>1, <4>5
    <3>. QED  BY <3>1, <3>2 DEF Latest
  <2>3. Sure(events[i]) \cap Sought(events[j]) # {}
    <3>1. CASE o[j].kind \in BonkKinds
      <4>1. o[i].kind = "BonkPoolCreate" /\ o[j].kind = "BonkTrade"
        BY <1>9, <2>1, <3>1 DEF CreateKinds, TradeKinds, BonkKinds
      <4>2. <<"bonk", o[i].creator>> \in Sure(events[i])
        BY <1>9, <2>1, <4>1 DEF SameParts, Sure
      <4>3. <<"bonk", o[j].user>> \in Sought(events[j])
        BY <1>8, <4>1 DEF SameParts, Sought
      <4>. QED  BY <1>10, <4>1, <4>2, <4>3 DEF Stake
    <3>2. CASE o[j].kind \notin BonkKinds
      <4>1. o[i].kind # "BonkPoolCreate" /\ o[i].kind \in CreateKinds /\ o[j].kind # "BonkTrade"
        BY <1>9, <2>1, <3>2 DEF BonkKinds
      <4>2. Stake(o[j]) = o[j].creator
        BY <4>1 DEF Stake
      <4>3. <<"dev", o[i].creator>> \in Sure(events[i])
        BY <1>9, <1>10, <2>1, <4>1 DEF SameParts, Sure
      <4>4. <<"dev", o[j].creator>> \in Sought(events[j])
        BY <1>8, <4>1 DEF SameParts, Sought
      <4>. QED  BY <1>10, <4>2, <4>3, <4>4
    <3>. QED  BY <3>1, <3>2
  <2>4. events[j].kind \in TradeKinds
    BY <1>7, <1>8
  <2>. QED  BY <1>8, <2>2, <2>3, <2>4 DEF MarkedRight
<1>11. ASSUME o[j].dev PROVE \E i \in made : Developers(o[i]) \cap Trader(o[j]) # {}
  <2>1. events[j].kind \in TradeKinds
    BY <1>7, <1>8
  <2>2. PICK i \in 1..(j - 1) : Entries(events[i]) \cap Sought(events[j]) # {}
    BY <1>8, <1>11, <2>1 DEF MarkedRight
  <2>3. i \in 1..n /\ i < j /\ i \in DOMAIN o
    BY <1>4, <1>6, <1>8
  <2>4. events[i].kind \in CreateKinds
    BY <2>2 DEF Entries, CreateKinds
  <2>5. i \in made
    BY <1>3, <1>7, <2>3, <2>4
  <2>6. PICK entry \in Entries(events[i]) : entry \in Sought(events[j])
    BY <2>2
  <2>7. SameParts(o[i], events[i]) /\ (o[i].kind \in BonkKinds <=> o[j].kind \in BonkKinds)
    BY <1>3, <1>9, <2>5
  <2>8. CASE o[j].kind \in BonkKinds
    <3>1. o[i].kind = "BonkPoolCreate" /\ o[j].kind = "BonkTrade"
      BY <1>7, <2>3, <2>4, <2>7, <2>8 DEF CreateKinds, TradeKinds, BonkKinds
    <3>2. entry = <<"bonk", o[i].creator>>
      BY <2>6, <2>7, <3>1 DEF SameParts, Entries
    <3>3. entry = <<"bonk", o[j].user>>
      BY <1>8, <2>6, <3>1 DEF SameParts, Sought
    <3>. QED  BY <2>5, <3>1, <3>2, <3>3 DEF Developers, Trader
  <2>9. CASE o[j].kind \notin BonkKinds
    <3>1. o[i].kind # "BonkPoolCreate" /\ o[j].kind # "BonkTrade"
      BY <2>7, <2>9 DEF BonkKinds
    <3>2. PICK u \in {o[i].user, o[i].creator} : entry = <<"dev", u>>
      BY <2>4, <2>6, <2>7, <3>1 DEF SameParts, Entries
    <3>3. PICK v \in {o[j].user, o[j].creator} : entry = <<"dev", v>>
      BY <1>8, <2>6, <3>1 DEF SameParts, Sought
    <3>4. u = v
      BY <3>2, <3>3
    <3>. QED  BY <2>5, <3>1, <3>4 DEF Developers, Trader
  <2>. QED  BY <2>8, <2>9
<1>. QED  BY <1>2, <1>10, <1>11 DEF RightMark

-----------------------------------------------------------------------------
(* The properties of the parser.                                              *)

\* A transaction's signature is not remembered yet.
LEMMA FreshIsNew ==
  ASSUME Signatures \ DOMAIN sigs # {}
  PROVE  Fresh \notin DOMAIN sigs
<1>. DEFINE T == Signatures \ DOMAIN sigs
<1>1. T \subseteq Nat
  BY ParserAssumption
<1>2. T # {}
  OBVIOUS
<1>. HIDE DEF T
<1>3. PICK m \in T : \A k \in T : ~(k < m)
  BY <1>1, <1>2, LeastOf
<1>4. \A k \in T : m <= k
  BY <1>1, <1>3
<1>5. Fresh \in T
  BY <1>3, <1>4 DEF Fresh, T
<1>. QED  BY <1>5 DEF T

\* What is given for a transaction.
LEMMA TransactionGiven ==
  ASSUME NEW t \in Transactions, parse_grpc_transaction(t)
  PROVE  /\ OnChain(t) /\ tx' = [kind |-> "transaction", t |-> t]
         /\ \E g, events :
              /\ InOrder(t, events, {p \in Placed(t) : Parseable(InsAt(t, p))})
              /\ Given(t, g, events, out')
<1>. DEFINE events == parse_instruction_events_from_grpc_transaction(t)
            P == {p \in Placed(t) : Parseable(InsAt(t, p))}
<1>1. OnChain(t)
  BY TransactionsAssumption
<1>2. InOrder(t, events, P)
  BY <1>1, InstructionsInOrder
<1>. HIDE DEF P
<1>3. PICK g : g = Fresh /\ g \notin DOMAIN sigs
  BY FreshIsNew DEF parse_grpc_transaction
<1>4. PICK acc \in Outcomes(g, events) : out' = acc.out \o BalanceEvents(t)
  BY <1>3 DEF parse_grpc_transaction
<1>. HIDE DEF events
<1>5. IsSeq(events) /\ \A i \in DOMAIN events : Ours(t, events[i])
  BY <1>2 DEF InOrder
<1>6. Handled(acc, g, events, Len(events))
  BY <1>3, <1>4, <1>5, AllHandled
<1>7. Given(t, g, events, out')
  BY <1>1, <1>4, <1>5, <1>6, OutGiven
<1>8. tx' = [kind |-> "transaction", t |-> t]
  BY DEF parse_grpc_transaction
<1>. QED  BY <1>1, <1>2, <1>7, <1>8 DEF P

\* The order of what is given.
LEMMA OrderKept ==
  ASSUME NEW t \in Transactions, parse_grpc_transaction(t)
  PROVE  EventsInOrder'
<1>1. OnChain(t) /\ tx' = [kind |-> "transaction", t |-> t]
  BY TransactionGiven
<1>2. PICK o : o = out'
  OBVIOUS
<1>3. PICK P : P = {p \in Placed(t) : Parseable(InsAt(t, p))}
  OBVIOUS
<1>4. PICK g, events : InOrder(t, events, P) /\ Given(t, g, events, o)
  BY <1>2, <1>3, TransactionGiven
<1>5. /\ \A i, j \in DOMAIN o : i < j => Before(o[i].at, o[j].at)
      /\ {o[i].at : i \in {j \in DOMAIN o : o[j].kind # "TokenAccount"}} = P
  BY <1>1, <1>4, OrderGiven
<1>. QED  BY <1>1, <1>2, <1>3, <1>5 DEF EventsInOrder, Of

\* What the properties say of one event.
Owned(t, e) ==
  LET x == InsAt(t, e.at) IN
  /\ e.log = IF LogKind(x) = << >> THEN 0 ELSE x.id
  /\ e.swap.from_amount \in {Zero, <<x.id, "in">>}
  /\ e.swap.to_amount \in {Zero, <<x.id, "out">>}
  /\ Whole(t, x) => e.swap.from_amount # Zero /\ e.swap.to_amount # Zero
SidesRight(t, e) ==
  LET x == InsAt(t, e.at)  s == SidesOf(x) IN
  Whole(t, x) => /\ e.swap.from_mint = Mint(x, s.mint_in)
                 /\ e.swap.to_mint = Mint(x, s.mint_out)

\* A swap that is told has its own parts.
LEMMA ToldOwned ==
  ASSUME NEW t, OnChain(t), NEW e, e.at \in Placed(t),
         Told(e, InsAt(t, e.at), t.outer[e.at[1]].inner, e.at[2])
  PROVE  Owned(t, e) /\ SidesRight(t, e)
<1>1. PICK p \in Placed(t) : p = e.at
  OBVIOUS
<1>2. PICK x : x = InsAt(t, p)
  OBVIOUS
<1>3. PICK list : list = t.outer[p[1]].inner
  OBVIOUS
<1>4. PICK gave, got : gave = Mint(x, SidesOf(x).mint_in) /\ got = Mint(x, SidesOf(x).mint_out)
  OBVIOUS
<1>5. /\ e.log = IF LogKind(x) = << >> THEN 0 ELSE x.id
      /\ IF SidesOf(x) = NoSides THEN e.swap = NoSwap
         ELSE \/ e.swap = Swap(gave, got, <<x.id, "in">>, <<x.id, "out">>)
              \/ /\ list[p[2] + 1].op = "transferCheckedWithFee" /\ p[2] + 1 \in 1..Len(list)
                 /\ e.swap = Swap(Default, got, Zero, <<x.id, "out">>)
  BY <1>1, <1>2, <1>3, <1>4 DEF Told
<1>6. \A fm, tm, fa, ta :
        LET s == Swap(fm, tm, fa, ta) IN
        s.from_mint = fm /\ s.to_mint = tm /\ s.from_amount = fa /\ s.to_amount = ta
  BY DEF Swap
<1>7. <<x.id, "in">> # Zero /\ <<x.id, "out">> # Zero
  BY DEF Zero
<1>8. CASE SidesOf(x) = NoSides
  <2>1. e.swap.from_amount = Zero /\ e.swap.to_amount = Zero /\ ~Whole(t, x)
    BY <1>5, <1>8 DEF NoSwap, Whole
  <2>. QED  BY <1>1, <1>2, <1>5, <2>1 DEF Owned, SidesRight
<1>9. CASE SidesOf(x) # NoSides /\ e.swap = Swap(gave, got, <<x.id, "in">>, <<x.id, "out">>)
  <2>1. /\ e.swap.from_mint = gave /\ e.swap.to_mint = got
        /\ e.swap.from_amount = <<x.id, "in">> /\ e.swap.to_amount = <<x.id, "out">>
    BY <1>6, <1>9
  <2>. QED  BY <1>1, <1>2, <1>4, <1>5, <1>7, <2>1 DEF Owned, SidesRight
<1>10. CASE /\ SidesOf(x) # NoSides
            /\ list[p[2] + 1].op = "transferCheckedWithFee" /\ p[2] + 1 \in 1..Len(list)
            /\ e.swap = Swap(Default, got, Zero, <<x.id, "out">>)
  <2>1. e.swap.from_amount = Zero /\ e.swap.to_amount = <<x.id, "out">>
    BY <1>6, <1>10
  <2>2. p[1] \in DOMAIN t.outer
    BY DEF Placed
  <2>3. IsSeq(list)
    BY <1>3, <2>2 DEF OnChain
  <2>4. DOMAIN list = 1..Len(list)
    BY <2>3, OwnSeq DEF IsSeq
  <2>5. PICK i : i = p[2] + 1
    OBVIOUS
  <2>6. i \in DOMAIN t.outer[p[1]].inner /\ t.outer[p[1]].inner[i].op = "transferCheckedWithFee"
    BY <1>3, <1>10, <2>4, <2>5
  <2>7. ~Whole(t, x)
    BY <2>2, <2>6 DEF Whole, WithFees
  <2>. QED  BY <1>1, <1>2, <1>5, <2>1, <2>7 DEF Owned, SidesRight
<1>. QED  BY <1>5, <1>8, <1>9, <1>10

\* What is given, event by event.
LEMMA PartsKept ==
  ASSUME NEW t \in Transactions, parse_grpc_transaction(t)
  PROVE  OwnParts' /\ ReadsRight'
<1>1. OnChain(t) /\ tx' = [kind |-> "transaction", t |-> t]
  BY TransactionGiven
<1>2. PICK o : o = out'
  OBVIOUS
<1>3. PICK P, g, events : InOrder(t, events, P) /\ Given(t, g, events, o)
  BY <1>2, TransactionGiven
<1>4. ASSUME NEW i \in DOMAIN o
      PROVE  /\ o[i].kind # "panic"
             /\ "swap" \in DOMAIN o[i] => Owned(t, o[i]) /\ SidesRight(t, o[i])
  <2>1. PICK e : e = o[i]
    OBVIOUS
  <2>2. /\ e.kind # "panic"
        /\ "swap" \in DOMAIN e =>
             /\ e.at \in Placed(t)
             /\ Told(e, InsAt(t, e.at), t.outer[e.at[1]].inner, e.at[2])
    BY <1>3, <2>1, PartsGiven
  <2>. QED  BY <1>1, <2>1, <2>2, ToldOwned
<1>5. OwnParts'
  BY <1>1, <1>2, <1>4 DEF OwnParts, Swaps, Owned
<1>6. ReadsRight'
  BY <1>1, <1>2, <1>4 DEF ReadsRight, Swaps, SidesRight
<1>. QED  BY <1>5, <1>6

\* The marks of what is given.
LEMMA MarksKept ==
  ASSUME NEW t \in Transactions, parse_grpc_transaction(t)
  PROVE  DevMarked'
<1>1. tx' = [kind |-> "transaction", t |-> t]
  BY TransactionGiven
<1>2. PICK o : o = out'
  OBVIOUS
<1>3. PICK P, g, events : InOrder(t, events, P) /\ Given(t, g, events, o)
  BY <1>2, TransactionGiven
<1>4. ASSUME NEW j \in DOMAIN o, o[j].kind \in TradeKinds, OneToken(o, j)
      PROVE  RightMark(o, j)
  BY <1>3, <1>4, DevGiven
<1>5. Creates' = CreatesIn(o)
  BY <1>2 DEF Creates, CreatesIn, CreateKinds
<1>6. ASSUME NEW j \in DOMAIN o, o[j].kind \in TradeKinds
      PROVE  LET made == {i \in Creates' : i < j /\ o[i].prog = o[j].prog} IN
             (Cardinality(made) <= 1 /\ \A i \in Creates' : o[i].prog = o[j].prog)
               => /\ (\E i \in made : o[i].creator = Stake(o[j]) /\ Stake(o[j]) # "default")
                       => o[j].dev
                  /\ o[j].dev => \E i \in made : Developers(o[i]) \cap Trader(o[j]) # {}
  BY <1>4, <1>5, <1>6 DEF OneToken, RightMark, MadeIn
<1>. QED  BY <1>2, <1>6 DEF DevMarked, Swaps, TradeKinds

-----------------------------------------------------------------------------
(* The other steps call the callback for no transaction, or not at all.          *)

StreamInv == EventsInOrder /\ OwnParts /\ ReadsRight /\ DevMarked

\* Nothing is said of what is not a transaction.
LEMMA OtherKinds ==
  ASSUME tx'.kind # "transaction"
  PROVE  StreamInv'
BY DEF StreamInv, EventsInOrder, OwnParts, ReadsRight, DevMarked, Of

\* The first state calls nobody.
LEMMA StreamStarts == StreamInit => StreamInv
BY DEF StreamInit, ParserInit, Nought, StreamInv, EventsInOrder, OwnParts, ReadsRight,
       DevMarked, Of

\* Every step keeps all four.
LEMMA StreamKeeps == StreamInv /\ [StreamNext]_streamVars => StreamInv'
<1>. SUFFICES ASSUME StreamInv, [StreamNext]_streamVars PROVE StreamInv'
  OBVIOUS
<1>1. ASSUME UNCHANGED parserVars PROVE StreamInv'
  BY <1>1 DEF parserVars, StreamInv, EventsInOrder, OwnParts, ReadsRight, DevMarked, Of,
              Swaps, Creates
<1>2. ASSUME NEW g \in Streams, Message(g) PROVE StreamInv'
  <2>1. ASSUME NEW t \in Transactions, parse_grpc_transaction(t) PROVE StreamInv'
    BY <2>1, OrderKept, PartsKept, MarksKept DEF StreamInv
  <2>2. ASSUME NEW a \in Accounts, AccountUpdate(a, closure[g]) PROVE StreamInv'
    <3>1. tx'.kind # "transaction"
      BY <2>2 DEF AccountUpdate
    <3>. QED  BY <3>1, OtherKinds
  <2>3. ASSUME BlockMeta PROVE StreamInv'
    <3>1. tx'.kind # "transaction"
      BY <2>3 DEF BlockMeta
    <3>. QED  BY <3>1, OtherKinds
  <2>. QED  BY <1>2, <2>1, <2>2, <2>3 DEF Message
<1>3. ASSUME NEW t \in Transactions, process_shred_transaction(t) PROVE StreamInv'
  <2>1. tx'.kind # "transaction"
    BY <1>3 DEF process_shred_transaction
  <2>. QED  BY <2>1, OtherKinds
<1>4. ASSUME Done PROVE StreamInv'
  <2>1. tx'.kind # "transaction"
    BY <1>4 DEF Done, Nought
  <2>. QED  BY <2>1, OtherKinds
<1>5. CASE UNCHANGED streamVars
  BY <1>1, <1>5 DEF streamVars
<1>6. CASE StreamNext
  BY <1>1, <1>2, <1>3, <1>4, <1>6 DEF StreamNext, StreamTask, Shred
<1>. QED  BY <1>5, <1>6

-----------------------------------------------------------------------------
\* All four at once.
LEMMA StreamInvHolds == StreamSpec => []StreamInv
<1>. QED  BY StreamStarts, StreamKeeps, PTL DEF StreamSpec

\* The callback sees a transaction's events in the order its instructions ran, each
\* wanted instruction once, and the balances last
\* (parse_instruction_events_from_grpc_transaction's interleaved loops).
THEOREM EventsOrdered == StreamSpec => []EventsInOrder
<1>1. StreamInv => EventsInOrder
  BY DEF StreamInv
<1>. QED  BY <1>1, StreamInvHolds, PTL

\* An event's log and amounts are those of its own call (the search for the log and for
\* the transfers starts behind the instruction).
THEOREM PartsOwn == StreamSpec => []OwnParts
<1>1. StreamInv => OwnParts
  BY DEF StreamInv
<1>. QED  BY <1>1, StreamInvHolds, PTL

\* No parser indexes past what it was given, and the mints of a swap's sides are those
\* of its accounts (the account positions of every protocol's parser).
THEOREM ReadRight == StreamSpec => []ReadsRight
<1>1. StreamInv => ReadsRight
  BY DEF StreamInv
<1>. QED  BY <1>1, StreamInvHolds, PTL

\* A trade is marked as the developer's when it is one's (GlobalState, whatever batch of
\* signatures a cleanup removes).
THEOREM DevsMarked == StreamSpec => []DevMarked
<1>1. StreamInv => DevMarked
  BY DEF StreamInv
<1>. QED  BY <1>1, StreamInvHolds, PTL
=============================================================================
