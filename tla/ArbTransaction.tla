---------------------------- MODULE ArbTransaction ----------------------------
(* One opportunity from the executor to the on-chain program: TxBuilder          *)
(* (executor/src/tx_builder.rs) packs the hops into instruction bytes and one    *)
(* flat account list, and wraps the arbitrage in a flash loan; the program       *)
(* (program/src) parses the bytes, cuts the account list up again, one slice per  *)
(* hop, and checks the profit.  Nothing but numbers ties the two sides together.  *)
EXTENDS Integers, Sequences, FiniteSets

CONSTANTS
  Snapshots,  \* pool snapshots a route can be made of
  MaxHops,    \* hops of the longest route (4 in the code)
  Variants,   \* the transaction variants built
  Profits,    \* expected profits
  Outcomes,   \* change of the base token balance on chain
  U32         \* 2^32: values of the min_profit field

Dexes == {"RaydiumAmmV4", "RaydiumCpmm", "RaydiumClmm", "PumpFun", "PumpSwap", "Bonk",
          "MeteoraDammV2", "MeteoraDlmm", "OrcaWhirlpool"}

ASSUME TransactionAssumption ==
  /\ \A s \in Snapshots : /\ s.dex \in Dexes
                          /\ s.ab \in BOOLEAN /\ s.t22 \in BOOLEAN
                          /\ s.arrays \in Seq(Nat)
  /\ MaxHops \in 2..4
  /\ Variants \subseteq {"jito", "astralane", "swqos"}
  /\ Profits \subseteq Nat /\ Outcomes \subseteq Int /\ U32 \in Nat \ {0}

VARIABLES
  stage,     \* where the opportunity is
  route,     \* pool_snapshots, first hop first
  variant, test, expected,  \* transaction variant, test_mode, expected_profit
  bytes,     \* instruction data
  minProfit, \* the number its last four bytes hold
  accounts,  \* account metas: <<hop, k>> is the k-th of that hop, 0 the rest
  ixs,       \* the instructions of the transaction
  endIndex,  \* the end_index argument of start_flashloan
  parsed,    \* SwapInstruction
  slices,    \* account slices handed to the DEX calls so far
  amounts,   \* where each of those calls took its amount from
  profit     \* balance change found by the program

vars == <<stage, route, variant, test, expected, bytes, minProfit, accounts, ixs,
          endIndex, parsed, slices, amounts, profit>>

\* DexType as u8, the same in engine and program.
Code == [RaydiumAmmV4 |-> 0, RaydiumCpmm |-> 1, RaydiumClmm |-> 2, PumpFun |-> 3,
         PumpSwap |-> 4, Bonk |-> 5, MeteoraDammV2 |-> 6, MeteoraDlmm |-> 7,
         OrcaWhirlpool |-> 8]

Nothing == [hops |-> <<>>, amount |-> FALSE, min |-> 0]

Init ==
  /\ stage = "route" /\ route = <<>>
  /\ variant \in Variants /\ test \in BOOLEAN /\ expected \in Profits
  /\ bytes = <<>> /\ minProfit = 0 /\ accounts = <<>> /\ ixs = <<>> /\ endIndex = 0
  /\ parsed = Nothing /\ slices = <<>> /\ amounts = <<>> /\ profit = 0

-----------------------------------------------------------------------------
(* TxBuilder.                                                                 *)

AddHop(s) ==
  /\ stage = "route" /\ Len(route) < MaxHops
  /\ route' = Append(route, s)
  /\ UNCHANGED <<stage, variant, test, expected, bytes, minProfit, accounts, ixs,
                 endIndex, parsed, slices, amounts, profit>>

AtMost(n, k) == IF n < k THEN n ELSE k

\* The first three different tick arrays are used.
UniqueArrays(s) == AtMost(Cardinality({s.arrays[i] : i \in DOMAIN s.arrays}), 3)

\* Mutant: the tick array that is part of the base is counted as extra.
HopExtraAll(s) ==
  CASE s.dex = "RaydiumClmm" /\ s.arrays # <<>> -> UniqueArrays(s)
    [] s.dex = "MeteoraDlmm" -> AtMost(Len(s.arrays), 3)
    [] OTHER -> 0

\* hop_extra_accounts.
HopExtra(s) ==
  CASE s.dex = "RaydiumClmm" /\ s.arrays # <<>> -> UniqueArrays(s) - 1
    [] s.dex = "MeteoraDlmm" -> AtMost(Len(s.arrays), 3)
    [] OTHER -> 0

Bit(b) == IF b THEN 1 ELSE 0

\* encode_instruction_data.  Bytes above 255 stand for the bytes of the two numbers.
AmountBytes == [i \in 1..8 |-> 255 + i]
ProfitBytes == [i \in 1..4 |-> 263 + i]
Disc(n)     == IF test THEN n + 1 ELSE n - 2
\* Mutant: the token program bits of the two hops are swapped.
EndFlagsSwapped(buy, sell) ==
  Bit(buy.ab) + 2 * Bit(sell.ab) + 4 * Bit(sell.t22) + 8 * Bit(buy.t22)
    + 16 * (HopExtra(buy) % 4) + 64 * (HopExtra(sell) % 4)

EndFlags(buy, sell) ==
  Bit(buy.ab) + 2 * Bit(sell.ab) + 4 * Bit(buy.t22) + 8 * Bit(sell.t22)
    + 16 * (HopExtra(buy) % 4) + 64 * (HopExtra(sell) % 4)
MidBytes(s) == <<Code[s.dex], Bit(s.ab) + 2 * Bit(s.t22) + 4 * (HopExtra(s) % 4)>>

EncodedData ==
  LET n == Len(route)
      mids == CASE n = 2 -> <<>>
                [] n = 3 -> MidBytes(route[2])
                [] n = 4 -> MidBytes(route[2]) \o MidBytes(route[3])
  IN <<Disc(n), Code[route[1].dex], Code[route[n].dex], EndFlags(route[1], route[n])>>
       \o mids \o AmountBytes \o ProfitBytes

\* The cast `as u32` keeps the low bits.
EncodedMinProfit == ((expected * 80) \div 100) % U32

\* The number of accounts build_hop_accounts makes; 0 when arrays are missing.
BuiltCount(s) ==
  CASE s.dex = "RaydiumAmmV4"  -> 9
    [] s.dex = "RaydiumCpmm"   -> 14
    [] s.dex = "RaydiumClmm"   -> IF s.arrays = <<>> THEN 0 ELSE 9 + UniqueArrays(s)
    [] s.dex = "PumpFun"       -> 16
    [] s.dex = "PumpSwap"      -> 24
    [] s.dex = "Bonk"          -> 17
    [] s.dex = "MeteoraDammV2" -> 14
    [] s.dex = "MeteoraDlmm"   -> IF s.arrays = <<>> THEN 0 ELSE 16 + Len(s.arrays)
    [] s.dex = "OrcaWhirlpool" -> IF s.arrays = <<>> THEN 0 ELSE 15

\* Where among them, from 0, the user's account of the input mint is; PumpFun's list
\* has no account of the quote mint, which is the input of a b-to-a swap.
NoInput == -1
InputAt(s) ==
  CASE s.dex = "RaydiumAmmV4"  -> 5
    [] s.dex = "RaydiumCpmm"   -> 4
    [] s.dex = "RaydiumClmm"   -> 3
    [] s.dex = "PumpFun"       -> IF s.ab THEN 5 ELSE NoInput
    [] s.dex = "PumpSwap"      -> IF s.ab THEN 5 ELSE 6
    [] s.dex = "Bonk"          -> IF s.ab THEN 6 ELSE 7
    [] s.dex = "MeteoraDammV2" -> 2
    [] s.dex = "MeteoraDlmm"   -> 4
    [] s.dex = "OrcaWhirlpool" -> IF s.ab THEN 7 ELSE 9

HopAccounts(i) == [k \in 1..BuiltCount(route[i]) |-> <<i, k>>]
Others(n)      == [k \in 1..n |-> <<0, k>>]

\* build_account_metas: header, intermediate tokens, hops, DEX programs.
BuiltAccounts ==
  LET n == Len(route)
      hops == [i \in 1..4 |-> IF i <= n THEN HopAccounts(i) ELSE <<>>]
  IN Others(8 + 3 * (n - 1)) \o hops[1] \o hops[2] \o hops[3] \o hops[4]
       \o Others(Cardinality({route[i].dex : i \in 1..n}))

\* The instruction list; every variant starts with two compute budget instructions and
\* ends with its tip (optional for SwQoS, where nothing comes after it).
Repeat(x, n) == [i \in 1..n |-> x]
Instructions(atas, loan) ==
  <<"cu_limit", "cu_price">> \o Repeat("ata", atas)
    \o (IF loan THEN <<"start", "borrow", "arb", "repay", "end", "tip">>
        ELSE <<"arb", "tip">>)

\* Mutant: the repayment is not counted.
FlashloanEndShort(atas) == (IF variant = "jito" THEN 1 ELSE 2) + atas + 3

\* build_flashloan_ixs: the index of the end instruction, counted from 0.
FlashloanEnd(atas) == (IF variant = "jito" THEN 1 ELSE 2) + atas + 4

\* build.  The base mint and every different intermediate mint gets a token account;
\* there is a flash loan when MarginFi is configured and has a bank of the base mint.
Build ==
  /\ stage = "route" /\ Len(route) >= 2
  /\ IF \E i \in 1..Len(route) : BuiltCount(route[i]) = 0
     THEN /\ stage' = "skipped"
          /\ UNCHANGED <<bytes, minProfit, accounts, ixs, endIndex>>
     ELSE /\ stage' = "sent"
          /\ bytes' = EncodedData /\ minProfit' = EncodedMinProfit
          /\ accounts' = BuiltAccounts
          /\ \E atas \in 1..Len(route), loan \in BOOLEAN :
               /\ ixs' = Instructions(atas, loan)
               /\ endIndex' = IF loan THEN FlashloanEnd(atas) ELSE 0
  /\ UNCHANGED <<route, variant, test, expected, parsed, slices, amounts, profit>>

-----------------------------------------------------------------------------
(* The program.                                                               *)

\* base_pool_account_count.
BaseCount == [RaydiumAmmV4 |-> 9, RaydiumCpmm |-> 14, RaydiumClmm |-> 10, PumpFun |-> 16,
              PumpSwap |-> 24, Bonk |-> 17, MeteoraDammV2 |-> 14, MeteoraDlmm |-> 16,
              OrcaWhirlpool |-> 15]

DexOf(c) == CHOOSE d \in Dexes : Code[d] = c
\* flags >> k
Shifted(flags, k) == flags \div <<1, 2, 4, 8, 16, 32, 64>>[k + 1]
BitOf(flags, k)   == Shifted(flags, k) % 2 = 1
TwoBits(flags, k) == Shifted(flags, k) % 4
Hop(d, flags, ab, t22, ex) ==
  [dex |-> DexOf(d), ab |-> BitOf(flags, ab), t22 |-> BitOf(flags, t22),
   extra |-> TwoBits(flags, ex)]

\* process_instruction's dispatch: hops and test mode from the discriminator.
HopCount(disc) == (disc % 3) + 2
IsTest(disc)   == disc >= 3

\* SwapInstruction::parse, on the bytes after the discriminator.
ParsedInstruction ==
  LET n    == HopCount(bytes[1])
      data == Tail(bytes)
      buy  == Hop(data[1], data[3], 0, 2, 4)
      sell == Hop(data[2], data[3], 1, 3, 6)
      mid(k) == Hop(data[k], data[k + 1], 0, 1, 2)
      off  == 2 * n - 1
  IN [hops   |-> CASE n = 2 -> <<buy, sell>>
                   [] n = 3 -> <<buy, mid(4), sell>>
                   [] n = 4 -> <<buy, mid(4), mid(6), sell>>,
      amount |-> SubSeq(data, off + 1, off + 8) = AmountBytes,
      min    |-> IF SubSeq(data, off + 9, off + 12) = ProfitBytes THEN minProfit ELSE -1]

Parse ==
  /\ stage = "sent"
  /\ IF Len(bytes) - 1 < 2 * HopCount(bytes[1]) + 11
     THEN stage' = "error" /\ UNCHANGED parsed
     ELSE stage' = "swap" /\ parsed' = ParsedInstruction
  /\ UNCHANGED <<route, variant, test, expected, bytes, minProfit, accounts, ixs,
                 endIndex, slices, amounts, profit>>

SliceLen(h) == BaseCount[h.dex] + h.extra

\* Mutant: four accounts for an intermediate token.
StartOfFour ==
  LET n == Len(parsed.hops)
      len(i) == IF i <= Len(slices) THEN SliceLen(parsed.hops[i]) ELSE 0
  IN 8 + 4 * (n - 1) + len(1) + len(2) + len(3)

\* pool_accounts_start of the hop after the ones in slices.
Start ==
  LET n == Len(parsed.hops)
      len(i) == IF i <= Len(slices) THEN SliceLen(parsed.hops[i]) ELSE 0
  IN 8 + 3 * (n - 1) + len(1) + len(2) + len(3)

\* Mutant: one position whatever the direction.
ReadAtOneWay(h) ==
  CASE h.dex = "RaydiumAmmV4"  -> 5
    [] h.dex = "RaydiumCpmm"   -> 4
    [] h.dex = "RaydiumClmm"   -> 3
    [] h.dex = "MeteoraDammV2" -> 2
    [] h.dex = "MeteoraDlmm"   -> 4
    [] h.dex = "OrcaWhirlpool" -> 7
    [] OTHER -> 5

\* dispatch_swap: where the balance is read that a hop swaps, for all but the first.
ReadAt(h) ==
  CASE h.dex = "RaydiumAmmV4"  -> 5
    [] h.dex = "RaydiumCpmm"   -> 4
    [] h.dex = "RaydiumClmm"   -> 3
    [] h.dex = "PumpFun"       -> 5
    [] h.dex = "PumpSwap"      -> IF h.ab THEN 5 ELSE 6
    [] h.dex = "Bonk"          -> 6
    [] h.dex = "MeteoraDammV2" -> 2
    [] h.dex = "MeteoraDlmm"   -> 4
    [] h.dex = "OrcaWhirlpool" -> IF h.ab THEN 7 ELSE 9

FromArgument == <<0, 0>>

\* One turn of the loop of execute / execute_test.
SwapHop ==
  /\ stage = "swap" /\ Len(slices) < Len(parsed.hops)
  /\ LET h == parsed.hops[Len(slices) + 1]
         end == Start + SliceLen(h) IN
     IF end > Len(accounts)
     THEN stage' = "error" /\ UNCHANGED <<slices, amounts>>
     ELSE /\ slices' = Append(slices, SubSeq(accounts, Start + 1, end))
          /\ amounts' = Append(amounts, IF slices = <<>> THEN FromArgument
                                        ELSE accounts[Start + ReadAt(h) + 1])
          /\ UNCHANGED stage
  /\ UNCHANGED <<route, variant, test, expected, bytes, minProfit, accounts, ixs,
                 endIndex, parsed, profit>>

\* Mutant: a loss reverts, too small a profit does not.
FinishAnyProfit ==
  /\ stage = "swap" /\ Len(slices) = Len(parsed.hops)
  /\ \E delta \in Outcomes :
       /\ profit' = delta
       /\ stage' = IF IsTest(bytes[1]) \/ delta >= 0 THEN "landed" ELSE "reverted"
  /\ UNCHANGED <<route, variant, test, expected, bytes, minProfit, accounts, ixs,
                 endIndex, parsed, slices, amounts>>

\* The end of execute (a loss or too small a profit reverts) and of execute_test.
Finish ==
  /\ stage = "swap" /\ Len(slices) = Len(parsed.hops)
  /\ \E delta \in Outcomes :
       /\ profit' = delta
       /\ stage' = IF IsTest(bytes[1]) \/ (delta >= 0 /\ delta >= parsed.min)
                   THEN "landed" ELSE "reverted"
  /\ UNCHANGED <<route, variant, test, expected, bytes, minProfit, accounts, ixs,
                 endIndex, parsed, slices, amounts>>

Next == (\E s \in Snapshots : AddHop(s)) \/ Build \/ Parse \/ SwapHop \/ Finish

Spec == Init /\ [][Next]_vars

-----------------------------------------------------------------------------
(* Properties.                                                                *)

\* What the program parses is the route: DEX, direction, token program and number of
\* extra accounts of every hop in order, the amount and the profit limit, wherever
\* the number of hops puts them.
HopOf(s) == [dex |-> s.dex, ab |-> s.ab, t22 |-> s.t22, extra |-> HopExtra(s)]
ParsedMatches ==
  stage \in {"swap", "landed", "reverted"} =>
    parsed = [hops |-> [i \in 1..Len(route) |-> HopOf(route[i])],
              amount |-> TRUE, min |-> minProfit]

\* Every DEX call gets the accounts built for its hop, all of them and no others: the
\* counts of the client and of the program agree, hop after hop.
SlicesExact == \A i \in DOMAIN slices : slices[i] = HopAccounts(i)

\* A later hop swaps the balance of the token account its input is in.  PumpFun and
\* Bonk are the exception: their hops read one account whatever the direction, which
\* is the output's when the hop goes from b to a.
OneWay(s) == s.dex \in {"PumpFun", "Bonk"} /\ ~s.ab
AmountFromInput ==
  \A i \in DOMAIN amounts \ {1} :
    OneWay(route[i]) \/ amounts[i] = <<i, InputAt(route[i]) + 1>>

\* The arbitrage never stops half-way for want of accounts or bytes.
NeverShort == stage # "error"

\* A transaction that is not a test lands only without a loss, and with 80% of the
\* profit the engine expected as long as that number fits the field it travels in.
LandedProfit ==
  stage = "landed" /\ ~test =>
    LET limit == (expected * 80) \div 100 IN
    profit >= 0 /\ (limit < U32 => profit >= limit)

\* The index start_flashloan is given is that of the end_flashloan instruction, in
\* the variants other than Jito's: there the compute budget is counted as one
\* instruction and is two.
FlashloanCloses ==
  variant # "jito" => \A i \in DOMAIN ixs : ixs[i] = "start" => ixs[endIndex + 1] = "end"
=============================================================================
