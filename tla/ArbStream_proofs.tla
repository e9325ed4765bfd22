---------------------------- MODULE ArbStream_proofs ----------------------------
(* What the scanner has in hand, and lemmas on the channels between the stages, for *)
(* the proofs about the two compositions; and the arithmetic of the arrays the      *)
(* scanner looks up.                                                                *)
EXTENDS ArbStream, TLAPS

\* A handler is one of a pool's account.
Handlers == [of : {w \in Arrivals : w.part = "account"}, said : BOOLEAN]

\* What waits for the scanner, what it has in hand and what the stream will bring are
\* pools, and the one being compared is not compared with itself.
TaskTyped ==
  /\ feed \in Seq(Arrivals) /\ updates \in Seq(Pools)
  /\ arriving \subseteq Handlers
  /\ task = [batch |-> task.batch, trig |-> task.trig, a |-> task.a, todo |-> task.todo]
  /\ task.batch \in Seq(Pools) /\ task.todo \subseteq Pools
  /\ task.todo # {} => task.trig \in Pools \ task.todo

-----------------------------------------------------------------------------
(* Lemmas on channels.                                                        *)

\* What a channel is made of: a longer one has one element more at its end, and is one
\* of what it held and what was offered.
LEMMA OfferedTo ==
  ASSUME NEW S, NEW chan \in Seq(S), NEW cap, NEW x
  PROVE  /\ Offered(chan, cap, x) \in Seq(S \cup {x})
         /\ Len(Offered(chan, cap, x)) > Len(chan) =>
              Offered(chan, cap, x)[Len(Offered(chan, cap, x))] = x
  BY DEF Offered

\* A sequence over some set is one over what it holds.
LEMMA OverRange == ASSUME NEW S, NEW s \in Seq(S) PROVE s \in Seq(Range(s))
  BY DEF Range

\* What is received makes the channel shorter.
LEMMA Received ==
  ASSUME NEW S, NEW s \in Seq(S), s # <<>>
  PROVE  Tail(s) \in Seq(S) /\ Len(Tail(s)) < Len(s) /\ Head(s) \in S
  OBVIOUS

\* A batch and what it leaves.
LEMMA Parted ==
  ASSUME NEW S, NEW s \in Seq(S), NEW n \in 0..Len(s)
  PROVE  SubSeq(s, 1, n) \in Seq(S) /\ SubSeq(s, n + 1, Len(s)) \in Seq(S)
  OBVIOUS

-----------------------------------------------------------------------------
(* The scanner and the stream.                                                *)

\* What the scanner takes in hand was an update, and is compared with other pools of
\* its token.
LEMMA ScannerTyped ==
  ASSUME TaskTyped, ScannerStep, UNCHANGED <<feed, arriving>> PROVE TaskTyped'
  <1>1. CASE TakeBatch
    <2> DEFINE n == IF Len(updates) < BatchMax THEN Len(updates) ELSE BatchMax
    <2>1. n \in 0..Len(updates)
      BY ScannerAssumption DEF TaskTyped
    <2>2. /\ task' = [Resting EXCEPT !.batch = SubSeq(updates, 1, n)]
          /\ updates' = SubSeq(updates, n + 1, Len(updates))
      BY <1>1 DEF TakeBatch
    <2>3. SubSeq(updates, 1, n) \in Seq(Pools) /\ SubSeq(updates, n + 1, Len(updates)) \in Seq(Pools)
      BY <2>1, Parted DEF TaskTyped
    <2>. HIDE DEF n
    <2>. QED
      BY <2>2, <2>3 DEF TaskTyped, Resting
  <1>2. CASE Begin
    <2> DEFINE p == Head(task.batch)
               rest == Tail(task.batch)
               others == SameToken(cache[p]) \ {p}
    <2>1. p \in Pools /\ rest \in Seq(Pools) /\ others \subseteq Pools \ {p}
      BY <1>2, Received DEF TaskTyped, Begin, SameToken
    <2>2. \/ task' = [batch |-> rest, trig |-> p, a |-> cache[p], todo |-> others]
          \/ task' = [task EXCEPT !.batch = rest]
      BY <1>2 DEF Begin
    <2>3. UNCHANGED updates
      BY <1>2 DEF Begin
    <2>. HIDE DEF p, rest, others
    <2>. QED
      BY <2>1, <2>2, <2>3, SMTT(40) DEF TaskTyped
  <1>3. ASSUME NEW q \in Pools, Compare(q) PROVE TaskTyped'
    <2>1. \/ task' = [Resting EXCEPT !.batch = task.batch]
          \/ task' = [task EXCEPT !.todo = @ \ {q}]
      BY <1>3 DEF Compare
    <2>2. UNCHANGED updates
      BY <1>3 DEF Compare
    <2>3. q \in task.todo
      BY <1>3 DEF Compare
    <2>. QED
      BY <2>1, <2>2, <2>3 DEF TaskTyped, Resting
  <1>4. CASE Clean
    BY <1>4 DEF TaskTyped, Clean
  <1>. QED
    BY <1>1, <1>2, <1>3, <1>4 DEF ScannerStep, Handle

\* The stream's updates name pools.
LEMMA StreamTyped ==
  ASSUME TaskTyped, Stream PROVE TaskTyped'
  <1>1. UNCHANGED task
    BY DEF Stream, StreamWrites, StreamBalances, StreamMeets, StreamInserts, Shown, StreamShows,
           scanVars
  <1>2. ASSUME feed # <<>> PROVE Head(feed) \in Arrivals /\ Tail(feed) \in Seq(Arrivals)
    BY <1>2, Received DEF TaskTyped
  <1>3. \A w \in Arrivals : w.pool \in Pools
    BY DEF Arrivals
  <1>4. feed' \in Seq(Arrivals)
    BY <1>2 DEF TaskTyped, Stream, StreamWrites, StreamBalances, StreamMeets, StreamInserts,
                Shown, StreamShows, Brings
  <1>5. arriving' \subseteq Handlers
    <2>1. CASE UNCHANGED arriving
      BY <2>1 DEF TaskTyped
    <2>2. CASE StreamMeets
      <3>1. [of |-> Head(feed), said |-> FALSE] \in Handlers
        BY <1>2, <2>2 DEF StreamMeets, Brings, Handlers
      <3>. QED
        BY <2>2, <3>1 DEF StreamMeets, TaskTyped
    <2>3. ASSUME NEW h \in arriving, StreamInserts(h) PROVE arriving' \subseteq Handlers
      <3>1. [h EXCEPT !.said = TRUE] \in Handlers
        BY DEF TaskTyped, Handlers
      <3>. QED
        BY <2>3, <3>1 DEF StreamInserts, TaskTyped
    <2>4. CASE Shown
      BY <2>4 DEF Shown, StreamShows, TaskTyped
    <2>. QED
      BY <2>1, <2>2, <2>3, <2>4 DEF Stream, StreamWrites, StreamBalances
  <1>6. updates' \in Seq(Pools)
    <2>1. ASSUME NEW p \in Pools, updates' = Offered(updates, UpdateCap, p)
          PROVE  updates' \in Seq(Pools)
      <3>1. updates' \in Seq(Pools \cup {p}) /\ Pools \cup {p} = Pools
        BY <2>1, OfferedTo DEF TaskTyped
      <3>. QED
        BY <3>1
    <2>2. UNCHANGED updates \/ \E p \in Pools : updates' = Offered(updates, UpdateCap, p)
      <3>1. ASSUME NEW h \in arriving PROVE h.of.pool \in Pools
        BY <1>3 DEF TaskTyped, Handlers
      <3>. QED
        BY <1>2, <1>3, <3>1 DEF Stream, StreamWrites, StreamBalances, StreamMeets, StreamInserts,
                                Shown, StreamShows, Brings
    <2>. QED
      BY <2>1, <2>2 DEF TaskTyped
  <1>. QED
    BY <1>1, <1>4, <1>5, <1>6 DEF TaskTyped

-----------------------------------------------------------------------------
(* The array arithmetic of the decoders, for every tick, spacing and array size.  *)

\* Rust's quotient and remainder: what the division loses has the dividend's sign.
LEMMA TruncParts ==
  ASSUME NEW a \in Int, NEW b \in Int, b > 0
  PROVE  /\ TruncDiv(a, b) \in Int /\ TruncRem(a, b) \in Int
         /\ a = b * TruncDiv(a, b) + TruncRem(a, b)
         /\ a >= 0 => 0 <= TruncRem(a, b) /\ TruncRem(a, b) < b
         /\ a < 0 => -b < TruncRem(a, b) /\ TruncRem(a, b) <= 0
<1>1. CASE a >= 0
  <2>1. /\ a \div b \in Int /\ a = b * (a \div b) + (a % b)
        /\ 0 <= a % b /\ a % b < b
    OBVIOUS
  <2>2. TruncDiv(a, b) = a \div b
    BY <1>1 DEF TruncDiv
  <2>3. TruncRem(a, b) = a - b * (a \div b)
    BY <2>2 DEF TruncRem
  <2>. DEFINE q == a \div b
              r == a % b
              p == b * q
  <2>4. p \in Int /\ r \in Int /\ a = p + r
    BY <2>1
  <2>5. TruncRem(a, b) = r
    BY <2>3, <2>4
  <2>. QED  BY <1>1, <2>1, <2>2, <2>5
<1>2. CASE a < 0
  <2>. DEFINE c == -a
              q == c \div b
              r == c % b
              p == b * q
  <2>1. c \in Int /\ q \in Int /\ r \in Int /\ p \in Int /\ c = p + r /\ 0 <= r /\ r < b
    OBVIOUS
  <2>2. TruncDiv(a, b) = -q
    BY <1>2 DEF TruncDiv
  <2>3. b * (-q) = -p
    BY <2>1
  <2>4. TruncRem(a, b) = -r
    BY <2>1, <2>2, <2>3 DEF TruncRem
  <2>. QED  BY <1>2, <2>1, <2>2, <2>3, <2>4
<1>. QED  BY <1>1, <1>2

\* tick_array_start_index: the array that starts there holds the tick, whatever its
\* sign, and starts at a multiple of its length.
THEOREM StartHoldsTick ==
  ASSUME NEW tick \in Int, NEW span \in Int, span > 0
  PROVE  /\ StartIndex(tick, span) \in Int
         /\ Inside(tick, StartIndex(tick, span), span)
         /\ \E k \in Int : StartIndex(tick, span) = k * span
<1>. DEFINE q == TruncDiv(tick, span)
            r == TruncRem(tick, span)
            p == q * span
<1>1. /\ q \in Int /\ r \in Int /\ p \in Int /\ tick = p + r
      /\ tick >= 0 => 0 <= r /\ r < span
      /\ tick < 0 => -span < r /\ r <= 0
  BY TruncParts
<1>. HIDE DEF q, r
<1>2. CASE tick < 0 /\ r # 0
  <2>1. StartIndex(tick, span) = p - span
    BY <1>2 DEF StartIndex, q, r
  <2>2. p - span = (q - 1) * span
    BY <1>1
  <2>3. q - 1 \in Int
    BY <1>1
  <2>4. Inside(tick, p - span, span)
    BY <1>1, <1>2 DEF Inside
  <2>5. \E k \in Int : p - span = k * span
    <3>. WITNESS q - 1 \in Int
    <3>. QED  BY <2>2
  <2>. HIDE DEF p
  <2>. QED  BY <1>1, <2>1, <2>4, <2>5
<1>3. CASE ~(tick < 0 /\ r # 0)
  <2>1. StartIndex(tick, span) = p
    BY <1>3 DEF StartIndex, q, r
  <2>2. Inside(tick, p, span)
    BY <1>1, <1>3 DEF Inside
  <2>. QED  BY <1>1, <2>1, <2>2
<1>. QED  BY <1>2, <1>3

\* bin_id_to_bin_array_index and decode_bin_array agree: a bin is among the bins its
\* array decodes to.
THEOREM BinInItsArray ==
  ASSUME NEW bin \in Int, NEW size \in Int, size > 0
  PROVE  bin \in BinsOf(BinArrayIndex(bin, size), size)
<1>. DEFINE q == TruncDiv(bin, size)
            r == TruncRem(bin, size)
            p == q * size
<1>1. /\ q \in Int /\ r \in Int /\ p \in Int /\ bin = p + r
      /\ bin >= 0 => 0 <= r /\ r < size
      /\ bin < 0 => -size < r /\ r <= 0
  BY TruncParts
<1>. HIDE DEF q, r
<1>2. CASE bin < 0 /\ r # 0
  <2>1. BinArrayIndex(bin, size) = q - 1
    BY <1>2 DEF BinArrayIndex, q, r
  <2>2. (q - 1) * size = p - size
    BY <1>1
  <2>. QED  BY <1>1, <1>2, <2>1, <2>2 DEF BinsOf
<1>3. CASE ~(bin < 0 /\ r # 0)
  <2>1. BinArrayIndex(bin, size) = q
    BY <1>3 DEF BinArrayIndex, q, r
  <2>. QED  BY <1>1, <1>3, <2>1 DEF BinsOf
<1>. QED  BY <1>2, <1>3

\* The test of update_math is on the safe side for every DEX: with the spacing it is
\* given and arrays at least `size` ticks long, a tick it takes to be covered lies in
\* a loaded array.
THEOREM CoveredSound ==
  ASSUME NEW tick \in Int, NEW starts \in SUBSET Int, NEW spacing \in Nat,
         NEW size \in Nat, NEW long \in Nat, size <= long,
         CoveredBy(tick, starts, spacing, size)
  PROVE  \E s \in starts : Inside(tick, s, spacing * long)
<1>1. PICK s \in starts : Inside(tick, s, spacing * size)
  BY DEF CoveredBy
<1>2. s \in Int
  OBVIOUS
<1>3. spacing * size <= spacing * long
  OBVIOUS
<1>4. spacing * size \in Int /\ spacing * long \in Int
  OBVIOUS
<1>. QED  BY <1>1, <1>2, <1>3, <1>4 DEF Inside
===============================================================================
