------------------------- MODULE ArbTransaction_proofs -------------------------
(* What the client packs is what the program unpacks, for every set of snapshots,  *)
(* profits and outcomes: the bytes, the slices of the account list, the limit on    *)
(* the profit and the end of the flash loan.                                       *)
EXTENDS ArbTransaction, FiniteSetTheorems, SequenceTheorems, TLAPS

-----------------------------------------------------------------------------
(* Encoding and decoding.                                                     *)

\* Four flags and two counts of two bits share a byte and are told apart.
LEMMA FlagsOfEnds ==
  ASSUME NEW a \in 0..1, NEW b \in 0..1, NEW c \in 0..1, NEW d \in 0..1,
         NEW x \in 0..3, NEW y \in 0..3,
         NEW f, f = a + 2 * b + 4 * c + 8 * d + 16 * x + 64 * y
  PROVE  /\ BitOf(f, 0) <=> a = 1
         /\ BitOf(f, 1) <=> b = 1
         /\ BitOf(f, 2) <=> c = 1
         /\ BitOf(f, 3) <=> d = 1
         /\ TwoBits(f, 4) = x /\ TwoBits(f, 6) = y
  <1>1. /\ Shifted(f, 0) = f /\ Shifted(f, 1) = f \div 2 /\ Shifted(f, 2) = f \div 4
        /\ Shifted(f, 3) = f \div 8 /\ Shifted(f, 4) = f \div 16 /\ Shifted(f, 6) = f \div 64
    BY DEF Shifted
  <1>. QED
    BY <1>1, SMTT(40) DEF BitOf, TwoBits

\* So do two flags and a count.
LEMMA FlagsOfMiddle ==
  ASSUME NEW a \in 0..1, NEW b \in 0..1, NEW x \in 0..3, NEW f, f = a + 2 * b + 4 * x
  PROVE  (BitOf(f, 0) <=> a = 1) /\ (BitOf(f, 1) <=> b = 1) /\ TwoBits(f, 2) = x
  <1>1. Shifted(f, 0) = f /\ Shifted(f, 1) = f \div 2 /\ Shifted(f, 2) = f \div 4
    BY DEF Shifted
  <1>. QED
    BY <1>1 DEF BitOf, TwoBits

\* The codes of two DEXes differ.
LEMMA CodeDecoded ==
  ASSUME NEW d \in Dexes PROVE DexOf(Code[d]) = d
  <1>1. \A e \in Dexes : Code[e] = Code[d] => e = d
    BY DEF Dexes, Code
  <1>. QED
    BY <1>1 DEF DexOf

\* At most three are three at most.
LEMMA Bounded == ASSUME NEW n \in Nat PROVE AtMost(n, 3) \in 0..3
  BY DEF AtMost

\* A pool with tick arrays has at least one, and uses at most three.
LEMMA ArraysCounted ==
  ASSUME NEW s \in Snapshots, s.arrays # <<>>
  PROVE  UniqueArrays(s) \in 1..3
  <1> DEFINE D == DOMAIN s.arrays
             A == {s.arrays[i] : i \in D}
  <1>1. s.arrays \in Seq(Nat) /\ 1 \in D /\ D = 1..Len(s.arrays) /\ Len(s.arrays) \in Nat
    BY TransactionAssumption
  <1>2. IsFiniteSet(D)
    BY <1>1, FS_Interval
  <1>3. IsFiniteSet(A)
    <2>1. s.arrays \in Surjection(D, A)
      BY <1>1 DEF Surjection
    <2>. QED
      BY <1>2, <2>1, FS_Surjection
  <1>4. Cardinality(A) \in Nat /\ Cardinality(A) # 0
    <2>1. A # {}
      BY <1>1
    <2>. HIDE DEF A
    <2>. QED
      BY <1>3, <2>1, FS_CardinalityType, FS_EmptySet
  <1>. HIDE DEF A
  <1>5. UniqueArrays(s) = AtMost(Cardinality(A), 3)
    BY DEF UniqueArrays, A
  <1>. QED
    BY <1>4, <1>5 DEF AtMost

\* No more than three accounts of a hop are extra, so two bits count them.
LEMMA FewExtra ==
  ASSUME NEW s \in Snapshots
  PROVE  HopExtra(s) \in 0..3 /\ HopExtra(s) % 4 = HopExtra(s)
  <1>1. Len(s.arrays) \in Nat
    BY TransactionAssumption
  <1>2. HopExtra(s) \in 0..3
    <2>1. CASE s.dex = "RaydiumClmm" /\ s.arrays # <<>>
      <3>1. HopExtra(s) = UniqueArrays(s) - 1
        BY <2>1 DEF HopExtra
      <3>. QED
        BY <2>1, <3>1, ArraysCounted
    <2>2. CASE s.dex = "MeteoraDlmm"
      <3>1. HopExtra(s) = AtMost(Len(s.arrays), 3)
        BY <2>2 DEF HopExtra
      <3>. QED
        BY <1>1, <3>1, Bounded
    <2>3. CASE ~(s.dex = "RaydiumClmm" /\ s.arrays # <<>>) /\ s.dex # "MeteoraDlmm"
      BY <2>3 DEF HopExtra
    <2>. QED
      BY <2>1, <2>2, <2>3
  <1>. QED
    BY <1>2

\* A snapshot's flags are a hop's when the bits say so.
LEMMA HopIs ==
  ASSUME NEW s \in Snapshots, NEW f, NEW ab, NEW t22, NEW ex,
         BitOf(f, ab) <=> Bit(s.ab) = 1, BitOf(f, t22) <=> Bit(s.t22) = 1,
         TwoBits(f, ex) = HopExtra(s)
  PROVE  Hop(Code[s.dex], f, ab, t22, ex) = HopOf(s)
  <1>1. s.dex \in Dexes /\ s.ab \in BOOLEAN /\ s.t22 \in BOOLEAN
    BY TransactionAssumption
  <1>2. BitOf(f, ab) \in BOOLEAN /\ BitOf(f, t22) \in BOOLEAN
    BY DEF BitOf
  <1>3. (s.ab <=> Bit(s.ab) = 1) /\ (s.t22 <=> Bit(s.t22) = 1)
    BY <1>1 DEF Bit
  <1>4. BitOf(f, ab) = s.ab /\ BitOf(f, t22) = s.t22
    BY <1>1, <1>2, <1>3, Zenon
  <1>5. DexOf(Code[s.dex]) = s.dex
    BY <1>1, CodeDecoded
  <1>. QED
    BY <1>4, <1>5, Zenon DEF Hop, HopOf

\* The byte of the first and the last hop gives both back.
LEMMA EndsDecoded ==
  ASSUME NEW buy \in Snapshots, NEW sell \in Snapshots
  PROVE  /\ Hop(Code[buy.dex], EndFlags(buy, sell), 0, 2, 4) = HopOf(buy)
         /\ Hop(Code[sell.dex], EndFlags(buy, sell), 1, 3, 6) = HopOf(sell)
  <1> DEFINE f == EndFlags(buy, sell)
  <1>1. /\ Bit(buy.ab) \in 0..1 /\ Bit(sell.ab) \in 0..1
        /\ Bit(buy.t22) \in 0..1 /\ Bit(sell.t22) \in 0..1
    BY DEF Bit
  <1>2. /\ HopExtra(buy) \in 0..3 /\ HopExtra(sell) \in 0..3
        /\ f = Bit(buy.ab) + 2 * Bit(sell.ab) + 4 * Bit(buy.t22) + 8 * Bit(sell.t22)
                 + 16 * HopExtra(buy) + 64 * HopExtra(sell)
    BY FewExtra DEF EndFlags
  <1>. HIDE DEF f
  <1>3. /\ BitOf(f, 0) <=> Bit(buy.ab) = 1
        /\ BitOf(f, 1) <=> Bit(sell.ab) = 1
        /\ BitOf(f, 2) <=> Bit(buy.t22) = 1
        /\ BitOf(f, 3) <=> Bit(sell.t22) = 1
        /\ TwoBits(f, 4) = HopExtra(buy) /\ TwoBits(f, 6) = HopExtra(sell)
    BY <1>1, <1>2, FlagsOfEnds
  <1>4. Hop(Code[buy.dex], f, 0, 2, 4) = HopOf(buy)
    BY <1>3, HopIs
  <1>5. Hop(Code[sell.dex], f, 1, 3, 6) = HopOf(sell)
    BY <1>3, HopIs
  <1>. QED
    BY <1>4, <1>5 DEF f

\* The two bytes of a hop between them give it back.
LEMMA MiddleDecoded ==
  ASSUME NEW s \in Snapshots
  PROVE  /\ MidBytes(s) \in Seq(Int) /\ Len(MidBytes(s)) = 2
         /\ Hop(MidBytes(s)[1], MidBytes(s)[2], 0, 1, 2) = HopOf(s)
  <1> DEFINE f == MidBytes(s)[2]
  <1>1. Bit(s.ab) \in 0..1 /\ Bit(s.t22) \in 0..1
    BY DEF Bit
  <1>2. s.dex \in Dexes /\ Code[s.dex] \in Int
    BY TransactionAssumption DEF Dexes, Code
  <1>3. /\ MidBytes(s) \in Seq(Int) /\ Len(MidBytes(s)) = 2 /\ MidBytes(s)[1] = Code[s.dex]
        /\ HopExtra(s) \in 0..3 /\ f = Bit(s.ab) + 2 * Bit(s.t22) + 4 * HopExtra(s)
    BY <1>1, <1>2, FewExtra DEF MidBytes
  <1>. HIDE DEF f
  <1>4. /\ BitOf(f, 0) <=> Bit(s.ab) = 1
        /\ BitOf(f, 1) <=> Bit(s.t22) = 1
        /\ TwoBits(f, 2) = HopExtra(s)
    BY <1>1, <1>3, FlagsOfMiddle
  <1>5. Hop(Code[s.dex], f, 0, 1, 2) = HopOf(s)
    BY <1>4, HopIs
  <1>. QED
    BY <1>3, <1>5 DEF f

\* What a joined sequence holds.
LEMMA Joined ==
  ASSUME NEW S, NEW s \in Seq(S), NEW t \in Seq(S)
  PROVE  /\ s \o t \in Seq(S) /\ Len(s \o t) = Len(s) + Len(t)
         /\ \A i \in 1..Len(s) : (s \o t)[i] = s[i]
         /\ \A i \in 1..Len(t) : (s \o t)[Len(s) + i] = t[i]
  OBVIOUS

\* The same for bytes, as the provers need it.
LEMMA JoinedBytes ==
  ASSUME NEW s \in Seq(Int), NEW t \in Seq(Int)
  PROVE  /\ s \o t \in Seq(Int) /\ Len(s \o t) = Len(s) + Len(t)
         /\ \A i \in 1..Len(s) : (s \o t)[i] = s[i]
         /\ \A i \in 1..Len(t) : (s \o t)[Len(s) + i] = t[i]
  OBVIOUS

\* A part of a joined sequence is cut out where it was put in.
LEMMA CutOut ==
  ASSUME NEW S, NEW a \in Seq(S), NEW b \in Seq(S), NEW c \in Seq(S)
  PROVE  SubSeq(a \o b \o c, Len(a) + 1, Len(a) + Len(b)) = b
  <1> DEFINE z == a \o b \o c
             cut == SubSeq(z, Len(a) + 1, Len(a) + Len(b))
  <1>1. /\ z \in Seq(S) /\ Len(z) = Len(a) + Len(b) + Len(c)
        /\ \A i \in 1..Len(b) : z[Len(a) + i] = b[i]
    <2>1. a \o b \in Seq(S) /\ Len(a \o b) = Len(a) + Len(b)
      BY Joined
    <2>2. \A i \in 1..Len(b) : (a \o b)[Len(a) + i] = b[i]
      BY Joined
    <2>3. \A i \in 1..Len(b) : Len(a) + i \in 1..Len(a \o b)
      BY <2>1
    <2>4. z \in Seq(S) /\ Len(z) = Len(a \o b) + Len(c)
      BY <2>1, Joined
    <2>5. \A i \in 1..Len(a \o b) : z[i] = (a \o b)[i]
      BY <2>1, Joined
    <2>. QED
      BY <2>1, <2>2, <2>3, <2>4, <2>5
  <1>. HIDE DEF z
  <1>2. cut \in Seq(S) /\ Len(cut) = Len(b) /\ \A i \in 1..Len(b) : cut[i] = b[i]
    <2>1. Len(a) \in Nat /\ Len(b) \in Nat /\ Len(c) \in Nat
      OBVIOUS
    <2>2. \A i \in (Len(a) + 1)..(Len(a) + Len(b)) : z[i] \in S
      BY <1>1, <2>1
    <2>3. /\ cut \in Seq(S)
          /\ Len(cut) = IF Len(a) + 1 <= Len(a) + Len(b) THEN Len(b) ELSE 0
          /\ \A i \in 1..Len(b) : cut[i] = z[(Len(a) + 1) + i - 1]
      BY <2>1, <2>2, SubSeqProperties
    <2>4. \A i \in 1..Len(b) : (Len(a) + 1) + i - 1 = Len(a) + i
      BY <2>1
    <2>. QED
      BY <1>1, <2>1, <2>3, <2>4, SMTT(40)
  <1>. HIDE DEF cut
  <1>3. cut = b
    BY <1>2, SeqEqual
  <1>. QED
    BY <1>3 DEF cut, z

\* Behind its first byte the data is cut one place earlier.
LEMMA TailCut ==
  ASSUME NEW S, NEW s \in Seq(S), s # <<>>,
         NEW i \in 1..(Len(s) - 1), NEW j \in i..(Len(s) - 1)
  PROVE  SubSeq(Tail(s), i, j) = SubSeq(s, i + 1, j + 1)
  <1>1. \A k \in i..j : Tail(s)[k] = s[k + 1] /\ s[k + 1] \in S
    OBVIOUS
  <1>2. \A k \in (i + 1)..(j + 1) : s[k] \in S
    OBVIOUS
  <1> DEFINE a == SubSeq(Tail(s), i, j)
             b == SubSeq(s, i + 1, j + 1)
  <1>3. /\ a \in Seq(S) /\ Len(a) = j - i + 1
        /\ \A k \in 1..(j - i + 1) : a[k] = Tail(s)[i + k - 1]
    BY <1>1, SubSeqProperties
  <1>4. /\ b \in Seq(S) /\ Len(b) = j - i + 1
        /\ \A k \in 1..(j - i + 1) : b[k] = s[(i + 1) + k - 1]
    <2>1. Len(b) = (j + 1) - (i + 1) + 1
      BY <1>2, SubSeqProperties
    <2>2. b \in Seq(S) /\ \A k \in 1..((j + 1) - (i + 1) + 1) : b[k] = s[(i + 1) + k - 1]
      BY <1>2, SubSeqProperties
    <2>. QED
      BY <2>1, <2>2
  <1>. HIDE DEF a, b
  <1>5. \A k \in 1..Len(a) : a[k] = b[k]
    BY <1>1, <1>3, <1>4
  <1>6. a = b
    BY <1>3, <1>4, <1>5, SeqEqual
  <1>. QED
    BY <1>6 DEF a, b

\* The amount and the limit are found behind what comes before them.
LEMMA Packed ==
  ASSUME NEW h \in Seq(Int), Len(h) = 4, NEW m \in Seq(Int),
         NEW b, b = h \o m \o AmountBytes \o ProfitBytes
  PROVE  /\ b \in Seq(Int) /\ Len(b) = 16 + Len(m)
         /\ \A i \in 1..4 : b[i] = h[i]
         /\ \A i \in 1..Len(m) : b[4 + i] = m[i]
         /\ SubSeq(Tail(b), 4 + Len(m), 11 + Len(m)) = AmountBytes
         /\ SubSeq(Tail(b), 12 + Len(m), 15 + Len(m)) = ProfitBytes
  <1> DEFINE hm == h \o m
             x  == hm \o AmountBytes
  <1>1. /\ AmountBytes \in Seq(Int) /\ Len(AmountBytes) = 8
        /\ ProfitBytes \in Seq(Int) /\ Len(ProfitBytes) = 4 /\ Len(m) \in Nat
    BY DEF AmountBytes, ProfitBytes
  <1>2. /\ hm \in Seq(Int) /\ Len(hm) = 4 + Len(m)
        /\ \A i \in 1..4 : hm[i] = h[i]
        /\ \A i \in 1..Len(m) : hm[4 + i] = m[i]
    <2>1. /\ hm \in Seq(Int) /\ Len(hm) = Len(h) + Len(m)
          /\ \A i \in 1..Len(h) : hm[i] = h[i]
          /\ \A i \in 1..Len(m) : hm[Len(h) + i] = m[i]
      BY JoinedBytes
    <2>. HIDE DEF hm
    <2>. QED
      BY <2>1
  <1>. HIDE DEF hm
  <1>3. /\ x \in Seq(Int) /\ Len(x) = 12 + Len(m)
        /\ \A i \in 1..(4 + Len(m)) : x[i] = hm[i]
    <2>1. /\ x \in Seq(Int) /\ Len(x) = Len(hm) + Len(AmountBytes)
          /\ \A i \in 1..Len(hm) : x[i] = hm[i]
      BY <1>1, <1>2, JoinedBytes, ZenonT(40)
    <2>. HIDE DEF x
    <2>. QED
      BY <1>1, <1>2, <2>1
  <1>4. b = x \o ProfitBytes
    BY DEF hm
  <1>. HIDE DEF x
  <1>5. /\ b \in Seq(Int) /\ Len(b) = 16 + Len(m)
        /\ \A i \in 1..(12 + Len(m)) : b[i] = x[i]
    <2> DEFINE y == x \o ProfitBytes
    <2>1. y \in Seq(Int) /\ Len(y) = Len(x) + Len(ProfitBytes) /\ \A i \in 1..Len(x) : y[i] = x[i]
      BY <1>1, <1>3, JoinedBytes, ZenonT(40)
    <2>2. b = y
      BY <1>4
    <2>. HIDE DEF y
    <2>. QED
      BY <1>1, <1>3, <2>1, <2>2
  <1>6. /\ \A i \in 1..4 : b[i] = h[i]
        /\ \A i \in 1..Len(m) : b[4 + i] = m[i]
    <2>1. /\ \A i \in 1..4 : i \in 1..(4 + Len(m)) /\ i \in 1..(12 + Len(m))
          /\ \A i \in 1..Len(m) : 4 + i \in 1..(4 + Len(m)) /\ 4 + i \in 1..(12 + Len(m))
      BY <1>1
    <2>. QED
      BY <1>2, <1>3, <1>5, <2>1, ZenonT(40)
  <1>7. SubSeq(b, 5 + Len(m), 12 + Len(m)) = AmountBytes
    <2>1. SubSeq(hm \o AmountBytes \o ProfitBytes, Len(hm) + 1, Len(hm) + Len(AmountBytes))
            = AmountBytes
      BY <1>1, <1>2, CutOut
    <2>2. Len(hm) + 1 = 5 + Len(m) /\ Len(hm) + Len(AmountBytes) = 12 + Len(m)
      BY <1>1, <1>2
    <2>. QED
      BY <1>4, <2>1, <2>2 DEF x
  <1>8. SubSeq(b, 13 + Len(m), 16 + Len(m)) = ProfitBytes
    <2>1. SubSeq(x \o ProfitBytes \o <<>>, Len(x) + 1, Len(x) + Len(ProfitBytes)) = ProfitBytes
      <3>1. <<>> \in Seq(Int)
        OBVIOUS
      <3>. QED
        BY <1>1, <1>3, <3>1, CutOut
    <2>2. Len(x) + 1 = 13 + Len(m) /\ Len(x) + Len(ProfitBytes) = 16 + Len(m)
      BY <1>1, <1>3
    <2>3. x \o ProfitBytes \o <<>> = b
      BY <1>4, <1>5, ConcatEmptySeq
    <2>. QED
      BY <2>1, <2>2, <2>3
  <1>9. /\ SubSeq(Tail(b), 4 + Len(m), 11 + Len(m)) = SubSeq(b, 5 + Len(m), 12 + Len(m))
        /\ SubSeq(Tail(b), 12 + Len(m), 15 + Len(m)) = SubSeq(b, 13 + Len(m), 16 + Len(m))
    <2>1. /\ b # <<>>
          /\ 4 + Len(m) \in 1..(Len(b) - 1) /\ 11 + Len(m) \in (4 + Len(m))..(Len(b) - 1)
          /\ 12 + Len(m) \in 1..(Len(b) - 1) /\ 15 + Len(m) \in (12 + Len(m))..(Len(b) - 1)
      BY <1>1, <1>5
    <2>2. /\ (4 + Len(m)) + 1 = 5 + Len(m) /\ (11 + Len(m)) + 1 = 12 + Len(m)
          /\ (12 + Len(m)) + 1 = 13 + Len(m) /\ (15 + Len(m)) + 1 = 16 + Len(m)
      BY <1>1
    <2>3. SubSeq(Tail(b), 4 + Len(m), 11 + Len(m)) = SubSeq(b, (4 + Len(m)) + 1, (11 + Len(m)) + 1)
      BY <1>5, <2>1, TailCut, ZenonT(40)
    <2>4. SubSeq(Tail(b), 12 + Len(m), 15 + Len(m)) = SubSeq(b, (12 + Len(m)) + 1, (15 + Len(m)) + 1)
      BY <1>5, <2>1, TailCut, ZenonT(40)
    <2>. QED
      BY <2>2, <2>3, <2>4
  <1>. QED
    BY <1>5, <1>6, <1>7, <1>8, <1>9

-----------------------------------------------------------------------------
(* The program parses what the client encoded.                               *)

RouteTyped ==
  /\ route \in Seq(Snapshots) /\ Len(route) \in 2..4
  /\ test \in BOOLEAN /\ expected \in Nat

\* The bytes between the first four and the numbers: two for each hop in the middle.
Mids == CASE Len(route) = 2 -> <<>>
          [] Len(route) = 3 -> MidBytes(route[2])
          [] Len(route) = 4 -> MidBytes(route[2]) \o MidBytes(route[3])

\* There are two for every hop but the first and the last.
LEMMA MidsTyped ==
  ASSUME RouteTyped
  PROVE  /\ Mids \in Seq(Int) /\ Len(Mids) = 2 * (Len(route) - 2)
         /\ Len(route) > 2 => Mids[1] = MidBytes(route[2])[1] /\ Mids[2] = MidBytes(route[2])[2]
         /\ Len(route) > 3 => Mids[3] = MidBytes(route[3])[1] /\ Mids[4] = MidBytes(route[3])[2]
  <1>1. Len(route) \in {2, 3, 4} /\ \A i \in 1..Len(route) : route[i] \in Snapshots
    BY DEF RouteTyped
  <1>2. CASE Len(route) = 2
    BY <1>2 DEF Mids
  <1>3. CASE Len(route) = 3
    <2>1. Mids = MidBytes(route[2]) /\ route[2] \in Snapshots
      BY <1>1, <1>3 DEF Mids
    <2>. QED
      BY <1>3, <2>1, MiddleDecoded
  <1>4. CASE Len(route) = 4
    <2> DEFINE s == MidBytes(route[2])
               t == MidBytes(route[3])
    <2>1. Mids = s \o t /\ route[2] \in Snapshots /\ route[3] \in Snapshots
      BY <1>1, <1>4 DEF Mids
    <2>2. s \in Seq(Int) /\ Len(s) = 2 /\ t \in Seq(Int) /\ Len(t) = 2
      BY <2>1, MiddleDecoded
    <2>. HIDE DEF s, t
    <2>3. /\ Mids \in Seq(Int) /\ Len(Mids) = 4
          /\ Mids[1] = s[1] /\ Mids[2] = s[2] /\ Mids[3] = t[1] /\ Mids[4] = t[2]
      <3> DEFINE y == s \o t
      <3>1. /\ y \in Seq(Int) /\ Len(y) = Len(s) + Len(t)
            /\ \A i \in 1..Len(s) : y[i] = s[i]
            /\ \A i \in 1..Len(t) : y[Len(s) + i] = t[i]
        BY <2>2, JoinedBytes
      <3>2. Mids = y
        BY <2>1
      <3>. HIDE DEF y
      <3>. QED
        BY <2>2, <3>1, <3>2
    <2>. QED
      BY <1>4, <2>3 DEF s, t
  <1>. QED
    BY <1>1, <1>2, <1>3, <1>4

\* The bytes, one by one.
LEMMA Encoded ==
  ASSUME RouteTyped, bytes = EncodedData
  PROVE  LET n == Len(route) IN
         /\ bytes \in Seq(Int) /\ Len(bytes) = 12 + 2 * n
         /\ bytes[1] = Disc(n)
         /\ bytes[2] = Code[route[1].dex] /\ bytes[3] = Code[route[n].dex]
         /\ bytes[4] = EndFlags(route[1], route[n])
         /\ \A i \in 1..(2 * (n - 2)) : bytes[4 + i] = Mids[i]
         /\ SubSeq(Tail(bytes), 2 * n, 2 * n + 7) = AmountBytes
         /\ SubSeq(Tail(bytes), 2 * n + 8, 2 * n + 11) = ProfitBytes
  <1> DEFINE n == Len(route)
             h == <<Disc(n), Code[route[1].dex], Code[route[n].dex],
                    EndFlags(route[1], route[n])>>
  <1>1. n \in 2..4 /\ route[1] \in Snapshots /\ route[n] \in Snapshots
    BY DEF RouteTyped
  <1>2. /\ Disc(n) \in Int
        /\ Code[route[1].dex] \in Int /\ Code[route[n].dex] \in Int
        /\ EndFlags(route[1], route[n]) \in Int
    <2>1. Disc(n) \in Int
      BY <1>1 DEF Disc
    <2>2. \A d \in Dexes : Code[d] \in Int
      BY DEF Dexes, Code
    <2>3. route[1].dex \in Dexes /\ route[n].dex \in Dexes
      BY <1>1, TransactionAssumption
    <2>4. EndFlags(route[1], route[n]) \in Int
      BY <1>1, FewExtra DEF EndFlags, Bit
    <2>. QED
      BY <2>1, <2>2, <2>3, <2>4
  <1>3. bytes = h \o Mids \o AmountBytes \o ProfitBytes
    BY DEF EncodedData, Mids
  <1>4. h \in Seq(Int) /\ Len(h) = 4 /\ Mids \in Seq(Int) /\ Len(Mids) = 2 * (n - 2)
    BY <1>2, MidsTyped
  <1>5. /\ h[1] = Disc(n) /\ h[2] = Code[route[1].dex] /\ h[3] = Code[route[n].dex]
        /\ h[4] = EndFlags(route[1], route[n])
    OBVIOUS
  <1>. HIDE DEF h
  <1>. HIDE DEF n
  <1>6. /\ bytes \in Seq(Int) /\ Len(bytes) = 16 + Len(Mids)
        /\ \A i \in 1..4 : bytes[i] = h[i]
        /\ \A i \in 1..Len(Mids) : bytes[4 + i] = Mids[i]
        /\ SubSeq(Tail(bytes), 4 + Len(Mids), 11 + Len(Mids)) = AmountBytes
        /\ SubSeq(Tail(bytes), 12 + Len(Mids), 15 + Len(Mids)) = ProfitBytes
    <2>1. \A b : b = h \o Mids \o AmountBytes \o ProfitBytes =>
            /\ b \in Seq(Int) /\ Len(b) = 16 + Len(Mids)
            /\ \A i \in 1..4 : b[i] = h[i]
            /\ \A i \in 1..Len(Mids) : b[4 + i] = Mids[i]
            /\ SubSeq(Tail(b), 4 + Len(Mids), 11 + Len(Mids)) = AmountBytes
            /\ SubSeq(Tail(b), 12 + Len(Mids), 15 + Len(Mids)) = ProfitBytes
      BY <1>4, Packed
    <2>. QED
      BY <1>3, <2>1
  <1>7. /\ 16 + Len(Mids) = 12 + 2 * n
        /\ 4 + Len(Mids) = 2 * n /\ 11 + Len(Mids) = 2 * n + 7
        /\ 12 + Len(Mids) = 2 * n + 8 /\ 15 + Len(Mids) = 2 * n + 11
    BY <1>1, <1>4
  <1>8. \A i \in 1..(2 * (n - 2)) : bytes[4 + i] = Mids[i]
    BY <1>4, <1>6
  <1>9. /\ bytes[1] = Disc(n)
        /\ bytes[2] = Code[route[1].dex] /\ bytes[3] = Code[route[n].dex]
        /\ bytes[4] = EndFlags(route[1], route[n])
    BY <1>5, <1>6
  <1>10. /\ SubSeq(Tail(bytes), 2 * n, 2 * n + 7) = AmountBytes
         /\ SubSeq(Tail(bytes), 2 * n + 8, 2 * n + 11) = ProfitBytes
         /\ Len(bytes) = 12 + 2 * n
    BY <1>6, <1>7
  <1>. QED
    BY <1>6, <1>8, <1>9, <1>10 DEF n

\* The number of hops and the mode come back from the first byte.
LEMMA DiscDecoded ==
  ASSUME NEW n \in 2..4, test \in BOOLEAN
  PROVE  HopCount(Disc(n)) = n /\ (IsTest(Disc(n)) <=> test)
  <1>1. CASE test
    <2>1. Disc(n) = n + 1
      BY <1>1 DEF Disc
    <2>. QED
      BY <1>1, <2>1 DEF HopCount, IsTest
  <1>2. CASE ~test
    <2>1. Disc(n) = n - 2
      BY <1>2 DEF Disc
    <2>. QED
      BY <1>2, <2>1 DEF HopCount, IsTest
  <1>. QED
    BY <1>1, <1>2

\* The whole of what is parsed.
Parsed == [hops |-> [i \in 1..Len(route) |-> HopOf(route[i])], amount |-> TRUE, min |-> minProfit]

\* The hops of the parsed instruction are those of the route, whatever their number.
LEMMA Decoded ==
  ASSUME RouteTyped, bytes = EncodedData
  PROVE  /\ HopCount(bytes[1]) = Len(route) /\ (IsTest(bytes[1]) <=> test)
         /\ Len(bytes) - 1 >= 2 * HopCount(bytes[1]) + 11
         /\ ParsedInstruction = Parsed
  <1> DEFINE n == Len(route)
             data == Tail(bytes)
             flags == EndFlags(route[1], route[n])
             buy == Hop(data[1], data[3], 0, 2, 4)
             sell == Hop(data[2], data[3], 1, 3, 6)
             mid(k) == Hop(data[k], data[k + 1], 0, 1, 2)
  <1>1. n \in {2, 3, 4} /\ \A i \in 1..n : route[i] \in Snapshots
    BY DEF RouteTyped
  <1>2. /\ bytes \in Seq(Int) /\ Len(bytes) = 12 + 2 * n
        /\ bytes[1] = Disc(n)
        /\ bytes[2] = Code[route[1].dex] /\ bytes[3] = Code[route[n].dex] /\ bytes[4] = flags
        /\ \A i \in 1..(2 * (n - 2)) : bytes[4 + i] = Mids[i]
        /\ SubSeq(data, 2 * n, 2 * n + 7) = AmountBytes
        /\ SubSeq(data, 2 * n + 8, 2 * n + 11) = ProfitBytes
    BY Encoded
  <1>3. HopCount(bytes[1]) = n /\ (IsTest(bytes[1]) <=> test)
    BY <1>1, <1>2, DiscDecoded DEF RouteTyped
  <1>4. \A i \in 1..(Len(bytes) - 1) : data[i] = bytes[i + 1]
    BY <1>1, <1>2
  <1>. HIDE DEF data
  <1>5. buy = HopOf(route[1]) /\ sell = HopOf(route[n])
    <2>1. data[1] = Code[route[1].dex] /\ data[2] = Code[route[n].dex] /\ data[3] = flags
      BY <1>1, <1>2, <1>4, SMTT(40)
    <2>2. route[1] \in Snapshots /\ route[n] \in Snapshots
      BY <1>1
    <2>3. /\ Hop(Code[route[1].dex], flags, 0, 2, 4) = HopOf(route[1])
          /\ Hop(Code[route[n].dex], flags, 1, 3, 6) = HopOf(route[n])
      BY <2>2, EndsDecoded
    <2>. QED
      BY <2>1, <2>3
  <1>6. /\ n > 2 => mid(4) = HopOf(route[2])
        /\ n > 3 => mid(6) = HopOf(route[3])
    <2>1. ASSUME n > 2 PROVE mid(4) = HopOf(route[2])
      <3>1. /\ 1 \in 1..(2 * (n - 2)) /\ 2 \in 1..(2 * (n - 2))
            /\ 4 \in 1..(Len(bytes) - 1) /\ 5 \in 1..(Len(bytes) - 1)
        BY <1>1, <1>2, <2>1, SMTT(40)
      <3>2. data[4] = Mids[1] /\ data[5] = Mids[2]
        BY <1>2, <1>4, <3>1
      <3>3. Mids[1] = MidBytes(route[2])[1] /\ Mids[2] = MidBytes(route[2])[2]
        BY <2>1, MidsTyped
      <3>4. Hop(MidBytes(route[2])[1], MidBytes(route[2])[2], 0, 1, 2) = HopOf(route[2])
        BY <1>1, <2>1, MiddleDecoded
      <3>. QED
        BY <3>2, <3>3, <3>4
    <2>2. ASSUME n > 3 PROVE mid(6) = HopOf(route[3])
      <3>1. /\ 3 \in 1..(2 * (n - 2)) /\ 4 \in 1..(2 * (n - 2))
            /\ 6 \in 1..(Len(bytes) - 1) /\ 7 \in 1..(Len(bytes) - 1)
        BY <1>1, <1>2, <2>2, SMTT(40)
      <3>2. data[6] = Mids[3] /\ data[7] = Mids[4]
        BY <1>2, <1>4, <3>1
      <3>3. Mids[3] = MidBytes(route[3])[1] /\ Mids[4] = MidBytes(route[3])[2]
        BY <2>2, MidsTyped
      <3>4. Hop(MidBytes(route[3])[1], MidBytes(route[3])[2], 0, 1, 2) = HopOf(route[3])
        BY <1>1, <2>2, MiddleDecoded
      <3>. QED
        BY <3>2, <3>3, <3>4
    <2>. QED
      BY <2>1, <2>2
  <1> DEFINE hops == CASE n = 2 -> <<buy, sell>>
                       [] n = 3 -> <<buy, mid(4), sell>>
                       [] n = 4 -> <<buy, mid(4), mid(6), sell>>
  <1>7. hops = [i \in 1..n |-> HopOf(route[i])]
    <2>. HIDE DEF buy, sell, mid
    <2>1. CASE n = 2
      BY <1>5, <2>1
    <2>2. CASE n = 3
      BY <1>5, <1>6, <2>2
    <2>3. CASE n = 4
      BY <1>5, <1>6, <2>3
    <2>. QED
      BY <1>1, <2>1, <2>2, <2>3
  <1>8. ParsedInstruction =
          [hops |-> hops, amount |-> SubSeq(data, 2 * n, 2 * n + 7) = AmountBytes,
           min |-> IF SubSeq(data, 2 * n + 8, 2 * n + 11) = ProfitBytes THEN minProfit ELSE -1]
    <2>1. /\ (2 * n - 1) + 1 = 2 * n /\ (2 * n - 1) + 8 = 2 * n + 7
          /\ (2 * n - 1) + 9 = 2 * n + 8 /\ (2 * n - 1) + 12 = 2 * n + 11
      BY <1>1
    <2>. QED
      BY <1>3, <2>1 DEF ParsedInstruction, data
  <1>9. ParsedInstruction = Parsed
    <2>. HIDE DEF hops
    <2>. QED
      BY <1>2, <1>7, <1>8 DEF Parsed
  <1>. QED
    BY <1>1, <1>2, <1>3, <1>9

-----------------------------------------------------------------------------
(* The account list.                                                          *)

Metas == Nat \X Nat
AllBuilt == \A i \in 1..Len(route) : BuiltCount(route[i]) # 0

\* Where the accounts of a hop begin: behind the header, the intermediate tokens and the
\* hops before it.
Count(i) == IF i <= Len(route) THEN BuiltCount(route[i]) ELSE 0
Offset(i) ==
  8 + 3 * (Len(route) - 1) + (IF i > 1 THEN Count(1) ELSE 0)
    + (IF i > 2 THEN Count(2) ELSE 0) + (IF i > 3 THEN Count(3) ELSE 0)

\* What the program takes for a hop is what was built for it, but for a DLMM pool with
\* more bin arrays than two bits count: of these it leaves some.
LEMMA CountsAgree ==
  ASSUME NEW s \in Snapshots, BuiltCount(s) # 0
  PROVE  /\ BuiltCount(s) \in Nat /\ SliceLen(HopOf(s)) \in Nat
         /\ SliceLen(HopOf(s)) <= BuiltCount(s)
         /\ (s.dex = "MeteoraDlmm" => Len(s.arrays) <= 3) => SliceLen(HopOf(s)) = BuiltCount(s)
  <1>1. s.dex \in Dexes /\ Len(s.arrays) \in Nat
    BY TransactionAssumption
  <1>2. SliceLen(HopOf(s)) = BaseCount[s.dex] + HopExtra(s)
    BY DEF SliceLen, HopOf
  <1>3. CASE s.dex = "RaydiumClmm"
    <2>1. s.arrays # <<>> /\ BuiltCount(s) = 9 + UniqueArrays(s)
      BY <1>3 DEF BuiltCount
    <2>2. HopExtra(s) = UniqueArrays(s) - 1 /\ BaseCount[s.dex] = 10
      BY <1>3, <2>1 DEF HopExtra, BaseCount
    <2>. QED
      BY <1>2, <1>3, <2>1, <2>2, ArraysCounted
  <1>4. CASE s.dex = "MeteoraDlmm"
    <2>1. s.arrays # <<>> /\ BuiltCount(s) = 16 + Len(s.arrays)
      BY <1>4 DEF BuiltCount
    <2>2. HopExtra(s) = AtMost(Len(s.arrays), 3) /\ BaseCount[s.dex] = 16
      BY <1>4 DEF HopExtra, BaseCount
    <2> DEFINE k == Len(s.arrays)
    <2>. HIDE DEF k
    <2>3. /\ AtMost(k, 3) \in Nat /\ AtMost(k, 3) <= k
          /\ k <= 3 => AtMost(k, 3) = k
      BY <1>1 DEF AtMost, k
    <2>. QED
      BY <1>1, <1>2, <1>4, <2>1, <2>2, <2>3 DEF k
  <1>5. CASE s.dex \notin {"RaydiumClmm", "MeteoraDlmm"}
    <2>1. HopExtra(s) = 0
      BY <1>5 DEF HopExtra
    <2>2. BuiltCount(s) = BaseCount[s.dex] /\ BuiltCount(s) \in Nat
      BY <1>1, <1>5 DEF BuiltCount, BaseCount, Dexes
    <2>. QED
      BY <1>2, <1>5, <2>1, <2>2
  <1>. QED
    BY <1>3, <1>4, <1>5

\* What a joined list of accounts holds.
LEMMA JoinedMetas ==
  ASSUME NEW s \in Seq(Metas), NEW t \in Seq(Metas)
  PROVE  /\ s \o t \in Seq(Metas) /\ Len(s \o t) = Len(s) + Len(t)
         /\ \A i \in 1..Len(s) : (s \o t)[i] = s[i]
         /\ \A i \in 1..Len(t) : (s \o t)[Len(s) + i] = t[i]
  BY Joined

\* A part stands in the list behind so many accounts.
StandsAt(all, part, before) ==
  \E a \in Seq(Metas), c \in Seq(Metas) : all = a \o part \o c /\ Len(a) = before

\* One list behind another, as an operator of its own.
Joint(s, t) == s \o t

\* Lists of accounts joined are one, as long as both.
LEMMA JointTyped ==
  ASSUME NEW s \in Seq(Metas), NEW t \in Seq(Metas)
  PROVE  Joint(s, t) \in Seq(Metas) /\ Len(Joint(s, t)) = Len(s) + Len(t)
  BY DEF Joint

\* They may be joined from either side.
LEMMA JointAssociative ==
  ASSUME NEW s \in Seq(Metas), NEW t \in Seq(Metas), NEW u \in Seq(Metas)
  PROVE  Joint(Joint(s, t), u) = Joint(s, Joint(t, u))
  BY ConcatAssociative DEF Joint

\* A part between two lists stands behind the first.
LEMMA JointStands ==
  ASSUME NEW a \in Seq(Metas), NEW part, NEW c \in Seq(Metas)
  PROVE  StandsAt(Joint(Joint(a, part), c), part, Len(a))
  BY DEF StandsAt, Joint

\* Four parts between two others: each stands between what is before it and behind it.
LEMMA FourParts ==
  ASSUME NEW o \in Seq(Metas), NEW h1 \in Seq(Metas), NEW h2 \in Seq(Metas),
         NEW h3 \in Seq(Metas), NEW h4 \in Seq(Metas), NEW p \in Seq(Metas),
         NEW all, all = o \o h1 \o h2 \o h3 \o h4 \o p
  PROVE  /\ StandsAt(all, h1, Len(o))
         /\ StandsAt(all, h2, Len(o) + Len(h1))
         /\ StandsAt(all, h3, Len(o) + Len(h1) + Len(h2))
         /\ StandsAt(all, h4, Len(o) + Len(h1) + Len(h2) + Len(h3))
  <1> DEFINE x1 == Joint(o, h1)
             x2 == Joint(x1, h2)
             x3 == Joint(x2, h3)
             y4 == Joint(h4, p)
             y3 == Joint(h3, y4)
             y2 == Joint(h2, y3)
  <1>1. all = Joint(Joint(x3, h4), p)
    BY DEF Joint
  <1>2. x1 \in Seq(Metas) /\ Len(x1) = Len(o) + Len(h1)
    BY JointTyped
  <1>3. y4 \in Seq(Metas)
    BY JointTyped
  <1>. HIDE DEF x1, y4
  <1>4. x2 \in Seq(Metas) /\ Len(x2) = Len(x1) + Len(h2)
    BY <1>2, JointTyped
  <1>5. y3 \in Seq(Metas)
    BY <1>3, JointTyped
  <1>. HIDE DEF x2, y3
  <1>6. x3 \in Seq(Metas) /\ Len(x3) = Len(x2) + Len(h3)
    BY <1>4, JointTyped
  <1>7. y2 \in Seq(Metas)
    BY <1>5, JointTyped
  <1>. HIDE DEF x3, y2
  <1>8. all = Joint(x3, y4)
    BY <1>1, <1>6, JointAssociative DEF y4
  <1>9. all = Joint(x2, y3)
    BY <1>3, <1>4, <1>8, JointAssociative DEF x3, y3
  <1>10. all = Joint(x1, y2)
    BY <1>2, <1>5, <1>9, JointAssociative DEF x2, y2
  <1>11. StandsAt(all, h4, Len(x3))
    BY <1>1, <1>6, JointStands
  <1>12. StandsAt(all, h3, Len(x2))
    BY <1>3, <1>4, <1>8, JointStands DEF x3
  <1>13. StandsAt(all, h2, Len(x1))
    BY <1>2, <1>5, <1>9, JointStands DEF x2
  <1>14. StandsAt(all, h1, Len(o))
    BY <1>7, <1>10, JointStands DEF x1
  <1>. QED
    BY <1>2, <1>4, <1>6, <1>11, <1>12, <1>13, <1>14

\* The accounts of every hop stand where Offset says.
LEMMA Layout ==
  ASSUME RouteTyped, AllBuilt, accounts = BuiltAccounts, NEW i \in 1..Len(route)
  PROVE  StandsAt(accounts, HopAccounts(i), Offset(i))
  <1> DEFINE n == Len(route)
             o == Others(8 + 3 * (n - 1))
             h(j) == IF j <= n THEN HopAccounts(j) ELSE <<>>
             p == Others(Cardinality({route[j].dex : j \in 1..n}))
  <1>1. n \in 2..4 /\ \A j \in 1..n : route[j] \in Snapshots
    BY DEF RouteTyped
  <1>2. o \in Seq(Metas) /\ Len(o) = 8 + 3 * (n - 1)
    BY <1>1 DEF Others, Metas
  <1>3. \A j \in 1..4 : h(j) \in Seq(Metas) /\ Len(h(j)) = Count(j) /\ Count(j) \in Nat
    <2> SUFFICES ASSUME NEW j \in 1..4
                 PROVE  h(j) \in Seq(Metas) /\ Len(h(j)) = Count(j) /\ Count(j) \in Nat
      OBVIOUS
    <2>1. CASE j <= n
      <3>1. BuiltCount(route[j]) \in Nat
        BY <1>1, <2>1, CountsAgree DEF AllBuilt
      <3>. QED
        BY <2>1, <3>1 DEF HopAccounts, Metas, Count
    <2>2. CASE ~(j <= n)
      BY <2>2 DEF Count
    <2>. QED
      BY <2>1, <2>2
  <1>4. p \in Seq(Metas)
    <2> DEFINE D == {route[j].dex : j \in 1..n}
    <2>1. IsFiniteSet(D)
      <3> DEFINE f == [j \in 1..n |-> route[j].dex]
      <3>1. f \in Surjection(1..n, D)
        BY DEF Surjection
      <3>2. IsFiniteSet(1..n)
        BY <1>1, FS_Interval
      <3>. HIDE DEF f, D
      <3>. QED
        BY <3>1, <3>2, FS_Surjection
    <2>. HIDE DEF D
    <2>2. Cardinality(D) \in Nat
      BY <2>1, FS_CardinalityType
    <2>3. Others(Cardinality(D)) \in Seq(Metas)
      BY <2>2 DEF Others, Metas
    <2>. QED
      BY <2>3 DEF D
  <1>5. accounts = o \o h(1) \o h(2) \o h(3) \o h(4) \o p
    <2> DEFINE hops == [j \in 1..4 |-> IF j <= n THEN HopAccounts(j) ELSE <<>>]
    <2>1. accounts = o \o hops[1] \o hops[2] \o hops[3] \o hops[4] \o p
      BY DEF BuiltAccounts
    <2>2. hops[1] = h(1) /\ hops[2] = h(2) /\ hops[3] = h(3) /\ hops[4] = h(4)
      OBVIOUS
    <2>. HIDE DEF hops, h, o, p
    <2>. QED
      BY <2>1, <2>2
  <1>6. h(i) = HopAccounts(i) /\ i \in {1, 2, 3, 4}
    BY <1>1
  <1>7. /\ Len(o) = 8 + 3 * (Len(route) - 1)
        /\ Len(h(1)) = Count(1) /\ Len(h(2)) = Count(2) /\ Len(h(3)) = Count(3)
        /\ Count(1) \in Nat /\ Count(2) \in Nat /\ Count(3) \in Nat /\ Len(route) \in Nat
    BY <1>1, <1>2, <1>3
  <1>. HIDE DEF o, h, p
  <1>8. /\ h(1) \in Seq(Metas) /\ h(2) \in Seq(Metas)
        /\ h(3) \in Seq(Metas) /\ h(4) \in Seq(Metas)
    BY <1>3
  <1>9. /\ StandsAt(accounts, h(1), Len(o))
        /\ StandsAt(accounts, h(2), Len(o) + Len(h(1)))
        /\ StandsAt(accounts, h(3), Len(o) + Len(h(1)) + Len(h(2)))
        /\ StandsAt(accounts, h(4), Len(o) + Len(h(1)) + Len(h(2)) + Len(h(3)))
    <2>1. \A all : all = o \o h(1) \o h(2) \o h(3) \o h(4) \o p =>
            /\ StandsAt(all, h(1), Len(o))
            /\ StandsAt(all, h(2), Len(o) + Len(h(1)))
            /\ StandsAt(all, h(3), Len(o) + Len(h(1)) + Len(h(2)))
            /\ StandsAt(all, h(4), Len(o) + Len(h(1)) + Len(h(2)) + Len(h(3)))
      BY <1>2, <1>4, <1>8, FourParts
    <2>. QED
      BY <1>5, <2>1
  <1>10. CASE i = 1
    <2>1. Offset(i) = Len(o)
      BY <1>7, <1>10 DEF Offset
    <2>. QED
      BY <1>6, <1>9, <1>10, <2>1
  <1>11. CASE i = 2
    <2>1. Offset(i) = Len(o) + Len(h(1))
      BY <1>7, <1>11 DEF Offset
    <2>. QED
      BY <1>6, <1>9, <1>11, <2>1
  <1>12. CASE i = 3
    <2>1. Offset(i) = Len(o) + Len(h(1)) + Len(h(2))
      BY <1>7, <1>12 DEF Offset
    <2>. QED
      BY <1>6, <1>9, <1>12, <2>1
  <1>13. CASE i = 4
    <2>1. Offset(i) = Len(o) + Len(h(1)) + Len(h(2)) + Len(h(3))
      <3>1. Offset(i) = 8 + 3 * (Len(route) - 1) + Count(1) + Count(2) + Count(3)
        BY <1>13 DEF Offset
      <3>. QED
        BY <1>7, <3>1
    <2>. QED
      BY <1>6, <1>9, <1>13, <2>1
  <1>. QED
    BY <1>6, <1>10, <1>11, <1>12, <1>13

\* The slice of a hop begins at its offset, is as long as what was built, and is all in
\* the list.
LEMMA SliceOf ==
  ASSUME RouteTyped, AllBuilt, accounts = BuiltAccounts, NEW i \in 1..Len(route)
  PROVE  /\ accounts \in Seq(Metas) /\ Offset(i) \in Nat /\ BuiltCount(route[i]) \in Nat
         /\ Offset(i) + BuiltCount(route[i]) <= Len(accounts)
         /\ SubSeq(accounts, Offset(i) + 1, Offset(i) + BuiltCount(route[i])) = HopAccounts(i)
         /\ \A k \in 1..BuiltCount(route[i]) : accounts[Offset(i) + k] = <<i, k>>
  <1> DEFINE part == HopAccounts(i)
             k == BuiltCount(route[i])
  <1>1. StandsAt(accounts, part, Offset(i))
    BY Layout
  <1>2. PICK a \in Seq(Metas), c \in Seq(Metas) :
          accounts = a \o part \o c /\ Len(a) = Offset(i)
    BY <1>1 DEF StandsAt
  <1>3. i \in Nat /\ k \in Nat
    <2>1. route[i] \in Snapshots /\ BuiltCount(route[i]) # 0 /\ i \in Nat
      BY DEF RouteTyped, AllBuilt
    <2>. QED
      BY <2>1, CountsAgree
  <1>4. /\ part \in Seq(Metas) /\ Len(part) = k
        /\ \A j \in 1..k : part[j] = <<i, j>>
    <2>1. part = [j \in 1..k |-> <<i, j>>]
      BY DEF HopAccounts
    <2>. HIDE DEF part, k
    <2>2. \A j \in 1..k : <<i, j>> \in Metas
      BY <1>3 DEF Metas
    <2>. QED
      BY <1>3, <2>1, <2>2
  <1>. HIDE DEF part, k
  <1>5. SubSeq(a \o part \o c, Len(a) + 1, Len(a) + Len(part)) = part
    BY <1>4, CutOut
  <1>6. /\ a \o part \in Seq(Metas) /\ Len(a \o part) = Len(a) + Len(part)
        /\ \A j \in 1..Len(part) : (a \o part)[Len(a) + j] = part[j]
    BY <1>4, JoinedMetas
  <1>7. /\ (a \o part) \o c \in Seq(Metas)
        /\ Len((a \o part) \o c) = Len(a \o part) + Len(c)
        /\ \A j \in 1..Len(a \o part) : ((a \o part) \o c)[j] = (a \o part)[j]
    BY <1>6, JoinedMetas
  <1>8. \A j \in 1..k : Len(a) + j \in 1..Len(a \o part)
    BY <1>3, <1>4, <1>6
  <1>9. accounts \in Seq(Metas) /\ Len(accounts) = Len(a) + k + Len(c)
    BY <1>2, <1>4, <1>6, <1>7
  <1>10. \A j \in 1..k : accounts[Len(a) + j] = <<i, j>>
    BY <1>2, <1>4, <1>6, <1>7, <1>8
  <1>11. SubSeq(accounts, Len(a) + 1, Len(a) + k) = part
    BY <1>2, <1>4, <1>5
  <1>12. Len(a) \in Nat /\ Len(c) \in Nat
    OBVIOUS
  <1>13. Offset(i) = Len(a)
    BY <1>2
  <1>14. Offset(i) + k <= Len(accounts)
    BY <1>3, <1>9, <1>12, <1>13
  <1>. QED
    BY <1>3, <1>9, <1>10, <1>11, <1>12, <1>13, <1>14 DEF part, k

\* No pool has more bin arrays than the two bits can count.
FewBins == \A s \in Snapshots : s.dex = "MeteoraDlmm" => Len(s.arrays) <= 3

\* Sums of what is no more, and what is the same, are no more, and the same.
LEMMA SumsAgree ==
  ASSUME NEW b \in Nat, NEW a1 \in Nat, NEW a2 \in Nat, NEW a3 \in Nat,
         NEW b1 \in Nat, NEW b2 \in Nat, NEW b3 \in Nat, a1 <= b1, a2 <= b2, a3 <= b3
  PROVE  /\ b + a1 + a2 + a3 \in Nat /\ b <= b + a1 + a2 + a3
         /\ b + a1 + a2 + a3 <= b + b1 + b2 + b3
         /\ a1 = b1 /\ a2 = b2 /\ a3 = b3 => b + a1 + a2 + a3 = b + b1 + b2 + b3
  OBVIOUS

\* The program begins a hop no later than the client put it, and with few bins just there.
LEMMA StartIs ==
  ASSUME RouteTyped, AllBuilt, parsed = Parsed, Len(slices) \in 0..(Len(route) - 1)
  PROVE  /\ Start \in Nat /\ 8 <= Start /\ Start <= Offset(Len(slices) + 1)
         /\ FewBins => Start = Offset(Len(slices) + 1)
  <1> DEFINE k == Len(slices)
             n == Len(route)
             c(i) == SliceLen(HopOf(route[i]))
             len(i) == IF i <= k THEN SliceLen(parsed.hops[i]) ELSE 0
  <1>1. n \in 2..4 /\ k \in {0, 1, 2, 3} /\ k < n
    <2>1. n \in 2..4
      BY DEF RouteTyped
    <2>2. k \in 0..(n - 1)
      OBVIOUS
    <2>. HIDE DEF k, n
    <2>. QED
      BY <2>1, <2>2
  <1>2. /\ Len(parsed.hops) = n
        /\ \A i \in 1..n : parsed.hops[i] = HopOf(route[i])
    BY <1>1 DEF Parsed
  <1>3. \A i \in 1..n :
          /\ c(i) \in Nat /\ Count(i) \in Nat /\ c(i) <= Count(i)
          /\ FewBins => c(i) = Count(i)
    <2> SUFFICES ASSUME NEW i \in 1..n
                 PROVE  /\ c(i) \in Nat /\ Count(i) \in Nat /\ c(i) <= Count(i)
                        /\ FewBins => c(i) = Count(i)
      OBVIOUS
    <2>1. route[i] \in Snapshots /\ BuiltCount(route[i]) # 0 /\ Count(i) = BuiltCount(route[i])
      BY <1>1 DEF RouteTyped, AllBuilt, Count
    <2>2. FewBins => (route[i].dex = "MeteoraDlmm" => Len(route[i].arrays) <= 3)
      BY <2>1 DEF FewBins
    <2>. QED
      BY <2>1, <2>2, CountsAgree
  <1>4. Start = 8 + 3 * (n - 1) + len(1) + len(2) + len(3)
    BY <1>2 DEF Start
  <1>5. \A i \in {1, 2, 3} : len(i) = IF i <= k THEN c(i) ELSE 0
    BY <1>1, <1>2
  <1>. HIDE DEF len, c, k, n
  <1>6. CASE k = 0
    <2>1. Start = 8 + 3 * (n - 1)
      BY <1>1, <1>4, <1>5, <1>6
    <2>2. Offset(k + 1) = 8 + 3 * (n - 1)
      BY <1>1, <1>6 DEF Offset, n
    <2>. QED
      BY <1>1, <2>1, <2>2 DEF k
  <1>7. CASE k = 1
    <2>1. Start = 8 + 3 * (n - 1) + c(1)
      BY <1>1, <1>3, <1>4, <1>5, <1>7
    <2>2. Offset(k + 1) = 8 + 3 * (n - 1) + Count(1)
      BY <1>1, <1>3, <1>7 DEF Offset, n
    <2>. QED
      BY <1>1, <1>3, <2>1, <2>2, SMTT(40) DEF k
  <1>8. CASE k = 2
    <2>1. Start = 8 + 3 * (n - 1) + c(1) + c(2)
      BY <1>1, <1>3, <1>4, <1>5, <1>8, SMTT(40)
    <2>2. Offset(k + 1) = 8 + 3 * (n - 1) + Count(1) + Count(2)
      BY <1>1, <1>3, <1>8, SMTT(40) DEF Offset, n
    <2>3. /\ c(1) \in Nat /\ c(2) \in Nat /\ Count(1) \in Nat /\ Count(2) \in Nat
          /\ c(1) <= Count(1) /\ c(2) <= Count(2)
          /\ FewBins => c(1) = Count(1) /\ c(2) = Count(2)
      <3>1. 1 \in 1..n /\ 2 \in 1..n
        BY <1>1, <1>8
      <3>2. /\ c(1) \in Nat /\ Count(1) \in Nat /\ c(1) <= Count(1)
            /\ FewBins => c(1) = Count(1)
        BY <1>3, <3>1
      <3>3. /\ c(2) \in Nat /\ Count(2) \in Nat /\ c(2) <= Count(2)
            /\ FewBins => c(2) = Count(2)
        BY <1>3, <3>1
      <3>. QED
        BY <3>2, <3>3
    <2>. QED
      BY <1>1, <2>1, <2>2, <2>3, SMTT(40) DEF k
  <1>9. CASE k = 3
    <2>1. Start = 8 + 3 * (n - 1) + c(1) + c(2) + c(3)
      BY <1>1, <1>3, <1>4, <1>5, <1>9
    <2>2. Offset(k + 1) = 8 + 3 * (n - 1) + Count(1) + Count(2) + Count(3)
      BY <1>1, <1>3, <1>9 DEF Offset, n
    <2>3. /\ c(1) \in Nat /\ c(2) \in Nat /\ c(3) \in Nat
          /\ Count(1) \in Nat /\ Count(2) \in Nat /\ Count(3) \in Nat
          /\ c(1) <= Count(1) /\ c(2) <= Count(2) /\ c(3) <= Count(3)
          /\ FewBins => c(1) = Count(1) /\ c(2) = Count(2) /\ c(3) = Count(3)
      <3>1. 1 \in 1..n /\ 2 \in 1..n /\ 3 \in 1..n
        BY <1>1, <1>9
      <3>2. /\ c(1) \in Nat /\ Count(1) \in Nat /\ c(1) <= Count(1)
            /\ FewBins => c(1) = Count(1)
        BY <1>3, <3>1
      <3>3. /\ c(2) \in Nat /\ Count(2) \in Nat /\ c(2) <= Count(2)
            /\ FewBins => c(2) = Count(2)
        BY <1>3, <3>1
      <3>4. /\ c(3) \in Nat /\ Count(3) \in Nat /\ c(3) <= Count(3)
            /\ FewBins => c(3) = Count(3)
        BY <1>3, <3>1
      <3>. QED
        BY <3>2, <3>3, <3>4
    <2>. QED
      <3> DEFINE b == 8 + 3 * (n - 1)
      <3>1. b \in Nat /\ 8 <= b
        BY <1>1
      <3>2. k + 1 = Len(slices) + 1
        BY DEF k
      <3>. HIDE DEF b
      <3>3. /\ b + c(1) + c(2) + c(3) \in Nat /\ b <= b + c(1) + c(2) + c(3)
            /\ b + c(1) + c(2) + c(3) <= b + Count(1) + Count(2) + Count(3)
            /\ c(1) = Count(1) /\ c(2) = Count(2) /\ c(3) = Count(3)
                 => b + c(1) + c(2) + c(3) = b + Count(1) + Count(2) + Count(3)
        BY ONLY <2>3, <3>1, SumsAgree
      <3>4. Start = b + c(1) + c(2) + c(3) /\ Offset(k + 1) = b + Count(1) + Count(2) + Count(3)
        BY <2>1, <2>2 DEF b
      <3>5. 8 <= b + c(1) + c(2) + c(3)
        BY <2>3, <3>1
      <3>. QED
        BY <2>3, <3>2, <3>3, <3>4, <3>5
  <1>. QED
    BY <1>1, <1>6, <1>7, <1>8, <1>9

-----------------------------------------------------------------------------
(* The invariants.                                                            *)

OnChain == {"swap", "landed", "reverted"}

\* What the client built stays what it built, from the route up to the end.
Sent ==
  /\ stage \in {"route", "skipped", "sent"} \cup OnChain
  /\ route \in Seq(Snapshots) /\ Len(route) <= MaxHops
  /\ test \in BOOLEAN /\ expected \in Nat
  /\ stage \in {"sent"} \cup OnChain =>
       /\ RouteTyped /\ AllBuilt
       /\ bytes = EncodedData /\ minProfit = EncodedMinProfit /\ accounts = BuiltAccounts

\* What the program read, how far it has come, and with what result it ends.
Swapped ==
  /\ stage \in OnChain => parsed = Parsed /\ Len(slices) <= Len(route)
  /\ stage \notin OnChain => slices = <<>>
  /\ slices \in Seq(Seq(Metas)) /\ amounts \in Seq(Metas) /\ Len(amounts) = Len(slices)
  /\ stage = "landed" /\ ~test => profit \in Int /\ profit >= 0 /\ profit >= minProfit

TxInv == Sent /\ Swapped

\* What is built is a function of the route, the mode and the expected profit.
LEMMA SameBuilt ==
  ASSUME UNCHANGED <<route, test, expected>>
  PROVE  /\ RouteTyped' <=> RouteTyped
         /\ AllBuilt' <=> AllBuilt
         /\ EncodedData' = EncodedData /\ EncodedMinProfit' = EncodedMinProfit
         /\ BuiltAccounts' = BuiltAccounts
         /\ \A i : HopAccounts(i)' = HopAccounts(i)
  <1>1. (RouteTyped' <=> RouteTyped) /\ (AllBuilt' <=> AllBuilt)
    BY DEF RouteTyped, AllBuilt
  <1>2. EncodedData' = EncodedData /\ EncodedMinProfit' = EncodedMinProfit
    BY DEF EncodedData, EncodedMinProfit, Disc
  <1>3. \A i : HopAccounts(i)' = HopAccounts(i)
    BY DEF HopAccounts
  <1>4. BuiltAccounts' = BuiltAccounts
    BY DEF BuiltAccounts, HopAccounts
  <1>. QED
    BY <1>1, <1>2, <1>3, <1>4

\* A hop reads its balance among its own accounts.
LEMMA ReadInside ==
  ASSUME NEW s \in Snapshots
  PROVE  ReadAt(HopOf(s)) \in Nat /\ ReadAt(HopOf(s)) < SliceLen(HopOf(s))
  <1>1. s.dex \in Dexes /\ s.ab \in BOOLEAN /\ HopExtra(s) \in 0..3
    BY TransactionAssumption, FewExtra
  <1>2. SliceLen(HopOf(s)) = BaseCount[s.dex] + HopExtra(s)
    BY DEF SliceLen, HopOf
  <1>3. ReadAt(HopOf(s)) \in Nat /\ ReadAt(HopOf(s)) < BaseCount[s.dex] /\ BaseCount[s.dex] \in Nat
    BY <1>1 DEF ReadAt, HopOf, Dexes, BaseCount
  <1>. QED
    BY <1>1, <1>2, <1>3

\* One hop: its slice is in the list, so it is appended, with the place of the balance.
LEMMA HopSwapped ==
  ASSUME TxInv, SwapHop
  PROVE  LET i == Len(slices) + 1
             s == route[i]
         IN /\ i \in 1..Len(route) /\ s \in Snapshots
            /\ stage' = stage
            /\ Start \in Nat /\ Start + SliceLen(HopOf(s)) <= Len(accounts)
            /\ slices' = Append(slices, SubSeq(accounts, Start + 1, Start + SliceLen(HopOf(s))))
            /\ amounts' = Append(amounts, IF slices = <<>> THEN FromArgument
                                          ELSE accounts[Start + ReadAt(HopOf(s)) + 1])
            /\ SubSeq(accounts, Start + 1, Start + SliceLen(HopOf(s))) \in Seq(Metas)
            /\ accounts[Start + ReadAt(HopOf(s)) + 1] \in Metas
  <1> DEFINE i == Len(slices) + 1
             s == route[i]
             h == HopOf(s)
             end == Start + SliceLen(h)
  <1>1. /\ stage \in OnChain /\ RouteTyped /\ AllBuilt /\ accounts = BuiltAccounts
        /\ parsed = Parsed /\ slices \in Seq(Seq(Metas))
    BY DEF TxInv, Sent, Swapped, SwapHop, OnChain
  <1>2. Len(route) \in 2..4 /\ Len(slices) \in Nat
    BY <1>1 DEF RouteTyped
  <1>3. /\ Len(parsed.hops) = Len(route)
        /\ \A j \in 1..Len(route) : parsed.hops[j] = HopOf(route[j])
    BY <1>1, <1>2 DEF Parsed
  <1>4. Len(slices) < Len(route)
    BY <1>3 DEF SwapHop
  <1>5. i \in 1..Len(route) /\ Len(slices) \in 0..(Len(route) - 1)
    BY <1>2, <1>4
  <1>6. s \in Snapshots /\ BuiltCount(s) # 0 /\ parsed.hops[i] = h
    BY <1>1, <1>3, <1>5 DEF RouteTyped, AllBuilt
  <1>7. Start \in Nat /\ Start <= Offset(i)
    BY <1>1, <1>5, StartIs
  <1>8. SliceLen(h) \in Nat /\ SliceLen(h) <= BuiltCount(s) /\ BuiltCount(s) \in Nat
    BY <1>6, CountsAgree
  <1>9. accounts \in Seq(Metas) /\ Offset(i) \in Nat /\ Offset(i) + BuiltCount(s) <= Len(accounts)
    BY <1>1, <1>5, SliceOf
  <1>. HIDE DEF s, h
  <1>10. end <= Len(accounts) /\ end \in Nat /\ Len(accounts) \in Nat
    BY <1>7, <1>8, <1>9
  <1>11. /\ stage' = stage
         /\ slices' = Append(slices, SubSeq(accounts, Start + 1, end))
         /\ amounts' = Append(amounts, IF slices = <<>> THEN FromArgument
                                       ELSE accounts[Start + ReadAt(h) + 1])
    <2>1. /\ end > Len(accounts) => FALSE
          /\ parsed.hops[Len(slices) + 1] = h
      BY <1>6, <1>10
    <2>. HIDE DEF i
    <2>. QED
      BY <2>1 DEF SwapHop
  <1>12. \A k \in (Start + 1)..end : accounts[k] \in Metas
    BY <1>7, <1>9, <1>10
  <1>13. SubSeq(accounts, Start + 1, end) \in Seq(Metas)
    BY <1>7, <1>10, <1>12, SubSeqProperties
  <1>14. accounts[Start + ReadAt(h) + 1] \in Metas
    <2>1. ReadAt(h) \in Nat /\ ReadAt(h) < SliceLen(h)
      BY <1>6, ReadInside DEF h
    <2>2. Start + ReadAt(h) + 1 \in (Start + 1)..end
      BY <1>7, <1>8, <2>1
    <2>. QED
      BY <1>12, <2>2
  <1>. QED
    BY <1>5, <1>6, <1>7, <1>10, <1>11, <1>13, <1>14 DEF s, h

\* It holds at the start, with nothing built, and every action keeps it.
LEMMA TxStart == Init => TxInv
  <1> SUFFICES ASSUME Init PROVE TxInv
    OBVIOUS
  <1>1. <<>> \in Seq(Snapshots) /\ <<>> \in Seq(Seq(Metas)) /\ <<>> \in Seq(Metas)
    OBVIOUS
  <1>2. MaxHops \in 2..4 /\ Profits \subseteq Nat
    BY TransactionAssumption
  <1>. QED
    BY <1>1, <1>2 DEF Init, TxInv, Sent, Swapped, OnChain

LEMMA TxStep == TxInv /\ [Next]_vars => TxInv'
  <1> SUFFICES ASSUME TxInv, [Next]_vars PROVE TxInv'
    OBVIOUS
  <1>1. ASSUME NEW s \in Snapshots, AddHop(s) PROVE TxInv'
    <2>1. /\ route' = Append(route, s) /\ Len(route) < MaxHops /\ stage = "route"
          /\ UNCHANGED <<stage, test, expected, slices, amounts>>
      BY <1>1 DEF AddHop
    <2>2. route' \in Seq(Snapshots) /\ Len(route') <= MaxHops
      <3>1. route \in Seq(Snapshots) /\ MaxHops \in 2..4
        BY TransactionAssumption DEF TxInv, Sent
      <3>. QED
        BY <2>1, <3>1
    <2>. QED
      BY <2>1, <2>2 DEF TxInv, Sent, Swapped, OnChain
  <1>2. CASE Build
    <2>1. /\ stage = "route" /\ Len(route) >= 2 /\ stage' \in {"skipped", "sent"}
          /\ UNCHANGED <<route, test, expected, slices, amounts>>
          /\ stage' = "sent" => /\ AllBuilt /\ bytes' = EncodedData
                                /\ minProfit' = EncodedMinProfit /\ accounts' = BuiltAccounts
      BY <1>2 DEF Build, AllBuilt
    <2>2. RouteTyped
      <3>1. /\ route \in Seq(Snapshots) /\ Len(route) <= MaxHops /\ MaxHops \in 2..4
            /\ test \in BOOLEAN /\ expected \in Nat
        BY TransactionAssumption DEF TxInv, Sent
      <3>2. Len(route) \in Nat /\ Len(route) <= MaxHops /\ MaxHops \in 2..4 /\ Len(route) >= 2
        BY <2>1, <3>1
      <3>3. Len(route) \in 2..4
        <4> DEFINE n == Len(route)
        <4>. HIDE DEF n
        <4>1. n \in Nat /\ n <= MaxHops /\ MaxHops \in 2..4 /\ n >= 2
          BY <3>2 DEF n
        <4>2. n \in 2..4
          BY <4>1
        <4>. QED
          BY <4>2 DEF n
      <3>. QED
        BY <3>1, <3>3 DEF RouteTyped
    <2>3. stage' = "sent" =>
            /\ RouteTyped' /\ AllBuilt'
            /\ bytes' = EncodedData' /\ minProfit' = EncodedMinProfit'
            /\ accounts' = BuiltAccounts'
      BY <2>1, <2>2, SameBuilt
    <2>4. Sent'
      BY <2>1, <2>3 DEF TxInv, Sent, OnChain
    <2>. QED
      BY <2>1, <2>4 DEF TxInv, Swapped, OnChain
  <1>3. CASE Parse
    <2>1. /\ stage = "sent"
          /\ UNCHANGED <<route, test, expected, bytes, minProfit, accounts, slices, amounts>>
      BY <1>3 DEF Parse
    <2>2. /\ RouteTyped /\ AllBuilt /\ bytes = EncodedData
          /\ minProfit = EncodedMinProfit /\ accounts = BuiltAccounts
      BY <2>1 DEF TxInv, Sent
    <2>3. stage' = "swap" /\ parsed' = Parsed
      <3>1. /\ ParsedInstruction = Parsed
            /\ Len(bytes) - 1 >= 2 * HopCount(bytes[1]) + 11
        BY <2>2, Decoded
      <3>2. ~(Len(bytes) - 1 < 2 * HopCount(bytes[1]) + 11)
        <4>1. Len(bytes) \in Nat /\ HopCount(bytes[1]) \in Nat
          <5>1. HopCount(bytes[1]) = Len(route) /\ bytes \in Seq(Int)
            BY <2>2, Decoded, Encoded
          <5>. QED
            BY <2>2, <5>1 DEF RouteTyped
        <4>. QED
          BY <3>1, <4>1
      <3>. QED
        BY <1>3, <3>1, <3>2 DEF Parse
    <2>4. Parsed' = Parsed
      BY <2>1 DEF Parsed
    <2>5. /\ RouteTyped' /\ AllBuilt' /\ bytes' = EncodedData'
          /\ minProfit' = EncodedMinProfit' /\ accounts' = BuiltAccounts'
      BY <2>1, <2>2, SameBuilt
    <2>6. slices' = <<>> /\ Len(slices') <= Len(route')
      BY <2>1, <2>2 DEF TxInv, Swapped, OnChain, RouteTyped
    <2>7. Sent'
      BY <2>1, <2>3, <2>5 DEF TxInv, Sent, OnChain
    <2>. QED
      BY <2>1, <2>3, <2>4, <2>6, <2>7 DEF TxInv, Swapped, OnChain
  <1>4. CASE SwapHop
    <2> DEFINE i == Len(slices) + 1
               part == SubSeq(accounts, Start + 1, Start + SliceLen(HopOf(route[i])))
               from == accounts[Start + ReadAt(HopOf(route[i])) + 1]
    <2>1. /\ i \in 1..Len(route) /\ stage' = stage
          /\ slices' = Append(slices, part) /\ part \in Seq(Metas)
          /\ amounts' = Append(amounts, IF slices = <<>> THEN FromArgument ELSE from)
          /\ from \in Metas
      BY <1>4, HopSwapped
    <2>2. /\ stage = "swap"
          /\ UNCHANGED <<route, test, expected, bytes, minProfit, accounts, parsed>>
      BY <1>4 DEF SwapHop
    <2>. HIDE DEF part, from
    <2>3. Parsed' = Parsed /\ parsed = Parsed
      BY <2>2 DEF Parsed, TxInv, Swapped, OnChain
    <2>4. Sent'
      <3>1. /\ RouteTyped' /\ AllBuilt' /\ bytes' = EncodedData'
            /\ minProfit' = EncodedMinProfit' /\ accounts' = BuiltAccounts'
        BY <2>2, SameBuilt DEF TxInv, Sent, OnChain
      <3>. QED
        BY <2>1, <2>2, <3>1 DEF TxInv, Sent, OnChain
    <2>5. /\ slices' \in Seq(Seq(Metas)) /\ Len(slices') = i
          /\ amounts' \in Seq(Metas) /\ Len(amounts') = i
      <3>1. slices \in Seq(Seq(Metas)) /\ amounts \in Seq(Metas) /\ Len(amounts) = Len(slices)
        BY DEF TxInv, Swapped
      <3>2. FromArgument \in Metas
        BY DEF FromArgument, Metas
      <3>. QED
        BY <2>1, <3>1, <3>2
    <2>6. Len(slices') <= Len(route')
      BY <2>1, <2>2, <2>5
    <2>. QED
      BY <2>1, <2>2, <2>3, <2>4, <2>5, <2>6 DEF TxInv, Swapped, OnChain
  <1>5. CASE Finish
    <2>1. /\ stage = "swap" /\ stage' \in {"landed", "reverted"}
          /\ UNCHANGED <<route, test, expected, bytes, minProfit, accounts, parsed, slices,
                         amounts>>
      BY <1>5 DEF Finish
    <2>2. /\ RouteTyped /\ AllBuilt /\ bytes = EncodedData /\ parsed = Parsed
          /\ minProfit = EncodedMinProfit /\ accounts = BuiltAccounts
      BY <2>1 DEF TxInv, Sent, Swapped, OnChain
    <2>3. stage' = "landed" /\ ~test => profit' \in Int /\ profit' >= 0 /\ profit' >= minProfit
      <3>1. IsTest(bytes[1]) <=> test
        BY <2>2, Decoded
      <3>2. parsed.min = minProfit
        BY <2>2 DEF Parsed
      <3>3. Outcomes \subseteq Int
        BY TransactionAssumption
      <3>. QED
        BY <1>5, <3>1, <3>2, <3>3 DEF Finish
    <2>4. Parsed' = Parsed
      BY <2>1 DEF Parsed
    <2>5. Sent'
      <3>1. /\ RouteTyped' /\ AllBuilt' /\ bytes' = EncodedData'
            /\ minProfit' = EncodedMinProfit' /\ accounts' = BuiltAccounts'
        BY <2>1, <2>2, SameBuilt
      <3>. QED
        BY <2>1, <3>1 DEF TxInv, Sent, OnChain
    <2>. QED
      BY <2>1, <2>2, <2>3, <2>4, <2>5 DEF TxInv, Swapped, OnChain
  <1>6. CASE UNCHANGED vars
    <2>1. /\ RouteTyped' <=> RouteTyped
          /\ AllBuilt' <=> AllBuilt
          /\ EncodedData' = EncodedData /\ EncodedMinProfit' = EncodedMinProfit
          /\ BuiltAccounts' = BuiltAccounts /\ Parsed' = Parsed
      BY <1>6, SameBuilt DEF vars, Parsed
    <2>2. Sent'
      BY <1>6, <2>1 DEF vars, TxInv, Sent
    <2>. QED
      BY <1>6, <2>1, <2>2 DEF vars, TxInv, Swapped
  <1>. QED
    BY <1>1, <1>2, <1>3, <1>4, <1>5, <1>6 DEF Next

LEMMA TxAlways == Spec => []TxInv
  BY TxStart, TxStep, PTL DEF Spec

\* The program parses the route the client encoded, field by field, for routes of every
\* length and pools of every kind: encode_instruction_data and SwapInstruction::parse agree.
THEOREM RoundTrip == Spec => []ParsedMatches
  <1>1. TxInv => ParsedMatches
    BY DEF TxInv, Swapped, ParsedMatches, Parsed, OnChain
  <1>. QED
    BY <1>1, TxAlways, PTL

\* Whatever the number of tick or bin arrays, the program finds the bytes and the accounts
\* it cuts out: neither parse nor a slice of execute fails for want of them.
THEOREM NothingMissing == Spec => []NeverShort
  <1>1. TxInv => NeverShort
    BY DEF TxInv, Sent, NeverShort, OnChain
  <1>. QED
    BY <1>1, TxAlways, PTL

\* What lands without being a test made no loss, and the limit that was encoded, as long
\* as it fits four bytes.
THEOREM LandsWithProfit == Spec => []LandedProfit
  <1>1. TxInv => LandedProfit
    <2> SUFFICES ASSUME TxInv, stage = "landed", ~test
                 PROVE  LET limit == (expected * 80) \div 100 IN
                        profit >= 0 /\ (limit < U32 => profit >= limit)
      BY DEF LandedProfit
    <2> DEFINE limit == (expected * 80) \div 100
    <2>1. /\ profit \in Int /\ profit >= 0 /\ profit >= minProfit
          /\ minProfit = limit % U32 /\ expected \in Nat
      BY DEF TxInv, Sent, Swapped, OnChain, EncodedMinProfit
    <2>2. limit \in Nat
      BY <2>1
    <2>. HIDE DEF limit
    <2>3. limit < U32 => limit % U32 = limit
      BY <2>2, TransactionAssumption
    <2>. QED
      BY <2>1, <2>3 DEF limit
  <1>. QED
    BY <1>1, TxAlways, PTL

-----------------------------------------------------------------------------
(* With few bins: the slices are exact.                                      *)

\* Each call so far got the accounts of its hop, and a later one its balance where the
\* program reads it among them.
Exact ==
  \A i \in 1..Len(slices) :
    /\ slices[i] = HopAccounts(i)
    /\ i > 1 => amounts[i] = <<i, ReadAt(HopOf(route[i])) + 1>>

\* But for PumpFun and Bonk it is read where the input is.
LEMMA ReadsInput ==
  ASSUME NEW s \in Snapshots, ~OneWay(s) PROVE ReadAt(HopOf(s)) = InputAt(s)
  <1>1. s.dex \in Dexes /\ s.ab \in BOOLEAN
    BY TransactionAssumption
  <1>. QED
    BY <1>1 DEF ReadAt, HopOf, InputAt, OneWay, Dexes

\* Only a swap adds to the slices, and the one it adds is exact too.
LEMMA ExactStep ==
  ASSUME FewBins PROVE TxInv /\ Exact /\ [Next]_vars => Exact'
  <1> SUFFICES ASSUME TxInv, Exact, [Next]_vars PROVE Exact'
    OBVIOUS
  <1>1. ASSUME UNCHANGED <<route, slices, amounts>> PROVE Exact'
    BY <1>1 DEF Exact, HopAccounts
  <1>2. ASSUME NEW s \in Snapshots, AddHop(s) PROVE Exact'
    <2>1. slices' = <<>>
      BY <1>2 DEF AddHop, TxInv, Swapped, OnChain
    <2>. QED
      BY <2>1 DEF Exact
  <1>3. CASE SwapHop
    <2> DEFINE n == Len(slices) + 1
               s == route[n]
               part == SubSeq(accounts, Start + 1, Start + SliceLen(HopOf(s)))
               from == accounts[Start + ReadAt(HopOf(s)) + 1]
    <2>1. /\ n \in 1..Len(route) /\ s \in Snapshots
          /\ slices' = Append(slices, part)
          /\ amounts' = Append(amounts, IF slices = <<>> THEN FromArgument ELSE from)
      BY <1>3, HopSwapped
    <2>2. /\ RouteTyped /\ AllBuilt /\ accounts = BuiltAccounts /\ parsed = Parsed
          /\ slices \in Seq(Seq(Metas)) /\ amounts \in Seq(Metas) /\ Len(amounts) = Len(slices)
          /\ UNCHANGED route
      BY <1>3 DEF SwapHop, TxInv, Sent, Swapped, OnChain
    <2>3. Start = Offset(n)
      <3>1. Len(slices) \in 0..(Len(route) - 1)
        BY <2>1, <2>2
      <3>. QED
        BY <2>2, <3>1, StartIs
    <2>4. SliceLen(HopOf(s)) = BuiltCount(s)
      <3>1. BuiltCount(s) # 0
        BY <2>1, <2>2 DEF AllBuilt
      <3>. QED
        BY <2>1, <3>1, CountsAgree DEF FewBins
    <2>5. part = HopAccounts(n)
      BY <2>1, <2>2, <2>3, <2>4, SliceOf
    <2>6. from = <<n, ReadAt(HopOf(s)) + 1>>
      <3> DEFINE k == ReadAt(HopOf(s)) + 1
      <3>1. k \in 1..BuiltCount(s)
        <4>1. ReadAt(HopOf(s)) \in Nat /\ ReadAt(HopOf(s)) < BuiltCount(s)
          BY <2>1, <2>4, ReadInside
        <4>2. BuiltCount(s) \in Nat
          BY <2>1, <2>2, SliceOf
        <4>. QED
          BY <4>1, <4>2
      <3>2. accounts[Offset(n) + k] = <<n, k>>
        BY <2>1, <2>2, <3>1, SliceOf
      <3>3. Offset(n) + k = Start + ReadAt(HopOf(s)) + 1
        <4>1. Offset(n) \in Nat /\ ReadAt(HopOf(s)) \in Nat
          BY <2>1, <2>2, SliceOf, ReadInside
        <4>. QED
          BY <2>3, <4>1
      <3>. QED
        BY <3>2, <3>3
    <2>. HIDE DEF part, from, s
    <2>7. /\ Len(slices') = n /\ \A i \in 1..Len(slices) : slices'[i] = slices[i]
          /\ slices'[n] = part
      BY <2>1, <2>2
    <2>8. /\ \A i \in 1..Len(slices) : amounts'[i] = amounts[i]
          /\ n > 1 => amounts'[n] = from
      <3>1. n > 1 => slices # <<>>
        BY <2>2
      <3>. QED
        BY <2>1, <2>2, <3>1
    <2>9. ASSUME NEW i \in 1..Len(slices')
          PROVE  /\ slices'[i] = HopAccounts(i)'
                 /\ i > 1 => amounts'[i] = <<i, ReadAt(HopOf(route'[i])) + 1>>
      <3>1. HopAccounts(i)' = HopAccounts(i) /\ route' = route
        BY <2>2 DEF HopAccounts
      <3>2. CASE i = n
        BY <2>5, <2>6, <2>7, <2>8, <3>1, <3>2 DEF s
      <3>3. CASE i \in 1..Len(slices)
        BY <2>7, <2>8, <3>1, <3>3 DEF Exact
      <3>4. i = n \/ i \in 1..Len(slices)
        BY <2>2, <2>7, <2>9
      <3>. QED
        BY <3>2, <3>3, <3>4
    <2>. QED
      BY <2>9 DEF Exact
  <1>4. CASE Build \/ Parse \/ Finish \/ UNCHANGED vars
    BY <1>1, <1>4 DEF Build, Parse, Finish, vars
  <1>. QED
    BY <1>2, <1>3, <1>4 DEF Next

LEMMA ExactAlways == ASSUME FewBins PROVE Spec => []Exact
  <1>1. Init => Exact
    BY DEF Init, Exact
  <1>. QED
    BY <1>1, ExactStep, TxAlways, PTL DEF Spec

\* With no more bin arrays than two bits count, every DEX call gets the accounts built
\* for its hop and no others: build_account_metas and execute cut the list alike.
THEOREM CutWhereBuilt == ASSUME FewBins PROVE Spec => []SlicesExact
  <1>1. TxInv /\ Exact => SlicesExact
    BY DEF TxInv, Swapped, Exact, SlicesExact
  <1>. QED
    BY <1>1, TxAlways, ExactAlways, PTL

\* And a later hop swaps the balance of the account its input is in.
THEOREM ReadWhereInput == ASSUME FewBins PROVE Spec => []AmountFromInput
  <1>1. TxInv /\ Exact => AmountFromInput
    <2> SUFFICES ASSUME TxInv, Exact, NEW i \in DOMAIN amounts \ {1}, ~OneWay(route[i])
                 PROVE  amounts[i] = <<i, InputAt(route[i]) + 1>>
      BY DEF AmountFromInput
    <2>1. i \in 1..Len(slices) /\ i > 1
      BY DEF TxInv, Swapped
    <2>2. route[i] \in Snapshots
      <3>1. slices # <<>> /\ route \in Seq(Snapshots)
        BY <2>1 DEF TxInv, Sent
      <3>2. Len(slices) <= Len(route) /\ Len(slices) \in Nat
        BY <3>1 DEF TxInv, Swapped
      <3>3. i \in 1..Len(route)
        BY <2>1, <3>1, <3>2
      <3>. QED
        BY <3>1, <3>3
    <2>. QED
      BY <2>1, <2>2, ReadsInput DEF Exact
  <1>. QED
    BY <1>1, TxAlways, ExactAlways, PTL

-----------------------------------------------------------------------------
(* The flash loan.                                                            *)

Names == {"cu_limit", "cu_price", "ata", "start", "borrow", "arb", "repay", "end", "tip"}

\* What a joined list of instructions holds.
LEMMA JoinedNames ==
  ASSUME NEW s \in Seq(Names), NEW t \in Seq(Names)
  PROVE  /\ s \o t \in Seq(Names) /\ Len(s \o t) = Len(s) + Len(t)
         /\ \A i \in 1..Len(s) : (s \o t)[i] = s[i]
         /\ \A i \in 1..Len(t) : (s \o t)[Len(s) + i] = t[i]
  BY Joined

\* Of the six instructions of a loan the fifth ends it, whatever the number of token
\* accounts before them.
LEMMA EndFound ==
  ASSUME NEW atas \in Nat, NEW loan \in BOOLEAN, NEW i \in DOMAIN Instructions(atas, loan),
         Instructions(atas, loan)[i] = "start"
  PROVE  loan /\ Instructions(atas, loan)[2 + atas + 5] = "end"
  <1> DEFINE pre == <<"cu_limit", "cu_price">>
             rep == Repeat("ata", atas)
             six == <<"start", "borrow", "arb", "repay", "end", "tip">>
             two == <<"arb", "tip">>
             post == IF loan THEN six ELSE two
             all == Instructions(atas, loan)
  <1>1. /\ pre \in Seq(Names) /\ Len(pre) = 2 /\ \A k \in 1..2 : pre[k] # "start"
        /\ rep \in Seq(Names) /\ Len(rep) = atas /\ \A k \in 1..atas : rep[k] = "ata"
        /\ post \in Seq(Names) /\ Len(post) \in {2, 6}
    <2>1. pre \in Seq(Names) /\ Len(pre) = 2 /\ \A k \in 1..2 : pre[k] # "start"
      BY DEF Names
    <2>2. rep \in Seq(Names) /\ Len(rep) = atas /\ \A k \in 1..atas : rep[k] = "ata"
      BY DEF Repeat, Names
    <2>3. /\ six \in Seq(Names) /\ Len(six) = 6
          /\ two \in Seq(Names) /\ Len(two) = 2
      BY DEF Names
    <2>4. post \in Seq(Names) /\ Len(post) \in {2, 6}
      <3>. HIDE DEF six, two
      <3>. QED
        BY <2>3
    <2>. QED
      BY <2>1, <2>2, <2>4
  <1>2. /\ loan => post[5] = "end" /\ Len(post) = 6
        /\ ~loan => Len(post) = 2 /\ \A k \in 1..2 : post[k] # "start"
    OBVIOUS
  <1>3. all = (pre \o rep) \o post
    BY DEF Instructions
  <1>. HIDE DEF pre, rep, post, all
  <1>4. /\ pre \o rep \in Seq(Names) /\ Len(pre \o rep) = 2 + atas
        /\ \A k \in 1..(2 + atas) : (pre \o rep)[k] # "start"
    <2> DEFINE x == pre \o rep
    <2>1. /\ x \in Seq(Names) /\ Len(x) = 2 + atas
          /\ \A k \in 1..2 : x[k] = pre[k]
          /\ \A k \in 1..atas : x[2 + k] = rep[k]
      <3>1. /\ x \in Seq(Names) /\ Len(x) = Len(pre) + Len(rep)
            /\ \A k \in 1..Len(pre) : x[k] = pre[k]
            /\ \A k \in 1..Len(rep) : x[Len(pre) + k] = rep[k]
        BY <1>1, JoinedNames
      <3>. HIDE DEF x
      <3>. QED
        BY <1>1, <3>1
    <2>. HIDE DEF x
    <2>2. ASSUME NEW k \in 1..(2 + atas) PROVE x[k] # "start"
      <3>1. CASE k \in 1..2
        BY <1>1, <2>1, <3>1
      <3>2. CASE k \notin 1..2
        <4>1. k - 2 \in 1..atas /\ 2 + (k - 2) = k
          BY <3>2
        <4>2. x[k] = "ata"
          BY <1>1, <2>1, <4>1
        <4>. QED
          BY <4>2
      <3>. QED
        BY <3>1, <3>2
    <2>. QED
      BY <2>1, <2>2 DEF x
  <1> DEFINE y == pre \o rep
  <1>5. /\ Len(all) = 2 + atas + Len(post) /\ DOMAIN all = 1..Len(all)
        /\ \A k \in 1..(2 + atas) : all[k] = y[k]
        /\ \A k \in 1..Len(post) : all[2 + atas + k] = post[k]
    <2>1. y \in Seq(Names) /\ Len(y) = 2 + atas
      BY <1>4
    <2>. HIDE DEF y
    <2>2. /\ y \o post \in Seq(Names) /\ Len(y \o post) = Len(y) + Len(post)
          /\ \A k \in 1..Len(y) : (y \o post)[k] = y[k]
          /\ \A k \in 1..Len(post) : (y \o post)[Len(y) + k] = post[k]
      BY <1>1, <2>1, JoinedNames
    <2>3. all = y \o post
      BY <1>3 DEF y
    <2>. QED
      BY <2>1, <2>2, <2>3
  <1>6. i \in 1..Len(all) /\ all[i] = "start"
    BY <1>5 DEF all
  <1>7. loan
    <2>1. i \notin 1..(2 + atas)
      BY <1>4, <1>5, <1>6
    <2>2. i - (2 + atas) \in 1..Len(post) /\ (2 + atas) + (i - (2 + atas)) = i
      BY <1>1, <1>5, <1>6, <2>1
    <2>3. post[i - (2 + atas)] = "start"
      BY <1>5, <1>6, <2>2
    <2>. QED
      BY <1>2, <2>2, <2>3
  <1>8. all[2 + atas + 5] = "end"
    <2>1. 5 \in 1..Len(post)
      BY <1>2, <1>7, SMTT(40)
    <2>. QED
      BY <1>2, <1>5, <1>7, <2>1
  <1>. QED
    BY <1>7, <1>8 DEF all

\* A flash loan of Astralane or SwQoS is ended by the instruction start_flashloan names:
\* the index build_flashloan_ixs counts is right for every number of token accounts.
THEOREM LoanCloses == Spec => []FlashloanCloses
  <1>1. Init => FlashloanCloses
    BY DEF Init, FlashloanCloses
  <1>2. FlashloanCloses /\ [Next]_vars => FlashloanCloses'
    <2> SUFFICES ASSUME FlashloanCloses, [Next]_vars PROVE FlashloanCloses'
      OBVIOUS
    <2>1. ASSUME UNCHANGED <<variant, ixs, endIndex>> PROVE FlashloanCloses'
      BY <2>1 DEF FlashloanCloses
    <2>2. CASE Build
      <3>1. CASE UNCHANGED <<ixs, endIndex>>
        BY <2>1, <2>2, <3>1 DEF Build
      <3>2. CASE \E atas \in 1..Len(route), loan \in BOOLEAN :
                   /\ ixs' = Instructions(atas, loan)
                   /\ endIndex' = IF loan THEN FlashloanEnd(atas) ELSE 0
        <4> SUFFICES ASSUME variant # "jito", NEW i \in DOMAIN ixs', ixs'[i] = "start"
                     PROVE  ixs'[endIndex' + 1] = "end"
          BY <2>2 DEF Build, FlashloanCloses
        <4>1. PICK atas \in 1..Len(route), loan \in BOOLEAN :
                /\ ixs' = Instructions(atas, loan)
                /\ endIndex' = IF loan THEN FlashloanEnd(atas) ELSE 0
          BY <3>2
        <4>2. loan /\ ixs'[2 + atas + 5] = "end"
          BY <4>1, EndFound
        <4>3. endIndex' + 1 = 2 + atas + 5
          BY <4>1, <4>2 DEF FlashloanEnd
        <4>. QED
          BY <4>2, <4>3
      <3>. QED
        BY <2>2, <3>1, <3>2 DEF Build
    <2>3. ASSUME NEW s \in Snapshots, AddHop(s) PROVE FlashloanCloses'
      BY <2>1, <2>3 DEF AddHop
    <2>4. CASE Parse \/ SwapHop \/ Finish \/ UNCHANGED vars
      BY <2>1, <2>4 DEF Parse, SwapHop, Finish, vars
    <2>. QED
      BY <2>2, <2>3, <2>4 DEF Next
  <1>. QED
    BY <1>1, <1>2, PTL DEF Spec
=============================================================================
