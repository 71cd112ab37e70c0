---------------------------- MODULE ArithmeticProofs ----------------------------
(***************************************************************************)
(* The serial number comparisons for every word width and window, the bit  *)
(* fields of c/bits/bitincr.c for every width of fields and counters, the  *)
(* checksums of c/common/header.h for every size of a byte, every pair of  *)
(* addresses and every content, and the string hashes of java/hash.java    *)
(* for every width of an unsigned int and strings of any length.           *)
(***************************************************************************)
EXTENDS SerialNumbers, BitFields, RawUdp, StringHash, SequenceTheorems, WellFoundedInduction, TLAPS

\* A number is d times its quotient and a remainder smaller than d.
LEMMA DivMod ==
  ASSUME NEW x \in Int, NEW d \in Int, d > 0
  PROVE  /\ x \div d \in Int /\ x % d \in 0..(d - 1)
         /\ x = d * (x \div d) + (x % d)
  OBVIOUS

\* A number written as a multiple of d and a rest has that quotient and that remainder.
LEMMA ModIs ==
  ASSUME NEW x \in Int, NEW d \in Int, d > 0, NEW q \in Int, NEW r \in Int,
         x = d * q + r, 0 <= r, r < d
  PROVE  x \div d = q /\ x % d = r
  OBVIOUS

LEMMA SmallMod ==
  ASSUME NEW x \in Int, NEW d \in Int, 0 <= x, x < d
  PROVE  x % d = x
  OBVIOUS

\* The wrapped difference is the true one, or off by one turn of the counter, as long as the
\* counters are less than a turn apart.
InvGap == s - t = gap \/ s - t = gap + Wrap \/ s - t = gap - Wrap

\* A step keeps the types and the relation between wrapped and true difference.
LEMMA GapStep == SerialTypeOK /\ InvGap /\ [SerialNext]_serialVars => (SerialTypeOK /\ InvGap)'
<1> SUFFICES ASSUME SerialTypeOK, InvGap, [SerialNext]_serialVars PROVE (SerialTypeOK /\ InvGap)'
  OBVIOUS
<1>1. /\ Wrap \in Nat \ {0} /\ s \in 0..(Wrap - 1) /\ t \in 0..(Wrap - 1)
      /\ gap \in Int /\ Window \in Nat /\ Window < Wrap
  BY HalfAssumption, WindowAssumption DEF SerialTypeOK, Word, Wrap
<1>2. gap <= Window /\ -Window <= gap
  BY WindowAssumption DEF SerialTypeOK
<1>3. CASE AdvanceS
  <2>1. s' \in 0..(Wrap - 1) /\ (s' = s + 1 \/ (s = Wrap - 1 /\ s' = 0))
    BY <1>1, <1>3 DEF AdvanceS, Succ
  <2>2. t' = t /\ gap' = gap + 1 /\ gap < Window
    BY <1>3 DEF AdvanceS
  <2>3. SerialTypeOK'
    BY <1>1, <1>2, <2>1, <2>2 DEF SerialTypeOK, Word
  <2>4. InvGap'
    <3>1. CASE s' = s + 1
      BY <1>1, <2>2, <3>1 DEF InvGap
    <3>2. CASE s = Wrap - 1 /\ s' = 0
      <4>1. gap < Wrap /\ -gap < Wrap
        BY <1>1, <1>2
      <4>2. /\ s - t # gap - Wrap
            /\ s' - t' = (s - t) - (Wrap - 1)
        BY <1>1, <2>2, <3>2, <4>1
      <4> QED
        BY <1>1, <2>2, <4>2 DEF InvGap
    <3> QED
      BY <2>1, <3>1, <3>2
  <2> QED
    BY <2>3, <2>4
<1>4. CASE AdvanceT
  <2>1. t' \in 0..(Wrap - 1) /\ (t' = t + 1 \/ (t = Wrap - 1 /\ t' = 0))
    BY <1>1, <1>4 DEF AdvanceT, Succ
  <2>2. s' = s /\ gap' = gap - 1 /\ gap > -Window
    BY <1>4 DEF AdvanceT
  <2>3. SerialTypeOK'
    BY <1>1, <1>2, <2>1, <2>2 DEF SerialTypeOK, Word
  <2>4. InvGap'
    <3>1. CASE t' = t + 1
      BY <1>1, <2>2, <3>1 DEF InvGap
    <3>2. CASE t = Wrap - 1 /\ t' = 0
      <4>1. gap < Wrap /\ -gap < Wrap
        BY <1>1, <1>2
      <4>2. /\ s - t # gap + Wrap
            /\ s' - t' = (s - t) + (Wrap - 1)
        BY <1>1, <2>2, <3>2, <4>1
      <4> QED
        BY <1>1, <2>2, <4>2 DEF InvGap
    <3> QED
      BY <2>1, <3>1, <3>2
  <2> QED
    BY <2>3, <2>4
<1>5. CASE UNCHANGED serialVars
  BY <1>5 DEF serialVars, SerialTypeOK, InvGap
<1> QED
  BY <1>3, <1>4, <1>5 DEF SerialNext

\* Types, and the difference kept through any number of wraps.
LEMMA GapInvariant == SerialSpec => [](SerialTypeOK /\ InvGap)
<1>1. SerialInit => SerialTypeOK /\ InvGap
  BY HalfAssumption, WindowAssumption DEF SerialInit, SerialTypeOK, InvGap, Word, Wrap
<1> QED
  BY <1>1, GapStep, PTL DEF SerialSpec

\* The type invariant: the counters stay words, the gap stays in the window.
THEOREM SerialTypeCorrect == SerialSpec => []SerialTypeOK
  BY GapInvariant, PTL

\* TSN_lt and TSN_lte decide the true order for every width, as long as the counters are less
\* than half the range apart; at half both are less, and beyond it the order turns round.
THEOREM ComparisonsKeepOrder == SerialSpec => []OrderKept
<1>1. SerialTypeOK /\ InvGap => OrderKept
  <2> SUFFICES ASSUME SerialTypeOK, InvGap PROVE OrderKept
    OBVIOUS
  <2>1. /\ Half \in Nat /\ Half > 0 /\ Wrap = 2 * Half /\ s \in 0..(Wrap - 1) /\ t \in 0..(Wrap - 1)
        /\ gap \in Int /\ gap < Wrap /\ -gap < Wrap
    BY HalfAssumption, WindowAssumption DEF SerialTypeOK, Word, Wrap
  <2> QED
    BY <2>1 DEF InvGap, OrderKept, TSN_lt, TSN_lte, Minus
<1> QED
  BY <1>1, GapInvariant, PTL

\* The sign bit of a difference of promoted numbers is that of the wrapped difference, and
\* their conversion is the same word.
LEMMA PromotedDifference ==
  ASSUME NEW x \in Word, NEW y \in Word
  PROVE  /\ (x - y) % Wrap = Minus(x, y)
         /\ ((x - y) \div Half) % 2 = (IF Minus(x, y) >= Half THEN 1 ELSE 0)
<1> DEFINE d == x - y
<1>1. /\ Half \in Int /\ Half > 0 /\ Wrap = 2 * Half /\ Wrap \in Int /\ Wrap > 0
      /\ d \in Int /\ d < Wrap /\ -Wrap < d
  BY HalfAssumption DEF Word, Wrap
<1>2. Minus(x, y) = IF d >= 0 THEN d ELSE d + Wrap
  BY HalfAssumption DEF Minus, Word, Wrap
<1> HIDE DEF d
<1>3. d % Wrap = Minus(x, y)
  <2>1. CASE d >= 0
    BY <1>1, <1>2, <2>1, SmallMod
  <2>2. CASE d < 0
    <3>1. d = Wrap * (-1) + (d + Wrap)
      BY <1>1
    <3>2. d + Wrap \in Int /\ 0 <= d + Wrap /\ d + Wrap < Wrap /\ -1 \in Int
      BY <1>1, <2>2
    <3>3. d % Wrap = d + Wrap
      BY <1>1, <3>1, <3>2, ModIs
    <3> QED
      BY <1>1, <1>2, <2>2, <3>3
  <2> QED
    BY <1>1, <2>1, <2>2
<1>4. ASSUME NEW q \in -2..1, Half * q <= d, d < Half * q + Half
      PROVE  d \div Half = q
  <2>1. Half * q \in Int
    BY <1>1
  <2>2. d = Half * q + (d - Half * q) /\ d - Half * q \in Int /\ 0 <= d - Half * q /\ d - Half * q < Half
    BY <1>1, <1>4, <2>1
  <2> QED
    BY <1>1, <2>2, ModIs
<1>5. ASSUME NEW z \in Int, NEW h \in Int, NEW n \in {0, 1}, z = 2 * h + n
      PROVE  z % 2 = n
  BY <1>5, ModIs
<1>6. (d \div Half) % 2 = (IF Minus(x, y) >= Half THEN 1 ELSE 0)
  <2>1. CASE 0 <= d /\ d < Half
    <3>1. d \div Half = 0
      BY <1>1, <1>4, <2>1
    <3>2. (d \div Half) % 2 = 0
      <4>1. d \div Half \in Int /\ d \div Half = 2 * (0) + 0
        BY <3>1
      <4> QED
        BY <4>1, <1>5
    <3> QED
      BY <1>1, <1>2, <2>1, <3>2
  <2>2. CASE Half <= d
    <3>1. d \div Half = 1
      BY <1>1, <1>4, <2>2
    <3>2. (d \div Half) % 2 = 1
      <4>1. d \div Half \in Int /\ d \div Half = 2 * (0) + 1
        BY <3>1
      <4> QED
        BY <4>1, <1>5
    <3> QED
      BY <1>1, <1>2, <2>2, <3>2
  <2>3. CASE -Half <= d /\ d < 0
    <3>1. d \div Half = -1
      BY <1>1, <1>4, <2>3
    <3>2. (d \div Half) % 2 = 1
      <4>1. d \div Half \in Int /\ d \div Half = 2 * (-1) + 1
        BY <3>1
      <4> QED
        BY <4>1, <1>5
    <3> QED
      BY <1>1, <1>2, <2>3, <3>2
  <2>4. CASE d < -Half
    <3>1. d \div Half = -2
      BY <1>1, <1>4, <2>4
    <3>2. (d \div Half) % 2 = 0
      <4>1. d \div Half \in Int /\ d \div Half = 2 * (-1) + 0
        BY <3>1
      <4> QED
        BY <4>1, <1>5
    <3> QED
      BY <1>1, <1>2, <2>4, <3>2
  <2> QED
    BY <1>1, <2>1, <2>2, <2>3, <2>4
<1> QED
  BY <1>3, <1>6 DEF d

\* The older and newer kernel versions are the same functions, for every width, and so are
\* those for words and those for promoted integers.
THEOREM OldAndNewAgree == SerialSpec => []VersionsAgree
<1>1. SerialTypeOK => VersionsAgree
  <2> SUFFICES ASSUME SerialTypeOK PROVE VersionsAgree
    OBVIOUS
  <2>1. s \in Word /\ t \in Word
    BY DEF SerialTypeOK
  <2>2. /\ Half \in Nat /\ Half > 0 /\ Wrap = 2 * Half /\ Minus(s, t) \in 0..(Wrap - 1)
        /\ Minus(s, t) = 0 <=> s = t
    BY <2>1, HalfAssumption DEF Word, Wrap, Minus
  <2>3. TSN_lt2(s, t) <=> TSN_lt(s, t)
    BY <2>2 DEF TSN_lt, TSN_lt2, Signed
  <2>4. TSN_lte2(s, t) <=> TSN_lte(s, t)
    BY <2>2 DEF TSN_lte, TSN_lte2, Signed
  <2>5. SSN_lt2(s, t) <=> TSN_lt2(s, t)
    BY <2>1, PromotedDifference DEF SSN_lt2, TSN_lt2
  <2>6. SSN_lte2(s, t) <=> TSN_lte2(s, t)
    BY <2>1, PromotedDifference DEF SSN_lte2, TSN_lte2
  <2>7. ((s - t) \div Half) % 2 = 1 <=> Minus(s, t) >= Half
    BY <2>1, PromotedDifference
  <2>8. SSN_lt(s, t) <=> TSN_lt(s, t)
    BY <2>7 DEF SSN_lt, TSN_lt
  <2>9. SSN_lte(s, t) <=> TSN_lte(s, t)
    BY <2>7 DEF SSN_lte, TSN_lte
  <2> QED
    BY <2>3, <2>4, <2>5, <2>6, <2>8, <2>9 DEF VersionsAgree
<1> QED
  BY <1>1, SerialTypeCorrect, PTL

-----------------------------------------------------------------------------
(* Bit fields                                                              *)

\* A count of n has brought a field of that size to x, after some number of whole turns.
Turns(n, size, x) == \E q \in Nat : n = q * size + x

\* The loop over seq counts from 3, the one over pt from 2.
InvBits ==
  /\ bitPc \in {"start", "seq", "between", "pt", "done"}
  /\ guard \in Nat /\ round \in Nat /\ guard < SeqSize
  /\ bitPc = "start" => guard = 0 /\ round = 0
  /\ bitPc = "seq" => round < WordSize /\ Turns(round + 3, SeqSize, guard)
  /\ bitPc = "between" => guard = 2 /\ round = UINT_MAX
  /\ bitPc = "pt" => /\ guard < PtSize /\ round < ShortSize
                     /\ Turns(round + 2, PtSize, guard)
  /\ bitPc = "done" => guard = 1 /\ round = USHRT_MAX

\* One more, in a field: the next value, or 0 after the largest one.
LEMMA FieldSucc ==
  ASSUME NEW size \in Nat \ {0}, NEW x \in Nat, x < size
  PROVE  /\ x % size = x
         /\ (x + 1) % size = IF x = size - 1 THEN 0 ELSE x + 1
<1>1. \A y \in Nat : y < size => y % size = y
  OBVIOUS
<1>2. size % size = 0
  OBVIOUS
<1> QED
  BY <1>1, <1>2

\* An increment of a field counts on, over the end of a turn too.
LEMMA Counting ==
  ASSUME NEW size \in Nat \ {0}, NEW x \in Nat, x < size, NEW n \in Nat,
         Turns(n, size, x),
         NEW y, y = IF x = size - 1 THEN 0 ELSE x + 1
  PROVE  Turns(n + 1, size, y)
<1>1. PICK q \in Nat : n = q * size + x
  BY DEF Turns
<1>2. CASE x = size - 1
  <2>1. (q + 1) * size = q * size + size
    OBVIOUS
  <2>2. n + 1 = (q + 1) * size + 0
    BY <1>1, <1>2, <2>1
  <2> QED
    BY <1>2, <2>2 DEF Turns
<1>3. CASE x # size - 1
  BY <1>1, <1>3 DEF Turns
<1> QED
  BY <1>2, <1>3

\* A field counted up from start as often as a counter of whole turns has values is back
\* where it was.
LEMMA WholeTurns ==
  ASSUME NEW size \in Nat, NEW start \in Nat, start < size, NEW x \in Nat, x < size,
         NEW k \in Nat, NEW q \in Nat, k * size + start = q * size + x
  PROVE  x = start
<1>1. (k - q) * size = x - start
  OBVIOUS
<1>2. k - q \in Int
  OBVIOUS
<1>3. CASE k - q >= 1
  <2>1. (k - q) * size >= size
    BY <1>2, <1>3
  <2> QED
    BY <1>1, <2>1
<1>4. CASE k - q <= -1
  <2>1. (k - q) * size <= -size
    BY <1>2, <1>4
  <2> QED
    BY <1>1, <2>1
<1>5. CASE k - q = 0
  BY <1>1, <1>5
<1> QED
  BY <1>2, <1>3, <1>4, <1>5

\* The sizes as the proofs use them.
LEMMA Sizes ==
  /\ SeqSize \in Nat \ {0} /\ PtSize \in Nat \ {0} /\ WordSize \in Nat /\ ShortSize \in Nat
  /\ 3 < PtSize /\ PtSize < SeqSize /\ 0 < WordSize /\ 0 < ShortSize
<1>1. PICK k \in 2..WordSize : WordSize = k * SeqSize
  BY SizesAssumption
<1>2. PICK m \in 2..ShortSize : ShortSize = m * PtSize
  BY SizesAssumption
<1> QED
  BY <1>1, <1>2, SizesAssumption

\* A round of either loop: it increments the field in place and stays, without meeting a
\* value above the field's largest one, or has come to its limit and leaves.
LEMMA RoundFacts ==
  ASSUME NEW loop, NEW after, NEW size \in Nat \ {0}, NEW limit \in Nat,
         guard \in Nat, round \in Nat, guard < size,
         Round(loop, after, size, size - 1, limit)
  PROVE  /\ bitPc = loop
         /\ \/ /\ round < limit /\ bitPc' = loop /\ round' = round + 1
               /\ guard' = IF guard = size - 1 THEN 0 ELSE guard + 1
            \/ round >= limit /\ bitPc' = after /\ guard' = guard /\ round' = round
<1>1. Incremented(size) = IF guard = size - 1 THEN 0 ELSE guard + 1
  <2>1. guard % size = guard /\ (guard + 1) % size = IF guard = size - 1 THEN 0 ELSE guard + 1
    BY FieldSucc
  <2>2. Incremented(size) = guard - guard + ((guard + 1) % size)
    BY <2>1 DEF Incremented, Store, Field
  <2> QED
    BY <2>1, <2>2
<1>2. CASE round < limit
  <2>1. guard' = (IF guard = size - 1 THEN 0 ELSE guard + 1)
    BY <1>1, <1>2 DEF Round
  <2>2. guard' \in Nat /\ guard' < size
    BY <2>1
  <2>3. ~(Field(guard', size) > size - 1)
    BY <2>2, FieldSucc DEF Field
  <2> QED
    BY <1>2, <2>1, <2>3 DEF Round
<1>3. CASE ~(round < limit)
  BY <1>3 DEF Round
<1> QED
  BY <1>2, <1>3

\* a.seq = BIT_SEQ_MAX + 2 leaves a 1, and a.pt = 3 replaces it.
LEMMA AssignedThree ==
  ASSUME guard = 0
  PROVE  Store(Store(guard, SeqSize, BIT_SEQ_MAX + 2), PtSize, 3) = 3
<1>1. BIT_SEQ_MAX + 2 = SeqSize + 1
  BY Sizes DEF BIT_SEQ_MAX
<1>2. 0 % SeqSize = 0 /\ (SeqSize + 1) % SeqSize = 1
  BY Sizes
<1>3. 1 % PtSize = 1 /\ 3 % PtSize = 3
  BY Sizes
<1> QED
  BY <1>1, <1>2, <1>3 DEF Store, Field

\* Every step keeps the count.
LEMMA BitsStep == InvBits /\ [BitNext]_bitVars => InvBits'
<1> SUFFICES ASSUME InvBits, [BitNext]_bitVars PROVE InvBits'
  OBVIOUS
<1>1. CASE Assign
  <2>1. guard' = 3 /\ round' = 0 /\ bitPc' = "seq"
    BY <1>1, AssignedThree DEF Assign, InvBits
  <2>2. Turns(round' + 3, SeqSize, guard')
    BY <2>1, Sizes DEF Turns
  <2> QED
    BY <2>1, <2>2, Sizes DEF InvBits
<1>2. CASE SeqRound
  <2>1. bitPc = "seq" /\ round < WordSize /\ guard < SeqSize /\ guard \in Nat /\ round \in Nat
    BY <1>2 DEF SeqRound, Round, InvBits
  <2>2. Turns(round + 3, SeqSize, guard)
    BY <2>1 DEF InvBits
  <2>3. \/ /\ round < WordSize - 1 /\ bitPc' = "seq" /\ round' = round + 1
           /\ guard' = IF guard = SeqSize - 1 THEN 0 ELSE guard + 1
        \/ round >= WordSize - 1 /\ bitPc' = "between" /\ guard' = guard /\ round' = round
    BY <1>2, <2>1, Sizes, RoundFacts DEF SeqRound, UINT_MAX, BIT_SEQ_MAX
  <2>4. CASE round < WordSize - 1
    <3>1. Turns(round + 3 + 1, SeqSize, guard')
      <4>1. guard' = (IF guard = SeqSize - 1 THEN 0 ELSE guard + 1) /\ round + 3 \in Nat
        BY <2>1, <2>3, <2>4, Sizes
      <4>2. SeqSize \in Nat \ {0}
        BY Sizes
      <4> QED
        BY <2>1, <2>2, <4>1, <4>2, Counting
    <3>2. round' + 3 = round + 3 + 1 /\ round' \in Nat /\ round' < WordSize /\ bitPc' = "seq"
      BY <2>1, <2>3, <2>4, Sizes
    <3>3. guard' \in Nat /\ guard' < SeqSize
      BY <2>1, <2>3, <2>4, Sizes
    <3> QED
      BY <3>1, <3>2, <3>3 DEF InvBits
  <2>5. CASE round >= WordSize - 1
    <3>1. PICK k \in 2..WordSize : WordSize = k * SeqSize
      BY SizesAssumption
    <3>2. PICK q \in Nat : round + 3 = q * SeqSize + guard
      BY <2>2 DEF Turns
    <3>3. round = WordSize - 1
      BY <2>1, <2>5, Sizes
    <3>4. k * SeqSize + 2 = q * SeqSize + guard
      BY <3>1, <3>2, <3>3, Sizes
    <3>5. k \in Nat /\ SeqSize \in Nat /\ 2 \in Nat /\ 2 < SeqSize
      BY Sizes
    <3>6. guard = 2
      BY <2>1, <3>4, <3>5, WholeTurns
    <3> QED
      BY <2>1, <2>3, <2>5, <3>3, <3>6, Sizes DEF InvBits, UINT_MAX
  <2> QED
    BY <2>1, <2>4, <2>5, Sizes
<1>3. CASE Between
  <2>1. guard' = 2 /\ round' = 0 /\ bitPc' = "pt"
    BY <1>3 DEF Between, InvBits
  <2>2. Turns(round' + 2, PtSize, guard')
    BY <2>1, Sizes DEF Turns
  <2> QED
    BY <2>1, <2>2, Sizes DEF InvBits
<1>4. CASE PtRound
  <2>1. bitPc = "pt" /\ round < ShortSize /\ guard < PtSize /\ guard \in Nat /\ round \in Nat
    BY <1>4 DEF PtRound, Round, InvBits
  <2>2. Turns(round + 2, PtSize, guard)
    BY <2>1 DEF InvBits
  <2>3. \/ /\ round < ShortSize - 1 /\ bitPc' = "pt" /\ round' = round + 1
           /\ guard' = IF guard = PtSize - 1 THEN 0 ELSE guard + 1
        \/ round >= ShortSize - 1 /\ bitPc' = "done" /\ guard' = guard /\ round' = round
    BY <1>4, <2>1, Sizes, RoundFacts DEF PtRound, USHRT_MAX, BIT_PT_MAX
  <2>4. CASE round < ShortSize - 1
    <3>1. Turns(round + 2 + 1, PtSize, guard')
      <4>1. guard' = (IF guard = PtSize - 1 THEN 0 ELSE guard + 1) /\ round + 2 \in Nat
        BY <2>1, <2>3, <2>4, Sizes
      <4>2. PtSize \in Nat \ {0}
        BY Sizes
      <4> QED
        BY <2>1, <2>2, <4>1, <4>2, Counting
    <3>2. round' + 2 = round + 2 + 1 /\ round' \in Nat /\ round' < ShortSize /\ bitPc' = "pt"
      BY <2>1, <2>3, <2>4, Sizes
    <3>3. guard' \in Nat /\ guard' < PtSize /\ guard' < SeqSize
      BY <2>1, <2>3, <2>4, Sizes
    <3> QED
      BY <3>1, <3>2, <3>3 DEF InvBits
  <2>5. CASE round >= ShortSize - 1
    <3>1. PICK k \in 2..ShortSize : ShortSize = k * PtSize
      BY SizesAssumption
    <3>2. PICK q \in Nat : round + 2 = q * PtSize + guard
      BY <2>2 DEF Turns
    <3>3. round = ShortSize - 1
      BY <2>1, <2>5, Sizes
    <3>4. k * PtSize + 1 = q * PtSize + guard
      BY <3>1, <3>2, <3>3, Sizes
    <3>5. k \in Nat /\ PtSize \in Nat /\ 1 \in Nat /\ 1 < PtSize
      BY Sizes
    <3>6. guard = 1
      BY <2>1, <3>4, <3>5, WholeTurns
    <3> QED
      BY <2>1, <2>3, <2>5, <3>3, <3>6, Sizes DEF InvBits, USHRT_MAX
  <2> QED
    BY <2>1, <2>4, <2>5, Sizes
<1>5. CASE UNCHANGED bitVars
  BY <1>5 DEF bitVars, InvBits
<1> QED
  BY <1>1, <1>2, <1>3, <1>4, <1>5 DEF BitNext

\* Whatever the widths, the loops of c/bits/bitincr.c bring each field round in place, to
\* one before where it started, and never over its largest value.
THEOREM FieldsWrap == BitSpec => []WrapsInPlace
<1>1. BitInit => InvBits
  BY Sizes DEF BitInit, InvBits
<1>2. InvBits => WrapsInPlace
  BY Sizes DEF InvBits, WrapsInPlace, BIT_SEQ_MAX
<1> QED
  BY <1>1, <1>2, BitsStep, PTL DEF BitSpec

-----------------------------------------------------------------------------
(* Induction, without an operator to instantiate                           *)

\* Every set of numbers has a least one.
LEMMA LeastNat ==
  ASSUME NEW T \in SUBSET Nat, T # {}
  PROVE  \E x \in T : \A y \in T : x <= y
<1> DEFINE R == {ss \in Nat \X Nat : ss[1] < ss[2]}
<1>1. IsWellFoundedOn(R, Nat)
  BY NatLessThanWellFounded DEF OpToRel
<1>2. PICK x \in T : \A y \in T : ~(<<y, x>> \in R)
  <2> HIDE DEF R
  <2> QED BY <1>1, WFMin
<1>3. ASSUME NEW y \in T PROVE x <= y
  <2>1. y \in Nat /\ x \in Nat /\ <<y, x>> \notin R
    BY <1>2
  <2>2. ~(y < x)
    BY <2>1
  <2> QED
    BY <2>1, <2>2
<1> QED
  BY <1>3

\* A set that has 0 and the successors of its numbers has them all.
LEMMA SetInduction ==
  ASSUME NEW S, 0 \in S, \A n \in Nat : n \in S => n + 1 \in S
  PROVE  Nat \subseteq S
<1> SUFFICES ASSUME Nat \ S # {} PROVE FALSE
  OBVIOUS
<1>1. PICK x \in Nat \ S : \A y \in Nat \ S : x <= y
  BY LeastNat
<1>2. x # 0 /\ x - 1 \in Nat /\ x - 1 \in S
  BY <1>1
<1> QED
  BY <1>2

\* The same, with all smaller numbers to start from.
LEMMA StrongSetInduction ==
  ASSUME NEW S, \A n \in Nat : (\A m \in 0..(n - 1) : m \in S) => n \in S
  PROVE  Nat \subseteq S
<1> SUFFICES ASSUME Nat \ S # {} PROVE FALSE
  OBVIOUS
<1>1. PICK x \in Nat \ S : \A y \in Nat \ S : x <= y
  BY LeastNat
<1>2. \A m \in 0..(x - 1) : m \in S
  BY <1>1
<1> QED
  BY <1>2

-----------------------------------------------------------------------------
(* The arithmetic of c/common/header.h                                     *)

\* The running sums of a sequence of numbers: the recursive definition has a solution.
LEMMA RunningDef ==
  ASSUME NEW w, NEW L \in Nat, L = Len(w), \A i \in 1..L : w[i] \in Nat
  PROVE  /\ Running(w) \in [0..L -> Nat]
         /\ Running(w)[0] = 0
         /\ \A n \in 1..L : Running(w)[n] = Running(w)[n - 1] + w[n]
<1> DEFINE Sums(g, m) == g = [n \in 0..m |-> IF n = 0 THEN 0 ELSE g[n - 1] + w[n]]
<1>1. \A m \in Nat : m <= L => \E g : Sums(g, m)
  <2> DEFINE S == {m \in Nat : m <= L => \E g : Sums(g, m)}
  <2>1. 0 \in S
    <3>1. Sums([n \in 0..0 |-> 0], 0)
      OBVIOUS
    <3> QED
      BY <3>1
  <2>2. ASSUME NEW m \in Nat, m \in S PROVE m + 1 \in S
    <3> SUFFICES ASSUME m + 1 <= L PROVE \E g : Sums(g, m + 1)
      OBVIOUS
    <3>1. PICK g : Sums(g, m)
      BY <2>2
    <3> DEFINE h == [n \in 0..(m + 1) |-> IF n = m + 1 THEN g[m] + w[m + 1] ELSE g[n]]
    <3>2. \A n \in 0..m : g[n] = IF n = 0 THEN 0 ELSE g[n - 1] + w[n]
      BY <3>1
    <3>3. \A n \in 0..(m + 1) : h[n] = IF n = 0 THEN 0 ELSE h[n - 1] + w[n]
      BY <3>2
    <3>4. Sums(h, m + 1)
      BY <3>3
    <3> QED
      BY <3>4
  <2> HIDE DEF S
  <2>3. Nat \subseteq S
    BY <2>1, <2>2, SetInduction
  <2> QED
    BY <2>3 DEF S
<1>2. \E g : Sums(g, L)
  BY <1>1
<1>3. Running(w) = [n \in 0..L |-> IF n = 0 THEN 0 ELSE Running(w)[n - 1] + w[n]]
  BY <1>2 DEF Running
<1>4. \A n \in 0..L : Running(w)[n] = IF n = 0 THEN 0 ELSE Running(w)[n - 1] + w[n]
  BY <1>3
<1>5. \A n \in 0..L : Running(w)[n] \in Nat
  <2> DEFINE S == {m \in Nat : m <= L => Running(w)[m] \in Nat}
  <2>1. 0 \in S
    BY <1>4
  <2>2. ASSUME NEW m \in Nat, m \in S PROVE m + 1 \in S
    BY <2>2, <1>4
  <2> HIDE DEF S
  <2>3. Nat \subseteq S
    BY <2>1, <2>2, SetInduction
  <2> QED
    BY <2>3 DEF S
<1>6. Running(w) \in [0..L -> Nat]
  BY <1>3, <1>5
<1> QED
  BY <1>4, <1>6

\* A word has at least four values.
LEMMA WordFacts == W \in Nat /\ W >= 4 /\ Base \in Nat /\ Base >= 2 /\ W = Base * Base
<1>1. Base \in Nat /\ Base >= 2
  BY BaseAssumption
<1>2. Base * Base >= 2 * Base
  BY <1>1
<1> QED
  BY <1>1, <1>2 DEF W

\* The value of the loop that folds the carries in.
Folded(x) == IF x = 0 THEN 0 ELSE ((x - 1) % (W - 1)) + 1

\* A round of the loop makes a number smaller and keeps it modulo W - 1.
LEMMA FoldRound ==
  ASSUME NEW x \in Nat, x >= W
  PROVE  /\ (x % W) + (x \div W) \in 1..(x - 1)
         /\ Folded((x % W) + (x \div W)) = Folded(x)
<1>0. W \in Int /\ W >= 4 /\ W > 0
  BY WordFacts
<1> DEFINE q == x \div W
           r == x % W
           d == W - 1
<1>1. q \in Int /\ r \in 0..(W - 1) /\ x = W * q + r
  BY <1>0, DivMod
<1> HIDE DEF q, r
<1>2. q >= 1
  <2> SUFFICES ASSUME q <= 0 PROVE FALSE
    BY <1>1
  <2>1. W * q <= 0
    BY <1>0, <1>1
  <2> QED
    BY <1>0, <1>1, <2>1
<1>3. W * q >= 4 * q
  BY <1>0, <1>1, <1>2
<1>4. r + q \in 1..(x - 1)
  BY <1>0, <1>1, <1>2, <1>3
<1> DEFINE y == r + q - 1
           k == y \div d
           u == y % d
<1>5. x - 1 = d * q + y /\ d \in Int /\ d > 0 /\ y \in Int
  BY <1>0, <1>1
<1> HIDE DEF d, y
<1>6. k \in Int /\ u \in 0..(d - 1) /\ y = d * k + u
  BY <1>5, DivMod
<1> HIDE DEF k, u
<1>7. x - 1 = d * (q + k) + u
  BY <1>1, <1>5, <1>6
<1>8. (x - 1) % d = u
  <2>1. x - 1 \in Int /\ q + k \in Int /\ u \in Int /\ 0 <= u /\ u < d
    BY <1>1, <1>5, <1>6
  <2> QED
    BY <1>5, <1>7, <2>1, ModIs
<1>9. Folded(r + q) = u + 1
  BY <1>0, <1>1, <1>4 DEF Folded, u, y, d
<1>10. Folded(x) = u + 1
  BY <1>0, <1>8 DEF Folded, d
<1> QED
  BY <1>4, <1>9, <1>10 DEF q, r

\* while (cksum >> 16) ... leaves the number from 1 to W - 1 that equals its argument modulo
\* W - 1, and 0 of 0 only.
LEMMA FoldValue == \A x \in Nat : Fold[x] = Folded(x)
<1>0. W \in Nat /\ W >= 4
  BY WordFacts
<1>1. \A x \in Nat : x < W => Folded(x) = x
  <2> SUFFICES ASSUME NEW x \in Nat, x < W, x # 0 PROVE (x - 1) % (W - 1) = x - 1
    BY <1>0 DEF Folded
  <2> QED
    BY <1>0
<1> DEFINE G == [x \in Nat |-> Folded(x)]
           E == [x \in Nat |-> IF x < W THEN x ELSE G[(x % W) + (x \div W)]]
<1>2. \A x \in Nat : G[x] = E[x]
  <2> SUFFICES ASSUME NEW x \in Nat PROVE Folded(x) = E[x]
    OBVIOUS
  <2>1. CASE x < W
    BY <1>1, <2>1
  <2>2. CASE x >= W
    <3>1. (x % W) + (x \div W) \in Nat /\ Folded((x % W) + (x \div W)) = Folded(x)
      BY <2>2, FoldRound
    <3> QED
      BY <1>0, <2>2, <3>1
  <2> QED
    BY <1>0, <2>1, <2>2
<1>3. Fold = [x \in Nat |-> IF x < W THEN x ELSE Fold[(x % W) + (x \div W)]]
  <2>1. G = E
    BY <1>2
  <2> HIDE DEF G
  <2> QED
    BY <2>1 DEF Fold
<1> DEFINE S == {x \in Nat : Fold[x] = Folded(x)}
<1>4. ASSUME NEW n \in Nat, \A m \in 0..(n - 1) : m \in S PROVE n \in S
  <2>1. CASE n < W
    BY <1>1, <1>3, <2>1
  <2>2. CASE n >= W
    <3> DEFINE y == (n % W) + (n \div W)
    <3>1. y \in 1..(n - 1) /\ Folded(y) = Folded(n)
      BY <2>2, FoldRound
    <3>2. Fold[n] = Fold[y]
      BY <1>0, <1>3, <2>2
    <3> QED
      BY <1>4, <3>1, <3>2
  <2> QED
    BY <1>0, <2>1, <2>2
<1> HIDE DEF S
<1>5. Nat \subseteq S
  BY <1>4, StrongSetInduction
<1> QED
  BY <1>5 DEF S

\* The weights of a sequence of bytes.
LEMMA WeighedFacts ==
  ASSUME NEW b \in Seq(Byte), NEW f \in Nat, NEW g \in Nat
  PROVE  /\ Len(Weighed(b, f, g)) = Len(b) /\ Len(b) \in Nat
         /\ \A i \in 1..Len(b) : /\ b[i] \in Nat /\ b[i] < Base
                                 /\ i % 2 = 1 => Weighed(b, f, g)[i] = b[i] * f
                                 /\ i % 2 = 0 => Weighed(b, f, g)[i] = b[i] * g
                                 /\ Weighed(b, f, g)[i] \in Nat
<1>1. Base \in Nat /\ Len(b) \in Nat
  BY WordFacts
<1>2. \A i \in 1..Len(b) : b[i] \in Nat /\ b[i] < Base
  BY <1>1 DEF Byte
<1>3. \A i \in 1..Len(b) : b[i] * (IF i % 2 = 1 THEN f ELSE g) \in Nat
  BY <1>2
<1>4. Weighed(b, f, g) \in Seq(Nat)
  BY <1>1, <1>3 DEF Weighed
<1>5. Len(Weighed(b, f, g)) = Len(b)
  BY <1>1, <1>4 DEF Weighed
<1> QED
  BY <1>1, <1>2, <1>3, <1>5 DEF Weighed

\* A sum with one of its numbers replaced.
LEMMA TotalDiffers ==
  ASSUME NEW w, NEW v, NEW L \in Nat, L = Len(w), L = Len(v),
         \A j \in 1..L : w[j] \in Nat /\ v[j] \in Nat,
         NEW i \in 1..L, \A j \in 1..L : j # i => v[j] = w[j]
  PROVE  Total(v) + w[i] = Total(w) + v[i] /\ Total(w) \in Nat /\ Total(v) \in Nat
<1> DEFINE A == Running(w)
           B == Running(v)
<1>1. A \in [0..L -> Nat] /\ A[0] = 0 /\ \A n \in 1..L : A[n] = A[n - 1] + w[n]
  BY RunningDef
<1>2. B \in [0..L -> Nat] /\ B[0] = 0 /\ \A n \in 1..L : B[n] = B[n - 1] + v[n]
  BY RunningDef
<1> HIDE DEF A, B
<1>0. PICK delta \in Int : v[i] = w[i] + delta
  <2>1. v[i] = w[i] + (v[i] - w[i]) /\ v[i] - w[i] \in Int
    OBVIOUS
  <2> QED
    BY <2>1
<1> DEFINE S == {n \in Nat : n <= L => B[n] = IF n < i THEN A[n] ELSE A[n] + delta}
<1>3. 0 \in S
  BY <1>1, <1>2
<1>4. ASSUME NEW n \in Nat, n \in S PROVE n + 1 \in S
  <2> SUFFICES ASSUME n + 1 <= L
               PROVE  B[n + 1] = IF n + 1 < i THEN A[n + 1] ELSE A[n + 1] + delta
    OBVIOUS
  <2>1. n + 1 \in 1..L /\ n \in 0..L /\ (n + 1) - 1 = n
    OBVIOUS
  <2>2. A[n + 1] = A[n] + w[n + 1] /\ B[n + 1] = B[n] + v[n + 1]
    BY <1>1, <1>2, <2>1
  <2>3. A[n] \in Nat /\ w[n + 1] \in Nat
    BY <1>1, <2>1
  <2>4. B[n] = IF n < i THEN A[n] ELSE A[n] + delta
    BY <1>4, <2>1
  <2>5. v[n + 1] = IF n + 1 = i THEN w[n + 1] + delta ELSE w[n + 1]
    BY <1>0, <2>1
  <2> QED
    BY <2>2, <2>3, <2>4, <2>5
<1> HIDE DEF S
<1>5. Nat \subseteq S
  BY <1>3, <1>4, SetInduction
<1>6. B[L] = A[L] + delta
  <2>1. L \in Nat /\ L \in S /\ ~(L < i)
    BY <1>0, <1>5
  <2> QED
    BY <2>1 DEF S
<1>7. Total(w) = A[L] /\ Total(v) = B[L]
  BY DEF Total, A, B
<1>8. A[L] \in Nat /\ B[L] \in Nat /\ w[i] \in Nat
  BY <1>1, <1>2
<1> QED
  BY ONLY <1>0, <1>6, <1>7, <1>8

\* htons() leaves the two bytes of a word, the high one first.
LEMMA HtonsFacts ==
  ASSUME NEW x \in Nat, x < W
  PROVE  /\ htons(x) = <<htons(x)[1], htons(x)[2]>>
         /\ htons(x)[1] \in Byte /\ htons(x)[2] \in Byte
         /\ Base * htons(x)[1] + htons(x)[2] = x
<1>0. W \in Int /\ W > 0 /\ Base \in Int /\ Base >= 2 /\ W = Base * Base
  BY WordFacts
<1>1. x % W = x
  BY <1>0
<1> DEFINE h == x \div Base
           l == x % Base
<1>2. htons(x) = <<h, l>>
  BY <1>1 DEF htons
<1>3. h \in Int /\ l \in 0..(Base - 1) /\ x = Base * h + l
  BY <1>0, DivMod
<1> HIDE DEF h, l
<1>4. h >= 0
  <2> SUFFICES ASSUME h <= -1 PROVE FALSE
    BY <1>3
  <2>1. Base * h <= -Base
    BY <1>0, <1>3
  <2> QED
    BY <1>0, <1>3, <2>1
<1>5. h < Base
  <2> SUFFICES ASSUME h >= Base PROVE FALSE
    BY <1>0, <1>3
  <2>1. Base * h >= Base * Base
    BY <1>0, <1>3
  <2> QED
    BY <1>0, <1>3, <2>1
<1> QED
  BY <1>0, <1>2, <1>3, <1>4, <1>5 DEF Byte

\* The words of a sequence of bytes add up to a number.
LEMMA SumsAreNumbers ==
  ASSUME NEW b \in Seq(Byte)
  PROVE  SumBE(b) \in Nat /\ SumLE(b) \in Nat
<1>0. Base \in Nat /\ 1 \in Nat
  BY WordFacts
<1> SUFFICES ASSUME NEW f \in Nat, NEW g \in Nat PROVE Total(Weighed(b, f, g)) \in Nat
  BY <1>0 DEF SumBE, SumLE
<1> DEFINE w == Weighed(b, f, g)
<1>1. Len(w) = Len(b) /\ Len(b) \in Nat /\ \A i \in 1..Len(b) : w[i] \in Nat
  BY WeighedFacts
<1> HIDE DEF w
<1>2. Running(w) \in [0..Len(b) -> Nat]
  BY <1>1, RunningDef
<1> QED
  BY <1>1, <1>2 DEF Total, w

\* One byte replaced, in a place of weight k.
LEMMA ByteReplaced ==
  ASSUME NEW b \in Seq(Byte), NEW i \in 1..Len(b), NEW x \in Byte,
         NEW k, k = IF i % 2 = 1 THEN Base ELSE 1
  PROVE  /\ [b EXCEPT ![i] = x] \in Seq(Byte) /\ Len([b EXCEPT ![i] = x]) = Len(b)
         /\ SumBE([b EXCEPT ![i] = x]) + b[i] * k = SumBE(b) + x * k
         /\ SumBE(b) \in Nat
<1>0. Base \in Nat /\ Base >= 2 /\ 1 \in Nat
  BY WordFacts
<1> DEFINE c == [b EXCEPT ![i] = x]
           w == Weighed(b, Base, 1)
           v == Weighed(c, Base, 1)
           L == Len(b)
<1>1. c \in Seq(Byte) /\ Len(c) = L /\ L \in Nat
  OBVIOUS
<1>2. c[i] = x /\ \A j \in 1..L : j # i => c[j] = b[j]
  OBVIOUS
<1> HIDE DEF c
<1>3. /\ Len(w) = L /\ \A j \in 1..L : w[j] \in Nat
      /\ w[i] = b[i] * k
  BY <1>0, WeighedFacts
<1>4. /\ Len(v) = L /\ \A j \in 1..L : v[j] \in Nat
      /\ v[i] = x * k
  BY <1>0, <1>1, <1>2, WeighedFacts
<1>5. \A j \in 1..L : j # i => v[j] = w[j]
  BY <1>1, <1>2 DEF Weighed
<1> HIDE DEF w, v
<1>6. Total(v) + w[i] = Total(w) + v[i] /\ Total(w) \in Nat /\ Total(v) \in Nat
  BY <1>1, <1>3, <1>4, <1>5, TotalDiffers
<1> QED
  BY <1>1, <1>3, <1>4, <1>6 DEF SumBE, w, v, c

\* A field of two bytes replaced by a word.
LEMMA FieldReplaced ==
  ASSUME NEW b \in Seq(Byte), NEW at \in Nat, at % 2 = 1, at + 1 <= Len(b),
         NEW x \in Nat, x < W
  PROVE  /\ SetField(b, at, x) \in Seq(Byte) /\ Len(SetField(b, at, x)) = Len(b)
         /\ SetField(b, at, x)[at] = htons(x)[1] /\ SetField(b, at, x)[at + 1] = htons(x)[2]
         /\ \A j \in 1..Len(b) : j \notin {at, at + 1} => SetField(b, at, x)[j] = b[j]
         /\ SumBE(SetField(b, at, x)) + b[at] * Base + b[at + 1] = SumBE(b) + x
         /\ SumBE(SetField(b, at, x)) \in Nat
<1>0. Base \in Nat /\ Base >= 2
  BY WordFacts
<1> DEFINE h == htons(x)[1]
           l == htons(x)[2]
           c == [b EXCEPT ![at] = h]
           d == [c EXCEPT ![at + 1] = l]
<1>1. h \in Byte /\ l \in Byte /\ Base * h + l = x
  BY HtonsFacts
<1>2. SetField(b, at, x) = d
  BY DEF SetField
<1> HIDE DEF h, l
<1>3. at \in 1..Len(b) /\ at + 1 \in 1..Len(b) /\ (at + 1) % 2 = 0
  OBVIOUS
<1>4. /\ c \in Seq(Byte) /\ Len(c) = Len(b)
      /\ SumBE(c) + b[at] * Base = SumBE(b) + h * Base /\ SumBE(b) \in Nat
  BY <1>1, <1>3, ByteReplaced
<1>5. c[at] = h /\ \A j \in 1..Len(b) : j # at => c[j] = b[j]
  OBVIOUS
<1> HIDE DEF c
<1>6. /\ d \in Seq(Byte) /\ Len(d) = Len(c)
      /\ SumBE(d) + c[at + 1] * 1 = SumBE(c) + l * 1 /\ SumBE(c) \in Nat
  BY <1>1, <1>3, <1>4, ByteReplaced
<1>7. d[at + 1] = l /\ \A j \in 1..Len(c) : j # at + 1 => d[j] = c[j]
  BY <1>4
<1>8. SumBE(d) \in Nat
  BY <1>6, SumsAreNumbers
<1> HIDE DEF d
<1>9. c[at + 1] = b[at + 1] /\ b[at] \in Nat /\ b[at + 1] \in Nat /\ h \in Nat /\ l \in Nat
  BY <1>0, <1>1, <1>3, <1>5 DEF Byte
<1>10. SumBE(d) + b[at] * Base + b[at + 1] = SumBE(b) + x
  <2>1. b[at] * Base \in Nat /\ h * Base \in Nat /\ h * Base + l = x
    BY <1>0, <1>1, <1>9
  <2>2. SumBE(d) + b[at + 1] = SumBE(c) + l
    BY <1>6, <1>8, <1>9
  <2> DEFINE D == SumBE(d)
             C == SumBE(c)
             B == SumBE(b)
             m == b[at] * Base
             n == h * Base
             y == b[at + 1]
  <2>3. D + y = C + l /\ C + m = B + n /\ n + l = x
    BY <1>4, <2>1, <2>2
  <2>4. D \in Nat /\ C \in Nat /\ B \in Nat /\ m \in Nat /\ n \in Nat /\ y \in Nat /\ l \in Nat
    BY <1>4, <1>6, <1>8, <1>9, <2>1
  <2> HIDE DEF D, C, B, m, n, y
  <2>5. D + m + y = B + x
    BY <2>3, <2>4
  <2> QED
    BY <2>5 DEF D, B, m, y
<1> QED
  BY <1>2, <1>3, <1>4, <1>5, <1>6, <1>7, <1>8, <1>10 DEF h, l

\* The words of b cannot add up to more than their number allows.
LEMMA SumBound ==
  ASSUME NEW b \in Seq(Byte)
  PROVE  2 * SumBE(b) <= (Len(b) + 1) * (W - 1)
<1>0. Base \in Nat /\ Base >= 2 /\ W \in Nat /\ W = Base * Base /\ 1 \in Nat /\ W >= 4
  BY WordFacts
<1> DEFINE w == Weighed(b, Base, 1)
           L == Len(b)
           R == Running(w)
           d == W - 1
<1>1. /\ Len(w) = L /\ L \in Nat
      /\ \A i \in 1..L : /\ w[i] \in Nat
                         /\ i % 2 = 1 => w[i] <= W - Base
                         /\ i % 2 = 0 => w[i] <= Base - 1
  <2>1. /\ Len(w) = L /\ L \in Nat
        /\ \A i \in 1..L : /\ b[i] \in Nat /\ b[i] < Base /\ w[i] \in Nat
                           /\ i % 2 = 1 => w[i] = b[i] * Base
                           /\ i % 2 = 0 => w[i] = b[i] * 1
    BY <1>0, WeighedFacts
  <2>2. \A x \in Nat : x < Base => x * Base <= W - Base
    <3> SUFFICES ASSUME NEW x \in Nat, x <= Base - 1 PROVE x * Base <= W - Base
      BY <1>0
    <3>1. x * Base <= (Base - 1) * Base
      BY <1>0
    <3> QED
      BY <1>0, <3>1
  <2>3. \A i \in 1..L : i % 2 = 0 => w[i] <= Base - 1
    BY <1>0, <2>1
  <2> QED
    BY <2>1, <2>2, <2>3
<1> HIDE DEF w
<1>2. R \in [0..L -> Nat] /\ R[0] = 0 /\ \A n \in 1..L : R[n] = R[n - 1] + w[n]
  BY <1>1, RunningDef
<1> HIDE DEF R
<1>3. d \in Nat /\ d = W - 1
  BY <1>0
<1> HIDE DEF d
<1> DEFINE S == {n \in Nat : n <= L =>
                   IF n % 2 = 0 THEN 2 * R[n] <= n * d
                                ELSE 2 * R[n] <= (n - 1) * d + 2 * (W - Base)}
<1>4. 0 \in S
  BY <1>2, <1>3
<1>5. ASSUME NEW n \in Nat, n \in S PROVE n + 1 \in S
  <2> SUFFICES ASSUME n + 1 <= L
               PROVE  IF (n + 1) % 2 = 0 THEN 2 * R[n + 1] <= (n + 1) * d
                                ELSE 2 * R[n + 1] <= n * d + 2 * (W - Base)
    OBVIOUS
  <2>1. n + 1 \in 1..L /\ n \in 0..L /\ (n + 1) - 1 = n
    BY <1>1
  <2>2. R[n + 1] = R[n] + w[n + 1] /\ R[n] \in Nat /\ w[n + 1] \in Nat
    BY <1>1, <1>2, <2>1
  <2>3. CASE n % 2 = 0
    <3>1. (n + 1) % 2 = 1
      BY <2>3
    <3>2. w[n + 1] <= W - Base /\ 2 * R[n] <= n * d
      BY <1>1, <1>5, <2>1, <2>3, <3>1
    <3>3. n * d \in Nat
      BY <1>3
    <3> QED
      BY <1>0, <2>2, <3>1, <3>2, <3>3
  <2>4. CASE n % 2 = 1
    <3>1. (n + 1) % 2 = 0
      BY <2>4
    <3>2. w[n + 1] <= Base - 1 /\ 2 * R[n] <= (n - 1) * d + 2 * (W - Base)
      BY <1>1, <1>5, <2>1, <2>4, <3>1
    <3>3. (n + 1) * d = (n - 1) * d + 2 * d /\ (n - 1) * d \in Int /\ (n + 1) * d \in Int
      <4>1. PICK m \in Int : n = m + 1
        BY <2>4
      <4>2. n + 1 = m + 2 /\ n - 1 = m /\ d \in Int
        BY <1>3, <4>1
      <4>3. (m + 2) * d = m * d + 2 * d /\ m * d \in Int /\ (m + 2) * d \in Int
        BY ONLY <4>2, m \in Int
      <4> QED
        BY <4>2, <4>3
    <3> QED
      BY <1>0, <1>3, <2>2, <3>1, <3>2, <3>3
  <2> QED
    BY <2>3, <2>4
<1> HIDE DEF S
<1>6. Nat \subseteq S
  BY <1>4, <1>5, SetInduction
<1>7. 2 * R[L] <= (L + 1) * d
  <2>1. R[L] \in Nat
    BY <1>1, <1>2
  <2>2. CASE L % 2 = 0
    <3>1. 2 * R[L] <= L * d
      BY <1>1, <1>6, <2>2 DEF S
    <3> DEFINE m == L * d
    <3>2. (L + 1) * d = m + d /\ m \in Nat /\ 2 * R[L] <= m
      BY <1>1, <1>3, <3>1
    <3> HIDE DEF m
    <3> QED
      BY <1>3, <2>1, <3>2
  <2>3. CASE L % 2 = 1
    <3>1. 2 * R[L] <= (L - 1) * d + 2 * (W - Base)
      BY <1>1, <1>6, <2>3 DEF S
    <3>2. (L + 1) * d = (L - 1) * d + 2 * d /\ (L - 1) * d \in Int
      BY <1>1, <1>3
    <3> QED
      BY <1>0, <1>3, <2>1, <3>1, <3>2
  <2> QED
    BY <1>1, <2>2, <2>3
<1> QED
  BY <1>1, <1>7 DEF SumBE, Total, R, w, d

\* Up to W bytes add up to less than half of what 32 bits hold.
LEMMA NoOverflow ==
  ASSUME NEW b \in Seq(Byte), Len(b) <= W, NEW c \in Nat, c <= 2 * W
  PROVE  c + SumBE(b) \in Nat /\ (c + SumBE(b)) % (W * W) = c + SumBE(b)
<1>0. W \in Nat /\ W >= 4 /\ Base \in Nat
  BY WordFacts
<1>1. SumBE(b) \in Nat /\ Len(b) \in Nat
  BY SumsAreNumbers
<1>2. 2 * SumBE(b) <= (Len(b) + 1) * (W - 1)
  BY SumBound
<1>3. (Len(b) + 1) * (W - 1) <= (W + 1) * (W - 1)
  BY <1>0, <1>1
<1>4. (W + 1) * (W - 1) = W * W - 1
  BY <1>0
<1>5. 4 * W <= W * W /\ W * W \in Nat
  BY <1>0
<1>6. c + SumBE(b) < W * W
  BY <1>0, <1>1, <1>2, <1>3, <1>4, <1>5
<1> DEFINE x == c + SumBE(b)
           m == W * W
<1>7. x \in Nat /\ m \in Nat /\ x < m
  BY <1>1, <1>5, <1>6
<1> HIDE DEF x, m
<1>8. x % m = x
  BY <1>7
<1> QED
  BY <1>7, <1>8 DEF x, m

\* Equal modulo W - 1: what carries folded in do not change.
Same(x, y) == \E k \in Int : x = y + (W - 1) * k

\* The same number added to both.
LEMMA SameAdds ==
  ASSUME NEW x \in Int, NEW y \in Int, Same(x, y), NEW z \in Int
  PROVE  Same(x + z, y + z)
<1>0. W \in Int
  BY WordFacts
<1>1. PICK k \in Int : x = y + (W - 1) * k
  BY DEF Same
<1>2. (W - 1) * k \in Int
  BY <1>0
<1>3. x + z = (y + z) + (W - 1) * k
  BY <1>1, <1>2
<1> QED
  BY <1>3 DEF Same

\* From one to the next.
LEMMA SameTransitive ==
  ASSUME NEW x \in Int, NEW y \in Int, NEW z \in Int, Same(x, y), Same(y, z)
  PROVE  Same(x, z)
<1>0. W \in Int
  BY WordFacts
<1>1. PICK k \in Int : x = y + (W - 1) * k
  BY DEF Same
<1>2. PICK m \in Int : y = z + (W - 1) * m
  BY DEF Same
<1>3. (W - 1) * (m + k) = (W - 1) * m + (W - 1) * k
  BY <1>0
<1>4. (W - 1) * k \in Int /\ (W - 1) * m \in Int /\ m + k \in Int
  BY <1>0
<1>5. x = z + (W - 1) * (m + k)
  BY <1>1, <1>2, <1>3, <1>4
<1> QED
  BY <1>4, <1>5 DEF Same

\* What Fold[] keeps, and how far it reduces.
LEMMA FoldFacts ==
  ASSUME NEW x \in Nat
  PROVE  Fold[x] \in Nat /\ Fold[x] < W /\ Same(Fold[x], x)
<1>0. W \in Int /\ W >= 4 /\ W - 1 > 0 /\ W - 1 \in Int
  BY WordFacts
<1>1. Fold[x] = Folded(x)
  BY FoldValue
<1>2. CASE x = 0
  <2>1. 0 = 0 + (W - 1) * 0
    BY <1>0
  <2> QED
    BY <1>0, <1>1, <1>2, <2>1 DEF Folded, Same
<1>3. CASE x # 0
  <2> DEFINE d == W - 1
             q == (x - 1) \div d
             r == (x - 1) % d
  <2>1. x - 1 \in Int /\ d \in Int /\ d > 0
    BY <1>0
  <2> HIDE DEF d
  <2>2. q \in Int /\ r \in 0..(d - 1) /\ x - 1 = d * q + r
    BY <2>1, DivMod
  <2>3. Folded(x) = r + 1
    BY <1>3 DEF Folded, d
  <2> HIDE DEF q, r
  <2>4. r + 1 = x + d * (-q) /\ -q \in Int
    BY <2>1, <2>2
  <2>5. r + 1 \in Nat /\ r + 1 < W
    BY <1>0, <2>2 DEF d
  <2> QED
    BY <1>1, <2>3, <2>4, <2>5 DEF Same, d
<1> QED
  BY <1>2, <1>3

\* Checksum() of up to W bytes: a word, equal to its arguments' sum modulo W - 1.
LEMMA ChecksumFacts ==
  ASSUME NEW b \in Seq(Byte), Len(b) <= W, NEW c \in Nat, c <= 2 * W, c < W \/ b # <<>>
  PROVE  /\ Checksum(c, b) \in Nat /\ Checksum(c, b) < W
         /\ Same(Checksum(c, b), c + SumBE(b))
<1>0. W \in Int /\ W >= 4 /\ Base \in Nat /\ 1 \in Nat
  BY WordFacts
<1>1. CASE b = <<>>
  <2>1. Checksum(c, b) = c
    BY <1>1 DEF Checksum
  <2> DEFINE w == Weighed(b, Base, 1)
  <2>2. Len(w) = 0
    <3>1. Len(w) = Len(b)
      BY <1>0, WeighedFacts
    <3>2. Len(b) = 0
      BY <1>1
    <3> QED
      BY <3>1, <3>2
  <2>3. SumBE(b) = 0
    <3> HIDE DEF w
    <3>1. Running(w)[0] = 0
      BY <2>2, RunningDef
    <3> QED
      BY <2>2, <3>1 DEF SumBE, Total, w
  <2>4. c = (c + 0) + (W - 1) * 0
    BY <1>0
  <2> QED
    BY <1>1, <2>1, <2>3, <2>4 DEF Same
<1>2. CASE b # <<>>
  <2>1. c + SumBE(b) \in Nat /\ (c + SumBE(b)) % (W * W) = c + SumBE(b)
    BY NoOverflow
  <2>2. Checksum(c, b) = Fold[c + SumBE(b)]
    BY <1>2, <2>1 DEF Checksum
  <2> QED
    BY <2>1, <2>2, FoldFacts
<1> QED
  BY <1>1, <1>2

\* A checksum that is the complement of the sum of the rest makes the whole a multiple of W - 1.
LEMMA ComplementVerifies ==
  ASSUME NEW c \in Nat, c < W, NEW x \in Nat, Same(c, x)
  PROVE  Not(c) \in Nat /\ Not(c) < W /\ (x + Not(c)) % (W - 1) = 0
<1>0. W \in Int /\ W >= 4
  BY WordFacts
<1> DEFINE d == W - 1
<1>1. d \in Int /\ d > 0
  BY <1>0
<1>2. Not(c) = d - c
  <2>1. c % W = c
    BY <1>0
  <2> QED
    BY <2>1 DEF Not
<1>3. PICK k \in Int : c = x + d * k
  BY DEF Same
<1> HIDE DEF d
<1>4. x + (d - c) = d * (1 - k) + 0 /\ 1 - k \in Int
  BY <1>1, <1>3
<1>5. (x + (d - c)) % d = 0
  <2>1. x + (d - c) \in Int /\ 0 \in Int /\ 0 <= 0 /\ 0 < d
    BY <1>1
  <2> QED
    BY <1>1, <1>4, <2>1, ModIs
<1> QED
  BY <1>0, <1>2, <1>5 DEF d

\* A zero word has zero bytes.
LEMMA HtonsZero == htons(0)[1] = 0 /\ htons(0)[2] = 0
<1>0. W \in Int /\ W > 0 /\ Base \in Int /\ Base >= 2
  BY WordFacts
<1>1. 0 % W = 0 /\ 0 \div Base = 0 /\ 0 % Base = 0
  BY <1>0
<1> QED
  BY <1>1 DEF htons

\* A datagram as it is summed.
LEMMA ClearedFacts ==
  ASSUME NEW udp \in Seq(Byte), 8 <= Len(udp), Len(udp) < W
  PROVE  /\ Cleared(udp) \in Seq(Byte) /\ Len(Cleared(udp)) = Len(udp)
         /\ Cleared(udp)[5] = htons(Len(udp))[1] /\ Cleared(udp)[6] = htons(Len(udp))[2]
         /\ Cleared(udp)[7] = 0 /\ Cleared(udp)[8] = 0
         /\ \A j \in 1..Len(udp) : j \notin 5..8 => Cleared(udp)[j] = udp[j]
<1>0. W \in Int /\ W >= 4 /\ Len(udp) \in Nat
  BY WordFacts
<1> DEFINE n == Len(udp)
           c == SetField(udp, 5, n)
           e == SetField(c, 7, 0)
<1>1. /\ c \in Seq(Byte) /\ Len(c) = n /\ c[5] = htons(n)[1] /\ c[6] = htons(n)[2]
      /\ \A j \in 1..n : j \notin {5, 6} => c[j] = udp[j]
  <2>1. 5 % 2 = 1 /\ 5 + 1 <= n /\ 5 \in Nat /\ 5 + 1 = 6
    BY <1>0
  <2> QED
    BY <1>0, <2>1, FieldReplaced
<1>2. Cleared(udp) = e
  BY DEF Cleared, LengthAt, ChecksumAt
<1> HIDE DEF c
<1>3. /\ e \in Seq(Byte) /\ Len(e) = n /\ e[7] = 0 /\ e[8] = 0
      /\ \A j \in 1..n : j \notin {7, 8} => e[j] = c[j]
  <2>1. 7 % 2 = 1 /\ 7 + 1 <= Len(c) /\ 7 \in Nat /\ 7 + 1 = 8 /\ 0 < W /\ 0 \in Nat
    BY <1>0, <1>1
  <2>2. /\ e \in Seq(Byte) /\ Len(e) = Len(c) /\ e[7] = htons(0)[1] /\ e[8] = htons(0)[2]
        /\ \A j \in 1..Len(c) : j \notin {7, 8} => e[j] = c[j]
    BY <1>1, <2>1, FieldReplaced
  <2> QED
    BY <1>1, <2>2, HtonsZero
<1> HIDE DEF e
<1>4. e[5] = c[5] /\ e[6] = c[6] /\ \A j \in 1..n : j \notin 5..8 => e[j] = udp[j]
  BY <1>0, <1>1, <1>3
<1> QED
  BY <1>1, <1>2, <1>3, <1>4

\* Pseudo header and datagram, summed one after the other.
LEMMA PseudoSumFacts ==
  ASSUME NEW sa \in Seq(Byte), NEW b \in Seq(Byte), NEW p \in Byte, NEW udp \in Seq(Byte),
         Len(sa) < W, Len(b) < W, 0 < Len(udp), Len(udp) < W
  PROVE  /\ PseudoSum(sa, b, p, udp) \in Nat /\ PseudoSum(sa, b, p, udp) < W
         /\ Same(PseudoSum(sa, b, p, udp), SumBE(sa) + SumBE(b) + p + Len(udp) + SumBE(udp))
         /\ SumBE(sa) + SumBE(b) + p + Len(udp) + SumBE(udp) \in Nat
<1>0. W \in Nat /\ W >= 4 /\ Len(udp) \in Nat /\ Len(sa) \in Nat /\ Len(b) \in Nat
  BY WordFacts
<1>1. SumBE(sa) \in Nat /\ SumBE(b) \in Nat /\ SumBE(udp) \in Nat
  BY SumsAreNumbers
<1>2. p \in Nat /\ p < W
  <2>1. Base \in Nat /\ Base >= 2 /\ W = Base * Base
    BY WordFacts
  <2>2. Base <= Base * Base
    BY <2>1
  <2>3. p \in Int /\ 0 <= p /\ p <= Base - 1
    BY <2>1 DEF Byte
  <2> QED
    BY ONLY <2>1, <2>2, <2>3
<1> DEFINE n  == Len(udp)
           c1 == Checksum(n, sa)
           c2 == Checksum(c1, b)
           c3 == Checksum(c2 + p, udp)
           A  == SumBE(sa)
           B  == SumBE(b)
           U  == SumBE(udp)
<1>3. c1 \in Nat /\ c1 < W /\ Same(c1, n + A)
  BY <1>0, ChecksumFacts
<1> HIDE DEF c1
<1>4. c2 \in Nat /\ c2 < W /\ Same(c2, c1 + B)
  BY <1>0, <1>3, ChecksumFacts
<1> HIDE DEF c2
<1>5. c3 \in Nat /\ c3 < W /\ Same(c3, (c2 + p) + U)
  <2>1. c2 + p \in Nat /\ c2 + p <= 2 * W /\ udp # <<>> /\ Len(udp) <= W
    BY <1>0, <1>2, <1>4
  <2> QED
    BY <2>1, ChecksumFacts
<1> HIDE DEF c3
<1>6. n \in Nat /\ A \in Nat /\ B \in Nat /\ U \in Nat
  BY <1>0, <1>1
<1> HIDE DEF n, A, B, U
<1>7. Same(c1 + (B + p + U), (n + A) + (B + p + U))
  <2>1. c1 \in Int /\ n + A \in Int /\ B + p + U \in Int
    BY <1>2, <1>3, <1>6
  <2> QED
    BY <1>3, <2>1, SameAdds
<1>8. Same(c2 + (p + U), (c1 + B) + (p + U))
  <2>1. c2 \in Int /\ c1 + B \in Int /\ p + U \in Int
    BY <1>2, <1>3, <1>4, <1>6
  <2> QED
    BY <1>4, <2>1, SameAdds
<1>9. /\ (c1 + B) + (p + U) = c1 + (B + p + U) /\ (c2 + p) + U = c2 + (p + U)
      /\ (n + A) + (B + p + U) = A + B + p + n + U
  BY <1>2, <1>3, <1>4, <1>6
<1>10. Same(c2 + (p + U), A + B + p + n + U)
  <2>1. /\ c2 + (p + U) \in Int /\ c1 + (B + p + U) \in Int /\ A + B + p + n + U \in Int
    BY <1>2, <1>3, <1>4, <1>6
  <2>2. Same(c2 + (p + U), c1 + (B + p + U)) /\ Same(c1 + (B + p + U), A + B + p + n + U)
    BY <1>7, <1>8, <1>9
  <2> QED
    BY <2>1, <2>2, SameTransitive
<1>11. Same(c3, A + B + p + n + U)
  <2>1. /\ c3 \in Int /\ c2 + (p + U) \in Int /\ A + B + p + n + U \in Int
    BY <1>2, <1>4, <1>5, <1>6
  <2>2. Same(c3, c2 + (p + U))
    BY <1>5, <1>9
  <2> QED
    BY <1>10, <2>1, <2>2, SameTransitive
<1>12. A + B + p + n + U \in Nat
  BY <1>2, <1>6
<1>13. PseudoSum(sa, b, p, udp) = c3
  BY DEF PseudoSum, c1, c2, c3, n
<1> QED
  BY <1>5, <1>11, <1>12, <1>13 DEF A, B, U, n

\* A word stored where zeros stood.
LEMMA ZerosReplaced ==
  ASSUME NEW c \in Seq(Byte), NEW i \in Nat, NEW j, j = i + 1, i % 2 = 1, j <= Len(c),
         c[i] = 0, c[j] = 0, NEW y \in Nat, y < W, NEW out, out = SetField(c, i, y)
  PROVE  /\ out \in Seq(Byte) /\ Len(out) = Len(c)
         /\ out[i] = htons(y)[1] /\ out[j] = htons(y)[2]
           /\ SumBE(out) = SumBE(c) + y
<1>1. /\ out \in Seq(Byte) /\ Len(out) = Len(c)
      /\ out[i] = htons(y)[1] /\ out[j] = htons(y)[2]
        /\ SumBE(out) + c[i] * Base + c[j] = SumBE(c) + y /\ SumBE(out) \in Nat
  BY FieldReplaced
<1>2. Base \in Nat /\ SumBE(c) \in Nat
  BY WordFacts, SumsAreNumbers
<1>3. c[i] * Base = 0
  BY <1>2
<1> QED
  BY <1>1, <1>2, <1>3

\* out is the datagram udp with its length field set, its checksum written and nothing else
\* changed.
Rewritten(udp, out) ==
  /\ out \in Seq(Byte) /\ Len(out) = Len(udp)
  /\ out[5] = htons(Len(udp))[1] /\ out[6] = htons(Len(udp))[2]
  /\ \A j \in 1..Len(udp) : j \notin 5..8 => out[j] = udp[j]

\* What a receiver does with a datagram that adds up: it takes it, unless it came over IPv6
\* and its checksum is zero.
LEMMA AddsUp ==
  ASSUME NEW six, NEW sa, NEW da, NEW p, NEW u, Verifies(sa, da, p, u)
  PROVE  Accepts(six, sa, da, p, u) <=> ~(six /\ NoChecksum(u))
BY DEF Accepts

\* udp4_header_checksum and udp6_header_checksum, for every pair of addresses and every content
\* of odd or even length: the datagram adds up, and the receiver takes it unless it came over
\* IPv6 with the checksum zero that these functions can leave.
THEOREM UdpChecksumVerifies ==
  ASSUME NEW sa \in Seq(Byte), NEW b \in Seq(Byte), NEW p \in Byte, NEW udp \in Seq(Byte),
         Len(sa) < W, Len(b) < W, 8 <= Len(udp), Len(udp) < W
  PROVE  /\ Rewritten(udp, udp_header_checksum(sa, b, p, udp))
         /\ Verifies(sa, b, p, udp_header_checksum(sa, b, p, udp))
         /\ \A six \in BOOLEAN :
              Accepts(six, sa, b, p, udp_header_checksum(sa, b, p, udp)) <=>
                ~(six /\ NoChecksum(udp_header_checksum(sa, b, p, udp)))
<1>0. W \in Nat /\ W >= 4 /\ Len(udp) \in Nat
  BY WordFacts
<1> DEFINE c == Cleared(udp)
           n == Len(udp)
           s0 == PseudoSum(sa, b, p, c)
           out == udp_header_checksum(sa, b, p, udp)
           x == SumBE(sa) + SumBE(b) + p + Len(c) + SumBE(c)
<1>1. /\ c \in Seq(Byte) /\ Len(c) = n /\ c[5] = htons(n)[1] /\ c[6] = htons(n)[2]
      /\ c[7] = 0 /\ c[8] = 0
      /\ \A j \in 1..n : j \notin 5..8 => c[j] = udp[j]
  BY ClearedFacts
<1>2. udp_header_checksum(sa, b, p, udp) = SetField(c, 7, Not(s0))
  BY DEF udp_header_checksum, ChecksumAt
<1> HIDE DEF c
<1>3. s0 \in Nat /\ s0 < W /\ Same(s0, x) /\ x \in Nat
  <2>1. 0 < Len(c) /\ Len(c) < W
    BY <1>0, <1>1
  <2> QED
    BY <1>1, <2>1, PseudoSumFacts
<1> HIDE DEF s0
<1>4. Not(s0) \in Nat /\ Not(s0) < W /\ (x + Not(s0)) % (W - 1) = 0
  <2> HIDE DEF x
  <2> QED
    BY <1>3, ComplementVerifies
<1> DEFINE y == Not(s0)
<1>5. y \in Nat /\ y < W /\ (x + y) % (W - 1) = 0 /\ out = SetField(c, 7, y)
  BY <1>2, <1>4
<1> HIDE DEF y, out
<1>6. /\ out \in Seq(Byte) /\ Len(out) = Len(c)
      /\ \A m \in 1..Len(c) : m # 7 /\ m # 8 => out[m] = c[m]
      /\ SumBE(out) = SumBE(c) + y
  <2>1. 7 % 2 = 1 /\ 8 <= Len(c) /\ 7 \in Nat /\ 8 = 7 + 1
    BY <1>0, <1>1
  <2>2. c \in Seq(Byte) /\ c[7] = 0 /\ c[8] = 0 /\ y \in Nat /\ y < W /\ out = SetField(c, 7, y)
    BY <1>1, <1>5
  <2>3. SumBE(out) = SumBE(c) + y /\ out \in Seq(Byte) /\ Len(out) = Len(c)
    BY <2>1, <2>2, ZerosReplaced
  <2>4. ASSUME NEW m \in 1..Len(c), m # 7, m # 8 PROVE out[m] = c[m]
    BY <2>2, <2>4 DEF SetField
  <2> QED
    BY <2>3, <2>4
<1>8. Verifies(sa, b, p, out)
  <2>1. SumBE(sa) \in Nat /\ SumBE(b) \in Nat /\ SumBE(c) \in Nat /\ p \in Nat
    BY <1>1, SumsAreNumbers, WordFacts DEF Byte
  <2>2. SumBE(sa) + SumBE(b) + p + Len(out) + SumBE(out) = x + y
    <3>1. Len(out) = Len(c) /\ Len(c) \in Nat /\ SumBE(out) = SumBE(c) + y /\ y \in Nat
      BY <1>0, <1>1, <1>5, <1>6
    <3> QED
      BY ONLY <2>1, <3>1 DEF x
  <2> HIDE DEF x
  <2> QED
    BY <1>5, <2>2 DEF Verifies
<1>9. out[5] = c[5] /\ out[6] = c[6] /\ \A j \in 1..n : j \notin 5..8 => out[j] = udp[j]
  BY <1>0, <1>1, <1>6
<1>10. \A six \in BOOLEAN : Accepts(six, sa, b, p, out) <=> ~(six /\ NoChecksum(out))
  BY <1>8, AddsUp
<1> QED
  BY <1>1, <1>6, <1>8, <1>9, <1>10 DEF Rewritten, out

\* ipv4_header_checksum, for every header.
THEOREM IPv4ChecksumVerifies ==
  ASSUME NEW header \in Seq(Byte), 12 <= Len(header), Len(header) <= W
  PROVE  SumBE(ipv4_header_checksum(header)) % (W - 1) = 0
<1>0. W \in Nat /\ W >= 4 /\ Base \in Nat /\ Len(header) \in Nat
  BY WordFacts
<1> DEFINE c == SetField(header, 11, 0)
           s0 == Checksum(0, c)
           y == Not(s0)
           out == SetField(c, 11, y)
<1>1. /\ c \in Seq(Byte) /\ Len(c) = Len(header)
      /\ c[11] = htons(0)[1] /\ c[12] = htons(0)[2]
  <2>1. 11 % 2 = 1 /\ 11 + 1 <= Len(header) /\ 11 \in Nat /\ 11 + 1 = 12 /\ 0 < W /\ 0 \in Nat
    BY <1>0
  <2> QED
    BY <2>1, FieldReplaced
<1>2. ipv4_header_checksum(header) = out
  BY DEF ipv4_header_checksum, IPv4ChecksumAt
<1> HIDE DEF c
<1>3. s0 \in Nat /\ s0 < W /\ Same(s0, 0 + SumBE(c)) /\ SumBE(c) \in Nat
  <2>1. 0 \in Nat /\ 0 <= 2 * W /\ 0 < W
    BY <1>0
  <2> QED
    BY <1>1, <2>1, ChecksumFacts, SumsAreNumbers
<1> HIDE DEF s0
<1>4. y \in Nat /\ y < W /\ (SumBE(c) + y) % (W - 1) = 0
  <2>1. 0 + SumBE(c) = SumBE(c)
    BY <1>3
  <2> QED
    BY <1>3, <2>1, ComplementVerifies
<1> HIDE DEF y
<1>5. SumBE(out) = SumBE(c) + y
  <2>1. 11 % 2 = 1 /\ 12 <= Len(c) /\ 11 \in Nat /\ 12 = 11 + 1
    BY <1>0, <1>1
  <2>2. c[11] = 0 /\ c[12] = 0
    BY <1>1, HtonsZero
  <2> QED
    BY <1>1, <1>4, <2>1, <2>2, ZerosReplaced
<1> QED
  BY <1>2, <1>4, <1>5

\* Bytes read in the other order: the sums differ by a factor modulo W - 1, and are zero
\* together.
LEMMA OtherOrder ==
  ASSUME NEW b \in Seq(Byte)
  PROVE  Same(Base * SumLE(b), SumBE(b)) /\ (SumLE(b) = 0 <=> SumBE(b) = 0)
<1>0. Base \in Nat /\ Base >= 2 /\ W \in Int /\ W = Base * Base /\ 1 \in Nat
  BY WordFacts
<1> DEFINE v == Weighed(b, 1, Base)
           w == Weighed(b, Base, 1)
           L == Len(b)
           P == Running(v)
           Q == Running(w)
<1>1. /\ Len(v) = L /\ Len(w) = L /\ L \in Nat
      /\ \A i \in 1..L : /\ b[i] \in Nat /\ v[i] \in Nat /\ w[i] \in Nat
                         /\ i % 2 = 1 => v[i] = b[i] * 1 /\ w[i] = b[i] * Base
                         /\ i % 2 = 0 => v[i] = b[i] * Base /\ w[i] = b[i] * 1
  BY <1>0, WeighedFacts
<1> HIDE DEF v, w
<1>2. ASSUME NEW i \in 1..L
      PROVE  (\E m \in Int : Base * v[i] = w[i] + (W - 1) * m) /\ (v[i] = 0 <=> w[i] = 0)
  <2> DEFINE x == b[i]
  <2>1. x \in Nat
    BY <1>1
  <2>2. CASE i % 2 = 1
    <3>1. v[i] = x /\ w[i] = x * Base
      BY <1>1, <2>1, <2>2
    <3> HIDE DEF x
    <3>2. Base * x = x * Base + (W - 1) * 0
      BY <1>0, <2>1
    <3>3. x = 0 <=> x * Base = 0
      BY <1>0, <2>1
    <3> QED
      BY <3>1, <3>2, <3>3
  <2>3. CASE i % 2 = 0
    <3>1. v[i] = x * Base /\ w[i] = x
      BY <1>1, <2>1, <2>3
    <3> HIDE DEF x
    <3>2. Base * (x * Base) = x + (W - 1) * x
      <4>1. Base * (x * Base) = (Base * Base) * x
        BY <1>0, <2>1
      <4>2. W * x = x + (W - 1) * x
        BY <1>0, <2>1
      <4> QED
        BY <1>0, <4>1, <4>2
    <3>3. x = 0 <=> x * Base = 0
      BY <1>0, <2>1
    <3> QED
      BY <2>1, <3>1, <3>2, <3>3
  <2> QED
    BY <2>2, <2>3
<1>3. P \in [0..L -> Nat] /\ P[0] = 0 /\ \A n \in 1..L : P[n] = P[n - 1] + v[n]
  BY <1>1, RunningDef
<1>4. Q \in [0..L -> Nat] /\ Q[0] = 0 /\ \A n \in 1..L : Q[n] = Q[n - 1] + w[n]
  BY <1>1, RunningDef
<1> HIDE DEF P, Q
<1> DEFINE S == {n \in Nat : n <= L =>
                   Same(Base * P[n], Q[n]) /\ (P[n] = 0 <=> Q[n] = 0)}
<1>5. 0 \in S
  <2>1. Base * 0 = 0 + (W - 1) * 0
    BY <1>0
  <2> QED
    BY <1>3, <1>4, <2>1 DEF Same
<1>6. ASSUME NEW n \in Nat, n \in S PROVE n + 1 \in S
  <2> SUFFICES ASSUME n + 1 <= L
               PROVE  /\ Same(Base * P[n + 1], Q[n + 1])
                      /\ P[n + 1] = 0 <=> Q[n + 1] = 0
    OBVIOUS
  <2>1. n + 1 \in 1..L /\ n \in 0..L /\ (n + 1) - 1 = n
    BY <1>1
  <2> DEFINE p == P[n]
             q == Q[n]
             x == v[n + 1]
             y == w[n + 1]
  <2>2. P[n + 1] = p + x /\ Q[n + 1] = q + y
    BY <1>3, <1>4, <2>1
  <2>3. p \in Nat /\ q \in Nat /\ x \in Nat /\ y \in Nat
    BY <1>1, <1>3, <1>4, <2>1
  <2>4. Same(Base * p, q) /\ (p = 0 <=> q = 0)
    BY <1>6, <2>1
  <2>5. (\E m \in Int : Base * x = y + (W - 1) * m) /\ (x = 0 <=> y = 0)
    BY <1>2, <2>1
  <2> HIDE DEF p, q, x, y
  <2>6. PICK k \in Int : Base * p = q + (W - 1) * k
    BY <2>4 DEF Same
  <2>7. PICK m \in Int : Base * x = y + (W - 1) * m
    BY <2>5
  <2>8. Base * (p + x) = (q + y) + (W - 1) * (k + m)
    <3>1. Base * (p + x) = Base * p + Base * x
      BY <1>0, <2>3
    <3>2. (W - 1) * (k + m) = (W - 1) * k + (W - 1) * m
      BY <1>0
    <3>3. (W - 1) * k \in Int /\ (W - 1) * m \in Int
      BY <1>0
    <3> QED
      BY <2>3, <2>6, <2>7, <3>1, <3>2, <3>3
  <2>9. p + x = 0 <=> q + y = 0
    BY <2>3, <2>4, <2>5
  <2>10. k + m \in Int
    OBVIOUS
  <2> QED
    BY <2>2, <2>8, <2>9, <2>10 DEF Same
<1> HIDE DEF S
<1>7. Nat \subseteq S
  BY <1>5, <1>6, SetInduction
<1>8. Same(Base * P[L], Q[L]) /\ (P[L] = 0 <=> Q[L] = 0)
  BY <1>1, <1>7 DEF S
<1> QED
  BY <1>1, <1>8 DEF SumBE, SumLE, Total, P, Q, v, w

\* Fold[] leaves zero of zero only.
LEMMA FoldZero ==
  ASSUME NEW x \in Nat
  PROVE  Fold[x] = 0 <=> x = 0
<1>0. W \in Int /\ W >= 4
  BY WordFacts
<1>1. Fold[x] = Folded(x)
  BY FoldValue
<1>2. CASE x = 0
  BY <1>1, <1>2 DEF Folded
<1>3. CASE x # 0
  <2>1. x - 1 \in Int /\ W - 1 \in Int /\ W - 1 > 0
    BY <1>0
  <2>2. (x - 1) % (W - 1) \in 0..((W - 1) - 1)
    BY <2>1, DivMod
  <2> QED
    BY <1>0, <1>1, <1>3, <2>2 DEF Folded
<1> QED
  BY <1>2, <1>3

\* Two words that are the same modulo W - 1, and zero together, are equal.
LEMMA SameWord ==
  ASSUME NEW x \in Nat, NEW y \in Nat, x < W, y < W, Same(x, y), x = 0 <=> y = 0
  PROVE  x = y
<1>0. W \in Int /\ W >= 4
  BY WordFacts
<1> DEFINE d == W - 1
<1>1. PICK k \in Int : x = y + d * k
  BY DEF Same
<1>2. d \in Int /\ d >= 3 /\ x <= d /\ y <= d
  BY <1>0
<1> HIDE DEF d
<1>3. CASE k = 0
  BY <1>1, <1>2, <1>3
<1>4. CASE k >= 1
  <2>1. d * k >= d
    BY <1>2, <1>4
  <2> QED
    BY <1>1, <1>2, <2>1
<1>5. CASE k <= -1
  <2>1. d * k <= -d
    BY <1>2, <1>5
  <2> QED
    BY <1>1, <1>2, <2>1
<1> QED
  BY <1>3, <1>4, <1>5

\* A word of two bytes, stored high byte first or low byte first.
LEMMA WordOfBytes ==
  ASSUME NEW h \in Byte, NEW l \in Byte
  PROVE  /\ Base * h + l \in Nat /\ Base * h + l < W
         /\ htons(Base * h + l) = <<h, l>> /\ Stored(Base * h + l) = <<l, h>>
<1>0. W \in Int /\ Base \in Int /\ Base >= 2 /\ W = Base * Base
  BY WordFacts
<1>1. h \in Int /\ l \in Int /\ 0 <= h /\ h <= Base - 1 /\ 0 <= l /\ l <= Base - 1
  BY <1>0 DEF Byte
<1> DEFINE x == Base * h + l
<1>2. x \in Int /\ 0 <= x /\ x < W
  <2>1. Base * h <= Base * (Base - 1) /\ Base * h >= 0
    BY <1>0, <1>1
  <2>2. Base * (Base - 1) = Base * Base - Base
    BY <1>0
  <2> QED
    BY <1>0, <1>1, <2>1, <2>2
<1>3. x \div Base = h /\ x % Base = l
  BY <1>0, <1>1, <1>2, ModIs
<1> HIDE DEF x
<1>4. x % W = x
  BY <1>0, <1>2
<1>5. htons(x) = <<h, l>> /\ Stored(x) = <<l, h>>
  BY <1>3, <1>4 DEF htons, Stored
<1> QED
  BY <1>2, <1>5 DEF x

\* The folded sum of the words read low byte first has, stored as it is, the bytes of the
\* folded sum of the words read high byte first; so have their complements.
LEMMA FoldedSums ==
  ASSUME NEW b \in Seq(Byte),
         NEW f, f = Fold[SumLE(b)], NEW g, g = Fold[SumBE(b)]
  PROVE  /\ f \in Nat /\ f < W /\ g \in Nat /\ g < W
         /\ htons(f) = Stored(g) /\ Stored(Not(f)) = htons(Not(g))
<1>0. W \in Int /\ Base \in Int /\ Base >= 2 /\ W = Base * Base /\ W >= 4
  BY WordFacts
<1> DEFINE x == SumLE(b)
           y == SumBE(b)
<1>1. x \in Nat /\ y \in Nat
  BY SumsAreNumbers
<1>2. Same(Base * x, y) /\ (x = 0 <=> y = 0)
  BY OtherOrder
<1>3. f \in Nat /\ f < W /\ Same(f, x) /\ (f = 0 <=> x = 0)
  BY <1>1, FoldFacts, FoldZero
<1>4. g \in Nat /\ g < W /\ Same(g, y) /\ (g = 0 <=> y = 0)
  BY <1>1, FoldFacts, FoldZero
<1> HIDE DEF x, y
<1> DEFINE h == htons(f)[1]
           l == htons(f)[2]
<1>5. htons(f) = <<h, l>> /\ h \in Byte /\ l \in Byte /\ Base * h + l = f
  BY <1>3, HtonsFacts
<1> HIDE DEF h, l
<1>6. h \in Int /\ l \in Int /\ 0 <= h /\ h <= Base - 1 /\ 0 <= l /\ l <= Base - 1
  BY <1>0, <1>5 DEF Byte
<1> DEFINE u == Base * l + h
<1>7. u \in Nat /\ u < W /\ Stored(u) = <<h, l>>
  BY <1>5, WordOfBytes
<1>8. Same(u, g)
  <2>1. PICK k \in Int : Base * x = y + (W - 1) * k
    BY <1>2 DEF Same
  <2>2. PICK m \in Int : f = x + (W - 1) * m
    BY <1>3 DEF Same
  <2>3. PICK n \in Int : g = y + (W - 1) * n
    BY <1>4 DEF Same
  <2>4. u = Base * f - (W - 1) * h
    <3>1. Base * f = W * h + Base * l
      <4>1. Base * (Base * h + l) = (Base * Base) * h + Base * l
        BY <1>0, <1>6
      <4> QED
        BY <1>0, <1>5, <4>1
    <3>2. W * h = (W - 1) * h + h
      BY <1>0, <1>6
    <3>3. Base * l \in Int /\ (W - 1) * h \in Int
      BY <1>0, <1>6
    <3> QED
      BY <1>6, <3>1, <3>2, <3>3
  <2>5. Base * f = Base * x + (W - 1) * (Base * m)
    <3>1. Base * f = Base * x + Base * ((W - 1) * m)
      BY <1>0, <1>1, <2>2
    <3>2. Base * ((W - 1) * m) = (W - 1) * (Base * m)
      BY <1>0
    <3> QED
      BY <3>1, <3>2
  <2> DEFINE d == W - 1
             e == Base * m
  <2>6. d \in Int /\ e \in Int
    BY <1>0
  <2> HIDE DEF d, e, u
  <2>7. d * k \in Int /\ d * e \in Int /\ d * h \in Int /\ d * n \in Int
    BY <1>6, <2>6
  <2>8. u = g + d * k + d * e - d * h - d * n
    <3>1. u = Base * f - d * h /\ Base * f = Base * x + d * e /\ Base * x = y + d * k
            /\ g = y + d * n
      BY <2>1, <2>3, <2>4, <2>5 DEF d, e
    <3> QED
      <4> DEFINE p1 == d * k
                 p2 == d * e
                 p3 == d * h
                 p4 == d * n
                 bx == Base * x
                 bf == Base * f
      <4>1. bx \in Int /\ bf \in Int /\ p1 \in Int /\ p2 \in Int /\ p3 \in Int /\ p4 \in Int
        BY <1>0, <1>1, <1>3, <2>7
      <4>2. u = bf - p3 /\ bf = bx + p2 /\ bx = y + p1 /\ g = y + p4 /\ y \in Int
        BY <1>1, <3>1
      <4> HIDE DEF p1, p2, p3, p4, bx, bf
      <4>3. u = g + p1 + p2 - p3 - p4
        BY ONLY <4>1, <4>2
      <4> QED
        BY <4>3 DEF p1, p2, p3, p4
  <2>9. d * (k + e - h - n) = d * k + d * e - d * h - d * n /\ k + e - h - n \in Int
    BY <1>6, <2>6
  <2>10. u = g + d * (k + e - h - n)
    BY <1>4, <2>7, <2>8, <2>9
  <2> QED
    BY <2>9, <2>10 DEF Same, d
<1>9. u = 0 <=> g = 0
  <2>1. u = 0 <=> l = 0 /\ h = 0
    BY <1>0, <1>6
  <2>2. f = 0 <=> l = 0 /\ h = 0
    BY <1>0, <1>5, <1>6
  <2> QED
    BY <1>2, <1>3, <1>4, <2>1, <2>2
<1>10. u = g
  <2> HIDE DEF u
  <2> QED
    BY <1>4, <1>7, <1>8, <1>9, SameWord
<1>11. Stored(Not(f)) = htons(Not(g))
  <2> DEFINE hh == Base - 1 - h
             ll == Base - 1 - l
  <2>1. hh \in Byte /\ ll \in Byte
    BY <1>0, <1>6 DEF Byte
  <2>2. Not(f) = Base * hh + ll
    <3>1. f % W = f
      <4>1. f \in Int /\ W \in Int /\ 0 <= f /\ f < W
        BY <1>0, <1>3
      <4> QED
        BY ONLY <4>1, SmallMod
    <3>2. Base * hh = Base * Base - Base - Base * h
      BY <1>0, <1>6
    <3>3. Base * h \in Int
      BY <1>0, <1>6
    <3> QED
      <4>1. f = Base * h + l /\ Not(f) = W - 1 - f /\ W = Base * Base
        BY <1>0, <1>5, <3>1 DEF Not
      <4> QED
        BY ONLY <1>0, <1>6, <3>2, <3>3, <4>1 DEF ll
  <2>3. Not(g) = Base * ll + hh
    <3>1. g % W = g
      <4>1. g \in Int /\ W \in Int /\ 0 <= g /\ g < W
        BY <1>0, <1>4
      <4> QED
        BY ONLY <4>1, SmallMod
    <3>2. Base * ll = Base * Base - Base - Base * l
      BY <1>0, <1>6
    <3>3. Base * l \in Int
      BY <1>0, <1>6
    <3> QED
      <4>1. g = Base * l + h /\ Not(g) = W - 1 - g /\ W = Base * Base
        BY <1>0, <1>10, <3>1 DEF Not
      <4> QED
        BY ONLY <1>0, <1>6, <3>2, <3>3, <4>1 DEF hh
  <2> HIDE DEF hh, ll
  <2>4. Stored(Not(f)) = <<ll, hh>> /\ htons(Not(g)) = <<ll, hh>>
    BY <2>1, <2>2, <2>3, WordOfBytes
  <2> QED
    BY <2>4
<1> QED
  BY <1>3, <1>4, <1>5, <1>7, <1>10, <1>11

\* Two bytes cut out of a sequence.
LEMMA TwoBytes ==
  ASSUME NEW b \in Seq(Byte), NEW i \in Nat, NEW j, j = i + 1, 1 <= i, j <= Len(b)
  PROVE  SubSeq(b, i, j) = <<b[i], b[j]>>
<1>1. i \in Int /\ j \in Int /\ \A m \in i..j : b[m] \in Byte
  OBVIOUS
<1>2. /\ SubSeq(b, i, j) \in Seq(Byte) /\ Len(SubSeq(b, i, j)) = 2
      /\ SubSeq(b, i, j)[1] = b[i] /\ SubSeq(b, i, j)[2] = b[j]
  <2>1. SubSeq(b, i, j) \in Seq(Byte) /\ Len(SubSeq(b, i, j)) = j - i + 1
    BY <1>1, SubSeqProperties
  <2>2. j - i + 1 = 2 /\ 1 \in 1..(j - i + 1) /\ 2 \in 1..(j - i + 1) /\ i + 1 - 1 = i /\ i + 2 - 1 = j
    BY <1>1
  <2>3. SubSeq(b, i, j)[1] = b[i + 1 - 1] /\ SubSeq(b, i, j)[2] = b[i + 2 - 1]
    BY <1>1, <2>2, SubSeqProperties
  <2> QED
    BY <2>1, <2>2, <2>3
<1> DEFINE p == SubSeq(b, i, j)
           q == <<b[i], b[j]>>
<1>3. b[i] \in Byte /\ b[j] \in Byte
  OBVIOUS
<1>4. q \in Seq(Byte) /\ Len(q) = 2 /\ q[1] = b[i] /\ q[2] = b[j]
  BY <1>3
<1>5. p \in Seq(Byte) /\ Len(p) = Len(q) /\ p[1] = q[1] /\ p[2] = q[2] /\ Len(p) = 2
  BY <1>2, <1>4
<1> HIDE DEF p, q
<1>6. \A k \in 1..Len(p) : p[k] = q[k]
  BY <1>5
<1>7. p = q
  BY <1>4, <1>5, <1>6, SeqEqual
<1> QED
  BY <1>7 DEF p, q

\* csum() and Checksum() leave the same bytes, in spite of the "TODO: this depends on byte order".
THEOREM CsumAgrees ==
  ASSUME NEW b \in Seq(Byte), 0 < Len(b), Len(b) <= W
  PROVE  Stored(csum(b)) = htons(Not(Checksum(0, b)))
<1>0. W \in Nat /\ 0 \in Nat /\ 0 <= 2 * W
  BY WordFacts
<1>1. SumBE(b) \in Nat /\ 0 + SumBE(b) = SumBE(b)
  BY SumsAreNumbers
<1>2. (0 + SumBE(b)) % (W * W) = 0 + SumBE(b)
  BY <1>0, NoOverflow
<1>3. Checksum(0, b) = Fold[SumBE(b)]
  <2>1. b # <<>>
    OBVIOUS
  <2> QED
    BY <1>1, <1>2, <2>1 DEF Checksum
<1>4. Stored(Not(Fold[SumLE(b)])) = htons(Not(Fold[SumBE(b)]))
  BY FoldedSums
<1> QED
  BY <1>3, <1>4 DEF csum

\* The checksum2 functions write the plain sum of the datagram, its bytes swapped.
THEOREM Checksum2Writes ==
  ASSUME NEW udp \in Seq(Byte), 8 <= Len(udp), Len(udp) < W
  PROVE  SubSeq(udp_header_checksum2(udp), 7, 8) = Stored(Checksum(0, Cleared(udp)))
<1>0. W \in Nat /\ W >= 4 /\ 0 \in Nat /\ 0 <= 2 * W /\ Len(udp) \in Nat
  BY WordFacts
<1> DEFINE c == Cleared(udp)
           f == Fold[SumLE(c)]
           g == Fold[SumBE(c)]
<1>1. c \in Seq(Byte) /\ Len(c) = Len(udp) /\ c[7] = 0 /\ c[8] = 0
  BY ClearedFacts
<1>2. udp_header_checksum2(udp) = SetField(c, 7, Not(csum(c)))
  BY DEF udp_header_checksum2, ChecksumAt
<1> HIDE DEF c
<1>3. f \in Nat /\ f < W /\ g \in Nat /\ g < W /\ htons(f) = Stored(g)
  BY <1>1, FoldedSums
<1>4. Checksum(0, c) = g
  <2>1. SumBE(c) \in Nat /\ 0 + SumBE(c) = SumBE(c)
    BY <1>1, SumsAreNumbers
  <2>2. (0 + SumBE(c)) % (W * W) = 0 + SumBE(c)
    BY <1>0, <1>1, NoOverflow
  <2>3. c # <<>>
    BY <1>0, <1>1
  <2> QED
    BY <2>1, <2>2, <2>3 DEF Checksum
<1>5. Not(csum(c)) = f
  <2> DEFINE z == W - 1 - f
  <2>1. csum(c) = W - 1 - (f % W)
    BY DEF csum, Not
  <2> HIDE DEF f
  <2>2. f % W = f
    <3>1. f \in Int /\ W \in Int /\ 0 <= f /\ f < W
      BY <1>0, <1>3
    <3> QED
      BY ONLY <3>1, SmallMod
  <2>3. z \in Nat /\ z < W /\ W - 1 - z = f
    BY <1>0, <1>3
  <2> HIDE DEF z
  <2>4. z % W = z
    BY <1>0, <2>3
  <2>5. csum(c) = z
    BY <2>1, <2>2 DEF z
  <2> QED
    BY <2>3, <2>4, <2>5 DEF Not
<1> HIDE DEF f, g
<1> DEFINE out == SetField(c, 7, f)
<1>6. out \in Seq(Byte) /\ Len(out) = Len(c) /\ out[7] = htons(f)[1] /\ out[8] = htons(f)[2]
  <2>1. 7 % 2 = 1 /\ 8 <= Len(c) /\ 7 \in Nat /\ 8 = 7 + 1
    BY <1>0, <1>1
  <2> QED
    BY <1>1, <1>3, <2>1, ZerosReplaced
<1> HIDE DEF out
<1>7. htons(f) = <<htons(f)[1], htons(f)[2]>>
  BY <1>3, HtonsFacts
<1>8. SubSeq(out, 7, 8) = <<out[7], out[8]>>
  <2>1. 7 \in Nat /\ 8 = 7 + 1 /\ 1 <= 7 /\ 8 <= Len(out)
    BY <1>0, <1>1, <1>6
  <2> QED
    BY <1>6, <2>1, TwoBytes
<1> QED
  BY <1>2, <1>3, <1>4, <1>5, <1>6, <1>7, <1>8 DEF c, out

-----------------------------------------------------------------------------
(* The datagrams of c/raw6/rawudp.c                                        *)

\* What the constants are.
LEMMA Packet ==
  /\ W \in Nat /\ W >= 4 /\ Text \in Seq(Byte) /\ Proto \in Byte /\ MaxContentLen \in Nat
  /\ SrcPort \in Nat /\ SrcPort < W /\ DstPort \in Nat /\ DstPort < W
  /\ 8 + MaxContentLen < W /\ 8 + Len(Text) < W
  /\ \A sa \in Addresses : sa \in Seq(Byte) /\ Len(sa) < W /\ 2 * Len(sa) + 12 <= W
<1>1. W \in Nat /\ W >= 4
  BY WordFacts
<1>2. \A sa \in Addresses : sa \in Seq(Byte) /\ 2 * Len(sa) + 12 <= W /\ Len(sa) \in Nat
  BY PacketAssumption
<1>3. \A sa \in Addresses : Len(sa) < W
  BY <1>1, <1>2
<1> QED
  BY <1>1, <1>2, <1>3, PacketAssumption

\* The content area of the buffer, as a sequence of bytes.
LEMMA ZerosFacts ==
  ASSUME NEW n \in Nat
  PROVE  /\ Zeros(n) \in Seq(Byte) /\ Len(Zeros(n)) = n
         /\ \A i \in 1..n : Zeros(n)[i] = 0
<1>1. 0 \in Byte
  BY WordFacts DEF Byte
<1>2. Zeros(n) \in Seq(Byte)
  BY <1>1 DEF Zeros
<1> QED
  BY <1>2 DEF Zeros

\* u is the header h with the n bytes of z behind it.
Follows(u, h, z, n) ==
  /\ u \in Seq(Byte) /\ Len(u) = 8 + n /\ n \in Nat
  /\ \A i \in 1..8 : u[i] = h[i]
  /\ \A i \in 9..(8 + n) : u[i] = z[i - 8]

\* A header with something behind it.
LEMMA Joined ==
  ASSUME NEW h \in Seq(Byte), Len(h) = 8, NEW z \in Seq(Byte), NEW n, n = Len(z)
  PROVE  Follows(h \o z, h, z, n)
<1> DEFINE u == h \o z
<1>1. /\ u \in Seq(Byte) /\ Len(u) = Len(h) + Len(z)
      /\ \A i \in 1..(Len(h) + Len(z)) : u[i] = IF i <= Len(h) THEN h[i] ELSE z[i - Len(h)]
  BY ConcatProperties, Zenon
<1> HIDE DEF u
<1>2. n \in Nat
  OBVIOUS
<1>3. ASSUME NEW i \in 1..8 PROVE u[i] = h[i]
  BY <1>1, <1>2
<1>4. ASSUME NEW i \in 9..(8 + n) PROVE u[i] = z[i - 8]
  BY <1>1, <1>2
<1> QED
  BY <1>1, <1>2, <1>3, <1>4 DEF u, Follows

\* A header of the right length field that adds up with n bytes of zero content.
Built(h, n) ==
  /\ SubSeq(h, 5, 6) = htons(8 + n)
  /\ Verifies(src, dst, Proto, h \o Zeros(n))

\* sendV6 and sendV4 leave such a header, whatever stood in the length and checksum fields.
LEMMA SummedFacts ==
  ASSUME src \in Addresses, dst \in Addresses, NEW h \in Seq(Byte), Len(h) = 8,
         NEW n \in Nat, 8 + n < W
  PROVE  /\ Summed(h, n) \in Seq(Byte) /\ Len(Summed(h, n)) = 8
         /\ Built(Summed(h, n), n)
<1> DEFINE z == Zeros(n)
           udp == h \o z
           out == udp_header_checksum(src, dst, Proto, udp)
           o == SubSeq(out, 1, 8)
           L == 8 + n
<1>1. z \in Seq(Byte) /\ Len(z) = n /\ \A i \in 1..n : z[i] = 0
  BY ZerosFacts
<1> HIDE DEF z
<1>2. /\ udp \in Seq(Byte) /\ Len(udp) = L
      /\ \A i \in 9..L : udp[i] = 0
  <2>1. /\ udp \in Seq(Byte) /\ Len(udp) = 8 + n
        /\ \A i \in 9..(8 + n) : udp[i] = z[i - 8]
    <3> HIDE DEF udp, out, o, L
    <3>1. h \in Seq(Byte) /\ Len(h) = 8 /\ z \in Seq(Byte) /\ n = Len(z)
      BY <1>1
    <3>2. Follows(h \o z, h, z, n)
      BY <3>1, Joined
    <3> QED
      BY <3>2 DEF Follows, udp
  <2>2. ASSUME NEW i \in 9..L PROVE udp[i] = 0
    <3>1. i - 8 \in 1..n
      OBVIOUS
    <3> QED
      BY <1>1, <2>1, <3>1
  <2> QED
    BY <2>1, <2>2
<1> HIDE DEF udp
<1>3. Rewritten(udp, out) /\ Verifies(src, dst, Proto, out)
  <2>1. 8 <= Len(udp) /\ Len(udp) < W
    BY <1>2
  <2>2. src \in Seq(Byte) /\ dst \in Seq(Byte) /\ Proto \in Byte /\ Len(src) < W /\ Len(dst) < W
    BY Packet
  <2> QED
    BY <1>2, <2>1, <2>2, UdpChecksumVerifies
<1> HIDE DEF out
<1>4. /\ out \in Seq(Byte) /\ Len(out) = L
      /\ out[5] = htons(L)[1] /\ out[6] = htons(L)[2]
      /\ \A i \in 9..L : out[i] = 0
  <2> HIDE DEF L
  <2>1. L \in Nat /\ L = 8 + n
    BY DEF L
  <2>2. /\ out \in Seq(Byte) /\ Len(out) = L
        /\ out[5] = htons(L)[1] /\ out[6] = htons(L)[2]
        /\ \A i \in 1..L : i \notin 5..8 => out[i] = udp[i]
    BY <1>2, <1>3 DEF Rewritten
  <2> QED
    BY <1>2, <2>1, <2>2
<1>5. /\ o \in Seq(Byte) /\ Len(o) = 8
      /\ \A i \in 1..8 : o[i] = out[i]
  <2>1. 1 \in Int /\ 8 \in Int /\ \A i \in 1..8 : out[i] \in Byte
    BY <1>4
  <2> QED
    BY <2>1, SubSeqProperties
<1> HIDE DEF o
<1>6. o \o z = out
  <2> DEFINE u == o \o z
  <2>1. /\ u \in Seq(Byte) /\ Len(u) = 8 + n /\ \A i \in 1..8 : u[i] = o[i]
        /\ \A i \in 9..(8 + n) : u[i] = z[i - 8]
    <3> HIDE DEF u, L
    <3>1. o \in Seq(Byte) /\ Len(o) = 8 /\ z \in Seq(Byte) /\ n = Len(z)
      BY <1>1, <1>5
    <3>2. Follows(o \o z, o, z, n)
      BY <3>1, Joined
    <3> QED
      BY <3>2 DEF Follows, u
  <2> HIDE DEF u
  <2>2. ASSUME NEW i \in 1..Len(u) PROVE u[i] = out[i]
    <3>1. CASE i <= 8
      <4>1. i \in 1..8
        BY <2>1, <3>1
      <4> QED
        BY <1>5, <2>1, <4>1
    <3>2. CASE i > 8
      <4>1. i - 8 \in 1..n /\ i \in 9..(8 + n)
        BY <2>1, <3>2
      <4> QED
        BY <1>1, <1>4, <2>1, <4>1
    <3> QED
      BY <2>1, <3>1, <3>2
  <2>3. u = out
    BY <1>4, <2>1, <2>2, SeqEqual
  <2> QED
    BY <2>3 DEF u
<1>7. SubSeq(o, 5, 6) = htons(L)
  <2>1. 5 \in Nat /\ 6 = 5 + 1 /\ 1 <= 5 /\ 6 <= Len(o)
    BY <1>5
  <2>2. SubSeq(o, 5, 6) = <<o[5], o[6]>>
    BY <1>5, <2>1, TwoBytes
  <2>3. o[5] = htons(L)[1] /\ o[6] = htons(L)[2]
    BY <1>4, <1>5
  <2>4. htons(L) = <<htons(L)[1], htons(L)[2]>>
    <3>1. L \in Nat /\ L < W
      OBVIOUS
    <3> HIDE DEF L
    <3> QED
      BY <3>1, HtonsFacts
  <2> QED
    BY <2>2, <2>3, <2>4
<1>8. Summed(h, n) = o
  BY DEF Summed, o, out, udp, z
<1> QED
  BY <1>3, <1>5, <1>6, <1>7, <1>8 DEF Built, z

\* How many bytes stand behind the header when it is sent.
Content == IF iovec_flag THEN Len(Text) ELSE u16ContentLen

\* The inductive invariant: once built the header, which adds up with as many zero bytes as it
\* has content, stays as it is until the program ends, and every datagram on the wire is that
\* header and its content.
InvTypes ==
  /\ iovec_flag \in BOOLEAN /\ src \in Addresses /\ dst \in Addresses
  /\ u16ContentLen \in 0..MaxContentLen
  /\ hdr \in Seq(Byte) /\ Len(hdr) = 8
InvBuilt ==
  /\ pc \in {"port", "send", "close"} => Built(hdr, Content)
  /\ pc \in {"rebuild", "port"} => iovec_flag
InvWire ==
  /\ wire \in Seq(Seq(Byte))
  /\ pc \in {"getopt", "socket", "bind", "build", "rebuild", "port"} => wire = <<>>
  /\ wire # <<>> => Built(hdr, Content)
  /\ \A i \in 1..Len(wire) : wire[i] = Datagram
InvUdp == InvTypes /\ InvBuilt /\ InvWire

\* The content fits a datagram.
LEMMA ContentFits == InvTypes => Content \in Nat /\ 8 + Content < W
<1> SUFFICES ASSUME InvTypes PROVE Content \in Nat /\ 8 + Content < W
  OBVIOUS
<1>1. Len(Text) \in Nat /\ 8 + Len(Text) < W /\ W \in Nat
  BY Packet
<1>2. u16ContentLen \in Nat /\ 8 + u16ContentLen < W
  BY Packet DEF InvTypes
<1> QED
  BY <1>1, <1>2 DEF Content

\* What is handed to the kernel: eight bytes of header and the content.
LEMMA DatagramFacts ==
  ASSUME InvTypes
  PROVE  /\ Datagram \in Seq(Byte) /\ Len(Datagram) = 8 + Content
         /\ \A i \in 1..8 : Datagram[i] = hdr[i]
<1> DEFINE z == IF iovec_flag THEN Text ELSE Zeros(u16ContentLen)
<1>1. z \in Seq(Byte) /\ Content = Len(z)
  <2>1. CASE iovec_flag
    BY <2>1, Packet DEF Content
  <2>2. CASE ~iovec_flag
    <3>1. u16ContentLen \in Nat
      BY Packet DEF InvTypes
    <3> QED
      BY <2>2, <3>1, ZerosFacts DEF Content
  <2> QED
    BY <2>1, <2>2
<1>2. hdr \in Seq(Byte) /\ Len(hdr) = 8
  BY DEF InvTypes
<1>3. Datagram = hdr \o z
  BY DEF Datagram
<1> HIDE DEF z
<1> DEFINE u == hdr \o z
           n == Content
<1>4. n = Len(z)
  BY <1>1
<1> HIDE DEF n
<1>5. u \in Seq(Byte) /\ Len(u) = 8 + n /\ \A i \in 1..8 : u[i] = hdr[i]
  <2>1. hdr \in Seq(Byte) /\ Len(hdr) = 8 /\ z \in Seq(Byte) /\ n = Len(z)
    BY <1>1, <1>2, <1>4
  <2>2. Follows(hdr \o z, hdr, z, n)
    BY <2>1, Joined
  <2> QED
    BY <2>2 DEF Follows
<1> QED
  BY <1>3, <1>5 DEF n

\* The ports in front of what the header held.
LEMMA PortsFacts ==
  ASSUME NEW h \in Seq(Byte), Len(h) = 8
  PROVE  /\ htons(SrcPort) \o htons(DstPort) \o SubSeq(h, 5, 8) \in Seq(Byte)
         /\ Len(htons(SrcPort) \o htons(DstPort) \o SubSeq(h, 5, 8)) = 8
<1>1. ASSUME NEW x \in Nat, x < W PROVE htons(x) \in Seq(Byte) /\ Len(htons(x)) = 2
  <2> DEFINE hi == htons(x)[1]
             b == htons(x)[2]
  <2>1. htons(x) = <<hi, b>> /\ hi \in Byte /\ b \in Byte
    BY <1>1, HtonsFacts
  <2> HIDE DEF hi, b
  <2>2. <<hi, b>> \in Seq(Byte) /\ Len(<<hi, b>>) = 2
    BY <2>1
  <2> QED
    BY <2>1, <2>2
<1> DEFINE p == htons(SrcPort)
           q == htons(DstPort)
           r == SubSeq(h, 5, 8)
<1>2. p \in Seq(Byte) /\ Len(p) = 2 /\ q \in Seq(Byte) /\ Len(q) = 2
  BY <1>1, Packet
<1>3. r \in Seq(Byte) /\ Len(r) = 4
  <2>1. ASSUME NEW i \in 5..8 PROVE h[i] \in Byte
    <3>1. i \in 1..Len(h)
      OBVIOUS
    <3> QED
      BY <3>1, ElementOfSeq
  <2> QED
    BY <2>1, SubSeqProperties
<1> HIDE DEF p, q, r
<1>4. p \o q \in Seq(Byte) /\ Len(p \o q) = Len(p) + Len(q)
  BY <1>2, ConcatProperties
<1> DEFINE pq == p \o q
<1>5. pq \in Seq(Byte) /\ Len(pq) = 4
  BY <1>2, <1>4
<1> HIDE DEF pq
<1>6. pq \o r \in Seq(Byte) /\ Len(pq \o r) = Len(pq) + Len(r)
  BY <1>3, <1>5, ConcatProperties
<1>7. pq \o r \in Seq(Byte) /\ Len(pq \o r) = 8
  BY <1>3, <1>5, <1>6
<1> QED
  BY <1>7 DEF pq, p, q, r

\* One more datagram like the others.
LEMMA AppendSame ==
  ASSUME NEW S, NEW q \in Seq(S), NEW e \in S, \A i \in 1..Len(q) : q[i] = e
  PROVE  /\ Append(q, e) \in Seq(S)
         /\ \A i \in 1..Len(Append(q, e)) : Append(q, e)[i] = e
  OBVIOUS

\* Every step keeps the invariant.
LEMMA UdpStep == InvUdp /\ [Next]_vars => InvUdp'
<1> SUFFICES ASSUME InvUdp, [Next]_vars PROVE InvUdp'
  OBVIOUS
<1> USE DEF InvUdp
<1>1. ASSUME Getopt \/ Socket \/ Bind \/ Close PROVE InvUdp'
  <2>1. /\ UNCHANGED <<options, hdr, wire>>
        /\ pc' \in {"socket", "bind", "build"} => wire = <<>>
        /\ pc' \in {"socket", "bind", "build", "exit"}
    BY <1>1 DEF Getopt, Socket, Bind, Close, InvWire
  <2>2. InvTypes'
    BY <2>1 DEF InvTypes, options
  <2>3. UNCHANGED <<src, dst, iovec_flag, u16ContentLen>>
    BY <2>1 DEF options
  <2>4. Content' = Content /\ Datagram' = Datagram
    BY <2>1, <2>3 DEF Content, Datagram
  <2>5. Built(hdr, Content) => Built(hdr, Content)'
    BY <2>1, <2>3, <2>4 DEF Built
  <2>6. InvBuilt'
    BY <2>1 DEF InvBuilt
  <2>7. InvWire'
    BY <2>1, <2>4, <2>5 DEF InvWire
  <2> QED
    BY <2>2, <2>6, <2>7
<1>2. CASE Build
  <2> DEFINE h == htons(SrcPort) \o htons(DstPort) \o SubSeq(hdr, 5, 8)
             n == u16ContentLen
  <2>1. h \in Seq(Byte) /\ Len(h) = 8
    BY PortsFacts DEF InvTypes
  <2> HIDE DEF h
  <2>2. hdr' = Summed(h, n) /\ UNCHANGED <<options, wire>> /\ pc' \in {"rebuild", "send"}
          /\ (pc' = "rebuild" <=> iovec_flag) /\ wire = <<>>
    BY <1>2 DEF Build, h, InvWire
  <2>3. n \in Nat /\ 8 + n < W /\ src \in Addresses /\ dst \in Addresses
    BY Packet DEF InvTypes
  <2>4. hdr' \in Seq(Byte) /\ Len(hdr') = 8 /\ Built(hdr', n)
    BY <2>1, <2>2, <2>3, SummedFacts
  <2>5. UNCHANGED <<src, dst, iovec_flag, u16ContentLen>>
    BY <2>2 DEF options
  <2>6. InvTypes'
    BY <2>4, <2>5 DEF InvTypes
  <2>7. InvBuilt'
    <3>1. CASE iovec_flag
      BY <2>2, <2>5, <3>1 DEF InvBuilt
    <3>2. CASE ~iovec_flag
      <4>1. pc' = "send" /\ Content' = n
        BY <2>2, <2>5, <3>2 DEF Content
      <4>2. Built(hdr, Content)'
        BY <2>4, <2>5, <4>1 DEF Built
      <4> QED
        BY <4>1, <4>2 DEF InvBuilt
    <3> QED
      BY <3>1, <3>2
  <2>8. InvWire'
    <3>1. wire' = <<>>
      BY <2>2
    <3> QED
      BY <3>1 DEF InvWire
  <2> QED
    BY <2>6, <2>7, <2>8
<1>3. CASE Rebuild
  <2> DEFINE n == Len(Text)
  <2>1. hdr' = Summed(hdr, n) /\ UNCHANGED <<options, wire>> /\ pc' = "port" /\ iovec_flag
          /\ wire = <<>>
    BY <1>3 DEF Rebuild, Rebuilt, InvWire, InvBuilt
  <2>2. n \in Nat /\ 8 + n < W /\ src \in Addresses /\ dst \in Addresses
          /\ hdr \in Seq(Byte) /\ Len(hdr) = 8
    BY Packet DEF InvTypes
  <2>3. hdr' \in Seq(Byte) /\ Len(hdr') = 8 /\ Built(hdr', n)
    BY <2>1, <2>2, SummedFacts
  <2>4. UNCHANGED <<src, dst, iovec_flag, u16ContentLen>>
    BY <2>1 DEF options
  <2>5. InvTypes'
    BY <2>3, <2>4 DEF InvTypes
  <2>6. Content' = n
    BY <2>1, <2>4 DEF Content
  <2>7. Built(hdr, Content)'
    BY <2>3, <2>4, <2>6 DEF Built
  <2>8. InvBuilt'
    BY <2>1, <2>4, <2>7 DEF InvBuilt
  <2>9. InvWire'
    <3>1. wire' = <<>>
      BY <2>1
    <3> QED
      BY <3>1 DEF InvWire
  <2> QED
    BY <2>5, <2>8, <2>9
<1>4. CASE SendWithPort \/ Send
  <2>1. /\ UNCHANGED <<options, hdr>> /\ pc' \in {"send", "close"} /\ pc \in {"port", "send"}
        /\ wire' = wire \/ wire' = Append(wire, Datagram)
    BY <1>4 DEF SendWithPort, Send, Sends
  <2>2. UNCHANGED <<src, dst, iovec_flag, u16ContentLen>>
    BY <2>1 DEF options
  <2>3. Content' = Content /\ Datagram' = Datagram
    BY <2>1, <2>2 DEF Content, Datagram
  <2>4. Built(hdr, Content)
    BY <2>1 DEF InvBuilt
  <2>5. Built(hdr, Content)'
    BY <2>1, <2>2, <2>3, <2>4 DEF Built
  <2>6. InvTypes'
    BY <2>1, <2>2 DEF InvTypes
  <2>7. InvBuilt'
    BY <2>1, <2>5 DEF InvBuilt
  <2>8. wire' \in Seq(Seq(Byte)) /\ \A i \in 1..Len(wire') : wire'[i] = Datagram
    <3>1. Datagram \in Seq(Byte)
      BY DatagramFacts
    <3>2. wire \in Seq(Seq(Byte)) /\ \A i \in 1..Len(wire) : wire[i] = Datagram
      BY DEF InvWire
    <3> DEFINE S == Seq(Byte)
               e == Datagram
    <3> HIDE DEF S, e
    <3>3. /\ Append(wire, e) \in Seq(S)
          /\ \A i \in 1..Len(Append(wire, e)) : Append(wire, e)[i] = e
      BY <3>1, <3>2, AppendSame DEF S, e
    <3> QED
      BY <2>1, <3>2, <3>3 DEF S, e
  <2>9. InvWire'
    BY <2>1, <2>3, <2>5, <2>8 DEF InvWire
  <2> QED
    BY <2>6, <2>7, <2>9
<1>5. CASE UNCHANGED vars
  <2>1. UNCHANGED <<pc, v6, iovec_flag, src, dst, u16ContentLen, hdr, wire>>
    BY <1>5 DEF vars, options
  <2> QED
    BY <2>1 DEF InvTypes, InvBuilt, InvWire, Built, Content, Datagram, Verifies
<1> QED
  BY <1>1, <1>2, <1>3, <1>4, <1>5 DEF Next

\* The inductive invariant holds of every reachable state.
THEOREM UdpInvariance == Spec => []InvUdp
<1>1. Init => InvUdp
  <2> SUFFICES ASSUME Init PROVE InvUdp
    OBVIOUS
  <2>1. hdr \in Seq(Byte) /\ Len(hdr) = 8
    BY ZerosFacts DEF Init
  <2>2. InvTypes
    BY <2>1 DEF Init, InvTypes
  <2>3. wire = <<>> /\ pc = "getopt"
    BY DEF Init
  <2>4. InvBuilt /\ InvWire
    BY <2>3 DEF InvBuilt, InvWire
  <2> QED
    BY <2>2, <2>4 DEF InvUdp
<1> QED
  BY <1>1, UdpStep, PTL DEF Spec

\* The type invariant of rawudp.c, the wire and the buffer included.
THEOREM UdpTypeCorrect == Spec => []TypeOK
<1> DEFINE Simple == /\ pc \in {"getopt", "socket", "bind", "build", "rebuild", "port", "send",
                               "close", "exit"}
                     /\ v6 \in BOOLEAN /\ sock \in BOOLEAN /\ rc \in {"none", "0", "1", "-1"}
<1>1. Init => Simple
  BY DEF Init
<1>2. Simple /\ [Next]_vars => Simple'
  BY DEF Next, vars, options, Getopt, Socket, Bind, Build, Rebuild, SendWithPort, Send, Close
<1>3. Simple /\ InvUdp => TypeOK
  <2> SUFFICES ASSUME Simple, InvTypes, InvWire PROVE TypeOK
    BY DEF InvUdp
  <2>1. \A i \in DOMAIN wire : wire[i] \in Seq(Byte)
    BY DEF InvWire
  <2> QED
    BY <2>1 DEF TypeOK, InvTypes
<1> QED
  BY <1>1, <1>2, <1>3, UdpInvariance, PTL DEF Spec

\* Every datagram that rawudp.c sends has its length in its length field; where the content is
\* what was summed it adds up, and the receiver takes it unless it came over IPv6 with a
\* checksum of zero.
THEOREM DatagramsRight == Spec => []SentRight
<1>1. ASSUME InvUdp PROVE SentRight
  <2>1. InvTypes /\ InvBuilt /\ InvWire
    BY <1>1 DEF InvUdp
  <2>2. /\ Datagram \in Seq(Byte) /\ Len(Datagram) = 8 + Content
        /\ \A i \in 1..8 : Datagram[i] = hdr[i]
    BY <2>1, DatagramFacts
  <2>3. hdr \in Seq(Byte) /\ Len(hdr) = 8 /\ Content \in Nat
    BY <2>1, ContentFits DEF InvTypes
  <2>4. \A i \in DOMAIN wire : wire[i] = Datagram /\ Built(hdr, Content)
    <3>1. DOMAIN wire = 1..Len(wire)
      BY <2>1 DEF InvWire
    <3>2. ASSUME NEW i \in DOMAIN wire PROVE wire # <<>>
      BY <3>1
    <3> QED
      BY <2>1, <3>1, <3>2 DEF InvWire
  <2>5. SendtoAccepted
    <3>1. ~iovec_flag => Datagram = hdr \o Zeros(Content)
      BY DEF Datagram, Content
    <3>2. ASSUME ~iovec_flag, NEW i \in Sent PROVE Verifies(src, dst, Proto, wire[i])
      BY <2>4, <3>1, <3>2 DEF Sent, Built
    <3> QED
      BY <3>2, AddsUp DEF SendtoAccepted
  <2>6. LengthIsRight
    <3> DEFINE d == Datagram
    <3>1. SubSeq(d, 5, 6) = SubSeq(hdr, 5, 6)
      <4>1. 5 \in Nat /\ 6 = 5 + 1 /\ 1 <= 5 /\ 6 <= Len(d) /\ 6 <= Len(hdr)
        BY <2>2, <2>3
      <4>2. d \in Seq(Byte) /\ d[5] = hdr[5] /\ d[6] = hdr[6]
        BY <2>2
      <4> HIDE DEF d
      <4>3. SubSeq(d, 5, 6) = <<d[5], d[6]>>
        BY <4>1, <4>2, TwoBytes
      <4>4. SubSeq(hdr, 5, 6) = <<hdr[5], hdr[6]>>
        BY <2>3, <4>1, TwoBytes
      <4> QED
        BY <4>2, <4>3, <4>4
    <3> QED
      BY <2>2, <2>4, <3>1 DEF LengthIsRight, Sent, Built
  <2>7. ChecksumOfBuffer
    BY <2>1 DEF ChecksumOfBuffer, InvBuilt, Built, Content
  <2> QED
    BY <2>5, <2>6, <2>7 DEF SentRight
<1> QED
  BY <1>1, UdpInvariance, PTL

\* csum(), ipv4_header_checksum() and the checksum2 functions do what HelpersAgree says on
\* everything this program sends.
THEOREM HelpersOnDatagrams == Spec => []HelpersAgree
<1>1. ASSUME InvUdp PROVE HelpersAgree
  <2>1. InvTypes
    BY <1>1 DEF InvUdp
  <2> DEFINE d == Datagram
  <2>2. d \in Seq(Byte) /\ 8 <= Len(d) /\ 0 < Len(d) /\ Len(d) < W /\ Len(d) <= W
    <3>1. d \in Seq(Byte) /\ Len(d) = 8 + Content /\ Content \in Nat /\ 8 + Content < W
            /\ W \in Nat
      BY <2>1, DatagramFacts, ContentFits, WordFacts
    <3> QED
      BY <3>1
  <2> HIDE DEF d
  <2>3. Stored(csum(d)) = htons(Not(Checksum(0, d)))
    BY <2>2, CsumAgrees
  <2>4. SubSeq(udp_header_checksum2(d), 7, 8) = Stored(Checksum(0, Cleared(d)))
    BY <2>2, Checksum2Writes
  <2>5. OldHeader \in Seq(Byte) /\ 12 <= Len(OldHeader) /\ Len(OldHeader) <= W
    <3> DEFINE m == <<1, Proto, 1, 0>>
               hm == hdr \o m
               hs == hm \o src
               o == hs \o dst
    <3>1. m \in Seq(Byte) /\ Len(m) = 4
      <4>1. 0 \in Byte /\ 1 \in Byte /\ Proto \in Byte
        BY WordFacts, Packet DEF Byte
      <4> QED
        BY <4>1
    <3> HIDE DEF m
    <3>2. hdr \in Seq(Byte) /\ Len(hdr) = 8
      BY <2>1 DEF InvTypes
    <3>3. hm \in Seq(Byte) /\ Len(hm) = Len(hdr) + Len(m)
      BY <3>1, <3>2, ConcatProperties
    <3> HIDE DEF hm
    <3>4. /\ src \in Seq(Byte) /\ 2 * Len(src) + 12 <= W /\ Len(src) \in Nat
          /\ dst \in Seq(Byte) /\ 2 * Len(dst) + 12 <= W /\ Len(dst) \in Nat
      BY <2>1, Packet DEF InvTypes
    <3>5. hs \in Seq(Byte) /\ Len(hs) = Len(hm) + Len(src)
      BY <3>3, <3>4, ConcatProperties
    <3> HIDE DEF hs
    <3>6. o \in Seq(Byte) /\ Len(o) = Len(hs) + Len(dst)
      BY <3>4, <3>5, ConcatProperties
    <3> HIDE DEF o
    <3>7. Len(o) = 12 + Len(src) + Len(dst)
      BY <3>1, <3>2, <3>3, <3>4, <3>5, <3>6
    <3>8. OldHeader = o
      BY DEF OldHeader, o, hs, hm, m
    <3> QED
      BY <3>4, <3>6, <3>7, <3>8, WordFacts
  <2>6. SumBE(ipv4_header_checksum(OldHeader)) % (W - 1) = 0
    BY <2>5, IPv4ChecksumVerifies
  <2> QED
    BY <2>3, <2>4, <2>6 DEF HelpersAgree, ChecksumAt, d
<1> QED
  BY <1>1, UdpInvariance, PTL

-----------------------------------------------------------------------------
\* The string hashes of java/hash.java.

\* The powers of two: the recursive definition has a solution.
LEMMA TwoToDef ==
  /\ TwoTo[0] = 1
  /\ \A n \in Nat : TwoTo[n] \in Nat /\ TwoTo[n] >= 1 /\ TwoTo[n + 1] = 2 * TwoTo[n]
<1> DEFINE Powers(g, m) == g = [n \in 0..m |-> IF n = 0 THEN 1 ELSE 2 * g[n - 1]]
<1>1. \A m \in Nat : \E g : Powers(g, m)
  <2> DEFINE S == {m \in Nat : \E g : Powers(g, m)}
  <2>1. 0 \in S
    <3>1. Powers([n \in 0..0 |-> 1], 0)
      OBVIOUS
    <3> QED
      BY <3>1
  <2>2. ASSUME NEW m \in Nat, m \in S PROVE m + 1 \in S
    <3>1. PICK g : Powers(g, m)
      BY <2>2
    <3> DEFINE h == [n \in 0..(m + 1) |-> IF n = m + 1 THEN 2 * g[m] ELSE g[n]]
    <3>2. \A n \in 0..m : g[n] = IF n = 0 THEN 1 ELSE 2 * g[n - 1]
      BY <3>1
    <3>3. \A n \in 0..(m + 1) : h[n] = IF n = 0 THEN 1 ELSE 2 * h[n - 1]
      BY <3>2
    <3>4. Powers(h, m + 1)
      <4> DEFINE e == [n \in 0..(m + 1) |-> IF n = 0 THEN 1 ELSE 2 * h[n - 1]]
      <4>1. \A n \in 0..(m + 1) : h[n] = e[n]
        BY <3>3
      <4>2. h = e
        BY <4>1, Zenon
      <4> QED
        BY <4>2
    <3>5. \E g1 : Powers(g1, m + 1)
      <4> HIDE DEF h
      <4> QED
        BY <3>4
    <3> HIDE DEF Powers
    <3> QED
      BY <3>5
  <2> HIDE DEF S
  <2>3. Nat \subseteq S
    BY <2>1, <2>2, SetInduction
  <2> QED
    BY <2>3 DEF S
<1>2. ASSUME NEW g, NEW h, NEW m \in Nat, NEW k \in Nat, Powers(g, m), Powers(h, k)
      PROVE  \A n \in Nat : n <= m /\ n <= k => g[n] = h[n]
  <2> DEFINE S == {n \in Nat : n <= m /\ n <= k => g[n] = h[n]}
  <2>1. \A n \in 0..m : g[n] = IF n = 0 THEN 1 ELSE 2 * g[n - 1]
    BY <1>2
  <2>2. \A n \in 0..k : h[n] = IF n = 0 THEN 1 ELSE 2 * h[n - 1]
    BY <1>2
  <2>3. 0 \in S
    BY <2>1, <2>2
  <2>4. ASSUME NEW n \in Nat, n \in S PROVE n + 1 \in S
    BY <2>1, <2>2, <2>4
  <2> HIDE DEF S
  <2>5. Nat \subseteq S
    BY <2>3, <2>4, SetInduction
  <2> QED
    BY <2>5 DEF S
<1> DEFINE P(m) == CHOOSE g : Powers(g, m)
           F == [n \in Nat |-> P(n)[n]]
           E == [n \in Nat |-> IF n = 0 THEN 1 ELSE 2 * F[n - 1]]
<1>3. \A m \in Nat : Powers(P(m), m)
  BY <1>1
<1> HIDE DEF P
<1>4. ASSUME NEW n \in Nat PROVE F[n] = E[n]
  <2>1. CASE n = 0
    <3>1. Powers(P(0), 0)
      BY <1>3
    <3>2. P(0)[0] = 1
      BY <3>1
    <3> QED
      BY <2>1, <3>2
  <2>2. CASE n # 0
    <3>0. n - 1 \in Nat
      BY <2>2
    <3>1. n - 1 \in Nat /\ Powers(P(n), n) /\ Powers(P(n - 1), n - 1)
      <4> HIDE DEF Powers
      <4> QED
        BY <1>3, <3>0
    <3>2. P(n)[n] = 2 * P(n)[n - 1]
      BY <2>2, <3>1
    <3> HIDE DEF Powers
    <3>3. P(n)[n - 1] = P(n - 1)[n - 1]
      BY <1>2, <3>1
    <3> QED
      BY <2>2, <3>1, <3>2, <3>3
  <2> QED
    BY <2>1, <2>2
<1>5. F = [n \in Nat |-> IF n = 0 THEN 1 ELSE 2 * F[n - 1]]
  <2>1. F = E
    BY <1>4
  <2> HIDE DEF F
  <2> QED
    BY <2>1
<1> HIDE DEF F
<1>6. TwoTo = [n \in Nat |-> IF n = 0 THEN 1 ELSE 2 * TwoTo[n - 1]]
  BY <1>5 DEF TwoTo
<1>7. TwoTo[0] = 1 /\ \A n \in Nat : TwoTo[n + 1] = 2 * TwoTo[n]
  BY <1>6
<1> DEFINE S == {n \in Nat : TwoTo[n] \in Nat /\ TwoTo[n] >= 1}
<1>8. 0 \in S
  BY <1>7
<1>9. ASSUME NEW n \in Nat, n \in S PROVE n + 1 \in S
  BY <1>7, <1>9
<1> HIDE DEF S
<1>10. Nat \subseteq S
  BY <1>8, <1>9, SetInduction
<1> QED
  BY <1>7, <1>10 DEF S

\* A power is a multiple of every smaller one.
LEMMA TwoToMultiple ==
  ASSUME NEW m \in Nat, NEW n \in Nat
  PROVE  TwoTo[m + n] = TwoTo[m] * TwoTo[n]
<1> DEFINE S == {k \in Nat : TwoTo[m + k] = TwoTo[m] * TwoTo[k]}
<1>1. 0 \in S
  BY TwoToDef
<1>2. ASSUME NEW k \in Nat, k \in S PROVE k + 1 \in S
  <2>1. TwoTo[m + (k + 1)] = 2 * TwoTo[m + k] /\ TwoTo[k + 1] = 2 * TwoTo[k]
    <3>1. m + (k + 1) = (m + k) + 1 /\ m + k \in Nat
      OBVIOUS
    <3> QED
      BY <3>1, TwoToDef
  <2>2. TwoTo[m + k] = TwoTo[m] * TwoTo[k]
    BY <1>2
  <2>3. TwoTo[m] \in Nat /\ TwoTo[k] \in Nat
    BY TwoToDef
  <2>4. 2 * (TwoTo[m] * TwoTo[k]) = TwoTo[m] * (2 * TwoTo[k])
    BY ONLY <2>3
  <2> QED
    BY <2>1, <2>2, <2>4
<1> HIDE DEF S
<1>3. Nat \subseteq S
  BY <1>1, <1>2, SetInduction
<1> QED
  BY <1>3 DEF S

\* An odd number.
Odd(x) == \E k \in Int : x = 2 * k + 1

\* Equal as unsigned ints.
Congruent(x, y) == \E k \in Int : x = y + Word2 * k

\* An odd number divides out of what two divides: if m * y is even, so is y.
LEMMA OddTimes ==
  ASSUME NEW m \in Int, Odd(m), NEW y \in Int, NEW k \in Int, m * y = 2 * k
  PROVE  \E j \in Int : y = 2 * j
<1>1. PICK l \in Int : m = 2 * l + 1
  BY DEF Odd
<1>2. m * y = 2 * (l * y) + y /\ l * y \in Int
  BY <1>1
<1> DEFINE z == l * y
<1>3. z \in Int /\ 2 * z + y = 2 * k
  BY <1>2
<1> HIDE DEF z
<1>4. y = 2 * (k - z) /\ k - z \in Int
  BY <1>3
<1> QED
  BY <1>4

\* An odd factor takes no power of two out of a number.
LEMMA OddCancels ==
  ASSUME NEW m \in Int, Odd(m), NEW x \in Int, NEW n \in Nat, \E k \in Int : m * x = TwoTo[n] * k
  PROVE  \E k \in Int : x = TwoTo[n] * k
<1> DEFINE Mult(y, i) == \E k \in Int : y = TwoTo[i] * k
           S == {i \in Nat : Mult(m * x, i) => Mult(x, i)}
<1>1. 0 \in S
  <2>1. x = TwoTo[0] * x
    BY TwoToDef
  <2> QED
    BY <2>1
<1>2. ASSUME NEW i \in Nat, i \in S PROVE i + 1 \in S
  <2> SUFFICES ASSUME NEW k \in Int, m * x = TwoTo[i + 1] * k PROVE Mult(x, i + 1)
    OBVIOUS
  <2> DEFINE p == TwoTo[i]
  <2>1. p \in Int /\ p >= 1 /\ TwoTo[i + 1] = 2 * p
    BY TwoToDef
  <2>2. m * x = p * (2 * k) /\ 2 * k \in Int
    BY <2>1
  <2>3. PICK y \in Int : x = p * y
    BY <1>2, <2>2
  <2> HIDE DEF p
  <2>4. m * y = 2 * k
    <3>1. m * (p * y) = p * (m * y)
      BY ONLY <2>1, y \in Int, m \in Int
    <3> DEFINE v == m * y
               w == 2 * k
    <3>2. p * v = p * w /\ v \in Int /\ w \in Int
      BY <2>2, <2>3, <3>1
    <3> HIDE DEF v, w
    <3>3. v = w
      BY ONLY <2>1, <3>2
    <3> QED
      BY <3>3 DEF v, w
  <2>5. PICK j \in Int : y = 2 * j
    <3>1. m \in Int /\ Odd(m) /\ y \in Int /\ k \in Int /\ m * y = 2 * k
      BY <2>4
    <3> QED
      BY ONLY <3>1, OddTimes
  <2>6. x = TwoTo[i + 1] * j
    BY <2>1, <2>3, <2>5
  <2> QED
    BY <2>6
<1> HIDE DEF S
<1>3. n \in S
  BY <1>1, <1>2, SetInduction
<1> QED
  BY <1>3 DEF S

\* The number of an unsigned int's values.
LEMMA Word2Facts == /\ Word2 \in Nat /\ Word2 >= 256 /\ Bits \in Nat
                    /\ \E e \in Int : Word2 = 2 * e
<1>1. Bits \in Nat /\ Bits >= 8 /\ Bits - 8 \in Nat /\ Bits = 8 + (Bits - 8)
  BY HashAssumption
<1>2. TwoTo[8] = 256
  <2>1. /\ TwoTo[0 + 1] = 2 * TwoTo[0] /\ TwoTo[1 + 1] = 2 * TwoTo[1]
        /\ TwoTo[2 + 1] = 2 * TwoTo[2] /\ TwoTo[3 + 1] = 2 * TwoTo[3]
        /\ TwoTo[4 + 1] = 2 * TwoTo[4] /\ TwoTo[5 + 1] = 2 * TwoTo[5]
        /\ TwoTo[6 + 1] = 2 * TwoTo[6] /\ TwoTo[7 + 1] = 2 * TwoTo[7]
    BY TwoToDef
  <2>2. /\ TwoTo[0] = 1 /\ TwoTo[1] = 2 * TwoTo[0] /\ TwoTo[2] = 2 * TwoTo[1] /\ TwoTo[3] = 2 * TwoTo[2]
        /\ TwoTo[4] = 2 * TwoTo[3] /\ TwoTo[5] = 2 * TwoTo[4] /\ TwoTo[6] = 2 * TwoTo[5]
        /\ TwoTo[7] = 2 * TwoTo[6] /\ TwoTo[8] = 2 * TwoTo[7]
    BY <2>1, TwoToDef
  <2> QED
    BY ONLY <2>2
<1>3. PICK q \in Nat : q >= 1 /\ TwoTo[Bits] = 256 * q
  <2> DEFINE b == Bits - 8
  <2>1. b \in Nat /\ 8 \in Nat /\ Bits = 8 + b
    BY <1>1
  <2> HIDE DEF b
  <2>2. TwoTo[8 + b] = TwoTo[8] * TwoTo[b] /\ TwoTo[b] \in Nat /\ TwoTo[b] >= 1
    BY <2>1, TwoToDef, TwoToMultiple
  <2> QED
    BY <1>2, <2>1, <2>2
<1>4. Word2 = 256 * q
  BY <1>3 DEF Word2
<1>5. Word2 = 2 * (128 * q) /\ 128 * q \in Int
  BY <1>4
<1> QED
  BY <1>1, <1>3, <1>4, <1>5

\* What is stored in an unsigned int is a word, equal as an unsigned int to the value.
LEMMA UintFacts ==
  ASSUME NEW x \in Int
  PROVE  /\ Uint(x) \in Nat /\ Uint(x) < Word2
         /\ Congruent(Uint(x), x)
<1>1. Word2 \in Int /\ Word2 > 0
  BY Word2Facts
<1> DEFINE q == x \div Word2
           r == x % Word2
<1>2. q \in Int /\ r \in 0..(Word2 - 1) /\ x = Word2 * q + r
  BY <1>1, DivMod
<1>3. Uint(x) = r
  BY DEF Uint
<1> HIDE DEF q, r
<1>4. r = x + Word2 * (0 - q) /\ 0 - q \in Int
  BY <1>1, <1>2
<1> QED
  BY <1>1, <1>2, <1>3, <1>4 DEF Congruent

\* Sums of equal unsigned ints are equal.
LEMMA CongruentSum ==
  ASSUME NEW x \in Int, NEW y \in Int, NEW u \in Int, NEW v \in Int,
         Congruent(x, y), Congruent(u, v)
  PROVE  Congruent(x + u, y + v)
<1>1. PICK k \in Int : x = y + Word2 * k
  BY DEF Congruent
<1>2. PICK l \in Int : u = v + Word2 * l
  BY DEF Congruent
<1>3. Word2 \in Int
  BY Word2Facts
<1>4. x + u = (y + v) + Word2 * (k + l) /\ k + l \in Int
  BY <1>1, <1>2, <1>3
<1> QED
  BY <1>4 DEF Congruent

\* Multiples of equal unsigned ints are equal.
LEMMA CongruentTimes ==
  ASSUME NEW x \in Int, NEW y \in Int, NEW m \in Int, Congruent(x, y)
  PROVE  Congruent(m * x, m * y)
<1>1. PICK k \in Int : x = y + Word2 * k
  BY DEF Congruent
<1>2. Word2 \in Int
  BY Word2Facts
<1>3. m * (y + Word2 * k) = m * y + Word2 * (m * k) /\ m * k \in Int
  BY ONLY <1>2, m \in Int, y \in Int, k \in Int
<1> QED
  BY <1>1, <1>3 DEF Congruent

\* Equality as unsigned ints is transitive ...
LEMMA CongruentTrans ==
  ASSUME NEW x \in Int, NEW y \in Int, NEW z \in Int, Congruent(x, y), Congruent(y, z)
  PROVE  Congruent(x, z)
<1>1. PICK k \in Int : x = y + Word2 * k
  BY DEF Congruent
<1>2. PICK l \in Int : y = z + Word2 * l
  BY DEF Congruent
<1>3. Word2 \in Int
  BY Word2Facts
<1>4. x = z + Word2 * (k + l) /\ k + l \in Int
  BY <1>1, <1>2, <1>3
<1> QED
  BY <1>4 DEF Congruent

\* ... reflexive ...
LEMMA CongruentSelf == \A x \in Int : Congruent(x, x)
<1> SUFFICES ASSUME NEW x \in Int PROVE Congruent(x, x)
  OBVIOUS
<1>1. x = x + Word2 * 0
  BY Word2Facts
<1> QED
  BY <1>1 DEF Congruent

\* Numbers less than a word apart are equal as unsigned ints only if they are equal.
LEMMA CloseNumbers ==
  ASSUME NEW x \in Int, NEW y \in Int, x - y < Word2, y - x < Word2, Congruent(x, y)
  PROVE  x = y
<1>1. PICK k \in Int : x = y + Word2 * k
  BY DEF Congruent
<1>2. Word2 \in Int /\ Word2 >= 1
  BY Word2Facts
<1> DEFINE d == Word2
<1>0. d \in Int /\ d >= 1 /\ x = y + d * k /\ x - y < d /\ y - x < d
  BY <1>1, <1>2
<1> HIDE DEF d
<1>3. CASE k >= 1
  <2>1. d * k >= d
    BY ONLY <1>0, <1>3, k \in Int
  <2> QED
    BY <1>0, <2>1
<1>4. CASE k <= -1
  <2>1. d * k <= -d
    BY ONLY <1>0, <1>4, k \in Int
  <2> QED
    BY <1>0, <2>1
<1>5. CASE k = 0
  BY <1>0, <1>5
<1> QED
  BY <1>3, <1>4, <1>5

\* x << n is x times a power of two, as unsigned ints.
LEMMA ShlFacts ==
  ASSUME NEW x \in Nat, NEW n \in Nat
  PROVE  Shl(x, n) \in Nat /\ Congruent(Shl(x, n), TwoTo[n] * x)
<1>0. Bits \in Nat /\ Word2 = TwoTo[Bits] /\ Word2 \in Int
  BY Word2Facts DEF Word2
<1> DEFINE p == TwoTo[n]
<1>p. p \in Int /\ p >= 1
  BY TwoToDef
<1>1. CASE n >= Bits
  <2>1. PICK k \in Nat : n = Bits + k
    <3>1. n = Bits + (n - Bits) /\ n - Bits \in Nat
      BY <1>0, <1>1
    <3> QED
      BY <3>1
  <2>2. p = Word2 * TwoTo[k] /\ TwoTo[k] \in Int
    <3>1. TwoTo[Bits + k] = TwoTo[Bits] * TwoTo[k] /\ TwoTo[k] \in Nat
      BY <1>0, TwoToDef, TwoToMultiple
    <3> QED
      BY <1>0, <2>1, <3>1
  <2> DEFINE e == TwoTo[k]
  <2> HIDE DEF e
  <2>3. p = Word2 * e /\ e \in Int
    BY <2>2 DEF e
  <2>4. Shl(x, n) = 0
    BY <1>1 DEF Shl
  <2>5. 0 = (Word2 * e) * x + Word2 * (0 - e * x) /\ 0 - e * x \in Int
    BY ONLY <1>0, <2>3, x \in Nat
  <2> HIDE DEF p
  <2>6. 0 = p * x + Word2 * (0 - e * x)
    BY <2>3, <2>5
  <2>7. Congruent(0, p * x)
    BY <2>5, <2>6 DEF Congruent
  <2> QED
    BY <2>4, <2>7 DEF p
<1>2. CASE n < Bits
  <2> DEFINE b == TwoTo[Bits - n]
             q == x \div b
             r == x % b
  <2>1. Bits - n \in Nat /\ Bits = n + (Bits - n)
    BY <1>0, <1>2
  <2>2. b \in Int /\ b > 0 /\ Word2 = p * b
    <3> DEFINE m == Bits - n
    <3>1. m \in Nat /\ Bits = n + m
      BY <2>1
    <3> HIDE DEF m
    <3>2. TwoTo[n + m] = TwoTo[n] * TwoTo[m] /\ TwoTo[m] \in Nat /\ TwoTo[m] >= 1
      BY <3>1, TwoToDef, TwoToMultiple
    <3>3. TwoTo[m] \in Int /\ TwoTo[m] > 0 /\ Word2 = p * TwoTo[m]
      BY <1>0, <3>1, <3>2
    <3> QED
      BY <3>3 DEF m
  <2>3. Shl(x, n) = r * p
    BY <1>0, <1>2 DEF Shl
  <2> HIDE DEF b
  <2>4. q \in Int /\ r \in 0..(b - 1) /\ x = b * q + r
    BY <2>2, DivMod
  <2> HIDE DEF q, r, p
  <2>5. r * p \in Nat
    BY <1>p, <2>2, <2>4
  <2>6. p * (b * q + r) + (p * b) * (0 - q) = r * p /\ 0 - q \in Int
    BY ONLY <1>p, <2>2, <2>4
  <2>7. Congruent(r * p, p * x)
    BY <2>2, <2>4, <2>6 DEF Congruent
  <2> QED
    BY <2>3, <2>5, <2>7 DEF p
<1> QED
  BY <1>0, <1>1, <1>2

\* x * y by the bytes of y is the product, as unsigned ints.
LEMMA TimesFacts ==
  ASSUME NEW x \in Nat, NEW y \in Nat
  PROVE  Times(x, y) \in Nat /\ Times(x, y) < Word2 /\ Congruent(Times(x, y), x * y)
<1> DEFINE q == y \div 256
           r == y % 256
           u == x * q
           v == Uint(u) * 256 + x * r
<1>1. q \in Int /\ r \in Int /\ y = 256 * q + r
  BY DivMod
<1>2. Times(x, y) = Uint(v)
  BY DEF Times
<1> HIDE DEF q, r
<1>3. u \in Int /\ x * r \in Int
  BY <1>1
<1>4. x * y = 256 * u + x * r
  BY <1>1
<1> HIDE DEF u
<1>5. Uint(u) \in Int /\ Congruent(Uint(u), u)
  BY <1>3, UintFacts
<1>6. Congruent(256 * Uint(u), 256 * u)
  BY <1>3, <1>5, CongruentTimes
<1>7. Congruent(256 * Uint(u) + x * r, 256 * u + x * r)
  <2>1. 256 * Uint(u) \in Int /\ 256 * u \in Int
    BY <1>3, <1>5
  <2> QED
    BY <1>3, <1>6, <2>1, CongruentSelf, CongruentSum
<1>8. v = 256 * Uint(u) + x * r /\ v \in Int
  BY <1>3, <1>5
<1> HIDE DEF v
<1>9. Congruent(v, x * y)
  BY <1>4, <1>7, <1>8
<1>10. Uint(v) \in Nat /\ Uint(v) < Word2 /\ Congruent(Uint(v), v)
  BY <1>8, UintFacts
<1>11. Uint(v) \in Int /\ x * y \in Int
  BY <1>10
<1>12. Congruent(Uint(v), x * y)
  BY <1>8, <1>9, <1>10, <1>11, CongruentTrans
<1> QED
  BY <1>2, <1>10, <1>12

\* What is odd stays odd as an unsigned int.
LEMMA OddWord ==
  ASSUME NEW x \in Int, Odd(x), NEW y \in Int, Congruent(y, x)
  PROVE  Odd(y)
<1>1. PICK e \in Int : Word2 = 2 * e
  BY Word2Facts
<1>2. PICK k \in Int : x = 2 * k + 1
  BY DEF Odd
<1>3. PICK l \in Int : y = x + Word2 * l
  BY DEF Congruent
<1>4. (2 * k + 1) + (2 * e) * l = 2 * (k + e * l) + 1 /\ k + e * l \in Int
  BY ONLY k \in Int, e \in Int, l \in Int
<1> QED
  BY <1>1, <1>2, <1>3, <1>4 DEF Odd

\* The product of odd numbers is odd.
LEMMA OddProduct ==
  ASSUME NEW x \in Int, Odd(x), NEW y \in Int, Odd(y)
  PROVE  Odd(x * y)
<1>1. PICK k \in Int : x = 2 * k + 1
  BY DEF Odd
<1>2. PICK l \in Int : y = 2 * l + 1
  BY DEF Odd
<1>3. (2 * k + 1) * (2 * l + 1) = 2 * (2 * (k * l) + k + l) + 1 /\ 2 * (k * l) + k + l \in Int
  BY ONLY k \in Int, l \in Int
<1> QED
  BY <1>1, <1>2, <1>3 DEF Odd

\* ... and symmetric.
LEMMA CongruentSym ==
  ASSUME NEW x \in Int, NEW y \in Int, Congruent(x, y)
  PROVE  Congruent(y, x)
<1>1. PICK k \in Int : x = y + Word2 * k
  BY DEF Congruent
<1>2. Word2 \in Int
  BY Word2Facts
<1>3. y = x + Word2 * (0 - k) /\ 0 - k \in Int
  BY <1>1, <1>2
<1> QED
  BY <1>3 DEF Congruent

\* A word of which u is the unsigned int.
IsWord(w, u) == w \in Nat /\ w < Word2 /\ Congruent(w, u)

\* The unsigned int of a number is that of every equal one.
LEMMA WordOf ==
  ASSUME NEW x \in Int, NEW y \in Int, Congruent(x, y)
  PROVE  IsWord(Uint(x), y)
<1>1. Uint(x) \in Nat /\ Uint(x) < Word2 /\ Congruent(Uint(x), x)
  BY UintFacts
<1>2. Uint(x) \in Int
  BY <1>1
<1>3. Congruent(Uint(x), y)
  BY <1>1, <1>2, CongruentTrans
<1> QED
  BY <1>1, <1>3 DEF IsWord

\* One character more for a hash: u of x and c, v of y and d.
Apart(x, y, c, d, u, v) ==
  /\ u \in Nat /\ u < Word2 /\ v \in Nat /\ v < Word2
  /\ x = y /\ c = d => u = v
  /\ x = y /\ c # d => u # v
  /\ x # y /\ c = d => u # v

\* A hash that multiplies by an odd number and adds the character keeps apart what differed
\* before or differs in the character.
LEMMA OddMultiplier ==
  ASSUME NEW m \in Int, Odd(m), NEW x \in Nat, NEW y \in Nat, x < Word2, y < Word2,
         NEW c \in -128..127, NEW d \in -128..127,
         NEW u, NEW v, IsWord(u, m * x + c), IsWord(v, m * y + d)
  PROVE  Apart(x, y, c, d, u, v)
<1>0. /\ Word2 \in Int /\ Word2 >= 256 /\ u \in Int /\ v \in Int /\ m * x \in Int /\ m * y \in Int
      /\ c \in Int /\ d \in Int
  BY Word2Facts DEF IsWord
<1> DEFINE s1 == m * x + c
           s2 == m * y + d
<1>1. Congruent(u, s1) /\ Congruent(v, s2) /\ s1 \in Int /\ s2 \in Int
  BY <1>0 DEF IsWord
<1>2. ASSUME x = y, c = d PROVE u = v
  <2> HIDE DEF s1, s2
  <2>1. s1 = s2
    BY <1>2 DEF s1, s2
  <2>2. Congruent(s1, v)
    BY <1>0, <1>1, <2>1, CongruentSym
  <2>3. Congruent(u, v)
    BY <1>0, <1>1, <2>2, CongruentTrans
  <2>4. u - v < Word2 /\ v - u < Word2
    BY <1>0 DEF IsWord
  <2> QED
    BY <1>0, <2>3, <2>4, CloseNumbers
<1>3. ASSUME u = v PROVE Congruent(s1, s2)
  <2> HIDE DEF s1, s2
  <2>1. Congruent(s1, u)
    BY <1>0, <1>1, CongruentSym
  <2> QED
    BY <1>0, <1>1, <1>3, <2>1, CongruentTrans
<1>4. ASSUME x = y, u = v PROVE c = d
  <2>1. PICK k \in Int : s1 = s2 + Word2 * k
    BY <1>3, <1>4 DEF Congruent
  <2> DEFINE p == m * x
             w == Word2 * k
  <2>2. p \in Int /\ w \in Int /\ p + c = p + d + w
    BY <1>0, <1>4, <2>1
  <2> HIDE DEF p, w
  <2>3. c = d + w
    BY ONLY <1>0, <2>2
  <2>4. Congruent(c, d)
    BY <2>3 DEF Congruent, w
  <2>5. c - d < Word2 /\ d - c < Word2
    BY <1>0
  <2> QED
    BY <1>0, <2>4, <2>5, CloseNumbers
<1>5. ASSUME c = d, u = v PROVE x = y
  <2>1. PICK k \in Int : s1 = s2 + Word2 * k
    BY <1>3, <1>5 DEF Congruent
  <2> DEFINE p == m * x
             q == m * y
             w == Word2 * k
  <2>2. p \in Int /\ q \in Int /\ w \in Int /\ p + c = q + c + w
    BY <1>0, <1>5, <2>1
  <2>3. m * (x - y) = p - q /\ x - y \in Int
    OBVIOUS
  <2> HIDE DEF p, q, w
  <2>4. p - q = w
    BY ONLY <1>0, <2>2
  <2>5. m * (x - y) = TwoTo[Bits] * k
    BY <2>3, <2>4 DEF w, Word2
  <2>6. PICK j \in Int : x - y = TwoTo[Bits] * j
    <3>1. Bits \in Nat
      BY Word2Facts
    <3> DEFINE z == x - y
    <3>2. z \in Int /\ m * z = TwoTo[Bits] * k
      BY <2>3, <2>5
    <3> HIDE DEF z
    <3>3. \E j \in Int : z = TwoTo[Bits] * j
      BY <3>1, <3>2, OddCancels
    <3> QED
      BY <3>3 DEF z
  <2>7. Congruent(x, y)
    <3>1. Word2 * j \in Int /\ x - y = Word2 * j
      BY <1>0, <2>6 DEF Word2
    <3>2. x = y + Word2 * j
      BY <3>1
    <3> QED
      BY <3>2 DEF Congruent
  <2>8. x - y < Word2 /\ y - x < Word2 /\ x \in Int /\ y \in Int
    BY <1>0
  <2> QED
    BY <2>7, <2>8, CloseNumbers
<1> QED
  BY <1>2, <1>4, <1>5 DEF Apart, IsWord

\* hash * a + c.
LEMMA TimesAdd ==
  ASSUME NEW h \in Nat, NEW m \in Nat, NEW c \in Int
  PROVE  IsWord(Uint(Times(h, m) + c), m * h + c)
<1>1. Times(h, m) \in Int /\ Congruent(Times(h, m), h * m)
  BY TimesFacts
<1>2. h * m = m * h /\ h * m \in Int
  OBVIOUS
<1>3. Congruent(Times(h, m) + c, m * h + c)
  BY <1>1, <1>2, CongruentSelf, CongruentSum
<1>4. Times(h, m) + c \in Int /\ m * h + c \in Int
  BY <1>1, <1>2
<1> QED
  BY <1>3, <1>4, WordOf

\* What DJBHash and SDBMHash multiply by, written with shifts.
DJBFactor  == TwoTo[5] + 1
SDBMFactor == TwoTo[6] + TwoTo[16] - 1

\* The constants that the hashes multiply by are odd.
LEMMA Factors ==
  /\ DJBFactor \in Int /\ Odd(DJBFactor)
  /\ SDBMFactor \in Int /\ Odd(SDBMFactor)
  /\ Odd(131) /\ Odd(63689) /\ Odd(378551)
<1>1. TwoTo[4 + 1] = 2 * TwoTo[4] /\ TwoTo[5 + 1] = 2 * TwoTo[5] /\ TwoTo[15 + 1] = 2 * TwoTo[15]
  BY TwoToDef
<1>2. TwoTo[4] \in Int /\ TwoTo[5] \in Int /\ TwoTo[15] \in Int
  BY TwoToDef
<1>3. TwoTo[5] = 2 * TwoTo[4] /\ TwoTo[6] = 2 * TwoTo[5] /\ TwoTo[16] = 2 * TwoTo[15]
  BY <1>1
<1> DEFINE k == TwoTo[4]
           l == TwoTo[5] + TwoTo[15] - 1
<1>4. DJBFactor = 2 * k + 1 /\ SDBMFactor = 2 * l + 1 /\ k \in Int /\ l \in Int
  BY <1>2, <1>3 DEF DJBFactor, SDBMFactor
<1> HIDE DEF k, l
<1>5. DJBFactor \in Int /\ Odd(DJBFactor) /\ SDBMFactor \in Int /\ Odd(SDBMFactor)
  BY <1>4 DEF Odd
<1>6. 131 = 2 * 65 + 1 /\ 63689 = 2 * 31844 + 1 /\ 378551 = 2 * 189275 + 1
  OBVIOUS
<1>7. Odd(131) /\ Odd(63689) /\ Odd(378551)
  BY ONLY <1>6 DEF Odd
<1> QED
  BY <1>5, <1>7

\* hash += (hash << 5) + c multiplies by 33 and adds c.
LEMMA DJBLinear ==
  ASSUME NEW h \in Nat, NEW c \in Int
  PROVE  IsWord(DJBHash(h, c), DJBFactor * h + c)
<1> DEFINE p == TwoTo[5]
           t1 == Shl(h, 5)
<1>0. 5 \in Nat
  OBVIOUS
<1>1. t1 \in Int /\ Congruent(t1, p * h) /\ p \in Int /\ p * h \in Int
  <2>1. t1 \in Nat /\ Congruent(t1, p * h)
    BY <1>0, ShlFacts
  <2>2. p \in Nat
    BY <1>0, TwoToDef
  <2> HIDE DEF p, t1
  <2> QED
    BY <2>1, <2>2
<1>2. (p + 1) * h + c = p * h + (h + c) /\ h + t1 + c = t1 + (h + c) /\ h + c \in Int
  BY <1>1
<1>3. DJBHash(h, c) = Uint(h + t1 + c)
  BY DEF DJBHash
<1> HIDE DEF t1
<1>4. Congruent(t1 + (h + c), p * h + (h + c))
  BY <1>1, <1>2, CongruentSelf, CongruentSum
<1>5. Congruent(h + t1 + c, DJBFactor * h + c) /\ h + t1 + c \in Int /\ DJBFactor * h + c \in Int
  BY <1>1, <1>2, <1>4 DEF DJBFactor
<1> QED
  BY <1>3, <1>5, WordOf

\* c + (hash << 6) + (hash << 16) - hash multiplies by 65599 and adds c.
LEMMA SDBMLinear ==
  ASSUME NEW h \in Nat, NEW c \in Int
  PROVE  IsWord(SDBMHash(h, c), SDBMFactor * h + c)
<1> DEFINE p == TwoTo[6]
           q == TwoTo[16]
           t1 == Shl(h, 6)
           t2 == Shl(h, 16)
<1>1. /\ t1 \in Int /\ Congruent(t1, p * h) /\ p \in Int /\ p * h \in Int
      /\ t2 \in Int /\ Congruent(t2, q * h) /\ q \in Int /\ q * h \in Int
  <2>0. 6 \in Nat /\ 16 \in Nat
    OBVIOUS
  <2>1. t1 \in Nat /\ Congruent(t1, p * h) /\ t2 \in Nat /\ Congruent(t2, q * h)
    BY <2>0, ShlFacts
  <2>2. p \in Nat /\ q \in Nat
    BY <2>0, TwoToDef
  <2> HIDE DEF p, q, t1, t2
  <2> QED
    BY <2>1, <2>2
<1>2. SDBMHash(h, c) = Uint(c + t1 + t2 - h)
  BY DEF SDBMHash
<1> HIDE DEF t1, t2, p, q
<1>3. Congruent(t1 + t2, p * h + q * h)
  BY <1>1, CongruentSum
<1>4. t1 + t2 \in Int /\ p * h + q * h \in Int /\ c - h \in Int
  BY <1>1
<1>5. Congruent((t1 + t2) + (c - h), (p * h + q * h) + (c - h))
  BY <1>3, <1>4, CongruentSelf, CongruentSum
<1>6. (t1 + t2) + (c - h) = c + t1 + t2 - h
  BY <1>1
<1>7. (p + q - 1) * h + c = (p * h + q * h) + (c - h)
  BY <1>1
<1>8. Congruent(c + t1 + t2 - h, SDBMFactor * h + c)
  BY <1>5, <1>6, <1>7 DEF SDBMFactor, p, q
<1>9. c + t1 + t2 - h \in Int /\ SDBMFactor * h + c \in Int
  BY <1>1, Factors
<1> QED
  BY <1>2, <1>8, <1>9, WordOf

\* The word made of bits has these bits.
LEMMA BitsBack ==
  ASSUME NEW f, \A i \in 1..Bits : f[i] \in {0, 1}
  PROVE  /\ OfBits(f) \in Nat /\ OfBits(f) < Word2
         /\ \A i \in 1..Bits : Bit(OfBits(f), i) = f[i]
<1>0. Bits \in Nat
  BY Word2Facts
<1> DEFINE w == [i \in 1..Bits |-> f[i] * TwoTo[i - 1]]
           A == Running(w)
<1>1. \A n \in 0..(Bits - 1) : TwoTo[n] \in Nat /\ TwoTo[n] >= 1 /\ TwoTo[n + 1] = 2 * TwoTo[n]
  BY <1>0, TwoToDef
<1>2. \A i \in 1..Bits : w[i] = f[i] * TwoTo[i - 1] /\ w[i] \in Nat
  BY <1>0, <1>1
<1>3. Len(w) = Bits
  <2>1. w \in [1..Bits -> Nat]
    BY <1>2
  <2> QED
    BY <1>0, <2>1
<1> HIDE DEF w
<1>4. A \in [0..Bits -> Nat] /\ A[0] = 0 /\ \A n \in 1..Bits : A[n] = A[n - 1] + w[n]
  BY <1>0, <1>2, <1>3, RunningDef
<1>5. OfBits(f) = A[Bits]
  BY <1>3 DEF OfBits, Total, w
<1> HIDE DEF A
<1>6. ASSUME NEW n \in Nat, n + 1 <= Bits
      PROVE  /\ A[n + 1] = A[n] + f[n + 1] * TwoTo[n] /\ A[n] \in Nat /\ A[n + 1] \in Nat
             /\ f[n + 1] \in {0, 1} /\ TwoTo[n] \in Nat /\ TwoTo[n] >= 1 /\ TwoTo[n + 1] = 2 * TwoTo[n]
  <2>1. n + 1 \in 1..Bits /\ n \in 0..(Bits - 1) /\ n \in 0..Bits /\ n + 1 \in 0..Bits /\ (n + 1) - 1 = n
    BY <1>0, <1>6
  <2>2. A[n + 1] = A[n] + w[n + 1]
    BY <1>4, <2>1
  <2>3. w[n + 1] = f[n + 1] * TwoTo[n]
    BY <1>2, <2>1
  <2> QED
    BY <1>1, <1>4, <2>1, <2>2, <2>3
<1>7. \A n \in 0..Bits : A[n] < TwoTo[n]
  <2> DEFINE S == {n \in Nat : n <= Bits => A[n] < TwoTo[n]}
  <2>1. 0 \in S
    BY <1>4, TwoToDef
  <2>2. ASSUME NEW n \in Nat, n \in S PROVE n + 1 \in S
    <3> SUFFICES ASSUME n + 1 <= Bits PROVE A[n + 1] < TwoTo[n + 1]
      OBVIOUS
    <3>1. A[n] < TwoTo[n]
      BY <1>0, <2>2
    <3>2. /\ A[n + 1] = A[n] + f[n + 1] * TwoTo[n] /\ A[n] \in Nat
          /\ f[n + 1] \in {0, 1} /\ TwoTo[n] \in Nat /\ TwoTo[n + 1] = 2 * TwoTo[n]
      BY <1>6
    <3> QED
      BY ONLY <3>1, <3>2
  <2> HIDE DEF S
  <2>3. Nat \subseteq S
    BY <2>1, <2>2, SetInduction
  <2> QED
    BY <1>0, <2>3 DEF S
<1>8. ASSUME NEW i \in 1..Bits PROVE Bit(OfBits(f), i) = f[i]
  <2> DEFINE p == TwoTo[i - 1]
             lo == A[i - 1]
             Rest(n) == \E k \in Int : A[n] = p * (2 * k + f[i]) + lo
             S == {n \in Nat : i <= n /\ n <= Bits => Rest(n)}
  <2>1. /\ i - 1 \in Nat /\ i = (i - 1) + 1 /\ i \in Nat /\ (i - 1) + 1 <= Bits /\ i - 1 \in 0..Bits
    BY <1>0
  <2>2. /\ p \in Int /\ p >= 1 /\ TwoTo[i] = 2 * p /\ lo \in Int /\ 0 <= lo /\ lo < p
        /\ A[i] = lo + f[i] * p /\ f[i] \in {0, 1}
    BY <1>6, <1>7, <2>1
  <2> HIDE DEF p, lo
  <2>3. 0 \in S
    BY <2>1
  <2>4. ASSUME NEW n \in Nat, n \in S PROVE n + 1 \in S
    <3> SUFFICES ASSUME i <= n + 1, n + 1 <= Bits PROVE Rest(n + 1)
      OBVIOUS
    <3>1. CASE n + 1 = i
      <4>1. A[i] = p * (2 * 0 + f[i]) + lo
        BY <2>2
      <4> QED
        BY <3>1, <4>1
    <3>2. CASE n + 1 # i
      <4>1. i <= n /\ n <= Bits
        BY <1>0, <2>1, <3>2
      <4>2. PICK k \in Int : A[n] = p * (2 * k + f[i]) + lo
        BY <2>4, <4>1
      <4>3. PICK j \in Nat : n = i + j
        <5>1. n = i + (n - i) /\ n - i \in Nat
          BY <2>1, <4>1
        <5> QED
          BY <5>1
      <4>4. TwoTo[n] = (2 * p) * TwoTo[j] /\ TwoTo[j] \in Nat
        <5>1. TwoTo[i + j] = TwoTo[i] * TwoTo[j] /\ TwoTo[j] \in Nat
          BY <2>1, TwoToDef, TwoToMultiple
        <5> QED
          BY <2>2, <4>3, <5>1
      <4>5. A[n + 1] = A[n] + f[n + 1] * TwoTo[n] /\ f[n + 1] \in {0, 1}
        BY <1>6
      <4> DEFINE q == TwoTo[j]
                 g == f[n + 1]
      <4>6. q \in Int /\ g \in Int /\ f[i] \in Int
        BY <2>2, <4>4, <4>5
      <4>7. A[n + 1] = (p * (2 * k + f[i]) + lo) + g * ((2 * p) * q)
        BY <4>2, <4>4, <4>5
      <4> DEFINE fi == f[i]
      <4> HIDE DEF q, g, fi
      <4>8. (p * (2 * k + fi) + lo) + g * ((2 * p) * q) = p * (2 * (k + g * q) + fi) + lo
        <5>1. fi \in Int
          BY <4>6 DEF fi
        <5> QED
          BY ONLY <2>2, <4>6, <5>1, k \in Int
      <4>9. A[n + 1] = p * (2 * (k + g * q) + f[i]) + lo /\ k + g * q \in Int
        BY <4>6, <4>7, <4>8 DEF fi
      <4> QED
        BY <4>9
    <3> QED
      BY <3>1, <3>2
  <2> HIDE DEF S
  <2>5. Bits \in S
    BY <1>0, <2>3, <2>4, SetInduction
  <2>6. PICK k \in Int : A[Bits] = p * (2 * k + f[i]) + lo
    BY <1>0, <2>5 DEF S
  <2>7. A[Bits] \div p = 2 * k + f[i]
    <3> DEFINE q == 2 * k + f[i]
               u == A[Bits]
    <3>1. u \in Int /\ q \in Int /\ p \in Int /\ p > 0 /\ lo \in Int /\ 0 <= lo /\ lo < p
      BY <1>0, <1>4, <2>2
    <3>2. u = p * q + lo
      BY <2>6
    <3> HIDE DEF q, u
    <3>3. u \div p = q
      BY ONLY <3>1, <3>2, ModIs
    <3> QED
      BY <3>3 DEF q, u
  <2>8. (2 * k + f[i]) % 2 = f[i]
    BY <2>2
  <2> QED
    BY <1>5, <2>7, <2>8 DEF Bit, p
<1> QED
  BY <1>0, <1>4, <1>5, <1>7, <1>8 DEF Word2

\* A bit is 0 or 1.
LEMMA BitRange ==
  ASSUME NEW x \in Nat, NEW i \in 1..Bits
  PROVE  Bit(x, i) \in {0, 1}
<1>1. Bits \in Nat
  BY Word2Facts
<1>2. i - 1 \in Nat
  BY <1>1
<1> DEFINE p == TwoTo[i - 1]
<1>3. p \in Int /\ p > 0
  BY <1>2, TwoToDef
<1> DEFINE q == x \div p
<1>4. q \in Int /\ Bit(x, i) = q % 2
  BY <1>3, DivMod DEF Bit
<1> HIDE DEF q
<1> QED
  BY <1>4

\* The bits of &, ^ and ~.
LEMMA BitOperations ==
  ASSUME NEW x \in Nat, NEW y \in Nat
  PROVE  /\ And(x, y) \in Nat /\ And(x, y) < Word2
         /\ Xor(x, y) \in Nat /\ Xor(x, y) < Word2
         /\ Compl(x) \in Nat /\ Compl(x) < Word2
         /\ \A i \in 1..Bits : /\ Bit(And(x, y), i) = Bit(x, i) * Bit(y, i)
                               /\ Bit(Xor(x, y), i) = (Bit(x, i) + Bit(y, i)) % 2
                               /\ Bit(Compl(x), i) = 1 - Bit(x, i)
<1> DEFINE f == [i \in 1..Bits |-> Bit(x, i) * Bit(y, i)]
           g == [i \in 1..Bits |-> (Bit(x, i) + Bit(y, i)) % 2]
           h == [i \in 1..Bits |-> 1 - Bit(x, i)]
<1>1. \A i \in 1..Bits : Bit(x, i) \in {0, 1} /\ Bit(y, i) \in {0, 1}
  BY BitRange
<1>2. \A i \in 1..Bits : f[i] \in {0, 1} /\ f[i] = Bit(x, i) * Bit(y, i)
  BY <1>1
<1>3. \A i \in 1..Bits : g[i] \in {0, 1} /\ g[i] = (Bit(x, i) + Bit(y, i)) % 2
  BY <1>1
<1>4. \A i \in 1..Bits : h[i] \in {0, 1} /\ h[i] = 1 - Bit(x, i)
  BY <1>1
<1>5. And(x, y) = OfBits(f) /\ Xor(x, y) = OfBits(g) /\ Compl(x) = OfBits(h)
  BY DEF And, Xor, Compl
<1> HIDE DEF f, g, h
<1>6. /\ OfBits(f) \in Nat /\ OfBits(f) < Word2 /\ \A i \in 1..Bits : Bit(OfBits(f), i) = f[i]
  BY <1>2, BitsBack
<1>7. /\ OfBits(g) \in Nat /\ OfBits(g) < Word2 /\ \A i \in 1..Bits : Bit(OfBits(g), i) = g[i]
  BY <1>3, BitsBack
<1>8. /\ OfBits(h) \in Nat /\ OfBits(h) < Word2 /\ \A i \in 1..Bits : Bit(OfBits(h), i) = h[i]
  BY <1>4, BitsBack
<1> QED
  BY <1>2, <1>3, <1>4, <1>5, <1>6, <1>7, <1>8

\* Those of & alone.
LEMMA AndFacts ==
  ASSUME NEW x \in Nat, NEW y \in Nat
  PROVE  /\ And(x, y) \in Nat /\ And(x, y) < Word2
         /\ \A i \in 1..Bits : Bit(And(x, y), i) = Bit(x, i) * Bit(y, i)
  BY BitOperations

\* A word whose bits from the n-th on are zero is below the n-th power.
LEMMA HighZero ==
  ASSUME NEW x \in Nat, x < Word2, NEW n \in Nat, n <= Bits,
         \A i \in 1..Bits : i > n => Bit(x, i) = 0
  PROVE  x < TwoTo[n]
<1>0. Bits \in Nat /\ Word2 = TwoTo[Bits]
  BY Word2Facts DEF Word2
<1> DEFINE S == {m \in Nat : n + m <= Bits => x % TwoTo[n + m] = x % TwoTo[n]}
<1>1. 0 \in S
  OBVIOUS
<1>2. ASSUME NEW m \in Nat, m \in S PROVE m + 1 \in S
  <2> SUFFICES ASSUME n + (m + 1) <= Bits PROVE x % TwoTo[n + (m + 1)] = x % TwoTo[n]
    OBVIOUS
  <2> DEFINE k == n + m
             p == TwoTo[k]
             q == x \div p
             r == x % p
  <2>1. /\ k \in Nat /\ n + (m + 1) = k + 1 /\ k + 1 \in 1..Bits /\ k + 1 > n /\ (k + 1) - 1 = k
    BY <1>0
  <2>2. p \in Int /\ p > 0 /\ TwoTo[k + 1] = 2 * p
    BY <2>1, TwoToDef
  <2>3. r = x % TwoTo[n]
    <3>1. n + m <= Bits
      BY <1>0
    <3>2. x % TwoTo[n + m] = x % TwoTo[n]
      BY <1>2, <3>1
    <3> QED
      BY <3>2
  <2>4. q \in Int /\ r \in 0..(p - 1) /\ x = p * q + r
    <3> HIDE DEF p
    <3>1. x \in Int
      OBVIOUS
    <3> QED
      BY <2>2, <3>1, DivMod
  <2>5. q % 2 = 0
    BY <2>1 DEF Bit
  <2> HIDE DEF k, p, q, r
  <2>6. PICK j \in Int : q = 2 * j
    BY <2>4, <2>5
  <2>7. x = (2 * p) * j + r
    BY <2>2, <2>4, <2>6
  <2>8. x % (2 * p) = r
    <3>1. x \in Int /\ 2 * p \in Int /\ 2 * p > 0 /\ r \in Int /\ 0 <= r /\ r < 2 * p
      BY <2>2, <2>4
    <3> HIDE DEF p
    <3> QED
      BY <2>7, <3>1, ModIs
  <2> QED
    BY <2>1, <2>2, <2>3, <2>8
<1> HIDE DEF S
<1>3. Nat \subseteq S
  BY <1>1, <1>2, SetInduction
<1>4. PICK m \in Nat : Bits = n + m
  <2>1. Bits = n + (Bits - n) /\ Bits - n \in Nat
    BY <1>0
  <2> QED
    BY <2>1
<1>5. x % TwoTo[Bits] = x % TwoTo[n]
  BY <1>0, <1>3, <1>4 DEF S
<1>6. TwoTo[Bits] \in Int /\ TwoTo[n] \in Int /\ TwoTo[n] > 0
  BY <1>0, TwoToDef
<1>7. x % TwoTo[Bits] = x
  BY <1>0, <1>6, SmallMod
<1>8. x % TwoTo[n] \in 0..(TwoTo[n] - 1)
  BY <1>6, DivMod
<1> QED
  BY <1>5, <1>6, <1>7, <1>8

\* TwoTo grows.
LEMMA TwoToGrows ==
  ASSUME NEW m \in Nat, NEW n \in Nat, m <= n
  PROVE  /\ TwoTo[m] \in Nat /\ TwoTo[n] \in Nat /\ 1 <= TwoTo[m] /\ TwoTo[m] <= TwoTo[n]
         /\ \E k \in Nat : TwoTo[n] = TwoTo[m] * k
<1>1. PICK j \in Nat : n = m + j
  <2>1. n = m + (n - m) /\ n - m \in Nat
    OBVIOUS
  <2> QED
    BY <2>1
<1> DEFINE p == TwoTo[m]
           k == TwoTo[j]
<1>2. p \in Nat /\ p >= 1 /\ k \in Nat /\ k >= 1 /\ TwoTo[n] = p * k
  BY <1>1, TwoToDef, TwoToMultiple
<1> HIDE DEF p, k
<1>3. p * k >= p /\ p * k \in Nat
  BY ONLY <1>2
<1> QED
  BY <1>2, <1>3 DEF p

\* How many low bits PJWHash and ELFHash keep.
Kept == Bits - OneEighth

\* The parts of the word that PJWHash computes.
LEMMA Eighths ==
  /\ OneEighth \in Nat /\ OneEighth >= 1 /\ Kept \in Nat /\ Kept + OneEighth = Bits /\ Kept < Bits
  /\ ThreeQuarters \in Nat /\ ThreeQuarters <= Bits /\ Bits - ThreeQuarters <= Kept
  /\ Bits - ThreeQuarters \in Nat
<1>1. Bits \in Nat /\ Bits >= 8
  BY HashAssumption
<1>2. OneEighth \in Nat /\ 8 * OneEighth <= Bits /\ Bits < 8 * OneEighth + 8
  BY <1>1 DEF OneEighth
<1>3. ThreeQuarters \in Nat /\ 4 * ThreeQuarters <= 3 * Bits /\ 3 * Bits < 4 * ThreeQuarters + 4
  BY <1>1 DEF ThreeQuarters
<1> QED
  BY <1>1, <1>2, <1>3 DEF Kept

\* HighBits has the bits above those and no other.
LEMMA HighBitsFacts ==
  /\ HighBits \in Nat
  /\ \A i \in 1..Bits : Bit(HighBits, i) = IF i > Kept THEN 1 ELSE 0
<1>0. Bits \in Nat /\ Word2 = TwoTo[Bits] /\ Word2 \in Nat /\ Word2 >= 256
  BY Word2Facts DEF Word2
<1> DEFINE P == TwoTo[Kept]
           Q == TwoTo[OneEighth]
<1>1. P \in Nat /\ P >= 1 /\ Q \in Nat /\ Q >= 1 /\ Word2 = P * Q
  BY <1>0, Eighths, TwoToDef, TwoToMultiple
<1>2. HighBits = ((Word2 - 1) % Q) * P
  <2>1. Bits - OneEighth = Kept /\ Bits - Kept = OneEighth /\ ~(Kept >= Bits)
    BY <1>0, Eighths DEF Kept
  <2>2. HighBits = Shl(Word2 - 1, Kept)
    BY <2>1 DEF HighBits
  <2> QED
    BY <2>1, <2>2 DEF Shl
<1> HIDE DEF P, Q
<1>3. (Word2 - 1) % Q = Q - 1
  <2>1. P * Q - 1 = Q * (P - 1) + (Q - 1)
    BY <1>1
  <2>2. Word2 - 1 = Q * (P - 1) + (Q - 1)
    BY <1>1, <2>1
  <2>3. Word2 - 1 \in Int /\ Q \in Int /\ Q > 0 /\ P - 1 \in Int /\ Q - 1 \in Int /\ 0 <= Q - 1 /\ Q - 1 < Q
    BY <1>0, <1>1
  <2> QED
    BY <2>2, <2>3, ModIs
<1>4. HighBits = (Q - 1) * P /\ HighBits \in Nat /\ HighBits = Word2 - P
  BY <1>1, <1>2, <1>3
<1>5. ASSUME NEW i \in 1..Bits, i <= Kept PROVE Bit(HighBits, i) = 0
  <2> DEFINE p == TwoTo[i - 1]
  <2>1. i - 1 \in Nat /\ i \in Nat /\ i = (i - 1) + 1 /\ Kept \in Nat
    BY <1>0, Eighths
  <2>2. p \in Int /\ p > 0 /\ TwoTo[i] = 2 * p
    BY <2>1, TwoToDef
  <2>3. PICK k \in Nat : P = (2 * p) * k
    <3>1. \E k \in Nat : TwoTo[Kept] = TwoTo[i] * k
      BY <1>5, <2>1, TwoToGrows
    <3> QED
      BY <2>2, <3>1 DEF P
  <2> HIDE DEF p
  <2>4. (Q - 1) * ((2 * p) * k) = p * (2 * ((Q - 1) * k)) /\ 2 * ((Q - 1) * k) \in Int
    BY ONLY <1>1, <2>2, k \in Nat
  <2> DEFINE j == (Q - 1) * k
  <2>5. HighBits = p * (2 * j) + 0 /\ j \in Int
    BY <1>1, <1>4, <2>3, <2>4
  <2> HIDE DEF j
  <2>6. HighBits \div p = 2 * j
    <3>1. HighBits \in Int /\ 2 * j \in Int /\ 0 <= 0 /\ 0 < p /\ 0 \in Int
      BY <1>4, <2>2, <2>5
    <3> QED
      BY <2>2, <2>5, <3>1, ModIs
  <2>7. (2 * j) % 2 = 0
    BY <2>5
  <2> QED
    BY <2>6, <2>7 DEF Bit, p
<1>6. ASSUME NEW i \in 1..Bits, i > Kept PROVE Bit(HighBits, i) = 1
  <2> DEFINE p == TwoTo[i - 1]
  <2>1. i - 1 \in Nat /\ i \in Nat /\ i = (i - 1) + 1 /\ Kept \in Nat /\ Kept <= i - 1 /\ i <= Bits
    BY <1>0, <1>6, Eighths
  <2>2. p \in Int /\ p > 0 /\ TwoTo[i] = 2 * p
    BY <2>1, TwoToDef
  <2>3. P <= p
    BY <2>1, TwoToGrows DEF P
  <2>4. PICK k \in Nat : Word2 = (2 * p) * k
    <3>1. \E k \in Nat : TwoTo[Bits] = TwoTo[i] * k
      BY <1>0, <2>1, TwoToGrows
    <3> QED
      BY <1>0, <2>2, <3>1
  <2> HIDE DEF p
  <2>5. HighBits = p * (2 * k - 1) + (p - P)
    <3>1. (2 * p) * k = p * (2 * k - 1) + p
      BY <2>2
    <3> DEFINE z == p * (2 * k - 1)
    <3>2. z \in Int /\ Word2 = z + p
      BY <2>2, <2>4, <3>1
    <3> HIDE DEF z
    <3>3. HighBits = z + (p - P)
      BY <1>0, <1>1, <1>4, <2>2, <3>2
    <3> QED
      BY <3>3 DEF z
  <2>6. HighBits \div p = 2 * k - 1
    <3>1. HighBits \in Int /\ 2 * k - 1 \in Int /\ p - P \in Int /\ 0 <= p - P /\ p - P < p
      BY <1>1, <1>4, <2>2, <2>3
    <3> QED
      BY <2>2, <2>5, <3>1, ModIs
  <2>7. (2 * k - 1) % 2 = 1
    OBVIOUS
  <2> QED
    BY <2>6, <2>7 DEF Bit, p
<1> QED
  BY <1>0, <1>4, <1>5, <1>6, Eighths

\* A word shifted down by three quarters has none of them.
LEMMA ShiftedDown ==
  ASSUME NEW x \in Nat, x < Word2
  PROVE  /\ Shr(x, ThreeQuarters) \in Nat
         /\ \A i \in 1..Bits : i > Kept => Bit(Shr(x, ThreeQuarters), i) = 0
<1>0. Bits \in Nat /\ Word2 = TwoTo[Bits] /\ Word2 \in Nat
  BY Word2Facts DEF Word2
<1> DEFINE r == Bits - ThreeQuarters
           T == TwoTo[ThreeQuarters]
           R == TwoTo[r]
           y == x \div T
<1>1. r \in Nat /\ r <= Kept /\ Bits = ThreeQuarters + r /\ ThreeQuarters \in Nat /\ Kept \in Nat
  BY <1>0, Eighths
<1> HIDE DEF r
<1>2. T \in Int /\ T > 0 /\ R \in Nat /\ Word2 = T * R
  <2>1. TwoTo[ThreeQuarters] \in Nat /\ TwoTo[ThreeQuarters] >= 1 /\ TwoTo[r] \in Nat
    BY <1>1, TwoToDef
  <2>2. TwoTo[ThreeQuarters + r] = TwoTo[ThreeQuarters] * TwoTo[r]
    BY <1>1, TwoToMultiple
  <2> QED
    BY <1>0, <1>1, <2>1, <2>2
<1> HIDE DEF T, R
<1>3. y \in Int /\ x % T \in 0..(T - 1) /\ x = T * y + (x % T)
  BY <1>2, DivMod
<1> HIDE DEF y
<1>4. 0 <= y
  <2> SUFFICES ASSUME y <= -1 PROVE FALSE
    BY <1>3
  <2>1. T * y <= -T
    BY ONLY <1>2, <1>3, y <= -1
  <2> QED
    BY <1>2, <1>3, <2>1
<1>5. y < R
  <2> SUFFICES ASSUME y >= R PROVE FALSE
    BY <1>2, <1>3
  <2>1. T * y >= T * R
    BY ONLY <1>2, <1>3, y >= R
  <2> QED
    BY <1>0, <1>2, <1>3, <2>1
<1>6. Shr(x, ThreeQuarters) = y
  BY DEF Shr, y, T
<1>7. ASSUME NEW i \in 1..Bits, i > Kept PROVE Bit(y, i) = 0
  <2> DEFINE p == TwoTo[i - 1]
  <2>1. i - 1 \in Nat /\ r <= i - 1
    BY <1>0, <1>1, <1>7
  <2>2. p \in Int /\ R <= p
    BY <1>1, <2>1, TwoToGrows DEF R
  <2>3. y = p * 0 + y /\ y < p /\ p > 0
    BY <1>2, <1>3, <1>4, <1>5, <2>2
  <2> HIDE DEF p
  <2>4. y \div p = 0
    <3>1. 0 \in Int
      OBVIOUS
    <3> QED
      BY <1>3, <1>4, <2>2, <2>3, <3>1, ModIs
  <2> QED
    BY <2>4 DEF Bit, p
<1> QED
  BY <1>3, <1>4, <1>6, <1>7

\* PJWHash masks with ~HighBits, ELFHash with the complement of what it found there: one
\* function, that leaves the high eighth unused.
LEMMA OneFunction ==
  ASSUME NEW h \in Nat, NEW c \in Int
  PROVE  /\ PJWHash(h, c) = ELFHash(h, c)
         /\ PJWHash(h, c) \in Nat /\ PJWHash(h, c) < TwoTo[Kept]
<1> DEFINE sum == Uint(Shl(h, OneEighth) + c)
           test == And(sum, HighBits)
           sh == Shr(test, ThreeQuarters)
           z == Xor(sum, sh)
           pjw == And(z, Compl(HighBits))
           elf == And(z, Compl(test))
<1>1. sum \in Nat /\ sum < Word2
  <2>1. Shl(h, OneEighth) \in Nat
    BY Eighths, ShlFacts
  <2>2. Shl(h, OneEighth) + c \in Int
    BY <2>1
  <2> QED
    BY <2>2, UintFacts
<1>2. PJWHash(h, c) = IF test # 0 THEN pjw ELSE sum
  BY DEF PJWHash
<1>3. ELFHash(h, c) = IF test # 0 THEN elf ELSE sum
  BY DEF ELFHash
<1> HIDE DEF sum
<1>4. /\ test \in Nat /\ test < Word2
      /\ \A i \in 1..Bits : Bit(test, i) = Bit(sum, i) * Bit(HighBits, i)
  <2>1. sum \in Nat /\ HighBits \in Nat
    BY <1>1, HighBitsFacts
  <2> QED
    BY ONLY <2>1, AndFacts
<1> HIDE DEF test
<1>5. sh \in Nat /\ \A i \in 1..Bits : i > Kept => Bit(sh, i) = 0
  BY <1>4, ShiftedDown
<1> HIDE DEF sh
<1>6. z \in Nat /\ \A i \in 1..Bits : Bit(z, i) = (Bit(sum, i) + Bit(sh, i)) % 2
  BY <1>1, <1>5, BitOperations
<1> HIDE DEF z
<1>7. /\ Compl(HighBits) \in Nat /\ Compl(test) \in Nat
      /\ \A i \in 1..Bits : Bit(Compl(HighBits), i) = 1 - Bit(HighBits, i)
      /\ \A i \in 1..Bits : Bit(Compl(test), i) = 1 - Bit(test, i)
  BY <1>4, HighBitsFacts, BitOperations
<1>8. ASSUME NEW i \in 1..Bits
      PROVE  /\ Bit(z, i) * Bit(Compl(HighBits), i) = Bit(z, i) * Bit(Compl(test), i)
             /\ i > Kept => Bit(z, i) * Bit(Compl(HighBits), i) = 0
  <2>1. Bit(sum, i) \in {0, 1} /\ Bit(sh, i) \in {0, 1} /\ Bit(z, i) \in {0, 1}
    BY <1>1, <1>5, <1>6, BitRange
  <2>2. Bits \in Nat /\ Kept \in Nat /\ i \in Nat
    BY Word2Facts, Eighths
  <2>3. CASE i > Kept
    <3>1. Bit(HighBits, i) = 1 /\ Bit(sh, i) = 0
      BY <1>5, <2>3, HighBitsFacts
    <3>2. Bit(z, i) = Bit(sum, i)
      BY <1>6, <2>1, <3>1
    <3>3. Bit(Compl(HighBits), i) = 0 /\ Bit(Compl(test), i) = 1 - Bit(sum, i)
      BY <1>4, <1>7, <2>1, <3>1
    <3> QED
      BY <2>1, <3>2, <3>3
  <2>4. CASE i <= Kept
    <3>1. Bit(HighBits, i) = 0
      BY <2>2, <2>4, HighBitsFacts
    <3>2. Bit(Compl(HighBits), i) = 1 /\ Bit(Compl(test), i) = 1
      BY <1>4, <1>7, <2>1, <3>1
    <3> QED
      BY <2>2, <2>4, <3>2
  <2> QED
    BY <2>2, <2>3, <2>4
<1>9. pjw = elf
  <2> DEFINE f == [i \in 1..Bits |-> Bit(z, i) * Bit(Compl(HighBits), i)]
             g == [i \in 1..Bits |-> Bit(z, i) * Bit(Compl(test), i)]
  <2>1. \A i \in 1..Bits : f[i] = g[i]
    BY <1>8
  <2>2. f = g
    BY <2>1
  <2>3. pjw = OfBits(f) /\ elf = OfBits(g)
    BY DEF And
  <2> HIDE DEF f, g
  <2> QED
    BY <2>2, <2>3
<1>10. pjw \in Nat /\ pjw < TwoTo[Kept]
  <2>1. /\ pjw \in Nat /\ pjw < Word2
        /\ \A i \in 1..Bits : Bit(pjw, i) = Bit(z, i) * Bit(Compl(HighBits), i)
    <3>1. z \in Nat /\ Compl(HighBits) \in Nat
      BY <1>6, <1>7
    <3> QED
      BY ONLY <3>1, AndFacts
  <2> HIDE DEF pjw
  <2>2. \A i \in 1..Bits : i > Kept => Bit(pjw, i) = 0
    BY <1>8, <2>1
  <2>3. Kept \in Nat /\ Kept <= Bits
    BY Eighths, Word2Facts
  <2> QED
    BY <2>1, <2>2, <2>3, HighZero
<1>11. ASSUME test = 0 PROVE sum < TwoTo[Kept]
  <2>1. ASSUME NEW i \in 1..Bits, i > Kept PROVE Bit(sum, i) = 0
    <3> DEFINE p == TwoTo[i - 1]
    <3>0. Bits \in Nat
      BY Word2Facts
    <3>1. p \in Int /\ p > 0
      BY <3>0, TwoToDef
    <3>2. Bit(0, i) = 0
      <4>1. 0 \div p = 0
        BY <3>1
      <4> QED
        BY <4>1 DEF Bit
    <3>3. Bit(sum, i) \in {0, 1} /\ Bit(HighBits, i) = 1
      BY <1>1, <2>1, BitRange, HighBitsFacts
    <3> QED
      BY <1>4, <1>11, <3>2, <3>3
  <2>2. Kept \in Nat /\ Kept <= Bits
    BY Eighths, Word2Facts
  <2> QED
    BY <1>1, <2>1, <2>2, HighZero
<1> HIDE DEF pjw, elf
<1> QED
  BY <1>1, <1>2, <1>3, <1>9, <1>10, <1>11

-----------------------------------------------------------------------------
\* The hashes that multiply and add, and the inductive invariant: words, an odd multiplier of
\* RSHash; one hash of PJWHash and ELFHash in the bits they keep; equal hashes of equal strings
\* and different ones of strings that differ in one place.
Multiplying == {"RS", "BKDR", "DJB", "SDBM"}

InvState ==
  /\ a \in Nat /\ Odd(a) /\ differ \in 0..2
  /\ \A f \in Multiplying : /\ hash1[f] \in Nat /\ hash1[f] < Word2
                            /\ hash2[f] \in Nat /\ hash2[f] < Word2
InvOneFunction ==
  /\ {"PJW", "ELF"} \subseteq DOMAIN hash1
  /\ hash1.PJW \in Nat /\ hash1.PJW = hash1.ELF /\ hash1.PJW < TwoTo[Kept]
InvApart ==
  /\ differ = 0 => \A f \in Multiplying : hash1[f] = hash2[f]
  /\ differ = 1 => \A f \in Multiplying : hash1[f] # hash2[f]
InvHash == InvState /\ InvOneFunction /\ InvApart

\* Each of the four loops that multiply takes a step of this kind.
LEMMA EachApart ==
  ASSUME InvState, NEW c \in Chars, NEW d \in Chars, NEW f \in Multiplying
  PROVE  Apart(hash1[f], hash2[f], c, d, Fed(hash1, c)[f], Fed(hash2, d)[f])
<1> DEFINE x == hash1[f]
           y == hash2[f]
           u == Fed(hash1, c)[f]
           v == Fed(hash2, d)[f]
<1>1. /\ x \in Nat /\ x < Word2 /\ y \in Nat /\ y < Word2
      /\ c \in -128..127 /\ d \in -128..127 /\ c \in Int /\ d \in Int
  BY HashAssumption DEF InvState
<1>2. \E m \in Int : Odd(m) /\ IsWord(u, m * x + c) /\ IsWord(v, m * y + d)
  <2>1. CASE f = "RS"
    <3>1. x = hash1.RS /\ y = hash2.RS /\ u = RSHash(x, c) /\ v = RSHash(y, d)
      BY <2>1 DEF Fed
    <3> HIDE DEF x, y, u, v
    <3>2. a \in Nat /\ Odd(a) /\ a \in Int
      BY DEF InvState
    <3>3. IsWord(RSHash(x, c), a * x + c) /\ IsWord(RSHash(y, d), a * y + d)
      BY <1>1, <3>2, TimesAdd DEF RSHash
    <3> QED
      BY <3>1, <3>2, <3>3
  <2>2. CASE f = "BKDR"
    <3>1. u = BKDRHash(x, c) /\ v = BKDRHash(y, d)
      BY <2>2 DEF Fed
    <3> HIDE DEF x, y, u, v
    <3>2. 131 \in Nat /\ 131 \in Int
      OBVIOUS
    <3>3. IsWord(BKDRHash(x, c), 131 * x + c) /\ IsWord(BKDRHash(y, d), 131 * y + d)
      BY <1>1, <3>2, TimesAdd DEF BKDRHash
    <3> QED
      BY <3>1, <3>2, <3>3, Factors
  <2>3. CASE f = "DJB"
    <3>1. u = DJBHash(x, c) /\ v = DJBHash(y, d)
      BY <2>3 DEF Fed
    <3> HIDE DEF x, y, u, v
    <3>2. IsWord(DJBHash(x, c), DJBFactor * x + c) /\ IsWord(DJBHash(y, d), DJBFactor * y + d)
      BY <1>1, DJBLinear
    <3> QED
      BY <3>1, <3>2, Factors
  <2>4. CASE f = "SDBM"
    <3>1. u = SDBMHash(x, c) /\ v = SDBMHash(y, d)
      BY <2>4 DEF Fed
    <3> HIDE DEF x, y, u, v
    <3>2. IsWord(SDBMHash(x, c), SDBMFactor * x + c) /\ IsWord(SDBMHash(y, d), SDBMFactor * y + d)
      BY <1>1, SDBMLinear
    <3> QED
      BY <3>1, <3>2, Factors
  <2> QED
    BY <2>1, <2>2, <2>3, <2>4 DEF Multiplying
<1> HIDE DEF x, y, u, v
<1>3. PICK m \in Int : Odd(m) /\ IsWord(u, m * x + c) /\ IsWord(v, m * y + d)
  BY <1>2
<1>4. Apart(x, y, c, d, u, v)
  BY <1>1, <1>3, OddMultiplier
<1> QED
  BY <1>4 DEF x, y, u, v

\* One character more of either string keeps the invariant.
LEMMA HashStep == InvHash /\ [HashNext]_hashVars => InvHash'
<1> SUFFICES ASSUME InvHash, [HashNext]_hashVars PROVE InvHash'
  OBVIOUS
<1>0. InvState /\ InvOneFunction /\ InvApart
  BY DEF InvHash
<1>1. CASE Feed
  <2>1. PICK c \in Chars, d \in Chars :
          /\ hash1' = Fed(hash1, c) /\ hash2' = Fed(hash2, d)
          /\ differ' = IF c # d /\ differ < 2 THEN differ + 1 ELSE differ
    BY <1>1 DEF Feed
  <2>2. \A f \in Multiplying : Apart(hash1[f], hash2[f], c, d, hash1'[f], hash2'[f])
    BY <1>0, <2>1, EachApart
  <2>3. differ \in 0..2 /\ differ' \in 0..2
    BY <1>0, <2>1 DEF InvState
  <2>4. a' \in Nat /\ Odd(a')
    <3> DEFINE b == Uint(378551)
    <3>1. b \in Nat /\ Congruent(b, 378551) /\ 378551 \in Int
      BY UintFacts
    <3>2. Odd(b)
      BY <3>1, Factors, OddWord
    <3>3. a' = Times(a, b) /\ a \in Nat /\ Odd(a)
      BY <1>0, <1>1 DEF Feed, InvState
    <3> HIDE DEF b
    <3>4. Odd(a * b) /\ a * b \in Int
      BY <3>1, <3>2, <3>3, OddProduct
    <3>5. Times(a, b) \in Nat /\ Congruent(Times(a, b), a * b)
      BY <3>1, <3>3, TimesFacts
    <3>6. Times(a, b) \in Int
      BY <3>5
    <3>7. Odd(Times(a, b))
      BY <3>4, <3>5, <3>6, OddWord
    <3> QED
      BY <3>3, <3>5, <3>7
  <2>5. InvState'
    BY <2>2, <2>3, <2>4 DEF InvState, Apart
  <2>6. InvOneFunction'
    <3>1. /\ hash1'.PJW = PJWHash(hash1.PJW, c) /\ hash1'.ELF = ELFHash(hash1.ELF, c)
          /\ {"PJW", "ELF"} \subseteq DOMAIN hash1'
      BY <2>1 DEF Fed
    <3>2. hash1.PJW \in Nat /\ hash1.PJW = hash1.ELF /\ c \in Int
      BY <1>0, HashAssumption DEF InvOneFunction
    <3>3. /\ PJWHash(hash1.PJW, c) = ELFHash(hash1.PJW, c)
          /\ PJWHash(hash1.PJW, c) \in Nat /\ PJWHash(hash1.PJW, c) < TwoTo[Kept]
      BY <3>2, OneFunction
    <3>4. Kept' = Kept
      BY DEF Kept, OneEighth
    <3> QED
      BY <3>1, <3>2, <3>3, <3>4 DEF InvOneFunction
  <2>7. InvApart'
    <3>1. ASSUME NEW f \in Multiplying
          PROVE  /\ differ' = 0 => hash1'[f] = hash2'[f]
                 /\ differ' = 1 => hash1'[f] # hash2'[f]
      <4>1. Apart(hash1[f], hash2[f], c, d, hash1'[f], hash2'[f])
        BY <2>2
      <4>2. /\ differ = 0 => hash1[f] = hash2[f]
            /\ differ = 1 => hash1[f] # hash2[f]
        BY <1>0 DEF InvApart
      <4>3. /\ differ' = 0 => differ = 0 /\ c = d
            /\ differ' = 1 => (differ = 0 /\ c # d) \/ (differ = 1 /\ c = d)
        BY <2>1, <2>3
      <4> QED
        BY <4>1, <4>2, <4>3 DEF Apart
    <3> QED
      BY <3>1 DEF InvApart
  <2> QED
    BY <2>5, <2>6, <2>7 DEF InvHash
<1>2. CASE UNCHANGED hashVars
  BY <1>0, <1>2 DEF hashVars, InvHash, InvState, InvOneFunction, InvApart, Kept, OneEighth
<1> QED
  BY <1>1, <1>2 DEF HashNext

\* The invariant holds for strings of any length.
THEOREM HashInvariance == HashSpec => []InvHash
<1>1. HashInit => InvHash
  <2> SUFFICES ASSUME HashInit PROVE InvHash
    OBVIOUS
  <2>1. /\ hash1 = HashStart /\ hash2 = HashStart /\ a = Uint(63689) /\ differ = 0
    BY DEF HashInit
  <2>2. Word2 \in Nat /\ Word2 > 0
    BY Word2Facts
  <2>3. Uint(63689) \in Nat /\ Odd(Uint(63689))
    <3>1. 63689 \in Int
      OBVIOUS
    <3>2. Uint(63689) \in Nat /\ Uint(63689) \in Int /\ Congruent(Uint(63689), 63689)
      BY <3>1, UintFacts
    <3> QED
      BY <3>1, <3>2, Factors, OddWord
  <2>4. 5381 % Word2 \in Nat /\ 5381 % Word2 < Word2
    <3>1. 5381 \in Int
      OBVIOUS
    <3> QED
      BY <3>1, UintFacts DEF Uint
  <2>5. \A f \in Multiplying : HashStart[f] \in Nat /\ HashStart[f] < Word2
    BY <2>2, <2>4 DEF HashStart, Multiplying
  <2>6. InvState
    BY <2>1, <2>3, <2>5 DEF InvState
  <2>7. TwoTo[Kept] \in Nat /\ TwoTo[Kept] >= 1
    BY Eighths, TwoToDef
  <2>8. InvOneFunction
    BY <2>1, <2>7 DEF InvOneFunction, HashStart
  <2>9. InvApart
    BY <2>1 DEF InvApart
  <2> QED
    BY <2>6, <2>8, <2>9 DEF InvHash
<1> QED
  BY <1>1, HashStep, PTL DEF HashSpec

\* For every width from a char's on and for strings of any length, PJWHash and ELFHash
\* return the same and leave an eighth of the word unused.
THEOREM PJWAndELF == HashSpec => []PJWIsELF
<1>1. InvHash => PJWIsELF
  BY DEF InvHash, InvOneFunction, PJWIsELF, Result, Kept
<1> QED
  BY <1>1, HashInvariance, PTL

\* For every width and length, strings that differ in one character do not collide in the
\* hashes that multiply, before % M.
THEOREM NoCollision == HashSpec => []OneCharTells
<1>1. InvHash => OneCharTells
  BY DEF InvHash, InvApart, OneCharTells, Multiplying
<1> QED
  BY <1>1, HashInvariance, PTL

=============================================================================
