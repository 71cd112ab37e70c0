----------------------------- MODULE SerialNumbers -----------------------------
(***************************************************************************)
(* The serial number comparisons of c/tsn/main.c, in the setting they are  *)
(* made for: two positions s and t of a wrapping counter that advance one  *)
(* at a time and never drift further apart than a window. The comparisons  *)
(* see only the wrapped values; gap is the true lead of s over t.          *)
(*                                                                         *)
(* Half is the sign bit: 2^31 for TSNs, whose difference is a word, and    *)
(* 2^15 for SSNs, which are promoted to int and have a signed difference.  *)
(***************************************************************************)
EXTENDS Integers

CONSTANTS Half,    \* the sign bit's weight
          Window   \* bound: the largest distance of s and t

ASSUME HalfAssumption   == Half \in Nat \ {0}
ASSUME WindowAssumption == Window \in Nat /\ Window < 2 * Half

VARIABLES s, t, gap
serialVars == <<s, t, gap>>

Wrap == 2 * Half
Word == 0..(Wrap - 1)

\* Unsigned subtraction and the conversion to a signed integer of the same width.
Minus(x, y) == IF x >= y THEN x - y ELSE x - y + Wrap
Signed(x)   == IF x >= Half THEN x - Wrap ELSE x

\* Faulty variant: the comparison of plain numbers.
PlainLt(x, y) == x < y

\* The older versions test the sign bit of the difference.
TSN_lt(x, y)  == Minus(x, y) >= Half
TSN_lte(x, y) == x = y \/ Minus(x, y) >= Half

\* Faulty variant: the equal case left out.
StrictLte2(x, y) == Signed(Minus(x, y)) < 0

\* The newer versions test the sign of the difference.
TSN_lt2(x, y)  == Signed(Minus(x, y)) < 0
TSN_lte2(x, y) == Signed(Minus(x, y)) <= 0

\* The same for SSNs: SSN_SIGN_BIT of a difference that may be negative (in two's
\* complement), and the conversion of that difference to int16_t.
SSN_lt(x, y)   == ((x - y) \div Half) % 2 = 1
SSN_lte(x, y)  == x = y \/ ((x - y) \div Half) % 2 = 1
SSN_lt2(x, y)  == Signed((x - y) % Wrap) < 0
SSN_lte2(x, y) == Signed((x - y) % Wrap) <= 0

\* The counter's increment (x++ on an unsigned word).
Succ(x) == IF x = Wrap - 1 THEN 0 ELSE x + 1

SerialTypeOK == s \in Word /\ t \in Word /\ gap \in -Window..Window

SerialInit == s \in Word /\ t = s /\ gap = 0

AdvanceS == gap < Window /\ s' = Succ(s) /\ gap' = gap + 1 /\ UNCHANGED t
AdvanceT == gap > -Window /\ t' = Succ(t) /\ gap' = gap - 1 /\ UNCHANGED s

SerialNext == AdvanceS \/ AdvanceT
SerialSpec == SerialInit /\ [][SerialNext]_serialVars

-----------------------------------------------------------------------------
\* As long as the counters are less than half the range apart the comparisons of wrapped
\* values give the true order, across any number of wraps; at exactly half each counter is
\* less than the other; beyond it the order is the opposite, the "odd behavior" that main()
\* accepts and asserts.
OrderKept ==
  /\ -Half < gap /\ gap < Half => /\ TSN_lt(s, t) <=> gap < 0
                                 /\ TSN_lte(s, t) <=> gap <= 0
  /\ gap \in {-Half, Half} => TSN_lt(s, t) /\ TSN_lt(t, s)
  /\ gap > Half => TSN_lt(s, t) /\ ~TSN_lt(t, s)
  /\ gap < -Half => TSN_lt(t, s) /\ ~TSN_lt(s, t)

\* The older and the newer versions decide alike, at every distance, and so do those that
\* subtract words and those that subtract promoted integers.
VersionsAgree ==
  /\ \A lt \in {TSN_lt2(s, t), SSN_lt(s, t), SSN_lt2(s, t)} : lt <=> TSN_lt(s, t)
  /\ \A lte \in {TSN_lte2(s, t), SSN_lte(s, t), SSN_lte2(s, t)} : lte <=> TSN_lte(s, t)

=============================================================================
