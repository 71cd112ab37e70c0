------------------------------- MODULE StringHash -------------------------------
(***************************************************************************)
(* The eight string hashes of java/hash.java (C, despite its name), fed    *)
(* with two strings of one length character by character. Arithmetic is    *)
(* that of an unsigned int of Bits bits (32 in the code); a char is        *)
(* signed, and a negative one is extended to the whole width. The shifts   *)
(* and the mask that ELFHash writes as numbers for 32 bits scale with Bits *)
(* as PJWHash computes them.                                               *)
(***************************************************************************)
EXTENDS Integers, Sums

CONSTANTS Bits, Chars, M,
          MaxStrLen    \* bound: the length of the strings

ASSUME HashAssumption ==
  Bits \in Nat /\ Bits >= 8 /\ Chars \subseteq (-128..127) \ {0} /\ M \in Nat \ {0} /\ MaxStrLen \in Nat

VARIABLES
  hash1, hash2,  \* the hashes' states, for either string
  a,             \* RSHash's multiplier
  length,
  differ         \* history: in how many places the strings differ

hashVars == <<hash1, hash2, a, length, differ>>

TwoTo[n \in Nat] == IF n = 0 THEN 1 ELSE 2 * TwoTo[n - 1]
Word2 == TwoTo[Bits]
Uint(x) == x % Word2

\* The i-th bit of x from the lowest, and the word that has the bits of f.
Bit(x, i) == (x \div TwoTo[i - 1]) % 2
OfBits(f) == Total([i \in 1..Bits |-> f[i] * TwoTo[i - 1]])

And(x, y) == OfBits([i \in 1..Bits |-> Bit(x, i) * Bit(y, i)])
Xor(x, y) == OfBits([i \in 1..Bits |-> (Bit(x, i) + Bit(y, i)) % 2])
Compl(x)  == OfBits([i \in 1..Bits |-> 1 - Bit(x, i)])
Shl(x, n) == IF n >= Bits THEN 0 ELSE (x % TwoTo[Bits - n]) * TwoTo[n]
Shr(x, n) == x \div TwoTo[n]

\* x * y, by the bytes of y to stay within TLC's integers.
Times(x, y) == Uint(Uint(x * (y \div 256)) * 256 + x * (y % 256))

HashStart ==
  [RS |-> 0, JS |-> Uint(1315423911), PJW |-> 0, ELF |-> 0, BKDR |-> 0, DJB |-> 5381 % Word2,
   SDBM |-> 0, AP |-> 0]

RSHash(h, c) == Uint(Times(h, a) + c)

JSHash(h, c) == Xor(h, Uint(Shl(h, 5) + c + Shr(h, 2)))

OneEighth     == Bits \div 8
ThreeQuarters == (Bits * 3) \div 4
HighBits      == Shl(Word2 - 1, Bits - OneEighth)

\* Faulty variant: the high bits stay.
PJWKeepsHigh(h, c) ==
  LET sum == Uint(Shl(h, OneEighth) + c) IN Xor(sum, Shr(And(sum, HighBits), ThreeQuarters))

PJWHash(h, c) ==
  LET sum  == Uint(Shl(h, OneEighth) + c)
      test == And(sum, HighBits)
  IN  IF test # 0 THEN And(Xor(sum, Shr(test, ThreeQuarters)), Compl(HighBits)) ELSE sum

ELFHash(h, c) ==
  LET sum == Uint(Shl(h, OneEighth) + c)
      x   == And(sum, HighBits)
  IN  IF x # 0 THEN And(Xor(sum, Shr(x, ThreeQuarters)), Compl(x)) ELSE sum

BKDRHash(h, c) == Uint(Times(h, 131) + c)

\* Faulty variant: = in place of +=.
DJBAssigns(h, c) == Uint(Shl(h, 5) + c)

DJBHash(h, c) == Uint(h + Shl(h, 5) + c)

SDBMHash(h, c) == Uint(c + Shl(h, 6) + Shl(h, 16) - h)

APHash(h, c) ==
  IF length % 2 = 0 THEN Xor(h, Xor(Xor(Shl(h, 7), Uint(c)), Shr(h, 3)))
                    ELSE Xor(h, Compl(Xor(Xor(Shl(h, 11), Uint(c)), Shr(h, 5))))

\* One round of each function's loop.
Fed(h, c) ==
  [RS |-> RSHash(h.RS, c), JS |-> JSHash(h.JS, c), PJW |-> PJWHash(h.PJW, c),
   ELF |-> ELFHash(h.ELF, c), BKDR |-> BKDRHash(h.BKDR, c), DJB |-> DJBHash(h.DJB, c),
   SDBM |-> SDBMHash(h.SDBM, c), AP |-> APHash(h.AP, c)]

\* What the functions return.
Result(h) == [f \in DOMAIN h |-> h[f] % M]

HashInit ==
  /\ hash1 = HashStart /\ hash2 = HashStart
  /\ a = Uint(63689) /\ length = 0 /\ differ = 0

\* The next character of either string; the end of a string is no step.
Feed ==
  /\ length < MaxStrLen
  /\ \E c, d \in Chars :
       /\ hash1' = Fed(hash1, c) /\ hash2' = Fed(hash2, d)
       /\ differ' = IF c # d /\ differ < 2 THEN differ + 1 ELSE differ
  /\ a' = Times(a, Uint(378551)) /\ length' = length + 1

HashNext == Feed

HashSpec == HashInit /\ [][HashNext]_hashVars

-----------------------------------------------------------------------------
\* "PJWHash and ELFHash ... their essence is similar": they are one function, for every
\* string, negative characters included, and leave an eighth of the word unused.
PJWIsELF ==
  /\ Result(hash1).PJW = Result(hash1).ELF /\ hash1.PJW = hash1.ELF
  /\ hash1.PJW < TwoTo[Bits - OneEighth]

\* Before the reduction modulo M, two strings that differ in one character never collide
\* under the four hashes that multiply: their multipliers are odd and stay so.
OneCharTells ==
  differ = 1 => \A f \in {"RS", "BKDR", "DJB", "SDBM"} : hash1[f] # hash2[f]

=============================================================================
