-------------------------------- MODULE BitFields --------------------------------
(***************************************************************************)
(* c/bits/bitincr.c: two bit fields in a union, so that both start at the  *)
(* lowest bit of one word, incremented past their largest values. How many *)
(* values a field, the word and the second loop's counter have are         *)
(* parameters; the code has 2^20, 2^12, 2^32 and 2^16.                     *)
(***************************************************************************)
EXTENDS Integers

CONSTANTS SeqSize, PtSize, WordSize, ShortSize

\* Of two powers of two the larger one is a multiple of the other.
ASSUME SizesAssumption ==
  /\ SeqSize \in Nat /\ PtSize \in Nat /\ WordSize \in Nat /\ ShortSize \in Nat
  /\ 3 < PtSize /\ PtSize < SeqSize
  /\ \E k \in 2..WordSize : WordSize = k * SeqSize
  /\ \E k \in 2..ShortSize : ShortSize = k * PtSize

VARIABLES bitPc, guard, round, bNeetPrintNext

bitVars == <<bitPc, guard, round, bNeetPrintNext>>

UINT_MAX    == WordSize - 1
USHRT_MAX   == ShortSize - 1
BIT_SEQ_MAX == SeqSize - 1
BIT_PT_MAX  == PtSize - 1

Field(word, size) == word % size

\* Faulty variant: a store into the whole word.
StoreWide(word, size, x) == x % WordSize

\* A store into a field keeps the field's bits of x and the word's other bits.
Store(word, size, x) == word - Field(word, size) + (x % size)

Incremented(size) == Store(guard, size, Field(guard, size) + 1)

BitInit == bitPc = "start" /\ guard = 0 /\ round = 0 /\ bNeetPrintNext = 0

\* a.seq = BIT_SEQ_MAX + 2; a.pt = 3;
Assign ==
  /\ bitPc = "start" /\ bitPc' = "seq"
  /\ guard' = Store(Store(guard, SeqSize, BIT_SEQ_MAX + 2), PtSize, 3)
  /\ UNCHANGED <<round, bNeetPrintNext>>

\* A round of the loop over a field: it is left after limit rounds, or by the break for a
\* value above the field's largest.
Round(loop, after, size, max, limit) ==
  /\ bitPc = loop
  /\ IF round < limit
       THEN /\ guard' = Incremented(size)
            /\ bNeetPrintNext' = IF Field(guard', size) >= max THEN 1 ELSE 0
            /\ IF Field(guard', size) > max
                 THEN bitPc' = after /\ UNCHANGED round
                 ELSE round' = round + 1 /\ UNCHANGED bitPc
       ELSE bitPc' = after /\ UNCHANGED <<guard, round, bNeetPrintNext>>

SeqRound == Round("seq", "between", SeqSize, BIT_SEQ_MAX, UINT_MAX)

Between ==
  /\ bitPc = "between" /\ bitPc' = "pt"
  /\ round' = 0
  /\ UNCHANGED <<guard, bNeetPrintNext>>

PtRound == Round("pt", "done", PtSize, BIT_PT_MAX, USHRT_MAX)

BitNext == Assign \/ SeqRound \/ Between \/ PtRound

BitSpec == BitInit /\ [][BitNext]_bitVars

-----------------------------------------------------------------------------
\* Incremented as often as a word has values less one, a field is back one before where it
\* started: the branch for a value above the maximum is never taken, and no increment
\* carries into the bits above the field, neither of the word nor of the other field.
WrapsInPlace ==
  /\ guard <= BIT_SEQ_MAX
  /\ bitPc = "between" => guard = 2 /\ round = UINT_MAX
  /\ bitPc = "done" => guard = 1 /\ round = USHRT_MAX

=============================================================================
