\* The window is the whole range but one: distances below, at and beyond half the range, up
\* to where a lead could no longer be told from a lag. Fields of 4 and 2 bits, in a word of 6 and under a counter of 3, wrap four
\* and two times. Hashes of 16 bits, of strings of up to four characters, one negative.
CONSTANTS
  Half = 16
  Window = 31
  SeqSize = 16
  PtSize = 4
  WordSize = 64
  ShortSize = 8
  Bits = 16
  Chars <- MCChars
  M = 251
  MaxStrLen = 4
SPECIFICATION MCSpec
INVARIANTS  VersionsAgree WrapsInPlace PJWIsELF OneCharTells
CHECK_DEADLOCK FALSE
