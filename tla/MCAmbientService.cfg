\* Lists of up to two tokens, and some of three: a repetition, a number too large, and a -1 in any place;
\* -s not at all, once and twice.
CONSTANTS
  Caps <- MCCaps
  default_caplist <- MCDefault
  Lists <- MCLists
  CAP_NET_RAW = 1
  MaxFlags = 2
SPECIFICATION ServiceSpec
INVARIANTS ProgramGetsAsked RawReachesService FlagLineCopies
PROPERTY OnlyParentServes
CHECK_DEADLOCK FALSE
