\* Three entries and three prompts: first, middle and last of each.
CONSTANTS
  MaxEntries = 3
  MaxRounds = 3
SPECIFICATION Spec
INVARIANTS Nested OnlyAfterLogin ListingComplete
PROPERTY Ends
CHECK_DEADLOCK FALSE
