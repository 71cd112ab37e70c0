\* Words of sixteen values make every sum wrap; contents of 0 to 5 bytes are odd and even.
CONSTANTS
  Base = 4
  Addresses <- MCAddresses
  MaxContentLen = 5
  Text <- MCText
  SrcPort = 6
  DstPort = 13
  Proto = 3
SPECIFICATION Spec
INVARIANTS SentRight HelpersAgree
CHECK_DEADLOCK FALSE
