\* Sizes scaled down so that a buffer holds two messages with attributes, keeping their
\* relations: headers aligned, ErrLen not smaller than RtmLen, MaxLen above BufLen.
CONSTANTS
  Align = 2
  HdrLen = 4
  RtmLen = 2
  ErrLen = 3
  AttrLen = 2
  IntLen = 1
  V4Len = 1
  V6Len = 2
  BufLen = 18
  MaxLen = 20
SPECIFICATION Spec
INVARIANTS InBounds AttributesOfThisMessage
PROPERTY Ends
CHECK_DEADLOCK FALSE
