\* Others send when nothing is under way, so up to three packets are (this sender's two and
\* one more); two in the socket's buffer are enough for one to wait while the option changes.
CONSTANTS
  OtherLens <- MCOtherLens
  WireMax = 1
  QueueMax = 2
SPECIFICATION Spec
INVARIANTS ClaimsNoMoreThanSent ArrivesAsFirst SendersOwnPorts SettingInStep
CHECK_DEADLOCK FALSE
