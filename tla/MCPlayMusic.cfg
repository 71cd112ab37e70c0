\* Scaled down so that a play can reach from one hour into the quiet minutes of the next
\* and past them, and two plays can overlap.
CONSTANTS
  MinutesPerHour = 10
  HoursPerDay = 3
  minute_threshold = 3
  SpecialHour = 1
  play_long = 5
  Settings <- MCSettings
SPECIFICATION Spec
INVARIANT QuietOnlyCarriesOver
PROPERTIES DueIsPlayed PlayComesToEnd
