------------------------------- MODULE PlayMusic -------------------------------
(***************************************************************************)
(* python/playmusic.py: detect() looks at the clock once a second and, at  *)
(* a minute of the setting list, starts a process that plays mp3 files for *)
(* at most play_long and joins it. On one memorial day the first minutes   *)
(* of one hour are to be kept free, and what falls into them is put off.   *)
(*                                                                         *)
(* The clock ticks in minutes, the grain isTiming() sees. In the code an   *)
(* hour has 60 minutes, a day 24 hours, minute_threshold = 5, the hour is  *)
(* 10, and play_long is 20 minutes.                                        *)
(***************************************************************************)
EXTENDS Naturals

CONSTANTS MinutesPerHour, HoursPerDay,
          minute_threshold, SpecialHour, play_long,
          Settings         \* the setting lists to consider, each a set of <<hour, minute>>

ASSUME ClockAssumption ==
  /\ MinutesPerHour \in Nat \ {0} /\ HoursPerDay \in Nat \ {0}
  /\ minute_threshold \in Nat /\ SpecialHour \in Nat /\ play_long \in Nat \ {0}

ASSUME SettingsAssumption == \A list \in Settings : list \subseteq Nat \X Nat

VARIABLES
  timing_list,
  memorial,      \* the date is the memorial day
  hour, minute,  \* the clock
  pc,            \* detect(): "look" at the clock, "sleep"; or "play": joining the player
  elapsed        \* minutes since the player was started

clock == <<memorial, hour, minute>>
vars  == <<timing_list, clock, pc, elapsed>>

TypeOK ==
  /\ timing_list \in Settings
  /\ memorial \in BOOLEAN
  /\ hour \in 0..(HoursPerDay - 1) /\ minute \in 0..(MinutesPerHour - 1)
  /\ pc \in {"look", "sleep", "play"}
  /\ elapsed \in 0..play_long

Init ==
  /\ timing_list \in Settings
  /\ memorial \in BOOLEAN
  /\ hour \in 0..(HoursPerDay - 1) /\ minute \in 0..(MinutesPerHour - 1)
  /\ pc = "look"
  /\ elapsed = 0

-----------------------------------------------------------------------------
isSpecialMinute(m) == m < minute_threshold
isSpecialHour == memorial /\ hour = SpecialHour

\* Faulty variants: the quiet minutes not kept; what falls into them not put off.
isTimingAnyMinute ==
  \E item \in timing_list :
    /\ hour = item[1]
    /\ \/ minute = item[2]
       \/ isSpecialHour /\ isSpecialMinute(item[2]) /\ minute = minute_threshold
isTimingDropped ==
  /\ ~(isSpecialHour /\ isSpecialMinute(minute))
  /\ \E item \in timing_list : hour = item[1] /\ minute = item[2]

isTiming ==
  /\ ~(isSpecialHour /\ isSpecialMinute(minute))
  /\ \E item \in timing_list :
       /\ hour = item[1]
       /\ \/ minute = item[2]
          \/ isSpecialHour /\ isSpecialMinute(item[2]) /\ minute = minute_threshold

StartPlay ==
  /\ pc = "look" /\ isTiming
  /\ pc' = "play" /\ elapsed' = 0
  /\ UNCHANGED <<timing_list, clock>>

\* time.sleep(1): detect() looks again before the minute is over, and in the next one.
NotNow ==
  /\ pc = "look" /\ ~isTiming
  /\ pc' = "sleep"
  /\ UNCHANGED <<timing_list, clock, elapsed>>

\* play() ends when play_long is over or the last file has been played, or at once when
\* there is no mp3 file; join() returns, and detect() looks at the clock again.
PlayEnds ==
  /\ pc = "play"
  /\ pc' = "look" /\ elapsed' = 0
  /\ UNCHANGED <<timing_list, clock>>

\* The player is still there at the end of the minute only if its time is not over.
MayGoOn == elapsed < play_long

\* A day after the memorial day is an ordinary one.
NextDay == memorial' \in IF memorial THEN {FALSE} ELSE BOOLEAN

\* detect() has looked at this minute, or waits for the player.
Looked == pc # "look"

\* Faulty variant: start taken anew in each round of the loop.
SinceNow == elapsed

\* now() - start, a minute later.
Since == elapsed + 1

Tick ==
  /\ Looked
  /\ pc = "play" => MayGoOn
  /\ minute' = IF minute = MinutesPerHour - 1 THEN 0 ELSE minute + 1
  /\ hour' = IF minute # MinutesPerHour - 1 THEN hour
             ELSE IF hour = HoursPerDay - 1 THEN 0 ELSE hour + 1
  /\ IF minute = MinutesPerHour - 1 /\ hour = HoursPerDay - 1
       THEN NextDay ELSE UNCHANGED memorial
  /\ IF pc = "play"
       THEN elapsed' = Since /\ UNCHANGED pc
       ELSE pc' = "look" /\ UNCHANGED elapsed
  /\ UNCHANGED timing_list

Next == StartPlay \/ NotNow \/ PlayEnds \/ Tick

\* The clock runs, and both loops come round every second.
Spec == Init /\ [][Next]_vars /\ WF_vars(StartPlay \/ NotNow) /\ WF_vars(Tick)
             /\ WF_vars(PlayEnds /\ ~MayGoOn)

-----------------------------------------------------------------------------
(* Properties                                                              *)

Quiet == isSpecialHour /\ isSpecialMinute(minute)

\* In the quiet minutes music is heard only if it began before their hour: none begins in
\* them, whatever was on the list and whenever an earlier play ends.
QuietOnlyCarriesOver == Quiet /\ pc = "play" => elapsed > minute

\* When an item of the list is due: at its minute or, put off, at the end of the quiet ones.
Due ==
  \E item \in timing_list :
    /\ hour = item[1]
    /\ minute = IF isSpecialHour /\ item[2] < minute_threshold
                  THEN minute_threshold ELSE item[2]

\* An item is missed only while an earlier one is still being played: no minute passes in
\* which an item is due and the player is not running.
DueIsPlayed == [][(Due /\ minute' # minute) => pc = "play"]_vars

\* Every play comes to its end and detect() looks at the clock again.
PlayComesToEnd == pc = "play" ~> pc # "play"

=============================================================================
