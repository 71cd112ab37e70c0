---------------------------- MODULE PlayMusicProofs ----------------------------
(***************************************************************************)
(* The scheduler of PlayMusic for every clock, threshold and setting list. *)
(***************************************************************************)
EXTENDS PlayMusic, TLAPS

\* detect() sleeps only in a minute in which nothing is to be played.
InvSleep == pc = "sleep" => ~isTiming

IInv == TypeOK /\ InvSleep /\ QuietOnlyCarriesOver

\* Every step preserves the invariant.
LEMMA InvStep == IInv /\ [Next]_vars => IInv'
<1> SUFFICES ASSUME IInv, [Next]_vars PROVE IInv'
  OBVIOUS
<1>0. TypeOK /\ elapsed \in Nat /\ minute \in Nat /\ hour \in Nat
  BY ClockAssumption DEF IInv, TypeOK
<1>1. CASE StartPlay
  <2>1. TypeOK'
    BY <1>0, <1>1, ClockAssumption DEF TypeOK, StartPlay, clock
  <2>2. ~Quiet'
    BY <1>1 DEF StartPlay, isTiming, Quiet, isSpecialHour, isSpecialMinute, clock
  <2> QED
    BY <1>1, <2>1, <2>2 DEF IInv, InvSleep, QuietOnlyCarriesOver, StartPlay
<1>2. CASE NotNow
  BY <1>0, <1>2 DEF IInv, TypeOK, InvSleep, QuietOnlyCarriesOver, NotNow, clock, isTiming,
                    isSpecialHour, isSpecialMinute
<1>3. CASE PlayEnds
  <2>1. TypeOK'
    BY <1>0, <1>3, ClockAssumption DEF TypeOK, PlayEnds, clock
  <2> QED
    BY <1>3, <2>1 DEF IInv, InvSleep, QuietOnlyCarriesOver, PlayEnds
<1>4. CASE Tick
  <2>1. TypeOK'
    <3>1. minute' \in 0..(MinutesPerHour - 1) /\ hour' \in 0..(HoursPerDay - 1)
      BY <1>0, <1>4, ClockAssumption DEF TypeOK, Tick
    <3>2. elapsed' \in 0..play_long
      BY <1>0, <1>4, ClockAssumption DEF TypeOK, Tick, Since, MayGoOn
    <3>3. memorial' \in BOOLEAN
      BY <1>0, <1>4 DEF TypeOK, Tick, NextDay
    <3> QED
      BY <1>0, <1>4, <3>1, <3>2, <3>3 DEF TypeOK, Tick
  <2>2. InvSleep'
    BY <1>0, <1>4 DEF Tick, TypeOK, InvSleep
  <2>3. QuietOnlyCarriesOver'
    <3> SUFFICES ASSUME Quiet', pc' = "play" PROVE elapsed' > minute'
      BY DEF QuietOnlyCarriesOver
    <3>1. pc = "play" /\ elapsed' = elapsed + 1
      BY <1>4 DEF Tick, Since
    <3>2. CASE minute = MinutesPerHour - 1
      BY <1>0, <1>4, <3>1, <3>2 DEF Tick
    <3>3. CASE minute # MinutesPerHour - 1
      <4>1. minute' = minute + 1 /\ hour' = hour /\ memorial' = memorial
        BY <1>4, <3>3 DEF Tick
      <4>2. Quiet
        BY <1>0, <4>1, ClockAssumption DEF Quiet, isSpecialHour, isSpecialMinute
      <4> QED
        BY <1>0, <3>1, <4>1, <4>2 DEF IInv, QuietOnlyCarriesOver
    <3> QED
      BY <3>2, <3>3
  <2> QED
    BY <2>1, <2>2, <2>3 DEF IInv
<1>5. CASE UNCHANGED vars
  BY <1>5 DEF IInv, TypeOK, InvSleep, QuietOnlyCarriesOver, Quiet, isTiming, isSpecialHour,
              isSpecialMinute, vars, clock
<1> QED
  BY <1>1, <1>2, <1>3, <1>4, <1>5 DEF Next

\* The invariant holds of every reachable state.
THEOREM Invariance == Spec => []IInv
<1>1. Init => IInv
  BY ClockAssumption DEF Init, IInv, TypeOK, InvSleep, QuietOnlyCarriesOver
<1> QED
  BY <1>1, InvStep, PTL DEF Spec

\* The type invariant: in particular no play is longer than play_long.
THEOREM TypeCorrect == Spec => []TypeOK
<1>1. IInv => TypeOK
  BY DEF IInv
<1> QED
  BY <1>1, Invariance, PTL

\* No play begins in the quiet minutes: music heard there began before their hour.
THEOREM NoStartInQuiet == Spec => []QuietOnlyCarriesOver
<1>1. IInv => QuietOnlyCarriesOver
  BY DEF IInv
<1> QED
  BY <1>1, Invariance, PTL

\* isTiming() holds whenever an item is due, put off or not.
LEMMA DueIsTiming == Due => isTiming
  BY ClockAssumption DEF Due, isTiming, isSpecialHour, isSpecialMinute

\* No due item is passed over unless an earlier play is still running.
THEOREM DueServed == Spec => DueIsPlayed
<1>1. IInv /\ [Next]_vars => [(Due /\ minute' # minute) => pc = "play"]_vars
  <2> SUFFICES ASSUME IInv, Next, Due, minute' # minute PROVE pc = "play"
    OBVIOUS
  <2>1. Tick
    BY DEF Next, StartPlay, NotNow, PlayEnds, clock
  <2> QED
    BY <2>1, DueIsTiming DEF IInv, TypeOK, InvSleep, Tick, Looked
<1> QED
  BY <1>1, Invariance, PTL DEF Spec, DueIsPlayed

=============================================================================
