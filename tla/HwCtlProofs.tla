----------------------------- MODULE HwCtlProofs -----------------------------
(***************************************************************************)
(* Proofs about the hardware controller of a client, for any delays and    *)
(* any flashing periods: its variables keep their types, the relay waits   *)
(* for the power, and the leds show the state.                             *)
(***************************************************************************)
EXTENDS HwCtl, TLAPS

USE DelayAssumption, FlashAssumption

\* What makes RelayWaits inductive: while the amplifier has power, the rounds it
\* has had it and the rounds still to wait make up the whole delay; an amplifier
\* that is all off has no power, and the relay of one that is all on did wait.
DelayAccounted ==
  /\ power_and_speakers = "BOTH_OFF" => ~power
  /\ power_and_speakers = "POWER_ON" /\ power => power_age + power_delay >= PowerDelay
  /\ power_and_speakers = "BOTH_ON" /\ power => power_age = PowerDelay
  /\ pc = "on" => power_and_speakers # "BOTH_ON" /\ power_delay = 0

AmpInv == TypeOK /\ DelayAccounted

\* What makes LedsShowState inductive: as long as no call disturbs the round,
\* the tests passed so far hold of what is there now, and the leds that have been
\* set are right; after it, a flash has exactly one of the leds on.
Flashing(s, playing) == s = "TWITSE_TIME_NOT_SYNC" /\ ~playing

Steady == period_red = 0 /\ period_green = 0

OneLedFlashes ==
  \/ period_red > 0 /\ period_green = 0 /\ red = "ON" /\ green = "OFF"
  \/ period_red = 0 /\ period_green > 0 /\ red = "OFF" /\ green = "ON"

Displayed(s, playing) ==
  /\ Shown(s, playing, red, green)
  /\ flashing <=> Flashing(s, playing)
  /\ IF flashing THEN OneLedFlashes ELSE Steady

DisplayRight ==
  ~torn =>
    /\ pc \in {"starting?", "connected?", "playing?", "sync?"} => Steady /\ ~flashing
    /\ pc \in {"connected?", "playing?", "sync?"} => state # "CLIENT_STARTING"
    /\ pc \in {"playing?", "sync?"} => state # "LUDIT_SERVER_CONNECTED"
    /\ pc = "sync?" => ~playing_state
    /\ pc \in {"remember_state", "remember_playing"} => Displayed(state, playing_state)
    /\ pc = "remember_playing" => last_state = state
    /\ ~SettingLeds /\ last_state # "None"
         => Displayed(last_state, last_playing)
    /\ ~SettingLeds /\ last_state = "None" => Steady /\ ~flashing

LedInv == TypeOK /\ DisplayRight

-----------------------------------------------------------------------------
\* The truth values among the variables.
Flags ==
  /\ playing_state \in BOOLEAN /\ last_playing \in BOOLEAN /\ flashing \in BOOLEAN
  /\ power \in BOOLEAN /\ speaker \in BOOLEAN /\ torn \in BOOLEAN

LEMMA FlagsInit == Init => Flags
  BY Zenon DEF Init, Flags

\* They stay truth values.
LEMMA FlagsStep ==
  ASSUME Flags, [Next]_vars
  PROVE  Flags'
<1> USE DEF Flags, told, switching, display, noticed, flash
<1>1. ASSUME NEW yes \in BOOLEAN, play(yes) PROVE Flags'
  BY <1>1, Zenon DEF play, Told
<1>2. ASSUME NEW yes \in BOOLEAN, server_connection(yes) \/ time_sync(yes) PROVE Flags'
  BY <1>2, Zenon DEF server_connection, time_sync, Told
<1>3. CASE Changed
  BY <1>3, Zenon DEF Changed, Noticed
<1>4. CASE Starting \/ Connected \/ Playing
  BY <1>4, Zenon DEF Starting, Connected, Playing, Test
<1>5. CASE InSync
  BY <1>5, Zenon DEF InSync
<1>6. CASE RememberState \/ RememberPlaying
  BY <1>6, Zenon DEF RememberState, RememberPlaying
<1>7. CASE Flash
  BY <1>7, Zenon DEF Flash
<1>8. CASE Power
  BY <1>8, Zenon DEF Power, PowerRound
<1>9. CASE PowerOn
  BY <1>9, Zenon DEF PowerOn, ApplyPower
<1>10. CASE SpeakerOn \/ SpeakerOff \/ PowerOff
  BY <1>10, Zenon DEF SpeakerOn, SpeakerOff, PowerOff
<1>11. CASE UNCHANGED vars
  BY <1>11, Zenon DEF vars
<1> QED BY <1>1, <1>2, <1>3, <1>4, <1>5, <1>6, <1>7, <1>8, <1>9, <1>10, <1>11
        DEF Next, run, Leds, Amplifier

\* The type invariant is inductive.
LEMMA TypeStep == TypeOK /\ [Next]_vars => TypeOK'
<1> SUFFICES ASSUME TypeOK, [Next]_vars PROVE TypeOK'
  OBVIOUS
<1>0. Flags'
  BY FlagsStep DEF Flags, TypeOK
<1> USE <1>0 DEF Flags
<1> USE DEF TypeOK, ClientState, PowerAndSpeakers, LedDrive, Places, At, Goto,
            told, switching, display, noticed, flash
<1>1. ASSUME NEW yes \in BOOLEAN, play(yes) \/ server_connection(yes) \/ time_sync(yes)
      PROVE  TypeOK'
  BY <1>1 DEF play, server_connection, time_sync, Told, SettingLeds
<1>2. CASE Changed
  BY <1>2 DEF Changed, Noticed
<1>3. CASE Starting \/ Connected \/ Playing
  BY <1>3 DEF Starting, Connected, Playing, Test, Show
<1>4. CASE InSync
  BY <1>4 DEF InSync, Show
<1>5. CASE RememberState \/ RememberPlaying
  BY <1>5 DEF RememberState, RememberPlaying
<1>6. CASE Flash
  <2>1. /\ red' \in LedDrive /\ green' \in LedDrive
        /\ period_red' \in Nat /\ (period_red' <= RedFirst \/ period_red' <= RedTime)
    BY <1>6 DEF Flash, GreenLeft, RedEnds, GreenEnds
  <2>2. period_green' \in 0..GreenTime
    BY <1>6 DEF Flash, GreenLeft, RedEnds
  <2> QED BY <1>6, <2>1, <2>2 DEF Flash
<1>7. CASE Power
  <2>1. Older \in 0..PowerDelay
    BY DEF Older
  <2>2. power_delay' \in Nat /\ (power_delay' <= PowerDelay \/ power_delay' <= SleepDelay)
    BY <1>7 DEF Power, PowerRound
  <2>3. power_age' = Older /\ pc' \in Places
    BY <1>7 DEF Power, PowerRound
  <2> QED BY <1>7, <2>1, <2>2, <2>3 DEF Power, PowerRound
<1>8. CASE PowerOn
  BY <1>8 DEF PowerOn, ApplyPower
<1>9. CASE SpeakerOn \/ SpeakerOff \/ PowerOff
  BY <1>9 DEF SpeakerOn, SpeakerOff, PowerOff
<1>10. CASE UNCHANGED vars
  BY <1>10 DEF vars
<1> QED BY <1>1, <1>2, <1>3, <1>4, <1>5, <1>6, <1>7, <1>8, <1>9, <1>10
        DEF Next, run, Leds, Amplifier

\* Every variable of the controller keeps its type, for any delays and periods.
THEOREM TypeCorrect == Spec => []TypeOK
<1>1. Init => TypeOK
  BY FlagsInit DEF Init, Flags, TypeOK, ClientState, PowerAndSpeakers, LedDrive, Places
<1> QED BY <1>1, TypeStep, PTL DEF Spec

\* The delay is accounted for in every reachable state.
LEMMA AmpInvariant == Spec => []AmpInv
<1>1. Init => AmpInv
  BY FlagsInit DEF Init, Flags, AmpInv, DelayAccounted, TypeOK, ClientState, PowerAndSpeakers, LedDrive, Places
<1>2. AmpInv /\ [Next]_vars => AmpInv'
  <2> SUFFICES ASSUME AmpInv, [Next]_vars PROVE DelayAccounted'
    BY TypeStep DEF AmpInv
  <2> USE DEF AmpInv, DelayAccounted, TypeOK, At, Goto
  <2>1. CASE UNCHANGED <<switching, pc>>
    BY <2>1 DEF switching
  <2>2. CASE UNCHANGED switching /\ pc' # "on"
    BY <2>2 DEF switching
  <2>3. CASE Power
    BY <2>3 DEF Power, PowerRound, Older
  <2>4. CASE PowerOn
    BY <2>4 DEF PowerOn, ApplyPower
  <2>5. CASE SpeakerOn
    BY <2>5 DEF SpeakerOn, PowerAndSpeakers
  <2>6. CASE SpeakerOff
    BY <2>6 DEF SpeakerOff
  <2>7. CASE PowerOff
    BY <2>7 DEF PowerOff
  <2>8. ASSUME NEW yes \in BOOLEAN, play(yes) \/ server_connection(yes) \/ time_sync(yes)
        PROVE  UNCHANGED <<switching, pc>>
    BY <2>8 DEF play, server_connection, time_sync, Told
  <2>9. CASE Leds
    BY <2>2, <2>9 DEF Leds, Changed, Noticed, Starting, Connected, Playing, Test, Show,
                      InSync, RememberState, RememberPlaying, Flash
  <2>10. CASE UNCHANGED vars
    BY <2>1, <2>10 DEF vars
  <2> QED BY <2>1, <2>3, <2>4, <2>5, <2>6, <2>7, <2>8, <2>9, <2>10
          DEF Next, run, Amplifier
<1> QED BY <1>1, <1>2, PTL DEF Spec

\* The relay is never switched to an amplifier that has had its power for less
\* than the delay, for any delay.
THEOREM TheRelayWaits == Spec => RelayWaits
<1>1. AmpInv /\ [Next]_vars => [~speaker /\ speaker' /\ power => power_age = PowerDelay]_vars
  <2> SUFFICES ASSUME AmpInv, Next, ~speaker, speaker', power
               PROVE  power_age = PowerDelay
    BY DEF vars
  <2>1. SpeakerOn
    BY DEF Next, run, Leds, Amplifier, play, server_connection, time_sync, Told, switching,
           Changed, Noticed, Starting, Connected, Playing, Test, Show, InSync, RememberState,
           RememberPlaying, Flash, Power, PowerRound, PowerOn, ApplyPower, SpeakerOff, PowerOff
  <2> QED BY <2>1 DEF AmpInv, DelayAccounted, TypeOK, PowerAndSpeakers, SpeakerOn, At
<1> QED BY <1>1, AmpInvariant, PTL DEF Spec, RelayWaits

-----------------------------------------------------------------------------
\* What the leds are set to in a round is right if the round is not disturbed.
LEMMA LedInvariant == Spec => []LedInv
<1>1. Init => LedInv
  BY FlagsInit DEF Init, Flags, LedInv, DisplayRight, TypeOK, ClientState, PowerAndSpeakers, LedDrive, Places,
         SettingLeds, Steady
<1>2. LedInv /\ [Next]_vars => LedInv'
  <2> SUFFICES ASSUME LedInv, [Next]_vars PROVE DisplayRight'
    BY TypeStep DEF LedInv
  <2> USE DEF LedInv, DisplayRight, SettingLeds, At, Goto, Displayed, Flashing, Steady,
              OneLedFlashes, Shown, OneIsOn
  <2>0. Flags /\ Flags'
    BY FlagsStep DEF Flags, TypeOK
  <2>1. ASSUME NEW yes \in BOOLEAN, play(yes) \/ server_connection(yes) \/ time_sync(yes)
        PROVE  DisplayRight'
    <3>1. /\ UNCHANGED <<switching, noticed, flash, red, green, pc>>
          /\ torn' = (torn \/ (SettingLeds /\ told' # told))
      BY <2>1 DEF play, server_connection, time_sync, Told
    <3>2. CASE torn'
      BY <3>2
    <3>3. CASE ~torn' /\ SettingLeds
      <4>1. told' = told /\ ~torn
        BY <3>1, <3>3
      <4>2. state' = state /\ playing_state' = playing_state
        BY <4>1 DEF told
      <4> QED BY <3>1, <4>1, <4>2 DEF noticed, flash
    <3>4. CASE ~torn' /\ ~SettingLeds
      BY <3>1, <3>4 DEF noticed, flash
    <3> QED BY <3>2, <3>3, <3>4
  <2>2. CASE Changed
    BY <2>2 DEF Changed, Noticed, told, noticed, flash, TypeOK
  <2>3. CASE Starting \/ Connected \/ Playing
    BY <2>3 DEF Starting, Connected, Playing, Test, Show, told, noticed, flash, TypeOK, ClientState
  <2>4. CASE InSync
    BY <2>0, <2>4 DEF Flags, InSync, Show, told, noticed, flash, TypeOK, ClientState
  <2>5. CASE RememberState \/ RememberPlaying
    BY <2>0, <2>5 DEF Flags, RememberState, RememberPlaying, told, noticed, flash, TypeOK, ClientState
  <2>6. CASE Flash
    <3>1. CASE torn
      BY <2>6, <3>1 DEF Flash
    <3>2. CASE ~torn /\ ~flashing
      BY <2>6, <3>2 DEF Flash, GreenLeft, GreenEnds, RedEnds, told, noticed, flash, TypeOK, ClientState
    <3>3. CASE ~torn /\ flashing
      <4>1. OneLedFlashes /\ last_state = "TWITSE_TIME_NOT_SYNC" /\ ~last_playing
        BY <2>6, <3>3 DEF Flash, TypeOK
      <4>2. OneLedFlashes'
        BY <2>6, <3>3, <4>1 DEF Flash, GreenLeft, GreenEnds, RedEnds, TypeOK
      <4> QED BY <2>6, <3>3, <4>1, <4>2 DEF Flash, told, noticed, flash
    <3> QED BY <3>1, <3>2, <3>3 DEF TypeOK
  <2>7. CASE Amplifier
    BY <2>7 DEF Amplifier, Power, PowerRound, PowerOn, ApplyPower, SpeakerOn, SpeakerOff,
                PowerOff, told, display, noticed, flash
  <2>8. CASE UNCHANGED vars
    BY <2>8 DEF vars, told, display, noticed, flash
  <2> QED BY <2>1, <2>2, <2>3, <2>4, <2>5, <2>6, <2>7, <2>8 DEF Next, run, Leds
<1> QED BY <1>1, <1>2, PTL DEF Spec

\* The leds show the state last noticed when no call came between the readings
\* of the round that set them, for any flashing periods.
THEOREM LedsShowTheState == Spec => []LedsShowState
<1>1. LedInv => LedsShowState
  BY DEF LedInv, DisplayRight, LedsShowState, Displayed
<1> QED BY <1>1, LedInvariant, PTL

=============================================================================
