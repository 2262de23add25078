-------------------------------- MODULE HwCtl --------------------------------
(***************************************************************************)
(* The hardware controller of a client, src/src/client/hwctl.py: it powers *)
(* the amplifier, switches the loudspeaker relay and drives the two leds   *)
(* of src/src/client/gpio.py.                                              *)
(*                                                                         *)
(* The thread of run() goes round every 10 ms.  Other threads (the one of  *)
(* the socket to the server, the one that looks for a server) write        *)
(* playing_state and state at any time and without a lock, so every read   *)
(* of these two in a round is a step of its own.                           *)
(***************************************************************************)
EXTENDS Integers

CONSTANTS
  PowerDelay,   \* rounds from power on to the relay (50 in the code)
  SleepDelay,   \* rounds from the relay to power off (10)
  RedFirst,     \* rounds the red led is on at first when flashing (50)
  GreenTime,    \* rounds the green led is on (75)
  RedTime       \* rounds the red led is on after that (25)

ASSUME DelayAssumption == PowerDelay \in Nat \ {0} /\ SleepDelay \in Nat \ {0}
ASSUME FlashAssumption ==
  RedFirst \in Nat \ {0} /\ GreenTime \in Nat \ {0} /\ RedTime \in Nat \ {0}

VARIABLES
  state,               \* ClientState
  playing_state,       \* is the client told to play?
  power_and_speakers,  \* PowerAndSpeakers
  power_delay,         \* rounds left before the next step of the power
  last_state, last_playing,  \* what run() noticed last
  flashing, period_red, period_green,  \* its other local variables for the leds
  pc,                  \* where run() is in its round
  power, speaker,      \* the two pins of the amplifier
  red, green,          \* the two leds
  power_age,           \* history: rounds since the power went on
  torn                 \* history: was a round that sets the leds disturbed?

switching == <<power_and_speakers, power_delay, power, speaker, power_age>>
noticed == <<last_state, last_playing>>
flash == <<flashing, period_red, period_green>>
display == <<noticed, flash, red, green, torn>>
told == <<state, playing_state>>
vars == <<told, switching, display, pc>>

ClientState == {"CLIENT_STARTING", "LUDIT_SERVER_CONNECTED",
                "TWITSE_TIME_NOT_SYNC", "TWITSE_TIME_SYNC"}
PowerAndSpeakers == {"BOTH_OFF", "POWER_ON", "BOTH_ON"}
LedDrive == {"DIM", "OFF", "ON"}

Init ==
  /\ state = "CLIENT_STARTING"
  /\ playing_state = FALSE
  /\ power_and_speakers = "BOTH_OFF"
  /\ power_delay = 0
  /\ last_state = "None" /\ last_playing = FALSE
  /\ flashing = FALSE /\ period_red = 0 /\ period_green = 0
  /\ pc = "changed?"
  /\ power = FALSE /\ speaker = FALSE
  /\ red = "OFF" /\ green = "OFF"
  /\ power_age = 0
  /\ torn = FALSE

-----------------------------------------------------------------------------
(* What other threads call                                                 *)

SettingLeds == pc \in {"starting?", "connected?", "playing?", "sync?",
                       "remember_state", "remember_playing"}

Told(new_state, new_playing) ==
  /\ state' = new_state
  /\ playing_state' = new_playing
  /\ torn' = (torn \/ (SettingLeds /\ told' # told))
  /\ UNCHANGED <<switching, noticed, flash, red, green, pc>>

play(on) == Told(state, on)

server_connection(connected) ==
  Told(CASE ~connected -> "CLIENT_STARTING"
         [] connected /\ state = "CLIENT_STARTING" -> "LUDIT_SERVER_CONNECTED"
         [] OTHER -> state,
       playing_state)

time_sync(locked) ==
  Told(CASE locked /\ state \in {"TWITSE_TIME_NOT_SYNC", "LUDIT_SERVER_CONNECTED"}
              -> "TWITSE_TIME_SYNC"
         [] ~locked /\ state \in {"TWITSE_TIME_SYNC", "LUDIT_SERVER_CONNECTED"}
              -> "TWITSE_TIME_NOT_SYNC"
         [] OTHER -> state,
       playing_state)

-----------------------------------------------------------------------------
(* run: the leds                                                           *)

At(place) == pc = place
Goto(place) == pc' = place

\* if last_state != self.state or last_playing_state != self.playing_state
Noticed(red_left, green_left) ==
  /\ At("changed?")
  /\ IF last_state # state \/ last_playing # playing_state
     THEN /\ flashing' = FALSE /\ period_red' = red_left /\ period_green' = green_left
          /\ torn' = FALSE
          /\ Goto("starting?")
     ELSE Goto("flash") /\ UNCHANGED <<flash, torn>>
  /\ UNCHANGED <<told, switching, noticed, red, green>>

\* Mutation of Changed: a flash that is under way goes on.
ChangedKeepsFlash == Noticed(period_red, period_green)

Changed == Noticed(0, 0)

Show(r, g) == red' = r /\ green' = g /\ Goto("remember_state")

\* one test of the chain of if and elif: what is shown when it is met, and
\* the test that comes next when it is not
Test(place, met, r, g, next) ==
  /\ At(place)
  /\ IF met THEN Show(r, g) ELSE Goto(next) /\ UNCHANGED <<red, green>>
  /\ UNCHANGED <<told, switching, noticed, flash, torn>>

Starting == Test("starting?", state = "CLIENT_STARTING", "DIM", "OFF", "connected?")
Connected ==
  Test("connected?", state = "LUDIT_SERVER_CONNECTED", "ON", "OFF", "playing?")
Playing == Test("playing?", playing_state, "OFF", "ON", "sync?")

InSync ==
  /\ At("sync?")
  /\ IF state = "TWITSE_TIME_NOT_SYNC"
     THEN Show("ON", "OFF") /\ flashing' = TRUE /\ period_red' = RedFirst
     ELSE Show("OFF", "DIM") /\ UNCHANGED <<flashing, period_red>>
  /\ UNCHANGED <<told, switching, noticed, period_green, torn>>

RememberState ==
  /\ At("remember_state")
  /\ last_state' = state
  /\ Goto("remember_playing")
  /\ UNCHANGED <<told, switching, last_playing, flash, red, green, torn>>

RememberPlaying ==
  /\ At("remember_playing")
  /\ last_playing' = playing_state
  /\ Goto("flash")
  /\ UNCHANGED <<told, switching, last_state, flash, red, green, torn>>

\* The red period, then the green one, which the end of the red one starts in
\* the same round.
RedEnds == period_red = 1
GreenLeft == IF RedEnds THEN GreenTime ELSE IF period_red > 0 THEN 0 ELSE period_green
GreenEnds == GreenLeft = 1

Flash ==
  /\ At("flash")
  /\ period_red' = IF GreenEnds THEN RedTime
                   ELSE IF GreenLeft = 0 /\ period_red > 0 THEN period_red - 1 ELSE 0
  /\ period_green' = IF GreenLeft > 0 THEN GreenLeft - 1 ELSE 0
  /\ red' = IF GreenEnds /\ flashing THEN "ON" ELSE IF RedEnds THEN "OFF" ELSE red
  /\ green' = IF GreenEnds THEN "OFF" ELSE IF RedEnds /\ flashing THEN "ON" ELSE green
  /\ Goto("power")
  /\ UNCHANGED <<told, switching, noticed, flashing, torn>>

Leds == Changed \/ Starting \/ Connected \/ Playing \/ InSync
        \/ RememberState \/ RememberPlaying \/ Flash

-----------------------------------------------------------------------------
(* run: the amplifier                                                      *)

Older == IF power_age < PowerDelay THEN power_age + 1 ELSE power_age

\* one round: the delay, or the first reading of playing_state
PowerRound(waits, has_power) ==
  /\ At("power")
  /\ power_age' = Older
  /\ IF waits
     THEN power_delay' = power_delay - 1 /\ Goto("changed?")
     ELSE /\ Goto(CASE playing_state /\ power_and_speakers # "BOTH_ON" -> "on"
                    [] ~playing_state /\ has_power -> "off"
                    [] OTHER -> "changed?")
          /\ UNCHANGED power_delay
  /\ UNCHANGED <<told, display, power_and_speakers, power, speaker>>

\* Mutation of Power: the delay is waited for once more when it is over.
PowerPastZero == PowerRound(power_delay >= 0, power_and_speakers # "BOTH_OFF")

\* Mutation of Power: only what is all on is switched off.
PowerOffFromBothOn == PowerRound(power_delay > 0, power_and_speakers = "BOTH_ON")

Power == PowerRound(power_delay > 0, power_and_speakers # "BOTH_OFF")

ApplyPower(delay) ==
  /\ At("on") /\ playing_state /\ power_and_speakers = "BOTH_OFF"
  /\ power_and_speakers' = "POWER_ON"
  /\ power' = TRUE
  /\ power_delay' = delay
  /\ power_age' = 0
  /\ Goto("changed?")
  /\ UNCHANGED <<told, display, speaker>>

\* Mutation of PowerOn: the relay is not made to wait.
PowerOnAtOnce == ApplyPower(0)

PowerOn == ApplyPower(PowerDelay)

\* the else: playing_state is read again, and it may have changed
SpeakerOn ==
  /\ At("on") /\ ~(playing_state /\ power_and_speakers = "BOTH_OFF")
  /\ power_and_speakers' = "BOTH_ON"
  /\ speaker' = TRUE
  /\ Goto("changed?")
  /\ UNCHANGED <<told, display, power_delay, power, power_age>>

\* met only when playing_state has changed since it was read last
SpeakerOff ==
  /\ At("off") /\ playing_state /\ power_and_speakers = "BOTH_ON"
  /\ power_and_speakers' = "POWER_ON"
  /\ speaker' = FALSE
  /\ power_delay' = SleepDelay
  /\ Goto("changed?")
  /\ UNCHANGED <<told, display, power, power_age>>

PowerOff ==
  /\ At("off") /\ ~(playing_state /\ power_and_speakers = "BOTH_ON")
  /\ power_and_speakers' = "BOTH_OFF"
  /\ power' = FALSE
  /\ Goto("changed?")
  /\ UNCHANGED <<told, display, power_delay, speaker, power_age>>

Amplifier == Power \/ PowerOn \/ SpeakerOn \/ SpeakerOff \/ PowerOff

-----------------------------------------------------------------------------
run == Leds \/ Amplifier

Next ==
  \/ \E yes \in BOOLEAN : play(yes) \/ server_connection(yes) \/ time_sync(yes)
  \/ run

Spec == Init /\ [][Next]_vars

\* The thread of run() is scheduled; nobody has to call.
FairSpec == Spec /\ WF_vars(run)

-----------------------------------------------------------------------------
Places == {"changed?", "starting?", "connected?", "playing?", "sync?",
           "remember_state", "remember_playing", "flash", "power", "on", "off"}

\* Every variable has its type, and the countdowns stay within their presets.
TypeOK ==
  /\ state \in ClientState
  /\ playing_state \in BOOLEAN
  /\ power_and_speakers \in PowerAndSpeakers
  /\ power_delay \in Nat /\ (power_delay <= PowerDelay \/ power_delay <= SleepDelay)
  /\ last_state \in ClientState \cup {"None"}
  /\ last_playing \in BOOLEAN /\ flashing \in BOOLEAN
  /\ period_red \in Nat /\ (period_red <= RedFirst \/ period_red <= RedTime)
  /\ period_green \in 0..GreenTime
  /\ pc \in Places
  /\ power \in BOOLEAN /\ speaker \in BOOLEAN
  /\ red \in LedDrive /\ green \in LedDrive
  /\ power_age \in 0..PowerDelay
  /\ torn \in BOOLEAN

\* No pop: the relay is never switched to an amplifier whose power came on less
\* than the delay ago, however the orders to play and to stop fall into the
\* rounds of run().
RelayWaits ==
  [][~speaker /\ speaker' /\ power => power_age = PowerDelay]_vars

\* The amplifier does not burn for nothing: once nothing plays any more its
\* power goes off, and stays off.
SilentIsOff == <>[]~playing_state => <>[]~power

OneIsOn(r, g) == (r = "ON" /\ g = "OFF") \/ (r = "OFF" /\ g = "ON")

Shown(s, playing, r, g) ==
  /\ s = "CLIENT_STARTING" => r = "DIM" /\ g = "OFF"
  /\ s = "LUDIT_SERVER_CONNECTED" => r = "ON" /\ g = "OFF"
  /\ s \in {"TWITSE_TIME_NOT_SYNC", "TWITSE_TIME_SYNC"} /\ playing => r = "OFF" /\ g = "ON"
  /\ s = "TWITSE_TIME_NOT_SYNC" /\ ~playing => OneIsOn(r, g)
  /\ s = "TWITSE_TIME_SYNC" /\ ~playing => r = "OFF" /\ g = "DIM"

\* The leds show the state that was last noticed, and no flash of an earlier
\* state gets in the way, as long as no call came between the readings of the
\* round that set them.
LedsShowState ==
  ~SettingLeds /\ ~torn /\ last_state # "None"
  => Shown(last_state, last_playing, red, green)

=============================================================================
