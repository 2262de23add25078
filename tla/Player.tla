-------------------------------- MODULE Player --------------------------------
(***************************************************************************)
(* The client's player: Player and Pipeline (src/src/client/player.py,     *)
(* pipeline.py) between the messages and the audio that the socket's       *)
(* thread hands to them (client.py, client_socket.py).  One thread runs    *)
(* all of these handlers; the connector's thread stops the player once     *)
(* that one has ended.                                                     *)
(*                                                                         *)
(* A player has two gstreamer pipelines, the input with decoder and filter *)
(* and the output with volume and sound card.  They are built from what    *)
(* the messages left in the attributes of Pipeline, and a message may be   *)
(* handled when there are pipelines and when there are none.  Building     *)
(* them may raise: in a message that is caught and logged, in audio it     *)
(* ends the thread that reads the socket.                                  *)
(*                                                                         *)
(* Left out: what is only logged (server_audio_state, buffer_state,        *)
(* print_stats, the check of the play time, whose rejection is logged and  *)
(* not heeded), the silence that no thread inserts (its call is commented  *)
(* out) and realtime mode, which nothing enables.                          *)
(***************************************************************************)
EXTENDS PlayingClient

CONSTANTS
  Codecs,    \* codec names, as numbers; 0 is the initial 'pcm'
  Gain,      \* the source gain of a codec
  Rates,     \* sample rates
  Levels,    \* settings of a volume, with the balance
  Filters,   \* settings of the filter: equalizer and crossover
  Times      \* play times

ASSUME CodecsAssumption == Codecs \subseteq Nat /\ 0 \in Codecs
ASSUME GainAssumption == Gain \in [Codecs -> Nat]
ASSUME TimesAssumption == Times \subseteq Nat

\* a gstreamer input and a gstreamer output
Inputs == [codec : Codecs, filter : Filters]
Volumes == [levels : [player : Levels, external : Levels], gain : Nat]
Outputs == [volume : Volumes, rate : Rates \cup {None}, time : Times \cup {None}]

ASSUME NoneValueAssumption ==
  None \notin Rates /\ None \notin Times /\ None \notin Inputs \cup Outputs

VARIABLES
  pipeline,   \* the attributes of Pipeline, with its two gstreamer pipelines
  playing,    \* Player.playing: the group's parameter, None before it was heard
  amp,        \* what HwCtl.play was told last
  reader,     \* the thread that reads the socket: "none", "reads" or "dead"
  reports     \* history: `buffered' emitted since the input pipeline was built

vars == <<pipeline, playing, amp, reader, reports>>

-----------------------------------------------------------------------------
Channels == {"none", "single", "stereo"}

\* before the first message; the levels are those of the source and of the group
Init ==
  /\ \E default \in Levels, filter \in Filters :
       pipeline = [codec |-> 0, samplerate |-> None, source_gain |-> Gain[0],
                   levels |-> [player |-> default, external |-> default],
                   volume |-> None, filter |-> filter, channel |-> "none",
                   buffering |-> Full, input |-> None, output |-> None]
  /\ playing = None /\ amp = FALSE /\ reader = "none" /\ reports = 0

-----------------------------------------------------------------------------
(* Pipeline: what its methods make of it                                   *)

stop(p) == [p EXCEPT !.input = None, !.output = None]

\* Mutation of update_volume: the volume of a running pipeline is left alone.
update_stored_only(p) ==
  IF p.channel = "none" THEN p
  ELSE [p EXCEPT !.volume = [levels |-> p.levels, gain |-> p.source_gain]]

\* update_pipeline_balance_and_volume: remote_streaming_volumes for each
\* channel, and the volume elements of the output, if there is one
update_volume(p) ==
  LET volume == [levels |-> p.levels, gain |-> p.source_gain]
  IN  IF p.channel = "none" THEN p
      ELSE [p EXCEPT !.volume = volume,
                     !.output = IF @ = None THEN None ELSE [@ EXCEPT !.volume = volume]]

\* Mutation of construct_input: the count of the first bytes is not started.
construct_input_counts_on(p) ==
  LET updated == update_volume(p)
  IN  [updated EXCEPT !.source_gain = Gain[p.codec],
                      !.input = [codec |-> p.codec, filter |-> p.filter]]

\* The volume is worked out before the decoder's gain is known.  A stereo device
\* raises on its way (get_channel_mask looks for the key 0 in a dictionary with
\* the keys '0' and '1').
construct_input(p) ==
  LET updated == update_volume(p)
      gained == [updated EXCEPT !.source_gain = Gain[p.codec]]
  IN  IF p.channel = "stereo" THEN gained
      ELSE [gained EXCEPT !.input = [codec |-> p.codec, filter |-> p.filter],
                          !.buffering = Full]

\* gstreamer rejects a description without a channel; whether it accepts one
\* with the rate `None' is for gstreamer to say.
Launches(p) ==
  {launches \in BOOLEAN :
     /\ p.channel = "none" => ~launches
     /\ p.channel # "none" /\ p.samplerate # None => launches}

construct_output(p, launches) ==
  IF p.input # None /\ launches
  THEN [p EXCEPT !.output = [volume |-> p.volume, rate |-> p.samplerate, time |-> None]]
  ELSE p

\* Mutation of construct_pipelines: what runs is not stopped first, and stays.
construct_missing(p, launches) ==
  IF p.input # None THEN p ELSE construct_output(construct_input(p), launches)

construct_pipelines(p, launches) ==
  construct_output(construct_input(stop(p)), launches)

\* set_pipeline_parameter of the group's levels and of the filter
set_external(p, level) == update_volume([p EXCEPT !.levels.external = level])

set_filter(p, filter) ==
  [p EXCEPT !.filter = filter,
            !.input = IF @ = None THEN None ELSE [@ EXCEPT !.filter = filter]]

-----------------------------------------------------------------------------
(* Messages and audio from the server                                      *)

reading == reader = "reads"

\* slot_connected of the device sends the whole configuration of the group, which
\* finds no pipeline; a client that has not noticed yet that it is connected does
\* not heed it (slot_new_message).
Configure(channel, level, filter, enabled) ==
  /\ reader = "none"
  /\ reader' = "reads"
  /\ playing' = enabled
  /\ pipeline' = set_filter(set_external([pipeline EXCEPT !.channel = channel], level), filter)
  /\ UNCHANGED <<amp, reports>>

Unconfigured ==
  /\ reader = "none"
  /\ reader' = "reads"
  /\ UNCHANGED <<pipeline, playing, amp, reports>>

SetCodec(codec) ==
  /\ reading
  /\ pipeline' = [pipeline EXCEPT !.codec = codec]
  /\ UNCHANGED <<playing, amp, reader, reports>>

SetSamplerate(rate) ==
  /\ reading
  /\ LET p == [pipeline EXCEPT !.samplerate = rate]
     IN  \E launches \in Launches(p) : pipeline' = construct_pipelines(p, launches)
  /\ reports' = 0
  /\ UNCHANGED <<playing, amp, reader>>

\* setvolume, of the source
SetVolume(level) ==
  /\ reading
  /\ pipeline' = update_volume([pipeline EXCEPT !.levels.player = level])
  /\ UNCHANGED <<playing, amp, reader, reports>>

SetLevel(level) ==
  /\ reading
  /\ pipeline' = set_external(pipeline, level)
  /\ UNCHANGED <<playing, amp, reader, reports>>

SetFilter(filter) ==
  /\ reading
  /\ pipeline' = set_filter(pipeline, filter)
  /\ UNCHANGED <<playing, amp, reader, reports>>

\* setparam of general.playing
SetPlaying(enabled) ==
  /\ reading
  /\ playing' = enabled
  /\ pipeline' = IF enabled THEN pipeline ELSE stop(pipeline)
  /\ UNCHANGED <<amp, reader, reports>>

Buffering ==
  /\ reading
  /\ amp' = TRUE
  /\ UNCHANGED <<pipeline, playing, reader, reports>>

\* Player raises when there is no output to set the base time of.
Playing(time) ==
  /\ reading
  /\ pipeline' = [pipeline EXCEPT !.output = IF @ = None THEN None ELSE [@ EXCEPT !.time = time]]
  /\ UNCHANGED <<playing, amp, reader, reports>>

Stopping ==
  /\ reading
  /\ amp' = FALSE
  /\ pipeline' = stop(pipeline)
  /\ UNCHANGED <<playing, reader, reports>>

\* Mutation of Fed: every block after the first bytes is reported.
FedReportsOn(p, before) ==
  /\ pipeline' = [p EXCEPT !.buffering = IF @ > 0 THEN @ - 1 ELSE 0]
  /\ reports' = before + (IF p.buffering <= 1 THEN 1 ELSE 0)
  /\ UNCHANGED reader

\* new_audio; reports counts anew for a pipeline that is built
Fed(p, before) ==
  /\ pipeline' = [p EXCEPT !.buffering = IF @ > 0 THEN @ - 1 ELSE 0]
  /\ reports' = before + (IF p.buffering = 1 THEN 1 ELSE 0)
  /\ UNCHANGED reader

NewAudio ==
  /\ reading
  /\ IF pipeline.input # None THEN Fed(pipeline, reports)
     ELSE \E launches \in Launches(pipeline) :
            LET built == construct_pipelines(pipeline, launches)
            IN  IF built.output # None THEN Fed(built, 0)
                ELSE /\ pipeline' = built
                     /\ reader' = "dead"
                     /\ reports' = 0
  /\ UNCHANGED <<playing, amp>>

\* The connection is lost: the connector waits for the reader to end and stops
\* the player.  A reader that died of an exception reports no loss.
Lost ==
  /\ reading
  /\ reader' = "none"
  /\ amp' = FALSE
  /\ pipeline' = stop(pipeline)
  /\ UNCHANGED <<playing, reports>>

Runtime ==
  Buffering \/ Stopping \/ \E time \in Times : Playing(time)

Message ==
  \/ \E codec \in Codecs : SetCodec(codec)
  \/ \E rate \in Rates : SetSamplerate(rate)
  \/ \E level \in Levels : SetVolume(level) \/ SetLevel(level)
  \/ \E filter \in Filters : SetFilter(filter)
  \/ \E enabled \in BOOLEAN : SetPlaying(enabled)

Connect ==
  \/ Unconfigured
  \/ \E channel \in {"single", "stereo"}, level \in Levels, filter \in Filters,
        enabled \in BOOLEAN : Configure(channel, level, filter, enabled)

Next == Connect \/ Runtime \/ Message \/ NewAudio \/ Lost

Spec == Init /\ [][Next]_vars

-----------------------------------------------------------------------------
Pipelines ==
  [codec : Codecs, samplerate : Rates \cup {None}, source_gain : Nat,
   levels : [player : Levels, external : Levels], volume : Volumes \cup {None},
   filter : Filters, channel : Channels, buffering : 0..Full,
   input : Inputs \cup {None}, output : Outputs \cup {None}]

\* Every variable has its type.
TypeOK ==
  /\ pipeline \in Pipelines
  /\ playing \in BOOLEAN \cup {None} /\ amp \in BOOLEAN
  /\ reader \in {"none", "reads", "dead"} /\ reports \in {0, 1}

\* Later calls see the value stored and also applied on any running pipeline
\* immediately (docstring of set_pipeline_parameter): in whichever order
\* settings come and pipelines are built, stopped and built again, what runs has
\* the filter and the levels that are stored.
SettingsApplied ==
  /\ pipeline.input # None => pipeline.input.filter = pipeline.filter
  /\ pipeline.output # None => pipeline.output.volume.levels = pipeline.levels

\* Each pipeline reports `buffered' exactly once, when its first bytes are in, and
\* a new one again: the server waits for this report, and for no other.
BufferedOnce ==
  pipeline.input # None => (reports = 1 <=> pipeline.buffering = 0)

-----------------------------------------------------------------------------
(* The player keeps the promise of PlayingClient                           *)

\* The client that the server sees.
Abstract ==
  [link |-> reader # "none", param |-> playing, codec |-> pipeline.codec,
   decodes |-> IF pipeline.input = None THEN 0 ELSE pipeline.input.codec,
   pipe |-> IF pipeline.input = None THEN None ELSE Full - pipeline.buffering,
   time |-> IF pipeline.output = None THEN None ELSE pipeline.output.time,
   amp |-> amp]

\* The handler of each packet that PlayingClient knows.
Handles(packet, codec, time) ==
  \/ packet = "setcodec" /\ SetCodec(codec)
  \/ packet = "setsamplerate" /\ \E rate \in Rates : SetSamplerate(rate)
  \/ packet = "audio" /\ NewAudio
  \/ packet = "buffering" /\ Buffering
  \/ packet = "stopping" /\ Stopping
  \/ packet = "playing" /\ Playing(time)
  \/ packet = "enable" /\ SetPlaying(TRUE)
  \/ packet = "disable" /\ SetPlaying(FALSE)

\* Both pipelines, or neither.
Whole(p) == (p.input = None) = (p.output = None)

\* The left or the right loudspeaker of a pair makes of each packet what the
\* server's model has its clients make of it, as long as gstreamer builds its
\* pipelines; all else it is sent changes nothing that the server depends on.
Implements ==
  [][pipeline.channel = "single" /\ Whole(pipeline) /\ Whole(pipeline') =>
       /\ \A packet \in Packets, codec \in Codecs, time \in Times :
            Handles(packet, codec, time) => Abstract' = React(Abstract, packet, codec, time)
       /\ \A level \in Levels, filter \in Filters :
            SetVolume(level) \/ SetLevel(level) \/ SetFilter(filter) => Abstract' = Abstract
    ]_vars

=============================================================================
