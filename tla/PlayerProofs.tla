----------------------------- MODULE PlayerProofs -----------------------------
(***************************************************************************)
(* Proofs about the client's player, for any codecs, gains, settings and   *)
(* play times and any length of the first buffer.                          *)
(***************************************************************************)
EXTENDS Player, TLAPS

\* Settings that are stored are applied, in a pair of pipelines.
Applied(p) ==
  /\ p.input # None => p.input.filter = p.filter
  /\ p.output # None => p.output.volume.levels = p.levels

\* A player without a channel has no output, and no volume either, and one with a
\* channel has an output only besides an input.
Wellformed(p) ==
  /\ p \in Pipelines /\ Applied(p)
  /\ p.channel = "none" => p.output = None

\* What stays of a pipeline when its volume is set, or when it is built again.
SameSettings(p, q) ==
  /\ q.codec = p.codec /\ q.samplerate = p.samplerate /\ q.levels = p.levels
  /\ q.filter = p.filter /\ q.channel = p.channel

-----------------------------------------------------------------------------
(* Lemmas about the methods of Pipeline                                    *)

\* Pipeline.stop
LEMMA StopLemma ==
  ASSUME NEW p \in Pipelines
  PROVE  /\ Wellformed(stop(p)) /\ SameSettings(p, stop(p))
         /\ stop(p).input = None /\ stop(p).output = None
         /\ stop(p).buffering = p.buffering
BY DEF stop, Pipelines, Wellformed, Applied, SameSettings

\* Storing levels and setting the volume, update_pipeline_balance_and_volume.
LEMMA VolumeLemma ==
  ASSUME NEW p \in Pipelines, p.input # None => p.input.filter = p.filter,
         p.channel = "none" => p.output = None
  PROVE  LET q == update_volume(p)
         IN  /\ Wellformed(q) /\ SameSettings(p, q)
             /\ q.input = p.input /\ q.buffering = p.buffering
             /\ (q.output = None <=> p.output = None)
             /\ q.output # None => q.output.time = p.output.time
             /\ q.source_gain = p.source_gain
             /\ q.channel # "none" => q.volume \in Volumes /\ q.volume.levels = q.levels
<1> DEFINE volume == [levels |-> p.levels, gain |-> p.source_gain]
           output == IF p.output = None THEN None ELSE [p.output EXCEPT !.volume = volume]
<1>1. volume \in Volumes /\ volume.levels = p.levels
  BY DEF Volumes, Pipelines
<1>2. /\ output \in Outputs \cup {None}
      /\ (output = None <=> p.output = None)
      /\ output # None => output.volume = volume /\ output.time = p.output.time
  BY <1>1, NoneValueAssumption DEF Pipelines, Outputs
<1>3. CASE p.channel = "none"
  BY <1>3 DEF update_volume, Wellformed, Applied, SameSettings
<1>4. CASE p.channel # "none"
  <2> DEFINE q == [p EXCEPT !.volume = volume, !.output = output]
  <2>1. update_volume(p) = q
    BY <1>4 DEF update_volume
  <2> HIDE DEF volume, output
  <2>2. /\ q \in Pipelines /\ q.volume = volume /\ q.output = output
        /\ q.input = p.input /\ q.buffering = p.buffering /\ q.codec = p.codec
        /\ q.samplerate = p.samplerate /\ q.levels = p.levels /\ q.filter = p.filter
        /\ q.channel = p.channel /\ q.source_gain = p.source_gain
    BY <1>1, <1>2 DEF Pipelines
  <2> QED BY <1>1, <1>2, <1>4, <2>1, <2>2 DEF Wellformed, Applied, SameSettings
<1> QED BY <1>3, <1>4

\* construct_and_launch_input_pipeline, from a player without pipelines.
LEMMA InputLemma ==
  ASSUME NEW p \in Pipelines, p.input = None, p.output = None
  PROVE  LET q == construct_input(p)
         IN  /\ Wellformed(q) /\ SameSettings(p, q) /\ q.output = None
             /\ q.channel # "none" => q.volume \in Volumes /\ q.volume.levels = q.levels
             /\ IF p.channel = "stereo" THEN q.input = None
                ELSE q.input # None /\ q.input.codec = q.codec /\ q.buffering = Full
<1> DEFINE full == Full
<1>0. full \in 0..Full
  BY FullAssumption
<1> DEFINE r == update_volume(p)
           gained == [r EXCEPT !.source_gain = Gain[p.codec]]
           input == [codec |-> p.codec, filter |-> p.filter]
           built == [gained EXCEPT !.input = input, !.buffering = full]
<1>1. /\ Wellformed(r) /\ SameSettings(p, r) /\ r.input = None /\ r.output = None
      /\ r.channel # "none" => r.volume \in Volumes /\ r.volume.levels = r.levels
  BY VolumeLemma
<1>2. p.codec \in Codecs /\ p.filter \in Filters /\ Gain[p.codec] \in Nat
  BY GainAssumption DEF Pipelines
<1>3. input \in Inputs /\ input # None /\ input.codec = p.codec /\ input.filter = p.filter
  BY <1>2, NoneValueAssumption DEF Inputs
<1> HIDE DEF r, input, full
<1>4. /\ gained \in Pipelines /\ SameSettings(p, gained)
      /\ gained.input = None /\ gained.output = None
      /\ gained.channel # "none" =>
           gained.volume \in Volumes /\ gained.volume.levels = gained.levels
  BY <1>1, <1>2 DEF Pipelines, Wellformed, SameSettings
<1> HIDE DEF gained
<1>5. /\ built \in Pipelines /\ SameSettings(p, built)
      /\ built.input = input /\ built.output = None /\ built.buffering = full
      /\ built.channel # "none" =>
           built.volume \in Volumes /\ built.volume.levels = built.levels
  BY <1>0, <1>3, <1>4 DEF Pipelines, SameSettings
<1>6. construct_input(p) = IF p.channel = "stereo" THEN gained ELSE built
  BY DEF construct_input, r, gained, input, full
<1> HIDE DEF built
<1>7. Wellformed(gained)
  BY <1>4 DEF Wellformed, Applied
<1>8. Wellformed(built)
  BY <1>3, <1>5 DEF Wellformed, Applied, SameSettings
<1> QED BY <1>3, <1>4, <1>5, <1>6, <1>7, <1>8 DEF SameSettings, full

\* construct_and_launch_output_pipeline
LEMMA OutputLemma ==
  ASSUME NEW p, Wellformed(p), p.output = None, NEW launches \in Launches(p),
         p.channel # "none" => p.volume \in Volumes /\ p.volume.levels = p.levels
  PROVE  LET q == construct_output(p, launches)
         IN  /\ Wellformed(q) /\ SameSettings(p, q)
             /\ q.input = p.input /\ q.buffering = p.buffering
             /\ q.output # None => q.output.time = None /\ q.input # None
<1> DEFINE output == [volume |-> p.volume, rate |-> p.samplerate, time |-> None]
           q == [p EXCEPT !.output = output]
<1>1. CASE p.input # None /\ launches
  <2>1. p \in Pipelines
    BY DEF Wellformed
  <2>2. p.channel # "none"
    BY <1>1 DEF Launches
  <2>3. output \in Outputs /\ output.volume.levels = p.levels /\ output.time = None
    BY <2>1, <2>2 DEF Outputs, Pipelines
  <2> HIDE DEF output
  <2>4. /\ q \in Pipelines /\ SameSettings(p, q) /\ q.output = output
        /\ q.input = p.input /\ q.buffering = p.buffering
    BY <2>1, <2>3 DEF Pipelines, SameSettings
  <2>5. construct_output(p, launches) = q
    BY <1>1 DEF construct_output, output
  <2> HIDE DEF q
  <2>6. Wellformed(q)
    BY <2>2, <2>3, <2>4 DEF Wellformed, Applied, SameSettings
  <2> QED BY <1>1, <2>3, <2>4, <2>5, <2>6
<1>2. CASE ~(p.input # None /\ launches)
  BY <1>2 DEF construct_output, SameSettings
<1> QED BY <1>1, <1>2

\* construct_pipelines, and how to tell that it raised
LEMMA ConstructLemma ==
  ASSUME NEW p \in Pipelines, NEW launches \in Launches(p)
  PROVE  LET q == construct_pipelines(p, launches)
         IN  /\ Wellformed(q) /\ SameSettings(p, q)
             /\ q.output # None => q.output.time = None /\ q.input # None
             /\ q.input # None => q.input.codec = q.codec /\ q.buffering = Full
             /\ p.channel = "single" => q.input # None
<1> DEFINE s == stop(p)
           r == construct_input(s)
<1>1. /\ s \in Pipelines /\ SameSettings(p, s) /\ s.input = None /\ s.output = None
  BY StopLemma DEF Wellformed
<1>2. /\ Wellformed(r) /\ SameSettings(s, r) /\ r.output = None
      /\ r.channel # "none" => r.volume \in Volumes /\ r.volume.levels = r.levels
      /\ IF s.channel = "stereo" THEN r.input = None
         ELSE r.input # None /\ r.input.codec = r.codec /\ r.buffering = Full
  <2> HIDE DEF s
  <2> QED BY <1>1, InputLemma
<1> HIDE DEF r, s
<1>3. launches \in Launches(r)
  BY <1>1, <1>2 DEF Launches, SameSettings
<1> DEFINE q == construct_output(r, launches)
<1>4. /\ Wellformed(q) /\ SameSettings(r, q) /\ q.input = r.input
      /\ q.buffering = r.buffering
      /\ q.output # None => q.output.time = None /\ q.input # None
  BY <1>2, <1>3, OutputLemma
<1>5. construct_pipelines(p, launches) = q
  BY DEF construct_pipelines, r, s
<1> HIDE DEF q
<1> QED BY <1>1, <1>2, <1>4, <1>5 DEF SameSettings

\* What stays of the two pipelines, and of the rest, when levels are set.
Untouched(p, q) ==
  /\ q.input = p.input /\ q.buffering = p.buffering /\ q.codec = p.codec
  /\ q.channel = p.channel /\ q.samplerate = p.samplerate
  /\ (q.output = None <=> p.output = None)
  /\ q.output # None => q.output.time = p.output.time

\* set_player_volume and set_external_volume
LEMMA LevelLemma ==
  ASSUME NEW p, Wellformed(p), NEW level \in Levels
  PROVE  LET q == update_volume([p EXCEPT !.levels.player = level])
             r == update_volume([p EXCEPT !.levels.external = level])
         IN  Wellformed(q) /\ Untouched(p, q) /\ Wellformed(r) /\ Untouched(p, r)
<1> DEFINE player == [p EXCEPT !.levels.player = level]
           external == [p EXCEPT !.levels.external = level]
<1>1. p \in Pipelines
  BY DEF Wellformed
<1>2. /\ player \in Pipelines /\ player.input = p.input /\ player.buffering = p.buffering
      /\ player.codec = p.codec /\ player.channel = p.channel
      /\ player.samplerate = p.samplerate /\ player.output = p.output
      /\ player.filter = p.filter
  BY <1>1 DEF Pipelines
<1>3. /\ external \in Pipelines /\ external.input = p.input
      /\ external.buffering = p.buffering
      /\ external.codec = p.codec /\ external.channel = p.channel
      /\ external.samplerate = p.samplerate /\ external.output = p.output
      /\ external.filter = p.filter
  BY <1>1 DEF Pipelines
<1> HIDE DEF player, external
<1>4. Wellformed(update_volume(player)) /\ Untouched(p, update_volume(player))
  BY <1>2, VolumeLemma DEF Wellformed, Applied, SameSettings, Untouched
<1>5. Wellformed(update_volume(external)) /\ Untouched(p, update_volume(external))
  BY <1>3, VolumeLemma DEF Wellformed, Applied, SameSettings, Untouched
<1> QED BY <1>4, <1>5 DEF player, external

\* Storing the settings of the filter and setting its elements.
LEMMA FilterLemma ==
  ASSUME NEW p, Wellformed(p), NEW filter \in Filters
  PROVE  LET q == set_filter(p, filter)
         IN  /\ Wellformed(q) /\ q.output = p.output /\ q.buffering = p.buffering
             /\ q.codec = p.codec /\ q.channel = p.channel /\ q.samplerate = p.samplerate
             /\ (q.input = None <=> p.input = None)
             /\ q.input # None => q.input.codec = p.input.codec
<1> DEFINE input == IF p.input = None THEN None ELSE [p.input EXCEPT !.filter = filter]
           q == [p EXCEPT !.filter = filter, !.input = input]
<1>1. p \in Pipelines
  BY DEF Wellformed
<1>2. /\ input \in Inputs \cup {None} /\ (input = None <=> p.input = None)
      /\ input # None => input.filter = filter /\ input.codec = p.input.codec
  BY <1>1, NoneValueAssumption DEF Pipelines, Inputs
<1>3. set_filter(p, filter) = q
  BY DEF set_filter
<1> HIDE DEF input
<1>4. /\ q \in Pipelines /\ q.input = input /\ q.filter = filter /\ q.output = p.output
      /\ q.buffering = p.buffering /\ q.codec = p.codec /\ q.channel = p.channel
      /\ q.samplerate = p.samplerate /\ q.levels = p.levels
  BY <1>1, <1>2 DEF Pipelines
<1> HIDE DEF q
<1> QED BY <1>2, <1>3, <1>4 DEF Wellformed, Applied

\* Giving the output its play time.
LEMMA TimeLemma ==
  ASSUME NEW p, Wellformed(p), NEW time \in Times
  PROVE  LET q == [p EXCEPT !.output = IF @ = None THEN None ELSE [@ EXCEPT !.time = time]]
         IN  /\ Wellformed(q) /\ q.input = p.input /\ q.buffering = p.buffering
             /\ q.codec = p.codec /\ (q.output = None <=> p.output = None)
             /\ q.output # None => q.output.time = time
<1> DEFINE output == IF p.output = None THEN None ELSE [p.output EXCEPT !.time = time]
           q == [p EXCEPT !.output = output]
<1>1. p \in Pipelines
  BY DEF Wellformed
<1>2. /\ output \in Outputs \cup {None} /\ (output = None <=> p.output = None)
      /\ output # None => output.volume = p.output.volume /\ output.time = time
  <2>1. p.output \in Outputs \cup {None} /\ None \notin Outputs
    BY <1>1, NoneValueAssumption DEF Pipelines
  <2>2. ASSUME NEW o \in Outputs
        PROVE  LET r == [o EXCEPT !.time = time]
               IN  r \in Outputs /\ r.volume = o.volume /\ r.time = time
    BY DEF Outputs
  <2> QED BY <2>1, <2>2
<1> HIDE DEF output
<1>3. /\ q \in Pipelines /\ q.input = p.input /\ q.filter = p.filter /\ q.output = output
      /\ q.buffering = p.buffering /\ q.codec = p.codec /\ q.channel = p.channel
      /\ q.levels = p.levels
  BY <1>1, <1>2 DEF Pipelines
<1>4. Wellformed(q) /\ q.input = p.input /\ q.buffering = p.buffering
      /\ q.codec = p.codec /\ q.output = output
  BY <1>2, <1>3 DEF Wellformed, Applied
<1> QED BY <1>2, <1>4 DEF output

\* Taking a block of audio.
LEMMA FeedLemma ==
  ASSUME NEW p, Wellformed(p)
  PROVE  LET q == [p EXCEPT !.buffering = IF @ > 0 THEN @ - 1 ELSE 0]
         IN  /\ Wellformed(q) /\ q.input = p.input /\ q.output = p.output
             /\ q.codec = p.codec
             /\ q.buffering = IF p.buffering > 0 THEN p.buffering - 1 ELSE 0
<1> DEFINE left == IF p.buffering > 0 THEN p.buffering - 1 ELSE 0
           q == [p EXCEPT !.buffering = left]
<1>0. p \in Pipelines
  BY DEF Wellformed
<1>1. left \in 0..Full
  <2>1. p.buffering \in 0..Full
    BY <1>0 DEF Pipelines
  <2> QED BY <2>1, FullAssumption
<1> HIDE DEF left
<1>2. /\ q \in Pipelines /\ q.input = p.input /\ q.filter = p.filter
      /\ q.output = p.output /\ q.buffering = left /\ q.codec = p.codec
      /\ q.channel = p.channel /\ q.levels = p.levels
  BY <1>0, <1>1 DEF Pipelines
<1>3. Wellformed(q)
  BY <1>2 DEF Wellformed, Applied
<1> QED BY <1>2, <1>3 DEF left

-----------------------------------------------------------------------------
(* The invariant                                                           *)

\* Besides what is to be shown: without a connection there are no pipelines, so
\* that the channel is set before either is built.
Inv ==
  /\ Wellformed(pipeline)
  /\ playing \in BOOLEAN \cup {None} /\ amp \in BOOLEAN
  /\ reader \in {"none", "reads", "dead"} /\ reports \in {0, 1}
  /\ reader = "none" => pipeline.input = None /\ pipeline.output = None
  /\ BufferedOnce

LEMMA InvInit == Init => Inv
<1> SUFFICES ASSUME Init PROVE Inv
  OBVIOUS
<1>1. PICK level \in Levels, filter \in Filters :
        pipeline = [codec |-> 0, samplerate |-> None, source_gain |-> Gain[0],
                    levels |-> [player |-> level, external |-> level],
                    volume |-> None, filter |-> filter, channel |-> "none",
                    buffering |-> Full, input |-> None, output |-> None]
  BY DEF Init
<1>2. Gain[0] \in Nat /\ 0 \in Codecs /\ Full \in 0..Full
  BY GainAssumption, CodecsAssumption, FullAssumption
<1>3. pipeline \in Pipelines
  BY <1>1, <1>2 DEF Pipelines, Channels
<1>4. pipeline.input = None /\ pipeline.output = None
  BY <1>1
<1> QED BY <1>3, <1>4 DEF Init, Inv, Wellformed, Applied, BufferedOnce

\* A handler that changes no pipeline but for what is set in it.
LEMMA InvSettings ==
  ASSUME Inv, reading, Wellformed(pipeline'), reader' = reader, reports' = reports,
         playing' \in BOOLEAN \cup {None}, amp' \in BOOLEAN,
         pipeline'.input # None => pipeline.input # None,
         pipeline'.buffering = pipeline.buffering
  PROVE  Inv'
BY DEF Inv, reading, BufferedOnce

LEMMA InvConnect ==
  ASSUME Inv, Connect
  PROVE  Inv'
<1>1. CASE Unconfigured
  BY <1>1 DEF Inv, Unconfigured, BufferedOnce
<1>2. ASSUME NEW channel \in {"single", "stereo"}, NEW level \in Levels,
             NEW filter \in Filters, NEW enabled \in BOOLEAN,
             Configure(channel, level, filter, enabled)
      PROVE  Inv'
  <2> DEFINE p == [pipeline EXCEPT !.channel = channel]
             q == set_external(p, level)
  <2>1. pipeline \in Pipelines /\ pipeline.input = None /\ pipeline.output = None
    BY <1>2 DEF Inv, Wellformed, Configure
  <2>2. p \in Pipelines /\ p.input = None /\ p.output = None
    BY <2>1 DEF Pipelines, Channels
  <2>3. Wellformed(p)
    BY <2>2 DEF Wellformed, Applied
  <2> HIDE DEF p
  <2>4. Wellformed(q) /\ q.input = None /\ q.output = None
    BY <2>2, <2>3, LevelLemma DEF set_external, Untouched
  <2>5. pipeline' = set_filter(q, filter)
    BY <1>2 DEF Configure, p
  <2> HIDE DEF q
  <2>6. Wellformed(pipeline') /\ pipeline'.input = None /\ pipeline'.output = None
    BY <2>4, <2>5, FilterLemma
  <2> QED BY <1>2, <2>6 DEF Inv, Configure, BufferedOnce
<1> QED BY <1>1, <1>2 DEF Connect

LEMMA InvRuntime ==
  ASSUME Inv, Runtime
  PROVE  Inv'
<1> USE DEF Inv
<1>1. pipeline \in Pipelines
  BY DEF Wellformed
<1>2. CASE Buffering
  BY <1>2, InvSettings DEF Buffering, reading
<1>3. CASE Stopping
  <2>1. Wellformed(pipeline') /\ pipeline'.input = None /\ pipeline'.output = None
    BY <1>1, <1>3, StopLemma DEF Stopping
  <2> QED BY <1>3, <2>1 DEF Stopping, BufferedOnce
<1>4. ASSUME NEW time \in Times, Playing(time)
      PROVE  Inv'
  <2>1. /\ Wellformed(pipeline') /\ pipeline'.input = pipeline.input
        /\ pipeline'.buffering = pipeline.buffering
    BY <1>4, TimeLemma DEF Playing
  <2> QED BY <1>4, <2>1, InvSettings DEF Playing, reading
<1> QED BY <1>2, <1>3, <1>4 DEF Runtime

LEMMA InvMessage ==
  ASSUME Inv, Message
  PROVE  Inv'
<1> USE DEF Inv
<1>1. pipeline \in Pipelines
  BY DEF Wellformed
<1>2. ASSUME NEW codec \in Codecs, SetCodec(codec)
      PROVE  Inv'
  <2>1. /\ pipeline' \in Pipelines /\ pipeline'.input = pipeline.input
        /\ pipeline'.output = pipeline.output /\ pipeline'.buffering = pipeline.buffering
        /\ pipeline'.filter = pipeline.filter /\ pipeline'.levels = pipeline.levels
        /\ pipeline'.channel = pipeline.channel
    BY <1>1, <1>2 DEF SetCodec, Pipelines
  <2>2. Wellformed(pipeline')
    BY <2>1 DEF Wellformed, Applied
  <2> QED BY <1>2, <2>1, <2>2, InvSettings DEF SetCodec
<1>3. ASSUME NEW rate \in Rates, SetSamplerate(rate)
      PROVE  Inv'
  <2> DEFINE p == [pipeline EXCEPT !.samplerate = rate]
  <2>1. p \in Pipelines
    BY <1>1 DEF Pipelines
  <2>2. PICK launches \in Launches(p) : pipeline' = construct_pipelines(p, launches)
    BY <1>3 DEF SetSamplerate
  <2> HIDE DEF p
  <2>3. /\ Wellformed(pipeline')
        /\ pipeline'.input # None => pipeline'.buffering = Full
    BY <2>1, <2>2, ConstructLemma
  <2> QED BY <1>3, <2>3, FullAssumption DEF SetSamplerate, BufferedOnce, reading
<1>4. ASSUME NEW level \in Levels, SetVolume(level) \/ SetLevel(level)
      PROVE  Inv'
  <2>1. /\ Wellformed(pipeline') /\ pipeline'.input = pipeline.input
        /\ pipeline'.buffering = pipeline.buffering
    BY <1>4, LevelLemma DEF SetVolume, SetLevel, set_external, Untouched
  <2> QED BY <1>4, <2>1, InvSettings DEF SetVolume, SetLevel
<1>5. ASSUME NEW filter \in Filters, SetFilter(filter)
      PROVE  Inv'
  <2>1. /\ Wellformed(pipeline') /\ (pipeline'.input = None <=> pipeline.input = None)
        /\ pipeline'.buffering = pipeline.buffering
    BY <1>5, FilterLemma DEF SetFilter
  <2> QED BY <1>5, <2>1, InvSettings DEF SetFilter
<1>6. ASSUME NEW enabled \in BOOLEAN, SetPlaying(enabled)
      PROVE  Inv'
  <2>1. CASE enabled
    BY <1>6, <2>1, InvSettings DEF SetPlaying
  <2>2. CASE ~enabled
    <3>1. /\ Wellformed(pipeline') /\ pipeline'.input = None
          /\ pipeline'.buffering = pipeline.buffering
      BY <1>1, <1>6, <2>2, StopLemma DEF SetPlaying
    <3> QED BY <1>6, <3>1, InvSettings DEF SetPlaying
  <2> QED BY <2>1, <2>2
<1> QED BY <1>2, <1>3, <1>4, <1>5, <1>6 DEF Message

\* A block of audio that is counted.
LEMMA InvFed ==
  ASSUME NEW p, Wellformed(p), p.input # None, NEW before \in {0, 1},
         before = 1 <=> p.buffering = 0, Fed(p, before)
  PROVE  /\ Wellformed(pipeline') /\ reports' \in {0, 1} /\ BufferedOnce'
         /\ pipeline'.input = p.input /\ pipeline'.output = p.output
         /\ pipeline'.codec = p.codec
         /\ pipeline'.buffering = IF p.buffering > 0 THEN p.buffering - 1 ELSE 0
<1>1. p.buffering \in 0..Full
  BY DEF Wellformed, Pipelines
<1>2. /\ Wellformed(pipeline') /\ pipeline'.input = p.input
      /\ pipeline'.output = p.output /\ pipeline'.codec = p.codec
      /\ pipeline'.buffering = IF p.buffering > 0 THEN p.buffering - 1 ELSE 0
  BY FeedLemma DEF Fed
<1>3. reports' = before + (IF p.buffering = 1 THEN 1 ELSE 0)
  BY DEF Fed
<1>4. reports' \in {0, 1} /\ (reports' = 1 <=> pipeline'.buffering = 0)
  BY <1>1, <1>2, <1>3, FullAssumption
<1> QED BY <1>2, <1>4 DEF BufferedOnce

\* What new_audio does: feed what is there, or build it and feed it, or raise.
LEMMA AudioLemma ==
  ASSUME Inv, NewAudio
  PROVE  \/ pipeline.input # None /\ Fed(pipeline, reports)
         \/ /\ pipeline.input = None
            /\ \E p : /\ Wellformed(p) /\ SameSettings(pipeline, p) /\ p.input # None
                      /\ p.input.codec = p.codec /\ p.buffering = Full
                      /\ p.output # None /\ p.output.time = None /\ Fed(p, 0)
         \/ /\ pipeline.input = None /\ Wellformed(pipeline') /\ pipeline'.output = None
            /\ pipeline'.input # None => pipeline'.buffering = Full
            /\ pipeline.channel = "single" => pipeline'.input # None
            /\ reader' = "dead" /\ reports' = 0
<1>1. CASE pipeline.input # None
  BY <1>1 DEF NewAudio
<1>2. CASE pipeline.input = None
  <2>1. PICK launches \in Launches(pipeline) :
          LET built == construct_pipelines(pipeline, launches)
          IN  IF built.output # None THEN Fed(built, 0)
              ELSE pipeline' = built /\ reader' = "dead" /\ reports' = 0
    BY <1>2 DEF NewAudio
  <2> DEFINE built == construct_pipelines(pipeline, launches)
  <2>2. /\ Wellformed(built) /\ SameSettings(pipeline, built)
        /\ built.output # None => built.output.time = None /\ built.input # None
        /\ built.input # None => built.input.codec = built.codec /\ built.buffering = Full
        /\ pipeline.channel = "single" => built.input # None
    BY ConstructLemma DEF Inv, Wellformed
  <2> HIDE DEF built
  <2>3. CASE built.output # None
    BY <1>2, <2>1, <2>2, <2>3 DEF built
  <2>4. CASE built.output = None
    BY <1>2, <2>1, <2>2, <2>4 DEF built
  <2> QED BY <2>3, <2>4
<1> QED BY <1>1, <1>2

LEMMA InvAudio ==
  ASSUME Inv, NewAudio \/ Lost
  PROVE  Inv'
<1>1. CASE Lost
  <2>1. Wellformed(pipeline') /\ pipeline'.input = None /\ pipeline'.output = None
    BY <1>1, StopLemma DEF Lost, Inv, Wellformed
  <2> QED BY <1>1, <2>1 DEF Inv, Lost, BufferedOnce
<1>2. ASSUME NewAudio, pipeline.input # None, Fed(pipeline, reports)
      PROVE  Inv'
  <2>1. Wellformed(pipeline') /\ reports' \in {0, 1} /\ BufferedOnce'
    BY <1>2, InvFed DEF Inv, BufferedOnce
  <2> QED BY <1>2, <2>1 DEF Inv, NewAudio, Fed, reading
<1>3. ASSUME NewAudio, NEW p, Wellformed(p), p.input # None, p.buffering = Full, Fed(p, 0)
      PROVE  Inv'
  <2>1. Wellformed(pipeline') /\ reports' \in {0, 1} /\ BufferedOnce'
    BY <1>3, InvFed, FullAssumption
  <2> QED BY <1>3, <2>1 DEF Inv, NewAudio, Fed, reading
<1>4. ASSUME NewAudio, Wellformed(pipeline'), reader' = "dead", reports' = 0,
             pipeline'.input # None => pipeline'.buffering = Full
      PROVE  Inv'
  BY <1>4, FullAssumption DEF Inv, NewAudio, BufferedOnce
<1> QED BY <1>1, <1>2, <1>3, <1>4, AudioLemma

THEOREM Invariance == Spec => []Inv
<1>1. Inv /\ [Next]_vars => Inv'
  <2>1. ASSUME Inv, UNCHANGED vars
        PROVE  Inv'
    BY <2>1 DEF Inv, vars, BufferedOnce
  <2> QED BY <2>1, InvConnect, InvRuntime, InvMessage, InvAudio DEF Next
<1> QED BY <1>1, InvInit, PTL DEF Spec

\* Every variable keeps its type.
THEOREM TypeCorrect == Spec => []TypeOK
<1>1. Inv => TypeOK
  BY DEF Inv, TypeOK, Wellformed
<1> QED BY <1>1, Invariance, PTL

\* What runs has the levels and the filter that are stored: for any settings, and
\* wherever building the pipelines raises.
THEOREM SettingsAreApplied == Spec => []SettingsApplied
<1>1. Inv => SettingsApplied
  BY DEF Inv, SettingsApplied, Wellformed, Applied
<1> QED BY <1>1, Invariance, PTL

\* Each pipeline reports `buffered' exactly once, for any length of the buffer.
THEOREM ReportsOnce == Spec => []BufferedOnce
<1>1. Inv => BufferedOnce
  BY DEF Inv
<1> QED BY <1>1, Invariance, PTL

-----------------------------------------------------------------------------
(* The promise of PlayingClient                                            *)

\* The clients of PlayingClient.
Clients ==
  [link : BOOLEAN, param : BOOLEAN \cup {None}, codec : Nat, decodes : Nat,
   pipe : Nat \cup {None}, time : Nat \cup {None}, amp : BOOLEAN]

\* Two clients that agree in everything are the same.
LEMMA SameClient ==
  ASSUME NEW c \in Clients, NEW d \in Clients,
         c.link = d.link, c.param = d.param, c.codec = d.codec, c.decodes = d.decodes,
         c.pipe = d.pipe, c.time = d.time, c.amp = d.amp
  PROVE  c = d
BY DEF Clients

\* Pipeline.stop and construct_pipelines, as the server's model has them.
LEMMA BuildLemma ==
  ASSUME NEW c \in Clients
  PROVE  /\ Stopped(c) \in Clients /\ Constructed(c) \in Clients
         /\ Stopped(c).link = c.link /\ Stopped(c).param = c.param
         /\ Stopped(c).codec = c.codec /\ Stopped(c).amp = c.amp
         /\ Stopped(c).decodes = 0 /\ Stopped(c).pipe = None /\ Stopped(c).time = None
         /\ Constructed(c).link = c.link /\ Constructed(c).param = c.param
         /\ Constructed(c).codec = c.codec /\ Constructed(c).amp = c.amp
         /\ Constructed(c).decodes = c.codec /\ Constructed(c).pipe = 0
         /\ Constructed(c).time = None
BY DEF Stopped, Constructed, Clients

\* Pipeline.new_audio, as the server's model has it.
LEMMA FeedClientLemma ==
  ASSUME NEW c \in Clients, c.pipe # None => c.pipe \in 0..Full
  PROVE  /\ Feed(c) \in Clients
         /\ Feed(c).link = c.link /\ Feed(c).param = c.param
         /\ Feed(c).codec = c.codec /\ Feed(c).amp = c.amp
         /\ c.pipe = None => /\ Feed(c).decodes = c.codec /\ Feed(c).pipe = 1
                            /\ Feed(c).time = None
         /\ c.pipe # None => /\ Feed(c).decodes = c.decodes /\ Feed(c).time = c.time
                            /\ Feed(c).pipe = IF c.pipe < Full THEN c.pipe + 1 ELSE Full
<1> DEFINE fed == IF c.pipe = None THEN Constructed(c) ELSE c
           filled == Filled(fed)
           f == [fed EXCEPT !.pipe = filled]
<1>1. /\ fed \in Clients /\ fed.link = c.link /\ fed.param = c.param
      /\ fed.codec = c.codec /\ fed.amp = c.amp
      /\ c.pipe = None => fed.decodes = c.codec /\ fed.pipe = 0 /\ fed.time = None
      /\ c.pipe # None => fed = c
  BY BuildLemma
<1> HIDE DEF fed
<1>2. fed.pipe \in 0..Full
  BY <1>1, FullAssumption
<1>3. filled \in Nat /\ filled = IF fed.pipe < Full THEN fed.pipe + 1 ELSE Full
  BY <1>2, FullAssumption DEF Filled
<1>4. c.pipe = None => filled = 1
  BY <1>1, <1>3, FullAssumption
<1> HIDE DEF filled
<1>5. /\ f \in Clients /\ f.link = fed.link /\ f.param = fed.param
      /\ f.codec = fed.codec /\ f.amp = fed.amp /\ f.decodes = fed.decodes
      /\ f.time = fed.time /\ f.pipe = filled
  BY <1>1, <1>3 DEF Clients
<1>6. Feed(c) = f
  BY DEF Feed, fed, filled
<1> HIDE DEF f
<1> QED BY <1>1, <1>3, <1>4, <1>5, <1>6

\* The client that the server sees, as a function of the variables.
View(p, heard, a, thread) ==
  [link |-> thread # "none", param |-> heard, codec |-> p.codec,
   decodes |-> IF p.input = None THEN 0 ELSE p.input.codec,
   pipe |-> IF p.input = None THEN None ELSE Full - p.buffering,
   time |-> IF p.output = None THEN None ELSE p.output.time,
   amp |-> a]

LEMMA ViewLemma ==
  ASSUME NEW p, Wellformed(p), NEW heard \in BOOLEAN \cup {None}, NEW a \in BOOLEAN,
         NEW thread
  PROVE  LET c == View(p, heard, a, thread)
         IN  /\ c \in Clients
             /\ c.link = (thread # "none") /\ c.param = heard
             /\ c.codec = p.codec /\ c.amp = a
             /\ p.input = None => c.decodes = 0 /\ c.pipe = None
             /\ p.input # None => /\ c.decodes = p.input.codec
                                 /\ c.pipe = Full - p.buffering
                                 /\ c.pipe # None /\ c.pipe \in 0..Full
             /\ p.output = None => c.time = None
             /\ p.output # None => c.time = p.output.time
<1> DEFINE decodes == IF p.input = None THEN 0 ELSE p.input.codec
           pipe == IF p.input = None THEN None ELSE Full - p.buffering
           at == IF p.output = None THEN None ELSE p.output.time
           link == thread # "none"
<1>1. p \in Pipelines
  BY DEF Wellformed
<1>2. p.codec \in Nat /\ decodes \in Nat
  BY <1>1, CodecsAssumption DEF Pipelines, Inputs
<1>3. p.buffering \in 0..Full
  BY <1>1 DEF Pipelines
<1>4. p.input # None => pipe \in 0..Full /\ pipe # None
  BY <1>3, FullAssumption, NoneNumberAssumption
<1>5. pipe \in Nat \cup {None}
  BY <1>4
<1>6. at \in Nat \cup {None}
  BY <1>1, TimesAssumption DEF Pipelines, Outputs
<1>7. link \in BOOLEAN
  OBVIOUS
<1>8. View(p, heard, a, thread)
        = [link |-> link, param |-> heard, codec |-> p.codec,
           decodes |-> decodes, pipe |-> pipe, time |-> at, amp |-> a]
  BY DEF View
<1> HIDE DEF decodes, pipe, at, link
<1>9. View(p, heard, a, thread) \in Clients
  BY <1>2, <1>5, <1>6, <1>7, <1>8 DEF Clients
<1> QED BY <1>4, <1>8, <1>9 DEF decodes, pipe, at, link

LEMMA Views ==
  /\ Abstract = View(pipeline, playing, amp, reader)
  /\ Abstract' = View(pipeline', playing', amp', reader')
BY DEF Abstract, View

\* The views before and after a step, and what a lemma about a packet starts from.
LEMMA BothViews ==
  ASSUME Inv, Inv'
  PROVE  /\ Wellformed(pipeline) /\ Wellformed(pipeline')
         /\ pipeline \in Pipelines /\ pipeline' \in Pipelines
         /\ playing \in BOOLEAN \cup {None} /\ playing' \in BOOLEAN \cup {None}
         /\ amp \in BOOLEAN /\ amp' \in BOOLEAN
BY DEF Inv, Wellformed

LEMMA PromiseOfCodec ==
  ASSUME Inv, Inv', NEW codec \in Codecs, NEW time, SetCodec(codec)
  PROVE  Abstract' = React(Abstract, "setcodec", codec, time)
<1> DEFINE c == View(pipeline, playing, amp, reader)
           d == View(pipeline', playing', amp', reader')
           e == [c EXCEPT !.codec = codec]
<1>1. pipeline \in Pipelines /\ codec \in Nat
  BY CodecsAssumption DEF Inv, Wellformed
<1>2. /\ pipeline'.codec = codec /\ pipeline'.input = pipeline.input
      /\ pipeline'.output = pipeline.output /\ pipeline'.buffering = pipeline.buffering
  BY <1>1 DEF SetCodec, Pipelines
<1>3. playing' = playing /\ amp' = amp /\ reader' = reader
  BY DEF SetCodec
<1>4. d = [link |-> reader # "none", param |-> playing, codec |-> codec,
           decodes |-> IF pipeline.input = None THEN 0 ELSE pipeline.input.codec,
           pipe |-> IF pipeline.input = None THEN None ELSE Full - pipeline.buffering,
           time |-> IF pipeline.output = None THEN None ELSE pipeline.output.time,
           amp |-> amp]
  BY <1>2, <1>3 DEF View
<1>5. e = d
  BY <1>4 DEF View
<1> QED BY <1>5, Views DEF React

LEMMA PromiseOfSamplerate ==
  ASSUME Inv, Inv', NEW rate \in Rates, SetSamplerate(rate), NEW codec, NEW time,
         pipeline.channel = "single", Whole(pipeline')
  PROVE  Abstract' = React(Abstract, "setsamplerate", codec, time)
<1> DEFINE c == View(pipeline, playing, amp, reader)
           d == View(pipeline', playing', amp', reader')
           p == [pipeline EXCEPT !.samplerate = rate]
<1>1. p \in Pipelines /\ p.codec = pipeline.codec /\ p.channel = "single"
  BY BothViews DEF Pipelines
<1>2. PICK launches \in Launches(p) : pipeline' = construct_pipelines(p, launches)
  BY DEF SetSamplerate
<1> HIDE DEF p
<1>3. /\ pipeline'.input # None /\ pipeline'.buffering = Full
      /\ pipeline'.codec = pipeline.codec /\ pipeline'.input.codec = pipeline.codec
  BY <1>1, <1>2, ConstructLemma DEF SameSettings
<1>4. pipeline'.output # None /\ pipeline'.output.time = None
  BY <1>1, <1>2, <1>3, ConstructLemma DEF Whole
<1>5. playing' = playing /\ amp' = amp /\ reader' = reader
  BY DEF SetSamplerate
<1>6. c \in Clients /\ d \in Clients
  BY BothViews, ViewLemma
<1>7. /\ c.link = (reader # "none") /\ c.param = playing /\ c.codec = pipeline.codec
      /\ c.amp = amp
  BY BothViews, ViewLemma
<1>8. /\ d.link = (reader' # "none") /\ d.param = playing' /\ d.codec = pipeline'.codec
      /\ d.amp = amp' /\ d.decodes = pipeline'.input.codec
      /\ d.pipe = Full - pipeline'.buffering /\ d.time = pipeline'.output.time
  BY <1>3, <1>4, BothViews, ViewLemma
<1>9. d.pipe = 0
  BY <1>3, <1>8, FullAssumption
<1> HIDE DEF c, d
<1>10. d = Constructed(c)
  BY <1>3, <1>4, <1>5, <1>6, <1>7, <1>8, <1>9, BuildLemma, SameClient
<1> QED BY <1>10, Views DEF React, c, d

\* A pipeline that is stopped, with whatever the handler does besides.
LEMMA StoppedView ==
  ASSUME Inv, Inv', pipeline' = stop(pipeline), reader' = reader
  PROVE  LET c == View(pipeline, playing, amp, reader)
             d == View(pipeline', playing', amp', reader')
         IN  d = [Stopped(c) EXCEPT !.param = playing', !.amp = amp']
<1> DEFINE c == View(pipeline, playing, amp, reader)
           d == View(pipeline', playing', amp', reader')
           s == Stopped(c)
           param == playing'
           amplifier == amp'
           e == [s EXCEPT !.param = param, !.amp = amplifier]
<1>1. /\ pipeline'.input = None /\ pipeline'.output = None
      /\ pipeline'.codec = pipeline.codec
  BY BothViews, StopLemma DEF SameSettings
<1>2. /\ c \in Clients /\ c.link = (reader # "none") /\ c.codec = pipeline.codec
      /\ d \in Clients /\ d.link = (reader' # "none") /\ d.param = param
      /\ d.codec = pipeline'.codec /\ d.amp = amplifier
      /\ d.decodes = 0 /\ d.pipe = None /\ d.time = None
  BY <1>1, BothViews, ViewLemma
<1>3. param \in BOOLEAN \cup {None} /\ amplifier \in BOOLEAN
  BY BothViews
<1> HIDE DEF c, d, param, amplifier
<1>4. /\ s \in Clients /\ s.link = c.link /\ s.codec = c.codec
      /\ s.decodes = 0 /\ s.pipe = None /\ s.time = None
  BY <1>2, BuildLemma
<1> HIDE DEF s
<1>5. /\ e \in Clients /\ e.link = s.link /\ e.codec = s.codec /\ e.decodes = s.decodes
      /\ e.pipe = s.pipe /\ e.time = s.time /\ e.param = param /\ e.amp = amplifier
  BY <1>3, <1>4 DEF Clients
<1> HIDE DEF e
<1>6. d = e
  BY <1>1, <1>2, <1>4, <1>5, SameClient
<1> QED BY <1>6 DEF c, d, e, s, param, amplifier

LEMMA PromiseOfStopping ==
  ASSUME Inv, Inv', Stopping, NEW codec, NEW time
  PROVE  Abstract' = React(Abstract, "stopping", codec, time)
<1> DEFINE c == View(pipeline, playing, amp, reader)
           d == View(pipeline', playing', amp', reader')
           s == Stopped(c)
<1>1. pipeline' = stop(pipeline) /\ reader' = reader /\ playing' = playing /\ amp' = FALSE
  BY DEF Stopping
<1>2. d = [s EXCEPT !.param = playing', !.amp = amp']
  BY <1>1, StoppedView
<1>3. c \in Clients /\ c.param = playing
  BY BothViews, ViewLemma
<1> HIDE DEF c, d
<1>4. s \in Clients /\ s.param = playing
  BY <1>3, BuildLemma
<1> HIDE DEF s
<1>5. [s EXCEPT !.param = playing, !.amp = FALSE] = [s EXCEPT !.amp = FALSE]
  BY <1>4 DEF Clients
<1>6. React(c, "stopping", codec, time) = [s EXCEPT !.amp = FALSE]
  BY DEF React, s
<1> QED BY <1>1, <1>2, <1>5, <1>6, Views DEF c, d

\* A handler that leaves the pipelines as they are, but for the parameter and the
\* amplifier.
LEMMA SameView ==
  ASSUME Inv, Inv', pipeline' = pipeline, reader' = reader
  PROVE  LET c == View(pipeline, playing, amp, reader)
             d == View(pipeline', playing', amp', reader')
         IN  d = [c EXCEPT !.param = playing', !.amp = amp']
<1> DEFINE c == View(pipeline, playing, amp, reader)
           d == View(pipeline', playing', amp', reader')
           param == playing'
           amplifier == amp'
           e == [c EXCEPT !.param = param, !.amp = amplifier]
<1>1. /\ c \in Clients /\ d \in Clients
      /\ d.param = param /\ d.amp = amplifier
      /\ c.link = d.link /\ c.codec = d.codec
  BY BothViews, ViewLemma
<1>2. c.decodes = d.decodes /\ c.pipe = d.pipe /\ c.time = d.time
  BY DEF View
<1>3. param \in BOOLEAN \cup {None} /\ amplifier \in BOOLEAN
  BY BothViews
<1> HIDE DEF c, d, param, amplifier
<1>4. /\ e \in Clients /\ e.link = c.link /\ e.codec = c.codec /\ e.decodes = c.decodes
      /\ e.pipe = c.pipe /\ e.time = c.time /\ e.param = param /\ e.amp = amplifier
  BY <1>1, <1>3 DEF Clients
<1> HIDE DEF e
<1>5. d = e
  BY <1>1, <1>2, <1>4, SameClient
<1> QED BY <1>5 DEF c, d, e, param, amplifier

LEMMA PromiseOfBuffering ==
  ASSUME Inv, Inv', Buffering, NEW codec, NEW time
  PROVE  Abstract' = React(Abstract, "buffering", codec, time)
<1> DEFINE c == View(pipeline, playing, amp, reader)
           d == View(pipeline', playing', amp', reader')
<1>1. pipeline' = pipeline /\ reader' = reader /\ playing' = playing /\ amp' = TRUE
  BY DEF Buffering
<1>2. d = [c EXCEPT !.param = playing', !.amp = amp']
  BY <1>1, SameView
<1>3. c \in Clients /\ c.param = playing
  BY BothViews, ViewLemma
<1> HIDE DEF c, d
<1>4. [c EXCEPT !.param = playing, !.amp = TRUE] = [c EXCEPT !.amp = TRUE]
  BY <1>3 DEF Clients
<1>5. React(c, "buffering", codec, time) = [c EXCEPT !.amp = TRUE]
  BY DEF React
<1> QED BY <1>1, <1>2, <1>4, <1>5, Views DEF c, d

LEMMA PromiseOfParameter ==
  ASSUME Inv, Inv', NEW enabled \in BOOLEAN, SetPlaying(enabled), NEW codec, NEW time
  PROVE  Abstract' = React(Abstract, IF enabled THEN "enable" ELSE "disable", codec, time)
<1> DEFINE c == View(pipeline, playing, amp, reader)
           d == View(pipeline', playing', amp', reader')
           s == Stopped(c)
<1>1. c \in Clients /\ c.amp = amp
  BY BothViews, ViewLemma
<1>2. reader' = reader /\ playing' = enabled /\ amp' = amp
  BY DEF SetPlaying
<1>3. CASE enabled
  <2>1. d = [c EXCEPT !.param = playing', !.amp = amp']
    BY <1>2, <1>3, SameView DEF SetPlaying
  <2> HIDE DEF c, d
  <2>2. [c EXCEPT !.param = TRUE, !.amp = amp] = [c EXCEPT !.param = TRUE]
    BY <1>1 DEF Clients
  <2>3. React(c, "enable", codec, time) = [c EXCEPT !.param = TRUE]
    BY DEF React
  <2> QED BY <1>2, <1>3, <2>1, <2>2, <2>3, Views DEF c, d
<1>4. CASE ~enabled
  <2>1. d = [s EXCEPT !.param = playing', !.amp = amp']
    BY <1>2, <1>4, StoppedView DEF SetPlaying
  <2> HIDE DEF c, d
  <2>2. s \in Clients /\ s.amp = amp
    BY <1>1, BuildLemma
  <2> HIDE DEF s
  <2>3. [s EXCEPT !.param = FALSE, !.amp = amp] = [s EXCEPT !.param = FALSE]
    BY <2>2 DEF Clients
  <2>4. React(c, "disable", codec, time) = [s EXCEPT !.param = FALSE]
    BY DEF React, s
  <2> QED BY <1>2, <1>4, <2>1, <2>3, <2>4, Views DEF c, d
<1> QED BY <1>3, <1>4

LEMMA PromiseOfPlaying ==
  ASSUME Inv, Inv', NEW time \in Times, Playing(time), NEW codec, Whole(pipeline)
  PROVE  Abstract' = React(Abstract, "playing", codec, time)
<1> DEFINE c == View(pipeline, playing, amp, reader)
           d == View(pipeline', playing', amp', reader')
           e == [c EXCEPT !.time = time]
<1>1. playing' = playing /\ amp' = amp /\ reader' = reader
  BY DEF Playing
<1>2. /\ pipeline'.input = pipeline.input /\ pipeline'.buffering = pipeline.buffering
      /\ pipeline'.codec = pipeline.codec
      /\ (pipeline'.output = None <=> pipeline.output = None)
      /\ pipeline'.output # None => pipeline'.output.time = time
  BY BothViews, TimeLemma DEF Playing
<1>3. /\ c \in Clients /\ d \in Clients /\ c.link = d.link /\ c.param = d.param
      /\ c.codec = d.codec /\ c.amp = d.amp
  BY <1>1, <1>2, BothViews, ViewLemma
<1>4. c.decodes = d.decodes /\ c.pipe = d.pipe
  BY <1>2 DEF View
<1>5. c.pipe = None <=> pipeline.output = None
  BY BothViews, ViewLemma DEF Whole
<1>6. /\ c.pipe = None => d.time = None /\ c.time = None
      /\ c.pipe # None => d.time = time
  <2>1. /\ pipeline.output = None => c.time = None
        /\ pipeline'.output = None => d.time = None
        /\ pipeline'.output # None => d.time = pipeline'.output.time
    BY BothViews, ViewLemma
  <2> HIDE DEF c, d
  <2> QED BY <1>2, <1>5, <2>1
<1> HIDE DEF c, d
<1>7. time \in Nat
  BY TimesAssumption
<1>8. /\ e \in Clients /\ e.link = c.link /\ e.codec = c.codec /\ e.decodes = c.decodes
      /\ e.pipe = c.pipe /\ e.time = time /\ e.param = c.param /\ e.amp = c.amp
  BY <1>3, <1>7 DEF Clients
<1>9. React(c, "playing", codec, time) = IF c.pipe = None THEN c ELSE e
  BY DEF React
<1> HIDE DEF e
<1>10. CASE c.pipe = None
  BY <1>3, <1>4, <1>6, <1>9, <1>10, SameClient, Views DEF c, d
<1>11. CASE c.pipe # None
  <2>1. d = e
    BY <1>3, <1>4, <1>6, <1>8, <1>11, SameClient
  <2> QED BY <1>9, <1>11, <2>1, Views DEF c, d
<1> QED BY <1>10, <1>11

\* A block of audio that finds the pipelines, or has them built.
LEMMA PromiseOfFed ==
  ASSUME Inv, Inv', NewAudio, NEW p, Wellformed(p), NEW before,
         p.input # None, p.codec = pipeline.codec, Fed(p, before),
         \/ p = pipeline
         \/ /\ pipeline.input = None /\ p.input.codec = p.codec /\ p.buffering = Full
            /\ p.output # None /\ p.output.time = None,
         Whole(pipeline)
  PROVE  View(pipeline', playing', amp', reader') = Feed(View(pipeline, playing, amp, reader))
<1> DEFINE c == View(pipeline, playing, amp, reader)
           d == View(pipeline', playing', amp', reader')
           f == Feed(c)
<1>1. playing' = playing /\ amp' = amp /\ reader' = reader
  BY DEF NewAudio, Fed
<1>2. /\ pipeline'.input = p.input /\ pipeline'.output = p.output
      /\ pipeline'.codec = p.codec
      /\ pipeline'.buffering = IF p.buffering > 0 THEN p.buffering - 1 ELSE 0
  BY FeedLemma DEF Fed
<1>3. /\ c \in Clients /\ d \in Clients /\ c.link = d.link /\ c.param = d.param
      /\ c.codec = d.codec /\ c.amp = d.amp
      /\ c.pipe # None => c.pipe \in 0..Full
  BY <1>1, <1>2, BothViews, ViewLemma
<1>4. d.decodes = p.input.codec /\ d.pipe = Full - pipeline'.buffering
  <2>1. pipeline'.input # None =>
          d.decodes = pipeline'.input.codec /\ d.pipe = Full - pipeline'.buffering
    BY DEF View
  <2> QED BY <1>2, <2>1
<1>5. p.buffering \in 0..Full
  BY DEF Wellformed, Pipelines
<1>6. CASE p = pipeline
  <2>1. /\ c.pipe # None /\ c.pipe = Full - p.buffering /\ c.decodes = p.input.codec
        /\ c.time = d.time
    BY <1>2, <1>6, BothViews, ViewLemma DEF Whole
  <2>2. d.pipe = IF c.pipe < Full THEN c.pipe + 1 ELSE Full
    BY <1>2, <1>4, <1>5, <2>1, FullAssumption
  <2> HIDE DEF c, d
  <2>3. /\ f \in Clients /\ f.link = c.link /\ f.param = c.param /\ f.codec = c.codec
        /\ f.amp = c.amp /\ f.decodes = c.decodes /\ f.time = c.time
        /\ f.pipe = IF c.pipe < Full THEN c.pipe + 1 ELSE Full
    BY <1>3, <2>1, FeedClientLemma
  <2> HIDE DEF f
  <2>4. d = f
    BY <1>3, <1>4, <2>1, <2>2, <2>3, SameClient
  <2> QED BY <2>4 DEF c, d, f
<1>7. CASE /\ pipeline.input = None /\ p.input.codec = p.codec /\ p.buffering = Full
           /\ p.output # None /\ p.output.time = None
  <2>1. c.pipe = None /\ d.time = None /\ c.codec = p.codec
    BY <1>2, <1>7, BothViews, ViewLemma
  <2>2. d.pipe = 1
    BY <1>2, <1>4, <1>7, FullAssumption
  <2> HIDE DEF c, d
  <2>3. /\ f \in Clients /\ f.link = c.link /\ f.param = c.param /\ f.codec = c.codec
        /\ f.amp = c.amp /\ f.decodes = c.codec /\ f.time = None /\ f.pipe = 1
    BY <1>3, <2>1, FeedClientLemma
  <2> HIDE DEF f
  <2>4. d.decodes = f.decodes /\ d.time = f.time /\ d.pipe = f.pipe
    BY <1>4, <1>7, <2>1, <2>2, <2>3
  <2>5. d = f
    BY <1>3, <2>3, <2>4, SameClient
  <2> QED BY <2>5 DEF c, d, f
<1> QED BY <1>6, <1>7

LEMMA PromiseOfAudio ==
  ASSUME Inv, Inv', NewAudio, NEW codec, NEW time,
         pipeline.channel = "single", Whole(pipeline), Whole(pipeline')
  PROVE  Abstract' = React(Abstract, "audio", codec, time)
<1>1. React(Abstract, "audio", codec, time) = Feed(Abstract)
  BY DEF React
<1>2. CASE pipeline.input # None /\ Fed(pipeline, reports)
  <2>1. Wellformed(pipeline)
    BY BothViews
  <2> QED BY <1>1, <1>2, <2>1, PromiseOfFed, Views
<1>3. CASE /\ pipeline.input = None
           /\ \E p : /\ Wellformed(p) /\ SameSettings(pipeline, p) /\ p.input # None
                     /\ p.input.codec = p.codec /\ p.buffering = Full
                     /\ p.output # None /\ p.output.time = None /\ Fed(p, 0)
  BY <1>1, <1>3, PromiseOfFed, Views DEF SameSettings
<1>4. CASE /\ pipeline'.output = None
           /\ pipeline.channel = "single" => pipeline'.input # None
  BY <1>4 DEF Whole
<1> QED BY <1>2, <1>3, <1>4, AudioLemma

\* Levels and filters change nothing that the server depends on.
LEMMA PromiseOfSettings ==
  ASSUME Inv, Inv', NEW level \in Levels, NEW filter \in Filters,
         SetVolume(level) \/ SetLevel(level) \/ SetFilter(filter)
  PROVE  Abstract' = Abstract
<1>1. playing' = playing /\ amp' = amp /\ reader' = reader
  BY DEF SetVolume, SetLevel, SetFilter
<1>2. CASE SetVolume(level) \/ SetLevel(level)
  <2>1. Untouched(pipeline, pipeline')
    BY <1>2, BothViews, LevelLemma DEF SetVolume, SetLevel, set_external
  <2> QED BY <1>1, <2>1, Views DEF View, Untouched
<1>3. CASE SetFilter(filter)
  <2>1. /\ pipeline'.output = pipeline.output /\ pipeline'.buffering = pipeline.buffering
        /\ pipeline'.codec = pipeline.codec
        /\ (pipeline'.input = None <=> pipeline.input = None)
        /\ pipeline'.input # None => pipeline'.input.codec = pipeline.input.codec
    BY <1>3, BothViews, FilterLemma DEF SetFilter
  <2> QED BY <1>1, <2>1, Views DEF View
<1> QED BY <1>2, <1>3

\* The handler of each packet, for any codecs, rates, levels, filters and times.
LEMMA PromiseOfPackets ==
  ASSUME Inv, Inv', NEW packet \in Packets, NEW codec \in Codecs, NEW time \in Times,
         Handles(packet, codec, time),
         pipeline.channel = "single", Whole(pipeline), Whole(pipeline')
  PROVE  Abstract' = React(Abstract, packet, codec, time)
<1>1. CASE packet = "setcodec" /\ SetCodec(codec)
  BY <1>1, PromiseOfCodec
<1>2. CASE packet = "setsamplerate" /\ \E rate \in Rates : SetSamplerate(rate)
  BY <1>2, PromiseOfSamplerate
<1>3. CASE packet = "audio" /\ NewAudio
  BY <1>3, PromiseOfAudio
<1>4. CASE packet = "buffering" /\ Buffering
  BY <1>4, PromiseOfBuffering
<1>5. CASE packet = "stopping" /\ Stopping
  BY <1>5, PromiseOfStopping
<1>6. CASE packet = "playing" /\ Playing(time)
  BY <1>6, PromiseOfPlaying
<1>7. CASE packet = "enable" /\ SetPlaying(TRUE)
  BY <1>7, PromiseOfParameter
<1>8. CASE packet = "disable" /\ SetPlaying(FALSE)
  BY <1>8, PromiseOfParameter
<1> QED BY <1>1, <1>2, <1>3, <1>4, <1>5, <1>6, <1>7, <1>8 DEF Handles

\* The player makes of each packet what the server's model has its clients make of
\* it: the refinement of PlayingClient, for every value of the constants.
THEOREM KeepsThePromise == Spec => Implements
<1> DEFINE Kept ==
      pipeline.channel = "single" /\ Whole(pipeline) /\ Whole(pipeline') =>
        /\ \A packet \in Packets, codec \in Codecs, time \in Times :
             Handles(packet, codec, time) => Abstract' = React(Abstract, packet, codec, time)
        /\ \A level \in Levels, filter \in Filters :
             SetVolume(level) \/ SetLevel(level) \/ SetFilter(filter) => Abstract' = Abstract
<1>1. ASSUME Inv, Inv'
      PROVE  Kept
  BY <1>1, PromiseOfPackets, PromiseOfSettings
<1>2. Inv /\ Inv' => [Kept]_vars
  BY <1>1
<1> QED BY <1>2, Invariance, PTL DEF Implements

=============================================================================
