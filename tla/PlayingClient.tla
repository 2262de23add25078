---------------------------- MODULE PlayingClient ----------------------------
(***************************************************************************)
(* What a client promises to the server: what it makes of each packet, in  *)
(* terms of the one pipeline that plays.  PlaySequencer runs its server    *)
(* against clients of this kind; Player models the code that keeps the     *)
(* promise (src/src/client/player.py, pipeline.py) and is checked to.      *)
(***************************************************************************)
EXTENDS Integers

CONSTANTS
  None,
  Full     \* packets of audio that make a pipeline emit `buffered'

ASSUME FullAssumption == Full \in Nat \ {0}
ASSUME NoneNumberAssumption == None \notin Int

Packets == {"setcodec", "setsamplerate", "audio", "buffering", "stopping",
            "playing", "enable", "disable"}

\* A client without a connection and without a pipeline.  codec is what the last
\* setcodec named, decodes what its pipeline was built for, pipe the packets in
\* the pipeline, time the play time the pipeline was given, amp whether HwCtl was
\* told to play, and param the group's `playing' parameter as the client knows it.
Offline == [link |-> FALSE, param |-> None, codec |-> 0, decodes |-> 0,
            pipe |-> None, time |-> None, amp |-> FALSE]

\* Mutation of Stopped: the pipeline is left running.
LeftRunning(c) == c

\* Pipeline.stop
Stopped(c) == [c EXCEPT !.pipe = None, !.time = None, !.decodes = 0]

\* construct_pipelines: for the codec heard last, in place of any other
Constructed(c) == [Stopped(c) EXCEPT !.pipe = 0, !.decodes = c.codec]

\* Mutation of Filled: the buffer is still filling when it is full.
FilledPastFull(c) == IF c.pipe <= Full THEN c.pipe + 1 ELSE c.pipe

\* the packets in the pipeline once one more has come; the bytes beyond the
\* first 20000 are not counted
Filled(c) == IF c.pipe < Full THEN c.pipe + 1 ELSE Full

\* Pipeline.new_audio, which constructs a pipeline that is missing
Feed(c) == LET fed == IF c.pipe = None THEN Constructed(c) ELSE c
           IN  [fed EXCEPT !.pipe = Filled(fed)]

\* process_server_runtime_message, process_message and new_audio; playing
\* raises when there is no pipeline to set the time of
React(c, packet, codec, time) ==
  CASE packet = "setcodec"      -> [c EXCEPT !.codec = codec]
    [] packet = "setsamplerate" -> Constructed(c)
    [] packet = "audio"         -> Feed(c)
    [] packet = "buffering"     -> [c EXCEPT !.amp = TRUE]
    [] packet = "playing"       -> IF c.pipe = None THEN c ELSE [c EXCEPT !.time = time]
    [] packet = "stopping"      -> [Stopped(c) EXCEPT !.amp = FALSE]
    [] packet = "disable"       -> [Stopped(c) EXCEPT !.param = FALSE]
    [] packet = "enable"        -> [c EXCEPT !.param = TRUE]

\* the pipeline emits `buffered' once, when its first 20000 bytes are in
EmitsBuffered(c, packet) ==
  packet = "audio" /\ Feed(c).pipe = Full /\ c.pipe # Full

=============================================================================
