------------------------------- MODULE Sources -------------------------------
(***************************************************************************)
(* The sources of the server, src/src/server/source*.py, and the order in  *)
(* which they hand their events to the input multiplexer.                  *)
(*                                                                         *)
(* The sources that run gstreamer are each run by three threads: their     *)
(* own, the one that streams (new_sample), and the main loop of glib,      *)
(* which all of them share and which handles the messages of their         *)
(* pipelines some time after these were posted.  A call of source_event    *)
(* holds a lock and is one step here; InputMux shows its statements.       *)
(***************************************************************************)
EXTENDS Integers, Sequences, FiniteSets

CONSTANTS
  None,      \* Python's None
  MaxFed,    \* bound of the model: how many of the sources are fed at all
  MaxBus,    \* bound of the model: messages on a bus
  MaxFifo    \* bound of the model: commands in the fifo

Names == {"bluealsa", "tcp", "spotifyd", "alsa"}

ASSUME NoneAssumption == None \notin Names
ASSUME BoundsAssumption == MaxFed \in Nat /\ MaxBus \in Nat \ {0} /\ MaxFifo \in Nat

VARIABLES
  fed,          \* the sources that somebody plays to
  now_playing,  \* InputMux: who owns the output
  armed,        \* InputMux: timeout_counter is not None
  latest,       \* history: who sent the last codec
  given_up,     \* history: did the timeout take the output since then?
  blue,         \* SourceBlueALSA: running, and what rdata holds of a message
  tcp,          \* SourceTCP: the place of run, eos, the pipeline and its bus
  spot,         \* SourceSpotifyd: the place of run, pipeline, the fifo
  alsa,         \* SourceAlsa: is_playing, the cutter and its bus, new_sample
  main          \* the thread of GLib.MainLoop: the place of its handler

vars == <<fed, now_playing, armed, latest, given_up, blue, tcp, spot, alsa, main>>
mux == <<now_playing, armed, latest, given_up>>

Init ==
  /\ fed \in {names \in SUBSET Names : Cardinality(names) <= MaxFed}
  /\ now_playing = None /\ armed = FALSE /\ latest = None /\ given_up = FALSE
  /\ blue = [running |-> FALSE, data |-> "none"]
  /\ tcp = [pc |-> "construct", eos |-> FALSE, pipe |-> "none", bus |-> <<>>]
  /\ spot = [pc |-> "read", pipeline |-> FALSE, live |-> 0, fifo |-> <<>>, failed |-> FALSE]
  /\ alsa = [is_playing |-> FALSE, loud |-> FALSE, pc |-> "idle", bus |-> <<>>]
  /\ main = "idle"

-----------------------------------------------------------------------------
(* source_event and the timeout of InputMux: other events change nothing   *)
(* here, and what the threads of that module do to each other is shown     *)
(* there                                                                   *)

Codec(s) == now_playing' = s /\ latest' = s /\ armed' = FALSE /\ given_up' = FALSE

Audio(s) ==
  /\ armed' = (armed \/ now_playing = s)
  /\ UNCHANGED <<now_playing, latest, given_up>>

Stop(s) ==
  /\ now_playing' = IF now_playing = s THEN None ELSE now_playing
  /\ armed' = (armed /\ now_playing # s)
  /\ UNCHANGED <<latest, given_up>>

\* There was audio, and none for the length of the timeout.
GiveUp ==
  /\ armed
  /\ now_playing' = None /\ armed' = FALSE /\ given_up' = TRUE
  /\ UNCHANGED <<fed, latest, blue, tcp, spot, alsa, main>>

-----------------------------------------------------------------------------
(* SourceBlueALSA: its thread parses what datagrams bring                  *)

BlueBecomes(running, data) ==
  /\ "bluealsa" \in fed
  /\ blue' = [running |-> running, data |-> data]
  /\ UNCHANGED <<fed, tcp, spot, alsa, main>>

\* A codec starts the source, whatever it did before.
BlueCodec == blue.data = "none" /\ BlueBecomes(TRUE, "none") /\ Codec("bluealsa")

BlueStopThen(running) ==
  /\ blue.data = "none" /\ blue.running
  /\ BlueBecomes(running, "none")
  /\ Stop("bluealsa")

BlueStop == BlueStopThen(FALSE)

\* The header and its audio; the header alone is kept until the audio has come.
BlueAudio ==
  /\ blue.running /\ blue.data \in {"none", "header"}
  /\ BlueBecomes(TRUE, "none")
  /\ Audio("bluealsa")

BlueHeader ==
  /\ blue.running /\ blue.data = "none"
  /\ BlueBecomes(TRUE, "header")
  /\ UNCHANGED mux

\* The datagram with the audio was lost: the next ones, a codec or a stop too, are
\* taken for it until they are long enough, and of the last one a rest may remain.
BlueSwallow ==
  /\ blue.data = "header"
  /\ \/ BlueBecomes(TRUE, "header") /\ UNCHANGED mux
     \/ (\E data \in {"none", "rest"} : BlueBecomes(TRUE, data)) /\ Audio("bluealsa")

\* A rest does not begin with two colons: it is dropped with what has come since.
BlueResync ==
  /\ blue.data = "rest"
  /\ BlueBecomes(blue.running, "none")
  /\ UNCHANGED mux

BlueALSA == BlueCodec \/ BlueStop \/ BlueAudio \/ BlueHeader \/ BlueSwallow \/ BlueResync

-----------------------------------------------------------------------------
(* SourceTCP: its thread, the pipeline that it listens with, and the bus   *)

TcpChanges == UNCHANGED <<fed, blue, spot, alsa, main>>

\* Mutation of After: eos is reset when the next pipeline is there.
AfterResetLate(place) ==
  CASE place = "wait" -> "stop"       [] place = "stop" -> "construct"
    [] place = "construct" -> "reset" [] place = "reset" -> "wait"

\* Mutation of After: the stop is sent when the next pipeline is there.
AfterStopLate(place) ==
  CASE place = "wait" -> "reset"     [] place = "reset" -> "construct"
    [] place = "construct" -> "stop" [] place = "stop" -> "wait"

\* What run does next.
After(place) ==
  CASE place = "construct" -> "wait" [] place = "wait" -> "stop"
    [] place = "stop" -> "reset"     [] place = "reset" -> "construct"

\* construct_pipeline; a pipeline that fails is not looked at again.
TcpConstruct ==
  /\ tcp.pc = "construct"
  /\ \E pipe \in {"listening", "broken"} :
       tcp' = [tcp EXCEPT !.pc = After(@), !.pipe = pipe, !.bus = <<>>]
  /\ TcpChanges /\ UNCHANGED mux

\* while not self.eos
TcpWait ==
  /\ tcp.pc = "wait" /\ tcp.eos
  /\ tcp' = [tcp EXCEPT !.pc = After(@)]
  /\ TcpChanges /\ UNCHANGED mux

TcpStop ==
  /\ tcp.pc = "stop"
  /\ tcp' = [tcp EXCEPT !.pc = After(@)]
  /\ Stop("tcp")
  /\ TcpChanges

TcpReset ==
  /\ tcp.pc = "reset"
  /\ tcp' = [tcp EXCEPT !.pc = After(@), !.eos = FALSE]
  /\ TcpChanges /\ UNCHANGED mux

TcpRun == TcpConstruct \/ TcpWait \/ TcpStop \/ TcpReset

\* A client connects, and the pipeline, which has something to play, does so.
TcpConnects ==
  /\ "tcp" \in fed /\ tcp.pipe = "listening"
  /\ tcp' = [tcp EXCEPT !.pipe = "streaming", !.bus = Append(@, "playing")]
  /\ TcpChanges /\ UNCHANGED mux

TcpSample ==
  /\ tcp.pipe = "streaming"
  /\ Audio("tcp")
  /\ TcpChanges /\ UNCHANGED tcp

TcpEnds ==
  /\ tcp.pipe = "streaming"
  /\ tcp' = [tcp EXCEPT !.pipe = "ended", !.bus = Append(@, "eos")]
  /\ TcpChanges /\ UNCHANGED mux

\* bus_message reports an error to nobody, and there is no end of the stream.
TcpBreaks ==
  /\ tcp.pipe \in {"listening", "streaming"}
  /\ tcp' = [tcp EXCEPT !.pipe = "broken"]
  /\ TcpChanges /\ UNCHANGED mux

\* bus_message, in the main loop
TcpMessage ==
  /\ main = "idle" /\ tcp.bus # <<>>
  /\ IF Head(tcp.bus) = "playing"
     THEN Codec("tcp") /\ tcp' = [tcp EXCEPT !.bus = Tail(@)]
     ELSE UNCHANGED mux /\ tcp' = [tcp EXCEPT !.bus = Tail(@), !.eos = TRUE]
  /\ TcpChanges

TcpOutside == TcpConnects \/ TcpSample \/ TcpEnds \/ TcpBreaks

-----------------------------------------------------------------------------
(* SourceSpotifyd: its thread reads commands, each starts or stops a       *)
(* pipeline of its own                                                     *)

SpotChanges == UNCHANGED <<fed, blue, tcp, alsa, main>>

SpotCommand(command) ==
  /\ "spotifyd" \in fed /\ Len(spot.fifo) < MaxFifo
  /\ spot' = [spot EXCEPT !.fifo = Append(@, command)]
  /\ SpotChanges /\ UNCHANGED mux

Reads(command) == spot.pc = "read" /\ spot.fifo # <<>> /\ Head(spot.fifo) = command

\* start_playing: the codec comes before there is a pipeline.
SpotStart ==
  /\ Reads("start")
  /\ spot' = [spot EXCEPT !.pc = "construct", !.fifo = Tail(@), !.failed = FALSE]
  /\ Codec("spotifyd")
  /\ SpotChanges

\* How many pipelines run when construct_pipeline has stopped the one there is.
Stopped == spot.live - (IF spot.pipeline THEN 1 ELSE 0)

SpotConstructed(live) ==
  /\ spot.pc = "construct"
  /\ spot' = [spot EXCEPT !.pc = "play", !.pipeline = TRUE, !.live = live]
  /\ SpotChanges /\ UNCHANGED mux

\* Mutation of SpotConstruct: the pipeline there is goes on.
SpotConstructAnother == SpotConstructed(spot.live)

SpotConstruct == SpotConstructed(Stopped)

\* It cannot be built: the one before is started again or, without one, an exception
\* takes run out of the commands it has read.
SpotFails ==
  /\ spot.pc = "construct"
  /\ IF spot.pipeline
     THEN spot' = [spot EXCEPT !.pc = "play", !.live = Stopped]
     ELSE \E read \in 0..Len(spot.fifo) :
            spot' = [spot EXCEPT !.pc = "read", !.failed = TRUE,
                                 !.fifo = SubSeq(@, read + 1, Len(@))]
  /\ SpotChanges /\ UNCHANGED mux

SpotPlay ==
  /\ spot.pc = "play"
  /\ spot' = [spot EXCEPT !.pc = "read", !.live = @ + 1]
  /\ SpotChanges /\ UNCHANGED mux

\* stop_playing
SpotStop ==
  /\ Reads("stop")
  /\ spot' = [spot EXCEPT !.pc = "halt", !.fifo = Tail(@)]
  /\ Stop("spotifyd")
  /\ SpotChanges

SpotHalt ==
  /\ spot.pc = "halt"
  /\ spot' = [spot EXCEPT !.pc = "read", !.pipeline = FALSE, !.live = Stopped]
  /\ SpotChanges /\ UNCHANGED mux

SpotSample ==
  /\ spot.live > 0
  /\ Audio("spotifyd")
  /\ SpotChanges /\ UNCHANGED spot

SpotRun == SpotStart \/ SpotConstruct \/ SpotFails \/ SpotPlay \/ SpotStop \/ SpotHalt

-----------------------------------------------------------------------------
(* SourceAlsa: a gate, the cutter, opens and shuts; new_sample and         *)
(* cutter_message share is_playing without a lock                          *)

AlsaChanges == UNCHANGED <<fed, blue, tcp, spot>>

\* There is a signal: the cutter lets it pass, and says so.
AlsaRises ==
  /\ "alsa" \in fed /\ ~alsa.loud /\ Len(alsa.bus) < MaxBus
  /\ alsa' = [alsa EXCEPT !.loud = TRUE, !.pc = "test", !.bus = Append(@, "above")]
  /\ AlsaChanges /\ UNCHANGED <<main, mux>>

AlsaGoesOn ==
  /\ alsa.loud /\ alsa.pc = "idle"
  /\ alsa' = [alsa EXCEPT !.pc = "test"]
  /\ AlsaChanges /\ UNCHANGED <<main, mux>>

\* There is none any more, when all that came before has passed.
AlsaFalls ==
  /\ alsa.loud /\ alsa.pc = "idle" /\ Len(alsa.bus) < MaxBus
  /\ alsa' = [alsa EXCEPT !.loud = FALSE, !.bus = Append(@, "below")]
  /\ AlsaChanges /\ UNCHANGED <<main, mux>>

\* new_sample
SampleTest ==
  /\ alsa.pc = "test"
  /\ alsa' = [alsa EXCEPT !.pc = IF alsa.is_playing THEN "audio" ELSE "set"]
  /\ AlsaChanges /\ UNCHANGED <<main, mux>>

SampleSet ==
  /\ alsa.pc = "set"
  /\ alsa' = [alsa EXCEPT !.pc = "codec", !.is_playing = TRUE]
  /\ AlsaChanges /\ UNCHANGED <<main, mux>>

SampleCodec ==
  /\ alsa.pc = "codec"
  /\ alsa' = [alsa EXCEPT !.pc = "audio"]
  /\ Codec("alsa")
  /\ AlsaChanges /\ UNCHANGED main

SampleAudio ==
  /\ alsa.pc = "audio"
  /\ alsa' = [alsa EXCEPT !.pc = "idle"]
  /\ Audio("alsa")
  /\ AlsaChanges /\ UNCHANGED main

NewSample == SampleTest \/ SampleSet \/ SampleCodec \/ SampleAudio

\* cutter_message, in the main loop
CutterTells(lowers) ==
  /\ main = "idle" /\ alsa.bus # <<>>
  /\ main' = CASE Head(alsa.bus) = "below" /\ lowers -> "lower"
               [] Head(alsa.bus) = "above" /\ ~alsa.is_playing -> "raise"
               [] OTHER -> "idle"
  /\ alsa' = [alsa EXCEPT !.bus = Tail(@)]
  /\ AlsaChanges /\ UNCHANGED mux

\* Mutation of CutterMessage: a gate that shuts stops only what has not started.
CutterMessageWrong == CutterTells(~alsa.is_playing)

CutterMessage == CutterTells(alsa.is_playing)

CutterSets(place, flag, next) ==
  /\ main = place /\ main' = next
  /\ alsa' = [alsa EXCEPT !.is_playing = flag]
  /\ AlsaChanges /\ UNCHANGED mux

CutterLower == CutterSets("lower", FALSE, "stop")
CutterRaise == CutterSets("raise", TRUE, "codec")

CutterStop ==
  /\ main = "stop" /\ main' = "idle"
  /\ Stop("alsa")
  /\ AlsaChanges /\ UNCHANGED alsa

CutterCodec ==
  /\ main = "codec" /\ main' = "idle"
  /\ Codec("alsa")
  /\ AlsaChanges /\ UNCHANGED alsa

Cutter == CutterMessage \/ CutterLower \/ CutterRaise \/ CutterStop \/ CutterCodec

-----------------------------------------------------------------------------
Next ==
  \/ GiveUp
  \/ BlueALSA
  \/ TcpRun \/ TcpOutside \/ TcpMessage
  \/ (\E command \in {"start", "stop"} : SpotCommand(command)) \/ SpotRun \/ SpotSample
  \/ AlsaRises \/ AlsaGoesOn \/ AlsaFalls \/ NewSample \/ Cutter

\* The threads are scheduled, and the main loop serves each bus in turn; nobody is
\* obliged to play anything.
Fairness == WF_vars(TcpRun) /\ SF_vars(TcpMessage) /\ WF_vars(Cutter) /\ WF_vars(SpotRun)

Spec == Init /\ [][Next]_vars
FairSpec == Spec /\ Fairness

-----------------------------------------------------------------------------
\* Every variable has its type; of the pipelines of spotifyd, at most one runs and
\* reads the loopback device.
TypeOK ==
  /\ fed \subseteq Names
  /\ now_playing \in Names \cup {None} /\ latest \in Names \cup {None}
  /\ armed \in BOOLEAN /\ given_up \in BOOLEAN
  /\ blue \in [running : BOOLEAN, data : {"none", "header", "rest"}]
  /\ tcp \in [pc : {"construct", "wait", "stop", "reset"}, eos : BOOLEAN,
              pipe : {"none", "listening", "streaming", "ended", "broken"},
              bus : {<<>>, <<"playing">>, <<"eos">>, <<"playing", "eos">>}]
  /\ spot \in [pc : {"read", "construct", "play", "halt"}, pipeline : BOOLEAN, live : 0..1,
               fifo : Seq({"start", "stop"}), failed : BOOLEAN]
  /\ alsa \in [is_playing : BOOLEAN, loud : BOOLEAN, bus : Seq({"above", "below"}),
               pc : {"idle", "test", "set", "codec", "audio"}]
  /\ main \in {"idle", "lower", "raise", "stop", "codec"}

Announced == tcp.bus \in {<<>>, <<"eos">>}

\* What the sources that go on playing believe of themselves, once they have said so.
Plays ==
  {s \in {"bluealsa", "tcp", "spotifyd"} :
     CASE s = "bluealsa" -> blue.running
       [] s = "tcp"      -> tcp.pipe \in {"streaming", "ended"} /\ Announced
                            /\ tcp.pc \in {"wait", "stop"}
       [] s = "spotifyd" -> spot.pipeline /\ spot.pc # "halt"}

\* The last source to start keeps the output as long as it goes on, unless it is given
\* up for its silence: no stop of a stream that is over, of another source or of the
\* pipeline before, takes it away.
LatestPlays == latest \in Plays /\ ~given_up => now_playing = latest

Shut == ~alsa.loud /\ alsa.bus = <<>> /\ alsa.pc = "idle" /\ main = "idle"

\* No source holds the output that has nothing to play: one whose stream has ended, or
\* whose gate has shut, has told so, in whatever order its threads were served.
OutputIsPlayed ==
  /\ now_playing = "bluealsa" => blue.running
  /\ now_playing = "tcp" => tcp.pipe \in {"streaming", "ended", "broken"} /\ Announced
  /\ now_playing = "spotifyd" => spot.pipeline \/ spot.pc = "construct" \/ spot.failed
  /\ now_playing = "alsa" => ~Shut

\* When a client of the tcp source has gone, the source listens for the next.
ListensAgain == tcp.pipe = "ended" ~> tcp.pipe \in {"listening", "broken"}

=============================================================================
