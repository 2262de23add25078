---------------------------- MODULE SourcesProofs ----------------------------
(***************************************************************************)
(* Proofs about the sources, any number of which may be played to at once, *)
(* with any number of messages and commands waiting: the types, and that   *)
(* the output belongs to the source that plays and to no other.            *)
(***************************************************************************)
EXTENDS Sources, SequenceTheorems, TLAPS

USE NoneAssumption, BoundsAssumption

-----------------------------------------------------------------------------
(* The inductive invariant, source by source                               *)

MuxTyped ==
  /\ fed \subseteq Names
  /\ now_playing \in Names \cup {None} /\ latest \in Names \cup {None}
  /\ armed \in BOOLEAN /\ given_up \in BOOLEAN

\* The source that was the last to start and has not been given up owns the output if
\* it plays.
Owns(s, plays) == latest = s /\ ~given_up /\ plays => now_playing = s

BlueTyped == blue \in [running : BOOLEAN, data : {"none", "header", "rest"}]

BlueInv ==
  /\ BlueTyped
  /\ blue.data # "none" => blue.running
  /\ now_playing = "bluealsa" => blue.running
  /\ Owns("bluealsa", blue.running)

TcpTyped ==
  tcp \in [pc : {"construct", "wait", "stop", "reset"}, eos : BOOLEAN,
           pipe : {"none", "listening", "streaming", "ended", "broken"},
           bus : {<<>>, <<"playing">>, <<"eos">>, <<"playing", "eos">>}]

\* A pipeline is replaced when its end has been told, and told once.
TcpShape ==
  /\ tcp.pipe \in {"listening", "streaming", "broken"} => tcp.pc = "wait" /\ ~tcp.eos
  /\ tcp.pipe = "none" => tcp.pc = "construct"
  /\ tcp.pipe \in {"none", "listening"} => tcp.bus = <<>>
  /\ tcp.pipe \in {"streaming", "broken"} => tcp.bus \in {<<>>, <<"playing">>}
  /\ tcp.eos \/ tcp.pc # "wait" => tcp.bus = <<>>
  /\ tcp.pc = "construct" => ~tcp.eos

TcpPlays ==
  tcp.pipe \in {"streaming", "ended"} /\ Announced /\ tcp.pc \in {"wait", "stop"}

TcpInv ==
  /\ TcpTyped /\ TcpShape
  /\ now_playing = "tcp" => /\ tcp.pipe \in {"streaming", "ended", "broken"} /\ Announced
                            /\ tcp.pc \in {"wait", "stop"}
  /\ Owns("tcp", TcpPlays)

SpotTyped ==
  spot \in [pc : {"read", "construct", "play", "halt"}, pipeline : BOOLEAN, live : 0..1,
            fifo : Seq({"start", "stop"}), failed : BOOLEAN]

\* One pipeline runs, but not while it is replaced.
SpotInv ==
  /\ SpotTyped
  /\ spot.live = IF spot.pipeline /\ spot.pc # "play" THEN 1 ELSE 0
  /\ spot.pc = "play" => spot.pipeline
  /\ spot.pc = "halt" => now_playing # "spotifyd"
  /\ now_playing = "spotifyd" => spot.pipeline \/ spot.pc = "construct" \/ spot.failed
  /\ Owns("spotifyd", (spot.pipeline \/ spot.pc = "construct") /\ spot.pc # "halt")

AlsaTyped ==
  /\ alsa \in [is_playing : BOOLEAN, loud : BOOLEAN, bus : Seq({"above", "below"}),
               pc : {"idle", "test", "set", "codec", "audio"}]
  /\ main \in {"idle", "lower", "raise", "stop", "codec"}

\* The next message is this one; without any, the gate stands as this one says.
Follows(message) ==
  /\ Len(alsa.bus) > 0 => alsa.bus[1] = message
  /\ Len(alsa.bus) = 0 => (alsa.loud <=> message = "below")

\* The messages are the gate's movements: they alternate, and the last is where it is.
BusInv ==
  /\ \A i \in 1..(Len(alsa.bus) - 1) : alsa.bus[i] # alsa.bus[i + 1]
  /\ Len(alsa.bus) > 0 =>
       alsa.bus[Len(alsa.bus)] = IF alsa.loud THEN "above" ELSE "below"
  /\ main \in {"lower", "stop"} => Follows("above")
  /\ main \in {"raise", "codec"} => Follows("below")

\* The flag is about to be put right: by a stop, or because the gate opens.
Corrected ==
  main \in {"stop", "raise"} \/ (Len(alsa.bus) > 0 /\ alsa.bus[1] = "above")

AlsaInv ==
  /\ AlsaTyped /\ BusInv
  /\ alsa.pc # "idle" => alsa.loud
  /\ main \in {"lower", "codec"} => alsa.is_playing
  /\ alsa.is_playing /\ ~alsa.loud => main = "lower" \/ Len(alsa.bus) > 0
  /\ ~alsa.is_playing /\ (now_playing = "alsa" \/ alsa.pc = "codec") => Corrected

IInv == MuxTyped /\ BlueInv /\ TcpInv /\ SpotInv /\ AlsaInv

-----------------------------------------------------------------------------
(* What source_event does to the one that calls it, and to the others      *)

Calls(s) == Codec(s) \/ Audio(s) \/ Stop(s) \/ UNCHANGED mux

LEMMA MuxTypes ==
  ASSUME MuxTyped, NEW s \in Names, Calls(s), fed' = fed
  PROVE  MuxTyped'
<1>1. now_playing' \in Names \cup {None} /\ latest' \in Names \cup {None}
  BY DEF MuxTyped, Calls, Codec, Audio, Stop, mux
<1>2. armed' \in BOOLEAN
  <2>1. CASE Codec(s)
    BY <2>1, Zenon DEF Codec
  <2>2. CASE Audio(s)
    BY <2>2, Zenon DEF Audio
  <2>3. CASE Stop(s)
    BY <2>3, Zenon DEF Stop
  <2>4. CASE UNCHANGED mux
    BY <2>4, Zenon DEF mux, MuxTyped
  <2> QED BY <2>1, <2>2, <2>3, <2>4 DEF Calls
<1>3. given_up' \in BOOLEAN
  <2>1. CASE Codec(s)
    BY <2>1, Zenon DEF Codec
  <2>2. CASE ~Codec(s)
    BY <2>2, Zenon DEF Calls, Audio, Stop, mux, MuxTyped
  <2> QED BY <2>1, <2>2
<1> QED BY <1>1, <1>2, <1>3 DEF MuxTyped

\* A call of another source takes the output, or leaves it with whom it is.
LEMMA OthersCall ==
  ASSUME NEW s \in Names, NEW t \in Names, s # t, Calls(s)
  PROVE  /\ now_playing' = t => now_playing = t
         /\ latest' = t /\ ~given_up' => latest = t /\ ~given_up
         /\ latest' = t /\ now_playing = t => now_playing' = t
  BY DEF Calls, Codec, Audio, Stop, mux

LEMMA GiveUpLeaves ==
  ASSUME GiveUp, NEW t \in Names
  PROVE  now_playing' # t /\ given_up'
  BY DEF GiveUp

\* So what holds of a source that does not move itself goes on to hold.
LEMMA BlueStays ==
  ASSUME BlueInv, blue' = blue,
         (\E s \in Names : s # "bluealsa" /\ Calls(s)) \/ GiveUp
  PROVE  BlueInv'
<1>1. /\ now_playing' = "bluealsa" => now_playing = "bluealsa"
      /\ latest' = "bluealsa" /\ ~given_up' => latest = "bluealsa" /\ ~given_up
      /\ latest' = "bluealsa" /\ ~given_up' /\ now_playing = "bluealsa" => now_playing' = "bluealsa"
  BY OthersCall, GiveUpLeaves DEF Names
<1> QED BY <1>1 DEF BlueInv, BlueTyped, Owns

LEMMA TcpStays ==
  ASSUME TcpInv, tcp' = tcp,
         (\E s \in Names : s # "tcp" /\ Calls(s)) \/ GiveUp
  PROVE  TcpInv'
<1>1. /\ now_playing' = "tcp" => now_playing = "tcp"
      /\ latest' = "tcp" /\ ~given_up' => latest = "tcp" /\ ~given_up
      /\ latest' = "tcp" /\ ~given_up' /\ now_playing = "tcp" => now_playing' = "tcp"
  BY OthersCall, GiveUpLeaves DEF Names
<1> QED BY <1>1 DEF TcpInv, TcpTyped, TcpShape, TcpPlays, Announced, Owns

LEMMA SpotStays ==
  ASSUME SpotInv, spot' = spot,
         (\E s \in Names : s # "spotifyd" /\ Calls(s)) \/ GiveUp
  PROVE  SpotInv'
<1>1. /\ now_playing' = "spotifyd" => now_playing = "spotifyd"
      /\ latest' = "spotifyd" /\ ~given_up' => latest = "spotifyd" /\ ~given_up
      /\ latest' = "spotifyd" /\ ~given_up' /\ now_playing = "spotifyd" => now_playing' = "spotifyd"
  BY OthersCall, GiveUpLeaves DEF Names
<1> QED BY <1>1 DEF SpotInv, SpotTyped, Owns

LEMMA AlsaStays ==
  ASSUME AlsaInv, alsa' = alsa, main' = main,
         (\E s \in Names : s # "alsa" /\ Calls(s)) \/ GiveUp
  PROVE  AlsaInv'
<1>1. now_playing' = "alsa" => now_playing = "alsa"
  BY OthersCall, GiveUpLeaves DEF Names
<1> QED BY <1>1 DEF AlsaInv, AlsaTyped, BusInv, Follows, Corrected

-----------------------------------------------------------------------------
(* Bluealsa                                                                *)

LEMMA BlueStep ==
  ASSUME IInv, BlueALSA
  PROVE  IInv'
<1>1. /\ Calls("bluealsa") /\ "bluealsa" \in Names
      /\ UNCHANGED <<fed, tcp, spot, alsa, main>>
  BY DEF BlueALSA, BlueCodec, BlueStop, BlueStopThen, BlueAudio, BlueHeader, BlueSwallow,
         BlueResync, BlueBecomes, Calls, Names
<1>2. BlueInv /\ blue \in [running : BOOLEAN, data : {"none", "header", "rest"}]
  BY DEF IInv, BlueInv, BlueTyped
<1>3. BlueInv'
  <2>1. CASE BlueCodec
    BY <2>1 DEF BlueCodec, BlueBecomes, Codec, BlueInv, BlueTyped, Owns
  <2>2. CASE BlueStop
    BY <1>2, <2>2 DEF BlueStop, BlueStopThen, BlueBecomes, Stop, BlueInv, BlueTyped, Owns, Names
  <2>3. CASE BlueAudio
    BY <1>2, <2>3 DEF BlueAudio, BlueBecomes, Audio, BlueInv, BlueTyped, Owns
  <2>4. CASE BlueHeader
    BY <1>2, <2>4 DEF BlueHeader, BlueBecomes, mux, BlueInv, BlueTyped, Owns
  <2>5. CASE BlueSwallow
    <3>1. blue.running
      BY <1>2, <2>5 DEF BlueSwallow, BlueInv
    <3>3. PICK data \in {"none", "header", "rest"} : blue' = [running |-> TRUE, data |-> data]
      BY <2>5 DEF BlueSwallow, BlueBecomes
    <3>2. UNCHANGED <<now_playing, latest, given_up>>
      BY <2>5 DEF BlueSwallow, Audio, mux
    <3> QED BY <1>2, <3>1, <3>2, <3>3 DEF BlueInv, BlueTyped, Owns
  <2>6. CASE BlueResync
    BY <1>2, <2>6 DEF BlueResync, BlueBecomes, mux, BlueInv, BlueTyped, Owns
  <2> QED BY <2>1, <2>2, <2>3, <2>4, <2>5, <2>6 DEF BlueALSA
<1>4. MuxTyped' /\ TcpInv' /\ SpotInv' /\ AlsaInv'
  BY <1>1, MuxTypes, TcpStays, SpotStays, AlsaStays DEF IInv
<1> QED BY <1>3, <1>4 DEF IInv

-----------------------------------------------------------------------------
(* Tcp                                                                     *)

TcpActs == TcpRun \/ TcpOutside \/ TcpMessage

\* What the operators of sequences make of the few a bus holds.
LEMMA Buses ==
  /\ Append(<<>>, "playing") = <<"playing">> /\ Append(<<>>, "eos") = <<"eos">>
  /\ Append(<<"playing">>, "eos") = <<"playing", "eos">>
  /\ Head(<<"playing">>) = "playing" /\ Tail(<<"playing">>) = <<>>
  /\ Head(<<"eos">>) = "eos" /\ Tail(<<"eos">>) = <<>>
  /\ Head(<<"playing", "eos">>) = "playing" /\ Tail(<<"playing", "eos">>) = <<"eos">>
<1>1. Append(<<>>, "playing") = <<"playing">> /\ Append(<<>>, "eos") = <<"eos">>
  OBVIOUS
<1>2. Append(<<"playing">>, "eos") = <<"playing", "eos">>
  <2> DEFINE S == {"playing", "eos"}
  <2>1. <<"playing">> \in Seq(S) /\ <<"playing", "eos">> \in Seq(S) /\ "eos" \in S
    OBVIOUS
  <2>2. Len(<<"playing">>) = 1 /\ <<"playing">>[1] = "playing"
    OBVIOUS
  <2>3. /\ Len(<<"playing", "eos">>) = 2
        /\ <<"playing", "eos">>[1] = "playing" /\ <<"playing", "eos">>[2] = "eos"
    OBVIOUS
  <2> HIDE DEF S
  <2>4. /\ Append(<<"playing">>, "eos") \in Seq(S)
        /\ Len(Append(<<"playing">>, "eos")) = 2
        /\ Append(<<"playing">>, "eos")[1] = "playing"
        /\ Append(<<"playing">>, "eos")[2] = "eos"
    BY <2>1, <2>2, AppendProperties
  <2>5. \A i \in 1..Len(Append(<<"playing">>, "eos")) : i = 1 \/ i = 2
    BY <2>4
  <2>6. \A i \in 1..Len(Append(<<"playing">>, "eos")) :
          Append(<<"playing">>, "eos")[i] = <<"playing", "eos">>[i]
    BY <2>3, <2>4, <2>5, Zenon
  <2> QED BY <2>1, <2>3, <2>4, <2>6, SeqEqual, Zenon
<1>3. Head(<<"playing">>) = "playing" /\ Tail(<<"playing">>) = <<>>
  OBVIOUS
<1>4. Head(<<"eos">>) = "eos" /\ Tail(<<"eos">>) = <<>>
  OBVIOUS
<1>5. Head(<<"playing", "eos">>) = "playing" /\ Tail(<<"playing", "eos">>) = <<"eos">>
  OBVIOUS
<1> QED BY <1>1, <1>2, <1>3, <1>4, <1>5

LEMMA TcpActsLemma ==
  ASSUME IInv, TcpActs
  PROVE  TcpInv'
<1>1. TcpInv /\ TcpTyped /\ TcpShape
  BY DEF IInv, TcpInv
<1>2. CASE TcpConstruct
  <2>1. PICK pipe \in {"listening", "broken"} :
          tcp' = [tcp EXCEPT !.pc = "wait", !.pipe = pipe, !.bus = <<>>]
    BY <1>2 DEF TcpConstruct, After
  <2>2. tcp.pc = "construct" /\ UNCHANGED mux
    BY <1>2 DEF TcpConstruct
  <2>3. TcpTyped' /\ tcp'.pc = "wait" /\ tcp'.pipe = pipe /\ tcp'.bus = <<>> /\ tcp'.eos = tcp.eos
    BY <1>1, <2>1 DEF TcpTyped
  <2>4. now_playing' # "tcp"
    BY <1>1, <2>2 DEF TcpInv, mux
  <2>5. ~TcpPlays' /\ TcpShape'
    BY <1>1, <2>2, <2>3 DEF TcpPlays, TcpShape
  <2> QED BY <2>3, <2>4, <2>5 DEF TcpInv, Owns
<1>3. CASE TcpWait
  <2>1. tcp.pc = "wait" /\ tcp.eos /\ tcp' = [tcp EXCEPT !.pc = "stop"] /\ UNCHANGED mux
    BY <1>3 DEF TcpWait, After
  <2>2. TcpTyped' /\ tcp'.pc = "stop" /\ tcp'.pipe = tcp.pipe /\ tcp'.bus = tcp.bus /\ tcp'.eos = tcp.eos
    BY <1>1, <2>1 DEF TcpTyped
  <2> QED BY <1>1, <2>1, <2>2 DEF TcpInv, TcpShape, TcpPlays, Announced, Owns, mux
<1>4. CASE TcpStop
  <2>1. tcp.pc = "stop" /\ tcp' = [tcp EXCEPT !.pc = "reset"] /\ Stop("tcp")
    BY <1>4 DEF TcpStop, After
  <2>2. TcpTyped' /\ tcp'.pc = "reset" /\ tcp'.pipe = tcp.pipe /\ tcp'.bus = tcp.bus /\ tcp'.eos = tcp.eos
    BY <1>1, <2>1 DEF TcpTyped
  <2>3. now_playing' # "tcp"
    BY <2>1 DEF Stop, Names
  <2> QED BY <1>1, <2>1, <2>2, <2>3 DEF TcpInv, TcpShape, TcpPlays, Announced, Owns
<1>5. CASE TcpReset
  <2>1. tcp.pc = "reset" /\ tcp' = [tcp EXCEPT !.pc = "construct", !.eos = FALSE] /\ UNCHANGED mux
    BY <1>5 DEF TcpReset, After
  <2>2. TcpTyped' /\ tcp'.pc = "construct" /\ tcp'.pipe = tcp.pipe /\ tcp'.bus = tcp.bus /\ ~tcp'.eos
    BY <1>1, <2>1 DEF TcpTyped
  <2> QED BY <1>1, <2>1, <2>2 DEF TcpInv, TcpShape, TcpPlays, Announced, Owns, mux
<1>6. CASE TcpConnects
  <2>1. tcp.pipe = "listening" /\ tcp.bus = <<>> /\ UNCHANGED mux
        /\ tcp' = [tcp EXCEPT !.pipe = "streaming", !.bus = <<"playing">>]
    BY <1>1, <1>6, Buses DEF TcpConnects, TcpShape
  <2>2. TcpTyped' /\ tcp'.pc = tcp.pc /\ tcp'.pipe = "streaming" /\ tcp'.bus = <<"playing">> /\ tcp'.eos = tcp.eos
    BY <1>1, <2>1 DEF TcpTyped
  <2>3. <<"playing">> # <<>> /\ <<"playing">> # <<"eos">>
    OBVIOUS
  <2> QED BY <1>1, <2>1, <2>2, <2>3 DEF TcpInv, TcpShape, TcpPlays, Announced, Owns, mux
<1>7. CASE TcpSample
  BY <1>1, <1>7 DEF TcpSample, Audio, TcpInv, TcpTyped, TcpShape, TcpPlays, Announced, Owns
<1>8. CASE TcpEnds
  <2>1. /\ tcp.pipe = "streaming" /\ UNCHANGED mux
        /\ \/ tcp.bus = <<>> /\ tcp' = [tcp EXCEPT !.pipe = "ended", !.bus = <<"eos">>]
           \/ tcp.bus = <<"playing">>
              /\ tcp' = [tcp EXCEPT !.pipe = "ended", !.bus = <<"playing", "eos">>]
    <3>1. /\ tcp.pipe = "streaming" /\ UNCHANGED mux
          /\ tcp' = [tcp EXCEPT !.pipe = "ended", !.bus = Append(tcp.bus, "eos")]
      BY <1>8 DEF TcpEnds
    <3>2. tcp.bus = <<>> \/ tcp.bus = <<"playing">>
      BY <1>1, <3>1 DEF TcpShape
    <3> QED BY <3>1, <3>2, Buses
  <2>2. /\ TcpTyped' /\ tcp'.pc = tcp.pc /\ tcp'.pipe = "ended" /\ tcp'.eos = tcp.eos
        /\ \/ tcp.bus = <<>> /\ tcp'.bus = <<"eos">>
           \/ tcp.bus = <<"playing">> /\ tcp'.bus = <<"playing", "eos">>
    BY <1>1, <2>1 DEF TcpTyped
  <2>3. Announced' <=> Announced
    <3>1. /\ <<"playing">> # <<>> /\ <<"playing">> # <<"eos">>
          /\ <<"playing", "eos">> # <<>> /\ <<"playing", "eos">> # <<"eos">>
      OBVIOUS
    <3> QED BY <2>2, <3>1 DEF Announced
  <2> QED BY <1>1, <2>1, <2>2, <2>3 DEF TcpInv, TcpShape, TcpPlays, Owns, mux
<1>9. CASE TcpBreaks
  <2>1. tcp.pipe \in {"listening", "streaming"} /\ tcp' = [tcp EXCEPT !.pipe = "broken"] /\ UNCHANGED mux
    BY <1>9 DEF TcpBreaks
  <2>2. TcpTyped' /\ tcp'.pc = tcp.pc /\ tcp'.pipe = "broken" /\ tcp'.bus = tcp.bus /\ tcp'.eos = tcp.eos
    BY <1>1, <2>1 DEF TcpTyped
  <2> QED BY <1>1, <2>1, <2>2 DEF TcpInv, TcpShape, TcpPlays, Announced, Owns, mux
<1>10. CASE TcpMessage
  <2>1. tcp.bus # <<>>
    BY <1>10 DEF TcpMessage
  <2>2. tcp.pc = "wait" /\ ~tcp.eos /\ tcp.pipe \in {"streaming", "ended", "broken"}
    BY <1>1, <2>1 DEF TcpShape, TcpTyped
  <2>3. CASE Head(tcp.bus) = "playing"
    <3>1. Codec("tcp") /\ tcp' = [tcp EXCEPT !.bus = Tail(tcp.bus)]
      BY <1>10, <2>3 DEF TcpMessage
    <3>2. Tail(tcp.bus) \in {<<>>, <<"eos">>} /\ (tcp.bus = <<"playing">> => Tail(tcp.bus) = <<>>)
      <4>1. tcp.bus = <<"playing">> \/ tcp.bus = <<"eos">> \/ tcp.bus = <<"playing", "eos">>
        BY <1>1, <2>1 DEF TcpTyped
      <4>2. CASE tcp.bus = <<"playing">>
        BY <4>2, Buses
      <4>3. CASE tcp.bus = <<"eos">>
        BY <4>3, <2>3, Buses
      <4>4. CASE tcp.bus = <<"playing", "eos">>
        <5>1. <<"playing", "eos">> # <<"playing">>
          OBVIOUS
        <5> QED BY <4>4, <5>1, Buses
      <4> QED BY <4>1, <4>2, <4>3, <4>4
    <3>3. /\ TcpTyped' /\ tcp'.pc = tcp.pc /\ tcp'.pipe = tcp.pipe /\ tcp'.eos = tcp.eos
          /\ tcp'.bus = Tail(tcp.bus)
      BY <1>1, <3>1, <3>2 DEF TcpTyped
    <3>4. TcpShape' /\ Announced'
      BY <1>1, <2>1, <2>2, <3>2, <3>3 DEF TcpShape, Announced
    <3>5. now_playing' = "tcp"
      BY <3>1 DEF Codec
    <3> QED BY <2>2, <3>3, <3>4, <3>5 DEF TcpInv, Owns
  <2>4. CASE Head(tcp.bus) # "playing"
    <3>1. UNCHANGED mux /\ tcp' = [tcp EXCEPT !.bus = Tail(tcp.bus), !.eos = TRUE]
      BY <1>10, <2>4 DEF TcpMessage
    <3>2. tcp.bus = <<"eos">> /\ Tail(tcp.bus) = <<>>
      <4>1. tcp.bus = <<"playing">> \/ tcp.bus = <<"eos">> \/ tcp.bus = <<"playing", "eos">>
        BY <1>1, <2>1 DEF TcpTyped
      <4> QED BY <4>1, <2>4, Buses
    <3>3. tcp.pipe = "ended"
      BY <1>1, <2>2, <3>2 DEF TcpShape
    <3>4. /\ TcpTyped' /\ tcp'.pc = tcp.pc /\ tcp'.pipe = tcp.pipe /\ tcp'.eos /\ tcp'.bus = <<>>
      BY <1>1, <3>1, <3>2 DEF TcpTyped
    <3>5. TcpShape' /\ (Announced' <=> Announced)
      BY <1>1, <2>2, <3>2, <3>3, <3>4 DEF TcpShape, Announced
    <3> QED BY <1>1, <3>1, <3>3, <3>4, <3>5 DEF TcpInv, TcpPlays, Owns, mux
  <2> QED BY <2>3, <2>4
<1> QED BY <1>2, <1>3, <1>4, <1>5, <1>6, <1>7, <1>8, <1>9, <1>10
        DEF TcpActs, TcpRun, TcpOutside

LEMMA TcpStep ==
  ASSUME IInv, TcpActs
  PROVE  IInv'
<1>1. Calls("tcp") /\ "tcp" \in Names /\ UNCHANGED <<fed, blue, spot, alsa, main>>
  BY DEF TcpActs, TcpRun, TcpOutside, TcpConstruct, TcpWait, TcpStop, TcpReset, TcpConnects,
         TcpSample, TcpEnds, TcpBreaks, TcpMessage, TcpChanges, Calls, Names
<1>2. MuxTyped' /\ BlueInv' /\ SpotInv' /\ AlsaInv'
  BY <1>1, MuxTypes, BlueStays, SpotStays, AlsaStays DEF IInv
<1> QED BY <1>2, TcpActsLemma DEF IInv

-----------------------------------------------------------------------------
(* Spotifyd                                                                *)

SpotActs == (\E command \in {"start", "stop"} : SpotCommand(command)) \/ SpotRun \/ SpotSample

LEMMA SpotActsLemma ==
  ASSUME IInv, SpotActs
  PROVE  SpotInv'
<1>1. SpotInv /\ SpotTyped
  BY DEF IInv, SpotInv
<1>0. 0 \in 0..1 /\ 1 \in 0..1
  OBVIOUS
<1>2. CASE \E command \in {"start", "stop"} : SpotCommand(command)
  <2>1. PICK command \in {"start", "stop"} :
          spot' = [spot EXCEPT !.fifo = Append(spot.fifo, command)] /\ UNCHANGED mux
    BY <1>2 DEF SpotCommand
  <2>2. Append(spot.fifo, command) \in Seq({"start", "stop"})
    BY <1>1 DEF SpotTyped
  <2>3. /\ SpotTyped' /\ spot'.pc = spot.pc /\ spot'.pipeline = spot.pipeline
        /\ spot'.live = spot.live /\ spot'.failed = spot.failed
    BY <1>1, <2>1, <2>2 DEF SpotTyped
  <2> QED BY <1>1, <2>1, <2>3 DEF SpotInv, Owns, mux
<1>3. CASE SpotStart
  <2>1. /\ spot.pc = "read" /\ spot.fifo # <<>> /\ Codec("spotifyd")
        /\ spot' = [spot EXCEPT !.pc = "construct", !.fifo = Tail(spot.fifo), !.failed = FALSE]
    BY <1>3 DEF SpotStart, Reads
  <2>2. Tail(spot.fifo) \in Seq({"start", "stop"})
    BY <1>1, <2>1 DEF SpotTyped
  <2>3. /\ SpotTyped' /\ spot'.pc = "construct" /\ spot'.pipeline = spot.pipeline
        /\ spot'.live = spot.live
    BY <1>1, <2>1, <2>2 DEF SpotTyped
  <2> QED BY <1>1, <2>1, <2>3 DEF SpotInv, Owns, Codec
<1>4. CASE SpotConstruct
  <2>1. /\ spot.pc = "construct" /\ UNCHANGED mux
        /\ spot' = [spot EXCEPT !.pc = "play", !.pipeline = TRUE, !.live = Stopped]
    BY <1>4 DEF SpotConstruct, SpotConstructed
  <2>2. Stopped = 0
    BY <1>1, <2>1 DEF SpotInv, Stopped
  <2>3. SpotTyped' /\ spot'.pc = "play" /\ spot'.pipeline /\ spot'.live = 0
    BY <1>0, <1>1, <2>1, <2>2 DEF SpotTyped
  <2> QED BY <1>1, <2>1, <2>3 DEF SpotInv, Owns, mux
<1>5. CASE SpotFails
  <2>1. spot.pc = "construct" /\ UNCHANGED mux
    BY <1>5 DEF SpotFails
  <2>2. CASE spot.pipeline
    <3>1. spot' = [spot EXCEPT !.pc = "play", !.live = Stopped]
      BY <1>5, <2>2 DEF SpotFails
    <3>2. Stopped = 0
      BY <1>1, <2>1, <2>2 DEF SpotInv, Stopped
    <3>3. SpotTyped' /\ spot'.pc = "play" /\ spot'.pipeline /\ spot'.live = 0
      BY <1>0, <1>1, <2>2, <3>1, <3>2 DEF SpotTyped
    <3> QED BY <1>1, <2>1, <3>3 DEF SpotInv, Owns, mux
  <2>3. CASE ~spot.pipeline
    <3>1. PICK read \in 0..Len(spot.fifo) :
            spot' = [spot EXCEPT !.pc = "read", !.failed = TRUE,
                                 !.fifo = SubSeq(spot.fifo, read + 1, Len(spot.fifo))]
      BY <1>5, <2>3 DEF SpotFails
    <3>2. SubSeq(spot.fifo, read + 1, Len(spot.fifo)) \in Seq({"start", "stop"})
      <4>1. spot.fifo \in Seq({"start", "stop"})
        BY <1>1 DEF SpotTyped
      <4>2. read + 1 \in Nat /\ \A i \in (read + 1)..Len(spot.fifo) : i \in 1..Len(spot.fifo)
        BY <4>1
      <4>3. \A i \in (read + 1)..Len(spot.fifo) : spot.fifo[i] \in {"start", "stop"}
        BY <4>1, <4>2, ElementOfSeq
      <4> QED BY <4>1, <4>2, <4>3, SubSeqProperties
    <3>3. /\ SpotTyped' /\ spot'.pc = "read" /\ ~spot'.pipeline /\ spot'.failed
          /\ spot'.live = spot.live
      BY <1>1, <2>3, <3>1, <3>2 DEF SpotTyped
    <3> QED BY <1>1, <2>1, <2>3, <3>3 DEF SpotInv, Owns, mux
  <2> QED BY <2>2, <2>3
<1>6. CASE SpotPlay
  <2>1. /\ spot.pc = "play" /\ UNCHANGED mux
        /\ spot' = [spot EXCEPT !.pc = "read", !.live = spot.live + 1]
    BY <1>6 DEF SpotPlay
  <2>2. spot.live = 0 /\ spot.pipeline
    BY <1>1, <2>1 DEF SpotInv
  <2>3. SpotTyped' /\ spot'.pc = "read" /\ spot'.pipeline /\ spot'.live = 1
    <3>1. spot.live + 1 = 1
      BY <2>2
    <3>2. spot' = [spot EXCEPT !.pc = "read", !.live = 1]
      BY <2>1, <3>1, Zenon
    <3> QED BY <1>0, <1>1, <2>2, <3>2 DEF SpotTyped
  <2> QED BY <1>1, <2>1, <2>2, <2>3 DEF SpotInv, Owns, mux
<1>7. CASE SpotStop
  <2>1. /\ spot.pc = "read" /\ spot.fifo # <<>> /\ Stop("spotifyd")
        /\ spot' = [spot EXCEPT !.pc = "halt", !.fifo = Tail(spot.fifo)]
    BY <1>7 DEF SpotStop, Reads
  <2>2. Tail(spot.fifo) \in Seq({"start", "stop"})
    BY <1>1, <2>1 DEF SpotTyped
  <2>3. /\ SpotTyped' /\ spot'.pc = "halt" /\ spot'.pipeline = spot.pipeline
        /\ spot'.live = spot.live
    BY <1>1, <2>1, <2>2 DEF SpotTyped
  <2>4. now_playing' # "spotifyd"
    BY <2>1 DEF Stop, Names
  <2> QED BY <1>1, <2>1, <2>3, <2>4 DEF SpotInv, Owns
<1>8. CASE SpotHalt
  <2>1. /\ spot.pc = "halt" /\ UNCHANGED mux
        /\ spot' = [spot EXCEPT !.pc = "read", !.pipeline = FALSE, !.live = Stopped]
    BY <1>8 DEF SpotHalt
  <2>2. Stopped = 0
    BY <1>1, <2>1 DEF SpotInv, Stopped
  <2>3. SpotTyped' /\ spot'.pc = "read" /\ ~spot'.pipeline /\ spot'.live = 0
    BY <1>0, <1>1, <2>1, <2>2 DEF SpotTyped
  <2> QED BY <1>1, <2>1, <2>3 DEF SpotInv, Owns, mux
<1>9. CASE SpotSample
  <2>1. spot' = spot /\ UNCHANGED <<now_playing, latest, given_up>>
    BY <1>9 DEF SpotSample, Audio
  <2> QED BY <1>1, <2>1 DEF SpotInv, SpotTyped, Owns
<1> QED BY <1>2, <1>3, <1>4, <1>5, <1>6, <1>7, <1>8, <1>9 DEF SpotActs, SpotRun

LEMMA SpotStep ==
  ASSUME IInv, SpotActs
  PROVE  IInv'
<1>1. Calls("spotifyd") /\ "spotifyd" \in Names /\ UNCHANGED <<fed, blue, tcp, alsa, main>>
  BY DEF SpotActs, SpotCommand, SpotRun, SpotStart, SpotConstruct, SpotConstructed, SpotFails,
         SpotPlay, SpotStop, SpotHalt, SpotSample, SpotChanges, Calls, Names
<1>2. MuxTyped' /\ BlueInv' /\ TcpInv' /\ AlsaInv'
  BY <1>1, MuxTypes, BlueStays, TcpStays, AlsaStays DEF IInv
<1> QED BY <1>2, SpotActsLemma DEF IInv

-----------------------------------------------------------------------------
(* Alsa: what is on the bus after a message is put there, or taken         *)

Movements == {"above", "below"}

Alternates(bus) == \A i \in 1..(Len(bus) - 1) : bus[i] # bus[i + 1]

LEMMA BusGrows ==
  ASSUME NEW bus \in Seq(Movements), Alternates(bus), NEW m \in Movements,
         Len(bus) > 0 => bus[Len(bus)] # m
  PROVE  /\ Append(bus, m) \in Seq(Movements) /\ Len(Append(bus, m)) = Len(bus) + 1
         /\ Alternates(Append(bus, m)) /\ Append(bus, m)[Len(bus) + 1] = m
         /\ Len(bus) > 0 => Append(bus, m)[1] = bus[1]
<1>1. /\ Append(bus, m) \in Seq(Movements) /\ Len(Append(bus, m)) = Len(bus) + 1
      /\ \A i \in 1..Len(bus) : Append(bus, m)[i] = bus[i]
      /\ Append(bus, m)[Len(bus) + 1] = m
  BY AppendProperties
<1>2. Len(bus) \in Nat
  OBVIOUS
<1>3. Alternates(Append(bus, m))
  <2> SUFFICES ASSUME NEW i \in 1..Len(bus)
               PROVE  Append(bus, m)[i] # Append(bus, m)[i + 1]
    BY <1>1, <1>2 DEF Alternates
  <2>1. CASE i = Len(bus)
    BY <1>1, <1>2, <2>1
  <2>2. CASE i # Len(bus)
    <3>1. i \in 1..(Len(bus) - 1) /\ i + 1 \in 1..Len(bus)
      BY <1>2, <2>2
    <3> QED BY <1>1, <3>1 DEF Alternates
  <2> QED BY <2>1, <2>2
<1> QED BY <1>1, <1>2, <1>3

LEMMA BusShrinks ==
  ASSUME NEW bus \in Seq(Movements), Alternates(bus), bus # <<>>
  PROVE  /\ Tail(bus) \in Seq(Movements) /\ Len(Tail(bus)) = Len(bus) - 1 /\ Len(bus) > 0
         /\ Alternates(Tail(bus)) /\ Head(bus) = bus[1] /\ bus[1] \in Movements
         /\ Len(Tail(bus)) > 0 => /\ Tail(bus)[Len(Tail(bus))] = bus[Len(bus)]
                                  /\ Tail(bus)[1] \in Movements /\ Tail(bus)[1] # bus[1]
<1>1. /\ Tail(bus) \in Seq(Movements) /\ Len(Tail(bus)) = Len(bus) - 1
      /\ \A i \in 1..Len(Tail(bus)) : Tail(bus)[i] = bus[i + 1]
  BY HeadTailProperties
<1>2. Len(bus) \in Nat /\ Len(bus) > 0 /\ Head(bus) = bus[1]
  BY EmptySeq
<1>3. bus[1] \in Movements
  BY <1>2, ElementOfSeq
<1>4. Alternates(Tail(bus))
  <2> SUFFICES ASSUME NEW i \in 1..(Len(bus) - 2)
               PROVE  Tail(bus)[i] # Tail(bus)[i + 1]
    BY <1>1, <1>2 DEF Alternates
  <2>1. i \in 1..Len(Tail(bus)) /\ i + 1 \in 1..Len(Tail(bus)) /\ i + 1 \in 1..(Len(bus) - 1)
    BY <1>1, <1>2
  <2>2. bus[i + 1] # bus[(i + 1) + 1]
    BY <2>1 DEF Alternates
  <2> QED BY <1>1, <2>1, <2>2
<1>5. ASSUME Len(Tail(bus)) > 0
      PROVE  /\ Tail(bus)[Len(Tail(bus))] = bus[Len(bus)]
             /\ Tail(bus)[1] \in Movements /\ Tail(bus)[1] # bus[1]
  <2>1. Len(Tail(bus)) \in 1..Len(Tail(bus)) /\ 1 \in 1..Len(Tail(bus)) /\ 1 \in 1..(Len(bus) - 1)
    BY <1>1, <1>2, <1>5
  <2>2. bus[1] # bus[1 + 1]
    BY <2>1 DEF Alternates
  <2>3. Tail(bus)[1] = bus[1 + 1] /\ Tail(bus)[Len(Tail(bus))] = bus[Len(Tail(bus)) + 1]
    BY <1>1, <2>1
  <2>4. Len(Tail(bus)) + 1 = Len(bus)
    BY <1>1, <1>2
  <2>5. Tail(bus)[1] \in Movements
    BY <1>1, <2>1, ElementOfSeq
  <2> QED BY <2>2, <2>3, <2>4, <2>5
<1> QED BY <1>1, <1>2, <1>3, <1>4, <1>5

AlsaActs == AlsaRises \/ AlsaGoesOn \/ AlsaFalls \/ NewSample \/ Cutter

LEMMA AlsaStreams ==
  ASSUME IInv, AlsaRises \/ AlsaGoesOn \/ AlsaFalls \/ NewSample
  PROVE  AlsaInv'
<1>1. /\ alsa \in [is_playing : BOOLEAN, loud : BOOLEAN, bus : Seq(Movements),
                   pc : {"idle", "test", "set", "codec", "audio"}]
      /\ main \in {"idle", "lower", "raise", "stop", "codec"} /\ AlsaInv /\ BusInv
      /\ Len(alsa.bus) \in Nat /\ Alternates(alsa.bus)
  BY DEF IInv, AlsaInv, AlsaTyped, BusInv, Movements, Alternates
<1>2. CASE AlsaRises
  <2> DEFINE bus == Append(alsa.bus, "above")
  <2>1. /\ ~alsa.loud /\ UNCHANGED <<main, now_playing>>
        /\ alsa' = [alsa EXCEPT !.loud = TRUE, !.pc = "test", !.bus = bus]
    BY <1>2 DEF AlsaRises, mux
  <2>2. /\ bus \in Seq(Movements) /\ Len(bus) = Len(alsa.bus) + 1 /\ Alternates(bus)
        /\ bus[Len(alsa.bus) + 1] = "above"
        /\ Len(alsa.bus) > 0 => bus[1] = alsa.bus[1]
    BY <1>1, <2>1, BusGrows DEF BusInv, Movements
  <2> HIDE DEF bus
  <2>3. /\ AlsaTyped' /\ alsa'.bus = bus /\ alsa'.loud /\ alsa'.pc = "test"
        /\ alsa'.is_playing = alsa.is_playing
    BY <1>1, <2>1, <2>2 DEF AlsaTyped, Movements
  <2>4. Len(bus) > 0 /\ Len(bus) = Len(alsa.bus) + 1 /\ bus[Len(bus)] = "above"
    BY <1>1, <2>2
  <2>5. /\ main' \in {"lower", "stop"} => bus[1] = "above"
        /\ main' \in {"raise", "codec"} => bus[1] = "below"
        /\ Len(alsa.bus) > 0 => bus[1] = alsa.bus[1]
    <3>1. CASE Len(alsa.bus) > 0
      BY <1>1, <2>1, <2>2, <3>1 DEF BusInv, Follows
    <3>2. CASE Len(alsa.bus) = 0
      <4>1. bus[1] = "above"
        BY <2>2, <3>2
      <4> QED BY <1>1, <2>1, <3>2, <4>1 DEF BusInv, Follows
    <3> QED BY <1>1, <3>1, <3>2
  <2>6. BusInv'
    BY <2>2, <2>3, <2>4, <2>5 DEF BusInv, Follows, Alternates
  <2>7. Corrected => Corrected'
    BY <1>1, <2>1, <2>3, <2>4, <2>5 DEF Corrected
  <2> QED BY <1>1, <2>1, <2>3, <2>4, <2>6, <2>7 DEF AlsaInv
<1>3. CASE AlsaGoesOn
  <2>1. /\ alsa.loud /\ alsa' = [alsa EXCEPT !.pc = "test"] /\ UNCHANGED <<main, now_playing>>
    BY <1>3 DEF AlsaGoesOn, mux
  <2>2. /\ AlsaTyped' /\ alsa'.bus = alsa.bus /\ alsa'.loud = alsa.loud /\ alsa'.pc = "test"
        /\ alsa'.is_playing = alsa.is_playing
    BY <1>1, <2>1 DEF AlsaTyped, Movements
  <2> QED BY <1>1, <2>1, <2>2 DEF AlsaInv, BusInv, Follows, Corrected
<1>4. CASE AlsaFalls
  <2> DEFINE bus == Append(alsa.bus, "below")
  <2>1. /\ alsa.loud /\ alsa.pc = "idle" /\ UNCHANGED <<main, now_playing>>
        /\ alsa' = [alsa EXCEPT !.loud = FALSE, !.bus = bus]
    BY <1>4 DEF AlsaFalls, mux
  <2>2. /\ bus \in Seq(Movements) /\ Len(bus) = Len(alsa.bus) + 1 /\ Alternates(bus)
        /\ bus[Len(alsa.bus) + 1] = "below"
        /\ Len(alsa.bus) > 0 => bus[1] = alsa.bus[1]
    BY <1>1, <2>1, BusGrows DEF BusInv, Movements
  <2> HIDE DEF bus
  <2>3. /\ AlsaTyped' /\ alsa'.bus = bus /\ ~alsa'.loud /\ alsa'.pc = "idle"
        /\ alsa'.is_playing = alsa.is_playing
    BY <1>1, <2>1, <2>2 DEF AlsaTyped, Movements
  <2>4. Len(bus) > 0 /\ Len(bus) = Len(alsa.bus) + 1 /\ bus[Len(bus)] = "below"
    BY <1>1, <2>2
  <2>5. /\ main' \in {"lower", "stop"} => bus[1] = "above"
        /\ main' \in {"raise", "codec"} => bus[1] = "below"
        /\ Len(alsa.bus) > 0 => bus[1] = alsa.bus[1]
    <3>1. CASE Len(alsa.bus) > 0
      BY <1>1, <2>1, <2>2, <3>1 DEF BusInv, Follows
    <3>2. CASE Len(alsa.bus) = 0
      <4>1. bus[1] = "below"
        BY <2>2, <3>2
      <4> QED BY <1>1, <2>1, <3>2, <4>1 DEF BusInv, Follows
    <3> QED BY <1>1, <3>1, <3>2
  <2>6. BusInv'
    BY <2>2, <2>3, <2>4, <2>5 DEF BusInv, Follows, Alternates
  <2>7. Corrected => Corrected'
    BY <1>1, <2>1, <2>3, <2>4, <2>5 DEF Corrected
  <2> QED BY <1>1, <2>1, <2>3, <2>4, <2>6, <2>7 DEF AlsaInv
<1>5. CASE SampleTest
  <2>1. /\ alsa.pc = "test" /\ UNCHANGED <<main, now_playing>>
        /\ alsa' = [alsa EXCEPT !.pc = IF alsa.is_playing THEN "audio" ELSE "set"]
    BY <1>5 DEF SampleTest, mux
  <2>2. /\ AlsaTyped' /\ alsa'.bus = alsa.bus /\ alsa'.loud = alsa.loud
        /\ alsa'.pc \in {"audio", "set"} /\ alsa'.is_playing = alsa.is_playing
    BY <1>1, <2>1 DEF AlsaTyped, Movements
  <2> QED BY <1>1, <2>1, <2>2 DEF AlsaInv, BusInv, Follows, Corrected
<1>6. CASE SampleSet
  <2>1. /\ alsa.pc = "set" /\ UNCHANGED <<main, now_playing>>
        /\ alsa' = [alsa EXCEPT !.pc = "codec", !.is_playing = TRUE]
    BY <1>6 DEF SampleSet, mux
  <2>2. /\ AlsaTyped' /\ alsa'.bus = alsa.bus /\ alsa'.loud = alsa.loud
        /\ alsa'.pc = "codec" /\ alsa'.is_playing
    BY <1>1, <2>1 DEF AlsaTyped, Movements
  <2> QED BY <1>1, <2>1, <2>2 DEF AlsaInv, BusInv, Follows, Corrected
<1>7. CASE SampleCodec
  <2>1. alsa.pc = "codec" /\ main' = main /\ alsa' = [alsa EXCEPT !.pc = "audio"]
    BY <1>7 DEF SampleCodec
  <2>2. /\ AlsaTyped' /\ alsa'.bus = alsa.bus /\ alsa'.loud = alsa.loud
        /\ alsa'.pc = "audio" /\ alsa'.is_playing = alsa.is_playing
    BY <1>1, <2>1 DEF AlsaTyped, Movements
  <2> QED BY <1>1, <2>1, <2>2 DEF AlsaInv, BusInv, Follows, Corrected
<1>8. CASE SampleAudio
  <2>1. /\ alsa.pc = "audio" /\ UNCHANGED <<main, now_playing>>
        /\ alsa' = [alsa EXCEPT !.pc = "idle"]
    BY <1>8 DEF SampleAudio, Audio
  <2>2. /\ AlsaTyped' /\ alsa'.bus = alsa.bus /\ alsa'.loud = alsa.loud
        /\ alsa'.pc = "idle" /\ alsa'.is_playing = alsa.is_playing
    BY <1>1, <2>1 DEF AlsaTyped, Movements
  <2> QED BY <1>1, <2>1, <2>2 DEF AlsaInv, BusInv, Follows, Corrected
<1> QED BY <1>2, <1>3, <1>4, <1>5, <1>6, <1>7, <1>8 DEF NewSample

LEMMA CutterMoves ==
  ASSUME IInv, Cutter
  PROVE  AlsaInv'
<1>1. /\ alsa \in [is_playing : BOOLEAN, loud : BOOLEAN, bus : Seq(Movements),
                   pc : {"idle", "test", "set", "codec", "audio"}]
      /\ main \in {"idle", "lower", "raise", "stop", "codec"} /\ AlsaInv /\ BusInv
      /\ Len(alsa.bus) \in Nat /\ Alternates(alsa.bus)
  BY DEF IInv, AlsaInv, AlsaTyped, BusInv, Movements, Alternates
<1>2. CASE CutterMessage
  <2> DEFINE bus == Tail(alsa.bus)
  <2>1. /\ main = "idle" /\ alsa.bus # <<>> /\ now_playing' = now_playing
        /\ alsa' = [alsa EXCEPT !.bus = bus]
    BY <1>2 DEF CutterMessage, CutterTells, mux
  <2>2. /\ bus \in Seq(Movements) /\ Len(bus) = Len(alsa.bus) - 1 /\ Len(alsa.bus) > 0
        /\ Alternates(bus) /\ Head(alsa.bus) = alsa.bus[1] /\ alsa.bus[1] \in Movements
        /\ Len(bus) > 0 => /\ bus[Len(bus)] = alsa.bus[Len(alsa.bus)]
                           /\ bus[1] \in Movements /\ bus[1] # alsa.bus[1]
    BY <1>1, <2>1, BusShrinks
  <2>3. \/ alsa.bus[1] = "below" /\ alsa.is_playing /\ main' = "lower"
        \/ alsa.bus[1] = "above" /\ ~alsa.is_playing /\ main' = "raise"
        \/ alsa.bus[1] = "below" /\ ~alsa.is_playing /\ main' = "idle"
        \/ alsa.bus[1] = "above" /\ alsa.is_playing /\ main' = "idle"
    BY <1>2, <2>2 DEF CutterMessage, CutterTells, Movements
  <2> HIDE DEF bus
  <2>4. /\ AlsaTyped' /\ alsa'.bus = bus /\ alsa'.loud = alsa.loud /\ alsa'.pc = alsa.pc
        /\ alsa'.is_playing = alsa.is_playing
    BY <1>1, <2>1, <2>2, <2>3 DEF AlsaTyped, Movements
  <2>5. Len(bus) = 0 => Len(alsa.bus) = 1
    BY <1>1, <2>2
  <2>6. Len(bus) = 0 => (alsa.loud <=> alsa.bus[1] = "above")
    BY <1>1, <2>2, <2>5 DEF BusInv
  <2>7. BusInv'
    BY <1>1, <2>2, <2>3, <2>4, <2>6 DEF BusInv, Follows, Alternates, Movements
  <2>8. Len(bus) > 0 \/ Len(bus) = 0
    <3>1. Len(bus) \in Nat
      BY <2>2, LenProperties
    <3> QED BY <3>1
  <2>9. alsa'.is_playing /\ ~alsa'.loud => main' = "lower" \/ Len(alsa'.bus) > 0
    BY <2>3, <2>4, <2>6, <2>8
  <2>10. ~alsa'.is_playing /\ (now_playing' = "alsa" \/ alsa'.pc = "codec") => Corrected'
    BY <1>1, <2>1, <2>3, <2>4 DEF AlsaInv, Corrected
  <2>11. main' \in {"lower", "codec"} => alsa'.is_playing
    BY <2>3, <2>4
  <2> QED BY <1>1, <2>4, <2>7, <2>9, <2>10, <2>11 DEF AlsaInv
<1>3. CASE CutterLower
  <2>1. /\ main = "lower" /\ main' = "stop" /\ now_playing' = now_playing
        /\ alsa' = [alsa EXCEPT !.is_playing = FALSE]
    BY <1>3 DEF CutterLower, CutterSets, mux
  <2>2. /\ AlsaTyped' /\ alsa'.bus = alsa.bus /\ alsa'.loud = alsa.loud
        /\ alsa'.pc = alsa.pc /\ ~alsa'.is_playing
    BY <1>1, <2>1 DEF AlsaTyped, Movements
  <2> QED BY <1>1, <2>1, <2>2 DEF AlsaInv, BusInv, Follows, Corrected
<1>4. CASE CutterRaise
  <2>1. /\ main = "raise" /\ main' = "codec" /\ now_playing' = now_playing
        /\ alsa' = [alsa EXCEPT !.is_playing = TRUE]
    BY <1>4 DEF CutterRaise, CutterSets, mux
  <2>2. /\ AlsaTyped' /\ alsa'.bus = alsa.bus /\ alsa'.loud = alsa.loud
        /\ alsa'.pc = alsa.pc /\ alsa'.is_playing
    BY <1>1, <2>1 DEF AlsaTyped, Movements
  <2> QED BY <1>1, <2>1, <2>2 DEF AlsaInv, BusInv, Follows, Corrected
<1>5. CASE CutterStop
  <2>1. main = "stop" /\ main' = "idle" /\ alsa' = alsa /\ now_playing' # "alsa"
    BY <1>5 DEF CutterStop, Stop, Names
  <2> QED BY <1>1, <2>1 DEF AlsaInv, AlsaTyped, BusInv, Follows, Corrected
<1>6. CASE CutterCodec
  <2>1. main = "codec" /\ main' = "idle" /\ alsa' = alsa
    BY <1>6 DEF CutterCodec
  <2> QED BY <1>1, <2>1 DEF AlsaInv, AlsaTyped, BusInv, Follows, Corrected
<1> QED BY <1>2, <1>3, <1>4, <1>5, <1>6 DEF Cutter

LEMMA AlsaStep ==
  ASSUME IInv, AlsaActs
  PROVE  IInv'
<1>1. Calls("alsa") /\ "alsa" \in Names /\ UNCHANGED <<fed, blue, tcp, spot>>
  BY DEF AlsaActs, AlsaRises, AlsaGoesOn, AlsaFalls, NewSample, SampleTest, SampleSet,
         SampleCodec, SampleAudio, Cutter, CutterMessage, CutterTells, CutterLower, CutterRaise,
         CutterSets, CutterStop, CutterCodec, AlsaChanges, Calls, Names
<1>2. MuxTyped' /\ BlueInv' /\ TcpInv' /\ SpotInv'
  BY <1>1, MuxTypes, BlueStays, TcpStays, SpotStays DEF IInv
<1> QED BY <1>2, AlsaStreams, CutterMoves DEF IInv, AlsaActs

-----------------------------------------------------------------------------
(* The theorems                                                            *)

LEMMA GiveUpStep ==
  ASSUME IInv, GiveUp
  PROVE  IInv'
<1>1. UNCHANGED <<fed, latest, blue, tcp, spot, alsa, main>>
  BY DEF GiveUp
<1>2. MuxTyped'
  BY <1>1 DEF IInv, MuxTyped, GiveUp
<1> QED BY <1>1, <1>2, BlueStays, TcpStays, SpotStays, AlsaStays DEF IInv

LEMMA Starts ==
  ASSUME Init
  PROVE  IInv
<1>1. MuxTyped
  BY DEF Init, MuxTyped
<1>2. BlueInv
  BY DEF Init, BlueInv, BlueTyped, Owns, Names
<1>3. TcpInv
  BY DEF Init, TcpInv, TcpTyped, TcpShape, TcpPlays, Announced, Owns, Names
<1>4. SpotInv
  <2>1. 0 \in 0..1 /\ <<>> \in Seq({"start", "stop"})
    OBVIOUS
  <2> QED BY <2>1 DEF Init, SpotInv, SpotTyped, Owns, Names
<1>5. AlsaInv
  BY DEF Init, AlsaInv, AlsaTyped, BusInv, Follows, Corrected, Names
<1> QED BY <1>1, <1>2, <1>3, <1>4, <1>5 DEF IInv

LEMMA Steps ==
  ASSUME IInv, [Next]_vars
  PROVE  IInv'
<1>1. CASE UNCHANGED vars
  <2>1. UNCHANGED <<fed, mux, blue, tcp, spot, alsa, main>>
    BY <1>1 DEF vars, mux
  <2>2. UNCHANGED <<fed, now_playing, armed, latest, given_up>>
    BY <1>1 DEF vars
  <2>3. MuxTyped' /\ BlueInv'
    BY <2>1, <2>2 DEF IInv, MuxTyped, BlueInv, BlueTyped, Owns
  <2>4. TcpInv' /\ SpotInv'
    BY <2>1, <2>2 DEF IInv, TcpInv, TcpTyped, TcpShape, TcpPlays, Announced, SpotInv, SpotTyped,
                      Owns
  <2>5. AlsaInv'
    BY <2>1, <2>2 DEF IInv, AlsaInv, AlsaTyped, BusInv, Follows, Corrected
  <2> QED BY <2>3, <2>4, <2>5 DEF IInv
<1>2. CASE Next
  BY <1>2, GiveUpStep, BlueStep, TcpStep, SpotStep, AlsaStep
     DEF Next, TcpActs, SpotActs, AlsaActs
<1> QED BY <1>1, <1>2

LEMMA Always == Spec => []IInv
<1>1. Init => IInv
  BY Starts
<1>2. IInv /\ [Next]_vars => IInv'
  BY Steps
<1> QED BY <1>1, <1>2, PTL DEF Spec

\* Every variable keeps its type, the places of the threads and the flags of the main
\* loop among them, and spotifyd never runs two pipelines on one device.
THEOREM TypeCorrect == Spec => []TypeOK
<1>1. IInv => TypeOK
  BY DEF IInv, TypeOK, MuxTyped, BlueInv, BlueTyped, TcpInv, TcpTyped, SpotInv, SpotTyped,
         AlsaInv, AlsaTyped
<1> QED BY <1>1, Always, PTL

\* However many sources play and however late their threads are served, the one that
\* was the last to start keeps the output until it stops or is given up.
THEOREM TheLatestPlays == Spec => []LatestPlays
<1>1. ASSUME IInv, latest \in Plays, ~given_up
      PROVE  now_playing = latest
  <2>1. CASE latest = "bluealsa"
    BY <1>1, <2>1 DEF IInv, BlueInv, Owns, Plays
  <2>2. CASE latest = "tcp"
    BY <1>1, <2>2 DEF IInv, TcpInv, Owns, Plays, TcpPlays
  <2>3. CASE latest = "spotifyd"
    BY <1>1, <2>3 DEF IInv, SpotInv, Owns, Plays
  <2> QED BY <1>1, <2>1, <2>2, <2>3 DEF Plays
<1>2. IInv => LatestPlays
  BY <1>1 DEF LatestPlays
<1> QED BY <1>2, Always, PTL

\* Whoever holds the output has something to play, or has not been heard out: no end of
\* a stream and no movement of the gate is lost between the threads.
THEOREM TheOutputIsPlayed == Spec => []OutputIsPlayed
<1>1. ASSUME IInv
      PROVE  OutputIsPlayed
  <2>1. now_playing = "bluealsa" => blue.running
    BY <1>1 DEF IInv, BlueInv
  <2>2. now_playing = "tcp" => tcp.pipe \in {"streaming", "ended", "broken"} /\ Announced
    BY <1>1 DEF IInv, TcpInv
  <2>3. now_playing = "spotifyd" => spot.pipeline \/ spot.pc = "construct" \/ spot.failed
    BY <1>1 DEF IInv, SpotInv
  <2>4. ASSUME now_playing = "alsa", Shut
        PROVE  FALSE
    <3>1. ~alsa.loud /\ Len(alsa.bus) = 0 /\ main = "idle"
      BY <2>4 DEF Shut
    <3>2. ~alsa.is_playing
      BY <1>1, <3>1 DEF IInv, AlsaInv
    <3> QED BY <1>1, <2>4, <3>1, <3>2 DEF IInv, AlsaInv, Corrected
  <2> QED BY <2>1, <2>2, <2>3, <2>4 DEF OutputIsPlayed
<1> QED BY <1>1, Always, PTL

=============================================================================
