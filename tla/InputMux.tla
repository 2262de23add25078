------------------------------ MODULE InputMux ------------------------------
(***************************************************************************)
(* The input multiplexer of the server, src/src/server/inputmux.py.        *)
(*                                                                         *)
(* Every source runs a thread of its own and calls source_event, whose     *)
(* body holds source_event_lock: the lock's holder is the variable         *)
(* `handler'.  The thread of the multiplexer itself, run(), counts the     *)
(* timeout of the playing source down and takes NO lock: it is the         *)
(* variable `ticker'.  Both threads write now_playing, timeout_counter     *)
(* and the queue, so each of their reads and writes of those three is a    *)
(* step of its own; what only the lock's holder touches is merged.         *)
(* The server polls the queue (event_poll).                                *)
(***************************************************************************)
EXTENDS Integers, Sequences, FiniteSets

CONSTANTS
  Sources,        \* the sources that deliver events
  None,           \* Python's None
  TimeoutTicks,   \* timeout_preset_ticks
  MinBlock,       \* audiominblocksize, in chunks of audio
  MaxQueue        \* bound of the model: no event arrives at a longer queue

ASSUME NoneAssumption == None \notin Sources /\ None \notin Int
ASSUME TimeoutAssumption == TimeoutTicks \in Nat \ {0}
ASSUME MinBlockAssumption == MinBlock \in Nat \ {0}

VARIABLES
  now_playing,      \* the source that owns the output, or None
  timeout_counter,  \* ticks left before the source is given up, or None
  audio_buffer,     \* the chunks collected, and whose they are
  queue,            \* queue.Queue: the events the server has not polled yet
  handler,          \* the thread in source_event: its place and its event
  ticker,           \* the thread in run: its place and the value it loaded
  latest,           \* history: whose codec event was put last, {} before any
  stream            \* history: whose codec event was polled last

vars == <<now_playing, timeout_counter, audio_buffer, queue, handler, ticker,
          latest, stream>>
history == <<latest, stream>>

\* "other" is any key that is forwarded untouched (samplerate, volume);
\* "flush" also stands for a state that is not 'stop': both are dropped.
Keys == {"codec", "audio", "stop", "flush", "other"}
Owner == Sources \cup {None}
Ticks == 0..TimeoutTicks \cup {None}
Item == [key : {"codec", "audio", "stop", "other"}, from : SUBSET Sources]
Free == [pc |-> "free", key |-> "flush", source |-> None]
EmptyBuffer == [len |-> 0, from |-> {}]

Init ==
  /\ now_playing = None
  /\ timeout_counter = None
  /\ audio_buffer = EmptyBuffer
  /\ queue = <<>>
  /\ handler = Free
  /\ ticker = [pc |-> "sleep", loaded |-> 0]
  /\ latest = {}
  /\ stream = {}

\* new_event: an event is put at the end of the queue
Put(key, from) == queue' = Append(queue, [key |-> key, from |-> from])

At(place) == handler.pc = place
Goto(place) == handler' = [handler EXCEPT !.pc = place]

-----------------------------------------------------------------------------
(* source_event: the thread of a source, under source_event_lock           *)

\* A source delivers an event and takes the lock.
Enter(s, key) ==
  /\ At("free")
  /\ Len(queue) < MaxQueue
  /\ handler' = [pc |-> IF key = "codec" THEN "codec" ELSE "check",
                 key |-> key, source |-> s]
  /\ UNCHANGED <<now_playing, timeout_counter, audio_buffer, queue, ticker,
                 history>>

\* if self.now_playing: stop_playing() comes first, the source being ditched
Codec ==
  /\ At("codec")
  /\ Goto(IF now_playing # None THEN "clear" ELSE "claim")
  /\ UNCHANGED <<now_playing, timeout_counter, audio_buffer, queue, ticker,
                 history>>

\* stop_playing, its three statements, called for a codec or for a stop
StopClear ==
  /\ At("clear")
  /\ now_playing' = None
  /\ Goto("disarm")
  /\ UNCHANGED <<timeout_counter, audio_buffer, queue, ticker, history>>

StopDisarm ==
  /\ At("disarm")
  /\ timeout_counter' = None
  /\ Goto("put")
  /\ UNCHANGED <<now_playing, audio_buffer, queue, ticker, history>>

StopPut ==
  /\ At("put")
  /\ Put("stop", {})
  /\ IF handler.key = "codec" THEN Goto("claim") ELSE handler' = Free
  /\ UNCHANGED <<now_playing, timeout_counter, audio_buffer, ticker, history>>

ClaimWith(buffer) ==
  /\ At("claim")
  /\ now_playing' = handler.source
  /\ audio_buffer' = buffer
  /\ Goto("check")
  /\ UNCHANGED <<timeout_counter, queue, ticker, history>>

\* Mutation of Claim: what was collected of the ditched source stays.
ClaimKeepsBuffer == ClaimWith(audio_buffer)

\* the latest source that started playing is the winner
Claim == ClaimWith(EmptyBuffer)

CheckIf(playing) ==
  /\ At("check")
  /\ IF ~playing
     THEN handler' = Free
     ELSE Goto(CASE handler.key = "audio" -> "arm"
                 [] handler.key = "stop" -> "clear"
                 [] OTHER -> "forward")
  /\ UNCHANGED <<now_playing, timeout_counter, audio_buffer, queue, ticker,
                 history>>

\* Mutation of Check: anybody passes while somebody plays.
CheckAnybody == CheckIf(now_playing # None)

\* if not self.now_playing or self.now_playing != source: return
Check == CheckIf(now_playing = handler.source)

\* audio arrived: the timeout starts over
Arm ==
  /\ At("arm")
  /\ timeout_counter' = TimeoutTicks
  /\ Goto("forward")
  /\ UNCHANGED <<now_playing, audio_buffer, queue, ticker, history>>

CollectOrPass(full) ==
  /\ At("forward") /\ handler.key = "audio"
  /\ LET from == audio_buffer.from \cup {handler.source}
     IN  IF full
         THEN /\ audio_buffer' = EmptyBuffer
              /\ Put("audio", from)
         ELSE /\ audio_buffer' = [len |-> audio_buffer.len + 1, from |-> from]
              /\ UNCHANGED queue
  /\ handler' = Free
  /\ UNCHANGED <<now_playing, timeout_counter, ticker, history>>

\* Mutation of Collect: a full block waits for the next chunk.
CollectOffByOne == CollectOrPass(audio_buffer.len + 1 > MinBlock)

\* audio is collected until it makes a block, and the block is passed on
Collect == CollectOrPass(audio_buffer.len + 1 >= MinBlock)

\* every other event of the playing source is passed on, a flush is not
Forward ==
  /\ At("forward") /\ handler.key # "audio"
  /\ IF handler.key = "flush" THEN UNCHANGED queue
                              ELSE Put(handler.key, {handler.source})
  /\ latest' = IF handler.key = "codec" THEN {handler.source} ELSE latest
  /\ handler' = Free
  /\ UNCHANGED <<now_playing, timeout_counter, audio_buffer, ticker, stream>>

SourceEvent ==
  \/ Codec \/ StopClear \/ StopDisarm \/ StopPut
  \/ Claim \/ Check \/ Arm \/ Collect \/ Forward

-----------------------------------------------------------------------------
(* run: the multiplexer's own thread, every 0.1 s and without the lock     *)

TickerAt(place) == ticker.pc = place
TickerGoto(place) == ticker' = [ticker EXCEPT !.pc = place]

\* if self.timeout_counter: neither None nor 0
TickWake ==
  /\ TickerAt("sleep")
  /\ timeout_counter \notin {None, 0}
  /\ TickerGoto("load")
  /\ UNCHANGED <<now_playing, timeout_counter, audio_buffer, queue, handler,
                 history>>

\* self.timeout_counter -= 1 reads the counter again; None - 1 raises, and
\* the exception ends the round
TickLoad ==
  /\ TickerAt("load")
  /\ IF timeout_counter = None
     THEN TickerGoto("sleep")
     ELSE ticker' = [pc |-> "store", loaded |-> timeout_counter]
  /\ UNCHANGED <<now_playing, timeout_counter, audio_buffer, queue, handler,
                 history>>

TickStore ==
  /\ TickerAt("store")
  /\ timeout_counter' = ticker.loaded - 1
  /\ TickerGoto("test")
  /\ UNCHANGED <<now_playing, audio_buffer, queue, handler, history>>

TickTestFor(given_up) ==
  /\ TickerAt("test")
  /\ TickerGoto(IF given_up THEN "clear" ELSE "sleep")
  /\ UNCHANGED <<now_playing, timeout_counter, audio_buffer, queue, handler,
                 history>>

\* Mutation of TickTest: `is None' in place of `not', so 0 is no timeout.
TickTestIsNone == TickTestFor(timeout_counter = None)

\* if not self.timeout_counter: 0, and None just as well
TickTest == TickTestFor(timeout_counter \in {None, 0})

\* stop_playing, its three statements
TickClear ==
  /\ TickerAt("clear")
  /\ now_playing' = None
  /\ TickerGoto("disarm")
  /\ UNCHANGED <<timeout_counter, audio_buffer, queue, handler, history>>

TickDisarm ==
  /\ TickerAt("disarm")
  /\ timeout_counter' = None
  /\ TickerGoto("put")
  /\ UNCHANGED <<now_playing, audio_buffer, queue, handler, history>>

TickPut ==
  /\ TickerAt("put")
  /\ Put("stop", {})
  /\ TickerGoto("sleep")
  /\ UNCHANGED <<now_playing, timeout_counter, audio_buffer, handler, history>>

Tick ==
  \/ TickWake \/ TickLoad \/ TickStore \/ TickTest
  \/ TickClear \/ TickDisarm \/ TickPut

\* event_poll: the server's loop takes the oldest event
Poll ==
  /\ queue # <<>>
  /\ stream' = IF Head(queue).key = "codec" THEN Head(queue).from ELSE stream
  /\ queue' = Tail(queue)
  /\ UNCHANGED <<now_playing, timeout_counter, audio_buffer, handler, ticker,
                 latest>>

Next ==
  \/ \E s \in Sources, key \in Keys : Enter(s, key)
  \/ SourceEvent
  \/ Tick
  \/ Poll

\* The threads are scheduled; nothing obliges a source to deliver an event.
Fairness == WF_vars(SourceEvent) /\ WF_vars(Tick)

Spec == Init /\ [][Next]_vars
FairSpec == Spec /\ Fairness

-----------------------------------------------------------------------------
HandlerPlaces == {"free", "codec", "clear", "disarm", "put", "claim", "check",
                  "arm", "forward"}
TickerPlaces == {"sleep", "load", "store", "test", "clear", "disarm", "put"}

\* Every variable has its type: the counter is None or within the preset,
\* and only events that may be passed on are queued.
TypeOK ==
  /\ now_playing \in Owner
  /\ timeout_counter \in Ticks
  /\ audio_buffer \in [len : 0..(MinBlock - 1), from : SUBSET Sources]
  /\ queue \in Seq(Item)
  /\ handler \in [pc : HandlerPlaces, key : Keys, source : Owner]
  /\ handler.source = None => handler.pc = "free"
  /\ ticker \in [pc : TickerPlaces, loaded : 0..TimeoutTicks]
  /\ latest \in SUBSET Sources
  /\ stream \in SUBSET Sources

NoCodecIn(q, first, last) == \A k \in first..last : q[k].key # "codec"

\* The codec that the server goes by when it reaches place j of the queue q is
\* from the sources `from': it is the nearest codec before j or, when none is
\* queued before j, the one that was polled last.
FollowsCodecOf(q, polled, j, from) ==
  /\ \A k \in 1..(j - 1) :
       q[k].key = "codec" /\ NoCodecIn(q, k + 1, j - 1) => from \subseteq q[k].from
  /\ NoCodecIn(q, 1, j - 1) => from \subseteq polled

InCodecOrder(q, polled) ==
  \A j \in 1..Len(q) :
    q[j].key = "audio" => FollowsCodecOf(q, polled, j, q[j].from)

\* The server never takes audio of one source for another's: however the
\* sources take turns and the ticker interferes, every block queued by
\* source_event holds audio of one source only, the one whose codec event is
\* the nearest before the block.
AudioMatchesCodec == InCodecOrder(queue, stream)

\* Once the sources have fallen silent for good, the ticker of run() gives the
\* last one up: the counter it armed does not stay up, and not at 0 either,
\* where `if self.timeout_counter' would ignore it for ever.
SilentSourceStops == <>[](handler = Free) => <>[](timeout_counter = None)

\* What source_event and run put into the queue, in every order of their statements,
\* is one stream: whoever takes over is heard from its codec on, and what is queued
\* until the next codec is of nobody else.
Promise == INSTANCE Stream WITH events <- queue, source <- latest, heard <- stream
IsOneStream == Promise!Spec

=============================================================================
