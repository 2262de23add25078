-------------------------------- MODULE Stream --------------------------------
(***************************************************************************)
(* What the input multiplexer promises the server, and all that the server *)
(* relies on when it hands audio to the play sequencer: the events of many *)
(* sources are one stream.  It has one source at a time, the last to send  *)
(* a codec, whose blocks are of that source alone; it may be interrupted   *)
(* by a stop at any moment; the server takes the events in their order.    *)
(* InputMux implements it, with two threads and no common lock.            *)
(***************************************************************************)
EXTENDS Sequences

CONSTANT Sources

VARIABLES
  events,   \* the events that the server has not taken yet
  source,   \* whose stream it is, {} before the first codec
  heard     \* whose stream the server has heard of

vars == <<events, source, heard>>

Init == events = <<>> /\ source = {} /\ heard = {}

Emit(key, from) == events' = Append(events, [key |-> key, from |-> from])

\* A source takes over.
Start(s) == Emit("codec", {s}) /\ source' = {s} /\ UNCHANGED heard

\* A block of audio, or a rate or a volume, of the source whose stream it is.
Go(key) == source # {} /\ Emit(key, source) /\ UNCHANGED <<source, heard>>

\* The source stopped, was ditched or fell silent.
Stop == Emit("stop", {}) /\ UNCHANGED <<source, heard>>

\* The server takes the oldest event.
Take ==
  /\ events # <<>>
  /\ events' = Tail(events)
  /\ heard' = IF Head(events).key = "codec" THEN Head(events).from ELSE heard
  /\ UNCHANGED source

Next ==
  \/ \E s \in Sources : Start(s)
  \/ \E key \in {"audio", "other"} : Go(key)
  \/ Stop
  \/ Take

Spec == Init /\ [][Next]_vars

=============================================================================
