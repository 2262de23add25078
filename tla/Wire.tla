--------------------------------- MODULE Wire ---------------------------------
(***************************************************************************)
(* The wire format, src/src/common/datapacket.py, on the connection from   *)
(* the server (ServerSocket.send) to a client (ClientSocket.run).          *)
(*                                                                         *)
(* Several threads of the server send on one connection and share one      *)
(* serial number, without a lock.  A packet is a header and a payload;     *)
(* TCP carries bytes, in pieces of any size.  sendall writes as much as    *)
(* the connection takes and goes on when there is room again, so that two  *)
(* packets may be interleaved, or it times out in the middle of one.  A    *)
(* byte is modelled as the packet it belongs to and its place therein.     *)
(***************************************************************************)
EXTENDS Integers, Sequences

CONSTANTS
  Threads,       \* the threads of the server that send
  Loop,          \* the one that runs Server.run, the only one that sends audio
  HeaderLength,  \* header_length, in bytes
  MaxLength,     \* the largest length that the header's 16 bits hold
  MaxSerial,     \* the largest serial that the header's byte holds
  JsonLengths,   \* the lengths of the messages
  AudioLengths,  \* the lengths of the blocks of audio
  BufferSize,    \* buffer_size: what the client receives at once
  Window,        \* what the connection holds of unread bytes
  MaxPackets     \* bound of the model: packets that are packed

ASSUME ThreadsAssumption == Loop \in Threads
ASSUME HeaderAssumption ==
  /\ HeaderLength \in Nat \ {0} /\ MaxLength \in Nat /\ MaxSerial \in Nat
ASSUME LengthsAssumption ==
  JsonLengths \subseteq Nat \ {0} /\ AudioLengths \subseteq Nat \ {0}
ASSUME BufferAssumption ==
  /\ BufferSize \in Nat \ {0} /\ Window \in Nat \ {0} /\ MaxPackets \in Nat

VARIABLES
  serial,     \* the global serial
  sender,     \* each thread: its place, its packet and what it has written of it
  stream,     \* the bytes written to the connection, the read ones too
  received,   \* how many of them the client has received
  consumed,   \* how many of those parse has taken off rxdata
  reader,     \* the client's thread: its place and how it reads a garbled header
  sent,       \* history: the packets in the order of their first bytes, and where these are
  delivered,  \* history: what the client's slots were handed, 0 for garbage
  packed,     \* how many packets were packed
  torn        \* history: was a packet cut or interleaved with another?

vars == <<serial, sender, stream, received, consumed, reader, sent, delivered,
          packed, torn>>
network == <<stream, sent, packed, torn>>
client == <<received, consumed, reader, delivered>>

Kinds == {"json", "audio"}
Idle == [pc |-> "idle", kind |-> "json", len |-> 0, loaded |-> 0, id |-> 0, written |-> 0]
NoClaim == [kind |-> "none", len |-> 0]

Init ==
  /\ serial = 0
  /\ sender = [t \in Threads |-> Idle]
  /\ stream = <<>> /\ received = 0 /\ consumed = 0
  /\ reader = [pc |-> "recv", claim |-> NoClaim]
  /\ sent = <<>> /\ delivered = <<>> /\ packed = 0 /\ torn = FALSE

At(t, place) == sender[t].pc = place
Goes(t, place) == sender' = [sender EXCEPT ![t].pc = place]

-----------------------------------------------------------------------------
(* pack_json, pack_audio and inc_serial: the threads of the server         *)

PackIf(t, kind, len, fits) ==
  /\ At(t, "idle")
  /\ packed < MaxPackets
  /\ packed' = packed + 1
  /\ IF fits
     THEN sender' = [sender EXCEPT ![t] = [Idle EXCEPT !.pc = "load", !.kind = kind,
                                                       !.len = len]]
     ELSE IF kind = "audio" THEN Goes(t, "dead") ELSE UNCHANGED sender
  /\ UNCHANGED <<serial, stream, sent, torn, client>>

\* Mutation of Pack: the length is not checked.
PackAnyLength(t, kind, len) == PackIf(t, kind, len, serial <= MaxSerial)

\* The header is packed.  A number that does not fit raises: send catches it and
\* the packet is lost; audio is packed in Server.run, which ends.
Pack(t, kind, len) == PackIf(t, kind, len, serial <= MaxSerial /\ len <= MaxLength)

\* serial += 1, which loads, adds and stores
IncLoad(t) ==
  /\ At(t, "load")
  /\ sender' = [sender EXCEPT ![t].pc = "store", ![t].loaded = serial]
  /\ UNCHANGED <<serial, network, client>>

IncStore(t) ==
  /\ At(t, "store")
  /\ serial' = sender[t].loaded + 1
  /\ sender' = [sender EXCEPT ![t].pc = "test", ![t].loaded = 0]
  /\ UNCHANGED <<network, client>>

IncTestFor(t, overflow) ==
  /\ At(t, "test")
  /\ Goes(t, IF overflow THEN "reset" ELSE "write")
  /\ UNCHANGED <<serial, network, client>>

\* Mutation of IncTest: only the first number that does not fit is one too many.
IncTestEqual(t) == IncTestFor(t, serial = MaxSerial + 1)

\* if serial > 255
IncTest(t) == IncTestFor(t, serial > MaxSerial)

\* serial = 0
IncReset(t) ==
  /\ At(t, "reset")
  /\ serial' = 0
  /\ Goes(t, "write")
  /\ UNCHANGED <<network, client>>

-----------------------------------------------------------------------------
(* sendall, of ServerSocket.send                                           *)

Total(t) == HeaderLength + sender[t].len
Underway(t) == At(t, "write") /\ sender[t].written > 0
Room == Window - (Len(stream) - received)
Least(a, b) == IF a < b THEN a ELSE b

Piece(t) == Least(Room, Total(t) - sender[t].written)
Bytes(id, from, size) == [i \in 1..size |-> [id |-> id, at |-> from + i]]

\* As much as there is room for is written.
Sends(t, id) ==
  /\ At(t, "write") /\ Room > 0
  /\ stream' = stream \o Bytes(id, sender[t].written, Piece(t))
  /\ LET written == sender[t].written + Piece(t)
     IN  sender' = [sender EXCEPT ![t] = IF written = Total(t) THEN Idle
                                         ELSE [@ EXCEPT !.id = id, !.written = written]]
  /\ torn' = (torn \/ \E u \in Threads \ {t} : Underway(u))
  /\ UNCHANGED <<serial, packed, client>>

\* The first bytes of a packet give it its place in the order.
Begin(t) ==
  /\ sender[t].written = 0
  /\ Sends(t, Len(sent) + 1)
  /\ sent' = Append(sent, [kind |-> sender[t].kind, len |-> sender[t].len,
                           start |-> Len(stream)])

Continue(t) ==
  /\ sender[t].written > 0
  /\ Sends(t, sender[t].id)
  /\ UNCHANGED sent

\* There was no room for a second, or the client is gone: what is not written of the
\* packet is lost, send catches the exception.
Fail(t) ==
  /\ At(t, "write")
  /\ Room = 0 \/ reader.pc = "closed"
  /\ sender' = [sender EXCEPT ![t] = Idle]
  /\ torn' = (torn \/ Underway(t))
  /\ UNCHANGED <<serial, stream, sent, packed, client>>

-----------------------------------------------------------------------------
(* ClientSocket.run: the thread of the client                              *)

\* recv returns some of what has arrived.
Receive ==
  /\ reader.pc = "recv"
  /\ \E size \in 1..Least(BufferSize, Len(stream) - received) : received' = received + size
  /\ reader' = [reader EXCEPT !.pc = "parse"]
  /\ UNCHANGED <<serial, sender, network, consumed, delivered>>

Unread == received - consumed
Byte(i) == stream[consumed + i]

\* The first bytes of rxdata are the header of this packet.
IsHeaderOf(k) == \A i \in 1..HeaderLength : Byte(i) = [id |-> k, at |-> i]

\* The bytes behind the header are the payload of this packet, all of it.
IsPayloadOf(k, len) ==
  /\ len = sent[k].len
  /\ \A i \in 1..len : Byte(HeaderLength + i) = [id |-> k, at |-> HeaderLength + i]

\* What the four bytes may be taken for: a header is what was packed, anything
\* else is any length and any type.
Claims ==
  IF \E k \in 1..Len(sent) : IsHeaderOf(k)
  THEN {[kind |-> sent[Byte(1).id].kind, len |-> sent[Byte(1).id].len]}
  ELSE [kind : Kinds \cup {"flushing", "unknown"}, len : 0..MaxLength]

\* The header is read, once: what it says is not a matter of when it is parsed.
ReadHeader ==
  /\ reader.pc = "parse" /\ reader.claim = NoClaim
  /\ IF Unread < HeaderLength
     THEN reader' = [reader EXCEPT !.pc = "recv"]
     ELSE \E claim \in Claims : reader' = [reader EXCEPT !.claim = claim]
  /\ UNCHANGED <<serial, sender, network, received, consumed, delivered>>

\* The packet whose payload is handed on, 0 if it is nobody's.
Taken(len) ==
  IF \E k \in 1..Len(sent) : IsPayloadOf(k, len) THEN Byte(HeaderLength + 1).id ELSE 0

IsText(id) == \E k \in 1..Len(sent) : k = id /\ sent[k].kind = "json"

ConsumeBytes(bytes, place) ==
  /\ consumed' = consumed + bytes
  /\ reader' = [pc |-> place, claim |-> NoClaim]

\* Mutation of Consume: the payload is taken off and the header stays.
ConsumePayload(len, place) == ConsumeBytes(len, place)

\* data[header_length + length:] remains
Consume(len, place) == ConsumeBytes(HeaderLength + len, place)

\* Of what the header announces, all is there.
Complete ==
  /\ reader.pc = "parse" /\ reader.claim # NoClaim
  /\ Unread >= HeaderLength + reader.claim.len

Wait ==
  /\ reader.pc = "parse" /\ reader.claim # NoClaim
  /\ Unread < HeaderLength + reader.claim.len
  /\ reader' = [reader EXCEPT !.pc = "recv"]
  /\ UNCHANGED <<serial, sender, network, received, consumed, delivered>>

HandOnThen(next) ==
  /\ Complete
  /\ LET id == Taken(reader.claim.len)
     IN  /\ \/ reader.claim.kind = "audio" /\ reader.claim.len > 0
            \/ reader.claim.kind = "json" /\ IsText(id)
         /\ delivered' = Append(delivered, id)
  /\ Consume(reader.claim.len, next)
  /\ UNCHANGED <<serial, sender, network, received>>

\* Mutation of HandOn: one packet per recv.
HandOnOne == HandOnThen("recv")

\* The client parses on as long as it gets something.
HandOn == HandOnThen("parse")

\* A flushing packet, and one without a payload, give nothing: it waits for more.
Skip ==
  /\ Complete
  /\ \/ reader.claim.kind = "flushing"
     \/ reader.claim.kind = "audio" /\ reader.claim.len = 0
  /\ Consume(reader.claim.len, "recv")
  /\ UNCHANGED <<serial, sender, network, received, delivered>>

Stops(place) ==
  /\ reader' = [reader EXCEPT !.pc = place]
  /\ UNCHANGED <<serial, sender, network, received, consumed, delivered>>

\* Text that is not JSON raises what run does not catch: the thread is gone.
Raise ==
  /\ Complete
  /\ reader.claim.kind = "json" /\ ~IsText(Taken(reader.claim.len))
  /\ Stops("dead")

\* MalformedPacketException: the connection is closed, and the connector told.
Malformed ==
  /\ Complete
  /\ reader.claim.kind = "unknown"
  /\ Stops("closed")

-----------------------------------------------------------------------------
Step(t) ==
  \/ IncLoad(t) \/ IncStore(t) \/ IncTest(t) \/ IncReset(t)
  \/ Begin(t) \/ Continue(t) \/ Fail(t)

Reader == Receive \/ ReadHeader \/ Wait \/ HandOn \/ Skip \/ Raise \/ Malformed

Next ==
  \/ \E t \in Threads : Step(t) \/ (\E len \in JsonLengths : Pack(t, "json", len))
  \/ \E len \in AudioLengths : Pack(Loop, "audio", len)
  \/ Reader

\* The threads are scheduled; nobody is obliged to send.
Fairness == (\A t \in Threads : WF_vars(Step(t))) /\ WF_vars(Reader)

Spec == Init /\ [][Next]_vars
FairSpec == Spec /\ Fairness

-----------------------------------------------------------------------------
Incrementing == {"load", "store", "test", "reset"}

Senders == [pc : {"idle", "write", "dead"} \cup Incrementing, kind : Kinds, len : Nat,
            loaded : Nat, id : Nat, written : Nat]
Claimed == [kind : Kinds \cup {"flushing", "unknown", "none"}, len : Nat]

\* Every variable has its type: no length is packed that does not fit, the client
\* parses no more than it has received, and receives no more than was sent.
TypeOK ==
  /\ serial \in Nat /\ packed \in 0..MaxPackets
  /\ sender \in [Threads -> Senders]
  /\ stream \in Seq([id : Nat, at : Nat])
  /\ received \in 0..Len(stream) /\ consumed \in 0..received
  /\ reader \in [pc : {"recv", "parse", "closed", "dead"}, claim : Claimed]
  /\ sent \in Seq([kind : Kinds, len : 1..MaxLength, start : Nat])
  /\ delivered \in Seq(Nat)
  /\ torn \in BOOLEAN

\* The serial that several threads increment without a lock may grow too large for
\* its byte, but never for good: as soon as no thread is in inc_serial, it fits.
SerialRecovers ==
  (\A t \in Threads : sender[t].pc \notin Incrementing) => serial <= MaxSerial

\* However TCP cuts the bytes into pieces, the client's slots are handed the packets
\* that were sent, in their order and without a gap, and its thread is never lost, as
\* long as no sendall was interleaved with another or cut by its timeout.
ArriveInOrder ==
  ~torn => /\ reader.pc \notin {"closed", "dead"}
           /\ Len(delivered) <= Len(sent)
           /\ \A k \in 1..Len(delivered) : delivered[k] = k

\* Nor does the client keep a packet back: what was sent is handed on, without
\* waiting for the next packet to arrive.
AllArrive ==
  \A k \in 1..MaxPackets : Len(sent) >= k ~> Len(delivered) >= k \/ torn

=============================================================================
