------------------------------ MODULE WireProofs ------------------------------
(***************************************************************************)
(* Proofs about the wire format, for any number of threads, any lengths    *)
(* and any sizes of the buffers: the variables keep their types, the       *)
(* serial does not stay too large, and what one sender at a time writes    *)
(* is handed on in order, however it is cut into pieces.                   *)
(***************************************************************************)
EXTENDS Wire, SequenceTheorems, TLAPS

USE ThreadsAssumption, HeaderAssumption, LengthsAssumption, BufferAssumption

Packing == Incrementing \cup {"write"}

\* What a thread has to send fits the header, and is not written in full: a thread
\* that has nothing to write has written nothing.
Fits(s) ==
  /\ s.pc \in Packing => s.len \in 1..MaxLength /\ s.written < HeaderLength + s.len
  /\ s.pc # "write" => s.written = 0

AllFit == \A t \in Threads : Fits(sender[t])

\* A serial that is too large is put right by a thread that is about to do so.
SomeoneResets ==
  serial > MaxSerial => \E t \in Threads : sender[t].pc \in {"test", "reset"}

Typed == TypeOK /\ AllFit /\ SomeoneResets

-----------------------------------------------------------------------------
(* What each step of a thread does to its own record, and to no other      *)

Alone(t) == \A u \in Threads \ {t} : sender'[u] = sender[u]

LEMMA IdleLemma == Idle \in Senders /\ Idle.pc = "idle" /\ Idle.written = 0
  BY DEF Idle, Senders, Kinds

LEMMA GoesLemma ==
  ASSUME sender \in [Threads -> Senders], NEW t \in Threads,
         NEW place \in {"idle", "write", "dead"} \cup Incrementing, Goes(t, place)
  PROVE  /\ sender' \in [Threads -> Senders] /\ Alone(t)
         /\ sender'[t].pc = place /\ sender'[t].len = sender[t].len
         /\ sender'[t].kind = sender[t].kind
         /\ sender'[t].written = sender[t].written /\ sender'[t].id = sender[t].id
<1> DEFINE r == [sender[t] EXCEPT !.pc = place]
<1>1. sender[t] \in Senders
  OBVIOUS
<1>2. /\ r \in Senders /\ r.pc = place /\ r.len = sender[t].len /\ r.kind = sender[t].kind
      /\ r.written = sender[t].written /\ r.id = sender[t].id
  BY <1>1 DEF Senders, Incrementing
<1>3. sender' = [sender EXCEPT ![t] = r]
  BY DEF Goes
<1> HIDE DEF r
<1> QED BY <1>2, <1>3 DEF Alone

LEMMA IncLoadLemma ==
  ASSUME sender \in [Threads -> Senders], serial \in Nat, NEW t \in Threads, IncLoad(t)
  PROVE  /\ sender' \in [Threads -> Senders] /\ Alone(t)
         /\ sender[t].pc = "load" /\ sender'[t].pc = "store"
         /\ sender'[t].len = sender[t].len /\ sender'[t].written = sender[t].written
<1> DEFINE r == [sender[t] EXCEPT !.pc = "store", !.loaded = serial]
<1>1. sender[t] \in Senders
  OBVIOUS
<1>2. /\ r \in Senders /\ r.pc = "store" /\ r.len = sender[t].len
      /\ r.written = sender[t].written
  BY <1>1 DEF Senders, Incrementing
<1>3. sender' = [sender EXCEPT ![t] = r]
  BY DEF IncLoad
<1>4. sender[t].pc = "load"
  BY DEF IncLoad, At
<1> HIDE DEF r
<1> QED BY <1>2, <1>3, <1>4 DEF Alone

LEMMA IncStoreLemma ==
  ASSUME sender \in [Threads -> Senders], NEW t \in Threads, IncStore(t)
  PROVE  /\ sender' \in [Threads -> Senders] /\ Alone(t)
         /\ sender[t].pc = "store" /\ sender'[t].pc = "test" /\ serial' \in Nat
         /\ sender'[t].len = sender[t].len /\ sender'[t].written = sender[t].written
<1> DEFINE r == [sender[t] EXCEPT !.pc = "test", !.loaded = 0]
<1>1. sender[t] \in Senders
  OBVIOUS
<1>2. /\ r \in Senders /\ r.pc = "test" /\ r.len = sender[t].len
      /\ r.written = sender[t].written
  BY <1>1 DEF Senders, Incrementing
<1>3. sender' = [sender EXCEPT ![t] = r]
  BY DEF IncStore
<1>4. sender[t].pc = "store" /\ serial' = sender[t].loaded + 1 /\ sender[t].loaded \in Nat
  BY <1>1 DEF IncStore, At, Senders
<1> HIDE DEF r
<1> QED BY <1>2, <1>3, <1>4 DEF Alone

\* The one that packs has a new packet, or none, and has been idle.
LEMMA PackLemma ==
  ASSUME sender \in [Threads -> Senders], NEW t \in Threads, NEW kind \in Kinds,
         NEW len \in Nat \ {0}, Pack(t, kind, len)
  PROVE  /\ sender' \in [Threads -> Senders] /\ Alone(t)
         /\ sender[t].pc = "idle" /\ sender'[t].pc \in {"idle", "load", "dead"}
         /\ \/ sender'[t].pc = "load" /\ sender'[t].len = len /\ len <= MaxLength
               /\ sender'[t].written = 0
            \/ sender'[t].pc # "load" /\ sender'[t].written = sender[t].written
         /\ packed' = packed + 1 /\ packed < MaxPackets
         /\ UNCHANGED <<serial, stream, sent, torn, client>>
<1> DEFINE r == [Idle EXCEPT !.pc = "load", !.kind = kind, !.len = len]
<1>1. /\ r \in Senders /\ r.pc = "load" /\ r.len = len /\ r.written = 0
  BY DEF Idle, Senders, Kinds, Incrementing
<1>2. /\ At(t, "idle") /\ packed' = packed + 1 /\ packed < MaxPackets
      /\ UNCHANGED <<serial, stream, sent, torn, client>>
      /\ IF serial <= MaxSerial /\ len <= MaxLength
         THEN sender' = [sender EXCEPT ![t] = r]
         ELSE IF kind = "audio" THEN Goes(t, "dead") ELSE UNCHANGED sender
  BY DEF Pack, PackIf
<1> HIDE DEF r
<1>3. CASE serial <= MaxSerial /\ len <= MaxLength
  <2>1. sender' = [sender EXCEPT ![t] = r]
    BY <1>2, <1>3
  <2> QED BY <1>1, <1>2, <1>3, <2>1 DEF Alone, At
<1>4. CASE ~(serial <= MaxSerial /\ len <= MaxLength) /\ kind = "audio"
  <2>1. Goes(t, "dead")
    BY <1>2, <1>4
  <2> QED BY <1>2, <2>1, GoesLemma DEF At
<1>5. CASE ~(serial <= MaxSerial /\ len <= MaxLength) /\ kind # "audio"
  BY <1>2, <1>5 DEF At, Alone
<1> QED BY <1>3, <1>4, <1>5

\* What the thread writes: at least a byte and at most the rest of its packet.
LEMMA BytesLemma ==
  ASSUME NEW id \in Nat, NEW from \in Nat, NEW size \in Nat
  PROVE  LET b == Bytes(id, from, size)
         IN  /\ b \in Seq([id : Nat, at : Nat]) /\ Len(b) = size
             /\ \A i \in 1..size : b[i] = [id |-> id, at |-> from + i]
  BY DEF Bytes

LEMMA ConcatLemma ==
  ASSUME NEW S, NEW a \in Seq(S), NEW b \in Seq(S)
  PROVE  /\ a \o b \in Seq(S) /\ Len(a \o b) = Len(a) + Len(b)
         /\ \A i \in 1..Len(a) : (a \o b)[i] = a[i]
         /\ \A i \in 1..Len(b) : (a \o b)[Len(a) + i] = b[i]
<1>1. Len(a) \in Nat /\ Len(b) \in Nat
  OBVIOUS
<1>2. /\ a \o b \in Seq(S) /\ Len(a \o b) = Len(a) + Len(b)
      /\ \A i \in 1..Len(a) + Len(b) :
           (a \o b)[i] = IF i <= Len(a) THEN a[i] ELSE b[i - Len(a)]
  BY ConcatProperties
<1> DEFINE c == a \o b
<1> HIDE DEF c
<1>3. \A i \in 1..Len(a) : c[i] = a[i]
  BY <1>1, <1>2 DEF c
<1>4. \A i \in 1..Len(b) : c[Len(a) + i] = b[i]
  <2> TAKE i \in 1..Len(b)
  <2>1. Len(a) + i \in 1..Len(a) + Len(b) /\ ~(Len(a) + i <= Len(a)) /\ Len(a) + i - Len(a) = i
    BY <1>1
  <2> QED BY <1>2, <2>1 DEF c
<1> QED BY <1>2, <1>3, <1>4 DEF c

\* sendall appends to the connection what there is room for of the packet, and is done
\* with it or not.
LEMMA SendsLemma ==
  ASSUME TypeOK, NEW t \in Threads, Fits(sender[t]), NEW id \in Nat, Sends(t, id)
  PROVE  LET size == Piece(t)
             written == sender[t].written + size
         IN  /\ sender[t].pc = "write" /\ sender[t] \in Senders
             /\ size \in 1..(Total(t) - sender[t].written)
             /\ stream' \in Seq([id : Nat, at : Nat]) /\ Len(stream') = Len(stream) + size
             /\ \A i \in 1..Len(stream) : stream'[i] = stream[i]
             /\ \A i \in 1..size : stream'[Len(stream) + i] =
                                     [id |-> id, at |-> sender[t].written + i]
             /\ sender' \in [Threads -> Senders] /\ Alone(t)
             /\ \/ written = Total(t) /\ sender'[t] = Idle
                \/ /\ written < Total(t) /\ sender'[t].pc = "write"
                   /\ sender'[t].written = written /\ sender'[t].id = id
                   /\ sender'[t].len = sender[t].len /\ sender'[t].kind = sender[t].kind
<1> DEFINE size == Piece(t)
           written == sender[t].written + size
           r == [sender[t] EXCEPT !.id = id, !.written = written]
<1>1. sender[t] \in Senders /\ sender[t].pc = "write"
  BY DEF TypeOK, Sends, At
<1>2. /\ sender[t].written \in Nat /\ sender[t].len \in Nat
      /\ sender[t].written < Total(t) /\ Total(t) \in Nat
  BY <1>1 DEF Senders, Fits, Packing, Total
<1>3. Room \in Nat \ {0}
  BY DEF Sends, Room, TypeOK
<1>4. size \in 1..(Total(t) - sender[t].written)
  BY <1>2, <1>3 DEF Piece, Least
<1>11. size \in Nat /\ written \in Nat
  BY <1>2, <1>4
<1>5. /\ stream' = stream \o Bytes(id, sender[t].written, size)
      /\ sender' = [sender EXCEPT ![t] = IF written = Total(t) THEN Idle ELSE r]
  BY DEF Sends
<1>6. /\ r \in Senders /\ r.pc = "write" /\ r.written = written /\ r.id = id
      /\ r.len = sender[t].len /\ r.kind = sender[t].kind
  <2> HIDE DEF written
  <2> QED BY <1>1, <1>2, <1>11 DEF Senders
<1> HIDE DEF r, size
<1>7. /\ stream' \in Seq([id : Nat, at : Nat]) /\ Len(stream') = Len(stream) + size
      /\ \A i \in 1..Len(stream) : stream'[i] = stream[i]
      /\ \A i \in 1..size : stream'[Len(stream) + i] =
                              [id |-> id, at |-> sender[t].written + i]
  <2> DEFINE b == Bytes(id, sender[t].written, size)
  <2>1. /\ b \in Seq([id : Nat, at : Nat]) /\ Len(b) = size
        /\ \A i \in 1..size : b[i] = [id |-> id, at |-> sender[t].written + i]
    BY <1>2, <1>11, BytesLemma
  <2>2. stream \in Seq([id : Nat, at : Nat]) /\ stream' = stream \o b
    BY <1>5 DEF TypeOK
  <2> HIDE DEF b
  <2>3. /\ stream \o b \in Seq([id : Nat, at : Nat]) /\ Len(stream \o b) = Len(stream) + size
        /\ \A i \in 1..Len(stream) : (stream \o b)[i] = stream[i]
        /\ \A i \in 1..size : (stream \o b)[Len(stream) + i] = b[i]
    <3> DEFINE B == [id : Nat, at : Nat]
    <3>1. stream \in Seq(B) /\ b \in Seq(B)
      BY <2>1, <2>2
    <3> HIDE DEF B
    <3>2. /\ stream \o b \in Seq(B) /\ Len(stream \o b) = Len(stream) + Len(b)
          /\ \A i \in 1..Len(stream) : (stream \o b)[i] = stream[i]
          /\ \A i \in 1..Len(b) : (stream \o b)[Len(stream) + i] = b[i]
      BY <3>1, ConcatLemma
    <3> QED BY <2>1, <3>2 DEF B
  <2> QED BY <2>1, <2>2, <2>3
<1>8. sender' \in [Threads -> Senders] /\ Alone(t)
  BY <1>5, <1>6, IdleLemma DEF Alone, TypeOK
<1>9. sender'[t] = IF written = Total(t) THEN Idle ELSE r
  BY <1>5 DEF TypeOK
<1>10. written <= Total(t)
  BY <1>2, <1>4
<1>12. \/ written = Total(t) /\ sender'[t] = Idle
       \/ /\ written < Total(t) /\ sender'[t].pc = "write"
          /\ sender'[t].written = written /\ sender'[t].id = id
          /\ sender'[t].len = sender[t].len /\ sender'[t].kind = sender[t].kind
  <2> HIDE DEF written
  <2> QED BY <1>2, <1>6, <1>9, <1>10, <1>11
<1> QED BY <1>1, <1>4, <1>7, <1>8, <1>12 DEF size

LEMMA FailLemma ==
  ASSUME sender \in [Threads -> Senders], NEW t \in Threads, Fail(t)
  PROVE  /\ sender' \in [Threads -> Senders] /\ Alone(t)
         /\ sender[t].pc = "write" /\ sender'[t] = Idle
  BY IdleLemma DEF Fail, At, Alone

-----------------------------------------------------------------------------
(* Types, and the serial                                                   *)

LEMMA AllFitLemma ==
  ASSUME AllFit, NEW t \in Threads, Alone(t), Fits(sender'[t])
  PROVE  AllFit'
  BY DEF AllFit, Alone, Fits

\* A thread that was to reset the serial is still to do so, or the serial fits.
LEMMA SomeoneLemma ==
  ASSUME SomeoneResets, serial' = serial, NEW t \in Threads, Alone(t),
         sender[t].pc \in {"test", "reset"} =>
           sender'[t].pc \in {"test", "reset"} \/ ~(serial > MaxSerial)
  PROVE  SomeoneResets'
  BY DEF SomeoneResets, Alone

LEMMA IdleFits == Fits(Idle)
  BY DEF Fits, Idle, Packing, Incrementing

\* The steps of inc_serial disturb the serial and the thread's own record.
LEMMA IncStep ==
  ASSUME Typed, NEW t \in Threads, IncLoad(t) \/ IncStore(t) \/ IncTest(t) \/ IncReset(t)
  PROVE  Typed'
<1>1. /\ sender \in [Threads -> Senders] /\ serial \in Nat /\ Fits(sender[t])
      /\ AllFit /\ SomeoneResets
  BY DEF Typed, TypeOK, AllFit
<1>2. CASE IncLoad(t)
  <2>1. serial' = serial /\ UNCHANGED <<network, client>>
    BY <1>2 DEF IncLoad
  <2>2. /\ sender' \in [Threads -> Senders] /\ Alone(t)
        /\ sender[t].pc = "load" /\ sender'[t].pc = "store"
        /\ sender'[t].len = sender[t].len /\ sender'[t].written = sender[t].written
    BY <1>1, <1>2, IncLoadLemma
  <2>3. Fits(sender'[t])
    BY <1>1, <2>2 DEF Fits, Packing, Incrementing
  <2>4. AllFit' /\ SomeoneResets'
    BY <1>1, <2>1, <2>2, <2>3, AllFitLemma, SomeoneLemma
  <2> QED BY <2>1, <2>2, <2>4 DEF Typed, TypeOK, network, client
<1>3. CASE IncStore(t)
  <2>1. UNCHANGED <<network, client>>
    BY <1>3 DEF IncStore
  <2>2. /\ sender' \in [Threads -> Senders] /\ Alone(t)
        /\ sender[t].pc = "store" /\ sender'[t].pc = "test" /\ serial' \in Nat
        /\ sender'[t].len = sender[t].len /\ sender'[t].written = sender[t].written
    BY <1>1, <1>3, IncStoreLemma
  <2>3. Fits(sender'[t])
    BY <1>1, <2>2 DEF Fits, Packing, Incrementing
  <2>4. AllFit' /\ SomeoneResets'
    BY <1>1, <2>2, <2>3, AllFitLemma DEF SomeoneResets
  <2> QED BY <2>1, <2>2, <2>4 DEF Typed, TypeOK, network, client
<1>4. CASE IncTest(t)
  <2>1. /\ serial' = serial /\ UNCHANGED <<network, client>> /\ sender[t].pc = "test"
        /\ Goes(t, IF serial > MaxSerial THEN "reset" ELSE "write")
    BY <1>4 DEF IncTest, IncTestFor, At
  <2> DEFINE place == IF serial > MaxSerial THEN "reset" ELSE "write"
  <2>2. place \in {"idle", "write", "dead"} \cup Incrementing
    BY DEF Incrementing
  <2>3. /\ sender' \in [Threads -> Senders] /\ Alone(t)
        /\ sender'[t].pc = place /\ sender'[t].len = sender[t].len
        /\ sender'[t].written = sender[t].written
    BY <1>1, <2>1, <2>2, GoesLemma
  <2>4. Fits(sender'[t])
    BY <1>1, <2>1, <2>3 DEF Fits, Packing, Incrementing
  <2>5. AllFit' /\ SomeoneResets'
    BY <1>1, <2>1, <2>3, <2>4, AllFitLemma, SomeoneLemma
  <2> QED BY <2>1, <2>3, <2>5 DEF Typed, TypeOK, network, client
<1>5. CASE IncReset(t)
  <2>1. serial' = 0 /\ UNCHANGED <<network, client>> /\ sender[t].pc = "reset" /\ Goes(t, "write")
    BY <1>5 DEF IncReset, At
  <2>2. /\ sender' \in [Threads -> Senders] /\ Alone(t)
        /\ sender'[t].pc = "write" /\ sender'[t].len = sender[t].len
        /\ sender'[t].written = sender[t].written
    BY <1>1, <2>1, GoesLemma
  <2>3. Fits(sender'[t])
    BY <1>1, <2>1, <2>2 DEF Fits, Packing, Incrementing
  <2>4. AllFit' /\ SomeoneResets'
    BY <1>1, <2>1, <2>2, <2>3, AllFitLemma DEF SomeoneResets
  <2> QED BY <2>1, <2>2, <2>4 DEF Typed, TypeOK, network, client
<1> QED BY <1>2, <1>3, <1>4, <1>5

LEMMA PackStep ==
  ASSUME Typed, NEW t \in Threads, NEW kind \in Kinds, NEW len \in Nat \ {0},
         Pack(t, kind, len)
  PROVE  Typed'
<1>1. /\ sender \in [Threads -> Senders] /\ Fits(sender[t]) /\ AllFit /\ SomeoneResets
  BY DEF Typed, TypeOK, AllFit
<1>2. /\ sender' \in [Threads -> Senders] /\ Alone(t)
      /\ sender[t].pc = "idle" /\ sender'[t].pc \in {"idle", "load", "dead"}
      /\ \/ sender'[t].pc = "load" /\ sender'[t].len = len /\ len <= MaxLength
            /\ sender'[t].written = 0
         \/ sender'[t].pc # "load" /\ sender'[t].written = sender[t].written
      /\ packed' = packed + 1 /\ packed < MaxPackets
      /\ UNCHANGED <<serial, stream, sent, torn, client>>
  BY <1>1, PackLemma
<1>3. Fits(sender'[t])
  BY <1>1, <1>2 DEF Fits, Packing, Incrementing
<1>4. AllFit' /\ SomeoneResets'
  BY <1>1, <1>2, <1>3, AllFitLemma, SomeoneLemma
<1>5. packed' \in 0..MaxPackets
  BY <1>2 DEF Typed, TypeOK
<1> QED BY <1>2, <1>4, <1>5 DEF Typed, TypeOK, client

LEMMA SendsStep ==
  ASSUME Typed, NEW t \in Threads, NEW id \in Nat, Sends(t, id),
         sent' \in Seq([kind : Kinds, len : 1..MaxLength, start : Nat])
  PROVE  Typed'
<1>1. /\ TypeOK /\ sender \in [Threads -> Senders] /\ Fits(sender[t])
      /\ AllFit /\ SomeoneResets
  BY DEF Typed, TypeOK, AllFit
<1> DEFINE size == Piece(t)
           written == sender[t].written + size
<1>2. /\ sender[t].pc = "write" /\ sender[t] \in Senders
      /\ size \in 1..(Total(t) - sender[t].written)
      /\ stream' \in Seq([id : Nat, at : Nat]) /\ Len(stream') = Len(stream) + size
      /\ sender' \in [Threads -> Senders] /\ Alone(t)
      /\ \/ written = Total(t) /\ sender'[t] = Idle
         \/ /\ written < Total(t) /\ sender'[t].pc = "write"
            /\ sender'[t].written = written /\ sender'[t].id = id
            /\ sender'[t].len = sender[t].len /\ sender'[t].kind = sender[t].kind
  BY <1>1, SendsLemma
<1>3. UNCHANGED <<serial, packed, client>>
  BY DEF Sends
<1>4. Fits(sender'[t])
  <2>1. CASE sender'[t] = Idle
    BY <2>1, IdleFits
  <2>2. CASE written < Total(t) /\ sender'[t].pc = "write" /\ sender'[t].written = written
             /\ sender'[t].len = sender[t].len
    BY <1>1, <1>2, <2>2 DEF Fits, Packing, Total
  <2> QED BY <1>2, <2>1, <2>2
<1>5. AllFit' /\ SomeoneResets'
  BY <1>1, <1>2, <1>3, <1>4, AllFitLemma, SomeoneLemma
<1>6. Total(t) \in Nat /\ sender[t].written \in Nat
  <2>1. sender[t].len \in Nat /\ sender[t].written \in Nat
    BY <1>2 DEF Senders
  <2> QED BY <2>1 DEF Total
<1>7. received' \in 0..Len(stream') /\ consumed' \in 0..received'
  <2> HIDE DEF size
  <2> QED BY <1>1, <1>2, <1>3, <1>6 DEF TypeOK, client
<1>8. torn' = (torn \/ \E u \in Threads \ {t} : Underway(u))
  BY DEF Sends
<1>9. torn' \in BOOLEAN
  BY <1>8, Zenon
<1> QED BY <1>1, <1>2, <1>3, <1>5, <1>7, <1>9 DEF Typed, TypeOK, client

LEMMA BeginStep ==
  ASSUME Typed, NEW t \in Threads, Begin(t)
  PROVE  Typed'
<1> DEFINE S == [kind : Kinds, len : 1..MaxLength, start : Nat]
           p == [kind |-> sender[t].kind, len |-> sender[t].len, start |-> Len(stream)]
<1>1. /\ sender[t] \in Senders /\ Fits(sender[t]) /\ Len(stream) \in Nat
      /\ sent \in Seq(S) /\ Len(sent) + 1 \in Nat
  BY DEF Typed, TypeOK, AllFit
<1>2. sender[t].pc = "write" /\ sent' = Append(sent, p) /\ Sends(t, Len(sent) + 1)
  BY DEF Begin, Sends, At
<1>3. p \in S
  BY <1>1, <1>2 DEF Senders, Fits, Packing
<1>4. sent' \in Seq(S)
  <2> HIDE DEF S, p
  <2> QED BY <1>1, <1>2, <1>3
<1> QED BY <1>1, <1>2, <1>4, SendsStep

LEMMA ContinueStep ==
  ASSUME Typed, NEW t \in Threads, Continue(t)
  PROVE  Typed'
<1>1. sender[t] \in Senders /\ sender[t].id \in Nat
  BY DEF Typed, TypeOK, Senders
<1>2. Sends(t, sender[t].id) /\ sent' = sent
  BY DEF Continue
<1>3. sent \in Seq([kind : Kinds, len : 1..MaxLength, start : Nat])
  BY DEF Typed, TypeOK
<1> QED BY <1>1, <1>2, <1>3, SendsStep

LEMMA FailStep ==
  ASSUME Typed, NEW t \in Threads, Fail(t)
  PROVE  Typed'
<1>1. sender \in [Threads -> Senders] /\ AllFit /\ SomeoneResets
  BY DEF Typed, TypeOK
<1>2. /\ sender' \in [Threads -> Senders] /\ Alone(t)
      /\ sender[t].pc = "write" /\ sender'[t] = Idle
  BY <1>1, FailLemma
<1>3. UNCHANGED <<serial, stream, sent, packed, client>>
  BY DEF Fail
<1>4. AllFit' /\ SomeoneResets'
  BY <1>1, <1>2, <1>3, IdleFits, AllFitLemma, SomeoneLemma
<1>5. torn' = (torn \/ Underway(t))
  BY DEF Fail
<1>6. torn' \in BOOLEAN
  BY <1>5, Zenon
<1> QED BY <1>2, <1>3, <1>4, <1>6 DEF Typed, TypeOK, client

\* The steps of the client leave the threads of the server alone.
LEMMA ReaderLeaves ==
  ASSUME Reader
  PROVE  UNCHANGED <<serial, sender, network>>
  BY DEF Reader, Receive, ReadHeader, Wait, HandOn, HandOnThen, Skip, Raise, Malformed, Stops

LEMMA PacketLemma ==
  ASSUME TypeOK, NEW k \in 1..Len(sent)
  PROVE  sent[k].kind \in Kinds /\ sent[k].len \in 1..MaxLength /\ sent[k].start \in Nat
<1> DEFINE S == [kind : Kinds, len : 1..MaxLength, start : Nat]
<1>1. sent \in Seq(S)
  BY DEF TypeOK
<1> HIDE DEF S
<1>2. sent[k] \in S
  BY <1>1
<1> QED BY <1>2 DEF S

\* What a header says it is: the packet it belongs to, or anything.
LEMMA ClaimsLemma ==
  ASSUME TypeOK, NEW claim \in Claims
  PROVE  claim \in Claimed /\ claim # NoClaim
<1>1. CASE \E k \in 1..Len(sent) : IsHeaderOf(k)
  <2>1. PICK k \in 1..Len(sent) : IsHeaderOf(k)
    BY <1>1
  <2>2. 1 \in 1..HeaderLength
    OBVIOUS
  <2>3. Byte(1) = [id |-> k, at |-> 1]
    BY <2>1, <2>2 DEF IsHeaderOf
  <2>4. claim = [kind |-> sent[k].kind, len |-> sent[k].len]
    BY <1>1, <2>3 DEF Claims
  <2>5. sent[k].kind \in Kinds /\ sent[k].len \in Nat
    BY PacketLemma
  <2> QED BY <2>4, <2>5 DEF Claimed, NoClaim, Kinds
<1>2. CASE ~\E k \in 1..Len(sent) : IsHeaderOf(k)
  <2>1. claim \in [kind : Kinds \cup {"flushing", "unknown"}, len : 0..MaxLength]
    BY <1>2 DEF Claims
  <2> QED BY <2>1 DEF Claimed, NoClaim, Kinds
<1> QED BY <1>1, <1>2

LEMMA TakenLemma ==
  ASSUME TypeOK, NEW len \in Nat
  PROVE  Taken(len) \in Nat
<1>1. CASE \E k \in 1..Len(sent) : IsPayloadOf(k, len)
  <2>1. PICK k \in 1..Len(sent) : IsPayloadOf(k, len)
    BY <1>1
  <2>2. len = sent[k].len /\ sent[k].len \in 1..MaxLength
    BY <2>1, PacketLemma DEF IsPayloadOf
  <2>3. 1 \in 1..len
    BY <2>2
  <2>4. Byte(HeaderLength + 1) = [id |-> k, at |-> HeaderLength + 1]
    BY <2>1, <2>3 DEF IsPayloadOf
  <2> QED BY <1>1, <2>4 DEF Taken
<1>2. CASE ~\E k \in 1..Len(sent) : IsPayloadOf(k, len)
  BY <1>2 DEF Taken
<1> QED BY <1>1, <1>2

\* What is taken off rxdata is there.
LEMMA ConsumeLemma ==
  ASSUME TypeOK, Complete, NEW next \in {"recv", "parse"}, Consume(reader.claim.len, next)
  PROVE  /\ consumed' \in 0..received
         /\ reader' = [pc |-> next, claim |-> NoClaim]
         /\ reader' \in [pc : {"recv", "parse", "closed", "dead"}, claim : Claimed]
<1>1. reader.claim.len \in Nat /\ received \in Nat /\ consumed \in Nat
  BY DEF TypeOK, Claimed
<1>2. consumed' = consumed + (HeaderLength + reader.claim.len)
  BY DEF Consume, ConsumeBytes
<1>3. received - consumed >= HeaderLength + reader.claim.len
  BY DEF Complete, Unread
<1>4. reader' = [pc |-> next, claim |-> NoClaim]
  BY DEF Consume, ConsumeBytes
<1>5. NoClaim \in Claimed
  BY DEF NoClaim, Claimed
<1> QED BY <1>1, <1>2, <1>3, <1>4, <1>5

LEMMA ReaderStep ==
  ASSUME Typed, Reader
  PROVE  Typed'
<1> DEFINE Readers == [pc : {"recv", "parse", "closed", "dead"}, claim : Claimed]
<1>1. TypeOK /\ UNCHANGED <<serial, sender, network>>
  BY ReaderLeaves DEF Typed
<1>2. /\ received \in 0..Len(stream) /\ consumed \in 0..received /\ Len(stream) \in Nat
      /\ reader \in Readers /\ delivered \in Seq(Nat) /\ reader.claim.len \in Nat
  BY <1>1 DEF TypeOK, Claimed
<1>3. /\ received' \in 0..Len(stream) /\ consumed' \in 0..received'
      /\ reader' \in Readers /\ delivered' \in Seq(Nat)
  <2>1. CASE Receive
    <3>1. PICK size \in 1..Least(BufferSize, Len(stream) - received) : received' = received + size
      BY <2>1 DEF Receive
    <3>2. received' \in 0..Len(stream) /\ received <= received'
      BY <1>2, <3>1 DEF Least
    <3>3. reader' = [reader EXCEPT !.pc = "parse"] /\ consumed' = consumed /\ delivered' = delivered
      BY <2>1 DEF Receive
    <3>4. received' \in Nat /\ consumed' \in 0..received'
      BY <1>2, <3>2, <3>3
    <3>5. reader' \in Readers
      BY <1>2, <3>3
    <3> QED BY <1>2, <3>2, <3>3, <3>4, <3>5
  <2>2. CASE ReadHeader
    <3>1. UNCHANGED <<received, consumed, delivered>>
      BY <2>2 DEF ReadHeader
    <3>2. CASE Unread < HeaderLength
      <4>1. reader' = [reader EXCEPT !.pc = "recv"]
        BY <2>2, <3>2 DEF ReadHeader
      <4> QED BY <1>2, <3>1, <4>1
    <3>3. CASE ~(Unread < HeaderLength)
      <4>1. PICK claim \in Claims : reader' = [reader EXCEPT !.claim = claim]
        BY <2>2, <3>3 DEF ReadHeader
      <4>2. claim \in Claimed
        BY <1>1, ClaimsLemma
      <4> QED BY <1>2, <3>1, <4>1, <4>2
    <3> QED BY <3>2, <3>3
  <2>3. CASE Wait
    BY <1>2, <2>3 DEF Wait
  <2>4. CASE HandOn
    <3>1. /\ Complete /\ Consume(reader.claim.len, "parse") /\ received' = received
          /\ delivered' = Append(delivered, Taken(reader.claim.len))
      BY <2>4 DEF HandOn, HandOnThen
    <3>2. Taken(reader.claim.len) \in Nat
      BY <1>1, <1>2, TakenLemma
    <3>3. consumed' \in 0..received /\ reader' \in Readers
      BY <1>1, <3>1, ConsumeLemma
    <3> QED BY <1>2, <3>1, <3>2, <3>3
  <2>5. CASE Skip
    <3>1. Complete /\ Consume(reader.claim.len, "recv") /\ UNCHANGED <<received, delivered>>
      BY <2>5 DEF Skip
    <3>2. consumed' \in 0..received /\ reader' \in Readers
      BY <1>1, <3>1, ConsumeLemma
    <3> QED BY <1>2, <3>1, <3>2
  <2>6. CASE Raise
    BY <1>2, <2>6 DEF Raise, Stops
  <2>7. CASE Malformed
    BY <1>2, <2>7 DEF Malformed, Stops
  <2> QED BY <2>1, <2>2, <2>3, <2>4, <2>5, <2>6, <2>7 DEF Reader
<1>4. stream' = stream
  BY <1>1 DEF network
<1>5. TypeOK'
  BY <1>1, <1>3, <1>4 DEF TypeOK, network
<1>6. AllFit' /\ SomeoneResets'
  BY <1>1 DEF Typed, AllFit, SomeoneResets
<1> QED BY <1>5, <1>6 DEF Typed

LEMMA TypedInit == Init => Typed
<1> SUFFICES ASSUME Init PROVE Typed
  OBVIOUS
<1>1. sender \in [Threads -> Senders] /\ \A t \in Threads : sender[t] = Idle
  BY IdleLemma DEF Init
<1>2. AllFit /\ SomeoneResets
  BY <1>1, IdleFits DEF AllFit, SomeoneResets, Init
<1>3. /\ stream = <<>> /\ sent = <<>> /\ delivered = <<>>
      /\ serial = 0 /\ received = 0 /\ consumed = 0 /\ packed = 0 /\ torn = FALSE
      /\ reader = [pc |-> "recv", claim |-> NoClaim]
  BY DEF Init
<1>4. reader \in [pc : {"recv", "parse", "closed", "dead"}, claim : Claimed]
  BY <1>3 DEF NoClaim, Claimed
<1>5. received \in 0..Len(stream) /\ consumed \in 0..received
  BY <1>3
<1>6. /\ stream \in Seq([id : Nat, at : Nat]) /\ delivered \in Seq(Nat)
      /\ sent \in Seq([kind : Kinds, len : 1..MaxLength, start : Nat])
  BY <1>3
<1>7. serial \in Nat /\ packed \in 0..MaxPackets
  BY <1>3
<1>8. torn \in BOOLEAN
  BY <1>3, Zenon
<1> QED BY <1>1, <1>2, <1>4, <1>5, <1>6, <1>7, <1>8 DEF Typed, TypeOK

\* One step of Next, by its actor.
LEMMA NextCases ==
  ASSUME Next
  PROVE  \/ \E t \in Threads : IncLoad(t) \/ IncStore(t) \/ IncTest(t) \/ IncReset(t)
         \/ \E t \in Threads, kind \in Kinds, len \in Nat \ {0} : Pack(t, kind, len)
         \/ \E t \in Threads : Begin(t)
         \/ \E t \in Threads : Continue(t)
         \/ \E t \in Threads : Fail(t)
         \/ Reader
<1>1. CASE \E t \in Threads : Step(t)
  BY <1>1 DEF Step
<1>2. CASE \E t \in Threads : \E len \in JsonLengths : Pack(t, "json", len)
  BY <1>2 DEF Kinds
<1>3. CASE \E len \in AudioLengths : Pack(Loop, "audio", len)
  BY <1>3 DEF Kinds
<1> QED BY <1>1, <1>2, <1>3 DEF Next

LEMMA TypedStep == Typed /\ [Next]_vars => Typed'
<1> SUFFICES ASSUME Typed, [Next]_vars PROVE Typed'
  OBVIOUS
<1>1. CASE Next
  BY <1>1, NextCases, IncStep, PackStep, BeginStep, ContinueStep, FailStep, ReaderStep
<1>2. CASE UNCHANGED vars
  BY <1>2 DEF vars, Typed, TypeOK, AllFit, SomeoneResets
<1> QED BY <1>1, <1>2

LEMMA TypedAlways == Spec => []Typed
<1> QED BY TypedInit, TypedStep, PTL DEF Spec

\* Every variable keeps its type: no header announces more than its 16 bits hold, and
\* the client takes nothing off rxdata that it has not received.
THEOREM TypeCorrect == Spec => []TypeOK
<1>1. Typed => TypeOK
  BY DEF Typed
<1> QED BY <1>1, TypedAlways, PTL

\* The serial that the threads increment without a lock fits its byte whenever none of
\* them is in inc_serial, for any number of threads.
THEOREM TheSerialRecovers == Spec => []SerialRecovers
<1>1. Typed => SerialRecovers
  BY DEF Typed, TypeOK, SomeoneResets, SerialRecovers, Incrementing
<1> QED BY <1>1, TypedAlways, PTL

-----------------------------------------------------------------------------
(* Order: while sendall is not interleaved, the connection is the packets  *)
(* end to end, and the client is at the end of one of them                 *)

End(k) == IF k = 0 THEN 0 ELSE sent[k].start + HeaderLength + sent[k].len

\* The packets follow each other, and the bytes that are there are theirs.
InPlace ==
  /\ \A k \in 1..Len(sent) : sent[k].start = End(k - 1)
  /\ \A k \in 1..Len(sent) : k < Len(sent) => End(k) <= sent[Len(sent)].start
  /\ \A k \in 1..Len(sent) : \A i \in 1..(HeaderLength + sent[k].len) :
       sent[k].start + i <= Len(stream) =>
         stream[sent[k].start + i] = [id |-> k, at |-> i]

\* At most one thread is in the middle of a packet, and that is the last one.
WritesLast(t) ==
  /\ Len(sent) >= 1
  /\ sender[t].id = Len(sent) /\ sender[t].len = sent[Len(sent)].len
  /\ Len(stream) = sent[Len(sent)].start + sender[t].written

OneWrites ==
  /\ \A t \in Threads : Underway(t) =>
       WritesLast(t) /\ \A u \in Threads : Underway(u) => u = t
  /\ (\A t \in Threads : ~Underway(t)) => Len(stream) = End(Len(sent))

\* The client has taken whole packets off rxdata, and reads the header of the next.
InOrder ==
  /\ reader.pc \in {"recv", "parse"}
  /\ Len(delivered) <= Len(sent)
  /\ \A k \in 1..Len(delivered) : delivered[k] = k
  /\ consumed = End(Len(delivered))
  /\ reader.claim # NoClaim =>
       /\ Len(delivered) < Len(sent)
       /\ reader.claim = [kind |-> sent[Len(delivered) + 1].kind,
                          len |-> sent[Len(delivered) + 1].len]

Ordered == ~torn => InPlace /\ OneWrites /\ InOrder

LEMMA EndLemma ==
  ASSUME TypeOK, NEW k \in 0..Len(sent)
  PROVE  End(k) \in Nat
<1>1. CASE k = 0
  BY <1>1 DEF End
<1>2. CASE k # 0
  <2>1. k \in 1..Len(sent)
    BY <1>2
  <2> QED BY <1>2, <2>1, PacketLemma DEF End
<1> QED BY <1>1, <1>2

\* A step of a thread that is not in the middle of a packet, nor after it.
LEMMA OutsideLemma ==
  ASSUME Ordered, NEW t \in Threads, Alone(t), UNCHANGED <<stream, sent, client>>,
         ~torn' => ~torn /\ ~Underway(t) /\ ~Underway(t)'
  PROVE  Ordered'
<1> SUFFICES ASSUME ~torn' PROVE (InPlace /\ OneWrites /\ InOrder)'
  BY DEF Ordered
<1>1. InPlace /\ OneWrites /\ InOrder /\ ~Underway(t) /\ ~Underway(t)'
  BY DEF Ordered
<1>2. \A u \in Threads : Underway(u)' <=> Underway(u)
  BY <1>1 DEF Alone, Underway, At
<1>3. \A u \in Threads : Underway(u) => sender'[u] = sender[u]
  BY <1>1 DEF Alone
<1>4. InPlace' /\ InOrder'
  BY <1>1 DEF InPlace, InOrder, End, client
<1>5. OneWrites'
  <2>1. ASSUME NEW u \in Threads, Underway(u)'
        PROVE  (WritesLast(u) /\ \A v \in Threads : Underway(v) => v = u)'
    BY <1>1, <1>2, <1>3, <2>1 DEF OneWrites, WritesLast
  <2>2. (\A u \in Threads : ~Underway(u))' => (Len(stream) = End(Len(sent)))'
    BY <1>1, <1>2 DEF OneWrites, End
  <2> QED BY <2>1, <2>2 DEF OneWrites
<1> QED BY <1>4, <1>5

\* What is sent later does not disturb what the client has read.
LEMMA LongerLemma ==
  ASSUME TypeOK, InOrder, UNCHANGED client, Len(sent') \in Nat, Len(sent') >= Len(sent),
         \A k \in 1..Len(sent) : sent'[k] = sent[k]
  PROVE  InOrder'
<1>1. Len(delivered) \in Nat /\ Len(sent) \in Nat
  BY DEF TypeOK
<1>2. \A k \in 0..Len(sent) : End(k)' = End(k)
  BY DEF End
<1>3. Len(delivered) \in 0..Len(sent)
  BY <1>1 DEF InOrder
<1>4. (consumed = End(Len(delivered)))'
  BY <1>2, <1>3 DEF InOrder, client, End
<1>5. ASSUME reader.claim # NoClaim
      PROVE  /\ Len(delivered) < Len(sent')
             /\ reader.claim = [kind |-> sent'[Len(delivered) + 1].kind,
                                len |-> sent'[Len(delivered) + 1].len]
  <2>1. Len(delivered) + 1 \in 1..Len(sent)
    BY <1>1, <1>5 DEF InOrder
  <2> QED BY <1>1, <1>5, <2>1 DEF InOrder
<1> QED BY <1>1, <1>3, <1>4, <1>5 DEF InOrder, client

LEMMA OrderedInit == Init => Ordered
<1> SUFFICES ASSUME Init PROVE InPlace /\ OneWrites /\ InOrder
  BY DEF Ordered
<1>1. stream = <<>> /\ sent = <<>> /\ delivered = <<>> /\ consumed = 0
      /\ reader = [pc |-> "recv", claim |-> NoClaim]
  BY DEF Init
<1>2. Len(sent) = 0 /\ Len(stream) = 0 /\ Len(delivered) = 0
  BY <1>1
<1>3. \A t \in Threads : ~Underway(t)
  BY IdleLemma DEF Init, Underway, At
<1> QED BY <1>1, <1>2, <1>3 DEF InPlace, OneWrites, InOrder, End

LEMMA OrderedBegin ==
  ASSUME Typed, Ordered, NEW t \in Threads, Begin(t)
  PROVE  Ordered'
<1> SUFFICES ASSUME ~torn' PROVE (InPlace /\ OneWrites /\ InOrder)'
  BY DEF Ordered
<1> DEFINE n == Len(sent)
           size == Piece(t)
           p == [kind |-> sender[t].kind, len |-> sender[t].len, start |-> Len(stream)]
<1>1. /\ Sends(t, n + 1) /\ sender[t].written = 0 /\ sent' = Append(sent, p)
      /\ torn' = (torn \/ \E u \in Threads \ {t} : Underway(u)) /\ UNCHANGED client
  BY DEF Begin, Sends
<1>2. ~torn /\ \A u \in Threads : ~Underway(u)
  <2>1. ~Underway(t)
    BY <1>1 DEF Underway
  <2>2. ~torn /\ \A u \in Threads \ {t} : ~Underway(u)
    BY <1>1
  <2> QED BY <2>1, <2>2
<1>3. InPlace /\ OneWrites /\ InOrder /\ TypeOK /\ n \in Nat /\ Fits(sender[t])
  BY <1>2 DEF Ordered, Typed, TypeOK, AllFit
<1>4. /\ sender[t].pc = "write" /\ sender[t] \in Senders
      /\ size \in 1..(Total(t) - sender[t].written)
      /\ Len(stream') = Len(stream) + size
      /\ \A i \in 1..Len(stream) : stream'[i] = stream[i]
      /\ \A i \in 1..size : stream'[Len(stream) + i] =
                              [id |-> n + 1, at |-> sender[t].written + i]
      /\ sender' \in [Threads -> Senders] /\ Alone(t)
      /\ \/ sender[t].written + size = Total(t) /\ sender'[t] = Idle
         \/ /\ sender[t].written + size < Total(t) /\ sender'[t].pc = "write"
            /\ sender'[t].written = sender[t].written + size /\ sender'[t].id = n + 1
            /\ sender'[t].len = sender[t].len /\ sender'[t].kind = sender[t].kind
  BY <1>1, <1>3, SendsLemma
<1>5. /\ Len(sent') = n + 1 /\ sent'[n + 1] = p /\ \A k \in 1..n : sent'[k] = sent[k]
  BY <1>1, <1>3 DEF TypeOK
<1>6. /\ Len(stream) \in Nat /\ Len(stream) = End(n) /\ sender[t].len \in Nat
      /\ Total(t) = HeaderLength + p.len /\ p.start = Len(stream)
      /\ size \in 1..Total(t) /\ sender[t].len = p.len
  <2>1. Len(stream) = End(n)
    BY <1>2, <1>3 DEF OneWrites
  <2>2. Len(stream) \in Nat /\ sender[t].len \in Nat
    BY <1>3, <1>4 DEF Senders, TypeOK
  <2>3. p.start = Len(stream) /\ sender[t].len = p.len /\ Total(t) = HeaderLength + p.len
    BY DEF Total
  <2>4. size \in 1..Total(t)
    <3> HIDE DEF size, p
    <3> QED BY <1>1, <1>4, <2>2, <2>3
  <2> QED BY <2>1, <2>2, <2>3, <2>4
<1> HIDE DEF size, p
<1> HIDE DEF n
<1>0. PICK m \in Nat : m = n + 1
  BY <1>3
<1>7. /\ \A k \in 0..n : End(k)' = End(k)
      /\ End(m)' = Len(stream) + HeaderLength + p.len
  <2>1. ASSUME NEW k \in 0..n PROVE End(k)' = End(k)
    <3>1. k = 0 \/ k \in 1..n
      BY <1>3
    <3> QED BY <1>5, <3>1 DEF End
  <2>2. m # 0
    BY <1>0, <1>3
  <2>3. End(m)' = sent'[m].start + HeaderLength + sent'[m].len
    BY <2>2 DEF End
  <2> QED BY <1>0, <1>5, <1>6, <2>1, <2>3
<1>8. InPlace'
  <2>1. ASSUME NEW k \in 1..(n + 1) PROVE sent'[k].start = End(k - 1)'
    <3>1. k - 1 \in 0..n
      BY <1>3
    <3>2. CASE k \in 1..n
      BY <1>3, <1>5, <1>7, <3>1, <3>2 DEF InPlace, n
    <3>3. CASE k = n + 1
      BY <1>3, <1>5, <1>6, <1>7, <3>3
    <3> QED BY <1>3, <3>2, <3>3
  <2>2. ASSUME NEW k \in 1..n PROVE End(k)' <= sent'[n + 1].start
    <3>1. End(k) \in Nat /\ sent[n].start \in Nat /\ n \in 1..n
      BY <1>3, EndLemma, PacketLemma DEF n
    <3>2. End(k) <= End(n)
      <4>1. CASE k = n
        BY <3>1, <4>1
      <4>2. CASE k < n
        <5>1. End(k) <= sent[n].start
          BY <1>3, <4>2 DEF InPlace, n
        <5>2. End(n) = sent[n].start + HeaderLength + sent[n].len /\ sent[n].len \in Nat
          BY <1>3, <3>1, PacketLemma DEF End, n
        <5> QED BY <3>1, <5>1, <5>2
      <4> QED BY <1>3, <4>1, <4>2
    <3> QED BY <1>5, <1>6, <1>7, <3>1, <3>2
  <2>3. ASSUME NEW k \in 1..(n + 1), NEW i \in 1..(HeaderLength + sent'[k].len),
               sent'[k].start + i <= Len(stream')
        PROVE  stream'[sent'[k].start + i] = [id |-> k, at |-> i]
    <3>1. CASE k \in 1..n
      <4>1. sent'[k] = sent[k] /\ sent[k].start \in Nat /\ sent[k].len \in Nat
        BY <1>3, <1>5, <3>1, PacketLemma DEF n
      <4>2. End(k)' <= sent'[n + 1].start
        BY <2>2, <3>1
      <4>3. End(k) <= Len(stream) /\ End(k) = sent[k].start + HeaderLength + sent[k].len
        BY <1>3, <1>5, <1>6, <1>7, <3>1, <4>2 DEF End
      <4>4. i \in 1..(HeaderLength + sent[k].len)
        BY <2>3, <4>1
      <4>5. sent[k].start + i \in 1..Len(stream)
        <5>1. Len(stream) \in Nat /\ i \in Nat \ {0} /\ i <= HeaderLength + sent[k].len
          BY <1>6, <4>1, <4>4
        <5>2. sent[k].start + (HeaderLength + sent[k].len) <= Len(stream)
          BY <4>1, <4>3
        <5> QED BY <4>1, <5>1, <5>2
      <4>6. stream[sent[k].start + i] = [id |-> k, at |-> i]
        BY <1>3, <3>1, <4>4, <4>5 DEF InPlace, n
      <4> QED BY <1>4, <4>1, <4>5, <4>6
    <3>2. CASE k = n + 1
      <4>1. i \in 1..size
        BY <1>4, <1>5, <1>6, <2>3, <3>2
      <4>2. sender[t].written + i = i
        BY <1>1, <4>1
      <4> QED BY <1>4, <1>5, <1>6, <3>2, <4>1, <4>2
    <3> QED BY <1>3, <3>1, <3>2
  <2>4. \A k \in 1..(n + 1) : k < n + 1 => k \in 1..n
    BY <1>3
  <2> QED BY <1>5, <2>1, <2>2, <2>3, <2>4 DEF InPlace
<1>9. OneWrites'
  <2>1. \A u \in Threads : u # t => ~Underway(u)'
    BY <1>2, <1>4 DEF Alone, Underway, At
  <2>2. CASE sender[t].written + size = Total(t) /\ sender'[t] = Idle
    <3>1. \A u \in Threads : ~Underway(u)'
      BY <2>1, <2>2, IdleLemma DEF Underway, At
    <3>2. Len(stream') = End(m)'
      BY <1>1, <1>4, <1>6, <1>7, <2>2
    <3>3. Len(sent') = m
      BY <1>0, <1>5
    <3> QED BY <3>1, <3>2, <3>3 DEF OneWrites, End
  <2>3. CASE /\ sender'[t].pc = "write" /\ sender'[t].written = sender[t].written + size
             /\ sender'[t].id = n + 1 /\ sender'[t].len = sender[t].len
    <3>1. Underway(t)'
      BY <1>1, <1>6, <2>3 DEF Underway, At
    <3>2. WritesLast(t)'
      BY <1>1, <1>3, <1>4, <1>5, <1>6, <2>3 DEF WritesLast
    <3> QED BY <2>1, <3>1, <3>2 DEF OneWrites
  <2> QED BY <1>4, <2>2, <2>3
<1>10. InOrder'
  BY <1>1, <1>3, <1>5, LongerLemma DEF n
<1> QED BY <1>8, <1>9, <1>10

LEMMA OrderedContinue ==
  ASSUME Typed, Ordered, NEW t \in Threads, Continue(t)
  PROVE  Ordered'
<1> SUFFICES ASSUME ~torn' PROVE (InPlace /\ OneWrites /\ InOrder)'
  BY DEF Ordered
<1> DEFINE n == Len(sent)
           size == Piece(t)
           w == sender[t].written
<1>1. /\ Sends(t, sender[t].id) /\ w > 0 /\ sent' = sent
      /\ torn' = (torn \/ \E u \in Threads \ {t} : Underway(u)) /\ UNCHANGED client
  BY DEF Continue, Sends
<1>2. ~torn /\ \A u \in Threads : u # t => ~Underway(u)
  BY <1>1
<1>3. InPlace /\ OneWrites /\ InOrder /\ TypeOK /\ n \in Nat /\ Fits(sender[t])
      /\ sender[t].id \in Nat
  BY <1>2 DEF Ordered, Typed, TypeOK, AllFit, Senders
<1>4. /\ sender[t].pc = "write" /\ sender[t] \in Senders
      /\ size \in 1..(Total(t) - w)
      /\ Len(stream') = Len(stream) + size
      /\ \A i \in 1..Len(stream) : stream'[i] = stream[i]
      /\ \A i \in 1..size : stream'[Len(stream) + i] = [id |-> sender[t].id, at |-> w + i]
      /\ sender' \in [Threads -> Senders] /\ Alone(t)
      /\ \/ w + size = Total(t) /\ sender'[t] = Idle
         \/ /\ w + size < Total(t) /\ sender'[t].pc = "write"
            /\ sender'[t].written = w + size /\ sender'[t].id = sender[t].id
            /\ sender'[t].len = sender[t].len /\ sender'[t].kind = sender[t].kind
  BY <1>1, <1>3, SendsLemma
<1>5. Underway(t)
  BY <1>1, <1>4 DEF Underway, At
<1>6. /\ n >= 1 /\ n \in 1..n /\ sender[t].id = n /\ sender[t].len = sent[n].len
      /\ Len(stream) = sent[n].start + w
  BY <1>3, <1>5 DEF OneWrites, WritesLast
<1>7. /\ Len(stream) \in Nat /\ w \in Nat /\ sent[n].len \in Nat /\ sent[n].start \in Nat
      /\ Total(t) = HeaderLength + sent[n].len
  <2>1. sent[n].len \in Nat /\ sent[n].start \in Nat
    BY <1>3, <1>6, PacketLemma
  <2>2. Len(stream) \in Nat /\ w \in Nat
    BY <1>3, <1>4 DEF TypeOK, Senders
  <2> QED BY <1>6, <2>1, <2>2 DEF Total
<1> HIDE DEF size, w
<1>8. InPlace'
  <2>1. ASSUME NEW k \in 1..n, NEW i \in 1..(HeaderLength + sent[k].len),
               sent[k].start + i <= Len(stream')
        PROVE  stream'[sent[k].start + i] = [id |-> k, at |-> i]
    <3>1. sent[k].start \in Nat /\ sent[k].len \in Nat /\ i \in Nat
      BY <1>3, PacketLemma
    <3>2. CASE sent[k].start + i <= Len(stream)
      <4>1. sent[k].start + i \in 1..Len(stream)
        BY <1>7, <3>1, <3>2
      <4> QED BY <1>3, <1>4, <3>2, <4>1 DEF InPlace
    <3>3. CASE ~(sent[k].start + i <= Len(stream))
      <4>1. k = n
        <5>1. CASE k < n
          <6>1. End(k) <= sent[n].start /\ End(k) = sent[k].start + HeaderLength + sent[k].len
            BY <1>3, <5>1 DEF InPlace, End
          <6> QED BY <1>6, <1>7, <3>1, <3>3, <6>1
        <5> QED BY <1>3, <5>1
      <4>2. i - w \in 1..size /\ Len(stream) + (i - w) = sent[k].start + i /\ w + (i - w) = i
        BY <1>4, <1>6, <1>7, <2>1, <3>1, <3>3, <4>1
      <4> QED BY <1>4, <1>6, <4>1, <4>2
    <3> QED BY <3>2, <3>3
  <2> QED BY <1>1, <1>3, <2>1 DEF InPlace, End
<1>9. OneWrites'
  <2>1. \A u \in Threads : u # t => ~Underway(u)'
    BY <1>2, <1>4 DEF Alone, Underway, At
  <2>2. CASE w + size = Total(t) /\ sender'[t] = Idle
    <3>1. \A u \in Threads : ~Underway(u)'
      BY <2>1, <2>2, IdleLemma DEF Underway, At
    <3>2. Len(stream') = End(n)
      <4>1. End(n) = sent[n].start + HeaderLength + sent[n].len
        BY <1>6 DEF End
      <4>2. size \in Nat /\ w + size = HeaderLength + sent[n].len
        BY <1>4, <1>7, <2>2
      <4>3. Len(stream') = sent[n].start + w + size
        <5>1. Len(stream') = Len(stream) + size /\ Len(stream) = sent[n].start + w
          BY <1>4, <1>6
        <5> QED BY <1>7, <4>2, <5>1
      <4>4. sent[n].start \in Nat /\ sent[n].len \in Nat /\ w \in Nat
        BY <1>7
      <4>5. sent[n].start + w + size = sent[n].start + (w + size)
        BY <4>2, <4>4
      <4>6. Len(stream') = sent[n].start + (HeaderLength + sent[n].len)
        BY <4>2, <4>3, <4>5
      <4>7. End(n) = sent[n].start + (HeaderLength + sent[n].len)
        BY <4>1, <4>4
      <4> QED BY <4>6, <4>7
    <3> QED BY <1>1, <3>1, <3>2 DEF OneWrites, End
  <2>3. CASE /\ sender'[t].pc = "write" /\ sender'[t].written = w + size
             /\ sender'[t].id = sender[t].id /\ sender'[t].len = sender[t].len
    <3>1. Underway(t)'
      BY <1>1, <1>4, <1>7, <2>3 DEF Underway, At
    <3>2. WritesLast(t)'
      BY <1>1, <1>4, <1>6, <1>7, <2>3 DEF WritesLast
    <3> QED BY <2>1, <3>1, <3>2 DEF OneWrites
  <2> QED BY <1>4, <2>2, <2>3
<1>10. InOrder'
  BY <1>1, <1>3, LongerLemma
<1> QED BY <1>8, <1>9, <1>10

\* The client finds the header of the packet after the last that it took.
LEMMA NextHeaderLemma ==
  ASSUME TypeOK, InPlace, OneWrites, InOrder, AllFit, Unread >= HeaderLength
  PROVE  LET next == Len(delivered) + 1
         IN  /\ next \in 1..Len(sent)
             /\ Claims = {[kind |-> sent[next].kind, len |-> sent[next].len]}
<1> DEFINE d == Len(delivered)
           n == Len(sent)
<1>1. d \in 0..n /\ d \in Nat /\ n \in Nat /\ consumed = End(d) /\ End(d) \in Nat
  <2>1. d \in Nat /\ n \in Nat /\ d <= n /\ consumed = End(d)
    BY DEF TypeOK, InOrder
  <2> QED BY <2>1, EndLemma
<1>2. received <= Len(stream) /\ received \in Nat /\ Len(stream) \in Nat
  BY DEF TypeOK
<1>3. received - End(d) >= HeaderLength
  BY <1>1 DEF Unread
<1>4. Len(stream) <= End(n)
  <2>1. CASE \A t \in Threads : ~Underway(t)
    BY <1>2, <2>1 DEF OneWrites
  <2>2. CASE \E t \in Threads : Underway(t)
    <3>1. PICK t \in Threads : Underway(t)
      BY <2>2
    <3>2. /\ n >= 1 /\ sender[t].len = sent[n].len
          /\ Len(stream) = sent[n].start + sender[t].written
      BY <3>1 DEF OneWrites, WritesLast
    <3>3. sender[t] \in Senders /\ Fits(sender[t])
      BY DEF TypeOK, AllFit
    <3>4. sender[t].written \in Nat /\ sender[t].written < HeaderLength + sender[t].len
      BY <3>1, <3>3 DEF Fits, Packing, Underway, At, Senders
    <3>5. sent[n].start \in Nat /\ sent[n].len \in Nat
      BY <1>1, <3>2, PacketLemma
    <3>6. End(n) = sent[n].start + HeaderLength + sent[n].len
      BY <1>1, <3>2 DEF End
    <3> QED BY <3>2, <3>4, <3>5, <3>6
  <2> QED BY <2>1, <2>2
<1>5. d < n
  <2>1. d # n
    BY <1>1, <1>2, <1>3, <1>4
  <2> QED BY <1>1, <2>1
<1> DEFINE next == d + 1
<1>6. next \in 1..n /\ sent[next].start = consumed
  <2>1. next \in 1..n /\ next - 1 = d
    BY <1>1, <1>5
  <2> QED BY <1>1, <2>1 DEF InPlace
<1>7. IsHeaderOf(next)
  <2> SUFFICES ASSUME NEW i \in 1..HeaderLength
               PROVE  stream[consumed + i] = [id |-> next, at |-> i]
    BY DEF IsHeaderOf, Byte
  <2>1. sent[next].len \in Nat
    BY <1>6, PacketLemma
  <2>2. i \in 1..(HeaderLength + sent[next].len)
    BY <2>1
  <2>3. consumed + i <= Len(stream)
    BY <1>1, <1>2, <1>3
  <2> HIDE DEF next
  <2> QED BY <1>6, <2>2, <2>3 DEF InPlace
<1>8. Byte(1).id = next
  BY <1>7 DEF IsHeaderOf
<1>9. Claims = {[kind |-> sent[next].kind, len |-> sent[next].len]}
  <2> HIDE DEF next
  <2> QED BY <1>6, <1>7, <1>8 DEF Claims
<1> QED BY <1>6, <1>9

\* What it takes off rxdata is the payload of that packet.
LEMMA NextPayloadLemma ==
  ASSUME TypeOK, InPlace, InOrder, Complete
  PROVE  LET next == Len(delivered) + 1
         IN  /\ next \in 1..Len(sent)
             /\ reader.claim = [kind |-> sent[next].kind, len |-> sent[next].len]
             /\ reader.claim.len = sent[next].len /\ reader.claim.kind = sent[next].kind
             /\ Taken(reader.claim.len) = next
             /\ consumed + (HeaderLength + reader.claim.len) = End(next)
<1> DEFINE d == Len(delivered)
           n == Len(sent)
           next == d + 1
<1>1. d \in 0..n /\ d \in Nat /\ n \in Nat /\ consumed = End(d) /\ End(d) \in Nat
  <2>1. d \in Nat /\ n \in Nat /\ d <= n /\ consumed = End(d)
    BY DEF TypeOK, InOrder
  <2> QED BY <2>1, EndLemma
<1>2. /\ received <= Len(stream) /\ received \in Nat /\ Len(stream) \in Nat
      /\ received - consumed >= HeaderLength + reader.claim.len
  BY DEF TypeOK, Complete, Unread
<1>3. d < n /\ reader.claim = [kind |-> sent[next].kind, len |-> sent[next].len]
  BY DEF Complete, InOrder
<1>4. next \in 1..n /\ next - 1 = d /\ next # 0
  BY <1>1, <1>3
<1>5. sent[next].start = consumed
  BY <1>1, <1>4 DEF InPlace
<1> DEFINE len == sent[next].len
<1>6. len \in 1..MaxLength /\ sent[next].start \in Nat
  BY <1>4, PacketLemma
<1>7. reader.claim.len = len /\ reader.claim.kind = sent[next].kind
  BY <1>3
<1> HIDE DEF next
<1>8. IsPayloadOf(next, len)
  <2> SUFFICES ASSUME NEW i \in 1..len
               PROVE  stream[consumed + (HeaderLength + i)] = [id |-> next, at |-> HeaderLength + i]
    BY DEF IsPayloadOf, Byte
  <2>1. HeaderLength + i \in 1..(HeaderLength + len)
    BY <1>6
  <2>2. consumed + (HeaderLength + i) <= Len(stream)
    BY <1>1, <1>2, <1>6, <1>7
  <2> QED BY <1>4, <1>5, <2>1, <2>2 DEF InPlace
<1>9. Byte(HeaderLength + 1).id = next
  <2>1. 1 \in 1..len
    BY <1>6
  <2>2. Byte(HeaderLength + 1) = [id |-> next, at |-> HeaderLength + 1]
    BY <1>8, <2>1 DEF IsPayloadOf
  <2> QED BY <2>2
<1>10. Taken(len) = next
  BY <1>4, <1>8, <1>9 DEF Taken
<1>11. consumed + (HeaderLength + len) = End(next)
  BY <1>1, <1>4, <1>5, <1>6 DEF End
<1> QED BY <1>3, <1>4, <1>7, <1>10, <1>11 DEF next

LEMMA OrderedReader ==
  ASSUME Typed, Ordered, Reader
  PROVE  Ordered'
<1>1. UNCHANGED <<serial, sender, network>> /\ TypeOK /\ AllFit
  BY ReaderLeaves DEF Typed
<1> SUFFICES ASSUME ~torn PROVE (InPlace /\ OneWrites /\ InOrder)'
  BY <1>1 DEF Ordered, network
<1>2. InPlace /\ OneWrites /\ InOrder
  BY DEF Ordered
<1>3. InPlace' /\ OneWrites'
  BY <1>1, <1>2 DEF InPlace, OneWrites, WritesLast, Underway, At, End, network
<1>4. InOrder'
  <2> DEFINE d == Len(delivered)
  <2>1. sent' = sent /\ d \in Nat /\ Len(sent) \in Nat
    BY <1>1 DEF network, TypeOK
  <2>2. ASSUME UNCHANGED <<consumed, delivered>>, reader'.pc \in {"recv", "parse"},
               reader'.claim = reader.claim
        PROVE  InOrder'
    BY <1>2, <2>1, <2>2 DEF InOrder, End
  <2>3. reader \in [pc : {"recv", "parse", "closed", "dead"}, claim : Claimed]
    BY <1>1 DEF TypeOK
  <2>4. CASE Receive
    <3>1. UNCHANGED <<consumed, delivered>> /\ reader' = [reader EXCEPT !.pc = "parse"]
      BY <2>4 DEF Receive
    <3> QED BY <2>2, <2>3, <3>1
  <2>5. CASE ReadHeader
    <3>1. UNCHANGED <<consumed, delivered>> /\ reader.pc = "parse"
      BY <2>5 DEF ReadHeader
    <3>2. CASE Unread < HeaderLength
      <4>1. reader' = [reader EXCEPT !.pc = "recv"]
        BY <2>5, <3>2 DEF ReadHeader
      <4> QED BY <2>2, <2>3, <3>1, <4>1
    <3>3. CASE ~(Unread < HeaderLength)
      <4>1. Unread >= HeaderLength
        BY <1>1, <3>3 DEF Unread, TypeOK
      <4>2. PICK claim \in Claims : reader' = [reader EXCEPT !.claim = claim]
        BY <2>5, <3>3 DEF ReadHeader
      <4>3. d + 1 \in 1..Len(sent) /\ claim = [kind |-> sent[d + 1].kind, len |-> sent[d + 1].len]
        BY <1>1, <1>2, <4>1, <4>2, NextHeaderLemma
      <4>4. reader'.pc = "parse" /\ reader'.claim = claim
        BY <2>3, <3>1, <4>2
      <4>5. d < Len(sent)
        BY <2>1, <4>3
      <4> QED BY <1>2, <2>1, <3>1, <4>3, <4>4, <4>5 DEF InOrder, End
    <3> QED BY <3>2, <3>3
  <2>6. CASE Wait
    <3>1. UNCHANGED <<consumed, delivered>> /\ reader' = [reader EXCEPT !.pc = "recv"]
      BY <2>6 DEF Wait
    <3> QED BY <2>2, <2>3, <3>1
  <2>7. CASE HandOn
    <3>1. /\ Complete /\ Consume(reader.claim.len, "parse")
          /\ delivered' = Append(delivered, Taken(reader.claim.len))
      BY <2>7 DEF HandOn, HandOnThen
    <3>2. /\ d + 1 \in 1..Len(sent) /\ Taken(reader.claim.len) = d + 1
          /\ consumed + (HeaderLength + reader.claim.len) = End(d + 1)
      BY <1>1, <1>2, <3>1, NextPayloadLemma
    <3>3. consumed' = End(d + 1) /\ reader' = [pc |-> "parse", claim |-> NoClaim]
      BY <3>1, <3>2 DEF Consume, ConsumeBytes
    <3>4. delivered \in Seq(Nat) /\ delivered' = Append(delivered, d + 1)
      BY <1>1, <3>1, <3>2 DEF TypeOK
    <3>5. Len(delivered') = d + 1 /\ \A k \in 1..(d + 1) : delivered'[k] = k
      <4>1. /\ Len(delivered') = d + 1 /\ delivered'[d + 1] = d + 1
            /\ \A k \in 1..d : delivered'[k] = delivered[k]
        BY <2>1, <3>4
      <4>2. \A k \in 1..(d + 1) : k \in 1..d \/ k = d + 1
        BY <2>1
      <4> QED BY <1>2, <4>1, <4>2 DEF InOrder
    <3>6. consumed' = (End(Len(delivered)))'
      BY <2>1, <3>3, <3>5 DEF End
    <3>7. Len(delivered') <= Len(sent')
      BY <2>1, <3>2, <3>5
    <3> HIDE DEF d
    <3> QED BY <3>3, <3>5, <3>6, <3>7 DEF InOrder
  <2>8. CASE Skip
    <3>1. /\ Complete
          /\ \/ reader.claim.kind = "flushing"
             \/ reader.claim.kind = "audio" /\ reader.claim.len = 0
      BY <2>8 DEF Skip
    <3>2. /\ d + 1 \in 1..Len(sent) /\ reader.claim.len = sent[d + 1].len
          /\ reader.claim.kind = sent[d + 1].kind
      BY <1>1, <1>2, <3>1, NextPayloadLemma
    <3>3. sent[d + 1].kind \in Kinds /\ sent[d + 1].len \in 1..MaxLength
      BY <1>1, <3>2, PacketLemma
    <3>4. reader.claim.kind \in Kinds /\ reader.claim.len # 0
      BY <3>2, <3>3
    <3> QED BY <3>1, <3>4 DEF Kinds
  <2>9. CASE Raise
    <3>1. Complete /\ reader.claim.kind = "json" /\ ~IsText(Taken(reader.claim.len))
      BY <2>9 DEF Raise
    <3>2. /\ d + 1 \in 1..Len(sent) /\ reader.claim.kind = sent[d + 1].kind
          /\ Taken(reader.claim.len) = d + 1
      BY <1>1, <1>2, <3>1, NextPayloadLemma
    <3> QED BY <3>1, <3>2 DEF IsText
  <2>10. CASE Malformed
    <3>1. Complete /\ reader.claim.kind = "unknown"
      BY <2>10 DEF Malformed
    <3>2. d + 1 \in 1..Len(sent) /\ reader.claim.kind = sent[d + 1].kind
      BY <1>1, <1>2, <3>1, NextPayloadLemma
    <3>3. sent[d + 1].kind \in Kinds
      BY <1>1, <3>2, PacketLemma
    <3> QED BY <3>1, <3>2, <3>3 DEF Kinds
  <2> QED BY <2>4, <2>5, <2>6, <2>7, <2>8, <2>9, <2>10, Zenon DEF Reader
<1> QED BY <1>3, <1>4

\* The steps of inc_serial and of Pack are outside a packet; Fail leaves its packet only
\* if it had not begun it, or tears it.
LEMMA OrderedOther ==
  ASSUME Typed, Ordered, NEW t \in Threads,
         \/ IncLoad(t) \/ IncStore(t) \/ IncTest(t) \/ IncReset(t) \/ Fail(t)
         \/ \E kind \in Kinds, len \in Nat \ {0} : Pack(t, kind, len)
  PROVE  Ordered'
<1>1. /\ sender \in [Threads -> Senders] /\ serial \in Nat /\ Fits(sender[t])
  BY DEF Typed, TypeOK, AllFit
<1>2. CASE IncLoad(t)
  <2>1. /\ Alone(t) /\ sender[t].pc = "load" /\ sender'[t].pc = "store"
        /\ UNCHANGED <<network, client>>
    BY <1>1, <1>2, IncLoadLemma DEF IncLoad
  <2>2. ~Underway(t) /\ ~Underway(t)'
    BY <2>1 DEF Underway, At
  <2> QED BY <2>1, <2>2, OutsideLemma DEF network
<1>3. CASE IncStore(t)
  <2>1. /\ Alone(t) /\ sender[t].pc = "store" /\ sender'[t].pc = "test"
        /\ UNCHANGED <<network, client>>
    BY <1>1, <1>3, IncStoreLemma DEF IncStore
  <2>2. ~Underway(t) /\ ~Underway(t)'
    BY <2>1 DEF Underway, At
  <2> QED BY <2>1, <2>2, OutsideLemma DEF network
<1>4. CASE IncTest(t) \/ IncReset(t)
  <2>1. PICK place \in {"write", "reset"} : Goes(t, place)
    BY <1>4 DEF IncTest, IncTestFor, IncReset
  <2>2. sender[t].pc # "write" /\ UNCHANGED <<network, client>>
    BY <1>4 DEF IncTest, IncTestFor, IncReset, At
  <2>3. place \in {"idle", "write", "dead"} \cup Incrementing
    BY DEF Incrementing
  <2>4. Alone(t) /\ sender'[t].written = sender[t].written
    BY <1>1, <2>1, <2>3, GoesLemma
  <2>5. sender[t].written = 0
    BY <1>1, <2>2 DEF Fits
  <2>6. ~Underway(t) /\ ~Underway(t)'
    BY <2>2, <2>4, <2>5 DEF Underway, At
  <2> QED BY <2>2, <2>4, <2>6, OutsideLemma DEF network
<1>5. CASE Fail(t)
  <2>1. Alone(t) /\ sender'[t] = Idle
    BY <1>1, <1>5, FailLemma
  <2>2. torn' = (torn \/ Underway(t)) /\ UNCHANGED <<stream, sent, client>>
    BY <1>5 DEF Fail
  <2>3. ~Underway(t)'
    BY <2>1, IdleLemma DEF Underway, At
  <2>4. ~torn' => ~torn /\ ~Underway(t)
    BY <2>2
  <2> QED BY <2>1, <2>2, <2>3, <2>4, OutsideLemma
<1>6. CASE \E kind \in Kinds, len \in Nat \ {0} : Pack(t, kind, len)
  <2>1. PICK kind \in Kinds, len \in Nat \ {0} : Pack(t, kind, len)
    BY <1>6
  <2>2. /\ Alone(t) /\ sender[t].pc = "idle" /\ sender'[t].pc \in {"idle", "load", "dead"}
        /\ UNCHANGED <<stream, sent, torn, client>>
    BY <1>1, <2>1, PackLemma
  <2>3. ~Underway(t) /\ ~Underway(t)'
    BY <2>2 DEF Underway, At
  <2> QED BY <2>2, <2>3, OutsideLemma
<1> QED BY <1>2, <1>3, <1>4, <1>5, <1>6

LEMMA OrderedStep == Typed /\ Ordered /\ [Next]_vars => Ordered'
<1> SUFFICES ASSUME Typed, Ordered, [Next]_vars PROVE Ordered'
  OBVIOUS
<1>1. CASE Next
  BY <1>1, NextCases, OrderedOther, OrderedBegin, OrderedContinue, OrderedReader
<1>2. CASE UNCHANGED vars
  BY <1>2 DEF vars, Ordered, InPlace, OneWrites, WritesLast, InOrder, Underway, At, End
<1> QED BY <1>1, <1>2

\* While no sendall is interleaved with another or cut by its timeout, the client is
\* handed the packets in their order and without a gap, and its thread is not lost,
\* whatever the pieces in which TCP carries them.
THEOREM TheyArriveInOrder == Spec => []ArriveInOrder
<1>1. Typed /\ Ordered => ArriveInOrder
  BY DEF Ordered, InOrder, ArriveInOrder
<1>2. Typed /\ Ordered /\ [Next]_vars => Typed' /\ Ordered'
  BY TypedStep, OrderedStep
<1> QED BY <1>1, <1>2, TypedInit, OrderedInit, PTL DEF Spec

=============================================================================
