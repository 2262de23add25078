--------------------------- MODULE InputMuxProofs ---------------------------
(***************************************************************************)
(* Proofs about the input multiplexer, for any sources, any timeout, any   *)
(* block size and any length of the queue: its variables keep their types, *)
(* the server never takes audio of one source for another's, and what the  *)
(* two threads queue is the one stream that the module Stream specifies.   *)
(***************************************************************************)
EXTENDS InputMux, TLAPS

\* What makes AudioMatchesCodec inductive.  The last codec queued is that of
\* `latest'; the playing source and the audio collected are latest's, except
\* while a codec event is past its claim and before its place in the queue:
\* then the playing source is the event's and nothing is collected yet.
Claimed == handler.key = "codec" /\ handler.pc \in {"check", "forward"}

EndsWithCodecOf(q, polled, last) ==
  /\ \A k \in 1..Len(q) :
       q[k].key = "codec" /\ NoCodecIn(q, k + 1, Len(q)) => q[k].from = last
  /\ NoCodecIn(q, 1, Len(q)) => polled = last

QueueEndsWithLatest == EndsWithCodecOf(queue, stream, latest)

OneOwner ==
  /\ now_playing # None =>
       IF Claimed THEN now_playing = handler.source ELSE latest = {now_playing}
  /\ IF Claimed THEN audio_buffer.from = {} ELSE audio_buffer.from \subseteq latest

HandlerIsOwner ==
  /\ handler.pc = "codec" => handler.key = "codec"
  /\ handler.pc = "claim" => handler.key = "codec"
  /\ handler.pc = "check" /\ handler.key = "codec" => audio_buffer = EmptyBuffer
  /\ handler.pc = "arm" => handler.key = "audio"
  /\ handler.pc = "forward" => handler.key # "stop"
  /\ handler.pc \in {"arm", "forward"} /\ handler.key # "codec"
       => latest = {handler.source}

\* What makes TypeOK inductive: the ticker never finds the counter at 0 when
\* it loads it, so it never stores -1.
CounterNotZero ==
  /\ ticker.pc \in {"sleep", "load", "store", "put"} => timeout_counter # 0
  /\ ticker.pc = "store" => ticker.loaded # 0

IInv ==
  /\ TypeOK
  /\ CounterNotZero
  /\ QueueEndsWithLatest
  /\ OneOwner
  /\ HandlerIsOwner
  /\ AudioMatchesCodec

-----------------------------------------------------------------------------
USE NoneAssumption, TimeoutAssumption, MinBlockAssumption

\* An event put at the end keeps the codecs in order, provided audio is put
\* only for the source whose codec was put last (new_event).
LEMMA PutKeepsOrder ==
  ASSUME NEW q \in Seq(Item), NEW e \in Item, NEW polled, NEW last,
         e.key = "audio" => e.from \subseteq last,
         EndsWithCodecOf(q, polled, last), InCodecOrder(q, polled)
  PROVE  LET r == Append(q, e)
         IN  /\ r \in Seq(Item)
             /\ EndsWithCodecOf(r, polled, IF e.key = "codec" THEN e.from ELSE last)
             /\ InCodecOrder(r, polled)
<1> DEFINE n == Len(q)
           r == Append(q, e)
<1>1. /\ n \in Nat
      /\ r \in Seq(Item)
      /\ Len(r) = n + 1
      /\ r[n + 1] = e
      /\ \A k \in 1..n : r[k] = q[k]
  OBVIOUS
<1> HIDE DEF n, r
<1>2. \A a \in Nat, b \in 0..n : NoCodecIn(r, a + 1, b) <=> NoCodecIn(q, a + 1, b)
  BY <1>1 DEF NoCodecIn
<1>3. \A a \in 0..n : NoCodecIn(r, a + 1, n + 1)
                        <=> NoCodecIn(q, a + 1, n) /\ e.key # "codec"
  BY <1>1 DEF NoCodecIn
<1>4. \A b \in 0..n : NoCodecIn(r, 1, b) <=> NoCodecIn(q, 1, b)
  BY <1>1 DEF NoCodecIn
<1>5. NoCodecIn(r, 1, n + 1) <=> NoCodecIn(q, 1, n) /\ e.key # "codec"
  BY <1>1 DEF NoCodecIn
<1>6. EndsWithCodecOf(r, polled, IF e.key = "codec" THEN e.from ELSE last)
  <2>1. ASSUME NEW k \in 1..n, r[k].key = "codec", NoCodecIn(r, k + 1, n + 1)
        PROVE  r[k].from = last /\ e.key # "codec"
    BY <1>1, <1>3, <2>1 DEF EndsWithCodecOf, n
  <2>2. NoCodecIn(r, 1, n + 1) => polled = last /\ e.key # "codec"
    BY <1>5 DEF EndsWithCodecOf, n
  <2> QED BY <1>1, <2>1, <2>2 DEF EndsWithCodecOf
<1>7. InCodecOrder(r, polled)
  <2>1. ASSUME NEW j \in 1..n, r[j].key = "audio"
        PROVE  FollowsCodecOf(r, polled, j, r[j].from)
    <3>1. r[j] = q[j] /\ FollowsCodecOf(q, polled, j, q[j].from)
      BY <1>1, <2>1 DEF InCodecOrder, n
    <3>2. \A k \in 1..(j - 1) : r[k] = q[k]
                                /\ (NoCodecIn(r, k + 1, j - 1) <=> NoCodecIn(q, k + 1, j - 1))
      BY <1>1, <1>2
    <3> QED BY <1>1, <1>4, <3>1, <3>2 DEF FollowsCodecOf
  <2>2. ASSUME e.key = "audio"
        PROVE  FollowsCodecOf(r, polled, n + 1, e.from)
    <3>1. ASSUME NEW k \in 1..n, r[k].key = "codec", NoCodecIn(r, k + 1, n)
          PROVE  e.from \subseteq r[k].from
      BY <1>1, <1>2, <2>2, <3>1 DEF EndsWithCodecOf, n
    <3>2. NoCodecIn(r, 1, n) => e.from \subseteq polled
      BY <1>1, <1>4, <2>2 DEF EndsWithCodecOf, n
    <3> QED BY <1>1, <3>1, <3>2 DEF FollowsCodecOf
  <2> QED BY <1>1, <2>1, <2>2 DEF InCodecOrder
<1> QED BY <1>1, <1>6, <1>7 DEF r

\* Polling an event keeps the codecs in order: the server goes by a codec from
\* the moment it polled it (event_poll).
LEMMA PollKeepsOrder ==
  ASSUME NEW q \in Seq(Item), NEW polled, NEW last, q # <<>>,
         EndsWithCodecOf(q, polled, last), InCodecOrder(q, polled)
  PROVE  LET now == IF Head(q).key = "codec" THEN Head(q).from ELSE polled
         IN  /\ Tail(q) \in Seq(Item)
             /\ EndsWithCodecOf(Tail(q), now, last)
             /\ InCodecOrder(Tail(q), now)
<1> DEFINE n == Len(q)
           r == Tail(q)
           now == IF q[1].key = "codec" THEN q[1].from ELSE polled
<1>1. /\ n \in Nat \ {0}
      /\ r \in Seq(Item)
      /\ Len(r) = n - 1
      /\ Head(q) = q[1]
      /\ \A k \in 1..(n - 1) : r[k] = q[k + 1]
  OBVIOUS
<1> HIDE DEF n, r
<1>2. ASSUME NEW a \in 1..n, NEW b \in 0..(n - 1)
      PROVE  NoCodecIn(r, a, b) <=> NoCodecIn(q, a + 1, b + 1)
  <2>1. ASSUME NoCodecIn(q, a + 1, b + 1), NEW m \in a..b
        PROVE  r[m].key # "codec"
    <3>1. (m + 1) \in (a + 1)..(b + 1) /\ r[m] = q[m + 1]
      BY <1>1
    <3> QED BY <2>1, <3>1 DEF NoCodecIn
  <2>2. ASSUME NoCodecIn(r, a, b), NEW m \in (a + 1)..(b + 1)
        PROVE  q[m].key # "codec"
    <3>1. (m - 1) \in a..b /\ r[m - 1] = q[m]
      BY <1>1
    <3> QED BY <2>2, <3>1 DEF NoCodecIn
  <2> QED BY <2>1, <2>2 DEF NoCodecIn
<1>3. ASSUME NEW b \in 0..(n - 1)
      PROVE  NoCodecIn(q, 1, b + 1) <=> q[1].key # "codec" /\ NoCodecIn(r, 1, b)
  <2>1. NoCodecIn(q, 1, b + 1) <=> q[1].key # "codec" /\ NoCodecIn(q, 1 + 1, b + 1)
    BY <1>1 DEF NoCodecIn
  <2> QED BY <1>1, <1>2, <2>1
<1>4. EndsWithCodecOf(r, now, last)
  <2>1. ASSUME NEW k \in 1..(n - 1), r[k].key = "codec", NoCodecIn(r, k + 1, n - 1)
        PROVE  r[k].from = last
    <3>1. NoCodecIn(q, (k + 1) + 1, n)
      BY <1>1, <1>2, <2>1
    <3> QED BY <1>1, <2>1, <3>1 DEF EndsWithCodecOf, n
  <2>2. ASSUME NoCodecIn(r, 1, n - 1) PROVE now = last
    <3>1. CASE q[1].key = "codec"
      <4>1. NoCodecIn(q, 1 + 1, n)
        BY <1>1, <1>2, <2>2
      <4> QED BY <1>1, <3>1, <4>1 DEF EndsWithCodecOf, n
    <3>2. CASE q[1].key # "codec"
      <4>1. NoCodecIn(q, 1, n)
        BY <1>1, <1>3, <2>2, <3>2
      <4> QED BY <1>1, <3>2, <4>1 DEF EndsWithCodecOf, n
    <3> QED BY <3>1, <3>2
  <2> QED BY <1>1, <2>1, <2>2 DEF EndsWithCodecOf
<1>5. InCodecOrder(r, now)
  <2> SUFFICES ASSUME NEW j \in 1..(n - 1), r[j].key = "audio"
               PROVE  FollowsCodecOf(r, now, j, r[j].from)
    BY <1>1 DEF InCodecOrder
  <2>a. j - 1 \in 0..(n - 1) /\ (j - 1) + 1 = j /\ j \in 1..n
    BY <1>1
  <2>1. r[j] = q[j + 1] /\ FollowsCodecOf(q, polled, j + 1, q[j + 1].from)
    BY <1>1 DEF InCodecOrder, n
  <2>2. ASSUME NEW k \in 1..(j - 1), r[k].key = "codec", NoCodecIn(r, k + 1, j - 1)
        PROVE  r[j].from \subseteq r[k].from
    <3>1. k + 1 \in 1..j /\ q[k + 1].key = "codec" /\ r[k] = q[k + 1]
      <4>1. k \in 1..(n - 1) /\ k + 1 \in 1..j
        BY <1>1, <2>a
      <4> QED BY <1>1, <2>2, <4>1
    <3>2. NoCodecIn(q, (k + 1) + 1, j)
      <4>1. k + 1 \in 1..n
        BY <1>1
      <4> QED BY <1>2, <2>2, <2>a, <4>1
    <3> QED BY <2>1, <3>1, <3>2 DEF FollowsCodecOf
  <2>3. ASSUME NoCodecIn(r, 1, j - 1) PROVE r[j].from \subseteq now
    <3>1. CASE q[1].key = "codec"
      <4>1. NoCodecIn(q, 1 + 1, j)
        <5>1. 1 \in 1..n
          BY <1>1
        <5> QED BY <1>2, <2>3, <2>a, <5>1
      <4> QED BY <1>1, <2>1, <3>1, <4>1 DEF FollowsCodecOf
    <3>2. CASE q[1].key # "codec"
      <4>1. NoCodecIn(q, 1, j)
        BY <1>1, <1>3, <2>3, <3>2, <2>a
      <4> QED BY <1>1, <2>1, <3>2, <4>1 DEF FollowsCodecOf
    <3> QED BY <3>1, <3>2
  <2> QED BY <2>2, <2>3 DEF FollowsCodecOf
<1> QED BY <1>1, <1>4, <1>5 DEF r

-----------------------------------------------------------------------------
\* The two places where an event is put are the two kinds of step that change
\* the queue; both keep AudioMatchesCodec's part of the invariant.
LEMMA PutStep ==
  ASSUME NEW key \in {"codec", "audio", "stop", "other"}, NEW from \in SUBSET Sources,
         IInv, Put(key, from), stream' = stream,
         key = "audio" => from \subseteq latest,
         latest' = IF key = "codec" THEN from ELSE latest
  PROVE  queue' \in Seq(Item) /\ QueueEndsWithLatest' /\ AudioMatchesCodec'
<1> DEFINE e == [key |-> key, from |-> from]
<1>1. e \in Item /\ e.key = key /\ e.from = from
  BY DEF Item
<1>2. queue \in Seq(Item) /\ EndsWithCodecOf(queue, stream, latest) /\ InCodecOrder(queue, stream)
  BY DEF IInv, TypeOK, QueueEndsWithLatest, AudioMatchesCodec
<1>3. queue' = Append(queue, e)
  BY DEF Put
<1> HIDE DEF e
<1>4. LET r == Append(queue, e)
      IN  /\ r \in Seq(Item)
          /\ EndsWithCodecOf(r, stream, IF e.key = "codec" THEN e.from ELSE latest)
          /\ InCodecOrder(r, stream)
  BY <1>1, <1>2, PutKeepsOrder
<1> QED BY <1>1, <1>3, <1>4 DEF QueueEndsWithLatest, AudioMatchesCodec

\* Any other step leaves the queue and who is responsible for it alone.
LEMMA QueueUntouched ==
  ASSUME IInv, UNCHANGED <<queue, stream, latest>>
  PROVE  queue' \in Seq(Item) /\ QueueEndsWithLatest' /\ AudioMatchesCodec'
BY DEF IInv, TypeOK, QueueEndsWithLatest, AudioMatchesCodec

\* Polling keeps the queue's part of the invariant, `stream' following what the
\* server polled (event_poll).
LEMMA PollStep ==
  ASSUME IInv, Poll
  PROVE  queue' \in Seq(Item) /\ QueueEndsWithLatest' /\ AudioMatchesCodec'
<1>1. queue \in Seq(Item) /\ EndsWithCodecOf(queue, stream, latest) /\ InCodecOrder(queue, stream)
  BY DEF IInv, TypeOK, QueueEndsWithLatest, AudioMatchesCodec
<1>2. queue # <<>> /\ queue' = Tail(queue) /\ latest' = latest
      /\ stream' = IF Head(queue).key = "codec" THEN Head(queue).from ELSE stream
  BY DEF Poll
<1>3. LET now == IF Head(queue).key = "codec" THEN Head(queue).from ELSE stream
      IN  /\ Tail(queue) \in Seq(Item)
          /\ EndsWithCodecOf(Tail(queue), now, latest)
          /\ InCodecOrder(Tail(queue), now)
  BY <1>1, <1>2, PollKeepsOrder
<1> QED BY <1>2, <1>3 DEF QueueEndsWithLatest, AudioMatchesCodec

\* IInv is an inductive invariant of the multiplexer.
THEOREM Invariance == Spec => []IInv
<1>1. Init => IInv
  BY SMTT(30) DEF Init, IInv, TypeOK, CounterNotZero, QueueEndsWithLatest, EndsWithCodecOf,
     OneOwner, HandlerIsOwner, AudioMatchesCodec, InCodecOrder, NoCodecIn, Claimed,
     Owner, Ticks, Free, EmptyBuffer, HandlerPlaces, TickerPlaces, Keys
<1>2. IInv /\ [Next]_vars => IInv'
  <2> SUFFICES ASSUME IInv, [Next]_vars PROVE IInv'
    OBVIOUS
  <2> DEFINE RestInv == /\ now_playing \in Owner
                        /\ timeout_counter \in Ticks
                        /\ audio_buffer \in [len : 0..(MinBlock - 1), from : SUBSET Sources]
                        /\ handler \in [pc : HandlerPlaces, key : Keys, source : Owner]
                        /\ handler.source = None => handler.pc = "free"
                        /\ ticker \in [pc : TickerPlaces, loaded : 0..TimeoutTicks]
                        /\ latest \in SUBSET Sources
                        /\ stream \in SUBSET Sources
                        /\ CounterNotZero
                        /\ OneOwner
                        /\ HandlerIsOwner
             QueueInv == queue \in Seq(Item) /\ QueueEndsWithLatest /\ AudioMatchesCodec
  <2>0. RestInv /\ QueueInv
    BY DEF IInv, TypeOK
  <2>q. RestInv' /\ QueueInv' => IInv'
    BY DEF IInv, TypeOK
  <2> USE DEF At, Goto, TickerAt, TickerGoto, history, Owner, Ticks, Free, EmptyBuffer,
              CounterNotZero, OneOwner, HandlerIsOwner, Claimed, HandlerPlaces, TickerPlaces, Keys
  <2>1. ASSUME NEW s \in Sources, NEW key \in Keys, Enter(s, key)
        PROVE  IInv'
    <3>1. QueueInv'
      BY <2>1, QueueUntouched DEF Enter
    <3>2. RestInv'
      BY <2>0, <2>1 DEF Enter
    <3> QED BY <2>q, <3>1, <3>2
  <2>2. CASE Codec
    <3>1. QueueInv'
      BY <2>2, QueueUntouched DEF Codec
    <3>2. RestInv'
      BY <2>0, <2>2 DEF Codec
    <3> QED BY <2>q, <3>1, <3>2
  <2>3. CASE StopClear
    <3>1. QueueInv'
      BY <2>3, QueueUntouched DEF StopClear
    <3>2. RestInv'
      BY <2>0, <2>3 DEF StopClear
    <3> QED BY <2>q, <3>1, <3>2
  <2>4. CASE StopDisarm
    <3>1. QueueInv'
      BY <2>4, QueueUntouched DEF StopDisarm
    <3>2. RestInv'
      BY <2>0, <2>4 DEF StopDisarm
    <3> QED BY <2>q, <3>1, <3>2
  <2>5. CASE StopPut
    <3>1. Put("stop", {}) /\ UNCHANGED <<stream, latest>>
      BY <2>5 DEF StopPut
    <3>2. QueueInv'
      BY <3>1, PutStep
    <3>3. RestInv'
      BY <2>0, <2>5 DEF StopPut
    <3> QED BY <2>q, <3>2, <3>3
  <2>6. CASE Claim
    <3>1. QueueInv'
      BY <2>6, QueueUntouched DEF Claim, ClaimWith
    <3>2. RestInv'
      BY <2>0, <2>6 DEF Claim, ClaimWith
    <3> QED BY <2>q, <3>1, <3>2
  <2>7. CASE Check
    <3>1. QueueInv'
      BY <2>7, QueueUntouched DEF Check, CheckIf
    <3>2. RestInv'
      BY <2>0, <2>7 DEF Check, CheckIf
    <3> QED BY <2>q, <3>1, <3>2
  <2>8. CASE Arm
    <3>1. QueueInv'
      BY <2>8, QueueUntouched DEF Arm
    <3>2. RestInv'
      BY <2>0, <2>8 DEF Arm
    <3> QED BY <2>q, <3>1, <3>2
  <2>9. CASE Collect
    <3>1. handler.source \in Sources /\ latest = {handler.source} /\ audio_buffer.from \subseteq latest
      BY <2>0, <2>9 DEF Collect, CollectOrPass
    <3>2. QueueInv'
      <4>1. CASE ~(audio_buffer.len + 1 >= MinBlock)
        BY <2>9, <4>1, QueueUntouched DEF Collect, CollectOrPass
      <4>2. CASE audio_buffer.len + 1 >= MinBlock
        <5>1. Put("audio", audio_buffer.from \cup {handler.source}) /\ UNCHANGED <<stream, latest>>
          BY <2>9, <4>2 DEF Collect, CollectOrPass
        <5> QED BY <2>0, <3>1, <5>1, PutStep
      <4> QED BY <4>1, <4>2
    <3>3. /\ audio_buffer' \in [len : 0..(MinBlock - 1), from : SUBSET Sources]
          /\ audio_buffer'.from \subseteq latest
      <4>1. CASE ~(audio_buffer.len + 1 >= MinBlock)
        BY <2>0, <2>9, <3>1, <4>1 DEF Collect, CollectOrPass
      <4>2. CASE audio_buffer.len + 1 >= MinBlock
        BY <2>0, <2>9, <3>1, <4>2 DEF Collect, CollectOrPass
      <4> QED BY <4>1, <4>2
    <3>4. RestInv'
      BY <2>0, <2>9, <3>1, <3>3 DEF Collect, CollectOrPass
    <3> QED BY <2>q, <3>2, <3>4
  <2>10. CASE Forward
    <3>1. handler.source \in Sources /\ handler.key \in {"codec", "other", "flush"}
      BY <2>0, <2>10 DEF Forward
    <3>2. QueueInv'
      <4>1. CASE handler.key = "flush"
        BY <2>10, <4>1, QueueUntouched DEF Forward
      <4>2. CASE handler.key # "flush"
        <5>1. /\ Put(handler.key, {handler.source}) /\ stream' = stream
              /\ latest' = IF handler.key = "codec" THEN {handler.source} ELSE latest
          BY <2>10, <4>2 DEF Forward
        <5> QED BY <3>1, <4>2, <5>1, PutStep
      <4> QED BY <4>1, <4>2
    <3>3. RestInv'
      BY <2>0, <2>10, <3>1 DEF Forward
    <3> QED BY <2>q, <3>2, <3>3
  <2>11. CASE TickWake
    <3>1. QueueInv'
      BY <2>11, QueueUntouched DEF TickWake
    <3>2. RestInv'
      BY <2>0, <2>11 DEF TickWake
    <3> QED BY <2>q, <3>1, <3>2
  <2>12. CASE TickLoad
    <3>1. QueueInv'
      BY <2>12, QueueUntouched DEF TickLoad
    <3>2. RestInv'
      BY <2>0, <2>12 DEF TickLoad
    <3> QED BY <2>q, <3>1, <3>2
  <2>13. CASE TickStore
    <3>1. QueueInv'
      BY <2>13, QueueUntouched DEF TickStore
    <3>2. RestInv'
      BY <2>0, <2>13 DEF TickStore
    <3> QED BY <2>q, <3>1, <3>2
  <2>14. CASE TickTest
    <3>1. QueueInv'
      BY <2>14, QueueUntouched DEF TickTest, TickTestFor
    <3>2. RestInv'
      BY <2>0, <2>14 DEF TickTest, TickTestFor
    <3> QED BY <2>q, <3>1, <3>2
  <2>15. CASE TickClear
    <3>1. QueueInv'
      BY <2>15, QueueUntouched DEF TickClear
    <3>2. RestInv'
      BY <2>0, <2>15 DEF TickClear
    <3> QED BY <2>q, <3>1, <3>2
  <2>16. CASE TickDisarm
    <3>1. QueueInv'
      BY <2>16, QueueUntouched DEF TickDisarm
    <3>2. RestInv'
      BY <2>0, <2>16 DEF TickDisarm
    <3> QED BY <2>q, <3>1, <3>2
  <2>17. CASE TickPut
    <3>1. Put("stop", {}) /\ UNCHANGED <<stream, latest>>
      BY <2>17 DEF TickPut
    <3>2. QueueInv'
      BY <3>1, PutStep
    <3>3. RestInv'
      BY <2>0, <2>17 DEF TickPut
    <3> QED BY <2>q, <3>2, <3>3
  <2>18. CASE Poll
    <3>1. QueueInv'
      BY <2>18, PollStep
    <3>2. RestInv'
      <4>1. queue # <<>> /\ queue \in Seq(Item)
        BY <2>0, <2>18 DEF Poll
      <4>2. Head(queue) \in Item
        BY <4>1
      <4> QED BY <2>0, <2>18, <4>2 DEF Poll, Item
    <3> QED BY <2>q, <3>1, <3>2
  <2>19. CASE UNCHANGED vars
    <3>1. QueueInv'
      BY <2>19, QueueUntouched DEF vars
    <3>2. RestInv'
      BY <2>0, <2>19 DEF vars
    <3> QED BY <2>q, <3>1, <3>2
  <2> QED BY <2>1, <2>2, <2>3, <2>4, <2>5, <2>6, <2>7, <2>8, <2>9, <2>10, <2>11, <2>12, <2>13, <2>14, <2>15, <2>16, <2>17, <2>18, <2>19 DEF Next, SourceEvent, Tick
<1> QED BY <1>1, <1>2, PTL DEF Spec

\* Every variable of the multiplexer keeps its type, for any sources, any
\* timeout and any block size: in particular the countdown of run(), which
\* loads and stores without the lock, never takes the counter below 0.
THEOREM TypeCorrect == Spec => []TypeOK
BY Invariance, PTL DEF IInv

\* The server never takes audio of one source for another's, whatever the
\* sources, the block size and the length of the queue.
THEOREM AudioFollowsItsCodec == Spec => []AudioMatchesCodec
BY Invariance, PTL DEF IInv

-----------------------------------------------------------------------------
\* A step that leaves the queue and its two histories alone is no step of the stream.
LEMMA StreamStutters ==
  ASSUME UNCHANGED <<queue, latest, stream>>
  PROVE  [Promise!Next]_(Promise!vars)
BY DEF Promise!vars

\* Every step of the two threads and of the server is one of the stream's, or none:
\* stop_playing interrupts, new_event goes on for the source whose codec was put last.
LEMMA StepImplementsStream ==
  ASSUME IInv, [Next]_vars
  PROVE  [Promise!Next]_(Promise!vars)
<1> USE DEF At, Goto, TickerAt, TickerGoto, history
<1>0. TypeOK /\ OneOwner /\ HandlerIsOwner
  BY DEF IInv
<1>1. ASSUME Put("stop", {}), UNCHANGED <<latest, stream>>
      PROVE  Promise!Next
  BY <1>1 DEF Put, Promise!Next, Promise!Stop, Promise!Emit
<1>2. CASE StopPut
  BY <1>1, <1>2 DEF StopPut
<1>3. CASE TickPut
  BY <1>1, <1>3 DEF TickPut
<1>4. CASE Collect
  <2>1. CASE ~(audio_buffer.len + 1 >= MinBlock)
    BY <1>4, <2>1, StreamStutters DEF Collect, CollectOrPass
  <2>2. CASE audio_buffer.len + 1 >= MinBlock
    <3>1. handler.source \in Sources /\ latest = {handler.source} /\ audio_buffer.from \subseteq latest
      BY <1>0, <1>4 DEF Collect, CollectOrPass, TypeOK, OneOwner, HandlerIsOwner, Claimed, Owner
    <3>2. audio_buffer.from \cup {handler.source} = latest /\ latest # {}
      BY <3>1
    <3>3. Put("audio", latest) /\ UNCHANGED <<latest, stream>>
      BY <1>4, <2>2, <3>2 DEF Collect, CollectOrPass
    <3>4. Promise!Go("audio")
      BY <3>2, <3>3 DEF Put, Promise!Go, Promise!Emit
    <3> QED BY <3>4 DEF Promise!Next
  <2> QED BY <2>1, <2>2
<1>5. CASE Forward
  <2>0. handler.source \in Sources /\ handler.key \in {"codec", "other", "flush"}
    BY <1>0, <1>5 DEF Forward, TypeOK, HandlerIsOwner, Keys, Owner
  <2>1. CASE handler.key = "flush"
    BY <1>5, <2>1, StreamStutters DEF Forward
  <2>2. CASE handler.key = "codec"
    <3>1. Promise!Start(handler.source)
      BY <1>5, <2>2 DEF Forward, Put, Promise!Start, Promise!Emit
    <3> QED BY <2>0, <3>1 DEF Promise!Next
  <2>3. CASE handler.key = "other"
    <3>1. latest = {handler.source}
      BY <1>0, <1>5, <2>3 DEF Forward, HandlerIsOwner
    <3>2. Promise!Go("other")
      BY <1>5, <2>3, <3>1 DEF Forward, Put, Promise!Go, Promise!Emit
    <3> QED BY <3>2 DEF Promise!Next
  <2> QED BY <2>0, <2>1, <2>2, <2>3
<1>6. CASE Poll
  BY <1>6 DEF Poll, Promise!Next, Promise!Take
<1>7. ASSUME NEW s \in Sources, NEW key \in Keys, Enter(s, key)
      PROVE  [Promise!Next]_(Promise!vars)
  BY <1>7, StreamStutters DEF Enter
<1>8. CASE Codec \/ StopClear \/ StopDisarm \/ Claim \/ Check \/ Arm
  BY <1>8, StreamStutters DEF Codec, StopClear, StopDisarm, Claim, ClaimWith, Check, CheckIf, Arm
<1>9. CASE TickWake \/ TickLoad \/ TickStore \/ TickTest \/ TickClear \/ TickDisarm
  BY <1>9, StreamStutters
  DEF TickWake, TickLoad, TickStore, TickTest, TickTestFor, TickClear, TickDisarm
<1>10. CASE UNCHANGED vars
  BY <1>10, StreamStutters DEF vars
<1> QED BY <1>2, <1>3, <1>4, <1>5, <1>6, <1>7, <1>8, <1>9, <1>10
    DEF Next, SourceEvent, Tick

\* The multiplexer implements the stream the server relies on, whatever the sources,
\* the timeout and the block size.
THEOREM ImplementsStream == Spec => IsOneStream
<1>1. Init => Promise!Init
  BY DEF Init, Promise!Init
<1>2. IInv /\ [Next]_vars => [Promise!Next]_(Promise!vars)
  BY StepImplementsStream
<1> QED BY <1>1, <1>2, Invariance, PTL DEF Spec, IsOneStream, Promise!Spec

=============================================================================
