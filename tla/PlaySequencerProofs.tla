------------------------- MODULE PlaySequencerProofs -------------------------
(***************************************************************************)
(* Proofs about the playing core, for any groups and devices.              *)
(*                                                                         *)
(* For any number of sessions, lost connections and changes of `playing':  *)
(* a group has exactly the devices whose threads serve a client in its     *)
(* list, every variable has its type, and every thread keeps to its role.  *)
(*                                                                         *)
(* While no connection is lost: what is sent reaches those it is for, the  *)
(* codec, the parameter and the play time; and in the first session a stop *)
(* silences, what plays has power, and plays only once it has buffered.    *)
(* The hypothesis of each theorem names the deployment it is about; the    *)
(* README says what goes wrong outside it.                                 *)
(***************************************************************************)
EXTENDS PlaySequencer, TLAPS

\* A list of devices without duplicates.
Distinct(s) == \A i, j \in DOMAIN s : s[i] = s[j] => i = j

\* The variables the registration of a device depends on have their types.
RegTypes ==
  /\ thread \in [Threads -> ThreadRecord]
  /\ connected \in [Devices -> BOOLEAN]
  /\ connected_devices \in [Groups -> Seq(Devices)]
  /\ m_state \in States /\ play_times \in Nat

\* What makes Registered inductive: between the two steps of a slot that appends
\* or removes a device, the device is on one side of it already.
Served(d) ==
  CASE At(d, "register") -> connected[d]
    [] At(d, "remove")   -> ~connected[d]
    [] OTHER             -> DeviceIn(d, GroupOf[d]) <=> connected[d]

RegInv ==
  /\ RegTypes
  /\ \A d \in Devices : Served(d)
  /\ \A g \in Groups : Distinct(connected_devices[g])

-----------------------------------------------------------------------------
\* Appending a device that is not in the list (slot_device_connected).
LEMMA AppendDevice ==
  ASSUME NEW s \in Seq(Devices), NEW d \in Devices, Distinct(s), d \notin Range(s)
  PROVE  LET r == Append(s, d)
         IN  r \in Seq(Devices) /\ Distinct(r) /\ Range(r) = Range(s) \cup {d}
<1> DEFINE r == Append(s, d)
<1>1. /\ r \in Seq(Devices) /\ Len(r) = Len(s) + 1 /\ Len(s) \in Nat
      /\ r[Len(s) + 1] = d /\ \A i \in 1..Len(s) : r[i] = s[i]
  OBVIOUS
<1>2. DOMAIN s = 1..Len(s) /\ DOMAIN r = 1..(Len(s) + 1)
  BY <1>1
<1> HIDE DEF r
<1>3. Distinct(r)
  BY <1>1, <1>2 DEF Distinct, Range
<1>4. Range(r) = Range(s) \cup {d}
  BY <1>1, <1>2 DEF Range
<1> QED BY <1>1, <1>3, <1>4 DEF r

\* Removing a device that is in the list (slot_device_disconnected).
LEMMA RemoveDevice ==
  ASSUME NEW s \in Seq(Devices), NEW d \in Devices, Distinct(s), d \in Range(s)
  PROVE  LET r == Without(s, d)
         IN  r \in Seq(Devices) /\ Distinct(r) /\ Range(r) = Range(s) \ {d}
<1> DEFINE at == CHOOSE i \in DOMAIN s : s[i] = d
           r == [j \in 1..(Len(s) - 1) |-> IF j < at THEN s[j] ELSE s[j + 1]]
<1>1. /\ DOMAIN s = 1..Len(s) /\ Len(s) \in Nat
      /\ \A i \in 1..Len(s) : s[i] \in Devices
  OBVIOUS
<1>2. at \in 1..Len(s) /\ s[at] = d
  BY <1>1 DEF Range
<1> HIDE DEF at
<1>3. /\ DOMAIN r = 1..(Len(s) - 1) /\ Len(s) - 1 \in Nat
      /\ \A j \in 1..(Len(s) - 1) : r[j] = IF j < at THEN s[j] ELSE s[j + 1]
  BY <1>1, <1>2
<1>4. r \in Seq(Devices)
  <2>1. \A j \in 1..(Len(s) - 1) : j \in 1..Len(s) /\ j + 1 \in 1..Len(s)
    BY <1>1
  <2>2. r \in [1..(Len(s) - 1) -> Devices]
    BY <1>1, <2>1
  <2> QED BY <1>3, <2>2
<1> HIDE DEF r
<1>5. Distinct(r)
  BY <1>1, <1>2, <1>3 DEF Distinct
<1>6. Range(r) = Range(s) \ {d}
  <2>1. ASSUME NEW j \in 1..(Len(s) - 1) PROVE r[j] \in Range(s) \ {d}
    BY <1>1, <1>2, <1>3, <2>1 DEF Range, Distinct
  <2>2. ASSUME NEW i \in 1..Len(s), s[i] # d PROVE s[i] \in Range(r)
    <3>1. CASE i < at
      <4>1. i \in 1..(Len(s) - 1) /\ r[i] = s[i]
        BY <1>1, <1>2, <1>3, <3>1
      <4> QED BY <1>3, <4>1 DEF Range
    <3>2. CASE i > at
      <4>1. i - 1 \in 1..(Len(s) - 1) /\ r[i - 1] = s[i]
        BY <1>1, <1>2, <1>3, <3>2
      <4> QED BY <1>3, <4>1 DEF Range
    <3> QED BY <1>2, <2>2, <3>1, <3>2
  <2> QED BY <1>1, <1>3, <2>1, <2>2 DEF Range
<1>7. Without(s, d) = r
  BY DEF Without, r, at
<1> QED BY <1>4, <1>5, <1>6, <1>7

-----------------------------------------------------------------------------
USE GroupOfAssumption, NoneAssumption, ThreadAssumption

\* The local variables a thread may go on with, each kind of update on its own.
LEMMA FreshRecords ==
  /\ Idle \in ThreadRecord
  /\ \A p \in Packets : ToAll(p) \in ThreadRecord /\ ToAll(p).pc = "groups"
  /\ \A p \in Packets, g \in Groups :
       /\ ToGroup(g, p) \in ThreadRecord /\ ToGroup(g, p).pc = "send"
       /\ [ToGroup(g, p) EXCEPT !.next = "disable"] \in ThreadRecord
       /\ [ToGroup(g, p) EXCEPT !.next = "disable"].pc = "send"
<1>1. Idle \in ThreadRecord
  BY DEF Idle, ThreadRecord, Places, States, Packets
<1>2. ASSUME NEW p \in Packets PROVE ToAll(p) \in ThreadRecord /\ ToAll(p).pc = "groups"
  BY <1>1 DEF ToAll, ThreadRecord, Places
<1>3. ASSUME NEW p \in Packets, NEW g \in Groups
      PROVE  /\ ToGroup(g, p) \in ThreadRecord /\ ToGroup(g, p).pc = "send"
             /\ [ToGroup(g, p) EXCEPT !.next = "disable"] \in ThreadRecord
             /\ [ToGroup(g, p) EXCEPT !.next = "disable"].pc = "send"
  BY <1>1 DEF ToGroup, ThreadRecord, Places
<1> QED BY <1>1, <1>2, <1>3

\* A thread's local variables keep their types when a step updates some of them.
LEMMA NewPlace ==
  ASSUME NEW r \in ThreadRecord, NEW p \in Places
  PROVE  LET s == [r EXCEPT !.pc = p] IN s \in ThreadRecord /\ s.pc = p
BY DEF ThreadRecord

\* Likewise, for a state to change to.
LEMMA NewState ==
  ASSUME NEW r \in ThreadRecord, NEW p \in Places, NEW n \in States
  PROVE  LET s == [r EXCEPT !.pc = p, !.new = n] IN s \in ThreadRecord /\ s.pc = p
BY DEF ThreadRecord

\* Likewise, for audio that is sent after a change.
LEMMA AudioNext ==
  ASSUME NEW r \in ThreadRecord, NEW p \in Places
  PROVE  LET s == [r EXCEPT !.pc = p, !.next = "audio"] IN s \in ThreadRecord /\ s.pc = p
BY DEF ThreadRecord

\* Likewise, for a packet to send.
LEMMA NewPacket ==
  ASSUME NEW r \in ThreadRecord, NEW p \in Places, NEW q \in Packets
  PROVE  LET s == [r EXCEPT !.pc = p, !.packet = q] IN s \in ThreadRecord /\ s.pc = p
BY DEF ThreadRecord

\* Likewise, for the next device of a group.
LEMMA NextDevice ==
  ASSUME NEW r \in ThreadRecord
  PROVE  LET s == [r EXCEPT !.idx = @ + 1] IN s \in ThreadRecord /\ s.pc = r.pc
BY DEF ThreadRecord

\* Likewise, for the second packet to a group.
LEMMA SecondPacket ==
  ASSUME NEW r \in ThreadRecord, NEW q \in Packets, NEW i \in Nat \ {0}
  PROVE  LET s == [r EXCEPT !.packet = q, !.idx = i, !.next = "nothing"]
         IN  s \in ThreadRecord /\ s.pc = r.pc
BY DEF ThreadRecord

\* Likewise, for the next group of a loop.
LEMMA NewGroup ==
  ASSUME NEW r \in ThreadRecord, NEW g \in Groups, NEW i \in Nat \ {0}
  PROVE  LET s == [r EXCEPT !.group = g, !.idx = i, !.todo = @ \ {g}]
         IN  s \in ThreadRecord /\ s.pc = r.pc
BY DEF ThreadRecord

\* A step of one thread that leaves the registry alone, and neither enters nor
\* leaves the middle of a slot.
Slots == {"register", "remove"}

Aside(t) ==
  /\ thread' \in [Threads -> ThreadRecord]
  /\ \A u \in Threads \ {t} : thread'[u] = thread[u]
  /\ thread[t].pc \notin Slots /\ thread'[t].pc \notin Slots
  /\ UNCHANGED <<connected, connected_devices>>

\* So is one that only goes on, from and to a place outside the slots.
LEMMA ContinuesAside ==
  ASSUME RegInv, NEW t \in Threads, NEW here \in ThreadRecord, Continues(t, here),
         thread[t].pc \notin Slots, here.pc \notin Slots,
         UNCHANGED <<connected, connected_devices>>
  PROVE  Aside(t)
BY DEF RegInv, RegTypes, Continues, Aside

\* Such a step keeps the invariant.
LEMMA AsideStep ==
  ASSUME RegInv, NEW t \in Threads, Aside(t), m_state' \in States, play_times' \in Nat
  PROVE  RegInv'
<1>1. RegTypes'
  BY DEF RegInv, RegTypes, Aside
<1>2. ASSUME NEW d \in Devices PROVE Served(d)'
  <2>1. d \in Threads /\ Served(d)
    BY DEF RegInv, Threads
  <2>2. DeviceIn(d, GroupOf[d])' <=> DeviceIn(d, GroupOf[d])
    BY DEF DeviceIn, Aside
  <2>3. CASE d = t
    BY <2>1, <2>2, <2>3 DEF Served, Aside, Slots, At
  <2>4. CASE d # t
    BY <2>1, <2>2, <2>4 DEF Served, Aside, At
  <2> QED BY <2>3, <2>4
<1>3. ASSUME NEW g \in Groups PROVE Distinct(connected_devices[g])'
  BY DEF RegInv, Aside
<1> QED BY <1>1, <1>2, <1>3 DEF RegInv

-----------------------------------------------------------------------------
\* The ways a thread goes on that several actions share: to another place, back
\* to its loop, or to what follows the packet it has sent.
LEMMA GoesAside ==
  ASSUME RegInv, NEW t \in Threads, thread[t].pc \notin Slots,
         UNCHANGED <<connected, connected_devices>>
  PROVE  /\ \A p \in Places \ Slots : Goto(t, p) => Aside(t)
         /\ \A p \in Packets : Continues(t, ToAll(p)) => Aside(t)
         /\ Return(t) => Aside(t)
         /\ Continue(t) => Aside(t)
<1>1. thread[t] \in ThreadRecord
  BY DEF RegInv, RegTypes
<1>2. ASSUME NEW p \in Places \ Slots, Goto(t, p) PROVE Aside(t)
  <2> DEFINE here == [thread[t] EXCEPT !.pc = p]
  <2>1. here \in ThreadRecord /\ here.pc = p
    BY <1>1, NewPlace
  <2>2. Continues(t, here)
    BY <1>2 DEF Goto
  <2> HIDE DEF here
  <2> QED BY <2>1, <2>2, ContinuesAside
<1>3. ASSUME NEW p \in Packets, Continues(t, ToAll(p)) PROVE Aside(t)
  BY <1>3, FreshRecords, ContinuesAside DEF Slots
<1>4. ASSUME Return(t) PROVE Aside(t)
  BY <1>4, FreshRecords, ContinuesAside DEF Return, Idle, Slots
<1>5. ASSUME Continue(t) PROVE Aside(t)
  <2>1. CASE Return(t)
    BY <1>4, <2>1
  <2>2. CASE Continues(t, ToAll("audio"))
    BY <1>3, <2>2 DEF Packets
  <2>3. CASE Continues(t, [thread[t] EXCEPT !.packet = "disable", !.idx = 1,
                                            !.next = "nothing"])
    <3> DEFINE here == [thread[t] EXCEPT !.packet = "disable", !.idx = 1,
                                         !.next = "nothing"]
    <3>1. "disable" \in Packets /\ 1 \in Nat \ {0}
      BY DEF Packets
    <3>2. here \in ThreadRecord /\ here.pc = thread[t].pc
      BY <1>1, <3>1, SecondPacket
    <3>3. Continues(t, here)
      BY <2>3
    <3> HIDE DEF here
    <3> QED BY <3>2, <3>3, ContinuesAside
  <2> QED BY <1>5, <2>1, <2>2, <2>3 DEF Continue
<1> QED BY <1>2, <1>3, <1>4, <1>5

\* A thread that sends keeps the invariant.
LEMMA SendStep ==
  ASSUME RegInv, NEW t \in Threads, Send(t)
  PROVE  RegInv'
<1>1. thread[t] \in ThreadRecord /\ m_state \in States /\ play_times \in Nat
  BY DEF RegInv, RegTypes
<1>2. ASSUME SnapshotGroups(t) PROVE RegInv'
  <2> DEFINE todo == {g \in Groups : ready_to_play(g)}
             time == play_times'
             one == 1
             here == [thread[t] EXCEPT !.pc = "send", !.todo = todo, !.group = None,
                                       !.idx = one, !.time = time]
  <2>1. time \in Nat
    BY <1>1, <1>2 DEF SnapshotGroups
  <2>2. todo \in SUBSET Groups /\ one \in Nat \ {0} /\ "send" \in Places
    BY DEF Places
  <2>3. Continues(t, here)
    BY <1>2 DEF SnapshotGroups
  <2>4. thread[t].pc = "groups" /\ m_state' = m_state
        /\ UNCHANGED <<connected, connected_devices>>
    BY <1>2 DEF SnapshotGroups, At, server, registry
  <2> HIDE DEF todo, time, one
  <2>5. here \in ThreadRecord /\ here.pc = "send"
    BY <1>1, <2>1, <2>2 DEF ThreadRecord
  <2> HIDE DEF here
  <2>6. Aside(t)
    BY <2>3, <2>4, <2>5, ContinuesAside DEF Slots
  <2> QED BY <1>1, <2>1, <2>4, <2>6, AsideStep DEF time
<1>3. ASSUME Deliver(t) PROVE RegInv'
  <2> DEFINE here == [thread[t] EXCEPT !.idx = @ + 1]
  <2>1. here \in ThreadRecord /\ here.pc = thread[t].pc
    BY <1>1, NextDevice
  <2>2. Continues(t, here) /\ thread[t].pc = "send" /\ UNCHANGED <<m_state, play_times>>
        /\ UNCHANGED <<connected, connected_devices>>
    BY <1>3 DEF Deliver, At, server, registry, history
  <2> HIDE DEF here
  <2>3. Aside(t)
    BY <2>1, <2>2, ContinuesAside DEF Slots
  <2> QED BY <1>1, <2>2, <2>3, AsideStep
<1>4. ASSUME NextGroup(t) PROVE RegInv'
  <2>1. PICK g \in thread[t].todo :
          Continues(t, [thread[t] EXCEPT !.group = g, !.idx = 1, !.todo = @ \ {g}])
    BY <1>4 DEF NextGroup
  <2> DEFINE here == [thread[t] EXCEPT !.group = g, !.idx = 1, !.todo = @ \ {g}]
  <2>2. g \in Groups /\ 1 \in Nat \ {0}
    BY <1>1 DEF ThreadRecord
  <2>3. here \in ThreadRecord /\ here.pc = thread[t].pc
    BY <1>1, <2>2, NewGroup
  <2>4. Continues(t, here) /\ thread[t].pc = "send" /\ UNCHANGED <<m_state, play_times>>
        /\ UNCHANGED <<connected, connected_devices>>
    BY <1>4, <2>1 DEF NextGroup, At, server, registry, history
  <2> HIDE DEF here
  <2>5. Aside(t)
    BY <2>3, <2>4, ContinuesAside DEF Slots
  <2> QED BY <1>1, <2>4, <2>5, AsideStep
<1>5. ASSUME Sent(t) PROVE RegInv'
  <2>1. Continue(t) /\ thread[t].pc = "send" /\ UNCHANGED <<m_state, play_times>>
        /\ UNCHANGED <<connected, connected_devices>>
    BY <1>5 DEF Sent, At, registry, history
  <2>2. Aside(t)
    BY <2>1, GoesAside DEF Slots
  <2> QED BY <1>1, <2>1, <2>2, AsideStep
<1> QED BY <1>2, <1>3, <1>4, <1>5 DEF Send

\* A thread in state_changed keeps the invariant.
LEMMA StateChangedStep ==
  ASSUME RegInv, NEW t \in Threads, StateChanged(t)
  PROVE  RegInv'
<1>1. thread[t] \in ThreadRecord /\ m_state \in States /\ play_times \in Nat
  BY DEF RegInv, RegTypes
<1>2. ASSUME Change(t) PROVE RegInv'
  <2>1. (Goto(t, "set") \/ Continue(t)) /\ thread[t].pc = "change"
        /\ UNCHANGED <<m_state, play_times>> /\ UNCHANGED <<connected, connected_devices>>
    BY <1>2 DEF Change, ChangeIf, At, registry, history
  <2>2. "set" \in Places \ Slots /\ "change" \notin Slots
    BY DEF Places, Slots
  <2>3. Aside(t)
    BY <2>1, <2>2, GoesAside
  <2> QED BY <1>1, <2>1, <2>3, AsideStep
<1>3. ASSUME SetState(t) PROVE RegInv'
  <2> DEFINE q == PacketOf(thread[t].new)
             here == [thread[t] EXCEPT !.pc = "groups", !.packet = q]
  <2>1. thread[t].new \in States
    BY <1>1 DEF ThreadRecord
  <2>2. q \in Packets /\ "groups" \in Places \ Slots
    BY <2>1 DEF PacketOf, States, Packets, Places, Slots
  <2>3. Continues(t, here) /\ thread[t].pc = "set" /\ m_state' = thread[t].new
        /\ play_times' = play_times /\ UNCHANGED <<connected, connected_devices>>
    BY <1>3 DEF SetState, At, registry, history
  <2> HIDE DEF q
  <2>4. here \in ThreadRecord /\ here.pc = "groups"
    BY <1>1, <2>2, NewPacket
  <2> HIDE DEF here
  <2>5. Aside(t)
    BY <2>2, <2>3, <2>4, ContinuesAside DEF Slots
  <2> QED BY <1>1, <2>1, <2>3, <2>5, AsideStep
<1> QED BY <1>2, <1>3 DEF StateChanged

\* The server's thread keeps the invariant.
LEMMA ServerStep ==
  ASSUME RegInv, ServerRun \/ AudioSteps
  PROVE  RegInv'
<1> DEFINE here == thread["server"]
<1>1. /\ here \in ThreadRecord /\ m_state \in States /\ play_times \in Nat
      /\ "server" \in Threads
  BY DEF RegInv, RegTypes, Threads
<1>2. /\ here.pc \notin Slots /\ m_state' \in States /\ play_times' \in Nat
      /\ UNCHANGED <<connected, connected_devices>>
  BY <1>1 DEF ServerRun, AudioSteps, SetCodec, SetSamplerate, SetStop, NewAudio,
     AudioStarts, AudioChanges, At, Slots, server, registry, history
<1>3. \A p \in Packets : Polled(ToAll(p)) => Aside("server")
  BY <1>1, <1>2, GoesAside DEF Polled
<1>4. ASSUME NEW p \in Places \ Slots, NEW n \in States, NEW r \in ThreadRecord,
             Polled([r EXCEPT !.pc = p, !.new = n])
      PROVE  Aside("server")
  <2> DEFINE next == [r EXCEPT !.pc = p, !.new = n]
  <2>1. next \in ThreadRecord /\ next.pc = p
    BY NewState
  <2>2. Continues("server", next)
    BY <1>4 DEF Polled
  <2> HIDE DEF next
  <2> QED BY <1>1, <1>2, <2>1, <2>2, ContinuesAside
<1>5. ASSUME AudioChanges PROVE Aside("server")
  <2> DEFINE next == [here EXCEPT !.pc = "change", !.next = "audio"]
  <2>1. next \in ThreadRecord /\ next.pc = "change" /\ "change" \notin Slots
    BY <1>1, AudioNext DEF Places, Slots
  <2>2. Continues("server", next) => Aside("server")
    <3> HIDE DEF next
    <3> QED BY <1>1, <1>2, <2>1, ContinuesAside
  <2>3. Continues("server", next) \/ Polled(ToAll("audio"))
    BY <1>5 DEF AudioChanges, Polled
  <2> QED BY <1>3, <2>2, <2>3 DEF Packets
<1>6. ASSUME AudioStarts PROVE Aside("server")
  <2> DEFINE n == IF m_state = "stopped" THEN "buffering" ELSE here.new
  <2>1. n \in States /\ "differs?" \in Places \ Slots
    BY <1>1 DEF ThreadRecord, States, Places, Slots
  <2>2. Polled([here EXCEPT !.pc = "differs?", !.new = n])
    BY <1>6 DEF AudioStarts
  <2> HIDE DEF n, here
  <2> QED BY <1>1, <1>4, <2>1, <2>2
<1>7. Idle \in ThreadRecord /\ "change" \in Places \ Slots /\ "stopped" \in States
      /\ "stopped?" \in Places \ Slots
  BY FreshRecords DEF Places, Slots, States
<1>8. ASSUME SetStop PROVE Aside("server")
  BY <1>4, <1>7, <1>8 DEF SetStop
<1>9. ASSUME NewAudio PROVE Aside("server")
  BY <1>1, <1>4, <1>7, <1>9 DEF NewAudio
<1>10. ASSUME SetCodec \/ SetSamplerate PROVE Aside("server")
  BY <1>3, <1>10 DEF SetCodec, SetSamplerate, Packets
<1>11. Aside("server")
  BY <1>5, <1>6, <1>8, <1>9, <1>10 DEF ServerRun, AudioSteps
<1> QED BY <1>1, <1>2, <1>11, AsideStep

\* The websocket's thread keeps the invariant.
LEMMA WebStep ==
  ASSUME RegInv, NEW g \in Groups, SetParam(g)
  PROVE  RegInv'
<1> DEFINE off == [ToGroup(g, "stopping") EXCEPT !.next = "disable"]
<1>1. "stopping" \in Packets /\ "enable" \in Packets /\ "web" \in Threads
  BY DEF Packets, Threads
<1>2. /\ ToGroup(g, "enable") \in ThreadRecord /\ ToGroup(g, "enable").pc \notin Slots
      /\ off \in ThreadRecord /\ off.pc \notin Slots
  BY <1>1, FreshRecords DEF Slots
<1>3. Continues("web", ToGroup(g, "enable")) \/ Continues("web", off)
  BY DEF SetParam, SetParamSending
<1>4. /\ thread["web"].pc \notin Slots /\ UNCHANGED <<connected, connected_devices>>
      /\ UNCHANGED <<m_state, play_times>>
  BY DEF SetParam, SetParamSending, At, Slots
<1> HIDE DEF off
<1>5. Aside("web")
  BY <1>1, <1>2, <1>3, <1>4, ContinuesAside
<1> QED BY <1>1, <1>4, <1>5, AsideStep DEF RegInv, RegTypes

\* The thread of a device keeps the invariant outside the two slots.
LEMMA MessageStep ==
  ASSUME RegInv, NEW d \in Devices,
         \/ GroupConnected(d) \/ Receive(d) \/ TakeLock(d)
         \/ GroupStatus(d) \/ GroupDisconnected(d)
  PROVE  RegInv'
<1>1. d \in Threads /\ thread[d] \in ThreadRecord
      /\ m_state \in States /\ play_times \in Nat
  BY DEF RegInv, RegTypes, Threads
<1>2. /\ thread[d].pc \notin Slots /\ UNCHANGED <<connected, connected_devices>>
      /\ UNCHANGED <<m_state, play_times>>
  BY DEF GroupConnected, Receive, ReceiveAs, TakeLock, TakeLockAs, GroupStatus,
     GroupDisconnected, At, Slots, registry, history
<1>3. "idle" \in Places \ Slots /\ "lock" \in Places \ Slots
      /\ "status" \in Places \ Slots
  BY DEF Places, Slots
<1>4. ASSUME GroupConnected(d) \/ Receive(d) \/ TakeLock(d) \/ GroupDisconnected(d)
      PROVE  Aside(d)
  <2>1. Goto(d, "idle") \/ Goto(d, "lock") \/ Goto(d, "status")
    BY <1>4 DEF GroupConnected, Receive, ReceiveAs, TakeLock, TakeLockAs,
       GroupDisconnected
  <2> QED BY <1>1, <1>2, <1>3, <2>1, GoesAside
<1>5. ASSUME GroupStatus(d) PROVE Aside(d)
  <2> DEFINE here == [thread[d] EXCEPT !.pc = "change", !.new = "playing"]
  <2>1. here \in ThreadRecord /\ here.pc = "change" /\ "change" \notin Slots
    BY <1>1, NewState DEF Places, Slots, States
  <2>2. Continues(d, here) \/ Return(d)
    BY <1>5 DEF GroupStatus
  <2> HIDE DEF here
  <2>3. CASE Continues(d, here)
    BY <1>1, <1>2, <2>1, <2>3, ContinuesAside
  <2>4. CASE Return(d)
    BY <1>1, <1>2, <2>4, GoesAside
  <2> QED BY <2>2, <2>3, <2>4
<1>6. Aside(d)
  BY <1>4, <1>5
<1> QED BY <1>1, <1>2, <1>6, AsideStep

-----------------------------------------------------------------------------
\* A thread that goes to another place leaves the other threads where they are.
LEMMA GotoPlace ==
  ASSUME RegInv, NEW d \in Devices, NEW p \in Places, Goto(d, p)
  PROVE  /\ thread' \in [Threads -> ThreadRecord] /\ thread'[d].pc = p
         /\ \A e \in Devices \ {d} : thread'[e] = thread[e]
<1> DEFINE here == [thread[d] EXCEPT !.pc = p]
<1>1. d \in Threads /\ thread \in [Threads -> ThreadRecord] /\ Devices \subseteq Threads
  BY DEF RegInv, RegTypes, Threads
<1>2. here \in ThreadRecord /\ here.pc = p
  BY <1>1, NewPlace
<1>3. thread' = [thread EXCEPT ![d] = here]
  BY DEF Goto, Continues
<1> HIDE DEF here
<1> QED BY <1>1, <1>2, <1>3

\* A step of a device's thread that changes at most its own connection and its
\* own membership keeps the invariant, when it is Served after it.
LEMMA OwnStep ==
  ASSUME RegInv, NEW d \in Devices, NEW p \in Places, Goto(d, p),
         connected' \in [Devices -> BOOLEAN],
         \A e \in Devices \ {d} : connected'[e] = connected[e],
         connected_devices' \in [Groups -> Seq(Devices)],
         \A g \in Groups : Distinct(connected_devices'[g]),
         \A e \in Devices \ {d} : DeviceIn(e, GroupOf[e])' <=> DeviceIn(e, GroupOf[e]),
         UNCHANGED <<m_state, play_times>>, Served(d)'
  PROVE  RegInv'
<1>1. RegTypes'
  BY GotoPlace DEF RegInv, RegTypes
<1>2. ASSUME NEW e \in Devices \ {d} PROVE Served(e)'
  <2>1. Served(e) /\ thread'[e] = thread[e]
    BY GotoPlace DEF RegInv
  <2> QED BY <2>1 DEF Served, At
<1> QED BY <1>1, <1>2 DEF RegInv

\* A client that is accepted is about to be registered.
LEMMA AcceptStep ==
  ASSUME RegInv, NEW d \in Devices, Accept(d)
  PROVE  RegInv'
<1>1. Goto(d, "register") /\ "register" \in Places /\ UNCHANGED <<m_state, play_times>>
      /\ connected_devices' = connected_devices
      /\ connected' = [connected EXCEPT ![d] = TRUE]
  BY DEF Accept, Places, history
<1>2. /\ connected' \in [Devices -> BOOLEAN] /\ connected'[d]
      /\ \A e \in Devices \ {d} : connected'[e] = connected[e]
  BY <1>1 DEF RegInv, RegTypes
<1>3. \A e \in Devices : DeviceIn(e, GroupOf[e])' <=> DeviceIn(e, GroupOf[e])
  BY <1>1 DEF DeviceIn
<1>4. Served(d)'
  BY <1>1, <1>2, GotoPlace DEF Served, At
<1>5. /\ connected_devices' \in [Groups -> Seq(Devices)]
      /\ \A g \in Groups : Distinct(connected_devices'[g])
  BY <1>1 DEF RegInv, RegTypes
<1> QED BY <1>1, <1>2, <1>3, <1>4, <1>5, OwnStep

\* A client that is gone is about to be removed.
LEMMA ClosedStep ==
  ASSUME RegInv, NEW d \in Devices, Closed(d)
  PROVE  RegInv'
<1>1. Goto(d, "remove") /\ "remove" \in Places /\ UNCHANGED <<m_state, play_times>>
      /\ connected_devices' = connected_devices
      /\ connected' = [connected EXCEPT ![d] = FALSE]
  BY DEF Closed, ClosedThen, Places, history
<1>2. /\ connected' \in [Devices -> BOOLEAN] /\ ~connected'[d]
      /\ \A e \in Devices \ {d} : connected'[e] = connected[e]
  BY <1>1 DEF RegInv, RegTypes
<1>3. \A e \in Devices : DeviceIn(e, GroupOf[e])' <=> DeviceIn(e, GroupOf[e])
  BY <1>1 DEF DeviceIn
<1>4. Served(d)'
  BY <1>1, <1>2, GotoPlace DEF Served, At
<1>5. /\ connected_devices' \in [Groups -> Seq(Devices)]
      /\ \A g \in Groups : Distinct(connected_devices'[g])
  BY <1>1 DEF RegInv, RegTypes
<1> QED BY <1>1, <1>2, <1>3, <1>4, <1>5, OwnStep

\* What becomes of the lists when that of one group is replaced.
LEMMA NewList ==
  ASSUME RegInv, NEW d \in Devices, NEW list \in Seq(Devices), Distinct(list),
         \A e \in Devices \ {d} :
           e \in Range(list) <=> e \in Range(connected_devices[GroupOf[d]]),
         connected_devices' = [connected_devices EXCEPT ![GroupOf[d]] = list]
  PROVE  /\ connected_devices' \in [Groups -> Seq(Devices)]
         /\ \A g \in Groups : Distinct(connected_devices'[g])
         /\ \A e \in Devices \ {d} : DeviceIn(e, GroupOf[e])' <=> DeviceIn(e, GroupOf[e])
         /\ DeviceIn(d, GroupOf[d])' <=> d \in Range(list)
<1>1. GroupOf[d] \in Groups /\ connected_devices \in [Groups -> Seq(Devices)]
      /\ \A e \in Devices : GroupOf[e] \in Groups
  BY DEF RegInv, RegTypes
<1>2. /\ connected_devices'[GroupOf[d]] = list
      /\ \A g \in Groups \ {GroupOf[d]} : connected_devices'[g] = connected_devices[g]
  BY <1>1
<1>3. \A g \in Groups : Distinct(connected_devices'[g])
  BY <1>2 DEF RegInv
<1>4. connected_devices' \in [Groups -> Seq(Devices)]
  BY <1>1
<1>5. \A e \in Devices \ {d} : DeviceIn(e, GroupOf[e])' <=> DeviceIn(e, GroupOf[e])
  BY <1>1, <1>2 DEF DeviceIn
<1> QED BY <1>1, <1>2, <1>3, <1>4, <1>5 DEF DeviceIn

\* slot_device_connected: the device is in the list when it is done.
LEMMA RegisterStep ==
  ASSUME RegInv, NEW d \in Devices, Register(d)
  PROVE  RegInv'
<1> DEFINE here == connected_devices[GroupOf[d]]
           list == Append(here, d)
<1>1. /\ UNCHANGED <<m_state, play_times, connected>> /\ connected[d]
      /\ "idle" \in Places /\ "online?" \in Places
      /\ connected \in [Devices -> BOOLEAN]
      /\ connected_devices \in [Groups -> Seq(Devices)]
      /\ \A g \in Groups : Distinct(connected_devices[g])
      /\ GroupOf[d] \in Groups
  BY DEF Register, Places, history, RegInv, RegTypes, Served, At
<1>2. CASE DeviceIn(d, GroupOf[d])
  <2>1. Goto(d, "idle") /\ connected_devices' = connected_devices
    BY <1>2 DEF Register
  <2>2. \A e \in Devices : DeviceIn(e, GroupOf[e])' <=> DeviceIn(e, GroupOf[e])
    BY <2>1 DEF DeviceIn
  <2>3. Served(d)'
    BY <1>1, <1>2, <2>1, <2>2, GotoPlace DEF Served, At
  <2> QED BY <1>1, <2>1, <2>2, <2>3, OwnStep
<1>3. CASE ~DeviceIn(d, GroupOf[d])
  <2>1. Goto(d, "online?")
        /\ connected_devices' = [connected_devices EXCEPT ![GroupOf[d]] = list]
    BY <1>3 DEF Register
  <2>2. list \in Seq(Devices) /\ Distinct(list) /\ Range(list) = Range(here) \cup {d}
    BY <1>1, <1>3, AppendDevice DEF DeviceIn
  <2> HIDE DEF list
  <2>3. /\ connected_devices' \in [Groups -> Seq(Devices)]
        /\ \A g \in Groups : Distinct(connected_devices'[g])
        /\ \A e \in Devices \ {d} : DeviceIn(e, GroupOf[e])' <=> DeviceIn(e, GroupOf[e])
        /\ DeviceIn(d, GroupOf[d])'
    BY <2>1, <2>2, NewList
  <2>4. Served(d)'
    BY <1>1, <2>1, <2>3, GotoPlace DEF Served, At
  <2> QED BY <1>1, <2>1, <2>3, <2>4, OwnStep
<1> QED BY <1>2, <1>3

\* slot_device_disconnected: the device is not in the list when it is done.
LEMMA RemoveStep ==
  ASSUME RegInv, NEW d \in Devices, Remove(d)
  PROVE  RegInv'
<1> DEFINE here == connected_devices[GroupOf[d]]
           list == Without(here, d)
<1>1. /\ UNCHANGED <<m_state, play_times, connected>> /\ ~connected[d]
      /\ "idle" \in Places /\ "offline?" \in Places
      /\ connected \in [Devices -> BOOLEAN]
      /\ connected_devices \in [Groups -> Seq(Devices)]
      /\ \A g \in Groups : Distinct(connected_devices[g])
      /\ GroupOf[d] \in Groups
  BY DEF Remove, Places, history, RegInv, RegTypes, Served, At
<1>2. CASE ~DeviceIn(d, GroupOf[d])
  <2>1. Goto(d, "idle") /\ connected_devices' = connected_devices
    BY <1>2 DEF Remove
  <2>2. \A e \in Devices : DeviceIn(e, GroupOf[e])' <=> DeviceIn(e, GroupOf[e])
    BY <2>1 DEF DeviceIn
  <2>3. Served(d)'
    BY <1>1, <1>2, <2>1, <2>2, GotoPlace DEF Served, At
  <2> QED BY <1>1, <2>1, <2>2, <2>3, OwnStep
<1>3. CASE DeviceIn(d, GroupOf[d])
  <2>1. Goto(d, "offline?")
        /\ connected_devices' = [connected_devices EXCEPT ![GroupOf[d]] = list]
    BY <1>3 DEF Remove
  <2>2. list \in Seq(Devices) /\ Distinct(list) /\ Range(list) = Range(here) \ {d}
    BY <1>1, <1>3, RemoveDevice DEF DeviceIn
  <2> HIDE DEF list
  <2>3. /\ connected_devices' \in [Groups -> Seq(Devices)]
        /\ \A g \in Groups : Distinct(connected_devices'[g])
        /\ \A e \in Devices \ {d} : DeviceIn(e, GroupOf[e])' <=> DeviceIn(e, GroupOf[e])
        /\ ~DeviceIn(d, GroupOf[d])'
    BY <2>1, <2>2, NewList
  <2>4. Served(d)'
    BY <1>1, <2>1, <2>3, GotoPlace DEF Served, At
  <2> QED BY <1>1, <2>1, <2>3, <2>4, OwnStep
<1> QED BY <1>2, <1>3

-----------------------------------------------------------------------------
\* The invariant holds initially: nobody is registered or connected.
LEMMA RegInit == Init => RegInv
<1> SUFFICES ASSUME Init PROVE RegInv
  OBVIOUS
<1>1. RegTypes
  BY FreshRecords DEF Init, RegTypes, States
<1>2. ASSUME NEW d \in Devices PROVE Served(d)
  BY DEF Init, Served, At, Idle, Threads, DeviceIn, Range
<1>3. ASSUME NEW g \in Groups PROVE Distinct(connected_devices[g])
  BY DEF Init, Distinct
<1> QED BY <1>1, <1>2, <1>3 DEF RegInv

\* Every step keeps it.
LEMMA RegNext == RegInv /\ [Next]_vars => RegInv'
<1> SUFFICES ASSUME RegInv, [Next]_vars PROVE RegInv'
  OBVIOUS
<1>1. ASSUME UNCHANGED <<thread, connected, connected_devices, m_state, play_times>>
      PROVE  RegInv'
  BY <1>1 DEF RegInv, RegTypes, Served, DeviceIn, At
<1>2. CASE ServerRun \/ AudioSteps
  BY <1>2, ServerStep
<1>3. ASSUME NEW g \in Groups, SetParam(g) PROVE RegInv'
  BY <1>3, WebStep
<1>4. ASSUME NEW t \in Threads, Handler(t) PROVE RegInv'
  BY <1>4, SendStep, StateChangedStep DEF Handler
<1>5. ASSUME NEW d \in Devices, Accept(d) \/ DeviceHandles(d) PROVE RegInv'
  BY <1>5, AcceptStep, RegisterStep, ClosedStep, RemoveStep, MessageStep
     DEF DeviceHandles
<1>6. ASSUME NEW d \in Devices, Drop(d) PROVE RegInv'
  BY <1>1, <1>6 DEF Drop, server, registry
<1>7. CASE UNCHANGED vars
  BY <1>1, <1>7 DEF vars, server, registry, history
<1> QED BY <1>2, <1>3, <1>4, <1>5, <1>6, <1>7 DEF Next

\* RegInv is an invariant of the playing core.
THEOREM RegInvariance == Spec => []RegInv
BY RegInit, RegNext, PTL DEF Spec

\* The group of a device lists it, once, exactly while its thread serves a
\* client, whatever the threads of other devices and the user do meanwhile.
THEOREM DevicesRegistered == Spec => []Registered
<1>1. RegInv => Registered
  BY DEF RegInv, Registered, Served, At, Distinct
<1> QED BY <1>1, RegInvariance, PTL

USE GroupOfAssumption, NoneAssumption, ThreadAssumption, FullAssumption, NoneNumberAssumption

-----------------------------------------------------------------------------
(* What each step of a thread does to its local variables                  *)

Only(t) == \A u \in Threads \ {t} : thread'[u] = thread[u]

\* A thread that goes on with other local variables is the only one that moves.
LEMMA Moves ==
  ASSUME RegTypes, NEW t \in Threads, NEW here, Continues(t, here)
  PROVE  Only(t) /\ thread'[t] = here
BY DEF RegTypes, Continues, Only

\* A thread that goes to another place keeps its local variables.
LEMMA GoesTo ==
  ASSUME RegTypes, NEW t \in Threads, NEW p \in Places, Goto(t, p)
  PROVE  LET r == thread[t]  s == thread'[t]
         IN  /\ Only(t) /\ s.pc = p /\ s.new = r.new /\ s.packet = r.packet /\ s.todo = r.todo
             /\ s.group = r.group /\ s.idx = r.idx /\ s.time = r.time /\ s.next = r.next
<1> DEFINE here == [thread[t] EXCEPT !.pc = p]
<1>1. thread[t] \in ThreadRecord
  BY DEF RegTypes
<1>2. /\ here.pc = p /\ here.new = thread[t].new /\ here.packet = thread[t].packet
      /\ here.todo = thread[t].todo /\ here.group = thread[t].group
      /\ here.idx = thread[t].idx /\ here.time = thread[t].time /\ here.next = thread[t].next
  BY <1>1 DEF ThreadRecord
<1>3. Continues(t, here)
  BY DEF Goto
<1> HIDE DEF here
<1> QED BY <1>2, <1>3, Moves

\* The snapshot of the groups that are ready, with the play time.
LEMMA SnapshotStep ==
  ASSUME RegTypes, NEW t \in Threads, SnapshotGroups(t)
  PROVE  LET r == thread[t]  s == thread'[t]
             ready == {g \in Groups : ready_to_play(g)}
         IN  /\ Only(t) /\ r.pc = "groups" /\ s.pc = "send"
             /\ s.new = r.new /\ s.packet = r.packet /\ s.next = r.next
             /\ s.todo = ready /\ s.group = None /\ s.idx = 1 /\ s.time = play_times'
             /\ play_times' = IF r.packet = "playing" /\ ready # {} THEN play_times + 1
                                                                   ELSE play_times
<1> DEFINE ready == {g \in Groups : ready_to_play(g)}
           time == play_times'
           here == [thread[t] EXCEPT !.pc = "send", !.todo = ready, !.group = None,
                                     !.idx = 1, !.time = time]
<1>1. thread[t] \in ThreadRecord
  BY DEF RegTypes
<1>2. Continues(t, here) /\ thread[t].pc = "groups"
  BY DEF SnapshotGroups, At
<1>3. play_times' = IF thread[t].packet = "playing" /\ ready # {} THEN play_times + 1
                                                                ELSE play_times
  BY DEF SnapshotGroups
<1> HIDE DEF ready, time
<1>4. /\ here.pc = "send" /\ here.new = thread[t].new /\ here.packet = thread[t].packet
      /\ here.todo = ready /\ here.group = None
      /\ here.idx = 1 /\ here.time = time /\ here.next = thread[t].next
  BY <1>1 DEF ThreadRecord
<1> HIDE DEF here
<1>5. Only(t) /\ thread'[t] = here
  BY <1>2, Moves
<1> QED BY <1>2, <1>3, <1>4, <1>5 DEF ready, time

\* One device has been sent the packet.
LEMMA DeliverStep ==
  ASSUME RegTypes, NEW t \in Threads, Deliver(t)
  PROVE  LET r == thread[t]  s == thread'[t]
         IN  /\ Only(t) /\ r.pc = "send" /\ InGroup(t) /\ s.pc = r.pc /\ s.new = r.new
             /\ s.packet = r.packet /\ s.todo = r.todo /\ s.group = r.group
             /\ s.idx = r.idx + 1 /\ s.time = r.time /\ s.next = r.next
<1> DEFINE here == [thread[t] EXCEPT !.idx = @ + 1]
<1>1. thread[t] \in ThreadRecord
  BY DEF RegTypes
<1>2. /\ here.pc = thread[t].pc /\ here.new = thread[t].new /\ here.packet = thread[t].packet
      /\ here.todo = thread[t].todo /\ here.group = thread[t].group
      /\ here.idx = thread[t].idx + 1 /\ here.time = thread[t].time
      /\ here.next = thread[t].next
  BY <1>1 DEF ThreadRecord
<1>3. Continues(t, here) /\ thread[t].pc = "send" /\ InGroup(t)
  BY DEF Deliver, At
<1> HIDE DEF here
<1> QED BY <1>2, <1>3, Moves

\* The loop goes on with another of the groups picked.
LEMMA NextGroupStep ==
  ASSUME RegTypes, NEW t \in Threads, NextGroup(t)
  PROVE  LET r == thread[t]  s == thread'[t]
         IN  /\ Only(t) /\ r.pc = "send" /\ ~InGroup(t) /\ s.pc = r.pc /\ s.new = r.new
             /\ s.packet = r.packet /\ s.group \in r.todo /\ s.todo = r.todo \ {s.group}
             /\ s.idx = 1 /\ s.time = r.time /\ s.next = r.next
<1>1. thread[t] \in ThreadRecord
  BY DEF RegTypes
<1>2. PICK g \in thread[t].todo :
        Continues(t, [thread[t] EXCEPT !.group = g, !.idx = 1, !.todo = @ \ {g}])
  BY DEF NextGroup
<1> DEFINE here == [thread[t] EXCEPT !.group = g, !.idx = 1, !.todo = @ \ {g}]
<1>3. /\ here.pc = thread[t].pc /\ here.new = thread[t].new /\ here.packet = thread[t].packet
      /\ here.todo = thread[t].todo \ {g} /\ here.group = g
      /\ here.idx = 1 /\ here.time = thread[t].time /\ here.next = thread[t].next
  BY <1>1 DEF ThreadRecord
<1>4. Continues(t, here) /\ thread[t].pc = "send" /\ ~InGroup(t)
  BY <1>2 DEF NextGroup, At
<1> HIDE DEF here
<1> QED BY <1>2, <1>3, <1>4, Moves

\* What follows the last device: nothing, the audio, or the parameter.
LEMMA ContinueStep ==
  ASSUME RegTypes, NEW t \in Threads, Continue(t)
  PROVE  LET r == thread[t]  s == thread'[t]
         IN  /\ Only(t)
             /\ \/ /\ r.next = "nothing" /\ s = Idle
                   /\ group_lock' = [g \in Groups |-> IF group_lock[g] = t THEN None
                                                                       ELSE group_lock[g]]
                \/ /\ r.next = "audio" /\ s = ToAll("audio") /\ group_lock' = group_lock
                \/ /\ r.next = "disable" /\ group_lock' = group_lock
                   /\ s.pc = r.pc /\ s.new = r.new /\ s.packet = "disable" /\ s.todo = r.todo
                   /\ s.group = r.group /\ s.idx = 1 /\ s.time = r.time /\ s.next = "nothing"
<1>1. thread[t] \in ThreadRecord
  BY DEF RegTypes
<1> DEFINE here == [thread[t] EXCEPT !.packet = "disable", !.idx = 1, !.next = "nothing"]
<1>2. /\ here.pc = thread[t].pc /\ here.new = thread[t].new /\ here.packet = "disable"
      /\ here.todo = thread[t].todo /\ here.group = thread[t].group
      /\ here.idx = 1 /\ here.time = thread[t].time /\ here.next = "nothing"
  BY <1>1 DEF ThreadRecord
<1>3. CASE thread[t].next = "nothing" /\ Return(t)
  BY <1>3, Moves DEF Return
<1>4. CASE thread[t].next = "audio" /\ Continues(t, ToAll("audio")) /\ UNCHANGED group_lock
  BY <1>4, Moves
<1>5. CASE thread[t].next = "disable" /\ Continues(t, here) /\ UNCHANGED group_lock
  <2> HIDE DEF here
  <2> QED BY <1>2, <1>5, Moves
<1> QED BY <1>3, <1>4, <1>5 DEF Continue

\* The state is set, and the packet that tells of it chosen.
LEMMA SetStateStep ==
  ASSUME RegTypes, NEW t \in Threads, SetState(t)
  PROVE  LET r == thread[t]  s == thread'[t]
         IN  /\ Only(t) /\ r.pc = "set" /\ m_state' = r.new /\ s.pc = "groups"
             /\ s.new = r.new /\ s.packet = PacketOf(r.new) /\ s.todo = r.todo
             /\ s.group = r.group /\ s.idx = r.idx /\ s.time = r.time /\ s.next = r.next
<1>1. thread[t] \in ThreadRecord
  BY DEF RegTypes
<1> DEFINE packet == PacketOf(thread[t].new)
           here == [thread[t] EXCEPT !.pc = "groups", !.packet = packet]
<1>2. Continues(t, here) /\ thread[t].pc = "set" /\ m_state' = thread[t].new
  BY DEF SetState, At
<1> HIDE DEF packet
<1>3. /\ here.pc = "groups" /\ here.new = thread[t].new /\ here.packet = packet
      /\ here.todo = thread[t].todo /\ here.group = thread[t].group
      /\ here.idx = thread[t].idx /\ here.time = thread[t].time /\ here.next = thread[t].next
  BY <1>1 DEF ThreadRecord
<1> HIDE DEF here
<1>4. Only(t) /\ thread'[t] = here
  BY <1>2, Moves
<1> QED BY <1>2, <1>3, <1>4 DEF packet

\* new_audio has seen whether nothing plays.
LEMMA AudioStartsStep ==
  ASSUME RegTypes, AudioStarts
  PROVE  LET r == thread["server"]  s == thread'["server"]
         IN  /\ Only("server") /\ r.pc = "stopped?" /\ s.pc = "differs?"
             /\ s.new = (IF m_state = "stopped" THEN "buffering" ELSE r.new)
             /\ s.next = r.next
<1>1. thread["server"] \in ThreadRecord /\ "server" \in Threads
  BY DEF RegTypes, Threads
<1> DEFINE new == IF m_state = "stopped" THEN "buffering" ELSE thread["server"].new
           here == [thread["server"] EXCEPT !.pc = "differs?", !.new = new]
<1>2. Continues("server", here) /\ thread["server"].pc = "stopped?"
  BY DEF AudioStarts, At, Polled
<1> HIDE DEF new
<1>3. here.pc = "differs?" /\ here.new = new /\ here.next = thread["server"].next
  BY <1>1 DEF ThreadRecord
<1> HIDE DEF here
<1>4. Only("server") /\ thread'["server"] = here
  BY <1>1, <1>2, Moves
<1> QED BY <1>2, <1>3, <1>4 DEF new

\* new_audio goes to state_changed, or to send the audio at once.
LEMMA AudioChangesStep ==
  ASSUME RegTypes, AudioChanges
  PROVE  LET r == thread["server"]  s == thread'["server"]
         IN  /\ Only("server") /\ r.pc = "differs?"
             /\ \/ /\ r.new # m_state /\ s.pc = "change" /\ s.new = r.new /\ s.next = "audio"
                \/ r.new = m_state /\ s = ToAll("audio")
<1>1. thread["server"] \in ThreadRecord /\ "server" \in Threads
  BY DEF RegTypes, Threads
<1> DEFINE here == [thread["server"] EXCEPT !.pc = "change", !.next = "audio"]
<1>2. here.pc = "change" /\ here.new = thread["server"].new /\ here.next = "audio"
  BY <1>1 DEF ThreadRecord
<1>3. thread["server"].pc = "differs?"
  BY DEF AudioChanges, At
<1>4. CASE thread["server"].new # m_state
  <2>1. Continues("server", here)
    BY <1>4 DEF AudioChanges, Polled
  <2> HIDE DEF here
  <2> QED BY <1>1, <1>2, <1>3, <1>4, <2>1, Moves
<1>5. CASE thread["server"].new = m_state
  <2>1. Continues("server", ToAll("audio"))
    BY <1>5 DEF AudioChanges, Polled
  <2> QED BY <1>1, <1>3, <1>5, <2>1, Moves
<1> QED BY <1>4, <1>5

\* slot_group_status starts to play when the server is buffering.
LEMMA GroupStatusStep ==
  ASSUME RegTypes, NEW d \in Devices, GroupStatus(d)
  PROVE  LET r == thread[d]  s == thread'[d]
         IN  /\ Only(d) /\ r.pc = "status"
             /\ \/ /\ m_state = "buffering" /\ s.pc = "change" /\ s.new = "playing"
                   /\ s.next = r.next /\ group_lock' = group_lock
                \/ /\ m_state # "buffering" /\ s = Idle
                   /\ group_lock' = [g \in Groups |-> IF group_lock[g] = d THEN None
                                                                       ELSE group_lock[g]]
<1>1. thread[d] \in ThreadRecord /\ d \in Threads
  BY DEF RegTypes, Threads
<1> DEFINE here == [thread[d] EXCEPT !.pc = "change", !.new = "playing"]
<1>2. here.pc = "change" /\ here.new = "playing" /\ here.next = thread[d].next
  BY <1>1 DEF ThreadRecord
<1>3. thread[d].pc = "status"
  BY DEF GroupStatus, At
<1>4. CASE m_state = "buffering"
  <2>1. Continues(d, here) /\ UNCHANGED group_lock
    BY <1>4 DEF GroupStatus
  <2> HIDE DEF here
  <2> QED BY <1>1, <1>2, <1>3, <1>4, <2>1, Moves
<1>5. CASE m_state # "buffering"
  BY <1>1, <1>3, <1>5, Moves DEF GroupStatus, Return
<1> QED BY <1>4, <1>5

-----------------------------------------------------------------------------
(* What a client makes of a packet                                         *)

ClientRecord ==
  [link : BOOLEAN, param : BOOLEAN \cup {None}, codec : Nat, decodes : Nat,
   pipe : 0..Full \cup {None}, time : Nat \cup {None}, amp : BOOLEAN]

\* A pipeline that is given audio is there, and holds at most Full packets.
LEMMA FeedFields ==
  ASSUME NEW c \in ClientRecord
  PROVE  LET k == Feed(c)
         IN  /\ k \in ClientRecord /\ k.link = c.link /\ k.param = c.param
             /\ k.codec = c.codec /\ k.amp = c.amp
             /\ k.pipe = (CASE c.pipe = None -> 1
                            [] c.pipe # None /\ c.pipe < Full -> c.pipe + 1
                            [] OTHER -> Full)
             /\ k.time = IF c.pipe = None THEN None ELSE c.time
<1> DEFINE fed == IF c.pipe = None THEN Constructed(c) ELSE c
           filled == Filled(fed)
           k == [fed EXCEPT !.pipe = filled]
<1>1. /\ fed \in ClientRecord /\ fed.link = c.link /\ fed.param = c.param
      /\ fed.codec = c.codec /\ fed.amp = c.amp
      /\ fed.pipe = IF c.pipe = None THEN 0 ELSE c.pipe
      /\ fed.time = IF c.pipe = None THEN None ELSE c.time
  <2> DEFINE s == Stopped(c)
             n == [s EXCEPT !.pipe = 0, !.decodes = c.codec]
  <2>1. /\ s \in ClientRecord /\ s.link = c.link /\ s.param = c.param /\ s.codec = c.codec
        /\ s.amp = c.amp /\ s.time = None
    BY DEF ClientRecord, Stopped
  <2>2. Constructed(c) = n /\ c.codec \in Nat /\ 0 \in 0..Full
    BY DEF Constructed, ClientRecord
  <2> HIDE DEF s
  <2>3. /\ n \in ClientRecord /\ n.link = s.link /\ n.param = s.param /\ n.codec = s.codec
        /\ n.amp = s.amp /\ n.time = s.time /\ n.pipe = 0
    BY <2>1, <2>2 DEF ClientRecord
  <2> QED BY <2>1, <2>2, <2>3
<1>2. fed.pipe \in 0..Full
  BY <1>1 DEF ClientRecord
<1> HIDE DEF fed
<1>3. filled = IF fed.pipe < Full THEN fed.pipe + 1 ELSE Full
  BY DEF Filled
<1>4. filled \in 0..Full
  BY <1>2, <1>3
<1> HIDE DEF filled
<1>5. /\ k \in ClientRecord /\ k.link = fed.link /\ k.param = fed.param
      /\ k.codec = fed.codec /\ k.amp = fed.amp /\ k.pipe = filled /\ k.time = fed.time
  BY <1>1, <1>4 DEF ClientRecord
<1>6. Feed(c) = k
  BY DEF Feed, fed, filled
<1> HIDE DEF k
<1>7. filled = (CASE c.pipe = None -> 1
                  [] c.pipe # None /\ c.pipe < Full -> c.pipe + 1
                  [] OTHER -> Full)
  BY <1>1, <1>2, <1>3
<1> QED BY <1>1, <1>5, <1>6, <1>7

\* What each packet changes of a client.
LEMMA ReactFields ==
  ASSUME NEW c \in ClientRecord, NEW p \in Packets, NEW codec \in Nat, NEW time \in Nat
  PROVE  LET k == React(c, p, codec, time)
         IN  /\ k \in ClientRecord /\ k.link = c.link
             /\ p \notin {"enable", "disable"} => k.param = c.param
             /\ p = "setcodec" => k.codec = codec
             /\ p # "setcodec" => k.codec = c.codec
             /\ p = "buffering" => k.amp
             /\ p = "stopping" => ~k.amp
             /\ p \notin {"buffering", "stopping"} => k.amp = c.amp
             /\ p = "setsamplerate" => k.pipe = 0 /\ k.time = None
             /\ p = "audio" => k.pipe = Feed(c).pipe
                               /\ k.time = IF c.pipe = None THEN None ELSE c.time
             /\ p \in {"stopping", "disable"} => k.pipe = None /\ k.time = None
             /\ p = "playing" => k.pipe = c.pipe
                                 /\ k.time = IF c.pipe = None THEN c.time ELSE time
             /\ p \in {"setcodec", "buffering", "enable"} => k.pipe = c.pipe /\ k.time = c.time
<1>1. CASE p = "setcodec"
  BY <1>1 DEF React, ClientRecord
<1>2. CASE p = "setsamplerate"
  <2> DEFINE s == Stopped(c)
  <2>1. /\ s \in ClientRecord /\ s.link = c.link /\ s.param = c.param /\ s.codec = c.codec
        /\ s.amp = c.amp /\ s.time = None
    BY DEF ClientRecord, Stopped
  <2>2. React(c, p, codec, time) = [s EXCEPT !.pipe = 0, !.decodes = c.codec]
    BY <1>2 DEF React, Constructed
  <2> HIDE DEF s
  <2>3. 0 \in 0..Full /\ c.codec \in Nat
    BY DEF ClientRecord
  <2> QED BY <1>2, <2>1, <2>2, <2>3 DEF ClientRecord
<1>3. CASE p = "audio"
  BY <1>3, FeedFields DEF React
<1>4. CASE p = "buffering"
  BY <1>4 DEF React, ClientRecord
<1>5. CASE p = "playing"
  BY <1>5 DEF React, ClientRecord
<1>6. CASE p = "stopping"
  <2> DEFINE s == Stopped(c)
  <2>1. /\ s \in ClientRecord /\ s.link = c.link /\ s.param = c.param /\ s.codec = c.codec
        /\ s.pipe = None /\ s.time = None
    BY DEF ClientRecord, Stopped
  <2>2. React(c, p, codec, time) = [s EXCEPT !.amp = FALSE]
    BY <1>6 DEF React
  <2> HIDE DEF s
  <2> QED BY <1>6, <2>1, <2>2 DEF ClientRecord
<1>7. CASE p = "disable"
  <2> DEFINE s == Stopped(c)
  <2>1. /\ s \in ClientRecord /\ s.link = c.link /\ s.amp = c.amp /\ s.codec = c.codec
        /\ s.pipe = None /\ s.time = None
    BY DEF ClientRecord, Stopped
  <2>2. React(c, p, codec, time) = [s EXCEPT !.param = FALSE]
    BY <1>7 DEF React
  <2> HIDE DEF s
  <2> QED BY <1>7, <2>1, <2>2 DEF ClientRecord
<1>8. CASE p = "enable"
  BY <1>8 DEF React, ClientRecord
<1> QED BY <1>1, <1>2, <1>3, <1>4, <1>5, <1>6, <1>7, <1>8 DEF Packets

\* The parameter a client is sent is the one it has.
LEMMA ReactParam ==
  ASSUME NEW c \in ClientRecord, NEW codec \in Nat, NEW time \in Nat, NEW on \in BOOLEAN
  PROVE  /\ on => React(c, "enable", codec, time).param = on
         /\ ~on => React(c, "disable", codec, time).param = on
<1> DEFINE s == Stopped(c)
<1>1. s \in ClientRecord
  BY DEF ClientRecord, Stopped
<1>2. ASSUME on PROVE React(c, "enable", codec, time).param = on
  BY <1>2 DEF React, ClientRecord
<1>3. ASSUME ~on PROVE React(c, "disable", codec, time).param = on
  <2>1. React(c, "disable", codec, time) = [s EXCEPT !.param = FALSE]
    BY DEF React
  <2> HIDE DEF s
  <2> QED BY <1>1, <1>3, <2>1 DEF ClientRecord
<1> QED BY <1>2, <1>3

-----------------------------------------------------------------------------
(* Delivery, and the types                                                 *)

\* The client of a device the loop has come to reacts to the packet, when its
\* connection is there; nothing else is sent or answered.
LEMMA Delivered ==
  ASSUME TypeOK, NEW t \in Threads, Deliver(t)
  PROVE  LET r == thread[t]
             d == connected_devices[r.group][r.idx]
             k == React(client[d], r.packet, session, r.time)
         IN  /\ r.group \in Groups /\ r.idx \in DOMAIN connected_devices[r.group]
             /\ d \in Devices /\ DeviceIn(d, r.group)
             /\ \A e \in Devices \ {d} : client'[e] = client[e] /\ up'[e] = up[e]
             /\ client[d].link =>
                  /\ client'[d] = k
                  /\ up'[d] = IF EmitsBuffered(client[d], r.packet)
                              THEN Append(up[d], "buffered") ELSE up[d]
             /\ ~client[d].link => client' = client /\ up' = up
             /\ k \in ClientRecord
             /\ client' \in [Devices -> ClientRecord]
             /\ up' \in [Devices -> Seq({"buffered", "closed"})]
<1> DEFINE r == thread[t]
           list == connected_devices[r.group]
           d == list[r.idx]
           c == client[d]
           k == React(c, r.packet, session, r.time)
<1>1. /\ r \in ThreadRecord /\ client \in [Devices -> ClientRecord] /\ session \in Nat
      /\ up \in [Devices -> Seq({"buffered", "closed"})]
      /\ connected_devices \in [Groups -> Seq(Devices)]
  BY DEF TypeOK, ClientRecord
<1>2. r.group # None /\ r.idx <= Len(list)
  BY DEF Deliver, InGroup
<1>3. r.group \in Groups /\ r.idx \in Nat \ {0} /\ r.packet \in Packets /\ r.time \in Nat
  BY <1>1, <1>2 DEF ThreadRecord
<1>4. list \in Seq(Devices)
  BY <1>1, <1>3
<1>5. r.idx \in 1..Len(list) /\ DOMAIN list = 1..Len(list)
  BY <1>2, <1>3, <1>4
<1>6. d \in Devices /\ DeviceIn(d, r.group)
  BY <1>4, <1>5 DEF DeviceIn, Range
<1>7. IF c.link
      THEN /\ client' = [client EXCEPT ![d] = k]
           /\ up' = IF EmitsBuffered(c, r.packet)
                    THEN [up EXCEPT ![d] = Append(@, "buffered")] ELSE up
      ELSE UNCHANGED <<client, up>>
  BY DEF Deliver
<1> HIDE DEF r, list, d
<1>8. k \in ClientRecord
  <2>1. c \in ClientRecord /\ session \in Nat
    BY <1>1, <1>6
  <2>2. \A q \in ClientRecord : React(q, r.packet, session, r.time) \in ClientRecord
    BY <1>3, <2>1, ReactFields
  <2> QED BY <2>1, <2>2
<1> HIDE DEF k
<1>9. Append(up[d], "buffered") \in Seq({"buffered", "closed"})
  BY <1>1, <1>6
<1>10. /\ \A e \in Devices \ {d} : client'[e] = client[e] /\ up'[e] = up[e]
       /\ client' \in [Devices -> ClientRecord]
       /\ up' \in [Devices -> Seq({"buffered", "closed"})]
  BY <1>1, <1>6, <1>7, <1>8, <1>9
<1>11. c.link => /\ client'[d] = k
                 /\ up'[d] = IF EmitsBuffered(c, r.packet)
                             THEN Append(up[d], "buffered") ELSE up[d]
  BY <1>1, <1>6, <1>7
<1>12. ~c.link => client' = client /\ up' = up
  BY <1>7
<1> QED BY <1>3, <1>5, <1>6, <1>8, <1>10, <1>11, <1>12 DEF r, list, d, c, k

\* The variables RegTypes does not speak of.
OtherTypes ==
  /\ connected_groups \in [Groups -> Nat] /\ play_enabled \in [Groups -> BOOLEAN]
  /\ group_lock \in [Groups -> Devices \cup {None}]
  /\ device_state \in [Devices -> {None, "buffered"}]
  /\ client \in [Devices -> ClientRecord]
  /\ up \in [Devices -> Seq({"buffered", "closed"})]
  /\ stream \in {"off", "codec", "on"}
  /\ session \in Nat /\ drops \in Nat /\ toggles \in Nat

\* The types the registration depends on, and the others.
LEMMA TypesSplit == TypeOK <=> RegTypes /\ OtherTypes
BY DEF TypeOK, RegTypes, OtherTypes, ClientRecord

\* The same of the next state.
LEMMA TypesPrimed == RegTypes' /\ OtherTypes' => TypeOK'
BY TypesSplit, PTL

\* The lock of a group stays a device's, or nobody's, when a handler returns.
LEMMA LockType ==
  ASSUME OtherTypes, NEW t \in Threads,
         group_lock' = group_lock \/
         group_lock' = [g \in Groups |-> IF group_lock[g] = t THEN None ELSE group_lock[g]]
  PROVE  group_lock' \in [Groups -> Devices \cup {None}]
BY DEF OtherTypes

\* The steps of a handler keep the types.
LEMMA HandlerTypes ==
  ASSUME TypeOK, NEW t \in Threads, Handler(t)
  PROVE  OtherTypes'
<1>1. RegTypes /\ OtherTypes
  BY TypesSplit
<1>2. CASE SnapshotGroups(t) \/ NextGroup(t)
  BY <1>1, <1>2 DEF SnapshotGroups, NextGroup, OtherTypes, server, registry, history
<1>3. CASE Deliver(t)
  <2>1. client' \in [Devices -> ClientRecord] /\ up' \in [Devices -> Seq({"buffered", "closed"})]
    BY <1>3, Delivered
  <2> QED BY <1>1, <1>3, <2>1 DEF Deliver, OtherTypes, server, registry, history
<1>4. CASE Sent(t) \/ Change(t) \/ SetState(t)
  <2>1. group_lock' = group_lock \/
        group_lock' = [g \in Groups |-> IF group_lock[g] = t THEN None ELSE group_lock[g]]
    BY <1>4 DEF Sent, Change, ChangeIf, SetState, Continue, Return
  <2>2. group_lock' \in [Groups -> Devices \cup {None}]
    BY <1>1, <2>1, LockType
  <2>3. UNCHANGED <<registry, client, up, stream, session, drops, toggles>>
    BY <1>4 DEF Sent, Change, ChangeIf, SetState, history
  <2> QED BY <1>1, <2>2, <2>3 DEF OtherTypes, registry
<1> QED BY <1>2, <1>3, <1>4 DEF Handler, Send, StateChanged

\* The steps of the server's and the websocket's thread keep the types.
LEMMA ServerTypes ==
  ASSUME TypeOK, ServerRun \/ AudioSteps \/ \E g \in Groups : SetParam(g)
  PROVE  OtherTypes'
<1>1. OtherTypes
  BY TypesSplit
<1>2. CASE ServerRun
  BY <1>1, <1>2 DEF ServerRun, SetCodec, SetSamplerate, SetStop, NewAudio, OtherTypes,
     server, registry
<1>3. CASE AudioSteps
  BY <1>1, <1>3 DEF AudioSteps, AudioStarts, AudioChanges, OtherTypes,
     server, registry, history
<1>4. CASE \E g \in Groups : SetParam(g)
  BY <1>1, <1>4 DEF SetParam, SetParamSending, OtherTypes
<1> QED BY <1>2, <1>3, <1>4

\* The steps of a device's thread, and the loss of its connection, keep the types.
LEMMA DeviceTypes ==
  ASSUME TypeOK, NEW d \in Devices, Accept(d) \/ DeviceHandles(d) \/ Drop(d)
  PROVE  OtherTypes'
<1>1. RegTypes /\ OtherTypes /\ d \in Threads
  BY TypesSplit DEF Threads
<1>2. /\ client \in [Devices -> ClientRecord] /\ client[d] \in ClientRecord
      /\ GroupOf[d] \in Groups /\ play_enabled[GroupOf[d]] \in BOOLEAN
      /\ up[d] \in Seq({"buffered", "closed"})
  BY <1>1 DEF OtherTypes
<1>3. CASE Accept(d)
  <2> DEFINE accepted == [client[d] EXCEPT !.link = TRUE, !.param = play_enabled[GroupOf[d]]]
  <2>1. accepted \in ClientRecord
    BY <1>2 DEF ClientRecord
  <2>2. client' = [client EXCEPT ![d] = accepted]
    BY <1>2, <1>3 DEF Accept
  <2> HIDE DEF accepted
  <2>3. client' \in [Devices -> ClientRecord]
    BY <1>2, <2>1, <2>2
  <2> QED BY <1>1, <1>3, <2>3 DEF Accept, OtherTypes, history
<1>4. CASE Register(d) \/ Remove(d)
  BY <1>1, <1>4 DEF Register, Remove, OtherTypes, history
<1>5. CASE GroupConnected(d)
  BY <1>1, <1>2, <1>5 DEF GroupConnected, OtherTypes, history
<1>6. CASE GroupDisconnected(d)
  <2>1. connected_groups' \in [Groups -> Nat]
    BY <1>1, <1>2, <1>6 DEF GroupDisconnected, OtherTypes
  <2> QED BY <1>1, <1>6, <2>1 DEF GroupDisconnected, OtherTypes, history
<1>7. CASE Receive(d)
  <2>1. Tail(up[d]) \in Seq({"buffered", "closed"})
    BY <1>2, <1>7 DEF Receive, ReceiveAs
  <2> QED BY <1>1, <1>7, <2>1 DEF Receive, ReceiveAs, OtherTypes, history
<1>8. CASE TakeLock(d)
  BY <1>1, <1>2, <1>8 DEF TakeLock, TakeLockAs, OtherTypes, registry, history
<1>9. CASE GroupStatus(d)
  <2>1. group_lock' \in [Groups -> Devices \cup {None}]
    BY <1>1, <1>9, LockType DEF GroupStatus, Return
  <2> QED BY <1>1, <1>9, <2>1 DEF GroupStatus, OtherTypes, registry, history
<1>10. CASE Closed(d)
  <2>1. <<>> \in Seq({"buffered", "closed"})
    OBVIOUS
  <2> QED BY <1>1, <1>10, <2>1 DEF Closed, ClosedThen, OtherTypes, history
<1>11. CASE Drop(d)
  <2>1. PICK codec \in {0, client[d].codec} :
          client' = [client EXCEPT ![d] = [Offline EXCEPT !.codec = codec]]
    BY <1>11 DEF Drop
  <2>2. PICK received \in {<<>>, up[d]} : up' = [up EXCEPT ![d] = Append(received, "closed")]
    BY <1>11 DEF Drop
  <2>3. codec \in Nat /\ Offline \in ClientRecord
    BY <1>2 DEF ClientRecord, Offline
  <2>4. [Offline EXCEPT !.codec = codec] \in ClientRecord
    BY <2>3 DEF ClientRecord
  <2>5. received \in Seq({"buffered", "closed"})
    <3>1. <<>> \in Seq({"buffered", "closed"})
      OBVIOUS
    <3> QED BY <1>2, <3>1
  <2>6. Append(received, "closed") \in Seq({"buffered", "closed"})
    BY <2>5
  <2> DEFINE gone == [Offline EXCEPT !.codec = codec]
             last == Append(received, "closed")
  <2>7. client' = [client EXCEPT ![d] = gone] /\ up' = [up EXCEPT ![d] = last]
    BY <2>1, <2>2
  <2> HIDE DEF gone, last
  <2>8. client' \in [Devices -> ClientRecord]
    BY <1>2, <2>4, <2>7 DEF gone
  <2>9. up' \in [Devices -> Seq({"buffered", "closed"})]
    BY <1>1, <2>6, <2>7 DEF last, OtherTypes
  <2>10. drops' \in Nat
    BY <1>1, <1>11 DEF Drop, OtherTypes
  <2> QED BY <1>1, <1>11, <2>8, <2>9, <2>10 DEF Drop, OtherTypes, server, registry
<1> QED BY <1>3, <1>4, <1>5, <1>6, <1>7, <1>8, <1>9, <1>10, <1>11 DEF DeviceHandles

\* Every variable always has its type.
LEMMA TypesNext == TypeOK /\ RegInv' /\ [Next]_vars => TypeOK'
<1> SUFFICES ASSUME TypeOK, RegInv', [Next]_vars PROVE TypeOK'
  OBVIOUS
<1>1. CASE Next
  BY <1>1, HandlerTypes, ServerTypes, DeviceTypes, TypesPrimed DEF Next, RegInv
<1>2. CASE UNCHANGED vars
  BY <1>2, TypesSplit, TypesPrimed DEF vars, server, registry, history, RegInv, OtherTypes
<1> QED BY <1>1, <1>2

\* At the start every variable has its type.
LEMMA TypesInit == Init => TypeOK
<1> SUFFICES ASSUME Init PROVE TypeOK
  OBVIOUS
<1>1. Offline \in ClientRecord
  BY DEF Offline, ClientRecord
<1>2. client = [d \in Devices |-> Offline]
  BY DEF Init
<1>3. client \in [Devices -> ClientRecord]
  BY <1>1, <1>2
<1>4. OtherTypes
  BY <1>3 DEF Init, OtherTypes
<1>5. RegTypes
  BY RegInit DEF RegInv
<1> QED BY <1>4, <1>5, TypesSplit

\* Every variable always has its type: no step of any thread stores what the code
\* does not, whatever connections, sessions and users do.
THEOREM TypesHold == Spec => []TypeOK
BY TypesInit, TypesNext, RegInvariance, PTL DEF Spec

-----------------------------------------------------------------------------
(* Which thread does what, and who holds a group's lock                    *)

Sends(t) == thread[t].pc \in {"groups", "send"}
InState(t) == thread[t].pc \in {"change", "set"}

\* The server's thread never has the groups play, and only it leaves playing.
ServerRole ==
  LET s == thread["server"]
  IN  /\ s.pc \in {"idle", "groups", "send", "change", "set", "stopped?", "differs?"}
      /\ s.next \in {"nothing", "audio"}
      /\ Sends("server") => s.packet \notin {"playing", "enable", "disable"}
      /\ InState("server") => s.new \in {"stopped", "buffering"}
      /\ s.pc \in {"stopped?", "differs?"} /\ s.new = "playing" => m_state = "playing"

\* The websocket's thread sends the parameter to one group, after a stop when the
\* group is no longer to play.
WebRole ==
  LET s == thread["web"]
  IN  /\ s.pc \in {"idle", "send"}
      /\ s.pc = "send" =>
           /\ s.todo = {} /\ s.group \in Groups
           /\ s.packet \in {"enable", "stopping", "disable"}
           /\ s.next = IF s.packet = "stopping" THEN "disable" ELSE "nothing"

\* The thread of a device sends nothing but `playing'.
DeviceRole(d) ==
  LET s == thread[d]
  IN  /\ s.pc \notin {"stopped?", "differs?"} /\ s.next = "nothing"
      /\ InState(d) => s.new = "playing"
      /\ Sends(d) => s.packet = "playing"

\* From the check of the status to the last `playing', a device's thread holds the
\* lock of its group.
Locked == {"status", "change", "set", "groups", "send"}
HoldsLock(d) == thread[d].pc \in Locked => group_lock[GroupOf[d]] = d

Roles ==
  /\ ServerRole /\ WebRole
  /\ \A d \in Devices : DeviceRole(d) /\ HoldsLock(d)

\* What a step of one thread has to show of that thread alone.
RoleOf(t) ==
  /\ t = "server" => ServerRole
  /\ t = "web" => WebRole
  /\ t \in Devices => DeviceRole(t) /\ HoldsLock(t)

OthersKeepLock(t) ==
  \A d \in Devices \ {t} : group_lock[GroupOf[d]] = d => group_lock'[GroupOf[d]] = d

\* A step of t that keeps its own role and the locks of the others keeps all roles.
LEMMA RolesKept ==
  ASSUME Roles, NEW t \in Threads, Only(t), OthersKeepLock(t), RoleOf(t)',
         t # "server" => m_state' \in {m_state, "playing"}
  PROVE  Roles'
<1>1. ServerRole'
  <2>1. CASE t = "server"
    BY <2>1 DEF RoleOf
  <2>2. CASE t # "server"
    <3>1. thread'["server"] = thread["server"]
      BY <2>2 DEF Only, Threads
    <3> QED BY <2>2, <3>1 DEF Roles, ServerRole, Sends, InState
  <2> QED BY <2>1, <2>2
<1>2. WebRole'
  <2>1. CASE t = "web"
    BY <2>1 DEF RoleOf
  <2>2. CASE t # "web"
    <3>1. thread'["web"] = thread["web"]
      BY <2>2 DEF Only, Threads
    <3> QED BY <3>1 DEF Roles, WebRole
  <2> QED BY <2>1, <2>2
<1>3. ASSUME NEW d \in Devices PROVE DeviceRole(d)' /\ HoldsLock(d)'
  <2>1. CASE t = d
    BY <2>1 DEF RoleOf
  <2>2. CASE t # d
    <3>1. thread'[d] = thread[d]
      BY <2>2 DEF Only, Threads
    <3>2. DeviceRole(d) /\ HoldsLock(d)
      BY DEF Roles
    <3> QED BY <2>2, <3>1, <3>2 DEF DeviceRole, HoldsLock, Sends, InState, OthersKeepLock
  <2> QED BY <2>1, <2>2
<1> QED BY <1>1, <1>2, <1>3 DEF Roles

\* The local variables with which a handler starts.
LEMMA FreshFields ==
  /\ Idle.pc = "idle" /\ Idle.next = "nothing" /\ Idle.todo = {} /\ Idle.group = None
  /\ \A p \in Packets :
       /\ ToAll(p).pc = "groups" /\ ToAll(p).packet = p /\ ToAll(p).next = "nothing"
       /\ \A g \in Groups :
            LET s == ToGroup(g, p)
            IN  s.pc = "send" /\ s.packet = p /\ s.next = "nothing" /\ s.todo = {}
                /\ s.group = g /\ s.idx = 1
BY DEF Idle, ToAll, ToGroup

\* A handler that is done releases no lock but its own.
LEMMA ReleasesOwn ==
  ASSUME TypeOK, NEW t \in Threads,
         \/ group_lock' = group_lock
         \/ group_lock' = [g \in Groups |-> IF group_lock[g] = t THEN None ELSE group_lock[g]]
  PROVE  OthersKeepLock(t)
BY DEF TypeOK, OthersKeepLock

\* A thread that sends, or changes the state, keeps to its role.
LEMMA RolesHandler ==
  ASSUME TypeOK, Roles, NEW t \in Threads, Handler(t)
  PROVE  Roles'
<1>1. RegTypes /\ thread[t] \in ThreadRecord /\ RoleOf(t)
  BY TypesSplit DEF TypeOK, Roles, RoleOf
<1>2. CASE SnapshotGroups(t) \/ Deliver(t) \/ NextGroup(t)
  <2>1. UNCHANGED <<m_state, group_lock>>
    BY <1>2 DEF SnapshotGroups, Deliver, NextGroup, server
  <2>2. Only(t)
    BY <1>1, <1>2, SnapshotStep, DeliverStep, NextGroupStep
  <2>3. /\ thread[t].pc \in {"groups", "send"} /\ thread'[t].pc = "send"
        /\ thread'[t].packet = thread[t].packet /\ thread'[t].next = thread[t].next
    BY <1>1, <1>2, SnapshotStep, DeliverStep, NextGroupStep
  <2>4. RoleOf(t)'
    <3>1. CASE t = "server"
      BY <1>1, <2>3, <3>1 DEF RoleOf, ServerRole, Sends, InState
    <3>2. CASE t = "web"
      <4>1. CASE Deliver(t)
        BY <1>1, <3>2, <4>1, DeliverStep DEF RoleOf, WebRole
      <4>2. CASE SnapshotGroups(t)
        BY <1>1, <3>2, <4>2, SnapshotStep DEF RoleOf, WebRole
      <4>3. CASE NextGroup(t)
        BY <1>1, <3>2, <4>3, NextGroupStep DEF RoleOf, WebRole
      <4> QED BY <1>2, <4>1, <4>2, <4>3
    <3>3. CASE t \in Devices
      BY <1>1, <2>1, <2>3, <3>3 DEF RoleOf, DeviceRole, HoldsLock, Locked, Sends, InState
    <3> QED BY <3>1, <3>2, <3>3 DEF RoleOf, Threads
  <2> QED BY <2>1, <2>2, <2>4, RolesKept DEF OthersKeepLock
<1>3. ASSUME Sent(t) \/ (Change(t) /\ Continue(t)) PROVE Roles'
  <2>1. UNCHANGED m_state /\ Continue(t) /\ thread[t].pc \in {"send", "change"}
    BY <1>3 DEF Sent, Change, ChangeIf, At
  <2>2. Only(t) /\ OthersKeepLock(t)
    BY <1>1, <2>1, ContinueStep, ReleasesOwn
  <2>3. RoleOf(t)'
    <3>1. CASE t = "server"
      BY <1>1, <2>1, <3>1, ContinueStep, FreshFields
         DEF RoleOf, ServerRole, Sends, InState, Packets
    <3>2. CASE t = "web"
      BY <1>1, <2>1, <3>2, ContinueStep, FreshFields DEF RoleOf, WebRole
    <3>3. CASE t \in Devices
      BY <1>1, <2>1, <3>3, ContinueStep, FreshFields
         DEF RoleOf, DeviceRole, HoldsLock, Locked, Sends, InState
    <3> QED BY <3>1, <3>2, <3>3 DEF RoleOf, Threads
  <2> QED BY <2>1, <2>2, <2>3, RolesKept
<1>4. ASSUME Change(t), ~Continue(t) PROVE Roles'
  <2>1. UNCHANGED <<m_state, group_lock>> /\ Goto(t, "set") /\ thread[t].pc = "change"
        /\ "set" \in Places
    BY <1>4 DEF Change, ChangeIf, At, Places
  <2>2. Only(t) /\ thread'[t].pc = "set" /\ thread'[t].new = thread[t].new
        /\ thread'[t].next = thread[t].next
    BY <1>1, <2>1, GoesTo
  <2>3. RoleOf(t)'
    BY <1>1, <2>1, <2>2 DEF RoleOf, ServerRole, WebRole, DeviceRole, HoldsLock, Locked,
       Sends, InState
  <2> QED BY <2>1, <2>2, <2>3, RolesKept DEF OthersKeepLock
<1>5. ASSUME SetState(t) PROVE Roles'
  <2>1. UNCHANGED group_lock
    BY <1>5 DEF SetState
  <2>2. /\ Only(t) /\ thread[t].pc = "set" /\ m_state' = thread[t].new
        /\ thread'[t].pc = "groups" /\ thread'[t].packet = PacketOf(thread[t].new)
        /\ thread'[t].next = thread[t].next
    BY <1>1, <1>5, SetStateStep
  <2>3. RoleOf(t)'
    BY <1>1, <2>1, <2>2 DEF RoleOf, ServerRole, WebRole, DeviceRole, HoldsLock, Locked,
       Sends, InState, PacketOf
  <2>4. t # "server" => m_state' = "playing"
    BY <1>1, <2>2 DEF RoleOf, WebRole, DeviceRole, InState, Threads
  <2> QED BY <2>1, <2>2, <2>3, <2>4, RolesKept DEF OthersKeepLock
<1> QED BY <1>2, <1>3, <1>4, <1>5 DEF Handler, Send, StateChanged

\* So does the server's thread when it takes what the multiplexer delivers.
LEMMA RolesServer ==
  ASSUME TypeOK, Roles, ServerRun \/ AudioSteps
  PROVE  Roles'
<1> DEFINE s == thread["server"]
<1>1. RegTypes /\ "server" \in Threads /\ ServerRole
  BY TypesSplit DEF Roles, Threads
<1>2. UNCHANGED <<m_state, group_lock>>
  BY DEF ServerRun, AudioSteps, SetCodec, SetSamplerate, SetStop, NewAudio,
     AudioStarts, AudioChanges, server
<1>3. ASSUME NEW p \in Packets, p \notin {"playing", "enable", "disable"},
             Polled(ToAll(p))
      PROVE  Only("server") /\ ServerRole'
  BY <1>1, <1>3, Moves, FreshFields DEF Polled, ServerRole, Sends, InState
<1>4. ASSUME SetCodec PROVE Only("server") /\ ServerRole'
  BY <1>3, <1>4 DEF SetCodec, Packets
<1>5. ASSUME SetSamplerate PROVE Only("server") /\ ServerRole'
  BY <1>3, <1>5 DEF SetSamplerate, Packets
<1>6. ASSUME SetStop PROVE Only("server") /\ ServerRole'
  <2> DEFINE here == [Idle EXCEPT !.pc = "change", !.new = "stopped"]
  <2>1. Continues("server", here)
    BY <1>6 DEF SetStop, Polled
  <2>2. here.pc = "change" /\ here.new = "stopped" /\ here.next = "nothing"
    BY DEF Idle
  <2> HIDE DEF here
  <2>3. Only("server") /\ thread'["server"] = here
    BY <1>1, <2>1, Moves
  <2> QED BY <2>2, <2>3 DEF ServerRole, Sends, InState
<1>7. ASSUME NewAudio PROVE Only("server") /\ ServerRole'
  <2> DEFINE here == [Idle EXCEPT !.pc = "stopped?", !.new = m_state]
  <2>1. Continues("server", here)
    BY <1>7 DEF NewAudio, Polled
  <2>2. here.pc = "stopped?" /\ here.new = m_state /\ here.next = "nothing"
    BY DEF Idle
  <2> HIDE DEF here
  <2>3. Only("server") /\ thread'["server"] = here
    BY <1>1, <2>1, Moves
  <2> QED BY <1>2, <2>2, <2>3 DEF ServerRole, Sends, InState
<1>8. ASSUME AudioStarts PROVE Only("server") /\ ServerRole'
  BY <1>1, <1>2, <1>8, AudioStartsStep DEF ServerRole, Sends, InState
<1>9. ASSUME AudioChanges PROVE Only("server") /\ ServerRole'
  <2>1. thread["server"].new = m_state \/ thread["server"].new \in {"stopped", "buffering"}
    BY <1>1, <1>9, AudioChangesStep DEF ServerRole, TypeOK, ThreadRecord, States
  <2> QED BY <1>1, <1>2, <1>9, <2>1, AudioChangesStep, FreshFields
          DEF ServerRole, Sends, InState, Packets
<1>10. Only("server") /\ ServerRole'
  BY <1>4, <1>5, <1>6, <1>7, <1>8, <1>9 DEF ServerRun, AudioSteps
<1>11. RoleOf("server")' /\ OthersKeepLock("server")
  BY <1>2, <1>10 DEF RoleOf, OthersKeepLock
<1> QED BY <1>1, <1>10, <1>11, RolesKept

\* So does the websocket's thread when a user changes a group.
LEMMA RolesWeb ==
  ASSUME TypeOK, Roles, NEW g \in Groups, SetParam(g)
  PROVE  Roles'
<1> DEFINE off == [ToGroup(g, "stopping") EXCEPT !.next = "disable"]
<1>1. RegTypes /\ "web" \in Threads /\ UNCHANGED <<m_state, group_lock>>
  BY TypesSplit DEF Threads, SetParam, SetParamSending
<1>2. Continues("web", ToGroup(g, "enable")) \/ Continues("web", off)
  BY DEF SetParam, SetParamSending
<1>3. /\ off.pc = "send" /\ off.todo = {} /\ off.group = g /\ off.packet = "stopping"
      /\ off.next = "disable"
  BY DEF ToGroup, Idle
<1> HIDE DEF off
<1>4. Only("web") /\ thread'["web"] \in {ToGroup(g, "enable"), off}
  BY <1>1, <1>2, Moves
<1>5. "enable" \in Packets
  BY DEF Packets
<1>6. WebRole'
  BY <1>3, <1>4, <1>5, FreshFields DEF WebRole
<1>7. RoleOf("web")' /\ OthersKeepLock("web")
  BY <1>1, <1>6 DEF RoleOf, OthersKeepLock
<1> QED BY <1>1, <1>4, <1>7, RolesKept

\* So does the thread of a device when it takes what its client sends.
LEMMA RolesDevice ==
  ASSUME TypeOK, Roles, NEW d \in Devices, Accept(d) \/ DeviceHandles(d)
  PROVE  Roles'
<1>1. RegTypes /\ d \in Threads /\ DeviceRole(d) /\ HoldsLock(d) /\ UNCHANGED m_state
  BY TypesSplit DEF Threads, Roles, Accept, DeviceHandles, Register, GroupConnected, Receive,
     ReceiveAs, TakeLock, TakeLockAs, GroupStatus, Closed, ClosedThen, Remove,
     GroupDisconnected
<1>2. ASSUME NEW p \in {"register", "idle", "online?", "lock", "remove", "offline?"},
             Goto(d, p), group_lock' = group_lock
      PROVE  Roles'
  <2>1. p \in Places
    BY DEF Places
  <2>2. Only(d) /\ thread'[d].pc = p /\ thread'[d].next = thread[d].next
    BY <1>1, <1>2, <2>1, GoesTo
  <2>3. RoleOf(d)' /\ OthersKeepLock(d)
    BY <1>1, <1>2, <2>2 DEF RoleOf, DeviceRole, HoldsLock, Locked, Sends, InState,
       OthersKeepLock
  <2> QED BY <1>1, <2>2, <2>3, RolesKept
<1>3. CASE TakeLock(d) /\ Goto(d, "status")
  <2>1. /\ group_lock[GroupOf[d]] = None
        /\ group_lock' = [group_lock EXCEPT ![GroupOf[d]] = d]
    <3>1. ~(Goto(d, "idle") /\ Goto(d, "status"))
      BY <1>1, GoesTo DEF Places
    <3> QED BY <1>3, <3>1 DEF TakeLock, TakeLockAs
  <2>2. Only(d) /\ thread'[d].pc = "status" /\ thread'[d].next = thread[d].next
    BY <1>1, <1>3, GoesTo DEF Places
  <2>3. group_lock'[GroupOf[d]] = d /\ OthersKeepLock(d)
    BY <2>1 DEF TypeOK, OthersKeepLock
  <2>4. RoleOf(d)'
    BY <1>1, <2>2, <2>3 DEF RoleOf, DeviceRole, HoldsLock, Sends, InState
  <2> QED BY <1>1, <2>2, <2>3, <2>4, RolesKept
<1>4. CASE GroupStatus(d)
  <2>1. Only(d) /\ OthersKeepLock(d)
    BY <1>1, <1>4, GroupStatusStep, ReleasesOwn
  <2>2. RoleOf(d)'
    BY <1>1, <1>4, GroupStatusStep, FreshFields
       DEF RoleOf, DeviceRole, HoldsLock, Locked, Sends, InState
  <2> QED BY <1>1, <2>1, <2>2, RolesKept
<1> QED BY <1>2, <1>3, <1>4 DEF Accept, DeviceHandles, Register, GroupConnected, Receive,
        ReceiveAs, TakeLock, TakeLockAs, Closed, ClosedThen, Remove, GroupDisconnected,
        registry, server

\* No step breaks a role.
LEMMA RolesNext == TypeOK /\ Roles /\ [Next]_vars => Roles'
<1> SUFFICES ASSUME TypeOK, Roles, [Next]_vars PROVE Roles'
  OBVIOUS
<1>1. ASSUME UNCHANGED <<thread, m_state, group_lock>> PROVE Roles'
  BY <1>1 DEF Roles, ServerRole, WebRole, DeviceRole, HoldsLock, Sends, InState
<1>2. CASE ServerRun \/ AudioSteps
  BY <1>2, RolesServer
<1>3. CASE \E g \in Groups : SetParam(g)
  BY <1>3, RolesWeb
<1>4. CASE \E t \in Threads : Handler(t)
  BY <1>4, RolesHandler
<1>5. CASE \E d \in Devices : Accept(d) \/ DeviceHandles(d)
  BY <1>5, RolesDevice
<1>6. CASE \E d \in Devices : Drop(d)
  BY <1>1, <1>6 DEF Drop, server
<1>7. CASE UNCHANGED vars
  BY <1>1, <1>7 DEF vars, server
<1> QED BY <1>2, <1>3, <1>4, <1>5, <1>6, <1>7 DEF Next

\* At the start no thread has anything to do.
LEMMA RolesInit == Init => Roles
<1> SUFFICES ASSUME Init PROVE Roles
  OBVIOUS
<1>1. \A t \in Threads : thread[t] = Idle
  BY DEF Init
<1>2. "server" \in Threads /\ "web" \in Threads /\ Devices \subseteq Threads
  BY DEF Threads
<1> QED BY <1>1, <1>2, FreshFields DEF Roles, ServerRole, WebRole, DeviceRole, HoldsLock,
        Locked, Sends, InState

\* Every thread keeps to its role: only the threads of devices have a group play,
\* only the server's stops or buffers, only the websocket's sends parameters, and a
\* device's thread holds its group's lock for as long as it has the group play.
THEOREM RolesHold == Spec => []Roles
BY RolesInit, RolesNext, TypesHold, PTL DEF Spec

-----------------------------------------------------------------------------
(* Connections that last                                                   *)

NoDrops == MaxDrops = 0

\* While no connection is lost: a device that is served is reachable, and what
\* has a pipeline is registered.
Links ==
  /\ \A d \in Devices :
       /\ up[d] \in Seq({"buffered"})
       /\ thread[d].pc \notin {"remove", "offline?"}
       /\ connected[d] => client[d].link
       /\ client[d].pipe = None => client[d].time = None
       /\ client[d].pipe # None => DeviceIn(d, GroupOf[d])
  /\ \A g \in Groups : \A d \in Range(connected_devices[g]) : GroupOf[d] = g

\* The lists of devices only grow.
Grows ==
  \A g \in Groups :
    /\ DOMAIN connected_devices[g] \subseteq DOMAIN connected_devices'[g]
    /\ \A i \in DOMAIN connected_devices[g] :
         connected_devices'[g][i] = connected_devices[g][i]

\* A device in a list is the group's, is served, and has its connection.
LEMMA Reachable ==
  ASSUME RegInv, Links, NEW g \in Groups, NEW d \in Devices, DeviceIn(d, g)
  PROVE  GroupOf[d] = g /\ connected[d] /\ client[d].link
<1>1. GroupOf[d] = g
  BY DEF Links, DeviceIn
<1>2. Served(d) /\ thread[d].pc # "remove"
  BY DEF RegInv, Links
<1>3. connected[d]
  BY <1>1, <1>2 DEF Served, At
<1> QED BY <1>1, <1>3 DEF Links

\* Where the thread of a handler goes.
LEMMA HandlerPlace ==
  ASSUME TypeOK, NEW t \in Threads, Handler(t)
  PROVE  Only(t) /\ (thread'[t].pc = thread[t].pc
                     \/ thread'[t].pc \in {"send", "idle", "groups", "set"})
<1>1. RegTypes
  BY TypesSplit
<1>2. CASE SnapshotGroups(t) \/ Deliver(t) \/ NextGroup(t) \/ SetState(t)
  BY <1>1, <1>2, SnapshotStep, DeliverStep, NextGroupStep, SetStateStep
<1>3. CASE Sent(t)
  BY <1>1, <1>3, ContinueStep, FreshFields DEF Sent, Packets
<1>4. CASE Change(t)
  <2>1. "set" \in Places /\ (Goto(t, "set") \/ Continue(t))
    BY <1>4 DEF Change, ChangeIf, Places
  <2> QED BY <1>1, <2>1, ContinueStep, GoesTo, FreshFields DEF Packets
<1> QED BY <1>2, <1>3, <1>4 DEF Handler, Send, StateChanged

\* A handler changes no list and no connection, and only Deliver reaches clients.
LEMMA HandlerFrame ==
  ASSUME NEW t \in Threads, Handler(t)
  PROVE  /\ UNCHANGED <<connected_devices, connected, play_enabled, device_state>>
         /\ UNCHANGED <<stream, session, toggles, drops>>
         /\ ~Deliver(t) => UNCHANGED <<client, up>>
         /\ ~SetState(t) => UNCHANGED m_state
         /\ ~SnapshotGroups(t) => UNCHANGED play_times
BY DEF Handler, Send, StateChanged, SnapshotGroups, Deliver, NextGroup, Sent, Change,
   ChangeIf, SetState, server, registry, history

\* The server's thread and the websocket's reach no client either before they send.
LEMMA ServerFrame ==
  ASSUME TypeOK, ServerRun \/ AudioSteps
  PROVE  /\ UNCHANGED <<m_state, group_lock, connected_devices, connected, play_enabled>>
         /\ UNCHANGED <<device_state, client, up, toggles, play_times, drops>>
         /\ Only("server") /\ thread'["server"].pc # "send"
<1>1. /\ UNCHANGED <<m_state, group_lock, connected_devices, connected, play_enabled>>
      /\ UNCHANGED <<device_state, client, up, toggles, play_times, drops>>
  BY DEF ServerRun, AudioSteps, SetCodec, SetSamplerate, SetStop, NewAudio, AudioStarts,
     AudioChanges, server, registry, history
<1>2. RegTypes /\ "server" \in Threads
  BY TypesSplit DEF Threads
<1>3. ASSUME SetCodec \/ SetSamplerate \/ SetStop \/ NewAudio
      PROVE  Only("server") /\ thread'["server"].pc # "send"
  <2>1. ASSUME NEW here, Polled(here), here.pc # "send"
        PROVE  Only("server") /\ thread'["server"].pc # "send"
    BY <1>2, <2>1, Moves DEF Polled
  <2>2. CASE SetCodec \/ SetSamplerate
    BY <2>1, <2>2, FreshFields DEF SetCodec, SetSamplerate, Packets
  <2>3. CASE SetStop
    <3>1. [Idle EXCEPT !.pc = "change", !.new = "stopped"].pc # "send"
      BY DEF Idle
    <3> QED BY <2>1, <2>3, <3>1 DEF SetStop
  <2>4. CASE NewAudio
    <3>1. [Idle EXCEPT !.pc = "stopped?", !.new = m_state].pc # "send"
      BY DEF Idle
    <3> QED BY <2>1, <2>4, <3>1 DEF NewAudio
  <2> QED BY <1>3, <2>2, <2>3, <2>4
<1>4. ASSUME AudioSteps PROVE Only("server") /\ thread'["server"].pc # "send"
  BY <1>2, <1>4, AudioStartsStep, AudioChangesStep DEF AudioSteps, ToAll, Idle
<1> QED BY <1>1, <1>3, <1>4 DEF ServerRun

\* The websocket's thread leaves the state, the lists and the clients alone.
LEMMA WebFrame ==
  ASSUME TypeOK, NEW g \in Groups, SetParam(g)
  PROVE  /\ UNCHANGED <<m_state, group_lock, connected_devices, connected, device_state>>
         /\ UNCHANGED <<client, up, stream, session, play_times, drops>>
         /\ Only("web")
<1>1. /\ UNCHANGED <<m_state, group_lock, connected_devices, connected, device_state>>
      /\ UNCHANGED <<client, up, stream, session, play_times, drops>>
  BY DEF SetParam, SetParamSending
<1>2. RegTypes /\ "web" \in Threads
  BY TypesSplit DEF Threads
<1>3. PICK here : Continues("web", here)
  BY DEF SetParam, SetParamSending
<1> QED BY <1>1, <1>2, <1>3, Moves

\* A device's thread: where it goes, and what it leaves alone.
LEMMA DeviceFrame ==
  ASSUME TypeOK, Links, NEW d \in Devices, Accept(d) \/ DeviceHandles(d)
  PROVE  /\ Only(d)
         /\ thread'[d].pc \in {"register", "idle", "online?", "lock", "status", "change"}
         /\ UNCHANGED <<m_state, play_enabled, stream, session, toggles, play_times, drops>>
         /\ ~Accept(d) => UNCHANGED <<client, connected>>
         /\ ~Register(d) => UNCHANGED connected_devices
         /\ ~Receive(d) => UNCHANGED <<up, device_state>>
<1>1. RegTypes /\ d \in Threads /\ up[d] \in Seq({"buffered"})
      /\ thread[d].pc \notin {"remove", "offline?"}
  BY TypesSplit DEF Threads, Links
<1>2. ~Closed(d) /\ ~Remove(d) /\ ~GroupDisconnected(d)
  BY <1>1 DEF Closed, ClosedThen, Remove, GroupDisconnected, At
<1>3. /\ UNCHANGED <<m_state, play_enabled, stream, session, toggles, play_times, drops>>
      /\ ~Accept(d) => UNCHANGED <<client, connected>>
      /\ ~Register(d) => UNCHANGED connected_devices
      /\ ~Receive(d) => UNCHANGED <<up, device_state>>
  BY <1>2 DEF DeviceHandles, Accept, Register, GroupConnected, Receive, ReceiveAs, TakeLock,
     TakeLockAs, GroupStatus, registry, history
<1>4. CASE GroupStatus(d)
  BY <1>1, <1>3, <1>4, GroupStatusStep DEF Idle
<1>5. CASE ~GroupStatus(d)
  <2>1. PICK p \in {"register", "idle", "online?", "lock", "status"} : Goto(d, p)
    BY <1>2, <1>5 DEF DeviceHandles, Accept, Register, GroupConnected, Receive, ReceiveAs,
       TakeLock, TakeLockAs
  <2>2. p \in Places
    BY DEF Places
  <2> QED BY <1>1, <1>3, <2>1, <2>2, GoesTo
<1> QED BY <1>4, <1>5

-----------------------------------------------------------------------------
\* A device that is accepted has its connection and the server's parameter.
LEMMA Accepted ==
  ASSUME TypeOK, NEW d \in Devices, Accept(d)
  PROVE  /\ ~connected[d] /\ connected' = [connected EXCEPT ![d] = TRUE]
         /\ \A e \in Devices \ {d} : client'[e] = client[e]
         /\ client'[d].link /\ client'[d].param = play_enabled[GroupOf[d]]
         /\ client'[d].codec = client[d].codec /\ client'[d].pipe = client[d].pipe
         /\ client'[d].time = client[d].time /\ client'[d].amp = client[d].amp
         /\ LateJoin \/ session = 0
<1> DEFINE c == [client[d] EXCEPT !.link = TRUE, !.param = play_enabled[GroupOf[d]]]
<1>1. client \in [Devices -> ClientRecord] /\ client[d] \in ClientRecord
  BY TypesSplit DEF OtherTypes
<1>2. client' = [client EXCEPT ![d] = c]
  BY <1>1 DEF Accept, ClientRecord
<1>3. /\ c.link /\ c.param = play_enabled[GroupOf[d]] /\ c.codec = client[d].codec
      /\ c.pipe = client[d].pipe /\ c.time = client[d].time /\ c.amp = client[d].amp
  BY <1>1 DEF ClientRecord
<1> HIDE DEF c
<1> QED BY <1>1, <1>2, <1>3 DEF Accept

\* A device that is registered is at the end of its list, or was in it.
LEMMA RegisteredLast ==
  ASSUME TypeOK, NEW d \in Devices, Register(d)
  PROVE  /\ Grows
         /\ \A g \in Groups : \A e \in Devices :
              DeviceIn(e, g)' <=> DeviceIn(e, g) \/ (e = d /\ g = GroupOf[d])
<1>1. connected_devices \in [Groups -> Seq(Devices)] /\ GroupOf[d] \in Groups
  BY DEF TypeOK
<1>2. CASE DeviceIn(d, GroupOf[d])
  BY <1>1, <1>2 DEF Register, Grows, DeviceIn
<1>3. CASE ~DeviceIn(d, GroupOf[d])
  <2> DEFINE s == connected_devices[GroupOf[d]]
             n == Append(s, d)
  <2>1. connected_devices' = [connected_devices EXCEPT ![GroupOf[d]] = n]
    BY <1>1, <1>3 DEF Register
  <2>2. s \in Seq(Devices)
    BY <1>1
  <2>3. /\ DOMAIN n = DOMAIN s \cup {Len(s) + 1} /\ n[Len(s) + 1] = d
        /\ \A i \in DOMAIN s : n[i] = s[i]
    BY <2>2
  <2>4. Range(n) = Range(s) \cup {d}
    BY <2>3 DEF Range
  <2>5. connected_devices'[GroupOf[d]] = n
        /\ \A g \in Groups \ {GroupOf[d]} : connected_devices'[g] = connected_devices[g]
    <3> HIDE DEF n
    <3> QED BY <1>1, <2>1
  <2> HIDE DEF n
  <2>6. Grows
    BY <2>3, <2>5 DEF Grows
  <2> QED BY <2>4, <2>5, <2>6 DEF DeviceIn
<1> QED BY <1>2, <1>3

\* Without lost connections, no list of devices loses anything.
LEMMA GrowsNext ==
  ASSUME NoDrops, TypeOK, Links, [Next]_vars
  PROVE  Grows /\ \A g \in Groups : \A d \in Devices : DeviceIn(d, g) => DeviceIn(d, g)'
<1>1. ASSUME UNCHANGED connected_devices
      PROVE  Grows /\ \A g \in Groups : \A d \in Devices : DeviceIn(d, g) => DeviceIn(d, g)'
  BY <1>1 DEF Grows, DeviceIn
<1>2. CASE \E d \in Devices : Register(d)
  BY <1>2, RegisteredLast
<1>3. CASE ~\E d \in Devices : Register(d)
  <2>1. UNCHANGED connected_devices
    BY <1>3, HandlerFrame, ServerFrame, WebFrame, DeviceFrame
       DEF Next, Drop, vars, server, registry
  <2> QED BY <1>1, <2>1
<1> QED BY <1>2, <1>3

-----------------------------------------------------------------------------
\* A delivery reaches the device the loop has come to.
LEMMA Reaches ==
  ASSUME TypeOK, RegInv, Links, NEW t \in Threads, Deliver(t)
  PROVE  \E d \in Devices :
           LET r == thread[t]
               k == React(client[d], r.packet, session, r.time)
           IN  /\ r.group \in Groups /\ r.group = GroupOf[d] /\ DeviceIn(d, GroupOf[d])
               /\ d = connected_devices[r.group][r.idx]
               /\ r.idx \in DOMAIN connected_devices[r.group]
               /\ client[d] \in ClientRecord /\ k \in ClientRecord
               /\ client' \in [Devices -> ClientRecord]
               /\ \A e \in Devices \ {d} : client'[e] = client[e] /\ up'[e] = up[e]
               /\ client'[d] = k
               /\ up'[d] = IF EmitsBuffered(client[d], r.packet)
                           THEN Append(up[d], "buffered") ELSE up[d]
<1> DEFINE d == connected_devices[thread[t].group][thread[t].idx]
<1>1. d \in Devices /\ thread[t].group \in Groups /\ DeviceIn(d, thread[t].group)
  BY Delivered
<1>2. GroupOf[d] = thread[t].group /\ client[d].link
  BY <1>1, Reachable
<1>3. client[d] \in ClientRecord
  BY <1>1, TypesSplit DEF OtherTypes
<1> DEFINE r == thread[t]
           k == React(client[d], r.packet, session, r.time)
<1>4. /\ r.group \in Groups /\ r.group = GroupOf[d] /\ DeviceIn(d, GroupOf[d])
      /\ r.idx \in DOMAIN connected_devices[r.group]
      /\ k \in ClientRecord /\ client' \in [Devices -> ClientRecord]
      /\ \A e \in Devices \ {d} : client'[e] = client[e] /\ up'[e] = up[e]
      /\ client'[d] = k
      /\ up'[d] = IF EmitsBuffered(client[d], r.packet)
                  THEN Append(up[d], "buffered") ELSE up[d]
  BY <1>1, <1>2, Delivered
<1>5. d = connected_devices[r.group][r.idx]
  OBVIOUS
<1> HIDE DEF d
<1> QED BY <1>1, <1>3, <1>4, <1>5

\* What a packet leaves of a client whose pipeline and play time go together.
LEMMA PipeTime ==
  ASSUME NEW c \in ClientRecord, NEW p \in Packets, NEW codec \in Nat, NEW time \in Nat,
         c.pipe = None => c.time = None
  PROVE  LET k == React(c, p, codec, time) IN k.pipe = None => k.time = None
<1> DEFINE k == React(c, p, codec, time)
<1>1. Feed(c).pipe # None
  BY FeedFields DEF ClientRecord
<1>2. /\ p = "setsamplerate" => k.pipe = 0 /\ k.time = None
      /\ p = "audio" => k.pipe = Feed(c).pipe
      /\ p \in {"stopping", "disable"} => k.pipe = None /\ k.time = None
      /\ p = "playing" => k.pipe = c.pipe
                          /\ k.time = IF c.pipe = None THEN c.time ELSE time
      /\ p \in {"setcodec", "buffering", "enable"} => k.pipe = c.pipe /\ k.time = c.time
  BY ReactFields
<1> HIDE DEF k
<1>3. k.pipe = None => k.time = None
  BY <1>1, <1>2 DEF Packets
<1> QED BY <1>3 DEF k

\* A step that leaves clients and lists alone leaves the links.
LEMMA LinksFrame ==
  ASSUME Links, UNCHANGED <<client, connected, connected_devices>>,
         \A d \in Devices : up'[d] \in Seq({"buffered"}),
         \A d \in Devices : thread'[d].pc \notin {"remove", "offline?"}
  PROVE  Links'
BY DEF Links, DeviceIn

\* While no connection is lost, what is served stays reachable.
LEMMA LinksNext ==
  ASSUME NoDrops, TypeOK, RegInv, Links, [Next]_vars
  PROVE  Links'
<1>1. \A d \in Devices : d \in Threads /\ thread[d].pc \notin {"remove", "offline?"}
                         /\ up[d] \in Seq({"buffered"})
  BY DEF Links, Threads
<1>2. ASSUME NEW t \in Threads, Handler(t) PROVE Links'
  <2>1. \A d \in Devices : thread'[d].pc \notin {"remove", "offline?"}
    <3> SUFFICES ASSUME NEW d \in Devices PROVE thread'[d].pc \notin {"remove", "offline?"}
      OBVIOUS
    <3>1. CASE d = t
      BY <1>1, <1>2, <3>1, HandlerPlace
    <3>2. CASE d # t
      BY <1>1, <1>2, <3>2, HandlerPlace DEF Only
    <3> QED BY <3>1, <3>2
  <2>2. CASE ~Deliver(t)
    BY <1>1, <1>2, <2>1, <2>2, HandlerFrame, LinksFrame
  <2>3. CASE Deliver(t)
    <3>1. UNCHANGED <<connected, connected_devices>>
      BY <1>2, HandlerFrame
    <3>2. /\ thread[t].packet \in Packets /\ thread[t].time \in Nat /\ session \in Nat
      BY DEF TypeOK, ThreadRecord
    <3>3. PICK d \in Devices :
            LET r == thread[t]
                k == React(client[d], r.packet, session, r.time)
            IN  /\ DeviceIn(d, GroupOf[d]) /\ client[d] \in ClientRecord
                /\ \A e \in Devices \ {d} : client'[e] = client[e] /\ up'[e] = up[e]
                /\ client'[d] = k
                /\ up'[d] = IF EmitsBuffered(client[d], r.packet)
                            THEN Append(up[d], "buffered") ELSE up[d]
      BY <2>3, Reaches
    <3> DEFINE k == React(client[d], thread[t].packet, session, thread[t].time)
    <3>4. k.link = client[d].link /\ (k.pipe = None => k.time = None)
      <4>1. client[d].pipe = None => client[d].time = None
        BY DEF Links
      <4>2. k.link = client[d].link
        BY <3>2, <3>3, ReactFields
      <4>3. k.pipe = None => k.time = None
        BY <3>2, <3>3, <4>1, PipeTime
      <4> QED BY <4>2, <4>3
    <3>5. Append(up[d], "buffered") \in Seq({"buffered"})
      BY <1>1
    <3> HIDE DEF k
    <3>6. client'[d] = k /\ up'[d] \in Seq({"buffered"})
      BY <1>1, <3>3, <3>5 DEF k
    <3>7. \A e \in Devices : up'[e] \in Seq({"buffered"})
      BY <1>1, <3>3, <3>6
    <3>8. \A e \in Devices : /\ connected'[e] => client'[e].link
                             /\ client'[e].pipe = None => client'[e].time = None
      BY <3>1, <3>3, <3>4, <3>6 DEF Links
    <3>9. \A e \in Devices : client'[e].pipe # None => DeviceIn(e, GroupOf[e])
      BY <3>3 DEF Links
    <3>10. \A g \in Groups : \A e \in Range(connected_devices'[g]) : GroupOf[e] = g
      BY <3>1 DEF Links
    <3> QED BY <2>1, <3>1, <3>7, <3>8, <3>9, <3>10 DEF Links, DeviceIn
  <2> QED BY <2>2, <2>3
<1>3. ASSUME Only("server") \/ Only("web")
      PROVE  \A d \in Devices : thread'[d].pc \notin {"remove", "offline?"}
  BY <1>1, <1>3 DEF Only
<1>4. CASE ServerRun \/ AudioSteps
  BY <1>1, <1>3, <1>4, ServerFrame, LinksFrame
<1>5. CASE \E g \in Groups : SetParam(g)
  BY <1>1, <1>3, <1>5, WebFrame, LinksFrame
<1>6. ASSUME NEW d \in Devices, Accept(d) \/ DeviceHandles(d) PROVE Links'
  <2>1. \A e \in Devices : thread'[e].pc \notin {"remove", "offline?"}
    BY <1>1, <1>6, DeviceFrame DEF Only
  <2>2. CASE Accept(d)
    <3>1. UNCHANGED <<connected_devices, up>>
      BY <2>2 DEF Accept
    <3>2. connected' = [connected EXCEPT ![d] = TRUE] /\ connected \in [Devices -> BOOLEAN]
      BY <2>2, Accepted DEF TypeOK
    <3>3. \A e \in Devices : /\ connected'[e] => client'[e].link
                             /\ client'[e].pipe = None => client'[e].time = None
                             /\ client'[e].pipe # None => DeviceIn(e, GroupOf[e])
      BY <2>2, <3>2, Accepted DEF Links
    <3> QED BY <1>1, <2>1, <3>1, <3>3 DEF Links, DeviceIn
  <2>3. CASE Register(d)
    <3>1. UNCHANGED <<client, connected, up>>
      BY <2>3 DEF Register
    <3>2. \A g \in Groups : \A e \in Devices :
              DeviceIn(e, g)' <=> DeviceIn(e, g) \/ (e = d /\ g = GroupOf[d])
      BY <2>3, RegisteredLast
    <3>3. \A g \in Groups : Range(connected_devices'[g]) \subseteq Devices
      BY <2>3, RegNext DEF RegInv, RegTypes, Range
    <3>4. \A g \in Groups : \A e \in Range(connected_devices'[g]) : GroupOf[e] = g
      BY <3>2, <3>3 DEF Links, DeviceIn
    <3>5. \A e \in Devices : client'[e].pipe # None => DeviceIn(e, GroupOf[e])'
      BY <3>1, <3>2 DEF Links
    <3> QED BY <1>1, <2>1, <3>1, <3>4, <3>5 DEF Links
  <2>4. CASE Receive(d)
    <3>1. Tail(up[d]) \in Seq({"buffered"}) /\ up' = [up EXCEPT ![d] = Tail(@)]
      BY <1>1, <2>4 DEF Receive, ReceiveAs
    <3>2. \A e \in Devices : up'[e] \in Seq({"buffered"})
      BY <1>1, <3>1 DEF TypeOK
    <3> QED BY <2>1, <2>4, <3>2, LinksFrame DEF Receive, ReceiveAs
  <2>5. CASE ~Accept(d) /\ ~Register(d) /\ ~Receive(d)
    BY <1>1, <1>6, <2>1, <2>5, DeviceFrame, LinksFrame
  <2> QED BY <2>2, <2>3, <2>4, <2>5
<1>7. ~\E d \in Devices : Drop(d)
  BY DEF NoDrops, Drop, TypeOK
<1>8. CASE UNCHANGED vars
  BY <1>1, <1>8, LinksFrame DEF vars, server, registry
<1> QED BY <1>2, <1>4, <1>5, <1>6, <1>7, <1>8 DEF Next

-----------------------------------------------------------------------------
(* What is still to be sent to a device                                    *)

\* Thread t has not sent its packet to d yet: the group of d is still to come, or
\* d is in what is left of the list the loop is in.
Awaits(t, d) ==
  /\ At(t, "send")
  /\ \/ GroupOf[d] \in thread[t].todo
     \/ /\ thread[t].group = GroupOf[d]
        /\ \E i \in DOMAIN connected_devices[GroupOf[d]] :
             i >= thread[t].idx /\ connected_devices[GroupOf[d]][i] = d

\* The device the loop of thread t has come to.
Target(t) == connected_devices[thread[t].group][thread[t].idx]

\* A step of another thread leaves what t has to send.
LEMMA AwaitsKept ==
  ASSUME NEW t \in Threads, NEW d \in Devices, Awaits(t, d), Grows, thread'[t] = thread[t]
  PROVE  Awaits(t, d)'
<1>1. GroupOf[d] \in Groups
  OBVIOUS
<1>2. CASE GroupOf[d] \in thread[t].todo
  BY <1>2 DEF Awaits, At
<1>3. CASE GroupOf[d] \notin thread[t].todo
  <2>1. PICK i \in DOMAIN connected_devices[GroupOf[d]] :
          i >= thread[t].idx /\ connected_devices[GroupOf[d]][i] = d
    BY <1>3 DEF Awaits
  <2>2. i \in DOMAIN connected_devices'[GroupOf[d]] /\ connected_devices'[GroupOf[d]][i] = d
    BY <1>1, <2>1 DEF Grows
  <2> QED BY <1>3, <2>1, <2>2 DEF Awaits, At
<1> QED BY <1>2, <1>3

\* The snapshot has every device of every group that is ready await the packet.
LEMMA AwaitsSnapshot ==
  ASSUME TypeOK, NEW t \in Threads, NEW d \in Devices, SnapshotGroups(t),
         ready_to_play(GroupOf[d])
  PROVE  Awaits(t, d)'
<1>1. RegTypes /\ GroupOf[d] \in Groups
  BY TypesSplit
<1> QED BY <1>1, SnapshotStep DEF Awaits, At

\* One delivery takes one device.
LEMMA AwaitsDeliver ==
  ASSUME TypeOK, NEW t \in Threads, NEW d \in Devices, Deliver(t), Awaits(t, d)
  PROVE  Awaits(t, d)' \/ d = Target(t)
<1>1. RegTypes /\ thread[t] \in ThreadRecord /\ connected_devices' = connected_devices
  BY TypesSplit, HandlerFrame DEF TypeOK, Handler, Send
<1>2. /\ thread'[t].pc = "send" /\ thread'[t].todo = thread[t].todo
      /\ thread'[t].group = thread[t].group /\ thread'[t].idx = thread[t].idx + 1
      /\ thread[t].idx \in Nat
  BY <1>1, DeliverStep DEF ThreadRecord
<1>3. CASE GroupOf[d] \in thread[t].todo
  BY <1>2, <1>3 DEF Awaits, At
<1>4. CASE GroupOf[d] \notin thread[t].todo
  <2>1. PICK i \in DOMAIN connected_devices[GroupOf[d]] :
          i >= thread[t].idx /\ connected_devices[GroupOf[d]][i] = d
    BY <1>4 DEF Awaits
  <2>2. i \in Nat
    BY <2>1 DEF TypeOK
  <2>3. CASE i = thread[t].idx
    BY <1>4, <2>1, <2>3 DEF Awaits, Target
  <2>4. CASE i >= thread'[t].idx
    BY <1>1, <1>2, <1>4, <2>1, <2>4 DEF Awaits, At
  <2> QED BY <1>2, <2>1, <2>2, <2>3, <2>4
<1> QED BY <1>3, <1>4

\* A loop over a group ends when it awaits nobody of it; the next starts at the
\* head of its list.
LEMMA AwaitsNextGroup ==
  ASSUME TypeOK, NEW t \in Threads, NEW d \in Devices, NextGroup(t), Awaits(t, d),
         DeviceIn(d, GroupOf[d])
  PROVE  Awaits(t, d)'
<1>1. RegTypes /\ thread[t] \in ThreadRecord /\ connected_devices' = connected_devices
      /\ connected_devices[GroupOf[d]] \in Seq(Devices)
  BY TypesSplit, HandlerFrame DEF TypeOK, Handler, Send
<1>2. /\ thread'[t].pc = "send" /\ thread'[t].group \in thread[t].todo
      /\ thread'[t].todo = thread[t].todo \ {thread'[t].group} /\ thread'[t].idx = 1
      /\ ~InGroup(t)
  BY <1>1, NextGroupStep
<1>3. CASE GroupOf[d] \in thread[t].todo
  <2>1. CASE GroupOf[d] # thread'[t].group
    BY <1>2, <1>3, <2>1 DEF Awaits, At
  <2>2. CASE GroupOf[d] = thread'[t].group
    <3>1. PICK i \in DOMAIN connected_devices[GroupOf[d]] :
            connected_devices[GroupOf[d]][i] = d
      BY DEF DeviceIn, Range
    <3>2. i >= 1
      BY <1>1, <3>1
    <3> QED BY <1>1, <1>2, <2>2, <3>1, <3>2 DEF Awaits, At
  <2> QED BY <2>1, <2>2
<1>4. CASE GroupOf[d] \notin thread[t].todo
  <2>1. PICK i \in DOMAIN connected_devices[GroupOf[d]] : i >= thread[t].idx
    BY <1>4 DEF Awaits
  <2>2. thread[t].group = GroupOf[d] /\ thread[t].idx \in Nat
    BY <1>1, <1>4 DEF Awaits, ThreadRecord
  <2>3. thread[t].idx <= Len(connected_devices[GroupOf[d]])
    BY <1>1, <2>1, <2>2
  <2> QED BY <1>2, <2>2, <2>3 DEF InGroup
<1> QED BY <1>3, <1>4

\* When all has been sent, nobody awaits anything.
LEMMA AwaitsNone ==
  ASSUME TypeOK, NEW t \in Threads, NEW d \in Devices,
         thread[t].pc # "send" \/ (~InGroup(t) /\ thread[t].todo = {})
  PROVE  ~Awaits(t, d)
<1>1. thread[t] \in ThreadRecord /\ connected_devices[GroupOf[d]] \in Seq(Devices)
  BY DEF TypeOK
<1>2. SUFFICES ASSUME Awaits(t, d) PROVE FALSE
  OBVIOUS
<1>3. ~InGroup(t) /\ thread[t].group = GroupOf[d] /\ thread[t].idx \in Nat
  BY <1>1, <1>2 DEF Awaits, At, ThreadRecord
<1>4. PICK i \in DOMAIN connected_devices[GroupOf[d]] : i >= thread[t].idx
  BY <1>2, <1>3 DEF Awaits, At
<1>5. thread[t].idx <= Len(connected_devices[GroupOf[d]])
  BY <1>1, <1>3, <1>4
<1> QED BY <1>3, <1>5 DEF InGroup

-----------------------------------------------------------------------------
(* Devices that are all there before a source or a user does anything      *)

Counted ==
  /\ toggles <= MaxToggles /\ session <= MaxSessions
  /\ stream # "off" => session > 0
  /\ thread["web"].pc # "idle" => toggles > 0
  /\ \A g \in Groups : play_enabled[g] \/ toggles > 0

AllThere ==
  ~LateJoin /\ (session > 0 \/ toggles > 0) => \A d \in Devices : DeviceIn(d, GroupOf[d])

\* A thread in a handler is at one of four places.
LEMMA HandlerBusy ==
  ASSUME NEW t \in Threads, Handler(t)
  PROVE  thread[t].pc \in {"groups", "send", "change", "set"}
BY DEF Handler, Send, StateChanged, SnapshotGroups, Deliver, NextGroup, Sent, Change,
   ChangeIf, SetState, At

\* The counts and what they bound go together in every step.
LEMMA CountedNext ==
  ASSUME NoDrops, TypeOK, Links, Counted, [Next]_vars
  PROVE  Counted'
<1>1. /\ toggles \in Nat /\ session \in Nat /\ MaxToggles \in Nat /\ MaxSessions \in Nat
      /\ play_enabled \in [Groups -> BOOLEAN] /\ "web" \in Threads
  BY BoundAssumption DEF TypeOK, Threads
<1>2. ASSUME UNCHANGED <<toggles, session, play_enabled, stream>>,
             thread'["web"].pc = "idle" \/ thread["web"].pc # "idle"
      PROVE  Counted'
  BY <1>2 DEF Counted
<1>3. ASSUME NEW t \in Threads, Handler(t) PROVE Counted'
  <2>1. thread'["web"].pc = "idle" \/ thread["web"].pc # "idle"
    BY <1>1, <1>3, HandlerBusy, HandlerPlace DEF Only
  <2> QED BY <1>2, <1>3, <2>1, HandlerFrame
<1>4. CASE ServerRun \/ AudioSteps
  <2>1. UNCHANGED <<toggles, play_enabled>> /\ thread'["web"] = thread["web"]
    BY <1>1, <1>4, ServerFrame DEF Only
  <2>2. session' <= MaxSessions /\ (stream' # "off" => session' > 0)
    BY <1>1, <1>4 DEF Counted, ServerRun, AudioSteps, SetCodec, SetSamplerate, SetStop,
       NewAudio, AudioStarts, AudioChanges, history
  <2> QED BY <2>1, <2>2 DEF Counted
<1>5. ASSUME NEW g \in Groups, SetParam(g) PROVE Counted'
  <2>1. toggles' = toggles + 1 /\ toggles < MaxToggles /\ UNCHANGED <<session, stream>>
    BY <1>5 DEF SetParam, SetParamSending
  <2> QED BY <1>1, <2>1 DEF Counted
<1>6. ASSUME NEW d \in Devices, Accept(d) \/ DeviceHandles(d) PROVE Counted'
  <2>1. UNCHANGED <<toggles, session, play_enabled, stream>> /\ thread'["web"] = thread["web"]
    BY <1>1, <1>6, DeviceFrame DEF Only
  <2> QED BY <1>2, <2>1
<1>7. ~\E d \in Devices : Drop(d)
  BY DEF NoDrops, Drop, TypeOK
<1>8. CASE UNCHANGED vars
  BY <1>2, <1>8 DEF vars, server, registry, history
<1> QED BY <1>3, <1>4, <1>5, <1>6, <1>7, <1>8 DEF Next

\* Once a source or a user has acted, all devices have joined and stay.
LEMMA AllThereNext ==
  ASSUME NoDrops, TypeOK, Links, AllThere, [Next]_vars
  PROVE  AllThere'
<1>1. \A d \in Devices : DeviceIn(d, GroupOf[d]) => DeviceIn(d, GroupOf[d])'
  BY GrowsNext
<1>2. CASE UNCHANGED <<session, toggles>>
  BY <1>1, <1>2 DEF AllThere
<1>3. CASE SetCodec \/ \E g \in Groups : SetParam(g)
  BY <1>1, <1>3 DEF AllThere, SetCodec, SetParam, SetParamSending, Settled
<1>4. CASE ~(SetCodec \/ \E g \in Groups : SetParam(g))
  <2>1. ~\E d \in Devices : Drop(d)
    BY DEF NoDrops, Drop, TypeOK
  <2>2. UNCHANGED <<session, toggles>>
    BY <1>4, <2>1, HandlerFrame, DeviceFrame
       DEF Next, ServerRun, AudioSteps, SetSamplerate, SetStop, NewAudio, AudioStarts,
           AudioChanges, vars, history
  <2> QED BY <1>2, <2>2
<1> QED BY <1>3, <1>4

\* What holds while no connection is lost.
Steady == TypeOK /\ RegInv /\ Roles /\ Links /\ Counted /\ AllThere

\* It holds at the start.
LEMMA SteadyInit == Init => Steady
<1> SUFFICES ASSUME Init PROVE Steady
  OBVIOUS
<1>1. \A t \in Threads : thread[t].pc = "idle"
  BY FreshFields DEF Init
<1>2. \A d \in Devices : client[d].pipe = None /\ client[d].time = None
  BY DEF Init, Offline
<1>3. <<>> \in Seq({"buffered"})
  OBVIOUS
<1>4. Links
  BY <1>1, <1>2, <1>3 DEF Init, Links, Range, Threads
<1>5. Counted
  BY <1>1, BoundAssumption DEF Init, Counted, Threads
<1>6. AllThere
  BY DEF Init, AllThere
<1> QED BY <1>4, <1>5, <1>6, TypesInit, RegInit, RolesInit DEF Steady

\* No step that loses no connection breaks it.
LEMMA SteadyNext == NoDrops /\ Steady /\ [Next]_vars => Steady'
<1> SUFFICES ASSUME NoDrops, Steady, [Next]_vars PROVE Steady'
  OBVIOUS
<1>1. RegInv' /\ Roles'
  BY RegNext, RolesNext DEF Steady
<1>2. TypeOK'
  BY <1>1, TypesNext DEF Steady
<1>3. Links' /\ Counted' /\ AllThere'
  BY LinksNext, CountedNext, AllThereNext DEF Steady
<1> QED BY <1>1, <1>2, <1>3 DEF Steady

\* While no connection is lost: threads keep to their roles, what is served is
\* reachable, what plays is registered, and nobody leaves a list.
THEOREM SteadyHolds == NoDrops => (Spec => []Steady)
<1> SUFFICES ASSUME NoDrops PROVE Spec => []Steady
  OBVIOUS
<1>1. Steady /\ [Next]_vars => Steady'
  BY SteadyNext
<1> QED BY <1>1, SteadyInit, PTL DEF Spec

\* A delivery, in terms of the device the loop has come to.
LEMMA DeliverTo ==
  ASSUME Steady, NEW t \in Threads, Deliver(t)
  PROVE  LET d == Target(t)
             r == thread[t]
         IN  /\ d \in Devices /\ r.group = GroupOf[d] /\ DeviceIn(d, GroupOf[d])
             /\ client[d] \in ClientRecord /\ r.packet \in Packets /\ r.time \in Nat
             /\ session \in Nat
             /\ client'[d] = React(client[d], r.packet, session, r.time)
             /\ up'[d] = IF EmitsBuffered(client[d], r.packet)
                         THEN Append(up[d], "buffered") ELSE up[d]
             /\ \A e \in Devices \ {d} : client'[e] = client[e] /\ up'[e] = up[e]
<1>1. TypeOK /\ RegInv /\ Links /\ thread[t] \in ThreadRecord
  BY DEF Steady, TypeOK
<1>2. thread[t].packet \in Packets /\ thread[t].time \in Nat /\ session \in Nat
  BY <1>1 DEF ThreadRecord, TypeOK
<1>3. PICK d \in Devices :
        LET r == thread[t]
        IN  /\ r.group = GroupOf[d] /\ DeviceIn(d, GroupOf[d])
            /\ d = connected_devices[r.group][r.idx]
            /\ client[d] \in ClientRecord
            /\ \A e \in Devices \ {d} : client'[e] = client[e] /\ up'[e] = up[e]
            /\ client'[d] = React(client[d], r.packet, session, r.time)
            /\ up'[d] = IF EmitsBuffered(client[d], r.packet)
                        THEN Append(up[d], "buffered") ELSE up[d]
  BY <1>1, Reaches
<1>4. Target(t) = d
  BY <1>3 DEF Target
<1> QED BY <1>2, <1>3, <1>4

\* Who has been sent a packet by a step that is not a delivery: nobody.
LEMMA NothingSent ==
  ASSUME NoDrops, Steady, [Next]_vars, ~\E t \in Threads : Deliver(t)
  PROVE  /\ \A d \in Devices : /\ client'[d].codec = client[d].codec
                               /\ client'[d].pipe = client[d].pipe
                               /\ client'[d].time = client[d].time
                               /\ client'[d].amp = client[d].amp
         /\ ~(\E d \in Devices : Accept(d)) => client' = client
<1>1. TypeOK /\ Links
  BY DEF Steady
<1>2. CASE \E d \in Devices : Accept(d)
  BY <1>1, <1>2, Accepted
<1>3. CASE ~\E d \in Devices : Accept(d)
  <2>1. ~\E d \in Devices : Drop(d)
    BY <1>1 DEF NoDrops, Drop, TypeOK
  <2>2. client' = client
    BY <1>1, <1>3, <2>1, HandlerFrame, ServerFrame, WebFrame, DeviceFrame DEF Next, vars
  <2> QED BY <2>2
<1> QED BY <1>2, <1>3

-----------------------------------------------------------------------------
(* Every device hears the codec                                            *)

Stationary == ~LateJoin /\ NoDrops
NoToggles == MaxToggles = 0

\* The codec of the session is with every device, or on its way to it.
CodecComes(d) ==
  \/ client[d].codec = session
  \/ /\ thread["server"].packet = "setcodec"
     /\ At("server", "groups") \/ Awaits("server", d)

CodecInv == stream # "off" => \A d \in Devices : CodecComes(d)

\* A packet names the codec of the session or leaves what a client has heard.
LEMMA CodecHeard ==
  ASSUME Steady, NEW t \in Threads, Deliver(t)
  PROVE  /\ thread[t].packet = "setcodec" => client'[Target(t)].codec = session
         /\ \A d \in Devices : client'[d].codec \in {client[d].codec, session}
         /\ \A d \in Devices : d # Target(t) => client'[d].codec = client[d].codec
<1> DEFINE d == Target(t)
           k == React(client[d], thread[t].packet, session, thread[t].time)
<1>1. /\ d \in Devices /\ client[d] \in ClientRecord /\ thread[t].packet \in Packets
      /\ thread[t].time \in Nat /\ session \in Nat /\ client'[d] = k
      /\ \A e \in Devices \ {d} : client'[e] = client[e]
  BY DeliverTo
<1> HIDE DEF d
<1>2. /\ thread[t].packet = "setcodec" => k.codec = session
      /\ thread[t].packet # "setcodec" => k.codec = client[d].codec
  <2>1. ASSUME NEW c \in ClientRecord, NEW p \in Packets, NEW codec \in Nat, NEW time \in Nat
        PROVE  /\ p = "setcodec" => React(c, p, codec, time).codec = codec
               /\ p # "setcodec" => React(c, p, codec, time).codec = c.codec
    BY ReactFields
  <2> QED BY <1>1, <2>1
<1> QED BY <1>1, <1>2 DEF d

\* With every group ready, the server's thread has every device await its packet.
LEMMA AllReady ==
  ASSUME Stationary, NoToggles, Steady, session > 0, NEW d \in Devices
  PROVE  DeviceIn(d, GroupOf[d]) /\ ready_to_play(GroupOf[d])
<1>1. DeviceIn(d, GroupOf[d])
  BY DEF Stationary, Steady, AllThere
<1>2. play_enabled[GroupOf[d]]
  BY DEF NoToggles, Steady, Counted, TypeOK
<1>3. connected_devices[GroupOf[d]] # <<>>
  BY <1>1 DEF DeviceIn, Range
<1> QED BY <1>1, <1>2, <1>3 DEF ready_to_play

\* No step takes the codec from the one who awaits it without handing it over.
LEMMA CodecNext ==
  ASSUME Stationary, NoToggles, Steady, CodecInv, [Next]_vars
  PROVE  CodecInv'
<1>1. /\ NoDrops /\ TypeOK /\ RegTypes /\ Links /\ Grows /\ "server" \in Threads
  BY TypesSplit, GrowsNext DEF Stationary, Steady, Threads
<1>2. SUFFICES ASSUME stream' # "off", NEW d \in Devices PROVE CodecComes(d)'
  BY DEF CodecInv
<1>3. CASE \E t \in Threads : Handler(t)
  <2>1. PICK t \in Threads : Handler(t)
    BY <1>3
  <2>2. UNCHANGED <<stream, session>> /\ session > 0 /\ CodecComes(d)
    BY <1>2, <2>1, HandlerFrame DEF Steady, Counted, CodecInv
  <2>3. CASE client'[d].codec = session
    BY <2>2, <2>3 DEF CodecComes
  <2>4. CASE client'[d].codec # session
    <3>1. client[d].codec # session
      BY <1>1, <2>1, <2>4, CodecHeard, HandlerFrame
    <3>2. thread["server"].packet = "setcodec"
          /\ (At("server", "groups") \/ Awaits("server", d))
      BY <2>2, <3>1 DEF CodecComes
    <3>3. CASE t # "server"
      <4>1. thread'["server"] = thread["server"]
        BY <1>1, <2>1, <3>3, HandlerPlace DEF Only
      <4>2. Awaits("server", d) => Awaits("server", d)'
        BY <1>1, <4>1, AwaitsKept
      <4> QED BY <3>2, <4>1, <4>2 DEF CodecComes, At
    <3>4. CASE t = "server"
      <4>1. CASE SnapshotGroups(t)
        <5>1. Awaits(t, d)' /\ thread'[t].packet = "setcodec"
          BY <1>1, <2>2, <3>2, <3>4, <4>1, AllReady, AwaitsSnapshot, SnapshotStep
        <5> QED BY <3>4, <5>1 DEF CodecComes
      <4>2. CASE Deliver(t)
        <5>1. Awaits(t, d) /\ thread'[t].packet = "setcodec"
          BY <1>1, <3>2, <3>4, <4>2, DeliverStep DEF At
        <5>2. d # Target(t)
          BY <2>4, <3>2, <3>4, <4>2, CodecHeard
        <5>3. Awaits(t, d)'
          BY <1>1, <4>2, <5>1, <5>2, AwaitsDeliver
        <5> QED BY <3>4, <5>1, <5>3 DEF CodecComes
      <4>3. CASE NextGroup(t)
        <5>1. Awaits(t, d) /\ thread'[t].packet = "setcodec"
          BY <1>1, <3>2, <3>4, <4>3, NextGroupStep DEF At
        <5>2. Awaits(t, d)'
          BY <1>1, <2>2, <4>3, <5>1, AllReady, AwaitsNextGroup
        <5> QED BY <3>4, <5>1, <5>2 DEF CodecComes
      <4>4. CASE Sent(t) \/ Change(t) \/ SetState(t)
        <5>1. thread[t].pc # "groups" /\ ~Awaits(t, d)
          BY <1>1, <4>4, AwaitsNone DEF Sent, Change, ChangeIf, SetState, At
        <5> QED BY <3>2, <3>4, <5>1 DEF At
      <4> QED BY <2>1, <4>1, <4>2, <4>3, <4>4 DEF Handler, Send, StateChanged
    <3> QED BY <3>3, <3>4
  <2> QED BY <2>3, <2>4
<1>4. CASE ServerRun \/ AudioSteps
  <2>1. client' = client
    BY <1>1, <1>4, ServerFrame
  <2>2. CASE SetCodec
    <3>1. thread'["server"] = ToAll("setcodec")
      BY <1>1, <2>2, Moves DEF SetCodec, Polled
    <3> QED BY <3>1, FreshFields DEF CodecComes, At, Packets
  <2>3. CASE ~SetCodec
    <3>1. session' = session /\ stream # "off" /\ thread["server"].pc \notin {"groups", "send"}
      BY <1>2, <1>4, <2>3 DEF ServerRun, AudioSteps, SetSamplerate, SetStop, NewAudio,
         AudioStarts, AudioChanges, At, history
    <3>2. client[d].codec = session
      BY <3>1 DEF CodecInv, CodecComes, Awaits, At
    <3> QED BY <2>1, <3>1, <3>2 DEF CodecComes
  <2> QED BY <2>2, <2>3
<1>5. CASE ~((\E t \in Threads : Handler(t)) \/ ServerRun \/ AudioSteps)
  <2>1. client'[d].codec = client[d].codec
    BY <1>1, <1>5, NothingSent DEF Handler, Send
  <2>2. UNCHANGED <<stream, session>> /\ thread'["server"] = thread["server"]
    <3>1. ASSUME NEW g \in Groups, SetParam(g)
          PROVE  UNCHANGED <<stream, session>> /\ thread'["server"] = thread["server"]
      BY <1>1, <3>1, WebFrame DEF Only
    <3>2. ASSUME NEW e \in Devices, Accept(e) \/ DeviceHandles(e)
          PROVE  UNCHANGED <<stream, session>> /\ thread'["server"] = thread["server"]
      BY <1>1, <3>2, DeviceFrame DEF Only
    <3>3. ~\E e \in Devices : Drop(e)
      BY <1>1 DEF NoDrops, Drop, TypeOK
    <3> QED BY <1>5, <3>1, <3>2, <3>3 DEF Next, vars, history
  <2>3. CodecComes(d)
    BY <1>2, <2>2 DEF CodecInv
  <2>4. Awaits("server", d) => Awaits("server", d)'
    BY <1>1, <2>2, AwaitsKept
  <2> QED BY <2>1, <2>2, <2>3, <2>4 DEF CodecComes, At
<1> QED BY <1>3, <1>4, <1>5

\* With the devices there from the start and no group disabled, every client has
\* heard the codec of the session once all has been said, whatever interleaving the
\* threads of the server find, for any groups, devices and sessions.
THEOREM CodecReaches == Stationary /\ NoToggles => (Spec => []AllHearTheCodec)
<1> SUFFICES ASSUME Stationary, NoToggles PROVE Spec => []AllHearTheCodec
  OBVIOUS
<1>1. NoDrops
  BY DEF Stationary
<1>2. Spec => []Steady
  BY <1>1, SteadyHolds
<1>3. Init => CodecInv
  BY DEF Init, CodecInv
<1>4. Steady /\ CodecInv /\ [Next]_vars => CodecInv'
  BY CodecNext
<1>5. Steady /\ CodecInv => AllHearTheCodec
  <2> SUFFICES ASSUME Steady, CodecInv, Quiet, stream # "off", NEW d \in Devices
               PROVE  client[d].codec = session
    BY DEF AllHearTheCodec
  <2>1. thread["server"].pc = "idle"
    BY DEF Quiet, Threads
  <2> QED BY <2>1 DEF CodecInv, CodecComes, Awaits, At
<1> QED BY <1>2, <1>3, <1>4, <1>5, PTL DEF Spec

-----------------------------------------------------------------------------
(* The configuration reaches the clients                                   *)

\* The websocket's thread sends what the group's parameter is.
WebSends ==
  LET s == thread["web"]
  IN  s.pc = "send" => (s.packet = "enable" <=> play_enabled[s.group])

\* A client has its group's parameter, or the websocket's thread is about to send it.
ParamComes(d) ==
  \/ client[d].param = play_enabled[GroupOf[d]]
  \/ Awaits("web", d)
  \/ /\ At("web", "send") /\ thread["web"].packet = "stopping"
     /\ thread["web"].group = GroupOf[d]

ParamInv ==
  /\ WebSends
  /\ \A d \in Devices : connected[d] => ParamComes(d)

\* Only the parameter's own packets change it, and they bring it up to date.
LEMMA ParamHeard ==
  ASSUME Steady, WebSends, NEW t \in Threads, Deliver(t), NEW d \in Devices
  PROVE  /\ client'[d].param = client[d].param
              \/ client'[d].param = play_enabled[GroupOf[d]]
         /\ t = "web" /\ d = Target(t) /\ thread[t].packet # "stopping" =>
              client'[d].param = play_enabled[GroupOf[d]]
<1> DEFINE e == Target(t)
           k == React(client[e], thread[t].packet, session, thread[t].time)
<1>1. /\ e \in Devices /\ client[e] \in ClientRecord /\ thread[t].packet \in Packets
      /\ thread[t].time \in Nat /\ session \in Nat /\ client'[e] = k
      /\ thread[t].group = GroupOf[e]
      /\ \A u \in Devices \ {e} : client'[u] = client[u]
  BY DeliverTo
<1> HIDE DEF e, k
<1>2. thread[t].packet \notin {"enable", "disable"} => k.param = client[e].param
  <2>1. ASSUME NEW c \in ClientRecord, NEW p \in Packets, NEW codec \in Nat, NEW time \in Nat,
               p \notin {"enable", "disable"}
        PROVE  React(c, p, codec, time).param = c.param
    BY <2>1, ReactFields
  <2> QED BY <1>1, <2>1 DEF k
<1>3. GroupOf[e] \in Groups /\ play_enabled[GroupOf[e]] \in BOOLEAN
  BY <1>1 DEF Steady, TypeOK
<1>4. thread[t].pc = "send" /\ RoleOf(t)
  BY DEF Deliver, At, Steady, Roles, RoleOf
<1>5. ASSUME thread[t].packet \in {"enable", "disable"}
      PROVE  k.param = play_enabled[GroupOf[e]]
  <2>1. t = "web"
    BY <1>4, <1>5 DEF RoleOf, ServerRole, DeviceRole, Sends, Threads
  <2>2. thread[t].packet = "enable" <=> play_enabled[GroupOf[e]]
    BY <1>1, <1>4, <2>1 DEF WebSends
  <2>3. CASE thread[t].packet = "enable"
    BY <1>1, <1>3, <2>2, <2>3, ReactParam DEF k
  <2>4. CASE thread[t].packet = "disable"
    BY <1>1, <1>3, <2>2, <2>4, ReactParam DEF k
  <2> QED BY <1>5, <2>3, <2>4
<1>6. t = "web" /\ thread[t].packet # "stopping" => thread[t].packet \in {"enable", "disable"}
  BY <1>4 DEF RoleOf, WebRole
<1> QED BY <1>1, <1>2, <1>5, <1>6 DEF e

\* What a handler of the websocket's thread can be.
LEMMA WebHandler ==
  ASSUME Steady, Handler("web")
  PROVE  Deliver("web") \/ Sent("web")
<1>1. thread["web"].pc \in {"groups", "send", "change", "set"} /\ WebRole
  BY HandlerBusy DEF Steady, Roles, Threads
<1>2. thread["web"].pc = "send" /\ thread["web"].todo = {}
  BY <1>1 DEF WebRole
<1> QED BY <1>2 DEF Handler, Send, StateChanged, SnapshotGroups, NextGroup, Change,
        ChangeIf, SetState, At

\* No step of a handler takes the parameter from the client that awaits it.
LEMMA ParamHandler ==
  ASSUME Stationary, Steady, ParamInv, NEW t \in Threads, Handler(t)
  PROVE  ParamInv'
<1>1. /\ NoDrops /\ TypeOK /\ RegTypes /\ "web" \in Threads
  BY TypesSplit DEF Stationary, Steady, Threads
<1>2. UNCHANGED <<connected_devices, connected, play_enabled>> /\ Only(t)
  BY <1>1, HandlerFrame, HandlerPlace
<1>3. Grows
  BY <1>2 DEF Grows
<1>4. \A d \in Devices : client'[d].param = client[d].param
                         \/ client'[d].param = play_enabled[GroupOf[d]]
  BY ParamHeard, HandlerFrame DEF ParamInv
<1>5. CASE t # "web"
  <2>1. thread'["web"] = thread["web"]
    BY <1>1, <1>2, <1>5 DEF Only
  <2>2. \A d \in Devices : Awaits("web", d) => Awaits("web", d)'
    BY <1>1, <1>3, <2>1, AwaitsKept
  <2>3. WebSends'
    BY <1>2, <2>1 DEF ParamInv, WebSends
  <2>4. \A d \in Devices : ParamComes(d) => ParamComes(d)'
    BY <1>2, <1>4, <2>1, <2>2 DEF ParamComes, At
  <2> QED BY <1>2, <2>3, <2>4 DEF ParamInv
<1>6. CASE t = "web" /\ Deliver(t)
  <2>1. /\ thread["web"].pc = "send" /\ thread'["web"].pc = "send"
        /\ thread'["web"].packet = thread["web"].packet
        /\ thread'["web"].group = thread["web"].group
    BY <1>1, <1>6, DeliverStep
  <2>2. WebSends'
    BY <1>2, <2>1 DEF ParamInv, WebSends
  <2>3. ASSUME NEW d \in Devices, ParamComes(d) PROVE ParamComes(d)'
    <3>1. CASE client[d].param = play_enabled[GroupOf[d]]
      BY <1>2, <1>4, <3>1 DEF ParamComes
    <3>2. CASE At("web", "send") /\ thread["web"].packet = "stopping"
               /\ thread["web"].group = GroupOf[d]
      BY <2>1, <3>2 DEF ParamComes, At
    <3>3. CASE Awaits("web", d) /\ d # Target("web")
      BY <1>1, <1>6, <3>3, AwaitsDeliver DEF ParamComes
    <3>4. CASE Awaits("web", d) /\ d = Target("web")
      <4>1. CASE thread["web"].packet # "stopping"
        BY <1>1, <1>2, <1>6, <3>4, <4>1, ParamHeard DEF ParamComes, ParamInv
      <4>2. CASE thread["web"].packet = "stopping"
        <5>1. thread["web"].group = GroupOf[d]
          BY <1>6, <3>4, DeliverTo
        <5> QED BY <2>1, <4>2, <5>1 DEF ParamComes, At
      <4> QED BY <4>1, <4>2
    <3> QED BY <2>3, <3>1, <3>2, <3>3, <3>4 DEF ParamComes
  <2> QED BY <1>2, <2>2, <2>3 DEF ParamInv
<1>7. CASE t = "web" /\ Sent(t)
  <2>1. /\ thread["web"].pc = "send" /\ ~InGroup("web") /\ thread["web"].todo = {}
        /\ Continue("web") /\ client' = client /\ WebRole
    BY <1>7 DEF Sent, At, Steady, Roles
  <2>2. \A d \in Devices : ~Awaits("web", d)
    BY <1>1, <2>1, AwaitsNone
  <2>3. CASE thread["web"].next = "nothing"
    <3>1. thread'["web"].pc = "idle" /\ thread["web"].packet # "stopping"
      BY <1>1, <2>1, <2>3, ContinueStep, FreshFields DEF WebRole
    <3>2. \A d \in Devices : ParamComes(d) => ParamComes(d)'
      BY <1>2, <2>1, <2>2, <3>1 DEF ParamComes
    <3> QED BY <1>2, <3>1, <3>2 DEF ParamInv, WebSends
  <2>4. CASE thread["web"].next = "disable"
    <3>1. /\ thread["web"].packet = "stopping" /\ thread'["web"].packet = "disable"
          /\ thread'["web"].pc = "send" /\ thread'["web"].group = thread["web"].group
          /\ thread'["web"].idx = 1
      BY <1>1, <2>1, <2>4, ContinueStep DEF WebRole
    <3>2. WebSends'
      BY <1>2, <2>1, <3>1 DEF ParamInv, WebSends
    <3>3. \A d \in Devices : DeviceIn(d, GroupOf[d])
      BY <2>1 DEF Stationary, Steady, AllThere, Counted
    <3>4. ASSUME NEW d \in Devices, ParamComes(d) PROVE ParamComes(d)'
      <4>1. CASE client[d].param = play_enabled[GroupOf[d]]
        BY <1>2, <2>1, <4>1 DEF ParamComes
      <4>2. CASE thread["web"].group = GroupOf[d]
        <5>1. PICK i \in DOMAIN connected_devices[GroupOf[d]] :
                connected_devices[GroupOf[d]][i] = d
          BY <3>3 DEF DeviceIn, Range
        <5>2. i >= 1
          BY <1>1, <5>1 DEF TypeOK
        <5>3. Awaits("web", d)'
          BY <1>2, <3>1, <4>2, <5>1, <5>2 DEF Awaits, At
        <5> QED BY <5>3 DEF ParamComes
      <4> QED BY <2>2, <3>4, <4>1, <4>2 DEF ParamComes
    <3> QED BY <1>2, <3>2, <3>4 DEF ParamInv
  <2> QED BY <2>1, <2>3, <2>4 DEF WebRole
<1> QED BY <1>5, <1>6, <1>7, WebHandler

\* The user changes the parameter only when the last change is through.
LEMMA ParamSet ==
  ASSUME Stationary, Steady, ParamInv, NEW g \in Groups, SetParam(g)
  PROVE  ParamInv'
<1> DEFINE off == [ToGroup(g, "stopping") EXCEPT !.next = "disable"]
           here == IF play_enabled[g] THEN off ELSE ToGroup(g, "enable")
<1>1. /\ NoDrops /\ TypeOK /\ RegTypes /\ "web" \in Threads
  BY TypesSplit DEF Stationary, Steady, Threads
<1>2. /\ off.pc = "send" /\ off.todo = {} /\ off.group = g /\ off.packet = "stopping"
      /\ off.idx = 1
  BY DEF ToGroup, Idle
<1>3. /\ thread["web"].pc = "idle" /\ Continues("web", here) /\ Settled
      /\ play_enabled' = [play_enabled EXCEPT ![g] = ~@]
  BY DEF SetParam, SetParamSending, At
<1>4. /\ here.pc = "send" /\ here.group = g /\ here.idx = 1
      /\ here.packet = IF play_enabled[g] THEN "stopping" ELSE "enable"
  <2>1. "enable" \in Packets
    BY DEF Packets
  <2> HIDE DEF off
  <2> QED BY <1>2, <2>1, FreshFields
<1> HIDE DEF here
<1>5. thread'["web"] = here
  BY <1>1, <1>3, Moves
<1>6. UNCHANGED <<connected, connected_devices, client>>
  BY <1>1, WebFrame
<1>7. /\ play_enabled \in [Groups -> BOOLEAN]
      /\ play_enabled'[g] <=> ~play_enabled[g]
      /\ \A h \in Groups \ {g} : play_enabled'[h] = play_enabled[h]
  BY <1>1, <1>3 DEF TypeOK
<1>8. WebSends'
  BY <1>4, <1>5, <1>7 DEF WebSends
<1>9. ASSUME NEW d \in Devices, connected[d] PROVE ParamComes(d)'
  <2>1. client[d].param = play_enabled[GroupOf[d]]
    BY <1>3, <1>9 DEF ParamInv, ParamComes, Awaits, At
  <2>2. CASE GroupOf[d] # g
    BY <1>6, <1>7, <2>1, <2>2 DEF ParamComes
  <2>3. CASE GroupOf[d] = g
    <3>1. PICK i \in DOMAIN connected_devices[GroupOf[d]] :
            connected_devices[GroupOf[d]][i] = d
      BY <1>3 DEF Settled, Stationary, DeviceIn, Range
    <3>2. i >= 1
      BY <1>1, <3>1 DEF TypeOK
    <3>3. Awaits("web", d)'
      BY <1>4, <1>5, <1>6, <2>3, <3>1, <3>2 DEF Awaits, At
    <3> QED BY <3>3 DEF ParamComes
  <2> QED BY <2>2, <2>3
<1> QED BY <1>6, <1>8, <1>9 DEF ParamInv

\* No step leaves a client with an old parameter and nothing on its way.
LEMMA ParamNext ==
  ASSUME Stationary, Steady, ParamInv, [Next]_vars
  PROVE  ParamInv'
<1>1. /\ NoDrops /\ TypeOK /\ Links /\ Grows /\ "web" \in Threads
  BY GrowsNext DEF Stationary, Steady, Threads
<1>2. ASSUME UNCHANGED <<play_enabled, client, connected>>, thread'["web"] = thread["web"]
      PROVE  ParamInv'
  <2>1. \A d \in Devices : Awaits("web", d) => Awaits("web", d)'
    BY <1>1, <1>2, AwaitsKept
  <2> QED BY <1>2, <2>1 DEF ParamInv, WebSends, ParamComes, At
<1>3. CASE ServerRun \/ AudioSteps
  BY <1>1, <1>2, <1>3, ServerFrame DEF Only
<1>4. ASSUME NEW d \in Devices, Accept(d) \/ DeviceHandles(d) PROVE ParamInv'
  <2>1. UNCHANGED play_enabled /\ thread'["web"] = thread["web"]
    BY <1>1, <1>4, DeviceFrame DEF Only
  <2>2. CASE ~Accept(d)
    BY <1>1, <1>2, <1>4, <2>1, <2>2, DeviceFrame
  <2>3. CASE Accept(d)
    <3>1. \A e \in Devices : Awaits("web", e) => Awaits("web", e)'
      BY <1>1, <2>1, AwaitsKept
    <3>2. /\ connected' = [connected EXCEPT ![d] = TRUE] /\ connected \in [Devices -> BOOLEAN]
          /\ client'[d].param = play_enabled[GroupOf[d]]
          /\ \A e \in Devices \ {d} : client'[e] = client[e]
      BY <1>1, <2>3, Accepted DEF TypeOK
    <3>3. ASSUME NEW e \in Devices, connected'[e] PROVE ParamComes(e)'
      <4>1. CASE e = d
        BY <2>1, <3>2, <4>1 DEF ParamComes
      <4>2. CASE e # d
        BY <2>1, <3>1, <3>2, <3>3, <4>2 DEF ParamInv, ParamComes, At
      <4> QED BY <4>1, <4>2
    <3> QED BY <2>1, <3>3 DEF ParamInv, WebSends
  <2> QED BY <2>2, <2>3
<1>5. ~\E d \in Devices : Drop(d)
  BY <1>1 DEF NoDrops, Drop, TypeOK
<1>6. CASE UNCHANGED vars
  BY <1>2, <1>6 DEF vars, server, registry
<1> QED BY <1>3, <1>4, <1>5, <1>6, ParamHandler, ParamSet DEF Next

\* With the devices there from the start, every client has the `playing' parameter
\* of its group once all has been said: set_param sends it after the stop, and
\* slot_connected before the device is registered.
THEOREM ParamReaches == Stationary => (Spec => []ConfigurationReaches)
<1> SUFFICES ASSUME Stationary PROVE Spec => []ConfigurationReaches
  OBVIOUS
<1>1. Spec => []Steady
  BY SteadyHolds DEF Stationary
<1>2. Init => ParamInv
  <2> SUFFICES ASSUME Init PROVE ParamInv
    OBVIOUS
  <2>1. thread["web"].pc = "idle"
    BY FreshFields DEF Init, Threads
  <2> QED BY <2>1 DEF Init, ParamInv, WebSends
<1>3. Steady /\ ParamInv /\ [Next]_vars => ParamInv'
  BY ParamNext
<1>4. Steady /\ ParamInv => ConfigurationReaches
  <2> SUFFICES ASSUME Steady, ParamInv, Quiet, NEW d \in Devices, connected[d]
               PROVE  client[d].param = play_enabled[GroupOf[d]]
    BY DEF ConfigurationReaches
  <2>1. thread["web"].pc = "idle"
    BY DEF Quiet, Threads
  <2> QED BY <2>1 DEF ParamInv, ParamComes, Awaits, At
<1> QED BY <1>1, <1>2, <1>3, <1>4, PTL DEF Spec

-----------------------------------------------------------------------------
(* One play time for the loudspeakers of a group                           *)

SingleGroup == \A g, h \in Groups : g = h

\* A loudspeaker plays from the last play time picked, or is about to be told to.
TimeComes(d) ==
  \/ client[d].time = play_times
  \/ \E e \in Devices : Awaits(e, d)

TimeInv ==
  /\ \A e \in Devices : At(e, "send") => thread[e].time = play_times
  /\ \A d \in Devices : Sounding(d) => TimeComes(d)

\* A packet gives the play time of the thread that sends it, or none, or leaves it.
LEMMA TimeHeard ==
  ASSUME Steady, NEW t \in Threads, Deliver(t), NEW d \in Devices
  PROVE  /\ client'[d].time \in {client[d].time, None, thread[t].time}
         /\ thread[t].packet # "playing" => client'[d].time \in {client[d].time, None}
         /\ d # Target(t) => client'[d].time = client[d].time
         /\ d = Target(t) /\ thread[t].packet = "playing" =>
              client'[d].time \in {None, thread[t].time}
<1> DEFINE e == Target(t)
           k == React(client[e], thread[t].packet, session, thread[t].time)
<1>1. /\ e \in Devices /\ client[e] \in ClientRecord /\ thread[t].packet \in Packets
      /\ thread[t].time \in Nat /\ session \in Nat /\ client'[e] = k
      /\ \A u \in Devices \ {e} : client'[u] = client[u]
  BY DeliverTo
<1>2. client[e].pipe = None => client[e].time = None
  BY <1>1 DEF Steady, Links
<1> HIDE DEF e, k
<1>3. /\ thread[t].packet = "playing" =>
           k.time = IF client[e].pipe = None THEN client[e].time ELSE thread[t].time
      /\ thread[t].packet # "playing" => k.time \in {client[e].time, None}
  <2>1. ASSUME NEW c \in ClientRecord, NEW p \in Packets, NEW codec \in Nat, NEW time \in Nat
        PROVE  /\ p = "playing" =>
                    React(c, p, codec, time).time = IF c.pipe = None THEN c.time ELSE time
               /\ p # "playing" => React(c, p, codec, time).time \in {c.time, None}
    <3> DEFINE q == React(c, p, codec, time)
    <3>1. /\ p = "setsamplerate" => q.time = None
          /\ p = "audio" => q.time = IF c.pipe = None THEN None ELSE c.time
          /\ p \in {"stopping", "disable"} => q.time = None
          /\ p = "playing" => q.time = IF c.pipe = None THEN c.time ELSE time
          /\ p \in {"setcodec", "buffering", "enable"} => q.time = c.time
      BY ReactFields
    <3> HIDE DEF q
    <3>2. /\ p = "playing" => q.time = IF c.pipe = None THEN c.time ELSE time
          /\ p # "playing" => q.time \in {c.time, None}
      BY <3>1 DEF Packets
    <3> QED BY <3>2 DEF q
  <2> QED BY <1>1, <2>1 DEF k
<1> QED BY <1>1, <1>2, <1>3 DEF e

\* With one group, the thread that sends `playing' is the only one.
LEMMA OneSender ==
  ASSUME SingleGroup, Steady, NEW d \in Devices, NEW e \in Devices,
         thread[d].pc \in Locked, thread[e].pc \in Locked
  PROVE  d = e
<1>1. group_lock[GroupOf[d]] = d /\ group_lock[GroupOf[e]] = e
  BY DEF Steady, Roles, HoldsLock
<1>2. GroupOf[d] = GroupOf[e]
  BY DEF SingleGroup
<1> QED BY <1>1, <1>2

\* A step that sends nobody anything and picks no time.
LEMMA TimeFrame ==
  ASSUME NoDrops, Steady, TimeInv, Grows, UNCHANGED play_times,
         \A d \in Devices : client'[d].time = client[d].time,
         \A e \in Devices : thread'[e] = thread[e] \/ thread[e].pc # "send",
         \A e \in Devices : thread'[e] = thread[e] \/ thread'[e].pc # "send"
  PROVE  TimeInv'
<1>1. \A e \in Devices : At(e, "send")' => thread'[e].time = play_times'
  BY DEF TimeInv, At
<1>2. ASSUME NEW d \in Devices, Sounding(d)' PROVE TimeComes(d)'
  <2>1. TimeComes(d)
    BY <1>2 DEF Sounding, TimeInv
  <2>2. ASSUME NEW e \in Devices, Awaits(e, d) PROVE Awaits(e, d)'
    <3>1. thread'[e] = thread[e] /\ e \in Threads
      BY <2>2 DEF Awaits, At, Threads
    <3> QED BY <2>2, <3>1, AwaitsKept
  <2> QED BY <2>1, <2>2 DEF TimeComes
<1> QED BY <1>1, <1>2 DEF TimeInv

\* The time is picked for every loudspeaker that plays, in the one list there is.
LEMMA TimeSnapshot ==
  ASSUME SingleGroup, NoDrops, Steady, TimeInv, NEW t \in Threads, SnapshotGroups(t)
  PROVE  TimeInv'
<1> DEFINE ready == {g \in Groups : ready_to_play(g)}
<1>1. /\ TypeOK /\ RegTypes /\ Handler(t) /\ client' = client /\ Only(t)
      /\ connected_devices' = connected_devices
      /\ thread[t].pc = "groups" /\ thread'[t].pc = "send"
      /\ thread'[t].time = play_times' /\ thread'[t].todo = ready
      /\ play_times' = IF thread[t].packet = "playing" /\ ready # {} THEN play_times + 1
                                                                    ELSE play_times
  BY TypesSplit, SnapshotStep, HandlerFrame DEF Steady, Handler, Send, SnapshotGroups
<1>2. Grows
  BY <1>1 DEF Grows
<1>3. CASE t \notin Devices
  <2>1. thread[t].packet # "playing"
    BY <1>1, <1>3 DEF Steady, Roles, ServerRole, WebRole, Sends, Threads
  <2>2. \A e \in Devices : thread'[e] = thread[e]
    BY <1>1, <1>3 DEF Only, Threads
  <2> QED BY <1>1, <1>2, <2>1, <2>2, TimeFrame
<1>4. CASE t \in Devices
  <2>1. \A e \in Devices \ {t} : thread'[e].pc # "send" /\ thread[e].pc # "send"
    BY <1>1, <1>4, OneSender DEF Only, Threads, Locked
  <2>2. \A e \in Devices : At(e, "send")' => thread'[e].time = play_times'
    BY <1>1, <2>1 DEF At
  <2>3. ASSUME NEW d \in Devices, Sounding(d)' PROVE TimeComes(d)'
    <3>1. Sounding(d) /\ TimeComes(d) /\ \A e \in Devices : ~Awaits(e, d)
      BY <1>1, <2>1, <2>3 DEF Sounding, TimeInv, Awaits, At
    <3>2. client[d].time = play_times
      BY <3>1 DEF TimeComes
    <3>3. CASE ready = {}
      BY <1>1, <3>2, <3>3 DEF TimeComes
    <3>4. CASE ready # {}
      <4>1. GroupOf[d] \in ready
        BY <3>4 DEF SingleGroup
      <4>2. Awaits(t, d)'
        BY <1>1, <1>4, <4>1, AwaitsSnapshot
      <4> QED BY <1>4, <4>2 DEF TimeComes
    <3> QED BY <3>3, <3>4
  <2> QED BY <2>2, <2>3 DEF TimeInv
<1> QED BY <1>3, <1>4

\* A delivery gives its target the time, when it gives one at all.
LEMMA TimeDeliver ==
  ASSUME SingleGroup, NoDrops, Steady, TimeInv, NEW t \in Threads, Deliver(t)
  PROVE  TimeInv'
<1>1. /\ TypeOK /\ RegTypes /\ Handler(t) /\ Only(t)
      /\ UNCHANGED <<connected_devices, play_times>>
      /\ thread[t].pc = "send" /\ thread'[t].pc = "send" /\ thread'[t].time = thread[t].time
  BY TypesSplit, DeliverStep, HandlerFrame DEF Steady, Handler, Send, Deliver, history
<1>2. Grows
  BY <1>1 DEF Grows
<1>3. \A e \in Devices : At(e, "send")' => thread'[e].time = play_times'
  BY <1>1 DEF TimeInv, At, Only, Threads
<1>4. ASSUME NEW d \in Devices, Sounding(d)', client'[d].time # play_times
      PROVE  \E e \in Devices : Awaits(e, d)'
  <2>1. t \in Devices => thread[t].time = play_times /\ thread[t].packet = "playing"
    BY <1>1 DEF TimeInv, At, Steady, Roles, DeviceRole, Sends
  <2>2. t \notin Devices => thread[t].packet # "playing"
    BY <1>1 DEF Steady, Roles, ServerRole, WebRole, Sends, Threads
  <2>3. client'[d].time = client[d].time
    BY <1>4, <2>1, <2>2, TimeHeard DEF Sounding
  <2>4. PICK e \in Devices : Awaits(e, d)
    BY <1>4, <2>3 DEF Sounding, TimeInv, TimeComes
  <2>5. CASE e # t
    <3>1. e \in Threads /\ thread'[e] = thread[e]
      BY <1>1, <2>5 DEF Only, Threads
    <3> QED BY <1>2, <2>4, <3>1, AwaitsKept
  <2>6. CASE e = t
    <3>1. d # Target(t)
      BY <1>4, <2>1, <2>6, TimeHeard DEF Sounding
    <3> QED BY <1>1, <2>4, <2>6, <3>1, AwaitsDeliver
  <2> QED BY <2>5, <2>6
<1>5. \A d \in Devices : Sounding(d)' => TimeComes(d)'
  BY <1>1, <1>4 DEF TimeComes
<1> QED BY <1>3, <1>5 DEF TimeInv

\* A handler leaves no loudspeaker with an old time and nobody to tell it.
LEMMA TimeHandler ==
  ASSUME SingleGroup, NoDrops, Steady, TimeInv, NEW t \in Threads, Handler(t)
  PROVE  TimeInv'
<1>1. CASE SnapshotGroups(t)
  BY <1>1, TimeSnapshot
<1>2. CASE Deliver(t)
  BY <1>2, TimeDeliver
<1>3. CASE NextGroup(t)
  <2>1. /\ TypeOK /\ RegTypes /\ Only(t) /\ thread[t].pc = "send" /\ thread'[t].pc = "send"
        /\ thread'[t].time = thread[t].time
        /\ UNCHANGED <<connected_devices, play_times, client>>
    BY <1>3, TypesSplit, NextGroupStep
       DEF Steady, NextGroup, server, registry, history
  <2>2. Grows
    BY <2>1 DEF Grows
  <2>3. \A e \in Devices : At(e, "send")' => thread'[e].time = play_times'
    BY <2>1 DEF TimeInv, At, Only, Threads
  <2>4. ASSUME NEW d \in Devices, Sounding(d)' PROVE TimeComes(d)'
    <3>1. Sounding(d) /\ TimeComes(d)
      BY <2>1, <2>4 DEF Sounding, TimeInv
    <3>2. DeviceIn(d, GroupOf[d])
      BY <3>1 DEF Sounding, Steady, Links
    <3>3. ASSUME NEW e \in Devices, Awaits(e, d) PROVE Awaits(e, d)'
      <4>1. e \in Threads
        BY DEF Threads
      <4>2. CASE e = t
        BY <1>3, <2>1, <3>2, <3>3, <4>2, AwaitsNextGroup
      <4>3. CASE e # t
        BY <2>1, <2>2, <3>3, <4>1, <4>3, AwaitsKept DEF Only
      <4> QED BY <4>2, <4>3
    <3> QED BY <2>1, <3>1, <3>3 DEF TimeComes
  <2> QED BY <2>3, <2>4 DEF TimeInv
<1>4. CASE Sent(t) \/ Change(t) \/ SetState(t)
  <2>1. TypeOK /\ RegTypes /\ Roles
    BY TypesSplit DEF Steady
  <2>2. UNCHANGED <<connected_devices, play_times, client>> /\ Only(t)
    BY <1>4, <2>1, HandlerPlace
       DEF Sent, Change, ChangeIf, SetState, registry, history, Handler, Send, StateChanged
  <2>3. Grows
    BY <2>2 DEF Grows
  <2>4. \A d \in Devices : ~Awaits(t, d)
    BY <1>4, <2>1, AwaitsNone DEF Sent, Change, ChangeIf, SetState, At
  <2>5. t \in Devices => thread'[t].pc # "send"
    <3>1. CASE SetState(t)
      BY <2>1, <3>1, SetStateStep
    <3>2. CASE Sent(t) \/ (Change(t) /\ Continue(t))
      <4>1. Continue(t) /\ (t \in Devices => thread[t].next = "nothing")
        BY <2>1, <3>2 DEF Sent, Roles, DeviceRole
      <4> QED BY <2>1, <4>1, ContinueStep, FreshFields
    <3>3. CASE Change(t) /\ ~Continue(t)
      <4>1. Goto(t, "set") /\ "set" \in Places
        BY <3>3 DEF Change, ChangeIf, Places
      <4> QED BY <2>1, <4>1, GoesTo
    <3> QED BY <1>4, <3>1, <3>2, <3>3
  <2>6. \A e \in Devices : At(e, "send")' => thread'[e].time = play_times'
    BY <2>2, <2>5 DEF TimeInv, At, Only, Threads
  <2>7. ASSUME NEW d \in Devices, Sounding(d)' PROVE TimeComes(d)'
    <3>1. TimeComes(d)
      BY <2>2, <2>7 DEF Sounding, TimeInv
    <3>2. ASSUME NEW e \in Devices, Awaits(e, d) PROVE Awaits(e, d)'
      <4>1. e # t /\ e \in Threads
        BY <2>4, <3>2 DEF Threads
      <4> QED BY <2>2, <2>3, <3>2, <4>1, AwaitsKept DEF Only
    <3> QED BY <2>2, <3>1, <3>2 DEF TimeComes
  <2> QED BY <2>6, <2>7 DEF TimeInv
<1> QED BY <1>1, <1>2, <1>3, <1>4 DEF Handler, Send, StateChanged

\* Nor does any other step.
LEMMA TimeNext ==
  ASSUME SingleGroup, NoDrops, Steady, TimeInv, [Next]_vars
  PROVE  TimeInv'
<1>1. /\ TypeOK /\ Links /\ Grows /\ {"server", "web"} \subseteq Threads
  BY GrowsNext DEF Steady, Threads
<1>2. CASE \E t \in Threads : Handler(t)
  BY <1>2, TimeHandler
<1>3. CASE ~\E t \in Threads : Handler(t)
  <2>1. \A d \in Devices : client'[d].time = client[d].time
    BY <1>3, NothingSent DEF Handler, Send
  <2>2. ASSUME UNCHANGED play_times, Only("server") \/ Only("web") PROVE TimeInv'
    <3>1. \A e \in Devices : thread'[e] = thread[e]
      BY <2>2 DEF Only, Threads
    <3> QED BY <1>1, <2>1, <2>2, <3>1, TimeFrame
  <2>3. CASE ServerRun \/ AudioSteps
    BY <1>1, <2>2, <2>3, ServerFrame
  <2>4. CASE \E g \in Groups : SetParam(g)
    BY <1>1, <2>2, <2>4, WebFrame
  <2>5. ASSUME NEW d \in Devices, Accept(d) \/ DeviceHandles(d) PROVE TimeInv'
    <3>1. Only(d) /\ UNCHANGED play_times /\ thread'[d].pc # "send"
      BY <1>1, <2>5, DeviceFrame
    <3>2. thread[d].pc # "send"
      BY <2>5 DEF Accept, DeviceHandles, Register, GroupConnected, Receive, ReceiveAs,
         TakeLock, TakeLockAs, GroupStatus, Closed, ClosedThen, Remove,
         GroupDisconnected, At
    <3> QED BY <1>1, <2>1, <3>1, <3>2, TimeFrame DEF Only, Threads
  <2>6. ~\E d \in Devices : Drop(d)
    BY <1>1 DEF NoDrops, Drop, TypeOK
  <2>7. CASE UNCHANGED vars
    BY <1>1, <2>1, <2>7, TimeFrame DEF vars, history
  <2> QED BY <1>3, <2>3, <2>4, <2>5, <2>6, <2>7 DEF Next
<1> QED BY <1>2, <1>3

\* With one group and no lost connection, the loudspeakers that play do so from the
\* same time once all has been said: the lock of the group makes one thread pick a
\* time and send it to all before another can.
THEOREM TimesAgree == SingleGroup /\ NoDrops => (Spec => []SamePlayTime)
<1> SUFFICES ASSUME SingleGroup, NoDrops PROVE Spec => []SamePlayTime
  OBVIOUS
<1>1. Spec => []Steady
  BY SteadyHolds
<1>2. Init => TimeInv
  <2> SUFFICES ASSUME Init PROVE TimeInv
    OBVIOUS
  <2>1. \A e \in Devices : thread[e].pc = "idle" /\ client[e].time = None
    BY FreshFields DEF Init, Threads, Offline
  <2> QED BY <2>1 DEF TimeInv, At, Sounding
<1>3. Steady /\ TimeInv /\ [Next]_vars => TimeInv'
  BY TimeNext
<1>4. Steady /\ TimeInv => SamePlayTime
  <2> SUFFICES ASSUME Steady, TimeInv, Quiet PROVE SamePlayTime
    BY DEF SamePlayTime
  <2>1. ASSUME NEW d \in Devices, Sounding(d) PROVE client[d].time = play_times
    BY <2>1 DEF Quiet, TimeInv, TimeComes, Awaits, At, Threads
  <2> QED BY <2>1 DEF SamePlayTime
<1> QED BY <1>1, <1>2, <1>3, <1>4, PTL DEF Spec

-----------------------------------------------------------------------------
(* A stop silences the first session                                       *)

FirstSession == MaxSessions <= 1 /\ NoDrops /\ NoToggles

\* What the packet of a delivery makes of the client it reaches.
LEMMA Told ==
  ASSUME Steady, NEW t \in Threads, Deliver(t)
  PROVE  LET d == Target(t)
             p == thread[t].packet
             c == client[d]
             k == client'[d]
         IN  /\ d \in Devices /\ DeviceIn(d, GroupOf[d]) /\ p \in Packets
             /\ \A e \in Devices \ {d} : client'[e] = client[e] /\ up'[e] = up[e]
             /\ p = "buffering" => k.amp
             /\ p = "stopping" => ~k.amp
             /\ p \notin {"buffering", "stopping"} => k.amp = c.amp
             /\ p = "setsamplerate" => k.pipe = 0 /\ k.time = None
             /\ p \in {"stopping", "disable"} => k.pipe = None /\ k.time = None
             /\ p = "audio" => k.pipe \in 0..Full /\ k.time \in {c.time, None}
                               /\ (c.pipe = Full => k.pipe = Full)
             /\ p = "playing" => k.pipe = c.pipe
                                 /\ k.time = IF c.pipe = None THEN c.time ELSE thread[t].time
             /\ p \in {"setcodec", "buffering", "enable"} => k.pipe = c.pipe /\ k.time = c.time
             /\ up'[d] = up[d] \/ (up'[d] = Append(up[d], "buffered")
                                   /\ p = "audio" /\ k.pipe = Full)
<1> DEFINE d == Target(t)
           p == thread[t].packet
           c == client[d]
           time == thread[t].time
           k == React(c, p, session, time)
<1>1. /\ d \in Devices /\ DeviceIn(d, GroupOf[d])
      /\ c \in ClientRecord /\ p \in Packets /\ time \in Nat /\ session \in Nat
      /\ client'[d] = k /\ up'[d] = IF EmitsBuffered(c, p) THEN Append(up[d], "buffered")
                                                           ELSE up[d]
      /\ \A e \in Devices \ {d} : client'[e] = client[e] /\ up'[e] = up[e]
  BY DeliverTo
<1> HIDE DEF d, p, c, time
<1>2. /\ p = "buffering" => k.amp
      /\ p = "stopping" => ~k.amp
      /\ p \notin {"buffering", "stopping"} => k.amp = c.amp
  BY <1>1, ReactFields
<1>3. /\ p = "setsamplerate" => k.pipe = 0 /\ k.time = None
      /\ p = "audio" => k.pipe = Feed(c).pipe
                        /\ k.time = IF c.pipe = None THEN None ELSE c.time
      /\ p \in {"stopping", "disable"} => k.pipe = None /\ k.time = None
      /\ p = "playing" => k.pipe = c.pipe /\ k.time = IF c.pipe = None THEN c.time ELSE time
      /\ p \in {"setcodec", "buffering", "enable"} => k.pipe = c.pipe /\ k.time = c.time
  BY <1>1, ReactFields
<1>4. Feed(c).pipe \in 0..Full /\ (c.pipe = Full => Feed(c).pipe = Full)
  BY <1>1, FeedFields DEF ClientRecord
<1>5. EmitsBuffered(c, p) => p = "audio" /\ Feed(c).pipe = Full
  BY DEF EmitsBuffered
<1> HIDE DEF k
<1>6. p = "audio" => k.pipe \in 0..Full /\ k.time \in {c.time, None}
                     /\ (c.pipe = Full => k.pipe = Full)
  BY <1>3, <1>4
<1>7. up'[d] = up[d] \/ (up'[d] = Append(up[d], "buffered") /\ p = "audio" /\ k.pipe = Full)
  BY <1>1, <1>3, <1>5
<1> QED BY <1>1, <1>2, <1>3, <1>6, <1>7 DEF d, p, c, time

\* With no user, the websocket's thread does nothing.
LEMMA NoWeb ==
  ASSUME NoToggles, Steady
  PROVE  /\ thread["web"].pc = "idle" /\ ~Handler("web") /\ ~\E g \in Groups : SetParam(g)
         /\ \A g \in Groups : play_enabled[g]
<1>1. toggles = 0 /\ MaxToggles = 0
  BY DEF NoToggles, Steady, Counted, TypeOK
<1>2. thread["web"].pc = "idle" /\ \A g \in Groups : play_enabled[g]
  BY <1>1 DEF Steady, Counted
<1>3. ~Handler("web")
  BY <1>2, HandlerBusy DEF Threads
<1>4. ~\E g \in Groups : SetParam(g)
  BY <1>1 DEF SetParam, SetParamSending
<1> QED BY <1>2, <1>3, <1>4

\* No client has anything to say, and no device's thread is at work for one.
Hush == \A d \in Devices :
          up[d] = <<>> /\ thread[d].pc \in {"idle", "register", "online?"}
                       /\ device_state[d] = None

AudioSent == Deliver("server") /\ thread["server"].packet = "audio"

\* Only audio ends a hush.
LEMMA HushKept ==
  ASSUME NoDrops, NoToggles, Steady, Hush, [Next]_vars
  PROVE  /\ ~AudioSent => Hush'
         /\ \A t \in Devices : ~Handler(t)
         /\ \A d \in Devices : ~Sounding(d) => ~Sounding(d)'
<1>1. /\ TypeOK /\ RegTypes /\ Links /\ {"server", "web"} \subseteq Threads
      /\ Devices \subseteq Threads
  BY TypesSplit DEF Steady, Threads
<1>2. \A t \in Devices : ~Handler(t)
  BY <1>1, HandlerBusy DEF Hush
<1>3. CASE \E t \in Threads : Handler(t)
  <2>1. Handler("server")
    BY <1>2, <1>3, NoWeb DEF Threads
  <2>2. Only("server") /\ UNCHANGED device_state
    BY <1>1, <2>1, HandlerPlace, HandlerFrame
  <2>3. \A d \in Devices : thread'[d] = thread[d]
    BY <1>1, <2>2 DEF Only
  <2>4. CASE ~Deliver("server")
    <3>1. UNCHANGED <<client, up>>
      BY <1>1, <2>1, <2>4, HandlerFrame
    <3> QED BY <1>2, <2>2, <2>3, <3>1 DEF Hush, Sounding
  <2>5. CASE Deliver("server")
    <3>1. /\ thread["server"].pc = "send"
          /\ thread["server"].packet \notin {"playing", "enable", "disable"}
      BY <2>5 DEF Deliver, At, Steady, Roles, ServerRole, Sends
    <3>2. \A d \in Devices : ~Sounding(d) => ~Sounding(d)'
      BY <1>1, <2>5, <3>1, Told DEF Sounding, Packets
    <3>3. ~AudioSent => Hush'
      BY <1>1, <2>2, <2>3, <2>5, Told DEF Hush, AudioSent
    <3> QED BY <1>2, <3>2, <3>3
  <2> QED BY <2>4, <2>5
<1>4. CASE ~\E t \in Threads : Handler(t)
  <2>1. \A d \in Devices : client'[d].time = client[d].time
    BY <1>4, NothingSent DEF Handler, Send
  <2>2. ASSUME ServerRun \/ AudioSteps PROVE Hush'
    <3>1. UNCHANGED <<up, device_state>> /\ Only("server")
      BY <1>1, <2>2, ServerFrame
    <3>2. \A d \in Devices : thread'[d] = thread[d]
      BY <1>1, <3>1 DEF Only
    <3> QED BY <3>1, <3>2 DEF Hush
  <2>3. ASSUME NEW d \in Devices, Accept(d) \/ DeviceHandles(d) PROVE Hush'
    <3>1. ~Receive(d) /\ ~TakeLock(d) /\ ~GroupStatus(d)
      BY DEF Hush, Receive, ReceiveAs, TakeLock, TakeLockAs, GroupStatus, At
    <3>2. UNCHANGED <<up, device_state>> /\ Only(d)
      BY <1>1, <2>3, <3>1, DeviceFrame
    <3>3. thread'[d].pc \in {"idle", "register", "online?"}
      <4>1. ~Closed(d) /\ ~Remove(d) /\ ~GroupDisconnected(d)
        BY DEF Hush, Closed, ClosedThen, Remove, GroupDisconnected, At
      <4>2. PICK p \in {"idle", "register", "online?"} : Goto(d, p)
        BY <2>3, <3>1, <4>1 DEF Accept, DeviceHandles, Register, GroupConnected
      <4>3. p \in Places
        BY DEF Places
      <4> QED BY <1>1, <4>2, <4>3, GoesTo
    <3> QED BY <1>1, <3>2, <3>3 DEF Hush, Only
  <2>4. ~\E d \in Devices : Drop(d)
    BY <1>1 DEF NoDrops, Drop, TypeOK
  <2>5. ASSUME UNCHANGED vars PROVE Hush'
    BY <2>5 DEF vars, server, registry, Hush
  <2>6. Hush'
    BY <1>4, <2>2, <2>3, <2>4, <2>5, NoWeb DEF Next
  <2> QED BY <1>2, <2>1, <2>6 DEF Sounding
<1> QED BY <1>3, <1>4

\* What the server's thread is at, given where the first session is: it stops once
\* the source has, and buffers or sends audio only while it has not.
Stage ==
  LET s == thread["server"]
  IN  /\ session = 0 => stream = "off" /\ s.pc = "idle" /\ m_state = "stopped"
      /\ InState("server") =>
           \/ s.new = "stopped" /\ s.next = "nothing" /\ stream = "off"
           \/ s.new = "buffering" /\ s.next = "audio" /\ stream = "on"
      /\ Sends("server") =>
           \/ s.packet = "stopping" /\ s.next = "nothing" /\ stream = "off"
           \/ /\ s.packet \in {"setcodec", "setsamplerate"} /\ s.next = "nothing"
              /\ stream # "off" /\ m_state = "stopped"
           \/ /\ s.packet = "buffering" /\ s.next = "audio"
              /\ stream = "on" /\ m_state # "stopped"
           \/ /\ s.packet = "audio" /\ s.next = "nothing"
              /\ stream = "on" /\ m_state # "stopped"
      /\ s.pc \in {"stopped?", "differs?"} => stream = "on"
      /\ s.pc = "stopped?" /\ s.new = "stopped" => m_state = "stopped"
      /\ s.pc = "differs?" => s.new # "stopped"
      /\ stream = "codec" => m_state = "stopped"

Silent == \A d \in Devices : ~Sounding(d)

\* The stop of the session is still to be sent to d.
StopComing(d) ==
  \/ At("server", "change") /\ m_state # "stopped"
  \/ At("server", "set")
  \/ At("server", "groups")
  \/ Awaits("server", d)

\* Nothing sounds while the server is stopped; after the source has stopped, either
\* nothing did, or the stop is on its way to every pipeline there is.
StopInv ==
  /\ (stream # "off" \/ session = 0) /\ m_state = "stopped" => Hush /\ Silent
  /\ stream = "off" /\ session > 0 =>
       \/ m_state = "stopped" /\ Hush /\ Silent
       \/ \A d \in Devices : client[d].pipe = None \/ StopComing(d)

FirstInv == Stage /\ StopInv

\* A step of another thread leaves the stage, if it does not start what is stopped.
LEMMA StageKept ==
  ASSUME Stage, UNCHANGED <<stream, session>>, thread'["server"] = thread["server"],
         \/ m_state' = m_state
         \/ m_state' # "stopped" /\ (m_state = "stopped" => stream = "off" /\ session > 0)
  PROVE  Stage'
BY DEF Stage, InState, Sends

\* A handler of the server's thread goes from one stage to the next.
LEMMA StageHandler ==
  ASSUME Steady, Stage, Handler("server")
  PROVE  /\ Stage' /\ session > 0
         /\ m_state' # m_state => /\ SetState("server")
                                  /\ m_state' = IF stream = "off" THEN "stopped" ELSE "buffering"
<1> DEFINE s == thread["server"]
<1>1. /\ RegTypes /\ "server" \in Threads /\ ServerRole /\ TypeOK
      /\ s.pc \in {"groups", "send", "change", "set"}
      /\ UNCHANGED <<stream, session>>
  BY TypesSplit, HandlerBusy, HandlerFrame DEF Steady, Roles, Threads
<1>2. session > 0
  BY <1>1 DEF Stage, TypeOK
<1>3. CASE SnapshotGroups("server") \/ Deliver("server") \/ NextGroup("server")
  <2>1. UNCHANGED m_state
    BY <1>3 DEF SnapshotGroups, Deliver, NextGroup, server
  <2>2. /\ s.pc \in {"groups", "send"} /\ thread'["server"].pc = "send"
        /\ thread'["server"].packet = s.packet /\ thread'["server"].next = s.next
    BY <1>1, <1>3, SnapshotStep, DeliverStep, NextGroupStep
  <2>3. Stage'
    BY <1>1, <1>2, <2>1, <2>2 DEF Stage, InState, Sends
  <2> QED BY <1>2, <2>1, <2>3
<1>4. CASE Sent("server") \/ (Change("server") /\ Continue("server"))
  <2>1. /\ UNCHANGED m_state /\ Continue("server") /\ s.pc \in {"send", "change"}
        /\ s.next \in {"nothing", "audio"}
        /\ s.pc = "change" => m_state = s.new \/ Goto("server", "set")
    BY <1>1, <1>4 DEF Sent, Change, ChangeIf, At, ServerRole
  <2>2. \/ s.next = "nothing" /\ thread'["server"] = Idle
        \/ s.next = "audio" /\ thread'["server"] = ToAll("audio")
    BY <1>1, <2>1, ContinueStep
  <2>3. ~Goto("server", "set")
    <3>1. thread'["server"].pc \in {"idle", "groups"}
      BY <2>2, FreshFields DEF Packets
    <3> QED BY <1>1, <3>1, GoesTo DEF Places
  <2>4. s.next = "audio" => stream = "on" /\ m_state # "stopped"
    BY <2>1, <2>3 DEF Stage, InState, Sends
  <2>5. Stage'
    <3>1. CASE thread'["server"] = Idle
      BY <1>1, <1>2, <2>1, <3>1, FreshFields DEF Stage, InState, Sends
    <3>2. CASE thread'["server"] = ToAll("audio") /\ stream = "on" /\ m_state # "stopped"
      BY <1>1, <1>2, <2>1, <3>2, FreshFields DEF Stage, InState, Sends, Packets
    <3> QED BY <2>2, <2>4, <3>1, <3>2
  <2> QED BY <1>2, <2>1, <2>5
<1>5. CASE Change("server") /\ ~Continue("server")
  <2>1. UNCHANGED m_state /\ Goto("server", "set") /\ s.pc = "change" /\ "set" \in Places
    BY <1>5 DEF Change, ChangeIf, At, Places
  <2>2. /\ thread'["server"].pc = "set" /\ thread'["server"].new = s.new
        /\ thread'["server"].next = s.next
    BY <1>1, <2>1, GoesTo
  <2>3. Stage'
    BY <1>1, <1>2, <2>1, <2>2 DEF Stage, InState, Sends
  <2> QED BY <1>2, <2>1, <2>3
<1>6. CASE SetState("server")
  <2>1. /\ s.pc = "set" /\ m_state' = s.new
        /\ thread'["server"].pc = "groups" /\ thread'["server"].packet = PacketOf(s.new)
        /\ thread'["server"].next = s.next
    BY <1>1, <1>6, SetStateStep
  <2>2. \/ s.new = "stopped" /\ s.next = "nothing" /\ stream = "off"
        \/ s.new = "buffering" /\ s.next = "audio" /\ stream = "on"
    BY <2>1 DEF Stage, InState
  <2>3. Stage'
    BY <1>1, <1>2, <2>1, <2>2 DEF Stage, InState, Sends, PacketOf
  <2> QED BY <1>2, <1>6, <2>1, <2>2, <2>3
<1> QED BY <1>3, <1>4, <1>5, <1>6 DEF Handler, Send, StateChanged

\* The same of what the input multiplexer delivers, and of new_audio.
LEMMA StageServer ==
  ASSUME MaxSessions <= 1, Steady, Stage, ServerRun \/ AudioSteps
  PROVE  Stage' /\ (SetCodec => session = 0) /\ session' > 0
<1> DEFINE s == thread["server"]
<1>1. /\ RegTypes /\ "server" \in Threads /\ ServerRole /\ TypeOK /\ UNCHANGED m_state
      /\ session \in Nat /\ m_state \in States
      /\ stream # "off" => session > 0
  BY TypesSplit, ServerFrame DEF Steady, Roles, Threads, TypeOK, Counted
<1>2. ASSUME NEW p \in Packets, Polled(ToAll(p))
      PROVE  thread'["server"] = ToAll(p) /\ ToAll(p).pc = "groups" /\ ToAll(p).packet = p
             /\ ToAll(p).next = "nothing"
  BY <1>1, <1>2, Moves, FreshFields DEF Polled
<1>3. CASE SetCodec
  <2>1. session = 0
    BY <1>1, <1>3, BoundAssumption DEF SetCodec
  <2>2. stream' = "codec" /\ session' = 1 /\ Polled(ToAll("setcodec")) /\ m_state = "stopped"
    BY <1>3, <2>1 DEF SetCodec, Stage
  <2>3. "setcodec" \in Packets
    BY DEF Packets
  <2>4. Stage'
    BY <1>1, <1>2, <2>2, <2>3 DEF Stage, InState, Sends
  <2> QED BY <2>1, <2>2, <2>4
<1>4. CASE SetSamplerate
  <2>1. stream = "codec" /\ stream' = "on" /\ session' = session
        /\ Polled(ToAll("setsamplerate"))
    BY <1>4 DEF SetSamplerate
  <2>2. "setsamplerate" \in Packets
    BY DEF Packets
  <2>3. Stage'
    BY <1>1, <1>2, <2>1, <2>2 DEF Stage, InState, Sends
  <2> QED BY <1>1, <2>1, <2>3 DEF SetCodec
<1>5. CASE SetStop
  <2> DEFINE here == [Idle EXCEPT !.pc = "change", !.new = "stopped"]
  <2>1. Continues("server", here) /\ stream # "off" /\ stream' = "off" /\ session' = session
    BY <1>5 DEF SetStop, Polled
  <2>2. here.pc = "change" /\ here.new = "stopped" /\ here.next = "nothing"
    BY DEF Idle
  <2> HIDE DEF here
  <2>3. thread'["server"] = here
    BY <1>1, <2>1, Moves
  <2>4. Stage'
    BY <1>1, <2>1, <2>2, <2>3 DEF Stage, InState, Sends
  <2> QED BY <1>1, <2>1, <2>4 DEF SetCodec
<1>6. CASE NewAudio
  <2> DEFINE here == [Idle EXCEPT !.pc = "stopped?", !.new = m_state]
  <2>1. Continues("server", here) /\ stream # "off" /\ stream' = "on" /\ session' = session
    BY <1>6 DEF NewAudio, Polled
  <2>2. here.pc = "stopped?" /\ here.new = m_state
    BY DEF Idle
  <2> HIDE DEF here
  <2>3. thread'["server"] = here
    BY <1>1, <2>1, Moves
  <2>4. Stage'
    BY <1>1, <2>1, <2>2, <2>3 DEF Stage, InState, Sends
  <2> QED BY <1>1, <2>1, <2>4 DEF SetCodec
<1>7. CASE AudioStarts
  <2>1. UNCHANGED <<stream, session>> /\ stream = "on"
    BY <1>1, <1>7, AudioStartsStep DEF AudioStarts, history, Stage
  <2>2. /\ s.pc = "stopped?" /\ thread'["server"].pc = "differs?"
        /\ thread'["server"].new = IF m_state = "stopped" THEN "buffering" ELSE s.new
    BY <1>1, <1>7, AudioStartsStep
  <2>3. Stage'
    BY <1>1, <2>1, <2>2 DEF Stage, InState, Sends
  <2> QED BY <1>1, <2>1, <2>3 DEF SetCodec
<1>8. CASE AudioChanges
  <2>1. UNCHANGED <<stream, session>> /\ stream = "on" /\ s.pc = "differs?" /\ s.new # "stopped"
    BY <1>1, <1>8, AudioChangesStep DEF AudioChanges, history, Stage
  <2>2. s.new \in States
    BY <1>1 DEF RegTypes, ThreadRecord
  <2>3. CASE /\ s.new # m_state /\ thread'["server"].pc = "change"
             /\ thread'["server"].new = s.new /\ thread'["server"].next = "audio"
    <3>1. s.new = "buffering"
      BY <1>1, <2>1, <2>2, <2>3 DEF ServerRole, States
    <3>2. Stage'
      BY <1>1, <2>1, <2>3, <3>1 DEF Stage, InState, Sends
    <3> QED BY <1>1, <2>1, <3>2 DEF SetCodec
  <2>4. CASE s.new = m_state /\ thread'["server"] = ToAll("audio")
    <3>1. "audio" \in Packets
      BY DEF Packets
    <3>2. Stage'
      BY <1>1, <2>1, <2>4, <3>1, FreshFields DEF Stage, InState, Sends
    <3> QED BY <1>1, <2>1, <3>2 DEF SetCodec
  <2> QED BY <1>1, <1>8, <2>3, <2>4, AudioChangesStep
<1> QED BY <1>3, <1>4, <1>5, <1>6, <1>7, <1>8 DEF ServerRun, AudioSteps

\* A step of a thread that is not the server's leaves the server where it is, and no
\* pipeline comes or goes.
LEMMA Bystander ==
  ASSUME NoDrops, NoToggles, Steady, [Next]_vars, ~(ServerRun \/ AudioSteps),
         ~Handler("server")
  PROVE  /\ UNCHANGED <<stream, session>> /\ thread'["server"] = thread["server"]
         /\ \A d \in Devices : client'[d].pipe = client[d].pipe /\ client'[d].amp = client[d].amp
         /\ m_state' = m_state \/ (\E d \in Devices : SetState(d) /\ m_state' = "playing")
         /\ ~AudioSent
<1>1. TypeOK /\ RegTypes /\ Links /\ Roles /\ {"server", "web"} \subseteq Threads
  BY TypesSplit DEF Steady, Threads
<1>2. ~AudioSent
  BY DEF AudioSent, Handler, Send
<1>3. ASSUME NEW t \in Devices, Handler(t)
      PROVE  /\ UNCHANGED <<stream, session>> /\ thread'["server"] = thread["server"]
             /\ \A d \in Devices : /\ client'[d].pipe = client[d].pipe
                                   /\ client'[d].amp = client[d].amp
             /\ m_state' = m_state \/ (SetState(t) /\ m_state' = "playing")
  <2>1. t \in Threads /\ t # "server" /\ DeviceRole(t)
    BY <1>1 DEF Threads, Roles
  <2>2. UNCHANGED <<stream, session>> /\ thread'["server"] = thread["server"]
    BY <1>1, <1>3, <2>1, HandlerPlace, HandlerFrame DEF Only
  <2>3. m_state' = m_state \/ (SetState(t) /\ m_state' = "playing")
    <3>1. SetState(t) => m_state' = "playing"
      BY <1>1, <2>1, SetStateStep DEF DeviceRole, InState
    <3> QED BY <1>3, <2>1, <3>1, HandlerFrame
  <2>4. \A d \in Devices : client'[d].pipe = client[d].pipe /\ client'[d].amp = client[d].amp
    <3>1. CASE ~Deliver(t)
      BY <1>3, <2>1, <3>1, HandlerFrame
    <3>2. CASE Deliver(t)
      <4>1. thread[t].packet = "playing"
        BY <2>1, <3>2 DEF Deliver, At, DeviceRole, Sends
      <4> QED BY <2>1, <3>2, <4>1, Told
    <3> QED BY <3>1, <3>2
  <2> QED BY <2>2, <2>3, <2>4
<1>4. CASE ~\E t \in Threads : Handler(t)
  <2>1. \A d \in Devices : client'[d].pipe = client[d].pipe /\ client'[d].amp = client[d].amp
    BY <1>4, NothingSent DEF Handler, Send
  <2>2. ASSUME NEW d \in Devices, Accept(d) \/ DeviceHandles(d)
        PROVE  UNCHANGED <<stream, session, m_state>> /\ thread'["server"] = thread["server"]
    BY <1>1, <2>2, DeviceFrame DEF Only
  <2>3. ~\E d \in Devices : Drop(d)
    BY <1>1 DEF NoDrops, Drop, TypeOK
  <2>4. UNCHANGED <<stream, session, m_state>> /\ thread'["server"] = thread["server"]
    BY <1>4, <2>2, <2>3, NoWeb DEF Next, vars, server, history
  <2> QED BY <1>2, <2>1, <2>4
<1> QED BY <1>2, <1>3, <1>4, NoWeb DEF Threads

\* What is stopped stays silent: only the server's thread starts again.
LEMMA StoppedStays ==
  ASSUME NoDrops, NoToggles, Steady, Stage, [Next]_vars,
         m_state = "stopped", Hush, Silent, ~SetState("server")
  PROVE  m_state' = "stopped" /\ Hush' /\ Silent'
<1>1. ~AudioSent
  BY DEF AudioSent, Deliver, At, Stage, Sends
<1>2. Hush' /\ Silent'
  BY <1>1, HushKept DEF Silent
<1>3. CASE ServerRun \/ AudioSteps
  BY <1>2, <1>3, ServerFrame DEF Steady
<1>4. CASE Handler("server")
  BY <1>2, <1>4, HandlerFrame DEF Threads
<1>5. CASE ~(ServerRun \/ AudioSteps) /\ ~Handler("server")
  BY <1>2, <1>5, Bystander, HushKept DEF Handler, StateChanged
<1> QED BY <1>3, <1>4, <1>5

\* The server's thread carries the stop to every pipeline.
LEMMA StopCarried ==
  ASSUME FirstSession, Steady, Stage, Grows, Handler("server"), stream = "off",
         NEW d \in Devices, client[d].pipe = None \/ StopComing(d)
  PROVE  client'[d].pipe = None \/ StopComing(d)'
<1> DEFINE s == thread["server"]
<1>1. /\ NoDrops /\ NoToggles /\ TypeOK /\ RegTypes /\ Links /\ "server" \in Threads
      /\ s.pc \in {"groups", "send", "change", "set"}
  BY TypesSplit, HandlerBusy DEF Steady, Threads, FirstSession
<1>2. /\ InState("server") => s.new = "stopped" /\ s.next = "nothing"
      /\ Sends("server") => s.packet = "stopping" /\ s.next = "nothing"
  BY DEF Stage
<1>3. client[d].pipe # None => DeviceIn(d, GroupOf[d]) /\ ready_to_play(GroupOf[d])
  BY <1>1, NoWeb DEF Links, ready_to_play, DeviceIn, Range
<1>4. CASE SnapshotGroups("server")
  <2>1. client' = client
    BY <1>4 DEF SnapshotGroups
  <2>2. client[d].pipe # None => Awaits("server", d)'
    BY <1>1, <1>3, <1>4, AwaitsSnapshot
  <2> QED BY <2>1, <2>2 DEF StopComing
<1>5. CASE Deliver("server")
  <2>1. s.packet = "stopping" /\ s.pc = "send"
    BY <1>2, <1>5 DEF Deliver, At, Sends
  <2>2. d = Target("server") => client'[d].pipe = None
    BY <1>1, <1>5, <2>1, Told
  <2>3. d # Target("server") => client'[d] = client[d]
    BY <1>1, <1>5, Told
  <2>4. Awaits("server", d) /\ d # Target("server") => Awaits("server", d)'
    BY <1>1, <1>5, AwaitsDeliver
  <2> QED BY <2>1, <2>2, <2>3, <2>4 DEF StopComing, At
<1>6. CASE NextGroup("server")
  <2>1. client' = client /\ s.pc = "send"
    BY <1>6 DEF NextGroup, At
  <2>2. client[d].pipe # None /\ Awaits("server", d) => Awaits("server", d)'
    BY <1>1, <1>3, <1>6, AwaitsNextGroup
  <2> QED BY <2>1, <2>2 DEF StopComing, At
<1>7. CASE Sent("server")
  <2>1. client' = client /\ s.pc = "send" /\ ~Awaits("server", d)
    BY <1>1, <1>7, AwaitsNone DEF Sent, At
  <2> QED BY <2>1 DEF StopComing, At
<1>8. CASE Change("server")
  <2>1. client' = client /\ s.pc = "change" /\ s.new = "stopped" /\ ~Awaits("server", d)
    BY <1>1, <1>2, <1>8, AwaitsNone DEF Change, ChangeIf, At, InState
  <2>2. m_state # "stopped" => thread'["server"].pc = "set"
    <3>1. m_state # "stopped" => Goto("server", "set")
      BY <1>8, <2>1 DEF Change, ChangeIf
    <3> QED BY <1>1, <3>1, GoesTo DEF Places
  <2> QED BY <2>1, <2>2 DEF StopComing, At
<1>9. CASE SetState("server")
  <2>1. thread'["server"].pc = "groups"
    BY <1>1, <1>9, SetStateStep
  <2> QED BY <2>1 DEF StopComing, At
<1> QED BY <1>4, <1>5, <1>6, <1>7, <1>8, <1>9 DEF Handler, Send, StateChanged

\* No step of the first session breaks the stage or lets the stop go astray.
LEMMA FirstNext ==
  ASSUME FirstSession, Steady, FirstInv, [Next]_vars
  PROVE  FirstInv'
<1>1. /\ NoDrops /\ NoToggles /\ MaxSessions <= 1 /\ Stage /\ StopInv /\ TypeOK /\ Links
      /\ RegTypes /\ Grows /\ "server" \in Threads /\ session \in Nat
  BY TypesSplit, GrowsNext DEF FirstSession, FirstInv, Steady, Threads, TypeOK
<1>2. m_state = "stopped" /\ Hush /\ Silent /\ ~SetState("server")
      => m_state' = "stopped" /\ Hush' /\ Silent'
  BY <1>1, StoppedStays
<1>3. CASE Handler("server")
  <2>1. /\ UNCHANGED <<stream, session>> /\ session > 0 /\ Stage'
        /\ m_state' # m_state => /\ SetState("server")
                                 /\ m_state' = IF stream = "off" THEN "stopped" ELSE "buffering"
    BY <1>1, <1>3, HandlerFrame, StageHandler
  <2>2. CASE stream = "off"
    <3>1. CASE SetState("server")
      <4>1. thread'["server"].pc = "groups"
        BY <1>1, <3>1, SetStateStep
      <4>2. \A d \in Devices : StopComing(d)'
        BY <4>1 DEF StopComing, At
      <4> QED BY <2>1, <2>2, <4>2 DEF FirstInv, StopInv
    <3>2. CASE ~SetState("server")
      <4>1. CASE m_state = "stopped" /\ Hush /\ Silent
        BY <1>2, <2>1, <3>2, <4>1 DEF FirstInv, StopInv
      <4>2. CASE \A d \in Devices : client[d].pipe = None \/ StopComing(d)
        <5>1. \A d \in Devices : client'[d].pipe = None \/ StopComing(d)'
          BY <1>1, <1>3, <2>2, <4>2, StopCarried
        <5> QED BY <2>1, <2>2, <5>1 DEF FirstInv, StopInv
      <4> QED BY <1>1, <2>1, <2>2, <4>1, <4>2 DEF StopInv
    <3> QED BY <3>1, <3>2
  <2>3. CASE stream # "off"
    <3>1. m_state' = "stopped" => m_state = "stopped" /\ ~SetState("server")
      <4>1. SetState("server") => m_state' = "buffering"
        BY <1>1, <2>3, SetStateStep DEF Stage, InState
      <4> QED BY <2>1, <4>1
    <3> QED BY <1>1, <1>2, <2>1, <2>3, <3>1 DEF FirstInv, StopInv
  <2> QED BY <2>2, <2>3
<1>4. CASE ServerRun \/ AudioSteps
  <2>1. Stage' /\ (SetCodec => session = 0) /\ session' > 0 /\ m_state' = m_state
    BY <1>1, <1>4, StageServer, ServerFrame
  <2>2. ~SetState("server")
    BY <1>4 DEF ServerRun, AudioSteps, SetCodec, SetSamplerate, SetStop, NewAudio,
       AudioStarts, AudioChanges, SetState, At
  <2>3. stream # "off" \/ session = 0
    BY <1>4, <2>1 DEF ServerRun, AudioSteps, SetSamplerate, SetStop, NewAudio,
       AudioStarts, AudioChanges, At, Stage, FirstInv
  <2>4. m_state = "stopped" => m_state' = "stopped" /\ Hush' /\ Silent'
    BY <1>1, <1>2, <2>2, <2>3 DEF StopInv
  <2>5. CASE stream' # "off" \/ m_state = "stopped"
    BY <2>1, <2>4, <2>5 DEF FirstInv, StopInv
  <2>6. CASE stream' = "off" /\ m_state # "stopped"
    <3>1. SetStop
      BY <1>1, <1>4, <2>1, <2>3, <2>6 DEF ServerRun, AudioSteps, SetCodec, SetSamplerate, NewAudio,
         AudioStarts, AudioChanges, history, Stage
    <3> DEFINE here == [Idle EXCEPT !.pc = "change", !.new = "stopped"]
    <3>2. Continues("server", here)
      BY <3>1 DEF SetStop, Polled
    <3>3. here.pc = "change"
      BY DEF Idle
    <3> HIDE DEF here
    <3>4. thread'["server"].pc = "change"
      BY <1>1, <3>2, <3>3, Moves
    <3>5. \A d \in Devices : StopComing(d)'
      BY <2>1, <2>6, <3>4 DEF StopComing, At
    <3> QED BY <2>1, <2>6, <3>5 DEF FirstInv, StopInv
  <2> QED BY <2>5, <2>6
<1>5. CASE ~(ServerRun \/ AudioSteps) /\ ~Handler("server")
  <2>1. /\ UNCHANGED <<stream, session>> /\ thread'["server"] = thread["server"]
        /\ \A d \in Devices : client'[d].pipe = client[d].pipe
        /\ m_state' = m_state \/ (\E d \in Devices : SetState(d) /\ m_state' = "playing")
    BY <1>1, <1>5, Bystander
  <2>2. ~SetState("server")
    BY <1>5 DEF Handler, StateChanged
  <2>3. m_state = "stopped" /\ (stream # "off" \/ session = 0) => m_state' = "stopped"
    BY <1>1, <1>2, <2>2 DEF StopInv
  <2>4. Stage'
    BY <1>1, <2>1, <2>3, StageKept
  <2>5. m_state' = "stopped" => m_state = "stopped"
    BY <2>1
  <2>6. ASSUME NEW d \in Devices, client[d].pipe = None \/ StopComing(d)
        PROVE  client'[d].pipe = None \/ StopComing(d)'
    <3>1. Awaits("server", d) => Awaits("server", d)'
      BY <1>1, <2>1, AwaitsKept
    <3> QED BY <2>1, <2>5, <2>6, <3>1 DEF StopComing, At
  <2>7. CASE (stream # "off" \/ session = 0)
    BY <1>1, <1>2, <2>1, <2>2, <2>4, <2>5, <2>7 DEF FirstInv, StopInv
  <2>8. CASE stream = "off" /\ session > 0
    BY <1>1, <1>2, <2>1, <2>2, <2>4, <2>6, <2>8 DEF FirstInv, StopInv
  <2> QED BY <1>1, <2>7, <2>8
<1> QED BY <1>3, <1>4, <1>5

\* At the start nothing sounds.
LEMMA FirstInit == Init => FirstInv
<1> SUFFICES ASSUME Init PROVE FirstInv
  OBVIOUS
<1>1. \A t \in Threads : thread[t].pc = "idle"
  BY FreshFields DEF Init
<1>2. \A d \in Devices : client[d].time = None /\ d \in Threads
  BY DEF Init, Offline, Threads
<1>3. thread["server"].pc = "idle"
  BY <1>1 DEF Threads
<1> QED BY <1>1, <1>2, <1>3 DEF Init, FirstInv, Stage, StopInv, Hush, Silent, Sounding,
        InState, Sends

\* Both hold throughout the first session.
LEMMA FirstHolds == FirstSession => (Spec => [](Steady /\ FirstInv))
<1> SUFFICES ASSUME FirstSession PROVE Spec => [](Steady /\ FirstInv)
  OBVIOUS
<1>1. Spec => []Steady
  BY SteadyHolds DEF FirstSession
<1>2. Steady /\ FirstInv /\ [Next]_vars => FirstInv'
  BY FirstNext
<1> QED BY <1>1, <1>2, FirstInit, PTL DEF Spec

\* The stop of the first session silences every loudspeaker, whatever `buffered' and
\* `playing' cross it: for any groups and devices, and for clients that join late.
THEOREM StopsSilence == FirstSession => (Spec => []StopSilences)
<1> SUFFICES ASSUME FirstSession PROVE Spec => []StopSilences
  OBVIOUS
<1>1. Steady /\ FirstInv => StopSilences
  <2> SUFFICES ASSUME Steady, FirstInv, Quiet, stream = "off", NEW d \in Devices
               PROVE  ~Sounding(d)
    BY DEF StopSilences
  <2>1. thread["server"].pc = "idle" /\ session \in Nat
    BY DEF Quiet, Threads, Steady, TypeOK
  <2>2. ~StopComing(d)
    BY <2>1 DEF StopComing, Awaits, At
  <2>3. Silent \/ client[d].pipe = None
    BY <2>1, <2>2 DEF FirstInv, StopInv, Stage
  <2> QED BY <2>3 DEF Silent, Steady, Links, Sounding
<1> QED BY <1>1, FirstHolds, PTL

-----------------------------------------------------------------------------
(* What plays has power                                                    *)

\* The amplifier of d is on, or `buffering' is on its way to it.
PowerComes(d) ==
  \/ client[d].amp
  \/ /\ thread["server"].packet = "buffering"
     /\ At("server", "groups") \/ Awaits("server", d)

\* Whoever is at work has power; from `buffering' on everybody gets it, and a stop
\* takes it only together with the pipeline.
PowerInv ==
  /\ stream # "off" /\ ~Hush => \A d \in Devices : client[d].amp
  /\ stream # "off" /\ m_state # "stopped" => \A d \in Devices : PowerComes(d)
  /\ stream = "off" => Hush \/ \A d \in Devices : client[d].pipe = None \/ client[d].amp
  /\ \A d \in Devices : Sounding(d) => client[d].amp

\* The server's thread carries `buffering' to every device.
LEMMA PowerCarried ==
  ASSUME FirstSession, Stationary, Steady, Stage, Handler("server"), ~SetState("server"),
         stream # "off", NEW d \in Devices, PowerComes(d)
  PROVE  PowerComes(d)'
<1> DEFINE s == thread["server"]
<1>1. /\ NoDrops /\ NoToggles /\ TypeOK /\ RegTypes /\ "server" \in Threads
      /\ s.pc \in {"groups", "send", "change"} /\ session > 0
  BY TypesSplit, HandlerBusy
     DEF Steady, Threads, FirstSession, Handler, Send, StateChanged, SnapshotGroups, Deliver,
         NextGroup, Sent, Change, ChangeIf, At, Counted
<1>2. DeviceIn(d, GroupOf[d]) /\ ready_to_play(GroupOf[d])
  BY <1>1, AllReady
<1>3. CASE SnapshotGroups("server")
  <2>1. client' = client
    BY <1>3 DEF SnapshotGroups
  <2>2. Awaits("server", d)' /\ thread'["server"].packet = s.packet
    BY <1>1, <1>2, <1>3, AwaitsSnapshot, SnapshotStep
  <2> QED BY <2>1, <2>2 DEF PowerComes
<1>4. CASE Deliver("server")
  <2>1. thread'["server"].packet = s.packet /\ s.pc = "send"
    BY <1>1, <1>4, DeliverStep
  <2>2. s.packet # "stopping"
    BY <2>1 DEF Stage, Sends
  <2>3. d = Target("server") /\ s.packet = "buffering" => client'[d].amp
    BY <1>1, <1>4, Told
  <2>4. client[d].amp => client'[d].amp
    BY <1>1, <1>4, <2>2, Told
  <2>5. Awaits("server", d) /\ d # Target("server") => Awaits("server", d)'
    BY <1>1, <1>4, AwaitsDeliver
  <2> QED BY <2>1, <2>3, <2>4, <2>5 DEF PowerComes, At
<1>5. CASE NextGroup("server")
  <2>1. client' = client
    BY <1>5 DEF NextGroup
  <2>2. thread'["server"].packet = s.packet /\ s.pc = "send"
    BY <1>1, <1>5, NextGroupStep
  <2>3. Awaits("server", d) => Awaits("server", d)'
    BY <1>1, <1>2, <1>5, AwaitsNextGroup
  <2> QED BY <2>1, <2>2, <2>3 DEF PowerComes, At
<1>6. CASE Sent("server") \/ Change("server")
  <2>1. client' = client /\ s.pc # "groups" /\ ~Awaits("server", d)
    BY <1>1, <1>6, AwaitsNone DEF Sent, Change, ChangeIf, At
  <2> QED BY <2>1 DEF PowerComes, At
<1> QED BY <1>3, <1>4, <1>5, <1>6 DEF Handler, Send, StateChanged

\* Power and pipelines, as a packet changes them.
LEMMA PowerKept ==
  ASSUME FirstSession, Steady, FirstInv, [Next]_vars, NEW d \in Devices
  PROVE  /\ stream # "off" /\ client[d].amp => client'[d].amp
         /\ stream = "off" /\ (client[d].pipe = None \/ client[d].amp)
              => client'[d].pipe = None \/ client'[d].amp
         /\ client'[d].amp \/ ~client[d].amp \/ ~Sounding(d)'
         /\ Sounding(d)' => Sounding(d) \/ (~Hush /\ client[d].pipe # None)
<1>1. NoDrops /\ NoToggles /\ TypeOK /\ Stage /\ Roles /\ Links
  BY DEF FirstSession, FirstInv, Steady
<1>2. CASE ~\E t \in Threads : Deliver(t)
  <2>1. /\ client'[d].pipe = client[d].pipe /\ client'[d].amp = client[d].amp
        /\ client'[d].time = client[d].time
    BY <1>1, <1>2, NothingSent
  <2> QED BY <2>1 DEF Sounding
<1>3. ASSUME NEW t \in Threads, Deliver(t), d # Target(t)
      PROVE  client'[d] = client[d]
  BY <1>3, Told
<1>4. ASSUME NEW t \in Threads, Deliver(t), d = Target(t), t = "server"
      PROVE  /\ stream # "off" /\ client[d].amp => client'[d].amp
             /\ stream = "off" /\ (client[d].pipe = None \/ client[d].amp)
                  => client'[d].pipe = None \/ client'[d].amp
             /\ client'[d].amp \/ ~client[d].amp \/ ~Sounding(d)'
             /\ Sounding(d)' => Sounding(d)
  <2>1. /\ stream = "off" => thread[t].packet = "stopping"
        /\ stream # "off" => thread[t].packet # "stopping"
        /\ thread[t].packet \in {"stopping", "setcodec", "setsamplerate", "buffering", "audio"}
    BY <1>1, <1>4 DEF Stage, Deliver, At, Sends
  <2>2. /\ thread[t].packet = "buffering" => client'[d].amp
        /\ thread[t].packet \notin {"buffering", "stopping"} => client'[d].amp = client[d].amp
        /\ thread[t].packet = "setsamplerate" => client'[d].time = None
        /\ thread[t].packet = "stopping" => client'[d].pipe = None /\ client'[d].time = None
        /\ thread[t].packet = "audio" => client'[d].time \in {client[d].time, None}
        /\ thread[t].packet \in {"setcodec", "buffering"} => client'[d].time = client[d].time
    BY <1>4, Told
  <2> QED BY <2>1, <2>2 DEF Sounding
<1>5. ASSUME NEW t \in Threads, Deliver(t), d = Target(t), t \in Devices
      PROVE  /\ client'[d].pipe = client[d].pipe /\ client'[d].amp = client[d].amp /\ ~Hush
             /\ Sounding(d)' => Sounding(d) \/ client[d].pipe # None
  <2>1. thread[t].packet = "playing" /\ ~Hush
    BY <1>1, <1>5 DEF Deliver, At, Roles, DeviceRole, Sends, Hush
  <2>2. /\ client'[d].pipe = client[d].pipe /\ client'[d].amp = client[d].amp
        /\ client[d].pipe = None => client'[d].time = client[d].time
    BY <1>5, <2>1, Told
  <2> QED BY <2>1, <2>2 DEF Sounding
<1>6. ~Deliver("web")
  BY <1>1, NoWeb DEF Handler, Send
<1> QED BY <1>2, <1>3, <1>4, <1>5, <1>6 DEF Threads, Sounding

\* No step gives sound without power, or takes power and leaves sound.
LEMMA PowerNext ==
  ASSUME FirstSession, Stationary, Steady, FirstInv, PowerInv, [Next]_vars
  PROVE  PowerInv'
<1>1. /\ NoDrops /\ NoToggles /\ MaxSessions <= 1 /\ Stage /\ StopInv /\ TypeOK /\ Links
      /\ RegTypes /\ Grows /\ "server" \in Threads /\ session \in Nat
  BY TypesSplit, GrowsNext DEF FirstSession, FirstInv, Steady, Threads, TypeOK
<1>2. session = 0 => Hush
  BY <1>1 DEF StopInv, Stage
<1>3. \A d \in Devices : Sounding(d)' => client'[d].amp
  <2> SUFFICES ASSUME NEW d \in Devices, Sounding(d)' PROVE client'[d].amp
    OBVIOUS
  <2>1. client[d].amp
    BY PowerKept DEF PowerInv
  <2> QED BY <2>1, PowerKept
<1>4. CASE ServerRun \/ AudioSteps
  <2>1. /\ client' = client /\ m_state' = m_state /\ Stage' /\ (SetCodec => session = 0)
        /\ ~AudioSent
    BY <1>1, <1>4, StageServer, ServerFrame
       DEF ServerRun, AudioSteps, SetCodec, SetSamplerate, SetStop, NewAudio,
       AudioStarts, AudioChanges, AudioSent, Deliver, At
  <2>2. Hush => Hush'
    BY <1>1, <2>1, HushKept
  <2>3. stream = "off" => stream' # "off" /\ Hush /\ m_state = "stopped"
    <3>1. CASE SetCodec
      BY <1>1, <1>2, <2>1, <3>1 DEF SetCodec, Stage
    <3>2. CASE ~SetCodec
      BY <1>1, <1>4, <3>2 DEF ServerRun, AudioSteps, SetSamplerate, SetStop, NewAudio,
         AudioStarts, AudioChanges, At, Stage
    <3> QED BY <3>1, <3>2
  <2>4. thread["server"].pc \notin {"groups", "send"}
    BY <1>4 DEF ServerRun, AudioSteps, SetCodec, SetSamplerate, SetStop, NewAudio,
       AudioStarts, AudioChanges, At
  <2>5. stream # "off" /\ m_state # "stopped" => \A d \in Devices : client[d].amp
    BY <2>4 DEF PowerInv, PowerComes, Awaits, At
  <2> QED BY <1>3, <2>1, <2>2, <2>3, <2>5 DEF PowerInv, PowerComes
<1>5. CASE ~(ServerRun \/ AudioSteps)
  <2>1. UNCHANGED <<stream, session>>
    <3>1. CASE Handler("server")
      BY <1>1, <3>1, HandlerFrame
    <3>2. CASE ~Handler("server")
      BY <1>1, <1>5, <3>2, Bystander
    <3> QED BY <3>1, <3>2
  <2>2. CASE stream = "off"
    <3>1. ~AudioSent
      BY <1>1, <2>2 DEF AudioSent, Deliver, At, Stage, Sends
    <3>2. Hush => Hush'
      BY <1>1, <3>1, HushKept
    <3>3. \A d \in Devices : client[d].pipe = None \/ client[d].amp
                             => client'[d].pipe = None \/ client'[d].amp
      BY <2>2, PowerKept
    <3> QED BY <1>3, <2>1, <2>2, <3>2, <3>3 DEF PowerInv
  <2>3. CASE stream # "off"
    <3>1. ~Hush' => \A d \in Devices : client'[d].amp
      <4>1. ~Hush => \A d \in Devices : client[d].amp
        BY <2>3 DEF PowerInv
      <4>2. AudioSent => \A d \in Devices : client[d].amp
        BY <1>1, <2>3 DEF AudioSent, Deliver, Stage, Sends, PowerInv, PowerComes, At
      <4>3. Hush /\ ~AudioSent => Hush'
        BY <1>1, HushKept
      <4> QED BY <2>3, <4>1, <4>2, <4>3, PowerKept
    <3>2. ASSUME m_state' # "stopped", NEW d \in Devices PROVE PowerComes(d)'
      <4>1. CASE SetState("server")
        <5>1. m_state' = "buffering"
          BY <1>1, <2>3, <4>1, SetStateStep DEF Stage, InState
        <5>2. /\ thread'["server"].pc = "groups"
              /\ thread'["server"].packet = PacketOf("buffering")
          BY <1>1, <4>1, <5>1, SetStateStep
        <5> QED BY <5>2 DEF PowerComes, At, PacketOf
      <4>2. CASE Handler("server") /\ ~SetState("server")
        <5>1. m_state' = m_state
          BY <1>1, <4>2, HandlerFrame
        <5>2. PowerComes(d)
          BY <2>3, <3>2, <5>1 DEF PowerInv
        <5> QED BY <1>1, <2>3, <4>2, <5>2, PowerCarried
      <4>3. CASE ~Handler("server")
        <5>1. /\ thread'["server"] = thread["server"] /\ client'[d].amp = client[d].amp
              /\ m_state' = m_state \/ \E e \in Devices : SetState(e)
          BY <1>1, <1>5, <4>3, Bystander
        <5>2. (\E e \in Devices : SetState(e)) => ~Hush
          BY DEF SetState, Hush, At
        <5>3. PowerComes(d)
          BY <2>3, <3>2, <5>1, <5>2 DEF PowerInv, PowerComes
        <5>4. Awaits("server", d) => Awaits("server", d)'
          BY <1>1, <5>1, AwaitsKept
        <5> QED BY <5>1, <5>3, <5>4 DEF PowerComes, At
      <4> QED BY <4>1, <4>2, <4>3 DEF Handler, StateChanged
    <3> QED BY <1>3, <2>1, <2>3, <3>1, <3>2 DEF PowerInv
  <2> QED BY <2>2, <2>3
<1> QED BY <1>4, <1>5

\* Power goes with sound throughout the first session.
LEMMA PowerHolds == FirstSession /\ Stationary => (Spec => []PowerInv)
<1> SUFFICES ASSUME FirstSession, Stationary PROVE Spec => []PowerInv
  OBVIOUS
<1>1. Spec => [](Steady /\ FirstInv)
  BY FirstHolds
<1>2. Init => PowerInv
  <2> SUFFICES ASSUME Init PROVE PowerInv
    OBVIOUS
  <2>1. \A d \in Devices : client[d].time = None /\ client[d].pipe = None
    BY DEF Init, Offline
  <2> QED BY <2>1 DEF Init, PowerInv, Sounding
<1>3. Steady /\ FirstInv /\ PowerInv /\ [Next]_vars => PowerInv'
  BY PowerNext
<1> QED BY <1>1, <1>2, <1>3, PTL DEF Spec

\* In the first session, with the devices there from the start, a loudspeaker that
\* plays has been told to switch its amplifier on, at every moment and not only when
\* all has been said.
THEOREM PowerWithSound == FirstSession /\ Stationary => (Spec => []SoundHasPower)
<1> SUFFICES ASSUME FirstSession, Stationary PROVE Spec => []SoundHasPower
  OBVIOUS
<1>1. PowerInv => SoundHasPower
  BY DEF PowerInv, SoundHasPower
<1> QED BY <1>1, PowerHolds, PTL

-----------------------------------------------------------------------------
(* A play time is given only to what has buffered                          *)

\* What is said to be buffered is, or is gone with the session; and the thread that
\* starts a group found all of it buffered.
FullInv ==
  /\ \A d \in Devices : device_state[d] = "buffered" \/ up[d] # <<>> =>
       client[d].pipe = Full \/ (client[d].pipe = None /\ stream = "off")
  /\ \A d, e \in Devices :
       thread[d].pc \in Locked /\ GroupOf[e] = GroupOf[d] => device_state[e] = "buffered"

\* A pipeline is rebuilt for a sample rate only while nothing is buffered.
LEMMA FullKept ==
  ASSUME FirstSession, Steady, FirstInv, [Next]_vars, ~Hush', NEW d \in Devices,
         client[d].pipe = Full \/ (client[d].pipe = None /\ stream = "off")
  PROVE  client'[d].pipe = Full \/ (client'[d].pipe = None /\ stream' = "off")
<1>1. /\ NoDrops /\ NoToggles /\ MaxSessions <= 1 /\ Stage /\ StopInv /\ TypeOK
      /\ Roles /\ session \in Nat
  BY DEF FirstSession, FirstInv, Steady, TypeOK
<1>2. CASE \E t \in Threads : Deliver(t)
  <2>1. PICK t \in Threads : Deliver(t)
    BY <1>2
  <2>2. stream' = stream
    BY <2>1 DEF Deliver, history
  <2>3. CASE d # Target(t)
    BY <2>1, <2>2, <2>3, Told
  <2>4. CASE d = Target(t)
    <3>1. t # "web"
      BY <1>1, <2>1, NoWeb DEF Handler, Send
    <3>2. thread[t].packet # "setsamplerate"
      <4>1. SUFFICES ASSUME t = "server", thread[t].packet = "setsamplerate" PROVE FALSE
        BY <1>1, <2>1, <3>1 DEF Threads, Deliver, At, Roles, DeviceRole, Sends
      <4>2. Hush
        BY <1>1, <2>1, <4>1 DEF Deliver, At, Stage, StopInv, Sends
      <4> QED BY <1>1, <4>1, <4>2, HushKept DEF AudioSent
    <3>3. /\ thread[t].packet \in {"setcodec", "buffering", "playing", "stopping", "audio"}
          /\ thread[t].packet = "audio" => stream # "off"
          /\ thread[t].packet = "stopping" => stream = "off"
      BY <1>1, <2>1, <3>1, <3>2
         DEF Deliver, At, Stage, Sends, Roles, DeviceRole, Threads
    <3>4. /\ thread[t].packet = "stopping" => client'[d].pipe = None
          /\ thread[t].packet = "audio" /\ client[d].pipe = Full => client'[d].pipe = Full
          /\ thread[t].packet = "playing" => client'[d].pipe = client[d].pipe
          /\ thread[t].packet \in {"setcodec", "buffering"} =>
               client'[d].pipe = client[d].pipe
      BY <2>1, <2>4, Told
    <3> QED BY <2>2, <3>3, <3>4
  <2> QED BY <2>3, <2>4
<1>3. CASE ~\E t \in Threads : Deliver(t)
  <2>1. client'[d].pipe = client[d].pipe
    BY <1>1, <1>3, NothingSent
  <2>2. stream = "off" => stream' = "off"
    <3>1. CASE Handler("server")
      BY <3>1, HandlerFrame DEF Threads
    <3>2. CASE SetCodec
      <4>1. session = 0
        BY <1>1, <3>2, BoundAssumption DEF SetCodec
      <4>2. Hush /\ ~AudioSent
        BY <1>1, <1>3, <4>1 DEF Stage, StopInv, AudioSent, Threads
      <4> QED BY <1>1, <4>2, HushKept
    <3>3. CASE SetSamplerate \/ SetStop \/ NewAudio \/ AudioSteps
      BY <3>3 DEF SetSamplerate, SetStop, NewAudio, AudioSteps, AudioStarts, AudioChanges,
         history
    <3>4. CASE ~Handler("server") /\ ~(ServerRun \/ AudioSteps)
      BY <1>1, <3>4, Bystander
    <3> QED BY <3>1, <3>2, <3>3, <3>4 DEF ServerRun
  <2> QED BY <2>1, <2>2
<1> QED BY <1>2, <1>3

\* The status of a device is kept when one of its messages is received, and only then.
LEMMA StatusKept ==
  ASSUME NoDrops, NoToggles, Steady, [Next]_vars
  PROVE  \A d \in Devices :
           /\ device_state[d] = "buffered" => device_state'[d] = "buffered"
           /\ device_state'[d] = "buffered" => device_state[d] = "buffered" \/ up[d] # <<>>
           /\ up'[d] # <<>> => up[d] # <<>> \/ client'[d].pipe = Full
<1>1. TypeOK /\ Links
  BY DEF Steady
<1>2. CASE \E t \in Threads : Handler(t)
  <2>1. PICK t \in Threads : Handler(t)
    BY <1>2
  <2>2. CASE Deliver(t)
    <3>1. \A d \in Devices : up'[d] # <<>> => up[d] # <<>> \/ client'[d].pipe = Full
      BY <2>2, Told
    <3> QED BY <2>1, <3>1, HandlerFrame
  <2>3. CASE ~Deliver(t)
    BY <2>1, <2>3, HandlerFrame
  <2> QED BY <2>2, <2>3
<1>3. CASE \E d \in Devices : Receive(d)
  <2>1. PICK d \in Devices : Receive(d)
    BY <1>3
  <2>2. /\ up' = [up EXCEPT ![d] = Tail(@)] /\ up[d] # <<>>
        /\ device_state' = [device_state EXCEPT ![d] = "buffered"]
    BY <2>1 DEF Receive, ReceiveAs
  <2>3. device_state'[d] = "buffered"
        /\ \A e \in Devices \ {d} : up'[e] = up[e] /\ device_state'[e] = device_state[e]
    BY <1>1, <2>2 DEF TypeOK
  <2> QED BY <2>2, <2>3
<1>4. CASE ~\E d \in Devices : Receive(d)
  <2>1. ASSUME ~\E t \in Threads : Handler(t) PROVE UNCHANGED <<up, device_state>>
    <3>1. ~\E d \in Devices : Drop(d)
      BY <1>1 DEF NoDrops, Drop, TypeOK
    <3>2. ASSUME NEW d \in Devices, Accept(d) \/ DeviceHandles(d)
          PROVE  UNCHANGED <<up, device_state>>
      BY <1>1, <1>4, <3>2, DeviceFrame
    <3> QED BY <1>1, <2>1, <3>1, <3>2, NoWeb, ServerFrame
            DEF Next, vars, server, registry
  <2> QED BY <1>2, <2>1
<1> QED BY <1>2, <1>3, <1>4

\* No step forgets what is buffered while somebody counts on it.
LEMMA FullNext ==
  ASSUME FirstSession, Stationary, Steady, FirstInv, FullInv, [Next]_vars
  PROVE  FullInv'
<1>1. /\ NoDrops /\ NoToggles /\ TypeOK /\ RegTypes /\ Links /\ StopInv /\ Stage
      /\ Devices \subseteq Threads /\ session \in Nat
  BY TypesSplit DEF FirstSession, FirstInv, Steady, Threads, TypeOK
<1>2. ASSUME NEW d \in Devices, device_state'[d] = "buffered" \/ up'[d] # <<>>
      PROVE  client'[d].pipe = Full \/ (client'[d].pipe = None /\ stream' = "off")
  <2>1. CASE client'[d].pipe = Full
    BY <2>1
  <2>2. CASE client'[d].pipe # Full
    <3>1. device_state[d] = "buffered" \/ up[d] # <<>>
      BY <1>1, <1>2, <2>2, StatusKept
    <3>2. client[d].pipe = Full \/ (client[d].pipe = None /\ stream = "off")
      BY <3>1 DEF FullInv
    <3>3. ~Hush'
      BY <1>2 DEF Hush
    <3> QED BY <3>2, <3>3, FullKept
  <2> QED BY <2>1, <2>2
<1>3. ASSUME NEW d \in Devices, NEW e \in Devices, thread'[d].pc \in Locked,
             GroupOf[e] = GroupOf[d]
      PROVE  device_state'[e] = "buffered"
  <2>1. CASE thread[d].pc \in Locked
    BY <1>1, <1>3, <2>1, StatusKept DEF FullInv
  <2>2. CASE thread[d].pc \notin Locked
    <3>1. TakeLock(d)
      <4>1. ~\E t \in Threads : Handler(t)
        <5> SUFFICES ASSUME NEW t \in Threads, Handler(t) PROVE FALSE
          OBVIOUS
        <5>1. t # d
          BY <2>2, HandlerBusy DEF Locked
        <5> QED BY <1>1, <1>3, <2>2, <5>1, HandlerPlace DEF Only
      <4>2. ~(ServerRun \/ AudioSteps)
        BY <1>1, <1>3, <2>2, ServerFrame DEF Only, Threads
      <4>3. ~\E c \in Devices : Drop(c)
        BY <1>1 DEF NoDrops, Drop, TypeOK
      <4>4. ~UNCHANGED vars
        BY <1>3, <2>2 DEF vars
      <4>5. PICK c \in Devices : Accept(c) \/ DeviceHandles(c)
        BY <1>1, <4>1, <4>2, <4>3, <4>4, NoWeb DEF Next
      <4>6. c = d
        BY <1>1, <1>3, <2>2, <4>5, DeviceFrame DEF Only
      <4>7. ASSUME NEW p \in {"register", "idle", "online?", "lock"}, Goto(d, p) PROVE FALSE
        BY <1>1, <1>3, <4>7, GoesTo DEF Places, Locked
      <4>8. ~GroupStatus(d) /\ ~Closed(d) /\ ~Remove(d) /\ ~GroupDisconnected(d)
        BY <1>1, <2>2 DEF GroupStatus, Closed, ClosedThen, Remove, GroupDisconnected, At,
           Locked, Links
      <4> QED BY <4>5, <4>6, <4>7, <4>8 DEF Accept, DeviceHandles, Register, GroupConnected,
              Receive, ReceiveAs
    <3>2. AllBuffered(GroupOf[d])
      <4>1. ~Goto(d, "idle")
        BY <1>1, <1>3, GoesTo DEF Places, Locked
      <4> QED BY <3>1, <4>1 DEF TakeLock, TakeLockAs
    <3>3. session > 0
      BY <1>1, <3>1 DEF StopInv, Stage, Hush, TakeLock, TakeLockAs, At
    <3>4. DeviceIn(e, GroupOf[d])
      BY <1>1, <1>3, <3>3, AllReady
    <3>5. device_state[e] = "buffered"
      BY <3>2, <3>4 DEF AllBuffered, DeviceIn
    <3> QED BY <1>1, <3>5, StatusKept
  <2> QED BY <2>1, <2>2
<1> QED BY <1>2, <1>3 DEF FullInv

\* A step that gives a device a play time gives it to one that is buffered.
LEMMA PlaysFull ==
  ASSUME SingleGroup, NoDrops, NoToggles, Steady, FullInv, [Next]_vars, NEW d \in Devices,
         client'[d].time # client[d].time, client'[d].time # None
  PROVE  client[d].pipe = Full
<1>1. PICK t \in Threads : Deliver(t)
  BY NothingSent
<1>2. d = Target(t) /\ thread[t].packet = "playing"
  BY <1>1, TimeHeard
<1>3. client[d].pipe # None
  BY <1>1, <1>2, Told
<1>4. t \in Devices
  BY <1>1, <1>2, NoWeb DEF Threads, Deliver, At, Steady, Roles, ServerRole, Sends
<1>5. thread[t].pc \in Locked
  BY <1>1 DEF Deliver, At, Locked
<1>6. GroupOf[d] = GroupOf[t]
  BY <1>4 DEF SingleGroup
<1> QED BY <1>3, <1>4, <1>5, <1>6 DEF FullInv

\* At the start nothing is buffered.
LEMMA FullInit == Init => FullInv
<1> SUFFICES ASSUME Init PROVE FullInv
  OBVIOUS
<1>1. \A d \in Devices : thread[d].pc = "idle"
  BY FreshFields DEF Init, Threads
<1> QED BY <1>1 DEF Init, FullInv, Locked

\* In the first session of one group whose devices are there from the start, a client
\* is given a play time only when its pipeline is buffered: the status each device
\* keeps is true of its client for as long as `playing' relies on it.
THEOREM PlaysAfterBuffered ==
  FirstSession /\ Stationary /\ SingleGroup => (Spec => PlayAfterBuffered)
<1> SUFFICES ASSUME FirstSession, Stationary, SingleGroup PROVE Spec => PlayAfterBuffered
  OBVIOUS
<1>1. NoDrops /\ NoToggles
  BY DEF FirstSession
<1>2. Spec => [](Steady /\ FirstInv)
  BY FirstHolds
<1>3. Steady /\ FirstInv /\ FullInv /\ [Next]_vars => FullInv'
  BY FullNext
<1> DEFINE Gives == \A d \in Devices : client'[d].time # client[d].time /\ client'[d].time # None
                                       => client[d].pipe = Full
<1>4. Steady /\ FullInv /\ [Next]_vars => [Gives]_vars
  BY <1>1, PlaysFull
<1>5. PlayAfterBuffered <=> [][Gives]_vars
  BY DEF PlayAfterBuffered
<1> HIDE DEF Gives
<1> QED BY <1>2, <1>3, <1>4, <1>5, FullInit, PTL DEF Spec

=============================================================================
