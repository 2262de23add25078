---------------------------- MODULE PlaySequencer ----------------------------
(***************************************************************************)
(* The playing core of the server: the loop of Server.run, PlaySequencer,  *)
(* its Groups and their Devices (src/src/server/server.py,                 *)
(* playsequencer.py, group.py, device.py, server_socket.py), with the      *)
(* client reduced to what it does with the packets it is sent, which       *)
(* PlayingClient states.                                                   *)
(*                                                                         *)
(* Three kinds of thread run in these classes: the server's, which polls   *)
(* the input multiplexer; the websocket's, which sets a group's `playing'  *)
(* parameter; and one per device, which accepts the client, reads its      *)
(* messages and notices that it is gone.  A slot runs in the thread that   *)
(* emits the signal, so all of them run through PlaySequencer and Group.   *)
(* Each read and write of what the threads share is a step of its own.     *)
(*                                                                         *)
(* A client acts only on what it reads from its socket, in order, so it is *)
(* modelled as acting when the packet is sent; all of the delay of the     *)
(* connection is in `up', what it sends back.                              *)
(***************************************************************************)
EXTENDS PlayingClient, Sequences, FiniteSets

CONSTANTS
  Groups,        \* the groups of the configuration
  Devices,       \* the devices of all groups
  GroupOf,       \* the group of a device
  LateJoin,      \* may a client connect once a source has played?
  Pauses,        \* may a source stop?
  MaxSessions,   \* bound of the model: codec events
  MaxDrops,      \* bound of the model: connections lost
  MaxToggles     \* bound of the model: changes of a group's `playing'

ASSUME GroupOfAssumption == GroupOf \in [Devices -> Groups]
ASSUME NoneAssumption == None \notin Groups /\ None \notin Devices /\ None # "buffered"
ASSUME ThreadAssumption == {"server", "web"} \cap Devices = {}
ASSUME BoundAssumption ==
  /\ MaxSessions \in Nat /\ MaxDrops \in Nat /\ MaxToggles \in Nat
  /\ LateJoin \in BOOLEAN /\ Pauses \in BOOLEAN

VARIABLES
  m_state,            \* PlaySequencer.m_state
  connected_groups,   \* how often a group is in the list of online groups
  play_enabled,       \* Group.jsn['general']['playing'] = 'true'
  connected_devices,  \* Group.connected_devices
  group_lock,         \* Group.lock: the thread that holds it
  connected,          \* Device.connected
  device_state,       \* Device._state
  thread,             \* where each thread is, and its local variables
  client,             \* the client of each device
  up,                 \* what a client has sent and the server has not read
  stream,             \* what the multiplexer has delivered of a session
  session,            \* history: the number of sessions so far
  play_times,         \* history: the number of play times picked so far
  drops, toggles      \* the bounded events so far

registry == <<connected_groups, play_enabled, connected_devices, connected,
              device_state>>
server == <<m_state, group_lock, registry>>
history == <<stream, session, play_times, drops, toggles>>
vars == <<server, thread, client, up, history>>

-----------------------------------------------------------------------------
Threads == Devices \cup {"server", "web"}
States == {"stopped", "buffering", "playing"}
Range(s) == {s[i] : i \in DOMAIN s}

\* A thread between two events.  new is the argument of state_changed,
\* packet what is being sent; todo, group and idx are the iterators of the
\* loops over groups and over the devices of a group; time is play_time; next is
\* the packet the handler still has to send after this one.
Idle == [pc |-> "idle", new |-> "stopped", packet |-> "audio", todo |-> {},
         group |-> None, idx |-> 1, time |-> 0, next |-> "nothing"]

Init ==
  /\ m_state = "stopped"
  /\ connected_groups = [g \in Groups |-> 0]
  /\ play_enabled = [g \in Groups |-> TRUE]
  /\ connected_devices = [g \in Groups |-> <<>>]
  /\ group_lock = [g \in Groups |-> None]
  /\ connected = [d \in Devices |-> FALSE]
  /\ device_state = [d \in Devices |-> None]
  /\ thread = [t \in Threads |-> Idle]
  /\ client = [d \in Devices |-> Offline]
  /\ up = [d \in Devices |-> <<>>]
  /\ stream = "off"
  /\ session = 0 /\ play_times = 0 /\ drops = 0 /\ toggles = 0

At(t, place) == thread[t].pc = place
\* thread t goes on with the local variables `here', or just to another place
Continues(t, here) == thread' = [thread EXCEPT ![t] = here]
Goto(t, place) == Continues(t, [thread[t] EXCEPT !.pc = place])

\* a thread that starts to send a packet to all groups, or to the devices of one
ToAll(packet) == [Idle EXCEPT !.pc = "groups", !.packet = packet]
ToGroup(g, packet) == [Idle EXCEPT !.pc = "send", !.group = g, !.packet = packet]

-----------------------------------------------------------------------------
(* Sending: for _group in playing_groups(): for _device in                 *)
(* connected_devices: _device.socket.send(packet)                          *)

ready_to_play(g) == connected_devices[g] # <<>> /\ play_enabled[g]

\* The groups are picked once; with the first of them, the play time.
SnapshotGroups(t) ==
  /\ At(t, "groups")
  /\ LET todo == {g \in Groups : ready_to_play(g)}
         picks == thread[t].packet = "playing" /\ todo # {}
     IN  /\ play_times' = IF picks THEN play_times + 1 ELSE play_times
         /\ Continues(t, [thread[t] EXCEPT !.pc = "send", !.todo = todo, !.group = None,
                                           !.idx = 1, !.time = play_times'])
  /\ UNCHANGED <<server, client, up, stream, session, drops, toggles>>

DeviceIn(d, g) == d \in Range(connected_devices[g])

\* Mutation of InGroup: the last device of the list is left out.
InGroupButLast(t) ==
  /\ thread[t].group # None
  /\ thread[t].idx < Len(connected_devices[thread[t].group])

InGroup(t) ==
  /\ thread[t].group # None
  /\ thread[t].idx <= Len(connected_devices[thread[t].group])

\* The loop over connected_devices is over the list itself, by index: what
\* other threads append or remove meanwhile shows.  What is sent to a
\* connection that is gone is lost.
Deliver(t) ==
  /\ At(t, "send") /\ InGroup(t)
  /\ LET d == connected_devices[thread[t].group][thread[t].idx]
         c == client[d]
     IN  IF c.link
         THEN /\ client' = [client EXCEPT ![d] = React(c, thread[t].packet, session, thread[t].time)]
              /\ up' = IF EmitsBuffered(c, thread[t].packet)
                       THEN [up EXCEPT ![d] = Append(@, "buffered")] ELSE up
         ELSE UNCHANGED <<client, up>>
  /\ Continues(t, [thread[t] EXCEPT !.idx = @ + 1])
  /\ UNCHANGED <<server, history>>

NextGroup(t) ==
  /\ At(t, "send") /\ ~InGroup(t)
  /\ \E g \in thread[t].todo :
       Continues(t, [thread[t] EXCEPT !.group = g, !.idx = 1, !.todo = @ \ {g}])
  /\ UNCHANGED <<server, client, up, history>>

\* The handler's end: the thread is idle, and the lock of the group, which a
\* device's thread holds while a message of it is handled, is released.
Return(t) ==
  /\ Continues(t, Idle)
  /\ group_lock' = [g \in Groups |-> IF group_lock[g] = t THEN None ELSE group_lock[g]]

\* What follows state_changed and stop_playing: new_audio goes on to send the
\* audio to all groups, set_param to send the parameter to its group.
Continue(t) ==
  \/ /\ thread[t].next = "nothing"
     /\ Return(t)
  \/ /\ thread[t].next = "audio"
     /\ Continues(t, ToAll("audio"))
     /\ UNCHANGED group_lock
  \/ /\ thread[t].next = "disable"
     /\ Continues(t, [thread[t] EXCEPT !.packet = "disable", !.idx = 1, !.next = "nothing"])
     /\ UNCHANGED group_lock

Sent(t) ==
  /\ At(t, "send") /\ ~InGroup(t) /\ thread[t].todo = {}
  /\ Continue(t)
  /\ UNCHANGED <<m_state, registry, client, up, history>>

Send(t) == SnapshotGroups(t) \/ Deliver(t) \/ NextGroup(t) \/ Sent(t)

-----------------------------------------------------------------------------
(* state_changed, in whichever thread                                      *)

PacketOf(new) == CASE new = "stopped" -> "stopping"
                   [] new = "buffering" -> "buffering"
                   [] new = "playing" -> "playing"

ChangeIf(t, differs) ==
  /\ At(t, "change")
  /\ \/ differs /\ Goto(t, "set") /\ UNCHANGED group_lock
     \/ ~differs /\ Continue(t)
  /\ UNCHANGED <<m_state, registry, client, up, history>>

\* Mutation of Change: only what plays is stopped, not what is buffering.
ChangePlayingOnly(t) ==
  ChangeIf(t, m_state # thread[t].new /\ (thread[t].new = "stopped" => m_state = "playing"))

Change(t) == ChangeIf(t, m_state # thread[t].new)

SetState(t) ==
  /\ At(t, "set")
  /\ m_state' = thread[t].new
  /\ Continues(t, [thread[t] EXCEPT !.pc = "groups", !.packet = PacketOf(thread[t].new)])
  /\ UNCHANGED <<registry, group_lock, client, up, history>>

StateChanged(t) == Change(t) \/ SetState(t)

-----------------------------------------------------------------------------
(* The server's thread: Server.run                                         *)

Polled(here) == Continues("server", here)

\* Without LateJoin, source and user wait for every device to be there.
Settled == LateJoin \/ \A d \in Devices : DeviceIn(d, GroupOf[d])

\* set_codec; a session starts when nothing plays
SetCodec ==
  /\ At("server", "idle") /\ stream = "off" /\ session < MaxSessions
  /\ Settled
  /\ stream' = "codec"
  /\ session' = session + 1
  /\ Polled(ToAll("setcodec"))
  /\ UNCHANGED <<server, client, up, play_times, drops, toggles>>

\* set_samplerate; not every source sends a sample rate
SetSamplerate ==
  /\ At("server", "idle") /\ stream = "codec"
  /\ stream' = "on"
  /\ Polled(ToAll("setsamplerate"))
  /\ UNCHANGED <<server, client, up, session, play_times, drops, toggles>>

\* set_state('stop')
SetStop ==
  /\ At("server", "idle") /\ stream # "off" /\ Pauses
  /\ stream' = "off"
  /\ Polled([Idle EXCEPT !.pc = "change", !.new = "stopped"])
  /\ UNCHANGED <<server, client, up, session, play_times, drops, toggles>>

\* new_audio reads m_state three times before it sends the audio: into
\* new_state, then to see if it is STOPPED, then to compare it with new_state.
NewAudio ==
  /\ At("server", "idle") /\ stream # "off"
  /\ stream' = "on"
  /\ Polled([Idle EXCEPT !.pc = "stopped?", !.new = m_state])
  /\ UNCHANGED <<server, client, up, session, play_times, drops, toggles>>

AudioStarts ==
  /\ At("server", "stopped?")
  /\ Polled([thread["server"] EXCEPT !.pc = "differs?",
               !.new = IF m_state = "stopped" THEN "buffering" ELSE @])
  /\ UNCHANGED <<server, client, up, history>>

AudioChanges ==
  /\ At("server", "differs?")
  /\ Polled(IF thread["server"].new # m_state
            THEN [thread["server"] EXCEPT !.pc = "change", !.next = "audio"]
            ELSE ToAll("audio"))
  /\ UNCHANGED <<server, client, up, history>>

ServerRun == SetCodec \/ SetSamplerate \/ SetStop \/ NewAudio
AudioSteps == AudioStarts \/ AudioChanges

-----------------------------------------------------------------------------
(* The websocket's thread: Group.set_param of general.playing              *)

SetParamSending(g, on, off) ==
  /\ At("web", "idle") /\ toggles < MaxToggles /\ Settled
  /\ toggles' = toggles + 1
  /\ play_enabled' = [play_enabled EXCEPT ![g] = ~@]
  /\ Continues("web", IF play_enabled[g] THEN off ELSE on)
  /\ UNCHANGED <<m_state, connected_groups, connected_devices, group_lock, connected,
                 device_state, client, up, stream, session, play_times, drops>>

\* Mutation of SetParam: a group that stops playing is not sent the parameter.
SetParamStops(g) == SetParamSending(g, ToGroup(g, "enable"), ToGroup(g, "stopping"))

\* the parameter, after a stop when it is 'false'
SetParam(g) == SetParamSending(g, ToGroup(g, "enable"),
                               [ToGroup(g, "stopping") EXCEPT !.next = "disable"])

-----------------------------------------------------------------------------
(* The thread of a device: ServerSocket.run and the slots it ends in       *)

Without(s, d) == LET i == CHOOSE i \in DOMAIN s : s[i] = d
                 IN  [j \in 1..(Len(s) - 1) |-> IF j < i THEN s[j] ELSE s[j + 1]]

\* accept, and Device.slot_connected: the client is sent its configuration
\* before the device is registered
Accept(d) ==
  /\ At(d, "idle") /\ ~connected[d] /\ ~client[d].link /\ up[d] = <<>>
  /\ LateJoin \/ session = 0
  /\ connected' = [connected EXCEPT ![d] = TRUE]
  /\ client' = [client EXCEPT ![d].link = TRUE, ![d].param = play_enabled[GroupOf[d]]]
  /\ Goto(d, "register")
  /\ UNCHANGED <<m_state, connected_groups, play_enabled, connected_devices,
                 group_lock, device_state, up, history>>

\* Group.slot_device_connected: the append, then the length of the list
Register(d) ==
  /\ At(d, "register")
  /\ IF DeviceIn(d, GroupOf[d])
     THEN Goto(d, "idle") /\ UNCHANGED connected_devices
     ELSE /\ connected_devices' = [connected_devices EXCEPT ![GroupOf[d]] = Append(@, d)]
          /\ Goto(d, "online?")
  /\ UNCHANGED <<m_state, connected_groups, play_enabled, group_lock,
                 connected, device_state, client, up, history>>

\* PlaySequencer.slot_group_connected
GroupConnected(d) ==
  /\ At(d, "online?")
  /\ connected_groups' =
       IF Len(connected_devices[GroupOf[d]]) = 1
       THEN [connected_groups EXCEPT ![GroupOf[d]] = @ + 1] ELSE connected_groups
  /\ Goto(d, "idle")
  /\ UNCHANGED <<m_state, play_enabled, connected_devices, group_lock,
                 connected, device_state, client, up, history>>

ReceiveAs(d, status) ==
  /\ At(d, "idle") /\ up[d] # <<>> /\ Head(up[d]) = "buffered"
  /\ up' = [up EXCEPT ![d] = Tail(@)]
  /\ device_state' = [device_state EXCEPT ![d] = status]
  /\ Goto(d, "lock")
  /\ UNCHANGED <<m_state, connected_groups, play_enabled, connected_devices,
                 group_lock, connected, client, history>>

\* Mutation of Receive: the status is not kept.
ReceiveForgets(d) == ReceiveAs(d, device_state[d])

\* Device.slot_message: the status is kept, then the group takes its lock
Receive(d) == ReceiveAs(d, "buffered")

\* Mutation of AllBuffered: one device is enough.
OneBuffered(g) == \E d \in Range(connected_devices[g]) : device_state[d] = "buffered"

\* Group.slot_device_message: emits the status once all connected devices
\* have it
AllBuffered(g) == \A d \in Range(connected_devices[g]) : device_state[d] = "buffered"

TakeLockAs(d, holder) ==
  /\ At(d, "lock") /\ group_lock[GroupOf[d]] = None
  /\ IF AllBuffered(GroupOf[d])
     THEN /\ group_lock' = [group_lock EXCEPT ![GroupOf[d]] = holder]
          /\ Goto(d, "status")
     ELSE Goto(d, "idle") /\ UNCHANGED group_lock
  /\ UNCHANGED <<m_state, registry, client, up, history>>

\* Mutation of TakeLock: the messages of two devices are handled at once.
TakeNoLock(d) == TakeLockAs(d, None)

TakeLock(d) == TakeLockAs(d, d)

\* PlaySequencer.slot_group_status
GroupStatus(d) ==
  /\ At(d, "status")
  /\ IF m_state = "buffering"
     THEN /\ Continues(d, [thread[d] EXCEPT !.pc = "change", !.new = "playing"])
          /\ UNCHANGED group_lock
     ELSE Return(d)
  /\ UNCHANGED <<m_state, registry, client, up, history>>

ClosedThen(d, place) ==
  /\ At(d, "idle") /\ connected[d] /\ up[d] # <<>> /\ Head(up[d]) = "closed"
  /\ up' = [up EXCEPT ![d] = <<>>]
  /\ connected' = [connected EXCEPT ![d] = FALSE]
  /\ Goto(d, place)
  /\ UNCHANGED <<m_state, connected_groups, play_enabled, connected_devices,
                 group_lock, device_state, client, history>>

\* Mutation of Closed: the group is not told.
ClosedSilently(d) == ClosedThen(d, "idle")

\* Device.slot_disconnected, once all that was received is handled
Closed(d) == ClosedThen(d, "remove")

\* Group.slot_device_disconnected: the remove, then the length of the list
Remove(d) ==
  /\ At(d, "remove")
  /\ IF DeviceIn(d, GroupOf[d])
     THEN /\ connected_devices' = [connected_devices EXCEPT ![GroupOf[d]] = Without(@, d)]
          /\ Goto(d, "offline?")
     ELSE Goto(d, "idle") /\ UNCHANGED connected_devices
  /\ UNCHANGED <<m_state, connected_groups, play_enabled, group_lock,
                 connected, device_state, client, up, history>>

\* PlaySequencer.slot_group_disconnected; removing a group that is not in the
\* list raises, and is logged
GroupDisconnected(d) ==
  /\ At(d, "offline?")
  /\ connected_groups' =
       IF connected_devices[GroupOf[d]] = <<>> /\ connected_groups[GroupOf[d]] > 0
       THEN [connected_groups EXCEPT ![GroupOf[d]] = @ - 1] ELSE connected_groups
  /\ Goto(d, "idle")
  /\ UNCHANGED <<m_state, play_enabled, connected_devices, group_lock,
                 connected, device_state, client, up, history>>

DeviceHandles(d) ==
  \/ Register(d) \/ GroupConnected(d) \/ Receive(d) \/ TakeLock(d)
  \/ GroupStatus(d) \/ Closed(d) \/ Remove(d) \/ GroupDisconnected(d)

-----------------------------------------------------------------------------
\* The connection of a client is lost: it stops its player and may have been
\* restarted; what it sent last is received or not.
Drop(d) ==
  /\ client[d].link /\ drops < MaxDrops
  /\ drops' = drops + 1
  /\ \E codec \in {0, client[d].codec} :
       client' = [client EXCEPT ![d] = [Offline EXCEPT !.codec = codec]]
  /\ \E received \in {<<>>, up[d]} :
       up' = [up EXCEPT ![d] = Append(received, "closed")]
  /\ UNCHANGED <<server, thread, stream, session, play_times, toggles>>

Handler(t) == Send(t) \/ StateChanged(t)

Next ==
  \/ ServerRun
  \/ AudioSteps
  \/ \E g \in Groups : SetParam(g)
  \/ \E d \in Devices : Accept(d) \/ DeviceHandles(d) \/ Drop(d)
  \/ \E t \in Threads : Handler(t)

Spec == Init /\ [][Next]_vars

\* The threads run on; a source, a client and a user are under no obligation.
Fairness ==
  /\ WF_vars(AudioSteps)
  /\ \A t \in Threads : WF_vars(Handler(t))
  /\ \A d \in Devices : WF_vars(DeviceHandles(d))

FairSpec == Spec /\ Fairness

-----------------------------------------------------------------------------
Places == {"idle", "groups", "send", "change", "set", "stopped?", "differs?",
           "register", "online?", "lock", "status", "remove", "offline?"}

ThreadRecord ==
  [pc : Places, new : States, packet : Packets, todo : SUBSET Groups,
   group : Groups \cup {None}, idx : Nat \ {0}, time : Nat,
   next : {"nothing", "audio", "disable"}]

\* Every variable has its type.
TypeOK ==
  /\ m_state \in States
  /\ connected_groups \in [Groups -> Nat]
  /\ play_enabled \in [Groups -> BOOLEAN]
  /\ connected_devices \in [Groups -> Seq(Devices)]
  /\ group_lock \in [Groups -> Devices \cup {None}]
  /\ connected \in [Devices -> BOOLEAN]
  /\ device_state \in [Devices -> {None, "buffered"}]
  /\ thread \in [Threads -> ThreadRecord]
  /\ client \in [Devices -> [link : BOOLEAN, param : BOOLEAN \cup {None},
                             codec : Nat, decodes : Nat,
                             pipe : 0..Full \cup {None},
                             time : Nat \cup {None}, amp : BOOLEAN]]
  /\ up \in [Devices -> Seq({"buffered", "closed"})]
  /\ stream \in {"off", "codec", "on"}
  /\ session \in Nat /\ play_times \in Nat /\ drops \in Nat /\ toggles \in Nat

Sounding(d) == client[d].time # None

\* Nothing is on its way: every thread waits for an event, and every message
\* of a client has been handled.
Quiet == /\ \A t \in Threads : thread[t].pc = "idle"
         /\ \A d \in Devices : up[d] = <<>>

\* A device is registered in its group, and once only, while its thread serves a
\* client, and not at all while it waits for one: connections that come and go,
\* and messages that cross them, leave no device behind and lose none.
Registered ==
  /\ \A d \in Devices : At(d, "idle") => (DeviceIn(d, GroupOf[d]) <=> connected[d])
  /\ \A g \in Groups : \A i, j \in DOMAIN connected_devices[g] :
       connected_devices[g][i] = connected_devices[g][j] => i = j

\* Once picking a play time it should be the same for all groups (the comment
\* in state_changed): when all has been said, the loudspeakers that play do so
\* from the same time.
SamePlayTime ==
  Quiet => \A d, e \in Devices :
             Sounding(d) /\ Sounding(e) => client[d].time = client[e].time

\* A stop silences: when the source has stopped and all has been said, no
\* client's pipeline plays, whatever `buffered' and play time the stop met on
\* its way.
StopSilences == Quiet /\ stream = "off" => \A d \in Devices : ~Sounding(d)

\* What plays has power: a client that was given a play time has been told to
\* switch its amplifier on, and not told to switch it off since.
SoundHasPower == Quiet => \A d \in Devices : Sounding(d) => client[d].amp

\* A client is given a play time only when its pipeline is buffered (steps 4
\* and 5 of the event sequence in player.py).
PlayAfterBuffered ==
  [][\A d \in Devices :
       client'[d].time # client[d].time /\ client'[d].time # None
       => client[d].pipe = Full]_vars

\* What is sent goes to all groups and devices in one go (the docstring of
\* PlaySequencer): when all has been said, every device connected since before
\* the session has heard its codec.
AllHearTheCodec ==
  Quiet /\ stream # "off" =>
    \A d \in Devices : connected[d] => client[d].codec = session

\* The configuration the server keeps is the one its clients have (README).
ConfigurationReaches ==
  Quiet => \A d \in Devices : connected[d] => client[d].param = play_enabled[GroupOf[d]]

\* In the stationary deployment, every client connected before the source
\* starts, a stream that goes on makes every client play.
StreamStarts == []<><<NewAudio>>_vars => <>(\A d \in Devices : Sounding(d))

\* A group can play as long as just a single client is connected (the comment
\* in ready_to_play).
SingleClientPlays ==
  []<><<NewAudio>>_vars
  /\ (\E d \in Devices : <>[](connected[d] /\ client[d].link))
  => <>(\E d \in Devices : Sounding(d))

=============================================================================
