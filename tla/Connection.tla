------------------------------ MODULE Connection ------------------------------
(***************************************************************************)
(* How a client finds its server and keeps a connection to it:             *)
(* src/src/client/client.py, client_socket.py on one side,                 *)
(* src/src/server/server.py, device.py, server_socket.py on the other, and *)
(* the datagrams of src/src/common/multicast.py in between.  One client    *)
(* and the device that stands for it in the server: a device has a socket  *)
(* and a thread of its own, and datagrams carry the name of the client.    *)
(*                                                                         *)
(* Three threads of the client share its state: the `connector'            *)
(* (server_connector_run), the `multicast' thread, which creates the       *)
(* socket, and the thread of that socket.  In the server, the multicast    *)
(* thread answers requests and the device's thread accepts and serves.     *)
(* Each read and write of what threads share is a step of its own.         *)
(*                                                                         *)
(* Datagrams are lost, and late; either process may end at any moment and  *)
(* start again, the server with another endpoint.                          *)
(***************************************************************************)
EXTENDS Integers, Sequences, FiniteSets

CONSTANTS
  None,          \* Python's None, and the endpoint "None" of a refusal
  MaxDatagrams,  \* bound of the model: datagrams on their way, each direction
  MaxLosses,     \* bound of the model: datagrams lost
  MaxRestarts,   \* bound of the model: restarts of the server
  MaxCrashes     \* bound of the model: crashes of the client

Threads == {"connector", "multicast"}

ASSUME NoneAssumption == None \notin Int /\ None \notin Threads
ASSUME BoundAssumption ==
  /\ MaxDatagrams \in Nat \ {0} /\ MaxLosses \in Nat
  /\ MaxRestarts \in Nat /\ MaxCrashes \in Nat

VARIABLES
  \* the client's process
  process,           \* "up", "crashed" or "died"
  server_endpoint,   \* Client.server_endpoint
  socket,            \* is Client.socket a socket?
  socket_lock,       \* Client.socket_lock: the thread that holds it
  terminate_socket,  \* Client.terminate_socket
  server_connected,  \* Client.server_connected
  hw,                \* what HwCtl.server_connection was told last
  thread,            \* where the connector and the multicast thread are
  sock,              \* the thread of the ClientSocket, its endpoint, its signals
  \* the network
  requests,          \* get_server_socket datagrams on their way: how many
  answers,           \* server_socket datagrams on their way: their endpoints
  link,              \* the connection at the client's end
  \* the server's process
  endpoint,          \* of the device's socket, another one after a restart
  backlog,           \* connections that are not accepted yet
  device,            \* where the device's thread is, and what it serves
  device_connected,  \* Device.connected
  \* the environment
  faults,            \* datagrams lost, restarts and crashes so far
  timely             \* history: has each fault found nothing under way?

files == <<server_endpoint, socket, socket_lock, terminate_socket,
           server_connected, hw>>
client == <<process, files, thread, sock>>
network == <<requests, answers, link>>
server == <<endpoint, backlog, device, device_connected>>
environment == <<faults, timely>>
vars == <<client, network, server, environment>>

-----------------------------------------------------------------------------
At(t, place) == process = "up" /\ thread[t].pc = place
Goes(t, place) == thread' = [thread EXCEPT ![t].pc = place]
SockAt(place) == process = "up" /\ sock.pc = place
SockGoes(place) == sock' = [sock EXCEPT !.pc = place]

NoSocket == [pc |-> "none", endpoint |-> None, hooked |-> FALSE]
Start == [t \in Threads |-> [pc |-> "top", update |-> "test"]]
Listening == [pc |-> "accept", serves |-> "nothing"]

Init ==
  /\ process = "up"
  /\ server_endpoint = None /\ socket = FALSE /\ socket_lock = None
  /\ terminate_socket = FALSE /\ server_connected = FALSE /\ hw = FALSE
  /\ thread = Start /\ sock = NoSocket
  /\ requests = 0 /\ answers = <<>> /\ link = "none"
  /\ endpoint = 1 /\ backlog = <<>>
  /\ device = Listening /\ device_connected = FALSE
  /\ faults = [losses |-> 0, restarts |-> 0, crashes |-> 0]
  /\ timely = TRUE

UpdateInOrder(t, place, value, next, first, second) ==
  LET done == [pc |-> next, update |-> "test"]
      Then(step) == [pc |-> place, update |-> step]
      Follows(step) == thread' = [thread EXCEPT ![t] = IF step = first THEN Then(second)
                                                                       ELSE done]
  IN /\ At(t, place)
     /\ \/ /\ thread[t].update = "test"
           /\ thread' = [thread EXCEPT ![t] = IF server_connected = value THEN done
                                                                         ELSE Then(first)]
           /\ UNCHANGED <<hw, server_connected>>
        \/ /\ thread[t].update = "tell"
           /\ hw' = value
           /\ Follows("tell")
           /\ UNCHANGED server_connected
        \/ /\ thread[t].update = "assign"
           /\ server_connected' = value
           /\ Follows("assign")
           /\ UNCHANGED hw
     /\ UNCHANGED <<process, server_endpoint, socket, socket_lock, terminate_socket,
                    sock, network, server, environment>>

\* Mutation of UpdateConnected: the flag is assigned first.
AssignFirst(t, place, value, next) ==
  UpdateInOrder(t, place, value, next, "assign", "tell")

\* update_connected(value), of thread t at a place, before it goes to the next:
\* the test, what HwCtl is told, and the assignment
UpdateConnected(t, place, value, next) ==
  UpdateInOrder(t, place, value, next, "tell", "assign")

-----------------------------------------------------------------------------
(* The connector: server_connector_run                                     *)

\* if self.terminate_socket; the delay before it is time only
LookForClose ==
  /\ At("connector", "top")
  /\ Goes("connector", IF terminate_socket THEN "acquire" ELSE "look")
  /\ UNCHANGED <<process, files, sock, network, server, environment>>

Acquire ==
  /\ At("connector", "acquire") /\ socket_lock = None
  /\ socket_lock' = "connector"
  /\ terminate_socket' = FALSE
  /\ Goes("connector", IF socket THEN "join" ELSE "forget")
  /\ UNCHANGED <<process, server_endpoint, socket, server_connected, hw, sock,
                 network, server, environment>>

JoinLeaving(left) ==
  /\ At("connector", "join") /\ sock.pc = "ended"
  /\ socket' = left
  /\ sock' = NoSocket
  /\ Goes("connector", "forget")
  /\ UNCHANGED <<process, server_endpoint, socket_lock, terminate_socket,
                 server_connected, hw, network, server, environment>>

\* Mutation of Join: the socket is not reset to None.
JoinKeepsSocket == JoinLeaving(TRUE)

\* the lock is held while the socket's thread is waited for
Join == JoinLeaving(FALSE)

ForgetFor(new) ==
  /\ At("connector", "forget")
  /\ server_endpoint' = new
  /\ socket_lock' = None
  /\ Goes("connector", "offline")
  /\ UNCHANGED <<process, socket, terminate_socket, server_connected, hw, sock,
                 network, server, environment>>

\* Mutation of Forget: the endpoint is kept.
ForgetNothing == ForgetFor(server_endpoint)

\* the endpoint is forgotten, the player stopped and the lock released
Forget == ForgetFor(None)

LookForEndpoint ==
  /\ At("connector", "look")
  /\ Goes("connector", IF server_endpoint = None THEN "unknown" ELSE "known")
  /\ UNCHANGED <<process, files, sock, network, server, environment>>

\* get_server_socket is sent; the network holds MaxDatagrams of them
Ask ==
  /\ At("connector", "ask")
  /\ requests' = IF requests < MaxDatagrams THEN requests + 1 ELSE requests
  /\ Goes("connector", "top")
  /\ UNCHANGED <<process, files, sock, answers, link, server, environment>>

Connector ==
  \/ LookForClose \/ Acquire \/ Join \/ Forget
  \/ UpdateConnected("connector", "offline", FALSE, "look")
  \/ LookForEndpoint
  \/ UpdateConnected("connector", "unknown", FALSE, "ask")
  \/ Ask
  \/ UpdateConnected("connector", "known", TRUE, "top")

-----------------------------------------------------------------------------
(* The client's multicast thread: multicast_rx and start_socket            *)

\* The client's process is gone, and with it its end of the connection and
\* the datagrams it had not read; the server will read the end of it.
Ended(connection) == IF connection = "alive" THEN "ended" ELSE connection

Gone(status) ==
  /\ process' = status
  /\ server_endpoint' = None /\ socket' = FALSE /\ socket_lock' = None
  /\ terminate_socket' = FALSE /\ server_connected' = FALSE /\ hw' = FALSE
  /\ thread' = Start /\ sock' = NoSocket
  /\ answers' = <<>> /\ link' = "none"
  /\ backlog' = [i \in DOMAIN backlog |-> Ended(backlog[i])]
  /\ device' = [device EXCEPT !.serves = Ended(@)]

ReceiveIf(wanted) ==
  /\ At("multicast", "top") /\ answers # <<>>
  /\ \/ /\ wanted /\ Head(answers) # None
        /\ thread' = [thread EXCEPT !["multicast"].pc = "endpoint"]
        /\ UNCHANGED <<process, files, sock, answers, link, backlog, device>>
     \/ /\ wanted /\ Head(answers) = None
        /\ Gone("died")
     \/ /\ ~wanted
        /\ answers' = Tail(answers)
        /\ UNCHANGED <<client, link, backlog, device>>
  /\ UNCHANGED <<requests, endpoint, device_connected, environment>>

\* Mutation of Receive: the client is told again although it has a socket.
ReceiveAnyway == ReceiveIf(TRUE)

\* An answer is of interest while there is no socket; a refusal ends the client.
Receive == ReceiveIf(~socket)

KeepEndpoint ==
  /\ At("multicast", "endpoint")
  /\ server_endpoint' = Head(answers)
  /\ answers' = Tail(answers)
  /\ Goes("multicast", "lock")
  /\ UNCHANGED <<process, socket, socket_lock, terminate_socket, server_connected,
                 hw, sock, requests, link, server, environment>>

TakeLock ==
  /\ At("multicast", "lock") /\ socket_lock = None
  /\ socket_lock' = "multicast"
  /\ Goes("multicast", "claim")
  /\ UNCHANGED <<process, server_endpoint, socket, terminate_socket, server_connected,
                 hw, sock, network, server, environment>>

\* the ClientSocket's thread is started by its constructor
CreateSocket ==
  /\ At("multicast", "create")
  /\ sock' = [pc |-> "connect", endpoint |-> server_endpoint, hooked |-> FALSE]
  /\ Goes("multicast", "hook")
  /\ UNCHANGED <<process, files, network, server, environment>>

\* self.socket is assigned, the signals are connected to their slots
HookUp ==
  /\ At("multicast", "hook")
  /\ socket' = TRUE
  /\ sock' = [sock EXCEPT !.hooked = TRUE]
  /\ socket_lock' = None
  /\ Goes("multicast", "top")
  /\ UNCHANGED <<process, server_endpoint, terminate_socket, server_connected, hw,
                 network, server, environment>>

Multicast ==
  \/ Receive \/ KeepEndpoint \/ TakeLock
  \/ UpdateConnected("multicast", "claim", TRUE, "create")
  \/ CreateSocket \/ HookUp

-----------------------------------------------------------------------------
(* The thread of the client's socket: ClientSocket.run                     *)

Connects ==
  /\ SockAt("connect") /\ sock.endpoint = endpoint
  /\ link' = "up"
  /\ backlog' = Append(backlog, "alive")
  /\ SockGoes("opened")
  /\ UNCHANGED <<process, files, thread, requests, answers, endpoint, device,
                 device_connected, environment>>

\* ConnectionRefusedError and a timeout: the same endpoint is tried again,
\* since `connected' is false; and again.  An endpoint that the connector has
\* forgotten meanwhile is None, on which the thread raises: nothing follows either.
Refused ==
  /\ SockAt("connect") /\ sock.endpoint # endpoint
  /\ UNCHANGED vars

\* emit('socket', 'open') runs slot_socket under socket_lock
Opened ==
  /\ SockAt("opened")
  /\ sock.hooked => socket_lock = None
  /\ SockGoes("read")
  /\ UNCHANGED <<process, files, thread, network, server, environment>>

\* ConnectionResetError: connected is set false
Reset ==
  /\ SockAt("read") /\ link = "reset"
  /\ link' = "none"
  /\ SockGoes("closed")
  /\ UNCHANGED <<process, files, thread, requests, answers, server, environment>>

ClosedThen(place) ==
  /\ SockAt("closed")
  /\ sock.hooked => socket_lock = None
  /\ terminate_socket' = (terminate_socket \/ sock.hooked)
  /\ SockGoes(place)
  /\ UNCHANGED <<process, server_endpoint, socket, socket_lock, server_connected, hw,
                 thread, network, server, environment>>

\* Mutation of Closed: the thread does not terminate, it connects again.
ClosedGoesOn == ClosedThen("connect")

\* emit('socket', 'closed') runs slot_socket under socket_lock
Closed == ClosedThen("ending")

\* the loop ends and the socket is closed
Ends ==
  /\ SockAt("ending")
  /\ SockGoes("ended")
  /\ UNCHANGED <<process, files, thread, network, server, environment>>

Socket == Connects \/ Opened \/ Reset \/ Closed \/ Ends

-----------------------------------------------------------------------------
(* The server: multicast_rx, and the device's thread in ServerSocket.run   *)

\* A request of a device that is connected is refused.
Answer ==
  /\ requests > 0
  /\ requests' = requests - 1
  /\ answers' = IF process = "up" /\ Len(answers) < MaxDatagrams
                THEN Append(answers, IF device_connected THEN None ELSE endpoint)
                ELSE answers
  /\ UNCHANGED <<client, link, server, environment>>

\* accept
Accept ==
  /\ device.pc = "accept" /\ backlog # <<>>
  /\ device' = [pc |-> "configure", serves |-> Head(backlog)]
  /\ backlog' = Tail(backlog)
  /\ UNCHANGED <<client, network, endpoint, device_connected, environment>>

\* Device.slot_connected, after the configuration is sent
Configure ==
  /\ device.pc = "configure"
  /\ device_connected' = TRUE
  /\ device' = [device EXCEPT !.pc = "serve"]
  /\ UNCHANGED <<client, network, endpoint, backlog, environment>>

\* Device.slot_disconnected, once the end of the connection is read
Disconnected ==
  /\ device.pc = "serve" /\ device.serves = "ended"
  /\ device_connected' = FALSE
  /\ device' = Listening
  /\ UNCHANGED <<client, network, endpoint, backlog, environment>>

Serve == Accept \/ Configure \/ Disconnected

-----------------------------------------------------------------------------
(* The environment                                                         *)

Lose ==
  /\ faults.losses < MaxLosses
  /\ faults' = [faults EXCEPT !.losses = @ + 1]
  /\ \/ requests > 0 /\ requests' = requests - 1 /\ UNCHANGED answers
     \/ answers # <<>> /\ At("multicast", "top")
        /\ answers' = Tail(answers) /\ UNCHANGED requests
  /\ UNCHANGED <<client, link, server, timely>>

\* No datagram is on its way, about to be sent or being handled; the client has
\* a connection it reads, or no thread that would make one.
NothingUnderWay ==
  /\ requests = 0 /\ answers = <<>> /\ thread["multicast"].pc = "top"
  /\ thread["connector"].pc \notin {"unknown", "ask"}
  /\ sock.pc \in {"none", "read"}

ServerRestarts ==
  /\ faults.restarts < MaxRestarts
  /\ faults' = [faults EXCEPT !.restarts = @ + 1]
  /\ timely' = (timely /\ NothingUnderWay)
  /\ endpoint' = endpoint + 1
  /\ backlog' = <<>> /\ device' = Listening /\ device_connected' = FALSE
  /\ requests' = 0
  /\ link' = IF link = "up" THEN "reset" ELSE link
  /\ UNCHANGED <<client, answers>>

ClientCrashes ==
  /\ process = "up" /\ faults.crashes < MaxCrashes
  /\ faults' = [faults EXCEPT !.crashes = @ + 1]
  /\ Gone("crashed")
  /\ UNCHANGED <<requests, endpoint, device_connected, timely>>

\* systemd starts a client that crashed; it is timely when the server has
\* noticed that the connection is gone
ClientStarts ==
  /\ process = "crashed"
  /\ process' = "up"
  /\ timely' = (timely /\ ~device_connected /\ device.serves = "nothing" /\ backlog = <<>>)
  /\ UNCHANGED <<files, thread, sock, network, server, faults>>

Faults == Lose \/ ServerRestarts \/ ClientCrashes \/ ClientStarts

Next == Connector \/ Multicast \/ Socket \/ Refused \/ Answer \/ Serve \/ Faults

Spec == Init /\ [][Next]_vars

\* The threads run, and a crashed client is started.
Fairness ==
  /\ WF_vars(Connector) /\ WF_vars(Multicast) /\ WF_vars(Socket)
  /\ WF_vars(Answer) /\ WF_vars(Serve) /\ WF_vars(ClientStarts)

FairSpec == Spec /\ Fairness

-----------------------------------------------------------------------------
ConnectorPlaces == {"top", "acquire", "join", "forget", "offline", "look",
                    "unknown", "ask", "known"}
MulticastPlaces == {"top", "endpoint", "lock", "claim", "create", "hook"}
Updates == {"test", "tell", "assign"}
Endpoints == Nat \cup {None}

\* Every variable has its type, and Client.socket stands for a thread.
TypeOK ==
  /\ process \in {"up", "crashed", "died"}
  /\ server_endpoint \in Endpoints
  /\ socket \in BOOLEAN
  /\ socket_lock \in {"connector", "multicast", None}
  /\ terminate_socket \in BOOLEAN
  /\ server_connected \in BOOLEAN
  /\ hw \in BOOLEAN
  /\ thread \in [Threads -> [pc : ConnectorPlaces \cup MulticastPlaces, update : Updates]]
  /\ thread["connector"].pc \in ConnectorPlaces
  /\ thread["multicast"].pc \in MulticastPlaces
  /\ sock \in [pc : {"none", "connect", "opened", "read", "closed", "ending", "ended"},
               endpoint : Endpoints, hooked : BOOLEAN]
  /\ socket => sock.pc # "none"
  /\ requests \in 0..MaxDatagrams
  /\ answers \in Seq(Endpoints) /\ Len(answers) <= MaxDatagrams
  /\ link \in {"none", "up", "reset"}
  /\ endpoint \in Nat
  /\ backlog \in Seq({"alive", "ended"})
  /\ device \in [pc : {"accept", "configure", "serve"},
                 serves : {"nothing", "alive", "ended"}]
  /\ device_connected \in BOOLEAN
  /\ faults \in [losses : 0..MaxLosses, restarts : 0..MaxRestarts,
                 crashes : 0..MaxCrashes]
  /\ timely \in BOOLEAN

\* The connector holds socket_lock while it waits for the socket's thread to
\* end, and slot_socket of that thread takes the same lock: they never wait for
\* each other, since the thread that is joined has left its last slot.
JoinEnds ==
  At("connector", "join") => sock.pc \in {"ending", "ended"}

\* A refusal is meant for a second client of the same name ("already have a
\* device with that id", multicast_rx of server.py): as long as faults are timely,
\* no answer to a request that was repeated, delayed or late for a connection
\* ends the only client there is.
NeverRefused == timely => process # "died"

\* What the hardware was told last is what the client keeps, whenever neither of
\* the two threads is between the two: update_connected takes no lock, and both
\* may be in it with different values.
HardwareAgrees ==
  (\A t \in Threads : thread[t].update = "test")
    => hw = server_connected

\* Client and server are connected, both know it, and so does the hardware.
Linked ==
  /\ process = "up" /\ socket /\ sock.pc = "read" /\ sock.hooked /\ link = "up"
  /\ server_connected /\ hw
  /\ device_connected /\ device.serves = "alive"

\* Client and server find each other (doc/quick_start.rst), and again after each
\* of them was restarted: with timely faults they end up connected for good.
Reconnects == <>[](timely => Linked)

=============================================================================
