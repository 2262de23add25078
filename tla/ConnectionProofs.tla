--------------------------- MODULE ConnectionProofs ---------------------------
(***************************************************************************)
(* Proofs about the connection of a client: its threads never wait for     *)
(* each other, the hardware is told what the client keeps, and the server  *)
(* does not refuse the only client there is while faults are timely, for   *)
(* any number of datagrams, losses, restarts and crashes.                  *)
(***************************************************************************)
EXTENDS Connection, TLAPS

connector == thread["connector"].pc
multicast == thread["multicast"].pc

\* Who holds socket_lock is where it is held.
Holding ==
  /\ socket_lock = "connector" <=> connector \in {"join", "forget"}
  /\ socket_lock = "multicast" <=> multicast \in {"claim", "create", "hook"}

\* Client.socket is the socket whose signals are hooked up; the multicast thread
\* is on its way to a new one only while there is none.
OneSocket ==
  /\ sock.hooked = socket
  /\ sock.hooked => sock.pc # "none"
  /\ multicast # "top" => ~socket
  /\ multicast = "hook" => sock.pc # "none"

\* A socket is to be terminated once its thread has left its last slot, and the
\* connector comes for no other.
Terminating ==
  /\ terminate_socket => socket /\ sock.pc \in {"ending", "ended"}
  /\ connector = "acquire" => terminate_socket
  /\ connector = "join" => socket /\ sock.pc \in {"ending", "ended"} /\ ~terminate_socket

Locks == Holding /\ OneSocket /\ Terminating

\* The value that a thread at this place passes to update_connected.
Wanted(t) == thread[t].pc \in {"known", "claim"}

Busy(t) == thread[t].update # "test"

\* The two threads in update_connected: whoever has told the hardware has told it
\* what it wants, and as long as neither has, the flag is what the hardware knows.
Tells(t) ==
  /\ Busy(t) => thread[t].pc \in {"offline", "unknown", "known", "claim"}
  /\ thread[t].update = "assign" => (hw <=> Wanted(t))

Telling ==
  /\ Tells("connector") /\ Tells("multicast")
  /\ thread["connector"].update # "assign" /\ thread["multicast"].update # "assign"
       => (hw <=> server_connected)

\* They never want the opposite at once: the connector resets a flag that is set,
\* on which the multicast thread does nothing, and does not turn to resetting it
\* while the multicast thread comes with an endpoint.
Agreeing ==
  /\ Busy("connector") /\ ~Wanted("connector")
       => server_connected /\ ~Busy("multicast")
  /\ connector = "known" => server_endpoint # None
  /\ Busy("multicast") /\ server_connected
       => server_endpoint # None /\ connector \in {"top", "look", "known"}
  /\ multicast = "endpoint" => answers # <<>> /\ Head(answers) # None

Updating == Telling /\ Agreeing

Inv == TypeOK /\ Locks /\ Updating

-----------------------------------------------------------------------------
\* Initially nobody is under way, holds the lock or has told anything.
LEMMA InvInit == Init => Inv
<1> SUFFICES ASSUME Init PROVE Inv
  OBVIOUS
<1> USE DEF Init, Start, Threads, NoSocket, Listening
<1>1. thread["connector"] = [pc |-> "top", update |-> "test"]
      /\ thread["multicast"] = [pc |-> "top", update |-> "test"]
  OBVIOUS
<1>2. thread \in [Threads -> [pc : ConnectorPlaces \cup MulticastPlaces, update : Updates]]
  BY DEF ConnectorPlaces, Updates
<1>3. faults \in [losses : 0..MaxLosses, restarts : 0..MaxRestarts, crashes : 0..MaxCrashes]
  BY BoundAssumption
<1>4. sock \in [pc : {"none", "connect", "opened", "read", "closed", "ending", "ended"},
                endpoint : Endpoints, hooked : BOOLEAN]
  BY DEF Endpoints
<1>5. requests \in 0..MaxDatagrams /\ Len(answers) <= MaxDatagrams
  BY BoundAssumption
<1>6. /\ server_endpoint \in Endpoints /\ endpoint \in Nat
      /\ answers \in Seq(Endpoints) /\ backlog \in Seq({"alive", "ended"})
      /\ device \in [pc : {"accept", "configure", "serve"},
                    serves : {"nothing", "alive", "ended"}]
  BY DEF Endpoints
<1>7. thread["connector"].pc \in ConnectorPlaces /\ thread["multicast"].pc \in MulticastPlaces
  BY <1>1 DEF ConnectorPlaces, MulticastPlaces
<1>8. TypeOK
  BY <1>2, <1>3, <1>4, <1>5, <1>6, <1>7 DEF TypeOK
<1>9. Locks
  BY <1>1, NoneAssumption DEF Locks, Holding, OneSocket, Terminating, connector, multicast
<1>10. Updating
  BY <1>1 DEF Updating, Telling, Tells, Agreeing, Busy, Wanted, connector, multicast
<1> QED BY <1>8, <1>9, <1>10 DEF Inv


Places == ConnectorPlaces \cup MulticastPlaces

\* What a thread that goes on to another place leaves alone.
LEMMA GoesLemma ==
  ASSUME thread \in [Threads -> [pc : Places, update : Updates]],
         NEW t \in Threads, NEW place \in Places, Goes(t, place)
  PROVE  /\ thread' \in [Threads -> [pc : Places, update : Updates]]
         /\ thread'[t].pc = place /\ thread'[t].update = thread[t].update
         /\ \A u \in Threads \ {t} : thread'[u] = thread[u]
<1> DEFINE at == [thread[t] EXCEPT !.pc = place]
<1>1. thread[t] \in [pc : Places, update : Updates]
  OBVIOUS
<1>2. at \in [pc : Places, update : Updates] /\ at.pc = place /\ at.update = thread[t].update
  BY <1>1
<1>3. thread' = [thread EXCEPT ![t] = at]
  BY DEF Goes
<1> HIDE DEF at
<1> QED BY <1>2, <1>3

\* The four steps of update_connected(value).
Steps(t, place, value, next) ==
  \/ /\ thread[t].update = "test" /\ server_connected = value
     /\ thread'[t].pc = next /\ thread'[t].update = "test"
     /\ UNCHANGED <<hw, server_connected>>
  \/ /\ thread[t].update = "test" /\ server_connected # value
     /\ thread'[t].pc = place /\ thread'[t].update = "tell"
     /\ UNCHANGED <<hw, server_connected>>
  \/ /\ thread[t].update = "tell"
     /\ thread'[t].pc = place /\ thread'[t].update = "assign"
     /\ hw' = value /\ UNCHANGED server_connected
  \/ /\ thread[t].update = "assign"
     /\ thread'[t].pc = next /\ thread'[t].update = "test"
     /\ server_connected' = value /\ UNCHANGED hw

\* What one of the three steps of update_connected changes.
LEMMA UpdateLemma ==
  ASSUME thread \in [Threads -> [pc : Places, update : Updates]],
         NEW t \in Threads, NEW place \in Places, NEW value \in BOOLEAN, NEW next \in Places,
         UpdateConnected(t, place, value, next)
  PROVE  /\ thread' \in [Threads -> [pc : Places, update : Updates]]
         /\ \A u \in Threads \ {t} : thread'[u] = thread[u]
         /\ thread[t].pc = place
         /\ Steps(t, place, value, next)
         /\ UNCHANGED <<server_endpoint, answers>>
BY DEF UpdateConnected, UpdateInOrder, At, Updates, Steps, network

SockPlaces == {"none", "connect", "opened", "read", "closed", "ending", "ended"}

\* What the socket's thread leaves alone.
LEMMA SockLemma ==
  ASSUME sock \in [pc : SockPlaces, endpoint : Endpoints, hooked : BOOLEAN],
         NEW place \in SockPlaces, SockGoes(place)
  PROVE  /\ sock' \in [pc : SockPlaces, endpoint : Endpoints, hooked : BOOLEAN]
         /\ sock'.pc = place /\ sock'.hooked = sock.hooked
BY DEF SockGoes

\* The client's process is gone.
LEMMA GoneLemma ==
  ASSUME NEW status, Gone(status)
  PROVE  /\ thread'["connector"] = [pc |-> "top", update |-> "test"]
         /\ thread'["multicast"] = [pc |-> "top", update |-> "test"]
         /\ sock' = NoSocket
         /\ ~socket' /\ ~terminate_socket' /\ ~server_connected' /\ ~hw'
         /\ socket_lock' = None /\ server_endpoint' = None
BY DEF Gone, Start, Threads

-----------------------------------------------------------------------------
\* Every step keeps the place of each thread in accord with the lock, the socket and
\* terminate_socket.
LEMMA LocksStep ==
  ASSUME TypeOK, Locks, [Next]_vars
  PROVE  Locks'
<1> USE DEF connector, multicast, Threads, files, client, network, server, environment
<1>0. /\ thread \in [Threads -> [pc : Places, update : Updates]]
      /\ sock \in [pc : SockPlaces, endpoint : Endpoints, hooked : BOOLEAN]
      /\ socket \in BOOLEAN /\ terminate_socket \in BOOLEAN
      /\ connector \in ConnectorPlaces /\ multicast \in MulticastPlaces
  BY DEF TypeOK, Places, SockPlaces
<1> USE DEF Locks, Holding, OneSocket, Terminating
\* the connector
<1>1. CASE LookForClose
  <2>1. connector' = IF terminate_socket THEN "acquire" ELSE "look"
    BY <1>0, <1>1, GoesLemma DEF LookForClose, Places, ConnectorPlaces
  <2>2. multicast' = multicast /\ connector = "top"
    BY <1>0, <1>1, GoesLemma DEF LookForClose, At, Places, ConnectorPlaces
  <2> QED BY <1>1, <2>1, <2>2 DEF LookForClose
<1>2. CASE Acquire
  <2>1. connector' = IF socket THEN "join" ELSE "forget"
    BY <1>0, <1>2, GoesLemma DEF Acquire, Places, ConnectorPlaces
  <2>2. multicast' = multicast /\ connector = "acquire"
    BY <1>0, <1>2, GoesLemma DEF Acquire, At, Places, ConnectorPlaces
  <2> QED BY <1>0, <1>2, <2>1, <2>2, NoneAssumption DEF Acquire
<1>3. CASE Join
  <2>1. connector' = "forget" /\ multicast' = multicast /\ connector = "join"
    BY <1>0, <1>3, GoesLemma DEF Join, JoinLeaving, At, Places, ConnectorPlaces
  <2> QED BY <1>0, <1>3, <2>1, NoneAssumption DEF Join, JoinLeaving, NoSocket
<1>4. CASE Forget
  <2>1. connector' = "offline" /\ multicast' = multicast /\ connector = "forget"
    BY <1>0, <1>4, GoesLemma DEF Forget, ForgetFor, At, Places, ConnectorPlaces
  <2>2. socket_lock' = None /\ socket_lock = "connector"
    BY <1>4, <2>1 DEF Forget, ForgetFor
  <2>3. UNCHANGED <<socket, terminate_socket, sock>>
    BY <1>4 DEF Forget, ForgetFor
  <2>4. multicast \notin {"claim", "create", "hook"}
    BY <2>2
  <2>5. Holding'
    BY <2>1, <2>2, <2>4, NoneAssumption
  <2>6. OneSocket' /\ Terminating'
    BY <2>1, <2>3
  <2> QED BY <2>5, <2>6
<1>5. ASSUME UNCHANGED <<socket_lock, socket, terminate_socket, sock>>,
             multicast' = multicast,
             connector' = connector \/ {connector, connector'} \subseteq
               {"top", "offline", "look", "unknown", "ask", "known"}
      PROVE  Locks'
  BY <1>5
<1>6. CASE LookForEndpoint \/ Ask
  <2>1. /\ multicast' = multicast /\ connector \in {"look", "ask"}
        /\ connector' \in {"unknown", "known", "top"}
    BY <1>0, <1>6, GoesLemma DEF LookForEndpoint, Ask, At, Places, ConnectorPlaces
  <2> QED BY <1>5, <1>6, <2>1 DEF LookForEndpoint, Ask
<1>7. CASE \/ UpdateConnected("connector", "offline", FALSE, "look")
           \/ UpdateConnected("connector", "unknown", FALSE, "ask")
           \/ UpdateConnected("connector", "known", TRUE, "top")
  <2>1. /\ multicast' = multicast /\ connector \in {"offline", "unknown", "known"}
        /\ connector' = connector \/ connector' \in {"look", "ask", "top"}
    BY <1>0, <1>7, UpdateLemma DEF Places, ConnectorPlaces, Steps
  <2>2. UNCHANGED <<socket_lock, socket, terminate_socket, sock>>
    BY <1>7 DEF UpdateConnected, UpdateInOrder
  <2> QED BY <1>5, <2>1, <2>2
\* the multicast thread
<1>8. ASSUME NEW status, Gone(status)
      PROVE  Locks'
  <2>1. connector' = "top" /\ multicast' = "top"
    BY <1>8, GoneLemma
  <2>2. sock'.pc = "none" /\ ~sock'.hooked /\ ~socket' /\ ~terminate_socket'
    BY <1>8, GoneLemma DEF NoSocket
  <2>3. sock'.hooked = socket'
    BY <1>8, GoneLemma DEF Gone, NoSocket
  <2>4. socket_lock' = None
    BY <1>8, GoneLemma
  <2>5. Holding'
    BY <2>1, <2>4, NoneAssumption
  <2>6. OneSocket' /\ Terminating'
    BY <2>1, <2>2, <2>3
  <2> QED BY <2>5, <2>6
<1>9. CASE Receive
  <2>1. CASE /\ ~socket /\ thread' = [thread EXCEPT !["multicast"].pc = "endpoint"]
             /\ multicast = "top"
             /\ UNCHANGED <<socket_lock, socket, terminate_socket, sock>>
    <3>1. connector' = connector /\ multicast' = "endpoint"
      BY <1>0, <2>1, GoesLemma DEF Goes, Places, MulticastPlaces
    <3> QED BY <2>1, <3>1
  <2>2. CASE UNCHANGED <<socket_lock, socket, terminate_socket, thread, sock>>
    BY <1>5, <2>2
  <2> QED BY <1>8, <1>9, <2>1, <2>2 DEF Receive, ReceiveIf, At
<1>10. CASE KeepEndpoint
  <2>1. connector' = connector /\ multicast = "endpoint" /\ multicast' = "lock"
    BY <1>0, <1>10, GoesLemma DEF KeepEndpoint, At, Places, MulticastPlaces
  <2> QED BY <1>10, <2>1 DEF KeepEndpoint
<1>11. CASE TakeLock
  <2>1. connector' = connector /\ multicast = "lock" /\ multicast' = "claim"
    BY <1>0, <1>11, GoesLemma DEF TakeLock, At, Places, MulticastPlaces
  <2> QED BY <1>11, <2>1, NoneAssumption DEF TakeLock
<1>12. CASE UpdateConnected("multicast", "claim", TRUE, "create")
  <2>1. /\ connector' = connector /\ multicast = "claim"
        /\ multicast' \in {"claim", "create"}
    BY <1>0, <1>12, UpdateLemma DEF Places, MulticastPlaces, Steps
  <2>2. UNCHANGED <<socket_lock, socket, terminate_socket, sock>>
    BY <1>12 DEF UpdateConnected, UpdateInOrder
  <2>3. Holding'
    BY <2>1, <2>2
  <2>4. OneSocket' /\ Terminating'
    BY <2>1, <2>2
  <2> QED BY <2>3, <2>4
<1>13. CASE CreateSocket
  <2>1. connector' = connector /\ multicast = "create" /\ multicast' = "hook"
    BY <1>0, <1>13, GoesLemma DEF CreateSocket, At, Places, MulticastPlaces
  <2>2. /\ sock'.pc = "connect" /\ sock'.hooked = FALSE
        /\ UNCHANGED <<socket_lock, socket, terminate_socket>>
    BY <1>13 DEF CreateSocket
  <2>3. ~socket /\ ~terminate_socket /\ connector # "join"
    BY <2>1
  <2>4. Holding'
    BY <2>1, <2>2
  <2>5. OneSocket' /\ Terminating'
    BY <1>0, <2>1, <2>2, <2>3
  <2> QED BY <2>4, <2>5
<1>14. CASE HookUp
  <2>1. connector' = connector /\ multicast = "hook" /\ multicast' = "top"
    BY <1>0, <1>14, GoesLemma DEF HookUp, At, Places, MulticastPlaces
  <2>2. /\ socket' = TRUE /\ socket_lock' = None /\ UNCHANGED terminate_socket
        /\ sock'.hooked = TRUE /\ sock'.pc = sock.pc
    BY <1>0, <1>14 DEF HookUp
  <2>3. ~socket /\ ~terminate_socket /\ sock.pc # "none"
        /\ connector \notin {"acquire", "join", "forget"}
    BY <2>1
  <2>4. Holding'
    BY <2>1, <2>2, <2>3, NoneAssumption
  <2>5. OneSocket' /\ Terminating'
    BY <1>0, <2>1, <2>2, <2>3
  <2> QED BY <2>4, <2>5
\* the socket's thread
<1>15. CASE Connects \/ Opened \/ Reset
  <2>1. sock.pc \in {"connect", "opened", "read"}
    BY <1>15 DEF Connects, Opened, Reset, SockAt
  <2>2. sock'.pc \in {"opened", "read", "closed"} /\ sock'.hooked = sock.hooked
    BY <1>0, <1>15, SockLemma DEF Connects, Opened, Reset, SockPlaces
  <2>3. UNCHANGED <<socket_lock, socket, terminate_socket, thread>>
    BY <1>15 DEF Connects, Opened, Reset
  <2> QED BY <2>1, <2>2, <2>3
<1>16. CASE Closed
  <2>1. sock.pc = "closed"
    BY <1>16 DEF Closed, ClosedThen, SockAt
  <2>2. sock'.pc = "ending" /\ sock'.hooked = sock.hooked
    BY <1>0, <1>16, SockLemma DEF Closed, ClosedThen, SockPlaces
  <2>3. /\ terminate_socket' = (terminate_socket \/ sock.hooked)
        /\ UNCHANGED <<socket_lock, socket, thread>>
    BY <1>16 DEF Closed, ClosedThen
  <2> QED BY <1>0, <2>1, <2>2, <2>3
<1>17. CASE Ends
  <2>1. sock.pc = "ending"
    BY <1>17 DEF Ends, SockAt
  <2>2. sock'.pc = "ended" /\ sock'.hooked = sock.hooked
    BY <1>0, <1>17, SockLemma DEF Ends, SockPlaces
  <2>3. UNCHANGED <<socket_lock, socket, terminate_socket, thread>>
    BY <1>17 DEF Ends
  <2> QED BY <2>1, <2>2, <2>3
\* the server and the network
<1>18. CASE Refused \/ Answer \/ Serve \/ Lose \/ ServerRestarts \/ ClientStarts \/ UNCHANGED vars
  <2>1. UNCHANGED <<socket_lock, socket, terminate_socket, thread, sock>>
    BY <1>18 DEF Refused, Answer, Serve, Accept, Configure, Disconnected, Lose,
                 ServerRestarts, ClientStarts, vars
  <2> QED BY <1>5, <2>1
<1>19. CASE ClientCrashes
  BY <1>8, <1>19 DEF ClientCrashes
<1> QED BY <1>1, <1>2, <1>3, <1>4, <1>6, <1>7, <1>9, <1>10, <1>11, <1>12, <1>13, <1>14,
           <1>15, <1>16, <1>17, <1>18, <1>19
        DEF Next, Connector, Multicast, Socket, Faults

-----------------------------------------------------------------------------
\* A step of thread t outside of update_connected that leaves the flag and the
\* hardware alone.
LEMMA TellingStep ==
  ASSUME thread \in [Threads -> [pc : Places, update : Updates]], Telling,
         UNCHANGED <<hw, server_connected>>,
         NEW t \in Threads, NEW place \in Places,
         thread[t].pc \notin {"offline", "unknown", "known", "claim"}, Goes(t, place)
  PROVE  /\ Telling' /\ ~Busy(t) /\ ~Busy(t)'
         /\ \A u \in Threads \ {t} : Busy(u)' = Busy(u) /\ thread'[u].pc = thread[u].pc
         /\ thread'[t].pc = place
<1>1. ~Busy(t)
  BY DEF Telling, Tells, Threads
<1>2. /\ thread'[t].pc = place /\ thread'[t].update = thread[t].update
      /\ \A u \in Threads \ {t} : thread'[u] = thread[u]
  BY GoesLemma
<1>3. ~Busy(t)' /\ \A u \in Threads \ {t} : Busy(u)' = Busy(u) /\ thread'[u].pc = thread[u].pc
  BY <1>1, <1>2 DEF Busy
<1>4. Telling'
  BY <1>1, <1>2, <1>3 DEF Telling, Tells, Busy, Wanted, Threads
<1> QED BY <1>1, <1>2, <1>3, <1>4

\* A step of the connector outside of update_connected.
LEMMA ConnectorStep ==
  ASSUME TypeOK, Updating, NEW place \in Places, Goes("connector", place),
         connector \notin {"offline", "unknown", "known", "claim"},
         UNCHANGED <<hw, server_connected, answers>>,
         place = "known" => server_endpoint' # None,
         Busy("multicast") /\ server_connected
           => place \in {"top", "look", "known"} /\ UNCHANGED server_endpoint
  PROVE  Updating'
<1>1. /\ Telling' /\ ~Busy("connector") /\ ~Busy("connector")'
      /\ Busy("multicast")' = Busy("multicast") /\ multicast' = multicast
      /\ connector' = place
  BY TellingStep DEF Updating, TypeOK, Places, Threads, connector, multicast
<1>2. Agreeing'
  BY <1>1 DEF Updating, Agreeing
<1> QED BY <1>1, <1>2 DEF Updating

\* A step of the multicast thread outside of update_connected.
LEMMA MulticastStep ==
  ASSUME TypeOK, Updating, NEW place \in Places, Goes("multicast", place),
         multicast \notin {"offline", "unknown", "known", "claim"},
         UNCHANGED <<hw, server_connected>>,
         server_endpoint' = server_endpoint \/ server_endpoint' # None,
         place = "endpoint" => answers' # <<>> /\ Head(answers') # None
  PROVE  Updating'
<1>1. /\ Telling' /\ ~Busy("multicast") /\ ~Busy("multicast")'
      /\ Busy("connector")' = Busy("connector") /\ connector' = connector
      /\ multicast' = place
  BY TellingStep DEF Updating, TypeOK, Places, Threads, connector, multicast
<1>2. Wanted("connector")' = Wanted("connector")
  BY <1>1 DEF Wanted, connector
<1>3. Agreeing'
  BY <1>1, <1>2 DEF Updating, Agreeing
<1> QED BY <1>1, <1>3 DEF Updating

\* update_connected(False), of the connector.
LEMMA Disconnecting ==
  ASSUME TypeOK, Updating,
         NEW place \in {"offline", "unknown"}, NEW next \in {"look", "ask"},
         UpdateConnected("connector", place, FALSE, next)
  PROVE  Updating'
<1>1. /\ thread \in [Threads -> [pc : Places, update : Updates]]
      /\ hw \in BOOLEAN /\ server_connected \in BOOLEAN
      /\ connector \in ConnectorPlaces /\ multicast \in MulticastPlaces
  BY DEF TypeOK, Places, connector, multicast
<1>2. "connector" \in Threads /\ place \in Places /\ next \in Places
  BY DEF Threads, Places, ConnectorPlaces, MulticastPlaces
<1>3. /\ Steps("connector", place, FALSE, next) /\ connector = place
      /\ UNCHANGED <<server_endpoint, answers>>
      /\ thread'["multicast"] = thread["multicast"]
  BY <1>1, <1>2, UpdateLemma DEF Threads, connector
<1> USE DEF Updating, Telling, Tells, Agreeing, Busy, Wanted, connector, multicast, Threads, Steps
<1>4. /\ Busy("multicast") => Wanted("multicast")
      /\ ~(Busy("connector") /\ ~Wanted("connector") /\ Busy("multicast"))
  BY <1>1 DEF MulticastPlaces
<1>5. multicast' = multicast /\ Busy("multicast")' = Busy("multicast")
  BY <1>3
<1>6. CASE thread["connector"].update = "test" /\ server_connected = FALSE
  <2>1. Agreeing'
    BY <1>1, <1>3, <1>4, <1>5, <1>6
  <2>2. Telling'
    <3>1. UNCHANGED <<hw, server_connected>>
      BY <1>1, <1>3, <1>4, <1>5, <1>6
    <3>2. Tells("connector")' /\ Tells("multicast")'
      BY <1>1, <1>3, <1>4, <1>5, <1>6, <3>1
    <3>3. thread["connector"].update # "assign" /\ thread["multicast"].update # "assign"
            <=> thread'["connector"].update # "assign" /\ thread'["multicast"].update # "assign"
      BY <1>1, <1>3, <1>4, <1>5, <1>6
    <3> QED BY <3>1, <3>2, <3>3
  <2> QED BY <2>1, <2>2
<1>7. CASE thread["connector"].update = "test" /\ server_connected # FALSE
  <2>1. Agreeing'
    BY <1>1, <1>3, <1>4, <1>5, <1>7
  <2>2. Telling'
    BY <1>1, <1>3, <1>4, <1>5, <1>7
  <2> QED BY <2>1, <2>2
<1>8. CASE thread["connector"].update = "tell"
  <2>1. Agreeing'
    BY <1>1, <1>3, <1>4, <1>5, <1>8
  <2>2. Telling'
    BY <1>1, <1>3, <1>4, <1>5, <1>8
  <2> QED BY <2>1, <2>2
<1>9. CASE thread["connector"].update = "assign"
  <2>1. Agreeing'
    BY <1>1, <1>3, <1>4, <1>5, <1>9
  <2>2. Telling'
    BY <1>1, <1>3, <1>4, <1>5, <1>9
  <2> QED BY <2>1, <2>2
<1> QED BY <1>3, <1>6, <1>7, <1>8, <1>9

\* update_connected(True), of the connector.
LEMMA Connecting ==
  ASSUME TypeOK, Updating,
         UpdateConnected("connector", "known", TRUE, "top")
  PROVE  Updating'
<1>1. /\ thread \in [Threads -> [pc : Places, update : Updates]]
      /\ hw \in BOOLEAN /\ server_connected \in BOOLEAN
      /\ connector \in ConnectorPlaces /\ multicast \in MulticastPlaces
  BY DEF TypeOK, Places, connector, multicast
<1>2. "connector" \in Threads /\ "known" \in Places /\ "top" \in Places
  BY DEF Threads, Places, ConnectorPlaces, MulticastPlaces
<1>3. /\ Steps("connector", "known", TRUE, "top") /\ connector = "known"
      /\ UNCHANGED <<server_endpoint, answers>>
      /\ thread'["multicast"] = thread["multicast"]
  BY <1>1, <1>2, UpdateLemma DEF Threads, connector
<1> USE DEF Updating, Telling, Tells, Agreeing, Busy, Wanted, connector, multicast, Threads, Steps
<1>4. /\ Busy("multicast") => Wanted("multicast")
      /\ ~(Busy("connector") /\ ~Wanted("connector") /\ Busy("multicast"))
  BY <1>1 DEF MulticastPlaces
<1>5. multicast' = multicast /\ Busy("multicast")' = Busy("multicast")
  BY <1>3
<1>6. CASE thread["connector"].update = "test" /\ server_connected = TRUE
  <2>1. Agreeing'
    BY <1>1, <1>3, <1>4, <1>5, <1>6
  <2>2. Telling'
    BY <1>1, <1>3, <1>4, <1>5, <1>6
  <2> QED BY <2>1, <2>2
<1>7. CASE thread["connector"].update = "test" /\ server_connected # TRUE
  <2>1. Agreeing'
    BY <1>1, <1>3, <1>4, <1>5, <1>7
  <2>2. Telling'
    BY <1>1, <1>3, <1>4, <1>5, <1>7
  <2> QED BY <2>1, <2>2
<1>8. CASE thread["connector"].update = "tell"
  <2>1. Agreeing'
    BY <1>1, <1>3, <1>4, <1>5, <1>8
  <2>2. Telling'
    BY <1>1, <1>3, <1>4, <1>5, <1>8
  <2> QED BY <2>1, <2>2
<1>9. CASE thread["connector"].update = "assign"
  <2>1. Agreeing'
    BY <1>1, <1>3, <1>4, <1>5, <1>9
  <2>2. Telling'
    BY <1>1, <1>3, <1>4, <1>5, <1>9
  <2> QED BY <2>1, <2>2
<1> QED BY <1>3, <1>6, <1>7, <1>8, <1>9

\* update_connected(True), of the multicast thread.
LEMMA Claiming ==
  ASSUME TypeOK, Updating,
         UpdateConnected("multicast", "claim", TRUE, "create")
  PROVE  Updating'
<1>1. /\ thread \in [Threads -> [pc : Places, update : Updates]]
      /\ hw \in BOOLEAN /\ server_connected \in BOOLEAN
      /\ connector \in ConnectorPlaces /\ multicast \in MulticastPlaces
  BY DEF TypeOK, Places, connector, multicast
<1>2. "multicast" \in Threads /\ "claim" \in Places /\ "create" \in Places
  BY DEF Threads, Places, ConnectorPlaces, MulticastPlaces
<1>3. /\ Steps("multicast", "claim", TRUE, "create") /\ multicast = "claim"
      /\ UNCHANGED <<server_endpoint, answers>>
      /\ thread'["connector"] = thread["connector"]
  BY <1>1, <1>2, UpdateLemma DEF Threads, multicast
<1> USE DEF Updating, Telling, Tells, Agreeing, Busy, Wanted, connector, multicast, Threads, Steps
<1>4. /\ Busy("multicast") => Wanted("multicast")
      /\ ~(Busy("connector") /\ ~Wanted("connector") /\ Busy("multicast"))
  BY <1>1 DEF MulticastPlaces
<1>5. connector' = connector /\ Busy("connector")' = Busy("connector")
  BY <1>3
<1>6. CASE thread["multicast"].update = "test" /\ server_connected = TRUE
  <2>1. Agreeing'
    BY <1>1, <1>3, <1>4, <1>5, <1>6
  <2>2. Telling'
    BY <1>1, <1>3, <1>4, <1>5, <1>6
  <2> QED BY <2>1, <2>2
<1>7. CASE thread["multicast"].update = "test" /\ server_connected # TRUE
  <2>1. Agreeing'
    BY <1>1, <1>3, <1>4, <1>5, <1>7
  <2>2. Telling'
    BY <1>1, <1>3, <1>4, <1>5, <1>7
  <2> QED BY <2>1, <2>2
<1>8. CASE thread["multicast"].update = "tell"
  <2>1. Agreeing'
    BY <1>1, <1>3, <1>4, <1>5, <1>8
  <2>2. Telling'
    BY <1>1, <1>3, <1>4, <1>5, <1>8
  <2> QED BY <2>1, <2>2
<1>9. CASE thread["multicast"].update = "assign"
  <2>1. Agreeing'
    BY <1>1, <1>3, <1>4, <1>5, <1>9
  <2>2. Telling'
    BY <1>1, <1>3, <1>4, <1>5, <1>9
  <2> QED BY <2>1, <2>2
<1> QED BY <1>3, <1>6, <1>7, <1>8, <1>9

\* Every step keeps the flag, the hardware and what the threads are about to tell it
\* in accord.
LEMMA UpdatingStep ==
  ASSUME TypeOK, Locks, Updating, [Next]_vars
  PROVE  Updating'
<1> USE DEF files, client, network, server, environment
<1>1. /\ thread \in [Threads -> [pc : Places, update : Updates]]
      /\ connector \in ConnectorPlaces /\ multicast \in MulticastPlaces
      /\ answers \in Seq(Endpoints)
  BY DEF TypeOK, Places, connector, multicast
\* the connector
<1>2. Busy("multicast") => multicast = "claim"
  BY <1>1 DEF Updating, Telling, Tells, MulticastPlaces, multicast
<1>3. Busy("multicast") => ~terminate_socket /\ connector \notin {"acquire", "join", "forget"}
  BY <1>2, NoneAssumption DEF Locks, Holding, OneSocket, Terminating
<1>4. CASE LookForClose
  <2> DEFINE place == IF terminate_socket THEN "acquire" ELSE "look"
  <2>1. place \in Places /\ connector = "top" /\ Goes("connector", place)
        /\ UNCHANGED <<hw, server_connected, answers, server_endpoint>>
    BY <1>4 DEF LookForClose, Places, ConnectorPlaces, At, connector
  <2> QED BY <1>3, <2>1, ConnectorStep
<1>5. CASE Acquire
  <2> DEFINE place == IF socket THEN "join" ELSE "forget"
  <2>1. place \in Places /\ connector = "acquire" /\ Goes("connector", place)
        /\ UNCHANGED <<hw, server_connected, answers>>
    BY <1>5 DEF Acquire, Places, ConnectorPlaces, At, connector
  <2> QED BY <1>3, <2>1, ConnectorStep
<1>6. CASE Join
  <2>1. connector = "join" /\ Goes("connector", "forget")
        /\ UNCHANGED <<hw, server_connected, answers>>
    BY <1>6 DEF Join, JoinLeaving, At, connector
  <2> QED BY <1>3, <2>1, ConnectorStep DEF Places, ConnectorPlaces
<1>7. CASE Forget
  <2>1. connector = "forget" /\ Goes("connector", "offline")
        /\ UNCHANGED <<hw, server_connected, answers>>
    BY <1>7 DEF Forget, ForgetFor, At, connector
  <2> QED BY <1>3, <2>1, ConnectorStep DEF Places, ConnectorPlaces
<1>8. CASE LookForEndpoint
  <2> DEFINE place == IF server_endpoint = None THEN "unknown" ELSE "known"
  <2>1. place \in Places /\ connector = "look" /\ Goes("connector", place)
        /\ UNCHANGED <<hw, server_connected, answers, server_endpoint>>
    BY <1>8 DEF LookForEndpoint, Places, ConnectorPlaces, At, connector
  <2>2. Busy("multicast") /\ server_connected => server_endpoint # None
    BY DEF Updating, Agreeing
  <2> QED BY <2>1, <2>2, ConnectorStep
<1>9. CASE Ask
  <2>1. connector = "ask" /\ Goes("connector", "top")
        /\ UNCHANGED <<hw, server_connected, answers, server_endpoint>>
    BY <1>9 DEF Ask, At, connector
  <2> QED BY <2>1, ConnectorStep DEF Places, ConnectorPlaces
<1>10. CASE \/ UpdateConnected("connector", "offline", FALSE, "look")
            \/ UpdateConnected("connector", "unknown", FALSE, "ask")
            \/ UpdateConnected("connector", "known", TRUE, "top")
  BY <1>10, Disconnecting, Connecting
\* the multicast thread
<1>11. ASSUME NEW status, Gone(status)
       PROVE  Updating'
  <2>1. /\ connector' = "top" /\ multicast' = "top"
        /\ ~Busy("connector")' /\ ~Busy("multicast")' /\ ~hw' /\ ~server_connected'
        /\ thread'["connector"].update = "test" /\ thread'["multicast"].update = "test"
    BY <1>11, GoneLemma DEF connector, multicast, Busy
  <2> QED BY <2>1 DEF Updating, Telling, Tells, Agreeing
<1>12. ASSUME UNCHANGED <<thread, hw, server_connected, server_endpoint>>,
              multicast = "endpoint" /\ answers # <<>> =>
                answers' # <<>> /\ Head(answers') = Head(answers)
       PROVE  Updating'
  BY <1>12 DEF Updating, Telling, Tells, Agreeing, Busy, Wanted, connector, multicast
<1>13. CASE Receive
  <2>1. multicast = "top"
    BY <1>13 DEF Receive, ReceiveIf, At, multicast
  <2>2. CASE /\ answers # <<>> /\ Head(answers) # None /\ Goes("multicast", "endpoint")
             /\ UNCHANGED <<hw, server_connected, server_endpoint, answers>>
    BY <2>1, <2>2, MulticastStep DEF Places, MulticastPlaces
  <2>3. CASE UNCHANGED <<thread, hw, server_connected, server_endpoint>>
    BY <1>12, <2>1, <2>3
  <2> QED BY <1>11, <1>13, <2>1, <2>2, <2>3 DEF Receive, ReceiveIf, Goes
<1>14. CASE KeepEndpoint
  <2>1. /\ multicast = "endpoint" /\ Goes("multicast", "lock")
        /\ server_endpoint' = Head(answers) /\ UNCHANGED <<hw, server_connected>>
    BY <1>14 DEF KeepEndpoint, At, multicast
  <2>2. Head(answers) # None
    BY <2>1 DEF Updating, Agreeing
  <2> QED BY <2>1, <2>2, MulticastStep DEF Places, MulticastPlaces
<1>15. CASE TakeLock
  <2>1. /\ multicast = "lock" /\ Goes("multicast", "claim")
        /\ UNCHANGED <<hw, server_connected, server_endpoint>>
    BY <1>15 DEF TakeLock, At, multicast
  <2> QED BY <2>1, MulticastStep DEF Places, MulticastPlaces
<1>16. CASE UpdateConnected("multicast", "claim", TRUE, "create")
  BY <1>16, Claiming
<1>17. CASE CreateSocket
  <2>1. /\ multicast = "create" /\ Goes("multicast", "hook")
        /\ UNCHANGED <<hw, server_connected, server_endpoint>>
    BY <1>17 DEF CreateSocket, At, multicast
  <2> QED BY <2>1, MulticastStep DEF Places, MulticastPlaces
<1>18. CASE HookUp
  <2>1. /\ multicast = "hook" /\ Goes("multicast", "top")
        /\ UNCHANGED <<hw, server_connected, server_endpoint>>
    BY <1>18 DEF HookUp, At, multicast
  <2> QED BY <2>1, MulticastStep DEF Places, MulticastPlaces
\* the socket's thread, the server and the network
<1>19. CASE Socket \/ Refused \/ Serve \/ ServerRestarts \/ ClientStarts \/ UNCHANGED vars
  <2>1. UNCHANGED <<thread, hw, server_connected, server_endpoint, answers>>
    BY <1>19 DEF Socket, Connects, Opened, Reset, Closed, ClosedThen, Ends, Refused, Serve,
                 Accept, Configure, Disconnected, ServerRestarts, ClientStarts, vars
  <2> QED BY <1>12, <2>1
<1>20. CASE Answer
  <2> DEFINE new == IF device_connected THEN None ELSE endpoint
  <2>1. UNCHANGED <<thread, hw, server_connected, server_endpoint>>
    BY <1>20 DEF Answer
  <2>2. answers' = answers \/ answers' = Append(answers, new)
    BY <1>20 DEF Answer
  <2>3. new \in Endpoints
    BY DEF TypeOK, Endpoints
  <2> HIDE DEF new
  <2>4. answers # <<>> => answers' # <<>> /\ Head(answers') = Head(answers)
    BY <1>1, <2>2, <2>3
  <2> QED BY <1>12, <2>1, <2>4
<1>21. CASE Lose
  <2>1. UNCHANGED <<thread, hw, server_connected, server_endpoint>>
    BY <1>21 DEF Lose
  <2>2. answers' = answers \/ multicast = "top"
    BY <1>21 DEF Lose, At, multicast
  <2> QED BY <1>12, <2>1, <2>2
<1>22. CASE ClientCrashes
  BY <1>11, <1>22 DEF ClientCrashes
<1> QED BY <1>4, <1>5, <1>6, <1>7, <1>8, <1>9, <1>10, <1>13, <1>14, <1>15, <1>16, <1>17,
           <1>18, <1>19, <1>20, <1>21, <1>22
        DEF Next, Connector, Multicast, Faults

-----------------------------------------------------------------------------
\* The places of the two threads.
ThreadsTyped ==
  /\ thread \in [Threads -> [pc : Places, update : Updates]]
  /\ connector \in ConnectorPlaces /\ multicast \in MulticastPlaces

\* Every step keeps the threads at places of the model, with an endpoint or None.
LEMMA ThreadStep ==
  ASSUME ThreadsTyped, [Next]_vars
  PROVE  ThreadsTyped'
<1> USE DEF ThreadsTyped, Places, Threads, connector, multicast
<1>1. ASSUME NEW place \in ConnectorPlaces, Goes("connector", place)
      PROVE  ThreadsTyped'
  BY <1>1, GoesLemma
<1>2. ASSUME NEW place \in MulticastPlaces, Goes("multicast", place)
      PROVE  ThreadsTyped'
  BY <1>2, GoesLemma
<1>3. ASSUME UNCHANGED thread
      PROVE  ThreadsTyped'
  BY <1>3
<1>4. CASE LookForClose \/ Acquire \/ Join \/ Forget \/ LookForEndpoint \/ Ask
  BY <1>1, <1>4 DEF LookForClose, Acquire, Join, JoinLeaving, Forget, ForgetFor,
                    LookForEndpoint, Ask, ConnectorPlaces
<1>5. CASE \/ UpdateConnected("connector", "offline", FALSE, "look")
           \/ UpdateConnected("connector", "unknown", FALSE, "ask")
           \/ UpdateConnected("connector", "known", TRUE, "top")
  BY <1>5, UpdateLemma DEF Steps, ConnectorPlaces
<1>6. CASE UpdateConnected("multicast", "claim", TRUE, "create")
  BY <1>6, UpdateLemma DEF Steps, MulticastPlaces
<1>7. ASSUME NEW status, Gone(status)
      PROVE  ThreadsTyped'
  BY <1>7 DEF Gone, Start, ConnectorPlaces, MulticastPlaces, Updates
<1>8. CASE Receive
  BY <1>2, <1>3, <1>7, <1>8
     DEF Receive, ReceiveIf, Goes, MulticastPlaces, client
<1>9. CASE KeepEndpoint \/ TakeLock \/ CreateSocket \/ HookUp
  BY <1>2, <1>9 DEF KeepEndpoint, TakeLock, CreateSocket, HookUp, MulticastPlaces
<1>10. CASE Socket \/ Refused \/ Answer \/ Serve \/ Lose \/ ServerRestarts \/ ClientStarts
            \/ UNCHANGED vars
  BY <1>3, <1>10 DEF Socket, Connects, Opened, Reset, Closed, ClosedThen, Ends, Refused,
     Answer, Serve, Accept, Configure, Disconnected, Lose, ServerRestarts, ClientStarts,
     vars, client
<1>11. CASE ClientCrashes
  BY <1>7, <1>11 DEF ClientCrashes
<1> QED BY <1>4, <1>5, <1>6, <1>8, <1>9, <1>10, <1>11
        DEF Next, Connector, Multicast, Faults

\* Every variable but those of the threads, for which there are lemmas.
SockTyped == sock \in [pc : SockPlaces, endpoint : Endpoints, hooked : BOOLEAN]
FilesTyped ==
  /\ process \in {"up", "crashed", "died"} /\ server_endpoint \in Endpoints
  /\ socket \in BOOLEAN /\ socket_lock \in {"connector", "multicast", None}
  /\ terminate_socket \in BOOLEAN /\ server_connected \in BOOLEAN /\ hw \in BOOLEAN
NetworkTyped ==
  /\ requests \in 0..MaxDatagrams
  /\ answers \in Seq(Endpoints) /\ Len(answers) <= MaxDatagrams
  /\ link \in {"none", "up", "reset"}
ServerTyped ==
  /\ endpoint \in Nat /\ backlog \in Seq({"alive", "ended"})
  /\ device \in [pc : {"accept", "configure", "serve"},
                 serves : {"nothing", "alive", "ended"}]
  /\ device_connected \in BOOLEAN
FaultsTyped ==
  /\ faults \in [losses : 0..MaxLosses, restarts : 0..MaxRestarts, crashes : 0..MaxCrashes]
  /\ timely \in BOOLEAN

\* The type invariant, in the groups of variables that are settled one by one.
LEMMA TypeParts ==
  TypeOK <=> /\ ThreadsTyped /\ SockTyped /\ FilesTyped /\ NetworkTyped /\ ServerTyped
             /\ FaultsTyped /\ (socket => sock.pc # "none")
BY DEF TypeOK, ThreadsTyped, SockTyped, FilesTyped, NetworkTyped, ServerTyped, FaultsTyped,
       Places, SockPlaces, connector, multicast

\* Every step keeps the type of the socket's thread.
LEMMA SockStep ==
  ASSUME TypeOK, [Next]_vars
  PROVE  SockTyped'
<1>0. SockTyped /\ server_endpoint \in Endpoints
  BY TypeParts DEF FilesTyped
<1> USE DEF SockTyped
<1>1. ASSUME UNCHANGED sock PROVE SockTyped'
  BY <1>0, <1>1
<1>2. ASSUME sock' = NoSocket PROVE SockTyped'
  BY <1>2 DEF NoSocket, SockPlaces, Endpoints
<1>3. CASE Join
  BY <1>2, <1>3 DEF Join, JoinLeaving
<1>4. CASE Receive \/ ClientCrashes
  BY <1>1, <1>2, <1>4 DEF Receive, ReceiveIf, ClientCrashes, Gone, client
<1>5. CASE CreateSocket
  BY <1>0, <1>5 DEF CreateSocket, SockPlaces
<1>6. CASE HookUp
  BY <1>0, <1>6 DEF HookUp
<1>7. CASE Socket
  BY <1>0, <1>7, SockLemma
     DEF Socket, Connects, Opened, Reset, Closed, ClosedThen, Ends, SockPlaces
<1>8. CASE LookForClose \/ Acquire \/ Forget \/ LookForEndpoint \/ Ask \/ KeepEndpoint \/ TakeLock
  BY <1>1, <1>8 DEF LookForClose, Acquire, Forget, ForgetFor, LookForEndpoint, Ask,
                    KeepEndpoint, TakeLock
<1>9. ASSUME NEW t, NEW place, NEW value, NEW next, UpdateConnected(t, place, value, next)
      PROVE  SockTyped'
  BY <1>1, <1>9 DEF UpdateConnected, UpdateInOrder
<1>10. CASE Refused \/ Answer \/ Serve \/ Lose \/ ServerRestarts \/ ClientStarts \/ UNCHANGED vars
  BY <1>1, <1>10 DEF Refused, Answer, Serve, Accept, Configure, Disconnected, Lose,
                     ServerRestarts, ClientStarts, vars, client
<1> QED BY <1>3, <1>4, <1>5, <1>6, <1>7, <1>8, <1>9, <1>10
        DEF Next, Connector, Multicast, Faults

\* The multicast thread keeps the endpoint of a datagram that it has.
LEMMA KeepsOne ==
  ASSUME Updating, KeepEndpoint
  PROVE  answers # <<>>
BY DEF KeepEndpoint, At, Updating, Agreeing, multicast

\* Every step keeps the types of what the client's threads share.
LEMMA FilesStep ==
  ASSUME TypeOK, Updating, [Next]_vars
  PROVE  FilesTyped'
<1>0. FilesTyped /\ NetworkTyped /\ sock.hooked \in BOOLEAN
  BY TypeParts DEF SockTyped
<1> USE DEF FilesTyped, files
<1>1. ASSUME UNCHANGED <<process, files>> PROVE FilesTyped'
  BY <1>0, <1>1
<1>2. ASSUME NEW status \in {"up", "crashed", "died"}, Gone(status) PROVE FilesTyped'
  BY <1>2 DEF Gone, Endpoints
<1>3. CASE Acquire \/ Join \/ Forget \/ TakeLock \/ HookUp
  BY <1>0, <1>3 DEF Acquire, Join, JoinLeaving, Forget, ForgetFor, TakeLock, HookUp, Endpoints
<1>4. CASE Receive \/ ClientCrashes
  BY <1>1, <1>2, <1>4 DEF Receive, ReceiveIf, ClientCrashes, client
<1>5. CASE KeepEndpoint
  BY <1>0, <1>5, KeepsOne DEF KeepEndpoint, NetworkTyped
<1>6. CASE Closed
  BY <1>0, <1>6 DEF Closed, ClosedThen
<1>7. ASSUME NEW t, NEW place, NEW value \in BOOLEAN, NEW next,
             UpdateConnected(t, place, value, next)
      PROVE  FilesTyped'
  BY <1>0, <1>7 DEF UpdateConnected, UpdateInOrder
<1>8. CASE LookForClose \/ LookForEndpoint \/ Ask \/ CreateSocket \/ Connects \/ Opened
           \/ Reset \/ Ends
  BY <1>1, <1>8 DEF LookForClose, LookForEndpoint, Ask, CreateSocket, Connects, Opened,
                    Reset, Ends
<1>9. CASE Refused \/ Answer \/ Serve \/ Lose \/ ServerRestarts \/ UNCHANGED vars
  BY <1>1, <1>9 DEF Refused, Answer, Serve, Accept, Configure, Disconnected, Lose,
                    ServerRestarts, vars, client
<1>10. CASE ClientStarts
  BY <1>0, <1>10 DEF ClientStarts
<1> QED BY <1>3, <1>4, <1>5, <1>6, <1>7, <1>8, <1>9, <1>10
        DEF Next, Connector, Multicast, Socket, Faults

\* Every step keeps the types of the datagrams and their number within its bound.
LEMMA NetworkStep ==
  ASSUME TypeOK, Updating, [Next]_vars
  PROVE  NetworkTyped'
<1>0. NetworkTyped /\ ServerTyped
  BY TypeParts
<1> USE BoundAssumption DEF NetworkTyped, network
<1>1. ASSUME UNCHANGED network PROVE NetworkTyped'
  BY <1>0, <1>1
<1>2. ASSUME UNCHANGED <<requests, link>>, answers # <<>>, answers' = Tail(answers)
      PROVE  NetworkTyped'
  BY <1>0, <1>2
<1>3. ASSUME NEW status, Gone(status), UNCHANGED requests PROVE NetworkTyped'
  BY <1>0, <1>3 DEF Gone
<1>4. CASE Ask
  BY <1>0, <1>4 DEF Ask
<1>5. CASE Receive
  BY <1>1, <1>2, <1>3, <1>5 DEF Receive, ReceiveIf
<1>6. CASE KeepEndpoint
  BY <1>2, <1>6, KeepsOne DEF KeepEndpoint
<1>7. CASE Connects \/ Reset
  BY <1>0, <1>7 DEF Connects, Reset
<1>8. CASE Answer
  <2> DEFINE new == IF device_connected THEN None ELSE endpoint
  <2>1. new \in Endpoints
    BY <1>0 DEF ServerTyped, Endpoints
  <2>2. /\ requests > 0 /\ requests' = requests - 1 /\ UNCHANGED link
        /\ \/ answers' = answers
           \/ Len(answers) < MaxDatagrams /\ answers' = Append(answers, new)
    BY <1>8 DEF Answer
  <2> HIDE DEF new
  <2> QED BY <1>0, <2>1, <2>2
<1>9. CASE Lose
  BY <1>0, <1>2, <1>9 DEF Lose
<1>10. CASE ServerRestarts
  BY <1>0, <1>10 DEF ServerRestarts
<1>11. CASE ClientCrashes
  BY <1>3, <1>11 DEF ClientCrashes
<1>12. CASE LookForClose \/ Acquire \/ Join \/ Forget \/ LookForEndpoint \/ TakeLock
            \/ CreateSocket \/ HookUp \/ Opened \/ Closed \/ Ends
  BY <1>1, <1>12 DEF LookForClose, Acquire, Join, JoinLeaving, Forget, ForgetFor,
                     LookForEndpoint, TakeLock, CreateSocket, HookUp, Opened, Closed,
                     ClosedThen, Ends
<1>13. ASSUME NEW t, NEW place, NEW value, NEW next, UpdateConnected(t, place, value, next)
       PROVE  NetworkTyped'
  BY <1>1, <1>13 DEF UpdateConnected, UpdateInOrder
<1>14. CASE Refused \/ Serve \/ ClientStarts \/ UNCHANGED vars
  BY <1>1, <1>14 DEF Refused, Serve, Accept, Configure, Disconnected, ClientStarts, vars
<1> QED BY <1>4, <1>5, <1>6, <1>7, <1>8, <1>9, <1>10, <1>11, <1>12, <1>13, <1>14
        DEF Next, Connector, Multicast, Socket, Faults

\* Every step keeps the types of the server's state.
LEMMA ServerStep ==
  ASSUME TypeOK, [Next]_vars
  PROVE  ServerTyped'
<1>0. ServerTyped
  BY TypeParts
<1> USE DEF ServerTyped, server, Ended
<1>1. ASSUME UNCHANGED server PROVE ServerTyped'
  BY <1>0, <1>1
<1>2. ASSUME NEW status, Gone(status), UNCHANGED <<endpoint, device_connected>>
      PROVE  ServerTyped'
  <2>1. backlog' \in Seq({"alive", "ended"})
    BY <1>0, <1>2 DEF Gone
  <2> QED BY <1>0, <1>2, <2>1 DEF Gone
<1>3. CASE Receive
  BY <1>1, <1>2, <1>3 DEF Receive, ReceiveIf
<1>4. CASE ClientCrashes
  BY <1>2, <1>4 DEF ClientCrashes
<1>5. CASE Connects
  BY <1>0, <1>5 DEF Connects
<1>6. CASE Accept
  BY <1>0, <1>6 DEF Accept
<1>7. CASE Configure \/ Disconnected
  <2>1. device_connected' \in BOOLEAN
    BY <1>7, Zenon DEF Configure, Disconnected
  <2> QED BY <1>0, <1>7, <2>1 DEF Configure, Disconnected, Listening
<1>8. CASE ServerRestarts
  <2>1. device_connected' \in BOOLEAN
    BY <1>8, Zenon DEF ServerRestarts
  <2> QED BY <1>0, <1>8, <2>1 DEF ServerRestarts, Listening
<1>9. CASE LookForClose \/ Acquire \/ Join \/ Forget \/ LookForEndpoint \/ Ask
           \/ KeepEndpoint \/ TakeLock \/ CreateSocket \/ HookUp
  BY <1>1, <1>9 DEF LookForClose, Acquire, Join, JoinLeaving, Forget, ForgetFor,
                    LookForEndpoint, Ask, KeepEndpoint, TakeLock, CreateSocket, HookUp
<1>10. CASE Opened \/ Reset \/ Closed \/ Ends \/ Answer \/ Lose
  BY <1>1, <1>10 DEF Opened, Reset, Closed, ClosedThen, Ends, Answer, Lose
<1>11. ASSUME NEW t, NEW place, NEW value, NEW next, UpdateConnected(t, place, value, next)
       PROVE  ServerTyped'
  BY <1>1, <1>11 DEF UpdateConnected, UpdateInOrder
<1>12. CASE Refused \/ ClientStarts \/ UNCHANGED vars
  BY <1>1, <1>12 DEF Refused, ClientStarts, vars
<1> QED BY <1>3, <1>4, <1>5, <1>6, <1>7, <1>8, <1>9, <1>10, <1>11, <1>12
        DEF Next, Connector, Multicast, Socket, Serve, Faults

\* Every step keeps the counts of faults within their bounds.
LEMMA FaultsStep ==
  ASSUME TypeOK, [Next]_vars
  PROVE  FaultsTyped'
<1>0. FaultsTyped
  BY TypeParts
<1> USE BoundAssumption DEF FaultsTyped, environment
<1>1. ASSUME UNCHANGED environment PROVE FaultsTyped'
  BY <1>0, <1>1
<1>2. CASE Lose
  BY <1>0, <1>2 DEF Lose
<1>3. CASE ServerRestarts
  BY <1>0, <1>3 DEF ServerRestarts
<1>4. CASE ClientCrashes
  BY <1>0, <1>4 DEF ClientCrashes
<1>5. CASE ClientStarts
  BY <1>0, <1>5 DEF ClientStarts
<1>6. CASE LookForClose \/ Acquire \/ Join \/ Forget \/ LookForEndpoint \/ Ask
           \/ Multicast \/ Serve \/ Answer
  <2>1. ASSUME UpdateConnected("multicast", "claim", TRUE, "create")
        PROVE  FaultsTyped'
    BY <1>1, <2>1 DEF UpdateConnected, UpdateInOrder
  <2> QED BY <1>1, <1>6, <2>1
             DEF LookForClose, Acquire, Join, JoinLeaving, Forget, ForgetFor, LookForEndpoint,
                 Ask, Multicast, Receive, ReceiveIf, KeepEndpoint, TakeLock, CreateSocket,
                 HookUp, Serve, Accept, Configure, Disconnected, Answer
<1>7. CASE Socket \/ Refused \/ UNCHANGED vars
  BY <1>1, <1>7 DEF Socket, Connects, Opened, Reset, Closed, ClosedThen, Ends, Refused, vars
<1>8. ASSUME NEW t, NEW place, NEW value, NEW next, UpdateConnected(t, place, value, next)
      PROVE  FaultsTyped'
  BY <1>1, <1>8 DEF UpdateConnected, UpdateInOrder
<1> QED BY <1>2, <1>3, <1>4, <1>5, <1>6, <1>7, <1>8 DEF Next, Connector, Faults

-----------------------------------------------------------------------------
\* The inductive invariant holds in every state of every behaviour.
THEOREM Invariance == Spec => []Inv
<1>1. Inv /\ [Next]_vars => Inv'
  <2> SUFFICES ASSUME TypeOK, Locks, Updating, [Next]_vars
               PROVE  Inv'
    BY DEF Inv
  <2>1. Locks' /\ Updating'
    BY LocksStep, UpdatingStep
  <2>2. ThreadsTyped' /\ SockTyped' /\ FilesTyped' /\ NetworkTyped' /\ ServerTyped'
        /\ FaultsTyped'
    BY TypeParts, ThreadStep, SockStep, FilesStep, NetworkStep, ServerStep, FaultsStep
  <2>3. socket' => sock'.pc # "none"
    BY <2>1 DEF Locks, OneSocket
  <2>4. TypeOK'
    BY <2>2, <2>3
       DEF TypeOK, ThreadsTyped, SockTyped, FilesTyped, NetworkTyped, ServerTyped,
           FaultsTyped, Places, SockPlaces, connector, multicast
  <2> QED BY <2>1, <2>4 DEF Inv
<1> QED BY <1>1, InvInit, PTL DEF Spec

\* Every variable keeps its type, for any number of datagrams and faults.
THEOREM TypeCorrect == Spec => []TypeOK
<1>1. Inv => TypeOK
  BY DEF Inv
<1> QED BY <1>1, Invariance, PTL

\* The connector joins only a socket whose thread has left its last slot, so that
\* the two never wait for each other.
THEOREM TheJoinEnds == Spec => []JoinEnds
<1>1. Inv => JoinEnds
  BY DEF Inv, Locks, Terminating, JoinEnds, At, connector
<1> QED BY <1>1, Invariance, PTL

\* The hardware was told what the client keeps, although two threads update it
\* without a lock.
THEOREM TheHardwareAgrees == Spec => []HardwareAgrees
<1>1. Inv => HardwareAgrees
  <2> SUFFICES ASSUME Inv, \A t \in Threads : thread[t].update = "test"
               PROVE  hw = server_connected
    BY DEF HardwareAgrees
  <2>1. hw <=> server_connected
    BY DEF Inv, Updating, Telling, Threads
  <2>2. hw \in BOOLEAN /\ server_connected \in BOOLEAN
    BY DEF Inv, TypeOK
  <2> QED BY <2>1, <2>2
<1> QED BY <1>1, Invariance, PTL

-----------------------------------------------------------------------------
(* The only client there is is not refused                                 *)

\* There is a socket's thread only while the client has a socket or is about to
\* have it; a connection is up only while that thread uses it, and the device's
\* thread serves it; a process that is gone reads no datagrams.
Standing ==
  /\ sock.pc # "none" => socket \/ multicast = "hook"
  /\ link = "up" => sock.pc \in {"opened", "read"}
  /\ device.pc = "accept" <=> device.serves = "nothing"
  /\ device_connected => device.pc = "serve"
  /\ process # "up" => answers = <<>>

Refusal == \E i \in DOMAIN answers : answers[i] = None

\* As long as faults are timely, the server has to do only with the connection that
\* is up, and a refusal is under way only to a client whose connection is.
Refusing ==
  timely => /\ process # "died"
            /\ process = "up" /\ (device.pc # "accept" \/ backlog # <<>> \/ Refusal)
                 => link = "up"

Welcome == Standing /\ Refusing

\* Every step of the client's threads but those of the socket's thread, and every
\* datagram, leaves the connection.
LEMMA WelcomeKept ==
  ASSUME Welcome, UNCHANGED <<process, link, timely>>, sock'.pc = sock.pc,
         UNCHANGED <<backlog, device, device_connected>>,
         answers' = answers \/ (process = "up" /\ (Refusal' => Refusal)),
         socket' = socket \/ socket', multicast' = multicast \/ socket' \/ multicast # "hook"
  PROVE  Welcome'
BY DEF Welcome, Standing, Refusing, Refusal

\* What is left of the datagrams holds no refusal that was not there.
LEMMA TailRefuses ==
  ASSUME NetworkTyped, answers # <<>>, answers' = Tail(answers), Refusal'
  PROVE  Refusal
<1>1. answers \in Seq(Endpoints)
  BY DEF NetworkTyped
<1>2. PICK i \in DOMAIN Tail(answers) : Tail(answers)[i] = None
  BY DEF Refusal
<1>3. i + 1 \in DOMAIN answers /\ answers[i + 1] = None
  BY <1>1, <1>2
<1> QED BY <1>3 DEF Refusal

\* The connector forgets a socket only when its connection is gone.
LEMMA ConnectorWelcome ==
  ASSUME Inv, Welcome, Connector
  PROVE  Welcome'
<1>1. ThreadsTyped /\ SockTyped /\ FilesTyped
  BY TypeParts DEF Inv
<1> USE DEF multicast, files, client, network, server, environment
<1>2. ASSUME LookForClose \/ Acquire \/ Forget \/ LookForEndpoint \/ Ask PROVE Welcome'
  <2>1. multicast' = multicast
    BY <1>1, <1>2, GoesLemma
       DEF LookForClose, Acquire, Forget, ForgetFor, LookForEndpoint, Ask, ThreadsTyped,
           Places, ConnectorPlaces, Threads
  <2> QED BY <1>2, <2>1, WelcomeKept
          DEF LookForClose, Acquire, Forget, ForgetFor, LookForEndpoint, Ask
<1>3. CASE Join
  <2>1. sock.pc = "ended" /\ sock' = NoSocket /\ multicast' = multicast
    BY <1>1, <1>3, GoesLemma
       DEF Join, JoinLeaving, ThreadsTyped, Places, ConnectorPlaces, Threads
  <2>2. UNCHANGED <<process, link, timely, backlog, device, device_connected, answers>>
    BY <1>3 DEF Join, JoinLeaving
  <2>3. sock'.pc = "none" /\ link # "up"
    BY <2>1 DEF NoSocket, Welcome, Standing
  <2> QED BY <2>2, <2>3 DEF Welcome, Standing, Refusing, Refusal
<1>4. ASSUME NEW place \in Places, NEW value \in BOOLEAN, NEW next \in Places,
             UpdateConnected("connector", place, value, next)
      PROVE  Welcome'
  <2>1. multicast' = multicast
    BY <1>1, <1>4, UpdateLemma DEF ThreadsTyped, Threads
  <2> QED BY <1>4, <2>1, WelcomeKept DEF UpdateConnected, UpdateInOrder
<1> QED BY <1>2, <1>3, <1>4 DEF Connector, Places, ConnectorPlaces

\* The multicast thread finds no refusal while there is no socket, and makes a socket
\* only while there is none.
LEMMA MulticastWelcome ==
  ASSUME Inv, Welcome, Multicast
  PROVE  Welcome'
<1>1. /\ ThreadsTyped /\ SockTyped /\ FilesTyped /\ NetworkTyped
      /\ Standing /\ OneSocket /\ "multicast" \in Threads
  BY TypeParts DEF Inv, Locks, Welcome, Threads
<1> USE DEF multicast, files, client, network, server, environment
<1>2. CASE Receive
  <2>1. multicast = "top" /\ process = "up" /\ answers # <<>> /\ Head(answers) \in Endpoints
    BY <1>1, <1>2 DEF Receive, ReceiveIf, At, NetworkTyped
  <2>2. CASE ~socket /\ Head(answers) # None
    <3>1. /\ thread' = [thread EXCEPT !["multicast"].pc = "endpoint"]
          /\ UNCHANGED <<process, files, sock, answers, link, backlog, device,
                         device_connected, timely>>
      BY <1>2, <2>2 DEF Receive, ReceiveIf
    <3> QED BY <2>1, <3>1, WelcomeKept
  <2>3. CASE ~socket /\ Head(answers) = None
    <3>1. Refusal
      BY <1>1, <2>1, <2>3 DEF Refusal, NetworkTyped
    <3>2. link # "up"
      BY <1>1, <2>1, <2>3 DEF Standing
    <3>3. ~timely
      BY <2>1, <3>1, <3>2 DEF Welcome, Refusing
    <3>4. Gone("died") /\ UNCHANGED <<device_connected, timely>>
      BY <1>2, <2>3 DEF Receive, ReceiveIf
    <3>5. sock'.pc = "none" /\ link' = "none" /\ answers' = <<>>
          /\ device'.pc = device.pc /\ (device'.serves = "nothing" <=> device.serves = "nothing")
      <4>1. ServerTyped
        BY TypeParts DEF Inv
      <4> QED BY <3>4, <4>1 DEF Gone, NoSocket, Ended, ServerTyped
    <3> QED BY <1>1, <3>3, <3>4, <3>5 DEF Welcome, Standing, Refusing
  <2>4. CASE socket
    <3>1. answers' = Tail(answers)
          /\ UNCHANGED <<process, files, thread, sock, link, backlog, device,
                         device_connected, timely>>
      BY <1>2, <2>4 DEF Receive, ReceiveIf
    <3>2. Refusal' => Refusal
      BY <1>1, <2>1, <3>1, TailRefuses
    <3> QED BY <2>1, <3>1, <3>2, WelcomeKept
  <2> QED BY <1>1, <2>2, <2>3, <2>4 DEF FilesTyped
<1>3. CASE KeepEndpoint
  <2>1. answers # <<>>
    BY <1>3, KeepsOne DEF Inv
  <2>2. /\ answers' = Tail(answers) /\ multicast = "endpoint" /\ process = "up"
        /\ UNCHANGED <<process, socket, sock, link, backlog, device, device_connected, timely>>
    BY <1>3 DEF KeepEndpoint, At
  <2>3. Refusal' => Refusal
    BY <1>1, <2>1, <2>2, TailRefuses
  <2> QED BY <2>2, <2>3, WelcomeKept
<1>4. CASE TakeLock
  BY <1>4, WelcomeKept DEF TakeLock, At
<1>5. CASE UpdateConnected("multicast", "claim", TRUE, "create")
  <2>1. multicast = "claim"
    BY <1>5 DEF UpdateConnected, UpdateInOrder, At
  <2> QED BY <1>5, <2>1, WelcomeKept DEF UpdateConnected, UpdateInOrder
<1>6. CASE CreateSocket
  <2>1. multicast = "create" /\ multicast' = "hook" /\ ~socket
    BY <1>1, <1>6, GoesLemma
       DEF CreateSocket, At, OneSocket, ThreadsTyped, Places, MulticastPlaces
  <2>2. link # "up"
    BY <1>1, <2>1 DEF Standing
  <2>3. UNCHANGED <<process, link, timely, backlog, device, device_connected, answers>>
    BY <1>6 DEF CreateSocket
  <2> QED BY <2>1, <2>2, <2>3 DEF Welcome, Standing, Refusing, Refusal
<1>7. CASE HookUp
  <2>1. socket' /\ sock'.pc = sock.pc
    BY <1>1, <1>7 DEF HookUp, SockTyped
  <2>2. UNCHANGED <<process, link, timely, backlog, device, device_connected, answers>>
    BY <1>7 DEF HookUp
  <2> QED BY <2>1, <2>2 DEF Welcome, Standing, Refusing, Refusal
<1> QED BY <1>2, <1>3, <1>4, <1>5, <1>6, <1>7 DEF Multicast

\* The socket's thread is where the connection is used for as long as it is up.
LEMMA SocketWelcome ==
  ASSUME Inv, Welcome, Socket
  PROVE  Welcome'
<1>1. SockTyped /\ ServerTyped /\ Standing
  BY TypeParts DEF Inv, Welcome
<1> USE DEF multicast, files, client, network, server, environment
<1>2. CASE Connects
  <2>1. link' = "up" /\ sock.pc = "connect" /\ sock'.pc = "opened"
    BY <1>1, <1>2, SockLemma DEF Connects, SockAt, SockTyped, SockPlaces
  <2>2. UNCHANGED <<process, socket, thread, timely, device, device_connected, answers>>
    BY <1>2 DEF Connects
  <2> QED BY <2>1, <2>2 DEF Welcome, Standing, Refusing, Refusal
<1>3. CASE Opened
  <2>1. sock.pc = "opened" /\ sock'.pc = "read"
    BY <1>1, <1>3, SockLemma DEF Opened, SockAt, SockTyped, SockPlaces
  <2>2. UNCHANGED <<process, socket, thread, link, timely, backlog, device, device_connected,
                    answers>>
    BY <1>3 DEF Opened
  <2> QED BY <2>1, <2>2 DEF Welcome, Standing, Refusing, Refusal
<1>4. CASE Reset
  <2>1. sock.pc = "read" /\ sock'.pc = "closed" /\ link = "reset" /\ link' = "none"
    BY <1>1, <1>4, SockLemma DEF Reset, SockAt, SockTyped, SockPlaces
  <2>2. UNCHANGED <<process, socket, thread, timely, backlog, device, device_connected, answers>>
    BY <1>4 DEF Reset
  <2> QED BY <2>1, <2>2 DEF Welcome, Standing, Refusing, Refusal
<1>5. CASE Closed \/ Ends
  <2>1. sock.pc \in {"closed", "ending"} /\ sock'.pc \in {"ending", "ended"}
    BY <1>1, <1>5, SockLemma
       DEF Closed, ClosedThen, Ends, SockAt, SockTyped, SockPlaces
  <2>2. UNCHANGED <<process, socket, thread, link, timely, backlog, device, device_connected,
                    answers>>
    BY <1>5 DEF Closed, ClosedThen, Ends
  <2> QED BY <2>1, <2>2 DEF Welcome, Standing, Refusing, Refusal
<1> QED BY <1>2, <1>3, <1>4, <1>5 DEF Socket

\* The server refuses only while it serves, and serves what is up.
LEMMA ServerWelcome ==
  ASSUME Inv, Welcome, Answer \/ Serve
  PROVE  Welcome'
<1>1. NetworkTyped /\ ServerTyped /\ Standing
  BY TypeParts DEF Inv, Welcome
<1> USE DEF multicast, files, client, network, server, environment
<1>2. CASE Answer
  <2>1. UNCHANGED <<process, link, timely, socket, thread, sock, backlog, device,
                    device_connected>>
    BY <1>2 DEF Answer
  <2>2. CASE answers' = answers
    BY <2>1, <2>2, WelcomeKept
  <2>3. CASE process = "up" /\ device_connected
    <3>1. device.pc = "serve" /\ (timely => link = "up")
      BY <1>1, <2>3 DEF Welcome, Standing, Refusing
    <3> QED BY <1>1, <2>1, <2>3, <3>1 DEF Welcome, Standing, Refusing
  <2>4. CASE process = "up" /\ ~device_connected /\ answers' # answers
    <3>1. answers' = Append(answers, endpoint) /\ endpoint # None
      BY <1>1, <1>2, <2>4, NoneAssumption DEF Answer, ServerTyped
    <3>2. Refusal' => Refusal
      <4> SUFFICES ASSUME NEW i \in DOMAIN answers', answers'[i] = None PROVE Refusal
        BY DEF Refusal
      <4>1. answers \in Seq(Endpoints) /\ endpoint \in Endpoints
        BY <1>1 DEF NetworkTyped, ServerTyped, Endpoints
      <4>2. i \in DOMAIN answers /\ answers[i] = None
        BY <3>1, <4>1
      <4> QED BY <4>2 DEF Refusal
    <3> QED BY <2>1, <2>4, <3>2, WelcomeKept
  <2> QED BY <1>2, <2>2, <2>3, <2>4 DEF Answer
<1>3. ASSUME Serve PROVE UNCHANGED <<process, link, timely, socket, thread, sock, answers>>
  BY <1>3 DEF Serve, Accept, Configure, Disconnected
<1>4. CASE Accept
  <2>1. device.pc = "accept" /\ backlog # <<>> /\ device'.pc = "configure"
        /\ device'.serves \in {"alive", "ended"} /\ device_connected' = device_connected
    BY <1>1, <1>4 DEF Accept, ServerTyped
  <2> QED BY <1>3, <1>4, <2>1 DEF Serve, Welcome, Standing, Refusing, Refusal
<1>5. CASE Configure
  <2>1. device.pc = "configure" /\ device'.pc = "serve" /\ device'.serves = device.serves
        /\ UNCHANGED backlog
    BY <1>1, <1>5 DEF Configure, ServerTyped
  <2> QED BY <1>3, <1>5, <2>1 DEF Serve, Welcome, Standing, Refusing, Refusal
<1>6. CASE Disconnected
  <2>1. /\ device.pc = "serve" /\ device'.pc = "accept" /\ device'.serves = "nothing"
        /\ ~device_connected' /\ UNCHANGED backlog
    BY <1>6 DEF Disconnected, Listening
  <2> QED BY <1>3, <1>6, <2>1 DEF Serve, Welcome, Standing, Refusing, Refusal
<1> QED BY <1>2, <1>4, <1>5, <1>6 DEF Serve

\* A timely fault leaves no refusal behind.
LEMMA FaultsWelcome ==
  ASSUME Inv, Welcome, Faults
  PROVE  Welcome'
<1>1. NetworkTyped /\ ServerTyped /\ FaultsTyped /\ Standing
  BY TypeParts DEF Inv, Welcome
<1> USE DEF multicast, files, client, network, server, environment
<1>2. CASE Lose
  <2>1. UNCHANGED <<process, link, timely, socket, thread, sock, backlog, device,
                    device_connected>>
    BY <1>2 DEF Lose
  <2>2. answers' = answers \/ (process = "up" /\ (Refusal' => Refusal))
    BY <1>1, <1>2, TailRefuses DEF Lose, At
  <2> QED BY <2>1, <2>2, WelcomeKept
<1>3. CASE ServerRestarts
  <2>1. UNCHANGED <<process, socket, thread, sock, answers>>
    BY <1>3 DEF ServerRestarts
  <2>2. /\ link' # "up" /\ backlog' = <<>> /\ ~device_connected'
        /\ device'.pc = "accept" /\ device'.serves = "nothing"
        /\ timely' => timely /\ answers = <<>>
    <3>1. ~device_connected'
      BY <1>3, Zenon DEF ServerRestarts
    <3>2. timely' => timely /\ answers = <<>>
      BY <1>3 DEF ServerRestarts, NothingUnderWay
    <3> QED BY <1>1, <1>3, <3>1, <3>2 DEF ServerRestarts, Listening, NetworkTyped
  <2> QED BY <2>1, <2>2 DEF Welcome, Standing, Refusing, Refusal
<1>4. CASE ClientCrashes
  <2>1. /\ sock'.pc = "none" /\ link' = "none" /\ answers' = <<>> /\ process' = "crashed"
        /\ device'.pc = device.pc /\ (device'.serves = "nothing" <=> device.serves = "nothing")
        /\ UNCHANGED <<device_connected, timely>>
    BY <1>1, <1>4 DEF ClientCrashes, Gone, NoSocket, Ended, ServerTyped
  <2> QED BY <1>1, <2>1 DEF Welcome, Standing, Refusing
<1>5. CASE ClientStarts
  <2>1. /\ process = "crashed" /\ process' = "up"
        /\ UNCHANGED <<link, answers, socket, thread, sock, backlog, device, device_connected>>
        /\ timely' => timely /\ device.serves = "nothing" /\ backlog = <<>>
    BY <1>5 DEF ClientStarts
  <2> QED BY <1>1, <2>1 DEF Welcome, Standing, Refusing, Refusal
<1> QED BY <1>2, <1>3, <1>4, <1>5 DEF Faults

\* With timely faults, no answer to a request that was repeated, delayed or late for
\* a connection ends the only client there is, for any number of datagrams and faults.
THEOREM TheOnlyClientStays == Spec => []NeverRefused
<1>1. Init => Welcome
  <2> SUFFICES ASSUME Init PROVE Welcome
    OBVIOUS
  <2>1. sock.pc = "none" /\ device.pc = "accept" /\ device.serves = "nothing"
        /\ DOMAIN answers = {}
    BY DEF Init, NoSocket, Listening
  <2> QED BY <2>1 DEF Init, Welcome, Standing, Refusing, Refusal
<1>2. Inv /\ Welcome /\ [Next]_vars => Welcome'
  <2> SUFFICES ASSUME Inv, Welcome, [Next]_vars PROVE Welcome'
    OBVIOUS
  <2>1. CASE UNCHANGED vars
    BY <2>1, WelcomeKept DEF vars, client, files, network, server, environment, multicast
  <2>2. CASE Refused
    BY <2>2, WelcomeKept
       DEF Refused, vars, client, files, network, server, environment, multicast
  <2> QED BY <2>1, <2>2, ConnectorWelcome, MulticastWelcome, SocketWelcome, ServerWelcome,
             FaultsWelcome DEF Next
<1>3. Welcome => NeverRefused
  BY DEF Welcome, Refusing, NeverRefused
<1> QED BY <1>1, <1>2, <1>3, Invariance, PTL DEF Spec

=============================================================================
