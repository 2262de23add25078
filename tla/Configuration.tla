----------------------------- MODULE Configuration -----------------------------
(***************************************************************************)
(* The configuration that the server keeps, the web pages that show and    *)
(* change it, and the file it is saved in: src/src/server/server.py and    *)
(* src/src/common/websocket_server.py.                                     *)
(*                                                                         *)
(* One thread of the server serves the pages.  A parameter that a page     *)
(* sets is broadcast 0.05 s later by a thread of a Timer, so that a slider *)
(* makes one broadcast of many settings; a page that has just opened asks  *)
(* for the configuration, and the serving thread broadcasts at once.  The  *)
(* two threads share the groups' parameters, delayed_broadcast and the     *)
(* list of clients, without a lock.                                        *)
(*                                                                         *)
(* A connection keeps its order and nothing of the server depends on when  *)
(* a page reads: a page shows a configuration as soon as it is sent.       *)
(***************************************************************************)
EXTENDS Integers, Sequences

CONSTANTS
  Pages,        \* the web pages, each with a websocket
  Settings,     \* the values of the parameters
  Template,     \* the one the configuration file starts with
  None,         \* a page that shows nothing yet
  MaxMail       \* bound of the model: messages of a page that are under way

ASSUME SettingsAssumption == Template \in Settings /\ None \notin Settings
ASSUME MailAssumption == MaxMail \in Nat

VARIABLES
  server,             \* "up", "down", or "dead": it finds a file it cannot read
  parameters,         \* jsn of the groups
  file,               \* the configuration file; None: it is truncated
  delayed_broadcast,  \* is there a Timer?
  thread,             \* "ws" that serves and the Timer's: place, index, configuration
  clients,            \* clients of websocket_server, in the order of handleConnected
  page,               \* "away", "open", or "left": the server does not know yet
  inbox,              \* each page's messages that are not handled yet
  shown,              \* the configuration a page shows
  crossed,            \* history: has a broadcast under way missed a setting or a page?
  saved               \* history: the configuration that was saved last

vars == <<server, parameters, file, delayed_broadcast, thread, clients, page, inbox,
          shown, crossed, saved>>
disk == <<server, file, saved>>

Idle == [pc |-> "idle", at |-> 1, value |-> Template]
Get == [command |-> "get", value |-> Template]
Save == [command |-> "save", value |-> Template]
Set(value) == [command |-> "set", value |-> value]
Messages == {Get, Save} \cup {Set(value) : value \in Settings}

Init ==
  /\ server = "up" /\ parameters = Template /\ file = Template /\ saved = Template
  /\ delayed_broadcast = FALSE
  /\ thread = [t \in {"ws", "timer"} |-> Idle]
  /\ clients = <<>>
  /\ page = [p \in Pages |-> "away"]
  /\ inbox = [p \in Pages |-> <<>>]
  /\ shown = [p \in Pages |-> None]
  /\ crossed = FALSE

At(t, place) == thread[t].pc = place
Goto(t, place) == thread' = [thread EXCEPT ![t].pc = place]

-----------------------------------------------------------------------------
(* The web pages                                                           *)

Send(p, message) ==
  /\ page[p] = "open" /\ Len(inbox[p]) < MaxMail
  /\ inbox' = [inbox EXCEPT ![p] = Append(@, message)]
  /\ UNCHANGED <<disk, parameters, delayed_broadcast, thread, clients, page, shown, crossed>>

\* A parameter is set, or the configuration is to be saved.
Ask(p) == Send(p, Save) \/ \E value \in Settings : Send(p, Set(value))

Leave(p) ==
  /\ page[p] = "open"
  /\ page' = [page EXCEPT ![p] = "left"]
  /\ UNCHANGED <<disk, parameters, delayed_broadcast, thread, clients, inbox, shown, crossed>>

-----------------------------------------------------------------------------
(* WebsocketInterface and websocket_rx: the thread that serves             *)

\* handleConnected; the page asks for the configuration, onopen
Connected(p) ==
  /\ server = "up" /\ At("ws", "idle") /\ page[p] = "away"
  /\ clients' = Append(clients, p)
  /\ page' = [page EXCEPT ![p] = "open"]
  /\ inbox' = [inbox EXCEPT ![p] = <<Get>>]
  /\ UNCHANGED <<disk, parameters, delayed_broadcast, thread, shown, crossed>>

Place(list, p) == CHOOSE i \in DOMAIN list : list[i] = p
Without(list, p) ==
  [i \in 1..(Len(list) - 1) |-> IF i < Place(list, p) THEN list[i] ELSE list[i + 1]]

ClosedLeaving(p, list) ==
  /\ At("ws", "idle") /\ page[p] = "left"
  /\ clients' = list
  /\ page' = [page EXCEPT ![p] = "away"]
  /\ inbox' = [inbox EXCEPT ![p] = <<>>]
  /\ shown' = [shown EXCEPT ![p] = None]
  /\ crossed' = (crossed \/ (At("timer", "send") /\ Place(clients, p) < thread["timer"].at))
  /\ UNCHANGED <<disk, parameters, delayed_broadcast, thread>>

\* Mutation of Closed: the client stays in the list.
ClosedListed(p) == ClosedLeaving(p, clients)

\* handleClose: clients.remove(self); the loop of the other thread goes on by index
Closed(p) == ClosedLeaving(p, Without(clients, p))

\* handleMessage: websocket_rx is called with the oldest message.
Received(p, command) ==
  /\ At("ws", "idle") /\ page[p] # "away"
  /\ inbox[p] # <<>> /\ Head(inbox[p]).command = command
  /\ inbox' = [inbox EXCEPT ![p] = Tail(@)]
  /\ UNCHANGED <<disk, delayed_broadcast, clients, page, shown>>

GetConfigurationThen(p, place) ==
  /\ Received(p, "get")
  /\ Goto("ws", place)
  /\ UNCHANGED <<parameters, crossed>>

\* Mutation of GetConfiguration: only a timer's broadcast is made.
GetConfigurationLater(p) ==
  GetConfigurationThen(p, IF delayed_broadcast THEN "idle" ELSE "dump")

GetConfiguration(p) == GetConfigurationThen(p, "dump")

SaveCurrentConfiguration(p) ==
  /\ Received(p, "save")
  /\ Goto("ws", "open")
  /\ UNCHANGED <<parameters, crossed>>

\* Group.set_param
SetParam(p) ==
  /\ Received(p, "set")
  /\ parameters' = Head(inbox[p]).value
  /\ crossed' = (crossed \/ thread["timer"].pc \in {"send", "reset"})
  /\ Goto("ws", "test")

\* if not self.delayed_broadcast: a Timer is made and started
DelayBroadcast ==
  /\ At("ws", "test")
  /\ thread' = [thread EXCEPT !["ws"].pc = "idle",
                              !["timer"].pc = IF delayed_broadcast THEN @ ELSE "dump"]
  /\ delayed_broadcast' = TRUE
  /\ crossed' = (crossed /\ delayed_broadcast)
  /\ UNCHANGED <<disk, parameters, clients, page, inbox, shown>>

\* save_configuration: open(.., 'w') truncates the file, and what is written gets
\* there when it is closed.
OpenFile ==
  /\ At("ws", "open")
  /\ file' = None
  /\ Goto("ws", "write")
  /\ UNCHANGED <<server, saved, parameters, delayed_broadcast, clients, page, inbox, shown,
                 crossed>>

WriteFile ==
  /\ At("ws", "write")
  /\ file' = parameters /\ saved' = parameters
  /\ Goto("ws", "idle")
  /\ UNCHANGED <<server, parameters, delayed_broadcast, clients, page, inbox, shown, crossed>>

-----------------------------------------------------------------------------
(* broadcast_new_configuration, in either thread                           *)

\* The groups' dictionaries are copied no deeper than one level, so that what is
\* sent is what they hold when send_message makes a string of them.
Dump(t) ==
  /\ At(t, "dump")
  /\ thread' = [thread EXCEPT ![t] = [pc |-> "send", at |-> 1, value |-> parameters]]
  /\ UNCHANGED <<disk, parameters, delayed_broadcast, clients, page, inbox, shown, crossed>>

\* for _client in clients: _client.sendMessage(..)
SendTo(t, p) ==
  /\ At(t, "send")
  /\ \E i \in DOMAIN clients : i = thread[t].at /\ p = clients[i]
  /\ shown' = [shown EXCEPT ![p] = IF page[p] = "open" THEN thread[t].value ELSE @]
  /\ thread' = [thread EXCEPT ![t].at = @ + 1]
  /\ UNCHANGED <<disk, parameters, delayed_broadcast, clients, page, inbox, crossed>>

AllSent(t) ==
  /\ At(t, "send") /\ thread[t].at > Len(clients)
  /\ thread' = [thread EXCEPT ![t] = [Idle EXCEPT !.pc = IF t = "timer" THEN "reset" ELSE "idle"]]
  /\ UNCHANGED <<disk, parameters, delayed_broadcast, clients, page, inbox, shown, crossed>>

ResetTo(timer) ==
  /\ At("timer", "reset")
  /\ delayed_broadcast' = timer
  /\ Goto("timer", "idle")
  /\ UNCHANGED <<disk, parameters, clients, page, inbox, shown, crossed>>

\* Mutation of Reset: the Timer is left in place.
ResetNothing == ResetTo(delayed_broadcast)

\* send_broadcast: self.delayed_broadcast = None
Reset == ResetTo(FALSE)

-----------------------------------------------------------------------------
(* The server ends, at any moment, and is started again by systemd         *)

Crash ==
  /\ server = "up"
  /\ server' = "down"
  /\ delayed_broadcast' = FALSE
  /\ thread' = [t \in {"ws", "timer"} |-> Idle]
  /\ clients' = <<>>
  /\ page' = [p \in Pages |-> "away"]
  /\ inbox' = [p \in Pages |-> <<>>]
  /\ shown' = [p \in Pages |-> None]
  /\ crossed' = FALSE
  /\ UNCHANGED <<parameters, file, saved>>

Loads(readable, setting) ==
  /\ server = "down"
  /\ IF readable
     THEN server' = "up" /\ parameters' = setting
     ELSE server' = "dead" /\ UNCHANGED parameters
  /\ UNCHANGED <<file, saved, delayed_broadcast, thread, clients, page, inbox, shown, crossed>>

\* Mutation of LoadConfiguration: a file that is no JSON is taken for a missing one.
LoadTemplate == Loads(TRUE, IF file = None THEN Template ELSE file)

\* load_configuration: a file that is no JSON ends the process, each time.
LoadConfiguration == Loads(file # None, file)

-----------------------------------------------------------------------------
Serve ==
  \/ \E p \in Pages :
       Closed(p) \/ GetConfiguration(p) \/ SaveCurrentConfiguration(p) \/ SetParam(p)
  \/ DelayBroadcast \/ OpenFile \/ WriteFile
  \/ Dump("ws") \/ (\E p \in Pages : SendTo("ws", p)) \/ AllSent("ws")

Timer ==
  \/ Dump("timer") \/ (\E p \in Pages : SendTo("timer", p)) \/ AllSent("timer")
  \/ Reset

Next ==
  \/ \E p \in Pages : Ask(p) \/ Leave(p) \/ Connected(p)
  \/ Serve
  \/ Timer
  \/ Crash \/ LoadConfiguration

\* Both threads are scheduled; no page is obliged to anything.
Fairness == WF_vars(Serve) /\ WF_vars(Timer)

Spec == Init /\ [][Next]_vars
FairSpec == Spec /\ Fairness

-----------------------------------------------------------------------------
Places == {"idle", "test", "open", "write", "dump", "send", "reset"}
Threads == [pc : Places, at : Nat \ {0}, value : Settings]

\* Every variable has its type, and clients lists each page that is connected once.
TypeOK ==
  /\ server \in {"up", "down", "dead"}
  /\ parameters \in Settings /\ file \in Settings \cup {None} /\ saved \in Settings
  /\ delayed_broadcast \in BOOLEAN
  /\ thread \in [{"ws", "timer"} -> Threads]
  /\ clients \in Seq(Pages)
  /\ \A i, j \in 1..Len(clients) : clients[i] = clients[j] => i = j
  /\ page \in [Pages -> {"away", "open", "left"}]
  /\ \A p \in Pages : page[p] # "away" <=> \E i \in 1..Len(clients) : clients[i] = p
  /\ inbox \in [Pages -> Seq(Messages)]
  /\ shown \in [Pages -> Settings \cup {None}]
  /\ crossed \in BOOLEAN

Behind(p) == page[p] = "open" /\ shown[p] # parameters

\* A thread will send p what the parameters are now.
Sends(t, p) ==
  \/ At(t, "dump")
  \/ /\ At(t, "send") /\ thread[t].value = parameters
     /\ \E i \in 1..Len(clients) : clients[i] = p /\ i >= thread[t].at

Asked(p) == \E i \in 1..Len(inbox[p]) : inbox[p][i] = Get

\* No page is forgotten: the one Timer for many settings, the two threads that send
\* to a list that changes under them and the pages that come and go leave no page with
\* an old configuration and nothing to tell it the new one, except where a setting or a
\* page that closes falls into a broadcast of the Timer, between its string and its end
\* (server.py:154, websocket_server.py:57), and then only until the next setting.
BehindIsTold ==
  \A p \in Pages : Behind(p) /\ ~crossed =>
    \/ Asked(p) \/ Sends("ws", p) \/ Sends("timer", p)
    \/ At("ws", "test") /\ ~delayed_broadcast

\* Once the pages ask nothing and come and go no more, every page that is there comes
\* to show what the server has, for good.
PagesAgree ==
  <>[][Serve \/ Timer]_vars => <>[](crossed \/ \A p \in Pages : ~Behind(p))

\* Whatever a crash falls into, a server that comes up has what was saved last; a save
\* that was cut keeps it from coming up, instead of starting with something else.
SavedComesBack == [][server = "down" /\ server' = "up" => parameters' = saved]_vars

=============================================================================
