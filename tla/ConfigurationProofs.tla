-------------------------- MODULE ConfigurationProofs --------------------------
(***************************************************************************)
(* Proofs about the configuration and its pages, for any pages, settings   *)
(* and lengths of the inboxes: what the two threads share keeps its types, *)
(* no page is forgotten, and a restart brings back what was saved.         *)
(***************************************************************************)
EXTENDS Configuration, TLAPS

USE SettingsAssumption, MailAssumption

\* delayed_broadcast is set exactly while the Timer's thread has not ended.
TimerIsSet ==
  /\ delayed_broadcast <=> ~At("timer", "idle")
  /\ ~At("ws", "reset")
  /\ thread["timer"].pc \in {"idle", "dump", "send", "reset"}

\* What is sent is what the parameters are, unless they were set meanwhile: the thread
\* that serves cannot set one while it sends, and the Timer's is crossed by one that does.
SentIsFresh ==
  /\ At("ws", "send") => thread["ws"].value = parameters
  /\ At("timer", "send") /\ ~crossed => thread["timer"].value = parameters

FileIsSaved == file \in {saved, None}

\* A server that is not up has neither threads nor pages.
Quiet ==
  server # "up" => /\ At("ws", "idle") /\ At("timer", "idle")
                   /\ \A p \in Pages : page[p] = "away"

Told(p) ==
  Behind(p) /\ ~crossed =>
    \/ Asked(p) \/ Sends("ws", p) \/ Sends("timer", p)
    \/ At("ws", "test") /\ ~delayed_broadcast

IInv == TypeOK /\ TimerIsSet /\ SentIsFresh /\ FileIsSaved /\ Quiet /\ BehindIsTold

-----------------------------------------------------------------------------
Once(list) == \A i, j \in 1..Len(list) : list[i] = list[j] => i = j
Lists(list, p) == \E i \in 1..Len(list) : list[i] = p

\* handleClose takes a page off the list: those before it keep their places, those
\* behind it move up by one.
LEMMA WithoutLemma ==
  ASSUME NEW list \in Seq(Pages), NEW p \in Pages, Once(list), Lists(list, p)
  PROVE  LET k == Place(list, p)
             r == Without(list, p)
         IN  /\ k \in 1..Len(list) /\ list[k] = p
             /\ r \in Seq(Pages) /\ Len(r) = Len(list) - 1
             /\ \A i \in 1..Len(r) : r[i] = IF i < k THEN list[i] ELSE list[i + 1]
             /\ Once(r)
             /\ \A q \in Pages : Lists(r, q) <=> Lists(list, q) /\ q # p
             /\ \A i \in 1..Len(list) : i < k => i \in 1..Len(r) /\ r[i] = list[i]
             /\ \A i \in 1..Len(list) : i > k => i - 1 \in 1..Len(r) /\ r[i - 1] = list[i]
<1> DEFINE k == Place(list, p)
           r == Without(list, p)
<1>1. DOMAIN list = 1..Len(list) /\ Len(list) \in Nat /\ \A i \in 1..Len(list) : list[i] \in Pages
  OBVIOUS
<1>2. k \in 1..Len(list) /\ list[k] = p
  BY <1>1 DEF Place, Lists
<1>3. r = [i \in 1..(Len(list) - 1) |-> IF i < k THEN list[i] ELSE list[i + 1]]
  BY DEF Without
<1> HIDE DEF k, r
<1>4. Len(list) - 1 \in Nat /\ \A i \in 1..(Len(list) - 1) : i \in 1..Len(list) /\ i + 1 \in 1..Len(list)
  BY <1>1, <1>2
<1>5. r \in Seq(Pages) /\ Len(r) = Len(list) - 1
  BY <1>1, <1>3, <1>4
<1>6. \A i \in 1..Len(r) : r[i] = IF i < k THEN list[i] ELSE list[i + 1]
  BY <1>3, <1>5
<1>7. Once(r)
  BY <1>1, <1>2, <1>4, <1>5, <1>6 DEF Once
<1>8. /\ \A i \in 1..Len(list) : i < k => i \in 1..Len(r) /\ r[i] = list[i]
      /\ \A i \in 1..Len(list) : i > k => i - 1 \in 1..Len(r) /\ r[i - 1] = list[i]
  BY <1>1, <1>2, <1>5, <1>6
<1>9. \A q \in Pages : Lists(r, q) <=> Lists(list, q) /\ q # p
  <2> SUFFICES ASSUME NEW q \in Pages PROVE Lists(r, q) <=> Lists(list, q) /\ q # p
    OBVIOUS
  <2>1. ASSUME Lists(r, q) PROVE Lists(list, q) /\ q # p
    <3>1. PICK i \in 1..Len(r) : r[i] = q
      BY <2>1 DEF Lists
    <3>2. CASE i < k
      BY <1>2, <1>4, <1>5, <1>6, <3>1, <3>2 DEF Lists, Once
    <3>3. CASE ~(i < k)
      BY <1>2, <1>4, <1>5, <1>6, <3>1, <3>3 DEF Lists, Once
    <3> QED BY <3>2, <3>3
  <2>2. ASSUME Lists(list, q), q # p PROVE Lists(r, q)
    <3>1. PICK i \in 1..Len(list) : list[i] = q
      BY <2>2 DEF Lists
    <3>2. i < k \/ i > k
      BY <1>2, <2>2, <3>1
    <3> QED BY <1>8, <3>1, <3>2 DEF Lists
  <2> QED BY <2>1, <2>2
<1> QED BY <1>2, <1>5, <1>6, <1>7, <1>8, <1>9 DEF k, r

\* handleConnected puts a page at the end of the list.
LEMMA AppendLemma ==
  ASSUME NEW list \in Seq(Pages), NEW p \in Pages, Once(list), ~Lists(list, p)
  PROVE  LET r == Append(list, p)
         IN  /\ r \in Seq(Pages) /\ Once(r)
             /\ \A q \in Pages : Lists(r, q) <=> Lists(list, q) \/ q = p
             /\ \A i \in 1..Len(list) : i \in 1..Len(r) /\ r[i] = list[i]
<1> DEFINE r == Append(list, p)
<1>1. /\ r \in Seq(Pages) /\ Len(r) = Len(list) + 1 /\ Len(list) \in Nat
      /\ r[Len(list) + 1] = p /\ \A i \in 1..Len(list) : r[i] = list[i]
  OBVIOUS
<1> HIDE DEF r
<1> QED BY <1>1 DEF Once, Lists, r

\* What a thread that goes on to another place leaves alone.
LEMMA GotoLemma ==
  ASSUME thread \in [{"ws", "timer"} -> Threads],
         NEW t \in {"ws", "timer"}, NEW place \in Places, Goto(t, place)
  PROVE  /\ thread' \in [{"ws", "timer"} -> Threads]
         /\ thread'[t].pc = place /\ thread'[t].at = thread[t].at
         /\ thread'[t].value = thread[t].value
         /\ \A u \in {"ws", "timer"} \ {t} : thread'[u] = thread[u]
<1> DEFINE goes == [thread[t] EXCEPT !.pc = place]
<1>1. thread[t] \in Threads
  OBVIOUS
<1>2. /\ goes \in Threads /\ goes.pc = place /\ goes.at = thread[t].at
      /\ goes.value = thread[t].value
  BY <1>1 DEF Threads
<1>3. thread' = [thread EXCEPT ![t] = goes]
  BY DEF Goto
<1> HIDE DEF goes
<1> QED BY <1>2, <1>3

-----------------------------------------------------------------------------
\* The messages of a page, and the list of the clients, in the type invariant.
Listing ==
  /\ clients \in Seq(Pages) /\ Once(clients)
  /\ page \in [Pages -> {"away", "open", "left"}]
  /\ \A p \in Pages : page[p] # "away" <=> Lists(clients, p)
  /\ inbox \in [Pages -> Seq(Messages)]
  /\ shown \in [Pages -> Settings \cup {None}]

Holdings ==
  /\ server \in {"up", "down", "dead"}
  /\ parameters \in Settings /\ file \in Settings \cup {None} /\ saved \in Settings
  /\ delayed_broadcast \in BOOLEAN /\ crossed \in BOOLEAN
  /\ thread \in [{"ws", "timer"} -> Threads]

LEMMA TypeIsParts == TypeOK <=> Listing /\ Holdings
  BY DEF TypeOK, Listing, Holdings, Once, Lists

LEMMA TypeIsPartsNext == TypeOK' <=> Listing' /\ Holdings'
  BY DEF TypeOK, Listing, Holdings, Once, Lists

LEMMA MessagesLemma ==
  /\ Get \in Messages /\ Save \in Messages
  /\ \A value \in Settings : Set(value) \in Messages
  /\ \A m \in Messages : m.value \in Settings
<1>1. Get.value \in Settings /\ Save.value \in Settings
  BY DEF Get, Save
<1>2. \A value \in Settings : Set(value).value \in Settings
  BY DEF Set
<1>3. \A m \in Messages : m = Get \/ m = Save \/ \E value \in Settings : m = Set(value)
  BY Zenon DEF Messages
<1>4. Get \in Messages /\ Save \in Messages /\ \A value \in Settings : Set(value) \in Messages
  BY Zenon DEF Messages
<1>5. ASSUME NEW m \in Messages PROVE m.value \in Settings
  BY <1>1, <1>2, <1>3, Zenon
<1> QED BY <1>4, <1>5

\* What the pages do, and what the server makes of their list.
LEMMA ListingStep ==
  ASSUME Listing, Holdings, [Next]_vars
  PROVE  Listing'
<1>1. ASSUME UNCHANGED <<clients, page, inbox, shown>> PROVE Listing'
  BY <1>1 DEF Listing, Lists, Once
<1>2. ASSUME NEW p \in Pages, Ask(p) PROVE Listing'
  <2>1. PICK m \in Messages : Send(p, m)
    BY <1>2, MessagesLemma DEF Ask
  <2> QED BY <2>1 DEF Send, Listing, Lists, Once
<1>3. ASSUME NEW p \in Pages, Leave(p) PROVE Listing'
  BY <1>3 DEF Leave, Listing, Lists, Once
<1>4. ASSUME NEW p \in Pages, Connected(p) PROVE Listing'
  <2>1. /\ clients' \in Seq(Pages) /\ Once(clients')
        /\ \A q \in Pages : Lists(clients', q) <=> Lists(clients, q) \/ q = p
    BY <1>4, AppendLemma DEF Connected, Listing
  <2>2. <<Get>> \in Seq(Messages)
    BY MessagesLemma
  <2> QED BY <1>4, <2>1, <2>2 DEF Connected, Listing
<1>5. ASSUME NEW p \in Pages, Closed(p) PROVE Listing'
  <2>1. /\ clients' \in Seq(Pages) /\ Once(clients')
        /\ \A q \in Pages : Lists(clients', q) <=> Lists(clients, q) /\ q # p
    BY <1>5, WithoutLemma DEF Closed, ClosedLeaving, Listing
  <2>2. <<>> \in Seq(Messages)
    OBVIOUS
  <2> QED BY <1>5, <2>1, <2>2 DEF Closed, ClosedLeaving, Listing
<1>6. ASSUME NEW p \in Pages, NEW command, Received(p, command) PROVE Listing'
  <2>1. inbox[p] \in Seq(Messages) /\ inbox[p] # <<>>
    BY <1>6 DEF Received, Listing
  <2>2. Tail(inbox[p]) \in Seq(Messages)
    BY <2>1
  <2> QED BY <1>6, <2>2 DEF Received, Listing, Lists, Once
<1>7. ASSUME NEW p \in Pages, GetConfiguration(p) \/ SaveCurrentConfiguration(p) \/ SetParam(p)
      PROVE  Listing'
  BY <1>6, <1>7 DEF GetConfiguration, GetConfigurationThen, SaveCurrentConfiguration, SetParam
<1>8. ASSUME NEW t \in {"ws", "timer"}, NEW p \in Pages, SendTo(t, p) PROVE Listing'
  <2>1. thread[t].value \in Settings
    BY DEF Holdings, Threads
  <2> QED BY <1>8, <2>1 DEF SendTo, Listing, Lists, Once
<1>9. CASE Crash
  <2>1. clients' = <<>> /\ <<>> \in Seq(Pages) /\ <<>> \in Seq(Messages) /\ Len(<<>>) = 0
    BY <1>9 DEF Crash
  <2> QED BY <1>9, <2>1 DEF Crash, Listing, Lists, Once
<1>10. CASE DelayBroadcast \/ OpenFile \/ WriteFile \/ Reset \/ LoadConfiguration
  BY <1>1, <1>10 DEF DelayBroadcast, OpenFile, WriteFile, Reset, ResetTo, LoadConfiguration, Loads
<1>11. ASSUME NEW t \in {"ws", "timer"}, Dump(t) \/ AllSent(t) PROVE Listing'
  BY <1>1, <1>11 DEF Dump, AllSent
<1>12. CASE UNCHANGED vars
  BY <1>1, <1>12 DEF vars
<1> QED BY <1>2, <1>3, <1>4, <1>5, <1>7, <1>8, <1>9, <1>10, <1>11, <1>12 DEF Next, Serve, Timer

\* The threads' places and what they hold.
Rest == Holdings /\ TimerIsSet /\ SentIsFresh /\ FileIsSaved /\ Quiet

LEMMA RestStep ==
  ASSUME Listing, Rest, [Next]_vars
  PROVE  Rest'
<1> USE DEF disk, At, Listing
<1>0. /\ thread \in [{"ws", "timer"} -> Threads]
      /\ thread["ws"] \in Threads /\ thread["timer"] \in Threads
  BY DEF Rest, Holdings
<1>1. ASSUME UNCHANGED <<disk, parameters, delayed_broadcast, thread, crossed>>, Quiet' PROVE Rest'
  BY <1>1 DEF Rest, Holdings, TimerIsSet, SentIsFresh, FileIsSaved, Quiet
<1>2. ASSUME NEW p \in Pages, Ask(p) \/ Leave(p) \/ Connected(p) PROVE Rest'
  BY <1>1, <1>2 DEF Ask, Send, Leave, Connected, Rest, Quiet, Listing
<1>3. ASSUME NEW p \in Pages, Closed(p) PROVE Rest'
  BY <1>3 DEF Closed, ClosedLeaving, Rest, Holdings, TimerIsSet, SentIsFresh, FileIsSaved, Quiet
<1>4. ASSUME NEW place \in {"idle", "test", "open", "write", "dump"}, Goto("ws", place)
      PROVE  /\ thread' \in [{"ws", "timer"} -> Threads]
             /\ thread'["ws"].pc = place /\ thread'["timer"] = thread["timer"]
  BY <1>0, <1>4, GotoLemma DEF Places
<1>5. ASSUME NEW p \in Pages, GetConfiguration(p) PROVE Rest'
  BY <1>4, <1>5 DEF GetConfiguration, GetConfigurationThen, Received, Rest, Holdings, TimerIsSet,
                    SentIsFresh, FileIsSaved, Quiet
<1>6. ASSUME NEW p \in Pages, SaveCurrentConfiguration(p) PROVE Rest'
  BY <1>4, <1>6 DEF SaveCurrentConfiguration, Received, Rest, Holdings, TimerIsSet, SentIsFresh,
                    FileIsSaved, Quiet
<1>7. ASSUME NEW p \in Pages, SetParam(p) PROVE Rest'
  <2>1. Head(inbox[p]) \in Messages
    BY <1>7 DEF SetParam, Received, Listing
  <2>2. parameters' \in Settings
    BY <1>7, <2>1, MessagesLemma DEF SetParam
  <2> QED BY <1>4, <1>7, <2>2 DEF SetParam, Received, Rest, Holdings, TimerIsSet, SentIsFresh,
                                  FileIsSaved, Quiet
<1>8. CASE DelayBroadcast
  <2> DEFINE ws == [thread["ws"] EXCEPT !.pc = "idle"]
             timer == [thread["timer"] EXCEPT !.pc = IF delayed_broadcast THEN @ ELSE "dump"]
  <2>1. /\ ws \in Threads /\ ws.pc = "idle"
        /\ timer \in Threads
        /\ delayed_broadcast => timer = thread["timer"]
        /\ ~delayed_broadcast => timer.pc = "dump"
    BY <1>0 DEF Threads, Places
  <2>2. thread' = [[thread EXCEPT !["ws"] = ws] EXCEPT !["timer"] = timer]
    BY <1>8 DEF DelayBroadcast
  <2> HIDE DEF ws, timer
  <2>3. thread' \in [{"ws", "timer"} -> Threads] /\ thread'["ws"] = ws /\ thread'["timer"] = timer
    BY <1>0, <2>1, <2>2
  <2> QED BY <1>8, <2>1, <2>3 DEF DelayBroadcast, Rest, Holdings, TimerIsSet, SentIsFresh, FileIsSaved, Quiet
<1>9. CASE OpenFile
  BY <1>4, <1>9 DEF OpenFile, Rest, Holdings, TimerIsSet, SentIsFresh, FileIsSaved, Quiet
<1>10. CASE WriteFile
  BY <1>4, <1>10 DEF WriteFile, Rest, Holdings, TimerIsSet, SentIsFresh, FileIsSaved, Quiet
<1>11. ASSUME NEW t \in {"ws", "timer"}, Dump(t) PROVE Rest'
  <2> DEFINE r == [pc |-> "send", at |-> 1, value |-> parameters]
  <2>1. r \in Threads /\ r.pc = "send" /\ r.value = parameters
    BY DEF Rest, Holdings, Threads, Places
  <2>2. thread' = [thread EXCEPT ![t] = r]
    BY <1>11 DEF Dump
  <2> HIDE DEF r
  <2> QED BY <1>0, <1>11, <2>1, <2>2 DEF Dump, Rest, Holdings, TimerIsSet, SentIsFresh, FileIsSaved, Quiet
<1>12. ASSUME NEW t \in {"ws", "timer"}, NEW p \in Pages, SendTo(t, p) PROVE Rest'
  <2> DEFINE r == [thread[t] EXCEPT !.at = @ + 1]
  <2>0. thread[t] \in Threads /\ thread[t].at + 1 \in Nat \ {0}
    BY <1>0 DEF Threads
  <2>1. r \in Threads /\ r.pc = thread[t].pc /\ r.value = thread[t].value
    BY <2>0 DEF Threads
  <2>2. thread' = [thread EXCEPT ![t] = r]
    BY <1>12 DEF SendTo
  <2> HIDE DEF r
  <2> QED BY <1>0, <1>12, <2>1, <2>2 DEF SendTo, Rest, Holdings, TimerIsSet, SentIsFresh, FileIsSaved, Quiet
<1>13. ASSUME NEW t \in {"ws", "timer"}, AllSent(t) PROVE Rest'
  <2> DEFINE r == [Idle EXCEPT !.pc = IF t = "timer" THEN "reset" ELSE "idle"]
  <2>1. r \in Threads /\ r.pc = IF t = "timer" THEN "reset" ELSE "idle"
    BY DEF Idle, Threads, Places
  <2>2. thread' = [thread EXCEPT ![t] = r]
    BY <1>13 DEF AllSent
  <2> HIDE DEF r
  <2> QED BY <1>0, <1>13, <2>1, <2>2 DEF AllSent, Rest, Holdings, TimerIsSet, SentIsFresh, FileIsSaved, Quiet
<1>14. CASE Reset
  <2>1. /\ thread' \in [{"ws", "timer"} -> Threads]
        /\ thread'["timer"].pc = "idle" /\ thread'["ws"] = thread["ws"]
    BY <1>0, <1>14, GotoLemma DEF Reset, ResetTo, Places
  <2> QED BY <1>14, <2>1 DEF Reset, ResetTo, Rest, Holdings, TimerIsSet, SentIsFresh, FileIsSaved, Quiet
<1>15. CASE Crash
  <2>1. Idle \in Threads /\ Idle.pc = "idle"
    BY DEF Idle, Threads, Places
  <2> QED BY <1>15, <2>1 DEF Crash, Rest, Holdings, TimerIsSet, SentIsFresh, FileIsSaved, Quiet
<1>16. CASE LoadConfiguration
  BY <1>16 DEF LoadConfiguration, Loads, Rest, Holdings, TimerIsSet, SentIsFresh, FileIsSaved, Quiet
<1>17. CASE UNCHANGED vars
  BY <1>1, <1>17 DEF vars, Rest, Quiet
<1> QED BY <1>2, <1>3, <1>5, <1>6, <1>7, <1>8, <1>9, <1>10, <1>11, <1>12, <1>13, <1>14, <1>15,
           <1>16, <1>17
    DEF Next, Serve, Timer

\* The heart of it: whatever step is taken, a page that was told, or is about to be,
\* still is, unless it is not behind any more.
LEMMA ToldStep ==
  ASSUME IInv, [Next]_vars, NEW q \in Pages
  PROVE  Told(q)'
<1> USE DEF disk, At
<1>0. /\ Told(q) /\ Rest /\ Listing
      /\ thread \in [{"ws", "timer"} -> Threads]
      /\ thread["ws"] \in Threads /\ thread["timer"] \in Threads
  BY TypeIsParts DEF IInv, BehindIsTold, Told, Rest, Holdings
<1>1. ASSUME Asked(q) => Asked(q)', shown'[q] = shown[q], page'[q] = page[q],
             UNCHANGED <<parameters, delayed_broadcast, thread, clients, crossed>>
      PROVE  Told(q)'
  BY <1>0, <1>1 DEF Told, Behind, Sends
<1>2. ASSUME page'[q] # "open" PROVE Told(q)'
  BY <1>2 DEF Told, Behind
<1>3. ASSUME NEW p \in Pages, Ask(p) PROVE Told(q)'
  <2>1. PICK m \in Messages : Send(p, m)
    BY <1>3, MessagesLemma DEF Ask
  <2>2. inbox[p] \in Seq(Messages) /\ inbox' = [inbox EXCEPT ![p] = Append(inbox[p], m)]
    BY <1>0, <2>1 DEF Send, Listing
  <2>3. Asked(q) => Asked(q)'
    <3>1. CASE p = q
      <4>1. /\ inbox'[q] = Append(inbox[q], m) /\ Len(inbox'[q]) = Len(inbox[q]) + 1
            /\ \A i \in 1..Len(inbox[q]) : inbox'[q][i] = inbox[q][i]
            /\ Len(inbox[q]) \in Nat
        BY <1>0, <2>2, <3>1 DEF Listing
      <4> QED BY <4>1 DEF Asked
    <3>2. CASE p # q
      BY <1>0, <2>2, <3>2 DEF Listing, Asked
    <3> QED BY <3>1, <3>2
  <2> QED BY <1>1, <2>1, <2>3 DEF Send
<1>4. ASSUME NEW p \in Pages, Leave(p) PROVE Told(q)'
  <2>1. CASE p = q
    BY <1>0, <1>2, <1>4, <2>1 DEF Leave, Listing
  <2>2. CASE p # q
    BY <1>0, <1>1, <1>4, <2>2 DEF Leave, Listing, Asked
  <2> QED BY <2>1, <2>2
<1>5. ASSUME NEW p \in Pages, Connected(p) PROVE Told(q)'
  <2>1. CASE p = q
    <3>1. inbox'[q] = <<Get>> /\ Len(<<Get>>) = 1 /\ <<Get>>[1] = Get
      BY <1>0, <1>5, <2>1 DEF Connected, Listing
    <3> QED BY <3>1 DEF Told, Asked
  <2>2. CASE p # q
    <3>1. \A i \in 1..Len(clients) : i \in 1..Len(clients') /\ clients'[i] = clients[i]
      BY <1>0, <1>5, AppendLemma DEF Connected, Listing
    <3>2. inbox'[q] = inbox[q] /\ page'[q] = page[q]
      BY <1>0, <1>5, <2>2 DEF Connected, Listing
    <3> QED BY <1>0, <1>5, <3>1, <3>2 DEF Connected, Told, Behind, Asked, Sends
  <2> QED BY <2>1, <2>2
<1>6. ASSUME NEW p \in Pages, Closed(p) PROVE Told(q)'
  <2>1. CASE p = q
    BY <1>0, <1>2, <1>6, <2>1 DEF Closed, ClosedLeaving, Listing
  <2>2. CASE p # q
    <3> DEFINE k == Place(clients, p)
    <3>1. /\ k \in 1..Len(clients) /\ clients[k] = p
          /\ \A i \in 1..Len(clients) : i < k => i \in 1..Len(clients') /\ clients'[i] = clients[i]
          /\ \A i \in 1..Len(clients) :
               i > k => i - 1 \in 1..Len(clients') /\ clients'[i - 1] = clients[i]
      <4>1. Once(clients) /\ Lists(clients, p) /\ clients \in Seq(Pages)
        BY <1>0, <1>6 DEF Closed, ClosedLeaving, Listing
      <4>2. clients' = Without(clients, p)
        BY <1>6 DEF Closed, ClosedLeaving
      <4> QED BY <4>1, <4>2, WithoutLemma
    <3>2. /\ inbox'[q] = inbox[q] /\ page'[q] = page[q] /\ shown'[q] = shown[q]
          /\ At("ws", "idle") /\ UNCHANGED <<parameters, delayed_broadcast, thread>>
          /\ ~crossed' => ~crossed /\ ~(At("timer", "send") /\ k < thread["timer"].at)
      BY <1>0, <1>6, <2>2 DEF Closed, ClosedLeaving, Listing
    <3> HIDE DEF k
    <3>3. ASSUME ~crossed', Sends("timer", q) PROVE Sends("timer", q)'
      <4>1. CASE At("timer", "dump")
        BY <3>2, <4>1 DEF Sends
      <4>2. CASE At("timer", "send")
        <5>1. PICK i \in 1..Len(clients) : clients[i] = q /\ i >= thread["timer"].at
          BY <3>3, <4>2 DEF Sends
        <5>2. k >= thread["timer"].at /\ i # k /\ thread["timer"].at \in Nat /\ Len(clients) \in Nat
          BY <1>0, <2>2, <3>1, <3>2, <3>3, <4>2, <5>1 DEF Threads, Listing
        <5>3. CASE i < k
          BY <3>1, <3>2, <3>3, <4>2, <5>1, <5>3 DEF Sends
        <5>4. CASE i > k
          <6>1. i - 1 >= thread["timer"].at /\ i - 1 \in 1..Len(clients') /\ clients'[i - 1] = q
            BY <3>1, <5>1, <5>2, <5>4
          <6> QED BY <3>2, <3>3, <4>2, <6>1 DEF Sends
        <5> QED BY <3>1, <5>1, <5>2, <5>3, <5>4
      <4> QED BY <3>3, <4>1, <4>2 DEF Sends
    <3> QED BY <1>0, <3>2, <3>3 DEF Told, Behind, Asked, Sends
  <2> QED BY <2>1, <2>2
<1>7. ASSUME NEW p \in Pages, GetConfiguration(p) PROVE Told(q)'
  <2>1. thread'["ws"].pc = "dump"
    BY <1>0, <1>7, GotoLemma DEF GetConfiguration, GetConfigurationThen, Places
  <2> QED BY <2>1 DEF Told, Sends
<1>8. ASSUME NEW p \in Pages, SaveCurrentConfiguration(p) PROVE Told(q)'
  <2>1. /\ thread["ws"].pc = "idle" /\ thread'["ws"].pc = "open"
        /\ thread'["timer"] = thread["timer"]
    BY <1>0, <1>8, GotoLemma DEF SaveCurrentConfiguration, Received, Places
  <2>2. Asked(q) => Asked(q)'
    <3>1. CASE p = q
      <4>1. /\ inbox[q] \in Seq(Messages) /\ inbox[q] # <<>> /\ Head(inbox[q]).command = "save"
            /\ inbox'[q] = Tail(inbox[q])
        BY <1>0, <1>8, <3>1 DEF SaveCurrentConfiguration, Received, Listing
      <4>2. inbox[q][1] # Get
        BY <4>1 DEF Get
      <4>3. /\ Len(inbox'[q]) = Len(inbox[q]) - 1 /\ Len(inbox[q]) \in Nat
            /\ \A i \in 1..(Len(inbox[q]) - 1) : inbox'[q][i] = inbox[q][i + 1]
        BY <4>1
      <4>4. ASSUME NEW i \in 1..Len(inbox[q]), inbox[q][i] = Get PROVE Asked(q)'
        <5>1. i # 1 /\ i - 1 \in 1..(Len(inbox[q]) - 1) /\ (i - 1) + 1 = i
          BY <4>2, <4>3, <4>4
        <5>2. inbox'[q][i - 1] = Get' /\ i - 1 \in 1..Len(inbox'[q])
          BY <4>3, <4>4, <5>1 DEF Get
        <5> QED BY <5>2 DEF Asked
      <4> QED BY <4>4 DEF Asked
    <3>2. CASE p # q
      BY <1>0, <1>8, <3>2 DEF SaveCurrentConfiguration, Received, Listing, Asked
    <3> QED BY <3>1, <3>2
  <2> QED BY <1>0, <1>8, <2>1, <2>2 DEF SaveCurrentConfiguration, Received, Told, Behind, Sends
<1>9. ASSUME NEW p \in Pages, SetParam(p) PROVE Told(q)'
  <2>1. thread'["ws"].pc = "test" /\ thread'["timer"] = thread["timer"]
    BY <1>0, <1>9, GotoLemma DEF SetParam, Places
  <2>2. ~crossed' => thread["timer"].pc \in {"idle", "dump"}
    BY <1>0, <1>9 DEF SetParam, Rest, TimerIsSet
  <2> QED BY <1>0, <1>9, <2>1, <2>2 DEF SetParam, Received, Told, Sends, Rest, TimerIsSet
<1>10. CASE DelayBroadcast
  <2> DEFINE ws == [thread["ws"] EXCEPT !.pc = "idle"]
             timer == [thread["timer"] EXCEPT !.pc = IF delayed_broadcast THEN @ ELSE "dump"]
  <2>1. /\ ws \in Threads /\ ws.pc = "idle"
        /\ timer \in Threads
        /\ delayed_broadcast => timer = thread["timer"]
        /\ ~delayed_broadcast => timer.pc = "dump"
    BY <1>0 DEF Threads, Places
  <2>2. thread' = [[thread EXCEPT !["ws"] = ws] EXCEPT !["timer"] = timer]
    BY <1>10 DEF DelayBroadcast
  <2> HIDE DEF ws, timer
  <2>3. thread'["ws"] = ws /\ thread'["timer"] = timer
    BY <1>0, <2>1, <2>2
  <2>4. CASE delayed_broadcast
    BY <1>0, <1>10, <2>1, <2>3, <2>4 DEF DelayBroadcast, Told, Behind, Asked, Sends
  <2>5. CASE ~delayed_broadcast
    BY <2>1, <2>3, <2>5 DEF Told, Sends
  <2> QED BY <2>4, <2>5
<1>11. CASE OpenFile
  <2>1. thread'["timer"] = thread["timer"]
    BY <1>0, <1>11, GotoLemma DEF OpenFile, Places
  <2> QED BY <1>0, <1>11, <2>1 DEF OpenFile, Told, Behind, Asked, Sends
<1>12. CASE WriteFile
  <2>1. thread'["timer"] = thread["timer"]
    BY <1>0, <1>12, GotoLemma DEF WriteFile, Places
  <2> QED BY <1>0, <1>12, <2>1 DEF WriteFile, Told, Behind, Asked, Sends
<1>13. ASSUME NEW t \in {"ws", "timer"}, Dump(t) PROVE Told(q)'
  <2>1. /\ thread'[t].pc = "send" /\ thread'[t].at = 1 /\ thread'[t].value = parameters
        /\ UNCHANGED <<parameters, clients, page>>
    BY <1>0, <1>13 DEF Dump
  <2>2. page[q] = "open" => \E i \in 1..Len(clients) : clients[i] = q /\ i >= 1
    BY <1>0 DEF Listing, Lists
  <2>3. page[q] = "open" => Sends(t, q)'
    BY <2>1, <2>2 DEF Sends
  <2> QED BY <2>1, <2>3 DEF Told, Behind
<1>14. ASSUME NEW t \in {"ws", "timer"}, NEW p \in Pages, SendTo(t, p) PROVE Told(q)'
  <2> DEFINE r == [thread[t] EXCEPT !.at = @ + 1]
  <2>0. thread[t] \in Threads /\ thread[t].at + 1 \in Nat \ {0}
    BY <1>0 DEF Threads
  <2>1. r.pc = thread[t].pc /\ r.value = thread[t].value /\ r.at = thread[t].at + 1
    BY <2>0 DEF Threads
  <2>2. thread' = [thread EXCEPT ![t] = r]
    BY <1>14 DEF SendTo
  <2> HIDE DEF r
  <2>3. /\ thread'[t] = r /\ \A u \in {"ws", "timer"} \ {t} : thread'[u] = thread[u]
        /\ thread[t].pc = "send" /\ clients[thread[t].at] = p
        /\ UNCHANGED <<parameters, delayed_broadcast, clients, page, inbox, crossed>>
    BY <1>0, <1>14, <2>2 DEF SendTo
  <2>4. CASE p = q
    <3>1. page[q] = "open" => shown'[q] = thread[t].value
      BY <1>0, <1>14, <2>4 DEF SendTo, Listing
    <3>2. ~crossed => thread[t].value = parameters
      BY <1>0, <2>3 DEF Rest, SentIsFresh
    <3> QED BY <2>3, <3>1, <3>2 DEF Told, Behind
  <2>5. CASE p # q
    <3>1. shown'[q] = shown[q]
      BY <1>0, <1>14, <2>5 DEF SendTo, Listing
    <3>2. Sends(t, q) => Sends(t, q)'
      <4>1. \A i \in 1..Len(clients) : clients[i] = q /\ i >= thread[t].at => i >= thread[t].at + 1
        BY <2>0, <2>3, <2>5 DEF Threads
      <4> QED BY <2>1, <2>3, <4>1 DEF Sends
    <3>3. ASSUME NEW u \in {"ws", "timer"} \ {t} PROVE Sends(u, q) => Sends(u, q)'
      BY <2>3, <3>3 DEF Sends
    <3>4. thread'["ws"].pc = thread["ws"].pc
      BY <2>1, <2>3
    <3> QED BY <1>0, <2>3, <3>1, <3>2, <3>3, <3>4 DEF Told, Behind, Asked
  <2> QED BY <2>4, <2>5
<1>15. ASSUME NEW t \in {"ws", "timer"}, AllSent(t) PROVE Told(q)'
  <2>1. /\ \A u \in {"ws", "timer"} \ {t} : thread'[u] = thread[u]
        /\ thread[t].pc = "send" /\ thread[t].at > Len(clients)
        /\ UNCHANGED <<parameters, delayed_broadcast, clients, page, inbox, shown, crossed>>
    BY <1>0, <1>15 DEF AllSent
  <2>2. ~Sends(t, q)
    <3>1. thread[t].at \in Nat /\ Len(clients) \in Nat
      BY <1>0 DEF Threads, Listing
    <3> QED BY <2>1, <3>1 DEF Sends
  <2>3. CASE t = "timer"
    <3>1. thread'["ws"] = thread["ws"]
      BY <2>1, <2>3
    <3> QED BY <1>0, <2>1, <2>2, <2>3, <3>1 DEF Told, Behind, Asked, Sends
  <2>4. CASE t = "ws"
    <3>1. thread'["timer"] = thread["timer"]
      BY <2>1, <2>4
    <3> QED BY <1>0, <2>1, <2>2, <2>4, <3>1 DEF Told, Behind, Asked, Sends
  <2> QED BY <2>3, <2>4
<1>16. CASE Reset
  <2>1. thread'["ws"] = thread["ws"] /\ thread["timer"].pc = "reset"
    BY <1>0, <1>16, GotoLemma DEF Reset, ResetTo, Places
  <2> QED BY <1>0, <1>16, <2>1 DEF Reset, ResetTo, Told, Behind, Asked, Sends
<1>17. CASE Crash
  BY <1>2, <1>17 DEF Crash
<1>18. CASE LoadConfiguration
  BY <1>0, <1>2, <1>18 DEF LoadConfiguration, Loads, Rest, Quiet
<1>19. CASE UNCHANGED vars
  BY <1>1, <1>19 DEF vars, Asked
<1> QED BY <1>3, <1>4, <1>5, <1>6, <1>7, <1>8, <1>9, <1>10, <1>11, <1>12, <1>13, <1>14, <1>15,
           <1>16, <1>17, <1>18, <1>19
    DEF Next, Serve, Timer

-----------------------------------------------------------------------------
\* IInv is an inductive invariant of the server, its pages and its file.
THEOREM Invariance == Spec => []IInv
<1>1. Init => IInv
  <2> SUFFICES ASSUME Init PROVE IInv
    OBVIOUS
  <2>1. <<>> \in Seq(Pages) /\ <<>> \in Seq(Messages) /\ Len(<<>>) = 0
    OBVIOUS
  <2>2. Idle \in Threads /\ Idle.pc = "idle"
    BY DEF Idle, Threads, Places
  <2>3. Listing
    BY <2>1 DEF Init, Listing, Lists, Once
  <2>4. delayed_broadcast \in BOOLEAN /\ crossed \in BOOLEAN
    BY Zenon DEF Init
  <2>5. Holdings
    BY <2>2, <2>4 DEF Init, Holdings
  <2>6. TimerIsSet /\ SentIsFresh /\ FileIsSaved /\ Quiet
    BY <2>2 DEF Init, TimerIsSet, SentIsFresh, FileIsSaved, Quiet, At
  <2>7. BehindIsTold
    BY DEF Init, BehindIsTold, Behind
  <2> QED BY <2>3, <2>5, <2>6, <2>7, TypeIsParts DEF IInv
<1>2. IInv /\ [Next]_vars => IInv'
  <2> SUFFICES ASSUME IInv, [Next]_vars PROVE IInv'
    OBVIOUS
  <2>1. Listing /\ Rest
    BY TypeIsParts DEF IInv, Rest
  <2>2. Listing' /\ Rest'
    BY <2>1, ListingStep, RestStep DEF Rest
  <2>3. BehindIsTold'
    BY ToldStep DEF Told, BehindIsTold
  <2> QED BY <2>2, <2>3, TypeIsPartsNext DEF IInv, Rest
<1> QED BY <1>1, <1>2, PTL DEF Spec

\* Every variable keeps its type, and the list of clients is that of the connected
\* pages, for any pages and settings.
THEOREM TypeCorrect == Spec => []TypeOK
BY Invariance, PTL DEF IInv

\* No page is forgotten, for any pages, settings and messages that are under way.
THEOREM NoPageIsForgotten == Spec => []BehindIsTold
BY Invariance, PTL DEF IInv

\* A server that comes up has what was saved last, whatever a crash fell into.
THEOREM TheSavedComesBack == Spec => SavedComesBack
<1>1. IInv /\ [Next]_vars => [server = "down" /\ server' = "up" => parameters' = saved]_vars
  <2> SUFFICES ASSUME IInv, Next, server = "down", server' = "up"
               PROVE  parameters' = saved
    BY DEF vars
  <2>1. LoadConfiguration
    BY DEF Next, Ask, Send, Leave, Connected, Serve, Closed, ClosedLeaving, GetConfiguration,
           GetConfigurationThen, SaveCurrentConfiguration, SetParam, Received, DelayBroadcast,
           OpenFile, WriteFile, Dump, SendTo, AllSent, Timer, Reset, ResetTo, Crash, disk
  <2> QED BY <2>1 DEF LoadConfiguration, Loads, IInv, FileIsSaved
<1> QED BY <1>1, Invariance, PTL DEF Spec, SavedComesBack

=============================================================================
