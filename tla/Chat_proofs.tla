----------------------------- MODULE Chat_proofs -----------------------------
(***************************************************************************)
(* Chat is well typed, the online list is honest, rooms are restored and   *)
(* the tabs agree with the table, for any number of tabs, groups,          *)
(* colleagues, messages and overlapping requests.                          *)
(*                                                                         *)
(* The last section is about Desk, the staff's sign-in sessions and the    *)
(* list of who is present.                                                 *)
(***************************************************************************)
EXTENDS Chat, Desk, SequenceTheorems, TLAPS

\* The request has not written yet a message that nobody else knows of.
Unsent(j) == job[j].op = "send" /\ job[j].pc = "write"

\* A request is about a message there is, in the room it names, or sends one.
JobSound(j) ==
    LET d == job[j]
    IN  /\ d.pc = "idle" => d = Idle
        /\ d.pc # "idle" => d.op # "none" /\ d.id \in Messages /\ d.room \in Rooms
        /\ d.pc = "look" => d.op = "react"
        /\ d.op \in {"send", "edit"} => d.text \in Texts
        /\ Unsent(j) => message[d.id] = NoMessage /\ \A i \in Jobs \ {j} : job[i].id # d.id
        /\ d.pc # "idle" /\ ~ Unsent(j) => /\ message[d.id].room = d.room
                                           /\ message[d.id].text # None

\* Unless something else happened to the message, what a request tells of is what it has stored,
\* and only a message that is not deleted is edited.
TellsTrue(j) ==
    LET d == job[j]
    IN  d.pc # "idle" /\ d.id \notin crossed =>
          /\ \A i \in Jobs \ {j} : job[i].id # d.id
          /\ d.op = "edit" => ~ message[d.id].deleted
          /\ d.pc = "emit" =>
               /\ d.op \in {"send", "edit"} => message[d.id].text = d.text
               /\ d.op = "send" => ~ message[d.id].deleted /\ message[d.id].liked = FALSE
               /\ d.op = "delete" => message[d.id].deleted
               /\ d.op = "react" => message[d.id].liked = d.liked

\* A tab shows only messages that are stored, of rooms it hears.
ShownInv ==
    \A s \in Sockets, m \in Messages : socket[s].shows[m].text # None =>
        /\ message[m].text # None /\ message[m].room \in Rooms
        /\ Hears(s, message[m].room)

\* What a tab shows is stored, or will be what is stored once the request about the message has
\* told of it.
InStep(s, m) ==
    LET shown == socket[s].shows[m]
    IN  /\ (\A j \in Jobs : job[j].id # m) => shown = Stored(m)
        /\ \A j \in Jobs : job[j].id = m =>
             /\ job[j].pc = "write" => shown = Stored(m)
             /\ job[j].pc = "look" => shown.text = Stored(m).text
             /\ job[j].pc = "emit" => Heard(j, shown) = Stored(m)

AgreeInv ==
    \A s \in Sockets, m \in Messages :
        socket[s].shows[m].text = None \/ m \in crossed \/ InStep(s, m)

\* The author of a group stays its member, and what was open has not vanished.
GroupsInv ==
    \A g \in Groups : /\ group[g].state # "absent" => group[g].owner
                      /\ \A s \in Sockets : g \in due[s] => group[g].state # "absent"

IInv ==
    /\ TypeOK
    /\ \A j \in Jobs : JobSound(j)
    /\ \A j \in Jobs : TellsTrue(j)
    /\ ShownInv
    /\ AgreeInv
    /\ GroupsInv
    /\ OnlineHonest
    /\ RoomsRestored

-----------------------------------------------------------------------------
(* Facts about single records.                                              *)

\* The empty records.
LEMMA FirstRecords ==
  /\ Idle \in Job /\ Idle.pc = "idle" /\ Idle.op = "none" /\ Idle.id = None
  /\ NoMessage \in Message /\ NoMessage.room = None /\ NoMessage.text = None
  /\ NoMessage.deleted = FALSE /\ NoMessage.liked = FALSE
  /\ Nothing \in View /\ Nothing.text = None
  /\ Blank \in [Messages -> View] /\ \A m \in Messages : Blank[m] = Nothing
  /\ Closed \in Socket /\ Closed.pc = "closed" /\ Closed.rooms = {} /\ Closed.shows = Blank
<1>1. Idle \in Job /\ Idle.pc = "idle" /\ Idle.op = "none" /\ Idle.id = None
  BY DEF Idle, Job
<1>2. /\ NoMessage \in Message /\ NoMessage.room = None /\ NoMessage.text = None
      /\ NoMessage.deleted = FALSE /\ NoMessage.liked = FALSE
  BY DEF NoMessage, Message
<1>3. Nothing \in View /\ Nothing.text = None
  BY DEF Nothing, View
<1>4. Blank \in [Messages -> View] /\ \A m \in Messages : Blank[m] = Nothing
  BY <1>3 DEF Blank
<1>5. Closed \in Socket /\ Closed.pc = "closed" /\ Closed.rooms = {} /\ Closed.shows = Blank
  BY <1>4 DEF Closed, Socket
<1> QED
  BY <1>1, <1>2, <1>3, <1>4, <1>5

\* What is stored of a message.
LEMMA StoredView ==
  ASSUME TypeOK, NEW m \in Messages
  PROVE  /\ Stored(m) \in View
         /\ Stored(m).text = IF message[m].deleted THEN Deleted ELSE message[m].text
         /\ Stored(m).liked = message[m].liked
<1>1. message[m] \in Message
  BY DEF TypeOK
<1> QED
  BY <1>1 DEF Message, Stored, View

\* Two views are the same when they agree on the text and the reaction.
LEMMA SameView ==
  ASSUME NEW v \in View, NEW w \in View, v.text = w.text, v.liked = w.liked
  PROVE  v = w
BY DEF View

\* What a tab that hears of a write shows then.
LEMMA HeardView ==
  ASSUME TypeOK, NEW j \in Jobs, NEW v \in View,
         job[j].op \in {"send", "edit", "delete", "react"}
  PROVE  /\ Heard(j, v) \in View
         /\ job[j].op = "send" => Heard(j, v).text = job[j].text /\ Heard(j, v).liked = FALSE
         /\ job[j].op # "send" /\ v.text = None => Heard(j, v) = v
         /\ v.text # None =>
              /\ job[j].op = "edit" => Heard(j, v).text = job[j].text /\ Heard(j, v).liked = v.liked
              /\ job[j].op = "delete" => Heard(j, v).text = Deleted /\ Heard(j, v).liked = v.liked
              /\ job[j].op = "react" => Heard(j, v).text = v.text /\ Heard(j, v).liked = job[j].liked
<1>1. job[j] \in Job /\ job[j].text \in Texts \cup {None} /\ job[j].liked \in BOOLEAN
  BY DEF TypeOK, Job
<1>2. CASE job[j].op = "send"
  <2>1. Heard(j, v) = [text |-> job[j].text, liked |-> FALSE]
    BY <1>2 DEF Heard
  <2> QED
    BY <1>1, <1>2, <2>1 DEF View
<1>3. CASE job[j].op = "edit"
  <2>1. Heard(j, v) = IF v.text = None THEN v ELSE [v EXCEPT !.text = job[j].text]
    BY <1>3 DEF Heard
  <2> QED
    BY <1>1, <1>3, <2>1 DEF View
<1>4. CASE job[j].op = "delete"
  <2>1. Heard(j, v) = IF v.text = None THEN v ELSE [v EXCEPT !.text = Deleted]
    BY <1>4 DEF Heard
  <2> QED
    BY <1>1, <1>4, <2>1 DEF View
<1>5. CASE job[j].op = "react"
  <2>1. Heard(j, v) = IF v.text = None THEN v ELSE [v EXCEPT !.liked = job[j].liked]
    BY <1>5 DEF Heard
  <2> QED
    BY <1>1, <1>5, <2>1 DEF View
<1> QED
  BY <1>2, <1>3, <1>4, <1>5

\* The kinds of a request under way.
LEMMA Kinds ==
  ASSUME IInv, NEW j \in Jobs, job[j].pc # "idle"
  PROVE  /\ job[j] \in Job /\ job[j].op \in {"send", "edit", "delete", "react"}
         /\ job[j].id \in Messages /\ job[j].room \in Rooms
BY DEF IInv, TypeOK, Job, JobSound

\* A request about a message is under way, since an idle one is about nothing.
LEMMA AboutSomething ==
  ASSUME IInv, NEW j \in Jobs, job[j].id \in Messages
  PROVE  job[j].pc # "idle"
BY FirstRecords, Parameters DEF IInv, JobSound

\* A tab that has loaded what is stored learns nothing from a request that tells of it.
LEMMA HeardStored ==
  ASSUME IInv, NEW j \in Jobs, job[j].pc = "emit", job[j].id \notin crossed,
         ~ message[job[j].id].deleted
  PROVE  Heard(j, Stored(job[j].id)) = Stored(job[j].id)
<1> DEFINE m == job[j].id
<1>1. m \in Messages /\ job[j].op \in {"send", "edit", "delete", "react"} /\ TypeOK
  BY Kinds DEF IInv
<1>2. Stored(m) \in View /\ Stored(m).text = message[m].text /\ Stored(m).liked = message[m].liked
  BY <1>1, StoredView
<1>3. message[m].text # None /\ TellsTrue(j)
  BY <1>1 DEF IInv, JobSound, Unsent
<1>4. /\ Heard(j, Stored(m)) \in View
      /\ Heard(j, Stored(m)).text = Stored(m).text /\ Heard(j, Stored(m)).liked = Stored(m).liked
  <2>1. /\ Heard(j, Stored(m)) \in View
        /\ job[j].op = "send" =>
             Heard(j, Stored(m)).text = job[j].text /\ Heard(j, Stored(m)).liked = FALSE
        /\ job[j].op = "edit" => /\ Heard(j, Stored(m)).text = job[j].text
                                 /\ Heard(j, Stored(m)).liked = Stored(m).liked
        /\ job[j].op = "react" => /\ Heard(j, Stored(m)).text = Stored(m).text
                                  /\ Heard(j, Stored(m)).liked = job[j].liked
    BY <1>1, <1>2, <1>3, HeardView
  <2>2. /\ job[j].op \in {"send", "edit"} => message[m].text = job[j].text
        /\ job[j].op = "send" => message[m].liked = FALSE
        /\ job[j].op # "delete"
        /\ job[j].op = "react" => message[m].liked = job[j].liked
    BY <1>3 DEF TellsTrue
  <2> QED
    BY <1>1, <1>2, <2>1, <2>2
<1> QED
  BY <1>2, <1>4, SameView

-----------------------------------------------------------------------------
(* Steps that leave the messages and the requests alone.                    *)

\* The same requests know the same things.
LEMMA JobsSame ==
  ASSUME IInv, UNCHANGED <<message, job, crossed>>
  PROVE  \A j \in Jobs : JobSound(j)' /\ TellsTrue(j)'
BY DEF IInv, JobSound, TellsTrue, Unsent

\* What a tab shows stays, goes, or is loaded.
LEMMA SocketStep ==
  ASSUME IInv, UNCHANGED <<group, message, job, requests, crossed>>,
         socket' \in [Sockets -> Socket], online' \in SUBSET Sockets, told' \in BOOLEAN,
         due' \in [Sockets -> SUBSET Groups],
         \A s \in Sockets : due'[s] \subseteq {g \in Groups : group[g].state # "absent"},
         \A s \in Sockets, m \in Messages :
           \/ /\ socket'[s].shows[m] = socket[s].shows[m]
              /\ \A r \in Rooms : Hears(s, r) /\ message[m].room = r => Hears(s, r)'
           \/ socket'[s].shows[m] = Nothing
           \/ /\ socket'[s].shows[m] = Stored(m) /\ ~ message[m].deleted
              /\ message[m].room \in Rooms /\ Hears(s, message[m].room)',
         OnlineHonest', RoomsRestored'
  PROVE  IInv'
<1>1. TypeOK /\ ShownInv /\ AgreeInv /\ GroupsInv
  BY DEF IInv
<1>2. TypeOK'
  BY <1>1 DEF TypeOK
<1>3. \A j \in Jobs : JobSound(j)' /\ TellsTrue(j)'
  BY JobsSame
<1>4. ShownInv'
  <2> SUFFICES ASSUME NEW s \in Sockets, NEW m \in Messages, socket'[s].shows[m].text # None
               PROVE  /\ message[m].text # None /\ message[m].room \in Rooms
                      /\ Hears(s, message[m].room)'
    BY DEF ShownInv
  <2>1. CASE socket'[s].shows[m] = Nothing
    BY <2>1, FirstRecords
  <2>2. CASE /\ socket'[s].shows[m] = socket[s].shows[m]
             /\ \A r \in Rooms : Hears(s, r) /\ message[m].room = r => Hears(s, r)'
    BY <1>1, <2>2 DEF ShownInv
  <2>3. CASE /\ socket'[s].shows[m] = Stored(m) /\ ~ message[m].deleted
             /\ message[m].room \in Rooms /\ Hears(s, message[m].room)'
    BY <1>1, <2>3, StoredView
  <2> QED
    BY <2>1, <2>2, <2>3
<1>5. AgreeInv'
  <2> SUFFICES ASSUME NEW s \in Sockets, NEW m \in Messages, m \notin crossed,
                      socket'[s].shows[m].text # None
               PROVE  InStep(s, m)'
    BY DEF AgreeInv
  <2>1. \A j \in Jobs : \A v : Heard(j, v)' = Heard(j, v)
    BY DEF Heard
  <2>2. Stored(m)' = Stored(m)
    BY DEF Stored
  <2>3. CASE socket'[s].shows[m] = socket[s].shows[m]
    <3>1. InStep(s, m)
      BY <1>1, <2>3 DEF AgreeInv
    <3> QED
      BY <2>1, <2>2, <2>3, <3>1 DEF InStep
  <2>4. CASE socket'[s].shows[m] = Stored(m) /\ ~ message[m].deleted
    <3>1. \A j \in Jobs : job[j].id = m /\ job[j].pc = "emit" => Heard(j, Stored(m)) = Stored(m)
      BY <2>4, HeardStored
    <3> QED
      BY <2>1, <2>2, <2>4, <3>1 DEF InStep
  <2> QED
    BY <2>3, <2>4, FirstRecords
<1>6. GroupsInv'
  BY <1>1 DEF GroupsInv
<1> QED
  BY <1>2, <1>3, <1>4, <1>5, <1>6 DEF IInv

\* A tab connects.
LEMMA ConnectInv ==
  ASSUME IInv, NEW s \in Sockets, Connect(s)
  PROVE  IInv'
<1>1. /\ TypeOK /\ OnlineHonest /\ RoomsRestored /\ GroupsInv
      /\ UNCHANGED <<group, message, told, job, requests, crossed>>
  BY DEF IInv, Connect
<1>2. PICK p \in {"joining"} : socket' = [socket EXCEPT ![s].pc = p]
  BY DEF Connect
<1>3. socket[s] \in Socket /\ socket[s].pc = "closed"
  BY <1>1 DEF TypeOK, Connect
<1> DEFINE c == [socket[s] EXCEPT !.pc = p]
<1>4. c \in Socket /\ c.pc = "joining" /\ c.shows = socket[s].shows /\ c.rooms = socket[s].rooms
  BY <1>3 DEF Socket
<1>5. socket' = [socket EXCEPT ![s] = c]
  BY <1>2
<1> HIDE DEF c
<1>6. /\ socket' \in [Sockets -> Socket]
      /\ \A t \in Sockets : socket'[t] = IF t = s THEN c ELSE socket[t]
  BY <1>1, <1>4, <1>5 DEF TypeOK
<1>7. /\ online' = online \cup {s} /\ online' \in SUBSET Sockets /\ told' \in BOOLEAN
      /\ due' = [due EXCEPT ![s] = {g \in Groups : Open(g)}]
      /\ due' \in [Sockets -> SUBSET Groups]
  BY <1>1 DEF Connect, TypeOK
<1>8. \A t \in Sockets : due'[t] \subseteq {g \in Groups : group[g].state # "absent"}
  BY <1>1, <1>7 DEF GroupsInv, Open, TypeOK
<1>9. \A t \in Sockets, m \in Messages :
        /\ socket'[t].shows[m] = socket[t].shows[m]
        /\ \A r \in Rooms : Hears(t, r) => Hears(t, r)'
  BY <1>3, <1>4, <1>6 DEF Hears
<1>10. OnlineHonest'
  BY <1>1, <1>3, <1>4, <1>6, <1>7 DEF OnlineHonest
<1>11. RoomsRestored'
  BY <1>1, <1>4, <1>6, <1>7 DEF RoomsRestored, Open, TypeOK
<1> QED
  BY <1>1, <1>6, <1>7, <1>8, <1>9, <1>10, <1>11, SocketStep

\* The groups of a tab come back, or fail to, or the tab has gone.
LEMMA FinishConnectInv ==
  ASSUME IInv, NEW s \in Sockets, FinishConnect(s)
  PROVE  IInv'
<1>1. /\ TypeOK /\ OnlineHonest /\ RoomsRestored /\ GroupsInv
      /\ UNCHANGED <<group, message, online, job, requests, crossed>>
      /\ told' = (online # {})
  BY DEF IInv, FinishConnect
<1>2. socket[s] \in Socket
  BY <1>1 DEF TypeOK
<1>3. PICK c \in Socket :
        /\ socket' = [socket EXCEPT ![s] = c]
        /\ \/ /\ socket[s].pc = "joining" /\ c.pc = "open" /\ c.shows = socket[s].shows
              /\ socket[s].rooms \subseteq c.rooms
              /\ \/ MyGroups \subseteq c.rooms /\ due' = due
                 \/ due' = [due EXCEPT ![s] = {}]
           \/ /\ socket[s].pc = "stale" /\ c = Closed
              /\ due' = [due EXCEPT ![s] = {}]
  <2>1. PICK p \in {"open"} :
          \/ /\ socket[s].pc = "joining"
             /\ \/ socket' = [socket EXCEPT ![s].pc = p, ![s].rooms = @ \cup MyGroups]
                   /\ UNCHANGED due
                \/ socket' = [socket EXCEPT ![s].pc = p]
                   /\ due' = [due EXCEPT ![s] = {}]
          \/ /\ socket[s].pc = "stale"
             /\ socket' = [socket EXCEPT ![s] = Closed]
             /\ due' = [due EXCEPT ![s] = {}]
    BY DEF FinishConnect
  <2> DEFINE a == [socket[s] EXCEPT !.pc = p, !.rooms = @ \cup MyGroups]
             b == [socket[s] EXCEPT !.pc = p]
  <2>2. MyGroups \subseteq Groups
    BY DEF MyGroups
  <2>3. /\ a \in Socket /\ a.pc = "open" /\ a.shows = socket[s].shows
        /\ a.rooms = socket[s].rooms \cup MyGroups
        /\ b \in Socket /\ b.pc = "open" /\ b.shows = socket[s].shows /\ b.rooms = socket[s].rooms
    BY <1>2, <2>2 DEF Socket
  <2>4. CASE socket[s].pc = "joining" /\ UNCHANGED due
             /\ socket' = [socket EXCEPT ![s].pc = p, ![s].rooms = @ \cup MyGroups]
    <3>1. socket' = [socket EXCEPT ![s] = a]
      BY <2>4
    <3> QED
      BY <2>3, <2>4, <3>1
  <2>5. CASE socket[s].pc = "joining" /\ due' = [due EXCEPT ![s] = {}]
             /\ socket' = [socket EXCEPT ![s].pc = p]
    <3>1. socket' = [socket EXCEPT ![s] = b]
      BY <2>5
    <3> QED
      BY <2>3, <2>5, <3>1
  <2> QED
    BY <2>1, <2>4, <2>5, FirstRecords
<1>4. /\ socket' \in [Sockets -> Socket]
      /\ \A t \in Sockets : socket'[t] = IF t = s THEN c ELSE socket[t]
  BY <1>1, <1>3 DEF TypeOK
<1>5. /\ due' \in [Sockets -> SUBSET Groups]
      /\ \A t \in Sockets : due'[t] \subseteq due[t] /\ (t # s => due'[t] = due[t])
      /\ socket[s].pc = "joining" /\ ~ (MyGroups \subseteq c.rooms) => due'[s] = {}
  BY <1>1, <1>3 DEF TypeOK
<1>6. \A t \in Sockets : due'[t] \subseteq {g \in Groups : group[g].state # "absent"}
  BY <1>1, <1>5 DEF GroupsInv, TypeOK
<1>7. \A t \in Sockets, m \in Messages :
        \/ /\ socket'[t].shows[m] = socket[t].shows[m]
           /\ \A r \in Rooms : Hears(t, r) => Hears(t, r)'
        \/ socket'[t].shows[m] = Nothing
  BY <1>3, <1>4, FirstRecords DEF Hears
<1>8. OnlineHonest'
  BY <1>1, <1>3, <1>4, FirstRecords DEF OnlineHonest
<1>9. RoomsRestored'
  <2> SUFFICES ASSUME NEW t \in Sockets, socket'[t].pc = "open", NEW g \in due'[t], Open(g)
               PROVE  g \in socket'[t].rooms
    BY <1>1 DEF RoomsRestored, Open
  <2>1. CASE t # s
    BY <1>1, <1>4, <1>5, <2>1 DEF RoomsRestored
  <2>2. CASE t = s
    <3>1. socket[s].pc = "joining" /\ MyGroups \subseteq c.rooms
      BY <1>3, <1>4, <1>5, <2>2, FirstRecords
    <3>2. g \in Groups /\ group[g].owner
      BY <1>1, <1>5, <2>2 DEF GroupsInv, Open, TypeOK
    <3>3. g \in MyGroups
      BY <3>2 DEF MyGroups
    <3> QED
      BY <1>4, <2>2, <3>1, <3>3
  <2> QED
    BY <2>1, <2>2
<1>10. told' \in BOOLEAN /\ online' \in SUBSET Sockets
  BY <1>1 DEF TypeOK
<1> QED
  BY <1>1, <1>4, <1>5, <1>6, <1>7, <1>8, <1>9, <1>10, SocketStep

\* A tab closes.
LEMMA DisconnectInv ==
  ASSUME IInv, NEW s \in Sockets, Disconnect(s)
  PROVE  IInv'
<1>1. /\ TypeOK /\ OnlineHonest /\ RoomsRestored /\ GroupsInv
      /\ UNCHANGED <<group, message, job, requests, crossed>>
      /\ socket[s].pc \in {"joining", "open"}
      /\ online' = online \ {s} /\ told' = (online' # {})
      /\ due' = [due EXCEPT ![s] = {}]
  BY DEF IInv, Disconnect
<1>2. PICK p \in {"stale", "closed"} :
        /\ socket' = [socket EXCEPT ![s] = [Closed EXCEPT !.pc = p]]
        /\ socket[s].pc = "joining" <=> p = "stale"
  BY DEF Disconnect
<1> DEFINE c == [Closed EXCEPT !.pc = p]
<1>3. c \in Socket /\ c.pc = p /\ c.shows = Blank /\ c.rooms = {}
  BY FirstRecords DEF Socket
<1>4. socket' = [socket EXCEPT ![s] = c]
  BY <1>2
<1> HIDE DEF c
<1>5. /\ socket' \in [Sockets -> Socket]
      /\ \A t \in Sockets : socket'[t] = IF t = s THEN c ELSE socket[t]
  BY <1>1, <1>3, <1>4 DEF TypeOK
<1>6. /\ due' \in [Sockets -> SUBSET Groups]
      /\ \A t \in Sockets : due'[t] = IF t = s THEN {} ELSE due[t]
  BY <1>1 DEF TypeOK
<1>7. \A t \in Sockets : due'[t] \subseteq {g \in Groups : group[g].state # "absent"}
  BY <1>1, <1>6 DEF GroupsInv, TypeOK
<1>8. \A t \in Sockets, m \in Messages :
        \/ /\ socket'[t].shows[m] = socket[t].shows[m]
           /\ \A r \in Rooms : Hears(t, r) => Hears(t, r)'
        \/ socket'[t].shows[m] = Nothing
  BY <1>3, <1>5, FirstRecords DEF Hears
<1>9. OnlineHonest'
  BY <1>1, <1>2, <1>3, <1>5 DEF OnlineHonest
<1>10. RoomsRestored'
  BY <1>1, <1>5, <1>6 DEF RoomsRestored, Open
<1>11. told' \in BOOLEAN /\ online' \in SUBSET Sockets
  BY <1>1 DEF TypeOK
<1> QED
  BY <1>1, <1>5, <1>6, <1>7, <1>8, <1>9, <1>10, <1>11, SocketStep

\* A tab opens a group.
LEMMA JoinGroupInv ==
  ASSUME IInv, NEW s \in Sockets, NEW g \in Groups, JoinGroup(s, g)
  PROVE  IInv'
<1>1. /\ TypeOK /\ OnlineHonest /\ RoomsRestored /\ GroupsInv
      /\ UNCHANGED <<group, message, online, told, due, job, requests, crossed>>
      /\ socket[s].pc = "open" /\ socket[s] \in Socket
      /\ socket' = [socket EXCEPT ![s].rooms = @ \cup {g}]
  BY DEF IInv, JoinGroup, TypeOK
<1> DEFINE c == [socket[s] EXCEPT !.rooms = @ \cup {g}]
<1>2. /\ c \in Socket /\ c.pc = socket[s].pc /\ c.shows = socket[s].shows
      /\ c.rooms = socket[s].rooms \cup {g}
  BY <1>1 DEF Socket
<1>3. socket' = [socket EXCEPT ![s] = c]
  BY <1>1
<1> HIDE DEF c
<1>4. /\ socket' \in [Sockets -> Socket]
      /\ \A t \in Sockets : socket'[t] = IF t = s THEN c ELSE socket[t]
  BY <1>1, <1>2, <1>3 DEF TypeOK
<1>5. \A t \in Sockets : due'[t] \subseteq {h \in Groups : group[h].state # "absent"}
  BY <1>1 DEF GroupsInv, TypeOK
<1>6. \A t \in Sockets, m \in Messages :
        /\ socket'[t].shows[m] = socket[t].shows[m]
        /\ \A r \in Rooms : Hears(t, r) => Hears(t, r)'
  BY <1>2, <1>4 DEF Hears
<1>7. OnlineHonest'
  BY <1>1, <1>2, <1>4 DEF OnlineHonest
<1>8. RoomsRestored'
  BY <1>1, <1>2, <1>4 DEF RoomsRestored, Open
<1>9. told' \in BOOLEAN /\ online' \in SUBSET Sockets /\ due' \in [Sockets -> SUBSET Groups]
  BY <1>1 DEF TypeOK
<1> QED
  BY <1>1, <1>4, <1>5, <1>6, <1>7, <1>8, <1>9, SocketStep

\* A tab stops to show a group.
LEMMA LeaveRoomInv ==
  ASSUME IInv, NEW s \in Sockets, NEW g \in Groups, LeaveRoom(s, g)
  PROVE  IInv'
<1> DEFINE cleared == [m \in Messages |-> IF message[m].room = g THEN Nothing
                                          ELSE socket[s].shows[m]]
           c == [socket[s] EXCEPT !.rooms = @ \ {g}, !.shows = cleared]
<1>1. /\ TypeOK /\ OnlineHonest /\ RoomsRestored /\ GroupsInv
      /\ UNCHANGED <<group, message, online, told, job, requests, crossed>>
      /\ socket[s].pc = "open" /\ socket[s] \in Socket
      /\ due' = [due EXCEPT ![s] = @ \ {g}]
  BY DEF IInv, LeaveRoom, TypeOK
<1>2. socket' = [socket EXCEPT ![s] = c]
  BY DEF LeaveRoom
<1>3. cleared \in [Messages -> View]
  BY <1>1, FirstRecords DEF Socket
<1>4. /\ c \in Socket /\ c.pc = "open" /\ c.shows = cleared
      /\ c.rooms = socket[s].rooms \ {g}
  BY <1>1, <1>3 DEF Socket
<1>5. \A m \in Messages : c.shows[m] = IF message[m].room = g THEN Nothing
                                       ELSE socket[s].shows[m]
  BY <1>4
<1> HIDE DEF c, cleared
<1>6. /\ socket' \in [Sockets -> Socket]
      /\ \A t \in Sockets : socket'[t] = IF t = s THEN c ELSE socket[t]
  BY <1>1, <1>2, <1>4 DEF TypeOK
<1>7. /\ due' \in [Sockets -> SUBSET Groups]
      /\ \A t \in Sockets : due'[t] = IF t = s THEN due[t] \ {g} ELSE due[t]
  BY <1>1 DEF TypeOK
<1>8. \A t \in Sockets : due'[t] \subseteq {h \in Groups : group[h].state # "absent"}
  BY <1>1, <1>7 DEF GroupsInv, TypeOK
<1>9. \A t \in Sockets, m \in Messages :
        \/ /\ socket'[t].shows[m] = socket[t].shows[m]
           /\ \A r \in Rooms : Hears(t, r) /\ message[m].room = r => Hears(t, r)'
        \/ socket'[t].shows[m] = Nothing
  BY <1>1, <1>4, <1>5, <1>6 DEF Hears
<1>10. OnlineHonest'
  BY <1>1, <1>4, <1>6 DEF OnlineHonest
<1>11. RoomsRestored'
  BY <1>1, <1>4, <1>6, <1>7 DEF RoomsRestored, Open
<1>12. told' \in BOOLEAN /\ online' \in SUBSET Sockets
  BY <1>1 DEF TypeOK
<1> QED
  BY <1>1, <1>6, <1>7, <1>8, <1>9, <1>10, <1>11, <1>12, SocketStep

\* A tab loads the history of a room it hears.
LEMMA LoadHistoryInv ==
  ASSUME IInv, NEW s \in Sockets, NEW r \in Rooms, LoadHistory(s, r)
  PROVE  IInv'
<1> DEFINE loaded == [m \in Messages |-> IF message[m].room # r THEN socket[s].shows[m]
                                         ELSE IF message[m].deleted THEN Nothing
                                         ELSE Stored(m)]
           c == [socket[s] EXCEPT !.shows = loaded]
<1>1. /\ TypeOK /\ OnlineHonest /\ RoomsRestored /\ GroupsInv
      /\ UNCHANGED <<group, message, online, told, due, job, requests, crossed>>
      /\ socket[s] \in Socket /\ Hears(s, r)
  BY DEF IInv, LoadHistory, TypeOK
<1>2. socket' = [socket EXCEPT ![s] = c]
  BY DEF LoadHistory
<1>3. loaded \in [Messages -> View]
  BY <1>1, FirstRecords, StoredView DEF Socket
<1>4. /\ c \in Socket /\ c.pc = socket[s].pc /\ c.shows = loaded
      /\ c.rooms = socket[s].rooms
  BY <1>1, <1>3 DEF Socket
<1>5. \A m \in Messages : c.shows[m] = IF message[m].room # r THEN socket[s].shows[m]
                                       ELSE IF message[m].deleted THEN Nothing
                                       ELSE Stored(m)
  BY <1>4
<1> HIDE DEF c, loaded
<1>6. /\ socket' \in [Sockets -> Socket]
      /\ \A t \in Sockets : socket'[t] = IF t = s THEN c ELSE socket[t]
  BY <1>1, <1>2, <1>4 DEF TypeOK
<1>7. \A t \in Sockets : due'[t] \subseteq {h \in Groups : group[h].state # "absent"}
  BY <1>1 DEF GroupsInv, TypeOK
<1>8. \A t \in Sockets : \A q : Hears(t, q)' = Hears(t, q)
  BY <1>4, <1>6 DEF Hears
<1>9. \A t \in Sockets, m \in Messages :
        \/ /\ socket'[t].shows[m] = socket[t].shows[m]
           /\ \A q \in Rooms : Hears(t, q) /\ message[m].room = q => Hears(t, q)'
        \/ socket'[t].shows[m] = Nothing
        \/ /\ socket'[t].shows[m] = Stored(m) /\ ~ message[m].deleted
           /\ message[m].room \in Rooms /\ Hears(t, message[m].room)'
  BY <1>1, <1>5, <1>6, <1>8
<1>10. OnlineHonest'
  BY <1>1, <1>4, <1>6 DEF OnlineHonest
<1>11. RoomsRestored'
  BY <1>1, <1>4, <1>6 DEF RoomsRestored, Open
<1>12. told' \in BOOLEAN /\ online' \in SUBSET Sockets /\ due' \in [Sockets -> SUBSET Groups]
  BY <1>1 DEF TypeOK
<1> QED
  BY <1>1, <1>6, <1>7, <1>9, <1>10, <1>11, <1>12, SocketStep

-----------------------------------------------------------------------------
(* Steps on groups.                                                         *)

\* A group appears, keeps its author, or is archived.
LEMMA GroupStep ==
  ASSUME IInv, UNCHANGED <<message, socket, online, told, due, job, requests, crossed>>,
         NEW g \in Groups, NEW row \in Group, group' = [group EXCEPT ![g] = row],
         row.state # "absent", row.owner,
         row.state = "open" => group[g].state \in {"absent", "open"}
  PROVE  IInv'
<1>1. TypeOK /\ ShownInv /\ AgreeInv /\ GroupsInv /\ OnlineHonest /\ RoomsRestored
  BY DEF IInv
<1>2. /\ group' \in [Groups -> Group]
      /\ \A h \in Groups : group'[h] = IF h = g THEN row ELSE group[h]
  BY <1>1 DEF TypeOK
<1>3. TypeOK'
  BY <1>1, <1>2 DEF TypeOK
<1>4. \A j \in Jobs : JobSound(j)' /\ TellsTrue(j)'
  BY JobsSame
<1>5. ShownInv' /\ OnlineHonest'
  BY <1>1 DEF ShownInv, OnlineHonest, Hears
<1>6. AgreeInv'
  <2>1. \A j \in Jobs : \A v : Heard(j, v)' = Heard(j, v)
    BY DEF Heard
  <2>2. \A m \in Messages : Stored(m)' = Stored(m)
    BY DEF Stored
  <2>3. \A s \in Sockets, m \in Messages : InStep(s, m) => InStep(s, m)'
    BY <2>1, <2>2 DEF InStep
  <2> QED
    BY <1>1, <2>3 DEF AgreeInv
<1>7. GroupsInv'
  BY <1>1, <1>2 DEF GroupsInv
<1>8. RoomsRestored'
  <2>1. \A s \in Sockets, h \in Groups : h \in due[s] /\ Open(h)' => Open(h)
    BY <1>1, <1>2 DEF GroupsInv, Open
  <2> QED
    BY <1>1, <2>1 DEF RoomsRestored, TypeOK
<1> QED
  BY <1>3, <1>4, <1>5, <1>6, <1>7, <1>8 DEF IInv

\* A group is created.
LEMMA CreateGroupInv ==
  ASSUME IInv, NEW g \in Groups, NEW ids \in SUBSET Colleagues, CreateGroup(g, ids)
  PROVE  IInv'
<1> DEFINE row == [state |-> "open", owner |-> TRUE, members |-> ids]
<1>1. row \in Group /\ row.state = "open" /\ row.owner
  BY DEF Group
<1>2. /\ group' = [group EXCEPT ![g] = row] /\ group[g].state = "absent"
      /\ UNCHANGED <<message, socket, online, told, due, job, requests, crossed>>
  BY DEF CreateGroup
<1> HIDE DEF row
<1> QED
  BY <1>1, <1>2, GroupStep

\* The members of a group are replaced.
LEMMA UpdateGroupInv ==
  ASSUME IInv, NEW g \in Groups, NEW ids \in SUBSET Colleagues, UpdateGroup(g, ids)
  PROVE  IInv'
<1> DEFINE row == [group[g] EXCEPT !.owner = TRUE, !.members = ids]
<1>1. group[g] \in Group /\ group[g].state # "absent"
  BY DEF IInv, TypeOK, UpdateGroup
<1>2. row \in Group /\ row.state = group[g].state /\ row.owner
  BY <1>1 DEF Group
<1>3. /\ group' = [group EXCEPT ![g] = row]
      /\ UNCHANGED <<message, socket, online, told, due, job, requests, crossed>>
  BY DEF UpdateGroup
<1> HIDE DEF row
<1> QED
  BY <1>1, <1>2, <1>3, GroupStep DEF Group

\* A group is archived.
LEMMA ArchiveGroupInv ==
  ASSUME IInv, NEW g \in Groups, ArchiveGroup(g)
  PROVE  IInv'
<1>1. PICK p \in {"archived"} : group' = [group EXCEPT ![g].state = p]
  BY DEF ArchiveGroup
<1> DEFINE row == [group[g] EXCEPT !.state = p]
<1>2. group[g] \in Group /\ group[g].state = "open" /\ group[g].owner
  BY DEF IInv, TypeOK, GroupsInv, ArchiveGroup, Open
<1>3. row \in Group /\ row.state = "archived" /\ row.owner
  BY <1>2 DEF Group
<1>4. /\ group' = [group EXCEPT ![g] = row]
      /\ UNCHANGED <<message, socket, online, told, due, job, requests, crossed>>
  BY <1>1 DEF ArchiveGroup
<1> HIDE DEF row
<1> QED
  BY <1>3, <1>4, GroupStep

\* The members of a group change, of whom its author is not one.
LEMMA MembersInv ==
  ASSUME IInv, NEW g \in Groups, NEW c \in Colleagues, AddMember(g, c) \/ RemoveMember(g, c)
  PROVE  IInv'
<1>1. PICK ids \in SUBSET Colleagues :
        /\ group' = [group EXCEPT ![g].members = ids]
        /\ group[g].state # "absent"
        /\ UNCHANGED <<message, socket, online, told, due, job, requests, crossed>>
  <2>1. group[g].members \in SUBSET Colleagues
    BY DEF IInv, TypeOK, Group
  <2>2. CASE AddMember(g, c)
    <3>1. /\ group[g].members \cup {c} \in SUBSET Colleagues
          /\ group' = [group EXCEPT ![g].members = group[g].members \cup {c}]
      BY <2>1, <2>2 DEF AddMember
    <3> QED
      BY <2>2, <3>1 DEF AddMember
  <2>3. CASE RemoveMember(g, c)
    <3>1. /\ group[g].members \ {c} \in SUBSET Colleagues
          /\ group' = [group EXCEPT ![g].members = group[g].members \ {c}]
      BY <2>1, <2>3 DEF RemoveMember
    <3> QED
      BY <2>3, <3>1 DEF RemoveMember
  <2> QED
    BY <2>2, <2>3
<1> DEFINE row == [group[g] EXCEPT !.members = ids]
<1>2. group[g] \in Group /\ group[g].owner
  BY <1>1 DEF IInv, TypeOK, GroupsInv
<1>3. row \in Group /\ row.state = group[g].state /\ row.owner
  BY <1>2 DEF Group
<1>4. group' = [group EXCEPT ![g] = row]
  BY <1>1
<1> HIDE DEF row
<1> QED
  BY <1>1, <1>3, <1>4, GroupStep DEF Group

-----------------------------------------------------------------------------
(* Requests.                                                                *)

\* A step of one request.
LEMMA JobStep ==
  ASSUME TypeOK, NEW j \in Jobs, NEW d \in Job, job' = [job EXCEPT ![j] = d]
  PROVE  /\ job' \in [Jobs -> Job]
         /\ \A i \in Jobs : job'[i] = IF i = j THEN d ELSE job[i]
BY DEF TypeOK

\* What a request knows stays true when its message stays and the others learn of no other.
LEMMA OtherJob ==
  ASSUME IInv, NEW i \in Jobs, job'[i] = job[i],
         job[i].id \in Messages => message'[job[i].id] = message[job[i].id],
         \A k \in Jobs : job'[k].id \in {job[k].id, None},
         crossed \subseteq crossed'
  PROVE  JobSound(i)' /\ TellsTrue(i)'
<1>1. JobSound(i) /\ TellsTrue(i)
  BY DEF IInv
<1>2. job[i].pc # "idle" => job[i].id \in Messages /\ job[i].id # None
  BY <1>1, Parameters DEF JobSound
<1>3. Unsent(i)' = Unsent(i)
  BY DEF Unsent
<1>4. Unsent(i) => job[i].pc # "idle"
  BY DEF Unsent
<1>5. JobSound(i)'
  BY <1>1, <1>2, <1>3, <1>4 DEF JobSound
<1>6. TellsTrue(i)'
  BY <1>1, <1>2 DEF TellsTrue
<1> QED
  BY <1>5, <1>6

\* A tab stays in step with a message that neither it nor a request works on.
LEMMA OtherView ==
  ASSUME NEW s \in Sockets, NEW m \in Messages, InStep(s, m),
         socket'[s].shows[m] = socket[s].shows[m], message'[m] = message[m],
         \A i \in Jobs : job[i].id = m \/ job'[i].id = m => job'[i] = job[i]
  PROVE  InStep(s, m)'
<1>1. \A i \in Jobs : \A v : job'[i] = job[i] => Heard(i, v)' = Heard(i, v)
  BY DEF Heard
<1>2. Stored(m)' = Stored(m)
  BY DEF Stored
<1> QED
  BY <1>1, <1>2 DEF InStep

\* A request about a message begins.
LEMMA BeginStep ==
  ASSUME IInv, NEW j \in Jobs, NEW m \in Messages, NEW plan \in Job, Begin(j, m, plan),
         plan.pc = "write", plan.id = m, plan.op # "none", plan.room \in Rooms,
         plan.op \in {"send", "edit"} => plan.text \in Texts,
         plan.op = "send" => message[m] = NoMessage /\ \A i \in Jobs : job[i].id # m,
         plan.op # "send" => message[m].text # None /\ message[m].room = plan.room,
         plan.op = "edit" /\ m \notin crossed /\ (\A i \in Jobs : job[i].id # m)
           => ~ message[m].deleted
  PROVE  IInv'
<1>1. TypeOK /\ ShownInv /\ AgreeInv /\ GroupsInv /\ OnlineHonest /\ RoomsRestored
  BY DEF IInv
<1>2. /\ job[j].pc = "idle" /\ requests < MaxRequests /\ requests' = requests + 1
      /\ job' = [job EXCEPT ![j] = plan]
      /\ UNCHANGED <<group, message, socket, online, told, due>>
      /\ crossed \subseteq crossed' /\ crossed' \subseteq crossed \cup {m}
      /\ m \notin crossed' => \A i \in Jobs \ {j} : job[i].id # m
  BY DEF Begin
<1>3. /\ job' \in [Jobs -> Job]
      /\ \A i \in Jobs : job'[i] = IF i = j THEN plan ELSE job[i]
  BY <1>1, <1>2, JobStep
<1>4. job[j] = Idle /\ job[j].id = None /\ None \notin Messages
  BY <1>2, FirstRecords, Parameters DEF IInv, JobSound
<1>5. TypeOK'
  BY <1>1, <1>2, <1>3, Parameters DEF TypeOK
<1>6. \A i \in Jobs : JobSound(i)'
  <2> SUFFICES ASSUME NEW i \in Jobs PROVE JobSound(i)'
    OBVIOUS
  <2>1. CASE i = j
    BY <1>2, <1>3, <2>1 DEF JobSound, Unsent
  <2>2. CASE i # j
    <3>1. job'[i] = job[i] /\ JobSound(i) /\ Unsent(i)' = Unsent(i)
      BY <1>3, <2>2 DEF IInv, Unsent
    <3>2. Unsent(i) => job[i].id # m
      <4>1. Unsent(i) => message[job[i].id] = NoMessage
        BY <3>1 DEF JobSound
      <4> QED
        BY <4>1, FirstRecords
    <3> QED
      BY <1>2, <1>3, <3>1, <3>2 DEF JobSound
  <2> QED
    BY <2>1, <2>2
<1>7. \A i \in Jobs : TellsTrue(i)'
  <2> SUFFICES ASSUME NEW i \in Jobs, job'[i].pc # "idle", job'[i].id \notin crossed'
               PROVE  TellsTrue(i)'
    BY DEF TellsTrue
  <2>1. CASE i = j
    <3>1. m \notin crossed /\ \A k \in Jobs : job[k].id # m
      BY <1>2, <1>3, <1>4, <2>1
    <3> QED
      BY <1>2, <1>3, <2>1, <3>1 DEF TellsTrue
  <2>2. CASE i # j
    <3>1. job'[i] = job[i] /\ TellsTrue(i) /\ job[i].id # m
      BY <1>2, <1>3, <2>2 DEF IInv
    <3> QED
      BY <1>2, <1>3, <3>1 DEF TellsTrue
  <2> QED
    BY <2>1, <2>2
<1>8. ShownInv' /\ OnlineHonest' /\ RoomsRestored' /\ GroupsInv'
  BY <1>1, <1>2 DEF ShownInv, OnlineHonest, RoomsRestored, GroupsInv, Hears, Open
<1>9. AgreeInv'
  <2> SUFFICES ASSUME NEW s \in Sockets, NEW n \in Messages, n \notin crossed',
                      socket[s].shows[n].text # None
               PROVE  InStep(s, n)'
    BY <1>2 DEF AgreeInv
  <2>1. InStep(s, n)
    BY <1>1, <1>2 DEF AgreeInv
  <2>2. CASE n # m
    <3>1. \A i \in Jobs : job[i].id = n \/ job'[i].id = n => job'[i] = job[i]
      BY <1>3, <1>4, <2>2
    <3> QED
      BY <1>2, <2>1, <3>1, OtherView
  <2>3. CASE n = m
    <3>1. \A i \in Jobs : job[i].id # m
      BY <1>2, <1>4, <2>3
    <3>2. socket[s].shows[m] = Stored(m) /\ Stored(m)' = Stored(m)
      BY <1>2, <2>1, <2>3, <3>1 DEF InStep, Stored
    <3> QED
      BY <1>2, <1>3, <2>3, <3>1, <3>2 DEF InStep
  <2> QED
    BY <2>2, <2>3
<1> QED
  BY <1>5, <1>6, <1>7, <1>8, <1>9 DEF IInv

\* A message is sent.
LEMMA SendInv ==
  ASSUME IInv, NEW j \in Jobs, NEW m \in Messages, NEW r \in Rooms, NEW text \in Texts,
         Send(j, m, r, text)
  PROVE  IInv'
<1>1. PICK p \in {"write"}, o \in {"send"} :
        Begin(j, m, [Idle EXCEPT !.pc = p, !.op = o, !.id = m, !.text = text, !.room = r])
  BY DEF Send
<1> DEFINE plan == [Idle EXCEPT !.pc = p, !.op = o, !.id = m, !.text = text, !.room = r]
<1>2. /\ plan \in Job /\ plan.pc = "write" /\ plan.op = "send" /\ plan.id = m
      /\ plan.text = text /\ plan.room = r
  BY FirstRecords DEF Job
<1>3. Begin(j, m, plan) /\ message[m] = NoMessage /\ \A i \in Jobs : job[i].id # m
  BY <1>1 DEF Send
<1> HIDE DEF plan
<1> QED
  BY <1>2, <1>3, BeginStep

\* What a tab shows of a message that is not deleted there.
LEMMA SeenMessage ==
  ASSUME IInv, NEW m \in Messages, Seen(m)
  PROVE  /\ message[m].text # None /\ message[m].room \in Rooms /\ message[m].liked \in BOOLEAN
         /\ m \notin crossed /\ (\A i \in Jobs : job[i].id # m) => ~ message[m].deleted
<1>1. PICK s \in Sockets : socket[s].shows[m].text \notin {None, Deleted}
  BY DEF Seen
<1>2. message[m].text # None /\ message[m].room \in Rooms
  BY <1>1 DEF IInv, ShownInv
<1>3. message[m].liked \in BOOLEAN
  BY DEF IInv, TypeOK, Message
<1>4. ASSUME m \notin crossed, \A i \in Jobs : job[i].id # m
      PROVE  ~ message[m].deleted
  <2>1. socket[s].shows[m] = Stored(m)
    BY <1>1, <1>4 DEF IInv, AgreeInv, InStep
  <2> QED
    BY <1>1, <2>1, StoredView DEF IInv
<1> QED
  BY <1>2, <1>3, <1>4

\* A message is edited.
LEMMA EditInv ==
  ASSUME IInv, NEW j \in Jobs, NEW m \in Messages, NEW text \in Texts, Edit(j, m, text)
  PROVE  IInv'
<1>1. PICK p \in {"write"}, o \in {"edit"} :
        Begin(j, m, [Idle EXCEPT !.pc = p, !.op = o, !.id = m, !.text = text,
                                 !.room = message[m].room])
  BY DEF Edit
<1> DEFINE plan == [Idle EXCEPT !.pc = p, !.op = o, !.id = m, !.text = text,
                                !.room = message[m].room]
<1>2. /\ message[m].text # None /\ message[m].room \in Rooms
      /\ m \notin crossed /\ (\A i \in Jobs : job[i].id # m) => ~ message[m].deleted
  BY SeenMessage DEF Edit
<1>3. /\ plan \in Job /\ plan.pc = "write" /\ plan.op = "edit" /\ plan.id = m
      /\ plan.text = text /\ plan.room = message[m].room
  BY <1>2, FirstRecords DEF Job
<1>4. Begin(j, m, plan)
  BY <1>1
<1> HIDE DEF plan
<1> QED
  BY <1>2, <1>3, <1>4, BeginStep

\* A message is deleted.
LEMMA DeleteInv ==
  ASSUME IInv, NEW j \in Jobs, NEW m \in Messages, Delete(j, m)
  PROVE  IInv'
<1>1. PICK p \in {"write"}, o \in {"delete"} :
        Begin(j, m, [Idle EXCEPT !.pc = p, !.op = o, !.id = m,
                                 !.room = message[m].room])
  BY DEF Delete
<1> DEFINE plan == [Idle EXCEPT !.pc = p, !.op = o, !.id = m,
                                !.room = message[m].room]
<1>2. /\ message[m].text # None /\ message[m].room \in Rooms
  BY SeenMessage DEF Delete
<1>3. /\ plan \in Job /\ plan.pc = "write" /\ plan.op = "delete" /\ plan.id = m
      /\ plan.room = message[m].room
  BY <1>2, FirstRecords DEF Job
<1>4. Begin(j, m, plan)
  BY <1>1
<1> HIDE DEF plan
<1> QED
  BY <1>2, <1>3, <1>4, BeginStep

\* A reaction is toggled.
LEMMA ReactInv ==
  ASSUME IInv, NEW j \in Jobs, NEW m \in Messages, React(j, m)
  PROVE  IInv'
<1>1. PICK p \in {"write"}, o \in {"react"} :
        Begin(j, m, [Idle EXCEPT !.pc = p, !.op = o, !.id = m,
                                 !.room = message[m].room, !.liked = message[m].liked])
  BY DEF React
<1> DEFINE plan == [Idle EXCEPT !.pc = p, !.op = o, !.id = m,
                                !.room = message[m].room, !.liked = message[m].liked]
<1>2. /\ message[m].text # None /\ message[m].room \in Rooms /\ message[m].liked \in BOOLEAN
  BY SeenMessage DEF React
<1>3. /\ plan \in Job /\ plan.pc = "write" /\ plan.op = "react" /\ plan.id = m
      /\ plan.room = message[m].room
  BY <1>2, FirstRecords DEF Job
<1>4. Begin(j, m, plan)
  BY <1>1
<1> HIDE DEF plan
<1> QED
  BY <1>2, <1>3, <1>4, BeginStep

\* The row a request leaves.
LEMMA WrittenRow ==
  ASSUME IInv, NEW j \in Jobs, job[j].pc = "write", ~ Refused(j)
  PROVE  LET row == Written(j)
             old == message[job[j].id]
         IN  /\ row \in Message /\ row.room = job[j].room /\ row.text # None
             /\ job[j].op = "send" =>
                  row.text = job[j].text /\ row.deleted = FALSE /\ row.liked = FALSE
             /\ job[j].op = "edit" =>
                  row.text = job[j].text /\ row.deleted = old.deleted /\ row.liked = old.liked
             /\ job[j].op = "delete" =>
                  row.deleted /\ row.text = old.text /\ row.liked = old.liked
             /\ job[j].op = "react" =>
                  row.text = old.text /\ row.deleted = old.deleted
<1> DEFINE old == message[job[j].id]
<1>1. /\ TypeOK /\ job[j] \in Job /\ job[j].op \in {"send", "edit", "delete", "react"}
      /\ job[j].id \in Messages /\ job[j].room \in Rooms /\ JobSound(j)
  BY Kinds DEF IInv
<1>2. old \in Message /\ job[j].liked \in BOOLEAN
  BY <1>1 DEF TypeOK, Job
<1>3. job[j].op # "send" => old.room = job[j].room /\ old.text # None
  BY <1>1 DEF JobSound, Unsent
<1>4. job[j].op \in {"send", "edit"} => job[j].text \in Texts /\ job[j].text # None
  BY <1>1, Parameters DEF JobSound
<1>5. CASE job[j].op = "send"
  <2>1. Written(j) = [room |-> job[j].room, text |-> job[j].text, deleted |-> FALSE,
                      liked |-> FALSE]
    BY <1>5 DEF Written, Saved, NoMessage
  <2> QED
    BY <1>1, <1>4, <1>5, <2>1 DEF Message
<1>6. CASE job[j].op = "edit"
  <2>1. Written(j) = [old EXCEPT !.text = job[j].text]
    BY <1>6 DEF Written, Edited
  <2> QED
    BY <1>2, <1>3, <1>4, <1>6, <2>1 DEF Message
<1>7. CASE job[j].op = "delete"
  <2>1. PICK b \in BOOLEAN : b /\ Written(j) = [old EXCEPT !.deleted = b]
    BY <1>7 DEF Written, Removed
  <2> QED
    BY <1>2, <1>3, <1>7, <2>1 DEF Message
<1>8. CASE job[j].op = "react"
  <2>1. PICK b \in BOOLEAN : Written(j) = [old EXCEPT !.liked = b]
    BY <1>8 DEF Written, Toggled
  <2> QED
    BY <1>2, <1>3, <1>8, <2>1 DEF Message
<1> QED
  BY <1>1, <1>5, <1>6, <1>7, <1>8

\* A request about a message that nothing else happened to is the only one about it.
LEMMA Alone ==
  ASSUME IInv, NEW j \in Jobs, job[j].pc # "idle", job[j].id \notin crossed,
         NEW i \in Jobs, job[i].id = job[j].id
  PROVE  i = j
BY DEF IInv, TellsTrue

\* A request writes.
LEMMA WriteInv ==
  ASSUME IInv, NEW j \in Jobs, Write(j)
  PROVE  IInv'
<1>0. PICK m \in Messages : m = job[j].id
  BY Kinds DEF Write
<1> DEFINE row == Written(j)
<1>1. /\ TypeOK /\ ShownInv /\ AgreeInv /\ GroupsInv /\ OnlineHonest /\ RoomsRestored
      /\ JobSound(j) /\ TellsTrue(j)
  BY DEF IInv
<1>2. /\ job[j].pc = "write" /\ ~ Refused(j)
      /\ message' = [message EXCEPT ![m] = row]
      /\ UNCHANGED <<group, socket, online, told, due, requests, crossed>>
  BY <1>0 DEF Write
<1>3. PICK p \in {"look", "emit"} : /\ job' = [job EXCEPT ![j].pc = p]
                                    /\ p = "look" <=> job[j].op = "react"
  BY DEF Write
<1>4. /\ job[j] \in Job /\ job[j].op \in {"send", "edit", "delete", "react"}
      /\ m = job[j].id /\ job[j].room \in Rooms
  BY <1>0, <1>2, Kinds
<1> DEFINE d == [job[j] EXCEPT !.pc = p]
<1>5. /\ d \in Job /\ d.pc = p /\ d.op = job[j].op /\ d.id = m /\ d.text = job[j].text
      /\ d.room = job[j].room /\ d.liked = job[j].liked
  BY <1>0, <1>4 DEF Job
<1>6. job' = [job EXCEPT ![j] = d]
  BY <1>3
<1> HIDE DEF d
<1>7. /\ job' \in [Jobs -> Job]
      /\ \A i \in Jobs : job'[i] = IF i = j THEN d ELSE job[i]
  BY <1>1, <1>5, <1>6, JobStep
<1>8. /\ row \in Message /\ row.room = job[j].room /\ row.text # None
      /\ job[j].op = "send" => row.text = job[j].text /\ row.deleted = FALSE /\ row.liked = FALSE
      /\ job[j].op = "edit" => /\ row.text = job[j].text /\ row.deleted = message[m].deleted
                               /\ row.liked = message[m].liked
      /\ job[j].op = "delete" => /\ row.deleted /\ row.text = message[m].text
                                 /\ row.liked = message[m].liked
      /\ job[j].op = "react" => row.text = message[m].text /\ row.deleted = message[m].deleted
  BY <1>0, <1>2, WrittenRow
<1> HIDE DEF row
<1>9. /\ message' \in [Messages -> Message]
      /\ \A n \in Messages : message'[n] = IF n = m THEN row ELSE message[n]
  BY <1>1, <1>2, <1>4, <1>8 DEF TypeOK
<1>10. /\ Unsent(j) => message[m] = NoMessage /\ \A i \in Jobs \ {j} : job[i].id # m
       /\ ~ Unsent(j) => message[m].room = job[j].room /\ message[m].text # None
       /\ Unsent(j) <=> job[j].op = "send"
  BY <1>0, <1>1, <1>2 DEF JobSound, Unsent
<1>11. TypeOK'
  BY <1>1, <1>2, <1>7, <1>9 DEF TypeOK
<1>12. \A i \in Jobs : JobSound(i)' /\ TellsTrue(i)'
  <2> SUFFICES ASSUME NEW i \in Jobs PROVE JobSound(i)' /\ TellsTrue(i)'
    OBVIOUS
  <2>1. CASE i = j
    <3>1. JobSound(j)'
      BY <1>1, <1>2, <1>4, <1>5, <1>7, <1>8, <1>9, <1>3 DEF JobSound, Unsent
    <3>2. ASSUME m \notin crossed PROVE TellsTrue(j)'
      <4>1. /\ \A k \in Jobs \ {j} : job[k].id # m
            /\ job[j].op = "edit" => ~ message[m].deleted
        BY <1>0, <1>1, <1>2, <3>2 DEF TellsTrue
      <4>2. \A k \in Jobs \ {j} : job'[k].id # d.id
        BY <1>5, <1>7, <4>1
      <4>3. d.op = "edit" => ~ message'[d.id].deleted
        BY <1>4, <1>5, <1>8, <1>9, <4>1
      <4>4. d.pc = "emit" => d.op # "react"
        BY <1>3, <1>5
      <4> QED
        BY <1>2, <1>4, <1>5, <1>7, <1>8, <1>9, <4>2, <4>3, <4>4 DEF TellsTrue
    <3>3. m \in crossed => TellsTrue(j)'
      BY <1>2, <1>5, <1>7 DEF TellsTrue
    <3> QED
      BY <2>1, <3>1, <3>2, <3>3
  <2>2. CASE i # j /\ job[i].id # m
    <3>1. job'[i] = job[i] /\ \A k \in Jobs : job'[k].id = job[k].id
      BY <1>0, <1>5, <1>7, <2>2
    <3> QED
      BY <1>2, <1>9, <2>2, <3>1, OtherJob
  <2>3. CASE i # j /\ job[i].id = m
    <3>1. job'[i] = job[i] /\ job[i].pc # "idle" /\ JobSound(i)
      BY <1>4, <1>7, <2>3, AboutSomething DEF IInv
    <3>2. ~ Unsent(i) /\ ~ Unsent(j)
      <4>1. job[i].id = job[j].id
        BY <1>0, <2>3
      <4>2. Unsent(i) => job[j].id # job[i].id
        BY <2>3, <3>1 DEF JobSound
      <4> QED
        BY <1>10, <2>3, <4>1, <4>2
    <3>3. message[m].room = job[i].room /\ message[m].room = job[j].room
      BY <1>10, <2>3, <3>1, <3>2 DEF JobSound
    <3>4. Unsent(i)' = Unsent(i)
      BY <3>1 DEF Unsent
    <3>5. JobSound(i)'
      BY <1>4, <1>8, <1>9, <2>3, <3>1, <3>2, <3>3, <3>4 DEF JobSound
    <3>6. m \in crossed
      BY <1>0, <1>2, <2>3, Alone
    <3> QED
      BY <1>2, <2>3, <3>1, <3>5, <3>6 DEF TellsTrue
  <2> QED
    BY <2>1, <2>2, <2>3
<1>13. ShownInv'
  <2> SUFFICES ASSUME NEW s \in Sockets, NEW n \in Messages, socket[s].shows[n].text # None
               PROVE  /\ message'[n].text # None /\ message'[n].room \in Rooms
                      /\ Hears(s, message[n].room)'
    BY <1>2 DEF ShownInv
  <2>1. message[n].text # None /\ message[n].room \in Rooms /\ Hears(s, message[n].room)
    BY <1>1 DEF ShownInv
  <2>2. message'[n].room = message[n].room /\ message'[n].text # None
    BY <1>8, <1>9, <1>10, <2>1, FirstRecords
  <2>3. Hears(s, message[n].room)'
    BY <1>2, <2>1, <2>2 DEF Hears
  <2> QED
    BY <2>1, <2>2, <2>3
<1>14. AgreeInv'
  <2> SUFFICES ASSUME NEW s \in Sockets, NEW n \in Messages, n \notin crossed,
                      socket[s].shows[n].text # None
               PROVE  InStep(s, n)'
    BY <1>2 DEF AgreeInv
  <2>1. InStep(s, n) /\ message[n].text # None
    BY <1>1 DEF AgreeInv, ShownInv
  <2>2. CASE n # m
    <3>1. \A i \in Jobs : job[i].id = n \/ job'[i].id = n => job'[i] = job[i]
      BY <1>0, <1>5, <1>7, <2>2
    <3> QED
      BY <1>2, <1>9, <2>1, <2>2, <3>1, OtherView
  <2>3. CASE n = m
    <3> DEFINE shown == socket[s].shows[m]
    <3>1. \A i \in Jobs : job[i].id = m => i = j
      BY <1>0, <1>2, <2>3, Alone
    <3>2. /\ shown = Stored(m) /\ shown \in View /\ shown.text # None
          /\ shown.text = IF message[m].deleted THEN Deleted ELSE message[m].text
          /\ shown.liked = message[m].liked
      BY <1>1, <1>2, <1>4, <2>1, <2>3, StoredView DEF InStep
    <3>3. /\ Stored(m)' \in View
          /\ Stored(m)'.text = IF row.deleted THEN Deleted ELSE row.text
          /\ Stored(m)'.liked = row.liked
      BY <1>8, <1>9, <1>4 DEF Stored, View, Message
    <3>4. job[j].op # "send"
      BY <1>10, <2>1, <2>3, FirstRecords
    <3>5. job[j].op = "edit" => ~ message[m].deleted
      BY <1>0, <1>1, <1>2, <2>3 DEF TellsTrue
    <3>6. socket'[s].shows[m] = shown
      BY <1>2
    <3>7. \A v : Heard(j, v)' = Heard(j, v)
      BY <1>5, <1>7 DEF Heard
    <3>8. p = "emit" => Heard(j, shown) = Stored(m)'
      <4>1. Heard(j, shown) \in View
        BY <1>1, <1>4, <3>2, HeardView
      <4>2. p = "emit" => /\ Heard(j, shown).text = Stored(m)'.text
                          /\ Heard(j, shown).liked = Stored(m)'.liked
        <5>1. job[j].op = "edit" => /\ Heard(j, shown).text = job[j].text
                                    /\ Heard(j, shown).liked = shown.liked
          BY <1>1, <1>4, <3>2, HeardView
        <5>2. job[j].op = "delete" => /\ Heard(j, shown).text = Deleted
                                      /\ Heard(j, shown).liked = shown.liked
          BY <1>1, <1>4, <3>2, HeardView
        <5>3. job[j].op = "edit" =>
                Stored(m)'.text = job[j].text /\ Stored(m)'.liked = message[m].liked
          BY <1>8, <3>3, <3>5
        <5>4. job[j].op = "delete" =>
                Stored(m)'.text = Deleted /\ Stored(m)'.liked = message[m].liked
          BY <1>8, <3>3
        <5> QED
          BY <1>3, <1>4, <3>2, <3>4, <5>1, <5>2, <5>3, <5>4
      <4> QED
        BY <3>3, <4>1, <4>2, SameView
    <3>9. p = "look" => shown.text = Stored(m)'.text
      BY <1>3, <1>8, <3>2, <3>3
    <3>10. \A i \in Jobs : job'[i].id = m => i = j /\ job'[i].pc = p
      BY <1>5, <1>7, <3>1
    <3> QED
      BY <1>5, <1>7, <2>3, <3>6, <3>7, <3>8, <3>9, <3>10 DEF InStep
  <2> QED
    BY <2>2, <2>3
<1>15. OnlineHonest' /\ RoomsRestored' /\ GroupsInv'
  BY <1>1, <1>2 DEF OnlineHonest, RoomsRestored, GroupsInv, Open
<1> QED
  BY <1>11, <1>12, <1>13, <1>14, <1>15 DEF IInv

\* A reaction is read once more.
LEMMA LookInv ==
  ASSUME IInv, NEW j \in Jobs, Look(j)
  PROVE  IInv'
<1>0. PICK m \in Messages : m = job[j].id
  BY Kinds DEF Look
<1>1. /\ TypeOK /\ ShownInv /\ AgreeInv /\ GroupsInv /\ OnlineHonest /\ RoomsRestored
      /\ JobSound(j) /\ TellsTrue(j)
  BY DEF IInv
<1>2. /\ job[j].pc = "look"
      /\ UNCHANGED <<group, message, socket, online, told, due, requests, crossed>>
  BY DEF Look
<1>3. PICK p \in {"emit"} : job' = [job EXCEPT ![j].pc = p, ![j].liked = message[m].liked]
  BY <1>0 DEF Look
<1>4. /\ job[j] \in Job /\ job[j].op = "react" /\ message[m].liked \in BOOLEAN
      /\ message[m].text # None /\ message[m].room = job[j].room /\ job[j].room \in Rooms
  BY <1>0, <1>1, <1>2, Kinds DEF JobSound, Unsent, TypeOK, Message
<1> DEFINE d == [job[j] EXCEPT !.pc = p, !.liked = message[m].liked]
<1>5. /\ d \in Job /\ d.pc = "emit" /\ d.op = "react" /\ d.id = m
      /\ d.room = job[j].room /\ d.liked = message[m].liked
  BY <1>0, <1>4 DEF Job
<1>6. job' = [job EXCEPT ![j] = d]
  BY <1>3
<1> HIDE DEF d
<1>7. /\ job' \in [Jobs -> Job]
      /\ \A i \in Jobs : job'[i] = IF i = j THEN d ELSE job[i]
      /\ \A i \in Jobs : job'[i].id = job[i].id
  BY <1>0, <1>1, <1>5, <1>6, JobStep
<1>8. TypeOK'
  BY <1>1, <1>2, <1>7 DEF TypeOK
<1>9. \A i \in Jobs : JobSound(i)' /\ TellsTrue(i)'
  <2> SUFFICES ASSUME NEW i \in Jobs PROVE JobSound(i)' /\ TellsTrue(i)'
    OBVIOUS
  <2>1. CASE i = j
    <3>1. JobSound(j)'
      BY <1>2, <1>4, <1>5, <1>7 DEF JobSound, Unsent
    <3>2. m \notin crossed => \A k \in Jobs \ {j} : job[k].id # m
      BY <1>0, <1>1, <1>2 DEF TellsTrue
    <3>3. TellsTrue(j)'
      BY <1>2, <1>5, <1>7, <3>2 DEF TellsTrue
    <3> QED
      BY <2>1, <3>1, <3>3
  <2>2. CASE i # j
    <3>1. job'[i] = job[i] /\ \A k \in Jobs : job'[k].id \in {job[k].id, None}
      BY <1>7, <2>2
    <3> QED
      BY <1>2, <3>1, OtherJob
  <2> QED
    BY <2>1, <2>2
<1>10. ShownInv' /\ OnlineHonest' /\ RoomsRestored' /\ GroupsInv'
  BY <1>1, <1>2 DEF ShownInv, OnlineHonest, RoomsRestored, GroupsInv, Hears, Open
<1>11. AgreeInv'
  <2> SUFFICES ASSUME NEW s \in Sockets, NEW n \in Messages, n \notin crossed,
                      socket[s].shows[n].text # None
               PROVE  InStep(s, n)'
    BY <1>2 DEF AgreeInv
  <2>1. InStep(s, n)
    BY <1>1 DEF AgreeInv
  <2>2. CASE n # m
    <3>1. \A i \in Jobs : job[i].id = n \/ job'[i].id = n => job'[i] = job[i]
      BY <1>0, <1>7, <2>2
    <3> QED
      BY <1>2, <2>1, <3>1, OtherView
  <2>3. CASE n = m
    <3> DEFINE shown == socket[s].shows[m]
    <3>1. \A i \in Jobs : job[i].id = m => i = j
      BY <1>0, <1>2, <2>3, Alone
    <3>2. shown.text = Stored(m).text /\ Stored(m) \in View /\ Stored(m).liked = message[m].liked
      BY <1>0, <1>1, <1>2, <2>1, <2>3, StoredView DEF InStep
    <3>3. shown \in View /\ shown.text # None
      BY <1>1, <2>3 DEF TypeOK, Socket
    <3>4. \A v : Heard(j, v)' = IF v.text = None THEN v ELSE [v EXCEPT !.liked = d.liked]
      BY <1>5, <1>7 DEF Heard
    <3>5. [shown EXCEPT !.liked = d.liked] = Stored(m)
      BY <1>4, <1>5, <3>2, <3>3 DEF View
    <3>6. Heard(j, shown)' = Stored(m) /\ Stored(m)' = Stored(m) /\ socket'[s].shows[m] = shown
      BY <1>2, <3>3, <3>4, <3>5 DEF Stored
    <3>7. \A i \in Jobs : job'[i].id = m => i = j /\ job'[i].pc = "emit"
      BY <1>5, <1>7, <3>1
    <3> QED
      BY <1>0, <1>5, <1>7, <2>3, <3>4, <3>6, <3>7 DEF InStep
  <2> QED
    BY <2>2, <2>3
<1> QED
  BY <1>8, <1>9, <1>10, <1>11 DEF IInv

\* A request tells of its write.
LEMMA EmitInv ==
  ASSUME IInv, NEW j \in Jobs, Emit(j)
  PROVE  IInv'
<1>0. PICK m \in Messages : m = job[j].id
  BY Kinds DEF Emit
<1>1. /\ TypeOK /\ ShownInv /\ AgreeInv /\ GroupsInv /\ OnlineHonest /\ RoomsRestored
      /\ JobSound(j) /\ TellsTrue(j)
  BY DEF IInv
<1>2. /\ job[j].pc = "emit" /\ job' = [job EXCEPT ![j] = Idle]
      /\ UNCHANGED <<group, message, online, told, due, requests, crossed>>
  BY DEF Emit
<1>3. /\ job[j].op \in {"send", "edit", "delete", "react"} /\ job[j].room \in Rooms
      /\ message[m].text # None /\ message[m].room = job[j].room
  BY <1>0, <1>1, <1>2, Kinds DEF JobSound, Unsent
<1>4. /\ job' \in [Jobs -> Job]
      /\ \A i \in Jobs : job'[i] = IF i = j THEN Idle ELSE job[i]
      /\ \A i \in Jobs : job'[i].id \in {job[i].id, None}
  BY <1>1, <1>2, JobStep, FirstRecords
<1>5. \A s \in Sockets, v \in View : Heard(j, v) \in View
  BY <1>1, <1>3, HeardView
<1>6. \A s \in Sockets :
        /\ socket'[s] \in Socket
        /\ socket'[s].pc = socket[s].pc /\ socket'[s].rooms = socket[s].rooms
        /\ \A n \in Messages :
             socket'[s].shows[n] = IF n = m /\ s \in Audience(j) THEN Heard(j, socket[s].shows[n])
                                   ELSE socket[s].shows[n]
  <2> SUFFICES ASSUME NEW s \in Sockets
               PROVE  /\ socket'[s] \in Socket
                      /\ socket'[s].pc = socket[s].pc /\ socket'[s].rooms = socket[s].rooms
                      /\ \A n \in Messages :
                           socket'[s].shows[n] =
                             IF n = m /\ s \in Audience(j) THEN Heard(j, socket[s].shows[n])
                             ELSE socket[s].shows[n]
    OBVIOUS
  <2>1. socket[s] \in Socket /\ socket[s].shows \in [Messages -> View]
    BY <1>1 DEF TypeOK, Socket
  <2>2. CASE s \notin Audience(j)
    <3>1. socket'[s] = socket[s]
      BY <2>2 DEF Emit
    <3> QED
      BY <2>1, <2>2, <3>1
  <2>3. CASE s \in Audience(j)
    <3> DEFINE w == [socket[s].shows EXCEPT ![m] = Heard(j, @)]
    <3>1. socket'[s] = [socket[s] EXCEPT !.shows = w]
      BY <1>0, <2>3 DEF Emit
    <3>2. /\ w \in [Messages -> View]
          /\ \A n \in Messages : w[n] = IF n = m THEN Heard(j, socket[s].shows[n])
                                        ELSE socket[s].shows[n]
      BY <1>5, <2>1
    <3> HIDE DEF w
    <3> QED
      BY <2>1, <2>3, <3>1, <3>2 DEF Socket
  <2> QED
    BY <2>2, <2>3
<1>7. socket' \in [Sockets -> Socket]
  <2>1. socket' = [s \in Sockets |-> socket'[s]]
    BY DEF Emit
  <2> QED
    BY <1>6, <2>1
<1>8. \A s \in Sockets : \A r : Hears(s, r)' = Hears(s, r)
  BY <1>6 DEF Hears
<1>9. \A s \in Sockets : s \in Audience(j) <=> Hears(s, message[m].room)
  BY <1>3 DEF Audience
<1>10. TypeOK'
  BY <1>1, <1>2, <1>4, <1>7 DEF TypeOK
<1>11. \A i \in Jobs : JobSound(i)' /\ TellsTrue(i)'
  <2> SUFFICES ASSUME NEW i \in Jobs PROVE JobSound(i)' /\ TellsTrue(i)'
    OBVIOUS
  <2>1. CASE i = j
    BY <1>4, <2>1, FirstRecords, Parameters DEF JobSound, TellsTrue, Unsent
  <2>2. CASE i # j
    <3>1. job'[i] = job[i]
      BY <1>4, <2>2
    <3> QED
      BY <1>2, <1>4, <3>1, OtherJob
  <2> QED
    BY <2>1, <2>2
<1>12. ShownInv'
  <2> SUFFICES ASSUME NEW s \in Sockets, NEW n \in Messages, socket'[s].shows[n].text # None
               PROVE  /\ message[n].text # None /\ message[n].room \in Rooms
                      /\ Hears(s, message[n].room)
    BY <1>2, <1>8 DEF ShownInv
  <2>1. CASE n = m /\ s \in Audience(j)
    BY <1>3, <1>9, <2>1
  <2>2. CASE ~ (n = m /\ s \in Audience(j))
    <3>1. socket[s].shows[n].text # None
      BY <1>6, <2>2
    <3> QED
      BY <1>1, <3>1 DEF ShownInv
  <2> QED
    BY <2>1, <2>2
<1>13. AgreeInv'
  <2> SUFFICES ASSUME NEW s \in Sockets, NEW n \in Messages, n \notin crossed,
                      socket'[s].shows[n].text # None
               PROVE  InStep(s, n)'
    BY <1>2 DEF AgreeInv
  <2>1. CASE n # m
    <3>1. \A i \in Jobs : job[i].id = n \/ job'[i].id = n => job'[i] = job[i]
      BY <1>0, <1>4, <2>1, FirstRecords, Parameters
    <3>2. socket'[s].shows[n] = socket[s].shows[n] /\ InStep(s, n)
      BY <1>1, <1>6, <2>1 DEF AgreeInv
    <3> QED
      BY <1>2, <3>1, <3>2, OtherView
  <2>2. CASE n = m
    <3> DEFINE shown == socket[s].shows[m]
    <3>1. \A i \in Jobs : job'[i].id # m
      BY <1>0, <1>2, <1>4, <2>2, Alone, FirstRecords, Parameters
    <3>2. shown \in View /\ Stored(m) \in View /\ Stored(m)' = Stored(m)
      BY <1>1, <1>2, StoredView DEF TypeOK, Socket, Stored
    <3>3. CASE shown.text # None
      <4>1. s \in Audience(j)
        BY <1>1, <1>9, <3>3 DEF ShownInv
      <4>2. Heard(j, shown) = Stored(m)
        BY <1>0, <1>1, <1>2, <2>2, <3>3 DEF AgreeInv, InStep
      <4> QED
        BY <1>6, <2>2, <3>1, <3>2, <4>1, <4>2 DEF InStep
    <3>4. CASE shown.text = None
      <4>1. s \in Audience(j) /\ Heard(j, shown).text # None
        BY <1>6, <2>2, <3>4
      <4>2. job[j].op = "send"
        BY <1>1, <1>3, <3>2, <3>4, <4>1, HeardView
      <4>3. message[m].text = job[j].text /\ message[m].liked = FALSE /\ ~ message[m].deleted
        BY <1>0, <1>1, <1>2, <2>2, <4>2 DEF TellsTrue
      <4>4. Stored(m).text = job[j].text /\ Stored(m).liked = FALSE
        BY <1>1, <4>3, StoredView
      <4>5. Heard(j, shown) \in View /\ Heard(j, shown).text = job[j].text
            /\ Heard(j, shown).liked = FALSE
        BY <1>1, <1>3, <3>2, <4>2, HeardView
      <4>6. Heard(j, shown) = Stored(m)
        BY <3>2, <4>4, <4>5, SameView
      <4> QED
        BY <1>6, <2>2, <3>1, <3>2, <4>1, <4>6 DEF InStep
    <3> QED
      BY <3>3, <3>4
  <2> QED
    BY <2>1, <2>2
<1>14. OnlineHonest' /\ RoomsRestored' /\ GroupsInv'
  BY <1>1, <1>2, <1>6 DEF OnlineHonest, RoomsRestored, GroupsInv, Open
<1> QED
  BY <1>10, <1>11, <1>12, <1>13, <1>14 DEF IInv

\* A request fails.
LEMMA JobFailsInv ==
  ASSUME IInv, NEW j \in Jobs, JobFails(j)
  PROVE  IInv'
<1>0. PICK m \in Messages : m = job[j].id
  BY Kinds DEF JobFails
<1>1. /\ TypeOK /\ ShownInv /\ AgreeInv /\ GroupsInv /\ OnlineHonest /\ RoomsRestored
  BY DEF IInv
<1>2. /\ job[j].pc \in {"write", "look"} /\ job' = [job EXCEPT ![j] = Idle]
      /\ crossed \subseteq crossed' /\ crossed' \subseteq crossed \cup {m}
      /\ m \notin crossed' => job[j].pc = "write"
      /\ UNCHANGED <<group, message, socket, online, told, due, requests>>
  BY <1>0 DEF JobFails
<1>3. /\ job' \in [Jobs -> Job]
      /\ \A i \in Jobs : job'[i] = IF i = j THEN Idle ELSE job[i]
      /\ \A i \in Jobs : job'[i].id \in {job[i].id, None}
  BY <1>1, <1>2, JobStep, FirstRecords
<1>4. TypeOK'
  BY <1>1, <1>2, <1>3 DEF TypeOK
<1>5. \A i \in Jobs : JobSound(i)' /\ TellsTrue(i)'
  <2> SUFFICES ASSUME NEW i \in Jobs PROVE JobSound(i)' /\ TellsTrue(i)'
    OBVIOUS
  <2>1. CASE i = j
    BY <1>3, <2>1, FirstRecords, Parameters DEF JobSound, TellsTrue, Unsent
  <2>2. CASE i # j
    <3>1. job'[i] = job[i]
      BY <1>3, <2>2
    <3> QED
      BY <1>2, <1>3, <3>1, OtherJob
  <2> QED
    BY <2>1, <2>2
<1>6. ShownInv' /\ OnlineHonest' /\ RoomsRestored' /\ GroupsInv'
  BY <1>1, <1>2 DEF ShownInv, OnlineHonest, RoomsRestored, GroupsInv, Hears, Open
<1>7. AgreeInv'
  <2> SUFFICES ASSUME NEW s \in Sockets, NEW n \in Messages, n \notin crossed',
                      socket[s].shows[n].text # None
               PROVE  InStep(s, n)'
    BY <1>2 DEF AgreeInv
  <2>1. InStep(s, n) /\ n \notin crossed
    BY <1>1, <1>2 DEF AgreeInv
  <2>2. CASE n # m
    <3>1. \A i \in Jobs : job[i].id = n \/ job'[i].id = n => job'[i] = job[i]
      BY <1>0, <1>3, <2>2, FirstRecords, Parameters
    <3> QED
      BY <1>2, <2>1, <3>1, OtherView
  <2>3. CASE n = m
    <3>1. \A i \in Jobs : job'[i].id # m
      BY <1>0, <1>2, <1>3, <2>1, <2>3, Alone, FirstRecords, Parameters
    <3>2. socket[s].shows[m] = Stored(m) /\ Stored(m)' = Stored(m)
      BY <1>0, <1>2, <2>1, <2>3 DEF InStep, Stored
    <3> QED
      BY <1>2, <2>3, <3>1, <3>2 DEF InStep
  <2> QED
    BY <2>2, <2>3
<1> QED
  BY <1>4, <1>5, <1>6, <1>7 DEF IInv

\* The server stops and starts again.
LEMMA RestartInv ==
  ASSUME IInv, Restart
  PROVE  IInv'
<1>1. /\ TypeOK /\ GroupsInv
      /\ socket' = [s \in Sockets |-> Closed] /\ online' = {} /\ told' = FALSE
      /\ due' = [s \in Sockets |-> {}] /\ job' = [j \in Jobs |-> Idle]
      /\ UNCHANGED <<group, message, requests, crossed>>
  BY DEF IInv, Restart
<1>2. TypeOK'
  BY <1>1, FirstRecords DEF TypeOK
<1>3. \A j \in Jobs : JobSound(j)' /\ TellsTrue(j)'
  BY <1>1, FirstRecords, Parameters DEF JobSound, TellsTrue, Unsent
<1>4. ShownInv' /\ AgreeInv'
  BY <1>1, FirstRecords DEF ShownInv, AgreeInv
<1>5. GroupsInv' /\ OnlineHonest' /\ RoomsRestored'
  BY <1>1, FirstRecords DEF GroupsInv, OnlineHonest, RoomsRestored
<1> QED
  BY <1>2, <1>3, <1>4, <1>5 DEF IInv

-----------------------------------------------------------------------------
(* The invariant and what follows.                                          *)

\* Nothing is there at first.
LEMMA InitIInv == Init => IInv
<1> SUFFICES ASSUME Init PROVE IInv
  OBVIOUS
<1>1. /\ group = [g \in Groups |-> [state |-> "absent", owner |-> FALSE, members |-> {}]]
      /\ message = [m \in Messages |-> NoMessage] /\ socket = [s \in Sockets |-> Closed]
      /\ online = {} /\ told = FALSE /\ due = [s \in Sockets |-> {}]
      /\ job = [j \in Jobs |-> Idle] /\ requests = 0 /\ crossed = {}
  BY DEF Init
<1>2. TypeOK
  <2>1. group \in [Groups -> Group]
    BY <1>1 DEF Group
  <2>2. requests \in 0..MaxRequests
    BY <1>1, Parameters
  <2> QED
    BY <1>1, <2>1, <2>2, FirstRecords DEF TypeOK
<1>3. \A j \in Jobs : JobSound(j) /\ TellsTrue(j)
  BY <1>1, FirstRecords, Parameters DEF JobSound, TellsTrue, Unsent
<1>4. ShownInv /\ AgreeInv
  BY <1>1, FirstRecords DEF ShownInv, AgreeInv
<1>5. GroupsInv /\ OnlineHonest /\ RoomsRestored
  BY <1>1, FirstRecords DEF GroupsInv, OnlineHonest, RoomsRestored
<1> QED
  BY <1>2, <1>3, <1>4, <1>5 DEF IInv

\* Every step keeps the invariant.
LEMMA NextIInv == IInv /\ [Next]_vars => IInv'
<1> SUFFICES ASSUME IInv, [Next]_vars PROVE IInv'
  OBVIOUS
<1>1. ASSUME NEW s \in Sockets, Connect(s) \/ FinishConnect(s) \/ Disconnect(s) PROVE IInv'
  BY <1>1, ConnectInv, FinishConnectInv, DisconnectInv
<1>2. ASSUME NEW s \in Sockets, NEW g \in Groups, JoinGroup(s, g) \/ LeaveRoom(s, g) PROVE IInv'
  BY <1>2, JoinGroupInv, LeaveRoomInv
<1>3. ASSUME NEW s \in Sockets, NEW r \in Rooms, LoadHistory(s, r) PROVE IInv'
  BY <1>3, LoadHistoryInv
<1>4. ASSUME NEW g \in Groups, NEW ids \in SUBSET Colleagues,
             CreateGroup(g, ids) \/ UpdateGroup(g, ids)
      PROVE  IInv'
  BY <1>4, CreateGroupInv, UpdateGroupInv
<1>5. ASSUME NEW g \in Groups, ArchiveGroup(g) PROVE IInv'
  BY <1>5, ArchiveGroupInv
<1>6. ASSUME NEW g \in Groups, NEW c \in Colleagues, AddMember(g, c) \/ RemoveMember(g, c)
      PROVE  IInv'
  BY <1>6, MembersInv
<1>7. ASSUME NEW j \in Jobs, NEW m \in Messages, NEW r \in Rooms, NEW text \in Texts,
             Send(j, m, r, text)
      PROVE  IInv'
  BY <1>7, SendInv
<1>8. ASSUME NEW j \in Jobs, NEW m \in Messages, NEW text \in Texts, Edit(j, m, text)
      PROVE  IInv'
  BY <1>8, EditInv
<1>9. ASSUME NEW j \in Jobs, NEW m \in Messages, Delete(j, m) \/ React(j, m) PROVE IInv'
  BY <1>9, DeleteInv, ReactInv
<1>10. ASSUME NEW j \in Jobs, Write(j) \/ Look(j) \/ Emit(j) \/ JobFails(j) PROVE IInv'
  BY <1>10, WriteInv, LookInv, EmitInv, JobFailsInv
<1>11. ASSUME Restart PROVE IInv'
  BY <1>11, RestartInv
<1>12. ASSUME UNCHANGED vars PROVE IInv'
  <2>1. \A i \in Jobs : JobSound(i)' /\ TellsTrue(i)'
    BY <1>12, JobsSame DEF vars
  <2>2. \A i \in Jobs : \A v : Heard(i, v)' = Heard(i, v)
    BY <1>12 DEF Heard, vars
  <2>3. \A m \in Messages : Stored(m)' = Stored(m)
    BY <1>12 DEF Stored, vars
  <2>4. \A s \in Sockets, m \in Messages : InStep(s, m) => InStep(s, m)'
    BY <1>12, <2>2, <2>3 DEF InStep, vars
  <2>5. AgreeInv'
    BY <1>12, <2>4 DEF IInv, AgreeInv, vars
  <2>6. TypeOK' /\ ShownInv' /\ GroupsInv' /\ OnlineHonest' /\ RoomsRestored'
    BY <1>12 DEF IInv, TypeOK, ShownInv, GroupsInv, OnlineHonest, RoomsRestored, Hears, Open,
                 vars
  <2> QED
    BY <2>1, <2>5, <2>6 DEF IInv
<1> QED
  BY <1>1, <1>2, <1>3, <1>4, <1>5, <1>6, <1>7, <1>8, <1>9, <1>10, <1>11, <1>12 DEF Next

\* The inductive invariant holds of every behaviour of the chat.
LEMMA Invariance == Spec => []IInv
BY InitIInv, NextIInv, PTL DEF Spec

\* Every variable of the gateway, the tables and the requests keeps its type.
THEOREM TypeCorrect == Spec => []TypeOK
<1>1. IInv => TypeOK
  BY DEF IInv
<1> QED
  BY <1>1, Invariance, PTL

\* onlineStaff counts exactly the sockets that are connected, whatever look-up comes back late,
\* and once no connection is being set up the list sent last says the truth.
THEOREM HonestOnline == Spec => []OnlineHonest
<1>1. IInv => OnlineHonest
  BY DEF IInv
<1> QED
  BY <1>1, Invariance, PTL

\* An open socket is in the room of every open group that was there when it connected, unless
\* its page has left it or the look-up failed.
THEOREM RestoredRooms == Spec => []RoomsRestored
<1>1. IInv => RoomsRestored
  BY DEF IInv
<1> QED
  BY <1>1, Invariance, PTL

\* A tab at rest shows of a message what is stored, whatever connects, leaves, loads or tells in
\* between, unless two requests about the message overlapped or a look-up failed after a write.
THEOREM AgreeingTabs == Spec => []TabsAgree
<1>1. IInv => TabsAgree
  BY DEF IInv, AgreeInv, InStep, TabsAgree
<1> QED
  BY <1>1, Invariance, PTL

----------------------------------------------------------------------------
(* Sessions and presence: the staff's other module, Desk, for any number   *)
(* of accounts, of their sessions and of requests in flight.               *)
(*                                                                         *)
(* The sign-in sessions rest on what each request has found: while no two  *)
(* requests that mark sessions overlap, the one under way for an account   *)
(* knows what it will mark.  The presence list rests on nothing but the    *)
(* list and the heartbeats of the last two minutes.                        *)

\* The list and the heartbeats of the last two minutes name the same people and targets.
ListInv ==
    /\ DOMAIN presence \subseteq Staff /\ presence \in [DOMAIN presence -> Entry]
    /\ DOMAIN beat \subseteq DOMAIN presence
    /\ \A u \in DOMAIN beat : presence[u] = beat[u]
    /\ \A u \in DOMAIN presence : u \in DOMAIN beat <=> Fresh(presence[u])
    /\ beat \in [DOMAIN beat -> Entry]

\* What a request still has to do.
Lists == {<<>>, UserLogin, AdminLogin, UserLogOut, Heartbeat, ProfilePage,
          <<"open", "stamp">>, <<"open">>, <<"stamp">>, <<"close", "open">>, <<"touch", "stamp">>,
          <<"fill", "stampBack">>, <<"stampBack">>}

Paging(j) == task[j].todo \in {ProfilePage, <<"fill", "stampBack">>, <<"stampBack">>}

\* The sessions of an account, in the order of their days.
RowsOf(u) == sessions[u] \in Seq(Session) /\ Len(sessions[u]) <= MaxRows
InOrder(u) ==
    \A i, k \in 1..Len(sessions[u]) :
        i < k /\ sessions[u][i].day = "today" => sessions[u][k].day = "today"

\* A request is somebody's while it has calls to make, and what it has found or read still holds.
CallSound(j) ==
    LET d == task[j]
    IN  /\ d \in [who: Signers \cup {Nobody}, todo: Lists, row: 0..MaxRows, date: Days \cup {"never"}]
        /\ d.who = Nobody <=> d.todo = <<>>
        /\ d.who # Nobody => d.row <= Len(sessions[d.who])
        /\ d.todo = <<"touch", "stamp">> => d.row > 0
        /\ d.todo = <<"fill", "stampBack">> /\ d.date = "today" =>
              \A i \in 1..Len(sessions[d.who]) : sessions[d.who][i].day = "today"

\* Pages that look for sessions are under way one at a time.
CallsInv ==
    /\ DOMAIN sessions = Signers /\ \A u \in Signers : RowsOf(u) /\ InOrder(u)
    /\ lastLogin \in [Signers -> Days \cup {"never"}]
    /\ DOMAIN task = Tasks /\ \A j \in Tasks : CallSound(j)
    /\ \A i, k \in Tasks : Paging(i) /\ Paging(k) => i = k
    /\ overlapped \in [Signers -> BOOLEAN]

\* A request that will mark a session knows the sessions, unless it met another.
Ready(j) ==
    LET d == task[j]
    IN  /\ d.todo \in {<<"open", "stamp">>, <<"open">>} =>
              \A i \in OfToday(d.who) : sessions[d.who][i].current = FALSE
        /\ d.todo = <<"touch", "stamp">> => d.row = Len(sessions[d.who])
        /\ d.todo = <<"fill", "stampBack">> => sessions[d.who] = <<>>

\* While they are not crossed, one request marks the sessions of an account, and the latest one.
Marks(u) ==
    overlapped[u] = FALSE =>
        /\ \A i, k \in Tasks : task[i].who = u /\ Marking(i) /\ task[k].who = u /\ Marking(k) => i = k
        /\ \A i \in OfToday(u) : sessions[u][i].current => i = Len(sessions[u])
        /\ \A j \in Tasks : task[j].who = u => Ready(j)

MarksInv == \A u \in Signers : Marks(u)

\* The lists of calls by their first call, and what is left after it.
LEMMA ListFacts ==
    ASSUME NEW l \in Lists
    PROVE  /\ l # <<>> /\ Head(l) = "close" =>
                \/ l = UserLogin /\ Tail(l) = <<"open", "stamp">>
                \/ l = UserLogOut /\ Tail(l) = <<>>
                \/ l = <<"close", "open">> /\ Tail(l) = <<"open">>
           /\ l # <<>> /\ Head(l) = "open" =>
                \/ l = <<"open", "stamp">> /\ Tail(l) = <<"stamp">>
                \/ l = <<"open">> /\ Tail(l) = <<>>
           /\ l # <<>> /\ Head(l) = "stamp" =>
                \/ l = <<"stamp">> /\ Tail(l) = <<>>
                \/ l = AdminLogin /\ Tail(l) = <<"close", "open">>
           /\ l # <<>> /\ Head(l) = "find" => l = Heartbeat
           /\ l # <<>> /\ Head(l) = "touch" => l = <<"touch", "stamp">>
           /\ l # <<>> /\ Head(l) = "look" => l = ProfilePage
           /\ l # <<>> /\ Head(l) = "fill" => l = <<"fill", "stampBack">>
           /\ l # <<>> /\ Head(l) = "stampBack" => l = <<"stampBack">>
<1>1. /\ Head(UserLogin) = "close" /\ Tail(UserLogin) = <<"open", "stamp">>
      /\ Head(AdminLogin) = "stamp" /\ Tail(AdminLogin) = <<"close", "open">>
      /\ Head(UserLogOut) = "close" /\ Tail(UserLogOut) = <<>>
      /\ Head(Heartbeat) = "find" /\ Head(ProfilePage) = "look"
  BY DEF UserLogin, AdminLogin, UserLogOut, Heartbeat, ProfilePage
<1>2. /\ Head(<<"open", "stamp">>) = "open" /\ Tail(<<"open", "stamp">>) = <<"stamp">>
      /\ Head(<<"stamp">>) = "stamp" /\ Tail(<<"stamp">>) = <<>>
      /\ Head(<<"close", "open">>) = "close" /\ Tail(<<"close", "open">>) = <<"open">>
      /\ Head(<<"open">>) = "open" /\ Tail(<<"open">>) = <<>>
      /\ Head(<<"touch", "stamp">>) = "touch" /\ Head(<<"fill", "stampBack">>) = "fill"
      /\ Head(<<"stampBack">>) = "stampBack"
  OBVIOUS
<1> QED
  BY <1>1, <1>2, Zenon DEF Lists

\* Every list is one of calls, at most three.
LEMMA ListType == Lists \subseteq SeqOf(Calls, 3)
  BY DEF Lists, UserLogin, AdminLogin, UserLogOut, Heartbeat, ProfilePage,
         Calls, SeqOf

\* A list of calls that has marks to make is none of the others.
LEMMA ListKinds ==
    /\ \A l \in {<<"open", "stamp">>, <<"open">>, <<"touch", "stamp">>, <<"fill", "stampBack">>} :
          l \notin {<<>>, UserLogin, AdminLogin, UserLogOut, Heartbeat, ProfilePage, <<"stamp">>,
                    <<"close", "open">>, <<"stampBack">>}
    /\ \A l \in {<<"open", "stamp">>, <<"open">>} :
          l \notin {<<"touch", "stamp">>, <<"fill", "stampBack">>}
    /\ <<"touch", "stamp">> # <<"fill", "stampBack">>
    /\ \A l \in {<<>>, UserLogin, AdminLogin, UserLogOut, Heartbeat, <<"open", "stamp">>, <<"stamp">>,
                 <<"open">>, <<"close", "open">>, <<"touch", "stamp">>} :
          l \notin {ProfilePage, <<"fill", "stampBack">>, <<"stampBack">>}
  BY DEF UserLogin, AdminLogin, UserLogOut, Heartbeat, ProfilePage

\* Rows are a sequence, and read so.
LEMMA RowsType ==
    ASSUME NEW u \in Signers, RowsOf(u)
    PROVE  /\ DOMAIN sessions[u] = 1..Len(sessions[u]) /\ Len(sessions[u]) \in 0..MaxRows
           /\ sessions[u] \in SeqOf(Session, MaxRows)
           /\ \A i \in 1..Len(sessions[u]) : sessions[u][i] \in Session
<1>1. /\ DOMAIN sessions[u] = 1..Len(sessions[u]) /\ Len(sessions[u]) \in Nat
      /\ sessions[u] \in [1..Len(sessions[u]) -> Session]
  BY DEF RowsOf
<1> QED
  BY <1>1, DeskParameters DEF RowsOf, SeqOf

\* What is on the list of those at work has been heard of, and what has been heard of is fresh.
LEMMA ListStart == DeskInit => ListInv /\ PresenceHonest
<1> SUFFICES ASSUME DeskInit PROVE ListInv /\ PresenceHonest
  OBVIOUS
<1>1. DOMAIN presence = {} /\ DOMAIN beat = {}
  BY DEF DeskInit
<1>2. presence \in [DOMAIN presence -> Entry] /\ beat \in [DOMAIN beat -> Entry]
  BY <1>1 DEF DeskInit
<1> QED
  BY <1>1, <1>2 DEF DeskInit, ListInv, PresenceHonest

\* A person that is entered is fresh, and nobody else becomes so.
LEMMA EnterKeeps ==
    ASSUME ListInv, NEW u \in Staff, NEW t \in Targets \cup {Nobody}, Enter(u, t)
    PROVE  ListInv'
<1> DEFINE e == [target |-> t, age |-> 0]
           more == With(presence, u, e)
<1>1. e \in Entry /\ Fresh(e)
  BY DeskParameters DEF Entry, Ages, Fresh
<1>2. /\ DOMAIN more = DOMAIN presence \cup {u}
      /\ more[u] = e
      /\ \A v \in DOMAIN presence : v # u => more[v] = presence[v]
  BY DEF With
<1>3. /\ beat' = [v \in DOMAIN beat \cup {u} |-> IF v = u THEN e ELSE beat[v]]
      /\ presence' = [v \in {w \in DOMAIN more : Fresh(more[w])} |-> more[v]]
  BY DEF Enter, With, Cleaned, Restrict
<1> HIDE DEF e, more
<1>4. \A v \in DOMAIN presence' : /\ v \in DOMAIN more /\ Fresh(more[v]) /\ presence'[v] = more[v]
                                  /\ v = u \/ v \in DOMAIN presence
  BY <1>2, <1>3
<1>5. \A v \in DOMAIN presence' : presence'[v] \in Entry /\ v \in Staff /\ Fresh(presence'[v])
  BY <1>1, <1>2, <1>4 DEF ListInv
<1>6. \A v \in DOMAIN presence' : v \in DOMAIN beat'
  BY <1>2, <1>3, <1>4 DEF ListInv
<1>7. \A v \in DOMAIN beat' : /\ v \in DOMAIN presence' /\ presence'[v] = beat'[v]
                              /\ beat'[v] \in Entry
  BY <1>1, <1>2, <1>3 DEF ListInv
<1>8. presence' \in [DOMAIN presence' -> Entry] /\ beat' \in [DOMAIN beat' -> Entry]
  BY <1>3, <1>5, <1>7
<1> QED
  BY <1>5, <1>6, <1>7, <1>8 DEF ListInv

\* An answer names those who are fresh, which are those who have been heard of.
LEMMA AnswerHonest ==
    ASSUME ListInv, NEW c \in Staff, NEW t \in Targets \cup {Nobody}, GetActivePresences(c, t)
    PROVE  ListInv' /\ PresenceHonest' /\ answer' \in Answer
<1> DEFINE list == Cleaned(presence)
           seen == Visible(c, list)
<1>1. /\ DOMAIN list = {v \in DOMAIN presence : Fresh(presence[v])}
      /\ \A v \in DOMAIN list : list[v] = presence[v]
      /\ list = [v \in DOMAIN list |-> list[v]]
  BY DEF Cleaned, Restrict
<1>2. presence' = list /\ beat' = beat
  BY DEF GetActivePresences
<1>3. answer' = [caller |-> c, target |-> t, active |-> seen,
                 collisions |-> IF t = Nobody THEN {} ELSE {u \in seen \ {c} : list[u].target = t}]
  BY DEF GetActivePresences
<1>4. seen = IF c \in Owners THEN DOMAIN list ELSE DOMAIN list \ Owners
  BY DEF Visible
<1> HIDE DEF list, seen
<1>5. DOMAIN list = DOMAIN beat /\ \A v \in DOMAIN beat : list[v] = beat[v]
  BY <1>1 DEF ListInv
<1>6. ListInv'
  <2>1. list \in [DOMAIN list -> Entry]
    BY <1>1 DEF ListInv
  <2> QED
    BY <1>1, <1>2, <1>5, <2>1 DEF ListInv
<1>7. seen \subseteq Staff
  BY <1>4, <1>5 DEF ListInv
<1>8. answer' \in Answer
  BY <1>3, <1>7 DEF Answer
<1>9. /\ answer'.caller = c /\ answer'.target = t /\ answer'.active = seen
      /\ answer'.collisions = IF t = Nobody THEN {} ELSE {u \in seen \ {c} : list[u].target = t}
  BY <1>3
<1>10. PresenceHonest'
  <2>1. answer'.active = DOMAIN beat' \ (IF answer'.caller \in Owners THEN {} ELSE Owners)
    BY <1>2, <1>4, <1>5, <1>9
  <2>2. \A v \in seen : list[v].target = beat'[v].target
    BY <1>2, <1>4, <1>5
  <2>3. answer'.collisions = {v \in answer'.active \ {answer'.caller} :
                                 answer'.target # Nobody /\ beat'[v].target = answer'.target}
    BY <1>9, <2>2
  <2> QED
    BY <2>1, <2>3 DEF PresenceHonest
<1> QED
  BY <1>6, <1>8, <1>10

\* What grows stale is no longer heard of, and no longer fresh.
LEMMA MinuteKeeps ==
    ASSUME ListInv, Minute
    PROVE  ListInv'
<1>1. \A x \in Entry : x.age \in 0..TwoMinutes + 1 /\ x.target \in Targets \cup {Nobody}
  BY DEF Entry, Ages
<1>2. /\ DOMAIN presence' = DOMAIN presence
      /\ \A v \in DOMAIN presence :
           presence'[v] = [presence[v] EXCEPT !.age = IF @ > TwoMinutes THEN @ ELSE @ + 1]
      /\ presence' = [v \in DOMAIN presence' |-> presence'[v]]
  BY DEF Minute, Older
<1>3. /\ DOMAIN beat' = {v \in DOMAIN beat : beat[v].age < TwoMinutes}
      /\ \A v \in DOMAIN beat' :
           beat'[v] = [beat[v] EXCEPT !.age = IF @ > TwoMinutes THEN @ ELSE @ + 1]
      /\ beat' = [v \in DOMAIN beat' |-> beat'[v]]
  BY DEF Minute, Older
<1>4. ASSUME NEW x \in Entry
      PROVE  /\ [x EXCEPT !.age = IF @ > TwoMinutes THEN @ ELSE @ + 1] \in Entry
             /\ Fresh([x EXCEPT !.age = IF @ > TwoMinutes THEN @ ELSE @ + 1])
                  <=> x.age < TwoMinutes
  <2>1. x.age \in Nat /\ TwoMinutes \in Nat /\ x.age <= TwoMinutes + 1
    BY <1>1, DeskParameters
  <2>2. x.age > TwoMinutes \/ x.age + 1 \in Ages
    BY <2>1 DEF Ages
  <2>3. x = [target |-> x.target, age |-> x.age] /\ x.target \in Targets \cup {Nobody} /\ x.age \in Ages
    BY DEF Entry
  <2>4. CASE x.age > TwoMinutes
    <3>1. [x EXCEPT !.age = IF @ > TwoMinutes THEN @ ELSE @ + 1] = x
      BY <2>3, <2>4
    <3> QED
      BY <3>1, <2>1, <2>4 DEF Fresh
  <2>5. CASE ~ x.age > TwoMinutes
    <3>1. [x EXCEPT !.age = IF @ > TwoMinutes THEN @ ELSE @ + 1]
            = [target |-> x.target, age |-> x.age + 1]
      BY <2>3, <2>5
    <3>2. [target |-> x.target, age |-> x.age + 1] \in Entry
      BY <2>2, <2>3, <2>5 DEF Entry
    <3> QED
      BY <3>1, <3>2, <2>1 DEF Fresh
  <2> QED
    BY <2>4, <2>5
<1>5. \A v \in DOMAIN presence : presence[v] \in Entry
  BY DEF ListInv
<1>6. \A v \in DOMAIN presence' : presence'[v] \in Entry
  BY <1>2, <1>4, <1>5
<1>7. \A v \in DOMAIN beat' : v \in DOMAIN presence' /\ presence'[v] = beat'[v]
  BY <1>2, <1>3 DEF ListInv
<1>8. \A v \in DOMAIN presence' : v \in DOMAIN beat' <=> Fresh(presence'[v])
  <2> TAKE v \in DOMAIN presence'
  <2>1. Fresh(presence'[v]) <=> presence[v].age < TwoMinutes
    BY <1>2, <1>4, <1>5
  <2>2. presence[v].age < TwoMinutes => Fresh(presence[v])
    BY <1>1, <1>2, <1>5, DeskParameters DEF Fresh
  <2> QED
    BY <1>2, <1>3, <2>1, <2>2 DEF ListInv
<1>9. presence' \in [DOMAIN presence' -> Entry] /\ beat' \in [DOMAIN beat' -> Entry]
  BY <1>2, <1>3, <1>6, <1>7
<1> QED
  BY <1>2, <1>6, <1>7, <1>8, <1>9 DEF ListInv

\* The list and the last answer.
HonestInv == ListInv /\ PresenceHonest /\ answer \in Answer \cup {NoAnswer}

\* Nothing was asked, and the list is as it was.
LEMMA ListApart ==
    ASSUME ListInv, presence' = presence, beat' = beat, answer' = NoAnswer
    PROVE  HonestInv'
  BY DEF HonestInv, ListInv, PresenceHonest

\* Every step keeps the list and its answers honest.
LEMMA HonestStep ==
    ASSUME HonestInv, [DeskNext]_deskVars
    PROVE  HonestInv'
<1>1. ListInv
  BY DEF HonestInv
<1>2. CASE UNCHANGED deskVars
  BY <1>2 DEF deskVars, HonestInv, ListInv, PresenceHonest
<1>3. ASSUME NEW j \in Tasks, NEW u \in Signers,
             SignIn(j, u) \/ SignOut(j, u) \/ OpenProfile(j, u)
      PROVE  HonestInv'
  BY <1>1, <1>3, ListApart DEF SignIn, SignOut, OpenProfile, StartTask
<1>4. ASSUME NEW j \in Tasks, \/ CloseAll(j) \/ OpenOne(j) \/ Stamp(j) \/ Find(j) \/ Touch(j)
                              \/ LookUp(j) \/ Fill(j) \/ StampBack(j) \/ TaskFails(j)
      PROVE  HonestInv'
  <2>1. presence' = presence /\ beat' = beat /\ answer' = NoAnswer
    BY <1>4, Zenon DEF CloseAll, OpenOne, Stamp, Find, Touch, LookUp, Fill, StampBack,
                       TaskFails, Goes
  <2> QED
    BY <1>1, <2>1, ListApart
<1>5. ASSUME NEW u \in Staff, NEW t \in Targets \cup {Nobody}, SendHeartbeat(u, t)
      PROVE  HonestInv'
  <2>1. Enter(u, t) /\ answer' = NoAnswer
    BY <1>5 DEF SendHeartbeat, StartTask
  <2>2. ListInv'
    BY <1>1, <2>1, EnterKeeps
  <2> QED
    BY <2>1, <2>2 DEF HonestInv, PresenceHonest
<1>6. ASSUME NEW u \in Staff, NEW t \in Targets \cup {Nobody}, GetActivePresences(u, t)
      PROVE  HonestInv'
  BY <1>1, <1>6, AnswerHonest DEF HonestInv
<1>7. CASE Minute
  <2>1. ListInv' /\ answer' = NoAnswer
    BY <1>1, <1>7, MinuteKeeps DEF Minute
  <2> QED
    BY <2>1 DEF HonestInv, PresenceHonest
<1>8. CASE Midnight
  BY <1>1, <1>8, ListApart DEF Midnight
<1>9. CASE ServerRestart
  <2>1. DOMAIN presence' = {} /\ DOMAIN beat' = {} /\ answer' = NoAnswer
    BY <1>9 DEF ServerRestart
  <2>2. presence' \in [DOMAIN presence' -> Entry] /\ beat' \in [DOMAIN beat' -> Entry]
    BY <1>9, <2>1 DEF ServerRestart
  <2>3. ListInv'
    BY <2>1, <2>2 DEF ListInv
  <2> QED
    BY <2>1, <2>3 DEF HonestInv, PresenceHonest
<1> QED
  BY <1>2, <1>3, <1>4, <1>5, <1>6, <1>7, <1>8, <1>9 DEF DeskNext

\* Whoever asks is shown those who sent a heartbeat in the last two minutes, the owner hidden from
\* everybody else, and the collisions are the others at the same target.
THEOREM HonestPresence == DeskSpec => []PresenceHonest
<1>1. DeskInit => HonestInv
  BY ListStart DEF HonestInv, DeskInit
<1>2. HonestInv /\ [DeskNext]_deskVars => HonestInv'
  BY HonestStep
<1>3. HonestInv => PresenceHonest
  BY DEF HonestInv
<1> QED
  BY <1>1, <1>2, <1>3, PTL DEF DeskSpec

\* What one call does to the sessions of an account.
Shut(s)       == [i \in DOMAIN s |-> [s[i] EXCEPT !.current = FALSE]]
Touched(s, r) == [s EXCEPT ![r].current = TRUE]
Aged(s)       == [i \in DOMAIN s |-> [s[i] EXCEPT !.day = Past(@)]]

\* Closing keeps the days and marks none.
LEMMA RowsClosed ==
    ASSUME NEW s \in Seq(Session)
    PROVE  /\ Shut(s) \in Seq(Session) /\ Len(Shut(s)) = Len(s)
           /\ \A i \in 1..Len(s) : Shut(s)[i].day = s[i].day /\ Shut(s)[i].current = FALSE
<1> DEFINE t == Shut(s)
<1>1. DOMAIN s = 1..Len(s) /\ Len(s) \in Nat /\ \A i \in 1..Len(s) : s[i] \in Session
  BY ElementOfSeq, LenProperties
<1>2. \A x \in Session : /\ [x EXCEPT !.current = FALSE] \in Session
                         /\ [x EXCEPT !.current = FALSE].day = x.day
                         /\ [x EXCEPT !.current = FALSE].current = FALSE
  BY DEF Session
<1>3. t \in [1..Len(s) -> Session] /\ \A i \in 1..Len(s) : t[i] = [s[i] EXCEPT !.current = FALSE]
  BY <1>1, <1>2 DEF Shut
<1> HIDE DEF t
<1>4. t \in Seq(Session) /\ Len(t) = Len(s)
  BY <1>1, <1>3, SeqDef, LenProperties
<1>5. ASSUME NEW i \in 1..Len(s) PROVE t[i].day = s[i].day /\ t[i].current = FALSE
  <2>1. s[i] \in Session /\ t[i] = [s[i] EXCEPT !.current = FALSE]
    BY <1>1, <1>3
  <2> QED
    BY <1>2, <2>1, Zenon
<1> QED
  BY <1>4, <1>5 DEF t

\* A new session comes last.
LEMMA RowsOpened ==
    ASSUME NEW s \in Seq(Session), NEW x \in Session
    PROVE  /\ Append(s, x) \in Seq(Session) /\ Len(Append(s, x)) = Len(s) + 1
           /\ \A i \in 1..Len(s) : Append(s, x)[i] = s[i]
           /\ Append(s, x)[Len(s) + 1] = x
  BY AppendProperties

\* Marking one session leaves the others.
LEMMA RowsTouched ==
    ASSUME NEW s \in Seq(Session), NEW r \in 1..Len(s)
    PROVE  /\ Touched(s, r) \in Seq(Session) /\ Len(Touched(s, r)) = Len(s)
           /\ \A i \in 1..Len(s) : /\ Touched(s, r)[i].day = s[i].day
                                   /\ i # r => Touched(s, r)[i] = s[i]
<1> DEFINE t == Touched(s, r)
<1>1. DOMAIN s = 1..Len(s) /\ Len(s) \in Nat /\ \A i \in 1..Len(s) : s[i] \in Session
  BY ElementOfSeq, LenProperties
<1>2. [s[r] EXCEPT !.current = TRUE] \in Session /\ [s[r] EXCEPT !.current = TRUE].day = s[r].day
  BY <1>1 DEF Session
<1>3. t = [i \in 1..Len(s) |-> IF i = r THEN [s[r] EXCEPT !.current = TRUE] ELSE s[i]]
  BY <1>1 DEF Touched
<1> HIDE DEF t
<1>4. t \in Seq(Session) /\ Len(t) = Len(s)
  BY <1>1, <1>2, <1>3, SeqDef, LenProperties
<1>5. \A i \in 1..Len(s) : t[i].day = s[i].day /\ (i # r => t[i] = s[i])
  BY <1>2, <1>3
<1> QED
  BY <1>4, <1>5 DEF t

\* A made-up session comes first.
LEMMA RowsFilled ==
    ASSUME NEW s \in Seq(Session), NEW x \in Session
    PROVE  /\ <<x>> \o s \in Seq(Session) /\ Len(<<x>> \o s) = Len(s) + 1
           /\ (<<x>> \o s)[1] = x
           /\ \A i \in 2..Len(s) + 1 : (<<x>> \o s)[i] = s[i - 1] /\ i - 1 \in 1..Len(s)
<1>1. <<x>> \in Seq(Session) /\ Len(<<x>>) = 1 /\ <<x>>[1] = x /\ Len(s) \in Nat
  OBVIOUS
<1> QED
  BY <1>1, ConcatProperties

\* Past midnight none is of today.
LEMMA RowsAged ==
    ASSUME NEW s \in Seq(Session)
    PROVE  /\ Aged(s) \in Seq(Session) /\ Len(Aged(s)) = Len(s)
           /\ \A i \in 1..Len(s) : Aged(s)[i].day # "today"
<1> DEFINE t == Aged(s)
<1>1. DOMAIN s = 1..Len(s) /\ Len(s) \in Nat /\ \A i \in 1..Len(s) : s[i] \in Session
  BY ElementOfSeq, LenProperties
<1>2. \A x \in Session : /\ [x EXCEPT !.day = Past(@)] \in Session
                         /\ [x EXCEPT !.day = Past(@)].day # "today"
  BY DEF Session, Days, Past
<1>3. t \in [1..Len(s) -> Session] /\ \A i \in 1..Len(s) : t[i] = [s[i] EXCEPT !.day = Past(@)]
  BY <1>1, <1>2 DEF Aged
<1> HIDE DEF t
<1>4. t \in Seq(Session) /\ Len(t) = Len(s)
  BY <1>1, <1>3, SeqDef, LenProperties
<1>5. \A i \in 1..Len(s) : t[i].day # "today"
  BY <1>1, <1>2, <1>3
<1> QED
  BY <1>4, <1>5 DEF t

\* What a request is when a call of its has ended.
LEMMA GoesFacts ==
    ASSUME CallsInv, NEW j \in Tasks, NEW l \in Lists, Goes(j, l)
    PROVE  /\ DOMAIN task' = Tasks /\ \A i \in Tasks : i # j => task'[i] = task[i]
           /\ task'[j] \in [who: Signers \cup {Nobody}, todo: Lists, row: 0..MaxRows,
                            date: Days \cup {"never"}]
           /\ task'[j].todo = l
           /\ l = <<>> => task'[j] = NoTask
           /\ l # <<>> => /\ task'[j].who = task[j].who /\ task'[j].row = task[j].row
                          /\ task'[j].date = task[j].date
<1>1. task[j] \in [who: Signers \cup {Nobody}, todo: Lists, row: 0..MaxRows, date: Days \cup {"never"}]
  BY DEF CallsInv, CallSound
<1>2. task' = [task EXCEPT ![j] = IF l = <<>> THEN NoTask ELSE [task[j] EXCEPT !.todo = l]]
  BY DEF Goes
<1>3. DOMAIN task = Tasks
  BY DEF CallsInv
<1>4. <<>> \in Lists /\ 0 \in 0..MaxRows
  BY DeskParameters DEF Lists
<1>5. NoTask \in [who: Signers \cup {Nobody}, todo: Lists, row: 0..MaxRows, date: Days \cup {"never"}]
      /\ NoTask.todo = <<>>
  BY <1>4 DEF NoTask
<1> HIDE DEF Lists
<1> QED
  BY <1>1, <1>2, <1>3, <1>5

\* The sessions of no account grow fewer, and those that are all of today stay so.
Grown(u) ==
    /\ sessions'[u] \in Seq(Session)
    /\ Len(sessions'[u]) <= MaxRows /\ Len(sessions[u]) <= Len(sessions'[u])
    /\ (\A i \in 1..Len(sessions[u]) : sessions[u][i].day = "today") =>
          \A i \in 1..Len(sessions'[u]) : sessions'[u][i].day = "today"

\* One request goes on, and the sessions grow.
LEMMA CallsKept ==
    ASSUME CallsInv, NEW j \in Tasks, DOMAIN task' = Tasks,
           \A i \in Tasks : i # j => task'[i] = task[i],
           DOMAIN sessions' = Signers, \A u \in Signers : Grown(u) /\ InOrder(u)',
           lastLogin' \in [Signers -> Days \cup {"never"}], overlapped' \in [Signers -> BOOLEAN],
           CallSound(j)', Paging(j)' => Paging(j) \/ \A i \in Tasks : i # j => ~ Paging(i)
    PROVE  CallsInv'
<1>1. \A u \in Signers : RowsOf(u)'
  BY DEF RowsOf, Grown
<1>2. ASSUME NEW i \in Tasks, i # j PROVE CallSound(i)'
  <2>1. CallSound(i) /\ task'[i] = task[i]
    BY <1>2 DEF CallsInv
  <2>2. task[i].who # Nobody => task[i].who \in Signers
    BY <2>1 DEF CallSound
  <2>3. task[i].todo = <<"fill", "stampBack">> => task[i].who # Nobody
    BY <2>1 DEF CallSound
  <2>4. task[i].who # Nobody =>
          /\ Len(sessions[task[i].who]) \in Nat /\ Len(sessions'[task[i].who]) \in Nat
          /\ task[i].row \in Nat
    BY <2>1, <2>2, LenProperties, DeskParameters DEF CallsInv, RowsOf, Grown, CallSound
  <2>5. task[i].who # Nobody => task[i].row <= Len(sessions'[task[i].who])
    BY <2>1, <2>2, <2>4 DEF CallSound, Grown
  <2>6. task[i].todo = <<"fill", "stampBack">> /\ task[i].date = "today" =>
          \A k \in 1..Len(sessions'[task[i].who]) : sessions'[task[i].who][k].day = "today"
    BY <2>1, <2>2, <2>3 DEF CallSound, Grown
  <2> QED
    BY <2>1, <2>5, <2>6 DEF CallSound
<1>3. \A i, k \in Tasks : Paging(i)' /\ Paging(k)' => i = k
  BY DEF CallsInv, Paging
<1> QED
  BY <1>1, <1>2, <1>3 DEF CallsInv

\* The same when no session is touched.
LEMMA CallsStill ==
    ASSUME CallsInv, NEW j \in Tasks, DOMAIN task' = Tasks,
           \A i \in Tasks : i # j => task'[i] = task[i], sessions' = sessions,
           lastLogin' \in [Signers -> Days \cup {"never"}], overlapped' \in [Signers -> BOOLEAN],
           CallSound(j)', Paging(j)' => Paging(j) \/ \A i \in Tasks : i # j => ~ Paging(i)
    PROVE  CallsInv'
<1>1. \A u \in Signers : Len(sessions[u]) \in Nat
  BY LenProperties DEF CallsInv, RowsOf
<1>2. \A u \in Signers : Grown(u) /\ InOrder(u)'
  BY <1>1 DEF CallsInv, RowsOf, InOrder, Grown
<1> QED
  BY <1>2, CallsKept DEF CallsInv

\* A request begins.
LEMMA CallsBegun ==
    ASSUME CallsInv, NEW j \in Tasks, NEW u \in Signers,
           NEW calls \in {UserLogin, AdminLogin, UserLogOut, Heartbeat, ProfilePage},
           StartTask(j, u, calls), calls = ProfilePage => \A i \in Tasks : ~ Paging(i)
    PROVE  /\ CallsInv'
           /\ task'[j].who = u /\ task'[j].todo = calls
           /\ \A i \in Tasks : i # j => task'[i] = task[i]
<1>1. task[j] = NoTask /\ DOMAIN task = Tasks
  BY DEF StartTask, CallsInv
<1>2. /\ DOMAIN task' = Tasks /\ \A i \in Tasks : i # j => task'[i] = task[i]
      /\ task'[j] = [who |-> u, todo |-> calls, row |-> 0, date |-> "never"]
  <2>1. task' = [task EXCEPT ![j] = [[task[j] EXCEPT !.who = u] EXCEPT !.todo = calls]]
    BY <1>1 DEF StartTask
  <2>2. [[NoTask EXCEPT !.who = u] EXCEPT !.todo = calls]
          = [who |-> u, todo |-> calls, row |-> 0, date |-> "never"]
    <3> DEFINE hers == [NoTask EXCEPT !.who = u]
    <3>1. hers = [who |-> u, todo |-> <<>>, row |-> 0, date |-> "never"]
      BY DEF NoTask
    <3> HIDE DEF hers
    <3>2. [hers EXCEPT !.todo = calls] = [who |-> u, todo |-> calls, row |-> 0, date |-> "never"]
      BY <3>1
    <3> QED
      BY <3>2 DEF hers
  <2> QED
    BY <1>1, <2>1, <2>2
<1>3. calls \in Lists /\ calls # <<>> /\ calls \notin {<<"touch", "stamp">>, <<"fill", "stampBack">>}
  BY ListKinds DEF Lists, UserLogin, AdminLogin, UserLogOut, Heartbeat, ProfilePage
<1>4. calls # ProfilePage => calls \notin {ProfilePage, <<"fill", "stampBack">>, <<"stampBack">>}
  BY ListKinds
<1>5. u # Nobody
  BY DeskParameters
<1>6. Len(sessions[u]) \in Nat /\ MaxRows \in Nat
  BY LenProperties, DeskParameters DEF CallsInv, RowsOf
<1> HIDE DEF Lists
<1>7. CallSound(j)'
  <2>1. task'[j] \in [who: Signers \cup {Nobody}, todo: Lists, row: 0..MaxRows, date: Days \cup {"never"}]
    BY <1>2, <1>3, <1>6
  <2>2. sessions' = sessions /\ task'[j].who = u /\ task'[j].todo = calls /\ task'[j].row = 0
    BY <1>2 DEF StartTask
  <2> QED
    BY <1>2, <1>3, <1>5, <1>6, <2>1, <2>2 DEF CallSound
<1>8. Paging(j)' => \A i \in Tasks : ~ Paging(i)
  BY <1>2, <1>4 DEF Paging
<1>9. /\ overlapped' \in [Signers -> BOOLEAN] /\ sessions' = sessions
      /\ lastLogin' \in [Signers -> Days \cup {"never"}]
  BY DEF StartTask, CallsInv, Overlaps
<1> QED
  BY <1>2, <1>7, <1>8, <1>9, CallsStill

\* A request that makes a call is somebody's.
LEMMA AtWork ==
    ASSUME CallsInv, NEW j \in Tasks, task[j].todo # <<>>
    PROVE  /\ task[j].who \in Signers /\ task[j].who # Nobody /\ task[j].todo \in Lists
           /\ sessions[task[j].who] \in Seq(Session) /\ Len(sessions[task[j].who]) \in Nat
           /\ DOMAIN sessions[task[j].who] = 1..Len(sessions[task[j].who])
           /\ \A i \in 1..Len(sessions[task[j].who]) : sessions[task[j].who][i] \in Session
           /\ Len(sessions[task[j].who]) <= MaxRows
           /\ InOrder(task[j].who)
<1>1. CallSound(j)
  BY DEF CallsInv
<1>2. task[j].who \in Signers /\ task[j].who # Nobody /\ task[j].todo \in Lists
  BY <1>1 DEF CallSound
<1> QED
  BY <1>2, LenProperties, ElementOfSeq DEF CallsInv, RowsOf

\* A request goes on, with nothing to find any more.
LEMMA CallsGone ==
    ASSUME CallsInv, NEW j \in Tasks, NEW l \in Lists, Goes(j, l), task[j].todo # <<>>,
           l \notin {<<"touch", "stamp">>, <<"fill", "stampBack">>},
           l \in {ProfilePage, <<"fill", "stampBack">>, <<"stampBack">>} => Paging(j),
           DOMAIN sessions' = Signers, \A u \in Signers : Grown(u) /\ InOrder(u)',
           lastLogin' \in [Signers -> Days \cup {"never"}], overlapped' \in [Signers -> BOOLEAN]
    PROVE  CallsInv'
<1>1. /\ DOMAIN task' = Tasks /\ \A i \in Tasks : i # j => task'[i] = task[i]
      /\ task'[j] \in [who: Signers \cup {Nobody}, todo: Lists, row: 0..MaxRows, date: Days \cup {"never"}]
      /\ task'[j].todo = l
      /\ l = <<>> => task'[j] = NoTask
      /\ l # <<>> => task'[j].who = task[j].who /\ task'[j].row = task[j].row
  BY GoesFacts, Zenon
<1>2. task[j].who \in Signers /\ task[j].who # Nobody /\ Len(sessions[task[j].who]) \in Nat
  BY AtWork
<1>3. /\ task[j].row <= Len(sessions[task[j].who]) /\ task[j].row \in Nat
      /\ Len(sessions[task[j].who]) <= Len(sessions'[task[j].who])
      /\ Len(sessions'[task[j].who]) \in Nat
  BY <1>2, LenProperties DEF CallsInv, CallSound, Grown
<1>4. NoTask.who = Nobody /\ NoTask.todo = <<>>
  BY DEF NoTask
<1>5. task'[j].who # Nobody => task'[j].row <= Len(sessions'[task'[j].who])
  BY <1>1, <1>2, <1>3, <1>4
<1>6. task'[j].who = Nobody <=> task'[j].todo = <<>>
  BY <1>1, <1>2, <1>4
<1>7. CallSound(j)'
  BY <1>1, <1>5, <1>6 DEF CallSound
<1>8. Paging(j)' => Paging(j)
  BY <1>1 DEF Paging
<1> QED
  BY <1>1, <1>7, <1>8, CallsKept

\* What a session is, when it is of an account no call is about.
LEMMA SameGrown ==
    ASSUME CallsInv, NEW u \in Signers, sessions'[u] = sessions[u]
    PROVE  Grown(u) /\ InOrder(u)'
<1>1. Len(sessions[u]) \in Nat
  BY LenProperties DEF CallsInv, RowsOf
<1> QED
  BY <1>1 DEF CallsInv, RowsOf, InOrder, Grown

\* Sessions keep their days.
LEMMA SameDays ==
    ASSUME NEW u, sessions[u] \in Seq(Session), sessions'[u] \in Seq(Session), InOrder(u),
           Len(sessions'[u]) = Len(sessions[u]), Len(sessions[u]) <= MaxRows,
           \A i \in 1..Len(sessions[u]) : sessions'[u][i].day = sessions[u][i].day
    PROVE  Grown(u) /\ InOrder(u)'
<1>1. PICK n \in Nat : n = Len(sessions[u])
  BY LenProperties
<1>2. InOrder(u)'
  <2>1. \A i, k \in 1..n : i < k /\ sessions[u][i].day = "today" => sessions[u][k].day = "today"
    BY <1>1 DEF InOrder
  <2>2. \A i, k \in 1..n : i < k /\ sessions'[u][i].day = "today" => sessions'[u][k].day = "today"
    BY <1>1, <2>1, Zenon
  <2> QED
    BY <1>1, <2>2, Zenon DEF InOrder
<1>3. Len(sessions[u]) <= Len(sessions'[u])
  BY <1>1
<1> QED
  BY <1>2, <1>3, Zenon DEF Grown

\* The calls of a sign-in or sign-out.
LEMMA CloseCalls ==
    ASSUME CallsInv, NEW j \in Tasks, NEW u, u = task[j].who, CloseAll(j)
    PROVE  /\ CallsInv'
           /\ Tail(task[j].todo) \in {<<>>, <<"open", "stamp">>, <<"open">>}
           /\ Tail(task[j].todo) = <<>> => task[j].todo = UserLogOut
           /\ Len(sessions'[u]) = Len(sessions[u])
           /\ \A i \in 1..Len(sessions[u]) : sessions'[u][i].current = FALSE
           /\ \A v \in Signers : v # u =>
                 sessions'[v] = sessions[v] /\ overlapped'[v] = overlapped[v]
           /\ overlapped'[u] = (overlapped[u] /\ Overlaps(j, u))
<1>1. task[j].todo # <<>> /\ Head(task[j].todo) = "close"
  BY DEF CloseAll, Due
<1>2. /\ u \in Signers /\ u # Nobody /\ task[j].todo \in Lists
      /\ sessions[u] \in Seq(Session) /\ Len(sessions[u]) \in Nat /\ Len(sessions[u]) <= MaxRows
      /\ InOrder(u)
  BY <1>1, AtWork
<1>3. /\ Tail(task[j].todo) \in {<<>>, <<"open", "stamp">>, <<"open">>}
      /\ Tail(task[j].todo) = <<>> => task[j].todo = UserLogOut
  <2>1. \/ task[j].todo = UserLogin /\ Tail(task[j].todo) = <<"open", "stamp">>
        \/ task[j].todo = UserLogOut /\ Tail(task[j].todo) = <<>>
        \/ task[j].todo = <<"close", "open">> /\ Tail(task[j].todo) = <<"open">>
    BY <1>1, <1>2, ListFacts, Zenon
  <2>2. <<"open", "stamp">> # <<>> /\ <<"open">> # <<>>
    OBVIOUS
  <2> QED
    BY <2>1, <2>2, Zenon
<1>4. Tail(task[j].todo) \in Lists
  BY <1>3 DEF Lists
<1>5. /\ DOMAIN sessions = Signers /\ DOMAIN overlapped = Signers
  BY DEF CallsInv
<1> HIDE DEF Lists
<1>6. /\ sessions' = [sessions EXCEPT ![u] = Shut(sessions[u])]
      /\ overlapped' = [overlapped EXCEPT ![u] = overlapped[u] /\ Overlaps(j, u)]
      /\ Goes(j, Tail(task[j].todo)) /\ lastLogin' = lastLogin
  BY DEF CloseAll, Shut
<1>7. /\ DOMAIN sessions' = Signers
      /\ sessions'[u] = Shut(sessions[u])
      /\ \A v \in Signers : v # u => sessions'[v] = sessions[v]
  BY <1>2, <1>5, <1>6
<1>8. /\ overlapped' \in [Signers -> BOOLEAN] /\ overlapped'[u] = (overlapped[u] /\ Overlaps(j, u))
      /\ \A v \in Signers : v # u => overlapped'[v] = overlapped[v]
  BY <1>2, <1>6, Zenon DEF CallsInv
<1>9. /\ sessions'[u] \in Seq(Session) /\ Len(sessions'[u]) = Len(sessions[u])
      /\ \A i \in 1..Len(sessions[u]) :
           sessions'[u][i].day = sessions[u][i].day /\ sessions'[u][i].current = FALSE
  <2>1. /\ Shut(sessions[u]) \in Seq(Session) /\ Len(Shut(sessions[u])) = Len(sessions[u])
        /\ \A i \in 1..Len(sessions[u]) : /\ Shut(sessions[u])[i].day = sessions[u][i].day
                                          /\ Shut(sessions[u])[i].current = FALSE
    BY <1>2, RowsClosed, Zenon
  <2> QED
    BY <1>7, <2>1, Zenon
<1>10. Grown(u) /\ InOrder(u)'
  <2>1. \A i \in 1..Len(sessions[u]) : sessions'[u][i].day = sessions[u][i].day
    BY <1>9, Zenon
  <2>2. sessions'[u] \in Seq(Session) /\ Len(sessions'[u]) = Len(sessions[u])
    BY <1>9
  <2> QED
    BY <1>2, <2>1, <2>2, SameDays
<1>11. \A v \in Signers : Grown(v) /\ InOrder(v)'
  BY <1>7, <1>10, SameGrown
<1>12. CallsInv'
  <2>1. /\ Tail(task[j].todo) \notin {<<"touch", "stamp">>, <<"fill", "stampBack">>}
        /\ Tail(task[j].todo) \notin {ProfilePage, <<"fill", "stampBack">>, <<"stampBack">>}
    BY <1>3, ListKinds
  <2>2. lastLogin' \in [Signers -> Days \cup {"never"}]
    BY <1>6 DEF CallsInv
  <2> QED
    BY <1>1, <1>4, <1>6, <1>7, <1>8, <1>11, <2>1, <2>2, CallsGone
<1> QED
  BY <1>3, <1>7, <1>8, <1>9, <1>12

\* A session is opened after all others.
LEMMA OpenCalls ==
    ASSUME CallsInv, NEW j \in Tasks, NEW u, u = task[j].who, OpenOne(j)
    PROVE  /\ CallsInv'
           /\ task[j].todo \in {<<"open", "stamp">>, <<"open">>}
           /\ Tail(task[j].todo) \in {<<>>, <<"stamp">>}
           /\ Len(sessions'[u]) = Len(sessions[u]) + 1
           /\ \A i \in 1..Len(sessions[u]) : sessions'[u][i] = sessions[u][i]
           /\ \A v \in Signers : v # u => sessions'[v] = sessions[v]
<1> DEFINE new == [day |-> "today", current |-> TRUE]
<1>1. task[j].todo # <<>> /\ Head(task[j].todo) = "open"
  BY DEF OpenOne, Due
<1>2. /\ u \in Signers /\ u # Nobody /\ task[j].todo \in Lists
      /\ sessions[u] \in Seq(Session) /\ Len(sessions[u]) \in Nat
      /\ InOrder(u)
  BY <1>1, AtWork
<1>3. /\ task[j].todo \in {<<"open", "stamp">>, <<"open">>}
      /\ Tail(task[j].todo) \in {<<>>, <<"stamp">>}
  BY <1>1, <1>2, ListFacts, Zenon
<1>4. Tail(task[j].todo) \in Lists
  BY <1>3 DEF Lists
<1>5. DOMAIN sessions = Signers /\ new \in Session
  BY DEF CallsInv, Session, Days
<1> HIDE DEF Lists
<1>6. /\ sessions' = [sessions EXCEPT ![u] = Append(sessions[u], new)]
      /\ Len(sessions[u]) < MaxRows
      /\ Goes(j, Tail(task[j].todo)) /\ lastLogin' = lastLogin /\ overlapped' = overlapped
  BY DEF OpenOne
<1>7. /\ DOMAIN sessions' = Signers
      /\ sessions'[u] = Append(sessions[u], new)
      /\ \A v \in Signers : v # u => sessions'[v] = sessions[v]
  BY <1>2, <1>5, <1>6
<1>8. new.day = "today"
  OBVIOUS
<1> HIDE DEF new
<1>9. /\ sessions'[u] \in Seq(Session) /\ Len(sessions'[u]) = Len(sessions[u]) + 1
      /\ \A i \in 1..Len(sessions[u]) : sessions'[u][i] = sessions[u][i]
      /\ sessions'[u][Len(sessions[u]) + 1].day = "today"
  <2>1. /\ Append(sessions[u], new) \in Seq(Session)
        /\ Len(Append(sessions[u], new)) = Len(sessions[u]) + 1
        /\ \A i \in 1..Len(sessions[u]) : Append(sessions[u], new)[i] = sessions[u][i]
        /\ Append(sessions[u], new)[Len(sessions[u]) + 1] = new
    BY <1>2, <1>5, RowsOpened, Zenon
  <2> QED
    BY <1>7, <1>8, <2>1, Zenon
<1>10. Grown(u) /\ InOrder(u)'
  <2>1. PICK n \in Nat : n = Len(sessions[u])
    BY <1>2
  <2>2. /\ Len(sessions'[u]) = n + 1 /\ n < MaxRows /\ MaxRows \in Nat
        /\ \A i \in 1..n + 1 : i = n + 1 \/ i \in 1..n
    BY <1>6, <1>9, <2>1, DeskParameters
  <2>3. \A i \in 1..n : sessions'[u][i].day = sessions[u][i].day
    BY <1>9, <2>1
  <2>4. \A i \in 1..n + 1 : i \in 1..n \/ sessions'[u][i].day = "today"
    BY <1>9, <2>1, <2>2
  <2>5. InOrder(u)'
    <3>1. SUFFICES ASSUME NEW i \in 1..n + 1, NEW k \in 1..n + 1, i < k, sessions'[u][i].day = "today"
                   PROVE  sessions'[u][k].day = "today"
      BY <2>2 DEF InOrder
    <3>2. CASE k \in 1..n
      <4>1. i \in 1..n
        BY <3>1, <3>2
      <4>2. sessions[u][i].day = "today" /\ sessions'[u][k].day = sessions[u][k].day
        BY <2>3, <3>1, <3>2, <4>1
      <4> QED
        BY <1>2, <2>1, <3>1, <3>2, <4>1, <4>2 DEF InOrder
    <3> QED
      BY <2>4, <3>2
  <2>6. n <= n + 1 /\ n + 1 <= MaxRows
    BY <2>2
  <2>7. (\A i \in 1..n : sessions[u][i].day = "today") => \A i \in 1..n + 1 : sessions'[u][i].day = "today"
    BY <2>3, <2>4, Zenon
  <2> QED
    BY <1>9, <2>1, <2>2, <2>5, <2>6, <2>7, Zenon DEF Grown
<1>11. \A v \in Signers : Grown(v) /\ InOrder(v)'
  BY <1>7, <1>10, SameGrown
<1>12. CallsInv'
  <2>1. /\ Tail(task[j].todo) \notin {<<"touch", "stamp">>, <<"fill", "stampBack">>}
        /\ Tail(task[j].todo) \notin {ProfilePage, <<"fill", "stampBack">>, <<"stampBack">>}
    BY <1>3, ListKinds
  <2>2. lastLogin' \in [Signers -> Days \cup {"never"}] /\ overlapped' \in [Signers -> BOOLEAN]
    BY <1>6 DEF CallsInv
  <2> QED
    BY <1>1, <1>4, <1>6, <1>7, <1>11, <2>1, <2>2, CallsGone
<1> QED
  BY <1>3, <1>7, <1>9, <1>12

\* The date of the last sign-in touches no session.
LEMMA StampCalls ==
    ASSUME CallsInv, NEW j \in Tasks, Stamp(j)
    PROVE  CallsInv' /\ Tail(task[j].todo) \in {<<>>, <<"close", "open">>}
<1>1. task[j].todo # <<>> /\ Head(task[j].todo) = "stamp"
  BY DEF Stamp, Due
<1>2. task[j].who \in Signers /\ task[j].todo \in Lists
  BY <1>1, AtWork
<1>3. Tail(task[j].todo) \in {<<>>, <<"close", "open">>}
  BY <1>1, <1>2, ListFacts, Zenon
<1>4. Tail(task[j].todo) \in Lists
  BY <1>3 DEF Lists
<1> HIDE DEF Lists
<1>5. /\ Tail(task[j].todo) \notin {<<"touch", "stamp">>, <<"fill", "stampBack">>}
      /\ Tail(task[j].todo) \notin {ProfilePage, <<"fill", "stampBack">>, <<"stampBack">>}
  BY <1>3, ListKinds
<1>6. /\ lastLogin' \in [Signers -> Days \cup {"never"}] /\ overlapped' \in [Signers -> BOOLEAN]
      /\ sessions' = sessions /\ DOMAIN sessions' = Signers /\ Goes(j, Tail(task[j].todo))
  BY <1>2 DEF Stamp, CallsInv, Days
<1>7. \A v \in Signers : Grown(v) /\ InOrder(v)'
  BY <1>6, SameGrown
<1> QED
  BY <1>1, <1>3, <1>4, <1>5, <1>6, <1>7, CallsGone

\* Writing the date back touches no session.
LEMMA StampBackCalls ==
    ASSUME CallsInv, NEW j \in Tasks, StampBack(j)
    PROVE  CallsInv'
<1>1. task[j].todo # <<>>
  BY DEF StampBack, Due
<1>2. task[j].who \in Signers /\ task[j].date \in Days \cup {"never"}
  BY <1>1, AtWork DEF CallsInv, CallSound
<1>3. <<>> \in Lists
  BY DEF Lists
<1> HIDE DEF Lists
<1>4. /\ <<>> \notin {<<"touch", "stamp">>, <<"fill", "stampBack">>}
      /\ <<>> \notin {ProfilePage, <<"fill", "stampBack">>, <<"stampBack">>}
  BY ListKinds
<1>5. /\ lastLogin' \in [Signers -> Days \cup {"never"}] /\ overlapped' \in [Signers -> BOOLEAN]
      /\ sessions' = sessions /\ DOMAIN sessions' = Signers /\ Goes(j, <<>>)
  BY <1>2 DEF StampBack, CallsInv, Days
<1>6. \A v \in Signers : Grown(v) /\ InOrder(v)'
  BY <1>5, SameGrown
<1> QED
  BY <1>1, <1>3, <1>4, <1>5, <1>6, CallsGone

\* A request that fails leaves what it has done.
LEMMA FailCalls ==
    ASSUME CallsInv, NEW j \in Tasks, TaskFails(j)
    PROVE  CallsInv'
<1>1. task[j].todo # <<>>
  BY DEF TaskFails, CallsInv, CallSound
<1>3. <<>> \in Lists
  BY DEF Lists
<1> HIDE DEF Lists
<1>4. /\ <<>> \notin {<<"touch", "stamp">>, <<"fill", "stampBack">>}
      /\ <<>> \notin {ProfilePage, <<"fill", "stampBack">>, <<"stampBack">>}
  BY ListKinds
<1>5. /\ lastLogin' \in [Signers -> Days \cup {"never"}] /\ overlapped' \in [Signers -> BOOLEAN]
      /\ sessions' = sessions /\ DOMAIN sessions' = Signers /\ Goes(j, <<>>)
  BY DEF TaskFails, CallsInv
<1>6. \A v \in Signers : Grown(v) /\ InOrder(v)'
  BY <1>5, SameGrown
<1> QED
  BY <1>1, <1>3, <1>4, <1>5, <1>6, CallsGone

\* The sessions of today are the last ones.
LEMMA LatestIsLast ==
    ASSUME NEW u \in Signers, sessions[u] \in Seq(Session), InOrder(u), OfToday(u) # {}
    PROVE  Latest(u) = Len(sessions[u]) /\ Len(sessions[u]) \in Nat \ {0}
<1>1. PICK n \in Nat : n = Len(sessions[u]) /\ DOMAIN sessions[u] = 1..n
  BY LenProperties
<1>2. PICK i \in 1..n : sessions[u][i].day = "today"
  BY <1>1 DEF OfToday
<1>3. n \in 1..n /\ (i = n \/ i < n)
  OBVIOUS
<1>4. n \in OfToday(u)
  BY <1>1, <1>2, <1>3 DEF OfToday, InOrder
<1>5. \A k \in OfToday(u) : k \in 1..n
  BY <1>1 DEF OfToday
<1>6. \A k \in OfToday(u) : n >= k
  BY <1>5
<1>7. \A m \in OfToday(u) : (\A k \in OfToday(u) : m >= k) => m = n
  BY <1>4, <1>5
<1>8. Latest(u) = n
  BY <1>4, <1>6, <1>7 DEF Latest
<1> QED
  BY <1>1, <1>3, <1>8

\* A heartbeat finds the latest session of today, or goes on to open one.
LEMMA FindCalls ==
    ASSUME CallsInv, NEW j \in Tasks, NEW u, u = task[j].who, Find(j)
    PROVE  /\ CallsInv' /\ sessions' = sessions /\ overlapped' = overlapped
           /\ task[j].todo = Heartbeat
           /\ \A i \in Tasks : i # j => task'[i] = task[i]
           /\ task'[j].who = u
           /\ \/ task'[j].todo = <<"open", "stamp">> /\ OfToday(u) = {}
              \/ task'[j].todo = <<"touch", "stamp">> /\ task'[j].row = Len(sessions[u])
<1>1. task[j].todo # <<>> /\ Head(task[j].todo) = "find"
  BY DEF Find, Due
<1>2. /\ u \in Signers /\ u # Nobody /\ task[j].todo \in Lists
      /\ sessions[u] \in Seq(Session) /\ InOrder(u) /\ Len(sessions[u]) <= MaxRows
  BY <1>1, AtWork
<1>3. task[j].todo = Heartbeat
  BY <1>1, <1>2, ListFacts, Zenon
<1>4. /\ lastLogin' \in [Signers -> Days \cup {"never"}] /\ overlapped' \in [Signers -> BOOLEAN]
      /\ sessions' = sessions /\ overlapped' = overlapped /\ DOMAIN sessions' = Signers
  BY DEF Find, CallsInv
<1>5. \A v \in Signers : Grown(v) /\ InOrder(v)'
  BY <1>4, SameGrown
<1>6. CASE OfToday(u) = {}
  <2>1. Goes(j, <<"open", "stamp">>)
    BY <1>6 DEF Find
  <2>2. <<"open", "stamp">> \in Lists /\ <<"open", "stamp">> # <<>>
    BY DEF Lists
  <2> HIDE DEF Lists
  <2>3. /\ <<"open", "stamp">> \notin {<<"touch", "stamp">>, <<"fill", "stampBack">>}
        /\ <<"open", "stamp">> \notin {ProfilePage, <<"fill", "stampBack">>, <<"stampBack">>}
    BY ListKinds
  <2>4. CallsInv'
    BY <1>1, <1>4, <1>5, <2>1, <2>2, <2>3, CallsGone
  <2>5. /\ task'[j].todo = <<"open", "stamp">> /\ task'[j].who = task[j].who
        /\ \A i \in Tasks : i # j => task'[i] = task[i]
    BY <2>1, <2>2, GoesFacts
  <2> QED
    BY <1>3, <1>4, <1>6, <2>4, <2>5
<1>7. CASE OfToday(u) # {}
  <2>1. Latest(u) = Len(sessions[u]) /\ Len(sessions[u]) \in 1..MaxRows
    BY <1>2, <1>7, LatestIsLast, DeskParameters
  <2>2. task' = [task EXCEPT ![j].todo = <<"touch", "stamp">>, ![j].row = Latest(u)]
    BY <1>7 DEF Find
  <2>3. task[j] \in [who: Signers \cup {Nobody}, todo: Lists, row: 0..MaxRows, date: Days \cup {"never"}]
        /\ DOMAIN task = Tasks
    BY DEF CallsInv, CallSound
  <2>4. <<"touch", "stamp">> \in Lists
    BY DEF Lists
  <2> HIDE DEF Lists
  <2>5. /\ DOMAIN task' = Tasks /\ \A i \in Tasks : i # j => task'[i] = task[i]
        /\ task'[j].who = u /\ task'[j].todo = <<"touch", "stamp">> /\ task'[j].row = Latest(u)
        /\ task'[j] \in [who: Signers \cup {Nobody}, todo: Lists, row: 0..MaxRows,
                         date: Days \cup {"never"}]
    <3>1. PICK r \in 0..MaxRows : r = Latest(u)
      BY <2>1, <1>2, DeskParameters
    <3>2. PICK d \in [who: Signers \cup {Nobody}, todo: Lists, row: 0..MaxRows, date: Days \cup {"never"}] :
            d = task[j]
      BY <2>3
    <3>3. [[d EXCEPT !.todo = <<"touch", "stamp">>] EXCEPT !.row = r]
            = [who |-> d.who, todo |-> <<"touch", "stamp">>, row |-> r, date |-> d.date]
      <4> DEFINE x == [d EXCEPT !.todo = <<"touch", "stamp">>]
      <4>1. x = [who |-> d.who, todo |-> <<"touch", "stamp">>, row |-> d.row, date |-> d.date]
        OBVIOUS
      <4> HIDE DEF x
      <4>2. [x EXCEPT !.row = r] = [who |-> d.who, todo |-> <<"touch", "stamp">>, row |-> r, date |-> d.date]
        BY <4>1
      <4> QED
        BY <4>2 DEF x
    <3>4. task' = [task EXCEPT ![j] = [[d EXCEPT !.todo = <<"touch", "stamp">>] EXCEPT !.row = r]]
      BY <2>2, <3>1, <3>2
    <3>5. task' = [task EXCEPT ![j] = [who |-> d.who, todo |-> <<"touch", "stamp">>, row |-> r,
                                     date |-> d.date]]
      BY <3>3, <3>4, Zenon
    <3> QED
      BY <2>3, <2>4, <3>1, <3>2, <3>5
  <2>6. <<"touch", "stamp">> # <<>> /\ <<"touch", "stamp">> # <<"fill", "stampBack">>
        /\ <<"touch", "stamp">> \notin {ProfilePage, <<"fill", "stampBack">>, <<"stampBack">>}
    BY ListKinds
  <2>7. Latest(u) <= Len(sessions[u]) /\ Latest(u) > 0
    BY <2>1
  <2>8. CallSound(j)'
    BY <1>2, <1>4, <2>5, <2>6, <2>7, Zenon DEF CallSound
  <2>9. ~ Paging(j)'
    BY <2>5, <2>6 DEF Paging
  <2>10. CallsInv'
    BY <1>4, <2>5, <2>8, <2>9, CallsStill
  <2> QED
    BY <1>3, <1>4, <2>1, <2>5, <2>10
<1> QED
  BY <1>6, <1>7

\* The session a heartbeat found is there still.
LEMMA TouchCalls ==
    ASSUME CallsInv, NEW j \in Tasks, NEW u, u = task[j].who, Touch(j)
    PROVE  /\ CallsInv'
           /\ task[j].todo = <<"touch", "stamp">> /\ task[j].row \in 1..Len(sessions[u])
           /\ Goes(j, <<"stamp">>) /\ overlapped' = overlapped
           /\ Len(sessions'[u]) = Len(sessions[u])
           /\ \A i \in 1..Len(sessions[u]) : /\ sessions'[u][i].day = sessions[u][i].day
                                             /\ i # task[j].row => sessions'[u][i] = sessions[u][i]
           /\ \A v \in Signers : v # u => sessions'[v] = sessions[v]
<1>1. task[j].todo # <<>> /\ Head(task[j].todo) = "touch"
  BY DEF Touch, Due
<1>2. /\ u \in Signers /\ u # Nobody /\ task[j].todo \in Lists
      /\ sessions[u] \in Seq(Session) /\ Len(sessions[u]) \in Nat /\ Len(sessions[u]) <= MaxRows
      /\ InOrder(u)
  BY <1>1, AtWork
<1>3. task[j].todo = <<"touch", "stamp">>
  BY <1>1, <1>2, ListFacts, Zenon
<1>4. <<"stamp">> \in Lists /\ DOMAIN sessions = Signers
  BY DEF Lists, CallsInv
<1> HIDE DEF Lists
<1>5. task[j].row \in 1..Len(sessions[u])
  <2>1. task[j].row \in 0..MaxRows /\ task[j].row > 0 /\ task[j].row <= Len(sessions[u])
    BY <1>2, <1>3 DEF CallsInv, CallSound
  <2> QED
    BY <1>2, <2>1, DeskParameters
<1>6. /\ sessions' = [sessions EXCEPT ![u] = Touched(sessions[u], task[j].row)]
      /\ Goes(j, <<"stamp">>) /\ lastLogin' = lastLogin /\ overlapped' = overlapped
  BY DEF Touch, Touched
<1>7. /\ DOMAIN sessions' = Signers
      /\ sessions'[u] = Touched(sessions[u], task[j].row)
      /\ \A v \in Signers : v # u => sessions'[v] = sessions[v]
  BY <1>2, <1>4, <1>6
<1>8. /\ sessions'[u] \in Seq(Session) /\ Len(sessions'[u]) = Len(sessions[u])
      /\ \A i \in 1..Len(sessions[u]) : /\ sessions'[u][i].day = sessions[u][i].day
                                        /\ i # task[j].row => sessions'[u][i] = sessions[u][i]
  <2>1. /\ Touched(sessions[u], task[j].row) \in Seq(Session)
        /\ Len(Touched(sessions[u], task[j].row)) = Len(sessions[u])
        /\ \A i \in 1..Len(sessions[u]) :
              /\ Touched(sessions[u], task[j].row)[i].day = sessions[u][i].day
              /\ i # task[j].row => Touched(sessions[u], task[j].row)[i] = sessions[u][i]
    BY <1>2, <1>5, RowsTouched, Zenon
  <2> QED
    BY <1>7, <2>1, Zenon
<1>9. Grown(u) /\ InOrder(u)'
  <2>1. \A i \in 1..Len(sessions[u]) : sessions'[u][i].day = sessions[u][i].day
    BY <1>8, Zenon
  <2>2. sessions'[u] \in Seq(Session) /\ Len(sessions'[u]) = Len(sessions[u])
    BY <1>8
  <2> QED
    BY <1>2, <2>1, <2>2, SameDays
<1>10. \A v \in Signers : Grown(v) /\ InOrder(v)'
  BY <1>7, <1>9, SameGrown
<1>11. CallsInv'
  <2>1. /\ <<"stamp">> \notin {<<"touch", "stamp">>, <<"fill", "stampBack">>}
        /\ <<"stamp">> \notin {ProfilePage, <<"fill", "stampBack">>, <<"stampBack">>}
    BY ListKinds
  <2>2. lastLogin' \in [Signers -> Days \cup {"never"}] /\ overlapped' \in [Signers -> BOOLEAN]
    BY <1>6 DEF CallsInv
  <2> QED
    BY <1>1, <1>4, <1>6, <1>7, <1>10, <2>1, <2>2, CallsGone
<1> QED
  BY <1>3, <1>5, <1>6, <1>7, <1>8, <1>11

\* A page makes a session up only for an account that has none.
LEMMA LookCalls ==
    ASSUME CallsInv, NEW j \in Tasks, NEW u, u = task[j].who, LookUp(j)
    PROVE  /\ CallsInv' /\ sessions' = sessions /\ overlapped' = overlapped
           /\ task[j].todo = ProfilePage
           /\ \A i \in Tasks : i # j => task'[i] = task[i]
           /\ \/ task'[j] = NoTask
              \/ task'[j].who = u /\ task'[j].todo = <<"fill", "stampBack">> /\ sessions[u] = <<>>
<1>1. task[j].todo # <<>> /\ Head(task[j].todo) = "look"
  BY DEF LookUp, Due
<1>2. u \in Signers /\ u # Nobody /\ task[j].todo \in Lists
  BY <1>1, AtWork
<1>3. task[j].todo = ProfilePage
  BY <1>1, <1>2, ListFacts, Zenon
<1>4. /\ lastLogin' \in [Signers -> Days \cup {"never"}] /\ overlapped' \in [Signers -> BOOLEAN]
      /\ sessions' = sessions /\ overlapped' = overlapped /\ DOMAIN sessions' = Signers
      /\ lastLogin[u] \in Days \cup {"never"}
  BY <1>2 DEF LookUp, CallsInv
<1>5. \A v \in Signers : Grown(v) /\ InOrder(v)'
  BY <1>4, SameGrown
<1>6. CASE sessions[u] # <<>>
  <2>1. Goes(j, <<>>)
    BY <1>6 DEF LookUp
  <2>2. <<>> \in Lists
    BY DEF Lists
  <2> HIDE DEF Lists
  <2>3. /\ <<>> \notin {<<"touch", "stamp">>, <<"fill", "stampBack">>}
        /\ <<>> \notin {ProfilePage, <<"fill", "stampBack">>, <<"stampBack">>}
    BY ListKinds
  <2>4. CallsInv'
    BY <1>1, <1>4, <1>5, <2>1, <2>2, <2>3, CallsGone
  <2>5. task'[j] = NoTask /\ \A i \in Tasks : i # j => task'[i] = task[i]
    BY <2>1, <2>2, GoesFacts
  <2> QED
    BY <1>3, <1>4, <2>4, <2>5
<1>7. CASE sessions[u] = <<>>
  <2>1. PICK day \in Days \cup {"never"} : day = lastLogin[u]
    BY <1>4
  <2>2. PICK d \in [who: Signers \cup {Nobody}, todo: Lists, row: 0..MaxRows, date: Days \cup {"never"}] :
          d = task[j]
    BY DEF CallsInv, CallSound
  <2>3. task' = [task EXCEPT ![j] = [[d EXCEPT !.todo = <<"fill", "stampBack">>] EXCEPT !.date = day]]
    BY <1>7, <2>1, <2>2 DEF LookUp
  <2>4. <<"fill", "stampBack">> \in Lists /\ DOMAIN task = Tasks
    BY DEF Lists, CallsInv
  <2> HIDE DEF Lists
  <2>5. [[d EXCEPT !.todo = <<"fill", "stampBack">>] EXCEPT !.date = day]
          = [who |-> d.who, todo |-> <<"fill", "stampBack">>, row |-> d.row, date |-> day]
    <3> DEFINE x == [d EXCEPT !.todo = <<"fill", "stampBack">>]
    <3>1. x = [who |-> d.who, todo |-> <<"fill", "stampBack">>, row |-> d.row, date |-> d.date]
      OBVIOUS
    <3> HIDE DEF x
    <3>2. [x EXCEPT !.date = day]
            = [who |-> d.who, todo |-> <<"fill", "stampBack">>, row |-> d.row, date |-> day]
      BY <3>1
    <3> QED
      BY <3>2 DEF x
  <2>6. task' = [task EXCEPT ![j] = [who |-> d.who, todo |-> <<"fill", "stampBack">>, row |-> d.row,
                                     date |-> day]]
    BY <2>3, <2>5, Zenon
  <2>7. /\ DOMAIN task' = Tasks /\ \A i \in Tasks : i # j => task'[i] = task[i]
        /\ task'[j].who = u /\ task'[j].todo = <<"fill", "stampBack">> /\ task'[j].row = task[j].row
        /\ task'[j] \in [who: Signers \cup {Nobody}, todo: Lists, row: 0..MaxRows,
                         date: Days \cup {"never"}]
    BY <2>1, <2>2, <2>4, <2>6
  <2>8. <<"fill", "stampBack">> # <<>> /\ <<"touch", "stamp">> # <<"fill", "stampBack">>
    BY ListKinds
  <2>9. \A i \in 1..Len(sessions'[u]) : sessions'[u][i].day = "today"
    BY <1>4, <1>7
  <2>10. task[j].row <= Len(sessions[u])
    BY <1>2 DEF CallsInv, CallSound
  <2>11. CallSound(j)'
    BY <1>2, <1>4, <2>7, <2>8, <2>9, <2>10, Zenon DEF CallSound
  <2>12. Paging(j)
    BY <1>3 DEF Paging
  <2>13. CallsInv'
    BY <1>4, <2>7, <2>11, <2>12, CallsStill
  <2> QED
    BY <1>3, <1>4, <1>7, <2>7, <2>13
<1> QED
  BY <1>6, <1>7

\* A made-up session moves the places of the others, and of what a heartbeat found.
LEMMA FillCalls ==
    ASSUME CallsInv, NEW j \in Tasks, NEW u, u = task[j].who, Fill(j)
    PROVE  /\ CallsInv'
           /\ overlapped' = overlapped
           /\ task[j].todo = <<"fill", "stampBack">>
           /\ task'[j].who = u /\ task'[j].todo = <<"stampBack">>
           /\ \A i \in Tasks : i # j => /\ task'[i].who = task[i].who /\ task'[i].todo = task[i].todo
                                        /\ task[i].who # u => task'[i] = task[i]
           /\ Len(sessions'[u]) = Len(sessions[u]) + 1
           /\ \A v \in Signers : v # u => sessions'[v] = sessions[v]
<1> DEFINE x == [day |-> FirstDay(task[j].date), current |-> TRUE]
<1>1. task[j].todo # <<>> /\ Head(task[j].todo) = "fill"
  BY DEF Fill, Due
<1>2. /\ u \in Signers /\ u # Nobody /\ task[j].todo \in Lists
      /\ sessions[u] \in Seq(Session) /\ Len(sessions[u]) \in Nat
      /\ InOrder(u)
  BY <1>1, AtWork
<1>3. task[j].todo = <<"fill", "stampBack">>
  BY <1>1, <1>2, ListFacts, Zenon
<1>4. task[j].date \in Days \cup {"never"} /\ DOMAIN sessions = Signers /\ DOMAIN task = Tasks
  BY DEF CallsInv, CallSound
<1>5. /\ x \in Session /\ x.day \in Days
      /\ x.day = "today" => task[j].date = "today"
  BY <1>4 DEF Session, FirstDay, Days
<1>6. x.day = "today" => \A i \in 1..Len(sessions[u]) : sessions[u][i].day = "today"
  BY <1>3, <1>5 DEF CallsInv, CallSound
<1>7. /\ sessions' = [sessions EXCEPT ![u] = <<x>> \o sessions[u]]
      /\ Len(sessions[u]) < MaxRows /\ lastLogin' = lastLogin /\ overlapped' = overlapped
      /\ task' = [i \in Tasks |->
                    IF i = j THEN [task[j] EXCEPT !.todo = <<"stampBack">>]
                    ELSE IF task[i].who = u /\ task[i].row > 0
                         THEN [task[i] EXCEPT !.row = @ + 1] ELSE task[i]]
  BY DEF Fill
<1> HIDE DEF x
<1>8. /\ DOMAIN sessions' = Signers
      /\ sessions'[u] = <<x>> \o sessions[u]
      /\ \A v \in Signers : v # u => sessions'[v] = sessions[v]
  BY <1>2, <1>4, <1>7
<1>9. PICK n \in Nat : n = Len(sessions[u])
  BY <1>2
<1>10. /\ sessions'[u] \in Seq(Session) /\ Len(sessions'[u]) = n + 1
       /\ sessions'[u][1] = x
       /\ \A i \in 2..n + 1 : sessions'[u][i] = sessions[u][i - 1] /\ i - 1 \in 1..n
  BY <1>2, <1>5, <1>8, <1>9, RowsFilled
<1>11. n + 1 <= MaxRows /\ MaxRows \in Nat
  BY <1>7, <1>9, DeskParameters
<1>12. \A i \in 1..n + 1 : i = 1 \/ i \in 2..n + 1
  OBVIOUS
<1>13. InOrder(u)'
  <2>1. SUFFICES ASSUME NEW i \in 1..n + 1, NEW k \in 1..n + 1, i < k, sessions'[u][i].day = "today"
                 PROVE  sessions'[u][k].day = "today"
    BY <1>10 DEF InOrder
  <2>2. k \in 2..n + 1 /\ sessions'[u][k] = sessions[u][k - 1] /\ k - 1 \in 1..n
    BY <1>10, <2>1
  <2>3. CASE i = 1
    BY <1>6, <1>9, <1>10, <2>1, <2>2, <2>3
  <2>4. CASE i \in 2..n + 1
    <3>1. sessions'[u][i] = sessions[u][i - 1] /\ i - 1 \in 1..n /\ i - 1 < k - 1
      <4>1. sessions'[u][i] = sessions[u][i - 1] /\ i - 1 \in 1..n
        BY <1>10, <2>4
      <4>2. i - 1 < k - 1
        BY <2>1
      <4> QED
        BY <4>1, <4>2
    <3> QED
      BY <1>2, <1>9, <2>1, <2>2, <3>1 DEF InOrder
  <2> QED
    BY <1>12, <2>3, <2>4
<1>14. RowsOf(u)'
  BY <1>10, <1>11 DEF RowsOf
<1>15. \A v \in Signers : RowsOf(v)' /\ InOrder(v)'
  <2>1. ASSUME NEW v \in Signers, v # u PROVE RowsOf(v)' /\ InOrder(v)'
    <3>1. sessions'[v] = sessions[v]
      BY <1>8, <2>1
    <3>2. Grown(v) /\ InOrder(v)'
      BY <3>1, SameGrown
    <3> QED
      BY <3>2 DEF Grown, RowsOf
  <2> QED
    BY <1>13, <1>14, <2>1
<1>16. <<"stampBack">> \in Lists
  BY DEF Lists
<1> HIDE DEF Lists
<1>17. task'[j].todo = <<"stampBack">> /\ task'[j].who = u /\ task'[j].row = task[j].row
       /\ task'[j] \in [who: Signers \cup {Nobody}, todo: Lists, row: 0..MaxRows, date: Days \cup {"never"}]
  <2>1. task[j] \in [who: Signers \cup {Nobody}, todo: Lists, row: 0..MaxRows, date: Days \cup {"never"}]
    BY DEF CallsInv, CallSound
  <2>2. task'[j] = [task[j] EXCEPT !.todo = <<"stampBack">>]
    BY <1>7
  <2> QED
    BY <1>16, <2>1, <2>2
<1>18. CallSound(j)'
  <2>1. task[j].row <= n /\ task[j].row \in Nat
    BY <1>2, <1>9, DeskParameters DEF CallsInv, CallSound
  <2>2. task'[j].row <= Len(sessions'[u])
    BY <1>10, <1>17, <2>1
  <2>3. <<"stampBack">> \notin {<<>>, <<"touch", "stamp">>, <<"fill", "stampBack">>}
    OBVIOUS
  <2> QED
    BY <1>2, <1>17, <2>2, <2>3, Zenon DEF CallSound
<1>19. ASSUME NEW i \in Tasks, i # j
       PROVE  /\ task'[i].who = task[i].who /\ task'[i].todo = task[i].todo
              /\ task[i].who # u => task'[i] = task[i]
              /\ CallSound(i)'
  <2>1. CallSound(i)
    BY DEF CallsInv
  <2>2. PICK d \in [who: Signers \cup {Nobody}, todo: Lists, row: 0..MaxRows, date: Days \cup {"never"}] :
          d = task[i]
    BY <2>1 DEF CallSound
  <2>3. CASE d.who = u /\ d.row > 0
    <3>1. d.row \in 1..n
      BY <1>2, <1>9, <2>1, <2>2, <2>3, DeskParameters DEF CallSound
    <3>2. task'[i] = [d EXCEPT !.row = d.row + 1]
      BY <1>7, <1>19, <2>2, <2>3
    <3>3. d.row + 1 \in 0..MaxRows /\ d.row + 1 <= n + 1 /\ d.row + 1 > 0
      BY <1>11, <3>1
    <3>4. /\ task'[i].who = u /\ task'[i].todo = d.todo /\ task'[i].row = d.row + 1
          /\ task'[i] \in [who: Signers \cup {Nobody}, todo: Lists, row: 0..MaxRows, date: Days \cup {"never"}]
      BY <2>3, <3>2, <3>3
    <3>5. d.todo # <<"fill", "stampBack">>
      <4>1. Paging(j) /\ (d.todo = <<"fill", "stampBack">> => Paging(i))
        BY <1>3, <2>2 DEF Paging
      <4> QED
        BY <1>19, <4>1 DEF CallsInv
    <3>6. d.todo # <<>>
      BY <1>2, <2>1, <2>2, <2>3 DEF CallSound
    <3>7. CallSound(i)'
      BY <1>2, <1>10, <3>3, <3>4, <3>5, <3>6, Zenon DEF CallSound
    <3> QED
      BY <2>2, <2>3, <3>4, <3>7
  <2>4. CASE ~ (d.who = u /\ d.row > 0)
    <3>1. task'[i] = task[i]
      BY <1>7, <1>19, <2>2, <2>4
    <3>2. CASE d.who = u
      <4>1. d.row = 0 /\ d.todo # <<"touch", "stamp">>
        BY <2>1, <2>2, <2>4, <3>2, DeskParameters DEF CallSound
      <4>2. d.todo # <<"fill", "stampBack">>
        <5>1. Paging(j) /\ (d.todo = <<"fill", "stampBack">> => Paging(i))
          BY <1>3, <2>2 DEF Paging
        <5> QED
          BY <1>19, <5>1 DEF CallsInv
      <4>3. 0 <= Len(sessions'[u])
        BY <1>10
      <4> QED
        BY <2>1, <2>2, <3>1, <3>2, <4>1, <4>2, <4>3, Zenon DEF CallSound
    <3>3. CASE d.who # u
      <4>1. d.who # Nobody => d.who \in Signers /\ sessions'[d.who] = sessions[d.who]
        BY <1>8, <3>3
      <4>2. d.todo = <<"fill", "stampBack">> => d.who # Nobody
        BY <2>1, <2>2 DEF CallSound
      <4> QED
        BY <2>1, <2>2, <3>1, <4>1, <4>2 DEF CallSound
    <3> QED
      BY <3>2, <3>3
  <2> QED
    BY <2>3, <2>4
<1>20. \A i, k \in Tasks : Paging(i)' /\ Paging(k)' => i = k
  <2>1. \A i \in Tasks : Paging(i)' => Paging(i)
    BY <1>3, <1>19 DEF Paging
  <2> QED
    BY <2>1, Zenon DEF CallsInv
<1>21. lastLogin' \in [Signers -> Days \cup {"never"}] /\ overlapped' \in [Signers -> BOOLEAN]
  BY <1>7 DEF CallsInv
<1>22. DOMAIN task' = Tasks
  BY <1>7
<1>23. CallsInv'
  BY <1>8, <1>15, <1>18, <1>19, <1>20, <1>21, <1>22, Zenon DEF CallsInv
<1> QED
  BY <1>3, <1>7, <1>8, <1>9, <1>10, <1>17, <1>19, <1>23, Zenon

\* At midnight nothing is of today any more.
LEMMA MidnightCalls ==
    ASSUME CallsInv, Midnight
    PROVE  /\ CallsInv' /\ overlapped' = overlapped
           /\ \A u \in Signers : /\ Len(sessions'[u]) = Len(sessions[u])
                                 /\ \A i \in 1..Len(sessions[u]) : sessions'[u][i].day # "today"
           /\ \A j \in Tasks : /\ task'[j].who = task[j].who /\ task'[j].todo = task[j].todo
                               /\ task'[j].row = task[j].row
<1>1. /\ sessions' = [u \in Signers |-> Aged(sessions[u])]
      /\ lastLogin' = [u \in Signers |-> Past(lastLogin[u])] /\ overlapped' = overlapped
      /\ task' = [j \in Tasks |-> [task[j] EXCEPT !.date = Past(@)]]
  BY DEF Midnight, Aged
<1>2. \A u \in Signers : /\ sessions'[u] \in Seq(Session) /\ Len(sessions'[u]) = Len(sessions[u])
                         /\ \A i \in 1..Len(sessions[u]) : sessions'[u][i].day # "today"
  <2> TAKE u \in Signers
  <2>1. sessions[u] \in Seq(Session) /\ sessions'[u] = Aged(sessions[u])
    BY <1>1 DEF CallsInv, RowsOf
  <2>2. /\ Aged(sessions[u]) \in Seq(Session) /\ Len(Aged(sessions[u])) = Len(sessions[u])
        /\ \A i \in 1..Len(sessions[u]) : Aged(sessions[u])[i].day # "today"
    BY <2>1, RowsAged, Zenon
  <2> QED
    BY <2>1, <2>2, Zenon
<1>3. \A u \in Signers : RowsOf(u)' /\ InOrder(u)'
  BY <1>2 DEF CallsInv, RowsOf, InOrder
<1>4. lastLogin' \in [Signers -> Days \cup {"never"}]
  BY <1>1 DEF CallsInv, Past, Days
<1>5. ASSUME NEW j \in Tasks
      PROVE  /\ task'[j].who = task[j].who /\ task'[j].todo = task[j].todo /\ task'[j].row = task[j].row
             /\ CallSound(j)'
  <2>1. CallSound(j)
    BY DEF CallsInv
  <2>2. PICK d \in [who: Signers \cup {Nobody}, todo: Lists, row: 0..MaxRows, date: Days \cup {"never"}] :
          d = task[j]
    BY <2>1 DEF CallSound
  <2>3. Past(d.date) \in Days \cup {"never"} /\ Past(d.date) # "today"
    BY <2>2 DEF Past, Days
  <2>4. task'[j] = [d EXCEPT !.date = Past(d.date)]
    BY <1>1, <2>2
  <2> HIDE DEF Lists
  <2>5. task'[j] = [who |-> d.who, todo |-> d.todo, row |-> d.row, date |-> Past(d.date)]
    BY <2>2, <2>4
  <2>6. /\ task'[j].who = d.who /\ task'[j].todo = d.todo /\ task'[j].row = d.row
        /\ task'[j].date # "today"
        /\ task'[j] \in [who: Signers \cup {Nobody}, todo: Lists, row: 0..MaxRows, date: Days \cup {"never"}]
    BY <2>2, <2>3, <2>5
  <2>7. d.who # Nobody => Len(sessions'[d.who]) = Len(sessions[d.who])
    BY <1>2, <2>2
  <2> QED
    BY <2>1, <2>2, <2>6, <2>7 DEF CallSound
<1>6. DOMAIN sessions' = Signers /\ DOMAIN task' = Tasks /\ overlapped' \in [Signers -> BOOLEAN]
  BY <1>1 DEF CallsInv
<1>7. \A i, k \in Tasks : Paging(i)' /\ Paging(k)' => i = k
  BY <1>5 DEF CallsInv, Paging
<1>8. CallsInv'
  BY <1>3, <1>4, <1>5, <1>6, <1>7 DEF CallsInv
<1> QED
  BY <1>1, <1>2, <1>5, <1>8

\* A request that is idle has nothing to do.
LEMMA IdleSound ==
    ASSUME NEW d, d = NoTask
    PROVE  /\ d \in [who: Signers \cup {Nobody}, todo: Lists, row: 0..MaxRows, date: Days \cup {"never"}]
           /\ d.who = Nobody /\ d.todo = <<>>
           /\ d.todo \notin {<<"open", "stamp">>, <<"open">>, <<"touch", "stamp">>,
                             <<"fill", "stampBack">>, ProfilePage, <<"stampBack">>}
<1>1. <<>> \in Lists /\ 0 \in 0..MaxRows
  BY DeskParameters DEF Lists
<1>2. d.who = Nobody /\ d.todo = <<>> /\ d.row = 0 /\ d.date = "never"
  BY DEF NoTask
<1> HIDE DEF Lists
<1>3. d \in [who: Signers \cup {Nobody}, todo: Lists, row: 0..MaxRows, date: Days \cup {"never"}]
  BY <1>1 DEF NoTask
<1> QED
  BY <1>2, <1>3, ListKinds

\* A restart forgets the requests.
LEMMA RestartCalls ==
    ASSUME CallsInv, ServerRestart
    PROVE  /\ CallsInv' /\ overlapped' = overlapped /\ sessions' = sessions
           /\ \A j \in Tasks : task'[j] = NoTask
<1>1. /\ sessions' = sessions /\ lastLogin' = lastLogin /\ overlapped' = overlapped
      /\ DOMAIN task' = Tasks /\ \A j \in Tasks : task'[j] = NoTask
  BY DEF ServerRestart
<1>2. \A j \in Tasks : CallSound(j)' /\ ~ Paging(j)'
  BY <1>1, IdleSound, Zenon DEF CallSound, Paging
<1>3. \A u \in Signers : RowsOf(u)' /\ InOrder(u)'
  BY <1>1 DEF CallsInv, RowsOf, InOrder
<1> QED
  BY <1>1, <1>2, <1>3 DEF CallsInv

\* In the beginning there are no sessions and no requests.
LEMMA CallsStart == ASSUME DeskInit PROVE CallsInv
<1>1. \A j \in Tasks : CallSound(j) /\ ~ Paging(j)
  BY IdleSound, Zenon DEF DeskInit, CallSound, Paging
<1>2. \A u \in Signers : sessions[u] = <<>>
  BY DEF DeskInit
<1>3. \A u \in Signers : RowsOf(u) /\ InOrder(u)
  <2> TAKE u \in Signers
  <2>1. sessions[u] \in Seq(Session) /\ Len(sessions[u]) = 0
    BY <1>2, EmptySeq
  <2> QED
    BY <2>1, DeskParameters DEF RowsOf, InOrder
<1> QED
  BY <1>1, <1>3 DEF DeskInit, CallsInv

\* Nothing is done to the sessions.
LEMMA CallsApart ==
    ASSUME CallsInv, sessions' = sessions, lastLogin' = lastLogin, task' = task, overlapped' = overlapped
    PROVE  CallsInv'
<1>1. \A u \in Signers : RowsOf(u)' /\ InOrder(u)'
  BY DEF CallsInv, RowsOf, InOrder
<1>2. \A j \in Tasks : CallSound(j)'
  BY DEF CallsInv, CallSound
<1>3. \A i, k \in Tasks : Paging(i)' /\ Paging(k)' => i = k
  BY DEF CallsInv, Paging
<1> QED
  BY <1>1, <1>2, <1>3 DEF CallsInv

\* Every step keeps the sessions in the order of their days, and the requests to what they do.
LEMMA CallsStep ==
    ASSUME CallsInv, [DeskNext]_deskVars
    PROVE  CallsInv'
<1>1. CASE UNCHANGED deskVars
  BY <1>1, CallsApart DEF deskVars
<1>2. ASSUME NEW j \in Tasks, NEW u \in Signers, SignIn(j, u) \/ SignOut(j, u)
      PROVE  CallsInv'
  <2>1. PICK calls \in {UserLogin, AdminLogin, UserLogOut} : StartTask(j, u, calls)
    BY <1>2 DEF SignIn, SignOut
  <2>2. calls # ProfilePage
    BY DEF UserLogin, AdminLogin, UserLogOut, ProfilePage
  <2> QED
    BY <2>1, <2>2, CallsBegun
<1>3. ASSUME NEW j \in Tasks, NEW u \in Signers, OpenProfile(j, u)
      PROVE  CallsInv'
  <2>1. \A i \in Tasks : ~ Paging(i)
    <3>1. SUFFICES ASSUME NEW i \in Tasks, Paging(i)
                   PROVE  \E call \in {"look", "fill", "stampBack"} : Due(i, call)
      BY <1>3 DEF OpenProfile
    <3> QED
      BY <3>1 DEF Paging, Due, ProfilePage
  <2> QED
    BY <1>3, <2>1, CallsBegun DEF OpenProfile
<1>4. ASSUME NEW j \in Tasks, \/ CloseAll(j) \/ OpenOne(j) \/ Stamp(j) \/ Find(j) \/ Touch(j)
                              \/ LookUp(j) \/ Fill(j) \/ StampBack(j) \/ TaskFails(j)
      PROVE  CallsInv'
  BY <1>4, CloseCalls, OpenCalls, StampCalls, FindCalls, TouchCalls, LookCalls, FillCalls,
     StampBackCalls, FailCalls
<1>5. ASSUME NEW u \in Staff, NEW t \in Targets \cup {Nobody},
             SendHeartbeat(u, t) \/ GetActivePresences(u, t)
      PROVE  CallsInv'
  <2>1. CASE u \in Signers /\ \E j \in Tasks : StartTask(j, u, Heartbeat)
    <3>1. Heartbeat # ProfilePage
      BY DEF Heartbeat, ProfilePage
    <3> QED
      BY <2>1, <3>1, CallsBegun
  <2>2. CASE UNCHANGED <<sessions, lastLogin, task, overlapped>>
    <3>1. sessions' = sessions /\ lastLogin' = lastLogin /\ task' = task /\ overlapped' = overlapped
      BY <2>2
    <3> QED
      BY <3>1, CallsApart
  <2> QED
    BY <1>5, <2>1, <2>2 DEF SendHeartbeat, GetActivePresences
<1>6. CASE Minute
  BY <1>6, CallsApart DEF Minute
<1>7. CASE Midnight
  BY <1>7, MidnightCalls
<1>8. CASE ServerRestart
  BY <1>8, RestartCalls
<1> QED
  BY <1>1, <1>2, <1>3, <1>4, <1>5, <1>6, <1>7, <1>8 DEF DeskNext

\* A request that has no marks to make has nothing to know.
LEMMA ReadyQuiet ==
    ASSUME NEW j, task'[j].todo \notin {<<"open", "stamp">>, <<"open">>, <<"touch", "stamp">>,
                                        <<"fill", "stampBack">>}
    PROVE  Ready(j)'
  BY DEF Ready

\* What a request knows of sessions that are as they were.
LEMMA ReadySame ==
    ASSUME NEW j, NEW v, task[j].who = v, task'[j] = task[j], sessions'[v] = sessions[v], Ready(j)
    PROVE  Ready(j)'
<1>1. task'[j].who = v /\ task'[j].todo = task[j].todo /\ task'[j].row = task[j].row
  OBVIOUS
<1>2. {i \in DOMAIN sessions'[v] : sessions'[v][i].day = "today"}
        = {i \in DOMAIN sessions[v] : sessions[v][i].day = "today"}
  OBVIOUS
<1>3. CASE task[j].todo \in {<<"open", "stamp">>, <<"open">>}
  <2>1. \A i \in OfToday(v) : sessions[v][i].current = FALSE
    BY <1>3 DEF Ready
  <2>2. \A i \in {k \in DOMAIN sessions[v] : sessions[v][k].day = "today"} :
          sessions'[v][i].current = FALSE
    BY <2>1 DEF OfToday
  <2> QED
    BY <1>1, <1>2, <1>3, <2>2 DEF Ready, OfToday
<1>4. CASE task[j].todo \notin {<<"open", "stamp">>, <<"open">>}
  BY <1>1, <1>4 DEF Ready
<1> QED
  BY <1>3, <1>4

\* The requests of an account whose sessions are as they were.
LEMMA MarksSame ==
    ASSUME NEW v \in Signers, Marks(v), sessions'[v] = sessions[v], overlapped'[v] = overlapped[v],
           \A i \in Tasks : task'[i].who = v =>
               \/ task'[i] = task[i]
               \/ task[i].who = v /\ (Marking(i)' => Marking(i)) /\ Ready(i)'
    PROVE  Marks(v)'
<1> SUFFICES ASSUME overlapped[v] = FALSE
             PROVE  /\ \A i, k \in Tasks : task'[i].who = v /\ Marking(i)' /\ task'[k].who = v /\ Marking(k)'
                                               => i = k
                    /\ \A i \in OfToday(v)' : sessions'[v][i].current => i = Len(sessions'[v])
                    /\ \A j \in Tasks : task'[j].who = v => Ready(j)'
  BY Zenon DEF Marks
<1>1. /\ \A i, k \in Tasks : task[i].who = v /\ Marking(i) /\ task[k].who = v /\ Marking(k) => i = k
      /\ \A i \in OfToday(v) : sessions[v][i].current => i = Len(sessions[v])
      /\ \A j \in Tasks : task[j].who = v => Ready(j)
  BY Zenon DEF Marks
<1>2. OfToday(v)' = OfToday(v)
  BY DEF OfToday
<1>3. \A i \in Tasks : task'[i].who = v => task[i].who = v /\ (Marking(i)' => Marking(i))
  BY DEF Marking
<1>4. \A i, k \in Tasks : task'[i].who = v /\ Marking(i)' /\ task'[k].who = v /\ Marking(k)' => i = k
  BY <1>1, <1>3, Zenon
<1>5. ASSUME NEW j \in Tasks, task'[j].who = v, task'[j] = task[j] PROVE Ready(j)'
  <2>1. task[j].who = v /\ Ready(j)
    BY <1>1, <1>3, <1>5, Zenon
  <2> QED
    BY <1>5, <2>1, ReadySame
<1> QED
  BY <1>1, <1>2, <1>4, <1>5, Zenon

\* While the sessions are not crossed, the others of an account only sign out.
LEMMA OneMarker ==
    ASSUME NEW u \in Signers, Marks(u), overlapped[u] = FALSE, NEW j \in Tasks, task[j].who = u,
           Marking(j)
    PROVE  \A i \in Tasks : i # j /\ task[i].who = u => task[i].todo = UserLogOut
<1>1. \A i, k \in Tasks : task[i].who = u /\ Marking(i) /\ task[k].who = u /\ Marking(k) => i = k
  BY Zenon DEF Marks
<1>2. u # Nobody
  BY DeskParameters
<1> QED
  BY <1>1, <1>2 DEF Marking

\* A request begins, and meets another one or none.
LEMMA MarksBegun ==
    ASSUME CallsInv, MarksInv, NEW j \in Tasks, NEW u \in Signers,
           NEW calls \in {UserLogin, AdminLogin, UserLogOut, Heartbeat, ProfilePage},
           StartTask(j, u, calls), task'[j].who = u, task'[j].todo = calls,
           \A i \in Tasks : i # j => task'[i] = task[i]
    PROVE  MarksInv'
<1>1. task[j].who = Nobody
  BY DEF StartTask, NoTask
<1>2. sessions' = sessions
  BY DEF StartTask
<1>3. /\ \A v \in Signers : v # u => overlapped'[v] = overlapped[v]
      /\ overlapped'[u] = (overlapped[u] \/ (calls # UserLogOut /\ Overlaps(j, u)))
  BY Zenon DEF StartTask, CallsInv
<1>4. Ready(j)'
  <2>1. calls \notin {<<"open", "stamp">>, <<"open">>, <<"touch", "stamp">>, <<"fill", "stampBack">>}
    BY ListKinds
  <2> QED
    BY <2>1, ReadyQuiet
<1>5. ASSUME NEW v \in Signers, v # u PROVE Marks(v)'
  <2>1. \A i \in Tasks : task'[i].who = v => task'[i] = task[i]
    BY <1>5
  <2> QED
    BY <1>2, <1>3, <1>5, <2>1, MarksSame DEF MarksInv
<1>6. Marks(u)'
  <2>1. SUFFICES ASSUME overlapped'[u] = FALSE
                 PROVE  /\ \A i, k \in Tasks : task'[i].who = u /\ Marking(i)' /\ task'[k].who = u /\ Marking(k)'
                                                   => i = k
                        /\ \A i \in OfToday(u)' : sessions'[u][i].current => i = Len(sessions'[u])
                        /\ \A i \in Tasks : task'[i].who = u => Ready(i)'
    BY Zenon DEF Marks
  <2>2. overlapped[u] = FALSE /\ (calls = UserLogOut \/ ~ Overlaps(j, u))
    BY <1>3, <2>1, Zenon DEF CallsInv
  <2>3. /\ \A i, k \in Tasks : task[i].who = u /\ Marking(i) /\ task[k].who = u /\ Marking(k) => i = k
        /\ \A i \in OfToday(u) : sessions[u][i].current => i = Len(sessions[u])
        /\ \A i \in Tasks : task[i].who = u => Ready(i)
    BY <2>2, Zenon DEF MarksInv, Marks
  <2>4. OfToday(u)' = OfToday(u)
    BY <1>2 DEF OfToday
  <2>5. \A i \in Tasks : i # j => (Marking(i)' <=> Marking(i)) /\ task'[i].who = task[i].who
    BY DEF Marking
  <2>6. Marking(j)' => \A i \in Tasks : i # j => ~ (task[i].who = u /\ Marking(i))
    BY <2>2 DEF Marking, Overlaps
  <2>7. \A i, k \in Tasks : task'[i].who = u /\ Marking(i)' /\ task'[k].who = u /\ Marking(k)' => i = k
    BY <2>3, <2>5, <2>6, Zenon
  <2>8. ASSUME NEW i \in Tasks, i # j, task'[i].who = u PROVE Ready(i)'
    <3>1. task'[i] = task[i] /\ task[i].who = u
      BY <2>8
    <3>2. Ready(i)
      BY <2>3, <3>1, Zenon
    <3> QED
      BY <1>2, <3>1, <3>2, ReadySame
  <2> QED
    BY <1>2, <1>4, <2>3, <2>4, <2>7, <2>8, Zenon
<1> QED
  BY <1>5, <1>6 DEF MarksInv

\* A request that goes on with these calls has no marks to make.
Quiet == {<<>>, <<"stamp">>, <<"close", "open">>, <<"stampBack">>}

\* A call that touches no session, after which the request has no marks to make.
LEMMA MarksGone ==
    ASSUME CallsInv, MarksInv, NEW j \in Tasks, NEW l \in Quiet, Goes(j, l), task[j].todo # <<>>,
           sessions' = sessions, overlapped' = overlapped, Marking(j) \/ l = <<>>
    PROVE  MarksInv'
<1>1. l \in Lists
  BY DEF Quiet, Lists
<1>2. l \notin {<<"open", "stamp">>, <<"open">>, <<"touch", "stamp">>, <<"fill", "stampBack">>}
  BY ListKinds DEF Quiet
<1> HIDE DEF Lists
<1>3. /\ \A i \in Tasks : i # j => task'[i] = task[i]
      /\ task'[j].todo = l
      /\ l = <<>> => task'[j] = NoTask
      /\ l # <<>> => task'[j].who = task[j].who
  BY <1>1, GoesFacts, Zenon
<1>4. Ready(j)'
  BY <1>2, <1>3, ReadyQuiet
<1>5. l = <<>> => task'[j].who = Nobody
  BY <1>3 DEF NoTask
<1>6. ASSUME NEW v \in Signers PROVE Marks(v)'
  <2>1. v # Nobody
    BY DeskParameters
  <2>2. task'[j].who = v => task[j].who = v /\ Marking(j)
    BY <1>3, <1>5, <2>1
  <2> QED
    BY <1>3, <1>4, <2>2, MarksSame DEF MarksInv
<1> QED
  BY <1>6 DEF MarksInv

\* The calls about the last sign-in leave the marks, and so does a failure.
LEMMA StampMarks ==
    ASSUME CallsInv, MarksInv, NEW j \in Tasks, Stamp(j) \/ StampBack(j) \/ TaskFails(j)
    PROVE  MarksInv'
<1>1. sessions' = sessions /\ overlapped' = overlapped
  BY DEF Stamp, StampBack, TaskFails
<1>2. <<>> \in Quiet
  BY DEF Quiet
<1>3. CASE Stamp(j)
  <2>1. task[j].todo # <<>> /\ Head(task[j].todo) = "stamp" /\ Goes(j, Tail(task[j].todo))
    BY <1>3 DEF Stamp, Due
  <2>2. Tail(task[j].todo) \in Quiet
    BY <1>3, StampCalls DEF Quiet
  <2>3. Head(UserLogOut) # "stamp"
    BY DEF UserLogOut
  <2>4. Marking(j)
    BY <2>1, <2>3, AtWork DEF Marking
  <2> QED
    BY <1>1, <2>1, <2>2, <2>4, MarksGone
<1>4. CASE StampBack(j)
  BY <1>1, <1>2, <1>4, MarksGone DEF StampBack, Due
<1>5. CASE TaskFails(j)
  <2>1. task[j].todo # <<>>
    BY <1>5 DEF TaskFails, CallsInv, CallSound
  <2> QED
    BY <1>1, <1>2, <1>5, <2>1, MarksGone DEF TaskFails
<1> QED
  BY <1>3, <1>4, <1>5

\* The sessions of an account are closed: none is marked, and who is to mark one knows it.
LEMMA CloseMarks ==
    ASSUME CallsInv, MarksInv, NEW j \in Tasks, CloseAll(j)
    PROVE  MarksInv'
<1>1. PICK u : u = task[j].who
  OBVIOUS
<1>2. task[j].todo # <<>> /\ Goes(j, Tail(task[j].todo)) /\ u \in Signers /\ u # Nobody
      /\ sessions[u] \in Seq(Session)
  <2>1. task[j].todo # <<>> /\ Goes(j, Tail(task[j].todo))
    BY DEF CloseAll, Due
  <2> QED
    BY <1>1, <2>1, AtWork
<1>3. /\ CallsInv'
      /\ Tail(task[j].todo) \in {<<>>, <<"open", "stamp">>, <<"open">>}
      /\ Tail(task[j].todo) = <<>> => task[j].todo = UserLogOut
      /\ Len(sessions'[u]) = Len(sessions[u])
      /\ \A i \in 1..Len(sessions[u]) : sessions'[u][i].current = FALSE
      /\ \A v \in Signers : v # u => sessions'[v] = sessions[v] /\ overlapped'[v] = overlapped[v]
      /\ overlapped'[u] = (overlapped[u] /\ Overlaps(j, u))
  BY <1>1, CloseCalls, Zenon
<1>4. Tail(task[j].todo) \in Lists
  BY <1>3 DEF Lists
<1> HIDE DEF Lists
<1>5. /\ \A i \in Tasks : i # j => task'[i] = task[i]
      /\ task'[j].todo = Tail(task[j].todo)
      /\ (task'[j].who = u /\ Tail(task[j].todo) # <<>>) \/ task'[j].who = Nobody
  <2>1. /\ \A i \in Tasks : i # j => task'[i] = task[i]
        /\ task'[j].todo = Tail(task[j].todo)
        /\ Tail(task[j].todo) = <<>> => task'[j] = NoTask
        /\ Tail(task[j].todo) # <<>> => task'[j].who = task[j].who
    BY <1>2, <1>4, GoesFacts, Zenon
  <2>2. NoTask.who = Nobody
    BY DEF NoTask
  <2> QED
    BY <1>1, <2>1, <2>2, Zenon
<1>6. ASSUME NEW v \in Signers, v # u PROVE Marks(v)'
  <2>1. \A i \in Tasks : task'[i].who = v => task'[i] = task[i]
    BY <1>5, <1>6, DeskParameters
  <2> QED
    BY <1>3, <1>6, <2>1, MarksSame DEF MarksInv
<1>7. \A i \in OfToday(u)' : sessions'[u][i].current = FALSE
  <2>1. sessions'[u] \in Seq(Session)
    BY <1>2, <1>3 DEF CallsInv, RowsOf
  <2>2. DOMAIN sessions'[u] = 1..Len(sessions[u])
    BY <1>3, <2>1, LenProperties
  <2> QED
    BY <1>3, <2>2 DEF OfToday
<1>8. Marks(u)'
  <2>1. SUFFICES ASSUME overlapped'[u] = FALSE
                 PROVE  /\ \A i, k \in Tasks : task'[i].who = u /\ Marking(i)' /\ task'[k].who = u /\ Marking(k)'
                                                   => i = k
                        /\ \A i \in Tasks : task'[i].who = u => Ready(i)'
    BY <1>7, Zenon DEF Marks
  <2>2. overlapped[u] = FALSE \/ ~ Overlaps(j, u)
    BY <1>2, <1>3, <2>1, Zenon DEF CallsInv
  <2>3. \A i \in Tasks : i # j => (Marking(i)' <=> Marking(i)) /\ task'[i].who = task[i].who
    BY <1>5 DEF Marking
  <2>4. Ready(j)'
    <3>1. /\ \A l \in {<<"open", "stamp">>, <<"open">>} : l \notin {<<"touch", "stamp">>, <<"fill", "stampBack">>}
          /\ <<>> \notin {<<"open", "stamp">>, <<"open">>, <<"touch", "stamp">>, <<"fill", "stampBack">>}
      BY ListKinds
    <3>2. CASE task'[j].who = Nobody
      <4>1. task'[j].todo = <<>>
        BY <1>3, <3>2 DEF CallsInv, CallSound
      <4> QED
        BY <3>1, <4>1, ReadyQuiet
    <3>3. CASE task'[j].who = u
      <4>1. task'[j].todo \notin {<<"touch", "stamp">>, <<"fill", "stampBack">>}
        BY <1>3, <1>5, <3>1
      <4> QED
        BY <1>7, <3>3, <4>1 DEF Ready
    <3> QED
      BY <1>5, <3>2, <3>3
  <2>5. CASE ~ Overlaps(j, u)
    <3>1. \A i \in Tasks : i # j => ~ (task[i].who = u /\ Marking(i))
      BY <2>5 DEF Overlaps
    <3>2. \A i, k \in Tasks : task'[i].who = u /\ Marking(i)' /\ task'[k].who = u /\ Marking(k)' => i = k
      BY <2>3, <3>1, Zenon
    <3>3. ASSUME NEW i \in Tasks, i # j, task'[i].who = u PROVE Ready(i)'
      <4>1. task'[i].todo = UserLogOut
        BY <1>2, <1>5, <3>1, <3>3 DEF Marking
      <4> QED
        BY <4>1, ListKinds, ReadyQuiet
    <3> QED
      BY <2>4, <3>2, <3>3
  <2>6. CASE Overlaps(j, u) /\ overlapped[u] = FALSE
    <3>1. /\ \A i, k \in Tasks : task[i].who = u /\ Marking(i) /\ task[k].who = u /\ Marking(k) => i = k
          /\ \A i \in Tasks : task[i].who = u => Ready(i)
      BY <1>2, <2>6, Zenon DEF MarksInv, Marks
    <3>2. ~ Marking(j)
      BY <1>1, <2>6, <3>1 DEF Overlaps
    <3>3. task[j].todo = UserLogOut
      BY <1>1, <1>2, <3>2 DEF Marking
    <3>4. task'[j].who = Nobody
      <4>1. Tail(task[j].todo) = <<>>
        BY <3>3 DEF UserLogOut
      <4> QED
        BY <1>5, <4>1
    <3>5. \A i, k \in Tasks : task'[i].who = u /\ Marking(i)' /\ task'[k].who = u /\ Marking(k)' => i = k
      BY <1>2, <2>3, <3>1, <3>4, Zenon
    <3>6. ASSUME NEW i \in Tasks, i # j, task'[i].who = u PROVE Ready(i)'
      <4>1. Ready(i) /\ task'[i] = task[i] /\ task[i].who = u
        BY <1>5, <3>1, <3>6
      <4>2. sessions[u] = <<>> => sessions'[u] = <<>>
        <5>1. sessions'[u] \in Seq(Session)
          BY <1>2, <1>3 DEF CallsInv, RowsOf
        <5>2. sessions[u] = <<>> => Len(sessions[u]) = 0
          BY EmptySeq
        <5> QED
          BY <1>3, <5>1, <5>2, EmptySeq
      <4> QED
        BY <1>3, <1>7, <4>1, <4>2 DEF Ready
    <3> QED
      BY <2>4, <3>5, <3>6
  <2> QED
    BY <2>2, <2>5, <2>6
<1> QED
  BY <1>6, <1>8 DEF MarksInv

\* A session is opened when none of today is marked.
LEMMA OpenMarks ==
    ASSUME CallsInv, MarksInv, NEW j \in Tasks, OpenOne(j)
    PROVE  MarksInv'
<1>1. PICK u : u = task[j].who
  OBVIOUS
<1>2. /\ task[j].todo # <<>> /\ Goes(j, Tail(task[j].todo)) /\ overlapped' = overlapped
      /\ u \in Signers /\ u # Nobody /\ sessions[u] \in Seq(Session)
  <2>1. task[j].todo # <<>> /\ Goes(j, Tail(task[j].todo)) /\ overlapped' = overlapped
    BY DEF OpenOne, Due
  <2> QED
    BY <1>1, <2>1, AtWork
<1>3. /\ CallsInv'
      /\ task[j].todo \in {<<"open", "stamp">>, <<"open">>}
      /\ Tail(task[j].todo) \in {<<>>, <<"stamp">>}
      /\ Len(sessions'[u]) = Len(sessions[u]) + 1
      /\ \A i \in 1..Len(sessions[u]) : sessions'[u][i] = sessions[u][i]
      /\ \A v \in Signers : v # u => sessions'[v] = sessions[v]
  BY <1>1, OpenCalls, Zenon
<1>4. Tail(task[j].todo) \in Lists
  BY <1>3 DEF Lists
<1> HIDE DEF Lists
<1>5. /\ \A i \in Tasks : i # j => task'[i] = task[i]
      /\ task'[j].todo = Tail(task[j].todo)
      /\ task'[j].who = u \/ task'[j].who = Nobody
  <2>1. /\ \A i \in Tasks : i # j => task'[i] = task[i]
        /\ task'[j].todo = Tail(task[j].todo)
        /\ Tail(task[j].todo) = <<>> => task'[j] = NoTask
        /\ Tail(task[j].todo) # <<>> => task'[j].who = task[j].who
    BY <1>2, <1>4, GoesFacts, Zenon
  <2>2. NoTask.who = Nobody
    BY DEF NoTask
  <2> QED
    BY <1>1, <2>1, <2>2, Zenon
<1>6. ASSUME NEW v \in Signers, v # u PROVE Marks(v)'
  <2>1. \A i \in Tasks : task'[i].who = v => task'[i] = task[i]
    BY <1>5, <1>6, DeskParameters
  <2> QED
    BY <1>2, <1>3, <1>6, <2>1, MarksSame DEF MarksInv
<1>7. Marks(u)'
  <2>1. SUFFICES ASSUME overlapped[u] = FALSE
                 PROVE  /\ \A i, k \in Tasks : task'[i].who = u /\ Marking(i)' /\ task'[k].who = u /\ Marking(k)'
                                                   => i = k
                        /\ \A i \in OfToday(u)' : sessions'[u][i].current => i = Len(sessions'[u])
                        /\ \A i \in Tasks : task'[i].who = u => Ready(i)'
    BY <1>2, Zenon DEF Marks
  <2>2. Marking(j)
    BY <1>1, <1>2, <1>3, ListKinds DEF Marking
  <2>3. \A i \in Tasks : i # j /\ task[i].who = u => task[i].todo = UserLogOut
    BY <1>1, <1>2, <2>1, <2>2, OneMarker DEF MarksInv
  <2>4. \A i \in Tasks : task'[i].who = u => i = j \/ task'[i].todo = UserLogOut
    BY <1>5, <2>3
  <2>5. \A i, k \in Tasks : task'[i].who = u /\ Marking(i)' /\ task'[k].who = u /\ Marking(k)' => i = k
    BY <2>4 DEF Marking
  <2>6. \A i \in Tasks : task'[i].who = u => Ready(i)'
    <3>1. \A l \in {UserLogOut, <<>>, <<"stamp">>} :
             l \notin {<<"open", "stamp">>, <<"open">>, <<"touch", "stamp">>, <<"fill", "stampBack">>}
      BY ListKinds
    <3>2. \A i \in Tasks : task'[i].who = u => task'[i].todo \in {UserLogOut, <<>>, <<"stamp">>}
      BY <1>3, <1>5, <2>4
    <3> QED
      BY <3>1, <3>2, ReadyQuiet
  <2>7. \A i \in OfToday(u)' : sessions'[u][i].current => i = Len(sessions'[u])
    <3>1. sessions'[u] \in Seq(Session)
      BY <1>2, <1>3 DEF CallsInv, RowsOf
    <3>2. PICK n \in Nat : n = Len(sessions[u]) /\ DOMAIN sessions[u] = 1..n
      BY <1>2, LenProperties
    <3>3. DOMAIN sessions'[u] = 1..n + 1 /\ Len(sessions'[u]) = n + 1
      BY <1>3, <3>1, <3>2, LenProperties
    <3>4. \A i \in OfToday(u) : sessions[u][i].current = FALSE
      <4>1. Ready(j)
        BY <1>1, <1>2, <2>1, Zenon DEF MarksInv, Marks
      <4> QED
        BY <1>1, <1>3, <4>1 DEF Ready
    <3>5. ASSUME NEW i \in OfToday(u)', i # n + 1 PROVE sessions'[u][i].current = FALSE
      <4>1. i \in 1..n + 1 /\ sessions'[u][i].day = "today"
        BY <3>3 DEF OfToday
      <4>2. i \in 1..n
        BY <3>5, <4>1
      <4>3. sessions'[u][i] = sessions[u][i]
        BY <1>3, <3>2, <4>2
      <4>4. i \in OfToday(u)
        BY <3>2, <4>1, <4>2, <4>3 DEF OfToday
      <4> QED
        BY <3>4, <4>3, <4>4
    <3> QED
      BY <3>3, <3>5
  <2> QED
    BY <2>5, <2>6, <2>7
<1> QED
  BY <1>6, <1>7 DEF MarksInv

\* A heartbeat finds the latest session of the day, or none.
LEMMA FindMarks ==
    ASSUME CallsInv, MarksInv, NEW j \in Tasks, Find(j)
    PROVE  MarksInv'
<1>1. PICK u : u = task[j].who
  OBVIOUS
<1>2. /\ sessions' = sessions /\ overlapped' = overlapped
      /\ task[j].todo = Heartbeat
      /\ \A i \in Tasks : i # j => task'[i] = task[i]
      /\ task'[j].who = u
      /\ \/ task'[j].todo = <<"open", "stamp">> /\ OfToday(u) = {}
         \/ task'[j].todo = <<"touch", "stamp">> /\ task'[j].row = Len(sessions[u])
  BY <1>1, FindCalls, Zenon
<1>3. u \in Signers /\ u # Nobody
  BY <1>1, AtWork DEF Find, Due
<1>4. Marking(j)
  <2>1. Heartbeat # UserLogOut
    BY DEF Heartbeat, UserLogOut
  <2> QED
    BY <1>1, <1>2, <1>3, <2>1 DEF Marking
<1>5. OfToday(u)' = OfToday(u)
  BY <1>2 DEF OfToday
<1>6. Ready(j)'
  <2>1. <<"open", "stamp">> \notin {<<"touch", "stamp">>, <<"fill", "stampBack">>}
        /\ <<"touch", "stamp">> \notin {<<"open", "stamp">>, <<"open">>, <<"fill", "stampBack">>}
    BY ListKinds
  <2> QED
    BY <1>2, <1>5, <2>1, Zenon DEF Ready
<1> QED
  BY <1>1, <1>2, <1>4, <1>6, MarksSame DEF MarksInv

\* A page that will make a session up has found none.
LEMMA LookMarks ==
    ASSUME CallsInv, MarksInv, NEW j \in Tasks, LookUp(j)
    PROVE  MarksInv'
<1>1. PICK u : u = task[j].who
  OBVIOUS
<1>2. /\ sessions' = sessions /\ overlapped' = overlapped
      /\ task[j].todo = ProfilePage
      /\ \A i \in Tasks : i # j => task'[i] = task[i]
      /\ \/ task'[j] = NoTask
         \/ task'[j].who = u /\ task'[j].todo = <<"fill", "stampBack">> /\ sessions[u] = <<>>
  BY <1>1, LookCalls, Zenon
<1>3. u \in Signers /\ u # Nobody
  BY <1>1, AtWork DEF LookUp, Due
<1>4. Marking(j)
  <2>1. ProfilePage # UserLogOut
    BY DEF ProfilePage, UserLogOut
  <2> QED
    BY <1>1, <1>2, <1>3, <2>1 DEF Marking
<1>5. Ready(j)'
  <2>1. <<"fill", "stampBack">> \notin {<<"touch", "stamp">>, <<"open", "stamp">>, <<"open">>}
    BY ListKinds
  <2>2. CASE task'[j] = NoTask
    BY <2>2, IdleSound, ReadyQuiet
  <2>3. CASE task'[j].who = u /\ task'[j].todo = <<"fill", "stampBack">> /\ sessions[u] = <<>>
    BY <1>2, <2>1, <2>3 DEF Ready
  <2> QED
    BY <1>2, <2>2, <2>3
<1>6. \A v \in Signers : task'[j].who = v => task[j].who = v
  BY <1>1, <1>2, DeskParameters DEF NoTask
<1> QED
  BY <1>1, <1>2, <1>4, <1>5, <1>6, MarksSame DEF MarksInv

\* The session a heartbeat found is the latest still.
LEMMA TouchMarks ==
    ASSUME CallsInv, MarksInv, NEW j \in Tasks, Touch(j)
    PROVE  MarksInv'
<1>1. PICK u : u = task[j].who
  OBVIOUS
<1>2. /\ CallsInv'
      /\ task[j].todo = <<"touch", "stamp">> /\ task[j].row \in 1..Len(sessions[u])
      /\ Goes(j, <<"stamp">>) /\ overlapped' = overlapped
      /\ Len(sessions'[u]) = Len(sessions[u])
      /\ \A i \in 1..Len(sessions[u]) : /\ sessions'[u][i].day = sessions[u][i].day
                                        /\ i # task[j].row => sessions'[u][i] = sessions[u][i]
      /\ \A v \in Signers : v # u => sessions'[v] = sessions[v]
  BY <1>1, TouchCalls
<1>3. task[j].todo # <<>> /\ u \in Signers /\ u # Nobody /\ sessions[u] \in Seq(Session)
  <2>1. task[j].todo # <<>>
    BY <1>2
  <2> QED
    BY <1>1, <2>1, AtWork
<1>4. <<"stamp">> \in Lists /\ <<"stamp">> # <<>>
  BY DEF Lists
<1> HIDE DEF Lists
<1>5. /\ \A i \in Tasks : i # j => task'[i] = task[i]
      /\ task'[j].todo = <<"stamp">> /\ task'[j].who = u
  BY <1>1, <1>2, <1>4, GoesFacts, Zenon
<1>6. ASSUME NEW v \in Signers, v # u PROVE Marks(v)'
  <2>1. \A i \in Tasks : task'[i].who = v => task'[i] = task[i]
    BY <1>5, <1>6
  <2> QED
    BY <1>2, <1>6, <2>1, MarksSame DEF MarksInv
<1>7. Marks(u)'
  <2>1. SUFFICES ASSUME overlapped[u] = FALSE
                 PROVE  /\ \A i, k \in Tasks : task'[i].who = u /\ Marking(i)' /\ task'[k].who = u /\ Marking(k)'
                                                   => i = k
                        /\ \A i \in OfToday(u)' : sessions'[u][i].current => i = Len(sessions'[u])
                        /\ \A i \in Tasks : task'[i].who = u => Ready(i)'
    BY <1>2, Zenon DEF Marks
  <2>2. Marking(j)
    BY <1>1, <1>2, <1>3, ListKinds DEF Marking
  <2>3. \A i \in Tasks : i # j /\ task[i].who = u => task[i].todo = UserLogOut
    BY <1>1, <1>3, <2>1, <2>2, OneMarker DEF MarksInv
  <2>4. \A i \in Tasks : task'[i].who = u => i = j \/ task'[i].todo = UserLogOut
    BY <1>5, <2>3
  <2>5. \A i, k \in Tasks : task'[i].who = u /\ Marking(i)' /\ task'[k].who = u /\ Marking(k)' => i = k
    BY <2>4 DEF Marking
  <2>6. \A i \in Tasks : task'[i].who = u => Ready(i)'
    <3>1. \A l \in {UserLogOut, <<"stamp">>} :
             l \notin {<<"open", "stamp">>, <<"open">>, <<"touch", "stamp">>, <<"fill", "stampBack">>}
      BY ListKinds
    <3>2. \A i \in Tasks : task'[i].who = u => task'[i].todo \in {UserLogOut, <<"stamp">>}
      BY <1>5, <2>4
    <3> QED
      BY <3>1, <3>2, ReadyQuiet
  <2>7. \A i \in OfToday(u)' : sessions'[u][i].current => i = Len(sessions'[u])
    <3>1. sessions'[u] \in Seq(Session)
      BY <1>2, <1>3 DEF CallsInv, RowsOf
    <3>2. PICK n \in Nat : n = Len(sessions[u]) /\ DOMAIN sessions[u] = 1..n
      BY <1>3, LenProperties
    <3>3. DOMAIN sessions'[u] = 1..n /\ Len(sessions'[u]) = n
      BY <1>2, <3>1, <3>2, LenProperties
    <3>4. /\ \A i \in OfToday(u) : sessions[u][i].current => i = Len(sessions[u])
          /\ task[j].row = Len(sessions[u])
      <4>1. Ready(j) /\ \A i \in OfToday(u) : sessions[u][i].current => i = Len(sessions[u])
        BY <1>1, <1>3, <2>1, Zenon DEF MarksInv, Marks
      <4> QED
        BY <1>1, <1>2, <4>1, Zenon DEF Ready
    <3>5. ASSUME NEW i \in OfToday(u)', i # n, sessions'[u][i].current PROVE FALSE
      <4>1. i \in 1..n /\ sessions'[u][i].day = "today"
        BY <3>3, <3>5 DEF OfToday
      <4>2. sessions'[u][i] = sessions[u][i] /\ sessions[u][i].day = "today"
        BY <1>2, <3>2, <3>4, <3>5, <4>1
      <4>3. i \in OfToday(u)
        BY <3>2, <4>1, <4>2 DEF OfToday
      <4>4. sessions[u][i].current
        BY <3>5, <4>2, Zenon
      <4> QED
        BY <3>2, <3>4, <3>5, <4>3, <4>4
    <3> QED
      BY <3>3, <3>5
  <2> QED
    BY <2>5, <2>6, <2>7
<1> QED
  BY <1>6, <1>7 DEF MarksInv

\* A page makes a session up when the account has none.
LEMMA FillMarks ==
    ASSUME CallsInv, MarksInv, NEW j \in Tasks, Fill(j)
    PROVE  MarksInv'
<1>1. PICK u : u = task[j].who
  OBVIOUS
<1>2. /\ CallsInv'
      /\ overlapped' = overlapped
      /\ task[j].todo = <<"fill", "stampBack">>
      /\ task'[j].who = u /\ task'[j].todo = <<"stampBack">>
      /\ \A i \in Tasks : i # j => /\ task'[i].who = task[i].who /\ task'[i].todo = task[i].todo
                                   /\ task[i].who # u => task'[i] = task[i]
      /\ Len(sessions'[u]) = Len(sessions[u]) + 1
      /\ \A v \in Signers : v # u => sessions'[v] = sessions[v]
  BY <1>1, FillCalls, Zenon
<1>3. u \in Signers /\ u # Nobody
  BY <1>1, AtWork DEF Fill, Due
<1>4. ASSUME NEW v \in Signers, v # u PROVE Marks(v)'
  <2>1. \A i \in Tasks : task'[i].who = v => task'[i] = task[i]
    BY <1>2, <1>4
  <2> QED
    BY <1>2, <1>4, <2>1, MarksSame DEF MarksInv
<1>5. Marks(u)'
  <2>1. SUFFICES ASSUME overlapped[u] = FALSE
                 PROVE  /\ \A i, k \in Tasks : task'[i].who = u /\ Marking(i)' /\ task'[k].who = u /\ Marking(k)'
                                                   => i = k
                        /\ \A i \in OfToday(u)' : sessions'[u][i].current => i = Len(sessions'[u])
                        /\ \A i \in Tasks : task'[i].who = u => Ready(i)'
    BY <1>2, Zenon DEF Marks
  <2>2. Marking(j)
    BY <1>1, <1>2, <1>3, ListKinds DEF Marking
  <2>3. \A i \in Tasks : i # j /\ task[i].who = u => task[i].todo = UserLogOut
    BY <1>1, <1>3, <2>1, <2>2, OneMarker DEF MarksInv
  <2>4. \A i \in Tasks : task'[i].who = u => i = j \/ task'[i].todo = UserLogOut
    BY <1>2, <2>3
  <2>5. \A i, k \in Tasks : task'[i].who = u /\ Marking(i)' /\ task'[k].who = u /\ Marking(k)' => i = k
    BY <2>4 DEF Marking
  <2>6. \A i \in Tasks : task'[i].who = u => Ready(i)'
    <3>1. \A l \in {UserLogOut, <<"stampBack">>} :
             l \notin {<<"open", "stamp">>, <<"open">>, <<"touch", "stamp">>, <<"fill", "stampBack">>}
      BY ListKinds
    <3>2. \A i \in Tasks : task'[i].who = u => task'[i].todo \in {UserLogOut, <<"stampBack">>}
      BY <1>2, <2>4
    <3> QED
      BY <3>1, <3>2, ReadyQuiet
  <2>7. \A i \in OfToday(u)' : i = Len(sessions'[u])
    <3>1. sessions[u] = <<>>
      <4>1. Ready(j)
        BY <1>1, <1>3, <2>1, Zenon DEF MarksInv, Marks
      <4> QED
        BY <1>1, <1>2, <4>1, Zenon DEF Ready
    <3>2. Len(sessions'[u]) = 1
      BY <1>2, <3>1, EmptySeq
    <3>3. sessions'[u] \in Seq(Session)
      BY <1>2, <1>3 DEF CallsInv, RowsOf
    <3>4. DOMAIN sessions'[u] = 1..1
      BY <3>2, <3>3, LenProperties
    <3> QED
      BY <3>2, <3>4 DEF OfToday
  <2> QED
    BY <2>5, <2>6, <2>7
<1> QED
  BY <1>4, <1>5 DEF MarksInv

\* At midnight what was marked is of the day before.
LEMMA MidnightMarks ==
    ASSUME CallsInv, MarksInv, Midnight
    PROVE  MarksInv'
<1>1. /\ CallsInv' /\ overlapped' = overlapped
      /\ \A u \in Signers : /\ Len(sessions'[u]) = Len(sessions[u])
                            /\ \A i \in 1..Len(sessions[u]) : sessions'[u][i].day # "today"
      /\ \A j \in Tasks : /\ task'[j].who = task[j].who /\ task'[j].todo = task[j].todo
                          /\ task'[j].row = task[j].row
  BY MidnightCalls, Zenon
<1>2. ASSUME NEW u \in Signers
      PROVE  OfToday(u)' = {} /\ (sessions[u] = <<>> => sessions'[u] = <<>>)
  <2>1. sessions[u] \in Seq(Session) /\ sessions'[u] \in Seq(Session)
    BY <1>1 DEF CallsInv, RowsOf
  <2>2. DOMAIN sessions'[u] = 1..Len(sessions[u])
    BY <1>1, <2>1, LenProperties
  <2>3. sessions[u] = <<>> => Len(sessions'[u]) = 0
    BY <1>1, EmptySeq
  <2> QED
    BY <1>1, <2>1, <2>2, <2>3, EmptySeq DEF OfToday
<1>3. \A j \in Tasks : Marking(j)' <=> Marking(j)
  BY <1>1 DEF Marking
<1>4. ASSUME NEW j \in Tasks, task[j].who \in Signers, Ready(j) PROVE Ready(j)'
  BY <1>1, <1>2, <1>4 DEF Ready
<1>5. ASSUME NEW u \in Signers PROVE Marks(u)'
  <2>1. SUFFICES ASSUME overlapped[u] = FALSE
                 PROVE  /\ \A i, k \in Tasks : task'[i].who = u /\ Marking(i)' /\ task'[k].who = u /\ Marking(k)'
                                                   => i = k
                        /\ \A i \in Tasks : task'[i].who = u => Ready(i)'
    BY <1>1, <1>2, Zenon DEF Marks
  <2>2. /\ \A i, k \in Tasks : task[i].who = u /\ Marking(i) /\ task[k].who = u /\ Marking(k) => i = k
        /\ \A i \in Tasks : task[i].who = u => Ready(i)
    BY <2>1, Zenon DEF MarksInv, Marks
  <2> QED
    BY <1>1, <1>3, <1>4, <2>2, Zenon
<1> QED
  BY <1>5 DEF MarksInv

\* Every step keeps the marks.
LEMMA MarksStep ==
    ASSUME CallsInv, MarksInv, [DeskNext]_deskVars
    PROVE  MarksInv'
<1>1. ASSUME sessions' = sessions, task' = task, overlapped' = overlapped PROVE MarksInv'
  BY <1>1, MarksSame DEF MarksInv
<1>2. ASSUME NEW j \in Tasks, NEW u \in Signers,
             NEW calls \in {UserLogin, AdminLogin, UserLogOut, Heartbeat, ProfilePage},
             StartTask(j, u, calls), calls = ProfilePage => \A i \in Tasks : ~ Paging(i)
      PROVE  MarksInv'
  BY <1>2, CallsBegun, MarksBegun
<1>3. ASSUME NEW j \in Tasks, NEW u \in Signers, SignIn(j, u) \/ SignOut(j, u)
      PROVE  MarksInv'
  <2>1. PICK calls \in {UserLogin, AdminLogin, UserLogOut} : StartTask(j, u, calls)
    BY <1>3 DEF SignIn, SignOut
  <2>2. calls # ProfilePage
    BY DEF UserLogin, AdminLogin, UserLogOut, ProfilePage
  <2> QED
    BY <1>2, <2>1, <2>2
<1>4. ASSUME NEW j \in Tasks, NEW u \in Signers, OpenProfile(j, u)
      PROVE  MarksInv'
  <2>1. \A i \in Tasks : ~ Paging(i)
    <3>1. SUFFICES ASSUME NEW i \in Tasks, Paging(i)
                   PROVE  \E call \in {"look", "fill", "stampBack"} : Due(i, call)
      BY <1>4 DEF OpenProfile
    <3> QED
      BY <3>1 DEF Paging, Due, ProfilePage
  <2> QED
    BY <1>2, <1>4, <2>1 DEF OpenProfile
<1>5. ASSUME NEW j \in Tasks, \/ CloseAll(j) \/ OpenOne(j) \/ Stamp(j) \/ Find(j) \/ Touch(j)
                              \/ LookUp(j) \/ Fill(j) \/ StampBack(j) \/ TaskFails(j)
      PROVE  MarksInv'
  BY <1>5, CloseMarks, OpenMarks, StampMarks, FindMarks, TouchMarks, LookMarks, FillMarks
<1>6. ASSUME NEW u \in Staff, NEW t \in Targets \cup {Nobody},
             SendHeartbeat(u, t) \/ GetActivePresences(u, t)
      PROVE  MarksInv'
  <2>1. CASE u \in Signers /\ \E j \in Tasks : StartTask(j, u, Heartbeat)
    <3>1. Heartbeat # ProfilePage
      BY DEF Heartbeat, ProfilePage
    <3> QED
      BY <1>2, <2>1, <3>1
  <2>2. CASE UNCHANGED <<sessions, lastLogin, task, overlapped>>
    BY <1>1, <2>2
  <2> QED
    BY <1>6, <2>1, <2>2 DEF SendHeartbeat, GetActivePresences
<1>7. CASE Midnight
  BY <1>7, MidnightMarks
<1>8. CASE ServerRestart
  <2>1. overlapped' = overlapped /\ sessions' = sessions /\ \A j \in Tasks : task'[j] = NoTask
    BY <1>8, RestartCalls
  <2>2. \A v \in Signers, j \in Tasks : task'[j].who # v
    BY <2>1, DeskParameters DEF NoTask
  <2> QED
    BY <2>1, <2>2, MarksSame DEF MarksInv
<1>9. CASE Minute \/ UNCHANGED deskVars
  BY <1>1, <1>9 DEF Minute, deskVars
<1> QED
  BY <1>3, <1>4, <1>5, <1>6, <1>7, <1>8, <1>9 DEF DeskNext

\* At most the latest session of the day is current, unless requests that mark sessions overlapped.
THEOREM CurrentLatest == DeskSpec => []CurrentIsLatest
<1>1. DeskInit => CallsInv /\ MarksInv
  <2>1. ASSUME DeskInit PROVE MarksInv
    <3>1. \A u \in Signers : OfToday(u) = {} /\ \A j \in Tasks : task[j].who # u
      BY <2>1, DeskParameters DEF DeskInit, OfToday, NoTask
    <3> QED
      BY <3>1, Zenon DEF MarksInv, Marks
  <2> QED
    BY <2>1, CallsStart
<1>2. CallsInv /\ MarksInv /\ [DeskNext]_deskVars => CallsInv' /\ MarksInv'
  BY CallsStep, MarksStep
<1>3. MarksInv => CurrentIsLatest
  <2> SUFFICES ASSUME MarksInv, NEW u \in Signers, ~ overlapped[u]
               PROVE  \A i \in OfToday(u) : sessions[u][i].current => i = Len(sessions[u])
    BY Zenon DEF CurrentIsLatest
  <2>1. overlapped[u] = FALSE => \A i \in OfToday(u) : sessions[u][i].current => i = Len(sessions[u])
    BY Zenon DEF MarksInv, Marks
  <2> QED
    BY <2>1
<1> QED
  BY <1>1, <1>2, <1>3, PTL DEF DeskSpec

\* Both tables are functions on what they are about.
Tables == sessions = [u \in Signers |-> sessions[u]] /\ task = [j \in Tasks |-> task[j]]

\* They stay functions.
LEMMA TablesStep ==
    ASSUME CallsInv, Tables, [DeskNext]_deskVars
    PROVE  Tables'
<1>1. DOMAIN sessions = Signers /\ DOMAIN task = Tasks
  BY DEF CallsInv
<1>2. \/ sessions' = sessions
      \/ \E u, rows : sessions' = [sessions EXCEPT ![u] = rows]
      \/ sessions' = [u \in Signers |-> Aged(sessions[u])]
  <2>1. ASSUME NEW j \in Tasks, \/ CloseAll(j) \/ OpenOne(j) \/ Stamp(j) \/ Find(j) \/ Touch(j)
                                \/ LookUp(j) \/ Fill(j) \/ StampBack(j) \/ TaskFails(j)
        PROVE  \/ sessions' = sessions
               \/ \E u, rows : sessions' = [sessions EXCEPT ![u] = rows]
    BY <2>1 DEF CloseAll, OpenOne, Stamp, Find, Touch, LookUp, Fill, StampBack,
                TaskFails
  <2>2. ASSUME NEW j \in Tasks, NEW u \in Signers,
               SignIn(j, u) \/ SignOut(j, u) \/ OpenProfile(j, u)
        PROVE  sessions' = sessions
    BY <2>2 DEF SignIn, SignOut, OpenProfile, StartTask
  <2>3. ASSUME NEW u \in Staff, NEW t \in Targets \cup {Nobody},
               SendHeartbeat(u, t) \/ GetActivePresences(u, t)
        PROVE  sessions' = sessions
    BY <2>3 DEF SendHeartbeat, GetActivePresences, StartTask
  <2>4. Minute \/ ServerRestart \/ UNCHANGED deskVars => sessions' = sessions
    BY DEF Minute, ServerRestart, deskVars
  <2>5. Midnight => sessions' = [u \in Signers |-> Aged(sessions[u])]
    BY DEF Midnight, Aged
  <2> QED
    BY <2>1, <2>2, <2>3, <2>4, <2>5 DEF DeskNext
<1>3. sessions' = [u \in Signers |-> sessions'[u]]
  BY <1>1, <1>2 DEF Tables
<1>4. \/ task' = task
      \/ \E j, d : task' = [task EXCEPT ![j] = d]
      \/ \E d : task' = [j \in Tasks |-> d[j]]
  <2>1. ASSUME NEW j \in Tasks, NEW l, Goes(j, l)
        PROVE  \E i, d : task' = [task EXCEPT ![i] = d]
    BY <2>1 DEF Goes
  <2>2. ASSUME NEW j \in Tasks, NEW u \in Signers, NEW calls, StartTask(j, u, calls)
        PROVE  \E i, d : task' = [task EXCEPT ![i] = d]
    <3>1. task' = [task EXCEPT ![j] = [[task[j] EXCEPT !.who = u] EXCEPT !.todo = calls]]
      BY <1>1, <2>2 DEF StartTask
    <3> QED
      BY <3>1
  <2>3. ASSUME NEW j \in Tasks, \/ CloseAll(j) \/ OpenOne(j) \/ Stamp(j) \/ Touch(j)
                                \/ StampBack(j) \/ TaskFails(j)
        PROVE  \E l : Goes(j, l)
    BY <2>3 DEF CloseAll, OpenOne, Stamp, Touch, StampBack, TaskFails
  <2>4. ASSUME NEW j \in Tasks, Find(j) \/ LookUp(j)
        PROVE  \E i, d : task' = [task EXCEPT ![i] = d]
    <3>1. CASE \E l : Goes(j, l)
      BY <2>1, <3>1
    <3>2. CASE task' = [task EXCEPT ![j].todo = <<"touch", "stamp">>, ![j].row = Latest(task[j].who)]
      <4>1. task' = [task EXCEPT ![j] = [[task[j] EXCEPT !.todo = <<"touch", "stamp">>]
                                           EXCEPT !.row = Latest(task[j].who)]]
        BY <1>1, <3>2
      <4> QED
        BY <4>1
    <3>3. CASE task' = [task EXCEPT ![j].todo = <<"fill", "stampBack">>, ![j].date = lastLogin[task[j].who]]
      <4>1. task' = [task EXCEPT ![j] = [[task[j] EXCEPT !.todo = <<"fill", "stampBack">>]
                                           EXCEPT !.date = lastLogin[task[j].who]]]
        BY <1>1, <3>3
      <4> QED
        BY <4>1
    <3> QED
      BY <2>4, <3>1, <3>2, <3>3 DEF Find, LookUp
  <2>5. ASSUME NEW j \in Tasks, Fill(j)
        PROVE  \E d : task' = [i \in Tasks |-> d[i]]
    <3>1. task' = [i \in Tasks |-> task'[i]]
      BY <2>5 DEF Fill
    <3> QED
      BY <3>1
  <2>6. Midnight \/ ServerRestart => \E d : task' = [i \in Tasks |-> d[i]]
    BY DEF Midnight, ServerRestart
  <2>7. ASSUME NEW j \in Tasks, NEW u \in Signers,
               SignIn(j, u) \/ SignOut(j, u) \/ OpenProfile(j, u)
        PROVE  \E calls : StartTask(j, u, calls)
    BY <2>7 DEF SignIn, SignOut, OpenProfile
  <2>8. ASSUME NEW u \in Staff, NEW t \in Targets \cup {Nobody},
               SendHeartbeat(u, t) \/ GetActivePresences(u, t)
        PROVE  task' = task \/ \E i, d : task' = [task EXCEPT ![i] = d]
    BY <2>2, <2>8 DEF SendHeartbeat, GetActivePresences
  <2>9. Minute \/ UNCHANGED deskVars => task' = task
    BY DEF Minute, deskVars
  <2> QED
    BY <2>1, <2>2, <2>3, <2>4, <2>5, <2>6, <2>7, <2>8, <2>9 DEF DeskNext
<1>5. task' = [j \in Tasks |-> task'[j]]
  BY <1>1, <1>4 DEF Tables
<1> QED
  BY <1>3, <1>5 DEF Tables

\* Everything the four invariants say makes the module's types.
THEOREM DeskTypeCorrect == DeskSpec => []DeskTypeOK
<1>1. DeskInit => HonestInv /\ CallsInv /\ Tables
  BY ListStart, CallsStart DEF HonestInv, DeskInit, Tables
<1>2. HonestInv /\ CallsInv /\ Tables /\ [DeskNext]_deskVars => HonestInv' /\ CallsInv' /\ Tables'
  BY HonestStep, CallsStep, TablesStep
<1>3. HonestInv /\ CallsInv /\ Tables => DeskTypeOK
  <2> SUFFICES ASSUME HonestInv, CallsInv, Tables PROVE DeskTypeOK
    OBVIOUS
  <2>1. \A u \in Signers : sessions[u] \in SeqOf(Session, MaxRows)
    BY RowsType DEF CallsInv
  <2>2. sessions \in [Signers -> SeqOf(Session, MaxRows)]
    BY <2>1 DEF Tables
  <2>3. ASSUME NEW u \in Signers, NEW i \in DOMAIN sessions[u], NEW k \in DOMAIN sessions[u],
               i < k /\ sessions[u][i].day = "today"
        PROVE  sessions[u][k].day = "today"
    <3>1. DOMAIN sessions[u] = 1..Len(sessions[u]) /\ InOrder(u)
      BY RowsType DEF CallsInv
    <3> QED
      BY <2>3, <3>1 DEF InOrder
  <2>4. \A j \in Tasks : task[j] \in Task /\ ((task[j].who = Nobody) = (task[j].todo = <<>>))
    <3> TAKE j \in Tasks
    <3>1. CallSound(j)
      BY DEF CallsInv
    <3> HIDE DEF Lists
    <3>2. task[j] \in [who: Signers \cup {Nobody}, todo: Lists, row: 0..MaxRows, date: Days \cup {"never"}]
      BY <3>1 DEF CallSound
    <3>3. task[j] \in Task
      BY <3>2, ListType DEF Task
    <3> QED
      BY <3>1, <3>3 DEF CallSound
  <2>5. task \in [Tasks -> Task]
    BY <2>4 DEF Tables
  <2>6. DOMAIN beat \subseteq Staff
    BY DEF HonestInv, ListInv
  <2> QED
    BY <2>2, <2>3, <2>4, <2>5, <2>6 DEF DeskTypeOK, HonestInv, ListInv, CallsInv
<1> QED
  BY <1>1, <1>2, <1>3, PTL DEF DeskSpec

=============================================================================
