-------------------------------- MODULE Chat --------------------------------
(***************************************************************************)
(* The staff chat: src/chat.  The gateway and the controller admit one     *)
(* account only, the site owner's, which may be connected from several     *)
(* browser tabs at once.  Each tab is a socket that hears the rooms it has *)
(* joined and shows what it has heard and loaded.                          *)
(*                                                                         *)
(* The gateway keeps its sockets in memory and the messages in the         *)
(* database.  A handler writes first and tells the room when its write has *)
(* come back, so that two handlers may tell of their writes in the other   *)
(* order.                                                                  *)
(*                                                                         *)
(* Left out: attachments, mentions, the scan for suspicious words and the  *)
(* flags of the surveillance page, names and colours of groups, typing     *)
(* indicators, the paging of a history.                                    *)
(***************************************************************************)
EXTENDS Naturals, FiniteSets

CONSTANTS
    Sockets,      \* connections of the owner's tabs
    Groups,       \* ids of the chat_groups table
    Colleagues,   \* ids of the other staff, who are members and partners
    Messages,     \* ids of the chat_messages table
    Texts,        \* contents of messages
    Jobs,         \* requests that may be in flight
    None,         \* nothing
    Deleted,      \* what is shown of a deleted message
    MaxRequests   \* bound on the requests about messages that are begun

ASSUME Parameters ==
    /\ None \notin Texts /\ Deleted \notin Texts /\ None # Deleted
    /\ None \notin Messages /\ Groups \cap Colleagues = {}
    /\ MaxRequests \in Nat

VARIABLES
    group,      \* the chat_groups table with its members, the owner apart
    message,    \* the chat_messages table, and whether the owner has reacted
    socket,     \* the gateway's sockets: the rooms they are in, and what they show
    online,     \* the gateway's onlineStaff: the owner's sockets it counts
    told,       \* whether the last online list that was sent names the owner
    due,        \* history: groups that were open when a socket began to connect
    job,        \* requests in flight
    requests,   \* requests begun so far
    crossed     \* history: messages two requests worked on at a time, or of whose write a
                \* failure kept the gateway from telling

vars == <<group, message, socket, online, told, due, job, requests, crossed>>

Rooms == Groups \cup Colleagues

Group   == [state: {"absent", "open", "archived"}, owner: BOOLEAN, members: SUBSET Colleagues]
Message == [room: Rooms \cup {None}, text: Texts \cup {None}, deleted: BOOLEAN, liked: BOOLEAN]
View    == [text: Texts \cup {None, Deleted}, liked: BOOLEAN]
Socket  == [pc: {"closed", "joining", "open", "stale"}, rooms: SUBSET Groups,
            shows: [Messages -> View]]
Job     == [pc: {"idle", "look", "write", "emit"}, op: {"none", "send", "edit", "delete", "react"},
            id: Messages \cup {None}, text: Texts \cup {None}, room: Rooms \cup {None},
            liked: BOOLEAN]

NoMessage == [room |-> None, text |-> None, deleted |-> FALSE, liked |-> FALSE]
Nothing   == [text |-> None, liked |-> FALSE]
Blank     == [m \in Messages |-> Nothing]
Closed    == [pc |-> "closed", rooms |-> {}, shows |-> Blank]
Idle      == [pc |-> "idle", op |-> "none", id |-> None, text |-> None, room |-> None,
              liked |-> FALSE]

TypeOK ==
    /\ group \in [Groups -> Group]
    /\ message \in [Messages -> Message]
    /\ socket \in [Sockets -> Socket]
    /\ online \in SUBSET Sockets
    /\ told \in BOOLEAN
    /\ due \in [Sockets -> SUBSET Groups]
    /\ job \in [Jobs -> Job]
    /\ requests \in 0..MaxRequests
    /\ crossed \in SUBSET Messages

Init ==
    /\ group = [g \in Groups |-> [state |-> "absent", owner |-> FALSE, members |-> {}]]
    /\ message = [m \in Messages |-> NoMessage]
    /\ socket = [s \in Sockets |-> Closed]
    /\ online = {}
    /\ told = FALSE
    /\ due = [s \in Sockets |-> {}]
    /\ job = [j \in Jobs |-> Idle]
    /\ requests = 0
    /\ crossed = {}

-----------------------------------------------------------------------------
(* Connections.                                                             *)

Open(g) == group[g].state = "open"

NoGroups == {}

MyRooms == {g \in Groups : Open(g)} \cup Colleagues

\* getMyGroupIds: the open groups that have the owner as a member.
MyGroups == {g \in Groups : Open(g) /\ group[g].owner}

\* handleConnection counts the socket before it awaits anything.
Connect(s) ==
    /\ socket[s].pc = "closed"
    /\ socket' = [socket EXCEPT ![s].pc = "joining"]
    /\ online' = online \cup {s}
    /\ due' = [due EXCEPT ![s] = {g \in Groups : Open(g)}]
    /\ UNCHANGED <<group, message, told, job, requests, crossed>>

LateCount(s) ==
    /\ socket[s].pc \in {"joining", "stale"}
    /\ online' = online \cup {s} /\ told' = TRUE
    /\ socket' = [socket EXCEPT ![s].pc = IF @ = "joining" THEN "open" ELSE "closed",
                                ![s].rooms = MyGroups]
    /\ UNCHANGED <<group, message, due, job, requests, crossed>>

\* The groups come back from the database, or the look-up fails, which is only logged.  The
\* online list goes out.  Of a socket that has gone meanwhile nothing is left but that.
FinishConnect(s) ==
    /\ told' = (online # {})
    /\ \/ /\ socket[s].pc = "joining"
          /\ \/ socket' = [socket EXCEPT ![s].pc = "open", ![s].rooms = @ \cup MyGroups]
                /\ UNCHANGED due
             \/ socket' = [socket EXCEPT ![s].pc = "open"]
                /\ due' = [due EXCEPT ![s] = {}]
       \/ /\ socket[s].pc = "stale"
          /\ socket' = [socket EXCEPT ![s] = Closed]
          /\ due' = [due EXCEPT ![s] = {}]
    /\ UNCHANGED <<group, message, online, job, requests, crossed>>

\* handleDisconnect.  socket.io empties the rooms of the socket.
Disconnect(s) ==
    /\ socket[s].pc \in {"joining", "open"}
    /\ online' = online \ {s}
    /\ told' = (online' # {})
    /\ socket' = [socket EXCEPT ![s] = [Closed EXCEPT !.pc = IF socket[s].pc = "joining"
                                                             THEN "stale" ELSE "closed"]]
    /\ due' = [due EXCEPT ![s] = {}]
    /\ UNCHANGED <<group, message, job, requests, crossed>>

\* What a tab shows of a message in a room it has not heard, or has loaded.
Stored(m) == [text |-> IF message[m].deleted THEN Deleted ELSE message[m].text,
              liked |-> message[m].liked]

\* joinGroup, as the page does it when a group is opened.
JoinGroup(s, g) ==
    /\ socket[s].pc = "open" /\ g \notin socket[s].rooms
    /\ socket' = [socket EXCEPT ![s].rooms = @ \cup {g}]
    /\ UNCHANGED <<group, message, online, told, due, job, requests, crossed>>

\* leaveGroup: the tab stops to show the group.
LeaveRoom(s, g) ==
    /\ socket[s].pc = "open" /\ g \in socket[s].rooms
    /\ socket' = [socket EXCEPT ![s].rooms = @ \ {g},
                                ![s].shows = [m \in Messages |-> IF message[m].room = g
                                                                 THEN Nothing ELSE @[m]]]
    /\ due' = [due EXCEPT ![s] = @ \ {g}]
    /\ UNCHANGED <<group, message, online, told, job, requests, crossed>>

\* A group is heard in its room, a direct message in the owner's own, which every socket joins.
Hears(s, r) ==
    /\ socket[s].pc \in {"joining", "open"}
    /\ r \in socket[s].rooms \cup Colleagues

\* getGroupMessages asks for a member, getDmMessages for nobody.
MayRead(r) == IF r \in Groups THEN group[r].owner ELSE r \in Colleagues

\* A tab that hears a room loads its history, which leaves deleted messages out.
LoadHistory(s, r) ==
    /\ Hears(s, r) /\ MayRead(r)
    /\ socket' = [socket EXCEPT ![s].shows =
                    [m \in Messages |-> IF message[m].room # r THEN @[m]
                                        ELSE IF message[m].deleted THEN Nothing
                                        ELSE Stored(m)]]
    /\ socket' # socket
    /\ UNCHANGED <<group, message, online, told, due, job, requests, crossed>>

-----------------------------------------------------------------------------
(* Groups.  Each handler looks its group up and then makes one write, which *)
(* a key of the schema refuses if what it read has gone.                    *)

\* createGroup makes its author a member.
CreateGroup(g, ids) ==
    /\ group[g].state = "absent"
    /\ group' = [group EXCEPT ![g] = [state |-> "open", owner |-> TRUE, members |-> ids]]
    /\ UNCHANGED <<message, socket, online, told, due, job, requests, crossed>>

\* updateGroup replaces the members and keeps the author and the one who asks.
UpdateGroup(g, ids) ==
    /\ group[g].state # "absent"
    /\ group' = [group EXCEPT ![g].owner = TRUE, ![g].members = ids]
    /\ UNCHANGED <<message, socket, online, told, due, job, requests, crossed>>

ArchiveGroup(g) ==
    /\ Open(g)
    /\ group' = [group EXCEPT ![g].state = "archived"]
    /\ UNCHANGED <<message, socket, online, told, due, job, requests, crossed>>

\* addMember, by a request or through the socket.
AddMember(g, c) ==
    /\ group[g].state # "absent" /\ c \notin group[g].members
    /\ group' = [group EXCEPT ![g].members = @ \cup {c}]
    /\ UNCHANGED <<message, socket, online, told, due, job, requests, crossed>>

\* removeMember and leaveGroup refuse the author, so nobody but a colleague goes.
RemoveMember(g, c) ==
    /\ group[g].state # "absent" /\ c \in group[g].members
    /\ group' = [group EXCEPT ![g].members = @ \ {c}]
    /\ UNCHANGED <<message, socket, online, told, due, job, requests, crossed>>

-----------------------------------------------------------------------------
(* Messages.                                                                *)

\* A request about m begins.
Begin(j, m, plan) ==
    LET beside == {i \in Jobs \ {j} : job[i].id = m}
    IN  /\ job[j].pc = "idle" /\ requests < MaxRequests
        /\ requests' = requests + 1
        /\ job' = [job EXCEPT ![j] = plan]
        /\ crossed' = IF beside = {} THEN crossed ELSE crossed \cup {m}
        /\ UNCHANGED <<group, message, socket, online, told, due>>

\* sendMessage, with a text for a group or a colleague.
Send(j, m, r, text) ==
    /\ message[m] = NoMessage /\ \A i \in Jobs : job[i].id # m
    /\ r \in Groups => group[r].state # "absent"
    /\ Begin(j, m, [Idle EXCEPT !.pc = "write", !.op = "send", !.id = m, !.text = text,
                                !.room = r])

\* A tab edits, deletes or likes a message it shows, and names the room it shows it in.
Seen(m) == \E s \in Sockets : socket[s].pc = "open" /\ socket[s].shows[m].text \notin {None, Deleted}

\* The look-up of editMessage and deleteMessage finds a deleted message too.
Edit(j, m, text) ==
    /\ Seen(m)
    /\ Begin(j, m, [Idle EXCEPT !.pc = "write", !.op = "edit", !.id = m, !.text = text,
                                !.room = message[m].room])

Delete(j, m) ==
    /\ Seen(m)
    /\ Begin(j, m, [Idle EXCEPT !.pc = "write", !.op = "delete", !.id = m,
                                !.room = message[m].room])

\* toggleReaction reads the owner's reaction first.
React(j, m) ==
    /\ Seen(m)
    /\ Begin(j, m, [Idle EXCEPT !.pc = "write", !.op = "react", !.id = m,
                                !.room = message[m].room, !.liked = message[m].liked])

\* The row after the write.
Saved(j)        == [NoMessage EXCEPT !.room = job[j].room, !.text = job[j].text]
Edited(j, row)  == [row EXCEPT !.text = job[j].text]
Removed(row)    == [row EXCEPT !.deleted = TRUE]
Toggled(j, row) == [row EXCEPT !.liked = ~ job[j].liked]

Written(j) ==
    LET row == message[job[j].id]
    IN  CASE job[j].op = "send"   -> Saved(j)
          [] job[j].op = "edit"   -> Edited(j, row)
          [] job[j].op = "delete" -> Removed(row)
          [] job[j].op = "react"  -> Toggled(j, row)

\* The reaction's unique key refuses a second one, and a row that has gone a second deletion.
Refused(j) == job[j].op = "react" /\ message[job[j].id].liked # job[j].liked

\* The write.  toggleReaction reads the reactions once more before it tells of them.
Write(j) ==
    /\ job[j].pc = "write" /\ ~ Refused(j)
    /\ message' = [message EXCEPT ![job[j].id] = Written(j)]
    /\ job' = [job EXCEPT ![j].pc = IF job[j].op = "react" THEN "look" ELSE "emit"]
    /\ UNCHANGED <<group, socket, online, told, due, requests, crossed>>

Look(j) ==
    /\ job[j].pc = "look"
    /\ job' = [job EXCEPT ![j].pc = "emit", ![j].liked = message[job[j].id].liked]
    /\ UNCHANGED <<group, message, socket, online, told, due, requests, crossed>>

\* What a socket that hears of the write shows of the message.
Heard(j, shown) ==
    CASE job[j].op = "send"   -> [text |-> job[j].text, liked |-> FALSE]
      [] job[j].op = "edit"   -> IF shown.text = None THEN shown ELSE [shown EXCEPT !.text = job[j].text]
      [] job[j].op = "delete" -> IF shown.text = None THEN shown ELSE [shown EXCEPT !.text = Deleted]
      [] job[j].op = "react"  -> IF shown.text = None THEN shown ELSE [shown EXCEPT !.liked = job[j].liked]

RoomOnly(j) == {s \in Sockets : job[j].room \in socket[s].rooms}

\* The sockets an event goes to.
Audience(j) == {s \in Sockets : Hears(s, job[j].room)}

Emit(j) ==
    /\ job[j].pc = "emit"
    /\ socket' = [s \in Sockets |->
                    IF s \in Audience(j)
                    THEN [socket[s] EXCEPT !.shows[job[j].id] = Heard(j, @)]
                    ELSE socket[s]]
    /\ job' = [job EXCEPT ![j] = Idle]
    /\ UNCHANGED <<group, message, online, told, due, requests, crossed>>

\* A call of the database fails, or a key refuses the write.
JobFails(j) ==
    /\ job[j].pc \in {"write", "look"}
    /\ job' = [job EXCEPT ![j] = Idle]
    /\ crossed' = IF job[j].pc = "look" THEN crossed \cup {job[j].id} ELSE crossed
    /\ UNCHANGED <<group, message, socket, online, told, due, requests>>

\* The server stops and starts again.  It forgets its sockets and what it was doing.
Restart ==
    /\ online # {} \/ \E j \in Jobs : job[j].pc # "idle"
    /\ socket' = [s \in Sockets |-> Closed]
    /\ online' = {}
    /\ told' = FALSE
    /\ due' = [s \in Sockets |-> {}]
    /\ job' = [j \in Jobs |-> Idle]
    /\ UNCHANGED <<group, message, requests, crossed>>

-----------------------------------------------------------------------------
Next ==
    \/ \E s \in Sockets : Connect(s) \/ FinishConnect(s) \/ Disconnect(s)
    \/ \E s \in Sockets, g \in Groups : JoinGroup(s, g) \/ LeaveRoom(s, g)
    \/ \E s \in Sockets, r \in Rooms : LoadHistory(s, r)
    \/ \E g \in Groups, ids \in SUBSET Colleagues : CreateGroup(g, ids) \/ UpdateGroup(g, ids)
    \/ \E g \in Groups : ArchiveGroup(g)
    \/ \E g \in Groups, c \in Colleagues : AddMember(g, c) \/ RemoveMember(g, c)
    \/ \E j \in Jobs, m \in Messages, r \in Rooms, text \in Texts : Send(j, m, r, text)
    \/ \E j \in Jobs, m \in Messages, text \in Texts : Edit(j, m, text)
    \/ \E j \in Jobs, m \in Messages : Delete(j, m) \/ React(j, m)
    \/ \E j \in Jobs : Write(j) \/ Look(j) \/ Emit(j) \/ JobFails(j)
    \/ Restart

Spec == Init /\ [][Next]_vars

-----------------------------------------------------------------------------
(* Properties.                                                              *)

\* The gateway counts exactly the sockets that are connected, whatever comes back late, and
\* once no connection is being set up everybody was last told whether the owner is online: a
\* tab that closes while its groups are looked up must not stay on the list.
OnlineHonest ==
    /\ online = {s \in Sockets : socket[s].pc \in {"joining", "open"}}
    /\ (\A s \in Sockets : socket[s].pc \in {"closed", "open"}) => told = (online # {})

\* An open socket is in the room of every open group that was there when it began to connect,
\* unless its page has left it or the look-up failed: changes of members by other requests
\* never cost the owner, the author of every group, his place in it.
RoomsRestored ==
    \A s \in Sockets : socket[s].pc = "open" =>
        {g \in due[s] : Open(g)} \subseteq socket[s].rooms

\* At rest every tab that shows a message shows the text, the deletion and the reaction that
\* are stored, unless two requests about the message overlapped or a look-up failed after a
\* write: the event of a write reaches every tab that has been told of the message, through the
\* room the page has named, whoever connects, leaves or loads the history in between.
TabsAgree ==
    \A s \in Sockets, m \in Messages :
        \/ socket[s].shows[m].text = None
        \/ m \in crossed
        \/ \E j \in Jobs : job[j].id = m
        \/ socket[s].shows[m] = Stored(m)
=============================================================================
