------------------------------- MODULE Desk -------------------------------
(***************************************************************************)
(* Who is at work: the sign-in sessions of the accounts (user_sessions)    *)
(* and the presence of the staff (src/admin/presence.service.ts).          *)
(*                                                                         *)
(* A request is a list of database calls with an await between any two:    *)
(* a sign-in closes the sessions of the account and opens one, a heartbeat *)
(* finds the latest session of the day and makes it current or opens one,  *)
(* a profile page that finds no session makes one up.  Nothing orders the  *)
(* calls of two requests, a failing call ends its request in silence, and  *)
(* midnight may fall between two calls.                                    *)
(*                                                                         *)
(* The presence list is in the server's memory: a heartbeat enters the     *)
(* person, what is older than two minutes is dropped whenever the list is  *)
(* used, and a restart forgets it.                                         *)
(*                                                                         *)
(* Left out: durations, minutes and counts of sign-ins, addresses and      *)
(* browsers, the refresh token a sign-in or sign-out writes, the path a    *)
(* person looks at, and the deletion of an account with its sessions.      *)
(***************************************************************************)
EXTENDS Naturals, Sequences, FiniteSets, SequencesExt, Functions

CONSTANTS
    Staff,      \* accounts that may send heartbeats
    Signers,    \* bound: those of them whose database calls are followed
    Owners,     \* those of them whose e-mail is the site owner's
    Targets,    \* accounts and queries a page may be about
    Tasks,      \* requests that may be in flight
    Nobody,     \* no target, nobody
    MaxRows,    \* bound on the sessions of one account
    TwoMinutes  \* ticks of the clock in two minutes

ASSUME DeskParameters ==
    /\ Owners \subseteq Staff /\ Signers \subseteq Staff
    /\ Nobody \notin Staff \cup Targets
    /\ MaxRows \in Nat /\ TwoMinutes \in Nat

VARIABLES
    sessions,   \* each account's rows of user_sessions in the order of loginAt
    lastLogin,  \* the day of the column lastLoginAt
    task,       \* the database calls each request still makes
    presence,   \* activePresences, the map in the memory of the server
    answer,     \* the last answer of getActivePresences, until anything else happens
    overlapped, \* history: requests that mark sessions have overlapped since the last clean sign-in
    beat        \* history: each person's last heartbeat since the restart, for two minutes

deskVars == <<sessions, lastLogin, task, presence, answer, overlapped, beat>>

Days     == {"earlier", "today"}
Ages     == 0..TwoMinutes + 1    \* the last one stands for every greater age

Session == [day: Days, current: BOOLEAN]
Entry   == [target: Targets \cup {Nobody}, age: Ages]
Calls   == {"close", "open", "stamp", "find", "touch", "look", "fill", "stampBack"}

\* row: the place of the session the heartbeat found.  date: the lastLoginAt the page has read.
Task == [who: Signers \cup {Nobody}, todo: SeqOf(Calls, 3), row: 0..MaxRows,
         date: Days \cup {"never"}]

NoTask == [who |-> Nobody, todo |-> <<>>, row |-> 0, date |-> "never"]

Answer == [caller: Staff, target: Targets \cup {Nobody},
           active: SUBSET Staff, collisions: SUBSET Staff]

NoAnswer == [caller |-> Nobody, target |-> Nobody, active |-> {}, collisions |-> {}]

\* Sessions are kept in the order of their loginAt, so those of earlier days come first.
DeskTypeOK ==
    /\ sessions \in [Signers -> SeqOf(Session, MaxRows)]
    /\ \A u \in Signers : \A i, k \in DOMAIN sessions[u] :
         i < k /\ sessions[u][i].day = "today" => sessions[u][k].day = "today"
    /\ lastLogin \in [Signers -> Days \cup {"never"}]
    /\ task \in [Tasks -> Task]
    /\ \A j \in Tasks : (task[j].who = Nobody) = (task[j].todo = <<>>)
    /\ DOMAIN presence \subseteq Staff
    /\ presence \in [DOMAIN presence -> Entry]
    /\ answer \in Answer \cup {NoAnswer}
    /\ overlapped \in [Signers -> BOOLEAN]
    /\ DOMAIN beat \subseteq Staff
    /\ beat \in [DOMAIN beat -> Entry]

DeskInit ==
    /\ sessions = [u \in Signers |-> <<>>]
    /\ lastLogin = [u \in Signers |-> "never"]
    /\ task = [j \in Tasks |-> NoTask]
    /\ presence = <<>>
    /\ answer = NoAnswer
    /\ overlapped = [u \in Signers |-> FALSE]
    /\ beat = <<>>

----------------------------------------------------------------------------
(* Requests.                                                               *)

UserLogin   == <<"close", "open", "stamp">>
AdminLogin  == <<"stamp", "close", "open">>
UserLogOut  == <<"close">>
Heartbeat   == <<"find">>
ProfilePage == <<"look">>

Due(j, call) == task[j].todo # <<>> /\ Head(task[j].todo) = call

\* A sign-out only closes sessions: it makes none current.
Marking(j) == task[j].who # Nobody /\ task[j].todo # UserLogOut

Overlaps(j, u) == \E i \in Tasks \ {j} : task[i].who = u /\ Marking(i)

StartTask(j, u, calls) ==
    /\ task[j] = NoTask
    /\ task' = [task EXCEPT ![j].who = u, ![j].todo = calls]
    /\ overlapped' = [overlapped EXCEPT ![u] = @ \/ (calls # UserLogOut /\ Overlaps(j, u))]
    /\ answer' = NoAnswer
    /\ UNCHANGED <<sessions, lastLogin>>

SignIn(j, u) ==
    /\ \E calls \in {UserLogin, AdminLogin} : StartTask(j, u, calls)
    /\ UNCHANGED <<presence, beat>>

SignOut(j, u) ==
    /\ StartTask(j, u, UserLogOut)
    /\ UNCHANGED <<presence, beat>>

\* The audit's work-time page and the staff profile.  One of them is under way at a time: a bound.
OpenProfile(j, u) ==
    /\ ~ \E i \in Tasks, call \in {"look", "fill", "stampBack"} : Due(i, call)
    /\ StartTask(j, u, ProfilePage)
    /\ UNCHANGED <<presence, beat>>

Fresh(entry) == entry.age <= TwoMinutes

AsIs(map) == map

\* cleanupStalePresences
Cleaned(map) == Restrict(map, {u \in DOMAIN map : Fresh(map[u])})

With(map, u, entry) == [v \in DOMAIN map \cup {u} |-> IF v = u THEN entry ELSE map[v]]

\* The first half of recordHeartbeat runs at once.
Enter(u, t) ==
    /\ presence' = Cleaned(With(presence, u, [target |-> t, age |-> 0]))
    /\ beat' = With(beat, u, [target |-> t, age |-> 0])

SendHeartbeat(u, t) ==
    /\ Enter(u, t)
    /\ IF u \in Signers
       THEN \E j \in Tasks : StartTask(j, u, Heartbeat)
       ELSE answer' = NoAnswer /\ UNCHANGED <<sessions, lastLogin, task, overlapped>>

----------------------------------------------------------------------------
(* The database calls.                                                     *)

\* The call ends and the request goes on with these.
Goes(j, calls) ==
    /\ task' = [task EXCEPT ![j] = IF calls = <<>> THEN NoTask ELSE [@ EXCEPT !.todo = calls]]
    /\ answer' = NoAnswer
    /\ UNCHANGED <<presence, beat>>

\* updateMany of the sessions that are current.
CloseAll(j) ==
    LET u == task[j].who IN
    /\ Due(j, "close")
    /\ sessions' = [sessions EXCEPT ![u] = [i \in DOMAIN @ |-> [@[i] EXCEPT !.current = FALSE]]]
    /\ overlapped' = [overlapped EXCEPT ![u] = @ /\ Overlaps(j, u)]
    /\ Goes(j, Tail(task[j].todo))
    /\ UNCHANGED lastLogin

OpenOne(j) ==
    LET u == task[j].who IN
    /\ Due(j, "open")
    /\ Len(sessions[u]) < MaxRows
    /\ sessions' = [sessions EXCEPT ![u] = Append(@, [day |-> "today", current |-> TRUE])]
    /\ Goes(j, Tail(task[j].todo))
    /\ UNCHANGED <<lastLogin, overlapped>>

\* lastLoginAt becomes now.
Stamp(j) ==
    /\ Due(j, "stamp")
    /\ lastLogin' = [lastLogin EXCEPT ![task[j].who] = "today"]
    /\ Goes(j, Tail(task[j].todo))
    /\ UNCHANGED <<sessions, overlapped>>

OfToday(u) == {i \in DOMAIN sessions[u] : sessions[u][i].day = "today"}

Earliest(u) == CHOOSE i \in OfToday(u) : \A k \in OfToday(u) : i <= k

\* findFirst, with the latest loginAt first.
Latest(u) == CHOOSE i \in OfToday(u) : \A k \in OfToday(u) : i >= k

Find(j) ==
    LET u == task[j].who IN
    /\ Due(j, "find")
    /\ IF OfToday(u) = {}
       THEN Goes(j, <<"open", "stamp">>)
       ELSE /\ task' = [task EXCEPT ![j].todo = <<"touch", "stamp">>, ![j].row = Latest(u)]
            /\ answer' = NoAnswer
            /\ UNCHANGED <<presence, beat>>
    /\ UNCHANGED <<sessions, lastLogin, overlapped>>

\* The session it found is current again, whatever has happened to it since.
Touch(j) ==
    /\ Due(j, "touch")
    /\ sessions' = [sessions EXCEPT ![task[j].who][task[j].row].current = TRUE]
    /\ Goes(j, <<"stamp">>)
    /\ UNCHANGED <<lastLogin, overlapped>>

DayRead(date) == date

\* The day a made-up session begins: that of the last sign-in, or else of the account's creation.
FirstDay(date) == IF date = "never" THEN "earlier" ELSE date

LookUp(j) ==
    LET u == task[j].who IN
    /\ Due(j, "look")
    /\ IF sessions[u] # <<>>
       THEN Goes(j, <<>>)
       ELSE /\ task' = [task EXCEPT ![j].todo = <<"fill", "stampBack">>, ![j].date = lastLogin[u]]
            /\ answer' = NoAnswer
            /\ UNCHANGED <<presence, beat>>
    /\ UNCHANGED <<sessions, lastLogin, overlapped>>

\* Its loginAt is before that of any session made since the page looked.
Fill(j) ==
    LET u == task[j].who IN
    /\ Due(j, "fill")
    /\ Len(sessions[u]) < MaxRows
    /\ sessions' = [sessions EXCEPT
                      ![u] = <<[day |-> FirstDay(task[j].date), current |-> TRUE]>> \o @]
    /\ task' = [i \in Tasks |->
                 IF i = j THEN [task[j] EXCEPT !.todo = <<"stampBack">>]
                 ELSE IF task[i].who = u /\ task[i].row > 0
                      THEN [task[i] EXCEPT !.row = @ + 1] ELSE task[i]]
    /\ answer' = NoAnswer
    /\ UNCHANGED <<lastLogin, presence, overlapped, beat>>

\* It writes back the lastLoginAt it has read, or now when there was none.
StampBack(j) ==
    LET date == task[j].date IN
    /\ Due(j, "stampBack")
    /\ lastLogin' = [lastLogin EXCEPT ![task[j].who] = IF date = "never" THEN "today" ELSE date]
    /\ Goes(j, <<>>)
    /\ UNCHANGED <<sessions, overlapped>>

TaskFails(j) ==
    /\ task[j].who # Nobody
    /\ Goes(j, <<>>)
    /\ UNCHANGED <<sessions, lastLogin, overlapped>>

----------------------------------------------------------------------------
(* The list of those who are at work, the clock, the server.               *)

\* The owner is hidden from everybody else.
Visible(caller, map) == IF caller \in Owners THEN DOMAIN map ELSE DOMAIN map \ Owners

GetActivePresences(caller, t) ==
    LET list == Cleaned(presence)
        seen == Visible(caller, list)
    IN  /\ presence' = list
        /\ answer' = [caller |-> caller, target |-> t, active |-> seen,
                      collisions |-> IF t = Nobody THEN {}
                                     ELSE {u \in seen \ {caller} : list[u].target = t}]
        /\ UNCHANGED <<sessions, lastLogin, task, overlapped, beat>>

Older(map) == [u \in DOMAIN map |->
                 [map[u] EXCEPT !.age = IF @ > TwoMinutes THEN @ ELSE @ + 1]]

Minute ==
    /\ presence' = Older(presence)
    /\ beat' = [u \in {v \in DOMAIN beat : beat[v].age < TwoMinutes} |-> Older(beat)[u]]
    /\ answer' = NoAnswer
    /\ UNCHANGED <<sessions, lastLogin, task, overlapped>>

Past(day) == IF day = "today" THEN "earlier" ELSE day

Midnight ==
    /\ sessions' = [u \in Signers |-> [i \in DOMAIN sessions[u] |->
                      [sessions[u][i] EXCEPT !.day = Past(@)]]]
    /\ lastLogin' = [u \in Signers |-> Past(lastLogin[u])]
    /\ task' = [j \in Tasks |-> [task[j] EXCEPT !.date = Past(@)]]
    /\ answer' = NoAnswer
    /\ UNCHANGED <<presence, overlapped, beat>>

ServerRestart ==
    /\ task' = [j \in Tasks |-> NoTask]
    /\ presence' = <<>>
    /\ answer' = NoAnswer
    /\ beat' = <<>>
    /\ UNCHANGED <<sessions, lastLogin, overlapped>>

DeskNext ==
    \/ \E j \in Tasks, u \in Signers : SignIn(j, u) \/ SignOut(j, u) \/ OpenProfile(j, u)
    \/ \E j \in Tasks :
         \/ CloseAll(j) \/ OpenOne(j) \/ Stamp(j) \/ Find(j) \/ Touch(j)
         \/ LookUp(j) \/ Fill(j) \/ StampBack(j) \/ TaskFails(j)
    \/ \E u \in Staff, t \in Targets \cup {Nobody} :
         SendHeartbeat(u, t) \/ GetActivePresences(u, t)
    \/ Minute \/ Midnight \/ ServerRestart

DeskSpec == DeskInit /\ [][DeskNext]_deskVars

----------------------------------------------------------------------------
(* Properties.                                                             *)

\* However sign-ins, sign-outs, heartbeats and profile pages follow one another, and whichever
\* of their calls fail, at most the latest session of the day is current.  It is so until two
\* requests that mark sessions overlap, and again from the next sign-in or sign-out that closes
\* the sessions while none is under way.  Midnight may fall between a heartbeat's two calls: it
\* then marks a session of the day before (recordLoginSession, loginAdmin, recordHeartbeat).
CurrentIsLatest ==
    \A u \in Signers : overlapped[u] \/
        \A i \in OfToday(u) : sessions[u][i].current => i = Len(sessions[u])

\* The list shows those who have sent a heartbeat in the last two minutes and since the server
\* started, except that the owner is hidden from everybody else, and the collisions are the
\* others whose last heartbeat named the same target (getActivePresences).
PresenceHonest ==
    answer # NoAnswer =>
        LET hidden == IF answer.caller \in Owners THEN {} ELSE Owners IN
            /\ answer.active = DOMAIN beat \ hidden
            /\ answer.collisions = {u \in answer.active \ {answer.caller} :
                                      answer.target # Nobody /\ beat[u].target = answer.target}
============================================================================
