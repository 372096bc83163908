---------------------------- MODULE ContactQuery ----------------------------
(***************************************************************************)
(* The contact-query workflow: src/contact-query/contact-query.service.ts. *)
(*                                                                         *)
(* A handler reads the row, builds the new log (and notes) from what it    *)
(* read, and writes the row back one or two awaits later, so a job is the  *)
(* row it saw and the call it makes next.  Bulk actions are one updateMany *)
(* and write no log.                                                       *)
(*                                                                         *)
(* A log entry or a note is the number of the request that wrote it.  Left *)
(* out: texts, who replied, the sender's account, transferNote and the     *)
(* priority, which no decision reads, notifications, the staff audit log,  *)
(* and canViewUserDetails, which this service only writes.                 *)
(***************************************************************************)
EXTENDS Naturals

CONSTANTS
    Inquiries,  \* ids of the contact_queries table
    Staff,      \* accounts with a staff role
    Supers,     \* those whose role is super_admin
    Owner,      \* the one of them whose account is the site owner's
    Customers,  \* accounts with the role user
    Jobs,       \* requests that may be in flight
    None,       \* a null column
    MaxTickets  \* bound: requests that write to a log

ASSUME NoneIsNoValue == None \notin Staff /\ None \notin Customers /\ None \notin Inquiries
ASSUME Parameters ==
    /\ Supers \subseteq Staff /\ Owner \in Supers
    /\ MaxTickets \in Nat

VARIABLES
    query,      \* the contact_queries table
    canDelete,  \* users.canDeleteQueries of each staff member
    job,        \* what each request has read and does next
    tickets,    \* requests numbered so far
    mailed,     \* external: inquiries whose sender has received a reply
    cleared     \* history: who passed checkCanDelete for which inquiry

vars == <<query, canDelete, job, tickets, mailed, cleared>>

Statuses == {"PENDING", "IN_PROGRESS", "RESOLVED", "CLOSED"}
Tickets  == 1..MaxTickets

Query == [state: {"absent", "live", "removed"}, status: Statuses,
          assigned: Staff \cup Customers \cup {None}, replied: BOOLEAN,
          notes: SUBSET Tickets, log: SUBSET (Tickets \cup {0})]

NoQuery == [state |-> "absent", status |-> "PENDING", assigned |-> None,
            replied |-> FALSE, notes |-> {}, log |-> {}]

\* The columns a handler that will write reads: the others are not used.
Seen == [status: Statuses, notes: SUBSET Tickets, log: SUBSET (Tickets \cup {0})]

NothingSeen == [status |-> "PENDING", notes |-> {}, log |-> {}]

Job == [pc: {"idle", "mail", "reply", "staff", "assign", "priority", "note", "delete"},
        q: Inquiries \cup {None}, targets: SUBSET Inquiries,
        seen: Seen, ticket: Tickets \cup {0}]

Idle == [pc |-> "idle", q |-> None, targets |-> {}, seen |-> NothingSeen, ticket |-> 0]

TypeOK ==
    /\ query \in [Inquiries -> Query]
    /\ canDelete \in [Staff -> BOOLEAN]
    /\ job \in [Jobs -> Job]
    /\ tickets \in Tickets \cup {0}
    /\ mailed \in SUBSET Inquiries
    /\ cleared \in SUBSET (Inquiries \X Staff)

Init ==
    /\ query = [q \in Inquiries |-> NoQuery]
    /\ canDelete = [s \in Staff |-> FALSE]
    /\ job = [j \in Jobs |-> Idle]
    /\ tickets = 0 /\ mailed = {} /\ cleared = {}

-----------------------------------------------------------------------------
Live(q)     == query[q].state = "live"
At(j, pc)   == job[j].pc = pc
Goto(j, pc) == job' = [job EXCEPT ![j].pc = pc]
Finish(j)   == job' = [job EXCEPT ![j] = Idle]
Edit(q, new) == query' = [query EXCEPT ![q] = new]

See(q) == [status |-> query[q].status, notes |-> query[q].notes, log |-> query[q].log]

\* appendLog: the entries of the log that was read, and the new one.
AppendLog(j) == job[j].seen.log \cup {job[j].ticket}

\* The sender's form: PENDING, MEDIUM, and a log with the SUBMITTED entry.  The mail
\* to the site's owner may fail without consequence.
Submit(q) ==
    /\ query[q].state = "absent"
    /\ Edit(q, [NoQuery EXCEPT !.state = "live", !.log = {0}])
    /\ UNCHANGED <<canDelete, job, tickets, mailed, cleared>>

\* The findUnique every handler that writes to the log begins with.
Begin(j, q, pc) ==
    /\ At(j, "idle") /\ Live(q) /\ tickets < MaxTickets
    /\ tickets' = tickets + 1
    /\ job' = [job EXCEPT ![j] = [pc |-> pc, q |-> q, targets |-> {},
                                  seen |-> See(q), ticket |-> tickets + 1]]
    /\ UNCHANGED <<query, canDelete, mailed, cleared>>

-----------------------------------------------------------------------------
(* replyToQuery: mails the sender, then records the reply.                  *)

\* A failed mail throws before anything is written.
GoesOnAnyway(delivered) == TRUE
GoesOn(delivered) == delivered

ReplyMail(j) ==
    /\ At(j, "mail")
    /\ \E delivered \in BOOLEAN :
        /\ mailed' = IF delivered THEN mailed \cup {job[j].q} ELSE mailed
        /\ IF GoesOn(delivered) THEN Goto(j, "reply") ELSE Finish(j)
    /\ UNCHANGED <<query, canDelete, tickets, cleared>>

ReplyWrite(j) ==
    LET q == job[j].q
    IN  /\ At(j, "reply") /\ Live(q)
        /\ Edit(q, [query[q] EXCEPT !.replied = TRUE, !.status = "RESOLVED",
                                    !.log = AppendLog(j)])
        /\ Finish(j)
        /\ UNCHANGED <<canDelete, tickets, mailed, cleared>>

-----------------------------------------------------------------------------
(* assignQuery, updatePriority and addInternalNote.                         *)

\* assignQuery reads the target next, and refuses one whose role is user.
AssignStaff(j) ==
    /\ At(j, "staff")
    /\ Goto(j, "assign")
    /\ UNCHANGED <<query, canDelete, tickets, mailed, cleared>>

\* The status is written from the row that was read, changed meanwhile or not.
AssignedStatusOfItsOwn(seen) == IF seen.status = "PENDING" THEN "ASSIGNED" ELSE seen.status
AssignedStatus(seen) ==
    IF seen.status = "PENDING" THEN "IN_PROGRESS" ELSE seen.status

AssignWrite(j) ==
    LET q == job[j].q
    IN  /\ At(j, "assign") /\ Live(q)
        /\ \E target \in Staff :
            Edit(q, [query[q] EXCEPT !.assigned = target,
                                     !.status = AssignedStatus(job[j].seen),
                                     !.log = AppendLog(j)])
        /\ Finish(j)
        /\ UNCHANGED <<canDelete, tickets, mailed, cleared>>

PriorityWrite(j) ==
    LET q == job[j].q
    IN  /\ At(j, "priority") /\ Live(q)
        /\ Edit(q, [query[q] EXCEPT !.log = AppendLog(j)])
        /\ Finish(j)
        /\ UNCHANGED <<canDelete, tickets, mailed, cleared>>

\* The notes are one text column, rebuilt from the text that was read.
NoteWrite(j) ==
    LET q == job[j].q
    IN  /\ At(j, "note") /\ Live(q)
        /\ Edit(q, [query[q] EXCEPT !.notes = job[j].seen.notes \cup {job[j].ticket},
                                    !.log = AppendLog(j)])
        /\ Finish(j)
        /\ UNCHANGED <<canDelete, tickets, mailed, cleared>>

-----------------------------------------------------------------------------
(* updateStatus and the bulk actions: one write, no log.  Ids without a row *)
(* are skipped by updateMany and refused by update.                         *)

EditAll(Q, new) ==
    /\ Q # {} /\ \A q \in Q : Live(q)
    /\ query' = [q \in Inquiries |-> IF q \in Q THEN new[q] ELSE query[q]]
    /\ UNCHANGED <<canDelete, job, tickets, mailed, cleared>>

SetStatus(Q, status) == EditAll(Q, [q \in Q |-> [query[q] EXCEPT !.status = status]])

\* Unlike assignQuery: any account will do, and the status stays.
BulkAssign(Q, target) == EditAll(Q, [q \in Q |-> [query[q] EXCEPT !.assigned = target]])

-----------------------------------------------------------------------------
(* Deletion, single and bulk, and the privilege for it.                     *)

\* checkCanDelete: the token's role, else the row's role and columns.
MayDelete(s) == s \in Supers \/ canDelete[s]

DeleteBegin(j, Q, s) ==
    /\ At(j, "idle")
    /\ Q # {} /\ \A q \in Q : query[q].state # "absent"
    /\ MayDelete(s)
    /\ job' = [job EXCEPT ![j] = [Idle EXCEPT !.pc = "delete", !.targets = Q]]
    /\ cleared' = cleared \cup (Q \X {s})
    /\ UNCHANGED <<query, canDelete, tickets, mailed>>

DeleteWrite(j) ==
    /\ At(j, "delete")
    /\ query' = [q \in Inquiries |->
                    IF q \in job[j].targets /\ Live(q)
                    THEN [NoQuery EXCEPT !.state = "removed"] ELSE query[q]]
    /\ Finish(j)
    /\ UNCHANGED <<canDelete, tickets, mailed, cleared>>

\* toggleStaffDeletePermission, by a super admin or the owner.
TogglePermission(s, can) ==
    /\ canDelete' = [canDelete EXCEPT ![s] = can]
    /\ UNCHANGED <<query, job, tickets, mailed, cleared>>

\* updatePermissions of the administration writes the same column, for all but the owner.
UpdatePermissions(s, can) == s # Owner /\ TogglePermission(s, can)

\* A call fails, the row is gone, or the process dies.
JobFails(j) ==
    /\ ~At(j, "idle")
    /\ Finish(j)
    /\ UNCHANGED <<query, canDelete, tickets, mailed, cleared>>

Work(j) ==
    \/ ReplyMail(j) \/ ReplyWrite(j)
    \/ AssignStaff(j) \/ AssignWrite(j)
    \/ PriorityWrite(j) \/ NoteWrite(j)
    \/ DeleteWrite(j)

Next ==
    \/ \E q \in Inquiries : Submit(q)
    \/ \E j \in Jobs :
        \/ Work(j) \/ JobFails(j)
        \/ \E q \in Inquiries, pc \in {"mail", "staff", "priority", "note"} : Begin(j, q, pc)
        \/ \E Q \in SUBSET Inquiries, s \in Staff : DeleteBegin(j, Q, s)
    \/ \E Q \in SUBSET Inquiries :
        \/ \E status \in Statuses : SetStatus(Q, status)
        \/ \E target \in Staff \cup Customers : BulkAssign(Q, target)
    \/ \E s \in Staff, can \in BOOLEAN : TogglePermission(s, can) \/ UpdatePermissions(s, can)

Spec == Init /\ [][Next]_vars

-----------------------------------------------------------------------------
(* Properties.                                                              *)

\* Where each inquiry is in its life, and who may remove it.
LifeOf == [q \in Inquiries |->
              IF ~Live(q) THEN query[q].state
              ELSE IF query[q].replied THEN "answered" ELSE "open"]

Privileged == {s \in Staff : MayDelete(s)}

Life == INSTANCE InquiryLife WITH life <- LifeOf, privileged <- Privileged

\* The workflow implements InquiryLife: although handlers write rows back from what
\* they read, an inquiry is answered only when its sender was mailed a reply and
\* the answer stays, and it leaves only at the request of somebody who had the
\* privilege when checkCanDelete ran, never to return.
ImplementsLife == Life!Spec

\* "Internal note recorded." (contact-query.service.ts:624): a note that is in the
\* row stays there as long as the inquiry does.
RecordedNotesKept ==
    [][\A q \in Inquiries : Live(q) /\ Live(q)' => query[q].notes \subseteq query'[q].notes]_vars

=============================================================================
