------------------------ MODULE ContactQuery_proofs ------------------------
(***************************************************************************)
(* The contact-query workflow is well typed and implements InquiryLife,    *)
(* for any number of inquiries, staff members and overlapping requests;    *)
(* and it loses no note when the requests about one inquiry do not overlap.*)
(***************************************************************************)
EXTENDS ContactQuery, TLAPS

\* What a request may rely on after its awaits: the inquiry it read was submitted and
\* the request has a number, a reply about to be recorded was mailed, and every inquiry
\* about to be removed was cleared by somebody with the privilege.
JobSound(r) ==
    /\ r.pc \in {"mail", "reply", "staff", "assign", "priority", "note"} =>
           r.q \in Inquiries /\ query[r.q].state # "absent" /\ r.ticket \in Tickets
    /\ r.pc = "reply" => r.q \in mailed
    /\ r.pc = "delete" =>
           \A q \in r.targets : \E s \in Staff : <<q, s>> \in cleared

\* A reply on record was mailed.
Mailed == \A q \in Inquiries : query[q].replied => q \in mailed

JobsInv == \A j \in Jobs : JobSound(job[j])

IInv == TypeOK /\ Mailed /\ JobsInv

\* What no step undoes.
Grows ==
    /\ mailed \subseteq mailed' /\ cleared \subseteq cleared'
    /\ \A q \in Inquiries : query[q].state # "absent" => query'[q].state # "absent"

-----------------------------------------------------------------------------
(* Lemmas on the edits of a row.                                            *)

\* The row of an inquiry that was not submitted yet, and the job that is idle.
LEMMA FirstRow == NoQuery \in Query /\ Idle \in Job
<1>1. "PENDING" \in Statuses
  BY DEF Statuses
<1>2. {} \in SUBSET Tickets /\ {} \in SUBSET (Tickets \cup {0})
  OBVIOUS
<1>3. NoQuery \in Query
  BY <1>1, <1>2 DEF NoQuery, Query
<1>4. NothingSeen \in Seen
  BY <1>1, <1>2 DEF NothingSeen, Seen
<1>5. Idle \in Job
  BY <1>4 DEF Idle, Job
<1> QED
  BY <1>3, <1>5

\* What a handler has read of a well-typed row is well typed.
LEMMA SeenType ==
  ASSUME TypeOK, NEW q \in Inquiries
  PROVE  See(q) \in Seen
BY DEF See, Seen, TypeOK, Query

\* Editing one row with a row of the type keeps the table's type.
LEMMA EditType ==
  ASSUME TypeOK, NEW q \in Inquiries, NEW r \in Query, Edit(q, r)
  PROVE  query' \in [Inquiries -> Query]
BY DEF Edit, TypeOK

-----------------------------------------------------------------------------
(* Lemmas on jobs.                                                          *)

\* What a sound job relies on is not undone.
LEMMA SoundStable ==
  ASSUME NEW b \in Job, Grows, JobSound(b)
  PROVE  JobSound(b)'
BY DEF JobSound, Grows

\* A step that gives one job a new record has to show that record sound.
LEMMA JobStep ==
  ASSUME IInv, Grows, NEW j \in Jobs, NEW b \in Job,
         job' = [job EXCEPT ![j] = b], JobSound(b)'
  PROVE  JobsInv' /\ job' \in [Jobs -> Job]
<1>1. job \in [Jobs -> Job]
  BY DEF IInv, TypeOK
<1>2. ASSUME NEW i \in Jobs
      PROVE  JobSound(job[i])'
  <2>1. CASE i = j
    BY <1>1, <2>1 DEF JobSound
  <2>2. CASE i # j
    <3>1. PICK c \in Job : c = job[i]
      BY <1>1
    <3>2. JobSound(c)'
      BY <3>1, SoundStable DEF IInv, JobsInv
    <3> QED
      BY <1>1, <2>2, <3>1, <3>2 DEF JobSound
  <2> QED
    BY <2>1, <2>2
<1> QED
  BY <1>1, <1>2 DEF JobsInv

\* A step that touches no job.
LEMMA NoJobStep ==
  ASSUME IInv, Grows, job' = job
  PROVE  JobsInv' /\ job' \in [Jobs -> Job]
<1>1. job \in [Jobs -> Job]
  BY DEF IInv, TypeOK
<1>2. ASSUME NEW i \in Jobs
      PROVE  JobSound(job[i])'
  <2>1. PICK c \in Job : c = job[i]
    BY <1>1
  <2>2. JobSound(c)'
    BY <2>1, SoundStable DEF IInv, JobsInv
  <2> QED
    BY <2>1, <2>2 DEF JobSound
<1> QED
  BY <1>1, <1>2 DEF JobsInv

\* A job that ends.
LEMMA FinishStep ==
  ASSUME IInv, Grows, NEW j \in Jobs, Finish(j)
  PROVE  JobsInv' /\ job' \in [Jobs -> Job]
<1>1. JobSound(Idle)'
  BY DEF Idle, JobSound
<1> QED
  BY <1>1, FirstRow, JobStep DEF Finish

\* A job that goes on to its next step.
LEMMA GotoStep ==
  ASSUME IInv, Grows, NEW j \in Jobs, Goto(j, "reply") \/ Goto(j, "assign"),
         job[j].pc \in {"mail", "staff"}, Goto(j, "reply") => job[j].q \in mailed'
  PROVE  JobsInv' /\ job' \in [Jobs -> Job]
<1>1. PICK b \in Job : b = job[j]
  BY DEF IInv, TypeOK
<1>2. job \in [Jobs -> Job] /\ JobSound(b)
  BY <1>1 DEF IInv, TypeOK, JobsInv
<1>3. CASE Goto(j, "reply")
  <2> DEFINE c == [b EXCEPT !.pc = "reply"]
  <2>1. c \in Job /\ job' = [job EXCEPT ![j] = c]
    BY <1>1, <1>2, <1>3 DEF Goto, Job
  <2>2. JobSound(b)'
    BY <1>2, SoundStable
  <2>3. JobSound(c)'
    BY <1>1, <1>3, <2>2 DEF JobSound, Job
  <2> QED
    BY <2>1, <2>3, JobStep
<1>4. CASE Goto(j, "assign")
  <2> DEFINE c == [b EXCEPT !.pc = "assign"]
  <2>1. c \in Job /\ job' = [job EXCEPT ![j] = c]
    BY <1>1, <1>2, <1>4 DEF Goto, Job
  <2>2. JobSound(b)'
    BY <1>2, SoundStable
  <2>3. JobSound(c)'
    BY <1>1, <2>2 DEF JobSound, Job
  <2> QED
    BY <2>1, <2>3, JobStep
<1> QED
  BY <1>3, <1>4

-----------------------------------------------------------------------------
(* Every action preserves IInv.                                             *)

\* A handler's final write: one row, still live, replied to only when mailed.
LEMMA RowWrite ==
  ASSUME IInv, NEW j \in Jobs, NEW q \in Inquiries, NEW r \in Query,
         Edit(q, r), Finish(j), r.state = "live", r.replied => q \in mailed,
         UNCHANGED <<canDelete, tickets, mailed, cleared>>
  PROVE  IInv'
<1>1. query' \in [Inquiries -> Query] /\ query' = [query EXCEPT ![q] = r]
  BY EditType DEF IInv, Edit
<1>2. query \in [Inquiries -> Query]
  BY DEF IInv, TypeOK
<1>3. Grows
  BY <1>1, <1>2 DEF Grows
<1>4. Mailed'
  BY <1>1, <1>2 DEF IInv, Mailed
<1>5. JobsInv' /\ job' \in [Jobs -> Job]
  BY <1>3, FinishStep
<1>6. TypeOK'
  BY <1>1, <1>5 DEF IInv, TypeOK
<1> QED
  BY <1>4, <1>5, <1>6 DEF IInv

\* The inquiry of a job that is about to write, and what it builds from what it read.
LEMMA WriterFacts ==
  ASSUME IInv, NEW j \in Jobs,
         job[j].pc \in {"reply", "assign", "priority", "note"}
  PROVE  /\ job[j].q \in Inquiries /\ query[job[j].q] \in Query
         /\ AppendLog(j) \in SUBSET (Tickets \cup {0})
         /\ job[j].seen.notes \cup {job[j].ticket} \in SUBSET Tickets
         /\ AssignedStatus(job[j].seen) \in Statuses
<1>1. PICK b \in Job : b = job[j]
  BY DEF IInv, TypeOK
<1>2. JobSound(b)
  BY <1>1 DEF IInv, JobsInv
<1>3. b.q \in Inquiries /\ query[b.q] \in Query /\ b.ticket \in Tickets
  BY <1>1, <1>2 DEF JobSound, IInv, TypeOK
<1>4. b.seen \in Seen
  BY DEF Job
<1>5. b.seen.status \in Statuses /\ "IN_PROGRESS" \in Statuses
  BY <1>4 DEF Seen, Statuses
<1> QED
  BY <1>1, <1>3, <1>4, <1>5 DEF AppendLog, AssignedStatus, Seen

\* replyToQuery records its reply.
LEMMA ReplyWriteLemma ==
  ASSUME IInv, NEW j \in Jobs, ReplyWrite(j)
  PROVE  IInv'
<1>1. PICK q \in Inquiries, l \in SUBSET (Tickets \cup {0}) :
        q = job[j].q /\ l = AppendLog(j) /\ query[q] \in Query
  BY WriterFacts DEF ReplyWrite, At
<1>2. q \in mailed
  BY <1>1 DEF IInv, JobsInv, JobSound, ReplyWrite, At
<1> DEFINE r == [query[q] EXCEPT !.replied = TRUE, !.status = "RESOLVED", !.log = l]
<1>3. PICK status \in Statuses : status = "RESOLVED"
  BY DEF Statuses
<1>4. PICK replied \in BOOLEAN : replied = TRUE
  OBVIOUS
<1>5. r = [query[q] EXCEPT !.replied = replied, !.status = status, !.log = l]
  BY <1>3, <1>4
<1>6. r \in Query
  BY <1>1, <1>5 DEF Query
<1>7. r.state = "live"
  BY <1>1 DEF ReplyWrite, Live, Query
<1>8. Edit(q, r) /\ Finish(j)
  BY <1>1 DEF ReplyWrite
<1> QED
  BY <1>2, <1>6, <1>7, <1>8, RowWrite DEF ReplyWrite

\* assignQuery, updatePriority and addInternalNote write.
LEMMA OtherWritesLemma ==
  ASSUME IInv, NEW j \in Jobs, AssignWrite(j) \/ PriorityWrite(j) \/ NoteWrite(j)
  PROVE  IInv'
<1>1. job[j].pc \in {"assign", "priority", "note"}
  BY DEF AssignWrite, PriorityWrite, NoteWrite, At
<1>2. PICK q \in Inquiries, l \in SUBSET (Tickets \cup {0}), n \in SUBSET Tickets,
           status \in Statuses :
        /\ q = job[j].q /\ l = AppendLog(j) /\ query[q] \in Query
        /\ n = job[j].seen.notes \cup {job[j].ticket}
        /\ status = AssignedStatus(job[j].seen)
  BY <1>1, WriterFacts
<1>3. query[q].state = "live" /\ (query[q].replied => q \in mailed)
  BY <1>2 DEF AssignWrite, PriorityWrite, NoteWrite, Live, IInv, Mailed
<1>4. CASE AssignWrite(j)
  <2>1. PICK target \in Staff :
          Edit(q, [query[q] EXCEPT !.assigned = target, !.status = status, !.log = l])
    BY <1>2, <1>4 DEF AssignWrite
  <2> DEFINE r == [query[q] EXCEPT !.assigned = target, !.status = status, !.log = l]
  <2>2. r \in Query
    BY <1>2 DEF Query
  <2>3. r.state = "live" /\ r.replied = query[q].replied
    BY <1>2, <1>3 DEF Query
  <2> QED
    BY <1>3, <1>4, <2>1, <2>2, <2>3, RowWrite DEF AssignWrite
<1>5. CASE PriorityWrite(j)
  <2> DEFINE r == [query[q] EXCEPT !.log = l]
  <2>1. r \in Query
    BY <1>2 DEF Query
  <2>2. r.state = "live" /\ r.replied = query[q].replied
    BY <1>2, <1>3 DEF Query
  <2>3. Edit(q, r)
    BY <1>2, <1>5 DEF PriorityWrite
  <2> QED
    BY <1>3, <1>5, <2>1, <2>2, <2>3, RowWrite DEF PriorityWrite
<1>6. CASE NoteWrite(j)
  <2> DEFINE r == [query[q] EXCEPT !.notes = n, !.log = l]
  <2>1. r \in Query
    BY <1>2 DEF Query
  <2>2. r.state = "live" /\ r.replied = query[q].replied
    BY <1>2, <1>3 DEF Query
  <2>3. Edit(q, r)
    BY <1>2, <1>6 DEF NoteWrite
  <2> QED
    BY <1>3, <1>6, <2>1, <2>2, <2>3, RowWrite DEF NoteWrite
<1> QED
  BY <1>4, <1>5, <1>6

\* A new inquiry.
LEMMA SubmitLemma ==
  ASSUME IInv, NEW q \in Inquiries, Submit(q)
  PROVE  IInv'
<1> DEFINE r == [NoQuery EXCEPT !.state = "live", !.log = {0}]
<1>1. PICK l \in SUBSET (Tickets \cup {0}) : l = {0}
  OBVIOUS
<1>2. r \in Query /\ r.state = "live" /\ ~r.replied
  <2>1. r = [NoQuery EXCEPT !.state = "live", !.log = l]
    BY <1>1
  <2>2. r \in Query
    BY <2>1, FirstRow DEF Query
  <2>3. NoQuery.replied = FALSE
    BY DEF NoQuery
  <2>4. r.state = "live" /\ r.replied = NoQuery.replied
    BY <2>1, FirstRow DEF Query
  <2> QED
    BY <2>2, <2>3, <2>4
<1>3. query \in [Inquiries -> Query] /\ query' = [query EXCEPT ![q] = r]
  BY DEF IInv, TypeOK, Submit, Edit
<1>4. query' \in [Inquiries -> Query]
  BY <1>2, <1>3
<1>5. Grows
  BY <1>2, <1>3 DEF Grows, Submit
<1>6. Mailed'
  BY <1>2, <1>3 DEF IInv, Mailed, Submit
<1>7. JobsInv' /\ job' \in [Jobs -> Job]
  BY <1>5, NoJobStep DEF Submit
<1>8. TypeOK'
  BY <1>4, <1>7 DEF IInv, TypeOK, Submit
<1> QED
  BY <1>6, <1>7, <1>8 DEF IInv

\* A handler reads the row of its inquiry.
LEMMA BeginLemma ==
  ASSUME IInv, NEW j \in Jobs, NEW q \in Inquiries,
         NEW pc \in {"mail", "staff", "priority", "note"}, Begin(j, q, pc)
  PROVE  IInv'
<1>1. tickets \in Nat /\ tickets + 1 \in Tickets /\ tickets' = tickets + 1
  <2>1. tickets \in 0..MaxTickets /\ tickets < MaxTickets /\ MaxTickets \in Nat
    BY Parameters DEF IInv, TypeOK, Begin, Tickets
  <2> QED
    BY <2>1 DEF Begin, Tickets
<1>2. PICK s \in Seen, n \in Tickets : s = See(q) /\ n = tickets + 1
  BY <1>1, SeenType DEF IInv
<1> DEFINE b == [pc |-> pc, q |-> q, targets |-> {}, seen |-> s, ticket |-> n]
<1>3. b \in Job
  BY <1>2 DEF Job
<1>4. Grows
  BY DEF Begin, Grows
<1>5. JobSound(b)'
  BY <1>2 DEF JobSound, Begin, Live
<1>6. job' = [job EXCEPT ![j] = b]
  BY <1>2 DEF Begin
<1>7. JobsInv' /\ job' \in [Jobs -> Job]
  BY <1>3, <1>4, <1>5, <1>6, JobStep
<1>8. TypeOK' /\ Mailed'
  BY <1>1, <1>7 DEF IInv, TypeOK, Mailed, Begin
<1> QED
  BY <1>7, <1>8 DEF IInv

\* The reply's mail is delivered or fails, and assignQuery reads its target.
LEMMA GoesOnLemma ==
  ASSUME IInv, NEW j \in Jobs, ReplyMail(j) \/ AssignStaff(j)
  PROVE  IInv'
<1>1. PICK b \in Job : b = job[j] /\ JobSound(b)
  BY DEF IInv, TypeOK, JobsInv
<1>2. b.q \in Inquiries
  BY <1>1 DEF JobSound, ReplyMail, AssignStaff, At
<1>3. Grows /\ mailed' \in SUBSET Inquiries
  BY <1>1, <1>2 DEF Grows, ReplyMail, AssignStaff, IInv, TypeOK
<1>4. JobsInv' /\ job' \in [Jobs -> Job]
  <2>1. CASE Goto(j, "reply") /\ ReplyMail(j)
    <3>1. job[j].q \in mailed'
      <4>1. b.pc = "mail"
        BY <1>1, <2>1 DEF ReplyMail, At
      <4>2. job' # [job EXCEPT ![j] = Idle]
        <5>1. job'[j].pc = "reply"
          BY <1>1, <2>1 DEF Goto, IInv, TypeOK, Job
        <5> QED
          BY <5>1 DEF Idle, IInv, TypeOK
      <4> QED
        BY <2>1, <4>2 DEF ReplyMail, GoesOn, Finish
    <3> QED
      BY <1>3, <2>1, <3>1, GotoStep DEF ReplyMail, At
  <2>2. CASE Finish(j)
    BY <1>3, <2>2, FinishStep
  <2>3. CASE AssignStaff(j)
    <3>1. ~Goto(j, "reply")
      BY <1>1, <2>3 DEF AssignStaff, Goto, IInv, TypeOK, Job
    <3> QED
      BY <1>3, <2>3, <3>1, GotoStep DEF AssignStaff, At
  <2> QED
    BY <2>1, <2>2, <2>3 DEF ReplyMail
<1>5. TypeOK' /\ Mailed'
  BY <1>3, <1>4 DEF IInv, TypeOK, Mailed, Grows, ReplyMail, AssignStaff
<1> QED
  BY <1>4, <1>5 DEF IInv

\* updateStatus and the bulk actions: rows change in a column that is not replied.
LEMMA BulkLemma ==
  ASSUME IInv, NEW Q \in SUBSET Inquiries,
         \/ \E status \in Statuses : SetStatus(Q, status)
         \/ \E target \in Staff \cup Customers : BulkAssign(Q, target)
  PROVE  IInv'
<1>1. PICK new : /\ new \in [Q -> Query] /\ EditAll(Q, new)
                 /\ \A q \in Q : new[q].state = "live" /\ new[q].replied = query[q].replied
  <2>1. query \in [Inquiries -> Query]
    BY DEF IInv, TypeOK
  <2>2. ASSUME NEW status \in Statuses, SetStatus(Q, status)
        PROVE  /\ [q \in Q |-> [query[q] EXCEPT !.status = status]] \in [Q -> Query]
               /\ \A q \in Q : /\ [query[q] EXCEPT !.status = status].state = "live"
                               /\ [query[q] EXCEPT !.status = status].replied = query[q].replied
    BY <2>1, <2>2 DEF Query, SetStatus, EditAll, Live
  <2>3. ASSUME NEW target \in Staff \cup Customers, BulkAssign(Q, target)
        PROVE  /\ [q \in Q |-> [query[q] EXCEPT !.assigned = target]] \in [Q -> Query]
               /\ \A q \in Q : /\ [query[q] EXCEPT !.assigned = target].state = "live"
                               /\ [query[q] EXCEPT !.assigned = target].replied = query[q].replied
    BY <2>1, <2>3 DEF Query, BulkAssign, EditAll, Live
  <2>4. CASE \E status \in Statuses : SetStatus(Q, status)
    <3>1. PICK status \in Statuses : SetStatus(Q, status)
      BY <2>4
    <3> DEFINE new == [q \in Q |-> [query[q] EXCEPT !.status = status]]
    <3>2. new \in [Q -> Query] /\ EditAll(Q, new)
      BY <2>2, <3>1 DEF SetStatus
    <3>3. \A q \in Q : new[q].state = "live" /\ new[q].replied = query[q].replied
      BY <2>2, <3>1
    <3> HIDE DEF new
    <3> QED
      BY <3>2, <3>3
  <2>5. CASE \E target \in Staff \cup Customers : BulkAssign(Q, target)
    <3>1. PICK target \in Staff \cup Customers : BulkAssign(Q, target)
      BY <2>5
    <3> DEFINE new == [q \in Q |-> [query[q] EXCEPT !.assigned = target]]
    <3>2. new \in [Q -> Query] /\ EditAll(Q, new)
      BY <2>3, <3>1 DEF BulkAssign
    <3>3. \A q \in Q : new[q].state = "live" /\ new[q].replied = query[q].replied
      BY <2>3, <3>1
    <3> HIDE DEF new
    <3> QED
      BY <3>2, <3>3
  <2> QED
    BY <2>4, <2>5
<1>2. query' \in [Inquiries -> Query]
  BY <1>1 DEF EditAll, IInv, TypeOK
<1>3. \A q \in Inquiries : query[q].replied = query'[q].replied
                           /\ (query[q].state # "absent" => query'[q].state # "absent")
  BY <1>1 DEF EditAll
<1>4. Grows /\ Mailed'
  BY <1>1, <1>3 DEF Grows, EditAll, IInv, Mailed
<1>5. JobsInv' /\ job' \in [Jobs -> Job]
  BY <1>1, <1>4, NoJobStep DEF EditAll
<1>6. TypeOK'
  BY <1>1, <1>2, <1>5 DEF EditAll, IInv, TypeOK
<1> QED
  BY <1>4, <1>5, <1>6 DEF IInv

\* checkCanDelete passes.
LEMMA DeleteBeginLemma ==
  ASSUME IInv, NEW j \in Jobs, NEW Q \in SUBSET Inquiries, NEW s \in Staff,
         DeleteBegin(j, Q, s)
  PROVE  IInv'
<1> DEFINE b == [Idle EXCEPT !.pc = "delete", !.targets = Q]
<1>1. b \in Job /\ b.targets = Q /\ b.pc = "delete"
  BY FirstRow DEF Job
<1>2. Grows /\ cleared' \in SUBSET (Inquiries \X Staff)
  BY DEF Grows, DeleteBegin, IInv, TypeOK
<1>3. JobSound(b)'
  BY <1>1 DEF JobSound, DeleteBegin
<1>4. JobsInv' /\ job' \in [Jobs -> Job]
  BY <1>1, <1>2, <1>3, JobStep DEF DeleteBegin
<1>5. TypeOK' /\ Mailed'
  BY <1>2, <1>4 DEF IInv, TypeOK, Mailed, DeleteBegin
<1> QED
  BY <1>4, <1>5 DEF IInv

\* The rows are removed.
LEMMA DeleteWriteLemma ==
  ASSUME IInv, NEW j \in Jobs, DeleteWrite(j)
  PROVE  IInv'
<1>1. PICK gone \in Query : /\ gone = [NoQuery EXCEPT !.state = "removed"]
                            /\ gone.state = "removed" /\ ~gone.replied
  <2> DEFINE r == [NoQuery EXCEPT !.state = "removed"]
  <2>1. NoQuery.replied = FALSE
    BY DEF NoQuery
  <2>2. r \in Query
    BY FirstRow DEF Query
  <2>3. r.state = "removed" /\ r.replied = NoQuery.replied
    BY FirstRow DEF Query
  <2> HIDE DEF r
  <2>4. ~r.replied
    BY <2>1, <2>3
  <2> QED
    BY <2>2, <2>3, <2>4 DEF r
<1>2. query' = [q \in Inquiries |-> IF q \in job[j].targets /\ Live(q)
                                   THEN gone ELSE query[q]]
  BY <1>1 DEF DeleteWrite
<1>3. query' \in [Inquiries -> Query]
  BY <1>1, <1>2 DEF IInv, TypeOK
<1>4. Grows /\ Mailed'
  BY <1>1, <1>2 DEF Grows, DeleteWrite, IInv, Mailed
<1>5. JobsInv' /\ job' \in [Jobs -> Job]
  BY <1>4, FinishStep DEF DeleteWrite
<1>6. TypeOK'
  BY <1>3, <1>5 DEF DeleteWrite, IInv, TypeOK
<1> QED
  BY <1>4, <1>5, <1>6 DEF IInv

\* A privilege changes, a job fails, or nothing happens.
LEMMA QuietLemma ==
  ASSUME IInv,
         \/ \E s \in Staff, can \in BOOLEAN :
             TogglePermission(s, can) \/ UpdatePermissions(s, can)
         \/ \E j \in Jobs : JobFails(j)
         \/ UNCHANGED vars
  PROVE  IInv'
<1>1. Grows /\ Mailed'
  BY DEF Grows, TogglePermission, UpdatePermissions, JobFails, vars, IInv, Mailed
<1>2. JobsInv' /\ job' \in [Jobs -> Job]
  BY <1>1, NoJobStep, FinishStep DEF TogglePermission, UpdatePermissions, JobFails, vars
<1>3. TypeOK'
  BY <1>2 DEF TogglePermission, UpdatePermissions, JobFails, vars, IInv, TypeOK
<1> QED
  BY <1>1, <1>2, <1>3 DEF IInv

-----------------------------------------------------------------------------
(* The theorems.                                                            *)

\* IInv holds initially.
LEMMA Initial == Init => IInv
<1> SUFFICES ASSUME Init
             PROVE  IInv
  OBVIOUS
<1>1. TypeOK
  BY FirstRow, Parameters DEF Init, TypeOK, Tickets
<1>2. JobsInv
  BY DEF Init, JobsInv, JobSound, Idle
<1>3. Mailed
  BY DEF Init, Mailed, NoQuery
<1> QED
  BY <1>1, <1>2, <1>3 DEF IInv

\* Every step preserves IInv.
LEMMA Inductive == IInv /\ [Next]_vars => IInv'
<1> SUFFICES ASSUME IInv, [Next]_vars
             PROVE  IInv'
  OBVIOUS
<1>1. ASSUME NEW j \in Jobs, Work(j)
      PROVE  IInv'
  BY <1>1, ReplyWriteLemma, OtherWritesLemma, GoesOnLemma, DeleteWriteLemma DEF Work
<1>2. ASSUME NEW j \in Jobs, NEW q \in Inquiries,
             NEW pc \in {"mail", "staff", "priority", "note"}, Begin(j, q, pc)
      PROVE  IInv'
  BY <1>2, BeginLemma
<1>3. ASSUME NEW j \in Jobs, NEW Q \in SUBSET Inquiries, NEW s \in Staff, DeleteBegin(j, Q, s)
      PROVE  IInv'
  BY <1>3, DeleteBeginLemma
<1> QED
  BY <1>1, <1>2, <1>3, SubmitLemma, BulkLemma, QuietLemma DEF Next

\* IInv is an invariant of the workflow.
THEOREM Invariance == Spec => []IInv
  BY Initial, Inductive, PTL DEF Spec

\* The contact-query tables and jobs are well typed, for any number of inquiries, staff
\* and concurrent requests.
THEOREM TypeCorrect == Spec => []TypeOK
<1>1. IInv => TypeOK
  BY DEF IInv
<1> QED
  BY <1>1, Invariance, PTL

-----------------------------------------------------------------------------
(* Refinement: every step is a step of InquiryLife, or stutters.            *)

LifeStep == [Life!Next]_(Life!vars)

\* The life of an inquiry depends on two columns of its row.
LEMMA SameLife ==
  ASSUME \A q \in Inquiries : query'[q].state = query[q].state /\ query'[q].replied = query[q].replied
  PROVE  LifeOf' = LifeOf
BY DEF LifeOf, Live

\* Who may remove depends on canDeleteQueries only.
LEMMA SamePrivilege ==
  ASSUME canDelete' = canDelete
  PROVE  Privileged' = Privileged
BY DEF Privileged, MayDelete

\* A step that keeps the two columns, the history and the privileges stutters.
LEMMA Stutter ==
  ASSUME \A q \in Inquiries : query'[q].state = query[q].state /\ query'[q].replied = query[q].replied,
         UNCHANGED <<canDelete, mailed, cleared>>
  PROVE  LifeStep
BY SameLife, SamePrivilege DEF LifeStep, Life!vars

\* A submission opens the inquiry.
LEMMA SubmitOpens ==
  ASSUME IInv, NEW q \in Inquiries, Submit(q)
  PROVE  LifeStep
<1> DEFINE r == [NoQuery EXCEPT !.state = "live", !.log = {0}]
<1>1. r.state = "live" /\ r.replied = FALSE
  BY DEF NoQuery
<1>2. query \in [Inquiries -> Query] /\ query' = [query EXCEPT ![q] = r]
  BY DEF IInv, TypeOK, Submit, Edit
<1> HIDE DEF r
<1>3. LifeOf[q] = "absent"
  BY DEF LifeOf, Submit, Live
<1>4. LifeOf' = [LifeOf EXCEPT ![q] = "open"]
  BY <1>1, <1>2 DEF LifeOf, Live
<1>5. Life!Open(q)
  BY <1>3, <1>4, SamePrivilege DEF Life!Open, Submit
<1> QED
  BY <1>5 DEF LifeStep, Life!Next

\* A delivered mail is a reply to an inquiry that was submitted.
LEMMA ReplyMailMails ==
  ASSUME IInv, NEW j \in Jobs, ReplyMail(j)
  PROVE  LifeStep
<1>1. UNCHANGED <<query, canDelete, cleared>>
  BY DEF ReplyMail
<1>2. LifeOf' = LifeOf /\ Privileged' = Privileged
  BY <1>1, SameLife, SamePrivilege
<1>3. PICK q \in Inquiries : q = job[j].q /\ query[q].state # "absent"
  BY DEF IInv, JobsInv, JobSound, ReplyMail, At
<1>4. LifeOf[q] # "absent"
  BY <1>3 DEF LifeOf, Live
<1>5. CASE mailed' = mailed
  BY <1>1, <1>2, <1>5 DEF LifeStep, Life!vars
<1>6. CASE mailed' = mailed \cup {q}
  BY <1>1, <1>2, <1>4, <1>6 DEF LifeStep, Life!Next, Life!Mail
<1> QED
  BY <1>3, <1>5, <1>6 DEF ReplyMail

\* The recorded reply answers the inquiry, or repeats an answer.
LEMMA ReplyWriteAnswers ==
  ASSUME IInv, NEW j \in Jobs, ReplyWrite(j)
  PROVE  LifeStep
<1>1. PICK q \in Inquiries : q = job[j].q /\ query[q] \in Query
  BY WriterFacts DEF ReplyWrite, At
<1>2. q \in mailed /\ query[q].state = "live"
  BY <1>1 DEF IInv, JobsInv, JobSound, ReplyWrite, At, Live
<1>3. query \in [Inquiries -> Query] /\ UNCHANGED <<canDelete, mailed, cleared>>
  BY DEF IInv, TypeOK, ReplyWrite
<1>4. PICK r : query' = [query EXCEPT ![q] = r] /\ r.state = "live" /\ r.replied = TRUE
  <2> DEFINE new == [query[q] EXCEPT !.replied = TRUE, !.status = "RESOLVED", !.log = AppendLog(j)]
  <2>1. query' = [query EXCEPT ![q] = new]
    BY <1>1 DEF ReplyWrite, Edit
  <2>2. new.state = query[q].state /\ new.replied = TRUE
    BY <1>1 DEF Query
  <2> HIDE DEF new
  <2> QED
    BY <1>2, <2>1, <2>2
<1>5. CASE query[q].replied
  BY <1>2, <1>3, <1>4, <1>5, Stutter
<1>6. CASE ~query[q].replied
  <2>1. LifeOf[q] = "open"
    BY <1>2, <1>6 DEF LifeOf, Live
  <2>2. LifeOf' = [LifeOf EXCEPT ![q] = "answered"]
    BY <1>3, <1>4 DEF LifeOf, Live
  <2> QED
    BY <1>2, <1>3, <2>1, <2>2, SamePrivilege DEF LifeStep, Life!Next, Life!Answer
<1> QED
  BY <1>5, <1>6

\* What assignQuery, updatePriority and addInternalNote write shows in no life.
LEMMA OtherWritesStutter ==
  ASSUME IInv, NEW j \in Jobs, AssignWrite(j) \/ PriorityWrite(j) \/ NoteWrite(j)
  PROVE  LifeStep
<1>1. PICK q \in Inquiries : q = job[j].q /\ query[q] \in Query
  BY WriterFacts DEF AssignWrite, PriorityWrite, NoteWrite, At
<1>2. PICK r : /\ query' = [query EXCEPT ![q] = r]
               /\ r.state = query[q].state /\ r.replied = query[q].replied
  <2>1. CASE AssignWrite(j)
    <3>1. PICK target \in Staff :
            query' = [query EXCEPT ![q] = [query[q] EXCEPT !.assigned = target,
                        !.status = AssignedStatus(job[j].seen), !.log = AppendLog(j)]]
      BY <1>1, <2>1 DEF AssignWrite, Edit
    <3> DEFINE new == [query[q] EXCEPT !.assigned = target,
                          !.status = AssignedStatus(job[j].seen), !.log = AppendLog(j)]
    <3>2. new.state = query[q].state /\ new.replied = query[q].replied
      BY <1>1 DEF Query
    <3> QED
      BY <3>1, <3>2
  <2>2. CASE PriorityWrite(j)
    <3> DEFINE new == [query[q] EXCEPT !.log = AppendLog(j)]
    <3>1. query' = [query EXCEPT ![q] = new]
      BY <1>1, <2>2 DEF PriorityWrite, Edit
    <3>2. new.state = query[q].state /\ new.replied = query[q].replied
      BY <1>1 DEF Query
    <3> QED
      BY <3>1, <3>2
  <2>3. CASE NoteWrite(j)
    <3> DEFINE new == [query[q] EXCEPT !.notes = job[j].seen.notes \cup {job[j].ticket},
                                       !.log = AppendLog(j)]
    <3>1. query' = [query EXCEPT ![q] = new]
      BY <1>1, <2>3 DEF NoteWrite, Edit
    <3>2. new.state = query[q].state /\ new.replied = query[q].replied
      BY <1>1 DEF Query
    <3> QED
      BY <3>1, <3>2
  <2> QED
    BY <2>1, <2>2, <2>3
<1>3. query \in [Inquiries -> Query] /\ UNCHANGED <<canDelete, mailed, cleared>>
  BY DEF IInv, TypeOK, AssignWrite, PriorityWrite, NoteWrite
<1> QED
  BY <1>2, <1>3, Stutter

\* updateStatus and the bulk actions show in no life either.
LEMMA BulkStutters ==
  ASSUME IInv, NEW Q \in SUBSET Inquiries,
         \/ \E status \in Statuses : SetStatus(Q, status)
         \/ \E target \in Staff \cup Customers : BulkAssign(Q, target)
  PROVE  LifeStep
<1>1. query \in [Inquiries -> Query]
  BY DEF IInv, TypeOK
<1>2. ASSUME NEW q \in Inquiries
      PROVE  query'[q].state = query[q].state /\ query'[q].replied = query[q].replied
  <2>1. query[q] \in Query
    BY <1>1
  <2> QED
    BY <2>1 DEF SetStatus, BulkAssign, EditAll, Query
<1>3. UNCHANGED <<canDelete, mailed, cleared>>
  BY DEF SetStatus, BulkAssign, EditAll
<1> QED
  BY <1>2, <1>3, Stutter

\* checkCanDelete clears the inquiries for somebody privileged.
LEMMA DeleteBeginClears ==
  ASSUME NEW j \in Jobs, NEW Q \in SUBSET Inquiries, NEW s \in Staff, DeleteBegin(j, Q, s)
  PROVE  LifeStep
<1>1. s \in Privileged
  BY DEF DeleteBegin, Privileged
<1>2. LifeOf' = LifeOf /\ Privileged' = Privileged
  BY SameLife, SamePrivilege DEF DeleteBegin
<1>3. Life!Clear(Q, s)
  BY <1>1, <1>2 DEF Life!Clear, DeleteBegin
<1> QED
  BY <1>3 DEF LifeStep, Life!Next

\* What goes was cleared.
LEMMA DeleteWriteRemoves ==
  ASSUME IInv, NEW j \in Jobs, DeleteWrite(j)
  PROVE  LifeStep
<1> DEFINE Q == {q \in Inquiries : q \in job[j].targets /\ Live(q)}
<1>1. \A q \in Q : \E s \in Staff : <<q, s>> \in cleared
  BY DEF IInv, JobsInv, JobSound, DeleteWrite, At
<1>2. \A q \in Q : LifeOf[q] \in {"open", "answered"}
  BY DEF LifeOf
<1>3. PICK gone : gone = [NoQuery EXCEPT !.state = "removed"] /\ gone.state = "removed"
  <2> DEFINE r == [NoQuery EXCEPT !.state = "removed"]
  <2>1. r.state = "removed"
    BY FirstRow DEF Query
  <2> HIDE DEF r
  <2> QED
    BY <2>1 DEF r
<1>4. query' = [q \in Inquiries |-> IF q \in job[j].targets /\ Live(q) THEN gone ELSE query[q]]
  BY <1>3 DEF DeleteWrite
<1>5. LifeOf' = [q \in Inquiries |-> IF q \in Q THEN "removed" ELSE LifeOf[q]]
  BY <1>3, <1>4 DEF LifeOf, Live
<1>6. UNCHANGED <<mailed, cleared, Privileged>>
  BY SamePrivilege DEF DeleteWrite
<1> HIDE DEF Q
<1>7. Life!Remove(Q)
  BY <1>1, <1>2, <1>5, <1>6 DEF Life!Remove
<1>8. Q \in SUBSET Inquiries
  BY DEF Q
<1> QED
  BY <1>7, <1>8 DEF LifeStep, Life!Next

\* The privilege is granted or taken, and super admins keep theirs.
LEMMA ToggleGrants ==
  ASSUME NEW s \in Staff, NEW can \in BOOLEAN, TogglePermission(s, can)
  PROVE  LifeStep
<1>1. LifeOf' = LifeOf
  BY SameLife DEF TogglePermission
<1>2. Privileged' \in SUBSET Staff /\ Supers \subseteq Privileged'
  BY Parameters DEF Privileged, MayDelete
<1> QED
  BY <1>1, <1>2 DEF LifeStep, Life!Next, Life!Grant, TogglePermission

\* The other steps change nothing that shows.
LEMMA OthersStutter ==
  ASSUME \/ \E j \in Jobs : AssignStaff(j) \/ JobFails(j)
         \/ \E j \in Jobs, q \in Inquiries, pc \in {"mail", "staff", "priority", "note"} :
                Begin(j, q, pc)
         \/ UNCHANGED vars
  PROVE  LifeStep
BY Stutter DEF AssignStaff, JobFails, Begin, vars

\* The initial states are initial.
LEMMA InitialLife == Init => Life!Init
<1> SUFFICES ASSUME Init
             PROVE  Life!Init
  OBVIOUS
<1>1. LifeOf = [q \in Inquiries |-> "absent"]
  BY DEF Init, NoQuery, LifeOf, Live
<1>2. Privileged = Supers
  BY Parameters DEF Init, Privileged, MayDelete
<1> QED
  BY <1>1, <1>2 DEF Init, Life!Init

\* Every step maps to a step or a stutter.
LEMMA StepLife == IInv /\ [Next]_vars => [Life!Next]_(Life!vars)
<1> SUFFICES ASSUME IInv, [Next]_vars
             PROVE  LifeStep
  BY DEF LifeStep
<1>1. ASSUME NEW j \in Jobs, Work(j)
      PROVE  LifeStep
  BY <1>1, ReplyMailMails, ReplyWriteAnswers, OtherWritesStutter, DeleteWriteRemoves,
     OthersStutter DEF Work
<1>2. ASSUME NEW j \in Jobs, NEW Q \in SUBSET Inquiries, NEW s \in Staff, DeleteBegin(j, Q, s)
      PROVE  LifeStep
  BY <1>2, DeleteBeginClears
<1>3. ASSUME NEW s \in Staff, NEW can \in BOOLEAN,
             TogglePermission(s, can) \/ UpdatePermissions(s, can)
      PROVE  LifeStep
  BY <1>3, ToggleGrants DEF UpdatePermissions
<1>4. ASSUME NEW j \in Jobs, NEW q \in Inquiries,
             NEW pc \in {"mail", "staff", "priority", "note"}, Begin(j, q, pc)
      PROVE  LifeStep
  BY <1>4, OthersStutter
<1>5. ASSUME NEW j \in Jobs, JobFails(j)
      PROVE  LifeStep
  BY <1>5, OthersStutter
<1>6. CASE UNCHANGED vars
  BY <1>6, OthersStutter
<1>7. ASSUME NEW Q \in SUBSET Inquiries,
             \/ \E status \in Statuses : SetStatus(Q, status)
             \/ \E target \in Staff \cup Customers : BulkAssign(Q, target)
      PROVE  LifeStep
  BY <1>7, BulkStutters
<1>8. ASSUME NEW q \in Inquiries, Submit(q)
      PROVE  LifeStep
  BY <1>8, SubmitOpens
<1> QED
  BY <1>1, <1>2, <1>3, <1>4, <1>5, <1>6, <1>7, <1>8 DEF Next

\* The workflow implements InquiryLife: however its requests overlap and wherever they
\* fail, an inquiry is answered only after a mail, stays answered, leaves only at the
\* request of somebody who was privileged when checkCanDelete ran, and never returns.
THEOREM Implements == Spec => ImplementsLife
<1>1. Spec => Life!Init /\ [][Life!Next]_(Life!vars)
  BY InitialLife, StepLife, Invariance, PTL DEF Spec
<1> QED
  BY <1>1 DEF ImplementsLife, Life!Spec

-----------------------------------------------------------------------------
(* What InquiryLife comes to, and with it the workflow.                     *)

\* An answered inquiry had a mail, and a removed one somebody who asked for it.
LifeFacts ==
    /\ DOMAIN LifeOf = Inquiries
    /\ \A q \in Inquiries : LifeOf[q] = "answered" => q \in mailed
    /\ \A q \in Inquiries : LifeOf[q] = "removed" => \E s \in Staff : <<q, s>> \in cleared
    /\ Supers \subseteq Privileged

\* An answer stays until the inquiry goes, and what is gone stays gone.
NoWayBack ==
    /\ \A q \in Inquiries : LifeOf[q] = "removed" => LifeOf'[q] = "removed"
    /\ \A q \in Inquiries : LifeOf[q] = "answered" => LifeOf'[q] \in {"answered", "removed"}
    /\ mailed \subseteq mailed'

\* Every step of InquiryLife keeps its facts and takes nothing back.
LEMMA LifeFactsStep ==
    ASSUME LifeFacts, [Life!Next]_(Life!vars)
    PROVE  LifeFacts' /\ NoWayBack
<1>1. CASE UNCHANGED Life!vars
  <2>1. LifeOf' = LifeOf /\ mailed' = mailed /\ cleared' = cleared /\ Privileged' = Privileged
    BY <1>1 DEF Life!vars
  <2> QED
    BY <2>1 DEF LifeFacts, NoWayBack
<1>2. ASSUME NEW q \in Inquiries, Life!Open(q) \/ Life!Mail(q) \/ Life!Answer(q)
      PROVE  LifeFacts' /\ NoWayBack
  BY <1>2 DEF LifeFacts, NoWayBack, Life!Open, Life!Mail, Life!Answer
<1>3. ASSUME NEW Q \in SUBSET Inquiries, NEW s \in Staff, Life!Clear(Q, s)
      PROVE  LifeFacts' /\ NoWayBack
  BY <1>3 DEF LifeFacts, NoWayBack, Life!Clear
<1>4. ASSUME NEW Q \in SUBSET Inquiries, Life!Remove(Q)
      PROVE  LifeFacts' /\ NoWayBack
  BY <1>4 DEF LifeFacts, NoWayBack, Life!Remove
<1>5. ASSUME NEW P \in SUBSET Staff, Life!Grant(P)
      PROVE  LifeFacts' /\ NoWayBack
  BY <1>5 DEF LifeFacts, NoWayBack, Life!Grant
<1> QED
  BY <1>1, <1>2, <1>3, <1>4, <1>5 DEF Life!Next

\* Nothing is answered or removed at first.
LEMMA LifeFactsInit == Life!Init => LifeFacts
  BY DEF Life!Init, LifeFacts

\* However requests overlap and wherever they fail, an inquiry that counts as answered had a
\* mail, and one that is gone was asked for by somebody with the privilege.
THEOREM AnswersWereMailed == Spec => []LifeFacts
<1>1. LifeFacts /\ [Life!Next]_(Life!vars) => LifeFacts'
  BY LifeFactsStep
<1>2. Life!Init /\ [][Life!Next]_(Life!vars) => []LifeFacts
  BY <1>1, LifeFactsInit, PTL
<1>3. ImplementsLife => Life!Init /\ [][Life!Next]_(Life!vars)
  BY DEF ImplementsLife, Life!Spec
<1> QED
  BY <1>2, <1>3, Implements, PTL

\* No request takes an answer back, and none brings a removed inquiry back.
THEOREM AnswersStay == Spec => [][NoWayBack]_(Life!vars)
<1>1. LifeFacts /\ [Life!Next]_(Life!vars) => NoWayBack
  BY LifeFactsStep
<1>2. ImplementsLife => Life!Init /\ [][Life!Next]_(Life!vars)
  BY DEF ImplementsLife, Life!Spec
<1> QED
  BY <1>1, <1>2, AnswersWereMailed, Implements, PTL

-----------------------------------------------------------------------------
(* When nothing recorded is lost.                                           *)

\* The requests that go on from a row they have read.
Readers == {"mail", "reply", "staff", "assign", "priority", "note"}

Reads(j, q) == job[j].pc \in Readers /\ job[j].q = q

\* No two of them are about one inquiry.
OneReaderEach == \A q \in Inquiries, i, k \in Jobs : Reads(i, q) /\ Reads(k, q) => i = k

\* What such a request has read still stands in the row.
SeenTrue == \A q \in Inquiries, j \in Jobs :
    Reads(j, q) /\ Live(q) => /\ job[j].seen.notes = query[q].notes
                              /\ job[j].seen.log = query[q].log

\* Neither a note nor an entry of the log leaves the row of an inquiry that stays.
RecordKept == \A q \in Inquiries :
    Live(q) /\ Live(q)' => query[q].notes \subseteq query'[q].notes /\ query[q].log \subseteq query'[q].log

\* The final write of such a request, and what every other step leaves of the two columns.
Writes(j, q) ==
    /\ Reads(j, q) /\ Finish(j)
    /\ \E r : /\ query' = [query EXCEPT ![q] = r] /\ r.log = AppendLog(j)
              /\ \/ r.notes = query[q].notes
                 \/ job[j].seen.notes \subseteq r.notes

Keeps == \A q \in Inquiries :
    Live(q)' => \/ query[q].state = "absent"
                \/ Live(q) /\ query'[q].notes = query[q].notes /\ query'[q].log = query[q].log

\* The last call of each of the four handlers.
LEMMA WriteStep ==
  ASSUME IInv, NEW j \in Jobs, ReplyWrite(j) \/ AssignWrite(j) \/ PriorityWrite(j) \/ NoteWrite(j)
  PROVE  \E q \in Inquiries : Writes(j, q)
<1>1. job[j].pc \in {"reply", "assign", "priority", "note"} /\ Finish(j)
  BY DEF ReplyWrite, AssignWrite, PriorityWrite, NoteWrite, At
<1>2. PICK q \in Inquiries : q = job[j].q /\ query[q] \in Query
  BY <1>1, WriterFacts
<1>3. Reads(j, q)
  BY <1>1, <1>2 DEF Reads, Readers
<1>4. PICK l : l = AppendLog(j)
  OBVIOUS
<1>5. CASE ReplyWrite(j)
  <2> DEFINE r == [query[q] EXCEPT !.replied = TRUE, !.status = "RESOLVED", !.log = l]
  <2>1. r.log = l /\ r.notes = query[q].notes
    BY <1>2 DEF Query
  <2>2. query' = [query EXCEPT ![q] = r]
    BY <1>2, <1>4, <1>5 DEF ReplyWrite, Edit
  <2> HIDE DEF r
  <2> QED
    BY <1>1, <1>3, <1>4, <2>1, <2>2 DEF Writes
<1>6. CASE AssignWrite(j)
  <2>1. PICK target \in Staff :
          Edit(q, [query[q] EXCEPT !.assigned = target, !.status = AssignedStatus(job[j].seen), !.log = l])
    BY <1>2, <1>4, <1>6 DEF AssignWrite
  <2>2. PICK status : status = AssignedStatus(job[j].seen)
    OBVIOUS
  <2> DEFINE r == [query[q] EXCEPT !.assigned = target, !.status = status, !.log = l]
  <2>3. r.log = l /\ r.notes = query[q].notes
    BY <1>2 DEF Query
  <2>4. query' = [query EXCEPT ![q] = r]
    BY <2>1, <2>2 DEF Edit
  <2> HIDE DEF r
  <2> QED
    BY <1>1, <1>3, <1>4, <2>3, <2>4 DEF Writes
<1>7. CASE PriorityWrite(j)
  <2> DEFINE r == [query[q] EXCEPT !.log = l]
  <2>1. r.log = l /\ r.notes = query[q].notes
    BY <1>2 DEF Query
  <2>2. query' = [query EXCEPT ![q] = r]
    BY <1>2, <1>4, <1>7 DEF PriorityWrite, Edit
  <2> HIDE DEF r
  <2> QED
    BY <1>1, <1>3, <1>4, <2>1, <2>2 DEF Writes
<1>8. CASE NoteWrite(j)
  <2>1. PICK n : n = job[j].seen.notes \cup {job[j].ticket}
    OBVIOUS
  <2> DEFINE r == [query[q] EXCEPT !.notes = n, !.log = l]
  <2>2. r.log = l /\ r.notes = n
    BY <1>2 DEF Query
  <2>3. query' = [query EXCEPT ![q] = r]
    BY <1>2, <1>4, <1>8, <2>1 DEF NoteWrite, Edit
  <2> HIDE DEF r
  <2> QED
    BY <1>1, <1>3, <1>4, <2>1, <2>2, <2>3 DEF Writes
<1> QED
  BY <1>5, <1>6, <1>7, <1>8

\* Every other step.
LEMMA ColumnsStep ==
  ASSUME IInv, [Next]_vars
  PROVE  Keeps \/ \E j \in Jobs, q \in Inquiries : Writes(j, q)
<1>1. query \in [Inquiries -> Query]
  BY DEF IInv, TypeOK
<1>2. query' = query => Keeps
  BY DEF Keeps, Live
<1>3. ASSUME NEW j \in Jobs, Work(j)
      PROVE  Keeps \/ \E q \in Inquiries : Writes(j, q)
  <2>1. DeleteWrite(j) => Keeps
    BY DEF DeleteWrite, Keeps, Live, NoQuery
  <2>2. ReplyMail(j) \/ AssignStaff(j) => query' = query
    BY DEF ReplyMail, AssignStaff
  <2> QED
    BY <1>2, <1>3, <2>1, <2>2, WriteStep DEF Work
<1>4. ASSUME NEW j \in Jobs, JobFails(j) PROVE Keeps
  BY <1>2, <1>4 DEF JobFails
<1>5. ASSUME NEW j \in Jobs, NEW q \in Inquiries, NEW pc, Begin(j, q, pc) PROVE Keeps
  BY <1>2, <1>5 DEF Begin
<1>6. ASSUME NEW j \in Jobs, NEW Q, NEW s, DeleteBegin(j, Q, s) PROVE Keeps
  BY <1>2, <1>6 DEF DeleteBegin
<1>7. ASSUME NEW q \in Inquiries, Submit(q) PROVE Keeps
  BY <1>1, <1>7 DEF Submit, Edit, Keeps, Live
<1>8. ASSUME NEW Q \in SUBSET Inquiries, NEW status, SetStatus(Q, status) PROVE Keeps
  BY <1>1, <1>8 DEF SetStatus, EditAll, Keeps, Live, Query
<1>9. ASSUME NEW Q \in SUBSET Inquiries, NEW target, BulkAssign(Q, target) PROVE Keeps
  BY <1>1, <1>9 DEF BulkAssign, EditAll, Keeps, Live, Query
<1>10. ASSUME NEW s, NEW can, TogglePermission(s, can) \/ UpdatePermissions(s, can) PROVE Keeps
  BY <1>2, <1>10 DEF TogglePermission, UpdatePermissions
<1>11. CASE UNCHANGED vars
  BY <1>2, <1>11 DEF vars
<1> QED
  BY <1>3, <1>4, <1>5, <1>6, <1>7, <1>8, <1>9, <1>10, <1>11 DEF Next

\* A request reads its row once, when it begins.
LEMMA ReadersStep ==
  ASSUME IInv, [Next]_vars, NEW i \in Jobs, NEW q \in Inquiries, Reads(i, q)'
  PROVE  \/ Reads(i, q) /\ job'[i].seen = job[i].seen
         \/ query' = query /\ job'[i].seen = See(q) /\ Live(q)
<1>1. job \in [Jobs -> Job]
  BY DEF IInv, TypeOK
<1>2. job'[i] = job[i] => Reads(i, q) /\ job'[i].seen = job[i].seen
  BY DEF Reads
<1>3. ASSUME NEW j \in Jobs, Finish(j) PROVE job'[i] = job[i]
  BY <1>1, <1>3 DEF Finish, Reads, Readers, Idle
<1>4. ASSUME NEW j \in Jobs, NEW pc, Goto(j, pc), job[j].pc \in Readers
      PROVE  Reads(i, q) /\ job'[i].seen = job[i].seen
  <2>1. CASE i = j
    <3>1. PICK b \in Job : b = job[j]
      BY <1>1
    <3>2. job'[i] = [b EXCEPT !.pc = pc]
      BY <1>1, <1>4, <2>1, <3>1 DEF Goto
    <3>3. job'[i].q = b.q /\ job'[i].seen = b.seen
      BY <3>2 DEF Job
    <3> QED
      BY <1>4, <2>1, <3>1, <3>3 DEF Reads
  <2>2. CASE i # j
    BY <1>1, <1>2, <1>4, <2>2 DEF Goto
  <2> QED
    BY <2>1, <2>2
<1>5. ASSUME NEW j \in Jobs, Work(j) PROVE Reads(i, q) /\ job'[i].seen = job[i].seen
  BY <1>2, <1>3, <1>4, <1>5 DEF Work, ReplyMail, ReplyWrite, AssignStaff, AssignWrite, PriorityWrite,
     NoteWrite, DeleteWrite, At, Readers
<1>6. ASSUME NEW j \in Jobs, NEW p \in Inquiries, NEW pc, Begin(j, p, pc)
      PROVE  \/ Reads(i, q) /\ job'[i].seen = job[i].seen
             \/ query' = query /\ job'[i].seen = See(q) /\ Live(q)
  <2>1. CASE i = j
    BY <1>1, <1>6, <2>1 DEF Begin, Reads
  <2>2. CASE i # j
    BY <1>1, <1>2, <1>6, <2>2 DEF Begin
  <2> QED
    BY <2>1, <2>2
<1>7. ASSUME NEW j \in Jobs, NEW Q, NEW s, DeleteBegin(j, Q, s) PROVE job'[i] = job[i]
  BY <1>1, <1>7 DEF DeleteBegin, Reads, Readers, Idle
<1>8. ASSUME NEW j \in Jobs, JobFails(j) PROVE job'[i] = job[i]
  BY <1>3, <1>8 DEF JobFails
<1>9. ASSUME job' = job PROVE job'[i] = job[i]
  BY <1>9
<1>10. ASSUME NEW Q, \/ \E status \in Statuses : SetStatus(Q, status)
                     \/ \E target \in Staff \cup Customers : BulkAssign(Q, target)
       PROVE  job' = job
  BY <1>10 DEF SetStatus, BulkAssign, EditAll
<1>11. ASSUME NEW s, NEW can, TogglePermission(s, can) \/ UpdatePermissions(s, can) PROVE job' = job
  BY <1>11 DEF TogglePermission, UpdatePermissions
<1>12. ASSUME NEW p, Submit(p) PROVE job' = job
  BY <1>12 DEF Submit
<1>13. UNCHANGED vars => job' = job
  BY DEF vars
<1> QED
  BY <1>2, <1>5, <1>6, <1>7, <1>8, <1>9, <1>10, <1>11, <1>12, <1>13 DEF Next
\* A column is only ever rewritten by the one request that had read it, so it is not
\* written from a row that has changed.
LEMMA SeenStep ==
  ASSUME IInv, OneReaderEach, SeenTrue, [Next]_vars
  PROVE  SeenTrue'
<1> SUFFICES ASSUME NEW q \in Inquiries, NEW i \in Jobs, Reads(i, q)', Live(q)'
             PROVE  /\ job'[i].seen.notes = query'[q].notes
                    /\ job'[i].seen.log = query'[q].log
  BY DEF SeenTrue
<1>1. CASE query' = query /\ job'[i].seen = See(q) /\ Live(q)
  BY <1>1 DEF See
<1>2. CASE Reads(i, q) /\ job'[i].seen = job[i].seen
  <2>1. query[q].state # "absent"
    <3>1. JobSound(job[i])
      BY DEF IInv, JobsInv
    <3> QED
      BY <1>2, <3>1 DEF JobSound, Reads, Readers
  <2>2. CASE Keeps
    <3>1. Live(q) /\ query'[q].notes = query[q].notes /\ query'[q].log = query[q].log
      BY <2>1, <2>2 DEF Keeps
    <3> QED
      BY <1>2, <3>1 DEF SeenTrue
  <2>3. ASSUME NEW j \in Jobs, NEW p \in Inquiries, Writes(j, p)
        PROVE  query'[q].notes = query[q].notes /\ query'[q].log = query[q].log /\ Live(q)
    <3>1. job \in [Jobs -> Job] /\ query \in [Inquiries -> Query]
      BY DEF IInv, TypeOK
    <3>2. job'[j].pc = "idle" /\ Reads(j, p)
      BY <2>3, <3>1 DEF Writes, Finish, Idle
    <3>3. i # j
      BY <3>2 DEF Reads, Readers
    <3>4. p # q
      BY <1>2, <3>2, <3>3 DEF OneReaderEach
    <3>5. query'[q] = query[q]
      BY <2>3, <3>1, <3>4 DEF Writes
    <3> QED
      BY <3>5 DEF Live
  <2>4. CASE \E j \in Jobs, p \in Inquiries : Writes(j, p)
    BY <1>2, <2>3, <2>4 DEF SeenTrue
  <2> QED
    BY <2>2, <2>4, ColumnsStep
<1> QED
  BY <1>1, <1>2, ReadersStep

\* What is written from an unchanged row loses nothing.
LEMMA RecordStep ==
  ASSUME IInv, SeenTrue, [Next]_vars
  PROVE  RecordKept
<1> SUFFICES ASSUME NEW q \in Inquiries, Live(q), Live(q)'
             PROVE  query[q].notes \subseteq query'[q].notes /\ query[q].log \subseteq query'[q].log
  BY DEF RecordKept
<1>1. CASE Keeps
  BY <1>1 DEF Keeps, Live
<1>2. ASSUME NEW j \in Jobs, NEW p \in Inquiries, Writes(j, p)
      PROVE  query[q].notes \subseteq query'[q].notes /\ query[q].log \subseteq query'[q].log
  <2>1. query \in [Inquiries -> Query]
    BY DEF IInv, TypeOK
  <2>2. CASE p = q
    <3>1. job[j].seen.notes = query[q].notes /\ job[j].seen.log = query[q].log
      BY <1>2, <2>2 DEF SeenTrue, Writes
    <3>2. PICK r : /\ query' = [query EXCEPT ![q] = r] /\ r.log = AppendLog(j)
                   /\ (r.notes = query[q].notes \/ job[j].seen.notes \subseteq r.notes)
      BY <1>2, <2>2 DEF Writes
    <3>3. query'[q] = r
      BY <2>1, <3>2
    <3> QED
      BY <3>1, <3>2, <3>3 DEF AppendLog
  <2>3. CASE p # q
    BY <1>2, <2>1, <2>3 DEF Writes
  <2> QED
    BY <2>2, <2>3
<1> QED
  BY <1>1, <1>2, ColumnsStep

\* As long as no two of the requests that rewrite a row from what they read are about one
\* inquiry at once, no note and no entry of the log is lost: the losses the
\* property RecordedNotesKept is violated by all come from such overlaps, not from the bulk
\* actions, the deletions, the failures or the mails between.
THEOREM NotesKept == Spec /\ []OneReaderEach => RecordedNotesKept /\ [][RecordKept]_vars
<1>1. Init => SeenTrue
  BY DEF Init, Idle, SeenTrue, Reads, Readers
<1>2. IInv /\ OneReaderEach /\ SeenTrue /\ [Next]_vars => SeenTrue'
  BY SeenStep
<1>3. IInv /\ SeenTrue /\ [Next]_vars => RecordKept
  BY RecordStep
<1>4. RecordKept => \A q \in Inquiries : Live(q) /\ Live(q)' => query[q].notes \subseteq query'[q].notes
  BY DEF RecordKept
<1> QED
  BY <1>1, <1>2, <1>3, <1>4, Invariance, PTL DEF Spec, RecordedNotesKept

=============================================================================
