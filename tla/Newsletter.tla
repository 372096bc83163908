----------------------------- MODULE Newsletter -----------------------------
(***************************************************************************)
(* The newsletter (src/newsletter): its subscribers and its broadcasts.    *)
(*                                                                         *)
(* A request looks the person's row up and writes it by id an await later. *)
(* A broadcast is one long request: it reads the list of subscribers,      *)
(* creates its row, mails the list batch by batch, counts in local         *)
(* variables what the mail service answers, writes the counts and then the *)
(* date of the last broadcast of everyone it listed.  A restart or a       *)
(* failing call ends it where it stands.                                   *)
(*                                                                         *)
(* Left out: names and sources, the texts, lists and counts that are only  *)
(* read, and the welcome mail, which is fired without waiting and whose    *)
(* failure is only logged.                                                 *)
(***************************************************************************)
EXTENDS Naturals, FiniteSets, FiniteSetsExt

CONSTANTS
    People,        \* e-mail addresses
    Broadcasts,    \* broadcasts that are sent
    Jobs,          \* other requests that may be in flight
    None,          \* no address
    BatchSize,     \* mails that are sent together
    MaxRows,       \* bound on the rows of one address
    MaxRequests    \* bound on the requests that are begun

ASSUME NewsletterParameters ==
    /\ None \notin People /\ IsFiniteSet(People)
    /\ BatchSize \in Nat \ {0} /\ MaxRows \in Nat /\ MaxRequests \in Nat

VARIABLES
    row,        \* newsletter_subscribers: each address's row, with id 0 when there is none
    rows,       \* rows each address has had, which numbers its ids
    job,        \* what each request has read and writes next
    broadcast,  \* each broadcast: its local variables and its row
    requests,   \* requests begun so far
    tried,      \* history: what the mail service has answered
    left        \* history: people who have been told they left, and who asked nothing since

vars == <<row, rows, job, broadcast, requests, tried, left>>

Statuses == {"SUBSCRIBED", "UNSUBSCRIBED", "BOUNCED"}
Ids      == 0..MaxRows
Size     == Cardinality(People)

\* told: the column lastBroadcastAt is set.
Row == [id: Ids, status: Statuses, told: BOOLEAN]

Absent == [id |-> 0, status |-> "SUBSCRIBED", told |-> FALSE]

Job == [op: {"none", "subscribe", "unsubscribe", "status", "delete"},
        who: People \cup {None}, id: Ids, status: Statuses]

Idle == [op |-> "none", who |-> None, id |-> 0, status |-> "SUBSCRIBED"]

\* list: the id each address had when the broadcast read the subscribers, 0 for those not listed.
\* waiting and batch: those no mail was sent for, and those a mail is under way to.
\* counts: the counts of its row, empty before they are written.
Broadcast == [pc: {"none", "listed", "sending", "sent", "counted", "done", "lost"},
              list: [People -> Ids], waiting: SUBSET People, batch: SUBSET People,
              delivered: 0..Size, failed: 0..Size,
              counts: SUBSET [delivered: 0..Size, failed: 0..Size]]

Unsent == [pc |-> "none", list |-> [p \in People |-> 0], waiting |-> {}, batch |-> {},
           delivered |-> 0, failed |-> 0, counts |-> {}]

TypeOK ==
    /\ row \in [People -> Row]
    /\ rows \in [People -> Ids]
    /\ job \in [Jobs -> Job]
    /\ broadcast \in [Broadcasts -> Broadcast]
    /\ \A b \in Broadcasts : Cardinality(broadcast[b].counts) <= 1
    /\ requests \in 0..MaxRequests
    /\ tried \in [Broadcasts -> [People -> {"none", "delivered", "failed"}]]
    /\ left \in SUBSET People

Init ==
    /\ row = [p \in People |-> Absent]
    /\ rows = [p \in People |-> 0]
    /\ job = [j \in Jobs |-> Idle]
    /\ broadcast = [b \in Broadcasts |-> Unsent]
    /\ requests = 0
    /\ tried = [b \in Broadcasts |-> [p \in People |-> "none"]]
    /\ left = {}

-----------------------------------------------------------------------------
Kept(p) == row[p].id # 0

\* A request that may put p on the list.
Joins(j, p) == job[j].who = p /\ job[j].op \in {"subscribe", "status"}
                              /\ job[j].status = "SUBSCRIBED"

Begin(j, op, p, status) ==
    /\ job[j] = Idle /\ requests < MaxRequests
    /\ requests' = requests + 1
    /\ job' = [job EXCEPT ![j] = [op |-> op, who |-> p, id |-> row[p].id, status |-> status]]
    /\ UNCHANGED <<row, rows, broadcast, tried>>

\* Someone on the list already is told so: nothing is written.
Subscribe(j, p) ==
    /\ ~(Kept(p) /\ row[p].status = "SUBSCRIBED")
    /\ Begin(j, "subscribe", p, "SUBSCRIBED")
    /\ left' = left \ {p}

\* p is told that the newsletter no longer goes there.
Leaves(j, p) == IF \E i \in Jobs \ {j} : Joins(i, p) THEN left ELSE left \cup {p}

Unsubscribe(j, p) ==
    /\ Kept(p)
    /\ Begin(j, "unsubscribe", p, "UNSUBSCRIBED")
    /\ UNCHANGED left

\* An address without a row is answered at once.
UnsubscribeUnknown(j, p) ==
    /\ ~Kept(p) /\ job[j] = Idle
    /\ left' = Leaves(j, p)
    /\ UNCHANGED <<row, rows, job, broadcast, requests, tried>>

ToggleStatus(j, p, status) ==
    /\ Kept(p)
    /\ Begin(j, "status", p, status)
    /\ left' = IF status = "SUBSCRIBED" THEN left \ {p} ELSE left

DeleteSubscriber(j, p) ==
    /\ Kept(p)
    /\ Begin(j, "delete", p, row[p].status)
    /\ UNCHANGED left

\* The write of a request, by the id it read.  A row that is gone, or an address that has got a
\* row meanwhile, fails it.
Found(j)      == row[job[j].who].id = job[j].id
NewRowBare(p) == [id |-> rows[p] + 1, status |-> None, told |-> FALSE]
NewRow(p)     == [id |-> rows[p] + 1, status |-> "SUBSCRIBED", told |-> FALSE]

Saved(j) ==
    LET p == job[j].who
    IN  CASE job[j].op = "subscribe" /\ job[j].id = 0 -> NewRow(p)
          [] job[j].op = "delete" -> Absent
          [] OTHER -> [row[p] EXCEPT !.status = job[j].status]

Write(j) ==
    LET p == job[j].who
    IN  /\ job[j] # Idle /\ Found(j)
        /\ job[j].id = 0 => rows[p] < MaxRows
        /\ row' = [row EXCEPT ![p] = Saved(j)]
        /\ rows' = [rows EXCEPT ![p] = IF job[j].id = 0 THEN @ + 1 ELSE @]
        /\ left' = IF job[j].op = "unsubscribe" THEN Leaves(j, p) ELSE left
        /\ job' = [job EXCEPT ![j] = Idle]
        /\ UNCHANGED <<broadcast, requests, tried>>

\* A stale id, or a database that refuses.
JobFails(j) ==
    /\ job[j] # Idle
    /\ job' = [job EXCEPT ![j] = Idle]
    /\ UNCHANGED <<row, rows, broadcast, requests, tried, left>>

-----------------------------------------------------------------------------
OnBroadcast == UNCHANGED <<row, rows, job, requests, left>>

KnownRows == {p \in People : Kept(p) /\ row[p].status # "BOUNCED"}

\* Those a broadcast goes to.
Recipients == {p \in People : Kept(p) /\ row[p].status = "SUBSCRIBED"}

\* sendBroadcast reads the list.  An empty one is refused.
ListRecipients(b) ==
    /\ broadcast[b].pc = "none" /\ Recipients # {}
    /\ broadcast' = [broadcast EXCEPT
         ![b].pc = "listed",
         ![b].list = [p \in People |-> IF p \in Recipients THEN row[p].id ELSE 0],
         ![b].waiting = Recipients]
    /\ OnBroadcast /\ UNCHANGED tried

CreateBroadcast(b) ==
    /\ broadcast[b].pc = "listed"
    /\ broadcast' = [broadcast EXCEPT ![b].pc = "sending"]
    /\ OnBroadcast /\ UNCHANGED tried

\* What is left of the list when a batch is taken from it, all of it or one short.
RestWithLast(b, batch) == broadcast[b].waiting \ (batch \ {CHOOSE p \in batch : TRUE})
Rest(b, batch)         == broadcast[b].waiting \ batch

\* The next batch, when the one before is settled.  The list is in no particular order.
SendBatch(b) ==
    LET d == broadcast[b]
    IN  /\ d.pc = "sending" /\ d.batch = {} /\ d.waiting # {}
        /\ \E batch \in kSubset(Min({BatchSize, Cardinality(d.waiting)}), d.waiting) :
             broadcast' = [broadcast EXCEPT ![b].batch = batch, ![b].waiting = Rest(b, batch)]
        /\ OnBroadcast /\ UNCHANGED tried

\* The mail service answers for one mail of the batch, in any order.
MailAnswered(b, p) ==
    /\ broadcast[b].pc = "sending" /\ p \in broadcast[b].batch
    /\ \/ /\ broadcast' = [broadcast EXCEPT ![b].batch = @ \ {p}, ![b].delivered = @ + 1]
          /\ tried' = [tried EXCEPT ![b][p] = "delivered"]
       \/ /\ broadcast' = [broadcast EXCEPT ![b].batch = @ \ {p}, ![b].failed = @ + 1]
          /\ tried' = [tried EXCEPT ![b][p] = "failed"]
    /\ OnBroadcast

AllDelivered(b) == broadcast[b].batch = {} /\ broadcast[b].waiting = {} /\ broadcast[b].failed = 0
Settled(b)      == broadcast[b].batch = {} /\ broadcast[b].waiting = {}

\* The loop is over when its last batch is settled, and the counts are written.
RecordCounts(b) ==
    LET d == broadcast[b]
    IN  /\ d.pc = "sending" /\ Settled(b)
        /\ broadcast' = [broadcast EXCEPT
             ![b].pc = "counted",
             ![b].counts = {[delivered |-> d.delivered, failed |-> d.failed]}]
        /\ OnBroadcast /\ UNCHANGED tried

ByAddress(b, p) == broadcast[b].list[p] # 0 /\ Kept(p)
Listed(b, p)    == broadcast[b].list[p] # 0 /\ broadcast[b].list[p] = row[p].id

\* Everyone listed who still has that row gets the date of the broadcast.
RecordDates(b) ==
    /\ broadcast[b].pc = "counted"
    /\ row' = [p \in People |-> IF Listed(b, p) THEN [row[p] EXCEPT !.told = TRUE] ELSE row[p]]
    /\ broadcast' = [broadcast EXCEPT ![b].pc = "done"]
    /\ UNCHANGED <<rows, job, requests, tried, left>>

UnderWay(b) == broadcast[b].pc \in {"listed", "sending", "counted"}

\* What is left of a broadcast that stops: its row and the mails that were sent.
Cut(d) == [d EXCEPT !.pc = "lost", !.batch = {}]

\* A failing database call of a broadcast.
BroadcastFails(b) ==
    /\ UnderWay(b) /\ (broadcast[b].pc = "sending" => Settled(b))
    /\ broadcast' = [broadcast EXCEPT ![b] = Cut(@)]
    /\ OnBroadcast /\ UNCHANGED tried

Restart ==
    /\ job' = [j \in Jobs |-> Idle]
    /\ broadcast' = [b \in Broadcasts |-> IF UnderWay(b) THEN Cut(broadcast[b]) ELSE broadcast[b]]
    /\ UNCHANGED <<row, rows, requests, tried, left>>

Proceed(b) ==
    \/ CreateBroadcast(b)
    \/ SendBatch(b)
    \/ \E p \in People : MailAnswered(b, p)
    \/ RecordCounts(b)
    \/ RecordDates(b)

Next ==
    \/ \E j \in Jobs, p \in People :
         \/ Subscribe(j, p) \/ Unsubscribe(j, p) \/ UnsubscribeUnknown(j, p)
         \/ DeleteSubscriber(j, p)
         \/ \E status \in Statuses : ToggleStatus(j, p, status)
    \/ \E j \in Jobs : Write(j) \/ JobFails(j)
    \/ \E b \in Broadcasts : ListRecipients(b) \/ Proceed(b) \/ BroadcastFails(b)
    \/ Restart

Spec == Init /\ [][Next]_vars

\* The server runs, and the mail service and the database answer.
FairSpec == Spec /\ \A b \in Broadcasts : WF_vars(Proceed(b))

-----------------------------------------------------------------------------
\* Who has been told that they are off the list, and has not asked to be on it since, is on the
\* list of no broadcast that begins later, whatever requests of others were in flight.
LeaversSkipped ==
    [][\A b \in Broadcasts, p \in left :
         broadcast[b].pc = "none" /\ broadcast'[b].pc = "listed" => broadcast'[b].list[p] = 0]_vars

OutcomeOf(b, p) ==
    IF broadcast[b].list[p] = 0 THEN "out"
    ELSE IF tried[b][p] = "none" THEN "waiting" ELSE tried[b][p]

Outcome == [b \in Broadcasts |-> [p \in People |-> OutcomeOf(b, p)]]
Counted == [b \in Broadcasts |-> broadcast[b].counts]

Promise == INSTANCE Mailing WITH outcome <- Outcome, report <- Counted

\* A broadcast tries everyone it listed, each once, and the counts it records are those of the
\* outcomes, whatever the batches, the order of the answers and the requests meanwhile.
ImplementsMailing == Promise!MailingSpec

\* A subscription with a date of its last broadcast was itself on that broadcast's list and was
\* tried: a person who was deleted and joined anew while it ran gets no date from it.
LastBroadcastTrue ==
    \A p \in People : row[p].told =>
      \E b \in Broadcasts : broadcast[b].list[p] = row[p].id /\ tried[b][p] # "none"

\* A broadcast that has begun comes to its end, unless a failure or a restart cuts it off.
BroadcastsEnd ==
    \A b \in Broadcasts : broadcast[b].pc = "listed" ~> broadcast[b].pc \in {"done", "lost"}
=============================================================================
