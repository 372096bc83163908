-------------------------- MODULE Newsletter_proofs --------------------------
(***************************************************************************)
(* Newsletter is well typed, who has left is skipped, the date of the last *)
(* broadcast is true, and broadcasts implement Mailing, for any number of  *)
(* people, broadcasts, batches and overlapping requests.                   *)
(***************************************************************************)
EXTENDS Newsletter, FiniteSetTheorems, TLAPS

Sent(b, o) == {p \in People : tried[b][p] = o}

\* Everyone a broadcast listed waits, is being mailed or was tried, as long as nothing cuts it off,
\* nobody else was, and its local counts are those of the outcomes.
BroadcastSound(b) ==
    LET d == broadcast[b]
    IN  /\ d.pc = "none" <=> \A p \in People : d.list[p] = 0
        /\ \A p \in People : tried[b][p] # "none" => d.list[p] # 0
        /\ d.waiting \cap d.batch = {}
        /\ \A p \in d.waiting \cup d.batch : d.list[p] # 0 /\ tried[b][p] = "none"
        /\ d.pc \in {"listed", "sending", "counted", "done"} =>
             \A p \in People : d.list[p] # 0 /\ tried[b][p] = "none" => p \in d.waiting \cup d.batch
        /\ d.pc \in {"counted", "done"} => d.waiting = {} /\ d.batch = {}
        /\ d.delivered = Cardinality(Sent(b, "delivered"))
        /\ d.failed = Cardinality(Sent(b, "failed"))
        /\ d.counts # {} => d.pc \in {"counted", "done", "lost"}

\* What a request will write: only a subscription makes a new row.
JobSound(j) ==
    /\ job[j].op = "none" => job[j] = Idle
    /\ job[j].op # "none" => job[j].who \in People
    /\ job[j].op = "subscribe" => job[j].status = "SUBSCRIBED"
    /\ job[j].op = "unsubscribe" => job[j].status = "UNSUBSCRIBED"
    /\ job[j].op \in {"unsubscribe", "status", "delete"} => job[j].id # 0

\* Who has left is on no list, and no request is about to put him there.
LeftInv ==
    \A p \in left :
        /\ ~(Kept(p) /\ row[p].status = "SUBSCRIBED")
        /\ \A j \in Jobs : ~Joins(j, p)

IInv ==
    /\ TypeOK
    /\ \A b \in Broadcasts : BroadcastSound(b)
    /\ \A j \in Jobs : JobSound(j)
    /\ LeftInv
    /\ LastBroadcastTrue

-----------------------------------------------------------------------------
(* Lemmas on single records.                                                *)

\* The empty rows and the idle request.
LEMMA FirstRecords ==
  /\ Size \in Nat /\ 0 \in Ids
  /\ Absent \in Row /\ Idle \in Job /\ Unsent \in Broadcast
<1>1. Size \in Nat
  BY NewsletterParameters, FS_CardinalityType DEF Size
<1>2. 0 \in Ids
  BY NewsletterParameters DEF Ids
<1>3. Absent \in Row /\ Idle \in Job
  BY <1>2 DEF Absent, Row, Idle, Job, Statuses
<1>4. [p \in People |-> 0] \in [People -> Ids]
  BY <1>2
<1>5. {} \in SUBSET [delivered: 0..Size, failed: 0..Size] /\ {} \in SUBSET People /\ 0 \in 0..Size
  BY <1>1
<1> QED
  BY <1>1, <1>2, <1>3, <1>4, <1>5 DEF Unsent, Broadcast

\* What a broadcast is like before it is sent.
LEMMA UnsentFacts ==
  /\ Unsent.pc = "none" /\ \A p \in People : Unsent.list[p] = 0
  /\ Unsent.waiting = {} /\ Unsent.batch = {} /\ Unsent.counts = {}
  /\ Unsent.delivered = 0 /\ Unsent.failed = 0
BY DEF Unsent

\* Outcomes can be counted.
LEMMA Countable ==
  ASSUME NEW S \in SUBSET People
  PROVE  IsFiniteSet(S) /\ Cardinality(S) \in 0..Size
<1>1. IsFiniteSet(S) /\ Cardinality(S) \in Nat /\ Cardinality(S) <= Size
  BY NewsletterParameters, FS_Subset, FS_CardinalityType DEF Size
<1> QED
  BY <1>1, FirstRecords

\* What an outcome adds to a count.
LEMMA CountOne ==
  ASSUME NEW S \in SUBSET People, NEW p \in People, p \notin S
  PROVE  Cardinality(S \cup {p}) = Cardinality(S) + 1
BY Countable, FS_AddElement

-----------------------------------------------------------------------------
(* Requests.                                                                *)

\* No request touches a broadcast.
LEMMA BroadcastsUntouched ==
  ASSUME IInv, UNCHANGED <<broadcast, tried>>
  PROVE  \A b \in Broadcasts : BroadcastSound(b)'
BY DEF IInv, BroadcastSound, Sent

\* A request begins with what it read.
LEMMA BeginSound ==
  ASSUME IInv, NEW j \in Jobs, NEW p \in People, NEW status \in Statuses,
         NEW op \in {"subscribe", "unsubscribe", "status", "delete"},
         Begin(j, op, p, status),
         op = "subscribe" => status = "SUBSCRIBED",
         op = "unsubscribe" => status = "UNSUBSCRIBED",
         op # "subscribe" => Kept(p),
         left' \in {left, left \ {p}},
         op \in {"subscribe", "status"} /\ status = "SUBSCRIBED" => p \notin left'
  PROVE  IInv'
<1>1. row[p].id \in Ids
  BY DEF IInv, TypeOK, Row
<1>2. PICK r \in Job : /\ r.op = op /\ r.who = p /\ r.id = row[p].id /\ r.status = status
                       /\ job' = [job EXCEPT ![j] = r]
  BY <1>1 DEF Begin, Job
<1>3. job \in [Jobs -> Job]
  BY DEF IInv, TypeOK
<1>4. \A i \in Jobs : job'[i] = IF i = j THEN r ELSE job[i]
  BY <1>2, <1>3
<1>5. job' \in [Jobs -> Job] /\ requests' \in 0..MaxRequests
  BY <1>2, <1>3, NewsletterParameters DEF Begin, IInv, TypeOK
<1>6. UNCHANGED <<row, rows, broadcast, tried>>
  BY DEF Begin
<1>7. \A i \in Jobs : JobSound(i)'
  BY <1>2, <1>4 DEF JobSound, IInv, Kept
<1>8. LeftInv'
  <2>1. ASSUME NEW q \in left'
        PROVE  /\ q \in left
               /\ ~(Kept(q)' /\ row'[q].status = "SUBSCRIBED")
               /\ \A i \in Jobs : ~Joins(i, q)'
    BY <1>2, <1>4, <1>6 DEF IInv, LeftInv, Kept, Joins
  <2> QED
    BY <2>1 DEF LeftInv
<1>9. LastBroadcastTrue'
  BY <1>6 DEF IInv, LastBroadcastTrue
<1> QED
  BY <1>5, <1>6, <1>7, <1>8, <1>9, BroadcastsUntouched DEF IInv, TypeOK

\* Every request that is begun.
LEMMA BeginsKeep ==
  ASSUME IInv, NEW j \in Jobs, NEW p \in People,
         \/ Subscribe(j, p) \/ Unsubscribe(j, p) \/ DeleteSubscriber(j, p)
         \/ \E status \in Statuses : ToggleStatus(j, p, status)
  PROVE  IInv'
<1>1. CASE Subscribe(j, p)
  BY <1>1, BeginSound DEF Subscribe, Statuses
<1>2. CASE Unsubscribe(j, p)
  BY <1>2, BeginSound DEF Unsubscribe, Statuses
<1>3. CASE DeleteSubscriber(j, p)
  BY <1>3, BeginSound DEF DeleteSubscriber, IInv, TypeOK, Row
<1>4. ASSUME NEW status \in Statuses, ToggleStatus(j, p, status)
      PROVE  IInv'
  BY <1>4, BeginSound DEF ToggleStatus
<1> QED
  BY <1>1, <1>2, <1>3, <1>4

\* An address without a row that asks to be taken off the list is on none.
LEMMA UnsubscribeUnknownKeeps ==
  ASSUME IInv, NEW j \in Jobs, NEW p \in People, UnsubscribeUnknown(j, p)
  PROVE  IInv'
<1>1. UNCHANGED <<row, rows, job, broadcast, requests, tried>>
  BY DEF UnsubscribeUnknown
<1>2. left' \subseteq left \cup {p} /\ (left' # left => \A i \in Jobs \ {j} : ~Joins(i, p))
  BY DEF UnsubscribeUnknown, Leaves
<1>3. ~Kept(p) /\ ~Joins(j, p)
  BY DEF UnsubscribeUnknown, Joins, Idle
<1>4. \A q \in left' : /\ ~(Kept(q) /\ row[q].status = "SUBSCRIBED")
                       /\ \A i \in Jobs : ~Joins(i, q)
  BY <1>2, <1>3 DEF IInv, LeftInv
<1>5. LeftInv'
  BY <1>1, <1>4 DEF LeftInv, Kept, Joins
<1>6. LastBroadcastTrue' /\ \A i \in Jobs : JobSound(i)'
  BY <1>1 DEF IInv, LastBroadcastTrue, JobSound
<1> QED
  BY <1>1, <1>2, <1>5, <1>6, BroadcastsUntouched DEF IInv, TypeOK

\* Requests that end, with or without their write.
LEMMA JobsEnd ==
  ASSUME IInv, NEW J \in SUBSET Jobs,
         job' = [i \in Jobs |-> IF i \in J THEN Idle ELSE job[i]]
  PROVE  /\ job' \in [Jobs -> Job]
         /\ \A i \in Jobs : JobSound(i)' /\ \A p \in People : Joins(i, p)' => Joins(i, p)
<1>1. job \in [Jobs -> Job]
  BY DEF IInv, TypeOK
<1>2. Idle.op = "none"
  BY DEF Idle
<1> QED
  BY <1>1, <1>2, FirstRecords DEF IInv, JobSound, Joins

\* A request that fails.
LEMMA JobFailsKeeps ==
  ASSUME IInv, NEW j \in Jobs, JobFails(j)
  PROVE  IInv'
<1>1. PICK J \in SUBSET Jobs : J = {j}
  OBVIOUS
<1>2. job' = [i \in Jobs |-> IF i \in J THEN Idle ELSE job[i]]
  BY <1>1 DEF JobFails, IInv, TypeOK
<1>3. UNCHANGED <<row, rows, broadcast, requests, tried, left>>
  BY DEF JobFails
<1>4. LeftInv'
  BY <1>2, <1>3, JobsEnd DEF IInv, LeftInv, Kept, TypeOK
<1>5. LastBroadcastTrue'
  BY <1>3 DEF IInv, LastBroadcastTrue
<1> QED
  BY <1>2, <1>3, <1>4, <1>5, JobsEnd, BroadcastsUntouched DEF IInv, TypeOK

\* What a request writes: a row with the next id for somebody without one, no row at all, or the
\* row as it is with another status.
LEMMA SavedRow ==
  ASSUME IInv, NEW j \in Jobs, Write(j)
  PROVE  /\ job[j].who \in People /\ Saved(j) \in Row
         /\ \/ Saved(j).id = 0
            \/ ~Saved(j).told /\ job[j].op = "subscribe"
            \/ /\ Saved(j).id = row[job[j].who].id /\ Saved(j).told = row[job[j].who].told
               /\ Saved(j).status = job[j].status
         /\ Saved(j).told => Saved(j).id = row[job[j].who].id /\ row[job[j].who].told
<1>1. job[j] # Idle /\ Found(j) /\ job[j] \in Job /\ JobSound(j)
  BY DEF Write, IInv, TypeOK
<1>2. PICK p \in People : p = job[j].who
  BY <1>1 DEF JobSound
<1>3. PICK r \in Row : r = row[p]
  BY DEF IInv, TypeOK
<1>4. PICK s \in Statuses : s = job[j].status
  BY <1>1 DEF Job
<1>5. CASE job[j].op = "subscribe" /\ job[j].id = 0
  <2>1. Saved(j) = NewRow(p)
    BY <1>2, <1>5 DEF Saved
  <2>2. rows[p] + 1 \in Ids
    BY <1>2, <1>5, NewsletterParameters DEF Write, IInv, TypeOK, Ids
  <2>3. NewRow(p) \in Row /\ NewRow(p).told = FALSE
    BY <2>2 DEF NewRow, Row, Statuses
  <2> QED
    BY <1>2, <1>5, <2>1, <2>3
<1>6. CASE job[j].op = "delete"
  <2>1. Saved(j) = Absent
    BY <1>6 DEF Saved
  <2>2. Absent.id = 0 /\ Absent.told = FALSE
    BY DEF Absent
  <2> QED
    BY <1>2, <2>1, <2>2, FirstRecords
<1>7. CASE ~(job[j].op = "subscribe" /\ job[j].id = 0) /\ job[j].op # "delete"
  <2>1. Saved(j) = [r EXCEPT !.status = s]
    BY <1>2, <1>3, <1>4, <1>7 DEF Saved
  <2>2. /\ [r EXCEPT !.status = s] \in Row
        /\ [r EXCEPT !.status = s].id = r.id /\ [r EXCEPT !.status = s].told = r.told
        /\ [r EXCEPT !.status = s].status = s
    BY DEF Row
  <2> QED
    BY <1>2, <1>3, <1>4, <2>1, <2>2
<1> QED
  BY <1>5, <1>6, <1>7

\* A request's write.
LEMMA WriteKeeps ==
  ASSUME IInv, NEW j \in Jobs, Write(j)
  PROVE  IInv'
<1>1. PICK p \in People, r \in Row : p = job[j].who /\ r = Saved(j)
  BY SavedRow
<1>2. /\ row \in [People -> Row] /\ rows \in [People -> Ids]
      /\ row' = [row EXCEPT ![p] = r]
      /\ UNCHANGED <<broadcast, requests, tried>>
  BY <1>1 DEF Write, IInv, TypeOK
<1>3. \A q \in People : row'[q] = IF q = p THEN r ELSE row[q]
  BY <1>2
<1>4. row' \in [People -> Row] /\ rows' \in [People -> Ids]
  <2>1. job[j].id = 0 => rows[p] + 1 \in Ids
    BY <1>1, <1>2, NewsletterParameters DEF Write, Ids
  <2>2. rows' = [rows EXCEPT ![p] = IF job[j].id = 0 THEN rows[p] + 1 ELSE rows[p]]
    BY <1>1 DEF Write
  <2> QED
    BY <1>2, <2>1, <2>2
<1>5. PICK J \in SUBSET Jobs : J = {j}
  OBVIOUS
<1>6. job' = [i \in Jobs |-> IF i \in J THEN Idle ELSE job[i]]
  BY <1>5 DEF Write, IInv, TypeOK
<1>7. job' \in [Jobs -> Job] /\ \A i \in Jobs : JobSound(i)'
  BY <1>6, JobsEnd
<1>8. left' \in SUBSET People /\ (\A q \in left' : q \in left \/ q = p)
      /\ (p \in left' /\ p \notin left =>
            job[j].op = "unsubscribe" /\ \A i \in Jobs \ {j} : ~Joins(i, p))
  BY <1>1 DEF Write, Leaves, IInv, TypeOK
<1>9. LeftInv'
  <2>1. ASSUME NEW q \in left', NEW i \in Jobs
        PROVE  ~Joins(i, q)'
    <3>1. q \in People
      BY <1>8
    <3>2. CASE i = j
      BY <1>5, <1>6, <3>2 DEF Joins, Idle
    <3>3. CASE i # j
      <4>1. ~Joins(i, q)
        BY <1>8, <3>3 DEF IInv, LeftInv
      <4> QED
        BY <1>6, <3>1, <4>1, JobsEnd
    <3> QED
      BY <3>2, <3>3
  <2>2. ASSUME NEW q \in left'
        PROVE  ~(Kept(q)' /\ row'[q].status = "SUBSCRIBED")
    <3>1. CASE q # p
      BY <1>3, <1>8, <3>1 DEF IInv, LeftInv, Kept, TypeOK
    <3>2. CASE q = p
      <4>1. row'[q] = r
        BY <1>3, <3>2
      <4>2. ~Joins(j, p)
        BY <1>8, <3>2 DEF IInv, LeftInv, Joins
      <4>3. job[j] # Idle /\ JobSound(j) /\ job[j] \in Job
        BY DEF Write, IInv, TypeOK
      <4>4. job[j].op # "subscribe"
        BY <1>1, <4>2, <4>3 DEF JobSound, Joins
      <4>5. CASE r.status = job[j].status
        BY <1>1, <4>1, <4>2, <4>3, <4>4, <4>5 DEF JobSound, Joins, Job, Kept, Saved, Absent
      <4> QED
        BY <1>1, <4>1, <4>4, <4>5, SavedRow DEF Kept
    <3> QED
      BY <3>1, <3>2
  <2> QED
    BY <2>1, <2>2 DEF LeftInv
<1>10. LastBroadcastTrue'
  <2>1. r.told => r.id = row[p].id /\ row[p].told
    BY <1>1, SavedRow
  <2> QED
    BY <1>2, <1>3, <2>1 DEF IInv, LastBroadcastTrue
<1> QED
  BY <1>2, <1>4, <1>7, <1>8, <1>9, <1>10, BroadcastsUntouched DEF IInv, TypeOK

-----------------------------------------------------------------------------
(* Broadcasts.                                                              *)

\* A step of one broadcast touches no other, and no request.
LEMMA BroadcastStep ==
  ASSUME IInv, NEW b \in Broadcasts, NEW e \in Broadcast,
         broadcast' = [broadcast EXCEPT ![b] = e], Cardinality(e.counts) <= 1,
         UNCHANGED <<row, rows, job, requests, left>>,
         tried' \in [Broadcasts -> [People -> {"none", "delivered", "failed"}]],
         \A c \in Broadcasts \ {b} : tried'[c] = tried[c],
         \A p \in People : broadcast[b].list[p] # 0 /\ tried[b][p] # "none" =>
           e.list[p] = broadcast[b].list[p] /\ tried'[b][p] # "none",
         BroadcastSound(b)'
  PROVE  IInv'
<1>1. broadcast \in [Broadcasts -> Broadcast]
  BY DEF IInv, TypeOK
<1>2. \A c \in Broadcasts : broadcast'[c] = IF c = b THEN e ELSE broadcast[c]
  BY <1>1
<1>3. broadcast' \in [Broadcasts -> Broadcast]
      /\ \A c \in Broadcasts : Cardinality(broadcast'[c].counts) <= 1
  BY <1>1, <1>2 DEF IInv, TypeOK
<1>4. ASSUME NEW c \in Broadcasts
      PROVE  BroadcastSound(c)'
  <2>1. CASE c = b
    BY <2>1
  <2>2. CASE c # b
    <3>1. broadcast'[c] = broadcast[c] /\ tried'[c] = tried[c]
      BY <1>2, <2>2
    <3>2. \A o : Sent(c, o)' = Sent(c, o)
      BY <3>1 DEF Sent
    <3> QED
      BY <3>1, <3>2 DEF IInv, BroadcastSound
  <2> QED
    BY <2>1, <2>2
<1>5. \A j \in Jobs : JobSound(j)'
  BY DEF IInv, JobSound
<1>6. LeftInv'
  BY DEF IInv, LeftInv, Kept, Joins
<1>7. LastBroadcastTrue'
  <2>1. ASSUME NEW p \in People, row[p].told
        PROVE  \E c \in Broadcasts : broadcast'[c].list[p] = row[p].id /\ tried'[c][p] # "none"
    <3>1. PICK c \in Broadcasts : broadcast[c].list[p] = row[p].id /\ tried[c][p] # "none"
      BY <2>1 DEF IInv, LastBroadcastTrue
    <3>2. broadcast[c].list[p] # 0
      BY <3>1 DEF IInv, BroadcastSound
    <3>3. broadcast'[c].list[p] = row[p].id /\ tried'[c][p] # "none"
      BY <1>2, <3>1, <3>2
    <3> QED
      BY <3>3
  <2> QED
    BY <2>1 DEF LastBroadcastTrue
<1> QED
  BY <1>3, <1>4, <1>5, <1>6, <1>7 DEF IInv, TypeOK

\* The list is fixed when it is read.
LEMMA ListRecipientsFacts ==
  ASSUME IInv, NEW b \in Broadcasts, ListRecipients(b)
  PROVE  /\ IInv'
         /\ \A p \in People : broadcast[b].list[p] = 0 /\ tried[b][p] = "none"
         /\ \A p \in People : broadcast'[b].list[p] # 0 <=> p \in Recipients
         /\ \A c \in Broadcasts \ {b} : broadcast'[c] = broadcast[c]
         /\ broadcast'[b].counts = broadcast[b].counts
         /\ Recipients \in SUBSET People /\ Recipients # {} /\ UNCHANGED tried
<1>1. PICK d \in Broadcast : d = broadcast[b] /\ d.pc = "none"
  BY DEF IInv, TypeOK, ListRecipients
<1>2. broadcast \in [Broadcasts -> Broadcast]
  BY DEF IInv, TypeOK
<1>3. PICK pc \in {"listed"}, W \in SUBSET People, l \in [People -> Ids] :
        /\ pc = "listed" /\ W = Recipients
        /\ l = [p \in People |-> IF p \in Recipients THEN row[p].id ELSE 0]
  BY FirstRecords DEF Recipients, IInv, TypeOK, Row
<1> DEFINE e == [d EXCEPT !.pc = pc, !.list = l, !.waiting = W]
<1>4. /\ e \in Broadcast /\ e.pc = "listed" /\ e.list = l /\ e.waiting = W /\ e.batch = d.batch
      /\ e.delivered = d.delivered /\ e.failed = d.failed /\ e.counts = d.counts
  BY <1>3 DEF Broadcast
<1>5. broadcast' = [broadcast EXCEPT ![b] = e]
  BY <1>1, <1>2, <1>3 DEF ListRecipients
<1> HIDE DEF e
<1>6. UNCHANGED <<row, rows, job, requests, left, tried>> /\ Recipients # {}
  BY DEF ListRecipients, OnBroadcast
<1>7. broadcast'[b] = e /\ \A c \in Broadcasts \ {b} : broadcast'[c] = broadcast[c]
  BY <1>2, <1>5
<1>8. /\ \A p \in People : d.list[p] = 0 /\ tried[b][p] = "none"
      /\ d.batch = {} /\ d.counts = {}
      /\ d.delivered = Cardinality(Sent(b, "delivered"))
      /\ d.failed = Cardinality(Sent(b, "failed"))
  BY <1>1 DEF IInv, BroadcastSound, Broadcast
<1>9. \A p \in People : l[p] # 0 <=> p \in W
  BY <1>3 DEF Recipients, Kept
<1>10. BroadcastSound(b)'
  <2>1. /\ \E p \in People : l[p] # 0
        /\ Sent(b, "delivered")' = Sent(b, "delivered") /\ Sent(b, "failed")' = Sent(b, "failed")
    BY <1>3, <1>6, <1>9 DEF Sent
  <2> QED
    BY <1>4, <1>6, <1>7, <1>8, <1>9, <2>1 DEF BroadcastSound
<1>11. Cardinality(e.counts) <= 1
  BY <1>4, <1>8, FS_EmptySet
<1>12. tried' \in [Broadcasts -> [People -> {"none", "delivered", "failed"}]]
  BY <1>6 DEF IInv, TypeOK
<1>13. IInv'
  BY <1>1, <1>4, <1>5, <1>6, <1>8, <1>10, <1>11, <1>12, BroadcastStep
<1> QED
  BY <1>1, <1>3, <1>4, <1>6, <1>7, <1>8, <1>9, <1>13

\* Nobody is listed and nothing is counted in this step.
SameBooks ==
    \A c \in Broadcasts : broadcast'[c].list = broadcast[c].list
                          /\ broadcast'[c].counts = broadcast[c].counts

\* A step of a broadcast that has been announced, and that tries nobody.
LEMMA QuietStep ==
  ASSUME IInv, NEW b \in Broadcasts, NEW e \in Broadcast,
         broadcast' = [broadcast EXCEPT ![b] = e],
         UNCHANGED <<row, rows, job, requests, left, tried>>,
         Cardinality(e.counts) <= 1,
         broadcast[b].pc # "none", e.pc # "none",
         e.list = broadcast[b].list, e.delivered = broadcast[b].delivered,
         e.failed = broadcast[b].failed,
         e.waiting \cap e.batch = {},
         e.waiting \cup e.batch \subseteq broadcast[b].waiting \cup broadcast[b].batch,
         e.pc # "lost" => broadcast[b].pc \in {"listed", "sending", "counted", "done"}
                          /\ e.waiting \cup e.batch = broadcast[b].waiting \cup broadcast[b].batch,
         e.pc \in {"counted", "done"} => e.waiting = {} /\ e.batch = {},
         e.counts # {} => e.pc \in {"counted", "done", "lost"}
  PROVE  IInv'
<1>1. broadcast \in [Broadcasts -> Broadcast]
  BY DEF IInv, TypeOK
<1>2. broadcast'[b] = e
  BY <1>1
<1>3. PICK d \in Broadcast : d = broadcast[b]
  BY <1>1
<1>4. Sent(b, "delivered")' = Sent(b, "delivered") /\ Sent(b, "failed")' = Sent(b, "failed")
  BY DEF Sent
<1>5. BroadcastSound(b)'
  BY <1>2, <1>3, <1>4 DEF IInv, BroadcastSound
<1>6. tried' \in [Broadcasts -> [People -> {"none", "delivered", "failed"}]]
  BY DEF IInv, TypeOK
<1> QED
  BY <1>5, <1>6, BroadcastStep

\* The row of the broadcast is created.
LEMMA CreateBroadcastKeeps ==
  ASSUME IInv, NEW b \in Broadcasts, CreateBroadcast(b)
  PROVE  IInv' /\ SameBooks
<1>1. PICK d \in Broadcast, pc \in {"sending"} :
        d = broadcast[b] /\ d.pc = "listed" /\ pc = "sending"
  BY DEF IInv, TypeOK, CreateBroadcast
<1> DEFINE e == [d EXCEPT !.pc = pc]
<1>2. /\ e \in Broadcast /\ e.pc = "sending" /\ e.list = d.list /\ e.waiting = d.waiting
      /\ e.batch = d.batch /\ e.delivered = d.delivered /\ e.failed = d.failed
      /\ e.counts = d.counts
  BY <1>1 DEF Broadcast
<1>3. broadcast \in [Broadcasts -> Broadcast] /\ broadcast' = [broadcast EXCEPT ![b] = e]
  BY <1>1 DEF CreateBroadcast, IInv, TypeOK
<1>4. UNCHANGED <<row, rows, job, requests, left, tried>>
  BY DEF CreateBroadcast, OnBroadcast
<1> HIDE DEF e
<1>5. Cardinality(d.counts) <= 1 /\ d.waiting \cap d.batch = {} /\ d.counts = {}
  BY <1>1 DEF IInv, TypeOK, BroadcastSound
<1>6. IInv'
  BY <1>1, <1>2, <1>3, <1>4, <1>5, QuietStep
<1> QED
  BY <1>1, <1>2, <1>3, <1>6 DEF SameBooks

\* A batch is taken off the list.
LEMMA SendBatchKeeps ==
  ASSUME IInv, NEW b \in Broadcasts, SendBatch(b)
  PROVE  IInv' /\ SameBooks
<1>1. PICK d \in Broadcast : d = broadcast[b] /\ d.pc = "sending" /\ d.batch = {}
  BY DEF IInv, TypeOK, SendBatch
<1>2. PICK batch \in SUBSET d.waiting :
        broadcast' = [broadcast EXCEPT ![b].batch = batch, ![b].waiting = Rest(b, batch)]
  BY <1>1 DEF SendBatch, kSubset
<1>3. PICK B \in SUBSET People, W \in SUBSET People : B = batch /\ W = d.waiting \ batch
  BY DEF Broadcast
<1> DEFINE e == [d EXCEPT !.batch = B, !.waiting = W]
<1>4. /\ e \in Broadcast /\ e.pc = d.pc /\ e.list = d.list /\ e.waiting = W
      /\ e.batch = B /\ e.delivered = d.delivered /\ e.failed = d.failed
      /\ e.counts = d.counts
  BY DEF Broadcast
<1>5. broadcast \in [Broadcasts -> Broadcast] /\ broadcast' = [broadcast EXCEPT ![b] = e]
  BY <1>1, <1>2, <1>3 DEF IInv, TypeOK, Rest
<1>6. UNCHANGED <<row, rows, job, requests, left, tried>>
  BY DEF SendBatch, OnBroadcast
<1> HIDE DEF e
<1>7. Cardinality(d.counts) <= 1 /\ d.counts = {}
  BY <1>1 DEF IInv, TypeOK, BroadcastSound
<1>8. IInv'
  BY <1>1, <1>3, <1>4, <1>5, <1>6, <1>7, QuietStep
<1> QED
  BY <1>1, <1>4, <1>5, <1>8 DEF SameBooks

\* An answer of the mail service takes one from the batch and counts him.
LEMMA MailAnsweredFacts ==
  ASSUME IInv, NEW b \in Broadcasts, NEW p \in People, MailAnswered(b, p)
  PROVE  /\ IInv' /\ SameBooks
         /\ broadcast[b].list[p] # 0 /\ tried[b][p] = "none"
         /\ \E o \in {"delivered", "failed"} : tried' = [tried EXCEPT ![b][p] = o]
<1>1. PICK d \in Broadcast : d = broadcast[b] /\ d.pc = "sending" /\ p \in d.batch
  BY DEF IInv, TypeOK, MailAnswered
<1>2. /\ broadcast \in [Broadcasts -> Broadcast]
      /\ tried \in [Broadcasts -> [People -> {"none", "delivered", "failed"}]]
  BY DEF IInv, TypeOK
<1>3. PICK o \in {"delivered", "failed"} :
        /\ tried' = [tried EXCEPT ![b][p] = o]
        /\ \/ /\ o = "delivered"
              /\ broadcast' = [broadcast EXCEPT ![b].batch = @ \ {p}, ![b].delivered = @ + 1]
           \/ /\ o = "failed"
              /\ broadcast' = [broadcast EXCEPT ![b].batch = @ \ {p}, ![b].failed = @ + 1]
  BY DEF MailAnswered
<1>4. BroadcastSound(b) /\ d.counts = {} /\ d.list[p] # 0 /\ tried[b][p] = "none"
      /\ d.delivered = Cardinality(Sent(b, "delivered"))
      /\ d.failed = Cardinality(Sent(b, "failed"))
  BY <1>1 DEF IInv, BroadcastSound
<1>5. \A q \in People : tried'[b][q] = IF q = p THEN o ELSE tried[b][q]
  BY <1>2, <1>3
<1>6. /\ Sent(b, o)' = Sent(b, o) \cup {p} /\ p \notin Sent(b, o)
      /\ \A x \in {"delivered", "failed"} \ {o} : Sent(b, x)' = Sent(b, x)
  BY <1>4, <1>5 DEF Sent
<1>7. /\ Sent(b, o) \in SUBSET People /\ Sent(b, o)' \in SUBSET People
      /\ Cardinality(Sent(b, o)') = Cardinality(Sent(b, o)) + 1
      /\ Cardinality(Sent(b, o)') \in 0..Size
  BY <1>6, CountOne, Countable DEF Sent
<1>8. PICK B \in SUBSET People, ok \in 0..Size, no \in 0..Size :
        /\ B = d.batch \ {p}
        /\ ok = Cardinality(Sent(b, "delivered")') /\ no = Cardinality(Sent(b, "failed")')
        /\ \/ o = "delivered" /\ ok = d.delivered + 1 /\ no = d.failed
           \/ o = "failed" /\ ok = d.delivered /\ no = d.failed + 1
  BY <1>3, <1>4, <1>6, <1>7 DEF Broadcast
<1> DEFINE e == [d EXCEPT !.batch = B, !.delivered = ok, !.failed = no]
<1>9. /\ e \in Broadcast /\ e.pc = d.pc /\ e.list = d.list /\ e.waiting = d.waiting
      /\ e.batch = B /\ e.delivered = ok /\ e.failed = no /\ e.counts = d.counts
  BY DEF Broadcast
<1>10. broadcast' = [broadcast EXCEPT ![b] = e]
  <2>1. CASE o = "delivered"
    <3>1. e = [d EXCEPT !.batch = B, !.delivered = ok]
      BY <1>8, <2>1 DEF Broadcast
    <3>2. broadcast' = [broadcast EXCEPT ![b] = [d EXCEPT !.batch = B, !.delivered = ok]]
      BY <1>1, <1>2, <1>3, <1>8, <2>1 DEF Broadcast
    <3> QED
      BY <3>1, <3>2
  <2>2. CASE o = "failed"
    <3>1. e = [d EXCEPT !.batch = B, !.failed = no]
      BY <1>8, <2>2 DEF Broadcast
    <3>2. broadcast' = [broadcast EXCEPT ![b] = [d EXCEPT !.batch = B, !.failed = no]]
      BY <1>1, <1>2, <1>3, <1>8, <2>2 DEF Broadcast
    <3> QED
      BY <3>1, <3>2
  <2> QED
    BY <1>3, <2>1, <2>2
<1> HIDE DEF e
<1>11. UNCHANGED <<row, rows, job, requests, left>>
  BY DEF MailAnswered, OnBroadcast
<1>12. broadcast'[b] = e
  BY <1>2, <1>10
<1>13. BroadcastSound(b)'
  <2>1. /\ d.waiting \cap d.batch = {} /\ \E q \in People : d.list[q] # 0
        /\ \A q \in People : tried[b][q] # "none" => d.list[q] # 0
        /\ \A q \in d.waiting \cup d.batch : d.list[q] # 0 /\ tried[b][q] = "none"
        /\ \A q \in People : d.list[q] # 0 /\ tried[b][q] = "none" => q \in d.waiting \cup d.batch
    BY <1>1, <1>4 DEF BroadcastSound
  <2>2. d.waiting \cup B \subseteq People
    BY DEF Broadcast
  <2>3. e.waiting \cap e.batch = {}
    BY <1>8, <1>9, <2>1
  <2>4. \A q \in People : tried'[b][q] # "none" => e.list[q] # 0
    BY <1>4, <1>5, <1>9, <2>1
  <2>5. \A q \in e.waiting \cup e.batch : e.list[q] # 0 /\ tried'[b][q] = "none"
    BY <1>1, <1>5, <1>8, <1>9, <2>1, <2>2
  <2>6. ASSUME NEW q \in People, e.list[q] # 0, tried'[b][q] = "none"
        PROVE  q \in e.waiting \cup e.batch
    <3>1. q # p
      BY <1>3, <1>5, <2>6
    <3> QED
      BY <1>5, <1>8, <1>9, <2>1, <2>6, <3>1
  <2> QED
    BY <1>1, <1>4, <1>8, <1>9, <1>12, <2>1, <2>3, <2>4, <2>5, <2>6 DEF BroadcastSound
<1>14. /\ tried' \in [Broadcasts -> [People -> {"none", "delivered", "failed"}]]
       /\ \A c \in Broadcasts \ {b} : tried'[c] = tried[c]
  BY <1>2, <1>3
<1>15. \A q \in People : tried[b][q] # "none" => tried'[b][q] # "none"
  BY <1>5
<1>16. Cardinality(e.counts) <= 1
  BY <1>4, <1>9, FS_EmptySet
<1>17. IInv'
  BY <1>1, <1>9, <1>10, <1>11, <1>13, <1>14, <1>15, <1>16, BroadcastStep
<1>18. SameBooks
  BY <1>1, <1>2, <1>9, <1>10 DEF SameBooks
<1> QED
  BY <1>1, <1>3, <1>4, <1>17, <1>18

\* The counts are written when everyone listed was tried.
LEMMA RecordCountsFacts ==
  ASSUME IInv, NEW b \in Broadcasts, RecordCounts(b)
  PROVE  /\ IInv'
         /\ broadcast[b].pc # "none" /\ broadcast[b].counts = {}
         /\ \A p \in People : broadcast[b].list[p] # 0 => tried[b][p] # "none"
         /\ broadcast'[b].counts = {[delivered |-> Cardinality(Sent(b, "delivered")),
                                     failed |-> Cardinality(Sent(b, "failed"))]}
         /\ \A c \in Broadcasts : broadcast'[c].list = broadcast[c].list
         /\ \A c \in Broadcasts \ {b} : broadcast'[c].counts = broadcast[c].counts
<1>1. PICK d \in Broadcast : d = broadcast[b] /\ d.pc = "sending" /\ d.waiting = {} /\ d.batch = {}
  BY DEF IInv, TypeOK, RecordCounts, Settled
<1>2. PICK pc \in {"counted"}, C \in SUBSET [delivered: 0..Size, failed: 0..Size] :
        /\ pc = "counted" /\ C = {[delivered |-> d.delivered, failed |-> d.failed]}
        /\ Cardinality(C) <= 1
  <2>1. PICK x \in [delivered: 0..Size, failed: 0..Size] :
          x = [delivered |-> d.delivered, failed |-> d.failed]
    BY DEF Broadcast
  <2>2. Cardinality({x}) = 1
    BY FS_Singleton
  <2>3. {x} \in SUBSET [delivered: 0..Size, failed: 0..Size]
    OBVIOUS
  <2> QED
    BY <2>1, <2>2, <2>3
<1> DEFINE e == [d EXCEPT !.pc = pc, !.counts = C]
<1>3. /\ e \in Broadcast /\ e.pc = "counted" /\ e.list = d.list /\ e.waiting = d.waiting
      /\ e.batch = d.batch /\ e.delivered = d.delivered /\ e.failed = d.failed
      /\ e.counts = C
  BY <1>2 DEF Broadcast
<1>4. broadcast \in [Broadcasts -> Broadcast] /\ broadcast' = [broadcast EXCEPT ![b] = e]
  BY <1>1, <1>2 DEF RecordCounts, IInv, TypeOK
<1>5. UNCHANGED <<row, rows, job, requests, left, tried>>
  BY DEF RecordCounts, OnBroadcast
<1> HIDE DEF e
<1>6. /\ d.counts = {} /\ d.delivered = Cardinality(Sent(b, "delivered"))
      /\ d.failed = Cardinality(Sent(b, "failed"))
      /\ \A p \in People : d.list[p] # 0 => tried[b][p] # "none"
  BY <1>1 DEF IInv, BroadcastSound
<1>7. IInv'
  BY <1>1, <1>2, <1>3, <1>4, <1>5, QuietStep
<1> QED
  BY <1>1, <1>2, <1>3, <1>4, <1>6, <1>7

\* A broadcast that is cut off tries nobody any more.
LEMMA CutFacts ==
  ASSUME NEW d \in Broadcast
  PROVE  /\ Cut(d) \in Broadcast /\ Cut(d).pc = "lost" /\ Cut(d).list = d.list
         /\ Cut(d).waiting = d.waiting /\ Cut(d).batch = {} /\ Cut(d).delivered = d.delivered
         /\ Cut(d).failed = d.failed /\ Cut(d).counts = d.counts
<1>1. PICK pc \in {"lost"}, B \in SUBSET People : pc = "lost" /\ B = {}
  OBVIOUS
<1>2. Cut(d) = [d EXCEPT !.pc = pc, !.batch = B]
  BY <1>1 DEF Cut
<1> QED
  BY <1>1, <1>2 DEF Broadcast

\* A broadcast whose database call fails.
LEMMA BroadcastFailsKeeps ==
  ASSUME IInv, NEW b \in Broadcasts, BroadcastFails(b)
  PROVE  IInv' /\ SameBooks
<1>1. PICK d \in Broadcast : d = broadcast[b] /\ d.pc \in {"listed", "sending", "counted"}
  BY DEF IInv, TypeOK, BroadcastFails, UnderWay
<1>2. PICK e \in Broadcast : e = Cut(d)
  BY CutFacts
<1>3. broadcast \in [Broadcasts -> Broadcast] /\ broadcast' = [broadcast EXCEPT ![b] = e]
  BY <1>1, <1>2 DEF BroadcastFails, IInv, TypeOK
<1>4. UNCHANGED <<row, rows, job, requests, left, tried>>
  BY DEF BroadcastFails, OnBroadcast
<1>5. /\ e.pc = "lost" /\ e.list = d.list /\ e.waiting = d.waiting /\ e.batch = {}
      /\ e.delivered = d.delivered /\ e.failed = d.failed /\ e.counts = d.counts
  BY <1>2, CutFacts
<1>6. Cardinality(d.counts) <= 1
  BY <1>1 DEF IInv, TypeOK
<1>7. IInv'
  BY <1>1, <1>3, <1>4, <1>5, <1>6, QuietStep
<1> QED
  BY <1>1, <1>3, <1>5, <1>7 DEF SameBooks

\* A restart ends every request and cuts off every broadcast that is under way.
LEMMA RestartKeeps ==
  ASSUME IInv, Restart
  PROVE  IInv' /\ SameBooks
<1>1. UNCHANGED <<row, rows, requests, tried, left>>
  BY DEF Restart
<1>2. PICK J \in SUBSET Jobs : J = Jobs
  OBVIOUS
<1>3. job' = [i \in Jobs |-> IF i \in J THEN Idle ELSE job[i]]
  BY <1>2 DEF Restart
<1>4. ASSUME NEW b \in Broadcasts
      PROVE  /\ broadcast'[b] \in Broadcast /\ BroadcastSound(b)'
             /\ broadcast'[b].list = broadcast[b].list /\ broadcast'[b].counts = broadcast[b].counts
  <2>1. PICK d \in Broadcast : d = broadcast[b] /\ BroadcastSound(b)
    BY DEF IInv, TypeOK
  <2>2. \A o : Sent(b, o)' = Sent(b, o)
    BY <1>1 DEF Sent
  <2>3. CASE UnderWay(b)
    <3>1. PICK e \in Broadcast : e = Cut(d)
      BY CutFacts
    <3>2. broadcast'[b] = e
      BY <2>1, <2>3, <3>1 DEF Restart
    <3>3. /\ e.pc = "lost" /\ e.list = d.list /\ e.waiting = d.waiting /\ e.batch = {}
          /\ e.delivered = d.delivered /\ e.failed = d.failed /\ e.counts = d.counts
      BY <3>1, CutFacts
    <3>4. d.pc # "none"
      BY <2>1, <2>3 DEF UnderWay
    <3>5. BroadcastSound(b)'
      BY <1>1, <2>1, <2>2, <3>2, <3>3, <3>4 DEF BroadcastSound
    <3> QED
      BY <2>1, <3>2, <3>3, <3>5
  <2>4. CASE ~UnderWay(b)
    <3>1. broadcast'[b] = d
      BY <2>1, <2>4 DEF Restart
    <3>2. BroadcastSound(b)'
      BY <1>1, <2>1, <2>2, <3>1 DEF BroadcastSound
    <3> QED
      BY <2>1, <3>1, <3>2
  <2> QED
    BY <2>3, <2>4
<1>5. broadcast' \in [Broadcasts -> Broadcast]
  BY <1>4 DEF Restart
<1>6. LeftInv'
  BY <1>1, <1>3, JobsEnd DEF IInv, LeftInv, Kept, TypeOK
<1>7. LastBroadcastTrue'
  BY <1>1, <1>4 DEF IInv, LastBroadcastTrue
<1>8. \A b \in Broadcasts : Cardinality(broadcast'[b].counts) <= 1
  BY <1>4 DEF IInv, TypeOK
<1>9. job' \in [Jobs -> Job] /\ \A i \in Jobs : JobSound(i)'
  BY <1>3, JobsEnd
<1> QED
  BY <1>1, <1>4, <1>5, <1>6, <1>7, <1>8, <1>9 DEF IInv, TypeOK, SameBooks

\* The date goes to subscriptions that were listed, which are those that were tried.
LEMMA RecordDatesKeeps ==
  ASSUME IInv, NEW b \in Broadcasts, RecordDates(b)
  PROVE  IInv' /\ SameBooks
<1>1. UNCHANGED <<rows, job, requests, tried, left>>
  BY DEF RecordDates
<1>2. PICK d \in Broadcast, pc \in {"done"} : d = broadcast[b] /\ d.pc = "counted" /\ pc = "done"
  BY DEF IInv, TypeOK, RecordDates
<1> DEFINE e == [d EXCEPT !.pc = pc]
<1>3. /\ e \in Broadcast /\ e.pc = "done" /\ e.list = d.list /\ e.waiting = d.waiting
      /\ e.batch = d.batch /\ e.delivered = d.delivered /\ e.failed = d.failed
      /\ e.counts = d.counts
  BY <1>2 DEF Broadcast
<1>4. broadcast \in [Broadcasts -> Broadcast] /\ broadcast' = [broadcast EXCEPT ![b] = e]
  BY <1>2 DEF RecordDates, IInv, TypeOK
<1> HIDE DEF e
<1>5. \A c \in Broadcasts : broadcast'[c] = IF c = b THEN e ELSE broadcast[c]
  BY <1>4
<1>6. ASSUME NEW c \in Broadcasts
      PROVE  BroadcastSound(c)'
  <2>1. \A o : Sent(c, o)' = Sent(c, o)
    BY <1>1 DEF Sent
  <2>2. CASE c = b
    BY <1>1, <1>2, <1>3, <1>5, <2>1, <2>2 DEF IInv, BroadcastSound
  <2>3. CASE c # b
    BY <1>1, <1>5, <2>1, <2>3 DEF IInv, BroadcastSound
  <2> QED
    BY <2>2, <2>3
<1>7. ASSUME NEW p \in People
      PROVE  /\ row'[p] \in Row /\ row'[p].id = row[p].id /\ row'[p].status = row[p].status
             /\ row'[p].told => row[p].told \/ Listed(b, p)
  <2>1. PICK r \in Row, yes \in BOOLEAN : r = row[p] /\ yes = TRUE
    BY DEF IInv, TypeOK
  <2>2. /\ [r EXCEPT !.told = yes] \in Row /\ [r EXCEPT !.told = yes].id = r.id
        /\ [r EXCEPT !.told = yes].status = r.status
    BY DEF Row
  <2>3. row'[p] = IF Listed(b, p) THEN [r EXCEPT !.told = yes] ELSE r
    BY <2>1 DEF RecordDates
  <2> QED
    BY <2>1, <2>2, <2>3
<1>8. row' \in [People -> Row]
  BY <1>7 DEF RecordDates
<1>9. LeftInv'
  BY <1>1, <1>7 DEF IInv, LeftInv, Kept, Joins, TypeOK
<1>10. LastBroadcastTrue'
  <2>1. ASSUME NEW p \in People, row'[p].told
        PROVE  \E c \in Broadcasts : broadcast'[c].list[p] = row'[p].id /\ tried'[c][p] # "none"
    <3>1. CASE row[p].told
      <4>1. PICK c \in Broadcasts : broadcast[c].list[p] = row[p].id /\ tried[c][p] # "none"
        BY <3>1 DEF IInv, LastBroadcastTrue
      <4> QED
        BY <1>1, <1>2, <1>3, <1>5, <1>7, <4>1
    <3>2. CASE Listed(b, p)
      <4>1. broadcast[b].list[p] = row[p].id /\ tried[b][p] # "none"
        BY <1>2, <3>2 DEF Listed, IInv, BroadcastSound
      <4> QED
        BY <1>1, <1>2, <1>3, <1>5, <1>7, <4>1
    <3> QED
      BY <1>7, <2>1, <3>1, <3>2
  <2> QED
    BY <2>1 DEF LastBroadcastTrue
<1>11. /\ broadcast' \in [Broadcasts -> Broadcast]
       /\ \A c \in Broadcasts : Cardinality(broadcast'[c].counts) <= 1
  BY <1>2, <1>3, <1>4, <1>5 DEF IInv, TypeOK
<1>12. \A j \in Jobs : JobSound(j)'
  BY <1>1 DEF IInv, JobSound
<1>13. IInv'
  BY <1>1, <1>6, <1>8, <1>9, <1>10, <1>11, <1>12 DEF IInv, TypeOK
<1> QED
  BY <1>2, <1>3, <1>5, <1>13 DEF SameBooks

-----------------------------------------------------------------------------
(* The invariant.                                                           *)

\* Nobody has subscribed and nothing was sent.
LEMMA InitIInv == Init => IInv
<1> SUFFICES ASSUME Init PROVE IInv
  OBVIOUS
<1>1. /\ \A b \in Broadcasts : /\ broadcast[b] = Unsent
                               /\ \A p \in People : tried[b][p] = "none"
      /\ \A j \in Jobs : job[j] = Idle
      /\ \A p \in People : row[p] = Absent
      /\ left = {}
  BY DEF Init
<1>2. Cardinality({}) = 0
  BY FS_EmptySet
<1>3. TypeOK
  <2>1. 0 \in 0..MaxRequests
    BY NewsletterParameters
  <2>2. ASSUME NEW b \in Broadcasts
        PROVE  Cardinality(broadcast[b].counts) <= 1
    <3>1. broadcast[b].counts = {}
      BY <1>1, UnsentFacts
    <3>2. Cardinality(broadcast[b].counts) = 0
      BY <1>2, <3>1, Zenon
    <3> QED
      BY <3>2
  <2> QED
    BY <2>1, <2>2, FirstRecords DEF Init, TypeOK
<1>4. ASSUME NEW b \in Broadcasts
      PROVE  BroadcastSound(b)
  <2>1. Sent(b, "delivered") = {} /\ Sent(b, "failed") = {}
    BY <1>1 DEF Sent
  <2> QED
    BY <1>1, <1>2, <2>1, UnsentFacts DEF BroadcastSound
<1>5. \A j \in Jobs : JobSound(j)
  BY <1>1 DEF JobSound, Idle
<1>6. LeftInv /\ LastBroadcastTrue
  BY <1>1 DEF LeftInv, LastBroadcastTrue, Absent
<1> QED
  BY <1>3, <1>4, <1>5, <1>6 DEF IInv

\* Every step keeps it.
LEMMA NextIInv == IInv /\ [Next]_vars => IInv'
<1> SUFFICES ASSUME IInv, [Next]_vars PROVE IInv'
  OBVIOUS
<1>1. ASSUME NEW j \in Jobs, NEW p \in People,
             \/ Subscribe(j, p) \/ Unsubscribe(j, p) \/ UnsubscribeUnknown(j, p)
             \/ DeleteSubscriber(j, p)
             \/ \E status \in Statuses : ToggleStatus(j, p, status)
      PROVE  IInv'
  BY <1>1, BeginsKeep, UnsubscribeUnknownKeeps
<1>2. ASSUME NEW j \in Jobs, Write(j) \/ JobFails(j) PROVE IInv'
  BY <1>2, WriteKeeps, JobFailsKeeps
<1>3. ASSUME NEW b \in Broadcasts, ListRecipients(b) PROVE IInv'
  BY <1>3, ListRecipientsFacts
<1>4. ASSUME NEW b \in Broadcasts, Proceed(b) PROVE IInv'
  BY <1>4, CreateBroadcastKeeps, SendBatchKeeps, MailAnsweredFacts, RecordCountsFacts,
     RecordDatesKeeps DEF Proceed
<1>5. ASSUME NEW b \in Broadcasts, BroadcastFails(b) PROVE IInv'
  BY <1>5, BroadcastFailsKeeps
<1>6. CASE Restart
  BY <1>6, RestartKeeps
<1>7. CASE UNCHANGED vars
  <2>1. TypeOK' /\ \A j \in Jobs : JobSound(j)'
    BY <1>7 DEF vars, IInv, TypeOK, JobSound
  <2>2. LeftInv' /\ LastBroadcastTrue'
    BY <1>7 DEF vars, IInv, LeftInv, LastBroadcastTrue, Kept, Joins
  <2> QED
    BY <1>7, <2>1, <2>2, BroadcastsUntouched DEF vars, IInv
<1> QED
  BY <1>1, <1>2, <1>3, <1>4, <1>5, <1>6, <1>7 DEF Next

\* So it holds throughout.
LEMMA Invariance == Spec => []IInv
BY InitIInv, NextIInv, PTL DEF Spec

\* The variables always hold values of their types, counts included, which never exceed the
\* number of people, whatever the batches and the order of the answers.
THEOREM TypeCorrect == Spec => []TypeOK
BY Invariance, PTL DEF IInv

\* A date of the last broadcast is that of a broadcast that listed and tried this very
\* subscription, though addresses leave and join anew while sendBroadcast runs.
THEOREM TrueDates == Spec => []LastBroadcastTrue
BY Invariance, PTL DEF IInv

\* Who has been told that he is off the list is on none that a broadcast reads later.
THEOREM LeaversAreSkipped == Spec => LeaversSkipped
<1> DEFINE Skipped ==
      \A b \in Broadcasts, p \in left :
        broadcast[b].pc = "none" /\ broadcast'[b].pc = "listed" => broadcast'[b].list[p] = 0
<1>1. IInv /\ [Next]_vars => [Skipped]_vars
  <2> SUFFICES ASSUME IInv, Next, NEW b \in Broadcasts, NEW p \in left,
                      broadcast[b].pc = "none", broadcast'[b].pc = "listed"
               PROVE  broadcast'[b].list[p] = 0
    OBVIOUS
  <2>1. broadcast \in [Broadcasts -> Broadcast] /\ p \in People /\ p \notin Recipients
    BY DEF IInv, TypeOK, LeftInv, Recipients
  <2>2. ASSUME NEW c \in Broadcasts, ListRecipients(c)
        PROVE  broadcast'[b].list[p] = 0
    BY <2>1, <2>2, ListRecipientsFacts
  <2>3. ASSUME NEW c \in Broadcasts, Proceed(c) \/ BroadcastFails(c)
        PROVE  c = b => broadcast[b].pc # "none"
    BY <2>3 DEF Proceed, CreateBroadcast, SendBatch, MailAnswered, RecordCounts, RecordDates,
                BroadcastFails, UnderWay
  <2>4. ASSUME NEW c \in Broadcasts, Proceed(c) \/ BroadcastFails(c), c # b
        PROVE  broadcast'[b] = broadcast[b]
    BY <2>1, <2>4 DEF Proceed, CreateBroadcast, SendBatch, MailAnswered, RecordCounts, RecordDates,
                      BroadcastFails
  <2>5. CASE Restart
    BY <2>1, <2>5 DEF Restart, UnderWay
  <2>6. CASE UNCHANGED broadcast
    BY <2>6
  <2>7. ASSUME NEW j \in Jobs,
               \/ Write(j) \/ JobFails(j)
               \/ \E q \in People :
                    \/ Subscribe(j, q) \/ Unsubscribe(j, q) \/ UnsubscribeUnknown(j, q)
                    \/ DeleteSubscriber(j, q)
                    \/ \E status \in Statuses : ToggleStatus(j, q, status)
        PROVE  UNCHANGED broadcast
    BY <2>7 DEF Write, JobFails, Subscribe, Unsubscribe, UnsubscribeUnknown, DeleteSubscriber,
                ToggleStatus, Begin
  <2> QED
    BY <2>2, <2>3, <2>4, <2>5, <2>6, <2>7 DEF Next
<1> QED
  BY <1>1, Invariance, PTL DEF Spec, Skipped, LeaversSkipped

-----------------------------------------------------------------------------
(* The refinement.                                                          *)

\* One step, seen from Mailing.
MailingStep == [Promise!MailingNext]_(Promise!mailingVars)

\* Mailing counts as Newsletter does.
LEMMA SameCardinality == \A S : Promise!Cardinality(S) = Cardinality(S)
BY DEF Promise!Cardinality, Cardinality

\* Where nobody is listed, tried or counted, nothing shows.
LEMMA StutterStep ==
  ASSUME SameBooks, UNCHANGED tried
  PROVE  MailingStep
<1>1. Outcome' = Outcome
  BY DEF SameBooks, Outcome, OutcomeOf
<1>2. Counted' = Counted
  BY DEF SameBooks, Counted
<1> QED
  BY <1>1, <1>2 DEF MailingStep, Promise!mailingVars

\* sendBroadcast's list is announced.
LEMMA ListRecipientsAnnounces ==
  ASSUME IInv, NEW b \in Broadcasts, ListRecipients(b)
  PROVE  MailingStep
<1>1. /\ \A p \in People : broadcast[b].list[p] = 0 /\ tried[b][p] = "none"
      /\ \A p \in People : broadcast'[b].list[p] # 0 <=> p \in Recipients
      /\ \A c \in Broadcasts \ {b} : broadcast'[c] = broadcast[c]
      /\ broadcast'[b].counts = broadcast[b].counts
      /\ Recipients \in SUBSET People /\ Recipients # {} /\ UNCHANGED tried
  BY ListRecipientsFacts
<1>2. PICK to : to = Recipients
  OBVIOUS
<1>3. Promise!With(b, "out") = People
  BY <1>1 DEF Promise!With, Outcome, OutcomeOf
<1>4. Outcome' = [Outcome EXCEPT ![b] = [p \in People |-> IF p \in to THEN "waiting" ELSE "out"]]
  <2>1. ASSUME NEW c \in Broadcasts, NEW p \in People
        PROVE  OutcomeOf(c, p)' = IF c # b THEN OutcomeOf(c, p)
                                  ELSE IF p \in to THEN "waiting" ELSE "out"
    BY <1>1, <1>2 DEF OutcomeOf
  <2> QED
    BY <2>1 DEF Outcome
<1>5. Counted' = Counted
  BY <1>1 DEF Counted
<1>6. to \in (SUBSET People) \ {{}}
  BY <1>1, <1>2
<1>7. Promise!Announce(b)
  BY <1>3, <1>4, <1>5, <1>6 DEF Promise!Announce
<1> QED
  BY <1>7 DEF MailingStep, Promise!MailingNext

\* An answer of the mail service is a try.
LEMMA MailAnsweredTries ==
  ASSUME IInv, NEW b \in Broadcasts, NEW p \in People, MailAnswered(b, p)
  PROVE  MailingStep
<1>1. PICK o \in {"delivered", "failed"} : tried' = [tried EXCEPT ![b][p] = o]
  BY MailAnsweredFacts
<1>2. SameBooks /\ broadcast[b].list[p] # 0 /\ tried[b][p] = "none"
      /\ tried \in [Broadcasts -> [People -> {"none", "delivered", "failed"}]]
  BY MailAnsweredFacts DEF IInv, TypeOK
<1>3. ASSUME NEW c \in Broadcasts, NEW q \in People
      PROVE  OutcomeOf(c, q)' = IF c = b /\ q = p THEN o ELSE OutcomeOf(c, q)
  BY <1>1, <1>2 DEF OutcomeOf, SameBooks
<1>4. Outcome' = [Outcome EXCEPT ![b][p] = o]
  BY <1>3 DEF Outcome
<1>5. Outcome[b][p] = "waiting"
  BY <1>2 DEF Outcome, OutcomeOf
<1>6. Counted' = Counted
  BY <1>2 DEF SameBooks, Counted
<1>7. Promise!Try(b, p)
  BY <1>4, <1>5, <1>6 DEF Promise!Try
<1> QED
  BY <1>7 DEF MailingStep, Promise!MailingNext

\* The counts on record are those of the outcomes.
LEMMA RecordCountsReports ==
  ASSUME IInv, NEW b \in Broadcasts, RecordCounts(b)
  PROVE  MailingStep
<1>1. /\ broadcast[b].pc # "none" /\ broadcast[b].counts = {}
      /\ \A p \in People : broadcast[b].list[p] # 0 => tried[b][p] # "none"
      /\ broadcast'[b].counts = {[delivered |-> Cardinality(Sent(b, "delivered")),
                                  failed |-> Cardinality(Sent(b, "failed"))]}
      /\ \A c \in Broadcasts : broadcast'[c].list = broadcast[c].list
      /\ \A c \in Broadcasts \ {b} : broadcast'[c].counts = broadcast[c].counts
  BY RecordCountsFacts
<1>2. UNCHANGED tried
  BY DEF RecordCounts
<1>3. /\ \E p \in People : broadcast[b].list[p] # 0
      /\ \A p \in People : tried[b][p] # "none" => broadcast[b].list[p] # 0
  BY <1>1 DEF IInv, BroadcastSound
<1>4. \A p \in People : Outcome[b][p] = IF broadcast[b].list[p] = 0 THEN "out" ELSE tried[b][p]
  BY <1>1 DEF Outcome, OutcomeOf
<1>5. Promise!With(b, "delivered") = Sent(b, "delivered")
      /\ Promise!With(b, "failed") = Sent(b, "failed")
  BY <1>3, <1>4 DEF Promise!With, Sent
<1>6. Promise!With(b, "out") # People
  <2>1. PICK p \in People : broadcast[b].list[p] # 0
    BY <1>3
  <2>2. tried[b][p] \in {"delivered", "failed"}
    BY <1>1, <2>1 DEF IInv, TypeOK
  <2> QED
    BY <1>4, <2>1, <2>2 DEF Promise!With
<1>7. Promise!With(b, "waiting") = {}
  BY <1>4 DEF Promise!With, IInv, TypeOK
<1>8. Outcome' = Outcome
  BY <1>1, <1>2 DEF Outcome, OutcomeOf
<1>9. Counted' = [Counted EXCEPT ![b] =
                    {[delivered |-> Cardinality(Promise!With(b, "delivered")),
                      failed |-> Cardinality(Promise!With(b, "failed"))]}]
  BY <1>1, <1>5 DEF Counted
<1>10. Counted[b] = {}
  BY <1>1 DEF Counted
<1>11. Promise!Report(b)
  BY <1>6, <1>7, <1>8, <1>9, <1>10, SameCardinality DEF Promise!Report
<1> QED
  BY <1>11 DEF MailingStep, Promise!MailingNext

\* Nothing has been announced at first.
LEMMA InitialMailing == Init => Promise!MailingInit
<1> SUFFICES ASSUME Init
             PROVE  Promise!MailingInit
  OBVIOUS
<1>1. \A b \in Broadcasts : broadcast[b] = Unsent
  BY DEF Init
<1>2. \A b \in Broadcasts, p \in People : OutcomeOf(b, p) = "out"
  BY <1>1, UnsentFacts DEF OutcomeOf
<1>3. \A b \in Broadcasts : broadcast[b].counts = {}
  BY <1>1, UnsentFacts
<1> QED
  BY <1>2, <1>3 DEF Promise!MailingInit, Outcome, Counted

\* Every step maps to a step or a stutter.
LEMMA StepMailing == IInv /\ [Next]_vars => [Promise!MailingNext]_(Promise!mailingVars)
<1> SUFFICES ASSUME IInv, [Next]_vars
             PROVE  MailingStep
  BY DEF MailingStep
<1>1. ASSUME NEW j \in Jobs,
             \/ Write(j) \/ JobFails(j)
             \/ \E p \in People :
                  \/ Subscribe(j, p) \/ Unsubscribe(j, p) \/ UnsubscribeUnknown(j, p)
                  \/ DeleteSubscriber(j, p)
                  \/ \E status \in Statuses : ToggleStatus(j, p, status)
      PROVE  MailingStep
  <2>1. UNCHANGED <<broadcast, tried>>
    BY <1>1 DEF Write, JobFails, Subscribe, Unsubscribe, UnsubscribeUnknown, DeleteSubscriber,
                ToggleStatus, Begin
  <2> QED
    BY <2>1, StutterStep DEF SameBooks
<1>2. ASSUME NEW b \in Broadcasts, ListRecipients(b) PROVE MailingStep
  BY <1>2, ListRecipientsAnnounces
<1>3. ASSUME NEW b \in Broadcasts,
             CreateBroadcast(b) \/ SendBatch(b) \/ RecordDates(b) \/ BroadcastFails(b)
      PROVE  MailingStep
  <2>1. UNCHANGED tried
    BY <1>3 DEF CreateBroadcast, SendBatch, RecordDates, BroadcastFails
  <2> QED
    BY <1>3, <2>1, StutterStep, CreateBroadcastKeeps, SendBatchKeeps, RecordDatesKeeps,
       BroadcastFailsKeeps
<1>4. ASSUME NEW b \in Broadcasts, NEW p \in People, MailAnswered(b, p) PROVE MailingStep
  BY <1>4, MailAnsweredTries
<1>5. ASSUME NEW b \in Broadcasts, RecordCounts(b) PROVE MailingStep
  BY <1>5, RecordCountsReports
<1>6. CASE Restart
  BY <1>6, RestartKeeps, StutterStep DEF Restart
<1>7. CASE UNCHANGED vars
  BY <1>7, StutterStep DEF vars, SameBooks
<1> QED
  BY <1>1, <1>2, <1>3, <1>4, <1>5, <1>6, <1>7 DEF Next, Proceed

\* Broadcasts implement Mailing: the people a broadcast goes to are fixed when it begins, nobody
\* is tried twice, and the counts it records are those of the outcomes, for any size of a batch
\* and any order of the answers, whatever fails and whenever the server restarts.
THEOREM Implements == Spec => ImplementsMailing
<1>1. Spec => Promise!MailingInit /\ [][Promise!MailingNext]_(Promise!mailingVars)
  BY InitialMailing, StepMailing, Invariance, PTL DEF Spec
<1> QED
  BY <1>1 DEF ImplementsMailing, Promise!MailingSpec

-----------------------------------------------------------------------------
(* What Mailing comes to, and with it the broadcasts.                       *)

\* The people of a broadcast with a given outcome.
Now(b, o) == {p \in People : Outcome[b][p] = o}

\* A broadcast that is recorded went to somebody, has left nobody waiting, and its counts are
\* those of the delivered and of the failed.
MailFacts ==
    /\ DOMAIN Outcome = Broadcasts /\ DOMAIN Counted = Broadcasts
    /\ \A b \in Broadcasts : Outcome[b] \in [People -> {"out", "waiting", "delivered", "failed"}]
    /\ \A b \in Broadcasts : \A c \in Counted[b] :
         /\ Now(b, "waiting") = {} /\ Now(b, "out") # People
         /\ c.delivered = Cardinality(Now(b, "delivered"))
         /\ c.failed = Cardinality(Now(b, "failed"))

\* An outcome is final, nobody is added to a broadcast that has begun, and a record stays.
OutcomesKept ==
    \A b \in Broadcasts :
        /\ \A p \in People : Outcome[b][p] \in {"delivered", "failed"} =>
              Outcome'[b][p] = Outcome[b][p]
        /\ Now(b, "out") # People => Now(b, "out")' = Now(b, "out")
        /\ Counted[b] \subseteq Counted'[b]

\* Outcomes that do not change leave the groups alone.
LEMMA SameNow ==
    ASSUME Outcome' = Outcome
    PROVE  \A b, o : Now(b, o)' = Now(b, o)
  BY DEF Now

\* Every step of Mailing keeps its facts and its outcomes.
LEMMA MailFactsStep ==
    ASSUME MailFacts, [Promise!MailingNext]_(Promise!mailingVars)
    PROVE  MailFacts' /\ OutcomesKept
<1> DEFINE Group == {"out", "waiting", "delivered", "failed"}
<1>1. CASE UNCHANGED Promise!mailingVars
  <2>1. Outcome' = Outcome /\ Counted' = Counted
    BY <1>1 DEF Promise!mailingVars
  <2> QED
    BY <2>1 DEF MailFacts, OutcomesKept, Now
<1>2. ASSUME NEW b \in Broadcasts, Promise!Announce(b)
      PROVE  MailFacts' /\ OutcomesKept
  <2>1. PICK to \in (SUBSET People) \ {{}} :
          Outcome' = [Outcome EXCEPT ![b] = [p \in People |-> IF p \in to THEN "waiting" ELSE "out"]]
    BY <1>2 DEF Promise!Announce
  <2>2. Counted' = Counted /\ Now(b, "out") = People
    BY <1>2 DEF Promise!Announce, Promise!With, Now
  <2>3. Counted[b] = {}
    BY <2>2 DEF MailFacts
  <2>4. /\ DOMAIN Outcome' = Broadcasts
        /\ Outcome'[b] \in [People -> Group]
        /\ \A c \in Broadcasts \ {b} : Outcome'[c] = Outcome[c]
    BY <2>1 DEF MailFacts
  <2>5. \A c \in Broadcasts \ {b}, o \in Group : Now(c, o)' = Now(c, o)
    BY <2>4 DEF Now
  <2>6. \A p \in People : Outcome[b][p] = "out"
    BY <2>2 DEF Now
  <2>7. MailFacts'
    BY <2>2, <2>3, <2>4, <2>5 DEF MailFacts
  <2>8. OutcomesKept
    BY <2>2, <2>4, <2>5, <2>6 DEF OutcomesKept
  <2> QED
    BY <2>7, <2>8
<1>3. ASSUME NEW b \in Broadcasts, NEW p \in People, Promise!Try(b, p)
      PROVE  MailFacts' /\ OutcomesKept
  <2>1. PICK o \in {"delivered", "failed"} : Outcome' = [Outcome EXCEPT ![b][p] = o]
    BY <1>3 DEF Promise!Try
  <2>2. Counted' = Counted /\ Outcome[b][p] = "waiting"
    BY <1>3 DEF Promise!Try
  <2>3. Counted[b] = {}
    BY <2>2 DEF MailFacts, Now
  <2>4. /\ DOMAIN Outcome' = Broadcasts
        /\ Outcome'[b] = [Outcome[b] EXCEPT ![p] = o]
        /\ \A c \in Broadcasts \ {b} : Outcome'[c] = Outcome[c]
    BY <2>1 DEF MailFacts
  <2>5. /\ Outcome'[b] \in [People -> Group] /\ Outcome'[b][p] = o
        /\ \A q \in People \ {p} : Outcome'[b][q] = Outcome[b][q]
    BY <2>4 DEF MailFacts
  <2>6. \A c \in Broadcasts \ {b}, g \in Group : Now(c, g)' = Now(c, g)
    BY <2>4 DEF Now
  <2>7. Now(b, "out")' = Now(b, "out")
    BY <2>2, <2>5 DEF Now
  <2>8. MailFacts'
    <3>1. \A c \in Broadcasts : Outcome'[c] \in [People -> Group]
      BY <2>4, <2>5 DEF MailFacts
    <3>2. ASSUME NEW c \in Broadcasts, NEW k \in Counted'[c]
          PROVE  /\ Now(c, "waiting")' = {} /\ Now(c, "out")' # People
                 /\ k.delivered = Cardinality(Now(c, "delivered")')
                 /\ k.failed = Cardinality(Now(c, "failed")')
      <4>1. c # b /\ k \in Counted[c]
        BY <2>2, <2>3, <3>2
      <4> QED
        BY <2>6, <4>1 DEF MailFacts
    <3> QED
      BY <2>2, <2>4, <3>1, <3>2 DEF MailFacts
  <2>9. OutcomesKept
    BY <2>2, <2>4, <2>5, <2>6, <2>7 DEF OutcomesKept
  <2> QED
    BY <2>8, <2>9
<1>4. ASSUME NEW b \in Broadcasts, Promise!Report(b)
      PROVE  MailFacts' /\ OutcomesKept
  <2>1. Outcome' = Outcome /\ Counted[b] = {}
        /\ Now(b, "waiting") = {} /\ Now(b, "out") # People
    BY <1>4 DEF Promise!Report, Promise!With, Now
  <2>2. Counted' = [Counted EXCEPT ![b] = {[delivered |-> Cardinality(Now(b, "delivered")),
                                            failed |-> Cardinality(Now(b, "failed"))]}]
    BY <1>4, SameCardinality DEF Promise!Report, Promise!With, Now
  <2>3. \A c \in Broadcasts, g \in Group : Now(c, g)' = Now(c, g)
    BY <2>1, SameNow
  <2>4. MailFacts'
    BY <2>1, <2>2, <2>3 DEF MailFacts
  <2>5. OutcomesKept
    BY <2>1, <2>2, <2>3 DEF OutcomesKept, MailFacts
  <2> QED
    BY <2>4, <2>5
<1> QED
  BY <1>1, <1>2, <1>3, <1>4 DEF Promise!MailingNext

\* Nothing is recorded at first.
LEMMA MailFactsInit == Promise!MailingInit => MailFacts
  BY DEF Promise!MailingInit, MailFacts

\* The counts add up to the people a broadcast went to.
AddUp ==
    \A b \in Broadcasts : \A c \in Counted[b] :
        c.delivered + c.failed = Cardinality(People \ Now(b, "out"))

\* They do, as nobody is delivered to who failed, and nobody waits.
LEMMA CountsAddUp == MailFacts => AddUp
<1> SUFFICES ASSUME MailFacts, NEW b \in Broadcasts, NEW c \in Counted[b]
             PROVE  c.delivered + c.failed = Cardinality(People \ Now(b, "out"))
  BY DEF AddUp
<1> DEFINE S == Now(b, "delivered")
           T == Now(b, "failed")
<1>1. S \cup T = People \ Now(b, "out") /\ S \cap T = {}
  <2>1. Outcome[b] \in [People -> {"out", "waiting", "delivered", "failed"}]
    BY DEF MailFacts
  <2>2. \A p \in People : Outcome[b][p] # "waiting"
    BY DEF MailFacts, Now
  <2> QED
    BY <2>1, <2>2 DEF Now
<1>2. S \subseteq People /\ T \subseteq People
  BY DEF Now
<1>3. IsFiniteSet(S) /\ IsFiniteSet(T)
  BY <1>2, NewsletterParameters, FS_Subset, Zenon
<1>4. Cardinality(S) \in Nat /\ Cardinality(T) \in Nat
  BY <1>3, FS_CardinalityType, Zenon
<1>5. Cardinality(S \cup T) = Cardinality(S) + Cardinality(T) - Cardinality(S \cap T)
  BY <1>3, FS_Union, Zenon
<1>6. Cardinality({}) = 0
  BY FS_EmptySet
<1>7. c.delivered = Cardinality(S) /\ c.failed = Cardinality(T)
  BY DEF MailFacts
<1> HIDE DEF S, T
<1>8. PICK m \in Nat, n \in Nat : m = Cardinality(S) /\ n = Cardinality(T)
  BY <1>4
<1>9. Cardinality(S \cup T) = m + n - 0
  BY <1>1, <1>5, <1>6, <1>8
<1>10. m + n - 0 = m + n
  BY SMT
<1> QED
  BY <1>1, <1>7, <1>8, <1>9, <1>10

\* However batches fail and whoever leaves meanwhile, a broadcast that has a record left nobody
\* waiting, and its counts add up to the people it went to.
THEOREM RecordsAddUp == Spec => [](MailFacts /\ AddUp)
<1>1. MailFacts /\ [Promise!MailingNext]_(Promise!mailingVars) => MailFacts'
  BY MailFactsStep
<1>2. Promise!MailingInit /\ [][Promise!MailingNext]_(Promise!mailingVars) => []MailFacts
  BY <1>1, MailFactsInit, PTL
<1>3. ImplementsMailing => Promise!MailingInit /\ [][Promise!MailingNext]_(Promise!mailingVars)
  BY DEF ImplementsMailing, Promise!MailingSpec
<1> QED
  BY <1>2, <1>3, CountsAddUp, Implements, PTL

\* No step tries anybody twice, adds anybody to a broadcast that has begun, or takes a record back.
THEOREM OutcomesStay == Spec => [][OutcomesKept]_(Promise!mailingVars)
<1>1. MailFacts /\ [Promise!MailingNext]_(Promise!mailingVars) => OutcomesKept
  BY MailFactsStep
<1>2. ImplementsMailing => Promise!MailingInit /\ [][Promise!MailingNext]_(Promise!mailingVars)
  BY DEF ImplementsMailing, Promise!MailingSpec
<1> QED
  BY <1>1, <1>2, RecordsAddUp, Implements, PTL

=============================================================================
