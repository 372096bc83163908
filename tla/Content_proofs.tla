--------------------------- MODULE Content_proofs ---------------------------
(***************************************************************************)
(* Content is well typed, rows name files the store has, no file is lost   *)
(* without a failure or an overlap, and questions keep their category, for *)
(* any number of rows, files, requests and photos.                         *)
(*                                                                         *)
(* The last section is about HomeReport: a report speaks of its entrance,  *)
(* and what a response opens of it is there.                               *)
(***************************************************************************)
EXTENDS Content, HomeReport, FiniteSetTheorems, TLAPS

\* What a request will do is fixed by its kind: only a creation starts without old files, only a
\* request with new files deletes the old ones of a row it keeps, pages have no files.
JobSound(j) ==
    LET d == job[j]
    IN  /\ d.pc = "idle" => d = Idle
        /\ d.pc # "idle" => d.row \in Rows
        /\ d.op = "create" => d.old = {} /\ d.pc # "drop"
        /\ d.op \in {"delete", "erase"} => d.wants = 0
        /\ d.op = "erase" => d.row \in People
        /\ d.pc = "drop" /\ d.op = "update" => d.wants > 0
        /\ d.wants = 0 \/ d.pc # "write" => d.new = {}
        /\ d.row \in Pages => d.old = {} /\ d.wants = 0 /\ ~ d.link

\* What is absent, deleted or a page has no files.
RowSound(r) == ~ Kept(r) \/ r \in Pages => row[r].files = {}

\* A number that has not been given out is nobody's.
Numbered ==
    /\ \A f \in stored : f <= uploads
    /\ \A r \in Rows : \A f \in row[r].files : f <= uploads
    /\ \A j \in Jobs : \A f \in job[j].old \cup job[j].new : f <= uploads

\* A file belongs to one row: it is named by that row, was read by requests on it, or was
\* uploaded by one request, which alone knows it.
Apart ==
    /\ \A r, s \in Rows : r # s => row[r].files \cap row[s].files = {}
    /\ \A j \in Jobs : \A r \in Rows :
         /\ r # job[j].row => job[j].old \cap row[r].files = {}
         /\ job[j].new \cap row[r].files = {}
    /\ \A i, j \in Jobs : /\ job[j].new \cap job[i].old = {}
                          /\ i # j => job[j].new \cap job[i].new = {}
    /\ \A j \in Jobs : job[j].new \subseteq stored

\* The request has deleted the files it read, and will overwrite or delete their row.
Dropped(j) == job[j].pc \in {"upload", "write"} /\ (job[j].op # "update" \/ job[j].wants > 0)

\* A file that a row names is missing only while a request that has deleted it goes on.
Served ==
    \A r \in Rows \ broken : \A f \in row[r].files :
        f \in stored \/ \E j \in Jobs : Dropped(j) /\ job[j].row = r /\ f \in job[j].old

\* As long as nothing fails and nothing overlaps, a request knows all the files of its row, and
\* what it knows besides is not in the store or was let go.
Accounted ==
    broken = {} /\ crossed = {} =>
      /\ \A f \in stored : \/ f \in loose
                           \/ \E r \in Rows : f \in row[r].files
                           \/ \E j \in Jobs : f \in job[j].new
      /\ \A i, j \in Working : i # j => job[i].row # job[j].row
      /\ \A j \in Working : \A r \in Rows : job[j].row = r =>
           /\ row[r].files \subseteq job[j].old
           /\ job[j].old \cap stored \subseteq row[r].files \cup loose
           /\ Dropped(j) => job[j].old \cap stored = {}

IInv ==
    /\ TypeOK
    /\ \A j \in Jobs : JobSound(j)
    /\ \A r \in Rows : RowSound(r)
    /\ Numbered
    /\ Apart
    /\ Served
    /\ Accounted
    /\ QuestionsFiled

-----------------------------------------------------------------------------
(* Facts about single records.                                              *)

\* The idle request and the row without files.
LEMMA FirstRecords ==
  /\ Idle \in Job /\ Idle.pc = "idle" /\ Idle.op = "none" /\ Idle.row = None /\ Idle.wants = 0
  /\ Idle.old = {} /\ Idle.new = {} /\ Idle.link = FALSE
  /\ {} \in SUBSET Files
BY Parameters DEF Idle, Job, Files

\* The tables a row is in are told apart where it matters.
LEMMA OneTable ==
  /\ Pages \cap (Faqs \cup Insights \cup Categories \cup People \cup Reports) = {}
  /\ Categories \cap (People \cup Reports) = {}
  /\ People \cap Reports = {}
<1> DEFINE table == <<Faqs, Insights, Categories, Pages, People, Reports>>
<1>1. \A k, l \in 1..6 : k # l => table[k] \cap table[l] = {}
  BY Parameters
<1>2. /\ table[1] = Faqs /\ table[2] = Insights /\ table[3] = Categories
      /\ table[4] = Pages /\ table[5] = People /\ table[6] = Reports
  OBVIOUS
<1>3. /\ table[4] \cap table[1] = {} /\ table[4] \cap table[2] = {} /\ table[4] \cap table[3] = {}
      /\ table[4] \cap table[5] = {} /\ table[4] \cap table[6] = {}
      /\ table[3] \cap table[5] = {} /\ table[3] \cap table[6] = {} /\ table[5] \cap table[6] = {}
  BY <1>1
<1> HIDE DEF table
<1> QED
  BY <1>2, <1>3

\* The rows are those of the six tables.
LEMMA AllRows ==
  Rows = Faqs \cup Insights \cup Categories \cup Pages \cup People \cup Reports
BY DEF Rows, Tables

\* A row is in its table.
LEMMA OwnTable ==
  ASSUME NEW r \in Rows
  PROVE  Table(r) \in Tables /\ r \in Table(r) /\ Table(r) \subseteq Rows
<1>1. PICK t \in Tables : r \in t
  BY DEF Rows
<1>2. Table(r) \in Tables /\ r \in Table(r)
  BY <1>1 DEF Table
<1> QED
  BY <1>2 DEF Rows

-----------------------------------------------------------------------------
(* A request begins.                                                        *)

\* The plan of a request on r that has been checked.
PlanSound(d, r) ==
    /\ d \in Job /\ d.row = r /\ d.pc # "idle" /\ d.new = {}
    /\ d.op = "create" => d.old = {} /\ ~ Kept(r) /\ d.pc # "drop"
    /\ d.op # "create" => d.old = row[r].files
    /\ d.op \in {"delete", "erase"} => d.wants = 0
    /\ d.op = "erase" => r \in People
    /\ d.pc = "drop" /\ d.op = "update" => d.wants > 0
    /\ d.pc # "drop" /\ (d.op # "update" \/ d.wants > 0) => d.old = {}
    /\ r \in Pages => d.wants = 0 /\ ~ d.link

\* A creation uploads its files and reads none.
LEMMA CreationSound ==
  ASSUME NEW r \in Rows, NEW name \in Names \cup {None}, NEW n \in 0..MaxPhotos,
         Fresh(r), r \in Pages => n = 0
  PROVE  PlanSound(Creation(r, name, n), r)
<1> DEFINE d == Creation(r, name, n)
<1>1. PICK p \in {"upload", "write"}, o \in {"create"} :
         /\ p = IF n = 0 THEN "write" ELSE "upload"
         /\ o = "create"
         /\ d = [Idle EXCEPT !.pc = p, !.op = o, !.row = r, !.name = name, !.wants = n]
  BY DEF Creation
<1>2. d \in Job
  BY <1>1, FirstRecords DEF Job
<1>3. /\ d.pc = p /\ d.op = o /\ d.row = r /\ d.old = {} /\ d.wants = n /\ d.new = {}
      /\ d.link = FALSE
  BY <1>1, FirstRecords DEF Job
<1> HIDE DEF d
<1>4. ~ Kept(r)
  BY DEF Fresh, Kept
<1> QED
  BY <1>1, <1>2, <1>3, <1>4 DEF PlanSound, d

\* A change with a new file first deletes those it has read.
LEMMA ChangeSound ==
  ASSUME TypeOK, NEW r \in Rows, NEW name \in Names \cup {None}, NEW n \in 0..MaxPhotos,
         r \in Pages => n = 0
  PROVE  /\ PlanSound(Change(r, name, n), r)
         /\ r \notin Pages => \A link \in BOOLEAN :
              PlanSound([Change(r, name, n) EXCEPT !.link = link], r)
<1> DEFINE d == Change(r, name, n)
<1>1. row[r].name \in Names \cup {None} /\ row[r].files \in SUBSET Files
  BY DEF TypeOK, Row
<1>2. PICK p \in {"drop", "upload", "write"}, o \in {"update"} :
         /\ p = IF n = 0 THEN "write" ELSE IF row[r].files = {} THEN "upload" ELSE "drop"
         /\ o = "update"
         /\ d = [Idle EXCEPT !.pc = p, !.op = o, !.row = r, !.name = name, !.slug = row[r].name,
                             !.old = row[r].files, !.wants = n]
  BY DEF Change
<1>3. d \in Job
  BY <1>1, <1>2, FirstRecords DEF Job
<1>4. /\ d.pc = p /\ d.op = o /\ d.row = r /\ d.old = row[r].files /\ d.wants = n /\ d.new = {}
      /\ d.link = FALSE
  BY <1>2, FirstRecords DEF Job
<1> HIDE DEF d
<1>5. PlanSound(d, r)
  BY <1>2, <1>3, <1>4 DEF PlanSound
<1>6. ASSUME r \notin Pages, NEW link \in BOOLEAN
      PROVE  PlanSound([d EXCEPT !.link = link], r)
  <2> DEFINE e == [d EXCEPT !.link = link]
  <2>1. e \in Job
    BY <1>3 DEF Job
  <2>2. /\ e.pc = p /\ e.op = o /\ e.row = r /\ e.old = row[r].files /\ e.wants = n
        /\ e.new = {}
    BY <1>3, <1>4 DEF Job
  <2> HIDE DEF e
  <2> QED
    BY <1>2, <1>6, <2>1, <2>2 DEF PlanSound, e
<1> QED
  BY <1>5, <1>6 DEF d

\* A deletion first deletes the files it has read.
LEMMA DeletionSound ==
  ASSUME TypeOK, NEW r \in Rows
  PROVE  /\ PlanSound(Deletion(r), r)
         /\ r \in People => PlanSound([Deletion(r) EXCEPT !.op = "erase"], r)
<1>1. row[r].name \in Names \cup {None} /\ row[r].files \in SUBSET Files
  BY DEF TypeOK, Row
<1> DEFINE e(o) == [Deletion(r) EXCEPT !.op = o]
<1>2. PICK p \in {"drop", "write"}, q \in {"delete"} :
         /\ p = IF row[r].files = {} THEN "write" ELSE "drop"
         /\ q = "delete"
         /\ Deletion(r) = [Idle EXCEPT !.pc = p, !.op = q, !.row = r, !.slug = row[r].name,
                                       !.old = row[r].files]
  BY DEF Deletion
<1>3. Deletion(r) \in Job /\ Deletion(r).op = q
  BY <1>1, <1>2, FirstRecords DEF Job
<1>4. Deletion(r) = e("delete")
  BY <1>2, <1>3 DEF Job
<1>5. ASSUME NEW o \in {"delete", "erase"}, o = "erase" => r \in People
      PROVE  PlanSound(e(o), r)
  <2>1. e(o) \in Job
    BY <1>3 DEF Job
  <2>2. /\ e(o).pc = p /\ e(o).op = o /\ e(o).row = r /\ e(o).old = row[r].files
        /\ e(o).wants = 0 /\ e(o).new = {} /\ e(o).link = FALSE
    BY <1>1, <1>2, FirstRecords DEF Job
  <2> HIDE DEF e
  <2> QED
    BY <1>2, <1>5, <2>1, <2>2 DEF PlanSound
<1> QED
  BY <1>4, <1>5

\* What a request may know when it begins: the files its row names.
LEMMA PlanKnows ==
  ASSUME IInv, NEW r \in Rows, NEW d, PlanSound(d, r)
  PROVE  d.old \subseteq row[r].files /\ row[r].files \subseteq d.old
BY DEF PlanSound, IInv, RowSound

\* A request begins.
LEMMA BeginInv ==
  ASSUME IInv, NEW j \in Jobs, NEW r \in Rows, NEW d, PlanSound(d, r), Begin(j, r, d)
  PROVE  IInv'
<1> USE DEF Working
<1>1. /\ TypeOK /\ job[j].pc = "idle" /\ job[j] = Idle
      /\ requests' \in 0..MaxRequests /\ job' = [job EXCEPT ![j] = d]
      /\ UNCHANGED <<row, category, stored, uploads, broken, loose>>
  BY Parameters DEF IInv, TypeOK, Begin, JobSound
<1>2. \A i \in Jobs : job'[i] = IF i = j THEN d ELSE job[i]
  BY <1>1 DEF TypeOK
<1>3. d \in Job /\ d.row = r /\ d.pc # "idle" /\ d.new = {} /\ d.old = row[r].files
  BY PlanKnows DEF PlanSound
<1>4. TypeOK'
  <2>1. Table(r) \subseteq Rows
    BY OwnTable
  <2>2. crossed' \subseteq Rows
    BY <2>1 DEF Begin, IInv, TypeOK
  <2> QED
    BY <1>1, <1>3, <2>2 DEF TypeOK
<1>5. ASSUME NEW i \in Jobs PROVE JobSound(i)'
  <2>1. JobSound(i)
    BY DEF IInv
  <2>2. r \in Pages => d.old = {}
    BY <1>3 DEF IInv, RowSound
  <2>3. CASE i = j
    BY <1>2, <1>3, <2>2, <2>3 DEF JobSound, PlanSound
  <2>4. CASE i # j
    BY <1>2, <2>1, <2>4 DEF JobSound
  <2> QED
    BY <2>3, <2>4
<1>6. ASSUME NEW s \in Rows PROVE RowSound(s)'
  BY <1>1 DEF IInv, RowSound, Kept
<1>7. Numbered'
  <2>1. Numbered
    BY DEF IInv
  <2> QED
    BY <1>1, <1>2, <1>3, <2>1 DEF Numbered
<1>8. Apart'
  <2>1. Apart
    BY DEF IInv
  <2> QED
    BY <1>1, <1>2, <1>3, <2>1 DEF Apart
<1>9. Served'
  <2>1. Served
    BY DEF IInv
  <2>2. ~ Dropped(j)
    BY <1>1 DEF Dropped
  <2>3. \A i \in Jobs : i # j => Dropped(i)' = Dropped(i)
    BY <1>2 DEF Dropped
  <2> QED
    BY <1>1, <1>2, <2>1, <2>2, <2>3 DEF Served
<1>10. Accounted'
  <2>1. SUFFICES ASSUME broken' = {}, crossed' = {}
                 PROVE  Accounted'
    BY DEF Accounted
  <2>2. broken = {} /\ crossed = {} /\ {i \in Working : job[i].row \in Table(r)} = {}
    BY <1>1, <2>1 DEF Begin
  <2>3. \A i \in Working : job[i].row # r
    BY <2>2, OwnTable
  <2>4. Working' = Working \cup {j}
    BY <1>2, <1>3
  <2>5. /\ \A f \in stored : \/ f \in loose
                             \/ \E s \in Rows : f \in row[s].files
                             \/ \E i \in Jobs : f \in job[i].new
        /\ \A i, k \in Working : i # k => job[i].row # job[k].row
        /\ \A k \in Working : \A s \in Rows : job[k].row = s =>
             /\ row[s].files \subseteq job[k].old
             /\ job[k].old \cap stored \subseteq row[s].files \cup loose
             /\ Dropped(k) => job[k].old \cap stored = {}
    BY <2>2 DEF IInv, Accounted
  <2>6. \A i \in Jobs : i # j => Dropped(i)' = Dropped(i)
    BY <1>2 DEF Dropped
  <2>7. Dropped(j)' => d.old = {}
    BY <1>2, <1>3 DEF Dropped, PlanSound
  <2>8. job[j].new = {}
    BY <1>1, FirstRecords
  <2>9. \A i, k \in Working' : i # k => job'[i].row # job'[k].row
    BY <1>2, <1>3, <2>3, <2>4, <2>5
  <2>10. ASSUME NEW k \in Working', NEW s \in Rows, job'[k].row = s
         PROVE  /\ row[s].files \subseteq job'[k].old
                /\ job'[k].old \cap stored \subseteq row[s].files \cup loose
                /\ Dropped(k)' => job'[k].old \cap stored = {}
    <3>1. CASE k = j
      BY <1>2, <1>3, <2>7, <2>10, <3>1
    <3>2. CASE k # j
      BY <1>2, <2>4, <2>5, <2>6, <2>10, <3>2
    <3> QED
      BY <3>1, <3>2
  <2>11. ASSUME NEW f \in stored
         PROVE  \/ f \in loose
                \/ \E s \in Rows : f \in row[s].files
                \/ \E i \in Jobs : f \in job'[i].new
    BY <1>2, <2>5, <2>8
  <2> QED
    BY <1>1, <2>9, <2>10, <2>11 DEF Accounted
<1>11. QuestionsFiled'
  BY <1>1 DEF IInv, QuestionsFiled, Kept
<1> QED
  BY <1>4, <1>5, <1>6, <1>7, <1>8, <1>9, <1>10, <1>11 DEF IInv

\* The checked requests begin with such a plan.
LEMMA CreationsInv ==
  ASSUME IInv, NEW j \in Jobs, Creations(j)
  PROVE  IInv'
<1>1. 1 \in 0..MaxPhotos /\ 0 \in 0..MaxPhotos
  BY Parameters
<1>2. ASSUME NEW r \in Rows, NEW name \in Names \cup {None}, NEW n \in 0..MaxPhotos, Fresh(r),
             r \in Pages => n = 0, Begin(j, r, Creation(r, name, n))
      PROVE  IInv'
  BY <1>2, CreationSound, BeginInv
<1>3. ASSUME NEW r \in Faqs, NEW name \in Names, CreateFaq(j, r, name) PROVE IInv'
  BY <1>1, <1>2, <1>3, AllRows, OneTable DEF CreateFaq
<1>4. ASSUME NEW r \in Insights, NEW name \in Names, NEW n \in 0..1, CreateInsight(j, r, name, n)
      PROVE  IInv'
  BY <1>1, <1>2, <1>4, AllRows, OneTable DEF CreateInsight
<1>5. ASSUME NEW r \in Categories, NEW name \in Names, NEW n \in 0..1, CreateCategory(j, r, name, n)
      PROVE  IInv'
  BY <1>1, <1>2, <1>5, AllRows, OneTable DEF CreateCategory
<1>6. ASSUME NEW r \in Pages, NEW name \in Names, CreatePage(j, r, name) PROVE IInv'
  BY <1>1, <1>2, <1>6, AllRows DEF CreatePage
<1>7. ASSUME NEW r \in Reports, NEW n \in 0..MaxPhotos, SubmitReport(j, r, n) PROVE IInv'
  BY <1>2, <1>7, AllRows, OneTable DEF SubmitReport
<1> QED
  BY <1>3, <1>4, <1>5, <1>6, <1>7 DEF Creations

\* So do changes.
LEMMA ChangesInv ==
  ASSUME IInv, NEW j \in Jobs, Changes(j)
  PROVE  IInv'
<1>1. TypeOK /\ \A n \in 0..1 : n \in 0..MaxPhotos
  BY Parameters DEF IInv
<1>2. ASSUME NEW r \in Rows, NEW name \in Names \cup {None}, NEW n \in 0..MaxPhotos,
             r \in Pages => n = 0, Begin(j, r, Change(r, name, n))
      PROVE  IInv'
  BY <1>1, <1>2, ChangeSound, BeginInv
<1>3. ASSUME NEW r \in Faqs, NEW name \in Optional, NEW n \in 0..1, UpdateFaq(j, r, name, n)
      PROVE  IInv'
  BY <1>1, <1>2, <1>3, AllRows, OneTable DEF UpdateFaq, Optional
<1>4. ASSUME NEW r \in Insights, NEW name \in Optional, NEW n \in 0..1,
             UpdateInsight(j, r, name, n)
      PROVE  IInv'
  BY <1>1, <1>2, <1>4, AllRows, OneTable DEF UpdateInsight, Optional
<1>5. ASSUME NEW r \in Categories, NEW name \in Optional, NEW n \in 0..1, NEW link \in BOOLEAN,
             UpdateCategory(j, r, name, n, link)
      PROVE  IInv'
  <2>1. r \in Rows /\ r \notin Pages /\ (link /\ n = 0) \in BOOLEAN
    BY AllRows, OneTable
  <2>2. PlanSound([Change(r, name, n) EXCEPT !.link = link /\ n = 0], r)
    BY <1>1, <2>1, ChangeSound DEF Optional
  <2> QED
    BY <1>5, <2>1, <2>2, BeginInv DEF UpdateCategory
<1>6. ASSUME NEW r \in Pages, NEW name \in Names, UpdatePage(j, r, name) PROVE IInv'
  BY <1>1, <1>2, <1>6, AllRows DEF UpdatePage
<1>7. ASSUME NEW r \in People, NEW n \in 0..1, UpdateUser(j, r, n) \/ UpdateAdmin(j, r, n)
      PROVE  IInv'
  BY <1>1, <1>2, <1>7, AllRows, OneTable DEF UpdateUser, UpdateAdmin
<1> QED
  BY <1>3, <1>4, <1>5, <1>6, <1>7, Parameters DEF Changes

\* And deletions.
LEMMA DeletionsInv ==
  ASSUME IInv, NEW j \in Jobs, Deletions(j)
  PROVE  IInv'
<1>1. ASSUME NEW r \in Rows, Begin(j, r, Deletion(r)) PROVE IInv'
  BY <1>1, DeletionSound, BeginInv DEF IInv
<1>2. ASSUME NEW r \in People, EraseAccount(j, r) PROVE IInv'
  BY <1>2, AllRows, DeletionSound, BeginInv DEF EraseAccount, IInv
<1> QED
  BY <1>1, <1>2, AllRows
     DEF Deletions, DeleteFaq, DeleteInsight, DeleteCategory, DeletePage, DeleteUser, DeleteReport

-----------------------------------------------------------------------------
(* A request goes on or ends.                                               *)

\* What the others see of one request that goes on.
LEMMA Others ==
  ASSUME TypeOK, NEW j \in Jobs, NEW e \in Job, job' = [job EXCEPT ![j] = e]
  PROVE  /\ job' \in [Jobs -> Job]
         /\ \A i \in Jobs : /\ job'[i] = IF i = j THEN e ELSE job[i]
                            /\ i # j => Dropped(i)' = Dropped(i) /\ JobSound(i)' = JobSound(i)
         /\ Working' \ {j} = Working \ {j}
<1>1. job' \in [Jobs -> Job] /\ \A i \in Jobs : job'[i] = IF i = j THEN e ELSE job[i]
  BY DEF TypeOK
<1>2. ASSUME NEW i \in Jobs, i # j
      PROVE  Dropped(i)' = Dropped(i) /\ JobSound(i)' = JobSound(i)
  BY <1>1, <1>2 DEF Dropped, JobSound
<1> QED
  BY <1>1, <1>2 DEF Working

\* What is left of a request that ends.
LEMMA Ended ==
  ASSUME IInv, NEW j \in Jobs, Stop(j)
  PROVE  /\ job' \in [Jobs -> Job]
         /\ \A i \in Jobs : /\ job'[i] = IF i = j THEN Idle ELSE job[i]
                            /\ i # j => Dropped(i)' = Dropped(i)
                            /\ JobSound(i)'
         /\ Working' = Working \ {j}
         /\ ~ Dropped(j)' /\ job'[j].old = {} /\ job'[j].new = {}
<1>1. TypeOK /\ job' = [job EXCEPT ![j] = Idle]
  BY DEF IInv, Stop
<1>2. /\ job' \in [Jobs -> Job]
      /\ \A i \in Jobs : /\ job'[i] = IF i = j THEN Idle ELSE job[i]
                         /\ i # j => Dropped(i)' = Dropped(i) /\ JobSound(i)' = JobSound(i)
      /\ Working' \ {j} = Working \ {j}
  BY <1>1, FirstRecords, Others
<1>3. ~ Dropped(j)' /\ job'[j].old = {} /\ job'[j].new = {} /\ j \notin Working'
  BY <1>2, FirstRecords DEF Dropped, Working
<1>4. JobSound(j)'
  BY <1>2, FirstRecords DEF JobSound
<1> QED
  BY <1>2, <1>3, <1>4 DEF IInv

\* A request fails: what it has uploaded stays, of what it has read some may be deleted.
LEMMA FailInv ==
  ASSUME IInv, NEW j \in Jobs, job[j].pc # "idle", Stop(j), Fails(j),
         UNCHANGED <<row, category, requests, crossed, loose>>,
         uploads' \in uploads..MaxUploads, stored' \in SUBSET Files,
         stored \ job[j].old \subseteq stored', \A f \in stored' : f <= uploads'
  PROVE  IInv'
<1>1. /\ \A i \in Jobs : /\ job'[i] = IF i = j THEN Idle ELSE job[i]
                         /\ i # j => Dropped(i)' = Dropped(i)
                         /\ JobSound(i)'
      /\ job' \in [Jobs -> Job] /\ job'[j].old = {} /\ job'[j].new = {}
  BY Ended
<1>2. TypeOK /\ Numbered /\ Apart /\ Served /\ JobSound(j)
  BY DEF IInv
<1>3. job[j].row \in Rows /\ broken' = broken \cup {job[j].row}
  BY <1>2 DEF Fails, JobSound
<1>4. uploads \in 0..MaxUploads /\ uploads' \in 0..MaxUploads /\ uploads <= uploads'
  BY <1>2, Parameters DEF TypeOK
<1>5. TypeOK'
  BY <1>1, <1>2, <1>3, <1>4 DEF TypeOK
<1>6. ASSUME NEW s \in Rows PROVE RowSound(s)'
  BY DEF IInv, RowSound, Kept
<1>7. Numbered'
  <2>1. /\ \A s \in Rows : row[s].files \subseteq Files
        /\ \A i \in Jobs : job[i].old \subseteq Files /\ job[i].new \subseteq Files
    BY <1>2 DEF TypeOK, Row, Job
  <2>2. \A f \in Files : f <= uploads => f <= uploads'
    BY <1>4, Parameters DEF Files
  <2> QED
    BY <1>1, <1>2, <2>1, <2>2 DEF Numbered
<1>8. Apart'
  BY <1>1, <1>2 DEF Apart
<1>9. Served'
  BY <1>1, <1>2, <1>3 DEF Served, Apart
<1>10. Accounted'
  BY <1>3 DEF Accounted
<1>11. QuestionsFiled'
  BY DEF IInv, QuestionsFiled, Kept
<1> QED
  BY <1>1, <1>5, <1>6, <1>7, <1>8, <1>9, <1>10, <1>11 DEF IInv

\* A call fails, or the process stops.
LEMMA JobFailsInv ==
  ASSUME IInv, NEW j \in Jobs, JobFails(j)
  PROVE  IInv'
<1>1. /\ TypeOK /\ uploads \in uploads..MaxUploads /\ stored \in SUBSET Files
      /\ \A f \in stored : f <= uploads
  BY Parameters DEF IInv, TypeOK, Numbered
<1> QED
  BY <1>1, FailInv DEF JobFails

\* The old files are deleted, which makes no row that is served name a missing one.
LEMMA DropInv ==
  ASSUME IInv, NEW j \in Jobs, Drop(j)
  PROVE  IInv'
<1>1. PICK failing \in SUBSET job[j].old :
        /\ stored' = stored \ (job[j].old \ failing)
        /\ IF failing = {} THEN UNCHANGED broken ELSE Fails(j)
        /\ IF failing # {} /\ job[j].row \in People /\ job[j].op # "erase"
           THEN Stop(j)
           ELSE job' = [job EXCEPT ![j].pc = IF job[j].op = "update" THEN "upload" ELSE "write"]
  BY DEF Drop
<1>2. /\ job[j].pc = "drop"
      /\ UNCHANGED <<row, category, uploads, requests, crossed, loose>>
  BY DEF Drop
<1>3. TypeOK /\ Numbered /\ Apart /\ Served /\ Accounted /\ JobSound(j)
  BY DEF IInv
<1>4. /\ stored' \in SUBSET Files /\ stored' \subseteq stored
      /\ stored \ job[j].old \subseteq stored'
  BY <1>1, <1>3 DEF TypeOK
<1>5. CASE Stop(j) /\ Fails(j)
  <2>1. uploads \in uploads..MaxUploads /\ \A f \in stored' : f <= uploads
    BY <1>3, <1>4, Parameters DEF TypeOK, Numbered
  <2> QED
    BY <1>2, <1>4, <1>5, <2>1, FailInv
<1>6. CASE job' = [job EXCEPT ![j].pc = IF job[j].op = "update" THEN "upload" ELSE "write"]
  <2>1. PICK p \in {"upload", "write"} : p = IF job[j].op = "update" THEN "upload" ELSE "write"
    OBVIOUS
  <2> DEFINE e == [job[j] EXCEPT !.pc = p]
  <2>2. job[j] \in Job
    BY <1>3 DEF TypeOK
  <2>3. /\ e \in Job /\ e.pc = p /\ e.op = job[j].op /\ e.row = job[j].row /\ e.old = job[j].old
        /\ e.new = job[j].new /\ e.wants = job[j].wants /\ e.link = job[j].link
    BY <2>2 DEF Job
  <2>4. job' = [job EXCEPT ![j] = e]
    BY <1>6, <2>1
  <2> HIDE DEF e
  <2>5. /\ job' \in [Jobs -> Job]
        /\ \A i \in Jobs : /\ job'[i] = IF i = j THEN e ELSE job[i]
                           /\ i # j => Dropped(i)' = Dropped(i) /\ JobSound(i)' = JobSound(i)
        /\ Working' \ {j} = Working \ {j}
    BY <1>3, <2>3, <2>4, Others
  <2>6. \A i \in Jobs : /\ job'[i].old = job[i].old /\ job'[i].new = job[i].new
                        /\ job'[i].row = job[i].row
    BY <2>3, <2>5
  <2>7. job[j].row \in Rows /\ broken' \in SUBSET Rows /\ broken \subseteq broken'
    BY <1>1, <1>2, <1>3 DEF JobSound, Fails, TypeOK
  <2>8. TypeOK'
    BY <1>2, <1>3, <1>4, <2>5, <2>7 DEF TypeOK
  <2>9. JobSound(j)'
    BY <1>2, <1>3, <2>1, <2>3, <2>5 DEF JobSound
  <2>10. ASSUME NEW s \in Rows PROVE RowSound(s)'
    BY <1>2 DEF IInv, RowSound, Kept
  <2>11. Numbered'
    BY <1>2, <1>3, <1>4, <2>6 DEF Numbered
  <2>12. Apart'
    BY <1>2, <1>3, <1>4, <2>6 DEF Apart
  <2>13. Dropped(j)' /\ ~ Dropped(j)
    BY <1>2, <1>3, <2>1, <2>3, <2>5 DEF Dropped, JobSound
  <2>14. \A i \in Jobs : Dropped(i) => Dropped(i)'
    BY <2>5, <2>13
  <2>15. Served'
    <3>1. SUFFICES ASSUME NEW s \in Rows \ broken, NEW f \in row[s].files
                   PROVE  f \in stored' \/ \E i \in Jobs : /\ Dropped(i)' /\ job'[i].row = s
                                                           /\ f \in job'[i].old
      BY <1>2, <2>7 DEF Served
    <3>2. CASE f \in stored
      BY <1>3, <1>4, <2>6, <2>13, <3>2 DEF Apart
    <3>3. CASE \E i \in Jobs : Dropped(i) /\ job[i].row = s /\ f \in job[i].old
      BY <2>6, <2>14, <3>3
    <3> QED
      BY <1>3, <3>2, <3>3 DEF Served
  <2>16. Accounted'
    <3>1. SUFFICES ASSUME broken' = {}, crossed' = {} PROVE Accounted'
      BY DEF Accounted
    <3>2. stored' = stored \ job[j].old /\ broken = {} /\ crossed = {}
      BY <1>1, <1>2, <2>7, <3>1 DEF Fails
    <3>3. Working' = Working
      BY <1>2, <2>1, <2>3, <2>5 DEF Working
    <3>4. /\ \A f \in stored' :
               f \in loose \/ (\E s \in Rows : f \in row[s].files) \/ \E i \in Jobs : f \in job'[i].new
          /\ \A i, k \in Working : i # k => job'[i].row # job'[k].row
      BY <1>3, <2>6, <3>2 DEF Accounted, Working
    <3>5. ASSUME NEW k \in Working, NEW s \in Rows, job'[k].row = s
          PROVE  /\ row[s].files \subseteq job'[k].old
                 /\ job'[k].old \cap stored' \subseteq row[s].files \cup loose
                 /\ Dropped(k)' => job'[k].old \cap stored' = {}
      <4>1. k \in Jobs
        BY DEF Working
      <4>2. /\ row[s].files \subseteq job[k].old
            /\ job[k].old \cap stored \subseteq row[s].files \cup loose
            /\ Dropped(k) => job[k].old \cap stored = {}
        BY <1>3, <2>6, <3>2, <3>5, <4>1 DEF Accounted
      <4> QED
        BY <2>5, <2>6, <3>2, <4>1, <4>2
    <3> QED
      BY <1>2, <3>3, <3>4, <3>5 DEF Accounted
  <2>17. QuestionsFiled'
    BY <1>2 DEF IInv, QuestionsFiled, Kept
  <2> QED
    BY <2>5, <2>8, <2>9, <2>10, <2>11, <2>12, <2>15, <2>16, <2>17 DEF IInv
<1> QED
  BY <1>1, <1>5, <1>6

\* The new files are uploaded: their numbers are nobody's yet.
LEMMA UploadInv ==
  ASSUME IInv, NEW j \in Jobs, Upload(j)
  PROVE  IInv'
<1>1. PICK n \in 0..MaxPhotos :
        /\ n <= job[j].wants
        /\ uploads' = uploads + n
        /\ stored' = stored \cup (uploads + 1)..(uploads + n)
        /\ IF n = job[j].wants
           THEN /\ job' = [job EXCEPT ![j].pc = "write",
                                      ![j].new = (uploads + 1)..(uploads + n)]
                /\ UNCHANGED broken
           ELSE Stop(j) /\ Fails(j)
  BY DEF Upload
<1>2. /\ job[j].pc = "upload" /\ uploads + job[j].wants <= MaxUploads
      /\ UNCHANGED <<row, category, requests, crossed, loose>>
  BY DEF Upload
<1>3. TypeOK /\ Numbered /\ Apart /\ Served /\ Accounted /\ JobSound(j) /\ job[j] \in Job
  BY DEF IInv, TypeOK
<1> DEFINE added == (uploads + 1)..(uploads + n)
<1>4. /\ uploads \in 0..MaxUploads /\ n \in Nat /\ job[j].wants \in Nat
      /\ uploads' \in uploads..MaxUploads /\ uploads' \in 0..MaxUploads
  BY <1>1, <1>2, <1>3, Parameters DEF TypeOK, Job
<1>5. /\ added \in SUBSET Files /\ \A f \in added : f > uploads /\ f <= uploads'
      /\ n = 0 => added = {}
  BY <1>1, <1>2, <1>4, Parameters DEF Files
<1>6. stored' = stored \cup added
  BY <1>1
<1> HIDE DEF added
<1>7. /\ stored' \in SUBSET Files
      /\ \A f \in Files : f <= uploads => f <= uploads' /\ f \notin added
  BY <1>3, <1>4, <1>5, <1>6, Parameters DEF TypeOK, Files
<1>8. /\ stored \subseteq Files /\ \A s \in Rows : row[s].files \subseteq Files
      /\ \A i \in Jobs : job[i].old \subseteq Files /\ job[i].new \subseteq Files
  BY <1>3 DEF TypeOK, Row, Job
<1>9. \A f \in stored' : f <= uploads'
  BY <1>3, <1>5, <1>6, <1>7, <1>8 DEF Numbered
<1>10. CASE Stop(j) /\ Fails(j)
  BY <1>2, <1>4, <1>6, <1>7, <1>9, <1>10, FailInv
<1>11. CASE /\ n = job[j].wants /\ UNCHANGED broken
            /\ job' = [job EXCEPT ![j].pc = "write", ![j].new = added]
  <2>1. PICK p \in {"write"} : p = "write"
    OBVIOUS
  <2> DEFINE e == [job[j] EXCEPT !.pc = p, !.new = added]
  <2>2. /\ e \in Job /\ e.pc = p /\ e.op = job[j].op /\ e.row = job[j].row /\ e.old = job[j].old
        /\ e.new = added /\ e.wants = job[j].wants /\ e.link = job[j].link
    BY <1>3, <1>5 DEF Job
  <2>3. job' = [job EXCEPT ![j] = e]
    BY <1>11, <2>1
  <2> HIDE DEF e
  <2>4. /\ job' \in [Jobs -> Job]
        /\ \A i \in Jobs : /\ job'[i] = IF i = j THEN e ELSE job[i]
                           /\ i # j => Dropped(i)' = Dropped(i) /\ JobSound(i)' = JobSound(i)
        /\ Working' \ {j} = Working \ {j}
    BY <1>3, <2>2, <2>3, Others
  <2>5. /\ \A i \in Jobs : job'[i].old = job[i].old /\ job'[i].row = job[i].row
        /\ \A i \in Jobs : i # j => job'[i].new = job[i].new
        /\ job'[j].new = added
    BY <2>2, <2>4
  <2>6. TypeOK'
    BY <1>2, <1>3, <1>4, <1>7, <1>11, <2>4 DEF TypeOK
  <2>7. JobSound(j)'
    BY <1>2, <1>3, <1>5, <1>11, <2>1, <2>2, <2>4 DEF JobSound
  <2>8. ASSUME NEW s \in Rows PROVE RowSound(s)'
    BY <1>2 DEF IInv, RowSound, Kept
  <2>9. Numbered'
    <3>1. \A i \in Jobs : \A f \in job'[i].old \cup job'[i].new : f <= uploads'
      BY <1>3, <1>5, <1>7, <1>8, <2>5 DEF Numbered
    <3> QED
      BY <1>2, <1>3, <1>7, <1>8, <1>9, <3>1 DEF Numbered
  <2>10. Apart'
    <3>1. /\ \A s \in Rows : added \cap row[s].files = {}
          /\ \A i \in Jobs : added \cap job[i].old = {} /\ added \cap job[i].new = {}
      BY <1>3, <1>7, <1>8 DEF Numbered
    <3>2. /\ \A r, s \in Rows : r # s => row'[r].files \cap row'[s].files = {}
          /\ \A i \in Jobs : \A r \in Rows :
               /\ r # job'[i].row => job'[i].old \cap row'[r].files = {}
               /\ job'[i].new \cap row'[r].files = {}
      BY <1>2, <1>3, <2>5, <3>1 DEF Apart
    <3>3. \A i, k \in Jobs : /\ job'[k].new \cap job'[i].old = {}
                             /\ i # k => job'[k].new \cap job'[i].new = {}
      BY <1>3, <2>5, <3>1 DEF Apart
    <3>4. \A i \in Jobs : job'[i].new \subseteq stored'
      BY <1>3, <1>6, <2>5 DEF Apart
    <3> QED
      BY <3>2, <3>3, <3>4 DEF Apart
  <2>11. Dropped(j)' = Dropped(j)
    BY <1>2, <2>1, <2>2, <2>4 DEF Dropped
  <2>12. \A i \in Jobs : Dropped(i)' = Dropped(i)
    BY <2>4, <2>11
  <2>13. Served'
    <3>1. SUFFICES ASSUME NEW s \in Rows \ broken, NEW f \in row[s].files
                   PROVE  f \in stored' \/ \E i \in Jobs : /\ Dropped(i)' /\ job'[i].row = s
                                                           /\ f \in job'[i].old
      BY <1>2, <1>11 DEF Served
    <3>2. f \in stored \/ \E i \in Jobs : Dropped(i) /\ job[i].row = s /\ f \in job[i].old
      BY <1>3 DEF Served
    <3> QED
      BY <1>6, <2>5, <2>12, <3>2
  <2>14. Accounted'
    <3>1. SUFFICES ASSUME broken = {}, crossed = {} PROVE Accounted'
      BY <1>2, <1>11 DEF Accounted
    <3>2. Working' = Working
      BY <1>2, <2>1, <2>2, <2>4 DEF Working
    <3>3. job[j].new = {}
      BY <1>2, <1>3 DEF JobSound
    <3>4. ASSUME NEW f \in stored'
          PROVE  \/ f \in loose
                 \/ \E s \in Rows : f \in row[s].files
                 \/ \E i \in Jobs : f \in job'[i].new
      <4>1. CASE f \in added
        BY <2>5, <4>1
      <4>2. CASE f \in stored
        BY <1>3, <2>5, <3>1, <3>3, <4>2 DEF Accounted
      <4> QED
        BY <1>6, <4>1, <4>2
    <3>5. ASSUME NEW k \in Working, NEW s \in Rows, job'[k].row = s
          PROVE  /\ row[s].files \subseteq job'[k].old
                 /\ job'[k].old \cap stored' \subseteq row[s].files \cup loose
                 /\ Dropped(k)' => job'[k].old \cap stored' = {}
      <4>1. k \in Jobs
        BY DEF Working
      <4>2. /\ row[s].files \subseteq job[k].old
            /\ job[k].old \cap stored \subseteq row[s].files \cup loose
            /\ Dropped(k) => job[k].old \cap stored = {}
        BY <1>3, <2>5, <3>1, <3>5, <4>1 DEF Accounted
      <4>3. job[k].old \cap added = {}
        BY <1>3, <1>7, <1>8, <4>1 DEF Numbered
      <4> QED
        BY <1>6, <2>5, <2>12, <4>1, <4>2, <4>3
    <3>6. \A i, k \in Working : i # k => job'[i].row # job'[k].row
      BY <1>3, <2>5, <3>1 DEF Accounted, Working
    <3> QED
      BY <1>2, <3>2, <3>4, <3>5, <3>6 DEF Accounted
  <2>15. QuestionsFiled'
    BY <1>2 DEF IInv, QuestionsFiled, Kept
  <2> QED
    BY <2>4, <2>6, <2>7, <2>8, <2>9, <2>10, <2>13, <2>14, <2>15 DEF IInv
<1> QED
  BY <1>1, <1>10, <1>11 DEF added

-----------------------------------------------------------------------------
(* The tables.                                                              *)

\* A request ends with a write: no row names more than before, except that of the request, which
\* may name the files it has uploaded; what a row no longer names was deleted by the request or
\* is let go.
LEMMA WriteInv ==
  ASSUME IInv, NEW j \in Jobs, job[j].pc = "write", Stop(j),
         UNCHANGED <<category, stored, uploads, requests, broken, crossed>>,
         row' \in [Rows -> Row], loose' \in SUBSET Files, loose \subseteq loose',
         \A s \in Rows : RowSound(s)',
         \A s \in Rows : \/ row'[s].files \subseteq row[s].files
                         \/ s = job[j].row /\ row'[s].files = job[j].new,
         job[j].new \subseteq row'[job[j].row].files,
         Dropped(j) => row'[job[j].row].files = job[j].new,
         \A s \in Rows : \/ s = job[j].row /\ Dropped(j)
                         \/ row[s].files \subseteq row'[s].files \cup loose',
         \A c \in Categories : Kept(c) /\ Asked(c) => Kept(c)'
  PROVE  IInv'
<1>1. /\ \A i \in Jobs : /\ job'[i] = IF i = j THEN Idle ELSE job[i]
                         /\ i # j => Dropped(i)' = Dropped(i)
                         /\ JobSound(i)'
      /\ job' \in [Jobs -> Job] /\ job'[j].old = {} /\ job'[j].new = {}
      /\ Working' = Working \ {j}
  BY Ended
<1>2. TypeOK /\ Numbered /\ Apart /\ Served /\ Accounted /\ JobSound(j) /\ QuestionsFiled
  BY DEF IInv
<1>3. job[j].row \in Rows
  BY <1>2 DEF JobSound
<1> DEFINE r == job[j].row
<1>4. TypeOK'
  BY <1>1, <1>2 DEF TypeOK
<1>5. Numbered'
  <2>1. ASSUME NEW s \in Rows, NEW f \in row'[s].files PROVE f <= uploads
    BY <1>2, <2>1 DEF Numbered
  <2> QED
    BY <1>1, <1>2, <2>1 DEF Numbered
<1>6. Apart'
  <2>1. \A s \in Rows : \/ row'[s].files \subseteq row[s].files
                        \/ s = r /\ row'[s].files = job[j].new
    OBVIOUS
  <2>2. ASSUME NEW s \in Rows, NEW t \in Rows, s # t PROVE row'[s].files \cap row'[t].files = {}
    BY <1>2, <2>1, <2>2 DEF Apart
  <2>3. ASSUME NEW i \in Jobs, NEW s \in Rows
        PROVE  /\ s # job'[i].row => job'[i].old \cap row'[s].files = {}
               /\ job'[i].new \cap row'[s].files = {}
    <3>1. CASE i = j
      BY <1>1, <3>1
    <3>2. CASE i # j
      <4>1. job'[i] = job[i]
        BY <1>1, <3>2
      <4>2. /\ s # job[i].row => job[i].old \cap row[s].files = {}
            /\ job[i].new \cap row[s].files = {}
            /\ job[j].new \cap job[i].old = {} /\ job[j].new \cap job[i].new = {}
        BY <1>2, <3>2 DEF Apart
      <4> QED
        BY <2>1, <4>1, <4>2
    <3> QED
      BY <3>1, <3>2
  <2>4. \A i, k \in Jobs : /\ job'[k].new \cap job'[i].old = {}
                           /\ i # k => job'[k].new \cap job'[i].new = {}
    BY <1>1, <1>2 DEF Apart
  <2>5. \A i \in Jobs : job'[i].new \subseteq stored
    BY <1>1, <1>2 DEF Apart
  <2> QED
    BY <2>2, <2>3, <2>4, <2>5 DEF Apart
<1>7. Served'
  <2>1. SUFFICES ASSUME NEW s \in Rows \ broken, NEW f \in row'[s].files
                 PROVE  f \in stored \/ \E i \in Jobs : /\ Dropped(i)' /\ job'[i].row = s
                                                        /\ f \in job'[i].old
    BY DEF Served
  <2>2. job[j].new \subseteq stored
    BY <1>2 DEF Apart
  <2>3. CASE f \in job[j].new
    BY <2>2, <2>3
  <2>4. CASE f \notin job[j].new
    <3>1. f \in row[s].files /\ ~ (s = r /\ Dropped(j))
      BY <2>4
    <3>2. f \in stored \/ \E i \in Jobs : Dropped(i) /\ job[i].row = s /\ f \in job[i].old
      BY <1>2, <3>1 DEF Served
    <3> QED
      BY <1>1, <3>1, <3>2
  <2> QED
    BY <2>3, <2>4
<1>8. Accounted'
  <2>1. SUFFICES ASSUME broken = {}, crossed = {} PROVE Accounted'
    BY DEF Accounted
  <2>2. j \in Working /\ \A k \in Working : k # j => job[k].row # r
    BY <1>2, <2>1 DEF Accounted, Working
  <2>3. /\ row[r].files \subseteq job[j].old
        /\ Dropped(j) => job[j].old \cap stored = {}
    BY <1>2, <1>3, <2>1, <2>2 DEF Accounted
  <2>4. ASSUME NEW f \in stored
        PROVE  \/ f \in loose'
               \/ \E s \in Rows : f \in row'[s].files
               \/ \E i \in Jobs : f \in job'[i].new
    <3>1. \/ f \in loose
          \/ \E s \in Rows : f \in row[s].files
          \/ \E i \in Jobs : f \in job[i].new
      BY <1>2, <2>1, <2>4 DEF Accounted
    <3>2. CASE \E i \in Jobs : f \in job[i].new
      BY <1>1, <1>3, <3>2
    <3>3. CASE \E s \in Rows : f \in row[s].files
      BY <2>3, <2>4, <3>3
    <3> QED
      BY <3>1, <3>2, <3>3
  <2>5. ASSUME NEW k \in Working \ {j}, NEW s \in Rows, job'[k].row = s
        PROVE  /\ row'[s].files \subseteq job'[k].old
               /\ job'[k].old \cap stored \subseteq row'[s].files \cup loose'
               /\ Dropped(k)' => job'[k].old \cap stored = {}
    <3>1. k \in Jobs /\ job'[k] = job[k] /\ s # r /\ Dropped(k)' = Dropped(k)
      BY <1>1, <2>2, <2>5 DEF Working
    <3>2. /\ row[s].files \subseteq job[k].old
          /\ job[k].old \cap stored \subseteq row[s].files \cup loose
          /\ Dropped(k) => job[k].old \cap stored = {}
      BY <1>2, <2>1, <2>5, <3>1 DEF Accounted
    <3>3. row'[s].files \subseteq row[s].files /\ row[s].files \subseteq row'[s].files \cup loose'
      BY <3>1
    <3> QED
      BY <3>1, <3>2, <3>3
  <2>6. \A i, k \in Working \ {j} : i # k => job'[i].row # job'[k].row
    BY <1>1, <1>2, <2>1 DEF Accounted, Working
  <2> QED
    BY <1>1, <2>4, <2>5, <2>6 DEF Accounted
<1>9. QuestionsFiled'
  BY <1>2 DEF QuestionsFiled, Asked, TypeOK
<1> QED
  BY <1>1, <1>4, <1>5, <1>6, <1>7, <1>8, <1>9 DEF IInv

\* A row is inserted with its files.
LEMMA InsertInv ==
  ASSUME IInv, NEW j \in Jobs, Insert(j)
  PROVE  IInv'
<1> DEFINE r == job[j].row
<1>1. TypeOK /\ JobSound(j) /\ job[j] \in Job
  BY DEF IInv, TypeOK
<1>2. PICK k \in {"kept"} :
        row' = [row EXCEPT ![r] = [state |-> k, name |-> job[j].name, files |-> job[j].new]]
  BY DEF Insert
<1>3. /\ job[j].pc = "write" /\ job[j].op = "create" /\ Stop(j)
      /\ UNCHANGED <<category, stored, uploads, requests, broken, crossed, loose>>
      /\ r \in Rows
  BY <1>1 DEF Insert, JobSound
<1> DEFINE new == [state |-> k, name |-> job[j].name, files |-> job[j].new]
<1>4. new \in Row /\ new.files = job[j].new /\ new.state = "kept"
  BY <1>1 DEF Row, Job
<1> HIDE DEF new
<1>5. row' \in [Rows -> Row] /\ \A s \in Rows : row'[s] = IF s = r THEN new ELSE row[s]
  BY <1>1, <1>2, <1>3, <1>4 DEF TypeOK, new
<1>6. \A s \in Rows : RowSound(s)'
  <2>1. r \in Pages => job[j].new = {}
    BY <1>1 DEF JobSound
  <2> QED
    BY <1>3, <1>4, <1>5, <2>1 DEF IInv, RowSound, Kept
<1>8. Dropped(j)
  BY <1>3 DEF Dropped
<1>9. \A c \in Categories : Kept(c) => Kept(c)'
  BY <1>4, <1>5, AllRows DEF Kept
<1> QED
  BY <1>1, <1>3, <1>4, <1>5, <1>6, <1>8, <1>9, WriteInv DEF TypeOK

\* A row is updated.  The slug of a page may meanwhile be another page's, but pages have no files.
LEMMA UpdateInv ==
  ASSUME IInv, NEW j \in Jobs, Update(j)
  PROVE  IInv'
<1> DEFINE r == job[j].row
<1>1. TypeOK /\ JobSound(j) /\ job[j] \in Job
  BY DEF IInv, TypeOK
<1>2. PICK t \in Rows :
        /\ t \in Target(j) /\ Kept(t)
        /\ row' = [row EXCEPT ![t].name = IF job[j].name = None THEN @ ELSE job[j].name,
                              ![t].files = NewFiles(j, t)]
        /\ loose' = IF job[j].link THEN loose \cup row[t].files ELSE loose
  BY DEF Update
<1>3. /\ job[j].pc = "write" /\ job[j].op = "update" /\ Stop(j)
      /\ UNCHANGED <<category, stored, uploads, requests, broken, crossed>>
      /\ r \in Rows
  BY <1>1 DEF Update, JobSound
<1>4. \/ t = r /\ r \notin Pages
      \/ r \in Pages /\ t \in Pages /\ NewFiles(j, t) = row[t].files
  BY <1>1, <1>2, <1>3 DEF Target, Named, NewFiles, JobSound, Job
<1> DEFINE name == IF job[j].name = None THEN row[t].name ELSE job[j].name
           new  == [row[t] EXCEPT !.name = name, !.files = NewFiles(j, t)]
<1>5. row[t] \in Row /\ name \in Names \cup {None} /\ NewFiles(j, t) \in SUBSET Files
  BY <1>1 DEF TypeOK, Row, Job, NewFiles
<1>6. new \in Row /\ new.files = NewFiles(j, t) /\ new.state = row[t].state
  BY <1>5 DEF Row
<1>7. row' = [row EXCEPT ![t] = new]
  BY <1>2
<1> HIDE DEF new
<1>8. row' \in [Rows -> Row] /\ \A s \in Rows : row'[s] = IF s = t THEN new ELSE row[s]
  BY <1>1, <1>6, <1>7 DEF TypeOK
<1>9. loose' \in SUBSET Files /\ loose \subseteq loose'
  BY <1>1, <1>2, <1>5 DEF TypeOK, Row
<1>10. \A s \in Rows : RowSound(s)'
  BY <1>2, <1>4, <1>6, <1>8 DEF IInv, RowSound, Kept
<1>11. \A c \in Categories : Kept(c) => Kept(c)'
  BY <1>2, <1>6, <1>8, AllRows DEF Kept
<1>12. job[j].wants \in Nat /\ (job[j].wants = 0 => job[j].new = {}) /\ job[j].link \in BOOLEAN
  BY <1>1 DEF JobSound, Job
<1>13. Dropped(j) => job[j].wants > 0
  BY <1>3 DEF Dropped
<1>14. CASE r \in Pages
  <2>1. job[j].wants = 0 /\ job[j].new = {} /\ ~ job[j].link /\ ~ Dropped(j)
    BY <1>1, <1>12, <1>13, <1>14 DEF JobSound
  <2>2. \A s \in Rows : row'[s].files = row[s].files
    BY <1>4, <1>6, <1>8, <1>14
  <2> QED
    BY <1>3, <1>8, <1>9, <1>10, <1>11, <2>1, <2>2, WriteInv
<1>15. CASE t = r /\ job[j].wants > 0
  <2>1. new.files = job[j].new /\ Dropped(j)
    BY <1>3, <1>6, <1>15 DEF NewFiles, Dropped
  <2>2. /\ \A s \in Rows : s # r => row'[s].files = row[s].files
        /\ row'[r].files = job[j].new
    BY <1>3, <1>8, <1>15, <2>1
  <2> QED
    BY <1>3, <1>8, <1>9, <1>10, <1>11, <2>1, <2>2, WriteInv
<1>16. CASE t = r /\ job[j].wants = 0
  <2>1. job[j].new = {} /\ ~ Dropped(j)
    BY <1>12, <1>13, <1>16
  <2>2. new.files = IF job[j].link THEN {} ELSE row[t].files
    BY <1>6, <1>16 DEF NewFiles
  <2>3. \A s \in Rows : /\ row'[s].files \subseteq row[s].files
                        /\ row[s].files \subseteq row'[s].files \cup loose'
    BY <1>2, <1>8, <2>2
  <2> QED
    BY <1>3, <1>8, <1>9, <1>10, <1>11, <2>1, <2>3, WriteInv
<1> QED
  BY <1>4, <1>12, <1>14, <1>15, <1>16

\* What rows become that are deleted.
LEMMA Emptied ==
  ASSUME IInv, NEW gone \in SUBSET Rows,
         row' = [r \in Rows |-> IF r \in gone
                                THEN [state |-> "deleted", name |-> None, files |-> {}]
                                ELSE row[r]]
  PROVE  /\ row' \in [Rows -> Row]
         /\ \A s \in Rows : /\ RowSound(s)'
                            /\ row'[s].files = IF s \in gone THEN {} ELSE row[s].files
                            /\ s \notin gone => Kept(s)' = Kept(s)
<1>1. TypeOK
  BY DEF IInv
<1>2. PICK k \in {"deleted"} :
        row' = [r \in Rows |-> IF r \in gone THEN [state |-> k, name |-> None, files |-> {}]
                               ELSE row[r]]
  OBVIOUS
<1> DEFINE new == [state |-> k, name |-> None, files |-> {}]
<1>3. new \in Row /\ new.files = {}
  BY FirstRecords DEF Row
<1> HIDE DEF new
<1>4. row' \in [Rows -> Row] /\ \A s \in Rows : row'[s] = IF s \in gone THEN new ELSE row[s]
  BY <1>1, <1>2, <1>3 DEF TypeOK, new
<1> QED
  BY <1>3, <1>4 DEF IInv, RowSound, Kept

\* A row is deleted.
LEMMA RemoveInv ==
  ASSUME IInv, NEW j \in Jobs, Remove(j)
  PROVE  IInv'
<1> DEFINE r == job[j].row
<1>1. TypeOK /\ JobSound(j) /\ job[j] \in Job
  BY DEF IInv, TypeOK
<1>2. PICK t \in Rows :
        /\ t \in Target(j) /\ Kept(t) /\ ~ Asked(t)
        /\ row' = [row EXCEPT ![t] = [state |-> "deleted", name |-> None, files |-> {}]]
  BY DEF Remove
<1>3. /\ job[j].pc = "write" /\ job[j].op = "delete" /\ Stop(j)
      /\ UNCHANGED <<category, stored, uploads, requests, broken, crossed, loose>>
      /\ r \in Rows
  BY <1>1 DEF Remove, JobSound
<1>4. row' = [s \in Rows |-> IF s \in {t} THEN [state |-> "deleted", name |-> None, files |-> {}]
                             ELSE row[s]]
  BY <1>1, <1>2 DEF TypeOK
<1>5. /\ row' \in [Rows -> Row]
      /\ \A s \in Rows : /\ RowSound(s)'
                         /\ row'[s].files = IF s \in {t} THEN {} ELSE row[s].files
                         /\ s \notin {t} => Kept(s)' = Kept(s)
  <2> DEFINE gone == {t}
  <2>1. gone \in SUBSET Rows
    OBVIOUS
  <2>2. row' = [s \in Rows |-> IF s \in gone
                               THEN [state |-> "deleted", name |-> None, files |-> {}]
                               ELSE row[s]]
    BY <1>4
  <2> HIDE DEF gone
  <2>3. /\ row' \in [Rows -> Row]
        /\ \A s \in Rows : /\ RowSound(s)'
                           /\ row'[s].files = IF s \in gone THEN {} ELSE row[s].files
                           /\ s \notin gone => Kept(s)' = Kept(s)
    BY <2>1, <2>2, Emptied
  <2> QED
    BY <2>3 DEF gone
<1>6. t = r \/ (r \in Pages /\ t \in Pages)
  BY <1>2, <1>3 DEF Target, Named
<1>7. \A s \in Pages : row[s].files = {}
  BY AllRows DEF IInv, RowSound
<1>8. job[j].new = {} /\ Dropped(j)
  BY <1>1, <1>3 DEF JobSound, Dropped
<1>9. \A c \in Categories : Kept(c) /\ Asked(c) => Kept(c)'
  BY <1>2, <1>5, AllRows
<1>10. row'[r].files = {}
  BY <1>3, <1>5, <1>6, <1>7
<1>11. \A s \in Rows : /\ row'[s].files \subseteq row[s].files
                       /\ s = r \/ row[s].files \subseteq row'[s].files
  BY <1>5, <1>6, <1>7
<1> QED
  BY <1>1, <1>3, <1>5, <1>8, <1>9, <1>10, <1>11, WriteInv DEF TypeOK

\* An account is erased with its reports, whose photos are let go.
LEMMA EraseInv ==
  ASSUME IInv, NEW j \in Jobs, Erase(j)
  PROVE  IInv'
<1> DEFINE r == job[j].row
<1>1. TypeOK /\ JobSound(j) /\ job[j] \in Job
  BY DEF IInv, TypeOK
<1>2. PICK his \in SUBSET {s \in Reports : Kept(s)} :
        /\ row' = [s \in Rows |-> IF s \in his \cup {r}
                                  THEN [state |-> "deleted", name |-> None, files |-> {}]
                                  ELSE row[s]]
        /\ loose' = loose \cup UNION {row[s].files : s \in his}
  BY DEF Erase
<1>3. /\ job[j].pc = "write" /\ job[j].op = "erase" /\ Stop(j)
      /\ UNCHANGED <<category, stored, uploads, requests, broken, crossed>>
      /\ r \in People /\ r \in Rows
  BY <1>1 DEF Erase, JobSound
<1>4. his \cup {r} \in SUBSET Rows /\ (his \cup {r}) \cap Categories = {}
  BY <1>3, AllRows, OneTable
<1>5. /\ row' \in [Rows -> Row]
      /\ \A s \in Rows : /\ RowSound(s)'
                         /\ row'[s].files = IF s \in his \cup {r} THEN {} ELSE row[s].files
                         /\ s \notin his \cup {r} => Kept(s)' = Kept(s)
  BY <1>2, <1>4, Emptied
<1>6. job[j].new = {} /\ Dropped(j)
  BY <1>1, <1>3 DEF JobSound, Dropped
<1>7. \A c \in Categories : Kept(c) => Kept(c)'
  BY <1>4, <1>5, AllRows
<1>8. \A s \in his : row[s].files \subseteq loose' /\ row[s].files \subseteq Files
  BY <1>1, <1>2, <1>4 DEF TypeOK, Row
<1>9. loose' \in SUBSET Files /\ loose \subseteq loose'
  BY <1>1, <1>2, <1>8 DEF TypeOK
<1>10. \A s \in Rows : /\ row'[s].files \subseteq row[s].files
                       /\ s = r \/ row[s].files \subseteq row'[s].files \cup loose'
  BY <1>5, <1>8
<1> QED
  BY <1>3, <1>5, <1>6, <1>7, <1>9, <1>10, WriteInv

\* A report is deleted by the handler of the remote reports, which lets its photos go.
LEMMA DeleteRemoteInv ==
  ASSUME IInv, NEW r \in Reports, DeleteRemoteReport(r)
  PROVE  IInv'
<1>1. /\ TypeOK /\ Numbered /\ Apart /\ Served /\ Accounted /\ QuestionsFiled
      /\ \A i \in Jobs : JobSound(i)
  BY DEF IInv
<1>2. /\ row' = [row EXCEPT ![r] = [state |-> "deleted", name |-> None, files |-> {}]]
      /\ loose' = loose \cup row[r].files /\ requests' \in 0..MaxRequests
      /\ UNCHANGED <<category, stored, uploads, job, broken, crossed>>
  BY <1>1, Parameters DEF DeleteRemoteReport, TypeOK
<1>3. r \in Rows /\ r \notin Categories
  BY AllRows, OneTable
<1>4. row' = [s \in Rows |-> IF s \in {r} THEN [state |-> "deleted", name |-> None, files |-> {}]
                             ELSE row[s]]
  BY <1>1, <1>2 DEF TypeOK
<1>5. /\ row' \in [Rows -> Row]
      /\ \A s \in Rows : /\ RowSound(s)'
                         /\ row'[s].files = IF s \in {r} THEN {} ELSE row[s].files
                         /\ s \notin {r} => Kept(s)' = Kept(s)
  <2> DEFINE gone == {r}
  <2>1. gone \in SUBSET Rows
    BY <1>3
  <2>2. row' = [s \in Rows |-> IF s \in gone
                               THEN [state |-> "deleted", name |-> None, files |-> {}]
                               ELSE row[s]]
    BY <1>4
  <2> HIDE DEF gone
  <2>3. /\ row' \in [Rows -> Row]
        /\ \A s \in Rows : /\ RowSound(s)'
                           /\ row'[s].files = IF s \in gone THEN {} ELSE row[s].files
                           /\ s \notin gone => Kept(s)' = Kept(s)
    BY <2>1, <2>2, Emptied
  <2> QED
    BY <2>3 DEF gone
<1>6. \A s \in Rows : /\ row'[s].files \subseteq row[s].files
                      /\ row[s].files \subseteq row'[s].files \cup loose'
  BY <1>2, <1>5
<1>7. TypeOK'
  BY <1>1, <1>2, <1>3, <1>5 DEF TypeOK, Row
<1>8. \A i \in Jobs : JobSound(i)' /\ Dropped(i)' = Dropped(i)
  BY <1>1, <1>2 DEF JobSound, Dropped
<1>9. Numbered'
  BY <1>1, <1>2, <1>6 DEF Numbered
<1>10. Apart'
  BY <1>1, <1>2, <1>6 DEF Apart
<1>11. Served'
  BY <1>1, <1>2, <1>6, <1>8 DEF Served
<1>12. Accounted'
  <2>1. SUFFICES ASSUME broken = {}, crossed = {} PROVE Accounted'
    BY <1>2 DEF Accounted
  <2>2. \A f \in stored : \/ f \in loose'
                          \/ \E s \in Rows : f \in row'[s].files
                          \/ \E i \in Jobs : f \in job[i].new
    BY <1>1, <1>2, <1>6, <2>1 DEF Accounted
  <2>3. \A i, k \in Working : i # k => job[i].row # job[k].row
    BY <1>1, <2>1 DEF Accounted
  <2>4. ASSUME NEW k \in Working, NEW s \in Rows, job[k].row = s
        PROVE  /\ row'[s].files \subseteq job[k].old
               /\ job[k].old \cap stored \subseteq row'[s].files \cup loose'
               /\ Dropped(k)' => job[k].old \cap stored = {}
    <3>1. k \in Jobs
      BY DEF Working
    <3>2. /\ row[s].files \subseteq job[k].old
          /\ job[k].old \cap stored \subseteq row[s].files \cup loose
          /\ Dropped(k) => job[k].old \cap stored = {}
      BY <1>1, <2>1, <2>4 DEF Accounted
    <3> QED
      BY <1>2, <1>6, <1>8, <3>1, <3>2
  <2>5. Working' = Working
    BY <1>2 DEF Working
  <2> QED
    BY <1>2, <2>2, <2>3, <2>4, <2>5 DEF Accounted
<1>13. QuestionsFiled'
  BY <1>1, <1>2, <1>3, <1>5, AllRows DEF QuestionsFiled, TypeOK
<1> QED
  BY <1>5, <1>7, <1>8, <1>9, <1>10, <1>11, <1>12, <1>13 DEF IInv

-----------------------------------------------------------------------------
(* The invariant and the theorems.                                          *)

\* A question is filed or deleted: no file and no request changes.
LEMMA QuestionsInv ==
  ASSUME IInv, NEW q \in Questions, NEW c \in Categories,
         FileQuestion(q, c) \/ RefileQuestion(q, c) \/ DeleteQuestion(q)
  PROVE  IInv'
<1>1. /\ UNCHANGED <<row, stored, uploads, job, requests, broken, crossed, loose>>
      /\ \/ Kept(c) /\ category' = [category EXCEPT ![q] = c]
         \/ category' = [category EXCEPT ![q] = None]
  BY DEF FileQuestion, RefileQuestion, DeleteQuestion
<1>2. /\ TypeOK /\ Numbered /\ Apart /\ Served /\ Accounted /\ QuestionsFiled
      /\ \A i \in Jobs : JobSound(i)
  BY DEF IInv
<1>3. TypeOK' /\ QuestionsFiled'
  BY <1>1, <1>2 DEF TypeOK, QuestionsFiled, Kept
<1>4. /\ \A i \in Jobs : JobSound(i)' /\ Dropped(i)' = Dropped(i)
      /\ \A s \in Rows : RowSound(s)'
  BY <1>1, <1>2 DEF JobSound, Dropped, IInv, RowSound, Kept
<1>5. Numbered' /\ Apart'
  BY <1>1, <1>2 DEF Numbered, Apart
<1>6. Served'
  BY <1>1, <1>2, <1>4 DEF Served
<1>7. Accounted'
  BY <1>1, <1>2, <1>4 DEF Accounted, Working, Dropped
<1> QED
  BY <1>3, <1>4, <1>5, <1>6, <1>7 DEF IInv

\* No file, no request.
LEMMA InitIInv == Init => IInv
<1> SUFFICES ASSUME Init PROVE IInv
  OBVIOUS
<1>1. PICK k \in {"kept"}, a \in {"absent"} :
        row = [r \in Rows |-> [state |-> IF r \in People THEN k ELSE a,
                               name |-> None, files |-> {}]]
  BY DEF Init
<1>2. /\ row \in [Rows -> Row] /\ \A r \in Rows : row[r].files = {}
  BY <1>1, FirstRecords DEF Row
<1>3. TypeOK
  BY <1>2, FirstRecords, Parameters DEF Init, TypeOK
<1>4. \A j \in Jobs : job[j] = Idle
  BY DEF Init
<1>5. \A j \in Jobs : JobSound(j)
  BY <1>4, FirstRecords DEF JobSound
<1>6. \A r \in Rows : RowSound(r)
  BY <1>2 DEF RowSound
<1>7. Numbered /\ Apart
  BY <1>2, <1>4, FirstRecords DEF Init, Numbered, Apart
<1>8. Served /\ QuestionsFiled
  BY <1>2 DEF Init, Served, QuestionsFiled
<1>9. Working = {}
  BY <1>4, FirstRecords DEF Working
<1>10. Accounted
  BY <1>9 DEF Init, Accounted
<1> QED
  BY <1>3, <1>5, <1>6, <1>7, <1>8, <1>10 DEF IInv

\* Every step keeps the invariant.
LEMMA NextIInv == IInv /\ [Next]_vars => IInv'
<1> SUFFICES ASSUME IInv, [Next]_vars PROVE IInv'
  OBVIOUS
<1>1. ASSUME NEW j \in Jobs,
             \/ Creations(j) \/ Changes(j) \/ Deletions(j)
             \/ Drop(j) \/ Upload(j) \/ Insert(j) \/ Update(j) \/ Remove(j) \/ Erase(j) \/ JobFails(j)
      PROVE  IInv'
  BY <1>1, CreationsInv, ChangesInv, DeletionsInv, DropInv, UploadInv, InsertInv, UpdateInv,
     RemoveInv, EraseInv, JobFailsInv
<1>2. ASSUME NEW r \in Reports, DeleteRemoteReport(r) PROVE IInv'
  BY <1>2, DeleteRemoteInv
<1>3. ASSUME NEW q \in Questions, NEW c \in Categories, FileQuestion(q, c) \/ RefileQuestion(q, c)
      PROVE  IInv'
  BY <1>3, QuestionsInv
<1>4. ASSUME NEW q \in Questions, DeleteQuestion(q) PROVE IInv'
  <2>1. category[q] \in Categories
    BY <1>4 DEF DeleteQuestion, IInv, TypeOK
  <2> QED
    BY <1>4, <2>1, QuestionsInv
<1>5. CASE UNCHANGED vars
  <2>1. UNCHANGED <<row, category, stored, uploads, job, requests, broken, crossed, loose>>
    BY <1>5 DEF vars
  <2> QED
    BY <2>1 DEF IInv, TypeOK, JobSound, RowSound, Kept, Numbered, Apart, Served, Dropped, Accounted,
                Working, QuestionsFiled
<1> QED
  BY <1>1, <1>2, <1>3, <1>4, <1>5 DEF Next

\* The inductive invariant holds in every reachable state.
LEMMA Invariance == Spec => []IInv
BY InitIInv, NextIInv, PTL DEF Spec

\* Every reachable state is well typed.
THEOREM TypeCorrect == Spec => []TypeOK
<1>1. IInv => TypeOK
  BY DEF IInv
<1> QED
  BY <1>1, Invariance, PTL

\* A row shows files the store has, unless a request that deleted them goes on or has failed:
\* overlapping requests alone, which drop files they read earlier, never take its file away.
THEOREM ServedPictures == Spec => []PicturesServed
<1>1. IInv => PicturesServed
  <2> SUFFICES ASSUME IInv PROVE PicturesServed
    OBVIOUS
  <2>1. ASSUME NEW r \in Rows \ broken, NEW f \in row[r].files
        PROVE  f \in stored \cup UNION {job[j].old : j \in {i \in Jobs : job[i].row = r}}
    BY DEF IInv, Served
  <2> QED
    BY <2>1 DEF PicturesServed
<1> QED
  BY <1>1, Invariance, PTL

\* No sequence of requests that come one after the other and succeed fills the store with files
\* no row names.
THEOREM AccountedFiles == Spec => []FilesAccounted
<1>1. IInv => FilesAccounted
  <2> SUFFICES ASSUME IInv, broken = {}, crossed = {}, NEW f \in stored
               PROVE  f \in loose \cup (UNION {row[r].files : r \in Rows})
                                  \cup (UNION {job[j].new \cup job[j].old : j \in Jobs})
    BY DEF FilesAccounted
  <2>1. \/ f \in loose
        \/ \E r \in Rows : f \in row[r].files
        \/ \E j \in Jobs : f \in job[j].new
    BY DEF IInv, Accounted
  <2> QED
    BY <2>1
<1> QED
  BY <1>1, Invariance, PTL

\* A question never loses its category, which is checked, then deleted some awaits later.
THEOREM FiledQuestions == Spec => []QuestionsFiled
<1>1. IInv => QuestionsFiled
  BY DEF IInv
<1> QED
  BY <1>1, Invariance, PTL

----------------------------------------------------------------------------
(* The making and the reading of home reports: the module HomeReport, for  *)
(* any tables of addresses, bearings, rooms and visits.                    *)
(*                                                                         *)
(* A request in flight agrees with the entrance it will speak of, a stored *)
(* report is complete, and the two copies of the rule of the quarters are  *)
(* one rule.                                                               *)

\* What a request in flight knows: its address and its entrance, and at a visit every capture has
\* the direction of its own bearing, the main one that of the report.
WorkSound ==
    /\ work \in Work
    /\ work.pc # "idle" =>
         /\ work.building \in Buildings /\ work.text \in Texts
         /\ work.bearing \in Bearings \cup Visited
    /\ work.kind = "property_report" => work.captures = {}
    /\ work.kind = "onsite_property_report" =>
         /\ work.bearing \in Visited /\ work.label = Cardinal(work.bearing)
    /\ \A e \in work.captures : /\ e.cardinal = CardinalFromBearing(e.bearing)
                                /\ e.main => e.bearing = work.bearing
    /\ work.pc \in {"write", "save"} => work.photos \in Pictures
    /\ work.pc = "save" => work.told = Sections

\* What a report says of its entrance, its visit and its address.
Speaks(r) ==
    LET c == Cardinal(r.bearing)
    IN  /\ r.score = 73 - 5 * RedFlags(c) - 10 * Cardinality(Energies(r.building, r.text))
        /\ r.level = IF r.score >= 55 THEN "balanced" ELSE "needs attention"
        /\ r.kind = "onsite_property_report" => r.label = c
        /\ \A e \in r.captures : e.main => e.bearing = r.bearing /\ e.cardinal = c
        /\ \A room \in r.rooms :
             /\ room.analysis.main => room.analysis.element = r.payload.element
             /\ \E e \in r.captures : /\ room.analysis.room = e.room
                                     /\ room.analysis.cardinal = e.cardinal
        /\ (r.payload.theme = Missing) = (AddressNumber(r.building) \notin Meanings)

\* A stored report is complete and speaks of its entrance.
ReportSound(r) == IsRow(r) /\ r.told = Sections /\ Speaks(r)

\* What a response shows is there to read.
ShownSound(v) ==
    /\ v.id \in Ids \cup {Missing} /\ v.access \in Accesses
    /\ v.open \subseteq Sections /\ v.blank = {}
    /\ v.id # Missing => v.photos \in Pictures
    /\ v.captures \subseteq Capture

\* The invariant: the request and the rows are sound, and nothing blank was shown.
ReportInv ==
    /\ token \in Token
    /\ WorkSound
    /\ DOMAIN report = Ids
    /\ \A id \in Ids : report[id] # Missing => ReportSound(report[id])
    /\ ShownSound(shown)

----------------------------------------------------------------------------
(* The operators. *)

\* Both copies of the rule of the quarters agree, whatever the bearing.
LEMMA QuartersAgree ==
    ASSUME NEW degrees \in Int
    PROVE  Cardinal(degrees) = CardinalFromBearing(degrees)
<1>2. CASE degrees < 45
  BY <1>2, SMT DEF Cardinal, CardinalFromBearing
<1>3. CASE degrees >= 45 /\ degrees < 135
  BY <1>3, SMT DEF Cardinal, CardinalFromBearing
<1>4. CASE degrees >= 135 /\ degrees < 225
  BY <1>4, SMT DEF Cardinal, CardinalFromBearing
<1>5. CASE degrees >= 225 /\ degrees < 315
  BY <1>5, SMT DEF Cardinal, CardinalFromBearing
<1>6. CASE degrees >= 315
  BY <1>6, SMT DEF Cardinal, CardinalFromBearing
<1> QED
  BY <1>2, <1>3, <1>4, <1>5, <1>6

\* The bearings of a visit are within the circle.
LEMMA VisitedBearing ==
    ASSUME NEW bearing \in Visited
    PROVE  bearing \in 0..359 /\ bearing \in Int
<1>1. bearing \in 0..359
  BY ReportParameters
<1> QED
  BY <1>1

\* Every bearing has a direction.
LEMMA CardinalType ==
    ASSUME NEW degrees \in Int
    PROVE  Cardinal(degrees) \in Directions
  BY SMT DEF Cardinal, Directions

\* The writing service has what it needs for every section of a full report, made at home or on a
\* visit.
LEMMA CompleteTold == Told("paid_full") = Sections /\ OnsiteTold = Sections
<1>1. \A s \in Sections : Sources[s] = {"all"} \/ "all" \notin Sources[s]
  BY DEF Sections, Sources
<1>2. Given("paid_full") = Fields
  BY DEF Given
<1>3. \A s \in Sections : Sources[s] \subseteq Fields \cup {"all"}
  BY DEF Fields
<1>4. Told("paid_full") = Sections
  BY <1>1, <1>2, <1>3 DEF Told
<1>5. \A s \in Sections : OnsiteSources[s] \subseteq Sources[s] \cup {"rooms"}
  BY DEF OnsiteSources
<1> QED
  BY <1>3, <1>4, <1>5 DEF OnsiteTold

\* What a response opens and what a preview shows are sections of a report.
LEMMA OpenedSections ==
    /\ \A access \in Accesses : Opened(access) \subseteq Sections
    /\ {"overallScore", "auspiciousnessLevel", "overview", "entranceDirection"} \subseteq Sections
<1>1. {"overallScore", "auspiciousnessLevel", "overview", "entranceDirection",
       "overallAlignmentSummary", "auspiciousnessSummary", "familyFlowSummary", "indicators",
       "helpfulTips"} \subseteq Sections
  BY DEF Sections, Sources
<1>2. Opened("paid_full") = Sections
  BY DEF Opened
<1>3. Opened("free_preview") \subseteq Sections /\ Opened("guest_preview") \subseteq Sections
  BY <1>1 DEF Opened, GuestSections
<1> QED
  BY <1>1, <1>2, <1>3 DEF Accesses

\* An access level is one of the three.
LEMMA AccessLevelType == \A t : AccessLevel(t) \in Accesses
  BY DEF AccessLevel, Accesses

\* An address has two numbers, so at most two meanings.
LEMMA EnergiesSize ==
    ASSUME NEW building, NEW text
    PROVE  Cardinality(Energies(building, text)) \in 0..2
<1> DEFINE E == Energies(building, text)
           S == {AddressNumber(building)} \cup {FullAddress(building, text)}
<1>1. IsFiniteSet({AddressNumber(building)}) /\ Cardinality({AddressNumber(building)}) = 1
  BY FS_Singleton, Zenon
<1>2. /\ IsFiniteSet(S)
      /\ Cardinality(S) = IF FullAddress(building, text) \in {AddressNumber(building)}
                          THEN Cardinality({AddressNumber(building)})
                          ELSE Cardinality({AddressNumber(building)}) + 1
  BY <1>1, FS_AddElement, Zenon
<1>3. Cardinality(S) <= 2
  BY <1>1, <1>2, SMT
<1>4. E \subseteq S
  BY DEF Energies
<1>5. IsFiniteSet(E) /\ Cardinality(E) <= Cardinality(S)
  BY <1>2, <1>4, FS_Subset, Zenon
<1>6. Cardinality(E) \in Nat /\ Cardinality(S) \in Nat
  BY <1>2, <1>5, FS_CardinalityType, Zenon
<1> HIDE DEF E, S
<1>7. Cardinality(E) \in 0..2
  BY <1>3, <1>5, <1>6, SMT
<1> QED
  BY <1>7 DEF E

\* The supportive indicators of an address are as many as its challenges and its red flags, and
\* cancel out but for ten points a number.
LEMMA RatingValue ==
    ASSUME NEW building, NEW text, NEW bearing \in Int
    PROVE  LET c == Cardinal(bearing)
               r == Rating(building, text, bearing)
           IN  /\ r = 73 - 5 * RedFlags(c) - 10 * Cardinality(Energies(building, text))
               /\ r \in 35..95
               /\ Level(r) = IF r >= 55 THEN "balanced" ELSE "needs attention"
<1>1. Cardinality(Energies(building, text)) \in 0..2
  BY EnergiesSize
<1>2. PICK n \in 0..2 : n = Cardinality(Energies(building, text))
  BY <1>1
<1>3. RedFlags(Cardinal(bearing)) \in {1, 2}
  BY DEF RedFlags
<1>4. PICK f \in {1, 2} : f = RedFlags(Cardinal(bearing))
  BY <1>3
<1>5. Rating(building, text, bearing) = Score(3 + 2 * n, f + 2 * n, 2 * n)
  BY <1>2, <1>4 DEF Rating, Supportive
<1>6. Score(3 + 2 * n, f + 2 * n, 2 * n) = 73 - 5 * f - 10 * n
  <2>1. CASE n = 0
    BY <2>1, SMT DEF Score
  <2>2. CASE n = 1
    BY <2>2, SMT DEF Score
  <2>3. CASE n = 2
    BY <2>3, SMT DEF Score
  <2> QED
    BY <2>1, <2>2, <2>3
<1>7. PICK r \in Int : r = 73 - 5 * f - 10 * n
  BY SMT
<1>8. r \in 35..95 /\ r < 70
  BY <1>7, SMT
<1>9. Level(r) = IF r >= 55 THEN "balanced" ELSE "needs attention"
  <2>1. CASE r >= 55
    BY <1>8, <2>1, SMT DEF Level
  <2>2. CASE r < 55
    <3>1. ~ (r >= 85) /\ ~ (r >= 70) /\ ~ (r >= 55)
      BY <1>8, <2>2, SMT
    <3> QED
      BY <3>1, Zenon DEF Level
  <2>3. r >= 55 \/ r < 55
    BY <1>8, SMT
  <2> QED
    BY <2>1, <2>2, <2>3, Zenon
<1> QED
  BY <1>2, <1>4, <1>5, <1>6, <1>7, <1>8, <1>9

\* A number has a theme when it has a meaning.
LEMMA ThemeMeaning ==
    ASSUME NEW number
    PROVE  (Theme(number) = Missing) = (number \notin Meanings)
<1>1. CASE number \in Meanings
  <2>1. Theme(number) = number /\ number \in Nat
    BY <1>1 DEF Theme, Meanings, MasterNumbers
  <2> QED
    BY <1>1, <2>1, ReportParameters
<1>2. CASE number \notin Meanings
  BY <1>2 DEF Theme, Meanings, MasterNumbers
<1> QED
  BY <1>1, <1>2

\* The main element of a visit is one of its elements, and its front entrance when it has one.
LEMMA MainElementIs ==
    ASSUME NEW n \in Nat, n >= 1, NEW elements \in [1..n -> Element],
           Cardinality(Entrances(elements)) <= 1
    PROVE  /\ MainElement(elements) \in Element
           /\ \A i \in 1..n : elements[i].room = "front_entrance" =>
                elements[i] = MainElement(elements)
<1>1. DOMAIN elements = 1..n
  OBVIOUS
<1>2. Entrances(elements) \subseteq 1..n
  BY <1>1 DEF Entrances
<1>3. CASE Entrances(elements) = {}
  <2>1. MainElement(elements) = elements[1] /\ 1 \in 1..n
    BY <1>3 DEF MainElement
  <2> QED
    BY <1>1, <1>3, <2>1 DEF Entrances
<1>4. CASE Entrances(elements) # {}
  <2>1. IsFiniteSet(1..n)
    BY FS_Interval
  <2>2. IsFiniteSet(Entrances(elements))
    BY <1>2, <2>1, FS_Subset, Zenon
  <2>3. Cardinality(Entrances(elements)) \in Nat /\ Cardinality(Entrances(elements)) # 0
    BY <1>4, <2>2, FS_CardinalityType, FS_EmptySet, Zenon
  <2>4. Cardinality(Entrances(elements)) = 1
    BY <2>3, SMT
  <2>5. PICK i : Entrances(elements) = {i}
    BY <2>2, <2>4, FS_Singleton, Zenon
  <2>6. (CHOOSE j \in Entrances(elements) : TRUE) = i
    BY <2>5
  <2>7. MainElement(elements) = elements[i] /\ i \in 1..n
    BY <1>2, <1>4, <2>5, <2>6 DEF MainElement
  <2>8. \A k \in 1..n : elements[k].room = "front_entrance" => k = i
    BY <1>1, <2>5 DEF Entrances
  <2> QED
    BY <2>7, <2>8
<1> QED
  BY <1>3, <1>4

----------------------------------------------------------------------------
(* The steps. *)

\* A row made from a sound request is sound.
LEMMA RowMade ==
    ASSUME WorkSound, work.pc = "save"
    PROVE  ReportSound(NewRow)
<1> DEFINE c == Cardinal(work.bearing)
           score == Rating(work.building, work.text, work.bearing)
<1>1. /\ work \in Work /\ work.building \in Buildings /\ work.text \in Texts
      /\ work.bearing \in Bearings \cup Visited
  BY DEF WorkSound
<1>2. /\ work.kind \in Kinds /\ work.label \in Directions /\ work.captures \subseteq Capture
      /\ work.bearing \in Int
  BY <1>1 DEF Work
<1>3. work.photos \in Pictures /\ work.told = Sections
  BY DEF WorkSound
<1>4. /\ score = 73 - 5 * RedFlags(c) - 10 * Cardinality(Energies(work.building, work.text))
      /\ score \in 35..95
      /\ Level(score) = IF score >= 55 THEN "balanced" ELSE "needs attention"
  BY <1>2, RatingValue
<1>5. Level(score) \in Levels
  BY DEF Level, Levels
<1>6. c \in Directions
  BY <1>2, CardinalType
<1>7. /\ NewRow.kind = work.kind /\ NewRow.building = work.building /\ NewRow.text = work.text
      /\ NewRow.bearing = work.bearing /\ NewRow.label = work.label
      /\ NewRow.captures = work.captures /\ NewRow.photos = work.photos /\ NewRow.score = score
      /\ NewRow.level = Level(score) /\ NewRow.told = work.told
      /\ NewRow.payload = Payload(work.building, work.text, work.bearing)
      /\ NewRow.rooms = RoomContext(work.captures)
  BY DEF NewRow
<1>8. work.kind = "onsite_property_report" => work.label = c
  BY DEF WorkSound
<1>9. \A e \in work.captures : /\ e.cardinal = CardinalFromBearing(e.bearing)
                               /\ e.main => e.bearing = work.bearing /\ e.cardinal = c
  <2> TAKE e \in work.captures
  <2>1. e.cardinal = CardinalFromBearing(e.bearing) /\ (e.main => e.bearing = work.bearing)
    BY DEF WorkSound
  <2>2. e.bearing \in 0..359
    BY <1>2, ReportParameters DEF Capture
  <2>3. Cardinal(e.bearing) = CardinalFromBearing(e.bearing)
    BY <2>2, QuartersAgree
  <2> QED
    BY <2>1, <2>3
<1>10. Payload(work.building, work.text, work.bearing).element = FengShui[c]
  BY DEF Payload, Direction
<1>11. \A d \in Directions : RoomElement[d] = FengShui[d]
  BY DEF Directions, RoomElement, FengShui
<1>12. \A room \in RoomContext(work.captures) :
         /\ room.analysis.main => room.analysis.element = FengShui[c]
         /\ \E e \in work.captures : /\ room.analysis.room = e.room
                                     /\ room.analysis.cardinal = e.cardinal
  <2> TAKE room \in RoomContext(work.captures)
  <2>1. PICK e \in work.captures :
          room = [analysis |-> RoomAnalysis(e), affects |-> RoomAspects(e.room)]
    BY DEF RoomContext
  <2>2. /\ room.analysis.main = e.main /\ room.analysis.room = e.room
        /\ room.analysis.cardinal = CardinalFromBearing(e.bearing)
        /\ room.analysis.element = RoomElement[CardinalFromBearing(e.bearing)]
    BY <2>1 DEF RoomAnalysis
  <2> QED
    BY <1>6, <1>9, <1>11, <2>2
<1>13. /\ Payload(work.building, work.text, work.bearing).theme
          = Theme(AddressNumber(work.building))
       /\ (Theme(AddressNumber(work.building)) = Missing)
          = (AddressNumber(work.building) \notin Meanings)
  BY ThemeMeaning DEF Payload
<1> HIDE DEF c, score
<1>14. IsRow(NewRow)
  BY <1>1, <1>2, <1>3, <1>4, <1>5, <1>7 DEF IsRow
<1>15. Speaks(NewRow)
  <2> DEFINE r == NewRow
  <2>1. Cardinal(r.bearing) = c
    BY <1>7 DEF c
  <2>2. /\ r.score = 73 - 5 * RedFlags(c) - 10 * Cardinality(Energies(r.building, r.text))
        /\ r.level = IF r.score >= 55 THEN "balanced" ELSE "needs attention"
    BY <1>4, <1>7
  <2>3. r.kind = "onsite_property_report" => r.label = c
    BY <1>7, <1>8
  <2>4. \A e \in r.captures : e.main => e.bearing = r.bearing /\ e.cardinal = c
    BY <1>7, <1>9
  <2>5. \A room \in r.rooms :
          /\ room.analysis.main => room.analysis.element = r.payload.element
          /\ \E e \in r.captures : /\ room.analysis.room = e.room
                                   /\ room.analysis.cardinal = e.cardinal
    BY <1>7, <1>10, <1>12
  <2>6. (r.payload.theme = Missing) = (AddressNumber(r.building) \notin Meanings)
    BY <1>7, <1>13
  <2> HIDE DEF r
  <2>7. Speaks(r)
    BY <2>1, <2>2, <2>3, <2>4, <2>5, <2>6 DEF Speaks
  <2> QED
    BY <2>7 DEF r
<1> QED
  BY <1>3, <1>7, <1>14, <1>15 DEF ReportSound

\* A response made from a complete row is sound.
LEMMA ViewSound ==
    ASSUME NEW id \in Ids, NEW entry, NEW access \in Accesses, NEW open \in SUBSET Sections,
           NEW captures \in SUBSET Capture, entry.told = Sections, entry.photos \in Pictures
    PROVE  ShownSound(View(id, entry, access, open, captures))
  BY DEF ShownSound, View

\* The same of the answer to whoever reads a report, or has it made.
LEMMA ResponseSound ==
    ASSUME NEW id \in Ids, NEW entry, ReportSound(entry)
    PROVE  ShownSound(Response(id, entry, token))
<1>1. AccessLevel(token) \in Accesses
  BY AccessLevelType
<1>2. Opened(AccessLevel(token)) \in SUBSET Sections
  BY <1>1, OpenedSections
<1>3. CapturesOf(entry) \in SUBSET Capture /\ entry.told = Sections /\ entry.photos \in Pictures
  BY DEF CapturesOf, ReportSound, IsRow
<1> QED
  BY <1>1, <1>2, <1>3, ViewSound DEF Response

\* A row that is stored is sound.
LEMMA StoredRow ==
    ASSUME ReportInv, NEW id \in Ids, report[id] # Missing
    PROVE  /\ ReportSound(report[id]) /\ report[id].told = Sections
           /\ report[id].photos \in Pictures /\ report[id].captures \in SUBSET Capture
  BY DEF ReportInv, ReportSound, IsRow

\* Nothing is stored and nothing shown at first.
LEMMA InitInv ==
    ASSUME ReportInit
    PROVE  ReportInv
<1>1. NoWork \in Work
  BY DEF NoWork, Work, Kinds, Directions
<1>2. WorkSound
  BY <1>1 DEF ReportInit, NoWork, WorkSound
<1>3. ShownSound(Nothing)
  BY DEF ShownSound, Nothing, Accesses
<1> QED
  BY <1>2, <1>3 DEF ReportInit, ReportInv, Token

\* A response that leaves the rest alone keeps the invariant when it is sound.
LEMMA ShowKeeps ==
    ASSUME ReportInv, UNCHANGED <<token, work, report>>, ShownSound(shown')
    PROVE  ReportInv'
<1>1. WorkSound'
  BY DEF ReportInv, WorkSound
<1>2. \A id \in Ids : report'[id] # Missing => ReportSound(report'[id])
  BY DEF ReportInv
<1> QED
  BY <1>1, <1>2 DEF ReportInv

\* A step of the request that leaves the rest alone keeps the invariant when it leaves the request
\* sound.
LEMMA WorkKeeps ==
    ASSUME ReportInv, UNCHANGED <<token, report, shown>>, WorkSound'
    PROVE  ReportInv'
<1>1. \A id \in Ids : report'[id] # Missing => ReportSound(report'[id])
  BY DEF ReportInv
<1>2. ShownSound(shown')
  BY DEF ReportInv
<1> QED
  BY <1>1, <1>2 DEF ReportInv

\* Every way of reading reports shows what is there.
LEMMA ReadingKeeps ==
    ASSUME ReportInv, NEW id \in Ids,
           \/ ReadReport(id) \/ ListReports(id) \/ ListOnsiteReports(id)
           \/ OpenSharedReport(id) \/ PreviewReport(id)
    PROVE  ReportInv'
<1>1. report[id] # Missing /\ UNCHANGED <<token, work, report>>
  BY DEF ReadReport, ListReports, ListOnsiteReports, OpenSharedReport, PreviewReport
<1>2. /\ ReportSound(report[id]) /\ report[id].told = Sections
      /\ report[id].photos \in Pictures /\ report[id].captures \in SUBSET Capture
  BY <1>1, StoredRow
<1>3. AccessLevel(token) \in Accesses /\ "guest_preview" \in Accesses
  BY AccessLevelType DEF Accesses
<1>4. CASE ReadReport(id)
  BY <1>1, <1>2, <1>4, ResponseSound, ShowKeeps DEF ReadReport
<1>5. CASE ListReports(id)
  BY <1>1, <1>2, <1>3, <1>5, ViewSound, ShowKeeps DEF ListReports
<1>6. CASE ListOnsiteReports(id)
  <2>1. {"overallScore", "auspiciousnessLevel", "overview"} \in SUBSET Sections
    BY OpenedSections
  <2> QED
    BY <1>1, <1>2, <1>3, <1>6, <2>1, ViewSound, ShowKeeps DEF ListOnsiteReports
<1>7. CASE OpenSharedReport(id)
  <2>1. Opened(AccessLevel(token)) \in SUBSET Sections
    BY <1>3, OpenedSections
  <2>2. SharedCaptures(report[id]) \in SUBSET Capture
    BY <1>2 DEF SharedCaptures
  <2> QED
    BY <1>1, <1>2, <1>3, <1>7, <2>1, <2>2, ViewSound, ShowKeeps DEF OpenSharedReport
<1>8. CASE PreviewReport(id)
  <2>1. PreviewSections(report[id]) \in SUBSET Sections
    BY OpenedSections DEF PreviewSections
  <2>2. {} \in SUBSET Capture
    OBVIOUS
  <2> QED
    BY <1>1, <1>2, <1>3, <1>8, <2>1, <2>2, ViewSound, ShowKeeps DEF PreviewReport
<1> QED
  BY <1>4, <1>5, <1>6, <1>7, <1>8

\* Nothing in flight is sound.
LEMMA IdleSound ==
    ASSUME work' = NoWork
    PROVE  WorkSound'
<1>1. NoWork \in Work
  BY DEF NoWork, Work, Kinds, Directions
<1> QED
  BY <1>1 DEF NoWork, WorkSound

\* A report made at home has the bearing and the label its client sent.
LEMMA CreateKeeps ==
    ASSUME ReportInv,
           NEW building \in Buildings, NEW text \in Texts, NEW bearing \in Bearings,
           NEW label \in Labels, CreateReport(building, text, bearing, label)
    PROVE  ReportInv'
<1>1. work' = [pc |-> "pictures", kind |-> "property_report", building |-> building,
               text |-> text, bearing |-> bearing, label |-> label, captures |-> {},
               photos |-> 0, told |-> {}]
  BY DEF CreateReport, NoWork
<1>2. label \in Directions /\ bearing \in Int /\ text \in Seq(1..26)
  BY ReportParameters DEF Directions
<1>3. work' \in Work
  BY <1>1, <1>2 DEF Work, Kinds
<1>4. WorkSound'
  BY <1>1, <1>3 DEF WorkSound
<1> QED
  BY <1>4, WorkKeeps DEF CreateReport

\* A visit has the bearing of its entrance, and its label.
LEMMA SubmitKeeps ==
    ASSUME ReportInv,
           NEW building \in Buildings, NEW text \in Texts,
           NEW n \in 1..MaxElements, NEW elements \in [1..n -> Element],
           SubmitVisit(building, text, elements)
    PROVE  ReportInv'
<1> DEFINE main == MainElement(elements)
           taken == {Captured(elements[i]) : i \in DOMAIN elements}
<1>1. n \in Nat /\ n >= 1
  BY ReportParameters
<1>2. /\ main \in Element
      /\ \A i \in 1..n : elements[i].room = "front_entrance" => elements[i] = main
  BY <1>1, MainElementIs DEF SubmitVisit
<1>3. main.bearing \in Visited /\ main.bearing \in 0..359 /\ main.bearing \in Int
  <2>1. main.bearing \in Visited
    BY <1>2 DEF Element
  <2> QED
    BY <2>1, VisitedBearing
<1>4. /\ CardinalFromBearing(main.bearing) = Cardinal(main.bearing)
      /\ Cardinal(main.bearing) \in Directions
  BY <1>3, QuartersAgree, CardinalType
<1>5. \A e \in taken : /\ e \in Capture
                       /\ e.cardinal = CardinalFromBearing(e.bearing)
                       /\ e.main => e.bearing = main.bearing
  <2> TAKE e \in taken
  <2>1. PICK i \in 1..n : e = Captured(elements[i])
    OBVIOUS
  <2>2. elements[i] \in Element
    BY <2>1
  <2>3. /\ elements[i].room \in Rooms /\ elements[i].bearing \in Visited
        /\ elements[i].bearing \in 0..359 /\ elements[i].bearing \in Int
    <3>1. elements[i].room \in Rooms /\ elements[i].bearing \in Visited
      BY <2>2 DEF Element
    <3> QED
      BY <3>1, VisitedBearing
  <2>4. CardinalFromBearing(elements[i].bearing) \in Directions
    BY <2>3, QuartersAgree, CardinalType
  <2> QED
    BY <1>2, <2>1, <2>3, <2>4 DEF Captured, Capture
<1> HIDE DEF main, taken
<1>6. work' = [pc |-> "pictures", kind |-> "onsite_property_report", building |-> building,
               text |-> text, bearing |-> main.bearing,
               label |-> CardinalFromBearing(main.bearing), captures |-> taken,
               photos |-> 0, told |-> {}]
  BY DEF SubmitVisit, NoWork, main, taken
<1>7. text \in Seq(1..26)
  BY ReportParameters
<1>8. work' \in Work
  BY <1>3, <1>4, <1>5, <1>6, <1>7 DEF Work, Kinds
<1>9. WorkSound'
  BY <1>3, <1>4, <1>5, <1>6, <1>8 DEF WorkSound
<1> QED
  BY <1>9, WorkKeeps DEF SubmitVisit

\* Without a key there is no picture, and with one there are one to three.
LEMMA PicturesKeep ==
    ASSUME ReportInv, NEW panorama \in BOOLEAN, NEW nearby \in {0, 1, 4},
           FindPictures(panorama, nearby)
    PROVE  ReportInv'
<1>1. PICK p \in Pictures : work' = [work EXCEPT !.pc = "write", !.photos = p]
  <2> DEFINE found == IF ~HasKey THEN 0 ELSE IF panorama THEN 3 ELSE Fallback(nearby)
  <2>1. Fallback(nearby) \in 1..3
    BY DEF Fallback
  <2>2. found \in Pictures
    BY <2>1 DEF Pictures
  <2>3. work' = [work EXCEPT !.pc = "write", !.photos = found]
    BY DEF FindPictures
  <2> HIDE DEF found
  <2> QED
    BY <2>2, <2>3
<1>2. p \in 0..3
  BY DEF Pictures
<1>3. work \in Work
  BY DEF ReportInv, WorkSound
<1>4. work' \in Work
  BY <1>1, <1>2, <1>3 DEF Work
<1>5. /\ work'.pc = "write" /\ work'.photos = p
      /\ work'.kind = work.kind /\ work'.building = work.building /\ work'.text = work.text
      /\ work'.bearing = work.bearing /\ work'.label = work.label
      /\ work'.captures = work.captures
  BY <1>1, <1>3 DEF Work
<1>6. WorkSound'
  BY <1>4, <1>5 DEF ReportInv, WorkSound, FindPictures
<1> QED
  BY <1>6, WorkKeeps DEF FindPictures

\* What is written has every section.
LEMMA WritingKeeps ==
    ASSUME ReportInv, WriteReport \/ WriteOnsiteReport
    PROVE  ReportInv'
<1>1. work.pc = "write" /\ work' = [work EXCEPT !.pc = "save", !.told = Sections]
  BY CompleteTold DEF WriteReport, WriteOnsiteReport, WrittenFor
<1>2. work \in Work
  BY DEF ReportInv, WorkSound
<1>3. work' \in Work
  BY <1>1, <1>2 DEF Work
<1>4. /\ work'.pc = "save" /\ work'.told = Sections /\ work'.photos = work.photos
      /\ work'.kind = work.kind /\ work'.building = work.building /\ work'.text = work.text
      /\ work'.bearing = work.bearing /\ work'.label = work.label
      /\ work'.captures = work.captures
  BY <1>1, <1>2 DEF Work
<1>5. WorkSound'
  BY <1>1, <1>3, <1>4 DEF ReportInv, WorkSound
<1> QED
  BY <1>5, WorkKeeps DEF WriteReport, WriteOnsiteReport

\* The row that is stored speaks of the entrance of its request.
LEMMA SaveKeeps ==
    ASSUME ReportInv, NEW id \in Ids, SaveReport(id)
    PROVE  ReportInv'
<1>1. ReportSound(NewRow)
  BY RowMade DEF ReportInv, SaveReport
<1>2. ShownSound(shown')
  BY <1>1, ResponseSound DEF SaveReport
<1>3. WorkSound'
  BY IdleSound DEF SaveReport
<1>4. \A i \in Ids : report'[i] # Missing => ReportSound(report'[i])
  BY <1>1 DEF ReportInv, SaveReport
<1>5. DOMAIN report' = Ids /\ token' \in Token
  BY DEF ReportInv, SaveReport
<1> QED
  BY <1>2, <1>3, <1>4, <1>5 DEF ReportInv

\* A deleted report is shown to nobody.
LEMMA DeleteKeeps ==
    ASSUME ReportInv, NEW id \in Ids, DeleteHomeReport(id)
    PROVE  ReportInv'
<1>1. ShownSound(shown')
  BY DEF ShownSound, Nothing, Accesses, DeleteHomeReport
<1>2. WorkSound'
  BY DEF ReportInv, WorkSound, DeleteHomeReport
<1>3. \A i \in Ids : report'[i] # Missing => ReportSound(report'[i])
  BY DEF ReportInv, DeleteHomeReport
<1>4. DOMAIN report' = Ids /\ token' \in Token
  BY DEF ReportInv, DeleteHomeReport
<1> QED
  BY <1>1, <1>2, <1>3, <1>4 DEF ReportInv

\* Another token changes no report.
LEMMA TokenKeeps ==
    ASSUME ReportInv, ChangeToken
    PROVE  ReportInv'
<1>1. ShownSound(shown')
  BY DEF ReportInv, ChangeToken
<1>2. WorkSound'
  BY DEF ReportInv, WorkSound, ChangeToken
<1>3. \A i \in Ids : report'[i] # Missing => ReportSound(report'[i])
  BY DEF ReportInv, ChangeToken
<1>4. DOMAIN report' = Ids /\ token' \in Token
  BY DEF ReportInv, ChangeToken
<1> QED
  BY <1>1, <1>2, <1>3, <1>4 DEF ReportInv

\* No step breaks the invariant.
LEMMA StepKeeps ==
    ASSUME ReportInv, [ReportNext]_reportVars
    PROVE  ReportInv'
<1>1. CASE UNCHANGED reportVars
  <2>1. WorkSound' /\ ShownSound(shown')
    BY <1>1 DEF reportVars, ReportInv, WorkSound
  <2>2. \A i \in Ids : report'[i] # Missing => ReportSound(report'[i])
    BY <1>1 DEF reportVars, ReportInv
  <2> QED
    BY <1>1, <2>1, <2>2 DEF reportVars, ReportInv
<1>2. ASSUME NEW building \in Buildings, NEW text \in Texts,
             \/ \E bearing \in Bearings, label \in Labels :
                  CreateReport(building, text, bearing, label)
             \/ \E n \in 1..MaxElements : \E elements \in [1..n -> Element] :
                  SubmitVisit(building, text, elements)
      PROVE  ReportInv'
  BY <1>2, CreateKeeps, SubmitKeeps
<1>3. ASSUME NEW panorama \in BOOLEAN, NEW nearby \in {0, 1, 4}, FindPictures(panorama, nearby)
      PROVE  ReportInv'
  BY <1>3, PicturesKeep
<1>4. CASE RequestFails
  BY <1>4, IdleSound, WorkKeeps DEF RequestFails
<1>5. ASSUME NEW id \in Ids,
             \/ SaveReport(id) \/ ReadReport(id) \/ ListReports(id) \/ ListOnsiteReports(id)
             \/ OpenSharedReport(id) \/ PreviewReport(id) \/ DeleteHomeReport(id)
      PROVE  ReportInv'
  BY <1>5, SaveKeeps, ReadingKeeps, DeleteKeeps
<1> QED
  BY <1>1, <1>2, <1>3, <1>4, <1>5, TokenKeeps, WritingKeeps DEF ReportNext

\* The invariant holds always, for any tables of addresses, bearings and visits.
LEMMA ReportInvariance ==
    ReportSpec => []ReportInv
<1>1. ReportInit => ReportInv
  BY InitInv
<1>2. ReportInv /\ [ReportNext]_reportVars => ReportInv'
  BY StepKeeps
<1> QED
  BY <1>1, <1>2, PTL DEF ReportSpec

\* The tables, the request and the answers of the home reports keep their types.
THEOREM ReportTypes ==
    ReportSpec => []ReportTypeOK
<1>1. ReportInv => ReportTypeOK
  BY DEF ReportInv, WorkSound, ReportSound, ShownSound, ReportTypeOK
<1> QED
  BY <1>1, ReportInvariance, PTL

\* A stored report speaks of its own address and of one entrance, for every address, every bearing
\* and every visit.
THEOREM OneEntrance ==
    ReportSpec => []SpeaksOfItsEntrance
<1>1. ReportInv => SpeaksOfItsEntrance
  BY DEF ReportInv, ReportSound, Speaks, SpeaksOfItsEntrance
<1> QED
  BY <1>1, ReportInvariance, PTL

\* What a response opens is there to read, whoever asks and whoever had the report made.
THEOREM NothingBlank ==
    ReportSpec => []OpenedIsTold
<1>1. ReportInv => OpenedIsTold
  BY DEF ReportInv, ShownSound, OpenedIsTold
<1> QED
  BY <1>1, ReportInvariance, PTL

=============================================================================
