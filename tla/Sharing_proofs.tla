--------------------------- MODULE Sharing_proofs ---------------------------
(***************************************************************************)
(* Sharing is well typed, its collections are sound, its views and lists   *)
(* are honest, and its links implement Publication, for any number of      *)
(* users, reports, collections, links and overlapping requests.            *)
(***************************************************************************)
EXTENDS Sharing, FiniteSetTheorems, TLAPS

\* What a link names was there when it was made. The collection is its sharer's as long as it
\* is kept, the reports are as long as the sharer is there.
Fits(s) ==
    /\ \A r \in s.items \cap Reports :
         /\ report[r].state # "absent"
         /\ s.by \notin gone /\ Here(r) => report[r].owner = s.by
    /\ \A c \in s.items \cap Collections :
         /\ collection[c].state # "absent"
         /\ collection[c].state = "kept" => collection[c].owner = s.by

\* A link's sharer has an account, and the report of a link to one report is there.
LinksInv ==
    \A t \in Tokens : share[t] # NoShare =>
        /\ share[t].by \notin gone /\ Fits(share[t])
        /\ share[t].type = "report" => \A r \in share[t].items : Here(r)

\* A collection is somebody's who has an account.
OwnersInv ==
    \A c \in Collections : collection[c].state = "kept" =>
        collection[c].owner \in Users \ gone

\* What a request may rely on after its awaits. A view of a report saw what was public, a
\* collection's link is there as long as its sharer is, and of a comparison all was public at
\* the beginning, or something is gone for good that has not been read.
JobSound(b) ==
    /\ b.pc = "share" => b.link # NoShare /\ Fits(b.link)
    /\ b.pc = "delete" => b.doomed \in Reports
    /\ b.pc = "list" => b.seen \subseteq b.before
    /\ b.pc = "view" =>
         /\ b.link # NoShare
         /\ b.link.type = "report" => b.seen \subseteq b.before
         /\ b.link.type = "collection" =>
              Fits(b.link) /\ (b.link.by \in gone \/ \E t \in Tokens : share[t] = b.link)
         /\ b.link.type = "comparison" =>
              \/ b.link.items \subseteq b.before
              \/ \E r \in b.link.items \ b.seen : report[r].state = "deleted"

JobsInv == \A j \in Jobs : JobSound(job[j])

IInv == TypeOK /\ CollectionsSound /\ LinksInv /\ OwnersInv /\ JobsInv

\* What no step undoes.
Grows ==
    /\ gone \subseteq gone'
    /\ \A r \in Reports : report[r].state # "absent" =>
         /\ report'[r].state # "absent"
         /\ report[r].state = "deleted" => report'[r].state = "deleted"
         /\ Here(r)' => report'[r].owner = report[r].owner \/ report[r].owner \in gone'
    /\ \A c \in Collections : collection[c].state # "absent" =>
         /\ collection'[c].state # "absent"
         /\ collection'[c].state = "kept" =>
              collection[c].state = "kept" /\ collection'[c].owner = collection[c].owner
    /\ \A t \in Tokens : share[t].type = "collection" /\ share[t].by \notin gone' =>
         share'[t] = share[t]

-----------------------------------------------------------------------------
(* Lemmas on single records.                                                *)

\* The empty rows and the idle job.
LEMMA FirstRecords ==
  NoReport \in Report /\ NoCollection \in Collection /\ NoShare \in Share /\ Idle \in Job
<1>1. NoReport \in Report /\ NoCollection \in Collection
  BY DEF NoReport, NoCollection, Report, Collection, States
<1>2. NoShare \in Share
  BY DEF Share
<1>3. {} \in SUBSET Reports
  OBVIOUS
<1>4. Idle \in Job
  BY <1>2, <1>3 DEF Idle, Job
<1> QED
  BY <1>1, <1>2, <1>4

\* A link there is.
LEMMA ShareType ==
  ASSUME NEW s \in Share, s # NoShare
  PROVE  /\ s \in Link /\ s.by \in Users
         /\ s.type = "report" => s.items \subseteq Reports
         /\ s.type = "collection" => s.items \subseteq Collections
         /\ s.type = "comparison" => s.items \subseteq Reports
         /\ s.type \in {"report", "collection", "comparison"}
BY DEF Share, Link, WellFormed

\* No link has the type of none.
LEMMA NoShareType == NoShare.type = "none"
BY DEF NoShare

\* What createShareLink and its siblings let through is well formed.
LEMMA LinkType ==
  ASSUME NEW s \in Link, OfReport(s) \/ OfCollection(s) \/ OfComparison(s)
  PROVE  s \in Share /\ s # NoShare
<1>1. CASE OfReport(s)
  <2>1. PICK r \in Reports : s.items = {r} /\ s.type = "report"
    BY <1>1 DEF OfReport
  <2>2. Cardinality({r}) = 1
    BY FS_Singleton
  <2> QED
    BY <2>1, <2>2, NoShareType DEF Share, WellFormed
<1>2. CASE OfCollection(s)
  <2>1. PICK c \in Collections : s.items = {c} /\ s.type = "collection"
    BY <1>2 DEF OfCollection
  <2>2. Cardinality({c}) = 1
    BY FS_Singleton
  <2> QED
    BY <2>1, <2>2, NoShareType DEF Share, WellFormed
<1>3. CASE OfComparison(s)
  <2>1. PICK r1 \in Reports, r2 \in Reports :
          s.items = {r1, r2} /\ r1 # r2 /\ s.type = "comparison"
    BY <1>3 DEF OfComparison
  <2>2. IsFiniteSet({r1}) /\ Cardinality({r1}) = 1
    BY FS_Singleton
  <2>3. Cardinality({r1} \cup {r2}) = 1 + 1
    BY <2>1, <2>2, FS_AddElement
  <2>4. {r1} \cup {r2} = {r1, r2}
    OBVIOUS
  <2>5. Cardinality(s.items) = 2 /\ s.items \subseteq Reports
    BY <2>1, <2>3, <2>4
  <2> QED
    BY <2>1, <2>5, NoShareType DEF Share, WellFormed
<1> QED
  BY <1>1, <1>2, <1>3

\* What a link names fits as long as nothing is undone.
LEMMA FitsStable ==
  ASSUME NEW s, TypeOK, Grows, Fits(s)
  PROVE  Fits(s)'
<1>1. ASSUME NEW r \in s.items \cap Reports
      PROVE  /\ report'[r].state # "absent"
             /\ s.by \notin gone' /\ Here(r)' => report'[r].owner = s.by
  <2>1. report[r] \in Report
    BY DEF TypeOK
  <2>2. report[r].state # "absent" /\ report'[r].state # "absent"
    BY DEF Fits, Grows
  <2>3. ASSUME s.by \notin gone', Here(r)'
        PROVE  report'[r].owner = s.by
    <3>1. Here(r)
      BY <2>1, <2>2, <2>3 DEF Grows, Here, Report, States
    <3>2. report[r].owner = s.by
      BY <2>3, <3>1 DEF Fits, Grows
    <3> QED
      BY <2>2, <2>3, <3>2 DEF Grows
  <2> QED
    BY <2>2, <2>3
<1>2. ASSUME NEW c \in s.items \cap Collections
      PROVE  /\ collection'[c].state # "absent"
             /\ collection'[c].state = "kept" => collection'[c].owner = s.by
  BY DEF Fits, Grows
<1> QED
  BY <1>1, <1>2 DEF Fits

-----------------------------------------------------------------------------
(* Lemmas on jobs.                                                          *)

\* What a sound job relies on is not undone.
LEMMA SoundStable ==
  ASSUME NEW b \in Job, TypeOK, Grows, JobSound(b)
  PROVE  JobSound(b)'
<1>1. b.link \in Share
  BY DEF Job
<1>2. Fits(b.link) => Fits(b.link)'
  BY FitsStable
<1>3. ASSUME b.pc = "view", b.link.type = "collection"
      PROVE  b.link.by \in gone' \/ \E t \in Tokens : share'[t] = b.link
  BY <1>3 DEF JobSound, Grows
<1>4. ASSUME b.pc = "view", b.link.type = "comparison"
      PROVE  \/ b.link.items \subseteq b.before
             \/ \E r \in b.link.items \ b.seen : report'[r].state = "deleted"
  <2>1. b.link.items \subseteq Reports
    BY <1>1, <1>4, ShareType DEF JobSound
  <2> QED
    BY <1>4, <2>1 DEF JobSound, Grows
<1> QED
  BY <1>2, <1>3, <1>4 DEF JobSound

\* A step that gives one job a new record has to show that record sound.
LEMMA JobStep ==
  ASSUME IInv, Grows, NEW j \in Jobs, NEW b \in Job,
         job' = [job EXCEPT ![j] = b], JobSound(b)'
  PROVE  JobsInv' /\ job' \in [Jobs -> Job]
<1>1. job \in [Jobs -> Job]
  BY DEF IInv, TypeOK
<1>2. ASSUME NEW i \in Jobs
      PROVE  JobSound(job[i])'
  <2>1. CASE i = j
    BY <1>1, <2>1 DEF JobSound
  <2>2. CASE i # j
    <3>1. PICK c \in Job : c = job[i]
      BY <1>1
    <3>2. JobSound(c)'
      BY <3>1, SoundStable DEF IInv, JobsInv
    <3> QED
      BY <1>1, <2>2, <3>1, <3>2 DEF JobSound
  <2> QED
    BY <2>1, <2>2
<1> QED
  BY <1>1, <1>2 DEF JobsInv

\* A step that touches no job.
LEMMA NoJobStep ==
  ASSUME IInv, Grows, job' = job
  PROVE  JobsInv' /\ job' \in [Jobs -> Job]
<1>1. job \in [Jobs -> Job]
  BY DEF IInv, TypeOK
<1>2. ASSUME NEW i \in Jobs
      PROVE  JobSound(job[i])'
  <2>1. PICK c \in Job : c = job[i]
    BY <1>1
  <2>2. JobSound(c)'
    BY <2>1, SoundStable DEF IInv, JobsInv
  <2> QED
    BY <2>1, <2>2 DEF JobSound
<1> QED
  BY <1>1, <1>2 DEF JobsInv

\* A job that ends.
LEMMA FinishStep ==
  ASSUME IInv, Grows, NEW j \in Jobs, Finish(j)
  PROVE  JobsInv' /\ job' \in [Jobs -> Job]
<1>1. JobSound(Idle)'
  BY DEF Idle, JobSound
<1> QED
  BY <1>1, FirstRecords, JobStep DEF Finish

-----------------------------------------------------------------------------
(* Steps that only a request notices.                                       *)

\* Where nothing but a request changes, nothing is undone.
LEMMA SameGrows ==
  ASSUME IInv, UNCHANGED <<gone, report, collection, inside, share>>
  PROVE  Grows
BY DEF Grows, Here

\* The links that stay fit, as long as their sharers and single reports are there.
LEMMA LinksKept ==
  ASSUME IInv, Grows,
         \A t \in Tokens : share'[t] # NoShare =>
           /\ share'[t] = share[t] /\ share[t].by \notin gone'
           /\ share[t].type = "report" => \A r \in share[t].items : Here(r)'
  PROVE  LinksInv'
<1>1. ASSUME NEW t \in Tokens, share'[t] # NoShare
      PROVE  Fits(share[t])'
  <2>1. PICK s : s = share[t] /\ s # NoShare
    BY <1>1
  <2>2. Fits(s)
    BY <2>1 DEF IInv, LinksInv
  <2>3. Fits(s)'
    BY <2>2, FitsStable DEF IInv
  <2>4. s = share'[t]
    BY <1>1, <2>1
  <2> QED
    BY <2>3, <2>4 DEF Fits
<1> QED
  BY <1>1 DEF LinksInv

\* Such a step keeps what it does not touch.
LEMMA JobOnly ==
  ASSUME IInv, UNCHANGED <<gone, report, collection, inside, share>>,
         JobsInv' /\ job' \in [Jobs -> Job]
  PROVE  IInv'
<1>1. LinksInv'
  BY SameGrows, LinksKept DEF IInv, LinksInv, Here
<1>2. OwnersInv'
  BY DEF IInv, OwnersInv
<1>3. CollectionsSound'
  BY DEF IInv, CollectionsSound, Here, Keeps
<1> QED
  BY <1>1, <1>2, <1>3 DEF IInv, TypeOK

\* Which reports a deletion is about is known when it begins.
LEMMA DeleteReportBeginKeeps ==
  ASSUME IInv, NEW j \in Jobs, NEW u \in Users, NEW r \in Reports, DeleteReportBegin(j, u, r)
  PROVE  IInv'
<1>1. PICK p \in {"delete"}, a \in Job : p = "delete" /\ a = Idle
  BY FirstRecords
<1> DEFINE b == [a EXCEPT !.pc = p, !.doomed = r]
<1>2. b \in Job /\ b.pc = "delete" /\ b.doomed = r
  BY <1>1 DEF Job
<1>3. job' = [job EXCEPT ![j] = b]
  BY <1>1 DEF DeleteReportBegin
<1> HIDE DEF b
<1>4. JobSound(b)'
  BY <1>2 DEF JobSound
<1>5. JobsInv' /\ job' \in [Jobs -> Job]
  BY <1>2, <1>3, <1>4, JobStep, SameGrows DEF DeleteReportBegin
<1> QED
  BY <1>5, JobOnly DEF DeleteReportBegin

\* What is in somebody's collections is his.
LEMMA ListBeginKeeps ==
  ASSUME IInv, NEW j \in Jobs, NEW u \in Users, ListBegin(j, u)
  PROVE  IInv'
<1>1. PICK S \in SUBSET Reports : S = UNION {ReportsInside(u, c) : c \in Collections}
  BY DEF ReportsInside
<1>2. PICK B \in SUBSET Reports : B = {r \in Reports : Owns(u, r)}
  OBVIOUS
<1>3. ASSUME NEW r \in S
      PROVE  r \in B
  <2>1. PICK c \in Collections : r \in Reports /\ Keeps(u, c) /\ <<r, c>> \in inside
    BY <1>1 DEF ReportsInside
  <2>2. Here(r) /\ Keeps(report[r].owner, c)
    BY <2>1 DEF IInv, CollectionsSound
  <2> QED
    BY <1>2, <2>1, <2>2 DEF Keeps, Owns
<1>4. PICK p \in {"list"}, a \in Job : p = "list" /\ a = Idle
  BY FirstRecords
<1> DEFINE b == [a EXCEPT !.pc = p, !.caller = u, !.seen = S, !.before = B]
<1>5. b \in Job /\ b.pc = "list" /\ b.seen = S /\ b.before = B
  BY <1>4 DEF Job
<1>6. job' = [job EXCEPT ![j] = b]
  BY <1>1, <1>2, <1>4 DEF ListBegin
<1> HIDE DEF b
<1>7. JobSound(b)'
  BY <1>3, <1>5 DEF JobSound
<1>8. JobsInv' /\ job' \in [Jobs -> Job]
  BY <1>5, <1>6, <1>7, JobStep, SameGrows DEF ListBegin
<1> QED
  BY <1>8, JobOnly DEF ListBegin

\* What a sharer is to show is his when he asks.
LEMMA ShareBeginKeeps ==
  ASSUME IInv, NEW j \in Jobs, NEW s \in Link, ShareBegin(j, s)
  PROVE  IInv'
<1>1. s \in Share /\ s # NoShare
  BY LinkType DEF ShareBegin
<1>2. PICK p \in {"share"}, a \in Job : p = "share" /\ a = Idle
  BY FirstRecords
<1> DEFINE b == [a EXCEPT !.pc = p, !.link = s]
<1>3. b \in Job /\ b.pc = "share" /\ b.link = s
  BY <1>1, <1>2 DEF Job
<1>4. job' = [job EXCEPT ![j] = b]
  BY <1>2 DEF ShareBegin
<1>5. Fits(s)
  <2>1. CASE OfReport(s)
    BY <2>1, NoneIsNoValue, Parameters DEF OfReport, Owns, Here, Fits
  <2>2. CASE OfCollection(s)
    BY <2>2, Parameters DEF OfCollection, Keeps, Fits
  <2>3. CASE OfComparison(s)
    BY <2>3, Parameters DEF OfComparison, Owns, Here, Fits
  <2> QED
    BY <2>1, <2>2, <2>3 DEF ShareBegin
<1> HIDE DEF b
<1>6. JobSound(b)'
  BY <1>1, <1>3, <1>5, SameGrows, FitsStable DEF JobSound, ShareBegin, IInv
<1>7. JobsInv' /\ job' \in [Jobs -> Job]
  BY <1>3, <1>4, <1>6, JobStep, SameGrows DEF ShareBegin
<1> QED
  BY <1>7, JobOnly DEF ShareBegin

\* A view reads a link that fits. Of a comparison it misses what was deleted.
LEMMA ViewBeginKeeps ==
  ASSUME IInv, NEW j \in Jobs, NEW t \in Tokens, ViewBegin(j, t)
  PROVE  IInv'
<1>1. PICK s \in Share : s = share[t] /\ s # NoShare
  BY DEF ViewBegin, IInv, TypeOK
<1>2. PICK B \in SUBSET Reports : B = {r \in Reports : <<s.by, r>> \in Public}
  OBVIOUS
<1>3. PICK S \in SUBSET Reports : S = IF s.type = "report" THEN s.items ELSE {}
  BY <1>1, ShareType
<1>4. PICK p \in {"view"}, a \in Job : p = "view" /\ a = Idle
  BY FirstRecords
<1> DEFINE b == [a EXCEPT !.pc = p, !.link = s, !.seen = S, !.before = B]
<1>5. b \in Job /\ b.pc = "view" /\ b.link = s /\ b.seen = S /\ b.before = B
  BY <1>4 DEF Job
<1>6. job' = [job EXCEPT ![j] = b]
  BY <1>1, <1>2, <1>3, <1>4 DEF ViewBegin, ReadWithLink
<1>7. s.by \in Users /\ s.by \notin gone /\ Fits(s)
  BY <1>1, ShareType DEF IInv, LinksInv
<1>8. ASSUME s.type = "report"
      PROVE  S \subseteq B
  <2>1. \A r \in s.items : r \in Reports /\ Here(r)
    BY <1>1, <1>8, ShareType DEF IInv, LinksInv
  <2>2. ASSUME NEW r \in s.items
        PROVE  <<s.by, r>> \in Public
    BY <1>1, <1>7, <1>8, <2>1 DEF Public
  <2> QED
    BY <1>2, <1>3, <1>8, <2>1, <2>2
<1>9. ASSUME s.type = "comparison"
      PROVE  \/ s.items \subseteq B
             \/ \E r \in s.items \ S : report[r].state = "deleted"
  <2>1. s.items \subseteq Reports /\ S = {}
    BY <1>1, <1>3, <1>9, ShareType
  <2>2. CASE \A r \in s.items : Here(r)
    <3>1. ASSUME NEW r \in s.items
          PROVE  <<s.by, r>> \in Public
      BY <1>1, <1>7, <1>9, <2>1, <2>2 DEF Public
    <3> QED
      BY <1>2, <2>1, <3>1
  <2>3. CASE \E r \in s.items : ~Here(r)
    <3>1. PICK r \in s.items : ~Here(r)
      BY <2>3
    <3>2. report[r].state # "absent" /\ report[r] \in Report
      BY <1>7, <2>1 DEF Fits, IInv, TypeOK
    <3>3. report[r].state = "deleted"
      BY <3>1, <3>2 DEF Here, Report, States
    <3> QED
      BY <2>1, <3>3
  <2> QED
    BY <2>2, <2>3
<1> HIDE DEF b
<1>10. JobSound(b)
  BY <1>1, <1>5, <1>7, <1>8, <1>9 DEF JobSound
<1>11. JobSound(b)'
  BY <1>5, <1>10, SameGrows, SoundStable DEF ViewBegin, IInv
<1>12. JobsInv' /\ job' \in [Jobs -> Job]
  BY <1>5, <1>6, <1>11, JobStep, SameGrows DEF ViewBegin
<1> QED
  BY <1>12, JobOnly DEF ViewBegin

\* What the first read of a comparison finds is not what is missing.
LEMMA ViewFirstKeeps ==
  ASSUME IInv, NEW j \in Jobs, NEW r \in Reports, ViewFirst(j, r)
  PROVE  IInv'
<1>1. PICK a \in Job : a = job[j] /\ JobSound(a)
  BY DEF IInv, TypeOK, JobsInv
<1>2. PICK S \in SUBSET Reports : S = {r}
  OBVIOUS
<1> DEFINE b == [a EXCEPT !.seen = S]
<1>3. b \in Job /\ b.pc = a.pc /\ b.link = a.link /\ b.seen = S /\ b.before = a.before
  BY DEF Job
<1>4. job' = [job EXCEPT ![j] = b]
  BY <1>1, <1>2 DEF ViewFirst, IInv, TypeOK
<1>5. a.pc = "view" /\ a.link.type = "comparison" /\ a.seen = {} /\ report[r].state = "kept"
  BY <1>1 DEF ViewFirst, At, Here
<1> HIDE DEF b
<1>6. JobSound(b)
  BY <1>1, <1>2, <1>3, <1>5 DEF JobSound
<1>7. JobSound(b)'
  BY <1>3, <1>6, SameGrows, SoundStable DEF ViewFirst, IInv
<1>8. JobsInv' /\ job' \in [Jobs -> Job]
  BY <1>3, <1>4, <1>7, JobStep, SameGrows DEF ViewFirst
<1> QED
  BY <1>8, JobOnly DEF ViewFirst

\* Whoever answers or fails changes nothing else.
LEMMA AnswerKeeps ==
  ASSUME IInv, NEW j \in Jobs, Finish(j),
         UNCHANGED <<gone, report, collection, inside, share>>
  PROVE  IInv'
BY FinishStep, JobOnly, SameGrows

-----------------------------------------------------------------------------
(* Steps on reports, collections and links.                                 *)

\* A report is new, and in no collection and no link.
LEMMA CreateReportKeeps ==
  ASSUME IInv, NEW u \in Users, NEW r \in Reports, CreateReport(u, r)
  PROVE  IInv'
<1>1. PICK b \in Report : b = [state |-> "kept", owner |-> u]
  BY DEF Report, States
<1>2. report \in [Reports -> Report] /\ report' = [report EXCEPT ![r] = b]
  BY <1>1 DEF CreateReport, IInv, TypeOK
<1>3. \A q \in Reports : report[q].state # "absent" => report'[q] = report[q]
  BY <1>2 DEF CreateReport
<1>4. Grows
  BY <1>3 DEF Grows, CreateReport, Here
<1>5. \A q \in Reports : Here(q) => Here(q)' /\ report'[q] = report[q]
  BY <1>3 DEF Here
<1>6. LinksInv'
  <2>1. ASSUME NEW t \in Tokens, share[t] # NoShare, share[t].type = "report"
        PROVE  \A q \in share[t].items : Here(q)'
    BY <1>5, <2>1, ShareType DEF IInv, TypeOK, LinksInv
  <2> QED
    BY <1>4, <2>1, LinksKept DEF CreateReport, IInv, LinksInv
<1>7. CollectionsSound'
  <2>1. ASSUME NEW p \in inside
        PROVE  Here(p[1])' /\ Keeps(report[p[1]].owner, p[2])'
    <3>1. p[1] \in Reports /\ Here(p[1]) /\ Keeps(report[p[1]].owner, p[2])
      BY DEF IInv, TypeOK, CollectionsSound
    <3> QED
      BY <1>5, <3>1 DEF CreateReport, Keeps
  <2> QED
    BY <2>1 DEF CreateReport, IInv, CollectionsSound
<1>8. OwnersInv'
  BY DEF CreateReport, IInv, OwnersInv
<1>9. JobsInv' /\ job' \in [Jobs -> Job]
  BY <1>4, NoJobStep DEF CreateReport
<1> QED
  BY <1>2, <1>6, <1>7, <1>8, <1>9 DEF CreateReport, IInv, TypeOK

\* A collection is new, and nothing is in it.
LEMMA CreateCollectionKeeps ==
  ASSUME IInv, NEW u \in Users, NEW c \in Collections, NEW n \in Names,
         CreateCollection(u, c, n)
  PROVE  IInv'
<1>1. PICK b \in Collection : b = [state |-> "kept", owner |-> u, name |-> n]
  BY DEF Collection, States
<1>2. /\ collection \in [Collections -> Collection]
      /\ collection' = [collection EXCEPT ![c] = b]
  BY <1>1 DEF CreateCollection, IInv, TypeOK
<1>3. \A d \in Collections : collection[d].state # "absent" => collection'[d] = collection[d]
  BY <1>2 DEF CreateCollection
<1>4. Grows
  BY <1>3 DEF Grows, CreateCollection, Here
<1>5. LinksInv'
  BY <1>4, LinksKept DEF CreateCollection, IInv, LinksInv, Here
<1>6. CollectionsSound'
  <2>1. ASSUME NEW p \in inside
        PROVE  Keeps(report[p[1]].owner, p[2])'
    <3>1. p[2] \in Collections /\ Keeps(report[p[1]].owner, p[2])
      BY DEF IInv, TypeOK, CollectionsSound
    <3> QED
      BY <1>3, <3>1 DEF CreateCollection, Keeps
  <2> QED
    BY <2>1 DEF CreateCollection, IInv, CollectionsSound, Here
<1>7. OwnersInv'
  BY <1>1, <1>2 DEF CreateCollection, IInv, OwnersInv
<1>8. JobsInv' /\ job' \in [Jobs -> Job]
  BY <1>4, NoJobStep DEF CreateCollection
<1> QED
  BY <1>2, <1>5, <1>6, <1>7, <1>8 DEF CreateCollection, IInv, TypeOK

\* Only the name changes.
LEMMA RenameKeeps ==
  ASSUME IInv, NEW u \in Users, NEW c \in Collections, NEW n \in Names, Rename(u, c, n)
  PROVE  IInv'
<1>1. collection \in [Collections -> Collection]
  BY DEF IInv, TypeOK
<1>2. \A d \in Collections : /\ collection'[d].state = collection[d].state
                             /\ collection'[d].owner = collection[d].owner
  BY <1>1 DEF Rename, Collection
<1>3. collection' \in [Collections -> Collection]
  BY <1>1 DEF Rename, Collection
<1>4. Grows
  BY <1>2 DEF Grows, Rename, Here
<1>5. LinksInv'
  BY <1>4, LinksKept DEF Rename, IInv, LinksInv, Here
<1>6. CollectionsSound'
  <2>1. ASSUME NEW p \in inside
        PROVE  Keeps(report[p[1]].owner, p[2])'
    <3>1. p[2] \in Collections /\ Keeps(report[p[1]].owner, p[2])
      BY DEF IInv, TypeOK, CollectionsSound
    <3> QED
      BY <1>2, <3>1 DEF Rename, Keeps
  <2> QED
    BY <2>1 DEF Rename, IInv, CollectionsSound, Here
<1>7. OwnersInv'
  BY <1>2 DEF Rename, IInv, OwnersInv
<1>8. JobsInv' /\ job' \in [Jobs -> Job]
  BY <1>4, NoJobStep DEF Rename
<1> QED
  BY <1>3, <1>5, <1>6, <1>7, <1>8 DEF Rename, IInv, TypeOK

\* A collection goes with its places. Links to it stay, and lead nowhere.
LEMMA RemoveCollectionKeeps ==
  ASSUME IInv, NEW u \in Users, NEW c \in Collections, RemoveCollection(u, c)
  PROVE  IInv'
<1>1. PICK b \in Collection : b = [NoCollection EXCEPT !.state = "deleted"]
  BY FirstRecords DEF Collection, States, NoCollection
<1>2. /\ collection \in [Collections -> Collection]
      /\ collection' = [collection EXCEPT ![c] = b]
  BY <1>1 DEF RemoveCollection, IInv, TypeOK
<1>3. b.state = "deleted"
  BY <1>1 DEF NoCollection
<1>4. \A d \in Collections : d # c => collection'[d] = collection[d]
  BY <1>2
<1>5. collection'[c].state = "deleted"
  BY <1>2, <1>3
<1>6. Grows
  BY <1>4, <1>5 DEF Grows, RemoveCollection, Here
<1>7. LinksInv'
  BY <1>6, LinksKept DEF RemoveCollection, IInv, LinksInv, Here
<1>8. CollectionsSound'
  <2>1. ASSUME NEW p \in inside, p[2] # c
        PROVE  Keeps(report[p[1]].owner, p[2])'
    <3>1. p[2] \in Collections /\ Keeps(report[p[1]].owner, p[2])
      BY DEF IInv, TypeOK, CollectionsSound
    <3> QED
      BY <1>4, <2>1, <3>1 DEF RemoveCollection, Keeps
  <2> QED
    BY <2>1 DEF RemoveCollection, IInv, CollectionsSound, Here
<1>9. OwnersInv'
  BY <1>4, <1>5 DEF RemoveCollection, IInv, OwnersInv
<1>10. JobsInv' /\ job' \in [Jobs -> Job]
  BY <1>6, NoJobStep DEF RemoveCollection
<1> QED
  BY <1>2, <1>7, <1>8, <1>9, <1>10 DEF RemoveCollection, IInv, TypeOK

\* A report is put into a collection, or taken out of it.
LEMMA PlaceKeeps ==
  ASSUME IInv, NEW u \in Users, NEW r \in Reports, NEW c \in Collections,
         AddReport(u, r, c) \/ RemoveReport(u, r, c)
  PROVE  IInv'
<1>1. UNCHANGED <<gone, report, collection, share, job>>
  BY DEF AddReport, RemoveReport
<1>2. Grows
  BY <1>1 DEF Grows, Here
<1>3. LinksInv'
  BY <1>1, <1>2, LinksKept DEF IInv, LinksInv, Here
<1>4. /\ inside' \subseteq inside \cup {<<r, c>>}
      /\ <<r, c>> \in inside' => MayHold(u, r, c) \/ <<r, c>> \in inside
  BY DEF AddReport, RemoveReport
<1>5. \A p \in inside' : Here(p[1]) /\ Keeps(report[p[1]].owner, p[2])
                         /\ (p[1] \in OnSite <=> p[2] \in OnSite)
  BY <1>4 DEF IInv, CollectionsSound, MayHold, Owns
<1>6. CollectionsSound'
  BY <1>1, <1>5 DEF CollectionsSound, Here, Keeps
<1>7. OwnersInv'
  BY <1>1 DEF IInv, OwnersInv
<1>8. JobsInv' /\ job' \in [Jobs -> Job]
  BY <1>1, <1>2, NoJobStep
<1> QED
  BY <1>1, <1>3, <1>4, <1>6, <1>7, <1>8 DEF IInv, TypeOK

\* The link that is made is the one that was checked.
LEMMA ShareWriteKeeps ==
  ASSUME IInv, NEW j \in Jobs, NEW t \in Tokens, ShareWrite(j, t)
  PROVE  IInv'
<1>1. PICK b \in Job : b = job[j] /\ JobSound(b)
  BY DEF IInv, TypeOK, JobsInv
<1>2. PICK s \in Share : s = b.link
  BY DEF Job
<1>3. /\ b.pc = "share" /\ share[t] = NoShare /\ s.by \notin gone
      /\ s.type = "report" => \A r \in s.items : Here(r)
      /\ share' = [share EXCEPT ![t] = s] /\ Finish(j)
      /\ UNCHANGED <<gone, report, collection, inside>>
  BY <1>1, <1>2 DEF ShareWrite, At
<1>4. s # NoShare /\ Fits(s)
  BY <1>1, <1>2, <1>3 DEF JobSound
<1>5. share \in [Tokens -> Share]
  BY DEF IInv, TypeOK
<1>6. Grows
  BY <1>3, <1>5, NoShareType DEF Grows, Here
<1>7. LinksInv'
  <2>1. ASSUME NEW v \in Tokens, share'[v] # NoShare
        PROVE  /\ share'[v].by \notin gone /\ Fits(share'[v])
               /\ share'[v].type = "report" => \A r \in share'[v].items : Here(r)
    <3>1. CASE v = t
      BY <1>3, <1>4, <1>5, <3>1
    <3>2. CASE v # t
      BY <1>3, <1>5, <2>1, <3>2 DEF IInv, LinksInv
    <3> QED
      BY <3>1, <3>2
  <2> QED
    BY <1>3, <2>1 DEF LinksInv, Fits, Here
<1>8. CollectionsSound' /\ OwnersInv'
  BY <1>3 DEF IInv, CollectionsSound, OwnersInv, Here, Keeps
<1>9. JobsInv' /\ job' \in [Jobs -> Job]
  BY <1>3, <1>6, FinishStep
<1> QED
  BY <1>3, <1>5, <1>7, <1>8, <1>9 DEF IInv, TypeOK

\* A deleted report takes its places and the links to it alone along.
LEMMA DeleteReportWriteKeeps ==
  ASSUME IInv, NEW j \in Jobs, DeleteReportWrite(j)
  PROVE  IInv'
<1>1. PICK r \in Reports : r = job[j].doomed
  BY DEF IInv, TypeOK, JobsInv, JobSound, DeleteReportWrite, At
<1>2. PICK b \in Report : b = [state |-> "deleted", owner |-> None]
  BY DEF Report, States
<1>3. /\ report \in [Reports -> Report] /\ report' = [report EXCEPT ![r] = b]
      /\ b.state = "deleted"
  BY <1>1, <1>2 DEF DeleteReportWrite, IInv, TypeOK
<1>4. \A q \in Reports : q # r => report'[q] = report[q] /\ (Here(q) => Here(q)')
  BY <1>3 DEF Here
<1>5. report'[r].state = "deleted"
  BY <1>3
<1>6. \A t \in Tokens : share'[t] = IF share[t].type = "report" /\ r \in share[t].items
                                    THEN NoShare ELSE share[t]
  BY <1>1 DEF DeleteReportWrite, LinksWithout
<1>7. Grows
  BY <1>4, <1>5, <1>6 DEF Grows, Here, DeleteReportWrite
<1>8. LinksInv'
  <2>1. ASSUME NEW t \in Tokens, share'[t] # NoShare
        PROVE  /\ share'[t] = share[t] /\ share[t].by \notin gone'
               /\ share[t].type = "report" => \A q \in share[t].items : Here(q)'
    <3>1. share'[t] = share[t] /\ share[t] # NoShare
      BY <1>6, <2>1
    <3>2. ASSUME share[t].type = "report", NEW q \in share[t].items
          PROVE  Here(q)'
      <4>1. q \in Reports /\ Here(q) /\ q # r
        BY <1>6, <2>1, <3>1, <3>2, ShareType DEF IInv, TypeOK, LinksInv
      <4> QED
        BY <1>4, <4>1
    <3> QED
      BY <3>1, <3>2 DEF DeleteReportWrite, IInv, LinksInv
  <2> QED
    BY <1>7, <2>1, LinksKept
<1>9. CollectionsSound'
  <2>1. ASSUME NEW p \in inside'
        PROVE  (Here(p[1]) /\ Keeps(report[p[1]].owner, p[2]))'
    <3>1. p \in inside /\ p[1] \in Reports /\ p[1] # r
      BY <1>1 DEF DeleteReportWrite, IInv, TypeOK
    <3>2. Here(p[1]) /\ Keeps(report[p[1]].owner, p[2])
      BY <3>1 DEF IInv, CollectionsSound
    <3> QED
      BY <1>4, <3>1, <3>2 DEF DeleteReportWrite, Keeps
  <2> QED
    BY <2>1 DEF DeleteReportWrite, IInv, CollectionsSound
<1>10. OwnersInv'
  BY DEF DeleteReportWrite, IInv, OwnersInv
<1>11. JobsInv' /\ job' \in [Jobs -> Job]
  BY <1>7, FinishStep DEF DeleteReportWrite
<1>12. share' \in [Tokens -> Share]
  BY <1>6, FirstRecords DEF DeleteReportWrite, LinksWithout, IInv, TypeOK
<1> QED
  BY <1>3, <1>8, <1>9, <1>10, <1>11, <1>12 DEF DeleteReportWrite, IInv, TypeOK

-----------------------------------------------------------------------------
(* Deletions of accounts.                                                   *)

\* An account goes, and with it its collections, its links, and what was in the collections.
\* Its reports have nobody any more, or go, too.
LEMMA CascadeKeeps ==
  ASSUME IInv, NEW u \in Users, Cascade(u), report' \in [Reports -> Report],
         \A r \in Reports :
           /\ report[r].owner # u => report'[r] = report[r]
           /\ report[r].owner = u =>
                /\ report'[r].owner = None
                /\ report'[r].state \in {report[r].state, "deleted"},
         inside' \subseteq inside,
         \A p \in inside' : collection[p[2]].owner # u
  PROVE  Grows /\ IInv'
<1>1. collection \in [Collections -> Collection] /\ share \in [Tokens -> Share]
  BY DEF IInv, TypeOK
<1>2. PICK b \in Collection : b = [NoCollection EXCEPT !.state = "deleted"]
  BY FirstRecords DEF Collection, States, NoCollection
<1>3. b.state = "deleted"
  BY <1>2 DEF NoCollection
<1>4. \A c \in Collections :
        collection'[c] = IF collection[c].owner = u THEN b ELSE collection[c]
  BY <1>2 DEF Cascade
<1>5. \A t \in Tokens : share'[t] = IF share[t].by = u THEN NoShare ELSE share[t]
  BY DEF Cascade
<1>6. \A r \in Reports : report[r].owner = u => ~Here(r)' \/ report[r].owner \in gone'
  BY DEF Cascade
<1>7. Grows
  <2>1. ASSUME NEW r \in Reports, report[r].state # "absent"
        PROVE  /\ report'[r].state # "absent"
               /\ report[r].state = "deleted" => report'[r].state = "deleted"
               /\ Here(r)' => report'[r].owner = report[r].owner \/ report[r].owner \in gone'
    BY <1>6, <2>1
  <2>2. ASSUME NEW c \in Collections, collection[c].state # "absent"
        PROVE  /\ collection'[c].state # "absent"
               /\ collection'[c].state = "kept" =>
                    collection[c].state = "kept" /\ collection'[c].owner = collection[c].owner
    BY <1>3, <1>4, <2>2
  <2>3. ASSUME NEW t \in Tokens, share[t].by \notin gone'
        PROVE  share'[t] = share[t]
    BY <1>5, <2>3 DEF Cascade
  <2>4. gone \subseteq gone'
    BY DEF Cascade
  <2> QED
    BY <2>1, <2>2, <2>3, <2>4 DEF Grows
<1>8. LinksInv'
  <2>1. ASSUME NEW t \in Tokens, share'[t] # NoShare
        PROVE  /\ share'[t] = share[t] /\ share[t].by \notin gone'
               /\ share[t].type = "report" => \A q \in share[t].items : Here(q)'
    <3>1. share'[t] = share[t] /\ share[t] # NoShare /\ share[t].by # u
      BY <1>5, <2>1
    <3>2. share[t].by \notin gone /\ Fits(share[t])
      BY <3>1 DEF IInv, LinksInv
    <3>3. ASSUME share[t].type = "report", NEW q \in share[t].items
          PROVE  Here(q)'
      <4>1. q \in Reports /\ Here(q)
        BY <1>1, <3>1, <3>3, ShareType DEF IInv, LinksInv
      <4>2. report[q].owner # u
        BY <3>1, <3>2, <3>3, <4>1 DEF Fits
      <4> QED
        BY <4>1, <4>2 DEF Here
    <3> QED
      BY <3>1, <3>2, <3>3 DEF Cascade
  <2> QED
    BY <1>7, <2>1, LinksKept
<1>9. CollectionsSound'
  <2>1. ASSUME NEW p \in inside'
        PROVE  (Here(p[1]) /\ Keeps(report[p[1]].owner, p[2]))'
    <3>1. p \in inside /\ p[1] \in Reports /\ p[2] \in Collections
          /\ collection[p[2]].owner # u
      BY DEF IInv, TypeOK
    <3>2. Here(p[1]) /\ Keeps(report[p[1]].owner, p[2])
      BY <3>1 DEF IInv, CollectionsSound
    <3>3. report'[p[1]] = report[p[1]]
      BY <3>1, <3>2 DEF Keeps
    <3> QED
      BY <1>4, <3>1, <3>2, <3>3 DEF Keeps, Here
  <2> QED
    BY <2>1 DEF IInv, CollectionsSound
<1>10. OwnersInv'
  BY <1>3, <1>4 DEF Cascade, IInv, OwnersInv
<1>11. JobsInv' /\ job' \in [Jobs -> Job]
  BY <1>7, NoJobStep DEF Cascade
<1>12. share' \in [Tokens -> Share] /\ collection' \in [Collections -> Collection]
  BY <1>1, <1>2, FirstRecords DEF Cascade
<1> QED
  BY <1>7, <1>8, <1>9, <1>10, <1>11, <1>12 DEF Cascade, IInv, TypeOK

\* Who leaves.
LEMMA DeleteUserKeeps ==
  ASSUME IInv, NEW u \in Users, DeleteUser(u)
  PROVE  IInv'
<1>1. report \in [Reports -> Report]
  BY DEF IInv, TypeOK
<1>2. ASSUME NEW r \in Reports
      PROVE  /\ report'[r] \in Report
             /\ report[r].owner # u => report'[r] = report[r]
             /\ report[r].owner = u => report'[r].owner = None /\ report'[r].state = report[r].state
  <2>1. PICK a \in Report : a = report[r]
    BY <1>1
  <2>2. PICK n \in Users \cup {None} : n = None
    OBVIOUS
  <2>3. [a EXCEPT !.owner = n] \in Report /\ [a EXCEPT !.owner = n].owner = n
        /\ [a EXCEPT !.owner = n].state = a.state
    BY DEF Report
  <2> QED
    BY <2>1, <2>2, <2>3 DEF DeleteUser
<1>3. report' \in [Reports -> Report]
  BY <1>2 DEF DeleteUser
<1> QED
  BY <1>2, <1>3, CascadeKeeps DEF DeleteUser

\* Who is erased.
LEMMA EraseUserKeeps ==
  ASSUME IInv, NEW u \in Users, EraseUser(u)
  PROVE  IInv'
<1>1. report \in [Reports -> Report]
  BY DEF IInv, TypeOK
<1>2. PICK b \in Report : b = [state |-> "deleted", owner |-> None]
  BY DEF Report, States
<1>3. b.owner = None /\ b.state = "deleted"
  BY <1>2
<1>4. report' = [r \in Reports |-> IF report[r].owner = u THEN b ELSE report[r]]
  BY <1>2 DEF EraseUser
<1>5. report' \in [Reports -> Report]
  BY <1>1, <1>4
<1> QED
  BY <1>3, <1>4, <1>5, CascadeKeeps DEF EraseUser

-----------------------------------------------------------------------------
(* The invariant.                                                           *)

\* An empty database is sound.
LEMMA InitIInv == Init => IInv
<1> SUFFICES ASSUME Init PROVE IInv
  OBVIOUS
<1>1. TypeOK
  BY FirstRecords DEF Init, TypeOK
<1>2. CollectionsSound /\ LinksInv /\ OwnersInv
  BY DEF Init, CollectionsSound, LinksInv, OwnersInv, NoCollection
<1>3. JobsInv
  BY DEF Init, JobsInv, JobSound, Idle
<1> QED
  BY <1>1, <1>2, <1>3 DEF IInv

\* Every step keeps it.
LEMMA NextIInv == IInv /\ [Next]_vars => IInv'
<1> SUFFICES ASSUME IInv, [Next]_vars PROVE IInv'
  OBVIOUS
<1>1. ASSUME NEW u \in Users, DeleteUser(u) \/ EraseUser(u) PROVE IInv'
  BY <1>1, DeleteUserKeeps, EraseUserKeeps
<1>2. ASSUME NEW u \in Users, NEW r \in Reports, CreateReport(u, r) PROVE IInv'
  BY <1>2, CreateReportKeeps
<1>3. ASSUME NEW u \in Users, NEW c \in Collections, RemoveCollection(u, c) PROVE IInv'
  BY <1>3, RemoveCollectionKeeps
<1>4. ASSUME NEW u \in Users, NEW c \in Collections, NEW n \in Names,
             CreateCollection(u, c, n) \/ Rename(u, c, n)
      PROVE  IInv'
  BY <1>4, CreateCollectionKeeps, RenameKeeps
<1>5. ASSUME NEW u \in Users, NEW c \in Collections, NEW r \in Reports,
             AddReport(u, r, c) \/ RemoveReport(u, r, c)
      PROVE  IInv'
  BY <1>5, PlaceKeeps
<1>6. ASSUME NEW j \in Jobs, NEW u \in Users, NEW r \in Reports, DeleteReportBegin(j, u, r)
      PROVE  IInv'
  BY <1>6, DeleteReportBeginKeeps
<1>7. ASSUME NEW j \in Jobs, NEW s \in Link, ShareBegin(j, s) PROVE IInv'
  BY <1>7, ShareBeginKeeps
<1>8. ASSUME NEW j \in Jobs, NEW t \in Tokens, ShareWrite(j, t) \/ ViewBegin(j, t) PROVE IInv'
  BY <1>8, ShareWriteKeeps, ViewBeginKeeps
<1>9. ASSUME NEW j \in Jobs, NEW r \in Reports, ViewFirst(j, r) PROVE IInv'
  BY <1>9, ViewFirstKeeps
<1>10. ASSUME NEW j \in Jobs, NEW R \in SUBSET Reports, ViewLast(j, R) \/ ListRest(j, R)
       PROVE  IInv'
  BY <1>10, AnswerKeeps DEF ViewLast, ListRest
<1>11. ASSUME NEW j \in Jobs, NEW u \in Users, ListBegin(j, u) PROVE IInv'
  BY <1>11, ListBeginKeeps
<1>12. ASSUME NEW j \in Jobs, DeleteReportWrite(j) \/ JobFails(j) PROVE IInv'
  BY <1>12, DeleteReportWriteKeeps, AnswerKeeps DEF JobFails
<1>13. CASE UNCHANGED vars
  BY <1>13, JobOnly, NoJobStep, SameGrows DEF vars
<1> QED
  BY <1>1, <1>2, <1>3, <1>4, <1>5, <1>6, <1>7, <1>8, <1>9, <1>10, <1>11, <1>12, <1>13 DEF Next

\* So it holds throughout.
LEMMA Invariance == Spec => []IInv
BY InitIInv, NextIInv, PTL DEF Spec

\* The variables always hold values of their types: above all a link never names anything but
\* one report, one collection or two different reports, whatever was deleted since
\* createShareLink and createShareComparison looked.
THEOREM TypeCorrect == Spec => []TypeOK
BY Invariance, PTL DEF IInv

\* A collection never holds a report that was deleted, is orphaned, is not its owner's or of
\* another type, whatever is deleted while addReport puts reports in.
THEOREM SoundCollections == Spec => []CollectionsSound
BY Invariance, PTL DEF IInv

-----------------------------------------------------------------------------
(* Honest views and lists.                                                  *)

\* What a view shows was public at its beginning or is public at its end.
LEMMA ViewHonest ==
  ASSUME IInv, NEW j \in Jobs, NEW R \in SUBSET Reports, ViewLast(j, R), NEW r \in R
  PROVE  r \in job[j].before \/ <<job[j].link.by, r>> \in Public
<1>1. PICK b \in Job : b = job[j] /\ JobSound(b)
  BY DEF IInv, TypeOK, JobsInv
<1>2. b.pc = "view" /\ b.link \in Share /\ b.link # NoShare
  BY <1>1 DEF ViewLast, At, Job, JobSound
<1>3. CASE ShowsReport(j, R)
  BY <1>1, <1>2, <1>3 DEF ShowsReport, JobSound
<1>4. CASE ShowsCollection(j, R)
  <2>1. PICK c \in b.link.items :
          b.link.type = "collection" /\ collection[c].state = "kept" /\ <<r, c>> \in inside
    BY <1>1, <1>4 DEF ShowsCollection
  <2>2. c \in Collections /\ b.link.by \in Users
    BY <1>2, <2>1, ShareType
  <2>3. b.link.by \notin gone
    BY <1>1, <1>2, <2>1, <2>2 DEF JobSound, Fits, IInv, OwnersInv
  <2>4. PICK t \in Tokens : share[t] = b.link
    BY <1>1, <1>2, <2>1, <2>3 DEF JobSound
  <2> QED
    BY <1>1, <2>1, <2>2, <2>4 DEF Public
<1>5. CASE CountsCollection(j, R)
  BY <1>5 DEF CountsCollection
<1>6. CASE ShowsComparison(j, R)
  <2>1. b.link.items \subseteq Reports
    BY <1>1, <1>2, <1>6, ShareType DEF ShowsComparison
  <2>2. b.link.items \subseteq b.before
    BY <1>1, <1>2, <1>6, <2>1 DEF ShowsComparison, JobSound, Here
  <2> QED
    BY <1>1, <1>6, <2>2 DEF ShowsComparison
<1> QED
  BY <1>3, <1>4, <1>5, <1>6 DEF ViewLast

\* What a list has was the caller's or is, and it misses only what is in a collection.
LEMMA ListHonest ==
  ASSUME IInv, NEW j \in Jobs, NEW R \in SUBSET Reports, ListRest(j, R)
  PROVE  LET had == job[j].before
             has == {r \in Reports : Owns(job[j].caller, r)}
         IN  /\ R \subseteq had \cup has
             /\ \A r \in (had \cap has) \ R : \E c \in Collections :
                   <<r, c>> \in inside /\ Keeps(job[j].caller, c)
<1>1. PICK b \in Job : b = job[j] /\ JobSound(b)
  BY DEF IInv, TypeOK, JobsInv
<1>2. b.seen \subseteq b.before /\ R = b.seen \cup Recent(j)
  BY <1>1 DEF ListRest, At, JobSound
<1>3. R \subseteq b.before \cup {r \in Reports : Owns(b.caller, r)}
  BY <1>1, <1>2 DEF Recent
<1>4. ASSUME NEW r \in Reports, Owns(b.caller, r), r \notin R
      PROVE  \E c \in Collections : <<r, c>> \in inside /\ Keeps(b.caller, c)
  <2>1. PICK c \in Collections : <<r, c>> \in inside
    BY <1>1, <1>2, <1>4 DEF Recent
  <2>2. Keeps(report[r].owner, c)
    BY <2>1 DEF IInv, CollectionsSound
  <2> QED
    BY <1>4, <2>1, <2>2 DEF Owns
<1> QED
  BY <1>1, <1>3, <1>4

\* Whoever follows a link while reports, collections and accounts are being deleted sees only
\* what its sharer showed when he began or shows when he is answered, and a list of
\* collections and reports, which is read in two halves, has nothing that is not the caller's
\* and misses only what was put into a collection in between.
THEOREM HonestViews == Spec => ViewsHonest
<1> DEFINE Honest ==
      \A j \in Answered, R \in SUBSET Reports :
        /\ ViewLast(j, R) =>
              \A r \in R : r \in job[j].before \/ <<job[j].link.by, r>> \in Public
        /\ ListRest(j, R) =>
              LET had == job[j].before
                  has == {r \in Reports : Owns(job[j].caller, r)}
              IN  /\ R \subseteq had \cup has
                  /\ \A r \in (had \cap has) \ R : \E c \in Collections :
                        <<r, c>> \in inside /\ Keeps(job[j].caller, c)
<1>1. IInv => Honest
  <2> SUFFICES ASSUME IInv, NEW j \in Answered, NEW R \in SUBSET Reports
               PROVE  /\ ViewLast(j, R) =>
                           \A r \in R : r \in job[j].before \/ <<job[j].link.by, r>> \in Public
                      /\ ListRest(j, R) =>
                           LET had == job[j].before
                               has == {r \in Reports : Owns(job[j].caller, r)}
                           IN  /\ R \subseteq had \cup has
                               /\ \A r \in (had \cap has) \ R : \E c \in Collections :
                                     <<r, c>> \in inside /\ Keeps(job[j].caller, c)
    OBVIOUS
  <2>1. j \in Jobs
    BY DEF Answered
  <2> QED
    BY <2>1, ViewHonest, ListHonest
<1>2. IInv => [Honest]_vars
  BY <1>1
<1> QED
  BY <1>2, Invariance, PTL DEF Honest, ViewsHonest

-----------------------------------------------------------------------------
(* The refinement.                                                          *)

\* One step, seen from Publication.
PublicationStep == [Sharer!Next]_(Sharer!vars)

\* Link t shows report p[2] for user p[1].
Shows(t, p) ==
    /\ share[t].by = p[1]
    /\ \/ share[t].type = "collection" /\ \E c \in share[t].items : <<p[2], c>> \in inside
       \/ /\ share[t].type \in {"report", "comparison"}
          /\ p[2] \in share[t].items /\ \A r \in share[t].items : Here(r)

\* What is public is what links show.
LEMMA PublicShown ==
  Public = {p \in Users \X Reports : \E t \in Tokens : Shows(t, p)}
BY DEF Public, Shows

\* What is public is its sharer's.
PublicOwned ==
  \A p \in Public : Here(p[2]) /\ report[p[2]].owner = p[1] /\ p[1] \notin gone

\* Links and collections show only that.
LEMMA PublicOwn == IInv => PublicOwned
<1> SUFFICES ASSUME IInv, NEW p \in Public
             PROVE  Here(p[2]) /\ report[p[2]].owner = p[1] /\ p[1] \notin gone
  BY DEF PublicOwned
<1>1. PICK t \in Tokens : Shows(t, p)
  BY PublicShown
<1>2. p \in Users \X Reports
  BY DEF Public
<1>3. share[t] \in Share /\ share[t] # NoShare
  BY <1>1, NoShareType DEF Shows, IInv, TypeOK
<1>4. share[t].by \notin gone /\ Fits(share[t])
  BY <1>3 DEF IInv, LinksInv
<1>5. CASE share[t].type = "collection"
  <2>1. PICK c \in share[t].items : <<p[2], c>> \in inside
    BY <1>1, <1>5 DEF Shows
  <2>2. c \in Collections
    BY <1>3, <1>5, ShareType
  <2>3. Here(p[2]) /\ Keeps(report[p[2]].owner, c)
    BY <2>1 DEF IInv, CollectionsSound
  <2> QED
    BY <1>1, <1>2, <1>4, <2>2, <2>3 DEF Shows, Fits, Keeps
<1>6. CASE share[t].type \in {"report", "comparison"}
  BY <1>1, <1>2, <1>4, <1>6 DEF Shows, Fits
<1> QED
  BY <1>1, <1>5, <1>6 DEF Shows

\* The same after a step.
LEMMA PublicOwnAfter == IInv' => PublicOwned'
BY PublicOwn, PTL

\* Where links go, places are left and reports are deleted, only less is public.
LEMMA Shrinks ==
  ASSUME IInv,
         \A t \in Tokens : share'[t] \in {share[t], NoShare},
         inside' \subseteq inside,
         \A r \in Reports : Here(r)' => Here(r)
  PROVE  Public' \subseteq Public
<1> SUFFICES ASSUME NEW p \in Public'
             PROVE  p \in Public
  OBVIOUS
<1>1. PICK t \in Tokens : Shows(t, p)'
  BY DEF Public, Shows
<1>2. p \in Users \X Reports
  BY DEF Public
<1>3. share'[t] = share[t] /\ share[t] \in Share /\ share[t] # NoShare
  BY <1>1, NoShareType DEF Shows, IInv, TypeOK
<1>4. ASSUME share[t].type = "collection"
      PROVE  Shows(t, p)
  BY <1>1, <1>3, <1>4 DEF Shows
<1>5. ASSUME share[t].type \in {"report", "comparison"}
      PROVE  Shows(t, p)
  <2>1. share[t].items \subseteq Reports
    BY <1>3, <1>5, ShareType
  <2> QED
    BY <1>1, <1>3, <1>5, <2>1 DEF Shows
<1>6. Shows(t, p)
  BY <1>1, <1>3, <1>4, <1>5 DEF Shows
<1> QED
  BY <1>2, <1>6, PublicShown

\* A link that goes, or what it leads to.
LEMMA WithdrawStep ==
  ASSUME UNCHANGED report, Public' \subseteq Public
  PROVE  PublicationStep
<1>1. PICK P \in SUBSET (Users \X Reports) : P = Public \ Public'
  BY DEF Public
<1>2. Public' = Public \ P
  BY <1>1
<1>3. Sharer!Withdraw(P)
  BY <1>2 DEF Sharer!Withdraw, Life, Owner
<1> QED
  BY <1>3 DEF PublicationStep, Sharer!Next

\* Whoever makes more public makes public what is his.
LEMMA PublishStep ==
  ASSUME IInv', UNCHANGED report, NEW u \in Users, Public \subseteq Public',
         \A p \in Public' \ Public : p[1] = u
  PROVE  PublicationStep
<1>1. PICK R \in SUBSET Reports : R = {r \in Reports : <<u, r>> \in Public'}
  OBVIOUS
<1>2. ASSUME NEW r \in R
      PROVE  Here(r) /\ report[r].owner = u
  <2>1. r \in Reports /\ <<u, r>> \in Public'
    BY <1>1
  <2>2. PICK p \in Public' : p[1] = u /\ p[2] = r
    BY <2>1
  <2>3. Here(p[2])' /\ report'[p[2]].owner = p[1]
    BY <2>2, PublicOwnAfter DEF PublicOwned
  <2> QED
    BY <2>2, <2>3 DEF Here
<1>3. \A r \in R : Life[r] = "kept" /\ Owner[r] = u
  BY <1>2 DEF Here, Life, Owner
<1>4. Public' = Public \cup ({u} \X R)
  BY <1>1 DEF Public
<1>5. Sharer!Publish(u, R)
  BY <1>3, <1>4 DEF Sharer!Publish, Life, Owner
<1> QED
  BY <1>5 DEF PublicationStep, Sharer!Next

\* Nothing is public but by reports, places and links.
LEMMA StutterStep ==
  ASSUME UNCHANGED <<report, inside, share>>
  PROVE  PublicationStep
<1>1. Public' = Public
  BY DEF Public, Here
<1> QED
  BY <1>1, WithdrawStep

\* createReport and submitReport write a report, which nobody shows.
LEMMA CreateReportWrites ==
  ASSUME IInv, NEW u \in Users, NEW r \in Reports, CreateReport(u, r)
  PROVE  PublicationStep
<1>1. PICK b \in Report : b = [state |-> "kept", owner |-> u]
  BY DEF Report, States
<1>2. report \in [Reports -> Report] /\ report' = [report EXCEPT ![r] = b]
      /\ b.state = "kept" /\ b.owner = u
  BY <1>1 DEF CreateReport, IInv, TypeOK
<1>3. \A q \in Reports : q # r => report'[q] = report[q]
  BY <1>2
<1>4. UNCHANGED <<inside, share>> /\ report[r].state = "absent"
  BY DEF CreateReport
<1>5. \A t \in Tokens : share[t].type \in {"report", "comparison"} =>
        \A q \in share[t].items : Here(q)' <=> Here(q)
  <2>1. ASSUME NEW t \in Tokens, share[t].type \in {"report", "comparison"},
               NEW q \in share[t].items
        PROVE  Here(q)' <=> Here(q)
    <3>1. share[t] \in Share /\ share[t] # NoShare
      BY <2>1, NoShareType DEF IInv, TypeOK
    <3>2. q \in Reports
      BY <2>1, <3>1, ShareType
    <3>3. report[q].state # "absent"
      BY <3>1, <3>2 DEF IInv, LinksInv, Fits
    <3> QED
      BY <1>3, <1>4, <3>2, <3>3 DEF Here
  <2> QED
    BY <2>1
<1>6. Public' = Public
  BY <1>4, <1>5 DEF Public
<1>7. Life' = [Life EXCEPT ![r] = "kept"] /\ Owner' = [Owner EXCEPT ![r] = u]
  BY <1>2 DEF Life, Owner
<1>8. Sharer!Write(u, r)
  BY <1>4, <1>6, <1>7 DEF Sharer!Write, Life
<1> QED
  BY <1>8 DEF PublicationStep, Sharer!Next

\* addReport makes public, at most, what is its owner's.
LEMMA AddReportPublishes ==
  ASSUME IInv, NEW u \in Users, NEW r \in Reports, NEW c \in Collections, AddReport(u, r, c)
  PROVE  PublicationStep
<1>1. IInv'
  BY PlaceKeeps
<1>2. UNCHANGED <<report, share>> /\ inside' = inside \cup {<<r, c>>} /\ report[r].owner = u
  BY DEF AddReport, MayHold, Owns
<1>3. Public \subseteq Public'
  BY <1>2 DEF Public, Here
<1>4. ASSUME NEW p \in Public', p \notin Public
      PROVE  p[1] = u
  <2>1. p \in Users \X Reports /\ report'[p[2]].owner = p[1]
    BY <1>1, PublicOwnAfter DEF PublicOwned, Public
  <2>2. CASE p[2] = r
    BY <1>2, <2>1, <2>2
  <2>3. CASE p[2] # r
    BY <1>2, <1>4, <2>1, <2>3 DEF Public, Here
  <2> QED
    BY <2>2, <2>3
<1> QED
  BY <1>1, <1>2, <1>3, <1>4, PublishStep

\* createShareLink and its siblings make public what is the sharer's.
LEMMA ShareWritePublishes ==
  ASSUME IInv, NEW j \in Jobs, NEW t \in Tokens, ShareWrite(j, t)
  PROVE  PublicationStep
<1>1. IInv'
  BY ShareWriteKeeps
<1>2. PICK b \in Job : b = job[j] /\ JobSound(b)
  BY DEF IInv, TypeOK, JobsInv
<1>3. PICK s \in Share : s = b.link
  BY DEF Job
<1>4. /\ b.pc = "share" /\ share[t] = NoShare /\ share' = [share EXCEPT ![t] = s]
      /\ UNCHANGED <<report, inside>>
  BY <1>2, <1>3 DEF ShareWrite, At
<1>5. s.by \in Users
  BY <1>2, <1>3, <1>4, ShareType DEF JobSound
<1>6. share \in [Tokens -> Share]
  BY DEF IInv, TypeOK
<1>7. \A v \in Tokens : share'[v] = IF v = t THEN s ELSE share[v]
  BY <1>4, <1>6
<1>8. Public \subseteq Public'
  BY <1>4, <1>7, NoShareType DEF Public, Here
<1>9. ASSUME NEW p \in Public', p \notin Public
      PROVE  p[1] = s.by
  <2>1. PICK v \in Tokens : Shows(v, p)'
    BY DEF Public, Shows
  <2>2. p \in Users \X Reports
    BY DEF Public
  <2>3. CASE v = t
    BY <1>7, <2>1, <2>3 DEF Shows
  <2>4. CASE v # t
    <3>1. share'[v] = share[v]
      BY <1>7, <2>4
    <3>2. Shows(v, p)
      BY <1>4, <2>1, <3>1 DEF Shows, Here
    <3> QED
      BY <1>9, <2>2, <3>2, PublicShown
  <2> QED
    BY <2>3, <2>4
<1> QED
  BY <1>1, <1>4, <1>5, <1>8, <1>9, PublishStep

\* remove and removeReport make less public.
LEMMA RemovalsWithdraw ==
  ASSUME IInv, NEW u \in Users, NEW c \in Collections,
         RemoveCollection(u, c) \/ \E r \in Reports : RemoveReport(u, r, c)
  PROVE  PublicationStep
<1>1. UNCHANGED <<report, share>> /\ inside' \subseteq inside
  BY DEF RemoveCollection, RemoveReport
<1> QED
  BY <1>1, Shrinks, WithdrawStep DEF Here

\* deleteReport takes the report out of everything that is public, and with it the
\* comparisons that show it.
LEMMA DeleteReportDeletes ==
  ASSUME IInv, NEW j \in Jobs, DeleteReportWrite(j)
  PROVE  PublicationStep
<1>1. IInv'
  BY DeleteReportWriteKeeps
<1>2. PICK r \in Reports : r = job[j].doomed
  BY DEF IInv, TypeOK, JobsInv, JobSound, DeleteReportWrite, At
<1>3. PICK b \in Report : b = [state |-> "deleted", owner |-> None]
  BY DEF Report, States
<1>4. /\ report \in [Reports -> Report] /\ report' = [report EXCEPT ![r] = b]
      /\ b.state = "deleted" /\ b.owner = None /\ Here(r)
  BY <1>2, <1>3 DEF DeleteReportWrite, IInv, TypeOK
<1>5. report'[r].state = "deleted" /\ \A q \in Reports : q # r => report'[q] = report[q]
  BY <1>4
<1>6. Public' \subseteq Public
  <2>1. \A t \in Tokens : share'[t] \in {share[t], NoShare}
    BY DEF DeleteReportWrite, LinksWithout
  <2>2. \A q \in Reports : Here(q)' => Here(q)
    BY <1>5 DEF Here
  <2>3. inside' \subseteq inside
    BY DEF DeleteReportWrite
  <2> QED
    BY <2>1, <2>2, <2>3, Shrinks
<1>7. \A p \in Public' : p[2] # r
  BY <1>1, <1>5, PublicOwnAfter DEF PublicOwned, Here
<1>8. PICK P \in SUBSET (Users \X Reports) : P = Public \ Public'
  BY DEF Public
<1>9. Public' = {p \in Public \ P : p[2] # r}
  BY <1>6, <1>7, <1>8
<1>10. Life' = [Life EXCEPT ![r] = "deleted"] /\ Owner' = [Owner EXCEPT ![r] = None]
  BY <1>4 DEF Life, Owner
<1>11. Sharer!Delete(r, P)
  BY <1>4, <1>9, <1>10 DEF Sharer!Delete, Life, Here
<1> QED
  BY <1>11 DEF PublicationStep, Sharer!Next

\* With an account goes all that it made public, and nothing else.
LEMMA CascadePublic ==
  ASSUME IInv, IInv', NEW u \in Users, Cascade(u),
         \A r \in Reports : report[r].owner # u => report'[r] = report[r],
         \A r \in Reports : Here(r)' => Here(r),
         inside' \subseteq inside,
         \A p \in inside : collection[p[2]].owner # u => p \in inside'
  PROVE  Public' = {p \in Public : p[1] # u}
<1>1. \A t \in Tokens : share'[t] = IF share[t].by = u THEN NoShare ELSE share[t]
  BY DEF Cascade
<1>2. Public' \subseteq Public
  BY <1>1, Shrinks
<1>3. \A p \in Public' : p[1] # u
  BY PublicOwnAfter DEF PublicOwned, Cascade
<1>4. ASSUME NEW p \in Public, p[1] # u
      PROVE  p \in Public'
  <2>1. PICK t \in Tokens : Shows(t, p)
    BY PublicShown
  <2>2. p \in Users \X Reports /\ share'[t] = share[t] /\ share[t] \in Share
        /\ share[t] # NoShare
    BY <1>1, <1>4, <2>1, NoShareType DEF Shows, Public, IInv, TypeOK
  <2>3. share[t].by \notin gone /\ Fits(share[t])
    BY <2>2 DEF IInv, LinksInv
  <2>4. ASSUME share[t].type = "collection"
        PROVE  Shows(t, p)'
    <3>1. PICK c \in share[t].items : <<p[2], c>> \in inside
      BY <2>1, <2>4 DEF Shows
    <3>2. c \in Collections
      BY <2>2, <2>4, ShareType
    <3>3. Keeps(report[p[2]].owner, c)
      BY <3>1 DEF IInv, CollectionsSound
    <3>4. collection[c].owner # u
      BY <1>4, <2>1, <2>3, <3>2, <3>3 DEF Shows, Fits, Keeps
    <3>5. <<p[2], c>> \in inside'
      BY <3>1, <3>4
    <3> QED
      BY <2>1, <2>2, <2>4, <3>1, <3>5 DEF Shows
  <2>5. ASSUME share[t].type \in {"report", "comparison"}
        PROVE  Shows(t, p)'
    <3>1. ASSUME NEW r \in share[t].items
          PROVE  Here(r)'
      <4>1. r \in Reports /\ Here(r)
        BY <2>1, <2>2, <2>5, <3>1, ShareType DEF Shows
      <4>2. report[r].owner # u
        BY <1>4, <2>1, <2>3, <3>1, <4>1 DEF Shows, Fits
      <4> QED
        BY <4>1, <4>2 DEF Here
    <3> QED
      BY <2>1, <2>2, <2>5, <3>1 DEF Shows
  <2>6. Shows(t, p)'
    BY <2>1, <2>4, <2>5 DEF Shows
  <2> QED
    BY <2>2, <2>6 DEF Public, Shows
<1> QED
  BY <1>2, <1>3, <1>4

\* Who leaves shows nothing any more.
LEMMA DeleteUserLeaves ==
  ASSUME IInv, NEW u \in Users, DeleteUser(u)
  PROVE  PublicationStep
<1>1. IInv'
  BY DeleteUserKeeps
<1>2. report \in [Reports -> Report]
  BY DEF IInv, TypeOK
<1>3. ASSUME NEW r \in Reports
      PROVE  /\ report[r].owner # u => report'[r] = report[r]
             /\ report'[r].owner = IF report[r].owner = u THEN None ELSE report[r].owner
             /\ report'[r].state = report[r].state
  <2>1. PICK a \in Report : a = report[r]
    BY <1>2
  <2>2. PICK n \in Users \cup {None} : n = None
    OBVIOUS
  <2>3. [a EXCEPT !.owner = n].owner = n /\ [a EXCEPT !.owner = n].state = a.state
    BY DEF Report
  <2> QED
    BY <2>1, <2>2, <2>3 DEF DeleteUser
<1>4. Public' = {p \in Public : p[1] # u}
  BY <1>1, <1>3, CascadePublic DEF DeleteUser, Here
<1>5. Life' = Life /\ Owner' = [r \in Reports |-> IF Owner[r] = u THEN None ELSE Owner[r]]
  BY <1>3 DEF Life, Owner
<1>6. Sharer!Leave(u)
  BY <1>4, <1>5 DEF Sharer!Leave
<1> QED
  BY <1>6 DEF PublicationStep, Sharer!Next

\* Who is erased shows nothing any more, and nobody shows what was his.
LEMMA EraseUserErases ==
  ASSUME IInv, NEW u \in Users, EraseUser(u)
  PROVE  PublicationStep
<1>1. IInv'
  BY EraseUserKeeps
<1>2. PICK b \in Report : b = [state |-> "deleted", owner |-> None]
  BY DEF Report, States
<1>3. b.owner = None /\ b.state = "deleted"
  BY <1>2
<1>4. \A r \in Reports : report'[r] = IF report[r].owner = u THEN b ELSE report[r]
  BY <1>2 DEF EraseUser
<1>5. \A p \in inside : collection[p[2]].owner # u => p \in inside'
  <2>1. ASSUME NEW p \in inside, collection[p[2]].owner # u
        PROVE  report[p[1]].owner # u
    BY <2>1 DEF IInv, CollectionsSound, Keeps
  <2> QED
    BY <2>1 DEF EraseUser
<1>6. Public' = {p \in Public : p[1] # u}
  BY <1>1, <1>3, <1>4, <1>5, CascadePublic DEF EraseUser, Here
<1>7. \A p \in Public : p[1] # u => Owner[p[2]] # u
  BY PublicOwn DEF PublicOwned, Owner, Public
<1>8. Public' = {p \in Public : p[1] # u /\ Owner[p[2]] # u}
  BY <1>6, <1>7
<1>9. /\ Life' = [r \in Reports |-> IF Owner[r] = u THEN "deleted" ELSE Life[r]]
      /\ Owner' = [r \in Reports |-> IF Owner[r] = u THEN None ELSE Owner[r]]
  BY <1>3, <1>4 DEF Life, Owner
<1>10. Sharer!Erase(u)
  BY <1>8, <1>9 DEF Sharer!Erase
<1> QED
  BY <1>10 DEF PublicationStep, Sharer!Next

\* An empty database is Publication's.
LEMMA InitialPublication == Init => Sharer!Init
<1> SUFFICES ASSUME Init
             PROVE  Sharer!Init
  OBVIOUS
<1>1. Life = [r \in Reports |-> "absent"] /\ Owner = [r \in Reports |-> None]
  BY DEF Init, NoReport, Life, Owner
<1>2. Public = {}
  BY NoShareType DEF Init, Public
<1> QED
  BY <1>1, <1>2 DEF Sharer!Init

\* Every step maps to a step or a stutter.
LEMMA StepPublication == IInv /\ [Next]_vars => [Sharer!Next]_(Sharer!vars)
<1> SUFFICES ASSUME IInv, [Next]_vars
             PROVE  PublicationStep
  BY DEF PublicationStep
<1>1. ASSUME NEW u \in Users, DeleteUser(u) \/ EraseUser(u) PROVE PublicationStep
  BY <1>1, DeleteUserLeaves, EraseUserErases
<1>2. ASSUME NEW u \in Users, NEW r \in Reports, CreateReport(u, r) PROVE PublicationStep
  BY <1>2, CreateReportWrites
<1>3. ASSUME NEW u \in Users, NEW c \in Collections,
             \/ RemoveCollection(u, c)
             \/ \E r \in Reports : RemoveReport(u, r, c)
      PROVE  PublicationStep
  BY <1>3, RemovalsWithdraw
<1>4. ASSUME NEW u \in Users, NEW c \in Collections, NEW r \in Reports, AddReport(u, r, c)
      PROVE  PublicationStep
  BY <1>4, AddReportPublishes
<1>5. ASSUME NEW j \in Jobs, NEW t \in Tokens, ShareWrite(j, t) PROVE PublicationStep
  BY <1>5, ShareWritePublishes
<1>6. ASSUME NEW j \in Jobs, DeleteReportWrite(j) PROVE PublicationStep
  BY <1>6, DeleteReportDeletes
<1>7. ASSUME NEW u \in Users, NEW c \in Collections, NEW n \in Names,
             CreateCollection(u, c, n) \/ Rename(u, c, n)
      PROVE  PublicationStep
  BY <1>7, StutterStep DEF CreateCollection, Rename
<1>8. ASSUME NEW j \in Jobs,
             \/ \E u \in Users, r \in Reports : DeleteReportBegin(j, u, r)
             \/ \E s \in Link : ShareBegin(j, s)
             \/ \E t \in Tokens : ViewBegin(j, t)
             \/ \E r \in Reports : ViewFirst(j, r)
             \/ \E R \in SUBSET Reports : ViewLast(j, R) \/ ListRest(j, R)
             \/ \E u \in Users : ListBegin(j, u)
             \/ JobFails(j)
      PROVE  PublicationStep
  <2>1. UNCHANGED <<report, inside, share>>
    BY <1>8 DEF DeleteReportBegin, ShareBegin, ViewBegin, ViewFirst, ViewLast, ListRest,
                ListBegin, JobFails
  <2> QED
    BY <2>1, StutterStep
<1>9. CASE UNCHANGED vars
  BY <1>9, StutterStep DEF vars
<1> QED
  BY <1>1, <1>2, <1>3, <1>4, <1>5, <1>6, <1>7, <1>8, <1>9 DEF Next

\* Sharing implements Publication: however links, collections, reports and accounts are made
\* and deleted while requests for links are on their way, a user makes public only what is his
\* at that moment, and what is deleted or orphaned is public no more.
THEOREM Implements == Spec => ImplementsPublication
<1>1. Spec => Sharer!Init /\ [][Sharer!Next]_(Sharer!vars)
  BY InitialPublication, StepPublication, Invariance, PTL DEF Spec
<1> QED
  BY <1>1 DEF ImplementsPublication, Sharer!Spec

-----------------------------------------------------------------------------
(* What Publication comes to, and with it the sharing of reports.           *)

\* What is in public is kept, and belongs to who shows it.
PublicFacts ==
    /\ DOMAIN Life = Reports /\ DOMAIN Owner = Reports
    /\ Public \subseteq Users \X Reports
    /\ \A p \in Public : Life[p[2]] = "kept" /\ Owner[p[2]] = p[1]
    /\ \A r \in Reports : Life[r] = "absent" => Owner[r] = None

\* A report that was deleted does not come back, is never somebody else's, and is made public by
\* its owner only.
ReportsKept ==
    /\ \A r \in Reports : Life[r] = "deleted" => Life'[r] = "deleted"
    /\ \A r \in Reports : Life[r] # "absent" => Owner'[r] \in {Owner[r], None}
    /\ \A p \in Public' \ Public : Life[p[2]] = "kept" /\ Owner[p[2]] = p[1]

\* Every step of Publication keeps its facts.
LEMMA PublicFactsStep ==
    ASSUME PublicFacts, [Sharer!Next]_(Sharer!vars)
    PROVE  PublicFacts' /\ ReportsKept
<1>1. CASE UNCHANGED Sharer!vars
  <2>1. Life' = Life /\ Owner' = Owner /\ Public' = Public
    BY <1>1 DEF Sharer!vars
  <2> QED
    BY <2>1 DEF PublicFacts, ReportsKept
<1>2. ASSUME NEW u \in Users, NEW r \in Reports, Sharer!Write(u, r)
      PROVE  PublicFacts' /\ ReportsKept
  BY <1>2 DEF PublicFacts, ReportsKept, Sharer!Write
<1>3. ASSUME NEW u \in Users, NEW R \in SUBSET Reports, Sharer!Publish(u, R)
      PROVE  PublicFacts' /\ ReportsKept
  BY <1>3 DEF PublicFacts, ReportsKept, Sharer!Publish
<1>4. ASSUME NEW P \in SUBSET (Users \X Reports), Sharer!Withdraw(P)
      PROVE  PublicFacts' /\ ReportsKept
  BY <1>4 DEF PublicFacts, ReportsKept, Sharer!Withdraw
<1>5. ASSUME NEW P \in SUBSET (Users \X Reports), NEW r \in Reports, Sharer!Delete(r, P)
      PROVE  PublicFacts' /\ ReportsKept
  BY <1>5 DEF PublicFacts, ReportsKept, Sharer!Delete
<1>6. ASSUME NEW u \in Users, Sharer!Leave(u)
      PROVE  PublicFacts' /\ ReportsKept
  BY <1>6 DEF PublicFacts, ReportsKept, Sharer!Leave
<1>7. ASSUME NEW u \in Users, Sharer!Erase(u)
      PROVE  PublicFacts' /\ ReportsKept
  BY <1>7 DEF PublicFacts, ReportsKept, Sharer!Erase
<1> QED
  BY <1>1, <1>2, <1>3, <1>4, <1>5, <1>6, <1>7 DEF Sharer!Next

\* Nothing is public at first.
LEMMA PublicFactsInit == Sharer!Init => PublicFacts
  BY DEF Sharer!Init, PublicFacts

\* However requests overlap, what a link of a user shows is kept, and that user's.
THEOREM PublicIsOwned == Spec => []PublicFacts
<1>1. PublicFacts /\ [Sharer!Next]_(Sharer!vars) => PublicFacts'
  BY PublicFactsStep
<1>2. Sharer!Init /\ [][Sharer!Next]_(Sharer!vars) => []PublicFacts
  BY <1>1, PublicFactsInit, PTL
<1>3. ImplementsPublication => Sharer!Init /\ [][Sharer!Next]_(Sharer!vars)
  BY DEF ImplementsPublication, Sharer!Spec
<1> QED
  BY <1>2, <1>3, Implements, PTL

\* No request brings back a deleted report, hands a report to somebody else, or makes public what
\* was not its user's before.
THEOREM ReportsStay == Spec => [][ReportsKept]_(Sharer!vars)
<1>1. PublicFacts /\ [Sharer!Next]_(Sharer!vars) => ReportsKept
  BY PublicFactsStep
<1>2. ImplementsPublication => Sharer!Init /\ [][Sharer!Next]_(Sharer!vars)
  BY DEF ImplementsPublication, Sharer!Spec
<1> QED
  BY <1>1, <1>2, PublicIsOwned, Implements, PTL

=============================================================================
