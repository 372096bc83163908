------------------------------- MODULE Content -------------------------------
(***************************************************************************)
(* Rows that name files in the image store: FAQs, insights, categories and *)
(* their questions, dynamic pages, profile pictures and on-site reports    *)
(* (src/faq, src/insight, src/questions, src/dynamic-page, src/user,       *)
(* src/onsite-report, and the deletion of an account in src/admin).        *)
(*                                                                         *)
(* A handler is a job that reads its row, then goes through the store and  *)
(* the table one await at a time: it deletes the old files, uploads the    *)
(* new ones, writes the row.  The store and the table share no             *)
(* transaction, so a job that stops half-way leaves what it has done.      *)
(*                                                                         *)
(* Left out: texts, the order of a list, whether a page is published, and  *)
(* the contents of a report, of which only the photos matter here.         *)
(***************************************************************************)
EXTENDS Naturals, FiniteSets

CONSTANTS
    Faqs, Insights, Categories, Pages, People, Reports,   \* ids, by table
    Staff,         \* those of the people who work for the site
    Questions,     \* ids of the questions table
    Names,         \* titles and slugs
    Jobs,          \* requests that may be in flight
    None,          \* a null column
    MaxRequests,   \* bound on the requests that are begun
    MaxUploads,    \* bound on the files that are uploaded
    MaxPhotos      \* bound on the photos of one on-site report

\* An id belongs to one table.
ASSUME Parameters ==
    /\ \A k, l \in 1..6 :
         LET table == <<Faqs, Insights, Categories, Pages, People, Reports>>
         IN  k # l => table[k] \cap table[l] = {}
    /\ Staff \subseteq People
    /\ None \notin Names /\ None \notin Categories
    /\ MaxRequests \in Nat /\ MaxUploads \in Nat /\ MaxPhotos \in Nat \ {0}

VARIABLES
    row,        \* every table but the questions
    category,   \* the questions table: the category of each question, None without a row
    stored,     \* files in the store
    uploads,    \* files uploaded so far, which numbers them
    job,        \* what each request has read and does next
    requests,   \* requests begun so far
    broken,     \* history: rows on which a request, or a call of the store, has failed
    crossed,    \* history: rows a request worked on while another worked on their table
    loose       \* history: files whose row stopped naming them without deleting them

vars == <<row, category, stored, uploads, job, requests, broken, crossed, loose>>

Tables == {Faqs, Insights, Categories, Pages, People, Reports}
Rows   == UNION Tables
Files  == 1..MaxUploads

Row == [state: {"absent", "kept", "deleted"}, name: Names \cup {None}, files: SUBSET Files]

\* The row a job works on, the name it gives (None: none), the files it read and the number it
\* uploads, the uploaded ones, and whether a link to an image replaces a category's icon.
Job == [pc: {"idle", "drop", "upload", "write"}, op: {"none", "create", "update", "delete", "erase"},
        row: Rows \cup {None}, name: Names \cup {None}, slug: Names \cup {None},
        old: SUBSET Files, wants: 0..MaxPhotos, new: SUBSET Files, link: BOOLEAN]

Idle == [pc |-> "idle", op |-> "none", row |-> None, name |-> None, slug |-> None,
         old |-> {}, wants |-> 0, new |-> {}, link |-> FALSE]

TypeOK ==
    /\ row \in [Rows -> Row]
    /\ category \in [Questions -> Categories \cup {None}]
    /\ stored \in SUBSET Files
    /\ uploads \in 0..MaxUploads
    /\ job \in [Jobs -> Job]
    /\ requests \in 0..MaxRequests
    /\ broken \in SUBSET Rows
    /\ crossed \in SUBSET Rows
    /\ loose \in SUBSET Files

\* The people have their accounts, without a picture.  The other tables are empty.
Init ==
    /\ row = [r \in Rows |-> [state |-> IF r \in People THEN "kept" ELSE "absent",
                              name |-> None, files |-> {}]]
    /\ category = [q \in Questions |-> None]
    /\ stored = {}
    /\ uploads = 0
    /\ job = [j \in Jobs |-> Idle]
    /\ requests = 0
    /\ broken = {}
    /\ crossed = {}
    /\ loose = {}

-----------------------------------------------------------------------------
Kept(r)     == row[r].state = "kept"
Table(r)    == CHOOSE t \in Tables : r \in t
Working     == {i \in Jobs : job[i].pc # "idle"}
Named(t, n) == {r \in t : Kept(r) /\ row[r].name = n}

\* The id of a new row is fresh.
Fresh(r) == row[r].state = "absent" /\ \A i \in Jobs : job[i].row # r

\* A request on r begins with the given plan, once its look-ups have passed.
Begin(j, r, plan) ==
    LET beside == {i \in Working : job[i].row \in Table(r)}
    IN  /\ job[j].pc = "idle" /\ requests < MaxRequests
        /\ requests' = requests + 1
        /\ job' = [job EXCEPT ![j] = plan]
        /\ crossed' = IF beside = {} THEN crossed
                      ELSE crossed \cup {r} \cup {job[i].row : i \in beside}
        /\ UNCHANGED <<row, category, stored, uploads, broken, loose>>

CreationWithCover(r, name, n) ==
    [Idle EXCEPT !.pc = "upload", !.op = "create", !.row = r, !.name = name, !.wants = n + 1]

\* A new row with n files: they are uploaded first.
Creation(r, name, n) ==
    [Idle EXCEPT !.pc = IF n = 0 THEN "write" ELSE "upload", !.op = "create",
                 !.row = r, !.name = name, !.wants = n]

ChangeOnly(r, name, n) ==
    [Idle EXCEPT !.pc = IF n = 0 THEN "write" ELSE "upload", !.op = "update", !.row = r,
                 !.name = name, !.slug = row[r].name, !.wants = n]

ChangeAfterDrop(r, name, n) ==
    [Idle EXCEPT !.pc = IF row[r].files = {} THEN (IF n = 0 THEN "write" ELSE "upload")
                        ELSE "drop",
                 !.op = "update", !.row = r, !.name = name, !.slug = row[r].name,
                 !.old = row[r].files, !.wants = n]

\* With a new file the old one is deleted first, if the row that was read names one.
Change(r, name, n) ==
    [Idle EXCEPT !.pc = IF n = 0 THEN "write"
                        ELSE IF row[r].files = {} THEN "upload" ELSE "drop",
                 !.op = "update", !.row = r, !.name = name, !.slug = row[r].name,
                 !.old = row[r].files, !.wants = n]

Deletion(r) ==
    [Idle EXCEPT !.pc = IF row[r].files = {} THEN "write" ELSE "drop",
                 !.op = "delete", !.row = r, !.slug = row[r].name, !.old = row[r].files]

-----------------------------------------------------------------------------
(* The requests: the checks each makes before it touches the store.         *)

\* createFaq: the title is not in use, and the image is required.
CreateFaq(j, r, name) ==
    /\ Fresh(r) /\ Named(Faqs, name) = {}
    /\ Begin(j, r, Creation(r, name, 1))

\* createInsight: the same, with an icon or without.
CreateInsight(j, r, name, n) ==
    /\ Fresh(r) /\ Named(Insights, name) = {}
    /\ Begin(j, r, Creation(r, name, n))

\* createCategory: by the slug of its name.  An icon given as an address is no file.
CreateCategory(j, r, name, n) ==
    /\ Fresh(r) /\ Named(Categories, name) = {}
    /\ Begin(j, r, Creation(r, name, n))

CreatePage(j, r, name) ==
    /\ Fresh(r) /\ Named(Pages, name) = {}
    /\ Begin(j, r, Creation(r, name, 0))

\* submitReport: every photo is uploaded before the report is generated and stored.
SubmitReport(j, r, n) ==
    /\ Fresh(r)
    /\ Begin(j, r, Creation(r, None, n))

\* A new name, None when it stays, is looked for in the other rows of the table.
Free(t, r, name) == name = None \/ Named(t, name) \subseteq {r}

UpdateFaq(j, r, name, n) ==
    /\ Kept(r) /\ Free(Faqs, r, name)
    /\ Begin(j, r, Change(r, name, n))

UpdateInsight(j, r, name, n) ==
    /\ Kept(r) /\ Free(Insights, r, name)
    /\ Begin(j, r, Change(r, name, n))

\* updateCategoryById: an uploaded icon, or else a link to one, replaces the icon.
UpdateCategory(j, r, name, n, link) ==
    /\ Kept(r) /\ Free(Categories, r, name)
    /\ Begin(j, r, [Change(r, name, n) EXCEPT !.link = link /\ n = 0])

\* updateDynamicPageBySlug looks only for the page, never for the new slug.
UpdatePage(j, r, name) ==
    /\ Kept(r)
    /\ Begin(j, r, Change(r, name, 0))

UpdateUser(j, r, n) ==
    /\ Kept(r)
    /\ Begin(j, r, Change(r, None, n))

\* The profile of somebody on the staff, who has a handler of their own.
UpdateAdmin(j, r, n) ==
    /\ Kept(r)
    /\ Begin(j, r, Change(r, None, n))

DeleteFaq(j, r) == Kept(r) /\ Begin(j, r, Deletion(r))

DeleteInsight(j, r) == Kept(r) /\ Begin(j, r, Deletion(r))

\* deleteCategoryById counts the category's questions when it reads it.
DeleteCategory(j, r) ==
    /\ Kept(r) /\ \A q \in Questions : category[q] # r
    /\ Begin(j, r, Deletion(r))

DeletePage(j, r) == Kept(r) /\ Begin(j, r, Deletion(r))

\* deleteUser, after the password.
DeleteUser(j, r) == Kept(r) /\ Begin(j, r, Deletion(r))

\* deleteAdminOrUser, by an administrator.
EraseAccount(j, r) == Kept(r) /\ Begin(j, r, [Deletion(r) EXCEPT !.op = "erase"])

\* deleteReport of the on-site reports.
DeleteReport(j, r) == Kept(r) /\ Begin(j, r, Deletion(r))

\* deleteReport of the remote reports takes an on-site one too, and leaves its photos.
DeleteRemoteReport(r) ==
    /\ Kept(r) /\ requests < MaxRequests
    /\ requests' = requests + 1
    /\ loose' = loose \cup row[r].files
    /\ row' = [row EXCEPT ![r] = [state |-> "deleted", name |-> None, files |-> {}]]
    /\ UNCHANGED <<category, stored, uploads, job, broken, crossed>>

-----------------------------------------------------------------------------
(* The store.                                                               *)

Stop(j)  == job' = [job EXCEPT ![j] = Idle]
Fails(j) == broken' = broken \cup {job[j].row}

\* The old files are deleted, all but those for which the call of the store fails.
Drop(j) ==
    /\ job[j].pc = "drop"
    /\ \E failing \in SUBSET job[j].old :
          /\ stored' = stored \ (job[j].old \ failing)
          /\ IF failing = {} THEN UNCHANGED broken ELSE Fails(j)
          \* Only a person's own handlers let the error through, which ends the request.
          /\ IF failing # {} /\ job[j].row \in People /\ job[j].op # "erase"
             THEN Stop(j)
             ELSE job' = [job EXCEPT ![j].pc = IF job[j].op = "update" THEN "upload" ELSE "write"]
    /\ UNCHANGED <<row, category, uploads, requests, crossed, loose>>

\* The new files are uploaded side by side.  When one upload fails the request does, and the
\* others stay.
Upload(j) ==
    /\ job[j].pc = "upload"
    /\ uploads + job[j].wants <= MaxUploads
    /\ \E n \in 0..MaxPhotos :
          /\ n <= job[j].wants
          /\ uploads' = uploads + n
          /\ stored' = stored \cup (uploads + 1)..(uploads + n)
          /\ IF n = job[j].wants
             THEN /\ job' = [job EXCEPT ![j].pc = "write",
                                        ![j].new = (uploads + 1)..(uploads + n)]
                  /\ UNCHANGED broken
             ELSE Stop(j) /\ Fails(j)
    /\ UNCHANGED <<row, category, requests, crossed, loose>>

-----------------------------------------------------------------------------
(* The tables.                                                              *)

\* Slugs are unique keys.  Titles of FAQs and insights are not.
Clash(r, name) == r \in Categories \cup Pages /\ name # None /\ ~ Named(Table(r), name) \subseteq {r}

\* A page is written by the slug it was looked up by, every other row by its id.
Target(j) ==
    IF job[j].row \in Pages /\ job[j].op # "create" THEN Named(Pages, job[j].slug)
    ELSE {job[j].row}

\* The insert of a new row.
Insert(j) ==
    LET r == job[j].row
    IN  /\ job[j].pc = "write" /\ job[j].op = "create" /\ ~ Clash(r, job[j].name)
        /\ row' = [row EXCEPT ![r] = [state |-> "kept", name |-> job[j].name,
                                      files |-> job[j].new]]
        /\ Stop(j)
        /\ UNCHANGED <<category, stored, uploads, requests, broken, crossed, loose>>

\* What the columns of the files become.
NewFiles(j, r) ==
    IF job[j].wants > 0 THEN job[j].new ELSE IF job[j].link THEN {} ELSE row[r].files

\* The update of a row that still exists.
Update(j) ==
    /\ job[j].pc = "write" /\ job[j].op = "update"
    /\ \E r \in Rows :
          /\ r \in Target(j) /\ Kept(r) /\ ~ Clash(r, job[j].name)
          /\ row' = [row EXCEPT ![r].name = IF job[j].name = None THEN @ ELSE job[j].name,
                                ![r].files = NewFiles(j, r)]
          /\ loose' = IF job[j].link THEN loose \cup row[r].files ELSE loose
    /\ Stop(j)
    /\ UNCHANGED <<category, stored, uploads, requests, broken, crossed>>

AskedBefore(r) == FALSE

\* A category that has a question is kept by the key of the questions table.
Asked(r) == \E q \in Questions : category[q] = r

\* The deletion of a row that still exists.
Remove(j) ==
    /\ job[j].pc = "write" /\ job[j].op = "delete"
    /\ \E r \in Rows :
          /\ r \in Target(j) /\ Kept(r) /\ ~ Asked(r)
          /\ row' = [row EXCEPT ![r] = [state |-> "deleted", name |-> None, files |-> {}]]
    /\ Stop(j)
    /\ UNCHANGED <<category, stored, uploads, requests, broken, crossed, loose>>

\* The transaction of deleteAdminOrUser, which deletes the reports of the account, whichever
\* these are, and leaves their photos.
Erase(j) ==
    /\ job[j].pc = "write" /\ job[j].op = "erase" /\ Kept(job[j].row)
    /\ \E his \in SUBSET {r \in Reports : Kept(r)} :
          /\ row' = [r \in Rows |->
                       IF r \in his \cup {job[j].row}
                       THEN [state |-> "deleted", name |-> None, files |-> {}] ELSE row[r]]
          /\ loose' = loose \cup UNION {row[r].files : r \in his}
    /\ Stop(j)
    /\ UNCHANGED <<category, stored, uploads, requests, broken, crossed>>

\* A request ends early: the row it writes is gone or refused by a key, a call of the database
\* or of the AI service fails, or the process stops.
JobFails(j) ==
    /\ job[j].pc # "idle"
    /\ Stop(j) /\ Fails(j)
    /\ UNCHANGED <<row, category, stored, uploads, requests, crossed, loose>>

-----------------------------------------------------------------------------
(* Questions: check and write are one action, since the key of the table    *)
(* refuses a category that has gone in between.                             *)

FileQuestion(q, c) ==
    /\ category[q] = None /\ Kept(c)
    /\ category' = [category EXCEPT ![q] = c]
    /\ UNCHANGED <<row, stored, uploads, job, requests, broken, crossed, loose>>

\* updateQuestionById, to another category.
RefileQuestion(q, c) ==
    /\ category[q] \notin {None, c} /\ Kept(c)
    /\ category' = [category EXCEPT ![q] = c]
    /\ UNCHANGED <<row, stored, uploads, job, requests, broken, crossed, loose>>

DeleteQuestion(q) ==
    /\ category[q] # None
    /\ category' = [category EXCEPT ![q] = None]
    /\ UNCHANGED <<row, stored, uploads, job, requests, broken, crossed, loose>>

-----------------------------------------------------------------------------
Optional == Names \cup {None}

Creations(j) ==
    \/ \E r \in Faqs, n \in Names : CreateFaq(j, r, n)
    \/ \E r \in Insights, n \in Names, k \in 0..1 : CreateInsight(j, r, n, k)
    \/ \E r \in Categories, n \in Names, k \in 0..1 : CreateCategory(j, r, n, k)
    \/ \E r \in Pages, n \in Names : CreatePage(j, r, n)
    \/ \E r \in Reports, k \in 0..MaxPhotos : SubmitReport(j, r, k)

Changes(j) ==
    \/ \E r \in Faqs, n \in Optional, k \in 0..1 : UpdateFaq(j, r, n, k)
    \/ \E r \in Insights, n \in Optional, k \in 0..1 : UpdateInsight(j, r, n, k)
    \/ \E r \in Categories, n \in Optional, k \in 0..1, link \in BOOLEAN :
          UpdateCategory(j, r, n, k, link)
    \/ \E r \in Pages, n \in Names : UpdatePage(j, r, n)
    \/ \E r \in People \ Staff, k \in 0..1 : UpdateUser(j, r, k)
    \/ \E r \in Staff, k \in 0..1 : UpdateAdmin(j, r, k)

Deletions(j) ==
    \/ \E r \in Faqs : DeleteFaq(j, r)
    \/ \E r \in Insights : DeleteInsight(j, r)
    \/ \E r \in Categories : DeleteCategory(j, r)
    \/ \E r \in Pages : DeletePage(j, r)
    \/ \E r \in People : DeleteUser(j, r) \/ EraseAccount(j, r)
    \/ \E r \in Reports : DeleteReport(j, r)

Next ==
    \/ \E j \in Jobs :
          \/ Creations(j) \/ Changes(j) \/ Deletions(j)
          \/ Drop(j) \/ Upload(j) \/ Insert(j) \/ Update(j) \/ Remove(j) \/ Erase(j) \/ JobFails(j)
    \/ \E r \in Reports : DeleteRemoteReport(r)
    \/ \E q \in Questions, c \in Categories : FileQuestion(q, c) \/ RefileQuestion(q, c)
    \/ \E q \in Questions : DeleteQuestion(q)

Spec == Init /\ [][Next]_vars

-----------------------------------------------------------------------------
(* Properties.                                                              *)

\* A row shows files the store has, while no request replaces them or deletes the row, and
\* unless one has failed: the old file goes before the new one comes, so a failed upload or
\* update leaves the row with the address of a deleted image.  Overlapping requests alone,
\* which drop files they read earlier, never take the file of the row away.
PicturesServed ==
    \A r \in Rows \ broken :
        row[r].files \subseteq stored \cup UNION {job[j].old : j \in {i \in Jobs : job[i].row = r}}

\* Every file in the store is named by a row or held by the request that uploaded it, unless a
\* request on its row has failed or met another, or the code has let go of it: no sequence of
\* requests that come one after the other and succeed fills the store with files no one can
\* find any more.
FilesAccounted ==
    broken = {} /\ crossed = {} =>
        stored \subseteq loose \cup (UNION {row[r].files : r \in Rows})
                               \cup (UNION {job[j].new \cup job[j].old : j \in Jobs})

\* A question never loses its category: deleteCategoryById counts the questions before it
\* deletes the icon and the row, and one that is created meanwhile keeps the row.
QuestionsFiled == \A q \in Questions : category[q] = None \/ Kept(category[q])
=============================================================================
