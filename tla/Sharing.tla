------------------------------- MODULE Sharing -------------------------------
(***************************************************************************)
(* Reports, collections and share links: src/collection, src/shared-report *)
(* and the report rows of src/report and src/onsite-report.                *)
(*                                                                         *)
(* A handler that checks and later writes is a job: the link it will make, *)
(* show or follow.  Where nothing but a deletion can undo the check, and   *)
(* the write then fails on a missing row or a key of the schema, check and *)
(* write are one action.  The schema's foreign and unique keys are guards  *)
(* of the writes, its cascades are part of the deletions.                  *)
(*                                                                         *)
(* Left out: the contents of a report, descriptions, addresses, photos     *)
(* and the order of a list.                                                *)
(***************************************************************************)
EXTENDS FiniteSets

CONSTANTS
    Users,        \* ids of the users table
    Reports,      \* ids of the reports table
    Collections,  \* ids of the collections table
    OnSite,       \* the reports and collections of the type onsite
    Names,        \* names of collections
    Tokens,       \* tokens of shared_reports
    Jobs,         \* requests that may be in flight
    None          \* a null column

ASSUME NoneIsNoValue ==
    None \notin Users /\ None \notin Reports /\ None \notin Collections /\ None \notin Names
ASSUME Parameters ==
    /\ Reports \cap Collections = {}
    /\ OnSite \subseteq Reports \cup Collections

VARIABLES
    gone,        \* users that were deleted
    report,      \* the reports table
    collection,  \* the collections table
    inside,      \* the report_collections table: pairs of a report and a collection
    share,       \* the shared_reports table, by token
    job          \* what each request has checked or read, and does next

vars == <<gone, report, collection, inside, share, job>>

States == {"absent", "kept", "deleted"}

Report     == [state: States, owner: Users \cup {None}]
Collection == [state: States, owner: Users \cup {None}, name: Names \cup {None}]

\* A link shows the reports in items, or the collection in them.  The row outlives a
\* collection and a compared report: only a single report has a foreign key.
Link == [type: {"report", "collection", "comparison"}, by: Users,
         items: SUBSET (Reports \cup Collections)]

NoReport     == [state |-> "absent", owner |-> None]
NoCollection == [state |-> "absent", owner |-> None, name |-> None]
NoShare      == [type |-> "none", by |-> None, items |-> {}]

\* What a link to one report, to a collection and to a comparison may name.
WellFormed(s) ==
    \/ s.type = "report" /\ s.items \subseteq Reports /\ Cardinality(s.items) = 1
    \/ s.type = "collection" /\ s.items \subseteq Collections /\ Cardinality(s.items) = 1
    \/ s.type = "comparison" /\ s.items \subseteq Reports /\ Cardinality(s.items) = 2

Share == {NoShare} \cup {s \in Link : WellFormed(s)}

\* The link a request will make or follow, or the report it deletes, or whose lists it reads,
\* and the reports it has read.  History: what the sharer showed, or the caller of a list had,
\* when it began.
Job == [pc: {"idle", "share", "view", "delete", "list"}, link: Share,
        doomed: Reports \cup {None}, caller: Users \cup {None},
        seen: SUBSET Reports, before: SUBSET Reports]

Idle == [pc |-> "idle", link |-> NoShare, doomed |-> None, caller |-> None, seen |-> {},
         before |-> {}]

TypeOK ==
    /\ gone \in SUBSET Users
    /\ report \in [Reports -> Report]
    /\ collection \in [Collections -> Collection]
    /\ inside \in SUBSET (Reports \X Collections)
    /\ share \in [Tokens -> Share]
    /\ job \in [Jobs -> Job]

Init ==
    /\ gone = {}
    /\ report = [r \in Reports |-> NoReport]
    /\ collection = [c \in Collections |-> NoCollection]
    /\ inside = {}
    /\ share = [t \in Tokens |-> NoShare]
    /\ job = [j \in Jobs |-> Idle]

-----------------------------------------------------------------------------
Here(r)     == report[r].state = "kept"
Owns(u, r)  == Here(r) /\ report[r].owner = u
Keeps(u, c) == collection[c].state = "kept" /\ collection[c].owner = u

At(j, pc)   == job[j].pc = pc
Finish(j)   == job' = [job EXCEPT ![j] = Idle]

-----------------------------------------------------------------------------
(* Reports and accounts.                                                    *)

\* createReport and submitReport: one insert, after the photos and the AI service.
CreateReport(u, r) ==
    /\ report[r].state = "absent" /\ u \notin gone
    /\ report' = [report EXCEPT ![r] = [state |-> "kept", owner |-> u]]
    /\ UNCHANGED <<gone, collection, inside, share, job>>

\* deleteReport: the owner's, when it was looked up.  The photos of an on-site report are
\* deleted before the row.
DeleteReportBegin(j, u, r) ==
    /\ At(j, "idle") /\ Owns(u, r)
    /\ job' = [job EXCEPT ![j] = [Idle EXCEPT !.pc = "delete", !.doomed = r]]
    /\ UNCHANGED <<gone, report, collection, inside, share>>

\* The foreign keys of shared_reports: reportId and sharedById cascade, the others are none.
LinksWithout(r) ==
    [t \in Tokens |-> IF share[t].type = "report" /\ r \in share[t].items
                      THEN NoShare ELSE share[t]]

\* The row goes, and with it its places in collections and the links to it alone.
DeleteReportWrite(j) ==
    LET r == job[j].doomed
    IN  /\ At(j, "delete") /\ Here(r)
        /\ report' = [report EXCEPT ![r] = [state |-> "deleted", owner |-> None]]
        /\ inside' = {p \in inside : p[1] # r}
        /\ share' = LinksWithout(r)
        /\ Finish(j)
        /\ UNCHANGED <<gone, collection>>

\* With an account's row go its collections, and the links it made.
Cascade(u) ==
    /\ u \notin gone
    /\ gone' = gone \cup {u}
    /\ collection' = [c \in Collections |->
                        IF collection[c].owner = u
                        THEN [NoCollection EXCEPT !.state = "deleted"] ELSE collection[c]]
    /\ share' = [t \in Tokens |-> IF share[t].by = u THEN NoShare ELSE share[t]]
    /\ UNCHANGED job

\* Who deletes his own account leaves his reports behind, without an owner.
DeleteUser(u) ==
    /\ Cascade(u)
    /\ report' = [r \in Reports |-> IF report[r].owner = u
                                    THEN [report[r] EXCEPT !.owner = None] ELSE report[r]]
    /\ inside' = {p \in inside : collection[p[2]].owner # u}

\* An administrator who erases an account deletes its reports, too.
EraseUser(u) ==
    /\ Cascade(u)
    /\ report' = [r \in Reports |-> IF report[r].owner = u
                                    THEN [state |-> "deleted", owner |-> None] ELSE report[r]]
    /\ inside' = {p \in inside : collection[p[2]].owner # u /\ report[p[1]].owner # u}

-----------------------------------------------------------------------------
(* Collections.                                                             *)

\* The unique key over owner, name and type.
NameTaken(u, name, c) ==
    \E d \in Collections \ {c} :
        /\ Keeps(u, d) /\ collection[d].name = name
        /\ d \in OnSite <=> c \in OnSite

CreateCollection(u, c, name) ==
    /\ collection[c].state = "absent" /\ u \notin gone
    /\ ~NameTaken(u, name, c)
    /\ collection' = [collection EXCEPT ![c] = [state |-> "kept", owner |-> u, name |-> name]]
    /\ UNCHANGED <<gone, report, inside, share, job>>

\* update and rename.
Rename(u, c, name) ==
    /\ Keeps(u, c) /\ ~NameTaken(u, name, c)
    /\ collection' = [collection EXCEPT ![c].name = name]
    /\ UNCHANGED <<gone, report, inside, share, job>>

RemoveCollection(u, c) ==
    /\ Keeps(u, c)
    /\ collection' = [collection EXCEPT ![c] = [NoCollection EXCEPT !.state = "deleted"]]
    /\ inside' = {p \in inside : p[2] # c}
    /\ UNCHANGED <<gone, report, share, job>>

\* A report goes only into collections of its owner and of its own type.
MayHoldAny(u, r, c) == Here(r) /\ Keeps(u, c) /\ (r \in OnSite <=> c \in OnSite)
MayHold(u, r, c) == Owns(u, r) /\ Keeps(u, c) /\ (r \in OnSite <=> c \in OnSite)

AddReport(u, r, c) ==
    /\ MayHold(u, r, c)
    /\ inside' = inside \cup {<<r, c>>}
    /\ UNCHANGED <<gone, report, collection, share, job>>

RemoveReport(u, r, c) ==
    /\ Keeps(u, c) /\ <<r, c>> \in inside
    /\ inside' = inside \ {<<r, c>>}
    /\ UNCHANGED <<gone, report, collection, share, job>>

\* findReportsByCollection: the reports inside, whoever owns them.
ReportsInside(u, c) == {r \in Reports : Keeps(u, c) /\ <<r, c>> \in inside}

\* The reports on their own are those in no collection at all.
Recent(j) ==
    {r \in Reports : Owns(job[j].caller, r) /\ \A c \in Collections : <<r, c>> \notin inside}

\* findAll: the collections with their reports, and an await later the reports on their own,
\* on a page that holds them all.  Two lists change nothing for each other: one at a time.
ListBegin(j, u) ==
    /\ \A i \in Jobs : ~At(i, "list")
    /\ At(j, "idle") /\ u \notin gone
    /\ job' = [job EXCEPT ![j] =
                 [Idle EXCEPT !.pc = "list", !.caller = u,
                              !.seen = UNION {ReportsInside(u, c) : c \in Collections},
                              !.before = {r \in Reports : Owns(u, r)}]]
    /\ UNCHANGED <<gone, report, collection, inside, share>>

ListRest(j, R) ==
    /\ At(j, "list")
    /\ R = job[j].seen \cup Recent(j)
    /\ Finish(j)
    /\ UNCHANGED <<gone, report, collection, inside, share>>

-----------------------------------------------------------------------------
(* Links.                                                                   *)

\* The sharer owns what the link is to show, two different reports for a comparison.
OfReport(s)     == s.type = "report" /\ \E r \in Reports : s.items = {r} /\ Owns(s.by, r)
OfCollection(s) == s.type = "collection" /\ \E c \in Collections : s.items = {c} /\ Keeps(s.by, c)
OfTheSame(s) ==
    s.type = "comparison" /\ \E r1, r2 \in Reports :
        s.items = {r1, r2} /\ Owns(s.by, r1) /\ Owns(s.by, r2)
OfAnyTwo(s) ==
    s.type = "comparison" /\ \E r1, r2 \in Reports :
        s.items = {r1, r2} /\ r1 # r2 /\ Owns(s.by, r1) /\ Here(r2)
OfComparison(s) ==
    s.type = "comparison" /\ \E r1, r2 \in Reports :
        s.items = {r1, r2} /\ r1 # r2 /\ Owns(s.by, r1) /\ Owns(s.by, r2)

\* An existing link is returned, otherwise one will be made.
ShareBegin(j, s) ==
    /\ At(j, "idle")
    /\ OfReport(s) \/ OfCollection(s) \/ OfComparison(s)
    /\ s \notin {share[t] : t \in Tokens}
    /\ job' = [job EXCEPT ![j] = [Idle EXCEPT !.pc = "share", !.link = s]]
    /\ UNCHANGED <<gone, report, collection, inside, share>>

ShareWrite(j, t) ==
    LET s == job[j].link
    IN  /\ At(j, "share")
        /\ share[t] = NoShare
        /\ s.by \notin gone
        /\ s.type = "report" => \A r \in s.items : Here(r)
        /\ share' = [share EXCEPT ![t] = s]
        /\ Finish(j)
        /\ UNCHANGED <<gone, report, collection, inside>>

\* Who shows which report through some link.
Public ==
    {p \in Users \X Reports : \E t \in Tokens :
        /\ share[t].by = p[1]
        /\ \/ share[t].type = "collection" /\ \E c \in share[t].items : <<p[2], c>> \in inside
           \/ /\ share[t].type \in {"report", "comparison"}
              /\ p[2] \in share[t].items /\ \A r \in share[t].items : Here(r)}

\* The report of a link to one report is read together with the link.
ReadWithLink(t) == IF share[t].type = "report" THEN share[t].items ELSE {}

ViewBegin(j, t) ==
    /\ At(j, "idle") /\ share[t] # NoShare
    /\ job' = [job EXCEPT ![j] =
                 [Idle EXCEPT !.pc = "view", !.link = share[t], !.seen = ReadWithLink(t),
                              !.before = {r \in Reports : <<share[t].by, r>> \in Public}]]
    /\ UNCHANGED <<gone, report, collection, inside, share>>

\* The first of a comparison's two reads.
ViewFirst(j, r) ==
    /\ At(j, "view") /\ job[j].link.type = "comparison" /\ job[j].seen = {}
    /\ r \in job[j].link.items /\ Here(r)
    /\ job' = [job EXCEPT ![j].seen = {r}]
    /\ UNCHANGED <<gone, report, collection, inside, share>>

\* What the response shows: the report, the reports of the collection as it is now (a
\* preview only counts them), both reports of a comparison.
ShowsReport(j, R) == job[j].link.type = "report" /\ R = job[j].seen
ShowsCollection(j, R) ==
    /\ job[j].link.type = "collection"
    /\ \E c \in job[j].link.items : collection[c].state = "kept" /\ R = {r \in Reports : <<r, c>> \in inside}
CountsCollection(j, R) ==
    /\ job[j].link.type = "collection" /\ R = {}
    /\ \E c \in job[j].link.items : collection[c].state = "kept"
ShowsWhatIsLeft(j, R) ==
    /\ job[j].link.type = "comparison" /\ job[j].seen # {}
    /\ R = {r \in job[j].link.items : Here(r)}
ShowsComparison(j, R) ==
    /\ job[j].link.type = "comparison" /\ job[j].seen # {}
    /\ \A r \in job[j].link.items \ job[j].seen : Here(r)
    /\ R = job[j].link.items

\* The last read, and the response.
ViewLast(j, R) ==
    /\ At(j, "view")
    /\ ShowsReport(j, R) \/ ShowsCollection(j, R) \/ CountsCollection(j, R) \/ ShowsComparison(j, R)
    /\ Finish(j)
    /\ UNCHANGED <<gone, report, collection, inside, share>>

\* A request fails on a missing row or a key, or dies with the process.
JobFails(j) ==
    /\ ~At(j, "idle")
    /\ Finish(j)
    /\ UNCHANGED <<gone, report, collection, inside, share>>

Next ==
    \/ \E u \in Users : DeleteUser(u) \/ EraseUser(u)
    \/ \E u \in Users, r \in Reports : CreateReport(u, r)
    \/ \E u \in Users, c \in Collections :
        \/ RemoveCollection(u, c)
        \/ \E name \in Names : CreateCollection(u, c, name) \/ Rename(u, c, name)
        \/ \E r \in Reports : AddReport(u, r, c) \/ RemoveReport(u, r, c)
    \/ \E j \in Jobs :
        \/ \E u \in Users, r \in Reports : DeleteReportBegin(j, u, r)
        \/ \E s \in Link : ShareBegin(j, s)
        \/ \E t \in Tokens : ShareWrite(j, t) \/ ViewBegin(j, t)
        \/ \E r \in Reports : ViewFirst(j, r)
        \/ \E R \in SUBSET Reports : ViewLast(j, R) \/ ListRest(j, R)
        \/ \E u \in Users : ListBegin(j, u)
        \/ DeleteReportWrite(j) \/ JobFails(j)

Spec == Init /\ [][Next]_vars

-----------------------------------------------------------------------------
(* Properties.                                                              *)

Owner == [r \in Reports |-> report[r].owner]
Life  == [r \in Reports |-> report[r].state]

Sharer == INSTANCE Publication WITH life <- Life, owner <- Owner, public <- Public

\* Links implement Publication: although a link keeps ids that no foreign key guards, a
\* user makes public only what is his at that moment, and what is deleted or
\* orphaned by a deleted account is public no more.
ImplementsPublication == Sharer!Spec

\* A collection holds only reports of its own type, of its own owner, that still exist.
CollectionsSound ==
    \A p \in inside : Here(p[1]) /\ Keeps(report[p[1]].owner, p[2])
                      /\ (p[1] \in OnSite <=> p[2] \in OnSite)

\* The requests that answer in this step.
Answered == {j \in Jobs : job[j].pc \in {"view", "list"} /\ job'[j] = Idle}

\* A view of a link (link and contents are read at different moments) shows no report that
\* its sharer did not show to the public when the view began or when it ended.  The list of
\* collections and other reports, which are read at different moments, too, shows no report
\* that was not the caller's, and misses none that is his all the while, but those that were
\* put into a collection in between.
ViewsHonest ==
    [][\A j \in Answered, R \in SUBSET Reports :
        /\ ViewLast(j, R) =>
              \A r \in R : r \in job[j].before \/ <<job[j].link.by, r>> \in Public
        /\ ListRest(j, R) =>
              LET had == job[j].before
                  has == {r \in Reports : Owns(job[j].caller, r)}
              IN  /\ R \subseteq had \cup has
                  /\ \A r \in (had \cap has) \ R : \E c \in Collections :
                        <<r, c>> \in inside /\ Keeps(job[j].caller, c)]_vars

=============================================================================
