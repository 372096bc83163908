----------------------------- MODULE HomeReport -----------------------------
(***************************************************************************)
(* The making and the reading of a home report (src/report,                *)
(* src/onsite-report and the helpers in src/auth/helpers): the numbers of  *)
(* an address, the direction of an entrance, the rating, what the writing  *)
(* service is given, and what a visitor of each access level is shown.     *)
(*                                                                         *)
(* A request finds pictures of the place, has the report written and       *)
(* stores it.  Requests share nothing, so one is in flight at a time, in   *)
(* between others read what is stored, with another token.                 *)
(*                                                                         *)
(* An address is its building number and the letters of its words.  The    *)
(* texts of a direction or of a number are abstracted to what they are     *)
(* about, and the answer of the writing service to what its prompt tells   *)
(* it to copy.  Left out: the uploaded photos (module Content) and the     *)
(* collections and links a report is in (module Sharing).                  *)
(***************************************************************************)
EXTENDS Integers, FiniteSets, Sequences, Functions

CONSTANTS
    Ids,          \* ids of the reports table
    Buildings,    \* building numbers
    Texts,        \* the words of an address: sequences of letters, A being 1
    Bearings,     \* bearings of an entrance, in degrees, which may be any number
    Visited,      \* bearings of the elements of an on-site visit, which are within the circle
    Rooms,        \* category slugs of the elements of an on-site visit
    Labels,       \* the directions a client may write beside the bearing of its entrance
    MaxElements,  \* bound on the elements of one visit
    HasKey,       \* whether the key of the map service is configured
    Missing       \* no building number, no report

ASSUME ReportParameters ==
    /\ Buildings \subseteq Nat \cup {Missing} /\ Missing \notin Nat
    /\ Texts \subseteq Seq(1..26)
    /\ Bearings \subseteq Int /\ Visited \subseteq 0..359
    /\ "front_entrance" \in Rooms /\ Labels \subseteq {"N", "E", "S", "W"}
    /\ MaxElements \in Nat /\ HasKey \in BOOLEAN

VARIABLES
    token,    \* what the visitor's access token says
    work,     \* the request in flight
    report,   \* the reports table
    shown     \* the last response that shows a report

reportVars == <<token, work, report, shown>>

Directions == {"N", "E", "S", "W"}
Levels     == {"highly supportive", "supportive", "balanced", "needs attention"}
Accesses   == {"paid_full", "free_preview", "guest_preview"}
Kinds      == {"property_report", "onsite_property_report"}
Token      == [isPaid: BOOLEAN, isGuest: BOOLEAN]
Element    == [room: Rooms, bearing: Visited]
Capture    == [room: Rooms, bearing: Visited, cardinal: Directions, main: BOOLEAN]

-----------------------------------------------------------------------------
(* Numerology. *)

\* Pythagorean values of the letters.
Chart == [letter \in 1..26 |-> ((letter - 1) % 9) + 1]

DigitSum[n \in Nat] == IF n < 10 THEN n ELSE (n % 10) + DigitSum[n \div 10]

MasterNumbers == {11, 22, 33}

\* reduceNumber
Reduced[n \in Nat] == IF n <= 9 \/ n \in MasterNumbers THEN n ELSE Reduced[DigitSum[n]]

\* Numbers with a meaning: two tags, two supportive and two challenging indicators each, no two
\* of them alike.
Meanings == 1..9 \cup MasterNumbers

TextValue(text) == FoldFunction(LAMBDA letter, total : Chart[letter] + total, 0, text)

\* A number of four to six digits is taken for a postal code and dropped.
IsPostal(n) == n \in 1000..999999

AddressNumber(building) == Reduced[DigitSum[building]]

FullAddress(building, text) ==
    Reduced[TextValue(text) + (IF IsPostal(building) THEN 0 ELSE DigitSum[building])]

\* The meanings of an address, without repetition.
Energies(building, text) ==
    {AddressNumber(building), FullAddress(building, text)} \cap Meanings

-----------------------------------------------------------------------------
(* Direction and rating. *)

\* AiHelper.getCardinalDirection

Cardinal(degrees) ==
    CASE degrees >= 315 \/ degrees < 45 -> "N"
      [] degrees >= 45 /\ degrees < 135 -> "E"
      [] degrees >= 135 /\ degrees < 225 -> "S"
      [] OTHER -> "W"

\* OnsiteAiHelper has a copy of the rule for the elements of a visit.
CardinalFromBearing(degrees) ==
    CASE degrees \in 45..134  -> "E"
      [] degrees \in 135..224 -> "S"
      [] degrees \in 225..314 -> "W"
      [] OTHER -> "N"

\* analyzeDirection.  Both services say that the user has confirmed the direction.
Confirmed == TRUE
Families  == [N |-> "northern", E |-> "eastern", S |-> "southern", W |-> "western"]
Direction(bearing) ==
    [bearing |-> bearing, cardinal |-> Cardinal(bearing), family |-> Families[Cardinal(bearing)],
     confidence |-> IF Confirmed THEN "high" ELSE "moderate"]

\* analyzeFengShui: an element, and the indicators of a direction.
FengShui == [N |-> "water", E |-> "wood", S |-> "fire", W |-> "metal"]
Supportive(c) == 3
RedFlags(c)   == IF c \in {"N", "S"} THEN 2 ELSE 1

\* analyzeVastu
Vastu == [N |-> "kubera", E |-> "surya", S |-> "yama", W |-> "varuna"]

\* DIRECTION_FLAGS: for each direction two flags on each aspect of life, a summary for the family
\* and four tips, no two of these texts alike.
Aspects == {"relationships", "career", "family", "romance_and_partnership",
            "wealth_and_stability", "daily_life"}
LifeFlags == [c \in Directions |-> [aspects |-> [a \in Aspects |-> <<c, a>>],
                                   familyFlow |-> <<c, "summary">>, tips |-> <<c, "tips">>]]

\* NUMEROLOGY_THEMES, a label for each number with a meaning and one for all others.
Theme(number) == IF number \in 1..9 \cup {11, 22, 33} THEN number ELSE Missing

\* buildNumerologyRuleSummary
NumerologyRule(building, text) ==
    [address |-> AddressNumber(building), full |-> FullAddress(building, text),
     consistent |-> AddressNumber(building) = FullAddress(building, text),
     tags |-> Energies(building, text)]

\* calculateAlignment in half points: 62 + 3.5 s - 5 r - 3.5 c, kept within 35..95 and rounded,
\* a half upwards.
Score(supportive, redFlags, challenges) ==
    LET twice == 124 + 7 * supportive - 10 * redFlags - 7 * challenges
        kept  == IF twice < 70 THEN 70 ELSE IF twice > 190 THEN 190 ELSE twice
    IN  (kept + 1) \div 2

Level(score) ==
    CASE score >= 85 -> "highly supportive"
      [] score >= 70 -> "supportive"
      [] score >= 55 -> "balanced"
      [] OTHER -> "needs attention"

\* buildBackendPayload: the challenges of the address are red flags too.
Rating(building, text, bearing) ==
    LET numbers == 2 * Cardinality(Energies(building, text))
        c       == Cardinal(bearing)
    IN  Score(Supportive(c) + numbers, RedFlags(c) + numbers, numbers)

\* buildBackendPayload: what a report is written from, the rating apart.
Payload(building, text, bearing) ==
    LET d == Direction(bearing)
    IN  [direction |-> d, element |-> FengShui[d.cardinal], deity |-> Vastu[d.cardinal],
         flags |-> LifeFlags[d.cardinal], theme |-> Theme(AddressNumber(building)),
         rule |-> NumerologyRule(building, text)]

-----------------------------------------------------------------------------
(* The rooms of a visit. *)

\* ROOM_ENERGY, by the direction a room lies in.
RoomElement == [N |-> "water", E |-> "wood", S |-> "fire", W |-> "metal"]

\* ROOM_LIFE_ASPECT_MAP: the aspects of life, and the sections, a room has a part in.  A room of
\* another slug is a general one.
RoomAspects(room) ==
    CASE room = "front_entrance" -> {"entranceEnergy", "fengShui", "vastu", "overallScore"}
      [] room = "bed"      -> {"relationships", "romance_and_partnership", "daily_life"}
      [] room = "kitchen"  -> {"wealth_and_stability", "daily_life", "family"}
      [] room = "office"   -> {"career", "wealth_and_stability"}
      [] room = "sofa"     -> {"family", "daily_life", "relationships"}
      [] room = "washroom" -> {"daily_life"}
      [] OTHER -> {}

\* analyzeRoomCaptures, from the bearing of the capture again.
RoomAnalysis(capture) ==
    LET c == CardinalFromBearing(capture.bearing)
    IN  [room |-> capture.room, bearing |-> capture.bearing, cardinal |-> c,
         element |-> RoomElement[c], main |-> capture.main]

\* buildRoomContextBlock: a paragraph for each room, with what it affects.
RoomContext(captures) ==
    {[analysis |-> RoomAnalysis(e), affects |-> RoomAspects(e.room)] : e \in captures}

-----------------------------------------------------------------------------
(* What is written and what is shown. *)

\* The sections of a report, and the fields of the payload the prompt has each of them made from.
\* (all: a section made from the payload as a whole)
Sources ==
    [overallAlignmentSummary |-> {"all"}, overview |-> {"all"},
     entranceDirection |-> {"bearing", "cardinal"},
     entranceEnergy    |-> {"fengShuiTags", "confidence"},
     numerology        |-> {"numbers", "theme", "numerologyTags"},
     fengShui          |-> {"fengShuiTags", "fengShuiSummary"},
     vastu             |-> {"vastuTags", "vastuSummary"},
     indicators        |-> {"supportive", "redFlags"},
     practicalRemedies |-> {"remedies"},
     lifeAspects       |-> {"lifeFlags"},
     familyFlowSummary |-> {"familyFlow"}, familyFlowNarrative |-> {"familyFlow"},
     helpfulTips       |-> {"tips"},
     auspiciousnessLevel |-> {"level"}, auspiciousnessSummary |-> {"level"},
     overallScore      |-> {"score"}]

Sections == DOMAIN Sources
Fields   == (UNION {Sources[s] : s \in Sections}) \ {"all"}

\* buildPayloadByAccessLevel: the fields that are neither locked nor left out.  Of the lists of
\* indicators the previews give the first entries, which is neither list.
Given(access) == IF access = "paid_full" THEN Fields ELSE {}

\* The writing service fills a section from its fields, and writes "locked" where they are.
Told(access) ==
    {s \in Sections : IF Sources[s] = {"all"} THEN Given(access) = Fields
                      ELSE Sources[s] \subseteq Given(access)}

\* The prompt of a visit has the sections its rooms affect made from the rooms too, and its
\* payload has every field, whoever asks.
OnsiteSources ==
    [s \in Sections |->
       IF s \in {"lifeAspects", "entranceEnergy", "fengShui", "vastu", "overallScore"}
       THEN Sources[s] \cup {"rooms"} ELSE Sources[s]]

OnsiteTold ==
    {s \in Sections : OnsiteSources[s] \subseteq Fields \cup {"rooms", "all"}}

\* getAccessLevel
AccessLevel(t) ==
    IF t.isPaid THEN "paid_full" ELSE IF t.isGuest THEN "guest_preview" ELSE "free_preview"

GuestSections ==
    {"overallScore", "auspiciousnessLevel", "overview", "overallAlignmentSummary"}

\* buildReportResponse: the sections that are not locked.
Opened(access) ==
    CASE access = "paid_full" -> Sections
      [] access = "free_preview" ->
           GuestSections \cup {"auspiciousnessSummary", "familyFlowSummary", "indicators",
                               "helpfulTips"}
      [] access = "guest_preview" -> GuestSections

\* What a response shows of a report: the sections it opens, those of them that read "locked", the
\* pictures and the captures of the visit.
View(id, row, access, open, captures) ==
    [id |-> id, access |-> access, open |-> open, blank |-> open \ row.told,
     photos |-> row.photos, captures |-> captures]

\* extractOnsiteMeta: every reader of a visit is given its captures.
CapturesOf(row) == IF row.kind = "onsite_property_report" THEN row.captures ELSE {}

\* extractOnsiteCaptures, the same for the readers of a link, who get none of a remote report.
SharedCaptures(row) == IF row.kind = "onsite_property_report" THEN row.captures ELSE {}

Response(id, row, t) ==
    View(id, row, AccessLevel(t), Opened(AccessLevel(t)), CapturesOf(row))

\* extractPhotos takes a picture of either source.  extractEntranceDirection gives nothing of a
\* direction whose degrees are no number.
PreviewSections(row) ==
    {"overallScore", "auspiciousnessLevel", "overview"} \cup ({"entranceDirection"} \cap row.told)

Nothing == [id |-> Missing, access |-> "guest_preview", open |-> {}, blank |-> {}, photos |-> 0,
            captures |-> {}]

-----------------------------------------------------------------------------
Work == [pc: {"idle", "pictures", "write", "save"}, kind: Kinds,
         building: Buildings \cup {Missing}, text: Seq(1..26), bearing: Int, label: Directions,
         captures: SUBSET Capture, photos: 0..3, told: SUBSET Sections]

NoWork == [pc |-> "idle", kind |-> "property_report", building |-> Missing, text |-> <<>>,
           bearing |-> 0, label |-> "N", captures |-> {}, photos |-> 0, told |-> {}]

\* A picture of the place is on every report, unless the map service has no key.
Pictures == IF HasKey THEN 1..3 ELSE {0}

IsRow(r) ==
    /\ r.kind \in Kinds /\ r.building \in Buildings /\ r.text \in Texts
    /\ r.bearing \in Bearings \cup Visited /\ r.label \in Directions
    /\ r.captures \subseteq Capture /\ r.photos \in Pictures
    /\ r.score \in 35..95 /\ r.level \in Levels /\ r.told \subseteq Sections
    /\ r.payload = Payload(r.building, r.text, r.bearing)
    /\ r.rooms = RoomContext(r.captures)

ReportTypeOK ==
    /\ token \in Token
    /\ work \in Work
    /\ \A id \in Ids : report[id] # Missing => IsRow(report[id])
    /\ shown.id \in Ids \cup {Missing} /\ shown.access \in Accesses
    /\ shown.open \subseteq Sections /\ shown.blank \subseteq shown.open
    /\ shown.id # Missing => shown.photos \in Pictures
    /\ shown.captures \subseteq Capture

ReportInit ==
    /\ token \in {t \in Token : t.isGuest /\ ~t.isPaid}
    /\ work = NoWork
    /\ report = [id \in Ids |-> Missing]
    /\ shown = Nothing

\* The visitor gets another token: an account registers, pays, ends, and refreshes.
ChangeToken ==
    /\ \E t \in Token : token' = t
    /\ UNCHANGED <<work, report, shown>>

\* A request may begin.  (The table bounds the reports there are.)
NoRequest == work = NoWork /\ \E id \in Ids : report[id] = Missing

\* createReport, with the label its client sent.
CreateReport(building, text, bearing, label) ==
    /\ NoRequest
    /\ work' = [NoWork EXCEPT !.pc = "pictures", !.building = building, !.text = text,
                              !.bearing = bearing, !.label = label]
    /\ UNCHANGED <<token, report, shown>>

Entrances(elements) == {i \in DOMAIN elements : elements[i].room = "front_entrance"}

FirstElement(elements) == elements[1]

\* The front entrance, or the first element of a visit without one.
MainElement(elements) ==
    IF Entrances(elements) = {} THEN elements[1]
    ELSE elements[CHOOSE i \in Entrances(elements) : TRUE]

Captured(e) == [room |-> e.room, bearing |-> e.bearing, cardinal |-> CardinalFromBearing(e.bearing),
                main |-> e.room = "front_entrance"]

\* submitReport, whose address must hold a number before anything is looked up.
SubmitVisit(building, text, elements) ==
    /\ NoRequest
    /\ elements # <<>> /\ Cardinality(Entrances(elements)) <= 1
    /\ building # Missing
    /\ work' = [NoWork EXCEPT !.pc = "pictures", !.kind = "onsite_property_report",
                              !.building = building, !.text = text,
                              !.bearing = MainElement(elements).bearing,
                              !.label = CardinalFromBearing(MainElement(elements).bearing),
                              !.captures = {Captured(elements[i]) : i \in DOMAIN elements}]
    /\ UNCHANGED <<token, report, shown>>

\* Three views from the street when there is a panorama.  Otherwise, or when that look-up fails,
\* up to three of the pictures of places nearby, and without any, or when that fails too, three
\* views that were not looked up.
FallbackToNothing(nearby) == IF nearby > 3 THEN 3 ELSE nearby
Fallback(nearby)          == IF nearby = 0 THEN 3 ELSE IF nearby > 3 THEN 3 ELSE nearby

\* getPlacePhotos: nothing it calls can fail a request.
FindPictures(panorama, nearby) ==
    /\ work.pc = "pictures"
    /\ work' = [work EXCEPT !.pc = "write",
                            !.photos = IF ~HasKey THEN 0
                                       ELSE IF panorama THEN 3 ELSE Fallback(nearby)]
    /\ UNCHANGED <<token, report, shown>>

OwnAccess  == AccessLevel(token)
\* Whoever asks, the report is written in full.
WrittenFor == "paid_full"

\* generateByAccessLevel.  An address without a number, an answer without content and one that is
\* not JSON fail a request.
WriteReport ==
    /\ work.pc = "write" /\ work.kind = "property_report" /\ work.building # Missing
    /\ work' = [work EXCEPT !.pc = "save", !.told = Told(WrittenFor)]
    /\ UNCHANGED <<token, report, shown>>

\* generateOnsiteReport
WriteOnsiteReport ==
    /\ work.pc = "write" /\ work.kind = "onsite_property_report"
    /\ work' = [work EXCEPT !.pc = "save", !.told = OnsiteTold]
    /\ UNCHANGED <<token, report, shown>>

NewRow ==
    LET score == Rating(work.building, work.text, work.bearing)
    IN  [kind |-> work.kind, building |-> work.building, text |-> work.text,
         bearing |-> work.bearing, label |-> work.label, captures |-> work.captures,
         photos |-> work.photos, score |-> score, level |-> Level(score), told |-> work.told,
         payload |-> Payload(work.building, work.text, work.bearing),
         rooms |-> RoomContext(work.captures)]

\* The row is stored and its maker is answered.
SaveReport(id) ==
    /\ work.pc = "save" /\ report[id] = Missing
    /\ report' = [report EXCEPT ![id] = NewRow]
    /\ shown' = Response(id, NewRow, token)
    /\ work' = NoWork
    /\ UNCHANGED token

RequestFails ==
    /\ work # NoWork
    /\ work' = NoWork
    /\ UNCHANGED <<token, report, shown>>

\* getReportById, of either kind
ReadReport(id) ==
    /\ report[id] # Missing
    /\ shown' = Response(id, report[id], token)
    /\ UNCHANGED <<token, work, report>>

\* ReportService.getMyReports gives whole rows.
ListReports(id) ==
    /\ report[id] # Missing
    /\ shown' = View(id, report[id], AccessLevel(token), Sections, report[id].captures)
    /\ UNCHANGED <<token, work, report>>

\* OnsiteReportService.getMyReports gives the columns of reportListSelect, among them the metadata
\* with the captures.
ListOnsiteReports(id) ==
    /\ report[id] # Missing /\ report[id].kind = "onsite_property_report"
    /\ shown' = View(id, report[id], AccessLevel(token),
                     {"overallScore", "auspiciousnessLevel", "overview"}, report[id].captures)
    /\ UNCHANGED <<token, work, report>>

\* buildReportFull, for whoever has the link and a token.
OpenSharedReport(id) ==
    /\ report[id] # Missing
    /\ shown' = View(id, report[id], AccessLevel(token), Opened(AccessLevel(token)),
                     SharedCaptures(report[id]))
    /\ UNCHANGED <<token, work, report>>

\* buildReportPreview, for whoever has the link.
PreviewReport(id) ==
    /\ report[id] # Missing
    /\ shown' = View(id, report[id], "guest_preview", PreviewSections(report[id]), {})
    /\ UNCHANGED <<token, work, report>>

DeleteHomeReport(id) ==
    /\ report[id] # Missing
    /\ report' = [report EXCEPT ![id] = Missing]
    /\ shown' = Nothing
    /\ UNCHANGED <<token, work>>

ReportNext ==
    \/ ChangeToken
    \/ \E building \in Buildings, text \in Texts :
         \/ \E bearing \in Bearings, label \in Labels :
              CreateReport(building, text, bearing, label)
         \/ \E n \in 1..MaxElements : \E elements \in [1..n -> Element] :
              SubmitVisit(building, text, elements)
    \/ \E panorama \in BOOLEAN, nearby \in {0, 1, 4} : FindPictures(panorama, nearby)
    \/ WriteReport
    \/ WriteOnsiteReport
    \/ RequestFails
    \/ \E id \in Ids :
         \/ SaveReport(id)
         \/ ReadReport(id)
         \/ ListReports(id)
         \/ ListOnsiteReports(id)
         \/ OpenSharedReport(id)
         \/ PreviewReport(id)
         \/ DeleteHomeReport(id)

ReportSpec == ReportInit /\ [][ReportNext]_reportVars

-----------------------------------------------------------------------------
\* A stored report speaks of its own address and of one entrance, though three services, two
\* copies of the rule of the quarters and four tables have a part in it.  Its rating is 73 points,
\* less 5 for each red flag of that direction and 10 for each number of the address that has a
\* meaning: it lies between 43 and 68, and the two upper levels are given to no home.  A visit's
\* entrance has the bearing, the label and the element of the report, the other rooms have those
\* of their own captures, and a number has a theme when it has a meaning.
SpeaksOfItsEntrance ==
    \A id \in Ids : report[id] # Missing =>
      LET r == report[id]
          c == Cardinal(r.bearing)
      IN  /\ r.score = 73 - 5 * RedFlags(c) - 10 * Cardinality(Energies(r.building, r.text))
          /\ r.level = IF r.score >= 55 THEN "balanced" ELSE "needs attention"
          /\ r.kind = "onsite_property_report" => r.label = c
          /\ \A e \in r.captures : e.main => e.bearing = r.bearing /\ e.cardinal = c
          /\ \A room \in r.rooms :
               /\ room.analysis.main => room.analysis.element = r.payload.element
               /\ \E e \in r.captures : /\ room.analysis.room = e.room
                                       /\ room.analysis.cardinal = e.cardinal
          /\ (r.payload.theme = Missing) = (AddressNumber(r.building) \notin Meanings)

\* A section that a response opens is there to read, for whoever asks and whoever the report was
\* made for: a guest's report is complete once the guest has paid for it, and what a list or the
\* preview of a link shows of it is never a locked text.
OpenedIsTold == shown.blank = {}
=============================================================================
