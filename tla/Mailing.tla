------------------------------- MODULE Mailing -------------------------------
(***************************************************************************)
(* What a broadcast of the newsletter promises: the people it goes to are  *)
(* fixed when it begins, nobody is tried twice, and its report, when there *)
(* is one, counts every outcome.  A broadcast may be cut off at any time:  *)
(* then it has no report, and some are left waiting.                       *)
(***************************************************************************)
EXTENDS Naturals, FiniteSets

CONSTANTS Broadcasts, People

VARIABLES
    outcome,    \* what has become of the mail to each person
    report      \* the counts of each broadcast, once they are recorded

mailingVars == <<outcome, report>>

Outcomes == {"out", "waiting", "delivered", "failed"}

With(b, o) == {p \in People : outcome[b][p] = o}

MailingInit ==
    /\ outcome = [b \in Broadcasts |-> [p \in People |-> "out"]]
    /\ report = [b \in Broadcasts |-> {}]

\* The broadcast goes to someone.
Announce(b) ==
    /\ With(b, "out") = People
    /\ \E to \in (SUBSET People) \ {{}} :
         outcome' = [outcome EXCEPT ![b] = [p \in People |-> IF p \in to THEN "waiting" ELSE "out"]]
    /\ UNCHANGED report

Try(b, p) ==
    /\ outcome[b][p] = "waiting"
    /\ \E o \in {"delivered", "failed"} : outcome' = [outcome EXCEPT ![b][p] = o]
    /\ UNCHANGED report

Report(b) ==
    /\ With(b, "out") # People /\ With(b, "waiting") = {} /\ report[b] = {}
    /\ report' = [report EXCEPT ![b] = {[delivered |-> Cardinality(With(b, "delivered")),
                                         failed |-> Cardinality(With(b, "failed"))]}]
    /\ UNCHANGED outcome

MailingNext == \E b \in Broadcasts : Announce(b) \/ Report(b) \/ \E p \in People : Try(b, p)

MailingSpec == MailingInit /\ [][MailingNext]_mailingVars
=============================================================================
