---------------------------- MODULE InquiryLife ----------------------------
(***************************************************************************)
(* What the contact-query workflow promises, whatever its requests do to   *)
(* one another: an inquiry counts as answered only once its sender has     *)
(* been mailed a reply, an answer is never taken back, an inquiry leaves   *)
(* only at the request of somebody who held the deletion privilege when    *)
(* the request was checked, and what has left never returns.               *)
(***************************************************************************)
CONSTANTS
    Inquiries,  \* ids of the contact_queries table
    Staff,      \* accounts with a staff role
    Supers      \* those with the role super_admin

VARIABLES
    life,       \* where each inquiry is in its life
    mailed,     \* inquiries whose sender has received a reply
    cleared,    \* who asked to remove which inquiry while holding the privilege
    privileged  \* who may remove inquiries now

vars == <<life, mailed, cleared, privileged>>

Lives == {"absent", "open", "answered", "removed"}

Init ==
    /\ life = [q \in Inquiries |-> "absent"]
    /\ mailed = {} /\ cleared = {} /\ privileged = Supers

Open(q) ==
    /\ life[q] = "absent"
    /\ life' = [life EXCEPT ![q] = "open"]
    /\ UNCHANGED <<mailed, cleared, privileged>>

\* The inquiry may have been removed while the mail was under way.
Mail(q) ==
    /\ life[q] # "absent"
    /\ mailed' = mailed \cup {q}
    /\ UNCHANGED <<life, cleared, privileged>>

Answer(q) ==
    /\ life[q] = "open" /\ q \in mailed
    /\ life' = [life EXCEPT ![q] = "answered"]
    /\ UNCHANGED <<mailed, cleared, privileged>>

Clear(Q, s) ==
    /\ s \in privileged
    /\ cleared' = cleared \cup (Q \X {s})
    /\ UNCHANGED <<life, mailed, privileged>>

Remove(Q) ==
    /\ \A q \in Q : \E s \in Staff : <<q, s>> \in cleared
    /\ \A q \in Q : life[q] \in {"open", "answered"}
    /\ life' = [q \in Inquiries |-> IF q \in Q THEN "removed" ELSE life[q]]
    /\ UNCHANGED <<mailed, cleared, privileged>>

Grant(P) ==
    /\ Supers \subseteq P
    /\ privileged' = P
    /\ UNCHANGED <<life, mailed, cleared>>

Next ==
    \/ \E q \in Inquiries : Open(q) \/ Mail(q) \/ Answer(q)
    \/ \E Q \in SUBSET Inquiries : Remove(Q) \/ \E s \in Staff : Clear(Q, s)
    \/ \E P \in SUBSET Staff : Grant(P)

Spec == Init /\ [][Next]_vars

=============================================================================
