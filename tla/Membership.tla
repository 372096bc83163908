----------------------------- MODULE Membership -----------------------------
(***************************************************************************)
(* What the administration of accounts promises, whatever its requests do  *)
(* to one another: the owner's account is never lost, nobody is on the     *)
(* staff whose address was not mailed an invitation to that role, a role   *)
(* never changes, two accounts never share an address, and an account that *)
(* is erased does not come back.                                           *)
(***************************************************************************)
CONSTANTS
    Ids,         \* ids of the users table
    Emails,      \* addresses
    StaffRoles,  \* roles that are only given by invitation
    Owner,       \* the site owner's id
    OwnerEmail   \* and address

VARIABLES
    member,      \* address and role of each account there is
    erased,      \* ids of accounts that are gone
    invited      \* pairs of an address and a role that an invitation was mailed for

vars == <<member, erased, invited>>

Joined == DOMAIN member

Init ==
    /\ member = [i \in {Owner} |-> [email |-> OwnerEmail, role |-> "super_admin"]]
    /\ erased = {}
    /\ invited = {}

Join(i, e, r) ==
    /\ i \notin Joined \cup erased
    /\ \A j \in Joined : member[j].email # e
    /\ r \in StaffRoles => <<e, r>> \in invited
    /\ member' = [j \in Joined \cup {i} |-> IF j = i THEN [email |-> e, role |-> r] ELSE member[j]]
    /\ UNCHANGED <<erased, invited>>

Invite(e, r) ==
    /\ invited' = invited \cup {<<e, r>>}
    /\ UNCHANGED <<member, erased>>

Erase(i) ==
    /\ i \in Joined \ {Owner}
    /\ member' = [j \in Joined \ {i} |-> member[j]]
    /\ erased' = erased \cup {i}
    /\ UNCHANGED invited

Next ==
    \/ \E i \in Ids : Erase(i) \/ \E e \in Emails, r \in StaffRoles \cup {"user"} : Join(i, e, r)
    \/ \E e \in Emails, r \in StaffRoles : Invite(e, r)

Spec == Init /\ [][Next]_vars

=============================================================================
