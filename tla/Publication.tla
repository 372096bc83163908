---------------------------- MODULE Publication ----------------------------
(***************************************************************************)
(* What sharing promises, whatever its requests do to one another: a pair  *)
(* <<u, r>> is in public when some link of user u shows report r.  A user  *)
(* makes public only reports that are his at that moment, a report that is *)
(* deleted or whose owner has left is public no more, and nothing that was *)
(* deleted comes back.                                                     *)
(***************************************************************************)
CONSTANTS
    Users,    \* ids of the users table
    Reports,  \* ids of the reports table
    None      \* nobody

VARIABLES
    life,     \* whether each report is absent, kept or deleted
    owner,    \* whose it is
    public    \* who shows which report through a link

vars == <<life, owner, public>>

Init ==
    /\ life = [r \in Reports |-> "absent"]
    /\ owner = [r \in Reports |-> None]
    /\ public = {}

Write(u, r) ==
    /\ life[r] = "absent"
    /\ life' = [life EXCEPT ![r] = "kept"]
    /\ owner' = [owner EXCEPT ![r] = u]
    /\ UNCHANGED public

Publish(u, R) ==
    /\ \A r \in R : life[r] = "kept" /\ owner[r] = u
    /\ public' = public \cup ({u} \X R)
    /\ UNCHANGED <<life, owner>>

\* A link or what it leads to goes.
Withdraw(P) ==
    /\ public' = public \ P
    /\ UNCHANGED <<life, owner>>

Delete(r, P) ==
    /\ life[r] = "kept"
    /\ life' = [life EXCEPT ![r] = "deleted"]
    /\ owner' = [owner EXCEPT ![r] = None]
    /\ public' = {p \in public \ P : p[2] # r}

\* The reports of somebody who leaves stay, but show no more.
Leave(u) ==
    /\ owner' = [r \in Reports |-> IF owner[r] = u THEN None ELSE owner[r]]
    /\ public' = {p \in public : p[1] # u}
    /\ UNCHANGED life

\* The reports of somebody who is erased go with him.
Erase(u) ==
    /\ life' = [r \in Reports |-> IF owner[r] = u THEN "deleted" ELSE life[r]]
    /\ owner' = [r \in Reports |-> IF owner[r] = u THEN None ELSE owner[r]]
    /\ public' = {p \in public : p[1] # u /\ owner[p[2]] # u}

Next ==
    \/ \E u \in Users : Leave(u) \/ Erase(u)
    \/ \E u \in Users, r \in Reports : Write(u, r)
    \/ \E u \in Users, R \in SUBSET Reports : Publish(u, R)
    \/ \E P \in SUBSET (Users \X Reports) : Withdraw(P) \/ \E r \in Reports : Delete(r, P)

Spec == Init /\ [][Next]_vars

=============================================================================
