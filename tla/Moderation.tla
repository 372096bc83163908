----------------------------- MODULE Moderation -----------------------------
(***************************************************************************)
(* The administration of accounts: src/admin/admin.service.ts (invitations,*)
(* blocks, deletions, flags), the staff's log-in and refresh of            *)
(* src/auth/admin, the guard of src/auth/guards and the owner's            *)
(* self-healing of src/common/helpers.                                     *)
(*                                                                         *)
(* A request is a job: one step per awaited call that something else may   *)
(* run between.  The check and the update of a block or a deletion mark    *)
(* are one action: what they check (the owner's flag, the role) never      *)
(* changes, and an update of a row that is gone fails.                     *)
(*                                                                         *)
(* Left out: names, passwords, reasons, dates, permissions and the audit   *)
(* trail.  A token stays valid: its hour is longer than any bound here.    *)
(***************************************************************************)
CONSTANTS
    Ids,         \* ids of the users table
    Emails,      \* addresses
    Owner,       \* the id of the site owner's account
    OwnerEmail,  \* the address isPrivilegedAdmin recognises
    Invitable,   \* the roles the runs invite to
    Invites,     \* tokens of invitations
    Flags,       \* ids of the user_flags table
    Jobs,        \* requests that may be in flight
    None         \* a null column

ASSUME NoneIsNoValue == None \notin Ids /\ None \notin Emails /\ None \notin Flags /\ None \notin Invites

StaffRoles == {"admin", "super_admin", "customer_support", "content_manager", "finance"}

ASSUME Parameters ==
    Owner \in Ids /\ OwnerEmail \in Emails /\ Invitable \subseteq StaffRoles

VARIABLES
    user,     \* the users table
    invite,   \* the invitations table, by token
    mailed,   \* the tokens that reached a mailbox
    flag,     \* the user_flags table
    session,  \* the claims of the access tokens that were issued to staff
    job       \* what each request has read, and does next

vars == <<user, invite, mailed, flag, session, job>>

Roles == StaffRoles \cup {"user"}

User == [state: {"absent", "kept", "erased"}, email: Emails \cup {None}, role: Roles,
         owner: BOOLEAN, blocked: BOOLEAN, deleted: BOOLEAN]
Invitation == [state: {"none", "pending", "removed"}, email: Emails \cup {None}, role: Roles]
FlagStatus == {"PENDING", "APPROVED", "REJECTED"}
FlagAction == {"BLOCK", "DELETE"}
Flag == [status: FlagStatus \cup {"none"}, user: Ids \cup {None}, by: Ids \cup {None},
         action: FlagAction]
Claims == [id: Ids, role: StaffRoles, owner: BOOLEAN]

NoUser   == [state |-> "absent", email |-> None, role |-> "user", owner |-> FALSE,
             blocked |-> FALSE, deleted |-> FALSE]
NoInvite == [state |-> "none", email |-> None, role |-> "user"]
NoFlag   == [status |-> "none", user |-> None, by |-> None, action |-> "BLOCK"]

Job == [pc: {"idle", "inviteClear", "inviteCreate", "inviteMail", "accept", "consume",
             "erase", "resolve", "carryOut"},
        id: Ids \cup {None}, email: Emails \cup {None}, role: Roles,
        invite: Invites \cup {None}, flag: Flags \cup {None}, status: FlagStatus \cup {"none"},
        action: FlagAction]

Idle == [pc |-> "idle", id |-> None, email |-> None, role |-> "user", invite |-> None,
         flag |-> None, status |-> "none", action |-> "BLOCK"]

OwnersRow == [NoUser EXCEPT !.state = "kept", !.email = OwnerEmail, !.role = "super_admin",
                            !.owner = TRUE]

Kept(i) == user[i].state = "kept"

TypeOK ==
    /\ user \in [Ids -> User]
    /\ invite \in [Invites -> Invitation]
    /\ mailed \in SUBSET Invites
    /\ flag \in [Flags -> Flag]
    /\ session \in SUBSET Claims
    /\ job \in [Jobs -> Job]

Init ==
    /\ user = [i \in Ids |-> IF i = Owner THEN OwnersRow ELSE NoUser]
    /\ invite = [t \in Invites |-> NoInvite]
    /\ mailed = {}
    /\ flag = [f \in Flags |-> NoFlag]
    /\ session = {}
    /\ job = [j \in Jobs |-> Idle]

-----------------------------------------------------------------------------
Taken(e)       == \E i \in Ids : Kept(i) /\ user[i].email = e
Privileged(i)  == user[i].email = OwnerEmail
At(j, pc)      == job[j].pc = pc
Finish(j)      == job' = [job EXCEPT ![j] = Idle]
Go(j, pc)      == job' = [job EXCEPT ![j].pc = pc]

-----------------------------------------------------------------------------
(* Who may do what.                                                         *)

\* The guard looks at the claims in the token, never at the row.
Admits(type, c) ==
    \/ type = "admin" /\ c.role \in StaffRoles
    \/ type = "super_admin" /\ (c.role = "super_admin" \/ c.owner)

\* The auth types of the controller's routes, by the service's operation.
RouteType ==
    [createAdmin |-> "super_admin", inviteTeamMember |-> "super_admin", deleteAdmin |-> "admin",
     softDeleteUser |-> "admin", restoreUser |-> "admin", blockUser |-> "admin",
     unblockUser |-> "admin", flagUser |-> "admin", resolveFlag |-> "admin"]

May(op, c) == Admits(RouteType[op], c)

\* The controller keeps customer support from deleting users.
MayRemoveUsers(c) == c.role # "customer_support"
IsSuper(c) == c.role = "super_admin" \/ c.owner

-----------------------------------------------------------------------------
(* The staff's tokens, and the owner.                                       *)

\* ensureSiteOwnerExists: the owner's row is whole again, and nobody else is an owner.
EnsureOwner ==
    [i \in Ids |-> IF Privileged(i)
                   THEN [user[i] EXCEPT !.role = "super_admin", !.owner = TRUE,
                                        !.deleted = FALSE, !.blocked = FALSE]
                   ELSE [user[i] EXCEPT !.owner = FALSE]]

AnybodyMayLogIn(i) == user[i].email # None
MayLogIn(i) == user[i].role \in {"admin", "super_admin"} \/ Privileged(i)

LogIn(i) ==
    /\ Kept(i) /\ MayLogIn(i)
    /\ user' = IF Privileged(i) THEN EnsureOwner ELSE user
    /\ session' = session \cup {[id |-> i, role |-> user'[i].role, owner |-> user'[i].owner]}
    /\ UNCHANGED <<invite, mailed, flag, job>>

\* A refresh reads the row anew, and calls every super admin an owner.
RefreshedAsAdmin(i) ==
    [id |-> i, role |-> IF Privileged(i) THEN "super_admin" ELSE "admin", owner |-> user[i].owner]
Refreshed(i) ==
    IF user[i].role = "super_admin" \/ user[i].owner \/ Privileged(i)
    THEN [id |-> i, role |-> "super_admin", owner |-> TRUE]
    ELSE [id |-> i, role |-> user[i].role, owner |-> user[i].owner]

Refresh(c) ==
    /\ c \in session
    /\ Kept(c.id) /\ ~user[c.id].deleted /\ ~user[c.id].blocked
    /\ session' = session \cup {Refreshed(c.id)}
    /\ UNCHANGED <<user, invite, mailed, flag, job>>

\* The process dies with its requests and starts again.
Restart ==
    /\ user' = EnsureOwner
    /\ job' = [j \in Jobs |-> Idle]
    /\ UNCHANGED <<invite, mailed, flag, session>>

-----------------------------------------------------------------------------
(* Invitations.                                                             *)

\* createAdmin and inviteTeamMember: the address has no account yet.
InviteBegin(j, c, e, r) ==
    /\ At(j, "idle") /\ c \in session
    /\ \/ May("inviteTeamMember", c)
       \/ May("createAdmin", c) /\ r # "super_admin"
    /\ ~Taken(e)
    /\ job' = [job EXCEPT ![j] = [Idle EXCEPT !.pc = "inviteClear", !.email = e, !.role = r]]
    /\ UNCHANGED <<user, invite, mailed, flag, session>>

\* Earlier invitations of the address are deleted, then one is created, then mailed.
Without(e) == [t \in Invites |-> IF invite[t].email = e THEN [invite[t] EXCEPT !.state = "removed"]
                                                      ELSE invite[t]]

InviteClear(j) ==
    /\ At(j, "inviteClear")
    /\ invite' = Without(job[j].email)
    /\ Go(j, "inviteCreate")
    /\ UNCHANGED <<user, mailed, flag, session>>

InviteCreate(j, t) ==
    /\ At(j, "inviteCreate") /\ invite[t].state = "none"
    /\ invite' = [invite EXCEPT ![t] = [state |-> "pending", email |-> job[j].email,
                                       role |-> job[j].role]]
    /\ job' = [job EXCEPT ![j].pc = "inviteMail", ![j].invite = t]
    /\ UNCHANGED <<user, mailed, flag, session>>

InviteMail(j) ==
    /\ At(j, "inviteMail")
    /\ mailed' = mailed \cup {job[j].invite}
    /\ Finish(j)
    /\ UNCHANGED <<user, invite, flag, session>>

\* The invitation a token names, an await before the account is created.
AcceptBegin(j, t) ==
    /\ At(j, "idle") /\ t \in mailed
    /\ invite[t].state = "pending" /\ ~Taken(invite[t].email)
    /\ job' = [job EXCEPT ![j] = [Idle EXCEPT !.pc = "accept", !.email = invite[t].email,
                                             !.role = invite[t].role, !.invite = t]]
    /\ UNCHANGED <<user, invite, mailed, flag, session>>

\* The address is a unique key.
AcceptCreate(j, i) ==
    /\ At(j, "accept")
    /\ user[i].state = "absent" /\ ~Taken(job[j].email)
    /\ user' = [user EXCEPT ![i] = [NoUser EXCEPT !.state = "kept", !.email = job[j].email,
                                                 !.role = job[j].role]]
    /\ Go(j, "consume")
    /\ UNCHANGED <<invite, mailed, flag, session>>

AcceptConsume(j) ==
    /\ At(j, "consume") /\ invite[job[j].invite].state = "pending"
    /\ invite' = [invite EXCEPT ![job[j].invite].state = "removed"]
    /\ Finish(j)
    /\ UNCHANGED <<user, mailed, flag, session>>

\* Everybody else registers, with the role user.
SignUp(i, e) ==
    /\ user[i].state = "absent" /\ ~Taken(e)
    /\ user' = [user EXCEPT ![i] = [NoUser EXCEPT !.state = "kept", !.email = e]]
    /\ UNCHANGED <<invite, mailed, flag, session, job>>

-----------------------------------------------------------------------------
(* Blocks, marks and erasures.                                              *)

Block(c, i) ==
    /\ c \in session /\ May("blockUser", c)
    /\ Kept(i) /\ ~user[i].owner
    /\ user' = [user EXCEPT ![i].blocked = TRUE]
    /\ UNCHANGED <<invite, mailed, flag, session, job>>

\* The block also ends by itself, when its date has come.
Unblock(c, i) ==
    /\ c \in session /\ May("unblockUser", c)
    /\ Kept(i)
    /\ user' = [user EXCEPT ![i].blocked = FALSE]
    /\ UNCHANGED <<invite, mailed, flag, session, job>>

SoftDelete(c, i) ==
    /\ c \in session /\ May("softDeleteUser", c) /\ MayRemoveUsers(c)
    /\ Kept(i) /\ ~user[i].owner
    /\ user' = [user EXCEPT ![i].deleted = TRUE]
    /\ UNCHANGED <<invite, mailed, flag, session, job>>

Restore(c, i) ==
    /\ c \in session /\ May("restoreUser", c)
    /\ Kept(i)
    /\ user' = [user EXCEPT ![i].deleted = FALSE]
    /\ UNCHANGED <<invite, mailed, flag, session, job>>

\* deleteAdmin asks for the role and, to erase a super admin, for the owner. The hard
\* deletion of softDeleteUser asks for a super admin only.
MayEraseAnybody(c, i) ==
    /\ Kept(i) /\ Kept(c.id)
    /\ \/ May("deleteAdmin", c) /\ c.role = "super_admin"
          /\ user[i].role = "super_admin" => user[c.id].owner
       \/ May("softDeleteUser", c) /\ MayRemoveUsers(c) /\ IsSuper(c)
MayErase(c, i) ==
    /\ Kept(i) /\ Kept(c.id) /\ ~user[i].owner
    /\ \/ May("deleteAdmin", c) /\ c.role = "super_admin"
          /\ user[i].role = "super_admin" => user[c.id].owner
       \/ May("softDeleteUser", c) /\ MayRemoveUsers(c) /\ IsSuper(c)

\* The subscription is cancelled and the picture deleted between the check and the transaction.
EraseBegin(j, c, i) ==
    /\ At(j, "idle") /\ c \in session
    /\ MayErase(c, i)
    /\ job' = [job EXCEPT ![j] = [Idle EXCEPT !.pc = "erase", !.id = i, !.email = user[i].email]]
    /\ UNCHANGED <<user, invite, mailed, flag, session>>

FlagsAbout(i)   == {f \in Flags : flag[f].user = i}
FlagsAboutBy(i) == {f \in Flags : flag[f].user = i \/ flag[f].by = i}

EraseWrite(j) ==
    LET i == job[j].id
    IN  /\ At(j, "erase") /\ Kept(i)
        /\ user' = [user EXCEPT ![i] = [NoUser EXCEPT !.state = "erased"]]
        /\ flag' = [f \in Flags |-> IF f \in FlagsAboutBy(i) THEN NoFlag ELSE flag[f]]
        /\ invite' = Without(job[j].email)
        /\ Finish(j)
        /\ UNCHANGED <<mailed, session>>

-----------------------------------------------------------------------------
(* Flags.                                                                   *)

FlagUser(c, i, f, a) ==
    /\ c \in session /\ May("flagUser", c)
    /\ Kept(i) /\ Kept(c.id) /\ flag[f] = NoFlag
    /\ flag' = [flag EXCEPT ![f] = [status |-> "PENDING", user |-> i, by |-> c.id, action |-> a]]
    /\ UNCHANGED <<user, invite, mailed, session, job>>

\* A flag is resolved to any status, from any status.
ResolveBegin(j, c, f, s) ==
    /\ At(j, "idle") /\ c \in session
    /\ May("resolveFlag", c) /\ IsSuper(c)
    /\ flag[f] # NoFlag
    /\ job' = [job EXCEPT ![j] = [Idle EXCEPT !.pc = "resolve", !.id = flag[f].user, !.flag = f,
                                             !.status = s, !.action = flag[f].action]]
    /\ UNCHANGED <<user, invite, mailed, flag, session>>

ResolveWrite(j) ==
    /\ At(j, "resolve") /\ flag[job[j].flag] # NoFlag
    /\ flag' = [flag EXCEPT ![job[j].flag].status = job[j].status]
    /\ IF job[j].status = "APPROVED" THEN Go(j, "carryOut") ELSE Finish(j)
    /\ UNCHANGED <<user, invite, mailed, session>>

\* What the flag asked for when it was read, owner or not.
CarryOut(j) ==
    /\ At(j, "carryOut") /\ Kept(job[j].id)
    /\ user' = IF job[j].action = "BLOCK" THEN [user EXCEPT ![job[j].id].blocked = TRUE]
                                          ELSE [user EXCEPT ![job[j].id].deleted = TRUE]
    /\ Finish(j)
    /\ UNCHANGED <<invite, mailed, flag, session>>

\* A row that is gone, a key, a mail or a call that fails.
JobFails(j) ==
    /\ ~At(j, "idle")
    /\ Finish(j)
    /\ UNCHANGED <<user, invite, mailed, flag, session>>

Next ==
    \/ Restart
    \/ \E i \in Ids : LogIn(i) \/ \E e \in Emails : SignUp(i, e)
    \/ \E c \in Claims :
        \/ Refresh(c)
        \/ \E i \in Ids :
            \/ Block(c, i) \/ Unblock(c, i) \/ SoftDelete(c, i) \/ Restore(c, i)
            \/ \E f \in Flags, a \in FlagAction : FlagUser(c, i, f, a)
            \/ \E j \in Jobs : EraseBegin(j, c, i)
        \/ \E j \in Jobs, e \in Emails, r \in Invitable : InviteBegin(j, c, e, r)
        \/ \E j \in Jobs, f \in Flags, s \in FlagStatus : ResolveBegin(j, c, f, s)
    \/ \E j \in Jobs :
        \/ InviteClear(j) \/ InviteMail(j) \/ AcceptConsume(j) \/ EraseWrite(j)
        \/ ResolveWrite(j) \/ CarryOut(j) \/ JobFails(j)
        \/ \E t \in Invites : InviteCreate(j, t) \/ AcceptBegin(j, t)
        \/ \E i \in Ids : AcceptCreate(j, i)

Spec == Init /\ [][Next]_vars

-----------------------------------------------------------------------------
(* Properties.                                                              *)

KeptIds == {i \in Ids : Kept(i)}

Member  == [i \in KeptIds |-> [email |-> user[i].email, role |-> user[i].role]]
Erased  == {i \in Ids : user[i].state = "erased"}
Invited == {<<invite[t].email, invite[t].role>> : t \in mailed}

Accounts == INSTANCE Membership WITH member <- Member, erased <- Erased, invited <- Invited

\* The administration implements Membership, under overlapping invitations, acceptances and
\* erasures, restarts and claims that are older than the rows.
ImplementsMembership == Accounts!Spec

\* The role a token claims is the role its account has: no operation changes a role, so a
\* guard that never looks at the row admits nobody it should not.
ClaimsTrue == \A c \in session : Kept(c.id) => c.role = user[c.id].role

\* A flag is about an account there is, raised by an account there is.
FlagsLive == \A f \in Flags : flag[f] # NoFlag => Kept(flag[f].user) /\ Kept(flag[f].by)

\* softDeleteUser: "The primary Site Owner account cannot be deleted."
OwnerUnmarked == ~user[Owner].deleted

\* acceptInvite: "Account activated successfully. You can now log in."
ActivatedMayLogIn == \A i \in Ids : Kept(i) /\ user[i].role # "user" => MayLogIn(i)

=============================================================================
