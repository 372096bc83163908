------------------------- MODULE Moderation_proofs -------------------------
(***************************************************************************)
(* The administration of accounts is well typed, its claims are true, its  *)
(* flags are about accounts there are, and it implements Membership, for   *)
(* any number of accounts, invitations, flags and overlapping requests.    *)
(* Then: when what is carried out is what was decided, when the owner is   *)
(* never marked, and who may log in.                                       *)
(***************************************************************************)
EXTENDS Moderation, TLAPS

\* Every account has an address. The owner's account stays as it was made, and no other row
\* looks like it.
OwnerSafe ==
    /\ \A i \in Ids : Kept(i) => user[i].email \in Emails
    /\ Kept(Owner) /\ user[Owner].email = OwnerEmail
    /\ user[Owner].role = "super_admin" /\ user[Owner].owner
    /\ \A i \in Ids \ {Owner} : user[i].email # OwnerEmail /\ ~user[i].owner

\* A token is about an account there is or was, and its role is the account's.
ClaimsInv ==
    \A c \in session : user[c.id].state # "absent" /\ (Kept(c.id) => c.role = user[c.id].role)

\* An invitation names an address and a role of the staff, and only those were mailed
\* that there are or were.
InvitesInv ==
    /\ \A t \in Invites : invite[t].state # "none" =>
           invite[t].email \in Emails /\ invite[t].role \in StaffRoles
    /\ \A t \in Invites : invite[t].state = "none" => invite[t].email = None
    /\ \A t \in mailed : invite[t].state # "none"

FlagsInv ==
    \A f \in Flags : flag[f] # NoFlag =>
        /\ flag[f].user \in Ids /\ flag[f].by \in Ids
        /\ Kept(flag[f].user) /\ Kept(flag[f].by)

\* What a request may rely on after its awaits: the invitation it works on was created, the one
\* that is accepted was mailed and still says what was read, the account to be erased is
\* not the owner's.
JobSound(r) ==
    /\ r.pc \in {"inviteClear", "inviteCreate", "inviteMail", "accept", "consume"} =>
           r.email \in Emails /\ r.role \in StaffRoles
    /\ r.pc = "inviteMail" => r.invite \in Invites /\ invite[r.invite].state # "none"
    /\ r.pc \in {"accept", "consume"} =>
           /\ r.invite \in mailed
           /\ invite[r.invite].email = r.email /\ invite[r.invite].role = r.role
    /\ r.pc = "erase" => r.id \in Ids \ {Owner} /\ r.email \in Emails /\ user[r.id].state # "absent"
    /\ r.pc \in {"resolve", "carryOut"} => r.id \in Ids /\ r.flag \in Flags

JobsInv == \A j \in Jobs : JobSound(job[j])

IInv == TypeOK /\ OwnerSafe /\ ClaimsInv /\ InvitesInv /\ FlagsInv /\ JobsInv

\* What no step undoes.
Grows ==
    /\ mailed \subseteq mailed'
    /\ \A t \in Invites : invite[t].state # "none" =>
           /\ invite'[t].state # "none"
           /\ invite'[t].email = invite[t].email /\ invite'[t].role = invite[t].role
    /\ \A i \in Ids : user[i].state # "absent" => user'[i].state # "absent"

\* A step after which everybody is still who he was.
SamePeople ==
    /\ user' \in [Ids -> User]
    /\ \A i \in Ids : /\ user'[i].state = user[i].state /\ user'[i].email = user[i].email
                      /\ user'[i].role = user[i].role /\ user'[i].owner = user[i].owner

-----------------------------------------------------------------------------
(* Lemmas on single records.                                                *)

\* The empty rows, the idle job and the owner's row.
LEMMA FirstRecords ==
  /\ NoUser \in User /\ NoInvite \in Invitation /\ NoFlag \in Flag /\ Idle \in Job
  /\ "user" \in Roles /\ "super_admin" \in StaffRoles /\ StaffRoles \subseteq Roles
<1>1. "user" \in Roles /\ "super_admin" \in StaffRoles /\ StaffRoles \subseteq Roles
  BY DEF Roles, StaffRoles
<1>2. "BLOCK" \in FlagAction
  BY DEF FlagAction
<1>3. NoUser \in User
  BY <1>1 DEF NoUser, User
<1>4. NoInvite \in Invitation
  BY <1>1 DEF NoInvite, Invitation
<1>5. NoFlag \in Flag
  BY <1>2 DEF NoFlag, Flag
<1>6. Idle \in Job
  BY <1>1, <1>2 DEF Idle, Job
<1> QED
  BY <1>1, <1>3, <1>4, <1>5, <1>6

\* A new account.
NewUser(e, r) == [NoUser EXCEPT !.state = "kept", !.email = e, !.role = r]

\* It is well typed, and not the owner's.
LEMMA NewUserType ==
  ASSUME NEW e \in Emails, NEW r \in Roles
  PROVE  /\ NewUser(e, r) \in User /\ NewUser(e, r).state = "kept"
         /\ NewUser(e, r).email = e /\ NewUser(e, r).role = r /\ ~NewUser(e, r).owner
<1>1. PICK s \in {"absent", "kept", "erased"} : s = "kept"
  OBVIOUS
<1>2. PICK u \in User : u = NoUser /\ u.owner = FALSE
  <2>1. NoUser.owner = FALSE
    BY DEF NoUser
  <2> QED
    BY <2>1, FirstRecords
<1>3. NewUser(e, r) = [u EXCEPT !.state = s, !.email = e, !.role = r]
  BY <1>1, <1>2 DEF NewUser
<1>4. [u EXCEPT !.state = s, !.email = e, !.role = r] \in User
  BY DEF User
<1>5. /\ NewUser(e, r).state = s /\ NewUser(e, r).email = e
      /\ NewUser(e, r).role = r /\ NewUser(e, r).owner = u.owner
  BY <1>3 DEF User
<1> QED
  BY <1>1, <1>2, <1>3, <1>4, <1>5

\* The row of an erased account.
Gone == [NoUser EXCEPT !.state = "erased"]

\* It is well typed and has no address.
LEMMA GoneType ==
  Gone \in User /\ Gone.state = "erased" /\ Gone.email = None /\ ~Gone.owner
<1>1. PICK s \in {"absent", "kept", "erased"} : s = "erased"
  OBVIOUS
<1>2. PICK u \in User : u = NoUser /\ u.owner = FALSE /\ u.email = None
  <2>1. NoUser.owner = FALSE /\ NoUser.email = None
    BY DEF NoUser
  <2> QED
    BY <2>1, FirstRecords
<1>3. Gone = [u EXCEPT !.state = s]
  BY <1>1, <1>2 DEF Gone
<1>4. [u EXCEPT !.state = s] \in User
  BY DEF User
<1>5. Gone.state = s /\ Gone.email = u.email /\ Gone.owner = u.owner
  BY <1>3 DEF User
<1> QED
  BY <1>1, <1>2, <1>3, <1>4, <1>5

\* Only the owner has the owner's address, and only his row is an owner's.
LEMMA OnlyOwner ==
  ASSUME OwnerSafe, NEW i \in Ids
  PROVE  /\ Privileged(i) <=> i = Owner
         /\ user[i].owner <=> i = Owner
BY Parameters DEF OwnerSafe, Privileged

-----------------------------------------------------------------------------
(* Lemmas on jobs.                                                          *)

\* What a sound job relies on is not undone.
LEMMA SoundStable ==
  ASSUME NEW b \in Job, TypeOK, InvitesInv, Grows, JobSound(b)
  PROVE  JobSound(b)'
<1>1. mailed \subseteq Invites
  BY DEF TypeOK
<1>2. b.pc \in {"accept", "consume"} =>
        invite'[b.invite].email = invite[b.invite].email
        /\ invite'[b.invite].role = invite[b.invite].role
  BY <1>1 DEF JobSound, InvitesInv, Grows
<1> QED
  BY <1>2 DEF JobSound, Grows

\* A step that gives one job a new record has to show that record sound.
LEMMA JobStep ==
  ASSUME IInv, Grows, NEW j \in Jobs, NEW b \in Job,
         job' = [job EXCEPT ![j] = b], JobSound(b)'
  PROVE  JobsInv' /\ job' \in [Jobs -> Job]
<1>1. job \in [Jobs -> Job]
  BY DEF IInv, TypeOK
<1>2. ASSUME NEW i \in Jobs
      PROVE  JobSound(job[i])'
  <2>1. CASE i = j
    BY <1>1, <2>1 DEF JobSound
  <2>2. CASE i # j
    <3>1. PICK c \in Job : c = job[i]
      BY <1>1
    <3>2. JobSound(c)'
      BY <3>1, SoundStable DEF IInv, JobsInv
    <3> QED
      BY <1>1, <2>2, <3>1, <3>2 DEF JobSound
  <2> QED
    BY <2>1, <2>2
<1> QED
  BY <1>1, <1>2 DEF JobsInv

\* A step that touches no job.
LEMMA NoJobStep ==
  ASSUME IInv, Grows, job' = job
  PROVE  JobsInv' /\ job' \in [Jobs -> Job]
<1>1. job \in [Jobs -> Job]
  BY DEF IInv, TypeOK
<1>2. ASSUME NEW i \in Jobs
      PROVE  JobSound(job[i])'
  <2>1. PICK c \in Job : c = job[i]
    BY <1>1
  <2>2. JobSound(c)'
    BY <2>1, SoundStable DEF IInv, JobsInv
  <2> QED
    BY <2>1, <2>2 DEF JobSound
<1> QED
  BY <1>1, <1>2 DEF JobsInv

\* A job that ends.
LEMMA FinishStep ==
  ASSUME IInv, Grows, NEW j \in Jobs, Finish(j)
  PROVE  JobsInv' /\ job' \in [Jobs -> Job]
<1>1. JobSound(Idle)'
  BY DEF Idle, JobSound
<1> QED
  BY <1>1, FirstRecords, JobStep DEF Finish

\* A job that goes on with what it has.
LEMMA GoStep ==
  ASSUME IInv, Grows, NEW j \in Jobs,
         \/ At(j, "inviteClear") /\ Go(j, "inviteCreate")
         \/ At(j, "accept") /\ Go(j, "consume")
         \/ At(j, "resolve") /\ Go(j, "carryOut")
  PROVE  JobsInv' /\ job' \in [Jobs -> Job]
<1>1. PICK b \in Job : b = job[j] /\ JobSound(b)
  BY DEF IInv, TypeOK, JobsInv
<1>2. PICK p \in {"inviteCreate", "consume", "carryOut"} :
        /\ job' = [job EXCEPT ![j].pc = p]
        /\ \/ b.pc = "inviteClear" /\ p = "inviteCreate"
           \/ b.pc = "accept" /\ p = "consume"
           \/ b.pc = "resolve" /\ p = "carryOut"
  BY <1>1 DEF Go, At
<1> DEFINE c == [b EXCEPT !.pc = p]
<1>3. c \in Job /\ c.pc = p /\ c.email = b.email /\ c.role = b.role /\ c.invite = b.invite
      /\ c.id = b.id /\ c.flag = b.flag
  BY DEF Job
<1>4. job' = [job EXCEPT ![j] = c]
  BY <1>1, <1>2 DEF IInv, TypeOK
<1>5. JobSound(b)'
  BY <1>1, SoundStable DEF IInv
<1> HIDE DEF c
<1>6. JobSound(c)'
  BY <1>2, <1>3, <1>5 DEF JobSound
<1> QED
  BY <1>3, <1>4, <1>6, JobStep

-----------------------------------------------------------------------------
(* Steps after which everybody is still who he was.                         *)

\* The owner's self-healing changes marks only.
LEMMA EnsureOwnerSame ==
  ASSUME IInv, user' = EnsureOwner
  PROVE  SamePeople
<1>1. user \in [Ids -> User]
  BY DEF IInv, TypeOK
<1>2. PICK r \in Roles, yes \in BOOLEAN, no \in BOOLEAN :
        r = "super_admin" /\ yes = TRUE /\ no = FALSE
  BY FirstRecords
<1>3. ASSUME NEW i \in Ids
      PROVE  /\ user'[i] \in User
             /\ user'[i].state = user[i].state /\ user'[i].email = user[i].email
             /\ user'[i].role = user[i].role /\ user'[i].owner = user[i].owner
  <2>1. PICK u \in User : u = user[i]
    BY <1>1
  <2>2. CASE Privileged(i)
    <3>1. u.role = r /\ u.owner = yes
      BY <1>2, <2>1, <2>2, OnlyOwner DEF IInv, OwnerSafe
    <3>2. user'[i] = [u EXCEPT !.role = r, !.owner = yes, !.deleted = no, !.blocked = no]
      BY <1>2, <2>1, <2>2 DEF EnsureOwner
    <3> QED
      BY <2>1, <3>1, <3>2 DEF User
  <2>3. CASE ~Privileged(i)
    <3>1. u.owner = no
      BY <1>2, <2>1, <2>3, OnlyOwner DEF IInv, User
    <3>2. user'[i] = [u EXCEPT !.owner = no]
      BY <1>2, <2>1, <2>3 DEF EnsureOwner
    <3> QED
      BY <2>1, <3>1, <3>2 DEF User
  <2> QED
    BY <2>2, <2>3
<1>4. user' = [i \in Ids |-> user'[i]]
  BY DEF EnsureOwner
<1> QED
  BY <1>3, <1>4 DEF SamePeople

\* A block or a mark on one row changes nobody.
LEMMA MarkSame ==
  ASSUME IInv, NEW i \in Ids, NEW b \in BOOLEAN,
         \/ user' = [user EXCEPT ![i].blocked = b]
         \/ user' = [user EXCEPT ![i].deleted = b]
  PROVE  SamePeople
<1>1. user \in [Ids -> User]
  BY DEF IInv, TypeOK
<1>2. PICK u \in User : u = user[i]
  BY <1>1
<1>3. PICK v \in User : /\ user' = [user EXCEPT ![i] = v]
                        /\ v.state = u.state /\ v.email = u.email
                        /\ v.role = u.role /\ v.owner = u.owner
  <2>1. CASE user' = [user EXCEPT ![i].blocked = b]
    <3> DEFINE w == [u EXCEPT !.blocked = b]
    <3>1. w \in User /\ w.state = u.state /\ w.email = u.email /\ w.role = u.role
          /\ w.owner = u.owner
      BY DEF User
    <3>2. user' = [user EXCEPT ![i] = w]
      BY <1>1, <1>2, <2>1
    <3> QED
      BY <3>1, <3>2
  <2>2. CASE user' = [user EXCEPT ![i].deleted = b]
    <3> DEFINE w == [u EXCEPT !.deleted = b]
    <3>1. w \in User /\ w.state = u.state /\ w.email = u.email /\ w.role = u.role
          /\ w.owner = u.owner
      BY DEF User
    <3>2. user' = [user EXCEPT ![i] = w]
      BY <1>1, <1>2, <2>2
    <3> QED
      BY <3>1, <3>2
  <2> QED
    BY <2>1, <2>2
<1> QED
  BY <1>1, <1>2, <1>3 DEF SamePeople

\* What is said of people stays true while everybody is who he was.
LEMMA SameParts ==
  ASSUME IInv, SamePeople
  PROVE  /\ OwnerSafe'
         /\ flag' = flag => FlagsInv'
         /\ session' = session => ClaimsInv'
<1>1. \A i \in Ids : Kept(i)' <=> Kept(i)
  BY DEF SamePeople, Kept
<1>2. OwnerSafe'
  BY <1>1, Parameters DEF SamePeople, OwnerSafe, IInv
<1>3. flag' = flag => FlagsInv'
  BY <1>1 DEF FlagsInv, IInv
<1>4. session' = session => ClaimsInv'
  <2>1. ASSUME session' = session, NEW c \in session
        PROVE  user'[c.id].state # "absent" /\ (Kept(c.id)' => c.role = user'[c.id].role)
    <3>1. c.id \in Ids
      BY DEF IInv, TypeOK, Claims
    <3> QED
      BY <1>1, <3>1 DEF SamePeople, ClaimsInv, IInv
  <2> QED
    BY <2>1 DEF ClaimsInv
<1> QED
  BY <1>2, <1>3, <1>4

\* A row that is not written.
LEMMA UserSame ==
  ASSUME IInv, user' = user
  PROVE  SamePeople
BY DEF IInv, TypeOK, SamePeople

\* A step that writes marks, and at most ends or begins a request.
LEMMA MarkStep ==
  ASSUME IInv, SamePeople, UNCHANGED <<invite, mailed, flag, session>>,
         Grows => JobsInv' /\ job' \in [Jobs -> Job]
  PROVE  IInv'
<1>1. Grows
  BY DEF SamePeople, Grows
<1>2. OwnerSafe' /\ ClaimsInv' /\ FlagsInv'
  BY SameParts
<1>3. TypeOK'
  BY <1>1 DEF IInv, TypeOK, SamePeople
<1>4. InvitesInv'
  BY DEF IInv, InvitesInv
<1> QED
  BY <1>1, <1>2, <1>3, <1>4 DEF IInv

\* Blocks, marks, their end, and the restart.
LEMMA MarksLemma ==
  ASSUME IInv, NEW c \in Claims, NEW i \in Ids,
         Block(c, i) \/ Unblock(c, i) \/ SoftDelete(c, i) \/ Restore(c, i)
  PROVE  IInv'
<1>1. SamePeople
  BY MarkSame DEF Block, Unblock, SoftDelete, Restore
<1>2. UNCHANGED <<invite, mailed, flag, session, job>>
  BY DEF Block, Unblock, SoftDelete, Restore
<1> QED
  BY <1>1, <1>2, MarkStep, NoJobStep

\* A restart heals the owner's row and forgets the requests.
LEMMA RestartLemma ==
  ASSUME IInv, Restart
  PROVE  IInv'
<1>1. SamePeople
  BY EnsureOwnerSame DEF Restart
<1>2. JobsInv' /\ job' \in [Jobs -> Job]
  <2>1. JobSound(Idle)'
    BY DEF Idle, JobSound
  <2> QED
    BY <2>1, FirstRecords DEF Restart, JobsInv, JobSound
<1> QED
  BY <1>1, <1>2, MarkStep DEF Restart

\* resolveFlag carries a decision out.
LEMMA CarryOutLemma ==
  ASSUME IInv, NEW j \in Jobs, CarryOut(j)
  PROVE  IInv'
<1>1. job[j].id \in Ids
  BY DEF IInv, JobsInv, JobSound, CarryOut, At
<1>2. SamePeople
  BY <1>1, MarkSame DEF CarryOut
<1> QED
  BY <1>2, MarkStep, FinishStep DEF CarryOut

\* A log-in and a refresh issue a token that says what the row says.
LEMMA TokensLemma ==
  ASSUME IInv, \/ \E i \in Ids : LogIn(i)
               \/ \E c \in Claims : Refresh(c)
  PROVE  IInv'
<1>1. SamePeople /\ UNCHANGED <<invite, mailed, flag, job>>
  BY EnsureOwnerSame, UserSame DEF LogIn, Refresh
<1>2. PICK i \in Ids, t \in Claims : /\ session' = session \cup {t}
                                     /\ t.id = i /\ Kept(i) /\ t.role = user[i].role
  <2>1. ASSUME NEW i \in Ids, LogIn(i)
        PROVE  \E t \in Claims : /\ session' = session \cup {t}
                                 /\ t.id = i /\ Kept(i) /\ t.role = user[i].role
    <3> DEFINE t == [id |-> i, role |-> user'[i].role, owner |-> user'[i].owner]
    <3>1. user'[i] \in User /\ user'[i].role = user[i].role
      BY <1>1 DEF SamePeople
    <3>2. user[i].role \in StaffRoles
      BY <2>1, OnlyOwner, FirstRecords DEF LogIn, MayLogIn, IInv, OwnerSafe, StaffRoles
    <3>3. t \in Claims
      BY <3>1, <3>2 DEF Claims, User
    <3> QED
      BY <2>1, <3>1, <3>3 DEF LogIn
  <2>2. ASSUME NEW c \in Claims, Refresh(c)
        PROVE  \E t \in Claims : /\ session' = session \cup {t}
                                 /\ t.id = c.id /\ Kept(c.id) /\ t.role = user[c.id].role
    <3>1. c.id \in Ids /\ c.role \in StaffRoles /\ user[c.id] \in User
      BY DEF Claims, IInv, TypeOK
    <3>2. c.role = user[c.id].role
      BY <2>2 DEF Refresh, IInv, ClaimsInv
    <3>3. user[c.id].owner \/ Privileged(c.id) => user[c.id].role = "super_admin"
      BY <3>1, OnlyOwner DEF IInv, OwnerSafe
    <3>4. Refreshed(c.id) \in Claims /\ Refreshed(c.id).id = c.id
          /\ Refreshed(c.id).role = user[c.id].role
      BY <3>1, <3>2, <3>3, FirstRecords DEF Refreshed, Claims, User
    <3> QED
      BY <2>2, <3>4 DEF Refresh
  <2> QED
    BY <2>1, <2>2 DEF Claims
<1>3. ClaimsInv'
  <2>1. ASSUME NEW c \in session'
        PROVE  user'[c.id].state # "absent" /\ (Kept(c.id)' => c.role = user'[c.id].role)
    <3>1. CASE c = t
      BY <1>1, <1>2, <3>1 DEF SamePeople, Kept
    <3>2. CASE c \in session
      <4>1. c.id \in Ids
        BY <3>2 DEF IInv, TypeOK, Claims
      <4> QED
        BY <1>1, <3>2, <4>1 DEF SamePeople, Kept, ClaimsInv, IInv
    <3> QED
      BY <1>2, <2>1, <3>1, <3>2
  <2> QED
    BY <2>1 DEF ClaimsInv
<1>4. OwnerSafe' /\ FlagsInv' /\ InvitesInv'
  BY <1>1, SameParts DEF IInv, InvitesInv
<1>5. JobsInv' /\ job' \in [Jobs -> Job]
  BY <1>1, NoJobStep DEF SamePeople, Grows
<1>6. TypeOK'
  BY <1>1, <1>2, <1>5 DEF IInv, TypeOK, SamePeople
<1> QED
  BY <1>3, <1>4, <1>5, <1>6 DEF IInv

-----------------------------------------------------------------------------
(* Invitations.                                                             *)

\* A step that only begins, continues or ends a request.
LEMMA JobOnly ==
  ASSUME IInv, UNCHANGED <<user, invite, mailed, flag, session>>,
         Grows => JobsInv' /\ job' \in [Jobs -> Job]
  PROVE  IInv'
BY UserSame, MarkStep

\* createAdmin and inviteTeamMember begin.
LEMMA InviteBeginLemma ==
  ASSUME IInv, NEW j \in Jobs, NEW c \in Claims, NEW e \in Emails, NEW r \in Invitable,
         InviteBegin(j, c, e, r)
  PROVE  IInv'
<1> DEFINE b == [Idle EXCEPT !.pc = "inviteClear", !.email = e, !.role = r]
<1>1. PICK p \in {"inviteClear", "accept"}, a \in Job : p = "inviteClear" /\ a = Idle
  BY FirstRecords
<1>2. r \in StaffRoles /\ r \in Roles
  BY Parameters, FirstRecords
<1>3. b = [a EXCEPT !.pc = p, !.email = e, !.role = r]
  BY <1>1
<1>4. job' = [job EXCEPT ![j] = b]
  BY DEF InviteBegin
<1>5. b \in Job /\ b.pc = p /\ b.email = e /\ b.role = r
  BY <1>2, <1>3 DEF Job
<1> HIDE DEF b
<1>6. JobSound(b)'
  BY <1>1, <1>2, <1>5 DEF JobSound
<1> QED
  BY <1>4, <1>5, <1>6, JobStep, JobOnly DEF InviteBegin

\* acceptInvite begins with an invitation that was mailed.
LEMMA AcceptBeginLemma ==
  ASSUME IInv, NEW j \in Jobs, NEW t \in Invites, AcceptBegin(j, t)
  PROVE  IInv'
<1>1. PICK e \in Emails, r \in StaffRoles : e = invite[t].email /\ r = invite[t].role
  BY DEF AcceptBegin, IInv, InvitesInv
<1>2. PICK p \in {"inviteClear", "accept"}, a \in Job : p = "accept" /\ a = Idle
  BY FirstRecords
<1> DEFINE b == [a EXCEPT !.pc = p, !.email = e, !.role = r, !.invite = t]
<1>3. r \in Roles
  BY FirstRecords
<1>4. job' = [job EXCEPT ![j] = b]
  BY <1>1, <1>2 DEF AcceptBegin
<1>5. b \in Job /\ b.pc = p /\ b.email = e /\ b.role = r /\ b.invite = t
  BY <1>3 DEF Job
<1> HIDE DEF b
<1>6. JobSound(b)'
  BY <1>1, <1>2, <1>5 DEF JobSound, AcceptBegin
<1> QED
  BY <1>4, <1>5, <1>6, JobStep, JobOnly DEF AcceptBegin

\* Invitations that are removed keep what they say.
LEMMA InvitesGo ==
  ASSUME IInv, invite' \in [Invites -> Invitation],
         \A t \in Invites : /\ invite'[t].email = invite[t].email
                            /\ invite'[t].role = invite[t].role
                            /\ (invite'[t].state = "none") = (invite[t].state = "none")
  PROVE  /\ mailed' = mailed => InvitesInv'
         /\ \A t \in Invites : invite[t].state # "none" =>
                /\ invite'[t].state # "none"
                /\ invite'[t].email = invite[t].email /\ invite'[t].role = invite[t].role
<1>1. mailed \subseteq Invites
  BY DEF IInv, TypeOK
<1> QED
  BY <1>1 DEF IInv, InvitesInv

\* The removal of an address's invitations.
LEMMA WithoutFacts ==
  ASSUME IInv, NEW e \in Emails, invite' = Without(e)
  PROVE  /\ invite' \in [Invites -> Invitation]
         /\ \A t \in Invites : /\ invite'[t].email = invite[t].email
                               /\ invite'[t].role = invite[t].role
                               /\ (invite'[t].state = "none") = (invite[t].state = "none")
<1>1. PICK s \in {"none", "pending", "removed"} : s = "removed"
  OBVIOUS
<1>2. ASSUME NEW t \in Invites
      PROVE  /\ invite'[t] \in Invitation
             /\ invite'[t].email = invite[t].email /\ invite'[t].role = invite[t].role
             /\ (invite'[t].state = "none") = (invite[t].state = "none")
  <2>1. PICK v \in Invitation : v = invite[t]
    BY DEF IInv, TypeOK
  <2>2. CASE v.email = e
    <3>1. v.state # "none"
      BY <2>1, <2>2, NoneIsNoValue DEF IInv, InvitesInv
    <3>2. invite'[t] = [v EXCEPT !.state = s]
      BY <1>1, <2>1, <2>2 DEF Without
    <3>3. /\ [v EXCEPT !.state = s] \in Invitation /\ [v EXCEPT !.state = s].state = s
          /\ [v EXCEPT !.state = s].email = v.email /\ [v EXCEPT !.state = s].role = v.role
      BY DEF Invitation
    <3> QED
      BY <1>1, <2>1, <3>1, <3>2, <3>3
  <2>3. CASE v.email # e
    BY <2>1, <2>3 DEF Without
  <2> QED
    BY <2>2, <2>3
<1>3. invite' = [t \in Invites |-> invite'[t]]
  BY DEF Without
<1> QED
  BY <1>2, <1>3

\* A step that removes invitations.
LEMMA InvitesStep ==
  ASSUME IInv, UNCHANGED <<user, mailed, flag, session>>,
         invite' \in [Invites -> Invitation],
         \A t \in Invites : /\ invite'[t].email = invite[t].email
                            /\ invite'[t].role = invite[t].role
                            /\ (invite'[t].state = "none") = (invite[t].state = "none"),
         Grows => JobsInv' /\ job' \in [Jobs -> Job]
  PROVE  IInv'
<1>1. Grows /\ InvitesInv'
  BY InvitesGo DEF Grows
<1>2. OwnerSafe' /\ ClaimsInv' /\ FlagsInv'
  BY UserSame, SameParts
<1>3. TypeOK'
  BY <1>1 DEF IInv, TypeOK
<1> QED
  BY <1>1, <1>2, <1>3 DEF IInv

\* Older invitations go before the new one comes.
LEMMA InviteClearLemma ==
  ASSUME IInv, NEW j \in Jobs, InviteClear(j)
  PROVE  IInv'
<1>1. PICK e \in Emails : e = job[j].email /\ invite' = Without(e)
  BY DEF IInv, JobsInv, JobSound, InviteClear, At
<1> QED
  BY <1>1, WithoutFacts, InvitesStep, GoStep DEF InviteClear

\* An invitation that was accepted goes.
LEMMA AcceptConsumeLemma ==
  ASSUME IInv, NEW j \in Jobs, AcceptConsume(j)
  PROVE  IInv'
<1>1. PICK t \in Invites, v \in Invitation, s \in {"none", "pending", "removed"} :
        t = job[j].invite /\ v = invite[t] /\ s = "removed"
  BY DEF IInv, TypeOK, JobsInv, JobSound, AcceptConsume, At
<1> DEFINE w == [v EXCEPT !.state = s]
<1>2. w \in Invitation /\ w.state = s /\ w.email = v.email /\ w.role = v.role
  BY DEF Invitation
<1>3. invite \in [Invites -> Invitation] /\ invite' = [invite EXCEPT ![t] = w]
  BY <1>1 DEF IInv, TypeOK, AcceptConsume
<1>4. v.state = "pending"
  BY <1>1 DEF AcceptConsume
<1> HIDE DEF w
<1>5. /\ invite' \in [Invites -> Invitation]
      /\ \A u \in Invites : /\ invite'[u].email = invite[u].email
                            /\ invite'[u].role = invite[u].role
                            /\ (invite'[u].state = "none") = (invite[u].state = "none")
  BY <1>1, <1>2, <1>3, <1>4
<1> QED
  BY <1>5, InvitesStep, FinishStep DEF AcceptConsume

\* The new invitation.
LEMMA InviteCreateLemma ==
  ASSUME IInv, NEW j \in Jobs, NEW t \in Invites, InviteCreate(j, t)
  PROVE  IInv'
<1>1. PICK b \in Job : b = job[j] /\ JobSound(b) /\ b.pc = "inviteCreate"
  BY DEF IInv, TypeOK, JobsInv, InviteCreate, At
<1>2. b.email \in Emails /\ b.role \in StaffRoles
  BY <1>1 DEF JobSound
<1> DEFINE v == [state |-> "pending", email |-> b.email, role |-> b.role]
<1>3. v \in Invitation /\ v.state = "pending" /\ v.email = b.email /\ v.role = b.role
  BY <1>2, FirstRecords DEF Invitation
<1>4. invite \in [Invites -> Invitation] /\ invite' = [invite EXCEPT ![t] = v]
  BY <1>1 DEF IInv, TypeOK, InviteCreate
<1> HIDE DEF v
<1>5. mailed \subseteq Invites \ {t}
  BY DEF IInv, TypeOK, InvitesInv, InviteCreate
<1>6. Grows
  BY <1>4, <1>5 DEF Grows, InviteCreate
<1>7. InvitesInv'
  BY <1>2, <1>3, <1>4, <1>5 DEF IInv, InvitesInv, InviteCreate
<1> DEFINE c == [b EXCEPT !.pc = "inviteMail", !.invite = t]
<1>8. PICK p : p = "inviteMail" /\ c = [b EXCEPT !.pc = p, !.invite = t]
               /\ p \in {"idle", "inviteClear", "inviteCreate", "inviteMail", "accept", "consume",
                         "erase", "resolve", "carryOut"}
  OBVIOUS
<1>9. c \in Job /\ c.pc = p /\ c.email = b.email /\ c.role = b.role /\ c.invite = t
  BY <1>8 DEF Job
<1>10. job' = [job EXCEPT ![j] = c]
  BY <1>1 DEF IInv, TypeOK, InviteCreate
<1> HIDE DEF c
<1>11. JobSound(c)'
  BY <1>2, <1>3, <1>4, <1>8, <1>9 DEF JobSound
<1>12. JobsInv' /\ job' \in [Jobs -> Job]
  BY <1>6, <1>9, <1>10, <1>11, JobStep
<1>13. OwnerSafe' /\ ClaimsInv' /\ FlagsInv'
  BY UserSame, SameParts DEF InviteCreate
<1>14. TypeOK'
  BY <1>3, <1>4, <1>12 DEF IInv, TypeOK, InviteCreate
<1> QED
  BY <1>7, <1>12, <1>13, <1>14 DEF IInv

\* The mail.
LEMMA InviteMailLemma ==
  ASSUME IInv, NEW j \in Jobs, InviteMail(j)
  PROVE  IInv'
<1>1. job[j].invite \in Invites /\ invite[job[j].invite].state # "none"
  BY DEF IInv, JobsInv, JobSound, InviteMail, At
<1>2. InvitesInv' /\ Grows
  BY <1>1 DEF IInv, InvitesInv, Grows, InviteMail
<1>3. OwnerSafe' /\ ClaimsInv' /\ FlagsInv'
  BY UserSame, SameParts DEF InviteMail
<1>4. JobsInv' /\ job' \in [Jobs -> Job]
  BY <1>2, FinishStep DEF InviteMail
<1>5. TypeOK'
  BY <1>1, <1>4 DEF IInv, TypeOK, InviteMail
<1> QED
  BY <1>2, <1>3, <1>4, <1>5 DEF IInv

-----------------------------------------------------------------------------
(* Accounts that come and go.                                               *)

\* A new account, with an address nobody has.
LEMMA NewAccount ==
  ASSUME IInv, NEW i \in Ids, NEW e \in Emails, NEW r \in Roles,
         user[i].state = "absent", ~Taken(e), user' = [user EXCEPT ![i] = NewUser(e, r)],
         UNCHANGED <<invite, mailed, flag, session>>,
         Grows => JobsInv' /\ job' \in [Jobs -> Job]
  PROVE  IInv'
<1>1. user \in [Ids -> User] /\ NewUser(e, r) \in User
  BY NewUserType DEF IInv, TypeOK
<1>2. Kept(i)' /\ user'[i].state = "kept" /\ user'[i].email = e /\ ~user'[i].owner
      /\ \A k \in Ids \ {i} : user'[k] = user[k] /\ (Kept(k)' <=> Kept(k))
  BY <1>1, NewUserType DEF Kept
<1>3. Grows
  BY <1>1, <1>2 DEF Grows
<1>4. OwnerSafe'
  <2>1. i # Owner /\ e # OwnerEmail
    BY Parameters DEF IInv, OwnerSafe, Taken, Kept
  <2> QED
    BY <1>2, <2>1, Parameters DEF IInv, OwnerSafe
<1>5. ClaimsInv'
  <2>1. ASSUME NEW c \in session
        PROVE  user'[c.id].state # "absent" /\ (Kept(c.id)' => c.role = user'[c.id].role)
    <3>1. c.id \in Ids \ {i}
      BY DEF IInv, TypeOK, Claims, ClaimsInv
    <3> QED
      BY <1>2, <3>1 DEF IInv, ClaimsInv
  <2> QED
    BY <2>1 DEF ClaimsInv
<1>6. FlagsInv'
  BY <1>2 DEF IInv, FlagsInv, Kept
<1>7. InvitesInv'
  BY DEF IInv, InvitesInv
<1>8. TypeOK'
  BY <1>1, <1>3 DEF IInv, TypeOK
<1> QED
  BY <1>3, <1>4, <1>5, <1>6, <1>7, <1>8 DEF IInv

\* acceptInvite creates the account.
LEMMA AcceptCreateLemma ==
  ASSUME IInv, NEW j \in Jobs, NEW i \in Ids, AcceptCreate(j, i)
  PROVE  IInv'
<1>1. PICK e \in Emails, r \in Roles : e = job[j].email /\ r = job[j].role
  BY FirstRecords DEF IInv, JobsInv, JobSound, AcceptCreate, At
<1>2. user' = [user EXCEPT ![i] = NewUser(e, r)]
  BY <1>1 DEF AcceptCreate, NewUser
<1> QED
  BY <1>1, <1>2, NewAccount, GoStep DEF AcceptCreate

\* The row of a registration.
LEMMA SignUpRow ==
  ASSUME NEW i \in Ids, NEW e \in Emails, SignUp(i, e)
  PROVE  user' = [user EXCEPT ![i] = NewUser(e, "user")]
<1>1. PICK u \in User, s \in {"absent", "kept", "erased"}, r \in Roles :
        u = NoUser /\ s = "kept" /\ r = "user" /\ u.role = r
  <2>1. NoUser.role = "user"
    BY DEF NoUser
  <2> QED
    BY <2>1, FirstRecords
<1>2. [u EXCEPT !.state = s, !.email = e, !.role = r] = [u EXCEPT !.state = s, !.email = e]
  BY <1>1 DEF User
<1> QED
  BY <1>1, <1>2 DEF SignUp, NewUser

\* A registration.
LEMMA SignUpLemma ==
  ASSUME IInv, NEW i \in Ids, NEW e \in Emails, SignUp(i, e)
  PROVE  IInv'
BY SignUpRow, FirstRecords, NewAccount, NoJobStep DEF SignUp

\* deleteAdminOrUser begins with an account that is not the owner's.
LEMMA EraseBeginLemma ==
  ASSUME IInv, NEW j \in Jobs, NEW c \in Claims, NEW i \in Ids, EraseBegin(j, c, i)
  PROVE  IInv'
<1>1. i # Owner /\ user[i].email \in Emails /\ user[i].state # "absent"
  BY OnlyOwner DEF EraseBegin, MayErase, Kept, IInv, OwnerSafe
<1>2. PICK p \in {"erase"}, a \in Job, e \in Emails : p = "erase" /\ a = Idle /\ e = user[i].email
  BY <1>1, FirstRecords
<1> DEFINE b == [a EXCEPT !.pc = p, !.id = i, !.email = e]
<1>3. job' = [job EXCEPT ![j] = b]
  BY <1>2 DEF EraseBegin
<1>4. b \in Job /\ b.pc = p /\ b.id = i /\ b.email = e
  BY DEF Job
<1> HIDE DEF b
<1>5. JobSound(b)'
  BY <1>1, <1>2, <1>4 DEF JobSound, EraseBegin
<1> QED
  BY <1>3, <1>4, <1>5, JobStep, JobOnly DEF EraseBegin

\* Its transaction: the account goes with the flags about it and by it and its invitations.
LEMMA EraseWriteLemma ==
  ASSUME IInv, NEW j \in Jobs, EraseWrite(j)
  PROVE  IInv'
<1>1. PICK i \in Ids, e \in Emails : i = job[j].id /\ e = job[j].email /\ i # Owner
  BY DEF IInv, JobsInv, JobSound, EraseWrite, At
<1>2. user \in [Ids -> User] /\ user' = [user EXCEPT ![i] = Gone] /\ Gone \in User
  BY <1>1, GoneType DEF IInv, TypeOK, EraseWrite, Gone
<1>3. user'[i].state = "erased" /\ user'[i].email = None /\ ~user'[i].owner /\ ~Kept(i)'
      /\ \A k \in Ids \ {i} : user'[k] = user[k] /\ (Kept(k)' <=> Kept(k))
  BY <1>2, GoneType DEF Kept
<1>4. /\ invite' \in [Invites -> Invitation]
      /\ \A t \in Invites : /\ invite'[t].email = invite[t].email
                            /\ invite'[t].role = invite[t].role
                            /\ (invite'[t].state = "none") = (invite[t].state = "none")
  BY <1>1, WithoutFacts DEF EraseWrite
<1>5. InvitesInv' /\ Grows
  BY <1>2, <1>3, <1>4, InvitesGo DEF EraseWrite, Grows
<1>6. OwnerSafe'
  BY <1>1, <1>3, NoneIsNoValue, Parameters DEF IInv, OwnerSafe
<1>7. ClaimsInv'
  <2>1. ASSUME NEW c \in session
        PROVE  user'[c.id].state # "absent" /\ (Kept(c.id)' => c.role = user'[c.id].role)
    <3>1. c.id \in Ids
      BY DEF IInv, TypeOK, Claims
    <3> QED
      BY <1>3, <3>1 DEF IInv, ClaimsInv
  <2> QED
    BY <2>1 DEF ClaimsInv, EraseWrite
<1>8. flag' \in [Flags -> Flag] /\ FlagsInv'
  <2>1. flag' = [f \in Flags |-> IF f \in FlagsAboutBy(i) THEN NoFlag ELSE flag[f]]
    BY <1>1 DEF EraseWrite
  <2>2. flag' \in [Flags -> Flag]
    BY <2>1, FirstRecords DEF IInv, TypeOK
  <2>3. ASSUME NEW f \in Flags, flag'[f] # NoFlag
        PROVE  flag'[f] = flag[f] /\ flag[f].user # i /\ flag[f].by # i
    BY <2>1, <2>3 DEF FlagsAboutBy
  <2> QED
    BY <1>3, <2>2, <2>3 DEF IInv, FlagsInv, Kept
<1>9. JobsInv' /\ job' \in [Jobs -> Job]
  BY <1>5, FinishStep DEF EraseWrite
<1>10. TypeOK'
  BY <1>2, <1>4, <1>8, <1>9 DEF IInv, TypeOK, EraseWrite
<1> QED
  BY <1>5, <1>6, <1>7, <1>8, <1>9, <1>10 DEF IInv

-----------------------------------------------------------------------------
(* Flags.                                                                   *)

\* A step that writes one flag.
LEMMA FlagStep ==
  ASSUME IInv, NEW f \in Flags, NEW v \in Flag, flag' = [flag EXCEPT ![f] = v],
         v.user \in Ids, v.by \in Ids, Kept(v.user), Kept(v.by),
         UNCHANGED <<user, invite, mailed, session>>,
         Grows => JobsInv' /\ job' \in [Jobs -> Job]
  PROVE  IInv'
<1>1. Grows
  BY DEF Grows
<1>2. OwnerSafe' /\ ClaimsInv'
  BY UserSame, SameParts
<1>3. flag \in [Flags -> Flag]
  BY DEF IInv, TypeOK
<1>4. flag' \in [Flags -> Flag] /\ FlagsInv'
  BY <1>3 DEF IInv, FlagsInv, Kept
<1>5. TypeOK' /\ InvitesInv'
  BY <1>1, <1>4 DEF IInv, TypeOK, InvitesInv
<1> QED
  BY <1>1, <1>2, <1>4, <1>5 DEF IInv

\* flagUser.
LEMMA FlagUserLemma ==
  ASSUME IInv, NEW c \in Claims, NEW i \in Ids, NEW f \in Flags, NEW a \in FlagAction,
         FlagUser(c, i, f, a)
  PROVE  IInv'
<1> DEFINE v == [status |-> "PENDING", user |-> i, by |-> c.id, action |-> a]
<1>1. c.id \in Ids
  BY DEF Claims
<1>2. v \in Flag /\ v.user = i /\ v.by = c.id
  BY <1>1 DEF Flag, FlagStatus
<1>3. flag' = [flag EXCEPT ![f] = v]
  BY DEF FlagUser
<1> HIDE DEF v
<1> QED
  BY <1>1, <1>2, <1>3, FlagStep, NoJobStep DEF FlagUser

\* resolveFlag reads the flag.
LEMMA ResolveBeginLemma ==
  ASSUME IInv, NEW j \in Jobs, NEW c \in Claims, NEW f \in Flags, NEW s \in FlagStatus,
         ResolveBegin(j, c, f, s)
  PROVE  IInv'
<1>1. PICK i \in Ids, d \in FlagAction : i = flag[f].user /\ d = flag[f].action
  <2>1. flag[f] \in Flag /\ flag[f].user \in Ids
    BY DEF ResolveBegin, IInv, TypeOK, FlagsInv
  <2> QED
    BY <2>1 DEF Flag
<1>2. PICK p \in {"resolve"}, a \in Job : p = "resolve" /\ a = Idle
  BY FirstRecords
<1> DEFINE b == [a EXCEPT !.pc = p, !.id = i, !.flag = f, !.status = s, !.action = d]
<1>3. job' = [job EXCEPT ![j] = b]
  BY <1>1, <1>2 DEF ResolveBegin
<1>4. b \in Job /\ b.pc = p /\ b.id = i /\ b.flag = f
  BY DEF Job
<1> HIDE DEF b
<1>5. JobSound(b)'
  BY <1>2, <1>4 DEF JobSound
<1> QED
  BY <1>3, <1>4, <1>5, JobStep, JobOnly DEF ResolveBegin

\* It records the decision, for a flag that is still there.
LEMMA ResolveWriteLemma ==
  ASSUME IInv, NEW j \in Jobs, ResolveWrite(j)
  PROVE  IInv'
<1>1. PICK b \in Job : b = job[j] /\ JobSound(b) /\ b.pc = "resolve"
  BY DEF IInv, TypeOK, JobsInv, ResolveWrite, At
<1>2. PICK f \in Flags, v \in Flag : f = b.flag /\ v = flag[f] /\ v # NoFlag
  BY <1>1 DEF JobSound, ResolveWrite, IInv, TypeOK
<1> DEFINE w == [v EXCEPT !.status = b.status]
<1>3. w \in Flag /\ w.user = v.user /\ w.by = v.by
  BY DEF Flag, Job
<1>4. flag' = [flag EXCEPT ![f] = w]
  BY <1>1, <1>2 DEF ResolveWrite, IInv, TypeOK
<1> HIDE DEF w
<1>5. v.user \in Ids /\ v.by \in Ids /\ Kept(v.user) /\ Kept(v.by)
  BY <1>2 DEF IInv, FlagsInv
<1>6. Grows => JobsInv' /\ job' \in [Jobs -> Job]
  BY FinishStep, GoStep DEF ResolveWrite
<1> QED
  BY <1>3, <1>4, <1>5, <1>6, FlagStep DEF ResolveWrite

\* A request that fails.
LEMMA FailsLemma ==
  ASSUME IInv, NEW j \in Jobs, JobFails(j)
  PROVE  IInv'
BY JobOnly, FinishStep DEF JobFails

-----------------------------------------------------------------------------
(* The invariant.                                                           *)

\* It holds when the site's owner has been made.
LEMMA InitIInv == Init => IInv
<1> SUFFICES ASSUME Init
             PROVE  IInv
  OBVIOUS
<1>1. OwnersRow \in User /\ OwnersRow.state = "kept" /\ OwnersRow.email = OwnerEmail
      /\ OwnersRow.role = "super_admin" /\ OwnersRow.owner
  <2>1. PICK u \in User, s \in {"absent", "kept", "erased"}, r \in Roles, yes \in BOOLEAN :
          u = NoUser /\ s = "kept" /\ r = "super_admin" /\ yes = TRUE
    BY FirstRecords
  <2>2. OwnersRow = [u EXCEPT !.state = s, !.email = OwnerEmail, !.role = r, !.owner = yes]
    BY <2>1 DEF OwnersRow
  <2>3. OwnersRow \in User /\ OwnersRow.state = s /\ OwnersRow.email = OwnerEmail
        /\ OwnersRow.role = r /\ OwnersRow.owner = yes
    BY <2>2, Parameters DEF User
  <2> QED
    BY <2>1, <2>3
<1>2. NoUser \in User /\ NoUser.state = "absent" /\ NoUser.email = None /\ ~NoUser.owner
      /\ NoInvite.state = "none" /\ NoInvite.email = None
  BY FirstRecords DEF NoUser, NoInvite
<1>3. user \in [Ids -> User] /\ user[Owner] = OwnersRow /\ \A i \in Ids \ {Owner} : user[i] = NoUser
  BY <1>1, <1>2, Parameters DEF Init
<1>4. OwnerSafe
  BY <1>1, <1>2, <1>3, NoneIsNoValue, Parameters DEF OwnerSafe, Kept
<1>5. ClaimsInv /\ InvitesInv /\ FlagsInv
  BY <1>2 DEF Init, ClaimsInv, InvitesInv, FlagsInv
<1>6. JobsInv
  BY DEF Init, JobsInv, JobSound, Idle
<1>7. TypeOK
  BY <1>3, FirstRecords DEF Init, TypeOK
<1> QED
  BY <1>4, <1>5, <1>6, <1>7 DEF IInv

\* No step breaks it.
LEMMA NextIInv == IInv /\ [Next]_vars => IInv'
<1> SUFFICES ASSUME IInv, [Next]_vars
             PROVE  IInv'
  OBVIOUS
<1>1. CASE Restart
  BY <1>1, RestartLemma
<1>2. ASSUME NEW i \in Ids, LogIn(i) \/ \E e \in Emails : SignUp(i, e)
      PROVE  IInv'
  BY <1>2, TokensLemma, SignUpLemma
<1>3. ASSUME NEW c \in Claims, Refresh(c)
      PROVE  IInv'
  BY <1>3, TokensLemma
<1>4. ASSUME NEW c \in Claims, NEW i \in Ids,
             Block(c, i) \/ Unblock(c, i) \/ SoftDelete(c, i) \/ Restore(c, i)
      PROVE  IInv'
  BY <1>4, MarksLemma
<1>5. ASSUME NEW c \in Claims, NEW i \in Ids, NEW f \in Flags, NEW a \in FlagAction,
             FlagUser(c, i, f, a)
      PROVE  IInv'
  BY <1>5, FlagUserLemma
<1>6. ASSUME NEW c \in Claims, NEW i \in Ids, NEW j \in Jobs, EraseBegin(j, c, i)
      PROVE  IInv'
  BY <1>6, EraseBeginLemma
<1>7. ASSUME NEW c \in Claims, NEW j \in Jobs, NEW e \in Emails, NEW r \in Invitable,
             InviteBegin(j, c, e, r)
      PROVE  IInv'
  BY <1>7, InviteBeginLemma
<1>8. ASSUME NEW c \in Claims, NEW j \in Jobs, NEW f \in Flags, NEW s \in FlagStatus,
             ResolveBegin(j, c, f, s)
      PROVE  IInv'
  BY <1>8, ResolveBeginLemma
<1>9. ASSUME NEW j \in Jobs,
             \/ InviteClear(j) \/ InviteMail(j) \/ AcceptConsume(j) \/ EraseWrite(j)
             \/ ResolveWrite(j) \/ CarryOut(j) \/ JobFails(j)
      PROVE  IInv'
  BY <1>9, InviteClearLemma, InviteMailLemma, AcceptConsumeLemma, EraseWriteLemma,
     ResolveWriteLemma, CarryOutLemma, FailsLemma
<1>10. ASSUME NEW j \in Jobs, NEW t \in Invites, InviteCreate(j, t) \/ AcceptBegin(j, t)
       PROVE  IInv'
  BY <1>10, InviteCreateLemma, AcceptBeginLemma
<1>11. ASSUME NEW j \in Jobs, NEW i \in Ids, AcceptCreate(j, i)
       PROVE  IInv'
  BY <1>11, AcceptCreateLemma
<1>12. CASE UNCHANGED vars
  <2>1. UNCHANGED <<user, invite, mailed, flag, session, job>>
    BY <1>12 DEF vars
  <2> QED
    BY <2>1, JobOnly, NoJobStep
<1> QED
  BY <1>1, <1>2, <1>3, <1>4, <1>5, <1>6, <1>7, <1>8, <1>9, <1>10, <1>11, <1>12 DEF Next

\* It holds for ever.
LEMMA Invariance == Spec => []IInv
BY InitIInv, NextIInv, PTL DEF Spec

\* Every reachable state of the administration is well typed.
THEOREM TypeCorrect == Spec => []TypeOK
<1>1. IInv => TypeOK
  BY DEF IInv
<1> QED
  BY <1>1, Invariance, PTL

\* The role guard reads the token and never the row, and may: no request, restart or erasure
\* leaves a token with a role its account does not have.
THEOREM TrueClaims == Spec => []ClaimsTrue
<1>1. IInv => ClaimsTrue
  BY DEF IInv, ClaimsInv, ClaimsTrue
<1> QED
  BY <1>1, Invariance, PTL

\* No flag outlives the account it is about or the account that raised it, though
\* deleteAdminOrUser awaits Stripe and the image store between its checks and its transaction.
THEOREM LiveFlags == Spec => []FlagsLive
<1>1. IInv => FlagsLive
  BY DEF IInv, FlagsInv, FlagsLive
<1> QED
  BY <1>1, Invariance, PTL

-----------------------------------------------------------------------------
(* The administration implements Membership.                                *)

MembershipStep == [Accounts!Next]_(Accounts!vars)

\* Who is a member, under which address and role, while everybody is who he was.
LEMMA SameMembers ==
  ASSUME SamePeople
  PROVE  Member' = Member /\ Erased' = Erased
<1>1. KeptIds' = KeptIds
  BY DEF SamePeople, KeptIds, Kept
<1>2. Erased' = Erased
  BY DEF SamePeople, Erased
<1>3. \A i \in KeptIds : user'[i].email = user[i].email /\ user'[i].role = user[i].role
  BY DEF SamePeople, KeptIds
<1> QED
  BY <1>1, <1>2, <1>3 DEF Member

\* What was mailed still says what it said.
LEMMA SameInvited ==
  ASSUME IInv, Grows, mailed' = mailed
  PROVE  Invited' = Invited
<1>1. mailed \subseteq Invites
  BY DEF IInv, TypeOK
<1>2. \A t \in mailed : invite'[t].email = invite[t].email /\ invite'[t].role = invite[t].role
  BY <1>1 DEF IInv, InvitesInv, Grows
<1> QED
  BY <1>2 DEF Invited

\* A step that shows in no membership.
LEMMA Stutter ==
  ASSUME IInv, SamePeople, Grows, mailed' = mailed
  PROVE  MembershipStep
BY SameMembers, SameInvited DEF MembershipStep, Accounts!vars

\* Tokens, blocks, marks, flags, requests that begin or fail.
LEMMA PeopleStutter ==
  ASSUME IInv, UNCHANGED <<invite, mailed>>, SamePeople
  PROVE  MembershipStep
<1>1. Grows
  BY DEF Grows, SamePeople
<1> QED
  BY <1>1, Stutter

\* Invitations that are made or removed show only once they are mailed.
LEMMA InvitesStutter ==
  ASSUME IInv, NEW j \in Jobs,
         InviteClear(j) \/ AcceptConsume(j) \/ \E t \in Invites : InviteCreate(j, t)
  PROVE  MembershipStep
<1>1. SamePeople /\ mailed' = mailed
  BY UserSame DEF InviteClear, AcceptConsume, InviteCreate
<1>2. \A t \in Invites : invite[t].state # "none" =>
        /\ invite'[t].state # "none"
        /\ invite'[t].email = invite[t].email /\ invite'[t].role = invite[t].role
  <2>1. CASE InviteClear(j)
    <3>1. PICK e \in Emails : invite' = Without(e)
      BY <2>1 DEF IInv, JobsInv, JobSound, InviteClear, At
    <3> QED
      BY <3>1, WithoutFacts
  <2>2. CASE AcceptConsume(j)
    <3>1. PICK t \in Invites, v \in Invitation, s \in {"none", "pending", "removed"} :
            t = job[j].invite /\ v = invite[t] /\ s = "removed"
      BY <2>2 DEF IInv, TypeOK, JobsInv, JobSound, AcceptConsume, At
    <3> DEFINE w == [v EXCEPT !.state = s]
    <3>2. w.state = s /\ w.email = v.email /\ w.role = v.role
      BY DEF Invitation
    <3>3. invite \in [Invites -> Invitation] /\ invite' = [invite EXCEPT ![t] = w]
      BY <2>2, <3>1 DEF IInv, TypeOK, AcceptConsume
    <3> HIDE DEF w
    <3> QED
      BY <3>1, <3>2, <3>3
  <2>3. ASSUME NEW t \in Invites, InviteCreate(j, t)
        PROVE  \A u \in Invites \ {t} : invite'[u] = invite[u]
    BY <2>3 DEF InviteCreate, IInv, TypeOK
  <2>4. ASSUME NEW t \in Invites, InviteCreate(j, t)
        PROVE  invite[t].state = "none"
    BY <2>4 DEF InviteCreate
  <2> QED
    BY <2>1, <2>2, <2>3, <2>4
<1>3. Grows
  BY <1>1, <1>2 DEF Grows, SamePeople
<1> QED
  BY <1>1, <1>3, Stutter

\* The mail invites.
LEMMA InviteMailInvites ==
  ASSUME IInv, NEW j \in Jobs, InviteMail(j)
  PROVE  MembershipStep
<1>1. PICK t \in Invites : t = job[j].invite /\ invite[t].state # "none"
  BY DEF IInv, JobsInv, JobSound, InviteMail, At
<1>2. PICK e \in Emails, r \in StaffRoles : e = invite[t].email /\ r = invite[t].role
  BY <1>1 DEF IInv, InvitesInv
<1>3. Member' = Member /\ Erased' = Erased
  BY UserSame, SameMembers DEF InviteMail
<1>4. Invited' = Invited \cup {<<e, r>>}
  BY <1>1, <1>2 DEF InviteMail, Invited
<1>5. Accounts!Invite(e, r)
  BY <1>3, <1>4 DEF Accounts!Invite
<1> QED
  BY <1>5 DEF MembershipStep, Accounts!Next

\* An account with a free address, and an invitation when it is on the staff.
LEMMA NewAccountJoins ==
  ASSUME IInv, NEW i \in Ids, NEW e \in Emails, NEW r \in Roles,
         user[i].state = "absent", ~Taken(e), user' = [user EXCEPT ![i] = NewUser(e, r)],
         UNCHANGED <<invite, mailed>>, r \in StaffRoles => <<e, r>> \in Invited
  PROVE  MembershipStep
<1>1. user \in [Ids -> User]
  BY DEF IInv, TypeOK
<1>2. /\ user'[i].state = "kept" /\ user'[i].email = e /\ user'[i].role = r
      /\ \A k \in Ids \ {i} : user'[k] = user[k]
  BY <1>1, NewUserType
<1>3. KeptIds' = KeptIds \cup {i} /\ i \notin KeptIds /\ i \notin Erased /\ Erased' = Erased
  BY <1>2 DEF KeptIds, Kept, Erased
<1>4. DOMAIN Member = KeptIds /\ \A k \in KeptIds : Member[k].email # e
  BY DEF Member, KeptIds, Taken
<1>5. Member' = [k \in KeptIds \cup {i} |-> IF k = i THEN [email |-> e, role |-> r] ELSE Member[k]]
  <2>1. Member' = [k \in KeptIds \cup {i} |-> [email |-> user'[k].email, role |-> user'[k].role]]
    BY <1>3 DEF Member
  <2>2. \A k \in KeptIds : k # i /\ Member[k] = [email |-> user'[k].email, role |-> user'[k].role]
    BY <1>2, <1>3 DEF Member, KeptIds
  <2> QED
    BY <1>2, <2>1, <2>2
<1>6. Invited' = Invited
  BY DEF Invited
<1>7. Accounts!Join(i, e, r)
  BY <1>3, <1>4, <1>5, <1>6 DEF Accounts!Join, Accounts!Joined
<1>8. r \in StaffRoles \cup {"user"}
  BY DEF Roles
<1> QED
  BY <1>7, <1>8 DEF MembershipStep, Accounts!Next

\* acceptInvite creates the account the mailed invitation names, whatever has become of the
\* invitation since it was read.
LEMMA AcceptCreateJoins ==
  ASSUME IInv, NEW j \in Jobs, NEW i \in Ids, AcceptCreate(j, i)
  PROVE  MembershipStep
<1>1. PICK e \in Emails, r \in Roles : e = job[j].email /\ r = job[j].role
  BY FirstRecords DEF IInv, JobsInv, JobSound, AcceptCreate, At
<1>2. user' = [user EXCEPT ![i] = NewUser(e, r)]
  BY <1>1 DEF AcceptCreate, NewUser
<1>3. <<e, r>> \in Invited
  BY <1>1 DEF IInv, JobsInv, JobSound, AcceptCreate, At, Invited
<1> QED
  BY <1>1, <1>2, <1>3, NewAccountJoins DEF AcceptCreate

\* Who registers is not on the staff.
LEMMA SignUpJoins ==
  ASSUME IInv, NEW i \in Ids, NEW e \in Emails, SignUp(i, e)
  PROVE  MembershipStep
<1>1. user' = [user EXCEPT ![i] = NewUser(e, "user")]
  BY SignUpRow
<1>2. "user" \in Roles /\ "user" \notin StaffRoles
  BY DEF Roles, StaffRoles
<1> QED
  BY <1>1, <1>2, NewAccountJoins DEF SignUp

\* An erasure takes one member, who is not the owner.
LEMMA EraseWriteErases ==
  ASSUME IInv, NEW j \in Jobs, EraseWrite(j)
  PROVE  MembershipStep
<1>1. PICK i \in Ids, e \in Emails : i = job[j].id /\ e = job[j].email /\ i # Owner
  BY DEF IInv, JobsInv, JobSound, EraseWrite, At
<1>2. Kept(i) /\ user \in [Ids -> User] /\ user' = [user EXCEPT ![i] = Gone]
  BY <1>1 DEF IInv, TypeOK, EraseWrite, Gone
<1>3. user'[i].state = "erased" /\ \A k \in Ids \ {i} : user'[k] = user[k]
  BY <1>2, GoneType
<1>4. KeptIds' = KeptIds \ {i} /\ i \in KeptIds /\ Erased' = Erased \cup {i}
  BY <1>2, <1>3 DEF KeptIds, Kept, Erased
<1>5. DOMAIN Member = KeptIds
  BY DEF Member
<1>6. Member' = [k \in KeptIds \ {i} |-> Member[k]]
  <2>1. Member' = [k \in KeptIds \ {i} |-> [email |-> user'[k].email, role |-> user'[k].role]]
    BY <1>4 DEF Member
  <2>2. \A k \in KeptIds \ {i} : Member[k] = [email |-> user'[k].email, role |-> user'[k].role]
    BY <1>3 DEF Member, KeptIds
  <2> QED
    BY <2>1, <2>2
<1>7. Invited' = Invited
  <2>1. \A t \in Invites : invite'[t].email = invite[t].email /\ invite'[t].role = invite[t].role
    BY <1>1, WithoutFacts DEF EraseWrite
  <2>2. mailed' = mailed /\ mailed \subseteq Invites
    BY DEF EraseWrite, IInv, TypeOK
  <2> QED
    BY <2>1, <2>2 DEF Invited
<1>8. Accounts!Erase(i)
  BY <1>1, <1>4, <1>5, <1>6, <1>7 DEF Accounts!Erase, Accounts!Joined
<1> QED
  BY <1>8 DEF MembershipStep, Accounts!Next

\* The initial states are initial.
LEMMA InitialMembership == Init => Accounts!Init
<1> SUFFICES ASSUME Init
             PROVE  Accounts!Init
  OBVIOUS
<1>1. OwnersRow.state = "kept" /\ OwnersRow.email = OwnerEmail /\ OwnersRow.role = "super_admin"
      /\ NoUser.state = "absent"
  <2>1. PICK u \in User, s \in {"absent", "kept", "erased"}, r \in Roles, yes \in BOOLEAN :
          u = NoUser /\ s = "kept" /\ r = "super_admin" /\ yes = TRUE
    BY FirstRecords
  <2>2. OwnersRow = [u EXCEPT !.state = s, !.email = OwnerEmail, !.role = r, !.owner = yes]
    BY <2>1 DEF OwnersRow
  <2>3. OwnersRow.state = s /\ OwnersRow.email = OwnerEmail /\ OwnersRow.role = r
    BY <2>2 DEF User
  <2> QED
    BY <2>1, <2>3 DEF NoUser
<1>2. user[Owner] = OwnersRow /\ \A i \in Ids \ {Owner} : user[i] = NoUser
  BY Parameters DEF Init
<1>3. KeptIds = {Owner} /\ Erased = {}
  BY <1>1, <1>2, Parameters DEF KeptIds, Kept, Erased
<1>4. Member = [i \in {Owner} |-> [email |-> OwnerEmail, role |-> "super_admin"]]
  BY <1>1, <1>2, <1>3 DEF Member
<1>5. Invited = {}
  BY DEF Init, Invited
<1> QED
  BY <1>3, <1>4, <1>5 DEF Accounts!Init

\* Every step maps to a step or a stutter.
LEMMA StepMembership == IInv /\ [Next]_vars => [Accounts!Next]_(Accounts!vars)
<1> SUFFICES ASSUME IInv, [Next]_vars
             PROVE  MembershipStep
  BY DEF MembershipStep
<1>1. CASE Restart
  BY <1>1, EnsureOwnerSame, PeopleStutter DEF Restart
<1>2. ASSUME NEW i \in Ids, LogIn(i)
      PROVE  MembershipStep
  BY <1>2, EnsureOwnerSame, UserSame, PeopleStutter DEF LogIn
<1>3. ASSUME NEW i \in Ids, NEW e \in Emails, SignUp(i, e)
      PROVE  MembershipStep
  BY <1>3, SignUpJoins
<1>4. ASSUME NEW c \in Claims, NEW i \in Ids,
             Block(c, i) \/ Unblock(c, i) \/ SoftDelete(c, i) \/ Restore(c, i)
      PROVE  MembershipStep
  BY <1>4, MarkSame, PeopleStutter DEF Block, Unblock, SoftDelete, Restore
<1>5. ASSUME UNCHANGED <<user, invite, mailed>>
      PROVE  MembershipStep
  BY <1>5, UserSame, PeopleStutter
<1>6. ASSUME NEW c \in Claims,
             \/ Refresh(c)
             \/ \E i \in Ids, f \in Flags, a \in FlagAction : FlagUser(c, i, f, a)
             \/ \E i \in Ids, j \in Jobs : EraseBegin(j, c, i)
             \/ \E j \in Jobs, e \in Emails, r \in Invitable : InviteBegin(j, c, e, r)
             \/ \E j \in Jobs, f \in Flags, s \in FlagStatus : ResolveBegin(j, c, f, s)
      PROVE  MembershipStep
  BY <1>5, <1>6 DEF Refresh, FlagUser, EraseBegin, InviteBegin, ResolveBegin
<1>7. ASSUME NEW j \in Jobs,
             \/ ResolveWrite(j) \/ JobFails(j)
             \/ \E t \in Invites : AcceptBegin(j, t)
      PROVE  MembershipStep
  BY <1>5, <1>7 DEF ResolveWrite, JobFails, AcceptBegin
<1>8. ASSUME NEW j \in Jobs,
             InviteClear(j) \/ AcceptConsume(j) \/ \E t \in Invites : InviteCreate(j, t)
      PROVE  MembershipStep
  BY <1>8, InvitesStutter
<1>9. ASSUME NEW j \in Jobs, CarryOut(j)
      PROVE  MembershipStep
  <2>1. job[j].id \in Ids
    BY <1>9 DEF IInv, JobsInv, JobSound, CarryOut, At
  <2> QED
    BY <1>9, <2>1, MarkSame, PeopleStutter DEF CarryOut
<1>10. ASSUME NEW j \in Jobs, InviteMail(j) \/ EraseWrite(j)
       PROVE  MembershipStep
  BY <1>10, InviteMailInvites, EraseWriteErases
<1>11. ASSUME NEW j \in Jobs, NEW i \in Ids, AcceptCreate(j, i)
       PROVE  MembershipStep
  BY <1>11, AcceptCreateJoins
<1>12. CASE UNCHANGED vars
  BY <1>5, <1>12 DEF vars
<1> QED
  BY <1>1, <1>2, <1>3, <1>4, <1>6, <1>7, <1>8, <1>9, <1>10, <1>11, <1>12 DEF Next

\* The administration implements Membership: however invitations, acceptances and erasures
\* overlap and wherever they fail, the owner is never lost, nobody is on the staff but by an
\* invitation that was mailed to his address, a role never changes, and who is gone stays gone.
THEOREM Implements == Spec => ImplementsMembership
<1>1. Spec => Accounts!Init /\ [][Accounts!Next]_(Accounts!vars)
  BY InitialMembership, StepMembership, Invariance, PTL DEF Spec
<1> QED
  BY <1>1 DEF ImplementsMembership, Accounts!Spec

-----------------------------------------------------------------------------
(* What Membership comes to, and with it the administration of accounts.    *)

\* The owner is there, nobody shares an address, all others on the staff were invited by mail to
\* their role, and nobody is both there and erased.
MemberFacts ==
    /\ Owner \in DOMAIN Member
    /\ Member[Owner] = [email |-> OwnerEmail, role |-> "super_admin"]
    /\ \A i, k \in DOMAIN Member : i # k => Member[i].email # Member[k].email
    /\ \A i \in DOMAIN Member \ {Owner} : Member[i].role \in StaffRoles =>
          <<Member[i].email, Member[i].role>> \in Invited
    /\ DOMAIN Member \cap Erased = {}

\* An account keeps its address and its role until it is erased, and then it is not used again.
MembersKept ==
    /\ \A i \in DOMAIN Member : \/ i \in DOMAIN Member' /\ Member'[i] = Member[i]
                                \/ i \in Erased'
    /\ \A i \in Erased : i \in Erased' /\ i \notin DOMAIN Member'
    /\ \A i \in DOMAIN Member' \ DOMAIN Member :
          Member'[i].role \in StaffRoles => <<Member'[i].email, Member'[i].role>> \in Invited

\* Every step of Membership keeps its facts and its members.
LEMMA MemberFactsStep ==
    ASSUME MemberFacts, [Accounts!Next]_(Accounts!vars)
    PROVE  MemberFacts' /\ MembersKept
<1>1. CASE UNCHANGED Accounts!vars
  <2>1. Member' = Member /\ Erased' = Erased /\ Invited' = Invited
    BY <1>1 DEF Accounts!vars
  <2> QED
    BY <2>1 DEF MemberFacts, MembersKept
<1>2. ASSUME NEW i \in Ids, NEW e \in Emails, NEW r \in StaffRoles \cup {"user"},
             Accounts!Join(i, e, r)
      PROVE  MemberFacts' /\ MembersKept
  <2>1. /\ i \notin DOMAIN Member /\ i \notin Erased
        /\ \A k \in DOMAIN Member : Member[k].email # e
        /\ r \in StaffRoles => <<e, r>> \in Invited
        /\ Erased' = Erased /\ Invited' = Invited
    BY <1>2 DEF Accounts!Join, Accounts!Joined
  <2>2. /\ DOMAIN Member' = DOMAIN Member \cup {i}
        /\ Member'[i] = [email |-> e, role |-> r]
        /\ \A k \in DOMAIN Member : Member'[k] = Member[k]
    BY <1>2, <2>1 DEF Accounts!Join, Accounts!Joined
  <2>3. Member'[i].email = e /\ Member'[i].role = r
    BY <2>2
  <2> QED
    BY <2>1, <2>2, <2>3 DEF MemberFacts, MembersKept
<1>3. ASSUME NEW i \in Ids, Accounts!Erase(i)
      PROVE  MemberFacts' /\ MembersKept
  <2>1. /\ i # Owner /\ DOMAIN Member' = DOMAIN Member \ {i}
        /\ \A k \in DOMAIN Member' : Member'[k] = Member[k]
        /\ Erased' = Erased \cup {i} /\ Invited' = Invited
    BY <1>3 DEF Accounts!Erase, Accounts!Joined
  <2> QED
    BY <2>1 DEF MemberFacts, MembersKept
<1>4. ASSUME NEW e \in Emails, NEW r \in StaffRoles, Accounts!Invite(e, r)
      PROVE  MemberFacts' /\ MembersKept
  <2>1. Member' = Member /\ Erased' = Erased /\ Invited \subseteq Invited'
    BY <1>4 DEF Accounts!Invite
  <2> QED
    BY <2>1 DEF MemberFacts, MembersKept
<1> QED
  BY <1>1, <1>2, <1>3, <1>4 DEF Accounts!Next

\* At first there is the owner.
LEMMA MemberFactsInit == Accounts!Init => MemberFacts
<1> SUFFICES ASSUME Accounts!Init PROVE MemberFacts
  OBVIOUS
<1>1. /\ DOMAIN Member = {Owner} /\ Erased = {} /\ Invited = {}
      /\ Member[Owner] = [email |-> OwnerEmail, role |-> "super_admin"]
  BY DEF Accounts!Init
<1> QED
  BY <1>1 DEF MemberFacts

\* However invitations, acceptances and erasures overlap, the owner is never lost, no two accounts
\* share an address, and the staff was invited by mail, each to his role.
THEOREM StaffWasInvited == Spec => []MemberFacts
<1>1. MemberFacts /\ [Accounts!Next]_(Accounts!vars) => MemberFacts'
  BY MemberFactsStep
<1>2. Accounts!Init /\ [][Accounts!Next]_(Accounts!vars) => []MemberFacts
  BY <1>1, MemberFactsInit, PTL
<1>3. ImplementsMembership => Accounts!Init /\ [][Accounts!Next]_(Accounts!vars)
  BY DEF ImplementsMembership, Accounts!Spec
<1> QED
  BY <1>2, <1>3, Implements, PTL

\* No operation changes an address or a role, and who is erased does not come back.
THEOREM MembersStay == Spec => [][MembersKept]_(Accounts!vars)
<1>1. MemberFacts /\ [Accounts!Next]_(Accounts!vars) => MembersKept
  BY MemberFactsStep
<1>2. ImplementsMembership => Accounts!Init /\ [][Accounts!Next]_(Accounts!vars)
  BY DEF ImplementsMembership, Accounts!Spec
<1> QED
  BY <1>1, <1>2, StaffWasInvited, Implements, PTL
-----------------------------------------------------------------------------
(* Decisions about flags, and the owner.                                    *)

\* The requests that decide about a flag, before and after the decision is recorded.
Deciding(j) == job[j].pc \in {"resolve", "carryOut"}

DecideBegun(j) ==
    /\ UNCHANGED <<user, flag>>
    /\ job'[j].pc = "resolve" /\ job'[j].flag \in Flags
    /\ job'[j].id = flag[job'[j].flag].user /\ job'[j].action = flag[job'[j].flag].action

DecideRecorded(j) ==
    /\ ResolveWrite(j) /\ job[j].status = "APPROVED"
    /\ job'[j].pc = "carryOut" /\ job'[j].flag = job[j].flag
    /\ job'[j].id = job[j].id /\ job'[j].action = job[j].action

\* Such a request starts with resolveFlag's read and goes on with its write.
LEMMA DecidersStep ==
  ASSUME IInv, [Next]_vars, NEW j \in Jobs, Deciding(j)'
  PROVE  job'[j] = job[j] \/ DecideBegun(j) \/ DecideRecorded(j)
<1>1. job \in [Jobs -> Job]
  BY DEF IInv, TypeOK
<1>2. job' = job => job'[j] = job[j]
  OBVIOUS
<1>3. ASSUME NEW k \in Jobs, NEW b, job' = [job EXCEPT ![k] = b], b.pc \notin {"resolve", "carryOut"}
      PROVE  job'[j] = job[j]
  BY <1>1, <1>3 DEF Deciding
<1>4. Idle.pc = "idle"
  BY DEF Idle
<1>5. ASSUME NEW k \in Jobs, Finish(k)
      PROVE  job'[j] = job[j]
  BY <1>3, <1>4, <1>5 DEF Finish
<1>6. ASSUME NEW k \in Jobs, NEW pc \in {"inviteCreate", "consume"}, Go(k, pc)
      PROVE  job'[j] = job[j]
  BY <1>1, <1>6 DEF Go, Deciding, Job
<1>7. CASE Restart
  BY <1>4, <1>7 DEF Restart, Deciding
<1>8. ASSUME NEW i \in Ids, LogIn(i) \/ \E e \in Emails : SignUp(i, e)
      PROVE  job' = job
  BY <1>8 DEF LogIn, SignUp
<1>9. ASSUME NEW c \in Claims, NEW i \in Ids,
             \/ Block(c, i) \/ Unblock(c, i) \/ SoftDelete(c, i) \/ Restore(c, i)
             \/ \E f \in Flags, a \in FlagAction : FlagUser(c, i, f, a)
      PROVE  job' = job
  BY <1>9 DEF Block, Unblock, SoftDelete, Restore, FlagUser
<1>10. ASSUME NEW c \in Claims, NEW i \in Ids, NEW k \in Jobs, EraseBegin(k, c, i)
       PROVE  job'[j] = job[j]
  <2> DEFINE b == [Idle EXCEPT !.pc = "erase", !.id = i, !.email = user[i].email]
  <2>1. job' = [job EXCEPT ![k] = b]
    BY <1>10 DEF EraseBegin
  <2>2. b.pc = "erase"
    BY DEF Idle
  <2> QED
    BY <1>3, <2>1, <2>2
<1>11. ASSUME NEW c \in Claims, NEW k \in Jobs, NEW e \in Emails, NEW r \in Invitable,
              InviteBegin(k, c, e, r)
       PROVE  job'[j] = job[j]
  <2> DEFINE b == [Idle EXCEPT !.pc = "inviteClear", !.email = e, !.role = r]
  <2>1. job' = [job EXCEPT ![k] = b]
    BY <1>11 DEF InviteBegin
  <2>2. b.pc = "inviteClear"
    BY DEF Idle
  <2> QED
    BY <1>3, <2>1, <2>2
<1>12. ASSUME NEW c \in Claims, NEW k \in Jobs, NEW f \in Flags, NEW s \in FlagStatus,
              ResolveBegin(k, c, f, s)
       PROVE  job'[j] = job[j] \/ DecideBegun(j)
  <2> DEFINE b == [Idle EXCEPT !.pc = "resolve", !.id = flag[f].user, !.flag = f,
                               !.status = s, !.action = flag[f].action]
  <2>1. job' = [job EXCEPT ![k] = b] /\ UNCHANGED <<user, flag>>
    BY <1>12 DEF ResolveBegin
  <2>2. b.pc = "resolve" /\ b.flag = f /\ b.id = flag[f].user /\ b.action = flag[f].action
    BY DEF Idle
  <2> HIDE DEF b
  <2>3. CASE j = k
    <3>1. job'[j] = b
      BY <1>1, <2>1, <2>3
    <3> QED
      BY <2>1, <2>2, <3>1 DEF DecideBegun
  <2>4. CASE j # k
    BY <1>1, <2>1, <2>4
  <2> QED
    BY <2>3, <2>4
<1>13. ASSUME NEW k \in Jobs, ResolveWrite(k)
       PROVE  job'[j] = job[j] \/ DecideRecorded(j)
  <2>1. CASE job[k].status = "APPROVED" /\ j = k
    <3>1. PICK b \in Job : b = job[j]
      BY <1>1
    <3>2. job'[j] = [b EXCEPT !.pc = "carryOut"]
      BY <1>1, <1>13, <2>1, <3>1 DEF ResolveWrite, Go
    <3>3. /\ job'[j].pc = "carryOut" /\ job'[j].flag = b.flag
          /\ job'[j].id = b.id /\ job'[j].action = b.action
      BY <3>2 DEF Job
    <3> QED
      BY <1>13, <2>1, <3>1, <3>3 DEF DecideRecorded
  <2>2. CASE job[k].status = "APPROVED" /\ j # k
    BY <1>1, <1>13, <2>2 DEF ResolveWrite, Go
  <2>3. CASE job[k].status # "APPROVED"
    BY <1>5, <1>13, <2>3 DEF ResolveWrite
  <2> QED
    BY <2>1, <2>2, <2>3
<1>14. ASSUME NEW k \in Jobs,
              \/ InviteClear(k) \/ InviteMail(k) \/ AcceptConsume(k) \/ EraseWrite(k)
              \/ CarryOut(k) \/ JobFails(k) \/ \E i \in Ids : AcceptCreate(k, i)
       PROVE  job'[j] = job[j]
  BY <1>5, <1>6, <1>14 DEF InviteClear, InviteMail, AcceptConsume, EraseWrite, CarryOut, JobFails,
     AcceptCreate
<1>15. ASSUME NEW k \in Jobs, NEW t \in Invites, InviteCreate(k, t)
       PROVE  job'[j] = job[j]
  <2>1. PICK b \in Job : b = job[k]
    BY <1>1
  <2> DEFINE c == [b EXCEPT !.pc = "inviteMail", !.invite = t]
  <2>2. c.pc = "inviteMail"
    BY DEF Job
  <2>3. job' = [job EXCEPT ![k] = c]
    BY <1>1, <1>15, <2>1 DEF InviteCreate
  <2> QED
    BY <1>3, <2>2, <2>3
<1>16. ASSUME NEW k \in Jobs, NEW t \in Invites, AcceptBegin(k, t)
       PROVE  job'[j] = job[j]
  <2> DEFINE b == [Idle EXCEPT !.pc = "accept", !.email = invite[t].email,
                               !.role = invite[t].role, !.invite = t]
  <2>1. job' = [job EXCEPT ![k] = b]
    BY <1>16 DEF AcceptBegin
  <2>2. b.pc = "accept"
    BY DEF Idle
  <2> QED
    BY <1>3, <2>1, <2>2
<1>17. UNCHANGED vars => job' = job
  BY DEF vars
<1>18. ASSUME NEW c \in Claims, Refresh(c)
       PROVE  job' = job
  BY <1>18 DEF Refresh
<1> QED
  BY <1>2, <1>7, <1>8, <1>9, <1>10, <1>11, <1>12, <1>13, <1>14, <1>15, <1>16, <1>17, <1>18 DEF Next
\* What befalls a flag there is.
FlagChanges(f) ==
    \E k \in Jobs : \/ EraseWrite(k) /\ f \in FlagsAboutBy(job[k].id)
                    \/ ResolveWrite(k) /\ job[k].flag = f

\* Whoever changes a flag that there is erases one of its accounts or records a decision.
LEMMA FlagChangers ==
  ASSUME IInv, [Next]_vars, NEW f \in Flags, flag[f] # NoFlag, flag'[f] # flag[f]
  PROVE  FlagChanges(f)
<1>1. flag \in [Flags -> Flag]
  BY DEF IInv, TypeOK
<1>2. ASSUME NEW c \in Claims, NEW i \in Ids, NEW g \in Flags, NEW a \in FlagAction,
             FlagUser(c, i, g, a)
      PROVE  FALSE
  BY <1>1, <1>2 DEF FlagUser
<1>3. ASSUME NEW k \in Jobs, EraseWrite(k)
      PROVE  f \in FlagsAboutBy(job[k].id)
  BY <1>3 DEF EraseWrite
<1>4. ASSUME NEW k \in Jobs, ResolveWrite(k)
      PROVE  job[k].flag = f
  BY <1>1, <1>4 DEF ResolveWrite
<1>5. flag' # flag
  OBVIOUS
<1>6. ~Restart /\ ~UNCHANGED vars /\ \A i \in Ids : ~LogIn(i) /\ \A e \in Emails : ~SignUp(i, e)
  BY <1>5 DEF Restart, vars, LogIn, SignUp
<1>7. \A c \in Claims : /\ ~Refresh(c)
                        /\ \A i \in Ids : ~(Block(c, i) \/ Unblock(c, i) \/ SoftDelete(c, i) \/ Restore(c, i))
                        /\ \A i \in Ids, j \in Jobs : ~EraseBegin(j, c, i)
  BY <1>5 DEF Refresh, Block, Unblock, SoftDelete, Restore, EraseBegin
<1>8. \A c \in Claims, j \in Jobs :
          /\ \A e \in Emails, r \in Invitable : ~InviteBegin(j, c, e, r)
          /\ \A g \in Flags, s \in FlagStatus : ~ResolveBegin(j, c, g, s)
  BY <1>5 DEF InviteBegin, ResolveBegin
<1>9. \A j \in Jobs :
          /\ ~(InviteClear(j) \/ InviteMail(j) \/ AcceptConsume(j) \/ CarryOut(j) \/ JobFails(j))
          /\ \A t \in Invites : ~(InviteCreate(j, t) \/ AcceptBegin(j, t))
          /\ \A i \in Ids : ~AcceptCreate(j, i)
  BY <1>5 DEF InviteClear, InviteMail, AcceptConsume, CarryOut, JobFails, InviteCreate, AcceptBegin,
     AcceptCreate
<1>10. ~ \E c \in Claims :
           \/ Refresh(c)
           \/ \E i \in Ids :
                \/ Block(c, i) \/ Unblock(c, i) \/ SoftDelete(c, i) \/ Restore(c, i)
                \/ \E g \in Flags, a \in FlagAction : FlagUser(c, i, g, a)
                \/ \E j \in Jobs : EraseBegin(j, c, i)
           \/ \E j \in Jobs, e \in Emails, r \in Invitable : InviteBegin(j, c, e, r)
           \/ \E j \in Jobs, g \in Flags, s \in FlagStatus : ResolveBegin(j, c, g, s)
  BY <1>2, <1>7, <1>8
<1>11. ~ \E i \in Ids : LogIn(i) \/ \E e \in Emails : SignUp(i, e)
  BY <1>6
<1>12. Next
  BY <1>6
<1>13. \E k \in Jobs :
          \/ InviteClear(k) \/ InviteMail(k) \/ AcceptConsume(k) \/ EraseWrite(k)
          \/ ResolveWrite(k) \/ CarryOut(k) \/ JobFails(k)
          \/ \E t \in Invites : InviteCreate(k, t) \/ AcceptBegin(k, t)
          \/ \E i \in Ids : AcceptCreate(k, i)
  BY <1>6, <1>10, <1>11, <1>12, Zenon DEF Next
<1>14. PICK k \in Jobs : EraseWrite(k) \/ ResolveWrite(k)
  BY <1>9, <1>13
<1> QED
  BY <1>3, <1>4, <1>14 DEF FlagChanges

\* One request at a time decides about a flag, and none of the flag's accounts is being erased
\* meanwhile.
Undisturbed ==
    /\ \A i, k \in Jobs : Deciding(i) /\ Deciding(k) /\ job[i].flag = job[k].flag => i = k
    /\ \A i, k \in Jobs : Deciding(i) /\ At(k, "erase") =>
           job[i].flag \notin FlagsAboutBy(job[k].id)

\* What the request read is what the flag says, and what it is about to carry out is what the
\* flag's record says was decided, about an account there is.
DecisionStands ==
    \A j \in Jobs : Deciding(j) =>
        /\ flag[job[j].flag] # NoFlag
        /\ flag[job[j].flag].user = job[j].id /\ flag[job[j].flag].action = job[j].action
        /\ At(j, "carryOut") => flag[job[j].flag].status = "APPROVED"

\* It stays so under whatever other requests do.
LEMMA DecisionStep ==
  ASSUME IInv, Undisturbed, DecisionStands, [Next]_vars
  PROVE  DecisionStands'
<1>1. /\ flag \in [Flags -> Flag] /\ job \in [Jobs -> Job]
      /\ \A i \in Jobs : Deciding(i) => job[i].flag \in Flags /\ job[i].id \in Ids
  BY DEF IInv, TypeOK, JobsInv, JobSound, Deciding
<1> SUFFICES ASSUME NEW j \in Jobs, Deciding(j)'
             PROVE  /\ flag'[job'[j].flag] # NoFlag
                    /\ flag'[job'[j].flag].user = job'[j].id
                    /\ flag'[job'[j].flag].action = job'[j].action
                    /\ job'[j].pc = "carryOut" => flag'[job'[j].flag].status = "APPROVED"
  BY DEF DecisionStands, At
<1>2. NoFlag.user = None
  BY DEF NoFlag
<1>3. CASE job'[j] = job[j]
  <2>1. Deciding(j) /\ job[j].flag \in Flags
    BY <1>1, <1>3 DEF Deciding
  <2>2. flag'[job[j].flag] = flag[job[j].flag]
    <3> SUFFICES ASSUME flag'[job[j].flag] # flag[job[j].flag]
                 PROVE  FALSE
      OBVIOUS
    <3>1. PICK k \in Jobs : \/ EraseWrite(k) /\ job[j].flag \in FlagsAboutBy(job[k].id)
                            \/ ResolveWrite(k) /\ job[k].flag = job[j].flag
      <4>1. PICK f \in Flags : f = job[j].flag
        BY <2>1
      <4>2. flag[f] # NoFlag /\ flag'[f] # flag[f]
        BY <2>1, <4>1 DEF DecisionStands
      <4>3. FlagChanges(f)
        BY <4>2, FlagChangers
      <4> QED
        BY <4>1, <4>3 DEF FlagChanges
    <3>2. CASE EraseWrite(k) /\ job[j].flag \in FlagsAboutBy(job[k].id)
      BY <2>1, <3>2 DEF EraseWrite, Undisturbed
    <3>3. CASE ResolveWrite(k) /\ job[k].flag = job[j].flag
      <4>1. Deciding(k) /\ At(k, "resolve")
        BY <3>3 DEF ResolveWrite, Deciding, At
      <4>2. k = j
        BY <2>1, <3>3, <4>1 DEF Undisturbed
      <4>3. job'[j].pc # "resolve"
        BY <1>1, <3>3, <4>2 DEF ResolveWrite, Go, Finish, Idle, Job
      <4> QED
        BY <1>3, <4>1, <4>2, <4>3 DEF At
    <3> QED
      BY <3>1, <3>2, <3>3
  <2> QED
    BY <1>3, <2>1, <2>2 DEF DecisionStands, At
<1>4. CASE DecideBegun(j)
  <2>1. job'[j].id \in Ids
    <3>1. JobSound(job[j])'
      BY NextIInv DEF IInv, JobsInv
    <3> QED
      BY <1>4, <3>1 DEF JobSound, DecideBegun
  <2>2. job'[j].id # None
    BY <2>1, NoneIsNoValue
  <2> QED
    BY <1>2, <1>4, <2>2 DEF DecideBegun
<1>5. CASE DecideRecorded(j)
  <2>1. PICK f \in Flags : f = job[j].flag /\ Deciding(j)
    BY <1>1, <1>5 DEF DecideRecorded, ResolveWrite, Deciding, At
  <2>2. PICK r \in Flag : r = flag[f]
    BY <1>1
  <2>3. flag'[f] = [r EXCEPT !.status = "APPROVED"]
    BY <1>1, <1>5, <2>1, <2>2 DEF DecideRecorded, ResolveWrite
  <2>4. flag'[f].user = r.user /\ flag'[f].action = r.action /\ flag'[f].status = "APPROVED"
    BY <2>3 DEF Flag
  <2>5. r.user = job[j].id /\ r.action = job[j].action /\ NoFlag.status = "none"
    BY <2>1, <2>2 DEF DecisionStands, NoFlag
  <2> QED
    BY <1>5, <2>1, <2>4, <2>5 DEF DecideRecorded
<1> QED
  BY <1>3, <1>4, <1>5, DecidersStep

\* resolveFlag records a decision and carries it out an await later from what it had read.
\* As long as no other request decides about the same flag and neither of its accounts is
\* being erased, what is carried out is what the record says, on an account there is.
THEOREM DecisionsAgree ==
    Spec /\ []Undisturbed => [](DecisionStands /\ \A j \in Jobs : Deciding(j) => Kept(job[j].id))
<1>1. Init => DecisionStands
  BY DEF Init, Idle, DecisionStands, Deciding
<1>2. IInv /\ Undisturbed /\ DecisionStands /\ [Next]_vars => DecisionStands'
  BY DecisionStep
<1>3. IInv /\ DecisionStands => \A j \in Jobs : Deciding(j) => Kept(job[j].id)
  BY DEF IInv, JobsInv, JobSound, FlagsInv, DecisionStands, Deciding
<1> QED
  BY <1>1, <1>2, <1>3, Invariance, PTL DEF Spec
\* No flag is about the owner's account.
OwnerUnflagged == \A f \in Flags : flag[f].user # Owner

\* Then the owner is not marked, and no decision is about to mark him.
OwnerClear == OwnerUnmarked /\ \A j \in Jobs : Deciding(j) => job[j].id # Owner

\* The owner's mark is set by nothing else: each direct operation refuses it, and the
\* self-healing takes it away.
LEMMA OwnerMark ==
  ASSUME IInv, OwnerClear, [Next]_vars
  PROVE  OwnerUnmarked'
<1>1. /\ user \in [Ids -> User] /\ Owner \in Ids /\ user[Owner].deleted = FALSE
      /\ user[Owner].state = "kept" /\ user[Owner].owner = TRUE
  BY Parameters DEF IInv, TypeOK, OwnerSafe, OwnerClear, OwnerUnmarked, Kept, User
<1>2. Privileged(Owner)
  BY DEF IInv, OwnerSafe, Privileged
<1> SUFFICES user'[Owner].deleted = FALSE
  BY DEF OwnerUnmarked
<1>3. PICK u \in User : u = user[Owner]
  BY <1>1
<1>4. user' = EnsureOwner => user'[Owner].deleted = FALSE
  <2> SUFFICES ASSUME user' = EnsureOwner
               PROVE  user'[Owner].deleted = FALSE
    OBVIOUS
  <2>1. user'[Owner] = [u EXCEPT !.role = "super_admin", !.owner = TRUE,
                                 !.deleted = FALSE, !.blocked = FALSE]
    BY <1>1, <1>2, <1>3 DEF EnsureOwner
  <2> QED
    BY <2>1 DEF User
<1>5. user' = user => user'[Owner].deleted = FALSE
  BY <1>1
<1>6. ASSUME NEW i \in Ids, i # Owner, NEW r, user' = [user EXCEPT ![i] = r]
      PROVE  user'[Owner].deleted = FALSE
  BY <1>1, <1>6
<1>7. ASSUME NEW b, user' = [user EXCEPT ![Owner].blocked = b]
      PROVE  user'[Owner].deleted = FALSE
  <2>1. user'[Owner] = [u EXCEPT !.blocked = b]
    BY <1>1, <1>3, <1>7
  <2> QED
    BY <1>1, <1>3, <2>1 DEF User
<1>8. CASE Restart
  BY <1>4, <1>8 DEF Restart
<1>9. ASSUME NEW i \in Ids, LogIn(i)
      PROVE  user'[Owner].deleted = FALSE
  BY <1>4, <1>5, <1>9 DEF LogIn
<1>10. ASSUME NEW i \in Ids, NEW e \in Emails, SignUp(i, e)
       PROVE  user'[Owner].deleted = FALSE
  <2>1. i # Owner
    BY <1>1, <1>10 DEF SignUp
  <2> QED
    BY <1>6, <1>10, <2>1 DEF SignUp
<1>11. ASSUME NEW c \in Claims, NEW i \in Ids, Block(c, i) \/ Unblock(c, i)
       PROVE  user'[Owner].deleted = FALSE
  <2>1. PICK b : user' = [user EXCEPT ![i].blocked = b]
    BY <1>11 DEF Block, Unblock
  <2>2. CASE i = Owner
    BY <1>7, <2>1, <2>2
  <2>3. CASE i # Owner
    BY <1>1, <2>1, <2>3
  <2> QED
    BY <2>2, <2>3
<1>12. ASSUME NEW c \in Claims, NEW i \in Ids, SoftDelete(c, i)
       PROVE  user'[Owner].deleted = FALSE
  <2>1. i # Owner
    BY <1>1, <1>12 DEF SoftDelete
  <2> QED
    BY <1>1, <1>12, <2>1 DEF SoftDelete
<1>13. ASSUME NEW c \in Claims, NEW i \in Ids, Restore(c, i)
       PROVE  user'[Owner].deleted = FALSE
  <2>1. CASE i = Owner
    <3>1. user'[Owner] = [u EXCEPT !.deleted = FALSE]
      BY <1>1, <1>3, <1>13, <2>1 DEF Restore
    <3> QED
      BY <3>1 DEF User
  <2>2. CASE i # Owner
    BY <1>1, <1>13, <2>2 DEF Restore
  <2> QED
    BY <2>1, <2>2
<1>14. ASSUME NEW j \in Jobs, EraseWrite(j)
       PROVE  user'[Owner].deleted = FALSE
  <2>1. job[j].id \in Ids \ {Owner}
    BY <1>14 DEF IInv, JobsInv, JobSound, EraseWrite, At
  <2> QED
    BY <1>6, <1>14, <2>1 DEF EraseWrite
<1>15. ASSUME NEW j \in Jobs, CarryOut(j)
       PROVE  user'[Owner].deleted = FALSE
  <2>1. job[j].id # Owner
    BY <1>15 DEF OwnerClear, Deciding, CarryOut, At
  <2>2. CASE job[j].action = "BLOCK"
    BY <1>1, <1>15, <2>1, <2>2 DEF CarryOut
  <2>3. CASE job[j].action # "BLOCK"
    BY <1>1, <1>15, <2>1, <2>3 DEF CarryOut
  <2> QED
    BY <2>2, <2>3
<1>16. ASSUME NEW j \in Jobs, NEW i \in Ids, AcceptCreate(j, i)
       PROVE  user'[Owner].deleted = FALSE
  <2>1. i # Owner
    BY <1>1, <1>16 DEF AcceptCreate
  <2> QED
    BY <1>6, <1>16, <2>1 DEF AcceptCreate
<1>17. ASSUME NEW c \in Claims,
              \/ Refresh(c)
              \/ \E i \in Ids : \/ \E f \in Flags, a \in FlagAction : FlagUser(c, i, f, a)
                                \/ \E j \in Jobs : EraseBegin(j, c, i)
              \/ \E j \in Jobs, e \in Emails, r \in Invitable : InviteBegin(j, c, e, r)
              \/ \E j \in Jobs, f \in Flags, s \in FlagStatus : ResolveBegin(j, c, f, s)
       PROVE  user' = user
  BY <1>17 DEF Refresh, FlagUser, EraseBegin, InviteBegin, ResolveBegin
<1>18. ASSUME NEW j \in Jobs,
              \/ InviteClear(j) \/ InviteMail(j) \/ AcceptConsume(j)
              \/ ResolveWrite(j) \/ JobFails(j)
              \/ \E t \in Invites : InviteCreate(j, t) \/ AcceptBegin(j, t)
       PROVE  user' = user
  BY <1>18 DEF InviteClear, InviteMail, AcceptConsume, ResolveWrite, JobFails, InviteCreate, AcceptBegin
<1>19. UNCHANGED vars => user' = user
  BY DEF vars
<1> QED
  BY <1>5, <1>8, <1>9, <1>10, <1>11, <1>12, <1>13, <1>14, <1>15, <1>16, <1>17, <1>18, <1>19 DEF Next

\* "The primary Site Owner account cannot be deleted" is true of every operation but the
\* flags: as long as nobody raises one about the owner's account, it is never marked
\* as deleted, whatever overlaps and whenever the server restarts.
THEOREM OwnerKept == Spec /\ []OwnerUnflagged => []OwnerUnmarked
<1>1. Init => OwnerClear
  <2>1. OwnersRow.deleted = FALSE
    BY DEF OwnersRow, NoUser
  <2>2. Init => user[Owner] = OwnersRow
    BY Parameters DEF Init
  <2>3. Init => OwnerUnmarked
    BY <2>1, <2>2 DEF OwnerUnmarked
  <2> QED
    BY <2>3 DEF Init, Idle, OwnerClear, Deciding
<1>2. IInv /\ OwnerUnflagged /\ OwnerClear /\ [Next]_vars => OwnerClear'
  <2> SUFFICES ASSUME IInv, OwnerUnflagged, OwnerClear, [Next]_vars, NEW j \in Jobs, Deciding(j)'
               PROVE  job'[j].id # Owner
    BY OwnerMark DEF OwnerClear
  <2>1. job \in [Jobs -> Job] /\ (Deciding(j) => job[j].id # Owner)
    BY DEF IInv, TypeOK, OwnerClear
  <2>2. CASE job'[j] = job[j]
    BY <2>1, <2>2 DEF Deciding
  <2>3. CASE DecideBegun(j)
    BY <2>3 DEF DecideBegun, OwnerUnflagged
  <2>4. CASE DecideRecorded(j)
    BY <2>1, <2>4 DEF DecideRecorded, ResolveWrite, Deciding, At
  <2> QED
    BY <2>2, <2>3, <2>4, DecidersStep
<1>3. OwnerClear => OwnerUnmarked
  BY DEF OwnerClear
<1> QED
  BY <1>1, <1>2, <1>3, Invariance, PTL DEF Spec
-----------------------------------------------------------------------------
(* The roles there are.                                                     *)

\* The role of everybody but the owner, of every invitation and of every request is one that
\* can be invited to, or user.
InRange(r) == r \in Invitable \cup {"user"}

RolesInvited ==
    /\ \A i \in Ids \ {Owner} : InRange(user[i].role)
    /\ \A t \in Invites : InRange(invite[t].role)
    /\ \A j \in Jobs : InRange(job[j].role)

\* The three parts of it after a step.
RowRoles  == \A i \in Ids \ {Owner} : InRange(user'[i].role)
MailRoles == \A t \in Invites : InRange(invite'[t].role)
WorkRoles == \A j \in Jobs : InRange(job'[j].role)

\* Of the users' rows only a registration and an acceptance set the role.
LEMMA RowRolesStep ==
  ASSUME IInv, RolesInvited, [Next]_vars
  PROVE  RowRoles
<1>1. /\ user \in [Ids -> User] /\ InRange("user")
      /\ \A i \in Ids \ {Owner} : InRange(user[i].role)
  BY DEF IInv, TypeOK, RolesInvited, InRange
<1>3. user' = EnsureOwner => RowRoles
  <2> SUFFICES ASSUME user' = EnsureOwner, NEW i \in Ids \ {Owner}
               PROVE  user'[i].role = user[i].role
    BY <1>1 DEF RowRoles
  <2>1. ~Privileged(i)
    BY OnlyOwner DEF IInv
  <2>2. PICK u \in User : u = user[i]
    BY <1>1
  <2>3. user'[i] = [u EXCEPT !.owner = FALSE]
    BY <2>1, <2>2 DEF EnsureOwner
  <2> QED
    BY <2>2, <2>3 DEF User
<1>4. ASSUME NEW i \in Ids, NEW u, InRange(u.role), user' = [user EXCEPT ![i] = u]
      PROVE  RowRoles
  BY <1>1, <1>4 DEF RowRoles
<1>5. user' = user => RowRoles
  BY <1>1 DEF RowRoles
<1>6. CASE Restart
  BY <1>3, <1>6 DEF Restart
<1>7. ASSUME NEW i \in Ids, LogIn(i)
      PROVE  RowRoles
  BY <1>3, <1>5, <1>7 DEF LogIn
<1>8. ASSUME NEW i \in Ids, NEW e \in Emails, SignUp(i, e)
      PROVE  RowRoles
  <2> DEFINE u == [NoUser EXCEPT !.state = "kept", !.email = e]
  <2>1. u.role = "user" /\ user' = [user EXCEPT ![i] = u]
    BY <1>8 DEF SignUp, NoUser
  <2> HIDE DEF u
  <2> QED
    BY <1>1, <1>4, <2>1
<1>9. ASSUME NEW c \in Claims, NEW i \in Ids,
             Block(c, i) \/ Unblock(c, i) \/ SoftDelete(c, i) \/ Restore(c, i)
      PROVE  RowRoles
  <2>1. PICK b : user' = [user EXCEPT ![i].blocked = b] \/ user' = [user EXCEPT ![i].deleted = b]
    BY <1>9 DEF Block, Unblock, SoftDelete, Restore
  <2>2. PICK u \in User : u = user[i]
    BY <1>1
  <2>3. user' = [user EXCEPT ![i] = [u EXCEPT !.blocked = b]]
          \/ user' = [user EXCEPT ![i] = [u EXCEPT !.deleted = b]]
    BY <2>1, <2>2
  <2>4. [u EXCEPT !.blocked = b].role = u.role /\ [u EXCEPT !.deleted = b].role = u.role
    BY DEF User
  <2>5. CASE i = Owner
    BY <1>1, <2>3, <2>5 DEF RowRoles
  <2>6. CASE i # Owner
    <3>1. InRange(u.role)
      BY <1>1, <2>2, <2>6
    <3>2. InRange([u EXCEPT !.blocked = b].role) /\ InRange([u EXCEPT !.deleted = b].role)
      BY <2>4, <3>1
    <3> QED
      BY <1>4, <2>3, <3>2
  <2> QED
    BY <2>5, <2>6
<1>10. ASSUME NEW j \in Jobs, EraseWrite(j)
       PROVE  RowRoles
  <2>1. Gone.role = "user" /\ job[j].id \in Ids /\ user' = [user EXCEPT ![job[j].id] = Gone]
    BY <1>10 DEF IInv, JobsInv, JobSound, EraseWrite, At, Gone, NoUser
  <2> QED
    BY <1>1, <1>4, <2>1
<1>11. ASSUME NEW j \in Jobs, CarryOut(j)
       PROVE  RowRoles
  <2>1. PICK i \in Ids : i = job[j].id
    BY <1>11 DEF IInv, JobsInv, JobSound, CarryOut, At
  <2>2. PICK u \in User : u = user[i]
    BY <1>1
  <2>3. user' = [user EXCEPT ![i] = [u EXCEPT !.blocked = TRUE]]
          \/ user' = [user EXCEPT ![i] = [u EXCEPT !.deleted = TRUE]]
    BY <1>11, <2>1, <2>2 DEF CarryOut
  <2>4. [u EXCEPT !.blocked = TRUE].role = u.role /\ [u EXCEPT !.deleted = TRUE].role = u.role
    BY DEF User
  <2>5. CASE i = Owner
    BY <1>1, <2>3, <2>5 DEF RowRoles
  <2>6. CASE i # Owner
    <3>1. InRange(u.role)
      BY <1>1, <2>2, <2>6
    <3>2. InRange([u EXCEPT !.blocked = TRUE].role) /\ InRange([u EXCEPT !.deleted = TRUE].role)
      BY <2>4, <3>1
    <3> QED
      BY <1>4, <2>3, <3>2
  <2> QED
    BY <2>5, <2>6
<1>12. ASSUME NEW j \in Jobs, NEW i \in Ids, AcceptCreate(j, i)
       PROVE  RowRoles
  <2>1. PICK e, r : e = job[j].email /\ r = job[j].role
    OBVIOUS
  <2>2. NewUser(e, r).role = r
    BY DEF NewUser, NoUser
  <2>3. user' = [user EXCEPT ![i] = NewUser(e, r)] /\ InRange(r)
    BY <1>12, <2>1 DEF AcceptCreate, NewUser, RolesInvited
  <2> HIDE DEF NewUser
  <2> QED
    BY <1>4, <2>2, <2>3
<1>13. ASSUME NEW c \in Claims,
              \/ Refresh(c)
              \/ \E i \in Ids : \/ \E f \in Flags, a \in FlagAction : FlagUser(c, i, f, a)
                                \/ \E j \in Jobs : EraseBegin(j, c, i)
              \/ \E j \in Jobs, e \in Emails, r \in Invitable : InviteBegin(j, c, e, r)
              \/ \E j \in Jobs, f \in Flags, s \in FlagStatus : ResolveBegin(j, c, f, s)
       PROVE  user' = user
  BY <1>13 DEF Refresh, FlagUser, EraseBegin, InviteBegin, ResolveBegin
<1>14. ASSUME NEW j \in Jobs,
              \/ InviteClear(j) \/ InviteMail(j) \/ AcceptConsume(j)
              \/ ResolveWrite(j) \/ JobFails(j)
              \/ \E t \in Invites : InviteCreate(j, t) \/ AcceptBegin(j, t)
       PROVE  user' = user
  BY <1>14 DEF InviteClear, InviteMail, AcceptConsume, ResolveWrite, JobFails, InviteCreate, AcceptBegin
<1>15. UNCHANGED vars => user' = user
  BY DEF vars
<1> QED
  BY <1>5, <1>6, <1>7, <1>8, <1>9, <1>10, <1>11, <1>12, <1>13, <1>14, <1>15 DEF Next
\* An invitation has the role of the request that creates it.
LEMMA MailRolesStep ==
  ASSUME IInv, RolesInvited, [Next]_vars
  PROVE  MailRoles
<1>1. /\ invite \in [Invites -> Invitation] /\ \A t \in Invites : InRange(invite[t].role)
      /\ \A j \in Jobs : InRange(job[j].role)
  BY DEF IInv, TypeOK, RolesInvited
<1>2. invite' = invite => MailRoles
  BY <1>1 DEF MailRoles
<1>3. ASSUME NEW b \in Invitation
      PROVE  [b EXCEPT !.state = "removed"].role = b.role
  BY DEF Invitation
<1>4. ASSUME NEW e, invite' = Without(e)
      PROVE  MailRoles
  BY <1>1, <1>3, <1>4 DEF MailRoles, Without
<1>5. ASSUME NEW j \in Jobs, InviteClear(j) \/ EraseWrite(j)
      PROVE  MailRoles
  BY <1>4, <1>5 DEF InviteClear, EraseWrite
<1>6. ASSUME NEW j \in Jobs, NEW t \in Invites, InviteCreate(j, t)
      PROVE  MailRoles
  BY <1>1, <1>6 DEF InviteCreate, MailRoles
<1>7. ASSUME NEW j \in Jobs, AcceptConsume(j)
      PROVE  MailRoles
  <2>1. PICK t : t = job[j].invite
    OBVIOUS
  <2>2. invite' = [invite EXCEPT ![t] = [invite[t] EXCEPT !.state = "removed"]]
    BY <1>7, <2>1 DEF AcceptConsume
  <2> QED
    BY <1>1, <1>3, <2>2 DEF MailRoles
<1>8. ASSUME NEW c \in Claims,
             \/ Refresh(c)
             \/ \E i \in Ids : \/ Block(c, i) \/ Unblock(c, i) \/ SoftDelete(c, i) \/ Restore(c, i)
                               \/ \E f \in Flags, a \in FlagAction : FlagUser(c, i, f, a)
                               \/ \E j \in Jobs : EraseBegin(j, c, i)
             \/ \E j \in Jobs, e \in Emails, r \in Invitable : InviteBegin(j, c, e, r)
             \/ \E j \in Jobs, f \in Flags, s \in FlagStatus : ResolveBegin(j, c, f, s)
      PROVE  invite' = invite
  BY <1>8 DEF Refresh, Block, Unblock, SoftDelete, Restore, FlagUser, EraseBegin, InviteBegin,
     ResolveBegin
<1>9. ASSUME NEW j \in Jobs,
             \/ InviteMail(j) \/ ResolveWrite(j) \/ CarryOut(j) \/ JobFails(j)
             \/ \E t \in Invites : AcceptBegin(j, t)
             \/ \E i \in Ids : AcceptCreate(j, i)
      PROVE  invite' = invite
  BY <1>9 DEF InviteMail, ResolveWrite, CarryOut, JobFails, AcceptBegin, AcceptCreate
<1>10. Restart \/ (\E i \in Ids : LogIn(i) \/ \E e \in Emails : SignUp(i, e)) \/ UNCHANGED vars
         => invite' = invite
  BY DEF Restart, LogIn, SignUp, vars
<1> QED
  BY <1>2, <1>5, <1>6, <1>7, <1>8, <1>9, <1>10 DEF Next

\* A request's role is one of those it may invite to, or that of the invitation it read.
LEMMA WorkRolesStep ==
  ASSUME IInv, RolesInvited, [Next]_vars
  PROVE  WorkRoles
<1>1. /\ job \in [Jobs -> Job] /\ \A j \in Jobs : InRange(job[j].role)
      /\ \A t \in Invites : InRange(invite[t].role)
  BY DEF IInv, TypeOK, RolesInvited
<1>2. job' = job => WorkRoles
  BY <1>1 DEF WorkRoles
<1>3. ASSUME NEW k \in Jobs, NEW b, job' = [job EXCEPT ![k] = b], InRange(b.role)
      PROVE  WorkRoles
  BY <1>1, <1>3 DEF WorkRoles
<1>4. InRange(Idle.role)
  BY DEF Idle, InRange
<1>5. ASSUME NEW k \in Jobs, Finish(k)
      PROVE  WorkRoles
  BY <1>3, <1>4, <1>5 DEF Finish
<1>6. ASSUME NEW k \in Jobs, NEW pc, Go(k, pc)
      PROVE  WorkRoles
  <2>1. PICK b \in Job : b = job[k]
    BY <1>1
  <2>2. [b EXCEPT !.pc = pc].role = b.role
    BY DEF Job
  <2>3. job' = [job EXCEPT ![k] = [b EXCEPT !.pc = pc]]
    BY <1>1, <1>6, <2>1 DEF Go
  <2>4. InRange([b EXCEPT !.pc = pc].role)
    BY <1>1, <2>1, <2>2
  <2> QED
    BY <1>3, <2>3, <2>4
<1>7. CASE Restart
  BY <1>4, <1>7 DEF Restart, WorkRoles
<1>8. ASSUME NEW c \in Claims,
             \/ Refresh(c)
             \/ \E i \in Ids : \/ Block(c, i) \/ Unblock(c, i) \/ SoftDelete(c, i) \/ Restore(c, i)
                               \/ \E f \in Flags, a \in FlagAction : FlagUser(c, i, f, a)
      PROVE  job' = job
  BY <1>8 DEF Refresh, Block, Unblock, SoftDelete, Restore, FlagUser
<1>9. ASSUME NEW c \in Claims, NEW i \in Ids, NEW k \in Jobs, EraseBegin(k, c, i)
      PROVE  WorkRoles
  <2> DEFINE b == [Idle EXCEPT !.pc = "erase", !.id = i, !.email = user[i].email]
  <2>1. job' = [job EXCEPT ![k] = b]
    BY <1>9 DEF EraseBegin
  <2>2. b.role = Idle.role
    BY DEF Idle
  <2>3. InRange(b.role)
    BY <1>4, <2>2
  <2> HIDE DEF b
  <2> QED
    BY <1>3, <2>1, <2>3
<1>10. ASSUME NEW c \in Claims, NEW k \in Jobs, NEW e \in Emails, NEW r \in Invitable,
              InviteBegin(k, c, e, r)
       PROVE  WorkRoles
  <2> DEFINE b == [Idle EXCEPT !.pc = "inviteClear", !.email = e, !.role = r]
  <2>1. job' = [job EXCEPT ![k] = b]
    BY <1>10 DEF InviteBegin
  <2>2. b.role = r
    BY DEF Idle
  <2>3. InRange(b.role)
    BY <2>2 DEF InRange
  <2> HIDE DEF b
  <2> QED
    BY <1>3, <2>1, <2>3
<1>11. ASSUME NEW c \in Claims, NEW k \in Jobs, NEW f \in Flags, NEW s \in FlagStatus,
              ResolveBegin(k, c, f, s)
       PROVE  WorkRoles
  <2> DEFINE b == [Idle EXCEPT !.pc = "resolve", !.id = flag[f].user, !.flag = f,
                               !.status = s, !.action = flag[f].action]
  <2>1. job' = [job EXCEPT ![k] = b]
    BY <1>11 DEF ResolveBegin
  <2>2. b.role = Idle.role
    BY DEF Idle
  <2>3. InRange(b.role)
    BY <1>4, <2>2
  <2> HIDE DEF b
  <2> QED
    BY <1>3, <2>1, <2>3
<1>12. ASSUME NEW k \in Jobs,
              \/ InviteClear(k) \/ InviteMail(k) \/ AcceptConsume(k) \/ EraseWrite(k)
              \/ ResolveWrite(k) \/ CarryOut(k) \/ JobFails(k) \/ \E i \in Ids : AcceptCreate(k, i)
       PROVE  WorkRoles
  BY <1>5, <1>6, <1>12 DEF InviteClear, InviteMail, AcceptConsume, EraseWrite, ResolveWrite,
     CarryOut, JobFails, AcceptCreate
<1>13. ASSUME NEW k \in Jobs, NEW t \in Invites, InviteCreate(k, t)
       PROVE  WorkRoles
  <2>1. PICK b \in Job : b = job[k]
    BY <1>1
  <2> DEFINE c == [b EXCEPT !.pc = "inviteMail", !.invite = t]
  <2>2. c.role = b.role
    BY DEF Job
  <2>3. job' = [job EXCEPT ![k] = c]
    BY <1>1, <1>13, <2>1 DEF InviteCreate
  <2>4. InRange(c.role)
    BY <1>1, <2>1, <2>2
  <2> HIDE DEF c
  <2> QED
    BY <1>3, <2>3, <2>4
<1>14. ASSUME NEW k \in Jobs, NEW t \in Invites, AcceptBegin(k, t)
       PROVE  WorkRoles
  <2>1. PICK r : r = invite[t].role
    OBVIOUS
  <2> DEFINE b == [Idle EXCEPT !.pc = "accept", !.email = invite[t].email,
                               !.role = r, !.invite = t]
  <2>2. job' = [job EXCEPT ![k] = b]
    BY <1>14, <2>1 DEF AcceptBegin
  <2>3. b.role = r
    BY DEF Idle
  <2>4. InRange(b.role)
    BY <1>1, <2>1, <2>3
  <2> HIDE DEF b
  <2> QED
    BY <1>3, <2>2, <2>4
<1>15. (\E i \in Ids : LogIn(i) \/ \E e \in Emails : SignUp(i, e)) \/ UNCHANGED vars => job' = job
  BY DEF LogIn, SignUp, vars
<1> QED
  BY <1>2, <1>7, <1>8, <1>9, <1>10, <1>11, <1>12, <1>13, <1>14, <1>15 DEF Next

\* Every account but the owner's that is on the staff has a role somebody could be invited to:
\* no overlap of invitations, acceptances and erasures makes another.
THEOREM RolesAreInvited == Spec => []RolesInvited
<1>1. Init => RolesInvited
  BY DEF Init, Idle, NoUser, NoInvite, RolesInvited, InRange
<1>2. IInv /\ RolesInvited /\ [Next]_vars => RolesInvited'
  BY RowRolesStep, MailRolesStep, WorkRolesStep DEF RolesInvited, RowRoles, MailRoles, WorkRoles,
     InRange
<1> QED
  BY <1>1, <1>2, Invariance, PTL DEF Spec

\* "Account activated successfully. You can now log in." is true where the invitations are
\* to the two roles that the log-in admits.
THEOREM ActivatedLogIn ==
    ASSUME Invitable \subseteq {"admin", "super_admin"}
    PROVE  Spec => []ActivatedMayLogIn
<1>1. IInv /\ RolesInvited => ActivatedMayLogIn
  BY DEF IInv, OwnerSafe, RolesInvited, InRange, ActivatedMayLogIn, MayLogIn
<1> QED
  BY <1>1, Invariance, RolesAreInvited, PTL

=============================================================================
