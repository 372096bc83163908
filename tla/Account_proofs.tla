--------------------------- MODULE Account_proofs ---------------------------
(***************************************************************************)
(* Facts about accounts, for any number of rows, addresses, devices,       *)
(* tokens and concurrent requests.  A refused token stays refused, a       *)
(* spent one spent, a guest's is one the guard looks up, and no two        *)
(* accounts share an address, whatever happens.  As long as two            *)
(* conversions of one guest do not overlap (~Overlapping), an account      *)
(* keeps its address and is verified only for an address that somebody     *)
(* proved to own; the model checker shows that with an overlap both fail.  *)
(* Under conditions of their own, stated with them, a verified account is  *)
(* not deleted as an unverified one, and a soft-blocked guest has no       *)
(* access.                                                                 *)
(*                                                                         *)
(* The invariant has two parts.  Base says what a job may rely on after    *)
(* its awaits: the row it read still exists, live or deleted, and the      *)
(* address it is about to mark as verified was proved.  Conv adds that a   *)
(* row without an address is the only row a conversion can be about to     *)
(* write, which is what makes the later write harmless.                    *)
(***************************************************************************)
EXTENDS Account, TLAPS

Used(r) == row[r].state # "unused"

WithEmail == {"register", "verify", "verifyOtp", "resend", "forgot", "delete",
              "block", "mail", "convert", "create"}
WithRow   == {"verify", "verifyOtp", "token", "convert"}

\* What a job's record b says still holds.
Sound(b) ==
    /\ b.pc \in WithEmail => b.email \in Emails
    /\ b.pc \in WithRow => b.row \in Rows
    /\ b.pc = "mail" => b.otp # 0
    /\ b.row # None => Used(b.row)
    /\ b.pc \in {"verify", "convert", "create"} => b.email \in proved

JobsInv   == \A j \in Jobs : Sound(job[j])
TokensInv == \A t \in 1..issued : tokens[t].row \in Rows /\ Used(tokens[t].row)
Base      == TypeOK /\ JobsInv /\ TokensInv

IsConverting(j) == job[j].pc \in {"register", "convert"} /\ job[j].row # None

\* A guest has no address, and a conversion still finds the row it read without
\* one; two conversions are about different rows.
GuestsInv  == \A r \in Rows : Live(r) /\ row[r].guest => row[r].email = None
ConvertInv == \A j \in Jobs : IsConverting(j) /\ Live(job[j].row) => row[job[j].row].email = None
ApartInv   == \A i, j \in Jobs :
                IsConverting(i) /\ IsConverting(j) /\ job[i].row = job[j].row => i = j
Conv       == GuestsInv /\ ConvertInv /\ ApartInv /\ VerifiedEmailProved

IInv == Base /\ (~Overlapping => Conv)

-----------------------------------------------------------------------------
(* What every step keeps.                                                   *)

Grows ==
    /\ \A r \in Rows : Used(r) => row'[r].state # "unused"
    /\ proved \subseteq proved'

\* The record of an untouched job stays sound.
LEMMA SoundStable ==
    ASSUME NEW b \in Job, Grows, Sound(b)
    PROVE  Sound(b)'
<1>1. b.row # None => b.row \in Rows
  BY DEF Job
<1> QED
  BY <1>1 DEF Sound, Grows, Used

\* A step that gives one job a new record has to show that record sound.
LEMMA JobStep ==
    ASSUME Base, Grows, NEW j \in Jobs, NEW b \in Job,
           job' = [job EXCEPT ![j] = b], Sound(b)'
    PROVE  JobsInv' /\ job' \in [Jobs -> Job]
<1>1. job \in [Jobs -> Job]
  BY DEF Base, TypeOK
<1>2. ASSUME NEW i \in Jobs
      PROVE  Sound(job[i])'
  <2>1. CASE i = j
    BY <1>1, <2>1 DEF Sound, Used
  <2>2. CASE i # j
    <3>1. PICK c \in Job : c = job[i]
      BY <1>1
    <3>2. Sound(c)'
      BY <3>1, SoundStable DEF Base, JobsInv
    <3> QED
      BY <1>1, <2>2, <3>1, <3>2 DEF Sound, Used
  <2> QED
    BY <2>1, <2>2
<1> QED
  BY <1>1, <1>2 DEF JobsInv, Sound, Used

\* A finished job claims nothing.
LEMMA IdleSound == Idle \in Job /\ Sound(Idle)
  BY Parameters DEF Idle, Job, Steps, Sound, WithEmail, WithRow

\* Nothing new about the jobs: their records stay sound.
LEMMA NoJobStep ==
    ASSUME Base, Grows, job' = job
    PROVE  JobsInv' /\ job' \in [Jobs -> Job]
<1>1. job \in [Jobs -> Job]
  BY DEF Base, TypeOK
<1>2. ASSUME NEW i \in Jobs
      PROVE  Sound(job[i])'
  <2>1. PICK c \in Job : c = job[i]
    BY <1>1
  <2>2. Sound(c)'
    BY <2>1, SoundStable DEF Base, JobsInv
  <2> QED
    BY <2>1, <2>2 DEF Sound, Used
<1> QED
  BY <1>1, <1>2 DEF JobsInv, Sound, Used

\* A job that ends.
LEMMA FinishStep ==
    ASSUME Base, Grows, NEW j \in Jobs, Finish(j)
    PROVE  JobsInv' /\ job' \in [Jobs -> Job]
<1>1. Sound(Idle)'
  BY DEF Idle, Sound, WithEmail, WithRow
<1> QED
  BY <1>1, IdleSound, JobStep DEF Finish

\* A step that issues no token keeps the tokens.
LEMMA TokensKept ==
    ASSUME Base, Grows, tokens' = tokens, issued' = issued
    PROVE  TokensInv'
  BY DEF Base, TokensInv, Grows, Used

\* A token for a row that exists.
LEMMA IssueStep ==
    ASSUME Base, Grows, NEW r \in Rows, NEW g \in BOOLEAN, Used(r), Issue(r, g)
    PROVE  /\ tokens' \in [1..MaxTokens -> [row: Rows \cup {None}, guest: BOOLEAN]]
           /\ issued' \in 0..MaxTokens
           /\ TokensInv'
           /\ \A t \in 1..issued : tokens'[t] = tokens[t]
<1> DEFINE T == [row: Rows \cup {None}, guest: BOOLEAN]
<1>1. tokens \in [1..MaxTokens -> T] /\ issued \in 0..MaxTokens /\ MaxTokens \in Nat
  BY Parameters DEF Base, TypeOK
<1>2. issued' = issued + 1 /\ issued' \in 0..MaxTokens /\ issued + 1 \in 1..MaxTokens
  BY <1>1 DEF Issue
<1>3. [row |-> r, guest |-> g] \in T
  OBVIOUS
<1>4. tokens' = [tokens EXCEPT ![issued + 1] = [row |-> r, guest |-> g]]
  BY DEF Issue
<1>5. tokens' \in [1..MaxTokens -> T]
  BY <1>1, <1>2, <1>3, <1>4
<1>6. tokens'[issued + 1] = [row |-> r, guest |-> g]
  BY <1>1, <1>2, <1>4
<1>7. \A t \in 1..issued : tokens'[t] = tokens[t]
  BY <1>1, <1>2, <1>4
<1>8. ASSUME NEW t \in 1..issued'
      PROVE  tokens'[t].row \in Rows /\ row'[tokens'[t].row].state # "unused"
  <2>1. CASE t = issued + 1
    BY <1>6, <2>1 DEF Grows
  <2>2. CASE t # issued + 1
    <3>1. t \in 1..issued
      BY <1>1, <1>2, <2>2
    <3> QED
      BY <1>7, <3>1 DEF Base, TokensInv, Grows, Used
  <2> QED
    BY <2>1, <2>2
<1> QED
  BY <1>2, <1>5, <1>7, <1>8 DEF TokensInv, Used

-----------------------------------------------------------------------------
(* Steps that do no harm: they give no row a new address, make nobody a     *)
(* guest, bring no row to life, and verify only a proved address.           *)

RefusedStep == \A t \in 1..issued : ~Accepted(t) => ~Accepted(t)'
EmailStep   == \A r \in Rows : Live(r) /\ row[r].email # None => row'[r].email = row[r].email

\* What has to be shown of every step.
Kept ==
    /\ TypeOK' /\ JobsInv' /\ TokensInv'
    /\ RefusedStep
    /\ ~Overlapping => Conv' /\ EmailStep

\* The row a becomes b.
HarmlessEdit(a, b) ==
    /\ b.email = a.email
    /\ b.guest => a.guest
    /\ b.state = "live" => a.state = "live"
    /\ a.state # "unused" => b.state # "unused"
    /\ b.verified => a.verified \/ a.email \in proved
    /\ a.expired => b.expired

Harmless == \A r \in Rows : HarmlessEdit(row[r], row'[r])

\* One row changes, harmlessly.
LEMMA EditStep ==
    ASSUME Base, NEW r \in Rows, NEW n \in Row, HarmlessEdit(row[r], n), Edit(r, n)
    PROVE  Harmless /\ row' \in [Rows -> Row]
  BY DEF Edit, Base, TypeOK, Harmless, HarmlessEdit

\* No row changes.
LEMMA NoEdit ==
    ASSUME Base, row' = row
    PROVE  Harmless /\ row' \in [Rows -> Row]
  BY DEF Base, TypeOK, Harmless, HarmlessEdit

\* A harmless step removes no row.
LEMMA HarmlessGrows ==
    ASSUME Harmless, proved \subseteq proved'
    PROVE  Grows
  BY DEF Harmless, HarmlessEdit, Grows, Used

\* No refused token is accepted again, as no row becomes a fresh guest.
LEMMA HarmlessRefused ==
    ASSUME Base, Harmless,
           \A t \in 1..issued : t \in 1..issued' /\ tokens'[t] = tokens[t]
    PROVE  RefusedStep
<1> SUFFICES ASSUME NEW t \in 1..issued, Accepted(t)'
             PROVE  Accepted(t)
  BY DEF RefusedStep
<1>1. tokens'[t] = tokens[t] /\ tokens[t].row \in Rows
  BY DEF Base, TokensInv
<1>2. tokens[t].guest =>
        LET r == tokens[t].row
        IN  row'[r].state = "live" /\ row'[r].guest /\ ~row'[r].expired
  BY <1>1 DEF Accepted, Live
<1>3. tokens[t].guest =>
        LET r == tokens[t].row
        IN  row[r].state = "live" /\ row[r].guest /\ ~row[r].expired
  BY <1>1, <1>2 DEF Harmless, HarmlessEdit
<1> QED
  BY <1>3 DEF Accepted, Live

\* A harmless step keeps everything, as long as it starts no conversion.
LEMMA HarmlessStep ==
    ASSUME IInv, TypeOK', JobsInv', TokensInv', Harmless, proved \subseteq proved',
           \A t \in 1..issued : t \in 1..issued' /\ tokens'[t] = tokens[t],
           \A j \in Jobs : job'[j] = job[j] \/ ~IsConverting(j)'
    PROVE  Kept
<1>1. RefusedStep
  BY HarmlessRefused DEF IInv
<1>2. EmailStep
  BY DEF Harmless, HarmlessEdit, EmailStep
<1>3. ASSUME ~Overlapping
      PROVE  Conv'
  <2>1. Conv
    BY <1>3 DEF IInv
  <2>2. GuestsInv'
    BY <2>1 DEF Conv, GuestsInv, Harmless, HarmlessEdit, Live
  <2>3. VerifiedEmailProved'
    BY <2>1 DEF Conv, VerifiedEmailProved, Harmless, HarmlessEdit, Live
  <2>4. ASSUME NEW j \in Jobs, IsConverting(j)'
        PROVE  job'[j] = job[j] /\ IsConverting(j)
    BY <2>4 DEF IsConverting
  <2>5. ApartInv'
    BY <2>1, <2>4 DEF Conv, ApartInv
  <2>6. ASSUME NEW j \in Jobs, IsConverting(j)', Live(job[j].row)'
        PROVE  row'[job[j].row].email = None
    <3>1. PICK r \in Rows : r = job[j].row
      BY <2>4, <2>6 DEF IInv, Base, TypeOK, Job, IsConverting
    <3>2. Live(r)
      BY <2>4, <2>6, <3>1 DEF Live, Harmless, HarmlessEdit
    <3>3. row[r].email = None
      BY <2>1, <2>4, <2>6, <3>1, <3>2 DEF Conv, ConvertInv
    <3> QED
      BY <3>1, <3>3 DEF Harmless, HarmlessEdit
  <2>7. ConvertInv'
    <3> SUFFICES ASSUME NEW j \in Jobs, IsConverting(j)', Live(job[j].row)'
                 PROVE  (row[job[j].row].email)' = None
      BY DEF ConvertInv
    <3> QED
      BY <2>4, <2>6
  <2> QED
    BY <2>2, <2>3, <2>5, <2>7 DEF Conv
<1> QED
  BY <1>1, <1>2, <1>3 DEF Kept

-----------------------------------------------------------------------------
(* Steps that only change rows.                                             *)

\* A harmless edit of the table by a request that ends with it, or by none.
LEMMA QuietStep ==
    ASSUME IInv, Harmless, row' \in [Rows -> Row], UNCHANGED clients,
           job' = job \/ \E j \in Jobs : Finish(j)
    PROVE  Kept
<1>1. proved' = proved /\ tokens' = tokens /\ issued' = issued
  BY DEF clients
<1>2. Grows
  BY <1>1, HarmlessGrows
<1>3. JobsInv' /\ job' \in [Jobs -> Job]
  BY <1>2, FinishStep, NoJobStep DEF IInv
<1>4. TokensInv'
  BY <1>1, <1>2, TokensKept DEF IInv
<1>5. TypeOK'
  BY <1>3 DEF IInv, Base, TypeOK, clients
<1>6. \A i \in Jobs : job'[i] = job[i] \/ ~IsConverting(i)'
  BY DEF Finish, Idle, IInv, Base, TypeOK, IsConverting
<1> QED
  BY <1>1, <1>3, <1>4, <1>5, <1>6, HarmlessStep

\* The same with one row edited.
LEMMA QuietEdit ==
    ASSUME IInv, NEW r \in Rows, NEW n \in Row, HarmlessEdit(row[r], n),
           Edit(r, n), UNCHANGED clients,
           job' = job \/ \E j \in Jobs : Finish(j)
    PROVE  Kept
  BY EditStep, QuietStep DEF IInv

\* A row has the columns of the schema.
LEMMA RowTyped ==
    ASSUME Base, NEW r \in Rows
    PROVE  row[r] \in Row
  BY DEF Base, TypeOK

\* Edits of a row that also set its number of attempts.
LEMMA AttemptEdits ==
    ASSUME NEW a \in Row, NEW n \in 0..MaxAttempts,
           NEW b \in {"no", "minutes", "forever"}, NEW f \in BOOLEAN, NEW o \in 0..MaxOtps,
           NEW t \in 0..MaxTokens
    PROVE  /\ [a EXCEPT !.blocked = b, !.attempts = n] \in Row
           /\ [a EXCEPT !.reset = f, !.attempts = n] \in Row
           /\ [a EXCEPT !.otp = o, !.attempts = n] \in Row
           /\ [a EXCEPT !.verified = f, !.otp = o, !.attempts = n, !.refresh = t] \in Row
           /\ [a EXCEPT !.otp = o, !.attempts = n, !.reset = f, !.blocked = b] \in Row
  BY DEF Row

\* A request that ends by deleting or blocking the account of an address.
LEMMA ResendDeleteLemma ==
    ASSUME IInv, NEW j \in Jobs, ResendDelete(j)
    PROVE  Kept
<1>1. PICK r \in Rows : Edit(r, [row[r] EXCEPT !.state = "deleted"])
  BY DEF ResendDelete, Found
<1> DEFINE n == [row[r] EXCEPT !.state = "deleted"]
<1>2. n \in Row /\ HarmlessEdit(row[r], n)
  BY RowTyped DEF IInv, Row, HarmlessEdit
<1> QED
  BY <1>1, <1>2, QuietEdit DEF ResendDelete

\* forgotPassword blocks the account after too many attempts.
LEMMA ForgotBlockLemma ==
    ASSUME IInv, NEW j \in Jobs, ForgotBlock(j)
    PROVE  Kept
<1>1. PICK r \in Rows : Edit(r, [row[r] EXCEPT !.blocked = "minutes", !.attempts = 0])
  BY DEF ForgotBlock, Found
<1> DEFINE n == [row[r] EXCEPT !.blocked = "minutes", !.attempts = 0]
<1>2. row[r] \in Row /\ 0 \in 0..MaxAttempts /\ 0 \in 0..MaxOtps /\ 0 \in 0..MaxTokens
  BY RowTyped, Parameters DEF IInv
<1>3. n \in Row
  BY <1>2, AttemptEdits
<1>4. HarmlessEdit(row[r], n)
  BY <1>2 DEF Row, HarmlessEdit
<1> QED
  BY <1>1, <1>3, <1>4, QuietEdit DEF ForgotBlock

\* The steps that are no job's: a wrong guess, a password reset, a log-out, the
\* passing of time and the cron job.
LEMMA NobodysStepLemma ==
    ASSUME IInv,
           \/ \E r \in Rows : ResetPassword(r) \/ LogOut(r) \/ GuestExpires(r) \/ BlockEnds(r)
           \/ \E e \in Emails : WrongOtp(e)
    PROVE  Kept
<1>1. ASSUME NEW r \in Rows, ResetPassword(r)
      PROVE  Kept
  <2> DEFINE n == [row[r] EXCEPT !.reset = FALSE, !.attempts = 0]
  <2>1. row[r] \in Row /\ 0 \in 0..MaxAttempts /\ 0 \in 0..MaxOtps /\ 0 \in 0..MaxTokens
    BY RowTyped, Parameters DEF IInv
  <2>2. n \in Row
    BY <2>1, AttemptEdits
  <2>3. HarmlessEdit(row[r], n)
    BY <2>1 DEF Row, HarmlessEdit
  <2> QED
    BY <1>1, <2>2, <2>3, QuietEdit DEF ResetPassword
<1>2. ASSUME NEW r \in Rows, LogOut(r)
      PROVE  Kept
  <2> DEFINE n == [row[r] EXCEPT !.refresh = 0]
  <2>1. n \in Row /\ HarmlessEdit(row[r], n)
    BY RowTyped, Parameters DEF IInv, Row, HarmlessEdit
  <2> QED
    BY <1>2, <2>1, QuietEdit DEF LogOut
<1>3. ASSUME NEW r \in Rows, GuestExpires(r)
      PROVE  Kept
  <2> DEFINE n == [row[r] EXCEPT !.expired = TRUE]
  <2>1. n \in Row /\ HarmlessEdit(row[r], n)
    BY RowTyped DEF IInv, Row, HarmlessEdit
  <2> QED
    BY <1>3, <2>1, QuietEdit DEF GuestExpires
<1>4. ASSUME NEW r \in Rows, BlockEnds(r)
      PROVE  Kept
  <2> DEFINE n == [row[r] EXCEPT !.blocked = "no"]
  <2>1. n \in Row /\ HarmlessEdit(row[r], n)
    BY RowTyped DEF IInv, Row, HarmlessEdit
  <2> QED
    BY <1>4, <2>1, QuietEdit DEF BlockEnds
<1>5. ASSUME NEW e \in Emails, WrongOtp(e)
      PROVE  Kept
  <2>1. PICK r \in Rows : /\ row[r].attempts < MaxAttempts
                          /\ Edit(r, [row[r] EXCEPT !.attempts = @ + 1])
    BY <1>5 DEF WrongOtp, Found
  <2> DEFINE n == [row[r] EXCEPT !.attempts = row[r].attempts + 1]
  <2>2. row[r].attempts + 1 \in 0..MaxAttempts
    BY <2>1, RowTyped, Parameters DEF IInv, Row
  <2>3. n \in Row /\ HarmlessEdit(row[r], n)
    BY <2>2, RowTyped DEF IInv, Row, HarmlessEdit
  <2> QED
    BY <1>5, <2>1, <2>3, QuietEdit DEF WrongOtp
<1> QED
  BY <1>1, <1>2, <1>3, <1>4, <1>5

\* The cron job makes guests non-guests, and so accepts no token it did not before.
LEMMA ExpireGuestsLemma ==
    ASSUME IInv, ExpireGuests
    PROVE  Kept
<1>1. row \in [Rows -> Row]
  BY DEF IInv, Base, TypeOK
<1>2. ASSUME NEW r \in Rows
      PROVE  SoftBlocked(r) \in Row /\ HarmlessEdit(row[r], SoftBlocked(r))
  <2>1. PICK n \in Row : n = row[r]
    BY <1>1
  <2> QED
    BY <2>1 DEF SoftBlocked, Row, HarmlessEdit
<1>3. row' = [r \in Rows |-> IF SoftBlocks(r) THEN SoftBlocked(r) ELSE row[r]]
  BY DEF ExpireGuests
<1>4. row' \in [Rows -> Row]
  BY <1>1, <1>2, <1>3
<1>5. Harmless
  <2> SUFFICES ASSUME NEW r \in Rows
               PROVE  HarmlessEdit(row[r], row'[r])
    BY DEF Harmless
  <2>1. row'[r] = IF SoftBlocks(r) THEN SoftBlocked(r) ELSE row[r]
    BY <1>3
  <2>2. HarmlessEdit(row[r], row[r])
    BY DEF HarmlessEdit
  <2> QED
    BY <1>2, <2>1, <2>2
<1> QED
  BY <1>4, <1>5, QuietStep DEF ExpireGuests

\* A request that fails leaves what it has done.
LEMMA JobFailsLemma ==
    ASSUME IInv, NEW j \in Jobs, JobFails(j)
    PROVE  Kept
  BY NoEdit, QuietStep DEF JobFails, IInv

-----------------------------------------------------------------------------
(* Steps that start a request, or take it further, without a conversion.    *)

\* One job gets the record b, and nothing but mailboxes and proofs changes.
LEMMA StartLemma ==
    ASSUME IInv, NEW j \in Jobs, NEW b \in Job, Sound(b)',
           b.pc \notin {"register", "convert"} \/ b.row = None,
           job' = [job EXCEPT ![j] = b],
           UNCHANGED <<tokens, resetTokens, mailed, issued>>, otps' \in 0..MaxOtps,
           proved' \in SUBSET Emails, proved \subseteq proved',
           row' \in [Rows -> Row], Harmless
    PROVE  Kept
<1>1. Grows
  BY HarmlessGrows
<1>2. JobsInv' /\ job' \in [Jobs -> Job]
  BY <1>1, JobStep DEF IInv
<1>3. TokensInv'
  BY <1>1, TokensKept DEF IInv
<1>4. TypeOK'
  BY <1>2 DEF IInv, Base, TypeOK
<1>5. \A i \in Jobs : job'[i] = job[i] \/ ~IsConverting(i)'
  BY DEF IInv, Base, TypeOK, IsConverting
<1> QED
  BY <1>2, <1>3, <1>4, <1>5, HarmlessStep

\* StartLemma for a step that leaves the table alone.
LEMMA ReadLemma ==
    ASSUME IInv, NEW j \in Jobs, NEW b \in Job, Sound(b)',
           b.pc \notin {"register", "convert"} \/ b.row = None,
           job' = [job EXCEPT ![j] = b],
           UNCHANGED <<row, tokens, resetTokens, mailed, issued, otps>>,
           proved' \in SUBSET Emails, proved \subseteq proved'
    PROVE  Kept
  BY NoEdit, StartLemma DEF IInv, Base, TypeOK

\* The owner of an address submits the OTP from its mailbox.
LEMMA VerifyBeginLemma ==
    ASSUME IInv, NEW j \in Jobs, NEW step \in {"verify", "verifyOtp"}, NEW e \in Emails,
           VerifyBegin(j, step, e)
    PROVE  Kept
<1>1. PICK r \in Found(e) :
        job' = [job EXCEPT ![j] = [Idle EXCEPT !.pc = step, !.row = r, !.email = e,
                                               !.guest = row[r].guest]]
  BY DEF VerifyBegin, Start
<1>2. PICK g \in BOOLEAN : g = row[r].guest
  BY RowTyped DEF IInv, Row, Found
<1> DEFINE b == [Idle EXCEPT !.pc = step, !.row = r, !.email = e, !.guest = g]
<1>3. row' = row /\ proved' = proved \cup {e} /\ r \in Rows /\ Used(r)
  BY DEF VerifyBegin, Found, Live, Used
<1>4. b \in Job /\ Sound(b)' /\ b.pc \notin {"register", "convert"}
  BY <1>3, IdleSound DEF Idle, Job, Steps, Sound, WithEmail, WithRow, Used
<1>5. proved' \in SUBSET Emails /\ proved \subseteq proved'
  BY <1>3 DEF IInv, Base, TypeOK
<1> HIDE DEF b
<1> QED
  BY <1>1, <1>2, <1>4, <1>5, ReadLemma DEF VerifyBegin, b

\* A request has read a live row and will issue a token for it.
LEMMA TokenStartLemma ==
    ASSUME IInv, NEW j \in Jobs, NEW r \in Rows, Live(r),
           Start(j, [Idle EXCEPT !.pc = "token", !.row = r, !.guest = row[r].guest]),
           UNCHANGED <<row, tokens, resetTokens, mailed, issued, otps>>,
           proved' \in SUBSET Emails, proved \subseteq proved'
    PROVE  Kept
<1>1. PICK g \in BOOLEAN : g = row[r].guest
  BY RowTyped DEF IInv, Row
<1> DEFINE b == [Idle EXCEPT !.pc = "token", !.row = r, !.guest = g]
<1>2. b \in Job /\ Sound(b)' /\ b.pc \notin {"register", "convert"}
  BY IdleSound DEF Idle, Job, Steps, Sound, WithEmail, WithRow, Used, Live
<1>3. job' = [job EXCEPT ![j] = b]
  BY <1>1 DEF Start
<1> HIDE DEF b
<1> QED
  BY <1>2, <1>3, ReadLemma

\* resendOtp and forgotPassword look an address up.
LEMMA MailStartLemma ==
    ASSUME IInv, NEW j \in Jobs, NEW e \in Emails, ResendBegin(j, e) \/ ForgotBegin(j, e)
    PROVE  Kept
<1>1. PICK pc \in {"delete", "resend", "block", "forgot"} :
        job' = [job EXCEPT ![j] = [Idle EXCEPT !.email = e, !.pc = pc]]
  BY DEF ResendBegin, ForgotBegin, Start
<1> DEFINE b == [Idle EXCEPT !.email = e, !.pc = pc]
<1>2. b \in Job /\ Sound(b)' /\ b.pc \notin {"register", "convert"}
  BY IdleSound DEF Idle, Job, Steps, Sound, WithEmail, WithRow
<1>3. UNCHANGED <<row, clients>>
  BY DEF ResendBegin, ForgotBegin
<1> HIDE DEF b
<1> QED
  BY <1>1, <1>2, <1>3, ReadLemma DEF clients, b, IInv, Base, TypeOK

\* A log-in, or a refresh, reads a live row.
LEMMA LoginStartLemma ==
    ASSUME IInv, NEW j \in Jobs,
           \/ \E e \in Emails : LoginBegin(j, e)
           \/ \E t \in 1..MaxTokens : RefreshBegin(j, t)
    PROVE  Kept
<1>1. UNCHANGED <<row, clients>> /\ proved' \in SUBSET Emails /\ proved \subseteq proved'
  BY DEF LoginBegin, RefreshBegin, clients, IInv, Base, TypeOK
<1>2. PICK r \in Rows :
        /\ Live(r)
        /\ Start(j, [Idle EXCEPT !.pc = "token", !.row = r, !.guest = row[r].guest])
  <2>1. ASSUME NEW e \in Emails, LoginBegin(j, e)
        PROVE  \E r \in Rows :
                 /\ Live(r)
                 /\ Start(j, [Idle EXCEPT !.pc = "token", !.row = r, !.guest = row[r].guest])
    BY <2>1 DEF LoginBegin, Found
  <2>2. ASSUME NEW t \in 1..MaxTokens, RefreshBegin(j, t)
        PROVE  \E r \in Rows :
                 /\ Live(r)
                 /\ Start(j, [Idle EXCEPT !.pc = "token", !.row = r, !.guest = row[r].guest])
    BY <2>2 DEF RefreshBegin, IInv, Base, TokensInv
  <2> QED
    BY <2>1, <2>2
<1> QED
  BY <1>1, <1>2, TokenStartLemma DEF clients

\* guestLogin restores a guest or is about to make one.
LEMMA GuestBeginLemma ==
    ASSUME IInv, NEW j \in Jobs, NEW d \in Devices, GuestBegin(j, d)
    PROVE  Kept
<1>1. UNCHANGED <<row, clients>> /\ proved' \in SUBSET Emails /\ proved \subseteq proved'
  BY DEF GuestBegin, clients, IInv, Base, TypeOK
<1>2. ASSUME NEW r \in Rows, Live(r), row[r].guest,
             Start(j, [Idle EXCEPT !.pc = "token", !.row = r, !.guest = TRUE])
      PROVE  Kept
  <2>1. row[r].guest = TRUE
    BY <1>2, RowTyped DEF IInv, Row
  <2> QED
    BY <1>1, <1>2, <2>1, TokenStartLemma DEF clients
<1>3. ASSUME Start(j, [Idle EXCEPT !.pc = "guest", !.device = d])
      PROVE  Kept
  <2> DEFINE b == [Idle EXCEPT !.pc = "guest", !.device = d]
  <2>1. b \in Job /\ Sound(b)' /\ b.pc \notin {"register", "convert"}
    BY IdleSound DEF Idle, Job, Steps, Sound, WithEmail, WithRow
  <2>2. job' = [job EXCEPT ![j] = b]
    BY <1>3 DEF Start
  <2> HIDE DEF b
  <2> QED
    BY <1>1, <2>1, <2>2, ReadLemma DEF clients
<1> QED
  BY <1>2, <1>3 DEF GuestBegin

-----------------------------------------------------------------------------
(* The writes of handlers that convert nothing.                             *)

\* A harmless edit by a request that ends with it and may mail, issue a token or
\* give its owner a reset token.
LEMMA EndLemma ==
    ASSUME IInv, NEW j \in Jobs, Finish(j), row' \in [Rows -> Row], Harmless,
           tokens' \in [1..MaxTokens -> [row: Rows \cup {None}, guest: BOOLEAN]],
           issued' \in 0..MaxTokens, TokensInv',
           \A t \in 1..issued : t \in 1..issued' /\ tokens'[t] = tokens[t],
           resetTokens' \in SUBSET Rows, mailed' \in SUBSET (Emails \X (1..MaxOtps)),
           otps' \in 0..MaxOtps, proved' = proved
    PROVE  Kept
<1>1. Grows
  BY HarmlessGrows
<1>2. JobsInv' /\ job' \in [Jobs -> Job]
  BY <1>1, FinishStep DEF IInv
<1>3. TypeOK'
  BY <1>2 DEF IInv, Base, TypeOK
<1>4. \A i \in Jobs : job'[i] = job[i] \/ ~IsConverting(i)'
  BY DEF Finish, Idle, IInv, Base, TypeOK, IsConverting
<1> QED
  BY <1>2, <1>3, <1>4, HarmlessStep

\* The new OTP goes into the row, and then to its mailbox.
LEMMA OtpWriteLemma ==
    ASSUME IInv, NEW j \in Jobs, OtpWrite(j)
    PROVE  Kept
<1>1. PICK n \in 0..MaxOtps : n = NewOtp /\ otps' = n /\ n # 0
  BY Parameters DEF OtpWrite, FreshOtp, NewOtp, IInv, Base, TypeOK
<1>2. PICK old \in Job : old = job[j] /\ Sound(old) /\ old.pc \in {"resend", "forgot"}
  BY DEF OtpWrite, At, IInv, Base, TypeOK, JobsInv
<1> DEFINE b == [old EXCEPT !.pc = "mail", !.otp = n]
<1>3. PICK r \in Rows :
        /\ row[r].attempts < MaxAttempts
        /\ Edit(r, [row[r] EXCEPT !.otp = NewOtp, !.attempts = @ + 1,
                                  !.reset = @ \/ At(j, "forgot"),
                                  !.blocked = IF At(j, "forgot") THEN "no" ELSE @])
  BY DEF OtpWrite, Found
<1> DEFINE forgot == At(j, "forgot")
<1>4. PICK a \in 0..MaxAttempts : a = row[r].attempts + 1
  BY <1>3, RowTyped, Parameters DEF IInv, Row
<1>5. row[r] \in Row /\ 0 \in 0..MaxTokens /\ forgot \in BOOLEAN
  BY RowTyped, Parameters DEF IInv, At
<1>6. PICK f \in BOOLEAN : f = (row[r].reset \/ forgot)
  BY <1>5, Zenon
<1>7. PICK u \in {"no", "minutes", "forever"} : u = IF forgot THEN "no" ELSE row[r].blocked
  BY <1>5 DEF Row
<1> DEFINE new == [row[r] EXCEPT !.otp = n, !.attempts = a, !.reset = f, !.blocked = u]
<1>8. new \in Row /\ row[r] \in Row
  BY <1>5, AttemptEdits
<1>9. HarmlessEdit(row[r], new)
  BY <1>8 DEF HarmlessEdit, Row
<1>10. Harmless /\ row' \in [Rows -> Row]
  <2>1. [row[r] EXCEPT !.otp = NewOtp, !.attempts = @ + 1, !.reset = @ \/ At(j, "forgot"),
                       !.blocked = IF At(j, "forgot") THEN "no" ELSE @] = new
    BY <1>1, <1>4, <1>6, <1>7
  <2> HIDE DEF new
  <2> QED
    BY <1>3, <1>8, <1>9, <2>1, EditStep DEF IInv
<1>11. Grows /\ proved' = proved
  BY <1>10, HarmlessGrows DEF OtpWrite
<1>12. b \in Job
  BY <1>1 DEF Job, Steps
<1>13. Sound(b)'
  BY <1>1, <1>2, <1>11, SoundStable DEF Sound, WithEmail, WithRow
<1>14. job' = [job EXCEPT ![j] = b]
  BY <1>1, <1>2 DEF OtpWrite
<1>15. b.pc \notin {"register", "convert"}
  BY DEF Job
<1>16. /\ UNCHANGED <<tokens, resetTokens, mailed, issued>>
       /\ otps' \in 0..MaxOtps /\ proved' \in SUBSET Emails /\ proved \subseteq proved'
  BY <1>1, <1>11, Parameters DEF OtpWrite, IInv, Base, TypeOK
<1> HIDE DEF b
<1> QED
  BY <1>10, <1>12, <1>13, <1>14, <1>15, <1>16, StartLemma

\* The mail goes out.
LEMMA OtpMailLemma ==
    ASSUME IInv, NEW j \in Jobs, OtpMail(j)
    PROVE  Kept
<1>1. Harmless /\ row' \in [Rows -> Row]
  BY NoEdit DEF OtpMail, IInv
<1>2. PICK old \in Job : old = job[j] /\ Sound(old) /\ old.pc = "mail"
  BY DEF OtpMail, At, IInv, Base, TypeOK, JobsInv
<1>3. old.email \in Emails /\ old.otp \in 1..MaxOtps
  BY <1>2, Parameters DEF Sound, WithEmail, Job
<1>4. mailed' \in SUBSET (Emails \X (1..MaxOtps))
  BY <1>2, <1>3 DEF OtpMail, IInv, Base, TypeOK
<1>5. UNCHANGED <<tokens, resetTokens, proved, otps, issued>> /\ Finish(j)
  BY DEF OtpMail
<1>6. TokensInv'
  BY <1>1, <1>5, HarmlessGrows, TokensKept DEF IInv
<1> QED
  BY <1>1, <1>4, <1>5, <1>6, EndLemma DEF IInv, Base, TypeOK

\* verifyOtp clears the OTP and hands out a reset token.
LEMMA VerifyOtpWriteLemma ==
    ASSUME IInv, NEW j \in Jobs, VerifyOtpWrite(j)
    PROVE  Kept
<1>1. PICK r \in Rows : r = job[j].row
  BY DEF VerifyOtpWrite, At, IInv, Base, JobsInv, Sound, WithRow
<1> DEFINE n == [row[r] EXCEPT !.otp = 0, !.attempts = 0]
<1>2. row[r] \in Row /\ 0 \in 0..MaxAttempts /\ 0 \in 0..MaxOtps /\ 0 \in 0..MaxTokens
  BY RowTyped, Parameters DEF IInv
<1>3. n \in Row
  BY <1>2, AttemptEdits
<1>4. HarmlessEdit(row[r], n)
  BY <1>2 DEF Row, HarmlessEdit
<1>5. Harmless /\ row' \in [Rows -> Row]
  BY <1>1, <1>3, <1>4, EditStep DEF VerifyOtpWrite, IInv
<1>6. UNCHANGED <<tokens, mailed, proved, otps, issued>> /\ Finish(j)
      /\ resetTokens' \in SUBSET Rows
  BY <1>1 DEF VerifyOtpWrite, IInv, Base, TypeOK
<1>7. TokensInv'
  BY <1>5, <1>6, HarmlessGrows, TokensKept DEF IInv
<1> QED
  BY <1>5, <1>6, <1>7, EndLemma DEF IInv, Base, TypeOK

\* A request ends by issuing a token for the row r it read, editing some row.
LEMMA IssueLemma ==
    ASSUME IInv, NEW j \in Jobs, NEW r \in Rows, NEW g \in BOOLEAN, Used(r), Issue(r, g),
           Finish(j), Harmless, row' \in [Rows -> Row],
           UNCHANGED <<resetTokens, mailed, proved, otps>>
    PROVE  Kept
<1>1. Grows
  BY HarmlessGrows
<1>2. \A t \in 1..issued : t \in 1..issued'
  BY Parameters DEF Issue, IInv, Base, TypeOK
<1> QED
  BY <1>1, <1>2, IssueStep, EndLemma DEF IInv, Base, TypeOK

\* The number of the next token.
LEMMA NextToken ==
    ASSUME Base, NEW r, NEW g, Issue(r, g)
    PROVE  issued + 1 \in 0..MaxTokens
  BY Parameters DEF Issue, Base, TypeOK

\* The token's hash goes into the row the request has read.
LEMMA SaveTokenLemma ==
    ASSUME IInv, NEW j \in Jobs, SaveToken(j)
    PROVE  Kept
<1>1. PICK r \in Rows, g \in BOOLEAN : r = job[j].row /\ g = job[j].guest /\ Used(r)
  BY DEF SaveToken, At, IInv, Base, TypeOK, Job, JobsInv, Sound, WithRow, Live, Used
<1>2. PICK t \in 0..MaxTokens : t = issued + 1
  BY NextToken DEF SaveToken, IInv
<1> DEFINE n == [row[r] EXCEPT !.refresh = t]
<1>3. n \in Row /\ HarmlessEdit(row[r], n)
  BY RowTyped DEF IInv, Row, HarmlessEdit
<1>4. Harmless /\ row' \in [Rows -> Row]
  BY <1>1, <1>2, <1>3, EditStep DEF SaveToken, IInv
<1> QED
  BY <1>1, <1>4, IssueLemma DEF SaveToken

\* verifyAccount marks the row its address has by now; that address is proved.
LEMMA VerifyAccountWriteLemma ==
    ASSUME IInv, NEW j \in Jobs, VerifyAccountWrite(j)
    PROVE  Kept
<1>1. PICK r \in Rows, g \in BOOLEAN, e \in proved :
        r = job[j].row /\ g = job[j].guest /\ e = job[j].email /\ Used(r)
  <2>1. job[j] \in Job /\ Sound(job[j]) /\ job[j].pc = "verify"
    BY DEF VerifyAccountWrite, At, IInv, Base, TypeOK, JobsInv
  <2>2. job[j].row \in Rows /\ job[j].guest \in BOOLEAN /\ job[j].email \in proved
    BY <2>1 DEF Sound, WithRow, Job
  <2>3. Used(job[j].row)
    BY <2>1, <2>2, NoneIsNoValue DEF Sound
  <2> QED
    BY <2>2, <2>3
<1>2. PICK t \in 0..MaxTokens : t = issued + 1
  BY NextToken DEF VerifyAccountWrite, IInv
<1>3. PICK s \in Found(e) : Edit(s, [row[s] EXCEPT !.verified = TRUE, !.otp = 0, !.attempts = 0,
                                                   !.refresh = issued + 1])
  BY <1>1 DEF VerifyAccountWrite
<1> DEFINE n == [row[s] EXCEPT !.verified = TRUE, !.otp = 0, !.attempts = 0, !.refresh = t]
<1>4. s \in Rows /\ row[s].email \in proved
  BY DEF Found
<1>5. row[s] \in Row /\ 0 \in 0..MaxAttempts /\ 0 \in 0..MaxOtps /\ TRUE \in BOOLEAN
  BY <1>4, RowTyped, Parameters DEF IInv
<1>6. n \in Row
  BY <1>5, AttemptEdits
<1>7. HarmlessEdit(row[s], n)
  BY <1>4, <1>5 DEF Row, HarmlessEdit
<1>8. Harmless /\ row' \in [Rows -> Row]
  BY <1>2, <1>3, <1>4, <1>6, <1>7, EditStep DEF IInv
<1> QED
  BY <1>1, <1>8, IssueLemma DEF VerifyAccountWrite

-----------------------------------------------------------------------------
(* Conversions and new rows.                                                *)

\* The row g, which a conversion in flight has read, gets an address and stops
\* being a guest.  It had no address, and no other conversion is about it.
LEMMA ConvertStep ==
    ASSUME IInv, NEW j \in Jobs, NEW g \in Rows, NEW n \in Row,
           Live(g), IsConverting(j), job[j].row = g, Edit(g, n),
           n.state = "live", ~n.guest, n.verified => row[g].verified \/ n.email \in proved,
           ~IsConverting(j)', \A i \in Jobs : i # j => job'[i] = job[i],
           TypeOK', JobsInv', TokensInv', proved' = proved,
           \A t \in 1..issued : t \in 1..issued' /\ tokens'[t] = tokens[t]
    PROVE  Kept
<1>1. row'[g] = n /\ \A r \in Rows : r # g => row'[r] = row[r]
  BY DEF Edit, IInv, Base, TypeOK
<1>2. RefusedStep
  <2> SUFFICES ASSUME NEW t \in 1..issued, Accepted(t)'
               PROVE  Accepted(t)
    BY DEF RefusedStep
  <2>1. tokens'[t] = tokens[t] /\ tokens[t].row \in Rows
    BY DEF IInv, Base, TokensInv
  <2>2. tokens[t].guest => tokens[t].row # g
    BY <1>1, <2>1 DEF Accepted
  <2> QED
    BY <1>1, <2>1, <2>2 DEF Accepted, Live
<1>3. ASSUME ~Overlapping
      PROVE  Conv' /\ EmailStep
  <2>1. Conv
    BY <1>3 DEF IInv
  <2>2. row[g].email = None
    BY <2>1 DEF Conv, ConvertInv
  <2>3. EmailStep
    BY <1>1, <2>2 DEF EmailStep
  <2>4. ~row[g].verified
    BY <2>1, <2>2, NoneIsNoValue DEF Conv, VerifiedEmailProved, IInv, Base, TypeOK
  <2>5. GuestsInv'
    BY <1>1, <2>1 DEF Conv, GuestsInv, Live
  <2>6. VerifiedEmailProved'
    BY <1>1, <2>1, <2>4 DEF Conv, VerifiedEmailProved, Live
  <2>7. ASSUME NEW i \in Jobs, IsConverting(i)'
        PROVE  i # j /\ job'[i] = job[i] /\ IsConverting(i) /\ job[i].row # g
    BY <2>1, <2>7 DEF IsConverting, Conv, ApartInv
  <2>8. ApartInv'
    BY <2>1, <2>7 DEF Conv, ApartInv
  <2>9. ASSUME NEW i \in Jobs, IsConverting(i)', Live(job[i].row)'
        PROVE  row'[job[i].row].email = None
    <3>1. job[i].row \in Rows /\ row'[job[i].row] = row[job[i].row]
      BY <1>1, <2>7, <2>9 DEF IsConverting, IInv, Base, TypeOK, Job
    <3> QED
      BY <2>1, <2>7, <2>9, <3>1 DEF Conv, ConvertInv, Live
  <2>10. ConvertInv'
    <3> SUFFICES ASSUME NEW i \in Jobs, IsConverting(i)', Live(job[i].row)'
                 PROVE  (row[job[i].row].email)' = None
      BY DEF ConvertInv
    <3> QED
      BY <2>7, <2>9
  <2> QED
    BY <2>3, <2>5, <2>6, <2>8, <2>10 DEF Conv
<1> QED
  BY <1>2, <1>3 DEF Kept

\* A new row: nobody has read it, and no token names it.
LEMMA CreateStep ==
    ASSUME IInv, NEW r \in Rows, ~Used(r), NEW n \in Row, Edit(r, n),
           n.guest => n.email = None, n.verified => n.email \in proved,
           \A j \in Jobs : job'[j] = job[j] \/ ~IsConverting(j)',
           TypeOK', JobsInv', TokensInv', proved' = proved,
           \A t \in 1..issued : t \in 1..issued' /\ tokens'[t] = tokens[t]
    PROVE  Kept
<1>1. row'[r] = n /\ \A s \in Rows : s # r => row'[s] = row[s]
  BY DEF Edit, IInv, Base, TypeOK
<1>2. RefusedStep
  <2> SUFFICES ASSUME NEW t \in 1..issued, Accepted(t)'
               PROVE  Accepted(t)
    BY DEF RefusedStep
  <2>1. tokens'[t] = tokens[t] /\ tokens[t].row \in Rows /\ tokens[t].row # r
    BY DEF IInv, Base, TokensInv
  <2> QED
    BY <1>1, <2>1 DEF Accepted, Live
<1>3. ASSUME ~Overlapping
      PROVE  Conv' /\ EmailStep
  <2>1. Conv
    BY <1>3 DEF IInv
  <2>2. EmailStep
    BY <1>1 DEF EmailStep, Live, Used
  <2>3. GuestsInv'
    BY <1>1, <2>1 DEF Conv, GuestsInv, Live
  <2>4. VerifiedEmailProved'
    BY <1>1, <2>1 DEF Conv, VerifiedEmailProved, Live
  <2>5. ASSUME NEW i \in Jobs, IsConverting(i)'
        PROVE  job'[i] = job[i] /\ IsConverting(i) /\ job[i].row # r
    BY <2>5 DEF IsConverting, IInv, Base, JobsInv, Sound
  <2>6. ApartInv'
    BY <2>1, <2>5 DEF Conv, ApartInv
  <2>7. ASSUME NEW i \in Jobs, IsConverting(i)', Live(job[i].row)'
        PROVE  row'[job[i].row].email = None
    <3>1. job[i].row \in Rows /\ row'[job[i].row] = row[job[i].row]
      BY <1>1, <2>5, <2>7 DEF IsConverting, IInv, Base, TypeOK, Job
    <3> QED
      BY <2>1, <2>5, <2>7, <3>1 DEF Conv, ConvertInv, Live
  <2>8. ConvertInv'
    <3> SUFFICES ASSUME NEW i \in Jobs, IsConverting(i)', Live(job[i].row)'
                 PROVE  (row[job[i].row].email)' = None
      BY DEF ConvertInv
    <3> QED
      BY <2>5, <2>7
  <2> QED
    BY <2>2, <2>3, <2>4, <2>6, <2>8 DEF Conv
<1> QED
  BY <1>2, <1>3 DEF Kept

\* A request starts a conversion of a guest nobody else is converting.
LEMMA ConvertBegin ==
    ASSUME IInv, NEW j \in Jobs, NEW e \in Emails, NEW g \in Rows,
           NEW pc \in {"register", "convert"},
           Convertible(g), Overlapping \/ NoneConverting(g),
           Start(j, [Idle EXCEPT !.pc = pc, !.row = g, !.email = e]),
           UNCHANGED <<row, tokens, resetTokens, mailed, otps, issued>>,
           proved' \in SUBSET Emails, proved \subseteq proved', pc = "convert" => e \in proved'
    PROVE  Kept
<1> DEFINE b == [Idle EXCEPT !.pc = pc, !.row = g, !.email = e]
<1>1. job' = [job EXCEPT ![j] = b]
  BY DEF Start
<1>2. b \in Job /\ b.row = g /\ b.pc = pc
  BY IdleSound DEF Idle, Job, Steps
<1>3. Sound(b)'
  BY DEF Sound, WithEmail, WithRow, Idle, Used, Convertible, Live
<1> HIDE DEF b
<1>4. Harmless /\ Grows
  BY NoEdit, HarmlessGrows DEF IInv
<1>5. JobsInv' /\ job' \in [Jobs -> Job]
  BY <1>1, <1>2, <1>3, <1>4, JobStep DEF IInv
<1>6. TokensInv'
  BY <1>4, TokensKept DEF IInv
<1>7. TypeOK'
  BY <1>5 DEF IInv, Base, TypeOK
<1>8. RefusedStep
  BY <1>4, HarmlessRefused DEF IInv
<1>9. EmailStep
  BY DEF EmailStep
<1>10. ASSUME ~Overlapping
       PROVE  Conv'
  <2>1. Conv /\ NoneConverting(g)
    BY <1>10 DEF IInv
  <2>2. job'[j] = b /\ \A i \in Jobs : i # j => job'[i] = job[i]
    BY <1>1 DEF IInv, Base, TypeOK
  <2>3. row[g].email = None
    BY <2>1 DEF Conv, GuestsInv, Convertible
  <2>4. GuestsInv' /\ VerifiedEmailProved'
    BY <2>1 DEF Conv, GuestsInv, VerifiedEmailProved, Live
  <2>5. ConvertInv'
    BY <1>2, <2>1, <2>2, <2>3 DEF Conv, ConvertInv, IsConverting, Live
  <2>6. ApartInv'
    BY <1>2, <2>1, <2>2 DEF Conv, ApartInv, IsConverting, NoneConverting
  <2> QED
    BY <2>4, <2>5, <2>6 DEF Conv
<1> QED
  BY <1>5, <1>6, <1>7, <1>8, <1>9, <1>10 DEF Kept

\* register starts, for a guest or for nobody.
LEMMA RegisterBeginLemma ==
    ASSUME IInv, NEW j \in Jobs, NEW e \in Emails, NEW g \in Rows \cup {None},
           RegisterBegin(j, e, g)
    PROVE  Kept
<1>1. /\ UNCHANGED <<row, tokens, resetTokens, mailed, otps, issued>>
      /\ proved' \in SUBSET Emails /\ proved \subseteq proved'
  BY DEF RegisterBegin, clients, IInv, Base, TypeOK
<1>2. CASE g = None
  <2> DEFINE b == [Idle EXCEPT !.pc = "register", !.row = g, !.email = e]
  <2>1. b \in Job /\ Sound(b)' /\ b.row = None
    BY <1>2, IdleSound DEF Idle, Job, Steps, Sound, WithEmail, WithRow
  <2>2. job' = [job EXCEPT ![j] = b]
    BY DEF RegisterBegin, Start
  <2> HIDE DEF b
  <2> QED
    BY <1>1, <2>1, <2>2, ReadLemma
<1>3. CASE g # None
  BY <1>1, <1>3, ConvertBegin DEF RegisterBegin
<1> QED
  BY <1>2, <1>3

\* googleLogin starts: a conversion, a new account or a log-in.
LEMMA GoogleBeginLemma ==
    ASSUME IInv, NEW j \in Jobs, NEW e \in Emails, NEW g \in Rows \cup {None},
           GoogleBegin(j, e, g)
    PROVE  Kept
<1>1. /\ UNCHANGED <<row, tokens, resetTokens, mailed, otps, issued>>
      /\ proved' \in SUBSET Emails /\ proved \subseteq proved' /\ e \in proved'
  BY DEF GoogleBegin, IInv, Base, TypeOK
<1>2. ASSUME g # None, Convertible(g), Overlapping \/ NoneConverting(g),
             Start(j, [Idle EXCEPT !.pc = "convert", !.row = g, !.email = e])
      PROVE  Kept
  BY <1>1, <1>2, ConvertBegin
<1>3. ASSUME Start(j, [Idle EXCEPT !.pc = "create", !.email = e])
      PROVE  Kept
  <2> DEFINE b == [Idle EXCEPT !.pc = "create", !.email = e]
  <2>1. b \in Job /\ Sound(b)' /\ b.pc \notin {"register", "convert"}
    BY <1>1, IdleSound DEF Idle, Job, Steps, Sound, WithEmail, WithRow
  <2>2. job' = [job EXCEPT ![j] = b]
    BY <1>3 DEF Start
  <2> HIDE DEF b
  <2> QED
    BY <1>1, <2>1, <2>2, ReadLemma
<1>4. ASSUME NEW r \in Found(e),
             Start(j, [Idle EXCEPT !.pc = "token", !.row = r, !.guest = row[r].guest])
      PROVE  Kept
  BY <1>1, <1>4, TokenStartLemma DEF Found
<1> QED
  BY <1>2, <1>3, <1>4 DEF GoogleBegin

\* The rows that conversion and creation write.
LEMMA NewRows ==
    ASSUME NEW a \in Row, NEW e \in Emails, NEW d \in Devices \cup {None},
           NEW o \in 0..MaxOtps, NEW n \in 0..MaxAttempts
    PROVE  LET conv == [a EXCEPT !.email = e, !.guest = FALSE, !.device = None,
                                 !.expired = FALSE]
           IN  /\ [conv EXCEPT !.otp = o, !.attempts = n] \in Row
               /\ [conv EXCEPT !.verified = TRUE] \in Row
               /\ [a EXCEPT !.state = "live", !.email = e, !.otp = o] \in Row
               /\ [a EXCEPT !.state = "live", !.email = e, !.verified = TRUE] \in Row
               /\ [a EXCEPT !.state = "live", !.guest = TRUE, !.device = d] \in Row
  BY DEF Row

\* A row nobody has written.
LEMMA UnusedTyped == Unused \in Row
<1>1. 0 \in 0..MaxOtps /\ 0 \in 0..MaxAttempts /\ 0 \in 0..MaxTokens
  BY Parameters
<1> QED
  BY <1>1 DEF Unused, Row

\* register commits: a converted guest, a new account, or nothing.
LEMMA RegisterCommitLemma ==
    ASSUME IInv, NEW j \in Jobs, RegisterCommit(j)
    PROVE  Kept
<1> DEFINE e == job[j].email
           g == job[j].row
<1>1. PICK o \in 1..MaxOtps : o = NewOtp /\ otps' = o
  BY Parameters DEF RegisterCommit, FreshOtp, NewOtp, IInv, Base, TypeOK
<1>2. job[j] \in Job /\ Sound(job[j]) /\ job[j].pc = "register"
  BY DEF RegisterCommit, At, IInv, Base, TypeOK, JobsInv
<1>3. e \in Emails /\ g \in Rows \cup {None}
  BY <1>2 DEF Sound, WithEmail, Job
<1>4. mailed' \in SUBSET (Emails \X (1..MaxOtps))
  BY <1>1, <1>3 DEF RegisterCommit, IInv, Base, TypeOK
<1>5. UNCHANGED <<tokens, resetTokens, proved, issued>> /\ Finish(j)
  BY DEF RegisterCommit
<1>6. job'[j] = Idle /\ \A i \in Jobs : i # j => job'[i] = job[i]
  BY <1>5 DEF Finish, IInv, Base, TypeOK
<1>7. ~IsConverting(j)'
  BY <1>6 DEF IsConverting, Idle
<1>8. ASSUME Grows, row' \in [Rows -> Row]
      PROVE  TypeOK' /\ JobsInv' /\ TokensInv'
  <2>1. JobsInv' /\ job' \in [Jobs -> Job] /\ TokensInv'
    BY <1>5, <1>8, FinishStep, TokensKept DEF IInv
  <2> QED
    BY <1>1, <1>4, <1>5, <1>8, <2>1, Parameters DEF IInv, Base, TypeOK
<1>9. ASSUME g # None, Live(g),
             Edit(g, [Converted(g, e) EXCEPT !.otp = NewOtp, !.attempts = 0])
      PROVE  Kept
  <2> DEFINE n == [Converted(g, e) EXCEPT !.otp = o, !.attempts = 0]
  <2>1. g \in Rows /\ row[g] \in Row /\ row \in [Rows -> Row]
    BY <1>3, <1>9, RowTyped DEF IInv, Base, TypeOK
  <2>2. n \in Row
    <3>1. 0 \in 0..MaxAttempts /\ o \in 0..MaxOtps /\ None \in Devices \cup {None}
      BY Parameters
    <3> QED
      BY <1>3, <2>1, <3>1, NewRows DEF Converted
  <2>3. n.state = "live" /\ ~n.guest /\ n.verified = row[g].verified
    BY <1>9, <2>1 DEF Converted, Row, Live
  <2>4. Edit(g, n)
    BY <1>1, <1>9
  <2> HIDE DEF n
  <2>5. row' \in [Rows -> Row] /\ Grows
    BY <1>5, <2>1, <2>2, <2>3, <2>4 DEF Edit, Grows, Used
  <2>6. IsConverting(j)
    BY <1>2, <1>9 DEF IsConverting
  <2> QED
    BY <1>5, <1>6, <1>7, <1>8, <1>9, <2>1, <2>2, <2>3, <2>4, <2>5, <2>6, ConvertStep
<1>10. ASSUME NEW r \in Rows, row[r].state = "unused",
              Edit(r, [Unused EXCEPT !.state = "live", !.email = e, !.otp = NewOtp])
       PROVE  Kept
  <2> DEFINE n == [Unused EXCEPT !.state = "live", !.email = e, !.otp = o]
  <2>1. n \in Row
    <3>1. 0 \in 0..MaxAttempts /\ o \in 0..MaxOtps /\ None \in Devices \cup {None}
      BY Parameters
    <3> QED
      BY <1>3, <3>1, NewRows, UnusedTyped
  <2>2. n.state = "live" /\ ~n.guest /\ ~n.verified
    BY DEF Unused
  <2>3. Edit(r, n)
    BY <1>1, <1>10
  <2> HIDE DEF n
  <2>4. row' \in [Rows -> Row] /\ Grows
    BY <1>5, <2>1, <2>2, <2>3 DEF Edit, Grows, Used, IInv, Base, TypeOK
  <2> QED
    BY <1>5, <1>6, <1>7, <1>8, <1>10, <2>1, <2>2, <2>3, <2>4, CreateStep DEF Used
<1>11. ASSUME UNCHANGED row
       PROVE  Kept
  <2>1. Harmless /\ row' \in [Rows -> Row] /\ Grows
    BY <1>5, <1>11, NoEdit, HarmlessGrows DEF IInv
  <2> QED
    BY <1>5, <1>6, <1>7, <1>8, <2>1, HarmlessStep
<1> QED
  BY <1>9, <1>10, <1>11 DEF RegisterCommit

\* The job goes on to issue a token for the row r.
LEMMA ToToken ==
    ASSUME Base, Grows, NEW j \in Jobs, NEW r \in Rows, NEW g \in BOOLEAN,
           job' = [job EXCEPT ![j] = [Idle EXCEPT !.pc = "token", !.row = r, !.guest = g]],
           row'[r].state # "unused"
    PROVE  /\ JobsInv' /\ job' \in [Jobs -> Job]
           /\ ~IsConverting(j)' /\ \A i \in Jobs : i # j => job'[i] = job[i]
<1> DEFINE b == [Idle EXCEPT !.pc = "token", !.row = r, !.guest = g]
<1>1. b \in Job /\ Sound(b)' /\ b.pc = "token"
  BY IdleSound DEF Idle, Job, Steps, Sound, WithEmail, WithRow, Used
<1> HIDE DEF b
<1>2. job' = [job EXCEPT ![j] = b]
  BY DEF b
<1>3. job'[j] = b /\ \A i \in Jobs : i # j => job'[i] = job[i]
  BY <1>2 DEF Base, TypeOK
<1> QED
  BY <1>1, <1>2, <1>3, JobStep DEF IsConverting

\* guestLogin makes a guest, without an address.
LEMMA GuestCreateLemma ==
    ASSUME IInv, NEW j \in Jobs, GuestCreate(j)
    PROVE  Kept
<1>1. PICK r \in Rows :
        /\ row[r].state = "unused"
        /\ Edit(r, [Unused EXCEPT !.state = "live", !.guest = TRUE, !.device = job[j].device])
        /\ job' = [job EXCEPT ![j] = [Idle EXCEPT !.pc = "token", !.row = r, !.guest = TRUE]]
  BY DEF GuestCreate
<1>2. PICK d \in Devices \cup {None} : d = job[j].device
  BY DEF IInv, Base, TypeOK, Job
<1> DEFINE n == [Unused EXCEPT !.state = "live", !.guest = TRUE, !.device = d]
<1>3. n \in Row
  BY UnusedTyped DEF Row
<1>4. n.state = "live" /\ n.email = None /\ ~n.verified
  BY DEF Unused
<1>5. Edit(r, n) /\ UNCHANGED clients
  BY <1>1, <1>2 DEF GuestCreate
<1> HIDE DEF n
<1>6. row' \in [Rows -> Row] /\ Grows /\ row'[r].state # "unused"
  BY <1>3, <1>4, <1>5 DEF Edit, Grows, Used, IInv, Base, TypeOK, clients
<1>7. /\ JobsInv' /\ job' \in [Jobs -> Job] /\ TokensInv'
      /\ ~IsConverting(j)' /\ \A i \in Jobs : i # j => job'[i] = job[i]
  BY <1>1, <1>5, <1>6, ToToken, TokensKept DEF IInv, clients
<1>8. TypeOK'
  BY <1>5, <1>6, <1>7 DEF IInv, Base, TypeOK, clients
<1> QED
  BY <1>1, <1>3, <1>4, <1>5, <1>7, <1>8, CreateStep DEF Used, clients

\* googleLogin makes an account for a proved address.
LEMMA GoogleCreateLemma ==
    ASSUME IInv, NEW j \in Jobs, GoogleCreate(j)
    PROVE  Kept
<1>1. PICK e \in proved : e = job[j].email /\ e \in Emails
  BY DEF GoogleCreate, At, IInv, Base, TypeOK, JobsInv, Sound
<1>2. PICK r \in Rows :
        /\ row[r].state = "unused"
        /\ Edit(r, [Unused EXCEPT !.state = "live", !.email = e, !.verified = TRUE])
        /\ job' = [job EXCEPT ![j] = [Idle EXCEPT !.pc = "token", !.row = r, !.guest = FALSE]]
  BY <1>1 DEF GoogleCreate
<1> DEFINE n == [Unused EXCEPT !.state = "live", !.email = e, !.verified = TRUE]
<1>3. n \in Row
  BY <1>1, UnusedTyped DEF Row
<1>4. n.state = "live" /\ n.email = e /\ ~n.guest
  BY DEF Unused
<1>5. Edit(r, n) /\ UNCHANGED clients
  BY <1>2 DEF GoogleCreate
<1> HIDE DEF n
<1>6. row' \in [Rows -> Row] /\ Grows /\ row'[r].state # "unused"
  BY <1>3, <1>4, <1>5 DEF Edit, Grows, Used, IInv, Base, TypeOK, clients
<1>7. /\ JobsInv' /\ job' \in [Jobs -> Job] /\ TokensInv'
      /\ ~IsConverting(j)' /\ \A i \in Jobs : i # j => job'[i] = job[i]
  BY <1>2, <1>5, <1>6, ToToken, TokensKept DEF IInv, clients
<1>8. TypeOK'
  BY <1>5, <1>6, <1>7 DEF IInv, Base, TypeOK, clients
<1> QED
  BY <1>2, <1>3, <1>4, <1>5, <1>7, <1>8, CreateStep DEF Used, clients

\* googleLogin turns the guest it has read into an account for a proved address.
LEMMA GoogleConvertLemma ==
    ASSUME IInv, NEW j \in Jobs, GoogleConvert(j)
    PROVE  Kept
<1>1. job[j] \in Job /\ Sound(job[j]) /\ job[j].pc = "convert"
  BY DEF GoogleConvert, At, IInv, Base, TypeOK, JobsInv
<1>2. PICK e \in proved : e = job[j].email /\ e \in Emails
  BY <1>1 DEF Sound, IInv, Base, TypeOK
<1>3. PICK g \in Rows : g = job[j].row
  BY <1>1 DEF Sound, WithRow
<1>4. /\ Live(g) /\ Edit(g, [Converted(g, e) EXCEPT !.verified = TRUE])
      /\ job' = [job EXCEPT ![j] = [Idle EXCEPT !.pc = "token", !.row = g, !.guest = FALSE]]
      /\ UNCHANGED clients
  BY <1>2, <1>3 DEF GoogleConvert
<1> DEFINE n == [Converted(g, e) EXCEPT !.verified = TRUE]
<1>5. row[g] \in Row /\ row \in [Rows -> Row]
  BY RowTyped DEF IInv, Base, TypeOK
<1>6. n \in Row
  BY <1>2, <1>5 DEF Row, Converted
<1>7. n.state = "live" /\ ~n.guest /\ n.email = e
  BY <1>4, <1>5 DEF Converted, Row, Live
<1> HIDE DEF n
<1>8. row' \in [Rows -> Row] /\ Grows /\ row'[g].state # "unused"
  BY <1>4, <1>5, <1>6, <1>7 DEF Edit, Grows, Used, clients, n
<1>9. /\ JobsInv' /\ job' \in [Jobs -> Job] /\ TokensInv'
       /\ ~IsConverting(j)' /\ \A i \in Jobs : i # j => job'[i] = job[i]
  BY <1>4, <1>8, ToToken, TokensKept DEF IInv, clients
<1>10. TypeOK'
  BY <1>4, <1>8, <1>9 DEF IInv, Base, TypeOK, clients
<1>11. IsConverting(j)
  BY <1>1, <1>3, NoneIsNoValue DEF IsConverting
<1> QED
  BY <1>3, <1>4, <1>6, <1>7, <1>9, <1>10, <1>11, ConvertStep DEF clients, n

-----------------------------------------------------------------------------
(* The theorems.                                                            *)

\* No row is used and no request is under way.
LEMMA InitLemma == Init => IInv
<1> SUFFICES ASSUME Init
             PROVE  IInv
  OBVIOUS
<1>1. TypeOK
  BY UnusedTyped, IdleSound, Parameters DEF Init, TypeOK
<1>2. JobsInv
  BY IdleSound DEF Init, JobsInv, Sound, Idle, WithEmail, WithRow
<1>3. TokensInv
  BY DEF Init, TokensInv
<1>4. Conv
  BY DEF Init, Conv, GuestsInv, ConvertInv, ApartInv, VerifiedEmailProved, Live, Unused,
         IsConverting, Idle
<1> QED
  BY <1>1, <1>2, <1>3, <1>4 DEF IInv, Base

\* Every step keeps the invariant, re-admits no refused token and, when no two
\* conversions of one guest overlap, changes nobody's address.
THEOREM Inductive ==
    ASSUME IInv, [Next]_vars
    PROVE  IInv' /\ RefusedStep /\ (~Overlapping => EmailStep)
<1>1. ASSUME NEW j \in Jobs, Request(j)
      PROVE  Kept
  <2>1. ASSUME NEW e \in Emails, NEW g \in Rows \cup {None},
               RegisterBegin(j, e, g) \/ GoogleBegin(j, e, g)
        PROVE  Kept
    BY <2>1, RegisterBeginLemma, GoogleBeginLemma
  <2>2. ASSUME NEW e \in Emails, NEW step \in {"verify", "verifyOtp"}, VerifyBegin(j, step, e)
        PROVE  Kept
    BY <2>2, VerifyBeginLemma
  <2>3. ASSUME NEW e \in Emails, ResendBegin(j, e) \/ ForgotBegin(j, e)
        PROVE  Kept
    BY <2>3, MailStartLemma
  <2>4. ASSUME \/ \E e \in Emails : LoginBegin(j, e)
               \/ \E t \in 1..MaxTokens : RefreshBegin(j, t)
        PROVE  Kept
    BY <2>4, LoginStartLemma
  <2>5. ASSUME NEW d \in Devices, GuestBegin(j, d)
        PROVE  Kept
    BY <2>5, GuestBeginLemma
  <2> QED
    BY <1>1, <2>1, <2>2, <2>3, <2>4, <2>5 DEF Request
<1>2. ASSUME NEW j \in Jobs, Work(j)
      PROVE  Kept
  BY <1>2, RegisterCommitLemma, VerifyAccountWriteLemma, VerifyOtpWriteLemma,
     ResendDeleteLemma, ForgotBlockLemma, OtpWriteLemma, OtpMailLemma, GuestCreateLemma,
     GoogleConvertLemma, GoogleCreateLemma, SaveTokenLemma DEF Work
<1>3. ASSUME NEW j \in Jobs, JobFails(j)
      PROVE  Kept
  BY <1>3, JobFailsLemma
<1>4. ASSUME \/ \E r \in Rows : ResetPassword(r) \/ LogOut(r) \/ GuestExpires(r) \/ BlockEnds(r)
             \/ \E e \in Emails : WrongOtp(e)
      PROVE  Kept
  BY <1>4, NobodysStepLemma
<1>5. ASSUME ExpireGuests
      PROVE  Kept
  BY <1>5, ExpireGuestsLemma
<1>6. ASSUME UNCHANGED vars
      PROVE  Kept
  BY <1>6, NoEdit, QuietStep DEF vars, clients, IInv
<1> QED
  BY <1>1, <1>2, <1>3, <1>4, <1>5, <1>6 DEF Next, Kept, IInv, Base

\* The invariant holds of every reachable state.
THEOREM Invariance == Spec => []IInv
<1>1. IInv /\ [Next]_vars => IInv'
  BY Inductive
<1> QED
  BY <1>1, InitLemma, PTL DEF Spec

\* Every row, request and token is well formed: no handler writes a column a value
\* the schema does not have.
THEOREM TypeCorrect == Spec => []TypeOK
<1>1. IInv => TypeOK
  BY DEF IInv, Base
<1> QED
  BY <1>1, Invariance, PTL

\* Unless two conversions of one guest overlap, a verified account's address was
\* proved by an OTP mailed to it or by the provider.
THEOREM VerifiedProved == ASSUME ~Overlapping PROVE Spec => []VerifiedEmailProved
<1>1. IInv => VerifiedEmailProved
  BY DEF IInv, Conv
<1> QED
  BY <1>1, Invariance, PTL

\* Unless two conversions of one guest overlap, no step changes the address of an
\* account that has one.
THEOREM AddressKept == ASSUME ~Overlapping PROVE Spec => EmailKept
<1>1. IInv /\ [Next]_vars => EmailStep
  BY Inductive
<1>2. IInv /\ [Next]_vars => [EmailStep]_vars
  BY <1>1
<1>3. EmailKept <=> [][EmailStep]_vars
  BY PTL DEF EmailKept, EmailStep
<1> QED
  BY <1>2, <1>3, Invariance, PTL DEF Spec

\* A token the guard has refused is never accepted again, whatever overlaps.
THEOREM StaysRefused == Spec => RefusedForEver
<1>1. IInv /\ [Next]_vars => [RefusedStep]_vars
  BY Inductive
<1>2. RefusedForEver <=> [][RefusedStep]_vars
  BY PTL DEF RefusedForEver, RefusedStep
<1> QED
  BY <1>1, <1>2, Invariance, PTL DEF Spec
-----------------------------------------------------------------------------
(* Whose the rows are, and which token they hold.                           *)

\* A row stays whose it was, and keeps the refresh token it had or loses it.
SameOwner(a, b)  == b.state = a.state /\ b.email = a.email /\ b.verified = a.verified
KeepsToken(a, b) == b.refresh \in {a.refresh, 0}

Plain == \A r \in Rows : SameOwner(row[r], row'[r]) /\ KeepsToken(row[r], row'[r])

\* The one new pair of a step goes to one row.
NewPair(r) ==
    /\ issued' = issued + 1 /\ row'[r].refresh = issued + 1
    /\ \A s \in Rows \ {r} : row'[s] = row[s]

\* A row becomes that of an address under which no other is found, or a new guest's.
TakesAddress(j, r) ==
    /\ job[j].pc \in {"register", "convert", "create"}
    /\ Found(job[j].email) \subseteq {r}
    /\ row'[r].state = "live" /\ row'[r].email = job[j].email
    /\ row[r].state # "deleted"
    /\ \A s \in Rows \ {r} : row'[s] = row[s]

NewGuest(r) ==
    /\ row[r].state = "unused"
    /\ row'[r].state = "live" /\ row'[r].email = None
    /\ \A s \in Rows \ {r} : row'[s] = row[s]

\* An account becomes verified, or goes.
Verifies(j, r) ==
    /\ job[j].pc = "verify" /\ r \in Found(job[j].email)
    /\ row'[r].state = "live" /\ row'[r].email = row[r].email
    /\ \A s \in Rows \ {r} : row'[s] = row[s]

Deletes(j, r) ==
    /\ job[j].pc = "delete" /\ r \in Found(job[j].email)
    /\ row'[r].state = "deleted"
    /\ \A s \in Rows \ {r} : row'[s] = row[s]

OwnersEffect ==
    \/ \A r \in Rows : SameOwner(row[r], row'[r])
    \/ \E j \in Jobs, r \in Rows : TakesAddress(j, r) \/ Verifies(j, r) \/ Deletes(j, r)
    \/ \E r \in Rows : NewGuest(r)

TokensEffect ==
    /\ issued' \in {issued, issued + 1}
    /\ \A r \in Rows : KeepsToken(row[r], row'[r]) \/ NewPair(r)

\* What a step does to the one row it writes it does to the table.
LEMMA RowEdit ==
  ASSUME IInv, NEW r \in Rows, NEW n, Edit(r, n)
  PROVE  row'[r] = n /\ \A s \in Rows \ {r} : row'[s] = row[s]
BY DEF Edit, IInv, Base, TypeOK

\* A plain edit of one row.
LEMMA PlainEdit ==
  ASSUME IInv, NEW r \in Rows, NEW n, Edit(r, n), SameOwner(row[r], n), KeepsToken(row[r], n)
  PROVE  Plain
<1>1. ASSUME NEW s \in Rows \ {r} PROVE SameOwner(row[s], row'[s]) /\ KeepsToken(row[s], row'[s])
  BY <1>1, RowEdit DEF SameOwner, KeepsToken
<1> QED
  BY <1>1, RowEdit DEF Plain

\* Nothing else happens to the rows when the number of pairs stays.
LEMMA PlainEffect ==
  ASSUME Plain, issued' = issued
  PROVE  OwnersEffect /\ TokensEffect
BY DEF Plain, OwnersEffect, TokensEffect

\* The edits that touch neither owner nor address.
LEMMA PlainSteps ==
  ASSUME IInv, NEW j \in Jobs, VerifyOtpWrite(j) \/ ForgotBlock(j) \/ OtpWrite(j)
  PROVE  Plain /\ issued' = issued
<1>1. CASE VerifyOtpWrite(j)
  <2>1. PICK r \in Rows : Edit(r, [row[r] EXCEPT !.otp = 0, !.attempts = 0])
    BY <1>1 DEF VerifyOtpWrite, IInv, Base, JobsInv, Sound, WithRow, At
  <2>2. PICK a \in Row : a = row[r]
    BY RowTyped DEF IInv
  <2> DEFINE n == [a EXCEPT !.otp = 0, !.attempts = 0]
  <2>3. SameOwner(a, n) /\ KeepsToken(a, n)
    BY DEF SameOwner, KeepsToken, Row
  <2> HIDE DEF n
  <2>4. Edit(r, n)
    BY <2>1, <2>2 DEF n
  <2> QED
    BY <1>1, <2>2, <2>3, <2>4, PlainEdit DEF VerifyOtpWrite
<1>2. CASE ForgotBlock(j)
  <2>1. PICK r \in Rows : Edit(r, [row[r] EXCEPT !.blocked = "minutes", !.attempts = 0])
    BY <1>2 DEF ForgotBlock, Found
  <2>2. PICK a \in Row : a = row[r]
    BY RowTyped DEF IInv
  <2> DEFINE n == [a EXCEPT !.blocked = "minutes", !.attempts = 0]
  <2>3. SameOwner(a, n) /\ KeepsToken(a, n)
    BY DEF SameOwner, KeepsToken, Row
  <2> HIDE DEF n
  <2>4. Edit(r, n)
    BY <2>1, <2>2 DEF n
  <2> QED
    BY <1>2, <2>2, <2>3, <2>4, PlainEdit DEF ForgotBlock, clients
<1>3. CASE OtpWrite(j)
  <2>1. PICK f \in BOOLEAN : f = At(j, "forgot")
    BY DEF At
  <2>2. PICK r \in Rows :
          Edit(r, [row[r] EXCEPT !.otp = NewOtp, !.attempts = @ + 1, !.reset = @ \/ f,
                                 !.blocked = IF f THEN "no" ELSE @])
    BY <1>3, <2>1 DEF OtpWrite, Found
  <2>3. PICK a \in Row : a = row[r]
    BY RowTyped DEF IInv
  <2>4. PICK o, m, p, b : /\ o = NewOtp /\ m = a.attempts + 1 /\ p = (a.reset \/ f)
                          /\ b = (IF f THEN "no" ELSE a.blocked)
    OBVIOUS
  <2> DEFINE n == [a EXCEPT !.otp = o, !.attempts = m, !.reset = p, !.blocked = b]
  <2>5. SameOwner(a, n) /\ KeepsToken(a, n)
    BY DEF SameOwner, KeepsToken, Row
  <2>6. Edit(r, n)
    BY <2>2, <2>3, <2>4 DEF Edit
  <2> HIDE DEF n
  <2> QED
    BY <1>3, <2>3, <2>5, <2>6, PlainEdit DEF OtpWrite
<1> QED
  BY <1>1, <1>2, <1>3

\* The edits of nobody's request, and the cron job.
LEMMA PlainTimes ==
  ASSUME IInv,
         \/ \E r \in Rows : ResetPassword(r) \/ LogOut(r) \/ GuestExpires(r) \/ BlockEnds(r)
         \/ \E e \in Emails : WrongOtp(e)
         \/ ExpireGuests
  PROVE  Plain /\ issued' = issued
<1>1. issued' = issued
  BY DEF ResetPassword, LogOut, GuestExpires, BlockEnds, WrongOtp, ExpireGuests, clients
<1>2. ASSUME NEW r \in Rows, ResetPassword(r) \/ LogOut(r) \/ GuestExpires(r) \/ BlockEnds(r)
      PROVE  Plain
  <2>1. PICK a \in Row : a = row[r]
    BY RowTyped DEF IInv
  <2>2. PICK n : Edit(r, n) /\ n \in {[a EXCEPT !.reset = FALSE, !.attempts = 0],
                                      [a EXCEPT !.refresh = 0],
                                      [a EXCEPT !.expired = TRUE],
                                      [a EXCEPT !.blocked = "no"]}
    BY <1>2, <2>1 DEF ResetPassword, LogOut, GuestExpires, BlockEnds
  <2>3. SameOwner(a, n) /\ KeepsToken(a, n)
    BY <2>2 DEF SameOwner, KeepsToken, Row
  <2> QED
    BY <2>1, <2>2, <2>3, PlainEdit
<1>3. ASSUME NEW e \in Emails, WrongOtp(e)
      PROVE  Plain
  <2>1. PICK r \in Rows : Edit(r, [row[r] EXCEPT !.attempts = @ + 1])
    BY <1>3 DEF WrongOtp, Found
  <2>2. PICK a \in Row : a = row[r]
    BY RowTyped DEF IInv
  <2>3. PICK m : m = a.attempts + 1
    OBVIOUS
  <2> DEFINE n == [a EXCEPT !.attempts = m]
  <2>4. SameOwner(a, n) /\ KeepsToken(a, n)
    BY DEF SameOwner, KeepsToken, Row
  <2>5. Edit(r, n)
    BY <2>1, <2>2, <2>3 DEF Edit
  <2> HIDE DEF n
  <2> QED
    BY <2>2, <2>4, <2>5, PlainEdit
<1>4. CASE ExpireGuests
  <2> SUFFICES ASSUME NEW r \in Rows
               PROVE  SameOwner(row[r], row'[r]) /\ KeepsToken(row[r], row'[r])
    BY <1>1 DEF Plain
  <2>1. PICK a \in Row : a = row[r]
    BY RowTyped DEF IInv
  <2>2. row'[r] = a \/ row'[r] = [a EXCEPT !.guest = FALSE, !.blocked = "forever"]
    BY <1>4, <2>1 DEF ExpireGuests, SoftBlocked
  <2> QED
    BY <2>1, <2>2 DEF SameOwner, KeepsToken, Row
<1> QED
  BY <1>1, <1>2, <1>3, <1>4
\* The two steps that hand out a pair.
LEMMA PairSteps ==
  ASSUME IInv, NEW j \in Jobs, SaveToken(j) \/ VerifyAccountWrite(j)
  PROVE  OwnersEffect /\ TokensEffect
<1>1. issued' = issued + 1
  BY DEF SaveToken, VerifyAccountWrite, Issue
<1>2. CASE SaveToken(j)
  <2>1. PICK r \in Rows : Edit(r, [row[r] EXCEPT !.refresh = issued + 1])
    BY <1>2 DEF SaveToken, IInv, Base, JobsInv, Sound, WithRow, At
  <2>2. PICK a \in Row : a = row[r]
    BY RowTyped DEF IInv
  <2> DEFINE n == [a EXCEPT !.refresh = issued + 1]
  <2>3. SameOwner(a, n) /\ n.refresh = issued + 1
    BY DEF SameOwner, Row
  <2>4. Edit(r, n)
    BY <2>1, <2>2
  <2> HIDE DEF n
  <2>5. row'[r] = n /\ \A s \in Rows \ {r} : row'[s] = row[s]
    BY <2>4, RowEdit
  <2>6. NewPair(r) /\ \A s \in Rows \ {r} : KeepsToken(row[s], row'[s])
    BY <1>1, <2>3, <2>5 DEF NewPair, KeepsToken
  <2>7. \A s \in Rows : SameOwner(row[s], row'[s])
    BY <2>2, <2>3, <2>5 DEF SameOwner
  <2> QED
    BY <1>1, <2>6, <2>7 DEF OwnersEffect, TokensEffect
<1>3. CASE VerifyAccountWrite(j)
  <2>1. PICK r \in Rows : /\ r \in Found(job[j].email)
                          /\ Edit(r, [row[r] EXCEPT !.verified = TRUE, !.otp = 0, !.attempts = 0,
                                                    !.refresh = issued + 1])
    BY <1>3 DEF VerifyAccountWrite, Found
  <2>2. PICK a \in Row : a = row[r]
    BY RowTyped DEF IInv
  <2> DEFINE n == [a EXCEPT !.verified = TRUE, !.otp = 0, !.attempts = 0, !.refresh = issued + 1]
  <2>3. n.email = a.email /\ n.state = a.state /\ n.refresh = issued + 1
    BY DEF Row
  <2>4. Edit(r, n)
    BY <2>1, <2>2
  <2> HIDE DEF n
  <2>5. row'[r] = n /\ \A s \in Rows \ {r} : row'[s] = row[s]
    BY <2>4, RowEdit
  <2>6. NewPair(r) /\ \A s \in Rows \ {r} : KeepsToken(row[s], row'[s])
    BY <1>1, <2>3, <2>5 DEF NewPair, KeepsToken
  <2>7. Verifies(j, r)
    BY <1>3, <2>1, <2>2, <2>3, <2>5 DEF Verifies, VerifyAccountWrite, At, Found, Live
  <2> QED
    BY <1>1, <2>6, <2>7 DEF OwnersEffect, TokensEffect
<1> QED
  BY <1>2, <1>3

\* A row that is made or converted holds no new token.
LEMMA NoPair ==
  ASSUME IInv, issued' = issued, NEW r \in Rows, KeepsToken(row[r], row'[r]),
         \A s \in Rows \ {r} : row'[s] = row[s]
  PROVE  TokensEffect
BY DEF TokensEffect, KeepsToken

\* The deletion.
LEMMA DeleteStep ==
  ASSUME IInv, NEW j \in Jobs, ResendDelete(j)
  PROVE  OwnersEffect /\ TokensEffect
<1>1. issued' = issued
  BY DEF ResendDelete, clients
<1>2. PICK r \in Rows : /\ r \in Found(job[j].email)
                        /\ Edit(r, [row[r] EXCEPT !.state = "deleted"])
  BY DEF ResendDelete, Found
<1>3. PICK a \in Row : a = row[r]
  BY RowTyped DEF IInv
<1> DEFINE n == [a EXCEPT !.state = "deleted"]
<1>4. n.state = "deleted" /\ KeepsToken(a, n)
  BY DEF Row, KeepsToken
<1>5. Edit(r, n)
  BY <1>2, <1>3
<1> HIDE DEF n
<1>6. row'[r] = n /\ \A s \in Rows \ {r} : row'[s] = row[s]
  BY <1>5, RowEdit
<1>7. Deletes(j, r)
  BY <1>2, <1>4, <1>6 DEF Deletes, ResendDelete, At
<1>8. TokensEffect
  BY <1>1, <1>3, <1>4, <1>6, NoPair
<1> QED
  BY <1>7, <1>8 DEF OwnersEffect

\* A row that gets an address, or is a new guest's.
LEMMA NewOwnerSteps ==
  ASSUME IInv, NEW j \in Jobs,
         RegisterCommit(j) \/ GoogleConvert(j) \/ GoogleCreate(j) \/ GuestCreate(j)
  PROVE  OwnersEffect /\ TokensEffect
<1>1. issued' = issued
  BY DEF RegisterCommit, GoogleConvert, GoogleCreate, GuestCreate, clients
<1>2. PICK e : e = job[j].email
  OBVIOUS
<1>3. Unused.refresh = 0
  BY DEF Unused
<1>4. ASSUME NEW r \in Rows, NEW n, Edit(r, n), n.refresh \in {row[r].refresh, 0},
             job[j].pc \in {"register", "convert", "create"}, Found(e) \subseteq {r},
             n.state = "live", n.email = e, row[r].state # "deleted"
      PROVE  OwnersEffect /\ TokensEffect
  <2>1. row'[r] = n /\ \A s \in Rows \ {r} : row'[s] = row[s]
    BY <1>4, RowEdit
  <2>2. TakesAddress(j, r)
    BY <1>2, <1>4, <2>1 DEF TakesAddress
  <2>3. TokensEffect
    BY <1>1, <1>4, <2>1, NoPair DEF KeepsToken
  <2> QED
    BY <2>2, <2>3 DEF OwnersEffect
<1>5. CASE RegisterCommit(j)
  <2>1. PICK g, o : g = job[j].row /\ o = NewOtp
    OBVIOUS
  <2>2. Found(e) \subseteq {g} /\ job[j].pc = "register" /\ g \in Rows \cup {None}
    BY <1>2, <1>5, <2>1 DEF RegisterCommit, At, IInv, Base, TypeOK, Job
  <2>3. CASE g # None /\ Edit(g, [Converted(g, e) EXCEPT !.otp = o, !.attempts = 0])
    <3>1. g \in Rows /\ row[g].state = "live"
      BY <1>5, <2>1, <2>2, <2>3 DEF RegisterCommit, Live
    <3>2. PICK a \in Row : a = row[g]
      BY <3>1, RowTyped DEF IInv
    <3> DEFINE n == [a EXCEPT !.email = e, !.guest = FALSE, !.device = None, !.expired = FALSE,
                              !.otp = o, !.attempts = 0]
    <3>3. Edit(g, n)
      <4>1. [Converted(g, e) EXCEPT !.otp = o, !.attempts = 0] = n
        BY <3>2 DEF Converted, Row
      <4> QED
        BY <2>3, <4>1
    <3>4. n.state = a.state /\ n.email = e /\ n.refresh = a.refresh
      BY DEF Row
    <3> HIDE DEF n
    <3> QED
      BY <1>4, <2>2, <3>1, <3>2, <3>3, <3>4
  <2>4. CASE /\ g = None
             /\ \E r \in Rows : /\ row[r].state = "unused"
                                /\ Edit(r, [Unused EXCEPT !.state = "live", !.email = e, !.otp = o])
    <3>1. PICK r \in Rows : /\ row[r].state = "unused"
                            /\ Edit(r, [Unused EXCEPT !.state = "live", !.email = e, !.otp = o])
      BY <2>4
    <3> DEFINE n == [Unused EXCEPT !.state = "live", !.email = e, !.otp = o]
    <3>2. n.state = "live" /\ n.email = e /\ n.refresh = 0
      BY DEF Unused
    <3>3. Found(e) \subseteq {r}
      BY <2>2, <2>4, NoneIsNoValue DEF Found
    <3>4. Edit(r, n)
      BY <3>1
    <3> HIDE DEF n
    <3> QED
      BY <1>4, <2>2, <3>1, <3>2, <3>3, <3>4
  <2>5. CASE row' = row
    <3>1. Plain
      BY <2>5 DEF Plain, SameOwner, KeepsToken
    <3> QED
      BY <1>1, <3>1, PlainEffect
  <2> QED
    BY <1>2, <1>5, <2>1, <2>3, <2>4, <2>5 DEF RegisterCommit
<1>6. CASE GoogleConvert(j)
  <2>1. PICK g : g = job[j].row
    OBVIOUS
  <2>2. Found(e) \subseteq {g} /\ job[j].pc = "convert" /\ g \in Rows /\ row[g].state = "live"
    BY <1>2, <1>6, <2>1 DEF GoogleConvert, At, Live, IInv, Base, JobsInv, Sound, WithRow
  <2>3. PICK a \in Row : a = row[g]
    BY <2>2, RowTyped DEF IInv
  <2> DEFINE n == [a EXCEPT !.email = e, !.guest = FALSE, !.device = None, !.expired = FALSE,
                            !.verified = TRUE]
  <2>4. Edit(g, n)
    <3>1. [Converted(g, e) EXCEPT !.verified = TRUE] = n
      BY <2>3 DEF Converted, Row
    <3> QED
      BY <1>2, <1>6, <2>1, <3>1 DEF GoogleConvert
  <2>5. n.state = a.state /\ n.email = e /\ n.refresh = a.refresh
    BY DEF Row
  <2> HIDE DEF n
  <2> QED
    BY <1>4, <2>2, <2>3, <2>4, <2>5
<1>7. CASE GoogleCreate(j)
  <2>1. PICK r \in Rows : /\ row[r].state = "unused"
                          /\ Edit(r, [Unused EXCEPT !.state = "live", !.email = e, !.verified = TRUE])
    BY <1>2, <1>7 DEF GoogleCreate
  <2> DEFINE n == [Unused EXCEPT !.state = "live", !.email = e, !.verified = TRUE]
  <2>2. n.state = "live" /\ n.email = e /\ n.refresh = 0
    BY DEF Unused
  <2>3. Edit(r, n) /\ Found(e) = {} /\ job[j].pc = "create"
    BY <1>2, <1>7, <2>1 DEF GoogleCreate, At
  <2> HIDE DEF n
  <2> QED
    BY <1>4, <2>1, <2>2, <2>3
<1>8. CASE GuestCreate(j)
  <2>1. PICK r \in Rows : /\ row[r].state = "unused"
                          /\ Edit(r, [Unused EXCEPT !.state = "live", !.guest = TRUE,
                                                    !.device = job[j].device])
    BY <1>8 DEF GuestCreate
  <2> DEFINE n == [Unused EXCEPT !.state = "live", !.guest = TRUE, !.device = job[j].device]
  <2>2. n.state = "live" /\ n.email = None /\ n.refresh = 0
    BY DEF Unused
  <2>3. Edit(r, n)
    BY <2>1
  <2> HIDE DEF n
  <2>4. row'[r] = n /\ \A s \in Rows \ {r} : row'[s] = row[s]
    BY <2>3, RowEdit
  <2>5. NewGuest(r)
    BY <2>1, <2>2, <2>4 DEF NewGuest
  <2>6. TokensEffect
    BY <1>1, <2>2, <2>4, NoPair DEF KeepsToken
  <2> QED
    BY <2>5, <2>6 DEF OwnersEffect
<1> QED
  BY <1>5, <1>6, <1>7, <1>8

\* What a step of the specification does to the rows.
LEMMA Effects ==
  ASSUME IInv, [Next]_vars
  PROVE  OwnersEffect /\ TokensEffect
<1>1. row' = row => Plain
  BY DEF Plain, SameOwner, KeepsToken
<1>2. ASSUME NEW j \in Jobs, Request(j)
      PROVE  Plain /\ issued' = issued
  <2>1. row' = row /\ issued' = issued
    BY <1>2 DEF Request, RegisterBegin, GoogleBegin, VerifyBegin, ResendBegin, ForgotBegin,
       LoginBegin, GuestBegin, RefreshBegin, clients
  <2> QED
    BY <1>1, <2>1
<1>3. ASSUME NEW j \in Jobs, JobFails(j) \/ OtpMail(j)
      PROVE  Plain /\ issued' = issued
  BY <1>1, <1>3 DEF JobFails, OtpMail, clients
<1>4. ASSUME NEW j \in Jobs, Work(j)
      PROVE  OwnersEffect /\ TokensEffect
  BY <1>3, <1>4, PlainEffect, PlainSteps, PairSteps, DeleteStep, NewOwnerSteps DEF Work
<1>5. UNCHANGED vars => Plain /\ issued' = issued
  BY <1>1 DEF vars
<1> QED
  BY <1>2, <1>3, <1>4, <1>5, PlainEffect, PlainTimes DEF Next
-----------------------------------------------------------------------------
(* One account for an address, and one owner for a refresh token.           *)

OneAccountEach == \A r, s \in Rows :
    Live(r) /\ Live(s) /\ row[r].email # None /\ row[r].email = row[s].email => r = s

OneHolderEach ==
    /\ \A r \in Rows : row[r].refresh <= issued
    /\ \A r, s \in Rows : row[r].refresh # 0 /\ row[r].refresh = row[s].refresh => r = s

\* A token that is not the one a row holds will not be.
TokensSpent == \A r \in Rows, t \in 1..issued : row[r].refresh # t => row'[r].refresh # t

\* Every write of an address looks for it first, in the same statement.
LEMMA OneAccountStep ==
  ASSUME IInv, OneAccountEach, [Next]_vars
  PROVE  OneAccountEach'
<1> SUFFICES ASSUME NEW r \in Rows, NEW s \in Rows, Live(r)', Live(s)',
                    row'[r].email # None, row'[r].email = row'[s].email, r # s
             PROVE  FALSE
  BY DEF OneAccountEach
<1>1. CASE \A q \in Rows : SameOwner(row[q], row'[q])
  BY <1>1 DEF SameOwner, Live, OneAccountEach
<1>2. ASSUME NEW j \in Jobs, NEW q \in Rows, TakesAddress(j, q)
      PROVE  FALSE
  <2>1. CASE r = q
    BY <1>2, <2>1 DEF TakesAddress, Found, Live
  <2>2. CASE s = q
    BY <1>2, <2>2 DEF TakesAddress, Found, Live
  <2>3. CASE r # q /\ s # q
    BY <1>2, <2>3 DEF TakesAddress, Live, OneAccountEach
  <2> QED
    BY <2>1, <2>2, <2>3
<1>3. ASSUME NEW j \in Jobs, NEW q \in Rows, Verifies(j, q)
      PROVE  FALSE
  <2>1. \A p \in Rows : row'[p].email = row[p].email /\ (Live(p)' => Live(p))
    BY <1>3 DEF Verifies, Found, Live
  <2> QED
    BY <2>1 DEF OneAccountEach
<1>4. ASSUME NEW j \in Jobs, NEW q \in Rows, Deletes(j, q)
      PROVE  FALSE
  <2>1. r # q /\ s # q
    BY <1>4 DEF Deletes, Live
  <2> QED
    BY <1>4, <2>1 DEF Deletes, Live, OneAccountEach
<1>5. ASSUME NEW q \in Rows, NewGuest(q)
      PROVE  FALSE
  <2>1. r # q /\ s # q
    BY <1>5 DEF NewGuest
  <2> QED
    BY <1>5, <2>1 DEF NewGuest, Live, OneAccountEach
<1> QED
  BY <1>1, <1>2, <1>3, <1>4, <1>5, Effects DEF OwnersEffect

\* A new token is nobody's yet, and older than none.
LEMMA OneHolderStep ==
  ASSUME IInv, OneHolderEach, [Next]_vars
  PROVE  OneHolderEach' /\ TokensSpent
<1>1. /\ issued \in Nat /\ \A r \in Rows : row[r].refresh \in Nat
      /\ issued' \in {issued, issued + 1}
  BY Effects, Parameters DEF IInv, Base, TypeOK, Row, TokensEffect
<1>2. CASE \A r \in Rows : KeepsToken(row[r], row'[r])
  BY <1>1, <1>2 DEF KeepsToken, OneHolderEach, TokensSpent
<1>3. ASSUME NEW q \in Rows, NewPair(q)
      PROVE  OneHolderEach' /\ TokensSpent
  <2>1. issued' = issued + 1 /\ row'[q].refresh = issued + 1
    BY <1>3 DEF NewPair
  <2>2. \A s \in Rows \ {q} : row'[s].refresh = row[s].refresh /\ row[s].refresh <= issued
    BY <1>3 DEF NewPair, OneHolderEach
  <2>3. TokensSpent
    BY <1>1, <2>1, <2>2 DEF TokensSpent
  <2>4. \A r \in Rows : row'[r].refresh <= issued'
    BY <1>1, <2>1, <2>2
  <2>5. ASSUME NEW r \in Rows, NEW s \in Rows, row'[r].refresh # 0, row'[r].refresh = row'[s].refresh
        PROVE  r = s
    <3>1. CASE r = q \/ s = q
      BY <1>1, <2>1, <2>2, <2>5, <3>1
    <3>2. CASE r # q /\ s # q
      BY <2>2, <2>5, <3>2 DEF OneHolderEach
    <3> QED
      BY <3>1, <3>2
  <2> QED
    BY <2>3, <2>4, <2>5 DEF OneHolderEach
<1> QED
  BY <1>2, <1>3, Effects DEF TokensEffect

\* However registrations, conversions and log-ins overlap, no two accounts there are have one
\* address, so what the handlers write by address they write to one row.
THEOREM AddressesUnique == Spec => []OneAccountEach
<1>1. Init => OneAccountEach
  BY DEF Init, Unused, OneAccountEach, Live
<1>2. IInv /\ OneAccountEach /\ [Next]_vars => OneAccountEach'
  BY OneAccountStep
<1> QED
  BY <1>1, <1>2, Invariance, PTL DEF Spec

\* Two refreshes with one token may both succeed, but what the second supersedes and what a
\* log-out revokes is spent: no later step makes it the token of its row again, nor is
\* one token ever that of two rows.
THEOREM SpentForEver == Spec => []OneHolderEach /\ [][TokensSpent]_vars
<1>1. Init => OneHolderEach
  BY DEF Init, Unused, OneHolderEach
<1>2. IInv /\ OneHolderEach /\ [Next]_vars => OneHolderEach' /\ TokensSpent
  BY OneHolderStep
<1> QED
  BY <1>1, <1>2, Invariance, PTL DEF Spec

-----------------------------------------------------------------------------
(* The deletion of an account that nobody verified.                         *)

\* While a deletion by address is about to be made, no other request names the address.
DeletesAlone == \A i, j \in Jobs : At(j, "delete") /\ job[i].email = job[j].email => i = j

\* Then what it is going to delete is what it has read: an account nobody verified.
DeletesUnverified == \A j \in Jobs, r \in Rows :
    At(j, "delete") /\ r \in Found(job[j].email) => row[r].verified = FALSE

VerifiedStay == \A r \in Rows : Live(r) /\ row[r].verified => row'[r].state = "live"

\* A deletion starts with resendOtp's read.
LEMMA DeleteBegins ==
  ASSUME IInv, [Next]_vars, NEW j \in Jobs, At(j, "delete")'
  PROVE  \/ job'[j] = job[j]
         \/ \E e \in Emails : ResendBegin(j, e) /\ job'[j].email = e
<1>1. job \in [Jobs -> Job] /\ job'[j].pc = "delete"
  BY DEF IInv, Base, TypeOK, At
<1>2. job' = job => job'[j] = job[j]
  OBVIOUS
<1>3. ASSUME NEW i \in Jobs, NEW b, job' = [job EXCEPT ![i] = b], b.pc # "delete"
      PROVE  job'[j] = job[j]
  BY <1>1, <1>3
<1>4. ASSUME NEW i \in Jobs, Finish(i)
      PROVE  job'[j] = job[j]
  BY <1>1, <1>4 DEF Finish, Idle
<1>5. ASSUME NEW i \in Jobs, NEW e \in Emails, NEW g \in Rows \cup {None},
             RegisterBegin(i, e, g) \/ GoogleBegin(i, e, g)
      PROVE  job'[j] = job[j]
  <2>1. CASE RegisterBegin(i, e, g)
    BY <1>1, <2>1 DEF RegisterBegin, Start, Idle
  <2>2. CASE GoogleBegin(i, e, g)
    BY <1>1, <2>2 DEF GoogleBegin, Start, Idle
  <2> QED
    BY <1>5, <2>1, <2>2
<1>6. ASSUME NEW i \in Jobs, NEW e \in Emails, NEW step \in {"verify", "verifyOtp"},
             VerifyBegin(i, step, e)
      PROVE  job'[j] = job[j]
  BY <1>1, <1>6 DEF VerifyBegin, Start, Idle
<1>7. ASSUME NEW i \in Jobs, NEW e \in Emails, ForgotBegin(i, e)
      PROVE  job'[j] = job[j]
  <2>1. PICK r \in Found(e) :
          Start(i, [Idle EXCEPT !.email = e, !.pc = IF row[r].attempts >= 3 THEN "block" ELSE "forgot"])
    BY <1>7 DEF ForgotBegin
  <2>2. PICK pc \in {"block", "forgot"} : pc = IF row[r].attempts >= 3 THEN "block" ELSE "forgot"
    OBVIOUS
  <2> QED
    BY <1>1, <2>1, <2>2 DEF Start, Idle
<1>8. ASSUME NEW i \in Jobs,
             \/ \E e \in Emails : LoginBegin(i, e)
             \/ \E d \in Devices : GuestBegin(i, d)
             \/ \E t \in 1..MaxTokens : RefreshBegin(i, t)
      PROVE  job'[j] = job[j]
  BY <1>1, <1>8 DEF LoginBegin, GuestBegin, RefreshBegin, Start, Idle
<1>9. ASSUME NEW i \in Jobs, NEW e \in Emails, ResendBegin(i, e)
      PROVE  \/ job'[j] = job[j]
             \/ ResendBegin(j, e) /\ job'[j].email = e
  <2>1. PICK pc : Start(i, [Idle EXCEPT !.email = e, !.pc = pc])
    BY <1>9 DEF ResendBegin
  <2>2. CASE i = j
    BY <1>1, <1>9, <2>1, <2>2 DEF Start, Idle
  <2>3. CASE i # j
    BY <1>1, <2>1, <2>3 DEF Start
  <2> QED
    BY <2>2, <2>3
<1>10. ASSUME NEW i \in Jobs, OtpWrite(i)
       PROVE  job'[j] = job[j]
  <2>1. PICK b \in Job : b = job[i]
    BY <1>1
  <2>2. PICK c : c = [b EXCEPT !.pc = "mail", !.otp = NewOtp]
    OBVIOUS
  <2>3. c.pc = "mail" /\ job' = [job EXCEPT ![i] = c]
    BY <1>1, <1>10, <2>1, <2>2 DEF OtpWrite, Job
  <2> QED
    BY <1>3, <2>3
<1>11. ASSUME NEW i \in Jobs, GuestCreate(i) \/ GoogleConvert(i) \/ GoogleCreate(i)
       PROVE  job'[j] = job[j]
  BY <1>1, <1>11 DEF GuestCreate, GoogleConvert, GoogleCreate, Idle
<1>12. ASSUME NEW i \in Jobs,
              \/ RegisterCommit(i) \/ VerifyAccountWrite(i) \/ VerifyOtpWrite(i) \/ ResendDelete(i)
              \/ ForgotBlock(i) \/ OtpMail(i) \/ SaveToken(i) \/ JobFails(i)
       PROVE  job'[j] = job[j]
  BY <1>4, <1>12 DEF RegisterCommit, VerifyAccountWrite, VerifyOtpWrite, ResendDelete, ForgotBlock,
     OtpMail, SaveToken, JobFails
<1>13. ASSUME \/ \E r \in Rows : ResetPassword(r) \/ LogOut(r) \/ GuestExpires(r) \/ BlockEnds(r)
              \/ \E e \in Emails : WrongOtp(e)
              \/ ExpireGuests \/ UNCHANGED vars
       PROVE  job' = job
  BY <1>13 DEF ResetPassword, LogOut, GuestExpires, BlockEnds, WrongOtp, ExpireGuests, vars
<1>14. ASSUME NEW i \in Jobs, Work(i)
       PROVE  job'[j] = job[j]
  BY <1>10, <1>11, <1>12, <1>14 DEF Work
<1>15. ASSUME NEW i \in Jobs, Request(i)
       PROVE  \/ job'[j] = job[j]
              \/ \E e \in Emails : ResendBegin(j, e) /\ job'[j].email = e
  BY <1>5, <1>6, <1>7, <1>8, <1>9, <1>15 DEF Request
<1> QED
  BY <1>2, <1>12, <1>13, <1>14, <1>15 DEF Next

\* An address that is named by the deletion alone is nobody else's to register or to verify.
LEMMA DeletesStep ==
  ASSUME IInv, OneAccountEach, DeletesAlone, DeletesUnverified, [Next]_vars
  PROVE  DeletesUnverified' /\ VerifiedStay
<1>1. VerifiedStay
  <2> SUFFICES ASSUME NEW r \in Rows, Live(r), row[r].verified
               PROVE  row'[r].state = "live"
    BY DEF VerifiedStay
  <2>1. ASSUME NEW j \in Jobs, Deletes(j, r)
        PROVE  FALSE
    BY <2>1 DEF Deletes, DeletesUnverified, At
  <2>2. ASSUME NEW j \in Jobs, NEW q \in Rows,
               TakesAddress(j, q) \/ Verifies(j, q) \/ Deletes(j, q)
        PROVE  row'[r].state = "live"
    <3>1. CASE r = q
      BY <2>1, <2>2, <3>1 DEF TakesAddress, Verifies
    <3>2. CASE r # q
      BY <2>2, <3>2 DEF TakesAddress, Verifies, Deletes, Live
    <3> QED
      BY <3>1, <3>2
  <2>3. ASSUME NEW q \in Rows, NewGuest(q)
        PROVE  row'[r].state = "live"
    BY <2>3 DEF NewGuest, Live
  <2>4. CASE \A q \in Rows : SameOwner(row[q], row'[q])
    BY <2>4 DEF SameOwner, Live
  <2> QED
    BY <2>2, <2>3, <2>4, Effects DEF OwnersEffect
<1>2. ASSUME NEW j \in Jobs, NEW r \in Rows, At(j, "delete")', row'[r].state = "live",
             row'[r].email = job'[j].email
      PROVE  row'[r].verified = FALSE
  <2>1. ASSUME NEW e \in Emails, ResendBegin(j, e), job'[j].email = e
        PROVE  row'[r].verified = FALSE
    <3>1. row' = row /\ job'[j].pc = "delete" /\ e # None
      BY <1>2, <2>1, NoneIsNoValue DEF ResendBegin, At
    <3>2. PICK s \in Found(e) :
            Start(j, [Idle EXCEPT !.email = e,
                        !.pc = IF ~row[s].verified /\ row[s].attempts = 3 THEN "delete" ELSE "resend"])
      BY <2>1 DEF ResendBegin
    <3>3. ~row[s].verified
      <4>1. job'[j].pc = IF ~row[s].verified /\ row[s].attempts = 3 THEN "delete" ELSE "resend"
        BY <3>2 DEF Start, Idle, IInv, Base, TypeOK
      <4> QED
        BY <3>1, <4>1
    <3>4. r = s
      BY <1>2, <2>1, <3>1 DEF Found, Live, OneAccountEach
    <3>5. row[s].verified \in BOOLEAN
      BY <3>4, RowTyped DEF IInv, Row
    <3> QED
      BY <3>1, <3>3, <3>4, <3>5
  <2>2. CASE job'[j] = job[j]
    <3>1. At(j, "delete") /\ job[j].email # None
      BY <1>2, <2>2, NoneIsNoValue DEF At, IInv, Base, JobsInv, Sound, WithEmail
    <3>2. ASSUME row'[r] = row[r] PROVE row'[r].verified = FALSE
      BY <1>2, <2>2, <3>1, <3>2 DEF DeletesUnverified, Found, Live
    <3>3. ASSUME NEW i \in Jobs, job[i].email = job[j].email PROVE job[i].pc = "delete"
      BY <3>1, <3>3 DEF DeletesAlone, At
    <3>4. ASSUME NEW i \in Jobs, NEW q \in Rows, TakesAddress(i, q)
          PROVE  row'[r].verified = FALSE
      <4>1. r # q
        BY <1>2, <2>2, <3>3, <3>4 DEF TakesAddress
      <4> QED
        BY <3>2, <3>4, <4>1 DEF TakesAddress
    <3>5. ASSUME NEW i \in Jobs, NEW q \in Rows, Verifies(i, q)
          PROVE  row'[r].verified = FALSE
      <4>1. r # q
        BY <1>2, <2>2, <3>3, <3>5 DEF Verifies, Found
      <4> QED
        BY <3>2, <3>5, <4>1 DEF Verifies
    <3>6. ASSUME NEW i \in Jobs, NEW q \in Rows, Deletes(i, q)
          PROVE  row'[r].verified = FALSE
      BY <1>2, <3>2, <3>6 DEF Deletes
    <3>7. ASSUME NEW q \in Rows, NewGuest(q)
          PROVE  row'[r].verified = FALSE
      BY <1>2, <2>2, <3>1, <3>2, <3>7 DEF NewGuest
    <3>8. CASE \A q \in Rows : SameOwner(row[q], row'[q])
      BY <1>2, <2>2, <3>1, <3>8 DEF SameOwner, DeletesUnverified, Found, Live
    <3> QED
      BY <3>4, <3>5, <3>6, <3>7, <3>8, Effects DEF OwnersEffect
  <2> QED
    BY <1>2, <2>1, <2>2, DeleteBegins
<1>3. DeletesUnverified'
  BY <1>2 DEF DeletesUnverified, Found, Live
<1> QED
  BY <1>1, <1>3

\* resendOtp deletes an account by its address, an await after it read that nobody had verified
\* it. As long as no other request names that address meanwhile, no account that
\* somebody verified is deleted.
THEOREM VerifiedKept == Spec /\ []DeletesAlone => [][VerifiedStay]_vars
<1>1. Init => DeletesUnverified
  BY DEF Init, Idle, DeletesUnverified, At
<1>2. IInv /\ OneAccountEach /\ DeletesAlone /\ DeletesUnverified /\ [Next]_vars
        => DeletesUnverified' /\ VerifiedStay
  BY DeletesStep
<1> QED
  BY <1>1, <1>2, Invariance, AddressesUnique, PTL DEF Spec

-----------------------------------------------------------------------------
(* What a guest's tokens say of him.                                        *)

\* Nobody becomes a guest again, and only a guest is soft-blocked, who is one no more.
GuestsLeave(a, b) ==
    /\ a.state # "unused" /\ a.guest = FALSE => b.guest = FALSE
    /\ b.blocked = "forever" => \/ a.blocked = "forever"
                                \/ a.guest = TRUE /\ b.guest = FALSE /\ b.state # "unused"

NoNewGuests == \A r \in Rows : GuestsLeave(row[r], row'[r])

\* An edit of one row.
LEMMA GuestEdit ==
  ASSUME IInv, NEW r \in Rows, NEW n, Edit(r, n), GuestsLeave(row[r], n)
  PROVE  NoNewGuests
<1>1. ASSUME NEW s \in Rows \ {r} PROVE GuestsLeave(row[s], row'[s])
  BY <1>1, RowEdit DEF GuestsLeave
<1> QED
  BY <1>1, RowEdit DEF NoNewGuests

\* The edits of a row that is there.
LEMMA GuestEdits ==
  ASSUME IInv, NEW j \in Jobs,
         \/ VerifyOtpWrite(j) \/ ForgotBlock(j) \/ OtpWrite(j) \/ SaveToken(j)
         \/ VerifyAccountWrite(j) \/ ResendDelete(j)
  PROVE  NoNewGuests
<1>1. job[j].pc \in WithRow => job[j].row \in Rows
  BY DEF IInv, Base, JobsInv, Sound
<1>2. CASE VerifyOtpWrite(j)
  <2>1. PICK r \in Rows : Edit(r, [row[r] EXCEPT !.otp = 0, !.attempts = 0])
    BY <1>1, <1>2 DEF VerifyOtpWrite, WithRow, At
  <2>2. PICK a \in Row : a = row[r]
    BY RowTyped DEF IInv
  <2> DEFINE n == [a EXCEPT !.otp = 0, !.attempts = 0]
  <2>3. GuestsLeave(a, n)
    BY DEF GuestsLeave, Row
  <2>4. Edit(r, n)
    BY <2>1, <2>2
  <2> HIDE DEF n
  <2> QED
    BY <2>2, <2>3, <2>4, GuestEdit
<1>3. CASE ForgotBlock(j)
  <2>1. PICK r \in Rows : Edit(r, [row[r] EXCEPT !.blocked = "minutes", !.attempts = 0])
    BY <1>3 DEF ForgotBlock, Found
  <2>2. PICK a \in Row : a = row[r]
    BY RowTyped DEF IInv
  <2> DEFINE n == [a EXCEPT !.blocked = "minutes", !.attempts = 0]
  <2>3. GuestsLeave(a, n)
    BY DEF GuestsLeave, Row
  <2>4. Edit(r, n)
    BY <2>1, <2>2
  <2> HIDE DEF n
  <2> QED
    BY <2>2, <2>3, <2>4, GuestEdit
<1>4. CASE OtpWrite(j)
  <2>1. PICK f \in BOOLEAN : f = At(j, "forgot")
    BY DEF At
  <2>2. PICK r \in Rows :
          Edit(r, [row[r] EXCEPT !.otp = NewOtp, !.attempts = @ + 1, !.reset = @ \/ f,
                                 !.blocked = IF f THEN "no" ELSE @])
    BY <1>4, <2>1 DEF OtpWrite, Found
  <2>3. PICK a \in Row : a = row[r]
    BY RowTyped DEF IInv
  <2>4. PICK o, m, p, b : /\ o = NewOtp /\ m = a.attempts + 1 /\ p = (a.reset \/ f)
                          /\ b = (IF f THEN "no" ELSE a.blocked)
    OBVIOUS
  <2> DEFINE n == [a EXCEPT !.otp = o, !.attempts = m, !.reset = p, !.blocked = b]
  <2>5. GuestsLeave(a, n)
    <3>1. b = "forever" => a.blocked = "forever"
      BY <2>4
    <3> QED
      BY <3>1 DEF GuestsLeave, Row
  <2>6. Edit(r, n)
    BY <2>2, <2>3, <2>4 DEF Edit
  <2> HIDE DEF n
  <2> QED
    BY <2>3, <2>5, <2>6, GuestEdit
<1>5. CASE SaveToken(j)
  <2>1. PICK r \in Rows : Edit(r, [row[r] EXCEPT !.refresh = issued + 1])
    BY <1>1, <1>5 DEF SaveToken, WithRow, At
  <2>2. PICK a \in Row : a = row[r]
    BY RowTyped DEF IInv
  <2> DEFINE n == [a EXCEPT !.refresh = issued + 1]
  <2>3. GuestsLeave(a, n)
    BY DEF GuestsLeave, Row
  <2>4. Edit(r, n)
    BY <2>1, <2>2
  <2> HIDE DEF n
  <2> QED
    BY <2>2, <2>3, <2>4, GuestEdit
<1>6. CASE VerifyAccountWrite(j)
  <2>1. PICK r \in Rows : Edit(r, [row[r] EXCEPT !.verified = TRUE, !.otp = 0, !.attempts = 0,
                                                 !.refresh = issued + 1])
    BY <1>6 DEF VerifyAccountWrite, Found
  <2>2. PICK a \in Row : a = row[r]
    BY RowTyped DEF IInv
  <2> DEFINE n == [a EXCEPT !.verified = TRUE, !.otp = 0, !.attempts = 0, !.refresh = issued + 1]
  <2>3. GuestsLeave(a, n)
    BY DEF GuestsLeave, Row
  <2>4. Edit(r, n)
    BY <2>1, <2>2
  <2> HIDE DEF n
  <2> QED
    BY <2>2, <2>3, <2>4, GuestEdit
<1>7. CASE ResendDelete(j)
  <2>1. PICK r \in Rows : Edit(r, [row[r] EXCEPT !.state = "deleted"])
    BY <1>7 DEF ResendDelete, Found
  <2>2. PICK a \in Row : a = row[r]
    BY RowTyped DEF IInv
  <2> DEFINE n == [a EXCEPT !.state = "deleted"]
  <2>3. GuestsLeave(a, n)
    BY DEF GuestsLeave, Row
  <2>4. Edit(r, n)
    BY <2>1, <2>2
  <2> HIDE DEF n
  <2> QED
    BY <2>2, <2>3, <2>4, GuestEdit
<1> QED
  BY <1>2, <1>3, <1>4, <1>5, <1>6, <1>7

\* New rows, and those that are converted.
LEMMA GuestRows ==
  ASSUME IInv, NEW j \in Jobs,
         RegisterCommit(j) \/ GoogleConvert(j) \/ GoogleCreate(j) \/ GuestCreate(j)
  PROVE  NoNewGuests
<1>1. PICK e : e = job[j].email
  OBVIOUS
<1>2. ASSUME NEW r \in Rows, row[r].state = "unused", NEW n, Edit(r, n), n.blocked = "no"
      PROVE  NoNewGuests
  BY <1>2, GuestEdit DEF GuestsLeave
<1>3. Unused.blocked = "no"
  BY DEF Unused
<1>4. CASE RegisterCommit(j)
  <2>1. PICK g, o : g = job[j].row /\ o = NewOtp
    OBVIOUS
  <2>2. g \in Rows \cup {None}
    BY <2>1 DEF IInv, Base, TypeOK, Job
  <2>3. CASE g # None /\ Edit(g, [Converted(g, e) EXCEPT !.otp = o, !.attempts = 0])
    <3>1. PICK a \in Row : a = row[g]
      BY <2>2, <2>3, RowTyped DEF IInv
    <3> DEFINE n == [a EXCEPT !.email = e, !.guest = FALSE, !.device = None, !.expired = FALSE,
                              !.otp = o, !.attempts = 0]
    <3>2. Edit(g, n)
      <4>1. [Converted(g, e) EXCEPT !.otp = o, !.attempts = 0] = n
        BY <3>1 DEF Converted, Row
      <4> QED
        BY <2>3, <4>1
    <3>3. GuestsLeave(a, n)
      BY DEF GuestsLeave, Row
    <3> HIDE DEF n
    <3> QED
      BY <2>2, <2>3, <3>1, <3>2, <3>3, GuestEdit
  <2>4. CASE \E r \in Rows : /\ row[r].state = "unused"
                             /\ Edit(r, [Unused EXCEPT !.state = "live", !.email = e, !.otp = o])
    BY <1>2, <2>4 DEF Unused
  <2>5. CASE row' = row
    BY <2>5 DEF NoNewGuests, GuestsLeave
  <2> QED
    BY <1>1, <1>4, <2>1, <2>3, <2>4, <2>5 DEF RegisterCommit
<1>5. CASE GoogleConvert(j)
  <2>1. PICK g : g = job[j].row
    OBVIOUS
  <2>2. g \in Rows
    BY <1>5, <2>1 DEF GoogleConvert, At, IInv, Base, JobsInv, Sound, WithRow
  <2>3. PICK a \in Row : a = row[g]
    BY <2>2, RowTyped DEF IInv
  <2> DEFINE n == [a EXCEPT !.email = e, !.guest = FALSE, !.device = None, !.expired = FALSE,
                            !.verified = TRUE]
  <2>4. Edit(g, n)
    <3>1. [Converted(g, e) EXCEPT !.verified = TRUE] = n
      BY <2>3 DEF Converted, Row
    <3> QED
      BY <1>1, <1>5, <2>1, <3>1 DEF GoogleConvert
  <2>5. GuestsLeave(a, n)
    BY DEF GuestsLeave, Row
  <2> HIDE DEF n
  <2> QED
    BY <2>2, <2>3, <2>4, <2>5, GuestEdit
<1>6. CASE GoogleCreate(j)
  <2>1. PICK r \in Rows : /\ row[r].state = "unused"
                          /\ Edit(r, [Unused EXCEPT !.state = "live", !.email = e, !.verified = TRUE])
    BY <1>1, <1>6 DEF GoogleCreate
  <2> QED
    BY <1>2, <2>1 DEF Unused
<1>7. CASE GuestCreate(j)
  <2>1. PICK r \in Rows : /\ row[r].state = "unused"
                          /\ Edit(r, [Unused EXCEPT !.state = "live", !.guest = TRUE,
                                                    !.device = job[j].device])
    BY <1>7 DEF GuestCreate
  <2> QED
    BY <1>2, <2>1 DEF Unused
<1> QED
  BY <1>4, <1>5, <1>6, <1>7

\* Time, and whoever resets a password, logs out or guesses.
LEMMA GuestTimes ==
  ASSUME IInv,
         \/ \E r \in Rows : ResetPassword(r) \/ LogOut(r) \/ GuestExpires(r) \/ BlockEnds(r)
         \/ \E e \in Emails : WrongOtp(e)
         \/ ExpireGuests
  PROVE  NoNewGuests
<1>1. ASSUME NEW r \in Rows, ResetPassword(r) \/ LogOut(r) \/ GuestExpires(r) \/ BlockEnds(r)
      PROVE  NoNewGuests
  <2>1. PICK a \in Row : a = row[r]
    BY RowTyped DEF IInv
  <2>2. PICK n : Edit(r, n) /\ n \in {[a EXCEPT !.reset = FALSE, !.attempts = 0],
                                      [a EXCEPT !.refresh = 0],
                                      [a EXCEPT !.expired = TRUE],
                                      [a EXCEPT !.blocked = "no"]}
    BY <1>1, <2>1 DEF ResetPassword, LogOut, GuestExpires, BlockEnds
  <2>3. GuestsLeave(a, n)
    BY <2>2 DEF GuestsLeave, Row
  <2> QED
    BY <2>1, <2>2, <2>3, GuestEdit
<1>2. ASSUME NEW e \in Emails, WrongOtp(e)
      PROVE  NoNewGuests
  <2>1. PICK r \in Rows : Edit(r, [row[r] EXCEPT !.attempts = @ + 1])
    BY <1>2 DEF WrongOtp, Found
  <2>2. PICK a \in Row : a = row[r]
    BY RowTyped DEF IInv
  <2>3. PICK m : m = a.attempts + 1
    OBVIOUS
  <2> DEFINE n == [a EXCEPT !.attempts = m]
  <2>4. GuestsLeave(a, n)
    BY DEF GuestsLeave, Row
  <2>5. Edit(r, n)
    BY <2>1, <2>2, <2>3 DEF Edit
  <2> HIDE DEF n
  <2> QED
    BY <2>2, <2>4, <2>5, GuestEdit
<1>3. CASE ExpireGuests
  <2> SUFFICES ASSUME NEW r \in Rows
               PROVE  GuestsLeave(row[r], row'[r])
    BY DEF NoNewGuests
  <2>1. PICK a \in Row : a = row[r]
    BY RowTyped DEF IInv
  <2>2. \/ row'[r] = a
        \/ /\ a.guest = TRUE /\ a.state = "live"
           /\ row'[r] = [a EXCEPT !.guest = FALSE, !.blocked = "forever"]
    BY <1>3, <2>1 DEF ExpireGuests, SoftBlocks, SoftBlocked, Live, Row
  <2> QED
    BY <2>1, <2>2 DEF GuestsLeave, Row
<1> QED
  BY <1>1, <1>2, <1>3

\* What a step does to the guests.
LEMMA GuestsStep ==
  ASSUME IInv, [Next]_vars
  PROVE  NoNewGuests
<1>1. row' = row => NoNewGuests
  BY DEF NoNewGuests, GuestsLeave
<1>2. ASSUME NEW j \in Jobs, Request(j)
      PROVE  NoNewGuests
  <2>1. row' = row
    BY <1>2 DEF Request, RegisterBegin, GoogleBegin, VerifyBegin, ResendBegin, ForgotBegin,
       LoginBegin, GuestBegin, RefreshBegin
  <2> QED
    BY <1>1, <2>1
<1>3. ASSUME NEW j \in Jobs, JobFails(j) \/ OtpMail(j)
      PROVE  NoNewGuests
  BY <1>1, <1>3 DEF JobFails, OtpMail
<1>4. ASSUME NEW j \in Jobs, Work(j)
      PROVE  NoNewGuests
  BY <1>3, <1>4, GuestEdits, GuestRows DEF Work
<1>5. UNCHANGED vars => NoNewGuests
  BY <1>1 DEF vars
<1> QED
  BY <1>2, <1>3, <1>4, <1>5, GuestTimes DEF Next

\* Those about to hand out a pair, and what they say: whoever is said to be no guest is none.
Pairing == {"token", "verify"}

GuestJobs == \A j \in Jobs :
    job[j].pc \in Pairing /\ job[j].guest = FALSE => row[job[j].row].guest = FALSE

\* It is so when they begin.
LEMMA PairBegins ==
  ASSUME IInv, [Next]_vars, NEW j \in Jobs, job'[j].pc \in Pairing, job'[j].guest = FALSE
  PROVE  job'[j] = job[j] \/ row'[job'[j].row].guest = FALSE
<1> DEFINE Goal == job'[j] = job[j] \/ row'[job'[j].row].guest = FALSE
<1>1. job \in [Jobs -> Job] /\ row \in [Rows -> Row]
  BY DEF IInv, Base, TypeOK
<1>2. job' = job => Goal
  OBVIOUS
<1>3. ASSUME NEW i \in Jobs, NEW b, job' = [job EXCEPT ![i] = b],
             \/ b.pc \notin Pairing
             \/ b.guest # FALSE
             \/ row'[b.row].guest = FALSE
             \/ row' = row /\ b.guest = row[b.row].guest
      PROVE  Goal
  <2>1. CASE i = j
    <3>1. job'[j] = b
      BY <1>1, <1>3, <2>1
    <3> QED
      BY <1>3, <3>1
  <2>2. CASE i # j
    BY <1>1, <1>3, <2>2
  <2> QED
    BY <2>1, <2>2
<1> HIDE DEF Goal
<1>4. ASSUME NEW i \in Jobs, Finish(i)
      PROVE  Goal
  BY <1>3, <1>4 DEF Finish, Idle, Pairing
<1>5. ASSUME NEW i \in Jobs, NEW r, NEW e, NEW pc, row' = row,
             Start(i, [Idle EXCEPT !.pc = pc, !.row = r, !.email = e, !.guest = row[r].guest])
      PROVE  Goal
  <2> DEFINE b == [Idle EXCEPT !.pc = pc, !.row = r, !.email = e, !.guest = row[r].guest]
  <2>1. b.row = r /\ b.guest = row[r].guest
    BY DEF Idle
  <2>2. job' = [job EXCEPT ![i] = b]
    BY <1>5 DEF Start
  <2> HIDE DEF b
  <2> QED
    BY <1>3, <1>5, <2>1, <2>2
<1>6. ASSUME NEW i \in Jobs, NEW r, row' = row,
             Start(i, [Idle EXCEPT !.pc = "token", !.row = r, !.guest = row[r].guest])
      PROVE  Goal
  <2> DEFINE b == [Idle EXCEPT !.pc = "token", !.row = r, !.guest = row[r].guest]
  <2>1. b.row = r /\ b.guest = row[r].guest
    BY DEF Idle
  <2>2. job' = [job EXCEPT ![i] = b]
    BY <1>6 DEF Start
  <2> HIDE DEF b
  <2> QED
    BY <1>3, <1>6, <2>1, <2>2
<1>7. ASSUME NEW i \in Jobs, NEW e \in Emails, NEW g \in Rows \cup {None},
             RegisterBegin(i, e, g) \/ GoogleBegin(i, e, g)
      PROVE  Goal
  <2>1. CASE RegisterBegin(i, e, g)
    BY <1>3, <2>1 DEF RegisterBegin, Start, Idle, Pairing
  <2>2. CASE GoogleBegin(i, e, g)
    <3>1. row' = row
      BY <2>2 DEF GoogleBegin
    <3>2. CASE \E r \in Found(e) : Start(i, [Idle EXCEPT !.pc = "token", !.row = r,
                                                         !.guest = row[r].guest])
      BY <1>6, <3>1, <3>2
    <3>3. CASE \/ Start(i, [Idle EXCEPT !.pc = "convert", !.row = g, !.email = e])
               \/ Start(i, [Idle EXCEPT !.pc = "create", !.email = e])
      BY <1>3, <3>3 DEF Start, Idle, Pairing
    <3> QED
      BY <2>2, <3>2, <3>3 DEF GoogleBegin
  <2> QED
    BY <1>7, <2>1, <2>2
<1>8. ASSUME NEW i \in Jobs, NEW e \in Emails, NEW step \in {"verify", "verifyOtp"},
             VerifyBegin(i, step, e)
      PROVE  Goal
  BY <1>5, <1>8 DEF VerifyBegin
<1>9. ASSUME NEW i \in Jobs, NEW e \in Emails, ForgotBegin(i, e) \/ ResendBegin(i, e)
      PROVE  Goal
  <2>1. PICK pc \in {"block", "forgot", "delete", "resend"} :
          Start(i, [Idle EXCEPT !.email = e, !.pc = pc])
    BY <1>9 DEF ForgotBegin, ResendBegin
  <2> QED
    BY <1>3, <2>1 DEF Start, Idle, Pairing
<1>10. ASSUME NEW i \in Jobs,
              \/ \E e \in Emails : LoginBegin(i, e)
              \/ \E t \in 1..MaxTokens : RefreshBegin(i, t)
       PROVE  Goal
  BY <1>6, <1>10 DEF LoginBegin, RefreshBegin
<1>11. ASSUME NEW i \in Jobs, NEW d \in Devices, GuestBegin(i, d)
       PROVE  Goal
  BY <1>3, <1>11 DEF GuestBegin, Start, Idle, Pairing
<1>12. ASSUME NEW i \in Jobs, OtpWrite(i)
       PROVE  Goal
  <2>1. PICK b \in Job : b = job[i]
    BY <1>1
  <2>2. PICK c : c = [b EXCEPT !.pc = "mail", !.otp = NewOtp]
    OBVIOUS
  <2>3. c.pc = "mail" /\ job' = [job EXCEPT ![i] = c]
    BY <1>1, <1>12, <2>1, <2>2 DEF OtpWrite, Job
  <2> QED
    BY <1>3, <2>3 DEF Pairing
<1>13. ASSUME NEW i \in Jobs, GuestCreate(i)
       PROVE  Goal
  BY <1>3, <1>13 DEF GuestCreate, Idle
<1>14. ASSUME NEW i \in Jobs, GoogleConvert(i)
       PROVE  Goal
  <2>1. PICK g, e : g = job[i].row /\ e = job[i].email
    OBVIOUS
  <2>2. g \in Rows
    BY <1>14, <2>1 DEF GoogleConvert, At, IInv, Base, JobsInv, Sound, WithRow
  <2>3. row'[g].guest = FALSE
    BY <1>1, <1>14, <2>1, <2>2 DEF GoogleConvert, Edit, Converted, Row
  <2>4. job' = [job EXCEPT ![i] = [Idle EXCEPT !.pc = "token", !.row = g, !.guest = FALSE]]
    BY <1>14, <2>1 DEF GoogleConvert
  <2> QED
    BY <1>3, <2>3, <2>4 DEF Idle
<1>15. ASSUME NEW i \in Jobs, GoogleCreate(i)
       PROVE  Goal
  <2>1. PICK r \in Rows :
          /\ Edit(r, [Unused EXCEPT !.state = "live", !.email = job[i].email, !.verified = TRUE])
          /\ job' = [job EXCEPT ![i] = [Idle EXCEPT !.pc = "token", !.row = r, !.guest = FALSE]]
    BY <1>15 DEF GoogleCreate
  <2>2. row'[r].guest = FALSE
    <3>1. PICK e : e = job[i].email
      OBVIOUS
    <3> DEFINE n == [Unused EXCEPT !.state = "live", !.email = e, !.verified = TRUE]
    <3>2. Edit(r, n) /\ n.guest = FALSE
      BY <2>1, <3>1 DEF Unused
    <3> HIDE DEF n
    <3> QED
      BY <3>2, RowEdit
  <2> QED
    BY <1>3, <2>1, <2>2 DEF Idle
<1>16. ASSUME NEW i \in Jobs,
              \/ RegisterCommit(i) \/ VerifyAccountWrite(i) \/ VerifyOtpWrite(i) \/ ResendDelete(i)
              \/ ForgotBlock(i) \/ OtpMail(i) \/ SaveToken(i) \/ JobFails(i)
       PROVE  Goal
  BY <1>4, <1>16 DEF RegisterCommit, VerifyAccountWrite, VerifyOtpWrite, ResendDelete, ForgotBlock,
     OtpMail, SaveToken, JobFails
<1>17. ASSUME \/ \E r \in Rows : ResetPassword(r) \/ LogOut(r) \/ GuestExpires(r) \/ BlockEnds(r)
              \/ \E e \in Emails : WrongOtp(e)
              \/ ExpireGuests \/ UNCHANGED vars
       PROVE  job' = job
  BY <1>17 DEF ResetPassword, LogOut, GuestExpires, BlockEnds, WrongOtp, ExpireGuests, vars
<1>18. ASSUME NEW i \in Jobs, Work(i)
       PROVE  Goal
  BY <1>12, <1>13, <1>14, <1>15, <1>16, <1>18 DEF Work
<1>19. ASSUME NEW i \in Jobs, Request(i)
       PROVE  Goal
  BY <1>7, <1>8, <1>9, <1>10, <1>11, <1>19 DEF Request
<1>20. Goal
  BY <1>2, <1>16, <1>17, <1>18, <1>19 DEF Next
<1> QED
  BY <1>20 DEF Goal

\* A pair that is new says what the request has found.
LEMMA PairTells ==
  ASSUME IInv, [Next]_vars, NEW t \in 1..issued'
  PROVE  \/ t \in 1..issued /\ tokens'[t] = tokens[t]
         \/ \E j \in Jobs : /\ job[j].pc \in Pairing
                            /\ tokens'[t].row = job[j].row /\ tokens'[t].guest = job[j].guest
<1> DEFINE Goal == \/ t \in 1..issued /\ tokens'[t] = tokens[t]
                   \/ \E j \in Jobs : /\ job[j].pc \in Pairing
                                      /\ tokens'[t].row = job[j].row
                                      /\ tokens'[t].guest = job[j].guest
<1>1. ASSUME tokens' = tokens, issued' = issued
      PROVE  Goal
  BY <1>1
<1>2. ASSUME NEW j \in Jobs, job[j].pc \in Pairing, NEW g, g = job[j].guest, Issue(job[j].row, g)
      PROVE  Goal
  <2>1. tokens \in [1..MaxTokens -> [row: Rows \cup {None}, guest: BOOLEAN]]
        /\ issued \in Nat /\ MaxTokens \in Nat /\ issued < MaxTokens /\ issued' = issued + 1
    BY <1>2, Parameters DEF IInv, Base, TypeOK, Issue
  <2>2. PICK r, n : r = job[j].row /\ n = issued + 1
    OBVIOUS
  <2>3. tokens' = [tokens EXCEPT ![n] = [row |-> r, guest |-> g]]
    BY <1>2, <2>2 DEF Issue
  <2>4. n \in 1..MaxTokens /\ (t = n \/ (t \in 1..issued /\ t # n))
    BY <2>1, <2>2
  <2>5. CASE t = n
    <3>1. tokens'[t].row = r /\ tokens'[t].guest = g
      BY <2>1, <2>3, <2>4, <2>5
    <3> QED
      BY <1>2, <2>2, <3>1
  <2>6. CASE t \in 1..issued /\ t # n
    <3>1. tokens'[t] = tokens[t]
      <4>1. t \in 1..MaxTokens
        BY <2>1, <2>6
      <4> QED
        BY <2>1, <2>3, <2>6, <4>1
    <3> QED
      BY <2>6, <3>1
  <2> QED
    BY <2>4, <2>5, <2>6
<1> HIDE DEF Goal
<1>3. ASSUME NEW j \in Jobs, Request(j)
      PROVE  Goal
  <2>1. tokens' = tokens /\ issued' = issued
    BY <1>3 DEF Request, RegisterBegin, GoogleBegin, VerifyBegin, ResendBegin, ForgotBegin,
       LoginBegin, GuestBegin, RefreshBegin, clients
  <2> QED
    BY <1>1, <2>1
<1>4. ASSUME NEW j \in Jobs, SaveToken(j) \/ VerifyAccountWrite(j)
      PROVE  Goal
  BY <1>2, <1>4 DEF SaveToken, VerifyAccountWrite, At, Pairing
<1>5. ASSUME NEW j \in Jobs, Work(j) \/ JobFails(j)
      PROVE  Goal
  BY <1>1, <1>4, <1>5 DEF Work, JobFails, RegisterCommit, VerifyOtpWrite, ResendDelete, ForgotBlock,
     OtpWrite, OtpMail, GuestCreate, GoogleConvert, GoogleCreate, clients
<1>6. ASSUME \/ \E r \in Rows : ResetPassword(r) \/ LogOut(r) \/ GuestExpires(r) \/ BlockEnds(r)
             \/ \E e \in Emails : WrongOtp(e)
             \/ ExpireGuests \/ UNCHANGED vars
      PROVE  Goal
  BY <1>1, <1>6 DEF ResetPassword, LogOut, GuestExpires, BlockEnds, WrongOtp, ExpireGuests, vars,
     clients
<1>7. Goal
  BY <1>3, <1>5, <1>6 DEF Next
<1> QED
  BY <1>7 DEF Goal

\* Every token of a guest is one the guard looks him up for.
GuestTokens == \A t \in 1..issued : row[tokens[t].row].guest => tokens[t].guest

\* Who is no guest when his request begins is none when it ends.
LEMMA GuestTokensStep ==
  ASSUME IInv, GuestJobs, GuestTokens, [Next]_vars
  PROVE  GuestJobs' /\ GuestTokens'
<1>1. /\ \A j \in Jobs : job[j].pc \in Pairing => job[j].row \in Rows /\ Used(job[j].row)
      /\ \A t \in 1..issued : tokens[t].row \in Rows /\ Used(tokens[t].row)
  BY NoneIsNoValue DEF IInv, Base, JobsInv, Sound, TokensInv, WithRow, Pairing
<1>2. \A r \in Rows : Used(r) /\ row[r].guest = FALSE => row'[r].guest = FALSE
  BY GuestsStep DEF NoNewGuests, GuestsLeave, Used
<1>3. GuestJobs'
  <2> SUFFICES ASSUME NEW j \in Jobs, job'[j].pc \in Pairing, job'[j].guest = FALSE
               PROVE  row'[job'[j].row].guest = FALSE
    BY DEF GuestJobs
  <2>1. CASE job'[j] = job[j]
    BY <1>1, <1>2, <2>1 DEF GuestJobs
  <2> QED
    BY <2>1, PairBegins
<1>4. ASSUME NEW t \in 1..issued', row'[tokens'[t].row].guest
      PROVE  tokens'[t].guest
  <2>1. CASE t \in 1..issued /\ tokens'[t] = tokens[t]
    <3>1. tokens[t].row \in Rows /\ Used(tokens[t].row)
      BY <1>1, <2>1
    <3>2. row[tokens[t].row].guest
      <4>1. row[tokens[t].row].guest \in BOOLEAN
        BY <3>1, RowTyped DEF IInv, Row
      <4> QED
        BY <1>2, <1>4, <2>1, <3>1, <4>1
    <3> QED
      BY <2>1, <3>2 DEF GuestTokens
  <2>2. ASSUME NEW j \in Jobs, job[j].pc \in Pairing,
               tokens'[t].row = job[j].row, tokens'[t].guest = job[j].guest
        PROVE  tokens'[t].guest
    <3>1. job[j].row \in Rows /\ Used(job[j].row) /\ job[j].guest \in BOOLEAN
      BY <1>1, <2>2 DEF IInv, Base, TypeOK, Job
    <3>2. row[job[j].row].guest # FALSE
      BY <1>2, <1>4, <2>2, <3>1
    <3> QED
      BY <2>2, <3>1, <3>2 DEF GuestJobs
  <2> QED
    BY <2>1, <2>2, PairTells
<1> QED
  BY <1>3, <1>4 DEF GuestTokens

\* A guest may be registered, refreshed or soft-blocked while his tokens are being issued. Still,
\* as long as he is one, every token he holds says so: the guard looks him up for
\* each, and refuses all of them together when his week is over.
THEOREM GuestsLookedUp == Spec => []GuestTokens
<1>1. Init => GuestJobs /\ GuestTokens
  BY DEF Init, Idle, GuestJobs, GuestTokens, Pairing
<1>2. IInv /\ GuestJobs /\ GuestTokens /\ [Next]_vars => GuestJobs' /\ GuestTokens'
  BY GuestTokensStep
<1> QED
  BY <1>1, <1>2, Invariance, PTL DEF Spec

\* Nobody who was soft-blocked is about to be handed a token that says he is no guest: no refresh
\* has read his row since, and no conversion of his was in flight.
NoneAfterwards == \A j \in Jobs :
    job[j].pc \in Pairing /\ job[j].guest = FALSE => row[job[j].row].blocked # "forever"

SoftBlockedLeft == \A r \in Rows : row[r].blocked = "forever" => Used(r) /\ row[r].guest = FALSE
SoftBlockedTold == \A t \in 1..issued : row[tokens[t].row].blocked = "forever" => tokens[t].guest

\* The soft-block takes away what the guard admits a guest for.
LEMMA SoftBlockStep ==
  ASSUME IInv, GuestJobs, GuestTokens, NoneAfterwards, SoftBlockedLeft, SoftBlockedTold, [Next]_vars
  PROVE  SoftBlockedLeft' /\ SoftBlockedTold'
<1>1. /\ \A j \in Jobs : job[j].pc \in Pairing => job[j].row \in Rows
      /\ \A t \in 1..issued : tokens[t].row \in Rows
  BY NoneIsNoValue DEF IInv, Base, JobsInv, Sound, TokensInv, WithRow, Pairing
<1>2. ASSUME NEW r \in Rows, row'[r].blocked = "forever"
      PROVE  row[r].blocked = "forever" \/ row[r].guest = TRUE
  BY <1>2, GuestsStep DEF NoNewGuests, GuestsLeave
<1>3. ASSUME NEW r \in Rows, row'[r].blocked = "forever"
      PROVE  row'[r].state # "unused" /\ row'[r].guest = FALSE
  <2>1. CASE row[r].blocked = "forever"
    <3>1. row[r].state # "unused" /\ row[r].guest = FALSE
      BY <2>1 DEF SoftBlockedLeft, Used
    <3>2. row'[r].guest = FALSE
      BY <3>1, GuestsStep DEF NoNewGuests, GuestsLeave
    <3>3. row'[r].state # "unused"
      BY <3>1, Effects DEF OwnersEffect, SameOwner, TakesAddress, Verifies, Deletes, NewGuest
    <3> QED
      BY <3>2, <3>3
  <2>2. CASE row[r].blocked # "forever"
    BY <1>3, <2>2, GuestsStep DEF NoNewGuests, GuestsLeave
  <2> QED
    BY <2>1, <2>2
<1>4. SoftBlockedLeft'
  BY <1>3 DEF SoftBlockedLeft, Used
<1>5. ASSUME NEW t \in 1..issued', row'[tokens'[t].row].blocked = "forever"
      PROVE  tokens'[t].guest
  <2>1. CASE t \in 1..issued /\ tokens'[t] = tokens[t]
    BY <1>1, <1>2, <1>5, <2>1 DEF SoftBlockedTold, GuestTokens
  <2>2. ASSUME NEW j \in Jobs, job[j].pc \in Pairing,
               tokens'[t].row = job[j].row, tokens'[t].guest = job[j].guest
        PROVE  tokens'[t].guest
    <3>1. job[j].row \in Rows /\ job[j].guest \in BOOLEAN
      BY <1>1, <2>2 DEF IInv, Base, TypeOK, Job
    <3>2. row[job[j].row].blocked = "forever" \/ row[job[j].row].guest = TRUE
      BY <1>2, <1>5, <2>2, <3>1
    <3>3. job[j].guest # FALSE
      BY <2>2, <3>2 DEF NoneAfterwards, GuestJobs
    <3> QED
      BY <2>2, <3>1, <3>3
  <2> QED
    BY <2>1, <2>2, PairTells
<1> QED
  BY <1>4, <1>5 DEF SoftBlockedTold

\* "isGuest -> false: strips guest token privileges" (tasks.service.ts:21) holds of whoever has
\* neither been refreshing nor converting when the cron job ran, or after it did: every token of a
\* soft-blocked guest says that he is one, and the guard finds that he is not.
THEOREM SoftBlockRefuses == Spec /\ []NoneAfterwards => []SoftBlockedHasNoAccess
<1>1. Init => /\ GuestJobs /\ GuestTokens
              /\ SoftBlockedLeft /\ SoftBlockedTold
  BY DEF Init, Idle, Unused, GuestJobs, GuestTokens, Pairing, SoftBlockedLeft, SoftBlockedTold
<1>2. IInv /\ GuestJobs /\ GuestTokens /\ [Next]_vars => GuestJobs' /\ GuestTokens'
  BY GuestTokensStep
<1>3. IInv /\ GuestJobs /\ GuestTokens /\ NoneAfterwards /\ SoftBlockedLeft /\ SoftBlockedTold
      /\ [Next]_vars => SoftBlockedLeft' /\ SoftBlockedTold'
  BY SoftBlockStep
<1>4. IInv /\ SoftBlockedLeft /\ SoftBlockedTold => SoftBlockedHasNoAccess
  <2> SUFFICES ASSUME IInv, SoftBlockedLeft, SoftBlockedTold, NEW t \in 1..issued,
                      row[tokens[t].row].blocked = "forever", Accepted(t)
               PROVE  FALSE
    BY DEF SoftBlockedHasNoAccess
  <2>1. tokens[t].row \in Rows /\ tokens[t].guest
    BY DEF SoftBlockedTold, IInv, Base, TokensInv
  <2>2. row[tokens[t].row].guest = FALSE
    BY <2>1 DEF SoftBlockedLeft
  <2> QED
    BY <2>1, <2>2 DEF Accepted
<1> QED
  BY <1>1, <1>2, <1>3, <1>4, Invariance, PTL DEF Spec

=============================================================================
