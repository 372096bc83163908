------------------------------ MODULE Account ------------------------------
(***************************************************************************)
(* Accounts, guests and their tokens: src/auth/user/user.service.ts, the   *)
(* guest check of src/auth/guards/auth-guard.ts and the soft-block job of  *)
(* src/tasks/tasks.service.ts.                                             *)
(*                                                                         *)
(* A handler reads the row, decides, and writes one await later, so a job  *)
(* is what it read and the step it is about to make.  Transactions are     *)
(* READ COMMITTED: a transaction's writes appear at its commit, but its    *)
(* earlier reads may be stale by then.                                     *)
(*                                                                         *)
(* Passwords, names and pictures are left out (a caller of loginAccount    *)
(* knows the password); an OTP is a number, never guessed, and its expiry  *)
(* is a refusal that may happen at any time; the login session rows are    *)
(* left out.  A guest's placeholder address is None.                       *)
(***************************************************************************)
EXTENDS Naturals, FiniteSets

CONSTANTS
    Rows,         \* ids of the users table
    Emails,       \* addresses people register with
    Devices,      \* guest device ids
    Jobs,         \* requests that may be in flight
    None,         \* a null column
    Overlapping,  \* two conversions of one guest may be in flight at once
    MaxTokens,    \* bound: token pairs issued
    MaxOtps,      \* bound: one-time passwords generated
    MaxAttempts   \* bound: value of otpAttempts

ASSUME NoneIsNoValue == None \notin Rows /\ None \notin Emails /\ None \notin Devices
ASSUME Parameters ==
    /\ Overlapping \in BOOLEAN
    /\ MaxTokens \in Nat /\ MaxOtps \in Nat
    /\ MaxAttempts \in Nat /\ MaxAttempts >= 3

VARIABLES
    row,          \* the users table
    job,          \* what each request has read and does next
    tokens,       \* external: the token pairs clients hold, by number
    resetTokens,  \* external: rows whose owner holds a reset token
    mailed,       \* external: the OTPs in each mailbox
    proved,       \* history: addresses whose owner has shown they own it
    otps,         \* OTPs generated so far
    issued        \* token pairs issued so far

vars == <<row, job, tokens, resetTokens, mailed, proved, otps, issued>>
clients == <<tokens, resetTokens, mailed, proved, otps, issued>>

Row == [state: {"unused", "live", "deleted"}, email: Emails \cup {None},
        guest: BOOLEAN, expired: BOOLEAN, device: Devices \cup {None},
        verified: BOOLEAN, otp: 0..MaxOtps, attempts: 0..MaxAttempts,
        reset: BOOLEAN, blocked: {"no", "minutes", "forever"}, refresh: 0..MaxTokens]

Unused == [state |-> "unused", email |-> None, guest |-> FALSE, expired |-> FALSE,
           device |-> None, verified |-> FALSE, otp |-> 0, attempts |-> 0,
           reset |-> FALSE, blocked |-> "no", refresh |-> 0]

\* What a job does next, named after its handler and step.
Steps == {"idle", "register", "verify", "verifyOtp", "resend", "forgot", "delete",
          "block", "mail", "guest", "convert", "create", "token"}

Job == [pc: Steps, row: Rows \cup {None}, email: Emails \cup {None},
        device: Devices \cup {None}, otp: 0..MaxOtps, guest: BOOLEAN]

Idle == [pc |-> "idle", row |-> None, email |-> None, device |-> None,
         otp |-> 0, guest |-> FALSE]

TypeOK ==
    /\ row \in [Rows -> Row]
    /\ job \in [Jobs -> Job]
    /\ tokens \in [1..MaxTokens -> [row: Rows \cup {None}, guest: BOOLEAN]]
    /\ resetTokens \in SUBSET Rows
    /\ mailed \in SUBSET (Emails \X (1..MaxOtps))
    /\ proved \in SUBSET Emails
    /\ otps \in 0..MaxOtps /\ issued \in 0..MaxTokens

Init ==
    /\ row = [r \in Rows |-> Unused]
    /\ job = [j \in Jobs |-> Idle]
    /\ tokens = [t \in 1..MaxTokens |-> [row |-> None, guest |-> FALSE]]
    /\ resetTokens = {} /\ mailed = {} /\ proved = {}
    /\ otps = 0 /\ issued = 0

-----------------------------------------------------------------------------
Live(r)   == row[r].state = "live"
\* findUser('email', e); the unique index leaves at most one.
Found(e)  == {r \in Rows : Live(r) /\ row[r].email = e}

Free(j)   == job[j].pc = "idle"
At(j, pc) == job[j].pc = pc
Start(j, r) == Free(j) /\ job' = [job EXCEPT ![j] = r]
Finish(j)   == job' = [job EXCEPT ![j] = Idle]

Edit(r, new) == row' = [row EXCEPT ![r] = new]

\* A new OTP goes into the row; it reaches the mailbox when the mail is sent.
NewOtp == otps + 1
FreshOtp == otps < MaxOtps /\ otps' = NewOtp

\* generateToken and the update of the refreshToken column: the pair names the
\* row the handler read, and whether it was a guest then.
Issue(r, guest) ==
    /\ issued < MaxTokens
    /\ issued' = issued + 1
    /\ tokens' = [tokens EXCEPT ![issued + 1] = [row |-> r, guest |-> guest]]

\* register and googleLogin / appleLogin turn a guest row into an account.
ConvertibleUnchecked(g) == Live(g)
ConvertibleUnlessBlocked(g) == Live(g) /\ row[g].blocked # "forever"
Convertible(g) == Live(g) /\ row[g].guest

NoneConverting(g) == \A j \in Jobs : job[j].pc \in {"register", "convert"} => job[j].row # g

\* What conversion clears.
ConvertedStillGuest(g, e) ==
    [row[g] EXCEPT !.email = e, !.device = None, !.expired = FALSE]
Converted(g, e) ==
    [row[g] EXCEPT !.email = e, !.guest = FALSE, !.device = None, !.expired = FALSE]

-----------------------------------------------------------------------------
(* register: one transaction that looks the address and the guest up, writes *)
(* the row, sends the OTP and commits.                                      *)

RegisterBegin(j, e, g) ==
    /\ Found(e) = {}
    /\ g # None => Convertible(g) /\ (Overlapping \/ NoneConverting(g))
    /\ Start(j, [Idle EXCEPT !.pc = "register", !.row = g, !.email = e])
    /\ UNCHANGED <<row, clients>>

\* The unique index refuses an address that was taken meanwhile.
RegisterCommit(j) ==
    LET e == job[j].email
        g == job[j].row
    IN  /\ At(j, "register")
        /\ Found(e) \subseteq {g}
        /\ g # None => Live(g)
        /\ FreshOtp
        /\ mailed' = mailed \cup {<<e, NewOtp>>}
        /\ \/ /\ g # None
              /\ Edit(g, [Converted(g, e) EXCEPT !.otp = NewOtp, !.attempts = 0])
           \/ /\ g = None
              /\ \E r \in Rows :
                    /\ row[r].state = "unused"
                    /\ Edit(r, [Unused EXCEPT !.state = "live", !.email = e, !.otp = NewOtp])
           \/ UNCHANGED row  \* the mail is out but the transaction fails
        /\ Finish(j)
        /\ UNCHANGED <<tokens, resetTokens, proved, issued>>

\* verifyAccount and verifyOtp compare the submitted OTP with that of the row they
\* read; the owner of the address submits the one in the mailbox.
VerifyBegin(j, step, e) ==
    /\ \E r \in Found(e) :
        /\ step = "verify" => ~row[r].verified
        /\ <<e, row[r].otp>> \in mailed
        /\ Start(j, [Idle EXCEPT !.pc = step, !.row = r, !.email = e, !.guest = row[r].guest])
    /\ proved' = proved \cup {e}
    /\ UNCHANGED <<row, tokens, resetTokens, mailed, otps, issued>>

\* Another OTP: otpAttempts: { increment: 1 }, by address.  The read before it
\* decides nothing the increment depends on, so the two are one step.
WrongOtp(e) ==
    /\ \E r \in Found(e) :
        /\ row[r].attempts < MaxAttempts
        /\ Edit(r, [row[r] EXCEPT !.attempts = @ + 1])
    /\ UNCHANGED <<job, clients>>

VerifyAccountWrite(j) ==
    /\ At(j, "verify")
    /\ Issue(job[j].row, job[j].guest)
    /\ \E r \in Found(job[j].email) :
        Edit(r, [row[r] EXCEPT !.verified = TRUE, !.otp = 0, !.attempts = 0,
                               !.refresh = issued + 1])
    /\ Finish(j)
    /\ UNCHANGED <<resetTokens, mailed, proved, otps>>

\* verifyOtp hands out a token for resetPassword.
VerifyOtpWrite(j) ==
    LET r == job[j].row
    IN  /\ At(j, "verifyOtp")
        /\ Live(r)
        /\ Edit(r, [row[r] EXCEPT !.otp = 0, !.attempts = 0])
        /\ resetTokens' = resetTokens \cup {r}
        /\ Finish(j)
        /\ UNCHANGED <<tokens, mailed, proved, otps, issued>>

\* resetPassword: whoever holds a reset token, as often as they like.
ResetPassword(r) ==
    /\ r \in resetTokens /\ Live(r)
    /\ Edit(r, [row[r] EXCEPT !.reset = FALSE, !.attempts = 0])
    /\ UNCHANGED <<job, clients>>

-----------------------------------------------------------------------------
(* resendOtp and forgotPassword.                                            *)

ResendBegin(j, e) ==
    /\ \E r \in Found(e) :
        /\ ~row[r].verified \/ row[r].reset
        /\ Start(j, [Idle EXCEPT !.email = e,
                        !.pc = IF ~row[r].verified /\ row[r].attempts = 3
                               THEN "delete" ELSE "resend"])
    /\ UNCHANGED <<row, clients>>

\* Three attempts on an account nobody verified: it is deleted, by address.
ResendDelete(j) ==
    /\ At(j, "delete")
    /\ \E r \in Found(job[j].email) : Edit(r, [row[r] EXCEPT !.state = "deleted"])
    /\ Finish(j)
    /\ UNCHANGED clients

ForgotBegin(j, e) ==
    /\ \E r \in Found(e) :
        /\ row[r].blocked = "no" /\ row[r].verified
        /\ Start(j, [Idle EXCEPT !.email = e,
                        !.pc = IF row[r].attempts >= 3 THEN "block" ELSE "forgot"])
    /\ UNCHANGED <<row, clients>>

ForgotBlock(j) ==
    /\ At(j, "block")
    /\ \E r \in Found(job[j].email) :
        Edit(r, [row[r] EXCEPT !.blocked = "minutes", !.attempts = 0])
    /\ Finish(j)
    /\ UNCHANGED clients

\* Both write the new OTP first and mail it then.
OtpWrite(j) ==
    LET forgot == At(j, "forgot")
    IN  /\ At(j, "resend") \/ forgot
        /\ FreshOtp
        /\ \E r \in Found(job[j].email) :
            /\ row[r].attempts < MaxAttempts
            /\ Edit(r, [row[r] EXCEPT !.otp = NewOtp, !.attempts = @ + 1,
                                      !.reset = @ \/ forgot,
                                      !.blocked = IF forgot THEN "no" ELSE @])
        /\ job' = [job EXCEPT ![j] = [@ EXCEPT !.pc = "mail", !.otp = NewOtp]]
        /\ UNCHANGED <<tokens, resetTokens, mailed, proved, issued>>

OtpMail(j) ==
    /\ At(j, "mail")
    /\ mailed' = mailed \cup {<<job[j].email, job[j].otp>>}
    /\ Finish(j)
    /\ UNCHANGED <<row, tokens, resetTokens, proved, otps, issued>>

-----------------------------------------------------------------------------
(* Log-ins.                                                                 *)

LoginBegin(j, e) ==
    /\ \E r \in Found(e) :
        /\ row[r].verified
        /\ Start(j, [Idle EXCEPT !.pc = "token", !.row = r,
                                 !.guest = row[r].guest])
    /\ UNCHANGED <<row, clients>>

\* guestLogin restores the device's session, or makes a new guest.
GuestBegin(j, d) ==
    LET known == {r \in Rows : Live(r) /\ row[r].guest /\ ~row[r].expired
                               /\ row[r].device = d}
    IN  /\ \/ \E r \in known : Start(j, [Idle EXCEPT !.pc = "token",
                                                     !.row = r, !.guest = TRUE])
           \/ /\ known = {}
              /\ Start(j, [Idle EXCEPT !.pc = "guest", !.device = d])
        /\ UNCHANGED <<row, clients>>

GuestCreate(j) ==
    /\ At(j, "guest")
    /\ \E r \in Rows :
        /\ row[r].state = "unused"
        /\ Edit(r, [Unused EXCEPT !.state = "live", !.guest = TRUE,
                                  !.device = job[j].device])
        /\ job' = [job EXCEPT ![j] = [Idle EXCEPT !.pc = "token", !.row = r, !.guest = TRUE]]
    /\ UNCHANGED clients

\* googleLogin and appleLogin: the provider vouches for the address.
GoogleBegin(j, e, g) ==
    /\ \/ /\ g # None
          /\ Convertible(g) /\ (Overlapping \/ NoneConverting(g))
          /\ Start(j, [Idle EXCEPT !.pc = "convert", !.row = g, !.email = e])
       \/ /\ g = None /\ Found(e) = {}
          /\ Start(j, [Idle EXCEPT !.pc = "create", !.email = e])
       \/ /\ g = None
          /\ \E r \in Found(e) :
                Start(j, [Idle EXCEPT !.pc = "token", !.row = r,
                                      !.guest = row[r].guest])
    /\ proved' = proved \cup {e}
    /\ UNCHANGED <<row, tokens, resetTokens, mailed, otps, issued>>

GoogleConvert(j) ==
    LET e == job[j].email
        g == job[j].row
    IN  /\ At(j, "convert")
        /\ Live(g) /\ Found(e) \subseteq {g}
        /\ Edit(g, [Converted(g, e) EXCEPT !.verified = TRUE])
        /\ job' = [job EXCEPT ![j] = [Idle EXCEPT !.pc = "token", !.row = g, !.guest = FALSE]]
        /\ UNCHANGED clients

GoogleCreate(j) ==
    LET e == job[j].email
    IN  /\ At(j, "create")
        /\ Found(e) = {}
        /\ \E r \in Rows :
            /\ row[r].state = "unused"
            /\ Edit(r, [Unused EXCEPT !.state = "live", !.email = e, !.verified = TRUE])
            /\ job' = [job EXCEPT ![j] = [Idle EXCEPT !.pc = "token", !.row = r, !.guest = FALSE]]
        /\ UNCHANGED clients

\* The last write of login, guestLogin, googleLogin and refreshToken.
SaveToken(j) ==
    LET r == job[j].row
    IN  /\ At(j, "token")
        /\ Live(r)
        /\ Issue(r, job[j].guest)
        /\ Edit(r, [row[r] EXCEPT !.refresh = issued + 1])
        /\ Finish(j)
        /\ UNCHANGED <<resetTokens, mailed, proved, otps>>

\* refreshToken: the token must be the one whose hash the row holds; what the
\* new pair says comes from the row, not from the old token.
RefreshBegin(j, t) ==
    LET r == tokens[t].row
    IN  /\ t \in 1..issued /\ Live(r) /\ row[r].refresh = t
        /\ Start(j, [Idle EXCEPT !.pc = "token", !.row = r,
                                 !.guest = row[r].guest])
        /\ UNCHANGED <<row, clients>>

LogOut(r) ==
    /\ Live(r)
    /\ Edit(r, [row[r] EXCEPT !.refresh = 0])
    /\ UNCHANGED <<job, clients>>

-----------------------------------------------------------------------------
(* Time, the cron job and failures.                                         *)

\* guestExpiresAt passes.
GuestExpires(r) ==
    /\ Live(r) /\ row[r].guest /\ ~row[r].expired
    /\ Edit(r, [row[r] EXCEPT !.expired = TRUE])
    /\ UNCHANGED <<job, clients>>

\* blockedUntil passes.
BlockEnds(r) ==
    /\ row[r].blocked = "minutes"
    /\ Edit(r, [row[r] EXCEPT !.blocked = "no"])
    /\ UNCHANGED <<job, clients>>

SoftBlocks(r) == Live(r) /\ row[r].guest /\ row[r].expired

\* expireGuests, every minute: one updateMany.
SoftBlockedUnmarked(r) == [row[r] EXCEPT !.guest = FALSE, !.blocked = None]
SoftBlocked(r) == [row[r] EXCEPT !.guest = FALSE, !.blocked = "forever"]

ExpireGuests ==
    /\ \E r \in Rows : SoftBlocks(r)
    /\ row' = [r \in Rows |-> IF SoftBlocks(r) THEN SoftBlocked(r) ELSE row[r]]
    /\ UNCHANGED <<job, clients>>

\* A call fails, a row is gone, a transaction is rolled back or the process dies.
JobFails(j) ==
    /\ ~Free(j)
    /\ Finish(j)
    /\ UNCHANGED <<row, clients>>

Work(j) ==
    \/ RegisterCommit(j)
    \/ VerifyAccountWrite(j) \/ VerifyOtpWrite(j)
    \/ ResendDelete(j) \/ ForgotBlock(j) \/ OtpWrite(j) \/ OtpMail(j)
    \/ GuestCreate(j) \/ GoogleConvert(j) \/ GoogleCreate(j) \/ SaveToken(j)

Request(j) ==
    \/ \E e \in Emails :
        \/ \E g \in Rows \cup {None} : RegisterBegin(j, e, g) \/ GoogleBegin(j, e, g)
        \/ \E step \in {"verify", "verifyOtp"} : VerifyBegin(j, step, e)
        \/ ResendBegin(j, e) \/ ForgotBegin(j, e) \/ LoginBegin(j, e)
    \/ \E d \in Devices : GuestBegin(j, d)
    \/ \E t \in 1..MaxTokens : RefreshBegin(j, t)

Next ==
    \/ \E j \in Jobs : Request(j) \/ Work(j) \/ JobFails(j)
    \/ \E r \in Rows : ResetPassword(r) \/ LogOut(r) \/ GuestExpires(r) \/ BlockEnds(r)
    \/ \E e \in Emails : WrongOtp(e)
    \/ ExpireGuests

Spec == Init /\ [][Next]_vars

-----------------------------------------------------------------------------
(* Properties.                                                              *)

\* AuthGuard: a non-guest token is accepted until it runs out; a guest's only
\* while the row it names is still a guest whose week has not passed.
Accepted(t) ==
    LET r == tokens[t].row
    IN  /\ t \in 1..issued
        /\ tokens[t].guest => Live(r) /\ row[r].guest /\ ~row[r].expired

\* A verified account's address belongs to somebody who showed it: by an OTP
\* mailed to that very address, or by the provider's word.  The OTP is compared
\* with the row a handler read, and the row is then written by address, while
\* registrations, conversions, resent OTPs and deletions go on.
VerifiedEmailProved ==
    \A r \in Rows : Live(r) /\ row[r].verified => row[r].email \in proved

\* "Use a guestId that was already converted ... 400 Bad Request"
\* (docs/guest-conversion-manual-test.md:165-178): nobody's account is taken over
\* by a second conversion of the guest it came from.
EmailKept ==
    [][\A r \in Rows : Live(r) /\ row[r].email # None => row'[r].email = row[r].email]_vars

\* A token the guard has once refused is refused for ever, although refreshes,
\* conversions and the soft-block job keep changing the columns it looks at.
RefusedForEver ==
    [][\A t \in 1..issued : ~Accepted(t) => ~Accepted(t)']_vars

\* "Expired guestId rejected | 400 Bad Request"
\* (docs/guest-conversion-manual-test.md:316): a request that presents the id of a
\* guest whose week has passed does not get to convert it.
Converting(j, r) == job[j].pc \in {"register", "convert"} /\ job[j].row = r
ExpiredGuestRejected ==
    [][\A j \in Jobs, r \in Rows :
        row[r].expired /\ ~Converting(j, r) => ~Converting(j, r)']_vars

\* "isGuest -> false: strips guest token privileges (auth guard rejects them)"
\* (tasks.service.ts:21): a soft-blocked guest holds no token the guard accepts.
SoftBlockedHasNoAccess ==
    \A t \in 1..issued : row[tokens[t].row].blocked = "forever" => ~Accepted(t)

=============================================================================
