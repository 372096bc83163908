# Verification of the dwellr backend

TLA+ models of the NestJS backend in this repository (`src/`), model-checked with TLC, with
theorems proved in TLAPS. `PROJECT.json` maps every definition to the lines it models.

## 1. The system

One NestJS process over PostgreSQL (Prisma), with Stripe, Cloudinary, a mail server, Google's map
services, an AI service and socket.io around it. Every handler is an `async` function: **between two
`await`s nothing else runs, at every `await` anything may run**. A single Prisma call is atomic; a
`$transaction` is READ COMMITTED, so what it read may be stale when it commits. There are no row
locks and no version columns, and few handlers re-check at their write what they checked at their
read. The hard behaviour comes from this.

The models therefore look alike: tables are functions from ids to rows, a request is a *job* that
holds what it has read and names the call it makes next, there is one action per awaited call, and
a `JobFails` for a call that throws or a process that dies. Check and write are one action only
where nothing but a deletion can undo the check and the write then fails on the missing row.

### Inventory

| Component | State | Operations | Meets | What is hard |
|---|---|---|---|---|
| Billing `subscription/` | `users.status, isPaid, stripe*Id`, `payments`, `subscription_events` | checkout, cancel, reactivate, six webhook handlers | Stripe calls and webhooks, admin overrides | events late, repeated, out of order; decisions on rows read before an await; Stripe and the row change at different times |
| Admin overrides `admin/` | `users.isPaid, status, adminGranted*` | grant, revoke | the same columns as the webhooks | neither looks at Stripe |
| Accounts and guests `auth/user/` | `users` (address, OTP, attempts, block, refresh token hash) | register, verify, resend, forgot, reset, log in, guest, Google, Apple, refresh, log out | guard, cron job, mail, sessions | look-up and write by different keys; conversion of one guest by two requests; tokens outlive the row's state |
| Guards `auth/guards/` | none (token, and a guest's row) | accept or refuse a request | accounts, staff, cron job | a guest's token is checked against the row, any other token is not |
| Cron jobs `tasks/` | `users` | soft-block of guests | accounts | runs every minute against requests |
| Moderation `admin/` | `users.isDeleted, purgeAt, blockedUntil`, `user_flags`, `invitations` | block, delete, restore, erase, flag, resolve, invite, accept | accounts, billing, content, collections | erasures await Stripe and Cloudinary between check and transaction; invitations accepted after the address got an account; three lists of roles |
| Staff accounts `auth/admin/` | `users` with a staff role | log in, refresh, the owner's self-healing | moderation, sessions | the guard believes the token's role |
| Contact queries `contact-query/` | `contact_queries` with a JSON activity log; `users.canDeleteQueries` | submit, reply, assign, note, bulk actions, delete, grant the privilege | mail, moderation | the log is read, extended and written back whole; privileges change between check and deletion |
| Staff chat `chat/` | groups, members, messages, reactions; the gateway's sockets and rooms in memory | connect, join, leave, send, edit, delete, react, add and remove members | database against in-memory rooms | gateway and controller admit the site's owner only, but he may have several tabs; events may overtake one another |
| Collections and sharing `collection/ shared-report/ report/` | collections, reports, share tokens | create, add, move, compare, share, view, delete | lifetimes of each other, erasure of accounts | links hold ids without foreign keys; views and lists are several reads |
| Home and on-site reports `report/ onsite-report/ auth/helpers/` | reports, captures, analyses | find pictures, write, rate, save, read by access level | AI and map services, sharing | four tables and two copies of the rule of the quarters must agree; made under one access level, read under another |
| Content `faq/ insight/ questions/ dynamic-page/ user/ onsite-report/` | rows that name Cloudinary files | create, update, delete | Cloudinary, moderation | the old file goes before the row stops naming it; the guard of a category's deletion against a new question |
| Newsletter `newsletter/` | subscribers, broadcasts | subscribe, unsubscribe, toggle, delete, broadcast | mail | recipients read once, counts and dates written at the end of a long request |
| Sessions and presence `admin/presence.service.ts`, `audit.service.ts`, log-ins | `user_sessions`, `users.lastLoginAt`, in-memory presence | sign in, sign out, heartbeat, profile page, list | log-ins | session found at one await, marked at the next; midnight, silence and restarts |
| Task manager `task-manager/` | tasks, comments | create, update, delete, comment | push | owner only, one row per request |
| Dashboards, notes, audit, mail, push | append-only rows, I/O | | every component | nothing that a model checker reaches |

### What makes each of them correct

* Billing: access always has a cause, Stripe ids stay with their owner, access agrees with Stripe
  when everything is handled, every invoice is recorded, an ended subscription ends access.
* Accounts: a verified address was proved, an account keeps its address, a refused token stays
  refused, a soft-blocked guest has no access.
* Moderation: nobody is on the staff who was not mailed an invitation to that role, the owner's
  account is never lost, what a token claims is true, a flag is about accounts there are.
* Contact queries: an inquiry is answered only after a mail and for good, it leaves only at a
  privileged request, no note is lost.
* Chat: the online list is that of the connected tabs, a tab hears its rooms and shows what is stored.
* Sharing: a link shows only what its sharer had and still has; a collection holds its owner's
  reports of its type.
* Reports: a report speaks of its own address and of one entrance; what a response opens is there.
* Content: no row names a deleted file, no file is lost, no question loses its category.
* Newsletter: everybody on the list is tried once, who left is on no later list, the record is true.
* Sessions and presence: one current session, the latest of the day; the list shows who is there.

## 2. Plan

Each module is written so that it can be proved about: constants with assumptions, one action
per awaited step, invariants as named conjuncts, no RECURSIVE.

1. `Subscription` + `Subscription_proofs` - billing. **Done.**
2. `Account` + `Account_proofs` - accounts, guests, tokens. **Done.**
3. `ContactQuery`, `InquiryLife` + `ContactQuery_proofs` - inquiries, with the proof that they
   implement their abstract life. **Done.**
4. `Moderation`, `Membership` + `Moderation_proofs` - administration of accounts, with the proof
   of the refinement. **Done.**
5. `Sharing`, `Publication` + `Sharing_proofs` - reports, collections, links, with the proof of the
   refinement. **Done.**
6. `Content` + `Content_proofs` - rows and files. **Done.**
7. `Newsletter`, `Mailing` + `Newsletter_proofs` - with liveness, and the proof of the refinement.
   **Done.**
8. `Chat`, `Desk` + `Chat_proofs` - tabs, sessions and presence. **Done.**
9. `HomeReport` - the making of a report; its proofs close `Content_proofs`. **Done.**
10. The facts of the abstract specifications, carried over to the modules that implement them.
    **Done.**
11. What the code promises only under a condition it does not enforce - notes, flags, deletions,
    refreshes, invitations, payment rows: theorems that state the condition. **Done.**
12. Next: such conditions for the remaining claims of section 5 (two subscriptions, access until the
    period ends), and shorter proofs where leaves still cite more than they need.


## 3. Modules

### Subscription

State: `user` (billing columns), `payRows`, `lastEvent` are tables; `owner`, `stripe`, `sessions`,
`events` are Stripe; `job` holds what each request or webhook delivery has read and the awaited call
it makes next. One action per awaited call:

| Action | Code |
|---|---|
| `Deliver`, `FoundUsers` | `handleWebHook` dispatch and `findUserByStripeIds` |
| `ApplyEvent` | the users-table write of the six handlers |
| `CreatePayment`, `CreateEventRow` | the inserts that follow it |
| `SubscribeBegin/Customer/CreateCustomer/Link/Session` | `crateCheckoutSession` with `getOrCreateStripeCustomer`, one step per await |
| `CancelBegin/AtStripe/Save`, `ReactivateBegin/Check/AtStripe` | `cancelSubscription`, `reactivateSubscription` |
| `AdminGrant`, `AdminRevoke` | `grantUserAccess`, `revokeUserAccess` |
| `WebhookFails`, `StripeRepeats`, `RequestFails` | a throwing handler, Stripe's retry, a failing request, a crash |

`StripeStartSubscription` ... `StripeEnd` are the environment: what Stripe does to a subscription
and which events it sends for it. An event carries the snapshot of its moment, as the payload does.

### Account

State: `row` is the users table, `job` as above, `tokens` the pairs clients hold, `mailed` the OTPs
in mailboxes, `resetTokens` the reset tokens handed out, `proved` the addresses whose owner has
shown up. A handler that reads, decides and writes one await later is two actions
(`VerifyBegin`/`VerifyAccountWrite`, `ForgotBegin`/`OtpWrite`/`OtpMail`, ...); a transaction is its
reads and its commit (`RegisterBegin`/`RegisterCommit`, `GoogleBegin`/`GoogleConvert`). `Accepted` is
the guard. `googleLogin` and `appleLogin` have the same steps and share their actions. Time is
`GuestExpires` and `BlockEnds`; `ExpireGuests` is the cron job's `updateMany`.

### ContactQuery and InquiryLife

State: `query` is the `contact_queries` table, `canDelete` the privilege column of `users`, `job` what
each request has read and does next, `mailed` the senders' mailboxes, `cleared` who passed
`checkCanDelete` for what. A log entry or a note is the number of the request that wrote it.

| Action | Code |
|---|---|
| `Submit` | `submitQuery` |
| `Begin` | the `findUnique` that `replyToQuery`, `assignQuery`, `updatePriority` and `addInternalNote` begin with |
| `ReplyMail`, `ReplyWrite` | the mail and the update of `replyToQuery` |
| `AssignStaff`, `AssignWrite` | the look-up of the target and the update of `assignQuery` |
| `PriorityWrite`, `NoteWrite` | the updates of `updatePriority` and `addInternalNote` |
| `SetStatus`, `BulkAssign` | `updateStatus` and `bulkAction` |
| `DeleteBegin`, `DeleteWrite` | `checkCanDelete`, then the deletion of `deleteQuery` and `bulkAction` |
| `TogglePermission`, `UpdatePermissions` | `toggleStaffDeletePermission`, and `updatePermissions` of the admin service, which writes the same column |
| `JobFails` | a failing call, a row that is gone, a crash |

`InquiryLife` is what the workflow promises: an inquiry is absent, open, answered or removed; it is
answered only after its sender was mailed, stays answered, and is removed only at the request of
somebody privileged at the check. `ContactQuery` implements it with `life <- LifeOf` (read off the
columns `replied` and the existence of the row) and `privileged <- Privileged`. The status column is
not part of the promise: `assignQuery` writes back the status it read, so an answered inquiry may
leave RESOLVED. That the privilege may be revoked between the check and the deletion is part of
the promise as the code makes it.

### Moderation and Membership

State: `user`, `invite`, `flag` are tables, `mailed` the invitation tokens that reached a mailbox,
`session` the claims of the access tokens issued to staff. A request is made with claims `c`, which
`May` and `Admits` judge as the role guard does (`RouteType` is the decorator of each route).

| Action | Code |
|---|---|
| `LogIn`, `Refresh`, `Restart` | `loginAdmin`, `refreshToken`, `onModuleInit` with `ensureSiteOwnerExists` |
| `InviteBegin/Clear/Create/Mail` | `createAdmin` and `inviteTeamMember`: look-up, deletion of older invitations, `create`, mail |
| `AcceptBegin/Create/Consume` | `acceptInvite`: invitation and address, `create`, `delete` |
| `SignUp` | a user's registration, as far as its address meets the invitations |
| `Block`, `Unblock`, `SoftDelete`, `Restore` | the operations of those names |
| `EraseBegin`, `EraseWrite` | `deleteAdminOrUser`: checks, calls outside, transaction |
| `FlagUser`, `ResolveBegin/Write`, `CarryOut` | `flagUser`, `resolveFlag`: the decision, then the block or deletion an await later |

`Membership` is the abstract specification: an account joins with an address nobody has, on the staff only with
an invitation that was mailed for that role; roles never change; the erased do not come back; the
owner stays. `Moderation` implements it with `member` read off the kept rows and `invited` off `mailed`.

### Sharing and Publication

State: `report`, `collection`, `inside` (the join table) and `share` (links, by token). The schema's
foreign and unique keys are guards of the writes, its cascades part of the deletions (`DeleteUser`,
`EraseUser`).

| Action | Code |
|---|---|
| `CreateReport`, `DeleteReportBegin/Write` | `createReport`, `submitReport` and `deleteReport` of the report services |
| `CreateCollection`, `Rename`, `RemoveCollection`, `AddReport`, `RemoveReport` | `create`, `rename` and `update`, `remove`, `addReport`, `removeReport` of the collection service |
| `ListBegin`, `ListRest` | `findAll`: the collections, an await later the reports that are in none |
| `ShareBegin`, `ShareWrite` | `generateShareLink`, `generateCollectionShareLink`, `generateComparisonShareLink` |
| `ViewBegin`, `ViewFirst`, `ViewLast` | `getSharedReportPreview`, `getSharedReportFull` and the six builders: the link, then what it leads to, one read at a time |

`Publication` is the promise: user u makes report r public only while it is his, deletion and
departure withdraw it, nothing deleted returns. It is implemented with `public <- Public`, the pairs a
link would show now; `ViewsHonest` adds what a request that reads several times may answer.

### Content

State: `row` holds the rows of five tables that name files, `category` the questions table, `stored` the files in Cloudinary.
Every handler goes through the same calls in an order of its own, which is its *plan*: `Creation`,
`CreationWithCover`, `ChangeAfterDrop`, `ChangeOnly`, `Deletion`.

| Action | Code |
|---|---|
| `CreateFaq/Insight/Category/Page`, `SubmitReport` | the look-ups and the first await of the creations |
| `UpdateFaq/Insight/Category/Page/User/Admin` | of the updates; `UpdateAdmin` is the admin service's |
| `DeleteFaq/Insight/Category/Page/User/Report`, `EraseAccount`, `DeleteRemoteReport` | of the deletions; `EraseAccount` is `deleteAdminOrUser`, whose `Erase` drops the reports and lets go of their photos |
| `Drop`, `Upload` | one call of the store, which may fail (the code swallows some failures: `Fails`) |
| `Insert`, `Update`, `Remove`, `Erase` | the write, with its unique keys and foreign keys |
| `FileQuestion`, `RefileQuestion`, `DeleteQuestion` | `questions.service` |

### Newsletter and Mailing

State: `row` the subscribers by address, with an id that tells a new row from a deleted one; `broadcast` the
long request's local variables and its row; `tried` and `left` are history. `Begin`-like actions
(`Subscribe`, `Unsubscribe`, `ToggleStatus`, `DeleteSubscriber`) read, `Write` writes by the id read.
`ListRecipients`, `CreateBroadcast`, `SendBatch`, `MailAnswered`, `RecordCounts`, `RecordDates` are
`sendBroadcast`, `BroadcastFails` and `Restart` cut it off. `Mailing` is its promise: the recipients are
fixed at the start, nobody is tried twice, the report counts every outcome.

### Chat

State: `group`, `message` are tables; `socket`, `online` are the gateway's memory; `told` is the last online
list that was sent. `Connect`/`FinishConnect`/`Disconnect` are `handleConnection` around its await and
`handleDisconnect`; `JoinGroup`, `LeaveRoom`, `LoadHistory` are what a page asks; `CreateGroup` ...
`RemoveMember` change rows and then rooms; `Send`, `Edit`, `Delete`, `React` begin a job that
`Write`s, `Look`s the groups up where the handler does and `Emit`s to the room. A socket `shows` what its
page has heard and loaded.

### HomeReport

State: `token` (the visitor's access level), `work` (the request in flight), `report` (the table),
`shown` (the last response). `AddressNumber`, `TextValue`, `Reduced` are the numerology helpers,
`Cardinal` and `CardinalFromBearing` the two copies of the rule of the quarters, `Score`, `Level`,
`Rating` the rating, `Payload` and `RoomContext` what the writing service is told, `Told`, `Sources`,
`View`, `PreviewSections` what a response opens. `CreateReport`, `SubmitVisit`, `FindPictures`,
`WriteReport`, `WriteOnsiteReport`, `SaveReport` make a report, `ReadReport`, `ListReports`,
`ListOnsiteReports`, `OpenSharedReport`, `PreviewReport` show it. A text is abstracted to what it is
about: whether a section opened is blank, not what it says.

### Desk

State: `sessions` (each account's rows, in order of `loginAt`), `lastLogin`, `presence` (the map in
memory). A request is the list of database calls it still makes: `SignIn`, `SignOut`,
`OpenProfile`, `SendHeartbeat` begin it; `CloseAll`, `OpenOne`, `Stamp`, `Find`, `Touch`, `LookUp`, `Fill`,
`StampBack` are the calls (`recordLoginSession`, `loginAdmin`, the log-outs, `recordHeartbeat`, the
back-filling of `getStaffWorkTimeDetails` and `getStaffFullProfile`). `GetActivePresences` is the list; `Minute`, `Midnight`, `ServerRestart`
the environment.

### How they fit together

The modules share columns, not variables. Where two components write the same column or lifetime,
the writers are actions of the module whose properties depend on it: the admin overrides in
`Subscription`, `updatePermissions` in `ContactQuery`, the cascades of an account's deletion in
`Sharing`, the files of an erased account in `Content`, registrations in `Moderation`, the session
writes of every log-in in `Desk`. The place of a report in links and collections is in `Sharing`, its
photos in `Content`, its contents in `HomeReport`.

## 4. Runs

| Run | Shows | Bounds |
|---|---|---|
| `billing_unordered` | ids stay with their owner, access has a cause, under any order of delivery | 2 accounts, 2 customers, 1 subscription, 2 jobs, 5 events, 1 invoice, 1 admin act |
| `billing_ordered` | deliveries in order: access agrees with Stripe at rest, every invoice of a user with one customer is recorded, with one retry | 1 account, 2 jobs, 9 events, 2 invoices, 1 retry |
| `billing_fair` | without overlapping requests the trail agrees with the row, an ended subscription ends access | 1 account, 1 job, 9 events, 2 invoices, 1 retry |
| `account` | verified addresses are proved, addresses kept, refused tokens stay refused | 1 row, 2 addresses, 1 device, 2 jobs, 2 tokens, 2 OTPs |
| `contact_queries` | the workflow implements `InquiryLife` | 1 inquiry, 2 staff of which the owner is one, 1 customer, 2 jobs, 2 that write the log |
| `moderation` | the administration implements `Membership`, claims are true, flags are about accounts there are | 2 accounts, 2 addresses, 2 roles to invite to, 1 invitation at a time, 1 flag, 2 jobs |
| `sharing` | collections are sound, links implement `Publication`, views and lists are honest | 2 users, 3 reports one of which on-site, 1 collection, 2 names, 1 link, 2 jobs |
| `content` | no row names a deleted file, no file is lost, no question loses its category | 2 FAQs, 1 insight, 2 categories, 2 pages, 2 people one of which on the staff, 1 report with 2 photos, 1 question, 2 names, 2 jobs, 3 requests, 3 uploads |
| `newsletter` | a broadcast implements `Mailing`, who left is skipped, dates are true, broadcasts end | 3 people, 1 broadcast, batches of 2, 2 rows an address, 2 jobs, 4 requests |
| `chat` | the online list is honest, rooms are restored, tabs agree with the table | 2 tabs, 1 group, 1 colleague, 1 message, 2 texts, 2 jobs, 3 requests |
| `home_report` | a report speaks of its own entrance, what a response opens is there | 1 row, the addresses and bearings at the edges of every rule, visits of 2 elements in 2 rooms |
| `desk` | one current session, the latest; the presence list is honest | 2 staff of which the owner is one, 1 whose sessions are followed, 1 target, 2 jobs, 2 sessions, 1 tick in two minutes |

Why the bounds are enough:

* Two jobs are what it takes to interleave a read with another request's write; a third meets
  the same rows in the same states.
* Billing: a second account and customer are what it takes to mix ids up; five events hold a whole first
  purchase in any order, the later life of a subscription is in the other two runs and in the theorems.
* Accounts, inquiries, flags: every hazard is about one row seen by two requests, and no handler but the bulk
  writes sees two rows. `moderation` has a second account, the owner's, because he is the exception to most rules.
* Sharing: two reports make a comparison, the third is of the other type; the second user is who must not see them.
* Content: a second row in a table is needed for a name that is taken, three requests for one that
  meets what two others left behind.
* Newsletter: three people make a batch and a rest; a second row of an address is the person who
  was deleted and joined anew.
* Chat: one tab acts, the other must hear of it; a group and a colleague are the two kinds of rooms.
* Home reports share nothing, so one suffices; `HomeReportMC` takes buildings and texts that reach
  a master number, an ordinary one and none, and bearings on either side of each quarter and outside the circle.

The runs of billing, accounts, inquiries, sharing and content say `CHECK_DEADLOCK FALSE`: the bounds
on events, tokens, requests or rows end the behaviour, or an environment that is out of moves does. The
others check that there always is a next step.

### Fairness

`billing_fair` assumes weak fairness of a handler's next step (a resolved promise runs), and
strong fairness of delivery (Stripe retries for days, and a server busy with one request still
answers the webhook). `newsletter` assumes weak fairness of a broadcast's next step: the server
runs, and each call of the mail service or the database answers, with success or failure. What
Stripe, users and admins do is not fair: nobody has to pay, to subscribe or to send.

## 5. Where the code and its words disagree

Found while modelling. Each is a formula of a module that the code does not satisfy; TLC finds
the behaviour with the constants given. No run includes them.

* **Two payment rows for one invoice** (`OnePaymentPerInvoice`). `subscription.service.ts:481` says
  that the checkout handler leaves the payment row to `invoice_payment.paid`; the handlers of both
  `invoice.paid` and `invoice_payment.paid` (`:381`, `:437`) insert one, and nothing compares the invoice's id.
  `SubscriptionMC` with one account, 2 jobs, 5 events, 1 invoice, in order,
  `InvoiceEvents = {"invoice_paid", "invoice_payment_paid"}`. With one of the two it holds until a delivery is
  repeated (theorem `OneRowEach`).
* **Access does not always last until the period ends** (`KeepsAccessUntilPeriodEnd`). `:201` promises "You keep Pro
  access until then"; an `incomplete` snapshot delivered late finds the row `cancelled` rather than
  `active`, passes the guard at `:565` and takes the access away. Unordered, 1 job, 7 events, 1 invoice.
* **Two subscriptions at once** (`OneActiveSubscription`). `:137` answers "You already have an active subscription"
  by the row's status, which only the webhook sets: two checkout sessions may both be paid. 2 subscriptions, 1 job, 10 events,
  2 invoices, in order.
* **An expired guest may convert** (`ExpiredGuestRejected`). `docs/guest-conversion-manual-test.md:316` expects "400 Bad
  Request" for an expired guest id; the registration (`user.service.ts:234` on) looks for the row and never at
  `guestExpiresAt`. `AccountMC` with 1 row, 1 address, 1 job, 2 tokens, 1 OTP.
* **A soft-blocked guest may keep access** (`SoftBlockedHasNoAccess`). `tasks.service.ts:21` says the auth guard rejects the guest's
  tokens; a refresh (`user.service.ts:1086`) reads the row, now with `isGuest` false, and issues a pair the
  guard does not look up. The same constants. Such a refresh, or a conversion in flight, is the only way
  (`SoftBlockRefuses`).
* **A recorded note may vanish** (`RecordedNotesKept`). `contact-query.service.ts:624` answers "Internal note recorded."; the column is
  rebuilt from the row read an await before (`:595`), so of two notes one is lost. The constants of `contact_queries`.
  Such overlaps are the only way (`NotesKept`).
* **An invited colleague may be unable to log in** (`ActivatedMayLogIn`). `admin.service.ts:1009`: "Account activated successfully. You can
  now log in."; one can be invited as `customer_support`, and `auth/admin/admin.service.ts:41` admits
  `admin` and `super_admin` only. `ModerationMC` with three ids, `Invitable = {"admin", "customer_support"}`, no flags. With
  the two roles of the log-in it holds (`ActivatedLogIn`).
* **The owner may be marked as deleted** (`OwnerUnmarked`). `softDeleteUser` answers "The primary Site Owner account cannot
  be deleted." (`admin.service.ts:1153`); an approved flag (`:1302`) marks any account. One flag. Without a flag about him nothing
  marks him (`OwnerKept`).

Smaller observations, which need no model checker:

* The rating of a home is 73, less 5 for each red flag of its direction and 10 for each number that has a
  meaning: it lies between 43 and 68, so the levels "supportive" and "highly supportive" are given to nobody.
* A bearing outside 0..360 counts as north; a building number of four to six digits is dropped from an
  address as a postal code; `onsite-report.types.ts:12` lists intercardinal directions, the code yields four.
* A remote report stores the client's `entranceLabel` while its texts use the quarter computed from the bearing.
* `getMyReports` returns whole rows whose sections the page of a single report locks, and a link's preview
  shows the direction that page locks.
* `recordHeartbeat` counts the owner in its `activeCount` though `presence.service.ts:147` hides "the site owner's presence
  completely" from others.
* Two checkouts of one user that overlap (`:141`, `:48` on) may each create a customer at Stripe; the row keeps the last, and
  an event of the other may find nobody, so its payment is not recorded: TLC shows it with 1 account, 2 customers and
  2 jobs, unordered. `PaymentsRecorded` therefore speaks of users with one customer (`OneCustomerEach`).
* Overlapping refreshes of one token, `resendOtp`'s deletion on a stale read, and `resolveFlag`'s two
  decisions are modelled and listed among the hazards; nothing in the repository says what should hold. What does
  hold, and when, is proved: `SpentForEver`, `VerifiedKept`, `DecisionsAgree`.

## 6. Proofs

`Subscription_proofs`, `Account_proofs`, `ContactQuery_proofs`, `Moderation_proofs`, `Sharing_proofs`,
`Newsletter_proofs`, `Content_proofs` and `Chat_proofs`, for every value of the constants, from the named
assumptions of each module (`NoneIsNoValue`, `Parameters`, `NewsletterParameters`, `DeskParameters`,
`ReportParameters`): none is a value, the ids of the tables are disjoint, some invoice event is subscribed to.
`Chat_proofs` extends both `Chat` and `Desk`, `Content_proofs` both `Content` and `HomeReport`, which is why
`Desk` and `HomeReport` qualify the names they would share (`DeskSpec`, `ReportSpec`, ...). TLC checked every inductive
invariant of the theorems that runs check before it was proved.

* **Billing.** `TypeCorrect`, `OwnRecords`, `CausedAccess`. The properties are not inductive: a job
  that has read an event will write what the event says. `IInv` therefore follows the cause along its
  path: what Stripe holds (`SubsInv`), what an event says (`EventsInv`), what a job carries
  (`JobsInv`), what the row has (`RowsInv`). `Grows` states what no step undoes (owners, payments,
  grants); each action lemma then only has to show the part it changes (`StepLemma`).
  `RecordedPayments`: `PaymentInv` keeps the books of each invoice - rows, waiting events and deliveries that have
  not inserted together never exceed what Stripe has sent, and never vanish while every user has one customer.
  `AgreedAccess` assumes `InOrder`: `AgreementInv` says that the newest event about a subscription that waits or
  is in hand says what Stripe holds (`NewestTrue`), and so does a row that is not behind (`RowsTell`). `ToldTrail`
  assumes `OneAtATime` too, as one request or delivery overtaking another writes the trail in another order than the
  rows: `TrailInv` says that a status not yet in the trail is on its way there with an event. Both are about states
  that are `Plain`: no admin has acted, no user has two customers or two subscriptions.
  `OneRowEach` follows from `RecordedPayments` where one invoice event is subscribed to.
* **Accounts.** `TypeCorrect`, `VerifiedProved`, `AddressKept`, `StaysRefused`. `Base` says what a job
  may rely on after its awaits (the row it read still exists, the address it is about to verify was
  proved); `Conv`, assumed only when conversions of one guest do not overlap, says that the row of
  a conversion in flight still has no address. Most handlers are `Harmless` edits, for which one lemma
  settles everything; conversions, new rows and token issues have their own.
  `VerifiedProved` and `AddressKept` assume `~Overlapping`: the code has no such lock, and with
  `Overlapping` TLC finds both violated (a hazard in `PROJECT.json`). The other theorems hold with
  overlaps too: `Effects` says what a step does to owners and tokens - a row takes an address under which no
  other is found, is verified, deleted or a new guest's, one row at most gets the new pair. From it `AddressesUnique`
  (a unique index is one of its guards, the look-ups are the others) and `SpentForEver`. `VerifiedKept` assumes
  `DeletesAlone`: while a deletion by address is about to be made no other request names the address.
  `GuestsLookedUp` rests on `GuestJobs`, what a request that is about to issue says of its row; `SoftBlockRefuses`
  assumes `NoneAfterwards`: no request that read the row as that of a non-guest is about to issue for a soft-blocked one.
* **Contact queries.** `TypeCorrect` and `Implements`: `Spec => ImplementsLife`. `IInv` adds to the types
  that a reply on record was mailed (`Mailed`) and what a request may rely on after its awaits
  (`JobsInv`): its inquiry was submitted, a reply about to be recorded was mailed, what is about to be
  deleted was cleared. With it each action maps to one of `InquiryLife` or to a stutter:
  `Submit` to `Open`, `ReplyMail` to `Mail`, the first `ReplyWrite` to `Answer`, `DeleteBegin` to `Clear`,
  `DeleteWrite` to `Remove`, `TogglePermission` and `UpdatePermissions` to `Grant`; all others show in
  no life. `NotesKept` assumes `OneReaderEach`, no two requests that rewrite an inquiry from what they
  read: then what one has read still stands in the row (`SeenTrue`), as bulk actions leave both columns alone.

* **Moderation.** `TypeCorrect`, `TrueClaims`, `LiveFlags` and `Implements`: `Spec => ImplementsMembership`. `IInv`
  adds to the types that the owner's row stays and nobody else looks like it (`OwnerSafe`), that a claim in a token
  is the role of an account there was (`ClaimsInv`), that a mailed invitation keeps what it says
  (`InvitesInv`), that a flag names accounts there are (`FlagsInv`), and what a request may rely on after its
  awaits (`JobsInv`): who is about to be erased is not the owner, and who is about to join was mailed
  the invitation to that role. Most steps are `SamePeople`, they change marks only; `AcceptCreate` and
  `SignUp` map to `Join`, `InviteMail` to `Invite`, `EraseWrite` to `Erase`, the rest shows in no membership.
  `DecisionsAgree` assumes `Undisturbed` (one request decides about a flag, none of its accounts is being erased),
  `OwnerKept` that no flag is about the owner (`OwnerUnflagged`), `ActivatedLogIn` that one is invited as `admin` or
  `super_admin` only; `RolesAreInvited`, on which it rests, assumes nothing.
* **Sharing.** `TypeCorrect`, `SoundCollections`, `HonestViews` and `Implements`: `Spec => ImplementsPublication`. A
  link keeps ids no foreign key guards, so `IInv` says what they may still mean (`Fits`): what is named was there;
  a kept collection is still its sharer's, a kept report is as long as the sharer has an account. That holds
  of links, of links about to be made and of links being followed; for a comparison being read,
  either all of it was public when the view began or something not yet read is gone for good. `Grows`
  states what no step undoes. `CreateReport` maps to `Write`, `ShareWrite` and `AddReport` to `Publish`,
  `RemoveCollection` and `RemoveReport` to `Withdraw`, `DeleteReportWrite` to `Delete`, `DeleteUser` to `Leave`,
  `EraseUser` to `Erase`.

* **Newsletter.** `TypeCorrect`, `TrueDates`, `LeaversAreSkipped` and `Implements`: `Spec => ImplementsMailing`; the run
  checks them under `FairSpec`, which the proofs do not need. `BroadcastSound` says that everyone a broadcast
  listed waits, is being mailed or was tried, until something cuts it off, that nobody else was tried,
  and that its local counts are the cardinalities of the outcomes; `JobSound` what a request will write;
  `LeftInv` that nobody who has left is on the list or about to be put there. `ListRecipients` maps to
  `Announce`, `MailAnswered` to `Try`, `RecordCounts` to `Report`; a restart shows in no mailing. `People` has to be
  finite (`NewsletterParameters`), as the rows of a table are.

* **Content.** `TypeCorrect`, `ServedPictures`, `AccountedFiles`, `FiledQuestions`. What keeps overlapping requests from
  harm is that a file is known to one row or one request only (`Apart`), which in turn rests on fresh names
  (`Numbered`). `Served` says that a missing file is one that a request under way has deleted and will replace, until one
  fails; `Accounted` that, as long as nothing failed or overlapped, a request knows all files of its row. `JobSound`
  says what the kind of a request lets it do.
* **Chat.** `TypeCorrect`, `HonestOnline`, `RestoredRooms`, `AgreeingTabs`. `InStep` says how far a tab may be from the
  table: a request that has not written, or has and has not told, or is looking something up in between; `TellsTrue` that
  what will be told is what was stored, unless another request met the message (`crossed`). The online list and the
  rooms are inductive with the types and `GroupsInv`: the author of a group stays its member.
* **Sessions and presence.** `DeskTypeCorrect`, `CurrentLatest`, `HonestPresence`, of `DeskSpec`. For the list, `ListInv`: it and
  the heartbeats of the last two minutes name the same people and targets. For the sessions, `CallsInv` (sessions are in
  the order of their days, and what a request has found still holds) and `MarksInv`: until two requests that mark sessions of an
  account overlap, one marks them, and it knows what it marks (`Ready`).
* **Home reports.** `ReportTypes`, `OneEntrance`, `NothingBlank`, of `ReportSpec`. `WorkSound` says what the request in flight has
  settled: every capture has the direction of its own bearing, the main one that of the report. The lemmas are about the
  operators: both copies of the rule of the quarters agree (`QuartersAgree`), an address has at most two meanings, so
  the bounds of the rating are never reached (`RatingValue`), a full payload suffices for every section
  (`CompleteTold`), and the main element is the front entrance (`MainElementIs`).
  Nothing rests on what the digit sums come to: they are recursive functions, about which the provers know nothing.

Four of the theorems are refinements, and an abstract specification is only worth what it says. What it says is
proved of it and carried over (`Spec` implies it, and it implies the fact, so `Spec` does): `AnswersWereMailed`, `AnswersStay`;
`StaffWasInvited`, `MembersStay`; `PublicIsOwned`, `ReportsStay`; `RecordsAddUp`, `OutcomesStay` - of each pair the first is
an invariant, the second says what no step does. These invariants are inductive in the abstract specification by
themselves, in a few lines; over the code's own steps they need all of `IInv`, which the refinement has used up.

Some theorems assume a condition of every state (`Spec /\ []P => ...`) that the code does not enforce: `OneReaderEach`,
`DeletesAlone`, `NoneAfterwards`, `Undisturbed`, `OwnerUnflagged`. They say where the hazard lies, and that it lies
nowhere else. Requests that do not overlap meet all of them but `NoneAfterwards`, which also excludes a refresh
after the soft-block, and `OwnerUnflagged`, which excludes a flag.

Only model-checked: liveness (`EndedLosesAccess`, `BroadcastsEnd`), out of the prover's reach. The recursion of digit
sums is evaluated by TLC on the buildings of `HomeReportMC`, and by nothing else.

## 7. Not modelled

* **Task manager**: its controller admits the owner only, and each request reads and writes one row.
* **Dashboards, internal notes, audit trail, system status, security alerts**: aggregations that only
  read, rows that are only appended; nothing calls `createAlert` or `scanForAnomalies`.
* **Push and mail** as services: a mail succeeds or fails in the modules that await it; push notifications are not awaited.
* `autoPurgeExpiredAccounts`, which nothing calls; `checkExpiringGrants`, which only mails.
* Impersonation (its token is good for the routes of users only), the password changes of users and
  staff, `canViewUserDetails` and the other permission columns no decision reads.
* In the chat: mentions, attachments, the scan for suspicious words. Paged lists are single reads, except the list of
  collections and the chat's history.
* Inside the modelled components: amounts, currencies and billing cycles, names, passwords and the
  contents of pictures, an inquiry's priority and texts, the JWT clock, and guessing an OTP (the property is about
  addresses proved by mail).
