# TLA+ verification of hotel-app

Specifications, model-checking configurations and machine-checked proofs of the
hotel guest platform in this repository. TLC checks the runs listed in
`PROJECT.json`; TLAPS (tlapm) checks the `*Proofs` modules.

## 1. The system

### Components

| component | state | operations | where |
|---|---|---|---|
| Signaling server: calls | `activeCalls` (process memory) | `call:initiate`, `accept`, `reject`, `ice-candidate`, `sdp`, `end` | `apps/signaling-server/src/handlers/call.handler.ts` |
| Signaling server: presence | `staffMap`, `guestMap` (process memory) | connect, disconnect | `services/presence.manager.ts`, `index.ts` |
| Call rate limiter | a Redis counter and its expiry per guest | `checkCallRate` | `services/rate-limiter.ts` |
| Department round robin | a counter per department (process memory) | `route` | `packages/core/src/adapters/department-round-robin.strategy.ts` |
| Access grants | `access_grants`, `wifi_vouchers`, audit rows (database) | issue, revoke, restrict, expire | `apps/api-server/src/modules/access/` |
| Refresh tokens | `refresh_tokens` (database) | issue, rotate, logout, revoke all | `modules/auth/token.service.ts` |
| One-time passwords | two Redis keys per phone | send, verify | `modules/auth/otp.service.ts` |
| Guest identities | `identity_records` (database) | create, self-register, approve, reject, merge | `modules/identity/` |
| Documents | S3 objects and `data_subject_records` | upload, list, retention rule | `modules/documents/` |
| Directory | `org_units`, `directory_entries` | create, update, deactivate, tree | `modules/directory/` |
| Service requests | `service_requests` | create, change status | `modules/service-requests/` |
| Call log, audit log | append-only rows | insert, list | `modules/calls/`, `modules/audit/` |
| API guards | a tenant cache in Redis | JWT, role and tenant checks | `apps/api-server/src/common/guards/` |
| Seed script | rows of a new installation | one run, repeatable | `packages/db/prisma/seed.ts` |
| Guest and staff call pages | a socket, a call id, a peer connection, the microphone | connect, answer, decline, end | `apps/guest-pwa`, `apps/staff-pwa` |
| Guest check-in pages and dashboard | `sessionStorage`, a form or poll in progress | details, code, document, two polls | `apps/guest-pwa` |
| Front desk, staff list, call log | the list a page has loaded | approve, reject, add, deactivate, load | `apps/admin-web` |
| Staff login and dashboard | `sessionStorage`, the list of requests | log in, load, change a status | `apps/staff-pwa` |

### How they interact

* A guest page opens a socket and sends `call:initiate` on every connect, with
  the one call id it drew when it was mounted. The signaling server asks the
  API server over HTTP for the guest's grant, counts the call in Redis, takes
  the next connected member of staff of the department and rings their page.
  Accept, reject, offers, candidates and end are relayed through the server,
  which posts call-log rows to the API server without waiting.
* Approving a guest issues an access grant, which provisions a WiFi voucher.
  Checkout, or the expiry job that cron starts every five minutes, revokes the
  grant, its vouchers and the guest's refresh tokens. Refreshing an access
  token rotates the refresh token.
* A guest's pages log in, register, upload a document and then poll the guest's
  grant; the front desk works from a list of records it has loaded. The staff
  pages go through the same API, which every request enters by three guards.
* Both servers are Node processes: code between two awaits is atomic, and
  everything else interleaves. The API server uses no transactions and may run
  as several processes, so its unit of atomicity is one database command.

### What is hard

Interleavings at the awaits of `handleInitiate`; sockets that are lost and
replaced while the old one's disconnect is still to come; a crash of the
signaling server, which forgets every call and all presence; check-then-act on
the database; operations of several commands that stop half-way; jobs of two
servers that overlap; Redis counters whose expiry is a second command. Every
hazard is in `PROJECT.json` under "hazards", at its line, with the properties
that cover it or why none does.

### What makes each component correct

* Calls: a call in the map is one its callee was rung for; what is answered was
  answered by that callee; each call that leaves the map is logged once with
  the right outcome; every `call:initiate` is settled.
* Presence: the list calls are routed from is exactly the connected staff.
* Rate limiter: no more calls are routed than the limit per window, and every
  window ends.
* Grants: revocation is final, audited, not early, and ends what the guest had
  (voucher, sessions); every grant past its end is revoked.
* Tokens: what has been exchanged is dead. (Two refreshes of one token that
  overlap both mint, so a chain may have two live ends.)
* Identities: no two records in use with one booking reference; the stored hash
  is that of the profile; an approval leads to a grant, and the audit rows
  explain every status.
* One-time passwords: a number gets no more codes than the limit; a code that
  was not delivered or has been used is not stored; a login finds the guest that
  an earlier one created.
* Documents: what is listed can be opened and is the guest's own; an object has
  its row or was cut off.
* Seed: repeatable over whatever an earlier run has left.
* Guards: no handler behind them runs for a role it is not meant for or a tenant
  that does not exist; a refusal is not for good.
* Check-in: reviews that do not overlap grant a record one stay at a time, unless
  its guest registers again during it; the pages follow the stay.
* Call pages: the server does not keep the call of a page that is gone, and the
  microphone is off when the page says so.
* Directory and service requests: whoever is added has an entry; requests are
  placed during a stay and reach the department.

## 2. Plan

1. `Signaling` and `SignalingProofs`: **done**.
2. `GrantEngine` and `GrantEngineProofs`: **done**.
3. `RateWindow` (what a rate limiter promises) and its two implementations, the
   call limiter and `OtpService` with `OtpServiceProofs`, shown to implement it
   up to crashes: **done**.
4. `IdentityRecords` and `IdentityRecordsProofs`: registration, approval, merge
   and duplicate detection, with the issue of a grant: **done**.
5. `CallScreens`: the guest and staff pages of a call, including the staff
   page's socket, which is re-created when a call rings: **done**.
6. `Directory` with `ServiceRequests` on top of it, `Seed` with `DocumentStore`
   on top of it, and `CheckIn`, the guest's pages against the front desk:
   **done**.
7. `ApiRequests`: the guards with the tenant cache, the privilege request of
   the signaling server and the call log: **done**.
8. `CallLifecycle`: the abstract life of a call (rung, answered, over) that
   `Signaling` implements; `GrantLifecycle` for `GrantEngine`.
9. How evenly the round robin spreads calls (`TurnsAreEven` of `Signaling`, proved
   as `RotationIsEven`): **done**.
10. Proofs about the modules of steps 5 to 7, and the three properties that
    count over sets (`CallRateBounded`, `SendRateBounded`,
    `SecondGuestOnlyByOverlap`): **done**.
11. Proofs that `Signaling` and `GrantEngine` implement the abstract
    specifications of step 8.

## 3. Modules

| module | models |
|---|---|
| `Signaling` | the signaling server with the sockets of the pages around it |
| `MCSignaling` | who owns which socket in the small instances |
| `SignalingProofs` | theorems about `Signaling` |
| `GrantEngine` | `AccessService`, the expiry job and `TokenService` on one database |
| `MCGrantEngine` | one guest, whose grants and tokens they all are |
| `GrantEngineProofs` | theorems about `GrantEngine` |
| `RateWindow` | abstract: what a rate limiter promises |
| `OtpService` | one-time passwords and the guest login that uses them |
| `MCOtpService` | which codes and requests are interchangeable |
| `OtpServiceProofs` | theorems about `OtpService` |
| `IdentityRecords` | `IdentityService` with its controller and matching rule |
| `MCIdentityRecords` | the profiles that are sent, what is interchangeable |
| `IdentityRecordsProofs` | theorems about `IdentityRecords` |
| `CheckIn` | the guest's pages from landing to dashboard, the front desk, and what the API does for both |
| `Seed` | the seed script |
| `DocumentStore` | `DocumentsService` and `StorageService`, over the rows of `Seed` |
| `DocumentStoreProofs` | theorems about `Seed` and `DocumentStore` |
| `ApiRequests` | a request through the guards, three handlers, and the pages and server that ask |
| `ApiRequestsProofs` | theorems about `ApiRequests` |
| `CallScreens` | the guest's and the staff's call pages |
| `PagesProofs` | theorems about `CallScreens` and about `CheckIn` |
| `Directory` | `DirectoryService`, the admin's staff page and the staff login |
| `ServiceRequests` | `ServiceRequestsService`, the request form and the staff dashboard, over `Directory` |
| `ServiceRequestsProofs` | theorems about `Directory` and `ServiceRequests` |
| `MCCheckIn`, `MCDocumentStore`, `MCApiRequests`, `MCCallScreens`, `MCServiceRequests` | small instances of these |

`Signaling` and `OtpService` each instantiate `RateWindow` with a refinement
mapping. `DocumentStore` extends `Seed` and
`ServiceRequests` extends `Directory`: their specifications are of both together.
`CheckIn` has each request of the pages as one step whose commands are in
`OtpService`, `IdentityRecords`, `DocumentStore` and `GrantEngine`, and
`CallScreens` has of the server what `Signaling` has in detail.
`IdentityRecords` and `GrantEngine` meet in two places: the approval of
an identity issues a grant (one step of `IdentityRecords`, several commands in
`GrantEngine`), and a login, whose commands are in `OtpService`, creates an
identity and a refresh token.

A definition named `X...` right before `X`, under a comment that starts with
"Mutant", is a plausible bug of `X`; it is used by no specification, and
`PROJECT.json` names the property that it breaks.

### Signaling

| variable | in the code |
|---|---|
| `sock` | whether Socket.IO has a socket connected: never used ("fresh"), "up", "down" |
| `pageSock`, `hungUp` | a guest page's `socketRef`, and that it has ended its call |
| `staffMap`, `guestMap` | `PresenceManager` |
| `counters` | `DepartmentRoundRobinStrategy.counters` |
| `activeCalls` | `CallHandler.activeCalls`: caller and callee socket, `answeredAt` set or not |
| `stage` | the await at which the `handleInitiate` of a guest socket is |
| `count`, `ttl`, `windows` | the Redis counter, whether it has an expiry, and how many windows have elapsed |
| `grant` | the guest's grant on the API server |
| `emitted`, `callLog` | messages emitted to connected sockets, call-log rows posted |

Every event listener is one action, except `handleInitiate`, which is cut at
its awaits: `HandleInitiate` (received, request sent), `PrivilegeReply`,
`RateIncr`, `RateExpire`, `RateRefused` (after the TTL command), and `RouteCall`
or `NoStaffAvailable`. The round robin is an async function, but routing and
storing the call involve no I/O, so no other event comes between them.
Disconnects come at any time and independently of the next connect of the same
page. `WindowElapses`, `GrantWithdrawn` and `Crash` are the world around: a
Redis command that fails inside `handleInitiate` is an unhandled rejection, by
which Node ends the process, and so has the effect of `Crash`.

A page is assumed to follow its own protocol: a member of staff answers,
declines or ends only a call the socket was rung for, a guest ends the page's
own call. The message payloads and the log's contents are left out; the log is
counted in rows posted by outcome (the row with outcome `INITIATED` is posted
like the others, whatever the API server's enum says of it).

### GrantEngine

| variable | in the code |
|---|---|
| `status`, `callingRestricted`, `revokeReason`, `due` | `access_grants`: status, calling_restricted, revoke_reason, and valid_until having passed |
| `voucher` | status of the grant's `wifi_vouchers` row |
| `token`, `mintedFrom` | `refresh_tokens`: absent, live or revoked; which token a refresh exchanged for it |
| `issuedRows`, `revokedRows` | audit rows GRANT_ISSUED and GRANT_REVOKED |
| `at`, `on`, `todo` | where each request and job is, what it is about, the job's remaining list |
| `existing` | history: the tokens and voucher there were when a grant was last marked REVOKED |
| `faults` | commands that have thrown and crashes |

Each action is one database command with the code around it up to the next
await. `Throws` is a command that fails: the request is over, and the job goes
on with the next grant as its `catch` does. `Crash` drops everything in
progress. Login is one command here; what comes before it is in `OtpService`.

### OtpService

| variable | in the code |
|---|---|
| `stored` | the Redis key `otp:{mobile}`: the code whose hash it holds |
| `attempts`, `ttl`, `windows` | `otp_rate:{mobile}`, whether it has an expiry, how many windows have elapsed |
| `sms`, `drawn` | the codes a number has received, and those drawn so far |
| `verified` | history: how often `verifyOtp` has returned true for a code |
| `guests`, `rejected`, `sessions` | GUEST identities of a number, whether staff rejected one, refresh tokens issued |
| `crossed` | history: numbers for which two logins were to create a guest at once, or staff added one beside another or during such a login |
| `at`, `mobile`, `code` | where each request is, its number and code |
| `faults` | commands that have thrown and crashes |

Each action is one Redis, SNS or database command with the code around it.
`Publish` may throw and still have delivered (a timeout at SNS). A guest types
only codes that came by SMS; a wrong or expired code is refused and changes
nothing. An identity that staff reject drops out of the login's lookup until
its guest registers again, so after a rejection `FindGuest` may go either way.
`StaffCreates` is `POST /identities` with the number in the profile, which no
search for duplicates compares.

### IdentityRecords

| variable | in the code |
|---|---|
| `status`, `path`, `profile`, `dedupHash`, `mergedInto` | `identity_records`: status, registration_path, the two compared keys of profile, dedup_hash, merged_into_id |
| `audit` | which decisions (create, approve, reject, merge) have an audit row |
| `grants` | HOTEL_STAY grants issued to the record |
| `req` | each request in progress: its next command, operation, record, profile and merge target |
| `overlapped` | history: a request has begun while another was in progress |
| `faults` | commands that have thrown and crashes |

A request is cut at its commands: the reads and checks (`CreateCheck`,
`RegisterCheck`, `ApproveRead`, `RejectRead`, `MergeRead`), the write by id,
`Log`, and for an approval `ApproveGrant`. A refused request changes nothing and
is no step. A booking reference or name stands for all its spellings, because
the hashes trim and lower-case.

### CheckIn

| variable | in the code |
|---|---|
| `page` | the page the browser is on |
| `auth`, `live`, `booking` | `sessionStorage`: whose identity and token, whether the token has not expired, the booking reference the first page left |
| `form`, `poll` | the handler that awaits an answer and the answer; the poll that does |
| `code` | a code was sent and is not used (detail in `OtpService`) |
| `status`, `ref`, `grants` | the guest's records, their booking reference, their ACTIVE grants |
| `review` | the reviews in progress: the command that is next, the record, and the booking reference an approval read |
| `contested`, `again` | history: records whose reviews have overlapped; those registered again while they had a grant or were about to get it |

The guest may visit any page by link, history or address (`Visit`); a handler
goes on after its page was left, because nothing cancels it. `SendOtp`,
`VerifyOtp` and `SelfRegister` are what the controllers do. A review by the front
desk, of any record it has ever listed, is cut at its awaits: the read with the
check for PENDING (`ApproveRead`, `RejectRead`), the update by id alone, which for
an approval writes back the profile it read, and then the grant (`ApproveGrant`);
it may fail before each. An answer may be lost after the server has acted. One
poll at a time is a bound.

### Seed and DocumentStore

| variable | in the code |
|---|---|
| `rules`, `units`, `identities`, `entries` | the rows the script writes, with copies counted where no index forbids them |
| `line`, `found` | the part of the script each process is at, what its `findFirst` returned |
| `runs`, `overlapped`, `finished` | runs begun; history: two have overlapped, one has come to its end |
| `objects`, `rows` | the KYC bucket, `data_subject_records` |
| `tenantRule` | whether the tenant has a retention rule of its own |
| `upload`, `cut` | where each upload is; history: objects a fault has cut off |

The script is a sequence of parts in the source's order; a part that looks
before it writes is two steps, an upsert one. An upload is four steps. S3 and
the database are external: a put or an insert happens or throws. PostgreSQL
sorts NULL first in a descending order, which `RetentionDays` models.

### ApiRequests

| variable | in the code |
|---|---|
| `tenant`, `verdict` | the tenant's row; the Redis key `tenant_valid:{tenant}` |
| `tokens`, `connected`, `grant` | whose access token is valid, whether the guest's socket was accepted, whether the guest's grant is ACTIVE |
| `req` | each request: its place between guards, handler and answer, its sender and route |
| `unlogged`, `logs` | what the signaling server has still to post of a call, the rows there are |
| `loads`, `shown`, `upset` | the call log page: loads begun, the load it shows; history: answers out of order, or failed |

The JWT and roles guards decide as the request arrives; GET, findUnique and SET
of the tenant guard are steps of their own, as is the handler. Three routes stand
for the three kinds there are: guest and admin, admin only, and public with the
shared secret.

### CallScreens

| variable | in the code |
|---|---|
| `screen`, `view` | `callState` of the guest page and of the staff page |
| `sock`, `up`, `gone` | connections each page has had, which are up, guest pages that have cleaned up |
| `mic`, `talk` | the microphone of the guest page, the peer connection of the staff page, each with its permission prompt |
| `callId` | `callId` of the staff page, on which its socket's effect depends |
| `inFlight`, `calls` | `call:initiate` not settled, `activeCalls` |
| `box` | messages to a socket that have not arrived |
| `raced`, `unheard` | history, for the properties |

What a page emits is handled at once; what the server emits waits in `box` and
goes with its socket. Socket.IO connects again by itself unless the page closed
the socket.

### Directory and ServiceRequests

| variable | in the code |
|---|---|
| `parent`, `early` | `org_units`: parent links, and roots named before the hotel |
| `identities`, `entries` | staff identities, `directory_entries` with unit and `is_active` |
| `tab`, `failed` | `handleAdd` of each open page and the request it awaits; history: who was left half-way |
| `session`, `dashboard`, `looked` | staff logged in, the list on their page; history: what there was of their department when it loaded |
| `row`, `form`, `grant`, `late` | `service_requests`, the request a guest's page has sent, guests staying; history: the stay ended between check and insert |

`handleAdd` is its three requests (`AddIdentity`, `ReadTree`, `AddEntry`), each of
which may fail; `FirstRoot` is the root whose name sorts first.

## 4. Runs

A run that is "refuted" checks one sentence of the documentation that the code
does not keep; `PROJECT.json` quotes it under "findings".

| run | result | what it shows |
|---|---|---|
| `calls` | passes | one page that reconnects with its first `call:initiate` still in flight, two staff sockets, one crash: `PresenceMatchesSockets`, `CalleeWasRung`, `AnsweredByCallee`, `LogBalance`, `CompletionLoggedOnce` |
| `pages` | passes | two pages of one guest, two departments, limit 1, one elapsed window, a privilege request that may fail: `CallRateBounded`, the limiter implements `RateWindow`, and under fairness every `call:initiate` is settled (`InitiateSettles`) |
| `stays` | passes | two grants, two tokens, a request and a job, one fault: `CheckoutEndsWhatExisted`, `RotatedTokenIsDead`, `RevocationAudited`, `NeverExpiredEarly`, `RevokedForever` |
| `expiry` | passes | under fairness, with one fault: `GrantsExpire`, and `CheckoutCompletes` for checkouts that no fault hits |
| `otp` | passes | two requests of one number, staff who add or reject an identity of it, and one fault: `SendRateBounded`, `NoDanglingCode`, `UsedCodeIsGone`, `SecondGuestOnlyByOverlap`, and the limiter implements `RateWindow` |
| `identity` | passes | two records, two requests and one fault: `HashIsCurrent`, `UniqueBooking`, `AuditExplainsStatus`, `ApprovedIsGranted` |
| `checkin` | passes | the guest's pages against two reviews, from old lists of the front desk, cut at every await: `DecidedOnce`; under fairness of the polls `ApprovedPageAdvances` and `CheckoutLeavesDashboard` |
| `documents` | passes | two uploads, two copies of the seed script, one fault: `StoredAndRecorded`, `CopiesOnlyByOverlap`, `FinishedIsComplete` |
| `guards` | passes | two requests through guards and cache with one failed command: `HandlersAreGuarded`, `CallsListedOnce`, `TableShowsLastLoad`; under fairness `SeededTenantIsAdmitted` |
| `screens` | passes | two guest pages and a staff page: `OfferIsOfCallShown`, `NoCallOfNobody`, `MicrophoneReleased` |
| `desk` | passes | two staff pages adding one person, one guest placing a request: `StaffInDirectory`, `PlacedDuringStay` |
| `ring` | refuted | `RungPageCanAnswer`: the ring changes `callId`, on which the effect of the staff page's socket depends, so Answer comes from a socket the server does not know as the callee |

The type invariants (`TypeOK`, `CheckInTypeOK`) of all modules are proved and have no run, so that
the runs keep to what could be wrong.

Some passing properties name the conditions under which a known weakness of the
code shows, and say that nothing else brings it about: `NoCallOfNobody` (an end
that is not heard), `DecidedOnce` (reviews that overlap, a guest who registers
again), `SecondGuestOnlyByOverlap`, `UniqueBooking` and `HashIsCurrent` (requests
that overlap), `AuditExplainsStatus` and `ApprovedIsGranted` (a failed command),
the two `ImplementsRateWindow` (a crash or a failed command between INCR and
EXPIRE), `RevocationAudited` (its row may be missing after a fault),
`TableShowsLastLoad` (answers out of order), `MicrophoneReleased` (the end comes
while the browser asks), `PlacedDuringStay` (the stay ends after the check) and
`StaffInDirectory`. That the weakness does show is in the list below; no passing
property catches it.

### Known, no run kept

The models also show these behaviours, for which no run is kept:

* a call is routed after the guest's grant was withdrawn between the privilege
  reply and the routing;
* a `call:end` that arrives while `handleInitiate` awaits is dropped, and the
  callee is then rung for a page that is gone;
* a page that reconnects overwrites its call, and nothing is logged for the first;
* an old socket's disconnect removes the new socket's `guestMap` entry (nothing
  reads it yet);
* a crash between INCR and EXPIRE leaves a rate counter, of calls or of
  passwords, without expiry: TLC refutes `WindowAlwaysExpires` with
  `MaxCrashes = 1`;
* two revocations of one grant both complete: two audit rows, the reason
  overwritten; a checkout before the voucher's insert leaves the voucher ACTIVE;
* two refreshes with one token both mint;
* a guest with two ACTIVE grants is restricted in one of them;
* two logins that overlap, or staff who add the number by hand, give it two
  identities; two registrations that overlap give two records one booking
  reference; two approvals that overlap, as after a double click, issue two
  grants; an approval and a rejection both succeed, the later write wins, and a
  rejected guest may have the grant; an approval that overlaps a resubmission writes the old
  profile back under the new hash;
* the clean-up of a failed delivery, and the delete of a verified code, may
  remove the code of a later send;
* a record may be merged into itself or into a chain with no ACTIVE end.

Some of these, and others, are stated in the modules as properties that TLC
refutes:

* `AbandonedCallCompletes` (`Signaling`): a call whose two sockets are lost
  stays in the map for good (`index.ts:65` removes only presence);
* `SessionsEndAtCheckout` (`GrantEngine`): a refresh in progress mints a token
  after the checkout; `CheckoutSurvivesFaults`: a command that fails after the
  update leaves the tokens live, and the status check keeps every retry out;
* `OneTimeUse` (`OtpService`): two overlapping logins succeed with one code;
* `EitherKeyFlagged` (`IdentityRecords`): two records in use have one full name,
  with one request at a time, since only the first key's hash is stored;
* `GrantedGuestMayCall` (`ApiRequests`): `checkPrivilege`
  (`call.handler.ts:246`) sends only the shared secret to a route that is not
  `@Public`, so the JWT guard refuses it and every call is denied. `Signaling`
  takes the API's answer to be the state of the grant, as the code intends;
* `TenantRuleWins` (`DocumentStore`): the platform's rule, whose tenant is NULL,
  comes first in PostgreSQL's descending order;
* `OnlyPendingIsApproved` (`CheckIn`): the check for PENDING is made on the record
  as read, and the update is by id alone, so an approval overwrites a rejection;
* `SentToCheckInWithoutGrant` (`CheckIn`): a guest with a grant whose token has
  expired is sent back to check-in by the dashboard's `catch`;
* `EntryInOwnUnit`, `StaffCanLogIn`, `DeactivatedStaysOut` (`Directory`): an
  entry may be made in another tenant's unit; the staff page sends the plain
  password as `password_hash`, which bcrypt never matches; a deactivated entry
  does not keep its owner from logging in;
* `RequestReachesStaff` (`ServiceRequests`): the staff login page stores the first
  of the token's grants as the department (`login/page.tsx:23`), which
  `staff-auth.service.ts:53` sets to `STAFF_ACCESS` for everybody, so that a
  dashboard never lists a request, against REQ-SVC-03.

Seen while modelling, without a property of their own:

* the row `handleInitiate` posts with outcome INITIATED is refused, because the
  schema's enum does not have it;
* staff pages register at the signaling server with the department of the
  session, which after the login page's fault is `STAFF_ACCESS` (`call/page.tsx:35`),
  so that no department has staff; `Signaling` and `CallScreens` take the
  department of a handshake as given;
* a busy member of staff is rung again, and the ring cuts the call in progress
  on that page;
* on the call pages, a second click on Answer
  opens a second microphone; a microphone granted after the end stays on;
  `call:error` and `call:rejected` leave socket and microphone as they are; a
  token that has expired at a reconnection gives a `connect_error` nobody
  listens to;
* `updateStatus` of a service request accepts any status from any other;
  `createOrgUnit` does not check whose the parent is; a root named before the
  hotel hides the departments from the staff page; a second attempt of an add
  that failed half-way is refused with 409;
* the admin's guest list asks for the PENDING records and shows the ACTIVE ones
  among them, that is nobody, so that a checkout comes only through the API or
  the expiry job.

### Bounds, and why they are enough

Signaling. Two sockets per page give one reconnection, which is what
overwriting, late disconnects and concurrent `call:initiate` need; two staff
sockets give a callee that leaves while another stays, and a call routed to a
second callee. `MaxCalls` is 1 or 2 so that the limit is reached; one crash
suffices because a second finds nothing the first did not leave. `pages` has its
second department so that a call can be misrouted; it has no crash, because its
window properties are stated for a server that stays up.

GrantEngine. A race needs two actors (a request and the job, or two requests)
and one grant; two grants are there for the job's list. Two tokens are a chain
of one rotation. One guest suffices: no command touches the rows of another, and
the proofs cover any number. A fault may come at every step. `stays` has one
request beside the job to keep its space small; `expiry` and the proofs have
more.

OtpService. Three codes with a limit of two per window let the window elapse and
a third code be sent; one refusal per window shows the refusal; two requests are
every pair of operations overlapping. One number suffices: every key and row is
of one number. Staff add an identity while the number has fewer than `MaxGuests`
(2): beside none, and beside one. 281 thousand states.

IdentityRecords. Two records and two requests are every pair of operations on
the same or different records; one booking reference and one name in two
profiles (both keys, the name alone) let records collide in each key. `MaxGrants` is 1:
a record is approved again only after it lost the first, or by a race.

CheckIn. One record with two reviews is what a race of decisions needs, since no
review touches another record; a review is begun only while the record has fewer
than `MaxGrants` (2) active grants. One booking reference: the guest registers
again with it when an approval has written back a profile without it, or before
the first registration is through. More records and references are covered for
`DecidedOnce` by its proof. 400 thousand states.

DocumentStore. Two seeders give every overlap and `MaxRuns = 3` a run after
two that overlapped or were cut off; one category, one department and one member
of staff are one of each kind of part. Two uploads of two guests can meet at
every command. 135 thousand states.

ApiRequests. Two requests are what a stale verdict needs (one looks, the seed
runs, the other looks), and two loads an answer out of order; one call suffices,
since each is posted by itself. 458 thousand states.

CallScreens. Two connections let a guest page reconnect; a second guest rings
the same member of staff during a call; five sockets of the staff page are the
first and one after each of two rings and two ends; two clicks on Answer. 611
thousand states.

ServiceRequests. One member of staff seeded and one added, two staff pages (a
second click on Add is another), one unit made meanwhile, one of another tenant,
one guest and one request. 1.6 million states.

Symmetry is used for interchangeable sockets, tokens, codes, records, pages and
requests, in runs without liveness. Deadlock is not checked in any run:
sockets, tokens, codes and records are finite and used once, so a bounded
instance may come to rest.

### Fairness

`FairSpec` of `Signaling` makes the continuations of `handleInitiate` weakly
fair: axios gives up after 3 seconds, ioredis after 3 retries, and the event
loop runs what is ready. Users, networks, windows and crashes are not fair. In
`GrantEngine` a request that has begun continues or throws (`WF(Continue(p))`),
and cron starts the job again (`WF(ExpiryScan(j))`). That a guest logs in,
refreshes or checks out is not assumed. In `CheckIn` the
polls of an open page are fair (`WF(SendPoll(p))`, `WF(PollAnswered)`: timers and
the handlers of their answers), nothing that the guest or the front desk does
is. In `ApiRequests` Redis expires its keys (`WF(VerdictExpires)`, from the
`EX 300`) and a request that has begun goes on or fails (`WF(Proceeds(r))`).
The other modules have safety properties only: nothing retries a request that
has failed.

## 5. Proofs

All theorems hold for any values of the constants that satisfy the modules'
named assumptions: who owns which socket, grant or token; bounds that are
natural numbers; guests and staff that are not the same pages; names that do not
clash ("hotel" is no department, `None` no value or row); and, where something
is counted or a script goes through it, finite sets (`Handlers`; the
categories, departments and staff of the seed).

They cover every safety property and action property that a passing run checks.

`SignalingProofs`. `WellFormed` is the type invariant with
`PresenceMatchesSockets`: routing picks a member of a list, and that the callee
is a socket of the right department is known only because the list is exact. It
is inductive, a socket being appended when it is fresh and so once. On it rests
`CallInv`, the inductive invariant of the calls, which is `CalleeWasRung`,
`AnsweredByCallee` and `LogBalance` together, shown call by call (`CallOK`):
every action either leaves a call's entry and rows alone, in which case messages
only grow, or is one of routing, accepting and ending, which have a lemma each.
`CompletionsAreLogged` is an action property proved step by step from the types.
`LimiterInv` says, while no crash has happened, that a counted window has an
expiry or exactly one `handleInitiate` about to set it (`OneOpener`), and that a
socket that never connected has nothing in progress. It gives `WindowsExpire`,
and it maps every step to `Admit`, `Elapse` or a stutter of `RateWindow`
(`LimiterIsRateWindow`). Both assume `MaxCrashes = 0`: TLC refutes them with
`MaxCrashes = 1`.

`CallsAreBounded` counts what the limiter has let through and is not routed yet
(`Passed`) with what has been routed (`Routings`): together they never exceed the
limit for each elapsed window plus what this window has spent (`Paid`). INCR adds
one to both sides, routing moves a socket from one set to the other, and a window
that ends leaves the books as they are. No induction over sets is needed, since a
step adds or removes one element, whose effect on the cardinality the library has.
`RotationIsEven` combines the exact list with arithmetic: each remainder comes once
among as many numbers in a row as the list is long. It speaks of a list that stays
as it is for a round; a join or a loss starts a new one.

`GrantEngineProofs`. `Located` says what a request's label implies about the
row it works on: it exists, past the update the grant is REVOKED, and the token
in hand at the mint is revoked. With the types it is inductive (`WellFormed`).
`Final` is what no step undoes: a row does not vanish, REVOKED and revoked are
for good, a grant that is due stays due; it gives `RevocationIsFinal` and keeps
the requests that do not move located. `OnTime`, that the grants on a job's list
and the one it revokes are due, makes `NeverExpiredEarly` inductive, and
`Located` makes `RotatedTokenIsDead` inductive. `RevocationAudited` is inductive
given `Located`: a grant is marked by a request that has yet to write the row,
and only a fault takes it away. `CheckoutEndsWhatExisted` needs `Rooted`:
what `existing` holds was created before, its owner is the grant's subject, and
at most one request is about to create a grant's voucher.

`OtpServiceProofs`. `WellFormed` is the types with a code in the hand of every
request that needs one. The steps that touch a code or a request holding one are
listed once (`CodeSteps`), all others leave them alone; then `NoDanglingCode` is
inductive by itself, and `UsedCodeIsGone` needs that a drawn code belongs to one
number and one send (`OneOwner`), and that what is verified was drawn. The
refinement of `RateWindow` (`SenderIsRateWindow`) rests on the same `OneOpener`
as that of the call limiter, here up to the first failed command. `SendsAreBounded` keeps the same
books as `CallsAreBounded`, of the codes that are out (`Out`) and the sends that
are about to draw one (`Admitted`). `SecondGuestsOverlap` adds that, unless the
number was crossed, one login at most is about to create a guest, and only while
there is none (`OneGuest`).

`IdentityRecordsProofs`. The operations are grouped by what they do to the
requests in progress (`BeginningEffect`, `UpdatingEffect`, `LogEffect`,
`EndEffect`). `AuditExplains` rests on two facts: a decision that a row or a
request accounts for stays accounted for while nothing fails
(`AccountedStays`), and a status changes only with its decision accounted for
(`StatusStep`). `ApprovedAreGranted` adds that a request about to issue a grant
has logged the approval. Both hold for any interleaving. `HashesAreCurrent` and
`BookingsAreUnique` follow from `RecordInv`: without overlap one request at most
is in progress, so that what it found (no duplicate, PENDING, the profile) is
still true when it writes, and a record that shares a booking reference would
have been found, because its hash is the hash of that reference.

`ApiRequestsProofs`. Every step moves one request at most, and the steps are
grouped by how: `Quiet`, `Arrival`, `Advance` and `Rest`, with one lemma each on
what the request is afterwards (`ArrivalShape`, `AdvanceShape`, `RestShape`).
`GuardInv` says of a request at the tenant guard that its role is meant for the
route, and of a positive verdict, cached or in hand, that the tenant exists: it
is what `HandlersAreGuarded` needs while another request's verdict is read from
Redis. `LogInv` says that a call not yet posted as completed, its post at the
handler and its row exclude each other; it uses `GuardInv`, by which no request
comes from the tenant guard to the handler of the log. `TableInv` says that
unless an answer was overtaken or lost the last load is shown or on its way.

`DocumentStoreProofs`. A first part is about the script itself: what its lines
are, that each part of the installation is on one of them, and that an entry
comes after the unit and the identity it needs. `SeedInv` says that behind the line a run has reached everything is there
(`Behind`), which holds for overlapping and partial runs because nothing is ever
deleted; it gives `FinishedRunsAreComplete`. `SoloInv` adds that until two runs
overlap, what the one run has not found is not there: so it makes no copy.
`DocInv` is about the uploads over these rows. What an upload holds is its own
guest's object (`UploadInv`), and an object is in a row of its guest, in the hand
of an upload, or cut off (`RowsMatch`, `Recorded`).

`PagesProofs`. Each step leaves a page's queue as it is, takes from it, empties it
with its socket, or adds one message whose sender it names (`QueueStep`);
`ClosedEmpty` says that a closed socket has nothing waiting. `GuestInv` is the
inductive invariant of a guest page: it shows the end only after it has cleaned
up, a page that has cleaned up has its microphone off and nothing of its call at
the server (`Over`) unless one of the races named in the properties happened,
and an `ended` that waits says the same of the page it waits for. `OfferInv` follows
what waits for a staff page: an offer in its queue is of the call shown or has the
ring of its call before it, and a page the server knows as a callee has the call
or its ring still to take.
The second part is about `CheckIn`, which shares no variable with `CallScreens`
and has names of its own (`CheckInSpec`, `CheckInTypeOK`) so that one module can
extend both. Each of its steps does one of a few things to the records and the
reviews (`RecordStep`), by which `Undisturbed` is inductive: unless contested or
registered again, a record has at most one grant, none when it is not ACTIVE, and
a record under review has one review, no grant, and the status that review has
left it in (`Alone`). What the browser has in hand is
only needed for the types (`DeskInv`).

`ServiceRequestsProofs`. `AddedStaffAreInDirectory` says person by person
(`Placed`) that the entry is there, was left half-way, or is on its way with a
page whose request names that person (`TabsInv`), and that the department's unit
is where the seed put it (`DeptsInv`), so that the tree has it. `FoundInv`, that
a guest whose grant was found has it still or is `late`, gives
`RequestsNeedStay`.

Only model-checked: the liveness properties `InitiateSettles`, `GrantsExpire`,
`CheckoutCompletes`, `ApprovedPageAdvances`, `CheckoutLeavesDashboard` and
`SeededTenantIsAdmitted` (fairness and ENABLED are out of the prover's reach).
`WindowsExpire`, `RotationIsEven` and `SeedIsBehind` are proved though no run keeps
their properties.

## 6. Not modelled

See "components" in `PROJECT.json`. Left out for good: what pages draw, with the
admin's dashboard, settings and guest list, which only show one request's
answer; the reads and the search of the directory; the call-wake and PMS
adapters (wired to nothing) and the WebRTC client no page uses; configuration
(`app-config.ts` parses the environment once, before anything runs), the UI kit,
the generated API client, Terraform and CI. `deleteKycDocument` has no caller.
In `GrantEngine` the privilege cache is left out because no route calls
`checkPrivilege`, its only user; the claims in access tokens because no guard
reads the grants in them; and the seven days of a refresh token, since an
expired token is as good as none. `ApiRequests` has the three routes the call
log and the privilege check use; the others pass the same guards. The throttler
in front of them is left out: a request that it refuses is one that fails.
