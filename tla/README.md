# Koodam backend: a TLA+ verification project

Koodam is a NestJS backend for local gatherings and social discovery. It keeps its
state in PostgreSQL (through Prisma) and Redis, runs as several processes at once
(a long-lived server with a scheduler, and serverless functions through
`api/index.ts`), and speaks HTTP and Socket.io. Nothing in it is shared in memory
between two requests that matter here, so the behaviour that is hard to test is
that of *requests which interleave at their awaits* over rows, locks, unique indexes
and cache keys. That is what this project models.

Paths below are relative to the repository; `modules/` is `src/modules/`.

## 1. The system: components and their state

| Component | State it keeps | Operations that change it | Interacts with |
|---|---|---|---|
| `event-attendees` | `event_attendees` rows, the counters of the event row, chat membership | `joinEvent`, `leaveEvent`, `checkInAttendee`, `saveEvent`, `unsaveEvent` | `events` (row lock), `profiles` (gender), `blocks` (list) |
| `events` | `events` rows, the Redis geo index | `createEvent`, `updateEvent`, `cancelEvent` | `vouches`, `admin`, `event-attendees` |
| `vouches` | `event_vouches` rows; count, status and `published_at` of the event; the host's score | `submitVouch`, `submitVouchByToken` | `events`, Redis geo index |
| `admin` | audit log; the status of events and users | `moderateEvent`, `updateUserStatus`, `reviewVerification` | `events`, sessions, Redis |
| `blocks` | `blocks` rows, cache keys `blocks:<id>` | `block`, `unblock`, the cache fill | connections, love requests, every read path |
| `love-requests` | `love_requests` rows | `sendLove`, `accept`, `decline`, `cancel`, a cron | `blocks`, `privacy`, `connections`, `messages` |
| `connections` | `connections` rows, direct conversations | `createConnection`, `removeConnection` | `blocks` |
| `messages` | conversations, members, messages | `createDirectConversation`, `sendMessage`, `markAsRead` | `blocks`, `privacy`, `connections` |
| `users` | photos, device tokens, account status | `addPhoto`, `deletePhoto`, `setPrimaryPhoto`, `reorderPhotos`, `deleteAccount` | Redis caches, sessions |
| `profiles` | profile rows, location mode, interests, preferences | onboarding and updates | `locations` |
| `auth` | refresh tokens in families, one-time codes, revocation cutoffs | register, login, refresh, logout, codes, password change | Redis, `users` |
| `privacy` | settings rows, cache keys `privacy:<id>` | `update`, the cache fill | discovery, `love-requests`, `messages` |
| `payments`, `featured-events` | payments, campaigns, the featured flag | `createPayment`, `verifyPayment`, `createCampaign` | `events` |
| `realtime` | sockets, `presence:<id>` | connect, disconnect, rooms, messages | `messages`, Redis |
| `verification`, `notifications`, `reports`, `event-chat` | rows of their own | single writes | |
| `search`, `dating`, `recommendations`, `locations`, `media`, `health` | none | read-only | |
| `common`, `config`, `database` | a Prisma and a Redis client | `withLock` | everything |

`PROJECT.json` lists every component with its status, what is modelled of it and what is not, and each hard-to-test point of
the code (`hazards`) with the properties that cover it or the reason why none does.

What makes each of the main ones correct: a gathering never has more guests than its
limit, its counters and its chat follow its roster, nobody joins it once it is
cancelled; a gathering is published when, and only when, it has earned it, and the
index shows what is published; a block separates two people whatever else is in
progress, a request lives 48 hours and then lapses, ties are created whole; a member
with photos has one primary photo and at most six; a revoked session stays revoked; a
one-time code is used once.

## 2. The modules

| Module | What it is |
|---|---|
| `SeatLedger` | abstract specification: what a seat counter promises |
| `EventAttendance` | joins, leaves, check-ins, edits, moderation of one gathering; implements `SeatLedger` |
| `VouchEngine` | the 3-Peer Trust Engine of one gathering, with moderation, cancellation and the geo index |
| `EventListing` | what one gathering shows: schedule, place and point, saves, payments and campaigns |
| `SocialGraph` | one pair of members: blocks, their cache, love requests, connection, conversation |
| `Messaging` | one conversation: sending, pages, read marks, deletions; sockets and presence |
| `Sessions` | the sessions of one account: sign-in, rotation, revocation, password and status changes |
| `OneTimeCode` | abstract specification: what a one-time code promises |
| `OtpChallenge` | the codes of one identifier; implements `OneTimeCode` |
| `Profiles` | one profile as discovery sees it, and the privacy cache, until the account is deleted |
| `ProfilePhotos` | the photos of one member |
| `*MC` | symmetry sets for TLC |
| `*Proofs` | theorems and their TLAPS proofs |

### How the code is turned into actions

* **A request runs on a handler** (`req[h]`). `req[h].pc` names the await the code is
  suspended at and the other fields hold what it has read and will use later. A step
  is the code between two awaits; statements between which nobody else can make a
  difference are one step (the last statement of a transaction is fused with its
  commit where the row it writes is already held).
* **READ COMMITTED.** The services open interactive Prisma transactions with no
  isolation level. A transaction's writes appear at its commit, and every read sees
  what is committed at that moment.
* **Row locks are not variables**: a row is locked when a handler's `pc` says that its
  transaction has written it (`EventLocked`, `RowLocked`, `LoveLocked`, `Held`).
* **Redis is outside the transaction**: a write is seen at once and survives a
  roll-back. A key with a lifetime may expire at any time.
* **Failures**: `DeadlockAbort` is PostgreSQL breaking a deadlock that the lock orders
  in the code allow; `Fail` and `Abort` are a roll-back, a Redis error or the end of
  a serverless function at any await.
* **Data**: names, notes, pass codes, times and places are abstracted to what the
  properties tell apart (a status, "overdue", a member).

### EventAttendance

`status`, `maxAttendees`, `genderBalanceEnforced`, `attendeeCount`, `genderCount` are
columns of the `events` row; `attendee[u]` is the status of a row of `event_attendees`
(`NONE`: no row); `chat[u]` is the membership in the gathering's conversation;
`gender[u]` the profile.

| Action | Code |
|---|---|
| `Init` | `createEvent` (the organizer is confirmed, the counters are 0) |
| `JoinRead`, `JoinLock` / `JoinReject`, `JoinCommit`, `PassCollision` | `joinEvent`: profile read; `SELECT .. FOR UPDATE` and checks; upsert, counters, chat, commit; unique `qr_pass_code` |
| `LeaveRead`, `LeaveProfile`, `LeaveLock`, `LeaveCommit` | `leaveEvent`: the attendee row is checked and its holder's gender read before the transaction; attendee row; event row, chat, commit |
| `CheckInRead`, `CheckInWrite` | `checkInAttendee` |
| `UpdateEvent` | `updateEvent` under `chk_events_capacity` |
| `CancelEvent`, `ModerateEvent` | `cancelEvent`, `moderateEvent` (the index is in `VouchEngine`; a vouch's write of `PUBLISHED` is the same step as a moderation here) |
| `ChangeGender` | `updateMine` |

`updateEvent` and `cancelEvent` also read the row first, to check that the caller owns
it; ownership never changes, so that read is not a step.

### VouchEngine

`status`, `vouchesCount`, `published` are columns; `vouchers` the committed
`event_vouches`; `score` the host's `peer_vouch_score` due to this gathering; `audit`
the statuses moderations have logged; `geo` the entry in `koodam:events:geo`.
`executeVouch` is `VouchRead` (a copy of the row without a lock), `VouchInsert` (the
unique index makes it wait for an uncommitted vouch of the same person) or
`VouchReject`, `VouchUpdate` (takes the row lock), `VouchIndex` (`geoadd`),
`VouchCommit` (count and status *computed from the copy*). `moderateEvent` is
`ModerateUpdate`, `ModerateIndex`, `ModerateCommit`; `cancelEvent` is `CancelCommit`,
`CancelIndex`. `Fail` may end any of them.

### SocialGraph

`blocks` (who of the pair blocks the other), `cache[u]` (what `blocks:u` says about the
peer), `love[s]` (the request `s` has sent; `OVERDUE` is a pending one whose `expiresAt`
has passed), `connection`, `conversation`. The block check is `AskHit` or `AskMiss`,
`Lookup`, `Fill`, then `cleared`; from there `sendLove` goes through `ReadConnection`,
`ReadExisting` and `SendLove`, `createConnection` is `Connect`, `createDirectConversation`
is `OpenConversation`. `accept` has no block check: `AcceptRead`, then `AcceptExpire` or
`AcceptLock` and `AcceptCommit`. `block` is `BlockStart` (block row, connection),
`BlockDecline` (love requests), `BlockCommit`, `Invalidate` twice. The statement
`BlockDecline` and the commit are two steps on purpose: a request that is sent between
them is not declined. `req[h].late` is a history field: it records what is sent while a
block is at that point, or while an accept that found a request overdue has still to
expire it, and is read only by `BlockCascades` and `PendingSurvives`. `CacheExpire` is the lifetime of the key, `Lapse` the 48 hours.

### ProfilePhotos

`edit[h]` is the request an editor works on (its names differ from those of `Profiles`, so
that `MemberProofs` can hold the theorems about both). `status[p]` and `isPrimary` are the rows, `Admits` is the partial unique index
`idx_profile_photos_one_primary`. Each operation reads before its transaction. An
`updateMany` takes its rows when it starts (`FindRows`) and then waits for those that
are held (`DemoteRows`), so a row that becomes primary meanwhile escapes it.
`reorderPhotos` only sets positions: which photo `deletePhoto` promotes is any active
one.

### Sessions

`status`, `deleted` and `password` are columns of the user; `issued` the refresh tokens
handed out, `row[t]` what is stored of them, `fam[t]` the family (named by its first
token), `by[t]` what the family was opened with, which is history. `register` is
`Register`, `RegisterCommit` or `RegisterFallback` (the loser of the unique address, or a
failing database, is answered with a session of an account that is stored nowhere, which
is not a session of this one); `login` is `Login` or `LoginFromMemory`; `verifyOtp` is
`VerifyOtp`; all end in `Issue`, which is `issuePair`. `rotate` is `Rotate`, `RotateUser`,
`RotateRevoke` and `Issue`, with `RevokeFamily` when the token turns out revoked or the
account unusable, and `RotateStateless` when no row is found. `RevokeAll` is
`revokeAllForUser`, the second statement of `ResetPassword`, `ChangeHash` and `Logout`.
`UpdateUserStatus` and `StatusCommit` are the administrator's transaction, which finds
the rows it revokes before it commits. Expired tokens are tokens nobody presents. Left
out: access tokens and their cut-off `auth:revoked`, so `SignedIn` is whoever may hold one.

### OtpChallenge

Codes are numbered by creation. `live` are the rows without `consumedAt`, `memory` is
`memoryOtpStore`, `attempts` and `expired` belong to both. `issue` is `IssueConsume`,
`IssueCreate`, or `IssueInMemory` when a statement fails; `verify` is `VerifyRead` (the
record, its expiry and its attempts) or `VerifyReject`, then, after the comparison of the
hashes, `VerifyWrong`, `VerifyRight` or `LostWrite` (the failures `verify` swallows).
`Restart` loses memory and requests.

### EventListing

`UpdateRow` is the update of the row with the trigger that moves the point,
`UpdatePoint` the second statement of `updateEvent`. `RadarFind` and `RadarShow` are the
two queries of `getRadarEvents`. `SaveUpsert`/`SaveCommit` and
`UnsaveDelete`/`UnsaveCommit` are the two statements of `saveEvent` and `unsaveEvent`;
`RowHeld` is the lock between them. `CreateCampaign` and `CreatePayment` are
`createCampaign`, `CreateOrder` is `POST payments/order`; `VerifyRead`, `VerifyRefused`
and `VerifyCommit` are `verifyPayment` around the provider. `MockPaymentProvider` refuses
nothing the controller lets through; `MayRefuse` is what its interface allows.

### Messaging

`sendMessage` is `SendMember`, `SendBlock`, `SendPrivacy`, `SendConnection` (each check an
await), `SendCreate` (the row and its `createdAt`) and `SendCommit` (`lastMessageAt`, from
any time of the statement). `Announce` is `postAnnouncement`. A listing is `PageFirst`,
`PageNext` until `hasMore` is false, `PageLast`; `old` and `got` in its request record are
history. `markAsRead`, over REST or a socket, is `ReadNow` (its time), `ReadFind` (the row
of the member is written, which locks it, and the messages to mark are found) and
`ReadCommit`; a message may commit between the last two.
`handleConnection` is `Connect`, then `Verified` or `Rejected`; `handleDisconnect` is
`Disconnect`, or `DisconnectEarly` before the token is verified. Nothing catches a deletion
of the key that Redis refuses, so `Disconnect` may leave it (`Deleted`). `ProcessEnds` drops
sockets for which `handleDisconnect` is never called. `PresenceExpire` is the 60 s of the
key. What other components write (`Rejoin`, `PeerChanges`) changes at any time.

### Profiles

`fix` and `ghost` are the two positions, `exploring` and `exploringAt` the place and its
coordinates, `settings` the row and `cache` the Redis key of the privacy service. A fix is
a point on a line and a ghost the fix it hides with a random draw, since what the code
decides by is only whether two fixes are further apart than 250 m. `updateLocation` is
`LocateRead` and `LocateWrite`; `setExploringLocation` and `clearExploringLocation` are
`Explore` and `ExploreWrite`; `createOrUpdateMine` and `updateMine` are `SaveProfile`,
with `SetInterests`, `Recompute` and `RecomputeWrite` behind it. `register` declares every
member complete, with interests or without, and `Init` has both kinds; `bare` is history:
nothing has been computed for the member since they were registered without. `getPublic` is `View`,
then `GetHit` or `GetMiss` and `GetFill` of `privacy.get`; `update` is `UpdatePrivacy`
and `ClearCache`. `discover` is `Discover` (the spatial query) and `Candidate` (the second
look); `searchPeople` is one look. `DeleteAccount` is the transaction of `deleteAccount`
and the start of its cache clearing. `deleted` stands for an account that is not in use.

## 3. What TLC checks

Passing runs (deadlock is checked in all of them):

| Run | Instance and bounds | Properties |
|---|---|---|
| `EventAttendance` | organizer + 2 users, 2 handlers, limit 2, edits to 2 or no limit, 4 requests; 1.56 M states | `SeatLimit`, `ChatMatchesRoster`, `JoinChecksStillHold`, `CounterTracksRoster`, `NoSeatAfterCancel`, `GenderCapHonoured`, `LedgerSpec` |
| `EventAttendanceLive` | organizer + 1 user, 2 handlers, 4 requests, `FairSpec` | `RequestsAnswered` |
| `VouchEngine` | 3 vouchers, 2 required, 3 handlers, moderation to `PUBLISHED`/`REJECTED`, failures; 272 k states | `CountIsBacked`, `StatusIsEarned`, `ScoreIsEarned`, `IndexTracks` |
| `SocialGraph` | 2 handlers, both ask for love and connections and both block, failures; 2.95 M states | `TiesAreWhole`, `BlockCascades`, `SealedStays` |
| `SocialGraphLive` | 2 handlers, one asks for love and conversations, the other blocks and unblocks, failures, `FairSpec`; 65 k states | `BlockEventuallyHides`, `ExpiresCleanly` |
| `ProfilePhotos` | 5 photo rows, 2 editors, limit 3; 36 k states | `OvershootBounded`, `PrimaryKept` |
| `Sessions` | 3 tokens, 2 handlers, 2 passwords, failures; 890 k states | `EndedStaysEnded`, `LineGrowsByOverlap`, `SignedOutStays`, `OldPasswordIsOut` |
| `OtpChallenge` | 3 codes, 2 handlers, 2 attempts, failures and restarts | `AttemptsBounded`, `LiveBounded`, `CodeSpec` |
| `EventListing` | 2 users, 2 campaigns, 2 payments, 2 end dates, 2 places, 3 times of day, 2 handlers; 751 k states | `SaveCountTracks`, `PointFollowsPlace`, `FeaturedIsPaid` |
| `Messaging` | 2 members, 2 messages, 2 sockets, 2 handlers, 2 ticks, pages of 1; 818 k states | `BarredStaysSilent`, `PagesMissOnlyTies`, `ReadTogether`, `ListedByNewest`, `PresenceTracks` |
| `Profiles` | 3 fixes 200 m apart, 1 place, 2 settings, 2 handlers; 1.51 M states | `GhostHolds`, `ExploringAgrees`, `CompleteTracks`, `CacheTracks`, `DeletedStaysPlaceless`, `PrivateStaysUnseen` |

The type invariants are theorems and are in no run.

What they show:

* **Seats.** The row lock does its work: no interleaving passes the limit or the gender
  cap, what a join has checked holds when it commits, a cancellation never falls inside
  a join, and lowering the limit is safe because of the check constraint (its mutant,
  without the constraint, breaks the refinement of `SeatLedger`). The counter and the
  roster drift apart in exactly three steps, named in `DriftStep`: a second leave of
  the same person, a join by somebody already checked in, a check-in of a pass that was
  given back.
* **Vouches.** Counts and statuses are written back from unlocked copies and yet the
  count never claims a vouch that does not exist and the host's score is bounded. The
  status changes only by a decision or by enough vouches as long as every vouch under way
  has read it as it is (`StatusIsEarned`): a decision is undone only by a vouch that read
  the row before it. The check for an existing vouch carries
  the first, the unique index behind it the last. The geo index leaves the status only
  by the three races of `IndexTracks`: a cancellation clears it after a later
  publication, a request dies between its index write and its commit, a vouch writes
  back an outdated status.
* **Pairs.** A block declines the open requests of both directions but for one sent
  while its transaction runs; once a pair is sealed off (no tie, no stale cache, nobody
  past a check) it stays so; a stale cache heals by its lifetime even when the
  invalidation is lost. An overdue request does not stay open, and one that is not overdue
  expires only by an accept that found it overdue before it was sent again
  (`ExpiresCleanly`); the lock orders of `accept` and `block` can deadlock, and without
  the database's detector TLC reports that deadlock.
* **Photos.** The overshoot of the limit is at most one photo per concurrent request
  beyond the first, and the primary photo is lost only in the three races of `LossStep`.

* **Sessions.** A family that has no live token and no rotation under way is over for
  good. It forks only where two rotations overlap on one token (`Overlap`). A suspended
  or deleted account without sessions gets none but by `Bypass`: the user kept in the
  memory of a process, with the password of the registration, and a token that has no
  readable row, which `rotate` accepts without looking at the account. A replaced
  password leaves no session behind unless a rotation was under way at the revocation or
  the second statement never came.
* **Codes.** Wrong guesses pass the limit by at most the number of overlapping requests
  less one; several codes live at once only if as many issues overlapped; nothing reopens
  a closed code. A code may be accepted twice, by two overlapping right guesses, which
  the abstract specification allows on purpose.
* **Listing.** The counter of saves drifts exactly by repeated saves and vain removals;
  the trigger keeps the point with the place except where two edits cross; a gathering is
  featured only on an active, paid campaign, unless its payment is verified again and
  refused. No step ever takes the featured flag back: expiry is the reader's business.
* **Messages.** Once a block, a privacy setting or a missing connection is known and no
  request is past that check, nothing gets through. Pages lose only messages of the very
  time of a page's last one. The order of conversations goes wrong only by a commit that
  overtakes another; a message older than a read mark is unread only if it committed after
  the mark, or between the statement that marks and its commit. Presence comes to differ
  from the open sockets in five ways, named in `PresenceTracks`: a token is verified after
  its socket is gone, a key is left when a socket closes, a process ends, one of several
  sockets of a user closes, the key expires.
* **Profiles.** The ghost of a member who stays is stable but for late writes; cached
  settings differ from the row only after a late fill or a lost invalidation; once Private
  Mode has reached both and the requests under way have ended, no surface shows the member,
  `deleteAccount` included. A member declared complete has a photo and an interest until
  the last photo or the interests go, except that one registered without interests is
  complete all the same until completeness is next computed (`bare`).

One violation run, a documented claim that the code breaks (see `findings`):
`GuestsWithinCapacity`, "strict atomic capacity" (`event-attendees.service.ts:32`): the
organizer leaves uncounted and one guest too many is admitted.

Other disagreements between documents and code are kept as definitions at the end of
their modules, in no run. Naming one as `INVARIANT` in a configuration shows it:

| Definition | Claim | What TLC then finds |
|---|---|---|
| `VouchEngine!VouchedIsPublished` | README.md:57, 3 vouches publish | two overlapping vouches count once (with `Required = 3`) |
| `VouchEngine!IndexMatchesStatus` | README.md:59, the index shows what is published | a vouch republishes a cancelled gathering, the late `zrem` hides it |
| `SocialGraph!BlockSeparates` | `blocks.service.ts:42`, a block tears down the relationship | an accept or a connect past its check reactivates it |
| `SocialGraph!ActiveFor48Hours` | `love-requests.service.ts:101`, active for 48 hours | a late `EXPIRED` hits a request that was sent again |
| `ProfilePhotos!WithinLimit` | `users.controller.ts:42`, at most 6 photos | two additions count before either commits |
| `Sessions!FamilyIsALine` | `token.service.ts:41`, reuse revokes the family | two overlapping rotations leave two live tokens |
| `EventListing!OneDate` | `schema.prisma:589`, one calendar date | 23:00 to 24:30 is accepted; hours are not bounded |

Visible in the models and stated nowhere: `joinEvent` counts a gender only while the
balance is enforced and `leaveEvent` always subtracts, so more than half of the seats may
go to one gender (README.md:64); a pass of a cancelled attendance is still admitted
(README.md:65); `executeVouch` asks no voucher to be verified (README.md:57); a member who
has photos may end with no primary one (`migration.sql:139`, through `LossStep`); the ghost
is drawn anew only when one ping is more than 250 m from the one before, so a member who
drifts in small steps keeps a ghost that is far away; photo operations do not recompute
completeness; `register` declares a member complete (`auth.service.ts:147`) whose interests
it takes as optional (`auth.service.ts:180`), where `recomputeCompleteness` asks for one
(`profiles.service.ts:423`), so such a member is offered as complete and loses that by
saving a profile; presence outlives its sockets by up to 60 s when a process ends or Redis
refuses the deletion; `setLocationMode(NEAR_ME)` leaves the exploring point, which the trigger goes
on preferring; the Redis geo index is written, and the radar reads PostGIS.

**Bounds, and why they are enough.** Every bound is a constant of the configuration. Two
handlers are enough for every race between two requests, and for a request against the
single-step writers (edit, moderation, cron, expiry), which need no handler; vouches have
three, so that two overlap while a third writer comes between. A limit of 2 makes both
limits reachable with two users beside the organizer, and half of it is 1, so the gender
cap is reached as well. `MaxRequests` bounds a behaviour of `EventAttendance` to 4 accepted requests (5 in the
violation run that needs them): the shortest drift and re-join histories take 3.
`ProfilePhotos` takes 3 for the 6 of the code: one photo at the start, two additions to
the limit, one beyond it and one spare row. `Required = 2` makes vouches after the publication
reachable. In `Sessions` 3 tokens are two overlapping rotations of one; in `OtpChallenge`
3 codes are two overlapping issues and a later one, and 2 attempts with 2 handlers reach
the overshoot of one. `EventListing` stops the counter at 2 either way (`MaxCount`), which a
repeated save reaches with one user; its times are 15:00, 23:00 and 24:30, so that a schedule may be too long,
backwards or past midnight. In `Messaging` pages of 1 over 2 messages turn a page, 2 ticks
tell older from newer, and sockets connect in event groups only (`Watched`), since presence
does not depend on the conversation. The fixes of `Profiles` are 200 m apart, so one step is
below the threshold and two above. `SYMMETRY` is
used in safety runs only, over interchangeable handlers, users, photos, tokens,
campaigns, payments, messages, sockets and, where both members ask and block, the two
members.

**Fairness.** `SF_vars(Serve(h))`: a handler that can step again and again does step. In the
code a request is only ever suspended at an await on PostgreSQL or Redis, row locks are
granted in queue order and a deadlock is broken by the database, so no request waits for
ever while others pass it. The steps that begin a request, a failure, an edit and a
cancellation have no fairness. `SF_vars(ExpirationCron)`: the scheduler runs it every ten
minutes in the long-lived process, and it waits for locks in the same queues.
`WF_vars(CacheExpire(u))`: Redis expires a key that stays; `setJson` gives the key a
lifetime of 300 s.

Every property of a passing run has a mutant: an operator in the same module, marked
`Mutant:`, that replaces a mapped definition by a plausible bug and breaks it.

## 4. What TLAPS proves

For every value of the constants that satisfies the named assumptions (a finite set of
users or photos, an organizer among them, a positive limit, ...):

* `EventAttendanceProofs`. `IInv == TypeOK /\ JoinChecksStillHold /\ SeatLimit` is
  inductive. `SeatLimit` alone is not: a commit adds one to the counter and nothing in
  the state says that a seat is free unless the check made under the lock is carried
  along, together with the fact that the lock has one holder. It gives `SeatLimitHolds`,
  `JoinsSerialized`, `NoSeatAfterCancelHolds`, `GenderCapHolds` and the refinement
  `ImplementsLedger` (every step is a `Take`, a `GiveBack`, a `Resize` or a stutter).
  `ChatFollowsRoster` is inductive with the types. `CounterTracksRosterHolds` needs
  `RequestHasRow` (a leave or a check-in in progress is about a person who has a row) and
  cardinality facts about adding and removing one person.
* `VouchEngineProofs`. The copies of the row held by handlers are part of the invariant:
  `SnapshotsOld` says that what a copy claims is already backed by committed vouchers,
  `InsertsExclusive` that no two open inserts are of the same voucher and none is of a
  committed one. With them `CountIsBacked` and `ScoreIsEarned` are inductive, and so is `PublishedIsEarned`
  (what is published was published by an administrator or has its vouches). `StatusIsEarned` rests on the same
  invariant (`PublishingIsEarned`: a vouch that counts up to the required number commits
  the one that makes it so).
  `IndexIsTracked` needs `SoleHolder`, one transaction at a time past its `UPDATE` of the
  event row: only so is there one status for the index to stand for while it is open.
* `SocialGraphProofs`. `TiesAreWhole` needs `HeldExists` (a block that holds the
  connection row found one). `BlockCascades` needs `OneHolder` (a love request is
  held by one transaction at a time) and `Caught` (between the block's last
  statement and its commit, whatever is open was declined or was sent late, and what was
  declined is still open). `SealedStays` follows from the types step by step.
  `PendingSurvivesHolds` is the safety half of `ExpiresCleanly`; it needs `FoundOverdue` (an
  accept that goes on to expire a request found it overdue, so it is pending only if it was
  sent again since).
* `SessionsProofs`. `IInv == TypeOK /\ Fresh /\ Presented`: `Presented` says that a
  rotation past its read still carries the family of a token that was handed out, without
  which a family that ended could be continued by a request that merely claims it; `Fresh`
  that before the account exists nothing was issued and its password is the one a
  registration brings. Families never change and tokens are issued once, so
  `EndedStaysEnded` follows step by step; `LineGrowsByOverlap` counts live tokens and
  issuing requests and trades one for the other.
* `OtpChallengeProofs`. `Guesses` counts wrong guesses *and* comparisons under way:
  `attempts[c] + Cardinality(Comparing(c)) <= MaxAttempts + Cardinality(Handlers) - 1` is
  inductive where `AttemptsBounded` alone is not; `Outstanding` does the same for
  `LiveBounded` with the issues that are between their two statements. With `Ordered`
  (records compared were created, memory holds at most one) they give the refinement
  `ImplementsOneTimeCode`: every step is an `Issue`, an `Accept`, a `Close` or a stutter.
* `EventListingProofs`. `Locked` (a row has one holder, and what its holder found is still
  so) carries `SaveCountTracks`; `Booked` (what is ordered was created and has an end)
  carries `FeaturedIsPaid`. The point needs only the types.
* `MemberProofs`, about `Profiles` and `ProfilePhotos`. The six properties of the profile
  follow from the types, each by the two or three statements that write its columns; what
  a request does to `req` is proved once (`HandsOf`) for all the others. For the photos
  `OvershootIsBounded` counts the additions in progress:
  `Cardinality(Active) + Cardinality(Adders) <= Limit + Cardinality(Editors) - 1` is
  inductive; `PrimaryKeptHolds` is proved action by action.
* `MessagingProofs`. `IInv == TypeOK /\ InTime /\ Attended /\ Unsent`. `TypeOK` bounds every
  stored time by the clock, `InTime` what a request in progress has noted of it. `Attended`
  says that a socket is verified by one request, and waits for it or is gone already;
  `Unsent` that the message a request is about to commit is not there yet and nobody
  else's. So a message that is there keeps its time (`SentStays`). `PagesLoseOnlyTies` adds
  two facts about a listing in progress: its messages are there (`OnlySent`), and what it
  started with it has got, but for ties, or it is still before it, below the cursor
  (`NoneLost`), which a page turn must keep; behind the last page nothing is. The four step properties follow action by action; `Origins` names, once for all of them, the action
  behind each way a request can change, and `EndLetsGo` says what the end of a process does
  to the requests.

Every safety property that a passing run checks is also a theorem. Only model-checked: liveness
(`RequestsAnswered`, `BlockEventuallyHides`, and `OverdueLapses`, the other half of
`ExpiresCleanly`) and anything that mentions
`ENABLED`, which are outside the proof system as installed; so are induction over data and
`RECURSIVE` operators, of which the modules have none. The claim definitions of section 3
are not proved about, since they do not hold.

## 5. Not modelled

* `verification`, `reports`, `notifications`, device tokens and preferences: single
  statements, or one transaction, on rows that no rule of another component reads.
  `createNotification` and `emitToUser` have no caller.
* `recommendations`, `locations`, `media`, `health`, scores of `dating` and the other
  searches: they keep no state. Whom discovery may show at all is in `Profiles`.
* Rooms and broadcasts: Socket.io's delivery is a library. What is stored is in `Messaging`.
* Access tokens and `auth:revoked`: the cut-off compares a time in seconds with one in
  milliseconds and would take a clock in `Sessions`, whose instance it would multiply; the
  properties there are about refresh tokens and do not read it.
* The memory store of users beyond its effect on a session (`LoginFromMemory`), and the
  accounts `RegisterFallback` invents, which are stored nowhere.
* `withLock`, `findPeopleIdsInBounds` and `isDiscoverableBy` have no caller.
* Ghost offsets and distances in metres are floating-point trigonometry; texts, prices,
  labels and layouts are data no property is about.
* Wiring, configuration, DTO validation, seeds and pages.

What would come next: the access-token cut-off with its two clocks, a specification of "earned publication" that `VouchEngine` implements, and a
composition of `Sessions` with `Profiles` in which suspension hides a member.
