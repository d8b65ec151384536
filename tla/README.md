# United Services: a formal model of the platform

TLA+ models of the parts of United Services whose correctness depends on
order, failure and concurrency, the TLC runs that check them on small
instances, and the TLAPS proofs of what holds for every instance. Source paths
are relative to `src/`, the repository; `backend/` is the NestJS API,
`frontend/` the Next.js site, `support-agent/` the Python chat service. `PROJECT.json` maps every definition
to the lines it models and lists the runs, the findings, the hazards and the
theorems.

Contents: 1 inventory of the system; 2 plan; 3 the modules and how they
correspond to the code; 4 the runs, their bounds and what they show; 5 fairness;
6 the proofs; 7 what the code does otherwise than its documentation says;
8 what is not modelled.

## 1. Inventory

The backend runs as several identical replicas (a Kubernetes deployment with an
autoscaler) over one Postgres primary (Supabase), one local Postgres standby, a
primary and a standby Redis, S3, SSM Parameter Store, Clerk and a LibreTranslate
container. Every replica also runs the BullMQ workers. Two requests, a request
and a job, or two jobs can therefore interleave at every `await`, and any
process can disappear between two of them.

| Part | Code | State | Operations | Interacts with |
|---|---|---|---|---|
| Failover health checks | `backend/src/failover/failover.service.ts`; `support-agent/backend/app/failover/manager.py` | per process: mode and two counters per store, a reentrancy flag, the ping pool | periodic check, ping, timeout, flip | emits `postgres:recovered`; every routed client reads the mode |
| Routing and fallback write log | `backend/src/prisma/prisma.module.ts` | `FailoverWriteLog` on the standby | any database call; a logged write in local mode | mode of its process; the reconciler reads the log |
| Mirror sync | `backend/src/failover/db-mirror-sync.*` | the standby's rows; one scheduled job in Redis | upsert pages, delete stale rows | reads the routed database, writes the standby |
| Reconciliation | `backend/src/failover/failover-reconciliation.*` | reconcile jobs, `FailoverConflict` | fetch, replay, record a conflict, mark | started by a recovery, replays through the routed client |
| KEK lifecycle | `backend/src/crypto/*` | `KekRegistry`, key files per pod, SSM copies, keys in memory | rotate, re-wrap, retire, shred, reload, seal, open | MFA seals and opens TOTP secrets |
| MFA factors | `backend/src/mfa/*`, guards | `TotpCredential`, `WebAuthnCredential`, challenges and used time steps in Redis | enrol, confirm, verify, delete | KEK; both Redis stores |
| Tickets | `backend/src/tickets/*` | `Ticket`, `TicketArchive`, S3 objects, archive queue | submit, change status, archive, sweep | S3, BullMQ |
| Translations and list caches | `backend/src/translations`, `services`, `candidates/positions`, `queue/translation.worker.ts` | the text, its cached list, `ContentTranslation`, a Redis lock, the queue | edit, list, show, translate, invalidate | Redis, LibreTranslate |
| Appointments | `backend/src/appointments`, `frontend/views/AdminBookingsSection`, `ClientDashboard` | slots, appointments, the lists on the screens | create, edit, close, book, cancel, list | `slots:changed` over sockets of one replica |
| File access, applications, RFQ | `backend/src/file-access`, `candidates`, `rfq`, the admin sections | one row per case with a status | ask, decide, change status, contact | audit log |
| Accounts and pages | `backend/src/admin-users`, `auth`, `me`, `frontend/app/[locale]` | Clerk's accounts, `User` rows, applications | sign up, self-heal, webhook, role, disable, reset, apply, redirect | Clerk, MFA |
| Service catalogue | `backend/src/services`, `s3`, `frontend/views/AdminSpecsSection`, `specsPrefetch` | the row, its image and files, the cached list, the admin's copy | upload, confirm, edit, remove, list | S3, Redis, translations |
| Candidates' uploads | `backend/src/uploads`, `me`, `s3`, `frontend/lib/resumableUpload.ts`, `CandidateDashboard` | multipart uploads, pending and permanent objects | create, part, complete, validate, promote | S3 |
| Audit log and archive | `backend/src/audit-log` | `AuditLog`, `AuditLogArchive` | append, move a batch | scheduled queue |
| Support chat | `support-agent/backend/app/agent`, `routers`, `memory` | history in Redis, transcript in Postgres, tickets | a turn over several candidate models, escalation | its own failover and mirror |
| Support standby mirror | `support-agent/backend/app/failover/mirror_sync.py` | the standby's tickets and sessions | copy, delete stale, set the sequence | its failover manager |
| The rest | throttling, alerting, analytics, logging, metrics, geo, allowed origins, the other views, infrastructure | counters and caches | | |

What makes the modelled parts correct, and what is hard about it:

- *Health checks.* A mode changes only after a run of checks against it, and
  a lasting outage or recovery is always noticed. Hard: a ping that never
  answers, the single ping connection that a timed-out query keeps, restarts,
  counters that survive what should clear them.
- *Standby.* A sync that reads the primary deletes nothing that the primary holds; the
  standby converges when left alone; a recovery replays what was logged. Hard: modes differ per replica and
  change under a running sync or replay; the routing is decided anew at every
  property access; jobs are shared, redelivered and unordered with one another.
- *KEK lifecycle.* There is one active key and it is the newest; who seals a
  secret can open it; no key still needed is shredded; a rotation finishes. Hard:
  file, registry and SSM are written one after the other, each pod has a volume
  and a memory of its own, and enrolments and verifications run during rotations.
- *Tickets.* No submitted ticket is lost; a resolved ticket stays resolved and is
  archived with its screenshot deleted. Hard: the status is committed before the
  job exists, jobs of one ticket run twice and next to the sweep, S3 fails between
  two database writes.
- *Translations.* A translated row is the translation of the text it names by
  its hash; one translator at a time; the page settles on the last text. Hard:
  locks that expire or outlive their owner, edits during a translation, caches
  filled with what was read before an edit, jobs the queue takes for duplicates.
- *Appointments.* A slot goes to one client until the booking is cancelled, and an admin's list never goes
  back to an older state. Hard: two clients book at once, a commit's answer is lost,
  list answers overtake one another, a signal reaches one replica's sockets only.
- *Cases.* A case is decided once, by the admin its row names, and its entry in the
  trail agrees; a client has one open request per file. Hard: stale lists, two
  admins' clicks, and an insert after a look at what is there.
- *Audit trail.* An entry is in one of its two tables, and a page loaded in pieces
  leaves none out. Hard: batches fail, are delivered again and overlap; entries
  arrive and leave between two pages, and commit in another order than they are dated.
- *MFA.* A code is good once, and whoever has a method is asked for it. Hard: a code
  sent to two endpoints, a factor deleted while the other is confirmed, a key
  rotation in between, and Redis state that a failover forgets.
- *Accounts.* Only a grant makes an admin, and every page comes to rest for a session that
  is not refused. Hard: three
  ways to a row (self-heal, webhook, creation) that run at once and late, and two
  systems (Clerk and Postgres) written one after the other.
- *Catalogue and uploads.* A served key names a stored object, and an object is one whole
  file; the public list catches up. Hard: URLs and confirms can be used again, S3, Postgres and Redis are written one after the other, a retry
  repeats what may have taken effect, and the cache is filled with what was read before.

## 2. Plan and order

The modules, in the order of importance, all of them written:

1. `Debounce`, `FailoverMonitor`: the abstract promise of a health check, the check,
   and the refinement.
2. `StandbyReplication`: routing, log, sync and reconciliation composed over the modes
   of the replicas. It takes from `FailoverMonitor` only that a mode follows the
   link, which is what the monitor's two liveness properties give.
3. `KekLifecycle`; 4. `TicketLifecycle`; 5. `ContentTranslation`.
6. `DecideOnce`: the abstract promise of a case that is decided once, which `Casework`
   (requests, applications, quotations) implements; `Bookings`, whose slots are held until a
   booking is cancelled.
7. `MfaFactors` takes of `KekLifecycle` that a rotation may commit at any time;
   `Accounts` takes of `MfaFactors` that enrolment and verification may come and go.
8. `AuditTrail`, whose entries `Casework` writes; `Catalogue`; `CandidateUploads`.

The theorems and their proofs are in modules of their own, one per component or one for
two that are neighbours: `FailoverProofs` (1, 2), `KekLifecycleProofs`,
`TicketLifecycleProofs`, `ContentTranslationProofs`, `DecisionProofs` (6), `SignInProofs`
(7), `AuditTrailProofs` and `ObjectStoreProofs` (the other two of 8). Of two components with
one proof module the second has its own prefix on `Init`, `Next`, `Spec` and `TypeOK`
(`Replication`, `Bookings`, `Accounts`, `Uploads`), since both are extended together.
`MCCasework` and `MCMfa` add only the symmetry of interchangeable admins, tabs and ids,
in runs without liveness properties. Constants carry named assumptions; no module uses
RECURSIVE. What is left of the plan is in section 8: the support agent's chat and
its standby mirror.

## 3. The modules

**`Debounce`** (45 lines) is what a reader of a mode may rely on: a mode, and how many
checks in a row contradicted it. **`FailoverMonitor`** is `checkPostgres`, `checkRedis`
and the support agent's `_check`, which are one state machine; `PingBounded` and
`PersistentConnection` tell them apart. `StartCheck` is the timer with its
reentrancy flag, `PingAnswered`, `PingRefused` and `PingTimesOut` are the three ends
of a check with the whole try and catch body, `LateAnswer` is the answer to a ping
nobody waits for any more, which frees the pool's only connection. The link is the
environment: it may be up, refuse, or hang.

**`StandbyReplication`** has two databases as functions from keys to contents, a log
per database, and per replica a mode, a sync worker and a reconciliation worker.
`Routed(r)` is the Proxy, evaluated in every action that makes a database call and
never remembered from one action to the next. A client write in local mode is two
actions (`WriteLocal`, `LogWrite`) because the code awaits twice; a sync is one
action per page read, page write, stale search and delete; a replay is fetch,
replay, conflict, mark. Jobs are redelivered on `Restart`. A content is the number
of the client write that made it, so a content tells which write is in effect. `from` in a
sync's state is the history of where its pages were read, which no step looks at.

**`KekLifecycle`** has the registry, the key files per pod, SSM, the keys in each
pod's memory and the reload in flight. Enrolments, verifications and the rotation
job look up keys in the same way (`LookUp`, with the shared reload and the
missed-key window), so they are processes of one kind. The rotation is one action
per awaited step: file, transaction, backup, reload, list, per row open, seal and
compare-and-store, retire, shred. A commit that fails may have taken effect; either way
the catch discards the file. `Restart` keeps or loses the pod's volume.

**`TicketLifecycle`** has the live row, the archive row, and the pending and permanent
S3 object of a ticket. `create` is five actions (row, check, copy, unlink,
record), `updateStatus` is read, write and enqueue, the archive job read, upsert,
object, stamp, row, shared by jobs and the sweep.

**`ContentTranslation`** has one text in one locale. Its versions are numbers and are
their own hashes. A visitor's request and the job run the same steps (`Rows`,
`AcquireLock`, `Mark`, `Translate`, `ReleaseLock`) and differ where the code differs:
a visitor who loses the lock polls (`Poll`), and reads the row at the end
(`Final`); the job has nothing to do. `kind` chooses between the services' cache,
filled before the translation, and the positions' cache, filled with the result.

**`Bookings`** has the two tables of `AppointmentsController`, and, per screen, its
numbered list requests with their phase (waiting, served, landed, failed). `Land`
applies an answer the way the screen's code does: an admin's list through
`useRequestGuard`, the client's picker without it. `Book` is the conditional update and the
insert in one transaction, with its two refusals; `BookAnswer` and `AdminAnswer`
are the answer, the signal and the reload that follow. `tick` numbers the commits and
so dates what a screen shows.

**`DecideOnce`** (20 lines) is an open case that gets one outcome and keeps it.

**`Casework`** has file requests, applications and quotation requests, and the trail
entries of their decisions. `LookForOpen` and `InsertRequest` are `create`, with the
partial unique index of the migration as the insert's guard; `DecidePending` is the
conditional `updateMany` that `file-access` and `candidates` share, `MarkContacted`
the one of `rfq`; `RecordChange` is the entry, a statement of its own. What an admin can
click is what the views offer, on any state that a row has been in.

**`AuditTrail`** has the two tables as sets of entries numbered by their commits, each with
the `createdAt` its replica stamped before. A search and a batch are in the order of `createdAt`
alone (`PagesOf`, `Oldest`), any order among equal ones. Beside them are the recurring job, the
workers' batches, and the admin's list: its search box with the delay, the reloads
under the request guard, `LoadMore` with its offset.

**`MfaFactors`** has one admin's rows, Redis state and sessions. The handlers are one
action per awaited step; `ReadTotp` to `RecordStep` to what the endpoint does with a
good code is shared by the confirmation, the challenge and the password reset, as in
the code. The two cards of the security page and its reset form decide what a tab may ask for. Redis is two stores that copy nothing to
each other; `mode` is what every replica's `FailoverService` says, `RedisFlips` changes it in
either direction, and `Store` is read again at each command, as the connection's Proxy does.

**`Accounts`** has Clerk's side and ours, webhooks as a set of late and repeatable events,
the admins' operations step by step, and the account's own requests, among which
the guard's self-heal. `Sends` is where each page of `app/[locale]` redirects to, given what
/me answers (`Answers`): the row, disabled, refused (every other 401) or down; `After` follows it.

**`Catalogue`** has one service. Each click of an admin is an operation with its own steps
(`Put`, `ReadImage`, `Copy`, `CountFiles`, `SaveImage`, `DeleteRow`, `Sweep`, `DropList`), any
of which may be its last. An upload has a key, to which `PutAgain` may put another object, and
`ConfirmAgain` is an operation with the key of an earlier one. Several GETs of the list may be
under way: each answers from the cache (`Hit`) or, also when its cache GET fails, reads the
rows (`Miss`) and writes the entry later (`CacheList`); `Land` is the tab's.

**`CandidateUploads`** has the attempts of `performUpload` as processes over S3's uploads,
parts and objects. A call may fail before or after it took effect, a retry resumes
what `pendingUploads` keeps, the server goes on with a confirmation nobody waits for.

## 4. Runs

Each has the configuration file of its module's or its own name; all finish on two
workers within two minutes. None expects a violation: what the code does otherwise
than it says is in section 7.

| Run | Checks | Bounds | Shows |
|---|---|---|---|
| `postgres_monitor` | `CountersAreStreak`, `FlipsNeedARun`, `OutageDetected`, `RecoveryDetected`, `Debounced` | thresholds 3 and 3 as in the code, 2 restarts | counting, flipping, detection of a lasting outage or recovery, and that the monitor implements `Debounce`, with the link failing and hanging in any pattern |
| `standby` | `ReplicationTypeOK`, `ReplaysComeFromStandby`, `DeletesOnlyVanishedRows`, `StandbyConverges` | 1 replica, 2 rows (one of them excluded from replay) that may be mirrored already, 1 write, 2 cuts, 1 crash, 2 attempts | replays, and the syncs that read the primary only, are safe at every interleaving, and the standby catches up when left on the primary |
| `kek_rotation` | `OneActiveTheNewest`, `SealerCanOpen`, `LiveKeysKept`, `RotationFinishes` | 2 pods, 1 user, 1 request, 2 keys, 1 restart | a whole rotation with an enrolment or verification in flight and a pod lost at any step |
| `tickets` | `NoTicketLost`, `ArchivedShotIsGone`, `ResolvedIsTerminal`, `ResolvedGetsArchived` | 1 ticket, 2 admins, 2 jobs, 1 crash | a ticket from submission to archive |
| `translations` | `RowMatchesItsHash`, `EachExpiryAdmitsOne`, `SettlesOnLatest` | 2 visitors and the job, 2 versions, 1 fault | one edit, three concurrent translators, one fault anywhere |
| `bookings` | `TakenSlotHasItsBooking`, `HeldUntilCancelled`, `AdminListsNeverGoBack`, `SettledListShowsOwnChange` | 1 slot, 2 clients, 1 admin, 3 commits, 2 list requests a screen, 1 failing request | one booking of a slot until it is cancelled, and lists under the request guard |
| `casework` | `OneOpenRequest`, `TrailMatchesRows`, `DecidedOnce` | 2 requests for one file, 1 quotation, 2 tabs, 2 admins | races of clients and of admins, cut off anywhere |
| `audit` | `EntryInOneTable`, `NoEntryBetweenIsMissing`, `ExpiredGetsArchived` | 3 entries, 3 times, batches and pages of 1, 1 worker, 1 attempt, 2 list requests, 1 fault | archiving, after a job that used up its attempts too, next to an admin's search and Load More |
| `mfa` | `StepAcceptedOnce`, `MethodMeansEnrolled` | 2 sessions, 2 replicas, 1 biometric key, 2 secrets, 1 time step, 2 challenges, 1 turn of a replica | codes and factors raced by two sessions, with rotations and two replicas that may be on different Redis stores |
| `accounts` | `AdminsAreGranted`, `RedirectsSettle` | 1 account, 1 super admin, 1 request of the account, roles client and super admin | who becomes an admin, and where the pages send a browser, after a refused session too |
| `catalogue` | `ServedIsPromoted`, `ListCatchesUp` | 2 operations from two admins' tabs, one visitor and the tab reading at once, again and again | S3, Postgres and Redis written one after the other, stopping anywhere, URLs and confirms used again |
| `candidate_uploads` | `WholeFile` | 3 attempts over 2 parts in 2 slots, 1 request for documents | failing, overlapping and resumed uploads |

The type invariant, where the run does not list it, is proved (section 6). Of all modules TLC
agrees with it when it is added to the run.

Why the bounds are enough for what the runs claim. Thresholds of 3 are the
code's own. Two rows are needed for a sync to be between pages and between phases;
they may be there from the start, so one write already is a creation, a change or a
deletion; two cuts allow an outage during the recovery from another. Two keys
are one whole rotation; a second one meets the first only through a retiring key
left over, which the one restart produces. Two admins, jobs, visitors, tabs, clients or
operations are the smallest numbers for which a step of another can come between two
steps of one; three processes reach the lock in `translations`, so a lock can be
taken from under a second owner by a third, and three attempts are one upload, its
retry and an overlapping one. `audit` needs three entries for one to be missing between
two, and three times for them to be dated in any order. Its job has one attempt, so that a
fault exhausts it and only the next scheduled job can archive what it left; for the tables that
next job does what a retry would do. Retries and more workers are what the proof covers, for
any number of both. `casework` has no application, which is decided by the same action as a
file request; the proof covers both. One time step suffices for a code sent twice, and one turn
of one of two replicas for both stores to be in use at once; the proof has any number of turns.
`PutAgain` stops once no operation will read what is put.
One fault per behaviour is deliberate: the properties are about what a single fault may
do at any point, and the proofs remove the bound where they apply. The counters
`restarts`, `cuts`, `writes`, `crashes`, `enrols`, `requests`, `faults`, `made`, `flips`,
`tick`, `asks`, `asked`, `entries` and the numbers of operations and attempts only bound the
state space.

The history variables (`streak`, `acked` of the standby, `unsaid`, `created` of the bookings, `settled`, `steady`,
`wiped`, `rushed`, `expiries`, `accepted`, `granted`, `own`, `crossed`, the `from` of a sync,
the `by` of an envelope, the owner of the lock) appear in no guard that decides what the code does,
with two exceptions: that `created` stands for identifiers that are random and never reused,
and the lock's owner decides whether an expiry is counted as early.

Deadlock is checked in the runs of the failover, keys and tickets. The others may rightly
stop: without a visitor, a click or a due entry there is nothing to do.

Every property of a run is shown to depend on the code by a mutant: a definition
such as `AcquireAnyLock` or `RotRetireShredsFirst`, marked "Mutant" in its module, that
replaces the definition it resembles by what a plausible slip would make of it, and
with which TLC finds the property violated.

## 5. Fairness

Fairness is weak throughout and given only to what the code schedules by itself:
interval timers and BullMQ schedulers fire, promises that can settle do, workers
take jobs, keys with a time to live expire. Nothing is assumed of clients, admins,
links, crashes, or of which call fails.

- `FailoverMonitor`: the timer, the end of a check that can end, and TCP, which
  delivers or gives up once the link moves packets. `OutageDetected` and
  `RecoveryDetected` are conditional on a link that stays as it is.
- `StandbyReplication`: the scheduler, the workers, and a mode that follows the
  link. This last one is what `OutageDetected` and `RecoveryDetected` say of the
  monitor. `StandbyConverges` supposes that all replicas stay on the primary.
- `KekLifecycle`: the daily job is started again and again on some pod; requests
  and reloads in flight proceed. `RotationFinishes` supposes that the keys
  have their SSM copy from some time on.
- `TicketLifecycle`: the sweep. No fairness is given to the jobs' own queue, so
  `ResolvedGetsArchived` rests on the sweep alone, which is what the sweep is for.
- `ContentTranslation`: requests and the job proceed, finished jobs are forgotten,
  the time to live of the lock and of the cached list passes, and in
  `VisitedSpec` a visitor comes again and again. The last is needed: an edit's job
  may be swallowed as a duplicate or its enqueueing may fail, and then only a visit
  brings the translation about.
- `AuditTrail`: the cron recurs, some worker takes its job, a job at work takes its
  steps. Failures are not fair but bounded by `MaxFaults`.
- `Catalogue`: Redis expires the list. Operations and reads in flight are under no
  obligation to go on, for a restart ends them.

## 6. Proofs

All are checked by `tlapm` without unproved steps, for every value of the constants
that satisfies the module's assumption; those that only say that a bound is a number are
not mentioned below. Every invariant, action property and refinement of every run is
stated by a theorem.

**`FailoverProofs`** is about `FailoverMonitor` and `StandbyReplication`. The first half assumes
that both thresholds are at least 1.
`MonitorTypeCorrect`; `CountersCorrect`, that the counter of the current mode is the
length of the run of checks against it and the other one is clear; `NoFlipOnBlip`,
that a flip ends a full run; `MonitorImplementsDebounce`, that every behaviour is one
of `Debounce`. `CountersAreStreak` is inductive with `TypeOK` and carries the other
two: under the refinement mapping, `against` is whichever counter is in use, and a
check maps to `Confirm`, `Contradict` or `Switch`, a restart to `Boot`, the rest to
stuttering.

The second half assumes that there is a row and a job has an attempt.
`ReplicationTypeCorrect`; `ReplaysAreOfTheStandby`; `SyncsSpareHeldRows`. The inductive invariant has two parts beside the types:

- `LogSound`: a run that replays read the standby's log, and what it has still to do is
  inside that log. That survives the others' steps because entries are only added or
  marked.
- `SyncSound`: the rows that the primary has held since a sync began are still held
  (`SteadyIsHeld`); a sync stands within the rows (`SyncsPlaced`); and a sync whose pages were
  all of the primary has seen every steady row up to where it stands, and in its second phase
  all of them, while the row it is about to delete is one it has not seen (`PhasesSound`).
  Hence that row is not steady. A page read from the standby breaks this, which is how the
  proof of it for all syncs failed (section 7).

**`KekLifecycleProofs`** assumes that the worker is not a request and the first key
exists. `KekTypeCorrect`; `ActiveKeyIsNewest`; `SealerKeepsKey`; `LiveKeysAreKept`. The invariant adds to
the three properties:

- `Generations`: no key beyond the last one generated is registered, and a worker
  about to commit holds the number of that last one, not registered yet. Without
  it a commit could register an old key again, and `OneActiveTheNewest` would not
  survive it.
- `Holding`: a process about to store a sealed secret has in its pod's memory the
  key it sealed to. That is what `SealerCanOpen` becomes when the store
  happens. It survives other processes' steps because memory only grows, except in
  a restart, which also ends the pod's processes.
- `FilesSafe`: the key about to be committed has its file, and the key about to be
  shredded is retired. The other file that is shredded, after an exception of the commit, is of
  a key never registered (`Generations`) or of one that this commit registered all the same
  (`unsaid`). So no other live key is lost, whatever is cut off.

**`TicketLifecycleProofs`** assumes that a job has at least one attempt.
`TicketTypeCorrect`; `NothingIsLost`; `NoPathBack`; `NoShotLeftBehind`. A ticket is
`Over` when it has been submitted and is resolved or gone. No step brings a ticket
back from there, because a status change finds its row unresolved or contacted or does
nothing. On that rest:

- `ArchivedIsOver`: only such a ticket has an archive row or a job past its read, and
  that job has its archive row once past the upsert. So the row deletion, and with it
  `NoTicketLost`, is safe in whatever order jobs run.
- `OverIsDone`: outside the rushed tickets (section 7) the submission is through
  by then, so nothing promotes an object or names it in the row any more.
- `SameShot`: hence all jobs on a ticket read the same screenshot, which is the
  archive row's. Without it a job that read no screenshot could delete the row
  of a ticket whose archive row, written by another job, names one.
- `ObjectGone`: how far a job is with the object, which is what `ArchivedShotIsGone`
  needs when that job deletes the row.

**`ContentTranslationProofs`** assumes a finite set of visitors. `TranslationTypeCorrect`;
`RowsMatchTheirHash`; `OneTranslatorPerExpiry`. The last needs `LockBound`: the number at
work is at most the number of expiries, plus one if the lock is held by one of those at
work. The bound alone is not inductive, because whether one more may enter depends on
whether the present lock has a living owner; `ReleaseLock` deletes a lock that may be
another's, and then that other one moves from the first term to the second, paid
for by the expiry that let it in.

**`DecisionProofs`** is about `Casework` and `Bookings`. For `Casework` it assumes that the
three kinds of case have different ids and that no
admin is called "none". `CaseTypeCorrect`; `OneRequestIsOpen`; `TrailIsTrue`;
`CasesDecidedOnce`, that every behaviour is one of `DecideOnce`. To the trail's
agreement with the rows `Signed` adds that an admin between the update and the entry
is already right about the row: what the conditional update wrote can be touched by
no later decision. `OneOpen` says of pairs of requests what `OneOpenRequest` says of a
cardinality. In the refinement the decision of a case is its final status and the
admin named in the row; a step maps to a decision of the one case whose row goes from
open to final, or to stuttering.

For `Bookings` it assumes that there is a time. `BookingsTypeCorrect`; `TakenSlotsAreHeld`;
`SettledListsShowChange`; `AdminListsAdvance`; `SlotsAreHeld`, that only a cancelled booking's
slot may go to another client. `OneEach` says that a booked slot has one appointment and any other none,
which the transaction keeps because its update finds the slot open. The lists need that
the answer an admin's list still waits for is no older than what it shows (`ListInOrder`), and
that the last request of a slot list was sent after the admin's own last change, so that its
answer, served or landed, has that change (`OwnInOrder`). `RoomToAsk` says that the bound on
requests leaves one for each change under way.

**`AuditTrailProofs`** assumes positive sizes. `TablesTypeCorrect`; `NoEntryLostOrDoubled`;
`AuditTypeCorrect`; `ListHasNoHole`.
`EntryInOneTable` becomes inductive with `BatchesRecorded`, that the batch a worker
remembers from its SELECT names recorded entries only. It need not name entries still
in the log: the transaction moves what it finds of them, which is why overlapping
workers neither lose nor double one. For the list, `ArchiveOrder` says that the
archive takes from the old end: what it holds, or a batch on its way holds, has expired
(`ArchivesExpired`), and an entry dated later than one of the log is in the log (`LogIsNewest`, and
`BatchesOldest` for the batches on their way). A page is therefore without a gap between rows of
different dates when it is served (`PageIsWhole`). Stamps and commits may come in different
orders, so places in the list may shift either way between two pages; but the number of entries
not older than a given row only grows, archived ones counted. So a skip that counts the list's
rows never reaches below its last one, and the next page adjoins the list for what had committed
by then (`PageAdjoins`). That is `OnCourse` (`Whole` and `MoreFollows`), which holds of a list until
`crossed` says that another search or another list came in between. An entry that commits after
both of its neighbours, or has the date of one, may be missing (section 7).

**`SignInProofs`** is about `MfaFactors` and `Accounts`. `MfaTypeCorrect`; `CodeAcceptedOnce`;
`MethodsAreChallenged`. `StepsCounted` counts the codes that went through a store against the
step it has: above it none, up to it one each. The comparison and the store of `RecordStep`
are one script in Redis, and that is where the proof uses it: whether the request verified
the code in the same store before does not matter, so neither do the number
and the order of the replicas' turns. A code can go through twice in all, once per store,
and no more. `FactorsEnrolled` is inductive by itself, since the factor and the
mark are written in one transaction and no other action clears the mark while a method
is left.

For `Accounts` it assumes that the roles an admin may pick are four of the code's.
`AccountsTypeCorrect`; `AdminRolesAreGranted`; `PagesSettle`. As long as an account has no row,
its metadata at Clerk (`MetaSound`), the events on their way (`EventsSound`) and the request that
creates it (`AdminsSound`) hold an admin role only if that is what it was created with; the
row, once there, takes an admin role from `updateRole` alone, which is the grant. Late, repeated
and overtaken events do no harm because all they can do is create the row, and then with such a role.
For `PagesSettle` the proof follows a browser through every page, role and
state of its factors: three redirects are enough from anywhere, and `After` follows four; where a refusal sent it is one
of these pages. A session that goes on being refused is not covered (section 7).

**`ObjectStoreProofs`** is about `Catalogue`, for any number of operations, and
`CandidateUploads`. `RowsTypeCorrect`; `ServedKeysPromoted`; `CatalogueTypeCorrect`.
The argument is about keys that one operation confirms (`Once`), which are the number of an
upload of the same kind (`Owned`), and about what an operation remembers across its steps: the
keys it means to delete were read from the row, so (`OldThrough`) the operations that brought
them are past their own save, and (`SweepsUnserved`) a key that has left the row is not served
again. `Prepared` says that a key about to be saved is stored; `ImageThrough` and
`FilesThrough` that a served key's own operation is through; `OldImages` and `GoneIsEmpty`
that an image operation deletes images only and that a removed service serves nothing. Without
them a late sweep might delete what a later operation saves. That a key is put again does not
matter to them: only a confirm makes a permanent object, and a key confirmed twice is outside
`Once`. `Succeeds` is what every step of an operation does to its record, and `MemoryKept`
and `MovesOn` prove the parts that depend on nothing else once for all of them.

The types of the rest need `IdsOnce`, that an operation saves one file row, so that
(`Counted`) no version or count exceeds the number of operations.

For `CandidateUploads` it assumes that a file has a part. `UploadsTypeCorrect`;
`ObjectsAreWholeFiles`. What an attempt sends, what is kept for a
Retry and what S3 has of an upload all belong to the file the upload began with
(`RunsPaired`, `KeptPaired`, `BytesPaired`), so no part of another file reaches it however attempts
overlap; and an attempt goes through a part once (`AckedOncePerRun`), so what it reports
is a count of different parts.

What stays with TLC: the liveness properties (`OutageDetected`, `RecoveryDetected`,
`StandbyConverges`, `RotationFinishes`, `ResolvedGetsArchived`, `SettlesOnLatest`,
`ExpiredGetsArchived`, `ListCatchesUp`), which need ENABLED and fairness, and the absence of
deadlock.

## 7. Where the code departs from its documentation

Each statement is quoted from the repository or is what a comment there means to ensure,
is a property of the module, and has a counterexample that TLC finds with the
configuration named: a file of its own, or the run's file with the property in place of
those it lists, with the change of constants given.

| Module, configuration | Property | Statement | What happens |
|---|---|---|---|
| `SupportMonitor` | `OutageDetected` | `manager.py:1-4`: same design as the backend's `FailoverService` | its ping has no timeout: one that hangs latches the check for good |
| `RecoveryReplay` | `RecoveryReplaysEveryWrite` | `docs/DISASTER_RECOVERY.md:38-40`: replays every logged write | the reconciler reads the log through the routed client, which by then is the primary, where nothing is logged |
| `Standby` | `AckedMeansLogged` | `docs/DISASTER_RECOVERY.md:36-38`: such writes are accepted (not rejected), and logged | the entry is a statement of its own after the write; when it fails the write stays and is told as made |
| `SyncSpares` with 2 replicas | `SyncSparesPrimaryRows` | `db-mirror-sync.service.ts:202`: removes rows that no longer exist on primary | a replica that flips under its sync reads its pages from the standby, where a row is not yet; another replica's sync copies the row, and the first one deletes it from the standby |
| `SyncSpares` | `SyncSparesFallbackWrites` | `db-mirror-sync.worker.ts:27-30`: would overwrite the fallback writes | the first sync after a recovery overwrites or deletes them |
| `Reconciled` | `ReconciledMeansSettled` | entries are replayed against primary | with a second failover they are replayed onto the standby and marked |
| `LogOrder` | `LogKeepsCommitOrder` | an ordered log of the standby's writes | the entry is inserted after its write |
| `Standby` | `OnlyCommittedWritesLogged`, `NoWriteLoggedTwice` | the same | the entry is outside the transaction of its write; a replay routed to the standby is logged again |
| `Standby` | `SyncOnlyInPrimaryMode` | syncs only in primary mode | the mode is checked once, before the sync |
| `Standby` with 2 replicas, no write, no restart | `OneReconciliationAtATime` | one run at a time | concurrency 1 holds per replica |
| `KekRotation` | `OnlyUnregisteredDiscarded` | `kek-rotation.service.ts:184`: never leave an unregistered private key on disk | the catch takes every exception of the commit for a failed one; of a commit that took effect and lost its answer it shreds the new active key's only file |
| `KekRetire` | `NoSecretUnderRetiredKey` | `scripts/kek-retire.ts:74-76`: can't interleave | an enrolment that took the active key stores after that key was rotated and retired |
| `KekRewrap` | `RewrapKeepsSecret` | re-wrap of the secret | a verification stores the secret it read over a newer enrolment |
| `TicketContacted` | `ContactedAtKept` | `tickets.controller.ts:212-215`: never cleared afterward | a status change that read the ticket earlier writes null back |
| `TicketOrphan` | `NoOrphanedShot` | `docs/BUSINESS_RULES.md:202-203`: can never orphan an S3 object | a ticket resolved during its submission is archived before its screenshot arrives |
| `TranslationCalls` | `OneCallPerText` | `docs/BUSINESS_RULES.md:122-125`: never more than one call | the row is not looked at again under the lock |
| `TranslationRetry` | `FailedJobIsRetried` | `translation.service.ts:487-491`: it retries automatically | the failure is caught, so the job completes |
| `Translations` | `NoOlderTextServed` | `translation.service.ts:280-283`: if the hash still matches | the read after one's own translation compares no hash |
| `BookingsTold` | `ToldTakenIsTaken` | the page's message that the slot was just taken | a booking that was made but whose answer is lost is told as taken |
| `BookingsTime` | `BookedAtSeenTime` | the picker shows the time that is booked | an admin's edit moves a slot under the client's hand |
| `Bookings` with 1 client, 3 list requests, no fault | `PickersNeverGoBack` | rule 15: a load callable from more than one place guards against out-of-order answers | the client's picker has no request guard |
| `Bookings` | `ReopenedIsOffered` | `appointments.controller.ts:206-209` (also 66-70, 99-103): an admin who wants a cancelled booking's slot offered again closes or edits it | nothing resets `isBooked`, and clients are offered slots that are not booked only: the slot never comes back |
| `CaseworkRecorded` | `EveryDecisionRecorded` | rule 8: every admin action is in the audit log | the entry is a statement of its own and may fail after the decision |
| `AuditTrailList` | `ListShowsItsQuery` | rule 15, as above | Load More appends without a guard to what may be another search's list |
| `AuditTrail` | `NoEntryMissing` | `usePaginatedList.ts:21`: load 20, Load More for 20 more | the order is by `createdAt` alone, which is stamped before the commit: an entry may commit between rows already shown, and equal ones may be cut differently by two pages |
| `MfaDelete` | `DeleteLeavesAMethod` | `mfa.service.ts:353-360`: never ends up with zero methods | two deletions each count the other's factor |
| `MfaReplay` | `NoReplay` | rule 11: a code can only ever be used once | the last step is in one Redis; a replica that turns to the other does not know it |
| `Mfa` without its symmetry | `OnlyEnrollingChangesSecret`, `ConfirmedIsInTheApp`, `NeverStranded` | the re-wrap keeps the secret; what is confirmed is what was scanned | a secret read before a newer enrolment is stored or confirmed over it |
| `AccountsDemoted` | `ApplicantIsNoAdmin` | becomeCandidate: an admin account can never reach this path | the role was read by the guard before the request waited |
| `AccountsApplied` | `FormEndsInApplication` | the form ends with an application | cut off after the account exists, it cannot be sent again |
| `Accounts` | `RowHasAccount` | create(): no orphan of either side | the webhook creates the row first, `create` fails on it and deletes the account only |
| `Accounts` | `TempPasswordMustChange`, `MustChangeFirst` | a temporary password is changed before anything else | two systems are written one after the other; the other pages do not look |
| `Accounts` | `RefusedSettles` | `sign-in/page.tsx:12-18`, `dashboard/page.tsx:66-70`: no ping-pong between /sign-in and /dashboard | a 401 other than the disabled account's goes to /sign-in, which sends a browser that Clerk takes for signed in back, for as long as the backend refuses its session |
| `Accounts` with 1 admin, only super admin picked | `PlainAdminLeavesSuperAlone` | rule 17: only a super admin modifies one | the target's role is checked before, not with, the write |
| `Accounts` with only candidate picked | `CandidateHasApplied` | the only path that ever produces a candidate | an admin may pick the role too |
| `Catalogue` | `ServedStays` | `services.controller.ts:523-525`: the old object is deleted only once the new key is committed, so no failure leaves the service with no image at all | a confirm sent again, after another PUT to its URL, reads its own key as the old one and deletes the object that the row names |
| `CatalogueVersions` | `VersionsDiffer` | versions number a service's files | two confirmations count the same number of files |
| `Catalogue` | `NextVisitIsFresh` | `specsPrefetch.ts`: the next visit is fresh after a mutation | a list read before the change arrives after the reset, or another admin made the change |
| `Catalogue` | `NothingLingers` | `s3.service.ts`: what is not referenced does not linger | a delete that fails leaves one, and the answer is a success |
| `UploadsRetry` | `RetryCanSucceed` | the Retry button resumes | a completion whose answer is lost has consumed the upload |
| `UploadsLatest` | `LatestPickWins` | the last picked photo is the one on file | `uploadingKind` is one value for both slots, so two uploads of one slot overlap |
| `CandidateUploads` | `OneUploadPerKind`, `OneDocumentPerFile`, `RequestIsAnswered` | one upload of a kind at a time; a file is one document; an upload after the request clears it | as above; and a confirmation may be repeated, or be of an upload from before the request |

In all of these the modules follow the code. The properties of the runs are stated so
that they hold in spite of them, and say so where it matters: `ArchivedShotIsGone`
excludes tickets resolved during their submission, `LiveKeysKept` a key whose commit took
effect and was told failed, `EachExpiryAdmitsOne` counts expiries, `StepAcceptedOnce` counts
stores, `NoEntryBetweenIsMissing` excludes lists that Load More crossed, entries that commit after
both of their neighbours and equal dates, `HeldUntilCancelled` ends with a cancellation,
`RedirectsSettle` excludes a session that goes on being refused, `ServedIsPromoted` excludes keys
that were confirmed more than once, and
`DeletesOnlyVanishedRows` excludes syncs that read a page from the standby: as an invariant of
all syncs it is `SyncSparesPrimaryRows`, which could not be proved, and TLC found why.

## 8. Not modelled, and why

- The support agent's chat (candidate models, time budget, two tabs over one history)
  and its standby mirror (two tables, a ticket sequence). Both are small protocols over
  state of their own that nothing above depends on; their two known hazards (tickets of
  a failover deleted by the next mirror, histories of two tabs) are in `PROJECT.json`.
- The operators' scripts `kek:generate` and `kek:retire`, which repeat steps of the
  rotation; a second generator next to a rotation is not covered.
- Within the modelled parts: foreign keys between tables, `*Many` operations and batches
  of more than one page in the reconciliation; pools and timeouts other than the ping's;
  BullMQ's registration of scripts on a failed-over Redis; deletion and closing of a
  text, several texts in one batch and the monthly character budget (its outcome is a
  failing `Translate`); the HTTP caches in front of `GET /services` and `/positions`,
  which delay what a visitor sees by their own time to live; profiles (`PATCH /me`),
  the list of accounts and session cookies; downloads of approved files; past dates and
  second pages of the appointment lists.
- Pure input and output, formatting, counting and presentation: logging, metrics,
  alerting, analytics, geolocation, health endpoints, CORS and rate limits, the cache of
  allowed origins, document ingestion, the views that only render, deployment scripts and
  infrastructure files. They hold no protocol of their own; what they imply (several
  replicas, volumes that go with a pod, restarts at any time) is in the actions.
- Cryptography: a sealed secret is the key it is sealed to, and opens with the private
  half of it; a code is the secret and the time step it was made from.
