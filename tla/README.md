# TLA+ development of nestjs-fastify-nx

This directory models the concurrent core of the repository in TLA+: the places
where an API request, a background worker, a scheduler replica and a crash can
meet on the same Redis key, database row or storage object. TLC checks the
models on small instances; TLAPS proves every safety property those runs check, and the
three refinements, for every value of the constants.

## The system

Four programs (`apps/api`, `apps/worker`, `apps/scheduler`, `apps/migration`)
share one Postgres database, two Redis instances (cache and BullMQ queues) and
an object store. The business modules are under `libs/modules`, the shared
infrastructure under `libs/infra`.

| Component | State it keeps | Operations | Meets |
|---|---|---|---|
| Idempotency (`apps/api/src/common/idempotency`, `interceptors/timeout.interceptor.ts`) | one Redis record per principal and `Idempotency-Key`: pending with an owner token, or completed with a response; TTLs | acquire, complete, release, late completion after a 504 | the request's handler and its timeout, other requests with the key |
| Uploads (`libs/modules/upload`) | `stored_files` rows, objects in the bucket, the staged object of a presigned upload | presign, confirm, multipart upload, verify, delete | worker, sweeps, clients writing to storage |
| Verification worker (`apps/worker`) | BullMQ jobs | inspect, publish or quarantine | confirms, sweeps, stalls |
| Stored-file sweeps (`apps/scheduler`) | none of their own | reclaim stale, orphaned and deleted files; re-enqueue verification | everything above |
| Leader lease (`libs/infra/redis/redis-leader-lease.ts`) | a Redis key with a TTL, a flag per replica | tick (renew or acquire), stop | other replicas, connection loss |
| Outbox (`libs/infra/messaging`) | `outbox_events` rows | publish in the caller's transaction, claim, dispatch, mark, park | listeners, other relays, the lease |
| E-mail (`libs/modules/users`, `apps/worker`) and dead letters | jobs, sent-markers, DLQ | enqueue, send, dead-letter, reconcile | outbox redelivery, crashes |
| WebSocket (`apps/api/src/websocket`) | a sorted set of connection leases per IP in Redis; per replica its sockets, a revalidation round and a limiter | handshake, disconnect, round with jitter, renew, release, shutdown | other replicas through the set, session revocation |
| Local storage (`libs/infra/storage/local-storage.adapter.ts`) | an object file and a metadata file per key, temporary files | presigned upload, head, finalize, download, delete, expire | clients, confirms, sweeps |
| Organizations (`libs/modules/organizations`), authorization (`libs/infra/authorization`, `libs/infra/auth`), API keys | custom roles, memberships (written by Better Auth), keys, personal organizations | create, update and delete roles, issue keys, resolve permissions, sign in | each other through permissions read earlier |
| Sessions, users, terms, flags, notifications, audit, purges, rate limits | rows or counters | single statements | not modelled, see the end |

Components interact in three ways: by calls inside one request (guards,
interceptors, handlers), by rows and keys that several processes change with
compare-and-sets, and by messages (outbox rows, BullMQ jobs, queue events). None
of them takes a lock across an `await`; what keeps them correct is the condition
in each statement. That is what the models are about.

Hard behaviours, component by component (the list with source lines is
`hazards` in `PROJECT.json`):

* **Idempotency**: a 504 overtakes the handler, or the acquire; a late
  completion meets a retry; a lost reply makes a request meet its own lock.
* **Uploads**: a file crosses three stores (row, object, job) with no
  transaction around them; every step may fail after it took effect; three
  sweeps delete what they believe abandoned.
* **Lease**: ticks overlap, answers arrive late, the connection breaks, a
  stopping replica has commands under way.
* **E-mail**: SMTP, the marker and the job are three systems; a stalled worker and its
  successor run at once; failed events get lost.
* **Outbox**: claim, publish and mark are three steps in two stores; two relays
  overlap; listeners outlive a failed publish.
* **WebSocket**: several replicas count one client; a socket's lease is taken, renewed
  and released by steps that overlap; a round of checks starts late, is skipped or
  waits for slots.
* **Local storage**: no file-system call covers both files of an object; a failed
  `finalize` must put back what it took while clients stage again.
* **Organizations**: permissions come from two reads, before the write they allow; a
  role is deleted after its holders were counted; two sign-ins create one organization.

## Modules

| Module | Models | Composition |
|---|---|---|
| `Idempotency` | the record of one key and all requests that carry it | the timeout interceptor is part of the module: its timer, the handler and the reply race |
| `StoredFiles` | confirm, multipart, worker, three sweeps, soft delete on rows, objects and jobs | four process kinds composed over shared rows; implements `UploadPromise` |
| `UploadPromise` | what users are promised of their uploads: requests published together, nothing served unchecked, nothing that changes or comes back | abstract specification |
| `LeaderLease` | the lease key and its replicas, commands and answers in flight | parameter `Patient` selects the Redis client |
| `OutboxRelay` | rows, relays, listeners, leadership, back-off | implements `EventDelivery` |
| `EventDelivery` | what the outbox promises: at-least-once delivery, or giving up once the attempts are spent | abstract specification |
| `EmailDelivery` | the welcome-e-mail job, its workers, the sent-marker, dead letters | starts where `EventDelivery` ends: an event may be offered to it any number of times |
| `WsConnections` | the connection leases of one IP, its sockets on several replicas, their revalidation rounds | replicas composed over the sorted set in Redis |
| `LocalStorage` | the two files of every key on a local disk, and everybody who touches them | implements `FinalizedCopy` |
| `FinalizedCopy` | what `StoragePort.finalize` promises, the copy `StoredFiles` relies on | abstract specification |
| `Organizations` | custom roles, the policy and guard, API keys, personal organizations | requests, sign-ins and Better Auth composed over shared rows |
| `MC…` | constants for TLC | |
| `…_proofs` | theorems | extends the component's module and TLAPS |

### Idempotency

`rec` is the Redis entry (`PendingRecord`/`CompletedRecord`, with its TTL); the
owner token of a pending record is the request itself. `src[r]` is where the
request's source observable is and `reply[r]` what the client was answered:
the code lets these two run apart once the timeout replied. `ctx[r]` is
`req.idempotency`, `left[r]` the running timer, `value[r]` what the source
emitted, `committed[r]` whether the handler's mutation is durable. The Redis
commands are atomic (SET NX, two Lua scripts), every `await` is a step
boundary. `Respond` covers the whole `onSend` hook including its error path.
`guard` and `replayOf` are history variables: how long the store still owes
a request the protection of its key, and whose response a replay carried.

### StoredFiles and UploadPromise

`row[f]` is the database row, with a version `ver` that stands for `updatedAt`;
`obj[f]` the object under the final key, whose content also stands for its ETag;
`staged` the object under the presigned key; `job[f]` the BullMQ job. The
processes' program counters (`api`, `bt`, `wk`, `sw`) have one value per awaited
call. A call that fails goes where the handler's `catch` goes and spends one of
`MaxFaults`; the copy may also fail after it took effect. What is "stale" for a
sweep is a row that no live creator is working on (`InFlight`), which is what
the grace periods are configured for. A CAS is the operator `Matches`.

Contents: `clean`, `infected` (only the scanner sees it), `forged` (wrong magic
bytes), `banned` (size or MIME type), `huge` (too large to scan).

The refinement `Promise` maps a row to what its user sees (`UserStatus`): absent while the
request has yet to create it, then its status, and gone once it is deleted, softly or not.
`Shown` is what is served: the content of the object together with the scan outcome in
the row, while the row is READY. `UploadPromise` has neither objects nor jobs nor sweeps,
so each of their steps must be one of its steps or invisible. Its `Publish` and
`Submit` take all files of a request at once, and none of its steps changes what is
served.

### LeaderLease

`owner`/`ttl` are the Redis key, `leader[r]` is `isLeader()`, `pending[r]` the
commands of the replica's one connection in order, each with its answer once
Redis executed it. `Timer` starts a tick whether or not the last one ended.
`Cut` loses the answers under way and ioredis sends the commands again;
`Fails` is the catch of `runTick`, which an impatient client
(`maxRetriesPerRequest: 1`) reaches and a patient one (`null`) never does.

### OutboxRelay and EventDelivery

`row[e]` has `done` (`processedAt`), `attempts`, `wait` (`nextAttemptAt` as a
countdown) and whether it is committed (`in`). `at[r][e]` is what relay `r` is
doing with the row; `waiting[r][e]` the listeners it still awaits, `stray` the
listener calls that go on after another listener rejected. `Claim` is the one
UPDATE statement, preceded by the row locks (`FOR UPDATE SKIP LOCKED`), so two
relays' claims interleave. `overran` is a history variable: events whose
back-off elapsed while a relay still had them.

The refinement `Promise` maps a row to its fate: absent, pending, delivered, or
given up once its attempts equal `OUTBOX_MAX_ATTEMPTS`.

### EmailDelivery

`job[e]` is what BullMQ knows of the job (its id is derived from the event, so a second
`add` is void while the job exists); `run[w]` is what a worker slot executes. The two
are separate because a slot that lost the job's lock carries on: its verdict is ignored
(`job[e].owner = w` in `Completed` and `Failed`) while its e-mail is not. `marker` is the
`email:sent:` key, `failures` the queue events the router has yet to see. `Routed` is
`routeFailedJobToDlq`, shared by the router and the reconciliation as in the code.
`mishaps[e]` is a history variable: crashes, lost locks, lost SMTP replies and lost markers
of the event, everything that may cost a second e-mail.

### WsConnections

`phase[s]` is where socket `s` is: `counted` and `over` are the middleware between
the acquire script and what follows it. `lease[s]` is how long its entry in the
sorted set still counts; `held` are the sockets with a `connectionLease`, the only ones
that renew and release. `round[s]` follows `revalidateConnectedSockets`: jitter, the
queue of `BoundedConcurrencyLimiter`, the check, settled; `Settled` is its
`allSettled`. `timer[n]` is the interval timer, which skips while a round is in
flight. `Calls` is a Redis command that works or fails before or after it ran; the code
then fails open or falls back to the TTL. `left` are clients that closed during the
handshake. Time passes only when no call is under way (`Quiet`): a call settles within a
unit. `excused` is a history variable: sockets with a failed call, or whose lease was
left behind.

### LocalStorage and FinalizedCopy

`obj[k]` and `meta[k]` are the two files of a key, `claim[f]` the temporary file that
finalize `f` renamed the staged object to. Every stat, read, rename and unlink is a
step; the steps of `up`, `fin`, `rd`, `rm` and `ex` are named for the next call. A
content stands for its SHA-256, which is the ETag. `Restore` is the undo of a failed
finalize (`link` fails where a newer upload arrived); `Dies` is a crash, after which
only the hourly expiry clears up. `last` is a history variable: the bytes that were
accepted last and that nothing has taken away yet.

The refinement `Port` maps a final key to what readers find there, its object as long as
its metadata exists: it appears at once, whole and
with the ETag asked for, and an answer tells whether it is there. This is the copy that
`StoredFiles` takes for granted.

### Organizations

A request's `stage` is its next SQL statement. `scope` and `guard` are the guards in
front of a handler, `find`, `policy`, `write`, `count` and `remove` the statements of
the handlers; the two stages `guardRoles` and `policyRoles` are the second read of
`PostgresPbacAdapter`, of the custom roles of a role list read before (`seen`). `count`
and `remove` are the one DELETE of `deleteUnlessHeld`: under READ COMMITTED its
subquery sees the snapshot taken at its start, while assignments go on. `SetMember` and
`Dissolve` are Better Auth. `hadRoles` and `hadGrants` are history variables: what the
actor's role list and the roles' definitions have been since the handler started.
A sign-in's transaction
(`createIfAbsent`) is atomic in its writes and excluded by the advisory lock on its user.

## Runs

| Run | Question | Result |
|---|---|---|
| `idempotency` | do claims of a key ever overlap, does a stored response ever change? | no |
| `idempotency_empty_replay` | was every replayed mutation executed? | **no**: see Findings |
| `stored_files` | is only checked content served, is a multipart request all-or-nothing, is every object accounted for, do statuses only advance? | yes, except the object of a copy whose reply was lost |
| `upload_verification` | does all this amount to what users are promised, does a READY file stay, does every file settle? | yes |
| `leader_lease` | when can two replicas lead, is stop() final, does somebody lead, does a cut-off leader step down? | only after an expired lease; yes; yes; yes |
| `leader_lease_patient` | the same for the scheduler's client | **a cut-off leader stays leader** |
| `outbox_relay` | is processed the same as handled, are attempts a budget, does a good event get through, is the promise kept? | yes |
| `email_delivery` | when is an e-mail lost or duplicated, does every job end somewhere? | never lost by a completed job; duplicated only by a mishap; yes, unless stalls kill it |
| `stalled_dead_letter` | is every failed job dead-lettered? | **not one that stalled too often** |
| `ws_connections` | does the cap hold over all replicas, do live sockets keep their lease, how long does a revoked session keep a socket, does the limiter ever idle while sockets wait? | yes; yes, with a TTL of more than three intervals; three intervals; no |
| `local_storage` | does a download send what its headers say, is an upload ever lost, does the driver do what the port promises? | yes; only by the deletion or expiry of its key or by a fault; yes |
| `organizations` | does anybody grant what they never held, may a user get two personal organizations? | no; no |

Bounds and why they are enough:

* `idempotency`: three requests, so that a late completion of one can meet a
  lock of the second and a retry by the third; two payloads; timeout 2, lock 3
  (the closest the validation admits), record 2. Requests are symmetric and only
  safety is checked.
* `stored_files`: two confirms (one creates, one recovers or collides) or, from another
  initial state, a batch of two parts (all-or-nothing needs two); one worker, cleanup and
  purge sweep, contents `clean`, `infected` and `banned`; `upload_verification`: one
  confirm, two worker slots (the stalled and the second execution), all sweeps, contents
  `huge` and `forged`, which the other run leaves out. The refinement is checked there,
  with one file; that the files of a batch appear together is `BatchIsAllOrNothing` in
  the first run, and the proof of `KeepsThePromise` covers confirms and batches of any
  number. One fault each: every hazard
  listed is a single failure at the wrong moment. Symmetry (confirms) only where no
  liveness is checked.
* `leader_lease`: two replicas, TTL 2, two commands in flight (overlap), two cuts.
* `outbox_relay`: two relays, two listeners, two events of one aggregate, batch of 2,
  concurrency 1, two attempts, back-off 1 then 2 (so that it doubles and is capped),
  one fault.
* `email_delivery`: one event (jobs of different events share nothing), two slots (the
  stalled and the second execution), three attempts as configured, one stall as BullMQ
  defaults to, three deliveries and three faults: enough for a duplicate, a reaped and
  re-created job, and a death by stalls.
* `ws_connections`: three sockets under a limit of two (one more than fits), two of them
  on one of two replicas (rounds need company, and the cap a second replica), one slot in
  the limiter (so that somebody waits), one session, interval 1 and a TTL of 4 (the
  least that is more than three intervals), one fault.
* `local_storage`: three uploads and two confirmations of one staging key, so that a
  failed confirmation meets a newer upload and a second confirmation; two contents (the
  one asked for and another), one fault.
* `organizations`: two members, one custom role that members hold and requests define
  (the second read is of that role), two requests out of ten operations, or two sign-ins
  of one user; four changes by Better Auth: enough to demote and restore the
  actor around each of two reads.

Deadlock checking is off where the system may really stop: all requests
answered, all files settled, all replicas stopped or down, all events processed, all jobs reaped,
all uploads and requests answered.

### Fairness

* `StoredFiles`: an API request, a worker and the sweeps make progress because their
  promises settle and the crons fire again; nothing forces a client to stage or
  delete anything, or a call to fail.
* `LeaderLease`: timers fire, Redis answers a live connection and time passes;
  nothing makes a broken connection come back and nobody must stop, so
  `SomeoneLeads` is conditional on a reachable running replica.
* `OutboxRelay`: the poll timer fires, promises settle, and when there is no leader
  some relay becomes one (what `SomeoneLeads` shows of the lease). Faults are bounded,
  and `GoodEventsAreProcessed` holds because they are fewer than the attempts.
* `EmailDelivery`: workers take jobs and finish them, BullMQ's timers run and the
  reconciliation's cron fires. Nothing is fair about the router (its events get lost),
  the outbox, retention or the SMTP server, which may refuse every attempt.

`WsConnections`, `LocalStorage` and `Organizations` state safety only: no fairness. That a
round of checks ends and that a check comes in time are safety properties there, because
the model's clock waits for the calls under way (`WaitersFillTheSlots`, `RevocationIsPrompt`).

All of it is weak fairness; no action needs strong fairness.

## Findings

1. **An empty response is replayed for a mutation that never ran.** The 504 may be
   sent while the idempotency key is still being acquired. When the acquire then
   succeeds, the handler is skipped (`of(undefined)`), but the late capture takes the
   placeholder for the handler's result and completes the record with it; the retry
   gets a stored success. Run `idempotency_empty_replay`.
2. **A leader without a connection does not step down.** `runTick` drops leadership
   when a Redis command errors. The scheduler's lease uses the queue client, whose
   commands wait for the connection without limit, so nothing errors, and
   `isLeader()` stays true while another replica leads. Run `leader_lease_patient`.
3. **A job that died of its stalls is not dead-lettered.** BullMQ fails a job that stalled
   more than `maxStalledCount` times while attempts are left. `routeFailedJobToDlq` takes
   it for a transient retry, the reconciliation calls the same function, and
   `removeOnFail` drops it later. Run `stalled_dead_letter`.
4. **A role may be deleted while a member holds it.** DELETE on a role "refuses with 409
   while any member still holds the role — deleting it would strip their permissions"
   (`organization-roles.controller.ts:130`). `deleteUnlessHeld` counts the holders on the
   snapshot of its statement and locks neither the members nor the role: a role given to
   a member after the snapshot and before the delete goes with that member holding it,
   and the answer is 204. The name stays in the member's role list, and a new role of
   that name grants them its permissions. `DeletionStripsNobody` states the promise and is
   **false** in the model. It has no run of its own: the behaviour is two statements and
   one assignment (`Count(q)`, `SetMember(u)`, `Remove(q)`), and TLC prints it when
   `PROPERTY DeletionStripsNobody` replaces the properties of `MCOrganizations.cfg`.

Further observations, none of which contradicts what the code says of itself:

* The lease of a socket lives for `WS_CONN_TTL_MS`, ten minutes, and up to three
  intervals pass between two renewals: a tick may be skipped and jitter comes on top.
  `RenewalsAreTimely` is the condition; the default interval of one minute meets it, but
  env validation admits five minutes (`WS_SESSION_REVALIDATE_MS`), which does not.
* A round renews a socket that closed while it waited for its turn, and a client may
  close during its handshake: either leaves a lease that counts against its IP until
  the TTL.
* Overlapping uploads to one staging key, or a finalize that removes the metadata of a
  key staged again meanwhile, leave staged bytes with the metadata of another upload or
  none. No confirmation accepts them (`FinalizesAsPromised`); the client stages again.
* The expiry may remove an upload that was staged again after the expiry listed it.
* Permissions may be gone by the time they are used: an actor demoted after the policy's
  reads still writes, and a role redefined between the two reads is combined with the
  older role list. `GrantsWereHeld` states how far that goes.

One observation is part of a property that passes: when the copy of a
confirm takes effect but its reply is lost, the row is dropped and the object stays;
no sweep looks for objects without rows (`OrphansOnlyAfterLostCopy` states that
this is the only way).

## Proofs

All proofs are checked by TLAPS from the modules alone. Assumptions: only the named
ASSUMEs on constants in the component modules, which TLC evaluates on every run. They say
what kind of value each constant is (numbers, finite sets, values that differ), that the
back-off of the outbox stays within its cap (`BackoffAssumption`, a fact about
doubling, which needs induction), and the timing that env validation imposes on `Idempotency`.

* **`Idempotency_proofs`**. Inductive invariant `IInv`: a live record is the claim
  of exactly the request named in it, for exactly the time it has left
  (`RecordIsAClaim`), and a request that is still unanswered holds a lock that outlives
  its timer plus the store command after it (`StageHolds`). The second
  conjunct needs `RequestTimeout + RedisDelay < LockTtl`, the assumption that env
  validation enforces in part (it ignores the delay). From it:
  `FinishingRequestOwnsItsLock`, `ClaimsNeverOverlap`, and `CompletedRecordIsStable`.
* **`StoredFiles_proofs`**. The properties alone are not inductive: they say nothing about
  a process that is about to write from what it read some steps ago. `IInv` adds, for each
  process, what it may still believe. `FileInv`: until its writer is over (`WriterOver`)
  a row is FINALIZING or absent, has no job, and has an object only if the writer put it there;
  a row that is or will be served has one. `ConfirmInv`, `BatchInv`, `WorkerInv`, `SweepInv`:
  whoever works on another's file started after its writer was over; whoever is about
  to publish holds an object that passed, or its compare-and-set will fail because the
  row is `Condemned`; whoever is about to wipe an object or drop a row condemned it first.
  A sweep's claim matches only the very version it scanned. The proof goes by kinds
  of steps, not by actions: each action's effect on a file is first reduced to one of a few
  moves of row, object, job and writer (`NextMoves`), and what others hold is then shown to
  survive any move (`ConfirmStable`, `WorkerStable`, ...) once, whoever makes it. From
  it the six properties, and `KeepsThePromise`: each step is a step of `UploadPromise` or
  a stutter, for any number of confirms, files in a batch, workers and faults.
* **`LeaderLease_proofs`**. `OwnershipIsAge`: while a replica owns the key, the
  time since its last grant and the key's TTL add up to a whole TTL, and a replica that
  does not own it has not been granted anything for a whole TTL. Hence two leaders
  need an expired lease. `StoppedReplicaIsQuiet` is inductive with it.
* **`OutboxRelay_proofs`**. Locks are exclusive and only on claimable rows, an
  uncommitted row is untouched, listeners awaited and listeners handled cover all
  listeners, and a visible unprocessed row in a relay's hands overran its back-off.
  From it `ProcessedMeansHandled`, `OverlapNeedsASlowBatch`, and the refinement
  `RelayDelivers`: every step of the relay is a step of `EventDelivery` or a stutter,
  for any number of relays, listeners and events. `WithinBudget` counts the
  relays that hold a row and have not published it yet: a claim adds one and is charged
  to the row, a publish moves one from this count to the tries.
* **`EmailDelivery_proofs`**. `Senders(e)` is the set of whatever may still send the
  e-mail without a mishap: slots past the marker check and, until the marker is set,
  slots that may come to it again and the queue itself. `SendersArePaid` bounds the
  e-mails sent plus the size of this set by one plus the mishaps; each step either
  shrinks the set, swaps an element, or is a mishap. The bound on duplicates alone is not
  inductive: it says nothing about who is about to send. From it `DuplicatesNeedMishaps`;
  `SentFirst` gives `CompletedMeansSent`.
* **`WsConnections_proofs`**. `RoundsKeepUp` says of every connected socket how long it
  can still wait for a check (`CanWait`): none while its turn has come, its jitter while
  that runs, and otherwise the rest of the period plus two intervals, or plus one when
  the round in flight is already `Overdue`, which it can be only while the clock stands
  still. The properties alone are not inductive: a socket one unit short of its limit
  satisfies them. `RoundsEnd` rules out a round that waits for nothing,
  `HandshakesAreFresh` gives a new socket its first bound. From these `RevocationPrompt`
  for every interval, jitter and number of sockets. The cap counts leases, not sockets:
  `Counted` stays within the limit because each of its members still has a lease when the
  script counts, hence `CapKept` and `LeasesKept` assume `RenewalsAreTimely`, a condition
  on the settings that is a hypothesis of the two theorems and not an ASSUME, since
  nothing validates it. `SlotsFilled` is a cardinality argument over the limiter's slots.
* **`LocalStorage_proofs`**. `FinalsMatch`: whatever is under a final key, or in a
  claimed file whose digest was compared, is the content that its confirmation asked
  for, and the metadata was there before the object. `ReadsMatch` carries this through
  the two reads of a download, `RemovesEnded` keeps deletions off confirmations under
  way. From it `DownloadsMatch` and the refinement `ImplementsThePort`, for any number of
  uploads, confirmations, contents and faults. `UploadKept` needs a second invariant,
  `KInv`: one confirmation of a staging key at a time (`OneAtATime`), and the bytes uploaded
  last are the only ones that the staging key, or a finalize that found it empty, may hold
  (`NewestFirst`). Without the latter a restore could put back an older object and
  count as having kept the newest.
* **`Organizations_proofs`**. The advisory lock keeps the transactions of one user apart
  (`LocksAreExclusive`) and whoever is about to create an organization has none
  (`CreatingMeansHomeless`); what the policy read is part of the history of the handler
  (`HistoryIsCurrent`, `ReadWasHeld`). From it `OnePersonal` and `GrantsHeld`. Nothing
  is proved of deletions: what the endpoint promises does not hold (finding 4).

Only model-checked: the five liveness properties (`EveryFileSettles`, `SomeoneLeads`,
`CutOffLeaderStepsDown`, `GoodEventsAreProcessed`, `EveryMailSettles`), because liveness
under fairness and ENABLED are out of the prover's reach. The refinements are safety
refinements: the abstract specifications state no fairness.

## Not modelled, and why

* Several idempotency keys (they do not interact); a request timeout of 0 (it
  disables the interceptor).
* In `StoredFiles`: an aborted PUT that lands after its cleanup; reads from a lagging
  replica; creators that outlive the grace periods (the settings are not validated
  against each other: listed as a hazard); the dispatcher's three calls are one step.
* Retention of jobs by count and the expiry of sent-markers (30 days, longer than the
  outbox redelivers); the operator's retry of dead letters.
* The retention purge of the outbox and a manual reset of parked rows.
* better-auth, BullMQ, ioredis, Postgres and the object store are external: they are
  modelled by what the code relies on.
* In `WsConnections`: how the client's address is found, user rooms and the Redis
  adapter, the limit on incoming messages (one atomic script). Several addresses do not
  share leases.
* In `LocalStorage`: signatures and expiry of URLs, size limits, `uploadStream` and the
  readers of the inspection; several staging keys do not interact. `Head` waits for
  the confirmation under way, while in the handler it precedes the insert that excludes
  a second one.
* In `Organizations`: `decideFilter` and ownership of resources (pure functions of one
  read), cancelling an invitation and revoking a key (one compare-and-set each), Better
  Auth's own endpoints for custom roles (`dynamicAccessControl`), the guard
  that verifies a key, teams (read only).
* Sessions, users, notifications, audit log, terms, feature flags, scheduled purges and
  HTTP rate limits: each write is one statement or one atomic script and no step depends
  on an earlier read, so there is no interleaving to explore. Their consumers of the outbox
  are the listeners of `OutboxRelay`; a revocation of a session is `Revoke` in
  `WsConnections`.
* Rollout bucketing, cursor pagination, error mapping and other pure functions.
* Formatting, logging, metrics, generated code (the API client alone is a sixth of the
  source), migrations, health checks, Swagger and GraphQL wiring.

## Plan

Done: the modules above, their runs, and the proofs of every safety property the
passing runs check. Next, in this order:

1. An abstract specification of `Idempotency` (each key's mutation takes effect at most
   once per claim, and its reply is what retries get) and the refinement, as for the
   other components that implement one.
2. `StoredFiles` over `FinalizedCopy` as a composition, so that the local driver's
   guarantees reach the confirms formally.
3. When `deleteUnlessHeld` locks what it counts, `DeletionStripsNobody` becomes a property
   of `organizations` and a theorem.
4. Pure algorithms (rollout bucketing, cursor pagination, batched purge, fixed-window
   limits) as operators checked against a definition.

To reproduce: `tlc -config <X>.cfg <module>` for each run of `PROJECT.json` and
`tlapm <module>_proofs.tla` for the proofs.
