# Verification of ohbs-image

TLA+ models of the parts of ohbs-image whose correctness depends on the order
in which processes, threads, cloud calls and crashes interleave; TLC
configurations that check them on small instances; and TLAPS proofs of the
properties that matter most, for every value of the constants.

1. [Inventory](#1-inventory)
2. [Plan](#2-plan)
3. [NativeBuild](#3-nativebuild)
4. [ReleaseControl](#4-releasecontrol)
5. [RebuildQueue and LeaseQueue](#5-rebuildqueue-and-leasequeue)
6. [Distribution](#6-distribution)
7. [RunLifecycle and RunHistory](#7-runlifecycle-and-runhistory)
8. [Governance](#8-governance)
9. [HardeningEngine](#9-hardeningengine)
10. [What disagrees with the documentation](#10-what-disagrees-with-the-documentation)
11. [Proofs](#11-proofs)
12. [What is not covered](#12-what-is-not-covered)

Run a check with `tlc -config X.cfg M` and a proof with `tlapm M.tla`. Source
paths below are relative to `src/ohbs_image/` unless they start with `src/`.

## 1. Inventory

ohbs-image builds CIS-hardened cloud images, keeps a registry of what it built,
publishes images through release channels, copies them to other regions and
rebuilds them when something they contain becomes vulnerable. It is a set of
command-line commands, a few long-running workers, and one HTTP service, all of
which share a directory of JSON documents (the *state directory*) and, when
`--state-db` is given, one SQLite database. There is no broker and no server
that serialises the commands: what keeps processes apart is directory locks
(`mkdir`), SQLite transactions, compare-and-swap on a generation number, and
fencing tokens.

### Components, their state and their operations

| Component | State | Operations |
|---|---|---|
| Native build engine (`native/`, `_native_reconcile.py`) | `native/journal.json`, `build-record.json`, the private key file, a recovery marker in the guest, the instance, key pair and images in the cloud | build, resume, heartbeat thread, failure path, cleanup; `native reconcile`, `native sweep` |
| Native specification and compiler | none | configuration to a list of provisioners and its digest |
| Artifact registry (`_registry.py`) | a row per artifact in `state.db` (canonical) and its JSON mirror | register a release, quarantine, revoke, verify |
| Release channels (`_channels.py`) | one document per channel: artifact, previous artifact, generation, fencing token | promote (compare-and-swap), automatic rollback, resolve |
| Fenced operations and locks (`_operations.py`, `_reports.py:109-128`) | `fence.json`, one document per operation id, lock directories | claim a token, verify it, complete, replay |
| Rebuild events (`_rebuild_events.py`) | the event's operation document, request files, artifact statuses | plan, quarantine, enqueue, complete |
| Rebuild worker (`_worker.py`) | request files, or the requests table | claim with a lease, run a handler, finish, retry, dead letter |
| State database (`_state_db.py`) | SQLite: artifacts, requests, objects | upsert, claim, finish, migrate from files, back up, restore |
| Distribution queue (`_distribution_controller.py`) | jobs table with leases | enqueue, claim under quotas, finish, reconcile-all |
| Replica distribution (`_distribution.py`) | replica map of each artifact | plan, execute (SyncImages), record, reconcile |
| Run lifecycle (`_run_events.py`, `_reports.py`, `_runs.py`, `_launch.py`) | run manifest, hash-chained event log, its lock | begin, transition, heartbeat, finish, launch, resume |
| Reconciliation (`_reconcile.py`) | none of its own | compare recorded with observed state, mark abandoned runs |
| Build command (`_commands.py`, `_builder.py`, `_packer.py`, checkpoints, resilience) | checkpoints, retry counters, circuit breaker | one build with either engine |
| Hardening engine (`roles/*/files/ohbs_engine.py`) | the guest's configuration files | audit, remediate, audit again; PAM edit with rollback |
| Approvals, ancestry, policy registry | one JSON document each, under locks | create, approve, consume; link, cascade; publish, revoke, resolve |
| State tree (`_state.py`) | the whole state directory | archive, restore, prune, migrate |
| Service (`_service.py`) | none of its own | authenticated HTTP requests to the operations above |
| Policy evaluation, SLO, capacity, rendering, catalogue, CLI | none | pure functions and formatting |

`PROJECT.json` lists all of them with their files and what is modelled.

### How they interact

- A **build** (native engine or Packer) ends in a build record and a release
  manifest; **register_release** turns the manifest into an artifact.
- **promote_channel** reads the artifact's status, then moves the channel;
  automation does it inside **fenced_operation** so that a retried or overtaken
  worker cannot undo a later one.
- **change_artifact_status** (quarantine, revoke) updates the row and the mirror
  and, if asked, calls back into the channels to roll back to the predecessor.
- A **rebuild event** quarantines artifacts through the registry and writes
  requests that the **rebuild worker** claims; its handler builds, evaluates
  policy, distributes and promotes.
- **Distribution** copies an artifact's image to other regions, asynchronously:
  a copy is recorded as pending and found ready or failed by reconciliation.
- **Reconcile, sweep and prune** are janitors: they read what the others
  recorded and delete what looks abandoned, beside whatever is running.

### What is hard

| Behaviour | Where it bites |
|---|---|
| A kill between any two durable effects, then an explicit resume | the engine's journal, marker, record, key and instance; the fence and the channel; the quarantine and its request |
| Two processes on the same document | channels, registry rows, request files, replica maps |
| A lock that is taken from a stalled but living owner (300 s) | `_state_lock`, and so every document it guards |
| A lost answer, a call that takes effect and then fails | RunInstances, CreateImage, ImportKeyPair, TerminateInstances |
| A lease nobody renews | requests, distribution jobs, the lease tag of a resumed instance |
| Two copies of one fact | row and mirror; journal and marker; manifest and event log; request row and request file |
| A janitor beside a live process | sweep, reconcile, prune |
| Something that has to happen in the end | orphaned instances, requests of lost workers, pending replicas |

### What makes each component correct

- *Build engine*: an image is only ever cut from a guest on which every
  provisioner ran; a resume neither skips nor repeats one; success means that
  nothing billable is left; whatever is left after a failure is on record and
  collected in the end.
- *Registry*: a withdrawal sticks. *Channels*: the history is a chain, no update
  is lost, a withdrawn artifact is not published, an overtaken worker writes
  nothing, a retried operation is applied once.
- *Rebuild queue*: what is quarantined is queued; what is queued is settled; a
  request is given up only after its attempts; a superseded result is refused.
- *Distribution*: quotas hold, a replica that is called ready is a usable image,
  a pending replica is decided in the end, no copy is orphaned.
- *Run lifecycle*: the chain verifies, and manifest and log agree on the end of
  a run. *Hardening engine*: a rule that is reported compliant is compliant, and
  a failed edit leaves the files as they were. *Approvals*: consumed once, by
  the promotion it was given for. *Ancestry*: no cycles, and a revocation
  reaches every descendant.

## 2. Plan

In order of how much depends on the component:

| | Modules | Abstract specification | Status |
|---|---|---|---|
| 1 | NativeBuild, MCNativeBuild, NativeBuildProofs, NativeRecoveryProofs | | done |
| 2 | ReleaseControl (registry, channel, fence, locks, composed), MCReleaseControl, ReleaseControlProofs | compare-and-swap cell, as an action property | done |
| 3 | LeaseQueue, RebuildQueue (events, queue, workers, composed), MCRebuildQueue, RebuildQueueProofs | LeaseQueue | done |
| 4 | Distribution (queue, workers, replicas, reconcilers, composed), MCDistribution, DistributionProofs | LeaseQueue for the jobs | done |
| 5 | RunStates, RunHistory, RunLifecycle (manifest and hash-chained log, launch, resume, build, heartbeat, reconcile, prune, composed), MCRunLifecycle, RunLifecycleProofs | RunHistory | done |
| 6 | Governance (approvals with the promotion of the service, ancestry, cascading revocation, composed), MCGovernance, GovernanceProofs | | done, but for the policy registry |
| 7 | HardeningEngine (thread pool, shared sshd and PAM files, budget, restart, second check), MCHardeningEngine, HardeningEngineProofs | | done |
| 8 | BuildPipeline: checkpoints, circuit breaker, retries by failure category; StateStore: restore and migrate beside a build; PolicyRegistry | reference definition of the failure classification | open |

Composition: ReleaseControl and RebuildQueue each hold the components that
share state with each other. Distribution takes from ReleaseControl only that an
artifact may be withdrawn at any step, and shares LeaseQueue with RebuildQueue.
Governance takes the fenced promotion of ReleaseControl as the steps claim,
check and write, and RunLifecycle and RunHistory share RunStates.

Every safety property of a passing run is now a theorem (section 11). What is
left to prove is about stronger statements: row 8 has none yet.

How the runs are chosen: a property is checked on a small instance by TLC unless
it is type correctness, or an invariant that others of its run depend on, and
proved for every value of the constants. `TypeOK` is a theorem of every module. KeyJournaledBeforeLaunch of NativeBuild, and ReadyIsNormal and
SucceededIsRecorded of Distribution, are theorems only.

## 3. NativeBuild

One workdir, the cloud it builds in, one executor process at a time, its
heartbeat thread, and a janitor (`native reconcile`, `native sweep`) at any
moment.

| Variable | Code |
|---|---|
| `ex` | the locals of `execute_build` (native/executor.py:139-594); `pc` is the phase |
| `hb` | the document the heartbeat thread has read and not yet written, under `_JOURNAL_LOCK` (native/journal.py) |
| `journal`, `record`, `keyfile` | `native/journal.json`, `native/build-record.json`, the private key: what survives a kill |
| `inst`, `lease`, `key`, `images` | instance, expired lease tag, key pair and images in the cloud |
| `guest`, `marker` | which provisioner's effect is on the disk, and what the marker in the guest says |
| `jan` | a running reconcile or sweep with its snapshot of what to delete |
| `started`, `attempts` | counters that bound and name the executors |

Each action is one durable effect followed by the local step after it: import
the key pair, journal it, launch, journal the launch, connect, read the marker,
run a provisioner, journal it, write the marker, stop, create the image,
copy, and then the `finally` block (journal, terminate, delete the key pair,
record). A call may take effect and still raise, which is an outcome of the
same action (`Raised`); `RaiseError` is a call that raises before its effect;
`Crash` is a kill between any two steps. What is abstracted: provisioners are
numbers, a plan is its digest, images carry the set of provisioner effects they
were cut from.

| Run | Instance | Shows |
|---|---|---|
| `native_resume` | one run, two plans, two provisioners, three attempts, reclaim, restart, reinstall | ImagesHardened, NoReplay, JournalNeverForgets, CleanExit, LeftoversListed, ReportsOwnImage |
| `native_live` | one provisioner, two attempts, signals, lease expiry, reclaim | ExecutorEnds, OrphansCollected |
| NativeSignal.cfg, NativeRetained.cfg (kept outside the table of runs) | one attempt | two disagreements, section 10 |

*Bounds.* Two provisioners are the fewest for which "some completed" differs
from "all completed"; three attempts allow a failure, a resume under the wrong
plan, and a second resume; two plans are needed for a marker of the other plan.
A second run adds only interference through the workdir's journal, which the
theorems of section 11 cover for any number of runs.

*Fairness* (`native_live` only). Every phase of an executor runs under a
deadline (native/executor.py:177-188) and so goes on or raises: SF on its steps, because it competes
for the journal lock with a thread that takes it once in 15 s; WF on the
heartbeat's write. The operator is assumed to run the sweep again and again,
and the cloud not to refuse every
termination for ever: WF on the sweep and its steps and on the end of the
lease, SF on a termination that works. Nothing is assumed of starting,
resuming, reconciling, signals or kills. `Crash` has no fairness either:
ExecutorEnds holds without it.

*Assumptions.* One executor at a time on a workdir (a fresh build has its own
directory). A lease outlasts the attempt that launched the instance, not a
resume of it. One key pair per run: the duplicate that a retried ImportKeyPair
may leave in the account is not modelled. The listing of images by name is complete;
the code reads one page of it (tencentcloud.py:301-309). Deadlock is not checked in this
module: attempts are bounded and every resource may be gone.

## 4. ReleaseControl

The registry, one channel, its fence and the locks, with any number of
processes that promote (fenced or not), withdraw (with or without automatic
rollback) and register.

| Variable | Code |
|---|---|
| `db`, `mirror` | status in the row of `state.db` and in the JSON mirror; `put_artifact` writes them in this order (_registry.py:93-112) |
| `chan` | the channel document (_channels.py:51-111) |
| `fence`, `opdoc` | `fence.json` and the operation documents (_operations.py:59-100) |
| `lock` | the owner of each lock directory; `Dead` when it was killed |
| `job` | the locals of the command each process runs |
| `applied`, `lost`, `taken`, `raced` | history: channel writes per operation, artifacts whose row was written without its mirror, a lock taken from a live owner, two workers in a fenced window at once |

A promotion takes the steps of the code one by one. A fenced one first claims
(_operations.py:69-91): `LockFence`, `ReadOperation` (or `Replay` of a completed
operation), `ReadFence`, `WriteFence`, `WriteOperation`. Then come
`CheckArtifact`, `LockChannel`, `VerifyToken`, `WriteChannel`, `VerifyToken`
again and `CompleteOp`: the status is read *before* the channel is locked, the
channel is written *before* the operation is completed, and each token is
verified in a step *before* the write it guards. `ChangeStatus`, `LockArtifact`, `PutRow`, `PutMirror`, `Rollback`
are a withdrawal; `Register`, `ReadMirror` a registration, which takes the
status from the mirror. `Raise` ends a command at any step through its
`finally` clauses; `Crash` leaves its locks behind. Any lock may be taken over
once it is 300 s old (_reports.py:119), also from an owner that is only slow, and
that owner's `finally` then removes its successor's directory: `Released` frees
the lock whoever holds it. The same action stands for two waiters that both find
one old directory stale: the second removes what the first has just made, and
both go on as its owners, without anyone having stalled.

| Run | Instance | Shows |
|---|---|---|
| `release` | two processes, two artifacts, one operation id, four commands, kills and takeovers (715,682 states) | RacesNeedTakeover, ChannelIsCAS, FencedInOrder, CompletedIsFinal, WithdrawalSticks, WithdrawnNotPublished |
| `release_revoked`, `release_retry` | the same, without takeovers | two findings, section 10 |
| ReleaseOverlap.cfg (kept outside the table of runs) | the same, with takeovers and without kills | a disagreement, section 10 |

*Bounds.* Two processes make every race of two commands; four commands allow
a promotion, a second one that makes a predecessor, a withdrawal and a retry of
the first operation. Processes and artifacts are symmetric. *Fairness*: none,
no liveness is claimed; a command may stop anywhere.

*Exceptions in the properties are the code's own limits.* ChannelIsCAS,
WithdrawalSticks and WithdrawnNotPublished exclude a takeover from a live owner
(`taken`): the lock then protects nothing. WithdrawalSticks excludes artifacts
in `lost`, which is finding `release_revoked`.

*What the fence is worth when locks are taken over.* The fence is a document
that is read and written under a lock, and the store does not check the token.
So two owners of the fence's lock can read one token and both claim the next
one, and both can verify before either writes. The model calls that being in a
fenced window together (`Overlap`): both between the read of the operation and
the last write of the claim, or one of them there while the other completes, or
both between verification and channel write. `raced` remembers that it happened.
RacesNeedTakeover says that it takes a lock taken from a live owner.
FencedInOrder and CompletedIsFinal say how far the fence then reaches: takeovers
and stalls at any other place, however long, neither let an overtaken worker
overwrite its successor nor execute a completed operation again. Inside a window
they do: ReleaseOverlap.cfg shows a completed operation applied again.

*Granularity.* The channel document is read in the step that locks it, and a
lock is released in the step of the last write under it; a registration reads
the mirror in the step that locks the artifact. Everything else the code reads
or writes is a step of its own.

## 5. RebuildQueue and LeaseQueue

An event, delivered more than once, quarantines artifacts and queues requests;
workers claim them under a lease, run a handler, and settle, retry or give up.
The queue is a directory of files or, with `--state-db`, a table filled by
`state-db migrate`; `backend` is chosen initially, so both are checked.

| Variable | Code |
|---|---|
| `req` | request documents or rows: status, attempt, owner, and whether its time has come (`due`) |
| `filed` | request files that wait for a migration |
| `worker` | `process_one` (_worker.py:148-196): claim, run, finish, write |
| `emitter`, `quarantined`, `done` | `process_rebuild_event` (_rebuild_events.py:59-93), its artifacts, its operation document |
| `lock` | the lock directories of the event, the queue and each request |
| `claims`, `skipped` | history: claims per request, artifacts whose process died before the request was written |

The file queue claims under one lock and finishes under another, so a read and
the write that follows it are separate actions (`ReadClaim`/`WriteClaim`,
`ReadFinish`/`WriteFinish`); the table does each in one transaction
(`ClaimRow`, `FinishRow`). `FinishError` is the boundary of `process_one` that
turns a failed write of a success into a failure. `Expire`, `Overrun` and
`RetryDue` are the clock: a lease may end because its worker is gone, or
(`Overrun`) under a worker that is still busy.

**LeaseQueue** is what a queue of leased work promises: one claim at a time, a
result only from the latest claim, settled is final until queued again, a dead
letter only on the last attempt. `ImplementsLeaseQueue` says that the table
implements it; the file queue does not, and promises less.

| Run | Instance | Shows |
|---|---|---|
| `rebuild` | one request, two workers, two deliveries, both backends, two attempts, two faults, one overrun | DeadLetterIsEarned, QuarantinedIsQueued, ImplementsLeaseQueue, Settles |
| `rebuild_overrun` | unbounded overruns, no other fault | a finding, section 10 |

*Bounds.* Requests interact only through the claim lock, which two workers on
one request already contend for; two faults and one overrun allow a kill at
each of two places with a lost lease between them. The safety theorems hold for
any number of everything. *Fairness*: WF on each worker (it polls, its handler
has a `--timeout`, it is restarted when it exits with code 2) and on the
clock. Nothing is assumed of the event's processes: a request that never
reaches the queue is not claimed to be settled.

*Abstractions.* Which eligible request a worker gets first is left open (path
order, or least recently updated). Back-off times are abstracted to "due": the
table counts them from the claim (_worker.py:172), so a retry may be due at
once, which the model allows. Kills and lost writes are bounded by `MaxFaults`:
a worker that is killed in every handler never reaches a dead letter in the code either.

## 6. Distribution

Jobs (copy an image to a region, share it with an account) wait in a SQLite
table; workers claim them under quotas and leases; `distribution execute` does
the same work without a job. SyncImages answers before the copy exists, so a
replica is recorded as pending and reconciliation finds out later.

| Variable | Code |
|---|---|
| `job` | a row of `distribution_jobs` (_distribution_controller.py:29-43): its columns, and the status, attempt and worker of the document inside it, which a sweep of expired leases does not touch |
| `session` | the worker's loop (187-216) around `execute_distribution` and `share_artifact` (_distribution.py) |
| `replica`, `shares`, `active` | what the artifact's document says |
| `dropped` | history: shares that a registration has taken out of the document |
| `copies`, `granted` | what exists in the cloud: each copy is copying, normal or gone |
| `rec` | a cycle of `reconcile-all`, or one `distribution reconcile`, with the snapshot it read |
| `events` | counts what happens beside the queue: kills, failed calls, lost answers, lost copies, overrun leases, withdrawals, direct commands |
| `overrun`, `raced`, `forgotten` | history: a lease expired under a live worker, replicas that two processes worked on at once, copies whose id nobody kept |

The job is claimed in one transaction (`Claim`: sweep, quotas, oldest queued
first) and settled in another (`Finish`, `Refused`). In between, `Plan` decides from the
document which regions need a copy, `Sync` calls the cloud (it may be refused,
or take effect and be repeated because its answer was lost, `SyncLost`), and `Record`
writes one region after the other. A cycle loads an artifact, then inspects and writes its
pending replicas one by one, each from the snapshot. `Register` is `registry
rebuild` or another registration of the release: it writes the document again
and keeps its status and replicas, but not its shares (_registry.py:126-127).

| Run | Instance | Shows |
|---|---|---|
| `distribution` | two workers, a copy and a share of one image, a regional quota of one, a direct command, two events (137,232 states) | InFlightWithinQuota, ImplementsLeaseQueue, JobsSettle |
| `replicas` | one worker, copies of two images, a direct command, a reconciler, one event | CopiesTracked, ReadyStays, PendingDecided |

*Bounds.* Two workers contend for every job and for the quota; two events
allow a lease to be lost and its next holder to be killed. In `replicas` one
event is enough for a race (the direct command), a lost answer, a
withdrawal or an image that disappears; two images are needed for the
order in which a cycle visits them, and two copies of each for a
replica that is copied again after it failed. `distribution` has no reconciler
and `replicas` one worker, because the two sides meet only in the replica.
A failed replica is the only one that is copied twice without a race.

*Fairness.* WF on each worker (it polls, and the service restarts it,
deploy/ohbs-image-distribution.service), on each reconciler (`reconcile-all`
repeats; no unit in deploy/ runs it, and the operator is assumed to start it
again when an error has ended it) and on the clock: leases end, and a pending replica becomes late.
The cloud may leave a copy unfinished for ever; a replica is then failed by its
timeout.

*Exceptions in the properties are the code's own limits.* Quotas count running
rows, so a lost lease lets another job start beside the worker that still works
(`overrun`). A plan and a reconciliation act on what they read earlier, so a
second process on the same replica may start a second copy or overwrite a ready
replica with a pending one (`raced`). A command that fails between SyncImages
and its record, or an answer without an id, loses the copy (`forgotten`). A
cycle of `reconcile-all` ends at the first pending artifact that is withdrawn or
whose image the cloud rejects, and so does every later cycle: the replicas
listed after it stay pending (`Blocks`). A registration drops the shares from
the document, although the images stay shared in the cloud; SucceededIsRecorded
therefore says of a finished share that it is granted, and in the document or in
`dropped`. Each is a hazard in `PROJECT.json`.

*Abstractions.* Which queued job is claimed first is left open: creation times
have a resolution of a second. A record, and the check that the artifact is
active just before it, are one step: a withdrawal between the two leaves the
same documents as one just after. The quotas are the same for all workers;
a job swept by a claim is then always within them. The registry lists at most
1000 artifacts (_registry.py:153), so K stands for at most that many. The fence
of `distribution record` is the one modelled in ReleaseControl. POST /artifacts,
which replaces a document as it is sent (_service.py:302), is left out here: it
takes away whatever the document had. Its effect on the ancestry is in
Governance.

## 7. RunLifecycle and RunHistory

One run: its manifest, its event log, and everything that writes them. `launch`,
`build` or `verify-image` begins it, `run resume` takes it up again, a build has
a heartbeat thread, `state reconcile --apply` fails it when its lease has
expired, and `state prune` deletes its evidence.

| Variable | Code |
|---|---|
| `manifest` | status, phase, lease, checkpoint and the stamp (sequence and hash of an event) of the run's manifest (`_write_run_manifest`, _reports.py:311) |
| `log`, `torn`, `nextId` | `events.jsonl` (_run_events.py): the lines that parse, whether it ends in a line without its end, and event ids |
| `manifestLock`, `logLock` | the lock file of the manifest, taken over from a dead owner only, and the lock directory of the log, which is never taken over |
| `writing`, `seen` | where each writer is in `_write_run_manifest`, and the events it has read |
| `at`, `done`, `beats` | each command: launch and resume (_launch.py), the build and its gates (_commands.py), its stages and heartbeats |
| `plan` | `plan_reconciliation` and `apply_reconciliation` (_reconcile.py) |
| `recorded`, `pruner` | the run's record in the lineage, and the three steps of `state prune` (_state.py:438-526) |
| `faults` | counts kills, full disks, builds that outsleep their lease, prunes |
| `headLost`, `refused`, `disturbed` | history: the log has lost its beginning; transitions that the log refused; two writers of the run have overlapped or a write of it was lost |

`_write_run_manifest` is five steps of one writer: the manifest (`WriteManifest`),
the lock of the log (`LockLog`), its lines (`AppendEvent`, `RefuseEvent`, or
`TearEvent` when the disk is full), that lock's release (`UnlockLog`), and the
stamp that ties the manifest to the event (`Stamp`). **RunStates** has the
transition table (_run_events.py:25-43) and the state that a status and a phase
stand for; `StateOf` is the chain of tests of `state_for_manifest` in its order, with
disjoint cases. **RunHistory** is what the log promises: a history that starts at
CREATED and grows along the transitions only.

| Run | Instance | Shows |
|---|---|---|
| `lifecycle` | a starter, one resume, one reconciler, one heartbeat per build, one fault | ChainVerifies, ManifestMatchesLog, RefusesOnlyReady, LiveRunIsActive, ImplementsRunHistory, ReconcileSparesApproved, AbandonedIsEnded |

*Bounds.* A resume is the second writer that races with a reconciler; the
heartbeat is the second thread of a build. One fault reaches every failure that
a single kill, full disk, sleep or prune causes. The safety properties were also
checked with `MaxFaults = 2` (12.4 million states), which is too long for the
table of runs and found what ReconcileSparesApproved now excludes.

*Fairness.* WF on each writer and each working command (every stage and probe
has a deadline), on the end of the lease, and on the reconciler, which the
operator is assumed to run again and again. Nothing is assumed of starting,
resuming, heartbeats, kills or prunes.

*Exceptions in the properties are the code's own limits.*

- A torn first line, or a prune in the middle of a write, loses the beginning of
  the log (`headLost`): the chain then never verifies again and the run cannot
  be resumed.
- An event that is refused is only a warning to the writer of the manifest
  (`refused`). The one transition that a single invocation asks for in vain is
  RETRYING to READY: `run resume` without `--build` of a run whose stages had
  passed and whose build had failed.
- Two writers of one run (`disturbed`): a reconciler that has decided and is
  suspended may stamp FAILED over a run that was resumed and approved meanwhile;
  and over one that was approved without a resume when its own event was
  swallowed by a torn line.
- The log's lock directory has no lease. Left behind by a kill it blocks every
  later event of the run (`LogStuck`), and the run stays active.
- A build that returns early (capacity, a dry run, unchanged inputs) leaves the
  run active until the reconciler fails it; `state prune` does not look at
  the lease.

*Abstractions.* The three probe phases before its verdict are one, and the gates
for evidence, attestation, delivery report, result and release manifest are one
(`build-gate`): each is a write of the same kind at the same place. Lock
time-outs happen only behind a holder that does not move. Machines sleep only
while packer runs. Other runs are reduced to whether this one is in the lineage;
a manifest's list of resources is left out. Reconcilers are not killed.

## 8. Governance

Who may move a protected channel, and what a revocation reaches.

| Variable | Code |
|---|---|
| `approval` | the documents of `_approvals.py`: requester, payload, approvers, status, whether it has not expired |
| `chan`, `fence` | the protected channel and the lock of its fence (_channels.py, _operations.py) |
| `links` | the parents in each child's ancestry document (_ancestry.py) |
| `revoked` | artifact statuses |
| `job` | what each request or command is doing: a promotion (_service.py:575-610), a link (_ancestry.py:93-131), a cascade (_ancestry.py:155-175) |
| `started`, `faults` | bounds |
| `spent`, `reported`, `borrowed` | history: promotions let through by an approval, links reported as there, those of them that another command has still to verify |
| `unverified`, `overwritten`, `late` | history: links whose writer died before it verified them or verifies nothing, artifacts whose document a POST replaced, artifacts written while a cascade was running |

The approval is consumed (`Request`) before the artifact is promoted (`Claim`,
`Check`, `Write`), each under a lock of its own. A link is written (`Link`), the
whole graph is verified afterwards (`Verify`), and the link taken out again when
that fails (`Unlink`). To link what is linked already is reported as a success
at once (`LinkAgain`, _ancestry.py:108-109), also while the command that added it
has still to verify it. Two others write parents and verify nothing: a
registration adds the source of its release (`Register`, _registry.py:85-87,
132-143), and POST /artifacts replaces the document with its parents and its
status (`Post`, _service.py:302). A cascade takes a plan (`StartCascade`), revokes the
deepest first, and after each revocation rolls the channel back (`Pointer`,
`Previous`, `Rollback`). `Abort` is a kill or an I/O error between any two.

| Run | Instance | Shows |
|---|---|---|
| `governance` | two processes, three artifacts, three people, one approval with a quorum of two, three requests or commands, one fault (487,046 states) | ApprovalSpentOnce, QuorumBehindPromotion, SettledLinksAcyclic, ReportedLinkStays, CascadeCoversDescendants |

*Bounds.* Three artifacts are the fewest for a descendant of a descendant and
for a cycle that no two opposite links make; three people allow a requester who
tries to count towards a quorum of two. What creates an approval is one of the
three requests: the other two may be two promotions under it, or one of them and
a cascade or a POST; without one, three links race each other or a cascade.
Processes, artifacts and people are symmetric. *Fairness*: none,
no liveness is claimed.

*Exceptions in the properties are the code's own limits.*
- A link whose writer died before it verified it, or that a registration or a
  POST has written, stays (`unverified`) until some verification has seen it; if
  it closes a cycle, every later link is refused until it is removed by hand,
  and adding it again reports success without verifying it.
- A verification and a plan see what a listing returns, the newest 1000
  artifacts (_registry.py:153): `Listed`, of which nothing is assumed. The
  graph, the plan and the properties are about the parents of those (`Seen`).
  The runs list all artifacts; the theorems hold for any choice.
- ReportedLinkStays leaves out a link that was reported on the strength of
  another command's addition (`borrowed`) as long as that command has not
  verified it: its rollback removes what was reported. It also leaves out the
  links of an artifact that was replaced by a POST.
- An artifact written while a cascade runs is not in its plan (`late`).
- QuorumBehindPromotion is about the service: `channel promote` on the command
  line asks for no approval.

*Notes.* An approval whose promotion fails afterwards is lost. A rollback is
blocked when the previous artifact is revoked too. "Deepest first" is the depth
of the shortest path. `Acyclic` is the mathematical notion; how verify_ancestry
finds a cycle (its depth-first search) is not modelled. Which artifacts are
listed does not change during a run. link_parent reads the document and writes
it back, so a POST in between has the net effect of none, and a POST that names
a parent twice is left out. The replay of a request under one Idempotency-Key
is in ReleaseControl.

## 9. HardeningEngine

The engine that each Linux role copies to the guest
(roles/*/files/ohbs_engine.py, ten identical files; the map names the one of
cis-rhel9) in apply mode.

| Variable | Code |
|---|---|
| `phase` | `main`: packages in one call, the pool, the restarts, the second check, the document |
| `at`, `stage`, `result`, `cut` | each rule's thread in `run_rule` and its result; the rules reported as unfinished when the budget was spent (`_apply_with_deadline`) |
| `refused`, `dropin`, `snap`, `running`, `restart` | the sshd drop-in, a thread's copy of it, what sshd was started with, the queued restart (`_sshd_write`, `defer_restart`, `flush_restarts`) |
| `cache`, `producer`, `seen` | the cached answer of `sshd -T`, who is asking it, and what it said |
| `live` | the settings in /etc/pam.d |
| `stock`, `profile`, `custom` | the settings in the distribution's authselect profile and in the custom one, and whether the custom one is selected |
| `paths`, `backup` | the cached list of PAM files, and the one module-wide snapshot |
| `held` | packages and other settings in force |
| `unapplied`, `raised` | history: an `apply-changes` failed; rules whose check raised in Phase 4 |

Package rules exclude each other, and so do PAM rules; sshd rules exclude each
other only from the write of the drop-in to its test, after the copy that the
rollback restores has been taken. The cache is stored by the thread that asked
for it, whatever was written and invalidated in between.

*PAM.* A rule asks for a module's line (`pam_module`) or for an argument on one
(`pam_arg`, present or, in `Absent`, not). The checks read /etc/pam.d and, when a
custom profile is selected, its sources too, and any hit is a pass (`PamSettings`,
ohbs_engine.py:2458-2536). `EditPam` edits the lines that are there, in
the sources and in the stack; when that changes nothing it goes on to the path
for a missing line: `EnableFeature` or `AddLine`, `ApplyPam`, and a second edit
that may change nothing and succeed all the same (4941-4953). `Ensured` is
`_ensure_custom_profile`, whose two commands may each fail. `Applied` is
`authselect apply-changes`, which generates the stack from the selected profile
(`Generated`) or fails; then the stack becomes the copy and the profile keeps
the edit. On a host without authselect the stack is edited directly.

| Run | Instance | Shows |
|---|---|---|
| `hardening` | runs of three sshd rules, of which this host's sshd may refuse two, and a package that needs a reboot; runs of three of four PAM rules on a host with authselect, either profile selected: an argument on a line, the line, a feature, and an argument that must be absent from pam_unix; a check that may raise; two threads; a budget (714,898 states) | ReportedPassHolds, SshdRunsItsConfig, DocumentWritten |
| PamApply.cfg (kept outside the table of runs) | an argument and the line of its module | a disagreement, section 10 |
| HardeningSshd.cfg (kept outside the table of runs) | three sshd rules, two refusable, no budget | a disagreement, section 10 |

*Bounds.* Two threads make every race of two fixes, and two rules of each
family that shares state are needed for one. PAM rules exclude each other, so a
second thread adds only the checks of Phase 4 beside each other. The two kinds
share no state, so no run asks for both (`Selections`: what `select` leaves of
the catalogue), and the host has nothing set of the kind that is not asked for
(`MCInit`). *Fairness.* WF on `main` and on every check, each of
which is a command with a time-out. Fixes are fair only when there is no budget:
with one, the document is written although a fix never ends.

*Exceptions in the properties are the code's own limits.* ReportedPassHolds and
SshdRunsItsConfig speak of runs within their budget (`cut = {}`): after it,
threads go on changing the host while the document is written. SshdRunsItsConfig
speaks of documents in which one sshd rule at most has failed; with two the
host may be left invalid (HardeningSshd.cfg). `Excused` names what
ReportedPassHolds leaves out:
- a rule whose check raised in Phase 4, which keeps its earlier verdict (5467);
- sshd rules once a directive was refused, for its rollback keeps the cached
  answer of before;
- with a custom profile, lines of features and arguments on them: the sources
  contain them also while the feature is off;
- PAM rules once an `apply-changes` has failed under a custom profile: the
  sources keep an edit that the stack has lost, and the checks pass on them
  (PamApply.cfg); under the distribution's profile, only what was found in place
  and is not checked again.

*Abstractions.* A rule of another family is checked and fixed in one step on a
setting of its own. A check that looks at the cache twice is read as one look.
The package call succeeds for all or for none. Rules whose risk is "none" are
kept from fixing in the way of those that are disruptive without leave. The
second check runs on its own pool, which the model does not bound. The files of
a PAM stack (system-auth and password-auth) are taken as one, a minimum ("ge:")
as an argument that is there or not, the arguments that an inserted line brings
along are left out, and so are PAM files that cannot be written. Which settings
a line carries is modelled, not the order of its words. The crypto
drop-in (05-cis-crypto.conf), and Ansible's kill of the engine at
`engine_timeout`, are left out.

## 10. What disagrees with the documentation

In each, TLC finds a violation of what the documentation or the code's own
messages say. The first three are runs; `PROJECT.json` has the quotations. The
others are configurations kept beside them.

| Run or configuration | Property | What happens |
|---|---|---|
| `release_revoked` | RevokedForever | the row is revoked, the mirror write fails; the next registration of that release takes the old status from the mirror and makes the row active |
| `release_retry` | AppliedOnce | a worker dies after the channel write and before its operation is completed; the retry promotes again, and the channel's predecessor becomes the promoted artifact itself |
| `rebuild_overrun` | RecoveredOrDeadLettered | with a handler slower than the lease (the defaults: 7200 s and 900 s) two workers take the request from each other; every result is refused and the request is never settled |
| `tlc -config ReleaseOverlap.cfg MCReleaseControl` | CompletedReplayed | "A completed operation is replayed without executing its mutation again" (_operations.py:64). Two owners of the fence's lock: one reads the operation as in progress while the other, its token verified, completes it; the reader claims the next token and applies it again |
| `tlc -config NativeSignal.cfg MCNativeBuild` | SignalTakesFailurePath | "Native execution also converts SIGINT/SIGTERM into its normal failure path" (src/README.reference.md:796). The handler raises `InterruptedError`, an `OSError`; a cloud call or SSH probe in progress catches and retries it, and the build goes on to success |
| `tlc -config NativeRetained.cfg MCNativeBuild` | RetainedIsResumable | "retained failed instance {instance_id} for explicit resume" (native/executor.py:517; src/README.reference.md:771). An instance retained after its image failed is stopped, and a resume waits for RUNNING, which nothing brings about |
| `tlc -config HardeningSshd.cfg MCHardeningEngine` | SshdStaysValid | "Roll back both files to their pre-write state so the image never ships a config that prevents sshd from starting" (ohbs_engine.py:2308-2309). The copy is taken before the lock: a second rule's copy may already hold the first one's refused directive, and its rollback puts it back |
| `tlc -config PamApply.cfg MCHardeningEngine` | AppliedArgIsLive | "Re-apply the edit once more so the final on-disk state is correct regardless of set/absent mode" (ohbs_engine.py:4960-4963). With the module's line missing and a custom profile selected, failed apply-changes leave line and argument in the profile's sources and not in /etc/pam.d; the edit that is repeated finds no line, the fix reports success, and both checks pass on the sources |

## 11. Proofs

All proofs are checked by tlapm 1.4.5 with Z3, Zenon and LS4. The only
assumptions are those named in the modules (`NativeAssumption`,
`ReleaseAssumption`, `QueueAssumption`, `DistributionAssumption`,
`LifecycleAssumption`, `FreeAssumption`, `GovernanceAssumption`,
`RulesAssumption`): the special
values differ from the ordinary ones, and bounds are natural numbers. The sets of
processes, runs, artifacts, requests, workers and people are arbitrary; for the
quotas of Distribution, which count them, its workers and jobs are finitely many,
and so are the artifacts of Governance, whose number bounds the walk up the ancestry.

| Theorem | Statement | Argument |
|---|---|---|
| NativeBuildProofs `TypeCorrect` | `Spec => []TypeOK` | TypeInv adds what each phase implies of `run`, `plan` and `cur`; without it a journal write has no type |
| `Hardened` | `Spec => []ImagesHardened` | HardenInv: the marker of a run claims only what is on that guest (MarkerTrue), and an executor's completed set and position claim only what is on the guest it works on (ProgressTrue). The journal alone is *not* trusted: it may claim more than the guest after a reinstall, and the invariant says nothing of it |
| NativeRecoveryProofs `JournalsKey` | `Spec => []KeyJournaledBeforeLaunch` | JournalInv: the journal belongs to the attempt that writes it, and the document a heartbeat holds is the one in the file, because both write under the same lock |
| `ExitsClean`, `LeftoversAreListed`, `OwnImageReported` | `Spec => []CleanExit`, `[]LeftoversListed`, `[]ReportsOwnImage` | RecordInv restates the properties for the last record, HoldInv says what an attempt holds in each phase and what its end has confirmed so far, and ReportsOwnImage is inductive with them; StartInv orders the runs by their attempts, so that no later one brings back what a record calls gone |
| `NeverReplays` | `Spec => NoReplay` | AgreeInv: in the provisioner loop the executor's completed set holds whatever journal and marker agree on |
| `NeverForgets` | `Spec => JournalNeverForgets` | JournalInv again: the document that the heartbeat writes back is not older than the file |
| ReleaseControlProofs `TypeCorrect` | `Spec => []TypeOK` | by cases over the steps |
| `CompareAndSwap` | `Spec => ChannelIsCAS` | LockInv: unless a lock was taken from a live owner, a process about to write the channel owns its lock and what it read is still there |
| `Races` | `Spec => []RacesNeedTakeover` | FenceInv and LockInv: unless a lock was taken from a live owner, a fenced promotion holds the fence's lock from its first read to its end, and who is at the channel holds the channel's |
| `FencedOrder` | `Spec => FencedInOrder` | TokenInv: unless two workers were in a window together, no two commands share a token, the channel's is never above the fence, and the token of a promotion that is about to write is above that of all who have written. Locks play no part in it, so it covers every takeover outside the windows |
| `CompletedFinal` | `Spec => CompletedIsFinal` | TokenInv, with the same premise: another command under a completed id is not claiming, holds a token below the fence, and is not about to write the channel |
| `Withdrawals` | `Spec => WithdrawalSticks` | RowInv: a process between lock and mirror owns the artifact's lock, and row and mirror agree, or one of them is about to be written, or the artifact is in `lost` |
| `Published` | `Spec => WithdrawnNotPublished` | PublishInv: what a command saw withdrawn when it started is withdrawn still, and it passes the check only with something else |
| RebuildQueueProofs `TypeCorrect` | `Spec => []TypeOK` | by cases over the steps |
| `DeadLetters` | `Spec => []DeadLetterIsEarned` | ClaimInv: neither a document nor what a worker has read of one counts more attempts than were claimed |
| `Quarantined` | `Spec => []QuarantinedIsQueued` | EventInv: a process past the fence owns the event's lock, and every quarantined artifact has a request or one that is enqueueing it, or died |
| `LeaseRefinement` | `~Endless /\ Spec => ImplementsLeaseQueue` | DbInv: in the table, a worker that still owns its request works on the latest claim of it; this is why comparing the owner, and not the attempt, is enough |
| DistributionProofs `TypeCorrect` | `Spec => []TypeOK` | SeenInv and SharersInv: a cycle goes through replicas it has read as pending, and only a worker shares |
| `QuotasBind` | `Spec => []InFlightWithinQuota` | QuotaInv bounds the rows that run, for a claim counts them before it adds one; OwnInv: unless a lease expired under a worker, it owns the row of its job, so workers and rows correspond one to one |
| `TableIsLeaseQueue` | `Spec => ImplementsLeaseQueue` | JobInv: a worker that owns its row works on the latest claim of it. The sweep of a claim changes the columns of a row and not its document, and the refinement reads the document, so a claim with its sweep is one abstract claim |
| `ReadyIsUsable` | `Spec => []ReadyIsNormal` | NamedInv, AnswerInv and SeenCopyInv: no number is in a document, an answer or a snapshot of a copy that was not made; ReadyInv: the verdict that a reconciler carries is as sound as one that is written |
| `SuccessIsRecorded` | `Spec => []SucceededIsRecorded` | WorkInv: what each stage of a worker has achieved for its own job; a replica is never taken away and a share never revoked, and what a registration takes out of the document is in `dropped` |
| `ReadyIsKept` | `Spec => ReadyStays` | AloneInv: on a replica that was never raced there is one process at work, a copying one has found it missing or failed, a reconciling one pending, and it is so still |
| `CopiesAreTracked` | `Spec => []CopiesTracked` | TrackInv, on AloneInv: a copy that is neither forgotten nor given up is the one the replica names or the one its only copier is about to record |
| RunLifecycleProofs `TypeCorrect` | `Spec => []TypeOK` | StageInv: a command between stages has completed no more of them than there are |
| `ChainsVerify` | `Spec => []ChainVerifies` | LogInv: a writer between the lock of the log and its release owns that lock (LockInv), and what it has read or written is what the log holds, unless the log was torn or pruned (SeenInv). So no two writers extend the same event, though every one of them may be killed |
| `HistoryRefinement` | `Spec => ImplementsRunHistory` | the same invariant; lemma LogSteps says what a step does to the log, and each case maps to a step of RunHistory |
| `RefusesReady`, `LiveRunsActive`, `ManifestsMatch` | `Spec => []RefusesOnlyReady`, `[]LiveRunIsActive`, `[]ManifestMatchesLog` | FlowInv, on SoleInv; see below |
| `ReconcileSpares` | `Spec => ReconcileSparesApproved` | SpareInv: only a resumed command retries, so without one nothing but FAILED follows a FAILED in the log, and an event that is still in the log is in the state its writer asked for. No fault and no second writer disturbs it |
| GovernanceProofs `TypeCorrect` | `Spec => []TypeOK` | by cases over the steps; the fence is held only by a promotion under way |
| `LinksAcyclic` | `Spec => []SettledLinksAcyclic` | whoever verifies sees the listed graph with its own link in it, so a graph that is settled at that moment has no cycle, and removing links makes none; for any choice of the listed artifacts |
| `ReportedLinksStay` | `Spec => []ReportedLinkStays` | LinkInv: a link under verification has one writer and is not among those reported for good; a rollback removes only such a link, a POST only those of its own artifact |
| `ApprovalsSpentOnce` | `Spec => []ApprovalSpentOnce` | a promotion under way holds a consumed approval that no other promotion names and that has let nothing through yet |
| `QuorumBehindPromotions` | `Spec => QuorumBehindPromotion` | an approved or consumed approval keeps its quorum and payload, a promotion carries the payload of its approval, and a cascade rolls back only what it has revoked |
| `CascadesCover` | `Spec => CascadeCoversDescendants` | CoverInv: what is revoked or still planned below the root holds a set closed under the links that were there when the cascade began. That set is not in the state, so the invariant says that there is one. The root is last in the plan, and what hangs below links added meanwhile is covered by the next theorem |
| `DescendantsIsLeastFixedPoint` | the walk of `Descendants` yields the least set that holds the children of the root and of its members | the levels are disjoint, so one more than there are artifacts would count too many (LevelsFill); lemma LevelsExist shows that the recursive function is defined |
| `NeverOwnDescendant` | `Spec => []NoOwnDescendant` | lemma AcyclicIsIrreflexive: `Acyclic(ls)` exactly if no artifact is among its descendants (a cycle is closed under descent; without one, each parent has more descendants than its child). With LinksAcyclic: no cascade over settled links meets its root again |
| HardeningEngineProofs `TypeCorrect` | `Spec => []TypeOK` | PlaceInv: which family of rule gets to which place, in which of its checks |
| `ReportsHold` | `Spec => []ReportedPassHolds` | PamInv: one PAM rule is at work at a time (LockInv), an argument in a profile has its line there (ProfileInv), and unless an `apply-changes` failed the stack is what authselect generates from the selected profile, and arguments that fixes have added (StackInv). AlreadyInv: so what a rule found in place is still there. CacheInv: without a rollback the drop-in only grows, so an old answer of sshd never claims too much. CloseInv: within the budget only checks run after the restart |
| `SshdRuns` | `Spec => []SshdRunsItsConfig` | DropinInv: a refused directive is in the drop-in only while its rule is under test, and in the copy of another rule only when that rule is under test or fails. RestartInv: unless a restart is queued, sshd runs the drop-in but for what is under test. Nothing is assumed of the host's sshd: that one rule at most has failed is read off the document |

Proof modules are laid out alike: field lemmas about the setters of the
records, an effect lemma per step, the invariant per action, and a temporal
theorem that combines them. `Endless` is FALSE wherever attempts really count;
TRUE only makes `rebuild_overrun` finite.

*The inductive invariant of RunLifecycle.* ManifestMatchesLog speaks of a state
in which every writer is idle, and a write takes five steps, so it is far from
inductive. SoleInv says that, unless the run was disturbed, one invocation or
reconciler is engaged in it and has one write under way. FlowInv follows that
write and its command: what waits for the log may follow its last state (Asked),
what is past the log has been logged or refused (Answered), the manifest says
what is being written (Under), and the command's place and its count of stages
are where the log's last state leads (Bearings, by a table `Expects` of places
and states). A manifest that is over is logged, unless its writer is half way
(Settled). RefusesOnlyReady holds by Asked for the undisturbed run, and
`refused` grows only there. SoleInv, FlowInv and SpareInv were model-checked on
the instance of `lifecycle` (459,944 states) before they were proved. The first
attempt to prove them showed that two cases of `StateOf` overlapped (a completed
run in a cleaned-up probe phase), where CASE leaves the choice open and TLC takes
the first; the module now has the cases of the code.

*Induction.* The induction theorems of the library take an operator as a
parameter, which the provers cannot instantiate. GovernanceProofs uses the least
number of a set instead (LeastOf, from the well-foundedness of <): the set
of the levels, or of the sizes, for which a claim fails has none. That is how what
the recursive function `Levels` computes is proved for every ancestry.

*Only model-checked.* The liveness properties ExecutorEnds, OrphansCollected,
Settles, JobsSettle, PendingDecided, AbandonedIsEnded and DocumentWritten:
liveness under fairness and ENABLED are beyond this prover.

## 12. What is not covered

Most of the repository's implementation lines are no state machine: of about
81,000, some 55,700 are the ten identical copies of ohbs_engine.py, and most of
that file is one check and one fix per CIS rule family (parsing and editing of
one configuration file each). What the models stand for is the control around them.

- Plan row 8: *checkpoints, retries by failure category and the circuit breaker*
  of the build command, *restore, migrate and backup* of the state tree and the
  database, and the *policy registry*. They are sequential commands on documents of
  their own; their hazards are the ones of a document under a lock, which
  ReleaseControl opens.
- *Packer, Ansible, Tencent Cloud and SSH* themselves: they appear as calls that
  take effect or not, and answer or not.
- *Formatting, rendering, catalogue queries, onboarding, configuration parsing,
  policy evaluation, metrics, SLO and capacity*: pure functions of what is
  stored, without state.
- *The rule data and the checks of each CIS rule*: data. The engine that runs
  them is section 9; the other families of rules than sshd, PAM and packages edit
  files of their own and are one family ("plain") in it.
- *The Windows roles and the Terraform provider* (read-only data sources), and
  the service's authentication, limits and routing.
