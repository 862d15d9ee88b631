--------------------------- MODULE ReleaseControl ---------------------------
(***************************************************************************)
(* What decides which image a consumer gets: the artifact registry (a      *)
(* SQLite row that is canonical and a JSON mirror of it), one release      *)
(* channel that points at an artifact, the fenced operations under which   *)
(* automation promotes, and the directory locks of _state_lock that keep   *)
(* the processes apart.                                                    *)
(*                                                                         *)
(* Processes (CLI commands, the API service, workers) promote an artifact, *)
(* withdraw one (quarantine or revoke, with the automatic rollback of the  *)
(* channel) and register release manifests, concurrently.  A process may   *)
(* be killed between any two steps, an I/O error may end any step, and a   *)
(* lock may be taken over from a live owner: one that has stalled for      *)
(* 300 s, or one of two waiters that both found the same lock stale and    *)
(* now both own it.  A fenced operation reads and writes its documents one *)
(* at a time, and the token is verified in a step before the write that it *)
(* guards.                                                                 *)
(***************************************************************************)
EXTENDS Naturals, FiniteSets

CONSTANTS Procs,      \* processes
          Artifacts,  \* image ids that have a release manifest
          NoArtifact, \* the artifact of a channel that was never written
          Ops,        \* operation ids (idempotency keys)
          NoOp,       \* the operation id of an unfenced change
          AnyGen,     \* no --expected-generation was given
          Free, Dead, \* a lock that nobody holds, and one whose owner was killed
          MaxJobs,    \* bound on the number of commands that are started
          Faults      \* the faults that are considered

ASSUME ReleaseAssumption ==
    /\ MaxJobs \in Nat \ {0}
    /\ NoArtifact \notin Artifacts
    /\ NoOp \notin Ops
    /\ AnyGen \notin Nat
    /\ Free # Dead /\ Free \notin Procs /\ Dead \notin Procs
    /\ {"channel", "fence"} \cap Artifacts = {}
    /\ Faults \subseteq {"crash", "takeover"}

VARIABLES
    db,       \* the status column of each artifact's row in state.db
    mirror,   \* the status in each artifact's JSON mirror
    chan,     \* the channel document
    fence,    \* the token in fence.json of the channel's scope
    opdoc,    \* the operation documents of that scope
    lock,     \* the owner of each lock directory
    job,      \* what each process is doing
    started,  \* number of commands started
    applied,  \* history: how often each operation has written the channel
    lost,     \* history: artifacts whose row was once written without its mirror
    taken,    \* history: a lock was once taken over from a live owner
    raced     \* history: two workers were once at the same fenced window

registry == <<db, mirror>>
history  == <<applied, lost, taken>>
vars == <<registry, chan, fence, opdoc, lock, job, started, history, raced>>

Withdrawal == {"quarantined", "revoked"}
Status     == {"none", "active"} \cup Withdrawal
Locks      == {"channel", "fence"} \cup Artifacts
Withdrawn  == {a \in Artifacts : db[a] \in Withdrawal}

Channel == [art: Artifacts \cup {NoArtifact}, prev: Artifacts \cup {NoArtifact},
            gen: Nat, op: Ops \cup {NoOp}, token: Nat]
NoChannel == [art |-> NoArtifact, prev |-> NoArtifact, gen |-> 0, op |-> NoOp, token |-> 0]

ClaimPhases  == {"read-fence", "write-fence", "write-op"}
CommitPhases == {"verify-channel", "write-channel", "verify-complete", "complete"}
Phases == {"idle", "fence", "read-op", "check", "lock-channel", "lock-artifact",
           "read-mirror", "put-row", "put-mirror", "rollback"} \cup ClaimPhases \cup CommitPhases
JobType == [pc: Phases, art: Artifacts \cup {NoArtifact}, exp: Nat \cup {AnyGen},
            op: Ops \cup {NoOp}, token: Nat, gen: Nat, prev: Artifacts \cup {NoArtifact},
            target: Status, auto: BOOLEAN, withdrawn: SUBSET Artifacts]
Job(phase, a, exp, o, status, auto, gone) ==
    [pc |-> phase, art |-> a, exp |-> exp, op |-> o, token |-> 0, gen |-> 0,
     prev |-> NoArtifact, target |-> status, auto |-> auto, withdrawn |-> gone]
Idle == Job("idle", NoArtifact, AnyGen, NoOp, "none", FALSE, {})

Init ==
    /\ db = [a \in Artifacts |-> "none"]
    /\ mirror = [a \in Artifacts |-> "none"]
    /\ chan = NoChannel
    /\ fence = 0
    /\ opdoc = [o \in Ops |-> "none"]
    /\ lock = [l \in Locks |-> Free]
    /\ job = [p \in Procs |-> Idle]
    /\ started = 0
    /\ applied = [o \in Ops |-> 0]
    /\ lost = {}
    /\ taken = FALSE
    /\ raced = FALSE

(* The local state of a command, one assignment each. *)
At(p, phase)     == job[p].pc = phase
Become(p, j)     == job' = [job EXCEPT ![p] = j]
To(j, phase)     == [j EXCEPT !.pc = phase]
Claiming(j, t)   == [j EXCEPT !.token = t]                    \* claim["token"]
Reading(j, g, a) == [j EXCEPT !.gen = g, !.prev = a]          \* the previous document
Targeting(j, st) == [j EXCEPT !.target = st]                  \* doc["status"]
Reverting(j, a, g) == [j EXCEPT !.art = a, !.exp = g]         \* the rollback's arguments
Goto(p, phase)   == Become(p, To(job[p], phase))
End(p)           == Become(p, Idle)

-----------------------------------------------------------------------------
(* The directory lock.  An abandoned directory is removed once it is 300 s *)
(* old; so is the directory of an owner that has been stalled that long.   *)
(* The owner's rmdir removes whatever directory is there.                  *)

AcquireUnlocked(p, l) == UNCHANGED <<lock, taken>>     \* mutant: no lock at all
Acquire(p, l) ==
    /\ \/ lock[l] \in {Free, Dead} /\ UNCHANGED taken
       \/ "takeover" \in Faults /\ lock[l] \in Procs \ {p} /\ taken' = TRUE
    /\ lock' = [lock EXCEPT ![l] = p]

Released(ls) == [l \in Locks |-> IF l \in ls THEN Free ELSE lock[l]]

(* The locks that the finally clauses around a phase will remove. *)
FenceHeld(j) == IF j.op # NoOp /\ j.pc # "fence" THEN {"fence"} ELSE {}
Holds(j) ==
    FenceHeld(j) \cup
    (IF j.pc \in {"verify-channel", "write-channel"} THEN {"channel"}
     ELSE IF j.pc \in {"put-row", "put-mirror"} THEN {j.art} ELSE {})

-----------------------------------------------------------------------------
(* promote_channel, with an operation id inside fenced_operation. *)

Promote(p, a, exp, o) ==
    /\ At(p, "idle") /\ started < MaxJobs
    /\ started' = started + 1
    /\ Become(p, Job(IF o = NoOp THEN "check" ELSE "fence", a, exp, o, "none", FALSE, Withdrawn))
    /\ UNCHANGED <<registry, chan, fence, opdoc, lock, history>>

ReplayableNever(o) == FALSE      \* mutant: a completed operation is executed again
Replayable(o) == opdoc[o] = "completed"

(* fenced_operation takes the fence's lock, which it holds to the end.  A  *)
(* completed operation answers from its document; otherwise the caller     *)
(* takes the token after the one it reads, and writes fence and operation. *)
LockFence(p) ==
    /\ At(p, "fence")
    /\ Acquire(p, "fence")
    /\ Goto(p, "read-op")
    /\ UNCHANGED <<registry, chan, fence, opdoc, started, applied, lost>>

Replay(p) ==
    /\ At(p, "read-op") /\ Replayable(job[p].op)
    /\ lock' = Released({"fence"})
    /\ End(p)
    /\ UNCHANGED <<registry, chan, fence, opdoc, started, history>>

ReadOperation(p) ==
    /\ At(p, "read-op") /\ ~Replayable(job[p].op)
    /\ Goto(p, "read-fence")
    /\ UNCHANGED <<registry, chan, fence, opdoc, lock, started, history>>

ReadFence(p) ==
    /\ At(p, "read-fence")
    /\ Become(p, To(Claiming(job[p], fence + 1), "write-fence"))
    /\ UNCHANGED <<registry, chan, fence, opdoc, lock, started, history>>

WriteFence(p) ==
    /\ At(p, "write-fence")
    /\ fence' = job[p].token
    /\ Goto(p, "write-op")
    /\ UNCHANGED <<registry, chan, opdoc, lock, started, history>>

WriteOperation(p) ==
    /\ At(p, "write-op")
    /\ opdoc' = [opdoc EXCEPT ![job[p].op] = "in_progress"]
    /\ Goto(p, "check")
    /\ UNCHANGED <<registry, chan, fence, lock, started, history>>

(* The artifact is checked before the channel is locked. *)
CheckArtifactSkipped(p) ==       \* mutant: the status is not looked at
    /\ At(p, "check")
    /\ Goto(p, "lock-channel")
    /\ UNCHANGED <<registry, chan, fence, opdoc, lock, started, history>>

CheckArtifact(p) ==
    /\ At(p, "check")
    /\ db[job[p].art] = "active"
    /\ Goto(p, "lock-channel")
    /\ UNCHANGED <<registry, chan, fence, opdoc, lock, started, history>>

ExpectedGeneration(exp, gen) == exp \in {AnyGen, gen}

LockChannel(p) ==
    /\ At(p, "lock-channel")
    /\ ExpectedGeneration(job[p].exp, chan.gen)
    /\ Acquire(p, "channel")
    /\ Become(p, To(Reading(job[p], chan.gen, chan.art),
                    IF job[p].op = NoOp THEN "write-channel" ELSE "verify-channel"))
    /\ UNCHANGED <<registry, chan, fence, opdoc, started, applied, lost>>

(* verify_fencing_token, a step before each write that it guards. *)
TokenUnchecked(j) == TRUE        \* mutant: an overtaken worker commits
TokenCurrent(j) == j.token = fence

VerifyToken(p) ==
    /\ \/ At(p, "verify-channel") /\ Goto(p, "write-channel")
       \/ At(p, "verify-complete") /\ Goto(p, "complete")
    /\ TokenCurrent(job[p])
    /\ UNCHANGED <<registry, chan, fence, opdoc, lock, started, history>>

WriteChannel(p) ==
    /\ At(p, "write-channel")
    /\ LET j == job[p]
       IN /\ chan' = [art |-> j.art, prev |-> j.prev, gen |-> j.gen + 1,
                      op |-> j.op, token |-> j.token]
          /\ applied' = [o \in Ops |-> applied[o] + (IF o = j.op THEN 1 ELSE 0)]
          /\ IF j.op = NoOp THEN End(p) ELSE Goto(p, "verify-complete")
    /\ lock' = Released({"channel"})
    /\ UNCHANGED <<registry, fence, opdoc, started, lost, taken>>

CompleteOp(p) ==
    /\ At(p, "complete")
    /\ opdoc' = [opdoc EXCEPT ![job[p].op] = "completed"]
    /\ lock' = Released({"fence"})
    /\ End(p)
    /\ UNCHANGED <<registry, chan, fence, started, history>>

(* The windows of a fenced operation: between the read of its document and *)
(* the last write of its claim, and between a verified token and the write *)
(* that it guards.  Two workers overlap when they are in one window, or    *)
(* one claims while the other completes.                                   *)
InClaim(p)      == job[p].pc \in ClaimPhases
FencedWriter(p) == At(p, "write-channel") /\ job[p].op # NoOp
Overlap(p, q) ==
    \/ InClaim(p) /\ (InClaim(q) \/ At(q, "complete"))
    \/ FencedWriter(p) /\ FencedWriter(q)
Overlapping == \E p, q \in Procs : p # q /\ Overlap(p, q)

-----------------------------------------------------------------------------
(* change_artifact_status and register_release; both end in put_artifact,  *)
(* which writes the row first and the mirror second.                       *)

ChangeStatus(p, a, target, auto) ==
    /\ At(p, "idle") /\ started < MaxJobs
    /\ started' = started + 1
    /\ Become(p, Job("lock-artifact", a, AnyGen, NoOp, target, auto, Withdrawn))
    /\ UNCHANGED <<registry, chan, fence, opdoc, lock, history>>

Permitted(from, to) == from # "revoked" \/ to = "revoked"

LockArtifact(p) ==
    /\ At(p, "lock-artifact")
    /\ db[job[p].art] # "none"
    /\ Permitted(db[job[p].art], job[p].target)
    /\ Acquire(p, job[p].art)
    /\ Goto(p, "put-row")
    /\ UNCHANGED <<registry, chan, fence, opdoc, started, applied, lost>>

Register(p, a) ==
    /\ At(p, "idle") /\ started < MaxJobs
    /\ started' = started + 1
    /\ Become(p, Job("read-mirror", a, AnyGen, NoOp, "none", FALSE, Withdrawn))
    /\ UNCHANGED <<registry, chan, fence, opdoc, lock, history>>

RegisteredStatusRevoked(m) ==    \* mutant: only a revocation survives a re-registration
    IF m = "revoked" THEN m ELSE "active"

(* A release is registered as active unless the mirror says otherwise. *)
RegisteredStatus(m) == IF m \in Withdrawal THEN m ELSE "active"

ReadMirror(p) ==
    /\ At(p, "read-mirror")
    /\ Acquire(p, job[p].art)
    /\ Become(p, To(Targeting(job[p], RegisteredStatus(mirror[job[p].art])), "put-row"))
    /\ UNCHANGED <<registry, chan, fence, opdoc, started, applied, lost>>

PutRow(p) ==
    /\ At(p, "put-row")
    /\ db' = [db EXCEPT ![job[p].art] = job[p].target]
    /\ Goto(p, "put-mirror")
    /\ UNCHANGED <<mirror, chan, fence, opdoc, lock, started, history>>

PutMirror(p) ==
    /\ At(p, "put-mirror")
    /\ mirror' = [mirror EXCEPT ![job[p].art] = job[p].target]
    /\ lock' = Released({job[p].art})
    /\ IF job[p].auto THEN Goto(p, "rollback") ELSE End(p)
    /\ UNCHANGED <<db, chan, fence, opdoc, started, history>>

(* rollback_channels_for_artifact: the pointer is read, and the previous   *)
(* artifact promoted under the generation that was read.                   *)
Rollback(p) ==
    /\ At(p, "rollback")
    /\ IF chan.art = job[p].art /\ chan.prev # NoArtifact
       THEN Become(p, To(Reverting(job[p], chan.prev, chan.gen), "check"))
       ELSE End(p)
    /\ UNCHANGED <<registry, chan, fence, opdoc, lock, started, history>>

-----------------------------------------------------------------------------
(* A refused request, a lock timeout or an I/O error: the finally clauses  *)
(* remove the locks.  A killed process leaves them.                        *)

Unmirrored(j) == IF j.pc = "put-mirror" THEN {j.art} ELSE {}

Raise(p) ==
    /\ ~At(p, "idle")
    /\ lock' = Released(Holds(job[p]))
    /\ lost' = lost \cup Unmirrored(job[p])
    /\ End(p)
    /\ UNCHANGED <<registry, chan, fence, opdoc, started, applied, taken>>

Crash(p) ==
    /\ "crash" \in Faults
    /\ ~At(p, "idle")
    /\ lock' = [l \in Locks |-> IF lock[l] = p THEN Dead ELSE lock[l]]
    /\ lost' = lost \cup Unmirrored(job[p])
    /\ End(p)
    /\ UNCHANGED <<registry, chan, fence, opdoc, started, applied, taken>>

-----------------------------------------------------------------------------
Step(p) ==
    \/ LockFence(p) \/ Replay(p) \/ ReadOperation(p) \/ ReadFence(p) \/ WriteFence(p)
    \/ WriteOperation(p) \/ CheckArtifact(p) \/ LockChannel(p) \/ VerifyToken(p)
    \/ WriteChannel(p) \/ CompleteOp(p) \/ LockArtifact(p) \/ ReadMirror(p) \/ PutRow(p) \/ PutMirror(p)
    \/ Rollback(p) \/ Raise(p) \/ Crash(p)

Request(p) ==
    \E a \in Artifacts :
        \/ \E exp \in {AnyGen, chan.gen}, o \in Ops \cup {NoOp} : Promote(p, a, exp, o)
        \/ \E target \in Withdrawal, auto \in BOOLEAN : ChangeStatus(p, a, target, auto)
        \/ Register(p, a)

Next ==
    /\ \E p \in Procs : Request(p) \/ Step(p)
    /\ raced' = (raced \/ Overlapping')

Spec == Init /\ [][Next]_vars

-----------------------------------------------------------------------------
(* Type invariant of the registry, the channel, its fence and the locks. *)
TypeOK ==
    /\ db \in [Artifacts -> Status] /\ mirror \in [Artifacts -> Status]
    /\ chan \in Channel
    /\ fence \in Nat
    /\ opdoc \in [Ops -> {"none", "in_progress", "completed"}]
    /\ lock \in [Locks -> Procs \cup {Free, Dead}]
    /\ job \in [Procs -> JobType]
    /\ \A p \in Procs : job[p].pc # "idle" => job[p].art \in Artifacts
    /\ started \in Nat
    /\ applied \in [Ops -> Nat]
    /\ lost \subseteq Artifacts
    /\ taken \in BOOLEAN
    /\ raced \in BOOLEAN

(* The channel's history is a chain: every promotion and rollback counts   *)
(* the generation up by one, names what it replaced, and respects the      *)
(* generation its caller expected, unless a lock was taken from a live     *)
(* owner.                                                                  *)
ChannelIsCAS ==
    [][chan' # chan => \/ taken
                       \/ /\ chan'.gen = chan.gen + 1 /\ chan'.prev = chan.art
                          /\ \A p \in Procs : job'[p] # job[p] =>
                                ExpectedGeneration(job[p].exp, chan.gen)]_vars

(* Two workers are in a fenced window at once only if a lock was taken     *)
(* from a live owner.                                                      *)
RacesNeedTakeover == raced => taken

(* Also when locks are taken over, the fenced promotions reach the channel *)
(* in the order of their tokens: a worker that was overtaken never         *)
(* overwrites the promotion of the worker that overtook it, unless two     *)
(* workers were once in a fenced window together.                          *)
FencedInOrder ==
    [][(chan' # chan /\ chan'.op # NoOp /\ chan.op # NoOp) =>
          chan'.token > chan.token \/ raced]_vars

(* An operation that is recorded as completed stays so, and is never       *)
(* executed again, whoever retries it and however late, unless two workers *)
(* were once in a fenced window together.                                  *)
CompletedIsFinal ==
    [][\A o \in Ops : opdoc[o] = "completed" =>
          (opdoc'[o] = "completed" /\ applied'[o] = applied[o]) \/ raced]_vars

(* A quarantined or revoked artifact does not become active again, nor a   *)
(* revoked one quarantined, unless an earlier write reached its row and    *)
(* not its mirror, or a lock was taken from a live owner.                  *)
WithdrawalSticks ==
    [][\A a \in Artifacts :
          /\ (db[a] \in Withdrawal /\ db'[a] # db[a]) => a \in lost \/ taken \/ db'[a] = "revoked"
          /\ (db[a] = "revoked" /\ db'[a] # "revoked") => a \in lost \/ taken]_vars

(* Neither a promotion nor the automatic rollback publishes an artifact    *)
(* that was already withdrawn when the command started.                    *)
WithdrawnNotPublished ==
    [][\A p \in Procs : (chan' # chan /\ job'[p] # job[p]) =>
          job[p].art \notin job[p].withdrawn \/ job[p].art \in lost \/ taken]_vars

(* Claimed: a revocation is permanent. *)
RevokedForever == [][\A a \in Artifacts : db[a] = "revoked" => db'[a] = "revoked"]_vars

(* Claimed: a completed operation is replayed without executing its        *)
(* mutation again.                                                         *)
CompletedReplayed ==
    [][\A o \in Ops : opdoc[o] = "completed" => applied'[o] = applied[o]]_vars

(* Claimed: a retry under the same operation id is idempotent: however     *)
(* often it is retried, an operation moves the channel at most once.       *)
AppliedOnce == \A o \in Ops : applied[o] <= 1
=============================================================================
