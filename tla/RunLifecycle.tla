---------------------------- MODULE RunLifecycle ----------------------------
(***************************************************************************)
(* One run: its manifest, its event log, and the processes that write      *)
(* them.  A run is begun by launch, build or verify-image and taken up     *)
(* again by run resume; a build keeps a heartbeat thread; state reconcile  *)
(* fails a run whose lease has expired; state prune deletes its evidence.  *)
(*                                                                         *)
(* _write_run_manifest is five steps of one writer: the manifest under its *)
(* lock, the lock of the log, the lines of the log, that lock's release,   *)
(* and the stamp that ties the manifest to the event.  The directory lock  *)
(* of the manifest is taken over when its owner is dead, that of the log   *)
(* never is.  A write that runs out of disk leaves a line without its end, *)
(* which swallows the line after it.                                       *)
(***************************************************************************)
EXTENDS RunStates, Naturals, Sequences

CONSTANTS Starter,   \* the process that begins the run: launch, build or verify-image
          Resumers,  \* run resume commands
          Janitors,  \* repeated state reconcile --apply commands
          Free,      \* a lock that nobody holds
          MaxBeats,  \* bound on the heartbeats of each build
          MaxFaults  \* bound on kills, full disks, builds that outsleep their lease, and prunes

ASSUME LifecycleAssumption ==
    /\ Starter \notin Resumers /\ ({Starter} \cup Resumers) \cap Janitors = {}
    /\ MaxBeats \in Nat /\ MaxFaults \in Nat

Procs == {Starter} \cup Resumers
Main(p) == <<"main", p>>
Beat(p) == <<"beat", p>>
Writers == {Main(p) : p \in Procs \cup Janitors} \cup {Beat(p) : p \in Procs}

ASSUME FreeAssumption == Free \notin Writers

VARIABLES
    manifest,     \* the run's manifest
    log,          \* the lines of the event log that parse
    torn,         \* the log ends in a line without its end
    nextId,       \* event ids, in the order in which they are drawn
    manifestLock, logLock,
    writing,      \* the write each thread is in
    seen,         \* the events each writer has read or written under the log's lock
    at,           \* where each process is
    done,         \* launch stages each process counts as completed
    beats,
    plan,         \* what each janitor has planned
    recorded,     \* the lineage has a record of this run
    pruner,       \* where state prune is
    faults,
    headLost,     \* history: the log has lost its beginning
    refused,      \* history: transitions that the log refused
    disturbed     \* history: two writers of the run overlapped, or a write of it was lost

files == <<manifest, log, torn, nextId>>
locks == <<manifestLock, logLock>>
procs == <<at, done, beats>>
env   == <<recorded, pruner, faults>>
past  == <<headLost, refused, disturbed>>
vars  == <<files, locks, writing, seen, procs, plan, env, past>>

Stages == <<"launch-doctor", "launch-plan", "launch-preflight">>

(* lease: unexpired.  done: the checkpoint's stages, -1 for no checkpoint; *)
(* stamp: the event whose sequence and hash the manifest carries.          *)
ManifestUnleased(status, phase, stages, stamp) ==     \* mutant: the lease is not renewed
    [status |-> status, phase |-> phase, lease |-> FALSE, done |-> stages, stamp |-> stamp]
Manifest(status, phase, stages, stamp) ==
    [status |-> status, phase |-> phase, lease |-> status = "active",
     done |-> stages, stamp |-> stamp]
NoManifest == Manifest("none", "lease-expired", 0, 0)
ManifestType == [status: Status, phase: Phase, lease: BOOLEAN, done: 0 .. 4, stamp: Nat]
NoCheckpoint == 4
State == StateOf(manifest.status, manifest.phase)

Event(sequence, from, to, id, previous) ==
    [sequence |-> sequence, from |-> from, to |-> to, id |-> id, previous |-> previous]
EventType == [sequence: Nat, from: RunState \cup {"none"}, to: RunState, id: Nat, previous: Nat]

Write(step, status, phase, stages, id) ==
    [step |-> step, status |-> status, phase |-> phase, done |-> stages, id |-> id]
Idle == Write("idle", "none", "lease-expired", 0, 0)
WriteType == [step: {"idle", "manifest", "lock", "append", "unlock", "stamp"},
              status: Status, phase: Phase, done: 0 .. 4, id: Nat]

Init ==
    /\ manifest = NoManifest /\ log = <<>> /\ torn = FALSE /\ nextId = 1
    /\ manifestLock = Free /\ logLock = Free
    /\ writing = [w \in Writers |-> Idle]
    /\ seen = [w \in Writers |-> <<>>]
    /\ at = [p \in Procs |-> "idle"]
    /\ done = [p \in Procs |-> 0]
    /\ beats = [p \in Procs |-> 0]
    /\ plan = [j \in Janitors |-> "idle"]
    /\ recorded = FALSE /\ pruner = "idle" /\ faults = 0
    /\ headLost = FALSE /\ refused = {} /\ disturbed = FALSE

Step(w, s) == writing[w].step = s
Finished(p) == at[p] = "end" /\ Step(Main(p), "idle")
Live(p) == at[p] \notin {"idle", "dead"} /\ ~Finished(p)
Busy(others) == \/ \E p \in others \cap Procs : Live(p)
                \/ \E j \in others \cap Janitors : ~Step(Main(j), "idle")
(* Heartbeats are daemon threads: they end with their process.             *)
Dead(w) == w \in Writers /\ w[2] \in Procs /\ ~Live(w[2])
LogStuck == Dead(logLock)
ManifestStuck == Dead(manifestLock) \/ (manifestLock # Free /\ LogStuck)

Move(w, s) == writing' = [writing EXCEPT ![w].step = s]
Stop(w) == writing' = [writing EXCEPT ![w] = Idle]
Fault == faults < MaxFaults /\ faults' = faults + 1

-----------------------------------------------------------------------------
(* _write_run_manifest and append_run_event, step by step.                 *)

Kept(stages) == IF stages # NoCheckpoint THEN stages
                ELSE IF manifest.status = "none" THEN NoCheckpoint ELSE manifest.done

ManifestFree == manifestLock = Free \/ Dead(manifestLock)

WriteManifest(w) ==
    /\ Step(w, "manifest") /\ ~Dead(w)
    /\ ManifestFree
    /\ manifestLock' = w
    /\ LET k == [writing[w] EXCEPT !.step = "lock", !.done = Kept(writing[w].done)]
       IN  /\ writing' = [writing EXCEPT ![w] = k]
           /\ manifest' = Manifest(k.status, k.phase, k.done, manifest.stamp)
    /\ UNCHANGED <<log, torn, nextId, logLock, seen, procs, plan, env, past>>

(* The lock of the manifest is not obtained within ten seconds.            *)
ManifestTimeout(w) ==
    /\ Step(w, "manifest") /\ ~Dead(w) /\ ManifestStuck
    /\ Stop(w) /\ disturbed' = TRUE
    /\ UNCHANGED <<files, locks, seen, procs, plan, env, headLost, refused>>

LogOpen == TRUE               \* mutant: the log's lock is taken whoever holds it
LogFree == logLock = Free

LockLog(w) ==
    /\ Step(w, "lock") /\ ~Dead(w)
    /\ LogFree /\ logLock' = w
    /\ seen' = [seen EXCEPT ![w] = log]
    /\ Move(w, "append")
    /\ UNCHANGED <<files, manifestLock, procs, plan, env, past>>

Released(w) == IF manifestLock = w THEN Free ELSE manifestLock

LogTimeout(w) ==
    /\ Step(w, "lock") /\ ~Dead(w) /\ LogStuck
    /\ manifestLock' = Released(w)
    /\ Stop(w) /\ disturbed' = TRUE
    /\ plan' = [j \in Janitors |-> IF w = Main(j) THEN "idle" ELSE plan[j]]
    /\ UNCHANGED <<files, logLock, seen, procs, env, headLost, refused>>

Last(s) == s[Len(s)]
TargetByPhase(w) == StateOf("active", writing[w].phase)    \* mutant: the status is ignored
Target(w) == StateOf(writing[w].status, writing[w].phase)
Appending(w) == Step(w, "append") /\ ~Dead(w)
Begins(w) == seen[w] = <<>> /\ Target(w) # "CREATED"
AcceptsAll(w) == TRUE         \* mutant: no transition is illegal
Accepts(w) == seen[w] # <<>> => Target(w) \in Successors(Last(seen[w]).to)
NextEvent(w) ==
    IF seen[w] = <<>>
    THEN Event(1, "none", "CREATED", nextId, 0)
    ELSE Event(Len(seen[w]) + 1, Last(seen[w]).to, Target(w), nextId, Last(seen[w]).id)

(* One line: of a log that is empty, the CREATED event comes first.  A     *)
(* line that follows a torn one is lost with it.                           *)
AppendEvent(w) ==
    /\ Appending(w) /\ Accepts(w)
    /\ log' = IF torn THEN log ELSE Append(log, NextEvent(w))
    /\ torn' = FALSE
    /\ headLost' = (headLost \/ (torn /\ log = <<>>))
    /\ seen' = [seen EXCEPT ![w] = Append(@, NextEvent(w))]
    /\ nextId' = nextId + 1
    /\ writing' = IF Begins(w) THEN writing
                  ELSE [writing EXCEPT ![w].step = "unlock", ![w].id = nextId]
    /\ UNCHANGED <<manifest, locks, procs, plan, env, refused, disturbed>>

RefuseEvent(w) ==
    /\ Appending(w) /\ ~Accepts(w)
    /\ refused' = IF disturbed THEN refused ELSE refused \cup {<<Last(seen[w]).to, Target(w)>>}
    /\ Move(w, "unlock")
    /\ UNCHANGED <<files, locks, seen, procs, plan, env, headLost, disturbed>>

(* The disk is full: part of the line is written.                          *)
TearEvent(w) ==
    /\ Appending(w) /\ Accepts(w) /\ Fault
    /\ torn' = TRUE
    /\ Move(w, "unlock") /\ disturbed' = TRUE
    /\ UNCHANGED <<manifest, log, nextId, locks, seen, procs, plan, recorded, pruner,
                   headLost, refused>>

(* A refused or failed event (id 0) is only a warning to the manifest's    *)
(* writer, and the end of state reconcile.                                 *)
UnloggedIgnored(w) == FALSE   \* mutant: state reconcile ignores the refusal
Unlogged(w) == writing[w].id = 0

UnlockLog(w) ==
    /\ Step(w, "unlock") /\ ~Dead(w)
    /\ logLock' = Free
    /\ seen' = [seen EXCEPT ![w] = <<>>]
    /\ IF Unlogged(w)
       THEN /\ manifestLock' = Released(w) /\ Stop(w)
            /\ plan' = [j \in Janitors |-> IF w = Main(j) THEN "idle" ELSE plan[j]]
       ELSE Move(w, "stamp") /\ UNCHANGED <<manifestLock, plan>>
    /\ UNCHANGED <<files, procs, env, past>>

Stamp(w) ==
    /\ Step(w, "stamp") /\ ~Dead(w)
    /\ manifest' = Manifest(writing[w].status, writing[w].phase, writing[w].done, writing[w].id)
    /\ manifestLock' = Released(w)
    /\ Stop(w)
    /\ plan' = [j \in Janitors |-> IF w = Main(j) THEN "idle" ELSE plan[j]]
    /\ UNCHANGED <<log, torn, nextId, logLock, seen, procs, env, past>>

Writing(w) == \/ WriteManifest(w) \/ ManifestTimeout(w) \/ LockLog(w) \/ LogTimeout(w)
              \/ AppendEvent(w) \/ RefuseEvent(w) \/ UnlockLog(w) \/ Stamp(w)

-----------------------------------------------------------------------------
(* The commands.  Each asks for at most one write of the manifest and goes *)
(* on when it is over.                                                     *)

At(p, where) == at[p] = where /\ Step(Main(p), "idle")
Goto(p, where) == at' = [at EXCEPT ![p] = where]
Ask(w, status, phase, stages) ==
    writing' = [writing EXCEPT ![w] = Write("manifest", status, phase, stages, 0)]

Command(p, from, status, phase, stages, to) ==
    /\ At(p, from) /\ Goto(p, to)
    /\ Ask(Main(p), status, phase, stages)
    /\ UNCHANGED <<files, locks, seen, beats, plan, pruner, faults, past>>
Silently(p, from, to) ==
    /\ At(p, from) /\ Goto(p, to)
    /\ UNCHANGED <<files, locks, writing, seen, beats, plan, pruner, faults, past>>

(* launch, build or verify-image under a new run id.                       *)
Begin ==
    /\ \/ Silently(Starter, "idle", "stage")
       \/ Silently(Starter, "idle", "build")
       \/ Command(Starter, "idle", "active", "probe-setup", NoCheckpoint, "checking")
    /\ UNCHANGED <<done, recorded>>

ChainFailures(s) ==
    {i \in 1 .. Len(s) :
        \/ s[i].sequence # i
        \/ s[i].previous # (IF i = 1 THEN 0 ELSE s[i - 1].id)
        \/ s[i].from # (IF i = 1 THEN "none" ELSE s[i - 1].to)
        \/ i > 1 /\ s[i].to \notin Successors(s[i - 1].to)}

Resumable == State \in {"FAILED", "TIMED_OUT", "CANCELLED", "READY"}

Resume(p) ==
    /\ At(p, "idle")
    /\ manifest.status # "none" /\ manifest.done # NoCheckpoint
    /\ ChainFailures(log) = {} /\ Resumable
    /\ Goto(p, "resume") /\ done' = [done EXCEPT ![p] = manifest.done]
    /\ disturbed' = (disturbed \/ Busy((Procs \ {p}) \cup Janitors))
    /\ UNCHANGED <<files, locks, writing, seen, beats, plan, env, headLost, refused>>

RetriesTimeout == State \in {"TIMED_OUT", "CANCELLED"}     \* mutant: not of a failed run
Retries == manifest.status # "none" /\ State \in {"FAILED", "TIMED_OUT", "CANCELLED"}

Retry(p) ==
    /\ IF Retries
       THEN Command(p, "resume", "active", "launch-retry", done[p], "stage")
       ELSE Silently(p, "resume", "stage")
    /\ UNCHANGED <<done, recorded>>

BeginStage(p) ==
    /\ done[p] < Len(Stages)
    /\ Command(p, "stage", "active", Stages[done[p] + 1], done[p], "staging")
    /\ UNCHANGED <<done, recorded>>

Completed(n) == n + 1

StagePasses(p) ==
    /\ Silently(p, "staging", "stage")
    /\ done' = [done EXCEPT ![p] = Completed(@)] /\ UNCHANGED recorded

StageFails(p) ==
    /\ Command(p, "staging", "failed", Stages[done[p] + 1], done[p], "end")
    /\ UNCHANGED <<done, recorded>>

(* Without --build the launch ends ready, with it the build begins.        *)
StagesOver(p) ==
    /\ done[p] = Len(Stages)
    /\ \/ Command(p, "stage", "ready", "launch-ready", done[p], "end")
       \/ Command(p, "stage", "active", "launch-build", done[p], "build")
    /\ UNCHANGED <<done, recorded>>

(* Capacity, scoped rules, unchanged inputs, a dry run: the build returns  *)
(* before it has written to the manifest.                                  *)
BuildReturns(p) == Silently(p, "build", "end") /\ UNCHANGED <<done, recorded>>

StartPacker(p) ==
    /\ Command(p, "build", "active", "packer-build", NoCheckpoint, "packer")
    /\ UNCHANGED <<done, recorded>>

Heartbeat(p) ==
    /\ At(p, "packer") /\ Step(Beat(p), "idle")
    /\ beats[p] < MaxBeats /\ beats' = [beats EXCEPT ![p] = @ + 1]
    /\ Ask(Beat(p), "active", "packer-build", NoCheckpoint)
    /\ UNCHANGED <<files, locks, seen, at, done, plan, env, past>>

(* The build goes on without a heartbeat that five seconds did not end.    *)
Late(p) == ~Step(Beat(p), "idle")
Joined(p) == Late(p) => ManifestStuck \/ LogStuck

PackerSucceeds(p) ==
    /\ At(p, "packer") /\ Joined(p) /\ Goto(p, "built")
    /\ disturbed' = (disturbed \/ Late(p))
    /\ UNCHANGED <<files, locks, writing, seen, done, beats, plan, env, headLost, refused>>

PackerFails(p) ==
    /\ At(p, "packer") /\ Joined(p) /\ Goto(p, "end")
    /\ recorded' = TRUE
    /\ Ask(Main(p), "failed", "packer-build", NoCheckpoint)
    /\ disturbed' = (disturbed \/ Late(p))
    /\ UNCHANGED <<files, locks, seen, done, beats, plan, pruner, faults, headLost, refused>>

Probe(p) ==
    /\ \/ Command(p, "built", "active", "probe-setup", NoCheckpoint, "probing")
       \/ Silently(p, "built", "verified")
    /\ UNCHANGED <<done, recorded>>

(* verify-image on its own, and as the gate of a build.                    *)
Verdict(p) ==
    /\ \/ \E status \in {"completed", "failed"} :
             Command(p, "checking", status, "probe-cleanup", NoCheckpoint, "end")
       \/ Command(p, "probing", "completed", "probe-cleanup", NoCheckpoint, "verified")
       \/ Command(p, "probing", "failed", "probe-cleanup", NoCheckpoint, "rejected")
    /\ UNCHANGED <<done, recorded>>

(* The gates around it: evidence, attestation, delivery report, result,    *)
(* release manifest.                                                       *)
GateFails(p) ==
    /\ \/ Command(p, "rejected", "failed", "clean-boot-gate", NoCheckpoint, "end")
       \/ \E where \in {"built", "verified"} :
             Command(p, where, "failed", "build-gate", NoCheckpoint, "end")
    /\ recorded' = TRUE /\ UNCHANGED done

Complete(p) ==
    /\ Command(p, "verified", "completed", "release-complete", NoCheckpoint, "end")
    /\ recorded' = TRUE /\ UNCHANGED done

Working(p) == \/ Retry(p) \/ BeginStage(p) \/ StagePasses(p) \/ StageFails(p) \/ StagesOver(p)
              \/ BuildReturns(p) \/ StartPacker(p) \/ PackerSucceeds(p) \/ PackerFails(p)
              \/ Probe(p) \/ Verdict(p) \/ GateFails(p) \/ Complete(p)

(* A manifest that says the run is over, without the event that says so.   *)
HalfWritten(w) == /\ writing[w].step \in {"lock", "append"} /\ writing[w].status # "active"

Kill(p) ==
    /\ Live(p) /\ Fault
    /\ Goto(p, "dead")
    /\ writing' = [w \in Writers |-> IF w[2] = p THEN Idle ELSE writing[w]]
    /\ seen' = [w \in Writers |-> IF w[2] = p THEN <<>> ELSE seen[w]]
    /\ disturbed' = (disturbed \/ HalfWritten(Main(p)))
    /\ UNCHANGED <<files, locks, done, beats, plan, recorded, pruner,
                   headLost, refused>>

(* The lease runs out 48 hours after the last write: of a dead process, or *)
(* of a build on a machine that slept.                                     *)
LeaseExpires ==
    /\ manifest.status = "active" /\ manifest.lease
    /\ manifest' = [manifest EXCEPT !.lease = FALSE]
    /\ \/ ~Busy(Procs) /\ UNCHANGED <<faults, disturbed>>
       \/ (\E p \in Procs : at[p] = "packer") /\ Fault /\ disturbed' = TRUE
    /\ UNCHANGED <<log, torn, nextId, locks, writing, seen, procs, plan, recorded, pruner,
                   headLost, refused>>

-----------------------------------------------------------------------------
(* state reconcile --apply: the plan, the second reading of the manifest   *)
(* (which asks for its status, not for its lease), the event, and the      *)
(* manifest as it was read.                                                *)

ExpiredLater == manifest.status = "active" /\ manifest.lease     \* mutant: the wrong comparison
Expired == manifest.status = "active" /\ ~manifest.lease

PlanExpiry(j) ==
    /\ plan[j] = "idle" /\ Expired
    /\ plan' = [plan EXCEPT ![j] = "planned"]
    /\ UNCHANGED <<files, locks, writing, seen, procs, env, past>>

ApplyExpiry(j) ==
    /\ plan[j] = "planned"
    /\ IF manifest.status = "active"
       THEN /\ plan' = [plan EXCEPT ![j] = "applying"]
            /\ writing' = [writing EXCEPT ![Main(j)] =
                              Write("lock", "failed", "lease-expired", manifest.done, 0)]
            /\ disturbed' = (disturbed \/ Busy(Procs \cup Janitors))
       ELSE plan' = [plan EXCEPT ![j] = "idle"] /\ UNCHANGED <<writing, disturbed>>
    /\ UNCHANGED <<files, locks, seen, procs, env, headLost, refused>>

Reconcile(j) == PlanExpiry(j) \/ ApplyExpiry(j)

(* state prune: the lineage is read, rewritten from what was read, and the *)
(* files of the runs that are no longer in it are deleted.                 *)
Prune ==
    /\ \/ /\ pruner = "idle" /\ recorded
          /\ pruner' = "read" /\ Fault
          /\ UNCHANGED <<manifest, log, torn, recorded, headLost, disturbed>>
       \/ /\ pruner = "read" /\ pruner' = "rewritten" /\ recorded' = FALSE
          /\ UNCHANGED <<manifest, log, torn, faults, headLost, disturbed>>
       \/ /\ pruner = "rewritten" /\ pruner' = "unlinked"
          /\ log' = <<>> /\ torn' = FALSE
          /\ headLost' = (headLost \/ \E w \in Writers : Step(w, "append") /\ seen[w] # <<>>)
          /\ disturbed' = TRUE
          /\ UNCHANGED <<manifest, recorded, faults>>
       \/ /\ pruner = "unlinked" /\ pruner' = "idle"
          /\ manifest' = NoManifest
          /\ UNCHANGED <<log, torn, recorded, faults, headLost, disturbed>>
    /\ UNCHANGED <<nextId, locks, writing, seen, procs, plan, refused>>

Next ==
    \/ \E w \in Writers : Writing(w) \/ TearEvent(w)
    \/ Begin
    \/ \E p \in Resumers : Resume(p)
    \/ \E p \in Procs : Working(p) \/ Heartbeat(p) \/ Kill(p)
    \/ \E j \in Janitors : Reconcile(j)
    \/ LeaseExpires
    \/ Prune

Spec == Init /\ [][Next]_vars

(* Threads run, commands end (every stage and probe has a deadline), time  *)
(* passes, and state reconcile is run again and again.                     *)
Fairness ==
    /\ \A w \in Writers : WF_vars(Writing(w))
    /\ \A p \in Procs : WF_vars(Working(p))
    /\ \A j \in Janitors : WF_vars(Reconcile(j))
    /\ WF_vars(LeaseExpires)

FairSpec == Spec /\ Fairness

-----------------------------------------------------------------------------
(* Type invariant: the manifest, the log, and what every writer and        *)
(* command is at.                                                          *)
TypeOK ==
    /\ manifest \in ManifestType
    /\ log \in Seq(EventType) /\ torn \in BOOLEAN /\ nextId \in Nat
    /\ manifestLock \in Writers \cup {Free} /\ logLock \in Writers \cup {Free}
    /\ writing \in [Writers -> WriteType]
    /\ seen \in [Writers -> Seq(EventType)]
    /\ at \in [Procs -> {"idle", "resume", "stage", "staging", "build", "packer", "built",
                         "probing", "checking", "rejected", "verified", "end", "dead"}]
    /\ done \in [Procs -> 0 .. Len(Stages)]
    /\ beats \in [Procs -> 0 .. MaxBeats]
    /\ plan \in [Janitors -> {"idle", "planned", "applying"}]
    /\ recorded \in BOOLEAN /\ pruner \in {"idle", "read", "rewritten", "unlinked"}
    /\ faults \in 0 .. MaxFaults
    /\ headLost \in BOOLEAN /\ disturbed \in BOOLEAN
    /\ refused \subseteq RunState \X RunState

(* verify_event_chain finds no failure in the log, whatever is killed,     *)
(* torn, refused or written at the same time; unless the log has lost its  *)
(* beginning to a torn first line, or to a prune in the middle of a write. *)
ChainVerifies == headLost \/ ChainFailures(log) = {}

(* The states in the log form a history that grows along the transitions.  *)
History == INSTANCE RunHistory WITH history <- [i \in DOMAIN log |-> log[i].to],
                                    whole <- ~headLost
ImplementsRunHistory == History!Spec

Logged(i) == i = 0 \/ \E e \in DOMAIN log : log[e].id = i

(* The log of a run that its manifest says is over ends in that state,     *)
(* unless it has refused it, and holds the event of the manifest's stamp.  *)
ManifestMatchesLog ==
    manifest.status \notin {"none", "active"} /\ ~disturbed
        /\ (\A w \in Writers : Step(w, "idle"))
    => /\ log # <<>>
       /\ State = Last(log).to \/ <<Last(log).to, State>> \in refused
       /\ Logged(manifest.stamp)

(* One invocation at a time, however often it is killed and resumed, only  *)
(* asks for transitions that the log accepts; but for a resume without     *)
(* --build of a run whose stages had passed, which is ready again.         *)
RefusesOnlyReady == refused \subseteq {<<"RETRYING", "READY">>}

(* cleanup-runs spares what a build or probe is using: as long as it has   *)
(* an instance, its run is active under an unexpired lease.                *)
LiveRunIsActive ==
    \A p \in Procs :
        at[p] \in {"packer", "probing", "checking"} /\ Step(Main(p), "idle") /\ ~disturbed
        => manifest.status = "active" /\ manifest.lease

(* state reconcile asks the log before it writes: of a run that was never  *)
(* resumed, it does not turn the manifest into an expired one when the log *)
(* says APPROVED, although it acts on a manifest it has read before;       *)
(* unless the event it wrote first was swallowed by a torn line.           *)
Resumed == \E p \in Resumers : at[p] # "idle"
ReconcileSparesApproved ==
    [][plan # plan' /\ manifest' # manifest /\ log # <<>> /\ Logged(manifest'.stamp)
       => Resumed \/ Last(log).to # "APPROVED"]_vars

(* A run left active by a dead or finished process is ended by state       *)
(* reconcile, and with a checkpoint can be resumed; unless the log's lock  *)
(* was left behind, or the log had already approved the run.               *)
Abandoned == manifest.status = "active" /\ ~Busy(Procs)
AbandonedIsEnded ==
    Abandoned ~> \/ ~Abandoned
                 \/ LogStuck
                 \/ log # <<>> /\ Last(log).to = "APPROVED"
=============================================================================
