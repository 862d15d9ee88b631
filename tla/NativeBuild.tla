----------------------------- MODULE NativeBuild -----------------------------
(***************************************************************************)
(* The native build engine: one workdir, the cloud it builds in, and the   *)
(* janitor commands (`native reconcile`, `native sweep`) that may run at   *)
(* any moment beside a build.                                              *)
(*                                                                         *)
(* An executor process (native/executor.py, execute_build) runs one        *)
(* attempt at a time: a fresh run, or an explicit resume of an earlier     *)
(* one.  It may be killed between any two steps; what survives is the      *)
(* journal and the build record in the workdir, the private key file, the  *)
(* cloud resources, and the recovery marker inside the guest.              *)
(***************************************************************************)
EXTENDS Naturals, FiniteSets

CONSTANTS Runs,         \* run ids
          NoRun,        \* the run id of no run (an absent journal, another image's marker)
          Plans,        \* digests of compiled build specs
          NoPlan,       \* the digest of no plan
          N,            \* number of provisioners of every plan
          MaxAttempts,  \* bound on the number of executor processes
          Faults        \* the faults of the environment that are considered

ASSUME NativeAssumption ==
    /\ N \in Nat \ {0}
    /\ MaxAttempts \in Nat \ {0}
    /\ NoRun \notin Runs
    /\ NoPlan \notin Plans
    /\ Faults \subseteq {"signal", "expiry", "reclaim", "restart", "reinstall"}

VARIABLES
    ex,        \* the executor process, lost when it is killed
    hb,        \* the document the heartbeat thread holds under the journal lock
    journal,   \* native/journal.json
    record,    \* native/build-record.json
    keyfile,   \* the runs whose private key file is still on disk
    inst,      \* the state of each run's cloud instance
    lease,     \* the runs whose instance carries an expired lease tag
    key,       \* the state of each run's cloud key pair
    images,    \* the images in the cloud account
    guest,     \* the provisioners whose effect is on each run's guest disk
    marker,    \* the recovery marker on each run's guest disk
    started,   \* the attempt that started each run afresh, 0 before
    attempts,  \* number of executor processes so far
    jan        \* the janitor process

workdirVars == <<hb, journal, record, keyfile>>
guestVars   == <<guest, marker>>
cloudVars   == <<inst, lease, key, images>>
vars == <<ex, workdirVars, cloudVars, guestVars, started, attempts, jan>>

Provs    == 1..N
AnyRun   == Runs \cup {NoRun}
AnyPlan  == Plans \cup {NoPlan}
Ids      == 1..MaxAttempts          \* an image is named by the attempt that made it
Live(r)  == inst[r] \in {"running", "stopped"}
AllOf(p) == {<<p, k>> : k \in Provs}

JournalDoc == [run: AnyRun, plan: AnyPlan, inst: BOOLEAN, key: BOOLEAN,
               completed: SUBSET Provs]
NoJournal  == [run |-> NoRun, plan |-> NoPlan,
               inst |-> FALSE, key |-> FALSE, completed |-> {}]
Marker     == [run: AnyRun, plan: AnyPlan, completed: SUBSET Provs]
NoMarker   == [run |-> NoRun, plan |-> NoPlan, completed |-> {}]
(* What a source image built by this tool carries: the marker of its build. *)
ForeignMarker == [run |-> NoRun, plan |-> NoPlan, completed |-> Provs]

Phases == {"idle", "keypair", "journal-key", "launch", "journal-launch", "connect",
           "marker", "provision", "journal-provisioner", "write-marker", "stop",
           "create-image", "copy-images", "cleanup", "terminate", "teardown", "finish"}
InTry  == Phases \ {"idle", "cleanup", "terminate", "teardown", "finish"}
(* Phases whose work is Tencent API calls or SSH probes, which swallow and *)
(* retry every OSError, an interruption by a signal included.              *)
Swallowing == {"keypair", "launch", "connect", "stop", "create-image", "copy-images"}

Resource == {"instance", "keypair"}
Executor == [pc: Phases, run: AnyRun, plan: AnyPlan, resume: BOOLEAN, retain: BOOLEAN,
             active: BOOLEAN, inst: BOOLEAN, key: BOOLEAN, completed: SUBSET Provs,
             cur: 1..(N + 1), image: 0..MaxAttempts, ok: BOOLEAN,
             errs: SUBSET Resource, signal: BOOLEAN]
Attempt(phase, r, p, resume, keep) ==
    [pc |-> phase, run |-> r, plan |-> p, resume |-> resume, retain |-> keep,
     active |-> FALSE, inst |-> FALSE, key |-> FALSE, completed |-> {}, cur |-> 1,
     image |-> 0, ok |-> FALSE, errs |-> {}, signal |-> FALSE]
NoExec == Attempt("idle", NoRun, NoPlan, FALSE, FALSE)
Record == [attempt: 0..MaxAttempts, run: AnyRun, ok: BOOLEAN, image: 0..MaxAttempts,
           inst: BOOLEAN, key: BOOLEAN, retained: BOOLEAN, remaining: SUBSET Resource,
           signal: BOOLEAN]
NoRecord == [attempt |-> 0, run |-> NoRun, ok |-> FALSE, image |-> 0, inst |-> FALSE,
             key |-> FALSE, retained |-> FALSE, remaining |-> {}, signal |-> FALSE]
Janitor == [op: {"idle", "reconcile", "sweep"}, run: AnyRun, todo: SUBSET Runs,
            key: BOOLEAN, failed: BOOLEAN]
Job(op, r, todo, k) == [op |-> op, run |-> r, todo |-> todo, key |-> k, failed |-> FALSE]
NoJan   == Job("idle", NoRun, {}, FALSE)

Init ==
    /\ ex = NoExec
    /\ hb = NoJournal
    /\ journal = NoJournal
    /\ record = NoRecord
    /\ keyfile = {}
    /\ inst = [r \in Runs |-> "none"]
    /\ lease = {}
    /\ key = [r \in Runs |-> "none"]
    /\ images = {}
    /\ guest = [r \in Runs |-> {}]
    /\ marker = [r \in Runs |-> NoMarker]
    /\ started = [r \in Runs |-> 0]
    /\ attempts = 0
    /\ jan = NoJan

-----------------------------------------------------------------------------
(* The journal.  Every write reads the document, merges fields into it and *)
(* replaces the file under _JOURNAL_LOCK; the heartbeat thread holds the   *)
(* same lock from its read to its replace.                                 *)

JournalFreeUnlocked == TRUE     \* mutant: the heartbeat does not take the lock
JournalFree == hb = NoJournal

HeartbeatRead ==
    /\ ex.active
    /\ hb = NoJournal
    /\ journal # NoJournal
    /\ hb' = journal
    /\ UNCHANGED <<ex, journal, record, keyfile, cloudVars, guestVars, started, attempts, jan>>

HeartbeatWriteHolding ==        \* mutant: the lock is kept after the replace
    /\ hb # NoJournal
    /\ journal' = hb
    /\ UNCHANGED <<ex, hb, record, keyfile, cloudVars, guestVars, started, attempts, jan>>

HeartbeatWrite ==
    /\ hb # NoJournal
    /\ journal' = hb
    /\ hb' = NoJournal
    /\ UNCHANGED <<ex, record, keyfile, cloudVars, guestVars, started, attempts, jan>>

WriteJournal(doc) == JournalFree /\ journal' = doc /\ UNCHANGED hb

JournalOf(e, i) == [run |-> e.run, plan |-> e.plan, inst |-> i, key |-> TRUE,
                    completed |-> {}]
WithInstance(doc, i) == [doc EXCEPT !.inst = i]
WithCompleted(doc, k) == [doc EXCEPT !.completed = @ \cup {k}]

-----------------------------------------------------------------------------
(* The local state of execute_build, one assignment each. *)

At(phase)        == ex.pc = phase
Goto(e, phase)   == [e EXCEPT !.pc = phase]
Raised(e)        == Goto(e, "cleanup")
Holding(e, i, k) == [e EXCEPT !.inst = i, !.key = k]      \* instance_id, setup key
Journaling(e)    == [e EXCEPT !.active = TRUE]            \* journal_active
Completed(e, S)  == [e EXCEPT !.completed = S]            \* completed_set
NextCur(e)       == [e EXCEPT !.cur = @ + 1]
Imaged(e, id)    == [e EXCEPT !.image = id]
Succeeded(e)     == [e EXCEPT !.ok = TRUE]
Failed(e, res)   == [e EXCEPT !.errs = @ \cup {res}]      \* cleanup_errors
Signalled(e)     == [e EXCEPT !.signal = TRUE]

-----------------------------------------------------------------------------
(* Starting an attempt. *)

StartFresh(r, p, keep) ==
    /\ ex.pc = "idle" /\ attempts < MaxAttempts
    /\ started[r] = 0
    /\ ex' = Attempt("keypair", r, p, FALSE, keep)
    /\ attempts' = attempts + 1
    /\ started' = [started EXCEPT ![r] = attempts + 1]
    /\ UNCHANGED <<workdirVars, cloudVars, guestVars, jan>>

(* The identity of the journal against the identity of this attempt. *)
SameIdentity(doc, r, p) == doc.run = r /\ doc.plan = p

StartResume(r, p, keep) ==
    /\ ex.pc = "idle" /\ attempts < MaxAttempts
    /\ started[r] # 0
    /\ journal # NoJournal
    /\ LET e == Attempt("cleanup", r, p, TRUE, keep)
           held == Holding(e, journal.inst, journal.key)
       IN ex' = IF ~SameIdentity(journal, r, p)
                THEN e
                ELSE IF ~(journal.inst /\ journal.key /\ r \in keyfile)
                THEN held
                ELSE Goto(Completed(Journaling(held), journal.completed), "connect")
    /\ attempts' = attempts + 1
    /\ UNCHANGED <<workdirVars, cloudVars, guestVars, started, jan>>

-----------------------------------------------------------------------------
(* The body of execute_build.  Each action is one durable effect; e is the *)
(* executor's local state after it.  A call may take effect and still      *)
(* raise: its outcome is then the effect together with Raised(ex).         *)

SetupKeypair ==
    /\ At("keypair")
    /\ key' = [key EXCEPT ![ex.run] = "present"]
    /\ \/ /\ ex' = Goto(Holding(ex, FALSE, TRUE), "journal-key")
          /\ keyfile' = keyfile \cup {ex.run}
       \/ /\ ex' = Raised(ex)      \* imported, but the answer was lost
          /\ keyfile' = keyfile \cup {ex.run}
    /\ UNCHANGED <<hb, journal, record, inst, lease, images, guestVars, started, attempts, jan>>

JournalKeypair ==
    /\ At("journal-key")
    /\ WriteJournal(JournalOf(ex, FALSE))
    /\ ex' = Goto(Journaling(ex), "launch")
    /\ UNCHANGED <<record, keyfile, cloudVars, guestVars, started, attempts, jan>>

(* RunInstances under a run-scoped client token: at most one instance ever. *)
Launch ==
    /\ At("launch")
    /\ inst[ex.run] = "none"
    /\ inst' = [inst EXCEPT ![ex.run] = "running"]
    /\ \E m \in {NoMarker, ForeignMarker} : marker' = [marker EXCEPT ![ex.run] = m]
    /\ ex' \in {Goto(Holding(ex, TRUE, ex.key), "journal-launch"),
                Raised(Holding(ex, TRUE, ex.key)),   \* the phase budget is exhausted
                Raised(ex)}                          \* launched, but no answer came
    /\ UNCHANGED <<workdirVars, lease, key, images, guest, started, attempts, jan>>

JournalLaunch ==
    /\ At("journal-launch")
    /\ WriteJournal(JournalOf(ex, TRUE))
    /\ ex' = Goto(ex, "connect")
    /\ UNCHANGED <<record, keyfile, cloudVars, guestVars, started, attempts, jan>>

(* The phase waits for RUNNING and for SSH; nothing in it starts a stopped *)
(* instance.                                                               *)
Connect ==
    /\ At("connect")
    /\ inst[ex.run] = "running"
    /\ ex' = Goto(ex, IF ex.resume THEN "marker" ELSE "provision")
    /\ UNCHANGED <<workdirVars, cloudVars, guestVars, started, attempts, jan>>

AgreedCompletedLocal(e, m) == e.completed   \* mutant: the journal alone decides
AgreedCompletedNone(e, m) == {}             \* mutant: any difference reruns everything
AgreedCompleted(e, m) == e.completed \cap m.completed

ReadMarker ==
    /\ At("marker")
    /\ inst[ex.run] = "running"
    /\ LET m == marker[ex.run]
       IN ex' = IF m = NoMarker
                THEN Goto(Completed(ex, {}), "provision")
                ELSE IF ~SameIdentity(m, ex.run, ex.plan)
                THEN Raised(ex)
                ELSE Goto(Completed(ex, AgreedCompleted(ex, m)), "provision")
    /\ UNCHANGED <<workdirVars, cloudVars, guestVars, started, attempts, jan>>

SkipProvisioner ==
    /\ At("provision")
    /\ ex.cur \in ex.completed
    /\ ex' = NextCur(ex)
    /\ UNCHANGED <<workdirVars, cloudVars, guestVars, started, attempts, jan>>

RunProvisioner ==
    /\ At("provision")
    /\ ex.cur \in Provs \ ex.completed
    /\ inst[ex.run] = "running"
    /\ guest' = [guest EXCEPT ![ex.run] = @ \cup {<<ex.plan, ex.cur>>}]
    /\ ex' \in {Goto(ex, "journal-provisioner"), Raised(ex)}  \* or an ambiguous disconnect
    /\ UNCHANGED <<workdirVars, cloudVars, marker, started, attempts, jan>>

JournalProvisioner ==
    /\ At("journal-provisioner")
    /\ WriteJournal(WithCompleted(journal, ex.cur))
    /\ ex' = Goto(Completed(ex, ex.completed \cup {ex.cur}), "write-marker")
    /\ UNCHANGED <<record, keyfile, cloudVars, guestVars, started, attempts, jan>>

WriteMarker ==
    /\ At("write-marker")
    /\ inst[ex.run] = "running"
    /\ marker' = [marker EXCEPT ![ex.run] =
                    [run |-> ex.run, plan |-> ex.plan, completed |-> ex.completed]]
    /\ ex' \in {Goto(NextCur(ex), "provision"), Raised(ex)}
    /\ UNCHANGED <<workdirVars, cloudVars, guest, started, attempts, jan>>

StopInstance ==
    /\ At("provision")
    /\ ex.cur = N + 1
    /\ inst[ex.run] = "running"
    /\ inst' = [inst EXCEPT ![ex.run] = "stopped"]
    /\ ex' \in {Goto(ex, "create-image"), Raised(ex)}
    /\ UNCHANGED <<workdirVars, lease, key, images, guestVars, started, attempts, jan>>

NamedImages(S, r) == {i.id : i \in {j \in S : j.run = r}}

(* The candidates of an ambiguous CreateImage: the images of this name that *)
(* a later listing shows and an earlier one did not.                        *)
NewCandidatesAny(seen, existing) == seen    \* mutant: earlier images are adopted too
NewCandidates(seen, existing) == seen \ existing

CreateImage ==
    /\ At("create-image")
    /\ inst[ex.run] = "stopped"
    /\ LET new == [id |-> attempts, run |-> ex.run, content |-> guest[ex.run]]
           existing == NamedImages(images, ex.run)
           made(id) == Goto(Imaged(ex, id), "copy-images")
       IN \/ /\ images' = images \cup {new}
             /\ ex' \in {made(attempts), Raised(ex)}   \* or NORMAL is never observed
          \/ \* an ambiguous failure of the call, reconciled by listing the name
             /\ images' \in {images, images \cup {new}}
             /\ \E seen \in SUBSET NamedImages(images', ex.run) :
                    LET found == NewCandidates(seen, existing)
                    IN ex' = IF Cardinality(found) = 1
                             THEN made(CHOOSE i \in found : TRUE)
                             ELSE Raised(ex)
    /\ UNCHANGED <<workdirVars, inst, lease, key, guestVars, started, attempts, jan>>

CopyImages ==
    /\ At("copy-images")
    /\ ex' = Goto(Succeeded(ex), "cleanup")
    /\ UNCHANGED <<workdirVars, cloudVars, guestVars, started, attempts, jan>>

(* Any step of the body may raise before its effect: an API or SSH error, *)
(* an exhausted phase budget, a full disk, an interruption by a signal.   *)
RaiseError ==
    /\ ex.pc \in InTry
    /\ ex' = Raised(ex)
    /\ UNCHANGED <<workdirVars, cloudVars, guestVars, started, attempts, jan>>

SignalRaised ==
    /\ "signal" \in Faults
    /\ ex.pc \in InTry /\ ~ex.signal
    /\ ex' = Raised(Signalled(ex))
    /\ UNCHANGED <<workdirVars, cloudVars, guestVars, started, attempts, jan>>

SignalSwallowed ==
    /\ "signal" \in Faults
    /\ ex.pc \in Swallowing /\ ~ex.signal
    /\ ex' = Signalled(ex)
    /\ UNCHANGED <<workdirVars, cloudVars, guestVars, started, attempts, jan>>

-----------------------------------------------------------------------------
(* The finally block: signal handlers are the caller's again, so a signal  *)
(* from here on is an ordinary kill (Crash).                               *)

Retained(e) == e.inst /\ ~e.ok /\ e.retain

Cleanup ==
    /\ At("cleanup")
    /\ \/ /\ ex.active \/ ex.inst
          /\ WriteJournal(WithInstance(journal, ex.inst))
       \/ UNCHANGED <<hb, journal>>      \* a failing journal write is suppressed
    /\ ex' = Goto(ex, IF Retained(ex) THEN "finish"
                  ELSE IF ex.inst THEN "terminate" ELSE "teardown")
    /\ UNCHANGED <<record, keyfile, cloudVars, guestVars, started, attempts, jan>>

(* terminate(): the request, then polling until the instance is gone; ok   *)
(* says whether the caller got a verified answer.                          *)
Terminated(r, ok) ==
    \/ inst' = [inst EXCEPT ![r] = "gone"]
    \/ ~ok /\ UNCHANGED inst

(* teardown_keypair(): the cloud refuses to delete a key pair that is      *)
(* associated with a live instance; the local key goes in any case.        *)
KeyTornDown(r, ok) ==
    /\ keyfile' = keyfile \ {r}
    /\ \/ ~Live(r) /\ key' = [key EXCEPT ![r] = "deleted"]
       \/ ~ok /\ UNCHANGED key

TerminateUnrecorded ==          \* mutant: a failed termination is only logged
    /\ At("terminate")
    /\ \E ok \in BOOLEAN : Terminated(ex.run, ok)
    /\ ex' = Goto(ex, "teardown")
    /\ UNCHANGED <<workdirVars, lease, key, images, guestVars, started, attempts, jan>>

Terminate ==
    /\ At("terminate")
    /\ \E ok \in BOOLEAN :
        /\ Terminated(ex.run, ok)
        /\ ex' = Goto(IF ok THEN ex ELSE Failed(ex, "instance"), "teardown")
    /\ UNCHANGED <<workdirVars, lease, key, images, guestVars, started, attempts, jan>>

Teardown ==
    /\ At("teardown")
    /\ \/ /\ ex.key
          /\ \E ok \in BOOLEAN :
              /\ KeyTornDown(ex.run, ok)
              /\ ex' = Goto(IF ok THEN ex ELSE Failed(ex, "keypair"), "finish")
       \/ /\ ~ex.key
          /\ ex' = Goto(ex, "finish")
          /\ UNCHANGED <<keyfile, key>>
    /\ UNCHANGED <<hb, journal, record, inst, lease, images, guestVars, started, attempts, jan>>

(* Exit code 0 needs both the body's success and a complete cleanup. *)
ExitOkBody(e) == e.ok           \* mutant: cleanup errors do not change the exit code
ExitOk(e) == e.ok /\ e.errs = {}

BuildRecord(e) ==
    [attempt |-> attempts, run |-> e.run, ok |-> ExitOk(e), image |-> e.image,
     inst |-> e.inst, key |-> e.key, retained |-> Retained(e), remaining |-> e.errs,
     signal |-> e.signal]

Finish ==
    /\ At("finish")
    /\ JournalFree                        \* the heartbeat thread has been joined
    /\ record' \in {BuildRecord(ex), record}   \* a failing write is only logged
    /\ ex' = NoExec
    /\ UNCHANGED <<hb, journal, keyfile, cloudVars, guestVars, started, attempts, jan>>

(* The process is killed, or its host is lost. *)
Crash ==
    /\ ex.pc # "idle"
    /\ ex' = NoExec
    /\ hb' = NoJournal
    /\ UNCHANGED <<journal, record, keyfile, cloudVars, guestVars, started, attempts, jan>>

-----------------------------------------------------------------------------
(* The janitor commands with --apply.  Neither looks for a live executor.  *)

(* The key a reconcile may delete: a journal or a build record of the run. *)
KeyCandidate(r) ==
    IF journal.run = r THEN journal.key
    ELSE record.run = r /\ "keypair" \in record.remaining

Reconcile(r) ==
    /\ jan.op = "idle" /\ started[r] # 0
    /\ LET found == {q \in {r} : Live(q)}
           k == KeyCandidate(r) /\ key[r] = "present"
       IN /\ found # {} \/ k
          /\ jan' = Job("reconcile", r, found, k)
    /\ UNCHANGED <<ex, workdirVars, cloudVars, guestVars, started, attempts>>

SweepRunningOnly ==             \* mutant: stopped instances are not swept
    /\ jan.op = "idle"
    /\ LET expired == {r \in lease : inst[r] = "running"}
       IN /\ expired # {}
          /\ jan' = Job("sweep", NoRun, expired, FALSE)
    /\ UNCHANGED <<ex, workdirVars, cloudVars, guestVars, started, attempts>>

Sweep ==
    /\ jan.op = "idle"
    /\ LET expired == {r \in lease : Live(r)}
       IN /\ expired # {}
          /\ jan' = Job("sweep", NoRun, expired, FALSE)
    /\ UNCHANGED <<ex, workdirVars, cloudVars, guestVars, started, attempts>>

Answered(j, r, ok) == [j EXCEPT !.todo = @ \ {r}, !.failed = @ \/ ~ok]

JanTerminate(r) ==
    /\ r \in jan.todo
    /\ \E ok \in BOOLEAN :
        /\ Terminated(r, ok)
        /\ jan' = Answered(jan, r, ok)
    /\ UNCHANGED <<ex, workdirVars, lease, key, images, guestVars, started, attempts>>

(* The key goes last, and only when every instance is verified gone. *)
MayDeleteKey(j) == j.key /\ ~j.failed

JanFinish ==
    /\ jan.op # "idle" /\ jan.todo = {}
    /\ \/ /\ MayDeleteKey(jan)
          /\ \E ok \in BOOLEAN : KeyTornDown(jan.run, ok)
       \/ /\ ~MayDeleteKey(jan)
          /\ UNCHANGED <<keyfile, key>>
    /\ jan' = NoJan
    /\ UNCHANGED <<ex, hb, journal, record, inst, lease, images, guestVars, started, attempts>>

-----------------------------------------------------------------------------
(* The environment: time passes, a spot instance is reclaimed, a retained  *)
(* guest is reinstalled from the source image it was launched with.        *)

LeaseExpires(r) ==
    /\ "expiry" \in Faults
    /\ Live(r) /\ r \notin lease
    /\ ~(ex.run = r /\ ~ex.resume)   \* the lease outlasts the attempt that launched
    /\ lease' = lease \cup {r}
    /\ UNCHANGED <<ex, workdirVars, inst, key, images, guestVars, started, attempts, jan>>

Reclaimed(r) ==
    /\ "reclaim" \in Faults
    /\ Live(r)
    /\ inst' = [inst EXCEPT ![r] = "gone"]
    /\ UNCHANGED <<ex, workdirVars, lease, key, images, guestVars, started, attempts, jan>>

(* Nothing in the code starts a stopped instance; its operator may. *)
Restarted(r) ==
    /\ "restart" \in Faults
    /\ inst[r] = "stopped" /\ ex.run # r
    /\ inst' = [inst EXCEPT ![r] = "running"]
    /\ UNCHANGED <<ex, workdirVars, lease, key, images, guestVars, started, attempts, jan>>

Reinstalled(r) ==
    /\ "reinstall" \in Faults
    /\ Live(r) /\ ex.run # r
    /\ guest' = [guest EXCEPT ![r] = {}]
    /\ \E m \in {NoMarker, ForeignMarker} : marker' = [marker EXCEPT ![r] = m]
    /\ UNCHANGED <<ex, workdirVars, cloudVars, started, attempts, jan>>

-----------------------------------------------------------------------------
Body ==
    \/ SetupKeypair \/ JournalKeypair \/ Launch \/ JournalLaunch \/ Connect
    \/ ReadMarker \/ SkipProvisioner \/ RunProvisioner \/ JournalProvisioner
    \/ WriteMarker \/ StopInstance \/ CreateImage \/ CopyImages \/ RaiseError

ExecStep == Body \/ Cleanup \/ Terminate \/ Teardown \/ Finish

JanStep == (\E r \in Runs : JanTerminate(r)) \/ JanFinish

Next ==
    \/ \E r \in Runs, p \in Plans, keep \in BOOLEAN :
        StartFresh(r, p, keep) \/ StartResume(r, p, keep)
    \/ ExecStep \/ HeartbeatRead \/ HeartbeatWrite
    \/ SignalRaised \/ SignalSwallowed \/ Crash
    \/ (\E r \in Runs : Reconcile(r)) \/ Sweep \/ JanStep
    \/ \E r \in Runs : LeaseExpires(r) \/ Reclaimed(r) \/ Restarted(r) \/ Reinstalled(r)

Spec == Init /\ [][Next]_vars

(* Every phase of an executor has a deadline, so it goes on or raises; it  *)
(* competes with its heartbeat thread for the journal lock, which that     *)
(* thread takes once in 15 seconds.  The operator is assumed to run the    *)
(* sweep again and again, and the cloud to honour some termination.        *)
Collected(r) == JanTerminate(r) /\ ~Live(r)'

Fairness ==
    /\ SF_vars(ExecStep) /\ WF_vars(HeartbeatWrite)
    /\ WF_vars(Sweep) /\ WF_vars(JanStep)
    /\ \A r \in Runs : WF_vars(LeaseExpires(r)) /\ SF_vars(Collected(r))

FairSpec == Spec /\ Fairness

-----------------------------------------------------------------------------
(* Type invariant: what every variable of the engine may hold. *)
WorkdirTypeOK ==
    /\ hb \in JournalDoc /\ journal \in JournalDoc
    /\ record \in Record
    /\ keyfile \subseteq Runs
CloudTypeOK ==
    /\ inst \in [Runs -> {"none", "running", "stopped", "gone"}]
    /\ lease \subseteq Runs
    /\ key \in [Runs -> {"none", "present", "deleted"}]
    /\ images \subseteq [id: Ids, run: Runs, content: SUBSET (Plans \X Provs)]
GuestTypeOK ==
    /\ guest \in [Runs -> SUBSET (Plans \X Provs)]
    /\ marker \in [Runs -> Marker]
CountTypeOK ==
    /\ started \in [Runs -> 0..MaxAttempts]
    /\ attempts \in 0..MaxAttempts
TypeOK ==
    /\ ex \in Executor
    /\ WorkdirTypeOK /\ CloudTypeOK /\ GuestTypeOK /\ CountTypeOK
    /\ jan \in Janitor

(* A busy executor works on a known run and plan, and its provisioner is a *)
(* real one while a checkpoint for it is being written.                    *)
Control ==
    /\ ex.pc # "idle" => ex.run \in Runs /\ ex.plan \in Plans /\ attempts # 0
    /\ ex.pc \in {"journal-provisioner", "write-marker"} => ex.cur \in Provs

(* No image is ever cut from a guest on which some provisioner of one plan *)
(* has not run, however the attempts that led to it were interrupted,      *)
(* resumed, or their retained guest reinstalled in between.                *)
ImagesHardened == \A i \in images : \E p \in Plans : AllOf(p) \subseteq i.content

(* A resumed attempt never repeats a provisioner that both the journal and *)
(* the guest's own marker of this run record as completed.                 *)
NoReplay ==
    [][(ex.pc = "provision" /\ ex'.pc = "journal-provisioner") =>
         ~ /\ SameIdentity(journal, ex.run, ex.plan)
           /\ SameIdentity(marker[ex.run], ex.run, ex.plan)
           /\ ex.cur \in journal.completed \cap marker[ex.run].completed]_vars

(* While one attempt owns the journal no completed provisioner is ever     *)
(* forgotten: a heartbeat cannot write back a document that is older than  *)
(* a checkpoint.                                                           *)
JournalNeverForgets ==
    [][journal'.run = journal.run => /\ journal.completed \subseteq journal'.completed
                                     /\ journal.key => journal'.key]_vars

(* Once a run has an instance, its key pair is on record: the journal is   *)
(* the run's and names the key, or a later run has taken the workdir over. *)
KeyJournaledBeforeLaunch ==
    \A r \in Runs : inst[r] # "none" =>
        /\ journal.run \in Runs /\ journal.key
        /\ journal.run # r => started[journal.run] > started[r]

(* Exit code 0 means that an image exists and nothing billable or          *)
(* credential-bearing of the run is left in the cloud.                     *)
CleanExit ==
    record.ok => /\ \E i \in images : i.id = record.image /\ i.run = record.run
                 /\ ~Live(record.run)
                 /\ key[record.run] = "deleted"

(* After an attempt that was allowed to finish and wrote its record, a     *)
(* resource of the run that it knew of and did not retain is either gone   *)
(* or listed in that record as remaining.                                  *)
LeftoversListed ==
    (ex.pc = "idle" /\ record.attempt = attempts /\ attempts # 0 /\ ~record.retained) =>
        /\ (record.inst /\ Live(record.run)) => "instance" \in record.remaining
        /\ (record.key /\ key[record.run] = "present") => "keypair" \in record.remaining

(* The image an attempt reports is the one that this attempt created, also *)
(* when the outcome of the call was ambiguous and had to be reconciled.    *)
ReportsOwnImage ==
    ex.image # 0 => ex.image = attempts /\ \E i \in images : i.id = ex.image /\ i.run = ex.run

(* Every executor that is not killed ends: no phase, and no wait for the   *)
(* journal lock, holds it forever.                                         *)
ExecutorEnds == (ex.pc # "idle") ~> (ex.pc = "idle")

(* The lease bounds the life of a billable instance: whether its attempt   *)
(* was killed, failed to delete it or retained it, it does not live on.    *)
OrphansCollected == \A r \in Runs : Live(r) ~> ~Live(r)

(* Claimed: a signal takes the normal failure path.  An attempt that was   *)
(* interrupted by one does not report success.                             *)
SignalTakesFailurePath == record.signal => ~record.ok

(* Claimed: an instance retained for an explicit resume can be resumed,    *)
(* which waits for it to be RUNNING; so it was not left stopped.           *)
RetainedIsResumable ==
    (ex.pc = "idle" /\ record.attempt = attempts /\ record.retained)
        => inst[record.run] # "stopped"
=============================================================================
