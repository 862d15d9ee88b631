---------------------------- MODULE Distribution ----------------------------
(***************************************************************************)
(* Getting an image to where it is used.  Jobs (copy to a region, share    *)
(* with an account) wait in a SQLite table; workers claim them under       *)
(* quotas and leases, and `distribution execute` does the same work        *)
(* without a job.  SyncImages starts a copy that the cloud completes later:*)
(* it is recorded as a pending replica of the artifact, and the            *)
(* reconcilers (`reconcile-all`, `distribution reconcile`) find out whether*)
(* it became usable in time.  Any artifact may be withdrawn at any moment. *)
(*                                                                         *)
(* A replica is read and written under the artifact's lock, in one step;   *)
(* what was read before that, the plan of a copy and the snapshot of a     *)
(* reconciler, may be stale by then.  The mirror of an artifact and the    *)
(* fence of `distribution record` are those of ReleaseControl.             *)
(***************************************************************************)
EXTENDS Naturals, FiniteSets, Sequences

CONSTANTS K,            \* the artifacts, newest first, as the registry lists them
          Regions,      \* regions other than the source region
          NoRegion,
          Accounts,
          Jobs,         \* the jobs that may be queued
          NoJob,        \* what `distribution execute` works on
          Workers, NoWorker,
          Operators,    \* processes that run `distribution execute`
          Reconcilers,  \* processes that reconcile
          GlobalLimit, AccountLimit, RegionLimit,
          MaxAttempts,  \* --max-attempts
          MaxCopies,    \* bound on the copies of an artifact in a region
          MaxEvents     \* bound on what happens beside the queue and its reconciliation:
                        \* kills, failed calls, lost answers, lost copies, leases that
                        \* expire under a live worker, and commands given directly

Artifacts == 1 .. K

ASSUME DistributionAssumption ==
    /\ K \in Nat /\ MaxAttempts \in Nat \ {0}
    /\ {GlobalLimit, AccountLimit, RegionLimit} \subseteq Nat \ {0}
    /\ {MaxCopies, MaxEvents} \subseteq Nat
    /\ Jobs \subseteq [mode: {"sync", "share"}, art: Artifacts,
                       account: Accounts, region: Regions]
    /\ NoJob \notin Jobs /\ NoRegion \notin Regions
    /\ NoWorker \notin Workers /\ Workers \cap Operators = {}
    /\ IsFiniteSet(Workers) /\ IsFiniteSet(Jobs)

VARIABLES
    active,    \* artifacts that are not withdrawn
    replica,   \* each artifact's replica in each region
    shares,    \* the accounts that each artifact's document lists
    dropped,   \* history: those that a registration has taken out of it since
    copies,    \* the copies that the cloud has made, for each artifact and region
    granted,   \* the accounts an image is shared with in the cloud
    job,       \* the table: the columns of a row, and its document
    session,   \* what each worker and each operator is doing
    rec,       \* what each reconciler is doing
    events,    \* how many such things have happened
    overrun,   \* history: a lease has expired under a live worker
    raced,     \* history: replicas that two processes worked on at once
    forgotten  \* history: copies that a failed or superseding command gave up

registry == <<active, replica, shares, dropped>>
cloud    == <<copies, granted>>
history  == <<overrun, raced, forgotten>>
vars == <<registry, cloud, job, session, rec, events, history>>

Procs   == Workers \cup Operators
Settled == {"succeeded", "dead_letter"}

(* copy: which of the copies it names, 0 if the cloud gave no id.          *)
(* late: it has been pending for --timeout-minutes.                        *)
Replica(status, copy, late) == [status |-> status, copy |-> copy, late |-> late]
ReplicaType == [status: {"none", "pending", "ready", "failed"}, copy: Nat, late: BOOLEAN]
Missing == Replica("none", 0, FALSE)

CopyState == {"copying", "normal", "gone"}

(* A row's columns status and worker_id, whether its lease has expired, and *)
(* the document's own status, attempt and worker_id.                        *)
JobRow(status, owner, dstatus, attempt, last) ==
    [status |-> status, owner |-> owner, due |-> FALSE,
     dstatus |-> dstatus, attempt |-> attempt, last |-> last]
Statuses == {"absent", "queued", "running"} \cup Settled
RowType == [status: Statuses, owner: Workers \cup {NoWorker}, due: BOOLEAN,
            dstatus: Statuses, attempt: Nat, last: Workers \cup {NoWorker}]

Session(phase, j, attempt, a, R) ==
    [pc |-> phase, job |-> j, attempt |-> attempt, art |-> a, regions |-> R,
     got |-> [r \in Regions |-> 0], ok |-> FALSE]
SessionType == [pc: {"idle", "plan", "sync", "record", "share", "record-share", "finish"},
                job: Jobs \cup {NoJob}, attempt: Nat, art: Nat, regions: SUBSET Regions,
                got: [Regions -> Nat], ok: BOOLEAN]
NoSession == Session("idle", NoJob, 0, 0, {})

Cycle(phase, todo, a, R, seen) ==
    [pc |-> phase, todo |-> todo, art |-> a, regions |-> R, cur |-> NoRegion, seen |-> seen]
NothingSeen == [r \in Regions |-> Missing]
CycleType == [pc: {"idle", "next", "inspect", "write"}, todo: SUBSET Artifacts, art: Nat,
              regions: SUBSET Regions, cur: Regions \cup {NoRegion}, seen: [Regions -> ReplicaType]]
NoCycle == Cycle("idle", {}, 0, {}, NothingSeen)

Init ==
    /\ active = Artifacts
    /\ replica = [a \in Artifacts |-> [r \in Regions |-> Missing]]
    /\ shares = {} /\ dropped = {} /\ granted = {}
    /\ copies = [a \in Artifacts |-> [r \in Regions |-> <<>>]]
    /\ job = [j \in Jobs |-> JobRow("absent", NoWorker, "absent", 0, NoWorker)]
    /\ session = [p \in Procs |-> NoSession]
    /\ rec = [c \in Reconcilers |-> NoCycle]
    /\ events = 0 /\ overrun = FALSE
    /\ raced = {} /\ forgotten = {}

At(p, phase) == session[p].pc = phase
Become(p, s) == session' = [session EXCEPT ![p] = s]
To(s, phase) == [s EXCEPT !.pc = phase]
Concluded(s, ok) == [s EXCEPT !.pc = "finish", !.ok = ok]
Copying(s, R) == [s EXCEPT !.pc = "sync", !.regions = R]
Answered(s, got) == [s EXCEPT !.pc = "record", !.got = got]
Without(s, r) == [s EXCEPT !.regions = @ \ {r}]
Step(c, k) == rec' = [rec EXCEPT ![c] = k]
SetReplica(a, r, x) == replica' = [replica EXCEPT ![a][r] = x]
Event == events < MaxEvents /\ events' = events + 1

(* Who is working on a replica, from what it has read of it earlier. *)
Copier(p, a, r) ==
    session[p].pc \in {"sync", "record"} /\ session[p].art = a /\ r \in session[p].regions
Observer(c, a, r) ==
    rec[c].pc \in {"inspect", "write"} /\ rec[c].art = a /\ r \in rec[c].regions
Busy(a, r) ==
    (\E p \in Procs : Copier(p, a, r)) \/ \E c \in Reconcilers : Observer(c, a, r)
Races(a, R) == raced' = raced \cup {x \in {a} \X R : Busy(a, x[2])}

-----------------------------------------------------------------------------
(* The queue. *)

Enqueue(j) ==
    /\ job[j].status = "absent"
    /\ job' = [job EXCEPT ![j] = JobRow("queued", NoWorker, "queued", 0, NoWorker)]
    /\ UNCHANGED <<registry, cloud, session, rec, events, history>>

SweptNone(j) == job[j]           \* mutant: an expired lease is kept
(* Every claim first returns the rows whose lease has expired: the columns *)
(* change, the document does not.  A row that is returned was within the   *)
(* quotas with all the others, and is again: a claim that finds no job has *)
(* returned none.                                                          *)
Swept(j) ==
    IF job[j].status = "running" /\ job[j].due
    THEN [job[j] EXCEPT !.status = "queued", !.owner = NoWorker, !.due = FALSE]
    ELSE job[j]

Taken(rows, S) == Cardinality({i \in S : rows[i].status = "running"})
BelowOrAt(n, limit) == n <= limit     \* mutant: one job too many
Below(n, limit) == n < limit

(* The quotas are counted over the rows of the same transaction. *)
Quotas(rows, j) ==
    /\ Below(Taken(rows, Jobs), GlobalLimit)
    /\ Below(Taken(rows, {i \in Jobs : i.account = j.account}), AccountLimit)
    /\ Below(Taken(rows, {i \in Jobs : i.region = j.region}), RegionLimit)

Claimable(rows, j) == rows[j].status = "queued" /\ Quotas(rows, j)

Claim(w, j) ==
    /\ At(w, "idle")
    /\ LET rows == [i \in Jobs |-> Swept(i)]
           n    == rows[j].attempt + 1
       IN /\ Claimable(rows, j)
          /\ job' = [rows EXCEPT ![j] = JobRow("running", w, "running", n, w)]
          /\ Become(w, Session(IF j.mode = "sync" THEN "plan" ELSE "share", j, n, j.art, {j.region}))
    /\ UNCHANGED <<registry, cloud, rec, events, history>>

OwnedUnchecked(w, j) == TRUE          \* mutant: anybody may finish
Owned(w, j) == job[j].owner = w

Exhausted(n) == n >= MaxAttempts

Finish(w) ==
    /\ w \in Workers /\ At(w, "finish") /\ Owned(w, session[w].job)
    /\ LET s == session[w]
           status == IF s.ok THEN "succeeded" ELSE IF Exhausted(s.attempt) THEN "dead_letter" ELSE "queued"
       IN job' = [job EXCEPT ![s.job] = JobRow(status, NoWorker, status, s.attempt, w)]
    /\ Become(w, NoSession)
    /\ UNCHANGED <<registry, cloud, rec, events, history>>

(* The lease has changed hands: the error ends the worker, which is         *)
(* started again under another id.                                          *)
Refused(w) ==
    /\ w \in Workers /\ At(w, "finish") /\ ~Owned(w, session[w].job)
    /\ Become(w, NoSession)
    /\ UNCHANGED <<registry, cloud, job, rec, events, history>>

(* `distribution execute` beside the queue, and its end. *)
Execute(p, a, R) ==
    /\ p \in Operators /\ At(p, "idle") /\ Event
    /\ Become(p, Session("plan", NoJob, 0, a, R))
    /\ UNCHANGED <<registry, cloud, job, rec, history>>

ExecuteEnds(p) ==
    /\ p \in Operators /\ At(p, "finish")
    /\ Become(p, NoSession)
    /\ UNCHANGED <<registry, cloud, job, rec, events, history>>

-----------------------------------------------------------------------------
(* execute_distribution: plan, SyncImages, and one pending replica after    *)
(* the other.                                                               *)

NeedsCopyPending(x) == x.status # "ready"     \* mutant: a pending copy is started again
NeedsCopyReady(x) == x.status # "pending"     \* mutant: a ready replica is copied again
NeedsCopy(x) == x.status \notin {"ready", "pending"}

Plan(p) ==
    /\ At(p, "plan")
    /\ LET s == session[p]
           R == {r \in s.regions : NeedsCopy(replica[s.art][r])}
       IN \/ /\ s.art \in active /\ R # {}
             /\ Become(p, Copying(s, R)) /\ Races(s.art, R)
          \/ /\ s.art \notin active \/ R = {}
             /\ Become(p, Concluded(s, s.art \in active)) /\ UNCHANGED raced
    /\ UNCHANGED <<registry, cloud, job, rec, events, overrun, forgotten>>

CopiesStarted(a, R) ==
    /\ \A r \in R : Len(copies[a][r]) < MaxCopies
    /\ copies' = [copies EXCEPT ![a] =
                    [r \in Regions |-> IF r \in R THEN Append(@[r], "copying") ELSE @[r]]]
Newest(a, r) == Len(copies[a][r]) + 1
Forget(S) == forgotten' = forgotten \cup S

(* The answer may lack the ids of some copies. *)
Sync(p) ==
    /\ At(p, "sync")
    /\ LET s == session[p]
       IN /\ CopiesStarted(s.art, s.regions)
          /\ \E lost \in SUBSET s.regions :
                /\ IF lost = {} THEN UNCHANGED events ELSE Event
                /\ Become(p, Answered(s, [r \in Regions |-> IF r \in lost THEN 0 ELSE Newest(s.art, r)]))
                /\ Forget({<<s.art, r, Newest(s.art, r)>> : r \in lost})
    /\ UNCHANGED <<registry, granted, job, rec, overrun, raced>>

(* The call takes effect, its answer is lost, and _tc3_api calls again.     *)
SyncLost(p) ==
    /\ Event
    /\ At(p, "sync")
    /\ LET s == session[p]
       IN /\ CopiesStarted(s.art, s.regions)
          /\ Forget({<<s.art, r, Newest(s.art, r)>> : r \in s.regions})
    /\ UNCHANGED <<registry, granted, job, session, rec, overrun, raced>>

(* The cloud refuses when an image has as many copies as it may have.       *)
SyncRefused(p) ==
    /\ At(p, "sync")
    /\ \E r \in session[p].regions : Len(copies[session[p].art][r]) >= MaxCopies
    /\ Become(p, Concluded(session[p], FALSE))
    /\ UNCHANGED <<registry, cloud, job, rec, events, history>>

(* The copies that a process has started and not yet recorded. *)
InHand(p) ==
    IF At(p, "record")
    THEN {<<session[p].art, r, session[p].got[r]>> : r \in session[p].regions}
    ELSE {}

(* What a replica named before it was recorded again. *)
Superseded(a, r) == {<<a, r, replica[a][r].copy>>}

Record(p, r) ==
    /\ At(p, "record") /\ r \in session[p].regions
    /\ LET s == session[p]
       IN IF s.art \in active
          THEN /\ SetReplica(s.art, r, Replica("pending", s.got[r], FALSE))
               /\ IF replica[s.art][r].status = "failed"
                  THEN Forget(Superseded(s.art, r)) ELSE UNCHANGED forgotten
               /\ Become(p, IF s.regions = {r} THEN Concluded(s, TRUE) ELSE Without(s, r))
          ELSE /\ Forget(InHand(p)) /\ Become(p, Concluded(s, FALSE))
               /\ UNCHANGED replica
    /\ UNCHANGED <<active, shares, dropped, cloud, job, rec, events, overrun, raced>>

-----------------------------------------------------------------------------
(* share_artifact: the permission in the cloud, then the document. *)

Share(p) ==
    /\ At(p, "share")
    /\ LET s == session[p]
       IN \/ /\ s.art \in active
             /\ granted' = granted \cup {<<s.art, s.job.account>>}
             /\ Become(p, To(s, "record-share"))
          \/ /\ s.art \notin active
             /\ Become(p, Concluded(s, FALSE)) /\ UNCHANGED granted
    /\ UNCHANGED <<registry, copies, job, rec, events, history>>

RecordShare(p) ==
    /\ At(p, "record-share")
    /\ LET s == session[p]
       IN /\ shares' = shares \cup {<<s.art, s.job.account>>}
          /\ dropped' = dropped \ {<<s.art, s.job.account>>}
          /\ Become(p, Concluded(s, TRUE))
    /\ UNCHANGED <<active, replica, cloud, job, rec, events, history>>

(* A failed call, lock timeout or write; or the process is killed. *)
Raise(p) ==
    /\ Event
    /\ session[p].pc \in {"plan", "sync", "record", "share", "record-share"}
    /\ Forget(InHand(p))
    /\ Become(p, Concluded(session[p], FALSE))
    /\ UNCHANGED <<registry, cloud, job, rec, overrun, raced>>

Dies(p) ==
    /\ Event
    /\ ~At(p, "idle")
    /\ Forget(InHand(p))
    /\ Become(p, NoSession)
    /\ UNCHANGED <<registry, cloud, job, rec, overrun, raced>>

-----------------------------------------------------------------------------
(* Reconciliation. *)

Pending(a) == {r \in Regions : replica[a][r].status = "pending"}

(* reconcile-all looks once for the artifacts with a pending replica ... *)
StartCycle(c) ==
    /\ rec[c].pc = "idle"
    /\ LET todo == {a \in Artifacts : Pending(a) # {}}
       IN todo # {} /\ Step(c, Cycle("next", todo, 0, {}, NothingSeen))
    /\ UNCHANGED <<registry, cloud, job, session, events, history>>

(* ... and `distribution reconcile` at one. *)
ReconcileOne(c, a) ==
    /\ rec[c].pc = "idle" /\ Event
    /\ Step(c, Cycle("next", {a}, 0, {}, NothingSeen))
    /\ UNCHANGED <<registry, cloud, job, session, history>>

First(S) == CHOOSE a \in S : \A b \in S : a <= b

(* An artifact is read, and its pending replicas are gone through as read.  *)
(* One that was withdrawn ends the whole command.                           *)
Load(c) ==
    /\ rec[c].pc = "next" /\ rec[c].todo # {}
    /\ LET a == First(rec[c].todo)
           R == Pending(a)
       IN \/ /\ a \notin active
             /\ Step(c, NoCycle) /\ UNCHANGED raced
          \/ /\ a \in active
             /\ Step(c, Cycle(IF R = {} THEN "next" ELSE "inspect", rec[c].todo \ {a}, a, R, replica[a]))
             /\ Races(a, R)
    /\ UNCHANGED <<registry, cloud, job, session, events, overrun, forgotten>>

CycleEnds(c) ==
    /\ rec[c].pc = "next" /\ rec[c].todo = {}
    /\ Step(c, NoCycle)
    /\ UNCHANGED <<registry, cloud, job, session, events, history>>

StateOf(a, r, n) == IF n = 0 THEN "none" ELSE copies[a][r][n]

VerdictPatient(x, state) ==      \* mutant: the timeout is not looked at
    IF state = "normal" THEN "ready" ELSE "pending"
Verdict(x, state) ==
    IF state = "normal" THEN "ready" ELSE IF x.late THEN "failed" ELSE "pending"

(* DescribeImages; an image that the cloud does not know is an error, which *)
(* ends the whole command too, or it is not in the list.                    *)
Inspect(c, r) ==
    /\ rec[c].pc = "inspect" /\ r \in rec[c].regions
    /\ LET k == rec[c]
           x == k.seen[r]
           state == StateOf(k.art, r, x.copy)
           v == Verdict(x, state)
       IN \/ state = "gone" /\ Step(c, NoCycle)
          \/ Step(c, [k EXCEPT !.pc = "write", !.cur = r,
                               !.seen[r] = Replica(v, x.copy, v # "ready" /\ x.late)])
    /\ UNCHANGED <<registry, cloud, job, session, events, history>>

(* The replica as it was read, with the verdict, replaces what is there now.*)
(* It keeps the time the copy was started: what is late stays late.         *)
Aged(x, old) == [x EXCEPT !.late = x.status # "ready" /\ (@ \/ old.late)]

Write(c) ==
    /\ rec[c].pc = "write"
    /\ LET k == rec[c]
           R == k.regions \ {k.cur}
       IN IF k.art \in active
          THEN /\ SetReplica(k.art, k.cur, Aged(k.seen[k.cur], replica[k.art][k.cur]))
               /\ Step(c, Cycle(IF R = {} THEN "next" ELSE "inspect", k.todo, k.art, R, k.seen))
          ELSE UNCHANGED replica /\ Step(c, NoCycle)
    /\ UNCHANGED <<active, shares, dropped, cloud, job, session, events, history>>

(* A failed call or write, or a kill. *)
CycleFails(c) ==
    /\ Event
    /\ rec[c].pc # "idle"
    /\ Step(c, NoCycle)
    /\ UNCHANGED <<registry, cloud, job, session, history>>

(* `distribution record`: an operator names a copy that is there. *)
RecordReplica(a, r, n) ==
    /\ Event
    /\ a \in active
    /\ n \in 1 .. Len(copies[a][r]) /\ copies[a][r][n] = "normal"
    /\ replica[a][r].status # "ready"
    /\ SetReplica(a, r, Replica("ready", n, FALSE))
    /\ Forget(Superseded(a, r)) /\ Races(a, {r})
    /\ UNCHANGED <<active, shares, dropped, cloud, job, session, rec, overrun>>

-----------------------------------------------------------------------------
(* The registry, the cloud, and time. *)

Withdraw(a) ==
    /\ a \in active /\ Event
    /\ active' = active \ {a}
    /\ UNCHANGED <<replica, shares, dropped, cloud, job, session, rec, history>>

(* `registry rebuild` registers a release again: of the document that is    *)
(* there the status and the replicas are kept, the shares are not.          *)
Register(a) ==
    /\ shares' = {x \in shares : x[1] # a}
    /\ dropped' = dropped \cup (shares \ shares')
    /\ UNCHANGED <<active, replica, cloud, job, session, rec, events, history>>

CopyTurns(a, r, n, state) ==
    /\ n \in 1 .. Len(copies[a][r]) /\ copies[a][r][n] = "copying"
    /\ copies' = [copies EXCEPT ![a][r][n] = state]
    /\ UNCHANGED <<registry, granted, job, session, rec, history>>
CopyDone(a, r, n) == CopyTurns(a, r, n, "normal") /\ UNCHANGED events
CopyFails(a, r, n) == Event /\ CopyTurns(a, r, n, "gone")

Late(a, r) ==
    /\ replica[a][r].status = "pending" /\ ~replica[a][r].late
    /\ SetReplica(a, r, [replica[a][r] EXCEPT !.late = TRUE])
    /\ UNCHANGED <<active, shares, dropped, cloud, job, session, rec, events, history>>

LeaseEnds(j) ==
    /\ job[j].status = "running" /\ ~job[j].due
    /\ IF session[job[j].owner].job = j
       THEN Event /\ overrun' = TRUE
       ELSE UNCHANGED <<events, overrun>>
    /\ job' = [job EXCEPT ![j].due = TRUE]
    /\ UNCHANGED <<registry, cloud, session, rec, raced, forgotten>>

-----------------------------------------------------------------------------
Serve(p) ==
    \/ Plan(p) \/ Sync(p) \/ SyncRefused(p) \/ (\E r \in Regions : Record(p, r))
    \/ Share(p) \/ RecordShare(p)

Work(w) ==
    \/ (\E j \in Jobs : Claim(w, j)) \/ Serve(w) \/ Finish(w) \/ Refused(w)

Reconcile(c) ==
    \/ StartCycle(c) \/ Load(c) \/ CycleEnds(c) \/ (\E r \in Regions : Inspect(c, r)) \/ Write(c)

Environment ==
    \/ \E a \in Artifacts : Withdraw(a) \/ Register(a)
    \/ \E a \in Artifacts, r \in Regions :
          \/ Late(a, r)
          \/ \E n \in 1 .. MaxCopies : CopyDone(a, r, n) \/ CopyFails(a, r, n) \/ RecordReplica(a, r, n)

Next ==
    \/ \E j \in Jobs : Enqueue(j) \/ LeaseEnds(j)
    \/ \E w \in Workers : Work(w)
    \/ \E p \in Operators :
          Serve(p) \/ ExecuteEnds(p) \/ \E a \in Artifacts, R \in SUBSET Regions \ {{}} : Execute(p, a, R)
    \/ \E p \in Procs : SyncLost(p) \/ Raise(p) \/ Dies(p)
    \/ \E c \in Reconcilers :
          Reconcile(c) \/ CycleFails(c) \/ \E a \in Artifacts : ReconcileOne(c, a)
    \/ Environment

Spec == Init /\ [][Next]_vars

(* Workers poll and are restarted, reconcile-all repeats and is started    *)
(* again when an error has ended it, and leases and timeouts run out.      *)
(* Nothing is assumed of the cloud.                                        *)
Fairness ==
    /\ \A w \in Workers : WF_vars(Work(w))
    /\ \A c \in Reconcilers : WF_vars(Reconcile(c))
    /\ \A j \in Jobs : WF_vars(LeaseEnds(j))
    /\ \A a \in Artifacts, r \in Regions : WF_vars(Late(a, r))

FairSpec == Spec /\ Fairness

-----------------------------------------------------------------------------
(* Type invariant; what a process works on while it works.                 *)
TypeOK ==
    /\ active \subseteq Artifacts
    /\ replica \in [Artifacts -> [Regions -> ReplicaType]]
    /\ shares \cup dropped \subseteq Artifacts \X Accounts /\ granted \subseteq Artifacts \X Accounts
    /\ copies \in [Artifacts -> [Regions -> Seq(CopyState)]]
    /\ job \in [Jobs -> RowType]
    /\ \A j \in Jobs : job[j].status = "running" <=> job[j].owner \in Workers
    /\ session \in [Procs -> SessionType]
    /\ \A p \in Procs : ~At(p, "idle") => session[p].art \in Artifacts
    /\ \A w \in Workers : ~At(w, "idle") => session[w].job \in Jobs
    /\ rec \in [Reconcilers -> CycleType]
    /\ \A c \in Reconcilers : rec[c].pc \in {"inspect", "write"} => rec[c].art \in Artifacts
    /\ events \in 0 .. MaxEvents /\ overrun \in BOOLEAN
    /\ raced \subseteq Artifacts \X Regions
    /\ forgotten \subseteq Artifacts \X Regions \X Nat

(* The table is a lease queue: the result of a superseded claim is refused,*)
(* a settled job is final.  Seen from outside a job is what its document   *)
(* says; the sweep of an expired lease changes only the columns.           *)
LeaseView ==
    [j \in Jobs |->
        [status  |-> IF job[j].dstatus = "queued" /\ job[j].attempt > 0 THEN "retry_wait" ELSE job[j].dstatus,
         attempt |-> job[j].attempt, owner |-> job[j].last]]
HeldView ==
    [w \in Workers |-> IF At(w, "idle") THEN <<>> ELSE <<session[w].job, session[w].attempt>>]
Abstract == INSTANCE LeaseQueue WITH Requests <- Jobs, lease <- LeaseView, held <- HeldView
ImplementsLeaseQueue == Abstract!Spec

(* The quotas bound what the workers really do, and not only the rows, as  *)
(* long as no lease has expired under a worker.                            *)
InFlight(S) == Cardinality({w \in Workers : ~At(w, "idle") /\ session[w].job \in S})
InFlightWithinQuota ==
    ~overrun =>
        /\ InFlight(Jobs) <= GlobalLimit
        /\ \A j \in Jobs : /\ InFlight({i \in Jobs : i.account = j.account}) <= AccountLimit
                           /\ InFlight({i \in Jobs : i.region = j.region}) <= RegionLimit

(* A replica that is called ready is a usable image: the one whose state   *)
(* the cloud reported, whatever was recorded between the question and the  *)
(* answer.                                                                 *)
ReadyIsNormal ==
    \A a \in Artifacts, r \in Regions : replica[a][r].status = "ready" =>
        StateOf(a, r, replica[a][r].copy) = "normal"

(* A ready replica stays as it is, unless two processes once worked on it  *)
(* at the same time.                                                       *)
ReadyStays ==
    [][\A a \in Artifacts, r \in Regions :
          (replica[a][r].status = "ready" /\ <<a, r>> \notin raced')
              => replica'[a][r] = replica[a][r]]_vars

(* Every copy in the cloud is named by its replica or about to be, unless  *)
(* its answer was lost, its command failed, it failed and was superseded,  *)
(* or two processes worked on the replica at the same time.                *)
CopiesTracked ==
    \A a \in Artifacts, r \in Regions : <<a, r>> \notin raced =>
        \A n \in 1 .. Len(copies[a][r]) :
            \/ replica[a][r].copy = n \/ <<a, r, n>> \in forgotten
            \/ \E p \in Procs : <<a, r, n>> \in InHand(p)

(* A job that succeeded has left its result in the artifact's document: a  *)
(* replica of its region, or the account that the image is shared with,    *)
(* which is lost again only by a later registration of the artifact.       *)
SucceededIsRecorded ==
    \A j \in Jobs : job[j].status = "succeeded" =>
        IF j.mode = "sync" THEN replica[j.art][j.region].status # "none"
        ELSE <<j.art, j.account>> \in (shares \cup dropped) \cap granted

(* Every job is settled, although a worker that is refused ends.           *)
JobsSettle == \A j \in Jobs : job[j].status = "queued" ~> job[j].status \in Settled

(* A pending replica becomes ready or failed.  It may wait for ever behind *)
(* an artifact, itself or one listed before it, with a pending replica and *)
(* withdrawn, or whose copy the cloud does not know: either one ends every *)
(* cycle of the reconciliation.                                            *)
Blocks(b) ==
    /\ Pending(b) # {}
    /\ b \notin active \/ \E r \in Pending(b) : StateOf(b, r, replica[b][r].copy) = "gone"
PendingDecided ==
    \A a \in Artifacts, r \in Regions :
        replica[a][r].status = "pending" ~>
            (replica[a][r].status # "pending" \/ \E b \in 1 .. a : Blocks(b))
=============================================================================
