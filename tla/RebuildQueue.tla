---------------------------- MODULE RebuildQueue ----------------------------
(***************************************************************************)
(* Rebuilding what became vulnerable.  An event (a new base image, a CVE)  *)
(* quarantines the affected artifacts and queues one rebuild request for   *)
(* each; workers claim the requests under a lease, run a handler (build,   *)
(* policy, distribute, promote), and settle, retry or give up.             *)
(*                                                                         *)
(* The queue is either a directory of request files or, with --state-db, a *)
(* table of SQLite that state-db migrate fills from those files.  The file *)
(* queue guards claims by one lock and each finish by another; the table   *)
(* does either in one transaction.  Which eligible request a worker gets   *)
(* first (path order, or least recently updated) is left open.             *)
(*                                                                         *)
(* Time appears as the steps Expire and RetryDue.  The directory locks are *)
(* those of ReleaseControl, without the takeover from a live owner: the    *)
(* file queue holds them for one read and one write.                       *)
(***************************************************************************)
EXTENDS Naturals, FiniteSets

CONSTANTS Requests,    \* request ids, one for each artifact that an event affects
          Workers,     \* worker ids
          Emitters,    \* processes that handle the event (the first, and its retries)
          NoWorker,
          NoRequest,
          Free, Dead,  \* a lock that nobody holds, and one whose owner was killed
          Backends,    \* "file", "db": where the queue may live
          MaxAttempts, \* --max-attempts
          MaxFaults,   \* bound on kills, failed writes, lock timeouts and migrations
          MaxOverruns, \* bound on leases that expire under a live handler
          Endless      \* TRUE: overruns have no bound, and attempts count up to MaxAttempts

ASSUME QueueAssumption ==
    /\ MaxAttempts \in Nat \ {0}
    /\ MaxFaults \in Nat /\ MaxOverruns \in Nat /\ Endless \in BOOLEAN
    /\ Backends \subseteq {"file", "db"}
    /\ NoWorker \notin Workers /\ NoRequest \notin Requests
    /\ Free # Dead /\ {Free, Dead} \cap (Workers \cup Emitters) = {}
    /\ {"claim", "event"} \cap Requests = {} /\ Workers \cap Emitters = {}

VARIABLES
    backend,     \* where this installation's queue lives
    req,         \* the requests in that queue
    filed,       \* requests written as files that wait for a migration
    lock,        \* the owner of each lock directory
    worker,      \* what each worker is doing
    emitter,     \* what each process that handles the event is doing
    quarantined, \* artifacts that were quarantined
    done,        \* the event's operation document is completed
    faults, overruns,
    claims,      \* history: claims of each request
    skipped      \* history: quarantined by a process that died before it queued the request

queue == <<req, filed>>
event == <<emitter, quarantined, done, skipped>>
vars  == <<backend, queue, lock, worker, event, faults, overruns, claims>>

Settled == {"succeeded", "dead_letter"}
Locks   == {"claim", "event"} \cup Requests

(* due: the lease has expired, or the time of the next attempt has come. *)
Request(status, attempt, owner) ==
    [status |-> status, attempt |-> attempt, owner |-> owner, due |-> FALSE]
Queued == Request("queued", 0, NoWorker)

RequestType == [status: {"absent", "queued", "running", "retry_wait"} \cup Settled,
                attempt: Nat, owner: Workers \cup {NoWorker}, due: BOOLEAN]
Overdue(q) == [status |-> q.status, attempt |-> q.attempt, owner |-> q.owner, due |-> TRUE]

Worker(phase, r, attempt, ok) == [pc |-> phase, req |-> r, attempt |-> attempt, ok |-> ok]
WorkerType == [pc: {"idle", "claim", "run", "finish", "write"},
               req: Requests \cup {NoRequest}, attempt: Nat, ok: BOOLEAN]
To(k, phase, ok) == Worker(phase, k.req, k.attempt, ok)
Waiting == Worker("idle", NoRequest, 0, FALSE)

Emitter(phase, todo, current) == [pc |-> phase, todo |-> todo, current |-> current]
EmitterType == [pc: {"idle", "fence", "next", "enqueue"}, todo: SUBSET Requests,
                current: Requests \cup {NoRequest}]
NoEvent == Emitter("idle", {}, NoRequest)

Init ==
    /\ backend \in Backends
    /\ req = [r \in Requests |-> Request("absent", 0, NoWorker)]
    /\ filed = {}
    /\ lock = [l \in Locks |-> Free]
    /\ worker = [w \in Workers |-> Waiting]
    /\ emitter = [e \in Emitters |-> NoEvent]
    /\ quarantined = {} /\ done = FALSE
    /\ faults = 0 /\ overruns = 0
    /\ claims = [r \in Requests |-> 0]
    /\ skipped = {}

At(w, phase)    == worker[w].pc = phase
Become(w, k)    == worker' = [worker EXCEPT ![w] = k]
Emitting(e, phase) == emitter[e].pc = phase
Turn(e, k)      == emitter' = [emitter EXCEPT ![e] = k]
Available(l)    == lock[l] \in {Free, Dead}
Take(l, p)      == Available(l) /\ lock' = [lock EXCEPT ![l] = p]
Drop(l)         == lock' = [lock EXCEPT ![l] = Free]
Fault           == faults < MaxFaults /\ faults' = faults + 1

-----------------------------------------------------------------------------
(* process_rebuild_event: the plan is made before the event is fenced.     *)

Plan(e) ==
    /\ Emitting(e, "idle") /\ ~done
    /\ Turn(e, Emitter("fence", Requests \ quarantined, NoRequest))
    /\ UNCHANGED <<backend, queue, lock, worker, quarantined, done, skipped, faults, overruns, claims>>

(* fenced_operation: a completed event is not processed again. *)
Fence(e) ==
    /\ Emitting(e, "fence")
    /\ \/ /\ done /\ Available("event")
          /\ Drop("event") /\ Turn(e, NoEvent)
       \/ /\ ~done
          /\ Take("event", e) /\ Turn(e, Emitter("next", emitter[e].todo, NoRequest))
    /\ UNCHANGED <<backend, queue, worker, quarantined, done, skipped, faults, overruns, claims>>

Quarantine(e, r) ==
    /\ Emitting(e, "next") /\ r \in emitter[e].todo
    /\ quarantined' = quarantined \cup {r}
    /\ Turn(e, Emitter("enqueue", emitter[e].todo \ {r}, r))
    /\ UNCHANGED <<backend, queue, lock, worker, done, skipped, faults, overruns, claims>>

(* The request file is written without a lock, over whatever is there. *)
Enqueue(e) ==
    /\ Emitting(e, "enqueue")
    /\ LET r == emitter[e].current
       IN IF backend = "file"
          THEN req' = [req EXCEPT ![r] = Queued] /\ UNCHANGED filed
          ELSE filed' = filed \cup {r} /\ UNCHANGED req
    /\ Turn(e, Emitter("next", emitter[e].todo, NoRequest))
    /\ UNCHANGED <<backend, lock, worker, quarantined, done, skipped, faults, overruns, claims>>

CompletedEarly(e) ==             \* mutant: the last request is left to later
    /\ emitter[e].pc \in {"next", "enqueue"} /\ emitter[e].todo = {}
    /\ done' = TRUE
    /\ Drop("event") /\ Turn(e, NoEvent)
    /\ UNCHANGED <<backend, queue, worker, quarantined, skipped, faults, overruns, claims>>

Completed(e) ==
    /\ Emitting(e, "next") /\ emitter[e].todo = {}
    /\ done' = TRUE
    /\ Drop("event") /\ Turn(e, NoEvent)
    /\ UNCHANGED <<backend, queue, worker, quarantined, skipped, faults, overruns, claims>>

(* The process is killed, or a write fails. *)
EmitterDies(e) ==
    /\ Fault
    /\ emitter[e].pc \in {"next", "enqueue"}
    /\ lock' \in {[lock EXCEPT !["event"] = l] : l \in {Free, Dead}}
    /\ skipped' = skipped \cup ({emitter[e].current} \ {NoRequest})
    /\ Turn(e, NoEvent)
    /\ UNCHANGED <<backend, queue, worker, quarantined, done, overruns, claims>>

(* state-db migrate: every request file replaces its row. *)
Migrate ==
    /\ backend = "db" /\ filed # {}
    /\ req' = [r \in Requests |-> IF r \in filed THEN Queued ELSE req[r]]
    /\ IF \E r \in filed : req[r].status # "absent" THEN Fault ELSE UNCHANGED faults
    /\ UNCHANGED <<backend, filed, lock, worker, event, overruns, claims>>

-----------------------------------------------------------------------------
(* Claims. *)

EligibleUnexpired(q) ==          \* mutant: the lease of a lost worker never ends
    q.status = "queued" \/ (q.status = "retry_wait" /\ q.due)

Eligible(q) ==
    q.status = "queued" \/ (q.status \in {"retry_wait", "running"} /\ q.due)

Count(n) == IF Endless /\ n >= MaxAttempts THEN n ELSE n + 1

Claimed(n, w) == Request("running", n, w)

ClaimRow(w, r) ==
    /\ backend = "db" /\ At(w, "idle") /\ Eligible(req[r])
    /\ LET n == Count(req[r].attempt)
       IN req' = [req EXCEPT ![r] = Claimed(n, w)] /\ Become(w, Worker("run", r, n, FALSE))
    /\ claims' = [claims EXCEPT ![r] = Count(@)]
    /\ UNCHANGED <<backend, filed, lock, event, faults, overruns>>

(* The file queue reads under the claim lock ... *)
ReadClaim(w, r) ==
    /\ backend = "file" /\ At(w, "idle") /\ Eligible(req[r])
    /\ Take("claim", w)
    /\ Become(w, Worker("claim", r, Count(req[r].attempt), FALSE))
    /\ UNCHANGED <<backend, queue, event, faults, overruns, claims>>

(* ... and writes what it has read, whatever was finished in between. *)
WriteClaim(w) ==
    /\ At(w, "claim")
    /\ LET r == worker[w].req
       IN /\ req' = [req EXCEPT ![r] = Claimed(worker[w].attempt, w)]
          /\ claims' = [claims EXCEPT ![r] = Count(@)]
    /\ Drop("claim")
    /\ Become(w, To(worker[w], "run", FALSE))
    /\ UNCHANGED <<backend, filed, event, faults, overruns>>

-----------------------------------------------------------------------------
(* The handler, and its outcome. *)

Handle(w, ok) ==
    /\ At(w, "run")
    /\ Become(w, To(worker[w], "finish", ok))
    /\ UNCHANGED <<backend, queue, lock, event, faults, overruns, claims>>

OwnedUnchecked(w) == TRUE        \* mutant: anybody may finish
Owned(w) == req[worker[w].req].owner = w

ExhaustedEarly(n) == n >= MaxAttempts - 1     \* mutant: off by one
Exhausted(n) == n >= MaxAttempts

Outcome(n, ok) ==
    IF ok THEN "succeeded" ELSE IF Exhausted(n) THEN "dead_letter" ELSE "retry_wait"

(* The document that the worker has claimed replaces the row. *)
FinishRow(w) ==
    /\ backend = "db" /\ At(w, "finish") /\ Owned(w)
    /\ LET k == worker[w]
       IN req' = [req EXCEPT ![k.req] = Request(Outcome(k.attempt, k.ok), k.attempt, w)]
    /\ Become(w, Waiting)
    /\ UNCHANGED <<backend, filed, lock, event, faults, overruns, claims>>

(* The file is read again under the lock of its path ... *)
ReadFinish(w) ==
    /\ backend = "file" /\ At(w, "finish") /\ Owned(w)
    /\ Take(worker[w].req, w)
    /\ Become(w, Worker("write", worker[w].req, req[worker[w].req].attempt, worker[w].ok))
    /\ UNCHANGED <<backend, queue, event, faults, overruns, claims>>

(* ... and what was read replaces it. *)
WriteFinish(w) ==
    /\ At(w, "write")
    /\ LET k == worker[w]
       IN /\ req' = [req EXCEPT ![k.req] = Request(Outcome(k.attempt, k.ok), k.attempt, w)]
          /\ Drop(k.req)
    /\ Become(w, Waiting)
    /\ UNCHANGED <<backend, filed, event, faults, overruns, claims>>

(* The request has another owner: the worker ends, and is started again. *)
Refused(w) ==
    /\ At(w, "finish") /\ ~Owned(w)
    /\ backend = "file" => Available(worker[w].req)
    /\ Become(w, Waiting)
    /\ UNCHANGED <<backend, queue, lock, event, faults, overruns, claims>>

(* A lock timeout or a failed write: process_one then records a success as *)
(* the failure "timed out", and a second error ends the worker.            *)
FinishError(w) ==
    /\ Fault
    /\ backend = "file" /\ worker[w].pc \in {"finish", "write"}
    /\ \/ Become(w, To(worker[w], "finish", FALSE))
       \/ Become(w, Waiting)
    /\ lock' = [l \in Locks |-> IF lock[l] = w THEN Free ELSE lock[l]]
    /\ UNCHANGED <<backend, queue, event, overruns, claims>>

WorkerDies(w) ==
    /\ Fault
    /\ ~At(w, "idle")
    /\ lock' = [l \in Locks |-> IF lock[l] = w THEN Dead ELSE lock[l]]
    /\ Become(w, Waiting)
    /\ UNCHANGED <<backend, queue, event, overruns, claims>>

-----------------------------------------------------------------------------
(* Time. *)

Working(r) == \E w \in Workers : worker[w].req = r /\ req[r].owner = w

Expire(r) ==
    /\ req[r].status = "running" /\ ~req[r].due /\ ~Working(r)
    /\ req' = [req EXCEPT ![r] = Overdue(req[r])]
    /\ UNCHANGED <<backend, filed, lock, worker, event, faults, overruns, claims>>

(* The lease, which nothing renews, ends before its owner has finished:    *)
(* in the handler, or once (never endlessly) in the moment after it.       *)
Overrun(r) ==
    /\ req[r].status = "running" /\ ~req[r].due /\ Working(r)
    /\ IF Endless THEN At(req[r].owner, "run") ELSE overruns < MaxOverruns
    /\ overruns' = IF Endless THEN overruns ELSE overruns + 1
    /\ req' = [req EXCEPT ![r] = Overdue(req[r])]
    /\ UNCHANGED <<backend, filed, lock, worker, event, faults, claims>>

RetryDue(r) ==
    /\ req[r].status = "retry_wait" /\ ~req[r].due
    /\ req' = [req EXCEPT ![r] = Overdue(req[r])]
    /\ UNCHANGED <<backend, filed, lock, worker, event, faults, overruns, claims>>

-----------------------------------------------------------------------------
Emit(e) == Plan(e) \/ Fence(e) \/ (\E r \in Requests : Quarantine(e, r)) \/ Enqueue(e) \/ Completed(e)

Work(w) ==
    \/ \E r \in Requests : ClaimRow(w, r) \/ ReadClaim(w, r)
    \/ WriteClaim(w) \/ (\E ok \in BOOLEAN : Handle(w, ok))
    \/ FinishRow(w) \/ ReadFinish(w) \/ WriteFinish(w) \/ Refused(w)

Clock(r) == Expire(r) \/ RetryDue(r)

Next ==
    \/ \E e \in Emitters : Emit(e) \/ EmitterDies(e)
    \/ \E w \in Workers : Work(w) \/ FinishError(w) \/ WorkerDies(w)
    \/ \E r \in Requests : Clock(r) \/ Overrun(r)
    \/ Migrate

Spec == Init /\ [][Next]_vars

(* Workers poll, handlers end (--timeout), and leases and delays run out. *)
Fairness ==
    /\ \A w \in Workers : WF_vars(Work(w))
    /\ \A r \in Requests : WF_vars(Clock(r))

FairSpec == Spec /\ Fairness

-----------------------------------------------------------------------------
(* Type invariant of the queue, its workers and the event; a running       *)
(* request names the worker that claimed it.                               *)
TypeOK ==
    /\ backend \in Backends
    /\ req \in [Requests -> RequestType]
    /\ \A r \in Requests : req[r].status = "running" => req[r].owner \in Workers
    /\ filed \subseteq Requests /\ quarantined \subseteq Requests /\ skipped \subseteq Requests
    /\ lock \in [Locks -> Workers \cup Emitters \cup {Free, Dead}]
    /\ worker \in [Workers -> WorkerType]
    /\ \A w \in Workers : ~At(w, "idle") => worker[w].req \in Requests
    /\ emitter \in [Emitters -> EmitterType]
    /\ \A e \in Emitters : Emitting(e, "enqueue") => emitter[e].current \in Requests
    /\ done \in BOOLEAN
    /\ faults \in 0 .. MaxFaults /\ overruns \in 0 .. MaxOverruns
    /\ claims \in [Requests -> Nat]

(* The table of SQLite is a lease queue: the result of a superseded claim  *)
(* is refused, and a settled request stays settled until it is migrated    *)
(* again.  The file queue makes no such promise.                           *)
LeaseView ==
    [r \in Requests |->
        IF backend = "db" THEN [status |-> req[r].status, attempt |-> req[r].attempt, owner |-> req[r].owner]
        ELSE [status |-> "absent", attempt |-> 0, owner |-> NoWorker]]
HeldView ==
    [w \in Workers |-> IF backend = "db" /\ ~At(w, "idle") THEN <<worker[w].req, worker[w].attempt>>
                       ELSE <<>>]
Abstract == INSTANCE LeaseQueue WITH lease <- LeaseView, held <- HeldView
ImplementsLeaseQueue == Abstract!Spec

(* In either queue, and although the file queue may overwrite one claim    *)
(* with an older one: a request is given up only after MaxAttempts claims. *)
DeadLetterIsEarned ==
    \A r \in Requests : req[r].status = "dead_letter" => claims[r] >= MaxAttempts

(* When the event is recorded as processed, every artifact it quarantined  *)
(* has a rebuild request, but for those whose process died in between.     *)
QuarantinedIsQueued ==
    done => \A r \in quarantined \ skipped : req[r].status # "absent" \/ r \in filed

(* While faults and overruns are finite, every request that reaches the    *)
(* queue is settled, and stays so.                                         *)
Settles ==
    \A r \in Requests : []<>(req[r].status \in {"absent"} \cup Settled)

(* Claimed: a claimed request is recovered after the loss of its worker,   *)
(* retried, and in the end succeeds or is moved to the dead letters.       *)
RecoveredOrDeadLettered ==
    \A r \in Requests : req[r].status = "running" ~> req[r].status \in Settled
=============================================================================
