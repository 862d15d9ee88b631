------------------------- MODULE RebuildQueueProofs -------------------------
(***************************************************************************)
(* Theorems about RebuildQueue, for any number of requests, workers and    *)
(* processes that handle the event, in either queue.                       *)
(***************************************************************************)
EXTENDS RebuildQueue, TLAPS

-----------------------------------------------------------------------------
(* The documents. *)

StatusSet == {"absent", "queued", "running", "retry_wait"} \cup Settled
OwnerSet  == Workers \cup {NoWorker}
WorkPhase == {"idle", "claim", "run", "finish", "write"}

LEMMA RequestFields ==
    ASSUME NEW st \in StatusSet, NEW n \in Nat, NEW o \in OwnerSet
    PROVE  /\ Request(st, n, o) \in RequestType
           /\ Request(st, n, o).status = st /\ Request(st, n, o).attempt = n
           /\ Request(st, n, o).owner = o
  BY DEF Request, RequestType, StatusSet, OwnerSet

LEMMA OverdueFields ==
    ASSUME NEW q \in RequestType
    PROVE  /\ Overdue(q) \in RequestType
           /\ Overdue(q).status = q.status /\ Overdue(q).attempt = q.attempt
           /\ Overdue(q).owner = q.owner
  BY DEF Overdue, RequestType

LEMMA QueuedFields ==
    /\ Queued \in RequestType /\ Queued.status = "queued" /\ Queued.attempt = 0
    /\ Queued.owner = NoWorker
  BY DEF Queued, Request, RequestType

LEMMA WorkerFields ==
    ASSUME NEW f \in WorkPhase, NEW r \in Requests \cup {NoRequest}, NEW n \in Nat, NEW ok \in BOOLEAN
    PROVE  /\ Worker(f, r, n, ok) \in WorkerType
           /\ Worker(f, r, n, ok).pc = f /\ Worker(f, r, n, ok).req = r
           /\ Worker(f, r, n, ok).attempt = n
  BY DEF Worker, WorkerType, WorkPhase

LEMMA ToFields ==
    ASSUME NEW k \in WorkerType, NEW f \in WorkPhase, NEW ok \in BOOLEAN
    PROVE  /\ To(k, f, ok) \in WorkerType
           /\ To(k, f, ok).pc = f /\ To(k, f, ok).req = k.req /\ To(k, f, ok).attempt = k.attempt
  BY DEF To, Worker, WorkerType, WorkPhase

LEMMA WaitingFields == Waiting \in WorkerType /\ Waiting.pc = "idle"
<1>. DEFINE no == FALSE
<1>1. no \in BOOLEAN /\ 0 \in Nat
  OBVIOUS
<1>2. Waiting = Worker("idle", NoRequest, 0, no)
  BY DEF Waiting
<1>. HIDE DEF no
<1>. QED BY <1>1, <1>2, WorkerFields DEF WorkPhase

LEMMA EmitterFields ==
    ASSUME NEW f \in {"idle", "fence", "next", "enqueue"}, NEW t \in SUBSET Requests,
           NEW c \in Requests \cup {NoRequest}
    PROVE  /\ Emitter(f, t, c) \in EmitterType
           /\ Emitter(f, t, c).pc = f /\ Emitter(f, t, c).todo = t /\ Emitter(f, t, c).current = c
  BY DEF Emitter, EmitterType

LEMMA NoEventFields == NoEvent \in EmitterType /\ NoEvent.pc = "idle"
  BY EmitterFields DEF NoEvent

LEMMA CountType == ASSUME NEW n \in Nat PROVE Count(n) \in Nat /\ Count(n) >= n /\ (n <= Count(n))
  BY DEF Count

LEMMA CountMonotone ==
    ASSUME NEW n \in Nat, NEW m \in Nat, n <= m
    PROVE  Count(n) <= Count(m)
  BY QueueAssumption DEF Count

LEMMA OutcomeCases ==
    ASSUME NEW n \in Nat, NEW ok
    PROVE  \/ Outcome(n, ok) = "succeeded"
           \/ Outcome(n, ok) = "retry_wait" /\ n < MaxAttempts
           \/ Outcome(n, ok) = "dead_letter" /\ n >= MaxAttempts
  BY QueueAssumption DEF Outcome, Exhausted

-----------------------------------------------------------------------------
(* What a worker's step does to the worker and to the requests. *)

(* Worker w's next local state is k and nobody else's changes. *)
LEMMA BecomeEffect ==
    ASSUME TypeOK, NEW w \in Workers, NEW k \in WorkerType, Become(w, k), k.pc # "idle" => k.req \in Requests
    PROVE  /\ worker' \in [Workers -> WorkerType] /\ worker'[w] = k
           /\ \A v \in Workers \ {w} : worker'[v] = worker[v]
           /\ \A v \in Workers : worker'[v].pc # "idle" => worker'[v].req \in Requests
  BY DEF Become, TypeOK, At

LEMMA TurnEffect ==
    ASSUME TypeOK, NEW e \in Emitters, NEW k \in EmitterType, Turn(e, k),
           k.pc = "enqueue" => k.current \in Requests
    PROVE  /\ emitter' \in [Emitters -> EmitterType] /\ emitter'[e] = k
           /\ \A d \in Emitters \ {e} : emitter'[d] = emitter[d]
           /\ \A d \in Emitters : emitter'[d].pc = "enqueue" => emitter'[d].current \in Requests
  BY DEF Turn, TypeOK, Emitting

(* Request r becomes the document q and no other changes. *)
LEMMA WriteEffect ==
    ASSUME TypeOK, NEW r \in Requests, NEW q \in RequestType, req' = [req EXCEPT ![r] = q],
           q.status = "running" => q.owner \in Workers
    PROVE  /\ req' \in [Requests -> RequestType] /\ req'[r] = q
           /\ \A s \in Requests \ {r} : req'[s] = req[s]
           /\ \A s \in Requests : req'[s].status = "running" => req'[s].owner \in Workers
  BY DEF TypeOK

LEMMA ClaimedFields ==
    ASSUME NEW w \in Workers, NEW n \in Nat
    PROVE  /\ Claimed(n, w) \in RequestType /\ Claimed(n, w).status = "running"
           /\ Claimed(n, w).attempt = n /\ Claimed(n, w).owner = w
  BY RequestFields DEF Claimed, StatusSet, OwnerSet

LEMMA ClaimRowEffect ==
    ASSUME TypeOK, NEW w \in Workers, NEW r \in Requests, ClaimRow(w, r)
    PROVE  LET n == Count(req[r].attempt)
           IN /\ n \in Nat
              /\ worker' \in [Workers -> WorkerType]
              /\ worker'[w].pc = "run" /\ worker'[w].req = r /\ worker'[w].attempt = n
              /\ \A v \in Workers \ {w} : worker'[v] = worker[v]
              /\ \A v \in Workers : worker'[v].pc # "idle" => worker'[v].req \in Requests
              /\ req' \in [Requests -> RequestType]
              /\ req'[r].status = "running" /\ req'[r].attempt = n /\ req'[r].owner = w
              /\ \A s \in Requests \ {r} : req'[s] = req[s]
              /\ \A s \in Requests : req'[s].status = "running" => req'[s].owner \in Workers
              /\ claims' = [claims EXCEPT ![r] = Count(claims[r])]
<1>. DEFINE n == Count(req[r].attempt)
            no == FALSE
            k == Worker("run", r, n, no)
            q == Claimed(n, w)
<1>1. n \in Nat /\ no \in BOOLEAN
  BY CountType DEF TypeOK, RequestType
<1>2. req' = [req EXCEPT ![r] = q] /\ Become(w, k) /\ claims' = [claims EXCEPT ![r] = Count(claims[r])]
  BY DEF ClaimRow
<1>. HIDE DEF n, no
<1>3. k \in WorkerType /\ k.pc = "run" /\ k.req = r /\ k.attempt = n
  BY <1>1, WorkerFields DEF WorkPhase
<1>4. q \in RequestType /\ q.status = "running" /\ q.attempt = n /\ q.owner = w
  BY <1>1, ClaimedFields
<1>. HIDE DEF k, q
<1>5. /\ worker' \in [Workers -> WorkerType] /\ worker'[w] = k
      /\ \A v \in Workers \ {w} : worker'[v] = worker[v]
      /\ \A v \in Workers : worker'[v].pc # "idle" => worker'[v].req \in Requests
  BY <1>2, <1>3, BecomeEffect
<1>6. /\ req' \in [Requests -> RequestType] /\ req'[r] = q
      /\ \A s \in Requests \ {r} : req'[s] = req[s]
      /\ \A s \in Requests : req'[s].status = "running" => req'[s].owner \in Workers
  BY <1>2, <1>4, WriteEffect
<1>. QED BY <1>1, <1>2, <1>3, <1>4, <1>5, <1>6 DEF n

(* What worker w has read is written with the claim. *)
LEMMA ReadClaimEffect ==
    ASSUME TypeOK, NEW w \in Workers, NEW r \in Requests, ReadClaim(w, r)
    PROVE  LET n == Count(req[r].attempt)
           IN /\ n \in Nat
              /\ worker' \in [Workers -> WorkerType]
              /\ worker'[w].pc = "claim" /\ worker'[w].req = r /\ worker'[w].attempt = n
              /\ \A v \in Workers \ {w} : worker'[v] = worker[v]
              /\ \A v \in Workers : worker'[v].pc # "idle" => worker'[v].req \in Requests
<1>. DEFINE n == Count(req[r].attempt)
            no == FALSE
            k == Worker("claim", r, n, no)
<1>1. n \in Nat /\ no \in BOOLEAN
  BY CountType DEF TypeOK, RequestType
<1>2. Become(w, k)
  BY DEF ReadClaim
<1>. HIDE DEF n, no
<1>3. k \in WorkerType /\ k.pc = "claim" /\ k.req = r /\ k.attempt = n
  BY <1>1, WorkerFields DEF WorkPhase
<1>. HIDE DEF k
<1>5. /\ worker' \in [Workers -> WorkerType] /\ worker'[w] = k
      /\ \A v \in Workers \ {w} : worker'[v] = worker[v]
      /\ \A v \in Workers : worker'[v].pc # "idle" => worker'[v].req \in Requests
  BY <1>2, <1>3, BecomeEffect
<1>. QED BY <1>1, <1>3, <1>5 DEF n

LEMMA WriteClaimEffect ==
    ASSUME TypeOK, NEW w \in Workers, WriteClaim(w)
    PROVE  LET r == worker[w].req
           IN /\ r \in Requests
              /\ worker' \in [Workers -> WorkerType]
              /\ worker'[w].pc = "run" /\ worker'[w].req = r /\ worker'[w].attempt = worker[w].attempt
              /\ \A v \in Workers \ {w} : worker'[v] = worker[v]
              /\ \A v \in Workers : worker'[v].pc # "idle" => worker'[v].req \in Requests
              /\ req' \in [Requests -> RequestType]
              /\ req'[r].status = "running" /\ req'[r].attempt = worker[w].attempt /\ req'[r].owner = w
              /\ \A s \in Requests \ {r} : req'[s] = req[s]
              /\ \A s \in Requests : req'[s].status = "running" => req'[s].owner \in Workers
              /\ claims' = [claims EXCEPT ![r] = Count(claims[r])]
<1>. DEFINE r == worker[w].req
            n == worker[w].attempt
            no == FALSE
            k == To(worker[w], "run", no)
            q == Claimed(n, w)
<1>1. /\ worker[w] \in WorkerType /\ r \in Requests /\ n \in Nat /\ no \in BOOLEAN
      /\ "run" \in WorkPhase
  BY DEF TypeOK, WorkerType, WriteClaim, At, WorkPhase
<1>2. req' = [req EXCEPT ![r] = q] /\ Become(w, k) /\ claims' = [claims EXCEPT ![r] = Count(claims[r])]
  BY DEF WriteClaim
<1>. HIDE DEF no
<1>3. k \in WorkerType /\ k.pc = "run" /\ k.req = r /\ k.attempt = n
  BY <1>1, ToFields
<1>4. q \in RequestType /\ q.status = "running" /\ q.attempt = n /\ q.owner = w
  BY <1>1, ClaimedFields
<1>. HIDE DEF k, q
<1>5. /\ worker' \in [Workers -> WorkerType] /\ worker'[w] = k
      /\ \A v \in Workers \ {w} : worker'[v] = worker[v]
      /\ \A v \in Workers : worker'[v].pc # "idle" => worker'[v].req \in Requests
  BY <1>1, <1>2, <1>3, BecomeEffect
<1>6. /\ req' \in [Requests -> RequestType] /\ req'[r] = q
      /\ \A s \in Requests \ {r} : req'[s] = req[s]
      /\ \A s \in Requests : req'[s].status = "running" => req'[s].owner \in Workers
  BY <1>1, <1>2, <1>4, WriteEffect
<1>. QED BY <1>1, <1>2, <1>3, <1>4, <1>5, <1>6

LEMMA HandleEffect ==
    ASSUME TypeOK, NEW w \in Workers, NEW ok \in BOOLEAN, Handle(w, ok)
    PROVE  /\ worker' \in [Workers -> WorkerType]
           /\ worker'[w].pc = "finish" /\ worker'[w].req = worker[w].req
           /\ worker'[w].attempt = worker[w].attempt
           /\ \A v \in Workers \ {w} : worker'[v] = worker[v]
           /\ \A v \in Workers : worker'[v].pc # "idle" => worker'[v].req \in Requests
<1>. DEFINE k == To(worker[w], "finish", ok)
<1>1. worker[w] \in WorkerType /\ worker[w].req \in Requests /\ "finish" \in WorkPhase /\ Become(w, k)
  BY DEF TypeOK, Handle, At, WorkPhase
<1>2. /\ k \in WorkerType /\ k.pc = "finish" /\ k.req = worker[w].req
      /\ k.attempt = worker[w].attempt
  BY <1>1, ToFields
<1>. HIDE DEF k
<1>. QED BY <1>1, <1>2, BecomeEffect

(* The result of the claimed attempt is recorded and the worker is idle.   *)
LEMMA SettleEffect ==
    ASSUME TypeOK, NEW w \in Workers, FinishRow(w) \/ WriteFinish(w)
    PROVE  LET r == worker[w].req
               n == worker[w].attempt
           IN /\ r \in Requests /\ n \in Nat
              /\ worker' \in [Workers -> WorkerType] /\ worker'[w].pc = "idle"
              /\ \A v \in Workers \ {w} : worker'[v] = worker[v]
              /\ \A v \in Workers : worker'[v].pc # "idle" => worker'[v].req \in Requests
              /\ req' \in [Requests -> RequestType]
              /\ \/ req'[r].status = "succeeded"
                 \/ req'[r].status = "retry_wait" /\ n < MaxAttempts
                 \/ req'[r].status = "dead_letter" /\ n >= MaxAttempts
              /\ req'[r].attempt = n /\ req'[r].owner = w
              /\ \A s \in Requests \ {r} : req'[s] = req[s]
              /\ \A s \in Requests : req'[s].status = "running" => req'[s].owner \in Workers
              /\ claims' = claims
<1>. DEFINE r == worker[w].req
            n == worker[w].attempt
            st == Outcome(n, worker[w].ok)
            q == Request(st, n, w)
<1>1. r \in Requests /\ n \in Nat
  BY DEF FinishRow, WriteFinish, TypeOK, WorkerType, At
<1>2. req' = [req EXCEPT ![r] = q] /\ Become(w, Waiting) /\ claims' = claims
  BY DEF FinishRow, WriteFinish
<1>. HIDE DEF n
<1>3. \/ st = "succeeded"
      \/ st = "retry_wait" /\ n < MaxAttempts
      \/ st = "dead_letter" /\ n >= MaxAttempts
  BY <1>1, OutcomeCases
<1>. HIDE DEF st
<1>4. st \in StatusSet /\ st # "running"
  BY <1>3 DEF StatusSet, Settled
<1>5. q \in RequestType /\ q.status = st /\ q.attempt = n /\ q.owner = w
  BY <1>1, <1>4, RequestFields DEF OwnerSet
<1>. HIDE DEF q
<1>6. /\ req' \in [Requests -> RequestType] /\ req'[r] = q
      /\ \A s \in Requests \ {r} : req'[s] = req[s]
      /\ \A s \in Requests : req'[s].status = "running" => req'[s].owner \in Workers
  BY <1>1, <1>2, <1>4, <1>5, WriteEffect
<1>7. /\ worker' \in [Workers -> WorkerType] /\ worker'[w] = Waiting
      /\ \A v \in Workers \ {w} : worker'[v] = worker[v]
      /\ \A v \in Workers : worker'[v].pc # "idle" => worker'[v].req \in Requests
  BY <1>2, WaitingFields, BecomeEffect
<1>8. /\ \/ req'[r].status = "succeeded"
         \/ req'[r].status = "retry_wait" /\ n < MaxAttempts
         \/ req'[r].status = "dead_letter" /\ n >= MaxAttempts
      /\ req'[r].attempt = n /\ req'[r].owner = w
  BY <1>3, <1>5, <1>6
<1>. QED BY <1>1, <1>2, <1>6, <1>7, <1>8, WaitingFields DEF n

LEMMA ReadFinishEffect ==
    ASSUME TypeOK, NEW w \in Workers, ReadFinish(w)
    PROVE  /\ worker' \in [Workers -> WorkerType]
           /\ worker'[w].pc = "write" /\ worker'[w].req = worker[w].req
           /\ worker'[w].attempt = req[worker[w].req].attempt
           /\ \A v \in Workers \ {w} : worker'[v] = worker[v]
           /\ \A v \in Workers : worker'[v].pc # "idle" => worker'[v].req \in Requests
<1>. DEFINE r == worker[w].req
            n == req[r].attempt
            ok == worker[w].ok
            k == Worker("write", r, n, ok)
<1>1. r \in Requests /\ n \in Nat /\ ok \in BOOLEAN /\ "write" \in WorkPhase /\ Become(w, k)
  BY DEF TypeOK, WorkerType, RequestType, ReadFinish, At, WorkPhase
<1>. HIDE DEF r, n, ok
<1>2. k \in WorkerType /\ k.pc = "write" /\ k.req = r /\ k.attempt = n
  BY <1>1, WorkerFields
<1>. HIDE DEF k
<1>3. /\ worker' \in [Workers -> WorkerType] /\ worker'[w] = k
      /\ \A v \in Workers \ {w} : worker'[v] = worker[v]
      /\ \A v \in Workers : worker'[v].pc # "idle" => worker'[v].req \in Requests
  BY <1>1, <1>2, BecomeEffect
<1>. QED BY <1>2, <1>3 DEF r, n

LEMMA IdleEffect ==
    ASSUME TypeOK, NEW w \in Workers, Become(w, Waiting)
    PROVE  /\ worker' \in [Workers -> WorkerType] /\ worker'[w].pc = "idle"
           /\ \A v \in Workers \ {w} : worker'[v] = worker[v]
           /\ \A v \in Workers : worker'[v].pc # "idle" => worker'[v].req \in Requests
  BY WaitingFields, BecomeEffect

(* A request whose time has come keeps its status, attempt and owner. *)
LEMMA DueEffect ==
    ASSUME TypeOK, NEW r \in Requests, req' = [req EXCEPT ![r] = Overdue(req[r])]
    PROVE  /\ req' \in [Requests -> RequestType]
           /\ \A s \in Requests : /\ req'[s].status = req[s].status
                                  /\ req'[s].attempt = req[s].attempt
                                  /\ req'[s].owner = req[s].owner
<1>. DEFINE q == Overdue(req[r])
<1>1. req[r] \in RequestType
  BY DEF TypeOK
<1>2. /\ q \in RequestType /\ q.status = req[r].status /\ q.attempt = req[r].attempt
      /\ q.owner = req[r].owner
  BY <1>1, OverdueFields
<1>3. req' = [req EXCEPT ![r] = q]
  OBVIOUS
<1>. HIDE DEF q
<1>. QED BY <1>2, <1>3 DEF TypeOK

-----------------------------------------------------------------------------
(* The event. *)

LEMMA TakeDrop ==
    ASSUME TypeOK, NEW l \in Locks, NEW p \in Workers \cup Emitters
    PROVE  /\ Take(l, p) => lock' \in [Locks -> Workers \cup Emitters \cup {Free, Dead}]
           /\ Drop(l)    => lock' \in [Locks -> Workers \cup Emitters \cup {Free, Dead}]
  BY DEF TypeOK, Take, Drop

(* Emitter e's next local state is typed and nobody else's changes. *)
LEMMA EmitEffect ==
    ASSUME TypeOK, NEW e \in Emitters, Emit(e)
    PROVE  /\ emitter' \in [Emitters -> EmitterType]
           /\ \A d \in Emitters \ {e} : emitter'[d] = emitter[d]
           /\ \A d \in Emitters : emitter'[d].pc = "enqueue" => emitter'[d].current \in Requests
           /\ Plan(e)  => emitter'[e].pc = "fence"
           /\ Fence(e) => \/ done /\ emitter'[e].pc = "idle"
                          \/ ~done /\ lock["event"] \in {Free, Dead} /\ lock' = [lock EXCEPT !["event"] = e]
                             /\ emitter'[e].pc = "next"
           /\ \A r \in Requests : Quarantine(e, r) => emitter'[e].pc = "enqueue" /\ emitter'[e].current = r
           /\ Enqueue(e)   => emitter'[e].pc = "next"
           /\ Completed(e) => emitter'[e].pc = "idle"
<1>. DEFINE todo == emitter[e].todo
            fence == Emitter("fence", Requests \ quarantined, NoRequest)
            next == Emitter("next", todo, NoRequest)
            enq(r) == Emitter("enqueue", todo \ {r}, r)
<1>1. todo \in SUBSET Requests /\ Requests \ quarantined \in SUBSET Requests
  BY DEF TypeOK, EmitterType
<1>2. fence \in EmitterType /\ fence.pc = "fence"
  BY <1>1, EmitterFields
<1>3. next \in EmitterType /\ next.pc = "next"
  BY <1>1, EmitterFields
<1>4. ASSUME NEW r \in Requests
      PROVE  enq(r) \in EmitterType /\ enq(r).pc = "enqueue" /\ enq(r).current = r
  <2>1. todo \ {r} \in SUBSET Requests
    BY <1>1
  <2>. HIDE DEF todo
  <2>. QED BY <2>1, EmitterFields
<1>5. /\ Plan(e) => Turn(e, fence)
      /\ Fence(e) => Turn(e, NoEvent) \/ Turn(e, next)
      /\ \A r \in Requests : Quarantine(e, r) => Turn(e, enq(r))
      /\ Enqueue(e) => Turn(e, next)
      /\ Completed(e) => Turn(e, NoEvent)
  BY DEF Plan, Fence, Quarantine, Enqueue, Completed
<1>6. Fence(e) => \/ done /\ Turn(e, NoEvent)
                  \/ ~done /\ lock["event"] \in {Free, Dead} /\ lock' = [lock EXCEPT !["event"] = e]
                     /\ Turn(e, next)
  BY DEF Fence, Take, Available
<1>. HIDE DEF fence, next, enq
<1>7. ASSUME NEW k \in EmitterType, Turn(e, k), k.pc = "enqueue" => k.current \in Requests
      PROVE  /\ emitter' \in [Emitters -> EmitterType] /\ emitter'[e] = k
             /\ \A d \in Emitters \ {e} : emitter'[d] = emitter[d]
             /\ \A d \in Emitters : emitter'[d].pc = "enqueue" => emitter'[d].current \in Requests
  BY <1>7, TurnEffect
<1>8. Emit(e) => \/ Turn(e, fence) \/ Turn(e, next) \/ Turn(e, NoEvent)
                 \/ \E r \in Requests : Turn(e, enq(r))
  BY <1>5 DEF Emit
<1>9. /\ Turn(e, fence) => emitter'[e] = fence
      /\ Turn(e, next) => emitter'[e] = next
      /\ Turn(e, NoEvent) => emitter'[e] = NoEvent
      /\ \A r \in Requests : Turn(e, enq(r)) => emitter'[e] = enq(r)
  BY DEF Turn, TypeOK
<1>10. /\ Plan(e)  => emitter'[e].pc = "fence"
       /\ Enqueue(e)   => emitter'[e].pc = "next"
       /\ Completed(e) => emitter'[e].pc = "idle"
  BY <1>2, <1>3, <1>5, <1>9, NoEventFields
<1>11. Fence(e) => \/ done /\ emitter'[e].pc = "idle"
                   \/ ~done /\ lock["event"] \in {Free, Dead} /\ lock' = [lock EXCEPT !["event"] = e]
                      /\ emitter'[e].pc = "next"
  BY <1>3, <1>6, <1>9, NoEventFields
<1>12. \A r \in Requests : Quarantine(e, r) => emitter'[e].pc = "enqueue" /\ emitter'[e].current = r
  BY <1>4, <1>5, <1>9
<1>13. /\ emitter' \in [Emitters -> EmitterType]
       /\ \A d \in Emitters \ {e} : emitter'[d] = emitter[d]
       /\ \A d \in Emitters : emitter'[d].pc = "enqueue" => emitter'[d].current \in Requests
  <2>1. CASE Turn(e, fence)
    BY <2>1, <1>2, <1>7
  <2>2. CASE Turn(e, next)
    BY <2>2, <1>3, <1>7
  <2>3. CASE Turn(e, NoEvent)
    BY <2>3, NoEventFields, <1>7
  <2>4. ASSUME NEW r \in Requests, Turn(e, enq(r))
        PROVE  /\ emitter' \in [Emitters -> EmitterType]
               /\ \A d \in Emitters \ {e} : emitter'[d] = emitter[d]
               /\ \A d \in Emitters : emitter'[d].pc = "enqueue" => emitter'[d].current \in Requests
    BY <2>4, <1>4, <1>7
  <2>. QED BY <1>8, <2>1, <2>2, <2>3, <2>4
<1>. QED BY <1>10, <1>11, <1>12, <1>13

LEMMA DeathEffect ==
    ASSUME TypeOK, NEW e \in Emitters, EmitterDies(e)
    PROVE  /\ emitter' \in [Emitters -> EmitterType] /\ emitter'[e].pc = "idle"
           /\ \A d \in Emitters \ {e} : emitter'[d] = emitter[d]
           /\ \A d \in Emitters : emitter'[d].pc = "enqueue" => emitter'[d].current \in Requests
           /\ lock' \in [Locks -> Workers \cup Emitters \cup {Free, Dead}]
           /\ \A l \in Locks \ {"event"} : lock'[l] = lock[l]
           /\ lock'["event"] \in {Free, Dead}
<1>1. Turn(e, NoEvent)
  BY DEF EmitterDies
<1>2. /\ lock' \in [Locks -> Workers \cup Emitters \cup {Free, Dead}]
      /\ \A l \in Locks \ {"event"} : lock'[l] = lock[l]
      /\ lock'["event"] \in {Free, Dead}
  <2>1. PICK l \in {Free, Dead} : lock' = [lock EXCEPT !["event"] = l]
    BY DEF EmitterDies
  <2>. QED BY <2>1 DEF TypeOK, Locks
<1>3. /\ emitter' \in [Emitters -> EmitterType] /\ emitter'[e] = NoEvent
      /\ \A d \in Emitters \ {e} : emitter'[d] = emitter[d]
      /\ \A d \in Emitters : emitter'[d].pc = "enqueue" => emitter'[d].current \in Requests
  BY <1>1, NoEventFields, TurnEffect
<1>. QED BY <1>2, <1>3, NoEventFields

-----------------------------------------------------------------------------
(* Type correctness. *)

LEMMA InitType == Init => TypeOK
<1>. SUFFICES ASSUME Init PROVE TypeOK
  OBVIOUS
<1>. DEFINE no == FALSE
            q == Request("absent", 0, NoWorker)
<1>1. q \in RequestType /\ q.status = "absent" /\ req = [r \in Requests |-> q]
  BY RequestFields DEF Init, StatusSet, OwnerSet
<1>. HIDE DEF q
<1>2. /\ req \in [Requests -> RequestType]
      /\ \A r \in Requests : req[r].status = "running" => req[r].owner \in Workers
  BY <1>1
<1>3. worker \in [Workers -> WorkerType] /\ \A w \in Workers : worker[w].pc = "idle"
  BY WaitingFields DEF Init
<1>4. emitter \in [Emitters -> EmitterType] /\ \A e \in Emitters : emitter[e].pc = "idle"
  BY NoEventFields DEF Init
<1>5. /\ backend \in Backends /\ filed \subseteq Requests /\ quarantined \subseteq Requests
      /\ skipped \subseteq Requests /\ lock \in [Locks -> Workers \cup Emitters \cup {Free, Dead}]
      /\ claims \in [Requests -> Nat] /\ faults \in 0 .. MaxFaults /\ overruns \in 0 .. MaxOverruns
  BY QueueAssumption DEF Init
<1>6. done \in BOOLEAN
  BY DEF Init
<1>. QED BY <1>2, <1>3, <1>4, <1>5, <1>6 DEF TypeOK, At, Emitting

(* The parts of TypeOK that concern the workers and the requests. *)
WorkType ==
    /\ req \in [Requests -> RequestType]
    /\ \A r \in Requests : req[r].status = "running" => req[r].owner \in Workers
    /\ worker \in [Workers -> WorkerType]
    /\ \A w \in Workers : ~At(w, "idle") => worker[w].req \in Requests
LockType == lock \in [Locks -> Workers \cup Emitters \cup {Free, Dead}]
EventType ==
    /\ emitter \in [Emitters -> EmitterType]
    /\ \A e \in Emitters : Emitting(e, "enqueue") => emitter[e].current \in Requests
    /\ filed \subseteq Requests /\ quarantined \subseteq Requests /\ skipped \subseteq Requests
RestType ==
    /\ backend \in Backends /\ done \in BOOLEAN
    /\ faults \in 0 .. MaxFaults /\ overruns \in 0 .. MaxOverruns
    /\ claims \in [Requests -> Nat]

LEMMA TypeParts ==
    ASSUME WorkType', LockType', EventType', RestType' PROVE TypeOK'
  BY DEF TypeOK, WorkType, LockType, EventType, RestType

LEMMA FaultType == ASSUME TypeOK, Fault PROVE faults' \in 0 .. MaxFaults
  BY QueueAssumption DEF Fault, TypeOK

LEMMA ClaimsType ==
    ASSUME TypeOK, NEW r \in Requests, claims' = [claims EXCEPT ![r] = Count(claims[r])]
    PROVE  /\ claims' \in [Requests -> Nat] /\ claims'[r] = Count(claims[r])
           /\ \A s \in Requests \ {r} : claims'[s] = claims[s]
           /\ \A s \in Requests : claims[s] <= claims'[s]
<1>1. claims \in [Requests -> Nat] /\ claims[r] \in Nat
  BY DEF TypeOK
<1>2. Count(claims[r]) \in Nat /\ claims[r] <= Count(claims[r])
  BY <1>1, CountType
<1>. QED BY <1>1, <1>2

(* One event process takes a step. *)
LEMMA EmitType == ASSUME TypeOK, NEW e \in Emitters, Emit(e) PROVE TypeOK'
<1>1. EventType'
  <2>1. /\ emitter' \in [Emitters -> EmitterType]
        /\ \A d \in Emitters : emitter'[d].pc = "enqueue" => emitter'[d].current \in Requests
    BY EmitEffect
  <2>2. filed' \subseteq Requests /\ quarantined' \subseteq Requests /\ skipped' \subseteq Requests
    <3>1. filed' = filed \/ \E r \in Requests : filed' = filed \cup {r}
      BY DEF TypeOK, Emit, Plan, Fence, Quarantine, Enqueue, Completed, Emitting, queue
    <3>2. quarantined' = quarantined \/ \E r \in Requests : quarantined' = quarantined \cup {r}
      BY DEF Emit, Plan, Fence, Quarantine, Enqueue, Completed
    <3>3. skipped' = skipped
      BY DEF Emit, Plan, Fence, Quarantine, Enqueue, Completed
    <3>. QED BY <3>1, <3>2, <3>3 DEF TypeOK
  <2>. QED BY <2>1, <2>2 DEF EventType, Emitting
<1>2. LockType'
  BY TakeDrop DEF LockType, TypeOK, Emit, Plan, Fence, Quarantine, Enqueue, Completed, Locks
<1>3. RestType'
  BY DEF RestType, TypeOK, Emit, Plan, Fence, Quarantine, Enqueue, Completed
<1>4. WorkType'
  <2>1. worker' = worker
    BY DEF Emit, Plan, Fence, Quarantine, Enqueue, Completed
  <2>2. /\ req' \in [Requests -> RequestType]
        /\ \A r \in Requests : req'[r].status = "running" => req'[r].owner \in Workers
    <3>1. CASE Enqueue(e)
      <4>1. emitter[e].current \in Requests /\ (req' = [req EXCEPT ![emitter[e].current] = Queued] \/ req' = req)
        BY <3>1 DEF Enqueue, TypeOK
      <4>. QED BY <4>1, QueuedFields, WriteEffect DEF TypeOK
    <3>2. CASE ~Enqueue(e)
      BY <3>2 DEF TypeOK, Emit, Plan, Fence, Quarantine, Completed, queue
    <3>. QED BY <3>1, <3>2
  <2>. QED BY <2>1, <2>2 DEF WorkType, TypeOK, At
<1>. QED BY <1>1, <1>2, <1>3, <1>4, TypeParts

LEMMA EmitterDiesType == ASSUME TypeOK, NEW e \in Emitters, EmitterDies(e) PROVE TypeOK'
<1>1. EventType'
  <2>1. filed' \subseteq Requests /\ quarantined' \subseteq Requests /\ skipped' \subseteq Requests
    BY DEF TypeOK, EmitterType, EmitterDies, queue
  <2>. QED BY <2>1, DeathEffect DEF EventType, Emitting
<1>2. LockType' /\ WorkType'
  BY DeathEffect DEF LockType, WorkType, TypeOK, EmitterDies, At, queue
<1>3. RestType'
  BY FaultType DEF RestType, TypeOK, EmitterDies
<1>. QED BY <1>1, <1>2, <1>3, TypeParts

LEMMA MigrateType == ASSUME TypeOK, Migrate PROVE TypeOK'
<1>1. WorkType'
  BY QueuedFields DEF WorkType, TypeOK, Migrate, At
<1>2. EventType' /\ LockType'
  BY DEF EventType, LockType, TypeOK, Migrate, event, Emitting
<1>3. RestType'
  BY FaultType DEF RestType, TypeOK, Migrate, event
<1>. QED BY <1>1, <1>2, <1>3, TypeParts

(* The event is untouched by what the workers do. *)
LEMMA WorkEvent == ASSUME TypeOK, UNCHANGED <<filed, event>> PROVE EventType' /\ done' \in BOOLEAN
  BY DEF EventType, TypeOK, event, Emitting

LEMMA WorkStepType == ASSUME TypeOK, NEW w \in Workers, Work(w) PROVE TypeOK'
<1>1. EventType' /\ done' \in BOOLEAN /\ backend' = backend /\ faults' = faults /\ overruns' = overruns
  BY WorkEvent DEF Work, ClaimRow, ReadClaim, WriteClaim, Handle, FinishRow, ReadFinish, WriteFinish, Refused, queue
<1>2. LockType'
  <2>1. \A l \in Locks : Take(l, w) \/ Drop(l) => LockType'
    BY TakeDrop DEF LockType
  <2>2. ~At(w, "idle") => worker[w].req \in Locks
    BY DEF TypeOK, Locks
  <2>3. Work(w) => UNCHANGED lock \/ (\E l \in Locks : Take(l, w) \/ Drop(l))
    BY <2>2 DEF Work, ClaimRow, ReadClaim, WriteClaim, Handle, FinishRow, ReadFinish, WriteFinish, Refused, At, Locks
  <2>. QED BY <2>1, <2>3 DEF LockType, TypeOK
<1>3. WorkType' /\ claims' \in [Requests -> Nat]
  <2>1. ASSUME NEW r \in Requests, ClaimRow(w, r) PROVE WorkType' /\ claims' \in [Requests -> Nat]
    <3>1. claims' = [claims EXCEPT ![r] = Count(claims[r])]
      BY <2>1, ClaimRowEffect
    <3>2. claims' \in [Requests -> Nat]
      BY <3>1, ClaimsType
    <3>. QED BY <2>1, <3>2, ClaimRowEffect DEF WorkType, At
  <2>2. ASSUME NEW r \in Requests, ReadClaim(w, r) PROVE WorkType' /\ claims' \in [Requests -> Nat]
    <3>1. req' = req /\ claims' = claims
      BY <2>2 DEF ReadClaim, queue
    <3>. QED BY <2>2, <3>1, ReadClaimEffect DEF WorkType, TypeOK, At
  <2>3. CASE WriteClaim(w)
    <3>1. worker[w].req \in Requests /\ claims' = [claims EXCEPT ![worker[w].req] = Count(claims[worker[w].req])]
      BY <2>3, WriteClaimEffect
    <3>2. claims' \in [Requests -> Nat]
      BY <3>1, ClaimsType
    <3>. QED BY <2>3, <3>2, WriteClaimEffect DEF WorkType, At
  <2>4. ASSUME NEW ok \in BOOLEAN, Handle(w, ok) PROVE WorkType' /\ claims' \in [Requests -> Nat]
    <3>1. req' = req /\ claims' = claims
      BY <2>4 DEF Handle, queue
    <3>. QED BY <2>4, <3>1, HandleEffect DEF WorkType, TypeOK, At
  <2>5. CASE FinishRow(w) \/ WriteFinish(w)
    BY <2>5, SettleEffect DEF WorkType, TypeOK, At
  <2>6. CASE ReadFinish(w)
    <3>1. req' = req /\ claims' = claims
      BY <2>6 DEF ReadFinish, queue
    <3>. QED BY <2>6, <3>1, ReadFinishEffect DEF WorkType, TypeOK, At
  <2>7. CASE Refused(w)
    <3>1. req' = req /\ claims' = claims /\ Become(w, Waiting)
      BY <2>7 DEF Refused, queue
    <3>. QED BY <3>1, IdleEffect DEF WorkType, TypeOK, At
  <2>. QED BY <2>1, <2>2, <2>3, <2>4, <2>5, <2>6, <2>7 DEF Work
<1>4. RestType'
  BY <1>1, <1>3 DEF RestType, TypeOK
<1>. QED BY <1>1, <1>2, <1>3, <1>4, TypeParts

(* The worker is killed, or an error ends its attempt to finish. *)
LEMMA WorkerFaultEffect ==
    ASSUME TypeOK, NEW w \in Workers, FinishError(w) \/ WorkerDies(w)
    PROVE  /\ req' = req /\ claims' = claims
           /\ worker' \in [Workers -> WorkerType]
           /\ \A v \in Workers \ {w} : worker'[v] = worker[v]
           /\ \A v \in Workers : worker'[v].pc # "idle" => worker'[v].req \in Requests
           /\ \/ worker'[w].pc = "idle"
              \/ /\ FinishError(w) /\ worker'[w].pc = "finish" /\ worker'[w].req = worker[w].req
                 /\ worker'[w].attempt = worker[w].attempt
           /\ lock' \in [Locks -> Workers \cup Emitters \cup {Free, Dead}]
           /\ \A l \in Locks : lock[l] \in Emitters => lock'[l] = lock[l]
<1>1. req' = req /\ claims' = claims
  BY DEF FinishError, WorkerDies, queue
<1>2. /\ lock' \in [Locks -> Workers \cup Emitters \cup {Free, Dead}]
      /\ \A l \in Locks : lock[l] \in Emitters => lock'[l] = lock[l]
  BY QueueAssumption DEF FinishError, WorkerDies, TypeOK
<1>. DEFINE no == FALSE
            k == To(worker[w], "finish", no)
<1>3. worker[w] \in WorkerType /\ no \in BOOLEAN /\ "finish" \in WorkPhase
  BY DEF TypeOK, WorkPhase
<1>4. Become(w, Waiting) \/ (FinishError(w) /\ Become(w, k) /\ worker[w].req \in Requests)
  BY DEF FinishError, WorkerDies, TypeOK, At
<1>. HIDE DEF no
<1>5. k \in WorkerType /\ k.pc = "finish" /\ k.req = worker[w].req /\ k.attempt = worker[w].attempt
  BY <1>3, ToFields
<1>. HIDE DEF k
<1>6. CASE Become(w, Waiting)
  BY <1>1, <1>2, <1>6, IdleEffect
<1>7. CASE FinishError(w) /\ Become(w, k) /\ worker[w].req \in Requests
  <2>1. /\ worker' \in [Workers -> WorkerType] /\ worker'[w] = k
        /\ \A v \in Workers \ {w} : worker'[v] = worker[v]
        /\ \A v \in Workers : worker'[v].pc # "idle" => worker'[v].req \in Requests
    BY <1>5, <1>7, BecomeEffect
  <2>. QED BY <1>1, <1>2, <1>5, <1>7, <2>1
<1>. QED BY <1>4, <1>6, <1>7

LEMMA WorkerFaultType ==
    ASSUME TypeOK, NEW w \in Workers, FinishError(w) \/ WorkerDies(w) PROVE TypeOK'
<1>1. EventType' /\ done' \in BOOLEAN /\ backend' = backend /\ overruns' = overruns
  BY WorkEvent DEF FinishError, WorkerDies, queue
<1>2. faults' \in 0 .. MaxFaults
  BY FaultType DEF FinishError, WorkerDies
<1>3. WorkType' /\ LockType' /\ claims' \in [Requests -> Nat]
  BY WorkerFaultEffect DEF WorkType, LockType, TypeOK, At
<1>4. RestType'
  BY <1>1, <1>2, <1>3 DEF RestType, TypeOK
<1>. QED BY <1>1, <1>3, <1>4, TypeParts

LEMMA ClockType == ASSUME TypeOK, NEW r \in Requests, Clock(r) \/ Overrun(r) PROVE TypeOK'
<1>1. EventType' /\ done' \in BOOLEAN /\ backend' = backend /\ faults' = faults
      /\ lock' = lock /\ worker' = worker /\ claims' = claims
  BY WorkEvent DEF Clock, Expire, RetryDue, Overrun
<1>2. overruns' \in 0 .. MaxOverruns
  BY QueueAssumption DEF TypeOK, Clock, Expire, RetryDue, Overrun
<1>3. req' = [req EXCEPT ![r] = Overdue(req[r])]
  BY DEF Clock, Expire, RetryDue, Overrun
<1>4. WorkType'
  BY <1>1, <1>3, DueEffect DEF WorkType, TypeOK, At
<1>5. RestType' /\ LockType'
  BY <1>1, <1>2 DEF RestType, LockType, TypeOK
<1>. QED BY <1>1, <1>4, <1>5, TypeParts

LEMMA TypeStep == TypeOK /\ [Next]_vars => TypeOK'
<1>. SUFFICES ASSUME TypeOK, [Next]_vars PROVE TypeOK'
  OBVIOUS
<1>1. CASE UNCHANGED vars
  BY <1>1 DEF vars, queue, event, TypeOK, At, Emitting
<1>2. ASSUME NEW e \in Emitters, Emit(e) \/ EmitterDies(e) PROVE TypeOK'
  BY <1>2, EmitType, EmitterDiesType
<1>3. ASSUME NEW w \in Workers, Work(w) \/ FinishError(w) \/ WorkerDies(w) PROVE TypeOK'
  BY <1>3, WorkStepType, WorkerFaultType
<1>4. ASSUME NEW r \in Requests, Clock(r) \/ Overrun(r) PROVE TypeOK'
  BY <1>4, ClockType
<1>5. CASE Migrate
  BY <1>5, MigrateType
<1>. QED BY <1>1, <1>2, <1>3, <1>4, <1>5 DEF Next

(* Every request, worker, lock and event process stays in its type, under  *)
(* every kill, failed write and overrun, in the file queue and the table.  *)
THEOREM TypeCorrect == Spec => []TypeOK
<1>1. Init => TypeOK
  BY InitType
<1>2. TypeOK /\ [Next]_vars => TypeOK'
  BY TypeStep
<1>. QED BY <1>1, <1>2, PTL DEF Spec

-----------------------------------------------------------------------------
(* Dead letters.  A document, and what a worker has read of one, never     *)
(* counts more attempts than there were claims: this is what survives when *)
(* a claim of the file queue overwrites what was finished meanwhile.       *)

ClaimInv ==
    /\ \A r \in Requests : /\ req[r].attempt <= claims[r]
                           /\ req[r].status = "dead_letter" => req[r].attempt >= MaxAttempts
    /\ \A w \in Workers :
          /\ worker[w].pc \in {"run", "finish", "write"} => worker[w].attempt <= claims[worker[w].req]
          /\ worker[w].pc = "claim" => worker[w].attempt <= Count(claims[worker[w].req])

LEMMA ClaimInvInit == Init => ClaimInv
<1>. SUFFICES ASSUME Init PROVE ClaimInv
  OBVIOUS
<1>1. 0 \in Nat /\ "absent" \in StatusSet /\ NoWorker \in OwnerSet
  BY DEF StatusSet, OwnerSet
<1>2. \A r \in Requests : req[r] = Request("absent", 0, NoWorker) /\ claims[r] = 0
  BY DEF Init
<1>3. \A r \in Requests : req[r].attempt = 0 /\ req[r].status = "absent"
  BY <1>1, <1>2, RequestFields
<1>4. \A w \in Workers : worker[w].pc = "idle"
  BY WaitingFields DEF Init
<1>. QED BY <1>2, <1>3, <1>4 DEF ClaimInv

(* Steps that leave the workers and the claims alone, and the attempts too *)
(* or reset them.                                                          *)
LEMMA ClaimInvReset ==
    ASSUME TypeOK, ClaimInv, worker' = worker, claims' = claims,
           \A r \in Requests : \/ req'[r].attempt = req[r].attempt /\ req'[r].status = req[r].status
                               \/ req'[r].attempt = 0 /\ req'[r].status = "queued"
    PROVE  ClaimInv'
<1>1. \A r \in Requests : claims[r] \in Nat
  BY DEF TypeOK
<1>. QED BY <1>1 DEF ClaimInv

(* Steps in which worker w forgets what it holds, or keeps it.             *)
LEMMA ClaimInvKeep ==
    ASSUME TypeOK, ClaimInv, req' = req, claims' = claims, NEW w \in Workers,
           \A v \in Workers \ {w} : worker'[v] = worker[v],
           \/ worker'[w].pc = "idle"
           \/ /\ worker'[w].pc \in {"run", "finish", "write"} /\ worker[w].pc \in {"run", "finish", "write"}
              /\ worker'[w].req = worker[w].req /\ worker'[w].attempt = worker[w].attempt
    PROVE  ClaimInv'
  BY DEF ClaimInv

(* A claim: one more of it is counted, and the document says so. *)
LEMMA ClaimInvClaim ==
    ASSUME TypeOK, ClaimInv, NEW w \in Workers, NEW r \in Requests, NEW n \in Nat,
           n <= Count(claims[r]),
           claims' = [claims EXCEPT ![r] = Count(claims[r])],
           req'[r].status = "running", req'[r].attempt = n,
           \A s \in Requests \ {r} : req'[s] = req[s],
           worker'[w].pc = "run", worker'[w].req = r, worker'[w].attempt = n,
           \A v \in Workers \ {w} : worker'[v] = worker[v]
    PROVE  ClaimInv'
<1>1. /\ claims'[r] = Count(claims[r]) /\ claims' \in [Requests -> Nat]
      /\ \A s \in Requests \ {r} : claims'[s] = claims[s]
      /\ \A s \in Requests : claims[s] <= claims'[s]
  BY ClaimsType
<1>2. \A s \in Requests : claims[s] \in Nat /\ req[s].attempt \in Nat
  BY DEF TypeOK, RequestType
<1>3. \A v \in Workers : worker[v].attempt \in Nat /\ (worker[v].pc # "idle" => worker[v].req \in Requests)
  BY DEF TypeOK, WorkerType, At
<1>4. \A s \in Requests : Count(claims[s]) <= Count(claims'[s]) /\ Count(claims[s]) \in Nat /\ Count(claims'[s]) \in Nat
  BY <1>1, <1>2, CountMonotone, CountType
<1>5. ASSUME NEW s \in Requests
      PROVE  req'[s].attempt <= claims'[s] /\ (req'[s].status = "dead_letter" => req'[s].attempt >= MaxAttempts)
  BY <1>1, <1>2, <1>5 DEF ClaimInv
<1>6. ASSUME NEW v \in Workers
      PROVE  /\ worker'[v].pc \in {"run", "finish", "write"} => worker'[v].attempt <= claims'[worker'[v].req]
             /\ worker'[v].pc = "claim" => worker'[v].attempt <= Count(claims'[worker'[v].req])
  <2>1. CASE v = w
    BY <1>1, <2>1
  <2>2. CASE v # w
    <3>1. worker'[v] = worker[v]
      BY <2>2
    <3>2. CASE worker[v].pc \in {"run", "finish", "write"}
      <4>1. worker[v].req \in Requests /\ worker[v].attempt <= claims[worker[v].req]
        BY <1>3, <3>2 DEF ClaimInv
      <4>. QED BY <1>1, <1>2, <1>3, <3>1, <3>2, <4>1
    <3>3. CASE worker[v].pc = "claim"
      <4>1. worker[v].req \in Requests /\ worker[v].attempt <= Count(claims[worker[v].req])
        BY <1>3, <3>3 DEF ClaimInv
      <4>. QED BY <1>3, <1>4, <3>1, <3>3, <4>1
    <3>. QED BY <3>1, <3>2, <3>3
  <2>. QED BY <2>1, <2>2
<1>. QED BY <1>5, <1>6 DEF ClaimInv, Count

LEMMA ClaimInvWork == ASSUME TypeOK, ClaimInv, NEW w \in Workers, Work(w) PROVE ClaimInv'
<1>1. ASSUME NEW r \in Requests, ClaimRow(w, r) PROVE ClaimInv'
  <2>. DEFINE n == Count(req[r].attempt)
  <2>1. req[r].attempt \in Nat /\ claims[r] \in Nat /\ req[r].attempt <= claims[r]
    BY DEF TypeOK, RequestType, ClaimInv
  <2>2. n <= Count(claims[r]) /\ n \in Nat
    BY <2>1, CountMonotone, CountType
  <2>. HIDE DEF n
  <2>3. /\ worker'[w].pc = "run" /\ worker'[w].req = r /\ worker'[w].attempt = n
        /\ \A v \in Workers \ {w} : worker'[v] = worker[v]
        /\ req'[r].status = "running" /\ req'[r].attempt = n
        /\ \A s \in Requests \ {r} : req'[s] = req[s]
        /\ claims' = [claims EXCEPT ![r] = Count(claims[r])]
    BY <1>1, ClaimRowEffect DEF n
  <2>. QED BY <2>2, <2>3, ClaimInvClaim
<1>2. ASSUME NEW r \in Requests, ReadClaim(w, r) PROVE ClaimInv'
  <2>. DEFINE n == Count(req[r].attempt)
  <2>1. req[r].attempt \in Nat /\ claims[r] \in Nat /\ req[r].attempt <= claims[r]
    BY DEF TypeOK, RequestType, ClaimInv
  <2>2. n <= Count(claims[r]) /\ n \in Nat
    BY <2>1, CountMonotone, CountType
  <2>3. /\ worker'[w].pc = "claim" /\ worker'[w].req = r /\ worker'[w].attempt = n
        /\ \A v \in Workers \ {w} : worker'[v] = worker[v]
    BY <1>2, ReadClaimEffect
  <2>4. req' = req /\ claims' = claims
    BY <1>2 DEF ReadClaim, queue
  <2>. HIDE DEF n
  <2>. QED BY <2>2, <2>3, <2>4 DEF ClaimInv, Count
<1>3. CASE WriteClaim(w)
  <2>. DEFINE r == worker[w].req
              n == worker[w].attempt
  <2>1. n \in Nat /\ n <= Count(claims[r])
    BY <1>3 DEF TypeOK, WorkerType, ClaimInv, WriteClaim, At
  <2>2. /\ r \in Requests
        /\ worker'[w].pc = "run" /\ worker'[w].req = r /\ worker'[w].attempt = n
        /\ \A v \in Workers \ {w} : worker'[v] = worker[v]
        /\ req'[r].status = "running" /\ req'[r].attempt = n
        /\ \A s \in Requests \ {r} : req'[s] = req[s]
        /\ claims' = [claims EXCEPT ![r] = Count(claims[r])]
    BY <1>3, WriteClaimEffect
  <2>. HIDE DEF r, n
  <2>. QED BY <2>1, <2>2, ClaimInvClaim
<1>4. ASSUME NEW ok \in BOOLEAN, Handle(w, ok) PROVE ClaimInv'
  <2>1. req' = req /\ claims' = claims /\ worker[w].pc = "run"
    BY <1>4 DEF Handle, queue, At
  <2>. QED BY <1>4, <2>1, HandleEffect, ClaimInvKeep
<1>5. CASE FinishRow(w) \/ WriteFinish(w)
  <2>. DEFINE r == worker[w].req
              n == worker[w].attempt
  <2>1. /\ r \in Requests /\ n \in Nat /\ claims' = claims
        /\ worker'[w].pc = "idle" /\ \A v \in Workers \ {w} : worker'[v] = worker[v]
        /\ \/ req'[r].status = "succeeded"
           \/ req'[r].status = "retry_wait" /\ n < MaxAttempts
           \/ req'[r].status = "dead_letter" /\ n >= MaxAttempts
        /\ req'[r].attempt = n
        /\ \A s \in Requests \ {r} : req'[s] = req[s]
    BY <1>5, SettleEffect
  <2>2. n <= claims[r]
    BY <1>5 DEF ClaimInv, FinishRow, WriteFinish, At
  <2>. HIDE DEF r, n
  <2>3. req'[r].status = "dead_letter" => n >= MaxAttempts
    BY <2>1
  <2>. QED BY <2>1, <2>2, <2>3 DEF ClaimInv
<1>6. CASE ReadFinish(w)
  <2>1. req' = req /\ claims' = claims /\ worker[w].req \in Requests
    BY <1>6 DEF ReadFinish, queue, TypeOK, At
  <2>2. /\ worker'[w].pc = "write" /\ worker'[w].req = worker[w].req
        /\ worker'[w].attempt = req[worker[w].req].attempt
        /\ \A v \in Workers \ {w} : worker'[v] = worker[v]
    BY <1>6, ReadFinishEffect
  <2>. QED BY <2>1, <2>2 DEF ClaimInv
<1>7. CASE Refused(w)
  <2>1. req' = req /\ claims' = claims /\ Become(w, Waiting)
    BY <1>7 DEF Refused, queue
  <2>. QED BY <2>1, IdleEffect, ClaimInvKeep
<1>. QED BY <1>1, <1>2, <1>3, <1>4, <1>5, <1>6, <1>7 DEF Work

(* What the event process, a migration and the clock do to the requests. *)
LEMMA RequestsReset ==
    ASSUME TypeOK,
           \/ \E e \in Emitters : Emit(e) \/ EmitterDies(e)
           \/ \E r \in Requests : Clock(r) \/ Overrun(r)
           \/ Migrate
    PROVE  /\ worker' = worker /\ claims' = claims
           /\ \A r \in Requests :
                 \/ /\ req'[r].attempt = req[r].attempt /\ req'[r].status = req[r].status
                    /\ req'[r].owner = req[r].owner
                 \/ req'[r].attempt = 0 /\ req'[r].status = "queued"
<1>1. ASSUME NEW e \in Emitters, Emit(e) \/ EmitterDies(e)
      PROVE  /\ worker' = worker /\ claims' = claims
             /\ \A r \in Requests : req'[r] = req[r] \/ req'[r] = Queued
  BY <1>1 DEF Emit, EmitterDies, Plan, Fence, Quarantine, Enqueue, Completed, queue, TypeOK
<1>2. ASSUME NEW r \in Requests, Clock(r) \/ Overrun(r)
      PROVE  /\ worker' = worker /\ claims' = claims
             /\ req' = [req EXCEPT ![r] = Overdue(req[r])]
  BY <1>2 DEF Clock, Expire, RetryDue, Overrun
<1>3. CASE Migrate
  BY <1>3, QueuedFields DEF Migrate
<1>4. CASE \E e \in Emitters : Emit(e) \/ EmitterDies(e)
  BY <1>1, <1>4, QueuedFields
<1>5. CASE \E r \in Requests : Clock(r) \/ Overrun(r)
  BY <1>2, <1>5, DueEffect
<1>. QED BY <1>3, <1>4, <1>5

LEMMA ClaimInvStep == TypeOK /\ ClaimInv /\ [Next]_vars => ClaimInv'
<1>. SUFFICES ASSUME TypeOK, ClaimInv, [Next]_vars PROVE ClaimInv'
  OBVIOUS
<1>1. CASE UNCHANGED vars
  BY <1>1 DEF vars, queue, ClaimInv, Count
<1>2. ASSUME NEW w \in Workers, Work(w) PROVE ClaimInv'
  BY <1>2, ClaimInvWork
<1>3. ASSUME NEW w \in Workers, FinishError(w) \/ WorkerDies(w) PROVE ClaimInv'
  <2>1. FinishError(w) => worker[w].pc \in {"finish", "write"}
    BY DEF FinishError
  <2>. QED BY <1>3, <2>1, WorkerFaultEffect, ClaimInvKeep
<1>4. CASE \/ \E e \in Emitters : Emit(e) \/ EmitterDies(e)
           \/ \E r \in Requests : Clock(r) \/ Overrun(r)
           \/ Migrate
  BY <1>4, RequestsReset, ClaimInvReset
<1>. QED BY <1>1, <1>2, <1>3, <1>4 DEF Next

(* A request is given up only after MaxAttempts claims of it, whatever the *)
(* two locks of the file queue let happen between a claim and a finish.    *)
THEOREM DeadLetters == Spec => []DeadLetterIsEarned
<1>1. Init => TypeOK /\ ClaimInv
  BY InitType, ClaimInvInit
<1>2. TypeOK /\ ClaimInv /\ [Next]_vars => TypeOK' /\ ClaimInv'
  BY TypeStep, ClaimInvStep
<1>3. TypeOK /\ ClaimInv => DeadLetterIsEarned
  <2>. SUFFICES ASSUME TypeOK, ClaimInv, NEW r \in Requests, req[r].status = "dead_letter"
                PROVE  claims[r] >= MaxAttempts
    BY DEF DeadLetterIsEarned
  <2>1. req[r].attempt \in Nat /\ claims[r] \in Nat /\ MaxAttempts \in Nat
    BY QueueAssumption DEF TypeOK, RequestType
  <2>2. req[r].attempt <= claims[r] /\ req[r].attempt >= MaxAttempts
    BY DEF ClaimInv
  <2>. QED BY <2>1, <2>2
<1>. QED BY <1>1, <1>2, <1>3, PTL DEF Spec

-----------------------------------------------------------------------------
(* The event.  Whoever is past the fence owns the event's lock, so the     *)
(* event is not completed; an artifact between its quarantine and its      *)
(* request is the one that an event process is working on.                 *)

EventInv ==
    /\ \A e \in Emitters : emitter[e].pc \in {"next", "enqueue"} => lock["event"] = e /\ ~done
    /\ \A r \in quarantined \ skipped :
          \/ req[r].status # "absent" \/ r \in filed
          \/ \E e \in Emitters : emitter[e].pc = "enqueue" /\ emitter[e].current = r

LEMMA EventInvInit == Init => EventInv
  BY NoEventFields DEF Init, EventInv

(* No step makes a request absent again. *)
LEMMA NeverAbsent ==
    ASSUME TypeOK, [Next]_vars, NEW r \in Requests, req[r].status # "absent"
    PROVE  req'[r].status # "absent"
<1>1. CASE UNCHANGED vars
  BY <1>1 DEF vars, queue
<1>2. ASSUME NEW w \in Workers, Work(w) PROVE req'[r].status # "absent"
  <2>1. ASSUME NEW s \in Requests, ClaimRow(w, s) PROVE req'[r].status # "absent"
    BY <2>1, ClaimRowEffect
  <2>2. CASE WriteClaim(w)
    BY <2>2, WriteClaimEffect
  <2>3. CASE FinishRow(w) \/ WriteFinish(w)
    BY <2>3, SettleEffect
  <2>4. CASE \/ \E s \in Requests : ReadClaim(w, s)
             \/ \E ok \in BOOLEAN : Handle(w, ok)
             \/ ReadFinish(w) \/ Refused(w)
    BY <2>4 DEF ReadClaim, Handle, ReadFinish, Refused, queue
  <2>. QED BY <1>2, <2>1, <2>2, <2>3, <2>4 DEF Work
<1>3. ASSUME NEW w \in Workers, FinishError(w) \/ WorkerDies(w) PROVE req'[r].status # "absent"
  BY <1>3 DEF FinishError, WorkerDies, queue
<1>4. CASE \/ \E e \in Emitters : Emit(e) \/ EmitterDies(e)
           \/ \E s \in Requests : Clock(s) \/ Overrun(s)
           \/ Migrate
  BY <1>4, RequestsReset
<1>. QED BY <1>1, <1>2, <1>3, <1>4 DEF Next

(* The workers, the clock and a migration leave the event alone. *)
LEMMA EventLock ==
    ASSUME TypeOK, [Next]_vars, ~\E e \in Emitters : Emit(e) \/ EmitterDies(e)
    PROVE  /\ event' = event /\ filed' = filed
           /\ lock["event"] \in Emitters => lock'["event"] = lock["event"]
<1>0. "event" \in Locks /\ "event" \notin Requests /\ Emitters \cap {Free, Dead} = {}
      /\ "claim" # "event"
  BY QueueAssumption DEF Locks
<1>1. CASE UNCHANGED vars
  BY <1>1 DEF vars, queue
<1>2. ASSUME NEW w \in Workers, Work(w)
      PROVE  /\ event' = event /\ filed' = filed
             /\ lock["event"] \in Emitters => lock'["event"] = lock["event"]
  <2>1. event' = event /\ filed' = filed
    BY <1>2 DEF Work, ClaimRow, ReadClaim, WriteClaim, Handle, FinishRow, ReadFinish, WriteFinish, Refused, queue
  <2>2. ~At(w, "idle") => worker[w].req # "event"
    BY <1>0 DEF TypeOK
  <2>3. Work(w) => UNCHANGED lock \/ (\E l \in Locks \ {"event"} : Take(l, w) \/ Drop(l))
    BY <1>0, <2>2 DEF Work, ClaimRow, ReadClaim, WriteClaim, Handle, FinishRow, ReadFinish,
       WriteFinish, Refused, At, Locks, TypeOK
  <2>4. ASSUME NEW l \in Locks \ {"event"}, Take(l, w) \/ Drop(l) PROVE lock'["event"] = lock["event"]
    BY <1>0, <2>4 DEF Take, Drop, TypeOK
  <2>. QED BY <1>2, <2>1, <2>3, <2>4
<1>3. ASSUME NEW w \in Workers, FinishError(w) \/ WorkerDies(w)
      PROVE  /\ event' = event /\ filed' = filed
             /\ lock["event"] \in Emitters => lock'["event"] = lock["event"]
  <2>1. event' = event /\ filed' = filed
    BY <1>3 DEF FinishError, WorkerDies, queue
  <2>. QED BY <1>0, <1>3, <2>1, WorkerFaultEffect
<1>4. ASSUME NEW r \in Requests, Clock(r) \/ Overrun(r)
      PROVE  event' = event /\ filed' = filed /\ lock' = lock
  BY <1>4 DEF Clock, Expire, RetryDue, Overrun
<1>5. CASE Migrate
  BY <1>5 DEF Migrate
<1>. QED BY <1>1, <1>2, <1>3, <1>4, <1>5 DEF Next

LEMMA EventInvStep == TypeOK /\ EventInv /\ [Next]_vars => EventInv'
<1>. SUFFICES ASSUME TypeOK, EventInv, [Next]_vars PROVE EventInv'
  OBVIOUS
<1>0. "event" \in Locks /\ Emitters \cap {Free, Dead} = {} /\ quarantined \subseteq Requests
  BY QueueAssumption DEF Locks, TypeOK
<1>1. CASE ~\E e \in Emitters : Emit(e) \/ EmitterDies(e)
  <2>1. /\ emitter' = emitter /\ quarantined' = quarantined /\ done' = done /\ skipped' = skipped
        /\ filed' = filed /\ (lock["event"] \in Emitters => lock'["event"] = lock["event"])
    BY <1>1, EventLock DEF event
  <2>. QED BY <1>0, <2>1, NeverAbsent DEF EventInv
<1>2. ASSUME NEW e \in Emitters, Emit(e) PROVE EventInv'
  <2>0. /\ \A d \in Emitters \ {e} : emitter'[d] = emitter[d]
        /\ skipped' = skipped /\ worker' = worker
    BY <1>2, EmitEffect DEF Emit, Plan, Fence, Quarantine, Enqueue, Completed
  <2>1. CASE Plan(e)
    <3>1. /\ UNCHANGED <<quarantined, done, lock, filed, req>>
          /\ emitter[e].pc = "idle" /\ emitter'[e].pc = "fence"
      BY <1>2, <2>1, EmitEffect DEF Plan, queue, Emitting
    <3>. QED BY <2>0, <3>1 DEF EventInv
  <2>2. CASE Fence(e)
    <3>1. /\ UNCHANGED <<quarantined, done, filed, req>> /\ emitter[e].pc = "fence"
      BY <2>2 DEF Fence, queue, Emitting
    <3>2. CASE done
      <4>1. emitter'[e].pc = "idle"
        BY <1>2, <2>2, <3>2, EmitEffect
      <4>2. \A d \in Emitters : emitter[d].pc \notin {"next", "enqueue"}
        BY <3>2 DEF EventInv
      <4>. QED BY <2>0, <3>1, <4>1, <4>2 DEF EventInv
    <3>3. CASE ~done
      <4>1. /\ lock["event"] \in {Free, Dead} /\ lock' = [lock EXCEPT !["event"] = e]
            /\ emitter'[e].pc = "next"
        BY <1>2, <2>2, <3>3, EmitEffect
      <4>2. lock'["event"] = e
        BY <1>0, <4>1 DEF TypeOK
      <4>3. \A d \in Emitters : emitter[d].pc \notin {"next", "enqueue"}
        BY <1>0, <4>1 DEF EventInv
      <4>. QED BY <2>0, <3>1, <3>3, <4>1, <4>2, <4>3 DEF EventInv
    <3>. QED BY <3>2, <3>3
  <2>3. ASSUME NEW r \in Requests, Quarantine(e, r) PROVE EventInv'
    <3>1. /\ UNCHANGED <<done, lock, filed, req>> /\ quarantined' = quarantined \cup {r}
          /\ emitter[e].pc = "next"
      BY <2>3 DEF Quarantine, queue, Emitting
    <3>2. emitter'[e].pc = "enqueue" /\ emitter'[e].current = r
      BY <1>2, <2>3, EmitEffect
    <3>. QED BY <2>0, <3>1, <3>2 DEF EventInv
  <2>4. CASE Enqueue(e)
    <3>1. /\ UNCHANGED <<done, lock, quarantined>> /\ emitter[e].pc = "enqueue"
          /\ emitter[e].current \in Requests
      BY <2>4 DEF Enqueue, Emitting, TypeOK
    <3>2. emitter'[e].pc = "next"
      BY <1>2, <2>4, EmitEffect
    <3>3. \/ req'[emitter[e].current] = Queued
          \/ emitter[e].current \in filed'
      BY <2>4, <3>1 DEF Enqueue, TypeOK
    <3>4. req'[emitter[e].current].status # "absent" \/ emitter[e].current \in filed'
      BY <3>3, QueuedFields
    <3>5. filed \subseteq filed'
      BY <2>4 DEF Enqueue
    <3>6. /\ \A d \in Emitters : emitter'[d].pc \in {"next", "enqueue"} => lock'["event"] = d /\ ~done'
      BY <2>0, <3>1, <3>2 DEF EventInv
    <3>7. ASSUME NEW r \in quarantined' \ skipped'
          PROVE  \/ req'[r].status # "absent" \/ r \in filed'
                 \/ \E d \in Emitters : emitter'[d].pc = "enqueue" /\ emitter'[d].current = r
      <4>1. r \in quarantined \ skipped /\ r \in Requests
        BY <1>0, <2>0, <3>1
      <4>2. CASE req[r].status # "absent" \/ r \in filed
        BY <3>5, <4>1, <4>2, NeverAbsent
      <4>3. ASSUME NEW d \in Emitters, emitter[d].pc = "enqueue", emitter[d].current = r
            PROVE  \/ req'[r].status # "absent" \/ r \in filed'
                   \/ \E c \in Emitters : emitter'[c].pc = "enqueue" /\ emitter'[c].current = r
        BY <2>0, <3>4, <4>3
      <4>. QED BY <4>1, <4>2, <4>3 DEF EventInv
    <3>. QED BY <3>6, <3>7 DEF EventInv
  <2>5. CASE Completed(e)
    <3>1. /\ UNCHANGED <<quarantined, filed, req>> /\ emitter[e].pc = "next"
      BY <2>5 DEF Completed, Emitting, queue
    <3>2. emitter'[e].pc = "idle"
      BY <1>2, <2>5, EmitEffect
    <3>3. \A d \in Emitters \ {e} : emitter[d].pc \notin {"next", "enqueue"}
      BY <3>1 DEF EventInv
    <3>. QED BY <2>0, <3>1, <3>2, <3>3 DEF EventInv
  <2>. QED BY <1>2, <2>1, <2>2, <2>3, <2>4, <2>5 DEF Emit
<1>3. ASSUME NEW e \in Emitters, EmitterDies(e) PROVE EventInv'
  <2>1. /\ UNCHANGED <<quarantined, done, filed, req>>
        /\ skipped' = skipped \cup ({emitter[e].current} \ {NoRequest})
        /\ emitter[e].pc \in {"next", "enqueue"}
    BY <1>3 DEF EmitterDies, queue
  <2>2. emitter'[e].pc = "idle" /\ \A d \in Emitters \ {e} : emitter'[d] = emitter[d]
    BY <1>3, DeathEffect
  <2>3. \A d \in Emitters \ {e} : emitter[d].pc \notin {"next", "enqueue"}
    BY <2>1 DEF EventInv
  <2>4. \A r \in Requests : emitter[e].current = r => r \in skipped'
    BY <2>1, QueueAssumption
  <2>. QED BY <1>0, <2>1, <2>2, <2>3, <2>4 DEF EventInv
<1>. QED BY <1>1, <1>2, <1>3

(* When the event is recorded as processed, every artifact it quarantined  *)
(* has its rebuild request, unless the process died between the two.       *)
THEOREM Quarantined == Spec => []QuarantinedIsQueued
<1>1. Init => TypeOK /\ EventInv
  BY InitType, EventInvInit
<1>2. TypeOK /\ EventInv /\ [Next]_vars => TypeOK' /\ EventInv'
  BY TypeStep, EventInvStep
<1>3. EventInv => QuarantinedIsQueued
  BY DEF EventInv, QuarantinedIsQueued
<1>. QED BY <1>1, <1>2, <1>3, PTL DEF Spec

-----------------------------------------------------------------------------
(* The table of SQLite is a lease queue.  A worker that still owns its     *)
(* request works on the latest claim of it, which is running; so the       *)
(* check of the owner alone is enough to refuse a superseded result.       *)

DbInv ==
    backend = "db" => \A w \in Workers : worker[w].pc # "idle" =>
        /\ worker[w].pc \in {"run", "finish"}
        /\ req[worker[w].req].owner = w =>
              req[worker[w].req].status = "running" /\ req[worker[w].req].attempt = worker[w].attempt

LEMMA DbInvInit == Init => DbInv
  BY WaitingFields DEF Init, DbInv

LEMMA BackendConstant == ASSUME [Next]_vars PROVE backend' = backend
  BY DEF Next, vars, Emit, EmitterDies, Plan, Fence, Quarantine, Enqueue, Completed, Work, ClaimRow,
     ReadClaim, WriteClaim, Handle, FinishRow, ReadFinish, WriteFinish, Refused, FinishError,
     WorkerDies, Clock, Expire, RetryDue, Overrun, Migrate

LEMMA DbInvWork == ASSUME TypeOK, DbInv, backend = "db", NEW w \in Workers, Work(w) PROVE DbInv'
<1>0. /\ worker \in [Workers -> WorkerType]
      /\ \A v \in Workers : worker[v].pc # "idle" => worker[v].req \in Requests
  BY DEF TypeOK, At
<1>1. ASSUME NEW r \in Requests, ClaimRow(w, r) PROVE DbInv'
  <2>. DEFINE n == Count(req[r].attempt)
  <2>1. /\ worker'[w].pc = "run" /\ worker'[w].req = r /\ worker'[w].attempt = n
        /\ \A v \in Workers \ {w} : worker'[v] = worker[v]
        /\ req'[r].status = "running" /\ req'[r].attempt = n /\ req'[r].owner = w
        /\ \A s \in Requests \ {r} : req'[s] = req[s]
    BY <1>1, ClaimRowEffect
  <2>. HIDE DEF n
  <2>. QED BY <1>0, <2>1 DEF DbInv
<1>2. ASSUME NEW ok \in BOOLEAN, Handle(w, ok) PROVE DbInv'
  <2>1. req' = req /\ worker[w].pc = "run"
    BY <1>2 DEF Handle, queue, At
  <2>2. /\ worker'[w].pc = "finish" /\ worker'[w].req = worker[w].req
        /\ worker'[w].attempt = worker[w].attempt
        /\ \A v \in Workers \ {w} : worker'[v] = worker[v]
    BY <1>2, HandleEffect
  <2>. QED BY <1>0, <2>1, <2>2 DEF DbInv
<1>3. CASE FinishRow(w)
  <2>1. /\ worker[w].req \in Requests
        /\ worker'[w].pc = "idle" /\ \A v \in Workers \ {w} : worker'[v] = worker[v]
        /\ req'[worker[w].req].owner = w
        /\ \A s \in Requests \ {worker[w].req} : req'[s] = req[s]
    BY <1>3, SettleEffect
  <2>. QED BY <1>0, <2>1 DEF DbInv
<1>4. CASE Refused(w)
  <2>1. req' = req /\ Become(w, Waiting)
    BY <1>4 DEF Refused, queue
  <2>2. worker'[w].pc = "idle" /\ \A v \in Workers \ {w} : worker'[v] = worker[v]
    BY <2>1, IdleEffect
  <2>. QED BY <1>0, <2>1, <2>2 DEF DbInv
<1>5. /\ ~\E r \in Requests : ReadClaim(w, r)
      /\ ~ReadFinish(w) /\ ~WriteClaim(w) /\ ~WriteFinish(w)
  BY DEF ReadClaim, ReadFinish, WriteClaim, WriteFinish, At, DbInv
<1>. QED BY <1>1, <1>2, <1>3, <1>4, <1>5 DEF Work

(* In the table, a request's owner changes only by a claim or a migration. *)
LEMMA DbInvStep == TypeOK /\ DbInv /\ [Next]_vars => DbInv'
<1>. SUFFICES ASSUME TypeOK, DbInv, [Next]_vars, backend = "db" PROVE DbInv'
  BY BackendConstant DEF DbInv
<1>0. /\ worker \in [Workers -> WorkerType] /\ NoWorker \notin Workers
      /\ \A v \in Workers : worker[v].pc # "idle" => worker[v].req \in Requests
  BY QueueAssumption DEF TypeOK, At
<1>1. CASE UNCHANGED vars
  BY <1>1 DEF vars, queue, DbInv
<1>2. ASSUME NEW w \in Workers, Work(w) PROVE DbInv'
  BY <1>2, DbInvWork
<1>3. ASSUME NEW w \in Workers, FinishError(w) \/ WorkerDies(w) PROVE DbInv'
  <2>1. ~FinishError(w)
    BY DEF FinishError
  <2>2. /\ req' = req /\ worker'[w].pc = "idle"
        /\ \A v \in Workers \ {w} : worker'[v] = worker[v]
    BY <1>3, <2>1, WorkerFaultEffect
  <2>. QED BY <1>0, <2>2 DEF DbInv
<1>4. ASSUME NEW e \in Emitters, Emit(e) \/ EmitterDies(e) PROVE DbInv'
  <2>1. req' = req /\ worker' = worker
    BY <1>4 DEF Emit, EmitterDies, Plan, Fence, Quarantine, Enqueue, Completed, queue
  <2>. QED BY <2>1 DEF DbInv
<1>5. ASSUME NEW r \in Requests, Clock(r) \/ Overrun(r) PROVE DbInv'
  <2>1. worker' = worker /\ req' = [req EXCEPT ![r] = Overdue(req[r])]
    BY <1>5 DEF Clock, Expire, RetryDue, Overrun
  <2>2. \A s \in Requests : /\ req'[s].status = req[s].status
                            /\ req'[s].attempt = req[s].attempt /\ req'[s].owner = req[s].owner
    BY <2>1, DueEffect
  <2>. QED BY <1>0, <2>1, <2>2 DEF DbInv
<1>6. CASE Migrate
  <2>1. /\ worker' = worker
        /\ \A s \in Requests : req'[s] = req[s] \/ req'[s].owner = NoWorker
    BY <1>6, QueuedFields DEF Migrate
  <2>. QED BY <1>0, <2>1 DEF DbInv
<1>. QED BY <1>1, <1>2, <1>3, <1>4, <1>5, <1>6 DEF Next

-----------------------------------------------------------------------------
(* The refinement, step by step. *)

RowView(q) == [status |-> q.status, attempt |-> q.attempt, owner |-> q.owner]
ClaimView(k) == IF k.pc = "idle" THEN <<>> ELSE <<k.req, k.attempt>>

LEMMA DbViews ==
    ASSUME backend = "db"
    PROVE  /\ LeaseView = [r \in Requests |-> RowView(req[r])]
           /\ HeldView = [w \in Workers |-> ClaimView(worker[w])]
  BY DEF LeaseView, HeldView, RowView, ClaimView, At

LEMMA DbViewsNext ==
    ASSUME backend' = "db"
    PROVE  /\ LeaseView' = [r \in Requests |-> RowView(req'[r])]
           /\ HeldView' = [w \in Workers |-> ClaimView(worker'[w])]
  BY DEF LeaseView, HeldView, RowView, ClaimView, At

LEMMA FileViews ==
    ASSUME backend \in Backends, backend # "db", backend' = backend
    PROVE  UNCHANGED <<LeaseView, HeldView>>
  BY DEF LeaseView, HeldView

(* A step that keeps every row's view and every worker's claim.            *)
LEMMA Stutter ==
    ASSUME backend = "db", backend' = "db",
           \A r \in Requests : /\ req'[r].status = req[r].status
                               /\ req'[r].attempt = req[r].attempt /\ req'[r].owner = req[r].owner,
           \A w \in Workers : ClaimView(worker'[w]) = ClaimView(worker[w])
    PROVE  UNCHANGED <<LeaseView, HeldView>>
  BY DbViews, DbViewsNext DEF RowView

(* A step that changes the row of r only, or the claim of w only. *)
LEMMA RowStep ==
    ASSUME backend = "db", backend' = "db", NEW r \in Requests, NEW st, NEW n, NEW o,
           req'[r].status = st, req'[r].attempt = n, req'[r].owner = o,
           \A s \in Requests \ {r} : req'[s] = req[s]
    PROVE  LeaseView' = [LeaseView EXCEPT ![r] = Abstract!Lease(st, n, o)]
  BY DbViews, DbViewsNext DEF RowView, Abstract!Lease

LEMMA HeldStep ==
    ASSUME backend = "db", backend' = "db", NEW w \in Workers,
           \A v \in Workers \ {w} : worker'[v] = worker[v]
    PROVE  HeldView' = [HeldView EXCEPT ![w] = ClaimView(worker'[w])]
  BY DbViews, DbViewsNext

LEMMA DbWorkStep ==
    ASSUME ~Endless, TypeOK, DbInv, backend = "db", backend' = "db", NEW w \in Workers, Work(w)
    PROVE  [Abstract!Next]_<<LeaseView, HeldView>>
<1>0. /\ worker \in [Workers -> WorkerType] /\ req \in [Requests -> RequestType]
      /\ \A v \in Workers : worker[v].pc # "idle" => worker[v].req \in Requests
  BY DEF TypeOK, At
<1>1. ASSUME NEW r \in Requests, ClaimRow(w, r) PROVE Abstract!Claim(w, r)
  <2>. DEFINE n == req[r].attempt + 1
  <2>1. Count(req[r].attempt) = n
    BY DEF Count
  <2>2. /\ worker'[w].pc = "run" /\ worker'[w].req = r /\ worker'[w].attempt = n
        /\ \A v \in Workers \ {w} : worker'[v] = worker[v]
        /\ req'[r].status = "running" /\ req'[r].attempt = n /\ req'[r].owner = w
        /\ \A s \in Requests \ {r} : req'[s] = req[s]
    BY <1>1, <2>1, ClaimRowEffect
  <2>3. worker[w].pc = "idle" /\ req[r].status \in {"queued", "running", "retry_wait"}
    BY <1>1 DEF ClaimRow, At, Eligible
  <2>4. HeldView[w] = <<>> /\ LeaseView[r].status = req[r].status /\ LeaseView[r].attempt = req[r].attempt
    BY <2>3, DbViews DEF ClaimView, RowView
  <2>5. LeaseView' = [LeaseView EXCEPT ![r] = Abstract!Lease("running", n, w)]
    BY <2>2, RowStep
  <2>6. ClaimView(worker'[w]) = <<r, n>>
    BY <2>2 DEF ClaimView
  <2>7. HeldView' = [HeldView EXCEPT ![w] = <<r, n>>]
    BY <2>2, <2>6, HeldStep
  <2>. QED BY <2>3, <2>4, <2>5, <2>7 DEF Abstract!Claim, Abstract!Nothing
<1>2. ASSUME NEW ok \in BOOLEAN, Handle(w, ok) PROVE UNCHANGED <<LeaseView, HeldView>>
  <2>1. req' = req /\ worker[w].pc = "run"
    BY <1>2 DEF Handle, queue, At
  <2>2. /\ worker'[w].pc = "finish" /\ worker'[w].req = worker[w].req
        /\ worker'[w].attempt = worker[w].attempt
        /\ \A v \in Workers \ {w} : worker'[v] = worker[v]
    BY <1>2, HandleEffect
  <2>3. \A v \in Workers : ClaimView(worker'[v]) = ClaimView(worker[v])
    BY <2>1, <2>2 DEF ClaimView
  <2>. QED BY <2>1, <2>3, Stutter
<1>3. CASE FinishRow(w)
  <2>. DEFINE r == worker[w].req
              n == worker[w].attempt
              st == req'[r].status
  <2>1. /\ r \in Requests /\ n \in Nat
        /\ worker'[w].pc = "idle" /\ \A v \in Workers \ {w} : worker'[v] = worker[v]
        /\ \/ st = "succeeded"
           \/ st = "retry_wait" /\ n < MaxAttempts
           \/ st = "dead_letter" /\ n >= MaxAttempts
        /\ req'[r].attempt = n /\ req'[r].owner = w
        /\ \A s \in Requests \ {r} : req'[s] = req[s]
    BY <1>3, SettleEffect
  <2>2. worker[w].pc = "finish" /\ req[r].owner = w
    BY <1>3 DEF FinishRow, At, Owned
  <2>3. req[r].status = "running" /\ req[r].attempt = n
    BY <2>2 DEF DbInv
  <2>4. /\ HeldView[w] = <<r, n>>
        /\ LeaseView[r].status = "running" /\ LeaseView[r].attempt = n /\ LeaseView[r].owner = w
    BY <2>1, <2>2, <2>3, DbViews DEF ClaimView, RowView
  <2>5. LeaseView' = [LeaseView EXCEPT ![r] = Abstract!Lease(st, n, w)]
    BY <2>1, RowStep
  <2>6. LeaseView[r] = Abstract!Lease("running", n, w)
    BY <2>1, <2>2, <2>3, DbViews DEF RowView, Abstract!Lease
  <2>7. LeaseView' = [LeaseView EXCEPT ![r].status = st]
    <3>1. LeaseView = [s \in Requests |-> LeaseView[s]]
      BY DbViews
    <3>2. [LeaseView[r] EXCEPT !.status = st] = Abstract!Lease(st, n, w)
      BY <2>6 DEF Abstract!Lease
    <3>. QED BY <2>1, <2>5, <3>1, <3>2
  <2>8. ClaimView(worker'[w]) = <<>>
    BY <2>1 DEF ClaimView
  <2>9. HeldView' = [HeldView EXCEPT ![w] = <<>>]
    BY <2>1, <2>8, HeldStep
  <2>10. /\ st \in Abstract!Settled \cup {"retry_wait"}
         /\ \/ st = "succeeded"
            \/ st = "retry_wait"  /\ LeaseView[r].attempt < MaxAttempts
            \/ st = "dead_letter" /\ LeaseView[r].attempt >= MaxAttempts
    BY <2>1, <2>4 DEF Abstract!Settled
  <2>. HIDE DEF r, n, st
  <2>11. Abstract!Finish(w, r, st)
    BY <2>4, <2>7, <2>9, <2>10 DEF Abstract!Finish, Abstract!Nothing
  <2>. QED BY <2>1, <2>10, <2>11 DEF Abstract!Next
<1>4. CASE Refused(w)
  <2>1. req' = req /\ Become(w, Waiting) /\ worker[w].pc = "finish"
    BY <1>4 DEF Refused, queue, At
  <2>2. worker'[w].pc = "idle" /\ \A v \in Workers \ {w} : worker'[v] = worker[v]
    BY <2>1, IdleEffect
  <2>3. ClaimView(worker'[w]) = <<>> /\ ClaimView(worker[w]) = <<worker[w].req, worker[w].attempt>>
    BY <2>1, <2>2 DEF ClaimView
  <2>4. HeldView' = [HeldView EXCEPT ![w] = <<>>] /\ HeldView[w] # <<>> /\ LeaseView' = LeaseView
    BY <2>1, <2>2, <2>3, HeldStep, DbViews, DbViewsNext
  <2>5. Abstract!Abandon(w)
    BY <2>4 DEF Abstract!Abandon, Abstract!Nothing
  <2>. QED BY <2>5 DEF Abstract!Next
<1>5. /\ ~\E r \in Requests : ReadClaim(w, r)
      /\ ~ReadFinish(w) /\ ~WriteClaim(w) /\ ~WriteFinish(w)
  BY DEF ReadClaim, ReadFinish, WriteClaim, WriteFinish, At, DbInv
<1>6. CASE \E r \in Requests : ClaimRow(w, r)
  BY <1>1, <1>6 DEF Abstract!Next
<1>. QED BY <1>2, <1>3, <1>4, <1>5, <1>6 DEF Work

LEMMA DbStep ==
    ASSUME ~Endless, TypeOK, DbInv, [Next]_vars, backend = "db", backend' = "db"
    PROVE  [Abstract!Next]_<<LeaseView, HeldView>>
<1>1. CASE UNCHANGED vars
  BY <1>1, Stutter DEF vars, queue
<1>2. ASSUME NEW w \in Workers, Work(w) PROVE [Abstract!Next]_<<LeaseView, HeldView>>
  BY <1>2, DbWorkStep
<1>3. ASSUME NEW w \in Workers, FinishError(w) \/ WorkerDies(w)
      PROVE  [Abstract!Next]_<<LeaseView, HeldView>>
  <2>1. ~FinishError(w)
    BY DEF FinishError
  <2>2. /\ req' = req /\ worker'[w].pc = "idle" /\ worker[w].pc # "idle"
        /\ \A v \in Workers \ {w} : worker'[v] = worker[v]
    BY <1>3, <2>1, WorkerFaultEffect DEF WorkerDies, At
  <2>3. ClaimView(worker'[w]) = <<>> /\ ClaimView(worker[w]) = <<worker[w].req, worker[w].attempt>>
    BY <2>2 DEF ClaimView
  <2>4. HeldView' = [HeldView EXCEPT ![w] = <<>>] /\ HeldView[w] # <<>> /\ LeaseView' = LeaseView
    BY <2>2, <2>3, HeldStep, DbViews, DbViewsNext
  <2>5. Abstract!Abandon(w)
    BY <2>4 DEF Abstract!Abandon, Abstract!Nothing
  <2>. QED BY <2>5 DEF Abstract!Next
<1>4. ASSUME NEW e \in Emitters, Emit(e) \/ EmitterDies(e)
      PROVE  [Abstract!Next]_<<LeaseView, HeldView>>
  <2>1. req' = req /\ worker' = worker
    BY <1>4 DEF Emit, EmitterDies, Plan, Fence, Quarantine, Enqueue, Completed, queue
  <2>. QED BY <2>1, Stutter
<1>5. ASSUME NEW r \in Requests, Clock(r) \/ Overrun(r)
      PROVE  [Abstract!Next]_<<LeaseView, HeldView>>
  <2>1. worker' = worker /\ req' = [req EXCEPT ![r] = Overdue(req[r])]
    BY <1>5 DEF Clock, Expire, RetryDue, Overrun
  <2>. QED BY <2>1, DueEffect, Stutter
<1>6. CASE Migrate
  <2>1. /\ worker' = worker /\ filed \in SUBSET Requests
        /\ req' = [r \in Requests |-> IF r \in filed THEN Queued ELSE req[r]]
    BY <1>6 DEF Migrate, TypeOK
  <2>2. RowView(Queued) = Abstract!Lease("queued", 0, NoWorker)
    BY QueuedFields DEF RowView, Abstract!Lease
  <2>3. LeaseView' = [r \in Requests |-> IF r \in filed THEN Abstract!Lease("queued", 0, NoWorker)
                                         ELSE LeaseView[r]]
    <3>1. \A r \in Requests : RowView(req'[r]) = IF r \in filed THEN RowView(Queued) ELSE RowView(req[r])
      BY <2>1
    <3>. QED BY <2>2, <3>1, DbViews, DbViewsNext
  <2>4. HeldView' = HeldView
    BY <2>1, DbViews, DbViewsNext
  <2>5. Abstract!Enqueue(filed)
    BY <2>3, <2>4 DEF Abstract!Enqueue
  <2>. QED BY <2>1, <2>5 DEF Abstract!Next
<1>. QED BY <1>1, <1>2, <1>3, <1>4, <1>5, <1>6 DEF Next

LEMMA InitRefines == Init => Abstract!Init
<1>. SUFFICES ASSUME Init PROVE Abstract!Init
  OBVIOUS
<1>1. 0 \in Nat /\ "absent" \in StatusSet /\ NoWorker \in OwnerSet
  BY DEF StatusSet, OwnerSet
<1>2. \A r \in Requests : req[r] = Request("absent", 0, NoWorker)
  BY DEF Init
<1>3. \A r \in Requests : req[r].status = "absent" /\ req[r].attempt = 0 /\ req[r].owner = NoWorker
  BY <1>1, <1>2, RequestFields
<1>4. \A w \in Workers : worker[w].pc = "idle"
  BY WaitingFields DEF Init
<1>5. LeaseView = [r \in Requests |-> [status |-> "absent", attempt |-> 0, owner |-> NoWorker]]
  BY <1>3 DEF LeaseView
<1>6. HeldView = [w \in Workers |-> <<>>]
  BY <1>4 DEF HeldView, At
<1>. QED BY <1>5, <1>6 DEF Abstract!Init, Abstract!Lease, Abstract!Nothing

(* While attempts are counted to the end, the table of SQLite implements   *)
(* the lease queue: each of its transactions is one step of the abstract   *)
(* queue, and a superseded worker's result is refused.                     *)
THEOREM LeaseRefinement == ~Endless /\ Spec => ImplementsLeaseQueue
<1>. SUFFICES ASSUME ~Endless PROVE Spec => ImplementsLeaseQueue
  OBVIOUS
<1>1. Init => TypeOK /\ DbInv /\ Abstract!Init
  BY InitType, DbInvInit, InitRefines
<1>2. TypeOK /\ DbInv /\ [Next]_vars => TypeOK' /\ DbInv'
  BY TypeStep, DbInvStep
<1>3. TypeOK /\ DbInv /\ [Next]_vars => [Abstract!Next]_<<LeaseView, HeldView>>
  <2>. SUFFICES ASSUME TypeOK, DbInv, [Next]_vars PROVE [Abstract!Next]_<<LeaseView, HeldView>>
    OBVIOUS
  <2>1. backend' = backend /\ backend \in Backends
    BY BackendConstant DEF TypeOK
  <2>2. CASE backend = "db"
    BY <2>1, <2>2, DbStep
  <2>3. CASE backend # "db"
    BY <2>1, <2>3, FileViews
  <2>. QED BY <2>2, <2>3
<1>. QED BY <1>1, <1>2, <1>3, PTL DEF Spec, ImplementsLeaseQueue, Abstract!Spec

=============================================================================
