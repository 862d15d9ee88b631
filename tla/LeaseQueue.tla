----------------------------- MODULE LeaseQueue -----------------------------
(***************************************************************************)
(* What a queue of leased work promises, whatever it is stored in.  A      *)
(* request is claimed by one worker at a time; a claim that was superseded *)
(* records nothing; a settled request is final until it is queued again;   *)
(* and a request is given up only when its last attempt has failed.        *)
(***************************************************************************)
EXTENDS Naturals

CONSTANTS Requests, Workers, NoWorker, MaxAttempts

VARIABLES
    lease,   \* each request: its status, the number of claims, the last worker
    held     \* each worker: the claim it is working on

Settled == {"succeeded", "dead_letter"}
Statuses == {"absent", "queued", "running", "retry_wait"} \cup Settled

Lease(status, attempt, owner) == [status |-> status, attempt |-> attempt, owner |-> owner]
Nothing == <<>>

Init ==
    /\ lease = [r \in Requests |-> Lease("absent", 0, NoWorker)]
    /\ held = [w \in Workers |-> Nothing]

Enqueue(R) ==
    /\ lease' = [r \in Requests |-> IF r \in R THEN Lease("queued", 0, NoWorker) ELSE lease[r]]
    /\ UNCHANGED held

Claim(w, r) ==
    /\ held[w] = Nothing
    /\ lease[r].status \in {"queued", "running", "retry_wait"}
    /\ lease' = [lease EXCEPT ![r] = Lease("running", lease[r].attempt + 1, w)]
    /\ held' = [held EXCEPT ![w] = <<r, lease[r].attempt + 1>>]

(* Only the worker of the latest claim settles or returns a request. *)
Finish(w, r, status) ==
    /\ held[w] = <<r, lease[r].attempt>>
    /\ lease[r].status = "running" /\ lease[r].owner = w
    /\ \/ status = "succeeded"
       \/ status = "retry_wait"  /\ lease[r].attempt < MaxAttempts
       \/ status = "dead_letter" /\ lease[r].attempt >= MaxAttempts
    /\ lease' = [lease EXCEPT ![r].status = status]
    /\ held' = [held EXCEPT ![w] = Nothing]

Abandon(w) ==
    /\ held[w] # Nothing
    /\ held' = [held EXCEPT ![w] = Nothing]
    /\ UNCHANGED lease

Next ==
    \/ \E R \in SUBSET Requests : Enqueue(R)
    \/ \E w \in Workers : Abandon(w)
    \/ \E w \in Workers, r \in Requests :
          \/ Claim(w, r)
          \/ \E status \in Settled \cup {"retry_wait"} : Finish(w, r, status)

Spec == Init /\ [][Next]_<<lease, held>>
=============================================================================
