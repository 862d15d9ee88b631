-------------------------- MODULE GovernanceProofs --------------------------
(***************************************************************************)
(* Theorems about Governance, for any number of processes, artifacts,      *)
(* people and approvals and any quorum.                                    *)
(***************************************************************************)
EXTENDS Governance, FiniteSetTheorems, WellFoundedInduction, TLAPS

-----------------------------------------------------------------------------
(* What a process is doing. *)

PromotionStep == {"fence", "check", "write"}
LinkStep      == {"verify", "unlink"}

(* The step that a process is at tells what kind of record describes it. *)
LEMMA JobKind ==
    ASSUME NEW j \in JobType
    PROVE  /\ j.pc \in PromotionStep => j \in PromotionJob
           /\ j.pc \in LinkStep => j \in LinkJob
           /\ j.pc \in Cascading => j \in CascadeJob
           /\ j.pc = "idle" => j = Idle
           /\ j.pc \in {"idle"} \cup PromotionStep \cup LinkStep \cup Cascading
  BY DEF JobType, PromotionJob, LinkJob, CascadeJob, Idle, Cascading, PromotionStep, LinkStep

LEMMA IdleFields == Idle \in JobType /\ Idle.pc = "idle"
  BY DEF JobType, Idle

LEMMA PromotionFields ==
    ASSUME NEW i \in Approvals, NEW payload \in Payload
    PROVE  LET j == Promotion(i, payload)
           IN  j \in JobType /\ j.pc = "fence" /\ j.ap = i /\ j.payload = payload
  BY DEF Promotion, JobType, PromotionJob

LEMMA LinkingFields ==
    ASSUME NEW c \in Artifacts, NEW q \in Artifacts
    PROVE  LET j == Linking(c, q)
           IN  j \in JobType /\ j.pc = "verify" /\ j.child = c /\ j.parent = q
  BY DEF Linking, JobType, LinkJob

LEMMA CascadeFields ==
    ASSUME NEW r \in Artifacts, NEW rows \in SUBSET Row
    PROVE  Cascade(r, rows) \in JobType /\ Cascade(r, rows).pc = "revoke"
  BY DEF Cascade, JobType, CascadeJob, Cascading

LEMMA BecomeEffect ==
    ASSUME job \in [Procs -> JobType], NEW p \in Procs, NEW j \in JobType, Become(p, j)
    PROVE  /\ job' \in [Procs -> JobType] /\ job'[p] = j
           /\ \A q \in Procs \ {p} : job'[q] = job[q]
  BY DEF Become

LEMMA StartEffect ==
    ASSUME job \in [Procs -> JobType], NEW p \in Procs, NEW j \in JobType, Start(p, j)
    PROVE  /\ job' \in [Procs -> JobType] /\ job'[p] = j /\ job[p] = Idle
           /\ \A q \in Procs \ {p} : job'[q] = job[q]
  BY BecomeEffect, JobKind DEF Start, At

(* A process that goes on keeps the rest of its record. *)
LEMMA GotoPromotion ==
    ASSUME job \in [Procs -> JobType], NEW p \in Procs, job[p].pc \in PromotionStep,
           NEW pc \in PromotionStep, Goto(p, pc)
    PROVE  /\ job' \in [Procs -> JobType]
           /\ job'[p].pc = pc /\ job'[p].ap = job[p].ap /\ job'[p].payload = job[p].payload
           /\ \A q \in Procs \ {p} : job'[q] = job[q]
<1>1. job[p] \in PromotionJob
  BY JobKind
<1>2. PICK j : j = [job[p] EXCEPT !.pc = pc]
  OBVIOUS
<1>3. j \in JobType /\ j.pc = pc /\ j.ap = job[p].ap /\ j.payload = job[p].payload
  BY <1>1, <1>2 DEF PromotionJob, JobType, PromotionStep
<1>4. Become(p, j)
  BY <1>2 DEF Goto, Become
<1>. QED BY <1>3, <1>4, BecomeEffect

LEMMA GotoUnlink ==
    ASSUME job \in [Procs -> JobType], NEW p \in Procs, At(p, "verify"), Goto(p, "unlink")
    PROVE  /\ job' \in [Procs -> JobType]
           /\ job'[p].pc = "unlink" /\ job'[p].child = job[p].child /\ job'[p].parent = job[p].parent
           /\ \A q \in Procs \ {p} : job'[q] = job[q]
<1>1. job[p] \in LinkJob
  BY JobKind DEF At, LinkStep
<1>2. PICK j : j = [job[p] EXCEPT !.pc = "unlink"]
  OBVIOUS
<1>3. j \in JobType /\ j.pc = "unlink" /\ j.child = job[p].child /\ j.parent = job[p].parent
  BY <1>1, <1>2 DEF LinkJob, JobType
<1>4. Become(p, j)
  BY <1>2 DEF Goto, Become
<1>. QED BY <1>3, <1>4, BecomeEffect

LEMMA GotoCascade ==
    ASSUME job \in [Procs -> JobType], NEW p \in Procs, job[p].pc \in Cascading,
           NEW pc \in Cascading, Goto(p, pc)
    PROVE  /\ job' \in [Procs -> JobType] /\ job'[p].pc = pc
           /\ \A q \in Procs \ {p} : job'[q] = job[q]
<1>1. job[p] \in CascadeJob
  BY JobKind
<1>2. PICK j : j = [job[p] EXCEPT !.pc = pc]
  OBVIOUS
<1>3. j \in JobType /\ j.pc = pc
  BY <1>1, <1>2 DEF CascadeJob, JobType
<1>4. Become(p, j)
  BY <1>2 DEF Goto, Become
<1>. QED BY <1>3, <1>4, BecomeEffect

(* The rows of a plan are artifacts, so that a cascade is well formed. *)
LEMMA PlanType == ASSUME NEW r PROVE Plan(r) \in SUBSET Row
  BY DEF Plan

LEMMA PointingType ==
    ASSUME chan \in Channel, NEW a \in Artifacts PROVE Pointing(a) \in Channel
  BY DEF Pointing, Channel

(* A step of a cascade moves that process only, from one step of the       *)
(* cascade to another or to its end.                                       *)
LEMMA CascadeStep ==
    ASSUME TypeOK, NEW p \in Procs, Withdrawing(p)
    PROVE  /\ job' \in [Procs -> JobType]
           /\ job[p].pc \in Cascading /\ job'[p].pc \in Cascading \cup {"idle"}
           /\ \A q \in Procs \ {p} : job'[q] = job[q]
           /\ revoked' \subseteq Artifacts /\ chan' \in Channel
           /\ late' \in [Procs -> SUBSET Artifacts]
           /\ UNCHANGED <<fence, approval, bounds, spent, links, reported, borrowed, unverified, overwritten>>
<1>1. CASE Revoke(p)
  <2>1. job[p].pc = "revoke" /\ job[p] \in CascadeJob
    BY <1>1, JobKind DEF Revoke, At, Cascading, TypeOK
  <2>2. PICK row \in First(job[p].todo) :
             LET rest == [job[p] EXCEPT !.todo = @ \ {row}]
             IN  IF row.gone THEN Become(p, rest) /\ UNCHANGED revoked
                 ELSE /\ revoked' = revoked \cup {row.art}
                      /\ Become(p, [rest EXCEPT !.pc = "pointer", !.art = row.art])
    BY <1>1 DEF Revoke
  <2>3. row \in Row /\ row.art \in Artifacts
    BY <2>1, <2>2 DEF First, CascadeJob, Row
  <2>4. PICK rest : rest = [job[p] EXCEPT !.todo = @ \ {row}]
    OBVIOUS
  <2>5. rest \in CascadeJob /\ rest.pc = "revoke"
    BY <2>1, <2>4 DEF CascadeJob
  <2>6. PICK next : next = [rest EXCEPT !.pc = "pointer", !.art = row.art]
    OBVIOUS
  <2>7. next \in CascadeJob /\ next.pc = "pointer"
    BY <2>3, <2>5, <2>6 DEF CascadeJob, Cascading
  <2>8. rest \in JobType /\ next \in JobType /\ job \in [Procs -> JobType]
    BY <2>5, <2>7 DEF JobType, TypeOK
  <2>9. \/ Become(p, rest) /\ UNCHANGED revoked
        \/ revoked' = revoked \cup {row.art} /\ Become(p, next)
    BY <2>2, <2>4, <2>6
  <2>10. /\ job' \in [Procs -> JobType] /\ job'[p].pc \in Cascading
         /\ \A q \in Procs \ {p} : job'[q] = job[q]
    BY <2>5, <2>7, <2>8, <2>9, BecomeEffect DEF Cascading
  <2>11. revoked' \subseteq Artifacts
    BY <2>3, <2>9 DEF TypeOK
  <2>12. UNCHANGED <<chan, late, fence, approval, bounds, spent, links, reported, borrowed, unverified, overwritten>>
    BY <1>1 DEF Revoke, release, graph, bounds
  <2>. QED BY <2>1, <2>10, <2>11, <2>12 DEF Cascading, TypeOK
<1>2. CASE Pointer(p)
  <2>1. job[p].pc = "pointer" /\ job[p] \in CascadeJob /\ job \in [Procs -> JobType]
    BY <1>2, JobKind DEF Pointer, At, Cascading, TypeOK
  <2>2. PICK j : j = [job[p] EXCEPT !.pc = "previous", !.prev = chan.prev, !.gen = chan.gen]
    OBVIOUS
  <2>3. j \in CascadeJob /\ j.pc = "previous"
    BY <2>1, <2>2 DEF CascadeJob, Cascading, TypeOK, Channel
  <2>4. j \in JobType
    BY <2>3 DEF JobType
  <2>5. Become(p, j) \/ Goto(p, "revoke")
    BY <1>2, <2>2 DEF Pointer
  <2>6. /\ job' \in [Procs -> JobType] /\ job'[p].pc \in Cascading
        /\ \A q \in Procs \ {p} : job'[q] = job[q]
    BY <2>1, <2>3, <2>4, <2>5, BecomeEffect, GotoCascade DEF Cascading
  <2>7. UNCHANGED <<revoked, chan, late, fence, approval, bounds, spent, links, reported, borrowed, unverified, overwritten>>
    BY <1>2 DEF Pointer, release, graph, bounds
  <2>. QED BY <2>1, <2>6, <2>7 DEF Cascading, TypeOK
<1>3. CASE Previous(p)
  <2>1. job[p].pc = "previous" /\ job \in [Procs -> JobType]
    BY <1>3 DEF Previous, At, TypeOK
  <2>2. Goto(p, "revoke") \/ Goto(p, "rollback")
    BY <1>3 DEF Previous
  <2>3. /\ job' \in [Procs -> JobType] /\ job'[p].pc \in Cascading
        /\ \A q \in Procs \ {p} : job'[q] = job[q]
    BY <2>1, <2>2, GotoCascade DEF Cascading
  <2>4. UNCHANGED <<revoked, chan, late, fence, approval, bounds, spent, links, reported, borrowed, unverified, overwritten>>
    BY <1>3 DEF Previous, release, graph, bounds
  <2>. QED BY <2>1, <2>3, <2>4 DEF Cascading, TypeOK
<1>4. CASE Rollback(p)
  <2>1. job[p].pc = "rollback" /\ job \in [Procs -> JobType]
    BY <1>4 DEF Rollback, At, TypeOK
  <2>2. /\ job' \in [Procs -> JobType] /\ job'[p].pc \in Cascading
        /\ \A q \in Procs \ {p} : job'[q] = job[q]
    BY <1>4, <2>1, GotoCascade DEF Cascading, Rollback
  <2>3. UNCHANGED <<revoked, late, fence, approval, bounds, spent, links, reported, borrowed, unverified, overwritten>>
    BY <1>4 DEF Rollback, graph, bounds
  <2>4. job[p].prev \in Artifacts \cup {NoArtifact}
    BY <2>1, JobKind DEF Cascading, CascadeJob
  <2>5. chan' \in Channel
    BY <1>4, <2>4 DEF Rollback, Pointing, Channel, TypeOK
  <2>. QED BY <2>1, <2>2, <2>3, <2>5 DEF Cascading, TypeOK
<1>5. CASE EndCascade(p)
  <2>1. job[p].pc = "revoke" /\ job \in [Procs -> JobType]
    BY <1>5 DEF EndCascade, At, TypeOK
  <2>2. /\ job' \in [Procs -> JobType] /\ job'[p].pc = "idle"
        /\ \A q \in Procs \ {p} : job'[q] = job[q]
    BY <1>5, <2>1, BecomeEffect, IdleFields DEF EndCascade
  <2>3. UNCHANGED <<revoked, chan, fence, approval, bounds, spent, links, reported, borrowed, unverified, overwritten>>
    BY <1>5 DEF EndCascade, release, bounds
  <2>4. late' \in [Procs -> SUBSET Artifacts]
    BY <1>5 DEF EndCascade, TypeOK
  <2>. QED BY <2>1, <2>2, <2>3, <2>4 DEF Cascading, TypeOK
<1>. QED BY <1>1, <1>2, <1>3, <1>4, <1>5 DEF Withdrawing

(* A killed process is idle, and nothing changes but the fence it held.    *)
LEMMA AbortEffect ==
    ASSUME TypeOK, NEW p \in Procs, Abort(p)
    PROVE  /\ job' \in [Procs -> JobType] /\ job'[p].pc = "idle" /\ job[p].pc # "idle"
           /\ \A q \in Procs \ {p} : job'[q] = job[q]
           /\ UNCHANGED <<revoked, chan, approval, spent, links, reported, borrowed, overwritten>>
  BY BecomeEffect, IdleFields DEF Abort, TypeOK, At

(* The next steps of the processes are the disjuncts of Next. *)
LEMMA NextCases ==
    ASSUME Next
    PROVE  \/ \E i \in Approvals, r \in People, payload \in Payloads : CreateApproval(i, r, payload)
           \/ \E i \in Approvals, s \in People : Approve(i, s)
           \/ \E i \in Approvals : Expire(i)
           \/ \E p \in Procs, i \in Approvals, payload \in Payloads : Request(p, i, payload)
           \/ \E p \in Procs, c, q \in Artifacts : Link(p, c, q)
           \/ \E p \in Procs, r \in Artifacts : StartCascade(p, r)
           \/ \E p \in Procs : Claim(p) \/ Check(p) \/ Write(p) \/ Verify(p) \/ Unlink(p)
                               \/ Withdrawing(p) \/ Abort(p)
           \/ \E c, q \in Artifacts : LinkAgain(c, q) \/ Register(c, q)
           \/ \E c \in Artifacts, parents \in SUBSET Artifacts, gone \in BOOLEAN : Post(c, parents, gone)
  BY DEF Next, Deciding, Acting, Promoting, Writing

LEMMA PayloadType == ASSUME TypeOK, NEW payload \in Payloads PROVE payload \in Payload
  BY DEF Payloads, Payload, TypeOK, Channel

-----------------------------------------------------------------------------
(* Type correctness. *)

FenceOK == fence \in {Nobody} \cup {p \in Procs : job[p].pc \in {"check", "write"}}

(* Whoever holds the fence goes on holding it while its promotion is under *)
(* way, and gives it back with its last step.                              *)
LEMMA FenceKept ==
    ASSUME TypeOK, NEW p \in Procs, \A q \in Procs \ {p} : job'[q] = job[q],
           \/ fence' = fence /\ (job[p].pc \in {"check", "write"} => job'[p].pc \in {"check", "write"})
           \/ fence' = Released(p)
           \/ fence' = p /\ job'[p].pc = "check"
    PROVE  FenceOK'
  BY DEF TypeOK, FenceOK, Released

LEMMA ApprovalFields ==
    ASSUME NEW a \in Approval
    PROVE  /\ a.status = "none" => a = NoApproval
           /\ a.status # "none" => a \in [status: {"pending", "approved", "consumed"},
                 requester: People, payload: Payload, approvers: SUBSET People, live: BOOLEAN]
           /\ a.status \in {"none", "pending", "approved", "consumed"}
  BY DEF Approval, NoApproval

(* What the operations on approvals make of approval i. *)
LEMMA CreateEffect ==
    ASSUME TypeOK, NEW i \in Approvals, NEW r \in People, NEW payload \in Payload,
           CreateApproval(i, r, payload)
    PROVE  /\ approval' \in [Approvals -> Approval]
           /\ approval'[i].status = "pending" /\ approval'[i].requester = r
           /\ approval'[i].approvers = {}
           /\ approval[i].status = "none"
           /\ \A k \in Approvals \ {i} : approval'[k] = approval[k]
<1>1. PICK a : a = [status |-> "pending", requester |-> r, payload |-> payload,
                    approvers |-> {}, live |-> TRUE]
  OBVIOUS
<1>2. a \in Approval /\ a.status = "pending" /\ a.requester = r /\ a.approvers = {}
  BY <1>1 DEF Approval
<1>3. approval' = [approval EXCEPT ![i] = a] /\ approval[i].status = "none"
  BY <1>1 DEF CreateApproval, NoApproval
<1>. QED BY <1>2, <1>3 DEF TypeOK

LEMMA ApproveEffect ==
    ASSUME TypeOK, NEW i \in Approvals, NEW s \in People, Approve(i, s)
    PROVE  /\ approval' \in [Approvals -> Approval]
           /\ approval[i].status \in {"pending", "approved"}
           /\ approval[i].approvers \subseteq People
           /\ approval'[i].approvers = approval[i].approvers \cup {s}
           /\ approval'[i].requester = approval[i].requester /\ s # approval[i].requester
           /\ \/ approval'[i].status = "approved" /\ Cardinality(approval'[i].approvers) >= Quorum
              \/ approval'[i].status = approval[i].status
           /\ \A k \in Approvals \ {i} : approval'[k] = approval[k]
<1>1. PICK approvers : approvers = approval[i].approvers \cup {s}
  OBVIOUS
<1>2. PICK a : a = [approval[i] EXCEPT !.approvers = approvers, !.status = Approved(i, approvers)]
  OBVIOUS
<1>3. approval[i].status \in {"pending", "approved"} /\ s # approval[i].requester
  BY DEF Approve, MayApprove
<1>4. approval[i] \in [status: {"pending", "approved", "consumed"}, requester: People,
                       payload: Payload, approvers: SUBSET People, live: BOOLEAN]
  BY <1>3, ApprovalFields DEF TypeOK
<1>5. \/ Approved(i, approvers) = "approved" /\ Cardinality(approvers) >= Quorum
      \/ Approved(i, approvers) = approval[i].status
  BY DEF Approved
<1>6. /\ a \in Approval /\ a.approvers = approvers /\ a.requester = approval[i].requester
      /\ a.status = Approved(i, approvers)
  BY <1>1, <1>2, <1>3, <1>4, <1>5 DEF Approval
<1>7. approval' = [approval EXCEPT ![i] = a]
  BY <1>1, <1>2, <1>4 DEF Approve, TypeOK
<1>. QED BY <1>1, <1>3, <1>4, <1>5, <1>6, <1>7 DEF TypeOK

LEMMA ExpireEffect ==
    ASSUME TypeOK, NEW i \in Approvals, Expire(i)
    PROVE  /\ approval' \in [Approvals -> Approval]
           /\ approval[i].status \in {"pending", "approved"}
           /\ approval'[i].status = approval[i].status
           /\ approval'[i].approvers = approval[i].approvers
           /\ approval'[i].requester = approval[i].requester
           /\ \A k \in Approvals \ {i} : approval'[k] = approval[k]
<1>1. PICK a : a = [approval[i] EXCEPT !.live = FALSE]
  OBVIOUS
<1>2. approval[i].status \in {"pending", "approved"}
  BY DEF Expire
<1>3. approval[i] \in [status: {"pending", "approved", "consumed"}, requester: People,
                       payload: Payload, approvers: SUBSET People, live: BOOLEAN]
  BY <1>2, ApprovalFields DEF TypeOK
<1>4. /\ a \in Approval /\ a.approvers = approval[i].approvers
      /\ a.requester = approval[i].requester /\ a.status = approval[i].status
  BY <1>1, <1>3 DEF Approval
<1>5. approval' = [approval EXCEPT ![i] = a]
  BY <1>1 DEF Expire
<1>. QED BY <1>2, <1>4, <1>5 DEF TypeOK

LEMMA ConsumeEffect ==
    ASSUME TypeOK, NEW p \in Procs, NEW i \in Approvals, NEW payload \in Payload,
           Request(p, i, payload)
    PROVE  /\ approval' \in [Approvals -> Approval]
           /\ approval[i].status = "approved" /\ approval'[i].status = "consumed"
           /\ approval[i].payload = payload /\ approval'[i].payload = payload
           /\ approval'[i].approvers = approval[i].approvers
           /\ approval'[i].requester = approval[i].requester
           /\ \A k \in Approvals \ {i} : approval'[k] = approval[k]
<1>1. PICK a : a = [approval[i] EXCEPT !.status = "consumed"]
  OBVIOUS
<1>2. approval[i].status = "approved" /\ approval[i].payload = payload
  BY DEF Request, Consumable
<1>3. approval[i] \in [status: {"pending", "approved", "consumed"}, requester: People,
                       payload: Payload, approvers: SUBSET People, live: BOOLEAN]
  BY <1>2, ApprovalFields DEF TypeOK
<1>4. /\ a \in Approval /\ a.approvers = approval[i].approvers /\ a.payload = payload
      /\ a.requester = approval[i].requester /\ a.status = "consumed"
  BY <1>1, <1>2, <1>3 DEF Approval
<1>5. approval' = [approval EXCEPT ![i] = a]
  BY <1>1 DEF Request, Consumed
<1>. QED BY <1>2, <1>4, <1>5 DEF TypeOK

(* The link that a command has still to verify or to take back. *)
LEMMA PendingType ==
    ASSUME TypeOK, NEW p \in Procs
    PROVE  PendingOf(p) \subseteq Artifacts \X Artifacts
<1>1. job[p].pc \in LinkStep => job[p] \in LinkJob
  BY JobKind DEF TypeOK
<1>. QED BY <1>1 DEF PendingOf, LinkStep, LinkJob

LEMMA TypeInit == Init => TypeOK
<1>. SUFFICES ASSUME Init PROVE TypeOK
  OBVIOUS
<1>1. chan \in Channel
  BY DEF Init, NoChannel, Channel
<1>2. approval \in [Approvals -> Approval]
  BY DEF Init, Approval
<1>3. job \in [Procs -> JobType]
  BY IdleFields DEF Init
<1>4. spent \in [Approvals -> Nat] /\ late \in [Procs -> SUBSET Artifacts]
  BY DEF Init
<1>. QED BY <1>1, <1>2, <1>3, <1>4 DEF Init, TypeOK

LEMMA TypeNext == TypeOK /\ [Next]_vars => TypeOK'
<1>. SUFFICES ASSUME TypeOK, [Next]_vars PROVE TypeOK'
  OBVIOUS
<1>. USE DEF release, bounds, graph
<1>1. ASSUME NEW i \in Approvals, NEW r \in People, NEW payload \in Payloads,
             CreateApproval(i, r, payload)
      PROVE TypeOK'
  BY <1>1, PayloadType, CreateEffect DEF CreateApproval, TypeOK, Channel
<1>2. ASSUME NEW i \in Approvals, NEW s \in People, Approve(i, s) PROVE TypeOK'
  BY <1>2, ApproveEffect DEF Approve, TypeOK, Channel
<1>3. ASSUME NEW i \in Approvals, Expire(i) PROVE TypeOK'
  BY <1>3, ExpireEffect DEF Expire, TypeOK, Channel
<1>4. ASSUME NEW p \in Procs, NEW i \in Approvals, NEW payload \in Payloads, Request(p, i, payload)
      PROVE TypeOK'
  <2>1. payload \in Payload
    BY PayloadType
  <2>2. approval' \in [Approvals -> Approval]
    BY <1>4, <2>1, ConsumeEffect
  <2>3. /\ job' \in [Procs -> JobType] /\ job[p] = Idle
        /\ \A q \in Procs \ {p} : job'[q] = job[q]
    BY <1>4, <2>1, PromotionFields, StartEffect DEF Request, TypeOK
  <2>4. FenceOK'
    BY <1>4, <2>3, IdleFields, FenceKept DEF Request
  <2>. QED BY <1>4, <2>2, <2>3, <2>4 DEF Request, TypeOK, Channel, FenceOK
<1>5. ASSUME NEW p \in Procs, NEW c \in Artifacts, NEW q \in Artifacts, Link(p, c, q) PROVE TypeOK'
  <2>1. /\ job' \in [Procs -> JobType] /\ job[p] = Idle
        /\ \A x \in Procs \ {p} : job'[x] = job[x]
    BY <1>5, LinkingFields, StartEffect DEF Link, TypeOK
  <2>2. FenceOK'
    BY <1>5, <2>1, IdleFields, FenceKept DEF Link
  <2>3. late' \in [Procs -> SUBSET Artifacts]
    BY <1>5 DEF Link, Rewritten, TypeOK
  <2>4. links' \subseteq Artifacts \X Artifacts
    BY <1>5 DEF Link, Rewritten, TypeOK
  <2>. QED BY <1>5, <2>1, <2>2, <2>3, <2>4 DEF Link, TypeOK, Channel, FenceOK
<1>6. ASSUME NEW p \in Procs, NEW r \in Artifacts, StartCascade(p, r) PROVE TypeOK'
  <2>1. /\ job' \in [Procs -> JobType] /\ job[p] = Idle
        /\ \A x \in Procs \ {p} : job'[x] = job[x]
    BY <1>6, PlanType, CascadeFields, StartEffect DEF StartCascade, TypeOK
  <2>2. FenceOK'
    BY <1>6, <2>1, IdleFields, FenceKept DEF StartCascade
  <2>. QED BY <1>6, <2>1, <2>2 DEF StartCascade, TypeOK, Channel, FenceOK
<1>7. ASSUME NEW p \in Procs, Claim(p) PROVE TypeOK'
  <2>1. /\ job' \in [Procs -> JobType] /\ job'[p].pc = "check"
        /\ \A x \in Procs \ {p} : job'[x] = job[x]
    BY <1>7, GotoPromotion DEF Claim, TypeOK, At, PromotionStep
  <2>2. FenceOK'
    BY <1>7, <2>1, FenceKept DEF Claim
  <2>. QED BY <1>7, <2>1, <2>2 DEF Claim, TypeOK, Channel, FenceOK
<1>8. ASSUME NEW p \in Procs, Check(p) PROVE TypeOK'
  <2>1. job[p].pc = "check"
    BY <1>8 DEF Check, At
  <2>2. CASE Goto(p, "write") /\ UNCHANGED fence
    <3>1. /\ job' \in [Procs -> JobType] /\ job'[p].pc = "write"
          /\ \A x \in Procs \ {p} : job'[x] = job[x]
      BY <2>1, <2>2, GotoPromotion DEF TypeOK, PromotionStep
    <3>2. FenceOK'
      BY <2>2, <3>1, FenceKept
    <3>. QED BY <1>8, <3>1, <3>2 DEF Check, TypeOK, Channel, FenceOK
  <2>3. CASE Become(p, Idle) /\ fence' = Released(p)
    <3>1. job' \in [Procs -> JobType] /\ \A x \in Procs \ {p} : job'[x] = job[x]
      BY <2>3, IdleFields, BecomeEffect DEF TypeOK
    <3>2. FenceOK'
      BY <2>3, <3>1, FenceKept
    <3>. QED BY <1>8, <3>1, <3>2 DEF Check, TypeOK, Channel, FenceOK
  <2>. QED BY <1>8, <2>2, <2>3 DEF Check
<1>9. ASSUME NEW p \in Procs, Write(p) PROVE TypeOK'
  <2>1. job[p].pc = "write" /\ job[p] \in PromotionJob
    BY <1>9, JobKind DEF Write, At, TypeOK, PromotionStep
  <2>2. job[p].payload.art \in Artifacts /\ job[p].ap \in Approvals
    BY <2>1 DEF PromotionJob, Payload
  <2>3. chan' \in Channel /\ spent' \in [Approvals -> Nat]
    BY <1>9, <2>2, PointingType DEF Write, TypeOK
  <2>4. job' \in [Procs -> JobType] /\ \A x \in Procs \ {p} : job'[x] = job[x]
    BY <1>9, IdleFields, BecomeEffect DEF TypeOK, Write
  <2>5. FenceOK'
    BY <1>9, <2>4, FenceKept DEF Write
  <2>. QED BY <1>9, <2>3, <2>4, <2>5 DEF Write, TypeOK, FenceOK
<1>10. ASSUME NEW p \in Procs, Verify(p) PROVE TypeOK'
  <2>1. job[p].pc = "verify" /\ job[p] \in LinkJob /\ job \in [Procs -> JobType]
    BY <1>10, JobKind DEF Verify, At, TypeOK, LinkStep
  <2>3. job' \in [Procs -> JobType] /\ \A x \in Procs \ {p} : job'[x] = job[x]
    BY <1>10, <2>1, IdleFields, BecomeEffect, GotoUnlink DEF Verify, At
  <2>4. reported' \cup borrowed' \cup unverified' \subseteq Artifacts \X Artifacts
    BY <1>10, PendingType DEF Verify, TypeOK
  <2>5. FenceOK'
    BY <1>10, <2>1, <2>3, FenceKept DEF Verify
  <2>. QED BY <1>10, <2>3, <2>4, <2>5 DEF Verify, TypeOK, Channel, FenceOK
<1>11. ASSUME NEW p \in Procs, Unlink(p) PROVE TypeOK'
  <2>1. /\ job' \in [Procs -> JobType] /\ job[p].pc = "unlink"
        /\ \A x \in Procs \ {p} : job'[x] = job[x]
    BY <1>11, IdleFields, BecomeEffect DEF Unlink, At, TypeOK
  <2>2. FenceOK'
    BY <1>11, <2>1, FenceKept DEF Unlink
  <2>. QED BY <1>11, <2>1, <2>2 DEF Unlink, Without, TypeOK, Channel, FenceOK
<1>12. ASSUME NEW p \in Procs, Withdrawing(p) PROVE TypeOK'
  <2>1. FenceOK'
    BY <1>12, CascadeStep, FenceKept DEF Cascading
  <2>. QED BY <1>12, <2>1, CascadeStep DEF TypeOK, FenceOK
<1>13. ASSUME NEW p \in Procs, Abort(p) PROVE TypeOK'
  <2>1. FenceOK'
    BY <1>13, AbortEffect, FenceKept DEF Abort
  <2>2. unverified' \subseteq Artifacts \X Artifacts
    BY <1>13, PendingType DEF Abort, TypeOK
  <2>3. late' \in [Procs -> SUBSET Artifacts]
    BY <1>13 DEF Abort, TypeOK
  <2>. QED BY <1>13, <2>1, <2>2, <2>3, AbortEffect DEF TypeOK, FenceOK, Channel
<1>14. ASSUME NEW c \in Artifacts, NEW q \in Artifacts, LinkAgain(c, q) PROVE TypeOK'
  BY <1>14 DEF LinkAgain, TypeOK, Channel
<1>15. ASSUME NEW c \in Artifacts, NEW q \in Artifacts, Register(c, q) PROVE TypeOK'
  <2>1. late' \in [Procs -> SUBSET Artifacts] /\ links' \subseteq Artifacts \X Artifacts
    BY <1>15 DEF Register, Rewritten, TypeOK
  <2>. QED BY <1>15, <2>1 DEF Register, TypeOK, Channel
<1>16. ASSUME NEW c \in Artifacts, NEW parents \in SUBSET Artifacts, NEW gone \in BOOLEAN,
              Post(c, parents, gone)
      PROVE TypeOK'
  <2>1. late' \in [Procs -> SUBSET Artifacts] /\ links' \subseteq Artifacts \X Artifacts
    BY <1>16 DEF Post, Rewritten, TypeOK
  <2>2. unverified' \subseteq Artifacts \X Artifacts /\ revoked' \subseteq Artifacts
    BY <1>16 DEF Post, TypeOK
  <2>. QED BY <1>16, <2>1, <2>2 DEF Post, TypeOK, Channel
<1>17. CASE UNCHANGED vars
  BY <1>17 DEF vars, TypeOK, Channel
<1>. QED
  BY <1>1, <1>2, <1>3, <1>4, <1>5, <1>6, <1>7, <1>8, <1>9, <1>10, <1>11, <1>12, <1>13, <1>14,
     <1>15, <1>16, <1>17, NextCases

(* The documents, the links, the fence and the processes are well formed,  *)
(* and the fence is held by a promotion that is under way.                 *)
THEOREM TypeCorrect == Spec => []TypeOK
  BY TypeInit, TypeNext, PTL DEF Spec

-----------------------------------------------------------------------------
(* Links.  But for the artifacts that a POST has replaced, a link that is  *)
(* being verified or taken back is there, belongs to one process, and is   *)
(* not among those reported for good; what is settled is acyclic.          *)

ForGood(l) == l \in reported \ borrowed
Settled == Seen(links) \ (Pending \cup unverified)

LinkInv ==
    /\ \A p \in Procs : \A l \in PendingOf(p) : l[1] \in overwritten \/ (l \in links /\ ~ForGood(l))
    /\ \A p, q \in Procs : \A l \in PendingOf(p) \cap PendingOf(q) : l[1] \in overwritten \/ p = q
    /\ \A l \in reported \ borrowed : l[1] \in overwritten \/ l \in links
    /\ Acyclic(Settled)

(* Without some of its links an acyclic ancestry stays acyclic. *)
LEMMA AcyclicMonotone ==
    ASSUME NEW ls, NEW ms, ls \subseteq ms, Acyclic(ms)
    PROVE  Acyclic(ls)
  BY DEF Acyclic

(* Only a command that links has a pending link. *)
LEMMA NothingPending ==
    ASSUME NEW p \in Procs, job[p].pc \notin LinkStep
    PROVE  PendingOf(p) = {}
  BY DEF PendingOf, LinkStep

LEMMA NothingPendingAfter ==
    ASSUME NEW p \in Procs, job'[p].pc \notin LinkStep
    PROVE  PendingOf(p)' = {}
  BY DEF PendingOf, LinkStep

(* A step that touches neither the links nor who verifies what. *)
LEMMA LinksApart ==
    ASSUME LinkInv, UNCHANGED <<links, reported, borrowed, unverified, overwritten>>,
           \A p \in Procs : \/ job'[p] = job[p]
                            \/ job[p].pc \notin LinkStep /\ job'[p].pc \notin LinkStep
    PROVE  LinkInv'
<1>1. \A p \in Procs : PendingOf(p)' = PendingOf(p)
  <2>1. ASSUME NEW p \in Procs, job'[p] = job[p] PROVE PendingOf(p)' = PendingOf(p)
    BY <2>1 DEF PendingOf
  <2>. QED BY <2>1, NothingPending, NothingPendingAfter
<1>2. Pending' = Pending
  BY <1>1 DEF Pending
<1>3. Acyclic(Settled)'
  BY <1>2 DEF LinkInv, Settled, Seen, Acyclic
<1>. QED BY <1>1, <1>3 DEF LinkInv, ForGood

LEMMA LinkInit == Init => LinkInv
<1>. SUFFICES ASSUME Init PROVE LinkInv
  OBVIOUS
<1>1. \A p \in Procs : PendingOf(p) = {}
  BY IdleFields DEF Init, PendingOf
<1>2. links = {} /\ reported = {}
  BY DEF Init
<1>3. Acyclic({})
  BY DEF Acyclic
<1>4. Settled = {}
  BY <1>2 DEF Settled, Seen
<1>. QED BY <1>1, <1>2, <1>3, <1>4 DEF LinkInv

LEMMA LinkNext == TypeOK /\ LinkInv /\ [Next]_vars => LinkInv'
<1>. SUFFICES ASSUME TypeOK, LinkInv, [Next]_vars PROVE LinkInv'
  OBVIOUS
<1>. USE DEF release, bounds, graph
<1>1. ASSUME NEW p \in Procs, NEW i \in Approvals, NEW payload \in Payloads, Request(p, i, payload)
      PROVE LinkInv'
  <2>1. /\ job[p] = Idle /\ job'[p].pc = "fence" /\ \A q \in Procs \ {p} : job'[q] = job[q]
    BY <1>1, PayloadType, PromotionFields, StartEffect DEF Request, TypeOK
  <2>. QED BY <1>1, <2>1, IdleFields, LinksApart DEF Request, LinkStep
<1>2. ASSUME NEW p \in Procs, NEW c \in Artifacts, NEW q \in Artifacts, Link(p, c, q) PROVE LinkInv'
  <2>1. /\ job[p].pc = "idle" /\ job'[p].pc = "verify" /\ job'[p].child = c /\ job'[p].parent = q
        /\ \A x \in Procs \ {p} : job'[x] = job[x]
    BY <1>2, LinkingFields, IdleFields, StartEffect DEF Link, TypeOK
  <2>2. /\ <<c, q>> \notin links /\ links' = links \cup {<<c, q>>}
        /\ UNCHANGED <<reported, borrowed, unverified, overwritten>>
    BY <1>2 DEF Link, Rewritten
  <2>3. /\ PendingOf(p) = {} /\ PendingOf(p)' = {<<c, q>>}
        /\ \A x \in Procs \ {p} : PendingOf(x)' = PendingOf(x)
    BY <2>1 DEF PendingOf
  <2>4. Pending' = Pending \cup {<<c, q>>}
    BY <2>3 DEF Pending
  <2>5. Acyclic(Settled)'
    <3>1. Settled' \subseteq Settled
      BY <2>2, <2>4 DEF Settled, Seen
    <3>. QED BY <3>1, AcyclicMonotone DEF LinkInv, Acyclic
  <2>6. <<c, q>>[1] \in overwritten \/ ~ForGood(<<c, q>>)
    BY <2>2 DEF LinkInv, ForGood
  <2>. QED BY <2>2, <2>3, <2>5, <2>6 DEF LinkInv, ForGood
<1>3. ASSUME NEW p \in Procs, NEW r \in Artifacts, StartCascade(p, r) PROVE LinkInv'
  <2>1. /\ job[p] = Idle /\ job'[p].pc = "revoke" /\ \A q \in Procs \ {p} : job'[q] = job[q]
    BY <1>3, PlanType, CascadeFields, StartEffect DEF StartCascade, TypeOK
  <2>. QED BY <1>3, <2>1, IdleFields, LinksApart DEF StartCascade, LinkStep
<1>4. ASSUME NEW p \in Procs, Claim(p) PROVE LinkInv'
  <2>1. job[p].pc = "fence" /\ job'[p].pc = "check" /\ \A x \in Procs \ {p} : job'[x] = job[x]
    BY <1>4, GotoPromotion DEF Claim, TypeOK, At, PromotionStep
  <2>. QED BY <1>4, <2>1, LinksApart DEF Claim, LinkStep
<1>5. ASSUME NEW p \in Procs, Check(p) PROVE LinkInv'
  <2>1. job[p].pc = "check"
    BY <1>5 DEF Check, At
  <2>2. job'[p].pc \in {"write", "idle"} /\ \A x \in Procs \ {p} : job'[x] = job[x]
    BY <1>5, <2>1, GotoPromotion, IdleFields, BecomeEffect DEF Check, TypeOK, PromotionStep
  <2>. QED BY <1>5, <2>1, <2>2, LinksApart DEF Check, LinkStep
<1>6. ASSUME NEW p \in Procs, Write(p) PROVE LinkInv'
  <2>1. job[p].pc = "write" /\ job'[p].pc = "idle" /\ \A x \in Procs \ {p} : job'[x] = job[x]
    BY <1>6, IdleFields, BecomeEffect DEF Write, TypeOK, At
  <2>. QED BY <1>6, <2>1, LinksApart DEF Write, LinkStep
<1>7. ASSUME NEW p \in Procs, Verify(p) PROVE LinkInv'
  <2>1. job[p].pc = "verify" /\ UNCHANGED <<links, overwritten>>
    BY <1>7 DEF Verify, At
  <2>2. CASE Verifies(p)
    <3>1. job'[p].pc = "idle" /\ \A x \in Procs \ {p} : job'[x] = job[x]
      BY <1>7, <2>2, IdleFields, BecomeEffect DEF Verify, TypeOK
    <3>2. reported' = reported \cup PendingOf(p) /\ borrowed' = borrowed \ PendingOf(p)
      BY <1>7, <2>2 DEF Verify
    <3>3. PendingOf(p)' = {} /\ \A x \in Procs \ {p} : PendingOf(x)' = PendingOf(x)
      BY <3>1 DEF PendingOf
    <3>4. Acyclic(Settled)'
      <4>1. Settled' \subseteq Seen(links)
        BY <2>1 DEF Settled, Seen
      <4>. QED BY <4>1, <2>2, AcyclicMonotone DEF Verifies, Acyclic
    <3>5. \A l \in reported' \ borrowed' : l[1] \in overwritten' \/ l \in links'
      BY <2>1, <3>2 DEF LinkInv
    <3>6. ASSUME NEW x \in Procs, NEW l \in PendingOf(x)'
          PROVE  l[1] \in overwritten' \/ (l \in links' /\ ~ForGood(l)')
      <4>1. x # p /\ l \in PendingOf(x)
        BY <3>3, <3>6
      <4>2. l[1] \in overwritten \/ l \notin PendingOf(p)
        BY <4>1 DEF LinkInv
      <4>. QED BY <2>1, <3>2, <4>1, <4>2 DEF LinkInv, ForGood
    <3>7. \A x, y \in Procs : \A l \in PendingOf(x)' \cap PendingOf(y)' : l[1] \in overwritten' \/ x = y
      BY <2>1, <3>3 DEF LinkInv
    <3>. QED BY <3>4, <3>5, <3>6, <3>7 DEF LinkInv
  <2>3. CASE ~Verifies(p)
    <3>1. /\ job'[p].pc = "unlink" /\ job'[p].child = job[p].child /\ job'[p].parent = job[p].parent
          /\ UNCHANGED <<reported, borrowed, unverified>>
          /\ \A x \in Procs \ {p} : job'[x] = job[x]
      BY <1>7, <2>3, GotoUnlink DEF Verify, TypeOK
    <3>2. \A x \in Procs : PendingOf(x)' = PendingOf(x)
      BY <2>1, <3>1 DEF PendingOf
    <3>3. Acyclic(Settled)'
      <4>1. Pending' = Pending
        BY <3>2 DEF Pending
      <4>. QED BY <2>1, <3>1, <4>1 DEF LinkInv, Settled, Seen, Acyclic
    <3>. QED BY <2>1, <3>1, <3>2, <3>3 DEF LinkInv, ForGood
  <2>. QED BY <2>2, <2>3
<1>8. ASSUME NEW p \in Procs, Unlink(p) PROVE LinkInv'
  <2>1. /\ job[p].pc = "unlink" /\ job'[p].pc = "idle"
        /\ \A x \in Procs \ {p} : job'[x] = job[x]
    BY <1>8, IdleFields, BecomeEffect DEF Unlink, At, TypeOK
  <2>2. links' = links \ PendingOf(p) /\ UNCHANGED <<reported, borrowed, unverified, overwritten>>
    BY <1>8, <2>1 DEF Unlink, Without, PendingOf
  <2>3. PendingOf(p)' = {} /\ \A x \in Procs \ {p} : PendingOf(x)' = PendingOf(x)
    BY <2>1 DEF PendingOf
  <2>4. Acyclic(Settled)'
    <3>1. Pending \subseteq Pending' \cup PendingOf(p)
      BY <2>3 DEF Pending
    <3>2. Settled' \subseteq Settled
      BY <2>2, <3>1 DEF Settled, Seen
    <3>. QED BY <3>2, AcyclicMonotone DEF LinkInv, Acyclic
  <2>5. \A l \in reported' \ borrowed' : l[1] \in overwritten' \/ l \in links'
    BY <2>2 DEF LinkInv, ForGood
  <2>6. ASSUME NEW x \in Procs, NEW l \in PendingOf(x)'
        PROVE  l[1] \in overwritten' \/ (l \in links' /\ ~ForGood(l)')
    <3>1. x # p /\ l \in PendingOf(x)
      BY <2>3, <2>6
    <3>. QED BY <2>2, <3>1 DEF LinkInv, ForGood
  <2>7. \A x, y \in Procs : \A l \in PendingOf(x)' \cap PendingOf(y)' : l[1] \in overwritten' \/ x = y
    BY <2>2, <2>3 DEF LinkInv
  <2>. QED BY <2>4, <2>5, <2>6, <2>7 DEF LinkInv
<1>9. ASSUME NEW p \in Procs, Withdrawing(p) PROVE LinkInv'
  BY <1>9, CascadeStep, LinksApart DEF LinkStep, Cascading
<1>10. ASSUME NEW p \in Procs, Abort(p) PROVE LinkInv'
  <2>1. unverified' = unverified \cup PendingOf(p) /\ UNCHANGED <<links, reported, borrowed, overwritten>>
    BY <1>10, AbortEffect DEF Abort
  <2>2. PendingOf(p)' = {} /\ \A x \in Procs \ {p} : PendingOf(x)' = PendingOf(x)
    BY <1>10, AbortEffect DEF PendingOf
  <2>3. Acyclic(Settled)'
    <3>1. Pending \subseteq Pending' \cup PendingOf(p)
      BY <2>2 DEF Pending
    <3>2. Settled' \subseteq Settled
      BY <2>1, <3>1 DEF Settled, Seen
    <3>. QED BY <3>2, AcyclicMonotone DEF LinkInv, Acyclic
  <2>. QED BY <2>1, <2>2, <2>3 DEF LinkInv, ForGood
<1>11. ASSUME NEW c \in Artifacts, NEW q \in Artifacts, LinkAgain(c, q) PROVE LinkInv'
  <2>1. /\ <<c, q>> \in links /\ reported' = reported \cup {<<c, q>>}
        /\ borrowed' = borrowed \cup ({<<c, q>>} \cap Pending)
        /\ UNCHANGED <<job, links, unverified, overwritten>>
    BY <1>11 DEF LinkAgain
  <2>2. Pending' = Pending /\ \A x \in Procs : PendingOf(x)' = PendingOf(x)
    BY <2>1 DEF Pending, PendingOf
  <2>3. Acyclic(Settled)'
    BY <2>1, <2>2 DEF LinkInv, Settled, Seen, Acyclic
  <2>4. \A x \in Procs : PendingOf(x) \subseteq Pending
    BY DEF Pending
  <2>. QED BY <2>1, <2>2, <2>3, <2>4 DEF LinkInv, ForGood
<1>12. ASSUME NEW c \in Artifacts, NEW q \in Artifacts, Register(c, q) PROVE LinkInv'
  <2>1. /\ links' = links \cup {<<c, q>>} /\ unverified' = unverified \cup ({<<c, q>>} \ links)
        /\ UNCHANGED <<job, reported, borrowed, overwritten>>
    BY <1>12 DEF Register, Rewritten
  <2>2. Pending' = Pending /\ \A x \in Procs : PendingOf(x)' = PendingOf(x)
    BY <2>1 DEF Pending, PendingOf
  <2>3. Acyclic(Settled)'
    <3>1. Settled' \subseteq Settled
      BY <2>1, <2>2 DEF Settled, Seen
    <3>. QED BY <3>1, AcyclicMonotone DEF LinkInv, Acyclic
  <2>. QED BY <2>1, <2>2, <2>3 DEF LinkInv, ForGood
<1>13. ASSUME NEW c \in Artifacts, NEW parents \in SUBSET Artifacts, NEW gone \in BOOLEAN,
              Post(c, parents, gone)
       PROVE  LinkInv'
  <2>1. /\ links' = {l \in links : l[1] # c} \cup {c} \X parents
        /\ unverified' = unverified \cup (({c} \X parents) \ links)
        /\ overwritten' = overwritten \cup {c} /\ UNCHANGED <<job, reported, borrowed>>
    BY <1>13 DEF Post, Rewritten
  <2>2. Pending' = Pending /\ \A x \in Procs : PendingOf(x)' = PendingOf(x)
    BY <2>1 DEF Pending, PendingOf
  <2>3. Acyclic(Settled)'
    <3>1. Settled' \subseteq Settled
      BY <2>1, <2>2 DEF Settled, Seen
    <3>. QED BY <3>1, AcyclicMonotone DEF LinkInv, Acyclic
  <2>4. \A l \in links : l[1] = c \/ l \in links'
    BY <2>1
  <2>5. \A x \in Procs : \A l \in PendingOf(x)' : l[1] \in overwritten' \/ (l \in links' /\ ~ForGood(l)')
    BY <2>1, <2>2, <2>4 DEF LinkInv, ForGood
  <2>6. \A l \in reported' \ borrowed' : l[1] \in overwritten' \/ l \in links'
    BY <2>1, <2>4 DEF LinkInv
  <2>7. \A x, y \in Procs : \A l \in PendingOf(x)' \cap PendingOf(y)' : l[1] \in overwritten' \/ x = y
    BY <2>1, <2>2 DEF LinkInv
  <2>. QED BY <2>3, <2>5, <2>6, <2>7 DEF LinkInv
<1>14. CASE UNCHANGED <<job, links, reported, borrowed, unverified, overwritten>>
  BY <1>14, LinksApart
<1>. QED
  BY <1>1, <1>2, <1>3, <1>4, <1>5, <1>6, <1>7, <1>8, <1>9, <1>10, <1>11, <1>12, <1>13, <1>14, NextCases
     DEF vars, CreateApproval, Approve, Expire

(* However many commands add links at the same time, a cycle that a        *)
(* listing shows holds a link that no verification has seen.               *)
THEOREM LinksAcyclic == Spec => []SettledLinksAcyclic
<1>1. LinkInv => SettledLinksAcyclic
  BY DEF LinkInv, Settled, SettledLinksAcyclic
<1>. QED BY <1>1, TypeInit, TypeNext, LinkInit, LinkNext, PTL DEF Spec

(* The command that takes its own link back never takes another's that was *)
(* reported, unless it was reported while it was still to be verified.     *)
THEOREM ReportedLinksStay == Spec => []ReportedLinkStays
<1>1. LinkInv => ReportedLinkStays
  BY DEF LinkInv, ReportedLinkStays
<1>. QED BY <1>1, TypeInit, TypeNext, LinkInit, LinkNext, PTL DEF Spec

-----------------------------------------------------------------------------
(* Approvals.  Behind every promotion under way there is one approval,     *)
(* consumed by it alone and with the quorum of others than its requester.  *)

Promoters == {p \in Procs : job[p].pc \in PromotionStep}

Quorate(a) ==
    /\ a.status \in {"approved", "consumed"} => Cardinality(a.approvers) >= Quorum
    /\ a.status # "none" => IsFiniteSet(a.approvers) /\ a.requester \notin a.approvers

ApprovalInv ==
    /\ \A i \in Approvals : Quorate(approval[i])
    /\ \A i \in Approvals : spent[i] \in {0, 1}
    /\ \A i \in Approvals : approval[i].status # "consumed" => spent[i] = 0
    /\ \A p \in Promoters : LET i == job[p].ap
                             IN  /\ approval[i].status = "consumed" /\ spent[i] = 0
                                 /\ approval[i].payload = job[p].payload
    /\ \A p, q \in Promoters : job[p].ap = job[q].ap => p = q

LEMMA PromoterFields ==
    ASSUME TypeOK, NEW p \in Promoters
    PROVE  p \in Procs /\ job[p] \in PromotionJob /\ job[p].ap \in Approvals
           /\ job[p].payload \in Payload
<1>1. p \in Procs /\ job[p] \in PromotionJob
  BY JobKind DEF Promoters, TypeOK
<1>. QED BY <1>1 DEF PromotionJob

(* A step that changes approvals that are not consumed, and no promotion.  *)
LEMMA ApprovalsApart ==
    ASSUME TypeOK, ApprovalInv, UNCHANGED spent,
           \A i \in Approvals : Quorate(approval[i])',
           \A i \in Approvals : \/ approval'[i] = approval[i]
                                \/ approval[i].status # "consumed" /\ approval'[i].status # "consumed",
           \A p \in Procs : \/ job'[p] = job[p]
                            \/ job'[p].pc \notin PromotionStep
                            \/ /\ job[p].pc \in PromotionStep
                               /\ job'[p].ap = job[p].ap /\ job'[p].payload = job[p].payload
    PROVE  ApprovalInv'
<1>1. Promoters' \subseteq Promoters
  BY DEF Promoters
<1>2. \A p \in Promoters' : job'[p].ap = job[p].ap /\ job'[p].payload = job[p].payload
  BY DEF Promoters
<1>3. \A p \in Promoters' : approval'[job[p].ap] = approval[job[p].ap]
  BY <1>1, PromoterFields DEF ApprovalInv
<1>4. \A p \in Promoters' : LET i == job'[p].ap
                            IN  /\ approval'[i].status = "consumed" /\ spent'[i] = 0
                                /\ approval'[i].payload = job'[p].payload
  BY <1>1, <1>2, <1>3 DEF ApprovalInv
<1>5. \A p, q \in Promoters' : job'[p].ap = job'[q].ap => p = q
  BY <1>1, <1>2 DEF ApprovalInv
<1>6. \A i \in Approvals : approval'[i].status # "consumed" => spent'[i] = 0
  BY DEF ApprovalInv
<1>. QED BY <1>4, <1>5, <1>6 DEF ApprovalInv

LEMMA ApprovalInit == Init => ApprovalInv
<1>. SUFFICES ASSUME Init PROVE ApprovalInv
  OBVIOUS
<1>1. Promoters = {}
  BY IdleFields DEF Init, Promoters, PromotionStep
<1>. QED BY <1>1 DEF Init, ApprovalInv, Quorate, NoApproval

LEMMA ApprovalNext == TypeOK /\ ApprovalInv /\ [Next]_vars => ApprovalInv'
<1>. SUFFICES ASSUME TypeOK, ApprovalInv, [Next]_vars PROVE ApprovalInv'
  OBVIOUS
<1>. USE DEF release, bounds, graph
<1>1. ASSUME NEW i \in Approvals, NEW r \in People, NEW payload \in Payloads,
             CreateApproval(i, r, payload)
      PROVE ApprovalInv'
  <2>1. UNCHANGED <<spent, job>>
    BY <1>1 DEF CreateApproval
  <2>2. IsFiniteSet({})
    BY FS_EmptySet
  <2>3. Quorate(approval[i])'
    BY <1>1, <2>2, PayloadType, CreateEffect DEF Quorate
  <2>4. \A k \in Approvals : Quorate(approval[k])'
    BY <1>1, <2>3, PayloadType, CreateEffect DEF Quorate, ApprovalInv
  <2>. QED BY <1>1, <2>1, <2>4, PayloadType, CreateEffect, ApprovalsApart
<1>2. ASSUME NEW i \in Approvals, NEW s \in People, Approve(i, s) PROVE ApprovalInv'
  <2>1. UNCHANGED <<spent, job>>
    BY <1>2 DEF Approve
  <2>2. Quorate(approval[i]) /\ approval[i].status \in {"pending", "approved"}
    BY <1>2, ApproveEffect DEF ApprovalInv
  <2>3. IsFiniteSet(approval[i].approvers)
    BY <2>2 DEF Quorate
  <2>4. /\ IsFiniteSet(approval'[i].approvers)
        /\ Cardinality(approval'[i].approvers) >= Cardinality(approval[i].approvers)
    <3>1. /\ IsFiniteSet(approval[i].approvers \cup {s})
          /\ \/ Cardinality(approval[i].approvers \cup {s}) = Cardinality(approval[i].approvers)
             \/ Cardinality(approval[i].approvers \cup {s}) = Cardinality(approval[i].approvers) + 1
      BY <2>3, FS_AddElement
    <3>2. Cardinality(approval[i].approvers) \in Nat
      BY <2>3, FS_CardinalityType
    <3>3. approval'[i].approvers = approval[i].approvers \cup {s}
      BY <1>2, ApproveEffect
    <3>4. Cardinality(approval[i].approvers \cup {s}) >= Cardinality(approval[i].approvers)
      BY <3>1, <3>2
    <3>. QED BY <3>1, <3>3, <3>4
  <2>5. approval'[i].requester \notin approval'[i].approvers
    BY <1>2, <2>2, ApproveEffect DEF Quorate
  <2>6. approval'[i].status = "approved" => Cardinality(approval'[i].approvers) >= Quorum
    <3>1. Cardinality(approval[i].approvers) \in Nat /\ Cardinality(approval'[i].approvers) \in Nat
      BY <2>3, <2>4, FS_CardinalityType
    <3>2. CASE approval[i].status = "approved"
      <4>1. Cardinality(approval[i].approvers) >= Quorum
        BY <2>2, <3>2 DEF Quorate
      <4>. QED BY <2>4, <3>1, <4>1, GovernanceAssumption
    <3>. QED BY <1>2, <3>2, ApproveEffect
  <2>7. approval'[i].status \in {"pending", "approved"}
    BY <1>2, ApproveEffect
  <2>8. Quorate(approval[i])'
    BY <2>4, <2>5, <2>6, <2>7 DEF Quorate
  <2>9. \A k \in Approvals : Quorate(approval[k])'
    BY <1>2, <2>8, ApproveEffect DEF Quorate, ApprovalInv
  <2>. QED BY <1>2, <2>1, <2>2, <2>7, <2>9, ApproveEffect, ApprovalsApart
<1>3. ASSUME NEW i \in Approvals, Expire(i) PROVE ApprovalInv'
  <2>1. UNCHANGED <<spent, job>>
    BY <1>3 DEF Expire
  <2>2. \A k \in Approvals : Quorate(approval[k])'
    BY <1>3, ExpireEffect DEF Quorate, ApprovalInv
  <2>. QED BY <1>3, <2>1, <2>2, ExpireEffect, ApprovalsApart
<1>4. ASSUME NEW p \in Procs, NEW i \in Approvals, NEW payload \in Payloads, Request(p, i, payload)
      PROVE ApprovalInv'
  <2>1. payload \in Payload /\ UNCHANGED spent
    BY <1>4, PayloadType DEF Request
  <2>2. /\ job[p] = Idle /\ job'[p].pc = "fence" /\ job'[p].ap = i /\ job'[p].payload = payload
        /\ \A q \in Procs \ {p} : job'[q] = job[q]
    BY <1>4, <2>1, PromotionFields, StartEffect DEF Request, TypeOK
  <2>3. /\ approval[i].status = "approved" /\ approval'[i].status = "consumed"
        /\ approval'[i].payload = payload
        /\ \A k \in Approvals \ {i} : approval'[k] = approval[k]
    BY <1>4, <2>1, ConsumeEffect
  <2>4. \A k \in Approvals : Quorate(approval[k])'
    BY <1>4, <2>1, ConsumeEffect DEF Quorate, ApprovalInv
  <2>5. spent[i] = 0 /\ \A q \in Promoters : job[q].ap # i
    BY <2>3 DEF ApprovalInv
  <2>6. Promoters' = Promoters \cup {p} /\ p \notin Promoters
    BY <2>2, IdleFields DEF Promoters, PromotionStep
  <2>7. \A q \in Promoters : job'[q] = job[q] /\ approval'[job[q].ap] = approval[job[q].ap]
    BY <2>2, <2>3, <2>5, <2>6, PromoterFields DEF Promoters
  <2>8. \A q \in Promoters' : LET k == job'[q].ap
                              IN  /\ approval'[k].status = "consumed" /\ spent'[k] = 0
                                  /\ approval'[k].payload = job'[q].payload
    BY <2>1, <2>2, <2>3, <2>5, <2>6, <2>7 DEF ApprovalInv
  <2>9. \A q, x \in Promoters' : job'[q].ap = job'[x].ap => q = x
    BY <2>2, <2>5, <2>6, <2>7 DEF ApprovalInv
  <2>10. \A k \in Approvals : approval'[k].status # "consumed" => spent'[k] = 0
    BY <2>1, <2>3 DEF ApprovalInv
  <2>. QED BY <2>1, <2>4, <2>8, <2>9, <2>10 DEF ApprovalInv
<1>5. ASSUME NEW p \in Procs, NEW c \in Artifacts, NEW q \in Artifacts, Link(p, c, q) PROVE ApprovalInv'
  <2>1. job'[p].pc = "verify" /\ \A x \in Procs \ {p} : job'[x] = job[x]
    BY <1>5, LinkingFields, StartEffect DEF Link, TypeOK
  <2>. QED BY <1>5, <2>1, ApprovalsApart DEF Link, ApprovalInv, Quorate, PromotionStep
<1>6. ASSUME NEW p \in Procs, NEW r \in Artifacts, StartCascade(p, r) PROVE ApprovalInv'
  <2>1. job'[p].pc = "revoke" /\ \A x \in Procs \ {p} : job'[x] = job[x]
    BY <1>6, PlanType, CascadeFields, StartEffect DEF StartCascade, TypeOK
  <2>. QED BY <1>6, <2>1, ApprovalsApart DEF StartCascade, ApprovalInv, Quorate, PromotionStep
<1>7. ASSUME NEW p \in Procs, Claim(p) PROVE ApprovalInv'
  <2>1. /\ job[p].pc = "fence" /\ job'[p].ap = job[p].ap /\ job'[p].payload = job[p].payload
        /\ \A x \in Procs \ {p} : job'[x] = job[x]
    BY <1>7, GotoPromotion DEF Claim, TypeOK, At, PromotionStep
  <2>. QED BY <1>7, <2>1, ApprovalsApart DEF Claim, ApprovalInv, Quorate, PromotionStep
<1>8. ASSUME NEW p \in Procs, Check(p) PROVE ApprovalInv'
  <2>1. job[p].pc = "check" /\ UNCHANGED <<spent, approval>>
    BY <1>8 DEF Check, At
  <2>2. /\ \/ job'[p].pc = "idle"
           \/ job'[p].ap = job[p].ap /\ job'[p].payload = job[p].payload
        /\ \A x \in Procs \ {p} : job'[x] = job[x]
    BY <1>8, <2>1, GotoPromotion, IdleFields, BecomeEffect DEF Check, TypeOK, PromotionStep
  <2>. QED BY <2>1, <2>2, ApprovalsApart DEF ApprovalInv, Quorate, PromotionStep
<1>9. ASSUME NEW p \in Procs, Write(p) PROVE ApprovalInv'
  <2>1. /\ p \in Promoters /\ job'[p].pc = "idle" /\ UNCHANGED approval
        /\ \A x \in Procs \ {p} : job'[x] = job[x]
    BY <1>9, IdleFields, BecomeEffect DEF Write, TypeOK, At, Promoters, PromotionStep
  <2>2. CASE UNCHANGED spent
    BY <2>1, <2>2, ApprovalsApart DEF ApprovalInv, Quorate, PromotionStep
  <2>3. CASE spent' = [spent EXCEPT ![job[p].ap] = @ + 1]
    <3>1. /\ job[p].ap \in Approvals /\ spent[job[p].ap] = 0
          /\ approval[job[p].ap].status = "consumed"
      BY <2>1, PromoterFields DEF ApprovalInv
    <3>2. spent'[job[p].ap] = 1 /\ \A k \in Approvals \ {job[p].ap} : spent'[k] = spent[k]
      BY <2>3, <3>1 DEF TypeOK
    <3>3. Promoters' = Promoters \ {p} /\ \A q \in Promoters' : job'[q] = job[q]
      BY <2>1 DEF Promoters, PromotionStep
    <3>4. \A q \in Promoters' : job[q].ap \in Approvals \ {job[p].ap}
      BY <2>1, <3>3, PromoterFields DEF ApprovalInv
    <3>5. \A q \in Promoters' : LET k == job'[q].ap
                                IN  /\ approval'[k].status = "consumed" /\ spent'[k] = 0
                                    /\ approval'[k].payload = job'[q].payload
      BY <2>1, <3>2, <3>3, <3>4 DEF ApprovalInv
    <3>6. \A q, x \in Promoters' : job'[q].ap = job'[x].ap => q = x
      BY <3>3 DEF ApprovalInv
    <3>7. \A k \in Approvals : /\ spent'[k] \in {0, 1}
                               /\ approval'[k].status # "consumed" => spent'[k] = 0
      BY <2>1, <3>1, <3>2 DEF ApprovalInv
    <3>8. \A k \in Approvals : Quorate(approval[k])'
      BY <2>1 DEF ApprovalInv, Quorate
    <3>. QED BY <3>5, <3>6, <3>7, <3>8 DEF ApprovalInv
  <2>. QED BY <1>9, <2>2, <2>3 DEF Write
<1>10. ASSUME NEW p \in Procs, Verify(p) PROVE ApprovalInv'
  <2>1. job'[p].pc \in {"idle", "unlink"} /\ \A x \in Procs \ {p} : job'[x] = job[x]
    BY <1>10, IdleFields, BecomeEffect, GotoUnlink DEF Verify, TypeOK
  <2>. QED BY <1>10, <2>1, ApprovalsApart DEF Verify, ApprovalInv, Quorate, PromotionStep
<1>11. ASSUME NEW p \in Procs, Unlink(p) PROVE ApprovalInv'
  <2>1. job'[p].pc = "idle" /\ \A x \in Procs \ {p} : job'[x] = job[x]
    BY <1>11, IdleFields, BecomeEffect DEF Unlink, TypeOK
  <2>. QED BY <1>11, <2>1, ApprovalsApart DEF Unlink, ApprovalInv, Quorate, PromotionStep
<1>12. ASSUME NEW p \in Procs, Withdrawing(p) PROVE ApprovalInv'
  BY <1>12, CascadeStep, ApprovalsApart DEF ApprovalInv, Quorate, PromotionStep, Cascading
<1>13. ASSUME NEW p \in Procs, Abort(p) PROVE ApprovalInv'
  BY <1>13, AbortEffect, ApprovalsApart DEF ApprovalInv, Quorate, PromotionStep
<1>14. CASE UNCHANGED <<job, approval, spent>>
  BY <1>14, ApprovalsApart DEF ApprovalInv, Quorate
<1>. QED
  BY <1>1, <1>2, <1>3, <1>4, <1>5, <1>6, <1>7, <1>8, <1>9, <1>10, <1>11, <1>12, <1>13, <1>14, NextCases
     DEF vars, LinkAgain, Register, Post

(* However many requests name an approval, one of them moves the channel.  *)
THEOREM ApprovalsSpentOnce == Spec => []ApprovalSpentOnce
<1>1. ApprovalInv => ApprovalSpentOnce
  BY DEF ApprovalInv, ApprovalSpentOnce
<1>. QED BY <1>1, TypeInit, TypeNext, ApprovalInit, ApprovalNext, PTL DEF Spec

-----------------------------------------------------------------------------
(* The channel.  A cascade that is about to roll back has revoked the      *)
(* artifact it saw there, and only a POST can have made it active again;   *)
(* if the generation is still the one it read, so is the rest of the       *)
(* pointer.                                                                *)

Withdrawn == revoked \cup overwritten

SawPointer(p) ==
    /\ job[p].gen <= chan.gen
    /\ job[p].gen = chan.gen => chan.art = job[p].art /\ chan.prev = job[p].prev

CascadeInv ==
    \A p \in Procs :
        /\ job[p].pc \in {"pointer", "previous", "rollback"} => job[p].art \in Withdrawn
        /\ job[p].pc \in {"previous", "rollback"} => SawPointer(p)

(* The steps of a cascade, as far as they concern the pointer. *)
LEMMA RevokeEffect ==
    ASSUME TypeOK, NEW p \in Procs, Revoke(p)
    PROVE  /\ job'[p].pc = "revoke" \/ (job'[p].pc = "pointer" /\ job'[p].art \in revoked')
           /\ revoked \subseteq revoked' /\ chan' = chan
<1>1. job[p].pc = "revoke" /\ job[p] \in CascadeJob /\ job \in [Procs -> JobType]
  BY JobKind DEF Revoke, At, Cascading, TypeOK
<1>2. PICK row \in First(job[p].todo) :
           LET rest == [job[p] EXCEPT !.todo = @ \ {row}]
           IN  IF row.gone THEN Become(p, rest) /\ UNCHANGED revoked
               ELSE /\ revoked' = revoked \cup {row.art}
                    /\ Become(p, [rest EXCEPT !.pc = "pointer", !.art = row.art])
  BY DEF Revoke
<1>3. PICK rest : rest = [job[p] EXCEPT !.todo = @ \ {row}]
  OBVIOUS
<1>4. PICK next : next = [rest EXCEPT !.pc = "pointer", !.art = row.art]
  OBVIOUS
<1>5. rest.pc = "revoke" /\ next.pc = "pointer" /\ next.art = row.art
  BY <1>1, <1>3, <1>4 DEF CascadeJob
<1>6. \/ Become(p, rest) /\ UNCHANGED revoked
      \/ revoked' = revoked \cup {row.art} /\ Become(p, next)
  BY <1>2, <1>3, <1>4
<1>7. job'[p] = rest \/ (job'[p] = next /\ row.art \in revoked')
  BY <1>1, <1>6 DEF Become
<1>8. revoked \subseteq revoked' /\ chan' = chan
  BY <1>6 DEF Revoke, release
<1>. QED BY <1>5, <1>7, <1>8

LEMMA PointerEffect ==
    ASSUME TypeOK, NEW p \in Procs, Pointer(p)
    PROVE  /\ \/ job'[p].pc = "revoke"
              \/ /\ job'[p].pc = "previous" /\ job'[p].art = job[p].art
                 /\ job'[p].prev = chan.prev /\ job'[p].gen = chan.gen
                 /\ chan.art = job[p].art
           /\ job[p].pc = "pointer" /\ revoked' = revoked /\ chan' = chan
<1>1. job[p].pc = "pointer" /\ job[p] \in CascadeJob /\ job \in [Procs -> JobType]
  BY JobKind DEF Pointer, At, Cascading, TypeOK
<1>2. PICK j : j = [job[p] EXCEPT !.pc = "previous", !.prev = chan.prev, !.gen = chan.gen]
  OBVIOUS
<1>3. j.pc = "previous" /\ j.art = job[p].art /\ j.prev = chan.prev /\ j.gen = chan.gen
  BY <1>1, <1>2 DEF CascadeJob
<1>4. Goto(p, "revoke") \/ (Become(p, j) /\ chan.art = job[p].art)
  BY <1>2 DEF Pointer
<1>5. job'[p].pc = "revoke" \/ (job'[p] = j /\ chan.art = job[p].art)
  BY <1>1, <1>4, GotoCascade DEF Become, Cascading
<1>. QED BY <1>1, <1>3, <1>5 DEF Pointer, release

LEMMA PreviousEffect ==
    ASSUME TypeOK, NEW p \in Procs, Previous(p)
    PROVE  /\ \/ job'[p].pc = "revoke"
              \/ /\ job'[p].pc = "rollback" /\ job'[p].art = job[p].art
                 /\ job'[p].prev = job[p].prev /\ job'[p].gen = job[p].gen
           /\ job[p].pc = "previous" /\ revoked' = revoked /\ chan' = chan
<1>1. job[p].pc = "previous" /\ job[p] \in CascadeJob /\ job \in [Procs -> JobType]
  BY JobKind DEF Previous, At, Cascading, TypeOK
<1>2. PICK j : j = [job[p] EXCEPT !.pc = "rollback"]
  OBVIOUS
<1>3. j.pc = "rollback" /\ j.art = job[p].art /\ j.prev = job[p].prev /\ j.gen = job[p].gen
  BY <1>1, <1>2 DEF CascadeJob
<1>4. Goto(p, "revoke") \/ Goto(p, "rollback")
  BY DEF Previous
<1>5. job'[p].pc = "revoke" \/ job'[p] = j
  BY <1>1, <1>2, <1>4, GotoCascade DEF Goto, Cascading
<1>. QED BY <1>1, <1>3, <1>5 DEF Previous, release

LEMMA RollbackEffect ==
    ASSUME TypeOK, NEW p \in Procs, Rollback(p)
    PROVE  /\ job'[p].pc = "revoke" /\ job[p].pc = "rollback" /\ revoked' = revoked
           /\ chan' = chan \/ (job[p].gen = chan.gen /\ chan' = Pointing(job[p].prev))
<1>1. job[p].pc = "rollback" /\ job \in [Procs -> JobType]
  BY DEF Rollback, At, TypeOK
<1>. QED BY <1>1, GotoCascade DEF Rollback, Expected, Cascading

LEMMA PointingFields ==
    ASSUME chan \in Channel, NEW a
    PROVE  Pointing(a).gen = chan.gen + 1 /\ Pointing(a).art = a /\ chan.gen \in Nat
  BY DEF Pointing, Channel

LEMMA CascadeGen ==
    ASSUME TypeOK, NEW p \in Procs, job[p].pc \in Cascading
    PROVE  job[p].gen \in Nat
  BY JobKind DEF TypeOK, CascadeJob

(* Whatever moves the channel raises its generation, so that what the      *)
(* other cascades saw is marked as old.                                    *)
LEMMA OthersSaw ==
    ASSUME TypeOK, CascadeInv, NEW p \in Procs, job'[p] = job[p], Withdrawn \subseteq Withdrawn',
           chan' = chan \/ \E a : chan' = Pointing(a)
    PROVE  /\ job'[p].pc \in {"pointer", "previous", "rollback"} => job'[p].art \in Withdrawn'
           /\ job'[p].pc \in {"previous", "rollback"} => SawPointer(p)'
<1>1. job'[p].pc \in {"pointer", "previous", "rollback"} => job'[p].art \in Withdrawn'
  BY DEF CascadeInv
<1>2. ASSUME job'[p].pc \in {"previous", "rollback"} PROVE SawPointer(p)'
  <2>1. SawPointer(p) /\ job[p].gen \in Nat /\ chan \in Channel /\ chan.gen \in Nat
    BY <1>2, CascadeGen DEF CascadeInv, Cascading, TypeOK, Channel
  <2>2. CASE chan' = chan
    BY <2>1, <2>2 DEF SawPointer
  <2>3. CASE \E a : chan' = Pointing(a)
    <3>1. chan'.gen = chan.gen + 1
      BY <2>1, <2>3, PointingFields
    <3>. QED BY <2>1, <3>1 DEF SawPointer
  <2>. QED BY <2>2, <2>3
<1>. QED BY <1>1, <1>2

LEMMA CascadeInit == Init => CascadeInv
  BY IdleFields DEF Init, CascadeInv

LEMMA CascadeNext == TypeOK /\ CascadeInv /\ [Next]_vars => CascadeInv'
<1>. SUFFICES ASSUME TypeOK, CascadeInv, [Next]_vars PROVE CascadeInv'
  OBVIOUS
<1>. USE DEF release, bounds, graph, Withdrawn
<1>. DEFINE Apart(p) == job'[p].pc \notin {"pointer", "previous", "rollback"}
(* One process moves, and ends up where nothing is to be shown.            *)
<1>1. ASSUME NEW p \in Procs, \A q \in Procs \ {p} : job'[q] = job[q], Apart(p),
             Withdrawn \subseteq Withdrawn', chan' = chan \/ \E a : chan' = Pointing(a)
      PROVE CascadeInv'
  BY <1>1, OthersSaw DEF CascadeInv
<1>2. ASSUME NEW p \in Procs, NEW i \in Approvals, NEW payload \in Payloads, Request(p, i, payload)
      PROVE CascadeInv'
  <2>1. job'[p].pc = "fence" /\ \A q \in Procs \ {p} : job'[q] = job[q]
    BY <1>2, PayloadType, PromotionFields, StartEffect DEF Request, TypeOK
  <2>. QED BY <1>1, <1>2, <2>1 DEF Request
<1>3. ASSUME NEW p \in Procs, NEW c \in Artifacts, NEW q \in Artifacts, Link(p, c, q) PROVE CascadeInv'
  <2>1. job'[p].pc = "verify" /\ \A x \in Procs \ {p} : job'[x] = job[x]
    BY <1>3, LinkingFields, StartEffect DEF Link, TypeOK
  <2>. QED BY <1>1, <1>3, <2>1 DEF Link
<1>4. ASSUME NEW p \in Procs, NEW r \in Artifacts, StartCascade(p, r) PROVE CascadeInv'
  <2>1. job'[p].pc = "revoke" /\ \A x \in Procs \ {p} : job'[x] = job[x]
    BY <1>4, PlanType, CascadeFields, StartEffect DEF StartCascade, TypeOK
  <2>. QED BY <1>1, <1>4, <2>1 DEF StartCascade
<1>5. ASSUME NEW p \in Procs, Claim(p) PROVE CascadeInv'
  <2>1. job'[p].pc = "check" /\ \A x \in Procs \ {p} : job'[x] = job[x]
    BY <1>5, GotoPromotion DEF Claim, TypeOK, At, PromotionStep
  <2>. QED BY <1>1, <1>5, <2>1 DEF Claim
<1>6. ASSUME NEW p \in Procs, Check(p) PROVE CascadeInv'
  <2>1. job[p].pc = "check"
    BY <1>6 DEF Check, At
  <2>2. job'[p].pc \in {"write", "idle"} /\ \A x \in Procs \ {p} : job'[x] = job[x]
    BY <1>6, <2>1, GotoPromotion, IdleFields, BecomeEffect DEF Check, TypeOK, PromotionStep
  <2>. QED BY <1>1, <1>6, <2>2 DEF Check
<1>7. ASSUME NEW p \in Procs, Write(p) PROVE CascadeInv'
  <2>1. job'[p].pc = "idle" /\ \A x \in Procs \ {p} : job'[x] = job[x]
    BY <1>7, IdleFields, BecomeEffect DEF Write, TypeOK
  <2>2. chan' = chan \/ \E a : chan' = Pointing(a)
    BY <1>7 DEF Write
  <2>. QED BY <1>1, <1>7, <2>1, <2>2 DEF Write
<1>8. ASSUME NEW p \in Procs, Verify(p) PROVE CascadeInv'
  <2>1. job'[p].pc \in {"idle", "unlink"} /\ \A x \in Procs \ {p} : job'[x] = job[x]
    BY <1>8, IdleFields, BecomeEffect, GotoUnlink DEF Verify, TypeOK
  <2>. QED BY <1>1, <1>8, <2>1 DEF Verify
<1>9. ASSUME NEW p \in Procs, Unlink(p) PROVE CascadeInv'
  <2>1. job'[p].pc = "idle" /\ \A x \in Procs \ {p} : job'[x] = job[x]
    BY <1>9, IdleFields, BecomeEffect DEF Unlink, TypeOK
  <2>. QED BY <1>1, <1>9, <2>1 DEF Unlink
<1>10. ASSUME NEW p \in Procs, Withdrawing(p) PROVE CascadeInv'
  <2>1. \A q \in Procs \ {p} : job'[q] = job[q]
    BY <1>10, CascadeStep
  <2>2. CASE Revoke(p)
    BY <1>10, <2>1, <2>2, CascadeStep, RevokeEffect, OthersSaw DEF CascadeInv
  <2>3. CASE Pointer(p)
    <3>1. chan.gen \in Nat
      BY DEF TypeOK, Channel
    <3>. QED BY <1>10, <2>1, <2>3, <3>1, CascadeStep, PointerEffect, OthersSaw DEF CascadeInv, SawPointer
  <2>4. CASE Previous(p)
    BY <1>10, <2>1, <2>4, CascadeStep, PreviousEffect, OthersSaw DEF CascadeInv, SawPointer
  <2>5. CASE Rollback(p)
    BY <1>1, <1>10, <2>1, <2>5, CascadeStep, RollbackEffect
  <2>6. CASE EndCascade(p)
    <3>1. job'[p].pc = "idle"
      BY <2>6, IdleFields, BecomeEffect DEF EndCascade, TypeOK
    <3>. QED BY <1>1, <2>1, <2>6, <3>1 DEF EndCascade
  <2>. QED BY <1>10, <2>2, <2>3, <2>4, <2>5, <2>6 DEF Withdrawing
<1>11. ASSUME NEW p \in Procs, Abort(p) PROVE CascadeInv'
  BY <1>1, <1>11, AbortEffect
(* No process moves. *)
<1>12. CASE UNCHANGED <<chan, job>> /\ Withdrawn \subseteq Withdrawn'
  BY <1>12, OthersSaw DEF CascadeInv
<1>13. ASSUME NEW c \in Artifacts, NEW parents \in SUBSET Artifacts, NEW gone \in BOOLEAN,
              Post(c, parents, gone)
       PROVE  CascadeInv'
  BY <1>12, <1>13 DEF Post
<1>. QED
  BY <1>2, <1>3, <1>4, <1>5, <1>6, <1>7, <1>8, <1>9, <1>10, <1>11, <1>12, <1>13, NextCases
     DEF vars, CreateApproval, Approve, Expire, LinkAgain, Register

(* What a step that moves the channel has behind it. *)
QuorumBehind ==
    \/ /\ chan.art \in Withdrawn /\ chan'.art = chan.prev
    \/ \E p \in Procs :
          /\ At(p, "write") /\ job'[p] # job[p]
          /\ LET a == approval[job[p].ap]
             IN  /\ Cardinality(a.approvers \ {a.requester}) >= Quorum
                 /\ a.payload.art = chan'.art
                 /\ a.payload.gen \in {AnyGen, chan.gen}

LEMMA QuorumStep ==
    ASSUME TypeOK, ApprovalInv, CascadeInv, [Next]_vars, chan' # chan
    PROVE  QuorumBehind
<1>1. PICK p \in Procs : Write(p) \/ Withdrawing(p)
  BY NextCases DEF vars, release, CreateApproval, Approve, Expire, Request, Link, StartCascade,
     Claim, Check, Verify, Unlink, Abort, LinkAgain, Register, Post
<1>2. CASE Write(p)
  <2>1. /\ job[p].pc = "write" /\ job'[p].pc = "idle" /\ p \in Promoters
    BY <1>2, IdleFields, BecomeEffect DEF Write, TypeOK, At, Promoters, PromotionStep
  <2>2. /\ job[p].payload.gen \in {AnyGen, chan.gen} /\ chan' = Pointing(job[p].payload.art)
    BY <1>2 DEF Write
  <2>3. /\ job[p].ap \in Approvals /\ approval[job[p].ap].status = "consumed"
        /\ approval[job[p].ap].payload = job[p].payload
    BY <2>1, PromoterFields DEF ApprovalInv
  <2>4. Quorate(approval[job[p].ap])
    BY <2>3 DEF ApprovalInv
  <2>5. approval[job[p].ap].approvers \ {approval[job[p].ap].requester} = approval[job[p].ap].approvers
    BY <2>3, <2>4 DEF Quorate
  <2>6. Cardinality(approval[job[p].ap].approvers) >= Quorum
    BY <2>3, <2>4 DEF Quorate
  <2>7. chan'.art = job[p].payload.art
    BY <2>2, PointingFields DEF TypeOK
  <2>. QED BY <2>1, <2>2, <2>3, <2>5, <2>6, <2>7 DEF QuorumBehind, At
<1>3. CASE Withdrawing(p)
  <2>1. Rollback(p)
    BY <1>3 DEF Withdrawing, Revoke, Pointer, Previous, EndCascade, release
  <2>2. /\ job[p].pc = "rollback" /\ job[p].gen = chan.gen /\ chan' = Pointing(job[p].prev)
    BY <2>1, RollbackEffect
  <2>3. job[p].art \in Withdrawn /\ chan.art = job[p].art /\ chan.prev = job[p].prev
    BY <2>2 DEF CascadeInv, SawPointer
  <2>. QED BY <2>2, <2>3, PointingFields DEF QuorumBehind, TypeOK
<1>. QED BY <1>1, <1>2, <1>3

(* A protected channel moves only to what a quorum of others than the      *)
(* requester approved, from the generation they approved it for, or back   *)
(* to its previous artifact once the current one has been withdrawn.        *)
THEOREM QuorumBehindPromotions == Spec => QuorumBehindPromotion
<1>1. TypeOK /\ ApprovalInv /\ CascadeInv /\ [Next]_vars => [chan' # chan => QuorumBehind]_vars
  BY QuorumStep
<1>2. Spec => [][chan' # chan => QuorumBehind]_vars
  BY <1>1, TypeInit, TypeNext, ApprovalInit, ApprovalNext, CascadeInit, CascadeNext, PTL DEF Spec
<1>. QED BY <1>2 DEF QuorumBehindPromotion, QuorumBehind, Withdrawn
-----------------------------------------------------------------------------
(* The levels of the ancestry.  Levels is a recursive function: that it is *)
(* defined, and what it computes, follows from the least number for which  *)
(* it would not be so.                                                     *)

(* A set of numbers that is not empty has a least one. *)
LEMMA LeastOf ==
    ASSUME NEW T \in SUBSET Nat, T # {}
    PROVE  \E m \in T : \A k \in T : m <= k
<1>. DEFINE R == {s \in Nat \X Nat : s[1] < s[2]}
<1>1. IsWellFoundedOn(R, Nat)
  BY NatLessThanWellFounded DEF OpToRel
<1>. HIDE DEF R
<1>2. PICK m \in T : \A k \in T : ~ (<<k, m>> \in R)
  BY <1>1, WFMin
<1>3. \A k \in T : ~ (k < m)
  BY <1>2 DEF R
<1>. QED BY <1>3

(* What level n is, when the levels below it are f. *)
Level(ls, r, f, n) ==
    IF n = 0 THEN {r}
    ELSE {c \in Artifacts : \E q \in f[n - 1] : <<c, q>> \in ls} \ UNION {f[k] : k \in 1 .. (n - 1)}

Depth == Cardinality(Artifacts)

LEMMA DepthType == Depth \in Nat /\ (Artifacts # {} => Depth > 0)
  BY GovernanceAssumption, FS_CardinalityType, FS_EmptySet DEF Depth

(* Each level depends on those below it only, so that they are defined.    *)
LEMMA LevelsExist ==
    ASSUME NEW ls, NEW r
    PROVE  \E f : f = [n \in 0 .. Depth |-> Level(ls, r, f, n)]
<1>. DEFINE Codomain == SUBSET (Artifacts \cup {r})
            UpTo(m) == \E f \in [0 .. m -> Codomain] : \A n \in 0 .. m : f[n] = Level(ls, r, f, n)
            Bad == {m \in 0 .. Depth : ~UpTo(m)}
<1>0. Depth \in Nat
  BY DepthType
<1>1. ASSUME Bad # {} PROVE FALSE
  <2>0. Bad \in SUBSET Nat
    BY <1>0
  <2>1. PICK m \in Bad : \A k \in Bad : m <= k
    <3>. HIDE DEF Bad
    <3>. QED BY <1>1, <2>0, LeastOf
  <2>2. m \in 0 .. Depth /\ ~UpTo(m) /\ m \in Nat
    BY <1>0, <2>1
  <2>3. CASE m = 0
    <3>. DEFINE f == [n \in 0 .. 0 |-> {r}]
    <3>1. f \in [0 .. 0 -> Codomain] /\ \A n \in 0 .. 0 : f[n] = Level(ls, r, f, n)
      BY DEF Level
    <3>. QED BY <2>2, <2>3, <3>1
  <2>4. CASE m > 0
    <3>1. UpTo(m - 1)
      BY <1>0, <2>1, <2>2, <2>4
    <3>2. PICK f \in [0 .. (m - 1) -> Codomain] : \A n \in 0 .. (m - 1) : f[n] = Level(ls, r, f, n)
      BY <3>1
    <3>. DEFINE top == Level(ls, r, f, m)
                g == [n \in 0 .. m |-> IF n = m THEN top ELSE f[n]]
    <3>3. top \in Codomain
      BY DEF Level
    <3>. HIDE DEF top
    <3>4. g \in [0 .. m -> Codomain]
      BY <2>2, <3>2, <3>3
    <3>5. \A n \in 0 .. (m - 1) : g[n] = f[n]
      BY <2>2
    <3>6. ASSUME NEW n \in 0 .. m PROVE Level(ls, r, g, n) = Level(ls, r, f, n)
      <4>1. n # 0 => n - 1 \in 0 .. (m - 1) /\ \A k \in 1 .. (n - 1) : k \in 0 .. (m - 1)
        BY <2>2, <3>6
      <4>. HIDE DEF g
      <4>. QED BY <3>5, <4>1 DEF Level
    <3>7. \A n \in 0 .. m : g[n] = Level(ls, r, g, n)
      <4>1. g[m] = top /\ top = Level(ls, r, f, m)
        BY <2>2 DEF top
      <4>. HIDE DEF g
      <4>2. ASSUME NEW n \in 0 .. m PROVE n \in 0 .. (m - 1) \/ n = m
        BY <2>2
      <4>. QED BY <2>2, <3>2, <3>5, <3>6, <4>1, <4>2
    <3>. QED BY <2>2, <3>4, <3>7
  <2>. QED BY <2>2, <2>3, <2>4
<1>2. UpTo(Depth)
  <2>. HIDE DEF UpTo
  <2>. QED BY <1>0, <1>1
<1>3. PICK f \in [0 .. Depth -> Codomain] : \A n \in 0 .. Depth : f[n] = Level(ls, r, f, n)
  BY <1>2
<1>4. f = [n \in 0 .. Depth |-> f[n]]
  BY <1>3
<1>5. f = [n \in 0 .. Depth |-> Level(ls, r, f, n)]
  BY <1>3, <1>4
<1>. QED BY <1>5

LEMMA LevelAt ==
    ASSUME NEW ls, NEW r, NEW n \in 0 .. Depth
    PROVE  Levels(ls, r)[n] = Level(ls, r, Levels(ls, r), n)
<1>1. Levels(ls, r) = CHOOSE f : f = [k \in 0 .. Depth |-> Level(ls, r, f, k)]
  BY Zenon DEF Levels, Level, Depth
<1>2. Levels(ls, r) = [k \in 0 .. Depth |-> Level(ls, r, Levels(ls, r), k)]
  BY <1>1, LevelsExist, Zenon
<1>. QED BY <1>2


-----------------------------------------------------------------------------
(* Descendants(ls, r) is the least set that holds the children of r and    *)
(* the children of its members.                                            *)

Below(ls, r, S) == \A l \in ls : l[2] \in S \cup {r} => l[1] \in S

LEMMA DescendantsLeast ==
    ASSUME NEW ls \in SUBSET (Artifacts \X Artifacts), NEW r, NEW S, Below(ls, r, S)
    PROVE  Descendants(ls, r) \subseteq S
<1>. DEFINE L == Levels(ls, r)
            Bad == {n \in 1 .. Depth : ~(L[n] \subseteq S)}
<1>0. Depth \in Nat
  BY DepthType
<1>1. ASSUME Bad # {} PROVE FALSE
  <2>0. Bad \in SUBSET Nat
    BY <1>0
  <2>1. PICK m \in Bad : \A k \in Bad : m <= k
    <3>. HIDE DEF Bad
    <3>. QED BY <1>1, <2>0, LeastOf
  <2>2. m \in 1 .. Depth /\ m \in Nat /\ m - 1 \in 0 .. Depth /\ m \in 0 .. Depth
    BY <1>0, <2>1
  <2>3. L[m] = Level(ls, r, L, m) /\ L[m - 1] = Level(ls, r, L, m - 1)
    BY <2>2, LevelAt
  <2>4. m - 1 = 0 \/ L[m - 1] \subseteq S
    BY <1>0, <2>1, <2>2
  <2>5. L[m - 1] \subseteq S \cup {r}
    <3>. HIDE DEF L
    <3>. QED BY <2>2, <2>3, <2>4 DEF Level
  <2>6. ASSUME NEW c \in L[m] PROVE c \in S
    <3>. HIDE DEF L
    <3>1. PICK q \in L[m - 1] : <<c, q>> \in ls
      BY <2>2, <2>3, <2>6 DEF Level
    <3>. QED BY <2>5, <3>1 DEF Below
  <2>. HIDE DEF L
  <2>. QED BY <2>1, <2>6
<1>. QED BY <1>1 DEF Descendants, Depth

(* When there is an artifact at every level, the levels hold them all.     *)
LEMMA LevelsFill ==
    ASSUME NEW ls, NEW r, Levels(ls, r)[Depth] # {}, Depth > 0
    PROVE  Artifacts \subseteq Descendants(ls, r)
<1>. DEFINE L == Levels(ls, r)
            U(n) == UNION {L[k] : k \in 1 .. n}
            Gap == {i \in 0 .. (Depth - 1) : L[Depth - i] = {}}
            Bad == {n \in 0 .. Depth : ~(Cardinality(U(n)) >= n)}
<1>0. Depth \in Nat /\ IsFiniteSet(Artifacts)
  BY DepthType, GovernanceAssumption
<1>1. \A n \in 0 .. Depth : L[n] = Level(ls, r, L, n)
  BY LevelAt
<1>2. L[Depth] # {}
  OBVIOUS
<1>. HIDE DEF L
<1>3. ASSUME Gap # {} PROVE FALSE
  <2>0. Gap \in SUBSET Nat
    BY <1>0
  <2>1. PICK i \in Gap : \A k \in Gap : i <= k
    <3>. HIDE DEF Gap
    <3>. QED BY <1>3, <2>0, LeastOf
  <2>2. i \in 0 .. (Depth - 1) /\ L[Depth - i] = {} /\ i # 0 /\ i - 1 \in 0 .. (Depth - 1)
    BY <1>0, <1>2, <2>1
  <2>3. L[Depth - (i - 1)] = {}
    <3>1. Depth - (i - 1) \in 0 .. Depth /\ Depth - (i - 1) # 0
          /\ (Depth - (i - 1)) - 1 = Depth - i
      BY <1>0, <2>2
    <3>2. L[Depth - (i - 1)] = Level(ls, r, L, Depth - (i - 1))
      BY <1>1, <3>1
    <3>3. L[(Depth - (i - 1)) - 1] = {}
      BY <2>2, <3>1
    <3>. QED BY <3>1, <3>2, <3>3 DEF Level
  <2>4. i - 1 \in Gap
    BY <2>2, <2>3
  <2>. QED BY <1>0, <2>1, <2>2, <2>4
<1>4. \A n \in 1 .. Depth : L[n] # {}
  <2>1. SUFFICES ASSUME NEW n \in 1 .. Depth, L[n] = {} PROVE FALSE
    OBVIOUS
  <2>2. Depth - n \in 0 .. (Depth - 1) /\ Depth - (Depth - n) = n
    BY <1>0
  <2>. QED BY <1>3, <2>1, <2>2
<1>5. ASSUME NEW n \in 1 .. Depth PROVE L[n] \subseteq Artifacts
  <2>1. n # 0 /\ L[n] = Level(ls, r, L, n)
    BY <1>0, <1>1
  <2>. QED BY <2>1 DEF Level
<1>6. \A n \in 0 .. Depth : U(n) \in SUBSET Artifacts
  BY <1>0, <1>5
<1>7. ASSUME Bad # {} PROVE FALSE
  <2>0. Bad \in SUBSET Nat
    BY <1>0
  <2>1. PICK m \in Bad : \A k \in Bad : m <= k
    <3>. HIDE DEF Bad
    <3>. QED BY <1>7, <2>0, LeastOf
  <2>2. m \in 0 .. Depth /\ m \in Nat /\ ~(Cardinality(U(m)) >= m)
    BY <1>0, <2>1
  <2>3. m # 0
    <3>1. IsFiniteSet(U(0))
      BY <1>0, <1>6, FS_Subset
    <3>2. Cardinality(U(0)) \in Nat
      BY <3>1, FS_CardinalityType
    <3>. HIDE DEF U
    <3>. QED BY <2>2, <3>2
  <2>4. m - 1 \in 0 .. Depth /\ m \in 1 .. Depth /\ m - 1 < m
    BY <1>0, <2>2, <2>3
  <2>5. Cardinality(U(m - 1)) >= m - 1
    <3>. HIDE DEF U
    <3>. QED BY <1>0, <2>1, <2>4
  <2>6. PICK x \in L[m] : TRUE
    BY <1>4, <2>4
  <2>7. x \notin U(m - 1)
    BY <1>1, <2>2, <2>3, <2>6 DEF Level
  <2>8. U(m - 1) \cup {x} \subseteq U(m)
    <3>1. \A k \in 1 .. (m - 1) : k \in 1 .. m
      BY <2>2
    <3>2. m \in 1 .. m
      BY <2>4
    <3>. QED BY <2>6, <3>1, <3>2
  <2>9. IsFiniteSet(U(m)) /\ IsFiniteSet(U(m - 1))
    BY <1>0, <1>6, <2>2, <2>4, FS_Subset
  <2>. HIDE DEF U
  <2>10. Cardinality(U(m - 1)) \in Nat /\ Cardinality(U(m)) \in Nat
    BY <2>9, FS_CardinalityType
  <2>11. Cardinality(U(m - 1) \cup {x}) = Cardinality(U(m - 1)) + 1
    BY <2>7, <2>9, FS_AddElement
  <2>12. Cardinality(U(m - 1) \cup {x}) <= Cardinality(U(m))
    BY <2>8, <2>9, FS_Subset
  <2>. QED BY <2>2, <2>4, <2>5, <2>10, <2>11, <2>12
<1>8. Cardinality(U(Depth)) >= Depth
  <2>. HIDE DEF U
  <2>. QED BY <1>0, <1>7
<1>9. U(Depth) = Artifacts
  <2>1. U(Depth) \in SUBSET Artifacts
    BY <1>0, <1>6
  <2>. HIDE DEF U
  <2>2. Cardinality(U(Depth)) <= Cardinality(Artifacts) /\ IsFiniteSet(U(Depth))
    BY <1>0, <2>1, FS_Subset
  <2>3. Cardinality(U(Depth)) \in Nat
    BY <2>2, FS_CardinalityType
  <2>4. Cardinality(Artifacts) = Cardinality(U(Depth))
    BY <1>0, <1>8, <2>2, <2>3 DEF Depth
  <2>. QED BY <1>0, <2>1, <2>4, FS_Subset
<1>. QED BY <1>9 DEF Descendants, Depth, L

LEMMA DescendantsBelow ==
    ASSUME NEW ls \in SUBSET (Artifacts \X Artifacts), NEW r \in Artifacts
    PROVE  Below(ls, r, Descendants(ls, r))
<1>. DEFINE L == Levels(ls, r)
            D == Descendants(ls, r)
<1>0. Depth \in Nat /\ Depth > 0
  BY DepthType
<1>1. \A n \in 0 .. Depth : L[n] = Level(ls, r, L, n)
  BY LevelAt
<1>2. D = UNION {L[n] : n \in 1 .. Depth}
  BY DEF Descendants, Depth
<1>3. L[Depth] # {} => Artifacts \subseteq D
  BY <1>0, LevelsFill
<1>. HIDE DEF L, D
<1>4. ASSUME NEW n \in 0 .. (Depth - 1), NEW l \in ls, l[2] \in L[n]
      PROVE  l[1] \in D
  <2>1. n + 1 \in 0 .. Depth /\ n + 1 \in 1 .. Depth /\ n + 1 # 0 /\ (n + 1) - 1 = n
    BY <1>0
  <2>2. L[n + 1] = {c \in Artifacts : \E q \in L[n] : <<c, q>> \in ls} \ UNION {L[k] : k \in 1 .. n}
    BY <1>1, <2>1 DEF Level
  <2>3. l[1] \in Artifacts /\ <<l[1], l[2]>> \in ls
    BY <1>4
  <2>4. \A k \in 1 .. n : k \in 1 .. Depth
    BY <1>0
  <2>. QED BY <1>2, <1>4, <2>1, <2>2, <2>3, <2>4
<1>5. ASSUME NEW l \in ls, l[2] \in D \cup {r} PROVE l[1] \in D
  <2>1. CASE l[2] = r
    <3>1. 0 \in 0 .. (Depth - 1) /\ L[0] = Level(ls, r, L, 0)
      BY <1>0, <1>1
    <3>2. L[0] = {r}
      BY <3>1 DEF Level
    <3>. QED BY <1>4, <1>5, <2>1, <3>1, <3>2
  <2>2. CASE l[2] \in D
    <3>1. PICK n \in 1 .. Depth : l[2] \in L[n]
      BY <1>2, <2>2
    <3>2. CASE n = Depth
      BY <1>3, <3>1, <3>2
    <3>3. CASE n # Depth
      <4>1. n \in 0 .. (Depth - 1)
        BY <1>0, <3>3
      <4>. QED BY <1>4, <3>1, <4>1
    <3>. QED BY <3>2, <3>3
  <2>. QED BY <1>5, <2>1, <2>2
<1>. QED BY <1>5 DEF Below, D

(* The walk up the ancestry that stops after as many levels as there are   *)
(* artifacts finds every descendant and nothing else: what it returns is   *)
(* the least set that holds the children of the root and of its members,   *)
(* cycles or not.                                                          *)
THEOREM DescendantsIsLeastFixedPoint ==
    ASSUME NEW ls \in SUBSET (Artifacts \X Artifacts), NEW r \in Artifacts
    PROVE  /\ Below(ls, r, Descendants(ls, r))
           /\ \A S : Below(ls, r, S) => Descendants(ls, r) \subseteq S
  BY DescendantsBelow, DescendantsLeast

LEMMA DescendantsIn ==
    ASSUME NEW ls \in SUBSET (Artifacts \X Artifacts), NEW r \in Artifacts
    PROVE  Descendants(ls, r) \in SUBSET Artifacts
<1>1. Below(ls, r, Artifacts)
  BY DEF Below
<1>. QED BY <1>1, DescendantsLeast

LEMMA DescendantsTransitive ==
    ASSUME NEW ls \in SUBSET (Artifacts \X Artifacts), NEW r \in Artifacts,
           NEW a \in Descendants(ls, r)
    PROVE  Descendants(ls, a) \subseteq Descendants(ls, r)
<1>1. Below(ls, a, Descendants(ls, r))
  BY DescendantsBelow DEF Below
<1>. QED BY <1>1, DescendantsLeast

LEMMA HasParent ==
    ASSUME NEW ls \in SUBSET (Artifacts \X Artifacts), NEW r \in Artifacts,
           NEW c \in Descendants(ls, r)
    PROVE  \E q \in Descendants(ls, r) \cup {r} : <<c, q>> \in ls
<1>. DEFINE D == Descendants(ls, r)
            S == {x \in D : \E q \in D \cup {r} : <<x, q>> \in ls}
<1>1. Below(ls, r, D)
  BY DescendantsBelow
<1>. HIDE DEF D
<1>2. Below(ls, r, S)
  <2>1. ASSUME NEW l \in ls, l[2] \in S \cup {r} PROVE l[1] \in S
    <3>1. l[2] \in D \cup {r} /\ l = <<l[1], l[2]>>
      BY <2>1
    <3>2. l[1] \in D
      BY <1>1, <3>1 DEF Below
    <3>. QED BY <3>1, <3>2
  <2>. HIDE DEF S
  <2>. QED BY <2>1 DEF Below
<1>3. D \subseteq S
  <2>. HIDE DEF S
  <2>. QED BY <1>2, DescendantsLeast DEF D
<1>. QED BY <1>3 DEF D

(* The check for a cycle and the walk to the descendants agree: there is   *)
(* no cycle exactly if no artifact descends from itself.                   *)
LEMMA AcyclicIsIrreflexive ==
    ASSUME NEW ls \in SUBSET (Artifacts \X Artifacts)
    PROVE  Acyclic(ls) <=> \A a \in Artifacts : a \notin Descendants(ls, a)
<1>1. ASSUME Acyclic(ls), NEW a \in Artifacts, a \in Descendants(ls, a) PROVE FALSE
  <2>. DEFINE s == {x \in Artifacts : x \in Descendants(ls, a) /\ a \in Descendants(ls, x)}
  <2>1. a \in s
    BY <1>1
  <2>2. PICK c \in s : \A q \in s : <<c, q>> \notin ls
    BY <1>1, <2>1 DEF Acyclic
  <2>3. PICK q \in Descendants(ls, a) \cup {a} : <<c, q>> \in ls
    BY <1>1, <2>2, HasParent
  <2>4. q \in Artifacts /\ c \in Artifacts /\ q \in Descendants(ls, a)
    BY <1>1, <2>2, <2>3, DescendantsIn
  <2>5. c \in Descendants(ls, q)
    <3>1. <<c, q>>[1] = c /\ <<c, q>>[2] = q
      OBVIOUS
    <3>. QED BY <2>3, <2>4, <3>1, DescendantsBelow DEF Below
  <2>6. a \in Descendants(ls, q)
    BY <2>2, <2>4, <2>5, DescendantsTransitive
  <2>. QED BY <2>2, <2>3, <2>4, <2>6
<1>2. ASSUME \A a \in Artifacts : a \notin Descendants(ls, a),
             NEW s \in (SUBSET Artifacts) \ {{}},
             \A c \in s : \E q \in s : <<c, q>> \in ls
      PROVE  FALSE
  <2>. DEFINE Size(c) == Cardinality(Descendants(ls, c))
              Rest == {n \in 0 .. Depth : \E c \in s : n = Depth - Size(c)}
  <2>0. Depth \in Nat /\ IsFiniteSet(Artifacts)
    BY DepthType, GovernanceAssumption
  <2>1. \A c \in Artifacts : /\ IsFiniteSet(Descendants(ls, c))
                             /\ Size(c) \in Nat /\ Size(c) <= Depth
    BY <2>0, DescendantsIn, FS_Subset, FS_CardinalityType DEF Depth
  <2>2. ASSUME NEW c \in s, NEW q \in s, <<c, q>> \in ls PROVE Size(c) < Size(q)
    <3>0. c \in Artifacts /\ q \in Artifacts
      OBVIOUS
    <3>1. <<c, q>>[1] = c /\ <<c, q>>[2] = q
      OBVIOUS
    <3>2. c \in Descendants(ls, q)
      BY <2>2, <3>0, <3>1, DescendantsBelow DEF Below
    <3>3. Descendants(ls, c) \in SUBSET Descendants(ls, q)
      BY <3>0, <3>2, DescendantsTransitive
    <3>4. Descendants(ls, c) # Descendants(ls, q)
      BY <1>2, <3>0, <3>2
    <3>5. Size(c) <= Size(q) /\ Size(c) # Size(q)
      BY <2>1, <3>0, <3>3, <3>4, FS_Subset
    <3>. HIDE DEF Size
    <3>. QED BY <2>1, <3>0, <3>5
  <2>. HIDE DEF Size
  <2>3. Rest \in SUBSET Nat /\ Rest # {}
    <3>1. PICK c \in s : c \in Artifacts
      OBVIOUS
    <3>2. Depth - Size(c) \in 0 .. Depth
      BY <2>0, <2>1, <3>1
    <3>3. Depth - Size(c) \in Rest
      BY <3>1, <3>2
    <3>. QED BY <2>0, <3>3
  <2>4. PICK n \in Rest : \A m \in Rest : n <= m
    <3>. HIDE DEF Rest
    <3>. QED BY <2>3, LeastOf
  <2>5. PICK c \in s : n = Depth - Size(c)
    OBVIOUS
  <2>6. PICK q \in s : <<c, q>> \in ls
    BY <1>2
  <2>7. c \in Artifacts /\ q \in Artifacts
    OBVIOUS
  <2>8. Depth - Size(q) \in 0 .. Depth
    BY <2>0, <2>1, <2>7
  <2>9. Depth - Size(q) \in Rest
    BY <2>8
  <2>10. Size(c) \in Nat /\ Size(q) \in Nat /\ Size(c) < Size(q)
    BY <2>1, <2>2, <2>6, <2>7
  <2>11. n <= Depth - Size(q)
    BY <2>4, <2>9
  <2>. QED BY <2>0, <2>5, <2>10, <2>11
<1>. QED BY <1>1, <1>2 DEF Acyclic

(* However links are added and taken back at the same time, no artifact    *)
(* descends from itself through listed links that are settled: a cascade   *)
(* over them never meets its root again.                                   *)
NoOwnDescendant == \A a \in Artifacts : a \notin Descendants(Settled, a)

THEOREM NeverOwnDescendant == Spec => []NoOwnDescendant
<1>1. TypeOK /\ SettledLinksAcyclic => NoOwnDescendant
  <2>1. TypeOK => Settled \in SUBSET (Artifacts \X Artifacts)
    BY DEF TypeOK, Settled, Seen
  <2>. QED BY <2>1, AcyclicIsIrreflexive DEF SettledLinksAcyclic, Settled, NoOwnDescendant
<1>. QED BY <1>1, TypeCorrect, LinksAcyclic, PTL

-----------------------------------------------------------------------------
(* The cascade.  What is still in its plan, together with what is revoked  *)
(* or was written meanwhile, holds the listed children of its root and of  *)
(* its members, what was written meanwhile left aside.  The plan as it was is no longer in the     *)
(* state: the invariant says that there is such a set.                     *)

Ahead(p) == revoked \cup late[p] \cup {row.art : row \in {x \in job[p].todo : x.depth > 0}}
Covers(p, d) == \A l \in Seen(links) : l[1] \notin late[p] /\ l[2] \in d \cup {job[p].root} => l[1] \in d
CoverOf(p) ==
    IF job[p].pc \in Cascading
    THEN /\ \A row \in job[p].todo : row.gone => row.art \in revoked \cup late[p]
         /\ \E d \in SUBSET Ahead(p) : Covers(p, d)
    ELSE late[p] = {}
CoverInv == \A p \in Procs : CoverOf(p)

(* What a revocation does to the plan; no other step touches it. *)
TodoKept(p) ==
    /\ job'[p].root = job[p].root
    /\ \/ job'[p].todo = job[p].todo
       \/ \E row \in First(job[p].todo) :
             job'[p].todo = job[p].todo \ {row} /\ (row.gone \/ row.art \in revoked')

LEMMA TodoStep ==
    ASSUME TypeOK, NEW p \in Procs, Withdrawing(p), job'[p].pc \in Cascading
    PROVE  TodoKept(p)
<1>0. job[p] \in CascadeJob /\ job \in [Procs -> JobType]
  BY CascadeStep, JobKind DEF TypeOK
<1>1. CASE Revoke(p)
  <2>1. PICK row \in First(job[p].todo) :
             LET rest == [job[p] EXCEPT !.todo = @ \ {row}]
             IN  IF row.gone THEN Become(p, rest) /\ UNCHANGED revoked
                 ELSE /\ revoked' = revoked \cup {row.art}
                      /\ Become(p, [rest EXCEPT !.pc = "pointer", !.art = row.art])
    BY <1>1 DEF Revoke
  <2>2. PICK rest : rest = [job[p] EXCEPT !.todo = @ \ {row}]
    OBVIOUS
  <2>3. PICK next : next = [rest EXCEPT !.pc = "pointer", !.art = row.art]
    OBVIOUS
  <2>4. /\ rest.todo = job[p].todo \ {row} /\ rest.root = job[p].root
        /\ next.todo = job[p].todo \ {row} /\ next.root = job[p].root
    BY <1>0, <2>2, <2>3 DEF CascadeJob
  <2>5. \/ row.gone /\ Become(p, rest)
        \/ revoked' = revoked \cup {row.art} /\ Become(p, next)
    BY <2>1, <2>2, <2>3
  <2>6. (job'[p] = rest /\ row.gone) \/ (job'[p] = next /\ row.art \in revoked')
    BY <1>0, <2>5 DEF Become
  <2>. QED BY <2>4, <2>6 DEF TodoKept
<1>2. CASE Pointer(p)
  <2>1. PICK j : j = [job[p] EXCEPT !.pc = "previous", !.prev = chan.prev, !.gen = chan.gen]
    OBVIOUS
  <2>2. j.todo = job[p].todo /\ j.root = job[p].root
    BY <1>0, <2>1 DEF CascadeJob
  <2>3. Become(p, j) \/ Goto(p, "revoke")
    BY <1>2, <2>1 DEF Pointer
  <2>. QED BY <1>0, <2>2, <2>3 DEF Become, Goto, TodoKept, CascadeJob
<1>3. CASE Previous(p)
  <2>1. Goto(p, "revoke") \/ Goto(p, "rollback")
    BY <1>3 DEF Previous
  <2>. QED BY <1>0, <2>1 DEF Goto, TodoKept, CascadeJob
<1>4. CASE Rollback(p)
  <2>1. Goto(p, "revoke")
    BY <1>4 DEF Rollback
  <2>. QED BY <1>0, <2>1 DEF Goto, TodoKept, CascadeJob
<1>5. CASE EndCascade(p)
  <2>1. job'[p].pc = "idle"
    BY <1>5, IdleFields, BecomeEffect DEF EndCascade, TypeOK
  <2>. QED BY <2>1 DEF Cascading
<1>. QED BY <1>1, <1>2, <1>3, <1>4, <1>5 DEF Withdrawing

(* How a process gets into a cascade, through it and out of it. *)
LEMMA JobStep ==
    ASSUME TypeOK, [Next]_vars, NEW x \in Procs
    PROVE  \/ job'[x] = job[x]
           \/ job[x].pc \notin Cascading /\ job'[x].pc \notin Cascading
           \/ \E r \in Artifacts : StartCascade(x, r)
           \/ Withdrawing(x) \/ Abort(x)
<1>. DEFINE Goal == \/ job'[x] = job[x]
                    \/ job[x].pc \notin Cascading /\ job'[x].pc \notin Cascading
                    \/ \E r \in Artifacts : StartCascade(x, r)
                    \/ Withdrawing(x) \/ Abort(x)
<1>1. ASSUME NEW p \in Procs, \A y \in Procs \ {p} : job'[y] = job[y],
             \/ job[p].pc \notin Cascading /\ job'[p].pc \notin Cascading
             \/ \E r \in Artifacts : StartCascade(p, r)
             \/ Withdrawing(p) \/ Abort(p)
      PROVE  Goal
  BY <1>1
<1>. HIDE DEF Goal
<1>2. ASSUME NEW p \in Procs, NEW i \in Approvals, NEW payload \in Payloads, Request(p, i, payload)
      PROVE  Goal
  <2>1. job[p] = Idle /\ job'[p].pc = "fence" /\ \A q \in Procs \ {p} : job'[q] = job[q]
    BY <1>2, PayloadType, PromotionFields, StartEffect DEF Request, TypeOK
  <2>. QED BY <1>1, <2>1, IdleFields DEF Cascading
<1>3. ASSUME NEW p \in Procs, NEW c \in Artifacts, NEW q \in Artifacts, Link(p, c, q) PROVE Goal
  <2>1. job[p] = Idle /\ job'[p].pc = "verify" /\ \A y \in Procs \ {p} : job'[y] = job[y]
    BY <1>3, LinkingFields, StartEffect DEF Link, TypeOK
  <2>. QED BY <1>1, <2>1, IdleFields DEF Cascading
<1>4. ASSUME NEW p \in Procs, NEW r \in Artifacts, StartCascade(p, r) PROVE Goal
  <2>1. \A y \in Procs \ {p} : job'[y] = job[y]
    BY <1>4, PlanType, CascadeFields, StartEffect DEF StartCascade, TypeOK
  <2>. QED BY <1>1, <1>4, <2>1
<1>5. ASSUME NEW p \in Procs, Claim(p) PROVE Goal
  <2>1. job[p].pc = "fence" /\ job'[p].pc = "check" /\ \A y \in Procs \ {p} : job'[y] = job[y]
    BY <1>5, GotoPromotion DEF Claim, TypeOK, At, PromotionStep
  <2>. QED BY <1>1, <2>1 DEF Cascading
<1>6. ASSUME NEW p \in Procs, Check(p) PROVE Goal
  <2>1. job[p].pc = "check"
    BY <1>6 DEF Check, At
  <2>2. job'[p].pc \in {"write", "idle"} /\ \A y \in Procs \ {p} : job'[y] = job[y]
    BY <1>6, <2>1, GotoPromotion, IdleFields, BecomeEffect DEF Check, TypeOK, PromotionStep
  <2>. QED BY <1>1, <2>1, <2>2 DEF Cascading
<1>7. ASSUME NEW p \in Procs, Write(p) PROVE Goal
  <2>1. job[p].pc = "write" /\ job'[p].pc = "idle" /\ \A y \in Procs \ {p} : job'[y] = job[y]
    BY <1>7, IdleFields, BecomeEffect DEF Write, TypeOK, At
  <2>. QED BY <1>1, <2>1 DEF Cascading
<1>8. ASSUME NEW p \in Procs, Verify(p) PROVE Goal
  <2>1. /\ job[p].pc = "verify" /\ job'[p].pc \in {"idle", "unlink"}
        /\ \A y \in Procs \ {p} : job'[y] = job[y]
    BY <1>8, IdleFields, BecomeEffect, GotoUnlink DEF Verify, TypeOK, At
  <2>. QED BY <1>1, <2>1 DEF Cascading
<1>9. ASSUME NEW p \in Procs, Unlink(p) PROVE Goal
  <2>1. job[p].pc = "unlink" /\ job'[p].pc = "idle" /\ \A y \in Procs \ {p} : job'[y] = job[y]
    BY <1>9, IdleFields, BecomeEffect DEF Unlink, TypeOK, At
  <2>. QED BY <1>1, <2>1 DEF Cascading
<1>10. ASSUME NEW p \in Procs, Withdrawing(p) \/ Abort(p) PROVE Goal
  <2>1. \A q \in Procs \ {p} : job'[q] = job[q]
    BY <1>10, CascadeStep, AbortEffect
  <2>. QED BY <1>1, <1>10, <2>1
<1>11. ASSUME UNCHANGED job PROVE Goal
  BY <1>11 DEF Goal
<1>12. ASSUME NEW i \in Approvals, NEW r \in People, NEW payload \in Payloads,
              CreateApproval(i, r, payload)
       PROVE  Goal
  BY <1>11, <1>12 DEF CreateApproval, release, bounds, graph
<1>13. ASSUME NEW i \in Approvals, NEW s \in People, Approve(i, s) PROVE Goal
  BY <1>11, <1>13 DEF Approve, release, bounds, graph
<1>14. ASSUME NEW i \in Approvals, Expire(i) PROVE Goal
  BY <1>11, <1>14 DEF Expire, release, bounds, graph
<1>17. ASSUME NEW c \in Artifacts, NEW q \in Artifacts, LinkAgain(c, q) \/ Register(c, q) PROVE Goal
  BY <1>11, <1>17 DEF LinkAgain, Register
<1>18. ASSUME NEW c \in Artifacts, NEW parents \in SUBSET Artifacts, NEW gone \in BOOLEAN,
              Post(c, parents, gone)
       PROVE  Goal
  BY <1>11, <1>18 DEF Post
<1>15. UNCHANGED vars => UNCHANGED job
  BY DEF vars
<1>19. Goal
  BY <1>2, <1>3, <1>4, <1>5, <1>6, <1>7, <1>8, <1>9, <1>10, <1>11, <1>12, <1>13, <1>14, <1>15,
     <1>17, <1>18, NextCases
<1>. QED BY <1>19 DEF Goal

(* A link that is new has its child among what was written during a        *)
(* cascade, and so has a revocation that is taken back.                    *)
Grown(x) ==
    /\ revoked \subseteq revoked' \cup late'[x]
    /\ \A l \in links' : l \in links \/ l[1] \in late'[x]
    /\ late[x] \subseteq late'[x]

(* The document of one artifact is written. *)
Touched(c) ==
    /\ revoked \subseteq revoked' \cup {c}
    /\ \A l \in links' : l \in links \/ l[1] = c
    /\ late' = [x \in Procs |-> IF job[x].pc \in Cascading THEN late[x] \cup {c} ELSE late[x]]

LEMMA GraphStep ==
    ASSUME TypeOK, [Next]_vars
    PROVE  \/ \E c \in Artifacts : Touched(c)
           \/ /\ links' \subseteq links /\ revoked \subseteq revoked'
              /\ \/ late' = late
                 \/ \E p \in Procs : job'[p] = Idle /\ late' = [late EXCEPT ![p] = {}]
<1>. USE DEF release, bounds, graph
<1>. DEFINE Goal == \/ \E c \in Artifacts : Touched(c)
                    \/ /\ links' \subseteq links /\ revoked \subseteq revoked'
                       /\ \/ late' = late
                          \/ \E p \in Procs : job'[p] = Idle /\ late' = [late EXCEPT ![p] = {}]
<1>1. ASSUME NEW p \in Procs, Withdrawing(p) PROVE Goal
  <2>1. CASE Revoke(p)
    BY <2>1, RevokeEffect DEF Revoke
  <2>2. CASE EndCascade(p)
    <3>1. job'[p] = Idle
      BY <2>2, BecomeEffect, IdleFields DEF EndCascade, TypeOK
    <3>. QED BY <2>2, <3>1 DEF EndCascade
  <2>. QED BY <1>1, <2>1, <2>2 DEF Withdrawing, Pointer, Previous, Rollback
<1>2. ASSUME NEW p \in Procs, Abort(p) PROVE Goal
  <2>1. job'[p] = Idle
    BY <1>2, BecomeEffect, IdleFields DEF Abort, TypeOK
  <2>. QED BY <1>2, <2>1 DEF Abort
<1>3. ASSUME NEW p \in Procs, Claim(p) \/ Check(p) \/ Write(p) \/ Verify(p) \/ Unlink(p) PROVE Goal
  BY <1>3 DEF Claim, Check, Write, Verify, Unlink, Without
<1>4. ASSUME NEW p \in Procs, NEW i \in Approvals, NEW payload \in Payloads, Request(p, i, payload)
      PROVE  Goal
  BY <1>4 DEF Request
<1>5. ASSUME NEW p \in Procs, NEW r \in Artifacts, StartCascade(p, r) PROVE Goal
  BY <1>5 DEF StartCascade
<1>6. ASSUME NEW i \in Approvals, NEW r \in People, NEW payload \in Payloads,
             CreateApproval(i, r, payload)
      PROVE  Goal
  BY <1>6 DEF CreateApproval
<1>7. ASSUME NEW i \in Approvals, NEW s \in People, Approve(i, s) PROVE Goal
  BY <1>7 DEF Approve
<1>8. ASSUME NEW i \in Approvals, Expire(i) PROVE Goal
  BY <1>8 DEF Expire
<1>9. ASSUME NEW c \in Artifacts, NEW q \in Artifacts, LinkAgain(c, q) PROVE Goal
  BY <1>9 DEF LinkAgain
<1>10. ASSUME NEW c \in Artifacts, NEW q \in Artifacts, Register(c, q) PROVE Goal
  <2>1. Touched(c)
    BY <1>10 DEF Register, Rewritten, Touched
  <2>. QED BY <2>1
<1>11. ASSUME NEW c \in Artifacts, NEW parents \in SUBSET Artifacts, NEW gone \in BOOLEAN,
              Post(c, parents, gone)
       PROVE  Goal
  <2>1. Touched(c)
    BY <1>11 DEF Post, Rewritten, Touched
  <2>. QED BY <2>1
<1>12. ASSUME NEW p \in Procs, NEW c \in Artifacts, NEW q \in Artifacts, Link(p, c, q) PROVE Goal
  <2>1. Touched(c)
    BY <1>12 DEF Link, Rewritten, Touched
  <2>. QED BY <2>1
<1>13. ASSUME UNCHANGED vars PROVE Goal
  BY <1>13 DEF vars
<1>. HIDE DEF Goal
<1>14. Goal
  BY <1>1, <1>2, <1>3, <1>4, <1>5, <1>6, <1>7, <1>8, <1>9, <1>10, <1>11, <1>12, <1>13, NextCases
<1>. QED BY <1>14 DEF Goal

LEMMA GrownStep ==
    ASSUME TypeOK, [Next]_vars, NEW x \in Procs
    PROVE  /\ job[x].pc \in Cascading /\ job'[x].pc \in Cascading => Grown(x)
           /\ job[x].pc \notin Cascading => late'[x] \in {late[x], {}}
<1>1. ASSUME NEW c \in Artifacts, Touched(c)
      PROVE  /\ job[x].pc \in Cascading => Grown(x)
             /\ job[x].pc \notin Cascading => late'[x] = late[x]
  <2>1. late'[x] = IF job[x].pc \in Cascading THEN late[x] \cup {c} ELSE late[x]
    BY <1>1 DEF Touched
  <2>. QED BY <1>1, <2>1 DEF Grown, Touched
<1>2. ASSUME links' \subseteq links, revoked \subseteq revoked', late' = late
      PROVE  Grown(x) /\ late'[x] = late[x]
  BY <1>2 DEF Grown
<1>3. ASSUME links' \subseteq links, revoked \subseteq revoked',
             NEW p \in Procs, job'[p] = Idle, late' = [late EXCEPT ![p] = {}]
      PROVE  /\ job'[x].pc \in Cascading => Grown(x)
             /\ late'[x] \in {late[x], {}}
  <2>1. p = x => job'[x].pc \notin Cascading
    BY <1>3, IdleFields DEF Cascading
  <2>2. late \in [Procs -> SUBSET Artifacts]
    BY DEF TypeOK
  <2>. QED BY <1>3, <2>1, <2>2 DEF Grown
<1>. QED BY <1>1, <1>2, <1>3, GraphStep

LEMMA PlanCovers ==
    ASSUME TypeOK, NEW x \in Procs, NEW r \in Artifacts, StartCascade(x, r), late[x] = {}
    PROVE  CoverOf(x)'
<1>0. PICK D : D = Descendants(Seen(links), r)
  OBVIOUS
<1>12. Seen(links) \in SUBSET (Artifacts \X Artifacts)
  BY DEF TypeOK, Seen
<1>1. job'[x] = Cascade(r, Plan(r)) /\ job'[x].pc = "revoke"
  BY PlanType, CascadeFields, StartEffect DEF StartCascade, TypeOK
<1>2. job'[x].root = r /\ job'[x].todo = Plan(r)
  BY <1>1 DEF Cascade
<1>3. revoked' = revoked /\ links' = links /\ late' = late
  BY DEF StartCascade, graph
<1>4. \A row \in Plan(r) : row.gone => row.art \in revoked
  BY DEF Plan, Row
<1>5. ASSUME NEW a \in D PROVE \E row \in Plan(r) : row.art = a /\ row.depth > 0
  <2>1. PICK n \in 1 .. Depth : a \in Levels(Seen(links), r)[n]
    BY <1>0, <1>5 DEF Descendants, Depth
  <2>2. Depth \in Nat /\ n \in 0 .. Depth /\ n > 0
    BY DepthType
  <2>3. a \in Artifacts
    <3>1. Levels(Seen(links), r)[n] = Level(Seen(links), r, Levels(Seen(links), r), n) /\ n # 0
      BY <1>12, <2>2, LevelAt
    <3>. QED BY <2>1, <3>1 DEF Level
  <2>. DEFINE row == [art |-> a, depth |-> n, gone |-> (a \in revoked)]
  <2>4. row \in Row
    BY <2>2, <2>3 DEF Row, Depth
  <2>5. row.art = a /\ row.depth = n /\ row.gone = (a \in revoked)
    OBVIOUS
  <2>. HIDE DEF row
  <2>6. row \in Plan(r)
    BY <2>1, <2>4, <2>5 DEF Plan
  <2>. QED BY <2>2, <2>5, <2>6
<1>6. D \in SUBSET Ahead(x)'
  BY <1>2, <1>3, <1>5 DEF Ahead
<1>7. Below(Seen(links), r, D)
  BY <1>0, <1>12, DescendantsBelow
<1>8. Covers(x, D)'
  BY <1>2, <1>3, <1>7 DEF Covers, Below, Seen
<1>9. (job[x].pc \in Cascading)'
  BY <1>1 DEF Cascading
<1>10. (\A row \in job[x].todo : row.gone => row.art \in revoked \cup late[x])'
  BY <1>2, <1>3, <1>4
<1>11. (\E d \in SUBSET Ahead(x) : Covers(x, d))'
  BY <1>6, <1>8
<1>. QED BY <1>9, <1>10, <1>11 DEF CoverOf

LEMMA CoverKept ==
    ASSUME TypeOK, NEW x \in Procs, CoverOf(x), Grown(x), TodoKept(x),
           job[x].pc \in Cascading, job'[x].pc \in Cascading
    PROVE  CoverOf(x)'
<1>1. \A row \in job[x].todo : row \in job'[x].todo \/ row.gone \/ row.art \in revoked'
  BY DEF TodoKept
<1>2. job'[x].todo \subseteq job[x].todo
  BY DEF TodoKept
<1>3. \A row \in job[x].todo : row.gone => row.art \in revoked' \cup late'[x]
  BY DEF CoverOf, Grown
<1>4. PICK d \in SUBSET Ahead(x) : Covers(x, d)
  BY DEF CoverOf
<1>5. d \in SUBSET Ahead(x)'
  <2>1. ASSUME NEW a \in d PROVE a \in Ahead(x)'
    <3>1. CASE a \in revoked \cup late[x]
      BY <3>1 DEF Ahead, Grown
    <3>2. CASE \E row \in job[x].todo : row.depth > 0 /\ row.art = a
      BY <1>1, <1>3, <3>2 DEF Ahead
    <3>. QED BY <1>4, <3>1, <3>2 DEF Ahead
  <2>. QED BY <2>1
<1>6. Covers(x, d)'
  BY <1>4 DEF Covers, Grown, TodoKept, Seen
<1>. QED BY <1>2, <1>3, <1>5, <1>6 DEF CoverOf

LEMMA CoverInit == Init => CoverInv
  BY IdleFields DEF Init, CoverInv, CoverOf, Cascading

LEMMA CoverNext == TypeOK /\ CoverInv /\ [Next]_vars => CoverInv'
<1>. SUFFICES ASSUME TypeOK, CoverInv, [Next]_vars, NEW x \in Procs PROVE CoverOf(x)'
  BY DEF CoverInv
<1>0. CoverOf(x)
  BY DEF CoverInv
<1>1. CASE job'[x].pc \notin Cascading
  <2>1. job[x].pc \notin Cascading => late'[x] = {}
    BY <1>0, GrownStep DEF CoverOf
  <2>2. job[x].pc \in Cascading => EndCascade(x) \/ Abort(x)
    <3>1. ASSUME \E r \in Artifacts : StartCascade(x, r) PROVE job[x].pc = "idle"
      BY <3>1 DEF StartCascade, Start, At
    <3>2. ASSUME Revoke(x) \/ Pointer(x) \/ Previous(x) \/ Rollback(x) PROVE job'[x].pc \in Cascading
      BY <3>2, RevokeEffect, PointerEffect, PreviousEffect, RollbackEffect DEF Cascading
    <3>. QED BY <1>1, <3>1, <3>2, JobStep DEF Withdrawing, Cascading
  <2>3. (EndCascade(x) \/ Abort(x)) => late'[x] = {}
    BY DEF EndCascade, Abort, TypeOK
  <2>4. late'[x] = {}
    BY <2>1, <2>2, <2>3
  <2>. QED BY <1>1, <2>4 DEF CoverOf
<1>2. CASE job'[x].pc \in Cascading /\ job[x].pc \in Cascading
  <2>1. Grown(x)
    BY <1>2, GrownStep
  <2>2. TodoKept(x)
    <3>1. job'[x] = job[x] => TodoKept(x)
      BY DEF TodoKept
    <3>2. ~\E r \in Artifacts : StartCascade(x, r)
      BY <1>2 DEF StartCascade, Start, At, Cascading
    <3>3. ~Abort(x)
      BY <1>2, AbortEffect DEF Cascading
    <3>. QED BY <1>2, <3>1, <3>2, <3>3, JobStep, TodoStep
  <2>. QED BY <1>0, <1>2, <2>1, <2>2, CoverKept
<1>3. CASE job'[x].pc \in Cascading /\ job[x].pc \notin Cascading
  <2>1. ~Withdrawing(x) /\ ~Abort(x)
    BY <1>3, CascadeStep, AbortEffect DEF Cascading
  <2>2. PICK r \in Artifacts : StartCascade(x, r)
    BY <1>3, <2>1, JobStep
  <2>3. late[x] = {}
    BY <1>0, <1>3 DEF CoverOf
  <2>. QED BY <2>2, <2>3, PlanCovers
<1>. QED BY <1>1, <1>2, <1>3

RootRows(j) == IF j.pc \in Cascading THEN {row \in j.todo : row.depth = 0} ELSE {}
RootCovered(p) ==
    RootRows(job[p]) # {} /\ job'[p] # Idle /\ RootRows(job'[p]) = {}
    => \A d \in Descendants(Seen(links), job[p].root) :
          d \in revoked \cup late[p] \cup UNION {Descendants(Seen(links), c) : c \in late[p]}

(* The root is the last row of the plan: whatever the plan held below it   *)
(* has been revoked, but for what was written meanwhile.                   *)
LEMMA RootStep ==
    ASSUME TypeOK, CoverInv, [Next]_vars, NEW p \in Procs
    PROVE  RootCovered(p)
<1>. DEFINE S == revoked \cup late[p] \cup UNION {Descendants(Seen(links), c) : c \in late[p]}
<1>. SUFFICES ASSUME RootRows(job[p]) # {}, job'[p] # Idle, RootRows(job'[p]) = {}
              PROVE  Descendants(Seen(links), job[p].root) \subseteq S
  BY DEF RootCovered
<1>1. job[p].pc \in Cascading
  BY DEF RootRows
<1>2. job'[p] # job[p]
  OBVIOUS
<1>3. ~Abort(p) /\ ~\E r \in Artifacts : StartCascade(p, r)
  <2>1. Abort(p) => job'[p] = Idle
    BY BecomeEffect, IdleFields DEF Abort, TypeOK
  <2>. QED BY <1>1, <2>1 DEF StartCascade, Start, At, Cascading
<1>4. Withdrawing(p)
  BY <1>1, <1>2, <1>3, JobStep
<1>5. job'[p].pc \in Cascading
  <2>1. job'[p] \in JobType /\ job'[p].pc \in Cascading \cup {"idle"}
    BY <1>4, CascadeStep
  <2>. QED BY <2>1, JobKind
<1>6. PICK row \in First(job[p].todo) : job'[p].todo = job[p].todo \ {row}
  <2>1. job'[p].todo # job[p].todo
    BY <1>1, <1>5 DEF RootRows
  <2>. QED BY <1>4, <1>5, <2>1, TodoStep DEF TodoKept
<1>7. row.depth = 0
  BY <1>1, <1>5, <1>6 DEF RootRows
<1>8. job[p].todo \subseteq Row
  BY <1>1, JobKind DEF TypeOK, CascadeJob
<1>9. \A x \in job[p].todo : x.depth <= 0 /\ x.depth \in Nat
  <2>1. Depth \in Nat
    BY DepthType
  <2>. QED BY <1>6, <1>7, <1>8, <2>1 DEF First, Row, Depth
<1>10. Ahead(p) = revoked \cup late[p]
  BY <1>9 DEF Ahead
<1>11. PICK d \in SUBSET (revoked \cup late[p]) : Covers(p, d)
  BY <1>1, <1>10 DEF CoverInv, CoverOf
<1>12. late[p] \subseteq Artifacts /\ Seen(links) \in SUBSET (Artifacts \X Artifacts)
  BY DEF TypeOK, Seen
<1>. DEFINE T == d \cup late[p] \cup UNION {Descendants(Seen(links), c) : c \in late[p]}
<1>13. \A c \in late[p] : Below(Seen(links), c, Descendants(Seen(links), c))
  BY <1>12, DescendantsBelow
<1>14. Below(Seen(links), job[p].root, T)
  BY <1>11, <1>13 DEF Below, Covers
<1>15. Descendants(Seen(links), job[p].root) \subseteq T
  <2>. HIDE DEF T
  <2>. QED BY <1>12, <1>14, DescendantsLeast
<1>. QED BY <1>11, <1>15

(* When a cascade gets to its root, whatever a listing shows to descend    *)
(* from it then is revoked, or was written during the cascade, or hangs    *)
(* below what was.                                                         *)
THEOREM CascadesCover == Spec => CascadeCoversDescendants
<1>1. TypeOK /\ CoverInv /\ [Next]_vars => [\A p \in Procs : RootCovered(p)]_vars
  BY RootStep
<1>2. Spec => [][\A p \in Procs : RootCovered(p)]_vars
  BY <1>1, TypeInit, TypeNext, CoverInit, CoverNext, PTL DEF Spec
<1>. QED BY <1>2 DEF CascadeCoversDescendants, RootCovered, RootRows
=============================================================================
