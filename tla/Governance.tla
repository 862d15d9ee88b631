----------------------------- MODULE Governance -----------------------------
(***************************************************************************)
(* Who may move a protected channel, and what a revocation reaches: the    *)
(* approvals that the service consumes before it promotes, the ancestry    *)
(* links between artifacts, and the cascade that revokes an artifact with  *)
(* its descendants and rolls the channel back.                             *)
(*                                                                         *)
(* A section under a directory lock is one step here: ReleaseControl opens *)
(* the locks, the row and its mirror, and the fence's tokens.  Between the *)
(* steps of a command the others go on, and it may be killed or fail.      *)
(***************************************************************************)
EXTENDS Naturals, FiniteSets

CONSTANTS Procs,      \* requests to the service, and commands
          Artifacts, NoArtifact,
          Listed,     \* the artifacts that a listing returns: the newest 1000
          People,     \* subjects of the service
          Approvals,  \* approval ids
          Quorum,     \* minimum_approvals
          AnyGen,     \* no expected_generation in the payload
          Nobody,     \* the fence is free
          MaxJobs,    \* bound on requests and commands
          MaxFaults   \* bound on those that are killed or fail

ASSUME GovernanceAssumption ==
    /\ NoArtifact \notin Artifacts /\ AnyGen \notin Nat /\ Nobody \notin Procs
    /\ IsFiniteSet(Artifacts) /\ Listed \subseteq Artifacts
    /\ Quorum \in Nat \ {0} /\ MaxJobs \in Nat /\ MaxFaults \in Nat

VARIABLES
    revoked,    \* artifacts whose status is revoked; the others are active
    links,      \* <<child, parent>> for every parent in a child's document
    chan,       \* the protected channel
    approval,   \* the approval documents
    fence,      \* the process that holds the lock of the channel's fence
    job,        \* what each process is doing
    started, faults,
    spent,      \* history: channel writes that each approval has let through
    reported,   \* history: links that were reported to their caller as there
    borrowed,   \* history: those of them that another command added and has not verified
    unverified, \* history: links whose writer ended before it had verified them,
                \*   or verifies nothing, until a verification has seen them
    overwritten, \* history: artifacts whose document a POST has replaced
    late        \* history: artifacts written while a process was in its cascade

release == <<chan, fence>>
graph   == <<links, reported, borrowed, unverified, overwritten, late>>
bounds  == <<started, faults>>
vars    == <<revoked, release, approval, job, bounds, spent, graph>>

Channel == [art: Artifacts \cup {NoArtifact}, prev: Artifacts \cup {NoArtifact}, gen: Nat]
NoChannel == [art |-> NoArtifact, prev |-> NoArtifact, gen |-> 0]
Payload == [art: Artifacts, gen: Nat \cup {AnyGen}]
NoApproval == [status |-> "none"]
Approval == {NoApproval} \cup
    [status: {"pending", "approved", "consumed"}, requester: People, payload: Payload,
     approvers: SUBSET People, live: BOOLEAN]
Row == [art: Artifacts, depth: 0 .. Cardinality(Artifacts), gone: BOOLEAN]

Idle == [pc |-> "idle"]
Promotion(i, payload) == [pc |-> "fence", ap |-> i, payload |-> payload]
Linking(c, q) == [pc |-> "verify", child |-> c, parent |-> q]
Cascade(r, rows) ==
    [pc |-> "revoke", root |-> r, todo |-> rows, art |-> r, prev |-> NoArtifact, gen |-> 0]
Cascading == {"revoke", "pointer", "previous", "rollback"}
PromotionJob == [pc: {"fence", "check", "write"}, ap: Approvals, payload: Payload]
LinkJob == [pc: {"verify", "unlink"}, child: Artifacts, parent: Artifacts]
CascadeJob == [pc: Cascading, root: Artifacts, todo: SUBSET Row, art: Artifacts,
               prev: Artifacts \cup {NoArtifact}, gen: Nat]
JobType == {Idle} \cup PromotionJob \cup LinkJob \cup CascadeJob

Init ==
    /\ revoked = {} /\ links = {}
    /\ chan \in {NoChannel} \cup {x \in [art: Artifacts, prev: Artifacts, gen: {2}] : x.art # x.prev}
    /\ approval = [i \in Approvals |-> NoApproval]
    /\ fence = Nobody
    /\ job = [p \in Procs |-> Idle]
    /\ started = 0 /\ faults = 0
    /\ spent = [i \in Approvals |-> 0]
    /\ reported = {} /\ borrowed = {} /\ unverified = {} /\ overwritten = {}
    /\ late = [p \in Procs |-> {}]

At(p, pc) == job[p].pc = pc
Become(p, j) == job' = [job EXCEPT ![p] = j]
Goto(p, pc) == job' = [job EXCEPT ![p].pc = pc]
Counted == started < MaxJobs /\ started' = started + 1
Start(p, j) == At(p, "idle") /\ Counted /\ Become(p, j)

-----------------------------------------------------------------------------
(* Approvals.                                                              *)

CreateApproval(i, requester, payload) ==
    /\ approval[i] = NoApproval /\ Counted
    /\ approval' = [approval EXCEPT ![i] =
          [status |-> "pending", requester |-> requester, payload |-> payload,
           approvers |-> {}, live |-> TRUE]]
    /\ UNCHANGED <<revoked, release, job, faults, spent, graph>>

MayApproveAny(i, subject) ==     \* mutant: the requester counts towards the quorum
    /\ approval[i].status \in {"pending", "approved"} /\ approval[i].live
MayApprove(i, subject) ==
    /\ approval[i].status \in {"pending", "approved"} /\ approval[i].live
    /\ subject # approval[i].requester

Approved(i, approvers) ==
    IF Cardinality(approvers) >= Quorum THEN "approved" ELSE approval[i].status

Approve(i, subject) ==
    /\ MayApprove(i, subject)
    /\ LET approvers == approval[i].approvers \cup {subject}
       IN  approval' = [approval EXCEPT ![i].approvers = approvers,
                                        ![i].status = Approved(i, approvers)]
    /\ UNCHANGED <<revoked, release, job, bounds, spent, graph>>

Expire(i) ==
    /\ approval[i].status \in {"pending", "approved"} /\ approval[i].live
    /\ approval' = [approval EXCEPT ![i].live = FALSE]
    /\ UNCHANGED <<revoked, release, job, bounds, spent, graph>>

Consumable(i, payload) ==
    /\ approval[i].status = "approved"
    /\ approval[i].payload = payload
    /\ approval[i].live

ConsumedKeeps(i) == "approved"   \* mutant: the approval stays as it is
Consumed(i) == "consumed"

-----------------------------------------------------------------------------
(* PUT of a protected channel: the approval is consumed, and then the      *)
(* artifact promoted, fenced, under a new idempotency key.                 *)

Request(p, i, payload) ==
    /\ Start(p, Promotion(i, payload))
    /\ Consumable(i, payload)
    /\ approval' = [approval EXCEPT ![i].status = Consumed(i)]
    /\ UNCHANGED <<revoked, release, faults, spent, graph>>

Claim(p) ==
    /\ At(p, "fence") /\ fence = Nobody
    /\ Goto(p, "check") /\ fence' = p
    /\ UNCHANGED <<revoked, chan, approval, bounds, spent, graph>>

Released(p) == IF fence = p THEN Nobody ELSE fence

Check(p) ==
    /\ At(p, "check")
    /\ IF job[p].payload.art \notin revoked THEN Goto(p, "write") /\ UNCHANGED fence
       ELSE Become(p, Idle) /\ fence' = Released(p)
    /\ UNCHANGED <<revoked, chan, approval, bounds, spent, graph>>

Pointing(a) == [art |-> a, prev |-> chan.art, gen |-> chan.gen + 1]

Write(p) ==
    /\ At(p, "write")
    /\ IF job[p].payload.gen \in {AnyGen, chan.gen}
       THEN /\ chan' = Pointing(job[p].payload.art)
            /\ spent' = [spent EXCEPT ![job[p].ap] = @ + 1]
       ELSE UNCHANGED <<chan, spent>>
    /\ Become(p, Idle) /\ fence' = Released(p)
    /\ UNCHANGED <<revoked, approval, bounds, graph>>

Promoting(p) == Claim(p) \/ Check(p) \/ Write(p)

-----------------------------------------------------------------------------
(* Ancestry.  A graph has a cycle when some artifacts each have a parent   *)
(* among them.  Levels(ls, r)[n] are the artifacts whose shortest way up   *)
(* to r has n links; in a cycle, r itself comes back.                      *)

Acyclic(ls) == \A s \in (SUBSET Artifacts) \ {{}} : \E c \in s : \A q \in s : <<c, q>> \notin ls

Levels(ls, r) ==
    LET level[n \in 0 .. Cardinality(Artifacts)] ==
          IF n = 0 THEN {r}
          ELSE {c \in Artifacts : \E q \in level[n - 1] : <<c, q>> \in ls}
               \ UNION {level[k] : k \in 1 .. (n - 1)}
    IN  level
Descendants(ls, r) == LET level == Levels(ls, r) IN UNION {level[n] : n \in 1 .. Cardinality(Artifacts)}

(* What a listing shows of the graph: the parents of the listed artifacts. *)
Seen(ls) == {l \in ls : l[1] \in Listed}

(* An artifact gets these parents while cascades may be under way.         *)
Rewritten(c, ls) ==
    /\ links' = ls
    /\ late' = [x \in Procs |-> IF job[x].pc \in Cascading THEN late[x] \cup {c} ELSE late[x]]

PendingOf(x) == IF job[x].pc \in {"verify", "unlink"} THEN {<<job[x].child, job[x].parent>>} ELSE {}
Pending == UNION {PendingOf(x) : x \in Procs}

(* link_parent writes the link, verifies the whole graph, and takes the    *)
(* link out again when it fails.                                           *)
Link(p, c, q) ==
    /\ c # q /\ <<c, q>> \notin links
    /\ Start(p, Linking(c, q))
    /\ Rewritten(c, links \cup {<<c, q>>})
    /\ UNCHANGED <<revoked, release, approval, faults, spent, reported, borrowed, unverified, overwritten>>

(* A link that is there already is reported as it stands, also while the   *)
(* command that added it has still to verify it.                           *)
LinkAgain(c, q) ==
    /\ c # q /\ <<c, q>> \in links
    /\ Counted
    /\ reported' = reported \cup {<<c, q>>}
    /\ borrowed' = borrowed \cup ({<<c, q>>} \cap Pending)
    /\ UNCHANGED <<revoked, release, approval, job, faults, spent, links, unverified, overwritten, late>>

(* register_release adds the source of a release to the parents that the   *)
(* document has, and keeps its status; it verifies nothing.                *)
Register(c, q) ==
    /\ c # q /\ Counted
    /\ Rewritten(c, links \cup {<<c, q>>})
    /\ unverified' = unverified \cup ({<<c, q>>} \ links)
    /\ UNCHANGED <<revoked, release, approval, job, faults, spent, reported, borrowed, overwritten>>

(* POST /artifacts replaces the document, with any parents and status.     *)
Post(c, parents, gone) ==
    /\ Counted
    /\ revoked' = IF gone THEN revoked \cup {c} ELSE revoked \ {c}
    /\ Rewritten(c, {l \in links : l[1] # c} \cup {c} \X parents)
    /\ unverified' = unverified \cup (({c} \X parents) \ links)
    /\ overwritten' = overwritten \cup {c}
    /\ UNCHANGED <<release, approval, job, faults, spent, reported, borrowed>>

VerifiesOwn(p) == <<job[p].parent, job[p].child>> \notin links    \* mutant: only the opposite link is looked for
Verifies(p) == Acyclic(Seen(links))

Verify(p) ==
    /\ At(p, "verify")
    /\ IF Verifies(p)
       THEN /\ Become(p, Idle)
            /\ reported' = reported \cup PendingOf(p) /\ borrowed' = borrowed \ PendingOf(p)
            /\ unverified' = unverified \ Seen(links)
       ELSE Goto(p, "unlink") /\ UNCHANGED <<reported, borrowed, unverified>>
    /\ UNCHANGED <<revoked, release, approval, bounds, spent, links, overwritten, late>>

WithoutParents(c, q) ==          \* mutant: the parents as they were read are restored
    {l \in links : l[1] # c}
Without(c, q) == links \ {<<c, q>>}

Unlink(p) ==
    /\ At(p, "unlink")
    /\ links' = Without(job[p].child, job[p].parent)
    /\ Become(p, Idle)
    /\ UNCHANGED <<revoked, release, approval, bounds, spent, reported, borrowed, unverified, overwritten, late>>

-----------------------------------------------------------------------------
(* cascade_revoke: a plan of a listed artifact and its descendants,        *)
(* deepest first; after each revocation the channel is rolled back.        *)

Plan(r) ==
    LET level == Levels(Seen(links), r)
    IN  {row \in Row : row.art \in level[row.depth] /\ row.gone = (row.art \in revoked)}

StartCascade(p, r) ==
    /\ r \in Listed /\ Start(p, Cascade(r, Plan(r)))
    /\ UNCHANGED <<revoked, release, approval, faults, spent, graph>>

FirstShallow(rows) == {row \in rows : \A other \in rows : row.depth <= other.depth}   \* mutant: the root first
First(rows) == {row \in rows : \A other \in rows : row.depth >= other.depth}

Revoke(p) ==
    /\ At(p, "revoke")
    /\ \E row \in First(job[p].todo) :
          LET rest == [job[p] EXCEPT !.todo = @ \ {row}]
          IN  IF row.gone THEN Become(p, rest) /\ UNCHANGED revoked
              ELSE /\ revoked' = revoked \cup {row.art}
                   /\ Become(p, [rest EXCEPT !.pc = "pointer", !.art = row.art])
    /\ UNCHANGED <<release, approval, bounds, spent, graph>>

(* A channel without a previous artifact is left where it is: blocked.     *)
Pointer(p) ==
    /\ At(p, "pointer")
    /\ IF chan.art = job[p].art /\ chan.prev # NoArtifact
       THEN Become(p, [job[p] EXCEPT !.pc = "previous", !.prev = chan.prev, !.gen = chan.gen])
       ELSE Goto(p, "revoke")
    /\ UNCHANGED <<revoked, release, approval, bounds, spent, graph>>

Previous(p) ==
    /\ At(p, "previous")
    /\ Goto(p, IF job[p].prev \in revoked THEN "revoke" ELSE "rollback")
    /\ UNCHANGED <<revoked, release, approval, bounds, spent, graph>>

Expected(p) == job[p].gen = chan.gen

Rollback(p) ==
    /\ At(p, "rollback")
    /\ chan' = IF Expected(p) THEN Pointing(job[p].prev) ELSE chan
    /\ Goto(p, "revoke")
    /\ UNCHANGED <<revoked, fence, approval, bounds, spent, graph>>

EndCascade(p) ==
    /\ At(p, "revoke") /\ job[p].todo = {}
    /\ Become(p, Idle) /\ late' = [late EXCEPT ![p] = {}]
    /\ UNCHANGED <<revoked, release, approval, bounds, spent, links, reported, borrowed, unverified, overwritten>>

Withdrawing(p) == Revoke(p) \/ Pointer(p) \/ Previous(p) \/ Rollback(p) \/ EndCascade(p)

-----------------------------------------------------------------------------
(* A process is killed, or an I/O error ends it.  The lock of a fence that *)
(* was left behind is removed by the next to want it.                      *)
Abort(p) ==
    /\ ~At(p, "idle") /\ faults < MaxFaults /\ faults' = faults + 1
    /\ Become(p, Idle) /\ fence' = Released(p)
    /\ unverified' = unverified \cup PendingOf(p)
    /\ late' = [late EXCEPT ![p] = {}]
    /\ UNCHANGED <<revoked, chan, approval, started, spent, links, reported, borrowed, overwritten>>

Payloads == [art: Artifacts, gen: {AnyGen, chan.gen}]
Deciding(i) ==
    \/ \E r \in People, payload \in Payloads : CreateApproval(i, r, payload)
    \/ \E s \in People : Approve(i, s)
    \/ Expire(i)
Acting(p) ==
    \/ \E i \in Approvals, payload \in Payloads : Request(p, i, payload)
    \/ \E c, q \in Artifacts : Link(p, c, q)
    \/ \E r \in Artifacts : StartCascade(p, r)
    \/ Promoting(p) \/ Verify(p) \/ Unlink(p) \/ Withdrawing(p) \/ Abort(p)

Writing(c) ==
    \/ \E q \in Artifacts : LinkAgain(c, q) \/ Register(c, q)
    \/ \E parents \in SUBSET Artifacts, gone \in BOOLEAN : Post(c, parents, gone)

Next ==
    \/ \E i \in Approvals : Deciding(i)
    \/ \E p \in Procs : Acting(p)
    \/ \E c \in Artifacts : Writing(c)

Spec == Init /\ [][Next]_vars

-----------------------------------------------------------------------------
(* Type invariant; the fence is held by a promotion that is under way.     *)
TypeOK ==
    /\ revoked \subseteq Artifacts /\ links \subseteq Artifacts \X Artifacts
    /\ chan \in Channel /\ approval \in [Approvals -> Approval]
    /\ fence \in {Nobody} \cup {p \in Procs : job[p].pc \in {"check", "write"}}
    /\ job \in [Procs -> JobType]
    /\ spent \in [Approvals -> Nat]
    /\ reported \cup borrowed \cup unverified \subseteq Artifacts \X Artifacts
    /\ overwritten \subseteq Artifacts
    /\ late \in [Procs -> SUBSET Artifacts]

(* A protected channel moves only to the artifact that a quorum of others  *)
(* than its requester has approved, from the generation they approved it   *)
(* for; or back to its previous artifact once the current one is revoked,  *)
(* also when a POST has made that one active again since.                  *)
QuorumBehindPromotion ==
    [][chan' # chan =>
        \/ /\ chan.art \in revoked \cup overwritten /\ chan'.art = chan.prev
        \/ \E p \in Procs :
              /\ At(p, "write") /\ job'[p] # job[p]
              /\ LET a == approval[job[p].ap]
                 IN  /\ Cardinality(a.approvers \ {a.requester}) >= Quorum
                     /\ a.payload.art = chan'.art
                     /\ a.payload.gen \in {AnyGen, chan.gen}]_vars

(* However many requests name an approval, one of them moves the channel.  *)
ApprovalSpentOnce == \A i \in Approvals : spent[i] <= 1

(* A cycle among the listed artifacts always holds a link that is still to *)
(* be verified, or whose writer ended before it was, or verifies nothing:  *)
(* links that are added at the same time never leave one behind.           *)
SettledLinksAcyclic == Acyclic(Seen(links) \ (Pending \cup unverified))

(* A link that was reported as there is not removed by another's rollback, *)
(* unless the report rested on the addition that is rolled back; a POST    *)
(* may remove the links of its artifact.                                   *)
ReportedLinkStays == \A l \in reported \ borrowed : l \in links \/ l[1] \in overwritten

(* When a cascade gets to its root, every listed descendant that the root  *)
(* then has is revoked, but for what was written meanwhile and what is     *)
(* below it: a cascade that is cut short has not marked the root as done.  *)
CascadeCoversDescendants ==
    [][\A p \in Procs :
        LET roots(j) == IF j.pc \in Cascading THEN {row \in j.todo : row.depth = 0} ELSE {}
        IN  roots(job[p]) # {} /\ job'[p] # Idle /\ roots(job'[p]) = {}
            => \A d \in Descendants(Seen(links), job[p].root) :
                  d \in revoked \cup late[p] \cup UNION {Descendants(Seen(links), c) : c \in late[p]}]_vars
=============================================================================
