------------------------ MODULE ReleaseControlProofs ------------------------
(***************************************************************************)
(* Theorems about ReleaseControl, for any number of processes, artifacts,  *)
(* operations and commands, and every choice of faults.                    *)
(***************************************************************************)
EXTENDS ReleaseControl, TLAPS

-----------------------------------------------------------------------------
(* What each assignment of a command's local state does to its fields. *)

AnyArtifact == Artifacts \cup {NoArtifact}
AnyOp       == Ops \cup {NoOp}
Expected    == Nat \cup {AnyGen}

LEMMA JobFields ==
    ASSUME NEW f \in Phases, NEW a \in AnyArtifact, NEW e \in Expected, NEW o \in AnyOp,
           NEW s \in Status, NEW b \in BOOLEAN, NEW w \in SUBSET Artifacts
    PROVE  /\ Job(f, a, e, o, s, b, w) \in JobType
           /\ Job(f, a, e, o, s, b, w).pc = f
           /\ Job(f, a, e, o, s, b, w).art = a
           /\ Job(f, a, e, o, s, b, w).op = o
           /\ Job(f, a, e, o, s, b, w).target = s
           /\ Job(f, a, e, o, s, b, w).withdrawn = w
  BY DEF Job, JobType, AnyArtifact, AnyOp, Expected

Kept(j, k) == k.op = j.op /\ k.auto = j.auto /\ k.withdrawn = j.withdrawn

LEMMA ToFields ==
    ASSUME NEW j \in JobType, NEW f \in Phases
    PROVE  /\ To(j, f) \in JobType /\ Kept(j, To(j, f))
           /\ To(j, f).pc = f
           /\ To(j, f).art = j.art /\ To(j, f).exp = j.exp /\ To(j, f).token = j.token
           /\ To(j, f).gen = j.gen /\ To(j, f).prev = j.prev /\ To(j, f).target = j.target
  BY DEF To, JobType, Kept

LEMMA ClaimingFields ==
    ASSUME NEW j \in JobType, NEW t \in Nat
    PROVE  /\ Claiming(j, t) \in JobType /\ Kept(j, Claiming(j, t))
           /\ Claiming(j, t).token = t
           /\ Claiming(j, t).art = j.art /\ Claiming(j, t).exp = j.exp
           /\ Claiming(j, t).target = j.target
  BY DEF Claiming, JobType, Kept

LEMMA ReadingFields ==
    ASSUME NEW j \in JobType, NEW g \in Nat, NEW a \in AnyArtifact
    PROVE  /\ Reading(j, g, a) \in JobType /\ Kept(j, Reading(j, g, a))
           /\ Reading(j, g, a).gen = g /\ Reading(j, g, a).prev = a
           /\ Reading(j, g, a).art = j.art /\ Reading(j, g, a).exp = j.exp
           /\ Reading(j, g, a).token = j.token /\ Reading(j, g, a).target = j.target
  BY DEF Reading, JobType, Kept, AnyArtifact

LEMMA TargetingFields ==
    ASSUME NEW j \in JobType, NEW s \in Status
    PROVE  /\ Targeting(j, s) \in JobType /\ Kept(j, Targeting(j, s))
           /\ Targeting(j, s).target = s
           /\ Targeting(j, s).art = j.art /\ Targeting(j, s).token = j.token
  BY DEF Targeting, JobType, Kept

LEMMA RevertingFields ==
    ASSUME NEW j \in JobType, NEW a \in AnyArtifact, NEW g \in Nat
    PROVE  /\ Reverting(j, a, g) \in JobType /\ Kept(j, Reverting(j, a, g))
           /\ Reverting(j, a, g).art = a /\ Reverting(j, a, g).exp = g
           /\ Reverting(j, a, g).token = j.token
  BY DEF Reverting, JobType, Kept, AnyArtifact

LEMMA IdleFields == Idle \in JobType /\ Idle.pc = "idle" /\ Idle.op = NoOp
  BY DEF Idle, Job, JobType, Phases, ClaimPhases, CommitPhases, Status

LEMMA PhaseNames ==
    /\ {"idle", "fence", "read-op", "check", "lock-channel", "lock-artifact", "read-mirror",
        "put-row", "put-mirror", "rollback"} \subseteq Phases
    /\ {"read-fence", "write-fence", "write-op"} \subseteq Phases
    /\ {"verify-channel", "write-channel", "verify-complete", "complete"} \subseteq Phases
  BY DEF Phases, ClaimPhases, CommitPhases

LEMMA Become1 ==
    ASSUME TypeOK, NEW p \in Procs, NEW j, Become(p, j)
    PROVE  job'[p] = j /\ \A q \in Procs \ {p} : job'[q] = job[q]
  BY DEF Become, TypeOK

LEMMA BecomeType ==
    ASSUME TypeOK, NEW p \in Procs, NEW j \in JobType, Become(p, j),
           j.pc # "idle" => j.art \in Artifacts
    PROVE  job' \in [Procs -> JobType] /\ \A q \in Procs : job'[q].pc # "idle" => job'[q].art \in Artifacts
  BY Become1 DEF Become, TypeOK

LEMMA AcquireLock ==
    ASSUME TypeOK, NEW p \in Procs, NEW l \in Locks, Acquire(p, l)
    PROVE  /\ lock' \in [Locks -> Procs \cup {Free, Dead}] /\ taken' \in BOOLEAN
           /\ lock'[l] = p
           /\ \A m \in Locks \ {l} : lock'[m] = lock[m]
           /\ taken => taken'
           /\ ~taken' => lock[l] \in {Free, Dead}
  BY DEF Acquire, TypeOK

LEMMA ReleaseLocks ==
    ASSUME TypeOK, NEW ls
    PROVE  /\ Released(ls) \in [Locks -> Procs \cup {Free, Dead}]
           /\ \A l \in Locks \ ls : Released(ls)[l] = lock[l]
  BY DEF Released, TypeOK

-----------------------------------------------------------------------------
(* Types. *)

LEMMA InitType == Init => TypeOK
<1>. SUFFICES ASSUME Init PROVE TypeOK
  OBVIOUS
<1>1. chan \in Channel
  BY DEF Init, NoChannel, Channel
<1>. QED BY <1>1, IdleFields DEF Init, TypeOK, Status

Changed == /\ job' \in [Procs -> JobType]
           /\ \A q \in Procs : job'[q].pc # "idle" => job'[q].art \in Artifacts

LEMMA RequestJob ==
    ASSUME TypeOK, NEW p \in Procs, Request(p)
    PROVE  /\ Changed
           /\ At(p, "idle") /\ job'[p].pc \in {"fence", "check", "lock-artifact", "read-mirror"}
           /\ job'[p].op # NoOp <=> job'[p].pc = "fence"
           /\ job'[p].withdrawn = Withdrawn
           /\ At(p, "lock-artifact")' => job'[p].target \in Withdrawal
           /\ \A q \in Procs \ {p} : job'[q] = job[q]
           /\ UNCHANGED <<registry, chan, fence, opdoc, lock, history>> /\ started' = started + 1
<1>0. Withdrawn \in SUBSET Artifacts /\ AnyGen \in Expected /\ NoOp \in AnyOp
  BY DEF Withdrawn, Expected, AnyOp
<1>1. ASSUME NEW a \in Artifacts, NEW exp \in {AnyGen, chan.gen}, NEW o \in Ops \cup {NoOp},
             Promote(p, a, exp, o)
      PROVE  \E j \in JobType : /\ Become(p, j) /\ j.art \in Artifacts /\ j.withdrawn = Withdrawn
                                /\ j.pc \in {"fence", "check"} /\ (j.op # NoOp <=> j.pc = "fence")
  <2>. DEFINE f == IF o = NoOp THEN "check" ELSE "fence"
              no == FALSE
              j == Job(f, a, exp, o, "none", no, Withdrawn)
  <2>1. /\ exp \in Expected /\ o \in AnyOp /\ a \in AnyArtifact /\ "none" \in Status /\ f \in Phases
        /\ f \in {"fence", "check"} /\ (o # NoOp <=> f = "fence") /\ no \in BOOLEAN
    BY PhaseNames DEF Expected, AnyOp, AnyArtifact, TypeOK, Channel, Status
  <2>2. Become(p, j)
    BY <1>1 DEF Promote
  <2>3. j \in JobType /\ j.pc = f /\ j.op = o /\ j.art = a /\ j.withdrawn = Withdrawn
    <3>. HIDE DEF f, no
    <3>. QED BY <1>0, <2>1, JobFields
  <2>. HIDE DEF f, j
  <2>. QED BY <2>1, <2>2, <2>3
<1>2. ASSUME NEW a \in Artifacts, NEW target \in Withdrawal, NEW auto \in BOOLEAN,
             ChangeStatus(p, a, target, auto)
      PROVE  \E j \in JobType : /\ Become(p, j) /\ j.art \in Artifacts /\ j.withdrawn = Withdrawn
                                /\ j.pc = "lock-artifact" /\ j.op = NoOp /\ j.target \in Withdrawal
  <2>1. a \in AnyArtifact /\ target \in Status /\ "lock-artifact" \in Phases
    BY PhaseNames DEF AnyArtifact, Status
  <2>. QED BY <1>0, <1>2, <2>1, JobFields DEF ChangeStatus
<1>3. ASSUME NEW a \in Artifacts, Register(p, a)
      PROVE  \E j \in JobType : /\ Become(p, j) /\ j.art \in Artifacts /\ j.withdrawn = Withdrawn
                                /\ j.pc = "read-mirror" /\ j.op = NoOp
  <2>. DEFINE no == FALSE
              j == Job("read-mirror", a, AnyGen, NoOp, "none", no, Withdrawn)
  <2>1. a \in AnyArtifact /\ "none" \in Status /\ "read-mirror" \in Phases /\ no \in BOOLEAN
    BY PhaseNames DEF AnyArtifact, Status
  <2>2. Become(p, j)
    BY <1>3 DEF Register
  <2>3. j \in JobType /\ j.pc = "read-mirror" /\ j.op = NoOp /\ j.art = a /\ j.withdrawn = Withdrawn
    <3>. HIDE DEF no
    <3>. QED BY <1>0, <2>1, JobFields
  <2>. HIDE DEF j
  <2>. QED BY <2>2, <2>3
<1>4. \E j \in JobType : /\ Become(p, j) /\ j.art \in Artifacts /\ j.withdrawn = Withdrawn
                         /\ j.pc \in {"fence", "check", "lock-artifact", "read-mirror"}
                         /\ (j.op # NoOp <=> j.pc = "fence")
                         /\ (j.pc = "lock-artifact" => j.target \in Withdrawal)
  BY <1>1, <1>2, <1>3 DEF Request
<1>5. /\ At(p, "idle") /\ started' = started + 1
      /\ UNCHANGED <<registry, chan, fence, opdoc, lock, history>>
  BY DEF Request, Promote, ChangeStatus, Register
<1>. QED BY <1>4, <1>5, Become1, BecomeType DEF Changed, At

(* One step of a command: what it does to the command, and its types. *)
LEMMA StepJob ==
    ASSUME TypeOK, NEW p \in Procs, Step(p)
    PROVE  Changed /\ \A q \in Procs \ {p} : job'[q] = job[q]
<1>. DEFINE j == job[p]
<1>0. j \in JobType /\ chan \in Channel /\ (j.pc # "idle" => j.art \in Artifacts)
  BY DEF TypeOK
<1>a. SUFFICES \E k \in JobType : Become(p, k) /\ (k.pc # "idle" => k.art \in Artifacts)
  BY Become1, BecomeType DEF Changed
<1>b. ASSUME End(p) PROVE \E k \in JobType : Become(p, k) /\ (k.pc # "idle" => k.art \in Artifacts)
  BY <1>b, IdleFields DEF End
<1>c. ASSUME NEW f \in Phases, j.art \in Artifacts, Goto(p, f)
      PROVE  \E k \in JobType : Become(p, k) /\ (k.pc # "idle" => k.art \in Artifacts)
  BY <1>0, <1>c, ToFields DEF Goto
<1>. HIDE DEF j
<1>1. CASE Replay(p) \/ CompleteOp(p) \/ Raise(p) \/ Crash(p)
  BY <1>1, <1>b DEF Replay, CompleteOp, Raise, Crash
<1>2. CASE ReadFence(p)
  <2>1. Become(p, To(Claiming(j, fence + 1), "write-fence")) /\ j.pc = "read-fence"
    BY <1>2 DEF ReadFence, j, At
  <2>2. fence + 1 \in Nat /\ "write-fence" \in Phases
    BY PhaseNames DEF TypeOK
  <2>3. Claiming(j, fence + 1) \in JobType /\ Claiming(j, fence + 1).art = j.art
    BY <1>0, <2>2, ClaimingFields
  <2>4. /\ To(Claiming(j, fence + 1), "write-fence") \in JobType
        /\ To(Claiming(j, fence + 1), "write-fence").art = j.art
    BY <2>2, <2>3, ToFields
  <2>. QED BY <1>0, <2>1, <2>4
<1>3. CASE \/ CheckArtifact(p) \/ LockArtifact(p) \/ PutRow(p) \/ LockFence(p)
           \/ ReadOperation(p) \/ WriteFence(p) \/ WriteOperation(p) \/ VerifyToken(p)
  <2>1. j.art \in Artifacts
    BY <1>0, <1>3 DEF CheckArtifact, LockArtifact, PutRow, LockFence, ReadOperation, WriteFence,
                      WriteOperation, VerifyToken, At, j
  <2>2. \E f \in Phases : Goto(p, f)
    BY <1>3, PhaseNames DEF CheckArtifact, LockArtifact, PutRow, LockFence, ReadOperation,
                            WriteFence, WriteOperation, VerifyToken
  <2>. QED BY <2>1, <2>2, <1>c
<1>4. CASE LockChannel(p)
  <2>. DEFINE f == IF j.op = NoOp THEN "write-channel" ELSE "verify-channel"
  <2>1. Become(p, To(Reading(j, chan.gen, chan.art), f)) /\ j.pc = "lock-channel"
    BY <1>4 DEF LockChannel, j, At
  <2>2. chan.gen \in Nat /\ chan.art \in AnyArtifact /\ f \in Phases
    BY <1>0, PhaseNames DEF Channel, AnyArtifact
  <2>. HIDE DEF f
  <2>. QED BY <1>0, <2>1, <2>2, ReadingFields, ToFields
<1>5. CASE WriteChannel(p) \/ PutMirror(p)
  <2>1. j.art \in Artifacts
    BY <1>0, <1>5 DEF WriteChannel, PutMirror, At, j
  <2>2. End(p) \/ \E f \in Phases : Goto(p, f)
    BY <1>5, PhaseNames DEF WriteChannel, PutMirror
  <2>. QED BY <2>1, <2>2, <1>b, <1>c
<1>6. CASE ReadMirror(p)
  <2>1. Become(p, To(Targeting(j, RegisteredStatus(mirror[j.art])), "put-row")) /\ j.pc = "read-mirror"
    BY <1>6 DEF ReadMirror, j, At
  <2>2. RegisteredStatus(mirror[j.art]) \in Status /\ "put-row" \in Phases
    BY PhaseNames DEF RegisteredStatus, Status
  <2>. QED BY <1>0, <2>1, <2>2, TargetingFields, ToFields
<1>7. CASE Rollback(p)
  <2>1. End(p) \/ (/\ Become(p, To(Reverting(j, chan.prev, chan.gen), "check"))
                   /\ chan.prev # NoArtifact)
    BY <1>7 DEF Rollback, j
  <2>2. chan.prev \in AnyArtifact /\ chan.gen \in Nat /\ "check" \in Phases
    BY <1>0, PhaseNames DEF Channel, AnyArtifact
  <2>. QED BY <1>0, <1>b, <2>1, <2>2, RevertingFields, ToFields DEF AnyArtifact
<1>. QED BY <1>1, <1>2, <1>3, <1>4, <1>5, <1>6, <1>7 DEF Step

LEMMA StepLocks ==
    ASSUME TypeOK, NEW p \in Procs, Step(p)
    PROVE  lock' \in [Locks -> Procs \cup {Free, Dead}] /\ taken' \in BOOLEAN /\ (taken => taken')
<1>1. CASE LockFence(p)
  BY <1>1, AcquireLock DEF LockFence, Locks
<1>2. CASE LockChannel(p)
  BY <1>2, AcquireLock DEF LockChannel, Locks
<1>3. CASE LockArtifact(p)
  <2>1. job[p].art \in Locks
    BY <1>3 DEF LockArtifact, TypeOK, At, Locks
  <2>. QED BY <1>3, <2>1, AcquireLock DEF LockArtifact
<1>4. CASE ReadMirror(p)
  <2>1. job[p].art \in Locks
    BY <1>4 DEF ReadMirror, TypeOK, At, Locks
  <2>. QED BY <1>4, <2>1, AcquireLock DEF ReadMirror
<1>5. CASE WriteChannel(p) \/ CompleteOp(p) \/ PutMirror(p) \/ Replay(p) \/ Raise(p)
  <2>1. \E ls : lock' = Released(ls)
    BY <1>5 DEF WriteChannel, CompleteOp, PutMirror, Replay, Raise
  <2>. QED BY <1>5, <2>1, ReleaseLocks DEF WriteChannel, CompleteOp, PutMirror, Replay, Raise,
                                           TypeOK, history
<1>6. CASE Crash(p)
  BY <1>6, ReleaseAssumption DEF Crash, TypeOK, history
<1>7. CASE \/ CheckArtifact(p) \/ PutRow(p) \/ Rollback(p) \/ ReadOperation(p) \/ ReadFence(p)
           \/ WriteFence(p) \/ WriteOperation(p) \/ VerifyToken(p)
  BY <1>7 DEF CheckArtifact, PutRow, Rollback, ReadOperation, ReadFence, WriteFence, WriteOperation,
              VerifyToken, TypeOK, history
<1>. QED BY <1>1, <1>2, <1>3, <1>4, <1>5, <1>6, <1>7 DEF Step

LEMMA StepDocs ==
    ASSUME TypeOK, NEW p \in Procs, Step(p)
    PROVE  /\ db' \in [Artifacts -> Status] /\ mirror' \in [Artifacts -> Status]
           /\ chan' \in Channel /\ fence' \in Nat /\ started' \in Nat
           /\ opdoc' \in [Ops -> {"none", "in_progress", "completed"}]
           /\ applied' \in [Ops -> Nat] /\ lost' \subseteq Artifacts
<1>0. job[p] \in JobType /\ (job[p].pc # "idle" => job[p].art \in Artifacts)
  BY DEF TypeOK
<1>1. CASE WriteChannel(p)
  <2>1. chan' \in Channel
    BY <1>0, <1>1 DEF WriteChannel, JobType, Channel
  <2>2. applied' \in [Ops -> Nat]
    BY <1>1 DEF WriteChannel, TypeOK
  <2>. QED BY <1>1, <2>1, <2>2 DEF WriteChannel, TypeOK, registry
<1>2. CASE PutRow(p) \/ PutMirror(p)
  <2>1. job[p].target \in Status
    BY <1>0 DEF JobType
  <2>. QED BY <1>2, <2>1 DEF PutRow, PutMirror, TypeOK, history
<1>3. CASE Raise(p) \/ Crash(p)
  BY <1>0, <1>3 DEF Raise, Crash, Unmirrored, TypeOK, registry, At
<1>4. CASE WriteFence(p) \/ WriteOperation(p) \/ CompleteOp(p)
  BY <1>0, <1>4 DEF WriteFence, WriteOperation, CompleteOp, JobType, TypeOK, registry, history
<1>5. CASE \/ Replay(p) \/ CheckArtifact(p) \/ LockChannel(p) \/ LockArtifact(p)
           \/ ReadMirror(p) \/ Rollback(p) \/ LockFence(p) \/ ReadOperation(p)
           \/ ReadFence(p) \/ VerifyToken(p)
  BY <1>5 DEF Replay, CheckArtifact, LockChannel, LockArtifact, ReadMirror, Rollback, LockFence,
              ReadOperation, ReadFence, VerifyToken, TypeOK, registry, history
<1>. QED BY <1>1, <1>2, <1>3, <1>4, <1>5 DEF Step

LEMMA NextType == TypeOK /\ [Next]_vars => TypeOK'
<1>. SUFFICES ASSUME TypeOK, [Next]_vars PROVE TypeOK'
  OBVIOUS
<1>1. CASE UNCHANGED vars
  BY <1>1 DEF vars, registry, history, TypeOK
<1>2. ASSUME NEW p \in Procs, Request(p), raced' \in BOOLEAN PROVE TypeOK'
  BY <1>2, RequestJob DEF Changed, TypeOK, registry, history
<1>3. ASSUME NEW p \in Procs, Step(p), raced' \in BOOLEAN PROVE TypeOK'
  BY <1>3, StepJob, StepLocks, StepDocs DEF Changed, TypeOK
<1>4. Next => raced' \in BOOLEAN
  <2>1. (raced \/ Overlapping') \in BOOLEAN
    OBVIOUS
  <2>. QED BY <2>1 DEF Next
<1>. QED BY <1>1, <1>2, <1>3, <1>4 DEF Next

(* The registry, the channel, its fence and the locks stay in their types. *)
THEOREM TypeCorrect == Spec => []TypeOK
  BY InitType, NextType, PTL DEF Spec

-----------------------------------------------------------------------------
(* What each step does to the command that takes it. *)

Same(p)  == job'[p].op = job[p].op /\ job'[p].withdrawn = job[p].withdrawn
Onto(p, f) == Same(p) /\ job'[p].pc = f
Stopped(p) == job'[p] = Idle

LEMMA GotoEffect ==
    ASSUME TypeOK, NEW p \in Procs, NEW f \in Phases, Goto(p, f)
    PROVE  /\ Onto(p, f)
           /\ job'[p].art = job[p].art /\ job'[p].exp = job[p].exp /\ job'[p].token = job[p].token
           /\ job'[p].gen = job[p].gen /\ job'[p].prev = job[p].prev
           /\ job'[p].target = job[p].target
<1>1. job[p] \in JobType
  BY DEF TypeOK
<1>. QED BY <1>1, ToFields, Become1 DEF Goto, Onto, Same, Kept

LEMMA EndEffect ==
    ASSUME TypeOK, NEW p \in Procs,
           End(p) \/ Replay(p) \/ CompleteOp(p) \/ Raise(p) \/ Crash(p)
    PROVE  Stopped(p)
  BY Become1 DEF End, Stopped, Replay, CompleteOp, Raise, Crash

LEMMA ClaimEffect ==
    ASSUME TypeOK, NEW p \in Procs, ReadFence(p)
    PROVE  Onto(p, "write-fence") /\ job'[p].token = fence + 1 /\ job'[p].art = job[p].art
<1>. DEFINE j == job[p]
            c == Claiming(j, fence + 1)
            f == "write-fence"
<1>1. j \in JobType /\ fence + 1 \in Nat /\ f \in Phases
  BY PhaseNames DEF TypeOK
<1>2. job'[p] = To(c, f)
  BY Become1 DEF ReadFence
<1>. HIDE DEF j
<1>3. c \in JobType /\ Kept(j, c) /\ c.token = fence + 1 /\ c.art = j.art
  BY <1>1, ClaimingFields
<1>. HIDE DEF c
<1>4. /\ To(c, f).pc = f /\ Kept(c, To(c, f))
      /\ To(c, f).token = c.token /\ To(c, f).art = c.art
  BY <1>1, <1>3, ToFields
<1>. QED BY <1>2, <1>3, <1>4 DEF Onto, Same, Kept, j

(* The steps that only move a command to its next phase. *)
NextPhase(p, f) ==
    /\ Onto(p, f)
    /\ job'[p].art = job[p].art /\ job'[p].token = job[p].token

LEMMA MoveEffect ==
    ASSUME TypeOK, NEW p \in Procs
    PROVE  /\ LockFence(p)      => At(p, "fence")       /\ NextPhase(p, "read-op")
           /\ ReadOperation(p)  => At(p, "read-op")     /\ NextPhase(p, "read-fence")
           /\ WriteFence(p)     => At(p, "write-fence") /\ NextPhase(p, "write-op")
           /\ WriteOperation(p) => At(p, "write-op")    /\ NextPhase(p, "check")
           /\ CheckArtifact(p)  => At(p, "check")       /\ NextPhase(p, "lock-channel")
           /\ VerifyToken(p)    => \/ At(p, "verify-channel")  /\ NextPhase(p, "write-channel")
                                   \/ At(p, "verify-complete") /\ NextPhase(p, "complete")
<1>1. ASSUME NEW f \in Phases, Goto(p, f) PROVE NextPhase(p, f)
  BY <1>1, GotoEffect DEF NextPhase
<1>2. LockFence(p) => At(p, "fence") /\ NextPhase(p, "read-op")
  BY <1>1, PhaseNames DEF LockFence
<1>3. ReadOperation(p) => At(p, "read-op") /\ NextPhase(p, "read-fence")
  BY <1>1, PhaseNames DEF ReadOperation
<1>4. WriteFence(p) => At(p, "write-fence") /\ NextPhase(p, "write-op")
  BY <1>1, PhaseNames DEF WriteFence
<1>5. WriteOperation(p) => At(p, "write-op") /\ NextPhase(p, "check")
  BY <1>1, PhaseNames DEF WriteOperation
<1>6. CheckArtifact(p) => At(p, "check") /\ NextPhase(p, "lock-channel")
  BY <1>1, PhaseNames DEF CheckArtifact
<1>7. VerifyToken(p) => \/ At(p, "verify-channel")  /\ NextPhase(p, "write-channel")
                        \/ At(p, "verify-complete") /\ NextPhase(p, "complete")
  BY <1>1, PhaseNames DEF VerifyToken
<1>. QED BY <1>2, <1>3, <1>4, <1>5, <1>6, <1>7

LEMMA LockEffect ==
    ASSUME TypeOK, NEW p \in Procs, LockChannel(p)
    PROVE  /\ Onto(p, IF job[p].op = NoOp THEN "write-channel" ELSE "verify-channel")
           /\ job'[p].gen = chan.gen /\ job'[p].prev = chan.art
           /\ job'[p].art = job[p].art /\ job'[p].exp = job[p].exp /\ job'[p].token = job[p].token
<1>. DEFINE j == job[p]
            c == Reading(j, chan.gen, chan.art)
            f == IF job[p].op = NoOp THEN "write-channel" ELSE "verify-channel"
<1>1. j \in JobType /\ chan.gen \in Nat /\ chan.art \in AnyArtifact /\ f \in Phases
  BY PhaseNames DEF TypeOK, Channel, AnyArtifact
<1>2. job'[p] = To(c, f)
  BY Become1 DEF LockChannel
<1>. HIDE DEF j, f
<1>3. /\ c \in JobType /\ Kept(j, c) /\ c.gen = chan.gen /\ c.prev = chan.art
      /\ c.art = j.art /\ c.exp = j.exp /\ c.token = j.token
  BY <1>1, ReadingFields
<1>. HIDE DEF c
<1>4. /\ To(c, f).pc = f /\ Kept(c, To(c, f)) /\ To(c, f).gen = c.gen /\ To(c, f).prev = c.prev
      /\ To(c, f).token = c.token /\ To(c, f).art = c.art /\ To(c, f).exp = c.exp
  BY <1>1, <1>3, ToFields
<1>. QED BY <1>2, <1>3, <1>4 DEF Onto, Same, Kept, j, f

LEMMA MirrorEffect ==
    ASSUME TypeOK, NEW p \in Procs, ReadMirror(p)
    PROVE  /\ Onto(p, "put-row") /\ job'[p].art = job[p].art
           /\ job'[p].target = RegisteredStatus(mirror[job[p].art])
<1>. DEFINE j == job[p]
            st == RegisteredStatus(mirror[j.art])
            c == Targeting(j, st)
            f == "put-row"
<1>1. j \in JobType /\ f \in Phases /\ st \in Status
  BY PhaseNames DEF TypeOK, RegisteredStatus, Status
<1>2. job'[p] = To(c, f)
  BY Become1 DEF ReadMirror
<1>. HIDE DEF j, st
<1>3. c \in JobType /\ Kept(j, c) /\ c.target = st /\ c.art = j.art
  BY <1>1, TargetingFields
<1>. HIDE DEF c
<1>4. To(c, f).pc = f /\ Kept(c, To(c, f)) /\ To(c, f).target = c.target /\ To(c, f).art = c.art
  BY <1>1, <1>3, ToFields
<1>. QED BY <1>2, <1>3, <1>4 DEF Onto, Same, Kept, j, st

LEMMA RollbackEffect ==
    ASSUME TypeOK, NEW p \in Procs, Rollback(p)
    PROVE  Stopped(p) \/ Onto(p, "check")
<1>1. CASE End(p)
  BY <1>1, EndEffect
<1>2. CASE Become(p, To(Reverting(job[p], chan.prev, chan.gen), "check"))
  <2>. DEFINE j == job[p]
              c == Reverting(j, chan.prev, chan.gen)
  <2>1. j \in JobType /\ chan.prev \in AnyArtifact /\ chan.gen \in Nat /\ "check" \in Phases
    BY PhaseNames DEF TypeOK, Channel, AnyArtifact
  <2>2. job'[p] = To(c, "check")
    BY <1>2, Become1
  <2>. HIDE DEF j
  <2>3. c \in JobType /\ Kept(j, c)
    BY <2>1, RevertingFields
  <2>. HIDE DEF c
  <2>4. To(c, "check").pc = "check" /\ Kept(c, To(c, "check"))
    BY <2>1, <2>3, ToFields
  <2>. QED BY <2>2, <2>3, <2>4 DEF Onto, Same, Kept, j
<1>. QED BY <1>1, <1>2 DEF Rollback

LEMMA WriteEffect ==
    ASSUME TypeOK, NEW p \in Procs, WriteChannel(p)
    PROVE  \/ job[p].op = NoOp /\ Stopped(p)
           \/ job[p].op # NoOp /\ Onto(p, "verify-complete") /\ job'[p].token = job[p].token
  BY EndEffect, GotoEffect, PhaseNames DEF WriteChannel

LEMMA PutEffect ==
    ASSUME TypeOK, NEW p \in Procs, PutMirror(p)
    PROVE  Stopped(p) \/ Onto(p, "rollback")
  BY EndEffect, GotoEffect, PhaseNames DEF PutMirror

-----------------------------------------------------------------------------
(* The channel is a compare-and-swap cell. *)

(* Who is about to write the channel holds its lock, and what it has read  *)
(* is still there.                                                         *)
Reader(p) ==
    /\ lock["channel"] = p
    /\ job[p].gen = chan.gen /\ job[p].prev = chan.art
    /\ ExpectedGeneration(job[p].exp, chan.gen)

AtChannel(p) == job[p].pc \in {"verify-channel", "write-channel"}
LockInv == \A p \in Procs : AtChannel(p) => taken \/ Reader(p)

LEMMA LockStep ==
    ASSUME TypeOK, LockInv, NEW p \in Procs, Step(p)
    PROVE  LockInv'
<1>. SUFFICES ASSUME NEW q \in Procs, AtChannel(q)', ~taken'
              PROVE  Reader(q)'
  BY DEF LockInv
<1>. USE ReleaseAssumption
<1>0. ~taken /\ (AtChannel(q) => Reader(q)) /\ "channel" \in Locks /\ "fence" \in Locks
  BY StepLocks DEF LockInv, Locks
<1>a. ASSUME q # p
      PROVE  job'[q] = job[q] /\ AtChannel(q) /\ Reader(q)
  <2>1. job'[q] = job[q]
    BY <1>a, StepJob
  <2>. QED BY <1>0, <2>1 DEF AtChannel
<1>b. ASSUME UNCHANGED <<chan>>, lock'["channel"] = lock["channel"], q # p
      PROVE  Reader(q)'
  BY <1>a, <1>b DEF Reader
<1>c. ASSUME q = p PROVE job'[p] # Idle
  BY <1>c, IdleFields DEF AtChannel
<1>1. CASE Replay(p)
  <2>1. q # p
    BY <1>1, <1>c, EndEffect DEF Stopped
  <2>. QED BY <1>0, <1>1, <1>b, <2>1, ReleaseLocks DEF Replay
<1>2. CASE LockFence(p)
  <2>1. q # p
    BY <1>2, MoveEffect DEF NextPhase, Onto, AtChannel
  <2>. QED BY <1>0, <1>2, <1>b, <2>1, AcquireLock DEF LockFence
<1>3. CASE \/ ReadOperation(p) \/ ReadFence(p) \/ WriteFence(p) \/ WriteOperation(p)
           \/ CheckArtifact(p)
  <2>1. q # p
    BY <1>3, MoveEffect, ClaimEffect DEF NextPhase, Onto, AtChannel
  <2>. QED BY <1>3, <1>b, <2>1 DEF ReadOperation, ReadFence, WriteFence, WriteOperation, CheckArtifact
<1>4. CASE LockChannel(p)
  <2>1. lock'["channel"] = p /\ lock["channel"] \in {Free, Dead}
    BY <1>0, <1>4, AcquireLock DEF LockChannel
  <2>2. q = p
    BY <1>a, <2>1 DEF Reader
  <2>. QED BY <1>4, <2>1, <2>2, LockEffect DEF Reader, LockChannel
<1>5. CASE VerifyToken(p)
  <2>1. UNCHANGED <<chan, lock>>
    BY <1>5 DEF VerifyToken
  <2>2. CASE q # p
    BY <1>b, <2>1, <2>2
  <2>3. CASE q = p
    <3>1. At(p, "verify-channel") /\ Goto(p, "write-channel")
      BY <1>5, <2>3, GotoEffect, PhaseNames DEF VerifyToken, Onto, AtChannel
    <3>2. Reader(p)
      BY <1>0, <2>3, <3>1 DEF AtChannel, At
    <3>. QED BY <2>1, <2>3, <3>1, <3>2, GotoEffect, PhaseNames DEF Reader
  <2>. QED BY <2>2, <2>3
<1>6. CASE WriteChannel(p)
  <2>1. q # p
    BY <1>6, <1>c, WriteEffect DEF Onto, Stopped, AtChannel
  <2>2. Reader(q) /\ Reader(p)
    BY <1>0, <1>6, <1>a, <2>1 DEF LockInv, WriteChannel, At, AtChannel
  <2>. QED BY <2>1, <2>2 DEF Reader
<1>7. CASE CompleteOp(p)
  <2>1. q # p
    BY <1>7, <1>c, EndEffect DEF Stopped
  <2>. QED BY <1>0, <1>7, <1>b, <2>1, ReleaseLocks DEF CompleteOp
<1>8. CASE LockArtifact(p) \/ ReadMirror(p)
  <2>1. q # p
    BY <1>8, GotoEffect, MirrorEffect, PhaseNames DEF LockArtifact, Onto, AtChannel
  <2>2. job[p].art \in Artifacts /\ job[p].art \in Locks /\ job[p].art # "channel"
    BY <1>8 DEF LockArtifact, ReadMirror, TypeOK, At, Locks
  <2>3. lock'["channel"] = lock["channel"]
    BY <1>0, <1>8, <2>2, AcquireLock DEF LockArtifact, ReadMirror
  <2>. QED BY <1>8, <1>b, <2>1, <2>3 DEF LockArtifact, ReadMirror
<1>9. CASE PutRow(p) \/ Rollback(p)
  <2>1. q # p
    BY <1>9, <1>c, GotoEffect, RollbackEffect, PhaseNames DEF PutRow, Stopped, Onto, AtChannel
  <2>. QED BY <1>9, <1>b, <2>1 DEF PutRow, Rollback
<1>10. CASE PutMirror(p)
  <2>1. q # p
    BY <1>10, <1>c, PutEffect DEF Onto, Stopped, AtChannel
  <2>2. job[p].art # "channel"
    BY <1>10 DEF PutMirror, TypeOK, At
  <2>. QED BY <1>0, <1>10, <1>b, <2>1, <2>2, ReleaseLocks DEF PutMirror
<1>11. CASE Raise(p)
  <2>1. q # p
    BY <1>11, <1>c, EndEffect DEF Stopped
  <2>2. "channel" \notin Holds(job[p])
    <3>1. ~AtChannel(p)
      BY <1>0, <1>a, <2>1 DEF LockInv, Reader
    <3>2. job[p].pc \in {"put-row", "put-mirror"} => job[p].art \in Artifacts
      BY DEF TypeOK
    <3>. QED BY <3>1, <3>2 DEF Holds, FenceHeld, AtChannel
  <2>. QED BY <1>0, <1>11, <1>b, <2>1, <2>2, ReleaseLocks DEF Raise
<1>12. CASE Crash(p)
  <2>1. q # p
    BY <1>12, <1>c, EndEffect DEF Stopped
  <2>2. lock["channel"] = q
    BY <1>a, <2>1 DEF Reader
  <2>. QED BY <1>0, <1>12, <1>b, <2>1, <2>2 DEF Crash, TypeOK
<1>. QED
  BY <1>1, <1>2, <1>3, <1>4, <1>5, <1>6, <1>7, <1>8, <1>9, <1>10, <1>11, <1>12 DEF Step

LEMMA LockNext == TypeOK /\ LockInv /\ [Next]_vars => LockInv'
<1>. SUFFICES ASSUME TypeOK, LockInv, [Next]_vars PROVE LockInv'
  OBVIOUS
<1>1. CASE UNCHANGED vars
  BY <1>1 DEF vars, history, LockInv, Reader, AtChannel
<1>2. ASSUME NEW p \in Procs, Request(p) PROVE LockInv'
  BY <1>2, RequestJob DEF LockInv, Reader, AtChannel, history
<1>. QED BY <1>1, <1>2, LockStep DEF Next

LEMMA ChannelStep ==
    ASSUME TypeOK, Next, chan' # chan
    PROVE  \E p \in Procs : /\ WriteChannel(p)
                            /\ \A q \in Procs : job'[q] # job[q] => q = p
<1>1. PICK p \in Procs : Request(p) \/ Step(p)
  BY DEF Next
<1>2. Step(p)
  BY <1>1, RequestJob
<1>3. WriteChannel(p)
  BY <1>2 DEF Step, LockFence, Replay, ReadOperation, ReadFence, WriteFence, WriteOperation,
              CheckArtifact, LockChannel, VerifyToken, CompleteOp, LockArtifact, ReadMirror,
              PutRow, PutMirror, Rollback, Raise, Crash
<1>. QED BY <1>2, <1>3, StepJob

(* Unless a lock is taken from a live owner, every write of the channel    *)
(* counts its generation up by one, names the artifact it replaces and     *)
(* meets the generation its caller expected.                               *)
THEOREM CompareAndSwap == Spec => ChannelIsCAS
<1>1. Init => LockInv
  BY IdleFields DEF Init, LockInv, AtChannel
<1>2. TypeOK /\ LockInv /\ [Next]_vars =>
        [chan' # chan => \/ taken
                         \/ /\ chan'.gen = chan.gen + 1 /\ chan'.prev = chan.art
                            /\ \A p \in Procs : job'[p] # job[p] =>
                                 ExpectedGeneration(job[p].exp, chan.gen)]_vars
  <2>. SUFFICES ASSUME TypeOK, LockInv, Next, chan' # chan, ~taken
                PROVE  /\ chan'.gen = chan.gen + 1 /\ chan'.prev = chan.art
                       /\ \A p \in Procs : job'[p] # job[p] =>
                            ExpectedGeneration(job[p].exp, chan.gen)
    BY DEF vars
  <2>1. PICK p \in Procs : WriteChannel(p) /\ \A q \in Procs : job'[q] # job[q] => q = p
    BY ChannelStep
  <2>2. Reader(p)
    BY <2>1 DEF LockInv, WriteChannel, At, AtChannel
  <2>. QED BY <2>1, <2>2 DEF Reader, WriteChannel
<1>. QED BY InitType, NextType, LockNext, <1>1, <1>2, PTL DEF Spec, ChannelIsCAS

-----------------------------------------------------------------------------
(* Fenced promotions. *)

(* The phases that only a fenced promotion is in, and the ones it shares.  *)
FencePhases == {"fence", "read-op", "read-fence", "write-fence", "write-op",
                "verify-channel", "verify-complete", "complete"}
PhaseInv ==
    \A p \in Procs :
       /\ job[p].pc \in FencePhases => job[p].op # NoOp
       /\ job[p].op # NoOp => job[p].pc \in FencePhases \cup {"check", "lock-channel", "write-channel"}

Others(p) == \A q \in Procs \ {p} : job'[q] = job[q]

LEMMA PhaseStep ==
    ASSUME TypeOK, PhaseInv, NEW p \in Procs, Step(p)
    PROVE  PhaseInv'
<1>. SUFFICES /\ job'[p].pc \in FencePhases => job'[p].op # NoOp
              /\ job'[p].op # NoOp =>
                    job'[p].pc \in FencePhases \cup {"check", "lock-channel", "write-channel"}
  BY StepJob DEF PhaseInv
<1>1. CASE job'[p] = Idle
  BY <1>1, IdleFields DEF FencePhases
<1>2. CASE \/ LockFence(p) \/ ReadOperation(p) \/ ReadFence(p) \/ WriteFence(p)
           \/ WriteOperation(p) \/ CheckArtifact(p) \/ VerifyToken(p)
  BY <1>2, MoveEffect, ClaimEffect DEF NextPhase, Onto, Same, PhaseInv, FencePhases, ReadFence, At
<1>3. CASE LockChannel(p)
  BY <1>3, LockEffect DEF Onto, Same, FencePhases
<1>4. CASE WriteChannel(p)
  BY <1>4, WriteEffect, IdleFields DEF Onto, Same, Stopped, FencePhases
<1>5. CASE LockArtifact(p) \/ ReadMirror(p) \/ PutRow(p) \/ PutMirror(p) \/ Rollback(p)
  <2>1. job[p].op = NoOp
    BY <1>5 DEF LockArtifact, ReadMirror, PutRow, PutMirror, Rollback, PhaseInv, FencePhases, At
  <2>2. /\ job'[p].op = NoOp
        /\ job'[p].pc \in {"idle", "put-row", "put-mirror", "rollback", "check"}
    BY <1>5, <2>1, IdleFields, GotoEffect, MirrorEffect, PutEffect, RollbackEffect, PhaseNames
       DEF LockArtifact, PutRow, Onto, Same, Stopped
  <2>. QED BY <2>2 DEF FencePhases
<1>. QED BY <1>1, <1>2, <1>3, <1>4, <1>5, EndEffect DEF Step, Stopped

LEMMA PhaseInit == Init => PhaseInv
  BY IdleFields DEF Init, PhaseInv, FencePhases

LEMMA PhaseNext == TypeOK /\ PhaseInv /\ [Next]_vars => PhaseInv'
<1>. SUFFICES ASSUME TypeOK, PhaseInv, [Next]_vars PROVE PhaseInv'
  OBVIOUS
<1>1. CASE UNCHANGED vars
  BY <1>1 DEF vars, PhaseInv
<1>2. ASSUME NEW p \in Procs, Request(p) PROVE PhaseInv'
  <2>1. /\ Others(p) /\ (job'[p].op # NoOp <=> job'[p].pc = "fence")
        /\ job'[p].pc \in {"fence", "check", "lock-artifact", "read-mirror"}
    BY <1>2, RequestJob DEF Others
  <2>. QED BY <2>1 DEF Others, PhaseInv, FencePhases
<1>. QED BY <1>1, <1>2, PhaseStep DEF Next

-----------------------------------------------------------------------------
(* Without a takeover from a live owner a fenced promotion holds the       *)
(* fence's lock from its first read to its end.                            *)
InFence(p) == job[p].op # NoOp /\ ~At(p, "fence")
FenceInv == \A p \in Procs : InFence(p) => taken \/ lock["fence"] = p

LEMMA FenceStep ==
    ASSUME TypeOK, PhaseInv, FenceInv, NEW p \in Procs, Step(p)
    PROVE  FenceInv'
<1>. SUFFICES ASSUME NEW q \in Procs, InFence(q)', ~taken'
              PROVE  lock'["fence"] = q
  BY DEF FenceInv
<1>. USE ReleaseAssumption
<1>0. ~taken /\ (InFence(q) => lock["fence"] = q) /\ "channel" \in Locks /\ "fence" \in Locks
  BY StepLocks DEF FenceInv, Locks
<1>a. ASSUME q # p
      PROVE  InFence(q) /\ lock["fence"] = q
  <2>1. job'[q] = job[q]
    BY <1>a, StepJob
  <2>. QED BY <1>0, <2>1 DEF InFence, At
<1>c. ASSUME q = p PROVE job'[p] # Idle
  BY <1>c, IdleFields DEF InFence
<1>1. CASE LockFence(p)
  <2>1. lock'["fence"] = p /\ lock["fence"] \in {Free, Dead}
    BY <1>0, <1>1, AcquireLock DEF LockFence
  <2>. QED BY <1>a, <2>1
<1>2. CASE Replay(p) \/ CompleteOp(p) \/ Raise(p) \/ Crash(p)
  <2>1. q # p
    BY <1>2, <1>c, EndEffect DEF Stopped
  <2>2. lock["fence"] = q /\ InFence(q)
    BY <1>a, <2>1
  <2>3. ~InFence(p)
    BY <1>0, <2>1, <2>2 DEF FenceInv
  <2>4. CASE Raise(p)
    <3>1. job[p].pc \in {"put-row", "put-mirror"} => job[p].art \in Artifacts
      BY DEF TypeOK
    <3>2. "fence" \notin Holds(job[p])
      BY <2>3, <3>1 DEF Holds, FenceHeld, InFence, At
    <3>. QED BY <1>0, <2>2, <2>4, <3>2, ReleaseLocks DEF Raise
  <2>5. CASE Crash(p)
    BY <1>0, <2>1, <2>2, <2>5 DEF Crash, TypeOK
  <2>6. ~Replay(p) /\ ~CompleteOp(p)
    BY <2>3 DEF Replay, CompleteOp, InFence, At, PhaseInv, FencePhases
  <2>. QED BY <1>2, <2>4, <2>5, <2>6
<1>3. CASE WriteChannel(p) \/ PutMirror(p)
  <2>1. job[p].art # "fence"
    BY <1>3 DEF WriteChannel, PutMirror, TypeOK, At
  <2>2. lock'["fence"] = lock["fence"]
    BY <1>0, <1>3, <2>1, ReleaseLocks DEF WriteChannel, PutMirror
  <2>3. InFence(q)
    <3>1. CASE q # p
      BY <1>a, <3>1
    <3>2. CASE q = p
      BY <1>3, <1>c, <3>2, WriteEffect, PutEffect
         DEF Stopped, Onto, Same, InFence, At, WriteChannel, PutMirror
    <3>. QED BY <3>1, <3>2
  <2>. QED BY <1>0, <2>2, <2>3
<1>4. CASE LockChannel(p) \/ LockArtifact(p) \/ ReadMirror(p)
  <2>1. job[p].art \in Artifacts /\ job[p].art \in Locks /\ job[p].art # "fence"
    BY <1>4 DEF LockChannel, LockArtifact, ReadMirror, TypeOK, At, Locks
  <2>2. lock'["fence"] = lock["fence"]
    BY <1>0, <1>4, <2>1, AcquireLock DEF LockChannel, LockArtifact, ReadMirror
  <2>3. q = p => InFence(p)
    BY <1>4, LockEffect, GotoEffect, MirrorEffect, PhaseNames
       DEF LockChannel, LockArtifact, ReadMirror, InFence, Onto, Same, At
  <2>. QED BY <1>0, <1>a, <2>2, <2>3
<1>5. CASE \/ ReadOperation(p) \/ ReadFence(p) \/ WriteFence(p) \/ WriteOperation(p)
           \/ CheckArtifact(p) \/ VerifyToken(p)
  <2>1. q = p => InFence(p)
    BY <1>5, MoveEffect, ClaimEffect DEF NextPhase, Onto, Same, InFence, At, ReadFence
  <2>2. lock' = lock
    BY <1>5 DEF ReadOperation, ReadFence, WriteFence, WriteOperation, CheckArtifact, VerifyToken
  <2>. QED BY <1>0, <1>a, <2>1, <2>2
<1>6. CASE PutRow(p) \/ Rollback(p)
  <2>1. lock' = lock /\ job[p].op = NoOp
    BY <1>6 DEF PutRow, Rollback, PhaseInv, FencePhases, At
  <2>2. job'[p].op = NoOp
    BY <1>6, <2>1, GotoEffect, RollbackEffect, IdleFields, PhaseNames
       DEF PutRow, Onto, Same, Stopped
  <2>. QED BY <1>a, <2>1, <2>2 DEF InFence
<1>. QED BY <1>1, <1>2, <1>3, <1>4, <1>5, <1>6 DEF Step

LEMMA FenceNext == TypeOK /\ PhaseInv /\ FenceInv /\ [Next]_vars => FenceInv'
<1>. SUFFICES ASSUME TypeOK, PhaseInv, FenceInv, [Next]_vars PROVE FenceInv'
  OBVIOUS
<1>1. CASE UNCHANGED vars
  BY <1>1 DEF vars, history, FenceInv, InFence, At
<1>2. ASSUME NEW p \in Procs, Request(p) PROVE FenceInv'
  BY <1>2, RequestJob DEF FenceInv, InFence, At, history
<1>. QED BY <1>1, <1>2, FenceStep DEF Next

LEMMA OverlapNeedsTakeover ==
    ASSUME TypeOK, PhaseInv, FenceInv, LockInv, Overlapping
    PROVE  taken
<1>. SUFFICES ASSUME ~taken PROVE FALSE
  OBVIOUS
<1>1. PICK p \in Procs, q \in Procs : p # q /\ Overlap(p, q)
  BY DEF Overlapping
<1>2. CASE InClaim(p) /\ (InClaim(q) \/ At(q, "complete"))
  <2>1. InFence(p) /\ InFence(q)
    BY <1>2 DEF InClaim, ClaimPhases, At, InFence, PhaseInv, FencePhases
  <2>. QED BY <1>1, <2>1 DEF FenceInv
<1>3. CASE FencedWriter(p) /\ FencedWriter(q)
  <2>1. AtChannel(p) /\ AtChannel(q)
    BY <1>3 DEF FencedWriter, At, AtChannel
  <2>. QED BY <1>1, <2>1 DEF LockInv, Reader
<1>. QED BY <1>1, <1>2, <1>3 DEF Overlap

LEMMA TakenGrows == TypeOK /\ [Next]_vars /\ taken => taken'
  BY RequestJob, StepLocks DEF Next, vars, history

(* Two workers are in a fenced window together only after a takeover from  *)
(* a live owner.                                                           *)
THEOREM Races == Spec => []RacesNeedTakeover
<1>1. Init => RacesNeedTakeover /\ FenceInv /\ LockInv
  BY IdleFields DEF Init, RacesNeedTakeover, FenceInv, InFence, LockInv, AtChannel
<1>2. TypeOK /\ PhaseInv /\ FenceInv /\ LockInv => (Overlapping => taken)
  BY OverlapNeedsTakeover
<1>3. ASSUME (Overlapping => taken)', TypeOK, [Next]_vars, RacesNeedTakeover
      PROVE  RacesNeedTakeover'
  <2>. SUFFICES ASSUME raced' PROVE taken'
    BY DEF RacesNeedTakeover
  <2>1. CASE UNCHANGED vars
    BY <1>3, <2>1 DEF vars, history, RacesNeedTakeover
  <2>2. CASE raced
    BY <1>3, <2>2, TakenGrows DEF RacesNeedTakeover
  <2>3. CASE Overlapping'
    BY <1>3, <2>3
  <2>. QED BY <1>3, <2>1, <2>2, <2>3 DEF Next
<1>. QED
  BY InitType, NextType, PhaseInit, PhaseNext, FenceNext, LockNext, <1>1, <1>2, <1>3, PTL DEF Spec

-----------------------------------------------------------------------------
(* Fenced promotions, as long as no two workers were in a window together. *)

Fenced(p) ==
    /\ job[p].op # NoOp
    /\ job[p].pc \in {"write-op", "check", "lock-channel"} \cup CommitPhases
Past(p) == job[p].pc \in {"verify-complete", "complete"}

(* A claim that is under way takes the token after the fence for an        *)
(* operation that is not completed.  A token that was written is no longer *)
(* above the fence, is the fence's where it has just been written or       *)
(* verified for completion, is in the channel only once it was put there,  *)
(* and is below the fence if its operation is completed.                   *)
TokenOK(p) ==
    /\ At(p, "write-fence") => job[p].token = fence + 1
    /\ job[p].pc \in {"read-fence", "write-fence"} => opdoc[job[p].op] # "completed"
    /\ Fenced(p) =>
          /\ job[p].token <= fence
          /\ job[p].pc \in {"write-op", "complete"} => job[p].token = fence
          /\ ~Past(p) /\ chan.op # NoOp => chan.token # job[p].token
          /\ At(p, "write-channel") /\ chan.op # NoOp => chan.token < job[p].token
          /\ opdoc[job[p].op] = "completed" =>
                job[p].token < fence /\ ~At(p, "write-channel")

(* Tokens are handed out once, and who is about to write the channel       *)
(* comes after all who have written it.                                    *)
PairOK(p, q) ==
    Fenced(p) /\ Fenced(q) =>
       /\ job[p].token # job[q].token
       /\ At(p, "write-channel") /\ Past(q) => job[q].token < job[p].token

TokenInv ==
    /\ chan.op # NoOp => chan.token <= fence
    /\ \A p \in Procs : TokenOK(p)
    /\ \A p, q \in Procs : p # q => PairOK(p, q)

LEMMA TokenTypes ==
    ASSUME TypeOK
    PROVE  /\ fence \in Nat /\ chan.token \in Nat
           /\ \A p \in Procs : job[p].token \in Nat /\ job[p].op \in Ops \cup {NoOp}
  BY DEF TypeOK, Channel, JobType

(* A step that touches none of the documents. *)
LEMMA TokenLocal ==
    ASSUME TypeOK, TokenInv, NEW p \in Procs, Others(p), UNCHANGED <<chan, fence, opdoc>>,
           TokenOK(p)', \A q \in Procs \ {p} : PairOK(p, q)' /\ PairOK(q, p)'
    PROVE  TokenInv'
<1>1. \A q \in Procs \ {p} : TokenOK(q)'
  BY DEF TokenInv, TokenOK, Others, Fenced, Past, At
<1>2. \A q, r \in Procs \ {p} : q # r => PairOK(q, r)'
  BY DEF TokenInv, PairOK, Others, Fenced, Past, At
<1>. QED BY <1>1, <1>2 DEF TokenInv

(* It leaves the command without a token, or with the one that it had.     *)
LEMMA TokenLess ==
    ASSUME TypeOK, TokenInv, NEW p \in Procs, Others(p), UNCHANGED <<chan, fence, opdoc>>,
           ~Fenced(p)', job'[p].pc \notin {"read-fence", "write-fence"}
    PROVE  TokenInv'
<1>1. TokenOK(p)'
  BY DEF TokenOK, At
<1>2. \A q \in Procs \ {p} : PairOK(p, q)' /\ PairOK(q, p)'
  BY DEF PairOK
<1>. QED BY <1>1, <1>2, TokenLocal

LEMMA TokenKept ==
    ASSUME TypeOK, TokenInv, NEW p \in Procs, Others(p), UNCHANGED <<chan, fence, opdoc>>,
           Fenced(p), job'[p].op = job[p].op, job'[p].token = job[p].token,
           job'[p].pc \in {"check", "lock-channel", "verify-channel"}, ~Past(p)
    PROVE  TokenInv'
<1>1. TokenOK(p)'
  BY DEF TokenInv, TokenOK, Fenced, Past, At
<1>2. \A q \in Procs \ {p} : PairOK(p, q)' /\ PairOK(q, p)'
  BY DEF TokenInv, PairOK, Others, Fenced, Past, At
<1>. QED BY <1>1, <1>2, TokenLocal

LEMMA TokenVerify ==
    ASSUME TypeOK, PhaseInv, TokenInv, NEW p \in Procs, VerifyToken(p)
    PROVE  TokenInv'
<1>0. Others(p) /\ UNCHANGED <<chan, fence, opdoc>> /\ job[p].token = fence
  BY StepJob DEF Step, Others, VerifyToken, TokenCurrent
<1>1. /\ job'[p].op = job[p].op /\ job'[p].token = job[p].token /\ job[p].op # NoOp
      /\ \/ At(p, "verify-channel")  /\ job'[p].pc = "write-channel"
         \/ At(p, "verify-complete") /\ job'[p].pc = "complete"
  BY MoveEffect DEF NextPhase, Onto, Same, PhaseInv, FencePhases, At
<1>2. Fenced(p) /\ Fenced(p)' /\ (Past(p)' <=> Past(p))
  BY <1>1 DEF Fenced, CommitPhases, At, Past
<1>3. TokenOK(p)'
  <2>1. opdoc[job[p].op] # "completed"
    BY <1>0, <1>2, TokenTypes DEF TokenInv, TokenOK
  <2>2. At(p, "verify-channel") /\ chan.op # NoOp => chan.token < job[p].token
    BY <1>0, <1>2, TokenTypes DEF TokenInv, TokenOK, At, Past
  <2>. QED BY <1>0, <1>1, <1>2, <2>1, <2>2, TokenTypes DEF TokenInv, TokenOK, At
<1>4. ASSUME NEW q \in Procs \ {p} PROVE PairOK(p, q)' /\ PairOK(q, p)'
  <2>. SUFFICES ASSUME Fenced(q)' PROVE PairOK(p, q)' /\ PairOK(q, p)'
    BY DEF PairOK
  <2>1. job'[q] = job[q] /\ Fenced(q) /\ (Past(q)' <=> Past(q))
    BY <1>0 DEF Others, Fenced, Past
  <2>2. job[p].token # job[q].token /\ job[q].token < job[p].token
    BY <1>0, <1>2, <2>1, TokenTypes DEF TokenInv, PairOK, TokenOK
  <2>3. At(q, "write-channel")' /\ Past(p)' => job[p].token < job[q].token
    BY <1>2, <2>1 DEF TokenInv, PairOK, At
  <2>. QED BY <1>1, <2>1, <2>2, <2>3 DEF PairOK
<1>. QED BY <1>0, <1>3, <1>4, TokenLocal

LEMMA TokenClaim ==
    ASSUME TypeOK, PhaseInv, TokenInv, ~Overlapping, NEW p \in Procs, WriteFence(p)
    PROVE  TokenInv'
<1>0. /\ Others(p) /\ UNCHANGED <<chan, opdoc>> /\ fence' = fence + 1 /\ job[p].token = fence + 1
      /\ At(p, "write-fence") /\ opdoc[job[p].op] # "completed" /\ InClaim(p)
  BY StepJob DEF Step, Others, WriteFence, TokenInv, TokenOK, At, InClaim, ClaimPhases
<1>1. /\ job'[p].op = job[p].op /\ job'[p].token = job[p].token /\ job'[p].pc = "write-op"
  BY MoveEffect DEF NextPhase, Onto, Same
<1>2. \A q \in Procs \ {p} : ~InClaim(q) /\ ~At(q, "complete")
  BY <1>0 DEF Overlapping, Overlap
<1>3. TokenOK(p)'
  BY <1>0, <1>1, TokenTypes DEF TokenInv, TokenOK, At
<1>4. ASSUME NEW q \in Procs \ {p} PROVE TokenOK(q)'
  <2>1. job'[q] = job[q] /\ (Fenced(q)' <=> Fenced(q)) /\ (Past(q)' <=> Past(q))
    BY <1>0 DEF Others, Fenced, Past
  <2>2. job[q].pc \notin {"read-fence", "write-fence", "write-op", "complete"}
    BY <1>2 DEF InClaim, ClaimPhases, At
  <2>. QED BY <1>0, <2>1, <2>2, TokenTypes DEF TokenInv, TokenOK, At
<1>5. ASSUME NEW q \in Procs \ {p} PROVE PairOK(p, q)' /\ PairOK(q, p)'
  <2>. SUFFICES ASSUME Fenced(q)' PROVE PairOK(p, q)' /\ PairOK(q, p)'
    BY DEF PairOK
  <2>1. job'[q] = job[q] /\ Fenced(q)
    BY <1>0 DEF Others, Fenced
  <2>2. job[q].token <= fence
    BY <2>1 DEF TokenInv, TokenOK
  <2>. QED BY <1>0, <1>1, <2>1, <2>2, TokenTypes DEF PairOK, At, Past
<1>6. \A q, r \in Procs \ {p} : q # r => PairOK(q, r)'
  BY <1>0 DEF TokenInv, PairOK, Others, Fenced, Past, At
<1>7. (chan.op # NoOp => chan.token <= fence)'
  BY <1>0, TokenTypes DEF TokenInv
<1>. QED BY <1>3, <1>4, <1>5, <1>6, <1>7 DEF TokenInv

LEMMA TokenStart ==
    ASSUME TypeOK, PhaseInv, TokenInv, NEW p \in Procs, WriteOperation(p)
    PROVE  TokenInv'
<1>0. /\ Others(p) /\ UNCHANGED <<chan, fence>> /\ At(p, "write-op") /\ job[p].op \in Ops
      /\ opdoc' = [opdoc EXCEPT ![job[p].op] = "in_progress"]
  BY StepJob, TokenTypes DEF Step, Others, WriteOperation, PhaseInv, FencePhases, At
<1>1. job'[p].op = job[p].op /\ job'[p].token = job[p].token /\ job'[p].pc = "check"
  BY MoveEffect DEF NextPhase, Onto, Same
<1>2. \A o \in Ops : opdoc'[o] = "completed" => opdoc[o] = "completed"
  BY <1>0 DEF TypeOK
<1>3. /\ Fenced(p) /\ Fenced(p)' /\ ~Past(p) /\ ~Past(p)'
      /\ \A q \in Procs \ {p} : /\ job'[q] = job[q]
                                /\ (Fenced(q)' <=> Fenced(q)) /\ (Past(q)' <=> Past(q))
  BY <1>0, <1>1, ReleaseAssumption DEF Fenced, Past, At, Others
<1>4. opdoc'[job[p].op] # "completed"
  BY <1>0 DEF TypeOK
<1>5. TokenOK(p)'
  BY <1>0, <1>1, <1>3, <1>4 DEF TokenInv, TokenOK, At
<1>6. ASSUME NEW q \in Procs \ {p} PROVE TokenOK(q)'
  <2>1. job[q].op # NoOp => job[q].op \in Ops
    BY TokenTypes
  <2>2. job[q].pc \in {"read-fence", "write-fence"} => job[q].op # NoOp
    BY DEF PhaseInv, FencePhases
  <2>3. Fenced(q) => job[q].op # NoOp
    BY DEF Fenced
  <2>. QED BY <1>0, <1>2, <1>3, <2>1, <2>2, <2>3 DEF TokenInv, TokenOK, At
<1>7. \A q, r \in Procs : q # r => PairOK(q, r)'
  BY <1>1, <1>3 DEF TokenInv, PairOK, At
<1>. QED BY <1>0, <1>5, <1>6, <1>7 DEF TokenInv

LEMMA TokenWrite ==
    ASSUME TypeOK, PhaseInv, TokenInv, ~Overlapping, NEW p \in Procs, WriteChannel(p)
    PROVE  TokenInv'
<1>0. /\ Others(p) /\ UNCHANGED <<fence, opdoc>> /\ At(p, "write-channel")
      /\ chan'.op = job[p].op /\ chan'.token = job[p].token
  BY StepJob DEF Step, Others, WriteChannel
<1>1. \A q \in Procs \ {p} : /\ job'[q] = job[q]
                             /\ (Fenced(q)' <=> Fenced(q)) /\ (Past(q)' <=> Past(q))
  BY <1>0 DEF Others, Fenced, Past
<1>2. \A q, r \in Procs \ {p} : q # r => PairOK(q, r)'
  BY <1>1 DEF TokenInv, PairOK, At
<1>3. CASE job[p].op = NoOp
  <2>1. job'[p].pc = "idle" /\ ~Fenced(p)'
    BY <1>3, WriteEffect, IdleFields DEF Stopped, Fenced
  <2>2. \A q \in Procs : TokenOK(q)'
    BY <1>0, <1>1, <1>3, <2>1 DEF TokenInv, TokenOK, At
  <2>3. \A q \in Procs \ {p} : PairOK(p, q)' /\ PairOK(q, p)'
    BY <2>1 DEF PairOK
  <2>. QED BY <1>0, <1>2, <1>3, <2>2, <2>3 DEF TokenInv
<1>4. CASE job[p].op # NoOp
  <2>1. /\ job'[p].op = job[p].op /\ job'[p].token = job[p].token /\ job'[p].pc = "verify-complete"
    BY <1>4, WriteEffect DEF Onto, Same
  <2>2. Fenced(p) /\ Fenced(p)' /\ Past(p)' /\ ~Past(p) /\ FencedWriter(p)
    BY <1>0, <1>4, <2>1 DEF Fenced, CommitPhases, At, Past, FencedWriter
  <2>3. \A q \in Procs \ {p} : Fenced(q) => ~At(q, "write-channel")
    BY <2>2 DEF Overlapping, Overlap, FencedWriter, Fenced
  <2>4. TokenOK(p)'
    BY <1>0, <2>1, <2>2 DEF TokenInv, TokenOK, At
  <2>5. \A q \in Procs \ {p} : TokenOK(q)'
    BY <1>0, <1>1, <2>2, <2>3 DEF TokenInv, TokenOK, PairOK, At
  <2>6. \A q \in Procs \ {p} : PairOK(p, q)' /\ PairOK(q, p)'
    BY <1>1, <2>1, <2>2, <2>3 DEF TokenInv, PairOK, At
  <2>7. job[p].token <= fence
    BY <2>2 DEF TokenInv, TokenOK
  <2>. QED BY <1>0, <1>2, <2>4, <2>5, <2>6, <2>7 DEF TokenInv
<1>. QED BY <1>3, <1>4

LEMMA TokenComplete ==
    ASSUME TypeOK, PhaseInv, TokenInv, ~Overlapping, NEW p \in Procs, CompleteOp(p)
    PROVE  TokenInv'
<1>0. /\ Others(p) /\ UNCHANGED <<chan, fence>> /\ At(p, "complete") /\ job'[p].pc = "idle"
      /\ job[p].op \in Ops /\ job[p].op # NoOp
      /\ opdoc' = [opdoc EXCEPT ![job[p].op] = "completed"] /\ ~Fenced(p)'
  BY StepJob, EndEffect, IdleFields, TokenTypes
     DEF Step, Others, CompleteOp, PhaseInv, FencePhases, At, Stopped, Fenced
<1>1. \A q \in Procs \ {p} : /\ job'[q] = job[q]
                             /\ (Fenced(q)' <=> Fenced(q)) /\ (Past(q)' <=> Past(q))
  BY <1>0 DEF Others, Fenced, Past
<1>2. Fenced(p) /\ Past(p) /\ job[p].token = fence
  BY <1>0 DEF Fenced, CommitPhases, At, Past, TokenInv, TokenOK
<1>3. \A o \in Ops : opdoc'[o] = "completed" => opdoc[o] = "completed" \/ o = job[p].op
  BY <1>0 DEF TypeOK
<1>4. ASSUME NEW q \in Procs \ {p} PROVE TokenOK(q)'
  <2>1. job[q].pc \notin {"read-fence", "write-fence"}
    BY <1>0 DEF Overlapping, Overlap, InClaim, ClaimPhases
  <2>2. ASSUME Fenced(q), opdoc'[job[q].op] = "completed"
        PROVE  job[q].token < fence /\ ~At(q, "write-channel")
    <3>1. job[q].op \in Ops
      BY <2>2, TokenTypes DEF Fenced
    <3>2. /\ job[q].token # job[p].token /\ job[q].token <= fence
          /\ At(q, "write-channel") => job[p].token < job[q].token
      BY <1>2, <2>2 DEF TokenInv, TokenOK, PairOK
    <3>. QED BY <1>2, <3>2, TokenTypes
  <2>. QED BY <1>0, <1>1, <2>1, <2>2 DEF TokenInv, TokenOK, At
<1>5. TokenOK(p)'
  BY <1>0 DEF TokenOK, At
<1>6. \A q, r \in Procs : q # r => PairOK(q, r)'
  BY <1>0, <1>1 DEF TokenInv, PairOK, At
<1>. QED BY <1>0, <1>4, <1>5, <1>6 DEF TokenInv

LEMMA TokenStep ==
    ASSUME TypeOK, PhaseInv, TokenInv, ~Overlapping, NEW p \in Procs, Step(p)
    PROVE  TokenInv'
<1>0. Others(p)
  BY StepJob DEF Others
<1>1. CASE Replay(p) \/ Raise(p) \/ Crash(p)
  <2>1. job'[p].pc = "idle" /\ job'[p].op = NoOp
    BY <1>1, EndEffect, IdleFields DEF Stopped
  <2>. QED BY <1>0, <1>1, <2>1, TokenLess DEF Replay, Raise, Crash, Fenced
<1>2. CASE LockFence(p)
  <2>1. job'[p].pc = "read-op" /\ UNCHANGED <<chan, fence, opdoc>>
    BY <1>2, MoveEffect DEF NextPhase, Onto, LockFence
  <2>. QED BY <1>0, <2>1, TokenLess DEF Fenced, CommitPhases
<1>3. CASE ReadOperation(p) \/ ReadFence(p)
  <2>1. /\ UNCHANGED <<chan, fence, opdoc>> /\ job'[p].op = job[p].op
        /\ job'[p].pc \in {"read-fence", "write-fence"} /\ opdoc[job[p].op] # "completed"
        /\ job'[p].pc = "write-fence" => job'[p].token = fence + 1
    BY <1>3, MoveEffect, ClaimEffect
       DEF NextPhase, Onto, Same, ReadOperation, ReadFence, Replayable, TokenInv, TokenOK, At
  <2>2. ~Fenced(p)'
    BY <2>1 DEF Fenced, CommitPhases
  <2>3. TokenOK(p)'
    BY <2>1, <2>2 DEF TokenOK, At
  <2>. QED BY <1>0, <2>1, <2>2, <2>3, TokenLocal DEF PairOK
<1>4. CASE CheckArtifact(p) \/ LockChannel(p)
  <2>1. /\ UNCHANGED <<chan, fence, opdoc>>
        /\ job'[p].op = job[p].op /\ job'[p].token = job[p].token
        /\ job[p].pc \in {"check", "lock-channel"}
        /\ job'[p].pc \in {"lock-channel", "verify-channel", "write-channel"}
        /\ job[p].op # NoOp => job'[p].pc \in {"lock-channel", "verify-channel"}
    BY <1>4, MoveEffect, LockEffect DEF NextPhase, Onto, Same, CheckArtifact, LockChannel, At
  <2>2. CASE job[p].op = NoOp
    BY <1>0, <2>1, <2>2, TokenLess DEF Fenced
  <2>3. CASE job[p].op # NoOp
    BY <1>0, <2>1, <2>3, TokenKept DEF Fenced, Past
  <2>. QED BY <2>2, <2>3
<1>5. CASE LockArtifact(p) \/ ReadMirror(p) \/ PutRow(p) \/ PutMirror(p) \/ Rollback(p)
  <2>1. job[p].op = NoOp
    BY <1>5 DEF LockArtifact, ReadMirror, PutRow, PutMirror, Rollback, PhaseInv, FencePhases, At
  <2>2. job'[p].op = NoOp /\ job'[p].pc \notin {"read-fence", "write-fence"}
    BY <1>5, <2>1, IdleFields, GotoEffect, MirrorEffect, PutEffect, RollbackEffect, PhaseNames
       DEF LockArtifact, PutRow, Onto, Same, Stopped
  <2>. QED BY <1>0, <1>5, <2>2, TokenLess
           DEF Fenced, LockArtifact, ReadMirror, PutRow, PutMirror, Rollback
<1>. QED BY <1>1, <1>2, <1>3, <1>4, <1>5, TokenVerify, TokenClaim, TokenStart, TokenWrite, TokenComplete
         DEF Step

TokenSafe == raced \/ (TokenInv /\ ~Overlapping)

LEMMA TokenInit == Init => TokenSafe
  BY IdleFields DEF Init, TokenSafe, TokenInv, TokenOK, PairOK, NoChannel, Fenced, At,
     Overlapping, Overlap, InClaim, ClaimPhases, FencedWriter

LEMMA TokenNext == TypeOK /\ PhaseInv /\ TokenSafe /\ [Next]_vars => TokenSafe'
<1>. SUFFICES ASSUME TypeOK, PhaseInv, TokenSafe, [Next]_vars PROVE TokenSafe'
  OBVIOUS
<1>1. CASE UNCHANGED vars
  BY <1>1 DEF vars, TokenSafe, TokenInv, TokenOK, PairOK, Fenced, Past, At, Overlapping, Overlap,
     InClaim, FencedWriter
<1>2. CASE Next
  <2>. SUFFICES ASSUME ~raced' PROVE TokenInv' /\ ~Overlapping'
    BY DEF TokenSafe
  <2>1. ~raced /\ ~Overlapping' /\ TokenInv /\ ~Overlapping
    BY <1>2 DEF Next, TokenSafe
  <2>2. PICK p \in Procs : Request(p) \/ Step(p)
    BY <1>2 DEF Next
  <2>3. CASE Request(p)
    <3>1. /\ Others(p) /\ UNCHANGED <<chan, fence, opdoc>>
          /\ job'[p].pc \in {"fence", "check", "lock-artifact", "read-mirror"}
          /\ (job'[p].op # NoOp <=> job'[p].pc = "fence")
      BY <2>3, RequestJob DEF Others
    <3>2. ~Fenced(p)'
      BY <3>1 DEF Fenced, CommitPhases
    <3>. QED BY <2>1, <3>1, <3>2, TokenLess
  <2>. QED BY <2>1, <2>2, <2>3, TokenStep
<1>. QED BY <1>1, <1>2

(* A worker that was overtaken never overwrites the promotion of the       *)
(* worker that overtook it, unless two workers were in a fenced window     *)
(* together: fenced promotions are written in token order.                 *)
THEOREM FencedOrder == Spec => FencedInOrder
<1>1. TypeOK /\ TokenSafe /\ [Next]_vars =>
        [(chan' # chan /\ chan'.op # NoOp /\ chan.op # NoOp) => chan'.token > chan.token \/ raced]_vars
  <2>. SUFFICES ASSUME TypeOK, TokenSafe, Next, chan' # chan, chan'.op # NoOp, chan.op # NoOp, ~raced
                PROVE  chan'.token > chan.token
    BY DEF vars
  <2>1. PICK p \in Procs : WriteChannel(p)
    BY ChannelStep
  <2>2. chan'.op = job[p].op /\ chan'.token = job[p].token /\ At(p, "write-channel")
    BY <2>1 DEF WriteChannel
  <2>3. Fenced(p) /\ TokenInv
    BY <2>2 DEF Fenced, CommitPhases, At, TokenSafe
  <2>. QED BY <2>2, <2>3, TokenTypes DEF TokenInv, TokenOK
<1>. QED BY InitType, NextType, PhaseInit, PhaseNext, TokenInit, TokenNext, <1>1, PTL
     DEF Spec, FencedInOrder

(* An operation recorded as completed is never executed again, unless two  *)
(* workers were in a fenced window together.                               *)
THEOREM CompletedFinal == Spec => CompletedIsFinal
<1>1. TypeOK /\ PhaseInv /\ TokenSafe /\ [Next]_vars =>
        [\A o \in Ops : opdoc[o] = "completed" =>
            (opdoc'[o] = "completed" /\ applied'[o] = applied[o]) \/ raced]_vars
  <2>. SUFFICES ASSUME TypeOK, PhaseInv, TokenSafe, Next, NEW o \in Ops, opdoc[o] = "completed", ~raced
                PROVE  opdoc'[o] = "completed" /\ applied'[o] = applied[o]
    BY DEF vars
  <2>0. TokenInv
    BY DEF TokenSafe
  <2>1. PICK p \in Procs : Request(p) \/ Step(p)
    BY DEF Next
  <2>2. CASE Request(p)
    BY <2>2, RequestJob DEF history
  <2>3. CASE WriteOperation(p)
    <3>1. Fenced(p) /\ job[p].token = fence
      BY <2>0, <2>3 DEF WriteOperation, Fenced, At, PhaseInv, FencePhases, TokenInv, TokenOK
    <3>2. job[p].op # o
      BY <2>0, <3>1, TokenTypes DEF TokenInv, TokenOK
    <3>. QED BY <2>3, <3>2 DEF WriteOperation, TypeOK, history
  <2>4. CASE WriteChannel(p)
    <3>1. opdoc' = opdoc /\ applied' = [r \in Ops |-> applied[r] + (IF r = job[p].op THEN 1 ELSE 0)]
          /\ At(p, "write-channel")
      BY <2>4 DEF WriteChannel
    <3>2. job[p].op # o
      BY <2>0, <3>1, ReleaseAssumption DEF TokenInv, TokenOK, Fenced, CommitPhases, At
    <3>. QED BY <3>1, <3>2 DEF TypeOK
  <2>5. CASE CompleteOp(p)
    BY <2>5 DEF CompleteOp, TypeOK, history
  <2>6. CASE \/ Replay(p) \/ CheckArtifact(p) \/ LockChannel(p) \/ LockArtifact(p) \/ ReadMirror(p)
             \/ PutRow(p) \/ PutMirror(p) \/ Rollback(p) \/ Raise(p) \/ Crash(p) \/ LockFence(p)
             \/ ReadOperation(p) \/ ReadFence(p) \/ WriteFence(p) \/ VerifyToken(p)
    BY <2>6 DEF Replay, CheckArtifact, LockChannel, LockArtifact, ReadMirror, PutRow, PutMirror,
                Rollback, Raise, Crash, LockFence, ReadOperation, ReadFence, WriteFence,
                VerifyToken, history
  <2>. QED BY <2>1, <2>2, <2>3, <2>4, <2>5, <2>6 DEF Step
<1>. QED BY InitType, NextType, PhaseInit, PhaseNext, TokenInit, TokenNext, <1>1, PTL
     DEF Spec, CompletedIsFinal

-----------------------------------------------------------------------------
(* Withdrawn artifacts. *)

Writing(p) == job[p].pc \in {"put-row", "put-mirror"}

Sticks(a, st) ==
    /\ db[a] \in Withdrawal /\ st # db[a] => a \in lost \/ st = "revoked"
    /\ db[a] = "revoked" /\ st # "revoked" => a \in lost

(* Who writes a row or its mirror holds the artifact's lock; the status    *)
(* that is about to be written withdraws no withdrawal; and a mirror is    *)
(* behind its row only while somebody is between the two writes.           *)
RowInv ==
    /\ \A p \in Procs : Writing(p) => lock[job[p].art] = p
    /\ \A p \in Procs : At(p, "lock-artifact") => job[p].target \in Withdrawal
    /\ \A p \in Procs : At(p, "put-row") => Sticks(job[p].art, job[p].target)
    /\ \A p \in Procs : At(p, "put-mirror") => db[job[p].art] = job[p].target
    /\ \A a \in Artifacts :
          \/ mirror[a] = db[a] \/ a \in lost
          \/ \E p \in Procs : At(p, "put-mirror") /\ job[p].art = a

(* A step outside the registry's locks. *)
LEMMA RowKept ==
    ASSUME TypeOK, RowInv, NEW p \in Procs, Others(p), UNCHANGED <<db, mirror, lost>>,
           ~Writing(p), ~Writing(p)', At(p, "lock-artifact")' => job'[p].target \in Withdrawal,
           \A a \in Artifacts : lock[a] # p => lock'[a] = lock[a]
    PROVE  RowInv'
<1>1. \A q \in Procs : Writing(q) \/ Writing(q)' => job'[q] = job[q] /\ q # p /\ job[q].art \in Artifacts
  BY DEF Others, Writing, TypeOK
<1>2. \A q \in Procs : Writing(q)' => lock'[job'[q].art] = q
  BY <1>1 DEF RowInv, Writing
<1>3. \A q \in Procs : At(q, "put-mirror") <=> At(q, "put-mirror")'
  BY <1>1 DEF At, Writing
<1>4. \A q \in Procs : At(q, "lock-artifact")' => job'[q].target \in Withdrawal
  BY DEF Others, RowInv, At
<1>5. \A q \in Procs : At(q, "put-row")' => Sticks(job[q].art, job[q].target)' /\ job'[q] = job[q]
  BY <1>1 DEF RowInv, At, Writing, Sticks
<1>6. \A q \in Procs : At(q, "put-mirror")' => db[job'[q].art] = job'[q].target
  BY <1>1, <1>3 DEF RowInv, At, Writing
<1>7. ASSUME NEW a \in Artifacts
      PROVE  \/ mirror[a] = db[a] \/ a \in lost
             \/ \E q \in Procs : At(q, "put-mirror")' /\ job'[q].art = a
  BY <1>1, <1>3 DEF RowInv, At, Writing
<1>. QED BY <1>2, <1>4, <1>5, <1>6, <1>7 DEF RowInv

(* A command enters the artifact's lock with a status that sticks. *)
LEMMA RowLocked ==
    ASSUME TypeOK, RowInv, NEW p \in Procs, Others(p), UNCHANGED <<db, mirror, lost>>,
           NEW a \in Artifacts, lock[a] \in {Free, Dead}, lock'[a] = p,
           \A m \in Locks \ {a} : lock'[m] = lock[m],
           job[p].art = a, job'[p].art = a, ~Writing(p), At(p, "put-row")', Sticks(a, job'[p].target)
    PROVE  RowInv'
<1>. USE ReleaseAssumption
<1>1. \A q \in Procs \ {p} : job'[q] = job[q]
  BY DEF Others
<1>2. ASSUME NEW q \in Procs, Writing(q)'
      PROVE  lock'[job'[q].art] = q
  <2>1. CASE q = p
    BY <2>1
  <2>2. CASE q # p
    <3>1. Writing(q) /\ job'[q] = job[q] /\ lock[job[q].art] = q /\ job[q].art \in Locks
      BY <1>1, <1>2, <2>2 DEF Writing, RowInv, TypeOK, Locks
    <3>. QED BY <3>1
  <2>. QED BY <2>1, <2>2
<1>3. \A q \in Procs : At(q, "lock-artifact")' => job'[q].target \in Withdrawal
  BY <1>1 DEF RowInv, At
<1>4. \A q \in Procs : At(q, "put-row")' => Sticks(job[q].art, job[q].target)'
  BY <1>1 DEF RowInv, At, Sticks
<1>5. \A q \in Procs : At(q, "put-mirror")' => db'[job'[q].art] = job'[q].target
  BY <1>1 DEF RowInv, At
<1>6. ASSUME NEW b \in Artifacts
      PROVE  \/ mirror[b] = db[b] \/ b \in lost
             \/ \E q \in Procs : At(q, "put-mirror")' /\ job'[q].art = b
  BY <1>1 DEF RowInv, At, Writing
<1>. QED BY <1>2, <1>3, <1>4, <1>5, <1>6 DEF RowInv

LEMMA RowWritten ==
    ASSUME TypeOK, RowInv, NEW p \in Procs, PutRow(p)
    PROVE  RowInv'
<1>. DEFINE a == job[p].art
<1>0. /\ a \in Artifacts /\ At(p, "put-row") /\ lock[a] = p
      /\ db' = [db EXCEPT ![a] = job[p].target] /\ UNCHANGED <<mirror, lock, lost>>
  BY DEF PutRow, TypeOK, At, RowInv, Writing, history
<1>1. \A q \in Procs \ {p} : job'[q] = job[q]
  BY StepJob DEF Step
<1>2. job'[p].pc = "put-mirror" /\ job'[p].art = a /\ job'[p].target = job[p].target
  BY GotoEffect, PhaseNames DEF PutRow, Onto
<1>3. \A q \in Procs \ {p} : Writing(q) => job[q].art # a /\ lock[job[q].art] = q /\ job[q].art \in Artifacts
  BY <1>0 DEF RowInv, Writing, TypeOK
<1>4. db'[a] = job[p].target /\ \A b \in Artifacts \ {a} : db'[b] = db[b]
  BY <1>0 DEF TypeOK
<1>. HIDE DEF a
<1>5. \A q \in Procs : Writing(q)' => lock'[job'[q].art] = q
  BY <1>0, <1>1, <1>2, <1>3 DEF Writing
<1>6. \A q \in Procs : At(q, "lock-artifact")' => job'[q].target \in Withdrawal
  BY <1>1, <1>2 DEF RowInv, At
<1>7. ASSUME NEW q \in Procs, At(q, "put-row")' PROVE Sticks(job[q].art, job[q].target)'
  <2>1. q # p /\ At(q, "put-row") /\ job'[q] = job[q]
    BY <1>1, <1>2, <1>7 DEF At
  <2>2. job[q].art \in Artifacts \ {a}
    BY <1>3, <2>1 DEF Writing, At
  <2>. QED BY <1>0, <1>4, <2>1, <2>2 DEF RowInv, Sticks
<1>8. ASSUME NEW q \in Procs, At(q, "put-mirror")' PROVE db'[job'[q].art] = job'[q].target
  <2>1. CASE q = p
    BY <1>2, <1>4, <2>1
  <2>2. CASE q # p
    <3>1. At(q, "put-mirror") /\ job'[q] = job[q] /\ job[q].art \in Artifacts \ {a}
      BY <1>1, <1>3, <1>8, <2>2 DEF At, Writing
    <3>. QED BY <1>4, <3>1 DEF RowInv
  <2>. QED BY <2>1, <2>2
<1>9. ASSUME NEW b \in Artifacts
      PROVE  \/ mirror[b] = db'[b] \/ b \in lost
             \/ \E q \in Procs : At(q, "put-mirror")' /\ job'[q].art = b
  <2>1. CASE b = a
    BY <1>2, <2>1 DEF At
  <2>2. CASE b # a
    <3>1. \A q \in Procs : At(q, "put-mirror") => q # p
      BY <1>0 DEF At
    <3>. QED BY <1>1, <1>4, <2>2, <3>1 DEF RowInv, At
  <2>. QED BY <2>1, <2>2
<1>. QED BY <1>0, <1>5, <1>6, <1>7, <1>8, <1>9 DEF RowInv

(* A command leaves the artifact's lock: with the mirror written, or with  *)
(* the artifact among the lost ones.                                       *)
LEMMA RowLeft ==
    ASSUME TypeOK, RowInv, NEW p \in Procs, Others(p), Writing(p), ~Writing(p)',
           ~At(p, "lock-artifact")', UNCHANGED db, lost \subseteq lost',
           At(p, "put-mirror") => mirror'[job[p].art] = db[job[p].art] \/ job[p].art \in lost',
           \A a \in Artifacts \ {job[p].art} : mirror'[a] = mirror[a],
           At(p, "put-row") => mirror' = mirror,
           \A a \in Artifacts : lock[a] # p => lock'[a] = lock[a]
    PROVE  RowInv'
<1>0. lock[job[p].art] = p /\ job[p].art \in Artifacts
  BY DEF RowInv, TypeOK, Writing
<1>1. \A q \in Procs \ {p} : job'[q] = job[q]
  BY DEF Others
<1>2. \A q \in Procs : Writing(q)' => q # p /\ Writing(q) /\ job'[q] = job[q] /\ job[q].art \in Artifacts
  BY <1>1 DEF Writing, TypeOK
<1>3. \A q \in Procs : Writing(q)' => lock'[job'[q].art] = q
  BY <1>2 DEF RowInv
<1>4. \A q \in Procs : At(q, "lock-artifact")' => job'[q].target \in Withdrawal
  BY <1>1 DEF RowInv, At
<1>5. \A q \in Procs : At(q, "put-row")' => Sticks(job[q].art, job[q].target)'
  BY <1>1 DEF RowInv, At, Sticks, Writing
<1>6. \A q \in Procs : At(q, "put-mirror")' => db'[job'[q].art] = job'[q].target
  BY <1>1 DEF RowInv, At, Writing
<1>7. ASSUME NEW b \in Artifacts
      PROVE  \/ mirror'[b] = db[b] \/ b \in lost'
             \/ \E q \in Procs : At(q, "put-mirror")' /\ job'[q].art = b
  <2>1. CASE b = job[p].art /\ At(p, "put-mirror")
    BY <2>1
  <2>2. CASE b # job[p].art \/ At(p, "put-row")
    <3>1. mirror'[b] = mirror[b]
      BY <2>2
    <3>2. \A q \in Procs : At(q, "put-mirror") /\ job[q].art = b => q # p
      BY <2>2 DEF At
    <3>. QED BY <1>1, <3>1, <3>2 DEF RowInv, At
  <2>. QED BY <2>1, <2>2 DEF Writing, At
<1>. QED BY <1>3, <1>4, <1>5, <1>6, <1>7 DEF RowInv

LEMMA RowStep ==
    ASSUME TypeOK, RowInv, NEW p \in Procs, Step(p), ~taken'
    PROVE  RowInv'
<1>. USE ReleaseAssumption
<1>0. Others(p) /\ "channel" \in Locks /\ "fence" \in Locks /\ Artifacts \subseteq Locks
  BY StepJob DEF Others, Locks
<1>a. Idle.pc = "idle"
  BY IdleFields
<1>1. CASE Replay(p) \/ CompleteOp(p) \/ WriteChannel(p)
  <2>1. ~Writing(p) /\ UNCHANGED <<db, mirror, lost>>
    BY <1>1 DEF Replay, CompleteOp, WriteChannel, At, Writing, registry, history
  <2>2. ~Writing(p)' /\ ~At(p, "lock-artifact")'
    BY <1>1, <1>a, EndEffect, WriteEffect DEF Stopped, Onto, Writing, At
  <2>3. \A a \in Artifacts : lock'[a] = lock[a]
    BY <1>0, <1>1, ReleaseLocks DEF Replay, CompleteOp, WriteChannel, TypeOK
  <2>. QED BY <1>0, <2>1, <2>2, <2>3, RowKept
<1>2. CASE LockFence(p) \/ LockChannel(p)
  <2>1. ~Writing(p) /\ UNCHANGED <<db, mirror, lost>>
    BY <1>2 DEF LockFence, LockChannel, At, Writing, registry
  <2>2. ~Writing(p)' /\ ~At(p, "lock-artifact")'
    BY <1>2, MoveEffect, LockEffect DEF NextPhase, Onto, Writing, At
  <2>3. \A a \in Artifacts : lock'[a] = lock[a]
    BY <1>0, <1>2, AcquireLock DEF LockFence, LockChannel
  <2>. QED BY <1>0, <2>1, <2>2, <2>3, RowKept
<1>3. CASE \/ ReadOperation(p) \/ ReadFence(p) \/ WriteFence(p) \/ WriteOperation(p)
           \/ CheckArtifact(p) \/ VerifyToken(p) \/ Rollback(p)
  <2>1. ~Writing(p) /\ UNCHANGED <<db, mirror, lost, lock>>
    BY <1>3 DEF ReadOperation, ReadFence, WriteFence, WriteOperation, CheckArtifact, VerifyToken,
                Rollback, At, Writing, registry, history
  <2>2. ~Writing(p)' /\ ~At(p, "lock-artifact")'
    BY <1>3, <1>a, MoveEffect, ClaimEffect, RollbackEffect DEF NextPhase, Stopped, Onto, Writing, At
  <2>. QED BY <1>0, <2>1, <2>2, RowKept
<1>4. CASE LockArtifact(p)
  <2>. DEFINE a == job[p].art
  <2>1. a \in Artifacts /\ Permitted(db[a], job[p].target) /\ Acquire(p, a) /\ At(p, "lock-artifact")
        /\ UNCHANGED <<db, mirror, lost>>
    BY <1>4 DEF LockArtifact, TypeOK, At, registry
  <2>2. job[p].target \in Withdrawal
    BY <2>1 DEF RowInv
  <2>3. Sticks(a, job[p].target)
    BY <2>1, <2>2 DEF Sticks, Permitted, Withdrawal
  <2>4. job'[p].pc = "put-row" /\ job'[p].art = a /\ job'[p].target = job[p].target
    BY <1>4, GotoEffect, PhaseNames DEF LockArtifact, Onto
  <2>5. /\ lock[a] \in {Free, Dead} /\ lock'[a] = p
        /\ \A m \in Locks \ {a} : lock'[m] = lock[m]
    BY <1>0, <2>1, AcquireLock
  <2>. HIDE DEF a
  <2>6. ~Writing(p) /\ job[p].art = a
    BY <2>1 DEF Writing, At, a
  <2>. QED BY <1>0, <2>1, <2>3, <2>4, <2>5, <2>6, RowLocked DEF At
<1>5. CASE ReadMirror(p)
  <2>. DEFINE a == job[p].art
  <2>1. a \in Artifacts /\ Acquire(p, a) /\ At(p, "read-mirror") /\ UNCHANGED <<db, mirror, lost>>
    BY <1>5 DEF ReadMirror, TypeOK, At, registry
  <2>2. /\ lock[a] \in {Free, Dead} /\ lock'[a] = p
        /\ \A m \in Locks \ {a} : lock'[m] = lock[m]
    BY <1>0, <2>1, AcquireLock
  <2>3. mirror[a] = db[a] \/ a \in lost
    BY <2>1, <2>2 DEF RowInv, Writing, At
  <2>4. Sticks(a, RegisteredStatus(mirror[a]))
    BY <2>3 DEF Sticks, RegisteredStatus, Withdrawal
  <2>5. job'[p].pc = "put-row" /\ job'[p].art = a /\ job'[p].target = RegisteredStatus(mirror[a])
    BY <1>5, MirrorEffect DEF Onto
  <2>. HIDE DEF a
  <2>6. ~Writing(p) /\ job[p].art = a
    BY <2>1 DEF Writing, At, a
  <2>. QED BY <1>0, <2>1, <2>2, <2>4, <2>5, <2>6, RowLocked DEF At
<1>6. CASE PutMirror(p)
  <2>1. /\ Writing(p) /\ At(p, "put-mirror") /\ ~At(p, "put-row") /\ UNCHANGED <<db, lost>>
        /\ job[p].art \in Artifacts /\ lock[job[p].art] = p /\ db[job[p].art] = job[p].target
        /\ mirror' = [mirror EXCEPT ![job[p].art] = job[p].target]
        /\ lock' = Released({job[p].art})
    BY <1>6 DEF PutMirror, At, Writing, RowInv, TypeOK, history
  <2>2. ~Writing(p)' /\ ~At(p, "lock-artifact")'
    BY <1>6, <1>a, PutEffect DEF Stopped, Onto, Writing, At
  <2>3. \A a \in Artifacts : lock[a] # p => lock'[a] = lock[a]
    BY <1>0, <2>1, ReleaseLocks
  <2>4. mirror'[job[p].art] = db[job[p].art] /\ \A a \in Artifacts \ {job[p].art} : mirror'[a] = mirror[a]
    BY <2>1 DEF TypeOK
  <2>. QED BY <1>0, <2>1, <2>2, <2>3, <2>4, RowLeft
<1>7. CASE Raise(p) \/ Crash(p)
  <2>1. ~Writing(p)' /\ ~At(p, "lock-artifact")'
    BY <1>7, <1>a, EndEffect DEF Stopped, Writing, At
  <2>2. lost' = lost \cup Unmirrored(job[p]) /\ UNCHANGED <<db, mirror>>
    BY <1>7 DEF Raise, Crash, registry
  <2>3. \A a \in Artifacts : lock[a] # p => lock'[a] = lock[a]
    <3>1. \A a \in Artifacts : a \in Holds(job[p]) => lock[a] = p
      BY DEF Holds, FenceHeld, RowInv, Writing
    <3>. QED BY <1>0, <1>7, <3>1, ReleaseLocks DEF Raise, Crash
  <2>4. CASE Writing(p)
    BY <1>0, <2>1, <2>2, <2>3, <2>4, RowLeft DEF Unmirrored, At
  <2>5. CASE ~Writing(p)
    <3>1. UNCHANGED lost
      BY <2>2, <2>5 DEF Unmirrored, Writing
    <3>. QED BY <1>0, <2>1, <2>2, <2>3, <2>5, <3>1, RowKept
  <2>. QED BY <2>4, <2>5
<1>. QED BY <1>1, <1>2, <1>3, <1>4, <1>5, <1>6, <1>7, RowWritten DEF Step

LEMMA RowInit == Init => RowInv
  BY IdleFields DEF Init, RowInv, Writing, At

RowSafe == taken \/ RowInv

LEMMA RowNext == TypeOK /\ RowSafe /\ [Next]_vars => RowSafe'
<1>. SUFFICES ASSUME TypeOK, RowSafe, [Next]_vars PROVE RowSafe'
  OBVIOUS
<1>1. CASE UNCHANGED vars
  BY <1>1 DEF vars, registry, history, RowSafe, RowInv, Writing, At, Sticks
<1>2. ASSUME NEW p \in Procs, Request(p) PROVE RowSafe'
  <2>1. /\ Others(p) /\ UNCHANGED <<db, mirror, lost, lock, taken>> /\ ~Writing(p) /\ ~Writing(p)'
        /\ (At(p, "lock-artifact")' => job'[p].target \in Withdrawal)
    BY <1>2, RequestJob DEF Others, registry, history, Writing, At
  <2>. QED BY <2>1, RowKept DEF RowSafe
<1>3. ASSUME NEW p \in Procs, Step(p) PROVE RowSafe'
  BY <1>3, StepLocks, RowStep, TypeOK DEF RowSafe
<1>. QED BY <1>1, <1>2, <1>3 DEF Next

(* Which steps write a row: those of PutRow, with a status that sticks. *)
LEMMA RowChange ==
    ASSUME TypeOK, Next, ~taken, RowInv, NEW a \in Artifacts, db'[a] # db[a]
    PROVE  Sticks(a, db'[a])
<1>1. PICK p \in Procs : Request(p) \/ Step(p)
  BY DEF Next
<1>2. PutRow(p)
  BY <1>1, RequestJob DEF Step, LockFence, Replay, ReadOperation, ReadFence, WriteFence,
       WriteOperation, CheckArtifact, LockChannel, VerifyToken, WriteChannel, CompleteOp,
       LockArtifact, ReadMirror, PutMirror, Rollback, Raise, Crash, registry
<1>3. At(p, "put-row") /\ db' = [db EXCEPT ![job[p].art] = job[p].target]
  BY <1>2 DEF PutRow
<1>4. a = job[p].art /\ db'[a] = job[p].target
  BY <1>3 DEF TypeOK
<1>. QED BY <1>3, <1>4 DEF RowInv

(* Unless an earlier write reached an artifact's row and not its mirror,   *)
(* or a lock was taken from a live owner, a quarantined artifact does not  *)
(* become active again and a revoked one stays revoked.                    *)
THEOREM Withdrawals == Spec => WithdrawalSticks
<1>1. TypeOK /\ RowSafe /\ [Next]_vars =>
        [\A a \in Artifacts :
            /\ (db[a] \in Withdrawal /\ db'[a] # db[a]) => a \in lost \/ taken \/ db'[a] = "revoked"
            /\ (db[a] = "revoked" /\ db'[a] # "revoked") => a \in lost \/ taken]_vars
  BY RowChange DEF RowSafe, Sticks, vars
<1>. QED BY InitType, NextType, RowInit, RowNext, <1>1, PTL DEF Spec, WithdrawalSticks, RowSafe

-----------------------------------------------------------------------------
(* Publishing. *)

(* What was withdrawn when a command started still is, and an artifact     *)
(* that passed the check was not among it.                                 *)
Stays(a) == db[a] \in Withdrawal \/ a \in lost
Checked(p) == job[p].pc \in {"lock-channel", "verify-channel", "write-channel"}

PublishInv ==
    \A p \in Procs :
       /\ \A a \in job[p].withdrawn : Stays(a)
       /\ Checked(p) => job[p].art \notin job[p].withdrawn \/ job[p].art \in lost

LEMMA StaysStep ==
    ASSUME TypeOK, Next, ~taken, RowInv, NEW a \in Artifacts, Stays(a)
    PROVE  Stays(a)'
<1>1. lost \subseteq lost'
  <2>1. PICK p \in Procs : Request(p) \/ Step(p)
    BY DEF Next
  <2>2. CASE Request(p)
    BY <2>2, RequestJob DEF history
  <2>3. CASE Step(p)
    BY <2>3 DEF Step, LockFence, Replay, ReadOperation, ReadFence, WriteFence, WriteOperation,
         CheckArtifact, LockChannel, VerifyToken, WriteChannel, CompleteOp, LockArtifact,
         ReadMirror, PutRow, PutMirror, Rollback, Raise, Crash, history
  <2>. QED BY <2>1, <2>2, <2>3
<1>2. CASE db'[a] = db[a]
  BY <1>1, <1>2 DEF Stays
<1>3. CASE db'[a] # db[a]
  BY <1>1, <1>3, RowChange DEF Stays, Sticks, Withdrawal
<1>. QED BY <1>2, <1>3

LEMMA PublishStep ==
    ASSUME TypeOK, Next, ~taken, RowInv, PublishInv
    PROVE  PublishInv'
<1>0. PICK p \in Procs : Request(p) \/ Step(p)
  BY DEF Next
<1>a. \A q \in Procs \ {p} : job'[q] = job[q]
  BY <1>0, RequestJob, StepJob
<1>b. \A q \in Procs : job[q].withdrawn \subseteq Artifacts
  BY DEF TypeOK, JobType
<1>c. \A a \in Artifacts : a \in lost => a \in lost'
  <2>1. CASE Request(p)
    BY <2>1, RequestJob DEF history
  <2>2. CASE Step(p)
    BY <2>2 DEF Step, LockFence, Replay, ReadOperation, ReadFence, WriteFence, WriteOperation,
         CheckArtifact, LockChannel, VerifyToken, WriteChannel, CompleteOp, LockArtifact,
         ReadMirror, PutRow, PutMirror, Rollback, Raise, Crash, history
  <2>. QED BY <1>0, <2>1, <2>2
<1>d. \A q \in Procs : Checked(q) => job[q].art \in Artifacts
  BY DEF Checked, TypeOK
<1>1. ASSUME NEW q \in Procs \ {p}
      PROVE  /\ \A a \in job'[q].withdrawn : Stays(a)'
             /\ Checked(q)' => job'[q].art \notin job'[q].withdrawn \/ job'[q].art \in lost'
  BY <1>a, <1>b, <1>c, <1>d, StaysStep DEF PublishInv, Checked
<1>2. /\ \A a \in job'[p].withdrawn : Stays(a)'
      /\ Checked(p)' => job'[p].art \notin job'[p].withdrawn \/ job'[p].art \in lost'
  <2>1. CASE Request(p)
    BY <2>1, RequestJob DEF Withdrawn, Stays, Checked, registry
  <2>2. CASE job'[p] = Idle
    BY <2>2, JobFields, IdleFields DEF Idle, Job, Checked
  <2>3. CASE Step(p) /\ Same(p) /\ ~Checked(p)'
    BY <1>b, <2>3, StaysStep DEF Same, PublishInv
  <2>4. CASE CheckArtifact(p)
    <3>1. Same(p) /\ job'[p].art = job[p].art /\ db[job[p].art] = "active" /\ UNCHANGED <<db, lost>>
      BY <2>4, MoveEffect DEF CheckArtifact, NextPhase, Onto, registry, history
    <3>2. \A a \in job[p].withdrawn : Stays(a)
      BY DEF PublishInv
    <3>3. job[p].art \notin job[p].withdrawn \/ job[p].art \in lost
      BY <3>1, <3>2 DEF Stays, Withdrawal
    <3>. QED BY <1>b, <3>1, <3>2, <3>3, StaysStep DEF Same
  <2>5. CASE LockChannel(p)
    <3>1. Same(p) /\ job'[p].art = job[p].art /\ Checked(p) /\ UNCHANGED <<db, lost>>
      BY <2>5, LockEffect DEF LockChannel, Onto, Checked, At, registry
    <3>. QED BY <1>b, <3>1, StaysStep DEF Same, PublishInv
  <2>6. CASE VerifyToken(p) /\ Checked(p)'
    <3>1. Same(p) /\ job'[p].art = job[p].art /\ Checked(p) /\ UNCHANGED <<db, lost>>
      BY <2>6, MoveEffect DEF VerifyToken, NextPhase, Onto, Checked, At, registry, history
    <3>. QED BY <1>b, <3>1, StaysStep DEF Same, PublishInv
  <2>7. CASE Step(p)
    <3>1. \/ job'[p] = Idle \/ CheckArtifact(p) \/ LockChannel(p) \/ VerifyToken(p)
          \/ Same(p) /\ ~Checked(p)'
      BY <2>7, EndEffect, ClaimEffect, MoveEffect, GotoEffect, MirrorEffect, RollbackEffect, WriteEffect,
         PutEffect, PhaseNames
         DEF Step, Stopped, NextPhase, Onto, LockArtifact, PutRow, Checked
    <3>2. VerifyToken(p) => Same(p)
      BY MoveEffect DEF NextPhase, Onto
    <3>. QED BY <2>2, <2>3, <2>4, <2>5, <2>6, <2>7, <3>1, <3>2
  <2>. QED BY <1>0, <2>1, <2>7
<1>. QED BY <1>1, <1>2 DEF PublishInv

LEMMA PublishInit == Init => PublishInv
  BY IdleFields DEF Init, PublishInv, Checked, Idle, Job

PublishSafe == taken \/ PublishInv

LEMMA PublishNext == TypeOK /\ RowSafe /\ PublishSafe /\ [Next]_vars => PublishSafe'
<1>. SUFFICES ASSUME TypeOK, RowSafe, PublishSafe, [Next]_vars PROVE PublishSafe'
  OBVIOUS
<1>1. CASE UNCHANGED vars
  BY <1>1 DEF vars, registry, history, PublishSafe, PublishInv, Stays, Checked
<1>2. CASE Next /\ ~taken
  BY <1>2, PublishStep DEF PublishSafe, RowSafe
<1>3. CASE Next /\ taken
  <2>1. taken'
    BY <1>3, RequestJob, StepLocks DEF Next, history
  <2>. QED BY <2>1 DEF PublishSafe
<1>. QED BY <1>1, <1>2, <1>3

(* Neither a promotion nor an automatic rollback publishes an artifact     *)
(* that was already withdrawn when the command started.                    *)
THEOREM Published == Spec => WithdrawnNotPublished
<1>1. TypeOK /\ PublishSafe /\ [Next]_vars =>
        [\A p \in Procs : (chan' # chan /\ job'[p] # job[p]) =>
            job[p].art \notin job[p].withdrawn \/ job[p].art \in lost \/ taken]_vars
  <2>. SUFFICES ASSUME TypeOK, PublishSafe, Next, chan' # chan, NEW p \in Procs, job'[p] # job[p], ~taken
                PROVE  job[p].art \notin job[p].withdrawn \/ job[p].art \in lost
    BY DEF vars
  <2>1. WriteChannel(p)
    BY ChannelStep
  <2>. QED BY <2>1 DEF WriteChannel, At, PublishSafe, PublishInv, Checked
<1>. QED BY InitType, NextType, RowInit, RowNext, PublishInit, PublishNext, <1>1, PTL
     DEF Spec, WithdrawnNotPublished, RowSafe, PublishSafe
=============================================================================
