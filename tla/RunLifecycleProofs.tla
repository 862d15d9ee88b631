------------------------- MODULE RunLifecycleProofs -------------------------
(***************************************************************************)
(* Theorems about RunLifecycle, for any number of resumptions and          *)
(* reconcilers and under every fault.                                      *)
(***************************************************************************)
EXTENDS RunLifecycle, SequenceTheorems, TLAPS

Places == {"idle", "resume", "stage", "staging", "build", "packer", "built",
           "probing", "checking", "rejected", "verified", "end", "dead"}
Steps  == {"idle", "manifest", "lock", "append", "unlock", "stamp"}

-----------------------------------------------------------------------------
(* Writers, writes and events. *)

LEMMA WriterNames ==
    /\ \A p \in Procs \cup Janitors : Main(p) \in Writers /\ Main(p)[2] = p
    /\ \A p \in Procs : Beat(p) \in Writers /\ Beat(p)[2] = p
    /\ \A p \in Procs, j \in Janitors : Main(p) # Main(j) /\ Beat(p) # Main(j)
    /\ \A j \in Janitors : j \notin Procs
  BY LifecycleAssumption DEF Main, Beat, Writers, Procs

LEMMA WriterCases ==
    ASSUME NEW w \in Writers
    PROVE  \/ \E p \in Procs \cup Janitors : w = Main(p)
           \/ \E p \in Procs : w = Beat(p)
  BY DEF Writers

LEMMA StateIsState == ASSUME NEW s \in Status, NEW f \in Phase PROVE StateOf(s, f) \in RunState
  BY DEF StateOf, PhaseState, Status, Phase, RunState

LEMMA ManifestFields ==
    ASSUME NEW s \in Status, NEW f \in Phase, NEW n \in 0 .. 4, NEW i \in Nat
    PROVE  Manifest(s, f, n, i) \in ManifestType
  BY DEF Manifest, ManifestType

LEMMA NoManifestType == NoManifest \in ManifestType
  BY ManifestFields DEF NoManifest, Status, Phase

LEMMA WriteFields ==
    ASSUME NEW k \in Steps, NEW s \in Status, NEW f \in Phase, NEW n \in 0 .. 4, NEW i \in Nat
    PROVE  Write(k, s, f, n, i) \in WriteType /\ Write(k, s, f, n, i).step = k
  BY DEF Write, WriteType, Steps

LEMMA IdleFields == Idle \in WriteType /\ Idle.step = "idle"
  BY WriteFields DEF Idle, Steps, Status, Phase

LEMMA StepType == ASSUME TypeOK, NEW w \in Writers
                  PROVE  writing[w] \in WriteType /\ writing[w].step \in Steps
  BY DEF TypeOK, WriteType, Steps

LEMMA MoveEffect ==
    ASSUME TypeOK, NEW w \in Writers, NEW s \in Steps, Move(w, s)
    PROVE  /\ writing' \in [Writers -> WriteType] /\ writing'[w].step = s
           /\ \A v \in Writers \ {w} : writing'[v] = writing[v]
  BY StepType DEF Move, TypeOK, WriteType, Steps

LEMMA StopEffect ==
    ASSUME TypeOK, NEW w \in Writers, Stop(w)
    PROVE  /\ writing' \in [Writers -> WriteType] /\ writing'[w].step = "idle"
           /\ \A v \in Writers \ {w} : writing'[v] = writing[v]
  BY IdleFields DEF Stop, TypeOK

LEMMA TargetIsState == ASSUME TypeOK, NEW w \in Writers PROVE Target(w) \in RunState
  BY StateIsState DEF TypeOK, Target, WriteType

LEMMA LastEvent ==
    ASSUME NEW s \in Seq(EventType), s # <<>>
    PROVE  Last(s) \in EventType /\ Len(s) \in Nat \ {0} /\ Last(s) = s[Len(s)]
  BY DEF Last

LEMMA NextEventType ==
    ASSUME TypeOK, NEW w \in Writers
    PROVE  NextEvent(w) \in EventType
<1>1. CASE seen[w] = <<>>
  BY <1>1 DEF TypeOK, NextEvent, Event, EventType, RunState
<1>2. CASE seen[w] # <<>>
  <2>1. Last(seen[w]) \in EventType /\ Len(seen[w]) \in Nat
    BY <1>2, LastEvent DEF TypeOK
  <2>2. Last(seen[w]).to \in RunState /\ Last(seen[w]).id \in Nat
    BY <2>1 DEF EventType
  <2>3. Target(w) \in RunState /\ nextId \in Nat
    BY TargetIsState DEF TypeOK
  <2>4. NextEvent(w) = [sequence |-> Len(seen[w]) + 1, from |-> Last(seen[w]).to,
                        to |-> Target(w), id |-> nextId, previous |-> Last(seen[w]).id]
    BY <1>2 DEF NextEvent, Event
  <2>5. Len(seen[w]) + 1 \in Nat
    BY <2>1
  <2>. HIDE DEF Last
  <2>. QED BY <2>2, <2>3, <2>4, <2>5 DEF EventType
<1>. QED BY <1>1, <1>2

LEMMA EventIds == ASSUME NEW a, NEW b, NEW c, NEW d, NEW e
                  PROVE  LET v == Event(a, b, c, d, e)
                         IN  v.sequence = a /\ v.from = b /\ v.to = c /\ v.id = d /\ v.previous = e
  BY DEF Event

-----------------------------------------------------------------------------
(* What the commands do to the writers: they ask an idle one for a write   *)
(* of the manifest, and touch neither the log nor its lock.                *)

Asks == \A w \in Writers :
            \/ writing'[w] = writing[w]
            \/ writing[w].step = "idle" /\ writing'[w].step = "manifest" /\ w[2] \in Procs

CommandEffectOn(p, to) ==
    /\ at' \in [Procs -> Places] /\ at'[p] = to
    /\ \A q \in Procs \ {p} : at'[q] = at[q]
    /\ writing' \in [Writers -> WriteType] /\ Asks
    /\ UNCHANGED <<files, locks, seen, plan, pruner, headLost, refused>>

LEMMA AskEffect ==
    ASSUME TypeOK, NEW w \in Writers, w[2] \in Procs, Step(w, "idle"),
           NEW s \in Status, NEW f \in Phase, NEW n \in 0 .. 4, Ask(w, s, f, n)
    PROVE  writing' \in [Writers -> WriteType] /\ Asks
<1>1. Write("manifest", s, f, n, 0) \in WriteType /\ Write("manifest", s, f, n, 0).step = "manifest"
  BY WriteFields DEF Steps
<1>. QED BY <1>1 DEF Ask, Asks, TypeOK, Step

LEMMA GotoEffect ==
    ASSUME TypeOK, NEW p \in Procs, NEW to \in Places, Goto(p, to)
    PROVE  /\ at' \in [Procs -> Places] /\ at'[p] = to
           /\ \A q \in Procs \ {p} : at'[q] = at[q]
  BY DEF Goto, TypeOK, Places

LEMMA CommandEffect ==
    ASSUME TypeOK, NEW p \in Procs, NEW from, NEW s \in Status, NEW f \in Phase,
           NEW n \in 0 .. 4, NEW to \in Places, Command(p, from, s, f, n, to)
    PROVE  CommandEffectOn(p, to) /\ at[p] = from /\ UNCHANGED <<beats, faults, disturbed>>
  BY AskEffect, GotoEffect, WriterNames
     DEF Command, CommandEffectOn, At, past

LEMMA SilentEffect ==
    ASSUME TypeOK, NEW p \in Procs, NEW from, NEW to \in Places, Silently(p, from, to)
    PROVE  CommandEffectOn(p, to) /\ at[p] = from /\ UNCHANGED <<beats, faults, disturbed>>
  BY GotoEffect DEF Silently, CommandEffectOn, At, Asks, TypeOK, past

(* The three launch stages are phases. *)
LEMMA StagePhases == Len(Stages) = 3 /\ \A n \in 0 .. 2 : Stages[n + 1] \in Phase
<1>1. Len(Stages) = 3
  BY DEF Stages
<1>2. ASSUME NEW n \in 0 .. 2 PROVE Stages[n + 1] \in Phase
  <2>1. n = 0 \/ n = 1 \/ n = 2
    OBVIOUS
  <2>. QED BY <2>1 DEF Stages, Phase
<1>. QED BY <1>1, <1>2

-----------------------------------------------------------------------------
(* Type correctness.  A stage that runs is one of the three. *)

StageInv == \A p \in Procs : at[p] = "staging" => done[p] < Len(Stages)
TypeInv == TypeOK /\ StageInv

LEMMA TypeInit == Init => TypeInv
<1>. SUFFICES ASSUME Init PROVE TypeInv
  OBVIOUS
<1>1. manifest \in ManifestType /\ Idle \in WriteType
  BY NoManifestType, IdleFields DEF Init
<1>2. \A f \in {<<>>} : f \in Seq(EventType)
  OBVIOUS
<1>3. Len(Stages) = 3
  BY StagePhases
<1>4. /\ writing \in [Writers -> WriteType] /\ seen \in [Writers -> Seq(EventType)]
      /\ at \in [Procs -> Places] /\ done \in [Procs -> 0 .. Len(Stages)]
      /\ plan \in [Janitors -> {"idle", "planned", "applying"}]
  BY <1>1, <1>2, <1>3 DEF Init, Places
<1>5. beats \in [Procs -> 0 .. MaxBeats] /\ faults \in 0 .. MaxFaults
  BY LifecycleAssumption DEF Init
<1>6. log \in Seq(EventType) /\ nextId \in Nat /\ refused \subseteq RunState \X RunState
  BY <1>2 DEF Init
<1>7. \A p \in Procs : at[p] = "idle"
  BY DEF Init
<1>. QED BY <1>1, <1>4, <1>5, <1>6, <1>7 DEF Init, TypeInv, TypeOK, StageInv, Places

(* The writers' part of the types, and the commands'. *)
FileTypes == /\ manifest \in ManifestType /\ log \in Seq(EventType) /\ torn \in BOOLEAN
             /\ nextId \in Nat
             /\ manifestLock \in Writers \cup {Free} /\ logLock \in Writers \cup {Free}
             /\ writing \in [Writers -> WriteType] /\ seen \in [Writers -> Seq(EventType)]
             /\ plan \in [Janitors -> {"idle", "planned", "applying"}]
             /\ headLost \in BOOLEAN /\ disturbed \in BOOLEAN
             /\ refused \subseteq RunState \X RunState
CommandTypes == /\ at \in [Procs -> Places] /\ done \in [Procs -> 0 .. Len(Stages)]
                /\ beats \in [Procs -> 0 .. MaxBeats]
                /\ recorded \in BOOLEAN /\ pruner \in {"idle", "read", "rewritten", "unlinked"}
                /\ faults \in 0 .. MaxFaults

LEMMA TypeParts == TypeOK <=> FileTypes /\ CommandTypes
  BY DEF TypeOK, FileTypes, CommandTypes, Places

LEMMA TypePartsNext == FileTypes' /\ CommandTypes' => TypeOK'
  BY DEF TypeOK, FileTypes, CommandTypes, Places

LEMMA FaultType == ASSUME TypeOK, Fault PROVE faults' \in 0 .. MaxFaults
  BY LifecycleAssumption DEF TypeOK, Fault

LEMMA KeptType == ASSUME TypeOK, NEW n \in 0 .. 4 PROVE Kept(n) \in 0 .. 4
  BY DEF Kept, NoCheckpoint, TypeOK, ManifestType

LEMMA ReleasedType == ASSUME TypeOK, NEW w PROVE Released(w) \in Writers \cup {Free}
  BY DEF Released, TypeOK

LEMMA WritingTypes == ASSUME TypeOK, NEW w \in Writers, Writing(w) PROVE FileTypes'
<1>. USE TypeParts DEF FileTypes
<1>1. CASE WriteManifest(w)
  <2>1. PICK k : k = [writing[w] EXCEPT !.step = "lock", !.done = Kept(writing[w].done)]
    OBVIOUS
  <2>2. k \in WriteType
    BY <2>1, StepType, KeptType DEF WriteType
  <2>3. /\ writing' = [writing EXCEPT ![w] = k]
        /\ manifest' = Manifest(k.status, k.phase, k.done, manifest.stamp)
        /\ manifestLock' = w
    BY <1>1, <2>1 DEF WriteManifest
  <2>4. manifest.stamp \in Nat
    BY DEF ManifestType
  <2>5. manifest' \in ManifestType
    BY <2>2, <2>3, <2>4, ManifestFields DEF WriteType
  <2>. QED BY <1>1, <2>2, <2>3, <2>5 DEF WriteManifest, past
<1>2. CASE ManifestTimeout(w)
  BY <1>2, StopEffect DEF ManifestTimeout, files, locks
<1>3. CASE LockLog(w)
  <2>1. writing' \in [Writers -> WriteType]
    BY <1>3, MoveEffect DEF LockLog, Steps
  <2>. QED BY <1>3, <2>1 DEF LockLog, files, past
<1>4. CASE LogTimeout(w)
  <2>1. writing' \in [Writers -> WriteType]
    BY <1>4, StopEffect DEF LogTimeout
  <2>. QED BY <1>4, <2>1, ReleasedType DEF LogTimeout, files
<1>5. CASE AppendEvent(w)
  <2>1. NextEvent(w) \in EventType
    BY NextEventType
  <2>2. log' \in Seq(EventType) /\ seen' \in [Writers -> Seq(EventType)]
    BY <1>5, <2>1 DEF AppendEvent
  <2>3. writing' \in [Writers -> WriteType]
    BY <1>5 DEF AppendEvent, WriteType
  <2>4. nextId' \in Nat /\ headLost' \in BOOLEAN
    BY <1>5 DEF AppendEvent
  <2>5. UNCHANGED <<manifest, manifestLock, logLock, plan, refused, disturbed>> /\ torn' = FALSE
    BY <1>5 DEF AppendEvent, locks
  <2>. QED BY <2>2, <2>3, <2>4, <2>5
<1>6. CASE RefuseEvent(w)
  <2>1. writing' \in [Writers -> WriteType]
    BY <1>6, MoveEffect DEF RefuseEvent, Steps
  <2>2. seen[w] # <<>>
    BY <1>6 DEF RefuseEvent, Accepts
  <2>3. <<Last(seen[w]).to, Target(w)>> \in RunState \X RunState
    BY <2>2, LastEvent, TargetIsState DEF EventType
  <2>4. refused' \subseteq RunState \X RunState
    BY <1>6, <2>3 DEF RefuseEvent
  <2>. QED BY <1>6, <2>1, <2>4 DEF RefuseEvent, files, locks
<1>7. CASE UnlockLog(w)
  <2>1. writing' \in [Writers -> WriteType]
    BY <1>7, MoveEffect, StopEffect DEF UnlockLog, Steps
  <2>2. manifestLock' \in Writers \cup {Free}
    BY <1>7, ReleasedType DEF UnlockLog
  <2>3. plan' \in [Janitors -> {"idle", "planned", "applying"}]
    BY <1>7 DEF UnlockLog
  <2>4. seen' \in [Writers -> Seq(EventType)]
    BY <1>7 DEF UnlockLog
  <2>. QED BY <1>7, <2>1, <2>2, <2>3, <2>4 DEF UnlockLog, files, past
<1>8. CASE Stamp(w)
  <2>1. writing' \in [Writers -> WriteType]
    BY <1>8, StopEffect DEF Stamp
  <2>2. manifest' \in ManifestType
    BY <1>8, StepType, ManifestFields DEF Stamp, WriteType
  <2>. QED BY <1>8, <2>1, <2>2, ReleasedType DEF Stamp, past
<1>. QED BY <1>1, <1>2, <1>3, <1>4, <1>5, <1>6, <1>7, <1>8 DEF Writing

(* A step of a command. *)
Commanded(p) ==
    /\ \E to \in Places : CommandEffectOn(p, to) /\ (to = "staging" => done'[p] < Len(Stages))
    /\ done' \in [Procs -> 0 .. Len(Stages)]
    /\ \A q \in Procs \ {p} : done'[q] = done[q]
    /\ beats' \in [Procs -> 0 .. MaxBeats] /\ faults' = faults
    /\ recorded' \in BOOLEAN /\ disturbed' \in BOOLEAN

LEMMA CommandType ==
    ASSUME TypeOK, NEW p \in Procs, NEW from, NEW s \in Status, NEW f \in Phase,
           NEW n \in 0 .. 4, NEW to \in Places \ {"staging"},
           Command(p, from, s, f, n, to), recorded' \in BOOLEAN, UNCHANGED done
    PROVE  Commanded(p)
  BY CommandEffect DEF Commanded, TypeOK

LEMMA SilentType ==
    ASSUME TypeOK, NEW p \in Procs, NEW from, NEW to \in Places \ {"staging"},
           Silently(p, from, to), recorded' \in BOOLEAN, UNCHANGED done
    PROVE  Commanded(p)
  BY SilentEffect DEF Commanded, TypeOK

LEMMA BeginStep == ASSUME TypeOK, Begin PROVE Starter \in Procs /\ Commanded(Starter)
<1>1. Starter \in Procs /\ recorded' \in BOOLEAN /\ UNCHANGED done
  BY DEF Procs, Begin, TypeOK
<1>2. \/ Silently(Starter, "idle", "stage")
      \/ Silently(Starter, "idle", "build")
      \/ Command(Starter, "idle", "active", "probe-setup", NoCheckpoint, "checking")
  BY DEF Begin
<1>3. "active" \in Status /\ "probe-setup" \in Phase /\ NoCheckpoint \in 0 .. 4
  BY DEF Status, Phase, NoCheckpoint
<1>4. {"stage", "build", "checking"} \subseteq Places \ {"staging"}
  BY DEF Places
<1>. QED BY <1>1, <1>2, <1>3, <1>4, CommandType, SilentType

LEMMA WorkingStep == ASSUME TypeInv, NEW p \in Procs, Working(p) PROVE Commanded(p)
<1>. USE DEF TypeInv
<1>1. /\ {"active", "failed", "ready", "completed"} \subseteq Status
      /\ {"launch-retry", "launch-ready", "launch-build", "packer-build", "probe-setup",
          "probe-cleanup", "clean-boot-gate", "build-gate", "release-complete"} \subseteq Phase
      /\ NoCheckpoint \in 0 .. 4
      /\ {"stage", "build", "end", "packer", "built", "probing", "verified", "rejected"}
            \subseteq Places \ {"staging"}
      /\ "staging" \in Places
  BY DEF Status, Phase, NoCheckpoint, Places
<1>2. done[p] \in 0 .. 3 /\ done[p] \in 0 .. 4 /\ Len(Stages) = 3
  BY StagePhases DEF TypeOK
<1>3. recorded \in BOOLEAN
  BY DEF TypeOK
<1>4. CASE Retry(p)
  BY <1>1, <1>2, <1>3, <1>4, CommandType, SilentType DEF Retry
<1>5. CASE BeginStage(p)
  <2>1. done[p] \in 0 .. 2 /\ Stages[done[p] + 1] \in Phase
    BY <1>2, <1>5, StagePhases DEF BeginStage
  <2>2. PICK f \in Phase, n \in 0 .. 4 : Command(p, "stage", "active", f, n, "staging")
    BY <1>2, <1>5, <2>1 DEF BeginStage
  <2>3. CommandEffectOn(p, "staging") /\ UNCHANGED <<beats, faults, disturbed>>
    BY <1>1, <2>2, CommandEffect
  <2>. QED BY <1>1, <1>2, <1>5, <2>1, <2>3 DEF Commanded, BeginStage, TypeOK
<1>6. CASE StagePasses(p)
  <2>1. CommandEffectOn(p, "stage") /\ at[p] = "staging" /\ UNCHANGED <<beats, faults, disturbed>>
    BY <1>1, <1>6, SilentEffect DEF StagePasses
  <2>2. done[p] + 1 \in 0 .. 3
    BY <1>2, <2>1 DEF StageInv
  <2>3. done' \in [Procs -> 0 .. Len(Stages)] /\ \A q \in Procs \ {p} : done'[q] = done[q]
    BY <1>2, <1>6, <2>2 DEF StagePasses, Completed, TypeOK
  <2>. QED BY <1>1, <1>6, <2>1, <2>3 DEF Commanded, StagePasses, TypeOK
<1>7. CASE StageFails(p)
  <2>1. at[p] = "staging"
    BY <1>7 DEF StageFails, Command, At
  <2>2. done[p] \in 0 .. 2 /\ Stages[done[p] + 1] \in Phase
    BY <1>2, <2>1, StagePhases DEF StageInv
  <2>. QED BY <1>1, <1>2, <1>3, <1>7, <2>2, CommandType DEF StageFails
<1>8. CASE StagesOver(p)
  BY <1>1, <1>2, <1>3, <1>8, CommandType DEF StagesOver
<1>9. CASE BuildReturns(p)
  BY <1>1, <1>3, <1>9, SilentType DEF BuildReturns
<1>10. CASE StartPacker(p)
  BY <1>1, <1>3, <1>10, CommandType DEF StartPacker
<1>11. CASE PackerSucceeds(p)
  <2>1. CommandEffectOn(p, "built")
    BY <1>1, <1>11, GotoEffect DEF PackerSucceeds, CommandEffectOn, Asks, TypeOK, env
  <2>. QED BY <1>1, <1>11, <2>1 DEF Commanded, PackerSucceeds, TypeOK, env
<1>12. CASE PackerFails(p)
  <2>1. writing' \in [Writers -> WriteType] /\ Asks
    BY <1>1, <1>12, AskEffect, WriterNames DEF PackerFails, At
  <2>2. CommandEffectOn(p, "end")
    BY <1>1, <1>12, <2>1, GotoEffect DEF PackerFails, CommandEffectOn
  <2>. QED BY <1>1, <1>12, <2>2 DEF Commanded, PackerFails, TypeOK
<1>13. CASE Probe(p)
  BY <1>1, <1>3, <1>13, CommandType, SilentType DEF Probe
<1>14. CASE Verdict(p)
  BY <1>1, <1>3, <1>14, CommandType DEF Verdict
<1>15. CASE GateFails(p)
  BY <1>1, <1>3, <1>15, CommandType DEF GateFails
<1>16. CASE Complete(p)
  BY <1>1, <1>3, <1>16, CommandType DEF Complete
<1>. QED
  BY <1>4, <1>5, <1>6, <1>7, <1>8, <1>9, <1>10, <1>11, <1>12, <1>13, <1>14, <1>15, <1>16 DEF Working

LEMMA ResumeStep == ASSUME TypeOK, NEW p \in Procs, Resume(p) PROVE Commanded(p)
<1>1. manifest.done \in 0 .. 3 /\ Len(Stages) = 3
  BY StagePhases DEF Resume, NoCheckpoint, TypeOK, ManifestType
<1>2. CommandEffectOn(p, "resume")
  BY GotoEffect DEF Resume, CommandEffectOn, Asks, TypeOK, Places, env
<1>3. done' \in [Procs -> 0 .. Len(Stages)] /\ \A q \in Procs \ {p} : done'[q] = done[q]
  BY <1>1 DEF Resume, TypeOK
<1>4. UNCHANGED <<beats, faults, recorded>> /\ disturbed' \in BOOLEAN
  BY DEF Resume, env, TypeOK
<1>. QED BY <1>2, <1>3, <1>4 DEF Commanded, Places, TypeOK

LEMMA HeartbeatStep == ASSUME TypeInv, NEW p \in Procs, Heartbeat(p) PROVE Commanded(p)
<1>1. writing' \in [Writers -> WriteType] /\ Asks
  BY AskEffect, WriterNames DEF Heartbeat, TypeInv, Status, Phase, NoCheckpoint
<1>2. CommandEffectOn(p, "packer")
  BY <1>1 DEF Heartbeat, CommandEffectOn, At, TypeInv, TypeOK, Places, env, past
<1>3. beats' \in [Procs -> 0 .. MaxBeats]
  BY LifecycleAssumption DEF Heartbeat, TypeInv, TypeOK
<1>. QED BY <1>2, <1>3 DEF Commanded, Heartbeat, TypeInv, TypeOK, Places, env, past

LEMMA CommandedTypes ==
    ASSUME TypeInv, NEW p \in Procs, Commanded(p)
    PROVE  TypeInv'
<1>1. PICK to \in Places : CommandEffectOn(p, to) /\ (to = "staging" => done'[p] < Len(Stages))
  BY DEF Commanded
<1>2. FileTypes'
  BY <1>1, TypeParts DEF TypeInv, FileTypes, Commanded, CommandEffectOn, files, locks
<1>3. CommandTypes'
  BY <1>1, TypeParts DEF TypeInv, CommandTypes, Commanded, CommandEffectOn
<1>4. StageInv'
  BY <1>1 DEF TypeInv, StageInv, Commanded, CommandEffectOn
<1>. QED BY <1>2, <1>3, <1>4, TypePartsNext DEF TypeInv

LEMMA KillEffect ==
    ASSUME TypeOK, NEW p \in Procs, Kill(p)
    PROVE  /\ writing' \in [Writers -> WriteType] /\ seen' \in [Writers -> Seq(EventType)]
           /\ \A w \in Writers : writing'[w].step = "idle" \/
                 (writing'[w] = writing[w] /\ seen'[w] = seen[w])
           /\ \A j \in Janitors : writing'[Main(j)] = writing[Main(j)]
<1>1. Idle \in WriteType /\ <<>> \in Seq(EventType)
  BY IdleFields
<1>. QED BY <1>1, IdleFields, WriterNames DEF Kill, TypeOK

LEMMA TypeNext == TypeInv /\ [Next]_vars => TypeInv'
<1>. SUFFICES ASSUME TypeInv, [Next]_vars PROVE TypeInv'
  OBVIOUS
<1>. USE DEF TypeInv
<1>1. CASE \E w \in Writers : Writing(w)
  <2>1. PICK w \in Writers : Writing(w)
    BY <1>1
  <2>2. UNCHANGED <<at, done, beats, recorded, pruner, faults>>
    BY <2>1 DEF Writing, WriteManifest, ManifestTimeout, LockLog, LogTimeout, AppendEvent,
       RefuseEvent, UnlockLog, Stamp, procs, env
  <2>3. FileTypes'
    BY <2>1, WritingTypes
  <2>4. CommandTypes' /\ StageInv'
    BY <2>2, TypeParts DEF CommandTypes, StageInv
  <2>. QED BY <2>3, <2>4, TypePartsNext
<1>2. CASE \E w \in Writers : TearEvent(w)
  <2>1. PICK w \in Writers : TearEvent(w)
    BY <1>2
  <2>2. FileTypes'
    BY <2>1, MoveEffect, TypeParts DEF TearEvent, FileTypes, Steps, locks
  <2>3. CommandTypes' /\ StageInv'
    BY <2>1, FaultType, TypeParts DEF TearEvent, CommandTypes, StageInv, procs
  <2>. QED BY <2>2, <2>3, TypePartsNext
<1>3. CASE \E p \in Procs : Working(p) \/ Heartbeat(p) \/ Resume(p)
  BY <1>3, WorkingStep, HeartbeatStep, ResumeStep, CommandedTypes
<1>4. CASE Begin
  BY <1>4, BeginStep, CommandedTypes
<1>5. CASE \E p \in Procs : Kill(p)
  <2>1. PICK p \in Procs : Kill(p)
    BY <1>5
  <2>2. FileTypes'
    BY <2>1, KillEffect, TypeParts DEF Kill, FileTypes, files, locks, HalfWritten
  <2>3. CommandTypes' /\ StageInv'
    BY <2>1, FaultType, GotoEffect, TypeParts DEF Kill, CommandTypes, StageInv, Places
  <2>. QED BY <2>2, <2>3, TypePartsNext
<1>6. CASE \E j \in Janitors : Reconcile(j)
  <2>1. PICK j \in Janitors : Reconcile(j)
    BY <1>6
  <2>2. Write("lock", "failed", "lease-expired", manifest.done, 0) \in WriteType
    <3>1. manifest.done \in 0 .. 4
      BY DEF TypeOK, ManifestType
    <3>2. "lock" \in Steps /\ "failed" \in Status /\ "lease-expired" \in Phase /\ 0 \in Nat
      BY DEF Steps, Status, Phase
    <3>. QED BY <3>1, <3>2, WriteFields
  <2>3. FileTypes'
    BY <2>1, <2>2, TypeParts DEF Reconcile, PlanExpiry, ApplyExpiry, FileTypes, files, locks, past
  <2>4. CommandTypes' /\ StageInv'
    BY <2>1, TypeParts DEF Reconcile, PlanExpiry, ApplyExpiry, CommandTypes, StageInv, procs, env
  <2>. QED BY <2>3, <2>4, TypePartsNext
<1>7. CASE LeaseExpires
  <2>1. manifest' \in ManifestType
    BY <1>7 DEF LeaseExpires, TypeOK, ManifestType
  <2>2. FileTypes'
    BY <1>7, <2>1, TypeParts DEF LeaseExpires, FileTypes, locks
  <2>3. CommandTypes' /\ StageInv'
    BY <1>7, FaultType, TypeParts DEF LeaseExpires, CommandTypes, StageInv, procs
  <2>. QED BY <2>2, <2>3, TypePartsNext
<1>8. CASE Prune
  <2>1. manifest' \in ManifestType /\ log' \in Seq(EventType) /\ torn' \in BOOLEAN
    <3>1. manifest' \in {manifest, NoManifest} /\ log' \in {log, <<>>} /\ torn' \in {torn, FALSE}
      BY <1>8 DEF Prune
    <3>2. <<>> \in Seq(EventType)
      OBVIOUS
    <3>. QED BY <3>1, <3>2, NoManifestType DEF TypeOK
  <2>2. headLost' \in BOOLEAN /\ disturbed' \in BOOLEAN
    BY <1>8 DEF Prune, TypeOK
  <2>3. FileTypes'
    BY <1>8, <2>1, <2>2, TypeParts DEF Prune, FileTypes, locks
  <2>4. CommandTypes' /\ StageInv'
    BY <1>8, FaultType, TypeParts DEF Prune, CommandTypes, StageInv, procs
  <2>. QED BY <2>3, <2>4, TypePartsNext
<1>9. CASE UNCHANGED vars
  <2>1. FileTypes' /\ CommandTypes' /\ StageInv'
    BY <1>9, TypeParts DEF vars, files, locks, procs, env, past, FileTypes, CommandTypes, StageInv
  <2>. QED BY <2>1, TypePartsNext
<1>. QED BY <1>1, <1>2, <1>3, <1>4, <1>5, <1>6, <1>7, <1>8, <1>9 DEF Next, Procs

(* Every variable stays in its type: the manifest, the log, every writer's *)
(* step, every command's place.                                            *)
THEOREM TypeCorrect == Spec => []TypeOK
<1>1. TypeInv => TypeOK
  BY DEF TypeInv
<1>. QED BY <1>1, TypeInit, TypeNext, PTL DEF Spec

-----------------------------------------------------------------------------
(* The log.  Whoever appends or is about to release owns the log's lock,   *)
(* and what it has read is what is in the log, unless the beginning of the *)
(* log is lost: then the log may be empty where the writer saw events.     *)

LockInv ==
    /\ \A w \in Writers : writing[w].step \in {"append", "unlock"} => logLock = w
    /\ \A j \in Janitors : ~Step(Main(j), "idle") => plan[j] = "applying"
SeenInv == \A w \in Writers : Step(w, "append") => seen[w] = log \/ (headLost /\ log = <<>>)
LogInv == LockInv /\ SeenInv

LEMMA LogInit == Init => LogInv
<1>. SUFFICES ASSUME Init PROVE LogInv
  OBVIOUS
<1>1. \A w \in Writers : writing[w] = Idle
  BY DEF Init
<1>2. \A j \in Janitors : Main(j) \in Writers
  BY WriterNames
<1>. QED BY <1>1, <1>2, IdleFields DEF LogInv, LockInv, SeenInv, Step

LEMMA WritingKeepsLog ==
    ASSUME TypeOK, LogInv, NEW w \in Writers, Writing(w)
    PROVE  LogInv'
<1>. USE DEF LogInv, LockInv, SeenInv, Step
<1>0. Free \notin Writers
  BY FreeAssumption
<1>1. CASE WriteManifest(w)
  <2>1. /\ writing[w].step = "manifest" /\ writing'[w].step = "lock"
        /\ \A v \in Writers \ {w} : writing'[v] = writing[v]
    BY <1>1, StepType DEF WriteManifest, TypeOK, WriteType
  <2>. QED BY <1>1, <2>1, WriterNames DEF WriteManifest, past
<1>2. CASE ManifestTimeout(w)
  BY <1>2, StopEffect, WriterNames DEF ManifestTimeout, files, locks
<1>3. CASE LockLog(w)
  <2>1. /\ writing'[w].step = "append" /\ \A v \in Writers \ {w} : writing'[v] = writing[v]
    BY <1>3, MoveEffect DEF LockLog, Steps
  <2>2. \A v \in Writers : writing[v].step \notin {"append", "unlock"}
    BY <1>0, <1>3 DEF LockLog, LogFree
  <2>3. LockInv'
    BY <1>3, <2>1, <2>2, WriterNames DEF LockLog
  <2>4. SeenInv'
    BY <1>3, <2>1, <2>2 DEF LockLog, files, past, TypeOK
  <2>. QED BY <2>3, <2>4
<1>4. CASE LogTimeout(w)
  <2>1. LockInv'
    BY <1>4, StopEffect, WriterNames DEF LogTimeout, TypeOK
  <2>2. SeenInv'
    BY <1>4, StopEffect DEF LogTimeout, files
  <2>. QED BY <2>1, <2>2
<1>5. CASE AppendEvent(w)
  <2>1. /\ writing[w].step = "append" /\ logLock = w
        /\ writing'[w].step = (IF Begins(w) THEN "append" ELSE "unlock")
        /\ \A v \in Writers \ {w} : writing'[v] = writing[v]
    BY <1>5, StepType DEF AppendEvent, Appending, TypeOK, WriteType
  <2>2. LockInv'
    BY <1>5, <2>1, WriterNames DEF AppendEvent, locks
  <2>3. \A v \in Writers \ {w} : ~Step(v, "append")'
    BY <2>1
  <2>4. CASE Begins(w)
    <3>1. seen[w] = <<>> /\ log = <<>>
      BY <2>1, <2>4 DEF Begins
    <3>2. log' = (IF torn THEN <<>> ELSE seen'[w]) /\ headLost' = (headLost \/ torn)
      BY <1>5, <3>1 DEF AppendEvent, TypeOK
    <3>. QED BY <2>2, <2>3, <3>2
  <2>5. CASE ~Begins(w)
    BY <2>1, <2>2, <2>3, <2>5
  <2>. QED BY <2>4, <2>5
<1>6. CASE RefuseEvent(w)
  <2>1. /\ writing[w].step = "append" /\ writing'[w].step = "unlock"
        /\ \A v \in Writers \ {w} : writing'[v] = writing[v]
    BY <1>6, MoveEffect DEF RefuseEvent, Appending, Steps
  <2>. QED BY <1>6, <2>1, WriterNames DEF RefuseEvent, files, locks
<1>7. CASE UnlockLog(w)
  <2>1. /\ writing[w].step = "unlock" /\ writing'[w].step = (IF Unlogged(w) THEN "idle" ELSE "stamp")
        /\ \A v \in Writers \ {w} : writing'[v] = writing[v]
    BY <1>7, MoveEffect, StopEffect DEF UnlockLog, Steps
  <2>2. \A v \in Writers : writing'[v].step \notin {"append", "unlock"}
    BY <2>1
  <2>3. \A j \in Janitors : plan'[j] # plan[j] => w = Main(j) /\ writing'[w].step = "idle"
    BY <1>7, <2>1 DEF UnlockLog, TypeOK
  <2>. QED BY <2>1, <2>2, <2>3, WriterNames
<1>8. CASE Stamp(w)
  <2>1. LockInv'
    BY <1>8, StopEffect, WriterNames DEF Stamp, TypeOK
  <2>2. SeenInv'
    BY <1>8, StopEffect DEF Stamp, past
  <2>. QED BY <2>1, <2>2
<1>. QED BY <1>1, <1>2, <1>3, <1>4, <1>5, <1>6, <1>7, <1>8 DEF Writing

LEMMA CommandKeepsLog ==
    ASSUME TypeOK, LogInv, Asks, UNCHANGED <<log, logLock, seen, plan, headLost>>
    PROVE  LogInv'
  BY WriterNames DEF LogInv, LockInv, SeenInv, Step, Asks

LEMMA LogNext == TypeInv /\ LogInv /\ [Next]_vars => LogInv'
<1>. SUFFICES ASSUME TypeInv, LogInv, [Next]_vars PROVE LogInv'
  OBVIOUS
<1>. USE DEF TypeInv
<1>1. CASE \E w \in Writers : Writing(w)
  BY <1>1, WritingKeepsLog
<1>2. CASE \E w \in Writers : TearEvent(w)
  <2>1. PICK w \in Writers : TearEvent(w)
    BY <1>2
  <2>2. /\ writing[w].step = "append" /\ writing'[w].step = "unlock"
        /\ \A v \in Writers \ {w} : writing'[v] = writing[v]
    BY <2>1, MoveEffect DEF TearEvent, Appending, Steps, Step
  <2>. QED BY <2>1, <2>2, WriterNames DEF TearEvent, locks, LogInv, LockInv, SeenInv, Step
<1>3. CASE Begin \/ \E p \in Procs : Working(p) \/ Heartbeat(p) \/ Resume(p)
  <2>1. PICK p \in Procs : Commanded(p)
    BY <1>3, BeginStep, WorkingStep, HeartbeatStep, ResumeStep
  <2>. QED BY <2>1, CommandKeepsLog DEF Commanded, CommandEffectOn, files, locks
<1>4. CASE \E p \in Procs : Kill(p)
  <2>1. PICK p \in Procs : Kill(p)
    BY <1>4
  <2>2. UNCHANGED <<log, logLock, plan, headLost>>
    BY <2>1 DEF Kill, files, locks
  <2>. QED BY <2>1, <2>2, KillEffect, WriterNames DEF LogInv, LockInv, SeenInv, Step
<1>5. CASE \E j \in Janitors : Reconcile(j)
  <2>1. PICK j \in Janitors : Reconcile(j)
    BY <1>5
  <2>2. UNCHANGED <<log, logLock, seen, headLost>>
    BY <2>1 DEF Reconcile, PlanExpiry, ApplyExpiry, files, locks, past
  <2>3. Main(j) \in Writers /\ \A i \in Janitors \ {j} : Main(i) # Main(j) /\ Main(i) \in Writers
    BY WriterNames DEF Main
  <2>4. \/ writing' = writing
        \/ /\ plan'[j] = "applying" /\ writing'[Main(j)].step = "lock"
           /\ \A v \in Writers \ {Main(j)} : writing'[v] = writing[v]
    BY <2>1, <2>3 DEF Reconcile, PlanExpiry, ApplyExpiry, TypeOK, Write
  <2>5. plan[j] # "applying" /\ \A i \in Janitors \ {j} : plan'[i] = plan[i]
    BY <2>1 DEF Reconcile, PlanExpiry, ApplyExpiry, TypeOK
  <2>. QED BY <2>2, <2>3, <2>4, <2>5 DEF LogInv, LockInv, SeenInv, Step
<1>6. CASE LeaseExpires
  BY <1>6 DEF LeaseExpires, locks, LogInv, LockInv, SeenInv, Step
<1>7. CASE Prune
  <2>1. UNCHANGED <<logLock, writing, seen, plan>>
    BY <1>7 DEF Prune, locks
  <2>2. CASE UNCHANGED <<log, headLost>>
    BY <2>1, <2>2 DEF LogInv, LockInv, SeenInv, Step
  <2>3. CASE log' = <<>> /\ headLost' = (headLost \/ \E w \in Writers : Step(w, "append") /\ seen[w] # <<>>)
    BY <2>1, <2>3 DEF LogInv, LockInv, SeenInv, Step
  <2>. QED BY <1>7, <2>2, <2>3 DEF Prune
<1>8. CASE UNCHANGED vars
  BY <1>8 DEF vars, files, locks, past, LogInv, LockInv, SeenInv, Step
<1>. QED BY <1>1, <1>2, <1>3, <1>4, <1>5, <1>6, <1>7, <1>8 DEF Next, Procs

-----------------------------------------------------------------------------
(* The chain of events. *)

LEMMA NoChainFailures == ChainFailures(<<>>) = {}
<1>1. 1 .. Len(<<>>) = {}
  OBVIOUS
<1>. QED BY <1>1 DEF ChainFailures

LEMMA ChainGrows ==
    ASSUME NEW s \in Seq(EventType), NEW e \in EventType, ChainFailures(s) = {},
           e.sequence = Len(s) + 1,
           e.previous = (IF s = <<>> THEN 0 ELSE s[Len(s)].id),
           e.from = (IF s = <<>> THEN "none" ELSE s[Len(s)].to),
           s # <<>> => e.to \in Successors(s[Len(s)].to)
    PROVE  ChainFailures(Append(s, e)) = {}
<1>. DEFINE t == Append(s, e)
<1>1. /\ t \in Seq(EventType) /\ Len(t) = Len(s) + 1 /\ Len(s) \in Nat /\ t[Len(s) + 1] = e
      /\ \A i \in 1 .. Len(s) : t[i] = s[i]
  OBVIOUS
<1>2. SUFFICES ASSUME NEW i \in 1 .. Len(t), i \in ChainFailures(t) PROVE FALSE
  BY DEF ChainFailures
<1>3. /\ i \in 1 .. Len(s) + 1
      /\ \/ t[i].sequence # i
         \/ t[i].previous # (IF i = 1 THEN 0 ELSE t[i - 1].id)
         \/ t[i].from # (IF i = 1 THEN "none" ELSE t[i - 1].to)
         \/ i > 1 /\ t[i].to \notin Successors(t[i - 1].to)
  BY <1>1, <1>2 DEF ChainFailures
<1>. HIDE DEF t
<1>4. CASE i \in 1 .. Len(s)
  <2>1. t[i] = s[i] /\ (i # 1 => t[i - 1] = s[i - 1])
    BY <1>1, <1>4
  <2>2. i \in ChainFailures(s)
    BY <1>3, <1>4, <2>1 DEF ChainFailures
  <2>. QED BY <2>2
<1>5. CASE i = Len(s) + 1
  <2>1. t[i] = e /\ (i # 1 => t[i - 1] = s[Len(s)])
    BY <1>1, <1>5
  <2>2. i = 1 <=> s = <<>>
    BY <1>1, <1>5
  <2>. QED BY <1>1, <1>3, <1>5, <2>1, <2>2
<1>. QED BY <1>1, <1>3, <1>4, <1>5

(* What AppendEvent adds follows what the writer has seen. *)
LEMMA NextEventFields ==
    ASSUME TypeOK, NEW w \in Writers, Accepts(w)
    PROVE  LET e == NextEvent(w)
               s == seen[w]
           IN  /\ e \in EventType /\ e.sequence = Len(s) + 1
               /\ e.previous = (IF s = <<>> THEN 0 ELSE s[Len(s)].id)
               /\ e.from = (IF s = <<>> THEN "none" ELSE s[Len(s)].to)
               /\ s # <<>> => e.to \in Successors(s[Len(s)].to)
               /\ s = <<>> => e.to = "CREATED"
<1>1. NextEvent(w) \in EventType
  BY NextEventType
<1>2. CASE seen[w] = <<>>
  <2>1. NextEvent(w) = Event(1, "none", "CREATED", nextId, 0)
    BY <1>2 DEF NextEvent
  <2>. QED BY <1>1, <1>2, <2>1, EventIds
<1>3. CASE seen[w] # <<>>
  <2>1. NextEvent(w) = Event(Len(seen[w]) + 1, seen[w][Len(seen[w])].to, Target(w), nextId,
                             seen[w][Len(seen[w])].id)
    BY <1>3 DEF NextEvent, Last
  <2>2. Target(w) \in Successors(seen[w][Len(seen[w])].to)
    BY <1>3 DEF Accepts, Last
  <2>. QED BY <1>1, <1>3, <2>1, <2>2, EventIds
<1>. QED BY <1>2, <1>3

(* A step leaves the log as it is, loses its lines, or appends one that    *)
(* follows: the only three things that ever happen to it.                  *)
Extends(e) ==
    /\ log' = Append(log, e) /\ e \in EventType /\ UNCHANGED headLost
    /\ \/ /\ e.sequence = Len(log) + 1
          /\ e.previous = (IF log = <<>> THEN 0 ELSE log[Len(log)].id)
          /\ e.from = (IF log = <<>> THEN "none" ELSE log[Len(log)].to)
       \/ headLost
    /\ IF log = <<>> THEN headLost \/ e.to = "CREATED" ELSE e.to \in Successors(log[Len(log)].to)

LogStep == \/ UNCHANGED log /\ (headLost => headLost')
           \/ log' = <<>> /\ (headLost => headLost')
           \/ \E e \in EventType : Extends(e)

LEMMA LogSteps == TypeInv /\ LogInv /\ [Next]_vars => LogStep
<1>. SUFFICES ASSUME TypeInv, LogInv, [Next]_vars PROVE LogStep
  OBVIOUS
<1>. USE DEF TypeInv
<1>1. CASE \E w \in Writers : AppendEvent(w)
  <2>1. PICK w \in Writers : AppendEvent(w)
    BY <1>1
  <2>2. CASE torn
    BY <2>1, <2>2 DEF AppendEvent, LogStep
  <2>3. CASE ~torn
    <3>1. log' = Append(log, NextEvent(w)) /\ headLost' = headLost
      BY <2>1, <2>3 DEF AppendEvent, TypeOK
    <3>2. seen[w] = log \/ (headLost /\ log = <<>>)
      BY <2>1 DEF AppendEvent, Appending, LogInv, SeenInv
    <3>3. Extends(NextEvent(w)) /\ NextEvent(w) \in EventType
      BY <2>1, <3>1, <3>2, NextEventFields DEF AppendEvent, Extends
    <3>. QED BY <3>3 DEF LogStep
  <2>. QED BY <2>2, <2>3
<1>2. CASE Prune
  BY <1>2 DEF Prune, LogStep
<1>3. CASE \E w \in Writers : Writing(w) \/ TearEvent(w)
  <2>1. PICK w \in Writers : Writing(w) \/ TearEvent(w)
    BY <1>3
  <2>2. AppendEvent(w) \/ UNCHANGED <<log, headLost>>
    BY <2>1 DEF Writing, WriteManifest, ManifestTimeout, LockLog, LogTimeout,
       RefuseEvent, UnlockLog, Stamp, TearEvent, files, past
  <2>. QED BY <1>1, <2>2 DEF LogStep
<1>4. CASE Begin \/ \E p \in Procs : Working(p) \/ Heartbeat(p) \/ Resume(p)
  <2>1. PICK p \in Procs : Commanded(p)
    BY <1>4, BeginStep, WorkingStep, HeartbeatStep, ResumeStep
  <2>. QED BY <2>1 DEF LogStep, Commanded, CommandEffectOn, files
<1>5. CASE \E p \in Procs : Kill(p)
  BY <1>5 DEF Kill, files, LogStep
<1>6. CASE (\E j \in Janitors : Reconcile(j)) \/ LeaseExpires
  BY <1>6 DEF Reconcile, PlanExpiry, ApplyExpiry, LeaseExpires, files, past, LogStep
<1>7. CASE UNCHANGED vars
  BY <1>7 DEF vars, files, past, LogStep
<1>. QED BY <1>2, <1>3, <1>4, <1>5, <1>6, <1>7 DEF Next, Procs

(* verify_event_chain finds no failure in the log of a run, whatever is    *)
(* killed, torn, refused, pruned or written at the same time, as long as   *)
(* the log has not lost its beginning.                                     *)
THEOREM ChainsVerify == Spec => []ChainVerifies
<1>1. Init => ChainVerifies
  BY NoChainFailures DEF Init, ChainVerifies
<1>2. TypeInv /\ LogInv /\ ChainVerifies /\ [Next]_vars => ChainVerifies'
  <2>. SUFFICES ASSUME TypeInv, LogInv, ChainVerifies, [Next]_vars, ~headLost'
                PROVE  ChainFailures(log') = {}
    BY DEF ChainVerifies, ChainFailures
  <2>1. LogStep
    BY LogSteps
  <2>2. ChainFailures(log) = {} /\ ~headLost
    BY <2>1 DEF LogStep, Extends, ChainVerifies
  <2>3. CASE \E e \in EventType : Extends(e)
    BY <2>2, <2>3, ChainGrows DEF Extends, TypeInv, TypeOK
  <2>. QED BY <2>1, <2>2, <2>3, NoChainFailures DEF LogStep
<1>. QED BY <1>1, <1>2, TypeInit, TypeNext, LogInit, LogNext, PTL DEF Spec

-----------------------------------------------------------------------------
(* The refinement. *)

States(s) == [i \in DOMAIN s |-> s[i].to]

LEMMA StatesGrow ==
    ASSUME NEW s \in Seq(EventType), NEW e \in EventType
    PROVE  /\ States(Append(s, e)) = Append(States(s), e.to)
           /\ Len(States(s)) = Len(s)
           /\ s # <<>> => States(s) # <<>> /\ States(s)[Len(s)] = s[Len(s)].to
           /\ s = <<>> => States(s) = <<>>
<1>0. DOMAIN s = 1 .. Len(s) /\ Len(s) \in Nat /\ \A i \in 1 .. Len(s) : s[i] \in EventType
  OBVIOUS
<1>1. \A i \in 1 .. Len(s) : s[i].to \in RunState
  BY <1>0 DEF EventType
<1>2. States(s) \in Seq(RunState) /\ Len(States(s)) = Len(s)
  BY <1>0, <1>1 DEF States
<1>3. DOMAIN Append(s, e) = 1 .. Len(s) + 1
  OBVIOUS
<1>4. DOMAIN Append(States(s), e.to) = 1 .. Len(s) + 1
  BY <1>2
<1>5. \A i \in 1 .. Len(s) + 1 : Append(States(s), e.to)[i] = Append(s, e)[i].to
  BY <1>0, <1>1, <1>2 DEF States
<1>6. States(Append(s, e)) = Append(States(s), e.to)
  BY <1>2, <1>3, <1>4, <1>5 DEF States
<1>. QED BY <1>0, <1>2, <1>6 DEF States

(* The states in the log form one history that starts at CREATED and grows *)
(* along the transitions only, unless prune forgets it or its beginning is *)
(* lost.                                                                   *)
THEOREM HistoryRefinement == Spec => ImplementsRunHistory
<1>1. Init => History!Init
  <2>1. Init => States(log) = <<>>
    BY DEF Init, States
  <2>. QED BY <2>1 DEF Init, History!Init, States
<1>2. TypeInv /\ LogInv /\ [Next]_vars => [History!Next]_<<[i \in DOMAIN log |-> log[i].to], ~headLost>>
  <2>. SUFFICES ASSUME TypeInv, LogInv, [Next]_vars
                PROVE  \/ History!Next
                       \/ States(log') = States(log) /\ headLost' = headLost
    BY DEF States
  <2>1. LogStep /\ log \in Seq(EventType) /\ headLost \in BOOLEAN /\ headLost' \in BOOLEAN
    BY LogSteps, TypeNext DEF TypeInv, TypeOK
  <2>2. CASE UNCHANGED log /\ (headLost => headLost')
    BY <2>1, <2>2 DEF History!Next, History!LoseBeginning
  <2>3. CASE log' = <<>> /\ (headLost => headLost')
    <3>1. States(log') = <<>>
      BY <2>3 DEF States
    <3>. QED BY <2>1, <2>3, <3>1 DEF History!Next, History!Forget, History!LoseBeginning, States
  <2>4. CASE \E e \in EventType : Extends(e)
    <3>1. PICK e \in EventType : Extends(e)
      BY <2>4
    <3>2. /\ States(log') = Append(States(log), e.to) /\ headLost' = headLost /\ e.to \in RunState
          /\ IF States(log) = <<>> THEN headLost \/ e.to = "CREATED"
             ELSE e.to \in Successors(States(log)[Len(States(log))])
      BY <2>1, <3>1, StatesGrow DEF Extends, EventType
    <3>3. \A t : Successors(t) = History!Successors(t)
      BY DEF Successors, History!Successors, Ended, History!Ended
    <3>4. IF States(log) = <<>> THEN headLost \/ e.to = "CREATED"
          ELSE e.to \in History!Successors(States(log)[Len(States(log))])
      BY <3>2, <3>3
    <3>5. History!Record(e.to)
      BY <3>2, <3>4 DEF History!Record, States
    <3>. QED BY <3>2, <3>5 DEF History!Next, RunState, History!RunState
  <2>. QED BY <2>1, <2>2, <2>3, <2>4 DEF LogStep
<1>. QED BY <1>1, <1>2, TypeInit, TypeNext, LogInit, LogNext, PTL
         DEF Spec, ImplementsRunHistory, History!Spec


-----------------------------------------------------------------------------
(* One invocation at a time.  As long as nothing has disturbed the run, at *)
(* most one process or reconciler is engaged in it, so at most one writer  *)
(* is in a write: a heartbeat writes only while its build waits for packer *)
(* and the build's own thread writes nothing.                              *)

Engaged(a) == IF a \in Procs THEN Live(a) ELSE ~Step(Main(a), "idle")
Alone == \A a, b \in Procs \cup Janitors : Engaged(a) /\ Engaged(b) => a = b
Own ==
    \A p \in Procs :
        /\ at[p] \in {"idle", "resume", "dead"} => Step(Main(p), "idle")
        /\ ~Step(Beat(p), "idle") => at[p] = "packer" /\ Step(Main(p), "idle")
Unstarted ==
    at[Starter] = "idle" =>
        /\ manifest.status = "none" /\ log = <<>> /\ done[Starter] = 0
        /\ \A p \in Procs : at[p] = "idle"
        /\ \A j \in Janitors : Step(Main(j), "idle")
SoleWriter == ~disturbed => Alone /\ Own /\ Unstarted /\ ~torn /\ ~headLost

(* What is written: launch-ready only after the three stages, the          *)
(* heartbeat's phase, the reconciler's verdict.                            *)
WriteInv ==
    /\ manifest.status = "ready" => manifest.done = 3
    /\ \A w \in Writers : writing[w].status = "ready" => writing[w].done = 3
    /\ \A w \in Writers : ~Step(w, "idle") => writing[w].status # "none"
    /\ \A p \in Procs : ~Step(Beat(p), "idle") =>
          writing[Beat(p)].status = "active" /\ writing[Beat(p)].phase = "packer-build"
    /\ \A j \in Janitors : ~Step(Main(j), "idle") =>
          /\ writing[Main(j)].step # "manifest"
          /\ writing[Main(j)].status = "failed" /\ writing[Main(j)].phase = "lease-expired"
    /\ pruner = "unlinked" => disturbed

SoleInv == SoleWriter /\ WriteInv

LEMMA Mains ==
    /\ \A p, q \in Procs \cup Janitors : Main(p) = Main(q) => p = q
    /\ \A p \in Procs \cup Janitors, q \in Procs : Main(p) # Beat(q)
    /\ \A p, q \in Procs : Beat(p) = Beat(q) => p = q
    /\ Starter \in Procs
  BY DEF Main, Beat, Procs

LEMMA LoneWriter ==
    ASSUME TypeOK, SoleWriter, ~disturbed, NEW w \in Writers, ~Step(w, "idle")
    PROVE  /\ w[2] \in Procs \cup Janitors /\ Engaged(w[2])
           /\ \A v \in Writers \ {w} : Step(v, "idle")
           /\ \A q \in Procs : q # w[2] => at[q] \in {"idle", "dead", "end"}
           /\ at[Starter] # "idle"
<1>1. ASSUME NEW v \in Writers, ~Step(v, "idle")
      PROVE  v[2] \in Procs \cup Janitors /\ Engaged(v[2])
  <2>1. CASE \E p \in Procs : v = Main(p) \/ v = Beat(p)
    BY <1>1, <2>1, WriterNames DEF SoleWriter, Own, Engaged, Live, Finished, Step
  <2>2. CASE \E j \in Janitors : v = Main(j)
    BY <1>1, <2>2, WriterNames DEF Engaged
  <2>. QED BY <2>1, <2>2, WriterCases
<1>2. ASSUME NEW v \in Writers \ {w}, ~Step(v, "idle")
      PROVE  FALSE
  <2>1. v[2] = w[2]
    BY <1>1, <1>2 DEF SoleWriter, Alone
  <2>2. PICK p \in Procs : {v, w} = {Main(p), Beat(p)}
    BY <1>2, <2>1, WriterCases, WriterNames
  <2>. QED BY <1>2, <2>2 DEF SoleWriter, Own
<1>3. ASSUME NEW q \in Procs, q # w[2]
      PROVE  at[q] \in {"idle", "dead", "end"}
  <2>1. ~Engaged(q)
    BY <1>1, <1>3 DEF SoleWriter, Alone
  <2>. QED BY <2>1 DEF Engaged, Live, Finished
<1>4. at[Starter] # "idle"
  <2>1. CASE w[2] \in Procs
    BY <1>1, <2>1 DEF SoleWriter, Unstarted, Engaged, Live
  <2>2. CASE w[2] \notin Procs
    <3>1. PICK j \in Janitors : w = Main(j)
      BY <2>2, WriterCases, WriterNames
    <3>. QED BY <3>1 DEF SoleWriter, Unstarted
  <2>. QED BY <2>1, <2>2
<1>. QED BY <1>1, <1>2, <1>3, <1>4

LEMMA NobodyEngaged ==
    ASSUME TypeOK, SoleWriter, ~disturbed, \A a \in Procs \cup Janitors : ~Engaged(a)
    PROVE  \A w \in Writers : Step(w, "idle")
  BY LoneWriter

LEMMA BusyEngaged ==
    ASSUME NEW A \in SUBSET (Procs \cup Janitors)
    PROVE  Busy(A) <=> \E a \in A : Engaged(a)
  BY WriterNames DEF Busy, Engaged

(* A step of one writer. *)
WriterEffect(w) ==
    /\ ~Step(w, "idle")
    /\ \A v \in Writers \ {w} : writing'[v] = writing[v]
    /\ \/ writing'[w] = Idle
       \/ /\ writing'[w].status = writing[w].status /\ writing'[w].phase = writing[w].phase
          /\ writing'[w].step \notin {"idle", "manifest"}
          /\ writing'[w].done \in {writing[w].done, Kept(writing[w].done)}
    /\ UNCHANGED <<at, done, pruner>> /\ (disturbed => disturbed')
    /\ \/ manifest' = manifest
       \/ manifest'.status = writing[w].status
          /\ manifest'.done \in {writing[w].done, Kept(writing[w].done)}
    /\ \/ disturbed'
       \/ (torn' => torn) /\ (headLost' => headLost \/ torn)

LEMMA WriterEffects ==
    ASSUME TypeOK, NEW w \in Writers, Writing(w) \/ TearEvent(w)
    PROVE  WriterEffect(w)
<1>. USE DEF WriterEffect, Step, TypeOK, WriteType
<1>0. writing[w] \in WriteType
  OBVIOUS
<1>1. CASE WriteManifest(w)
  BY <1>1 DEF WriteManifest, procs, env, past, Manifest
<1>2. CASE ManifestTimeout(w)
  BY <1>2 DEF ManifestTimeout, Stop, procs, env, files
<1>3. CASE LockLog(w)
  BY <1>3 DEF LockLog, Move, procs, env, files, past
<1>4. CASE LogTimeout(w)
  BY <1>4 DEF LogTimeout, Stop, procs, env, files
<1>5. CASE AppendEvent(w)
  BY <1>5 DEF AppendEvent, Appending, procs, env
<1>6. CASE RefuseEvent(w)
  BY <1>6 DEF RefuseEvent, Appending, Move, procs, env, files
<1>7. CASE UnlockLog(w)
  <2>1. /\ ~Step(w, "idle") /\ writing'[w] = (IF Unlogged(w) THEN Idle ELSE [writing[w] EXCEPT !.step = "stamp"])
        /\ \A v \in Writers \ {w} : writing'[v] = writing[v]
    BY <1>7 DEF UnlockLog, Stop, Move
  <2>. QED BY <1>0, <1>7, <2>1 DEF UnlockLog, procs, env, files, past
<1>8. CASE Stamp(w)
  BY <1>8 DEF Stamp, Stop, procs, env, past, Manifest
<1>9. CASE TearEvent(w)
  BY <1>9 DEF TearEvent, Appending, Move, procs
<1>. QED BY <1>1, <1>2, <1>3, <1>4, <1>5, <1>6, <1>7, <1>8, <1>9 DEF Writing

LEMMA WritingKeepsSole ==
    ASSUME TypeOK, SoleInv, NEW w \in Writers, WriterEffect(w)
    PROVE  SoleInv'
<1>. USE IdleFields DEF SoleInv
<1>1. \A v \in Writers : /\ Step(v, "idle") => Step(v, "idle")'
                         /\ v # w => writing'[v] = writing[v]
  BY DEF WriterEffect, Step
<1>2. SoleWriter'
  <2>. SUFFICES ASSUME ~disturbed' PROVE Alone' /\ Own' /\ Unstarted' /\ ~torn' /\ ~headLost'
    BY DEF SoleWriter
  <2>1. ~disturbed /\ Alone /\ Own /\ Unstarted /\ ~torn /\ ~headLost /\ UNCHANGED at
    BY DEF SoleWriter, WriterEffect
  <2>2. \A a \in Procs \cup Janitors : Engaged(a)' => Engaged(a)
    BY <1>1, <2>1, WriterNames DEF Engaged, Live, Finished
  <2>3. Alone'
    BY <2>1, <2>2 DEF Alone
  <2>4. Own'
    BY <1>1, <2>1, WriterNames DEF Own
  <2>5. Unstarted'
    BY <2>1, LoneWriter DEF Unstarted, WriterEffect
  <2>6. ~torn' /\ ~headLost'
    BY <2>1 DEF WriterEffect
  <2>. QED BY <2>3, <2>4, <2>5, <2>6
<1>3. WriteInv'
  <2>1. Kept(3) = 3 /\ Idle.status = "none"
    BY DEF Kept, NoCheckpoint, Idle, Write
  <2>2. writing[w].status = "ready" => writing[w].done = 3
    BY DEF WriteInv
  <2>3. manifest'.status = "ready" => manifest'.done = 3
    BY <2>1, <2>2 DEF WriteInv, WriterEffect
  <2>4. /\ \A v \in Writers : writing'[v].status = "ready" => writing'[v].done = 3
        /\ \A v \in Writers : ~Step(v, "idle")' => writing'[v].status # "none"
    BY <1>1, <2>1, <2>2 DEF WriteInv, WriterEffect, Step
  <2>5. \A p \in Procs : ~Step(Beat(p), "idle")' =>
          writing'[Beat(p)].status = "active" /\ writing'[Beat(p)].phase = "packer-build"
    BY <1>1, WriterNames DEF WriteInv, WriterEffect, Step
  <2>6. \A j \in Janitors : ~Step(Main(j), "idle")' =>
          /\ writing'[Main(j)].step # "manifest"
          /\ writing'[Main(j)].status = "failed" /\ writing'[Main(j)].phase = "lease-expired"
    BY <1>1, WriterNames DEF WriteInv, WriterEffect, Step
  <2>. QED BY <2>3, <2>4, <2>5, <2>6 DEF WriteInv, WriterEffect
<1>. QED BY <1>2, <1>3

(* A step of one command: it goes to a place, and asks for a write or not. *)
Acts(p, to) ==
    /\ Step(Main(p), "idle") /\ Goto(p, to)
    /\ \A w \in Writers \ {Main(p)} : writing'[w] = writing[w]
    /\ UNCHANGED <<files, seen, plan, pruner, refused, headLost>>
    /\ \A q \in Procs \ {p} : done'[q] = done[q]
    /\ (disturbed => disturbed')
    /\ at[p] = "packer" /\ ~Step(Beat(p), "idle") => disturbed'
AsksFor(p, to, status, phase, stages) ==
    /\ Acts(p, to) /\ UNCHANGED done
    /\ writing'[Main(p)] = Write("manifest", status, phase, stages, 0)

LEMMA ActingKeepsSole ==
    ASSUME TypeOK, SoleInv, NEW p \in Procs, NEW to \in Places, Acts(p, to),
           ~disturbed' => Live(p) \/ \A a \in Procs \cup Janitors : ~Engaged(a),
           to \notin {"idle", "dead"},
           \/ writing' = writing
           \/ to # "resume" /\ \E s \in Status \ {"none"}, f \in Phase, n \in 0 .. 4 :
                 AsksFor(p, to, s, f, n) /\ (s = "ready" => n = 3),
           p # Starter /\ ~disturbed' => at[Starter] # "idle"
    PROVE  SoleInv'
<1>. USE DEF SoleInv
<1>1. /\ at' \in [Procs -> Places] /\ at'[p] = to
      /\ \A q \in Procs \ {p} : at'[q] = at[q]
  BY GotoEffect DEF Acts
<1>2. SoleWriter'
  <2>. SUFFICES ASSUME ~disturbed' PROVE Alone' /\ Own' /\ Unstarted' /\ ~torn' /\ ~headLost'
    BY DEF SoleWriter
  <2>1. ~disturbed /\ Alone /\ Own /\ Unstarted /\ ~torn /\ ~headLost /\ UNCHANGED <<files, headLost>>
    BY DEF SoleWriter, Acts
  <2>2. \A a \in (Procs \cup Janitors) \ {p} : ~Engaged(a)
    BY <2>1 DEF Alone, Engaged
  <2>3. \A a \in (Procs \cup Janitors) \ {p} : ~Engaged(a)'
    BY <1>1, <2>2, Mains, WriterNames DEF Engaged, Live, Finished, Acts, Step
  <2>4. Alone'
    BY <2>3 DEF Alone
  <2>5. Step(Beat(p), "idle") /\ \A q \in Procs : writing'[Beat(q)] = writing[Beat(q)]
    BY <2>1, Mains, WriterNames DEF Own, Acts
  <2>6. Own'
    BY <1>1, <2>1, <2>5, Mains, WriterNames DEF Own, Acts, Step
  <2>7. at'[Starter] # "idle"
    BY <1>1, Mains
  <2>. QED BY <2>1, <2>4, <2>6, <2>7 DEF files, Unstarted
<1>3. WriteInv'
  <2>1. \A v \in Writers : \/ writing'[v] = writing[v]
                           \/ /\ v = Main(p) /\ writing'[v].status # "none"
                              /\ writing'[v].status = "ready" => writing'[v].done = 3
    <3>1. CASE writing' = writing
      BY <3>1
    <3>2. CASE writing' # writing
      <4>1. PICK s \in Status \ {"none"}, f \in Phase, n \in 0 .. 4 :
                AsksFor(p, to, s, f, n) /\ (s = "ready" => n = 3)
        BY <3>2
      <4>2. writing'[Main(p)].status = s /\ writing'[Main(p)].done = n
        BY <4>1 DEF AsksFor, Write
      <4>. QED BY <4>1, <4>2 DEF AsksFor, Acts
    <3>. QED BY <3>1, <3>2
  <2>2. /\ \A q \in Procs : writing'[Beat(q)] = writing[Beat(q)]
        /\ \A j \in Janitors : writing'[Main(j)] = writing[Main(j)]
    BY Mains, WriterNames DEF Acts
  <2>3. UNCHANGED <<manifest, pruner>> /\ (disturbed => disturbed')
    BY DEF Acts, files
  <2>. QED BY <2>1, <2>2, <2>3, WriterNames DEF WriteInv, Step
<1>. QED BY <1>2, <1>3

-----------------------------------------------------------------------------
(* What the log says while a command is at a place: its last state, "none" *)
(* for an empty log.                                                       *)

LogState == IF log = <<>> THEN "none" ELSE Last(log).to
Follows(s, t) == t \in Successors(IF s = "none" THEN "CREATED" ELSE s)
MayFollow(s, t) == Follows(s, t) \/ (s = "RETRYING" /\ t = "READY")

(* n: the stages that the command counts as completed. *)
Expects(place, n, s) ==
    \/ place = "stage" /\ n = 0 /\ s \in {"none", "RETRYING"}
    \/ place = "stage" /\ n = 1 /\ s \in {"DIAGNOSING", "RETRYING"}
    \/ place = "stage" /\ n = 2 /\ s \in {"PLANNED", "RETRYING"}
    \/ place = "stage" /\ n = 3 /\ s \in {"PREFLIGHT_PASSED", "RETRYING", "READY"}
    \/ place = "staging" /\ n = 0 /\ s = "DIAGNOSING"
    \/ place = "staging" /\ n = 1 /\ s = "PLANNED"
    \/ place = "staging" /\ n = 2 /\ s = "PREFLIGHT_PASSED"
    \/ place = "build" /\ s \in {"none", "BUILDING"}
    \/ place \in {"packer", "built"} /\ s = "BUILDING"
    \/ place \in {"probing", "checking"} /\ s = "VERIFYING"
    \/ place = "rejected" /\ s = "FAILED"
    \/ place = "verified" /\ s \in {"BUILDING", "EVIDENCE_READY"}
    \/ place \in {"idle", "resume", "end", "dead"}

Whereabouts(p) ==
    Step(Main(p), "idle") =>
        /\ Expects(at[p], done[p], LogState)
        /\ at[p] = "resume" =>
              \/ manifest.status = "failed" /\ LogState = "FAILED"
              \/ manifest.status = "ready" /\ done[p] = 3 /\ LogState \in {"READY", "RETRYING"}
Bound(p) == Whereabouts(p) /\ (at[p] = "idle" => LogState = "none" /\ done[p] = 0)

(* A command goes on without a word, or asks for a write that the log will *)
(* accept.                                                                 *)
Walks(p, to) ==
    /\ Acts(p, to) /\ writing' = writing
    /\ to \notin {"packer", "probing", "checking"}
    /\ Bound(p) => Expects(to, done'[p], LogState)
Orders(p, to) ==
    \E s \in Status \ {"none"}, f \in Phase, n \in 0 .. 4 :
        /\ AsksFor(p, to, s, f, n) /\ (s = "ready" => n = 3)
        /\ f = "launch-retry" => at[p] = "resume"
        /\ Bound(p) => /\ MayFollow(LogState, StateOf(s, f))
                       /\ Expects(to, done[p], StateOf(s, f))
Proceeds(p) ==
    /\ at[p] \notin {"dead", "end"} /\ (at[p] = "idle" => p = Starter)
    /\ \E to \in Places \ {"idle", "resume", "dead"} : Walks(p, to) \/ Orders(p, to)

LEMMA Targets ==
    /\ StateOf("active", "launch-retry") = "RETRYING"
    /\ StateOf("active", Stages[1]) = "DIAGNOSING"
    /\ StateOf("active", Stages[2]) = "PLANNED"
    /\ StateOf("active", Stages[3]) = "PREFLIGHT_PASSED"
    /\ StateOf("active", "launch-build") = "BUILDING"
    /\ StateOf("active", "packer-build") = "BUILDING"
    /\ StateOf("active", "probe-setup") = "VERIFYING"
    /\ StateOf("completed", "probe-cleanup") = "EVIDENCE_READY"
    /\ StateOf("completed", "release-complete") = "APPROVED"
    /\ \A f \in Phase : StateOf("failed", f) = "FAILED" /\ StateOf("ready", f) = "READY"
<1>1. Stages[1] = "launch-doctor" /\ Stages[2] = "launch-plan" /\ Stages[3] = "launch-preflight"
  BY DEF Stages
<1>2. /\ StateOf("active", "launch-retry") = "RETRYING"
      /\ StateOf("active", "launch-doctor") = "DIAGNOSING"
      /\ StateOf("active", "launch-plan") = "PLANNED"
      /\ StateOf("active", "launch-preflight") = "PREFLIGHT_PASSED"
  BY DEF StateOf, PhaseState
<1>3. /\ StateOf("active", "launch-build") = "BUILDING"
      /\ StateOf("active", "packer-build") = "BUILDING"
      /\ StateOf("active", "probe-setup") = "VERIFYING"
  BY DEF StateOf, PhaseState
<1>4. /\ StateOf("completed", "probe-cleanup") = "EVIDENCE_READY"
      /\ StateOf("completed", "release-complete") = "APPROVED"
      /\ \A f \in Phase : StateOf("failed", f) = "FAILED" /\ StateOf("ready", f) = "READY"
  BY DEF StateOf
<1>. QED BY <1>1, <1>2, <1>3, <1>4

LEMMA Followers ==
    /\ MayFollow("FAILED", "RETRYING") /\ MayFollow("FAILED", "FAILED")
    /\ \A s \in {"none", "RETRYING"} : MayFollow(s, "DIAGNOSING")
    /\ \A s \in {"DIAGNOSING", "RETRYING"} : MayFollow(s, "PLANNED")
    /\ \A s \in {"PLANNED", "RETRYING"} : MayFollow(s, "PREFLIGHT_PASSED")
    /\ \A s \in {"PREFLIGHT_PASSED", "RETRYING", "READY"} :
          MayFollow(s, "READY") /\ MayFollow(s, "BUILDING")
    /\ \A s \in {"none", "BUILDING"} : MayFollow(s, "BUILDING")
    /\ \A s \in {"none", "BUILDING"} : MayFollow(s, "VERIFYING")
    /\ MayFollow("VERIFYING", "EVIDENCE_READY")
    /\ \A s \in {"BUILDING", "EVIDENCE_READY"} : MayFollow(s, "APPROVED")
    /\ \A s \in {"none", "CREATED", "DIAGNOSING", "PLANNED", "PREFLIGHT_PASSED", "READY",
                 "BUILDING", "VERIFYING", "EVIDENCE_READY", "RETRYING", "FAILED"} :
          MayFollow(s, "FAILED") /\ Follows(s, "FAILED")
  BY DEF MayFollow, Follows, Successors, Ended

LEMMA CommandOrders ==
    ASSUME TypeOK, NEW p \in Procs, NEW from \in Places \ {"packer", "dead", "end"},
           NEW s \in Status \ {"none"}, NEW f \in Phase, NEW n \in 0 .. 4,
           NEW to \in Places \ {"idle", "resume", "dead"},
           Command(p, from, s, f, n, to), UNCHANGED done, s = "ready" => n = 3,
           from = "idle" => p = Starter, f = "launch-retry" => from = "resume",
           Bound(p) => MayFollow(LogState, StateOf(s, f)) /\ Expects(to, done[p], StateOf(s, f))
    PROVE  Proceeds(p)
<1>1. at[p] = from /\ Step(Main(p), "idle") /\ Goto(p, to) /\ Ask(Main(p), s, f, n)
  BY DEF Command, At
<1>2. Main(p) \in Writers
  BY WriterNames
<1>3. /\ writing'[Main(p)] = Write("manifest", s, f, n, 0)
      /\ \A w \in Writers \ {Main(p)} : writing'[w] = writing[w]
  BY <1>1, <1>2 DEF Ask, TypeOK
<1>4. UNCHANGED <<files, seen, plan, pruner, refused, headLost, disturbed, done>>
  BY DEF Command, past
<1>5. Acts(p, to)
  BY <1>1, <1>3, <1>4 DEF Acts
<1>6. AsksFor(p, to, s, f, n)
  BY <1>3, <1>5 DEF AsksFor
<1>7. Orders(p, to)
  BY <1>1, <1>6 DEF Orders
<1>. QED BY <1>1, <1>7 DEF Proceeds

LEMMA SilentWalks ==
    ASSUME TypeOK, NEW p \in Procs, NEW from \in Places \ {"packer", "dead", "end"},
           NEW to \in Places \ {"idle", "resume", "dead", "packer", "probing", "checking"},
           Silently(p, from, to), \A q \in Procs \ {p} : done'[q] = done[q],
           from = "idle" => p = Starter,
           Bound(p) => Expects(to, done'[p], LogState)
    PROVE  Proceeds(p)
<1>1. Acts(p, to) /\ at[p] = from /\ writing' = writing
  BY DEF Silently, At, Acts, past
<1>. QED BY <1>1 DEF Walks, Proceeds

LEMMA BeginProceeds == ASSUME TypeInv, Begin PROVE Proceeds(Starter)
<1>1. /\ "active" \in Status \ {"none"} /\ "probe-setup" \in Phase /\ NoCheckpoint \in 0 .. 4
      /\ "idle" \in Places \ {"packer", "dead", "end"}
      /\ {"stage", "build"} \subseteq
            Places \ {"idle", "resume", "dead", "packer", "probing", "checking"}
      /\ "checking" \in Places \ {"idle", "resume", "dead"}
  BY DEF Status, Phase, NoCheckpoint, Places
<1>2. Starter \in Procs /\ UNCHANGED done
  BY Mains DEF Begin
<1>3. CASE Command(Starter, "idle", "active", "probe-setup", NoCheckpoint, "checking")
  <2>1. at[Starter] = "idle"
    BY <1>3 DEF Command, At
  <2>2. Bound(Starter) => /\ MayFollow(LogState, StateOf("active", "probe-setup"))
                          /\ Expects("checking", done[Starter], StateOf("active", "probe-setup"))
    BY <2>1, Targets, Followers DEF Bound, Expects
  <2>. QED BY <1>1, <1>2, <1>3, <2>2, CommandOrders DEF TypeInv
<1>4. CASE Silently(Starter, "idle", "build")
  <2>1. Bound(Starter) => Expects("build", done'[Starter], LogState)
    BY <1>4 DEF Bound, Expects, Silently, At
  <2>. QED BY <1>1, <1>2, <1>4, <2>1, SilentWalks DEF TypeInv
<1>5. CASE Silently(Starter, "idle", "stage")
  <2>1. Bound(Starter) => Expects("stage", done'[Starter], LogState)
    BY <1>2, <1>5 DEF Bound, Expects, Silently, At
  <2>. QED BY <1>1, <1>2, <1>5, <2>1, SilentWalks DEF TypeInv
<1>. QED BY <1>3, <1>4, <1>5 DEF Begin

LEMMA WorkingProceeds == ASSUME TypeInv, NEW p \in Procs, Working(p) PROVE Proceeds(p)
<1>. USE DEF TypeInv
<1>1. /\ {"active", "failed", "ready", "completed"} \subseteq Status \ {"none"}
      /\ {"launch-retry", "launch-ready", "launch-build", "packer-build", "probe-setup",
          "probe-cleanup", "clean-boot-gate", "build-gate", "release-complete"} \subseteq Phase
      /\ NoCheckpoint \in 0 .. 4
      /\ {"stage", "staging", "build", "end", "packer", "built", "probing", "verified", "rejected"}
            \subseteq Places \ {"idle", "resume", "dead"}
      /\ {"stage", "build", "built", "verified", "end"}
            \subseteq Places \ {"idle", "resume", "dead", "packer", "probing", "checking"}
      /\ {"resume", "stage", "staging", "build", "built", "probing", "checking", "rejected",
          "verified"} \subseteq Places \ {"packer", "dead", "end"}
  BY DEF Status, Phase, NoCheckpoint, Places
<1>2. done[p] \in 0 .. 3 /\ done[p] \in 0 .. 4 /\ Len(Stages) = 3
  BY StagePhases DEF TypeOK
<1>3. ASSUME NEW n \in 0 .. 2, done[p] = n
      PROVE  LET t == StateOf("active", Stages[n + 1])
             IN  /\ Stages[n + 1] \in Phase \ {"launch-retry"}
                 /\ \A s : Expects("stage", n, s) => MayFollow(s, t)
                 /\ Expects("staging", n, t)
                 /\ \A s : Expects("staging", n, s) => MayFollow(s, "FAILED")
                                                       /\ Expects("stage", n + 1, s)
  <2>1. Stages[n + 1] \in Phase
    BY StagePhases
  <2>2. n = 0 \/ n = 1 \/ n = 2
    OBVIOUS
  <2>3. Stages[n + 1] # "launch-retry"
    BY <2>2 DEF Stages
  <2>. QED BY <2>1, <2>2, <2>3, Targets, Followers DEF Expects
<1>4. CASE Retry(p)
  <2>1. at[p] = "resume" /\ Step(Main(p), "idle")
    BY <1>4 DEF Retry, Command, Silently, At
  <2>2. CASE Retries
    <3>1. manifest.status = "ready" => State = "READY"
      BY Targets DEF State, TypeOK, ManifestType
    <3>2. Bound(p) => LogState = "FAILED"
      BY <2>1, <2>2, <3>1 DEF Bound, Whereabouts, Retries
    <3>3. Bound(p) => /\ MayFollow(LogState, StateOf("active", "launch-retry"))
                      /\ Expects("stage", done[p], StateOf("active", "launch-retry"))
      BY <1>2, <3>2, Targets, Followers DEF Expects
    <3>. QED BY <1>1, <1>2, <1>4, <2>2, <3>3, CommandOrders DEF Retry
  <2>3. CASE ~Retries
    <3>1. manifest.status = "failed" => State = "FAILED"
      BY Targets DEF State, TypeOK, ManifestType
    <3>2. Bound(p) => done[p] = 3 /\ LogState \in {"READY", "RETRYING"}
      BY <2>1, <2>3, <3>1 DEF Bound, Whereabouts, Retries
    <3>3. Bound(p) => Expects("stage", done'[p], LogState)
      BY <1>4, <3>2 DEF Expects, Retry
    <3>. QED BY <1>1, <1>4, <2>3, <3>3, SilentWalks DEF Retry
  <2>. QED BY <2>2, <2>3
<1>5. CASE BeginStage(p)
  <2>1. done[p] \in 0 .. 2 /\ at[p] = "stage" /\ Step(Main(p), "idle")
    BY <1>2, <1>5 DEF BeginStage, Command, At
  <2>2. PICK n \in 0 .. 2 : done[p] = n
    BY <2>1
  <2>3. Bound(p) => Expects("stage", n, LogState)
    BY <2>1, <2>2 DEF Bound, Whereabouts
  <2>4. Stages[n + 1] \in Phase \ {"launch-retry"}
    BY <1>3, <2>2
  <2>5. Bound(p) => /\ MayFollow(LogState, StateOf("active", Stages[n + 1]))
                    /\ Expects("staging", n, StateOf("active", Stages[n + 1]))
    BY <1>3, <2>2, <2>3
  <2>6. Command(p, "stage", "active", Stages[n + 1], n, "staging") /\ UNCHANGED done
    BY <1>5, <2>2 DEF BeginStage
  <2>7. n \in 0 .. 4 /\ "active" # "ready" /\ "stage" # "idle"
    OBVIOUS
  <2>. QED BY <1>1, <2>2, <2>4, <2>5, <2>6, <2>7, CommandOrders
<1>6. CASE StagePasses(p)
  <2>1. at[p] = "staging" /\ Step(Main(p), "idle") /\ done'[p] = done[p] + 1
        /\ \A q \in Procs \ {p} : done'[q] = done[q]
    BY <1>6 DEF StagePasses, Silently, At, Completed, TypeOK
  <2>2. PICK n \in 0 .. 2 : done[p] = n
    BY <1>2, <2>1 DEF StageInv
  <2>3. Bound(p) => Expects("stage", done'[p], LogState)
    BY <1>3, <2>1, <2>2 DEF Bound, Whereabouts
  <2>. QED BY <1>1, <1>6, <2>1, <2>3, SilentWalks DEF StagePasses
<1>7. CASE StageFails(p)
  <2>1. at[p] = "staging" /\ Step(Main(p), "idle")
    BY <1>7 DEF StageFails, Command, At
  <2>2. PICK n \in 0 .. 2 : done[p] = n
    BY <1>2, <2>1 DEF StageInv
  <2>3. Bound(p) => Expects("staging", n, LogState)
    BY <2>1, <2>2 DEF Bound, Whereabouts
  <2>4. Stages[n + 1] \in Phase \ {"launch-retry"}
    BY <1>3, <2>2
  <2>5. Bound(p) => MayFollow(LogState, StateOf("failed", Stages[n + 1]))
                    /\ Expects("end", done[p], StateOf("failed", Stages[n + 1]))
    BY <1>3, <2>2, <2>3, <2>4, Targets DEF Expects
  <2>6. Command(p, "staging", "failed", Stages[n + 1], n, "end") /\ UNCHANGED done
    BY <1>7, <2>2 DEF StageFails
  <2>7. n \in 0 .. 4 /\ "failed" # "ready" /\ "staging" # "idle"
    OBVIOUS
  <2>. QED BY <1>1, <2>4, <2>5, <2>6, <2>7, CommandOrders
<1>8. CASE StagesOver(p)
  <2>1. at[p] = "stage" /\ Step(Main(p), "idle") /\ done[p] = 3 /\ UNCHANGED done
    BY <1>2, <1>8 DEF StagesOver, Command, At
  <2>2. Bound(p) => LogState \in {"PREFLIGHT_PASSED", "RETRYING", "READY"}
    BY <2>1 DEF Bound, Whereabouts, Expects
  <2>3. Bound(p) => /\ MayFollow(LogState, StateOf("ready", "launch-ready"))
                    /\ Expects("end", done[p], StateOf("ready", "launch-ready"))
                    /\ MayFollow(LogState, StateOf("active", "launch-build"))
                    /\ Expects("build", done[p], StateOf("active", "launch-build"))
    BY <1>1, <2>2, Targets, Followers DEF Expects
  <2>. QED BY <1>1, <1>2, <1>8, <2>1, <2>3, CommandOrders DEF StagesOver
<1>9. CASE BuildReturns(p)
  <2>1. Bound(p) => Expects("end", done'[p], LogState)
    BY DEF Expects
  <2>. QED BY <1>1, <1>9, <2>1, SilentWalks DEF BuildReturns
<1>10. CASE StartPacker(p)
  <2>1. at[p] = "build" /\ Step(Main(p), "idle") /\ UNCHANGED done
    BY <1>10 DEF StartPacker, Command, At
  <2>2. Bound(p) => /\ MayFollow(LogState, StateOf("active", "packer-build"))
                    /\ Expects("packer", done[p], StateOf("active", "packer-build"))
    BY <2>1, Targets, Followers DEF Bound, Whereabouts, Expects
  <2>. QED BY <1>1, <1>10, <2>1, <2>2, CommandOrders DEF StartPacker
<1>11. CASE PackerSucceeds(p)
  <2>1. at[p] = "packer" /\ Step(Main(p), "idle") /\ UNCHANGED <<done, writing>>
    BY <1>11 DEF PackerSucceeds, At
  <2>2. Acts(p, "built")
    BY <1>11 DEF PackerSucceeds, Acts, At, Late, env
  <2>3. Bound(p) => Expects("built", done'[p], LogState)
    BY <2>1 DEF Bound, Whereabouts, Expects
  <2>. QED BY <1>1, <2>1, <2>2, <2>3 DEF Walks, Proceeds
<1>12. CASE PackerFails(p)
  <2>1. at[p] = "packer" /\ Step(Main(p), "idle") /\ UNCHANGED done
    BY <1>12 DEF PackerFails, At
  <2>2. /\ writing'[Main(p)] = Write("manifest", "failed", "packer-build", NoCheckpoint, 0)
        /\ \A w \in Writers \ {Main(p)} : writing'[w] = writing[w]
    BY <1>12, WriterNames DEF PackerFails, Ask, TypeOK
  <2>3. Acts(p, "end")
    BY <1>12, <2>2 DEF PackerFails, Acts, At, Late
  <2>4. AsksFor(p, "end", "failed", "packer-build", NoCheckpoint)
    BY <2>1, <2>2, <2>3 DEF AsksFor
  <2>5. Bound(p) => /\ MayFollow(LogState, StateOf("failed", "packer-build"))
                    /\ Expects("end", done[p], StateOf("failed", "packer-build"))
    BY <1>1, <2>1, Targets, Followers DEF Bound, Whereabouts, Expects
  <2>6. Orders(p, "end")
    BY <1>1, <2>4, <2>5 DEF Orders
  <2>. QED BY <1>1, <2>1, <2>6 DEF Proceeds
<1>13. CASE Probe(p)
  <2>1. at[p] = "built" /\ Step(Main(p), "idle") /\ UNCHANGED done
    BY <1>13 DEF Probe, Command, Silently, At
  <2>2. Bound(p) => /\ MayFollow(LogState, StateOf("active", "probe-setup"))
                    /\ Expects("probing", done[p], StateOf("active", "probe-setup"))
                    /\ Expects("verified", done'[p], LogState)
    BY <2>1, Targets, Followers DEF Bound, Whereabouts, Expects
  <2>. QED BY <1>1, <1>13, <2>1, <2>2, CommandOrders, SilentWalks DEF Probe
<1>14. CASE Verdict(p)
  <2>1. at[p] \in {"checking", "probing"} /\ Step(Main(p), "idle") /\ UNCHANGED done
    BY <1>14 DEF Verdict, Command, At
  <2>2. Bound(p) => LogState = "VERIFYING"
    BY <2>1 DEF Bound, Whereabouts, Expects
  <2>3. Bound(p) => /\ MayFollow(LogState, StateOf("failed", "probe-cleanup"))
                    /\ MayFollow(LogState, StateOf("completed", "probe-cleanup"))
                    /\ Expects("end", done[p], StateOf("failed", "probe-cleanup"))
                    /\ Expects("end", done[p], StateOf("completed", "probe-cleanup"))
                    /\ Expects("rejected", done[p], StateOf("failed", "probe-cleanup"))
                    /\ Expects("verified", done[p], StateOf("completed", "probe-cleanup"))
    BY <1>1, <2>2, Targets, Followers DEF Expects
  <2>4. PICK from \in {"checking", "probing"}, s \in {"completed", "failed"},
             to \in {"end", "verified", "rejected"} :
          /\ Command(p, from, s, "probe-cleanup", NoCheckpoint, to)
          /\ to = "verified" => s = "completed"
          /\ to = "rejected" => s = "failed"
    BY <1>14 DEF Verdict
  <2>5. Bound(p) => /\ MayFollow(LogState, StateOf(s, "probe-cleanup"))
                    /\ Expects(to, done[p], StateOf(s, "probe-cleanup"))
    BY <2>3, <2>4
  <2>. QED BY <1>1, <2>1, <2>4, <2>5, CommandOrders
<1>15. CASE GateFails(p)
  <2>1. PICK from \in {"rejected", "built", "verified"}, f \in {"clean-boot-gate", "build-gate"} :
          Command(p, from, "failed", f, NoCheckpoint, "end")
    BY <1>15 DEF GateFails
  <2>2. at[p] = from /\ Step(Main(p), "idle") /\ UNCHANGED done
    BY <1>15, <2>1 DEF GateFails, Command, At
  <2>3. Bound(p) => LogState \in {"FAILED", "BUILDING", "EVIDENCE_READY"}
    BY <2>2 DEF Bound, Whereabouts, Expects
  <2>4. Bound(p) => /\ MayFollow(LogState, StateOf("failed", f))
                    /\ Expects("end", done[p], StateOf("failed", f))
    BY <1>1, <2>3, Targets, Followers DEF Expects
  <2>. QED BY <1>1, <2>1, <2>2, <2>4, CommandOrders
<1>16. CASE Complete(p)
  <2>1. at[p] = "verified" /\ Step(Main(p), "idle") /\ UNCHANGED done
    BY <1>16 DEF Complete, Command, At
  <2>2. Bound(p) => /\ MayFollow(LogState, StateOf("completed", "release-complete"))
                    /\ Expects("end", done[p], StateOf("completed", "release-complete"))
    BY <2>1, Targets, Followers DEF Bound, Whereabouts, Expects
  <2>. QED BY <1>1, <1>16, <2>1, <2>2, CommandOrders DEF Complete
<1>. QED
  BY <1>4, <1>5, <1>6, <1>7, <1>8, <1>9, <1>10, <1>11, <1>12, <1>13, <1>14, <1>15, <1>16 DEF Working

-----------------------------------------------------------------------------
(* The flow of one invocation's writes, as long as nothing disturbs it: a  *)
(* write that waits for the log asks for a state that may follow the       *)
(* log's last one; a write past the log has been logged, or refused as a   *)
(* launch that was ready before it was retried; the manifest under a write *)
(* says what is being written, and the command is where that leads.        *)

Reached == {"CREATED", "DIAGNOSING", "PLANNED", "PREFLIGHT_PASSED", "READY", "BUILDING",
            "VERIFYING", "EVIDENCE_READY", "APPROVED", "RETRYING", "FAILED"}

Asked == \A w \in Writers : writing[w].step \in {"manifest", "lock", "append"} =>
            MayFollow(LogState, Target(w))
Answered == \A w \in Writers : writing[w].step \in {"unlock", "stamp"} =>
            \/ LogState = Target(w)
            \/ LogState = "RETRYING" /\ Target(w) = "READY" /\ <<LogState, Target(w)>> \in refused
Under == \A w \in Writers : writing[w].step \in {"lock", "append", "unlock", "stamp"} =>
            /\ w[2] \in Procs => /\ manifest.status = writing[w].status
                                 /\ manifest.phase = writing[w].phase
                                 /\ manifest.lease = (manifest.status = "active")
            /\ w[2] \notin Procs => manifest.status = "active"
Bearings == \A p \in Procs :
            /\ Whereabouts(p)
            /\ ~Step(Main(p), "idle") => Expects(at[p], done[p], Target(Main(p)))
Over == /\ LogState \in Reached \cup {"none"}
        /\ LogState = "APPROVED" => manifest.status = "completed"
StateLogged == log # <<>> /\ (State = LogState \/ <<LogState, State>> \in refused)
Settled == manifest.status \notin {"none", "active"} =>
            (\E p \in Procs : HalfWritten(Main(p))) \/ StateLogged
Stamped == Logged(manifest.stamp) /\ \A w \in Writers : Logged(writing[w].id)

Flow == Asked /\ Answered /\ Under /\ Bearings /\ Over /\ Settled /\ Stamped
FlowInv == RefusesOnlyReady /\ (~disturbed => Flow) /\ LiveRunIsActive

LEMMA SameLogState == UNCHANGED log => LogState' = LogState
  BY DEF LogState, Last

LEMMA GrownLogState ==
    ASSUME NEW e \in EventType, TypeOK, log' = Append(log, e)
    PROVE  LogState' = e.to /\ log' # <<>>
<1>1. Len(log) \in Nat /\ Len(log') = Len(log) + 1 /\ log'[Len(log) + 1] = e /\ log' # <<>>
  BY DEF TypeOK
<1>. QED BY <1>1 DEF LogState, Last

LEMMA TargetStatus ==
    ASSUME NEW s \in Status, NEW f \in Phase
    PROVE  /\ StateOf(s, f) \in Reached
           /\ StateOf(s, f) = "APPROVED" => s = "completed"
           /\ StateOf(s, f) = "READY" => s = "ready"
           /\ StateOf(s, f) = "FAILED" => s = "failed"
           /\ StateOf(s, f) \in {"BUILDING", "VERIFYING", "RETRYING"} => s \in {"none", "active"}
<1>1. PhaseState(f) \in {"RETRYING", "DIAGNOSING", "PLANNED", "PREFLIGHT_PASSED", "VERIFYING",
                         "BUILDING", "CREATED"}
  BY DEF PhaseState, Phase
<1>2. \/ s = "failed" /\ StateOf(s, f) = "FAILED"
      \/ s = "ready" /\ StateOf(s, f) = "READY"
      \/ s = "completed" /\ StateOf(s, f) \in {"APPROVED", "EVIDENCE_READY"}
      \/ s \in {"none", "active"} /\ StateOf(s, f) = PhaseState(f)
  BY DEF StateOf, Status
<1>. QED BY <1>1, <1>2 DEF Reached

LEMMA AfterApproved ==
    ASSUME NEW t \in Reached, MayFollow("APPROVED", t)
    PROVE  t = "APPROVED"
  BY DEF MayFollow, Follows, Successors, Reached

LEMMA LoggedGrows ==
    ASSUME TypeOK, NEW i, NEW e \in EventType, log' = Append(log, e), Logged(i) \/ i = e.id
    PROVE  Logged(i)'
<1>1. Len(log) \in Nat /\ DOMAIN log = 1 .. Len(log) /\ DOMAIN log' = 1 .. Len(log) + 1
      /\ log'[Len(log) + 1] = e /\ \A k \in 1 .. Len(log) : log'[k] = log[k]
  BY DEF TypeOK
<1>. QED BY <1>1 DEF Logged

(* The writer that is in a write is a command's own thread, its heartbeat, *)
(* or a reconciler.                                                        *)
MainWrites(w) == w[2] \in Procs /\ w = Main(w[2]) /\ at[w[2]] \notin {"idle", "resume", "dead"}
BeatWrites(w) == /\ w[2] \in Procs /\ w = Beat(w[2]) /\ at[w[2]] = "packer"
                 /\ Step(Main(w[2]), "idle") /\ Main(w[2]) # w
                 /\ writing[w].status = "active" /\ Target(w) = "BUILDING"
JanitorWrites(w) == /\ w[2] \in Janitors /\ w[2] \notin Procs /\ w = Main(w[2])
                    /\ writing[w].step # "manifest"
                    /\ writing[w].status = "failed" /\ Target(w) = "FAILED"

LEMMA WriterKinds ==
    ASSUME TypeOK, SoleInv, ~disturbed, NEW w \in Writers, ~Step(w, "idle")
    PROVE  MainWrites(w) \/ BeatWrites(w) \/ JanitorWrites(w)
<1>. USE DEF SoleInv
<1>1. CASE \E p \in Procs : w = Main(p)
  BY <1>1, WriterNames DEF MainWrites, SoleWriter, Own, Step
<1>2. CASE \E p \in Procs : w = Beat(p)
  <2>1. PICK p \in Procs : w = Beat(p)
    BY <1>2
  <2>2. w[2] = p /\ Main(p) # w
    BY <2>1, WriterNames, Mains
  <2>3. at[p] = "packer" /\ Step(Main(p), "idle")
    BY <2>1 DEF SoleWriter, Own
  <2>4. writing[w].status = "active" /\ Target(w) = "BUILDING"
    BY <2>1, Targets DEF WriteInv, Target
  <2>. QED BY <2>1, <2>2, <2>3, <2>4 DEF BeatWrites
<1>3. CASE \E j \in Janitors : w = Main(j)
  <2>1. PICK j \in Janitors : w = Main(j)
    BY <1>3
  <2>2. w[2] = j /\ j \notin Procs
    BY <2>1, WriterNames
  <2>3. /\ writing[w].step # "manifest" /\ writing[w].status = "failed"
        /\ writing[w].phase = "lease-expired"
    BY <2>1 DEF WriteInv
  <2>4. Target(w) = "FAILED"
    BY <2>3, Targets DEF Target, Phase
  <2>. QED BY <2>1, <2>2, <2>3, <2>4 DEF JanitorWrites
<1>. QED BY <1>1, <1>2, <1>3, WriterCases

(* A refusal of an undisturbed run is that of the ready launch. *)
LEMMA RefusalIsReady ==
    ASSUME TypeInv, LogInv, SoleInv, FlowInv, NEW w \in Writers, RefuseEvent(w), ~disturbed
    PROVE  /\ LogState = "RETRYING" /\ Target(w) = "READY"
           /\ refused' = refused \cup {<<LogState, Target(w)>>}
<1>1. seen[w] = log /\ log # <<>>
  BY DEF RefuseEvent, Appending, Accepts, LogInv, SeenInv, SoleInv, SoleWriter
<1>2. LogState = Last(seen[w]).to /\ LogState \in RunState
  BY <1>1, LastEvent DEF LogState, TypeInv, TypeOK, EventType
<1>3. MayFollow(LogState, Target(w)) /\ ~Follows(LogState, Target(w))
  <2>1. MayFollow(LogState, Target(w))
    BY DEF RefuseEvent, Appending, Step, FlowInv, Flow, Asked
  <2>2. LogState # "none"
    BY <1>2 DEF RunState
  <2>. QED BY <1>1, <1>2, <2>1, <2>2 DEF RefuseEvent, Accepts, Follows
<1>. QED BY <1>2, <1>3 DEF MayFollow, RefuseEvent

LEMMA ReadyRefusals ==
    ASSUME TypeInv, LogInv, SoleInv, FlowInv, NEW w \in Writers, Writing(w) \/ TearEvent(w)
    PROVE  RefusesOnlyReady' /\ refused \subseteq refused'
<1>1. CASE RefuseEvent(w)
  <2>1. CASE disturbed
    BY <1>1, <2>1 DEF RefuseEvent, FlowInv, RefusesOnlyReady
  <2>2. CASE ~disturbed
    BY <1>1, <2>2, RefusalIsReady DEF FlowInv, RefusesOnlyReady
  <2>. QED BY <2>1, <2>2
<1>2. CASE ~RefuseEvent(w)
  <2>1. UNCHANGED refused
    BY <1>2 DEF Writing, TearEvent, WriteManifest, ManifestTimeout, LockLog, LogTimeout,
       AppendEvent, UnlockLog, Stamp, past
  <2>. QED BY <2>1 DEF FlowInv, RefusesOnlyReady
<1>. QED BY <1>1, <1>2

(* What Accepts lets through is what the writer asked for. *)
LEMMA AppendedState ==
    ASSUME TypeInv, LogInv, SoleInv, NEW w \in Writers, AppendEvent(w), ~disturbed
    PROVE  /\ log' = Append(log, NextEvent(w)) /\ NextEvent(w) \in EventType
           /\ log' # <<>> /\ LogState' = NextEvent(w).to
           /\ NextEvent(w).id = nextId
           /\ Begins(w) => log = <<>> /\ NextEvent(w).to = "CREATED"
           /\ ~Begins(w) => NextEvent(w).to = Target(w)
<1>. USE DEF TypeInv
<1>1. seen[w] = log /\ ~torn
  BY DEF AppendEvent, Appending, LogInv, SeenInv, SoleInv, SoleWriter
<1>2. log' = Append(log, NextEvent(w)) /\ NextEvent(w) \in EventType
  BY <1>1, NextEventType DEF AppendEvent
<1>3. LogState' = NextEvent(w).to /\ log' # <<>>
  BY <1>2, GrownLogState
<1>4. NextEvent(w).id = nextId
  BY EventIds DEF NextEvent
<1>5. NextEvent(w).to = IF log = <<>> THEN "CREATED" ELSE Target(w)
  BY <1>1, EventIds DEF NextEvent
<1>. QED BY <1>1, <1>2, <1>3, <1>4, <1>5 DEF Begins

(* The steps of the writer that is in a write, one by one. *)
WriterSetting(w) ==
    /\ TypeInv /\ LogInv /\ SoleInv /\ FlowInv /\ w \in Writers
    /\ ~disturbed /\ ~disturbed' /\ ~Step(w, "idle")

LEMMA WriterAlone ==
    ASSUME NEW w, WriterSetting(w), WriterEffect(w)
    PROVE  /\ MainWrites(w) \/ BeatWrites(w) \/ JanitorWrites(w)
           /\ \A v \in Writers \ {w} : writing'[v] = writing[v] /\ writing[v].step = "idle"
           /\ \A p \in Procs : p # w[2] => at[p] \in {"idle", "dead", "end"}
           /\ UNCHANGED <<at, done>>
           /\ Flow /\ writing[w] \in WriteType /\ Target(w) \in Reached
           /\ LogState \in Reached \cup {"none"}
           /\ \A p \in Procs : p # w[2] => Main(p) # w /\ Main(p) \in Writers
<1>1. MainWrites(w) \/ BeatWrites(w) \/ JanitorWrites(w)
  BY WriterKinds DEF WriterSetting, TypeInv
<1>2. /\ \A v \in Writers \ {w} : writing'[v] = writing[v] /\ writing[v].step = "idle"
      /\ \A p \in Procs : p # w[2] => at[p] \in {"idle", "dead", "end"}
  BY LoneWriter DEF WriterSetting, TypeInv, SoleInv, WriterEffect, Step
<1>3. writing[w] \in WriteType
  BY DEF WriterSetting, TypeInv, TypeOK
<1>4. Target(w) \in Reached
  BY <1>3, TargetStatus DEF Target, WriteType
<1>5. UNCHANGED <<at, done>> /\ Flow
  BY DEF WriterEffect, WriterSetting, FlowInv
<1>6. \A p \in Procs : p # w[2] => Main(p) # w /\ Main(p) \in Writers
  BY WriterNames
<1>. QED BY <1>1, <1>2, <1>3, <1>4, <1>5, <1>6 DEF Flow, Over

(* Of the commands only the writer's own is anywhere it may be held to. *)
LEMMA OwnBearings ==
    ASSUME NEW w, WriterSetting(w), WriterEffect(w),
           ASSUME w[2] \in Procs
           PROVE  /\ Step(Main(w[2]), "idle")' =>
                        Expects(at[w[2]], done[w[2]], LogState') /\ at[w[2]] # "resume"
                  /\ ~Step(Main(w[2]), "idle")' =>
                        Expects(at[w[2]], done[w[2]], Target(Main(w[2]))')
    PROVE  Bearings'
<1>1. /\ \A v \in Writers \ {w} : writing'[v] = writing[v] /\ writing[v].step = "idle"
      /\ \A p \in Procs : p # w[2] => at[p] \in {"idle", "dead", "end"}
      /\ UNCHANGED <<at, done>>
      /\ \A p \in Procs : p # w[2] => Main(p) # w /\ Main(p) \in Writers
  BY WriterAlone
<1>2. ASSUME NEW p \in Procs
      PROVE  Whereabouts(p)' /\ (~Step(Main(p), "idle")' => Expects(at'[p], done'[p], Target(Main(p))'))
  <2>1. CASE p = w[2]
    BY <1>1, <2>1 DEF Whereabouts
  <2>2. CASE p # w[2]
    <3>1. at'[p] \in {"idle", "dead", "end"}
      BY <1>1, <2>2
    <3>2. Expects(at'[p], done'[p], LogState') /\ Expects(at'[p], done'[p], Target(Main(p))')
      BY <3>1 DEF Expects
    <3>. QED BY <3>1, <3>2 DEF Whereabouts
  <2>. QED BY <2>1, <2>2
<1>. QED BY <1>2 DEF Bearings

LEMMA OwnInstance ==
    ASSUME NEW w, WriterSetting(w), WriterEffect(w),
           ASSUME w[2] \in Procs, at[w[2]] \in {"packer", "probing", "checking"},
                  Step(Main(w[2]), "idle")'
           PROVE  manifest'.status = "active" /\ manifest'.lease
    PROVE  LiveRunIsActive'
<1>1. (\A p \in Procs : p # w[2] => at[p] \in {"idle", "dead", "end"}) /\ UNCHANGED at
  BY WriterAlone
<1>. QED BY <1>1 DEF LiveRunIsActive

LEMMA WriteManifestFlow ==
    ASSUME NEW w, WriterSetting(w), WriterEffect(w), WriteManifest(w)
    PROVE  Flow' /\ LiveRunIsActive'
<1>1. /\ MainWrites(w) \/ BeatWrites(w) \/ JanitorWrites(w)
      /\ \A v \in Writers \ {w} : writing'[v] = writing[v] /\ writing[v].step = "idle"
      /\ Flow /\ writing[w] \in WriteType /\ Target(w) \in Reached
  BY WriterAlone
<1>2. /\ writing[w].step = "manifest" /\ writing'[w].step = "lock"
      /\ writing'[w].status = writing[w].status /\ writing'[w].phase = writing[w].phase
      /\ writing'[w].id = writing[w].id
  BY <1>1 DEF WriteManifest, Step, WriteType, WriterSetting, TypeInv, TypeOK
<1>3. /\ manifest'.status = writing[w].status /\ manifest'.phase = writing[w].phase
      /\ manifest'.lease = (writing[w].status = "active") /\ manifest'.stamp = manifest.stamp
  BY <1>1 DEF WriteManifest, Manifest, WriteType
<1>4. MainWrites(w) \/ BeatWrites(w)
  BY <1>1, <1>2 DEF JanitorWrites
<1>5. UNCHANGED <<log, refused>> /\ LogState' = LogState /\ Target(w)' = Target(w)
  BY <1>2, SameLogState DEF WriteManifest, past, Target
<1>6. MayFollow(LogState, Target(w))
  BY <1>1, <1>2 DEF Flow, Asked, WriterSetting
<1>7. Asked' /\ Answered' /\ Under'
  BY <1>1, <1>2, <1>3, <1>4, <1>5, <1>6 DEF Asked, Answered, Under, MainWrites, BeatWrites
<1>8. Bearings'
  <2>1. ~Step(w, "idle")'
    BY <1>2 DEF Step
  <2>2. CASE MainWrites(w)
    BY <1>1, <1>5, <2>1, <2>2, OwnBearings DEF MainWrites, Flow, Bearings, WriterSetting
  <2>3. CASE BeatWrites(w)
    <3>1. Step(Main(w[2]), "idle") /\ Step(Main(w[2]), "idle")'
      BY <1>1, <2>3, WriterNames DEF BeatWrites, Step
    <3>2. Expects(at[w[2]], done[w[2]], LogState')
      BY <1>1, <1>5, <2>3, <3>1 DEF BeatWrites, Flow, Bearings, Whereabouts
    <3>. QED BY <2>3, <3>1, <3>2, OwnBearings DEF BeatWrites
  <2>. QED BY <1>4, <2>2, <2>3
<1>9. Over'
  BY <1>1, <1>3, <1>5, <1>6, AfterApproved, TargetStatus DEF Flow, Over, Target, WriteType
<1>10. Settled'
  <2>1. CASE writing[w].status = "active"
    BY <1>3, <2>1 DEF Settled
  <2>2. CASE writing[w].status # "active"
    <3>1. MainWrites(w)
      BY <1>4, <2>2 DEF BeatWrites
    <3>. QED BY <1>2, <2>2, <3>1 DEF Settled, HalfWritten, MainWrites
  <2>. QED BY <2>1, <2>2
<1>11. Stamped'
  BY <1>1, <1>2, <1>3, <1>5 DEF Flow, Stamped, Logged
<1>12. LiveRunIsActive'
  <2>1. CASE MainWrites(w)
    BY <1>2, <2>1, OwnInstance DEF MainWrites, Step
  <2>2. CASE BeatWrites(w)
    BY <1>3, <2>2, OwnInstance DEF BeatWrites
  <2>. QED BY <1>4, <2>1, <2>2
<1>. QED BY <1>7, <1>8, <1>9, <1>10, <1>11, <1>12 DEF Flow

LEMMA LockLogFlow ==
    ASSUME NEW w, WriterSetting(w), WriterEffect(w), LockLog(w)
    PROVE  Flow' /\ LiveRunIsActive'
<1>1. /\ MainWrites(w) \/ BeatWrites(w) \/ JanitorWrites(w)
      /\ \A v \in Writers \ {w} : writing'[v] = writing[v] /\ writing[v].step = "idle"
      /\ Flow /\ writing[w] \in WriteType /\ UNCHANGED at
  BY WriterAlone
<1>2. /\ writing[w].step = "lock" /\ writing'[w].step = "append"
      /\ writing'[w].status = writing[w].status /\ writing'[w].phase = writing[w].phase
      /\ writing'[w].id = writing[w].id
  BY <1>1 DEF LockLog, Move, Step, WriteType, WriterSetting, TypeInv, TypeOK
<1>3. UNCHANGED <<manifest, log, refused>> /\ LogState' = LogState /\ Target(w)' = Target(w)
  BY <1>2, SameLogState DEF LockLog, files, past, Target
<1>4. Asked' /\ Answered' /\ Under'
  BY <1>1, <1>2, <1>3 DEF Flow, Asked, Answered, Under, WriterSetting
<1>5. \A p \in Procs : Step(Main(p), "idle")' <=> Step(Main(p), "idle")
  BY <1>1, <1>2, WriterNames DEF Step
<1>6. Bearings'
  <2>1. CASE MainWrites(w)
    BY <1>1, <1>2, <1>3, <2>1, OwnBearings DEF MainWrites, Flow, Bearings, WriterSetting, Step
  <2>2. CASE BeatWrites(w)
    <3>1. Expects(at[w[2]], done[w[2]], LogState')
      BY <1>1, <1>3, <2>2 DEF BeatWrites, Flow, Bearings, Whereabouts
    <3>. QED BY <1>5, <2>2, <3>1, OwnBearings DEF BeatWrites
  <2>3. CASE JanitorWrites(w)
    BY <2>3, OwnBearings DEF JanitorWrites
  <2>. QED BY <1>1, <2>1, <2>2, <2>3
<1>7. Over' /\ Stamped'
  BY <1>1, <1>2, <1>3 DEF Flow, Over, Stamped, Logged
<1>8. Settled'
  <2>1. \A p \in Procs : HalfWritten(Main(p)) => HalfWritten(Main(p))'
    BY <1>1, <1>2, WriterNames DEF HalfWritten
  <2>. QED BY <1>1, <1>3, <2>1 DEF Flow, Settled, StateLogged, State
<1>9. LiveRunIsActive'
  BY <1>1, <1>3, <1>5 DEF WriterSetting, FlowInv, LiveRunIsActive
<1>. QED BY <1>4, <1>6, <1>7, <1>8, <1>9 DEF Flow

LEMMA AppendEventFlow ==
    ASSUME NEW w, WriterSetting(w), WriterEffect(w), AppendEvent(w)
    PROVE  Flow' /\ LiveRunIsActive'
<1>1. /\ MainWrites(w) \/ BeatWrites(w) \/ JanitorWrites(w)
      /\ \A v \in Writers \ {w} : writing'[v] = writing[v] /\ writing[v].step = "idle"
      /\ Flow /\ writing[w] \in WriteType /\ Target(w) \in Reached /\ UNCHANGED at
  BY WriterAlone
<1>2. /\ log' = Append(log, NextEvent(w)) /\ NextEvent(w) \in EventType
      /\ log' # <<>> /\ LogState' = NextEvent(w).to
      /\ NextEvent(w).id = nextId
      /\ Begins(w) => log = <<>> /\ NextEvent(w).to = "CREATED"
      /\ ~Begins(w) => NextEvent(w).to = Target(w)
  BY AppendedState DEF WriterSetting
<1>3. /\ writing[w].step = "append" /\ writing'[w].step = (IF Begins(w) THEN "append" ELSE "unlock")
      /\ writing'[w].status = writing[w].status /\ writing'[w].phase = writing[w].phase
      /\ writing'[w].id \in {writing[w].id, nextId}
  BY <1>1 DEF AppendEvent, Appending, Step, WriteType, WriterSetting, TypeInv, TypeOK
<1>4. UNCHANGED <<manifest, refused>> /\ Target(w)' = Target(w)
  BY <1>3 DEF AppendEvent, Target
<1>5. MayFollow(LogState, Target(w)) /\ writing'[w].step \in {"append", "unlock"}
  BY <1>1, <1>3 DEF Flow, Asked, WriterSetting
<1>6. Begins(w) => MayFollow("CREATED", Target(w)) /\ LogState' = "CREATED"
  BY <1>2, <1>5 DEF LogState, MayFollow, Follows
<1>7. ~Begins(w) => LogState' = Target(w)
  BY <1>2
<1>8. Asked' /\ Answered' /\ Under'
  BY <1>1, <1>3, <1>4, <1>6, <1>7 DEF Flow, Asked, Answered, Under, WriterSetting
<1>9. \A p \in Procs : Step(Main(p), "idle")' <=> Step(Main(p), "idle")
  BY <1>1, <1>3, WriterNames DEF Step
<1>10. Bearings'
  <2>1. CASE MainWrites(w)
    BY <1>1, <1>4, <1>5, <2>1, OwnBearings DEF MainWrites, Flow, Bearings, WriterSetting, Step
  <2>2. CASE BeatWrites(w)
    <3>1. Expects(at[w[2]], done[w[2]], LogState)
      BY <1>1, <2>2 DEF BeatWrites, Flow, Bearings, Whereabouts
    <3>2. LogState = "BUILDING"
      BY <2>2, <3>1 DEF BeatWrites, Expects
    <3>3. ~Begins(w)
      BY <1>2, <3>2 DEF LogState
    <3>4. Expects(at[w[2]], done[w[2]], LogState')
      BY <1>7, <2>2, <3>1, <3>2, <3>3 DEF BeatWrites
    <3>. QED BY <1>9, <2>2, <3>4, OwnBearings DEF BeatWrites
  <2>3. CASE JanitorWrites(w)
    BY <2>3, OwnBearings DEF JanitorWrites
  <2>. QED BY <1>1, <2>1, <2>2, <2>3
<1>11. ASSUME JanitorWrites(w) PROVE Over' /\ Settled'
  <2>1. manifest.status = "active"
    BY <1>1, <1>3, <1>11 DEF Flow, Under, JanitorWrites, WriterSetting
  <2>2. LogState' # "APPROVED"
    BY <1>6, <1>7, <1>11 DEF JanitorWrites
  <2>3. Over'
    BY <1>1, <1>6, <1>7, <2>2 DEF Over, Reached
  <2>. QED BY <1>4, <2>1, <2>3 DEF Settled, Over
<1>12. ASSUME MainWrites(w) \/ BeatWrites(w) PROVE Over' /\ Settled'
  <2>1. manifest.status = writing[w].status /\ manifest.phase = writing[w].phase
    BY <1>1, <1>3, <1>12 DEF Flow, Under, MainWrites, BeatWrites, WriterSetting
  <2>2. State' = Target(w)
    BY <1>4, <2>1 DEF State, Target
  <2>3. Over'
    <3>1. LogState' \in Reached
      BY <1>1, <1>6, <1>7 DEF Reached
    <3>2. Target(w) = "APPROVED" => writing[w].status = "completed"
      BY <1>1, TargetStatus DEF Target, WriteType
    <3>. QED BY <1>4, <1>6, <1>7, <2>1, <3>1, <3>2 DEF Over
  <2>4. Settled'
    <3>1. CASE Begins(w)
      <4>1. log = <<>>
        BY <1>2, <3>1
      <4>2. \A p \in Procs : HalfWritten(Main(p)) => HalfWritten(Main(p))'
        BY <1>1, <1>3, <3>1, WriterNames DEF HalfWritten
      <4>. QED BY <1>1, <1>4, <4>1, <4>2 DEF Flow, Settled, StateLogged
    <3>2. CASE ~Begins(w)
      BY <1>2, <1>7, <2>2, <3>2 DEF Settled, StateLogged
    <3>. QED BY <3>1, <3>2
  <2>. QED BY <2>3, <2>4
<1>13. Stamped'
  <2>1. \A i : Logged(i) \/ i = nextId => Logged(i)'
    BY <1>2, LoggedGrows DEF WriterSetting, TypeInv
  <2>. QED BY <1>1, <1>3, <1>4, <2>1 DEF Flow, Stamped, WriterSetting
<1>14. LiveRunIsActive'
  BY <1>1, <1>4, <1>9 DEF WriterSetting, FlowInv, LiveRunIsActive
<1>. QED BY <1>1, <1>8, <1>10, <1>11, <1>12, <1>13, <1>14 DEF Flow

LEMMA RefuseEventFlow ==
    ASSUME NEW w, WriterSetting(w), WriterEffect(w), RefuseEvent(w)
    PROVE  Flow' /\ LiveRunIsActive'
<1>1. /\ MainWrites(w) \/ BeatWrites(w) \/ JanitorWrites(w)
      /\ \A v \in Writers \ {w} : writing'[v] = writing[v] /\ writing[v].step = "idle"
      /\ Flow /\ writing[w] \in WriteType /\ UNCHANGED at
  BY WriterAlone
<1>2. /\ LogState = "RETRYING" /\ Target(w) = "READY"
      /\ refused' = refused \cup {<<LogState, Target(w)>>}
  BY RefusalIsReady DEF WriterSetting
<1>3. /\ writing[w].step = "append" /\ writing'[w].step = "unlock"
      /\ writing'[w].status = writing[w].status /\ writing'[w].phase = writing[w].phase
      /\ writing'[w].id = writing[w].id
  BY <1>1 DEF RefuseEvent, Appending, Move, Step, WriteType, WriterSetting, TypeInv, TypeOK
<1>4. UNCHANGED <<manifest, log>> /\ LogState' = LogState /\ Target(w)' = Target(w)
  BY <1>3, SameLogState DEF RefuseEvent, files, Target
<1>5. MainWrites(w)
  BY <1>1, <1>2 DEF BeatWrites, JanitorWrites
<1>6. Asked' /\ Answered' /\ Under'
  BY <1>1, <1>2, <1>3, <1>4 DEF Flow, Asked, Answered, Under, WriterSetting
<1>7. ~Step(w, "idle")'
  BY <1>3 DEF Step
<1>8. Bearings'
  BY <1>1, <1>4, <1>5, <1>7, OwnBearings DEF MainWrites, Flow, Bearings, WriterSetting
<1>9. Over' /\ Stamped'
  BY <1>1, <1>3, <1>4 DEF Flow, Over, Stamped, Logged
<1>10. Settled'
  <2>1. manifest.status = writing[w].status /\ manifest.phase = writing[w].phase
    BY <1>1, <1>3, <1>5 DEF Flow, Under, MainWrites, WriterSetting
  <2>2. State' = Target(w)
    BY <1>4, <2>1 DEF State, Target
  <2>3. log' # <<>>
    BY <1>2, <1>4 DEF LogState
  <2>. QED BY <1>2, <1>4, <2>2, <2>3 DEF Settled, StateLogged
<1>11. LiveRunIsActive'
  BY <1>5, <1>7, OwnInstance DEF MainWrites
<1>. QED BY <1>6, <1>8, <1>9, <1>10, <1>11 DEF Flow

(* When a command's own write is over, the log is where the write led, or, *)
(* where a launch may be ready, still where it was.                        *)
LEMMA WriteOver ==
    ASSUME NEW w, WriterSetting(w), WriterEffect(w), writing[w].step \in {"unlock", "stamp"},
           UNCHANGED log
    PROVE  /\ w[2] \in Procs => Expects(at[w[2]], done[w[2]], LogState') /\ at[w[2]] # "resume"
           /\ w[2] \in Procs /\ at[w[2]] \in {"packer", "probing", "checking"}
                 => /\ manifest.status = "active" /\ manifest.lease
                    /\ writing[w].status = "active"
<1>1. /\ MainWrites(w) \/ BeatWrites(w) \/ JanitorWrites(w)
      /\ Flow /\ writing[w] \in WriteType /\ LogState' = LogState
      /\ ~Step(w, "idle") /\ w \in Writers
  BY WriterAlone, SameLogState DEF WriterSetting
<1>2. CASE MainWrites(w)
  <2>1. Expects(at[w[2]], done[w[2]], Target(w)) /\ at[w[2]] # "resume"
    BY <1>1, <1>2 DEF MainWrites, Flow, Bearings
  <2>2. LogState = Target(w) \/ (LogState = "RETRYING" /\ Target(w) = "READY")
    BY <1>1 DEF Flow, Answered
  <2>3. Expects(at[w[2]], done[w[2]], LogState)
    BY <2>1, <2>2 DEF Expects
  <2>4. /\ writing[w].status # "none" /\ manifest.status = writing[w].status
        /\ manifest.lease = (manifest.status = "active")
    BY <1>1, <1>2 DEF MainWrites, Flow, Under, WriterSetting, SoleInv, WriteInv
  <2>5. at[w[2]] \in {"packer", "probing", "checking"} => Target(w) \in {"BUILDING", "VERIFYING"}
    BY <2>1 DEF Expects
  <2>6. Target(w) \in {"BUILDING", "VERIFYING"} => writing[w].status \in {"none", "active"}
    BY <1>1, TargetStatus DEF Target, WriteType
  <2>. QED BY <1>1, <2>1, <2>3, <2>4, <2>5, <2>6
<1>3. CASE BeatWrites(w)
  <2>1. Expects(at[w[2]], done[w[2]], LogState)
    BY <1>1, <1>3 DEF BeatWrites, Flow, Bearings, Whereabouts
  <2>. QED BY <1>1, <1>3, <2>1 DEF BeatWrites, WriterSetting, FlowInv, LiveRunIsActive
<1>4. CASE JanitorWrites(w)
  BY <1>4 DEF JanitorWrites
<1>. QED BY <1>1, <1>2, <1>3, <1>4

LEMMA UnlockLogFlow ==
    ASSUME NEW w, WriterSetting(w), WriterEffect(w), UnlockLog(w)
    PROVE  Flow' /\ LiveRunIsActive'
<1>1. /\ MainWrites(w) \/ BeatWrites(w) \/ JanitorWrites(w)
      /\ \A v \in Writers \ {w} : writing'[v] = writing[v] /\ writing[v].step = "idle"
      /\ Flow /\ writing[w] \in WriteType /\ UNCHANGED <<at, done>>
  BY WriterAlone
<1>2. /\ writing[w].step = "unlock"
      /\ \/ writing'[w].step = "idle" /\ writing'[w].id = 0
         \/ /\ writing'[w].step = "stamp"
            /\ writing'[w].status = writing[w].status /\ writing'[w].phase = writing[w].phase
            /\ writing'[w].id = writing[w].id
  <2>1. Idle.step = "idle" /\ Idle.id = 0
    BY DEF Idle, Write
  <2>2. writing[w].step = "unlock" /\ writing' = [writing EXCEPT ![w] =
            IF Unlogged(w) THEN Idle ELSE [writing[w] EXCEPT !.step = "stamp"]]
    BY DEF UnlockLog, Step, Stop, Move
  <2>. QED BY <1>1, <2>1, <2>2 DEF WriteType, WriterSetting, TypeInv, TypeOK
<1>3. UNCHANGED <<manifest, log, refused>> /\ LogState' = LogState
      /\ (writing'[w].step # "idle" => Target(w)' = Target(w))
  BY <1>2, SameLogState DEF UnlockLog, files, past, Target
<1>4. Asked' /\ Answered' /\ Under'
  BY <1>1, <1>2, <1>3 DEF Flow, Asked, Answered, Under, WriterSetting
<1>5. /\ w[2] \in Procs => Expects(at[w[2]], done[w[2]], LogState') /\ at[w[2]] # "resume"
      /\ w[2] \in Procs /\ at[w[2]] \in {"packer", "probing", "checking"}
             => manifest.status = "active" /\ manifest.lease
  BY <1>2, <1>3, WriteOver
<1>6. Bearings'
  <2>1. CASE MainWrites(w)
    BY <1>1, <1>2, <1>3, <1>5, <2>1, OwnBearings DEF MainWrites, Flow, Bearings, WriterSetting, Step
  <2>2. CASE BeatWrites(w)
    <3>1. Step(Main(w[2]), "idle")'
      BY <1>1, <2>2, WriterNames DEF BeatWrites, Step
    <3>. QED BY <1>5, <2>2, <3>1, OwnBearings DEF BeatWrites
  <2>3. CASE JanitorWrites(w)
    BY <2>3, OwnBearings DEF JanitorWrites
  <2>. QED BY <1>1, <2>1, <2>2, <2>3
<1>7. Over' /\ Stamped'
  <2>1. Logged(0)'
    BY DEF Logged
  <2>. QED BY <1>1, <1>2, <1>3, <2>1 DEF Flow, Over, Stamped, Logged
<1>8. Settled'
  <2>1. \A p \in Procs : ~HalfWritten(Main(p))
    BY <1>1, <1>2, WriterNames DEF HalfWritten
  <2>. QED BY <1>1, <1>3, <2>1 DEF Flow, Settled, StateLogged, State
<1>9. LiveRunIsActive'
  BY <1>3, <1>5, OwnInstance
<1>. QED BY <1>4, <1>6, <1>7, <1>8, <1>9 DEF Flow

LEMMA StampFlow ==
    ASSUME NEW w, WriterSetting(w), WriterEffect(w), Stamp(w)
    PROVE  Flow' /\ LiveRunIsActive'
<1>1. /\ MainWrites(w) \/ BeatWrites(w) \/ JanitorWrites(w)
      /\ \A v \in Writers \ {w} : writing'[v] = writing[v] /\ writing[v].step = "idle"
      /\ Flow /\ writing[w] \in WriteType /\ Target(w) \in Reached /\ UNCHANGED <<at, done>>
  BY WriterAlone
<1>2. writing[w].step = "stamp" /\ writing'[w].step = "idle" /\ writing'[w].id = 0
  <2>1. Idle.step = "idle" /\ Idle.id = 0
    BY DEF Idle, Write
  <2>. QED BY <2>1 DEF Stamp, Step, Stop, WriterSetting, TypeInv, TypeOK
<1>3. /\ manifest'.status = writing[w].status /\ manifest'.phase = writing[w].phase
      /\ manifest'.lease = (writing[w].status = "active") /\ manifest'.stamp = writing[w].id
  BY DEF Stamp, Manifest
<1>4. UNCHANGED <<log, refused>> /\ LogState' = LogState
  BY SameLogState DEF Stamp, past
<1>5. /\ w[2] \in Procs => Expects(at[w[2]], done[w[2]], LogState') /\ at[w[2]] # "resume"
      /\ w[2] \in Procs /\ at[w[2]] \in {"packer", "probing", "checking"}
             => writing[w].status = "active"
  BY <1>2, <1>4, WriteOver
<1>6. Asked' /\ Answered' /\ Under'
  BY <1>1, <1>2 DEF Asked, Answered, Under
<1>7. \A v \in Writers : Step(v, "idle")'
  BY <1>1, <1>2 DEF Step
<1>8. Bearings'
  BY <1>5, <1>7, OwnBearings, WriterNames
<1>9. \/ LogState = Target(w)
      \/ LogState = "RETRYING" /\ Target(w) = "READY" /\ <<LogState, Target(w)>> \in refused
  BY <1>1, <1>2 DEF Flow, Answered, WriterSetting
<1>10. Over'
  <2>1. Target(w) = "APPROVED" => writing[w].status = "completed"
    BY <1>1, TargetStatus DEF Target, WriteType
  <2>. QED BY <1>1, <1>3, <1>4, <1>9, <2>1 DEF Flow, Over
<1>11. Settled'
  <2>1. State' = Target(w)
    BY <1>3 DEF State, Target
  <2>2. log # <<>>
    BY <1>1, <1>9 DEF LogState, Reached
  <2>. QED BY <1>4, <1>9, <2>1, <2>2 DEF Settled, StateLogged
<1>12. Stamped'
  <2>1. Logged(0)' /\ Logged(writing[w].id)
    BY <1>1 DEF Logged, Flow, Stamped, WriterSetting
  <2>. QED BY <1>1, <1>2, <1>3, <1>4, <2>1 DEF Flow, Stamped, Logged
<1>13. LiveRunIsActive'
  BY <1>3, <1>5, OwnInstance
<1>. QED BY <1>6, <1>8, <1>10, <1>11, <1>12, <1>13 DEF Flow

LEMMA WritingKeepsFlow ==
    ASSUME TypeInv, LogInv, SoleInv, FlowInv, NEW w \in Writers, Writing(w) \/ TearEvent(w)
    PROVE  FlowInv'
<1>1. RefusesOnlyReady' /\ WriterEffect(w)
  BY ReadyRefusals, WriterEffects DEF TypeInv
<1>2. CASE disturbed'
  BY <1>1, <1>2 DEF FlowInv, LiveRunIsActive
<1>3. CASE ~disturbed'
  <2>1. WriterSetting(w)
    BY <1>1, <1>3 DEF WriterSetting, WriterEffect
  <2>2. ~ManifestTimeout(w) /\ ~LogTimeout(w) /\ ~TearEvent(w)
    BY <1>3 DEF ManifestTimeout, LogTimeout, TearEvent
  <2>. QED
    BY <1>1, <2>1, <2>2, WriteManifestFlow, LockLogFlow, AppendEventFlow, RefuseEventFlow,
       UnlockLogFlow, StampFlow DEF Writing, FlowInv
<1>. QED BY <1>2, <1>3

-----------------------------------------------------------------------------
(* The steps of the commands, and of the rest. *)

LEMMA ActorAlone ==
    ASSUME TypeOK, SoleWriter, ~disturbed, NEW p \in Procs, Step(Main(p), "idle"),
           Live(p) \/ \A a \in Procs \cup Janitors : ~Engaged(a),
           at[p] = "packer" => Step(Beat(p), "idle")
    PROVE  /\ \A w \in Writers : Step(w, "idle")
           /\ \A q \in Procs \ {p} : at[q] \in {"idle", "dead", "end"}
<1>1. \A a \in (Procs \cup Janitors) \ {p} : ~Engaged(a)
  BY DEF SoleWriter, Alone, Engaged
<1>2. \A q \in Procs \ {p} : at[q] \in {"idle", "dead", "end"}
  BY <1>1 DEF Engaged, Live, Finished
<1>3. ASSUME NEW w \in Writers, ~Step(w, "idle")
      PROVE  FALSE
  <2>1. w[2] = p
    BY <1>1, <1>3, LoneWriter
  <2>2. w = Main(p) \/ w = Beat(p)
    BY <2>1, WriterCases, WriterNames
  <2>3. Step(Beat(p), "idle")
    BY DEF SoleWriter, Own
  <2>. QED BY <1>3, <2>2, <2>3
<1>. QED BY <1>2, <1>3

(* With all writers idle and the manifest as the log has it, the flow only *)
(* depends on who is where.                                                *)
LEMMA QuietFlow ==
    ASSUME TypeOK, Flow, \A w \in Writers : Step(w, "idle"),
           UNCHANGED <<manifest, log, refused>>,
           \A w \in Writers : writing'[w] = writing[w]
    PROVE  Asked' /\ Answered' /\ Under' /\ Over' /\ Settled' /\ Stamped' /\ LogState' = LogState
<1>1. \A w \in Writers : writing[w].step = "idle" /\ writing'[w].step = "idle"
  BY DEF Step
<1>2. LogState' = LogState
  BY SameLogState
<1>3. Asked' /\ Answered' /\ Under'
  BY <1>1 DEF Asked, Answered, Under
<1>4. Over' /\ Stamped'
  BY <1>2 DEF Flow, Over, Stamped, Logged
<1>5. \A p \in Procs : ~HalfWritten(Main(p))
  BY <1>1, WriterNames DEF HalfWritten
<1>6. Settled'
  BY <1>2, <1>5 DEF Flow, Settled, StateLogged, State
<1>. QED BY <1>2, <1>3, <1>4, <1>6

LEMMA ActingKeepsFlow ==
    ASSUME TypeInv, SoleInv, FlowInv, NEW p \in Procs,
           NEW to \in Places \ {"idle", "resume", "dead"}, Walks(p, to) \/ Orders(p, to),
           ~disturbed' => Bound(p) /\ (Live(p) \/ \A a \in Procs \cup Janitors : ~Engaged(a))
    PROVE  FlowInv'
<1>. USE DEF TypeInv
<1>1. Acts(p, to) /\ UNCHANGED <<manifest, log, refused>>
  BY DEF Walks, Orders, AsksFor, Acts, files
<1>2. RefusesOnlyReady'
  BY <1>1 DEF FlowInv, RefusesOnlyReady
<1>3. SUFFICES ASSUME ~disturbed' PROVE Flow' /\ LiveRunIsActive'
  BY <1>2 DEF FlowInv, LiveRunIsActive
<1>4. ~disturbed /\ Flow /\ SoleWriter /\ Bound(p)
  BY <1>1, <1>3 DEF Acts, FlowInv, SoleInv
<1>5. /\ \A w \in Writers : Step(w, "idle")
      /\ \A q \in Procs \ {p} : at[q] \in {"idle", "dead", "end"}
  BY <1>1, <1>3, <1>4, ActorAlone DEF Acts
<1>6. /\ at' \in [Procs -> Places] /\ at'[p] = to
      /\ \A q \in Procs \ {p} : at'[q] = at[q] /\ Main(q) # Main(p) /\ Main(q) \in Writers
      /\ Main(p) \in Writers /\ Main(p)[2] = p
  BY <1>1, GotoEffect, Mains, WriterNames DEF Acts
<1>7. LogState' = LogState
  BY <1>1, SameLogState
<1>8. ASSUME \/ Step(Main(p), "idle")' /\ Expects(to, done'[p], LogState)
             \/ ~Step(Main(p), "idle")' /\ Expects(to, done'[p], Target(Main(p))')
      PROVE  Bearings'
  <2>1. Whereabouts(p)' /\ (~Step(Main(p), "idle")' => Expects(at'[p], done'[p], Target(Main(p))'))
    BY <1>6, <1>7, <1>8 DEF Whereabouts
  <2>2. ASSUME NEW q \in Procs \ {p}
        PROVE  Whereabouts(q)' /\ Expects(at'[q], done'[q], Target(Main(q))')
    <3>1. at'[q] \in {"idle", "dead", "end"}
      BY <1>5, <1>6
    <3>2. \A s : Expects(at'[q], done'[q], s)
      BY <3>1 DEF Expects
    <3>. QED BY <3>1, <3>2 DEF Whereabouts
  <2>. QED BY <2>1, <2>2 DEF Bearings
<1>9. CASE Walks(p, to)
  <2>1. writing' = writing /\ to \notin {"packer", "probing", "checking"}
        /\ Expects(to, done'[p], LogState)
    BY <1>4, <1>9 DEF Walks
  <2>2. Asked' /\ Answered' /\ Under' /\ Over' /\ Settled' /\ Stamped'
    BY <1>1, <1>4, <1>5, <2>1, QuietFlow
  <2>3. Bearings'
    BY <1>5, <1>6, <1>8, <2>1 DEF Step
  <2>4. LiveRunIsActive'
    BY <1>5, <1>6, <2>1 DEF LiveRunIsActive
  <2>. QED BY <2>2, <2>3, <2>4 DEF Flow
<1>10. CASE Orders(p, to)
  <2>1. PICK s \in Status \ {"none"}, f \in Phase, n \in 0 .. 4 :
          /\ AsksFor(p, to, s, f, n)
          /\ MayFollow(LogState, StateOf(s, f)) /\ Expects(to, done[p], StateOf(s, f))
    BY <1>4, <1>10 DEF Orders
  <2>2. /\ writing'[Main(p)].step = "manifest" /\ writing'[Main(p)].status = s
        /\ writing'[Main(p)].phase = f /\ writing'[Main(p)].id = 0
        /\ \A w \in Writers \ {Main(p)} : writing'[w] = writing[w] /\ writing[w].step = "idle"
        /\ UNCHANGED done
    BY <1>5, <2>1 DEF AsksFor, Acts, Write, Step
  <2>3. Target(Main(p))' = StateOf(s, f)
    BY <2>2 DEF Target
  <2>4. Asked' /\ Answered' /\ Under'
    BY <1>6, <1>7, <2>1, <2>2, <2>3 DEF Asked, Answered, Under
  <2>5. ~Step(Main(p), "idle")'
    BY <2>2 DEF Step
  <2>6. Bearings'
    BY <1>8, <2>1, <2>2, <2>3, <2>5
  <2>7. Over'
    BY <1>1, <1>4, <1>7 DEF Flow, Over
  <2>8. Settled'
    <3>1. \A q \in Procs : ~HalfWritten(Main(q))
      BY <1>5, WriterNames DEF HalfWritten, Step
    <3>. QED BY <1>1, <1>4, <1>7, <3>1 DEF Flow, Settled, StateLogged, State
  <2>9. Stamped'
    BY <1>1, <1>4, <2>2 DEF Flow, Stamped, Logged
  <2>10. LiveRunIsActive'
    BY <1>5, <1>6, <2>5 DEF LiveRunIsActive
  <2>. QED BY <2>4, <2>6, <2>7, <2>8, <2>9, <2>10 DEF Flow
<1>. QED BY <1>9, <1>10

LEMMA ProceedingKeeps ==
    ASSUME TypeInv, SoleInv, FlowInv, NEW p \in Procs, Proceeds(p)
    PROVE  SoleInv' /\ FlowInv'
<1>. USE DEF TypeInv
<1>1. PICK to \in Places \ {"idle", "resume", "dead"} : Walks(p, to) \/ Orders(p, to)
  BY DEF Proceeds
<1>2. Acts(p, to) /\ (disturbed => disturbed')
  BY <1>1 DEF Walks, Orders, AsksFor, Acts
<1>3. ASSUME ~disturbed'
      PROVE  /\ Bound(p) /\ (Live(p) \/ \A a \in Procs \cup Janitors : ~Engaged(a))
             /\ p # Starter => at[Starter] # "idle"
  <2>1. ~disturbed /\ Flow /\ Own /\ Unstarted
    BY <1>2, <1>3 DEF FlowInv, SoleInv, SoleWriter
  <2>2. Whereabouts(p)
    BY <2>1 DEF Flow, Bearings
  <2>3. CASE at[p] = "idle"
    <3>1. p = Starter
      BY <2>3 DEF Proceeds
    <3>2. \A a \in Procs \cup Janitors : ~Engaged(a)
      BY <2>1, <2>3, <3>1 DEF Unstarted, Engaged, Live
    <3>3. LogState = "none" /\ done[p] = 0
      BY <2>1, <2>3, <3>1 DEF Unstarted, LogState
    <3>. QED BY <2>2, <3>1, <3>2, <3>3 DEF Bound
  <2>4. CASE at[p] # "idle"
    <3>1. Live(p)
      BY <2>4 DEF Proceeds, Live, Finished
    <3>2. p # Starter => at[Starter] # "idle"
      BY <2>1, <2>4 DEF Unstarted
    <3>. QED BY <2>2, <2>4, <3>1, <3>2 DEF Bound
  <2>. QED BY <2>3, <2>4
<1>4. SoleInv'
  <2>1. \/ writing' = writing
        \/ \E s \in Status \ {"none"}, f \in Phase, n \in 0 .. 4 :
              AsksFor(p, to, s, f, n) /\ (s = "ready" => n = 3)
    BY <1>1 DEF Walks, Orders
  <2>2. ~disturbed' => Live(p) \/ \A a \in Procs \cup Janitors : ~Engaged(a)
    BY <1>3
  <2>3. p # Starter /\ ~disturbed' => at[Starter] # "idle"
    BY <1>3
  <2>4. to \in Places /\ to \notin {"idle", "dead"} /\ to # "resume"
    OBVIOUS
  <2>. QED BY <1>2, <2>1, <2>2, <2>3, <2>4, ActingKeepsSole
<1>5. FlowInv'
  BY <1>1, <1>3, ActingKeepsFlow
<1>. QED BY <1>4, <1>5

LEMMA ResumeKeeps ==
    ASSUME TypeInv, SoleInv, FlowInv, NEW p \in Procs, p # Starter, Resume(p)
    PROVE  SoleInv' /\ FlowInv'
<1>. USE DEF TypeInv
<1>1. /\ Acts(p, "resume") /\ writing' = writing /\ at[p] = "idle" /\ (disturbed => disturbed')
      /\ manifest.status # "none" /\ UNCHANGED <<manifest, log, refused>>
      /\ done' = [done EXCEPT ![p] = manifest.done]
  <2>1. \A q \in Procs \ {p} : done'[q] = done[q]
    BY DEF Resume, TypeOK
  <2>. QED BY <2>1 DEF Resume, Acts, At, files, env
<1>2. ASSUME ~disturbed'
      PROVE  \A a \in Procs \cup Janitors : ~Engaged(a)
  <2>1. ~Busy((Procs \ {p}) \cup Janitors)
    BY <1>2 DEF Resume
  <2>2. \A a \in (Procs \ {p}) \cup Janitors : ~Engaged(a)
    BY <2>1, BusyEngaged
  <2>. QED BY <1>1, <2>2 DEF Engaged, Live
<1>3. ~disturbed' => at[Starter] # "idle"
  BY <1>1 DEF SoleInv, SoleWriter, Unstarted
<1>4. SoleInv'
  <2>1. "resume" \in Places /\ "resume" \notin {"idle", "dead"}
    BY DEF Places
  <2>. QED BY <1>1, <1>2, <1>3, <2>1, ActingKeepsSole
<1>5. RefusesOnlyReady'
  BY <1>1 DEF FlowInv, RefusesOnlyReady
<1>6. ASSUME ~disturbed'
      PROVE  Flow' /\ LiveRunIsActive'
  <2>1. ~disturbed /\ Flow /\ SoleWriter
    BY <1>1, <1>6 DEF FlowInv, SoleInv
  <2>2. /\ \A w \in Writers : Step(w, "idle")
        /\ \A q \in Procs \ {p} : at[q] \in {"idle", "dead", "end"}
    BY <1>1, <1>2, <1>6, <2>1, ActorAlone DEF Acts
  <2>3. /\ Asked' /\ Answered' /\ Under' /\ Over' /\ Settled' /\ Stamped' /\ LogState' = LogState
    BY <1>1, <2>1, <2>2, QuietFlow
  <2>4. /\ at' \in [Procs -> Places] /\ at'[p] = "resume"
        /\ \A q \in Procs \ {p} : at'[q] = at[q]
    BY <1>1, GotoEffect DEF Acts, Places
  <2>5. /\ manifest.status \in Status /\ manifest.phase \in Phase
        /\ State \in {"FAILED", "TIMED_OUT", "CANCELLED", "READY"}
    BY DEF Resume, Resumable, TypeOK, ManifestType
  <2>6. \/ manifest.status = "failed" /\ State = "FAILED"
        \/ manifest.status = "ready" /\ State = "READY"
    BY <2>5, TargetStatus DEF State, Reached
  <2>7. StateLogged
    <3>1. \A q \in Procs : ~HalfWritten(Main(q))
      BY <2>2, WriterNames DEF HalfWritten, Step
    <3>. QED BY <2>1, <2>6, <3>1 DEF Flow, Settled
  <2>8. State = LogState \/ (LogState = "RETRYING" /\ State = "READY")
    BY <2>7 DEF StateLogged, FlowInv, RefusesOnlyReady
  <2>9. manifest.status = "ready" => done'[p] = 3
    BY <1>1 DEF SoleInv, WriteInv, TypeOK
  <2>10. Bearings'
    <3>1. \A q \in Procs : \A s : Expects(at'[q], done'[q], s)
      BY <2>2, <2>4 DEF Expects
    <3>2. \A q \in Procs : Step(Main(q), "idle")'
      BY <1>1, <2>2, WriterNames DEF Step
    <3>3. Whereabouts(p)'
      BY <1>1, <2>3, <2>6, <2>8, <2>9, <3>1 DEF Whereabouts
    <3>4. \A q \in Procs \ {p} : Whereabouts(q)'
      BY <2>2, <2>4, <3>1 DEF Whereabouts
    <3>. QED BY <3>2, <3>3, <3>4 DEF Bearings
  <2>11. LiveRunIsActive'
    BY <2>2, <2>4 DEF LiveRunIsActive
  <2>. QED BY <2>3, <2>10, <2>11 DEF Flow
<1>. QED BY <1>4, <1>5, <1>6 DEF FlowInv, LiveRunIsActive

LEMMA HeartbeatKeeps ==
    ASSUME TypeInv, SoleInv, FlowInv, NEW p \in Procs, Heartbeat(p)
    PROVE  SoleInv' /\ FlowInv'
<1>. USE DEF TypeInv
<1>1. /\ at[p] = "packer" /\ Step(Main(p), "idle") /\ Step(Beat(p), "idle")
      /\ UNCHANGED <<manifest, log, torn, at, done, pruner, headLost, refused, disturbed>>
      /\ writing' = [writing EXCEPT ![Beat(p)] =
                        Write("manifest", "active", "packer-build", NoCheckpoint, 0)]
  BY DEF Heartbeat, At, Ask, files, env, past
<1>2. /\ Beat(p) \in Writers /\ Beat(p)[2] = p
      /\ \A q \in Procs : Main(q) \in Writers /\ Main(q) # Beat(p)
      /\ \A q \in Procs : Beat(q) \in Writers /\ (q # p => Beat(q) # Beat(p))
      /\ \A j \in Janitors : Main(j) \in Writers /\ Main(j) # Beat(p)
  BY Mains, WriterNames
<1>3. /\ writing'[Beat(p)].step = "manifest" /\ writing'[Beat(p)].status = "active"
      /\ writing'[Beat(p)].phase = "packer-build" /\ writing'[Beat(p)].id = 0
      /\ \A w \in Writers \ {Beat(p)} : writing'[w] = writing[w]
  BY <1>1, <1>2 DEF Write, TypeOK
<1>4. Live(p)
  BY <1>1 DEF Live, Finished
<1>5. SoleInv'
  <2>1. \A a \in Procs \cup Janitors : Engaged(a)' <=> Engaged(a)
    BY <1>1, <1>2, <1>3 DEF Engaged, Live, Finished, Step
  <2>2. SoleWriter'
    <3>. SUFFICES ASSUME ~disturbed PROVE Alone' /\ Own' /\ Unstarted' /\ ~torn' /\ ~headLost'
      BY <1>1 DEF SoleWriter
    <3>1. Alone /\ Own /\ Unstarted /\ ~torn /\ ~headLost
      BY DEF SoleInv, SoleWriter
    <3>2. Alone'
      BY <2>1, <3>1 DEF Alone
    <3>3. Own'
      BY <1>1, <1>2, <1>3, <3>1 DEF Own, Step
    <3>4. Unstarted'
      BY <1>1, <1>2, <1>3, <3>1 DEF Unstarted, Step
    <3>. QED BY <1>1, <3>1, <3>2, <3>3, <3>4
  <2>3. WriteInv'
    BY <1>1, <1>2, <1>3 DEF SoleInv, WriteInv, Step
  <2>. QED BY <2>2, <2>3 DEF SoleInv
<1>6. RefusesOnlyReady'
  BY <1>1 DEF FlowInv, RefusesOnlyReady
<1>7. ASSUME ~disturbed
      PROVE  Flow' /\ LiveRunIsActive'
  <2>1. Flow /\ SoleWriter /\ LogState' = LogState
    BY <1>1, <1>7, SameLogState DEF FlowInv, SoleInv
  <2>2. \A w \in Writers : writing[w].step = "idle"
    BY <1>1, <1>4, <1>7, <2>1, ActorAlone DEF Step
  <2>3. Target(Beat(p))' = "BUILDING"
    BY <1>3, Targets DEF Target
  <2>4. LogState = "BUILDING"
    BY <1>1, <2>1 DEF Flow, Bearings, Whereabouts, Expects
  <2>5. MayFollow("BUILDING", "BUILDING")
    BY Followers
  <2>6. Asked' /\ Answered' /\ Under'
    BY <1>3, <2>1, <2>2, <2>3, <2>4, <2>5 DEF Asked, Answered, Under
  <2>7. \A q \in Procs : Step(Main(q), "idle") /\ Step(Main(q), "idle")'
    BY <1>2, <1>3, <2>2 DEF Step
  <2>8. Bearings'
    BY <1>1, <2>1, <2>7 DEF Flow, Bearings, Whereabouts
  <2>9. Over'
    BY <1>1, <2>1 DEF Flow, Over
  <2>10. Settled'
    <3>1. \A q \in Procs : ~HalfWritten(Main(q))
      BY <1>2, <2>2 DEF HalfWritten
    <3>. QED BY <1>1, <2>1, <3>1 DEF Flow, Settled, StateLogged, State
  <2>11. Stamped'
    BY <1>1, <1>3, <2>1 DEF Flow, Stamped, Logged
  <2>12. LiveRunIsActive'
    BY <1>1, <2>7 DEF FlowInv, LiveRunIsActive
  <2>. QED BY <2>6, <2>8, <2>9, <2>10, <2>11, <2>12 DEF Flow
<1>. QED BY <1>1, <1>5, <1>6, <1>7 DEF FlowInv, LiveRunIsActive

LEMMA KillKeeps ==
    ASSUME TypeInv, SoleInv, FlowInv, NEW p \in Procs, Kill(p)
    PROVE  SoleInv' /\ FlowInv'
<1>. USE DEF TypeInv
<1>1. /\ at' \in [Procs -> Places] /\ at'[p] = "dead" /\ Live(p)
      /\ \A q \in Procs \ {p} : at'[q] = at[q]
      /\ UNCHANGED <<manifest, log, torn, done, pruner, headLost, refused>>
      /\ disturbed' = (disturbed \/ HalfWritten(Main(p)))
  BY GotoEffect DEF Kill, files, Places
<1>2. Idle.step = "idle" /\ Idle.status = "none" /\ Idle.id = 0
  BY DEF Idle, Write
<1>3. \A w \in Writers : writing'[w] = (IF w[2] = p THEN Idle ELSE writing[w])
  BY DEF Kill
<1>4. \A w \in Writers : Step(w, "idle") => Step(w, "idle")'
  BY <1>2, <1>3 DEF Step
<1>5. /\ \A q \in Procs \cup Janitors : Main(q) \in Writers /\ Main(q)[2] = q
      /\ \A q \in Procs : Beat(q) \in Writers /\ Beat(q)[2] = q
      /\ \A j \in Janitors : j # p /\ j \notin Procs
  BY WriterNames
<1>6. SoleInv'
  <2>1. SoleWriter'
    <3>. SUFFICES ASSUME ~disturbed' PROVE Alone' /\ Own' /\ Unstarted' /\ ~torn' /\ ~headLost'
      BY DEF SoleWriter
    <3>1. Alone /\ Own /\ Unstarted /\ ~torn /\ ~headLost
      BY <1>1 DEF SoleInv, SoleWriter
    <3>2. \A a \in Procs \cup Janitors : Engaged(a)' => Engaged(a)
      BY <1>1, <1>3, <1>5 DEF Engaged, Live, Finished, Step
    <3>3. Alone'
      BY <3>1, <3>2 DEF Alone
    <3>4. Own'
      BY <1>1, <1>2, <1>3, <1>5, <3>1 DEF Own, Step
    <3>5. Unstarted'
      BY <1>1, <3>1, Mains DEF Unstarted, Live
    <3>. QED BY <1>1, <3>1, <3>3, <3>4, <3>5
  <2>2. WriteInv'
    <3>1. \A w \in Writers : writing'[w] = writing[w] \/ writing'[w] = Idle
      BY <1>3
    <3>2. UNCHANGED <<manifest, pruner>> /\ (disturbed => disturbed')
      BY <1>1
    <3>. QED BY <1>2, <1>5, <3>1, <3>2 DEF SoleInv, WriteInv, Step
  <2>. QED BY <2>1, <2>2 DEF SoleInv
<1>7. RefusesOnlyReady'
  BY <1>1 DEF FlowInv, RefusesOnlyReady
<1>8. ASSUME ~disturbed'
      PROVE  Flow' /\ LiveRunIsActive'
  <2>1. /\ ~disturbed /\ ~HalfWritten(Main(p)) /\ Flow /\ SoleWriter /\ Alone
        /\ LogState' = LogState
    BY <1>1, <1>8, SameLogState DEF FlowInv, SoleInv, SoleWriter
  <2>2. \A a \in (Procs \cup Janitors) \ {p} : ~Engaged(a)
    BY <1>1, <2>1 DEF Alone, Engaged
  <2>3. \A w \in Writers : w[2] # p => writing[w].step = "idle"
    BY <2>1, <2>2, LoneWriter DEF Step
  <2>4. \A w \in Writers : writing'[w].step = "idle"
    BY <1>2, <1>3, <2>3
  <2>5. \A q \in Procs : at'[q] \in {"idle", "dead", "end"}
    BY <1>1, <2>2 DEF Engaged, Live, Finished
  <2>6. Asked' /\ Answered' /\ Under'
    BY <2>4 DEF Asked, Answered, Under
  <2>7. Bearings'
    <3>1. \A q \in Procs : \A s : Expects(at'[q], done'[q], s)
      BY <2>5 DEF Expects
    <3>. QED BY <2>5, <3>1 DEF Bearings, Whereabouts
  <2>8. Over'
    BY <1>1, <2>1 DEF Flow, Over
  <2>9. Settled'
    <3>1. \A q \in Procs : ~HalfWritten(Main(q))
      BY <1>5, <2>1, <2>3 DEF HalfWritten
    <3>. QED BY <1>1, <2>1, <3>1 DEF Flow, Settled, StateLogged, State
  <2>10. Stamped'
    BY <1>1, <1>2, <1>3, <2>1 DEF Flow, Stamped, Logged
  <2>11. LiveRunIsActive'
    BY <2>5 DEF LiveRunIsActive
  <2>. QED BY <2>6, <2>7, <2>8, <2>9, <2>10, <2>11 DEF Flow
<1>. QED BY <1>6, <1>7, <1>8 DEF FlowInv, LiveRunIsActive

LEMMA LeaseExpiryKeeps ==
    ASSUME TypeInv, SoleInv, FlowInv, LeaseExpires
    PROVE  SoleInv' /\ FlowInv'
<1>. USE DEF TypeInv
<1>1. /\ manifest.status = "active" /\ manifest' = [manifest EXCEPT !.lease = FALSE]
      /\ UNCHANGED <<log, torn, writing, at, done, pruner, headLost, refused>>
      /\ ~disturbed' => ~disturbed /\ ~Busy(Procs)
      /\ disturbed => disturbed'
  BY DEF LeaseExpires, procs
<1>2. /\ manifest'.status = "active" /\ manifest'.stamp = manifest.stamp
      /\ manifest'.phase = manifest.phase /\ manifest'.done = manifest.done
  BY <1>1 DEF TypeOK, ManifestType
<1>3. SoleInv'
  BY <1>1, <1>2 DEF SoleInv, SoleWriter, Alone, Own, Unstarted, WriteInv, Engaged, Live, Finished, Step
<1>4. RefusesOnlyReady'
  BY <1>1 DEF FlowInv, RefusesOnlyReady
<1>5. ASSUME ~disturbed'
      PROVE  Flow' /\ LiveRunIsActive'
  <2>1. ~disturbed /\ Flow /\ SoleWriter /\ LogState' = LogState
    BY <1>1, <1>5, SameLogState DEF FlowInv, SoleInv
  <2>2. \A q \in Procs : ~Engaged(q)
    BY <1>1, <1>5, BusyEngaged
  <2>3. \A q \in Procs : at[q] \in {"idle", "dead", "end"}
    BY <2>2 DEF Engaged, Live, Finished
  <2>4. \A w \in Writers : w[2] \in Procs => writing[w].step = "idle"
    BY <2>1, <2>2, LoneWriter DEF Step
  <2>5. Asked' /\ Answered' /\ Under'
    BY <1>1, <1>2, <2>1, <2>4 DEF Flow, Asked, Answered, Under, Target
  <2>6. Bearings'
    <3>1. \A q \in Procs : \A s : Expects(at'[q], done'[q], s)
      BY <1>1, <2>3 DEF Expects
    <3>. QED BY <1>1, <2>3, <3>1 DEF Bearings, Whereabouts
  <2>7. Over' /\ Settled'
    BY <1>1, <1>2, <2>1 DEF Flow, Over, Settled
  <2>8. Stamped'
    BY <1>1, <1>2, <2>1 DEF Flow, Stamped, Logged
  <2>9. LiveRunIsActive'
    BY <1>1, <2>3 DEF LiveRunIsActive
  <2>. QED BY <2>5, <2>6, <2>7, <2>8, <2>9 DEF Flow
<1>. QED BY <1>3, <1>4, <1>5 DEF FlowInv, LiveRunIsActive

LEMMA ReconcileKeeps ==
    ASSUME TypeInv, SoleInv, FlowInv, NEW j \in Janitors, Reconcile(j)
    PROVE  SoleInv' /\ FlowInv'
<1>. USE DEF TypeInv
<1>1. /\ UNCHANGED <<manifest, log, torn, at, done, pruner, headLost, refused>>
      /\ disturbed => disturbed'
  BY DEF Reconcile, PlanExpiry, ApplyExpiry, files, procs, env, past
<1>2. CASE writing' = writing /\ disturbed' = disturbed
  <2>1. SoleInv'
    BY <1>1, <1>2 DEF SoleInv, SoleWriter, Alone, Own, Unstarted, WriteInv, Engaged, Live,
       Finished, Step
  <2>2. FlowInv'
    <3>1. LogState' = LogState
      BY <1>1, SameLogState
    <3>2. Flow => Asked' /\ Answered' /\ Under' /\ Over' /\ Stamped'
      BY <1>1, <1>2, <3>1 DEF Flow, Asked, Answered, Under, Over, Stamped, Logged, Target
    <3>3. Flow => Bearings'
      BY <1>1, <1>2, <3>1 DEF Flow, Bearings, Whereabouts, Step, Target
    <3>4. Flow => Settled'
      BY <1>1, <1>2, <3>1 DEF Flow, Settled, StateLogged, HalfWritten, State
    <3>5. LiveRunIsActive' /\ RefusesOnlyReady'
      BY <1>1, <1>2 DEF FlowInv, LiveRunIsActive, RefusesOnlyReady, Step
    <3>. QED BY <1>2, <3>2, <3>3, <3>4, <3>5 DEF FlowInv, Flow
  <2>. QED BY <2>1, <2>2
<1>3. CASE ~(writing' = writing /\ disturbed' = disturbed)
  <2>1. /\ manifest.status = "active"
        /\ writing' = [writing EXCEPT ![Main(j)] =
                          Write("lock", "failed", "lease-expired", manifest.done, 0)]
        /\ disturbed' = (disturbed \/ Busy(Procs \cup Janitors))
    BY <1>3 DEF Reconcile, PlanExpiry, ApplyExpiry, past
  <2>2. /\ Main(j) \in Writers /\ Main(j)[2] = j /\ j \notin Procs
        /\ \A q \in Procs : /\ Main(q) \in Writers /\ Main(q) # Main(j)
                            /\ Beat(q) \in Writers /\ Beat(q) # Main(j)
        /\ \A i \in Janitors : Main(i) \in Writers /\ (i # j => Main(i) # Main(j))
    BY Mains, WriterNames
  <2>3. /\ writing'[Main(j)].step = "lock" /\ writing'[Main(j)].status = "failed"
        /\ writing'[Main(j)].phase = "lease-expired" /\ writing'[Main(j)].id = 0
        /\ \A w \in Writers \ {Main(j)} : writing'[w] = writing[w]
    BY <2>1, <2>2 DEF Write, TypeOK
  <2>4. ASSUME ~disturbed'
        PROVE  /\ ~disturbed /\ \A a \in Procs \cup Janitors : ~Engaged(a)
               /\ \A w \in Writers : writing[w].step = "idle"
    <3>1. ~disturbed /\ ~Busy(Procs \cup Janitors)
      BY <2>1, <2>4
    <3>2. \A a \in Procs \cup Janitors : ~Engaged(a)
      BY <3>1, BusyEngaged
    <3>. QED BY <3>1, <3>2, NobodyEngaged DEF SoleInv, Step
  <2>5. SoleInv'
    <3>1. SoleWriter'
      <4>. SUFFICES ASSUME ~disturbed' PROVE Alone' /\ Own' /\ Unstarted' /\ ~torn' /\ ~headLost'
        BY DEF SoleWriter
      <4>1. ~disturbed /\ Alone /\ Own /\ Unstarted /\ ~torn /\ ~headLost
        BY <2>4 DEF SoleInv, SoleWriter
      <4>2. \A a \in (Procs \cup Janitors) \ {j} : ~Engaged(a)'
        BY <1>1, <2>2, <2>3, <2>4 DEF Engaged, Live, Finished, Step
      <4>3. Alone'
        BY <4>2 DEF Alone
      <4>4. Own'
        BY <1>1, <2>2, <2>3, <4>1 DEF Own, Step
      <4>5. Unstarted'
        BY <1>1, <2>1, <4>1 DEF Unstarted
      <4>. QED BY <1>1, <4>1, <4>3, <4>4, <4>5
    <3>2. WriteInv'
      BY <1>1, <2>2, <2>3 DEF SoleInv, WriteInv, Step
    <3>. QED BY <3>1, <3>2 DEF SoleInv
  <2>6. RefusesOnlyReady'
    BY <1>1 DEF FlowInv, RefusesOnlyReady
  <2>7. ASSUME ~disturbed'
        PROVE  Flow' /\ LiveRunIsActive'
    <3>1. Flow /\ LogState' = LogState
      BY <1>1, <2>4, <2>7, SameLogState DEF FlowInv
    <3>2. \A q \in Procs : at[q] \in {"idle", "dead", "end"}
      BY <2>4, <2>7 DEF Engaged, Live, Finished
    <3>3. Target(Main(j))' = "FAILED"
      BY <2>3, Targets DEF Target, Phase
    <3>4. MayFollow(LogState, "FAILED")
      <4>1. LogState \in (Reached \cup {"none"}) \ {"APPROVED"}
        BY <2>1, <3>1 DEF Flow, Over
      <4>. QED BY <4>1, Followers DEF Reached
    <3>5. Asked' /\ Answered' /\ Under'
      BY <1>1, <2>1, <2>2, <2>3, <2>4, <2>7, <3>1, <3>3, <3>4 DEF Asked, Answered, Under
    <3>6. Bearings'
      <4>1. \A q \in Procs : \A s : Expects(at'[q], done'[q], s)
        BY <1>1, <3>2 DEF Expects
      <4>. QED BY <1>1, <3>2, <4>1 DEF Bearings, Whereabouts
    <3>7. Over' /\ Settled'
      BY <1>1, <2>1, <3>1 DEF Flow, Over, Settled
    <3>8. Stamped'
      BY <1>1, <2>3, <3>1 DEF Flow, Stamped, Logged
    <3>9. LiveRunIsActive'
      BY <1>1, <3>2 DEF LiveRunIsActive
    <3>. QED BY <3>5, <3>6, <3>7, <3>8, <3>9 DEF Flow
  <2>. QED BY <2>5, <2>6, <2>7 DEF FlowInv, LiveRunIsActive
<1>. QED BY <1>2, <1>3

LEMMA UnchangedKeeps ==
    ASSUME SoleInv, FlowInv,
           UNCHANGED <<manifest, log, torn, writing, at, done, headLost, refused, disturbed>>,
           pruner' = "unlinked" => disturbed
    PROVE  SoleInv' /\ FlowInv'
<1>1. SoleInv'
  BY DEF SoleInv, SoleWriter, Alone, Own, Unstarted, WriteInv, Engaged, Live, Finished, Step
<1>2. LogState' = LogState
  BY SameLogState
<1>3. Flow => Asked' /\ Answered' /\ Under' /\ Over' /\ Stamped'
  BY <1>2 DEF Flow, Asked, Answered, Under, Over, Stamped, Logged, Target
<1>4. Flow => Bearings'
  BY <1>2 DEF Flow, Bearings, Whereabouts, Step, Target
<1>5. Flow => Settled'
  BY <1>2 DEF Flow, Settled, StateLogged, HalfWritten, State
<1>6. LiveRunIsActive' /\ RefusesOnlyReady'
  BY DEF FlowInv, LiveRunIsActive, RefusesOnlyReady, Step
<1>. QED BY <1>1, <1>3, <1>4, <1>5, <1>6 DEF FlowInv, Flow

LEMMA PruneKeeps == ASSUME TypeInv, SoleInv, FlowInv, Prune PROVE SoleInv' /\ FlowInv'
<1>1. UNCHANGED <<writing, at, done, refused>>
  BY DEF Prune, procs
<1>2. CASE pruner \in {"idle", "read"}
  BY <1>1, <1>2, UnchangedKeeps DEF Prune
<1>3. CASE pruner \in {"rewritten", "unlinked"}
  <2>1. disturbed' /\ (manifest' = manifest \/ manifest' = NoManifest)
    BY <1>3 DEF Prune, SoleInv, WriteInv
  <2>2. WriteInv'
    BY <1>1, <2>1 DEF SoleInv, WriteInv, Step, NoManifest, Manifest
  <2>. QED BY <1>1, <2>1, <2>2 DEF SoleInv, SoleWriter, FlowInv, RefusesOnlyReady, LiveRunIsActive
<1>. QED BY <1>2, <1>3 DEF TypeInv, TypeOK

LEMMA FlowInit == Init => SoleInv /\ FlowInv
<1>. SUFFICES ASSUME Init PROVE SoleInv /\ FlowInv
  OBVIOUS
<1>1. /\ \A w \in Writers : /\ writing[w].step = "idle" /\ writing[w].status = "none"
                            /\ writing[w].id = 0
      /\ \A p \in Procs : at[p] = "idle" /\ done[p] = 0
      /\ manifest.status = "none" /\ manifest.stamp = 0
      /\ log = <<>> /\ ~torn /\ ~headLost /\ refused = {} /\ pruner = "idle"
  BY DEF Init, Idle, Write, NoManifest, Manifest
<1>2. SoleInv
  BY <1>1, WriterNames, Mains
     DEF SoleInv, SoleWriter, Alone, Own, Unstarted, WriteInv, Engaged, Live, Step
<1>3. LogState = "none"
  BY <1>1 DEF LogState
<1>4. Bearings
  BY <1>1, <1>3, WriterNames DEF Bearings, Whereabouts, Expects, Step
<1>. QED
  BY <1>1, <1>2, <1>3, <1>4 DEF FlowInv, Flow, Asked, Answered, Under, Over, Settled, Stamped,
     Logged, RefusesOnlyReady, LiveRunIsActive

LEMMA FlowNext == TypeInv /\ LogInv /\ SoleInv /\ FlowInv /\ [Next]_vars => SoleInv' /\ FlowInv'
<1>. SUFFICES ASSUME TypeInv, LogInv, SoleInv, FlowInv, [Next]_vars PROVE SoleInv' /\ FlowInv'
  OBVIOUS
<1>1. CASE \E w \in Writers : Writing(w) \/ TearEvent(w)
  BY <1>1, WriterEffects, WritingKeepsSole, WritingKeepsFlow DEF TypeInv
<1>2. CASE Begin
  BY <1>2, BeginProceeds, ProceedingKeeps, Mains
<1>3. CASE \E p \in Resumers : Resume(p)
  BY <1>3, ResumeKeeps, LifecycleAssumption DEF Procs
<1>4. CASE \E p \in Procs : Working(p) \/ Heartbeat(p) \/ Kill(p)
  BY <1>4, WorkingProceeds, ProceedingKeeps, HeartbeatKeeps, KillKeeps
<1>5. CASE \E j \in Janitors : Reconcile(j)
  BY <1>5, ReconcileKeeps
<1>6. CASE LeaseExpires
  BY <1>6, LeaseExpiryKeeps
<1>7. CASE Prune
  BY <1>7, PruneKeeps
<1>8. CASE UNCHANGED vars
  BY <1>8, UnchangedKeeps DEF vars, files, procs, env, past, SoleInv, WriteInv
<1>. QED BY <1>1, <1>2, <1>3, <1>4, <1>5, <1>6, <1>7, <1>8 DEF Next

(* One invocation at a time, however often it is killed and resumed, asks  *)
(* the log only for transitions that it accepts; but for the resume        *)
(* without --build of a run whose stages had passed, which is ready again. *)
THEOREM RefusesReady == Spec => []RefusesOnlyReady
<1>1. FlowInv => RefusesOnlyReady
  BY DEF FlowInv
<1>. QED BY <1>1, TypeInit, TypeNext, LogInit, LogNext, FlowInit, FlowNext, PTL DEF Spec

(* As long as a build or a probe has an instance in an undisturbed run,    *)
(* the run is active under an unexpired lease: cleanup-runs spares it.     *)
THEOREM LiveRunsActive == Spec => []LiveRunIsActive
<1>1. FlowInv => LiveRunIsActive
  BY DEF FlowInv
<1>. QED BY <1>1, TypeInit, TypeNext, LogInit, LogNext, FlowInit, FlowNext, PTL DEF Spec

(* When nobody is writing and nothing has disturbed the run, a manifest    *)
(* that says the run is over says so of the state its log ends in, or of   *)
(* one that the log has refused, and its stamp is in the log.              *)
THEOREM ManifestsMatch == Spec => []ManifestMatchesLog
<1>1. FlowInv => ManifestMatchesLog
  <2>. SUFFICES ASSUME FlowInv, ~disturbed, manifest.status \notin {"none", "active"},
                       \A w \in Writers : Step(w, "idle")
                PROVE  /\ log # <<>>
                       /\ State = Last(log).to \/ <<Last(log).to, State>> \in refused
                       /\ Logged(manifest.stamp)
    BY DEF ManifestMatchesLog
  <2>1. \A p \in Procs : ~HalfWritten(Main(p))
    BY WriterNames DEF HalfWritten, Step
  <2>2. StateLogged /\ Logged(manifest.stamp)
    BY <2>1 DEF FlowInv, Flow, Settled, Stamped
  <2>. QED BY <2>2 DEF StateLogged, LogState
<1>. QED BY <1>1, TypeInit, TypeNext, LogInit, LogNext, FlowInit, FlowNext, PTL DEF Spec

-----------------------------------------------------------------------------
(* What the reconciler has logged.  Only a resumed command retries, so in  *)
(* the log of a run that was never resumed nothing but FAILED follows a    *)
(* FAILED; and the event that a write has logged, if it is still in the    *)
(* log, is in the state that was asked for.  This holds whatever disturbs  *)
(* the run.                                                                *)

NoRetry == at[Starter] # "resume"
           /\ (Resumed \/ \A w \in Writers : ~Step(w, "idle") => Target(w) # "RETRYING")
FailedStays ==
    Resumed \/ \A i, k \in DOMAIN log : i < k /\ log[i].to = "FAILED" => log[k].to = "FAILED"
IdInv ==
    /\ nextId > 0
    /\ \A i \in DOMAIN log : log[i].id < nextId
    /\ \A w \in Writers :
          /\ writing[w].id < nextId /\ (Step(w, "stamp") => writing[w].id # 0)
          /\ writing[w].id # 0 =>
                \A i \in DOMAIN log : log[i].id = writing[w].id => log[i].to = Target(w)
SpareInv == NoRetry /\ FailedStays /\ IdInv

LEMMA RetryingPhase ==
    ASSUME NEW s \in Status, NEW f \in Phase, StateOf(s, f) = "RETRYING"
    PROVE  f = "launch-retry"
<1>1. PhaseState(f) = "RETRYING" => f = "launch-retry"
  BY DEF PhaseState, Phase
<1>2. StateOf(s, f) \in {"FAILED", "READY", "APPROVED", "EVIDENCE_READY"} \/ StateOf(s, f) = PhaseState(f)
  BY DEF StateOf, Status
<1>. QED BY <1>1, <1>2

(* A step that draws no event: of every write, nothing, its stage or its   *)
(* end, and of the log nothing or its end.                                 *)
NoEvent ==
    /\ UNCHANGED nextId /\ log' \in {log, <<>>}
    /\ \A w \in Writers :
          \/ writing'[w] = writing[w]
          \/ writing'[w].id = 0 /\ writing'[w].step # "stamp"
          \/ /\ writing'[w].id = writing[w].id /\ Target(w)' = Target(w)
             /\ writing'[w].step = "stamp" => writing[w].id # 0

LEMMA NoEventKeepsIds == ASSUME TypeOK, IdInv, NoEvent PROVE IdInv'
<1>1. \A i \in DOMAIN log' : i \in DOMAIN log /\ log'[i] = log[i]
  BY DEF NoEvent
<1>2. \A w \in Writers : writing'[w].id = 0 \/
          (writing'[w].id = writing[w].id /\ Target(w)' = Target(w))
  BY DEF NoEvent, Target
<1>3. \A w \in Writers : Step(w, "stamp")' => writing'[w].id # 0
  BY DEF NoEvent, IdInv, Step
<1>. QED BY <1>1, <1>2, <1>3 DEF NoEvent, IdInv

LEMMA WritingDrawsNoEvent ==
    ASSUME TypeOK, NEW w \in Writers, Writing(w) \/ TearEvent(w), ~AppendEvent(w)
    PROVE  NoEvent /\ UNCHANGED log
<1>1. writing[w] \in WriteType /\ Idle.id = 0 /\ Idle.step # "stamp"
  BY DEF TypeOK, Idle, Write
<1>2. UNCHANGED <<nextId, log>>
  BY DEF Writing, TearEvent, WriteManifest, ManifestTimeout, LockLog, LogTimeout, RefuseEvent,
     UnlockLog, Stamp, files
<1>3. /\ \A v \in Writers \ {w} : writing'[v] = writing[v]
      /\ \/ writing'[w] = Idle
         \/ /\ writing'[w].status = writing[w].status /\ writing'[w].phase = writing[w].phase
            /\ writing'[w].id = writing[w].id
            /\ writing'[w].step = "stamp" => writing[w].id # 0
  <2>1. CASE WriteManifest(w)
    BY <1>1, <2>1 DEF WriteManifest, TypeOK, WriteType
  <2>2. CASE ManifestTimeout(w) \/ LogTimeout(w) \/ Stamp(w)
    BY <2>2 DEF ManifestTimeout, LogTimeout, Stamp, Stop, TypeOK
  <2>3. CASE LockLog(w) \/ RefuseEvent(w) \/ TearEvent(w)
    BY <1>1, <2>3 DEF LockLog, RefuseEvent, TearEvent, Move, TypeOK, WriteType
  <2>4. CASE UnlockLog(w)
    <3>1. writing' = [writing EXCEPT ![w] = IF Unlogged(w) THEN Idle
                                            ELSE [writing[w] EXCEPT !.step = "stamp"]]
      BY <2>4 DEF UnlockLog, Stop, Move
    <3>. QED BY <1>1, <3>1 DEF Unlogged, TypeOK, WriteType
  <2>. QED BY <2>1, <2>2, <2>3, <2>4 DEF Writing
<1>. QED BY <1>1, <1>2, <1>3 DEF NoEvent, Target

(* AppendEvent draws one. *)
LEMMA DrawnEvent ==
    ASSUME TypeInv, LogInv, NEW w \in Writers, AppendEvent(w)
    PROVE  /\ \/ UNCHANGED log
              \/ log' = Append(log, NextEvent(w)) /\ Extends(NextEvent(w))
           /\ nextId' = nextId + 1 /\ NextEvent(w).id = nextId
           /\ NextEvent(w).to \in {"CREATED", Target(w)}
           /\ ~Begins(w) => NextEvent(w).to = Target(w)
           /\ writing[w].step = "append"
<1>. USE DEF TypeInv
<1>1. CASE torn
  BY <1>1, EventIds DEF AppendEvent, Appending, Step, NextEvent, Begins
<1>2. CASE ~torn
  <2>1. log' = Append(log, NextEvent(w)) /\ headLost' = headLost
    BY <1>2 DEF AppendEvent, TypeOK
  <2>2. seen[w] = log \/ (headLost /\ log = <<>>)
    BY DEF AppendEvent, Appending, LogInv, SeenInv
  <2>3. Extends(NextEvent(w))
    BY <2>1, <2>2, NextEventFields DEF AppendEvent, Extends
  <2>. QED BY <2>1, <2>3, EventIds DEF AppendEvent, Appending, Step, NextEvent, Begins
<1>. QED BY <1>1, <1>2

LEMMA AppendKeepsIds ==
    ASSUME TypeInv, LogInv, IdInv, NEW w \in Writers, AppendEvent(w)
    PROVE  IdInv'
<1>. USE DEF TypeInv
<1>1. /\ UNCHANGED log \/ log' = Append(log, NextEvent(w))
      /\ nextId' = nextId + 1 /\ NextEvent(w).id = nextId
      /\ ~Begins(w) => NextEvent(w).to = Target(w)
      /\ NextEvent(w) \in EventType /\ nextId \in Nat
  BY DrawnEvent, NextEventType DEF TypeOK
<1>2. /\ \A v \in Writers \ {w} : writing'[v] = writing[v]
      /\ writing'[w].status = writing[w].status /\ writing'[w].phase = writing[w].phase
      /\ \/ Begins(w) /\ writing'[w] = writing[w]
         \/ ~Begins(w) /\ writing'[w].id = nextId
  BY DEF AppendEvent, TypeOK, WriteType
<1>3. \A i \in DOMAIN log' : \/ i \in DOMAIN log /\ log'[i] = log[i]
                             \/ log'[i] = NextEvent(w)
  <2>1. CASE UNCHANGED log
    BY <2>1
  <2>2. CASE log' = Append(log, NextEvent(w))
    <3>1. log \in Seq(EventType)
      BY DEF TypeOK
    <3>. QED BY <1>1, <2>2, <3>1
  <2>. QED BY <1>1, <2>1, <2>2
<1>4. \A v \in Writers : Target(v)' = Target(v)
  BY <1>2 DEF Target
<1>5. /\ \A v \in Writers : writing[v].id \in Nat
      /\ \A i \in DOMAIN log : log[i].id \in Nat
  <2>1. \A v \in Writers : writing[v].id \in Nat
    BY DEF TypeOK, WriteType
  <2>2. \A i \in DOMAIN log : log[i] \in EventType
    BY DEF TypeOK
  <2>. QED BY <2>1, <2>2 DEF EventType
<1>6. \A i \in DOMAIN log' : log'[i].id < nextId'
  BY <1>1, <1>3, <1>5 DEF IdInv
<1>7. ASSUME NEW v \in Writers
      PROVE  /\ writing'[v].id < nextId' /\ (Step(v, "stamp")' => writing'[v].id # 0)
             /\ writing'[v].id # 0 =>
                   \A i \in DOMAIN log' : log'[i].id = writing'[v].id => log'[i].to = Target(v)'
  <2>1. CASE writing'[v] = writing[v]
    BY <1>1, <1>3, <1>4, <1>5, <2>1 DEF IdInv, Step
  <2>2. CASE v = w /\ ~Begins(w) /\ writing'[w].id = nextId
    BY <1>1, <1>3, <1>4, <1>5, <2>2 DEF IdInv
  <2>. QED BY <1>2, <2>1, <2>2
<1>. QED BY <1>1, <1>6, <1>7 DEF IdInv

LEMMA AppendKeepsFailed ==
    ASSUME TypeInv, LogInv, NoRetry, FailedStays, NEW w \in Writers, AppendEvent(w)
    PROVE  FailedStays'
<1>. USE DEF TypeInv
<1>1. UNCHANGED at
  BY DEF AppendEvent, procs
<1>2. CASE UNCHANGED log
  BY <1>1, <1>2 DEF FailedStays, Resumed
<1>3. CASE log' = Append(log, NextEvent(w)) /\ Extends(NextEvent(w))
  <2>. SUFFICES ASSUME ~Resumed, NEW i \in DOMAIN log', NEW k \in DOMAIN log',
                       i < k, log'[i].to = "FAILED"
                PROVE  log'[k].to = "FAILED"
    BY <1>1 DEF FailedStays, Resumed
  <2>1. /\ Len(log) \in Nat /\ DOMAIN log = 1 .. Len(log) /\ DOMAIN log' = 1 .. Len(log) + 1
        /\ log'[Len(log) + 1] = NextEvent(w) /\ \A m \in 1 .. Len(log) : log'[m] = log[m]
    BY <1>3 DEF TypeOK
  <2>2. CASE k \in 1 .. Len(log)
    BY <2>1, <2>2 DEF FailedStays
  <2>3. CASE k = Len(log) + 1
    <3>1. i \in 1 .. Len(log) /\ log[i].to = "FAILED" /\ log # <<>>
      BY <2>1, <2>3
    <3>2. log[Len(log)].to = "FAILED"
      BY <2>1, <3>1 DEF FailedStays
    <3>3. NextEvent(w).to \in Successors("FAILED")
      BY <1>3, <3>1, <3>2 DEF Extends
    <3>4. NextEvent(w).to \in {"FAILED", "RETRYING"}
      BY <3>3 DEF Successors
    <3>5. NextEvent(w).to # "RETRYING"
      BY DrawnEvent DEF NoRetry, Step
    <3>. QED BY <2>1, <2>3, <3>4, <3>5
  <2>. QED BY <2>1, <2>2, <2>3
<1>. QED BY <1>2, <1>3, DrawnEvent

LEMMA CommandsSpare ==
    ASSUME TypeInv, SpareInv, NEW p \in Procs, NEW to \in Places \ {"idle"}, Acts(p, to),
           UNCHANGED nextId, to = "resume" => p # Starter,
           \/ writing' = writing
           \/ \E s \in Status, f \in Phase, n \in 0 .. 4 :
                 AsksFor(p, to, s, f, n) /\ (f = "launch-retry" => at[p] = "resume")
    PROVE  SpareInv'
<1>. USE DEF TypeInv
<1>1. /\ at'[p] = to /\ \A q \in Procs \ {p} : at'[q] = at[q]
      /\ UNCHANGED log /\ Main(p) \in Writers
  BY GotoEffect, WriterNames DEF Acts, files
<1>2. Resumed => Resumed'
  BY <1>1 DEF Resumed, Procs
<1>3. at'[Starter] # "resume"
  BY <1>1, Mains DEF SpareInv, NoRetry
<1>4. CASE writing' = writing
  <2>1. NoRetry'
    BY <1>2, <1>3, <1>4 DEF SpareInv, NoRetry, Step, Target
  <2>2. NoEvent
    BY <1>1, <1>4 DEF NoEvent
  <2>. QED BY <1>1, <1>2, <2>1, <2>2, NoEventKeepsIds DEF SpareInv, FailedStays
<1>5. CASE writing' # writing
  <2>1. PICK s \in Status, f \in Phase, n \in 0 .. 4 :
            AsksFor(p, to, s, f, n) /\ (f = "launch-retry" => at[p] = "resume")
    BY <1>5
  <2>2. /\ writing'[Main(p)].step = "manifest" /\ writing'[Main(p)].id = 0
        /\ Target(Main(p))' = StateOf(s, f)
        /\ \A w \in Writers \ {Main(p)} : writing'[w] = writing[w]
    BY <2>1 DEF AsksFor, Acts, Write, Target
  <2>3. StateOf(s, f) = "RETRYING" => Resumed'
    <3>1. at[p] = "resume" => p \in Resumers
      BY DEF SpareInv, NoRetry, Procs
    <3>. QED BY <1>1, <2>1, <3>1, RetryingPhase DEF Resumed
  <2>4. NoRetry'
    BY <1>2, <1>3, <2>2, <2>3 DEF SpareInv, NoRetry, Step, Target
  <2>5. NoEvent
    BY <1>1, <2>2 DEF NoEvent
  <2>. QED BY <1>1, <1>2, <2>4, <2>5, NoEventKeepsIds DEF SpareInv, FailedStays
<1>. QED BY <1>4, <1>5

LEMMA ProceedingSpares ==
    ASSUME TypeInv, SpareInv, NEW p \in Procs, Proceeds(p)
    PROVE  SpareInv'
<1>1. PICK to \in Places \ {"idle", "resume", "dead"} : Walks(p, to) \/ Orders(p, to)
  BY DEF Proceeds
<1>2. Acts(p, to) /\ UNCHANGED nextId
  BY <1>1 DEF Walks, Orders, AsksFor, Acts, files
<1>3. \/ writing' = writing
      \/ \E s \in Status, f \in Phase, n \in 0 .. 4 :
            AsksFor(p, to, s, f, n) /\ (f = "launch-retry" => at[p] = "resume")
  BY <1>1 DEF Walks, Orders
<1>. QED BY <1>2, <1>3, CommandsSpare

(* The rest of the steps draw no event and ask for no retry. *)
LEMMA OthersSpare ==
    ASSUME TypeOK, SpareInv, NoEvent,
           \A p \in Procs : at'[p] = at[p] \/ at'[p] = "dead",
           \A w \in Writers : \/ writing'[w] = writing[w]
                              \/ writing'[w].step = "idle"
                              \/ Target(w)' # "RETRYING"
                              \/ ~Step(w, "idle") /\ Target(w)' = Target(w)
    PROVE  SpareInv'
<1>1. Resumed => Resumed'
  BY DEF Resumed, Procs
<1>2. at'[Starter] # "resume"
  BY Mains DEF SpareInv, NoRetry
<1>3. NoRetry'
  BY <1>1, <1>2 DEF SpareInv, NoRetry, Step, Target
<1>4. FailedStays'
  BY <1>1 DEF SpareInv, FailedStays, NoEvent
<1>. QED BY <1>3, <1>4, NoEventKeepsIds DEF SpareInv

LEMMA SpareInit == Init => SpareInv
<1>. SUFFICES ASSUME Init PROVE SpareInv
  OBVIOUS
<1>1. \A w \in Writers : writing[w].step = "idle" /\ writing[w].id = 0
  BY DEF Init, Idle, Write
<1>2. log = <<>> /\ nextId = 1 /\ DOMAIN log = {} /\ at[Starter] = "idle"
  BY Mains DEF Init
<1>. QED BY <1>1, <1>2 DEF SpareInv, NoRetry, FailedStays, IdInv, Step

LEMMA SpareNext == TypeInv /\ LogInv /\ SpareInv /\ [Next]_vars => SpareInv'
<1>. SUFFICES ASSUME TypeInv, LogInv, SpareInv, [Next]_vars PROVE SpareInv'
  OBVIOUS
<1>. USE DEF TypeInv
<1>1. CASE \E w \in Writers : AppendEvent(w)
  <2>1. PICK w \in Writers : AppendEvent(w)
    BY <1>1
  <2>2. IdInv' /\ FailedStays'
    BY <2>1, AppendKeepsIds, AppendKeepsFailed DEF SpareInv
  <2>3. /\ \A v \in Writers : /\ Target(v)' = Target(v)
                              /\ Step(v, "idle") => Step(v, "idle")'
        /\ UNCHANGED at /\ ~Step(w, "idle")
    BY <2>1 DEF AppendEvent, Appending, procs, Target, Step, TypeOK, WriteType
  <2>. QED BY <2>2, <2>3 DEF SpareInv, NoRetry, Resumed
<1>2. CASE \E w \in Writers : (Writing(w) \/ TearEvent(w)) /\ ~AppendEvent(w)
  <2>1. PICK w \in Writers : (Writing(w) \/ TearEvent(w)) /\ ~AppendEvent(w)
    BY <1>2
  <2>2. WriterEffect(w) /\ NoEvent
    BY <2>1, WriterEffects, WritingDrawsNoEvent
  <2>3. \A v \in Writers : \/ writing'[v] = writing[v]
                           \/ writing'[v].step = "idle"
                           \/ ~Step(v, "idle") /\ Target(v)' = Target(v)
    BY <2>2, IdleFields DEF WriterEffect, Target
  <2>4. UNCHANGED at
    BY <2>2 DEF WriterEffect
  <2>. QED BY <2>2, <2>3, <2>4, OthersSpare
<1>3. CASE Begin
  BY <1>3, BeginProceeds, ProceedingSpares, Mains
<1>4. CASE \E p \in Procs : Working(p)
  BY <1>4, WorkingProceeds, ProceedingSpares
<1>5. CASE \E p \in Resumers : Resume(p)
  <2>1. PICK p \in Resumers : Resume(p)
    BY <1>5
  <2>2. p \in Procs /\ p # Starter /\ "resume" \in Places \ {"idle"}
    BY LifecycleAssumption DEF Procs, Places
  <2>3. \A q \in Procs \ {p} : done'[q] = done[q]
    BY <2>1 DEF Resume, TypeOK
  <2>4. Acts(p, "resume") /\ writing' = writing /\ UNCHANGED nextId
    BY <2>1, <2>3 DEF Resume, Acts, At, files, env
  <2>. QED BY <2>2, <2>4, CommandsSpare
<1>6. CASE \E p \in Procs : Heartbeat(p)
  <2>1. PICK p \in Procs : Heartbeat(p)
    BY <1>6
  <2>2. /\ UNCHANGED <<nextId, log, at>> /\ Beat(p) \in Writers
        /\ writing' = [writing EXCEPT ![Beat(p)] =
                          Write("manifest", "active", "packer-build", NoCheckpoint, 0)]
    BY <2>1, WriterNames DEF Heartbeat, Ask, files
  <2>3. /\ writing'[Beat(p)].id = 0 /\ writing'[Beat(p)].step # "stamp"
        /\ writing'[Beat(p)].status = "active" /\ writing'[Beat(p)].phase = "packer-build"
        /\ \A w \in Writers \ {Beat(p)} : writing'[w] = writing[w]
    BY <2>2 DEF TypeOK, Write
  <2>4. Target(Beat(p))' = "BUILDING"
    BY <2>3, Targets DEF Target
  <2>5. NoEvent
    BY <2>2, <2>3 DEF NoEvent
  <2>6. \A w \in Writers : writing'[w] = writing[w] \/ Target(w)' # "RETRYING"
    BY <2>3, <2>4
  <2>. QED BY <2>2, <2>5, <2>6, OthersSpare
<1>7. CASE \E p \in Procs : Kill(p)
  <2>1. PICK p \in Procs : Kill(p)
    BY <1>7
  <2>2. /\ UNCHANGED <<nextId, log>> /\ Idle.id = 0 /\ Idle.step = "idle"
        /\ \A w \in Writers : writing'[w] = writing[w] \/ writing'[w] = Idle
    BY <2>1 DEF Kill, files, Idle, Write
  <2>3. \A q \in Procs : at'[q] = at[q] \/ at'[q] = "dead"
    BY <2>1 DEF Kill, Goto, TypeOK
  <2>4. NoEvent
    BY <2>2 DEF NoEvent
  <2>. QED BY <2>2, <2>3, <2>4, OthersSpare
<1>8. CASE \E j \in Janitors : Reconcile(j)
  <2>1. PICK j \in Janitors : Reconcile(j)
    BY <1>8
  <2>2. /\ UNCHANGED <<nextId, log, at>> /\ Main(j) \in Writers
        /\ \/ writing' = writing
           \/ writing' = [writing EXCEPT ![Main(j)] =
                             Write("lock", "failed", "lease-expired", manifest.done, 0)]
    BY <2>1, WriterNames DEF Reconcile, PlanExpiry, ApplyExpiry, files, procs
  <2>3. CASE writing' = writing
    BY <2>2, <2>3, OthersSpare DEF NoEvent
  <2>4. CASE writing' # writing
    <3>1. /\ writing'[Main(j)].id = 0 /\ writing'[Main(j)].step # "stamp"
          /\ writing'[Main(j)].status = "failed" /\ writing'[Main(j)].phase = "lease-expired"
          /\ \A w \in Writers \ {Main(j)} : writing'[w] = writing[w]
      BY <2>2, <2>4 DEF TypeOK, Write
    <3>2. Target(Main(j))' = "FAILED"
      BY <3>1, Targets DEF Target, Phase
    <3>3. NoEvent
      BY <2>2, <3>1 DEF NoEvent
    <3>4. \A w \in Writers : writing'[w] = writing[w] \/ Target(w)' # "RETRYING"
      BY <3>1, <3>2
    <3>. QED BY <2>2, <3>3, <3>4, OthersSpare
  <2>. QED BY <2>3, <2>4
<1>9. CASE LeaseExpires \/ Prune \/ UNCHANGED vars
  <2>1. UNCHANGED <<nextId, writing, at>> /\ log' \in {log, <<>>}
    BY <1>9 DEF LeaseExpires, Prune, vars, files, procs
  <2>. QED BY <2>1, OthersSpare DEF NoEvent
<1>. QED BY <1>1, <1>2, <1>3, <1>4, <1>5, <1>6, <1>7, <1>8, <1>9 DEF Next

(* When state reconcile writes a manifest and the event behind its stamp   *)
(* is in the log, that event is its own FAILED, after which the log of a   *)
(* run that was never resumed cannot have come to APPROVED: the reconciler *)
(* never turns an approved run's manifest into an expired one.             *)
THEOREM ReconcileSpares == Spec => ReconcileSparesApproved
<1>1. TypeInv /\ SoleInv /\ SpareInv /\ [Next]_vars =>
         [plan # plan' /\ manifest' # manifest /\ log # <<>> /\ Logged(manifest'.stamp)
            => Resumed \/ Last(log).to # "APPROVED"]_vars
  <2>. SUFFICES ASSUME TypeInv, SoleInv, SpareInv, Next, plan # plan', manifest' # manifest,
                       log # <<>>, Logged(manifest'.stamp), ~Resumed
                PROVE  Last(log).to # "APPROVED"
    OBVIOUS
  <2>1. PICK w \in Writers : Stamp(w)
    <3>1. ~Begin /\ ~LeaseExpires /\ ~Prune
      BY DEF Begin, Command, Silently, LeaseExpires, Prune, files
    <3>2. \A p \in Procs : ~Resume(p) /\ ~Heartbeat(p) /\ ~Kill(p)
      BY DEF Resume, Heartbeat, Kill, files
    <3>3. \A p \in Procs : ~Working(p)
      BY WorkingProceeds DEF Proceeds, Walks, Orders, AsksFor, Acts
    <3>4. \A j \in Janitors : ~Reconcile(j)
      BY DEF Reconcile, PlanExpiry, ApplyExpiry, files
    <3>5. \A w \in Writers : Writing(w) \/ TearEvent(w) => Stamp(w)
      BY DEF Writing, TearEvent, WriteManifest, ManifestTimeout, LockLog, LogTimeout,
         AppendEvent, RefuseEvent, UnlockLog, files
    <3>6. \A p \in Resumers : p \in Procs
      BY DEF Procs
    <3>. QED BY <3>1, <3>2, <3>3, <3>4, <3>5, <3>6 DEF Next
  <2>2. PICK j \in Janitors : w = Main(j)
    <3>1. plan' = [i \in Janitors |-> IF w = Main(i) THEN "idle" ELSE plan[i]]
      BY <2>1 DEF Stamp
    <3>. QED BY <3>1 DEF TypeInv, TypeOK
  <2>3. Target(w) = "FAILED"
    <3>1. ~Step(w, "idle")
      BY <2>1 DEF Stamp, Step
    <3>2. writing[w].status = "failed" /\ writing[w].phase = "lease-expired"
      BY <2>2, <3>1 DEF SoleInv, WriteInv
    <3>. QED BY <3>2, Targets DEF Target, Phase
  <2>4. writing[w].id # 0 /\ manifest'.stamp = writing[w].id
    BY <2>1 DEF Stamp, SpareInv, IdInv, Manifest
  <2>5. PICK e \in DOMAIN log : log[e].id = writing[w].id
    BY <2>4 DEF Logged
  <2>6. log[e].to = "FAILED"
    BY <2>3, <2>4, <2>5 DEF SpareInv, IdInv
  <2>7. DOMAIN log = 1 .. Len(log) /\ Len(log) \in Nat
    BY DEF TypeInv, TypeOK
  <2>8. log[Len(log)].to = "FAILED"
    BY <2>6, <2>7 DEF SpareInv, FailedStays
  <2>. QED BY <2>8 DEF Last
<1>. QED BY <1>1, TypeInit, TypeNext, LogInit, LogNext, FlowInit, FlowNext, SpareInit, SpareNext,
            PTL DEF Spec, ReconcileSparesApproved
=============================================================================
