-------------------------- MODULE NativeBuildProofs --------------------------
(***************************************************************************)
(* Theorems about NativeBuild, for every set of runs and plans, every      *)
(* number of provisioners and attempts, and every choice of faults.        *)
(***************************************************************************)
EXTENDS NativeBuild, FiniteSetTheorems, TLAPS

-----------------------------------------------------------------------------
(* What each assignment of the executor's local state does to its fields. *)

Kept(e, f) == f.run = e.run /\ f.plan = e.plan /\ f.resume = e.resume /\ f.retain = e.retain

LEMMA GotoFields ==
    ASSUME NEW e \in Executor, NEW f \in Phases
    PROVE  /\ Goto(e, f) \in Executor /\ Kept(e, Goto(e, f))
           /\ Goto(e, f).pc = f
           /\ Goto(e, f).active = e.active /\ Goto(e, f).inst = e.inst /\ Goto(e, f).key = e.key
           /\ Goto(e, f).completed = e.completed /\ Goto(e, f).cur = e.cur /\ Goto(e, f).image = e.image
           /\ Goto(e, f).ok = e.ok /\ Goto(e, f).errs = e.errs
  BY NativeAssumption DEF Goto, Kept, Executor, Provs, Resource, Phases

LEMMA HoldingFields ==
    ASSUME NEW e \in Executor, NEW i \in BOOLEAN, NEW k \in BOOLEAN
    PROVE  /\ Holding(e, i, k) \in Executor /\ Kept(e, Holding(e, i, k))
           /\ Holding(e, i, k).inst = i
           /\ Holding(e, i, k).key = k
           /\ Holding(e, i, k).pc = e.pc /\ Holding(e, i, k).active = e.active /\ Holding(e, i, k).completed = e.completed
           /\ Holding(e, i, k).cur = e.cur /\ Holding(e, i, k).image = e.image /\ Holding(e, i, k).ok = e.ok
           /\ Holding(e, i, k).errs = e.errs
  BY NativeAssumption DEF Holding, Kept, Executor, Provs, Resource, Phases

LEMMA JournalingFields ==
    ASSUME NEW e \in Executor
    PROVE  /\ Journaling(e) \in Executor /\ Kept(e, Journaling(e))
           /\ Journaling(e).active = TRUE
           /\ Journaling(e).pc = e.pc /\ Journaling(e).inst = e.inst /\ Journaling(e).key = e.key
           /\ Journaling(e).completed = e.completed /\ Journaling(e).cur = e.cur /\ Journaling(e).image = e.image
           /\ Journaling(e).ok = e.ok /\ Journaling(e).errs = e.errs
  BY NativeAssumption DEF Journaling, Kept, Executor, Provs, Resource, Phases

LEMMA CompletedFields ==
    ASSUME NEW e \in Executor, NEW S \in SUBSET Provs
    PROVE  /\ Completed(e, S) \in Executor /\ Kept(e, Completed(e, S))
           /\ Completed(e, S).completed = S
           /\ Completed(e, S).pc = e.pc /\ Completed(e, S).active = e.active /\ Completed(e, S).inst = e.inst
           /\ Completed(e, S).key = e.key /\ Completed(e, S).cur = e.cur /\ Completed(e, S).image = e.image
           /\ Completed(e, S).ok = e.ok /\ Completed(e, S).errs = e.errs
  BY NativeAssumption DEF Completed, Kept, Executor, Provs, Resource, Phases

LEMMA NextCurFields ==
    ASSUME NEW e \in Executor, e.cur \in Provs
    PROVE  /\ NextCur(e) \in Executor /\ Kept(e, NextCur(e))
           /\ NextCur(e).cur = e.cur + 1
           /\ NextCur(e).pc = e.pc /\ NextCur(e).active = e.active /\ NextCur(e).inst = e.inst
           /\ NextCur(e).key = e.key /\ NextCur(e).completed = e.completed /\ NextCur(e).image = e.image
           /\ NextCur(e).ok = e.ok /\ NextCur(e).errs = e.errs
  BY NativeAssumption DEF NextCur, Kept, Executor, Provs, Resource, Phases

LEMMA ImagedFields ==
    ASSUME NEW e \in Executor, NEW id \in 0..MaxAttempts
    PROVE  /\ Imaged(e, id) \in Executor /\ Kept(e, Imaged(e, id))
           /\ Imaged(e, id).image = id
           /\ Imaged(e, id).pc = e.pc /\ Imaged(e, id).active = e.active /\ Imaged(e, id).inst = e.inst
           /\ Imaged(e, id).key = e.key /\ Imaged(e, id).completed = e.completed /\ Imaged(e, id).cur = e.cur
           /\ Imaged(e, id).ok = e.ok /\ Imaged(e, id).errs = e.errs
  BY NativeAssumption DEF Imaged, Kept, Executor, Provs, Resource, Phases

LEMMA SucceededFields ==
    ASSUME NEW e \in Executor
    PROVE  /\ Succeeded(e) \in Executor /\ Kept(e, Succeeded(e))
           /\ Succeeded(e).ok = TRUE
           /\ Succeeded(e).pc = e.pc /\ Succeeded(e).active = e.active /\ Succeeded(e).inst = e.inst
           /\ Succeeded(e).key = e.key /\ Succeeded(e).completed = e.completed /\ Succeeded(e).cur = e.cur
           /\ Succeeded(e).image = e.image /\ Succeeded(e).errs = e.errs
  BY NativeAssumption DEF Succeeded, Kept, Executor, Provs, Resource, Phases

LEMMA FailedFields ==
    ASSUME NEW e \in Executor, NEW res \in Resource
    PROVE  /\ Failed(e, res) \in Executor /\ Kept(e, Failed(e, res))
           /\ Failed(e, res).errs = e.errs \cup {res}
           /\ Failed(e, res).pc = e.pc /\ Failed(e, res).active = e.active /\ Failed(e, res).inst = e.inst
           /\ Failed(e, res).key = e.key /\ Failed(e, res).completed = e.completed /\ Failed(e, res).cur = e.cur
           /\ Failed(e, res).image = e.image /\ Failed(e, res).ok = e.ok
  BY NativeAssumption DEF Failed, Kept, Executor, Provs, Resource, Phases

LEMMA SignalledFields ==
    ASSUME NEW e \in Executor
    PROVE  /\ Signalled(e) \in Executor /\ Kept(e, Signalled(e))
           /\ Signalled(e).pc = e.pc /\ Signalled(e).active = e.active /\ Signalled(e).inst = e.inst
           /\ Signalled(e).key = e.key /\ Signalled(e).completed = e.completed /\ Signalled(e).cur = e.cur
           /\ Signalled(e).image = e.image /\ Signalled(e).ok = e.ok /\ Signalled(e).errs = e.errs
  BY NativeAssumption DEF Signalled, Kept, Executor, Provs, Resource, Phases

LEMMA AttemptFields ==
    ASSUME NEW ph \in Phases, NEW r \in AnyRun, NEW p \in AnyPlan,
           NEW resume \in BOOLEAN, NEW keep \in BOOLEAN
    PROVE  LET e == Attempt(ph, r, p, resume, keep)
           IN /\ e \in Executor /\ e.pc = ph /\ e.run = r /\ e.plan = p /\ e.resume = resume
              /\ e.retain = keep /\ e.active = FALSE /\ e.inst = FALSE /\ e.key = FALSE
              /\ e.completed = {} /\ e.cur = 1 /\ e.image = 0 /\ e.ok = FALSE /\ e.errs = {}
  BY NativeAssumption DEF Attempt, Executor, Provs, Resource

LEMMA Ids_ == NoRun \in AnyRun /\ Runs \subseteq AnyRun /\ NoPlan \in AnyPlan /\ Plans \subseteq AnyPlan
  BY DEF AnyRun, AnyPlan

LEMMA ExecutorTypes ==
    ASSUME NEW e \in Executor
    PROVE  /\ e.pc \in Phases /\ e.run \in AnyRun /\ e.plan \in AnyPlan
           /\ e.resume \in BOOLEAN /\ e.retain \in BOOLEAN /\ e.active \in BOOLEAN
           /\ e.inst \in BOOLEAN /\ e.key \in BOOLEAN /\ e.completed \in SUBSET Provs
           /\ e.cur \in 1..(N + 1) /\ e.image \in 0..MaxAttempts /\ e.ok \in BOOLEAN
           /\ e.errs \in SUBSET Resource /\ e.signal \in BOOLEAN
  BY DEF Executor

(* The journal's updates, the record and the janitor's job. *)
LEMMA DocFields ==
    ASSUME NEW doc \in JournalDoc
    PROVE  /\ doc.run \in AnyRun /\ doc.plan \in AnyPlan
           /\ doc.inst \in BOOLEAN /\ doc.key \in BOOLEAN /\ doc.completed \in SUBSET Provs
           /\ \A i \in BOOLEAN : LET d == WithInstance(doc, i)
                                 IN /\ d \in JournalDoc /\ d.run = doc.run /\ d.key = doc.key
                                    /\ d.plan = doc.plan /\ d.completed = doc.completed
           /\ \A k \in Provs : LET d == WithCompleted(doc, k)
                               IN /\ d \in JournalDoc /\ d.run = doc.run /\ d.key = doc.key
                                  /\ d.plan = doc.plan /\ d.completed = doc.completed \cup {k}
  BY DEF JournalDoc, WithInstance, WithCompleted

LEMMA JournalOfFields ==
    ASSUME NEW e \in Executor, NEW i \in BOOLEAN
    PROVE  /\ JournalOf(e, i) \in JournalDoc /\ JournalOf(e, i).run = e.run
           /\ JournalOf(e, i).plan = e.plan /\ JournalOf(e, i).key = TRUE
           /\ JournalOf(e, i).completed = {}
  BY ExecutorTypes DEF JournalOf, JournalDoc

LEMMA RecordFields ==
    ASSUME NEW e \in Executor, attempts \in 0..MaxAttempts
    PROVE  /\ BuildRecord(e) \in Record /\ BuildRecord(e).run = e.run
           /\ BuildRecord(e).ok = ExitOk(e) /\ BuildRecord(e).image = e.image
  BY ExecutorTypes DEF BuildRecord, Record, ExitOk, Retained

LEMMA JobFields ==
    ASSUME NEW op \in {"idle", "reconcile", "sweep"}, NEW r \in AnyRun,
           NEW todo \in SUBSET Runs, NEW k \in BOOLEAN
    PROVE  Job(op, r, todo, k) \in Janitor
  BY DEF Job, Janitor

LEMMA AnsweredFields ==
    ASSUME NEW j \in Janitor, NEW r \in Runs, NEW ok \in BOOLEAN
    PROVE  Answered(j, r, ok) \in Janitor
  BY DEF Answered, Janitor

LEMMA Initials ==
    /\ NoExec \in Executor /\ NoExec.pc = "idle" /\ NoExec.run = NoRun /\ NoExec.image = 0
    /\ NoExec.completed = {} /\ NoExec.cur = 1 /\ ~NoExec.ok
    /\ NoJournal \in JournalDoc /\ NoJournal.run = NoRun
    /\ NoMarker \in Marker /\ NoMarker.run = NoRun
    /\ ForeignMarker \in Marker /\ ForeignMarker.run = NoRun
    /\ NoRecord \in Record /\ ~NoRecord.ok
    /\ NoJan \in Janitor
  <1>1. NoExec \in Executor
    BY NativeAssumption DEF NoExec, Attempt, Executor, Phases, AnyRun, AnyPlan
  <1>2. /\ NoExec.pc = "idle" /\ NoExec.run = NoRun /\ NoExec.image = 0
        /\ NoExec.completed = {} /\ NoExec.cur = 1 /\ ~NoExec.ok
    BY DEF NoExec, Attempt
  <1>3. NoJournal \in JournalDoc /\ NoJournal.run = NoRun
    BY DEF NoJournal, JournalDoc, AnyRun, AnyPlan
  <1>4. /\ NoMarker \in Marker /\ NoMarker.run = NoRun
        /\ ForeignMarker \in Marker /\ ForeignMarker.run = NoRun
    BY DEF NoMarker, ForeignMarker, Marker, AnyRun, AnyPlan
  <1>5. NoRecord \in Record /\ ~NoRecord.ok
    BY NativeAssumption DEF NoRecord, Record, AnyRun, Resource
  <1>6. NoJan \in Janitor
    BY JobFields DEF NoJan, AnyRun
  <1> QED BY <1>1, <1>2, <1>3, <1>4, <1>5, <1>6

-----------------------------------------------------------------------------
(* Type correctness.  TypeOK alone is not inductive: that a busy executor  *)
(* has a run, and a provisioner to check off, is Control.                  *)
TypeInv == TypeOK /\ Control

(* Whatever the listing shows, the image adopted is one of the workdir's. *)
LEMMA CreatedId ==
    ASSUME TypeInv, CreateImage
    PROVE  \/ ex' = Raised(ex)
           \/ \E id \in NamedImages(images', ex.run) :
                 id \in Ids /\ ex' = Goto(Imaged(ex, id), "copy-images")
  <1> DEFINE new == [id |-> attempts, run |-> ex.run, content |-> guest[ex.run]]
  <1>1. /\ attempts \in Ids /\ new \in [id: Ids, run: Runs, content: SUBSET (Plans \X Provs)]
        /\ new.run = ex.run /\ new.id = attempts
        /\ images \subseteq [id: Ids, run: Runs, content: SUBSET (Plans \X Provs)]
    BY NativeAssumption DEF TypeInv, TypeOK, CountTypeOK, GuestTypeOK, CloudTypeOK, Control,
       CreateImage, At, Ids
  <1>2. images' \in {images, images \cup {new}}
    BY DEF CreateImage
  <1>3. NamedImages(images', ex.run) \subseteq Ids
    BY <1>1, <1>2 DEF NamedImages
  <1>4. CASE images' = images \cup {new} /\ ex' = Goto(Imaged(ex, attempts), "copy-images")
    BY <1>1, <1>4 DEF NamedImages
  <1>5. CASE \E seen \in SUBSET NamedImages(images', ex.run) :
                LET found == NewCandidates(seen, NamedImages(images, ex.run))
                IN ex' = IF Cardinality(found) = 1
                         THEN Goto(Imaged(ex, CHOOSE i \in found : TRUE), "copy-images")
                         ELSE Raised(ex)
    <2>1. PICK seen \in SUBSET NamedImages(images', ex.run) :
                LET found == NewCandidates(seen, NamedImages(images, ex.run))
                IN ex' = IF Cardinality(found) = 1
                         THEN Goto(Imaged(ex, CHOOSE i \in found : TRUE), "copy-images")
                         ELSE Raised(ex)
      BY <1>5
    <2> DEFINE found == NewCandidates(seen, NamedImages(images, ex.run))
    <2>2. CASE Cardinality(found) = 1
      <3>1. found # {}
        BY <2>2, FS_EmptySet
      <3>2. (CHOOSE i \in found : TRUE) \in found
        BY <3>1
      <3>3. found \subseteq NamedImages(images', ex.run)
        BY DEF NewCandidates
      <3> QED BY <1>3, <2>1, <2>2, <3>2, <3>3
    <2> QED BY <2>1, <2>2
  <1> QED BY <1>4, <1>5 DEF CreateImage, Raised

LEMMA GotoAfter ==
    ASSUME ex \in Executor, NEW f \in Executor, Kept(ex, f), NEW ph \in Phases \ {"idle"}
    PROVE  Goto(f, ph) \in Executor /\ Kept(ex, Goto(f, ph)) /\ Goto(f, ph).pc # "idle"
  <1>1. Goto(f, ph) \in Executor /\ Kept(f, Goto(f, ph)) /\ Goto(f, ph).pc = ph
    BY GotoFields
  <1> QED BY <1>1 DEF Kept

(* A step of a busy executor keeps the identity and the type of its state. *)
LEMMA StepKeeps ==
    ASSUME TypeInv, Body \/ Cleanup \/ Terminate \/ Teardown \/ SignalRaised \/ SignalSwallowed
    PROVE  ex' \in Executor /\ Kept(ex, ex') /\ ex.pc # "idle" /\ ex'.pc # "idle"
  <1>0. ex \in Executor /\ ex.completed \in SUBSET Provs /\ Kept(ex, ex) /\ Control
    BY ExecutorTypes DEF TypeInv, TypeOK, Kept
  <1>a. \A ph \in Phases \ {"idle"} : /\ Goto(ex, ph) \in Executor /\ Kept(ex, Goto(ex, ph))
                                      /\ Goto(ex, ph).pc # "idle"
    BY <1>0, GotoAfter
  <1>1. CASE SetupKeypair
    <2>1. Holding(ex, FALSE, TRUE) \in Executor /\ Kept(ex, Holding(ex, FALSE, TRUE))
      BY <1>0, <1>1, HoldingFields
    <2> QED BY <1>0, <1>a, <1>1, <2>1, GotoAfter DEF SetupKeypair, At, Raised, Phases
  <1>2. CASE JournalKeypair
    <2>1. Journaling(ex) \in Executor /\ Kept(ex, Journaling(ex))
      BY <1>0, <1>2, JournalingFields
    <2> QED BY <1>0, <1>a, <1>2, <2>1, GotoAfter DEF JournalKeypair, At, Raised, Phases
  <1>3. CASE Launch
    <2>1. Holding(ex, TRUE, ex.key) \in Executor /\ Kept(ex, Holding(ex, TRUE, ex.key))
      BY <1>0, <1>3, ExecutorTypes, HoldingFields
    <2>2. /\ ex.pc = "launch"
          /\ \/ ex' = Goto(Holding(ex, TRUE, ex.key), "journal-launch")
             \/ ex' = Goto(Holding(ex, TRUE, ex.key), "cleanup")
             \/ ex' = Goto(ex, "cleanup")
      BY <1>3 DEF Launch, At, Raised
    <2> QED BY <1>0, <1>a, <2>1, <2>2, GotoAfter DEF Phases
  <1>4. CASE JournalLaunch
    BY <1>a, <1>4 DEF JournalLaunch, At, Raised, Phases
  <1>5. CASE Connect
    BY <1>a, <1>5 DEF Connect, At, Raised, Phases
  <1>6. CASE ReadMarker
    <2>1. Completed(ex, {}) \in Executor /\ Kept(ex, Completed(ex, {}))
      BY <1>0, <1>6, CompletedFields
    <2>2. Completed(ex, AgreedCompleted(ex, marker[ex.run])) \in Executor /\ Kept(ex, Completed(ex, AgreedCompleted(ex, marker[ex.run])))
      BY <1>0, <1>6, CompletedFields DEF AgreedCompleted
    <2> QED BY <1>0, <1>a, <1>6, <2>1, <2>2, GotoAfter DEF ReadMarker, At, Raised, Phases
  <1>7. CASE SkipProvisioner
    BY <1>0, <1>7, NextCurFields DEF SkipProvisioner, At, Kept
  <1>8. CASE RunProvisioner
    BY <1>a, <1>8 DEF RunProvisioner, At, Raised, Phases
  <1>9. CASE JournalProvisioner
    <2>1. Completed(ex, ex.completed \cup {ex.cur}) \in Executor /\ Kept(ex, Completed(ex, ex.completed \cup {ex.cur}))
      BY <1>0, <1>9, CompletedFields DEF JournalProvisioner, At, Control
    <2> QED BY <1>0, <1>a, <1>9, <2>1, GotoAfter DEF JournalProvisioner, At, Raised, Phases
  <1>10. CASE WriteMarker
    <2>1. NextCur(ex) \in Executor /\ Kept(ex, NextCur(ex))
      BY <1>0, <1>10, NextCurFields DEF WriteMarker, At, Control
    <2> QED BY <1>0, <1>a, <1>10, <2>1, GotoAfter DEF WriteMarker, At, Raised, Phases
  <1>11. CASE StopInstance
    BY <1>a, <1>11 DEF StopInstance, At, Raised, Phases
  <1>12. CASE CreateImage
    <2>1. \A id \in Ids : Imaged(ex, id) \in Executor /\ Kept(ex, Imaged(ex, id))
      BY <1>0, NativeAssumption, ImagedFields DEF Ids
    <2>2. ex' = Raised(ex) \/ \E id \in Ids : ex' = Goto(Imaged(ex, id), "copy-images")
      BY <1>0, <1>12, CreatedId
    <2> QED BY <1>0, <1>a, <1>12, <2>1, <2>2, GotoAfter DEF CreateImage, At, Raised, Phases
  <1>13. CASE CopyImages
    <2>1. Succeeded(ex) \in Executor /\ Kept(ex, Succeeded(ex))
      BY <1>0, <1>13, SucceededFields
    <2> QED BY <1>0, <1>a, <1>13, <2>1, GotoAfter DEF CopyImages, At, Raised, Phases
  <1>14. CASE RaiseError
    BY <1>a, <1>14 DEF RaiseError, InTry, Raised, Phases
  <1>15. CASE Cleanup
    BY <1>a, <1>15 DEF Cleanup, At, Raised, Phases
  <1>16. CASE Terminate
    <2>1. Failed(ex, "instance") \in Executor /\ Kept(ex, Failed(ex, "instance"))
      BY <1>0, <1>16, FailedFields DEF Resource
    <2> QED BY <1>0, <1>a, <1>16, <2>1, GotoAfter DEF Terminate, At, Raised, Phases
  <1>17. CASE Teardown
    <2>1. Failed(ex, "keypair") \in Executor /\ Kept(ex, Failed(ex, "keypair"))
      BY <1>0, <1>17, FailedFields DEF Resource
    <2> QED BY <1>0, <1>a, <1>17, <2>1, GotoAfter DEF Teardown, At, Raised, Phases
  <1>18. CASE SignalRaised
    <2>1. Signalled(ex) \in Executor /\ Kept(ex, Signalled(ex))
      BY <1>0, <1>18, SignalledFields
    <2> QED BY <1>0, <1>a, <1>18, <2>1, GotoAfter DEF SignalRaised, InTry, Raised, Phases
  <1>19. CASE SignalSwallowed
    BY <1>0, <1>19, SignalledFields DEF SignalSwallowed, Swallowing, Kept
  <1> QED BY <1>1, <1>2, <1>3, <1>4, <1>5, <1>6, <1>7, <1>8, <1>9, <1>10, <1>11, <1>12, <1>13, <1>14, <1>15, <1>16, <1>17, <1>18, <1>19 DEF Body

(* The writes of a step to the workdir, the cloud and the guest are typed. *)
LEMMA StepWorkdir ==
    ASSUME TypeInv, Body \/ Cleanup \/ Terminate \/ Teardown \/ SignalRaised \/ SignalSwallowed
    PROVE  WorkdirTypeOK'
  <1>0. /\ ex \in Executor /\ WorkdirTypeOK
        /\ ex.pc # "idle" => ex.run \in Runs
        /\ ex.pc = "journal-provisioner" => ex.cur \in Provs
    BY DEF TypeInv, TypeOK, Control
  <1>1. CASE SetupKeypair
    <2>1. keyfile' = keyfile \cup {ex.run} /\ UNCHANGED <<hb, journal, record>> /\ ex.run \in Runs
      BY <1>0, <1>1 DEF SetupKeypair, At
    <2> QED BY <1>0, <2>1 DEF WorkdirTypeOK
  <1>2. CASE JournalKeypair \/ JournalLaunch
    <2>1. journal' \in JournalDoc /\ UNCHANGED <<hb, record, keyfile>>
      BY <1>0, <1>2, JournalOfFields DEF JournalKeypair, JournalLaunch, WriteJournal
    <2> QED BY <1>0, <2>1 DEF WorkdirTypeOK
  <1>3. CASE JournalProvisioner
    <2>1. journal' = WithCompleted(journal, ex.cur) /\ UNCHANGED <<hb, record, keyfile>>
          /\ ex.cur \in Provs
      BY <1>0, <1>3 DEF JournalProvisioner, WriteJournal, At
    <2> QED BY <1>0, <2>1, DocFields DEF WorkdirTypeOK
  <1>4. CASE Cleanup
    <2>1. journal' \in {journal, WithInstance(journal, ex.inst)} /\ UNCHANGED <<hb, record, keyfile>>
      BY <1>4 DEF Cleanup, WriteJournal
    <2> QED BY <1>0, <2>1, DocFields, ExecutorTypes DEF WorkdirTypeOK
  <1>5. CASE Teardown
    BY <1>0, <1>5 DEF Teardown, KeyTornDown, WorkdirTypeOK
  <1>6. CASE \/ Launch \/ Connect \/ ReadMarker \/ SkipProvisioner \/ RunProvisioner \/ WriteMarker
             \/ StopInstance \/ CreateImage \/ CopyImages \/ RaiseError \/ Terminate
             \/ SignalRaised \/ SignalSwallowed
    <2>1. UNCHANGED workdirVars
      BY <1>6 DEF Launch, Connect, ReadMarker, SkipProvisioner, RunProvisioner, WriteMarker,
         StopInstance, CreateImage, CopyImages, RaiseError, Terminate, SignalRaised, SignalSwallowed
    <2> QED BY <1>0, <2>1 DEF WorkdirTypeOK, workdirVars
  <1> QED BY <1>1, <1>2, <1>3, <1>4, <1>5, <1>6 DEF Body

LEMMA StepCloud ==
    ASSUME TypeInv, Body \/ Cleanup \/ Terminate \/ Teardown \/ SignalRaised \/ SignalSwallowed
    PROVE  CloudTypeOK'
  <1>0. /\ CloudTypeOK /\ GuestTypeOK /\ CountTypeOK
        /\ ex.pc # "idle" => ex.run \in Runs /\ attempts # 0
    BY DEF TypeInv, TypeOK, Control
  <1>1. CASE SetupKeypair
    BY <1>0, <1>1 DEF SetupKeypair, CloudTypeOK
  <1>2. CASE Launch \/ StopInstance
    <2>1. \E v \in {"running", "stopped"} : inst' = [inst EXCEPT ![ex.run] = v]
      BY <1>2 DEF Launch, StopInstance
    <2>2. UNCHANGED <<lease, key, images>>
      BY <1>2 DEF Launch, StopInstance
    <2> QED BY <1>0, <2>1, <2>2 DEF CloudTypeOK
  <1>3. CASE CreateImage
    <2> DEFINE new == [id |-> attempts, run |-> ex.run, content |-> guest[ex.run]]
    <2>1. new \in [id: Ids, run: Runs, content: SUBSET (Plans \X Provs)]
      BY <1>0, <1>3, NativeAssumption DEF CreateImage, At, CountTypeOK, GuestTypeOK, Ids
    <2>2. images' \in {images, images \cup {new}} /\ UNCHANGED <<inst, lease, key>>
      BY <1>3 DEF CreateImage
    <2> QED BY <1>0, <2>1, <2>2 DEF CloudTypeOK
  <1>4. CASE Terminate
    BY <1>0, <1>4 DEF Terminate, Terminated, CloudTypeOK
  <1>5. CASE Teardown
    BY <1>0, <1>5 DEF Teardown, KeyTornDown, CloudTypeOK
  <1>6. CASE \/ JournalKeypair \/ JournalLaunch \/ Connect \/ ReadMarker \/ SkipProvisioner
             \/ RunProvisioner \/ JournalProvisioner \/ WriteMarker \/ CopyImages \/ RaiseError
             \/ Cleanup \/ SignalRaised \/ SignalSwallowed
    <2>1. UNCHANGED cloudVars
      BY <1>6 DEF JournalKeypair, JournalLaunch, Connect, ReadMarker, SkipProvisioner,
         RunProvisioner, JournalProvisioner, WriteMarker, CopyImages, RaiseError, Cleanup,
         SignalRaised, SignalSwallowed
    <2> QED BY <1>0, <2>1 DEF CloudTypeOK, cloudVars
  <1> QED BY <1>1, <1>2, <1>3, <1>4, <1>5, <1>6 DEF Body

LEMMA StepGuest ==
    ASSUME TypeInv, Body \/ Cleanup \/ Terminate \/ Teardown \/ SignalRaised \/ SignalSwallowed
    PROVE  GuestTypeOK'
  <1>0. /\ ex \in Executor /\ GuestTypeOK /\ ex.completed \in SUBSET Provs
        /\ ex.pc # "idle" => ex.run \in Runs /\ ex.plan \in Plans
    BY ExecutorTypes DEF TypeInv, TypeOK, Control
  <1>1. CASE Launch
    <2>1. PICK m \in {NoMarker, ForeignMarker} : marker' = [marker EXCEPT ![ex.run] = m]
      BY <1>1 DEF Launch
    <2>2. guest' = guest /\ m \in Marker
      BY <1>1, Initials DEF Launch
    <2> QED BY <1>0, <2>1, <2>2 DEF GuestTypeOK
  <1>2. CASE RunProvisioner
    <2>1. /\ guest' = [guest EXCEPT ![ex.run] = @ \cup {<<ex.plan, ex.cur>>}]
          /\ <<ex.plan, ex.cur>> \in Plans \X Provs /\ UNCHANGED marker
      BY <1>0, <1>2 DEF RunProvisioner, At
    <2> QED BY <1>0, <2>1 DEF GuestTypeOK
  <1>3. CASE WriteMarker
    <2>1. [run |-> ex.run, plan |-> ex.plan, completed |-> ex.completed] \in Marker
      BY <1>0, <1>3 DEF WriteMarker, At, Marker, AnyRun, AnyPlan
    <2>2. /\ UNCHANGED guest
          /\ marker' = [marker EXCEPT ![ex.run] =
                           [run |-> ex.run, plan |-> ex.plan, completed |-> ex.completed]]
      BY <1>3 DEF WriteMarker
    <2> QED BY <1>0, <2>1, <2>2 DEF GuestTypeOK
  <1>4. CASE \/ SetupKeypair \/ JournalKeypair \/ JournalLaunch \/ Connect \/ ReadMarker
             \/ SkipProvisioner \/ JournalProvisioner \/ StopInstance \/ CreateImage \/ CopyImages
             \/ RaiseError \/ Cleanup \/ Terminate \/ Teardown \/ SignalRaised \/ SignalSwallowed
    <2>1. UNCHANGED guestVars
      BY <1>4 DEF SetupKeypair, JournalKeypair, JournalLaunch, Connect, ReadMarker,
         SkipProvisioner, JournalProvisioner, StopInstance, CreateImage, CopyImages, RaiseError,
         Cleanup, Terminate, Teardown, SignalRaised, SignalSwallowed
    <2> QED BY <1>0, <2>1 DEF GuestTypeOK, guestVars
  <1> QED BY <1>1, <1>2, <1>3, <1>4 DEF Body

(* The control flow of a step: where it goes, and what becomes of the      *)
(* provisioner index and the completed set.                                *)
Tail == {"copy-images", "cleanup", "terminate", "teardown", "finish"}
SameProgress == ex'.cur = ex.cur /\ ex'.completed = ex.completed

LEMMA Flow ==
    ASSUME ex \in Executor
    PROVE  /\ SetupKeypair \/ JournalKeypair \/ Launch \/ JournalLaunch =>
                /\ ex.pc \in {"keypair", "journal-key", "launch", "journal-launch"}
                /\ ex'.pc \in {"journal-key", "launch", "journal-launch", "connect"} \cup Tail
                /\ SameProgress
           /\ Connect => /\ ex.pc = "connect" /\ SameProgress
                         /\ ex'.pc = IF ex.resume THEN "marker" ELSE "provision"
           /\ ReadMarker =>
                /\ ex.pc = "marker" /\ ex'.cur = ex.cur
                /\ \/ ex'.pc \in Tail
                   \/ ex'.pc = "provision" /\ ex'.completed = {}
                   \/ /\ ex'.pc = "provision"
                      /\ SameIdentity(marker[ex.run], ex.run, ex.plan)
                      /\ ex'.completed \subseteq marker[ex.run].completed
           /\ SkipProvisioner =>
                /\ ex.pc = "provision" /\ ex'.pc = "provision" /\ ex.cur \in ex.completed
                /\ ex'.cur = ex.cur + 1 /\ ex'.completed = ex.completed
           /\ RunProvisioner => /\ ex.pc = "provision" /\ SameProgress
                                /\ ex'.pc \in {"journal-provisioner"} \cup Tail
           /\ JournalProvisioner /\ ex.cur \in Provs =>
                /\ ex.pc = "journal-provisioner" /\ ex'.pc = "write-marker"
                /\ ex'.cur = ex.cur /\ ex'.completed = ex.completed \cup {ex.cur}
           /\ WriteMarker /\ ex.cur \in Provs =>
                /\ ex.pc = "write-marker"
                /\ \/ ex'.pc \in Tail
                   \/ /\ ex'.pc = "provision" /\ ex'.cur = ex.cur + 1
                      /\ ex'.completed = ex.completed
           /\ StopInstance => /\ ex.pc = "provision" /\ ex.cur = N + 1
                              /\ ex'.pc \in {"create-image"} \cup Tail
           /\ CopyImages \/ RaiseError \/ Cleanup \/ Terminate \/ Teardown \/ SignalRaised
                => ex'.pc \in Tail
           /\ SignalSwallowed => ex'.pc = ex.pc /\ SameProgress
  <1>0. \A ph \in Phases : /\ Goto(ex, ph) \in Executor /\ Goto(ex, ph).pc = ph
                           /\ Goto(ex, ph).cur = ex.cur /\ Goto(ex, ph).completed = ex.completed
    BY GotoFields
  <1> DEFINE IsMoved(e, f, ph) == f.pc = ph /\ f.cur = e.cur /\ f.completed = e.completed
  <1>1. ASSUME NEW e \in Executor, NEW ph \in Phases PROVE IsMoved(e, Goto(e, ph), ph)
    BY GotoFields
  <1>2. SetupKeypair \/ JournalKeypair \/ Launch \/ JournalLaunch =>
                /\ ex.pc \in {"keypair", "journal-key", "launch", "journal-launch"}
                /\ ex'.pc \in {"journal-key", "launch", "journal-launch", "connect"} \cup Tail
                /\ SameProgress
    <2>0. ASSUME NEW f \in Executor, f.cur = ex.cur, f.completed = ex.completed, NEW ph \in Phases
          PROVE  /\ Goto(f, ph).pc = ph /\ Goto(f, ph).cur = ex.cur
                 /\ Goto(f, ph).completed = ex.completed
      BY <2>0, <1>1
    <2>3. ASSUME SetupKeypair
          PROVE  /\ ex.pc = "keypair" /\ SameProgress /\ ex'.pc \in {"journal-key", "cleanup"}
      <3> DEFINE f == Holding(ex, FALSE, TRUE)
      <3>1. f \in Executor /\ f.cur = ex.cur /\ f.completed = ex.completed
        BY HoldingFields
      <3>2. ex.pc = "keypair" /\ ex' \in {Goto(f, "journal-key"), Goto(ex, "cleanup")}
        BY <2>3 DEF SetupKeypair, At, Raised
      <3> HIDE DEF f
      <3> QED BY <2>0, <3>1, <3>2 DEF Phases, SameProgress
    <2>4. ASSUME JournalKeypair
          PROVE  /\ ex.pc = "journal-key" /\ SameProgress /\ ex'.pc = "launch"
      <3> DEFINE f == Journaling(ex)
      <3>1. f \in Executor /\ f.cur = ex.cur /\ f.completed = ex.completed
        BY JournalingFields
      <3>2. ex.pc = "journal-key" /\ ex' = Goto(f, "launch")
        BY <2>4 DEF JournalKeypair, At
      <3> HIDE DEF f
      <3> QED BY <2>0, <3>1, <3>2 DEF Phases, SameProgress
    <2>5. ASSUME Launch
          PROVE  /\ ex.pc = "launch" /\ SameProgress /\ ex'.pc \in {"journal-launch", "cleanup"}
      <3> DEFINE f == Holding(ex, TRUE, ex.key)
      <3>0. ex.key \in BOOLEAN
        BY ExecutorTypes
      <3>1. f \in Executor /\ f.cur = ex.cur /\ f.completed = ex.completed
        BY <3>0, HoldingFields
      <3>2. /\ ex.pc = "launch"
            /\ ex' \in {Goto(f, "journal-launch"), Goto(f, "cleanup"), Goto(ex, "cleanup")}
        BY <2>5 DEF Launch, At, Raised
      <3> HIDE DEF f
      <3> QED BY <2>0, <3>1, <3>2 DEF Phases, SameProgress
    <2>6. ASSUME JournalLaunch
          PROVE  ex.pc = "journal-launch" /\ SameProgress /\ ex'.pc = "connect"
      BY <2>6, <2>0 DEF JournalLaunch, At, Phases, SameProgress
    <2> QED BY <2>3, <2>4, <2>5, <2>6 DEF Tail
  <1>3. Connect => /\ ex.pc = "connect" /\ SameProgress
                   /\ ex'.pc = IF ex.resume THEN "marker" ELSE "provision"
    BY <1>0 DEF Connect, At, Phases, SameProgress
  <1>4. ASSUME ReadMarker
        PROVE  /\ ex.pc = "marker" /\ ex'.cur = ex.cur
               /\ \/ ex'.pc \in Tail
                  \/ ex'.pc = "provision" /\ ex'.completed = {}
                  \/ /\ ex'.pc = "provision"
                     /\ SameIdentity(marker[ex.run], ex.run, ex.plan)
                     /\ ex'.completed \subseteq marker[ex.run].completed
    <2> DEFINE agreed == AgreedCompleted(ex, marker[ex.run])
    <2>1. \A S \in {{}, agreed} : /\ Completed(ex, S) \in Executor /\ Completed(ex, S).cur = ex.cur
                                  /\ Completed(ex, S).completed = S
      BY ExecutorTypes, CompletedFields DEF AgreedCompleted
    <2>2. ASSUME NEW S \in {{}, agreed}
          PROVE  /\ Goto(Completed(ex, S), "provision").pc = "provision"
                 /\ Goto(Completed(ex, S), "provision").cur = ex.cur
                 /\ Goto(Completed(ex, S), "provision").completed = S
      <3> DEFINE f == Completed(ex, S)
      <3>1. f \in Executor /\ f.cur = ex.cur /\ f.completed = S
        BY <2>1
      <3> HIDE DEF f
      <3>2. "provision" \in Phases
        BY DEF Phases
      <3>3. IsMoved(f, Goto(f, "provision"), "provision")
        BY <1>1, <3>1, <3>2
      <3>4. /\ Goto(f, "provision").pc = "provision" /\ Goto(f, "provision").cur = ex.cur
            /\ Goto(f, "provision").completed = S
        BY <3>1, <3>3
      <3> QED BY <3>4 DEF f
    <2>3. agreed \subseteq marker[ex.run].completed
      BY DEF AgreedCompleted
    <2>4. /\ ex.pc = "marker"
          /\ \/ ex' = Goto(Completed(ex, {}), "provision")
             \/ ex' = Goto(ex, "cleanup")
             \/ /\ ex' = Goto(Completed(ex, agreed), "provision")
                /\ SameIdentity(marker[ex.run], ex.run, ex.plan)
      BY <1>4 DEF ReadMarker, At, Raised
    <2> QED BY <1>0, <2>2, <2>3, <2>4 DEF Phases, Tail
  <1>5. SkipProvisioner =>
                /\ ex.pc = "provision" /\ ex'.pc = "provision" /\ ex.cur \in ex.completed
                /\ ex'.cur = ex.cur + 1 /\ ex'.completed = ex.completed
    BY ExecutorTypes, NextCurFields DEF SkipProvisioner, At
  <1>6. RunProvisioner => /\ ex.pc = "provision" /\ SameProgress
                          /\ ex'.pc \in {"journal-provisioner"} \cup Tail
    BY <1>0 DEF RunProvisioner, At, Raised, Phases, Tail, SameProgress
  <1>7. ASSUME JournalProvisioner, ex.cur \in Provs
        PROVE  /\ ex.pc = "journal-provisioner" /\ ex'.pc = "write-marker"
               /\ ex'.cur = ex.cur /\ ex'.completed = ex.completed \cup {ex.cur}
    <2> DEFINE f == Completed(ex, ex.completed \cup {ex.cur})
    <2>1. f \in Executor /\ f.cur = ex.cur /\ f.completed = ex.completed \cup {ex.cur}
      BY <1>7, ExecutorTypes, CompletedFields
    <2>2. ex.pc = "journal-provisioner" /\ ex' = Goto(f, "write-marker")
      BY <1>7 DEF JournalProvisioner, At
    <2> HIDE DEF f
    <2> QED BY <1>1, <2>1, <2>2 DEF Phases
  <1>8. ASSUME WriteMarker, ex.cur \in Provs
        PROVE  /\ ex.pc = "write-marker"
               /\ \/ ex'.pc \in Tail
                  \/ /\ ex'.pc = "provision" /\ ex'.cur = ex.cur + 1
                     /\ ex'.completed = ex.completed
    <2> DEFINE f == NextCur(ex)
    <2>1. f \in Executor /\ f.cur = ex.cur + 1 /\ f.completed = ex.completed
      BY <1>8, NextCurFields
    <2>2. ex.pc = "write-marker" /\ ex' \in {Goto(f, "provision"), Goto(ex, "cleanup")}
      BY <1>8 DEF WriteMarker, At, Raised
    <2> HIDE DEF f
    <2> QED BY <1>0, <1>1, <2>1, <2>2 DEF Phases, Tail
  <1>9. StopInstance => /\ ex.pc = "provision" /\ ex.cur = N + 1
                        /\ ex'.pc \in {"create-image"} \cup Tail
    BY <1>0 DEF StopInstance, At, Raised, Phases, Tail
  <1>10. CopyImages \/ RaiseError \/ Cleanup \/ Terminate \/ Teardown \/ SignalRaised
            => ex'.pc \in Tail
    <2>1. \A f \in {Succeeded(ex), Failed(ex, "instance"), Failed(ex, "keypair"), Signalled(ex), ex} :
             f \in Executor
      BY SucceededFields, FailedFields, SignalledFields DEF Resource
    <2>2. \A f \in {Succeeded(ex), Failed(ex, "instance"), Failed(ex, "keypair"), Signalled(ex), ex} :
             \A ph \in Phases : Goto(f, ph).pc = ph
      BY <2>1, <1>1
    <2>3. CASE CopyImages     BY <2>2, <2>3 DEF CopyImages, Phases, Tail
    <2>4. CASE RaiseError     BY <2>2, <2>4 DEF RaiseError, Raised, Phases, Tail
    <2>5. CASE Cleanup        BY <2>2, <2>5 DEF Cleanup, Phases, Tail
    <2>6. CASE Terminate      BY <2>2, <2>6 DEF Terminate, Phases, Tail
    <2>7. CASE Teardown       BY <2>2, <2>7 DEF Teardown, Phases, Tail
    <2>8. CASE SignalRaised   BY <2>2, <2>8 DEF SignalRaised, Raised, Phases, Tail
    <2> QED BY <2>3, <2>4, <2>5, <2>6, <2>7, <2>8
  <1>11. SignalSwallowed => ex'.pc = ex.pc /\ SameProgress
    BY SignalledFields DEF SignalSwallowed, SameProgress
  <1> QED BY <1>2, <1>3, <1>4, <1>5, <1>6, <1>7, <1>8, <1>9, <1>10, <1>11

-----------------------------------------------------------------------------
(* Type correctness: no sequence of attempts, faults and janitor steps     *)
(* leaves the state space that TypeOK describes.                           *)
LEMMA InitType == Init => TypeInv
  BY Initials, NativeAssumption
  DEF Init, TypeInv, TypeOK, WorkdirTypeOK, CloudTypeOK, GuestTypeOK, CountTypeOK, Control

Step == Body \/ Cleanup \/ Terminate \/ Teardown \/ SignalRaised \/ SignalSwallowed

LEMMA StepFrame == ASSUME Step PROVE UNCHANGED <<started, attempts, jan>>
  BY DEF Step, Body, SetupKeypair, JournalKeypair, Launch, JournalLaunch, Connect, ReadMarker,
     SkipProvisioner, RunProvisioner, JournalProvisioner, WriteMarker, StopInstance, CreateImage,
     CopyImages, RaiseError, Cleanup, Terminate, Teardown, SignalRaised, SignalSwallowed

LEMMA StepControl == ASSUME TypeInv, Step PROVE Control'
  <1>1. /\ ex \in Executor /\ Control /\ attempts' = attempts
        /\ ex' \in Executor /\ Kept(ex, ex') /\ ex.pc # "idle"
    BY StepKeeps, StepFrame DEF TypeInv, TypeOK, Step
  <1>2. ex'.pc # "idle" => ex'.run \in Runs /\ ex'.plan \in Plans /\ attempts' # 0
    BY <1>1 DEF Control, Kept
  <1>3. ex'.pc \in {"journal-provisioner", "write-marker"} => ex'.cur \in Provs
    <2>1. ex.pc \in {"journal-provisioner", "write-marker"} => ex.cur \in Provs
      BY <1>1 DEF Control
    <2>2. CASE SetupKeypair \/ JournalKeypair \/ Launch \/ JournalLaunch \/ Connect \/ ReadMarker
               \/ SkipProvisioner \/ StopInstance
      BY <1>1, <2>2, Flow DEF Tail
    <2>3. CASE RunProvisioner
      BY <1>1, <2>3, Flow DEF RunProvisioner, SameProgress
    <2>4. CASE JournalProvisioner
      BY <1>1, <2>1, <2>4, Flow DEF JournalProvisioner, At
    <2>5. CASE WriteMarker
      BY <1>1, <2>1, <2>5, Flow DEF WriteMarker, At, Tail
    <2>6. CASE CreateImage
      <3>1. \/ ex' = Goto(ex, "cleanup")
            \/ \E id \in Ids : ex' = Goto(Imaged(ex, id), "copy-images")
        BY <2>6, CreatedId DEF Raised
      <3>2. \A id \in Ids : Imaged(ex, id) \in Executor
        BY <1>1, NativeAssumption, ImagedFields DEF Ids
      <3>3. ex'.pc \in {"cleanup", "copy-images"}
        BY <1>1, <3>1, <3>2, GotoFields DEF Phases
      <3> QED BY <3>3
    <2>7. CASE CopyImages \/ RaiseError \/ Cleanup \/ Terminate \/ Teardown \/ SignalRaised
      BY <1>1, <2>7, Flow DEF Tail
    <2>8. CASE SignalSwallowed
      BY <1>1, <2>1, <2>8, Flow DEF SameProgress
    <2> QED BY <2>2, <2>3, <2>4, <2>5, <2>6, <2>7, <2>8 DEF Step, Body
  <1> QED BY <1>2, <1>3 DEF Control

LEMMA StepType == ASSUME TypeInv, Step PROVE TypeInv'
  <1>1. ex' \in Executor
    BY StepKeeps DEF Step
  <1>2. WorkdirTypeOK' /\ CloudTypeOK' /\ GuestTypeOK'
    BY StepWorkdir, StepCloud, StepGuest DEF Step
  <1>3. CountTypeOK' /\ jan' \in Janitor
    BY StepFrame DEF TypeInv, TypeOK, CountTypeOK
  <1> QED BY <1>1, <1>2, <1>3, StepControl DEF TypeInv, TypeOK

(* A fresh attempt begins at the first phase with nothing done; a resume   *)
(* begins at the connection, or fails before it.                           *)
LEMMA StartType ==
    ASSUME TypeInv, NEW r \in Runs, NEW p \in Plans, NEW keep \in BOOLEAN,
           StartFresh(r, p, keep) \/ StartResume(r, p, keep)
    PROVE  /\ TypeInv' /\ UNCHANGED <<images, guest, marker>>
           /\ ex'.run = r /\ ex'.plan = p /\ ex'.cur = 1
           /\ \/ ex'.pc = "keypair" /\ ~ex'.resume /\ ex'.completed = {}
              \/ ex'.pc = "connect" /\ ex'.resume
              \/ ex'.pc = "cleanup"
  <1>0. WorkdirTypeOK /\ CloudTypeOK /\ GuestTypeOK /\ CountTypeOK /\ jan \in Janitor
    BY DEF TypeInv, TypeOK
  <1>a. r \in AnyRun /\ p \in AnyPlan
    BY DEF AnyRun, AnyPlan
  <1>1. WorkdirTypeOK' /\ CloudTypeOK' /\ GuestTypeOK' /\ jan' \in Janitor
    BY <1>0 DEF StartFresh, StartResume, WorkdirTypeOK, CloudTypeOK, GuestTypeOK,
       workdirVars, cloudVars, guestVars
  <1>2. CountTypeOK' /\ attempts' # 0 /\ UNCHANGED <<images, guest, marker>>
    <2>1. /\ attempts < MaxAttempts /\ attempts' = attempts + 1
          /\ started' \in {started, [started EXCEPT ![r] = attempts + 1]}
      BY DEF StartFresh, StartResume
    <2>2. UNCHANGED <<images, guest, marker>>
      BY DEF StartFresh, StartResume, cloudVars, guestVars
    <2>3. attempts' \in 0..MaxAttempts /\ attempts' # 0
      BY <1>0, <2>1, NativeAssumption DEF CountTypeOK
    <2>4. started' \in [Runs -> 0..MaxAttempts]
      BY <1>0, <2>1, <2>3 DEF CountTypeOK
    <2> QED BY <2>2, <2>3, <2>4 DEF CountTypeOK
  <1>3. CASE StartFresh(r, p, keep)
    <2> DEFINE e == Attempt("keypair", r, p, FALSE, keep)
    <2>1. ex' = e
      BY <1>3 DEF StartFresh
    <2>2. e \in Executor
      BY <1>a, NativeAssumption DEF Attempt, Executor, Phases, Resource, Provs
    <2>3. /\ e.run = r /\ e.plan = p /\ e.cur = 1 /\ e.pc = "keypair"
          /\ ~e.resume /\ e.completed = {}
      BY DEF Attempt
    <2> HIDE DEF e
    <2> QED BY <1>1, <1>2, <2>1, <2>2, <2>3 DEF TypeInv, TypeOK, Control
  <1>4. CASE StartResume(r, p, keep)
    <2> DEFINE e == Attempt("cleanup", r, p, TRUE, keep)
               held == Holding(e, journal.inst, journal.key)
               own == Journaling(held)
               done == Completed(own, journal.completed)
               IsOf(f) == /\ f \in Executor /\ f.run = r /\ f.plan = p /\ f.cur = 1
                          /\ f.resume
    <2>1. ex' \in {e, held, Goto(done, "connect")}
      BY <1>4 DEF StartResume
    <2>2. IsOf(e) /\ e.pc = "cleanup"
      <3>1. e \in Executor
        BY <1>a, NativeAssumption DEF Attempt, Executor, Phases, Resource, Provs
      <3>2. e.run = r /\ e.plan = p /\ e.cur = 1 /\ e.resume /\ e.pc = "cleanup"
        BY DEF Attempt
      <3> QED BY <3>1, <3>2
    <2>3. journal.inst \in BOOLEAN /\ journal.key \in BOOLEAN /\ journal.completed \in SUBSET Provs
      BY <1>0, DocFields DEF WorkdirTypeOK
    <2> HIDE DEF e
    <2>4. IsOf(held) /\ held.pc = "cleanup"
      <3>1. e \in Executor /\ e.pc = "cleanup" /\ e.cur = 1
        BY <2>2
      <3>2. \A i, k \in BOOLEAN :
              /\ Holding(e, i, k) \in Executor /\ Kept(e, Holding(e, i, k))
              /\ Holding(e, i, k).pc = e.pc /\ Holding(e, i, k).cur = e.cur
        BY <3>1, NativeAssumption DEF Holding, Kept, Executor, Provs, Resource, Phases
      <3>3. /\ held \in Executor /\ Kept(e, held)
            /\ held.pc = "cleanup" /\ held.cur = 1
        BY <2>3, <3>1, <3>2
      <3> HIDE DEF held
      <3> QED BY <2>2, <3>3 DEF Kept
    <2> HIDE DEF held
    <2>5. IsOf(own)
      BY <2>4, JournalingFields DEF Kept
    <2> HIDE DEF own
    <2>6. IsOf(done)
      BY <2>3, <2>5, CompletedFields DEF Kept
    <2> HIDE DEF done
    <2>7. IsOf(Goto(done, "connect")) /\ Goto(done, "connect").pc = "connect"
      BY <2>6, GotoFields DEF Kept, Phases
    <2>8. IsOf(ex') /\ ex'.pc \in {"cleanup", "connect"}
      BY <2>1, <2>2, <2>4, <2>7
    <2> QED BY <1>1, <1>2, <2>8 DEF TypeInv, TypeOK, Control
  <1> QED BY <1>3, <1>4

(* The heartbeat, the janitor, the environment, and the end of an attempt. *)
Other ==
    \/ HeartbeatRead \/ HeartbeatWrite \/ Finish \/ Crash \/ Sweep \/ JanFinish
    \/ \E r \in Runs : \/ Reconcile(r) \/ JanTerminate(r)
                       \/ LeaseExpires(r) \/ Reclaimed(r) \/ Restarted(r) \/ Reinstalled(r)
    \/ UNCHANGED vars

LEMMA OtherFrame ==
    ASSUME TypeInv, Other
    PROVE  /\ ex' = ex \/ ex' = NoExec
           /\ UNCHANGED <<started, attempts, images>>
           /\ \/ UNCHANGED <<guest, marker>>
              \/ \E r \in Runs :
                    /\ ex.run # r /\ guest' = [guest EXCEPT ![r] = {}]
                    /\ \E m \in {NoMarker, ForeignMarker} : marker' = [marker EXCEPT ![r] = m]
  <1>1. ex' = ex \/ ex' = NoExec
    BY DEF Other, HeartbeatRead, HeartbeatWrite, Finish, Crash, Sweep, JanFinish, Reconcile,
       JanTerminate, LeaseExpires, Reclaimed, Restarted, Reinstalled, vars
  <1>2. UNCHANGED <<started, attempts, images>>
    BY DEF Other, HeartbeatRead, HeartbeatWrite, Finish, Crash, Sweep, JanFinish, Reconcile,
       JanTerminate, LeaseExpires, Reclaimed, Restarted, Reinstalled, vars, cloudVars
  <1>3. \/ UNCHANGED <<guest, marker>>
        \/ \E r \in Runs :
              /\ ex.run # r /\ guest' = [guest EXCEPT ![r] = {}]
              /\ \E m \in {NoMarker, ForeignMarker} : marker' = [marker EXCEPT ![r] = m]
    BY DEF Other, HeartbeatRead, HeartbeatWrite, Finish, Crash, Sweep, JanFinish, Reconcile,
       JanTerminate, LeaseExpires, Reclaimed, Restarted, Reinstalled, vars, guestVars
  <1> QED BY <1>1, <1>2, <1>3

LEMMA OtherType == ASSUME TypeInv, Other PROVE TypeInv'
  <1>0. /\ ex \in Executor /\ WorkdirTypeOK /\ CloudTypeOK /\ GuestTypeOK /\ CountTypeOK
        /\ jan \in Janitor /\ Control
    BY DEF TypeInv, TypeOK
  <1>1. ex' \in Executor /\ Control' /\ CountTypeOK'
    BY <1>0, OtherFrame, Initials DEF Control, CountTypeOK
  <1>2. WorkdirTypeOK'
    <2>1. hb' \in {hb, journal, NoJournal} /\ journal' \in {journal, hb}
      BY DEF Other, HeartbeatRead, HeartbeatWrite, Finish, Crash, Sweep, JanFinish, Reconcile,
         JanTerminate, LeaseExpires, Reclaimed, Restarted, Reinstalled, vars, workdirVars
    <2>2. record' = record \/ record' = BuildRecord(ex)
      BY DEF Other, HeartbeatRead, HeartbeatWrite, Finish, Crash, Sweep, JanFinish, Reconcile,
         JanTerminate, LeaseExpires, Reclaimed, Restarted, Reinstalled, vars, workdirVars
    <2>3. keyfile' \subseteq keyfile
      BY DEF Other, HeartbeatRead, HeartbeatWrite, Finish, Crash, Sweep, JanFinish, Reconcile,
         JanTerminate, LeaseExpires, Reclaimed, Restarted, Reinstalled, KeyTornDown, vars,
         workdirVars
    <2>4. BuildRecord(ex) \in Record
      BY <1>0, RecordFields DEF CountTypeOK
    <2> QED BY <1>0, <2>1, <2>2, <2>3, <2>4, Initials DEF WorkdirTypeOK
  <1>3. CloudTypeOK'
    <2>1. \/ inst' = inst
          \/ \E r \in Runs, v \in {"gone", "running"} : inst' = [inst EXCEPT ![r] = v]
      BY DEF Other, HeartbeatRead, HeartbeatWrite, Finish, Crash, Sweep, JanFinish, Reconcile,
         JanTerminate, LeaseExpires, Reclaimed, Restarted, Reinstalled, Terminated, vars, cloudVars
    <2>2. lease' = lease \/ \E r \in Runs : lease' = lease \cup {r}
      BY DEF Other, HeartbeatRead, HeartbeatWrite, Finish, Crash, Sweep, JanFinish, Reconcile,
         JanTerminate, LeaseExpires, Reclaimed, Restarted, Reinstalled, vars, cloudVars
    <2>3. key' = key \/ key' = [key EXCEPT ![jan.run] = "deleted"]
      BY DEF Other, HeartbeatRead, HeartbeatWrite, Finish, Crash, Sweep, JanFinish, Reconcile,
         JanTerminate, LeaseExpires, Reclaimed, Restarted, Reinstalled, KeyTornDown, vars,
         cloudVars
    <2>4. images' = images
      BY OtherFrame
    <2>5. inst' \in [Runs -> {"none", "running", "stopped", "gone"}]
      BY <1>0, <2>1 DEF CloudTypeOK
    <2>6. key' \in [Runs -> {"none", "present", "deleted"}]
      BY <1>0, <2>3 DEF CloudTypeOK
    <2> QED BY <1>0, <2>2, <2>4, <2>5, <2>6 DEF CloudTypeOK
  <1>4. GuestTypeOK'
    <2>1. CASE UNCHANGED <<guest, marker>>
      BY <1>0, <2>1 DEF GuestTypeOK
    <2>2. ASSUME NEW r \in Runs, guest' = [guest EXCEPT ![r] = {}],
                 NEW m \in {NoMarker, ForeignMarker}, marker' = [marker EXCEPT ![r] = m]
          PROVE  GuestTypeOK'
      <3>1. m \in Marker
        BY Initials
      <3> QED BY <1>0, <2>2, <3>1 DEF GuestTypeOK
    <2> QED BY OtherFrame, <2>1, <2>2
  <1>5. jan' \in Janitor
    <2>1. CASE \E r \in Runs : Reconcile(r)
      <3>1. PICK r \in Runs : Reconcile(r)
        BY <2>1
      <3> DEFINE found == {q \in {r} : Live(q)}
                 k == KeyCandidate(r) /\ key[r] = "present"
      <3>2. jan' = Job("reconcile", r, found, k) /\ k \in BOOLEAN /\ found \in SUBSET Runs
        BY <3>1 DEF Reconcile
      <3> HIDE DEF found, k
      <3> QED BY <3>2, JobFields DEF AnyRun
    <2>2. CASE Sweep
      <3> DEFINE expired == {r \in lease : Live(r)}
      <3>1. jan' = Job("sweep", NoRun, expired, FALSE) /\ expired \in SUBSET Runs
        BY <1>0, <2>2 DEF Sweep, CloudTypeOK
      <3> HIDE DEF expired
      <3> QED BY <3>1, JobFields DEF AnyRun
    <2>3. CASE \E r \in Runs : JanTerminate(r)
      <3>1. PICK r \in Runs, ok \in BOOLEAN : jan' = Answered(jan, r, ok)
        BY <2>3 DEF JanTerminate
      <3> QED BY <1>0, <3>1, AnsweredFields
    <2>4. CASE JanFinish
      BY <2>4, Initials DEF JanFinish
    <2>5. CASE \/ HeartbeatRead \/ HeartbeatWrite \/ Finish \/ Crash \/ UNCHANGED vars
               \/ \E r \in Runs : \/ LeaseExpires(r) \/ Reclaimed(r) \/ Restarted(r)
                                  \/ Reinstalled(r)
      BY <1>0, <2>5 DEF HeartbeatRead, HeartbeatWrite, Finish, Crash, LeaseExpires, Reclaimed,
         Restarted, Reinstalled, vars
    <2> QED BY <2>1, <2>2, <2>3, <2>4, <2>5 DEF Other
  <1> QED BY <1>1, <1>2, <1>3, <1>4, <1>5 DEF TypeInv, TypeOK

LEMMA NextCases ==
    ASSUME [Next]_vars
    PROVE  \/ Step \/ Other
           \/ \E r \in Runs, p \in Plans, keep \in BOOLEAN :
                 StartFresh(r, p, keep) \/ StartResume(r, p, keep)
  BY DEF Next, ExecStep, JanStep, Step, Other

THEOREM TypeCorrect == Spec => []TypeOK
  <1>1. TypeInv /\ [Next]_vars => TypeInv'
    BY NextCases, StepType, StartType, OtherType
  <1>2. TypeInv => TypeOK
    BY DEF TypeInv
  <1> QED BY InitType, <1>1, <1>2, PTL DEF Spec

-----------------------------------------------------------------------------
(* ImagesHardened.  A guest's marker of its own run never claims more than *)
(* what ran on that guest, and neither does the executor's completed set   *)
(* once it was agreed with the marker; so the loop ends on a guest where   *)
(* every provisioner of the plan ran.                                      *)
MarkerTrue ==
    \A r \in Runs : marker[r].run = r =>
        \A k \in marker[r].completed : <<marker[r].plan, k>> \in guest[r]

Early == {"keypair", "journal-key", "launch", "journal-launch"}
ProgressTrue ==
    /\ ex.pc \in {"provision", "journal-provisioner", "write-marker"} =>
         \A k \in Provs : (k \in ex.completed \/ k < ex.cur) => <<ex.plan, k>> \in guest[ex.run]
    /\ ex.pc \in {"journal-provisioner", "write-marker"} => <<ex.plan, ex.cur>> \in guest[ex.run]
    /\ ex.pc = "create-image" => AllOf(ex.plan) \subseteq guest[ex.run]
    /\ ex.pc \in Early => ~ex.resume
    /\ ex.pc \in Early \cup {"connect"} /\ ~ex.resume => ex.completed = {}
    /\ ex.pc \in Early \cup {"connect", "marker"} => ex.cur = 1

HardenInv == MarkerTrue /\ ProgressTrue /\ ImagesHardened

LEMMA InitHarden == Init => HardenInv
  <1> SUFFICES ASSUME Init PROVE HardenInv
    OBVIOUS
  <1>1. \A r \in Runs : marker[r].run = NoRun
    BY Initials DEF Init
  <1>2. ex.pc = "idle" /\ images = {}
    BY Initials DEF Init
  <1> QED BY <1>1, <1>2, NativeAssumption
          DEF HardenInv, MarkerTrue, ProgressTrue, ImagesHardened, Early

(* The effect of a step on the guests and their markers. *)
LEMMA StepGuests ==
    ASSUME TypeInv, Step
    PROVE  /\ \A r \in Runs : guest[r] \subseteq guest'[r]
           /\ \A r \in Runs : \/ marker'[r] = marker[r]
                              \/ marker'[r].run = NoRun
                              \/ /\ ex.pc = "write-marker" /\ r = ex.run
                                 /\ marker'[r].plan = ex.plan
                                 /\ marker'[r].completed = ex.completed
           /\ RunProvisioner => <<ex.plan, ex.cur>> \in guest'[ex.run]
  <1>0. GuestTypeOK /\ (ex.pc # "idle" => ex.run \in Runs)
    BY DEF TypeInv, TypeOK, Control
  <1>1. CASE Launch
    <2>1. PICK m \in {NoMarker, ForeignMarker} : marker' = [marker EXCEPT ![ex.run] = m]
      BY <1>1 DEF Launch
    <2>2. guest' = guest /\ ex.pc = "launch"
      BY <1>1 DEF Launch, At
    <2>3. m.run = NoRun
      BY Initials
    <2>4. ~RunProvisioner
      BY <2>2 DEF RunProvisioner, At
    <2> QED BY <1>0, <2>1, <2>2, <2>3, <2>4 DEF GuestTypeOK
  <1>2. CASE RunProvisioner
    <2>1. /\ ex.run \in Runs /\ UNCHANGED marker
          /\ guest' = [guest EXCEPT ![ex.run] = @ \cup {<<ex.plan, ex.cur>>}]
      BY <1>0, <1>2 DEF RunProvisioner, At
    <2> QED BY <1>0, <2>1 DEF GuestTypeOK
  <1>3. CASE WriteMarker
    <2> DEFINE m == [run |-> ex.run, plan |-> ex.plan, completed |-> ex.completed]
    <2>1. /\ ex.run \in Runs /\ UNCHANGED guest /\ marker' = [marker EXCEPT ![ex.run] = m]
          /\ ex.pc = "write-marker" /\ ~RunProvisioner
      BY <1>0, <1>3 DEF WriteMarker, RunProvisioner, At
    <2>2. m.plan = ex.plan /\ m.completed = ex.completed
      OBVIOUS
    <2> HIDE DEF m
    <2>3. \A r \in Runs : marker'[r] = IF r = ex.run THEN m ELSE marker[r]
      BY <1>0, <2>1 DEF GuestTypeOK
    <2> QED BY <2>1, <2>2, <2>3
  <1>4. CASE /\ ~RunProvisioner
             /\ \/ SetupKeypair \/ JournalKeypair \/ JournalLaunch \/ Connect \/ ReadMarker
                \/ SkipProvisioner \/ JournalProvisioner \/ StopInstance \/ CreateImage
                \/ CopyImages \/ RaiseError \/ Cleanup \/ Terminate \/ Teardown
                \/ SignalRaised \/ SignalSwallowed
    <2>1. UNCHANGED <<guest, marker>>
      BY <1>4 DEF SetupKeypair, JournalKeypair, JournalLaunch, Connect, ReadMarker,
         SkipProvisioner, JournalProvisioner, StopInstance, CreateImage, CopyImages, RaiseError,
         Cleanup, Terminate, Teardown, SignalRaised, SignalSwallowed, guestVars
    <2> QED BY <1>4, <2>1
  <1> QED BY <1>1, <1>2, <1>3, <1>4 DEF Step, Body

LEMMA StepHarden == ASSUME TypeInv, HardenInv, Step PROVE HardenInv'
  <1>0. /\ ex \in Executor /\ ex.run \in Runs /\ ex.plan \in Plans /\ Kept(ex, ex')
        /\ ex.completed \in SUBSET Provs /\ ex.cur \in 1..(N + 1)
    BY StepKeeps, ExecutorTypes DEF TypeInv, TypeOK, Control, Step
  <1>a. ex'.run = ex.run /\ ex'.plan = ex.plan /\ ex'.resume = ex.resume
    BY <1>0 DEF Kept
  <1>1. MarkerTrue'
    <2> SUFFICES ASSUME NEW r \in Runs, marker'[r].run = r, NEW k \in marker'[r].completed
                 PROVE  <<marker'[r].plan, k>> \in guest'[r]
      BY DEF MarkerTrue
    <2>1. CASE marker'[r] = marker[r]
      BY <2>1, StepGuests DEF HardenInv, MarkerTrue
    <2>2. CASE /\ ex.pc = "write-marker" /\ r = ex.run
               /\ marker'[r].plan = ex.plan /\ marker'[r].completed = ex.completed
      BY <1>0, <2>2, StepGuests DEF HardenInv, ProgressTrue
    <2> QED BY <2>1, <2>2, StepGuests, NativeAssumption
  <1>2. ProgressTrue'
    <2>1. CASE SetupKeypair \/ JournalKeypair \/ Launch \/ JournalLaunch
      BY <1>0, <1>a, <2>1, Flow DEF SameProgress, Tail, Early, HardenInv, ProgressTrue
    <2>2. CASE Connect
      <3>1. /\ ex.pc = "connect" /\ ex'.cur = ex.cur /\ ex'.completed = ex.completed
            /\ ex'.pc = IF ex.resume THEN "marker" ELSE "provision"
        BY <1>0, <2>2, Flow DEF SameProgress
      <3>2. ex'.cur = 1 /\ (~ex.resume => ex'.completed = {})
        BY <3>1 DEF HardenInv, ProgressTrue
      <3>3. CASE ex.resume
        <4>1. ex'.pc = "marker"
          BY <3>1, <3>3
        <4> QED BY <4>1, <3>2 DEF ProgressTrue, Early
      <3>4. CASE ~ex.resume
        <4>1. ex'.pc = "provision" /\ ex'.completed = {}
          BY <3>1, <3>2, <3>4
        <4>2. \A k \in Provs : ~(k < 1)
          BY NativeAssumption DEF Provs
        <4> QED BY <4>1, <4>2, <3>2 DEF ProgressTrue, Early
      <3> QED BY <3>3, <3>4
    <2>3. CASE ReadMarker
      <3>1. ex.pc = "marker" /\ ex'.cur = 1
        BY <1>0, <2>3, Flow DEF HardenInv, ProgressTrue
      <3>2. \A k \in Provs : ~(k < 1)
        BY NativeAssumption DEF Provs
      <3>3. CASE ex'.pc \in Tail
        BY <3>3 DEF Tail, ProgressTrue, Early
      <3>4. CASE ex'.pc = "provision" /\ ex'.completed = {}
        BY <3>1, <3>2, <3>4 DEF ProgressTrue, Early
      <3>5. CASE /\ ex'.pc = "provision"
                 /\ SameIdentity(marker[ex.run], ex.run, ex.plan)
                 /\ ex'.completed \subseteq marker[ex.run].completed
        <4>1. \A k \in ex'.completed : <<ex.plan, k>> \in guest'[ex.run]
          BY <1>0, <3>5, StepGuests DEF SameIdentity, HardenInv, MarkerTrue
        <4> QED BY <1>a, <3>1, <3>2, <3>5, <4>1 DEF ProgressTrue, Early
      <3> QED BY <1>0, <2>3, <3>3, <3>4, <3>5, Flow
    <2>4. CASE SkipProvisioner
      <3>1. /\ ex.pc = "provision" /\ ex'.pc = "provision" /\ ex.cur \in ex.completed
            /\ ex'.cur = ex.cur + 1 /\ ex'.completed = ex.completed
        BY <1>0, <2>4, Flow
      <3>2. \A k \in Provs : k \in ex'.completed \/ k < ex'.cur => k \in ex.completed \/ k < ex.cur
        BY <1>0, <3>1, NativeAssumption DEF Provs
      <3>3. \A k \in Provs : k \in ex'.completed \/ k < ex'.cur
                              => <<ex.plan, k>> \in guest'[ex.run]
        BY <1>0, <3>1, <3>2, StepGuests DEF HardenInv, ProgressTrue
      <3> QED BY <1>a, <3>1, <3>3 DEF ProgressTrue, Early
    <2>5. CASE RunProvisioner
      BY <1>0, <1>a, <2>5, Flow, StepGuests DEF SameProgress, Tail, Early, HardenInv, ProgressTrue
    <2>6. CASE JournalProvisioner
      <3>1. ex.pc = "journal-provisioner" /\ ex.cur \in Provs
        BY <2>6 DEF JournalProvisioner, At, TypeInv, Control
      <3> QED BY <1>0, <1>a, <2>6, <3>1, Flow, StepGuests DEF Early, HardenInv, ProgressTrue
    <2>7. CASE WriteMarker
      <3>1. ex.pc = "write-marker" /\ ex.cur \in Provs
        BY <2>7 DEF WriteMarker, At, TypeInv, Control
      <3>2. CASE ex'.pc \in Tail
        BY <3>2 DEF Tail, ProgressTrue, Early
      <3>3. CASE ex'.pc = "provision" /\ ex'.cur = ex.cur + 1 /\ ex'.completed = ex.completed
        <4>1. \A k \in Provs : k \in ex'.completed \/ k < ex'.cur
                                => k \in ex.completed \/ k < ex.cur \/ k = ex.cur
          BY <1>0, <3>1, <3>3, NativeAssumption DEF Provs
        <4>2. \A k \in Provs : k \in ex'.completed \/ k < ex'.cur
                                => <<ex.plan, k>> \in guest'[ex.run]
          BY <1>0, <3>1, <4>1, StepGuests DEF HardenInv, ProgressTrue
        <4> QED BY <1>a, <3>3, <4>2 DEF ProgressTrue, Early
      <3> QED BY <1>0, <2>7, <3>1, <3>2, <3>3, Flow
    <2>8. CASE StopInstance
      <3>1. \A k \in Provs : k < N + 1
        BY NativeAssumption DEF Provs
      <3>2. AllOf(ex.plan) \subseteq guest'[ex.run]
        BY <1>0, <2>8, <3>1, Flow, StepGuests DEF AllOf, HardenInv, ProgressTrue
      <3> QED BY <1>0, <1>a, <2>8, <3>2, Flow DEF Tail, Early, ProgressTrue
    <2>9. CASE CreateImage
      <3>1. \/ ex' = Goto(ex, "cleanup")
            \/ \E id \in Ids : ex' = Goto(Imaged(ex, id), "copy-images")
        BY <2>9, CreatedId DEF Raised
      <3>2. \A id \in Ids : Imaged(ex, id) \in Executor
        BY <1>0, NativeAssumption, ImagedFields DEF Ids
      <3>3. ex'.pc \in {"cleanup", "copy-images"}
        BY <1>0, <3>1, <3>2, GotoFields DEF Phases
      <3> QED BY <3>3 DEF ProgressTrue, Early
    <2>10. CASE CopyImages \/ RaiseError \/ Cleanup \/ Terminate \/ Teardown \/ SignalRaised
      BY <1>0, <2>10, Flow DEF Tail, Early, ProgressTrue
    <2>11. CASE SignalSwallowed
      BY <1>0, <1>a, <2>11, Flow, StepGuests DEF SameProgress, Early, HardenInv, ProgressTrue, AllOf
    <2> QED BY <2>1, <2>2, <2>3, <2>4, <2>5, <2>6, <2>7, <2>8, <2>9, <2>10, <2>11 DEF Step, Body
  <1>3. ImagesHardened'
    <2>1. CASE CreateImage
      <3> DEFINE new == [id |-> attempts, run |-> ex.run, content |-> guest[ex.run]]
      <3>1. images' \in {images, images \cup {new}} /\ ex.pc = "create-image"
        BY <2>1 DEF CreateImage, At
      <3>2. AllOf(ex.plan) \subseteq new.content
        BY <3>1 DEF HardenInv, ProgressTrue
      <3> HIDE DEF new
      <3> QED BY <1>0, <3>1, <3>2 DEF HardenInv, ImagesHardened, AllOf
    <2>2. CASE \/ SetupKeypair \/ JournalKeypair \/ Launch \/ JournalLaunch \/ Connect
               \/ ReadMarker \/ SkipProvisioner \/ RunProvisioner \/ JournalProvisioner
               \/ WriteMarker \/ StopInstance \/ CopyImages \/ RaiseError \/ Cleanup
               \/ Terminate \/ Teardown \/ SignalRaised \/ SignalSwallowed
      <3>1. images' = images
        BY <2>2 DEF SetupKeypair, JournalKeypair, Launch, JournalLaunch, Connect, ReadMarker,
           SkipProvisioner, RunProvisioner, JournalProvisioner, WriteMarker, StopInstance,
           CopyImages, RaiseError, Cleanup, Terminate, Teardown, SignalRaised, SignalSwallowed,
           cloudVars
      <3> QED BY <3>1 DEF HardenInv, ImagesHardened, AllOf
    <2> QED BY <2>1, <2>2 DEF Step, Body
  <1> QED BY <1>1, <1>2, <1>3 DEF HardenInv

LEMMA OtherHarden == ASSUME TypeInv, HardenInv, Other PROVE HardenInv'
  <1>0. GuestTypeOK
    BY DEF TypeInv, TypeOK
  <1>1. ImagesHardened'
    BY OtherFrame DEF HardenInv, ImagesHardened, AllOf
  <1>2. CASE UNCHANGED <<guest, marker>>
    <2>1. ex' = ex \/ ex'.pc = "idle"
      BY OtherFrame, Initials
    <2> QED BY <1>1, <1>2, <2>1 DEF HardenInv, MarkerTrue, ProgressTrue, Early, AllOf
  <1>3. ASSUME NEW r \in Runs, ex.run # r, guest' = [guest EXCEPT ![r] = {}],
               NEW m \in {NoMarker, ForeignMarker}, marker' = [marker EXCEPT ![r] = m]
        PROVE  HardenInv'
    <2>1. m.run = NoRun /\ m.run # r
      BY Initials, NativeAssumption
    <2>2. \A q \in Runs \ {r} : guest'[q] = guest[q] /\ marker'[q] = marker[q]
      BY <1>0, <1>3 DEF GuestTypeOK
    <2>3. marker'[r] = m
      BY <1>0, <1>3 DEF GuestTypeOK
    <2>4. MarkerTrue'
      BY <2>1, <2>2, <2>3 DEF HardenInv, MarkerTrue
    <2>5. ex' = ex \/ ex'.pc = "idle"
      BY OtherFrame, Initials
    <2>6. ex.pc # "idle" => guest'[ex.run] = guest[ex.run]
      BY <1>3, <2>2 DEF TypeInv, Control
    <2>7. ProgressTrue'
      BY <2>5, <2>6 DEF HardenInv, ProgressTrue, Early, AllOf
    <2> QED BY <1>1, <2>4, <2>7 DEF HardenInv
  <1> QED BY <1>2, <1>3, OtherFrame

LEMMA StartHarden ==
    ASSUME TypeInv, HardenInv, NEW r \in Runs, NEW p \in Plans, NEW keep \in BOOLEAN,
           StartFresh(r, p, keep) \/ StartResume(r, p, keep)
    PROVE  HardenInv'
  <1>1. /\ UNCHANGED <<images, guest, marker>> /\ ex'.cur = 1
        /\ \/ ex'.pc = "keypair" /\ ~ex'.resume /\ ex'.completed = {}
           \/ ex'.pc = "connect" /\ ex'.resume
           \/ ex'.pc = "cleanup"
    BY StartType
  <1>2. MarkerTrue' /\ ImagesHardened'
    BY <1>1 DEF HardenInv, MarkerTrue, ImagesHardened, AllOf
  <1>3. ProgressTrue'
    BY <1>1 DEF ProgressTrue, Early
  <1> QED BY <1>2, <1>3 DEF HardenInv

(* However an attempt is interrupted, resumed or raced by the janitor, and *)
(* however its guest is reinstalled between attempts, every image in the   *)
(* account was cut from a guest on which one plan ran in full: completing  *)
(* a provisioner is believed only where the journal and the guest's own    *)
(* marker agree (native/executor.py, 281-307).                             *)
THEOREM Hardened == Spec => []ImagesHardened
  <1>1. TypeInv /\ HardenInv /\ [Next]_vars => TypeInv' /\ HardenInv'
    BY NextCases, StepType, StartType, OtherType, StepHarden, StartHarden, OtherHarden
  <1>2. HardenInv => ImagesHardened
    BY DEF HardenInv
  <1> QED BY InitType, InitHarden, <1>1, <1>2, PTL DEF Spec

=============================================================================
