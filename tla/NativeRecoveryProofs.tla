------------------------- MODULE NativeRecoveryProofs -------------------------
(***************************************************************************)
(* What the journal, the marker and the build record of NativeBuild are    *)
(* good for after an attempt has ended, in whatever way: theorems for      *)
(* every set of runs and plans, and every number of provisioners and       *)
(* attempts.                                                               *)
(***************************************************************************)
EXTENDS NativeBuildProofs

-----------------------------------------------------------------------------
(* The parts of the invariant. *)

Fresh == {"keypair", "journal-key"}
Launching == {"launch", "journal-launch"}
Looping == {"provision", "journal-provisioner", "write-marker"}
Equipped == {"journal-launch", "connect", "marker", "stop", "create-image", "copy-images"} \cup Looping
Leaving == {"cleanup", "terminate", "teardown", "finish"}

Launched(r) == inst[r] # "none"

(* Runs are started once, in the order of their attempts. *)
StartInv ==
    /\ \A r \in Runs : started[r] <= attempts
    /\ \A r \in Runs : Launched(r) => started[r] # 0
    /\ journal.run \in Runs => started[journal.run] # 0
    /\ record.run \in Runs => started[record.run] # 0
    /\ ex.pc # "idle" => started[ex.run] # 0
    /\ ex.pc \in Fresh => /\ \A r \in Runs \ {ex.run} : started[r] < started[ex.run]
                          /\ journal.run # ex.run /\ record.run # ex.run

(* The journal belongs to the attempt that writes it, and the heartbeat    *)
(* holds the document that is in the file.                                 *)
JournalInv ==
    /\ hb # NoJournal => hb = journal
    /\ ex.pc # "idle" /\ (ex.active \/ ex.inst) => journal.run = ex.run
    /\ ex.pc \in Launching => /\ journal.run = ex.run /\ journal.key
    /\ ex.pc \in Launching \cup {"connect"} /\ ~ex.resume => journal.completed = {}
    /\ ex.pc \in {"connect", "marker"} /\ ex.resume => ex.completed = journal.completed
    /\ ex.pc = "marker" => ex.resume

(* Where the journal and the guest's marker agree, the executor knows.     *)
AgreeInv ==
    ex.pc \in Looping /\ SameIdentity(marker[ex.run], ex.run, ex.plan) =>
        journal.completed \cap marker[ex.run].completed \subseteq ex.completed

(* An instance is only named by those that know one exists.                *)
NamedInv ==
    /\ ex.pc # "idle" /\ ex.inst => Launched(ex.run)
    /\ journal.run \in Runs /\ journal.inst => Launched(journal.run)
    /\ \A r \in jan.todo : Launched(r)
    /\ KeyJournaledBeforeLaunch

(* What an attempt holds in its body, and what it may not leave behind.    *)
HoldInv ==
    /\ ex.pc \in Equipped => ex.inst
    /\ ex.pc \in Equipped \cup {"journal-key", "launch"} => ex.key
    /\ ex.ok => ex.pc \in Leaving /\ ex.inst /\ ex.key /\ ex.image # 0
    /\ ex.pc = "copy-images" => ex.image # 0
    /\ ex.pc = "terminate" => ex.inst
    /\ ex.pc = "teardown" /\ ex.inst /\ "instance" \notin ex.errs => inst[ex.run] = "gone"
    /\ ex.pc = "finish" /\ ~Retained(ex) =>
          /\ ex.inst /\ "instance" \notin ex.errs => inst[ex.run] = "gone"
          /\ ex.key /\ "keypair" \notin ex.errs => key[ex.run] = "deleted"

RecordInv ==
    /\ record.ok => /\ record.run \in Runs /\ inst[record.run] = "gone"
                    /\ key[record.run] = "deleted"
                    /\ \E i \in images : i.id = record.image /\ i.run = record.run
    /\ record.attempt # 0 /\ ~record.retained =>
          /\ record.run \in Runs
          /\ record.inst /\ "instance" \notin record.remaining => inst[record.run] = "gone"
          /\ record.key /\ "keypair" \notin record.remaining => key[record.run] = "deleted"

RecoveryInv == /\ StartInv /\ JournalInv /\ AgreeInv /\ NamedInv
               /\ HoldInv /\ RecordInv /\ ReportsOwnImage

-----------------------------------------------------------------------------
(* What each step of the executor does to its local state. *)

Same(e, f) ==
    /\ f.active = e.active /\ f.inst = e.inst /\ f.key = e.key
    /\ f.ok = e.ok /\ f.errs = e.errs /\ f.image = e.image

LEMMA Going ==
    ASSUME NEW e \in Executor, NEW f \in Phases
    PROVE  Goto(e, f).pc = f /\ Same(e, Goto(e, f)) /\ Goto(e, f).completed = e.completed
  BY GotoFields DEF Same

LEMMA BodyEffect ==
    ASSUME TypeInv
    PROVE  /\ SetupKeypair =>
                /\ ex.pc = "keypair" /\ ex'.ok = ex.ok /\ ex'.image = ex.image /\ ex'.active = ex.active
                /\ \/ ex'.pc = "journal-key" /\ ~ex'.inst /\ ex'.key
                   \/ ex'.pc = "cleanup" /\ Same(ex, ex')
           /\ JournalKeypair =>
                /\ ex.pc = "journal-key" /\ ex'.pc = "launch" /\ ex'.inst = ex.inst
                /\ ex'.key = ex.key /\ ex'.ok = ex.ok /\ ex'.image = ex.image
           /\ Launch =>
                /\ ex.pc = "launch" /\ ex'.active = ex.active /\ ex'.key = ex.key
                /\ ex'.ok = ex.ok /\ ex'.image = ex.image /\ ex'.completed = ex.completed
                /\ \/ ex'.pc \in {"journal-launch", "cleanup"} /\ ex'.inst
                   \/ ex'.pc = "cleanup" /\ Same(ex, ex')
           /\ JournalLaunch =>
                /\ ex.pc = "journal-launch" /\ ex'.pc = "connect" /\ Same(ex, ex')
           /\ Connect =>
                /\ ex.pc = "connect" /\ Same(ex, ex') /\ ex'.completed = ex.completed
                /\ ex'.pc = IF ex.resume THEN "marker" ELSE "provision"
           /\ ReadMarker =>
                /\ ex.pc = "marker" /\ Same(ex, ex')
                /\ \/ ex'.pc = "cleanup"
                   \/ ex'.pc = "provision" /\ marker[ex.run] = NoMarker
                   \/ /\ ex'.pc = "provision"
                      /\ ex'.completed = ex.completed \cap marker[ex.run].completed
           /\ SkipProvisioner =>
                /\ ex.pc = "provision" /\ ex'.pc = "provision" /\ Same(ex, ex')
                /\ ex'.completed = ex.completed
           /\ RunProvisioner =>
                /\ ex.pc = "provision" /\ ex'.pc \in {"journal-provisioner", "cleanup"}
                /\ Same(ex, ex') /\ ex'.completed = ex.completed
           /\ JournalProvisioner =>
                /\ ex.pc = "journal-provisioner" /\ ex'.pc = "write-marker" /\ Same(ex, ex')
                /\ ex'.completed = ex.completed \cup {ex.cur}
           /\ WriteMarker =>
                /\ ex.pc = "write-marker" /\ ex'.pc \in {"provision", "cleanup"}
                /\ Same(ex, ex') /\ ex'.completed = ex.completed
           /\ StopInstance =>
                /\ ex.pc = "provision" /\ ex'.pc \in {"create-image", "cleanup"} /\ Same(ex, ex')
           /\ CopyImages =>
                /\ ex.pc = "copy-images" /\ ex'.pc = "cleanup" /\ ex'.ok
                /\ ex'.inst = ex.inst /\ ex'.key = ex.key /\ ex'.active = ex.active
                /\ ex'.image = ex.image
           /\ RaiseError => ex.pc \in InTry /\ ex'.pc = "cleanup" /\ Same(ex, ex')
  <1>0. /\ ex \in Executor /\ Control /\ ex.key \in BOOLEAN /\ ex.completed \in SUBSET Provs
    BY ExecutorTypes DEF TypeInv, TypeOK
  <1>. DEFINE Is(e, f, ph) == f.pc = ph /\ Same(e, f) /\ f.completed = e.completed
  <1>g. \A ph \in Phases : Is(ex, Goto(ex, ph), ph)
    BY <1>0, Going
  <1>1. ASSUME SetupKeypair
        PROVE  /\ ex.pc = "keypair" /\ ex'.ok = ex.ok /\ ex'.image = ex.image /\ ex'.active = ex.active
               /\ \/ ex'.pc = "journal-key" /\ ~ex'.inst /\ ex'.key
                  \/ ex'.pc = "cleanup" /\ Same(ex, ex')
    <2>. DEFINE f == Holding(ex, FALSE, TRUE)
    <2>1. f \in Executor /\ ~f.inst /\ f.key /\ f.ok = ex.ok /\ f.image = ex.image /\ f.active = ex.active
      BY <1>0, HoldingFields
    <2>2. ex.pc = "keypair" /\ ex' \in {Goto(f, "journal-key"), Goto(ex, "cleanup")}
      BY <1>1 DEF SetupKeypair, At, Raised
    <2>. HIDE DEF f
    <2>3. Is(f, Goto(f, "journal-key"), "journal-key")
      BY <2>1, Going DEF Phases
    <2>4. Is(ex, Goto(ex, "cleanup"), "cleanup")
      BY <1>g DEF Phases
    <2>. QED BY <2>1, <2>2, <2>3, <2>4 DEF Same
  <1>2. ASSUME JournalKeypair
        PROVE  /\ ex.pc = "journal-key" /\ ex'.pc = "launch" /\ ex'.inst = ex.inst
               /\ ex'.key = ex.key /\ ex'.ok = ex.ok /\ ex'.image = ex.image
    <2>. DEFINE f == Journaling(ex)
    <2>1. f \in Executor /\ f.inst = ex.inst /\ f.key = ex.key /\ f.ok = ex.ok /\ f.image = ex.image
      BY <1>0, JournalingFields
    <2>2. ex.pc = "journal-key" /\ ex' = Goto(f, "launch")
      BY <1>2 DEF JournalKeypair, At
    <2>. HIDE DEF f
    <2>3. Is(f, Goto(f, "launch"), "launch")
      BY <2>1, Going DEF Phases
    <2>. QED BY <2>1, <2>2, <2>3 DEF Same
  <1>3. ASSUME Launch
        PROVE  /\ ex.pc = "launch" /\ ex'.active = ex.active /\ ex'.key = ex.key
               /\ ex'.ok = ex.ok /\ ex'.image = ex.image /\ ex'.completed = ex.completed
               /\ \/ ex'.pc \in {"journal-launch", "cleanup"} /\ ex'.inst
                  \/ ex'.pc = "cleanup" /\ Same(ex, ex')
    <2>. DEFINE f == Holding(ex, TRUE, ex.key)
    <2>1. f \in Executor /\ f.inst /\ f.key = ex.key /\ f.ok = ex.ok /\ f.image = ex.image
          /\ f.active = ex.active /\ f.completed = ex.completed
      BY <1>0, HoldingFields
    <2>2. /\ ex.pc = "launch"
          /\ ex' \in {Goto(f, "journal-launch"), Goto(f, "cleanup"), Goto(ex, "cleanup")}
      BY <1>3 DEF Launch, At, Raised
    <2>. HIDE DEF f
    <2>3. /\ Is(f, Goto(f, "journal-launch"), "journal-launch")
          /\ Is(f, Goto(f, "cleanup"), "cleanup")
      BY <2>1, Going DEF Phases
    <2>4. Is(ex, Goto(ex, "cleanup"), "cleanup")
      BY <1>g DEF Phases
    <2>. QED BY <2>1, <2>2, <2>3, <2>4 DEF Same
  <1>4. JournalLaunch => ex.pc = "journal-launch" /\ ex'.pc = "connect" /\ Same(ex, ex')
    BY <1>g DEF JournalLaunch, At, Phases
  <1>5. Connect => /\ ex.pc = "connect" /\ Same(ex, ex') /\ ex'.completed = ex.completed
                   /\ ex'.pc = IF ex.resume THEN "marker" ELSE "provision"
    BY <1>g DEF Connect, At, Phases
  <1>6. ASSUME ReadMarker
        PROVE  /\ ex.pc = "marker" /\ Same(ex, ex')
               /\ \/ ex'.pc = "cleanup"
                  \/ ex'.pc = "provision" /\ marker[ex.run] = NoMarker
                  \/ /\ ex'.pc = "provision"
                     /\ ex'.completed = ex.completed \cap marker[ex.run].completed
    <2>. DEFINE agreed == ex.completed \cap marker[ex.run].completed
                f == Completed(ex, {})
                h == Completed(ex, agreed)
    <2>1. f \in Executor /\ Same(ex, f) /\ h \in Executor /\ Same(ex, h) /\ h.completed = agreed
      BY <1>0, CompletedFields DEF Same
    <2>2. /\ ex.pc = "marker"
          /\ \/ ex' = Goto(ex, "cleanup")
             \/ ex' = Goto(f, "provision") /\ marker[ex.run] = NoMarker
             \/ ex' = Goto(h, "provision")
      BY <1>6 DEF ReadMarker, At, Raised, AgreedCompleted
    <2>. HIDE DEF f, h
    <2>3. \A ph \in Phases : Is(f, Goto(f, ph), ph) /\ Is(h, Goto(h, ph), ph)
      BY <2>1, Going
    <2>. QED BY <1>g, <2>1, <2>2, <2>3 DEF Phases, Same
  <1>7. SkipProvisioner => /\ ex.pc = "provision" /\ ex'.pc = "provision" /\ Same(ex, ex')
                           /\ ex'.completed = ex.completed
    BY <1>0, NextCurFields DEF SkipProvisioner, At, Same
  <1>8. RunProvisioner => /\ ex.pc = "provision" /\ ex'.pc \in {"journal-provisioner", "cleanup"}
                          /\ Same(ex, ex') /\ ex'.completed = ex.completed
    BY <1>g DEF RunProvisioner, At, Raised, Phases
  <1>9. ASSUME JournalProvisioner
        PROVE  /\ ex.pc = "journal-provisioner" /\ ex'.pc = "write-marker" /\ Same(ex, ex')
               /\ ex'.completed = ex.completed \cup {ex.cur}
    <2>. DEFINE f == Completed(ex, ex.completed \cup {ex.cur})
    <2>1. ex.pc = "journal-provisioner" /\ ex' = Goto(f, "write-marker")
      BY <1>9 DEF JournalProvisioner, At
    <2>2. ex.cur \in Provs
      BY <1>0, <2>1 DEF Control
    <2>3. f \in Executor /\ Same(ex, f) /\ f.completed = ex.completed \cup {ex.cur}
      BY <1>0, <2>2, CompletedFields DEF Same
    <2>. HIDE DEF f
    <2>4. Is(f, Goto(f, "write-marker"), "write-marker")
      BY <2>3, Going DEF Phases
    <2>. QED BY <2>1, <2>3, <2>4 DEF Same
  <1>10. ASSUME WriteMarker
         PROVE  /\ ex.pc = "write-marker" /\ ex'.pc \in {"provision", "cleanup"}
                /\ Same(ex, ex') /\ ex'.completed = ex.completed
    <2>. DEFINE f == NextCur(ex)
    <2>1. ex.pc = "write-marker" /\ ex' \in {Goto(f, "provision"), Goto(ex, "cleanup")}
      BY <1>10 DEF WriteMarker, At, Raised
    <2>2. ex.cur \in Provs
      BY <1>0, <2>1 DEF Control
    <2>3. f \in Executor /\ Same(ex, f) /\ f.completed = ex.completed
      BY <1>0, <2>2, NextCurFields DEF Same
    <2>. HIDE DEF f
    <2>4. Is(f, Goto(f, "provision"), "provision")
      BY <2>3, Going DEF Phases
    <2>. QED BY <1>g, <2>1, <2>3, <2>4 DEF Same, Phases
  <1>11. StopInstance => /\ ex.pc = "provision" /\ ex'.pc \in {"create-image", "cleanup"}
                         /\ Same(ex, ex')
    BY <1>g DEF StopInstance, At, Raised, Phases
  <1>12. ASSUME CopyImages
         PROVE  /\ ex.pc = "copy-images" /\ ex'.pc = "cleanup" /\ ex'.ok
                /\ ex'.inst = ex.inst /\ ex'.key = ex.key /\ ex'.active = ex.active
                /\ ex'.image = ex.image
    <2>. DEFINE f == Succeeded(ex)
    <2>1. f \in Executor /\ f.ok /\ f.inst = ex.inst /\ f.key = ex.key /\ f.active = ex.active
          /\ f.image = ex.image
      BY <1>0, SucceededFields
    <2>2. ex.pc = "copy-images" /\ ex' = Goto(f, "cleanup")
      BY <1>12 DEF CopyImages, At
    <2>. HIDE DEF f
    <2>3. Is(f, Goto(f, "cleanup"), "cleanup")
      BY <2>1, Going DEF Phases
    <2>. QED BY <2>1, <2>2, <2>3 DEF Same
  <1>13. RaiseError => ex.pc \in InTry /\ ex'.pc = "cleanup" /\ Same(ex, ex')
    BY <1>g DEF RaiseError, Raised, Phases
  <1>. QED BY <1>1, <1>2, <1>3, <1>4, <1>5, <1>6, <1>7, <1>8, <1>9, <1>10, <1>11, <1>12, <1>13

LEMMA CreateEffect ==
    ASSUME TypeInv, CreateImage
    PROVE  /\ ex.pc = "create-image" /\ images \subseteq images'
           /\ ex'.active = ex.active /\ ex'.inst = ex.inst /\ ex'.key = ex.key
           /\ ex'.ok = ex.ok /\ ex'.errs = ex.errs
           /\ \/ ex'.pc = "cleanup" /\ Same(ex, ex')
              \/ /\ ex'.pc = "copy-images" /\ ex'.image = attempts /\ attempts # 0
                 /\ \E i \in images' : i.id = attempts /\ i.run = ex.run
<1>. DEFINE new == [id |-> attempts, run |-> ex.run, content |-> guest[ex.run]]
            f == Imaged(ex, attempts)
<1>0. ex \in Executor /\ attempts \in 0..MaxAttempts /\ attempts # 0 /\ ex.pc = "create-image"
  BY DEF TypeInv, TypeOK, CountTypeOK, Control, CreateImage, At
<1>1. images' \in {images, images \cup {new}}
  BY DEF CreateImage
<1>2. NamedImages(images', ex.run) \subseteq NamedImages(images, ex.run) \cup {attempts}
  BY <1>1 DEF NamedImages
<1>3. \/ ex' = Raised(ex)
      \/ ex' = Goto(f, "copy-images") /\ attempts \in NamedImages(images', ex.run)
  <2>1. CASE images' = images \cup {new} /\ ex' = Goto(f, "copy-images")
    <3>1. new \in images' /\ new.id = attempts /\ new.run = ex.run
      BY <2>1
    <3>. HIDE DEF new
    <3>2. attempts \in NamedImages(images', ex.run)
      BY <3>1 DEF NamedImages
    <3>. QED BY <2>1, <3>2
  <2>2. CASE \E seen \in SUBSET NamedImages(images', ex.run) :
                LET found == NewCandidates(seen, NamedImages(images, ex.run))
                IN ex' = IF Cardinality(found) = 1
                         THEN Goto(Imaged(ex, CHOOSE i \in found : TRUE), "copy-images")
                         ELSE Raised(ex)
    <3>1. PICK seen \in SUBSET NamedImages(images', ex.run) :
                LET found == NewCandidates(seen, NamedImages(images, ex.run))
                IN ex' = IF Cardinality(found) = 1
                         THEN Goto(Imaged(ex, CHOOSE i \in found : TRUE), "copy-images")
                         ELSE Raised(ex)
      BY <2>2
    <3>. DEFINE found == NewCandidates(seen, NamedImages(images, ex.run))
    <3>2. CASE Cardinality(found) = 1
      <4>1. found # {}
        BY <3>2, FS_EmptySet
      <4>2. (CHOOSE i \in found : TRUE) \in found
        BY <4>1
      <4>3. found \subseteq {attempts} /\ found \subseteq NamedImages(images', ex.run)
        BY <1>2 DEF NewCandidates
      <4>. QED BY <3>1, <3>2, <4>2, <4>3
    <3>. QED BY <3>1, <3>2
  <2>. QED BY <2>1, <2>2 DEF CreateImage
<1>4. /\ f \in Executor /\ f.image = attempts /\ f.active = ex.active /\ f.inst = ex.inst
      /\ f.key = ex.key /\ f.ok = ex.ok /\ f.errs = ex.errs
  BY <1>0, ImagedFields
<1>. HIDE DEF f
<1>5. Goto(f, "copy-images").pc = "copy-images" /\ Same(f, Goto(f, "copy-images"))
  BY <1>4, Going DEF Phases
<1>6. Raised(ex).pc = "cleanup" /\ Same(ex, Raised(ex))
  BY <1>0, Going DEF Raised, Phases
<1>7. attempts \in NamedImages(images', ex.run) => \E i \in images' : i.id = attempts /\ i.run = ex.run
  BY DEF NamedImages
<1>. QED BY <1>0, <1>1, <1>3, <1>4, <1>5, <1>6, <1>7 DEF Same

LEMMA LeaveEffect ==
    ASSUME TypeInv
    PROVE  /\ Cleanup =>
                /\ ex.pc = "cleanup" /\ Same(ex, ex')
                /\ ex'.pc = IF Retained(ex) THEN "finish"
                            ELSE IF ex.inst THEN "terminate" ELSE "teardown"
           /\ Terminate =>
                /\ ex.pc = "terminate" /\ ex'.pc = "teardown" /\ ex'.active = ex.active
                /\ ex'.inst = ex.inst /\ ex'.key = ex.key /\ ex'.ok = ex.ok /\ ex'.image = ex.image
                /\ "instance" \in ex'.errs \/ inst'[ex.run] = "gone"
           /\ Teardown =>
                /\ ex.pc = "teardown" /\ ex'.pc = "finish" /\ ex'.active = ex.active
                /\ ex'.inst = ex.inst /\ ex'.key = ex.key /\ ex'.ok = ex.ok /\ ex'.image = ex.image
                /\ ex.errs \subseteq ex'.errs
                /\ ex.key => "keypair" \in ex'.errs \/ key'[ex.run] = "deleted"
           /\ SignalRaised => ex.pc \in InTry /\ ex'.pc = "cleanup" /\ Same(ex, ex')
           /\ SignalSwallowed => /\ ex.pc \in Swallowing /\ ex'.pc = ex.pc /\ Same(ex, ex')
                                 /\ ex'.completed = ex.completed
<1>0. /\ ex \in Executor /\ CloudTypeOK /\ (ex.pc # "idle" => ex.run \in Runs)
  BY DEF TypeInv, TypeOK, Control
<1>1. Cleanup => /\ ex.pc = "cleanup" /\ Same(ex, ex')
                 /\ ex'.pc = IF Retained(ex) THEN "finish"
                             ELSE IF ex.inst THEN "terminate" ELSE "teardown"
  BY <1>0, Going DEF Cleanup, At, Phases
<1>2. ASSUME Terminate
      PROVE  /\ ex.pc = "terminate" /\ ex'.pc = "teardown" /\ ex'.active = ex.active
             /\ ex'.inst = ex.inst /\ ex'.key = ex.key /\ ex'.ok = ex.ok /\ ex'.image = ex.image
             /\ "instance" \in ex'.errs \/ inst'[ex.run] = "gone"
  <2>. DEFINE f == Failed(ex, "instance")
  <2>1. PICK ok \in BOOLEAN : /\ Terminated(ex.run, ok)
                              /\ ex' = Goto(IF ok THEN ex ELSE f, "teardown")
    BY <1>2 DEF Terminate
  <2>2. ex.pc = "terminate" /\ ex.run \in Runs
    BY <1>0, <1>2 DEF Terminate, At
  <2>3. /\ f \in Executor /\ "instance" \in f.errs /\ f.active = ex.active /\ f.inst = ex.inst
        /\ f.key = ex.key /\ f.ok = ex.ok /\ f.image = ex.image
    BY <1>0, FailedFields DEF Resource
  <2>. HIDE DEF f
  <2>4. Goto(f, "teardown").pc = "teardown" /\ Same(f, Goto(f, "teardown"))
    BY <2>3, Going DEF Phases
  <2>5. Goto(ex, "teardown").pc = "teardown" /\ Same(ex, Goto(ex, "teardown"))
    BY <1>0, Going DEF Phases
  <2>6. ok => inst'[ex.run] = "gone"
    BY <1>0, <2>1, <2>2 DEF Terminated, CloudTypeOK
  <2>. QED BY <2>1, <2>2, <2>3, <2>4, <2>5, <2>6 DEF Same
<1>3. ASSUME Teardown
      PROVE  /\ ex.pc = "teardown" /\ ex'.pc = "finish" /\ ex'.active = ex.active
             /\ ex'.inst = ex.inst /\ ex'.key = ex.key /\ ex'.ok = ex.ok /\ ex'.image = ex.image
             /\ ex.errs \subseteq ex'.errs
             /\ ex.key => "keypair" \in ex'.errs \/ key'[ex.run] = "deleted"
  <2>. DEFINE f == Failed(ex, "keypair")
  <2>2. ex.pc = "teardown" /\ ex.run \in Runs
    BY <1>0, <1>3 DEF Teardown, At
  <2>3. /\ f \in Executor /\ "keypair" \in f.errs /\ f.active = ex.active /\ f.inst = ex.inst
        /\ f.key = ex.key /\ f.ok = ex.ok /\ f.image = ex.image /\ ex.errs \subseteq f.errs
    BY <1>0, FailedFields DEF Resource
  <2>1. \/ /\ ex.key
           /\ \E ok \in BOOLEAN : KeyTornDown(ex.run, ok) /\ ex' = Goto(IF ok THEN ex ELSE f, "finish")
        \/ ~ex.key /\ ex' = Goto(ex, "finish")
    BY <1>3 DEF Teardown
  <2>. HIDE DEF f
  <2>4. Goto(f, "finish").pc = "finish" /\ Same(f, Goto(f, "finish"))
    BY <2>3, Going DEF Phases
  <2>5. Goto(ex, "finish").pc = "finish" /\ Same(ex, Goto(ex, "finish"))
    BY <1>0, Going DEF Phases
  <2>6. KeyTornDown(ex.run, TRUE) => key'[ex.run] = "deleted"
    BY <1>0, <2>2 DEF KeyTornDown, CloudTypeOK
  <2>. QED BY <2>1, <2>2, <2>3, <2>4, <2>5, <2>6 DEF Same
<1>4. ASSUME SignalRaised
      PROVE  ex.pc \in InTry /\ ex'.pc = "cleanup" /\ Same(ex, ex')
  <2>. DEFINE f == Signalled(ex)
  <2>1. f \in Executor /\ Same(ex, f)
    BY <1>0, SignalledFields DEF Same
  <2>2. ex.pc \in InTry /\ ex' = Goto(f, "cleanup")
    BY <1>4 DEF SignalRaised, Raised
  <2>. HIDE DEF f
  <2>3. Goto(f, "cleanup").pc = "cleanup" /\ Same(f, Goto(f, "cleanup"))
    BY <2>1, Going DEF Phases
  <2>. QED BY <2>1, <2>2, <2>3 DEF Same
<1>5. SignalSwallowed => /\ ex.pc \in Swallowing /\ ex'.pc = ex.pc /\ Same(ex, ex')
                         /\ ex'.completed = ex.completed
  BY <1>0, SignalledFields DEF SignalSwallowed, Same
<1>. QED BY <1>1, <1>2, <1>3, <1>4, <1>5

-----------------------------------------------------------------------------
(* What a step may do to the resources of the cloud: an instance that is   *)
(* gone and a key pair that is deleted stay so, but for a fresh run's key. *)
LEMMA Resources ==
    ASSUME TypeInv, NamedInv, [Next]_vars, NEW r \in Runs,
           ex.pc = "terminate" => ex.inst
    PROVE  /\ Launched(r) => inst'[r] # "none"
           /\ inst'[r] # "none" => Launched(r) \/ (Launch /\ r = ex.run)
           /\ inst[r] = "gone" => inst'[r] = "gone"
           /\ key[r] = "deleted" => key'[r] = "deleted" \/ (ex.pc = "keypair" /\ r = ex.run)
<1>0. CloudTypeOK /\ Control /\ (ex.pc # "idle" => ex.run \in Runs)
  BY DEF TypeInv, TypeOK, Control
<1>1. \/ inst' = inst
      \/ \E q \in Runs : /\ Launched(q) \/ (Launch /\ q = ex.run)
                         /\ \E v \in {"running", "stopped", "gone"} :
                               /\ inst' = [inst EXCEPT ![q] = v]
                               /\ inst[q] = "gone" => v = "gone"
  <2>1. CASE Step
    <3>1. CASE Launch
      BY <1>0, <3>1 DEF Launch, At
    <3>2. CASE StopInstance
      BY <1>0, <3>2 DEF StopInstance, At, Launched
    <3>3. CASE Terminate
      <4>1. Launched(ex.run) /\ ex.run \in Runs
        BY <1>0, <3>3 DEF Terminate, At, NamedInv
      <4>. QED BY <3>3, <4>1 DEF Terminate, Terminated
    <3>4. CASE \/ SetupKeypair \/ JournalKeypair \/ JournalLaunch \/ Connect \/ ReadMarker
               \/ SkipProvisioner \/ RunProvisioner \/ JournalProvisioner \/ WriteMarker
               \/ CreateImage \/ CopyImages \/ RaiseError \/ Cleanup \/ Teardown
               \/ SignalRaised \/ SignalSwallowed
      BY <3>4 DEF SetupKeypair, JournalKeypair, JournalLaunch, Connect, ReadMarker,
         SkipProvisioner, RunProvisioner, JournalProvisioner, WriteMarker, CreateImage, CopyImages,
         RaiseError, Cleanup, Teardown, SignalRaised, SignalSwallowed, cloudVars
    <3>. QED BY <2>1, <3>1, <3>2, <3>3, <3>4 DEF Step, Body
  <2>2. CASE \E q \in Runs : JanTerminate(q) \/ Reclaimed(q) \/ Restarted(q)
    <3>1. PICK q \in Runs : JanTerminate(q) \/ Reclaimed(q) \/ Restarted(q)
      BY <2>2
    <3>2. Launched(q)
      BY <3>1 DEF JanTerminate, Reclaimed, Restarted, Live, Launched, NamedInv
    <3>. QED BY <3>1, <3>2 DEF JanTerminate, Terminated, Reclaimed, Restarted
  <2>3. CASE \/ HeartbeatRead \/ HeartbeatWrite \/ Finish \/ Crash \/ Sweep \/ JanFinish
             \/ (\E q \in Runs : Reconcile(q) \/ LeaseExpires(q) \/ Reinstalled(q))
             \/ UNCHANGED vars
    BY <2>3 DEF HeartbeatRead, HeartbeatWrite, Finish, Crash, Sweep, JanFinish, Reconcile,
       LeaseExpires, Reinstalled, vars, cloudVars
  <2>4. CASE \E q \in Runs, p \in Plans, keep \in BOOLEAN :
                StartFresh(q, p, keep) \/ StartResume(q, p, keep)
    BY <2>4 DEF StartFresh, StartResume, cloudVars
  <2>. QED BY NextCases, <2>1, <2>2, <2>3, <2>4 DEF Other
<1>2. \/ key' = key
      \/ \E q \in AnyRun : key' = [key EXCEPT ![q] = "deleted"]
      \/ ex.pc = "keypair" /\ key' = [key EXCEPT ![ex.run] = "present"]
  <2>1. CASE Step
    <3>1. CASE SetupKeypair
      BY <3>1 DEF SetupKeypair, At
    <3>2. CASE Teardown
      BY <1>0, <3>2, Ids_ DEF Teardown, KeyTornDown, At
    <3>3. CASE \/ JournalKeypair \/ Launch \/ JournalLaunch \/ Connect \/ ReadMarker
               \/ SkipProvisioner \/ RunProvisioner \/ JournalProvisioner \/ WriteMarker
               \/ StopInstance \/ CreateImage \/ CopyImages \/ RaiseError \/ Cleanup \/ Terminate
               \/ SignalRaised \/ SignalSwallowed
      BY <3>3 DEF JournalKeypair, Launch, JournalLaunch, Connect, ReadMarker,
         SkipProvisioner, RunProvisioner, JournalProvisioner, WriteMarker, StopInstance,
         CreateImage, CopyImages, RaiseError, Cleanup, Terminate, SignalRaised, SignalSwallowed,
         cloudVars
    <3>. QED BY <2>1, <3>1, <3>2, <3>3 DEF Step, Body
  <2>2. CASE JanFinish
    <3>1. jan.run \in AnyRun
      BY DEF TypeInv, TypeOK, Janitor
    <3>. QED BY <2>2, <3>1 DEF JanFinish, KeyTornDown
  <2>3. CASE \/ HeartbeatRead \/ HeartbeatWrite \/ Finish \/ Crash \/ Sweep
             \/ (\E q \in Runs : \/ Reconcile(q) \/ JanTerminate(q) \/ LeaseExpires(q)
                                 \/ Reclaimed(q) \/ Restarted(q) \/ Reinstalled(q))
             \/ UNCHANGED vars
    BY <2>3 DEF HeartbeatRead, HeartbeatWrite, Finish, Crash, Sweep, Reconcile, JanTerminate,
       LeaseExpires, Reclaimed, Restarted, Reinstalled, vars, cloudVars
  <2>4. CASE \E q \in Runs, p \in Plans, keep \in BOOLEAN :
                StartFresh(q, p, keep) \/ StartResume(q, p, keep)
    BY <2>4 DEF StartFresh, StartResume, cloudVars
  <2>. QED BY NextCases, <2>1, <2>2, <2>3, <2>4 DEF Other
<1>. QED BY <1>0, <1>1, <1>2 DEF CloudTypeOK, Launched

(* The journal after a step of the executor. *)
LEMMA JournalEffect ==
    ASSUME TypeInv, Step
    PROVE  /\ UNCHANGED <<hb, record>>
           /\ \/ journal' = journal
              \/ /\ hb = NoJournal
                 /\ \/ JournalKeypair /\ journal' = JournalOf(ex, FALSE)
                    \/ JournalLaunch /\ journal' = JournalOf(ex, TRUE)
                    \/ JournalProvisioner /\ journal' = WithCompleted(journal, ex.cur)
                    \/ /\ Cleanup /\ (ex.active \/ ex.inst)
                       /\ journal' = WithInstance(journal, ex.inst)
           /\ JournalKeypair => journal' = JournalOf(ex, FALSE)
           /\ JournalLaunch => journal' = JournalOf(ex, TRUE)
           /\ JournalProvisioner => journal' = WithCompleted(journal, ex.cur)
<1>0. ex \in Executor
  BY DEF TypeInv, TypeOK
<1>1. CASE JournalKeypair
  BY <1>1 DEF JournalKeypair, JournalLaunch, JournalProvisioner, At, WriteJournal, JournalFree
<1>2. CASE JournalLaunch
  BY <1>2 DEF JournalKeypair, JournalLaunch, JournalProvisioner, At, WriteJournal, JournalFree
<1>3. CASE JournalProvisioner
  BY <1>3 DEF JournalKeypair, JournalLaunch, JournalProvisioner, At, WriteJournal, JournalFree
<1>4. CASE Cleanup
  BY <1>4 DEF JournalKeypair, JournalLaunch, JournalProvisioner, Cleanup, At, WriteJournal,
     JournalFree
<1>5. CASE ~(JournalKeypair \/ JournalLaunch \/ JournalProvisioner \/ Cleanup)
  <2>1. UNCHANGED <<hb, record, journal>>
    BY <1>5 DEF Step, Body, SetupKeypair, Launch, Connect, ReadMarker, SkipProvisioner,
       RunProvisioner, WriteMarker, StopInstance, CreateImage, CopyImages, RaiseError,
       Terminate, Teardown, SignalRaised, SignalSwallowed, workdirVars
  <2>. QED BY <1>5, <2>1
<1>. QED BY <1>1, <1>2, <1>3, <1>4, <1>5

(* What a resume is given. *)
LEMMA ResumeEffect ==
    ASSUME TypeInv, NEW r \in Runs, NEW p \in Plans, NEW keep \in BOOLEAN,
           StartResume(r, p, keep)
    PROVE  /\ ex'.run = r /\ ex'.plan = p /\ ex'.resume /\ ~ex'.ok /\ ex'.errs = {}
           /\ ex'.image = 0 /\ ex.pc = "idle" /\ started[r] # 0
           /\ \/ ex'.pc = "cleanup" /\ ~ex'.active /\ ~ex'.inst
              \/ /\ ex'.pc = "cleanup" /\ ~ex'.active /\ journal.run = r
                 /\ ex'.inst = journal.inst
              \/ /\ ex'.pc = "connect" /\ journal.run = r /\ ex'.inst /\ ex'.key
                 /\ journal.inst /\ ex'.completed = journal.completed
<1>. DEFINE e == Attempt("cleanup", r, p, TRUE, keep)
            held == Holding(e, journal.inst, journal.key)
            own == Journaling(held)
            done == Completed(own, journal.completed)
            IsOf(f) == /\ f \in Executor /\ f.run = r /\ f.plan = p /\ f.resume
                       /\ ~f.ok /\ f.errs = {} /\ f.image = 0
<1>0. journal.inst \in BOOLEAN /\ journal.key \in BOOLEAN /\ journal.completed \in SUBSET Provs
  BY DocFields DEF TypeInv, TypeOK, WorkdirTypeOK
<1>1. IsOf(e) /\ e.pc = "cleanup" /\ ~e.active /\ ~e.inst
  <2>1. e \in Executor
    BY NativeAssumption DEF Attempt, Executor, Phases, Resource, Provs, AnyRun, AnyPlan
  <2>2. /\ e.run = r /\ e.plan = p /\ e.resume /\ ~e.ok /\ e.errs = {} /\ e.image = 0
        /\ e.pc = "cleanup" /\ ~e.active /\ ~e.inst
    BY DEF Attempt
  <2>. QED BY <2>1, <2>2
<1>2. /\ ex.pc = "idle" /\ started[r] # 0
      /\ \/ ex' = e
         \/ ex' = held /\ journal.run = r
         \/ ex' = Goto(done, "connect") /\ journal.run = r /\ journal.inst /\ journal.key
  BY DEF StartResume, SameIdentity
<1>. HIDE DEF e
<1>3. IsOf(held) /\ held.pc = "cleanup" /\ ~held.active /\ held.inst = journal.inst /\ held.key = journal.key
  <2>0. e \in Executor
    BY <1>1
  <2>1. \A i, k \in BOOLEAN :
          /\ Holding(e, i, k) \in Executor /\ Kept(e, Holding(e, i, k))
          /\ Holding(e, i, k).inst = i /\ Holding(e, i, k).key = k
          /\ Holding(e, i, k).pc = e.pc /\ Holding(e, i, k).active = e.active
          /\ Holding(e, i, k).ok = e.ok /\ Holding(e, i, k).errs = e.errs
          /\ Holding(e, i, k).image = e.image
    BY <2>0, HoldingFields
  <2>. QED BY <1>0, <1>1, <2>1 DEF Kept
<1>. HIDE DEF held
<1>4. IsOf(own) /\ own.inst = journal.inst /\ own.key = journal.key
  BY <1>3, JournalingFields DEF Kept
<1>. HIDE DEF own
<1>5. IsOf(done) /\ done.inst = journal.inst /\ done.key = journal.key /\ done.completed = journal.completed
  BY <1>0, <1>4, CompletedFields DEF Kept
<1>. HIDE DEF done
<1>6. /\ IsOf(Goto(done, "connect")) /\ Goto(done, "connect").pc = "connect"
      /\ Goto(done, "connect").inst = journal.inst /\ Goto(done, "connect").key = journal.key
      /\ Goto(done, "connect").completed = journal.completed
  BY <1>5, GotoFields DEF Kept, Phases
<1>. QED BY <1>1, <1>2, <1>3, <1>6

LEMMA DocInst ==
    /\ \A e \in Executor, i \in BOOLEAN : JournalOf(e, i).inst = i
    /\ \A doc \in JournalDoc, i \in BOOLEAN : WithInstance(doc, i).inst = i
    /\ \A doc \in JournalDoc, k \in Provs : WithCompleted(doc, k).inst = doc.inst
  BY DEF JournalOf, WithInstance, WithCompleted, JournalDoc

LEMMA FreshEffect ==
    ASSUME NEW r \in Runs, NEW p \in Plans, NEW keep \in BOOLEAN, StartFresh(r, p, keep)
    PROVE  /\ ex'.pc = "keypair" /\ ex'.run = r /\ ex'.plan = p /\ ~ex'.resume /\ ~ex'.active
           /\ ~ex'.inst /\ ~ex'.ok /\ ex'.errs = {} /\ ex'.image = 0
           /\ ex.pc = "idle" /\ started[r] = 0 /\ attempts' = attempts + 1
           /\ started' = [started EXCEPT ![r] = attempts + 1]
<1>. DEFINE e == Attempt("keypair", r, p, FALSE, keep)
<1>1. /\ e.pc = "keypair" /\ e.run = r /\ e.plan = p /\ ~e.resume /\ ~e.active
      /\ ~e.inst /\ ~e.ok /\ e.errs = {} /\ e.image = 0
  BY DEF Attempt
<1>. HIDE DEF e
<1>2. /\ ex' = e /\ ex.pc = "idle" /\ started[r] = 0 /\ attempts' = attempts + 1
      /\ started' = [started EXCEPT ![r] = attempts + 1]
  BY DEF StartFresh, e
<1>. QED BY <1>1, <1>2

(* The start of an attempt touches neither the workdir nor the cloud. *)
LEMMA StartFrame ==
    ASSUME NEW r \in Runs, NEW p \in Plans, NEW keep \in BOOLEAN,
           StartFresh(r, p, keep) \/ StartResume(r, p, keep)
    PROVE  UNCHANGED <<hb, journal, record, inst, key, images, guest, marker, jan>>
  BY DEF StartFresh, StartResume, workdirVars, cloudVars, guestVars

LEMMA OtherEffect ==
    ASSUME TypeInv, JournalInv, Other
    PROVE  /\ ex' = ex \/ (ex' = NoExec /\ hb' = NoJournal)
           /\ UNCHANGED <<journal, started, attempts, images>>
           /\ hb' # NoJournal => hb' = journal
           /\ \/ record' = record
              \/ Finish /\ ex.pc = "finish" /\ record' = BuildRecord(ex)
           /\ \A r \in jan'.todo : r \in jan.todo \/ (r \in Runs /\ Launched(r))
           /\ ex.pc # "idle" => marker'[ex.run] = marker[ex.run]
<1>0. /\ GuestTypeOK /\ CloudTypeOK /\ jan \in Janitor /\ (ex.pc # "idle" => ex.run \in Runs)
  BY DEF TypeInv, TypeOK, Control
<1>1. UNCHANGED <<started, attempts, images>>
  BY OtherFrame
<1>2. journal' = journal /\ (hb' # NoJournal => hb' = journal)
      /\ (ex' = ex \/ (ex' = NoExec /\ hb' = NoJournal))
  BY DEF Other, HeartbeatRead, HeartbeatWrite, Finish, Crash, Sweep, JanFinish, Reconcile,
     JanTerminate, LeaseExpires, Reclaimed, Restarted, Reinstalled, vars, workdirVars, JournalInv,
     JournalFree
<1>3. record' = record \/ (Finish /\ ex.pc = "finish" /\ record' = BuildRecord(ex))
  BY DEF Other, HeartbeatRead, HeartbeatWrite, Finish, Crash, Sweep, JanFinish, Reconcile,
     JanTerminate, LeaseExpires, Reclaimed, Restarted, Reinstalled, vars, workdirVars, At
<1>4. \A r \in jan'.todo : r \in jan.todo \/ (r \in Runs /\ Launched(r))
  <2>1. CASE \E q \in Runs : Reconcile(q)
    <3>1. PICK q \in Runs : jan'.todo = {r \in {q} : Live(r)}
      BY <2>1 DEF Reconcile, Job
    <3>. QED BY <3>1 DEF Live, Launched
  <2>2. CASE Sweep
    <3>1. jan'.todo = {r \in lease : Live(r)}
      BY <2>2 DEF Sweep, Job
    <3>. QED BY <1>0, <3>1 DEF Live, Launched, CloudTypeOK
  <2>3. CASE \E q \in Runs : JanTerminate(q)
    <3>1. PICK q \in Runs, ok \in BOOLEAN : jan' = Answered(jan, q, ok)
      BY <2>3 DEF JanTerminate
    <3>2. jan'.todo = jan.todo \ {q}
      BY <1>0, <3>1 DEF Answered, Janitor
    <3>. QED BY <3>2
  <2>4. CASE JanFinish
    BY <2>4 DEF JanFinish, NoJan, Job
  <2>5. CASE \/ HeartbeatRead \/ HeartbeatWrite \/ Finish \/ Crash \/ UNCHANGED vars
             \/ \E r \in Runs : \/ LeaseExpires(r) \/ Reclaimed(r) \/ Restarted(r)
                                \/ Reinstalled(r)
    BY <2>5 DEF HeartbeatRead, HeartbeatWrite, Finish, Crash, LeaseExpires, Reclaimed,
       Restarted, Reinstalled, vars
  <2>. QED BY <2>1, <2>2, <2>3, <2>4, <2>5 DEF Other
<1>5. ex.pc # "idle" => marker'[ex.run] = marker[ex.run]
  <2>1. CASE UNCHANGED <<guest, marker>>
    BY <2>1
  <2>2. ASSUME NEW r \in Runs, ex.run # r, NEW m, marker' = [marker EXCEPT ![r] = m]
        PROVE  ex.pc # "idle" => marker'[ex.run] = marker[ex.run]
    BY <1>0, <2>2 DEF GuestTypeOK
  <2>. QED BY OtherFrame, <2>1, <2>2
<1>. QED BY <1>1, <1>2, <1>3, <1>4, <1>5

LEMMA RecoveryInit == Init => RecoveryInv
<1>. SUFFICES ASSUME Init PROVE RecoveryInv
  OBVIOUS
<1>1. /\ ex.pc = "idle" /\ ~ex.ok /\ ex.image = 0 /\ journal.run = NoRun
      /\ hb = NoJournal /\ \A r \in Runs : started[r] = 0 /\ ~Launched(r)
      /\ attempts = 0
  BY Initials DEF Init, Launched
<1>2. record.run = NoRun /\ record.attempt = 0 /\ ~record.ok /\ jan.todo = {}
  BY DEF Init, NoRecord, NoJan, Job
<1>. QED BY <1>1, <1>2, NativeAssumption
         DEF RecoveryInv, StartInv, JournalInv, AgreeInv, NamedInv, HoldInv, RecordInv,
             ReportsOwnImage, KeyJournaledBeforeLaunch, Fresh, Launching, Looping, Equipped,
             Launched

-----------------------------------------------------------------------------
(* The invariant, for the steps of the executor. *)

LEMMA StepRun ==
    ASSUME TypeInv, Step
    PROVE  /\ ex'.run = ex.run /\ ex'.plan = ex.plan /\ ex'.resume = ex.resume
           /\ ex'.retain = ex.retain /\ ex.run \in Runs /\ ex.pc # "idle" /\ ex'.pc # "idle"
           /\ ex \in Executor /\ UNCHANGED <<started, attempts, jan, hb, record>>
           /\ journal \in JournalDoc
  BY StepKeeps, StepFrame, JournalEffect DEF Step, Kept, TypeInv, TypeOK, Control, WorkdirTypeOK

(* Where a step of the executor goes. *)
LEMMA StepTo ==
    ASSUME TypeInv, Step
    PROVE  /\ ex'.pc \in Fresh => /\ ex.pc \in Fresh /\ journal' = journal
                                  /\ (ex'.pc = "keypair" => ex.pc = "keypair")
           /\ ex'.pc = "launch" => JournalKeypair \/ (ex.pc = "launch" /\ Same(ex, ex') /\ journal' = journal
                                                      /\ ex'.completed = ex.completed)
           /\ ex'.pc = "journal-launch" => Launch \/ (ex.pc = "journal-launch" /\ Same(ex, ex') /\ journal' = journal
                                                      /\ ex'.completed = ex.completed)
           /\ ex'.pc = "connect" => JournalLaunch \/ (ex.pc = "connect" /\ Same(ex, ex') /\ journal' = journal
                                                      /\ ex'.completed = ex.completed)
           /\ ex'.pc = "marker" => /\ Same(ex, ex') /\ journal' = journal /\ ex'.completed = ex.completed
                                   /\ ex.pc = "marker" \/ (ex.pc = "connect" /\ ex.resume)
<1>0. ex \in Executor /\ ex.pc \in Phases
  BY StepRun, ExecutorTypes
<1>1. CASE SetupKeypair \/ JournalKeypair \/ Launch \/ JournalLaunch
  BY <1>1, StepRun, BodyEffect, JournalEffect DEF Fresh, JournalLaunch, JournalProvisioner, JournalKeypair, Cleanup, At
<1>2. CASE Connect \/ ReadMarker \/ SkipProvisioner \/ RunProvisioner
  BY <1>2, StepRun, BodyEffect, JournalEffect DEF Fresh, JournalLaunch, JournalProvisioner, JournalKeypair, Cleanup, At
<1>3. CASE JournalProvisioner \/ WriteMarker \/ StopInstance \/ CopyImages \/ RaiseError
  BY <1>3, BodyEffect DEF Fresh
<1>4. CASE CreateImage
  BY <1>4, CreateEffect DEF Fresh
<1>5. CASE Cleanup \/ Terminate \/ Teardown \/ SignalRaised
  BY <1>5, LeaveEffect DEF Fresh
<1>6. CASE SignalSwallowed
  <2>1. journal' = journal /\ ex'.pc = ex.pc /\ Same(ex, ex') /\ ex'.completed = ex.completed
    BY <1>6, LeaveEffect DEF SignalSwallowed, workdirVars
  <2>. QED BY <2>1 DEF Fresh
<1>. QED BY <1>1, <1>2, <1>3, <1>4, <1>5, <1>6 DEF Step, Body

LEMMA StepStart ==
    ASSUME TypeInv, RecoveryInv, Step, NamedInv, HoldInv
    PROVE  StartInv'
<1>0. Step => Next
  BY DEF Step, Next, ExecStep
<1>1. \A r \in Runs : Launched(r)' => Launched(r) \/ r = ex.run
  <2>1. ex.pc = "terminate" => ex.inst
    BY DEF HoldInv
  <2>. QED BY <1>0, <2>1, Resources DEF Launched
<1>2. journal'.run \in Runs => started[journal'.run] # 0
  <2>1. \A i \in BOOLEAN : JournalOf(ex, i).run = ex.run
    BY StepRun, JournalOfFields
  <2>2. /\ \A i \in BOOLEAN : WithInstance(journal, i).run = journal.run
        /\ \A k \in Provs : WithCompleted(journal, k).run = journal.run
    BY StepRun, DocFields
  <2>3. JournalProvisioner => ex.cur \in Provs
    BY BodyEffect DEF TypeInv, Control
  <2>4. journal'.run \in {journal.run, ex.run}
    BY <2>1, <2>2, <2>3, StepRun, JournalEffect, ExecutorTypes
  <2>. QED BY <2>4, StepRun DEF RecoveryInv, StartInv
<1>3. ex'.pc \in Fresh => ex.pc \in Fresh /\ journal' = journal
  BY StepTo
<1>. QED BY <1>1, <1>2, <1>3, StepRun DEF RecoveryInv, StartInv

(* The actions that do not write the journal leave it alone. *)
LEMMA JournalKept ==
    ASSUME TypeInv, Step
    PROVE  /\ Launch \/ Connect \/ ReadMarker \/ SkipProvisioner \/ RunProvisioner \/ WriteMarker
                => journal' = journal
           /\ journal'.run \in {journal.run, ex.run}
           /\ \/ /\ journal'.key = journal.key /\ journal'.run = journal.run
                 /\ journal.completed \subseteq journal'.completed
              \/ /\ JournalKeypair \/ JournalLaunch
                 /\ journal'.key /\ journal'.run = ex.run /\ journal'.completed = {}
<1>1. \A i \in BOOLEAN : /\ JournalOf(ex, i).run = ex.run /\ JournalOf(ex, i).key
                         /\ JournalOf(ex, i).completed = {}
  BY StepRun, JournalOfFields
<1>2. /\ \A i \in BOOLEAN : /\ WithInstance(journal, i).run = journal.run
                            /\ WithInstance(journal, i).key = journal.key
                            /\ WithInstance(journal, i).completed = journal.completed
      /\ \A k \in Provs : /\ WithCompleted(journal, k).run = journal.run
                          /\ WithCompleted(journal, k).key = journal.key
                          /\ WithCompleted(journal, k).completed = journal.completed \cup {k}
  BY StepRun, DocFields
<1>3. JournalProvisioner => ex.cur \in Provs
  BY BodyEffect DEF TypeInv, Control
<1>4. ex.inst \in BOOLEAN
  BY StepRun, ExecutorTypes
<1>5. ASSUME Launch \/ Connect \/ ReadMarker \/ SkipProvisioner \/ RunProvisioner \/ WriteMarker
      PROVE  journal' = journal
  BY <1>5, BodyEffect, JournalEffect DEF Cleanup, At
<1>. QED BY <1>1, <1>2, <1>3, <1>4, <1>5, JournalEffect

LEMMA StepJournal ==
    ASSUME TypeInv, HardenInv, JournalInv, Step
    PROVE  JournalInv'
<1>1. hb' # NoJournal => hb' = journal'
  BY JournalEffect DEF JournalInv
<1>2. ex'.active \/ ex'.inst => journal'.run = ex'.run
  <2>1. CASE JournalKeypair \/ JournalLaunch
    BY <2>1, StepRun, JournalOfFields, JournalEffect
  <2>2. CASE Launch
    BY <2>2, BodyEffect, JournalKept, StepRun DEF JournalInv, Launching
  <2>3. ex'.active \/ ex'.inst => ex.active \/ ex.inst \/ JournalKeypair \/ Launch
    <3>1. CASE SetupKeypair \/ JournalKeypair \/ Launch \/ JournalLaunch \/ Connect \/ ReadMarker
      BY <3>1, BodyEffect DEF Same
    <3>2. CASE SkipProvisioner \/ RunProvisioner \/ JournalProvisioner \/ WriteMarker
      BY <3>2, BodyEffect DEF Same
    <3>3. CASE StopInstance \/ CopyImages \/ RaiseError
      BY <3>3, BodyEffect DEF Same
    <3>4. CASE CreateImage
      BY <3>4, CreateEffect DEF Same
    <3>5. CASE Cleanup \/ Terminate \/ Teardown \/ SignalRaised \/ SignalSwallowed
      BY <3>5, LeaveEffect DEF Same
    <3>. QED BY <3>1, <3>2, <3>3, <3>4, <3>5 DEF Step, Body
  <2>. QED BY <2>1, <2>2, <2>3, StepRun, JournalKept DEF JournalInv
<1>3. ex'.pc \in Launching => /\ journal'.run = ex'.run /\ journal'.key
                              /\ journal'.completed = {} \/ ex'.resume
  <2>1. CASE ex'.pc = "launch"
    BY <2>1, StepTo, StepRun, JournalOfFields, JournalEffect DEF JournalInv, Launching
  <2>2. CASE ex'.pc = "journal-launch"
    BY <2>2, StepTo, StepRun, JournalKept, BodyEffect DEF JournalInv, Launching
  <2>. QED BY <2>1, <2>2 DEF Launching
<1>4. ex'.pc = "connect" => IF ex'.resume THEN ex'.completed = journal'.completed
                                          ELSE journal'.completed = {}
  <2>1. CASE JournalLaunch
    <3>1. ~ex.resume
      BY <2>1, BodyEffect DEF HardenInv, ProgressTrue, Early
    <3>. QED BY <2>1, <3>1, StepRun, JournalOfFields, JournalEffect
  <2>2. CASE ~JournalLaunch
    BY <2>2, StepTo, StepRun DEF JournalInv, Launching
  <2>. QED BY <2>1, <2>2
<1>5. ex'.pc = "marker" => ex'.resume /\ ex'.completed = journal'.completed
  BY StepTo, StepRun DEF JournalInv
<1>. QED BY <1>1, <1>2, <1>3, <1>4, <1>5 DEF JournalInv, Launching

LEMMA StepAgree ==
    ASSUME TypeInv, JournalInv, AgreeInv, Step
    PROVE  AgreeInv'
<1>. SUFFICES ASSUME ex'.pc \in Looping, SameIdentity(marker'[ex.run], ex.run, ex.plan)
              PROVE  journal'.completed \cap marker'[ex.run].completed \subseteq ex'.completed
  BY StepRun DEF AgreeInv
<1>0. ex.run \in Runs /\ ex.run # NoRun /\ NoMarker.run = NoRun
  BY StepRun, NativeAssumption, Initials
<1>1. \/ marker'[ex.run] = marker[ex.run]
      \/ ex.pc = "write-marker" /\ marker'[ex.run].completed = ex.completed
  BY <1>0, StepGuests DEF SameIdentity
<1>2. CASE Connect
  BY <1>2, BodyEffect, JournalKept DEF JournalInv, Launching, Looping
<1>3. CASE ReadMarker
  <2>1. marker'[ex.run] = marker[ex.run] /\ journal'.completed = ex.completed
    BY <1>1, <1>3, BodyEffect, JournalKept DEF JournalInv
  <2>2. marker[ex.run] # NoMarker
    BY <1>0, <2>1 DEF SameIdentity
  <2>3. ex'.completed = ex.completed \cap marker[ex.run].completed
    BY <1>3, <2>2, BodyEffect DEF Looping
  <2>. QED BY <2>1, <2>3
<1>4. CASE SkipProvisioner \/ RunProvisioner \/ WriteMarker
  <2>1. ex.pc \in Looping /\ journal' = journal /\ ex'.completed = ex.completed
    BY <1>4, BodyEffect, JournalKept DEF Looping
  <2>. QED BY <1>1, <2>1 DEF AgreeInv
<1>5. CASE JournalProvisioner
  <2>1. /\ ex.pc = "journal-provisioner" /\ journal' = WithCompleted(journal, ex.cur)
        /\ ex'.completed = ex.completed \cup {ex.cur} /\ ex.cur \in Provs
    BY <1>5, BodyEffect, JournalEffect DEF TypeInv, Control
  <2>2. journal'.completed = journal.completed \cup {ex.cur}
    BY <2>1, StepRun, DocFields
  <2>. QED BY <1>1, <2>1, <2>2 DEF AgreeInv, Looping
<1>6. CASE SetupKeypair \/ JournalKeypair \/ Launch \/ JournalLaunch
  BY <1>6, BodyEffect DEF Looping
<1>7. CASE StopInstance \/ CopyImages \/ RaiseError
  BY <1>7, BodyEffect DEF Looping
<1>8. CASE CreateImage
  BY <1>8, CreateEffect DEF Looping
<1>9. CASE Cleanup \/ Terminate \/ Teardown \/ SignalRaised \/ SignalSwallowed
  BY <1>9, LeaveEffect DEF Looping, Swallowing
<1>. QED BY <1>2, <1>3, <1>4, <1>5, <1>6, <1>7, <1>8, <1>9 DEF Step, Body

LEMMA StepNamed ==
    ASSUME TypeInv, StartInv, JournalInv, NamedInv, HoldInv, Step
    PROVE  NamedInv'
<1>0. /\ ex.run \in Runs /\ CloudTypeOK /\ ex.pc # "idle"
      /\ (Launch => inst'[ex.run] # "none")
  BY StepRun DEF TypeInv, TypeOK, CloudTypeOK, Launch
<1>1. /\ \A r \in Runs : Launched(r) => inst'[r] # "none"
      /\ \A r \in Runs : inst'[r] # "none" => Launched(r) \/ (Launch /\ r = ex.run)
  <2>1. [Next]_vars
    BY DEF Step, Next, ExecStep
  <2>. QED BY <2>1, Resources DEF Launched, HoldInv
<1>2. ex'.inst => ex.inst \/ Launch
  <2>1. CASE SetupKeypair \/ JournalKeypair \/ Launch \/ JournalLaunch \/ Connect \/ ReadMarker
    BY <2>1, BodyEffect DEF Same
  <2>2. CASE SkipProvisioner \/ RunProvisioner \/ JournalProvisioner \/ WriteMarker
    BY <2>2, BodyEffect DEF Same
  <2>3. CASE StopInstance \/ CopyImages \/ RaiseError
    BY <2>3, BodyEffect DEF Same
  <2>4. CASE CreateImage
    BY <2>4, CreateEffect DEF Same
  <2>5. CASE Cleanup \/ Terminate \/ Teardown \/ SignalRaised \/ SignalSwallowed
    BY <2>5, LeaveEffect DEF Same
  <2>. QED BY <2>1, <2>2, <2>3, <2>4, <2>5 DEF Step, Body
<1>3. ex'.inst => inst'[ex.run] # "none"
  BY <1>0, <1>1, <1>2 DEF NamedInv, Launched
<1>4. journal'.run \in Runs /\ journal'.inst => inst'[journal'.run] # "none"
  <2>1. CASE JournalKeypair
    BY <2>1, StepRun, JournalEffect, DocInst
  <2>2. CASE JournalLaunch
    <3>1. ex.inst /\ journal'.run = ex.run
      BY <2>2, BodyEffect, StepRun, JournalEffect, JournalOfFields DEF HoldInv, Equipped
    <3>. QED BY <1>0, <1>1, <3>1 DEF NamedInv
  <2>3. CASE JournalProvisioner
    <3>1. ex.cur \in Provs
      BY <2>3, BodyEffect DEF TypeInv, Control
    <3>2. journal' = WithCompleted(journal, ex.cur) /\ journal \in JournalDoc
      BY <2>3, StepRun, JournalEffect
    <3>3. journal'.inst = journal.inst
      BY <3>1, <3>2, DocInst
    <3>4. journal'.run = journal.run
      BY <3>1, <3>2, DocFields
    <3>. QED BY <1>1, <3>3, <3>4 DEF NamedInv
  <2>4. CASE /\ Cleanup /\ (ex.active \/ ex.inst)
             /\ journal' = WithInstance(journal, ex.inst)
    <3>1. ex.inst \in BOOLEAN
      BY StepRun, ExecutorTypes
    <3>2. journal'.inst = ex.inst /\ journal'.run = journal.run
      BY <2>4, <3>1, StepRun, DocInst, DocFields
    <3>3. journal.run = ex.run
      BY <1>0, <2>4 DEF JournalInv
    <3>. QED BY <1>0, <1>1, <3>2, <3>3 DEF NamedInv
  <2>5. CASE journal' = journal
    BY <1>1, <2>5 DEF NamedInv
  <2>. QED BY <2>1, <2>2, <2>3, <2>4, <2>5, JournalEffect
<1>5. \A r \in jan'.todo : inst'[r] # "none"
  <2>1. jan' = jan /\ jan.todo \subseteq Runs
    BY StepRun DEF TypeInv, TypeOK, Janitor
  <2>. QED BY <1>1, <2>1 DEF NamedInv
<1>6. ASSUME NEW r \in Runs, inst'[r] # "none"
      PROVE  /\ journal'.run \in Runs /\ journal'.key
             /\ journal'.run # r => started'[journal'.run] > started'[r]
  <2>1. CASE Launch /\ r = ex.run
    BY <2>1, BodyEffect, JournalKept DEF JournalInv, Launching
  <2>2. CASE Launched(r)
    <3>1. /\ journal.run \in Runs /\ journal.key
          /\ journal.run # r => started[journal.run] > started[r]
      BY <2>2 DEF NamedInv, KeyJournaledBeforeLaunch, Launched
    <3>2. CASE journal'.key = journal.key /\ journal'.run = journal.run
      BY <3>1, <3>2, StepRun
    <3>3. CASE JournalKeypair /\ journal'.key /\ journal'.run = ex.run
      <4>1. \A q \in Runs \ {ex.run} : started[q] < started[ex.run]
        BY <3>3, BodyEffect DEF StartInv, Fresh
      <4>2. started \in [Runs -> Nat]
        BY DEF TypeInv, TypeOK, CountTypeOK
      <4>. QED BY <1>0, <3>3, <4>1, <4>2, StepRun
    <3>4. CASE JournalLaunch /\ journal'.key /\ journal'.run = ex.run
      <4>1. journal.run = ex.run
        BY <3>4, BodyEffect DEF JournalInv, Launching
      <4>. QED BY <3>1, <3>4, <4>1, StepRun
    <3>. QED BY <3>2, <3>3, <3>4, JournalKept
  <2>. QED BY <1>1, <1>6, <2>1, <2>2
<1>. QED BY <1>3, <1>4, <1>5, <1>6, StepRun DEF NamedInv, KeyJournaledBeforeLaunch, Launched

LEMMA StepHold ==
    ASSUME TypeInv, NamedInv, HoldInv, Step
    PROVE  HoldInv'
<1>0. /\ inst[ex.run] = "gone" => inst'[ex.run] = "gone"
      /\ ex.run \in Runs
  <2>1. [Next]_vars
    BY DEF Step, Next, ExecStep
  <2>. QED BY <2>1, StepRun, Resources DEF HoldInv
<1>1. CASE SetupKeypair \/ JournalKeypair \/ Launch \/ JournalLaunch
  BY <1>1, BodyEffect DEF HoldInv, Same, Equipped, Looping, Leaving
<1>2. CASE Connect \/ ReadMarker \/ SkipProvisioner \/ RunProvisioner
  <2>1. /\ ex.pc \in {"connect", "marker", "provision"} /\ Same(ex, ex')
        /\ ex'.pc \in {"marker", "cleanup", "provision", "journal-provisioner"}
    BY <1>2, BodyEffect
  <2>. QED BY <2>1 DEF HoldInv, Same, Equipped, Looping, Leaving
<1>3. CASE JournalProvisioner \/ WriteMarker \/ StopInstance
  <2>1. /\ ex.pc \in Looping /\ Same(ex, ex')
        /\ ex'.pc \in {"write-marker", "cleanup", "provision", "create-image"}
    BY <1>3, BodyEffect DEF Looping
  <2>. QED BY <2>1 DEF HoldInv, Same, Equipped, Looping, Leaving
<1>4. CASE CreateImage
  BY <1>4, CreateEffect DEF HoldInv, Same, Equipped, Looping, Leaving
<1>5. CASE CopyImages
  BY <1>5, BodyEffect DEF HoldInv, Same, Equipped, Looping, Leaving
<1>6. CASE RaiseError \/ SignalRaised
  <2>1. ex.pc \in InTry /\ ex'.pc = "cleanup" /\ Same(ex, ex')
    BY <1>6, BodyEffect, LeaveEffect
  <2>. QED BY <2>1 DEF HoldInv, Same, Equipped, Looping, Leaving, InTry
<1>7. CASE Cleanup
  <2>1. Retained(ex') = Retained(ex)
    BY <1>7, LeaveEffect, StepRun DEF Retained, Same
  <2>. QED BY <1>7, <2>1, LeaveEffect DEF HoldInv, Same, Equipped, Looping, Leaving
<1>8. CASE Terminate
  BY <1>8, LeaveEffect, StepRun DEF HoldInv, Equipped, Looping, Leaving
<1>9. CASE Teardown
  BY <1>0, <1>9, LeaveEffect, StepRun DEF HoldInv, Equipped, Looping, Leaving
<1>10. CASE SignalSwallowed
  BY <1>10, LeaveEffect DEF HoldInv, Same, Equipped, Looping, Leaving, Swallowing
<1>. QED BY <1>1, <1>2, <1>3, <1>4, <1>5, <1>6, <1>7, <1>8, <1>9, <1>10 DEF Step, Body

LEMMA StepRecord ==
    ASSUME TypeInv, StartInv, NamedInv, HoldInv, RecordInv, ReportsOwnImage, Step
    PROVE  RecordInv' /\ ReportsOwnImage'
<1>1. \A r \in Runs : /\ inst[r] = "gone" => inst'[r] = "gone"
                      /\ key[r] = "deleted" => key'[r] = "deleted" \/ (ex.pc = "keypair" /\ r = ex.run)
  <2>1. [Next]_vars
    BY DEF Step, Next, ExecStep
  <2>. QED BY <2>1, Resources DEF HoldInv
<1>2. images \subseteq images' /\ (CreateImage \/ images' = images)
  <2>1. CASE CreateImage
    BY <2>1, CreateEffect
  <2>2. CASE ~CreateImage
    BY <2>2 DEF Step, Body, SetupKeypair, JournalKeypair, Launch, JournalLaunch, Connect, ReadMarker,
       SkipProvisioner, RunProvisioner, JournalProvisioner, WriteMarker, StopInstance, CopyImages,
       RaiseError, Cleanup, Terminate, Teardown, SignalRaised, SignalSwallowed, cloudVars
  <2>. QED BY <2>1, <2>2
<1>3. record' = record /\ (ex.pc = "keypair" => record.run # ex.run)
  BY StepRun DEF StartInv, Fresh
<1>4. RecordInv'
  BY <1>1, <1>2, <1>3 DEF RecordInv
<1>5. ex'.image = ex.image \/ CreateImage
  <2>1. CASE SetupKeypair \/ JournalKeypair \/ Launch \/ JournalLaunch \/ Connect \/ ReadMarker
    BY <2>1, BodyEffect DEF Same
  <2>2. CASE SkipProvisioner \/ RunProvisioner \/ JournalProvisioner \/ WriteMarker
    BY <2>2, BodyEffect DEF Same
  <2>3. CASE StopInstance \/ CopyImages \/ RaiseError
    BY <2>3, BodyEffect DEF Same
  <2>5. CASE Cleanup \/ Terminate \/ Teardown \/ SignalRaised \/ SignalSwallowed
    BY <2>5, LeaveEffect DEF Same
  <2>. QED BY <2>1, <2>2, <2>3, <2>5 DEF Step, Body
<1>6. CASE ex'.image = ex.image
  <2>1. attempts' = attempts /\ ex'.run = ex.run
    BY StepRun
  <2>2. ex'.image # 0 => ex'.image = attempts /\ \E i \in images' : i.id = ex.image /\ i.run = ex.run
    BY <1>2, <1>6 DEF ReportsOwnImage
  <2>. QED BY <1>4, <1>6, <2>1, <2>2 DEF ReportsOwnImage
<1>7. CASE CreateImage
  <2>1. attempts' = attempts /\ ex'.run = ex.run
    BY StepRun
  <2>2. CASE Same(ex, ex')
    <3>1. ex'.image # 0 => ex'.image = attempts /\ \E i \in images' : i.id = ex.image /\ i.run = ex.run
      BY <1>2, <2>2 DEF ReportsOwnImage, Same
    <3>. QED BY <1>4, <2>1, <2>2, <3>1 DEF ReportsOwnImage, Same
  <2>3. CASE ex'.image = attempts /\ \E i \in images' : i.id = attempts /\ i.run = ex.run
    BY <1>4, <2>1, <2>3 DEF ReportsOwnImage
  <2>. QED BY <1>7, <2>2, <2>3, CreateEffect
<1>. QED BY <1>4, <1>5, <1>6, <1>7

LEMMA StepRecovery ==
    ASSUME TypeInv, HardenInv, RecoveryInv, Step
    PROVE  RecoveryInv'
<1>1. /\ StartInv /\ JournalInv /\ AgreeInv /\ NamedInv /\ HoldInv /\ RecordInv /\ ReportsOwnImage
  BY DEF RecoveryInv
<1>. QED BY <1>1, StepStart, StepJournal, StepAgree, StepNamed, StepHold, StepRecord DEF RecoveryInv

-----------------------------------------------------------------------------
(* The invariant, for the start of an attempt. *)

LEMMA FreshRecovery ==
    ASSUME TypeInv, RecoveryInv, NEW r \in Runs, NEW p \in Plans, NEW keep \in BOOLEAN,
           StartFresh(r, p, keep)
    PROVE  RecoveryInv'
<1>0. /\ StartInv /\ JournalInv /\ NamedInv /\ RecordInv
      /\ started \in [Runs -> Nat] /\ attempts \in Nat
  BY DEF RecoveryInv, TypeInv, TypeOK, CountTypeOK
<1>1. /\ UNCHANGED <<hb, journal, record, inst, key, images, guest, marker, jan>>
      /\ ex'.pc = "keypair" /\ ex'.run = r /\ ~ex'.active /\ ~ex'.inst /\ ~ex'.ok
      /\ ex'.image = 0 /\ ~ex'.resume
  BY StartFrame, FreshEffect
<1>2. /\ started[r] = 0 /\ attempts' = attempts + 1
      /\ started' = [started EXCEPT ![r] = attempts + 1]
  BY FreshEffect
<1>3. \A q \in Runs : /\ started'[q] = (IF q = r THEN attempts + 1 ELSE started[q])
                      /\ q # r => started[q] < attempts + 1
  BY <1>0, <1>2 DEF StartInv
<1>4. journal.run # r /\ record.run # r /\ ~Launched(r)
  BY <1>0, <1>2 DEF StartInv
<1>5. StartInv'
  BY <1>0, <1>1, <1>2, <1>3, <1>4 DEF StartInv, Launched
<1>6. JournalInv' /\ AgreeInv' /\ HoldInv'
  BY <1>0, <1>1 DEF JournalInv, AgreeInv, HoldInv, Launching, Looping, Equipped, Leaving
<1>7. KeyJournaledBeforeLaunch'
  BY <1>0, <1>1, <1>3, <1>4 DEF NamedInv, KeyJournaledBeforeLaunch, Launched
<1>8. NamedInv' /\ RecordInv' /\ ReportsOwnImage'
  BY <1>0, <1>1, <1>7 DEF NamedInv, RecordInv, ReportsOwnImage, Launched
<1>. QED BY <1>5, <1>6, <1>8 DEF RecoveryInv

LEMMA ResumeRecovery ==
    ASSUME TypeInv, RecoveryInv, NEW r \in Runs, NEW p \in Plans, NEW keep \in BOOLEAN,
           StartResume(r, p, keep)
    PROVE  RecoveryInv'
<1>0. /\ StartInv /\ JournalInv /\ NamedInv /\ RecordInv
      /\ started \in [Runs -> Nat] /\ attempts \in Nat
  BY DEF RecoveryInv, TypeInv, TypeOK, CountTypeOK
<1>1. /\ UNCHANGED <<hb, journal, record, inst, key, images, guest, marker, jan, started>>
      /\ attempts' = attempts + 1
  BY StartFrame DEF StartResume
<1>2. /\ ex'.run = r /\ ~ex'.ok /\ ex'.image = 0 /\ started[r] # 0 /\ ex'.resume
      /\ \/ ex'.pc = "cleanup" /\ ~ex'.active /\ ~ex'.inst
         \/ ex'.pc = "cleanup" /\ ~ex'.active /\ journal.run = r /\ ex'.inst = journal.inst
         \/ /\ ex'.pc = "connect" /\ journal.run = r /\ ex'.inst /\ ex'.key
            /\ journal.inst /\ ex'.completed = journal.completed
  BY ResumeEffect
<1>3. StartInv'
  BY <1>0, <1>1, <1>2 DEF StartInv, Launched, Fresh
<1>4. JournalInv' /\ AgreeInv' /\ HoldInv'
  BY <1>0, <1>1, <1>2 DEF JournalInv, AgreeInv, HoldInv, Launching, Looping, Equipped, Leaving
<1>5. NamedInv' /\ RecordInv' /\ ReportsOwnImage'
  BY <1>0, <1>1, <1>2
     DEF NamedInv, RecordInv, ReportsOwnImage, Launched, KeyJournaledBeforeLaunch
<1>. QED BY <1>3, <1>4, <1>5 DEF RecoveryInv

-----------------------------------------------------------------------------
(* The invariant, for the heartbeat, the end of an attempt, the janitor    *)
(* and the environment.                                                    *)

LEMMA OtherResources ==
    ASSUME TypeInv, RecoveryInv, Other, NEW r \in Runs
    PROVE  /\ inst'[r] # "none" <=> Launched(r)
           /\ inst[r] = "gone" => inst'[r] = "gone"
           /\ key[r] = "deleted" => key'[r] = "deleted" \/ (ex.pc = "keypair" /\ r = ex.run)
<1>1. [Next]_vars
  BY DEF Other, Next, ExecStep, JanStep
<1>2. ~Launch
  <2>1. NoExec.pc = "idle"
    BY Initials
  <2>2. ex'.pc = ex.pc \/ ex'.pc = "idle"
    BY <2>1, OtherFrame
  <2>. QED BY <2>2, BodyEffect
<1>. QED BY <1>1, <1>2, Resources DEF RecoveryInv, HoldInv

LEMMA OtherRecord ==
    ASSUME TypeInv, RecoveryInv, Other
    PROVE  RecordInv'
<1>0. JournalInv /\ RecordInv /\ HoldInv /\ StartInv /\ ReportsOwnImage
  BY DEF RecoveryInv
<1>1. /\ UNCHANGED images
      /\ \/ record' = record
         \/ ex.pc = "finish" /\ record' = BuildRecord(ex)
  BY <1>0, OtherEffect
<1>2. CASE record' = record
  BY <1>0, <1>1, <1>2, OtherResources DEF RecordInv, StartInv, Fresh
<1>3. CASE ex.pc = "finish" /\ record' = BuildRecord(ex)
  <2>1. /\ record'.run = ex.run /\ record'.ok = ExitOk(ex) /\ record'.image = ex.image
        /\ record'.inst = ex.inst /\ record'.key = ex.key /\ record'.retained = Retained(ex)
        /\ record'.remaining = ex.errs
    BY <1>3 DEF BuildRecord
  <2>2. ex.run \in Runs
    BY <1>3 DEF TypeInv, Control
  <2>3. ~Retained(ex) =>
          /\ ex.inst /\ "instance" \notin ex.errs => inst'[ex.run] = "gone"
          /\ ex.key /\ "keypair" \notin ex.errs => key'[ex.run] = "deleted"
    BY <1>0, <1>3, <2>2, OtherResources DEF HoldInv
  <2>4. ExitOk(ex) => /\ ex.inst /\ ex.key /\ ex.errs = {} /\ ~Retained(ex)
                      /\ \E i \in images' : i.id = ex.image /\ i.run = ex.run
    BY <1>0, <1>1 DEF ExitOk, Retained, HoldInv, ReportsOwnImage
  <2>. QED BY <2>1, <2>2, <2>3, <2>4 DEF RecordInv
<1>. QED BY <1>1, <1>2, <1>3

LEMMA OtherRecovery ==
    ASSUME TypeInv, RecoveryInv, Other
    PROVE  RecoveryInv'
<1>0. /\ StartInv /\ JournalInv /\ AgreeInv /\ NamedInv /\ HoldInv /\ ReportsOwnImage
      /\ Control
  BY DEF RecoveryInv, TypeInv
<1>1. /\ ex' = ex \/ (ex' = NoExec /\ hb' = NoJournal)
      /\ UNCHANGED <<journal, started, attempts, images>>
      /\ hb' # NoJournal => hb' = journal
      /\ record' = record \/ (ex.pc = "finish" /\ record'.run = ex.run)
      /\ \A r \in jan'.todo : r \in jan.todo \/ (r \in Runs /\ Launched(r))
      /\ ex.pc # "idle" => marker'[ex.run] = marker[ex.run]
  BY <1>0, OtherEffect DEF BuildRecord
<1>2. NoExec.pc = "idle" /\ ~NoExec.ok /\ NoExec.image = 0 /\ ~NoExec.inst /\ ~NoExec.active
  BY Initials DEF NoExec, Attempt
<1>3. jan.todo \subseteq Runs
  BY DEF TypeInv, TypeOK, Janitor
<1>4. StartInv'
  BY <1>0, <1>1, <1>2, OtherResources DEF StartInv, Launched, Fresh, Control
<1>5. JournalInv'
  BY <1>0, <1>1, <1>2 DEF JournalInv, Launching
<1>6. AgreeInv'
  BY <1>0, <1>1, <1>2 DEF AgreeInv, Looping
<1>7. NamedInv'
  <2>1. ex'.pc # "idle" /\ ex'.inst => inst'[ex'.run] # "none"
    BY <1>0, <1>1, <1>2, OtherResources DEF NamedInv, Control
  <2>2. journal'.run \in Runs /\ journal'.inst => inst'[journal'.run] # "none"
    BY <1>0, <1>1, OtherResources DEF NamedInv
  <2>3. \A r \in jan'.todo : inst'[r] # "none"
    BY <1>0, <1>1, <1>3, OtherResources DEF NamedInv
  <2>4. KeyJournaledBeforeLaunch'
    BY <1>0, <1>1, OtherResources DEF NamedInv, KeyJournaledBeforeLaunch, Launched
  <2>. QED BY <2>1, <2>2, <2>3, <2>4 DEF NamedInv, Launched
<1>8. HoldInv'
  <2>1. CASE ex' = ex
    BY <1>0, <2>1, OtherResources DEF HoldInv, Control, Retained
  <2>2. CASE ex' = NoExec
    BY <1>2, <2>2 DEF HoldInv, Equipped, Looping
  <2>. QED BY <1>1, <2>1, <2>2
<1>9. ReportsOwnImage'
  BY <1>0, <1>1, <1>2 DEF ReportsOwnImage
<1>. QED BY <1>4, <1>5, <1>6, <1>7, <1>8, <1>9, OtherRecord DEF RecoveryInv

-----------------------------------------------------------------------------
(* The theorems. *)

AllInv == TypeInv /\ HardenInv /\ RecoveryInv

LEMMA AllHold == Spec => []AllInv
<1>1. Init => AllInv
  BY InitType, InitHarden, RecoveryInit DEF AllInv
<1>2. AllInv /\ [Next]_vars => AllInv'
  BY NextCases, StepType, StartType, OtherType, StepHarden, StartHarden, OtherHarden,
     StepRecovery, FreshRecovery, ResumeRecovery, OtherRecovery DEF AllInv
<1>. QED BY <1>1, <1>2, PTL DEF Spec

(* The key pair of a run is in the journal before the cloud can hold an    *)
(* instance of it, and stays there until a later run takes the workdir     *)
(* over: `native reconcile` always finds the key of the last run that      *)
(* launched (native/executor.py, 235-261).                                 *)
THEOREM JournalsKey == Spec => []KeyJournaledBeforeLaunch
<1>1. AllInv => KeyJournaledBeforeLaunch
  BY DEF AllInv, RecoveryInv, NamedInv
<1>. QED BY AllHold, <1>1, PTL

(* A build record that says success stays true for ever: its image exists, *)
(* and the run's instance is gone and its key pair deleted, whatever later *)
(* attempts, crashes and janitor commands do (native/executor.py, 504-594).*)
THEOREM ExitsClean == Spec => []CleanExit
<1>1. AllInv => CleanExit
  BY DEF AllInv, RecoveryInv, RecordInv, CleanExit, Live
<1>. QED BY AllHold, <1>1, PTL

(* Whatever an attempt held and did not retain is gone when its record     *)
(* does not list it as remaining (native/executor.py, 518-554).            *)
THEOREM LeftoversAreListed == Spec => []LeftoversListed
<1>1. AllInv => LeftoversListed
  BY DEF AllInv, RecoveryInv, RecordInv, LeftoversListed, Live
<1>. QED BY AllHold, <1>1, PTL

(* An attempt never reports an earlier attempt's image as its own, also    *)
(* when the answer to CreateImage was lost and the image had to be found   *)
(* by its name (native/providers/tencentcloud.py, 276-309).                *)
THEOREM OwnImageReported == Spec => []ReportsOwnImage
<1>1. AllInv => ReportsOwnImage
  BY DEF AllInv, RecoveryInv
<1>. QED BY AllHold, <1>1, PTL

LEMMA ProvisionStep ==
    ASSUME TypeInv, [Next]_vars, ex.pc = "provision", ex'.pc = "journal-provisioner"
    PROVE  RunProvisioner
<1>1. CASE Step
  <2>1. CASE SetupKeypair \/ JournalKeypair \/ Launch \/ JournalLaunch \/ Connect \/ ReadMarker
    BY <2>1, BodyEffect
  <2>2. CASE SkipProvisioner \/ JournalProvisioner \/ WriteMarker \/ StopInstance \/ CopyImages
             \/ RaiseError
    BY <2>2, BodyEffect
  <2>3. CASE CreateImage
    BY <2>3, CreateEffect
  <2>4. CASE Cleanup \/ Terminate \/ Teardown \/ SignalRaised \/ SignalSwallowed
    BY <2>4, LeaveEffect
  <2>. QED BY <1>1, <2>1, <2>2, <2>3, <2>4 DEF Step, Body
<1>2. CASE Other
  BY <1>2, OtherFrame, Initials
<1>3. CASE \E r \in Runs, p \in Plans, keep \in BOOLEAN :
              StartFresh(r, p, keep) \/ StartResume(r, p, keep)
  BY <1>3 DEF StartFresh, StartResume
<1>. QED BY <1>1, <1>2, <1>3, NextCases

(* A provisioner that the journal and the guest's marker both record for   *)
(* this run and plan is never run again by any attempt of it               *)
(* (native/executor.py, 281-315).                                          *)
THEOREM NeverReplays == Spec => NoReplay
<1>1. AllInv /\ [Next]_vars =>
        [(ex.pc = "provision" /\ ex'.pc = "journal-provisioner") =>
           ~ /\ SameIdentity(journal, ex.run, ex.plan)
             /\ SameIdentity(marker[ex.run], ex.run, ex.plan)
             /\ ex.cur \in journal.completed \cap marker[ex.run].completed]_vars
  <2>. SUFFICES ASSUME AllInv, [Next]_vars, ex.pc = "provision", ex'.pc = "journal-provisioner",
                       SameIdentity(marker[ex.run], ex.run, ex.plan),
                       ex.cur \in journal.completed \cap marker[ex.run].completed
                PROVE  FALSE
    OBVIOUS
  <2>1. ex.cur \notin ex.completed
    BY ProvisionStep DEF AllInv, RunProvisioner
  <2>2. ex.cur \in ex.completed
    BY DEF AllInv, RecoveryInv, AgreeInv, Looping
  <2>. QED BY <2>1, <2>2
<1>. QED BY AllHold, <1>1, PTL DEF Spec, NoReplay

(* No completed provisioner and no key pair of the run that owns the       *)
(* journal is ever lost from it, by whatever interleaving of the attempt   *)
(* and its heartbeat thread (native/journal.py, 29-79).                    *)
THEOREM NeverForgets == Spec => JournalNeverForgets
<1>1. AllInv /\ [Next]_vars =>
        [journal'.run = journal.run => /\ journal.completed \subseteq journal'.completed
                                       /\ journal.key => journal'.key]_vars
  <2>. SUFFICES ASSUME AllInv, [Next]_vars, journal'.run = journal.run
                PROVE  /\ journal.completed \subseteq journal'.completed
                       /\ journal.key => journal'.key
    OBVIOUS
  <2>0. TypeInv /\ HardenInv /\ StartInv /\ JournalInv
    BY DEF AllInv, RecoveryInv
  <2>1. CASE Step
    <3>1. JournalKeypair => journal.run # ex.run
      BY <2>0, BodyEffect DEF StartInv, Fresh
    <3>2. JournalLaunch => journal.completed = {}
      BY <2>0, BodyEffect DEF JournalInv, Launching, HardenInv, ProgressTrue, Early
    <3>. QED BY <2>0, <2>1, <3>1, <3>2, JournalKept
  <2>2. CASE journal' = journal
    BY <2>2
  <2>3. CASE Other
    BY <2>0, <2>2, <2>3, OtherEffect
  <2>4. CASE \E r \in Runs, p \in Plans, keep \in BOOLEAN :
                StartFresh(r, p, keep) \/ StartResume(r, p, keep)
    BY <2>2, <2>4, StartFrame
  <2>. QED BY <2>1, <2>3, <2>4, NextCases
<1>. QED BY AllHold, <1>1, PTL DEF Spec, JournalNeverForgets
=============================================================================
