-------------------------- MODULE DistributionProofs --------------------------
(***************************************************************************)
(* Theorems about Distribution, for any number of artifacts, regions,      *)
(* accounts, jobs, workers, operators and reconcilers, and for every quota *)
(* and bound.                                                              *)
(***************************************************************************)
EXTENDS Distribution, FiniteSetTheorems, FunctionTheorems, SequenceTheorems, TLAPS

-----------------------------------------------------------------------------
(* The records. *)

Serving == {"plan", "sync", "record"}
Sharing == {"share", "record-share"}
Phases  == {"idle", "finish"} \cup Serving \cup Sharing
AnyJob  == Jobs \cup {NoJob}
AnyWorker == Workers \cup {NoWorker}

(* The work of a session, which only a claim, a command or an end changes. *)
SameWork(s, t) == t.job = s.job /\ t.attempt = s.attempt /\ t.art = s.art

LEMMA SessionFields ==
    ASSUME NEW f \in Phases, NEW j \in AnyJob, NEW n \in Nat, NEW a \in Nat, NEW R \in SUBSET Regions
    PROVE  LET s == Session(f, j, n, a, R)
           IN /\ s \in SessionType /\ s.pc = f /\ s.job = j /\ s.attempt = n /\ s.art = a
              /\ s.regions = R /\ ~s.ok
  BY DEF Session, SessionType, Phases, Serving, Sharing, AnyJob

LEMMA NoSessionFields == NoSession \in SessionType /\ NoSession.pc = "idle" /\ NoSession.job = NoJob
<1>1. {} \in SUBSET Regions /\ NoJob \in AnyJob /\ "idle" \in Phases
  BY DEF AnyJob, Phases
<1>. QED BY <1>1, SessionFields DEF NoSession

LEMMA SessionParts ==
    ASSUME NEW s \in SessionType
    PROVE  /\ s.pc \in Phases /\ s.job \in AnyJob /\ s.attempt \in Nat /\ s.art \in Nat
           /\ s.regions \in SUBSET Regions /\ s.got \in [Regions -> Nat] /\ s.ok \in BOOLEAN
  BY DEF SessionType, Phases, Serving, Sharing, AnyJob

LEMMA ToFields ==
    ASSUME NEW s \in SessionType, NEW f \in Phases
    PROVE  /\ To(s, f) \in SessionType /\ To(s, f).pc = f /\ SameWork(s, To(s, f))
           /\ To(s, f).regions = s.regions
  BY DEF To, SessionType, SameWork, Phases, Serving, Sharing

LEMMA ConcludedFields ==
    ASSUME NEW s \in SessionType, NEW ok \in BOOLEAN
    PROVE  /\ Concluded(s, ok) \in SessionType /\ Concluded(s, ok).pc = "finish"
           /\ SameWork(s, Concluded(s, ok)) /\ Concluded(s, ok).ok = ok
  BY DEF Concluded, SessionType, SameWork

LEMMA CopyingFields ==
    ASSUME NEW s \in SessionType, NEW R \in SUBSET Regions
    PROVE  /\ Copying(s, R) \in SessionType /\ Copying(s, R).pc = "sync"
           /\ SameWork(s, Copying(s, R)) /\ Copying(s, R).regions = R
  BY DEF Copying, SessionType, SameWork

LEMMA AnsweredFields ==
    ASSUME NEW s \in SessionType, NEW got \in [Regions -> Nat]
    PROVE  /\ Answered(s, got) \in SessionType /\ Answered(s, got).pc = "record"
           /\ SameWork(s, Answered(s, got)) /\ Answered(s, got).regions = s.regions
           /\ Answered(s, got).got = got
  BY DEF Answered, SessionType, SameWork

LEMMA WithoutFields ==
    ASSUME NEW s \in SessionType, NEW r
    PROVE  /\ Without(s, r) \in SessionType /\ Without(s, r).pc = s.pc
           /\ SameWork(s, Without(s, r)) /\ Without(s, r).regions = s.regions \ {r}
           /\ Without(s, r).got = s.got
  BY DEF Without, SessionType, SameWork

LEMMA ReplicaFields ==
    ASSUME NEW st \in {"none", "pending", "ready", "failed"}, NEW n \in Nat, NEW late \in BOOLEAN
    PROVE  /\ Replica(st, n, late) \in ReplicaType /\ Replica(st, n, late).status = st
           /\ Replica(st, n, late).copy = n /\ Replica(st, n, late).late = late
  BY DEF Replica, ReplicaType

LEMMA ReplicaParts ==
    ASSUME NEW x \in ReplicaType
    PROVE  /\ x.status \in {"none", "pending", "ready", "failed"} /\ x.copy \in Nat /\ x.late \in BOOLEAN
  BY DEF ReplicaType

LEMMA MissingFields == Missing \in ReplicaType /\ Missing.status = "none" /\ Missing.copy = 0
  BY DEF Missing, Replica, ReplicaType

LEMMA AgedFields ==
    ASSUME NEW x \in ReplicaType, NEW y \in ReplicaType
    PROVE  /\ Aged(x, y) \in ReplicaType /\ Aged(x, y).status = x.status /\ Aged(x, y).copy = x.copy
  BY DEF Aged, ReplicaType

LEMMA JobRowFields ==
    ASSUME NEW st \in Statuses, NEW o \in AnyWorker, NEW n \in Nat, NEW l \in AnyWorker
    PROVE  LET x == JobRow(st, o, st, n, l)
           IN /\ x \in RowType /\ x.status = st /\ x.owner = o /\ ~x.due /\ x.dstatus = st
              /\ x.attempt = n /\ x.last = l
  BY DEF JobRow, RowType, AnyWorker

LEMMA RowParts ==
    ASSUME NEW x \in RowType
    PROVE  /\ x.status \in Statuses /\ x.owner \in AnyWorker /\ x.due \in BOOLEAN
           /\ x.dstatus \in Statuses /\ x.attempt \in Nat /\ x.last \in AnyWorker
  BY DEF RowType, AnyWorker

LEMMA CycleFields ==
    ASSUME NEW f \in {"idle", "next", "inspect", "write"}, NEW todo \in SUBSET Artifacts,
           NEW a \in Nat, NEW R \in SUBSET Regions, NEW seen \in [Regions -> ReplicaType]
    PROVE  LET k == Cycle(f, todo, a, R, seen)
           IN /\ k \in CycleType /\ k.pc = f /\ k.todo = todo /\ k.art = a /\ k.regions = R
              /\ k.seen = seen
  BY DEF Cycle, CycleType

LEMMA NoCycleFields == NoCycle \in CycleType /\ NoCycle.pc = "idle"
<1>1. NothingSeen \in [Regions -> ReplicaType]
  BY MissingFields DEF NothingSeen
<1>. QED BY <1>1, CycleFields DEF NoCycle

LEMMA CycleParts ==
    ASSUME NEW k \in CycleType
    PROVE  /\ k.pc \in {"idle", "next", "inspect", "write"} /\ k.todo \in SUBSET Artifacts
           /\ k.art \in Nat /\ k.regions \in SUBSET Regions /\ k.cur \in Regions \cup {NoRegion}
           /\ k.seen \in [Regions -> ReplicaType]
  BY DEF CycleType

-----------------------------------------------------------------------------
(* What each step of a worker or an operator does. *)

Moves(p, f) == /\ session' \in [Procs -> SessionType] /\ session'[p].pc = f
               /\ \A q \in Procs \ {p} : session'[q] = session[q]
Keeps(p) == SameWork(session[p], session'[p])

LEMMA Moved ==
    ASSUME TypeOK, NEW p \in Procs, NEW s \in SessionType, Become(p, s)
    PROVE  Moves(p, s.pc) /\ session'[p] = s
  BY DEF TypeOK, Become, Moves

LEMMA Here ==
    ASSUME TypeOK, NEW p \in Procs
    PROVE  /\ session[p] \in SessionType
           /\ session[p].pc # "idle" => session[p].art \in Artifacts
           /\ p \in Workers /\ session[p].pc # "idle" => session[p].job \in Jobs
  BY DEF TypeOK, At

Wanted(s) == {r \in s.regions : NeedsCopy(replica[s.art][r])}

LEMMA PlanEffect ==
    ASSUME TypeOK, NEW p \in Procs, Plan(p)
    PROVE  /\ UNCHANGED <<active, replica, shares, dropped, copies, granted, job, rec, events, overrun, forgotten>>
           /\ session[p].pc = "plan" /\ Keeps(p)
           /\ \/ /\ Moves(p, "sync") /\ session'[p].regions = Wanted(session[p])
                 /\ Wanted(session[p]) # {} /\ Races(session[p].art, Wanted(session[p]))
              \/ /\ Moves(p, "finish") /\ raced' = raced
                 /\ session'[p].ok => Wanted(session[p]) = {}
<1>. DEFINE s == session[p]
            R == Wanted(s)
            ok == s.art \in active
<1>1. s \in SessionType /\ R \in SUBSET Regions /\ ok \in BOOLEAN
  BY Here, SessionParts DEF Wanted
<1>2. /\ Copying(s, R) \in SessionType /\ Copying(s, R).pc = "sync" /\ SameWork(s, Copying(s, R))
      /\ Copying(s, R).regions = R
  BY <1>1, CopyingFields
<1>3. /\ Concluded(s, ok) \in SessionType /\ Concluded(s, ok).pc = "finish"
      /\ SameWork(s, Concluded(s, ok)) /\ Concluded(s, ok).ok = ok
  BY <1>1, ConcludedFields
<1>4. /\ UNCHANGED <<active, replica, shares, dropped, copies, granted, job, rec, events, overrun, forgotten>>
      /\ s.pc = "plan"
      /\ \/ R # {} /\ Become(p, Copying(s, R)) /\ Races(s.art, R)
         \/ (ok => R = {}) /\ Become(p, Concluded(s, ok)) /\ raced' = raced
  BY DEF Plan, At, registry, cloud, Wanted
<1>. HIDE DEF s, R, ok
<1>5. CASE R # {} /\ Become(p, Copying(s, R)) /\ Races(s.art, R)
  BY <1>2, <1>4, <1>5, Moved DEF Keeps, s, R
<1>6. CASE (ok => R = {}) /\ Become(p, Concluded(s, ok)) /\ raced' = raced
  BY <1>3, <1>4, <1>6, Moved DEF Keeps, s, R
<1>. QED BY <1>4, <1>5, <1>6

(* The copies of a in the regions R are each one more. *)
Grow(a, R) ==
    /\ copies' \in [Artifacts -> [Regions -> Seq(CopyState)]]
    /\ \A b \in Artifacts, r \in Regions :
          /\ IF b = a /\ r \in R THEN Len(copies'[b][r]) = Len(copies[b][r]) + 1
                                 ELSE Len(copies'[b][r]) = Len(copies[b][r])
          /\ \A n \in 1 .. Len(copies[b][r]) : copies'[b][r][n] = copies[b][r][n]

LEMMA Grown ==
    ASSUME TypeOK, NEW a \in Artifacts, NEW R \in SUBSET Regions, CopiesStarted(a, R)
    PROVE  Grow(a, R)
<1>. DEFINE more(r) == IF r \in R THEN Append(copies[a][r], "copying") ELSE copies[a][r]
<1>1. copies \in [Artifacts -> [Regions -> Seq(CopyState)]]
  BY DEF TypeOK
<1>2. copies' = [copies EXCEPT ![a] = [r \in Regions |-> more(r)]]
  BY DEF CopiesStarted
<1>3. \A r \in Regions :
        /\ more(r) \in Seq(CopyState)
        /\ IF r \in R THEN Len(more(r)) = Len(copies[a][r]) + 1 ELSE Len(more(r)) = Len(copies[a][r])
        /\ \A n \in 1 .. Len(copies[a][r]) : more(r)[n] = copies[a][r][n]
  <2>1. TAKE r \in Regions
  <2>2. copies[a][r] \in Seq(CopyState) /\ "copying" \in CopyState
    BY <1>1 DEF CopyState
  <2>3. DEFINE x == Append(copies[a][r], "copying")
  <2>4. /\ x \in Seq(CopyState) /\ Len(x) = Len(copies[a][r]) + 1
        /\ \A n \in 1 .. Len(copies[a][r]) : x[n] = copies[a][r][n]
    BY <2>2, AppendProperties
  <2>. HIDE DEF x
  <2>5. more(r) = IF r \in R THEN x ELSE copies[a][r]
    BY DEF x
  <2>6. Len(copies[a][r]) \in Nat
    BY <2>2
  <2>7. CASE r \in R
    <3>1. more(r) = x
      BY <2>5, <2>7
    <3>. HIDE DEF more
    <3>. QED BY <2>4, <2>7, <3>1
  <2>8. CASE r \notin R
    <3>1. more(r) = copies[a][r]
      BY <2>5, <2>8
    <3>. HIDE DEF more
    <3>. QED BY <2>2, <2>6, <2>8, <3>1
  <2>. QED BY <2>7, <2>8
<1>. HIDE DEF more
<1>4. \A b \in Artifacts, r \in Regions : copies'[b][r] = IF b = a THEN more(r) ELSE copies[b][r]
  BY <1>1, <1>2
<1>5. copies' \in [Artifacts -> [Regions -> Seq(CopyState)]]
  BY <1>1, <1>2, <1>3
<1>6. ASSUME NEW b \in Artifacts, NEW r \in Regions
      PROVE  /\ IF b = a /\ r \in R THEN Len(copies'[b][r]) = Len(copies[b][r]) + 1
                                    ELSE Len(copies'[b][r]) = Len(copies[b][r])
             /\ \A n \in 1 .. Len(copies[b][r]) : copies'[b][r][n] = copies[b][r][n]
  <2>1. Len(copies[b][r]) \in Nat
    BY <1>1
  <2>2. CASE b = a
    BY <1>3, <1>4, <2>2
  <2>3. CASE b # a
    BY <1>4, <2>1, <2>3
  <2>. QED BY <2>2, <2>3
<1>. QED BY <1>5, <1>6 DEF Grow

LEMMA NewestType ==
    ASSUME TypeOK, NEW a \in Artifacts, NEW r \in Regions
    PROVE  Newest(a, r) \in Nat /\ Newest(a, r) = Len(copies[a][r]) + 1 /\ Len(copies[a][r]) \in Nat
<1>1. copies[a][r] \in Seq(CopyState)
  BY DEF TypeOK
<1>. QED BY <1>1 DEF Newest

LEMMA SyncEffect ==
    ASSUME TypeOK, NEW p \in Procs, Sync(p)
    PROVE  /\ UNCHANGED <<active, replica, shares, dropped, granted, job, rec, overrun, raced>>
           /\ session[p].pc = "sync" /\ Keeps(p) /\ Moves(p, "record")
           /\ session'[p].regions = session[p].regions
           /\ Grow(session[p].art, session[p].regions)
           /\ events' \in {events, events + 1} /\ (events' # events => events < MaxEvents)
           /\ \E lost \in SUBSET session[p].regions :
                 /\ \A r \in Regions : session'[p].got[r] =
                       IF r \in lost THEN 0 ELSE Len(copies[session[p].art][r]) + 1
                 /\ Forget({<<session[p].art, r, Newest(session[p].art, r)>> : r \in lost})
<1>. DEFINE s == session[p]
<1>1. s \in SessionType /\ s.art \in Artifacts /\ s.pc = "sync" /\ s.regions \in SUBSET Regions
  BY Here, SessionParts DEF Sync, At
<1>2. PICK lost \in SUBSET s.regions :
        /\ IF lost = {} THEN UNCHANGED events ELSE Event
        /\ Become(p, Answered(s, [r \in Regions |-> IF r \in lost THEN 0 ELSE Newest(s.art, r)]))
        /\ Forget({<<s.art, r, Newest(s.art, r)>> : r \in lost})
  BY DEF Sync
<1>. DEFINE got == [r \in Regions |-> IF r \in lost THEN 0 ELSE Newest(s.art, r)]
<1>3. got \in [Regions -> Nat] /\ \A r \in Regions : got[r] = IF r \in lost THEN 0 ELSE Len(copies[s.art][r]) + 1
  BY <1>1, NewestType
<1>4. Become(p, Answered(s, got))
  BY <1>2
<1>5. /\ UNCHANGED <<active, replica, shares, dropped, granted, job, rec, overrun, raced>>
      /\ CopiesStarted(s.art, s.regions)
  BY DEF Sync, registry
<1>. HIDE DEF s, got
<1>6. /\ Answered(s, got) \in SessionType /\ Answered(s, got).pc = "record" /\ SameWork(s, Answered(s, got))
      /\ Answered(s, got).regions = s.regions /\ Answered(s, got).got = got
  BY <1>1, <1>3, AnsweredFields
<1>7. Moves(p, "record") /\ session'[p] = Answered(s, got)
  BY <1>4, <1>6, Moved
<1>8. Grow(s.art, s.regions)
  BY <1>1, <1>5, Grown
<1>9. events' \in {events, events + 1} /\ (events' # events => events < MaxEvents)
  BY <1>2 DEF Event
<1>. QED BY <1>1, <1>2, <1>3, <1>5, <1>6, <1>7, <1>8, <1>9 DEF Keeps, s

LEMMA SyncLostEffect ==
    ASSUME TypeOK, NEW p \in Procs, SyncLost(p)
    PROVE  /\ UNCHANGED <<active, replica, shares, dropped, granted, job, session, rec, overrun, raced>>
           /\ session[p].pc = "sync" /\ Grow(session[p].art, session[p].regions)
           /\ events' = events + 1 /\ events < MaxEvents
           /\ Forget({<<session[p].art, r, Newest(session[p].art, r)>> : r \in session[p].regions})
<1>1. /\ session[p].art \in Artifacts /\ session[p].regions \in SUBSET Regions /\ session[p].pc = "sync"
  BY Here, SessionParts DEF SyncLost, At
<1>. QED BY <1>1, Grown DEF SyncLost, Event, registry

LEMMA SyncRefusedEffect ==
    ASSUME TypeOK, NEW p \in Procs, SyncRefused(p)
    PROVE  /\ UNCHANGED <<active, replica, shares, dropped, copies, granted, job, rec, events, overrun, raced, forgotten>>
           /\ session[p].pc = "sync" /\ Keeps(p) /\ Moves(p, "finish") /\ ~session'[p].ok
<1>. DEFINE s == Concluded(session[p], FALSE)
<1>1. s \in SessionType /\ s.pc = "finish" /\ SameWork(session[p], s) /\ ~s.ok
  BY Here, ConcludedFields
<1>2. Become(p, s) /\ session[p].pc = "sync"
      /\ UNCHANGED <<active, replica, shares, dropped, copies, granted, job, rec, events, overrun, raced, forgotten>>
  BY DEF SyncRefused, At, registry, cloud, history
<1>. HIDE DEF s
<1>. QED BY <1>1, <1>2, Moved DEF Keeps

(* The replica of a in r becomes x, and no other changes. *)
Sets(a, r, x) ==
    /\ replica' \in [Artifacts -> [Regions -> ReplicaType]]
    /\ replica'[a][r] = x
    /\ \A b \in Artifacts, q \in Regions : b # a \/ q # r => replica'[b][q] = replica[b][q]

LEMMA Stored ==
    ASSUME TypeOK, NEW a \in Artifacts, NEW r \in Regions, NEW x \in ReplicaType, SetReplica(a, r, x)
    PROVE  Sets(a, r, x)
<1>1. replica \in [Artifacts -> [Regions -> ReplicaType]]
  BY DEF TypeOK
<1>2. replica' = [replica EXCEPT ![a] = [replica[a] EXCEPT ![r] = x]]
  BY DEF SetReplica
<1>3. [replica[a] EXCEPT ![r] = x] \in [Regions -> ReplicaType]
  BY <1>1
<1>. QED BY <1>1, <1>2, <1>3 DEF Sets

LEMMA RecordEffect ==
    ASSUME TypeOK, NEW p \in Procs, NEW r \in Regions, Record(p, r)
    PROVE  /\ UNCHANGED <<active, shares, dropped, copies, granted, job, rec, events, overrun, raced>>
           /\ session[p].pc = "record" /\ Keeps(p) /\ r \in session[p].regions
           /\ \/ /\ Sets(session[p].art, r, Replica("pending", session[p].got[r], FALSE))
                 /\ IF replica[session[p].art][r].status = "failed"
                    THEN Forget(Superseded(session[p].art, r)) ELSE UNCHANGED forgotten
                 /\ \/ session[p].regions = {r} /\ Moves(p, "finish")
                    \/ /\ Moves(p, "record") /\ session'[p].regions = session[p].regions \ {r}
                       /\ session[p].regions # {r} /\ session'[p].got = session[p].got
              \/ /\ replica' = replica /\ Forget(InHand(p)) /\ Moves(p, "finish") /\ ~session'[p].ok
<1>. DEFINE s == session[p]
            x == Replica("pending", s.got[r], FALSE)
<1>1. s \in SessionType /\ s.art \in Artifacts /\ s.pc = "record" /\ r \in s.regions
  BY Here DEF Record, At
<1>2. x \in ReplicaType
  <2>1. s.got[r] \in Nat
    BY <1>1, SessionParts
  <2>. QED BY <2>1 DEF Replica, ReplicaType
<1>3. UNCHANGED <<active, shares, dropped, copies, granted, job, rec, events, overrun, raced>>
  BY DEF Record, cloud
<1>4. \/ /\ SetReplica(s.art, r, x)
         /\ IF replica[s.art][r].status = "failed"
            THEN Forget(Superseded(s.art, r)) ELSE UNCHANGED forgotten
         /\ Become(p, IF s.regions = {r} THEN Concluded(s, TRUE) ELSE Without(s, r))
      \/ replica' = replica /\ Forget(InHand(p)) /\ Become(p, Concluded(s, FALSE))
  BY DEF Record
<1>. HIDE DEF s, x
<1>5. \A ok \in BOOLEAN : /\ Concluded(s, ok) \in SessionType /\ Concluded(s, ok).pc = "finish"
                          /\ SameWork(s, Concluded(s, ok)) /\ Concluded(s, ok).ok = ok
  BY <1>1, ConcludedFields
<1>6. /\ Without(s, r) \in SessionType /\ Without(s, r).pc = "record" /\ SameWork(s, Without(s, r))
      /\ Without(s, r).regions = s.regions \ {r} /\ Without(s, r).got = s.got
  BY <1>1, WithoutFields
<1>7. CASE /\ SetReplica(s.art, r, x)
           /\ IF replica[s.art][r].status = "failed"
              THEN Forget(Superseded(s.art, r)) ELSE UNCHANGED forgotten
           /\ Become(p, IF s.regions = {r} THEN Concluded(s, TRUE) ELSE Without(s, r))
  <2>1. Sets(s.art, r, x)
    BY <1>1, <1>2, <1>7, Stored
  <2>2. CASE s.regions = {r}
    <3>1. Moves(p, "finish") /\ session'[p] = Concluded(s, TRUE)
      BY <1>5, <1>7, <2>2, Moved
    <3>. QED BY <1>1, <1>3, <1>5, <1>7, <2>1, <2>2, <3>1 DEF Keeps, s, x
  <2>3. CASE s.regions # {r}
    <3>1. Moves(p, "record") /\ session'[p] = Without(s, r)
      BY <1>6, <1>7, <2>3, Moved
    <3>. QED BY <1>1, <1>3, <1>6, <1>7, <2>1, <2>3, <3>1 DEF Keeps, s, x
  <2>. QED BY <2>2, <2>3
<1>8. CASE replica' = replica /\ Forget(InHand(p)) /\ Become(p, Concluded(s, FALSE))
  <2>1. Moves(p, "finish") /\ session'[p] = Concluded(s, FALSE)
    BY <1>5, <1>8, Moved
  <2>. QED BY <1>1, <1>3, <1>5, <1>8, <2>1 DEF Keeps, s
<1>. QED BY <1>4, <1>7, <1>8

LEMMA ShareEffect ==
    ASSUME TypeOK, NEW p \in Procs, Share(p)
    PROVE  /\ UNCHANGED <<active, replica, shares, dropped, copies, job, rec, events, overrun, raced, forgotten>>
           /\ session[p].pc = "share" /\ Keeps(p)
           /\ \/ /\ Moves(p, "record-share")
                 /\ granted' = granted \cup {<<session[p].art, session[p].job.account>>}
              \/ Moves(p, "finish") /\ ~session'[p].ok /\ granted' = granted
<1>. DEFINE s == session[p]
<1>1. s \in SessionType /\ s.pc = "share" /\ "record-share" \in Phases
  BY Here DEF Share, At, Phases, Sharing
<1>2. /\ UNCHANGED <<active, replica, shares, dropped, copies, job, rec, events, overrun, raced, forgotten>>
      /\ \/ Become(p, To(s, "record-share")) /\ granted' = granted \cup {<<s.art, s.job.account>>}
         \/ Become(p, Concluded(s, FALSE)) /\ granted' = granted
  BY DEF Share, registry, history
<1>. HIDE DEF s
<1>3. To(s, "record-share") \in SessionType /\ To(s, "record-share").pc = "record-share"
      /\ SameWork(s, To(s, "record-share"))
  BY <1>1, ToFields
<1>4. Concluded(s, FALSE) \in SessionType /\ Concluded(s, FALSE).pc = "finish"
      /\ SameWork(s, Concluded(s, FALSE)) /\ ~Concluded(s, FALSE).ok
  BY <1>1, ConcludedFields
<1>5. CASE Become(p, To(s, "record-share")) /\ granted' = granted \cup {<<s.art, s.job.account>>}
  BY <1>1, <1>2, <1>3, <1>5, Moved DEF Keeps, s
<1>6. CASE Become(p, Concluded(s, FALSE)) /\ granted' = granted
  BY <1>1, <1>2, <1>4, <1>6, Moved DEF Keeps, s
<1>. QED BY <1>2, <1>5, <1>6

LEMMA RecordShareEffect ==
    ASSUME TypeOK, NEW p \in Procs, RecordShare(p)
    PROVE  /\ UNCHANGED <<active, replica, copies, granted, job, rec, events, overrun, raced, forgotten>>
           /\ session[p].pc = "record-share" /\ Keeps(p) /\ Moves(p, "finish")
           /\ shares' = shares \cup {<<session[p].art, session[p].job.account>>}
           /\ dropped' = dropped \ {<<session[p].art, session[p].job.account>>}
<1>1. Concluded(session[p], TRUE) \in SessionType /\ Concluded(session[p], TRUE).pc = "finish"
      /\ SameWork(session[p], Concluded(session[p], TRUE))
  BY Here, ConcludedFields
<1>2. /\ UNCHANGED <<active, replica, copies, granted, job, rec, events, overrun, raced, forgotten>>
      /\ session[p].pc = "record-share" /\ Become(p, Concluded(session[p], TRUE))
      /\ shares' = shares \cup {<<session[p].art, session[p].job.account>>}
      /\ dropped' = dropped \ {<<session[p].art, session[p].job.account>>}
  BY DEF RecordShare, At, cloud, history
<1>. QED BY <1>1, <1>2, Moved DEF Keeps

LEMMA RaiseEffect ==
    ASSUME TypeOK, NEW p \in Procs, Raise(p)
    PROVE  /\ UNCHANGED <<active, replica, shares, dropped, copies, granted, job, rec, overrun, raced>>
           /\ session[p].pc \in Serving \cup Sharing /\ Keeps(p) /\ Moves(p, "finish")
           /\ ~session'[p].ok /\ Forget(InHand(p)) /\ events' = events + 1 /\ events < MaxEvents
<1>1. Concluded(session[p], FALSE) \in SessionType /\ Concluded(session[p], FALSE).pc = "finish"
      /\ SameWork(session[p], Concluded(session[p], FALSE)) /\ ~Concluded(session[p], FALSE).ok
  BY Here, ConcludedFields
<1>2. /\ UNCHANGED <<active, replica, shares, dropped, copies, granted, job, rec, overrun, raced>>
      /\ session[p].pc \in Serving \cup Sharing /\ Become(p, Concluded(session[p], FALSE))
      /\ Forget(InHand(p)) /\ events' = events + 1 /\ events < MaxEvents
  BY DEF Raise, registry, cloud, Event, Serving, Sharing
<1>. QED BY <1>1, <1>2, Moved DEF Keeps

LEMMA DiesEffect ==
    ASSUME TypeOK, NEW p \in Procs, Dies(p)
    PROVE  /\ UNCHANGED <<active, replica, shares, dropped, copies, granted, job, rec, overrun, raced>>
           /\ session[p].pc # "idle" /\ Moves(p, "idle") /\ session'[p] = NoSession
           /\ Forget(InHand(p)) /\ events' = events + 1 /\ events < MaxEvents
<1>1. /\ UNCHANGED <<active, replica, shares, dropped, copies, granted, job, rec, overrun, raced>>
      /\ session[p].pc # "idle" /\ Become(p, NoSession)
      /\ Forget(InHand(p)) /\ events' = events + 1 /\ events < MaxEvents
  BY DEF Dies, registry, cloud, Event, At
<1>. QED BY <1>1, NoSessionFields, Moved

LEMMA ExecuteEffect ==
    ASSUME TypeOK, NEW p \in Operators
    PROVE  /\ \A a \in Artifacts, R \in SUBSET Regions : Execute(p, a, R) =>
                /\ UNCHANGED <<active, replica, shares, dropped, copies, granted, job, rec, overrun, raced, forgotten>>
                /\ session[p].pc = "idle" /\ Moves(p, "plan") /\ session'[p].art \in Artifacts
                /\ events' = events + 1 /\ events < MaxEvents
           /\ ExecuteEnds(p) =>
                /\ UNCHANGED <<active, replica, shares, dropped, copies, granted, job, rec, events, overrun, raced, forgotten>>
                /\ session[p].pc = "finish" /\ Moves(p, "idle")
<1>0. p \in Procs
  BY DEF Procs
<1>1. ASSUME NEW a \in Artifacts, NEW R \in SUBSET Regions, Execute(p, a, R)
      PROVE  /\ UNCHANGED <<active, replica, shares, dropped, copies, granted, job, rec, overrun, raced, forgotten>>
             /\ session[p].pc = "idle" /\ Moves(p, "plan") /\ session'[p].art \in Artifacts
             /\ events' = events + 1 /\ events < MaxEvents
  <2>. DEFINE s == Session("plan", NoJob, 0, a, R)
  <2>1. "plan" \in Phases /\ NoJob \in AnyJob /\ 0 \in Nat /\ a \in Nat
    BY DEF Phases, Serving, AnyJob, Artifacts
  <2>2. s \in SessionType /\ s.pc = "plan" /\ s.art = a
    BY <2>1, SessionFields
  <2>3. /\ UNCHANGED <<active, replica, shares, dropped, copies, granted, job, rec, overrun, raced, forgotten>>
        /\ session[p].pc = "idle" /\ Become(p, s) /\ events' = events + 1 /\ events < MaxEvents
    BY <1>1 DEF Execute, registry, cloud, history, Event, At
  <2>. HIDE DEF s
  <2>. QED BY <1>0, <2>2, <2>3, Moved
<1>2. ASSUME ExecuteEnds(p)
      PROVE  /\ UNCHANGED <<active, replica, shares, dropped, copies, granted, job, rec, events, overrun, raced, forgotten>>
             /\ session[p].pc = "finish" /\ Moves(p, "idle")
  <2>1. /\ UNCHANGED <<active, replica, shares, dropped, copies, granted, job, rec, events, overrun, raced, forgotten>>
        /\ session[p].pc = "finish" /\ Become(p, NoSession)
    BY <1>2 DEF ExecuteEnds, registry, cloud, history, At
  <2>. QED BY <1>0, <2>1, NoSessionFields, Moved
<1>. QED BY <1>1, <1>2

-----------------------------------------------------------------------------
(* What each step does to the table. *)

(* A row names a worker exactly when it is running. *)
Rows(rows) ==
    /\ rows \in [Jobs -> RowType]
    /\ \A j \in Jobs : rows[j].status = "running" <=> rows[j].owner \in Workers

Puts(j, x) == /\ Rows(job') /\ job'[j] = x
              /\ \A i \in Jobs \ {j} : job'[i] = job[i]

LEMMA Put ==
    ASSUME TypeOK, NEW j \in Jobs, NEW x \in RowType, job' = [job EXCEPT ![j] = x],
           x.status = "running" <=> x.owner \in Workers
    PROVE  Puts(j, x)
  BY DEF TypeOK, Puts, Rows

LEMMA EnqueueEffect ==
    ASSUME TypeOK, NEW j \in Jobs, Enqueue(j)
    PROVE  /\ UNCHANGED <<active, replica, shares, dropped, copies, granted, session, rec, events, overrun, raced, forgotten>>
           /\ job[j].status = "absent" /\ Puts(j, JobRow("queued", NoWorker, "queued", 0, NoWorker))
<1>. DEFINE x == JobRow("queued", NoWorker, "queued", 0, NoWorker)
<1>1. "queued" \in Statuses /\ NoWorker \in AnyWorker /\ NoWorker \notin Workers
  BY DistributionAssumption DEF Statuses, AnyWorker
<1>2. x \in RowType /\ x.status = "queued" /\ x.owner = NoWorker
  BY <1>1, JobRowFields
<1>3. job' = [job EXCEPT ![j] = x] /\ job[j].status = "absent"
      /\ UNCHANGED <<active, replica, shares, dropped, copies, granted, session, rec, events, overrun, raced, forgotten>>
  BY DEF Enqueue, registry, cloud, history
<1>. HIDE DEF x
<1>4. Puts(j, x)
  BY <1>1, <1>2, <1>3, Put
<1>. QED BY <1>3, <1>4 DEF x

LEMMA SweptFields ==
    ASSUME TypeOK, NEW j \in Jobs
    PROVE  LET x == Swept(j)
           IN /\ x \in RowType /\ (x.status = "running" <=> x.owner \in Workers)
              /\ x.dstatus = job[j].dstatus /\ x.attempt = job[j].attempt /\ x.last = job[j].last
              /\ \/ x = job[j] /\ ~(job[j].status = "running" /\ job[j].due)
                 \/ /\ job[j].status = "running" /\ job[j].due /\ x.status = "queued"
                    /\ x.owner = NoWorker /\ ~x.due
<1>1. job[j] \in RowType /\ (job[j].status = "running" <=> job[j].owner \in Workers)
  BY DEF TypeOK
<1>. QED BY <1>1, DistributionAssumption DEF Swept, RowType, Statuses

LEMMA ClaimEffect ==
    ASSUME TypeOK, NEW w \in Workers, NEW j \in Jobs, Claim(w, j)
    PROVE  /\ UNCHANGED <<active, replica, shares, dropped, copies, granted, rec, events, overrun, raced, forgotten>>
           /\ session[w].pc = "idle" /\ session'[w].job = j /\ session'[w].attempt = job[j].attempt + 1
           /\ session'[w].art = j.art /\ session'[w].regions = {j.region}
           /\ Moves(w, IF j.mode = "sync" THEN "plan" ELSE "share")
           /\ Swept(j).status = "queued" /\ Quotas([i \in Jobs |-> Swept(i)], j) /\ Rows(job')
           /\ job'[j] = JobRow("running", w, "running", job[j].attempt + 1, w)
           /\ \A i \in Jobs \ {j} : job'[i] = Swept(i)
<1>. DEFINE rows == [i \in Jobs |-> Swept(i)]
            n == job[j].attempt + 1
            f == IF j.mode = "sync" THEN "plan" ELSE "share"
            s == Session(f, j, n, j.art, {j.region})
            x == JobRow("running", w, "running", n, w)
<1>1. /\ job[j].attempt \in Nat /\ rows[j].attempt = job[j].attempt
      /\ w \in Procs /\ w \in AnyWorker /\ "running" \in Statuses
  BY SweptFields DEF TypeOK, RowType, Procs, AnyWorker, Statuses
<1>2. n \in Nat /\ j.art \in Nat /\ {j.region} \in SUBSET Regions /\ f \in Phases /\ j \in AnyJob
  BY <1>1, DistributionAssumption DEF Artifacts, Phases, Serving, Sharing, AnyJob
<1>3. /\ session[w].pc = "idle" /\ Claimable(rows, j) /\ job' = [rows EXCEPT ![j] = x] /\ Become(w, s)
      /\ UNCHANGED <<active, replica, shares, dropped, copies, granted, rec, events, overrun, raced, forgotten>>
  BY <1>1 DEF Claim, At, registry, cloud, history
<1>. HIDE DEF n, f
<1>4. s \in SessionType /\ s.pc = f /\ s.job = j /\ s.attempt = n /\ s.art = j.art /\ s.regions = {j.region}
  BY <1>2, SessionFields
<1>5. x \in RowType /\ x.status = "running" /\ x.owner = w
  BY <1>1, <1>2, JobRowFields
<1>. HIDE DEF s, x
<1>6. /\ Moves(w, f) /\ session'[w].job = j /\ session'[w].attempt = n
      /\ session'[w].art = j.art /\ session'[w].regions = {j.region}
  BY <1>1, <1>3, <1>4, Moved
<1>7. job'[j] = x /\ \A i \in Jobs \ {j} : job'[i] = Swept(i)
  BY <1>3
<1>8. Rows(job')
  <2>1. job' \in [Jobs -> RowType]
    BY <1>3, <1>5, SweptFields
  <2>. QED BY <1>5, <1>7, <2>1, SweptFields DEF Rows
<1>9. Swept(j).status = "queued" /\ Quotas(rows, j)
  BY <1>3 DEF Claimable
<1>. QED BY <1>3, <1>6, <1>7, <1>8, <1>9 DEF n, f, x

LEMMA FinishEffect ==
    ASSUME TypeOK, NEW w \in Workers, Finish(w)
    PROVE  /\ UNCHANGED <<active, replica, shares, dropped, copies, granted, rec, events, overrun, raced, forgotten>>
           /\ session[w].pc = "finish" /\ Moves(w, "idle") /\ session[w].job \in Jobs
           /\ job[session[w].job].owner = w
           /\ \E status \in {"succeeded", "dead_letter", "queued"} :
                 /\ status = "succeeded" => session[w].ok
                 /\ status = "dead_letter" => session[w].attempt >= MaxAttempts
                 /\ status = "queued" => session[w].attempt < MaxAttempts
                 /\ Puts(session[w].job, JobRow(status, NoWorker, status, session[w].attempt, w))
<1>. DEFINE s == session[w]
            st == IF s.ok THEN "succeeded" ELSE IF Exhausted(s.attempt) THEN "dead_letter" ELSE "queued"
            x == JobRow(st, NoWorker, st, s.attempt, w)
<1>0. w \in Procs
  BY DEF Procs
<1>1. s.pc = "finish" /\ s \in SessionType /\ s.job \in Jobs /\ s.attempt \in Nat
  BY <1>0, Here, SessionParts DEF Finish, At
<1>2. /\ UNCHANGED <<active, replica, shares, dropped, copies, granted, rec, events, overrun, raced, forgotten>>
      /\ job[s.job].owner = w /\ Become(w, NoSession) /\ job' = [job EXCEPT ![s.job] = x]
  BY DEF Finish, At, Owned, registry, cloud, history
<1>3. /\ st \in {"succeeded", "dead_letter", "queued"} /\ (st = "succeeded" => s.ok)
      /\ (st = "dead_letter" => s.attempt >= MaxAttempts) /\ (st = "queued" => s.attempt < MaxAttempts)
  BY <1>1, DistributionAssumption DEF Exhausted
<1>. HIDE DEF s, st
<1>4. st \in Statuses /\ NoWorker \in AnyWorker /\ w \in AnyWorker /\ NoWorker \notin Workers /\ st # "running"
  BY <1>3, DistributionAssumption DEF Statuses, Settled, AnyWorker
<1>5. x \in RowType /\ x.status = st /\ x.owner = NoWorker
  BY <1>1, <1>4, JobRowFields
<1>. HIDE DEF x
<1>6. Puts(s.job, x)
  BY <1>1, <1>2, <1>4, <1>5, Put
<1>7. Moves(w, "idle")
  BY <1>0, <1>2, NoSessionFields, Moved
<1>. QED BY <1>1, <1>2, <1>3, <1>6, <1>7 DEF s, x

LEMMA RefusedEffect ==
    ASSUME TypeOK, NEW w \in Workers, Refused(w)
    PROVE  /\ UNCHANGED <<active, replica, shares, dropped, copies, granted, job, rec, events, overrun, raced, forgotten>>
           /\ session[w].pc = "finish" /\ Moves(w, "idle")
<1>1. w \in Procs /\ Become(w, NoSession) /\ session[w].pc = "finish"
      /\ UNCHANGED <<active, replica, shares, dropped, copies, granted, job, rec, events, overrun, raced, forgotten>>
  BY DEF Refused, At, Procs, registry, cloud, history
<1>. QED BY <1>1, NoSessionFields, Moved

LEMMA LeaseEndsEffect ==
    ASSUME TypeOK, NEW j \in Jobs, LeaseEnds(j)
    PROVE  /\ UNCHANGED <<active, replica, shares, dropped, copies, granted, session, rec, raced, forgotten>>
           /\ job[j].status = "running" /\ job[j].owner \in Workers
           /\ Puts(j, [job[j] EXCEPT !.due = TRUE])
           /\ \/ session[job[j].owner].job # j /\ UNCHANGED <<events, overrun>>
              \/ events' = events + 1 /\ events < MaxEvents /\ overrun' = TRUE
<1>. DEFINE x == [job[j] EXCEPT !.due = TRUE]
<1>1. /\ job[j].status = "running" /\ job[j].owner \in Workers /\ job[j] \in RowType
      /\ job \in [Jobs -> RowType]
  BY DEF LeaseEnds, TypeOK
<1>2. x \in RowType /\ x.status = job[j].status /\ x.owner = job[j].owner
  BY <1>1 DEF RowType
<1>3. job' = [job EXCEPT ![j] = x]
  BY <1>1 DEF LeaseEnds
<1>. HIDE DEF x
<1>4. Puts(j, x)
  BY <1>1, <1>2, <1>3, Put
<1>. QED BY <1>1, <1>4 DEF LeaseEnds, Event, registry, cloud, x

-----------------------------------------------------------------------------
(* What each step of a reconciler and of the environment does. *)

Turns(c, f) == /\ rec' \in [Reconcilers -> CycleType] /\ rec'[c].pc = f
               /\ \A d \in Reconcilers \ {c} : rec'[d] = rec[d]

LEMMA Turned ==
    ASSUME TypeOK, NEW c \in Reconcilers, NEW k \in CycleType, Step(c, k)
    PROVE  Turns(c, k.pc) /\ rec'[c] = k
  BY DEF TypeOK, Step, Turns

LEMMA RestEffect ==
    ASSUME TypeOK, NEW c \in Reconcilers, Step(c, NoCycle)
    PROVE  Turns(c, "idle")
  BY NoCycleFields, Turned

LEMMA There ==
    ASSUME TypeOK, NEW c \in Reconcilers
    PROVE  /\ rec[c] \in CycleType
           /\ rec[c].pc \in {"inspect", "write"} => rec[c].art \in Artifacts
  BY DEF TypeOK

(* Steps of a reconciler between two artifacts, and its ends. *)
LEMMA BetweenEffect ==
    ASSUME TypeOK, NEW c \in Reconcilers,
           \/ StartCycle(c) \/ CycleEnds(c) \/ CycleFails(c)
           \/ \E a \in Artifacts : ReconcileOne(c, a)
    PROVE  /\ UNCHANGED <<active, replica, shares, dropped, copies, granted, job, session, overrun, raced, forgotten>>
           /\ Turns(c, "next") \/ Turns(c, "idle")
           /\ events' = events \/ (events' = events + 1 /\ events < MaxEvents)
<1>1. \A todo \in SUBSET Artifacts : Cycle("next", todo, 0, {}, NothingSeen) \in CycleType
                                     /\ Cycle("next", todo, 0, {}, NothingSeen).pc = "next"
  <2>1. NothingSeen \in [Regions -> ReplicaType]
    BY MissingFields DEF NothingSeen
  <2>2. {} \in SUBSET Regions /\ 0 \in Nat
    OBVIOUS
  <2>. QED BY <2>1, <2>2, CycleFields
<1>2. /\ UNCHANGED <<active, replica, shares, dropped, copies, granted, job, session, overrun, raced, forgotten>>
      /\ events' = events \/ (events' = events + 1 /\ events < MaxEvents)
      /\ \/ \E todo \in SUBSET Artifacts : Step(c, Cycle("next", todo, 0, {}, NothingSeen))
         \/ Step(c, NoCycle)
  BY DEF StartCycle, CycleEnds, CycleFails, ReconcileOne, registry, cloud, history, Event
<1>3. CASE Step(c, NoCycle)
  BY <1>2, <1>3, RestEffect
<1>4. ASSUME NEW todo \in SUBSET Artifacts, Step(c, Cycle("next", todo, 0, {}, NothingSeen))
      PROVE  Turns(c, "next")
  BY <1>1, <1>4, Turned
<1>. QED BY <1>2, <1>3, <1>4

LEMMA FirstIn ==
    ASSUME NEW S \in SUBSET Artifacts, S # {}
    PROVE  First(S) \in S
<1>1. S \in SUBSET Nat
  BY DEF Artifacts
<1>. DEFINE less == OpToRel(<, Nat)
<1>2. PICK m \in S : \A k \in S : ~ (<<k, m>> \in less)
  <2>1. IsWellFoundedOn(less, Nat)
    BY NatLessThanWellFounded
  <2>. HIDE DEF less
  <2>. QED BY <1>1, <2>1, WFMin
<1>3. \A k, n \in Nat : k < n => <<k, n>> \in less
  BY DEF OpToRel
<1>. HIDE DEF less
<1>4. ASSUME NEW k \in S PROVE m <= k
  <2>1. k \in Nat /\ m \in Nat
    BY <1>1, <1>2
  <2>2. <<k, m>> \notin less
    BY <1>2
  <2>3. ~ (k < m)
    BY <1>3, <2>1, <2>2
  <2>. QED BY <2>1, <2>3
<1>. QED BY <1>4 DEF First


(* A reconciler goes through replicas that were pending when it read them. *)
SeenInv ==
    \A c \in Reconcilers :
        /\ rec[c].pc = "inspect" => \A r \in rec[c].regions : rec[c].seen[r].status = "pending"
        /\ rec[c].pc = "write" =>
              /\ rec[c].cur \in rec[c].regions
              /\ \A r \in rec[c].regions \ {rec[c].cur} : rec[c].seen[r].status = "pending"
              /\ rec[c].seen[rec[c].cur].status \in {"pending", "ready", "failed"}

LEMMA LoadEffect ==
    ASSUME TypeOK, NEW c \in Reconcilers, Load(c)
    PROVE  /\ UNCHANGED <<active, replica, shares, dropped, copies, granted, job, session, events, overrun, forgotten>>
           /\ rec[c].pc = "next"
           /\ \/ Turns(c, "idle") /\ raced' = raced
              \/ \E a \in Artifacts :
                    /\ Races(a, Pending(a)) /\ Pending(a) \in SUBSET Regions
                    /\ Pending(a) = {} => Turns(c, "next")
                    /\ Pending(a) # {} => /\ Turns(c, "inspect") /\ rec'[c].art = a
                                          /\ rec'[c].regions = Pending(a) /\ rec'[c].seen = replica[a]
<1>. DEFINE k == rec[c]
            a == First(k.todo)
            R == Pending(a)
            f == IF R = {} THEN "next" ELSE "inspect"
            new == Cycle(f, k.todo \ {a}, a, R, replica[a])
<1>1. k \in CycleType /\ k.pc = "next" /\ k.todo # {} /\ k.todo \in SUBSET Artifacts
  BY There, CycleParts DEF Load
<1>2. a \in Artifacts
  BY <1>1, FirstIn
<1>3. UNCHANGED <<active, replica, shares, dropped, copies, granted, job, session, events, overrun, forgotten>>
      /\ \/ Step(c, NoCycle) /\ raced' = raced
         \/ Step(c, new) /\ Races(a, R)
  BY DEF Load, registry, cloud
<1>. HIDE DEF k, a
<1>4. R \in SUBSET Regions /\ replica[a] \in [Regions -> ReplicaType] /\ a \in Nat
      /\ k.todo \ {a} \in SUBSET Artifacts /\ f \in {"idle", "next", "inspect", "write"}
  <2>1. replica[a] \in [Regions -> ReplicaType]
    BY <1>2 DEF TypeOK
  <2>2. R \in SUBSET Regions /\ a \in Nat
    BY <1>2 DEF Pending, Artifacts
  <2>. QED BY <1>1, <2>1, <2>2
<1>. HIDE DEF R, f
<1>5. new \in CycleType /\ new.pc = f /\ new.art = a /\ new.regions = R /\ new.seen = replica[a]
  BY <1>4, CycleFields
<1>. HIDE DEF new
<1>6. CASE Step(c, NoCycle) /\ raced' = raced
  BY <1>1, <1>3, <1>6, RestEffect DEF k
<1>7. CASE Step(c, new) /\ Races(a, R)
  <2>1. Turns(c, f) /\ rec'[c] = new
    BY <1>5, <1>7, Turned
  <2>2. R = {} => Turns(c, "next")
    BY <2>1 DEF f
  <2>3. R # {} => Turns(c, "inspect")
    BY <2>1 DEF f
  <2>. QED BY <1>1, <1>2, <1>3, <1>4, <1>5, <1>7, <2>1, <2>2, <2>3 DEF R, k
<1>. QED BY <1>3, <1>6, <1>7

LEMMA InspectEffect ==
    ASSUME TypeOK, NEW c \in Reconcilers, NEW r \in Regions, Inspect(c, r)
    PROVE  /\ UNCHANGED <<active, replica, shares, dropped, copies, granted, job, session, events, overrun, raced, forgotten>>
           /\ rec[c].pc = "inspect" /\ r \in rec[c].regions
           /\ \/ Turns(c, "idle")
              \/ /\ Turns(c, "write") /\ rec'[c].art = rec[c].art /\ rec'[c].regions = rec[c].regions
                 /\ rec'[c].cur = r /\ rec'[c].seen[r].copy = rec[c].seen[r].copy
                 /\ rec'[c].seen[r].status \in {"ready", "failed", "pending"}
                 /\ rec'[c].seen[r].status = "ready" =>
                       StateOf(rec[c].art, r, rec[c].seen[r].copy) = "normal"
                 /\ \A q \in Regions \ {r} : rec'[c].seen[q] = rec[c].seen[q]
<1>. DEFINE k == rec[c]
            x == k.seen[r]
            state == StateOf(k.art, r, x.copy)
            v == Verdict(x, state)
            y == Replica(v, x.copy, v # "ready" /\ x.late)
            new == [k EXCEPT !.pc = "write", !.cur = r, !.seen[r] = y]
<1>1. k \in CycleType /\ k.pc = "inspect" /\ r \in k.regions /\ x \in ReplicaType
      /\ k.seen \in [Regions -> ReplicaType]
  BY There, CycleParts DEF Inspect
<1>2. UNCHANGED <<active, replica, shares, dropped, copies, granted, job, session, events, overrun, raced, forgotten>>
      /\ (Step(c, NoCycle) \/ Step(c, new))
  BY DEF Inspect, registry, cloud, history
<1>3. v \in {"ready", "failed", "pending"} /\ (v = "ready" => state = "normal")
  BY DEF Verdict
<1>. HIDE DEF k, x, state, v
<1>4. y \in ReplicaType /\ y.status = v /\ y.copy = x.copy
  <2>1. x.copy \in Nat /\ x.late \in BOOLEAN
    BY <1>1, ReplicaParts
  <2>. DEFINE l == v # "ready" /\ x.late
  <2>2. l \in BOOLEAN /\ y = Replica(v, x.copy, l) /\ v \in {"none", "pending", "ready", "failed"}
    BY <1>3
  <2>. HIDE DEF y, l
  <2>. QED BY <2>1, <2>2, ReplicaFields
<1>. HIDE DEF y
<1>5. /\ new \in CycleType /\ new.pc = "write" /\ new.art = k.art /\ new.regions = k.regions
      /\ new.cur = r /\ new.seen[r] = y
      /\ \A q \in Regions \ {r} : new.seen[q] = k.seen[q]
  BY <1>1, <1>4 DEF CycleType
<1>. HIDE DEF new
<1>6. CASE Step(c, NoCycle)
  BY <1>1, <1>2, <1>6, RestEffect DEF k
<1>7. CASE Step(c, new)
  <2>1. Turns(c, "write") /\ rec'[c] = new
    BY <1>5, <1>7, Turned
  <2>. QED BY <1>1, <1>2, <1>3, <1>4, <1>5, <2>1 DEF k, x, state
<1>. QED BY <1>2, <1>6, <1>7

LEMMA WriteEffect ==
    ASSUME TypeOK, SeenInv, NEW c \in Reconcilers, Write(c)
    PROVE  /\ UNCHANGED <<active, shares, dropped, copies, granted, job, session, events, overrun, raced, forgotten>>
           /\ rec[c].pc = "write"
           /\ \/ replica' = replica /\ Turns(c, "idle")
              \/ /\ \E x \in ReplicaType :
                       /\ Sets(rec[c].art, rec[c].cur, x)
                       /\ x.status = rec[c].seen[rec[c].cur].status
                       /\ x.copy = rec[c].seen[rec[c].cur].copy
                 /\ \/ Turns(c, "next")
                    \/ /\ Turns(c, "inspect") /\ rec'[c].art = rec[c].art /\ rec'[c].seen = rec[c].seen
                       /\ rec'[c].regions = rec[c].regions \ {rec[c].cur}
<1>. DEFINE k == rec[c]
            r == k.cur
            R == k.regions \ {k.cur}
            f == IF R = {} THEN "next" ELSE "inspect"
            x == Aged(k.seen[r], replica[k.art][r])
            new == Cycle(f, k.todo, k.art, R, k.seen)
<1>1. /\ k \in CycleType /\ k.pc = "write" /\ r \in k.regions /\ k.art \in Artifacts
      /\ k.regions \in SUBSET Regions /\ k.seen \in [Regions -> ReplicaType] /\ k.todo \in SUBSET Artifacts
      /\ k.art \in Nat
  BY There, CycleParts DEF Write, SeenInv
<1>2. UNCHANGED <<active, shares, dropped, copies, granted, job, session, events, overrun, raced, forgotten>>
      /\ \/ replica' = replica /\ Step(c, NoCycle)
         \/ SetReplica(k.art, r, x) /\ Step(c, new)
  BY DEF Write, cloud, history
<1>. HIDE DEF k, r
<1>3. x \in ReplicaType /\ x.status = k.seen[r].status /\ x.copy = k.seen[r].copy
  <2>1. r \in Regions /\ replica[k.art][r] \in ReplicaType
    BY <1>1 DEF TypeOK
  <2>. QED BY <1>1, <2>1, AgedFields
<1>4. R \in SUBSET Regions /\ R = k.regions \ {r} /\ f \in {"idle", "next", "inspect", "write"}
  BY <1>1 DEF r, k
<1>. HIDE DEF x, R, f
<1>5. new \in CycleType /\ new.pc = f /\ new.art = k.art /\ new.regions = R /\ new.seen = k.seen
  BY <1>1, <1>4, CycleFields
<1>. HIDE DEF new
<1>6. CASE replica' = replica /\ Step(c, NoCycle)
  BY <1>1, <1>2, <1>6, RestEffect DEF k
<1>7. CASE SetReplica(k.art, r, x) /\ Step(c, new)
  <2>1. Turns(c, f) /\ rec'[c] = new
    BY <1>5, <1>7, Turned
  <2>2. Turns(c, "next") \/ Turns(c, "inspect")
    BY <2>1 DEF f
  <2>3. Sets(k.art, r, x)
    <3>1. r \in Regions
      BY <1>1
    <3>. QED BY <1>1, <1>3, <1>7, <3>1, Stored
  <2>. QED BY <1>1, <1>2, <1>3, <1>4, <1>5, <2>1, <2>2, <2>3 DEF k, r
<1>. QED BY <1>2, <1>6, <1>7


LEMMA RecordReplicaEffect ==
    ASSUME TypeOK, NEW a \in Artifacts, NEW r \in Regions, NEW n \in Nat, RecordReplica(a, r, n)
    PROVE  /\ UNCHANGED <<active, shares, dropped, copies, granted, job, session, rec, overrun>>
           /\ n \in 1 .. Len(copies[a][r]) /\ copies[a][r][n] = "normal"
           /\ replica[a][r].status # "ready"
           /\ Sets(a, r, Replica("ready", n, FALSE))
           /\ Forget(Superseded(a, r)) /\ Races(a, {r})
           /\ events' = events + 1 /\ events < MaxEvents
<1>1. Replica("ready", n, FALSE) \in ReplicaType
  BY ReplicaFields
<1>2. Sets(a, r, Replica("ready", n, FALSE))
  BY <1>1, Stored DEF RecordReplica
<1>. QED BY <1>2 DEF RecordReplica, Event, cloud

LEMMA LateEffect ==
    ASSUME TypeOK, NEW a \in Artifacts, NEW r \in Regions, Late(a, r)
    PROVE  /\ UNCHANGED <<active, shares, dropped, copies, granted, job, session, rec, events, overrun, raced, forgotten>>
           /\ replica[a][r].status = "pending"
           /\ \E x \in ReplicaType : /\ Sets(a, r, x) /\ x.status = replica[a][r].status
                                     /\ x.copy = replica[a][r].copy
<1>. DEFINE x == [replica[a][r] EXCEPT !.late = TRUE]
<1>1. replica[a][r] \in ReplicaType
  BY DEF TypeOK
<1>2. x \in ReplicaType /\ x.status = replica[a][r].status /\ x.copy = replica[a][r].copy
  BY <1>1 DEF ReplicaType
<1>3. /\ UNCHANGED <<active, shares, dropped, copies, granted, job, session, rec, events, overrun, raced, forgotten>>
      /\ replica[a][r].status = "pending" /\ SetReplica(a, r, x)
  BY DEF Late, cloud, history
<1>. HIDE DEF x
<1>. QED BY <1>2, <1>3, Stored

(* The copy n of a in r, which was under way, ends. *)
LEMMA CopyEffect ==
    ASSUME TypeOK, NEW a \in Artifacts, NEW r \in Regions, NEW n \in Nat,
           CopyDone(a, r, n) \/ CopyFails(a, r, n)
    PROVE  /\ UNCHANGED <<active, replica, shares, dropped, granted, job, session, rec, overrun, raced, forgotten>>
           /\ copies' \in [Artifacts -> [Regions -> Seq(CopyState)]]
           /\ \A b \in Artifacts, q \in Regions :
                 /\ Len(copies'[b][q]) = Len(copies[b][q])
                 /\ \A m \in 1 .. Len(copies[b][q]) :
                       copies[b][q][m] = "normal" => copies'[b][q][m] = "normal"
           /\ events' = events \/ (events' = events + 1 /\ events < MaxEvents)
<1>1. PICK state \in {"normal", "gone"} : CopyTurns(a, r, n, state)
  BY DEF CopyDone, CopyFails
<1>2. copies \in [Artifacts -> [Regions -> Seq(CopyState)]]
  BY DEF TypeOK
<1>. DEFINE old == copies[a][r]
            x == [old EXCEPT ![n] = state]
<1>3. old \in Seq(CopyState) /\ n \in 1 .. Len(old) /\ old[n] = "copying" /\ state \in CopyState
  BY <1>1, <1>2 DEF CopyTurns, CopyState
<1>4. copies' = [copies EXCEPT ![a] = [copies[a] EXCEPT ![r] = x]]
  BY <1>1 DEF CopyTurns
<1>. HIDE DEF old
<1>5. x \in Seq(CopyState) /\ Len(x) = Len(old)
      /\ \A m \in 1 .. Len(old) : x[m] = IF m = n THEN state ELSE old[m]
  BY <1>3, ExceptSeq
<1>. HIDE DEF x
<1>6. \A m \in 1 .. Len(old) : old[m] = "normal" => x[m] = "normal"
  BY <1>3, <1>5
<1>7. [copies[a] EXCEPT ![r] = x] \in [Regions -> Seq(CopyState)]
  BY <1>2, <1>5
<1>8. copies' \in [Artifacts -> [Regions -> Seq(CopyState)]]
  BY <1>2, <1>4, <1>7
<1>9. \A b \in Artifacts, q \in Regions :
         copies'[b][q] = IF b = a /\ q = r THEN x ELSE copies[b][q]
  BY <1>2, <1>4
<1>10. ASSUME NEW b \in Artifacts, NEW q \in Regions
       PROVE  /\ Len(copies'[b][q]) = Len(copies[b][q])
              /\ \A m \in 1 .. Len(copies[b][q]) :
                    copies[b][q][m] = "normal" => copies'[b][q][m] = "normal"
  <2>1. CASE b = a /\ q = r
    <3>1. copies'[b][q] = x /\ copies[b][q] = old
      BY <1>9, <2>1 DEF old
    <3>. QED BY <1>5, <1>6, <3>1
  <2>2. CASE ~(b = a /\ q = r)
    <3>1. copies'[b][q] = copies[b][q]
      BY <1>9, <2>2
    <3>. QED BY <3>1
  <2>. QED BY <2>1, <2>2
<1>. QED BY <1>1, <1>8, <1>10 DEF CopyTurns, CopyDone, CopyFails, Event, registry, history

LEMMA WithdrawEffect ==
    ASSUME TypeOK, NEW a \in Artifacts, Withdraw(a)
    PROVE  /\ UNCHANGED <<replica, shares, dropped, copies, granted, job, session, rec, overrun, raced, forgotten>>
           /\ active' \subseteq Artifacts /\ events' = events + 1 /\ events < MaxEvents
  BY DEF Withdraw, TypeOK, Event, cloud, history

LEMMA RegisterEffect ==
    ASSUME TypeOK, NEW a \in Artifacts, Register(a)
    PROVE  /\ UNCHANGED <<active, replica, copies, granted, job, session, rec, events, overrun, raced, forgotten>>
           /\ shares' \subseteq shares /\ shares' \cup dropped' = shares \cup dropped
  BY DEF Register, cloud, history


-----------------------------------------------------------------------------
(* The steps, one after the other. *)

LEMMA StepCases ==
    ASSUME [Next]_vars
    PROVE  \/ UNCHANGED vars
           \/ \E p \in Procs :
                 \/ Plan(p) \/ Sync(p) \/ SyncLost(p) \/ SyncRefused(p)
                 \/ (\E r \in Regions : Record(p, r))
                 \/ Share(p) \/ RecordShare(p) \/ Raise(p) \/ Dies(p)
           \/ \E p \in Operators :
                 ExecuteEnds(p) \/ \E a \in Artifacts, R \in SUBSET Regions \ {{}} : Execute(p, a, R)
           \/ \E w \in Workers : (\E j \in Jobs : Claim(w, j)) \/ Finish(w) \/ Refused(w)
           \/ \E j \in Jobs : Enqueue(j) \/ LeaseEnds(j)
           \/ \E c \in Reconcilers :
                 \/ StartCycle(c) \/ CycleEnds(c) \/ CycleFails(c)
                 \/ (\E a \in Artifacts : ReconcileOne(c, a))
                 \/ Load(c) \/ (\E r \in Regions : Inspect(c, r)) \/ Write(c)
           \/ \E a \in Artifacts : Withdraw(a) \/ Register(a)
           \/ \E a \in Artifacts, r \in Regions :
                 \/ Late(a, r)
                 \/ \E n \in Nat : CopyDone(a, r, n) \/ CopyFails(a, r, n) \/ RecordReplica(a, r, n)
<1>1. Workers \subseteq Procs /\ Operators \subseteq Procs
  BY DEF Procs
<1>2. \A n \in 1 .. MaxCopies : n \in Nat
  OBVIOUS
<1>3. CASE Environment
  BY <1>2, <1>3 DEF Environment
<1>4. ASSUME NEW w \in Workers, Work(w)
      PROVE  (\E j \in Jobs : Claim(w, j)) \/ Finish(w) \/ Refused(w) \/ Serve(w)
  BY <1>4 DEF Work
<1>5. ASSUME NEW p \in Procs, Serve(p)
      PROVE  \/ Plan(p) \/ Sync(p) \/ SyncRefused(p) \/ (\E r \in Regions : Record(p, r))
             \/ Share(p) \/ RecordShare(p)
  BY <1>5 DEF Serve
<1>6. ASSUME NEW c \in Reconcilers, Reconcile(c)
      PROVE  StartCycle(c) \/ CycleEnds(c) \/ Load(c) \/ (\E r \in Regions : Inspect(c, r)) \/ Write(c)
  BY <1>6 DEF Reconcile
<1>. QED BY <1>1, <1>3, <1>4, <1>5, <1>6 DEF Next

-----------------------------------------------------------------------------
(* Type correctness, part by part. *)

(* A command of an operator never shares an image. *)
SharersInv == \A p \in Procs : session[p].pc \in Sharing => p \in Workers

SessionOK == /\ session \in [Procs -> SessionType]
             /\ \A p \in Procs : ~At(p, "idle") => session[p].art \in Artifacts
             /\ \A w \in Workers : ~At(w, "idle") => session[w].job \in Jobs
RecOK     == /\ rec \in [Reconcilers -> CycleType]
             /\ \A c \in Reconcilers : rec[c].pc \in {"inspect", "write"} => rec[c].art \in Artifacts
ReplicaOK == replica \in [Artifacts -> [Regions -> ReplicaType]]
CopiesOK  == copies \in [Artifacts -> [Regions -> Seq(CopyState)]]
SharesOK  == shares \cup dropped \subseteq Artifacts \X Accounts /\ granted \subseteq Artifacts \X Accounts
EventsOK  == events \in 0 .. MaxEvents /\ overrun \in BOOLEAN
RacedOK   == raced \subseteq Artifacts \X Regions
ForgottenOK == forgotten \subseteq Artifacts \X Regions \X Nat

LEMMA TypeParts ==
    TypeOK <=> /\ active \subseteq Artifacts /\ ReplicaOK /\ SharesOK /\ CopiesOK /\ Rows(job)
               /\ SessionOK /\ RecOK /\ EventsOK /\ RacedOK /\ ForgottenOK
  BY DEF TypeOK, ReplicaOK, SharesOK, CopiesOK, Rows, SessionOK, RecOK, EventsOK, RacedOK, ForgottenOK

LEMMA MovesOK ==
    ASSUME TypeOK, NEW p \in Procs, NEW f, Moves(p, f),
           f # "idle" => /\ session'[p].art \in Artifacts
                         /\ p \in Workers => session'[p].job \in Jobs
    PROVE  SessionOK'
<1>1. \A q \in Procs : session'[q].pc # "idle" => session'[q].art \in Artifacts
  BY DEF TypeOK, Moves, At
<1>2. \A w \in Workers : session'[w].pc # "idle" => session'[w].job \in Jobs
  <2>1. TAKE w \in Workers
  <2>2. w \in Procs /\ (session[w].pc # "idle" => session[w].job \in Jobs)
    BY DEF Procs, TypeOK, At
  <2>3. CASE w = p
    BY <2>2, <2>3 DEF Moves
  <2>4. CASE w # p
    BY <2>2, <2>4 DEF Moves
  <2>. QED BY <2>3, <2>4
<1>. QED BY <1>1, <1>2 DEF SessionOK, Moves, At

LEMMA KeepsOK ==
    ASSUME TypeOK, NEW p \in Procs, NEW f, Moves(p, f), Keeps(p), session[p].pc # "idle"
    PROVE  SessionOK'
<1>1. session[p].art \in Artifacts /\ (p \in Workers => session[p].job \in Jobs)
  BY Here
<1>2. session'[p].art = session[p].art /\ session'[p].job = session[p].job
  BY DEF Keeps, SameWork
<1>. QED BY <1>1, <1>2, MovesOK

LEMMA TurnsOK ==
    ASSUME TypeOK, NEW c \in Reconcilers, NEW f, Turns(c, f),
           f \in {"inspect", "write"} => rec'[c].art \in Artifacts
    PROVE  RecOK'
  BY DEF TypeOK, Turns, RecOK

LEMMA InHandType ==
    ASSUME TypeOK, NEW p \in Procs
    PROVE  InHand(p) \in SUBSET (Artifacts \X Regions \X Nat)
<1>1. session[p] \in SessionType /\ (session[p].pc = "record" => session[p].art \in Artifacts)
  BY Here
<1>2. \A r \in session[p].regions : r \in Regions /\ session[p].got[r] \in Nat
  BY <1>1, SessionParts
<1>. QED BY <1>1, <1>2 DEF InHand, At

LEMMA SupersededType ==
    ASSUME TypeOK, NEW a \in Artifacts, NEW r \in Regions
    PROVE  Superseded(a, r) \in SUBSET (Artifacts \X Regions \X Nat)
<1>1. replica[a][r] \in ReplicaType
  BY DEF TypeOK
<1>2. replica[a][r].copy \in Nat
  BY <1>1, ReplicaParts
<1>. QED BY <1>2 DEF Superseded

LEMMA NewestTypes ==
    ASSUME TypeOK, NEW a \in Artifacts, NEW R \in SUBSET Regions
    PROVE  {<<a, r, Newest(a, r)>> : r \in R} \in SUBSET (Artifacts \X Regions \X Nat)
<1>1. \A r \in R : Newest(a, r) \in Nat
  BY NewestType
<1>. QED BY <1>1

LEMMA ForgetOK ==
    ASSUME TypeOK, NEW S \in SUBSET (Artifacts \X Regions \X Nat), Forget(S)
    PROVE  ForgottenOK'
  BY DEF TypeOK, Forget, ForgottenOK

LEMMA RacesOK ==
    ASSUME TypeOK, NEW a \in Artifacts, NEW R \in SUBSET Regions, Races(a, R)
    PROVE  RacedOK'
  BY DEF TypeOK, Races, RacedOK

LEMMA EventsStep ==
    ASSUME TypeOK, overrun' = overrun \/ overrun' = TRUE,
           events' = events \/ (events' = events + 1 /\ events < MaxEvents)
    PROVE  EventsOK'
<1>1. MaxEvents \in Nat
  BY DistributionAssumption
<1>2. events \in 0 .. MaxEvents /\ overrun \in BOOLEAN
  BY DEF TypeOK
<1>3. events' \in 0 .. MaxEvents
  BY <1>1, <1>2
<1>4. overrun' \in BOOLEAN
  BY <1>2
<1>. QED BY <1>3, <1>4 DEF EventsOK

LEMMA InitType == Init => TypeOK
<1>. SUFFICES ASSUME Init PROVE TypeOK
  OBVIOUS
<1>1. ReplicaOK
  BY MissingFields DEF Init, ReplicaOK
<1>2. CopiesOK
  <2>1. <<>> \in Seq(CopyState)
    BY EmptySeq
  <2>. QED BY <2>1 DEF Init, CopiesOK
<1>3. Rows(job)
  <2>. DEFINE x == JobRow("absent", NoWorker, "absent", 0, NoWorker)
  <2>1. "absent" \in Statuses /\ NoWorker \in AnyWorker /\ NoWorker \notin Workers /\ 0 \in Nat
    BY DistributionAssumption DEF Statuses, AnyWorker
  <2>2. x \in RowType /\ x.status = "absent" /\ x.owner = NoWorker
    BY <2>1, JobRowFields
  <2>3. job = [j \in Jobs |-> x]
    BY DEF Init
  <2>. HIDE DEF x
  <2>. QED BY <2>1, <2>2, <2>3 DEF Rows
<1>4. SessionOK
  BY NoSessionFields DEF Init, SessionOK, At, Procs
<1>5. RecOK
  BY NoCycleFields DEF Init, RecOK
<1>6. active \subseteq Artifacts /\ SharesOK /\ EventsOK /\ RacedOK /\ ForgottenOK
  <2>1. MaxEvents \in Nat
    BY DistributionAssumption
  <2>2. events \in 0 .. MaxEvents
    BY <2>1 DEF Init
  <2>. QED BY <2>2 DEF Init, SharesOK, EventsOK, RacedOK, ForgottenOK
<1>. QED BY <1>1, <1>2, <1>3, <1>4, <1>5, <1>6, TypeParts

LEMMA TypeStep ==
    ASSUME TypeOK, SeenInv, SharersInv, [Next]_vars
    PROVE  TypeOK'
<1>0. /\ active \subseteq Artifacts /\ ReplicaOK /\ SharesOK /\ CopiesOK /\ Rows(job)
      /\ SessionOK /\ RecOK /\ EventsOK /\ RacedOK /\ ForgottenOK
  BY TypeParts
<1>. DEFINE SameReplica == replica' = replica
            SameJob == job' = job
            SameSession == session' = session
<1>A. /\ replica' = replica => ReplicaOK'
      /\ shares' = shares /\ dropped' = dropped /\ granted' = granted => SharesOK'
      /\ copies' = copies => CopiesOK'
      /\ job' = job => Rows(job)'
      /\ session' = session => SessionOK'
      /\ rec' = rec => RecOK'
      /\ raced' = raced => RacedOK'
      /\ forgotten' = forgotten => ForgottenOK'
      /\ active' = active => active' \subseteq Artifacts
  BY <1>0 DEF ReplicaOK, SharesOK, CopiesOK, Rows, SessionOK, RecOK, RacedOK, ForgottenOK, At
<1>B. /\ overrun' = overrun \/ overrun' = TRUE
      /\ events' = events \/ (events' = events + 1 /\ events < MaxEvents)
      => EventsOK'
  BY EventsStep
<1>C. /\ active' \subseteq Artifacts /\ ReplicaOK' /\ SharesOK' /\ CopiesOK' /\ Rows(job)'
      /\ SessionOK' /\ RecOK' /\ EventsOK' /\ RacedOK' /\ ForgottenOK'
      => TypeOK'
  BY TypeParts DEF TypeOK, ReplicaOK, SharesOK, CopiesOK, Rows, SessionOK, RecOK, EventsOK, RacedOK, ForgottenOK
<1>D. /\ \A p \in Procs : session[p] \in SessionType /\ session[p].regions \in SUBSET Regions
      /\ Workers \subseteq Procs /\ Operators \subseteq Procs
  BY Here, SessionParts DEF Procs
<1>1. CASE UNCHANGED vars
  BY <1>1, <1>A, <1>B, <1>C DEF vars, registry, cloud, history
<1>2. ASSUME NEW p \in Procs, Plan(p) PROVE TypeOK'
  <2>1. session[p].art \in Artifacts /\ Wanted(session[p]) \in SUBSET Regions
    BY <1>2, <1>D, PlanEffect, Here DEF Wanted
  <2>2. SessionOK'
    BY <1>2, PlanEffect, KeepsOK
  <2>3. RacedOK'
    BY <1>2, <1>A, <2>1, PlanEffect, RacesOK
  <2>. QED BY <1>2, <1>A, <1>B, <1>C, <2>2, <2>3, PlanEffect
<1>3. ASSUME NEW p \in Procs, Sync(p) PROVE TypeOK'
  <2>1. session[p].art \in Artifacts /\ SessionOK'
    BY <1>3, SyncEffect, KeepsOK, Here
  <2>2. CopiesOK'
    BY <1>3, SyncEffect DEF Grow, CopiesOK
  <2>3. ForgottenOK'
    <3>1. PICK lost \in SUBSET session[p].regions :
             Forget({<<session[p].art, r, Newest(session[p].art, r)>> : r \in lost})
      BY <1>3, SyncEffect
    <3>2. lost \in SUBSET Regions
      BY <1>D
    <3>. QED BY <2>1, <3>1, <3>2, NewestTypes, ForgetOK
  <2>. QED BY <1>3, <1>A, <1>B, <1>C, <2>1, <2>2, <2>3, SyncEffect
<1>4. ASSUME NEW p \in Procs, SyncLost(p) PROVE TypeOK'
  <2>1. session[p].art \in Artifacts
    BY <1>4, SyncLostEffect, Here
  <2>2. CopiesOK'
    BY <1>4, SyncLostEffect DEF Grow, CopiesOK
  <2>3. ForgottenOK'
    BY <1>4, <1>D, <2>1, SyncLostEffect, NewestTypes, ForgetOK
  <2>. QED BY <1>4, <1>A, <1>B, <1>C, <2>2, <2>3, SyncLostEffect
<1>5. ASSUME NEW p \in Procs, SyncRefused(p) PROVE TypeOK'
  <2>1. SessionOK'
    BY <1>5, SyncRefusedEffect, KeepsOK
  <2>. QED BY <1>5, <1>A, <1>B, <1>C, <2>1, SyncRefusedEffect
<1>6. ASSUME NEW p \in Procs, NEW r \in Regions, Record(p, r) PROVE TypeOK'
  <2>1. session[p].art \in Artifacts /\ SessionOK'
    BY <1>6, RecordEffect, KeepsOK, Here
  <2>2. ReplicaOK'
    BY <1>6, <1>A, RecordEffect DEF Sets, ReplicaOK
  <2>3. ForgottenOK'
    <3>1. \/ forgotten' = forgotten \/ Forget(InHand(p)) \/ Forget(Superseded(session[p].art, r))
      BY <1>6, RecordEffect
    <3>. QED BY <1>A, <2>1, <3>1, InHandType, SupersededType, ForgetOK
  <2>. QED BY <1>6, <1>A, <1>B, <1>C, <2>1, <2>2, <2>3, RecordEffect
<1>7. ASSUME NEW p \in Procs, Share(p) PROVE TypeOK'
  <2>0. p \in Workers
    BY <1>7, ShareEffect DEF SharersInv, Sharing
  <2>1. session[p].art \in Artifacts /\ session[p].job \in Jobs /\ SessionOK'
    BY <1>7, <2>0, ShareEffect, KeepsOK, Here
  <2>2. SharesOK'
    BY <1>0, <1>7, <2>1, ShareEffect, DistributionAssumption DEF SharesOK
  <2>. QED BY <1>7, <1>A, <1>B, <1>C, <2>1, <2>2, ShareEffect
<1>8. ASSUME NEW p \in Procs, RecordShare(p) PROVE TypeOK'
  <2>0. p \in Workers
    BY <1>8, RecordShareEffect DEF SharersInv, Sharing
  <2>1. session[p].art \in Artifacts /\ session[p].job \in Jobs /\ SessionOK'
    BY <1>8, <2>0, RecordShareEffect, KeepsOK, Here
  <2>2. SharesOK'
    BY <1>0, <1>8, <2>1, RecordShareEffect, DistributionAssumption DEF SharesOK
  <2>. QED BY <1>8, <1>A, <1>B, <1>C, <2>1, <2>2, RecordShareEffect
<1>9. ASSUME NEW p \in Procs, Raise(p) \/ Dies(p) PROVE TypeOK'
  <2>1. CASE Raise(p)
    <3>1. SessionOK'
      BY <2>1, RaiseEffect, KeepsOK DEF Serving, Sharing
    <3>. QED BY <2>1, <3>1, <1>A, <1>B, <1>C, RaiseEffect, InHandType, ForgetOK
  <2>2. CASE Dies(p)
    <3>1. SessionOK'
      BY <2>2, DiesEffect, MovesOK
    <3>. QED BY <2>2, <3>1, <1>A, <1>B, <1>C, DiesEffect, InHandType, ForgetOK
  <2>. QED BY <1>9, <2>1, <2>2
<1>10. ASSUME NEW p \in Operators,
              ExecuteEnds(p) \/ \E a \in Artifacts, R \in SUBSET Regions \ {{}} : Execute(p, a, R)
       PROVE  TypeOK'
  <2>1. p \in Procs /\ p \notin Workers
    BY <1>D, DistributionAssumption
  <2>2. CASE ExecuteEnds(p)
    <3>1. SessionOK'
      BY <2>1, <2>2, ExecuteEffect, MovesOK
    <3>. QED BY <2>2, <3>1, <1>A, <1>B, <1>C, ExecuteEffect
  <2>3. ASSUME NEW a \in Artifacts, NEW R \in SUBSET Regions \ {{}}, Execute(p, a, R) PROVE TypeOK'
    <3>1. SessionOK'
      BY <2>1, <2>3, ExecuteEffect, MovesOK
    <3>. QED BY <2>3, <3>1, <1>A, <1>B, <1>C, ExecuteEffect
  <2>. QED BY <1>10, <2>2, <2>3
<1>11. ASSUME NEW w \in Workers, NEW j \in Jobs, Claim(w, j) PROVE TypeOK'
  <2>1. w \in Procs /\ j.art \in Artifacts
    BY <1>D, DistributionAssumption
  <2>2. SessionOK'
    <3>1. \E f : Moves(w, f) /\ session'[w].art \in Artifacts /\ session'[w].job \in Jobs
      BY <1>11, <2>1, ClaimEffect
    <3>. QED BY <2>1, <3>1, MovesOK
  <2>3. Rows(job)'
    BY <1>11, ClaimEffect DEF Rows
  <2>. QED BY <1>11, <1>A, <1>B, <1>C, <2>2, <2>3, ClaimEffect
<1>12. ASSUME NEW w \in Workers, Finish(w) \/ Refused(w) PROVE TypeOK'
  <2>1. CASE Finish(w)
    <3>1. SessionOK'
      BY <1>D, <2>1, FinishEffect, MovesOK
    <3>2. Rows(job)'
      BY <2>1, FinishEffect DEF Puts, Rows
    <3>. QED BY <2>1, <3>1, <3>2, <1>A, <1>B, <1>C, FinishEffect
  <2>2. CASE Refused(w)
    <3>1. SessionOK'
      BY <1>D, <2>2, RefusedEffect, MovesOK
    <3>. QED BY <2>2, <3>1, <1>A, <1>B, <1>C, RefusedEffect
  <2>. QED BY <1>12, <2>1, <2>2
<1>13. ASSUME NEW j \in Jobs, Enqueue(j) \/ LeaseEnds(j) PROVE TypeOK'
  <2>1. CASE Enqueue(j)
    <3>1. Rows(job)'
      BY <2>1, EnqueueEffect DEF Puts, Rows
    <3>. QED BY <2>1, <3>1, <1>A, <1>B, <1>C, EnqueueEffect
  <2>2. CASE LeaseEnds(j)
    <3>1. Rows(job)'
      BY <2>2, LeaseEndsEffect DEF Puts, Rows
    <3>2. EventsOK'
      BY <2>2, <1>B, LeaseEndsEffect
    <3>. QED BY <2>2, <3>1, <3>2, <1>A, <1>C, LeaseEndsEffect
  <2>. QED BY <1>13, <2>1, <2>2
<1>14. ASSUME NEW c \in Reconcilers,
              StartCycle(c) \/ CycleEnds(c) \/ CycleFails(c) \/ \E a \in Artifacts : ReconcileOne(c, a)
       PROVE  TypeOK'
  <2>1. RecOK'
    BY <1>14, BetweenEffect, TurnsOK
  <2>. QED BY <1>14, <2>1, <1>A, <1>B, <1>C, BetweenEffect
<1>15. ASSUME NEW c \in Reconcilers, Load(c) PROVE TypeOK'
  <2>1. RecOK' /\ RacedOK'
    <3>1. CASE Turns(c, "idle") /\ raced' = raced
      BY <1>A, <3>1, TurnsOK
    <3>2. ASSUME NEW a \in Artifacts, Races(a, Pending(a)), Pending(a) \in SUBSET Regions,
                 Turns(c, "next") \/ (Turns(c, "inspect") /\ rec'[c].art = a)
          PROVE  RecOK' /\ RacedOK'
      BY <3>2, TurnsOK, RacesOK
    <3>. QED BY <1>15, <3>1, <3>2, LoadEffect
  <2>. QED BY <1>15, <2>1, <1>A, <1>B, <1>C, LoadEffect
<1>16. ASSUME NEW c \in Reconcilers, NEW r \in Regions, Inspect(c, r) PROVE TypeOK'
  <2>1. RecOK'
    BY <1>16, InspectEffect, TurnsOK, There
  <2>. QED BY <1>16, <2>1, <1>A, <1>B, <1>C, InspectEffect
<1>17. ASSUME NEW c \in Reconcilers, Write(c) PROVE TypeOK'
  <2>1. RecOK'
    BY <1>17, WriteEffect, TurnsOK, There
  <2>2. ReplicaOK'
    BY <1>17, <1>A, WriteEffect DEF Sets, ReplicaOK
  <2>. QED BY <1>17, <2>1, <2>2, <1>A, <1>B, <1>C, WriteEffect
<1>18. ASSUME NEW a \in Artifacts, Withdraw(a) PROVE TypeOK'
  BY <1>18, <1>A, <1>B, <1>C, WithdrawEffect
<1>22. ASSUME NEW a \in Artifacts, Register(a) PROVE TypeOK'
  <2>1. SharesOK'
    <3>1. granted' = granted /\ shares' \cup dropped' = shares \cup dropped
      BY <1>22, RegisterEffect
    <3>2. shares \cup dropped \subseteq Artifacts \X Accounts /\ granted \subseteq Artifacts \X Accounts
      BY DEF TypeOK
    <3>. QED BY <3>1, <3>2 DEF SharesOK
  <2>. QED BY <1>22, <2>1, <1>A, <1>B, <1>C, RegisterEffect
<1>19. ASSUME NEW a \in Artifacts, NEW r \in Regions, Late(a, r) PROVE TypeOK'
  <2>1. ReplicaOK'
    BY <1>19, LateEffect DEF Sets, ReplicaOK
  <2>. QED BY <1>19, <2>1, <1>A, <1>B, <1>C, LateEffect
<1>20. ASSUME NEW a \in Artifacts, NEW r \in Regions, NEW n \in Nat,
              CopyDone(a, r, n) \/ CopyFails(a, r, n)
       PROVE  TypeOK'
  <2>1. CopiesOK'
    BY <1>20, CopyEffect DEF CopiesOK
  <2>. QED BY <1>20, <2>1, <1>A, <1>B, <1>C, CopyEffect
<1>21. ASSUME NEW a \in Artifacts, NEW r \in Regions, NEW n \in Nat, RecordReplica(a, r, n)
       PROVE  TypeOK'
  <2>1. ReplicaOK'
    BY <1>21, RecordReplicaEffect DEF Sets, ReplicaOK
  <2>2. ForgottenOK' /\ RacedOK'
    BY <1>21, RecordReplicaEffect, SupersededType, ForgetOK, RacesOK
  <2>. QED BY <1>21, <2>1, <2>2, <1>A, <1>B, <1>C, RecordReplicaEffect
<1>. QED BY StepCases, <1>1, <1>2, <1>3, <1>4, <1>5, <1>6, <1>7, <1>8, <1>9, <1>10, <1>11, <1>12, <1>13,
            <1>14, <1>15, <1>16, <1>17, <1>18, <1>19, <1>20, <1>21, <1>22


LEMMA SharersStep ==
    ASSUME TypeOK, SharersInv, [Next]_vars
    PROVE  SharersInv'
<1>1. ASSUME NEW p \in Procs, NEW f, Moves(p, f), f \in Sharing => p \in Workers
      PROVE  SharersInv'
  BY <1>1 DEF SharersInv, Moves
<1>2. session' = session => SharersInv'
  BY DEF SharersInv
<1>3. Workers \subseteq Procs /\ Operators \subseteq Procs
  BY DEF Procs
<1>4. ASSUME NEW p \in Procs,
             \/ Plan(p) \/ Sync(p) \/ SyncRefused(p) \/ (\E r \in Regions : Record(p, r))
             \/ RecordShare(p) \/ Raise(p) \/ Dies(p)
      PROVE  SharersInv'
  <2>1. \/ Moves(p, "sync") \/ Moves(p, "record") \/ Moves(p, "finish") \/ Moves(p, "idle")
    <3>1. Plan(p) => Moves(p, "sync") \/ Moves(p, "finish")
      BY PlanEffect
    <3>2. Sync(p) => Moves(p, "record")
      BY SyncEffect
    <3>3. SyncRefused(p) => Moves(p, "finish")
      BY SyncRefusedEffect
    <3>4. \A r \in Regions : Record(p, r) => Moves(p, "record") \/ Moves(p, "finish")
      BY RecordEffect
    <3>5. (RecordShare(p) \/ Raise(p) => Moves(p, "finish")) /\ (Dies(p) => Moves(p, "idle"))
      BY RecordShareEffect, RaiseEffect, DiesEffect
    <3>. QED BY <1>4, <3>1, <3>2, <3>3, <3>4, <3>5
  <2>. QED BY <1>1, <2>1 DEF Sharing
<1>5. ASSUME NEW p \in Procs, Share(p) PROVE SharersInv'
  BY <1>1, <1>5, ShareEffect DEF SharersInv, Sharing
<1>6. ASSUME NEW p \in Operators,
             ExecuteEnds(p) \/ \E a \in Artifacts, R \in SUBSET Regions \ {{}} : Execute(p, a, R)
      PROVE  SharersInv'
  <2>1. \E f : Moves(p, f) /\ f \notin Sharing
    BY <1>6, ExecuteEffect DEF Sharing
  <2>. QED BY <1>1, <1>3, <2>1
<1>7. ASSUME NEW w \in Workers, (\E j \in Jobs : Claim(w, j)) \/ Finish(w) \/ Refused(w)
      PROVE  SharersInv'
  <2>1. \E f : Moves(w, f)
    BY <1>7, ClaimEffect, FinishEffect, RefusedEffect
  <2>. QED BY <1>1, <1>3, <2>1
<1>8. ASSUME \/ UNCHANGED vars \/ (\E p \in Procs : SyncLost(p))
             \/ (\E j \in Jobs : Enqueue(j) \/ LeaseEnds(j))
             \/ (\E c \in Reconcilers :
                   \/ StartCycle(c) \/ CycleEnds(c) \/ CycleFails(c)
                   \/ (\E a \in Artifacts : ReconcileOne(c, a))
                   \/ Load(c) \/ (\E r \in Regions : Inspect(c, r)) \/ Write(c))
             \/ (\E a \in Artifacts : Withdraw(a) \/ Register(a))
             \/ (\E a \in Artifacts, r \in Regions :
                   \/ Late(a, r)
                   \/ \E n \in Nat : CopyDone(a, r, n) \/ CopyFails(a, r, n) \/ RecordReplica(a, r, n))
      PROVE  SharersInv'
  <2>1. UNCHANGED vars => session' = session
    BY DEF vars
  <2>2. /\ \A p \in Procs : SyncLost(p) => session' = session
        /\ \A j \in Jobs : Enqueue(j) \/ LeaseEnds(j) => session' = session
    BY DEF SyncLost, Enqueue, LeaseEnds
  <2>3. \A c \in Reconcilers :
           /\ StartCycle(c) \/ CycleEnds(c) \/ CycleFails(c) \/ Load(c) \/ Write(c) => session' = session
           /\ \A a \in Artifacts : ReconcileOne(c, a) => session' = session
           /\ \A r \in Regions : Inspect(c, r) => session' = session
    BY DEF StartCycle, CycleEnds, CycleFails, ReconcileOne, Load, Inspect, Write
  <2>4. \A a \in Artifacts : Withdraw(a) \/ Register(a) => session' = session
    BY DEF Withdraw, Register
  <2>5. \A a \in Artifacts, r \in Regions :
           /\ Late(a, r) => session' = session
           /\ \A n \in Nat : CopyDone(a, r, n) \/ CopyFails(a, r, n) \/ RecordReplica(a, r, n)
                             => session' = session
    BY LateEffect, CopyEffect, RecordReplicaEffect
  <2>6. session' = session
    BY <1>8, <2>1, <2>2, <2>3, <2>4, <2>5
  <2>. QED BY <1>2, <2>6
<1>. QED BY StepCases, <1>4, <1>5, <1>6, <1>7, <1>8

LEMMA SeenStep ==
    ASSUME TypeOK, SeenInv, [Next]_vars
    PROVE  SeenInv'
<1>. DEFINE Good(k) ==
        /\ k.pc = "inspect" => \A r \in k.regions : k.seen[r].status = "pending"
        /\ k.pc = "write" => /\ k.cur \in k.regions
                             /\ \A r \in k.regions \ {k.cur} : k.seen[r].status = "pending"
                             /\ k.seen[k.cur].status \in {"pending", "ready", "failed"}
<1>0. SeenInv = (\A c \in Reconcilers : Good(rec[c])) /\ SeenInv' = (\A c \in Reconcilers : Good(rec'[c]))
  BY DEF SeenInv
<1>1. ASSUME NEW c \in Reconcilers, NEW f, Turns(c, f), Good(rec'[c])
      PROVE  SeenInv'
  <2>. HIDE DEF Good
  <2>. QED BY <1>0, <1>1 DEF Turns
<1>2. rec' = rec => SeenInv'
  BY DEF SeenInv
<1>3. ASSUME NEW c \in Reconcilers, Turns(c, "next") \/ Turns(c, "idle")
      PROVE  SeenInv'
  <2>1. Good(rec'[c])
    BY <1>3 DEF Turns
  <2>. QED BY <1>1, <1>3, <2>1
<1>4. ASSUME NEW c \in Reconcilers,
             StartCycle(c) \/ CycleEnds(c) \/ CycleFails(c) \/ \E a \in Artifacts : ReconcileOne(c, a)
      PROVE  SeenInv'
  BY <1>3, <1>4, BetweenEffect
<1>5. ASSUME NEW c \in Reconcilers, Load(c) PROVE SeenInv'
  <2>1. ASSUME NEW a \in Artifacts, Turns(c, "inspect"), rec'[c].regions = Pending(a), rec'[c].seen = replica[a]
        PROVE  SeenInv'
    <3>1. Good(rec'[c])
      BY <2>1 DEF Turns, Pending
    <3>. QED BY <1>1, <2>1, <3>1
  <2>. QED BY <1>3, <1>5, <2>1, LoadEffect
<1>6. ASSUME NEW c \in Reconcilers, NEW r \in Regions, Inspect(c, r) PROVE SeenInv'
  <2>1. CASE Turns(c, "idle")
    BY <1>3, <2>1
  <2>2. CASE ~Turns(c, "idle")
    <3>1. /\ Turns(c, "write") /\ rec'[c].regions = rec[c].regions /\ rec'[c].cur = r
          /\ rec'[c].seen[r].status \in {"ready", "failed", "pending"}
          /\ \A q \in Regions \ {r} : rec'[c].seen[q] = rec[c].seen[q]
          /\ rec[c].pc = "inspect" /\ r \in rec[c].regions
      BY <1>6, <2>2, InspectEffect
    <3>2. rec[c].regions \subseteq Regions /\ \A q \in rec[c].regions : rec[c].seen[q].status = "pending"
      BY <3>1, There, CycleParts DEF SeenInv
    <3>3. \A q \in rec'[c].regions \ {r} : rec'[c].seen[q].status = "pending"
      BY <3>1, <3>2
    <3>4. Good(rec'[c])
      BY <3>1, <3>3 DEF Turns
    <3>. QED BY <1>1, <3>1, <3>4
  <2>. QED BY <2>1, <2>2
<1>7. ASSUME NEW c \in Reconcilers, Write(c) PROVE SeenInv'
  <2>1. CASE /\ Turns(c, "inspect") /\ rec'[c].seen = rec[c].seen
             /\ rec'[c].regions = rec[c].regions \ {rec[c].cur} /\ rec[c].pc = "write"
    <3>1. Good(rec'[c])
      BY <2>1 DEF Turns, SeenInv
    <3>. QED BY <1>1, <2>1, <3>1
  <2>. QED BY <1>3, <1>7, <2>1, WriteEffect
<1>8. ASSUME \/ UNCHANGED vars
             \/ (\E p \in Procs :
                   \/ Plan(p) \/ Sync(p) \/ SyncLost(p) \/ SyncRefused(p)
                   \/ (\E r \in Regions : Record(p, r))
                   \/ Share(p) \/ RecordShare(p) \/ Raise(p) \/ Dies(p))
             \/ (\E p \in Operators :
                   ExecuteEnds(p) \/ \E a \in Artifacts, R \in SUBSET Regions \ {{}} : Execute(p, a, R))
             \/ (\E w \in Workers : (\E j \in Jobs : Claim(w, j)) \/ Finish(w) \/ Refused(w))
             \/ (\E j \in Jobs : Enqueue(j) \/ LeaseEnds(j))
             \/ (\E a \in Artifacts : Withdraw(a) \/ Register(a))
             \/ (\E a \in Artifacts, r \in Regions :
                   \/ Late(a, r)
                   \/ \E n \in Nat : CopyDone(a, r, n) \/ CopyFails(a, r, n) \/ RecordReplica(a, r, n))
      PROVE  SeenInv'
  <2>1. UNCHANGED vars => rec' = rec
    BY DEF vars
  <2>2. \A p \in Procs :
           /\ Plan(p) \/ Sync(p) \/ SyncLost(p) \/ SyncRefused(p) => rec' = rec
           /\ \A r \in Regions : Record(p, r) => rec' = rec
           /\ Share(p) \/ RecordShare(p) \/ Raise(p) \/ Dies(p) => rec' = rec
    BY DEF Plan, Sync, SyncLost, SyncRefused, Record, Share, RecordShare, Raise, Dies
  <2>3. \A p \in Operators :
           ExecuteEnds(p) \/ (\E a \in Artifacts, R \in SUBSET Regions \ {{}} : Execute(p, a, R)) => rec' = rec
    BY DEF ExecuteEnds, Execute
  <2>4. /\ \A w \in Workers : (\E j \in Jobs : Claim(w, j)) \/ Finish(w) \/ Refused(w) => rec' = rec
        /\ \A j \in Jobs : Enqueue(j) \/ LeaseEnds(j) => rec' = rec
    BY DEF Claim, Finish, Refused, Enqueue, LeaseEnds
  <2>5. /\ \A a \in Artifacts : Withdraw(a) \/ Register(a) => rec' = rec
        /\ \A a \in Artifacts, r \in Regions :
              /\ Late(a, r) => rec' = rec
              /\ \A n \in Nat : CopyDone(a, r, n) \/ CopyFails(a, r, n) \/ RecordReplica(a, r, n)
                                => rec' = rec
    BY WithdrawEffect, RegisterEffect, LateEffect, CopyEffect, RecordReplicaEffect
  <2>6. rec' = rec
    BY <1>8, <2>1, <2>2, <2>3, <2>4, <2>5
  <2>. QED BY <1>2, <2>6
<1>. HIDE DEF Good
<1>. QED BY StepCases, <1>4, <1>5, <1>6, <1>7, <1>8

TypeInv == TypeOK /\ SeenInv /\ SharersInv

LEMMA InitTypeInv == Init => TypeInv
<1>1. ASSUME Init PROVE SeenInv /\ SharersInv
  BY <1>1, NoSessionFields, NoCycleFields DEF Init, SeenInv, SharersInv, Sharing
<1>. QED BY <1>1, InitType DEF TypeInv

LEMMA TypeInvStep == TypeInv /\ [Next]_vars => TypeInv'
  BY TypeStep, SeenStep, SharersStep DEF TypeInv

(* Every variable keeps its type: a row of the table names a worker exactly *)
(* when it is running, and whoever works has an artifact, and a worker a    *)
(* job, to work on (DistributionQueue, execute_distribution).               *)
THEOREM TypeCorrect == Spec => []TypeOK
<1>1. TypeInv => TypeOK
  BY DEF TypeInv
<1>. QED BY <1>1, InitTypeInv, TypeInvStep, PTL DEF Spec


-----------------------------------------------------------------------------
(* The table and the workers. *)

Holds(w) ==
    IF session[w].pc = "idle" THEN session'[w].pc = "idle"
    ELSE session'[w].pc # "idle" /\ Keeps(w)
Drops(w) == session[w].pc # "idle" /\ session'[w].pc = "idle"

(* A step that leaves the table alone, and the workers at their work but   *)
(* for one that may give it up.                                            *)
Quiet ==
    /\ job' = job /\ overrun' = overrun
    /\ \/ \A w \in Workers : Holds(w)
       \/ \E w \in Workers : Drops(w) /\ \A v \in Workers \ {w} : Holds(v)

LEMMA QuietStep ==
    ASSUME TypeInv, [Next]_vars
    PROVE  \/ Quiet
           \/ \E w \in Workers : (\E j \in Jobs : Claim(w, j)) \/ Finish(w)
           \/ \E j \in Jobs : Enqueue(j) \/ LeaseEnds(j)
<1>0. TypeOK /\ SeenInv /\ SharersInv /\ Workers \subseteq Procs /\ Operators \subseteq Procs
      /\ \A p \in Operators : p \notin Workers
  BY DistributionAssumption DEF TypeInv, Procs
<1>1. ASSUME job' = job, overrun' = overrun, session' = session PROVE Quiet
  BY <1>1 DEF Quiet, Holds, Keeps, SameWork
<1>2. ASSUME job' = job, overrun' = overrun, NEW p \in Procs, NEW f, Moves(p, f),
             \/ f # "idle" /\ session[p].pc # "idle" /\ Keeps(p)
             \/ f = "idle" /\ session[p].pc # "idle"
             \/ p \notin Workers
      PROVE  Quiet
  <2>1. \A v \in Workers \ {p} : Holds(v)
    BY <1>0, <1>2 DEF Moves, Holds, Keeps, SameWork
  <2>2. CASE p \in Workers
    <3>1. Holds(p) \/ Drops(p)
      BY <1>2, <2>2 DEF Moves, Holds, Drops
    <3>. QED BY <1>2, <2>1, <2>2, <3>1 DEF Quiet
  <2>3. CASE p \notin Workers
    BY <1>2, <2>1, <2>3 DEF Quiet
  <2>. QED BY <2>2, <2>3
<1>3. ASSUME NEW p \in Procs,
             Plan(p) \/ Sync(p) \/ SyncRefused(p) \/ \E r \in Regions : Record(p, r)
      PROVE  Quiet
  <2>1. Plan(p) => Quiet
    BY <1>0, <1>2, PlanEffect
  <2>2. Sync(p) => Quiet
    BY <1>0, <1>2, SyncEffect
  <2>3. SyncRefused(p) => Quiet
    BY <1>0, <1>2, SyncRefusedEffect
  <2>4. ASSUME NEW r \in Regions, Record(p, r) PROVE Quiet
    BY <1>0, <1>2, <2>4, RecordEffect
  <2>. QED BY <1>3, <2>1, <2>2, <2>3, <2>4
<1>4. ASSUME NEW p \in Procs, Share(p) \/ RecordShare(p) \/ Raise(p) \/ Dies(p)
      PROVE  Quiet
  <2>1. Share(p) => Quiet
    BY <1>0, <1>2, ShareEffect
  <2>2. RecordShare(p) => Quiet
    BY <1>0, <1>2, RecordShareEffect
  <2>3. Raise(p) => Quiet
    BY <1>0, <1>2, RaiseEffect DEF Serving, Sharing
  <2>4. Dies(p) => Quiet
    BY <1>0, <1>2, DiesEffect
  <2>. QED BY <1>4, <2>1, <2>2, <2>3, <2>4
<1>5. ASSUME NEW p \in Operators,
             ExecuteEnds(p) \/ \E a \in Artifacts, R \in SUBSET Regions \ {{}} : Execute(p, a, R)
      PROVE  Quiet
  BY <1>0, <1>2, <1>5, ExecuteEffect
<1>6. ASSUME NEW w \in Workers, Refused(w) PROVE Quiet
  BY <1>0, <1>2, <1>6, RefusedEffect
<1>7. ASSUME NEW c \in Reconcilers,
             \/ StartCycle(c) \/ CycleEnds(c) \/ CycleFails(c) \/ (\E a \in Artifacts : ReconcileOne(c, a))
             \/ Load(c) \/ (\E r \in Regions : Inspect(c, r)) \/ Write(c)
      PROVE  Quiet
  BY <1>0, <1>1, <1>7, BetweenEffect, LoadEffect, InspectEffect, WriteEffect
<1>8. ASSUME NEW a \in Artifacts, NEW r \in Regions,
             \/ Withdraw(a) \/ Late(a, r)
             \/ \E n \in Nat : CopyDone(a, r, n) \/ CopyFails(a, r, n) \/ RecordReplica(a, r, n)
      PROVE  Quiet
  BY <1>0, <1>1, <1>8, WithdrawEffect, LateEffect, CopyEffect, RecordReplicaEffect
<1>9. ASSUME NEW a \in Artifacts, Withdraw(a) \/ Register(a) PROVE Quiet
  BY <1>0, <1>1, <1>9, WithdrawEffect, RegisterEffect
<1>10. UNCHANGED vars => Quiet
  BY <1>1 DEF vars, history
<1>11. \A p \in Procs : SyncLost(p) => Quiet
  BY <1>0, <1>1, SyncLostEffect
<1>. QED BY StepCases, <1>3, <1>4, <1>5, <1>6, <1>7, <1>8, <1>9, <1>10, <1>11

(* Rows and documents agree as far as the claims of the workers need it. *)
JobInv ==
    /\ \A j \in Jobs :
          /\ job[j].status = "running" =>
                job[j].dstatus = "running" /\ job[j].last = job[j].owner /\ job[j].attempt >= 1
          /\ job[j].status = "queued" => job[j].dstatus \in {"queued", "running"}
          /\ job[j].due => job[j].status = "running"
    /\ \A w \in Workers : ~At(w, "idle") /\ Owned(w, session[w].job) =>
          job[session[w].job].attempt = session[w].attempt

(* As long as no lease has expired under a worker, it owns what it does. *)
OwnInv == ~overrun => \A w \in Workers : ~At(w, "idle") =>
             Owned(w, session[w].job) /\ ~job[session[w].job].due

RowGood(x) ==
    /\ x.status = "running" => x.dstatus = "running" /\ x.last = x.owner /\ x.attempt >= 1
    /\ x.status = "queued" => x.dstatus \in {"queued", "running"}
    /\ x.due => x.status = "running"

LEMMA TableInit == ASSUME Init PROVE JobInv /\ OwnInv
<1>. DEFINE x == JobRow("absent", NoWorker, "absent", 0, NoWorker)
<1>1. "absent" \in Statuses /\ NoWorker \in AnyWorker /\ 0 \in Nat
  BY DEF Statuses, AnyWorker
<1>2. x.status = "absent" /\ ~x.due
  BY <1>1, JobRowFields
<1>3. \A j \in Jobs : job[j] = x
  BY DEF Init
<1>4. \A w \in Workers : session[w].pc = "idle"
  BY NoSessionFields DEF Init, Procs
<1>. HIDE DEF x
<1>. QED BY <1>2, <1>3, <1>4 DEF JobInv, OwnInv, At

LEMMA JobStep ==
    ASSUME TypeInv, JobInv, [Next]_vars
    PROVE  JobInv'
<1>0. /\ TypeOK /\ Workers \subseteq Procs /\ NoWorker \notin Workers
      /\ \A j \in Jobs : RowGood(job[j]) /\ job[j] \in RowType
      /\ \A w \in Workers : session[w].pc # "idle" =>
            /\ session[w].job \in Jobs
            /\ job[session[w].job].owner = w => job[session[w].job].attempt = session[w].attempt
  BY DistributionAssumption DEF TypeInv, TypeOK, Procs, JobInv, RowGood, At, Owned
<1>1. ASSUME \A j \in Jobs : RowGood(job'[j]),
             \A w \in Workers : session'[w].pc # "idle" /\ job'[session'[w].job].owner = w =>
                job'[session'[w].job].attempt = session'[w].attempt
      PROVE  JobInv'
  BY <1>1 DEF JobInv, RowGood, At, Owned
<1>2. CASE Quiet
  <2>1. \A w \in Workers : session'[w].pc # "idle" => session[w].pc # "idle" /\ Keeps(w)
    BY <1>2 DEF Quiet, Holds, Drops
  <2>. QED BY <1>0, <1>1, <1>2, <2>1 DEF Quiet, Keeps, SameWork
<1>3. ASSUME NEW w \in Workers, NEW j \in Jobs, Claim(w, j) PROVE JobInv'
  <2>. DEFINE n == job[j].attempt + 1
              x == JobRow("running", w, "running", n, w)
  <2>1. /\ session'[w].job = j /\ session'[w].attempt = n /\ job'[j] = x
        /\ \A v \in Procs \ {w} : session'[v] = session[v]
        /\ \A i \in Jobs \ {j} : job'[i] = Swept(i)
    BY <1>0, <1>3, ClaimEffect DEF Moves
  <2>2. n \in Nat /\ n >= 1
    BY <1>0, RowParts
  <2>. HIDE DEF n
  <2>3. "running" \in Statuses /\ w \in AnyWorker
    BY DEF Statuses, AnyWorker
  <2>4. /\ x.status = "running" /\ x.owner = w /\ ~x.due /\ x.dstatus = "running"
        /\ x.attempt = n /\ x.last = w
    BY <2>2, <2>3, JobRowFields
  <2>. HIDE DEF x
  <2>5. \A i \in Jobs \ {j} : RowGood(Swept(i)) /\ Swept(i).attempt = job[i].attempt
                              /\ (Swept(i).owner = job[i].owner \/ Swept(i).owner = NoWorker)
    BY <1>0, SweptFields DEF RowGood
  <2>6. RowGood(x)
    BY <2>2, <2>4 DEF RowGood
  <2>7. ASSUME NEW v \in Workers, session'[v].pc # "idle", job'[session'[v].job].owner = v
        PROVE  job'[session'[v].job].attempt = session'[v].attempt
    <3>1. CASE v = w
      BY <2>1, <2>4, <3>1
    <3>2. CASE v # w
      <4>1. session'[v] = session[v] /\ session[v].job \in Jobs
        BY <1>0, <2>1, <2>7, <3>2
      <4>2. session[v].job # j
        BY <2>1, <2>4, <2>7, <3>2, <4>1
      <4>. QED BY <1>0, <2>1, <2>5, <2>7, <4>1, <4>2
    <3>. QED BY <3>1, <3>2
  <2>. QED BY <1>1, <2>1, <2>5, <2>6, <2>7
<1>4. ASSUME NEW j \in Jobs, NEW x, Puts(j, x), RowGood(x), x.owner \notin Workers,
             \A v \in Workers : session'[v].pc # "idle" => session'[v] = session[v]
      PROVE  JobInv'
  <2>1. \A i \in Jobs : RowGood(job'[i])
    BY <1>0, <1>4 DEF Puts
  <2>2. ASSUME NEW v \in Workers, session'[v].pc # "idle", job'[session'[v].job].owner = v
        PROVE  job'[session'[v].job].attempt = session'[v].attempt
    <3>1. session'[v] = session[v] /\ session[v].job \in Jobs
      BY <1>0, <1>4, <2>2
    <3>2. session[v].job # j
      BY <1>4, <2>2, <3>1 DEF Puts
    <3>. QED BY <1>0, <1>4, <2>2, <3>1, <3>2 DEF Puts
  <2>. QED BY <1>1, <2>1, <2>2
<1>5. ASSUME NEW w \in Workers, Finish(w) PROVE JobInv'
  <2>1. PICK status \in {"succeeded", "dead_letter", "queued"} :
           Puts(session[w].job, JobRow(status, NoWorker, status, session[w].attempt, w))
    BY <1>0, <1>5, FinishEffect
  <2>. DEFINE x == JobRow(status, NoWorker, status, session[w].attempt, w)
  <2>2. status \in Statuses /\ NoWorker \in AnyWorker /\ w \in AnyWorker /\ session[w].attempt \in Nat
    BY <1>0, Here, SessionParts DEF Statuses, Settled, AnyWorker
  <2>3. x.status = status /\ x.owner = NoWorker /\ ~x.due /\ x.dstatus = status
    BY <2>2, JobRowFields
  <2>. HIDE DEF x
  <2>4. RowGood(x)
    BY <2>1, <2>3 DEF RowGood
  <2>5. /\ session[w].job \in Jobs
        /\ \A v \in Workers : session'[v].pc # "idle" => session'[v] = session[v]
    BY <1>0, <1>5, FinishEffect DEF Moves
  <2>. QED BY <1>0, <1>4, <2>1, <2>3, <2>4, <2>5 DEF x
<1>6. ASSUME NEW j \in Jobs, Enqueue(j) PROVE JobInv'
  <2>. DEFINE x == JobRow("queued", NoWorker, "queued", 0, NoWorker)
  <2>1. Puts(j, x) /\ session' = session
    BY <1>0, <1>6, EnqueueEffect
  <2>2. "queued" \in Statuses /\ NoWorker \in AnyWorker /\ 0 \in Nat
    BY DEF Statuses, AnyWorker
  <2>3. x.status = "queued" /\ x.owner = NoWorker /\ ~x.due /\ x.dstatus = "queued"
    BY <2>2, JobRowFields
  <2>. HIDE DEF x
  <2>4. RowGood(x)
    BY <2>3 DEF RowGood
  <2>. QED BY <1>0, <1>4, <2>1, <2>3, <2>4
<1>7. ASSUME NEW j \in Jobs, LeaseEnds(j) PROVE JobInv'
  <2>. DEFINE x == [job[j] EXCEPT !.due = TRUE]
  <2>1. Puts(j, x) /\ session' = session /\ job[j].status = "running"
    BY <1>0, <1>7, LeaseEndsEffect
  <2>2. /\ x.status = job[j].status /\ x.owner = job[j].owner /\ x.dstatus = job[j].dstatus
        /\ x.attempt = job[j].attempt /\ x.last = job[j].last
    BY <1>0 DEF RowType
  <2>. HIDE DEF x
  <2>3. \A i \in Jobs : job'[i].owner = job[i].owner /\ job'[i].attempt = job[i].attempt
    BY <2>1, <2>2 DEF Puts
  <2>4. RowGood(x)
    BY <1>0, <2>1, <2>2 DEF RowGood
  <2>5. \A i \in Jobs : RowGood(job'[i])
    BY <1>0, <2>1, <2>4 DEF Puts
  <2>. QED BY <1>0, <1>1, <2>1, <2>3, <2>5
<1>. QED BY <1>2, <1>3, <1>5, <1>6, <1>7, QuietStep


LEMMA OwnStep ==
    ASSUME TypeInv, OwnInv, [Next]_vars
    PROVE  OwnInv'
<1>0. /\ TypeOK /\ Workers \subseteq Procs /\ NoWorker \notin Workers
      /\ \A j \in Jobs : job[j] \in RowType /\ (job[j].status = "running" <=> job[j].owner \in Workers)
      /\ \A w \in Workers : session[w].pc # "idle" => session[w].job \in Jobs
  BY DistributionAssumption DEF TypeInv, TypeOK, Procs, At
<1>1. CASE overrun'
  BY <1>1 DEF OwnInv
<1>. SUFFICES ASSUME ~overrun' PROVE OwnInv'
  BY <1>1
<1>2. ASSUME \A w \in Workers : session'[w].pc # "idle" =>
                job'[session'[w].job].owner = w /\ ~job'[session'[w].job].due
      PROVE  OwnInv'
  BY <1>2 DEF OwnInv, At, Owned
<1>3. ASSUME overrun' = overrun
      PROVE  \A w \in Workers : session[w].pc # "idle" =>
                job[session[w].job].owner = w /\ ~job[session[w].job].due
  BY <1>3 DEF OwnInv, At, Owned
<1>4. CASE Quiet
  <2>1. \A w \in Workers : session'[w].pc # "idle" => session[w].pc # "idle" /\ Keeps(w)
    BY <1>4 DEF Quiet, Holds, Drops
  <2>. QED BY <1>0, <1>2, <1>3, <1>4, <2>1 DEF Quiet, Keeps, SameWork
<1>5. ASSUME NEW w \in Workers, NEW j \in Jobs, Claim(w, j) PROVE OwnInv'
  <2>. DEFINE n == job[j].attempt + 1
              x == JobRow("running", w, "running", n, w)
  <2>1. /\ session'[w].job = j /\ job'[j] = x /\ overrun' = overrun
        /\ \A v \in Procs \ {w} : session'[v] = session[v]
        /\ \A i \in Jobs \ {j} : job'[i] = Swept(i)
        /\ Swept(j).status = "queued"
    BY <1>0, <1>5, ClaimEffect DEF Moves
  <2>2. n \in Nat
    BY <1>0, RowParts
  <2>. HIDE DEF n
  <2>3. "running" \in Statuses /\ w \in AnyWorker
    BY DEF Statuses, AnyWorker
  <2>4. x.owner = w /\ ~x.due
    BY DEF JobRow
  <2>. HIDE DEF x
  <2>5. ASSUME NEW v \in Workers, session'[v].pc # "idle"
        PROVE  job'[session'[v].job].owner = v /\ ~job'[session'[v].job].due
    <3>1. CASE v = w
      BY <2>1, <2>4, <3>1
    <3>2. CASE v # w
      <4>1. session'[v] = session[v] /\ session[v].job \in Jobs
            /\ job[session[v].job].owner = v /\ ~job[session[v].job].due
        BY <1>0, <1>3, <2>1, <2>5, <3>2
      <4>2. Swept(session[v].job) = job[session[v].job]
        BY <1>0, <4>1, SweptFields
      <4>3. session[v].job # j
        BY <1>0, <2>1, <4>1, <4>2
      <4>. QED BY <2>1, <4>1, <4>2, <4>3
    <3>. QED BY <3>1, <3>2
  <2>. QED BY <1>2, <2>5
<1>6. ASSUME NEW j \in Jobs, NEW x, Puts(j, x), overrun' = overrun,
             \A v \in Workers : session'[v].pc # "idle" => session'[v] = session[v] /\ session[v].job # j
      PROVE  OwnInv'
  <2>1. ASSUME NEW v \in Workers, session'[v].pc # "idle"
        PROVE  job'[session'[v].job].owner = v /\ ~job'[session'[v].job].due
    <3>1. session'[v] = session[v] /\ session[v].job \in Jobs /\ session[v].job # j
          /\ job[session[v].job].owner = v /\ ~job[session[v].job].due
      BY <1>0, <1>3, <1>6, <2>1
    <3>. QED BY <1>6, <3>1 DEF Puts
  <2>. QED BY <1>2, <2>1
<1>7. ASSUME NEW w \in Workers, Finish(w) PROVE OwnInv'
  <2>1. /\ session[w].job \in Jobs /\ job[session[w].job].owner = w /\ overrun' = overrun
        /\ \E x : Puts(session[w].job, x)
        /\ \A v \in Workers : session'[v].pc # "idle" => session'[v] = session[v] /\ v # w
    BY <1>0, <1>7, FinishEffect DEF Moves
  <2>2. \A v \in Workers : session'[v].pc # "idle" => session[v].job # session[w].job
    BY <1>3, <2>1
  <2>. QED BY <1>6, <2>1, <2>2
<1>8. ASSUME NEW j \in Jobs, Enqueue(j) PROVE OwnInv'
  <2>1. session' = session /\ overrun' = overrun /\ job[j].status = "absent" /\ \E x : Puts(j, x)
    BY <1>0, <1>8, EnqueueEffect
  <2>2. \A v \in Workers : session'[v].pc # "idle" => session[v].job # j
    BY <1>0, <1>3, <2>1
  <2>. QED BY <1>6, <2>1, <2>2
<1>9. ASSUME NEW j \in Jobs, LeaseEnds(j) PROVE OwnInv'
  <2>1. session' = session /\ overrun' = overrun /\ session[job[j].owner].job # j /\ \E x : Puts(j, x)
    BY <1>0, <1>9, LeaseEndsEffect
  <2>2. \A v \in Workers : session'[v].pc # "idle" => session[v].job # j
    BY <1>3, <2>1
  <2>. QED BY <1>6, <2>1, <2>2
<1>. QED BY <1>4, <1>5, <1>7, <1>8, <1>9, QuietStep

-----------------------------------------------------------------------------
(* The quotas. *)

Running(rows, S) == {i \in S : rows[i].status = "running"}

LEMMA TakenType ==
    ASSUME NEW rows, NEW S \in SUBSET Jobs
    PROVE  IsFiniteSet(Running(rows, S)) /\ Taken(rows, S) = Cardinality(Running(rows, S))
           /\ Taken(rows, S) \in Nat
<1>1. Running(rows, S) \in SUBSET Jobs
  BY DEF Running
<1>2. IsFiniteSet(Running(rows, S))
  BY <1>1, FS_Subset, DistributionAssumption
<1>. QED BY <1>2, FS_CardinalityType DEF Taken, Running

LEMMA TakenMonotone ==
    ASSUME NEW rows, NEW more, NEW S \in SUBSET Jobs,
           \A i \in S : rows[i].status = "running" => more[i].status = "running"
    PROVE  Taken(rows, S) <= Taken(more, S)
<1>1. Running(rows, S) \in SUBSET Running(more, S)
  BY DEF Running
<1>. QED BY <1>1, TakenType, FS_Subset

LEMMA TakenAdds ==
    ASSUME NEW rows, NEW more, NEW S \in SUBSET Jobs, NEW j \in S, rows[j].status # "running",
           \A i \in S \ {j} : more[i].status = "running" => rows[i].status = "running"
    PROVE  Taken(more, S) <= Taken(rows, S) + 1
<1>1. Running(more, S) \in SUBSET (Running(rows, S) \cup {j})
  BY DEF Running
<1>2. IsFiniteSet(Running(rows, S)) /\ j \notin Running(rows, S)
  BY TakenType DEF Running
<1>3. /\ IsFiniteSet(Running(rows, S) \cup {j})
      /\ Cardinality(Running(rows, S) \cup {j}) = Cardinality(Running(rows, S)) + 1
  BY <1>2, FS_AddElement
<1>4. Cardinality(Running(more, S)) <= Cardinality(Running(rows, S) \cup {j})
  BY <1>1, <1>3, FS_Subset
<1>. QED BY <1>3, <1>4, TakenType

OfAccount(j) == {i \in Jobs : i.account = j.account}
OfRegion(j)  == {i \in Jobs : i.region = j.region}

(* The table has never more rows that run than the quotas allow. *)
QuotaInv ==
    /\ Taken(job, Jobs) <= GlobalLimit
    /\ \A j \in Jobs : Taken(job, OfAccount(j)) <= AccountLimit /\ Taken(job, OfRegion(j)) <= RegionLimit

LEMMA QuotaInit == ASSUME Init PROVE QuotaInv
<1>. DEFINE x == JobRow("absent", NoWorker, "absent", 0, NoWorker)
<1>1. "absent" \in Statuses /\ NoWorker \in AnyWorker /\ 0 \in Nat
  BY DEF Statuses, AnyWorker
<1>2. x.status = "absent" /\ \A j \in Jobs : job[j] = x
  BY <1>1, JobRowFields DEF Init
<1>. HIDE DEF x
<1>3. \A S \in SUBSET Jobs : Taken(job, S) = 0
  <2>1. TAKE S \in SUBSET Jobs
  <2>2. Running(job, S) = {}
    BY <1>2 DEF Running
  <2>. QED BY <2>2, TakenType, FS_EmptySet
<1>4. GlobalLimit \in Nat /\ AccountLimit \in Nat /\ RegionLimit \in Nat
  BY DistributionAssumption
<1>. QED BY <1>3, <1>4 DEF QuotaInv, OfAccount, OfRegion

LEMMA QuotaStep ==
    ASSUME TypeInv, QuotaInv, [Next]_vars
    PROVE  QuotaInv'
<1>0. /\ TypeOK /\ Workers \subseteq Procs
      /\ \A j \in Jobs : /\ OfAccount(j) \in SUBSET Jobs /\ OfRegion(j) \in SUBSET Jobs
                         /\ job[j] \in RowType
      /\ GlobalLimit \in Nat /\ AccountLimit \in Nat /\ RegionLimit \in Nat
      /\ Jobs \in SUBSET Jobs
  BY DistributionAssumption DEF TypeInv, TypeOK, Procs, OfAccount, OfRegion
<1>1. \A S \in SUBSET Jobs : Taken(job, S) \in Nat /\ Taken(job', S) \in Nat
  BY TakenType
<1>2. ASSUME \A i \in Jobs : job'[i].status = "running" => job[i].status = "running"
      PROVE  QuotaInv'
  <2>1. \A S \in SUBSET Jobs : Taken(job', S) <= Taken(job, S)
    BY <1>2, TakenMonotone
  <2>2. \A S \in SUBSET Jobs, n \in Nat : Taken(job, S) <= n => Taken(job', S) <= n
    BY <1>1, <2>1
  <2>. QED BY <1>0, <2>2 DEF QuotaInv, OfAccount, OfRegion
<1>3. ASSUME NEW w \in Workers, NEW j \in Jobs, Claim(w, j) PROVE QuotaInv'
  <2>. DEFINE rows == [i \in Jobs |-> Swept(i)]
  <2>1. /\ \A i \in Jobs \ {j} : job'[i] = Swept(i)
        /\ Swept(j).status = "queued" /\ Quotas(rows, j)
    BY <1>0, <1>3, ClaimEffect
  <2>2. \A i \in Jobs : rows[i] = Swept(i) /\ (Swept(i).status = "running" => job[i].status = "running")
    BY <1>0, SweptFields
  <2>. HIDE DEF rows
  <2>3. ASSUME NEW S \in SUBSET Jobs, NEW n \in Nat,
               j \in S => Below(Taken(rows, S), n), Taken(job, S) <= n
        PROVE  Taken(job', S) <= n
    <3>0. Taken(rows, S) \in Nat
      BY TakenType
    <3>1. CASE j \in S
      <4>1. Taken(job', S) <= Taken(rows, S) + 1
        BY <2>1, <2>2, <3>1, TakenAdds
      <4>. QED BY <1>1, <2>3, <3>0, <3>1, <4>1 DEF Below
    <3>2. CASE j \notin S
      <4>1. Taken(job', S) <= Taken(job, S)
        BY <2>1, <2>2, <3>2, TakenMonotone
      <4>. QED BY <1>1, <2>3, <4>1
    <3>. QED BY <3>1, <3>2
  <2>4. /\ Below(Taken(rows, Jobs), GlobalLimit)
        /\ \A i \in Jobs : j \in OfAccount(i) => Below(Taken(rows, OfAccount(i)), AccountLimit)
        /\ \A i \in Jobs : j \in OfRegion(i) => Below(Taken(rows, OfRegion(i)), RegionLimit)
    <3>1. \A i \in Jobs : /\ j \in OfAccount(i) => OfAccount(i) = OfAccount(j)
                          /\ j \in OfRegion(i) => OfRegion(i) = OfRegion(j)
      BY DEF OfAccount, OfRegion
    <3>2. /\ Below(Taken(rows, Jobs), GlobalLimit) /\ Below(Taken(rows, OfAccount(j)), AccountLimit)
          /\ Below(Taken(rows, OfRegion(j)), RegionLimit)
      BY <2>1 DEF Quotas, OfAccount, OfRegion
    <3>. QED BY <3>1, <3>2
  <2>5. Taken(job', Jobs) <= GlobalLimit
    BY <1>0, <2>3, <2>4 DEF QuotaInv
  <2>6. \A i \in Jobs : Taken(job', OfAccount(i)) <= AccountLimit /\ Taken(job', OfRegion(i)) <= RegionLimit
    BY <1>0, <2>3, <2>4 DEF QuotaInv
  <2>. QED BY <2>5, <2>6 DEF QuotaInv, OfAccount, OfRegion
<1>4. ASSUME NEW j \in Jobs, NEW x, Puts(j, x), x.status = "running" => job[j].status = "running"
      PROVE  QuotaInv'
  BY <1>2, <1>4 DEF Puts
<1>5. ASSUME NEW w \in Workers, Finish(w) PROVE QuotaInv'
  <2>1. PICK status \in {"succeeded", "dead_letter", "queued"} :
           Puts(session[w].job, JobRow(status, NoWorker, status, session[w].attempt, w))
    BY <1>0, <1>5, FinishEffect
  <2>2. status \in Statuses /\ NoWorker \in AnyWorker /\ w \in AnyWorker /\ session[w].attempt \in Nat
        /\ session[w].job \in Jobs
    BY <1>0, <1>5, FinishEffect, Here, SessionParts DEF Statuses, Settled, AnyWorker
  <2>3. JobRow(status, NoWorker, status, session[w].attempt, w).status = status
    BY <2>2, JobRowFields
  <2>. QED BY <1>4, <2>1, <2>2, <2>3
<1>6. ASSUME NEW j \in Jobs, Enqueue(j) PROVE QuotaInv'
  <2>1. "queued" \in Statuses /\ NoWorker \in AnyWorker /\ 0 \in Nat
    BY DEF Statuses, AnyWorker
  <2>2. JobRow("queued", NoWorker, "queued", 0, NoWorker).status = "queued"
    BY <2>1, JobRowFields
  <2>. QED BY <1>0, <1>4, <1>6, <2>2, EnqueueEffect
<1>7. ASSUME NEW j \in Jobs, LeaseEnds(j) PROVE QuotaInv'
  BY <1>0, <1>4, <1>7, LeaseEndsEffect
<1>8. CASE Quiet
  BY <1>2, <1>8 DEF Quiet
<1>. QED BY <1>3, <1>5, <1>6, <1>7, <1>8, QuietStep

LEMMA InFlightRuns ==
    ASSUME TypeOK, OwnInv, ~overrun, NEW S \in SUBSET Jobs
    PROVE  InFlight(S) <= Taken(job, S) /\ InFlight(S) \in Nat
<1>. DEFINE W == {w \in Workers : ~At(w, "idle") /\ session[w].job \in S}
            f == [w \in W |-> session[w].job]
            T == Running(job, S)
<1>1. \A w \in W : job[session[w].job].owner = w /\ session[w].job \in S
  BY DEF OwnInv, Owned
<1>2. f \in [W -> T]
  BY <1>1 DEF TypeOK, Running
<1>3. \A v, w \in W : f[v] = f[w] => v = w
  BY <1>1
<1>4. IsFiniteSet(W)
  <2>1. W \in SUBSET Workers
    OBVIOUS
  <2>. HIDE DEF W
  <2>. QED BY <2>1, FS_Subset, DistributionAssumption
<1>5. IsFiniteSet(T) /\ Taken(job, S) = Cardinality(T)
  BY TakenType
<1>6. InFlight(S) = Cardinality(W)
  BY DEF InFlight
<1>. HIDE DEF W, f, T
<1>7. f \in Injection(W, T)
  BY <1>2, <1>3, Fun_IsInj
<1>8. Cardinality(W) <= Cardinality(T)
  BY <1>5, <1>7, FS_Injection
<1>9. Cardinality(W) \in Nat
  BY <1>4, FS_CardinalityType
<1>. QED BY <1>5, <1>6, <1>8, <1>9

TableInv == TypeInv /\ JobInv /\ OwnInv /\ QuotaInv

LEMMA TableInitInv == Init => TableInv
  BY InitTypeInv, TableInit, QuotaInit DEF TableInv

LEMMA TableInvStep == TableInv /\ [Next]_vars => TableInv'
  BY TypeInvStep, JobStep, OwnStep, QuotaStep DEF TableInv

(* Until a lease expires under a live worker, the workers that are at work, *)
(* in all, for an account and in a region, are within the quotas that       *)
(* DistributionQueue.claim counts over the rows.                            *)
THEOREM QuotasBind == Spec => []InFlightWithinQuota
<1>1. TableInv => InFlightWithinQuota
  <2>. SUFFICES ASSUME TableInv, ~overrun
       PROVE /\ InFlight(Jobs) <= GlobalLimit
             /\ \A j \in Jobs : InFlight(OfAccount(j)) <= AccountLimit /\ InFlight(OfRegion(j)) <= RegionLimit
    BY DEF InFlightWithinQuota, OfAccount, OfRegion
  <2>1. /\ \A j \in Jobs : OfAccount(j) \in SUBSET Jobs /\ OfRegion(j) \in SUBSET Jobs
        /\ GlobalLimit \in Nat /\ AccountLimit \in Nat /\ RegionLimit \in Nat /\ Jobs \in SUBSET Jobs
        /\ TypeOK /\ OwnInv /\ QuotaInv
    BY DistributionAssumption DEF OfAccount, OfRegion, TableInv, TypeInv
  <2>2. ASSUME NEW S \in SUBSET Jobs, NEW n \in Nat, Taken(job, S) <= n PROVE InFlight(S) <= n
    <3>1. InFlight(S) <= Taken(job, S) /\ InFlight(S) \in Nat /\ Taken(job, S) \in Nat
      BY <2>1, InFlightRuns, TakenType
    <3>. QED BY <2>2, <3>1
  <2>. QED BY <2>1, <2>2 DEF QuotaInv
<1>. QED BY <1>1, TableInitInv, TableInvStep, PTL DEF Spec


-----------------------------------------------------------------------------
(* The table is a lease queue. *)

ViewStatus(x) == IF x.dstatus = "queued" /\ x.attempt > 0 THEN "retry_wait" ELSE x.dstatus
RowView(x) == Abstract!Lease(ViewStatus(x), x.attempt, x.last)
ClaimView(s) == IF s.pc = "idle" THEN <<>> ELSE <<s.job, s.attempt>>

LEMMA Views ==
    /\ LeaseView = [j \in Jobs |-> RowView(job[j])]
    /\ HeldView = [w \in Workers |-> ClaimView(session[w])]
  BY DEF LeaseView, HeldView, RowView, ViewStatus, ClaimView, At, Abstract!Lease

LEMMA ViewsNext ==
    /\ LeaseView' = [j \in Jobs |-> RowView(job'[j])]
    /\ HeldView' = [w \in Workers |-> ClaimView(session'[w])]
  BY DEF LeaseView, HeldView, RowView, ViewStatus, ClaimView, At, Abstract!Lease

LEMMA SameRows ==
    ASSUME \A j \in Jobs : /\ job'[j].dstatus = job[j].dstatus /\ job'[j].attempt = job[j].attempt
                           /\ job'[j].last = job[j].last
    PROVE  LeaseView' = LeaseView
<1>1. \A j \in Jobs : RowView(job'[j]) = RowView(job[j])
  BY DEF RowView, ViewStatus
<1>. QED BY <1>1, Views, ViewsNext

LEMMA RowStep ==
    ASSUME NEW j \in Jobs, NEW l, RowView(job'[j]) = l,
           \A i \in Jobs \ {j} : RowView(job'[i]) = RowView(job[i])
    PROVE  LeaseView' = [LeaseView EXCEPT ![j] = l]
  BY Views, ViewsNext

LEMMA HeldStep ==
    ASSUME NEW w \in Workers, \A v \in Workers \ {w} : ClaimView(session'[v]) = ClaimView(session[v])
    PROVE  HeldView' = [HeldView EXCEPT ![w] = ClaimView(session'[w])]
  BY Views, ViewsNext

LEMMA QuietRefines == ASSUME Quiet PROVE [Abstract!Next]_<<LeaseView, HeldView>>
<1>1. LeaseView' = LeaseView
  BY SameRows DEF Quiet
<1>2. \A v \in Workers : Holds(v) => ClaimView(session'[v]) = ClaimView(session[v])
  BY DEF Holds, ClaimView, Keeps, SameWork
<1>3. CASE \A w \in Workers : Holds(w)
  BY <1>1, <1>2, <1>3, Views, ViewsNext
<1>4. ASSUME NEW w \in Workers, Drops(w), \A v \in Workers \ {w} : Holds(v)
      PROVE  Abstract!Abandon(w)
  <2>1. ClaimView(session'[w]) = <<>> /\ ClaimView(session[w]) # <<>>
    BY <1>4 DEF Drops, ClaimView
  <2>2. HeldView' = [HeldView EXCEPT ![w] = <<>>]
    BY <1>2, <1>4, <2>1, HeldStep
  <2>3. HeldView[w] # <<>>
    BY <2>1, Views
  <2>. QED BY <1>1, <2>2, <2>3 DEF Abstract!Abandon, Abstract!Nothing
<1>. QED BY <1>3, <1>4 DEF Quiet, Abstract!Next

LEMMA ClaimRefines ==
    ASSUME TypeOK, JobInv, NEW w \in Workers, NEW j \in Jobs, Claim(w, j)
    PROVE  Abstract!Claim(w, j)
<1>. DEFINE n == job[j].attempt + 1
            x == JobRow("running", w, "running", n, w)
<1>1. /\ session[w].pc = "idle" /\ session'[w].job = j /\ session'[w].attempt = n /\ job'[j] = x
      /\ session'[w].pc # "idle"
      /\ \A v \in Workers \ {w} : session'[v] = session[v]
      /\ \A i \in Jobs \ {j} : job'[i] = Swept(i)
      /\ Swept(j).status = "queued"
  BY ClaimEffect DEF Moves, Procs
<1>2. job[j] \in RowType /\ job[j].attempt \in Nat
  BY RowParts DEF TypeOK
<1>3. n \in Nat /\ "running" \in Statuses /\ w \in AnyWorker
  BY <1>2 DEF Statuses, AnyWorker
<1>4. x.dstatus = "running" /\ x.attempt = n /\ x.last = w
  BY <1>3, JobRowFields
<1>. HIDE DEF x
<1>5. RowView(job'[j]) = Abstract!Lease("running", n, w)
  BY <1>1, <1>4 DEF RowView, ViewStatus
<1>6. \A i \in Jobs \ {j} : RowView(job'[i]) = RowView(job[i])
  BY <1>1, SweptFields DEF RowView, ViewStatus
<1>7. LeaseView' = [LeaseView EXCEPT ![j] = Abstract!Lease("running", n, w)]
  BY <1>5, <1>6, RowStep
<1>8. HeldView' = [HeldView EXCEPT ![w] = <<j, n>>]
  <2>1. ClaimView(session'[w]) = <<j, n>>
    BY <1>1 DEF ClaimView
  <2>. QED BY <1>1, <2>1, HeldStep
<1>9. HeldView[w] = <<>>
  BY <1>1, Views DEF ClaimView
<1>10. job[j].dstatus \in {"queued", "running"}
  <2>1. job[j].status \in {"queued", "running"}
    BY <1>1, SweptFields
  <2>. QED BY <2>1 DEF JobInv
<1>11. /\ LeaseView[j] = RowView(job[j])
  BY Views
<1>12. LeaseView[j].status \in {"queued", "running", "retry_wait"} /\ LeaseView[j].attempt = job[j].attempt
  BY <1>10, <1>11 DEF RowView, ViewStatus, Abstract!Lease
<1>. QED BY <1>7, <1>8, <1>9, <1>12 DEF Abstract!Claim, Abstract!Nothing

LEMMA FinishRefines ==
    ASSUME TypeOK, JobInv, NEW w \in Workers, Finish(w)
    PROVE  \E j \in Jobs, st \in Abstract!Settled \cup {"retry_wait"} : Abstract!Finish(w, j, st)
<1>. DEFINE j == session[w].job
            n == session[w].attempt
<1>1. PICK status \in {"succeeded", "dead_letter", "queued"} :
         /\ status = "dead_letter" => n >= MaxAttempts
         /\ status = "queued" => n < MaxAttempts
         /\ Puts(j, JobRow(status, NoWorker, status, n, w))
  BY FinishEffect
<1>. DEFINE x == JobRow(status, NoWorker, status, n, w)
            st == IF status = "queued" THEN "retry_wait" ELSE status
<1>2. /\ j \in Jobs /\ session[w].pc = "finish" /\ session'[w].pc = "idle" /\ job[j].owner = w
      /\ \A v \in Workers \ {w} : session'[v] = session[v]
  BY FinishEffect DEF Moves, Procs
<1>3. /\ job[j].dstatus = "running" /\ job[j].last = w /\ job[j].attempt = n /\ n >= 1 /\ n \in Nat
  <2>1. job[j].status = "running" /\ job[j].attempt \in Nat
    BY <1>2, RowParts DEF TypeOK
  <2>. QED BY <1>2, <2>1 DEF JobInv, At, Owned
<1>4. status \in Statuses /\ NoWorker \in AnyWorker /\ w \in AnyWorker
  BY <1>1 DEF Statuses, Settled, AnyWorker
<1>. HIDE DEF j, n
<1>5. x.dstatus = status /\ x.attempt = n /\ x.last = w
  BY <1>3, <1>4, JobRowFields
<1>. HIDE DEF x
<1>6. ViewStatus(x) = st
  BY <1>1, <1>3, <1>5 DEF ViewStatus
<1>7. RowView(x) = Abstract!Lease(st, n, w)
  BY <1>5, <1>6 DEF RowView
<1>8. LeaseView' = [LeaseView EXCEPT ![j] = Abstract!Lease(st, n, w)]
  <2>1. job'[j] = x /\ \A i \in Jobs \ {j} : job'[i] = job[i]
    BY <1>1 DEF Puts, x
  <2>. QED BY <1>2, <1>7, <2>1, RowStep
<1>9. LeaseView[j] = Abstract!Lease("running", n, w)
  <2>1. ViewStatus(job[j]) = "running"
    BY <1>3 DEF ViewStatus
  <2>. QED BY <1>2, <1>3, <2>1, Views DEF RowView
<1>10. LeaseView' = [LeaseView EXCEPT ![j].status = st]
  <2>1. LeaseView = [i \in Jobs |-> LeaseView[i]]
    BY Views
  <2>2. [LeaseView[j] EXCEPT !.status = st] = Abstract!Lease(st, n, w)
    BY <1>9 DEF Abstract!Lease
  <2>. QED BY <1>2, <1>8, <2>1, <2>2
<1>11. HeldView' = [HeldView EXCEPT ![w] = <<>>] /\ HeldView[w] = <<j, n>>
  <2>1. ClaimView(session'[w]) = <<>> /\ ClaimView(session[w]) = <<j, n>>
    BY <1>2 DEF ClaimView, j, n
  <2>. QED BY <1>2, <2>1, HeldStep, Views
<1>12. /\ LeaseView[j].status = "running" /\ LeaseView[j].attempt = n /\ LeaseView[j].owner = w
  BY <1>9 DEF Abstract!Lease
<1>13. /\ st \in Abstract!Settled \cup {"retry_wait"}
       /\ \/ st = "succeeded"
          \/ st = "retry_wait"  /\ n < MaxAttempts
          \/ st = "dead_letter" /\ n >= MaxAttempts
  BY <1>1 DEF Abstract!Settled, n
<1>. HIDE DEF st
<1>14. Abstract!Finish(w, j, st)
  BY <1>10, <1>11, <1>12, <1>13 DEF Abstract!Finish, Abstract!Nothing
<1>. QED BY <1>2, <1>13, <1>14

LEMMA EnqueueRefines ==
    ASSUME TypeOK, NEW j \in Jobs, Enqueue(j)
    PROVE  Abstract!Enqueue({j})
<1>. DEFINE x == JobRow("queued", NoWorker, "queued", 0, NoWorker)
<1>1. Puts(j, x) /\ session' = session
  BY EnqueueEffect
<1>2. "queued" \in Statuses /\ NoWorker \in AnyWorker /\ 0 \in Nat
  BY DEF Statuses, AnyWorker
<1>3. x.dstatus = "queued" /\ x.attempt = 0 /\ x.last = NoWorker
  BY <1>2, JobRowFields
<1>. HIDE DEF x
<1>4. RowView(x) = Abstract!Lease("queued", 0, NoWorker)
  BY <1>3 DEF RowView, ViewStatus
<1>5. \A i \in Jobs : RowView(job'[i]) = IF i \in {j} THEN RowView(x) ELSE RowView(job[i])
  BY <1>1 DEF Puts
<1>6. LeaseView' = [i \in Jobs |-> IF i \in {j} THEN Abstract!Lease("queued", 0, NoWorker) ELSE LeaseView[i]]
  BY <1>4, <1>5, Views, ViewsNext
<1>7. HeldView' = HeldView
  BY <1>1, Views, ViewsNext
<1>. QED BY <1>6, <1>7 DEF Abstract!Enqueue

LEMMA TableRefines ==
    ASSUME TypeInv, JobInv, [Next]_vars
    PROVE  [Abstract!Next]_<<LeaseView, HeldView>>
<1>0. TypeOK
  BY DEF TypeInv
<1>1. ASSUME NEW w \in Workers, NEW j \in Jobs, Claim(w, j) PROVE Abstract!Next
  BY <1>0, <1>1, ClaimRefines DEF Abstract!Next
<1>2. ASSUME NEW w \in Workers, Finish(w) PROVE Abstract!Next
  BY <1>0, <1>2, FinishRefines DEF Abstract!Next
<1>3. ASSUME NEW j \in Jobs, Enqueue(j) PROVE Abstract!Next
  <2>1. {j} \in SUBSET Jobs
    OBVIOUS
  <2>. QED BY <1>0, <1>3, <2>1, EnqueueRefines DEF Abstract!Next
<1>4. ASSUME NEW j \in Jobs, LeaseEnds(j) PROVE UNCHANGED <<LeaseView, HeldView>>
  <2>. DEFINE x == [job[j] EXCEPT !.due = TRUE]
  <2>1. Puts(j, x) /\ session' = session
    BY <1>0, <1>4, LeaseEndsEffect
  <2>2. x.dstatus = job[j].dstatus /\ x.attempt = job[j].attempt /\ x.last = job[j].last
    BY <1>0 DEF TypeOK, RowType
  <2>. HIDE DEF x
  <2>3. LeaseView' = LeaseView
    BY <2>1, <2>2, SameRows DEF Puts
  <2>. QED BY <2>1, <2>3, Views, ViewsNext
<1>. QED BY <1>1, <1>2, <1>3, <1>4, QuietStep, QuietRefines

LEMMA InitRefines == Init => Abstract!Init
<1>. SUFFICES ASSUME Init PROVE Abstract!Init
  OBVIOUS
<1>. DEFINE x == JobRow("absent", NoWorker, "absent", 0, NoWorker)
<1>1. "absent" \in Statuses /\ NoWorker \in AnyWorker /\ 0 \in Nat
  BY DEF Statuses, AnyWorker
<1>2. x.dstatus = "absent" /\ x.attempt = 0 /\ x.last = NoWorker
  BY <1>1, JobRowFields
<1>3. \A j \in Jobs : job[j] = x
  BY DEF Init
<1>. HIDE DEF x
<1>4. \A j \in Jobs : RowView(job[j]) = Abstract!Lease("absent", 0, NoWorker)
  BY <1>2, <1>3 DEF RowView, ViewStatus
<1>5. \A w \in Workers : ClaimView(session[w]) = <<>>
  BY NoSessionFields DEF Init, ClaimView, Procs
<1>. QED BY <1>4, <1>5, Views DEF Abstract!Init, Abstract!Nothing

(* The SQLite table implements the lease queue: a claim (with the sweep of  *)
(* the expired leases before it), a finish and an enqueue are its steps,    *)
(* and the result of a superseded claim is refused.                         *)
THEOREM TableIsLeaseQueue == Spec => ImplementsLeaseQueue
<1>1. TableInv => TypeInv /\ JobInv
  BY DEF TableInv
<1>2. TypeInv /\ JobInv /\ [Next]_vars => [Abstract!Next]_<<LeaseView, HeldView>>
  BY TableRefines
<1>. QED BY <1>1, <1>2, TableInitInv, TableInvStep, InitRefines, PTL
     DEF Spec, ImplementsLeaseQueue, Abstract!Spec


-----------------------------------------------------------------------------
(* Who changes what. *)

Between(c) ==
    StartCycle(c) \/ CycleEnds(c) \/ CycleFails(c) \/ \E a \in Artifacts : ReconcileOne(c, a)
Executes(p) ==
    ExecuteEnds(p) \/ \E a \in Artifacts, R \in SUBSET Regions \ {{}} : Execute(p, a, R)

LEMMA SessionChange ==
    ASSUME TypeInv, [Next]_vars, NEW p \in Procs
    PROVE  \/ session'[p] = session[p]
           \/ Plan(p) \/ Sync(p) \/ SyncRefused(p) \/ (\E r \in Regions : Record(p, r))
           \/ Share(p) \/ RecordShare(p) \/ Raise(p) \/ Dies(p)
           \/ p \in Operators /\ Executes(p)
           \/ p \in Workers /\ ((\E j \in Jobs : Claim(p, j)) \/ Finish(p) \/ Refused(p))
<1>0. TypeOK /\ SeenInv /\ Workers \subseteq Procs /\ Operators \subseteq Procs
  BY DEF TypeInv, Procs
<1>1. ASSUME NEW q \in Procs, NEW f, Moves(q, f), q # p PROVE session'[p] = session[p]
  BY <1>1 DEF Moves
<1>2. ASSUME NEW q \in Procs,
             \/ Plan(q) \/ Sync(q) \/ SyncRefused(q) \/ (\E r \in Regions : Record(q, r))
             \/ Share(q) \/ RecordShare(q) \/ Raise(q) \/ Dies(q)
      PROVE  q = p \/ session'[p] = session[p]
  <2>1. Plan(q) \/ Sync(q) \/ SyncRefused(q) => \E f : Moves(q, f)
    BY <1>0, PlanEffect, SyncEffect, SyncRefusedEffect
  <2>2. (\E r \in Regions : Record(q, r)) => \E f : Moves(q, f)
    BY <1>0, RecordEffect
  <2>3. Share(q) \/ RecordShare(q) \/ Raise(q) \/ Dies(q) => \E f : Moves(q, f)
    BY <1>0, ShareEffect, RecordShareEffect, RaiseEffect, DiesEffect
  <2>. QED BY <1>1, <1>2, <2>1, <2>2, <2>3
<1>3. ASSUME NEW q \in Operators, Executes(q) PROVE q = p \/ session'[p] = session[p]
  BY <1>0, <1>1, <1>3, ExecuteEffect DEF Executes
<1>4. ASSUME NEW q \in Workers, (\E j \in Jobs : Claim(q, j)) \/ Finish(q) \/ Refused(q)
      PROVE  q = p \/ session'[p] = session[p]
  <2>1. \E f : Moves(q, f)
    BY <1>0, <1>4, ClaimEffect, FinishEffect, RefusedEffect
  <2>. QED BY <1>0, <1>1, <2>1
<1>5. ASSUME NEW c \in Reconcilers, Between(c) \/ Load(c) \/ (\E r \in Regions : Inspect(c, r)) \/ Write(c)
      PROVE  session' = session
  BY <1>0, <1>5, BetweenEffect, LoadEffect, InspectEffect, WriteEffect DEF Between
<1>6. /\ UNCHANGED vars => session' = session
      /\ \A q \in Procs : SyncLost(q) => session' = session
      /\ \A j \in Jobs : Enqueue(j) \/ LeaseEnds(j) => session' = session
      /\ \A a \in Artifacts : Withdraw(a) \/ Register(a) => session' = session
  BY <1>0, SyncLostEffect, EnqueueEffect, LeaseEndsEffect, WithdrawEffect, RegisterEffect DEF vars
<1>7. ASSUME NEW a \in Artifacts, NEW r \in Regions,
             Late(a, r) \/ \E n \in Nat : CopyDone(a, r, n) \/ CopyFails(a, r, n) \/ RecordReplica(a, r, n)
      PROVE  session' = session
  BY <1>0, <1>7, LateEffect, CopyEffect, RecordReplicaEffect
<1>. QED BY StepCases, <1>2, <1>3, <1>4, <1>5, <1>6, <1>7 DEF Between, Executes

LEMMA RecChange ==
    ASSUME TypeInv, [Next]_vars, NEW c \in Reconcilers
    PROVE  \/ rec'[c] = rec[c]
           \/ Between(c) \/ Load(c) \/ (\E r \in Regions : Inspect(c, r)) \/ Write(c)
<1>0. TypeOK /\ SeenInv
  BY DEF TypeInv
<1>1. ASSUME NEW d \in Reconcilers, Between(d) \/ Load(d) \/ (\E r \in Regions : Inspect(d, r)) \/ Write(d)
      PROVE  d = c \/ rec'[c] = rec[c]
  <2>1. \E f : Turns(d, f)
    BY <1>0, <1>1, BetweenEffect, LoadEffect, InspectEffect, WriteEffect DEF Between
  <2>. QED BY <2>1 DEF Turns
<1>2. ASSUME NEW q \in Procs,
             \/ Plan(q) \/ Sync(q) \/ SyncLost(q) \/ SyncRefused(q) \/ (\E r \in Regions : Record(q, r))
             \/ Share(q) \/ RecordShare(q) \/ Raise(q) \/ Dies(q)
      PROVE  rec' = rec
  <2>1. Plan(q) \/ Sync(q) \/ SyncLost(q) \/ SyncRefused(q) => rec' = rec
    BY <1>0, PlanEffect, SyncEffect, SyncLostEffect, SyncRefusedEffect
  <2>2. (\E r \in Regions : Record(q, r)) => rec' = rec
    BY <1>0, RecordEffect
  <2>3. Share(q) \/ RecordShare(q) \/ Raise(q) \/ Dies(q) => rec' = rec
    BY <1>0, ShareEffect, RecordShareEffect, RaiseEffect, DiesEffect
  <2>. QED BY <1>2, <2>1, <2>2, <2>3
<1>3. /\ UNCHANGED vars => rec' = rec
      /\ \A q \in Operators : Executes(q) => rec' = rec
      /\ \A q \in Workers : (\E j \in Jobs : Claim(q, j)) \/ Finish(q) \/ Refused(q) => rec' = rec
      /\ \A j \in Jobs : Enqueue(j) \/ LeaseEnds(j) => rec' = rec
      /\ \A a \in Artifacts : Withdraw(a) \/ Register(a) => rec' = rec
  BY <1>0, ExecuteEffect, ClaimEffect, FinishEffect, RefusedEffect, EnqueueEffect, LeaseEndsEffect,
     WithdrawEffect, RegisterEffect
     DEF vars, Executes
<1>4. ASSUME NEW a \in Artifacts, NEW r \in Regions,
             Late(a, r) \/ \E n \in Nat : CopyDone(a, r, n) \/ CopyFails(a, r, n) \/ RecordReplica(a, r, n)
      PROVE  rec' = rec
  BY <1>0, <1>4, LateEffect, CopyEffect, RecordReplicaEffect
<1>. QED BY StepCases, <1>1, <1>2, <1>3, <1>4 DEF Between, Executes

LEMMA ReplicaChange ==
    ASSUME TypeInv, [Next]_vars, NEW a \in Artifacts, NEW r \in Regions
    PROVE  \/ replica'[a][r] = replica[a][r]
           \/ \E p \in Procs : session[p].art = a /\ Record(p, r)
           \/ \E c \in Reconcilers : rec[c].art = a /\ rec[c].cur = r /\ Write(c)
           \/ \E n \in Nat : RecordReplica(a, r, n)
           \/ Late(a, r)
<1>0. TypeOK /\ SeenInv
  BY DEF TypeInv
<1>1. ASSUME NEW q \in Procs, NEW s \in Regions, Record(q, s)
      PROVE  replica'[a][r] = replica[a][r] \/ (session[q].art = a /\ s = r)
  <2>1. replica' = replica \/ \E x : Sets(session[q].art, s, x)
    BY <1>0, <1>1, RecordEffect
  <2>. QED BY <2>1 DEF Sets
<1>2. ASSUME NEW c \in Reconcilers, Write(c)
      PROVE  replica'[a][r] = replica[a][r] \/ (rec[c].art = a /\ rec[c].cur = r)
  BY <1>0, <1>2, WriteEffect DEF Sets
<1>3. ASSUME NEW b \in Artifacts, NEW s \in Regions, Late(b, s) \/ \E n \in Nat : RecordReplica(b, s, n)
      PROVE  replica'[a][r] = replica[a][r] \/ (b = a /\ s = r)
  <2>1. \E x : Sets(b, s, x)
    BY <1>0, <1>3, LateEffect, RecordReplicaEffect
  <2>. QED BY <2>1 DEF Sets
<1>4. ASSUME NEW q \in Procs,
             \/ Plan(q) \/ Sync(q) \/ SyncLost(q) \/ SyncRefused(q)
             \/ Share(q) \/ RecordShare(q) \/ Raise(q) \/ Dies(q)
      PROVE  replica' = replica
  <2>1. Plan(q) \/ Sync(q) \/ SyncLost(q) \/ SyncRefused(q) => replica' = replica
    BY <1>0, PlanEffect, SyncEffect, SyncLostEffect, SyncRefusedEffect
  <2>2. Share(q) \/ RecordShare(q) \/ Raise(q) \/ Dies(q) => replica' = replica
    BY <1>0, ShareEffect, RecordShareEffect, RaiseEffect, DiesEffect
  <2>. QED BY <1>4, <2>1, <2>2
<1>5. /\ UNCHANGED vars => replica' = replica
      /\ \A q \in Operators : Executes(q) => replica' = replica
      /\ \A q \in Workers : (\E j \in Jobs : Claim(q, j)) \/ Finish(q) \/ Refused(q) => replica' = replica
      /\ \A j \in Jobs : Enqueue(j) \/ LeaseEnds(j) => replica' = replica
      /\ \A b \in Artifacts : Withdraw(b) \/ Register(b) => replica' = replica
  BY <1>0, ExecuteEffect, ClaimEffect, FinishEffect, RefusedEffect, EnqueueEffect, LeaseEndsEffect,
     WithdrawEffect, RegisterEffect
     DEF vars, registry, Executes
<1>6. ASSUME NEW c \in Reconcilers, Between(c) \/ Load(c) \/ (\E s \in Regions : Inspect(c, s))
      PROVE  replica' = replica
  BY <1>0, <1>6, BetweenEffect, LoadEffect, InspectEffect DEF Between
<1>7. ASSUME NEW b \in Artifacts, NEW s \in Regions, \E n \in Nat : CopyDone(b, s, n) \/ CopyFails(b, s, n)
      PROVE  replica' = replica
  BY <1>0, <1>7, CopyEffect
<1>. QED BY StepCases, <1>1, <1>2, <1>3, <1>4, <1>5, <1>6, <1>7 DEF Between, Executes

(* Copies come one by one, and a usable one stays usable. *)
Later(a, r) ==
    /\ Len(copies'[a][r]) >= Len(copies[a][r])
    /\ \A n \in 1 .. Len(copies[a][r]) : copies[a][r][n] = "normal" => copies'[a][r][n] = "normal"
Begins(p, a, r) == (Sync(p) \/ SyncLost(p)) /\ session[p].art = a /\ r \in session[p].regions

LEMMA CopyChange ==
    ASSUME TypeInv, [Next]_vars, NEW a \in Artifacts, NEW r \in Regions
    PROVE  /\ Later(a, r) /\ Len(copies[a][r]) \in Nat /\ Len(copies'[a][r]) \in Nat
           /\ \/ Len(copies'[a][r]) = Len(copies[a][r])
              \/ Len(copies'[a][r]) = Len(copies[a][r]) + 1 /\ \E p \in Procs : Begins(p, a, r)
<1>0. TypeOK /\ SeenInv /\ Len(copies[a][r]) \in Nat
  BY NewestType DEF TypeInv
<1>. DEFINE Goal == /\ Later(a, r)
                    /\ \/ Len(copies'[a][r]) = Len(copies[a][r])
                       \/ Len(copies'[a][r]) = Len(copies[a][r]) + 1 /\ \E p \in Procs : Begins(p, a, r)
<1>1. ASSUME copies' = copies PROVE Goal
  BY <1>0, <1>1 DEF Later
<1>2. ASSUME NEW p \in Procs, Sync(p) \/ SyncLost(p) PROVE Goal
  <2>1. Grow(session[p].art, session[p].regions)
    BY <1>0, <1>2, SyncEffect, SyncLostEffect
  <2>2. /\ IF a = session[p].art /\ r \in session[p].regions
           THEN Len(copies'[a][r]) = Len(copies[a][r]) + 1
           ELSE Len(copies'[a][r]) = Len(copies[a][r])
        /\ \A n \in 1 .. Len(copies[a][r]) : copies'[a][r][n] = copies[a][r][n]
    BY <2>1 DEF Grow
  <2>3. CASE a = session[p].art /\ r \in session[p].regions
    <3>1. Begins(p, a, r)
      BY <1>2, <2>3 DEF Begins
    <3>. QED BY <1>0, <2>2, <2>3, <3>1 DEF Later
  <2>4. CASE ~(a = session[p].art /\ r \in session[p].regions)
    <3>1. Len(copies'[a][r]) = Len(copies[a][r])
      BY <1>0, <2>2, <2>4
    <3>. QED BY <1>0, <2>2, <3>1 DEF Later
  <2>. QED BY <2>3, <2>4
<1>3. ASSUME NEW b \in Artifacts, NEW s \in Regions, \E n \in Nat : CopyDone(b, s, n) \/ CopyFails(b, s, n)
      PROVE  Goal
  <2>1. /\ Len(copies'[a][r]) = Len(copies[a][r])
        /\ \A n \in 1 .. Len(copies[a][r]) : copies[a][r][n] = "normal" => copies'[a][r][n] = "normal"
    BY <1>0, <1>3, CopyEffect
  <2>. QED BY <1>0, <2>1 DEF Later
<1>4. ASSUME NEW q \in Procs,
             \/ Plan(q) \/ SyncRefused(q) \/ (\E s \in Regions : Record(q, s))
             \/ Share(q) \/ RecordShare(q) \/ Raise(q) \/ Dies(q)
      PROVE  copies' = copies
  <2>1. Plan(q) \/ SyncRefused(q) \/ (\E s \in Regions : Record(q, s)) => copies' = copies
    BY <1>0, PlanEffect, SyncRefusedEffect, RecordEffect
  <2>2. Share(q) \/ RecordShare(q) \/ Raise(q) \/ Dies(q) => copies' = copies
    BY <1>0, ShareEffect, RecordShareEffect, RaiseEffect, DiesEffect
  <2>. QED BY <1>4, <2>1, <2>2
<1>5. /\ UNCHANGED vars => copies' = copies
      /\ \A q \in Operators : Executes(q) => copies' = copies
      /\ \A q \in Workers : (\E j \in Jobs : Claim(q, j)) \/ Finish(q) \/ Refused(q) => copies' = copies
      /\ \A j \in Jobs : Enqueue(j) \/ LeaseEnds(j) => copies' = copies
      /\ \A b \in Artifacts : Withdraw(b) \/ Register(b) => copies' = copies
  BY <1>0, ExecuteEffect, ClaimEffect, FinishEffect, RefusedEffect, EnqueueEffect, LeaseEndsEffect,
     WithdrawEffect, RegisterEffect
     DEF vars, cloud, Executes
<1>6. ASSUME NEW c \in Reconcilers, Between(c) \/ Load(c) \/ (\E s \in Regions : Inspect(c, s)) \/ Write(c)
      PROVE  copies' = copies
  BY <1>0, <1>6, BetweenEffect, LoadEffect, InspectEffect, WriteEffect DEF Between
<1>7. ASSUME NEW b \in Artifacts, NEW s \in Regions, Late(b, s) \/ \E n \in Nat : RecordReplica(b, s, n)
      PROVE  copies' = copies
  BY <1>0, <1>7, LateEffect, RecordReplicaEffect
<1>. HIDE DEF Goal
<1>8. Goal
  BY StepCases, <1>1, <1>2, <1>3, <1>4, <1>5, <1>6, <1>7 DEF Between, Executes
<1>. QED BY <1>0, <1>8 DEF Goal


-----------------------------------------------------------------------------
(* Copies and their numbers. *)

(* Every copy that is named anywhere has been made. *)
NamedInv   == \A a \in Artifacts, r \in Regions : replica[a][r].copy <= Len(copies[a][r])
AnswerInv  == \A p \in Procs : session[p].pc = "record" => \A r \in session[p].regions :
                 session[p].got[r] <= Len(copies[session[p].art][r])
SeenCopyInv == \A c \in Reconcilers : rec[c].pc \in {"inspect", "write"} => \A r \in rec[c].regions :
                 rec[c].seen[r].copy <= Len(copies[rec[c].art][r])

(* What a replica may become. *)
LEMMA ReplicaValue ==
    ASSUME TypeInv, [Next]_vars, NEW a \in Artifacts, NEW r \in Regions
    PROVE  LET x == replica[a][r]
               y == replica'[a][r]
           IN \/ y.status = x.status /\ y.copy = x.copy /\ (y = x \/ x.status = "pending")
              \/ \E p \in Procs :
                    /\ session[p].pc = "record" /\ session[p].art = a /\ r \in session[p].regions
                    /\ Record(p, r) /\ y.status = "pending" /\ y.copy = session[p].got[r]
                    /\ IF x.status = "failed" THEN Forget(Superseded(a, r)) ELSE UNCHANGED forgotten
                    /\ \/ session[p].regions = {r} /\ Moves(p, "finish")
                       \/ Moves(p, "record") /\ session'[p].regions = session[p].regions \ {r}
              \/ \E c \in Reconcilers :
                    /\ rec[c].pc = "write" /\ rec[c].art = a /\ rec[c].cur = r /\ r \in rec[c].regions
                    /\ Write(c)
                    /\ y.status = rec[c].seen[r].status /\ y.copy = rec[c].seen[r].copy
                    /\ \/ Turns(c, "next")
                       \/ Turns(c, "inspect") /\ rec'[c].regions = rec[c].regions \ {r}
              \/ \E n \in Nat :
                    /\ RecordReplica(a, r, n) /\ y.status = "ready" /\ y.copy = n /\ x.status # "ready"
<1>. DEFINE x == replica[a][r]
            y == replica'[a][r]
<1>0. TypeOK /\ SeenInv /\ replica \in [Artifacts -> [Regions -> ReplicaType]]
  BY DEF TypeInv, TypeOK
<1>1. CASE y = x
  BY <1>1
<1>2. ASSUME NEW p \in Procs, session[p].art = a, Record(p, r), y # x
      PROVE  /\ session[p].pc = "record" /\ r \in session[p].regions
             /\ y.status = "pending" /\ y.copy = session[p].got[r]
             /\ IF x.status = "failed" THEN Forget(Superseded(a, r)) ELSE UNCHANGED forgotten
             /\ \/ session[p].regions = {r} /\ Moves(p, "finish")
                \/ Moves(p, "record") /\ session'[p].regions = session[p].regions \ {r}
  <2>1. session[p].pc = "record" /\ r \in session[p].regions
    BY <1>0, <1>2, RecordEffect
  <2>2. /\ Sets(a, r, Replica("pending", session[p].got[r], FALSE))
        /\ IF x.status = "failed" THEN Forget(Superseded(a, r)) ELSE UNCHANGED forgotten
        /\ \/ session[p].regions = {r} /\ Moves(p, "finish")
           \/ Moves(p, "record") /\ session'[p].regions = session[p].regions \ {r}
    BY <1>0, <1>2, RecordEffect
  <2>3. y = Replica("pending", session[p].got[r], FALSE)
    BY <2>2 DEF Sets
  <2>4. y.status = "pending" /\ y.copy = session[p].got[r]
    BY <2>3 DEF Replica
  <2>. QED BY <2>1, <2>2, <2>4
<1>3. ASSUME NEW c \in Reconcilers, rec[c].art = a, rec[c].cur = r, Write(c), y # x
      PROVE  /\ rec[c].pc = "write" /\ r \in rec[c].regions
             /\ y.status = rec[c].seen[r].status /\ y.copy = rec[c].seen[r].copy
             /\ \/ Turns(c, "next")
                \/ Turns(c, "inspect") /\ rec'[c].regions = rec[c].regions \ {r}
  <2>1. rec[c].pc = "write" /\ r \in rec[c].regions
    BY <1>0, <1>3, WriteEffect DEF SeenInv
  <2>. QED BY <1>0, <1>3, <2>1, WriteEffect DEF Sets
<1>4. ASSUME NEW n \in Nat, RecordReplica(a, r, n)
      PROVE  y.status = "ready" /\ y.copy = n /\ x.status # "ready"
  <2>1. y = Replica("ready", n, FALSE) /\ x.status # "ready"
    BY <1>0, <1>4, RecordReplicaEffect DEF Sets
  <2>. QED BY <2>1 DEF Replica
<1>5. CASE Late(a, r)
  <2>1. y.status = x.status /\ y.copy = x.copy /\ x.status = "pending"
    BY <1>0, <1>5, LateEffect DEF Sets
  <2>. QED BY <2>1
<1>. HIDE DEF x, y
<1>6. \/ y = x
      \/ \E p \in Procs : session[p].art = a /\ Record(p, r)
      \/ \E c \in Reconcilers : rec[c].art = a /\ rec[c].cur = r /\ Write(c)
      \/ \E n \in Nat : RecordReplica(a, r, n)
      \/ Late(a, r)
  BY ReplicaChange DEF x, y
<1>. QED BY <1>1, <1>2, <1>3, <1>4, <1>5, <1>6 DEF x, y

LEMMA NamedStep ==
    ASSUME TypeInv, NamedInv, AnswerInv, SeenCopyInv, [Next]_vars
    PROVE  NamedInv'
<1>. SUFFICES ASSUME NEW a \in Artifacts, NEW r \in Regions
     PROVE replica'[a][r].copy <= Len(copies'[a][r])
  BY DEF NamedInv
<1>0. TypeOK
  BY DEF TypeInv
<1>. DEFINE len == Len(copies[a][r])
            n == replica'[a][r].copy
<1>1. len \in Nat /\ Len(copies'[a][r]) \in Nat /\ Len(copies'[a][r]) >= len
  BY CopyChange DEF Later
<1>2. n \in Nat
  <2>1. replica'[a][r] \in ReplicaType
    BY TypeInvStep DEF TypeInv, TypeOK
  <2>. QED BY <2>1, ReplicaParts
<1>3. replica[a][r].copy <= len
  BY DEF NamedInv
<1>4. \A p \in Procs : session[p].pc = "record" /\ session[p].art = a /\ r \in session[p].regions =>
         session[p].got[r] <= len
  BY DEF AnswerInv
<1>5. \A c \in Reconcilers : rec[c].pc = "write" /\ rec[c].art = a /\ r \in rec[c].regions =>
         rec[c].seen[r].copy <= len
  BY DEF SeenCopyInv
<1>6. ASSUME NEW k \in Nat, RecordReplica(a, r, k) PROVE k <= len
  <2>1. k \in 1 .. len
    BY <1>0, <1>6, RecordReplicaEffect
  <2>. QED BY <1>1, <2>1
<1>7. n <= len
  BY <1>3, <1>4, <1>5, <1>6, ReplicaValue
<1>. QED BY <1>1, <1>2, <1>7

LEMMA AnswerStep ==
    ASSUME TypeInv, AnswerInv, [Next]_vars
    PROVE  AnswerInv'
<1>. SUFFICES ASSUME NEW p \in Procs, session'[p].pc = "record", NEW r \in session'[p].regions
     PROVE session'[p].got[r] <= Len(copies'[session'[p].art][r])
  BY DEF AnswerInv
<1>0. TypeOK /\ SeenInv
  BY DEF TypeInv
<1>1. session'[p] \in SessionType /\ session'[p].art \in Artifacts
  <2>1. TypeOK'
    BY TypeInvStep DEF TypeInv
  <2>. QED BY <2>1 DEF TypeOK, At
<1>2. r \in Regions /\ session'[p].got[r] \in Nat
  BY <1>1, SessionParts
<1>. DEFINE a == session'[p].art
<1>3. /\ Len(copies[a][r]) \in Nat /\ Len(copies'[a][r]) \in Nat
      /\ Len(copies'[a][r]) >= Len(copies[a][r])
  BY <1>1, <1>2, CopyChange DEF Later
<1>4. ASSUME session[p].pc = "record", session[p].art = a, r \in session[p].regions,
             session'[p].got = session[p].got
      PROVE  session'[p].got[r] <= Len(copies'[a][r])
  <2>. DEFINE m == session'[p].got[r]  len == Len(copies[a][r])  longer == Len(copies'[a][r])
  <2>1. session[p].got[r] <= Len(copies[session[p].art][r])
    BY <1>4 DEF AnswerInv
  <2>2. session[p].got[r] = m
    BY <1>4
  <2>3. Len(copies[session[p].art][r]) = len
    BY <1>4
  <2>4. m <= len
    BY <2>1, <2>2, <2>3
  <2>5. m \in Nat /\ len \in Nat /\ longer \in Nat /\ longer >= len
    BY <1>2, <1>3
  <2>. HIDE DEF m, len, longer
  <2>6. m <= longer
    BY <2>4, <2>5
  <2>. QED BY <2>6 DEF m, longer
<1>5. CASE session'[p] = session[p]
  BY <1>4, <1>5
<1>6. CASE Sync(p)
  <2>1. /\ session'[p].regions = session[p].regions /\ session'[p].art = session[p].art
        /\ Grow(session[p].art, session[p].regions)
        /\ session'[p].got[r] = 0 \/ session'[p].got[r] = Len(copies[session[p].art][r]) + 1
    BY <1>0, <1>2, <1>6, SyncEffect DEF Keeps, SameWork
  <2>2. Len(copies'[a][r]) = Len(copies[a][r]) + 1
    BY <1>1, <1>2, <2>1 DEF Grow
  <2>. QED BY <1>2, <1>3, <2>1, <2>2
<1>7. ASSUME NEW s \in Regions, Record(p, s) PROVE session'[p].got[r] <= Len(copies'[a][r])
  <2>1. /\ session[p].pc = "record" /\ session'[p].art = session[p].art
        /\ session'[p].regions = session[p].regions \ {s} /\ session'[p].got = session[p].got
    BY <1>0, <1>7, RecordEffect DEF Keeps, SameWork, Moves
  <2>. QED BY <1>4, <2>1
<1>8. /\ ~Plan(p) /\ ~SyncRefused(p) /\ ~Share(p) /\ ~RecordShare(p) /\ ~Raise(p) /\ ~Dies(p)
  BY <1>0, PlanEffect, SyncRefusedEffect, ShareEffect, RecordShareEffect, RaiseEffect, DiesEffect DEF Moves
<1>9. p \in Operators => ~Executes(p)
  BY <1>0, ExecuteEffect DEF Executes, Moves
<1>10. p \in Workers => (\A j \in Jobs : ~Claim(p, j)) /\ ~Finish(p) /\ ~Refused(p)
  BY <1>0, ClaimEffect, FinishEffect, RefusedEffect DEF Moves
<1>. QED BY <1>5, <1>6, <1>7, <1>8, <1>9, <1>10, SessionChange

LEMMA SeenCopyStep ==
    ASSUME TypeInv, NamedInv, SeenCopyInv, [Next]_vars
    PROVE  SeenCopyInv'
<1>. SUFFICES ASSUME NEW c \in Reconcilers, rec'[c].pc \in {"inspect", "write"}, NEW r \in rec'[c].regions
     PROVE rec'[c].seen[r].copy <= Len(copies'[rec'[c].art][r])
  BY DEF SeenCopyInv
<1>0. TypeOK /\ SeenInv
  BY DEF TypeInv
<1>1. rec'[c] \in CycleType /\ rec'[c].art \in Artifacts
  <2>1. TypeOK'
    BY TypeInvStep DEF TypeInv
  <2>. QED BY <2>1 DEF TypeOK
<1>2. r \in Regions /\ rec'[c].seen[r] \in ReplicaType
  BY <1>1, CycleParts
<1>3. rec'[c].seen[r].copy \in Nat
  BY <1>2, ReplicaParts
<1>. DEFINE a == rec'[c].art
<1>4. /\ Len(copies[a][r]) \in Nat /\ Len(copies'[a][r]) \in Nat
      /\ Len(copies'[a][r]) >= Len(copies[a][r])
  BY <1>1, <1>2, CopyChange DEF Later
<1>5. ASSUME rec'[c].seen[r].copy <= Len(copies[a][r]) PROVE rec'[c].seen[r].copy <= Len(copies'[a][r])
  <2>. DEFINE m == rec'[c].seen[r].copy
              L == Len(copies[a][r])
              LL == Len(copies'[a][r])
  <2>1. m \in Nat /\ L \in Nat /\ LL \in Nat /\ LL >= L /\ m <= L
    BY <1>3, <1>4, <1>5
  <2>. HIDE DEF m, L, LL
  <2>2. m <= LL
    BY <2>1
  <2>. QED BY <2>2 DEF m, LL
<1>6. ASSUME rec[c].pc \in {"inspect", "write"}, rec[c].art = a, r \in rec[c].regions,
             rec'[c].seen[r].copy = rec[c].seen[r].copy
      PROVE  rec'[c].seen[r].copy <= Len(copies'[a][r])
  <2>1. rec[c].seen[r].copy <= Len(copies[a][r])
    BY <1>6 DEF SeenCopyInv
  <2>. QED BY <1>5, <1>6, <2>1
<1>7. CASE rec'[c] = rec[c]
  BY <1>6, <1>7
<1>8. CASE Load(c)
  <2>1. rec'[c].seen = replica[a]
    BY <1>0, <1>8, LoadEffect DEF Turns
  <2>2. replica[a][r].copy <= Len(copies[a][r])
    BY <1>1, <1>2 DEF NamedInv
  <2>. QED BY <1>5, <2>1, <2>2
<1>9. ASSUME NEW s \in Regions, Inspect(c, s) PROVE rec'[c].seen[r].copy <= Len(copies'[a][r])
  <2>1. /\ rec[c].pc = "inspect" /\ rec'[c].art = rec[c].art /\ rec'[c].regions = rec[c].regions
        /\ rec'[c].seen[s].copy = rec[c].seen[s].copy
        /\ \A q \in Regions \ {s} : rec'[c].seen[q] = rec[c].seen[q]
    BY <1>0, <1>9, InspectEffect DEF Turns
  <2>2. rec'[c].seen[r].copy = rec[c].seen[r].copy
    BY <1>2, <2>1
  <2>. QED BY <1>6, <2>1, <2>2
<1>10. CASE Write(c)
  <2>1. /\ rec[c].pc = "write" /\ rec'[c].art = rec[c].art /\ rec'[c].seen = rec[c].seen
        /\ rec'[c].regions = rec[c].regions \ {rec[c].cur}
    BY <1>0, <1>10, WriteEffect DEF Turns
  <2>. QED BY <1>6, <2>1
<1>11. ~Between(c)
  BY <1>0, BetweenEffect DEF Between, Turns
<1>. QED BY <1>7, <1>8, <1>9, <1>10, <1>11, RecChange

(* A replica that is called ready, or is about to be, names a usable image. *)
Usable(C, a, r, n) == n \in 1 .. Len(C[a][r]) /\ C[a][r][n] = "normal"
ReadyInv ==
    /\ \A a \in Artifacts, r \in Regions :
          replica[a][r].status = "ready" => Usable(copies, a, r, replica[a][r].copy)
    /\ \A c \in Reconcilers : (rec[c].pc = "write" /\ rec[c].seen[rec[c].cur].status = "ready") =>
          Usable(copies, rec[c].art, rec[c].cur, rec[c].seen[rec[c].cur].copy)

LEMMA UsableStays ==
    ASSUME TypeInv, [Next]_vars, NEW a \in Artifacts, NEW r \in Regions, NEW n, Usable(copies, a, r, n)
    PROVE  Usable(copies', a, r, n)
<1>1. /\ Len(copies[a][r]) \in Nat /\ Len(copies'[a][r]) \in Nat
      /\ Len(copies'[a][r]) >= Len(copies[a][r])
      /\ \A m \in 1 .. Len(copies[a][r]) : copies[a][r][m] = "normal" => copies'[a][r][m] = "normal"
  BY CopyChange DEF Later
<1>2. n \in 1 .. Len(copies'[a][r])
  BY <1>1 DEF Usable
<1>. QED BY <1>1, <1>2 DEF Usable

LEMMA NormalIsUsable ==
    ASSUME TypeOK, NEW a \in Artifacts, NEW r \in Regions, NEW n \in Nat, n <= Len(copies[a][r])
    PROVE  StateOf(a, r, n) = "normal" <=> Usable(copies, a, r, n)
<1>1. Len(copies[a][r]) \in Nat
  BY NewestType
<1>. QED BY <1>1 DEF StateOf, Usable

LEMMA ReadyStep ==
    ASSUME TypeInv, NamedInv, SeenCopyInv, ReadyInv, [Next]_vars
    PROVE  ReadyInv'
<1>0. TypeOK /\ SeenInv
  BY DEF TypeInv
<1>1. ASSUME NEW a \in Artifacts, NEW r \in Regions, replica'[a][r].status = "ready"
      PROVE  Usable(copies', a, r, replica'[a][r].copy)
  <2>. DEFINE y == replica'[a][r]
  <2>1. CASE y.status = replica[a][r].status /\ y.copy = replica[a][r].copy
    BY <1>1, <2>1, UsableStays DEF ReadyInv
  <2>2. ASSUME NEW c \in Reconcilers, rec[c].pc = "write", rec[c].art = a, rec[c].cur = r,
               y.status = rec[c].seen[r].status, y.copy = rec[c].seen[r].copy
        PROVE  Usable(copies', a, r, y.copy)
    BY <1>1, <2>2, UsableStays DEF ReadyInv
  <2>3. ASSUME NEW n \in Nat, RecordReplica(a, r, n), y.copy = n PROVE Usable(copies', a, r, y.copy)
    <3>1. Usable(copies, a, r, n)
      BY <1>0, <2>3, RecordReplicaEffect DEF Usable
    <3>. QED BY <2>3, <3>1, UsableStays
  <2>. QED BY <1>1, <2>1, <2>2, <2>3, ReplicaValue
<1>2. ASSUME NEW c \in Reconcilers, rec'[c].pc = "write", rec'[c].seen[rec'[c].cur].status = "ready"
      PROVE  Usable(copies', rec'[c].art, rec'[c].cur, rec'[c].seen[rec'[c].cur].copy)
  <2>1. CASE rec'[c] = rec[c]
    <3>1. rec[c].art \in Artifacts /\ rec[c].cur \in Regions
      BY <1>0, <1>2, <2>1, There, CycleParts DEF SeenInv
    <3>. QED BY <1>2, <2>1, <3>1, UsableStays DEF ReadyInv
  <2>2. ASSUME NEW r \in Regions, Inspect(c, r)
        PROVE  Usable(copies', rec'[c].art, rec'[c].cur, rec'[c].seen[rec'[c].cur].copy)
    <3>1. /\ rec[c].pc = "inspect" /\ r \in rec[c].regions /\ rec'[c].art = rec[c].art /\ rec'[c].cur = r
          /\ rec'[c].seen[r].copy = rec[c].seen[r].copy
          /\ StateOf(rec[c].art, r, rec[c].seen[r].copy) = "normal"
      BY <1>0, <1>2, <2>2, InspectEffect DEF Turns
    <3>2. /\ rec[c].art \in Artifacts /\ rec[c].seen[r] \in ReplicaType
          /\ rec[c].seen[r].copy <= Len(copies[rec[c].art][r])
      BY <1>0, <3>1, There, CycleParts DEF SeenCopyInv
    <3>3. rec[c].seen[r].copy \in Nat
      BY <3>2, ReplicaParts
    <3>4. Usable(copies, rec[c].art, r, rec[c].seen[r].copy)
      BY <1>0, <3>1, <3>2, <3>3, NormalIsUsable
    <3>. QED BY <3>1, <3>2, <3>4, UsableStays
  <2>3. ~Between(c) /\ ~Load(c) /\ ~Write(c)
    BY <1>0, <1>2, BetweenEffect, LoadEffect, WriteEffect DEF Between, Turns
  <2>. QED BY <2>1, <2>2, <2>3, RecChange
<1>. QED BY <1>1, <1>2 DEF ReadyInv

CopyInv == TypeInv /\ NamedInv /\ AnswerInv /\ SeenCopyInv /\ ReadyInv

LEMMA CopyInitInv == Init => CopyInv
<1>. SUFFICES ASSUME Init PROVE CopyInv
  OBVIOUS
<1>1. TypeInv
  BY InitTypeInv
<1>2. \A a \in Artifacts, r \in Regions : replica[a][r].copy = 0 /\ replica[a][r].status = "none"
  BY MissingFields DEF Init
<1>3. \A p \in Procs : session[p].pc = "idle"
  BY NoSessionFields DEF Init
<1>4. \A c \in Reconcilers : rec[c].pc = "idle"
  BY NoCycleFields DEF Init
<1>5. NamedInv
  <2>1. ASSUME NEW a \in Artifacts, NEW r \in Regions PROVE 0 <= Len(copies[a][r])
    <3>1. Len(copies[a][r]) \in Nat
      BY <1>1, NewestType DEF TypeInv
    <3>. QED BY <3>1
  <2>. QED BY <1>2, <2>1 DEF NamedInv
<1>. QED BY <1>1, <1>2, <1>3, <1>4, <1>5 DEF CopyInv, AnswerInv, SeenCopyInv, ReadyInv

LEMMA CopyInvStep == CopyInv /\ [Next]_vars => CopyInv'
  BY TypeInvStep, NamedStep, AnswerStep, SeenCopyStep, ReadyStep DEF CopyInv

(* A replica that is called ready is a usable image, although the verdict   *)
(* of reconcile_distribution comes from an earlier look at the cloud, and   *)
(* that of record_replica from an operator.                                 *)
THEOREM ReadyIsUsable == Spec => []ReadyIsNormal
<1>1. CopyInv => ReadyIsNormal
  <2>. SUFFICES ASSUME CopyInv, NEW a \in Artifacts, NEW r \in Regions, replica[a][r].status = "ready"
       PROVE  StateOf(a, r, replica[a][r].copy) = "normal"
    BY DEF ReadyIsNormal
  <2>1. TypeOK /\ replica[a][r] \in ReplicaType
    BY DEF CopyInv, TypeInv, TypeOK
  <2>2. replica[a][r].copy \in Nat
    BY <2>1, ReplicaParts
  <2>. QED BY <2>1, <2>2, NormalIsUsable DEF CopyInv, NamedInv, ReadyInv
<1>. QED BY <1>1, CopyInitInv, CopyInvStep, PTL DEF Spec


-----------------------------------------------------------------------------
(* What has succeeded. *)

LEMMA Monotone ==
    ASSUME TypeInv, [Next]_vars
    PROVE  shares \cup dropped \subseteq shares' \cup dropped' /\ granted \subseteq granted' /\ raced \subseteq raced'
           /\ forgotten \subseteq forgotten'
<1>0. TypeOK /\ SeenInv
  BY DEF TypeInv
<1>. DEFINE Goal == shares \cup dropped \subseteq shares' \cup dropped' /\ granted \subseteq granted' /\ raced \subseteq raced'
                    /\ forgotten \subseteq forgotten'
<1>1. \A S : Forget(S) => forgotten \subseteq forgotten'
  BY DEF Forget
<1>2. \A a, R : Races(a, R) => raced \subseteq raced'
  BY DEF Races
<1>3. ASSUME NEW q \in Procs, Plan(q) \/ Sync(q) \/ SyncLost(q) \/ SyncRefused(q) PROVE Goal
  <2>1. Plan(q) => Goal
    BY <1>0, <1>2, PlanEffect
  <2>2. Sync(q) \/ SyncLost(q) => Goal
    BY <1>0, <1>1, SyncEffect, SyncLostEffect
  <2>3. SyncRefused(q) => Goal
    BY <1>0, SyncRefusedEffect
  <2>. QED BY <1>3, <2>1, <2>2, <2>3
<1>4. ASSUME NEW q \in Procs, NEW r \in Regions, Record(q, r) PROVE Goal
  <2>1. forgotten' = forgotten \/ \E S : Forget(S)
    BY <1>0, <1>4, RecordEffect
  <2>. QED BY <1>0, <1>1, <1>4, <2>1, RecordEffect
<1>5. ASSUME NEW q \in Procs, Share(q) \/ RecordShare(q) \/ Raise(q) \/ Dies(q) PROVE Goal
  <2>1. Share(q) => Goal
    BY <1>0, ShareEffect
  <2>2. RecordShare(q) => Goal
    BY <1>0, RecordShareEffect
  <2>3. Raise(q) \/ Dies(q) => Goal
    BY <1>0, <1>1, RaiseEffect, DiesEffect
  <2>. QED BY <1>5, <2>1, <2>2, <2>3
<1>6. /\ UNCHANGED vars => Goal
      /\ \A q \in Operators : Executes(q) => Goal
      /\ \A q \in Workers : (\E j \in Jobs : Claim(q, j)) \/ Finish(q) \/ Refused(q) => Goal
      /\ \A j \in Jobs : Enqueue(j) \/ LeaseEnds(j) => Goal
      /\ \A b \in Artifacts : Withdraw(b) \/ Register(b) => Goal
  BY <1>0, ExecuteEffect, ClaimEffect, FinishEffect, RefusedEffect, EnqueueEffect, LeaseEndsEffect,
     WithdrawEffect, RegisterEffect
     DEF vars, registry, cloud, history, Executes
<1>7. ASSUME NEW c \in Reconcilers, Between(c) \/ Load(c) \/ (\E s \in Regions : Inspect(c, s)) \/ Write(c)
      PROVE  Goal
  BY <1>0, <1>2, <1>7, BetweenEffect, LoadEffect, InspectEffect, WriteEffect DEF Between
<1>8. ASSUME NEW b \in Artifacts, NEW s \in Regions,
             Late(b, s) \/ \E n \in Nat : CopyDone(b, s, n) \/ CopyFails(b, s, n) \/ RecordReplica(b, s, n)
      PROVE  Goal
  BY <1>0, <1>1, <1>2, <1>8, LateEffect, CopyEffect, RecordReplicaEffect
<1>. HIDE DEF Goal
<1>9. Goal
  BY StepCases, <1>3, <1>4, <1>5, <1>6, <1>7, <1>8 DEF Between, Executes
<1>. QED BY <1>9 DEF Goal

(* The result of a job is in the document of its artifact. *)
Entered(R, S, j) ==
    IF j.mode = "sync" THEN R[j.art][j.region].status # "none" ELSE <<j.art, j.account>> \in S
Recorded(j)      == Entered(replica, (shares \cup dropped) \cap granted, j)
RecordedNext(j)  == Entered(replica', (shares' \cup dropped') \cap granted', j)

(* What a worker does for its job, and what it has done when it says so.   *)
Doing(s) ==
    /\ s.pc # "idle" => s.art = s.job.art
    /\ s.pc \in Serving => s.job.mode = "sync" /\ s.regions = {s.job.region}
    /\ s.pc \in Sharing => s.job.mode = "share"
WorkInv == /\ \A w \in Workers : Doing(session[w])
           /\ \A w \in Workers : session[w].pc = "record-share" =>
                 <<session[w].art, session[w].job.account>> \in granted
           /\ \A w \in Workers : session[w].pc = "finish" /\ session[w].ok => Recorded(session[w].job)

LEMMA RecordedStays ==
    ASSUME TypeInv, [Next]_vars, NEW j \in Jobs, Recorded(j)
    PROVE  RecordedNext(j)
<1>1. j.art \in Artifacts /\ j.region \in Regions
  BY DistributionAssumption
<1>2. CASE j.mode = "sync"
  <2>. DEFINE a == j.art
              r == j.region
  <2>1. replica[a][r].status # "none"
    BY <1>2 DEF Recorded, Entered
  <2>2. \A c \in Reconcilers : rec[c].pc = "write" => rec[c].seen[rec[c].cur].status # "none"
    BY DEF TypeInv, SeenInv
  <2>. HIDE DEF a, r
  <2>3. a \in Artifacts /\ r \in Regions
    BY <1>1 DEF a, r
  <2>4. replica'[a][r].status # "none"
    BY <2>1, <2>2, <2>3, ReplicaValue
  <2>. QED BY <1>2, <2>4 DEF RecordedNext, Entered, a, r
<1>3. CASE j.mode # "sync"
  BY <1>3, Monotone DEF Recorded, RecordedNext, Entered
<1>. QED BY <1>2, <1>3

LEMMA DoingStep ==
    ASSUME TypeInv, WorkInv, [Next]_vars, NEW w \in Workers
    PROVE  Doing(session'[w])
<1>. DEFINE s == session[w]
            t == session'[w]
<1>0. TypeOK /\ w \in Procs /\ w \notin Operators /\ Doing(s)
  BY DistributionAssumption DEF TypeInv, Procs, WorkInv
<1>1. CASE t = s
  BY <1>0, <1>1
<1>2. ASSUME NEW f, t.pc = f, s.pc # "idle", SameWork(s, t),
             \/ f \in {"idle", "finish"}
             \/ f \in Serving /\ s.pc \in Serving /\ t.regions = s.regions
             \/ f \in Sharing /\ s.pc \in Sharing
      PROVE  Doing(t)
  BY <1>0, <1>2 DEF Doing, SameWork, Serving, Sharing
<1>3. t.pc = "idle" => Doing(t)
  BY DEF Doing, Serving, Sharing
<1>. HIDE DEF s, t
<1>4. CASE Plan(w)
  <2>1. s.pc = "plan" /\ SameWork(s, t) /\ s.regions = {s.job.region}
    BY <1>0, <1>4, PlanEffect DEF Keeps, Doing, Serving, s, t
  <2>2. \/ t.pc = "sync" /\ t.regions = Wanted(s) /\ Wanted(s) # {}
        \/ t.pc = "finish"
    BY <1>0, <1>4, PlanEffect DEF Moves, s, t
  <2>3. Wanted(s) \subseteq s.regions
    BY DEF Wanted
  <2>4. t.pc = "sync" => t.regions = s.regions
    BY <2>1, <2>2, <2>3
  <2>. QED BY <1>2, <2>1, <2>2, <2>4 DEF Serving, t
<1>5. CASE Sync(w) \/ SyncRefused(w)
  <2>1. /\ s.pc = "sync" /\ SameWork(s, t)
        /\ \/ t.pc = "record" /\ t.regions = s.regions
           \/ t.pc = "finish"
    BY <1>0, <1>5, SyncEffect, SyncRefusedEffect DEF Moves, Keeps, s, t
  <2>. QED BY <1>2, <2>1 DEF Serving, t
<1>6. ASSUME NEW r \in Regions, Record(w, r) PROVE Doing(t)
  <2>1. s.pc = "record" /\ SameWork(s, t) /\ r \in s.regions /\ s.regions = {s.job.region}
    BY <1>0, <1>6, RecordEffect DEF Keeps, Doing, Serving, s, t
  <2>2. s.regions = {r}
    BY <2>1
  <2>3. t.pc = "finish"
    BY <1>0, <1>6, <2>2, RecordEffect DEF Moves, s, t
  <2>. QED BY <1>2, <2>1, <2>3
<1>7. CASE Share(w) \/ RecordShare(w)
  <2>1. s.pc \in Sharing /\ SameWork(s, t) /\ t.pc \in {"record-share", "finish"}
    BY <1>0, <1>7, ShareEffect, RecordShareEffect DEF Moves, Keeps, Sharing, s, t
  <2>. QED BY <1>2, <2>1 DEF Sharing, t
<1>8. CASE Raise(w)
  <2>1. s.pc # "idle" /\ SameWork(s, t) /\ t.pc = "finish"
    BY <1>0, <1>8, RaiseEffect DEF Moves, Keeps, Serving, Sharing, s, t
  <2>. QED BY <1>2, <2>1 DEF t
<1>9. CASE Dies(w) \/ Finish(w) \/ Refused(w)
  <2>1. t.pc = "idle"
    BY <1>0, <1>9, DiesEffect, FinishEffect, RefusedEffect DEF Moves, t
  <2>. QED BY <1>3, <2>1 DEF t
<1>10. ASSUME NEW j \in Jobs, Claim(w, j) PROVE Doing(t)
  <2>1. /\ t.pc = (IF j.mode = "sync" THEN "plan" ELSE "share") /\ t.job = j /\ t.art = j.art
        /\ t.regions = {j.region}
    BY <1>0, <1>10, ClaimEffect DEF Moves, t
  <2>2. j.mode \in {"sync", "share"}
    BY DistributionAssumption
  <2>. QED BY <2>1, <2>2 DEF Doing, Serving, Sharing
<1>. QED BY <1>0, <1>1, <1>4, <1>5, <1>6, <1>7, <1>8, <1>9, <1>10, SessionChange DEF s, t

LEMMA ResultsStep ==
    ASSUME TypeInv, WorkInv, [Next]_vars, NEW w \in Workers
    PROVE  /\ session'[w].pc = "record-share" => <<session'[w].art, session'[w].job.account>> \in granted'
           /\ session'[w].pc = "finish" /\ session'[w].ok => RecordedNext(session'[w].job)
<1>. DEFINE s == session[w]
            t == session'[w]
<1>0. /\ TypeOK /\ w \in Procs /\ w \notin Operators /\ Doing(s) /\ (s.pc # "idle" => s.job \in Jobs)
      /\ s.pc = "record-share" => <<s.art, s.job.account>> \in granted
      /\ s.pc = "finish" /\ s.ok => Recorded(s.job)
  BY Here, DistributionAssumption DEF TypeInv, Procs, WorkInv
<1>. HIDE DEF s, t
<1>. SUFFICES /\ t.pc = "record-share" => <<t.art, t.job.account>> \in granted'
              /\ t.pc = "finish" /\ t.ok => RecordedNext(t.job)
  BY DEF t
<1>1. ASSUME Recorded(s.job), s.pc # "idle" PROVE RecordedNext(s.job)
  BY <1>0, <1>1, RecordedStays
<1>2. CASE t = s
  BY <1>0, <1>1, <1>2, Monotone
<1>3. CASE Plan(w)
  <2>1. /\ s.pc = "plan" /\ t.job = s.job /\ s.job.mode = "sync" /\ s.regions = {s.job.region}
        /\ s.art = s.job.art
    BY <1>0, <1>3, PlanEffect DEF Keeps, SameWork, Doing, Serving, s, t
  <2>2. t.pc \in {"sync", "finish"} /\ (t.pc = "finish" /\ t.ok => Wanted(s) = {})
    BY <1>0, <1>3, PlanEffect DEF Moves, s, t
  <2>3. Wanted(s) = {} => Recorded(s.job)
    BY <2>1 DEF Wanted, NeedsCopy, Recorded, Entered
  <2>. QED BY <1>1, <2>1, <2>2, <2>3
<1>4. CASE Sync(w) \/ SyncRefused(w)
  <2>1. t.pc = "record" \/ (t.pc = "finish" /\ ~t.ok)
    BY <1>0, <1>4, SyncEffect, SyncRefusedEffect DEF Moves, t
  <2>. QED BY <2>1
<1>5. ASSUME NEW r \in Regions, Record(w, r)
      PROVE  t.pc = "finish" /\ (t.ok => RecordedNext(t.job))
  <2>1. /\ s.pc = "record" /\ t.job = s.job /\ r \in s.regions /\ s.regions = {s.job.region}
        /\ s.job.mode = "sync" /\ s.art = s.job.art
    BY <1>0, <1>5, RecordEffect DEF Keeps, SameWork, Doing, Serving, s, t
  <2>2. s.regions = {r} /\ r = s.job.region
    BY <2>1
  <2>3. t.pc = "finish"
    BY <1>0, <1>5, <2>2, RecordEffect DEF Moves, s, t
  <2>4. Sets(s.art, r, Replica("pending", s.got[r], FALSE)) \/ ~t.ok
    BY <1>0, <1>5, RecordEffect DEF s, t
  <2>5. Sets(s.art, r, Replica("pending", s.got[r], FALSE)) => replica'[s.art][r].status = "pending"
    BY DEF Sets, Replica
  <2>. QED BY <2>1, <2>2, <2>3, <2>4, <2>5 DEF RecordedNext, Entered
<1>6. CASE Share(w)
  <2>1. /\ s.pc = "share" /\ t.job = s.job /\ t.art = s.art
        /\ \/ t.pc = "record-share" /\ granted' = granted \cup {<<s.art, s.job.account>>}
           \/ t.pc = "finish" /\ ~t.ok
    BY <1>0, <1>6, ShareEffect DEF Moves, Keeps, SameWork, s, t
  <2>. QED BY <2>1
<1>7. CASE RecordShare(w)
  <2>1. /\ s.pc = "record-share" /\ t.job = s.job /\ t.pc = "finish" /\ granted' = granted
        /\ shares' = shares \cup {<<s.art, s.job.account>>}
    BY <1>0, <1>7, RecordShareEffect DEF Moves, Keeps, SameWork, s, t
  <2>2. s.job.mode = "share" /\ s.art = s.job.art
    BY <1>0, <2>1 DEF Doing, Sharing
  <2>. QED BY <1>0, <2>1, <2>2 DEF RecordedNext, Entered
<1>8. CASE Raise(w)
  <2>1. t.pc = "finish" /\ ~t.ok
    BY <1>0, <1>8, RaiseEffect DEF Moves, t
  <2>. QED BY <2>1
<1>9. CASE Dies(w) \/ Finish(w) \/ Refused(w)
  <2>1. t.pc = "idle"
    BY <1>0, <1>9, DiesEffect, FinishEffect, RefusedEffect DEF Moves, t
  <2>. QED BY <2>1
<1>10. ASSUME NEW j \in Jobs, Claim(w, j) PROVE t.pc \in {"plan", "share"}
  BY <1>0, <1>10, ClaimEffect DEF Moves, t
<1>. QED BY <1>0, <1>2, <1>3, <1>4, <1>5, <1>6, <1>7, <1>8, <1>9, <1>10, SessionChange DEF s, t

LEMMA WorkStep ==
    ASSUME TypeInv, WorkInv, [Next]_vars
    PROVE  WorkInv'
<1>1. WorkInv' = /\ \A w \in Workers : Doing(session'[w])
                 /\ \A w \in Workers : session'[w].pc = "record-share" =>
                       <<session'[w].art, session'[w].job.account>> \in granted'
                 /\ \A w \in Workers : session'[w].pc = "finish" /\ session'[w].ok =>
                       RecordedNext(session'[w].job)
  BY DEF WorkInv, Doing, Recorded, RecordedNext
<1>. QED BY <1>1, DoingStep, ResultsStep

LEMMA SucceededStep ==
    ASSUME TypeInv, WorkInv, SucceededIsRecorded, [Next]_vars
    PROVE  SucceededIsRecorded'
<1>. SUFFICES ASSUME NEW j \in Jobs, job'[j].status = "succeeded" PROVE RecordedNext(j)
  BY DEF SucceededIsRecorded, RecordedNext, Entered
<1>0. TypeOK
  BY DEF TypeInv
<1>1. CASE job[j].status = "succeeded"
  <2>1. Recorded(j)
    BY <1>1 DEF SucceededIsRecorded, Recorded, Entered
  <2>. QED BY <2>1, RecordedStays
<1>. SUFFICES ASSUME job[j].status # "succeeded" PROVE RecordedNext(j)
  BY <1>1
<1>2. ASSUME NEW w \in Workers, Finish(w) PROVE RecordedNext(j)
  <2>1. PICK status \in {"succeeded", "dead_letter", "queued"} :
           /\ status = "succeeded" => session[w].ok
           /\ Puts(session[w].job, JobRow(status, NoWorker, status, session[w].attempt, w))
    BY <1>0, <1>2, FinishEffect
  <2>2. session[w].pc = "finish" /\ session[w].job = j
    BY <1>0, <1>2, <2>1, FinishEffect DEF Puts
  <2>3. status = "succeeded"
    BY <2>1, <2>2 DEF Puts, JobRow
  <2>4. Recorded(j)
    BY <2>1, <2>2, <2>3 DEF WorkInv
  <2>. QED BY <2>4, RecordedStays
<1>3. ASSUME NEW w \in Workers, NEW i \in Jobs, Claim(w, i) PROVE FALSE
  <2>1. /\ job'[i] = JobRow("running", w, "running", job[i].attempt + 1, w)
        /\ \A k \in Jobs \ {i} : job'[k] = Swept(k)
    BY <1>0, <1>3, ClaimEffect
  <2>2. CASE i = j
    BY <2>1, <2>2 DEF JobRow
  <2>3. CASE i # j
    BY <1>0, <2>1, <2>3, SweptFields
  <2>. QED BY <2>2, <2>3
<1>4. ASSUME NEW i \in Jobs, Enqueue(i) \/ LeaseEnds(i) PROVE FALSE
  <2>1. \E x : Puts(i, x) /\ x.status # "succeeded"
    <3>1. CASE Enqueue(i)
      BY <1>0, <3>1, EnqueueEffect DEF JobRow
    <3>2. CASE LeaseEnds(i)
      <4>1. [job[i] EXCEPT !.due = TRUE].status = "running"
        BY <1>0, <3>2, LeaseEndsEffect DEF TypeOK, RowType
      <4>. QED BY <1>0, <3>2, <4>1, LeaseEndsEffect
    <3>. QED BY <1>4, <3>1, <3>2
  <2>. QED BY <2>1 DEF Puts
<1>5. ~Quiet
  BY DEF Quiet
<1>. QED BY <1>2, <1>3, <1>4, <1>5, QuietStep

SuccessInv == TypeInv /\ WorkInv /\ SucceededIsRecorded

LEMMA SuccessInitInv == Init => SuccessInv
<1>. SUFFICES ASSUME Init PROVE SuccessInv
  OBVIOUS
<1>1. \A w \in Workers : session[w].pc = "idle"
  BY NoSessionFields DEF Init, Procs
<1>2. \A j \in Jobs : job[j].status # "succeeded"
  BY DEF Init, JobRow
<1>. QED BY <1>1, <1>2, InitTypeInv DEF SuccessInv, WorkInv, Doing, Serving, Sharing, SucceededIsRecorded

LEMMA SuccessInvStep == SuccessInv /\ [Next]_vars => SuccessInv'
  BY TypeInvStep, WorkStep, SucceededStep DEF SuccessInv

(* A job that DistributionQueue.finish calls succeeded has left its result  *)
(* in the document of its artifact, and an account it was to share with has *)
(* been granted the image, whatever was withdrawn, lost, retried or         *)
(* recorded by others meanwhile. Only a later registration of the artifact  *)
(* takes a share out of the document again (register_release).              *)
THEOREM SuccessIsRecorded == Spec => []SucceededIsRecorded
<1>1. SuccessInv => SucceededIsRecorded
  BY DEF SuccessInv
<1>. QED BY <1>1, SuccessInitInv, SuccessInvStep, PTL DEF Spec


-----------------------------------------------------------------------------
(* Who works on a replica. *)

Copies(s, a, r) == s.pc \in {"sync", "record"} /\ s.art = a /\ r \in s.regions
Looks(k, a, r)  == k.pc \in {"inspect", "write"} /\ k.art = a /\ r \in k.regions

(* Nobody else works on the replica, and it is as whoever does has read it. *)
Alone(a, r) ==
    /\ \A p \in Procs : Copies(session[p], a, r) =>
          /\ replica[a][r].status \in {"none", "failed"}
          /\ \A q \in Procs \ {p} : ~Copies(session[q], a, r)
          /\ \A c \in Reconcilers : ~Looks(rec[c], a, r)
    /\ \A c \in Reconcilers : Looks(rec[c], a, r) =>
          /\ replica[a][r].status = "pending" /\ rec[c].seen[r].copy = replica[a][r].copy
          /\ \A d \in Reconcilers \ {c} : ~Looks(rec[d], a, r)
AloneInv == \A a \in Artifacts, r \in Regions : <<a, r>> \notin raced => Alone(a, r)

LEMMA BusyMeans ==
    ASSUME NEW a, NEW r
    PROVE  ~Busy(a, r) <=> /\ \A p \in Procs : ~Copies(session[p], a, r)
                           /\ \A c \in Reconcilers : ~Looks(rec[c], a, r)
  BY DEF Busy, Copier, Observer, Copies, Looks

LEMMA RacesMeans ==
    ASSUME NEW a, NEW R, NEW r \in R, Races(a, R), <<a, r>> \notin raced'
    PROVE  ~Busy(a, r)
<1>1. <<a, r>> \in {a} \X R /\ <<a, r>>[2] = r
  OBVIOUS
<1>. QED BY <1>1 DEF Races

(* A process begins to work on a replica that it has just read, alone or   *)
(* noticed.                                                                 *)
LEMMA CopierChange ==
    ASSUME TypeInv, [Next]_vars, NEW a \in Artifacts, NEW r \in Regions, <<a, r>> \notin raced',
           NEW p \in Procs, Copies(session'[p], a, r), ~Copies(session[p], a, r)
    PROVE  /\ replica[a][r].status \in {"none", "failed"} /\ ~Busy(a, r)
           /\ replica' = replica /\ rec' = rec
           /\ \A q \in Procs \ {p} : session'[q] = session[q]
<1>0. TypeOK /\ SeenInv
  BY DEF TypeInv
<1>1. session'[p] # session[p]
  OBVIOUS
<1>2. CASE Plan(p)
  <2>1. /\ session'[p].art = session[p].art /\ session'[p].regions = Wanted(session[p])
        /\ Races(session[p].art, Wanted(session[p])) /\ replica' = replica /\ rec' = rec
        /\ \A q \in Procs \ {p} : session'[q] = session[q]
    BY <1>0, <1>2, PlanEffect DEF Moves, Keeps, SameWork, Copies
  <2>2. r \in Wanted(session[p]) /\ session[p].art = a
    BY <2>1 DEF Copies
  <2>3. ~Busy(a, r)
    BY <2>1, <2>2, RacesMeans
  <2>4. replica[a][r] \in ReplicaType
    BY <1>0 DEF TypeOK
  <2>5. replica[a][r].status \in {"none", "failed"}
    BY <2>2, <2>4, ReplicaParts DEF Wanted, NeedsCopy
  <2>. QED BY <2>1, <2>3, <2>5
<1>3. ~Sync(p)
  BY <1>0, SyncEffect DEF Moves, Keeps, SameWork, Copies
<1>4. ~SyncRefused(p) /\ ~Share(p) /\ ~RecordShare(p) /\ ~Raise(p) /\ ~Dies(p)
  BY <1>0, SyncRefusedEffect, ShareEffect, RecordShareEffect, RaiseEffect, DiesEffect DEF Moves, Copies
<1>5. ASSUME NEW s \in Regions, Record(p, s) PROVE FALSE
  <2>1. /\ session[p].pc = "record" /\ session'[p].art = session[p].art
        /\ session'[p].regions = session[p].regions \ {s}
    BY <1>0, <1>5, RecordEffect DEF Moves, Keeps, SameWork, Copies
  <2>. QED BY <2>1 DEF Copies
<1>6. p \in Operators => ~Executes(p)
  BY <1>0, ExecuteEffect DEF Executes, Moves, Copies
<1>7. p \in Workers => (\A j \in Jobs : ~Claim(p, j)) /\ ~Finish(p) /\ ~Refused(p)
  BY <1>0, ClaimEffect, FinishEffect, RefusedEffect DEF Moves, Copies
<1>. QED BY <1>1, <1>2, <1>3, <1>4, <1>5, <1>6, <1>7, SessionChange

LEMMA ObserverChange ==
    ASSUME TypeInv, [Next]_vars, NEW a \in Artifacts, NEW r \in Regions, <<a, r>> \notin raced',
           NEW c \in Reconcilers, Looks(rec'[c], a, r)
    PROVE  \/ Looks(rec[c], a, r) /\ rec'[c].seen[r].copy = rec[c].seen[r].copy
           \/ /\ replica[a][r].status = "pending" /\ rec'[c].seen[r].copy = replica[a][r].copy
              /\ ~Busy(a, r) /\ replica' = replica /\ session' = session
              /\ \A d \in Reconcilers \ {c} : rec'[d] = rec[d]
<1>0. TypeOK /\ SeenInv
  BY DEF TypeInv
<1>1. CASE rec'[c] = rec[c]
  BY <1>1
<1>2. CASE Load(c)
  <2>1. PICK b \in Artifacts :
          /\ Races(b, Pending(b)) /\ Turns(c, "inspect") /\ rec'[c].art = b
          /\ rec'[c].regions = Pending(b) /\ rec'[c].seen = replica[b]
    BY <1>0, <1>2, LoadEffect DEF Turns, Looks
  <2>2. b = a /\ r \in Pending(a)
    BY <2>1 DEF Looks
  <2>3. ~Busy(a, r)
    BY <2>1, <2>2, RacesMeans
  <2>4. replica' = replica /\ session' = session /\ \A d \in Reconcilers \ {c} : rec'[d] = rec[d]
    BY <1>0, <1>2, <2>1, LoadEffect DEF Turns
  <2>. QED BY <2>1, <2>2, <2>3, <2>4 DEF Pending
<1>3. ASSUME NEW s \in Regions, Inspect(c, s)
      PROVE  Looks(rec[c], a, r) /\ rec'[c].seen[r].copy = rec[c].seen[r].copy
  <2>1. /\ rec[c].pc = "inspect" /\ rec'[c].art = rec[c].art /\ rec'[c].regions = rec[c].regions
        /\ rec'[c].seen[s].copy = rec[c].seen[s].copy
        /\ \A q \in Regions \ {s} : rec'[c].seen[q] = rec[c].seen[q]
    BY <1>0, <1>3, InspectEffect DEF Turns, Looks
  <2>. QED BY <2>1 DEF Looks
<1>4. CASE Write(c)
  <2>1. /\ rec[c].pc = "write" /\ rec'[c].art = rec[c].art /\ rec'[c].seen = rec[c].seen
        /\ rec'[c].regions = rec[c].regions \ {rec[c].cur}
    BY <1>0, <1>4, WriteEffect DEF Turns, Looks
  <2>. QED BY <2>1 DEF Looks
<1>5. ~Between(c)
  BY <1>0, BetweenEffect DEF Between, Turns, Looks
<1>. QED BY <1>1, <1>2, <1>3, <1>4, <1>5, RecChange

(* Whoever changes a replica, beyond its lateness, stops to work on it.    *)
LEMMA WriterChange ==
    ASSUME TypeInv, [Next]_vars, NEW a \in Artifacts, NEW r \in Regions, <<a, r>> \notin raced',
           ~(replica'[a][r].status = replica[a][r].status /\ replica'[a][r].copy = replica[a][r].copy)
    PROVE  \/ \E p \in Procs :
                 /\ Copies(session[p], a, r) /\ ~Copies(session'[p], a, r)
                 /\ rec' = rec /\ \A q \in Procs \ {p} : session'[q] = session[q]
           \/ \E c \in Reconcilers :
                 /\ Looks(rec[c], a, r) /\ ~Looks(rec'[c], a, r)
                 /\ session' = session /\ \A d \in Reconcilers \ {c} : rec'[d] = rec[d]
           \/ ~Busy(a, r) /\ session' = session /\ rec' = rec
<1>0. TypeOK /\ SeenInv
  BY DEF TypeInv
<1>1. ASSUME NEW p \in Procs, session[p].pc = "record", session[p].art = a, r \in session[p].regions,
             Record(p, r),
             \/ session[p].regions = {r} /\ Moves(p, "finish")
             \/ Moves(p, "record") /\ session'[p].regions = session[p].regions \ {r}
      PROVE  /\ Copies(session[p], a, r) /\ ~Copies(session'[p], a, r)
             /\ rec' = rec /\ \A q \in Procs \ {p} : session'[q] = session[q]
  <2>1. rec' = rec
    BY <1>0, <1>1, RecordEffect
  <2>. QED BY <1>1, <2>1 DEF Copies, Moves
<1>2. ASSUME NEW c \in Reconcilers, rec[c].pc = "write", rec[c].art = a, r \in rec[c].regions, Write(c),
             \/ Turns(c, "next")
             \/ Turns(c, "inspect") /\ rec'[c].regions = rec[c].regions \ {r}
      PROVE  /\ Looks(rec[c], a, r) /\ ~Looks(rec'[c], a, r)
             /\ session' = session /\ \A d \in Reconcilers \ {c} : rec'[d] = rec[d]
  <2>1. session' = session
    BY <1>0, <1>2, WriteEffect
  <2>. QED BY <1>2, <2>1 DEF Looks, Turns
<1>3. ASSUME NEW n \in Nat, RecordReplica(a, r, n) PROVE ~Busy(a, r) /\ session' = session /\ rec' = rec
  <2>1. Races(a, {r}) /\ session' = session /\ rec' = rec
    BY <1>0, <1>3, RecordReplicaEffect
  <2>. QED BY <2>1, RacesMeans
<1>. QED BY <1>1, <1>2, <1>3, ReplicaValue

LEMMA AloneStep ==
    ASSUME TypeInv, AloneInv, [Next]_vars
    PROVE  AloneInv'
<1>. SUFFICES ASSUME NEW a \in Artifacts, NEW r \in Regions, <<a, r>> \notin raced' PROVE Alone(a, r)'
  BY DEF AloneInv
<1>1. Alone(a, r)
  BY Monotone DEF AloneInv
<1>2. CASE replica'[a][r].status = replica[a][r].status /\ replica'[a][r].copy = replica[a][r].copy
  <2>1. ASSUME NEW p \in Procs, Copies(session'[p], a, r)
        PROVE  /\ replica'[a][r].status \in {"none", "failed"}
               /\ \A q \in Procs \ {p} : ~Copies(session'[q], a, r)
               /\ \A c \in Reconcilers : ~Looks(rec'[c], a, r)
    <3>1. CASE Copies(session[p], a, r)
      <4>1. /\ replica[a][r].status \in {"none", "failed"} /\ Busy(a, r)
            /\ \A q \in Procs \ {p} : ~Copies(session[q], a, r)
            /\ \A c \in Reconcilers : ~Looks(rec[c], a, r)
        BY <1>1, <3>1, BusyMeans DEF Alone
      <4>2. \A q \in Procs \ {p} : ~Copies(session'[q], a, r)
        BY <4>1, CopierChange
      <4>3. \A c \in Reconcilers : ~Looks(rec'[c], a, r)
        BY <4>1, ObserverChange
      <4>. QED BY <1>2, <4>1, <4>2, <4>3
    <3>2. CASE ~Copies(session[p], a, r)
      <4>1. /\ replica[a][r].status \in {"none", "failed"} /\ ~Busy(a, r) /\ rec' = rec
            /\ \A q \in Procs \ {p} : session'[q] = session[q]
        BY <2>1, <3>2, CopierChange
      <4>. QED BY <1>2, <4>1, BusyMeans
    <3>. QED BY <3>1, <3>2
  <2>2. ASSUME NEW c \in Reconcilers, Looks(rec'[c], a, r)
        PROVE  /\ replica'[a][r].status = "pending" /\ rec'[c].seen[r].copy = replica'[a][r].copy
               /\ \A d \in Reconcilers \ {c} : ~Looks(rec'[d], a, r)
    <3>1. CASE Looks(rec[c], a, r) /\ rec'[c].seen[r].copy = rec[c].seen[r].copy
      <4>1. /\ replica[a][r].status = "pending" /\ rec[c].seen[r].copy = replica[a][r].copy /\ Busy(a, r)
            /\ \A d \in Reconcilers \ {c} : ~Looks(rec[d], a, r)
        BY <1>1, <3>1, BusyMeans DEF Alone
      <4>2. \A d \in Reconcilers \ {c} : ~Looks(rec'[d], a, r)
        BY <4>1, ObserverChange
      <4>. QED BY <1>2, <3>1, <4>1, <4>2
    <3>2. CASE ~(Looks(rec[c], a, r) /\ rec'[c].seen[r].copy = rec[c].seen[r].copy)
      <4>1. /\ replica[a][r].status = "pending" /\ rec'[c].seen[r].copy = replica[a][r].copy
            /\ ~Busy(a, r) /\ \A d \in Reconcilers \ {c} : rec'[d] = rec[d]
        BY <2>2, <3>2, ObserverChange
      <4>. QED BY <1>2, <4>1, BusyMeans
    <3>. QED BY <3>1, <3>2
  <2>. QED BY <2>1, <2>2 DEF Alone
<1>3. CASE ~(replica'[a][r].status = replica[a][r].status /\ replica'[a][r].copy = replica[a][r].copy)
  <2>1. /\ \A p \in Procs : ~Copies(session'[p], a, r)
        /\ \A c \in Reconcilers : ~Looks(rec'[c], a, r)
    <3>1. ASSUME NEW p \in Procs, Copies(session[p], a, r), ~Copies(session'[p], a, r),
                 rec' = rec, \A q \in Procs \ {p} : session'[q] = session[q]
          PROVE  /\ \A q \in Procs : ~Copies(session'[q], a, r)
                 /\ \A c \in Reconcilers : ~Looks(rec'[c], a, r)
      BY <1>1, <3>1 DEF Alone
    <3>2. ASSUME NEW c \in Reconcilers, Looks(rec[c], a, r), ~Looks(rec'[c], a, r),
                 session' = session, \A d \in Reconcilers \ {c} : rec'[d] = rec[d]
          PROVE  /\ \A q \in Procs : ~Copies(session'[q], a, r)
                 /\ \A d \in Reconcilers : ~Looks(rec'[d], a, r)
      BY <1>1, <3>2 DEF Alone
    <3>3. ASSUME ~Busy(a, r), session' = session, rec' = rec
          PROVE  /\ \A q \in Procs : ~Copies(session'[q], a, r)
                 /\ \A d \in Reconcilers : ~Looks(rec'[d], a, r)
      BY <3>3, BusyMeans
    <3>. QED BY <1>3, <3>1, <3>2, <3>3, WriterChange
  <2>. QED BY <2>1 DEF Alone
<1>. QED BY <1>2, <1>3

(* A replica that is ready changes only when two processes work on it at    *)
(* once: execute_distribution copies what it has found missing or failed,   *)
(* and reconcile_distribution decides what it has found pending.            *)
THEOREM ReadyIsKept == Spec => ReadyStays
<1>. DEFINE Stays == \A a \in Artifacts, r \in Regions :
              (replica[a][r].status = "ready" /\ <<a, r>> \notin raced') => replica'[a][r] = replica[a][r]
<1>1. ASSUME TypeInv, AloneInv, [Next]_vars PROVE Stays
  <2>. SUFFICES ASSUME NEW a \in Artifacts, NEW r \in Regions, replica[a][r].status = "ready",
                       <<a, r>> \notin raced'
       PROVE  replica'[a][r] = replica[a][r]
    OBVIOUS
  <2>1. Alone(a, r)
    BY <1>1, Monotone DEF AloneInv
  <2>2. \A p \in Procs : ~Copies(session[p], a, r)
    BY <2>1 DEF Alone
  <2>3. \A c \in Reconcilers : ~Looks(rec[c], a, r)
    BY <2>1 DEF Alone
  <2>. QED BY <1>1, <2>2, <2>3, ReplicaValue DEF Copies, Looks
<1>2. Init => AloneInv
  <2>. SUFFICES ASSUME Init PROVE AloneInv
    OBVIOUS
  <2>1. \A p \in Procs : session[p].pc = "idle"
    BY NoSessionFields DEF Init
  <2>2. \A c \in Reconcilers : rec[c].pc = "idle"
    BY NoCycleFields DEF Init
  <2>. QED BY <2>1, <2>2 DEF AloneInv, Alone, Copies, Looks
<1>3. TypeInv /\ AloneInv /\ [Next]_vars => TypeInv' /\ AloneInv'
  BY TypeInvStep, AloneStep
<1>4. TypeInv /\ AloneInv /\ [Next]_vars => [Stays]_vars
  BY <1>1
<1>. QED BY <1>2, <1>3, <1>4, InitTypeInv, PTL DEF Spec, ReadyStays


-----------------------------------------------------------------------------
(* No copy is lost sight of. *)

EmptyInv == \A a \in Artifacts, r \in Regions : replica[a][r].status = "none" => replica[a][r].copy = 0

LEMMA EmptyStep ==
    ASSUME TypeInv, EmptyInv, [Next]_vars
    PROVE  EmptyInv'
<1>. SUFFICES ASSUME NEW a \in Artifacts, NEW r \in Regions, replica'[a][r].status = "none"
     PROVE  replica'[a][r].copy = 0
  BY DEF EmptyInv
<1>1. \A c \in Reconcilers : rec[c].pc = "write" => rec[c].seen[rec[c].cur].status # "none"
  BY DEF TypeInv, SeenInv
<1>2. replica'[a][r].status = replica[a][r].status /\ replica'[a][r].copy = replica[a][r].copy
  BY <1>1, ReplicaValue
<1>. QED BY <1>2 DEF EmptyInv

Holding(s, a, r, n) == s.pc = "record" /\ s.art = a /\ r \in s.regions /\ s.got[r] = n

LEMMA InHandMeans ==
    ASSUME NEW p, NEW a, NEW r, NEW n
    PROVE  <<a, r, n>> \in InHand(p) <=> Holding(session[p], a, r, n)
  BY DEF InHand, Holding, At

LEMMA InHandNext ==
    ASSUME NEW p, NEW a, NEW r, NEW n
    PROVE  (<<a, r, n>> \in InHand(p))' <=> Holding(session'[p], a, r, n)
  BY DEF InHand, Holding, At

(* The copy n of a in r is named, about to be, or given up. *)
Tracked(a, r, n) ==
    \/ replica[a][r].copy = n \/ <<a, r, n>> \in forgotten
    \/ \E p \in Procs : Holding(session[p], a, r, n)
TrackedNext(a, r, n) ==
    \/ replica'[a][r].copy = n \/ <<a, r, n>> \in forgotten'
    \/ \E p \in Procs : Holding(session'[p], a, r, n)

LEMMA ForgetMeans ==
    ASSUME NEW S, Forget(S), NEW x \in S
    PROVE  x \in forgotten'
  BY DEF Forget

(* A copy that a process holds is recorded or given up when it lets go.    *)
LEMMA HoldingStep ==
    ASSUME TypeInv, [Next]_vars, NEW a \in Artifacts, NEW r \in Regions, NEW n, NEW p \in Procs,
           Holding(session[p], a, r, n)
    PROVE  TrackedNext(a, r, n)
<1>0. TypeOK /\ SeenInv /\ session[p].pc = "record" /\ <<a, r, n>> \in InHand(p)
  BY InHandMeans DEF TypeInv, Holding
<1>1. CASE session'[p] = session[p]
  BY <1>1 DEF TrackedNext
<1>2. ASSUME Forget(InHand(p)) PROVE TrackedNext(a, r, n)
  BY <1>0, <1>2, ForgetMeans DEF TrackedNext
<1>3. CASE Raise(p) \/ Dies(p)
  BY <1>0, <1>2, <1>3, RaiseEffect, DiesEffect
<1>4. ASSUME NEW s \in Regions, Record(p, s) PROVE TrackedNext(a, r, n)
  <2>1. CASE Forget(InHand(p))
    BY <1>2, <2>1
  <2>2. CASE ~Forget(InHand(p))
    <3>1. /\ Sets(session[p].art, s, Replica("pending", session[p].got[s], FALSE))
          /\ session'[p].art = session[p].art
          /\ \/ session[p].regions = {s}
             \/ /\ Moves(p, "record") /\ session'[p].regions = session[p].regions \ {s}
                /\ session'[p].got = session[p].got
      BY <1>0, <1>4, <2>2, RecordEffect DEF Keeps, SameWork
    <3>2. CASE s = r
      <4>1. replica'[a][r] = Replica("pending", n, FALSE)
        BY <3>1, <3>2 DEF Sets, Holding
      <4>. QED BY <4>1 DEF TrackedNext, Replica
    <3>3. CASE s # r
      <4>1. Holding(session'[p], a, r, n)
        BY <3>1, <3>3 DEF Holding, Moves
      <4>. QED BY <4>1 DEF TrackedNext
    <3>. QED BY <3>2, <3>3
  <2>. QED BY <2>1, <2>2
<1>5. ~Plan(p) /\ ~Sync(p) /\ ~SyncRefused(p) /\ ~Share(p) /\ ~RecordShare(p)
  BY <1>0, PlanEffect, SyncEffect, SyncRefusedEffect, ShareEffect, RecordShareEffect
<1>6. p \in Operators => ~Executes(p)
  BY <1>0, ExecuteEffect DEF Executes
<1>7. p \in Workers => (\A j \in Jobs : ~Claim(p, j)) /\ ~Finish(p) /\ ~Refused(p)
  BY <1>0, ClaimEffect, FinishEffect, RefusedEffect
<1>. QED BY <1>1, <1>3, <1>4, <1>5, <1>6, <1>7, SessionChange

(* A copy that a replica names is named by it, or superseded.              *)
LEMMA NamedCopyStep ==
    ASSUME TypeInv, AloneInv, EmptyInv, [Next]_vars, NEW a \in Artifacts, NEW r \in Regions,
           <<a, r>> \notin raced', replica[a][r].copy # 0
    PROVE  TrackedNext(a, r, replica[a][r].copy)
<1>. DEFINE x == replica[a][r]
            y == replica'[a][r]
<1>0. TypeOK /\ SeenInv /\ Alone(a, r) /\ x.status # "none"
  BY Monotone DEF TypeInv, AloneInv, EmptyInv
<1>1. <<a, r, x.copy>> \in Superseded(a, r)
  BY DEF Superseded
<1>2. ASSUME Forget(Superseded(a, r)) PROVE TrackedNext(a, r, x.copy)
  BY <1>1, <1>2, ForgetMeans DEF TrackedNext
<1>3. ASSUME y.copy = x.copy PROVE TrackedNext(a, r, x.copy)
  BY <1>3 DEF TrackedNext
<1>4. ASSUME NEW p \in Procs, session[p].pc = "record", session[p].art = a, r \in session[p].regions,
             IF x.status = "failed" THEN Forget(Superseded(a, r)) ELSE UNCHANGED forgotten
      PROVE  TrackedNext(a, r, x.copy)
  <2>1. Copies(session[p], a, r)
    BY <1>4 DEF Copies
  <2>2. x.status = "failed"
    BY <1>0, <2>1 DEF Alone
  <2>. QED BY <1>2, <1>4, <2>2
<1>5. ASSUME NEW c \in Reconcilers, rec[c].pc = "write", rec[c].art = a, r \in rec[c].regions,
             y.copy = rec[c].seen[r].copy
      PROVE  TrackedNext(a, r, x.copy)
  <2>1. Looks(rec[c], a, r)
    BY <1>5 DEF Looks
  <2>2. rec[c].seen[r].copy = x.copy
    BY <1>0, <2>1 DEF Alone
  <2>. QED BY <1>3, <1>5, <2>2
<1>6. ASSUME NEW n \in Nat, RecordReplica(a, r, n) PROVE TrackedNext(a, r, x.copy)
  BY <1>0, <1>2, <1>6, RecordReplicaEffect
<1>. HIDE DEF x, y
<1>. QED BY <1>3, <1>4, <1>5, <1>6, ReplicaValue DEF x, y

(* A copy that begins is held, or its answer is lost. *)
LEMMA NewCopyStep ==
    ASSUME TypeInv, [Next]_vars, NEW a \in Artifacts, NEW r \in Regions, NEW p \in Procs, Begins(p, a, r)
    PROVE  TrackedNext(a, r, Len(copies[a][r]) + 1)
<1>. DEFINE n == Len(copies[a][r]) + 1
<1>0. TypeOK /\ session[p].art = a /\ r \in session[p].regions /\ Newest(a, r) = n
  BY DEF TypeInv, Begins, Newest
<1>. HIDE DEF n
<1>1. CASE SyncLost(p)
  <2>1. Forget({<<a, s, Newest(a, s)>> : s \in session[p].regions})
    BY <1>0, <1>1, SyncLostEffect
  <2>2. <<a, r, n>> \in {<<a, s, Newest(a, s)>> : s \in session[p].regions}
    BY <1>0
  <2>3. <<a, r, n>> \in forgotten'
    BY <2>1, <2>2, ForgetMeans
  <2>. QED BY <2>3 DEF TrackedNext, n
<1>2. CASE Sync(p)
  <2>1. PICK lost \in SUBSET session[p].regions :
           /\ \A s \in Regions : session'[p].got[s] = IF s \in lost THEN 0 ELSE Len(copies[session[p].art][s]) + 1
           /\ Forget({<<session[p].art, s, Newest(session[p].art, s)>> : s \in lost})
    BY <1>0, <1>2, SyncEffect
  <2>2. CASE r \in lost
    <3>1. <<a, r, n>> \in {<<a, s, Newest(a, s)>> : s \in lost}
      BY <1>0, <2>2
    <3>2. <<a, r, n>> \in forgotten'
      BY <1>0, <2>1, <3>1, ForgetMeans
    <3>. QED BY <3>2 DEF TrackedNext, n
  <2>3. CASE r \notin lost
    <3>1. session'[p].got[r] = n
      BY <1>0, <2>1, <2>3 DEF n
    <3>2. session'[p].pc = "record" /\ session'[p].art = a /\ r \in session'[p].regions
      BY <1>0, <1>2, SyncEffect DEF Moves, Keeps, SameWork
    <3>3. Holding(session'[p], a, r, n)
      BY <3>1, <3>2 DEF Holding
    <3>. QED BY <3>3 DEF TrackedNext, n
  <2>. QED BY <2>2, <2>3
<1>. QED BY <1>1, <1>2 DEF Begins

TrackInv == \A a \in Artifacts, r \in Regions : <<a, r>> \notin raced =>
               \A n \in 1 .. Len(copies[a][r]) : Tracked(a, r, n)

LEMMA TrackStep ==
    ASSUME TypeInv, AloneInv, EmptyInv, TrackInv, [Next]_vars
    PROVE  TrackInv'
<1>. SUFFICES ASSUME NEW a \in Artifacts, NEW r \in Regions, <<a, r>> \notin raced',
                     NEW n \in 1 .. Len(copies'[a][r])
     PROVE  TrackedNext(a, r, n)
  BY DEF TrackInv, Tracked, TrackedNext, Holding
<1>1. Len(copies[a][r]) \in Nat /\ Len(copies'[a][r]) \in Nat
  BY CopyChange
<1>2. CASE n \in 1 .. Len(copies[a][r])
  <2>1. Tracked(a, r, n) /\ n # 0
    BY <1>1, <1>2, Monotone DEF TrackInv
  <2>2. CASE replica[a][r].copy = n
    BY <2>1, <2>2, NamedCopyStep
  <2>3. CASE <<a, r, n>> \in forgotten
    BY <2>3, Monotone DEF TrackedNext
  <2>4. ASSUME NEW p \in Procs, Holding(session[p], a, r, n) PROVE TrackedNext(a, r, n)
    BY <2>4, HoldingStep
  <2>. QED BY <2>1, <2>2, <2>3, <2>4 DEF Tracked
<1>3. CASE n \notin 1 .. Len(copies[a][r])
  <2>1. Len(copies'[a][r]) # Len(copies[a][r])
    BY <1>3
  <2>2. PICK p \in Procs : Len(copies'[a][r]) = Len(copies[a][r]) + 1 /\ Begins(p, a, r)
    BY <2>1, CopyChange
  <2>. DEFINE l == Len(copies[a][r])
  <2>3. n = l + 1
    <3>1. n \in 1 .. l + 1 /\ n \notin 1 .. l /\ l \in Nat
      BY <1>1, <1>3, <2>2
    <3>. HIDE DEF l
    <3>. QED BY <3>1
  <2>. QED BY <2>2, <2>3, NewCopyStep
<1>. QED BY <1>2, <1>3

(* Every copy that SyncImages has started is named by the replica, about to *)
(* be recorded by execute_distribution, or given up for a known reason (a   *)
(* lost answer, a failed command, a failed copy that was replaced), unless  *)
(* two processes worked on the replica at once.                             *)
THEOREM CopiesAreTracked == Spec => []CopiesTracked
<1>. DEFINE Inv == TypeInv /\ AloneInv /\ EmptyInv /\ TrackInv
<1>1. Init => Inv
  <2>. SUFFICES ASSUME Init PROVE Inv
    OBVIOUS
  <2>1. \A p \in Procs : session[p].pc = "idle"
    BY NoSessionFields DEF Init
  <2>2. \A c \in Reconcilers : rec[c].pc = "idle"
    BY NoCycleFields DEF Init
  <2>3. \A a \in Artifacts, r \in Regions : replica[a][r].copy = 0 /\ copies[a][r] = <<>>
    BY MissingFields DEF Init
  <2>4. TrackInv
    <3>1. Len(<<>>) = 0 /\ 1 .. 0 = {}
      OBVIOUS
    <3>. QED BY <2>3, <3>1 DEF TrackInv
  <2>. QED BY <2>1, <2>2, <2>3, <2>4, InitTypeInv DEF AloneInv, Alone, Copies, Looks, EmptyInv
<1>2. Inv /\ [Next]_vars => Inv'
  BY TypeInvStep, AloneStep, EmptyStep, TrackStep
<1>3. Inv => CopiesTracked
  BY InHandMeans DEF TrackInv, Tracked, CopiesTracked
<1>. HIDE DEF Inv
<1>. QED BY <1>1, <1>2, <1>3, PTL DEF Spec
=============================================================================
