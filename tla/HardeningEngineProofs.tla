----------------------- MODULE HardeningEngineProofs -----------------------
(***************************************************************************)
(* Theorems about HardeningEngine, for every catalogue of rules, any       *)
(* number of threads, with and without a time budget.                      *)
(***************************************************************************)
EXTENDS HardeningEngine, TLAPS

-----------------------------------------------------------------------------
(* The parts of the invariant. *)

(* Which rules get where, and in which of their checks.                    *)
PlaceInv ==
    \A r \in Rules :
        /\ at[r] \in {"produce", "await", "get", "write", "test"} => r \in Ssh
        /\ at[r] \in {"insert", "inserted", "retry"} => r \in Arg
        /\ at[r] = "apply" => r \in Pam
        /\ at[r] \in {"queued", "picked", "fix", "write", "test", "insert", "inserted", "retry", "apply"}
              => stage[r] = "check"

(* A rule reports once, when its thread ends, and again in Phase 4.        *)
ResultInv ==
    \A r \in Rules :
        /\ at[r] # "ended" /\ stage[r] # "verify" => result[r] = Result("error", "n/a")
        /\ result[r].status = "pass" => result[r].apply \in {"already", "applied", "applied_pending"}
        /\ stage[r] = "verify" =>
              /\ phase \in {"recheck", "done"}
              /\ r \in ToRecheck

(* Once the pool has ended within the budget only Phase 4 runs.            *)
Closing == phase \in {"flush", "recheck", "done"} /\ cut = {}
CloseInv ==
    /\ Closing => \A r \in Rules : at[r] = "ended" \/ stage[r] = "verify"
    /\ phase = "done" /\ cut = {} => \A r \in Rules : at[r] = "ended"

(* The lock of the PAM rules lets one of them through until Phase 4.       *)
Active(r) == at[r] \notin {"queued", "picked", "ended"} /\ stage[r] # "verify"
LockInv   == \A q, r \in Pam : Active(q) /\ Active(r) => q = r

(* An argument is in a profile when its line is, or is a feature's; the    *)
(* custom profile has what the distribution's has, and authselect makes it.*)
Closed(p) == \A r \in p : On(r, p \union Featured)

ProfileInv ==
    /\ Closed(stock) /\ Closed(profile) /\ stock \subseteq profile
    /\ paths = TRUE => custom
    /\ custom => Authselect

(* Between a fix and its apply-changes the stack may be anything; then it  *)
(* is what authselect generates, and arguments of rules it has applied.    *)
Edited == {r \in Pam : stage[r] # "check" \/ result[r].apply \in {"applied", "applied_pending"}}

Regular == /\ cut = {} /\ ~unapplied /\ Authselect
           /\ \A r \in Pam : at[r] \notin {"apply", "inserted"}

StackInv ==
    Regular => Generated(Selected) \subseteq live /\ live \subseteq Generated(Selected) \union Edited

PamInv == LockInv /\ ProfileInv /\ StackInv

(* Without a rollback the drop-in only grows, so an old answer of sshd     *)
(* never claims too much.                                                  *)
Granted(c) == c \in {None, Broken} \/ c \subseteq dropin
CacheInv == ~SomeRefused /\ cut = {} => Granted(cache) /\ Granted(seen)

Standing(r) == IF Authselect THEN r \in Generated(Selected) ELSE r \in live

AlreadyInv ==
    \A r \in Rules : result[r].apply = "already" =>
        /\ r \in Pam /\ cut = {} /\ ~unapplied /\ ~(custom /\ OnFeature(r)) => Standing(r)
        /\ r \notin Pam \union Ssh => r \in held
        /\ r \in Ssh /\ ~SomeRefused /\ cut = {} => r \in dropin

Backed(r) == r \in InForce \/ Excused(r)
ReportInv ==
    phase \in {"recheck", "done"} /\ cut = {} =>
        \A r \in Rules : at[r] = "ended" /\ result[r].status = "pass" => Backed(r)

(* One rule at a time waits for sshd's word.  A refused directive is in    *)
(* the drop-in only as long as its rule does, and in the copy of another   *)
(* rule only when its own rule fails.                                      *)
DropinInv ==
    /\ \A q, r \in Ssh : at[q] = "test" /\ at[r] = "test" => q = r
    /\ \A r \in refused : r \in dropin <=> at[r] = "test"
    /\ \A r \in refused : at[r] \in {"write", "test"} => r \notin snap[r]
    /\ \A r \in Ssh : at[r] \in {"write", "test"} =>
          \A q \in snap[r] \intersect refused : at[q] = "test" \/ result[q].apply = "failed"

(* Unless a restart is queued, sshd runs what is on disk, but for what is  *)
(* under test; and the copy of a rule that is refused is that, too, unless *)
(* it has another's refused directive.                                     *)
RestartInv ==
    phase \in {"prescan", "apply", "flush"} /\ ~restart =>
        /\ \A r \in Ssh : at[r] = "test" => dropin = running \union {r}
        /\ (\A r \in Ssh : at[r] # "test") => dropin = running
        /\ \A r \in refused : at[r] = "test" => snap[r] = running \/ snap[r] \intersect refused # {}
        /\ \A r \in refused : at[r] = "write" =>
              \/ snap[r] = running
              \/ snap[r] \intersect refused # {}
              \/ \E q \in Ssh : at[q] = "test" /\ snap[r] = running \union {q}

RunningInv ==
    phase \in {"recheck", "done"} /\ cut = {} => running = dropin /\ dropin \intersect refused = {}


-----------------------------------------------------------------------------
(* What the steps do to the threads. *)

Places  == {"queued", "picked", "look", "produce", "await", "get", "fix", "write", "test",
            "insert", "inserted", "retry", "apply", "ended"}
Stages  == {"check", "recheck", "verify"}
ResultType == [status : Status, apply : Apply]

Threads == at \in [Rules -> Places] /\ stage \in [Rules -> Stages] /\ result \in [Rules -> ResultType]

(* Nothing happens to the other threads but that they may be woken.        *)
Others(r) ==
    \A q \in Rules \ {r} :
        /\ at'[q] = at[q] \/ (at[q] = "await" /\ at'[q] = "get")
        /\ stage'[q] = stage[q] /\ result'[q] = result[q]

Gone(r, where, st) == at'[r] = where /\ stage'[r] = st /\ result'[r] = result[r]

Ended(r, res) ==
    /\ at'[r] = "ended" /\ stage'[r] = stage[r]
    /\ result'[r] = IF r \in cut THEN result[r] ELSE res

Reply(r, st) ==
    CASE stage[r] = "verify"  -> [result[r] EXCEPT !.status = st]
      [] stage[r] = "recheck" -> Result(st, IF st = "pass" THEN "applied" ELSE "applied_pending")
      [] stage[r] = "check"   -> Result(st, CASE st = "pass" -> "already"
                                              [] st = "fail" -> "skipped_disruptive"
                                              [] OTHER -> "n/a")

Replies(r, st) ==
    \/ stage[r] = "check" /\ st = "fail" /\ Gone(r, "fix", "check")
    \/ Ended(r, Reply(r, st))

LEMMA ResultFields ==
    ASSUME NEW st \in Status, NEW ap \in Apply
    PROVE  Result(st, ap) \in ResultType /\ Result(st, ap).status = st /\ Result(st, ap).apply = ap
  BY DEF Result, ResultType

LEMMA ReplyFields ==
    ASSUME Threads, NEW r \in Rules, NEW st \in Status
    PROVE  /\ Reply(r, st) \in ResultType /\ Reply(r, st).status = st
           /\ stage[r] = "verify"  => Reply(r, st).apply = result[r].apply
           /\ stage[r] = "recheck" => Reply(r, st).apply = IF st = "pass" THEN "applied" ELSE "applied_pending"
           /\ stage[r] = "check"   => Reply(r, st).apply \in {"already", "skipped_disruptive", "n/a"}
           /\ stage[r] = "check" /\ st = "pass" => Reply(r, st).apply = "already"
           /\ stage[r] = "check" /\ st # "pass" => Reply(r, st).apply # "already"
<1>1. stage[r] \in Stages /\ result[r] \in ResultType
  BY DEF Threads
<1>2. CASE stage[r] = "verify"
  BY <1>1, <1>2 DEF Reply, ResultType
<1>3. CASE stage[r] = "recheck"
  <2>. DEFINE ap == IF st = "pass" THEN "applied" ELSE "applied_pending"
  <2>1. ap \in Apply
    BY DEF Apply
  <2>2. Reply(r, st) = Result(st, ap)
    BY <1>3 DEF Reply
  <2>. QED BY <1>3, <2>1, <2>2, ResultFields
<1>4. CASE stage[r] = "check"
  <2>. DEFINE ap == CASE st = "pass" -> "already" [] st = "fail" -> "skipped_disruptive" [] OTHER -> "n/a"
  <2>1. ap \in Apply /\ ap \in {"already", "skipped_disruptive", "n/a"} /\ (st = "pass" <=> ap = "already")
    BY DEF Apply, Status
  <2>2. Reply(r, st) = Result(st, ap)
    BY <1>4 DEF Reply
  <2>. HIDE DEF ap
  <2>. QED BY <1>4, <2>1, <2>2, ResultFields
<1>. QED BY <1>1, <1>2, <1>3, <1>4 DEF Stages

LEMMA GotoEffect ==
    ASSUME Threads, NEW r \in Rules, NEW where \in Places, NEW st \in Stages, Goto(r, where, st)
    PROVE  Threads' /\ Others(r) /\ Gone(r, where, st) /\ \A q \in Rules \ {r} : at'[q] = at[q]
  BY DEF Goto, Threads, Others, Gone

LEMMA EndEffect ==
    ASSUME Threads, NEW r \in Rules, NEW res \in ResultType, NEW threads \in {at, Woken}, End(r, res, threads)
    PROVE  /\ Threads' /\ Others(r) /\ Ended(r, res)
           /\ threads = at => \A q \in Rules \ {r} : at'[q] = at[q]
<1>1. threads \in [Rules -> Places] /\ "ended" \in Places
  BY DEF Threads, Woken, Places
<1>2. \A q \in Rules : threads[q] = at[q] \/ (at[q] = "await" /\ threads[q] = "get")
  BY DEF Threads, Woken
<1>3. at' = [threads EXCEPT ![r] = "ended"] /\ stage' = stage
  BY DEF End
<1>4. result' \in [Rules -> ResultType]
  BY DEF End, Threads
<1>5. result'[r] = (IF r \in cut THEN result[r] ELSE res) /\ \A q \in Rules \ {r} : result'[q] = result[q]
  BY DEF End, Threads
<1>6. at' \in [Rules -> Places] /\ at'[r] = "ended" /\ \A q \in Rules \ {r} : at'[q] = threads[q]
  BY <1>1, <1>3
<1>. QED BY <1>2, <1>3, <1>4, <1>5, <1>6 DEF Threads, Others, Ended

LEMMA AnsweredEffect ==
    ASSUME Threads, NEW r \in Rules, NEW st \in Status, NEW threads \in {at, Woken}, Answered(r, st, threads)
    PROVE  Threads' /\ Others(r) /\ Replies(r, st) /\ raised' = raised
<1>1. CASE stage[r] = "check" /\ st = "fail" /\ ~Gated(r)
  <2>1. threads \in [Rules -> Places] /\ "fix" \in Places
    BY DEF Threads, Woken, Places
  <2>2. \A q \in Rules : threads[q] = at[q] \/ (at[q] = "await" /\ threads[q] = "get")
    BY DEF Threads, Woken
  <2>3. at' = [threads EXCEPT ![r] = "fix"] /\ stage' = stage /\ result' = result /\ raised' = raised
    BY <1>1 DEF Answered
  <2>. QED BY <1>1, <2>1, <2>2, <2>3 DEF Threads, Others, Replies, Gone
<1>2. CASE ~(stage[r] = "check" /\ st = "fail" /\ ~Gated(r))
  <2>1. End(r, Reply(r, st), threads) /\ raised' = raised
    BY <1>2 DEF Answered, Reply
  <2>. QED BY <2>1, ReplyFields, EndEffect DEF Replies
<1>. QED BY <1>1, <1>2

(* In Phase 4 a check that raises answers what was known.                  *)
LEMMA RaisedEffect ==
    ASSUME Threads, NEW r \in Rules, NEW threads \in {at, Woken}, Raised(r, threads)
    PROVE  /\ Threads' /\ Others(r)
           /\ \/ Replies(r, "error") /\ raised' = raised
              \/ stage[r] = "verify" /\ Replies(r, result[r].status) /\ raised' = raised \union {r}
<1>1. CASE stage[r] = "verify"
  <2>1. End(r, result[r], threads) /\ raised' = raised \union {r} /\ result[r] \in ResultType
    BY <1>1 DEF Raised, Threads
  <2>2. Reply(r, result[r].status) = result[r]
    BY <1>1, <2>1 DEF Reply, ResultType
  <2>. QED BY <1>1, <2>1, <2>2, EndEffect DEF Replies
<1>2. CASE stage[r] # "verify"
  <2>1. Answered(r, "error", threads) /\ "error" \in Status
    BY <1>2 DEF Raised, Status
  <2>. QED BY <2>1, AnsweredEffect
<1>. QED BY <1>1, <1>2

LEMMA RepliedEffect ==
    ASSUME Threads, NEW r \in Rules, NEW st \in Status, NEW threads \in {at, Woken}, Replied(r, st, threads)
    PROVE  /\ Threads' /\ Others(r) /\ raised' \in {raised, raised \union {r}}
           /\ \/ Replies(r, st)
              \/ Replies(r, "error")
              \/ stage[r] = "verify" /\ r \in raised' /\ Replies(r, result[r].status)
  BY AnsweredEffect, RaisedEffect DEF Replied

LEMMA VerdictFields ==
    ASSUME NEW r \in Rules, NEW known
    PROVE  /\ Verdict(r, known) \in Status
           /\ Verdict(r, known) = "pass" => known \notin {None, Broken} /\ r \in known
  BY DEF Verdict, Status


TypeInv == TypeOK /\ PlaceInv

LEMMA TypeThreads == TypeOK => Threads
  BY DEF TypeOK, Threads, Places, Stages, ResultType

LEMMA FamilyFacts ==
    /\ Ssh \subseteq Rules /\ Pam \subseteq Rules /\ Ssh \intersect Pam = {}
    /\ \A r \in Rules : /\ r \in Ssh <=> Family[r] = "sshd"
                        /\ r \in Arg <=> Family[r] = "pam_arg"
                        /\ r \in Line <=> Family[r] = "pam_module"
    /\ Pam = Arg \union Line /\ Arg \intersect Line = {}
  BY DEF Ssh, Arg, Line, Pam, Of

LEMMA FixedEffect ==
    ASSUME Threads, NEW r \in Rules, Fixed(r)
    PROVE  /\ Threads' /\ Others(r)
           /\ Gone(r, "look", "recheck") \/ Ended(r, Result("fail", "applied_pending"))
<1>1. Result("fail", "applied_pending") \in ResultType
  BY ResultFields DEF Status, Apply
<1>2. CASE r \in Reboot
  BY <1>1, <1>2, EndEffect DEF Fixed
<1>3. CASE r \notin Reboot
  <2>1. Goto(r, "look", "recheck") /\ "look" \in Places /\ "recheck" \in Stages
    BY <1>3 DEF Fixed, Places, Stages
  <2>. QED BY <2>1, GotoEffect
<1>. QED BY <1>2, <1>3

LEMMA UnfixedEffect ==
    ASSUME Threads, NEW r \in Rules, Unfixed(r)
    PROVE  Threads' /\ Others(r) /\ Ended(r, Result("fail", "failed"))
<1>1. Result("fail", "failed") \in ResultType
  BY ResultFields DEF Status, Apply
<1>. QED BY <1>1, EndEffect DEF Unfixed

(* Ways of a thread through its rule.                                      *)
Starts(r) ==
    \/ at[r] = "queued" /\ Gone(r, "picked", stage[r])
    \/ at[r] = "picked" /\ Gone(r, "look", stage[r])

Waits(r) == r \in Ssh /\ at[r] = "look" /\ \E w \in {"produce", "await"} : Gone(r, w, stage[r])

Asked(r) == at[r] \in {"look", "produce", "get"} /\ (at[r] # "look" => r \in Ssh)

Repairs(r) ==
    \/ at[r] = "fix" /\ stage[r] = "check" /\ r \in Ssh /\ Gone(r, "write", "check")
    \/ at[r] = "write" /\ stage[r] = "check" /\ r \in Ssh /\ Gone(r, "test", "check")
    \/ /\ at[r] \in {"fix", "insert", "inserted", "retry"} /\ stage[r] = "check" /\ r \in Pam
       /\ \/ r \in Arg /\ \E w \in {"insert", "inserted", "retry"} : Gone(r, w, "check")
          \/ Gone(r, "apply", "check")

Concludes(r) ==
    /\ at[r] \in {"fix", "test", "apply", "retry", "insert"} /\ stage[r] = "check"
    /\ \/ Gone(r, "look", "recheck")
       \/ Ended(r, Result("fail", "applied_pending"))
       \/ Ended(r, Result("fail", "failed"))

Moves(r) ==
    /\ Threads' /\ Others(r) /\ UNCHANGED <<phase, cut, refused>>
    /\ \/ Starts(r) \/ Waits(r) \/ Repairs(r) \/ Concludes(r)
       \/ Asked(r) /\ \E st \in Status : Replies(r, st)

Told(r, c) == c \notin {None, Broken} /\ r \in c

LEMMA StartEffect ==
    ASSUME TypeInv, NEW r \in Rules, Pick(r) \/ Begin(r)
    PROVE  Moves(r) /\ Starts(r) /\ UNCHANGED <<sshVars, memo, pamVars, held, raised>>
<1>1. Threads
  BY TypeThreads DEF TypeInv
<1>2. ASSUME NEW w \in Places, at' = [at EXCEPT ![r] = w], UNCHANGED <<stage, result>>
      PROVE  Threads' /\ Others(r) /\ Gone(r, w, stage[r])
  BY <1>1, <1>2 DEF Threads, Others, Gone
<1>3. CASE Pick(r)
  <2>1. at[r] = "queued" /\ at' = [at EXCEPT ![r] = "picked"] /\ UNCHANGED <<phase, stage, result, cut, sshVars, memo, pamVars, held, raised>>
    BY <1>3 DEF Pick
  <2>. QED BY <1>2, <2>1 DEF Places, Moves, Starts, sshVars
<1>4. CASE Begin(r)
  <2>1. at[r] = "picked" /\ at' = [at EXCEPT ![r] = "look"] /\ UNCHANGED <<phase, stage, result, cut, sshVars, memo, pamVars, held, raised>>
    BY <1>4 DEF Begin
  <2>. QED BY <1>2, <2>1 DEF Places, Moves, Starts, sshVars
<1>. QED BY <1>3, <1>4

(* A check changes nothing but what is cached, and says `pass` of what is  *)
(* in the files it reads, or of what sshd has answered; in Phase 4 a check *)
(* that raises says what the last one did.                                 *)
CheckSays(r, st) ==
    st = "pass" => /\ r \in Ssh => Told(r, cache) \/ Told(r, seen)
                   /\ r \in Pam => r \in PamSettings(r)
                   /\ r \notin Ssh \union Pam => r \in held

Says(r, st) == CheckSays(r, st) \/ (stage[r] = "verify" /\ r \in raised')

LEMMA CheckEffect ==
    ASSUME TypeInv, NEW r \in Rules, Check(r)
    PROVE  /\ Moves(r) /\ UNCHANGED <<sshVars, live, stock, profile, custom, backup, unapplied, held>>
           /\ paths' \in {paths, WithSources}
           /\ raised' \in {raised, raised \union {r}}
           /\ cache' \in {cache, seen} /\ seen' \in {seen, None, Effective}
           /\ producer' \in Ssh \union {None}
           /\ Waits(r) \/ (Asked(r) /\ \E st \in Status : Replies(r, st) /\ Says(r, st))
<1>1. Threads /\ PlaceInv /\ producer \in Ssh \union {None} /\ Ssh \intersect Pam = {}
  BY TypeThreads, FamilyFacts DEF TypeInv, TypeOK
<1>2. ASSUME NEW known, NEW threads \in {at, Woken}, Asked(r), Replied(r, Verdict(r, known), threads),
             known \notin {None, Broken} /\ r \in known => CheckSays(r, "pass"), UNCHANGED <<phase, cut, refused>>
      PROVE  /\ Moves(r) /\ raised' \in {raised, raised \union {r}}
             /\ \E st \in Status : Replies(r, st) /\ Says(r, st)
  <2>1. Verdict(r, known) \in Status /\ CheckSays(r, Verdict(r, known))
    BY <1>2, VerdictFields DEF CheckSays
  <2>2. "error" \in Status /\ CheckSays(r, "error") /\ result[r].status \in Status
    BY <1>1 DEF Status, CheckSays, Threads, ResultType
  <2>3. /\ Threads' /\ Others(r) /\ raised' \in {raised, raised \union {r}}
        /\ \/ Replies(r, Verdict(r, known))
           \/ Replies(r, "error")
           \/ stage[r] = "verify" /\ r \in raised' /\ Replies(r, result[r].status)
    BY <1>1, <1>2, <2>1, RepliedEffect
  <2>4. \E st \in Status : Replies(r, st) /\ Says(r, st)
    BY <2>1, <2>2, <2>3 DEF Says
  <2>. QED BY <1>2, <2>3, <2>4 DEF Moves
<1>3. ASSUME NEW w \in {"produce", "await"}, r \in Ssh, at[r] = "look", Goto(r, w, stage[r]), UNCHANGED <<phase, cut, refused>>
      PROVE  Moves(r) /\ Waits(r)
  <2>1. w \in Places /\ stage[r] \in Stages
    BY <1>1 DEF Threads, Places
  <2>2. Threads' /\ Others(r) /\ Gone(r, w, stage[r])
    BY <1>1, <1>3, <2>1, GotoEffect
  <2>. QED BY <1>3, <2>2 DEF Moves, Waits
<1>4. CASE CheckHost(r)
  <2>1. Asked(r) /\ Replied(r, Verdict(r, held), at) /\ (r \in held => CheckSays(r, "pass"))
    BY <1>4 DEF CheckHost, Asked, CheckSays
  <2>. QED BY <1>1, <1>2, <1>4, <2>1 DEF CheckHost, sshVars, memo, pamVars
<1>5. CASE CheckPam(r)
  <2>1. Asked(r) /\ Replied(r, Verdict(r, PamSettings(r)), at) /\ (r \in PamSettings(r) => CheckSays(r, "pass"))
    BY <1>1, <1>5 DEF CheckPam, Asked, CheckSays
  <2>. QED BY <1>1, <1>2, <1>5, <2>1 DEF CheckPam, sshVars, memo
<1>6. CASE CheckCached(r)
  <2>1. Asked(r) /\ Replied(r, Verdict(r, cache), at) /\ (cache \notin {None, Broken} /\ r \in cache => CheckSays(r, "pass"))
    BY <1>1, <1>6 DEF CheckCached, Asked, CheckSays, Told
  <2>. QED BY <1>1, <1>2, <1>6, <2>1 DEF CheckCached, sshVars, memo, pamVars
<1>7. CASE Produce(r)
  BY <1>3, <1>7 DEF Produce, sshVars, pamVars
<1>8. CASE Await(r)
  BY <1>1, <1>3, <1>8 DEF Await, sshVars, memo, pamVars
<1>9. CASE Store(r)
  <2>1. r \in Ssh
    BY <1>1, <1>9 DEF Store, PlaceInv
  <2>2. Asked(r) /\ Replied(r, Verdict(r, seen), Woken) /\ (seen \notin {None, Broken} /\ r \in seen => CheckSays(r, "pass"))
    BY <1>1, <1>9, <2>1 DEF Store, Asked, CheckSays, Told
  <2>. QED BY <1>2, <1>9, <2>2 DEF Store, sshVars, pamVars
<1>10. CASE Get(r)
  <2>1. r \in Ssh
    BY <1>1, <1>10 DEF Get, PlaceInv
  <2>2. Asked(r) /\ Replied(r, Verdict(r, cache), at) /\ (cache \notin {None, Broken} /\ r \in cache => CheckSays(r, "pass"))
    BY <1>1, <1>10, <2>1 DEF Get, Asked, CheckSays, Told
  <2>. QED BY <1>1, <1>2, <1>10, <2>2 DEF Get, sshVars, memo, pamVars
<1>. QED BY <1>4, <1>5, <1>6, <1>7, <1>8, <1>9, <1>10 DEF Check


-----------------------------------------------------------------------------
(* What the fixes do. *)

LEMMA FixHostEffect ==
    ASSUME TypeInv, NEW r \in Rules, FixHost(r)
    PROVE  /\ Moves(r) /\ Concludes(r) /\ at[r] = "fix" /\ r \notin Ssh \union Pam
           /\ held' \in {held, held \union {r}} /\ UNCHANGED <<sshVars, memo, pamVars, raised>>
<1>1. Threads /\ PlaceInv
  BY TypeThreads DEF TypeInv
<1>2. at[r] = "fix" /\ r \notin Ssh \union Pam /\ UNCHANGED <<phase, cut, sshVars, memo, pamVars, raised>>
      /\ held' \in {held, held \union {r}} /\ (Fixed(r) \/ Unfixed(r))
  BY DEF FixHost
<1>3. stage[r] = "check"
  BY <1>1, <1>2 DEF PlaceInv
<1>4. Threads' /\ Others(r) /\ Concludes(r)
  BY <1>1, <1>2, <1>3, FixedEffect, UnfixedEffect DEF Concludes
<1>. QED BY <1>2, <1>4 DEF Moves, sshVars

LEMMA SnapshotEffect ==
    ASSUME TypeInv, NEW r \in Rules, Snapshot(r)
    PROVE  /\ Moves(r) /\ Repairs(r) /\ at[r] = "fix" /\ r \in Ssh /\ at'[r] = "write"
           /\ snap' = [snap EXCEPT ![r] = dropin]
           /\ UNCHANGED <<dropin, running, restart, memo, pamVars, held, raised>>
<1>1. Threads /\ PlaceInv
  BY TypeThreads DEF TypeInv
<1>2. at[r] = "fix" /\ r \in Ssh /\ Goto(r, "write", "check") /\ snap' = [snap EXCEPT ![r] = dropin]
      /\ UNCHANGED <<phase, cut, refused, dropin, running, restart, memo, pamVars, held, raised>>
  BY DEF Snapshot
<1>3. "write" \in Places /\ "check" \in Stages /\ stage[r] = "check"
  BY <1>1, <1>2 DEF Places, Stages, PlaceInv
<1>4. Threads' /\ Others(r) /\ Gone(r, "write", "check")
  BY <1>1, <1>2, <1>3, GotoEffect
<1>5. Repairs(r) /\ at'[r] = "write"
  BY <1>2, <1>3, <1>4 DEF Repairs, Gone
<1>. QED BY <1>2, <1>4, <1>5 DEF Moves

LEMMA WriteEffect ==
    ASSUME TypeInv, NEW r \in Rules, WriteDropin(r)
    PROVE  /\ Moves(r) /\ Repairs(r) /\ at[r] = "write" /\ r \in Ssh /\ at'[r] = "test"
           /\ \A q \in Ssh : at[q] # "test"
           /\ dropin' = dropin \union {r}
           /\ UNCHANGED <<snap, running, restart, memo, pamVars, held, raised>>
<1>1. Threads /\ PlaceInv
  BY TypeThreads DEF TypeInv
<1>2. at[r] = "write" /\ Goto(r, "test", "check") /\ dropin' = dropin \union {r} /\ (\A q \in Ssh : at[q] # "test")
      /\ UNCHANGED <<phase, cut, refused, snap, running, restart, memo, pamVars, held, raised>>
  BY DEF WriteDropin
<1>3. "test" \in Places /\ "check" \in Stages /\ stage[r] = "check" /\ r \in Ssh
  BY <1>1, <1>2 DEF Places, Stages, PlaceInv
<1>4. Threads' /\ Others(r) /\ Gone(r, "test", "check")
  BY <1>1, <1>2, <1>3, GotoEffect
<1>5. Repairs(r) /\ at'[r] = "test"
  BY <1>2, <1>3, <1>4 DEF Repairs, Gone
<1>. QED BY <1>2, <1>3, <1>4, <1>5 DEF Moves

LEMMA AcceptedEffect ==
    ASSUME TypeInv, NEW r \in Rules, Accepted(r)
    PROVE  /\ Moves(r) /\ Concludes(r) /\ at[r] = "test" /\ r \in Ssh
           /\ at'[r] \in {"look", "ended"}
           /\ Effective # Broken /\ restart' = TRUE /\ cache' = None
           /\ snap' = [snap EXCEPT ![r] = {}]
           /\ UNCHANGED <<dropin, running, producer, seen, pamVars, held, raised>>
<1>1. Threads /\ PlaceInv
  BY TypeThreads DEF TypeInv
<1>2. at[r] = "test" /\ Effective # Broken /\ restart' = TRUE /\ cache' = None /\ snap' = [snap EXCEPT ![r] = {}]
      /\ Fixed(r) /\ UNCHANGED <<phase, cut, refused, dropin, running, producer, seen, pamVars, held, raised>>
  BY DEF Accepted
<1>3. stage[r] = "check" /\ r \in Ssh
  BY <1>1, <1>2 DEF PlaceInv
<1>4. Threads' /\ Others(r) /\ Concludes(r) /\ at'[r] \in {"look", "ended"}
  BY <1>1, <1>2, <1>3, FixedEffect DEF Concludes, Gone, Ended
<1>. QED BY <1>2, <1>3, <1>4 DEF Moves

LEMMA RollBackEffect ==
    ASSUME TypeInv, NEW r \in Rules, RollBack(r)
    PROVE  /\ Moves(r) /\ Ended(r, Result("fail", "failed")) /\ Concludes(r)
           /\ at[r] = "test" /\ r \in Ssh /\ at'[r] = "ended"
           /\ Effective = Broken /\ dropin' = snap[r]
           /\ snap' = [snap EXCEPT ![r] = {}]
           /\ UNCHANGED <<running, restart, memo, pamVars, held, raised>>
<1>1. Threads /\ PlaceInv
  BY TypeThreads DEF TypeInv
<1>2. at[r] = "test" /\ Effective = Broken /\ dropin' = snap[r] /\ snap' = [snap EXCEPT ![r] = {}]
      /\ Unfixed(r) /\ UNCHANGED <<phase, cut, refused, running, restart, memo, pamVars, held, raised>>
  BY DEF RollBack, Restored
<1>3. stage[r] = "check" /\ r \in Ssh
  BY <1>1, <1>2 DEF PlaceInv
<1>4. Threads' /\ Others(r) /\ Ended(r, Result("fail", "failed"))
  BY <1>1, <1>2, UnfixedEffect
<1>5. Concludes(r) /\ at'[r] = "ended"
  BY <1>2, <1>3, <1>4 DEF Concludes, Ended
<1>. QED BY <1>2, <1>3, <1>4, <1>5 DEF Moves

(* The PAM rules.  The stack a fix starts from is the one there is, or the *)
(* one of the custom profile it has just selected.                         *)
Based(c, stack) ==
    \/ c = custom /\ stack = live
    \/ c = TRUE /\ Authselect /\ stack = Generated(profile)

LEMMA EnsuredFields ==
    ASSUME NEW c \in BOOLEAN, NEW stack, NEW t \in Ensured(c, stack)
    PROVE  \/ t.custom = c /\ t.live = stack
           \/ t.custom = TRUE /\ Authselect /\ t.live = Generated(profile)
<1>1. \/ t = Target(c, TRUE, stack) \/ t = Target(c, FALSE, stack)
      \/ Authselect /\ t = Target(TRUE, TRUE, Generated(profile))
  BY DEF Ensured
<1>2. ASSUME NEW b, NEW sources, NEW lines, t = Target(b, sources, lines)
      PROVE  t.custom = b /\ t.live = lines
  BY <1>2 DEF Target
<1>3. CASE t = Target(c, TRUE, stack) \/ t = Target(c, FALSE, stack)
  BY <1>2, <1>3
<1>4. CASE Authselect /\ t = Target(TRUE, TRUE, Generated(profile))
  <2>1. t.custom = TRUE /\ t.live = Generated(profile)
    BY <1>2, <1>4
  <2>. QED BY <1>4, <2>1
<1>. QED BY <1>1, <1>3, <1>4

LEMMA GeneratedPart == \A p : Generated(p) \subseteq p
  BY DEF Generated

(* A fix adds one setting to the profiles, whose line is there; unless an  *)
(* apply-changes follows it has changed nothing but which is selected.     *)
PamEdits(r) ==
    /\ Moves(r) /\ r \in Pam /\ (Repairs(r) \/ Concludes(r)) /\ at[r] \in {"fix", "insert", "retry"}
    /\ UNCHANGED <<sshVars, memo, paths, unapplied, held, raised>>
    /\ live' \subseteq Pam /\ (backup' = None \/ backup' \subseteq Pam)
    /\ custom' = custom \/ (custom' = TRUE /\ Authselect)
    /\ \E s \in Pam :
          /\ profile' \in {profile, profile \union {s}}
          /\ profile' # profile => On(s, Mentioned)
          /\ \/ stock' = stock
             \/ s \in Line /\ stock' = stock \union {s} /\ profile' = profile \union {s}
    /\ \/ at'[r] \in {"apply", "inserted"}
       \/ profile' = profile /\ stock' = stock /\ Based(custom', live')
    /\ ~Authselect => live \subseteq live'

LEMMA EditEffect ==
    ASSUME TypeInv, NEW r \in Rules, EditPam(r)
    PROVE  PamEdits(r)
<1>1. Threads /\ PlaceInv /\ custom \in BOOLEAN /\ live \subseteq Pam /\ profile \subseteq Pam
  BY TypeThreads DEF TypeInv, TypeOK
<1>2. /\ r \in Arg /\ at[r] \in {"fix", "retry"} /\ backup' = live
      /\ UNCHANGED <<phase, cut, sshVars, memo, stock, paths, unapplied, held, raised>>
  BY DEF EditPam
<1>3. r \in Pam /\ stage[r] = "check"
  BY <1>1, <1>2, FamilyFacts DEF PlaceInv
<1>4. PICK t \in Ensured(custom, live) :
         /\ custom' = t.custom
         /\ live' = IF On(r, t.live) THEN t.live \union {r} ELSE t.live
         /\ profile' = IF t.sources /\ On(r, Mentioned) THEN profile \union {r} ELSE profile
         /\ IF <<live', profile'>> # <<t.live, profile>> THEN Goto(r, "apply", "check")
            ELSE IF at[r] = "fix" THEN Goto(r, "insert", "check") ELSE Fixed(r)
  BY DEF EditPam
<1>5. Based(t.custom, t.live)
  BY <1>1, <1>4, EnsuredFields DEF Based
<1>6. /\ Threads' /\ Others(r) /\ (Repairs(r) \/ Concludes(r))
      /\ at'[r] = "apply" \/ (live' = t.live /\ profile' = profile)
  <2>1. CASE Goto(r, "apply", "check")
    <3>1. Threads' /\ Others(r) /\ Gone(r, "apply", "check")
      BY <1>1, <2>1, GotoEffect DEF Places, Stages
    <3>. QED BY <1>2, <1>3, <3>1 DEF Repairs, Gone
  <2>2. CASE ~Goto(r, "apply", "check")
    <3>1. live' = t.live /\ profile' = profile
      BY <1>4, <2>2
    <3>2. CASE at[r] = "fix"
      <4>1. Goto(r, "insert", "check")
        BY <1>4, <2>2, <3>2
      <4>2. Threads' /\ Others(r) /\ Gone(r, "insert", "check")
        BY <1>1, <4>1, GotoEffect DEF Places, Stages
      <4>. QED BY <1>2, <1>3, <3>1, <4>2 DEF Repairs
    <3>3. CASE at[r] = "retry"
      <4>1. Fixed(r)
        BY <1>4, <2>2, <3>3
      <4>. QED BY <1>1, <1>3, <3>1, <3>3, <4>1, FixedEffect DEF Concludes
    <3>. QED BY <1>2, <3>2, <3>3
  <2>. QED BY <2>1, <2>2
<1>7. live' \subseteq Pam /\ (~Authselect => live \subseteq live')
  BY <1>1, <1>3, <1>4, <1>5, GeneratedPart DEF Based
<1>8. profile' \in {profile, profile \union {r}} /\ (profile' # profile => On(r, Mentioned))
  BY <1>4
<1>9. custom' = custom \/ (custom' = TRUE /\ Authselect)
  BY <1>4, <1>5 DEF Based
<1>10. at'[r] = "apply" \/ (profile' = profile /\ stock' = stock /\ Based(custom', live'))
  BY <1>2, <1>4, <1>5, <1>6
<1>. QED BY <1>1, <1>2, <1>3, <1>6, <1>7, <1>8, <1>9, <1>10 DEF PamEdits, Moves, sshVars

(* The line of a module is inserted for its rule, or for an argument's.    *)
LEMMA InsertFields ==
    ASSUME TypeInv, NEW r \in Rules, Inserts(r)
    PROVE  /\ r \in Pam /\ stage[r] = "check" /\ at[r] \in {"fix", "insert"}
           /\ LineOf(r) \in Line \union {None}
           /\ LineOf(r) # None => \A p : On(LineOf(r), p)
<1>1. PlaceInv
  BY DEF TypeInv
<1>2. r \in Arg \/ r \in Line
  BY <1>1 DEF Inserts, PlaceInv
<1>3. stage[r] = "check" /\ at[r] \in {"fix", "insert"}
  BY <1>1 DEF Inserts, PlaceInv
<1>4. LineOf(r) \in Line \union {None}
  BY <1>2, RulesAssumption DEF LineOf
<1>5. LineOf(r) # None => LineOf(r) \notin Arg
  BY <1>4, FamilyFacts
<1>. QED BY <1>2, <1>3, <1>4, <1>5, FamilyFacts DEF On

LEMMA ThenApplyEffect ==
    ASSUME TypeInv, NEW r \in Rules, Inserts(r), ThenApply(r)
    PROVE  Threads' /\ Others(r) /\ Repairs(r) /\ at'[r] \in {"apply", "inserted"}
<1>1. Threads /\ r \in Pam /\ stage[r] = "check" /\ at[r] \in {"fix", "insert"}
  BY TypeThreads, InsertFields DEF TypeInv
<1>2. PICK w \in {"apply", "inserted"} : Goto(r, w, "check") /\ (w = "inserted" => r \in Arg)
  BY <1>1, FamilyFacts DEF ThenApply
<1>3. Threads' /\ Others(r) /\ Gone(r, w, "check")
  BY <1>1, <1>2, GotoEffect DEF Places, Stages
<1>4. Repairs(r)
  BY <1>1, <1>2, <1>3 DEF Repairs
<1>. QED BY <1>2, <1>3, <1>4 DEF Gone

LEMMA FeatureEffect ==
    ASSUME TypeInv, NEW r \in Rules, EnableFeature(r)
    PROVE  PamEdits(r)
<1>1. custom \in BOOLEAN /\ live \subseteq Pam /\ profile \subseteq Pam /\ stock \subseteq Pam
      /\ (backup = None \/ backup \subseteq Pam)
  BY DEF TypeInv, TypeOK
<1>2. /\ Inserts(r) /\ Authselect /\ LineOf(r) \in Featured /\ ThenApply(r)
      /\ stock' = stock \union {LineOf(r)} /\ profile' = profile \union {LineOf(r)}
      /\ UNCHANGED <<phase, cut, sshVars, memo, paths, backup, unapplied, held, raised>>
  BY DEF EnableFeature
<1>3. PICK t \in Ensured(custom, live) :
         custom' = t.custom /\ live' = Generated(IF t.custom THEN profile' ELSE stock')
  BY DEF EnableFeature
<1>4. custom' = custom \/ (custom' = TRUE /\ Authselect)
  BY <1>1, <1>3, EnsuredFields
<1>5. LineOf(r) \in Line /\ LineOf(r) \in Pam
  BY <1>2, RulesAssumption, FamilyFacts
<1>6. LineOf(r) # None /\ r \in Pam /\ On(LineOf(r), Mentioned) /\ at[r] \in {"fix", "insert"}
  <2>1. LineOf(r) \in Rules
    BY <1>5, FamilyFacts
  <2>2. LineOf(r) # None
    BY <2>1, RulesAssumption
  <2>. QED BY <1>2, <2>2, InsertFields
<1>7. live' \subseteq Pam
  <2>1. live' \subseteq profile' \/ live' \subseteq stock'
    BY <1>3, GeneratedPart
  <2>. QED BY <1>1, <1>2, <1>5, <2>1
<1>8. Threads' /\ Others(r) /\ Repairs(r) /\ at'[r] \in {"apply", "inserted"}
  BY <1>2, ThenApplyEffect
<1>. QED BY <1>1, <1>2, <1>4, <1>5, <1>6, <1>7, <1>8 DEF PamEdits, Moves, sshVars

LEMMA LineEffect ==
    ASSUME TypeInv, NEW r \in Rules, AddLine(r)
    PROVE  PamEdits(r)
<1>1. Threads /\ custom \in BOOLEAN /\ live \subseteq Pam /\ profile \subseteq Pam
  BY TypeThreads DEF TypeInv, TypeOK
<1>2. Inserts(r) /\ UNCHANGED <<phase, cut, sshVars, memo, stock, paths, unapplied, held, raised>>
  BY DEF AddLine
<1>. DEFINE First == IF Authselect /\ LineOf(r) \in Featured THEN Ensured(custom, live)
                     ELSE {Target(custom, FALSE, live)}
            Missing(t) == ~(LineOf(r) \in t.live \union {None} /\ (t.sources => LineOf(r) \in Mentioned \union {None}))
            Added(t) == /\ live' = t.live \union {LineOf(r)}
                        /\ profile' = IF t.sources THEN profile \union ({LineOf(r)} \ Featured) ELSE profile
                        /\ ThenApply(r)
            Kept(t) == live' = t.live /\ profile' = profile /\ Unfixed(r)
<1>3. PICK f \in First : \E t \in Ensured(f.custom, f.live) :
         custom' = t.custom /\ backup' = f.live /\ IF Missing(t) THEN Added(t) ELSE Kept(t)
  BY DEF AddLine
<1>4. PICK t \in Ensured(f.custom, f.live) :
         custom' = t.custom /\ backup' = f.live /\ IF Missing(t) THEN Added(t) ELSE Kept(t)
  BY <1>3
<1>5. Based(f.custom, f.live)
  <2>1. CASE f \in Ensured(custom, live)
    BY <1>1, <2>1, EnsuredFields DEF Based
  <2>2. CASE f = Target(custom, FALSE, live)
    BY <2>2 DEF Target, Based
  <2>. QED BY <1>3, <2>1, <2>2
<1>6. Based(t.custom, t.live)
  <2>1. f.custom \in BOOLEAN
    BY <1>1, <1>5 DEF Based
  <2>. QED BY <1>4, <1>5, <2>1, EnsuredFields DEF Based
<1>7. f.live \subseteq Pam /\ t.live \subseteq Pam
  BY <1>1, <1>5, <1>6, GeneratedPart DEF Based
<1>8. r \in Pam /\ stage[r] = "check" /\ at[r] \in {"fix", "insert"} /\ LineOf(r) \in Line \union {None}
      /\ (LineOf(r) # None => \A p : On(LineOf(r), p))
  BY <1>2, InsertFields
<1>9. custom' = custom \/ (custom' = TRUE /\ Authselect)
  BY <1>4, <1>6 DEF Based
<1>10. CASE Missing(t)
  <2>1. Added(t)
    BY <1>4, <1>10
  <2>2. LineOf(r) # None
    BY <1>10
  <2>3. LineOf(r) \in Pam /\ On(LineOf(r), Mentioned)
    BY <1>8, <2>2, FamilyFacts
  <2>4. Threads' /\ Others(r) /\ Repairs(r) /\ at'[r] \in {"apply", "inserted"}
    BY <1>2, <2>1, ThenApplyEffect
  <2>5. live' \subseteq Pam /\ (~Authselect => live \subseteq live')
    BY <1>6, <1>7, <2>1, <2>3 DEF Based
  <2>6. profile' \in {profile, profile \union {LineOf(r)}}
    BY <2>1
  <2>. QED BY <1>2, <1>4, <1>7, <1>8, <1>9, <2>3, <2>4, <2>5, <2>6 DEF PamEdits, Moves, sshVars
<1>11. CASE ~Missing(t)
  <2>1. live' = t.live /\ profile' = profile /\ Unfixed(r)
    BY <1>4, <1>11
  <2>2. Threads' /\ Others(r) /\ Concludes(r)
    BY <1>1, <1>8, <2>1, UnfixedEffect DEF Concludes
  <2>3. live' \subseteq Pam /\ (~Authselect => live \subseteq live')
    BY <1>6, <1>7, <2>1 DEF Based
  <2>4. Based(custom', live')
    BY <1>4, <1>6, <2>1
  <2>. QED BY <1>2, <1>4, <1>7, <1>8, <1>9, <2>1, <2>2, <2>3, <2>4 DEF PamEdits, Moves, sshVars
<1>. QED BY <1>10, <1>11

(* apply-changes generates the stack, to which an argument is added; only  *)
(* when it fails the stack is another.                                     *)
LEMMA ApplyEffect ==
    ASSUME TypeInv, NEW r \in Rules, ApplyPam(r)
    PROVE  /\ Moves(r) /\ (Repairs(r) \/ Concludes(r)) /\ r \in Pam
           /\ at[r] \in {"apply", "inserted"} /\ at'[r] \notin {"apply", "inserted"}
           /\ UNCHANGED <<sshVars, memo, stock, profile, custom, backup, held, raised>>
           /\ live' \subseteq Pam /\ paths' = None
           /\ unapplied' \in BOOLEAN /\ (unapplied => unapplied')
           /\ ~Authselect => live \subseteq live'
           /\ Authselect /\ ~unapplied' =>
                 \/ live' = Generated(Selected)
                 \/ live' = Generated(Selected) \union {r} /\ at[r] = "apply"
           /\ at[r] = "apply" => \/ stage'[r] = "recheck"
                                 \/ r \in cut
                                 \/ result'[r].apply = "applied_pending"
<1>1. /\ Threads /\ PlaceInv /\ live \subseteq Pam /\ profile \subseteq Pam /\ stock \subseteq Pam
      /\ (backup = None \/ backup \subseteq Pam) /\ unapplied \in BOOLEAN
  BY TypeThreads DEF TypeInv, TypeOK
<1>2. /\ at[r] \in {"apply", "inserted"} /\ paths' = None
      /\ IF at[r] = "apply" THEN Fixed(r) ELSE Goto(r, "retry", "check")
      /\ UNCHANGED <<phase, cut, sshVars, memo, stock, profile, custom, backup, held, raised>>
  BY DEF ApplyPam
<1>3. PICK a \in Applied :
         /\ live' = IF at[r] = "apply" /\ r \in Arg /\ On(r, a.stack) THEN a.stack \union {r} ELSE a.stack
         /\ unapplied' = (unapplied \/ a.failed)
  BY DEF ApplyPam
<1>4. /\ a.failed \in BOOLEAN /\ a.stack \subseteq Pam
      /\ Authselect /\ ~a.failed => a.stack = Generated(Selected)
      /\ ~Authselect => a.stack = live
  <2>1. Generated(Selected) \subseteq Pam
    BY <1>1, GeneratedPart DEF Selected
  <2>2. CASE Authselect
    <3>1. \/ a = [stack |-> Generated(Selected), failed |-> FALSE]
          \/ a = [stack |-> IF backup = None THEN live ELSE backup, failed |-> TRUE]
      BY <1>3, <2>2 DEF Applied
    <3>2. CASE a = [stack |-> Generated(Selected), failed |-> FALSE]
      <4>1. a.stack = Generated(Selected) /\ a.failed = FALSE
        BY <3>2
      <4>. QED BY <2>1, <2>2, <4>1
    <3>3. CASE a = [stack |-> IF backup = None THEN live ELSE backup, failed |-> TRUE]
      <4>1. a.stack \in {live, backup} /\ a.stack \subseteq Pam /\ a.failed = TRUE
        BY <1>1, <3>3
      <4>. QED BY <2>2, <4>1
    <3>. QED BY <3>1, <3>2, <3>3
  <2>3. CASE ~Authselect
    <3>1. a.stack = live /\ a.failed = FALSE
      BY <1>3, <2>3 DEF Applied
    <3>. QED BY <1>1, <2>3, <3>1
  <2>. QED BY <2>2, <2>3
<1>5. r \in Pam /\ stage[r] = "check" /\ (at[r] = "inserted" => r \in Arg)
  BY <1>1, <1>2, FamilyFacts DEF PlaceInv
<1>6. CASE at[r] = "apply"
  <2>1. Threads' /\ Others(r) /\ (Gone(r, "look", "recheck") \/ Ended(r, Result("fail", "applied_pending")))
    BY <1>1, <1>2, <1>6, FixedEffect
  <2>2. Result("fail", "applied_pending").apply = "applied_pending"
    BY ResultFields DEF Status, Apply
  <2>3. /\ Concludes(r) /\ at'[r] \in {"look", "ended"}
        /\ stage'[r] = "recheck" \/ r \in cut \/ result'[r].apply = "applied_pending"
    BY <1>5, <1>6, <2>1, <2>2 DEF Concludes, Gone, Ended
  <2>. QED BY <1>1, <1>2, <1>3, <1>4, <1>5, <1>6, <2>1, <2>3 DEF Moves, sshVars
<1>7. CASE at[r] = "inserted"
  <2>1. Threads' /\ Others(r) /\ Gone(r, "retry", "check")
    BY <1>1, <1>2, <1>7, GotoEffect DEF Places, Stages
  <2>2. Repairs(r) /\ at'[r] = "retry"
    BY <1>5, <1>7, <2>1 DEF Repairs, Gone
  <2>. QED BY <1>1, <1>2, <1>3, <1>4, <1>5, <1>7, <2>1, <2>2 DEF Moves, sshVars
<1>. QED BY <1>2, <1>6, <1>7

LEMMA PamEffect ==
    ASSUME TypeInv, NEW r \in Rules, EditPam(r) \/ EnableFeature(r) \/ AddLine(r)
    PROVE  PamEdits(r)
  BY EditEffect, FeatureEffect, LineEffect

-----------------------------------------------------------------------------
(* The steps of main. *)

LEMMA InstallEffect ==
    ASSUME TypeInv, BatchInstall
    PROVE  /\ phase = "prescan" /\ phase' = "apply" /\ held \subseteq held' /\ held' \subseteq held \union Pkg
           /\ UNCHANGED <<at, stage, result, cut, sshVars, memo, pamVars, raised>>
  BY DEF BatchInstall

LEMMA FlushEffect ==
    ASSUME TypeInv, FlushRestarts
    PROVE  /\ Threads' /\ phase = "flush" /\ phase' = "recheck" /\ restart' = FALSE
           /\ running' = IF restart THEN Effective ELSE running
           /\ \A r \in ToRecheck : at'[r] = "look" /\ stage'[r] = "verify"
           /\ \A r \in Rules \ ToRecheck : at'[r] = at[r] /\ stage'[r] = stage[r]
           /\ UNCHANGED <<result, cut, refused, dropin, snap, memo, pamVars, held, raised>>
<1>1. Threads
  BY TypeThreads DEF TypeInv
<1>2. ToRecheck \subseteq Rules /\ "look" \in Places /\ "verify" \in Stages
  BY DEF ToRecheck, Places, Stages
<1>3. /\ at' = [r \in Rules |-> IF r \in ToRecheck THEN "look" ELSE at[r]]
      /\ stage' = [r \in Rules |-> IF r \in ToRecheck THEN "verify" ELSE stage[r]]
      /\ phase = "flush" /\ phase' = "recheck" /\ restart' = FALSE
      /\ running' = IF restart THEN Effective ELSE running
      /\ UNCHANGED <<result, cut, refused, dropin, snap, memo, pamVars, held, raised>>
  BY DEF FlushRestarts
<1>. QED BY <1>1, <1>2, <1>3 DEF Threads

LEMMA SameThreads ==
    ASSUME Threads, UNCHANGED <<at, stage, result>>
    PROVE  Threads'
  BY DEF Threads

LEMMA NextCases ==
    ASSUME [Next]_vars
    PROVE  \/ BatchInstall \/ PoolEnds \/ BudgetSpent \/ FlushRestarts \/ WriteDocument
           \/ UNCHANGED vars
           \/ \E r \in Rules : \/ Pick(r) \/ Begin(r) \/ Check(r)
                               \/ FixHost(r) \/ Snapshot(r) \/ WriteDropin(r) \/ Accepted(r) \/ RollBack(r)
                               \/ EditPam(r) \/ EnableFeature(r) \/ AddLine(r) \/ ApplyPam(r)
  BY DEF Next, Main, Fix


-----------------------------------------------------------------------------
(* Type correctness. *)

HostType ==
    /\ phase \in {"prescan", "apply", "flush", "recheck", "done"} /\ cut \subseteq Rules
    /\ refused \subseteq Refusable /\ dropin \subseteq Ssh
    /\ snap \in [Ssh -> SUBSET Ssh]
    /\ IsConfiguration(running) /\ restart \in BOOLEAN
    /\ cache = None \/ IsConfiguration(cache)
    /\ seen = None \/ IsConfiguration(seen)
    /\ producer \in Ssh \union {None}
    /\ live \subseteq Pam /\ stock \subseteq Pam /\ profile \subseteq Pam
    /\ custom \in BOOLEAN /\ unapplied \in BOOLEAN /\ paths \in BOOLEAN \union {None}
    /\ backup = None \/ backup \subseteq Pam
    /\ held \subseteq Rules \ (Ssh \union Pam) /\ raised \subseteq Rules

LEMMA TypeParts == (TypeOK <=> Threads /\ HostType) /\ (Threads' /\ HostType' => TypeOK')
  BY DEF TypeOK, Threads, HostType, Places, Stages, ResultType

LEMMA EffectiveType == dropin \subseteq Ssh => IsConfiguration(Effective)
  BY DEF Effective, IsConfiguration

LEMMA PkgApart == Pkg \subseteq Rules \ (Ssh \union Pam)
  BY DEF Pkg, Ssh, Pam, Arg, Line, Of

LEMMA MovesPlace ==
    ASSUME PlaceInv, NEW r \in Rules, Moves(r)
    PROVE  PlaceInv'
<1>1. ASSUME NEW q \in Rules \ {r}
      PROVE  /\ at'[q] \in {"produce", "await", "get", "write", "test"} => q \in Ssh
             /\ at'[q] \in {"insert", "inserted", "retry"} => q \in Arg
             /\ at'[q] = "apply" => q \in Pam
             /\ at'[q] \in {"queued", "picked", "fix", "write", "test", "insert", "inserted", "retry", "apply"}
                   => stage'[q] = "check"
  BY DEF Moves, Others, PlaceInv
<1>2. /\ at'[r] \in {"produce", "await", "get", "write", "test"} => r \in Ssh
      /\ at'[r] \in {"insert", "inserted", "retry"} => r \in Arg
      /\ at'[r] = "apply" => r \in Pam
      /\ at'[r] \in {"queued", "picked", "fix", "write", "test", "insert", "inserted", "retry", "apply"}
            => stage'[r] = "check"
  <2>1. CASE Starts(r) \/ Waits(r)
    BY <2>1 DEF PlaceInv, Starts, Waits, Gone
  <2>2. CASE Repairs(r) \/ Concludes(r)
    BY <2>2 DEF Repairs, Concludes, Gone, Ended
  <2>3. CASE \E st \in Status : Replies(r, st)
    BY <2>3 DEF Replies, Gone, Ended
  <2>. QED BY <2>1, <2>2, <2>3 DEF Moves
<1>. QED BY <1>1, <1>2, FamilyFacts DEF PlaceInv, Ssh, Pam, Arg, Line, Of

LEMMA TypeInit == Init => TypeInv
<1>. SUFFICES ASSUME Init PROVE TypeInv
  OBVIOUS
<1>1. Result("error", "n/a") \in ResultType
  BY ResultFields DEF Status, Apply
<1>2. Threads
  BY <1>1 DEF Init, Threads, Places, Stages
<1>3. Ssh \subseteq Rules
  BY FamilyFacts
<1>4. HostType
  BY <1>3, GeneratedPart DEF Init, HostType, IsConfiguration
<1>5. PlaceInv
  BY DEF Init, PlaceInv
<1>. QED BY <1>2, <1>4, <1>5, TypeParts DEF TypeInv

LEMMA TypeStep == TypeInv /\ [Next]_vars => TypeInv'
<1>. SUFFICES ASSUME TypeInv, [Next]_vars PROVE TypeInv'
  OBVIOUS
<1>1. Threads /\ HostType /\ PlaceInv
  BY TypeParts DEF TypeInv
<1>2. ASSUME NEW r \in Rules, Moves(r), HostType' PROVE TypeInv'
  BY <1>1, <1>2, MovesPlace, TypeParts DEF TypeInv, Moves
<1>3. ASSUME UNCHANGED <<at, stage, result>>, HostType' PROVE TypeInv'
  <2>1. Threads' /\ PlaceInv'
    BY <1>1, <1>3, SameThreads DEF PlaceInv
  <2>. QED BY <1>3, <2>1, TypeParts DEF TypeInv
<1>4. CASE BatchInstall
  BY <1>1, <1>3, <1>4, PkgApart, InstallEffect DEF HostType, sshVars, memo, pamVars
<1>5. CASE PoolEnds \/ BudgetSpent \/ WriteDocument
  BY <1>1, <1>3, <1>5 DEF PoolEnds, BudgetSpent, WriteDocument, Unfinished, HostType, sshVars, memo, pamVars
<1>6. CASE FlushRestarts
  <2>1. HostType'
    BY <1>1, <1>6, FlushEffect, EffectiveType DEF HostType, IsConfiguration, memo, pamVars
  <2>2. PlaceInv'
    BY <1>1, <1>6, FlushEffect DEF PlaceInv
  <2>. QED BY <1>6, <2>1, <2>2, FlushEffect, TypeParts DEF TypeInv
<1>7. CASE UNCHANGED vars
  BY <1>1, <1>3, <1>7 DEF vars, HostType, sshVars, memo, pamVars
<1>8. ASSUME NEW r \in Rules, Pick(r) \/ Begin(r) PROVE TypeInv'
  BY <1>1, <1>2, <1>8, StartEffect DEF HostType, Moves, sshVars, memo, pamVars
<1>9. ASSUME NEW r \in Rules, Check(r) PROVE TypeInv'
  <2>1. IsConfiguration(Effective)
    BY <1>1, EffectiveType DEF HostType
  <2>2. WithSources \in BOOLEAN
    BY <1>1 DEF HostType, WithSources
  <2>. QED BY <1>1, <1>2, <1>9, <2>1, <2>2, CheckEffect DEF HostType, IsConfiguration, Moves, sshVars
<1>10. ASSUME NEW r \in Rules, FixHost(r) PROVE TypeInv'
  BY <1>1, <1>2, <1>10, FixHostEffect DEF HostType, Moves, sshVars, memo, pamVars
<1>11. ASSUME NEW r \in Rules, Snapshot(r) \/ WriteDropin(r) \/ Accepted(r) \/ RollBack(r) PROVE TypeInv'
  <2>1. CASE Snapshot(r)
    BY <1>1, <1>2, <2>1, SnapshotEffect DEF HostType, IsConfiguration, Moves, memo, pamVars
  <2>2. CASE WriteDropin(r)
    BY <1>1, <1>2, <2>2, WriteEffect DEF HostType, IsConfiguration, Moves, memo, pamVars
  <2>3. CASE Accepted(r)
    <3>1. /\ Moves(r) /\ restart' = TRUE /\ cache' = None /\ snap' = [snap EXCEPT ![r] = {}]
          /\ UNCHANGED <<dropin, running, producer, seen, pamVars, held, raised>>
      BY <1>1, <2>3, AcceptedEffect
    <3>2. snap' \in [Ssh -> SUBSET Ssh]
      BY <1>1, <3>1 DEF HostType
    <3>3. HostType'
      BY <1>1, <3>1, <3>2 DEF HostType, IsConfiguration, Moves, pamVars
    <3>. QED BY <1>2, <3>1, <3>3
  <2>4. CASE RollBack(r)
    BY <1>1, <1>2, <2>4, RollBackEffect DEF HostType, IsConfiguration, Moves, memo, pamVars
  <2>. QED BY <1>11, <2>1, <2>2, <2>3, <2>4
<1>12. ASSUME NEW r \in Rules, EditPam(r) \/ EnableFeature(r) \/ AddLine(r) PROVE TypeInv'
  <2>1. PamEdits(r)
    BY <1>12, PamEffect DEF TypeInv
  <2>2. stock' \subseteq Pam /\ profile' \subseteq Pam /\ custom' \in BOOLEAN
    BY <1>1, <2>1 DEF HostType, PamEdits
  <2>. QED BY <1>1, <1>2, <2>1, <2>2 DEF PamEdits, HostType, Moves, sshVars, memo
<1>13. ASSUME NEW r \in Rules, ApplyPam(r) PROVE TypeInv'
  BY <1>1, <1>2, <1>13, ApplyEffect DEF HostType, Moves, sshVars, memo
<1>. QED BY <1>4, <1>5, <1>6, <1>7, <1>8, <1>9, <1>10, <1>11, <1>12, <1>13, NextCases

(* Every variable keeps its type: a rule's check always says pass, fail or *)
(* error, also when its thread was woken and found the cache dropped again *)
(* (Ctx.cached, run_rule).                                                 *)
THEOREM TypeCorrect == Spec => []TypeOK
<1>1. TypeInv => TypeOK
  BY DEF TypeInv
<1>. QED BY TypeInit, TypeStep, <1>1, PTL DEF Spec


-----------------------------------------------------------------------------
(* What the rules report, and when the threads are through.                *)

RunInv == TypeInv /\ ResultInv /\ CloseInv

LEMMA RecheckFields ==
    \A r \in Rules : r \in ToRecheck <=> r \notin cut /\ result[r].apply \in {"applied", "applied_pending"}
  BY DEF ToRecheck

LEMMA RecheckFieldsNext ==
    \A r \in Rules : r \in ToRecheck' <=> r \notin cut' /\ result'[r].apply \in {"applied", "applied_pending"}
  BY DEF ToRecheck

LEMMA MovesResult ==
    ASSUME TypeInv, ResultInv, NEW r \in Rules, Moves(r)
    PROVE  ResultInv'
<1>. DEFINE Reports(q) ==
        /\ at'[q] # "ended" /\ stage'[q] # "verify" => result'[q] = Result("error", "n/a")
        /\ result'[q].status = "pass" => result'[q].apply \in {"already", "applied", "applied_pending"}
        /\ stage'[q] = "verify" => phase' \in {"recheck", "done"} /\ q \in ToRecheck'
<1>0. Threads /\ PlaceInv /\ phase' = phase /\ cut' = cut
  BY TypeThreads DEF TypeInv, Moves
<1>1. ASSUME NEW q \in Rules \ {r} PROVE Reports(q)
  BY <1>0, RecheckFields, RecheckFieldsNext DEF Moves, Others, ResultInv
<1>2. ASSUME stage[r] # "verify", stage'[r] # "verify", at[r] # "ended", result'[r] = result[r] PROVE Reports(r)
  BY <1>2 DEF ResultInv
<1>. HIDE DEF Reports
<1>3. ASSUME Starts(r) \/ Waits(r) \/ Repairs(r) PROVE Reports(r)
  <2>1. CASE Starts(r)
    BY <1>0, <1>2, <2>1 DEF Starts, Gone, PlaceInv
  <2>2. CASE Waits(r)
    BY <1>0, <2>2, RecheckFields, RecheckFieldsNext DEF Waits, Gone, ResultInv, Reports
  <2>3. CASE Repairs(r)
    BY <1>0, <1>2, <2>3 DEF Repairs, Gone
  <2>. QED BY <1>3, <2>1, <2>2, <2>3
<1>4. ASSUME Concludes(r) PROVE Reports(r)
  <2>1. CASE Gone(r, "look", "recheck")
    BY <1>2, <1>4, <2>1 DEF Concludes, Gone
  <2>2. ASSUME NEW ap \in {"applied_pending", "failed"}, Ended(r, Result("fail", ap)) PROVE Reports(r)
    <3>1. Result("fail", ap).status = "fail" /\ Result("error", "n/a").status = "error"
      BY ResultFields DEF Status, Apply
    <3>. QED BY <1>4, <2>2, <3>1 DEF Concludes, Ended, ResultInv, Reports
  <2>. QED BY <1>4, <2>1, <2>2 DEF Concludes
<1>5. ASSUME NEW st \in Status, Replies(r, st), Asked(r) PROVE Reports(r)
  <2>1. CASE stage[r] = "check" /\ Gone(r, "fix", "check")
    BY <1>2, <1>5, <2>1 DEF Gone, Asked
  <2>2. CASE Ended(r, Reply(r, st))
    <3>1. Reply(r, st).status = st
      BY <1>0, ReplyFields
    <3>2. CASE stage[r] = "verify"
      <4>1. r \in ToRecheck /\ phase \in {"recheck", "done"} /\ Reply(r, st).apply = result[r].apply
        BY <1>0, <3>2, ReplyFields DEF ResultInv
      <4>. QED BY <1>0, <2>2, <3>1, <3>2, <4>1, RecheckFields, RecheckFieldsNext DEF Ended, ResultInv, Reports
    <3>3. CASE stage[r] # "verify"
      <4>1. st = "pass" => Reply(r, st).apply \in {"already", "applied"}
        <5>1. stage[r] \in {"check", "recheck"}
          BY <1>0, <3>3 DEF Threads, Stages
        <5>. QED BY <1>0, <5>1, ReplyFields
      <4>. QED BY <2>2, <3>1, <3>3, <4>1 DEF Ended, ResultInv, Reports
    <3>. QED BY <3>2, <3>3
  <2>. QED BY <1>5, <2>1, <2>2 DEF Replies
<1>6. Reports(r)
  BY <1>3, <1>4, <1>5 DEF Moves
<1>. QED BY <1>1, <1>6 DEF ResultInv, Reports

LEMMA MovesClose ==
    ASSUME TypeInv, CloseInv, NEW r \in Rules, Moves(r)
    PROVE  CloseInv' /\ (Closing => stage[r] = "verify" /\ ~Starts(r) /\ ~Repairs(r) /\ ~Concludes(r))
<1>0. PlaceInv /\ phase' = phase /\ cut' = cut
  BY DEF TypeInv, Moves
<1>1. at[r] # "ended"
  BY DEF Moves, Starts, Waits, Repairs, Concludes, Asked
<1>2. CASE Closing
  <2>1. stage[r] = "verify" /\ phase # "done"
    BY <1>1, <1>2 DEF CloseInv, Closing
  <2>2. ~Starts(r) /\ ~Repairs(r) /\ ~Concludes(r)
    BY <1>0, <2>1 DEF Starts, Repairs, Concludes, PlaceInv
  <2>3. stage'[r] = "verify"
    BY <2>1, <2>2 DEF Moves, Waits, Replies, Gone, Ended
  <2>4. \A q \in Rules \ {r} : at'[q] = "ended" \/ stage'[q] = "verify"
    BY <1>2 DEF CloseInv, Moves, Others
  <2>. QED BY <1>0, <2>1, <2>2, <2>3, <2>4 DEF CloseInv, Closing
<1>3. CASE ~Closing
  BY <1>0, <1>3 DEF CloseInv, Closing
<1>. QED BY <1>2, <1>3

LEMMA RunInit == Init => RunInv
<1>. SUFFICES ASSUME Init PROVE RunInv
  OBVIOUS
<1>1. Result("error", "n/a").status = "error"
  BY ResultFields DEF Status, Apply
<1>2. ResultInv /\ CloseInv
  BY <1>1 DEF Init, ResultInv, CloseInv, Closing
<1>. QED BY <1>2, TypeInit DEF RunInv

LEMMA RunStep == RunInv /\ [Next]_vars => RunInv'
<1>. SUFFICES ASSUME RunInv, [Next]_vars PROVE ResultInv' /\ CloseInv'
  BY TypeStep DEF RunInv
<1>0. TypeInv /\ ResultInv /\ CloseInv /\ Threads
  BY TypeThreads DEF RunInv, TypeInv
<1>1. ASSUME NEW r \in Rules, Moves(r) PROVE ResultInv' /\ CloseInv'
  BY <1>0, <1>1, MovesResult, MovesClose
<1>2. ASSUME UNCHANGED <<at, stage, result>>, cut' = cut, phase' = phase PROVE ResultInv' /\ CloseInv'
  BY <1>0, <1>2, RecheckFields, RecheckFieldsNext DEF ResultInv, CloseInv, Closing
<1>3. CASE BatchInstall
  BY <1>0, <1>3, InstallEffect DEF ResultInv, CloseInv, Closing
<1>4. CASE PoolEnds
  BY <1>0, <1>4 DEF PoolEnds, Unfinished, ResultInv, CloseInv, Closing
<1>5. CASE BudgetSpent
  BY <1>0, <1>5 DEF BudgetSpent, Unfinished, ResultInv, CloseInv, Closing
<1>6. CASE FlushRestarts
  <2>1. ResultInv'
    <3>1. \A r \in Rules : stage[r] # "verify"
      BY <1>0, <1>6, FlushEffect DEF ResultInv
    <3>2. \A r \in Rules : r \in ToRecheck' <=> r \in ToRecheck
      BY <1>0, <1>6, FlushEffect, RecheckFields, RecheckFieldsNext
    <3>. QED BY <1>0, <1>6, <3>1, <3>2, FlushEffect DEF ResultInv
  <2>2. CloseInv'
    BY <1>0, <1>6, FlushEffect DEF CloseInv, Closing
  <2>. QED BY <2>1, <2>2
<1>7. CASE WriteDocument
  <2>1. phase = "recheck" /\ phase' = "done" /\ (\A r \in ToRecheck : at[r] = "ended") /\ UNCHANGED <<at, stage, result, cut>>
    BY <1>7 DEF WriteDocument
  <2>2. ResultInv'
    BY <1>0, <2>1, RecheckFields, RecheckFieldsNext DEF ResultInv
  <2>3. CloseInv'
    BY <1>0, <2>1 DEF ResultInv, CloseInv, Closing
  <2>. QED BY <2>2, <2>3
<1>8. CASE UNCHANGED vars
  BY <1>2, <1>8 DEF vars
<1>9. ASSUME NEW r \in Rules,
             \/ Pick(r) \/ Begin(r) \/ Check(r)
             \/ FixHost(r) \/ Snapshot(r) \/ WriteDropin(r) \/ Accepted(r) \/ RollBack(r)
             \/ EditPam(r) \/ EnableFeature(r) \/ AddLine(r) \/ ApplyPam(r)
      PROVE  Moves(r)
  BY <1>0, <1>9, StartEffect, CheckEffect, FixHostEffect, SnapshotEffect, WriteEffect, AcceptedEffect,
     RollBackEffect, PamEffect, ApplyEffect DEF PamEdits
<1>. QED BY <1>1, <1>3, <1>4, <1>5, <1>6, <1>7, <1>8, <1>9, NextCases


-----------------------------------------------------------------------------
(* The PAM stack. *)

LEMMA ReplyResult ==
    ASSUME Threads, NEW r \in Rules, NEW st \in Status, Replies(r, st), result'[r] # result[r]
    PROVE  at'[r] = "ended" /\ stage'[r] = stage[r] /\ r \notin cut /\ result'[r] = Reply(r, st)
  BY DEF Replies, Gone, Ended

LEMMA MovesApply ==
    ASSUME TypeInv, ResultInv, NEW r \in Rules, Moves(r), NEW q \in Rules
    PROVE  /\ result[q].apply # "n/a" => result'[q].apply = result[q].apply
           /\ result'[q].apply = "already" =>
                 \/ result[q].apply = "already"
                 \/ q = r /\ Asked(r) /\ stage[r] = "check"
           /\ stage[q] # "check" => stage'[q] # "check"
<1>. DEFINE Goal == /\ result[q].apply # "n/a" => result'[q].apply = result[q].apply
                    /\ result'[q].apply = "already" =>
                          \/ result[q].apply = "already"
                          \/ q = r /\ Asked(r) /\ stage[r] = "check"
                    /\ stage[q] # "check" => stage'[q] # "check"
<1>0. Threads /\ PlaceInv /\ Ssh \intersect Pam = {}
  BY TypeThreads, FamilyFacts DEF TypeInv
<1>1. CASE q # r
  BY <1>1 DEF Moves, Others
<1>2. ASSUME q = r, at[r] # "ended", stage[r] # "verify" PROVE result[r].apply = "n/a"
  <2>1. result[r] = Result("error", "n/a")
    BY <1>2 DEF ResultInv
  <2>. QED BY <2>1, ResultFields DEF Status, Apply
<1>3. ASSUME q = r, Starts(r) \/ Waits(r) \/ Repairs(r) PROVE Goal
  <2>1. CASE Starts(r)
    BY <1>0, <1>3, <2>1 DEF Starts, Gone
  <2>2. CASE Waits(r)
    BY <1>0, <1>3, <2>2 DEF Waits, Gone
  <2>3. CASE Repairs(r)
    BY <1>0, <1>3, <2>3 DEF Repairs, Gone
  <2>. QED BY <1>3, <2>1, <2>2, <2>3
<1>4. ASSUME q = r, Concludes(r) PROVE Goal
  <2>1. CASE Gone(r, "look", "recheck")
    BY <1>4, <2>1 DEF Gone
  <2>2. ASSUME NEW ap \in {"applied_pending", "failed"}, Ended(r, Result("fail", ap)) PROVE Goal
    <3>1. Result("fail", ap).apply = ap
      BY ResultFields DEF Status, Apply
    <3>2. result[r].apply = "n/a"
      BY <1>2, <1>4 DEF Concludes
    <3>. QED BY <1>4, <2>2, <3>1, <3>2 DEF Ended
  <2>. QED BY <1>4, <2>1, <2>2 DEF Concludes
<1>5. ASSUME q = r, Asked(r), NEW st \in Status, Replies(r, st) PROVE Goal
  <2>1. stage[r] # "check" => stage'[r] # "check"
    BY <1>5 DEF Replies, Gone, Ended
  <2>2. CASE result'[r] = result[r]
    BY <1>5, <2>1, <2>2
  <2>3. CASE result'[r] # result[r]
    <3>1. at'[r] = "ended" /\ result'[r] = Reply(r, st)
      BY <1>0, <1>5, <2>3, ReplyResult
    <3>2. CASE stage[r] = "verify"
      BY <1>0, <1>5, <2>1, <3>1, <3>2, ReplyFields
    <3>3. CASE stage[r] = "recheck"
      <4>1. Reply(r, st).apply # "already" /\ result[r].apply = "n/a"
        BY <1>0, <1>2, <1>5, <3>3, ReplyFields DEF Asked
      <4>. QED BY <1>5, <2>1, <3>1, <4>1
    <3>4. CASE stage[r] = "check"
      <4>1. result[r].apply = "n/a"
        BY <1>2, <1>5, <3>4 DEF Asked
      <4>. QED BY <1>5, <2>1, <3>1, <3>4, <4>1
    <3>. QED BY <1>0, <3>2, <3>3, <3>4 DEF Threads, Stages
  <2>. QED BY <2>2, <2>3
<1>. QED BY <1>1, <1>3, <1>4, <1>5 DEF Moves

PamState == RunInv /\ PamInv

(* What a rule has once said of its fix stays, and so does a refusal.      *)
LEMMA ApplyKept ==
    ASSUME RunInv, [Next]_vars
    PROVE  /\ \A q \in Rules : result[q].apply # "n/a" => result'[q].apply = result[q].apply
           /\ SomeRefused => SomeRefused'
           /\ Edited \subseteq Edited'
           /\ cut' = {} => cut = {}
<1>0. TypeInv /\ ResultInv /\ Pam \subseteq Rules /\ Ssh \subseteq Rules
  BY FamilyFacts DEF RunInv
<1>1. CASE BatchInstall \/ PoolEnds \/ WriteDocument \/ UNCHANGED vars
  BY <1>1 DEF BatchInstall, PoolEnds, WriteDocument, vars, SomeRefused, Edited
<1>2. CASE BudgetSpent
  <2>1. cut' # {} /\ UNCHANGED <<stage, result>>
    BY <1>2 DEF BudgetSpent
  <2>. QED BY <2>1 DEF SomeRefused, Edited
<1>3. CASE FlushRestarts
  <2>1. \A q \in Rules : stage[q] # "check" => stage'[q] # "check"
    BY <1>0, <1>3, FlushEffect
  <2>. QED BY <1>0, <1>3, <2>1, FlushEffect DEF SomeRefused, Edited
<1>4. ASSUME NEW r \in Rules, Moves(r)
      PROVE  /\ \A q \in Rules : result[q].apply # "n/a" => result'[q].apply = result[q].apply
             /\ SomeRefused => SomeRefused'
             /\ Edited \subseteq Edited'
             /\ cut' = cut
  BY <1>0, <1>4, MovesApply DEF SomeRefused, Edited, Moves
<1>. QED BY <1>0, <1>1, <1>2, <1>3, <1>4, NextCases, StartEffect, CheckEffect, FixHostEffect, SnapshotEffect,
        WriteEffect, AcceptedEffect, RollBackEffect, PamEffect, ApplyEffect DEF PamEdits

(* Who waits for apply-changes, after a step of another rule or of main.   *)
Applying(q) == at[q] \in {"apply", "inserted"}

LEMMA MovesActive ==
    ASSUME TypeInv, NEW r \in Rules, Moves(r), NEW q \in Pam
    PROVE  /\ Active(q)' => Active(q) \/ (q = r /\ at[r] \in {"queued", "picked"})
           /\ q # r => at'[q] = at[q] /\ stage'[q] = stage[q]
<1>0. PlaceInv /\ q \in Rules /\ q \notin Ssh
  BY FamilyFacts DEF TypeInv
<1>1. q # r => at'[q] = at[q] /\ stage'[q] = stage[q]
  BY <1>0 DEF Moves, Others, PlaceInv
<1>2. CASE q # r
  BY <1>1, <1>2 DEF Active
<1>3. CASE q = r
  <2>1. CASE Starts(r) \/ Waits(r)
    BY <1>0, <1>3, <2>1 DEF Starts, Waits
  <2>2. CASE Repairs(r) \/ Concludes(r)
    BY <1>3, <2>2 DEF Repairs, Concludes, Active
  <2>3. CASE Asked(r) /\ \E st \in Status : Replies(r, st)
    BY <1>3, <2>3 DEF Asked, Replies, Gone, Ended, Active
  <2>. QED BY <1>1, <2>1, <2>2, <2>3 DEF Moves
<1>. QED BY <1>1, <1>2, <1>3

LEMMA LockStep == PamState /\ [Next]_vars => LockInv'
<1>. SUFFICES ASSUME PamState, [Next]_vars PROVE LockInv'
  OBVIOUS
<1>0. TypeInv /\ LockInv /\ ResultInv /\ Pam \subseteq Rules
  BY FamilyFacts DEF PamState, RunInv, PamInv
<1>1. ASSUME \A q \in Pam : Active(q)' => Active(q) PROVE LockInv'
  BY <1>0, <1>1 DEF LockInv
<1>2. CASE BatchInstall \/ PoolEnds \/ BudgetSpent \/ WriteDocument \/ UNCHANGED vars
  <2>1. UNCHANGED <<at, stage>>
    BY <1>2 DEF BatchInstall, PoolEnds, BudgetSpent, WriteDocument, vars
  <2>. QED BY <1>1, <2>1 DEF Active
<1>3. CASE FlushRestarts
  <2>1. \A q \in Pam : Active(q)' => Active(q)
    BY <1>0, <1>3, FlushEffect DEF Active
  <2>. QED BY <1>1, <2>1
<1>4. ASSUME NEW r \in Rules, Moves(r), at[r] \notin {"queued", "picked"} PROVE LockInv'
  <2>1. \A q \in Pam : Active(q)' => Active(q)
    BY <1>0, <1>4, MovesActive
  <2>. QED BY <1>1, <2>1
<1>5. ASSUME NEW r \in Rules, Pick(r) PROVE LockInv'
  <2>1. Moves(r) /\ at[r] = "queued" /\ at'[r] = "picked"
    BY <1>0, <1>5, StartEffect DEF Pick, Starts, Gone
  <2>2. \A q \in Pam : Active(q)' => Active(q)
    BY <1>0, <2>1, MovesActive DEF Active
  <2>. QED BY <1>1, <2>2
<1>6. ASSUME NEW r \in Rules, Begin(r) PROVE LockInv'
  <2>1. Moves(r) /\ \A q \in Peers(r) \ {r} : at[q] \in {"queued", "picked", "ended"} \/ stage[q] = "verify"
    BY <1>0, <1>6, StartEffect DEF Begin
  <2>2. CASE r \in Pam
    <3>1. Peers(r) = Pam
      BY <2>2 DEF Peers, Pkg, Pam, Arg, Line, Of
    <3>2. \A q \in Pam \ {r} : ~Active(q)
      BY <2>1, <3>1 DEF Active
    <3>3. \A q \in Pam \ {r} : ~Active(q)'
      BY <1>0, <2>1, <3>2, MovesActive
    <3>. QED BY <3>3 DEF LockInv
  <2>3. CASE r \notin Pam
    BY <1>0, <1>1, <2>1, <2>3, MovesActive
  <2>. QED BY <2>2, <2>3
<1>7. ASSUME NEW r \in Rules,
             \/ Check(r)
             \/ FixHost(r) \/ Snapshot(r) \/ WriteDropin(r) \/ Accepted(r) \/ RollBack(r)
             \/ EditPam(r) \/ EnableFeature(r) \/ AddLine(r) \/ ApplyPam(r)
      PROVE  LockInv'
  <2>1. Moves(r) /\ at[r] \notin {"queued", "picked"}
    BY <1>0, <1>7, CheckEffect, FixHostEffect, SnapshotEffect, WriteEffect, AcceptedEffect,
       RollBackEffect, PamEffect, ApplyEffect DEF PamEdits, Waits, Asked
  <2>. QED BY <1>4, <2>1
<1>. QED BY <1>2, <1>3, <1>5, <1>6, <1>7, NextCases

(* What a profile grows by.                                                *)
LEMMA OnGrows ==
    ASSUME NEW r, NEW p, NEW q, p \subseteq q, On(r, p)
    PROVE  On(r, q)
  BY DEF On

LEMMA GeneratedGrows ==
    ASSUME NEW p, NEW q, p \subseteq q
    PROVE  Generated(p) \subseteq Generated(q)
  BY OnGrows DEF Generated

LEMMA ClosedGrows ==
    ASSUME NEW p, Closed(p), NEW r, On(r, p \union Featured)
    PROVE  Closed(p \union {r})
<1>1. p \union Featured \subseteq (p \union {r}) \union Featured
  OBVIOUS
<1>. QED BY <1>1, OnGrows DEF Closed

LEMMA SelectedGrows ==
    ASSUME ProfileInv, stock \subseteq stock', profile \subseteq profile', custom => custom',
           custom \in BOOLEAN, custom' \in BOOLEAN
    PROVE  Generated(Selected) \subseteq Generated(Selected')
<1>1. Selected \subseteq Selected'
  BY DEF ProfileInv, Selected
<1>. QED BY <1>1, GeneratedGrows

PamHost == ProfileInv /\ StackInv

LEMMA PamSame ==
    ASSUME PamState, UNCHANGED <<live, stock, profile, custom, unapplied>>, paths' \in {paths, WithSources},
           Edited \subseteq Edited', cut' = {} => cut = {}, \A q \in Pam : Applying(q) => Applying(q)'
    PROVE  PamHost'
<1>0. ProfileInv /\ StackInv /\ paths \in BOOLEAN \union {None} /\ custom \in BOOLEAN
  BY DEF PamState, PamInv, RunInv, TypeInv, TypeOK
<1>1. ProfileInv'
  BY <1>0, RulesAssumption DEF ProfileInv, WithSources, Closed
<1>2. Regular' => Regular
  BY DEF Regular, Applying
<1>3. Selected' = Selected
  BY DEF Selected
<1>4. StackInv'
  BY <1>0, <1>2, <1>3 DEF StackInv, Generated
<1>. QED BY <1>1, <1>4 DEF PamHost

LEMMA MovesApplying ==
    ASSUME TypeInv, NEW r \in Rules, Moves(r), ~Applying(r)
    PROVE  \A q \in Pam : Applying(q) => Applying(q)'
  BY MovesActive DEF Applying

LEMMA PamEditsStep ==
    ASSUME PamState, [Next]_vars, NEW r \in Rules, PamEdits(r)
    PROVE  PamHost'
<1>0. ProfileInv /\ StackInv /\ TypeInv /\ custom \in BOOLEAN
  BY DEF PamState, PamInv, RunInv, TypeInv, TypeOK
<1>1. /\ Moves(r) /\ r \in Pam /\ ~Applying(r)
      /\ UNCHANGED <<paths, unapplied, cut>>
      /\ custom' = custom \/ (custom' = TRUE /\ Authselect)
      /\ \/ Applying(r)'
         \/ profile' = profile /\ stock' = stock /\ Based(custom', live')
  BY DEF PamEdits, Moves, Applying
<1>2. PICK s \in Pam :
          /\ profile' \in {profile, profile \union {s}}
          /\ profile' # profile => On(s, Mentioned)
          /\ \/ stock' = stock
             \/ s \in Line /\ stock' = stock \union {s} /\ profile' = profile \union {s}
  BY DEF PamEdits
<1>3. Closed(profile')
  BY <1>0, <1>2, ClosedGrows DEF ProfileInv, Mentioned
<1>4. Closed(stock')
  <2>1. s \in Line => On(s, stock \union Featured)
    BY FamilyFacts DEF On
  <2>. QED BY <1>0, <1>2, <2>1, ClosedGrows DEF ProfileInv
<1>5. ProfileInv'
  <2>1. stock' \subseteq profile'
    BY <1>0, <1>2 DEF ProfileInv
  <2>. QED BY <1>0, <1>1, <1>3, <1>4, <2>1 DEF ProfileInv, Closed
<1>6. StackInv'
  <2>1. SUFFICES ASSUME Regular'
                 PROVE  Generated(Selected') \subseteq live' /\ live' \subseteq Generated(Selected') \union Edited'
    BY DEF StackInv, Generated
  <2>2. profile' = profile /\ stock' = stock /\ Based(custom', live')
    BY <1>1, <2>1 DEF Regular, Applying
  <2>3. CASE custom' = custom /\ live' = live
    <3>1. Regular
      BY <1>0, <1>1, <2>1, MovesApplying DEF Regular, Applying
    <3>2. Selected' = Selected
      BY <2>2, <2>3 DEF Selected
    <3>3. Edited \subseteq Edited'
      BY ApplyKept DEF PamState
    <3>. QED BY <1>0, <2>3, <3>1, <3>2, <3>3 DEF StackInv
  <2>4. CASE custom' = TRUE /\ live' = Generated(profile)
    BY <2>2, <2>4 DEF Selected
  <2>. QED BY <2>2, <2>3, <2>4 DEF Based
<1>. QED BY <1>5, <1>6 DEF PamHost

LEMMA ApplyPamStep ==
    ASSUME PamState, NEW r \in Rules, ApplyPam(r)
    PROVE  PamHost'
<1>0. ProfileInv /\ StackInv /\ TypeInv
  BY DEF PamState, PamInv, RunInv
<1>1. /\ Moves(r) /\ r \in Pam /\ UNCHANGED <<stock, profile, custom>> /\ paths' = None
      /\ Authselect /\ ~unapplied' =>
            \/ live' = Generated(Selected)
            \/ live' = Generated(Selected) \union {r} /\ at[r] = "apply"
      /\ at[r] = "apply" => \/ stage'[r] = "recheck"
                            \/ r \in cut
                            \/ result'[r].apply = "applied_pending"
  BY <1>0, ApplyEffect
<1>2. ProfileInv'
  BY <1>0, <1>1, RulesAssumption DEF ProfileInv, Closed
<1>3. Selected' = Selected /\ cut' = cut
  BY <1>1 DEF Selected, Moves
<1>4. StackInv'
  <2>1. SUFFICES ASSUME Regular'
                 PROVE  Generated(Selected') \subseteq live' /\ live' \subseteq Generated(Selected') \union Edited'
    BY DEF StackInv, Generated
  <2>2. cut = {} /\ Authselect /\ ~unapplied'
    BY <1>3, <2>1 DEF Regular
  <2>3. at[r] = "apply" => r \in Edited'
    BY <1>1, <2>2 DEF Edited
  <2>. QED BY <1>1, <1>3, <2>2, <2>3
<1>. QED BY <1>2, <1>4 DEF PamHost

LEMMA PamInit == Init => PamInv
<1>. SUFFICES ASSUME Init PROVE PamInv
  OBVIOUS
<1>1. LockInv
  BY FamilyFacts DEF Init, LockInv, Active
<1>2. ProfileInv
  BY RulesAssumption DEF Init, ProfileInv, Closed
<1>3. StackInv
  BY DEF Init, StackInv, Selected
<1>. QED BY <1>1, <1>2, <1>3 DEF PamInv

LEMMA PamStep == PamState /\ [Next]_vars => PamInv'
<1>. SUFFICES ASSUME PamState, [Next]_vars PROVE PamHost'
  BY LockStep DEF PamInv, PamHost
<1>0. RunInv /\ TypeInv /\ ResultInv /\ PlaceInv /\ Pam \subseteq Rules
  BY FamilyFacts DEF PamState, RunInv, TypeInv
<1>1. Edited \subseteq Edited' /\ (cut' = {} => cut = {})
  BY <1>0, ApplyKept
<1>2. CASE BatchInstall \/ PoolEnds \/ BudgetSpent \/ WriteDocument \/ UNCHANGED vars
  <2>1. UNCHANGED <<at, live, stock, profile, custom, paths, unapplied>>
    BY <1>2 DEF BatchInstall, PoolEnds, BudgetSpent, WriteDocument, vars, pamVars
  <2>. QED BY <1>1, <2>1, PamSame DEF Applying
<1>3. CASE FlushRestarts
  <2>1. UNCHANGED <<live, stock, profile, custom, paths, unapplied>>
    BY <1>0, <1>3, FlushEffect DEF pamVars
  <2>2. \A q \in Pam : Applying(q) => Applying(q)'
    <3>1. ASSUME NEW q \in Pam, Applying(q) PROVE Applying(q)'
      <4>1. result[q] = Result("error", "n/a")
        BY <1>0, <3>1 DEF Applying, PlaceInv, ResultInv
      <4>2. q \notin ToRecheck
        BY <1>0, <4>1, RecheckFields, ResultFields DEF Status, Apply
      <4>. QED BY <1>0, <1>3, <3>1, <4>2, FlushEffect DEF Applying
    <3>. QED BY <3>1
  <2>. QED BY <1>1, <2>1, <2>2, PamSame
<1>4. ASSUME NEW r \in Rules, Moves(r), ~Applying(r),
             UNCHANGED <<live, stock, profile, custom, unapplied>>, paths' \in {paths, WithSources}
      PROVE  PamHost'
  BY <1>0, <1>1, <1>4, MovesApplying, PamSame
<1>5. ASSUME NEW r \in Rules, Pick(r) \/ Begin(r) PROVE PamHost'
  BY <1>0, <1>4, <1>5, StartEffect DEF Starts, Applying, pamVars
<1>6. ASSUME NEW r \in Rules, Check(r) PROVE PamHost'
  BY <1>0, <1>4, <1>6, CheckEffect DEF Waits, Asked, Applying
<1>7. ASSUME NEW r \in Rules, FixHost(r) \/ Snapshot(r) \/ WriteDropin(r) \/ Accepted(r) \/ RollBack(r) PROVE PamHost'
  <2>1. Moves(r) /\ ~Applying(r) /\ UNCHANGED pamVars
    BY <1>0, <1>7, FixHostEffect, SnapshotEffect, WriteEffect, AcceptedEffect, RollBackEffect DEF Applying
  <2>. QED BY <1>4, <2>1 DEF pamVars
<1>8. ASSUME NEW r \in Rules, EditPam(r) \/ EnableFeature(r) \/ AddLine(r) PROVE PamHost'
  BY <1>0, <1>8, PamEffect, PamEditsStep
<1>. QED BY <1>2, <1>3, <1>5, <1>6, <1>7, <1>8, ApplyPamStep, NextCases


-----------------------------------------------------------------------------
(* What was found to hold already, and what is found after the restart.    *)

HostState == PamState /\ CacheInv /\ AlreadyInv

(* Settings are only added, but for a rollback of the drop-in; those of a  *)
(* stack that authselect generates are the selected profile's.             *)
LEMMA PamGrows ==
    ASSUME PamState, stock \subseteq stock', profile \subseteq profile', custom => custom',
           custom' \in BOOLEAN, ~Authselect => live \subseteq live'
    PROVE  \A q \in Pam : Standing(q) => Standing(q)'
<1>0. ProfileInv /\ custom \in BOOLEAN
  BY DEF PamState, PamInv, RunInv, TypeInv, TypeOK
<1>1. Generated(Selected) \subseteq Generated(Selected')
  BY <1>0, SelectedGrows
<1>. QED BY <1>1 DEF Standing, Generated

LEMMA HostGrows ==
    ASSUME PamState, [Next]_vars
    PROVE  /\ held \subseteq held' /\ \A q \in Pam : Standing(q) => Standing(q)'
           /\ (custom => custom') /\ (unapplied => unapplied') /\ raised \subseteq raised'
           /\ ~SomeRefused' /\ cut' = {} => dropin \subseteq dropin'
<1>. DEFINE Goal == /\ held \subseteq held' /\ \A q \in Pam : Standing(q) => Standing(q)'
                    /\ (custom => custom') /\ (unapplied => unapplied') /\ raised \subseteq raised'
                    /\ ~SomeRefused' /\ cut' = {} => dropin \subseteq dropin'
<1>0. TypeInv /\ RunInv /\ custom \in BOOLEAN
  BY DEF PamState, RunInv, TypeInv, TypeOK
<1>1. ASSUME UNCHANGED <<live, stock, profile, custom, unapplied>> PROVE \A q \in Pam : Standing(q) => Standing(q)'
  BY <1>0, <1>1, PamGrows
<1>2. CASE BatchInstall \/ PoolEnds \/ BudgetSpent \/ FlushRestarts \/ WriteDocument \/ UNCHANGED vars
  <2>1. UNCHANGED <<live, stock, profile, custom, unapplied, raised, dropin>> /\ held \subseteq held'
    BY <1>2 DEF BatchInstall, PoolEnds, BudgetSpent, FlushRestarts, WriteDocument, vars, sshVars, pamVars
  <2>. QED BY <1>1, <2>1
<1>3. ASSUME NEW r \in Rules, Pick(r) \/ Begin(r) \/ Check(r) \/ FixHost(r) PROVE Goal
  <2>1. UNCHANGED <<live, stock, profile, custom, unapplied, dropin>> /\ held \subseteq held' /\ raised \subseteq raised'
    BY <1>0, <1>3, StartEffect, CheckEffect, FixHostEffect DEF sshVars, pamVars
  <2>. QED BY <1>1, <2>1
<1>4. ASSUME NEW r \in Rules, Snapshot(r) \/ WriteDropin(r) \/ Accepted(r) PROVE Goal
  <2>1. UNCHANGED <<live, stock, profile, custom, unapplied, held, raised>> /\ dropin \subseteq dropin'
    BY <1>0, <1>4, SnapshotEffect, WriteEffect, AcceptedEffect DEF pamVars
  <2>. QED BY <1>1, <2>1
<1>5. ASSUME NEW r \in Rules, RollBack(r) PROVE Goal
  <2>1. /\ UNCHANGED <<live, stock, profile, custom, unapplied, held, raised>>
        /\ r \in Ssh /\ Ended(r, Result("fail", "failed")) /\ cut' = cut
    BY <1>0, <1>5, RollBackEffect DEF pamVars, Moves
  <2>2. Result("fail", "failed").apply = "failed"
    BY ResultFields DEF Status, Apply
  <2>3. cut' = {} => SomeRefused'
    BY <2>1, <2>2 DEF Ended, SomeRefused
  <2>. QED BY <1>1, <2>1, <2>3
<1>6. ASSUME NEW r \in Rules, EditPam(r) \/ EnableFeature(r) \/ AddLine(r) PROVE Goal
  <2>1. PamEdits(r)
    BY <1>0, <1>6, PamEffect
  <2>2. stock \subseteq stock' /\ profile \subseteq profile'
    BY <2>1 DEF PamEdits
  <2>3. custom' = custom \/ custom' = TRUE
    BY <2>1 DEF PamEdits
  <2>4. (custom => custom') /\ custom' \in BOOLEAN
    BY <1>0, <2>3
  <2>5. (~Authselect => live \subseteq live') /\ UNCHANGED <<unapplied, held, raised, dropin>>
    BY <2>1 DEF PamEdits, sshVars
  <2>. QED BY <2>2, <2>4, <2>5, PamGrows
<1>7. ASSUME NEW r \in Rules, ApplyPam(r) PROVE Goal
  <2>1. UNCHANGED <<stock, profile, custom, held, raised, dropin>> /\ (unapplied => unapplied')
        /\ (~Authselect => live \subseteq live')
    BY <1>0, <1>7, ApplyEffect DEF sshVars
  <2>. QED BY <1>0, <2>1, PamGrows
<1>. QED BY <1>2, <1>3, <1>4, <1>5, <1>6, <1>7, NextCases

LEMMA CacheStep == HostState /\ [Next]_vars => CacheInv'
<1>. SUFFICES ASSUME HostState, [Next]_vars, ~SomeRefused', cut' = {}
              PROVE  Granted(cache)' /\ Granted(seen)'
  BY DEF CacheInv
<1>0. RunInv /\ TypeInv /\ CacheInv /\ PamState
  BY DEF HostState, PamState, RunInv
<1>1. Granted(cache) /\ Granted(seen) /\ dropin \subseteq dropin'
  BY <1>0, ApplyKept, HostGrows DEF CacheInv
<1>2. cache' \in {cache, seen, None} /\ seen' \in {seen, None, Effective}
  <2>1. CASE BatchInstall \/ PoolEnds \/ BudgetSpent \/ FlushRestarts \/ WriteDocument \/ UNCHANGED vars
    BY <2>1 DEF BatchInstall, PoolEnds, BudgetSpent, FlushRestarts, WriteDocument, vars, memo
  <2>2. ASSUME NEW r \in Rules, Pick(r) \/ Begin(r) \/ FixHost(r) \/ EditPam(r) \/ EnableFeature(r) \/ AddLine(r) \/ ApplyPam(r)
        PROVE  cache' = cache /\ seen' = seen
    BY <1>0, <2>2, StartEffect, FixHostEffect, PamEffect, ApplyEffect DEF memo, PamEdits
  <2>3. ASSUME NEW r \in Rules, Check(r) PROVE cache' \in {cache, seen} /\ seen' \in {seen, None, Effective}
    BY <1>0, <2>3, CheckEffect
  <2>4. ASSUME NEW r \in Rules, Snapshot(r) \/ WriteDropin(r) \/ Accepted(r) \/ RollBack(r)
        PROVE  cache' \in {cache, None} /\ seen' = seen
    BY <1>0, <2>4, SnapshotEffect, WriteEffect, AcceptedEffect, RollBackEffect DEF memo
  <2>. QED BY <2>1, <2>2, <2>3, <2>4, NextCases
<1>3. Granted(Effective) /\ Granted(None)
  BY DEF Granted, Effective
<1>. QED BY <1>1, <1>2, <1>3 DEF Granted

(* A setting that a PAM check finds is in the stack or, but for features,  *)
(* in what authselect generates it from.                                   *)
LEMMA SettingsStand ==
    ASSUME PamState, NEW q \in Pam, q \in PamSettings(q), ~(custom /\ OnFeature(q))
    PROVE  q \in live \/ (custom /\ q \in Generated(Selected))
<1>0. ProfileInv /\ custom \in BOOLEAN /\ paths \in BOOLEAN \union {None} /\ q \in Arg \union Line
  BY FamilyFacts DEF PamState, PamInv, RunInv, TypeInv, TypeOK
<1>1. CASE q \notin live
  <2>1. WithSources /\ q \in Mentioned
    BY <1>1 DEF PamSettings
  <2>2. custom
    BY <1>0, <2>1 DEF ProfileInv, WithSources
  <2>3. q \notin Featured /\ (q \in Arg => Module[q] \notin Featured)
    BY <2>2 DEF OnFeature
  <2>4. q \in profile /\ On(q, profile \union Featured)
    BY <1>0, <2>1, <2>3 DEF Mentioned, ProfileInv, Closed
  <2>5. On(q, profile)
    BY <2>3, <2>4 DEF On
  <2>. QED BY <2>2, <2>4, <2>5 DEF Generated, Selected
<1>. QED BY <1>1

LEMMA AlreadyStep == HostState /\ [Next]_vars => AlreadyInv'
<1>. SUFFICES ASSUME HostState, [Next]_vars, NEW q \in Rules, result'[q].apply = "already"
              PROVE  /\ q \in Pam /\ cut' = {} /\ ~unapplied' /\ ~(custom' /\ OnFeature(q)) => Standing(q)'
                     /\ q \notin Pam \union Ssh => q \in held'
                     /\ q \in Ssh /\ ~SomeRefused' /\ cut' = {} => q \in dropin'
  BY DEF AlreadyInv
<1>0. PamState /\ RunInv /\ TypeInv /\ ResultInv /\ CacheInv /\ AlreadyInv /\ PamInv /\ Threads /\ PlaceInv
  BY TypeThreads DEF HostState, PamState, RunInv, TypeInv
<1>1. CASE result[q].apply = "already"
  BY <1>0, <1>1, ApplyKept, HostGrows DEF AlreadyInv
<1>2. CASE result[q].apply # "already"
  <2>1. ASSUME NEW r \in Rules, Moves(r) PROVE q = r /\ Asked(r) /\ stage[r] = "check"
    BY <1>0, <1>2, <2>1, MovesApply
  <2>2. PICK r \in Rules : Pick(r) \/ Begin(r) \/ Check(r)
                           \/ FixHost(r) \/ Snapshot(r) \/ WriteDropin(r) \/ Accepted(r) \/ RollBack(r)
                           \/ EditPam(r) \/ EnableFeature(r) \/ AddLine(r) \/ ApplyPam(r)
    BY <1>2, NextCases DEF BatchInstall, PoolEnds, BudgetSpent, FlushRestarts, WriteDocument, vars
  <2>3. Check(r) /\ q = r /\ Asked(r) /\ stage[r] = "check"
    <3>1. Moves(r) /\ (~Check(r) => at[r] \notin {"look", "produce", "get"})
      BY <1>0, <2>2, StartEffect, CheckEffect, FixHostEffect, SnapshotEffect, WriteEffect, AcceptedEffect,
         RollBackEffect, PamEffect, ApplyEffect DEF Starts, PamEdits
    <3>. QED BY <2>1, <3>1 DEF Asked
  <2>4. PICK st \in Status : Replies(r, st) /\ CheckSays(r, st)
    <3>1. ~Waits(r)
      BY <1>2, <2>3 DEF Waits, Gone
    <3>. QED BY <1>0, <2>3, <3>1, CheckEffect DEF Says
  <2>5. result'[r] = Reply(r, st)
    BY <1>0, <1>2, <2>3, <2>4, ReplyResult
  <2>6. st = "pass"
    BY <1>0, <2>3, <2>5, ReplyFields
  <2>7. UNCHANGED <<dropin, live, stock, profile, custom, unapplied, held, cut>> /\ CheckSays(r, "pass")
    BY <1>0, <2>3, <2>4, <2>6, CheckEffect DEF sshVars, Moves
  <2>8. CASE q \in Ssh
    BY <1>0, <2>3, <2>7, <2>8, ApplyKept, FamilyFacts DEF CheckSays, Told, CacheInv, Granted
  <2>9. CASE q \in Pam
    <3>1. SUFFICES ASSUME cut = {}, ~unapplied, ~(custom /\ OnFeature(q)) PROVE Standing(q)
      <4>1. Standing(q) => Standing(q)'
        BY <1>0, <2>9, HostGrows
      <4>. QED BY <2>7, <2>9, <3>1, <4>1, FamilyFacts
    <3>2. q \in live \/ (custom /\ q \in Generated(Selected))
      BY <1>0, <2>3, <2>7, <2>9, <3>1, SettingsStand DEF CheckSays
    <3>3. CASE Authselect
      <4>1. at[q] = "look" /\ stage[q] = "check"
        BY <2>3, <2>9, FamilyFacts DEF Asked
      <4>2. q \notin Edited
        <5>1. result[q] = Result("error", "n/a")
          BY <1>0, <4>1 DEF ResultInv
        <5>. QED BY <4>1, <5>1, ResultFields DEF Edited, Status, Apply
      <4>3. \A p \in Pam : at[p] \notin {"apply", "inserted"}
        <5>1. ASSUME NEW p \in Pam, at[p] \in {"apply", "inserted"} PROVE FALSE
          <6>1. Active(p) /\ Active(q)
            BY <1>0, <4>1, <5>1, FamilyFacts DEF Active, PlaceInv
          <6>. QED BY <1>0, <2>9, <4>1, <5>1, <6>1 DEF PamInv, LockInv
        <5>. QED BY <5>1
      <4>4. Regular
        BY <3>1, <3>3, <4>3 DEF Regular
      <4>. QED BY <1>0, <3>2, <3>3, <4>2, <4>4 DEF PamInv, StackInv, Standing
    <3>4. CASE ~Authselect
      BY <1>0, <3>2, <3>4 DEF PamInv, ProfileInv, Standing
    <3>. QED BY <3>3, <3>4
  <2>10. CASE q \notin Ssh \union Pam
    BY <2>3, <2>7, <2>10 DEF CheckSays
  <2>. QED BY <2>8, <2>9, <2>10, FamilyFacts
<1>. QED BY <1>1, <1>2

(* Once the pool is through, the stack has what authselect generates.      *)
LEMMA ClosingStack ==
    ASSUME HostState, Closing, ~unapplied, Authselect
    PROVE  Generated(Selected) \subseteq live
<1>1. CloseInv /\ PlaceInv /\ StackInv /\ Pam \subseteq Rules
  BY FamilyFacts DEF HostState, PamState, PamInv, RunInv, TypeInv
<1>2. \A q \in Pam : at[q] \notin {"apply", "inserted"}
  BY <1>1 DEF CloseInv, PlaceInv
<1>. QED BY <1>1, <1>2 DEF StackInv, Regular, Closing

LEMMA AlreadyBacked ==
    ASSUME HostState, Closing, NEW q \in Rules, result[q].apply = "already"
    PROVE  Backed(q)
<1>1. AlreadyInv /\ cut = {} /\ Pam \subseteq Rules
  BY FamilyFacts DEF HostState, Closing
<1>2. CASE q \in Pam
  <2>1. CASE unapplied \/ (custom /\ OnFeature(q))
    BY <1>2, <2>1 DEF Backed, Excused
  <2>2. CASE ~unapplied /\ ~(custom /\ OnFeature(q))
    <3>1. Standing(q)
      BY <1>1, <1>2, <2>2 DEF AlreadyInv
    <3>. QED BY <2>2, <3>1, ClosingStack DEF Standing, Backed, InForce
  <2>. QED BY <2>1, <2>2
<1>3. CASE q \notin Pam
  BY <1>1, <1>3 DEF AlreadyInv, Backed, Excused, InForce
<1>. QED BY <1>2, <1>3

LEMMA CheckReport ==
    ASSUME HostState, ReportInv, NEW r \in Rules, Check(r), phase \in {"recheck", "done"}, cut = {},
           NEW q \in Rules, at'[q] = "ended", result'[q].status = "pass"
    PROVE  Backed(q)'
<1>0. /\ RunInv /\ TypeInv /\ ResultInv /\ CloseInv /\ CacheInv /\ Threads /\ PamState /\ ProfileInv
      /\ Closing
  BY TypeThreads DEF HostState, PamState, PamInv, RunInv, TypeInv, Closing
<1>1. /\ Moves(r) /\ stage[r] = "verify" /\ r \notin cut
      /\ UNCHANGED <<dropin, live, held, custom, unapplied>> /\ raised \subseteq raised'
      /\ InForce' = InForce
  BY <1>0, CheckEffect, MovesClose DEF sshVars, InForce
<1>2. /\ SomeRefused => SomeRefused'
      /\ \A p \in Rules : result[p].apply # "n/a" => result'[p].apply = result[p].apply
  BY <1>0, <1>1, MovesApply, FamilyFacts DEF SomeRefused
<1>3. Backed(q) => Backed(q)'
  <2>1. result[q].apply = "already" => result'[q].apply = "already"
    BY <1>2
  <2>. QED BY <1>1, <1>2, <2>1 DEF Backed, Excused
<1>4. CASE q # r
  BY <1>0, <1>1, <1>3, <1>4 DEF ReportInv, Moves, Others, Closing
<1>5. CASE q = r
  <2>1. PICK st \in Status : Replies(r, st) /\ Says(r, st)
    <3>1. ~Waits(r)
      BY <1>5 DEF Waits, Gone
    <3>. QED BY <1>0, <3>1, CheckEffect
  <2>2. result'[r] = Reply(r, st)
    BY <1>1, <2>1 DEF Replies, Ended
  <2>3. CheckSays(r, "pass") \/ r \in raised'
    BY <1>0, <1>5, <2>1, <2>2, ReplyFields DEF Says
  <2>4. CASE r \in raised'
    BY <1>5, <2>4 DEF Backed, Excused
  <2>5. CASE CheckSays(r, "pass") /\ r \in Ssh
    BY <1>0, <1>3, <1>5, <2>5 DEF CheckSays, Told, CacheInv, Granted, Backed, Excused, InForce, Closing
  <2>6. CASE CheckSays(r, "pass") /\ r \in Pam
    <3>1. CASE custom /\ (OnFeature(r) \/ unapplied)
      BY <1>3, <1>5, <2>6, <3>1 DEF Backed, Excused
    <3>2. CASE ~(custom /\ (OnFeature(r) \/ unapplied))
      <4>1. r \in live \/ (custom /\ r \in Generated(Selected))
        BY <1>0, <2>6, <3>2, SettingsStand DEF CheckSays
      <4>2. custom => Generated(Selected) \subseteq live
        BY <1>0, <3>2, ClosingStack DEF ProfileInv
      <4>. QED BY <1>3, <1>5, <4>1, <4>2 DEF Backed, InForce
    <3>. QED BY <3>1, <3>2
  <2>7. CASE CheckSays(r, "pass") /\ r \notin Ssh \union Pam
    BY <1>3, <1>5, <2>7 DEF CheckSays, Backed, InForce
  <2>. QED BY <2>3, <2>4, <2>5, <2>6, <2>7
<1>. QED BY <1>4, <1>5

LEMMA ReportStep == HostState /\ ReportInv /\ [Next]_vars => ReportInv'
<1>. SUFFICES ASSUME HostState, ReportInv, [Next]_vars, phase' \in {"recheck", "done"}, cut' = {},
                     NEW q \in Rules, at'[q] = "ended", result'[q].status = "pass"
              PROVE  Backed(q)'
  BY DEF ReportInv
<1>0. RunInv /\ TypeInv /\ ResultInv /\ CloseInv
  BY DEF HostState, PamState, RunInv
<1>1. cut = {}
  BY <1>0, ApplyKept
<1>2. CASE FlushRestarts
  <2>1. q \notin ToRecheck /\ UNCHANGED <<result, dropin, live, held, custom, unapplied, raised>> /\ Closing
    BY <1>0, <1>1, <1>2, FlushEffect DEF pamVars, Closing
  <2>2. result[q].apply = "already"
    BY <1>0, <1>1, <2>1, RecheckFields DEF ResultInv
  <2>. QED BY <1>1, <2>1, <2>2, AlreadyBacked DEF Backed, Excused, InForce, SomeRefused
<1>3. CASE PoolEnds \/ BudgetSpent \/ BatchInstall
  BY <1>3 DEF PoolEnds, BudgetSpent, BatchInstall
<1>4. CASE WriteDocument \/ UNCHANGED vars
  <2>1. UNCHANGED <<at, result, dropin, live, held, custom, unapplied, raised>> /\ phase \in {"recheck", "done"}
    BY <1>4 DEF WriteDocument, vars, sshVars, pamVars
  <2>. QED BY <1>1, <2>1 DEF ReportInv, Backed, Excused, InForce, SomeRefused
<1>5. ASSUME NEW r \in Rules,
             \/ Pick(r) \/ Begin(r)
             \/ FixHost(r) \/ Snapshot(r) \/ WriteDropin(r) \/ Accepted(r) \/ RollBack(r)
             \/ EditPam(r) \/ EnableFeature(r) \/ AddLine(r) \/ ApplyPam(r)
      PROVE  FALSE
  <2>1. Moves(r) /\ (Starts(r) \/ Repairs(r) \/ Concludes(r))
    BY <1>0, <1>5, StartEffect, FixHostEffect, SnapshotEffect, WriteEffect, AcceptedEffect,
       RollBackEffect, PamEffect, ApplyEffect DEF PamEdits
  <2>2. Closing
    BY <1>1, <2>1 DEF Closing, Moves
  <2>. QED BY <1>0, <2>1, <2>2, MovesClose
<1>6. ASSUME NEW r \in Rules, Check(r) PROVE Backed(q)'
  <2>1. phase \in {"recheck", "done"}
    BY <1>0, <1>6, CheckEffect DEF Moves
  <2>. QED BY <1>1, <1>6, <2>1, CheckReport
<1>. QED BY <1>2, <1>3, <1>4, <1>5, <1>6, NextCases

ReportState == HostState /\ ReportInv

LEMMA ReportInit == Init => ReportState
<1>. SUFFICES ASSUME Init PROVE ReportState
  OBVIOUS
<1>1. Result("error", "n/a").apply = "n/a"
  BY ResultFields DEF Status, Apply
<1>2. CacheInv /\ AlreadyInv /\ ReportInv
  BY <1>1 DEF Init, CacheInv, AlreadyInv, ReportInv, Granted
<1>. QED BY <1>2, RunInit, PamInit DEF ReportState, HostState, PamState

LEMMA ReportStateStep == ReportState /\ [Next]_vars => ReportState'
  BY RunStep, PamStep, CacheStep, AlreadyStep, ReportStep DEF ReportState, HostState, PamState

(* Whatever rules share files and whatever fails or is rolled back, a rule *)
(* that a run within its budget reports as passing is in force when the    *)
(* document is written (run_rule, main): a PAM rule also when its check    *)
(* looked into the profile, unless an apply-changes failed or its line is  *)
(* a feature's; an sshd rule unless sshd refused another's directive; and  *)
(* no rule whose check raised in Phase 4.                                  *)
THEOREM ReportsHold == Spec => []ReportedPassHolds
<1>1. ReportState => ReportedPassHolds
  BY DEF ReportState, HostState, PamState, RunInv, CloseInv, ReportInv, ReportedPassHolds, Quiet, Backed
<1>. QED BY ReportInit, ReportStateStep, <1>1, PTL DEF Spec

-----------------------------------------------------------------------------
(* What sshd runs, where one sshd rule at most is reported as failed.      *)

SshHost  == DropinInv /\ RestartInv /\ RunningInv
SshdInv  == cut = {} /\ OneFailed => SshHost
SshState == RunInv /\ SshHost

(* The steps that leave the drop-in alone.                                 *)
LEMMA SshSame ==
    ASSUME SshState, NEW r \in Rules, Moves(r), UNCHANGED <<dropin, snap, running, restart>>,
           at[r] # "test", at'[r] \notin {"write", "test"}
    PROVE  DropinInv' /\ RestartInv' /\ RunningInv'
<1>0. DropinInv /\ RestartInv /\ RunningInv /\ TypeInv /\ ResultInv
  BY DEF SshState, SshHost, RunInv
<1>1. UNCHANGED <<phase, cut, refused>> /\ refused \subseteq Ssh
  BY <1>0, RulesAssumption DEF Moves, TypeInv, TypeOK
<1>2. \A q \in Rules : at'[q] = "test" <=> at[q] = "test"
  BY DEF Moves, Others
<1>3. \A q \in Rules : at'[q] = "write" => at[q] = "write"
  BY DEF Moves, Others
<1>4. DropinInv'
  <2>1. \A q \in Rules : result[q].apply = "failed" => result'[q].apply = "failed"
    BY <1>0, MovesApply
  <2>. QED BY <1>0, <1>1, <1>2, <1>3, <2>1, FamilyFacts DEF DropinInv
<1>5. RestartInv'
  BY <1>0, <1>1, <1>2, <1>3, FamilyFacts DEF RestartInv
<1>. QED BY <1>0, <1>1, <1>4, <1>5 DEF RunningInv


(* What sshd refuses is in the drop-in when it says so.                    *)
LEMMA EffectiveFields ==
    ASSUME TypeInv
    PROVE  /\ Effective = Broken <=> dropin \intersect refused # {}
           /\ Effective # Broken => Effective = dropin
  BY RulesAssumption DEF TypeInv, TypeOK, Effective

LEMMA SshParts ==
    ASSUME SshState, NEW r \in Rules, Moves(r), r \in Ssh
    PROVE  /\ UNCHANGED <<phase, cut, refused>> /\ refused \subseteq Ssh
           /\ snap \in [Ssh -> SUBSET Ssh]
           /\ \A q \in Ssh \ {r} : (at'[q] = "test" <=> at[q] = "test") /\ (at'[q] = "write" <=> at[q] = "write")
           /\ \A q \in Ssh : result[q].apply = "failed" => result'[q].apply = "failed"
<1>1. TypeInv /\ ResultInv
  BY DEF SshState, RunInv
<1>2. \A q \in Ssh : result[q].apply = "failed" => result'[q].apply = "failed"
  BY <1>1, MovesApply, FamilyFacts
<1>. QED BY <1>1, <1>2, RulesAssumption, FamilyFacts DEF TypeInv, TypeOK, Moves, Others

LEMMA SnapshotSsh ==
    ASSUME SshState, NEW r \in Rules, Snapshot(r)
    PROVE  DropinInv' /\ RestartInv'
<1>0. DropinInv /\ RestartInv /\ TypeInv
  BY DEF SshState, SshHost, RunInv
<1>1. /\ Moves(r) /\ at[r] = "fix" /\ r \in Ssh /\ at'[r] = "write" /\ snap' = [snap EXCEPT ![r] = dropin]
      /\ UNCHANGED <<dropin, running, restart>>
  BY <1>0, SnapshotEffect
<1>2. /\ UNCHANGED <<phase, cut, refused>> /\ refused \subseteq Ssh /\ snap \in [Ssh -> SUBSET Ssh]
      /\ \A q \in Ssh \ {r} : (at'[q] = "test" <=> at[q] = "test") /\ (at'[q] = "write" <=> at[q] = "write")
      /\ \A q \in Ssh : result[q].apply = "failed" => result'[q].apply = "failed"
  BY <1>1, SshParts
<1>3. snap'[r] = dropin /\ \A q \in Ssh \ {r} : snap'[q] = snap[q]
  BY <1>1, <1>2
<1>4. \A q \in Ssh : at'[q] = "test" <=> at[q] = "test"
  BY <1>1, <1>2
<1>5. DropinInv'
  BY <1>0, <1>1, <1>2, <1>3, <1>4 DEF DropinInv
<1>6. RestartInv'
  BY <1>0, <1>1, <1>2, <1>3, <1>4 DEF RestartInv
<1>. QED BY <1>5, <1>6

LEMMA WriteSsh ==
    ASSUME SshState, NEW r \in Rules, WriteDropin(r)
    PROVE  DropinInv' /\ RestartInv'
<1>0. DropinInv /\ RestartInv /\ TypeInv
  BY DEF SshState, SshHost, RunInv
<1>1. /\ Moves(r) /\ at[r] = "write" /\ r \in Ssh /\ at'[r] = "test" /\ dropin' = dropin \union {r}
      /\ (\A q \in Ssh : at[q] # "test") /\ UNCHANGED <<snap, running, restart>>
  BY <1>0, WriteEffect
<1>2. /\ UNCHANGED <<phase, cut, refused>> /\ refused \subseteq Ssh
      /\ \A q \in Ssh \ {r} : at'[q] # "test" /\ (at'[q] = "write" <=> at[q] = "write")
      /\ \A q \in Ssh : result[q].apply = "failed" => result'[q].apply = "failed"
  BY <1>1, SshParts
<1>3. DropinInv'
  BY <1>0, <1>1, <1>2 DEF DropinInv
<1>4. RestartInv'
  BY <1>0, <1>1, <1>2 DEF RestartInv
<1>. QED BY <1>3, <1>4

LEMMA AcceptedSsh ==
    ASSUME SshState, NEW r \in Rules, Accepted(r)
    PROVE  DropinInv' /\ RestartInv'
<1>0. DropinInv /\ RestartInv /\ TypeInv
  BY DEF SshState, SshHost, RunInv
<1>1. /\ Moves(r) /\ at[r] = "test" /\ r \in Ssh /\ at'[r] \in {"look", "ended"} /\ Effective # Broken
      /\ restart' = TRUE /\ snap' = [snap EXCEPT ![r] = {}] /\ dropin' = dropin
  BY <1>0, AcceptedEffect
<1>2. /\ UNCHANGED <<phase, cut, refused>> /\ refused \subseteq Ssh /\ snap \in [Ssh -> SUBSET Ssh]
      /\ \A q \in Ssh \ {r} : (at'[q] = "test" <=> at[q] = "test") /\ (at'[q] = "write" <=> at[q] = "write")
      /\ \A q \in Ssh : result[q].apply = "failed" => result'[q].apply = "failed"
  BY <1>1, SshParts
<1>3. dropin \intersect refused = {}
  BY <1>0, <1>1, EffectiveFields
<1>4. DropinInv'
  BY <1>0, <1>1, <1>2, <1>3 DEF DropinInv
<1>5. RestartInv'
  BY <1>1 DEF RestartInv
<1>. QED BY <1>4, <1>5

(* The rule that rolls back is a refused one; its copy has no directive of *)
(* another, which would have failed too, and is what sshd runs.            *)
LEMMA RollBackSsh ==
    ASSUME SshState, cut = {}, OneFailed', NEW r \in Rules, RollBack(r)
    PROVE  DropinInv' /\ RestartInv'
<1>0. DropinInv /\ RestartInv /\ TypeInv
  BY DEF SshState, SshHost, RunInv
<1>1. /\ Moves(r) /\ at[r] = "test" /\ r \in Ssh /\ at'[r] = "ended" /\ Effective = Broken
      /\ Ended(r, Result("fail", "failed"))
      /\ dropin' = snap[r] /\ snap' = [snap EXCEPT ![r] = {}] /\ UNCHANGED <<running, restart>>
  BY <1>0, RollBackEffect
<1>2. /\ UNCHANGED <<phase, cut, refused>> /\ refused \subseteq Ssh /\ snap \in [Ssh -> SUBSET Ssh]
      /\ \A q \in Ssh \ {r} : (at'[q] = "test" <=> at[q] = "test") /\ (at'[q] = "write" <=> at[q] = "write")
      /\ \A q \in Ssh : result[q].apply = "failed" => result'[q].apply = "failed"
  BY <1>1, SshParts
<1>3. r \in refused
  <2>1. PICK q \in dropin : q \in refused
    BY <1>0, <1>1, EffectiveFields
  <2>. QED BY <1>0, <1>1, <1>2, <2>1 DEF DropinInv
<1>4. result'[r].apply = "failed"
  <2>1. Result("fail", "failed").apply = "failed"
    BY ResultFields DEF Status, Apply
  <2>. QED BY <1>1, <2>1 DEF Ended
<1>5. snap[r] \intersect refused = {}
  <2>1. SUFFICES ASSUME NEW q \in snap[r] \intersect refused PROVE FALSE
    OBVIOUS
  <2>2. q # r /\ q \in Ssh
    BY <1>0, <1>1, <1>2, <1>3, <2>1 DEF DropinInv
  <2>3. result[q].apply = "failed"
    BY <1>0, <1>1, <2>1, <2>2 DEF DropinInv
  <2>. QED BY <1>1, <1>2, <1>4, <2>2, <2>3 DEF OneFailed
<1>6. \A q \in Ssh : at'[q] # "test"
  BY <1>0, <1>1, <1>2 DEF DropinInv
<1>7. snap'[r] = {} /\ \A q \in Ssh \ {r} : snap'[q] = snap[q]
  BY <1>1, <1>2
<1>8. DropinInv'
  <2>1. ASSUME NEW p \in Ssh, at'[p] \in {"write", "test"}, NEW q \in snap'[p] \intersect refused
        PROVE  result'[q].apply = "failed"
    <3>1. p # r /\ at[p] \in {"write", "test"} /\ q \in snap[p] /\ q \in Ssh
      BY <1>1, <1>2, <1>7, <2>1
    <3>2. at[q] = "test" \/ result[q].apply = "failed"
      BY <1>0, <2>1, <3>1 DEF DropinInv
    <3>3. at[q] = "test" => q = r
      BY <1>0, <1>1, <3>1 DEF DropinInv
    <3>. QED BY <1>2, <1>4, <3>1, <3>2, <3>3
  <2>2. \A q \in refused : q \notin dropin' /\ at'[q] # "test"
    BY <1>1, <1>2, <1>5, <1>6
  <2>3. \A q \in refused : at'[q] \in {"write", "test"} => q \notin snap'[q]
    BY <1>0, <1>1, <1>2, <1>7 DEF DropinInv
  <2>. QED BY <1>2, <1>6, <2>1, <2>2, <2>3 DEF DropinInv
<1>9. RestartInv'
  <2>1. SUFFICES ASSUME phase \in {"prescan", "apply", "flush"}, ~restart
                 PROVE  /\ dropin' = running
                        /\ \A q \in refused : at'[q] = "write" =>
                              snap'[q] = running \/ snap'[q] \intersect refused # {}
    BY <1>1, <1>2, <1>6 DEF RestartInv
  <2>2. dropin' = running
    BY <1>0, <1>1, <1>3, <1>5, <2>1 DEF RestartInv
  <2>3. ASSUME NEW q \in refused, at'[q] = "write"
        PROVE  snap'[q] = running \/ snap'[q] \intersect refused # {}
    <3>1. q \in Ssh /\ q # r /\ at[q] = "write" /\ snap'[q] = snap[q]
      BY <1>1, <1>2, <1>7, <2>3
    <3>2. ASSUME NEW p \in Ssh, at[p] = "test", snap[q] = running \union {p} PROVE r \in snap[q]
      BY <1>0, <1>1, <3>2 DEF DropinInv
    <3>. QED BY <1>0, <1>3, <2>1, <2>3, <3>1, <3>2 DEF RestartInv
  <2>. QED BY <2>2, <2>3
<1>. QED BY <1>8, <1>9

(* The fixes come before the restart, unless the budget was spent.         *)
LEMMA RunningKept ==
    ASSUME SshState, NEW r \in Rules, Moves(r), Repairs(r) \/ Concludes(r)
    PROVE  RunningInv'
<1>1. ~(phase \in {"recheck", "done"} /\ cut = {})
  BY MovesClose DEF SshState, RunInv, Closing
<1>. QED BY <1>1 DEF Moves, RunningInv

LEMMA FlushSsh ==
    ASSUME SshState, FlushRestarts
    PROVE  SshHost'
<1>0. DropinInv /\ RestartInv /\ TypeInv /\ CloseInv
  BY DEF SshState, SshHost, RunInv
<1>1. /\ phase = "flush" /\ phase' = "recheck" /\ running' = (IF restart THEN Effective ELSE running)
      /\ \A q \in ToRecheck : at'[q] = "look"
      /\ \A q \in Rules \ ToRecheck : at'[q] = at[q]
      /\ UNCHANGED <<cut, refused, dropin, snap, result>>
  BY <1>0, FlushEffect
<1>2. refused \subseteq Ssh /\ Ssh \subseteq Rules
  BY <1>0, RulesAssumption, FamilyFacts DEF TypeInv, TypeOK
<1>3. \A q \in Rules : at[q] \in {"write", "test"} => q \notin ToRecheck
  <2>1. ResultInv /\ \A q \in Rules : at[q] \in {"write", "test"} => stage[q] = "check"
    BY <1>0 DEF SshState, RunInv, TypeInv, PlaceInv
  <2>2. ASSUME NEW q \in Rules, at[q] \in {"write", "test"} PROVE result[q].apply = "n/a"
    <3>1. result[q] = Result("error", "n/a")
      BY <2>1, <2>2 DEF ResultInv
    <3>. QED BY <3>1, ResultFields DEF Status, Apply
  <2>. QED BY <2>2, RecheckFields
<1>4. \A q \in Rules : at'[q] \in {"write", "test"} <=> at[q] \in {"write", "test"}
  BY <1>1, <1>3
<1>5. \A q \in Rules : at[q] \in {"write", "test"} => at'[q] = at[q]
  BY <1>1, <1>3
<1>6. DropinInv'
  BY <1>0, <1>1, <1>2, <1>4, <1>5 DEF DropinInv
<1>7. RestartInv'
  BY <1>1 DEF RestartInv
<1>8. RunningInv'
  <2>1. SUFFICES ASSUME cut = {} PROVE running' = dropin /\ dropin \intersect refused = {}
    BY <1>1 DEF RunningInv
  <2>2. \A q \in Ssh : at[q] # "test"
    <3>1. \A q \in Rules : stage[q] # "verify"
      BY <1>1 DEF SshState, RunInv, ResultInv
    <3>. QED BY <1>0, <1>1, <1>2, <2>1, <3>1 DEF CloseInv, Closing
  <2>3. dropin \intersect refused = {}
    BY <1>0, <1>2, <2>2 DEF DropinInv
  <2>4. running' = dropin
    BY <1>0, <1>1, <2>2, <2>3, EffectiveFields DEF RestartInv, TypeInv, TypeOK
  <2>. QED BY <2>3, <2>4
<1>. QED BY <1>6, <1>7, <1>8 DEF SshHost

LEMMA SshInit == Init => RunInv /\ SshdInv
<1>. SUFFICES ASSUME Init PROVE SshHost
  BY RunInit DEF SshdInv
<1>1. /\ dropin \intersect refused = {} /\ running = dropin /\ phase = "prescan"
      /\ refused \subseteq Rules /\ snap = [r \in Ssh |-> {}]
      /\ \A r \in Rules : at[r] \in {"queued", "ended"}
  BY RulesAssumption, FamilyFacts DEF Init
<1>2. DropinInv
  BY <1>1, FamilyFacts DEF DropinInv
<1>3. RestartInv /\ RunningInv
  BY <1>1, FamilyFacts DEF RestartInv, RunningInv
<1>. QED BY <1>2, <1>3 DEF SshHost

LEMMA SshStep == RunInv /\ SshdInv /\ [Next]_vars => SshdInv'
<1>. SUFFICES ASSUME RunInv, SshdInv, [Next]_vars, cut' = {}, OneFailed' PROVE SshHost'
  BY DEF SshdInv
<1>0. TypeInv /\ DropinInv /\ RestartInv /\ RunningInv /\ SshState /\ cut = {}
  <2>1. cut = {} /\ \A q \in Ssh : result[q].apply = "failed" => result'[q].apply = "failed"
    BY ApplyKept, FamilyFacts
  <2>2. OneFailed
    BY <2>1 DEF OneFailed
  <2>. QED BY <2>1, <2>2 DEF SshdInv, SshState, SshHost, RunInv
<1>1. CASE BatchInstall \/ PoolEnds \/ BudgetSpent \/ UNCHANGED vars
  <2>1. UNCHANGED <<at, result, refused, dropin, snap, running, restart>>
    BY <1>1 DEF BatchInstall, PoolEnds, BudgetSpent, vars, sshVars
  <2>2. \/ phase' = phase /\ cut' = cut
        \/ phase \in {"prescan", "apply"} /\ phase' \in {"apply", "flush"}
    BY <1>1 DEF BatchInstall, PoolEnds, BudgetSpent, vars
  <2>. QED BY <1>0, <2>1, <2>2 DEF DropinInv, RestartInv, RunningInv, SshHost
<1>2. CASE WriteDocument
  <2>1. UNCHANGED <<at, result, cut, refused, dropin, snap, running, restart>> /\ phase = "recheck" /\ phase' = "done"
    BY <1>2 DEF WriteDocument, sshVars
  <2>. QED BY <1>0, <2>1 DEF DropinInv, RestartInv, RunningInv, SshHost
<1>3. ASSUME NEW r \in Rules, Pick(r) \/ Begin(r) PROVE SshHost'
  BY <1>0, <1>3, StartEffect, SshSame DEF Starts, Gone, sshVars, SshHost
<1>4. ASSUME NEW r \in Rules, Check(r) PROVE SshHost'
  <2>1. Moves(r) /\ UNCHANGED sshVars /\ (Waits(r) \/ (Asked(r) /\ \E st \in Status : Replies(r, st)))
    BY <1>0, <1>4, CheckEffect
  <2>2. at[r] # "test" /\ at'[r] \notin {"write", "test"}
    BY <2>1 DEF Waits, Asked, Replies, Gone, Ended
  <2>. QED BY <1>0, <2>1, <2>2, SshSame DEF sshVars, SshHost
<1>5. ASSUME NEW r \in Rules, FixHost(r) PROVE SshHost'
  BY <1>0, <1>5, FixHostEffect, SshSame DEF Concludes, Gone, Ended, sshVars, SshHost
<1>6. ASSUME NEW r \in Rules, EditPam(r) \/ EnableFeature(r) \/ AddLine(r) PROVE SshHost'
  <2>1. PamEdits(r) /\ r \notin Ssh
    BY <1>0, <1>6, PamEffect, FamilyFacts DEF PamEdits
  <2>2. at[r] # "test" /\ at'[r] \notin {"write", "test"}
    BY <2>1 DEF PamEdits, Repairs, Concludes, Gone, Ended
  <2>. QED BY <1>0, <2>1, <2>2, SshSame DEF PamEdits, sshVars, SshHost
<1>7. ASSUME NEW r \in Rules, ApplyPam(r) PROVE SshHost'
  <2>1. Moves(r) /\ (Repairs(r) \/ Concludes(r)) /\ at[r] \in {"apply", "inserted"} /\ UNCHANGED sshVars /\ r \notin Ssh
    BY <1>0, <1>7, ApplyEffect, FamilyFacts
  <2>2. at'[r] \notin {"write", "test"}
    BY <2>1 DEF Repairs, Concludes, Gone, Ended
  <2>. QED BY <1>0, <2>1, <2>2, SshSame DEF sshVars, SshHost
<1>8. ASSUME NEW r \in Rules, Snapshot(r) \/ WriteDropin(r) \/ Accepted(r) \/ RollBack(r)
      PROVE  SshHost'
  <2>1. RunningInv'
    BY <1>0, <1>8, SnapshotEffect, WriteEffect, AcceptedEffect, RollBackEffect, RunningKept
  <2>. QED BY <1>0, <1>8, <2>1, SnapshotSsh, WriteSsh, AcceptedSsh, RollBackSsh DEF SshHost
<1>. QED BY <1>0, <1>1, <1>2, <1>3, <1>4, <1>5, <1>6, <1>7, <1>8, FlushSsh, NextCases

(* When the document of a run within its budget reports one sshd rule at   *)
(* most as failed, sshd runs what is on disk and that is valid, though the *)
(* rollback copy is taken outside the lock (_sshd_write, flush_restarts):  *)
(* whatever this host's sshd refuses, and whichever rules were at work.    *)
(* When two fail it may be otherwise (SshdStaysValid).                     *)
THEOREM SshdRuns == Spec => []SshdRunsItsConfig
<1>1. RunInv /\ SshdInv => SshdRunsItsConfig
  BY EffectiveFields DEF RunInv, SshdInv, SshHost, RunningInv, SshdRunsItsConfig, Quiet
<1>2. (RunInv /\ SshdInv) /\ [Next]_vars => (RunInv /\ SshdInv)'
  BY RunStep, SshStep
<1>. QED BY SshInit, <1>1, <1>2, PTL DEF Spec
=============================================================================
