-------------------------- MODULE HardeningEngine --------------------------
(***************************************************************************)
(* The engine that hardens the image under construction                    *)
(* (roles/<os>/files/ohbs_engine.py, the same file in every Linux role) in *)
(* apply mode: a pool of threads checks and fixes the rules, the services  *)
(* whose configuration changed are restarted once, the fixed rules are     *)
(* checked again, and the result document is written.  The threads share   *)
(* the sshd drop-in and its restart, the cached output of `sshd -T`, the   *)
(* PAM stack and the authselect profile it is generated from, with one     *)
(* module-wide snapshot, and the time budget.                              *)
(***************************************************************************)
EXTENDS Naturals, FiniteSets

CONSTANTS
    Family,         \* the rules in catalogue order: the family of each
    Disruptive,     \* rules that may only be fixed when that is allowed
    Reboot,         \* rules whose fix shows after a reboot
    Refusable,      \* sshd rules whose directive this host's sshd may refuse
    Raising,        \* rules whose check may raise an exception
    Selections,     \* the sets of rules that a run may be asked for
    Module,         \* the pam_module rule of a pam_arg rule's line, None for pam_unix
    Featured,       \* pam_module rules whose line is a feature of the profiles
    Absent,         \* pam_arg rules that want their argument off pam_unix
    Authselect,     \* whether the host has authselect
    AllowDisruptive,
    Workers,        \* threads of the pool
    Deadline,       \* whether the run has a time budget
    None, Broken

Families == {"sshd", "pam_arg", "pam_module", "pkg", "plain"}
Rules    == DOMAIN Family
Of(fams) == {r \in Rules : Family[r] \in fams}
Ssh == Of({"sshd"})
Arg == Of({"pam_arg"})
Line == Of({"pam_module"})
Pam == Arg \union Line
Pkg == Of({"pkg"})

ASSUME RulesAssumption ==
    /\ Rules \subseteq Nat /\ IsFiniteSet(Rules) /\ Family \in [Rules -> Families]
    /\ Disruptive \union Reboot \union Raising \subseteq Rules /\ Refusable \subseteq Ssh
    /\ Selections \subseteq SUBSET Rules
    /\ Module \in [Arg -> Line \union {None}] /\ Featured \subseteq Line
    /\ Absent \subseteq {r \in Arg : Module[r] = None}
    /\ Workers \in Nat \ {0} /\ {Authselect, AllowDisruptive, Deadline} \subseteq BOOLEAN
    /\ None # Broken /\ None \notin Rules /\ None \notin BOOLEAN
    /\ \A S \in SUBSET Ssh : S \notin {None, Broken}

VARIABLES
    phase,          \* of main
    at,             \* where the thread of each rule is
    stage,          \* which of its checks a rule's thread is in
    result,         \* what each rule reports
    cut,            \* the rules reported as unfinished when the budget was spent
    refused,        \* the directives this host's sshd refuses
    dropin,         \* the directives in the sshd drop-in
    snap,           \* each sshd rule's copy of the drop-in, for its rollback
    running,        \* the configuration sshd was last started with
    restart,        \* whether a restart of sshd is queued
    cache,          \* the cached effective sshd configuration
    producer,       \* the rule whose thread runs `sshd -T` for the cache
    seen,           \* what that `sshd -T` answered
    live,           \* the settings in /etc/pam.d
    stock, profile, \* the settings in the distribution's and in the custom profile
    custom,         \* whether the custom profile is the selected one
    paths,          \* the cached list of PAM files: are the custom profile's in it
    backup,         \* the module-wide PAM snapshot
    unapplied,      \* history: an `authselect apply-changes` has failed
    held,           \* the package and other settings in force
    raised          \* history: rules whose check in Phase 4 raised

sshVars  == <<refused, dropin, snap, running, restart>>
memo     == <<cache, producer, seen>>
pamVars  == <<live, stock, profile, custom, paths, backup, unapplied>>
vars     == <<phase, at, stage, result, cut, sshVars, memo, pamVars, held, raised>>

Status == {"pass", "fail", "error"}
Apply  == {"n/a", "already", "skipped_disruptive", "failed", "applied", "applied_pending"}
Result(st, apply) == [status |-> st, apply |-> apply]

(* `sshd -T` and `sshd -t` read the files: what they answer now.           *)
Effective == IF dropin \intersect refused = {} THEN dropin ELSE Broken

IsConfiguration(c) == c = Broken \/ c \subseteq Ssh

(* The settings on the host now.                                           *)
InForce == dropin \union live \union held

(* A profile holds lines of modules and arguments on them, also an         *)
(* argument on the line of a feature that is off.  authselect generates    *)
(* the stack from the selected one: the arguments whose line is there.     *)
On(r, settings) == r \in Arg => Module[r] \in settings \union {None}

Generated(p) == {r \in p : On(r, p)}

Selected  == IF custom THEN profile ELSE stock
Mentioned == profile \union Featured

TypeOK ==
    /\ phase \in {"prescan", "apply", "flush", "recheck", "done"}
    /\ at \in [Rules -> {"queued", "picked", "look", "produce", "await", "get",
                         "fix", "write", "test", "insert", "inserted", "retry", "apply", "ended"}]
    /\ stage \in [Rules -> {"check", "recheck", "verify"}]
    /\ result \in [Rules -> [status : Status, apply : Apply]]
    /\ cut \subseteq Rules
    /\ refused \subseteq Refusable /\ dropin \subseteq Ssh
    /\ snap \in [Ssh -> SUBSET Ssh]
    /\ IsConfiguration(running) /\ restart \in BOOLEAN
    /\ cache = None \/ IsConfiguration(cache)
    /\ seen = None \/ IsConfiguration(seen)
    /\ producer \in Ssh \union {None}
    /\ live \union stock \union profile \subseteq Pam
    /\ {custom, unapplied} \subseteq BOOLEAN /\ paths \in BOOLEAN \union {None}
    /\ backup = None \/ backup \subseteq Pam
    /\ held \subseteq Rules \ (Ssh \union Pam) /\ raised \subseteq Rules

(* A host some of whose settings hold already, and whose PAM stack is the  *)
(* one authselect generates.  A rule that was not chosen reports nothing:  *)
(* it stays as if it had ended without an answer.                          *)
Init ==
    /\ phase = "prescan"
    /\ \E chosen \in Selections : at = [r \in Rules |-> IF r \in chosen THEN "queued" ELSE "ended"]
    /\ stage = [r \in Rules |-> "check"]
    /\ result = [r \in Rules |-> Result("error", "n/a")]
    /\ cut = {}
    /\ refused \in SUBSET Refusable
    /\ dropin \in SUBSET (Ssh \ refused)
    /\ snap = [r \in Ssh |-> {}]
    /\ running = dropin
    /\ restart = FALSE
    /\ cache = None /\ producer = None /\ seen = None
    /\ stock \in SUBSET Pam /\ \A r \in stock : On(r, stock \union Featured)
    /\ profile = stock /\ live = Generated(stock)
    /\ custom \in BOOLEAN /\ (custom => Authselect)
    /\ paths = None /\ backup = None /\ unapplied = FALSE
    /\ held \in SUBSET (Rules \ (Ssh \union Pam)) /\ raised = {}

-----------------------------------------------------------------------------
(* Phases 0 and 1: the missing packages are installed in one call, which   *)
(* may fail, or is skipped when little of the budget is left.              *)
BatchInstall ==
    /\ phase = "prescan"
    /\ phase' = "apply"
    /\ held' \in {held, held \union {r \in Pkg : at[r] = "queued"}}
    /\ UNCHANGED <<at, stage, result, cut, sshVars, memo, pamVars, raised>>

(* Phase 2.  A free thread of the pool takes the next rule; after the      *)
(* budget is spent too, for nothing cancels what is still queued.          *)
Busy == {r \in Rules : at[r] \notin {"queued", "ended"} /\ stage[r] # "verify"}

Pick(r) ==
    /\ phase # "prescan"
    /\ at[r] = "queued" /\ \A q \in Rules : q < r => at[q] # "queued"
    /\ Cardinality(Busy) < Workers
    /\ at' = [at EXCEPT ![r] = "picked"]
    /\ UNCHANGED <<phase, stage, result, cut, sshVars, memo, pamVars, held, raised>>

(* Package rules hold one lock while they run, and PAM rules another.      *)
Peers(r) == CASE r \in Pam -> Pam [] r \in Pkg -> Pkg [] OTHER -> {}

Begin(r) ==
    /\ at[r] = "picked"
    /\ \A q \in Peers(r) \ {r} : at[q] \in {"queued", "picked", "ended"} \/ stage[q] = "verify"
    /\ at' = [at EXCEPT ![r] = "look"]
    /\ UNCHANGED <<phase, stage, result, cut, sshVars, memo, pamVars, held, raised>>

(* A thread ends and its future holds the rule's result; nobody looks at   *)
(* the future of a rule that was cut off.                                  *)
End(r, res, threads) ==
    /\ at' = [threads EXCEPT ![r] = "ended"]
    /\ result' = IF r \in cut THEN result ELSE [result EXCEPT ![r] = res]
    /\ UNCHANGED stage

Goto(r, where, st) ==
    /\ at' = [at EXCEPT ![r] = where]
    /\ stage' = [stage EXCEPT ![r] = st]
    /\ UNCHANGED result

(* A disruptive fix needs leave; a manual rule (risk none) is kept from    *)
(* fixing in the same way.                                                 *)
Gated(r) == r \in Disruptive /\ ~AllowDisruptive

(* What run_rule does with a check's answer.  Phase 4 takes the answer, and *)
(* a check that raises there leaves the status as it was.                  *)
Answered(r, st, threads) ==
    /\ IF stage[r] = "check" /\ st = "fail" /\ ~Gated(r)
       THEN /\ at' = [threads EXCEPT ![r] = "fix"]
            /\ UNCHANGED <<stage, result>>
       ELSE End(r, CASE stage[r] = "verify"  -> [result[r] EXCEPT !.status = st]
                     [] stage[r] = "recheck" ->
                            Result(st, IF st = "pass" THEN "applied" ELSE "applied_pending")
                     [] stage[r] = "check"   ->
                            Result(st, CASE st = "pass" -> "already"
                                         [] st = "fail" -> "skipped_disruptive"
                                         [] OTHER -> "n/a"), threads)
    /\ UNCHANGED raised

Raised(r, threads) ==
    /\ r \in Raising
    /\ IF stage[r] = "verify"
       THEN End(r, result[r], threads) /\ raised' = raised \union {r}
       ELSE Answered(r, "error", threads)

Replied(r, st, threads) == Answered(r, st, threads) \/ Raised(r, threads)

-----------------------------------------------------------------------------
(* The checks.  Other families read the host; an sshd rule reads the       *)
(* cached answer of `sshd -T`.  The first thread that finds no answer runs *)
(* the command and stores what it said, whatever was written and           *)
(* invalidated meanwhile; the others wait for it and take what they find.  *)
VerdictHopeful(r, known) == \* mutant: only an answer that lacks the setting fails
    IF known \in {None, Broken} \/ r \in known THEN "pass" ELSE "fail"

Verdict(r, known) ==
    IF known \in {None, Broken} THEN "error" ELSE IF r \in known THEN "pass" ELSE "fail"

CheckHost(r) ==
    /\ at[r] = "look" /\ r \notin Ssh \union Pam
    /\ Replied(r, Verdict(r, held), at)
    /\ UNCHANGED <<phase, cut, sshVars, memo, pamVars, held>>

(* The PAM rules read /etc/pam.d and, when a custom profile is selected,   *)
(* its sources too, as the list of files has it that was made at the first *)
(* check since the last apply-changes.  A hit in any file is a pass, on    *)
(* the line of a feature that is off too; an argument that must be absent  *)
(* must be so from every file.                                             *)
WithSources == IF paths = None THEN custom ELSE paths

PamSettings(r) ==
    IF ~WithSources THEN live
    ELSE IF r \in Absent THEN live \intersect profile ELSE live \union Mentioned

CheckPam(r) ==
    /\ at[r] = "look" /\ r \in Pam
    /\ paths' = WithSources
    /\ Replied(r, Verdict(r, PamSettings(r)), at)
    /\ UNCHANGED <<phase, cut, sshVars, memo, live, stock, profile, custom, backup, unapplied, held>>

CheckCached(r) ==
    /\ at[r] = "look" /\ r \in Ssh
    /\ cache # None
    /\ Replied(r, Verdict(r, cache), at)
    /\ UNCHANGED <<phase, cut, sshVars, memo, pamVars, held>>

Produce(r) ==
    /\ at[r] = "look" /\ r \in Ssh
    /\ cache = None /\ producer = None
    /\ producer' = r /\ seen' = Effective
    /\ Goto(r, "produce", stage[r])
    /\ UNCHANGED <<phase, cut, sshVars, cache, pamVars, held, raised>>

Await(r) ==
    /\ at[r] = "look" /\ r \in Ssh
    /\ cache = None /\ producer # None
    /\ Goto(r, "await", stage[r])
    /\ UNCHANGED <<phase, cut, sshVars, memo, pamVars, held, raised>>

(* The threads that wait for the answer are woken when it is stored.       *)
Woken == [q \in Rules |-> IF at[q] = "await" THEN "get" ELSE at[q]]

Store(r) ==
    /\ at[r] = "produce"
    /\ cache' = seen /\ producer' = None /\ seen' = None
    /\ Replied(r, Verdict(r, seen), Woken)
    /\ UNCHANGED <<phase, cut, sshVars, pamVars, held>>

Get(r) ==
    /\ at[r] = "get"
    /\ Replied(r, Verdict(r, cache), at)
    /\ UNCHANGED <<phase, cut, sshVars, memo, pamVars, held>>

-----------------------------------------------------------------------------
(* The fixes.  After a fix that worked the rule is checked again, unless   *)
(* its effect waits for a reboot.                                          *)
Fixed(r) ==
    IF r \in Reboot THEN End(r, Result("fail", "applied_pending"), at)
                    ELSE Goto(r, "look", "recheck")

Unfixed(r) == End(r, Result("fail", "failed"), at)

FixHost(r) ==
    /\ at[r] = "fix" /\ r \notin Ssh \union Pam
    /\ \/ held' = held \union {r} /\ Fixed(r)
       \/ held' = held /\ Unfixed(r)
    /\ UNCHANGED <<phase, cut, sshVars, memo, pamVars, raised>>

(* _sshd_write copies the drop-in before it takes the file's lock, adds    *)
(* its directive to what is there when it holds the lock, and asks sshd.   *)
Snapshot(r) ==
    /\ at[r] = "fix" /\ r \in Ssh
    /\ snap' = [snap EXCEPT ![r] = dropin]
    /\ Goto(r, "write", "check")
    /\ UNCHANGED <<phase, cut, refused, dropin, running, restart, memo, pamVars, held, raised>>

WriteDropin(r) ==
    /\ at[r] = "write" /\ \A q \in Ssh : at[q] # "test"
    /\ dropin' = dropin \union {r}
    /\ Goto(r, "test", "check")
    /\ UNCHANGED <<phase, cut, refused, snap, running, restart, memo, pamVars, held, raised>>

(* A configuration sshd accepts queues a restart and drops the cached      *)
(* answer; a refused one is replaced by the copy, and the cache stays.     *)
Accepted(r) ==
    /\ at[r] = "test" /\ Effective # Broken
    /\ restart' = TRUE
    /\ cache' = None
    /\ snap' = [snap EXCEPT ![r] = {}]
    /\ Fixed(r)
    /\ UNCHANGED <<phase, cut, refused, dropin, running, producer, seen, pamVars, held, raised>>

RestoredNone(r) == {}       \* mutant: the refused drop-in is removed

Restored(r) == snap[r]

RollBack(r) ==
    /\ at[r] = "test" /\ Effective = Broken
    /\ dropin' = Restored(r)
    /\ snap' = [snap EXCEPT ![r] = {}]
    /\ Unfixed(r)
    /\ UNCHANGED <<phase, cut, refused, running, restart, memo, pamVars, held, raised>>

(* The custom profile is made, if it can be, and selected, if it can be:   *)
(* its sources are then edited beside the live stack, selected or not.     *)
Target(c, sources, stack) == [custom |-> c, sources |-> sources, live |-> stack]

Ensured(c, stack) ==
    IF c THEN {Target(TRUE, TRUE, stack)}
    ELSE {Target(FALSE, FALSE, stack)} \union
         IF ~Authselect THEN {}
         ELSE {Target(FALSE, TRUE, stack), Target(TRUE, TRUE, Generated(profile))}

(* pam_arg copies the stack and edits the lines of its module.  If that    *)
(* changes nothing, the line is inserted and the edit tried once more.     *)
EditPam(r) ==
    /\ r \in Arg /\ at[r] \in {"fix", "retry"}
    /\ backup' = live
    /\ \E t \in Ensured(custom, live) :
          /\ custom' = t.custom
          /\ live' = IF On(r, t.live) THEN t.live \union {r} ELSE t.live
          /\ profile' = IF t.sources /\ On(r, Mentioned) THEN profile \union {r} ELSE profile
          /\ IF <<live', profile'>> # <<t.live, profile>> THEN Goto(r, "apply", "check")
             ELSE IF at[r] = "fix" THEN Goto(r, "insert", "check") ELSE Fixed(r)
    /\ UNCHANGED <<phase, cut, sshVars, memo, stock, paths, unapplied, held, raised>>

(* The line of a module is inserted for its own rule or for an argument.   *)
Inserts(r) == (at[r] = "fix" /\ r \in Line) \/ at[r] = "insert"
LineOf(r)  == IF r \in Line THEN r ELSE Module[r]
ThenApply(r) == Goto(r, IF r \in Line THEN "apply" ELSE "inserted", "check")

(* A feature is enabled in the selected profile, which generates the stack *)
(* from it; a custom profile takes the features over.  No copy is made.    *)
EnableFeature(r) ==
    /\ Inserts(r) /\ Authselect /\ LineOf(r) \in Featured
    /\ stock' = stock \union {LineOf(r)} /\ profile' = profile \union {LineOf(r)}
    /\ \E t \in Ensured(custom, live) :
          custom' = t.custom /\ live' = Generated(IF t.custom THEN profile' ELSE stock')
    /\ ThenApply(r)
    /\ UNCHANGED <<phase, cut, sshVars, memo, paths, backup, unapplied, held, raised>>

(* Else, or when the feature is refused, the line is added where it is     *)
(* missing; that it is missing nowhere fails the fix.                      *)
AddLine(r) ==
    /\ Inserts(r)
    /\ \E f \in IF Authselect /\ LineOf(r) \in Featured THEN Ensured(custom, live)
                  ELSE {Target(custom, FALSE, live)} :
       \E t \in Ensured(f.custom, f.live) :
          /\ custom' = t.custom /\ backup' = f.live
          /\ IF LineOf(r) \in t.live \union {None} /\ (t.sources => LineOf(r) \in Mentioned \union {None})
             THEN live' = t.live /\ profile' = profile /\ Unfixed(r)
             ELSE /\ live' = t.live \union {LineOf(r)}
                  /\ profile' = IF t.sources THEN profile \union ({LineOf(r)} \ Featured)
                                              ELSE profile
                  /\ ThenApply(r)
    /\ UNCHANGED <<phase, cut, sshVars, memo, stock, paths, unapplied, held, raised>>

(* `authselect apply-changes` generates the stack from the selected        *)
(* profile; when it fails, the stack becomes the copy, whichever rule made *)
(* it, and the profile keeps the edit.  Either way the fix reports         *)
(* success, and pam_arg edits the lines of its module in the stack again.  *)
Applied ==
    IF Authselect
    THEN {[stack |-> Generated(Selected), failed |-> FALSE],
          [stack |-> IF backup = None THEN live ELSE backup, failed |-> TRUE]}
    ELSE {[stack |-> live, failed |-> FALSE]}

ApplyPam(r) ==
    /\ at[r] \in {"apply", "inserted"}
    /\ \E a \in Applied :
          /\ live' = IF at[r] = "apply" /\ r \in Arg /\ On(r, a.stack)
                      THEN a.stack \union {r} ELSE a.stack
          /\ unapplied' = (unapplied \/ a.failed)
    /\ paths' = None
    /\ IF at[r] = "apply" THEN Fixed(r) ELSE Goto(r, "retry", "check")
    /\ UNCHANGED <<phase, cut, sshVars, memo, stock, profile, custom, backup, held, raised>>

-----------------------------------------------------------------------------
(* The pool is waited for, or the budget is spent: then every rule that    *)
(* has not ended is reported as an error, and its thread goes on.          *)
Unfinished == {r \in Rules : at[r] # "ended"}

PoolEnds ==
    /\ phase = "apply" /\ Unfinished = {}
    /\ phase' = "flush"
    /\ UNCHANGED <<at, stage, result, cut, sshVars, memo, pamVars, held, raised>>

BudgetSpentIdle ==          \* mutant: waits for the threads that run
    /\ phase = "apply" /\ Deadline /\ Unfinished # {} /\ Busy = {}
    /\ phase' = "flush"
    /\ cut' = Unfinished
    /\ UNCHANGED <<at, stage, result, sshVars, memo, pamVars, held, raised>>

BudgetSpent ==
    /\ phase = "apply" /\ Deadline /\ Unfinished # {}
    /\ phase' = "flush"
    /\ cut' = Unfinished
    /\ UNCHANGED <<at, stage, result, sshVars, memo, pamVars, held, raised>>

(* Phase 3: one restart for all the rules that queued it, if sshd can      *)
(* start.  Phase 4: the rules whose fix worked are checked once more.      *)
ToRecheckPending ==         \* mutant: what was checked after its fix is not checked again
    {r \in Rules \ cut : result[r].apply = "applied_pending"}

ToRecheck == {r \in Rules \ cut : result[r].apply \in {"applied", "applied_pending"}}

FlushRestarts ==
    /\ phase = "flush"
    /\ phase' = "recheck"
    /\ restart' = FALSE
    /\ running' = IF restart THEN Effective ELSE running
    /\ at' = [r \in Rules |-> IF r \in ToRecheck THEN "look" ELSE at[r]]
    /\ stage' = [r \in Rules |-> IF r \in ToRecheck THEN "verify" ELSE stage[r]]
    /\ UNCHANGED <<result, cut, refused, dropin, snap, memo, pamVars, held, raised>>

WriteDocument ==
    /\ phase = "recheck" /\ \A r \in ToRecheck : at[r] = "ended"
    /\ phase' = "done"
    /\ UNCHANGED <<at, stage, result, cut, sshVars, memo, pamVars, held, raised>>

Main == BatchInstall \/ PoolEnds \/ BudgetSpent \/ FlushRestarts \/ WriteDocument

Check(r) == CheckHost(r) \/ CheckPam(r) \/ CheckCached(r) \/ Produce(r) \/ Await(r) \/ Store(r) \/ Get(r)

Fix(r) ==
    \/ FixHost(r)
    \/ Snapshot(r) \/ WriteDropin(r) \/ Accepted(r) \/ RollBack(r)
    \/ EditPam(r) \/ EnableFeature(r) \/ AddLine(r) \/ ApplyPam(r)

Next == Main \/ \E r \in Rules : Pick(r) \/ Begin(r) \/ Check(r) \/ Fix(r)

(* main and every check end, for each command has a time-out; without a    *)
(* budget the fixes have to end as well.                                   *)
Fairness ==
    /\ WF_vars(Main)
    /\ \A r \in Rules : WF_vars(Check(r))
    /\ ~Deadline => \A r \in Rules : WF_vars(Pick(r) \/ Begin(r) \/ Fix(r))

Spec == Init /\ [][Next]_vars /\ Fairness

-----------------------------------------------------------------------------
(* The document is written once nothing of the pool runs any more.         *)
Quiet == phase = "done" /\ cut = {}

(* What the document reports as passing is so on the host (Phase 4,        *)
(* main): a fix that a later rule's rollback or apply-changes undid is     *)
(* found out by the check after the restart.  Left out: a rule whose check *)
(* raised there; sshd rules when sshd refused some rule's directive, for   *)
(* that rollback keeps the cached answer; lines of features, or any PAM    *)
(* rule once an apply-changes failed, when the sources of a custom profile *)
(* are taken for what is in force; and what such a failure took away from  *)
(* a rule that needed no fix and is not checked again.                     *)
SomeRefused == \E r \in Ssh : result[r].apply = "failed"
OnFeature(r) == r \in Featured \/ (r \in Arg /\ Module[r] \in Featured)

Excused(r) ==
    \/ r \in raised
    \/ r \in Ssh /\ SomeRefused
    \/ r \in Pam /\ custom /\ OnFeature(r)
    \/ r \in Pam /\ unapplied /\ (custom \/ result[r].apply = "already")

ReportedPassHolds ==
    Quiet => \A r \in Rules : result[r].status = "pass" => r \in InForce \/ Excused(r)

(* f_pam_arg edits the stack again after apply-changes "so the final       *)
(* on-disk state is correct regardless of set/absent mode": an argument    *)
(* it applied and that passes is in /etc/pam.d.                            *)
AppliedArgIsLive ==
    Quiet => \A r \in Arg : result[r] = Result("pass", "applied") => r \in live

(* When the document is written sshd runs the configuration on disk: all   *)
(* the writes of the pool come before the one restart (defer_restart,      *)
(* flush_restarts); and where one sshd rule at most is reported as failed, *)
(* what sshd refused has left no trace.                                    *)
OneFailed ==
    \A q, r \in Ssh : result[q].apply = "failed" /\ result[r].apply = "failed" => q = r

SshdRunsItsConfig == Quiet /\ OneFailed => running = dropin /\ Effective # Broken

(* _sshd_write rolls a refused write back "so the image never ships a      *)
(* config that prevents sshd from starting".                               *)
SshdStaysValid == Quiet => Effective # Broken

(* The document is written, with a budget even when a fix never ends       *)
(* (_apply_with_deadline), and nobody waits for the cache for ever.        *)
DocumentWritten == <>(phase = "done")
=============================================================================
