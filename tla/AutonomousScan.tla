--------------------------- MODULE AutonomousScan ---------------------------
(***************************************************************************)
(* The autonomous server scan: anima looks for failing services, lets an   *)
(* agent write a fix on a branch of a disposable worktree, has the fix     *)
(* verified independently and, for a class that has earned it, merges the  *)
(* branch into the live tree behind a health gate with a rollback          *)
(* (scheduler/proactive.py, context/server_scanner.py, kernel/worktree.py, *)
(* kernel/anomaly_verifier.py, kernel/reversible_apply.py and              *)
(* kernel/track_record.py).                                                *)
(*                                                                         *)
(* One repository, shared by the services that can fail; the owner commits *)
(* to it and merges proposals at any time.  A tree is the set of commits   *)
(* that are ancestors of its HEAD.                                         *)
(***************************************************************************)
EXTENDS TrackRecord, Sequences

CONSTANTS
    Service,            \* units whose source is in the repository
    Owner,              \* commits the owner may make
    Fix,                \* commits the agents may make, each on a branch of its own
    AutoApplyEnabled,   \* settings.autonomy_auto_apply_enabled
    MaxScans,           \* bound: scan cycles
    MaxCrashes          \* bound: restarts of anima itself

ASSUME CommitAssumption == /\ Owner \intersect Fix = {}
                           /\ AutoApplyEnabled \in BOOLEAN
                           /\ MaxScans \in Nat /\ MaxCrashes \in Nat

VARIABLES
    head,       \* the live tree: ancestors of HEAD in repo_root
    origin,     \* fixes the owner merged into origin's default branch
    rows,       \* rawos_commits on anima/fix-* branches, oldest first: [class, fix]
    record,     \* autonomy_track_record, per anomaly class
    cooling,    \* classes with a recent SERVER_SCAN row in episodic_memory
    run,        \* the scan cycle in progress and its local variables
    scans, crashes,
    \* history: owner's merges into the live tree, verdicts and probes, failures
    taken, resolved, healthy, earned, lapsed, raced

scanVars == <<head, origin, rows, record, cooling, run, scans, crashes,
          taken, resolved, healthy, earned, lapsed, raced>>

scanHistory == <<taken, resolved, healthy, earned, lapsed, raced>>

-----------------------------------------------------------------------------
\* ServerAnomaly: what kind of trouble, and the unit it concerns (none for the disk).
NoService == "none"

FailedServices == {[kind |-> "service_failed", service |-> s] : s \in Service}

RecentErrors == {[kind |-> "service_error", service |-> s] : s \in Service}

Resources == {[kind |-> "disk_critical", service |-> NoService]}

Class == FailedServices \union RecentErrors \union Resources

Severity(a) == IF a.kind = "disk_critical" THEN 9
               ELSE IF a.kind = "service_failed" THEN 8 ELSE 6

\* VERIFIABLE_ANOMALY_KINDS
Verifiable(a) == a.kind \in {"service_failed", "service_error"}

\* The rows of a class, and the newest of them.
RowsOf(a) == {i \in DOMAIN rows : rows[i].class = a}

Latest(a) == rows[CHOOSE i \in RowsOf(a) : \A j \in RowsOf(a) : j <= i].fix

NoClass == [kind |-> "none", service |-> NoService]
NoFix   == "nofix"

Cycle(step, todo, seen, class, base, fix, before) ==
    [step |-> step, todo |-> todo, seen |-> seen, class |-> class,
     base |-> base, fix |-> fix, before |-> before]

NoCycle == Cycle("idle", {}, {}, NoClass, {}, NoFix, {})

\* A step of reversible_apply that has moved HEAD and has not yet decided.
ApplySteps == {"merged", "probing", "rollback", "restarting"}

AtStep(step) == run.step = step

Goto(step) == run' = [run EXCEPT !.step = step]

-----------------------------------------------------------------------------
\* collect_server_state, in an executor thread under a 30 s limit: any set of anomalies, and a
\* failure ends the cycle.
Scan ==
    /\ AtStep("idle") /\ scans < MaxScans
    /\ scans' = scans + 1
    /\ \/ \E seen \in SUBSET Class :
             run' = Cycle("observe", {a \in Class : RowsOf(a) # {}}, seen, NoClass, {}, NoFix, {})
       \/ UNCHANGED run
    /\ UNCHANGED <<head, origin, rows, record, cooling, crashes, scanHistory>>

\* Mutant of IsBranchMerged: a repository that cannot be inspected counts as merged.
IsBranchMergedOptimistic(fix, inspected) == fix \in origin \/ ~inspected

\* is_branch_merged: ancestor of origin's default branch, FALSE on any git error.
IsBranchMerged(fix, inspected) == inspected /\ fix \in origin

\* One iteration of _update_earned_autonomy_track_records: the newest fix of a class, judged
\* by the snapshot taken when the cycle began.
Observe(a) ==
    /\ AtStep("observe") /\ a \in run.todo
    /\ \E inspected \in BOOLEAN :
          record' = [record EXCEPT ![a] =
                        Advance(@, a \in run.seen, IsBranchMerged(Latest(a), inspected), Latest(a))]
    /\ run' = [run EXCEPT !.todo = @ \ {a}]
    /\ earned' = IF record'[a].graduated /\ (\E i \in RowsOf(a) : rows[i].fix \in origin)
                 THEN earned \union {a} ELSE earned
    /\ UNCHANGED <<head, origin, rows, cooling, scans, crashes,
                   taken, resolved, healthy, lapsed, raced>>

\* The loop of _run_autonomous_scan: the most severe anomaly that is not cooling down.
Candidates == run.seen \ cooling

Choose(a) ==
    /\ AtStep("observe") /\ run.todo = {}
    /\ a \in Candidates /\ \A b \in Candidates : Severity(b) <= Severity(a)
    /\ run' = Cycle("agent", {}, {}, a, {}, NoFix, {})
    /\ UNCHANGED <<head, origin, rows, record, cooling, scans, crashes, scanHistory>>

NothingToDo ==
    /\ AtStep("observe") /\ run.todo = {} /\ Candidates = {}
    /\ run' = NoCycle
    /\ UNCHANGED <<head, origin, rows, record, cooling, scans, crashes, scanHistory>>

\* _run_proactive_agent: a class whose rated outcomes are poor suppresses itself, which is
\* logged like any other decision.
SelfSuppress ==
    /\ AtStep("agent")
    /\ cooling' = cooling \union {run.class}
    /\ run' = NoCycle
    /\ UNCHANGED <<head, origin, rows, record, scans, crashes, scanHistory>>

\* create_worktree and get_head_sha: the base is HEAD as it is now.
CreateWorktree ==
    /\ AtStep("agent") /\ Verifiable(run.class)
    /\ run' = [run EXCEPT !.step = "writing", !.base = head]
    /\ UNCHANGED <<head, origin, rows, record, cooling, scans, crashes, scanHistory>>

\* No repository, or git refuses: the agent may only read, in place.
ReadOnlyInPlace ==
    /\ AtStep("agent")
    /\ Goto("finish")
    /\ UNCHANGED <<head, origin, rows, record, cooling, scans, crashes, scanHistory>>

\* The agent commits to a branch that starts at the base; _record_git_commits writes the row.
\* Only rows on anima/fix-* branches are ever read again.
RecordCommit(fix, onFixBranch) ==
    rows' = IF onFixBranch THEN Append(rows, [class |-> run.class, fix |-> fix]) ELSE rows

AgentCommits(fix) ==
    /\ AtStep("writing")
    /\ fix \notin {rows[i].fix : i \in DOMAIN rows} \union {p[2] : p \in resolved}
    /\ \E onFixBranch \in BOOLEAN : RecordCommit(fix, onFixBranch)
    /\ run' = [run EXCEPT !.step = "verify", !.fix = fix]
    /\ UNCHANGED <<head, origin, record, cooling, scans, crashes, scanHistory>>

AgentReports ==
    /\ AtStep("writing")
    /\ Goto("finish")
    /\ UNCHANGED <<head, origin, rows, record, cooling, scans, crashes, scanHistory>>

\* Timeout, error or exception: the run leaves no episodic row, hence no cooldown.
AgentFails ==
    /\ run.step \in {"agent", "writing"}
    /\ run' = NoCycle
    /\ UNCHANGED <<head, origin, rows, record, cooling, scans, crashes, scanHistory>>

\* verify_fix: the repository's own tests on the base and on the branch; only a failing run
\* followed by a passing one resolves.
Verdict(before, after) ==
    IF "errored" \in {before, after} THEN "unknown"
    ELSE IF before = "fail" /\ after = "pass" THEN "resolved"
    ELSE IF after = "fail" THEN "unresolved" ELSE "unknown"

VerifyFix(before, after) ==
    /\ AtStep("verify")
    /\ Goto(IF Verdict(before, after) = "resolved" THEN "gate" ELSE "finish")
    /\ resolved' = IF Verdict(before, after) = "resolved"
                   THEN resolved \union {<<run.class, run.fix>>} ELSE resolved
    /\ UNCHANGED <<head, origin, rows, record, cooling, scans, crashes,
                   taken, healthy, earned, lapsed, raced>>

\* _maybe_auto_apply: opted in, a unit to restart, a graduated class and a small diff.
MayApply ==
    /\ AutoApplyEnabled
    /\ run.class.service # NoService
    /\ record[run.class].graduated

AutoApply ==
    /\ AtStep("gate") /\ MayApply
    /\ run' = [run EXCEPT !.step = "apply", !.before = head]
    /\ raced' = {}
    /\ UNCHANGED <<head, origin, rows, record, cooling, scans, crashes,
                   taken, resolved, healthy, earned, lapsed>>

\* One of the conditions fails, the diff is large or cannot be measured, or rev-parse fails.
ProposeOnly ==
    /\ AtStep("gate")
    /\ Goto("finish")
    /\ UNCHANGED <<head, origin, rows, record, cooling, scans, crashes, scanHistory>>

-----------------------------------------------------------------------------
Branch == run.base \union {run.fix}

\* Mutant of FastForward: the branch replaces whatever HEAD is.
FastForwardForced(tree) == Branch

\* git merge --ff-only: forward to the branch, or already up to date.
FastForward(tree) == IF Branch \subseteq tree THEN tree ELSE Branch

Merge ==
    /\ AtStep("apply") /\ (head \subseteq Branch \/ Branch \subseteq head)
    /\ head' = FastForward(head)
    /\ Goto("merged")
    /\ UNCHANGED <<origin, rows, record, cooling, scans, crashes, scanHistory>>

MergeRefused ==
    /\ AtStep("apply")
    /\ Goto("finish")
    /\ UNCHANGED <<head, origin, rows, record, cooling, scans, crashes, scanHistory>>

\* The command is cut off at 30 s after git has moved HEAD, or the rev-parse that follows the
\* merge raises: the caller gives up and the tree stays where it is.
MergeAbandoned ==
    /\ AtStep("merged")
    /\ lapsed' = lapsed \union {run.fix}
    /\ Goto("finish")
    /\ UNCHANGED <<head, origin, rows, record, cooling, scans, crashes,
                   taken, resolved, healthy, earned, raced>>

Restart ==
    /\ AtStep("merged")
    /\ Goto("probing")
    /\ UNCHANGED <<head, origin, rows, record, cooling, scans, crashes, scanHistory>>

RestartFails ==
    /\ AtStep("merged")
    /\ Goto("rollback")
    /\ UNCHANGED <<head, origin, rows, record, cooling, scans, crashes, scanHistory>>

\* The health gate: is_active, polled for HEALTH_GATE_TIMEOUT_S.
Healthy ==
    /\ AtStep("probing")
    /\ healthy' = healthy \union {run.fix}
    /\ Goto("finish")
    /\ UNCHANGED <<head, origin, rows, record, cooling, scans, crashes,
                   taken, resolved, earned, lapsed, raced>>

\* Mutant of Unhealthy: the last answer of the poll is taken as good.
UnhealthyAccepted ==
    /\ AtStep("probing")
    /\ Goto("finish")
    /\ UNCHANGED <<head, origin, rows, record, cooling, scans, crashes, scanHistory>>

Unhealthy ==
    /\ AtStep("probing")
    /\ Goto("rollback")
    /\ UNCHANGED <<head, origin, rows, record, cooling, scans, crashes, scanHistory>>

\* _rollback: git reset --hard, whose failure is only logged, then the unit is started again.
Rollback ==
    /\ AtStep("rollback")
    /\ \/ head' = run.before /\ UNCHANGED lapsed
       \/ lapsed' = lapsed \union {run.fix} /\ UNCHANGED head
    /\ Goto("restarting")
    /\ UNCHANGED <<origin, rows, record, cooling, scans, crashes,
                   taken, resolved, healthy, earned, raced>>

RestartAgain ==
    /\ AtStep("restarting")
    /\ Goto("finish")
    /\ UNCHANGED <<head, origin, rows, record, cooling, scans, crashes, scanHistory>>

\* remove_worktree, then the rest of _run_proactive_agent: the decision is logged and starts
\* the cooldown of the class, unless the answer was too short to be one.
Finish ==
    /\ AtStep("finish")
    /\ cooling' \in {cooling, cooling \union {run.class}}
    /\ run' = NoCycle
    /\ UNCHANGED <<head, origin, rows, record, scans, crashes, scanHistory>>

-----------------------------------------------------------------------------
\* The owner works in the live tree and on origin.
OwnerCommits(c) ==
    /\ c \in Owner \ head /\ c \notin raced
    /\ head' = head \union {c}
    /\ raced' = IF run.step \in ApplySteps \union {"apply"} THEN raced \union {c} ELSE raced
    /\ UNCHANGED <<origin, rows, record, cooling, run, scans, crashes,
                   taken, resolved, healthy, earned, lapsed>>

OwnerMerges(fix) ==
    /\ fix \in {rows[i].fix : i \in DOMAIN rows} \ origin
    /\ origin' = origin \union {fix}
    /\ \/ head' = head \union {fix} /\ taken' = taken \union {fix}
       \/ UNCHANGED <<head, taken>>
    /\ UNCHANGED <<rows, record, cooling, run, scans, crashes,
                   resolved, healthy, earned, lapsed, raced>>

\* AUTONOMOUS_SCAN_COOLDOWN_S passes; before a cycle, since a cycle asks once, when it chooses.
ScanCooldownExpires(a) ==
    /\ AtStep("idle") /\ a \in cooling
    /\ cooling' = cooling \ {a}
    /\ UNCHANGED <<head, origin, rows, record, run, scans, crashes, scanHistory>>

\* anima stops: nothing of the cycle is persisted, and nobody else finishes it.
ScanCrash ==
    /\ crashes < MaxCrashes /\ ~AtStep("idle")
    /\ crashes' = crashes + 1
    /\ lapsed' = IF run.step \in ApplySteps THEN lapsed \union {run.fix} ELSE lapsed
    /\ run' = NoCycle
    /\ UNCHANGED <<head, origin, rows, record, cooling, scans,
                   taken, resolved, healthy, earned, raced>>

-----------------------------------------------------------------------------
ScanInit ==
    /\ head = {} /\ origin = {}
    /\ rows = <<>>
    /\ record = [a \in Class |-> Untrusted]
    /\ cooling = {} /\ run = NoCycle
    /\ scans = 0 /\ crashes = 0
    /\ taken = {} /\ resolved = {} /\ healthy = {}
    /\ earned = {} /\ lapsed = {} /\ raced = {}

TestRun == {"pass", "fail", "errored"}

ApplyFix ==
    \/ AutoApply \/ ProposeOnly \/ Merge \/ MergeRefused \/ MergeAbandoned
    \/ Restart \/ RestartFails \/ Healthy \/ Unhealthy \/ Rollback \/ RestartAgain

Investigate ==
    \/ SelfSuppress \/ CreateWorktree \/ ReadOnlyInPlace
    \/ \E f \in Fix : AgentCommits(f)
    \/ AgentReports \/ AgentFails
    \/ \E before, after \in TestRun : VerifyFix(before, after)
    \/ Finish

ScanNext ==
    \/ Scan
    \/ \E a \in Class : Observe(a) \/ Choose(a) \/ ScanCooldownExpires(a)
    \/ NothingToDo
    \/ Investigate
    \/ ApplyFix
    \/ \E c \in Owner : OwnerCommits(c)
    \/ \E f \in Fix : OwnerMerges(f)
    \/ ScanCrash

ScanSpec == ScanInit /\ [][ScanNext]_scanVars

-----------------------------------------------------------------------------
Steps == {"idle", "observe", "agent", "writing", "verify", "gate", "apply", "finish"}
         \union ApplySteps

Tree == SUBSET (Owner \union Fix)

\* The type of every variable: rows name a fix once, a cycle that applies has a unit and a fix.
ScanTypeOK ==
    /\ head \in Tree /\ origin \in SUBSET Fix
    /\ rows \in Seq([class : Class, fix : Fix])
    /\ \A i, j \in DOMAIN rows : rows[i].fix = rows[j].fix => i = j
    /\ record \in [Class -> TrackRecordState(Fix)]
    /\ cooling \in SUBSET Class
    /\ run \in [step : Steps, todo : SUBSET Class, seen : SUBSET Class,
               class : Class \union {NoClass}, base : Tree,
               fix : Fix \union {NoFix}, before : Tree]
    /\ run.step \in ApplySteps \union {"apply"} => run.class.service \in Service /\ run.fix \in Fix
    /\ scans \in 0..MaxScans /\ crashes \in 0..MaxCrashes
    /\ taken \in SUBSET Fix /\ healthy \in SUBSET Fix /\ lapsed \in SUBSET Fix
    /\ resolved \in SUBSET (Class \X Fix)
    /\ earned \in SUBSET Class /\ raced \in SUBSET Owner

\* What reversible_apply promises of the live tree: a fix in it that the owner did not merge
\* was resolved by the tests, belongs to a class that graduated on a fix a human merged, and
\* was found healthy after the restart, unless it is on trial now, or a crash, a failing git
\* command or a failing reset cut the trial short.
TrustedTree ==
    \A f \in (head \intersect Fix) \ taken :
        /\ \E a \in earned : <<a, f>> \in resolved
        /\ \/ f \in healthy \union lapsed
           \/ run.fix = f /\ run.step \in ApplySteps

\* No step of anima takes a commit of the owner out of the live tree, except one that was
\* made while a fix was on trial: the fast-forward never rewrites history, the rollback does.
OwnerCommitsKept == [][(head \intersect Owner) \ head' \subseteq raced]_scanVars
=============================================================================
