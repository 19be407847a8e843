---------------------------- MODULE ProactiveScan ----------------------------
(***************************************************************************)
(* The scheduler's scan of the users (scheduler/proactive.py, _scan_once   *)
(* and _run_proactive_agent): who is active, what triggers a run, the      *)
(* gates in front of it (confidence, cooldown, backoff, a semaphore,       *)
(* anima's own record in the domain), the agent's loop, and what becomes   *)
(* of its answer.                                                          *)
(*                                                                         *)
(* Each user has at most one run of a scan, but a scan that an exception   *)
(* ends leaves its runs behind, and the next one begins beside them.  The  *)
(* autonomous server scan (AutonomousScan) runs its agents through the     *)
(* same function, as the user Entity and at the same time.                 *)
(*                                                                         *)
(* Goals have one domain.  Time is left out: a cooldown, a backoff (and    *)
(* with it the count of failures that sets its length) and the age of a    *)
(* rating end at any moment.                                               *)
(***************************************************************************)
EXTENDS Naturals, FiniteSets

CONSTANTS
    User,
    Entity,         \* anima's own user, one of them
    Facts,          \* bound: what the events of the last half hour may show, a set of sets
    MaxConcurrent,  \* MAX_CONCURRENT_PROACTIVE
    MaxRuns,        \* bound: runs that get as far as their loop
    MaxFailures     \* bound: scans that an exception ends

ASSUME ScanAssumption ==
    Entity \in User /\ MaxConcurrent \in Nat \ {0} /\ MaxRuns \in Nat /\ MaxFailures \in Nat

VARIABLES
    scan,       \* the scan in progress: [phase, todo, user, trigger]
    run,        \* the run of each slot
    failures,   \* scans that an exception has ended
    runs,       \* runs that have started their loop
    calls,      \* proactive_tool_calls: what was logged, and the artifact it is linked to
    backoff,    \* _proactive_backoff: the users whose next_allowed_at is still to come
    cooldown,   \* <<user, cooldown_key>> of the artifacts younger than GOAL_COOLDOWN_S
    rated,      \* episodic outcomes of a user's runs in the last 7 days, and those whose
                \* tests are still to come: [good, bad, open]
    beside      \* history: which runs of a user were going on at the same time

proactiveVars == <<scan, failures, run, runs, calls, backoff, cooldown, rated, beside>>

\* The runs of a scan are told from those that earlier scans left behind by how many
\* scans have failed.
Server == <<Entity, MaxFailures + 1>>
Slot == (User \X (0..MaxFailures)) \union {Server}

UserOf(s) == s[1]

Task(u) == <<u, failures>>

\* `old` is what "called_at >= start" leaves out: the calls logged before the loop began.
RunOf(phase, trigger, id, old) ==
    [phase |-> phase, trigger |-> trigger, id |-> id, old |-> old]

NoRun == RunOf("off", "none", 0, {})

Scan(phase, todo, user, trigger) ==
    [phase |-> phase, todo |-> todo, user |-> user, trigger |-> trigger]

NoScan == Scan("idle", {}, "none", "none")

In(s, phase) == run[s].phase = phase

To(s, phase) ==
    run' = [run EXCEPT ![s] = RunOf(phase, run[s].trigger, run[s].id, run[s].old)]

Over(s) == run' = [run EXCEPT ![s] = NoRun]

-----------------------------------------------------------------------------
\* _get_active_users: file activity in two hours, or a calendar entry ahead.
ScanBegins(active) ==
    /\ scan = NoScan /\ active # {}
    /\ scan' = Scan("user", active, "none", "none")
    /\ UNCHANGED <<failures, run, runs, calls, backoff, cooldown, rated, beside>>

\* _detect_trigger, in its order of precedence.
DetectTrigger(facts) ==
    IF "commit in 5 min" \in facts THEN "JUST_FINISHED"
    ELSE IF "5 edits" \in facts /\ "commit in 30 min" \notin facts THEN "STUCK"
    ELSE IF "event ahead" \in facts /\ facts # {"event ahead"} THEN "NEEDS_ATTENTION"
    ELSE IF "idle" \in facts THEN "IDLE_OPPORTUNITY"
    ELSE "unknown"

\* The trigger is read off first, then the inference is awaited.
Detect(u, facts) ==
    /\ scan.phase = "user" /\ u \in scan.todo
    /\ scan' = Scan("infer", scan.todo \ {u}, u, DetectTrigger(facts))
    /\ UNCHANGED <<failures, run, runs, calls, backoff, cooldown, rated, beside>>

\* Confidences are in percent; 0 stands for no goal at all.
ConfidenceThreshold == 65

\* _rule_infer: an active session, or a lot of files written in a known stack.
RuleInfer(messages, writes) ==
    IF messages >= 3 THEN (IF messages < 7 THEN 50 + 5 * messages ELSE 85)
    ELSE IF writes >= 5 THEN 55 ELSE 0

\* _classifier_infer: no answer it is less than half sure of, or when none is trained.
ClassifierInfer(prediction) == IF prediction >= 50 THEN prediction ELSE 0

\* _llm_infer within its 8 s; an error, an answer that cannot be read and a timeout are 0.
LlmInfer == {0, 5, 60, 90}

\* infer_intent: the first layer that is sure enough; when the model has next to nothing to
\* say, the best of the others after all.
InferIntent(rule, clf, llm) ==
    IF rule >= 60 THEN rule
    ELSE IF clf >= 65 THEN clf
    ELSE IF llm >= 10 THEN llm
    ELSE IF clf # 0 THEN clf ELSE rule

\* What may come out of it: from the cache, or for any user model and any answers.
Inferred == {InferIntent(RuleInfer(messages, writes), ClassifierInfer(prediction), llm) :
                messages \in {0, 2, 3, 8}, writes \in {0, 5}, prediction \in {0, 40, 60, 65},
                llm \in LlmInfer}

\* The gates of _scan_once before the cooldown; timely is the answer of the timing model.
Passes(trigger, confidence, timely) ==
    /\ confidence # 0
    /\ \/ trigger \in {"JUST_FINISHED", "NEEDS_ATTENTION"}
       \/ confidence >= ConfidenceThreshold
    /\ trigger = "unknown" => timely

\* _is_goal_on_cooldown, with the key of _compute_cooldown_key.
OnCooldown(u, trigger) == <<u, trigger>> \in cooldown

InBackoff(u) == u \in backoff

Admits(confidence, timely) ==
    /\ Passes(scan.trigger, confidence, timely)
    /\ ~OnCooldown(scan.user, scan.trigger) /\ ~InBackoff(scan.user)

NextUser == Scan("user", scan.todo, "none", "none")

\* What the gates may come to, for any inference and any answer of the timing model.
Verdicts == {Admits(confidence, timely) : confidence \in Inferred, timely \in BOOLEAN}

Skip ==
    /\ scan.phase = "infer" /\ FALSE \in Verdicts
    /\ scan' = NextUser
    /\ UNCHANGED <<failures, run, runs, calls, backoff, cooldown, rated, beside>>

\* All gates are open: a task is created, which waits for the semaphore.
Spawn ==
    /\ scan.phase = "infer" /\ TRUE \in Verdicts
    /\ run' = [run EXCEPT ![Task(scan.user)] = RunOf("queued", scan.trigger, 0, {})]
    /\ scan' = NextUser
    /\ UNCHANGED <<failures, runs, calls, backoff, cooldown, rated, beside>>

\* asyncio.gather has every task's result, or exception.
ScanReturns ==
    /\ scan.phase = "user" /\ scan.todo = {}
    /\ \A u \in User : In(Task(u), "off")
    /\ scan' = NoScan
    /\ UNCHANGED <<failures, run, runs, calls, backoff, cooldown, rated, beside>>

\* An exception in the middle of _scan_once, from the detection, the inference, the timing
\* model or the database: proactive_scan_loop goes on to the next scan, and nobody waits
\* for the tasks that were created.
ScanFails ==
    /\ scan.phase = "infer" \/ scan.todo # {}
    /\ failures < MaxFailures
    /\ failures' = failures + 1
    /\ scan' = NoScan
    /\ UNCHANGED <<run, runs, calls, backoff, cooldown, rated, beside>>

\* The autonomous scan calls _run_proactive_agent directly: no semaphore, no backoff.
ServerScan ==
    /\ In(Server, "off") /\ runs < MaxRuns
    /\ run' = [run EXCEPT ![Server] = RunOf("acquired", "SERVER_SCAN", 0, {})]
    /\ UNCHANGED <<scan, failures, runs, calls, backoff, cooldown, rated, beside>>

-----------------------------------------------------------------------------
\* Runs that were left behind still hold the semaphore, or wait for it.
Holders == {s \in Slot \ {Server} : run[s].phase \notin {"off", "queued"}}

Acquire(s) ==
    /\ In(s, "queued") /\ Cardinality(Holders) < MaxConcurrent
    /\ To(s, "acquired")
    /\ UNCHANGED <<scan, failures, runs, calls, backoff, cooldown, rated, beside>>

\* _evaluate_domain_confidence is below the threshold: more than 15% of the rated outcomes
\* are bad.
Suppressed(u) == 100 * rated[u].bad > 15 * (rated[u].good + rated[u].bad)

Silent(s) == Over(s) /\ UNCHANGED <<scan, failures, runs, calls, backoff, cooldown, rated, beside>>

\* The user has no project: the inference is logged and nothing is run.
NoProject(s) == In(s, "acquired") /\ s # Server /\ Silent(s)

\* anima's own record with this user is poor: an episode of silence.
SelfSuppressed(s) == In(s, "acquired") /\ Suppressed(UserOf(s)) /\ Silent(s)

\* A run for the entity itself without an event, or a diff, needs a watched repository with
\* recent commits.
NeedsEvidence(s) == s # Server /\ UserOf(s) = Entity /\ run[s].trigger # "NEEDS_ATTENTION"

\* _select_entity_probe_target finds none; with one, the loop is about that repository.
NothingToProbe(s) ==
    /\ In(s, "acquired") /\ ~Suppressed(UserOf(s)) /\ NeedsEvidence(s)
    /\ Silent(s)

\* The runs of a user that have begun their loop and have no artifact yet.
Going(u) == {s \in Slot : UserOf(s) = u /\ run[s].phase \in {"loop", "decide", "manifest"}}

\* The intent's and the agent's records are created and the loop starts, with the tools of the
\* user's level (TrustLadder).
StartLoop(s) ==
    /\ In(s, "acquired") /\ ~Suppressed(UserOf(s)) /\ runs < MaxRuns
    /\ runs' = runs + 1
    /\ run' = [run EXCEPT ![s] = RunOf("loop", run[s].trigger, runs + 1, DOMAIN calls)]
    /\ beside' = beside \union {{run[t].id, runs + 1} : t \in Going(UserOf(s))}
    /\ UNCHANGED <<scan, failures, calls, backoff, cooldown, rated>>

\* Mutant of LoopFails: an error of the agent is told, a loop that hangs is waited for.
LoopFailsOnError(s) ==
    /\ In(s, "loop") /\ s = Server
    /\ backoff' = backoff \union {UserOf(s)}
    /\ Over(s)
    /\ UNCHANGED <<scan, failures, runs, calls, cooldown, rated, beside>>

\* _run_proactive_loop times out, raises or has seen an error event; _record_proactive_failure.
LoopFails(s) ==
    /\ In(s, "loop")
    /\ backoff' = backoff \union {UserOf(s)}
    /\ Over(s)
    /\ UNCHANGED <<scan, failures, runs, calls, cooldown, rated, beside>>

\* The loop returns a text; the tool calls of the run, if any, are logged;
\* _record_proactive_success.
LoopReturns(s, used) ==
    LET logged == IF used THEN DOMAIN calls \union {run[s].id} ELSE DOMAIN calls
    IN /\ In(s, "loop")
       /\ calls' = [i \in logged |-> IF i \in DOMAIN calls THEN calls[i]
                                     ELSE [user |-> UserOf(s), artifact |-> 0]]
       /\ backoff' = backoff \ {UserOf(s)}
       /\ To(s, "decide")
       /\ UNCHANGED <<scan, failures, runs, cooldown, rated, beside>>

-----------------------------------------------------------------------------
StartsCooldown(s) == cooldown' = cooldown \union {<<UserOf(s), run[s].trigger>>}

\* The answer is too short, or a contribution the agent is not sure of.
Dropped(s) ==
    /\ In(s, "decide") /\ Over(s)
    /\ UNCHANGED <<scan, failures, runs, calls, backoff, cooldown, rated, beside>>

\* SILENCE, also for an answer that starts with none of the three words.
Silence(s) ==
    /\ In(s, "decide") /\ Over(s)
    /\ StartsCooldown(s)
    /\ UNCHANGED <<scan, failures, runs, calls, backoff, rated, beside>>

Rate(u, outcome) == rated' = [rated EXCEPT ![u][outcome] = @ + 1]

\* CONTRIBUTE: the outcome is the one the agent reports (_parse_verification_result), or the
\* tests are run in the background.  No artifact is recorded, and so no cooldown.
Contribute(s, reported) ==
    /\ In(s, "decide") /\ Over(s)
    /\ Rate(UserOf(s), reported)
    /\ UNCHANGED <<scan, failures, runs, calls, backoff, cooldown, beside>>

\* _post_commit_self_rate: the tests pass or fail; there are none, or they take too long.
SelfRate(u, outcome) ==
    /\ rated[u].open > 0
    /\ rated' = [rated EXCEPT ![u] =
                    [good |-> @.good + (IF outcome = "good" THEN 1 ELSE 0),
                     bad  |-> @.bad + (IF outcome = "bad" THEN 1 ELSE 0),
                     open |-> @.open - 1]]
    /\ UNCHANGED <<scan, failures, run, runs, calls, backoff, cooldown, beside>>

\* SIGNAL: the text is written to a file, which is awaited and may fail.
Signal(s) ==
    /\ In(s, "decide")
    /\ To(s, "manifest")
    /\ UNCHANGED <<scan, failures, runs, calls, backoff, cooldown, rated, beside>>

ManifestFails(s) ==
    /\ In(s, "manifest") /\ Over(s)
    /\ UNCHANGED <<scan, failures, runs, calls, backoff, cooldown, rated, beside>>

\* Mutant of Links: the calls of the user that have no artifact yet.
LinksAny(s) == {i \in DOMAIN calls : calls[i].user = UserOf(s) /\ calls[i].artifact = 0}

\* The tool calls that get the new artifact's id: by user, not yet linked, logged since the
\* loop began.
Links(s) == {i \in DOMAIN calls : /\ calls[i].user = UserOf(s) /\ calls[i].artifact = 0
                                  /\ i \notin run[s].old}

\* The artifact is recorded and linked, the device is notified; on a STUCK trigger of a user
\* who has granted a level (TrustLadder) a fix of the file is written too.
Artifact(s) ==
    /\ In(s, "manifest")
    /\ StartsCooldown(s)
    /\ calls' = [i \in DOMAIN calls |->
                    IF i \in Links(s) THEN [calls[i] EXCEPT !.artifact = run[s].id] ELSE calls[i]]
    /\ (run[s].trigger = "STUCK" /\ To(s, "fix")) \/ Over(s)
    /\ UNCHANGED <<scan, failures, runs, backoff, rated, beside>>

\* _generate_code_fix: the corrected file is asked for; nothing comes of a file that is gone,
\* an error or an answer too short.
CodeFix(s) ==
    /\ In(s, "fix")
    /\ To(s, "draft") \/ Over(s)
    /\ UNCHANGED <<scan, failures, runs, calls, backoff, cooldown, rated, beside>>

\* manifest_code_fix: a draft next to the file, recorded without a key, so without a cooldown.
Draft(s) ==
    /\ In(s, "draft") /\ Over(s)
    /\ UNCHANGED <<scan, failures, runs, calls, backoff, cooldown, rated, beside>>

-----------------------------------------------------------------------------
CooldownExpires ==
    /\ \E c \in cooldown : cooldown' = cooldown \ {c}
    /\ UNCHANGED <<scan, failures, run, runs, calls, backoff, rated, beside>>

BackoffExpires(u) ==
    /\ u \in backoff /\ backoff' = backoff \ {u}
    /\ UNCHANGED <<scan, failures, run, runs, calls, cooldown, rated, beside>>

RatingsAge(u) ==
    /\ rated[u].good + rated[u].bad > 0
    /\ rated' = [rated EXCEPT ![u] = [good |-> 0, bad |-> 0, open |-> @.open]]
    /\ UNCHANGED <<scan, failures, run, runs, calls, backoff, cooldown, beside>>

ProactiveInit ==
    /\ scan = NoScan /\ failures = 0 /\ run = [s \in Slot |-> NoRun]
    /\ runs = 0 /\ calls = <<>> /\ backoff = {}
    /\ cooldown = {} /\ beside = {} /\ rated = [u \in User |-> [good |-> 0, bad |-> 0, open |-> 0]]

ScanStep ==
    \/ \E u \in User, facts \in Facts : Detect(u, facts)
    \/ Skip \/ Spawn
    \/ ScanReturns

AnswerStep(s) ==
    \/ Dropped(s) \/ Silence(s) \/ Signal(s)
    \/ \E reported \in {"good", "bad", "open"} : Contribute(s, reported)

\* What the event loop does for a slot; the model's answer may also never come.
SlotStep(s) ==
    \/ NoProject(s) \/ SelfSuppressed(s) \/ NothingToProbe(s)
    \/ StartLoop(s) \/ LoopFails(s)
    \/ AnswerStep(s)
    \/ ManifestFails(s) \/ Artifact(s) \/ CodeFix(s) \/ Draft(s)

ProactiveNext ==
    \/ \E active \in SUBSET User : ScanBegins(active)
    \/ ScanStep \/ ScanFails \/ ServerScan
    \/ \E s \in Slot : Acquire(s)
    \/ \E u \in User : BackoffExpires(u) \/ RatingsAge(u)
                      \/ (\E outcome \in {"good", "bad", "none"} : SelfRate(u, outcome))
    \/ \E s \in Slot : SlotStep(s) \/ (\E used \in BOOLEAN : LoopReturns(s, used))
    \/ CooldownExpires

ProactiveSpec == ProactiveInit /\ [][ProactiveNext]_proactiveVars

\* The event loop runs what can run, and the loop of a run is given up after
\* MAX_PROACTIVE_LOOP_TIME_S.
ProactiveFairSpec ==
    /\ ProactiveSpec
    /\ WF_proactiveVars(ScanStep)
    /\ \A s \in Slot \ {Server} : WF_proactiveVars(Acquire(s) \/ SlotStep(s))

-----------------------------------------------------------------------------
\* The tool calls shown with an artifact are those of the run that made it, or of a run of
\* the same user that was going on beside it; and that happens to the entity only, as long
\* as no exception has ended a scan.
OwnToolCalls ==
    \A i \in DOMAIN calls : calls[i].artifact \notin {0, i} =>
        /\ {i, calls[i].artifact} \in beside
        /\ calls[i].user = Entity \/ failures > 0

\* A scan comes to its end, and with it the users' wait for the next one: no agent that hangs,
\* no queue for the semaphore and no failing write keeps it.
ScanEnds == (scan # NoScan) ~> (scan = NoScan)
=============================================================================
