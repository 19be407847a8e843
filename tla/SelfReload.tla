----------------------------- MODULE SelfReload ------------------------------
(***************************************************************************)
(* Safe self-reload (anima/kernel/self_reload.py) with the boot task that  *)
(* resolves it (anima/api/app.py) and the autonomous gate.                 *)
(*                                                                         *)
(* A requesting thread stages a commit, writes pending.json, arms a        *)
(* systemd deadman, resets the source and kills its own process.  systemd  *)
(* respawns it; the boot task then commits (disarms the deadman) or leaves *)
(* the deadman to put the old source back and restart the service.         *)
(*                                                                         *)
(* Two threads can run the funnel at once: the owner's endpoint runs it on *)
(* the event loop, the self-probe loop runs it in an executor thread.      *)
(* Durations are counted in ticks; `age` is the time since the armed_at    *)
(* in pending.json and `deadman.left` the time before the deadman fires.   *)
(***************************************************************************)
EXTENDS TrackRecord

CONSTANTS
    Shas,            \* the commits of the source repository
    Ancestor,        \* <<a, b>>: git merge-base --is-ancestor a b succeeds
    Frozen,          \* [Shas -> protected part: migrations/, TIER-0 files, pyproject]
    Importable,      \* commits whose worktree passes the import and smoke checks
    Good,            \* commits whose process boots and answers /health
    Autonomous,      \* self_reload_enabled and self_reload_autonomous_enabled
    DeadmanDelay,    \* SELF_RELOAD_DEADMAN_DELAY_S
    Margin,          \* SELF_RELOAD_LIVENESS_MARGIN_S
    GitTimeout,      \* the timeout of _GitRunner.run, less than DeadmanDelay
    ResetMayTear,    \* a git reset that is killed may leave a half-updated tree
    CommandMayFail,  \* systemctl stop may fail or raise, git rev-parse may raise
    MaxRequests,     \* bound: calls of the funnel
    MaxCrashes,      \* bound: process crashes
    MaxMoves         \* bound: moves of HEAD by somebody else

ASSUME ReloadAssumption ==
    /\ Ancestor \subseteq Shas \X Shas
    /\ Importable \subseteq Shas
    /\ Good \subseteq Shas
    /\ DeadmanDelay \in Nat /\ Margin \in Nat /\ GitTimeout \in Nat
    /\ 0 < Margin /\ Margin < DeadmanDelay
    /\ GitTimeout < DeadmanDelay
    /\ Autonomous \in BOOLEAN /\ ResetMayTear \in BOOLEAN
    /\ CommandMayFail \in BOOLEAN
    /\ MaxRequests \in Nat /\ MaxCrashes \in Nat /\ MaxMoves \in Nat

CONSTANTS Mixed, None  \* a half-updated tree; no commit

ASSUME NotShas == Mixed \notin Shas /\ None \notin Shas /\ Mixed # None

Threads == {"owner", "auto"}

VARIABLES
    head,      \* HEAD of SOURCE_ROOT
    tree,      \* the working tree: a commit, or Mixed
    master,    \* the commit of branch master
    file,      \* pending.json: absent, torn, or a record
    age,       \* ticks since armed_at in pending.json (it stops at DeadmanDelay)
    deadman,   \* the systemd unit rawos-selfreload-revert; `kept` is history: the
               \* source it would take back has been committed
    proc,      \* anima.service
    code,      \* what the running process loaded
    thread,    \* the two callers of the funnel
    boot,      \* _self_reload_boot_commit_task
    track,     \* operator_track_record, class self_reload
    rows,      \* rows of managed_self_reload
    fallback,  \* history: the HEAD an unproven swap replaced, or None
    requests, crashes, moves

source == <<head, tree, master, fallback>>
pending == <<file, age>>
process == <<proc, code>>
ledger == <<track, rows>>
budget == <<requests, crashes, moves>>
vars == <<source, pending, deadman, process, thread, boot, ledger, budget>>

NoFile == [st |-> "absent"]
TornFile == [st |-> "torn"]
Record(old, new, autonomous) ==
    [st |-> "record", old |-> old, new |-> new, autonomous |-> autonomous]
Files == {NoFile, TornFile}
         \union [st : {"record"}, old : Shas, new : Shas, autonomous : BOOLEAN]

Deadman(st, left, target) == [st |-> st, left |-> left, target |-> target, kept |-> FALSE]
DeadmanOff == Deadman("off", 0, None)
Deadmen == [st : {"off", "armed", "firing", "restarting"}, left : 0..DeadmanDelay,
            target : Shas \union {None}, kept : BOOLEAN]

IdleThread == [pc |-> "idle", old |-> None, new |-> None]
BootAt(pc, old, new, outcome) ==
    [pc |-> pc, old |-> old, new |-> new, outcome |-> outcome]
BootPending == BootAt("start", None, None, "none")

ThreadPcs == {"idle", "staged", "checked", "writing", "written", "armed", "swapped"}
BootPcs == {"start", "resolve", "probing", "unlink", "record", "credit", "done"}
Outcome == {"none", "committed", "resurrected", "liveness_failed"}

TypeOK ==
    /\ head \in Shas
    /\ tree \in Shas \union {Mixed}
    /\ master \in Shas
    /\ file \in Files
    /\ age \in 0..DeadmanDelay
    /\ deadman \in Deadmen
    /\ proc \in {"down", "booting", "up"}
    /\ code \in Shas \union {Mixed}
    /\ thread \in [Threads -> [pc : ThreadPcs, old : Shas \union {None},
                               new : Shas \union {None}]]
    /\ boot \in [pc : BootPcs, old : Shas \union {None}, new : Shas \union {None},
                 outcome : Outcome]
    /\ track \in TrackRecordState({})
    /\ rows \in Nat
    /\ fallback \in Shas \union {None}
    /\ requests \in 0..MaxRequests /\ crashes \in 0..MaxCrashes /\ moves \in 0..MaxMoves

\* anima runs a healthy commit, nothing is pending.  The database already holds
\* the class's track record: a fresh one or one that has graduated.
Init ==
    /\ head \in Good /\ tree = head /\ master = head
    /\ file = NoFile /\ age = 0
    /\ deadman = DeadmanOff
    /\ proc = "up" /\ code = head
    /\ thread = [t \in Threads |-> IdleThread]
    /\ boot = BootAt("done", None, None, "none")
    /\ track \in {Untrusted,
                  State(GraduationThreshold, TRUE, FALSE, NoBranch, "merged_resolved")}
    /\ rows = 0
    /\ fallback = None
    /\ requests = 0 /\ crashes = 0 /\ moves = 0

----------------------------------------------------------------------------
(* Effects shared by several steps.                                        *)

\* The process is gone: its threads and its boot task with it.
KillProcess ==
    /\ proc' = "down"
    /\ thread' = [t \in Threads |-> IdleThread]
    /\ boot' = BootPending

\* systemctl stop <unit>.timer: a revert that has started is not stopped.
Stopped == IF deadman.st = "armed" THEN DeadmanOff ELSE deadman

\* disarm() drops the exit status of the command: when it has failed the timer is as it
\* was, and the caller goes on as after a stop.
AfterDisarm == {Stopped} \union {d \in {deadman} : CommandMayFail}
Disarm == deadman' \in AfterDisarm

\* The command is killed at its timeout; the timer may have been stopped all the same.
DisarmRaises == CommandMayFail /\ Disarm

Goto(t, pc) == thread' = [thread EXCEPT ![t].pc = pc]

\* The owner's endpoint runs the funnel synchronously on the event loop: while it
\* does, the process serves no request and resumes no task.
LoopFree == thread["owner"].pc = "idle"

\* The callers: the owner's endpoint asks for any commit; the autonomous gate
\* (operate_on_self_reload) only for a master that differs from HEAD, and only
\* once the class has graduated.
MayRequest(t, new) ==
    t = "auto" => /\ Autonomous
                  /\ new = master
                  /\ master # head
                  /\ track.graduated

\* preflight_stage: forward movement, no change to the protected parts, and a
\* worktree of the commit that imports and passes the smoke tests.
Admissible(old, new) ==
    /\ old = new \/ <<old, new>> \in Ancestor
    /\ Frozen[old] = Frozen[new]
    /\ new \in Importable

----------------------------------------------------------------------------
(* The funnel: preflight_stage, then arm_and_swap.                         *)

\* Mutant of PreflightStage: the snapshot of HEAD is not taken.
PreflightWithoutSnapshot(t, new) ==
    /\ proc = "up" /\ thread[t].pc = "idle"
    /\ boot.pc # "start"
    /\ \A u \in Threads : thread[u].pc # "swapped"
    /\ requests < MaxRequests
    /\ MayRequest(t, new)
    /\ Admissible(head, new)
    /\ thread' = [thread EXCEPT ![t] = [pc |-> "staged", old |-> None, new |-> new]]
    /\ requests' = requests + 1
    /\ UNCHANGED <<source, pending, deadman, process, boot, ledger, crashes, moves>>

\* A preflight checks out a worktree and runs Python in it: one that starts after
\* another thread's reset is not through before the _exit that follows the reset,
\* and none is through before the boot task's look at pending.json, which comes in
\* the first turn of the event loop.
PreflightStage(t, new) ==
    /\ proc = "up" /\ thread[t].pc = "idle"
    /\ boot.pc # "start"
    /\ \A u \in Threads : thread[u].pc # "swapped"
    /\ requests < MaxRequests
    /\ MayRequest(t, new)
    /\ Admissible(head, new)
    /\ thread' = [thread EXCEPT ![t] = [pc |-> "staged", old |-> head, new |-> new]]
    /\ requests' = requests + 1
    /\ UNCHANGED <<source, pending, deadman, process, boot, ledger, crashes, moves>>

\* state_path.exists(): refuse, or go on.
CheckPending(t) ==
    /\ thread[t].pc = "staged"
    /\ thread' = [thread EXCEPT ![t] =
                    IF file = NoFile THEN [@ EXCEPT !.pc = "checked"] ELSE IdleThread]
    /\ UNCHANGED <<source, pending, deadman, process, boot, ledger, budget>>

\* write_text truncates the file first ...
OpenState(t) ==
    /\ thread[t].pc = "checked"
    /\ file' = TornFile
    /\ Goto(t, "writing")
    /\ UNCHANGED <<source, age, deadman, process, boot, ledger, budget>>

\* ... and then fills it.
WriteState(t) ==
    /\ thread[t].pc = "writing"
    /\ file' = Record(thread[t].old, thread[t].new, t = "auto")
    /\ age' = 0
    /\ Goto(t, "written")
    /\ UNCHANGED <<source, deadman, process, boot, ledger, budget>>

\* An exception of write_text (no space left) propagates; nothing removes the file.
WriteStateFails(t) ==
    /\ thread[t].pc = "writing"
    /\ thread' = [thread EXCEPT ![t] = IdleThread]
    /\ UNCHANGED <<source, pending, deadman, process, boot, ledger, budget>>

\* Mutants of Arm: a unit in use is replaced; the deadman is armed with the new
\* commit.
ArmReplacing(t) ==
    /\ thread[t].pc = "written"
    /\ deadman' = Deadman("armed", DeadmanDelay, thread[t].old)
    /\ Goto(t, "armed")
    /\ UNCHANGED <<source, pending, process, boot, ledger, budget>>
ArmWithNew(t) ==
    /\ thread[t].pc = "written"
    /\ deadman.st = "off"
    /\ deadman' = Deadman("armed", DeadmanDelay, thread[t].new)
    /\ Goto(t, "armed")
    /\ UNCHANGED <<source, pending, process, boot, ledger, budget>>

\* systemd-run refuses a unit name that is in use.
Arm(t) ==
    /\ thread[t].pc = "written"
    /\ deadman.st = "off"
    /\ deadman' = Deadman("armed", DeadmanDelay, thread[t].old)
    /\ Goto(t, "armed")
    /\ UNCHANGED <<source, pending, process, boot, ledger, budget>>

\* Mutant of ArmFails: the handler also stops the unit, whoever armed it.
ArmFailsDisarming(t) ==
    /\ thread[t].pc = "written"
    /\ file' = NoFile
    /\ thread' = [thread EXCEPT ![t] = IdleThread]
    /\ Disarm
    /\ UNCHANGED <<source, age, process, boot, ledger, budget>>

\* sd.arm raises; when it was its own timeout, the unit may exist all the same.
ArmFails(t) ==
    /\ thread[t].pc = "written"
    /\ file' = NoFile
    /\ thread' = [thread EXCEPT ![t] = IdleThread]
    /\ \/ UNCHANGED deadman
       \/ /\ deadman.st = "off"
          /\ deadman' = Deadman("armed", DeadmanDelay, thread[t].old)
    /\ UNCHANGED <<source, age, process, boot, ledger, budget>>

ResetSource(t) ==
    /\ thread[t].pc = "armed"
    /\ head' = thread[t].new /\ tree' = thread[t].new
    /\ fallback' = IF head = thread[t].new THEN fallback ELSE head
    /\ Goto(t, "swapped")
    /\ UNCHANGED <<master, pending, deadman, process, boot, ledger, budget>>

\* git reset fails or is killed at its timeout: disarm, unlink, raise.
ResetFails(t) ==
    /\ thread[t].pc = "armed"
    /\ Disarm
    /\ file' = NoFile
    /\ thread' = [thread EXCEPT ![t] = IdleThread]
    /\ \/ UNCHANGED <<tree, fallback>>
       \/ /\ ResetMayTear /\ head # thread[t].new
          /\ tree' = Mixed
          /\ fallback' = head
    /\ UNCHANGED <<head, master, age, process, boot, ledger, budget>>

\* The same, but the disarm raises too: the state file stays.
ResetFailsArmed(t) ==
    /\ thread[t].pc = "armed"
    /\ DisarmRaises
    /\ thread' = [thread EXCEPT ![t] = IdleThread]
    /\ \/ UNCHANGED <<tree, fallback>>
       \/ /\ ResetMayTear /\ head # thread[t].new
          /\ tree' = Mixed
          /\ fallback' = head
    /\ UNCHANGED <<head, master, pending, process, boot, ledger, budget>>

Exit(t) ==
    /\ thread[t].pc = "swapped"
    /\ KillProcess
    /\ UNCHANGED <<source, pending, deadman, code, ledger, budget>>

Funnel(t) ==
    \/ CheckPending(t) \/ OpenState(t) \/ WriteState(t) \/ WriteStateFails(t)
    \/ Arm(t) \/ ArmFails(t) \/ ResetSource(t) \/ ResetFails(t) \/ ResetFailsArmed(t)
    \/ Exit(t)

----------------------------------------------------------------------------
(* The service: systemd's Restart=always, the lifespan start-up, crashes.  *)

Spawn ==
    /\ proc = "down"
    /\ proc' = "booting" /\ code' = tree
    /\ boot' = BootPending
    /\ UNCHANGED <<source, pending, deadman, thread, ledger, budget>>

\* The lifespan reaches the point where the boot task is created.
Ready ==
    /\ proc = "booting"
    /\ proc' = "up"
    /\ UNCHANGED <<source, pending, deadman, code, thread, boot, ledger, budget>>

\* Source that is not healthy may die while booting, as often as it is respawned.
BootFails ==
    /\ proc = "booting" /\ code \notin Good
    /\ KillProcess
    /\ UNCHANGED <<source, pending, deadman, code, ledger, budget>>

\* The process dies at any point, perhaps inside a git reset.
Crash ==
    /\ proc # "down" /\ crashes < MaxCrashes
    /\ KillProcess
    /\ crashes' = crashes + 1
    /\ \/ UNCHANGED <<tree, fallback>>
       \/ \E t \in Threads :
            /\ ResetMayTear /\ thread[t].pc = "armed" /\ head # thread[t].new
            /\ tree' = Mixed
            /\ fallback' = head
    /\ UNCHANGED <<head, master, pending, deadman, code, ledger, requests, moves>>

----------------------------------------------------------------------------
(* _self_reload_boot_commit_task and boot_liveness_commit.                 *)

\* The task reads pending.json for the ledger; an unreadable file ends it.
BootRead ==
    /\ proc = "up" /\ boot.pc = "start" /\ LoopFree
    /\ boot' = IF file.st = "record"
                 THEN BootAt("resolve", file.old, file.new, "none")
                 ELSE BootAt("done", None, None, "none")
    /\ UNCHANGED <<source, pending, deadman, process, thread, ledger, budget>>

Resolution(outcome, pc) == boot' = BootAt(pc, boot.old, boot.new, outcome)

\* HEAD is the old commit: disarm and clear.
Resurrected ==
    /\ boot.pc = "resolve"
    /\ head = boot.old
    /\ Disarm
    /\ Resolution("resurrected", "unlink")
    /\ UNCHANGED <<source, pending, process, thread, ledger, budget>>

\* git rev-parse raises, or the disarm of a resurrection does: the task gives up.
ResolveRaises ==
    /\ boot.pc = "resolve" /\ CommandMayFail
    /\ UNCHANGED deadman \/ (head = boot.old /\ DisarmRaises)
    /\ boot' = [boot EXCEPT !.pc = "done"]
    /\ UNCHANGED <<source, pending, process, thread, ledger, budget>>

\* HEAD is neither commit: leave everything to the deadman.
ForeignHead ==
    /\ boot.pc = "resolve"
    /\ head # boot.old /\ head # boot.new
    /\ Resolution("liveness_failed", "record")
    /\ UNCHANGED <<source, pending, deadman, process, thread, ledger, budget>>

StartProbing ==
    /\ boot.pc = "resolve"
    /\ head # boot.old /\ head = boot.new
    /\ boot' = [boot EXCEPT !.pc = "probing"]
    /\ UNCHANGED <<source, pending, deadman, process, thread, ledger, budget>>

\* deadline = armed_at + DELAY - MARGIN
DeadlinePassed == age >= DeadmanDelay - Margin

\* probe() answers 200: disarm and clear, whatever the time is and whatever has come of
\* the disarm.
Committed ==
    /\ boot.pc = "probing"
    /\ code \in Good /\ LoopFree
    /\ \E d \in AfterDisarm : deadman' = [d EXCEPT !.kept = d.st # "off"]
    /\ fallback' = None
    /\ Resolution("committed", "unlink")
    /\ UNCHANGED <<head, tree, master, pending, process, thread, ledger, budget>>

\* The disarm raises: no outcome, and the record stays for the next boot.  If the
\* timer was stopped all the same, the probe has made the new source proven.
CommitRaises ==
    /\ boot.pc = "probing" /\ CommandMayFail
    /\ code \in Good /\ LoopFree
    /\ \/ UNCHANGED <<deadman, fallback>>
       \/ deadman.st = "armed" /\ deadman' = DeadmanOff /\ fallback' = None
    /\ boot' = [boot EXCEPT !.pc = "done"]
    /\ UNCHANGED <<head, tree, master, pending, process, thread, ledger, budget>>

\* Mutant of LivenessFailed: a failed probe disarms too.
LivenessFailedDisarming ==
    /\ boot.pc = "probing"
    /\ DeadlinePassed
    /\ Disarm
    /\ Resolution("liveness_failed", "record")
    /\ UNCHANGED <<source, pending, process, thread, ledger, budget>>

\* probe() failed and the deadline has passed; before it, the loop just sleeps.
LivenessFailed ==
    /\ boot.pc = "probing"
    /\ DeadlinePassed
    /\ Resolution("liveness_failed", "record")
    /\ UNCHANGED <<source, pending, deadman, process, thread, ledger, budget>>

Unlink ==
    /\ boot.pc = "unlink"
    /\ file' = NoFile
    /\ boot' = [boot EXCEPT !.pc = "record"]
    /\ UNCHANGED <<source, age, deadman, process, thread, ledger, budget>>

\* Each of the two writes may raise, which is logged and forgotten.
RecordOutcome ==
    /\ boot.pc = "record" /\ LoopFree
    /\ rows' \in {rows, rows + 1}
    /\ boot' = [boot EXCEPT !.pc = "credit"]
    /\ UNCHANGED <<source, pending, deadman, process, thread, track, budget>>

UpdateTrack ==
    /\ boot.pc = "credit"
    /\ track' \in {track, AdvanceOperator(track, boot.outcome = "committed")}
    /\ boot' = [boot EXCEPT !.pc = "done"]
    /\ UNCHANGED <<source, pending, deadman, process, thread, rows, budget>>

BootTask ==
    \/ BootRead \/ Resurrected \/ ResolveRaises \/ ForeignHead \/ StartProbing
    \/ Committed \/ CommitRaises \/ LivenessFailed \/ Unlink \/ RecordOutcome \/ UpdateTrack

----------------------------------------------------------------------------
(* Outside the process: the deadman, the clock, whoever else uses git.     *)

DeadmanFires ==
    /\ deadman.st = "armed" /\ deadman.left = 0
    /\ deadman' = [deadman EXCEPT !.st = "firing"]
    /\ UNCHANGED <<source, pending, process, thread, boot, ledger, budget>>

\* rawos-selfreload-revert: git reset --hard old_sha ...
RevertSource ==
    /\ deadman.st = "firing"
    /\ head' = deadman.target /\ tree' = deadman.target
    /\ fallback' = None
    /\ deadman' = [deadman EXCEPT !.st = "restarting"]
    /\ UNCHANGED <<master, pending, process, thread, boot, ledger, budget>>

\* ... and restart the service; the transient unit is gone afterwards.
RevertRestart ==
    /\ deadman.st = "restarting"
    /\ deadman' = DeadmanOff
    /\ KillProcess
    /\ UNCHANGED <<source, pending, code, ledger, budget>>

\* What cannot be late: a git reset (its timeout), a probe once the deadline has
\* passed (the interval and the timeout of a probe are far below Margin), and the
\* boot task's first look at pending.json and HEAD (nothing is awaited before it).
GitOverdue ==
    \E t \in Threads : /\ thread[t].pc \in {"armed", "swapped"}
                       /\ DeadmanDelay - deadman.left >= GitTimeout
ProbeOverdue == boot.pc = "probing" /\ DeadlinePassed
ResolveOverdue == proc = "up" /\ boot.pc \in {"start", "resolve"}

Tick ==
    /\ ~GitOverdue /\ ~ProbeOverdue /\ ~ResolveOverdue
    /\ age' = IF file.st = "record" /\ age < DeadmanDelay THEN age + 1 ELSE age
    /\ deadman' = IF deadman.st = "armed" /\ deadman.left > 0
                    THEN [deadman EXCEPT !.left = @ - 1] ELSE deadman
    /\ UNCHANGED <<source, file, process, thread, boot, ledger, budget>>

\* A human, or another part of the system, merges or checks out a commit.
MergeMaster(s) ==
    /\ s # master /\ <<master, s>> \in Ancestor
    /\ master' = s
    /\ UNCHANGED <<head, tree, fallback, pending, deadman, process, thread, boot, ledger,
                   budget>>

MoveHead(s) ==
    /\ moves < MaxMoves /\ s # head
    /\ head' = s /\ tree' = s
    /\ fallback' = None
    /\ moves' = moves + 1
    /\ UNCHANGED <<master, pending, deadman, process, thread, boot, ledger, requests, crashes>>

----------------------------------------------------------------------------

Next ==
    \/ \E t \in Threads, new \in Shas : PreflightStage(t, new)
    \/ \E t \in Threads : Funnel(t)
    \/ Spawn \/ Ready \/ BootFails \/ Crash
    \/ BootTask
    \/ DeadmanFires \/ RevertSource \/ RevertRestart
    \/ Tick
    \/ \E s \in Shas : MergeMaster(s) \/ MoveHead(s)

Spec == Init /\ [][Next]_vars

\* systemd starts, restarts and fires; threads and tasks are scheduled; time passes.
FairSpec ==
    /\ Spec
    /\ \A t \in Threads : WF_vars(Funnel(t))
    /\ WF_vars(Spawn) /\ WF_vars(Ready \/ BootFails) /\ WF_vars(BootTask)
    /\ WF_vars(DeadmanFires) /\ WF_vars(RevertSource) /\ WF_vars(RevertRestart)
    /\ WF_vars(Tick)

----------------------------------------------------------------------------
(* Properties.                                                             *)

\* I-SR2, the promise of the deadman: source that a swap installed and no probe
\* has proven yet is always under a deadman that has not reverted it yet.
GuardedSwap == fallback # None => deadman.st \in {"armed", "firing"}

\* The deadman, waiting or running, aims at proven source: the HEAD an unproven swap
\* replaced, or, when nothing is unproven, HEAD itself (a revert is then only a
\* restart); but for source that was committed with its deadman left on, because the
\* stop failed unnoticed or the revert had started.
DeadmanAimsAtProven ==
    deadman.st \in {"armed", "firing"} =>
        \/ deadman.target = IF fallback = None THEN head ELSE fallback
        \/ fallback = None /\ deadman.kept

\* Two callers of arm_and_swap are never both between arming and _exit.  The
\* check of pending.json does not ensure it (it is not atomic with the write);
\* the name of the deadman unit does.
OneSwapper ==
    \A t, u \in Threads :
        thread[t].pc \in {"armed", "swapped"} /\ thread[u].pc \in {"armed", "swapped"}
            => t = u

\* I-SR2: a thread past arming is covered by its own deadman, which cannot fire
\* before git's timeout has ended the reset.
ArmedThreadCovered ==
    \A t \in Threads : thread[t].pc \in {"armed", "swapped"} =>
        /\ deadman.st = "armed" /\ deadman.left > 0
        /\ deadman.target = thread[t].old

\* I-SR4, I-SR5, I-SEC9: a swap goes from HEAD to a descendant with the same
\* protected parts.  preflight compares with the HEAD it reads, arm_and_swap does not
\* look again.
SwapMovesForward ==
    [][fallback' # None /\ head' # head => /\ <<head, head'>> \in Ancestor
                                          /\ Frozen[head'] = Frozen[head]]_vars

\* A version recorded as committed is not taken away by the deadman: what a
\* revert replaces is unproven, or is the commit it reverts to.
RevertsOnlyUnproven ==
    [][deadman.st = "firing" /\ deadman'.st = "restarting" =>
          fallback # None \/ head = deadman.target]_vars

\* Unproven source does not stay: it is committed or reverted.
UnprovenResolves == fallback # None ~> fallback = None

=============================================================================
