------------------------------ MODULE VenvSwap -------------------------------
(***************************************************************************)
(* The dependency operator (anima/kernel/venv_operator.py) and the boot    *)
(* task that resolves it (_venv_boot_commit_task, anima/api/app.py).       *)
(*                                                                         *)
(* Swap i builds candidate venv i, writes state.json, arms a deadman,      *)
(* renames the live venv to .venvs/old-i and the candidate to venv, and    *)
(* kills the process.  The next process probes /health once: it commits    *)
(* (disarms, reaps the old venv) or leaves the deadman to rename it back.  *)
(* Venv 0 is the one anima starts with.                                    *)
(***************************************************************************)
EXTENDS Naturals, FiniteSets

CONSTANTS
    MaxSwaps,       \* bound: candidates that pass the preflight
    MaxCrashes,     \* bound: process crashes
    Good,           \* the candidates with which the process serves /health
    GateOpen        \* operator_venv_enabled and venv_dep_update has graduated

ASSUME VenvAssumption ==
    /\ MaxSwaps \in Nat /\ MaxCrashes \in Nat
    /\ Good \subseteq 1..MaxSwaps
    /\ GateOpen \in BOOLEAN

Swaps == 1..MaxSwaps
Venvs == 0..MaxSwaps

CONSTANTS
    Absent,   \* there is no file or directory of that name
    Partial,  \* a directory an rmtree has started to empty
    Torn      \* a state.json that was opened for writing and not yet filled

ASSUME NotVenvs == /\ {Absent, Partial, Torn} \intersect Venvs = {}
                   /\ Absent # Partial /\ Absent # Torn

VARIABLES
    live,      \* the directory venv_root/venv
    old,       \* the directories .venvs/old-<id>
    candidate, \* the candidate directories that exist
    file,      \* state.json: Absent, Torn, or the swap it describes
    deadman,   \* the systemd unit rawos-venv-revert and the swap it reverts
    proc,      \* anima.service: down, booting, tasks created, accepting requests
    code,      \* the venv the running process was started from
    caller,    \* the manage_venv tool call, synchronous on the event loop
    boot,      \* _venv_boot_commit_task
    ledger,    \* venv_operator_history
    proven,    \* history: venvs that have answered a probe
    exposed,   \* history: a failure has taken the way back away
    swaps, crashes

dirs == <<live, old, candidate>>
process == <<proc, code>>
history == <<ledger, proven>>
vars == <<dirs, file, deadman, process, caller, boot, history, exposed, swaps, crashes>>

Idle == [pc |-> "idle", id |-> 0]
Step(pc, id) == [pc |-> pc, id |-> id]
DeadmanOff == [st |-> "off", id |-> 0]

CallerPcs == {"idle", "proven", "checked", "writing", "written", "armed", "moved", "swapped"}
BootPcs == {"start", "read", "disarm", "reap", "reaping", "unlink", "committed",
            "failed", "done"}

TypeOK ==
    /\ live \in Venvs \union {Absent, Partial}
    /\ old \in [Swaps -> Venvs \union {Absent, Partial}]
    /\ candidate \subseteq Swaps
    /\ file \in Swaps \union {Absent, Torn}
    /\ deadman \in [st : {"off", "armed", "firing", "restarting"}, id : Venvs]
    /\ proc \in {"down", "booting", "tasks", "serving"}
    /\ code \in Venvs \union {Absent, Partial}
    /\ caller \in [pc : CallerPcs, id : Venvs]
    /\ boot \in [pc : BootPcs, id : Venvs]
    /\ ledger \subseteq Swaps \X {"applied", "liveness_failed"}
    /\ proven \subseteq Venvs
    /\ exposed \in BOOLEAN
    /\ swaps \in 0..MaxSwaps /\ crashes \in 0..MaxCrashes

Init ==
    /\ live = 0 /\ old = [i \in Swaps |-> Absent] /\ candidate = {}
    /\ file = Absent
    /\ deadman = DeadmanOff
    /\ proc = "serving" /\ code = 0
    /\ caller = Idle
    /\ boot = Step("done", 0)
    /\ ledger = {} /\ proven = {0}
    /\ exposed = FALSE
    /\ swaps = 0 /\ crashes = 0

----------------------------------------------------------------------------

KillProcess ==
    /\ proc' = "down"
    /\ caller' = Idle
    /\ boot' = Step("start", 0)

Disarm == deadman' = IF deadman.st = "armed" THEN DeadmanOff ELSE deadman

\* The tool call runs to its end without giving the event loop back.
LoopFree == caller.pc = "idle"

Works(v) == v = 0 \/ v \in Good

----------------------------------------------------------------------------
(* operate_on_venv / execute_approved_venv_op, then arm_and_swap_venv.     *)

\* preflight_venv runs the live venv's pip, then builds a candidate and proves it; one it
\* rejects leaves no trace.
BuildCandidate ==
    /\ live # Absent
    /\ candidate' = candidate \union {swaps + 1}

\* operate_on_venv: without the gate it only proposes.
MayOperate(autonomous) == autonomous => GateOpen

\* The "applied" row is written before anything is swapped.  The boot task looks for
\* state.json in the first turn of the event loop: no candidate is built before that.
Preflight(autonomous) ==
    /\ proc = "serving" /\ caller.pc = "idle"
    /\ boot.pc # "start"
    /\ MayOperate(autonomous)
    /\ swaps < MaxSwaps
    /\ BuildCandidate
    /\ swaps' = swaps + 1
    /\ caller' = Step("proven", swaps + 1)
    /\ ledger' = ledger \union {<<swaps + 1, "applied">>}
    /\ UNCHANGED <<live, old, file, deadman, process, boot, proven, exposed,
                   crashes>>

CheckPending ==
    /\ caller.pc = "proven"
    /\ caller' = IF file = Absent THEN Step("checked", caller.id) ELSE Idle
    /\ UNCHANGED <<dirs, file, deadman, process, boot, history, exposed, swaps, crashes>>

OpenState ==
    /\ caller.pc = "checked"
    /\ file' = Torn
    /\ caller' = Step("writing", caller.id)
    /\ UNCHANGED <<dirs, deadman, process, boot, history, exposed, swaps, crashes>>

WriteState ==
    /\ caller.pc = "writing"
    /\ file' = caller.id
    /\ caller' = Step("written", caller.id)
    /\ UNCHANGED <<dirs, deadman, process, boot, history, exposed, swaps, crashes>>

WriteStateFails ==
    /\ caller.pc = "writing"
    /\ caller' = Idle
    /\ UNCHANGED <<dirs, file, deadman, process, boot, history, exposed, swaps, crashes>>

\* Mutant of Arm: the deadman is not armed.
ArmSkipped ==
    /\ caller.pc = "written"
    /\ caller' = Step("armed", caller.id)
    /\ UNCHANGED <<dirs, file, deadman, process, boot, history, exposed, swaps, crashes>>

Arm ==
    /\ caller.pc = "written" /\ deadman.st = "off"
    /\ deadman' = [st |-> "armed", id |-> caller.id]
    /\ caller' = Step("armed", caller.id)
    /\ UNCHANGED <<dirs, file, process, boot, history, exposed, swaps, crashes>>

\* sd.arm raises; when it was its own timeout, the unit may exist all the same.
ArmFails ==
    /\ caller.pc = "written"
    /\ file' = Absent
    /\ caller' = Idle
    /\ \/ UNCHANGED deadman
       \/ deadman.st = "off" /\ deadman' = [st |-> "armed", id |-> caller.id]
    /\ UNCHANGED <<dirs, process, boot, history, exposed, swaps, crashes>>

RenameLive ==
    /\ caller.pc = "armed"
    /\ live' = Absent /\ old' = [old EXCEPT ![caller.id] = live]
    /\ caller' = Step("moved", caller.id)
    /\ UNCHANGED <<candidate, file, deadman, process, boot, history, exposed, swaps, crashes>>

RenameCandidate ==
    /\ caller.pc = "moved"
    /\ live' = caller.id /\ candidate' = candidate \ {caller.id}
    /\ caller' = Step("swapped", caller.id)
    /\ UNCHANGED <<old, file, deadman, process, boot, history, exposed, swaps, crashes>>

\* Either rename raises: disarm, clear the state file, re-raise.
RenameFails ==
    /\ caller.pc \in {"armed", "moved"}
    /\ Disarm
    /\ file' = Absent
    /\ caller' = Idle
    /\ exposed' = (exposed \/ caller.pc = "moved")
    /\ UNCHANGED <<dirs, process, boot, history, swaps, crashes>>

\* The same, but the disarm raises too: the deadman and the state file stay.
RenameFailsArmed ==
    /\ caller.pc \in {"armed", "moved"}
    /\ caller' = Idle
    /\ UNCHANGED <<dirs, file, deadman, process, boot, history, exposed, swaps, crashes>>

Exit ==
    /\ caller.pc = "swapped"
    /\ KillProcess
    /\ UNCHANGED <<dirs, file, deadman, code, history, exposed, swaps, crashes>>

Caller ==
    \/ CheckPending \/ OpenState \/ WriteState \/ WriteStateFails \/ Arm \/ ArmFails
    \/ RenameLive \/ RenameCandidate \/ RenameFails \/ RenameFailsArmed \/ Exit

----------------------------------------------------------------------------
(* The service.                                                            *)

\* systemd cannot start an interpreter that is not there.
Spawn ==
    /\ proc = "down" /\ live # Absent
    /\ proc' = "booting" /\ code' = live
    /\ boot' = Step("start", 0)
    /\ UNCHANGED <<dirs, file, deadman, caller, history, exposed, swaps, crashes>>

\* The lifespan creates the boot task before its yield ...
CreateTasks ==
    /\ proc = "booting"
    /\ proc' = "tasks"
    /\ UNCHANGED <<dirs, file, deadman, code, caller, boot, history, exposed, swaps, crashes>>

\* ... and only after it does the server accept requests.
Serve ==
    /\ proc = "tasks" /\ Works(code)
    /\ proc' = "serving"
    /\ UNCHANGED <<dirs, file, deadman, code, caller, boot, history, exposed, swaps, crashes>>

BootFails ==
    /\ proc \in {"booting", "tasks"} /\ ~Works(code)
    /\ KillProcess
    /\ UNCHANGED <<dirs, file, deadman, code, history, exposed, swaps, crashes>>

Crash ==
    /\ proc # "down" /\ crashes < MaxCrashes
    /\ KillProcess
    /\ crashes' = crashes + 1
    /\ UNCHANGED <<dirs, file, deadman, code, history, exposed, swaps>>

----------------------------------------------------------------------------
(* _venv_boot_commit_task and boot_venv_commit (in an executor thread).    *)

BootRead ==
    /\ proc \in {"tasks", "serving"} /\ LoopFree
    /\ boot.pc = "start"
    /\ boot' = IF file \in Swaps THEN Step("read", file) ELSE Step("done", 0)
    /\ UNCHANGED <<dirs, file, deadman, process, caller, history, exposed, swaps, crashes>>

\* One GET /health, answered by the process itself.
ProbeOk == proc = "serving" /\ Works(code) /\ LoopFree

\* Mutant of Probe: a failed probe disarms too.
ProbeDisarming ==
    /\ boot.pc = "read"
    /\ boot' = Step(IF ProbeOk THEN "disarm" ELSE "failed", boot.id)
    /\ proven' = IF ProbeOk THEN proven \union {code} ELSE proven
    /\ Disarm
    /\ UNCHANGED <<dirs, file, process, caller, ledger, exposed, swaps, crashes>>

Probe ==
    /\ boot.pc = "read"
    /\ boot' = Step(IF ProbeOk THEN "disarm" ELSE "failed", boot.id)
    /\ proven' = IF ProbeOk THEN proven \union {code} ELSE proven
    /\ UNCHANGED <<dirs, file, deadman, process, caller, ledger, exposed, swaps,
                   crashes>>

\* Mutant of CommitDisarm: the deadman stays armed.
CommitWithoutDisarm ==
    /\ boot.pc = "disarm"
    /\ boot' = Step("reap", boot.id)
    /\ UNCHANGED <<dirs, file, deadman, process, caller, history, exposed, swaps, crashes>>

\* An exception of the disarm is logged, and the commit goes on, as it does when
\* the deadman has fired already.
CommitDisarm ==
    /\ boot.pc = "disarm"
    /\ Disarm \/ UNCHANGED deadman
    /\ exposed' = (exposed \/ deadman'.st # "off")
    /\ boot' = Step("reap", boot.id)
    /\ UNCHANGED <<dirs, file, process, caller, history, swaps, crashes>>

\* shutil.rmtree is not atomic.
StartReap ==
    /\ boot.pc = "reap"
    /\ old' = [old EXCEPT ![boot.id] = IF @ = Absent THEN Absent ELSE Partial]
    /\ boot' = Step(IF old[boot.id] = Absent THEN "unlink" ELSE "reaping", boot.id)
    /\ UNCHANGED <<live, candidate, file, deadman, process, caller, history, exposed, swaps,
                   crashes>>

EndReap ==
    /\ boot.pc = "reaping"
    /\ \/ old' = [old EXCEPT ![boot.id] = Absent]
       \/ UNCHANGED old
    /\ boot' = Step("unlink", boot.id)
    /\ UNCHANGED <<live, candidate, file, deadman, process, caller, history, exposed, swaps,
                   crashes>>

Unlink ==
    /\ boot.pc = "unlink"
    /\ file' = Absent
    /\ boot' = Step("committed", boot.id)
    /\ UNCHANGED <<dirs, deadman, process, caller, ledger, proven, exposed, swaps, crashes>>

\* record_venv_op_outcome: "committed" is not in the list of names, and becomes
\* "liveness_failed".  An exception of it is logged and forgotten.
RecordOutcome ==
    /\ boot.pc \in {"committed", "failed"} /\ LoopFree
    /\ ledger' \in {ledger, ledger \union {<<boot.id, "liveness_failed">>}}
    /\ boot' = Step("done", boot.id)
    /\ UNCHANGED <<dirs, file, deadman, process, caller, proven, exposed, swaps,
                   crashes>>

BootTask ==
    \/ BootRead \/ Probe \/ CommitDisarm \/ StartReap \/ EndReap \/ Unlink \/ RecordOutcome

----------------------------------------------------------------------------
(* The deadman.  The two renames take microseconds, its delay minutes.     *)

DeadmanFires ==
    /\ deadman.st = "armed"
    /\ caller.pc \notin {"armed", "moved", "swapped"}
    /\ deadman' = [deadman EXCEPT !.st = "firing"]
    /\ UNCHANGED <<dirs, file, process, caller, boot, history, exposed, swaps, crashes>>

\* rawos-venv-revert: rename the old venv back, if there is one ...
RevertVenv ==
    /\ deadman.st = "firing"
    /\ deadman' = [deadman EXCEPT !.st = "restarting"]
    /\ live' = IF old[deadman.id] = Absent THEN live ELSE old[deadman.id]
    /\ old' = [old EXCEPT ![deadman.id] = Absent]
    /\ UNCHANGED <<candidate, file, process, caller, boot, history, exposed, swaps, crashes>>

\* ... and restart the service.
RevertRestart ==
    /\ deadman.st = "restarting"
    /\ deadman' = DeadmanOff
    /\ KillProcess
    /\ UNCHANGED <<dirs, file, code, history, exposed, swaps, crashes>>

----------------------------------------------------------------------------

Next ==
    \/ \E autonomous \in BOOLEAN : Preflight(autonomous)
    \/ Caller
    \/ Spawn \/ CreateTasks \/ Serve \/ BootFails \/ Crash
    \/ BootTask
    \/ DeadmanFires \/ RevertVenv \/ RevertRestart

Spec == Init /\ [][Next]_vars

FairSpec ==
    /\ Spec
    /\ WF_vars(Caller) /\ WF_vars(BootTask)
    /\ WF_vars(Spawn) /\ WF_vars(CreateTasks) /\ WF_vars(Serve \/ BootFails)
    /\ WF_vars(DeadmanFires) /\ WF_vars(RevertVenv) /\ WF_vars(RevertRestart)

----------------------------------------------------------------------------
(* Properties.                                                             *)

\* The deadman can still put a whole venv back.
Covered == /\ deadman.st \in {"armed", "firing"}
           /\ old[deadman.id] \in proven

\* I-VENV3: from arming to _exit the call's own deadman is armed, however arms,
\* disarms, renames and earlier swaps failed.
SwapCovered ==
    caller.pc \in {"armed", "moved", "swapped"} =>
        deadman = [st |-> "armed", id |-> caller.id]

\* I-VENV1, I-VENV3: whenever the service could not start again from the live
\* venv, or the live venv has not been proven, the deadman is there to put a
\* proven one back, unless a swap failed between its renames or a commit went on
\* without having stopped the deadman.
VenvRecoverable == live \notin proven => Covered \/ exposed

\* boot_venv_commit removes the only way back only when there is no need of it:
\* what it starts to delete is never the one proven venv.
ReapsOnlyReplaced ==
    [][\A i \in Swaps : old[i] \in Venvs /\ old'[i] = Partial =>
          exposed \/ (live \in proven /\ deadman.st = "off")]_vars

\* The boot task runs "AFTER the ASGI app is accepting requests so the /health
\* probe below succeeds": a venv that works is not asked before it can answer.
ProbesWhenServing ==
    [][boot.pc = "read" /\ boot'.pc \in {"disarm", "failed"} /\ Works(code) =>
          proc = "serving"]_vars

\* A venv that has not been proven does not stay live: it is proven by the probe
\* or renamed away by the deadman, with the same two exceptions.
UnprovenResolves == live \notin proven ~> live \in proven \/ exposed

=============================================================================
