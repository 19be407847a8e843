--------------------------- MODULE VenvSwapProofs ----------------------------
(***************************************************************************)
(* Theorems about VenvSwap, for any number of swaps and crashes and any    *)
(* set of candidates that work.                                            *)
(***************************************************************************)
EXTENDS VenvSwap, TLAPS

\* The boot task between reading state.json and removing it.
Committing == {"disarm", "reap", "reaping", "unlink"}
Resolving == {"read"} \union Committing

\* state.json is there while the boot task resolves it, and stops every call at its
\* check; a call is only made by a process that serves, once the boot task has looked.
BootExclusive ==
    /\ boot.pc \in Resolving => file = boot.id /\ caller.pc \in {"idle", "proven"}
    /\ boot.pc \in Resolving \union {"committed", "failed"} => boot.id \in Swaps
    /\ caller.pc # "idle" => boot.pc # "start" /\ proc = "serving"

\* Swaps are numbered in order: nothing has been moved to the name of the present one.
Fresh ==
    /\ caller.pc # "idle" => caller.id = swaps /\ caller.id \in Swaps
    /\ caller.pc \in {"proven", "checked", "writing", "written", "armed"} => old[caller.id] = Absent
    /\ \A i \in Swaps : i > swaps => old[i] = Absent
    /\ caller.pc = "moved" => live = Absent
    /\ deadman.st # "off" => deadman.id \in Swaps

SwapInv == TypeOK /\ BootExclusive /\ Fresh /\ SwapCovered

\* What the deadman would rename back is proven or is not there.
DeadmanSafe == deadman.st \in {"armed", "firing"} => old[deadman.id] \in proven \union {Absent}

\* The venv that the process is asked about is the live one, unless the deadman has
\* put a proven one there meanwhile.
ProbedIsLive ==
    /\ proc # "down" /\ boot.pc \in {"start", "read"} => live \in proven \union {code}
    /\ boot.pc \in Committing => live \in proven

\* The old venv is only reaped when nothing would rename it back.
ReapedIsLoose == boot.pc \in Committing \ {"disarm"} => deadman.st = "off"

RecoverInv ==
    ~exposed =>
        /\ live \in proven \/ Covered
        /\ DeadmanSafe /\ ProbedIsLive /\ ReapedIsLoose
        /\ caller.pc = "armed" => live \in proven

Inv == SwapInv /\ RecoverInv

-----------------------------------------------------------------------------
\* The process starts with venv 0, and nothing else is there.
LEMMA InvInit == Init => Inv
  <1> SUFFICES ASSUME Init PROVE Inv
    OBVIOUS
  <1>1. TypeOK
    <2>1. 0 \in Venvs /\ 0 \in 0..MaxSwaps /\ 0 \in 0..MaxCrashes
      BY VenvAssumption DEF Venvs
    <2>2. old \in [Swaps -> Venvs \union {Absent, Partial}]
      BY DEF Init
    <2> QED
      BY <2>1, <2>2 DEF Init, TypeOK, Idle, Step, DeadmanOff, CallerPcs, BootPcs
  <1>2. BootExclusive /\ Fresh /\ SwapCovered
    BY DEF Init, BootExclusive, Fresh, SwapCovered, Idle, Step, DeadmanOff, Resolving, Committing
  <1>3. RecoverInv
    BY DEF Init, RecoverInv, DeadmanSafe, ProbedIsLive, ReapedIsLoose, Idle, Step, DeadmanOff,
           Resolving, Committing
  <1> QED
    BY <1>1, <1>2, <1>3 DEF Inv, SwapInv

\* Every step keeps the types.
LEMMA TypeStep == SwapInv /\ [Next]_vars => TypeOK'
  <1> SUFFICES ASSUME SwapInv, [Next]_vars PROVE TypeOK'
    OBVIOUS
  <1>a. 0 \in Venvs /\ Swaps \subseteq Venvs /\ Good \subseteq Venvs /\ MaxSwaps \in Nat /\ MaxCrashes \in Nat
    BY VenvAssumption DEF Venvs, Swaps
  <1> USE <1>a DEF SwapInv, BootExclusive, Fresh, TypeOK, Resolving, Committing, dirs, process, history,
                  Idle, Step, DeadmanOff, CallerPcs, BootPcs
  <1>1. ASSUME NEW autonomous \in BOOLEAN, Preflight(autonomous) PROVE TypeOK'
    <2>1. swaps + 1 \in Swaps /\ swaps + 1 \in 0..MaxSwaps
      BY <1>1 DEF Preflight, Swaps
    <2> QED
      BY <1>1, <2>1 DEF Preflight, BuildCandidate
  <1>2. CASE CheckPending
    BY <1>2 DEF CheckPending
  <1>3. CASE OpenState
    BY <1>3 DEF OpenState
  <1>4. CASE WriteState
    BY <1>4 DEF WriteState
  <1>5. CASE WriteStateFails
    BY <1>5 DEF WriteStateFails
  <1>6. CASE Arm
    BY <1>6 DEF Arm
  <1>7. CASE ArmFails
    BY <1>7 DEF ArmFails
  <1>8. CASE RenameLive
    BY <1>8 DEF RenameLive
  <1>9. CASE RenameCandidate
    BY <1>9 DEF RenameCandidate
  <1>10. CASE RenameFails
    BY <1>10 DEF RenameFails, Disarm
  <1>11. CASE RenameFailsArmed
    BY <1>11 DEF RenameFailsArmed
  <1>12. CASE Exit
    BY <1>12 DEF Exit, KillProcess
  <1>13. CASE Spawn
    BY <1>13 DEF Spawn
  <1>14. CASE CreateTasks
    BY <1>14 DEF CreateTasks
  <1>15. CASE Serve
    BY <1>15 DEF Serve
  <1>16. CASE BootFails
    BY <1>16 DEF BootFails, KillProcess
  <1>17. CASE Crash
    BY <1>17 DEF Crash, KillProcess
  <1>18. CASE BootRead
    BY <1>18 DEF BootRead, LoopFree
  <1>19. CASE Probe
    BY <1>19 DEF Probe, ProbeOk, Works, LoopFree
  <1>20. CASE CommitDisarm
    BY <1>20 DEF CommitDisarm, Disarm
  <1>21. CASE StartReap
    BY <1>21 DEF StartReap
  <1>22. CASE EndReap
    BY <1>22 DEF EndReap
  <1>23. CASE Unlink
    BY <1>23 DEF Unlink
  <1>24. CASE RecordOutcome
    BY <1>24 DEF RecordOutcome
  <1>25. CASE DeadmanFires
    BY <1>25 DEF DeadmanFires
  <1>26. CASE RevertVenv
    BY <1>26 DEF RevertVenv
  <1>27. CASE RevertRestart
    BY <1>27 DEF RevertRestart, KillProcess
  <1>28. CASE UNCHANGED vars
    BY <1>28 DEF vars
  <1> QED
    BY <1>1, <1>2, <1>3, <1>4, <1>5, <1>6, <1>7, <1>8, <1>9, <1>10, <1>11, <1>12, <1>13,
       <1>14, <1>15, <1>16, <1>17, <1>18, <1>19, <1>20, <1>21, <1>22, <1>23, <1>24, <1>25,
       <1>26, <1>27, <1>28
       DEF Next, Caller, BootTask

-----------------------------------------------------------------------------
\* The boot task and a call past its check exclude each other, so that nothing but the
\* call's own error path stops the deadman it has armed.
LEMMA SwapStep == SwapInv /\ [Next]_vars => SwapInv'
  <1> SUFFICES ASSUME SwapInv, [Next]_vars PROVE SwapInv'
    OBVIOUS
  <1>a. TypeOK /\ TypeOK'
    BY TypeStep DEF SwapInv
  <1>b. /\ swaps \in Nat /\ \A n \in Swaps : n \in Nat
        /\ Absent \notin Swaps /\ Torn \notin Swaps
    <2>1. Swaps \subseteq Nat /\ Swaps \subseteq Venvs
      BY VenvAssumption DEF Swaps, Venvs
    <2>2. swaps \in Nat
      BY <1>a, VenvAssumption DEF TypeOK
    <2>3. Absent \notin Venvs /\ Torn \notin Venvs
      BY NotVenvs
    <2> QED
      BY <2>1, <2>2, <2>3
  <1>c. /\ old \in [Swaps -> Venvs \union {Absent, Partial}]
        /\ caller.pc \in CallerPcs /\ boot.pc \in BootPcs
        /\ deadman.st \in {"off", "armed", "firing", "restarting"}
        /\ deadman \in [st : {"off", "armed", "firing", "restarting"}, id : Venvs]
    BY <1>a DEF TypeOK
  <1> USE <1>a, <1>b, <1>c
      DEF SwapInv, BootExclusive, Fresh, SwapCovered, Resolving, Committing, dirs, process, history,
          Idle, Step, DeadmanOff, CallerPcs, BootPcs
  <1>1. ASSUME NEW autonomous \in BOOLEAN, Preflight(autonomous) PROVE SwapInv'
    <2>1. swaps + 1 \in Swaps
      BY <1>1, VenvAssumption DEF Preflight, Swaps
    <2> QED
      BY <1>1, <2>1 DEF Preflight, BuildCandidate
  <1>2. CASE CheckPending
    BY <1>2 DEF CheckPending
  <1>3. CASE OpenState
    BY <1>3 DEF OpenState
  <1>4. CASE WriteState
    BY <1>4 DEF WriteState
  <1>5. CASE WriteStateFails
    BY <1>5 DEF WriteStateFails
  <1>6. CASE Arm
    BY <1>6 DEF Arm
  <1>7. CASE ArmFails
    BY <1>7 DEF ArmFails
  <1>8. CASE RenameLive
    BY <1>8 DEF RenameLive
  <1>9. CASE RenameCandidate
    BY <1>9 DEF RenameCandidate
  <1>10. CASE RenameFails
    BY <1>10 DEF RenameFails, Disarm
  <1>11. CASE RenameFailsArmed
    BY <1>11 DEF RenameFailsArmed
  <1>12. CASE Exit
    BY <1>12 DEF Exit, KillProcess
  <1>13. CASE Spawn
    BY <1>13 DEF Spawn
  <1>14. CASE CreateTasks
    BY <1>14 DEF CreateTasks
  <1>15. CASE Serve
    BY <1>15 DEF Serve
  <1>16. CASE BootFails
    BY <1>16 DEF BootFails, KillProcess
  <1>17. CASE Crash
    BY <1>17 DEF Crash, KillProcess
  <1>18. CASE BootRead
    BY <1>18 DEF BootRead, LoopFree
  <1>19. CASE Probe
    BY <1>19 DEF Probe, ProbeOk, Works, LoopFree
  <1>20. CASE CommitDisarm
    BY <1>20 DEF CommitDisarm, Disarm
  <1>21. CASE StartReap
    BY <1>21 DEF StartReap
  <1>22. CASE EndReap
    BY <1>22 DEF EndReap
  <1>23. CASE Unlink
    BY <1>23 DEF Unlink
  <1>24. CASE RecordOutcome
    BY <1>24 DEF RecordOutcome
  <1>25. CASE DeadmanFires
    BY <1>25 DEF DeadmanFires
  <1>26. CASE RevertVenv
    BY <1>26 DEF RevertVenv
  <1>27. CASE RevertRestart
    BY <1>27 DEF RevertRestart, KillProcess
  <1>28. CASE UNCHANGED vars
    BY <1>28 DEF vars
  <1> QED
    BY <1>1, <1>2, <1>3, <1>4, <1>5, <1>6, <1>7, <1>8, <1>9, <1>10, <1>11, <1>12, <1>13,
       <1>14, <1>15, <1>16, <1>17, <1>18, <1>19, <1>20, <1>21, <1>22, <1>23, <1>24, <1>25,
       <1>26, <1>27, <1>28
       DEF Next, Caller, BootTask

\* The way back stays until the live venv is proven: a deadman is armed over a live
\* venv that is proven, and the old venv is only reaped after it has been stopped.
LEMMA RecoverStep == Inv /\ [Next]_vars => RecoverInv'
  <1> SUFFICES ASSUME Inv, [Next]_vars PROVE RecoverInv'
    OBVIOUS
  <1>a. TypeOK /\ SwapInv'
    BY SwapStep DEF Inv, SwapInv
  <1>b. /\ Absent \notin proven /\ exposed \in BOOLEAN
        /\ old \in [Swaps -> Venvs \union {Absent, Partial}]
        /\ caller.pc \in CallerPcs /\ boot.pc \in BootPcs
        /\ deadman.st \in {"off", "armed", "firing", "restarting"}
        /\ proc \in {"down", "booting", "tasks", "serving"}
        /\ deadman \in [st : {"off", "armed", "firing", "restarting"}, id : Venvs]
    BY <1>a, NotVenvs DEF TypeOK
  <1> USE <1>b
      DEF Inv, SwapInv, BootExclusive, Fresh, SwapCovered, RecoverInv, DeadmanSafe, ProbedIsLive, ReapedIsLoose,
          Covered, Resolving, Committing, dirs, process, history, Idle, Step, DeadmanOff,
          CallerPcs, BootPcs
  <1>1. ASSUME NEW autonomous \in BOOLEAN, Preflight(autonomous) PROVE RecoverInv'
    BY <1>1 DEF Preflight, BuildCandidate
  <1>2. CASE CheckPending
    BY <1>2 DEF CheckPending
  <1>3. CASE OpenState
    BY <1>3 DEF OpenState
  <1>4. CASE WriteState
    BY <1>4 DEF WriteState
  <1>5. CASE WriteStateFails
    BY <1>5 DEF WriteStateFails
  <1>6. CASE Arm
    BY <1>6 DEF Arm
  <1>7. CASE ArmFails
    BY <1>7 DEF ArmFails
  <1>8. CASE RenameLive
    BY <1>8 DEF RenameLive
  <1>9. CASE RenameCandidate
    BY <1>9 DEF RenameCandidate
  <1>10. CASE RenameFails
    BY <1>10 DEF RenameFails, Disarm
  <1>11. CASE RenameFailsArmed
    BY <1>11 DEF RenameFailsArmed
  <1>12. CASE Exit
    BY <1>12 DEF Exit, KillProcess
  <1>13. CASE Spawn
    BY <1>13 DEF Spawn
  <1>14. CASE CreateTasks
    BY <1>14 DEF CreateTasks
  <1>15. CASE Serve
    BY <1>15 DEF Serve
  <1>16. CASE BootFails
    BY <1>16 DEF BootFails, KillProcess
  <1>17. CASE Crash
    BY <1>17 DEF Crash, KillProcess
  <1>18. CASE BootRead
    BY <1>18 DEF BootRead, LoopFree
  <1>19. CASE Probe
    BY <1>19 DEF Probe, ProbeOk, Works, LoopFree
  <1>20. CASE CommitDisarm
    BY <1>20 DEF CommitDisarm, Disarm
  <1>21. CASE StartReap
    BY <1>21 DEF StartReap
  <1>22. CASE EndReap
    BY <1>22 DEF EndReap
  <1>23. CASE Unlink
    BY <1>23 DEF Unlink
  <1>24. CASE RecordOutcome
    BY <1>24 DEF RecordOutcome
  <1>25. CASE DeadmanFires
    BY <1>25 DEF DeadmanFires
  <1>26. CASE RevertVenv
    BY <1>26 DEF RevertVenv
  <1>27. CASE RevertRestart
    BY <1>27 DEF RevertRestart, KillProcess
  <1>28. CASE UNCHANGED vars
    BY <1>28 DEF vars
  <1> QED
    BY <1>1, <1>2, <1>3, <1>4, <1>5, <1>6, <1>7, <1>8, <1>9, <1>10, <1>11, <1>12, <1>13,
       <1>14, <1>15, <1>16, <1>17, <1>18, <1>19, <1>20, <1>21, <1>22, <1>23, <1>24, <1>25,
       <1>26, <1>27, <1>28
       DEF Next, Caller, BootTask

-----------------------------------------------------------------------------
\* All of it is invariant.
LEMMA Invariance == Spec => []Inv
  <1>1. Inv /\ [Next]_vars => Inv'
    BY SwapStep, RecoverStep DEF Inv
  <1> QED
    BY <1>1, InvInit, PTL DEF Spec

\* The type invariant, for any number of swaps and crashes (arm_and_swap_venv,
\* boot_venv_commit).
THEOREM TypeCorrect == Spec => []TypeOK
  <1>1. Inv => TypeOK
    BY DEF Inv, SwapInv
  <1> QED
    BY <1>1, Invariance, PTL

\* From arming to _exit the call's own deadman is armed (I-VENV3), whatever the boot
\* task of an earlier swap, the deadman and crashes do.
THEOREM SwapIsCovered == Spec => []SwapCovered
  <1>1. Inv => SwapCovered
    BY DEF Inv, SwapInv
  <1> QED
    BY <1>1, Invariance, PTL

\* While the live venv is missing or unproven the deadman holds a proven one to put
\* back (I-VENV1), but after a failure between the renames or a commit that could not
\* stop the deadman.
THEOREM VenvIsRecoverable == Spec => []VenvRecoverable
  <1>1. Inv => VenvRecoverable
    BY DEF Inv, RecoverInv, VenvRecoverable
  <1> QED
    BY <1>1, Invariance, PTL

\* A step that starts to delete a venv: it is the boot task's, after its disarm.
LEMMA ReapStep ==
  ASSUME Inv, [Next]_vars
  PROVE  \A i \in Swaps : old[i] \in Venvs /\ old'[i] = Partial =>
            exposed \/ (live \in proven /\ deadman.st = "off")
  <1> SUFFICES ASSUME NEW i \in Swaps, old[i] \in Venvs, old'[i] = Partial
               PROVE  exposed \/ (live \in proven /\ deadman.st = "off")
    OBVIOUS
  <1>1. Absent # Partial /\ Absent \notin Venvs /\ Partial \notin Venvs
    BY NotVenvs
  <1>2. old \in [Swaps -> Venvs \union {Absent, Partial}]
    BY DEF Inv, SwapInv, TypeOK
  <1>3. CASE UNCHANGED old
    BY <1>1, <1>3
  <1>4. CASE RenameLive
    BY <1>1, <1>2, <1>4 DEF RenameLive, Inv, SwapInv, Fresh, TypeOK, RecoverInv
  <1>5. CASE StartReap
    BY <1>5 DEF StartReap, Inv, RecoverInv, ProbedIsLive, ReapedIsLoose, Committing
  <1>6. CASE EndReap
    BY <1>1, <1>2, <1>6 DEF EndReap
  <1>7. CASE RevertVenv
    BY <1>1, <1>2, <1>7 DEF RevertVenv
  <1> QED
    BY <1>3, <1>4, <1>5, <1>6, <1>7
       DEF Next, Caller, BootTask, Preflight, BuildCandidate, CheckPending, OpenState, WriteState,
           WriteStateFails, Arm, ArmFails, RenameCandidate, RenameFails, RenameFailsArmed, Exit, Spawn,
           CreateTasks, Serve, BootFails, Crash, BootRead, Probe, CommitDisarm, Unlink, RecordOutcome,
           DeadmanFires, RevertRestart, vars, dirs

\* boot_venv_commit deletes an old venv only when the live one is proven and nothing
\* would rename the old one back.
THEOREM OnlyReplacedIsReaped == Spec => ReapsOnlyReplaced
  <1>1. Inv /\ [Next]_vars =>
          [\A i \in Swaps : old[i] \in Venvs /\ old'[i] = Partial =>
              exposed \/ (live \in proven /\ deadman.st = "off")]_vars
    BY ReapStep
  <1> QED
    BY <1>1, Invariance, PTL DEF Spec, ReapsOnlyReplaced

-----------------------------------------------------------------------------
(***************************************************************************)
(* The swaps implement CommitOrRevert: the live venv is what is changed on *)
(* trial; outside a trial it is proven, during one the venv that the       *)
(* deadman would rename back is what the trial would return to.            *)
(***************************************************************************)

Fallback == IF live \in proven \/ exposed THEN Torn ELSE old[deadman.id]

\* No command takes the feature out of the live venv.
Withdrawn(v) == v

Abstract == INSTANCE CommitOrRevert WITH
    Version <- Venvs \union {Absent}, Withdrawn <- Withdrawn,
    current <- live, fallback <- Fallback, None <- Torn

\* The one departure: the deadman had fired when the probe proved the new venv, and a
\* proven venv takes the place of another.
LateRevert == live \in proven /\ RevertVenv

SwapIsOnTrial == Abstract!Init /\ [][Abstract!Next \/ exposed' \/ LateRevert]_<<live, Fallback>>

\* The venvs that are there, run, or have been proven.
Known == proven \union {live, code} \union {old[i] : i \in Swaps}

\* Where the candidate of the call has not been renamed yet.
Unmoved == {"proven", "checked", "writing", "written", "armed", "moved"}

\* What is known has the number of a swap that has begun, and a candidate becomes known
\* when it is renamed.
Named ==
    /\ \A v \in Known \intersect Venvs : v <= swaps
    /\ caller.pc \in Unmoved => caller.id \notin Known

\* No step brings back a name: what is there afterwards was there before, or is the
\* candidate that has been renamed.
LEMMA NamedStep ==
  ASSUME Inv, Named, [Next]_vars
  PROVE  Named'
  <1>a. /\ TypeOK /\ TypeOK' /\ SwapInv'
        /\ Absent \notin Venvs /\ Partial \notin Venvs
        /\ \A v \in Venvs : v \in Nat
        /\ swaps \in Nat /\ MaxSwaps \in Nat
    BY SwapStep, NotVenvs, VenvAssumption DEF Inv, SwapInv, Venvs, TypeOK
  <1>b. /\ old \in [Swaps -> Venvs \union {Absent, Partial}]
        /\ caller.pc \in CallerPcs
        /\ caller.pc # "idle" => caller.id = swaps /\ caller.id \in Swaps
    BY <1>a DEF TypeOK, Inv, SwapInv, Fresh
  <1>1. ASSUME NEW autonomous \in BOOLEAN, Preflight(autonomous) PROVE Named'
    <2>1. UNCHANGED Known
      BY <1>1 DEF Preflight, BuildCandidate, Known, process
    <2>2. swaps' = swaps + 1 /\ caller'.id = swaps + 1 /\ swaps + 1 \in Venvs
      BY <1>a, <1>1 DEF Preflight, Step, Venvs
    <2>3. swaps + 1 \notin Known
      BY <1>a, <2>2 DEF Named
    <2> QED
      BY <1>a, <2>1, <2>2, <2>3 DEF Named
  <1>2. ASSUME Known' \subseteq Known \union {Absent, Partial}, UNCHANGED swaps,
               caller'.pc \in Unmoved => caller'.id = caller.id /\ caller.pc \in Unmoved
        PROVE  Named'
    <2>1. \A v \in Known' \intersect Venvs : v <= swaps'
      BY <1>a, <1>2 DEF Named
    <2>2. ASSUME caller'.pc \in Unmoved
          PROVE  caller'.id \notin Known'
      <3>1. caller'.id = caller.id /\ caller.id \notin Known /\ caller.id \in Swaps
        BY <1>b, <1>2, <2>2 DEF Named, Unmoved
      <3>2. caller.id \in Venvs
        BY <3>1, VenvAssumption DEF Swaps, Venvs
      <3> QED
        BY <1>a, <1>2, <3>1, <3>2
    <2> QED
      BY <2>1, <2>2 DEF Named
  <1>3. CASE CheckPending \/ OpenState \/ WriteState \/ WriteStateFails \/ Arm \/ ArmFails
              \/ RenameFails \/ RenameFailsArmed \/ Exit
    <2>1. UNCHANGED <<live, old, code, proven, swaps>>
      BY <1>3 DEF CheckPending, OpenState, WriteState, WriteStateFails, Arm, ArmFails, RenameFails,
                  RenameFailsArmed, Exit, KillProcess, dirs, process, history
    <2>2. caller'.pc \in Unmoved => caller'.id = caller.id /\ caller.pc \in Unmoved
      BY <1>3 DEF CheckPending, OpenState, WriteState, WriteStateFails, Arm, ArmFails, RenameFails,
                  RenameFailsArmed, Exit, KillProcess, Step, Idle, Unmoved
    <2>3. UNCHANGED Known
      BY <2>1 DEF Known
    <2> QED
      BY <1>2, <2>1, <2>2, <2>3
  <1>4. CASE RenameLive
    <2>1. \A i \in Swaps : old'[i] \in Known
      BY <1>b, <1>4 DEF RenameLive, Known
    <2>2. Known' \subseteq Known \union {Absent}
      BY <1>4, <2>1 DEF RenameLive, Known, process, history
    <2> QED
      BY <1>2, <1>4, <2>2 DEF RenameLive, Step, Unmoved
  <1>5. CASE RenameCandidate
    <2>1. Known' \subseteq Known \union {caller.id} /\ caller.id = swaps
      BY <1>b, <1>5 DEF RenameCandidate, Known, process, history
    <2>2. caller'.pc = "swapped" /\ UNCHANGED swaps
      BY <1>5 DEF RenameCandidate, Step
    <2>4. caller'.pc \notin Unmoved
      BY <2>2 DEF Unmoved
    <2>3. \A v \in Known' \intersect Venvs : v <= swaps'
      BY <1>a, <2>1, <2>2 DEF Named
    <2> QED
      BY <2>3, <2>4 DEF Named
  <1>6. CASE Spawn \/ Probe
    <2>1. Known' \subseteq Known
      BY <1>6 DEF Spawn, Probe, Known, dirs, process, history
    <2>2. UNCHANGED <<swaps, caller>>
      BY <1>6 DEF Spawn, Probe
    <2> QED
      BY <1>2, <2>1, <2>2
  <1>7. CASE StartReap \/ EndReap
    <2>1. \A i \in Swaps : old'[i] \in Known \union {Absent, Partial}
      BY <1>b, <1>7 DEF StartReap, EndReap, Known
    <2>2. Known' \subseteq Known \union {Absent, Partial}
      BY <1>7, <2>1 DEF StartReap, EndReap, Known, process, history
    <2>3. UNCHANGED <<swaps, caller>>
      BY <1>7 DEF StartReap, EndReap
    <2> QED
      BY <1>2, <2>2, <2>3
  <1>8. CASE RevertVenv
    <2>1. deadman.id \in Swaps
      BY <1>8 DEF RevertVenv, Inv, SwapInv, Fresh
    <2>2. live' \in Known /\ \A i \in Swaps : old'[i] \in Known \union {Absent}
      BY <1>b, <1>8, <2>1 DEF RevertVenv, Known
    <2>3. Known' \subseteq Known \union {Absent}
      BY <1>8, <2>2 DEF RevertVenv, Known, process, history
    <2>4. UNCHANGED <<swaps, caller>>
      BY <1>8 DEF RevertVenv
    <2> QED
      BY <1>2, <2>3, <2>4
  <1>9. CASE BootFails \/ Crash \/ RevertRestart
    <2>1. UNCHANGED <<live, old, code, proven, swaps>> /\ caller'.pc = "idle"
      BY <1>9 DEF BootFails, Crash, RevertRestart, KillProcess, Idle, dirs, history
    <2>2. UNCHANGED Known /\ caller'.pc \notin Unmoved
      BY <2>1 DEF Known, Unmoved
    <2> QED
      BY <1>2, <2>1, <2>2
  <1>10. CASE UNCHANGED <<dirs, code, proven, caller, swaps>>
    <2>1. UNCHANGED <<live, old, code, proven, caller, swaps>>
      BY <1>10 DEF dirs
    <2>2. UNCHANGED Known
      BY <2>1 DEF Known
    <2> QED
      BY <1>2, <2>1, <2>2
  <1> QED
    BY <1>1, <1>3, <1>4, <1>5, <1>6, <1>7, <1>8, <1>9, <1>10
       DEF Next, Caller, BootTask, CreateTasks, Serve, BootRead, CommitDisarm, Unlink, RecordOutcome,
           DeadmanFires, vars, process, history

\* What a step does to the live venv and the trial, in the terms of CommitOrRevert.
LEMMA StepRefines ==
  ASSUME Inv, Named, [Next]_vars
  PROVE  [Abstract!Next \/ exposed' \/ LateRevert]_<<live, Fallback>>
  <1> DEFINE Goal == [Abstract!Next \/ exposed' \/ LateRevert]_<<live, Fallback>>
  <1> SUFFICES ASSUME ~exposed' PROVE Goal
    OBVIOUS
  <1>a. /\ TypeOK /\ SwapInv /\ SwapInv' /\ RecoverInv /\ RecoverInv'
        /\ Absent \notin Venvs /\ Partial \notin Venvs /\ Torn \notin Venvs /\ Absent # Torn
        /\ Absent \notin proven /\ Torn \notin proven
        /\ old \in [Swaps -> Venvs \union {Absent, Partial}]
    BY SwapStep, RecoverStep, NotVenvs DEF Inv, SwapInv, TypeOK
  <1>b. live \notin proven /\ ~exposed =>
          Fallback = old[deadman.id] /\ Fallback \in proven /\ deadman.st \in {"armed", "firing"}
    BY <1>a DEF RecoverInv, Covered, Fallback
  <1>1. CASE exposed
    BY <1>1 DEF Next, Caller, BootTask, Preflight, BuildCandidate, CheckPending, OpenState, WriteState,
           WriteStateFails, Arm, ArmFails, RenameLive, RenameCandidate, RenameFails, RenameFailsArmed,
           Exit, Spawn, CreateTasks, Serve, BootFails, Crash, BootRead, Probe, CommitDisarm, StartReap,
           EndReap, Unlink, RecordOutcome, DeadmanFires, RevertVenv, RevertRestart, vars
  <1> SUFFICES ASSUME ~exposed PROVE Goal
    BY <1>1
  <1>2. CASE RenameLive
    <2>1. live \in proven /\ deadman.id = caller.id /\ caller.id \in Swaps
      BY <1>2, <1>a DEF RenameLive, RecoverInv, SwapInv, SwapCovered, Fresh
    <2>2. live' = Absent /\ live' \notin proven' /\ old'[deadman'.id] = live
      BY <1>2, <1>a, <2>1 DEF RenameLive, history
    <2>3. Fallback = Torn /\ Fallback' = live
      BY <2>1, <2>2 DEF Fallback
    <2> QED
      BY <2>2, <2>3 DEF Abstract!Next, Abstract!Try
  <1>3. CASE RenameCandidate
    <2>1. live = Absent /\ caller.id \in Swaps
      BY <1>3, <1>a DEF RenameCandidate, SwapInv, Fresh
    <2>2. live' = caller.id /\ caller.id \notin proven'
      BY <1>3 DEF RenameCandidate, Named, Unmoved, Known, history
    <2>3. Fallback' = Fallback /\ Fallback # Torn
      BY <1>3, <1>a, <1>b, <2>1, <2>2 DEF RenameCandidate, Fallback
    <2>4. caller.id \in Venvs
      BY <2>1, VenvAssumption DEF Swaps, Venvs
    <2> QED
      BY <2>2, <2>3, <2>4 DEF Abstract!Next, Abstract!Try
  <1>4. CASE Probe
    <2>1. CASE live \in proven \/ live \notin proven'
      BY <1>4, <2>1 DEF Probe, Fallback, dirs
    <2>2. CASE live \notin proven /\ live \in proven'
      <3>1. Fallback # Torn /\ Fallback' = Torn /\ UNCHANGED live
        BY <1>4, <1>a, <1>b, <2>2 DEF Probe, Fallback, dirs
      <3> QED
        BY <3>1 DEF Abstract!Next, Abstract!Keep
    <2> QED
      BY <2>1, <2>2
  <1>5. CASE RevertVenv
    <2>1. CASE live \in proven
      BY <1>5, <2>1 DEF LateRevert
    <2>2. CASE live \notin proven
      <3>1. live' = Fallback /\ live' \in proven' /\ Fallback # Torn
        BY <1>5, <1>a, <1>b, <2>2 DEF RevertVenv, history
      <3>2. Fallback' = Torn
        BY <3>1 DEF Fallback
      <3> QED
        BY <3>1, <3>2 DEF Abstract!Next, Abstract!Return
    <2> QED
      BY <2>1, <2>2
  <1>6. CASE StartReap \/ EndReap \/ CommitDisarm
    <2>1. live \in proven /\ UNCHANGED <<live, proven>>
      BY <1>6, <1>a DEF StartReap, EndReap, CommitDisarm, RecoverInv, ProbedIsLive, Committing, SwapInv,
                        BootExclusive, dirs, history
    <2> QED
      BY <2>1 DEF Fallback
  <1>7. CASE Arm \/ ArmFails
    <2>1. UNCHANGED <<live, old, proven>> /\ (UNCHANGED deadman \/ deadman.st = "off")
      BY <1>7 DEF Arm, ArmFails, dirs, history
    <2> QED
      BY <1>b, <2>1 DEF Fallback
  <1>8. CASE RenameFails
    <2>1. caller.pc = "armed" /\ live \in proven /\ UNCHANGED <<live, proven>>
      BY <1>8, <1>a DEF RenameFails, RecoverInv, dirs, history
    <2> QED
      BY <2>1 DEF Fallback
  <1>9. CASE RevertRestart
    <2>1. live \in proven /\ UNCHANGED <<live, proven>>
      BY <1>9, <1>b DEF RevertRestart, dirs, history
    <2> QED
      BY <2>1 DEF Fallback
  <1>10. CASE DeadmanFires
    <2>1. UNCHANGED <<live, old, proven>> /\ deadman'.id = deadman.id
      BY <1>10, <1>a DEF DeadmanFires, TypeOK, dirs, history
    <2> QED
      BY <2>1 DEF Fallback
  <1>11. CASE UNCHANGED <<live, old, proven, deadman>>
    BY <1>11 DEF Fallback
  <1> QED
    BY <1>2, <1>3, <1>4, <1>5, <1>6, <1>7, <1>8, <1>9, <1>10, <1>11
       DEF Next, Caller, BootTask, Preflight, BuildCandidate, CheckPending, OpenState, WriteState,
           WriteStateFails, RenameFailsArmed, Exit, Spawn, CreateTasks, Serve, BootFails, Crash,
           BootRead, Unlink, RecordOutcome, vars, dirs, history

\* Dependency swaps implement CommitOrRevert until a failure has taken the way back away:
\* from the first rename the live venv is on trial, and a probe keeps it or the deadman
\* renames back exactly the venv from before (arm_and_swap_venv, boot_venv_commit,
\* rawos-venv-revert).  The one departure is a deadman that fires beside a late probe.
THEOREM SwapImplementsCommitOrRevert == Spec => SwapIsOnTrial
  <1>1. Init => Named /\ Abstract!Init
    <2> SUFFICES ASSUME Init PROVE Named /\ Abstract!Init
      OBVIOUS
    <2>1. Known \subseteq {0, Absent}
      BY DEF Init, Known
    <2>2. Named
      BY <2>1, NotVenvs DEF Init, Named, Unmoved, Idle
    <2>3. 0 \in Venvs
      BY VenvAssumption DEF Venvs
    <2> QED
      BY <2>2, <2>3 DEF Init, Abstract!Init, Fallback
  <1>2. Inv /\ Named /\ [Next]_vars => Named'
    BY NamedStep
  <1>3. Inv /\ Named /\ [Next]_vars =>
          [Abstract!Next \/ exposed' \/ LateRevert]_<<live, Fallback>>
    BY StepRefines
  <1> QED
    BY <1>1, <1>2, <1>3, Invariance, PTL DEF Spec, SwapIsOnTrial

=============================================================================
