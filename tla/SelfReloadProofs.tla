-------------------------- MODULE SelfReloadProofs ---------------------------
(***************************************************************************)
(* Theorems about SelfReload, for every value of its constants.            *)
(***************************************************************************)
EXTENDS SelfReload, TLAPS

\* What a thread holds and where the deadman aims are commits.
Shape ==
    /\ \A t \in Threads : thread[t].pc # "idle" =>
          thread[t].old \in Shas /\ thread[t].new \in Shas
    /\ deadman.st # "off" => deadman.target \in Shas

\* A process that is not up runs no thread, and its boot task has not started.
\* Until the boot task has looked at pending.json, nobody calls the funnel; while it
\* resolves a record, the record keeps every caller before arm_and_swap's check.
BootExclusive ==
    /\ proc # "up" => boot.pc = "start"
    /\ boot.pc = "start" => \A t \in Threads : thread[t].pc = "idle"
    /\ boot.pc \in {"resolve", "probing", "unlink"} =>
          /\ file.st = "record"
          /\ \A t \in Threads : thread[t].pc \in {"idle", "staged"}

\* ArmedThreadCovered, with the time that is certainly left.
Covered ==
    \A t \in Threads : thread[t].pc \in {"armed", "swapped"} =>
        /\ deadman.st = "armed"
        /\ deadman.left >= DeadmanDelay - GitTimeout
        /\ deadman.target = thread[t].old

\* The inductive invariant of the first theorem.
Inv == TypeOK /\ Shape /\ BootExclusive /\ Covered /\ OneSwapper

USE DEF Threads

\* The ladder's step yields a track record again.
LEMMA AdvanceType ==
    ASSUME NEW s \in TrackRecordState({}), NEW v \in BOOLEAN
    PROVE  AdvanceOperator(s, v) \in TrackRecordState({})
  BY ThresholdAssumption
  DEF AdvanceOperator, Advance, Regressed, WindowOpened, Credited, State, TrackRecordState,
      Outcomes, NoBranch

\* What a unit is made of, and what a disarm leaves of it.
LEMMA UnitFields ==
  ASSUME NEW d \in Deadmen
  PROVE  /\ d.st \in {"off", "armed", "firing", "restarting"} /\ d.left \in 0..DeadmanDelay
         /\ d.target \in Shas \union {None} /\ d.kept \in BOOLEAN
  BY DEF Deadmen
LEMMA DisarmLeaves ==
  ASSUME NEW d \in AfterDisarm
  PROVE  d = deadman \/ (deadman.st = "armed" /\ d = DeadmanOff)
  BY DEF AfterDisarm, Stopped

\* The unit stays of its type.
LEMMA UnitStep ==
  ASSUME TypeOK, Shape, [Next]_vars
  PROVE  deadman' \in Deadmen
  <1> USE ReloadAssumption DEF TypeOK
  <1>1. deadman \in Deadmen /\ DeadmanOff \in Deadmen
    BY DEF Deadmen, DeadmanOff, Deadman
  <1>2. \A sha \in Shas : Deadman("armed", DeadmanDelay, sha) \in Deadmen
    BY DEF Deadmen, Deadman
  <1>3. \A d \in AfterDisarm : d \in Deadmen
    BY <1>1, DisarmLeaves
  <1>4. ASSUME NEW t \in Threads, Arm(t) \/ ArmFails(t) PROVE deadman' \in Deadmen
    BY <1>1, <1>2, <1>4 DEF Arm, ArmFails, Shape
  <1>5. ASSUME NEW t \in Threads, ResetFails(t) \/ ResetFailsArmed(t) PROVE deadman' \in Deadmen
    BY <1>3, <1>5 DEF ResetFails, ResetFailsArmed, DisarmRaises, Disarm
  <1>6. CASE Resurrected \/ ResolveRaises \/ CommitRaises
    BY <1>1, <1>3, <1>6 DEF Resurrected, ResolveRaises, CommitRaises, DisarmRaises, Disarm
  <1>7. CASE Committed
    <2>1. PICK d \in AfterDisarm : deadman' = [d EXCEPT !.kept = d.st # "off"]
      BY <1>7 DEF Committed
    <2> QED
      BY <1>3, <2>1 DEF Deadmen
  <1>8. CASE DeadmanFires \/ RevertSource \/ RevertRestart \/ Tick
    BY <1>1, <1>8 DEF DeadmanFires, RevertSource, RevertRestart, Tick, Deadmen
  <1>9. CASE UNCHANGED deadman
    BY <1>1, <1>9
  <1> QED
    BY <1>4, <1>5, <1>6, <1>7, <1>8, <1>9
    DEF Next, Funnel, BootTask, vars, PreflightStage, CheckPending, OpenState, WriteState,
        WriteStateFails, ResetSource, Exit, Spawn, Ready, BootFails, Crash, BootRead,
        ForeignHead, StartProbing, LivenessFailed, Unlink, RecordOutcome, UpdateTrack,
        MergeMaster, MoveHead

\* The first invariant holds initially ...
LEMMA InvInit == Init => Inv
  <1> SUFFICES ASSUME Init PROVE Inv
    OBVIOUS
  <1> USE ReloadAssumption, ThresholdAssumption DEF Init, IdleThread, BootAt, DeadmanOff, Deadman
  <1>1. track \in TrackRecordState({})
    <2>1. /\ State(0, FALSE, FALSE, NoBranch, "none") \in TrackRecordState({})
          /\ State(GraduationThreshold, TRUE, FALSE, NoBranch, "merged_resolved")
                \in TrackRecordState({})
      BY DEF TrackRecordState, State, Outcomes
    <2> QED
      BY <2>1 DEF Untrusted
  <1>2. TypeOK
    BY <1>1 DEF TypeOK, Deadmen, NoFile, Files, ThreadPcs, BootPcs, Outcome
  <1>3. Shape /\ BootExclusive /\ Covered /\ OneSwapper
    BY DEF Shape, BootExclusive, Covered, OneSwapper
  <1> QED
    BY <1>2, <1>3 DEF Inv

\* ... and every step of a caller, of the boot task, of systemd and of git keeps it.
LEMMA InvNext == Inv /\ [Next]_vars => Inv'
  <1> SUFFICES ASSUME Inv, [Next]_vars PROVE Inv'
    OBVIOUS
  <1>u. deadman' \in Deadmen
    BY UnitStep DEF Inv
  <1> USE <1>u, UnitFields, DisarmLeaves
  <1> USE ReloadAssumption, NotShas
      DEF Inv, TypeOK, Shape, BootExclusive, Covered, OneSwapper, ThreadPcs, BootPcs,
          Outcome, source, pending, process, ledger, budget, IdleThread, BootAt, BootPending,
          DeadmanOff, Deadman
  <1>1. ASSUME NEW t \in Threads, NEW new \in Shas, PreflightStage(t, new) PROVE Inv'
    BY <1>1 DEF PreflightStage
  <1>2. ASSUME NEW t \in Threads, CheckPending(t) PROVE Inv'
    BY <1>2 DEF CheckPending, NoFile
  <1>3. ASSUME NEW t \in Threads, OpenState(t) PROVE Inv'
    BY <1>3 DEF OpenState, Goto, Files, TornFile
  <1>4. ASSUME NEW t \in Threads, WriteState(t) PROVE Inv'
    BY <1>4 DEF WriteState, Goto, Files, Record
  <1>5. ASSUME NEW t \in Threads, WriteStateFails(t) PROVE Inv'
    BY <1>5 DEF WriteStateFails
  <1>6. ASSUME NEW t \in Threads, Arm(t) PROVE Inv'
    BY <1>6 DEF Arm, Goto
  <1>7. ASSUME NEW t \in Threads, ArmFails(t) PROVE Inv'
    BY <1>7 DEF ArmFails, Files, NoFile
  <1>8. ASSUME NEW t \in Threads, ResetSource(t) PROVE Inv'
    BY <1>8 DEF ResetSource, Goto
  <1>9. ASSUME NEW t \in Threads, ResetFails(t) PROVE Inv'
    BY <1>9 DEF ResetFails, Disarm, Files, NoFile
  <1>31. ASSUME NEW t \in Threads, ResetFailsArmed(t) PROVE Inv'
    BY <1>31 DEF ResetFailsArmed, DisarmRaises, Disarm
  <1>10. ASSUME NEW t \in Threads, Exit(t) PROVE Inv'
    BY <1>10 DEF Exit, KillProcess
  <1>11. CASE Spawn
    BY <1>11 DEF Spawn
  <1>12. CASE Ready
    BY <1>12 DEF Ready
  <1>13. CASE BootFails
    BY <1>13 DEF BootFails, KillProcess
  <1>14. CASE Crash
    BY <1>14 DEF Crash, KillProcess
  <1>15. CASE BootRead
    BY <1>15 DEF BootRead, Files, NoFile, TornFile
  <1>16. CASE Resurrected
    BY <1>16 DEF Resurrected, Resolution, Disarm
  <1>32. CASE ResolveRaises
    BY <1>32 DEF ResolveRaises, DisarmRaises, Disarm
  <1>17. CASE ForeignHead
    BY <1>17 DEF ForeignHead, Resolution
  <1>18. CASE StartProbing
    BY <1>18 DEF StartProbing
  <1>19. CASE Committed
    BY <1>19 DEF Committed, Resolution
  <1>33. CASE CommitRaises
    BY <1>33 DEF CommitRaises
  <1>20. CASE LivenessFailed
    BY <1>20 DEF LivenessFailed, Resolution
  <1>21. CASE Unlink
    BY <1>21 DEF Unlink, Files, NoFile
  <1>22. CASE RecordOutcome
    BY <1>22 DEF RecordOutcome
  <1>23. CASE UpdateTrack
    <2>1. track' \in TrackRecordState({})
      BY <1>23, AdvanceType, ZenonT(30) DEF UpdateTrack
    <2> QED
      BY <1>23, <2>1 DEF UpdateTrack
  <1>24. CASE DeadmanFires
    BY <1>24 DEF DeadmanFires
  <1>25. CASE RevertSource
    BY <1>25 DEF RevertSource
  <1>26. CASE RevertRestart
    BY <1>26 DEF RevertRestart, KillProcess
  <1>27. CASE Tick
    BY <1>27 DEF Tick, GitOverdue
  <1>28. ASSUME NEW s \in Shas, MergeMaster(s) PROVE Inv'
    BY <1>28 DEF MergeMaster
  <1>29. ASSUME NEW s \in Shas, MoveHead(s) PROVE Inv'
    BY <1>29 DEF MoveHead
  <1>30. CASE UNCHANGED vars
    BY <1>30 DEF vars
  <1> QED
    BY <1>1, <1>2, <1>3, <1>4, <1>5, <1>6, <1>7, <1>8, <1>9, <1>10, <1>11, <1>12, <1>13,
       <1>14, <1>15, <1>16, <1>17, <1>18, <1>19, <1>20, <1>21, <1>22, <1>23, <1>24, <1>25,
       <1>26, <1>27, <1>28, <1>29, <1>30, <1>31, <1>32, <1>33
    DEF Next, Funnel, BootTask

\* TypeOK is an invariant: what the files, the unit, the threads and the boot task
\* hold is of the kind the code expects, whatever crashes, races and reverts occur.
THEOREM TypeCorrect == Spec => []TypeOK
  <1>1. Inv => TypeOK
    BY DEF Inv
  <1> QED
    BY InvInit, InvNext, <1>1, PTL DEF Spec

\* Mutual exclusion of arm_and_swap: however the two callers interleave and whenever
\* the process dies, at most one of them is between arming and _exit.  The argument:
\* only the caller that owns the unit's name is past Arm; the boot task, which also
\* disarms, never runs beside it, because the record it resolves stops callers at the
\* check of pending.json.
THEOREM SwapIsExclusive == Spec => []OneSwapper
  <1>1. Inv => OneSwapper
    BY DEF Inv
  <1> QED
    BY InvInit, InvNext, <1>1, PTL DEF Spec

\* A caller of arm_and_swap that is past arming has its deadman: it is armed, aims at
\* the commit the caller staged from and has time left.  The argument: nobody disarms
\* or arms the unit beside its owner, and git's timeout ends the reset before the timer
\* elapses.
THEOREM ArmedThreadIsCovered == Spec => []ArmedThreadCovered
  <1>1. Inv => ArmedThreadCovered
    BY ReloadAssumption, UnitFields DEF Inv, TypeOK, Covered, ArmedThreadCovered
  <1> QED
    BY InvInit, InvNext, <1>1, PTL DEF Spec

----------------------------------------------------------------------------
(***************************************************************************)
(* The owner's reloads.  With the autonomous path dormant (its default),   *)
(* nobody else moving HEAD and git resets that are not torn, unproven      *)
(* source is always under a deadman that aims at proven source.            *)
(***************************************************************************)

OwnerOnly == ~Autonomous /\ MaxMoves = 0 /\ ~ResetMayTear

\* pending.json says what the owner's call is doing.
FileMatches ==
    /\ thread["auto"].pc = "idle"
    /\ thread["owner"].pc = "checked" => file.st = "absent"
    /\ thread["owner"].pc = "writing" => file.st = "torn"
    /\ thread["owner"].pc \in {"written", "armed", "swapped"} =>
          /\ file.st = "record"
          /\ file.old = thread["owner"].old /\ file.new = thread["owner"].new
    /\ boot.pc \in {"resolve", "probing"} => boot.old = file.old /\ boot.new = file.new

\* What was staged is relative to HEAD, until a revert that also ends the process.
StagedFromHead ==
    thread["owner"].pc \notin {"idle", "swapped"} /\ deadman.st # "restarting" =>
        thread["owner"].old = head

\* Unproven source comes with the record of its own reload, so that the boot task
\* cannot take it for the old commit; and no call is under way on top of it.
UnprovenIsPending ==
    fallback # None =>
        /\ file.st = "record" /\ file.old = fallback /\ fallback # head
        /\ thread["owner"].pc \in {"idle", "staged", "swapped"}
        /\ boot.pc # "unlink"

\* The inductive invariant of the second theorem.
OwnerInv ==
    Inv /\ FileMatches /\ StagedFromHead /\ UnprovenIsPending /\ GuardedSwap
        /\ DeadmanAimsAtProven

\* The owner's invariant holds initially ...
LEMMA OwnerInvInit == OwnerOnly /\ Init => OwnerInv
  <1> SUFFICES ASSUME Init PROVE OwnerInv
    OBVIOUS
  <1>1. FileMatches /\ StagedFromHead
    BY DEF Init, FileMatches, StagedFromHead, IdleThread, BootAt
  <1>2. UnprovenIsPending /\ GuardedSwap /\ DeadmanAimsAtProven
    BY DEF Init, UnprovenIsPending, GuardedSwap, DeadmanAimsAtProven, DeadmanOff, Deadman
  <1> QED
    BY <1>1, <1>2, InvInit DEF OwnerInv

\* ... and, with the autonomous path dormant, every step keeps it.
LEMMA OwnerInvNext == OwnerOnly /\ OwnerInv /\ [Next]_vars => OwnerInv'
  <1> SUFFICES ASSUME OwnerOnly, OwnerInv, [Next]_vars
               PROVE  (FileMatches /\ StagedFromHead /\ UnprovenIsPending /\ GuardedSwap
                          /\ DeadmanAimsAtProven)'
    BY InvNext DEF OwnerInv
  <1>u. deadman' \in Deadmen
    BY UnitStep DEF OwnerInv, Inv
  <1> USE <1>u, UnitFields, DisarmLeaves
  <1> DEFINE Goal == FileMatches /\ StagedFromHead /\ UnprovenIsPending /\ GuardedSwap
                        /\ DeadmanAimsAtProven
  <1> USE ReloadAssumption, NotShas
      DEF OwnerOnly, OwnerInv, Inv, TypeOK, Shape, BootExclusive, Covered, OneSwapper,
          FileMatches, StagedFromHead, UnprovenIsPending, GuardedSwap, DeadmanAimsAtProven,
          ThreadPcs, BootPcs, source, pending, process, ledger, budget, IdleThread, BootAt,
          BootPending, DeadmanOff, Deadman
  <1>1. ASSUME NEW t \in Threads, NEW new \in Shas, PreflightStage(t, new) PROVE Goal'
    BY <1>1 DEF PreflightStage, MayRequest
  <1>2. ASSUME NEW t \in Threads, CheckPending(t) PROVE Goal'
    BY <1>2 DEF CheckPending, NoFile
  <1>3. ASSUME NEW t \in Threads, OpenState(t) PROVE Goal'
    BY <1>3 DEF OpenState, Goto, TornFile
  <1>4. ASSUME NEW t \in Threads, WriteState(t) PROVE Goal'
    BY <1>4 DEF WriteState, Goto, Record
  <1>5. ASSUME NEW t \in Threads, WriteStateFails(t) PROVE Goal'
    BY <1>5 DEF WriteStateFails
  <1>6. ASSUME NEW t \in Threads, Arm(t) PROVE Goal'
    BY <1>6 DEF Arm, Goto
  <1>7. ASSUME NEW t \in Threads, ArmFails(t) PROVE Goal'
    BY <1>7 DEF ArmFails, NoFile
  <1>8. ASSUME NEW t \in Threads, ResetSource(t) PROVE Goal'
    BY <1>8 DEF ResetSource, Goto
  <1>9. ASSUME NEW t \in Threads, ResetFails(t) PROVE Goal'
    BY <1>9 DEF ResetFails, Disarm, NoFile
  <1>26. ASSUME NEW t \in Threads, ResetFailsArmed(t) PROVE Goal'
    BY <1>26 DEF ResetFailsArmed, DisarmRaises, Disarm
  <1>10. ASSUME NEW t \in Threads, Exit(t) PROVE Goal'
    BY <1>10 DEF Exit, KillProcess
  <1>11. CASE Spawn \/ Ready
    BY <1>11 DEF Spawn, Ready
  <1>12. CASE BootFails \/ Crash
    BY <1>12 DEF BootFails, Crash, KillProcess
  <1>13. CASE BootRead
    BY <1>13 DEF BootRead
  <1>14. CASE Resurrected
    BY <1>14 DEF Resurrected, Resolution, Disarm
  <1>27. CASE ResolveRaises
    BY <1>27 DEF ResolveRaises, DisarmRaises, Disarm
  <1>15. CASE ForeignHead \/ StartProbing \/ LivenessFailed
    BY <1>15 DEF ForeignHead, StartProbing, LivenessFailed, Resolution
  <1>16. CASE Committed
    <2>1. PICK d \in AfterDisarm : deadman' = [d EXCEPT !.kept = d.st # "off"]
      BY <1>16 DEF Committed
    <2>2. deadman'.st # "off" => deadman'.kept
      BY <2>1 DEF Deadmen
    <2> QED
      BY <1>16, <2>2 DEF Committed, Resolution
  <1>28. CASE CommitRaises
    BY <1>28 DEF CommitRaises
  <1>17. CASE Unlink
    BY <1>17 DEF Unlink, NoFile
  <1>18. CASE RecordOutcome \/ UpdateTrack
    BY <1>18 DEF RecordOutcome, UpdateTrack
  <1>19. CASE DeadmanFires
    BY <1>19 DEF DeadmanFires
  <1>20. CASE RevertSource
    BY <1>20 DEF RevertSource
  <1>21. CASE RevertRestart
    BY <1>21 DEF RevertRestart, KillProcess
  <1>22. CASE Tick
    BY <1>22 DEF Tick
  <1>23. ASSUME NEW s \in Shas, MergeMaster(s) PROVE Goal'
    BY <1>23 DEF MergeMaster
  <1>24. ASSUME NEW s \in Shas, MoveHead(s) PROVE Goal'
    BY <1>24 DEF MoveHead
  <1>25. CASE UNCHANGED vars
    BY <1>25 DEF vars
  <1> QED
    BY <1>1, <1>2, <1>3, <1>4, <1>5, <1>6, <1>7, <1>8, <1>9, <1>10, <1>11, <1>12, <1>13,
       <1>14, <1>15, <1>16, <1>17, <1>18, <1>19, <1>20, <1>21, <1>22, <1>23, <1>24, <1>25,
       <1>26, <1>27, <1>28
    DEF Next, Funnel, BootTask

\* The deadman's promise (I-SR2) for the owner's reloads, over crashes at any point,
\* failing or late arms, slow boots and reverts: unproven source is always under a
\* deadman.
THEOREM OwnerSwapIsGuarded == OwnerOnly /\ Spec => []GuardedSwap
  <1> SUFFICES ASSUME OwnerOnly PROVE Spec => []GuardedSwap
    OBVIOUS
  <1>1. OwnerInv => GuardedSwap
    BY DEF OwnerInv
  <1>2. Init => OwnerInv
    BY OwnerInvInit
  <1>3. OwnerInv /\ [Next]_vars => OwnerInv'
    BY OwnerInvNext
  <1> QED
    BY <1>1, <1>2, <1>3, PTL DEF Spec

\* What the revert script would go back to is proven: for the owner's reloads the deadman
\* aims at proven source, whoever armed it and however often, while it waits and when it
\* runs; but for source committed with its deadman left on, because systemctl stop failed
\* and disarm() dropped its exit status, or because the revert had started.
THEOREM OwnerDeadmanIsAimed == OwnerOnly /\ Spec => []DeadmanAimsAtProven
  <1> SUFFICES ASSUME OwnerOnly PROVE Spec => []DeadmanAimsAtProven
    OBVIOUS
  <1>1. OwnerInv => DeadmanAimsAtProven
    BY DEF OwnerInv
  <1>2. Init => OwnerInv
    BY OwnerInvInit
  <1>3. OwnerInv /\ [Next]_vars => OwnerInv'
    BY OwnerInvNext
  <1> QED
    BY <1>1, <1>2, <1>3, PTL DEF Spec

----------------------------------------------------------------------------
(***************************************************************************)
(* The owner's reloads implement CommitOrRevert: HEAD is what is changed   *)
(* on trial, the replaced HEAD what the trial would return to.             *)
(***************************************************************************)

\* No command removes self-reload from the source.
Withdrawn(sha) == sha

Abstract == INSTANCE CommitOrRevert WITH
    Version <- Shas, Withdrawn <- Withdrawn,
    current <- head, fallback <- fallback, None <- None

\* The one departure: the source was committed with its deadman left on, and the revert
\* script takes proven source back.
LateRevert == fallback = None /\ deadman.kept /\ RevertSource

ReloadIsOnTrial == Abstract!Init /\ [][Abstract!Next \/ LateRevert]_<<head, fallback>>

\* What a step does to HEAD and the trial, in the terms of CommitOrRevert.
LEMMA StepRefines ==
  ASSUME OwnerOnly, OwnerInv, [Next]_vars
  PROVE  [Abstract!Next \/ LateRevert]_<<head, fallback>>
  <1> DEFINE Goal == [Abstract!Next \/ LateRevert]_<<head, fallback>>
  <1> USE DEF OwnerOnly, source
  <1>1. ASSUME NEW t \in Threads, ResetSource(t) PROVE Goal
    <2>1. thread[t].new \in Shas /\ t = "owner"
      BY <1>1 DEF ResetSource, OwnerInv, Inv, Shape, FileMatches, Threads
    <2>2. fallback = None
      BY <1>1, <2>1 DEF ResetSource, OwnerInv, UnprovenIsPending
    <2>3. CASE head = thread[t].new
      BY <1>1, <2>3 DEF ResetSource
    <2>4. CASE head # thread[t].new
      <3>1. Abstract!Try(thread[t].new)
        BY <1>1, <2>2, <2>4 DEF ResetSource, Abstract!Try
      <3> QED
        BY <2>1, <3>1 DEF Abstract!Next
    <2> QED
      BY <2>3, <2>4
  <1>2. CASE Committed \/ CommitRaises
    <2>1. UNCHANGED <<head, fallback>> \/ (fallback' = None /\ UNCHANGED head)
      BY <1>2 DEF Committed, CommitRaises
    <2> QED
      BY <2>1 DEF Abstract!Next, Abstract!Keep
  <1>3. CASE RevertSource
    <2>1. CASE fallback = None /\ deadman.kept
      BY <1>3, <2>1 DEF LateRevert
    <2>2. CASE fallback = None /\ ~deadman.kept
      BY <1>3, <2>2 DEF RevertSource, OwnerInv, DeadmanAimsAtProven
    <2>3. CASE fallback # None
      BY <1>3, <2>3 DEF RevertSource, OwnerInv, DeadmanAimsAtProven, Abstract!Next, Abstract!Return
    <2> QED
      BY <2>1, <2>2, <2>3
  <1>4. ASSUME NEW t \in Threads, ResetFails(t) \/ ResetFailsArmed(t) PROVE Goal
    BY <1>4 DEF ResetFails, ResetFailsArmed
  <1>5. CASE Crash
    BY <1>5 DEF Crash
  <1>6. ASSUME NEW s \in Shas, MoveHead(s) \/ MergeMaster(s) PROVE Goal
    BY <1>6, ReloadAssumption DEF MoveHead, MergeMaster, OwnerInv, Inv, TypeOK
  <1>7. CASE UNCHANGED <<head, fallback>>
    BY <1>7
  <1> QED
    BY <1>1, <1>2, <1>3, <1>4, <1>5, <1>6, <1>7
    DEF Next, Funnel, BootTask, vars, PreflightStage, CheckPending, OpenState, WriteState,
        WriteStateFails, Arm, ArmFails, Exit, Spawn, Ready, BootFails, BootRead, Resurrected,
        ResolveRaises, ForeignHead, StartProbing, LivenessFailed, Unlink, RecordOutcome,
        UpdateTrack, DeadmanFires, RevertRestart, Tick

\* The owner's reload implements CommitOrRevert: source goes on trial, and a probe
\* keeps it or the revert returns to exactly the commit from before, over crashes,
\* failing commands and slow boots; with the one departure of source that
\* boot_liveness_commit reports as committed while its deadman is still on: the stop
\* failed unnoticed, or the probe answered after the timer had elapsed.
THEOREM ReloadImplementsCommitOrRevert == OwnerOnly /\ Spec => ReloadIsOnTrial
  <1> SUFFICES ASSUME OwnerOnly PROVE Spec => ReloadIsOnTrial
    OBVIOUS
  <1>1. Init => OwnerInv /\ Abstract!Init
    BY OwnerInvInit, ReloadAssumption DEF Init, Abstract!Init
  <1>2. OwnerInv /\ [Next]_vars => OwnerInv'
    BY OwnerInvNext
  <1>3. OwnerInv /\ [Next]_vars => [Abstract!Next \/ LateRevert]_<<head, fallback>>
    BY StepRefines
  <1> QED
    BY <1>1, <1>2, <1>3, PTL DEF Spec, ReloadIsOnTrial

=============================================================================
