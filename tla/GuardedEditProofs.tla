-------------------------- MODULE GuardedEditProofs --------------------------
(***************************************************************************)
(* Theorems about GuardedEdit, for any PAM files, any contents and any     *)
(* number of installs, failures, kills, commits and uninstalls; among them *)
(* that it implements CommitOrRevert.                                      *)
(***************************************************************************)
EXTENDS GuardedEdit, TLAPS

\* From arming until the check has failed the timer is armed; while the snapshot is
\* being written back, and once the trial is over, it is off unless its stop has failed.
TimerFollows ==
    /\ pc \in {"armed", "writing", "written", "valid", "invalid"} => timer.st = "armed"
    /\ pc \in {"invalid_restore", "failed_restore"} /\ timer.st = "armed" => unstopped
    /\ base = None /\ (timer.st = "armed" \/ service.st = "restore") => unstopped

\* Of timer, revert and a busy installer, the revert is alone.
RevertAlone == timer.st = "armed" \/ Busy => service.st = "idle"

\* The front door's installer, timer and revert are about the drop-in, and the timer
\* that is armed while an installer is busy is that installer's.
OneTarget ==
    /\ Sshd => edit.target = Dropin /\ timer.target = Dropin /\ service.target = Dropin
    /\ Busy /\ timer.st = "armed" => timer.target = edit.target

\* An edit, a timer or a revert e could end the trial: the snapshot it holds is what
\* its file was before, and no other file has been changed.
WayBack(e) ==
    /\ base # None
    /\ base[e.target] = e.back
    /\ \A t \in Targets \ {e.target} : file[t] = base[t]

\* Until a slip, all who may write back a snapshot during a trial hold the way back.
WaysBack ==
    ~slipped =>
        /\ timer.st = "armed" /\ base # None => WayBack(timer)
        /\ service.st = "restore" /\ base # None => WayBack(service)
        /\ Busy => WayBack(edit)

Inv == TypeOK /\ TimerFollows /\ RevertAlone /\ OneTarget /\ UnprovenGuarded /\ WaysBack

-----------------------------------------------------------------------------
\* What the actions write is of the right type.
LEMMA Values ==
  /\ Absent \in Contents /\ Torn \in Contents /\ Edits \subseteq Contents
  /\ Dropin \in Targets /\ PamFiles \subseteq Targets
  /\ Idle.st = "idle" /\ Idle.target = Dropin /\ Idle.back = Absent
  /\ \A S : "idle" \in S => Idle \in [st : S, target : Targets, back : Contents]
  BY DEF Contents, Targets, Idle

\* The types are right at the start.
LEMMA TypeInit == Init => TypeOK
  <1>1. (CHOOSE c \in Edits : TRUE) \in Edits
    BY GuardedEditAssumption
  <1>2. Init => file \in [Targets -> Contents] /\ live \in Contents
    BY Values DEF Init
  <1>3. Init => timer \in [st : {"idle", "armed"}, target : Targets, back : Contents]
    BY Values DEF Init
  <1>4. Init => service \in [st : {"idle", "restore", "reload"}, target : Targets, back : Contents]
    BY Values DEF Init
  <1>5. Init => edit \in [target : Targets, new : Edits, back : Contents]
    BY <1>1, Values DEF Init
  <1> QED
    BY <1>2, <1>3, <1>4, <1>5 DEF Init, TypeOK, Pcs

\* Every step keeps the types.
LEMMA TypeStep == TypeOK /\ [Next]_vars => TypeOK'
  <1> SUFFICES ASSUME TypeOK, [Next]_vars PROVE TypeOK'
    OBVIOUS
  <1>1. ASSUME NEW t \in Targets, NEW c \in Edits, Capture(t, c) PROVE TypeOK'
    BY <1>1 DEF Capture, TypeOK, Pcs
  <1>2. CASE Arm
    BY <1>2, Values DEF Arm, Unit, StartTrial, TypeOK, Pcs
  <1>3. CASE ArmRaises
    <2>1. CASE UNCHANGED <<timer, base, slipped, unstopped>>
      BY <1>3, <2>1 DEF ArmRaises, TypeOK, Pcs
    <2>2. CASE timer' = Unit("armed", edit) /\ StartTrial
      BY <1>3, <2>2, Values DEF ArmRaises, Unit, StartTrial, TypeOK, Pcs
    <2> QED
      BY <1>3, <2>1, <2>2 DEF ArmRaises
  <1>4. CASE OpenFile
    BY <1>4, Values DEF OpenFile, TypeOK, Pcs
  <1>5. CASE WriteFile
    BY <1>5, Values DEF WriteFile, TypeOK, Pcs
  <1>6. CASE WriteRaises
    BY <1>6, Values DEF WriteRaises, TypeOK, Pcs
  <1>7. CASE Validate
    BY <1>7, Values DEF Validate, TypeOK, Pcs
  <1>8. CASE ProbeLogin
    BY <1>8, Values DEF ProbeLogin, TypeOK, Pcs
  <1>9. CASE Reload
    BY <1>9, Values DEF Reload, TypeOK, Pcs
  <1>10. CASE ReloadRaises
    BY <1>10, Values DEF ReloadRaises, TypeOK, Pcs
  <1>11. CASE Disarm
    BY <1>11, Values DEF Disarm, Stop, TimerOff, TypeOK, Pcs
  <1>12. CASE DisarmRaises
    BY <1>12, Values DEF DisarmRaises, TimerOff, TypeOK, Pcs
  <1>13. CASE Restore
    BY <1>13, Values DEF Restore, TypeOK, Pcs
  <1>14. CASE RestoreRaises
    BY <1>14, Values DEF RestoreRaises, TypeOK, Pcs
  <1>15. CASE Crash
    BY <1>15, Values DEF Crash, TypeOK, Pcs
  <1>16. CASE Commit
    BY <1>16, Values DEF Commit, Stop, TimerOff, TypeOK, Pcs
  <1>17. CASE CommitRaises
    BY <1>17, Values DEF CommitRaises, TypeOK, Pcs
  <1>18. CASE Uninstall
    BY <1>18, Values DEF Uninstall, TypeOK, Pcs
  <1>19. CASE Fire
    BY <1>19, Values DEF Fire, Unit, TypeOK, Pcs
  <1>20. CASE RevertFile
    BY <1>20, Values DEF RevertFile, Unit, TypeOK, Pcs
  <1>21. CASE RevertReload
    BY <1>21, Values, ZenonT(30) DEF RevertReload, TypeOK, Pcs
  <1>22. ASSUME NEW t \in PamFiles, ManageTarget(t) PROVE TypeOK'
    BY <1>22 DEF ManageTarget, TypeOK
  <1>23. CASE UNCHANGED vars
    BY <1>23 DEF vars, TypeOK
  <1> QED
    BY <1>1, <1>2, <1>3, <1>4, <1>5, <1>6, <1>7, <1>8, <1>9, <1>10, <1>11, <1>12, <1>13, <1>14,
       <1>15, <1>16, <1>17, <1>18, <1>19, <1>20, <1>21, <1>22, <1>23, Values
       DEF Next, Installer, FrontDoorInstall, ApprovedApply

-----------------------------------------------------------------------------
\* Who guards a trial.
GuardInv == TypeOK /\ TimerFollows /\ RevertAlone /\ OneTarget /\ UnprovenGuarded

\* Nobody guards at the start, and nothing is on trial.
LEMMA GuardInit == Init => GuardInv
  BY TypeInit, Values
     DEF Init, GuardInv, TimerFollows, RevertAlone, OneTarget, UnprovenGuarded, Guarded, Busy

\* A trial is handed from the installer to the timer and from there to the revert;
\* where nobody takes it over, the step is a slip.
LEMMA GuardStep == GuardInv /\ [Next]_vars => GuardInv'
  <1> SUFFICES ASSUME GuardInv, [Next]_vars PROVE GuardInv'
    OBVIOUS
  <1>a. TypeOK'
    BY TypeStep DEF GuardInv
  <1>b. /\ pc \in Pcs /\ slipped \in BOOLEAN /\ unstopped \in BOOLEAN
        /\ timer.st \in {"idle", "armed"} /\ service.st \in {"idle", "restore", "reload"}
        /\ file # None
    BY NoneIsNoContents DEF GuardInv, TypeOK
  <1> USE <1>a, <1>b
      DEF GuardInv, TimerFollows, RevertAlone, OneTarget, UnprovenGuarded, Guarded, Busy, Sshd, Pcs
  <1>1. ASSUME NEW t \in Targets, NEW c \in Edits, Capture(t, c) PROVE GuardInv'
    BY <1>1 DEF Capture, Admitted
  <1>2. CASE Arm
    BY <1>2, Values DEF Arm, Unit, StartTrial
  <1>3. CASE ArmRaises
    BY <1>3, Values DEF ArmRaises, Unit, StartTrial
  <1>4. CASE OpenFile
    BY <1>4, Values DEF OpenFile
  <1>5. CASE WriteFile
    BY <1>5, Values DEF WriteFile
  <1>6. CASE WriteRaises
    BY <1>6, Values DEF WriteRaises
  <1>7. CASE Validate
    BY <1>7, Values DEF Validate
  <1>8. CASE ProbeLogin
    BY <1>8, Values DEF ProbeLogin
  <1>9. CASE Reload
    BY <1>9, Values DEF Reload
  <1>10. CASE ReloadRaises
    BY <1>10, Values DEF ReloadRaises
  <1>11. CASE Disarm
    BY <1>11, Values DEF Disarm, Stop, TimerOff
  <1>12. CASE DisarmRaises
    BY <1>12, Values DEF DisarmRaises, TimerOff
  <1>13. CASE Restore
    BY <1>13, Values DEF Restore
  <1>14. CASE RestoreRaises
    BY <1>14, Values DEF RestoreRaises
  <1>15. CASE Crash
    BY <1>15, Values DEF Crash
  <1>16. CASE Commit
    BY <1>16, Values DEF Commit, Stop, TimerOff
  <1>17. CASE CommitRaises
    BY <1>17, Values DEF CommitRaises
  <1>18. CASE Uninstall
    BY <1>18, Values DEF Uninstall
  <1>19. CASE Fire
    BY <1>19, Values DEF Fire, Unit
  <1>20. CASE RevertFile
    BY <1>20, Values DEF RevertFile, Unit
  <1>21. CASE RevertReload
    BY <1>21, Values DEF RevertReload
  <1>22. ASSUME NEW t \in PamFiles, ManageTarget(t) PROVE GuardInv'
    BY <1>22 DEF ManageTarget
  <1>23. CASE UNCHANGED vars
    BY <1>23 DEF vars
  <1> QED
    BY <1>1, <1>2, <1>3, <1>4, <1>5, <1>6, <1>7, <1>8, <1>9, <1>10, <1>11, <1>12, <1>13, <1>14,
       <1>15, <1>16, <1>17, <1>18, <1>19, <1>20, <1>21, <1>22, <1>23, Values
       DEF Next, Installer, FrontDoorInstall, ApprovedApply

-----------------------------------------------------------------------------
\* No trial, no way back to keep.
LEMMA WaysInit == Init => WaysBack
  BY Values DEF Init, WaysBack, Busy

\* Arming makes the way back, because the trial starts there; the steps after it change
\* only the file on trial.
LEMMA WaysStep == Inv /\ [Next]_vars => WaysBack'
  <1> SUFFICES ASSUME Inv, [Next]_vars PROVE WaysBack'
    OBVIOUS
  <1>a. TypeOK /\ TypeOK'
    BY TypeStep DEF Inv
  <1>b. /\ pc \in Pcs /\ slipped \in BOOLEAN /\ edit.target \in Targets /\ edit.back \in Contents
        /\ timer.st \in {"idle", "armed"} /\ service.st \in {"idle", "restore", "reload"}
        /\ file \in [Targets -> Contents] /\ file' \in [Targets -> Contents]
        /\ base \in [Targets -> Contents] \union {None}
    BY <1>a DEF TypeOK
  <1> USE <1>b, NoneIsNoContents
      DEF Inv, TimerFollows, RevertAlone, OneTarget, UnprovenGuarded, Guarded, Busy, Sshd, Pcs,
          WaysBack, WayBack
  <1>1. ASSUME NEW t \in Targets, NEW c \in Edits, Capture(t, c) PROVE WaysBack'
    BY <1>1 DEF Capture, Admitted
  <1>2. CASE Arm
    BY <1>2, Values DEF Arm, Unit, StartTrial
  <1>3. CASE ArmRaises
    <2>1. CASE UNCHANGED <<timer, base, slipped, unstopped>>
      BY <1>3, <2>1 DEF ArmRaises
    <2>2. CASE /\ timer.st = "idle" /\ service.st = "idle"
               /\ timer' = Unit("armed", edit)
               /\ StartTrial
      BY <1>3, <2>2, Values DEF ArmRaises, Unit, StartTrial
    <2> QED
      BY <1>3, <2>1, <2>2 DEF ArmRaises
  <1>4. CASE OpenFile
    BY <1>4, Values DEF OpenFile
  <1>5. CASE WriteFile
    BY <1>5, Values DEF WriteFile
  <1>6. CASE WriteRaises
    BY <1>6, Values DEF WriteRaises
  <1>7. CASE Validate
    BY <1>7, Values DEF Validate
  <1>8. CASE ProbeLogin
    BY <1>8, Values DEF ProbeLogin
  <1>9. CASE Reload
    BY <1>9, Values DEF Reload
  <1>10. CASE ReloadRaises
    BY <1>10, Values DEF ReloadRaises
  <1>11. CASE Disarm
    BY <1>11, Values DEF Disarm, Stop, TimerOff
  <1>12. CASE DisarmRaises
    BY <1>12, Values DEF DisarmRaises, TimerOff
  <1>13. CASE Restore
    BY <1>13, Values DEF Restore
  <1>14. CASE RestoreRaises
    BY <1>14, Values DEF RestoreRaises
  <1>15. CASE Crash
    BY <1>15, Values DEF Crash
  <1>16. CASE Commit
    BY <1>16, Values DEF Commit, Stop, TimerOff
  <1>17. CASE CommitRaises
    BY <1>17, Values DEF CommitRaises
  <1>18. CASE Uninstall
    BY <1>18, Values DEF Uninstall
  <1>19. CASE Fire
    BY <1>19, Values DEF Fire, Unit
  <1>20. CASE RevertFile
    BY <1>20, Values DEF RevertFile, Unit
  <1>21. CASE RevertReload
    BY <1>21, Values DEF RevertReload
  <1>22. ASSUME NEW t \in PamFiles, ManageTarget(t) PROVE WaysBack'
    BY <1>22 DEF ManageTarget
  <1>23. CASE UNCHANGED vars
    BY <1>23 DEF vars
  <1> QED
    BY <1>1, <1>2, <1>3, <1>4, <1>5, <1>6, <1>7, <1>8, <1>9, <1>10, <1>11, <1>12, <1>13, <1>14,
       <1>15, <1>16, <1>17, <1>18, <1>19, <1>20, <1>21, <1>22, <1>23, Values
       DEF Next, Installer, FrontDoorInstall, ApprovedApply

-----------------------------------------------------------------------------
\* All of it is invariant.
LEMMA Invariance == Spec => []Inv
  <1>1. Init => Inv
    BY GuardInit, WaysInit DEF GuardInv, Inv
  <1>2. Inv /\ [Next]_vars => Inv'
    BY GuardStep, WaysStep DEF GuardInv, Inv
  <1> QED
    BY <1>1, <1>2, PTL DEF Spec

\* The type invariant, for any files and contents (install_with_deadman,
\* install_pam_edit_with_deadman).
THEOREM TypeCorrect == Spec => []TypeOK
  <1>1. Inv => TypeOK
    BY DEF Inv
  <1> QED
    BY <1>1, Invariance, PTL

\* An edit on trial always has a timer, a revert or an installer that is going to end
\* it, wherever the installer is killed or raises, but for the slips after the disarm.
THEOREM TrialIsGuarded == Spec => []UnprovenGuarded
  <1>1. Inv => UnprovenGuarded
    BY DEF Inv
  <1> QED
    BY <1>1, Invariance, PTL

\* Writing back a snapshot that is the way back restores the files from before.
LEMMA WriteBack ==
  ASSUME TypeOK, NEW e, WayBack(e), e.target \in Targets,
         file' = [file EXCEPT ![e.target] = e.back]
  PROVE  file' = base
  <1>1. base \in [Targets -> Contents] /\ file \in [Targets -> Contents]
    BY DEF TypeOK, WayBack
  <1>2. \A t \in Targets : file'[t] = base[t]
    BY <1>1 DEF WayBack
  <1> QED
    BY <1>1, <1>2

\* What a step does to the files and the trial, in the terms of CommitOrRevert.
LEMMA StepRefines ==
  ASSUME Inv, [Next]_vars
  PROVE  [Abstract!Next \/ LateRevert \/ slipped]_<<file, base>>
  <1>a. TypeOK /\ TypeOK'
    BY TypeStep DEF Inv
  <1>b. /\ file \in [Targets -> Contents] /\ file' \in [Targets -> Contents]
        /\ base \in [Targets -> Contents] \union {None}
        /\ edit.target \in Targets /\ service.target \in Targets
    BY <1>a DEF TypeOK
  <1>1. ASSUME UNCHANGED <<file, base>> PROVE [Abstract!Next \/ LateRevert \/ slipped]_<<file, base>>
    BY <1>1
  <1>2. ASSUME UNCHANGED file, base' = IF base = None THEN file ELSE base
        PROVE  [Abstract!Next \/ LateRevert \/ slipped]_<<file, base>>
    <2>1. Abstract!Try(file)
      BY <1>2 DEF Abstract!Try
    <2> QED
      BY <1>b, <2>1 DEF Abstract!Next
  <1>3. ASSUME UNCHANGED file, base' = None
        PROVE  [Abstract!Next \/ LateRevert \/ slipped]_<<file, base>>
    BY <1>3 DEF Abstract!Next, Abstract!Keep
  <1>4. CASE Arm \/ ArmRaises
    BY <1>1, <1>2, <1>4 DEF Arm, ArmRaises, StartTrial
  <1>5. CASE OpenFile \/ WriteFile
    <2>1. UNCHANGED base /\ Busy
      BY <1>5 DEF OpenFile, WriteFile, Busy
    <2>2. CASE slipped
      BY <2>2
    <2>3. CASE ~slipped
      <3>1. base # None
        BY <2>1, <2>3 DEF Inv, WaysBack, WayBack
      <3>2. Abstract!Try(file')
        BY <2>1, <3>1 DEF Abstract!Try
      <3> QED
        BY <1>b, <3>2 DEF Abstract!Next
    <2> QED
      BY <2>2, <2>3
  <1>6. CASE Restore
    <2>1. CASE slipped
      BY <2>1
    <2>2. CASE ~slipped
      <3>1. WayBack(edit)
        BY <1>6, <2>2 DEF Inv, WaysBack, Busy, Restore
      <3>2. file' = base /\ base' = None
        BY <1>6, <1>a, <1>b, <3>1, WriteBack DEF Restore
      <3> QED
        BY <3>1, <3>2 DEF Abstract!Next, Abstract!Return, WayBack
    <2> QED
      BY <2>1, <2>2
  <1>7. CASE RevertFile
    <2>1. CASE slipped
      BY <2>1
    <2>2. CASE ~slipped
      <3>1. CASE base = None
        BY <1>7, <3>1 DEF Inv, TimerFollows, RevertFile, LateRevert
      <3>2. CASE base # None
        <4>1. WayBack(service)
          BY <1>7, <2>2, <3>2 DEF Inv, WaysBack, RevertFile
        <4>2. file' = base /\ base' = None
          BY <1>7, <1>a, <1>b, <4>1, WriteBack DEF RevertFile
        <4> QED
          BY <4>1, <4>2 DEF Abstract!Next, Abstract!Return, WayBack
      <3> QED
        BY <3>1, <3>2
    <2> QED
      BY <2>1, <2>2
  <1>8. CASE Uninstall
    BY <1>8 DEF Uninstall, Uninstalled, Abstract!Next, Abstract!Withdraw
  <1>9. CASE Commit
    BY <1>1, <1>3, <1>9 DEF Commit
  <1>10. CASE WriteRaises \/ Validate \/ ProbeLogin \/ Reload \/ ReloadRaises \/ Disarm
              \/ DisarmRaises \/ RestoreRaises \/ Crash \/ CommitRaises \/ Fire \/ RevertReload
    BY <1>1, <1>10 DEF WriteRaises, Validate, ProbeLogin, Reload, ReloadRaises, Disarm, DisarmRaises,
                       RestoreRaises, Crash, CommitRaises, Fire, RevertReload
  <1>11. ASSUME NEW t \in Targets, NEW c \in Edits, Capture(t, c)
         PROVE  [Abstract!Next \/ LateRevert \/ slipped]_<<file, base>>
    BY <1>1, <1>11 DEF Capture
  <1>12. ASSUME NEW t \in PamFiles, ManageTarget(t)
         PROVE  [Abstract!Next \/ LateRevert \/ slipped]_<<file, base>>
    BY <1>1, <1>12 DEF ManageTarget
  <1>13. CASE UNCHANGED vars
    BY <1>1, <1>13 DEF vars
  <1> QED
    BY <1>4, <1>5, <1>6, <1>7, <1>8, <1>9, <1>10, <1>11, <1>12, <1>13, Values
       DEF Next, Installer, FrontDoorInstall, ApprovedApply

\* The front door and the PAM operator implement CommitOrRevert until a slip: what
\* the rollback, the timer and the revert write back is exactly the files from before
\* the trial, for any interleaving of installs, commits, uninstalls and kills; outside a
\* trial only a timer whose stop has failed unnoticed puts anything back.
THEOREM InstallersImplementCommitOrRevert == Spec => RevertsToBase
  <1>1. Init => Abstract!Init
    BY TypeInit DEF Init, Abstract!Init, TypeOK
  <1>2. Inv /\ [Next]_vars => [Abstract!Next \/ LateRevert \/ slipped]_<<file, base>>
    BY StepRefines
  <1> QED
    BY <1>1, <1>2, Invariance, PTL DEF Spec, RevertsToBase

=============================================================================
