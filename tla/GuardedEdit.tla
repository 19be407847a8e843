---------------------------- MODULE GuardedEdit ------------------------------
(***************************************************************************)
(* Configuration edits that could lock the owner out, installed under a    *)
(* deadman: the sshd drop-in of the front door (anima/kernel/frontdoor.py, *)
(* LinuxFrontDoor in arch/linux.py, the frontdoor commands of cli/main.py) *)
(* and the pam.d edits (anima/kernel/pam_operator.py, _manage_pam in       *)
(* tools.py).  Both follow one order: snapshot, arm a transient systemd    *)
(* timer, write, check; a failed check disarms and restores; the owner     *)
(* commits by disarming.  The front door also reloads sshd, PAM files are  *)
(* read at every login.                                                    *)
(***************************************************************************)
EXTENDS Naturals

CONSTANTS
    PamFiles,    \* the pam.d files the owner may name
    Protected,   \* _SELF_PROTECTED_PAM_FILES
    Dropin,      \* 50-anima-frontdoor.conf
    Edits,       \* contents an edit writes
    Absent,      \* the file does not exist
    Torn         \* opened for writing and not filled

ASSUME GuardedEditAssumption ==
    /\ Protected \subseteq PamFiles /\ Dropin \notin PamFiles
    /\ Edits # {} /\ Absent \notin Edits /\ Torn \notin Edits /\ Absent # Torn

Targets == PamFiles \union {Dropin}
Contents == Edits \union {Absent, Torn}

CONSTANT None   \* no trial under way
ASSUME NoneIsNoContents == None \notin [Targets -> Contents]

VARIABLES
    surface,  \* which of the two installers this behaviour is about
    file,     \* the configuration files
    live,     \* the drop-in as sshd read it at its last reload
    timer,    \* anima-frontdoor-revert.timer / anima-pam-revert.timer
    service,  \* the unit the timer starts, and how far it got
    pc, edit, \* the installing process: its next step, and what it installs
    managed,  \* managed_pam_targets
    base,     \* history: the files as they were when the edit's deadman was armed
    slipped,  \* history: a step has failed that the deadman does not cover
    unstopped \* history: a stop of the last timer armed has failed unnoticed

vars == <<surface, file, live, timer, service, pc, edit, managed, base, slipped, unstopped>>

Sshd == surface = "sshd"

Idle == [st |-> "idle", target |-> Dropin, back |-> Absent]
Unit(st, e) == [st |-> st, target |-> e.target, back |-> e.back]

Pcs == {"idle", "captured", "armed", "writing", "written", "valid",
        "invalid", "invalid_restore", "failed", "failed_restore"}

TypeOK ==
    /\ surface \in {"sshd", "pam"}
    /\ file \in [Targets -> Contents] /\ live \in Contents
    /\ timer \in [st : {"idle", "armed"}, target : Targets, back : Contents]
    /\ service \in [st : {"idle", "restore", "reload"}, target : Targets, back : Contents]
    /\ pc \in Pcs
    /\ edit \in [target : Targets, new : Edits, back : Contents]
    /\ managed \subseteq PamFiles
    /\ base \in [Targets -> Contents] \union {None}
    /\ slipped \in BOOLEAN /\ unstopped \in BOOLEAN

Init ==
    /\ surface \in {"sshd", "pam"}
    /\ file \in [Targets -> {Absent} \union Edits]
    /\ \A t \in Targets : (Sshd <=> t = Dropin) \/ file[t] = Absent
    /\ live = file[Dropin]
    /\ timer = Idle /\ service = Idle
    /\ pc = "idle"
    /\ edit = [target |-> Dropin, new |-> CHOOSE c \in Edits : TRUE, back |-> Absent]
    /\ managed = {}
    /\ base = None /\ slipped = FALSE /\ unstopped = FALSE

----------------------------------------------------------------------------
(* install_with_deadman / execute_approved_pam_edit and                    *)
(* install_pam_edit_with_deadman.                                          *)

\* The structural refusal of PamFileEdit, before anything is armed.
Refused(t) == t \in Protected

\* The allowlist, then the refusal.
Admitted(t) == IF Sshd THEN t = Dropin ELSE t \in managed /\ ~Refused(t)

\* Mutant of Capture: an absent file yields None instead of the sentinel.
CaptureAbsentAsNone(t, c) ==
    /\ pc = "idle" /\ Admitted(t)
    /\ edit' = [target |-> t, new |-> c, back |-> IF file[t] = Absent THEN None ELSE file[t]]
    /\ pc' = "captured"
    /\ UNCHANGED <<surface, file, live, timer, service, managed, base, slipped, unstopped>>

\* snapshot() / capture().
Capture(t, c) ==
    /\ pc = "idle" /\ Admitted(t)
    /\ edit' = [target |-> t, new |-> c, back |-> file[t]]
    /\ pc' = "captured"
    /\ UNCHANGED <<surface, file, live, timer, service, managed, base, slipped, unstopped>>

\* anima frontdoor install
FrontDoorInstall(c) == Sshd /\ Capture(Dropin, c)

\* manage_pam approved_apply
ApprovedApply(t, c) == ~Sshd /\ Capture(t, c)

\* The trial starts; the snapshot may be of a file that has changed since.
StartTrial ==
    /\ base' = IF base = None THEN file ELSE base
    /\ slipped' = (slipped \/ file[edit.target] # edit.back)
    /\ unstopped' = FALSE

\* systemd-run refuses a unit name that is in use.
Arm ==
    /\ pc = "captured" /\ timer.st = "idle" /\ service.st = "idle"
    /\ timer' = Unit("armed", edit)
    /\ StartTrial
    /\ pc' = "armed"
    /\ UNCHANGED <<surface, file, live, service, edit, managed>>

\* sd.arm raises outside the try.  If it was its own timeout the unit may exist.
ArmRaises ==
    /\ pc = "captured"
    /\ \/ UNCHANGED <<timer, base, slipped, unstopped>>
       \/ /\ timer.st = "idle" /\ service.st = "idle"
          /\ timer' = Unit("armed", edit)
          /\ StartTrial
    /\ pc' = "idle"
    /\ UNCHANGED <<surface, file, live, service, edit, managed>>

\* write_text / write_bytes open the file for writing, which truncates it ...
OpenFile ==
    /\ pc = "armed"
    /\ file' = [file EXCEPT ![edit.target] = Torn]
    /\ pc' = "writing"
    /\ UNCHANGED <<surface, live, timer, service, edit, managed, base, slipped, unstopped>>

\* ... and fill it, unless it has been removed meanwhile.
WriteFile ==
    /\ pc = "writing"
    /\ file' = [file EXCEPT ![edit.target] = IF @ = Torn THEN edit.new ELSE @]
    /\ pc' = "written"
    /\ UNCHANGED <<surface, live, timer, service, edit, managed, base, slipped, unstopped>>

WriteRaises ==
    /\ pc \in {"armed", "writing"}
    /\ pc' = "failed"
    /\ UNCHANGED <<surface, file, live, timer, service, edit, managed, base, slipped, unstopped>>

\* validate(): sshd -t, where an exception counts as False.
Validate ==
    /\ pc = "written" /\ Sshd
    /\ pc' \in {"valid", "invalid"}
    /\ UNCHANGED <<surface, file, live, timer, service, edit, managed, base, slipped, unstopped>>

\* verify(): a login with the probe key, where a timeout counts as False and any other
\* exception leaves the try.
ProbeLogin ==
    /\ pc = "written" /\ ~Sshd
    /\ pc' \in {"idle", "invalid", "failed"}
    /\ UNCHANGED <<surface, file, live, timer, service, edit, managed, base, slipped, unstopped>>

Reload ==
    /\ pc = "valid"
    /\ live' = file[Dropin]
    /\ pc' = "idle"
    /\ UNCHANGED <<surface, file, timer, service, edit, managed, base, slipped, unstopped>>

\* systemctl reload times out, before or after sshd has read the file.
ReloadRaises ==
    /\ pc = "valid"
    /\ live' \in {live, file[Dropin]}
    /\ pc' = "failed"
    /\ UNCHANGED <<surface, file, timer, service, edit, managed, base, slipped, unstopped>>

TimerOff == timer' = IF timer.st = "armed" THEN Idle ELSE timer

\* disarm() runs systemctl stop and drops its exit status: the timer is off, or the
\* command has failed and nobody knows.
Stop ==
    \/ TimerOff /\ UNCHANGED unstopped
    \/ timer.st = "armed" /\ unstopped' = TRUE /\ UNCHANGED timer

\* Mutant of Disarm: the branch raises without restoring.
DisarmWithoutRestore ==
    /\ pc \in {"invalid", "failed"}
    /\ Stop
    /\ pc' = "idle"
    /\ UNCHANGED <<surface, file, live, service, edit, managed, base, slipped>>

\* The rollback: disarm first, and go on to restore whatever came of it ...
Disarm ==
    /\ pc \in {"invalid", "failed"}
    /\ Stop
    /\ pc' = IF pc = "invalid" THEN "invalid_restore" ELSE "failed_restore"
    /\ UNCHANGED <<surface, file, live, service, edit, managed, base, slipped>>

\* ... and systemctl stop may time out: from the validation branch control passes to
\* the except clause, from there the exception leaves with nothing restored.
DisarmRaises ==
    /\ pc \in {"invalid", "failed"}
    /\ TimerOff \/ UNCHANGED timer
    /\ slipped' = (slipped \/ (pc = "failed" /\ timer'.st = "idle"))
    /\ pc' = IF pc = "invalid" THEN "failed" ELSE "idle"
    /\ UNCHANGED <<surface, file, live, service, edit, managed, base, unstopped>>

\* Mutant of Restore: the copy that was to be installed is written back.
RestoreNew ==
    /\ pc \in {"invalid_restore", "failed_restore"}
    /\ file' = [file EXCEPT ![edit.target] = edit.new]
    /\ base' = None
    /\ pc' = "idle"
    /\ UNCHANGED <<surface, live, timer, service, edit, managed, slipped, unstopped>>

Restore ==
    /\ pc \in {"invalid_restore", "failed_restore"}
    /\ file' = [file EXCEPT ![edit.target] = edit.back]
    /\ base' = None
    /\ pc' = "idle"
    /\ UNCHANGED <<surface, live, timer, service, edit, managed, slipped, unstopped>>

RestoreRaises ==
    /\ pc \in {"invalid_restore", "failed_restore"}
    /\ pc' = IF pc = "invalid_restore" THEN "failed" ELSE "idle"
    /\ slipped' = (slipped \/ (pc = "failed_restore" /\ timer.st = "idle"))
    /\ UNCHANGED <<surface, file, live, timer, service, edit, managed, base, unstopped>>

Installer ==
    \/ Arm \/ ArmRaises \/ OpenFile \/ WriteFile \/ WriteRaises \/ Validate \/ ProbeLogin
    \/ Reload \/ ReloadRaises \/ Disarm \/ DisarmRaises \/ Restore \/ RestoreRaises

\* The installing process is killed.  Once the timer is off there is no way back.
Crash ==
    /\ pc # "idle"
    /\ pc' = "idle"
    /\ slipped' = (slipped \/ (pc \in {"failed", "invalid_restore", "failed_restore"}
                               /\ timer.st = "idle"))
    /\ UNCHANGED <<surface, file, live, timer, service, edit, managed, base, unstopped>>

----------------------------------------------------------------------------
(* The owner's other commands.                                             *)

\* frontdoor commit / manage_pam commit, run when the installer has returned and the
\* owner has tried a login.  It stops the timer, not a revert that has started, and
\* returns normally when the stop has failed: for the owner the edit is kept.
Commit ==
    /\ pc = "idle"
    /\ Stop
    /\ base' = IF service.st = "idle" THEN None ELSE base
    /\ UNCHANGED <<surface, file, live, service, pc, edit, managed, slipped>>

CommitRaises ==
    /\ pc = "idle" /\ timer.st = "armed"
    /\ timer' = Idle /\ slipped' = TRUE
    /\ UNCHANGED <<surface, file, live, service, pc, edit, managed, base, unstopped>>

\* frontdoor uninstall removes the drop-in and, if sshd -t agrees, reloads.  It does
\* not touch the timer.
Uninstall ==
    /\ Sshd
    /\ file' = [file EXCEPT ![Dropin] = Absent]
    /\ live' \in {live, Absent}
    /\ UNCHANGED <<surface, timer, service, pc, edit, managed, base, slipped, unstopped>>

ManageTarget(t) ==
    /\ ~Sshd /\ pc = "idle"
    /\ managed' \in {managed \union {t}, managed \ {t}}
    /\ UNCHANGED <<surface, file, live, timer, service, pc, edit, base, slipped, unstopped>>

----------------------------------------------------------------------------
(* The deadman.  The steps between arming and returning have timeouts of   *)
(* seconds, the timer waits minutes: it does not fire between them.        *)

Busy == pc \notin {"idle", "captured"}

Fire ==
    /\ timer.st = "armed" /\ ~Busy
    /\ service' = Unit("restore", timer)
    /\ timer' = Idle
    /\ UNCHANGED <<surface, file, live, pc, edit, managed, base, slipped, unstopped>>

\* Mutant of RevertFile: the revert waits for a file it can parse.
RevertFileParsed ==
    /\ service.st = "restore" /\ file[service.target] # Torn
    /\ file' = [file EXCEPT ![service.target] = service.back]
    /\ base' = None
    /\ service' = IF Sshd THEN Unit("reload", service) ELSE Idle
    /\ UNCHANGED <<surface, live, timer, pc, edit, managed, slipped, unstopped>>

\* frontdoor _revert, or the script anima-pam-restore.
RevertFile ==
    /\ service.st = "restore"
    /\ file' = [file EXCEPT ![service.target] = service.back]
    /\ base' = None
    /\ service' = IF Sshd THEN Unit("reload", service) ELSE Idle
    /\ UNCHANGED <<surface, live, timer, pc, edit, managed, slipped, unstopped>>

RevertReload ==
    /\ service.st = "reload"
    /\ live' \in {live, file[Dropin]}
    /\ service' = Idle
    /\ UNCHANGED <<surface, file, timer, pc, edit, managed, base, slipped, unstopped>>

----------------------------------------------------------------------------

Next ==
    \/ \E c \in Edits : FrontDoorInstall(c) \/ (\E t \in PamFiles : ApprovedApply(t, c))
    \/ Installer \/ Crash
    \/ Commit \/ CommitRaises \/ Uninstall
    \/ \E t \in PamFiles : ManageTarget(t)
    \/ Fire \/ RevertFile \/ RevertReload

Spec == Init /\ [][Next]_vars

FairSpec ==
    /\ Spec
    /\ WF_vars(Installer)
    /\ WF_vars(Fire) /\ WF_vars(RevertFile) /\ WF_vars(RevertReload)

----------------------------------------------------------------------------
(* Properties.                                                             *)

\* Someone is going to end the trial: the timer, the revert it has started, or the
\* installing process on its way through the except clause.
Guarded ==
    \/ timer.st = "armed"
    \/ service.st = "restore"
    \/ pc \in {"failed", "invalid_restore", "failed_restore"}

\* An edit on trial is never without a way back, wherever the installer is killed
\* and whatever raises, but for the slips of the code: a kill or an error after the
\* disarm, and a snapshot that is stale when the deadman is armed.
UnprovenGuarded == base # None => Guarded \/ slipped

Uninstalled(f) == [f EXCEPT ![Dropin] = Absent]

Abstract == INSTANCE CommitOrRevert WITH
    Version <- [Targets -> Contents],
    Withdrawn <- Uninstalled,
    current <- file, fallback <- base, None <- None

\* The trial is over, the timer it was armed for is not: its stop has failed unnoticed,
\* and its revert writes the old file over an edit that was kept or withdrawn.
LateRevert == unstopped /\ base = None /\ RevertFile

\* The installers implement CommitOrRevert: the rollback, the timer and the revert
\* command put back exactly the files from before the trial, for any interleaving
\* with uninstalls, commits and further installs, until a slip; and outside a trial
\* nothing is put back, but for the late revert of a timer whose stop has failed.
RevertsToBase == Abstract!Init /\ [][Abstract!Next \/ LateRevert \/ slipped]_<<file, base>>

\* "If anything goes wrong the timer fires and restores the previous config
\* automatically": every trial ends.
TrialEnds == base # None ~> base = None \/ slipped

=============================================================================
