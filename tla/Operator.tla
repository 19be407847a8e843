------------------------------ MODULE Operator -------------------------------
(***************************************************************************)
(* The reversible operators: managed files, services, unit files and the   *)
(* boot graph (anima/kernel/operator.py, unit_topology.py, the Linux       *)
(* back-ends in arch/linux.py, _manage_file and _manage_service in         *)
(* tools.py) and the autonomous scan of managed files                      *)
(* (_run_operator_scan_cycle in scheduler/proactive.py).                   *)
(*                                                                         *)
(* An operation is capture, apply, verify, keep or restore, record.  It    *)
(* runs on the event loop without an await: within the process nothing     *)
(* interleaves, but the owner's editor and systemd do, and the process may *)
(* die between any two steps.  The scan awaits a model between reading a   *)
(* file and operating on it.                                               *)
(***************************************************************************)
EXTENDS TrackRecord, FiniteSets

CONSTANTS
    Files, Services, Units, Boot,  \* targets; Boot is the default.target link
    Protected,   \* the lockout-safety floor: self-protected paths and services, the
                 \* floor closure of the unit operator
    Enabled,     \* the kinds whose operator_*_enabled setting is True
    Edits, Valid,\* contents, and those the validator / systemd-analyze accepts
    Absent, Torn,
    MaxOps,      \* bound: operations
    MaxHand      \* bound: changes made by hand

ASSUME OperatorAssumption ==
    /\ Valid # {} /\ Valid \subseteq Edits /\ Absent \notin Edits /\ Torn \notin Edits /\ Absent # Torn
    /\ Files \intersect Services = {} /\ Files \intersect Units = {}
    /\ Services \intersect Units = {} /\ Boot \notin Files \union Services \union Units
    /\ Protected \subseteq Files \union Services \union Units
    /\ MaxOps \in Nat /\ MaxHand \in Nat

Targets == Files \union Services \union Units \union {Boot}
Contents == Edits \union {Absent, Torn}

Families == {Files, Services, Units \union {Boot}}

BootGraphOps == {"enable", "disable", "set_default"}

Ops(t) ==
    CASE t \in Files    -> {"file_edit"}
      [] t \in Services -> {"restart", "start", "stop"}
      [] t \in Units    -> {"author", "delete", "enable", "disable"}
      [] t = Boot       -> {"set_default"}

AnyEdit == CHOOSE v \in Edits : TRUE

\* unit_content or target_name; the other unit operations have no input.
Inputs(o) == IF o \in {"author", "set_default"} THEN Edits ELSE {AnyEdit}

\* (operation_class, target), the key of operator_track_record.
AllOps == UNION {Ops(t) : t \in Targets}
Keys == {k \in AllOps \X Targets : k[1] \in Ops(k[2])}

\* What an operation may change of its target.
TargetState == [content : Contents, active : BOOLEAN, enabled : BOOLEAN]

VARIABLES
    scope,     \* the family of targets this behaviour is about; families share no state
    machine,   \* the state of every target
    managed,   \* managed_file_targets, managed_service_targets, managed_unit_targets
    track,     \* operator_track_record
    op,        \* the operation under way
    scan,      \* the operator scan: its cycle's remaining targets, and what it has read
    cooled,    \* targets with an OPERATOR_SCAN row younger than the cooldown
    settled,   \* history: each target as the owner or a verified operation left it
    marred,    \* history: targets an operation has left in between
    approved,  \* history: verified operations the owner had approved, per key
    ops, hands

stable == <<scope, managed, cooled>>
history == <<settled, marred, approved>>
vars == <<scope, machine, managed, track, op, scan, cooled, history, ops, hands>>

Operation(pc, by, o, t, v, snap) ==
    [pc |-> pc, by |-> by, o |-> o, t |-> t, new |-> v, snap |-> snap]
At(pc) == [op EXCEPT !.pc = pc]
NoOp == Operation("idle", "owner", "set_default", Boot, AnyEdit,
                  [content |-> Absent, active |-> FALSE, enabled |-> FALSE])

NoScan == [pc |-> "idle", queue |-> {}, t |-> Boot, read |-> Absent]

TypeOK ==
    /\ scope \in Families
    /\ machine \in [Targets -> TargetState] /\ settled \in [Targets -> TargetState]
    /\ managed \subseteq Targets /\ cooled \subseteq Files /\ marred \subseteq Targets
    /\ track \in [Keys -> TrackRecordState({})]
    /\ op \in [pc : {"idle", "apply", "verify", "verified", "restore", "restored"},
               by : {"owner", "tool", "scan"}, o : AllOps,
               t : Targets, new : Edits, snap : TargetState]
    /\ scan \in [pc : {"idle", "loop", "asking"}, queue : SUBSET Files, t : Targets,
                 read : Contents]
    /\ approved \in [Keys -> Nat]
    /\ ops \in 0..MaxOps /\ hands \in 0..MaxHand

Init ==
    /\ scope \in Families
    /\ \E v \in Valid :
          machine = [t \in Targets |-> [content |-> IF t \in Services THEN Absent ELSE v,
                                        active |-> t \in Services, enabled |-> FALSE]]
    /\ managed = {}
    /\ track = [k \in Keys |-> Untrusted]
    /\ op = NoOp
    /\ scan = NoScan /\ cooled = {}
    /\ settled = machine /\ marred = {} /\ approved = [k \in Keys |-> 0]
    /\ ops = 0 /\ hands = 0

----------------------------------------------------------------------------
(* The operations: ReversibleFileEdit, ReversibleServiceAction and         *)
(* ReversibleUnitTopologyAction.                                           *)

\* LinuxFileOperator.write and author_unit; the service verbs, whose verdict is
\* ignored: a service may fail to start, or to stop; the other unit operations.
WriteEffect(v, s) == {[s EXCEPT !.content = v]}
ServiceEffect(s) == {[s EXCEPT !.active = b] : b \in BOOLEAN}
UnitEffect(o, v, s) ==
    IF o \in {"author", "set_default"} THEN WriteEffect(v, s)
    ELSE IF o = "delete" THEN WriteEffect(Absent, s)
    ELSE {[s EXCEPT !.enabled = (o = "enable")]}

Effects(t, o, v, s) ==
    IF t \in Files THEN WriteEffect(v, s)
    ELSE IF t \in Services THEN ServiceEffect(s)
    ELSE UnitEffect(o, v, s)

\* verify() can only be true of such a state; a time-out makes it false of any.
ValidatorMayPass(t) == machine[t].content \in Valid
ServiceVerify(o, t) == machine[t].active = (o # "stop")
\* systemd-analyze verify looks at every unit file.
AnalyzeVerify == \A u \in Units : machine[u].content \in Valid \union {Absent}

Sound(o, t) ==
    /\ t \in Files => ValidatorMayPass(t)
    /\ t \in Services => ServiceVerify(o, t)
    /\ t \in Units \union {Boot} => AnalyzeVerify

\* restore(): the content of the snapshot, or the opposite systemctl verb if the
\* state is not the one captured.
RestoreFile(snap, s) == [s EXCEPT !.content = snap.content]
RestoreService(snap, s) == [s EXCEPT !.active = snap.active]

\* Mutant of RestoreUnit: enable and disable are inverted whatever was before.
RestoreUnitBlindly(o, snap, s) ==
    IF o \in {"enable", "disable"} THEN [s EXCEPT !.enabled = (o = "disable")]
    ELSE [s EXCEPT !.content = snap.content]

RestoreUnit(o, snap, s) ==
    IF o \in {"enable", "disable"} THEN [s EXCEPT !.enabled = snap.enabled]
    ELSE [s EXCEPT !.content = snap.content]

Undo(t, o, snap, s) ==
    IF t \in Files THEN RestoreFile(snap, s)
    ELSE IF t \in Services THEN RestoreService(snap, s)
    ELSE RestoreUnit(o, snap, s)

\* capture().  is_active counts a systemctl that hangs as inactive.
CaptureFile(t) == {machine[t]}
CaptureService(t) == {machine[t], [machine[t] EXCEPT !.active = FALSE]}
CaptureUnit(t) == {machine[t]}

Captures(t) ==
    IF t \in Files THEN CaptureFile(t)
    ELSE IF t \in Services THEN CaptureService(t)
    ELSE CaptureUnit(t)

\* The floor: refused by the write or by the constructor, before anything has changed.
RefusesFile(t) == t \in Files \intersect Protected
RefusesService(t) == t \in Services \intersect Protected

\* The dependencies of the seed, all of them, whether or not the name has its suffix.
IsFloorProtected(u) == u \in Protected

RefusesUnit(t) == t \in Units /\ IsFloorProtected(t)

----------------------------------------------------------------------------
(* The gates.  Where they are closed the operator proposes, which changes  *)
(* nothing.                                                                *)

Graduated(o, t) == t \in managed /\ t \in Enabled /\ track[<<o, t>>].graduated

\* operate_on_file, operate_on_service, operate_on_unit_topology.
FileGate(t) == t \in Files /\ Graduated("file_edit", t)
ServiceGate(o, t) == t \in Services /\ Graduated(o, t)
UnitGate(o, t) ==
    /\ t \in Units \union {Boot} /\ o \notin BootGraphOps
    /\ Graduated(o, t)

\* execute_approved_file_edit, _service_action, _unit_action: the last of them does
\* not consult the allowlist.
FileApproved(t) == t \in Files \intersect managed
ServiceApproved(t) == t \in Services \intersect managed
UnitApproved(t) == t \in Units \union {Boot}

\* run_reversible_operation up to capture().
Begin(by, o, t, v) ==
    /\ op.pc = "idle" /\ ops < MaxOps
    /\ ~(RefusesFile(t) \/ RefusesService(t) \/ RefusesUnit(t))
    /\ \E snap \in Captures(t) :
          /\ op' = Operation("apply", by, o, t, v, snap)
          /\ marred' = IF snap = machine[t] THEN marred ELSE marred \union {t}
    /\ ops' = ops + 1
    /\ UNCHANGED <<machine, stable, track, settled, approved, hands>>

\* The tools' edit, action and approved_apply.  No tool reaches the unit operator yet.
ManageFile(t, v) ==
    /\ \/ FileGate(t) /\ Begin("tool", "file_edit", t, v)
       \/ FileApproved(t) /\ Begin("owner", "file_edit", t, v)
    /\ UNCHANGED scan

ManageService(o, t) ==
    /\ \/ ServiceGate(o, t) /\ Begin("tool", o, t, AnyEdit)
       \/ ServiceApproved(t) /\ Begin("owner", o, t, AnyEdit)
    /\ UNCHANGED scan

ManageUnit(o, t, v) ==
    /\ \/ UnitGate(o, t) /\ Begin("tool", o, t, v)
       \/ UnitApproved(t) /\ Begin("owner", o, t, v)
    /\ UNCHANGED scan

\* add_managed_*_target and remove_managed_*_target.
AddTarget(t) == managed' = managed \union {t}
RemoveTarget(t) == managed' = managed \ {t}

ManageTarget(t) ==
    /\ op.pc = "idle"
    /\ AddTarget(t) \/ RemoveTarget(t)
    /\ UNCHANGED <<scope, machine, track, op, scan, cooled, history, ops, hands>>

----------------------------------------------------------------------------
(* run_reversible_operation, and update_operator_track_record after it.    *)

Apply ==
    /\ op.pc = "apply"
    /\ \E s \in Effects(op.t, op.o, op.new, machine[op.t]) :
          machine' = [machine EXCEPT ![op.t] = s]
    /\ op' = At("verify")
    /\ UNCHANGED <<stable, track, scan, history, ops, hands>>

\* apply() raises: nothing is restored and nothing recorded.  A write may be cut
\* short, a daemon-reload may fail after it; a systemctl verb fails as a whole.
ApplyRaises ==
    /\ op.pc = "apply" /\ op.t \notin Services
    /\ \/ UNCHANGED <<machine, marred>>
       \/ /\ op.o \in {"file_edit", "author", "delete"}
          /\ \E c \in {Torn, op.new} :
                machine' = [machine EXCEPT ![op.t].content = c]
          /\ marred' = marred \union {op.t}
    /\ op' = NoOp
    /\ UNCHANGED <<stable, track, scan, settled, approved, ops, hands>>

Verify ==
    /\ op.pc = "verify"
    /\ \/ /\ Sound(op.o, op.t)
          /\ op' = At("verified")
          /\ settled' = [settled EXCEPT ![op.t] = machine[op.t]]
       \/ /\ op' = At("restore")
          /\ UNCHANGED settled
    /\ UNCHANGED <<machine, stable, track, scan, marred, approved, ops, hands>>

Restore ==
    /\ op.pc = "restore"
    /\ machine' = [machine EXCEPT ![op.t] = Undo(op.t, op.o, op.snap, @)]
    /\ op' = At("restored")
    /\ UNCHANGED <<stable, track, scan, history, ops, hands>>

\* restore() raises, or systemctl does not do what it was asked.
RestoreFails ==
    /\ op.pc = "restore"
    /\ op' = IF op.t \in Services THEN At("restored") ELSE NoOp
    /\ marred' = marred \union {op.t}
    /\ UNCHANGED <<machine, stable, track, scan, settled, approved, ops, hands>>

\* _route_operator_outcome after a scan's operation or proposal.
Routed(t) == cooled' = cooled \union {t}

\* Mutant of Record: credit for whatever was applied.
RecordApplied ==
    /\ op.pc \in {"verified", "restored"}
    /\ track' = [track EXCEPT ![<<op.o, op.t>>] = AdvanceOperator(@, TRUE)]
    /\ approved' = [approved EXCEPT ![<<op.o, op.t>>] =
                       IF op.pc = "verified" /\ op.by = "owner" THEN @ + 1 ELSE @]
    /\ IF op.by = "scan" THEN Routed(op.t) ELSE UNCHANGED cooled
    /\ op' = NoOp
    /\ UNCHANGED <<scope, machine, managed, scan, settled, marred, ops, hands>>

Record ==
    /\ op.pc \in {"verified", "restored"}
    /\ track' = [track EXCEPT ![<<op.o, op.t>>] = AdvanceOperator(@, op.pc = "verified")]
    /\ approved' = [approved EXCEPT ![<<op.o, op.t>>] =
                       IF op.pc = "verified" /\ op.by = "owner" THEN @ + 1 ELSE @]
    /\ IF op.by = "scan" THEN Routed(op.t) ELSE UNCHANGED cooled
    /\ op' = NoOp
    /\ UNCHANGED <<scope, machine, managed, scan, settled, marred, ops, hands>>

Run == Apply \/ ApplyRaises \/ Verify \/ Restore \/ RestoreFails \/ Record

----------------------------------------------------------------------------
(* _run_operator_scan_cycle.                                               *)

LoopFree == op.pc = "idle"

\* list_managed_file_targets is read once for the cycle.
ScanCycle ==
    /\ LoopFree /\ scan.pc = "idle"
    /\ scan' = [NoScan EXCEPT !.pc = "loop", !.queue = managed \intersect Files]
    /\ UNCHANGED <<machine, stable, track, op, history, ops, hands>>

\* The validator passes, the target is on cooldown, or it cannot be read.
ScanSkip(t) ==
    /\ machine[t].content \in Valid \union {Absent} \/ t \in cooled
    /\ scan' = [scan EXCEPT !.queue = @ \ {t}]

\* The validator fails: ask the model for a fix of what was read.
ScanAsk(t) ==
    /\ machine[t].content # Absent /\ t \notin cooled
    /\ scan' = [pc |-> "asking", queue |-> scan.queue \ {t}, t |-> t,
                read |-> machine[t].content]

ScanVisit ==
    /\ LoopFree /\ scan.pc = "loop"
    /\ \E t \in scan.queue : ScanSkip(t) \/ ScanAsk(t)
    /\ UNCHANGED <<machine, stable, track, op, history, ops, hands>>

ScanGoesOn == scan' = [scan EXCEPT !.pc = "loop"]

\* The answer, if it is not a no-op, goes through operate_on_file ...
ScanOperate ==
    /\ LoopFree /\ scan.pc = "asking"
    /\ FileGate(scan.t)
    /\ \E v \in Edits \ {scan.read} : Begin("scan", "file_edit", scan.t, v)
    /\ ScanGoesOn

\* ... which proposes it when the gate is closed ...
ScanPropose ==
    /\ LoopFree /\ scan.pc = "asking"
    /\ ~FileGate(scan.t)
    /\ Routed(scan.t)
    /\ ScanGoesOn
    /\ UNCHANGED <<scope, machine, managed, track, op, history, ops, hands>>

\* ... and an empty answer, a no-op or an error ends the visit.
ScanNoFix ==
    /\ LoopFree /\ scan.pc = "asking"
    /\ ScanGoesOn
    /\ UNCHANGED <<machine, stable, track, op, history, ops, hands>>

ScanEnd ==
    /\ LoopFree /\ scan.pc = "loop" /\ scan.queue = {}
    /\ scan' = NoScan
    /\ UNCHANGED <<machine, stable, track, op, history, ops, hands>>

CooldownExpires(t) ==
    /\ t \in cooled
    /\ cooled' = cooled \ {t}
    /\ UNCHANGED <<scope, machine, managed, track, op, scan, history, ops, hands>>

----------------------------------------------------------------------------
(* What happens outside the process, and to it.                            *)

ByHand(t) ==
    IF t \in Services THEN {[machine[t] EXCEPT !.active = ~@]}
    ELSE {[machine[t] EXCEPT !.content = c] : c \in Edits \union {Absent}}

\* The owner edits a target, or a service stops by itself, at any moment.
HandChange(t) ==
    /\ hands < MaxHand
    /\ \E s \in ByHand(t) : /\ machine' = [machine EXCEPT ![t] = s]
                            /\ settled' = [settled EXCEPT ![t] = s]
    /\ marred' = IF op.pc # "idle" /\ op.t = t THEN marred \union {t} ELSE marred \ {t}
    /\ hands' = hands + 1
    /\ UNCHANGED <<stable, track, op, scan, approved, ops>>

\* The snapshot was in memory only.
Crash ==
    /\ op.pc # "idle"
    /\ op' = NoOp /\ scan' = NoScan
    /\ marred' = IF op.pc \in {"verify", "restore"} THEN marred \union {op.t} ELSE marred
    /\ UNCHANGED <<machine, stable, track, settled, approved, ops, hands>>

----------------------------------------------------------------------------

Next ==
    \/ \E t \in scope \intersect Files, v \in Edits : ManageFile(t, v)
    \/ \E t \in scope \intersect Services : \E o \in Ops(t) : ManageService(o, t)
    \/ \E t \in scope \ (Files \union Services) :
          \E o \in Ops(t) : \E v \in Inputs(o) : ManageUnit(o, t, v)
    \/ \E t \in scope \ {Boot} : ManageTarget(t)
    \/ Run
    \/ ScanCycle \/ ScanVisit \/ ScanOperate \/ ScanPropose \/ ScanNoFix \/ ScanEnd
    \/ \E t \in Files : CooldownExpires(t)
    \/ \E t \in scope : HandChange(t)
    \/ Crash

Spec == Init /\ [][Next]_vars

----------------------------------------------------------------------------
(* Properties.                                                             *)

\* Autonomy is earned: whatever an operator does without the owner's approval, it
\* has done on this very target, with the owner's approval and a passing validator,
\* twice for every credit of the ladder; and it is no boot-graph operation (I-UT7).
AutonomyEarned ==
    op.pc # "idle" /\ op.by # "owner" =>
        /\ approved[<<op.o, op.t>>] >= 2 * GraduationThreshold
        /\ op.t \in managed /\ op.o \notin BootGraphOps

\* The contract of ReversibleOperation: when no operation is under way, every target
\* is as the owner or a verified operation left it, whichever operations have failed.
\* The exceptions are the ones the code has: an apply or a restore that raised, a
\* state that was misread, a kill, or a change by hand in the middle.
OwnerStateKept ==
    op.pc = "idle" => \A t \in Targets \ marred : machine[t] = settled[t]

=============================================================================
