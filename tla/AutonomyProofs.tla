--------------------------- MODULE AutonomyProofs ----------------------------
(***************************************************************************)
(* Theorems about what anima does to the machine and to the source of its  *)
(* services without being asked: the operators of files and services       *)
(* (Operator) and the fixes of the server scan (AutonomousScan), both      *)
(* behind the ladder of TrackRecord. For any targets, contents, classes,   *)
(* fixes and thresholds, and any number of operations, failures, crashes   *)
(* and changes by hand.                                                    *)
(***************************************************************************)
EXTENDS Operator, AutonomousScan, SequenceTheorems, WellFoundedInduction, TLAPS

(***************************************************************************)
(* Operator: files and services.                                           *)
(***************************************************************************)

\* The operation under way is one of its target's, and the scan's are of files.
OpOfTarget ==
    /\ op.o \in Ops(op.t)
    /\ op.by = "scan" => op.t \in Files
    /\ scan.pc = "asking" => scan.t \in Files

\* The ladder and the approvals: a class that has not graduated has two verified and
\* approved operations behind every credit, and one more while the window is open.
EarnedSoFar(k) ==
    IF track[k].graduated
    THEN approved[k] >= 2 * GraduationThreshold
    ELSE approved[k] >= 2 * track[k].verified + (IF track[k].pending THEN 1 ELSE 0)

LadderEarned == \A k \in Keys : EarnedSoFar(k)

\* What runs without the owner has passed a gate that cannot close under it.
GatePassed ==
    op.pc # "idle" /\ op.by # "owner" =>
        /\ track[<<op.o, op.t>>].graduated
        /\ op.t \in managed /\ op.o \notin BootGraphOps

EarnInv == TypeOK /\ OpOfTarget /\ LadderEarned /\ GatePassed

\* Targets that no operation is working on are as they were left.
OthersKept == \A t \in Targets \ marred : op.pc = "idle" \/ t # op.t => machine[t] = settled[t]

\* The target of the operation under way is as it was left, or can be put back.
UndoKept ==
    op.t \notin marred =>
        /\ op.pc = "apply" => machine[op.t] = settled[op.t] /\ op.snap = settled[op.t]
        /\ op.pc \in {"verify", "restore"} =>
              op.snap = settled[op.t] /\ Undo(op.t, op.o, op.snap, machine[op.t]) = op.snap
        /\ op.pc \in {"verified", "restored"} => machine[op.t] = settled[op.t]

KeepInv == TypeOK /\ OpOfTarget /\ OthersKept /\ UndoKept

-----------------------------------------------------------------------------
\* The families are disjoint, so that the kind of a target says which operations it has.
LEMMA OpsOf ==
  ASSUME NEW t \in Targets
  PROVE  /\ t \in Files => Ops(t) = {"file_edit"}
         /\ t \in Services => Ops(t) = {"restart", "start", "stop"}
         /\ t \in Units => Ops(t) = {"author", "delete", "enable", "disable"}
         /\ t = Boot => Ops(t) = {"set_default"}
  BY OperatorAssumption DEF Ops, Targets

\* The operations of a target are operations.
LEMMA OpsIn ==
  ASSUME NEW t \in Targets, NEW o \in Ops(t)
  PROVE  o \in AllOps /\ <<o, t>> \in Keys
  BY DEF AllOps, Keys

\* There is an edit to stand for the input that is not used.
LEMMA AnyEditType == AnyEdit \in Edits
  BY OperatorAssumption DEF AnyEdit

\* The record of no operation is a record of one.
LEMMA NoOpType ==
  /\ NoOp.pc = "idle" /\ NoOp.by = "owner" /\ NoOp.o \in Ops(NoOp.t)
  /\ NoOp \in [pc : {"idle", "apply", "verify", "verified", "restore", "restored"},
               by : {"owner", "tool", "scan"}, o : AllOps,
               t : Targets, new : Edits, snap : TargetState]
  <1>1. Boot \in Targets /\ Absent \in Contents
    BY DEF Targets, Contents
  <1>2. "set_default" \in Ops(Boot)
    BY <1>1, OpsOf
  <1>3. "set_default" \in AllOps
    BY <1>1, <1>2, OpsIn
  <1> QED
    BY <1>1, <1>2, <1>3, AnyEditType DEF NoOp, Operation, TargetState

\* One outcome of an operation on the ladder, without a branch.
LEMMA AdvanceType ==
  ASSUME NEW s \in TrackRecordState({}), NEW v \in BOOLEAN
  PROVE  /\ AdvanceOperator(s, v) \in TrackRecordState({})
         /\ s.graduated => AdvanceOperator(s, v).graduated
         /\ ~v => AdvanceOperator(s, v).verified = s.verified
                  /\ ~AdvanceOperator(s, v).pending
                  /\ AdvanceOperator(s, v).graduated = s.graduated
         /\ v /\ ~s.pending => AdvanceOperator(s, v).verified = s.verified
                               /\ AdvanceOperator(s, v).pending
                               /\ AdvanceOperator(s, v).graduated = s.graduated
         /\ v /\ s.pending =>
              /\ AdvanceOperator(s, v).verified = s.verified + 1
              /\ ~AdvanceOperator(s, v).pending
              /\ AdvanceOperator(s, v).graduated =
                    (s.graduated \/ s.verified + 1 >= GraduationThreshold)
  <1> USE DEF AdvanceOperator, Advance, Regressed, WindowOpened, Credited, State, TrackRecordState,
              Outcomes, NoBranch
  <1>1. CASE ~v
    BY <1>1
  <1>2. CASE v /\ ~s.pending
    BY <1>2
  <1>3. CASE v /\ s.pending
    BY <1>3
  <1> QED
    BY <1>1, <1>2, <1>3

-----------------------------------------------------------------------------
ScanState == [pc : {"idle", "loop", "asking"}, queue : SUBSET Files, t : Targets, read : Contents]

\* An operation begins, by the owner or through a gate.
Begins ==
    \E by \in {"owner", "tool", "scan"}, t \in Targets, v \in Edits : \E o \in Ops(t) :
        /\ Begin(by, o, t, v)
        /\ by # "owner" => Graduated(o, t) /\ o \notin BootGraphOps
        /\ by = "scan" => t \in Files
        /\ scan' = scan \/ scan' = [scan EXCEPT !.pc = "loop"]

Manages ==
    \/ \E t \in scope \intersect Files, v \in Edits : ManageFile(t, v)
    \/ \E t \in scope \intersect Services : \E o \in Ops(t) : ManageService(o, t)
    \/ \E t \in scope \ (Files \union Services) :
          \E o \in Ops(t) : \E v \in Inputs(o) : ManageUnit(o, t, v)

\* The families are sets of targets.
LEMMA ScopeType == TypeOK => scope \subseteq Targets
  BY DEF TypeOK, Families, Targets

\* All ways to start an operation are the beginning of one.
LEMMA WaysToBegin ==
  ASSUME TypeOK, Manages \/ ScanOperate
  PROVE  Begins
  <1> USE ScopeType DEF BootGraphOps
  <1>1. ASSUME NEW t \in scope \intersect Files, NEW v \in Edits, ManageFile(t, v)
        PROVE  Begins
    <2>1. t \in Targets /\ "file_edit" \in Ops(t)
      BY OpsOf DEF Targets
    <2> QED
      BY <1>1, <2>1 DEF ManageFile, FileGate, Begins
  <1>2. ASSUME NEW t \in scope \intersect Services, NEW o \in Ops(t), ManageService(o, t)
        PROVE  Begins
    <2>1. t \in Targets /\ o \in {"restart", "start", "stop"}
      BY OpsOf DEF Targets
    <2> QED
      BY <1>2, <2>1, AnyEditType DEF ManageService, ServiceGate, Begins
  <1>3. ASSUME NEW t \in scope \ (Files \union Services), NEW o \in Ops(t), NEW v \in Inputs(o),
               ManageUnit(o, t, v)
        PROVE  Begins
    <2>1. t \in Targets /\ v \in Edits
      BY AnyEditType DEF Inputs
    <2> QED
      BY <1>3, <2>1 DEF ManageUnit, UnitGate, Begins
  <1>4. ASSUME ScanOperate PROVE Begins
    <2>1. scan.t \in Targets /\ "file_edit" \in Ops(scan.t)
      BY <1>4, OpsOf DEF ScanOperate, FileGate, Targets
    <2> QED
      BY <1>4, <2>1 DEF ScanOperate, ScanGoesOn, FileGate, Begins
  <1> QED
    BY <1>1, <1>2, <1>3, <1>4 DEF Manages

\* What a snapshot can be.
LEMMA CaptureType ==
  ASSUME TypeOK, NEW t \in Targets, NEW snap \in Captures(t)
  PROVE  snap \in TargetState
  <1>1. machine[t] \in TargetState
    BY DEF TypeOK
  <1>2. [machine[t] EXCEPT !.active = FALSE] \in TargetState
    BY <1>1 DEF TargetState
  <1> QED
    BY <1>1, <1>2 DEF Captures, CaptureFile, CaptureService, CaptureUnit

\* What an operation makes of its target, and that restore() undoes it.
LEMMA UndoEffect ==
  ASSUME NEW t \in Targets, NEW o \in Ops(t), NEW v \in Edits,
         NEW s \in TargetState, NEW x \in Effects(t, o, v, s)
  PROVE  x \in TargetState /\ Undo(t, o, s, x) = s
  <1> USE DEF TargetState, Contents
  <1>1. CASE t \in Files
    BY <1>1 DEF Effects, WriteEffect, Undo, RestoreFile
  <1>2. CASE t \in Services /\ t \notin Files
    BY <1>2 DEF Effects, ServiceEffect, Undo, RestoreService
  <1>3. CASE t \notin Files /\ t \notin Services
    <2>1. o \in {"author", "delete", "enable", "disable", "set_default"}
      BY <1>3, OpsOf DEF Targets
    <2>2. CASE o \in {"enable", "disable"}
      BY <1>3, <2>2 DEF Effects, UnitEffect, Undo, RestoreUnit
    <2>3. CASE o \in {"author", "delete", "set_default"}
      BY <1>3, <2>3 DEF Effects, UnitEffect, WriteEffect, Undo, RestoreUnit
    <2> QED
      BY <2>1, <2>2, <2>3
  <1> QED
    BY <1>1, <1>2, <1>3

\* What is written back is a state of the target.
LEMMA UndoType ==
  ASSUME NEW t \in Targets, NEW o, NEW snap \in TargetState, NEW x \in TargetState
  PROVE  Undo(t, o, snap, x) \in TargetState
  BY DEF Undo, RestoreFile, RestoreService, RestoreUnit, TargetState

\* What the owner or systemd makes of a target.
LEMMA ByHandType ==
  ASSUME TypeOK, NEW t \in Targets, NEW s \in ByHand(t)
  PROVE  s \in TargetState
  <1>1. machine[t] \in TargetState
    BY DEF TypeOK
  <1>2. [machine[t] EXCEPT !.active = ~@] \in TargetState
    BY <1>1 DEF TargetState
  <1>3. \A c \in Edits \union {Absent} : [machine[t] EXCEPT !.content = c] \in TargetState
    BY <1>1 DEF TargetState, Contents
  <1> QED
    BY <1>2, <1>3 DEF ByHand

-----------------------------------------------------------------------------
\* The types are right at the start, and no operation is under way.
LEMMA TypeInit == Init => TypeOK /\ OpOfTarget
  <1> SUFFICES ASSUME Init PROVE TypeOK /\ OpOfTarget
    OBVIOUS
  <1>1. machine \in [Targets -> TargetState] /\ settled \in [Targets -> TargetState]
    BY OperatorAssumption DEF Init, TargetState, Contents
  <1>2. track \in [Keys -> TrackRecordState({})]
    BY DEF Init, Untrusted, State, TrackRecordState, Outcomes
  <1>3. op = NoOp
    BY DEF Init
  <1>4. scan \in ScanState
    BY DEF Init, NoScan, ScanState, Targets, Contents
  <1> QED
    BY <1>1, <1>2, <1>3, <1>4, NoOpType, OperatorAssumption DEF Init, NoScan, TypeOK, ScanState,
      OpOfTarget

\* Every step keeps the types.
LEMMA TypeStep == TypeOK /\ OpOfTarget /\ [Next]_vars => TypeOK' /\ OpOfTarget'
  <1> SUFFICES ASSUME TypeOK, OpOfTarget, [Next]_vars PROVE TypeOK' /\ OpOfTarget'
    OBVIOUS
  <1>a. /\ op.t \in Targets /\ op.o \in Ops(op.t) /\ op.new \in Edits /\ op.snap \in TargetState
        /\ machine[op.t] \in TargetState /\ <<op.o, op.t>> \in Keys
    BY OpsIn DEF TypeOK, OpOfTarget
  <1>1. CASE Manages \/ ScanOperate
    <2>1. PICK by \in {"owner", "tool", "scan"}, t \in Targets, v \in Edits : \E o \in Ops(t) :
             /\ Begin(by, o, t, v) /\ (by = "scan" => t \in Files)
             /\ scan' = scan \/ scan' = [scan EXCEPT !.pc = "loop"]
      BY <1>1, WaysToBegin DEF Begins
    <2>2. PICK o \in Ops(t) : /\ Begin(by, o, t, v) /\ (by = "scan" => t \in Files)
                              /\ scan' = scan \/ scan' = [scan EXCEPT !.pc = "loop"]
      BY <2>1
    <2>3. PICK snap \in Captures(t) : /\ op' = Operation("apply", by, o, t, v, snap)
                                      /\ marred' \subseteq marred \union {t}
      BY <2>2 DEF Begin, TypeOK
    <2>4. snap \in TargetState /\ o \in AllOps
      BY CaptureType, OpsIn
    <2>5. OpOfTarget'
      BY <2>2, <2>3 DEF OpOfTarget, Operation, TypeOK
    <2> QED
      BY <2>2, <2>3, <2>4, <2>5, OperatorAssumption DEF Begin, stable, TypeOK, Operation
  <1>2. CASE Apply
    <2>1. PICK s \in Effects(op.t, op.o, op.new, machine[op.t]) : machine' = [machine EXCEPT
          ![op.t] = s]
      BY <1>2 DEF Apply
    <2>2. s \in TargetState
      BY <1>a, UndoEffect
    <2> QED
      BY <1>2, <1>a, <2>1, <2>2 DEF Apply, At, stable, history, TypeOK, OpOfTarget
  <1>3. CASE ApplyRaises
    <2>1. machine' \in [Targets -> TargetState] /\ marred' \subseteq Targets
      <3>1. CASE UNCHANGED <<machine, marred>>
        BY <3>1 DEF TypeOK
      <3>2. CASE /\ \E c \in {Torn, op.new} : machine' = [machine EXCEPT ![op.t].content = c]
                 /\ marred' = marred \union {op.t}
        BY <1>a, <3>2 DEF TypeOK, TargetState, Contents
      <3> QED
        BY <1>3, <3>1, <3>2 DEF ApplyRaises
    <2> QED
      BY <1>3, <2>1, NoOpType DEF ApplyRaises, stable, TypeOK, OpOfTarget
  <1>4. CASE Verify
    BY <1>4, <1>a DEF Verify, At, stable, TypeOK, OpOfTarget
  <1>5. CASE Restore
    BY <1>5, <1>a, UndoType DEF Restore, At, stable, history, TypeOK, OpOfTarget
  <1>6. CASE RestoreFails
    BY <1>6, <1>a, NoOpType DEF RestoreFails, At, stable, TypeOK, OpOfTarget
  <1>7. CASE Record
    <2>1. track' \in [Keys -> TrackRecordState({})]
      <3>1. track[<<op.o, op.t>>] \in TrackRecordState({}) /\ (op.pc = "verified") \in BOOLEAN
        BY <1>a DEF TypeOK
      <3>2. AdvanceOperator(track[<<op.o, op.t>>], op.pc = "verified") \in TrackRecordState({})
        BY <3>1, AdvanceType
      <3> QED
        BY <1>7, <1>a, <3>2 DEF Record, TypeOK
    <2>2. approved' \in [Keys -> Nat]
      BY <1>7, <1>a DEF Record, TypeOK
    <2>3. cooled' \subseteq Files
      BY <1>7, <1>a DEF Record, Routed, TypeOK, OpOfTarget
    <2> QED
      BY <1>7, <2>1, <2>2, <2>3, NoOpType DEF Record, TypeOK, OpOfTarget
  <1>8. CASE ScanCycle \/ ScanVisit \/ ScanNoFix \/ ScanEnd
    <2>1. scan' \in ScanState /\ (scan'.pc = "asking" => scan'.t \in Files)
      <3> USE DEF ScanState, OpOfTarget
      <3>1. scan \in ScanState
        BY DEF TypeOK
      <3>2. CASE ScanCycle \/ ScanEnd
        <4>1. NoScan \in ScanState /\ NoScan.pc = "idle"
          BY DEF NoScan, Targets, Contents
        <4> QED
          BY <3>2, <4>1 DEF ScanCycle, ScanEnd
      <3>3. CASE ScanNoFix
        BY <3>1, <3>3 DEF ScanNoFix, ScanGoesOn
      <3>4. CASE ScanVisit
        <4>1. PICK t \in scan.queue : ScanSkip(t) \/ ScanAsk(t)
          BY <3>4 DEF ScanVisit
        <4>2. t \in Files /\ t \in Targets /\ machine[t].content \in Contents
          BY <3>1, <4>1 DEF TypeOK, TargetState, Targets
        <4>3. CASE ScanSkip(t)
          BY <3>1, <4>3 DEF ScanSkip
        <4>4. CASE ScanAsk(t)
          BY <3>1, <4>2, <4>4 DEF ScanAsk
        <4> QED
          BY <4>1, <4>3, <4>4
      <3> QED
        BY <1>8, <3>2, <3>3, <3>4
    <2> QED
      BY <1>8, <2>1 DEF ScanCycle, ScanVisit, ScanNoFix, ScanEnd, stable, history, ScanState,
        TypeOK,
                        OpOfTarget
  <1>9. CASE ScanPropose
    BY <1>9 DEF ScanPropose, Routed, ScanGoesOn, history, TypeOK, OpOfTarget
  <1>10. ASSUME NEW t \in scope \ {Boot}, ManageTarget(t) PROVE TypeOK' /\ OpOfTarget'
    BY <1>10, ScopeType DEF ManageTarget, AddTarget, RemoveTarget, history, TypeOK, OpOfTarget
  <1>11. ASSUME NEW t \in Files, CooldownExpires(t) PROVE TypeOK' /\ OpOfTarget'
    BY <1>11 DEF CooldownExpires, history, TypeOK, OpOfTarget
  <1>12. ASSUME NEW t \in scope, HandChange(t) PROVE TypeOK' /\ OpOfTarget'
    <2>1. t \in Targets
      BY ScopeType
    <2>2. PICK s \in ByHand(t) : /\ machine' = [machine EXCEPT ![t] = s]
                                 /\ settled' = [settled EXCEPT ![t] = s]
      BY <1>12 DEF HandChange
    <2>3. s \in TargetState
      BY <2>1, ByHandType
    <2> QED
      BY <1>12, <2>1, <2>2, <2>3, OperatorAssumption DEF HandChange, stable, TypeOK, OpOfTarget
  <1>13. CASE Crash
    <2>1. scan' \in ScanState
      BY <1>13 DEF Crash, NoScan, ScanState, Targets, Contents
    <2> QED
      BY <1>13, <1>a, <2>1, NoOpType DEF Crash, NoScan, stable, ScanState, TypeOK, OpOfTarget
  <1>14. CASE UNCHANGED vars
    BY <1>14 DEF vars, history, TypeOK, OpOfTarget
  <1> QED
    BY <1>1, <1>2, <1>3, <1>4, <1>5, <1>6, <1>7, <1>8, <1>9, <1>10, <1>11, <1>12, <1>13, <1>14
       DEF Next, Run, Manages

-----------------------------------------------------------------------------
\* Nothing has been earned or begun at the start.
LEMMA EarnInit == Init => EarnInv
  <1> SUFFICES ASSUME Init PROVE EarnInv
    OBVIOUS
  <1>1. LadderEarned
    BY DEF Init, LadderEarned, EarnedSoFar, Untrusted, State
  <1>2. GatePassed
    BY NoOpType DEF Init, GatePassed
  <1> QED
    BY <1>1, <1>2, TypeInit DEF EarnInv

\* Before a class has graduated only the owner's operations are on its record, and a
\* class that has graduated does not lose it.
LEMMA EarnStep == EarnInv /\ [Next]_vars => EarnInv'
  <1> SUFFICES ASSUME EarnInv, [Next]_vars PROVE EarnInv'
    OBVIOUS
  <1>a. TypeOK /\ OpOfTarget /\ TypeOK' /\ OpOfTarget'
    BY TypeStep DEF EarnInv
  <1>b. /\ op.t \in Targets /\ <<op.o, op.t>> \in Keys
        /\ op.pc \in {"idle", "apply", "verify", "verified", "restore", "restored"}
    BY <1>a, OpsIn DEF TypeOK, OpOfTarget
  <1>1. ASSUME UNCHANGED <<track, approved>>, GatePassed' PROVE EarnInv'
    BY <1>a, <1>1 DEF EarnInv, LadderEarned, EarnedSoFar
  <1>2. ASSUME UNCHANGED <<track, approved, managed>>,
               op' = op \/ op' = NoOp \/ \E p : op.pc # "idle" /\ op' = At(p)
        PROVE  EarnInv'
    <2>1. CASE op' = op
      BY <1>1, <1>2, <2>1 DEF EarnInv, GatePassed
    <2>2. CASE op' = NoOp
      BY <1>1, <1>2, <2>2, NoOpType DEF GatePassed
    <2>3. ASSUME NEW p, op.pc # "idle", op' = At(p) PROVE EarnInv'
      <3>1. op'.by = op.by /\ op'.o = op.o /\ op'.t = op.t
        BY <1>a, <2>3 DEF At, TypeOK
      <3> QED
        BY <1>1, <1>2, <2>3, <3>1 DEF EarnInv, GatePassed
    <2> QED
      BY <1>2, <2>1, <2>2, <2>3
  <1>3. CASE Manages \/ ScanOperate
    <2>1. PICK by \in {"owner", "tool", "scan"}, t \in Targets, v \in Edits : \E o \in Ops(t) :
             /\ Begin(by, o, t, v)
             /\ by # "owner" => Graduated(o, t) /\ o \notin BootGraphOps
      BY <1>3, <1>a, WaysToBegin DEF Begins
    <2>2. PICK o \in Ops(t) : /\ Begin(by, o, t, v)
                              /\ by # "owner" => Graduated(o, t) /\ o \notin BootGraphOps
      BY <2>1
    <2>3. op'.by = by /\ op'.o = o /\ op'.t = t
      BY <2>2 DEF Begin, Operation
    <2>4. UNCHANGED <<track, approved, managed>>
      BY <2>2 DEF Begin, stable
    <2>5. GatePassed'
      BY <2>2, <2>3, <2>4 DEF GatePassed, Graduated
    <2> QED
      BY <1>1, <2>4, <2>5
  <1>4. CASE Record
    <2>0. PICK k \in Keys : k = <<op.o, op.t>>
      BY <1>b
    <2> DEFINE s == track[k]
               v == op.pc = "verified"
               s1 == AdvanceOperator(s, v)
    <2>1. /\ track' = [track EXCEPT ![k] = s1]
          /\ approved' = [approved EXCEPT ![k] = IF v /\ op.by = "owner" THEN @ + 1 ELSE @]
          /\ op' = NoOp
      BY <1>4, <2>0 DEF Record
    <2>2. GatePassed'
      BY <2>1, NoOpType DEF GatePassed
    <2>3. \A j \in Keys \ {k} : EarnedSoFar(j)'
      BY <1>a, <2>1 DEF EarnInv, LadderEarned, EarnedSoFar, TypeOK
    <2>4. EarnedSoFar(k)'
      <3>1. s \in TrackRecordState({}) /\ v \in BOOLEAN /\ approved[k] \in Nat
            /\ track'[k] = s1
            /\ approved'[k] = IF v /\ op.by = "owner" THEN approved[k] + 1 ELSE approved[k]
        BY <1>a, <2>1 DEF TypeOK
      <3>2. s.verified \in Nat /\ s.pending \in BOOLEAN /\ s.graduated \in BOOLEAN
            /\ GraduationThreshold \in Nat
        BY <3>1, ThresholdAssumption DEF TrackRecordState
      <3>3. EarnedSoFar(k)
        BY DEF EarnInv, LadderEarned
      <3>4. op.pc # "idle"
        BY <1>4 DEF Record
      <3> HIDE DEF s, v, s1
      <3>5. CASE s.graduated
        <4>1. s1.graduated
          BY <3>1, <3>5, AdvanceType DEF s1
        <4> QED
          BY <3>1, <3>2, <3>3, <3>5, <4>1 DEF EarnedSoFar, s
      <3>6. CASE ~s.graduated
        <4>1. op.by = "owner"
          BY <2>0, <3>4, <3>6 DEF EarnInv, GatePassed, s
        <4>2. CASE ~v
          BY <3>1, <3>2, <3>3, <3>6, <4>2, AdvanceType, SMTT(30) DEF EarnedSoFar, s, s1
        <4>3. CASE v /\ ~s.pending
          <5>1. s1.verified = s.verified /\ s1.pending /\ ~s1.graduated
            BY <3>1, <3>6, <4>3, AdvanceType DEF s1
          <5>2. approved'[k] = approved[k] + 1
            BY <3>1, <4>1, <4>3
          <5> QED
            BY <3>1, <3>2, <3>3, <3>6, <4>3, <5>1, <5>2 DEF EarnedSoFar, s
        <4>4. CASE v /\ s.pending
          <5>1. /\ s1.verified = s.verified + 1 /\ ~s1.pending
                /\ s1.graduated => s.verified + 1 >= GraduationThreshold
            BY <3>1, <3>6, <4>4, AdvanceType DEF s1
          <5>2. approved'[k] = approved[k] + 1
            BY <3>1, <4>1, <4>4
          <5>3. approved[k] >= 2 * s.verified + 1
            BY <3>3, <3>6, <4>4 DEF EarnedSoFar, s
          <5> QED
            BY <3>1, <3>2, <5>1, <5>2, <5>3 DEF EarnedSoFar
        <4> QED
          BY <3>1, <4>2, <4>3, <4>4
      <3> QED
        BY <3>2, <3>5, <3>6
    <2>5. LadderEarned'
      BY <2>3, <2>4 DEF LadderEarned
    <2> QED
      BY <1>a, <2>2, <2>5 DEF EarnInv
  <1>5. CASE Apply
    BY <1>2, <1>5 DEF Apply, stable, history
  <1>6. CASE ApplyRaises
    BY <1>2, <1>6 DEF ApplyRaises, stable
  <1>7. CASE Verify
    BY <1>2, <1>7 DEF Verify, stable
  <1>8. CASE Restore
    BY <1>2, <1>8 DEF Restore, stable, history
  <1>9. CASE RestoreFails
    BY <1>2, <1>9 DEF RestoreFails, stable
  <1>10. CASE ScanCycle \/ ScanVisit \/ ScanNoFix \/ ScanEnd \/ ScanPropose
    BY <1>2, <1>10 DEF ScanCycle, ScanVisit, ScanNoFix, ScanEnd, ScanPropose, stable, history
  <1>11. ASSUME NEW t \in scope \ {Boot}, ManageTarget(t) PROVE EarnInv'
    BY <1>1, <1>11 DEF ManageTarget, history, GatePassed
  <1>12. ASSUME NEW t \in Files, CooldownExpires(t) PROVE EarnInv'
    BY <1>2, <1>12 DEF CooldownExpires, history
  <1>13. ASSUME NEW t \in scope, HandChange(t) PROVE EarnInv'
    BY <1>2, <1>13 DEF HandChange, stable
  <1>14. CASE Crash
    BY <1>2, <1>14 DEF Crash, stable
  <1>15. CASE UNCHANGED vars
    BY <1>2, <1>15 DEF vars, stable, history
  <1> QED
    BY <1>3, <1>4, <1>5, <1>6, <1>7, <1>8, <1>9, <1>10, <1>11, <1>12, <1>13, <1>14, <1>15
       DEF Next, Run, Manages

\* The type invariant of the operators, for any targets and contents
\* (run_reversible_operation and the tables it records in).
THEOREM TypeCorrect == Spec => []TypeOK
  <1>1. EarnInv => TypeOK
    BY DEF EarnInv
  <1> QED
    BY <1>1, EarnInit, EarnStep, PTL DEF Spec

\* What an operator does without the owner it has done before, on this very target,
\* with the owner's approval and a passing validator, twice for every credit, and it
\* is never a boot-graph operation (operate_on_file, operate_on_service,
\* operate_on_unit_topology).
THEOREM AutonomyIsEarned == Spec => []AutonomyEarned
  <1>1. EarnInv => AutonomyEarned
    <2> SUFFICES ASSUME EarnInv, op.pc # "idle", op.by # "owner"
                 PROVE  /\ approved[<<op.o, op.t>>] >= 2 * GraduationThreshold
                        /\ op.t \in managed /\ op.o \notin BootGraphOps
      BY DEF AutonomyEarned
    <2>1. <<op.o, op.t>> \in Keys
      BY OpsIn DEF EarnInv, OpOfTarget, TypeOK
    <2> QED
      BY <2>1 DEF EarnInv, GatePassed, LadderEarned, EarnedSoFar
  <1> QED
    BY <1>1, EarnInit, EarnStep, PTL DEF Spec

-----------------------------------------------------------------------------
\* Every target is as it was left, and no operation is under way.
LEMMA KeepInit == Init => KeepInv
  <1> SUFFICES ASSUME Init PROVE KeepInv
    OBVIOUS
  <1>1. op.pc = "idle"
    BY NoOpType DEF Init
  <1> QED
    BY <1>1, TypeInit DEF Init, KeepInv, OthersKept, UndoKept

\* An operation changes its own target only, and keeps what it needs to put it back;
\* where it cannot, the target is marred.
LEMMA KeepStep == KeepInv /\ [Next]_vars => KeepInv'
  <1> SUFFICES ASSUME KeepInv, [Next]_vars PROVE KeepInv'
    OBVIOUS
  <1>a. TypeOK /\ OpOfTarget /\ TypeOK' /\ OpOfTarget'
    BY TypeStep DEF KeepInv
  <1>b. /\ op.t \in Targets /\ op.o \in Ops(op.t) /\ op.new \in Edits /\ op.snap \in TargetState
        /\ machine \in [Targets -> TargetState] /\ settled \in [Targets -> TargetState]
        /\ op.pc \in {"idle", "apply", "verify", "verified", "restore", "restored"}
    BY <1>a DEF TypeOK, OpOfTarget
  <1>c. \A p : At(p).pc = p /\ At(p).t = op.t /\ At(p).o = op.o /\ At(p).snap = op.snap
    BY <1>a DEF At, TypeOK
  <1>1. ASSUME UNCHANGED <<machine, settled, op, marred>> PROVE KeepInv'
    <2>1. OthersKept' /\ UndoKept'
      BY <1>1 DEF KeepInv, OthersKept, UndoKept
    <2> QED
      BY <1>a, <2>1 DEF KeepInv
  <1>2. ASSUME UNCHANGED <<machine, settled, marred>>, op' = NoOp,
               op.pc = "idle" \/ machine[op.t] = settled[op.t] \/ op.t \in marred
        PROVE  KeepInv'
    <2>1. OthersKept' /\ UndoKept'
      BY <1>2, NoOpType DEF KeepInv, OthersKept, UndoKept
    <2> QED
      BY <1>a, <2>1 DEF KeepInv
  <1>3. ASSUME op.pc # "idle", op'.t = op.t,
               \A t \in Targets \ {op.t} : machine'[t] = machine[t] /\ settled'[t] = settled[t],
               marred \subseteq marred'
        PROVE  OthersKept' \/ op'.pc = "idle"
    BY <1>3 DEF KeepInv, OthersKept
  <1>4. ASSUME op.pc # "idle", op' = NoOp, op.t \in marred',
               \A t \in Targets \ {op.t} : machine'[t] = machine[t] /\ settled'[t] = settled[t],
               marred \subseteq marred'
        PROVE  KeepInv'
    <2>1. OthersKept' /\ UndoKept'
      BY <1>4, NoOpType DEF KeepInv, OthersKept, UndoKept
    <2> QED
      BY <1>a, <2>1 DEF KeepInv
  <1>5. CASE Manages \/ ScanOperate
    <2>1. PICK by \in {"owner", "tool", "scan"}, t \in Targets, v \in Edits : \E o \in Ops(t) :
             Begin(by, o, t, v)
      BY <1>5, <1>a, WaysToBegin DEF Begins
    <2>2. PICK o \in Ops(t) : Begin(by, o, t, v)
      BY <2>1
    <2>3. PICK snap \in Captures(t) :
             /\ op' = Operation("apply", by, o, t, v, snap)
             /\ marred' = IF snap = machine[t] THEN marred ELSE marred \union {t}
      BY <2>2 DEF Begin
    <2>4. UNCHANGED <<machine, settled>> /\ op.pc = "idle"
      BY <2>2 DEF Begin
    <2>5. op'.pc = "apply" /\ op'.t = t /\ op'.snap = snap
      BY <2>3 DEF Operation
    <2>6. OthersKept'
      BY <2>3, <2>4, <2>5 DEF KeepInv, OthersKept
    <2>7. UndoKept'
      BY <2>3, <2>4, <2>5 DEF KeepInv, OthersKept, UndoKept
    <2> QED
      BY <1>a, <2>6, <2>7 DEF KeepInv
  <1>6. CASE Apply
    <2>1. PICK s \in Effects(op.t, op.o, op.new, machine[op.t]) : machine' = [machine EXCEPT
          ![op.t] = s]
      BY <1>6 DEF Apply
    <2>2. op' = At("verify") /\ UNCHANGED <<settled, marred>> /\ op.pc = "apply"
      BY <1>6 DEF Apply, history
    <2>3. Undo(op.t, op.o, machine[op.t], s) = machine[op.t]
      BY <1>b, UndoEffect
    <2>4. OthersKept'
      BY <1>3, <1>b, <1>c, <2>1, <2>2
    <2>5. UndoKept'
      BY <1>b, <1>c, <2>1, <2>2, <2>3 DEF KeepInv, UndoKept
    <2> QED
      BY <1>a, <2>4, <2>5 DEF KeepInv
  <1>7. CASE ApplyRaises
    <2>1. op.pc = "apply" /\ op' = NoOp /\ UNCHANGED settled
      BY <1>7 DEF ApplyRaises
    <2>2. CASE UNCHANGED <<machine, marred>>
      BY <1>2, <2>1, <2>2 DEF KeepInv, UndoKept
    <2>3. CASE /\ \E c \in {Torn, op.new} : machine' = [machine EXCEPT ![op.t].content = c]
               /\ marred' = marred \union {op.t}
      BY <1>4, <1>b, <2>1, <2>3
    <2> QED
      BY <1>7, <2>2, <2>3 DEF ApplyRaises
  <1>8. CASE Verify
    <2>1. UNCHANGED <<machine, marred>> /\ op.pc = "verify"
      BY <1>8 DEF Verify
    <2>2. CASE op' = At("verified") /\ settled' = [settled EXCEPT ![op.t] = machine[op.t]]
      <3>1. OthersKept'
        BY <1>3, <1>b, <1>c, <2>1, <2>2
      <3>2. UndoKept'
        BY <1>b, <1>c, <2>1, <2>2 DEF UndoKept
      <3> QED
        BY <1>a, <3>1, <3>2 DEF KeepInv
    <2>3. CASE op' = At("restore") /\ UNCHANGED settled
      <3>1. OthersKept'
        BY <1>3, <1>c, <2>1, <2>3
      <3>2. UndoKept'
        BY <1>c, <2>1, <2>3 DEF KeepInv, UndoKept
      <3> QED
        BY <1>a, <3>1, <3>2 DEF KeepInv
    <2> QED
      BY <1>8, <2>2, <2>3 DEF Verify
  <1>9. CASE Restore
    <2>1. /\ machine' = [machine EXCEPT ![op.t] = Undo(op.t, op.o, op.snap, @)]
          /\ op' = At("restored") /\ UNCHANGED <<settled, marred>> /\ op.pc = "restore"
      BY <1>9 DEF Restore, history
    <2>2. OthersKept'
      BY <1>3, <1>b, <1>c, <2>1
    <2>3. UndoKept'
      BY <1>b, <1>c, <2>1 DEF KeepInv, UndoKept
    <2> QED
      BY <1>a, <2>2, <2>3 DEF KeepInv
  <1>10. CASE RestoreFails
    <2>1. /\ op.pc = "restore" /\ marred' = marred \union {op.t}
          /\ UNCHANGED <<machine, settled>>
          /\ op' = At("restored") \/ op' = NoOp
      BY <1>10 DEF RestoreFails
    <2>2. CASE op' = NoOp
      BY <1>4, <2>1, <2>2
    <2>3. CASE op' = At("restored")
      <3>1. OthersKept'
        BY <1>3, <1>c, <2>1, <2>3
      <3>2. UndoKept'
        BY <1>c, <2>1, <2>3 DEF UndoKept
      <3> QED
        BY <1>a, <3>1, <3>2 DEF KeepInv
    <2> QED
      BY <2>1, <2>2, <2>3
  <1>11. CASE Record
    BY <1>2, <1>11 DEF Record, KeepInv, UndoKept
  <1>12. CASE ScanCycle \/ ScanVisit \/ ScanNoFix \/ ScanEnd \/ ScanPropose
    BY <1>1, <1>12 DEF ScanCycle, ScanVisit, ScanNoFix, ScanEnd, ScanPropose, history
  <1>13. ASSUME NEW t \in scope \ {Boot}, ManageTarget(t) PROVE KeepInv'
    BY <1>1, <1>13 DEF ManageTarget, history
  <1>14. ASSUME NEW t \in Files, CooldownExpires(t) PROVE KeepInv'
    BY <1>1, <1>14 DEF CooldownExpires, history
  <1>15. ASSUME NEW t \in scope, HandChange(t) PROVE KeepInv'
    <2>1. t \in Targets
      BY <1>a, ScopeType
    <2>2. PICK s \in ByHand(t) : /\ machine' = [machine EXCEPT ![t] = s]
                                 /\ settled' = [settled EXCEPT ![t] = s]
      BY <1>15 DEF HandChange
    <2>3. /\ op' = op
          /\ marred' = IF op.pc # "idle" /\ op.t = t THEN marred \union {t} ELSE marred \ {t}
      BY <1>15 DEF HandChange
    <2>4. OthersKept'
      BY <1>b, <2>1, <2>2, <2>3 DEF KeepInv, OthersKept
    <2>5. UndoKept'
      BY <1>b, <2>1, <2>2, <2>3 DEF KeepInv, UndoKept
    <2> QED
      BY <1>a, <2>4, <2>5 DEF KeepInv
  <1>16. CASE Crash
    <2>1. op.pc # "idle" /\ op' = NoOp /\ UNCHANGED <<machine, settled>>
      BY <1>16 DEF Crash
    <2>2. CASE op.pc \in {"verify", "restore"}
      BY <1>4, <1>16, <2>1, <2>2 DEF Crash
    <2>3. CASE op.pc \in {"apply", "verified", "restored"}
      BY <1>2, <1>16, <2>1, <2>3 DEF Crash, KeepInv, UndoKept
    <2> QED
      BY <1>b, <2>1, <2>2, <2>3
  <1>17. CASE UNCHANGED vars
    BY <1>1, <1>17 DEF vars, history
  <1> QED
    BY <1>5, <1>6, <1>7, <1>8, <1>9, <1>10, <1>11, <1>12, <1>13, <1>14, <1>15, <1>16, <1>17
       DEF Next, Run, Manages

\* Between operations every target is as the owner or a verified operation left it,
\* whatever operations have failed, but for those an operation has marred
\* (the contract of ReversibleOperation).
THEOREM OwnerStateIsKept == Spec => []OwnerStateKept
  <1>1. KeepInv => OwnerStateKept
    BY DEF KeepInv, OthersKept, OwnerStateKept
  <1> QED
    BY <1>1, KeepInit, KeepStep, PTL DEF Spec

(***************************************************************************)
(* AutonomousScan: the fixes of agents in the owner's repository.          *)
(***************************************************************************)

\* A step at which the agent's fix is known, and those at which its tests have resolved.
Resolving == {"gate", "apply"} \union ApplySteps
Judging   == {"verify"} \union Resolving
Applying  == {"apply"} \union ApplySteps

\* A fix that needs no excuse: the owner took it, or tests, class and health gate vouch for it.
Trusted(f) ==
    f \in Fix \ taken =>
        /\ \E a \in earned : <<a, f>> \in resolved
        /\ f \in healthy \union lapsed

\* What a cycle knows of the fix it works on.
CycleInv ==
    /\ \A a \in run.todo : RowsOf(a) # {}
    /\ run.step \notin {"idle", "observe"} => run.class \in Class
    /\ run.step \in Judging => run.fix \in Fix
    /\ run.step \in Resolving => <<run.class, run.fix>> \in resolved
    /\ run.step \in Applying => run.class \in earned

\* The trees a cycle remembers were trusted when it read them, and the live tree is, but for
\* the fix on trial.
TreeInv ==
    /\ \A f \in run.base \union run.before : Trusted(f)
    /\ \A f \in head : Trusted(f) \/ (f = run.fix /\ run.step \in ApplySteps \ {"restarting"})

\* A class that has graduated did so on a merged fix.
EarnedInv == \A a \in Class : record[a].graduated => a \in earned

CycleTyped == ScanTypeOK /\ CycleInv

TrustInv == CycleTyped /\ EarnedInv /\ TreeInv

\* The owner's commits, as far as the trees a cycle remembers hold them.
OwnerInv ==
    /\ run.step \in {"writing", "verify", "gate"} => run.base \subseteq head
    /\ run.step \in Applying =>
          /\ run.base \subseteq run.before
          /\ head \intersect Owner \subseteq run.before \union raced

-----------------------------------------------------------------------------
CycleState == [step : Steps, todo : SUBSET Class, seen : SUBSET Class,
               class : Class \union {NoClass}, base : Tree,
               fix : Fix \union {NoFix}, before : Tree]

\* A set of numbers that does not go beyond a bound has a greatest one.
LEMMA GreatestNumber ==
    ASSUME NEW n \in Nat, NEW T, T \subseteq 0..n, T # {}
    PROVE  \E x \in T : \A y \in T : y <= x
  <1>1. OpToRel(<, Nat) = {p \in Nat \X Nat : p[1] < p[2]}
    BY DEF OpToRel
  <1> DEFINE D == {n - x : x \in T}
  <1>2. D \subseteq Nat /\ D # {}
    <2>1. PICK t \in T : TRUE
      OBVIOUS
    <2>2. n - t \in D
      BY <2>1
    <2>3. ASSUME NEW x \in T PROVE n - x \in Nat
      OBVIOUS
    <2> QED
      BY <2>2, <2>3
  <1>3. PICK d \in D : \A y \in D : <<y, d>> \notin OpToRel(<, Nat)
    BY <1>2, WFMin, NatLessThanWellFounded
  <1>4. PICK x \in T : d = n - x
    OBVIOUS
  <1>5. ASSUME NEW y \in T PROVE y <= x
    <2>1. n - y \in D /\ n - y \in Nat /\ d \in Nat
      BY <1>2
    <2>2. <<n - y, d>> \in Nat \X Nat /\ <<n - y, d>>[1] = n - y /\ <<n - y, d>>[2] = d
      BY <2>1
    <2>3. <<n - y, d>> \notin {p \in Nat \X Nat : p[1] < p[2]}
      BY <1>1, <1>3, <2>1
    <2> QED
      BY <1>4, <2>1, <2>2, <2>3
  <1> QED
    BY <1>5

\* What _update_earned_autonomy_track_records reads is the fix of a row of the class.
LEMMA LatestIsRow ==
    ASSUME ScanTypeOK, NEW a, RowsOf(a) # {}
    PROVE  \E i \in RowsOf(a) : Latest(a) = rows[i].fix
  <1>1. RowsOf(a) \subseteq 0..Len(rows) /\ Len(rows) \in Nat
    BY DEF RowsOf, ScanTypeOK
  <1>2. \E i \in RowsOf(a) : \A j \in RowsOf(a) : j <= i
    BY <1>1, GreatestNumber
  <1> QED
    BY <1>2 DEF Latest

\* One observation on the ladder of a class.
LEMMA AdvanceByBranch ==
    ASSUME NEW s \in TrackRecordState(Fix), NEW anomaly \in BOOLEAN, NEW merged \in BOOLEAN,
           NEW branch \in Fix
    PROVE  /\ Advance(s, anomaly, merged, branch) \in TrackRecordState(Fix)
           /\ Advance(s, anomaly, merged, branch).graduated => s.graduated \/ merged
  BY DEF Advance, Regressed, WindowOpened, Credited, State, TrackRecordState, Outcomes

\* A step that only moves the cycle on.
LEMMA GotoEffect ==
    ASSUME run \in CycleState, NEW step \in Steps, Goto(step)
    PROVE  /\ run' \in CycleState /\ run'.step = step
           /\ run'.todo = run.todo /\ run'.seen = run.seen /\ run'.class = run.class
           /\ run'.base = run.base /\ run'.fix = run.fix /\ run'.before = run.before
  BY DEF CycleState, Goto

\* What one iteration over the classes does to the record and to what it was earned by.
LEMMA ObserveEffect ==
    ASSUME CycleTyped, NEW a \in Class, Observe(a)
    PROVE  /\ record' \in [Class -> TrackRecordState(Fix)]
           /\ \A b \in Class \ {a} : record'[b] = record[b]
           /\ record'[a].graduated => record[a].graduated \/ a \in earned'
           /\ earned \subseteq earned' /\ earned' \in SUBSET Class
  <1>1. PICK inspected \in BOOLEAN :
           record' = [record EXCEPT ![a] =
                        Advance(@, a \in run.seen, IsBranchMerged(Latest(a), inspected), Latest(a))]
    BY DEF Observe
  <1>2. ScanTypeOK /\ RowsOf(a) # {}
    BY DEF CycleTyped, CycleInv, Observe
  <1>3. PICK i \in RowsOf(a) : Latest(a) = rows[i].fix
    BY <1>2, LatestIsRow
  <1>4. i \in DOMAIN rows /\ Latest(a) \in Fix
    <2>1. rows \in Seq([class : Class, fix : Fix])
      BY <1>2 DEF ScanTypeOK
    <2>2. i \in DOMAIN rows /\ DOMAIN rows = 1..Len(rows)
      BY <2>1 DEF RowsOf
    <2>3. rows[i] \in [class : Class, fix : Fix]
      BY <2>1, <2>2, ElementOfSeq
    <2> QED
      BY <1>3, <2>2, <2>3
  <1> DEFINE merged == IsBranchMerged(Latest(a), inspected)
             next   == Advance(record[a], a \in run.seen, merged, Latest(a))
  <1>5. merged \in BOOLEAN /\ (merged => Latest(a) \in origin) /\ (a \in run.seen) \in BOOLEAN
    BY DEF IsBranchMerged
  <1>6. record \in [Class -> TrackRecordState(Fix)] /\ record[a] \in TrackRecordState(Fix)
    BY <1>2 DEF ScanTypeOK
  <1>7. /\ next \in TrackRecordState(Fix)
        /\ next.graduated => record[a].graduated \/ merged
    <2> HIDE DEF merged
    <2> QED
      BY <1>4, <1>5, <1>6, AdvanceByBranch
  <1>8. record' = [record EXCEPT ![a] = next]
    BY <1>1
  <1> HIDE DEF merged, next
  <1>9. /\ record' \in [Class -> TrackRecordState(Fix)] /\ record'[a] = next
        /\ \A b \in Class \ {a} : record'[b] = record[b]
    BY <1>6, <1>7, <1>8
  <1>10. merged => \E j \in RowsOf(a) : rows[j].fix \in origin
    BY <1>3, <1>5
  <1>11. earned \subseteq earned' /\ earned' \in SUBSET Class
    BY <1>2 DEF Observe, ScanTypeOK
  <1>12. next.graduated /\ merged => a \in earned'
    BY <1>9, <1>10 DEF Observe
  <1> QED
    BY <1>7, <1>9, <1>11, <1>12

\* A new row leaves the others where they are.
LEMMA RowAppended ==
    ASSUME ScanTypeOK, NEW row \in [class : Class, fix : Fix], rows' = Append(rows, row),
           row.fix \notin {rows[i].fix : i \in DOMAIN rows}
    PROVE  /\ rows' \in Seq([class : Class, fix : Fix])
           /\ \A i, j \in DOMAIN rows' : rows'[i].fix = rows'[j].fix => i = j
           /\ \A a : RowsOf(a) \subseteq RowsOf(a)'
  <1>1. rows \in Seq([class : Class, fix : Fix])
    BY DEF ScanTypeOK
  <1>2. /\ rows' \in Seq([class : Class, fix : Fix])
        /\ DOMAIN rows' = 1..(Len(rows) + 1) /\ DOMAIN rows = 1..Len(rows) /\ Len(rows) \in Nat
        /\ \A i \in DOMAIN rows : rows'[i] = rows[i]
        /\ rows'[Len(rows) + 1] = row
    BY <1>1
  <1>3. ASSUME NEW i \in DOMAIN rows', NEW j \in DOMAIN rows', rows'[i].fix = rows'[j].fix
        PROVE  i = j
    <2>1. \A k \in DOMAIN rows' : k \in DOMAIN rows \/ k = Len(rows) + 1
      BY <1>2
    <2> QED
      BY <1>2, <1>3, <2>1 DEF ScanTypeOK
  <1>4. \A a : RowsOf(a) \subseteq RowsOf(a)'
    <2>1. DOMAIN rows \subseteq DOMAIN rows'
      BY <1>2
    <2> QED
      BY <1>2, <2>1 DEF RowsOf
  <1> QED
    BY <1>2, <1>3, <1>4

LEMMA BaseInit == ScanInit => CycleTyped /\ EarnedInv
  BY CommitAssumption DEF CycleTyped, EarnedInv, ScanInit, ScanTypeOK, CycleInv, NoCycle, Cycle,
    CycleState, Steps, ApplySteps, Tree,
     Untrusted, TrackRecordState, State, NoBranch, Outcomes, Judging, Resolving, Applying

LEMMA BaseStep == CycleTyped /\ EarnedInv /\ [ScanNext]_scanVars => CycleTyped'
  <1> SUFFICES ASSUME CycleTyped, EarnedInv, [ScanNext]_scanVars
               PROVE  CycleTyped'
    OBVIOUS
  <1> USE CommitAssumption DEF CycleTyped, ScanTypeOK, CycleInv, Steps, ApplySteps, Judging,
        Resolving, Applying,
          AtStep, Goto, scanHistory, RowsOf
  <1>1. CASE Scan
    BY <1>1 DEF Scan, Cycle, Tree
  <1>2. CASE NothingToDo
    BY <1>2 DEF NothingToDo, Cycle, NoCycle, Tree
  <1>3. CASE SelfSuppress
    BY <1>3 DEF SelfSuppress, Cycle, NoCycle, Tree
  <1>4. CASE CreateWorktree
    <2>1. run' \in CycleState /\ run'.step = "writing" /\ run'.class = run.class /\ run'.todo =
          run.todo
      BY <1>4 DEF CreateWorktree, CycleState
    <2>2. ScanTypeOK'
      BY <1>4, <2>1 DEF CreateWorktree, CycleState
    <2>3. CycleInv'
      BY <1>4, <2>1 DEF CreateWorktree
    <2> QED
      BY <2>2, <2>3
  <1>5. CASE ReadOnlyInPlace
    <2>1. run \in CycleState /\ Goto("finish")
      BY <1>5 DEF ReadOnlyInPlace, CycleState
    <2>2. ScanTypeOK'
      BY <1>5, <2>1, GotoEffect DEF ReadOnlyInPlace, CycleState
    <2>3. CycleInv'
      BY <1>5, <2>1, GotoEffect DEF ReadOnlyInPlace, CycleState
    <2> QED
      BY <2>2, <2>3
  <1>6. CASE AgentReports
    <2>1. run \in CycleState /\ Goto("finish")
      BY <1>6 DEF AgentReports, CycleState
    <2>2. ScanTypeOK'
      BY <1>6, <2>1, GotoEffect DEF AgentReports, CycleState
    <2>3. CycleInv'
      BY <1>6, <2>1, GotoEffect DEF AgentReports, CycleState
    <2> QED
      BY <2>2, <2>3
  <1>7. CASE AgentFails
    BY <1>7 DEF AgentFails, Cycle, NoCycle, Tree
  <1>8. CASE Finish
    BY <1>8 DEF Finish, Cycle, NoCycle, Tree
  <1>9. CASE AutoApply
    <2>1. /\ run' \in CycleState /\ run'.step = "apply" /\ run'.class = run.class
          /\ run'.todo = run.todo /\ run'.fix = run.fix
      BY <1>9 DEF AutoApply, CycleState
    <2>2. run.class.service \in Service /\ run.fix \in Fix
      BY <1>9 DEF AutoApply, MayApply, Class, FailedServices, RecentErrors, Resources, NoService
    <2>3. ScanTypeOK'
      BY <1>9, <2>1, <2>2 DEF AutoApply, CycleState
    <2>4. CycleInv'
      BY <1>9, <2>1, <2>2 DEF AutoApply, MayApply, EarnedInv
    <2> QED
      BY <2>3, <2>4
  <1>10. CASE ProposeOnly
    <2>1. run \in CycleState /\ Goto("finish")
      BY <1>10 DEF ProposeOnly, CycleState
    <2>2. ScanTypeOK'
      BY <1>10, <2>1, GotoEffect DEF ProposeOnly, CycleState
    <2>3. CycleInv'
      BY <1>10, <2>1, GotoEffect DEF ProposeOnly, CycleState
    <2> QED
      BY <2>2, <2>3
  <1>11. CASE Merge
    <2>1. run \in CycleState /\ Goto("merged")
      BY <1>11 DEF Merge, CycleState
    <2>2. ScanTypeOK'
      BY <1>11, <2>1, GotoEffect DEF Merge, CycleState, FastForward, Branch, Tree
    <2>3. CycleInv'
      BY <1>11, <2>1, GotoEffect DEF Merge, CycleState
    <2> QED
      BY <2>2, <2>3
  <1>12. CASE MergeRefused
    <2>1. run \in CycleState /\ Goto("finish")
      BY <1>12 DEF MergeRefused, CycleState
    <2>2. ScanTypeOK'
      BY <1>12, <2>1, GotoEffect DEF MergeRefused, CycleState
    <2>3. CycleInv'
      BY <1>12, <2>1, GotoEffect DEF MergeRefused, CycleState
    <2> QED
      BY <2>2, <2>3
  <1>13. CASE MergeAbandoned
    <2>1. run \in CycleState /\ Goto("finish")
      BY <1>13 DEF MergeAbandoned, CycleState
    <2>2. ScanTypeOK'
      BY <1>13, <2>1, GotoEffect DEF MergeAbandoned, CycleState
    <2>3. CycleInv'
      BY <1>13, <2>1, GotoEffect DEF MergeAbandoned, CycleState
    <2> QED
      BY <2>2, <2>3
  <1>14. CASE Restart
    <2>1. run \in CycleState /\ Goto("probing")
      BY <1>14 DEF Restart, CycleState
    <2>2. ScanTypeOK'
      BY <1>14, <2>1, GotoEffect DEF Restart, CycleState
    <2>3. CycleInv'
      BY <1>14, <2>1, GotoEffect DEF Restart, CycleState
    <2> QED
      BY <2>2, <2>3
  <1>15. CASE RestartFails
    <2>1. run \in CycleState /\ Goto("rollback")
      BY <1>15 DEF RestartFails, CycleState
    <2>2. ScanTypeOK'
      BY <1>15, <2>1, GotoEffect DEF RestartFails, CycleState
    <2>3. CycleInv'
      BY <1>15, <2>1, GotoEffect DEF RestartFails, CycleState
    <2> QED
      BY <2>2, <2>3
  <1>16. CASE Healthy
    <2>1. run \in CycleState /\ Goto("finish")
      BY <1>16 DEF Healthy, CycleState
    <2>2. ScanTypeOK'
      BY <1>16, <2>1, GotoEffect DEF Healthy, CycleState
    <2>3. CycleInv'
      BY <1>16, <2>1, GotoEffect DEF Healthy, CycleState
    <2> QED
      BY <2>2, <2>3
  <1>17. CASE Unhealthy
    <2>1. run \in CycleState /\ Goto("rollback")
      BY <1>17 DEF Unhealthy, CycleState
    <2>2. ScanTypeOK'
      BY <1>17, <2>1, GotoEffect DEF Unhealthy, CycleState
    <2>3. CycleInv'
      BY <1>17, <2>1, GotoEffect DEF Unhealthy, CycleState
    <2> QED
      BY <2>2, <2>3
  <1>18. CASE Rollback
    <2>1. run \in CycleState /\ Goto("restarting")
      BY <1>18 DEF Rollback, CycleState
    <2>2. ScanTypeOK'
      BY <1>18, <2>1, GotoEffect DEF Rollback, CycleState, Tree
    <2>3. CycleInv'
      BY <1>18, <2>1, GotoEffect DEF Rollback, CycleState
    <2> QED
      BY <2>2, <2>3
  <1>19. CASE RestartAgain
    <2>1. run \in CycleState /\ Goto("finish")
      BY <1>19 DEF RestartAgain, CycleState
    <2>2. ScanTypeOK'
      BY <1>19, <2>1, GotoEffect DEF RestartAgain, CycleState
    <2>3. CycleInv'
      BY <1>19, <2>1, GotoEffect DEF RestartAgain, CycleState
    <2> QED
      BY <2>2, <2>3
  <1>20. CASE ScanCrash
    BY <1>20 DEF ScanCrash, Cycle, NoCycle, Tree
  <1>21. ASSUME NEW a \in Class, Observe(a) PROVE CycleTyped'
    <2>1. run' \in CycleState /\ run'.step = "observe" /\ run'.todo = run.todo \ {a}
      BY <1>21 DEF Observe, CycleState
    <2>3. record' \in [Class -> TrackRecordState(Fix)] /\ earned' \in SUBSET Class
      BY <1>21, ObserveEffect
    <2>4. ScanTypeOK'
      BY <1>21, <2>1, <2>3 DEF Observe, CycleState
    <2>5. CycleInv'
      BY <1>21, <2>1 DEF Observe
    <2> QED
      BY <2>4, <2>5
  <1>22. ASSUME NEW a \in Class, Choose(a) PROVE CycleTyped'
    BY <1>22 DEF Choose, Cycle, Candidates, Tree
  <1>23. ASSUME NEW a \in Class, ScanCooldownExpires(a) PROVE CycleTyped'
    BY <1>23 DEF ScanCooldownExpires
  <1>24. ASSUME NEW f \in Fix, AgentCommits(f) PROVE CycleTyped'
    <2>1. /\ run' \in CycleState /\ run'.step = "verify" /\ run'.class = run.class
          /\ run'.todo = run.todo /\ run'.fix = f
      BY <1>24 DEF AgentCommits, CycleState
    <2>2. rows' = rows \/ rows' = Append(rows, [class |-> run.class, fix |-> f])
      BY <1>24 DEF AgentCommits, RecordCommit
    <2>3. /\ rows' \in Seq([class : Class, fix : Fix])
          /\ \A i, j \in DOMAIN rows' : rows'[i].fix = rows'[j].fix => i = j
          /\ \A a : RowsOf(a) \subseteq RowsOf(a)'
      <3>1. ScanTypeOK /\ [class |-> run.class, fix |-> f] \in [class : Class, fix : Fix]
        BY <1>24 DEF AgentCommits
      <3> HIDE DEF ScanTypeOK, RowsOf
      <3>2. CASE rows' = rows
        BY <3>1, <3>2 DEF ScanTypeOK, RowsOf
      <3>3. CASE rows' = Append(rows, [class |-> run.class, fix |-> f])
        <4>1. f \notin {rows[i].fix : i \in DOMAIN rows}
          BY <1>24 DEF AgentCommits
        <4> QED
          BY <3>1, <3>3, <4>1, RowAppended
      <3> QED
        BY <2>2, <3>2, <3>3
    <2>4. ScanTypeOK'
      BY <1>24, <2>1, <2>3 DEF AgentCommits, CycleState
    <2>5. CycleInv'
      BY <1>24, <2>1, <2>3 DEF AgentCommits
    <2> QED
      BY <2>4, <2>5
  <1>25. ASSUME NEW before \in TestRun, NEW after \in TestRun, VerifyFix(before, after) PROVE
        CycleTyped'
    BY <1>25 DEF VerifyFix
  <1>26. ASSUME NEW c \in Owner, OwnerCommits(c) PROVE CycleTyped'
    BY <1>26 DEF OwnerCommits, Tree
  <1>27. ASSUME NEW f \in Fix, OwnerMerges(f) PROVE CycleTyped'
    BY <1>27 DEF OwnerMerges, Tree
  <1>28. CASE UNCHANGED scanVars
    BY <1>28 DEF scanVars
  <1> QED
    BY <1>1, <1>2, <1>3, <1>4, <1>5, <1>6, <1>7, <1>8, <1>9, <1>10, <1>11, <1>12, <1>13, <1>14,
      <1>15, <1>16, <1>17, <1>18, <1>19, <1>20, <1>21, <1>22, <1>23, <1>24, <1>25, <1>26, <1>27,
            <1>28 DEF ScanNext, Investigate, ApplyFix

\* What a class has earned is on its record only after a fix of it was merged.
LEMMA EarnedStep == CycleTyped /\ EarnedInv /\ [ScanNext]_scanVars => EarnedInv'
  <1> SUFFICES ASSUME CycleTyped, EarnedInv, [ScanNext]_scanVars
               PROVE  EarnedInv'
    OBVIOUS
  <1>1. ASSUME NEW a \in Class, Observe(a) PROVE EarnedInv'
    BY <1>1, ObserveEffect DEF EarnedInv
  <1>2. CASE UNCHANGED <<record, earned>>
    BY <1>2 DEF EarnedInv
  <1>3. (\E a \in Class : Observe(a)) \/ UNCHANGED <<record, earned>>
    BY DEF ScanNext, Investigate, ApplyFix, scanVars, scanHistory, Scan, NothingToDo, SelfSuppress,
       CreateWorktree, ReadOnlyInPlace, AgentReports, AgentFails, Finish, AutoApply, ProposeOnly,
       Merge, MergeRefused, MergeAbandoned, Restart, RestartFails, Healthy, Unhealthy, Rollback,
       RestartAgain, ScanCrash, Choose, ScanCooldownExpires, AgentCommits, VerifyFix, OwnerCommits,
       OwnerMerges
  <1> QED
    BY <1>1, <1>2, <1>3

\* Verdicts, probes, merges and failures are never forgotten.
LEMMA TrustGrows ==
    ASSUME CycleTyped, [ScanNext]_scanVars
    PROVE  \A f : Trusted(f) => Trusted(f)'
  <1>1. /\ taken \subseteq taken' /\ resolved \subseteq resolved' /\ healthy \subseteq healthy'
        /\ earned \subseteq earned' /\ lapsed \subseteq lapsed'
    <2>1. CASE \E a \in Class : Observe(a)
      BY <2>1, ObserveEffect DEF Observe
    <2>2. CASE ~\E a \in Class : Observe(a)
      BY <2>2 DEF ScanNext, Investigate, ApplyFix, scanVars, scanHistory, Scan, NothingToDo,
        SelfSuppress,
         CreateWorktree, ReadOnlyInPlace, AgentReports, AgentFails, Finish, AutoApply, ProposeOnly,
         Merge, MergeRefused, MergeAbandoned, Restart, RestartFails, Healthy, Unhealthy, Rollback,
         RestartAgain, ScanCrash, Choose, ScanCooldownExpires, AgentCommits, VerifyFix,
               OwnerCommits,
         OwnerMerges
    <2> QED
      BY <2>1, <2>2
  <1> QED
    BY <1>1 DEF Trusted

\* A fix known before a step needs no excuse after it.
VouchedFor(f) ==
    f \in Fix \ taken' =>
        /\ \E a \in earned' : <<a, f>> \in resolved'
        /\ f \in healthy' \union lapsed'

\* At the end of a trial the fix is vouched for, or the failure is on record.
LEMMA TrialVouches ==
    ASSUME CycleTyped, [ScanNext]_scanVars, run.step \in ApplySteps,
           run.fix \in healthy' \union lapsed', UNCHANGED <<taken, resolved, earned>>
    PROVE  VouchedFor(run.fix)
  BY DEF CycleTyped, CycleInv, Resolving, Applying, ApplySteps, VouchedFor

LEMMA TreeInit == ScanInit => TreeInv
  BY DEF ScanInit, TreeInv, NoCycle, Cycle

\* The trees a cycle remembers, and the live tree but for the fix on trial, stay trusted.
LEMMA TreeStep == TrustInv /\ [ScanNext]_scanVars => TreeInv'
  <1> SUFFICES ASSUME TrustInv, [ScanNext]_scanVars
               PROVE  TreeInv'
    OBVIOUS
  <1>typed. CycleTyped /\ EarnedInv /\ TreeInv /\ run \in CycleState
    BY DEF TrustInv, CycleTyped, ScanTypeOK, CycleState
  <1>grows. \A f : (Trusted(f) => Trusted(f)') /\ (VouchedFor(f) => Trusted(f)')
    BY <1>typed, TrustGrows DEF VouchedFor, Trusted
  <1>steps. run.step \in Steps
    BY <1>typed DEF CycleState
  <1> USE DEF AtStep, ApplySteps, Steps
  <1>1. ASSUME run' = NoCycle, UNCHANGED head, run.step \notin ApplySteps PROVE TreeInv'
    BY <1>1, <1>typed, <1>grows DEF TreeInv, NoCycle, Cycle
  <1>2. CASE Scan
    BY <1>2, <1>typed, <1>grows DEF Scan, TreeInv, Cycle, CycleState
  <1>3. CASE NothingToDo \/ SelfSuppress \/ AgentFails \/ Finish
    BY <1>1, <1>3 DEF NothingToDo, SelfSuppress, AgentFails, Finish
  <1>4. CASE CreateWorktree
    <2>1. run'.base = head /\ run'.before = run.before /\ run'.step = "writing" /\ head' = head
      BY <1>4, <1>typed DEF CreateWorktree, CycleState
    <2> QED
      BY <1>4, <1>typed, <1>grows, <2>1 DEF TreeInv, CreateWorktree
  <1>5. CASE ReadOnlyInPlace \/ AgentReports \/ ProposeOnly \/ MergeRefused
    <2>1. Goto("finish") /\ head' = head /\ run.step \notin ApplySteps
      BY <1>5 DEF ReadOnlyInPlace, AgentReports, ProposeOnly, MergeRefused
    <2> QED
      BY <1>typed, <1>grows, <2>1, GotoEffect DEF TreeInv
  <1>6. CASE AutoApply
    <2>1. run'.base = run.base /\ run'.before = head /\ run'.step = "apply" /\ head' = head
      BY <1>6, <1>typed DEF AutoApply, CycleState
    <2> QED
      BY <1>6, <1>typed, <1>grows, <2>1 DEF TreeInv, AutoApply
  <1>7. CASE Merge
    <2>1. Goto("merged") /\ head' = FastForward(head)
      BY <1>7 DEF Merge
    <2>2. \A f \in head' : f \in head \/ f \in run.base \/ f = run.fix
      BY <2>1 DEF FastForward, Branch
    <2>3. run.step = "apply"
      BY <1>7 DEF Merge
    <2> QED
      BY <1>typed, <1>grows, <2>1, <2>2, <2>3, GotoEffect DEF TreeInv
  <1>8. CASE Restart \/ RestartFails \/ Unhealthy
    <2>1. (Goto("probing") \/ Goto("rollback")) /\ head' = head
          /\ run.step \in ApplySteps \ {"restarting"}
      BY <1>8 DEF Restart, RestartFails, Unhealthy
    <2> QED
      BY <1>typed, <1>grows, <2>1, GotoEffect DEF TreeInv
  <1>9. CASE MergeAbandoned \/ Healthy
    <2>1. Goto("finish") /\ head' = head /\ run.step \in ApplySteps
      BY <1>9 DEF MergeAbandoned, Healthy
    <2>2. VouchedFor(run.fix)
      BY <1>9, <1>typed, <2>1, TrialVouches DEF MergeAbandoned, Healthy
    <2> QED
      BY <1>typed, <1>grows, <2>1, <2>2, GotoEffect DEF TreeInv
  <1>10. CASE Rollback
    <2>1. Goto("restarting") /\ run.step = "rollback"
      BY <1>10 DEF Rollback
    <2>2. CASE head' = run.before
      BY <1>typed, <1>grows, <2>1, <2>2, GotoEffect DEF TreeInv
    <2>3. CASE lapsed' = lapsed \union {run.fix} /\ head' = head
      <3>1. VouchedFor(run.fix)
        BY <1>10, <1>typed, <2>1, <2>3, TrialVouches DEF Rollback
      <3> QED
        BY <1>typed, <1>grows, <2>1, <2>3, <3>1, GotoEffect DEF TreeInv
    <2> QED
      BY <1>10, <2>2, <2>3 DEF Rollback
  <1>11. CASE RestartAgain
    <2>1. Goto("finish") /\ head' = head /\ run.step = "restarting"
      BY <1>11 DEF RestartAgain
    <2> QED
      BY <1>typed, <1>grows, <2>1, GotoEffect DEF TreeInv
  <1>12. CASE ScanCrash
    <2>1. run' = NoCycle /\ head' = head
      BY <1>12 DEF ScanCrash
    <2>2. run.step \in ApplySteps => VouchedFor(run.fix)
      BY <1>12, <1>typed, TrialVouches DEF ScanCrash
    <2> QED
      BY <1>typed, <1>grows, <2>1, <2>2 DEF TreeInv, NoCycle, Cycle
  <1>13. ASSUME NEW a \in Class, Observe(a) PROVE TreeInv'
    <2>1. run'.base = run.base /\ run'.before = run.before /\ run.step = "observe" /\ head' = head
      BY <1>13, <1>typed DEF Observe, CycleState
    <2> QED
      BY <1>typed, <1>grows, <2>1 DEF TreeInv
  <1>14. ASSUME NEW a \in Class, Choose(a) PROVE TreeInv'
    <2>1. run'.base = {} /\ run'.before = {} /\ run.step = "observe" /\ head' = head
      BY <1>14 DEF Choose, Cycle
    <2> QED
      BY <1>typed, <1>grows, <2>1 DEF TreeInv
  <1>15. ASSUME NEW f \in Fix, AgentCommits(f) PROVE TreeInv'
    <2>1. run'.base = run.base /\ run'.before = run.before /\ run.step = "writing" /\ head' = head
      BY <1>15, <1>typed DEF AgentCommits, CycleState
    <2> QED
      BY <1>typed, <1>grows, <2>1 DEF TreeInv
  <1>16. ASSUME NEW before \in TestRun, NEW after \in TestRun, VerifyFix(before, after)
         PROVE  TreeInv'
    <2>1. (Goto("gate") \/ Goto("finish")) /\ head' = head /\ run.step = "verify"
      BY <1>16 DEF VerifyFix
    <2> QED
      BY <1>typed, <1>grows, <2>1, GotoEffect DEF TreeInv
  <1>17. ASSUME NEW c \in Owner, OwnerCommits(c) PROVE TreeInv'
    BY <1>17, <1>typed, <1>grows, CommitAssumption DEF OwnerCommits, TreeInv, Trusted
  <1>18. ASSUME NEW f \in Fix, OwnerMerges(f) PROVE TreeInv'
    BY <1>18, <1>typed, <1>grows DEF OwnerMerges, TreeInv, Trusted
  <1>19. CASE UNCHANGED <<head, run>>
    BY <1>19, <1>typed, <1>grows DEF TreeInv
  <1>20. ASSUME NEW a \in Class, ScanCooldownExpires(a) PROVE TreeInv'
    BY <1>19, <1>20 DEF ScanCooldownExpires
  <1> QED
    BY <1>2, <1>3, <1>4, <1>5, <1>6, <1>7, <1>8, <1>9, <1>10, <1>11, <1>12, <1>13, <1>14, <1>15,
       <1>16, <1>17, <1>18, <1>19, <1>20 DEF ScanNext, Investigate, ApplyFix, scanVars

LEMMA TrustAlways == ScanSpec => []TrustInv
  <1>1. ScanInit => TrustInv
    BY BaseInit, TreeInit DEF TrustInv
  <1>2. TrustInv /\ [ScanNext]_scanVars => TrustInv'
    BY BaseStep, EarnedStep, TreeStep DEF TrustInv
  <1> QED
    BY <1>1, <1>2, PTL DEF ScanSpec

\* Every variable of the scan keeps its type, and a repository row names a fix once.
THEOREM ScanTypeCorrect == ScanSpec => []ScanTypeOK
  <1>1. TrustInv => ScanTypeOK
    BY DEF TrustInv, CycleTyped
  <1> QED
    BY <1>1, TrustAlways, PTL

\* reversible_apply and the gate in front of it: whatever fails, and whenever the owner works
\* in the tree, a fix in it was merged by the owner, or was resolved in a class that earned it
\* and found healthy, or is on trial, or is on record as cut short.
THEOREM TreeIsTrusted == ScanSpec => []TrustedTree
  <1>1. TrustInv => TrustedTree
    BY DEF TrustInv, TreeInv, Trusted, TrustedTree, CycleTyped, CycleInv, Resolving, Applying,
      ApplySteps
  <1> QED
    BY <1>1, TrustAlways, PTL

-----------------------------------------------------------------------------
LEMMA OwnerInit == ScanInit => OwnerInv
  BY DEF ScanInit, OwnerInv, NoCycle, Cycle, Applying, ApplySteps

\* The commits of the owner outside a trial only grow, and a trial remembers them in `before`.
LEMMA OwnerStep == TrustInv /\ OwnerInv /\ [ScanNext]_scanVars => OwnerInv'
  <1> SUFFICES ASSUME TrustInv, OwnerInv, [ScanNext]_scanVars
               PROVE  OwnerInv'
    OBVIOUS
  <1>typed. CycleTyped /\ run \in CycleState
    BY DEF TrustInv, CycleTyped, ScanTypeOK, CycleState
  <1>fix. run.step \in Applying => run.fix \in Fix
    BY <1>typed DEF CycleTyped, CycleInv, Judging, Resolving, Applying
  <1> USE DEF AtStep, Applying, ApplySteps, Steps
  <1>1. ASSUME run'.step \notin {"writing", "verify", "gate"} \union Applying PROVE OwnerInv'
    BY <1>1 DEF OwnerInv
  <1>2. CASE Scan
    <2>1. run'.step = "observe" \/ (run' = run /\ run.step = "idle")
      BY <1>2 DEF Scan, Cycle
    <2> QED
      BY <1>1, <2>1
  <1>3. CASE NothingToDo \/ SelfSuppress \/ AgentFails \/ Finish \/ ScanCrash
    <2>1. run'.step = "idle"
      BY <1>3 DEF NothingToDo, SelfSuppress, AgentFails, Finish, ScanCrash, NoCycle, Cycle
    <2> QED
      BY <1>1, <2>1
  <1>4. CASE ReadOnlyInPlace \/ AgentReports \/ ProposeOnly \/ MergeRefused \/ MergeAbandoned
             \/ Healthy \/ RestartAgain
    <2>1. run'.step = "finish"
      BY <1>4, <1>typed DEF ReadOnlyInPlace, AgentReports, ProposeOnly, MergeRefused,
        MergeAbandoned,
         Healthy, RestartAgain, Goto, CycleState
    <2> QED
      BY <1>1, <2>1
  <1>5. CASE CreateWorktree
    <2>1. run'.base = head /\ run'.step = "writing" /\ head' = head
      BY <1>5, <1>typed DEF CreateWorktree, CycleState
    <2> QED
      BY <2>1 DEF OwnerInv
  <1>6. CASE AutoApply
    <2>1. /\ run'.base = run.base /\ run'.before = head /\ run'.step = "apply" /\ head' = head
          /\ run.step = "gate"
      BY <1>6, <1>typed DEF AutoApply, CycleState
    <2> QED
      BY <2>1 DEF OwnerInv
  <1>7. CASE Merge
    <2>1. Goto("merged") /\ head' = FastForward(head) /\ raced' = raced /\ run.step = "apply"
      BY <1>7 DEF Merge, scanHistory
    <2>2. \A c \in head' : c \in head \/ c \in run.base \/ c = run.fix
      BY <2>1 DEF FastForward, Branch
    <2>3. run.fix \notin Owner
      BY <1>fix, <2>1, CommitAssumption
    <2> QED
      BY <1>typed, <2>1, <2>2, <2>3, GotoEffect DEF OwnerInv
  <1>8. CASE Restart \/ RestartFails \/ Unhealthy
    <2>1. /\ Goto("probing") \/ Goto("rollback")
          /\ head' = head /\ raced' = raced /\ run.step \in ApplySteps
      BY <1>8 DEF Restart, RestartFails, Unhealthy, scanHistory
    <2> QED
      BY <1>typed, <2>1, GotoEffect DEF OwnerInv
  <1>9. CASE Rollback
    <2>1. /\ Goto("restarting") /\ raced' = raced /\ run.step = "rollback"
          /\ head' = run.before \/ head' = head
      BY <1>9 DEF Rollback
    <2> QED
      BY <1>typed, <2>1, GotoEffect DEF OwnerInv
  <1>10. ASSUME NEW a \in Class, Observe(a) PROVE OwnerInv'
    <2>1. run'.step = "observe"
      BY <1>10, <1>typed DEF Observe, CycleState
    <2> QED
      BY <1>1, <2>1
  <1>11. ASSUME NEW a \in Class, Choose(a) PROVE OwnerInv'
    <2>1. run'.step = "agent"
      BY <1>11 DEF Choose, Cycle
    <2> QED
      BY <1>1, <2>1
  <1>12. ASSUME NEW f \in Fix, AgentCommits(f) PROVE OwnerInv'
    <2>1. run'.base = run.base /\ run'.step = "verify" /\ run.step = "writing" /\ head' = head
      BY <1>12, <1>typed DEF AgentCommits, CycleState
    <2> QED
      BY <2>1 DEF OwnerInv
  <1>13. ASSUME NEW before \in TestRun, NEW after \in TestRun, VerifyFix(before, after)
         PROVE  OwnerInv'
    <2>1. (Goto("gate") \/ Goto("finish")) /\ head' = head /\ run.step = "verify"
      BY <1>13 DEF VerifyFix
    <2> QED
      BY <1>typed, <2>1, GotoEffect DEF OwnerInv
  <1>14. ASSUME NEW c \in Owner, OwnerCommits(c) PROVE OwnerInv'
    BY <1>14 DEF OwnerCommits, OwnerInv
  <1>15. ASSUME NEW f \in Fix, OwnerMerges(f) PROVE OwnerInv'
    BY <1>15, CommitAssumption DEF OwnerMerges, OwnerInv
  <1>16. CASE UNCHANGED <<head, run, raced>>
    BY <1>16 DEF OwnerInv
  <1>17. ASSUME NEW a \in Class, ScanCooldownExpires(a) PROVE OwnerInv'
    BY <1>16, <1>17 DEF ScanCooldownExpires, scanHistory
  <1> QED
    BY <1>2, <1>3, <1>4, <1>5, <1>6, <1>7, <1>8, <1>9, <1>10, <1>11, <1>12, <1>13, <1>14, <1>15,
       <1>16, <1>17 DEF ScanNext, Investigate, ApplyFix, scanVars

\* What a step takes out of the live tree: only git merge and git reset move HEAD.
LEMMA OwnerLoss ==
    ASSUME TrustInv, OwnerInv, ScanNext
    PROVE  (head \intersect Owner) \ head' \subseteq raced
  <1>1. CASE Merge
    <2>1. head \subseteq head'
      BY <1>1 DEF Merge, FastForward
    <2> QED
      BY <2>1
  <1>2. CASE Rollback
    <2>1. run.step = "rollback" /\ (head' = run.before \/ head' = head)
      BY <1>2 DEF Rollback, AtStep
    <2> QED
      BY <2>1 DEF OwnerInv, Applying, ApplySteps
  <1>3. CASE ~Merge /\ ~Rollback
    <2>1. head \subseteq head'
      BY <1>3 DEF ScanNext, Investigate, ApplyFix, Scan, NothingToDo, SelfSuppress, CreateWorktree,
         ReadOnlyInPlace, AgentReports, AgentFails, Finish, AutoApply, ProposeOnly, MergeRefused,
         MergeAbandoned, Restart, RestartFails, Healthy, Unhealthy, RestartAgain, ScanCrash,
               Observe,
         Choose, ScanCooldownExpires, AgentCommits, VerifyFix, OwnerCommits, OwnerMerges
    <2> QED
      BY <2>1
  <1> QED
    BY <1>1, <1>2, <1>3

\* The fast-forward and the rollback of reversible_apply: no step takes a commit of the owner
\* out of the live tree, except one that was made while a fix was on trial.
THEOREM OwnerCommitsAreKept == ScanSpec => OwnerCommitsKept
  <1>1. ScanInit => TrustInv /\ OwnerInv
    BY BaseInit, TreeInit, OwnerInit DEF TrustInv
  <1>2. TrustInv /\ OwnerInv /\ [ScanNext]_scanVars => TrustInv' /\ OwnerInv'
    BY BaseStep, EarnedStep, TreeStep, OwnerStep DEF TrustInv
  <1>3. TrustInv /\ OwnerInv /\ [ScanNext]_scanVars
        => [(head \intersect Owner) \ head' \subseteq raced]_scanVars
    BY OwnerLoss
  <1> QED
    BY <1>1, <1>2, <1>3, PTL DEF ScanSpec, OwnerCommitsKept
==============================================================================
