----------------------------- MODULE TrackRecord -----------------------------
(***************************************************************************)
(* The earned-autonomy ladder of anima/kernel/track_record.py: the pure    *)
(* function that turns one observation of an autonomous fix into the next  *)
(* track-record state.  The same function drives the code-fix table        *)
(* (autonomy_track_record, keyed by branch) and, through                   *)
(* db.update_operator_track_record, every operator class (no branch).      *)
(***************************************************************************)
EXTENDS Naturals

CONSTANT GraduationThreshold   \* GRADUATION_THRESHOLD

ASSUME ThresholdAssumption == GraduationThreshold \in Nat \ {0}

\* fix_branch is None for every operator class.
NoBranch == "none"

Outcomes == {"none", "merged_regressed", "merged_pending_stability", "merged_resolved"}

\* pending stands for "pending_since is not None"; the time itself is never compared.
TrackRecordState(branches) ==
    [verified : Nat, graduated : BOOLEAN, pending : BOOLEAN,
     branch : branches \union {NoBranch}, outcome : Outcomes]

State(verified, graduated, pending, branch, outcome) ==
    [verified |-> verified, graduated |-> graduated, pending |-> pending,
     branch |-> branch, outcome |-> outcome]

\* What get_track_record returns when there is no row.
Untrusted == State(0, FALSE, FALSE, NoBranch, "none")

\* _advance_state: nothing changes before the merge; a regression closes the stability
\* window; the first clean cycle of a branch opens it, the second one counts.
Regressed(s, branch) ==
    State(s.verified, s.graduated, FALSE, branch, "merged_regressed")

WindowOpened(s, branch) ==
    State(s.verified, s.graduated, TRUE, branch, "merged_pending_stability")

Credited(s) ==
    State(s.verified + 1, s.graduated \/ s.verified + 1 >= GraduationThreshold,
          FALSE, s.branch, "merged_resolved")

Advance(s, anomaly, merged, branch) ==
    IF ~merged THEN s
    ELSE IF anomaly THEN Regressed(s, branch)
    ELSE IF ~s.pending \/ s.branch # branch THEN WindowOpened(s, branch)
    ELSE Credited(s)

\* Mutant of AdvanceOperator: the target is passed as fix_branch.
AdvanceOperatorByTarget(s, verified) == Advance(s, ~verified, TRUE, "target")

\* The call db.update_operator_track_record makes for one operation outcome.
AdvanceOperator(s, verified) == Advance(s, ~verified, TRUE, NoBranch)

=============================================================================
