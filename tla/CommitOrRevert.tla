--------------------------- MODULE CommitOrRevert ----------------------------
(***************************************************************************)
(* What every deadman of anima promises: a change is on trial from its     *)
(* first effect until it is kept or taken back, and taking it back means   *)
(* the very state from before the trial.  The front door (frontdoor.py)    *)
(* and the PAM operator (pam_operator.py) are checked against it; that     *)
(* they, self-reload (self_reload.py) and the venv operator                *)
(* (venv_operator.py) implement it is proved.                              *)
(***************************************************************************)
CONSTANTS
    Version,      \* what is changed on trial
    Withdrawn(_)  \* the version with the feature removed

VARIABLES
    current,    \* the version in force
    fallback    \* the version from before the trial, None outside a trial

CONSTANT None  \* no Version

Init == current \in Version /\ fallback = None

\* A trial starts, or the change on trial goes on.
Try(s) ==
    /\ current' = s
    /\ fallback' = IF fallback = None THEN current ELSE fallback

Keep ==
    /\ fallback # None
    /\ fallback' = None
    /\ UNCHANGED current

Return ==
    /\ fallback # None
    /\ current' = fallback
    /\ fallback' = None

\* The owner removes the feature by hand, on trial or not.
Withdraw ==
    /\ current' = Withdrawn(current)
    /\ UNCHANGED fallback

Next == (\E s \in Version : Try(s)) \/ Keep \/ Return \/ Withdraw

Spec == Init /\ [][Next]_<<current, fallback>>

=============================================================================
