----------------------------- MODULE TrustLadder -----------------------------
(***************************************************************************)
(* The autonomy a user grants to proactive agents                          *)
(* (evaluation/feedback.py, api/trust_routes.py): ratings of artifacts are *)
(* counted, a level is granted when enough of them were good, bad ratings  *)
(* take it down and the user revokes it.                                   *)
(*                                                                         *)
(* The routes are plain functions, run on a thread pool: a grant reads the *)
(* record, and writes the level it computed later, whatever other request  *)
(* was served in between.  One user's record is modelled.                  *)
(***************************************************************************)
EXTENDS Naturals

CONSTANTS
    Request,    \* requests in flight
    MaxLevel,   \* the highest level of _UPGRADE_THRESHOLDS
    GoodBase,   \* the threshold of level n is GoodBase + GoodStep * n: 5 and 5 in the code
    GoodStep,
    MaxRatings  \* bound: ratings counted

ASSUME TrustAssumption == /\ {MaxLevel, GoodBase, GoodStep, MaxRatings} \subseteq Nat
                          /\ MaxLevel > 0

VARIABLES
    trust,      \* autonomy_grants: the record of the user's 'analysis' grant
    grant       \* grant[r]: the level a grant in progress has read, or NoGrant

trustVars == <<trust, grant>>

NoGrant == MaxLevel + 1

TrustRecord(level, good, bad) == [level |-> level, good |-> good, bad |-> bad]

Threshold(level) == GoodBase + GoodStep * level

MaxBadForUpgrade == 2

\* Mutant of GrantReads: the threshold looked up is that of the present level.
GrantReadsPresent(r) ==
    /\ grant[r] = NoGrant /\ trust.level < MaxLevel
    /\ trust.good >= Threshold(trust.level)
    /\ trust.bad < MaxBadForUpgrade
    /\ grant' = [grant EXCEPT ![r] = trust.level]
    /\ UNCHANGED trust

\* trust_grant, up to its last refusal.
GrantReads(r) ==
    /\ grant[r] = NoGrant /\ trust.level < MaxLevel
    /\ trust.good >= Threshold(trust.level + 1)
    /\ trust.bad < MaxBadForUpgrade
    /\ grant' = [grant EXCEPT ![r] = trust.level]
    /\ UNCHANGED trust

\* The UPDATE, with the level computed from the earlier read.
GrantWrites(r) ==
    /\ grant[r] # NoGrant
    /\ trust' = TrustRecord(grant[r] + 1, trust.good, trust.bad)
    /\ grant' = [grant EXCEPT ![r] = NoGrant]

\* trust_revoke: the good ratings stay.
Revoke ==
    /\ trust' = TrustRecord(0, trust.good, 0)
    /\ UNCHANGED grant

\* _update_autonomy_on_rating, one transaction; a file rated again counts again.
RateGood ==
    /\ trust.good < MaxRatings
    /\ trust' = TrustRecord(trust.level, trust.good + 1, trust.bad)
    /\ UNCHANGED grant

RateBad ==
    /\ trust.bad < MaxRatings
    /\ trust' = IF trust.bad + 1 >= 2 /\ trust.level > 0
                THEN TrustRecord(trust.level - 1, trust.good, 0)
                ELSE TrustRecord(trust.level, trust.good, trust.bad + 1)
    /\ UNCHANGED grant

TrustInit == /\ trust = TrustRecord(0, 0, 0)
             /\ grant = [r \in Request |-> NoGrant]

\* _get_tools_for_autonomy_level
ToolsAt(level) ==
    LET reading == {"bash_readonly", "read_file", "list_files"}
        working == {"bash", "read_file", "list_files", "write_file", "git_branch", "git_commit"}
    IN IF level = 0 THEN reading
       ELSE IF level = 1 THEN reading \union {"write_file"}
       ELSE IF level = 2 THEN working
       ELSE IF level = 3 THEN working \union {"fetch_url"}
       ELSE working \union {"fetch_url", "deploy"}
=============================================================================
