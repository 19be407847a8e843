----------------------------- MODULE UserProofs ------------------------------
(***************************************************************************)
(* Theorems about what is done for users: the requests they make           *)
(* (Admission, with TrustLadder) and what the proactive scan starts for    *)
(* them (ProactiveScan). For any sets of requests and of users, any        *)
(* limits, thresholds and costs, any number of slots, and any number of    *)
(* Redis failures and crashes.                                             *)
(***************************************************************************)
EXTENDS Admission, ProactiveScan, FiniteSetTheorems, TLAPS

(***************************************************************************)
(* Admission: limits, quotas and the trust level.                          *)
(***************************************************************************)

Pcs == {"idle", "incr", "ttl", "repair", "first", "admitted", "running", "granting"}

Running == {r \in Request : req[r].pc = "running"}

\* The types of what the two invariants are about.
Types ==
    /\ req \in [Request -> [pc : Pcs, count : Nat]]
    /\ key \in [count : Nat, ttl : BOOLEAN]
    /\ used \in Nat /\ granted \in Nat /\ tier \in {"free", "pro", "enterprise"}
    /\ trust \in [level : Nat, good : Nat, bad : Nat]
    /\ grant \in [Request -> Nat]

\* The limit of the present tier is among those that have been granted.
LimitGranted == DailyLimit(tier) <= granted

\* What is spent and what the runs in flight may still spend.
Overspend == used + MaxCost * Cardinality(Running) < granted + MaxCost * Cardinality(Request)

\* The good ratings a grant has read are still there when it writes.
GrantEarned == \A r \in Request : grant[r] # NoGrant => trust.good >= Threshold(grant[r] + 1)

QuotaInv == Types /\ LimitGranted /\ Overspend

TrustInv == Types /\ GrantEarned /\ LevelEarned

-----------------------------------------------------------------------------
\* More good ratings are asked for at a higher level.
LEMMA ThresholdGrows ==
  ASSUME NEW n \in Nat
  PROVE  Threshold(n) \in Nat /\ Threshold(n) <= Threshold(n + 1)
  <1>1. GoodStep * n \in Nat /\ GoodStep * (n + 1) = GoodStep * n + GoodStep
    BY TrustAssumption
  <1> QED
    BY <1>1, TrustAssumption DEF Threshold

\* The daily limits are positive numbers, and no tier's is below the free one.
LEMMA LimitType ==
  ASSUME NEW t \in {"free", "pro", "enterprise"}
  PROVE  DailyLimit(t) \in Nat /\ DailyLimit(t) > 0 /\ DailyLimit(t) >= FreeLimit
  BY AdmissionAssumption DEF DailyLimit

\* The runs in flight are finitely many and cost no more than if all requests ran.
LEMMA RunningCost ==
  ASSUME NEW S \in SUBSET Request
  PROVE  /\ Cardinality(S) \in Nat
         /\ Cardinality(Request) \in Nat
         /\ MaxCost * Cardinality(S) \in Nat
         /\ MaxCost * Cardinality(Request) \in Nat
         /\ MaxCost * Cardinality(S) <= MaxCost * Cardinality(Request)
  <1>1. IsFiniteSet(S) /\ Cardinality(S) <= Cardinality(Request)
    BY FS_Subset, AdmissionAssumption
  <1>2. Cardinality(S) \in Nat /\ Cardinality(Request) \in Nat
    BY <1>1, FS_CardinalityType, AdmissionAssumption
  <1>3. MaxCost \in Nat
    BY AdmissionAssumption
  <1>4. \A a, b, c \in Nat : b <= c => a * b \in Nat /\ a * b <= a * c
    OBVIOUS
  <1> QED
    BY <1>1, <1>2, <1>3, <1>4

\* A run that ends takes its share of the cost with it.
LEMMA RunEndsCost ==
  ASSUME NEW S \in SUBSET Request, NEW r \in S
  PROVE  MaxCost * Cardinality(S) = MaxCost * Cardinality(S \ {r}) + MaxCost
  <1>1. IsFiniteSet(S)
    BY FS_Subset, AdmissionAssumption
  <1>2. Cardinality(S \ {r}) = Cardinality(S) - 1 /\ Cardinality(S) \in Nat
    BY <1>1, FS_RemoveElement, FS_CardinalityType
  <1>3. \A a \in Nat, b \in Int : a * b = a * (b - 1) + a
    OBVIOUS
  <1> QED
    BY <1>2, <1>3, AdmissionAssumption

-----------------------------------------------------------------------------
\* A step of the limiter, the loss of a key or of Redis: the counter and the requests.
LEMMA LimiterStep ==
  ASSUME Types,
         \/ \E r \in Request : Limiter(r) \/ RedisFails(r)
         \/ KeyExpires
  PROVE  /\ Types'
         /\ Running' = Running
         /\ UNCHANGED <<quotaVars, trustVars>>
  <1> USE DEF Types, Running, Pcs
  <1>1. ASSUME NEW r \in Request, Limiter(r)
        PROVE  Types' /\ Running' = Running /\ UNCHANGED <<quotaVars, trustVars>>
    <2>1. CASE Arrive(r)
      BY <1>1, <2>1 DEF Limiter, Arrive, At, quotaVars, trustVars
    <2>2. CASE Incr(r)
      BY <1>1, <2>2 DEF Limiter, Incr, At, Key, quotaVars, trustVars
    <2>3. CASE Ttl(r)
      BY <1>1, <2>3 DEF Limiter, Ttl, At, Verdict, quotaVars, trustVars
    <2>4. CASE Repair(r)
      BY <1>1, <2>4, SMTT(30) DEF Limiter, Repair, SetTtl, Key, At, Verdict, quotaVars, trustVars
    <2>5. CASE First(r)
      BY <1>1, <2>5, SMTT(30) DEF Limiter, First, SetTtl, Key, At, Verdict, quotaVars, trustVars
    <2> QED
      BY <1>1, <2>1, <2>2, <2>3, <2>4, <2>5 DEF Limiter
  <1>2. ASSUME NEW r \in Request, RedisFails(r)
        PROVE  Types' /\ Running' = Running /\ UNCHANGED <<quotaVars, trustVars>>
    BY <1>2 DEF RedisFails, FailOpen, Key, At, quotaVars, trustVars
  <1>3. ASSUME KeyExpires
        PROVE  Types' /\ Running' = Running /\ UNCHANGED <<quotaVars, trustVars>>
    BY <1>3 DEF KeyExpires, Expires, Key, quotaVars, trustVars
  <1> QED
    BY <1>1, <1>2, <1>3

\* The types are kept.
LEMMA TypesStep == Types /\ [Next]_vars => Types'
  <1> SUFFICES ASSUME Types, [Next]_vars PROVE Types'
    OBVIOUS
  <1>1. ASSUME NEW r \in Request, Limiter(r) \/ RedisFails(r) PROVE Types'
    BY <1>1, LimiterStep
  <1>2. CASE KeyExpires
    BY <1>2, LimiterStep
  <1>3. ASSUME NEW r \in Request, Handler(r) PROVE Types'
    <2> USE DEF Types, Pcs, Leave, At
    <2>1. CASE Unauthorised(r) \/ Login(r) \/ Refresh(r) \/ CreateIntent(r)
      BY <2>1 DEF Unauthorised, Login, Refresh, CreateIntent, Admitted, quotaVars, trustVars
    <2>2. CASE RecordUsage(r)
      BY <2>2, AdmissionAssumption DEF RecordUsage, trustVars
    <2>3. CASE TrustRoute(r)
      <3>1. CASE GrantReads(r) /\ Leave(r, "granting")
        BY <2>3, <3>1 DEF TrustRoute, GrantReads, quotaVars
      <3>2. CASE Revoke /\ Leave(r, "idle")
        BY <2>3, <3>2 DEF TrustRoute, Revoke, TrustRecord, quotaVars
      <3>3. CASE RateGood /\ Leave(r, "idle")
        BY <2>3, <3>3 DEF TrustRoute, RateGood, TrustRecord, quotaVars
      <3>4. CASE RateBad /\ Leave(r, "idle")
        BY <2>3, <3>4 DEF TrustRoute, RateBad, TrustRecord, quotaVars
      <3> QED
        BY <2>3, <3>1, <3>2, <3>3, <3>4 DEF TrustRoute
    <2>4. CASE GrantEnds(r)
      BY <2>4, TrustAssumption DEF GrantEnds, GrantWrites, TrustRecord, NoGrant, quotaVars
    <2> QED
      BY <1>3, <2>1, <2>2, <2>3, <2>4 DEF Handler
  <1>4. CASE ResetDailyBudget
    BY <1>4, LimitType DEF ResetDailyBudget, Types, limiterVars, trustVars
  <1>5. CASE CreateCheckout
    BY <1>5 DEF CreateCheckout, Types, limiterVars, trustVars
  <1>6. CASE Webhook
    BY <1>6, LimitType
       DEF Webhook, OnCheckoutCompleted, OnSubscriptionDeleted, OnSubscriptionUpdated, SetTier,
         MaxOf,
           Types, limiterVars, trustVars
  <1>7. CASE Crash
    BY <1>7, TrustAssumption DEF Crash, NoGrant, Types, Pcs, quotaVars
  <1>8. CASE UNCHANGED vars
    BY <1>8 DEF vars, limiterVars, quotaVars, trustVars, Types
  <1> QED
    BY <1>1, <1>2, <1>3, <1>4, <1>5, <1>6, <1>7, <1>8 DEF Next

-----------------------------------------------------------------------------
\* The bound on what is spent holds at the start.
LEMMA QuotaInit == Init => QuotaInv
  <1> SUFFICES ASSUME Init PROVE QuotaInv
    OBVIOUS
  <1>1. Types
    BY AdmissionAssumption, TrustAssumption
       DEF Init, Types, Pcs, Key, TrustInit, TrustRecord, NoGrant
  <1>2. Running = {}
    BY DEF Init, Running
  <1>3. MaxCost * Cardinality(Running) = 0
    BY <1>2, FS_EmptySet, AdmissionAssumption
  <1>4. MaxCost * Cardinality(Request) \in Nat
    BY RunningCost
  <1>5. Overspend
    BY <1>3, <1>4, AdmissionAssumption DEF Init, Overspend
  <1>6. LimitGranted
    BY LimitType, AdmissionAssumption DEF Init, LimitGranted, DailyLimit
  <1> QED
    BY <1>1, <1>5, <1>6 DEF QuotaInv

\* A step keeps the bound: a run starts only below the limit, ends with its cost, and
\* a webhook only ever raises what has been granted.
LEMMA QuotaStep == QuotaInv /\ [Next]_vars => QuotaInv'
  <1> SUFFICES ASSUME QuotaInv, [Next]_vars PROVE QuotaInv'
    OBVIOUS
  <1>1. Types /\ Types'
    BY TypesStep DEF QuotaInv
  <1>2. Running \subseteq Request /\ Running' \subseteq Request
    BY DEF Running
  <1>3. ASSUME Running' \subseteq Running, UNCHANGED quotaVars PROVE QuotaInv'
    <2>1. MaxCost * Cardinality(Running') <= MaxCost * Cardinality(Running)
      <3>1. IsFiniteSet(Running)
        BY <1>2, FS_Subset, AdmissionAssumption
      <3>2. Cardinality(Running') <= Cardinality(Running)
        BY <1>3, <3>1, FS_Subset
      <3>3. Cardinality(Running') \in Nat /\ Cardinality(Running) \in Nat
        BY <1>2, RunningCost
      <3>4. \A a, b, c \in Nat : b <= c => a * b <= a * c
        OBVIOUS
      <3> QED
        BY <3>2, <3>3, <3>4, AdmissionAssumption
    <2>2. /\ MaxCost * Cardinality(Running) \in Nat /\ MaxCost * Cardinality(Running') \in Nat
          /\ MaxCost * Cardinality(Request) \in Nat
      BY <1>2, RunningCost
    <2>3. Overspend'
      BY <1>1, <1>3, <2>1, <2>2 DEF QuotaInv, Overspend, quotaVars, Types
    <2> QED
      BY <1>1, <1>3, <2>3 DEF QuotaInv, LimitGranted, quotaVars
  <1>4. ASSUME NEW r \in Request, Limiter(r) \/ RedisFails(r) PROVE QuotaInv'
    BY <1>1, <1>3, <1>4, LimiterStep
  <1>5. CASE KeyExpires
    BY <1>1, <1>3, <1>5, LimiterStep
  <1>6. ASSUME NEW r \in Request, Handler(r) PROVE QuotaInv'
    <2>1. CASE Unauthorised(r) \/ Login(r) \/ Refresh(r) \/ TrustRoute(r) \/ GrantEnds(r)
      <3>1. UNCHANGED quotaVars
        BY <2>1 DEF Unauthorised, Login, Refresh, TrustRoute, GrantEnds
      <3>2. Leave(r, "idle") \/ Leave(r, "granting")
        BY <2>1 DEF Unauthorised, Login, Refresh, TrustRoute, GrantEnds
      <3>3. Running' \subseteq Running
        BY <1>1, <3>2 DEF Types, Leave, At, Running
      <3> QED
        BY <1>3, <3>1, <3>3
    <2>2. CASE CreateIntent(r)
      <3>1. UNCHANGED quotaVars
        BY <2>2 DEF CreateIntent
      <3>2. CASE CheckQuota
        <4>1. used' < granted'
          BY <1>1, <3>1, <3>2, LimitType DEF CheckQuota, QuotaInv, LimitGranted, quotaVars, Types
        <4>2. /\ MaxCost * Cardinality(Running') \in Nat /\ MaxCost * Cardinality(Request) \in Nat
              /\ MaxCost * Cardinality(Running') <= MaxCost * Cardinality(Request)
          BY <1>2, RunningCost
        <4>3. Overspend'
          BY <1>1, <4>1, <4>2 DEF Overspend, Types
        <4> QED
          BY <1>1, <3>1, <4>3 DEF QuotaInv, LimitGranted, quotaVars
      <3>3. CASE ~CheckQuota
        <4>1. Leave(r, "idle")
          BY <2>2, <3>3 DEF CreateIntent
        <4>2. Running' \subseteq Running
          BY <1>1, <4>1 DEF Types, Leave, At, Running
        <4> QED
          BY <1>3, <3>1, <4>2
      <3> QED
        BY <3>2, <3>3
    <2>3. CASE RecordUsage(r)
      <3>1. r \in Running
        BY <2>3 DEF RecordUsage, Running
      <3>2. Running' = Running \ {r}
        BY <1>1, <2>3 DEF RecordUsage, Leave, At, Types, Running
      <3>3. MaxCost * Cardinality(Running) = MaxCost * Cardinality(Running') + MaxCost
        BY <1>2, <3>1, <3>2, RunEndsCost
      <3>4. PICK cost \in 0 .. MaxCost : used' = used + cost
        BY <2>3 DEF RecordUsage
      <3>5. /\ MaxCost * Cardinality(Running') \in Nat
            /\ MaxCost * Cardinality(Request) \in Nat
        BY <1>2, RunningCost
      <3>6. UNCHANGED <<tier, granted>>
        BY <2>3 DEF RecordUsage
      <3>7. Overspend'
        BY <1>1, <3>3, <3>4, <3>5, <3>6, AdmissionAssumption DEF QuotaInv, Overspend, Types
      <3> QED
        BY <1>1, <3>6, <3>7 DEF QuotaInv, LimitGranted
    <2> QED
      BY <1>6, <2>1, <2>2, <2>3 DEF Handler
  <1>7. ASSUME used' \in {0, used}, Running' = Running, granted' >= DailyLimit(tier'),
               used' = 0 \/ granted' >= granted
        PROVE  QuotaInv'
    <2>1. /\ MaxCost * Cardinality(Running) \in Nat
          /\ MaxCost * Cardinality(Request) \in Nat
          /\ MaxCost * Cardinality(Running) <= MaxCost * Cardinality(Request)
      BY <1>2, RunningCost
    <2>2. granted' > 0
      BY <1>1, <1>7, LimitType DEF Types
    <2>3. Overspend'
      BY <1>1, <1>7, <2>1, <2>2 DEF QuotaInv, Overspend, Types
    <2> QED
      BY <1>1, <1>7, <2>3, LimitType DEF QuotaInv, LimitGranted, Types
  <1>8. CASE ResetDailyBudget
    BY <1>1, <1>7, <1>8, LimitType DEF ResetDailyBudget, limiterVars, Running, Types
  <1>9. CASE CreateCheckout
    BY <1>1, <1>7, <1>9, LimitType
       DEF CreateCheckout, limiterVars, Running, QuotaInv, LimitGranted, Types
  <1>10. CASE Webhook
    <2>1. PICK t \in {"free", "pro", "enterprise"} : SetTier(t)
      BY <1>10 DEF Webhook, OnCheckoutCompleted, OnSubscriptionDeleted, OnSubscriptionUpdated
    <2>2. Running' = Running
      BY <1>10 DEF Webhook, OnCheckoutCompleted, OnSubscriptionDeleted, OnSubscriptionUpdated,
                   limiterVars, Running
    <2> QED
      BY <1>1, <1>7, <2>1, <2>2, LimitType DEF SetTier, MaxOf, Types
  <1>11. CASE Crash
    BY <1>3, <1>11 DEF Crash, Running
  <1>12. CASE UNCHANGED vars
    BY <1>3, <1>12 DEF vars, limiterVars, Running
  <1> QED
    BY <1>4, <1>5, <1>6, <1>8, <1>9, <1>10, <1>11, <1>12 DEF Next

\* What is spent in a day goes over the limit by no more than the runs in flight
\* cost, for any number of requests, tiers changed by webhooks in any order and any
\* resets and crashes (check_quota, record_usage).
THEOREM SpendingIsBounded == Spec => []OverspendBounded
  <1>1. QuotaInv => OverspendBounded
    BY DEF QuotaInv, Overspend, OverspendBounded, Running
  <1> QED
    BY <1>1, QuotaInit, QuotaStep, PTL DEF Spec

-----------------------------------------------------------------------------
\* No level is granted at the start.
LEMMA TrustInvInit == Init => TrustInv
  BY QuotaInit DEF QuotaInv, TrustInv, GrantEarned, LevelEarned, Init, TrustInit, TrustRecord

\* Good ratings are never taken back, which keeps what a grant has read true until
\* it writes.
LEMMA TrustStep == TrustInv /\ [Next]_vars => TrustInv'
  <1> SUFFICES ASSUME TrustInv, [Next]_vars PROVE TrustInv'
    OBVIOUS
  <1>1. Types /\ Types'
    BY TypesStep DEF TrustInv
  <1>2. ASSUME UNCHANGED trustVars PROVE TrustInv'
    BY <1>1, <1>2 DEF trustVars, TrustInv, GrantEarned, LevelEarned
  <1>3. ASSUME NEW r \in Request, Handler(r) PROVE TrustInv'
    <2>1. CASE UNCHANGED trustVars
      BY <1>2, <2>1
    <2>2. CASE TrustRoute(r) /\ GrantReads(r)
      BY <1>1, <2>2 DEF GrantReads, TrustInv, GrantEarned, LevelEarned, Types
    <2>3. CASE TrustRoute(r) /\ Revoke
      BY <1>1, <2>3 DEF Revoke, TrustRecord, TrustInv, GrantEarned, LevelEarned, Types
    <2>4. CASE TrustRoute(r) /\ RateGood
      <3>1. trust'.level = trust.level /\ trust'.good = trust.good + 1 /\ grant' = grant
        BY <2>4 DEF RateGood, TrustRecord
      <3>2. \A n \in Nat : trust.good >= Threshold(n) => trust'.good >= Threshold(n)
        BY <1>1, <3>1, ThresholdGrows DEF Types
      <3> QED
        BY <1>1, <3>1, <3>2 DEF TrustInv, GrantEarned, LevelEarned, Types
    <2>5. CASE TrustRoute(r) /\ RateBad
      <3>1. trust'.good = trust.good /\ grant' = grant
        BY <2>5 DEF RateBad, TrustRecord
      <3>2. trust'.level = trust.level \/ (trust.level > 0 /\ trust'.level = trust.level - 1)
        BY <2>5 DEF RateBad, TrustRecord
      <3>3. LevelEarned'
        <4>1. CASE trust'.level = trust.level
          BY <3>1, <4>1 DEF TrustInv, LevelEarned
        <4>2. CASE trust.level > 0 /\ trust'.level = trust.level - 1
          <5>1. trust.level - 1 \in Nat
            BY <1>1, <4>2 DEF Types
          <5>2. Threshold(trust.level - 1) \in Nat /\ Threshold(trust.level) \in Nat
                /\ Threshold(trust.level - 1) <= Threshold((trust.level - 1) + 1)
            BY <1>1, <5>1, ThresholdGrows DEF Types
          <5>3. (trust.level - 1) + 1 = trust.level
            BY <1>1 DEF Types
          <5> QED
            BY <1>1, <3>1, <4>2, <5>2, <5>3 DEF TrustInv, LevelEarned, Types
        <4> QED
          BY <3>2, <4>1, <4>2
      <3> QED
        BY <1>1, <3>1, <3>3 DEF TrustInv, GrantEarned
    <2>6. CASE GrantEnds(r)
      <3>1. /\ grant[r] # NoGrant
            /\ trust'.level = grant[r] + 1 /\ trust'.good = trust.good
            /\ grant' = [grant EXCEPT ![r] = NoGrant]
        BY <2>6 DEF GrantEnds, GrantWrites, TrustRecord
      <3> QED
        BY <1>1, <3>1 DEF TrustInv, GrantEarned, LevelEarned, Types
    <2> QED
      BY <1>3, <2>1, <2>2, <2>3, <2>4, <2>5, <2>6
         DEF Handler, Unauthorised, Login, Refresh, CreateIntent, RecordUsage, TrustRoute
  <1>4. CASE Crash
    BY <1>1, <1>4 DEF Crash, TrustInv, GrantEarned, LevelEarned
  <1>5. ASSUME NEW r \in Request, Limiter(r) \/ RedisFails(r) PROVE TrustInv'
    BY <1>1, <1>2, <1>5, LimiterStep
  <1>6. CASE KeyExpires
    BY <1>1, <1>2, <1>6, LimiterStep
  <1>7. CASE ResetDailyBudget \/ CreateCheckout \/ Webhook
    BY <1>2, <1>7 DEF ResetDailyBudget, CreateCheckout, Webhook, OnCheckoutCompleted,
                      OnSubscriptionDeleted, OnSubscriptionUpdated
  <1>8. CASE UNCHANGED vars
    BY <1>2, <1>8 DEF vars
  <1> QED
    BY <1>3, <1>4, <1>5, <1>6, <1>7, <1>8 DEF Next

\* A level above 0 rests on the good ratings its threshold asks for, however grants,
\* revocations and ratings of any number of requests interleave (trust_grant).
THEOREM LevelIsEarned == Spec => []LevelEarned
  <1>1. TrustInv => LevelEarned
    BY DEF TrustInv
  <1> QED
    BY <1>1, TrustInvInit, TrustStep, PTL DEF Spec

(***************************************************************************)
(* ProactiveScan: whose tool calls an artifact names.                      *)
(***************************************************************************)

Triggers == {"JUST_FINISHED", "STUCK", "NEEDS_ATTENTION", "IDLE_OPPORTUNITY", "unknown",
             "SERVER_SCAN", "none"}

Phases == {"off", "queued", "acquired", "loop", "decide", "manifest", "fix", "draft"}

RunState == [phase : Phases, trigger : Triggers, id : Nat, old : SUBSET Nat]

ToolCall == [user : User, artifact : Nat]

ScanTyped ==
    /\ scan.trigger \in Triggers
    /\ failures \in Nat
    /\ run \in [Slot -> RunState]
    /\ runs \in Nat
    /\ DOMAIN calls \subseteq Nat /\ calls \in [DOMAIN calls -> ToolCall]

\* From the start of its loop until the artifact: a run whose calls could be linked.
Logging == {"loop", "decide", "manifest"}

\* Two runs of a user may be going on at the same time.
MayOverlap(u) == u = Entity \/ failures > 0

\* The slots of scans to come are free.
NoneAhead == \A s \in Slot \ {Server} : s[2] > failures => run[s].phase = "off"

\* The runs of a user that are going on have been seen together.
SeenTogether ==
    \A s, t \in Slot :
        /\ s # t /\ UserOf(s) = UserOf(t)
        /\ run[s].phase \in Logging /\ run[t].phase \in Logging
        => {run[s].id, run[t].id} \in beside /\ MayOverlap(UserOf(s))

\* What a user's log has gained since a run of the user began its loop is that run's, or that
\* of a run beside it.
OwnLog ==
    \A s \in Slot : run[s].phase \in Logging =>
        \A i \in DOMAIN calls : calls[i].user = UserOf(s) /\ i \notin run[s].old =>
            \/ i = run[s].id
            \/ {i, run[s].id} \in beside /\ MayOverlap(UserOf(s))

CallsInv == ScanTyped /\ NoneAhead /\ SeenTogether /\ OwnLog /\ OwnToolCalls

-----------------------------------------------------------------------------
\* Until a scan has failed, the runs of a user that is not the entity are one run.
LEMMA OneSlotPerUser ==
    ASSUME NoneAhead, failures = 0,
           NEW s \in Slot, NEW t \in Slot, UserOf(s) = UserOf(t), UserOf(s) # Entity,
           run[s].phase # "off", run[t].phase # "off"
    PROVE  s = t
  <1>1. ASSUME NEW r \in Slot, UserOf(r) # Entity, run[r].phase # "off" PROVE r = <<UserOf(r), 0>>
    <2>1. r # Server
      BY <1>1 DEF Server, UserOf
    <2>2. r \in User \X (0..MaxFailures)
      BY <2>1 DEF Slot
    <2>3. r[2] \in Nat /\ ~(r[2] > 0) /\ r = <<r[1], r[2]>>
      BY <1>1, <2>1, <2>2, ScanAssumption DEF NoneAhead
    <2> QED
      BY <2>3 DEF UserOf
  <1> QED
    BY <1>1

LEMMA UserOfSlot == \A s \in Slot : UserOf(s) \in User
  BY ScanAssumption DEF UserOf, Slot, Server

LEMMA TaskUser == \A u \in User : UserOf(Task(u)) = u
  BY DEF UserOf, Task

\* The new state of one slot, and the others as they were.
LEMMA SlotUpdate ==
    ASSUME run \in [Slot -> RunState], NEW s, NEW r \in RunState, run' = [run EXCEPT ![s] = r]
    PROVE  /\ run' \in [Slot -> RunState]
           /\ \A t \in Slot : run'[t] = IF t = s THEN r ELSE run[t]
  OBVIOUS

\* A run moves to another phase, or is over.
LEMMA ToEffect ==
    ASSUME run \in [Slot -> RunState], NEW s \in Slot, NEW phase \in Phases, To(s, phase)
    PROVE  /\ run' \in [Slot -> RunState]
           /\ run'[s].phase = phase /\ run'[s].id = run[s].id /\ run'[s].old = run[s].old
           /\ \A t \in Slot \ {s} : run'[t] = run[t]
  <1>1. RunOf(phase, run[s].trigger, run[s].id, run[s].old) \in RunState
    BY DEF RunOf, RunState
  <1> QED
    BY <1>1, SlotUpdate DEF To, RunOf

LEMMA OverEffect ==
    ASSUME run \in [Slot -> RunState], NEW s \in Slot, Over(s)
    PROVE  /\ run' \in [Slot -> RunState]
           /\ run'[s].phase = "off"
           /\ \A t \in Slot \ {s} : run'[t] = run[t]
  <1>1. NoRun \in RunState /\ NoRun.phase = "off"
    BY DEF NoRun, RunOf, RunState, Phases, Triggers
  <1> QED
    BY <1>1, SlotUpdate DEF Over

\* As long as no run begins its loop and nothing is logged or linked, what is known of the
\* log stays so.
LEMMA LogKept ==
    ASSUME SeenTogether, OwnLog, OwnToolCalls, failures \in Nat, failures' \in Nat,
           failures' >= failures, UNCHANGED <<calls, beside>>,
           \A s \in Slot :
              \/ run'[s].phase \notin Logging
              \/ /\ run[s].phase \in Logging
                 /\ run'[s].id = run[s].id /\ run'[s].old = run[s].old
    PROVE  SeenTogether' /\ OwnLog' /\ OwnToolCalls'
  <1>1. \A u : MayOverlap(u) => MayOverlap(u)'
    BY DEF MayOverlap
  <1>2. SeenTogether'
    BY <1>1 DEF SeenTogether
  <1>3. OwnLog'
    BY <1>1 DEF OwnLog
  <1>4. OwnToolCalls'
    BY <1>1 DEF OwnToolCalls, MayOverlap
  <1> QED
    BY <1>2, <1>3, <1>4

\* The slots ahead stay free if a step leaves them alone.
LEMMA AheadKept ==
    ASSUME NoneAhead, ScanTyped, failures' \in Nat, failures' >= failures,
           \A s \in Slot \ {Server} : s[2] > failures => run'[s] = run[s]
    PROVE  NoneAhead'
  <1> SUFFICES ASSUME NEW s \in Slot \ {Server}, s[2] > failures' PROVE run'[s].phase = "off"
    BY DEF NoneAhead
  <1>1. s[2] \in Nat
    BY ScanAssumption DEF Slot
  <1> QED
    BY <1>1 DEF NoneAhead, ScanTyped

LEMMA CallsInit == ProactiveInit => CallsInv
  BY DEF ProactiveInit, CallsInv, ScanTyped, NoneAhead, SeenTogether, OwnLog, OwnToolCalls, NoScan,
     Scan, NoRun, RunOf, RunState, Triggers, Phases, Logging

\* What the scan itself does.
LEMMA ScanLogStep ==
    ASSUME CallsInv,
           \/ \E active \in SUBSET User : ScanBegins(active)
           \/ ScanStep \/ ScanFails \/ ServerScan
           \/ \E s \in Slot : Acquire(s)
    PROVE  CallsInv'
  <1>typed. scan.trigger \in Triggers /\ run \in [Slot -> RunState] /\ failures \in Nat
    BY DEF CallsInv, ScanTyped
  <1> DEFINE Quiet == \A s \in Slot : run'[s].phase \notin Logging \/ run'[s] = run[s]
             Free == \A s \in Slot \ {Server} : s[2] > failures => run'[s] = run[s]
  <1> SUFFICES /\ scan'.trigger \in Triggers /\ run' \in [Slot -> RunState]
               /\ UNCHANGED <<runs, calls, beside>>
               /\ failures' \in Nat /\ failures' >= failures
               /\ Quiet /\ Free
    BY LogKept, AheadKept DEF CallsInv, ScanTyped
  <1>1. ASSUME NEW active \in SUBSET User, ScanBegins(active)
        PROVE  scan'.trigger \in Triggers /\ UNCHANGED <<failures, run, runs, calls, beside>>
    BY <1>1 DEF ScanBegins, Scan, Triggers
  <1>2. ASSUME NEW u \in User, NEW facts \in Facts, Detect(u, facts)
        PROVE  scan'.trigger \in Triggers /\ UNCHANGED <<failures, run, runs, calls, beside>>
    BY <1>2 DEF Detect, DetectTrigger, Scan, Triggers
  <1>3. CASE Skip
    BY <1>typed, <1>3 DEF Skip, NextUser, Scan, Triggers
  <1>4. CASE Spawn
    <2> DEFINE r == RunOf("queued", scan.trigger, 0, {})
    <2>1. r \in RunState /\ r.phase \notin Logging
      BY <1>typed DEF RunOf, RunState, Phases, Logging
    <2>2. /\ run' = [run EXCEPT ![Task(scan.user)] = r] /\ scan' = NextUser
          /\ UNCHANGED <<failures, runs, calls, beside>>
      BY <1>4 DEF Spawn
    <2> HIDE DEF r
    <2>3. /\ run' \in [Slot -> RunState]
          /\ \A t \in Slot : run'[t] = IF t = Task(scan.user) THEN r ELSE run[t]
      BY <1>typed, <2>1, <2>2, SlotUpdate
    <2>4. Task(scan.user)[2] = failures
      BY DEF Task
    <2>5. Free
      BY <1>typed, <2>3, <2>4
    <2> QED
      BY <1>typed, <2>1, <2>2, <2>3, <2>5 DEF NextUser, Scan, Triggers
  <1>5. CASE ScanReturns
    BY <1>typed, <1>5 DEF ScanReturns, NoScan, Scan, Triggers
  <1>6. CASE ScanFails
    BY <1>typed, <1>6 DEF ScanFails, NoScan, Scan, Triggers
  <1>7. CASE ServerScan
    <2> DEFINE r == RunOf("acquired", "SERVER_SCAN", 0, {})
    <2>1. r \in RunState /\ r.phase \notin Logging
      BY DEF RunOf, RunState, Phases, Triggers, Logging
    <2>2. run' = [run EXCEPT ![Server] = r] /\ UNCHANGED <<scan, failures, runs, calls, beside>>
      BY <1>7 DEF ServerScan
    <2> HIDE DEF r
    <2>3. /\ run' \in [Slot -> RunState]
          /\ \A t \in Slot : run'[t] = IF t = Server THEN r ELSE run[t]
      BY <1>typed, <2>1, <2>2, SlotUpdate
    <2> QED
      BY <1>typed, <2>1, <2>2, <2>3
  <1>8. ASSUME NEW s \in Slot, Acquire(s)
        PROVE  /\ scan'.trigger \in Triggers /\ run' \in [Slot -> RunState]
               /\ UNCHANGED <<failures, runs, calls, beside>> /\ Quiet /\ Free
    <2>1. /\ To(s, "acquired") /\ "acquired" \in Phases /\ run[s].phase = "queued"
          /\ UNCHANGED <<scan, failures, runs, calls, beside>>
      BY <1>8 DEF Acquire, Phases, In
    <2>2. /\ run' \in [Slot -> RunState] /\ run'[s].phase = "acquired"
          /\ \A t \in Slot \ {s} : run'[t] = run[t]
      BY <1>typed, <2>1, ToEffect
    <2>3. s = Server \/ ~(s[2] > failures)
      BY <2>1 DEF CallsInv, NoneAhead
    <2> QED
      BY <1>typed, <2>1, <2>2, <2>3 DEF Logging
  <1>9. ASSUME UNCHANGED <<failures, run, runs, calls, beside>>
        PROVE  /\ run' \in [Slot -> RunState] /\ UNCHANGED <<runs, calls, beside>>
               /\ failures' \in Nat /\ failures' >= failures /\ Quiet /\ Free
    BY <1>typed, <1>9
  <1> QED
    BY <1>typed, <1>1, <1>2, <1>3, <1>4, <1>5, <1>6, <1>7, <1>8, <1>9 DEF ScanStep

\* What a slot does, but for the end of its loop.
LEMMA SlotLogStep ==
    ASSUME CallsInv, NEW s \in Slot, SlotStep(s)
    PROVE  CallsInv'
  <1>typed. /\ scan.trigger \in Triggers /\ run \in [Slot -> RunState] /\ runs \in Nat
            /\ DOMAIN calls \subseteq Nat /\ calls \in [DOMAIN calls -> ToolCall]
            /\ failures \in Nat
    BY DEF CallsInv, ScanTyped
  <1>behind. ASSUME failures' = failures, run[s].phase # "off",
                    \A t \in Slot \ {s} : run'[t] = run[t]
             PROVE  NoneAhead'
    <2>1. s = Server \/ ~(s[2] > failures)
      BY <1>behind DEF CallsInv, NoneAhead
    <2> QED
      BY <1>behind, <1>typed, <2>1, AheadKept DEF CallsInv
  <1>1. ASSUME Over(s), run[s].phase # "off", UNCHANGED <<scan, failures, runs, calls, beside>>
        PROVE  CallsInv'
    <2>1. /\ run' \in [Slot -> RunState] /\ run'[s].phase \notin Logging
          /\ \A t \in Slot \ {s} : run'[t] = run[t]
      BY <1>1, <1>typed, OverEffect DEF Logging
    <2>2. SeenTogether' /\ OwnLog' /\ OwnToolCalls'
      BY <1>1, <1>typed, <2>1, LogKept DEF CallsInv
    <2> QED
      BY <1>1, <1>typed, <1>behind, <2>1, <2>2 DEF CallsInv, ScanTyped
  <1>2. CASE \/ NoProject(s) \/ SelfSuppressed(s) \/ NothingToProbe(s) \/ LoopFails(s)
             \/ Dropped(s) \/ Silence(s)
             \/ (\E reported \in {"good", "bad", "open"} : Contribute(s, reported))
             \/ ManifestFails(s) \/ Draft(s)
    BY <1>1, <1>2 DEF NoProject, SelfSuppressed, NothingToProbe, Silent, LoopFails, Dropped, Silence,
       Contribute, ManifestFails, Draft, In
  <1>3. CASE StartLoop(s)
    <2> DEFINE r == RunOf("loop", run[s].trigger, runs + 1, DOMAIN calls)
    <2>1. r \in RunState /\ r.old = DOMAIN calls /\ r.id = runs + 1
      BY <1>typed DEF RunOf, RunState, Phases
    <2>2. /\ run' = [run EXCEPT ![s] = r] /\ runs' = runs + 1 /\ UNCHANGED <<scan, failures, calls>>
          /\ beside' = beside \union {{run[t].id, runs + 1} : t \in Going(UserOf(s))}
          /\ run[s].phase = "acquired"
      BY <1>3 DEF StartLoop, In
    <2> HIDE DEF r
    <2>3. run' \in [Slot -> RunState] /\ run'[s] = r /\ \A t \in Slot \ {s} : run'[t] = run[t]
      BY <1>typed, <2>1, <2>2, SlotUpdate
    <2>4. \A u : MayOverlap(u)' = MayOverlap(u)
      BY <2>2 DEF MayOverlap
    <2>5. ASSUME NEW t \in Slot, t # s, UserOf(t) = UserOf(s), run[t].phase \in Logging
          PROVE  {run[t].id, runs + 1} \in beside' /\ MayOverlap(UserOf(s))
      <3>1. t \in Going(UserOf(s))
        BY <2>5 DEF Going, Logging
      <3>2. run[t].phase # "off" /\ run[s].phase # "off"
        BY <2>2, <2>5 DEF Logging
      <3>3. MayOverlap(UserOf(s))
        BY <1>typed, <2>5, <3>2, OneSlotPerUser DEF MayOverlap, CallsInv
      <3> QED
        BY <2>2, <3>1, <3>3
    <2>6. SeenTogether'
      <3> SUFFICES ASSUME NEW v \in Slot, NEW w \in Slot, v # w, UserOf(v) = UserOf(w),
                          run'[v].phase \in Logging, run'[w].phase \in Logging
                   PROVE  {run'[v].id, run'[w].id} \in beside' /\ MayOverlap(UserOf(v))
        BY <2>4 DEF SeenTogether
      <3>1. CASE v = s
        <4>1. {run[w].id, runs + 1} = {run'[v].id, run'[w].id}
          BY <2>1, <2>3, <3>1
        <4> QED
          BY <2>3, <2>5, <3>1, <4>1
      <3>2. CASE w = s
        <4>1. {run[v].id, runs + 1} = {run'[v].id, run'[w].id}
          BY <2>1, <2>3, <3>2
        <4> QED
          BY <2>3, <2>5, <3>2, <4>1
      <3>3. CASE v # s /\ w # s
        BY <2>2, <2>3, <3>3 DEF CallsInv, SeenTogether
      <3> QED
        BY <3>1, <3>2, <3>3
    <2>7. OwnLog'
      <3> SUFFICES ASSUME NEW t \in Slot, run'[t].phase \in Logging,
                          NEW i \in DOMAIN calls, calls[i].user = UserOf(t), i \notin run'[t].old
                   PROVE  i = run'[t].id \/ ({i, run'[t].id} \in beside' /\ MayOverlap(UserOf(t)))
        BY <2>2, <2>4 DEF OwnLog
      <3>1. t # s
        BY <2>1, <2>3
      <3>2. run'[t] = run[t] /\ beside \subseteq beside'
        BY <2>2, <2>3, <3>1
      <3> QED
        BY <3>2 DEF CallsInv, OwnLog
    <2>8. OwnToolCalls'
      BY <2>2 DEF CallsInv, OwnToolCalls
    <2>9. ScanTyped'
      BY <1>typed, <2>2, <2>3 DEF ScanTyped
    <2>10. NoneAhead'
      BY <1>behind, <2>2, <2>3
    <2> QED
      BY <2>6, <2>7, <2>8, <2>9, <2>10 DEF CallsInv
  <1>4. CASE Signal(s)
    <2>1. /\ To(s, "manifest") /\ UNCHANGED <<scan, failures, runs, calls, beside>>
          /\ run[s].phase = "decide"
      BY <1>4 DEF Signal, In
    <2>2. /\ run' \in [Slot -> RunState]
          /\ run'[s].id = run[s].id /\ run'[s].old = run[s].old
          /\ \A t \in Slot \ {s} : run'[t] = run[t]
      BY <1>typed, <2>1, ToEffect DEF Phases
    <2>3. SeenTogether' /\ OwnLog' /\ OwnToolCalls'
      BY <1>typed, <2>1, <2>2, LogKept DEF CallsInv, Logging
    <2> QED
      BY <1>typed, <1>behind, <2>1, <2>2, <2>3 DEF CallsInv, ScanTyped
  <1>5. CASE CodeFix(s)
    <2>1. CASE To(s, "draft")
      <3>1. run[s].phase = "fix" /\ UNCHANGED <<scan, failures, runs, calls, beside>>
        BY <1>5 DEF CodeFix, In
      <3>2. /\ run' \in [Slot -> RunState] /\ run'[s].phase = "draft"
            /\ \A t \in Slot \ {s} : run'[t] = run[t]
        BY <1>typed, <2>1, ToEffect DEF Phases
      <3>3. SeenTogether' /\ OwnLog' /\ OwnToolCalls'
        BY <1>typed, <3>1, <3>2, LogKept DEF CallsInv, Logging
      <3> QED
        BY <1>typed, <1>behind, <3>1, <3>2, <3>3 DEF CallsInv, ScanTyped
    <2> QED
      BY <1>1, <1>5, <2>1 DEF CodeFix, In
  <1>6. CASE Artifact(s)
    <2> DEFINE linked(i) == IF i \in Links(s) THEN [calls[i] EXCEPT !.artifact = run[s].id]
                            ELSE calls[i]
    <2>1. /\ calls' = [i \in DOMAIN calls |-> linked(i)]
          /\ UNCHANGED <<scan, failures, runs, beside>>
      BY <1>6 DEF Artifact
    <2>2. /\ run' \in [Slot -> RunState] /\ run'[s].phase \notin Logging
          /\ \A t \in Slot \ {s} : run'[t] = run[t]
      <3>1. CASE To(s, "fix")
        BY <1>typed, <3>1, ToEffect DEF Phases, Logging
      <3>2. CASE Over(s)
        BY <1>typed, <3>2, OverEffect DEF Logging
      <3> QED
        BY <1>6, <3>1, <3>2 DEF Artifact
    <2>3. run[s].phase = "manifest" /\ run[s].id \in Nat
      BY <1>6, <1>typed DEF Artifact, In, RunState
    <2>4. ASSUME NEW i \in DOMAIN calls
          PROVE  /\ linked(i) \in ToolCall /\ linked(i).user = calls[i].user
                 /\ i \in Links(s) => linked(i).artifact = run[s].id
                 /\ i \notin Links(s) => linked(i) = calls[i]
      BY <1>typed, <2>3 DEF ToolCall
    <2>5. \A i \in Links(s) : i = run[s].id \/ ({i, run[s].id} \in beside /\ MayOverlap(UserOf(s)))
      BY <2>3 DEF Links, CallsInv, OwnLog, Logging
    <2> HIDE DEF linked
    <2>6. DOMAIN calls' = DOMAIN calls /\ \A i \in DOMAIN calls : calls'[i] = linked(i)
      BY <2>1
    <2>7. \A u : MayOverlap(u)' = MayOverlap(u)
      BY <2>1 DEF MayOverlap
    <2>8. SeenTogether'
      BY <2>1, <2>2, <2>7 DEF CallsInv, SeenTogether
    <2>9. OwnLog'
      <3> SUFFICES ASSUME NEW t \in Slot, run'[t].phase \in Logging,
                          NEW i \in DOMAIN calls, calls'[i].user = UserOf(t), i \notin run'[t].old
                   PROVE  i = run'[t].id \/ ({i, run'[t].id} \in beside /\ MayOverlap(UserOf(t)))
        BY <2>1, <2>6, <2>7 DEF OwnLog
      <3>1. run'[t] = run[t] /\ calls[i].user = UserOf(t)
        BY <2>2, <2>4, <2>6
      <3> QED
        BY <3>1 DEF CallsInv, OwnLog
    <2>10. ASSUME NEW i \in DOMAIN calls', calls'[i].artifact \notin {0, i}
           PROVE  /\ {i, calls'[i].artifact} \in beside'
                  /\ calls'[i].user = Entity \/ failures' > 0
      <3>1. CASE i \in Links(s)
        <4>1. calls[i].user = UserOf(s) /\ calls'[i].user = UserOf(s) /\ calls'[i].artifact = run[s].id
          BY <2>4, <2>6, <3>1 DEF Links
        <4>2. {i, run[s].id} \in beside /\ MayOverlap(UserOf(s))
          BY <2>5, <2>10, <3>1, <4>1
        <4> QED
          BY <2>1, <4>1, <4>2 DEF MayOverlap
      <3>2. CASE i \notin Links(s)
        BY <2>1, <2>4, <2>6, <2>10, <3>2 DEF CallsInv, OwnToolCalls
      <3> QED
        BY <3>1, <3>2
    <2>11. calls' \in [DOMAIN calls' -> ToolCall]
      BY <2>1, <2>4, <2>6
    <2>12. ScanTyped'
      BY <1>typed, <2>1, <2>2, <2>6, <2>11 DEF ScanTyped
    <2>13. NoneAhead'
      BY <1>behind, <2>1, <2>2, <2>3
    <2> QED
      BY <2>8, <2>9, <2>10, <2>12, <2>13 DEF CallsInv, OwnToolCalls
  <1> QED
    BY <1>2, <1>3, <1>4, <1>5, <1>6 DEF SlotStep, AnswerStep

\* The end of a loop: what is logged is logged under the run's own number.
LEMMA LoopLogStep ==
    ASSUME CallsInv, NEW s \in Slot, NEW tooled \in BOOLEAN, LoopReturns(s, tooled)
    PROVE  CallsInv'
  <1>typed. /\ scan.trigger \in Triggers /\ run \in [Slot -> RunState] /\ runs \in Nat
            /\ DOMAIN calls \subseteq Nat /\ calls \in [DOMAIN calls -> ToolCall]
            /\ failures \in Nat
    BY DEF CallsInv, ScanTyped
  <1> DEFINE logged == IF tooled THEN DOMAIN calls \union {run[s].id} ELSE DOMAIN calls
             entry(i) == IF i \in DOMAIN calls THEN calls[i]
                         ELSE [user |-> UserOf(s), artifact |-> 0]
  <1>1. calls' = [i \in logged |-> entry(i)] /\ UNCHANGED <<scan, failures, runs, beside>>
    BY DEF LoopReturns
  <1>2. To(s, "decide") /\ run[s].phase = "loop" /\ run[s].id \in Nat
    BY <1>typed DEF LoopReturns, In, RunState
  <1>3. /\ run' \in [Slot -> RunState]
        /\ run'[s].id = run[s].id /\ run'[s].old = run[s].old
        /\ \A t \in Slot \ {s} : run'[t] = run[t]
    BY <1>typed, <1>2, ToEffect DEF Phases
  <1>4. logged \subseteq Nat /\ \A i \in logged : i \in DOMAIN calls \/ i = run[s].id
    BY <1>typed, <1>2
  <1>5. ASSUME NEW i \in logged
        PROVE  /\ entry(i) \in ToolCall
               /\ i \in DOMAIN calls => entry(i) = calls[i]
               /\ i \notin DOMAIN calls => entry(i).user = UserOf(s) /\ entry(i).artifact = 0
    BY <1>typed, UserOfSlot DEF ToolCall
  <1> HIDE DEF logged, entry
  <1>6. DOMAIN calls' = logged /\ \A i \in logged : calls'[i] = entry(i)
    BY <1>1
  <1>7. ScanTyped'
    <2>1. calls' \in [logged -> ToolCall]
      BY <1>1, <1>5
    <2> QED
      BY <1>typed, <1>1, <1>3, <1>4, <1>6, <2>1 DEF ScanTyped
  <1>8. \A u : MayOverlap(u)' = MayOverlap(u)
    BY <1>1 DEF MayOverlap
  <1>9. \A t \in Slot : /\ run'[t].phase \in Logging => run[t].phase \in Logging
                        /\ run'[t].id = run[t].id /\ run'[t].old = run[t].old
    BY <1>2, <1>3 DEF Logging
  <1>10. SeenTogether'
    BY <1>1, <1>8, <1>9 DEF CallsInv, SeenTogether
  <1>11. ASSUME NEW t \in Slot, run'[t].phase \in Logging,
                NEW i \in DOMAIN calls', calls'[i].user = UserOf(t), i \notin run'[t].old
         PROVE  i = run'[t].id \/ ({i, run'[t].id} \in beside' /\ MayOverlap(UserOf(t))')
    <2>1. run[t].phase \in Logging /\ run'[t].id = run[t].id /\ run'[t].old = run[t].old
      BY <1>9, <1>11
    <2>2. CASE i \in DOMAIN calls
      BY <1>1, <1>5, <1>6, <1>8, <1>11, <2>1, <2>2 DEF CallsInv, OwnLog
    <2>3. CASE i \notin DOMAIN calls
      <3>1. UserOf(s) = UserOf(t) /\ i = run[s].id
        BY <1>4, <1>5, <1>6, <1>11, <2>3
      <3>2. CASE t = s
        BY <2>1, <3>1, <3>2
      <3>3. CASE t # s
        <4>1. {run[s].id, run[t].id} \in beside /\ MayOverlap(UserOf(s))
          BY <1>2, <2>1, <3>1, <3>3 DEF CallsInv, SeenTogether, Logging
        <4> QED
          BY <1>1, <1>8, <2>1, <3>1, <4>1
      <3> QED
        BY <3>2, <3>3
    <2> QED
      BY <2>2, <2>3
  <1>12. OwnLog'
    BY <1>11 DEF OwnLog
  <1>13. OwnToolCalls'
    BY <1>1, <1>5, <1>6 DEF CallsInv, OwnToolCalls
  <1>14. NoneAhead'
    <2>1. s = Server \/ ~(s[2] > failures)
      BY <1>2 DEF CallsInv, NoneAhead
    <2> QED
      BY <1>typed, <1>1, <1>3, <2>1, AheadKept DEF CallsInv
  <1> QED
    BY <1>7, <1>10, <1>12, <1>13, <1>14 DEF CallsInv

LEMMA CallsStep == CallsInv /\ [ProactiveNext]_proactiveVars => CallsInv'
  <1> SUFFICES ASSUME CallsInv, [ProactiveNext]_proactiveVars PROVE CallsInv'
    OBVIOUS
  <1>1. CASE UNCHANGED <<scan, failures, run, runs, calls, beside>>
    BY <1>1 DEF CallsInv, ScanTyped, NoneAhead, SeenTogether, MayOverlap, OwnLog, OwnToolCalls
  <1>2. CASE CooldownExpires \/ UNCHANGED proactiveVars
    BY <1>1, <1>2 DEF CooldownExpires, proactiveVars
  <1>3. ASSUME NEW u \in User, BackoffExpires(u) \/ RatingsAge(u)
               \/ \E outcome \in {"good", "bad", "none"} : SelfRate(u, outcome)
        PROVE  CallsInv'
    BY <1>1, <1>3 DEF BackoffExpires, RatingsAge, SelfRate
  <1> QED
    BY <1>2, <1>3, ScanLogStep, SlotLogStep, LoopLogStep DEF ProactiveNext

\* link_tool_calls_to_artifact, which goes by user and time: whatever overlaps, fails or comes
\* late, an artifact shows the calls of the run that made it and of runs of the same user
\* beside it, and such runs are the entity's, or those of a scan that an exception has ended.
THEOREM ToolCallsAreOwn == ProactiveSpec => []OwnToolCalls
  <1>1. CallsInv => OwnToolCalls
    BY DEF CallsInv
  <1> QED
    BY CallsInit, CallsStep, <1>1, PTL DEF ProactiveSpec
==============================================================================
