------------------------------- MODULE Admission -------------------------------
(***************************************************************************)
(* What a request of one subject goes through: the rate limiter            *)
(* (middleware/rate_limiter.py), the login (api/deps.py, auth.py), the     *)
(* daily token quota with the run it admits (billing.py,                   *)
(* api/intent_routes.py), and the trust routes (TrustLadder).              *)
(*                                                                         *)
(* Redis keeps one counter per group and subject.  INCR and TTL are two    *)
(* commands of a pipeline that is no transaction, EXPIRE a third one sent  *)
(* after the answer: other requests, the expiry of the key, a Redis        *)
(* failure or a crash of the server come in between.                       *)
(***************************************************************************)
EXTENDS TrustLadder, FiniteSets

CONSTANTS
    Limit,           \* requests per window: settings.rate_limit_*_rpm
    FreeLimit,       \* TIER_DAILY_LIMITS, in the units of MaxCost
    ProLimit,
    EnterpriseLimit,
    MaxCost,         \* bound: tokens one run records
    MaxSessions,     \* bound: refresh tokens of the user
    MaxFaults        \* bound: Redis failures and crashes

ASSUME AdmissionAssumption ==
    /\ {Limit, MaxCost, MaxSessions, MaxFaults} \subseteq Nat
    /\ {FreeLimit, ProLimit, EnterpriseLimit} \subseteq Nat \ {0}
    /\ FreeLimit <= ProLimit /\ ProLimit <= EnterpriseLimit
    /\ IsFiniteSet(Request)

VARIABLES
    group,     \* the group the requests of this behaviour are in; it never changes
    key,       \* Redis: the counter (0: no key) and whether it has a TTL
    req,       \* req[r]: where the request stands, and the count it got
    used,      \* users.tokens_used_today
    tier,      \* users.tier
    customer,  \* users.stripe_customer_id is set
    granted,   \* the highest daily limit since the last reset (history)
    sessions,  \* rows of refresh_tokens
    faults

limiterVars == <<group, key, req, faults>>
quotaVars == <<used, tier, customer, granted>>
vars == <<limiterVars, quotaVars, sessions, trustVars>>

----------------------------------------------------------------------------
(* The rate limiter. *)

\* _classify_endpoint; the exempt paths meet none of what follows.
Group == {"auth", "intent", "api"}

Key(count, ttl) == [count |-> count, ttl |-> ttl]

At(r, pc, count) == req' = [req EXCEPT ![r] = [pc |-> pc, count |-> count]]

MaxOf(a, b) == IF a >= b THEN a ELSE b

\* dispatch: the key of the group and the subject.
Arrive(r) ==
    /\ req[r].pc = "idle"
    /\ At(r, "incr", 0)
    /\ UNCHANGED <<group, key, faults>>

\* The counter saturates above the limit: nothing tells larger values apart.
Incr(r) ==
    LET count == IF key.count > Limit THEN key.count ELSE key.count + 1
    IN /\ req[r].pc = "incr"
       /\ key' = Key(count, key.ttl)
       /\ At(r, "ttl", count)
       /\ UNCHANGED <<group, faults>>

\* The verdict: 429, or the next layer.
Verdict(r) ==
    IF req[r].count > Limit THEN At(r, "idle", 0) ELSE At(r, "admitted", 0)

\* Mutant of Ttl: only the first request of a window sets the TTL.
TtlUnrepaired(r) ==
    /\ req[r].pc = "ttl"
    /\ IF req[r].count = 1 THEN At(r, "first", 1) ELSE Verdict(r)
    /\ UNCHANGED <<group, key, faults>>

\* TTL answers -1 without one and -2 without the key: both are repaired.
Ttl(r) ==
    /\ req[r].pc = "ttl"
    /\ IF key.ttl
       THEN IF req[r].count = 1 THEN At(r, "first", 1) ELSE Verdict(r)
       ELSE At(r, "repair", req[r].count)
    /\ UNCHANGED <<group, key, faults>>

\* EXPIRE does nothing when the key is gone.
SetTtl == key' = Key(key.count, key.count > 0)

Repair(r) ==
    /\ req[r].pc = "repair"
    /\ SetTtl
    /\ IF req[r].count = 1 THEN At(r, "first", 1) ELSE Verdict(r)
    /\ UNCHANGED <<group, faults>>

First(r) ==
    /\ req[r].pc = "first"
    /\ SetTtl
    /\ Verdict(r)
    /\ UNCHANGED <<group, faults>>

\* Any Redis error lets the request pass; the INCR may have been done.
FailOpen(r) ==
    /\ req[r].pc \in {"incr", "ttl", "repair", "first"}
    /\ faults < MaxFaults
    /\ faults' = faults + 1
    /\ \E count \in {key.count, IF key.count > Limit THEN key.count ELSE key.count + 1} :
          key' = IF req[r].pc = "incr" THEN Key(count, key.ttl) ELSE key
    /\ At(r, "admitted", 0)
    /\ UNCHANGED group

\* Redis drops a key whose TTL has run out.
Expires == /\ key.ttl
           /\ key' = Key(0, FALSE)
           /\ UNCHANGED <<group, req, faults>>

----------------------------------------------------------------------------
(* The handlers behind it. *)

Leave(r, pc) == /\ At(r, pc, 0)
                /\ UNCHANGED <<group, key, faults>>

Admitted(r, g) == req[r].pc = "admitted" /\ group = g

\* current_user: no token, an invalid or expired one, or a user that is gone.
Unauthorised(r) ==
    /\ req[r].pc = "admitted" /\ group # "auth"
    /\ Leave(r, "idle")
    /\ UNCHANGED <<quotaVars, sessions, trustVars>>

\* signup and login: a refresh token is saved, or an AuthError leaves all as it is.
Login(r) ==
    /\ Admitted(r, "auth")
    /\ \/ sessions < MaxSessions /\ sessions' = sessions + 1
       \/ UNCHANGED sessions
    /\ Leave(r, "idle")
    /\ UNCHANGED <<quotaVars, trustVars>>

\* rotate_refresh_token: the old row is deleted and a new one saved, with no await
\* in between.
Refresh(r) ==
    /\ Admitted(r, "api") /\ sessions > 0
    /\ Leave(r, "idle")
    /\ UNCHANGED <<quotaVars, sessions, trustVars>>

DailyLimit(t) ==
    IF t = "enterprise" THEN EnterpriseLimit ELSE IF t = "pro" THEN ProLimit ELSE FreeLimit

\* Mutant of CheckQuota: the last token of the day buys one more run.
CheckQuotaAbove == used <= DailyLimit(tier)

\* check_quota
CheckQuota == used < DailyLimit(tier)

\* create_intent: the run is created, or the request answered with 429.
CreateIntent(r) ==
    /\ Admitted(r, "intent")
    /\ Leave(r, IF CheckQuota THEN "running" ELSE "idle")
    /\ UNCHANGED <<quotaVars, sessions, trustVars>>

\* The end of _run_orchestration: record_usage of what was answered, if anything was.
RecordUsage(r) ==
    /\ req[r].pc = "running"
    /\ \E cost \in 0 .. MaxCost : used' = used + cost
    /\ Leave(r, "idle")
    /\ UNCHANGED <<tier, customer, granted, sessions, trustVars>>

\* scripts/reset_daily_budgets.py, at midnight.
ResetDailyBudget ==
    /\ group = "intent"
    /\ used' = 0
    /\ granted' = DailyLimit(tier)
    /\ UNCHANGED <<limiterVars, tier, customer, sessions, trustVars>>

\* update_user_tier
SetTier(t) == /\ tier' = t
              /\ granted' = MaxOf(granted, DailyLimit(t))
              /\ UNCHANGED used

\* create_checkout_session stores the customer before Stripe reports anything.
CreateCheckout ==
    /\ group = "intent" /\ ~customer
    /\ customer' = TRUE
    /\ UNCHANGED <<limiterVars, used, tier, granted, sessions, trustVars>>

\* The webhooks.  Stripe retries and does not order them, and the handlers keep no
\* record of what they have applied: any of them may come at any time.
OnCheckoutCompleted ==
    /\ group = "intent"
    /\ customer' = TRUE
    /\ \E t \in {"pro", "enterprise"} : SetTier(t)
    /\ UNCHANGED <<limiterVars, sessions, trustVars>>

OnSubscriptionDeleted ==
    /\ group = "intent" /\ customer
    /\ SetTier("free")
    /\ UNCHANGED <<limiterVars, customer, sessions, trustVars>>

OnSubscriptionUpdated ==
    /\ group = "intent" /\ customer
    /\ \E t \in {"pro", "enterprise"} : SetTier(t)
    /\ UNCHANGED <<limiterVars, customer, sessions, trustVars>>

\* handle_webhook_event: what is not signed or not known changes nothing.
Webhook == OnCheckoutCompleted \/ OnSubscriptionDeleted \/ OnSubscriptionUpdated

\* The trust routes are behind the "api" limit.
TrustRoute(r) ==
    /\ Admitted(r, "api")
    /\ \/ GrantReads(r) /\ Leave(r, "granting")
       \/ (Revoke \/ RateGood \/ RateBad) /\ Leave(r, "idle")
    /\ UNCHANGED <<quotaVars, sessions>>

GrantEnds(r) ==
    /\ req[r].pc = "granting"
    /\ GrantWrites(r)
    /\ Leave(r, "idle")
    /\ UNCHANGED <<quotaVars, sessions>>

\* The server dies: no request survives, the runs are never recorded, Redis and the
\* database stay; a refresh token whose successor was not saved yet is lost.
Crash ==
    /\ faults < MaxFaults
    /\ \E r \in Request : req[r].pc # "idle"
    /\ faults' = faults + 1
    /\ req' = [r \in Request |-> [pc |-> "idle", count |-> 0]]
    /\ grant' = [r \in Request |-> NoGrant]
    /\ \/ UNCHANGED sessions
       \/ /\ \E r \in Request : Admitted(r, "api")
          /\ sessions > 0 /\ sessions' = sessions - 1
    /\ UNCHANGED <<group, key, quotaVars, trust>>

----------------------------------------------------------------------------
Limiter(r) ==
    /\ Arrive(r) \/ Incr(r) \/ Ttl(r) \/ Repair(r) \/ First(r)
    /\ UNCHANGED <<quotaVars, sessions, trustVars>>

Handler(r) == \/ Unauthorised(r) \/ Login(r) \/ Refresh(r)
              \/ CreateIntent(r) \/ RecordUsage(r) \/ TrustRoute(r) \/ GrantEnds(r)

KeyExpires == Expires /\ UNCHANGED <<quotaVars, sessions, trustVars>>

RedisFails(r) == FailOpen(r) /\ UNCHANGED <<quotaVars, sessions, trustVars>>

Next ==
    \/ \E r \in Request : Limiter(r) \/ Handler(r) \/ RedisFails(r)
    \/ KeyExpires
    \/ ResetDailyBudget \/ CreateCheckout
    \/ Webhook
    \/ Crash

Init ==
    /\ group \in Group
    /\ key = Key(0, FALSE)
    /\ req = [r \in Request |-> [pc |-> "idle", count |-> 0]]
    /\ used = 0 /\ tier = "free" /\ customer = FALSE /\ granted = FreeLimit
    /\ sessions \in 0 .. MaxSessions
    /\ faults = 0
    /\ TrustInit

Spec == Init /\ [][Next]_vars

\* The server serves, the subject keeps asking, and Redis expires its keys.
FairSpec == /\ Spec
            /\ WF_vars(\E r \in Request : Limiter(r) \/ Handler(r))
            /\ WF_vars(KeyExpires)

----------------------------------------------------------------------------
\* A subject over its limit is let in again: whatever command was lost to a Redis
\* error or a crash, a later request gives the counter a TTL, and the counter goes
\* (_check_rate_limit, ttl < 0).
BlockedEnds == (key.count > Limit) ~> (key.count = 0)

\* check_quota is read when a run starts and usage written when it ends: what is
\* spent goes over the day's limit by no more than the runs in flight cost.
OverspendBounded ==
    LET running == {r \in Request : req[r].pc = "running"}
    IN used + MaxCost * Cardinality(running) < granted + MaxCost * Cardinality(Request)

\* A level above 0 rests on the good ratings its threshold asks for, whatever grants,
\* revocations and ratings were served while a grant was between its read and its
\* write (trust_grant).
LevelEarned == trust.level > 0 => trust.good >= Threshold(trust.level)
=============================================================================
