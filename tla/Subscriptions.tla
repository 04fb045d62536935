--------------------------- MODULE Subscriptions ----------------------------
(* The plans, the subscription of one condominium and the four levers on   *)
(* its modules (plan_service, subscription_service and set_modules of      *)
(* tenant_service).  Prices, names and the status of the subscription are  *)
(* not told apart; Modules are the toggleable ones.  Bounds: PlanIds.      *)
EXTENDS Requests

CONSTANTS Modules, Bundles, PlanIds

(* Plan: id -> row or NoPlan; TenantSubscription: row or NoSubscription;   *)
(* the modules of Tenant not in disabled_modules.                          *)
VARIABLES plans, subscription, active
contract == <<plans, subscription, active>>

NoPlan == [on |-> FALSE]
NoSubscription == [courtesy |-> {}]

Managed == subscription # NoSubscription
Priced == {p \in PlanIds : plans[p] # NoPlan}

(* entitlement: what the plan includes; an unmanaged tenant has them all.  *)
Included == IF Managed THEN plans[subscription.plan].included ELSE {}
Ceiling == IF Managed THEN Included \cup subscription.courtesy ELSE Modules

(* split_bundles finds nothing.                                            *)
Whole(S) == \A b \in Bundles : b \cap S \in {{}, b}

SubscriptionsInit ==
    /\ plans = [p \in PlanIds |-> NoPlan]
    /\ subscription = NoSubscription
    /\ active = Modules

(* create_plan.                                                            *)
CreatePlan(w) ==
    /\ Free(w)
    /\ \E p \in PlanIds \ Priced, S \in SUBSET Modules :
          /\ Whole(S)
          /\ plans' = [plans EXCEPT ![p] = [on |-> TRUE, included |-> S]]
    /\ UNCHANGED <<subscription, active, req>>

(* update_plan: no tenant is touched.                                      *)
UpdatePlan(w) ==
    /\ Free(w)
    /\ \E p \in Priced :
          \/ \E S \in SUBSET Modules :
                Whole(S) /\ plans' = [plans EXCEPT ![p].included = S]
          \/ \E on \in BOOLEAN : plans' = [plans EXCEPT ![p].on = on]
    /\ UNCHANGED <<subscription, active>>
    /\ Overtake(w)

(* What a lever read, what it makes of the modules and the subscription,   *)
(* and what the history row it adds says was switched on and off.          *)
Pull(w, lever, new, added, removed, change) ==
    Ask(w, [op |-> "pull", lever |-> lever, active |-> active,
            subscription |-> subscription, to |-> new, change |-> change,
            added |-> added, removed |-> removed, fresh |-> TRUE])

(* A mistake: what courtesy or an override switched on is not preserved.   *)
PreservedNone == {}
Preserved == active \ Included

(* set_modules of subscription_service, up to its commit: the tenant names *)
(* modules within the ceiling.                                             *)
Contract(w) ==
    /\ Free(w) /\ Managed
    /\ \E requested \in SUBSET Ceiling :
          LET new == requested \cup Preserved
          IN /\ Whole(new) /\ new # active
             /\ Pull(w, "contract", new, new \ active, active \ new, subscription)
    /\ UNCHANGED contract

(* A mistake: the ceiling of the plan left behind is applied.              *)
ShrunkToOld(p) == active \cap Ceiling
ShrunkTo(p) == active \cap (plans[p].included \cup subscription.courtesy)

(* set_plan, up to its commit: what leaves the ceiling is switched off and *)
(* nothing is switched on.  The same plan again switching nothing off is   *)
(* not written.                                                            *)
SetPlan(w) ==
    /\ Free(w)
    /\ \E p \in Priced :
          LET same == Managed /\ subscription.plan = p
          IN /\ plans[p].on \/ same
             /\ ~(same /\ ShrunkTo(p) = active)
             /\ Pull(w, "plan", ShrunkTo(p), {}, active \ ShrunkTo(p),
                     [plan |-> p, courtesy |-> subscription.courtesy])
    /\ UNCHANGED contract

(* set_courtesy, up to its commit: what is granted is switched on, what is *)
(* revoked off unless the plan has it.                                     *)
SetCourtesy(w) ==
    /\ Free(w) /\ Managed
    /\ \E requested \in SUBSET Modules :
          LET granted == requested \ subscription.courtesy
              revoked == subscription.courtesy \ requested
              new == (active \cup granted) \ (revoked \ Included)
          IN /\ Whole(Included \cup requested) /\ Whole(new)
             /\ Pull(w, "courtesy", new, granted, revoked,
                     [plan |-> subscription.plan, courtesy |-> requested])
    /\ UNCHANGED contract

(* set_modules of tenant_service, up to its commit: the operator's switch  *)
(* knows no ceiling, and no history without a subscription.                *)
RawSwitch(w) ==
    /\ Free(w)
    /\ \E new \in SUBSET Modules :
          Whole(new) /\ Pull(w, "raw", new, new \ active, active \ new, subscription)
    /\ UNCHANGED contract

(* The commit of a lever.  A column is written when its value is not the   *)
(* one read; a second subscription of the tenant is refused.               *)
Adopts(w) == req[w].lever = "plan" /\ req[w].subscription = NoSubscription

Pulled(w) ==
    /\ Serving(w, "pull")
    /\ IF Adopts(w) /\ Managed THEN UNCHANGED <<subscription, active>>
       ELSE /\ active' = Column(req[w].to, req[w].active, active)
            /\ subscription' =
                 IF Adopts(w) THEN req[w].change
                 ELSE IF req[w].change = req[w].subscription THEN subscription
                 ELSE LET read == req[w].subscription  to == req[w].change
                      IN [plan |-> Column(to.plan, read.plan, subscription.plan),
                          courtesy |-> Column(to.courtesy, read.courtesy,
                                              subscription.courtesy)]
    /\ IF UNCHANGED <<subscription, active>> THEN Answer(w) ELSE Overtake(w)
    /\ UNCHANGED plans

SubscriptionsCrash(w) == Dies(w) /\ UNCHANGED contract

SubscriptionsNext == \E w \in Workers :
    \/ CreatePlan(w) \/ UpdatePlan(w) \/ Contract(w) \/ SetPlan(w)
    \/ SetCourtesy(w) \/ RawSwitch(w) \/ Pulled(w) \/ SubscriptionsCrash(w)

SubscriptionsSpec ==
    SubscriptionsInit /\ NoRequest /\ [][SubscriptionsNext]_<<contract, req>>
-----------------------------------------------------------------------------
(* Worker w commits a change, and nothing was written since it read.       *)
Commits(w) == Serving(w, "pull") /\ Free(w)' /\ req[w].fresh

(* The ceiling: a lever other than the operator's leaves no module on that *)
(* it put outside the entitlement, and a change of plan none at all,       *)
(* unless another request wrote between its reads and its commit.          *)
CeilingHeld ==
    [][\A w \in Workers : Commits(w) =>
          CASE req[w].lever = "raw" -> TRUE
            [] req[w].lever = "plan" -> active' \subseteq Ceiling'
            [] OTHER -> active' \ Ceiling' \subseteq active \ Ceiling]_contract

(* The history is complete: a commit switches on and off nothing its row   *)
(* does not name, and the tenant's own lever nothing that courtesy or the  *)
(* operator switched on, under the same condition.                         *)
ToldInHistory ==
    [][\A w \in Workers : Commits(w) =>
          /\ active' \ active \subseteq req[w].added
          /\ active \ active' \subseteq req[w].removed
          /\ req[w].lever = "contract" => active \ Included \subseteq active']_contract

(* "Sets of modules that are always entirely on or entirely off -- for a   *)
(* tenant" (MODULE_BUNDLES).                                               *)
BundlesWhole == Whole(active)
=============================================================================
