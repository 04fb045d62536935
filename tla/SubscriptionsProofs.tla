------------------------ MODULE SubscriptionsProofs ------------------------
(* Whatever the modules, plans and number of workers: a lever whose        *)
(* request nobody overtook keeps to the ceiling and tells all in the       *)
(* history.                                                                *)
EXTENDS Subscriptions, TLAPS

Plan == [on : BOOLEAN, included : SUBSET Modules]
Subscription == [plan : PlanIds, courtesy : SUBSET Modules]
Pulls == [op : {"pull"}, lever : {"contract", "plan", "courtesy", "raw"},
          active : SUBSET Modules, subscription : Subscription \cup {NoSubscription},
          to : SUBSET Modules, change : Subscription \cup {NoSubscription},
          added : SUBSET Modules, removed : SUBSET Modules, fresh : BOOLEAN]

ContractTyped ==
    /\ plans \in [PlanIds -> Plan \cup {NoPlan}]
    /\ subscription \in Subscription \cup {NoSubscription}
    /\ active \subseteq Modules
    /\ req \in [Workers -> Pulls \cup {IdleReq}]

(* The plans a subscription names exist; one that was read is still there, *)
(* and only a change of plan can make the first one.                       *)
PlansExist ==
    /\ Managed => subscription.plan \in Priced
    /\ \A w \in Workers : Serving(w, "pull") =>
          /\ req[w].change # NoSubscription => req[w].change.plan \in Priced
          /\ req[w].subscription # NoSubscription => Managed
          /\ req[w].change # req[w].subscription =>
                req[w].change # NoSubscription /\ (Adopts(w) \/ req[w].subscription # NoSubscription)

(* What a request means to write, by what is stored now.                   *)
Keeps(w) ==
    LET r == req[w]
    IN /\ r.active = active /\ r.subscription = subscription
       /\ r.to \ active \subseteq r.added /\ active \ r.to \subseteq r.removed
       /\ r.lever = "contract" =>
             /\ r.change = subscription /\ Managed
             /\ r.to \ Ceiling \subseteq active \ Ceiling /\ active \ Included \subseteq r.to
       /\ r.lever = "plan" =>
             /\ r.change # NoSubscription
             /\ r.to \subseteq plans[r.change.plan].included \cup r.change.courtesy
       /\ r.lever = "courtesy" =>
             /\ r.change # NoSubscription /\ Managed /\ r.change.plan = subscription.plan
             /\ r.to \ (Included \cup r.change.courtesy) \subseteq active \ Ceiling

FreshKeeps == \A w \in Workers : Serving(w, "pull") /\ req[w].fresh => Keeps(w)

ContractInv == ContractTyped /\ PlansExist /\ FreshKeeps

CeilingStep ==
    \A w \in Workers : Commits(w) =>
          CASE req[w].lever = "raw" -> TRUE
            [] req[w].lever = "plan" -> active' \subseteq Ceiling'
            [] OTHER -> active' \ Ceiling' \subseteq active \ Ceiling

ToldStep ==
    \A w \in Workers : Commits(w) =>
          /\ active' \ active \subseteq req[w].added
          /\ active \ active' \subseteq req[w].removed
          /\ req[w].lever = "contract" => active \ Included \subseteq active'

Goal == ContractInv' /\ [CeilingStep]_contract /\ [ToldStep]_contract
-----------------------------------------------------------------------------
LEMMA ContractShapes ==
    /\ NoPlan \notin Plan /\ NoSubscription \notin Subscription /\ IdleReq \notin Pulls
    /\ IdleReq.op = "idle" /\ \A r \in Pulls : r.op = "pull"
  BY DEF NoPlan, NoSubscription, IdleReq, Plan, Subscription, Pulls

LEMMA Working ==
    ASSUME ContractTyped, NEW w \in Workers
    PROVE  /\ Serving(w, "pull") => req[w] \in Pulls
           /\ ~Free(w) => req[w] \in Pulls
           /\ Free(w) => ~Serving(w, "pull")
  BY ContractShapes DEF ContractTyped, Serving, Free

(* The plan of a subscription has modules.                                 *)
LEMMA CeilingTyped ==
    ASSUME ContractInv
    PROVE  Included \subseteq Modules /\ Ceiling \subseteq Modules
<1>1. CASE Managed
  <2>1. plans[subscription.plan] \in Plan /\ subscription \in Subscription
    BY <1>1 DEF ContractInv, ContractTyped, PlansExist, Managed, Priced
  <2> QED
    BY <1>1, <2>1 DEF Plan, Subscription, Included, Ceiling
<1>2. CASE ~Managed
  BY <1>2 DEF Included, Ceiling
<1> QED
  BY <1>1, <1>2

(* A request ends, or a lever is pulled, and nothing is written.           *)
LEMMA NothingWritten ==
    ASSUME ContractInv, NEW w \in Workers, NEW r \in Pulls \cup {IdleReq},
           req' = [req EXCEPT ![w] = r], UNCHANGED contract,
           Serving(w, "pull")' =>
              /\ r.change # NoSubscription => r.change.plan \in Priced
              /\ r.subscription # NoSubscription => Managed
              /\ r.change # r.subscription =>
                    r.change # NoSubscription /\ (Adopts(w)' \/ r.subscription # NoSubscription)
              /\ Keeps(w)'
    PROVE  Goal
<1> USE DEF ContractInv
<1>1. UNCHANGED <<plans, subscription, active>>
  BY DEF contract
<1>2. /\ ContractTyped' /\ Priced' = Priced /\ Managed' = Managed
      /\ Included' = Included /\ Ceiling' = Ceiling
  BY <1>1 DEF ContractTyped, Priced, Managed, Included, Ceiling
<1>3. req'[w] = r /\ \A v \in Workers : v # w => req'[v] = req[v]
  BY DEF ContractTyped
<1>4. PlansExist'
  BY <1>1, <1>2, <1>3 DEF PlansExist, Serving, Adopts
<1>5. FreshKeeps'
  BY <1>1, <1>2, <1>3 DEF FreshKeeps, Serving, Keeps
<1> QED
  BY <1>2, <1>4, <1>5 DEF Goal

(* What was read is overtaken: only the worker that wrote has answered.    *)
LEMMA Overtaken ==
    ASSUME ContractTyped, NEW w \in Workers, Overtake(w)
    PROVE  /\ req' \in [Workers -> Pulls \cup {IdleReq}]
           /\ req'[w] = IdleReq
           /\ \A v \in Workers : Serving(v, "pull")' =>
                 /\ v # w /\ Serving(v, "pull") /\ ~req'[v].fresh
                 /\ req'[v].lever = req[v].lever /\ req'[v].change = req[v].change
                 /\ req'[v].subscription = req[v].subscription
           /\ \A v \in Workers : v # w /\ Free(v)' => Free(v)
<1>1. req' = [v \in Workers |-> IF v = w THEN IdleReq
                 ELSE IF Free(v) THEN req[v] ELSE [req[v] EXCEPT !.fresh = FALSE]]
  BY DEF Overtake
<1>2. \A v \in Workers : v # w /\ ~Free(v) =>
          /\ req[v] \in Pulls /\ req'[v] \in Pulls /\ ~req'[v].fresh
          /\ req'[v].lever = req[v].lever /\ req'[v].change = req[v].change
          /\ req'[v].subscription = req[v].subscription
  <2> SUFFICES ASSUME NEW v \in Workers, v # w, ~Free(v)
               PROVE  /\ req[v] \in Pulls /\ req'[v] \in Pulls /\ ~req'[v].fresh
                      /\ req'[v].lever = req[v].lever /\ req'[v].change = req[v].change
                      /\ req'[v].subscription = req[v].subscription
    OBVIOUS
  <2>1. req[v] \in Pulls
    BY Working
  <2>2. req'[v] = [req[v] EXCEPT !.fresh = FALSE]
    BY <1>1
  <2> QED
    BY <2>1, <2>2 DEF Pulls
<1>3. req'[w] = IdleReq /\ \A v \in Workers : v # w /\ Free(v) => req'[v] = IdleReq
  BY <1>1 DEF Free
<1>4. \A v \in Workers : req'[v] \in Pulls \cup {IdleReq}
  BY <1>2, <1>3
<1> QED
  BY <1>1, <1>2, <1>3, <1>4, ContractShapes, Working DEF Serving, Free
-----------------------------------------------------------------------------
LEMMA ContractStart == SubscriptionsInit /\ NoRequest => ContractInv
  BY DEF SubscriptionsInit, NoRequest, ContractInv, ContractTyped, PlansExist, FreshKeeps,
         Managed, Serving, IdleReq

(* create_plan: nobody names the plan yet.                                 *)
LEMMA CreatePlanKeeps ==
    ASSUME ContractInv, NEW w \in Workers, CreatePlan(w)
    PROVE  Goal
<1> USE DEF ContractInv
<1> PICK p \in PlanIds \ Priced, S \in SUBSET Modules :
        plans' = [plans EXCEPT ![p] = [on |-> TRUE, included |-> S]]
  BY DEF CreatePlan
<1>1. UNCHANGED <<subscription, active, req>>
  BY DEF CreatePlan
<1>2. [on |-> TRUE, included |-> S] \in Plan
  BY DEF Plan
<1>3. ContractTyped'
  BY <1>1, <1>2 DEF ContractTyped
<1>4. \A q \in Priced : plans'[q] = plans[q] /\ q \in Priced'
  BY DEF Priced, ContractTyped
<1>5. Managed' = Managed /\ Included' = Included /\ Ceiling' = Ceiling
  <2>1. Managed' = Managed
    BY <1>1 DEF Managed
  <2>2. Managed => plans'[subscription.plan] = plans[subscription.plan]
    BY <1>4 DEF PlansExist
  <2>3. Included' = Included
    BY <1>1, <2>1, <2>2 DEF Included
  <2> QED
    BY <1>1, <2>1, <2>3 DEF Ceiling
<1>6. PlansExist'
  BY <1>1, <1>4, <1>5 DEF PlansExist, Serving, Adopts
<1>7. FreshKeeps'
  BY <1>1, <1>4, <1>5 DEF FreshKeeps, Keeps, Serving, PlansExist
<1>8. \A v \in Workers : ~Commits(v)
  BY <1>1, Working DEF Commits, Free
<1> QED
  BY <1>3, <1>6, <1>7, <1>8 DEF Goal, CeilingStep, ToldStep

(* update_plan overtakes every request under way.                          *)
LEMMA UpdatePlanKeeps ==
    ASSUME ContractInv, NEW w \in Workers, UpdatePlan(w)
    PROVE  Goal
<1> USE DEF ContractInv
<1>1. Overtake(w) /\ Free(w) /\ UNCHANGED <<subscription, active>>
  BY DEF UpdatePlan
<1>2. PICK p \in Priced : \/ \E S \in SUBSET Modules : plans' = [plans EXCEPT ![p].included = S]
                          \/ \E on \in BOOLEAN : plans' = [plans EXCEPT ![p].on = on]
  BY DEF UpdatePlan
<1>3. p \in PlanIds /\ plans[p] \in Plan
  BY DEF Priced, ContractTyped
<1>4. PICK row \in Plan : plans' = [plans EXCEPT ![p] = row]
  <2>1. CASE \E S \in SUBSET Modules : plans' = [plans EXCEPT ![p].included = S]
    <3> PICK S \in SUBSET Modules : plans' = [plans EXCEPT ![p].included = S]
      BY <2>1
    <3>1. [plans[p] EXCEPT !.included = S] \in Plan
      BY <1>3 DEF Plan
    <3> QED
      BY <1>3, <3>1 DEF ContractTyped
  <2>2. CASE \E on \in BOOLEAN : plans' = [plans EXCEPT ![p].on = on]
    <3> PICK on \in BOOLEAN : plans' = [plans EXCEPT ![p].on = on]
      BY <2>2
    <3>1. [plans[p] EXCEPT !.on = on] \in Plan
      BY <1>3 DEF Plan
    <3> QED
      BY <1>3, <3>1 DEF ContractTyped
  <2> QED
    BY <1>2, <2>1, <2>2
<1>5. ContractTyped'
  BY <1>1, <1>3, <1>4, Overtaken DEF ContractTyped
<1>6. Priced \subseteq Priced'
  BY <1>3, <1>4, ContractShapes DEF Priced, ContractTyped
<1>7. PlansExist'
  BY <1>1, <1>6, Overtaken DEF PlansExist, Managed, Adopts
<1>8. FreshKeeps'
  BY <1>1, Overtaken DEF FreshKeeps
<1>9. \A v \in Workers : ~Commits(v)
  BY <1>1, Overtaken, Working DEF Commits
<1> QED
  BY <1>5, <1>7, <1>8, <1>9 DEF Goal, CeilingStep, ToldStep

(* A lever, up to its commit, where it meets the conditions of Keeps.      *)
LEMMA PullKeeps ==
    ASSUME ContractInv, NEW w \in Workers, UNCHANGED contract,
           NEW lever \in {"contract", "plan", "courtesy", "raw"},
           NEW new \in SUBSET Modules, NEW added \in SUBSET Modules,
           NEW removed \in SUBSET Modules, NEW change \in Subscription \cup {NoSubscription},
           Pull(w, lever, new, added, removed, change),
           new \ active \subseteq added, active \ new \subseteq removed,
           change = subscription \/ (change # NoSubscription /\ change.plan \in Priced),
           lever = "contract" =>
             /\ change = subscription /\ Managed
             /\ new \ Ceiling \subseteq active \ Ceiling /\ active \ Included \subseteq new,
           lever = "plan" =>
             /\ change # NoSubscription
             /\ new \subseteq plans[change.plan].included \cup change.courtesy,
           lever = "courtesy" =>
             /\ change # NoSubscription /\ Managed /\ change.plan = subscription.plan
             /\ new \ (Included \cup change.courtesy) \subseteq active \ Ceiling,
           lever = "raw" => change = subscription
    PROVE  Goal
<1> USE DEF ContractInv
<1> DEFINE r == [op |-> "pull", lever |-> lever, active |-> active,
                 subscription |-> subscription, to |-> new, change |-> change,
                 added |-> added, removed |-> removed, fresh |-> TRUE]
<1>1. r \in Pulls
  BY DEF Pulls, ContractTyped
<1>2. /\ r.lever = lever /\ r.active = active /\ r.subscription = subscription /\ r.to = new
      /\ r.change = change /\ r.added = added /\ r.removed = removed
  OBVIOUS
<1>3. req' = [req EXCEPT ![w] = r]
  BY DEF Pull, Ask
<1> HIDE DEF r
<1>4. req'[w] = r
  BY <1>3 DEF ContractTyped
<1>5. UNCHANGED <<plans, subscription, active>>
  BY DEF contract
<1>6. Included' = Included /\ Ceiling' = Ceiling /\ Managed' = Managed
  BY <1>5 DEF Included, Ceiling, Managed
<1>7. Keeps(w)'
  BY <1>2, <1>4, <1>5, <1>6 DEF Keeps
<1>8. r.change # NoSubscription => r.change.plan \in Priced
  BY <1>2 DEF PlansExist, Managed
<1>9. r.change # r.subscription =>
          r.change # NoSubscription /\ (Adopts(w)' \/ r.subscription # NoSubscription)
  BY <1>2, <1>4 DEF Adopts, Managed
<1> QED
  BY <1>1, <1>2, <1>3, <1>7, <1>8, <1>9, NothingWritten DEF Managed

LEMMA LeversKeep ==
    ASSUME ContractInv, NEW w \in Workers,
           Contract(w) \/ SetPlan(w) \/ SetCourtesy(w) \/ RawSwitch(w)
    PROVE  Goal
<1> USE DEF ContractInv
<1>1. /\ UNCHANGED contract /\ active \subseteq Modules
      /\ subscription \in Subscription \cup {NoSubscription}
  BY DEF Contract, SetPlan, SetCourtesy, RawSwitch, ContractTyped
<1>2. Included \subseteq Modules /\ Ceiling \subseteq Modules
  BY CeilingTyped
<1>3. CASE Contract(w)
  <2> PICK requested \in SUBSET Ceiling :
          LET new == requested \cup Preserved
          IN Pull(w, "contract", new, new \ active, active \ new, subscription)
    BY <1>3 DEF Contract
  <2> DEFINE new == requested \cup Preserved
  <2>1. Managed /\ Pull(w, "contract", new, new \ active, active \ new, subscription)
    BY <1>3 DEF Contract
  <2>2. /\ new \subseteq Modules /\ new \ Ceiling \subseteq active \ Ceiling
        /\ active \ Included \subseteq new
    BY <1>1, <1>2 DEF Preserved
  <2> HIDE DEF new
  <2>3. new \ active \subseteq Modules /\ active \ new \subseteq Modules
    BY <1>1, <2>2
  <2> QED
    BY <1>1, <2>1, <2>2, <2>3, PullKeeps
<1>4. CASE SetPlan(w)
  <2> PICK p \in Priced : Pull(w, "plan", ShrunkTo(p), {}, active \ ShrunkTo(p),
                               [plan |-> p, courtesy |-> subscription.courtesy])
    BY <1>4 DEF SetPlan
  <2> DEFINE change == [plan |-> p, courtesy |-> subscription.courtesy]
  <2>1. subscription.courtesy \subseteq Modules
    BY <1>1 DEF Subscription, NoSubscription
  <2>2. change \in Subscription /\ change.plan = p /\ change.courtesy = subscription.courtesy
    BY <2>1 DEF Subscription, Priced
  <2>3. /\ ShrunkTo(p) \subseteq active /\ ShrunkTo(p) \subseteq Modules
        /\ ShrunkTo(p) \subseteq plans[p].included \cup subscription.courtesy
        /\ active \ ShrunkTo(p) \subseteq Modules
    BY <1>1 DEF ShrunkTo
  <2>4. Pull(w, "plan", ShrunkTo(p), {}, active \ ShrunkTo(p), change)
    OBVIOUS
  <2> HIDE DEF change
  <2>5. change # NoSubscription /\ ShrunkTo(p) \ active \subseteq {}
    BY <2>2, <2>3, ContractShapes
  <2> QED
    BY <1>1, <2>2, <2>3, <2>4, <2>5, PullKeeps
<1>5. CASE SetCourtesy(w)
  <2> PICK requested \in SUBSET Modules :
          LET granted == requested \ subscription.courtesy
              revoked == subscription.courtesy \ requested
              new == (active \cup granted) \ (revoked \ Included)
          IN Pull(w, "courtesy", new, granted, revoked,
                  [plan |-> subscription.plan, courtesy |-> requested])
    BY <1>5 DEF SetCourtesy
  <2> DEFINE granted == requested \ subscription.courtesy
             revoked == subscription.courtesy \ requested
             new == (active \cup granted) \ (revoked \ Included)
             change == [plan |-> subscription.plan, courtesy |-> requested]
  <2>1. Managed /\ Pull(w, "courtesy", new, granted, revoked, change)
    BY <1>5 DEF SetCourtesy
  <2>2. subscription \in Subscription /\ subscription.plan \in Priced
    BY <1>1, <2>1 DEF Managed, PlansExist
  <2>3. /\ change \in Subscription /\ change.plan = subscription.plan
        /\ change.courtesy = requested /\ subscription.courtesy \subseteq Modules
    BY <2>2 DEF Subscription
  <2>4. Ceiling = Included \cup subscription.courtesy
    BY <2>1 DEF Ceiling
  <2>5. /\ new \subseteq Modules /\ granted \subseteq Modules /\ revoked \subseteq Modules
        /\ new \ active \subseteq granted /\ active \ new \subseteq revoked
        /\ new \ (Included \cup requested) \subseteq active \ Ceiling
    BY <1>1, <2>3, <2>4
  <2> HIDE DEF granted, revoked, new, change
  <2>6. change # NoSubscription
    BY <2>3, ContractShapes
  <2> QED
    BY <1>1, <2>1, <2>2, <2>3, <2>5, <2>6, PullKeeps
<1>6. CASE RawSwitch(w)
  <2> PICK new \in SUBSET Modules :
          Pull(w, "raw", new, new \ active, active \ new, subscription)
    BY <1>6 DEF RawSwitch
  <2>1. new \ active \subseteq Modules /\ active \ new \subseteq Modules
    BY <1>1
  <2> QED
    BY <1>1, <2>1, PullKeeps
<1> QED
  BY <1>3, <1>4, <1>5, <1>6
-----------------------------------------------------------------------------
(* The commit of a lever nobody overtook writes what it means to.          *)
LEMMA FreshCommit ==
    ASSUME ContractInv, NEW w \in Workers, Pulled(w), req[w].fresh
    PROVE  /\ active' = req[w].to
           /\ req[w].change # NoSubscription =>
                 /\ Managed'
                 /\ subscription'.plan = req[w].change.plan
                 /\ subscription'.courtesy = req[w].change.courtesy
           /\ req[w].change = subscription => subscription' = subscription
<1> USE DEF ContractInv
<1> DEFINE r == req[w]
<1>1. Serving(w, "pull") /\ Keeps(w)
  BY DEF Pulled, FreshKeeps
<1>2. r \in Pulls /\ r.active = active /\ r.subscription = subscription
  BY <1>1, Working DEF Keeps
<1>3. ~(Adopts(w) /\ Managed)
  BY <1>2 DEF Adopts, Managed
<1>4. active' = r.to
  BY <1>2, <1>3 DEF Pulled, Column
<1>5. CASE Adopts(w)
  BY <1>2, <1>3, <1>4, <1>5 DEF Pulled, Managed, Adopts
<1>6. CASE ~Adopts(w) /\ r.change = r.subscription
  BY <1>2, <1>4, <1>6 DEF Pulled, Managed
<1>7. CASE ~Adopts(w) /\ r.change # r.subscription
  <2>1. subscription' = [plan |-> r.change.plan, courtesy |-> r.change.courtesy]
    BY <1>2, <1>7 DEF Pulled, Column
  <2>2. "plan" \in DOMAIN subscription'
    BY <2>1
  <2>3. "plan" \notin DOMAIN NoSubscription
    BY DEF NoSubscription
  <2> QED
    BY <1>2, <1>4, <1>7, <2>1, <2>2, <2>3 DEF Managed
<1> QED
  BY <1>5, <1>6, <1>7

LEMMA PulledKeeps ==
    ASSUME ContractInv, NEW w \in Workers, Pulled(w)
    PROVE  Goal
<1> USE DEF ContractInv
<1> DEFINE r == req[w]
<1>1. Serving(w, "pull") /\ r \in Pulls /\ UNCHANGED plans
  BY Working DEF Pulled
<1>2. CASE UNCHANGED <<subscription, active>>
  <2>1. UNCHANGED contract /\ req' = [req EXCEPT ![w] = IdleReq]
    BY <1>1, <1>2 DEF Pulled, contract, Answer, Ask
  <2>2. ~Serving(w, "pull")'
    BY <2>1, ContractShapes DEF Serving, ContractTyped
  <2> QED
    BY <2>1, <2>2, NothingWritten
<1>3. CASE ~UNCHANGED <<subscription, active>>
  <2>1. Overtake(w) /\ ~(Adopts(w) /\ Managed)
    BY <1>3 DEF Pulled
  <2>2. active' \subseteq Modules
    BY <1>1, <2>1 DEF Pulled, Column, ContractTyped, Pulls
  <2>3. /\ subscription' \in Subscription \cup {NoSubscription}
        /\ subscription' # NoSubscription => subscription'.plan \in Priced
        /\ Managed => subscription' # NoSubscription
    <3>1. CASE Adopts(w)
      BY <1>1, <2>1, <3>1 DEF Pulled, PlansExist, Pulls
    <3>2. CASE ~Adopts(w) /\ r.change = r.subscription
      BY <2>1, <3>2 DEF Pulled, PlansExist, ContractTyped, Managed
    <3>3. CASE ~Adopts(w) /\ r.change # r.subscription
      <4>1. /\ r.change \in Subscription /\ r.change.plan \in Priced
            /\ subscription \in Subscription /\ subscription.plan \in Priced
        BY <1>1, <3>3 DEF PlansExist, ContractTyped, Managed, Pulls
      <4>2. subscription' =
               [plan |-> Column(r.change.plan, r.subscription.plan, subscription.plan),
                courtesy |-> Column(r.change.courtesy, r.subscription.courtesy,
                                    subscription.courtesy)]
        BY <3>3 DEF Pulled
      <4>3. /\ Column(r.change.plan, r.subscription.plan, subscription.plan) \in Priced
            /\ Column(r.change.courtesy, r.subscription.courtesy, subscription.courtesy)
                  \subseteq Modules
        BY <4>1 DEF Column, Subscription
      <4>4. subscription' \in Subscription /\ subscription'.plan \in Priced
        BY <4>2, <4>3 DEF Subscription, Priced
      <4> QED
        BY <4>4, ContractShapes
    <3> QED
      BY <3>1, <3>2, <3>3
  <2>4. Priced' = Priced
    BY <1>1 DEF Priced
  <2>5. ContractTyped'
    BY <1>1, <2>1, <2>2, <2>3, Overtaken DEF ContractTyped
  <2>6. PlansExist'
    BY <2>1, <2>3, <2>4, Overtaken DEF PlansExist, Managed, Adopts
  <2>7. FreshKeeps'
    BY <2>1, Overtaken DEF FreshKeeps
  <2>8. \A v \in Workers : Commits(v) => v = w /\ r.fresh
    BY <2>1, Overtaken, Working DEF Commits
  <2>9. ASSUME r.fresh
        PROVE  /\ r.lever = "plan" => active' \subseteq Ceiling'
               /\ r.lever \in {"contract", "courtesy"} =>
                     active' \ Ceiling' \subseteq active \ Ceiling
               /\ active' \ active \subseteq r.added /\ active \ active' \subseteq r.removed
               /\ r.lever = "contract" => active \ Included \subseteq active'
    <3>1. /\ active' = r.to
          /\ r.change # NoSubscription =>
                 /\ Managed'
                 /\ subscription'.plan = r.change.plan
                 /\ subscription'.courtesy = r.change.courtesy
          /\ r.change = subscription => subscription' = subscription
      BY <2>9, FreshCommit
    <3>2. Keeps(w)
      BY <1>1, <2>9 DEF FreshKeeps
    <3>3. r.change # NoSubscription =>
              Ceiling' = plans[r.change.plan].included \cup r.change.courtesy
      BY <1>1, <3>1 DEF Ceiling, Included
    <3>4. r.change = subscription => Ceiling' = Ceiling
      BY <1>1, <3>1 DEF Ceiling, Included, Managed
    <3>5. CASE r.lever = "contract"
      BY <3>1, <3>2, <3>4, <3>5 DEF Keeps
    <3>6. CASE r.lever = "plan"
      BY <3>1, <3>2, <3>3, <3>6 DEF Keeps
    <3>7. CASE r.lever = "courtesy"
      <4>1. Ceiling' = Included \cup r.change.courtesy
        BY <3>2, <3>3, <3>7 DEF Keeps, Included
      <4> QED
        BY <3>1, <3>2, <3>7, <4>1 DEF Keeps
    <3>8. CASE r.lever = "raw"
      BY <3>1, <3>2, <3>8 DEF Keeps
    <3> QED
      BY <1>1, <3>5, <3>6, <3>7, <3>8 DEF Pulls
  <2>10. r.lever \in {"contract", "plan", "courtesy", "raw"}
    BY <1>1 DEF Pulls
  <2>11. CeilingStep
    BY <2>8, <2>9, <2>10 DEF CeilingStep
  <2>12. ToldStep
    BY <2>8, <2>9 DEF ToldStep
  <2> QED
    BY <2>5, <2>6, <2>7, <2>11, <2>12 DEF Goal
<1> QED
  BY <1>2, <1>3

LEMMA ContractStep == ContractInv /\ [SubscriptionsNext]_<<contract, req>> => Goal
<1> SUFFICES ASSUME ContractInv, [SubscriptionsNext]_<<contract, req>>
             PROVE  Goal
  OBVIOUS
<1>1. CASE UNCHANGED <<contract, req>>
  BY <1>1 DEF Goal, contract, ContractInv, ContractTyped, PlansExist, FreshKeeps, Keeps,
              Serving, Adopts, Managed, Priced, Included, Ceiling
<1>2. ASSUME NEW w \in Workers, SubscriptionsCrash(w)
      PROVE  Goal
  <2>1. UNCHANGED contract /\ req' = [req EXCEPT ![w] = IdleReq]
    BY <1>2 DEF SubscriptionsCrash, Dies, Answer, Ask
  <2>2. ~Serving(w, "pull")'
    BY <2>1, ContractShapes DEF Serving, ContractInv, ContractTyped
  <2> QED
    BY <2>1, <2>2, NothingWritten
<1> QED
  BY <1>1, <1>2, CreatePlanKeeps, UpdatePlanKeeps, LeversKeep, PulledKeeps
  DEF SubscriptionsNext
-----------------------------------------------------------------------------
(* set_modules, set_plan and set_courtesy keep to the ceiling in every     *)
(* request that nobody overtook.                                           *)
THEOREM CeilingKept == SubscriptionsSpec => CeilingHeld
<1>1. ContractInv /\ [SubscriptionsNext]_<<contract, req>> => [CeilingStep]_contract
  BY ContractStep DEF Goal
<1>2. ContractInv /\ [SubscriptionsNext]_<<contract, req>> => ContractInv'
  BY ContractStep DEF Goal
<1>3. CeilingStep => [\A w \in Workers : Commits(w) =>
          CASE req[w].lever = "raw" -> TRUE
            [] req[w].lever = "plan" -> active' \subseteq Ceiling'
            [] OTHER -> active' \ Ceiling' \subseteq active \ Ceiling]_contract
  BY DEF CeilingStep
<1> QED
  BY <1>1, <1>2, <1>3, ContractStart, PTL DEF SubscriptionsSpec, CeilingHeld

(* The history row of such a request names all that it switched.           *)
THEOREM HistoryTold == SubscriptionsSpec => ToldInHistory
<1>1. ContractInv /\ [SubscriptionsNext]_<<contract, req>> => [ToldStep]_contract
  BY ContractStep DEF Goal
<1>2. ContractInv /\ [SubscriptionsNext]_<<contract, req>> => ContractInv'
  BY ContractStep DEF Goal
<1>3. ToldStep => [\A w \in Workers : Commits(w) =>
          /\ active' \ active \subseteq req[w].added
          /\ active \ active' \subseteq req[w].removed
          /\ req[w].lever = "contract" => active \ Included \subseteq active']_contract
  BY DEF ToldStep
<1> QED
  BY <1>1, <1>2, <1>3, ContractStart, PTL DEF SubscriptionsSpec, ToldInHistory
=============================================================================
