----------------------------- MODULE DeskProofs -----------------------------
(* What the desks of a condominium keep whatever the number of workers:    *)
(* packages picked up, accounts and what they may grant, the targets of    *)
(* tasks, the timelines of occurrences, the ladders of infractions.        *)
EXTENDS Packages, Occurrences, Infractions, Tasks, FiniteSetTheorems, SequenceTheorems,
        TLAPS

PickUps == [op : {"pickup"}, parcel : Parcels, to : Callers]

PackagesTypeOK ==
    /\ parcels \in [Parcels -> Parcel \cup {NoParcel}]
    /\ req \in [Workers -> PickUps \cup {IdleReq}]

(* A worker about to record a pickup found the package waiting; only other *)
(* workers have recorded one since.                                        *)
OthersTookIt ==
    \A w \in Workers : Serving(w, "pickup") =>
        /\ req[w].parcel \in Arrived
        /\ Taken(req[w].parcel) => parcels[req[w].parcel].by # w

PackagesInv == PackagesTypeOK /\ OthersTookIt

(* What TakenOnce says of one step.                                        *)
TakenStep ==
    \A p \in Arrived : Taken(p) /\ parcels'[p] # parcels[p] =>
        parcels'[p].status = "PICKED_UP" /\ parcels'[p].by # parcels[p].by
-----------------------------------------------------------------------------
(* A package is waiting or was picked up; a row that is there is a Parcel. *)
LEMMA ParcelShape ==
    /\ NoParcel \notin Parcel
    /\ \A r \in Parcel : r.status \in {"AWAITING_PICKUP", "PICKED_UP"} /\ r.lot \in Doors
    /\ \A r \in PickUps \cup {IdleReq} : r.op = "pickup" => r \in PickUps
  BY DEF NoParcel, Parcel, PickUps, IdleReq

LEMMA PackagesStart == PackagesInit /\ NoRequest => PackagesInv
  BY DEF PackagesInit, NoRequest, PackagesInv, PackagesTypeOK, OthersTookIt,
         Serving, IdleReq

LEMMA PackagesStep ==
    PackagesInv /\ [PackagesNext]_<<parcels, req>> => PackagesInv' /\ TakenStep
<1> SUFFICES ASSUME PackagesInv, [PackagesNext]_<<parcels, req>>
             PROVE  PackagesInv' /\ TakenStep
  OBVIOUS
<1> USE DEF PackagesInv, PackagesTypeOK
<1>1. ASSUME NEW w \in Workers, Receive(w)
      PROVE  PackagesInv' /\ TakenStep
  <2> PICK p \in Parcels \ Arrived, d \in Doors :
        parcels' = [parcels EXCEPT ![p] = [status |-> "AWAITING_PICKUP", lot |-> d]]
    BY <1>1 DEF Receive
  <2>1. [status |-> "AWAITING_PICKUP", lot |-> d] \in Parcel
    BY DEF Parcel
  <2>2. PackagesTypeOK' /\ req' = req
    BY <1>1, <2>1 DEF Receive
  <2>3. p \notin Arrived /\ \A q \in Arrived : q # p /\ parcels'[q] = parcels[q]
    BY DEF Arrived
  <2>4. Arrived \subseteq Arrived'
    BY <2>3 DEF Arrived
  <2> QED
    BY <2>2, <2>3, <2>4 DEF OthersTookIt, TakenStep, Serving, Taken
<1>2. ASSUME NEW w \in Workers, PickUp(w)
      PROVE  PackagesInv' /\ TakenStep
  <2> PICK p \in Arrived, u \in Callers :
        ~Taken(p) /\ Ask(w, [op |-> "pickup", parcel |-> p, to |-> u])
    BY <1>2 DEF PickUp
  <2>1. parcels' = parcels /\ p \in Parcels
    BY <1>2 DEF PickUp, Arrived
  <2>2. [op |-> "pickup", parcel |-> p, to |-> u] \in PickUps
    BY <2>1 DEF PickUps
  <2> QED
    BY <2>1, <2>2 DEF Ask, OthersTookIt, TakenStep, Serving, Taken, Arrived
<1>3. ASSUME NEW w \in Workers, PickedUp(w)
      PROVE  PackagesInv' /\ TakenStep
  <2> DEFINE p == req[w].parcel
             row == [status |-> "PICKED_UP", lot |-> parcels[p].lot,
                     to |-> req[w].to, by |-> w]
  <2>1. req[w] \in PickUps /\ p \in Arrived /\ p \in Parcels
    BY <1>3, ParcelShape DEF PickedUp, Serving, OthersTookIt, PickUps, Arrived
  <2>2. parcels[p] \in Parcel
    BY <2>1 DEF Arrived
  <2>3. row \in Parcel
    BY <2>1, <2>2, ParcelShape DEF Parcel, PickUps
  <2>4. parcels' = [parcels EXCEPT ![p] = row] /\ req' = [req EXCEPT ![w] = IdleReq]
    BY <1>3 DEF PickedUp, Answer, Ask
  <2>5. PackagesTypeOK'
    BY <2>3, <2>4
  <2>6. OthersTookIt'
    <3>1. Arrived' = Arrived
      BY <2>1, <2>3, <2>4, ParcelShape DEF Arrived
    <3>2. ~Serving(w, "pickup")'
      BY <2>4 DEF Serving, IdleReq
    <3>3. \A v \in Workers : v # w => req'[v] = req[v]
      BY <2>4
    <3> HIDE DEF row
    <3>4. \A q \in Parcels : parcels'[q] = IF q = p THEN row ELSE parcels[q]
      BY <2>4
    <3>5. row.by = w
      BY DEF row
    <3> QED
      BY <3>1, <3>2, <3>3, <3>4, <3>5 DEF OthersTookIt, Serving, Taken, Arrived
  <2>7. TakenStep
    BY <1>3, <2>1, <2>4 DEF TakenStep, OthersTookIt, PickedUp, Taken, Arrived
  <2> QED
    BY <2>5, <2>6, <2>7
<1>4. ASSUME NEW w \in Workers, PackagesCrash(w)
      PROVE  PackagesInv' /\ TakenStep
  BY <1>4 DEF PackagesCrash, Dies, Answer, Ask, OthersTookIt, TakenStep, Serving,
              Taken, Arrived, IdleReq
<1>5. ASSUME UNCHANGED <<parcels, req>>
      PROVE  PackagesInv' /\ TakenStep
  BY <1>5 DEF OthersTookIt, TakenStep, Serving, Taken, Arrived
<1> QED
  BY <1>1, <1>2, <1>3, <1>4, <1>5 DEF PackagesNext
-----------------------------------------------------------------------------
(* mark_picked_up is one-way: however many pickups overlap, what a worker  *)
(* recorded of one is overwritten by another worker or not at all.         *)
THEOREM PickupStands == PackagesSpec => TakenOnce
<1>1. TakenStep => [\A p \in Arrived : Taken(p) /\ parcels'[p] # parcels[p]
        => parcels'[p].status = "PICKED_UP" /\ parcels'[p].by # parcels[p].by]_parcels
  BY DEF TakenStep
<1> QED
  BY <1>1, PackagesStart, PackagesStep, PTL DEF PackagesSpec, TakenOnce
-----------------------------------------------------------------------------
Person == [on : BOOLEAN, super : BOOLEAN, admin : BOOLEAN]
Edits == [op : {"user"}, who : Accounts, on : BOOLEAN, was : BOOLEAN,
          add : SUBSET RoleIds, drop : SUBSET RoleIds,
          held : SUBSET Permissions, fresh : BOOLEAN]
Flags == [op : {"super"}, who : Accounts, to : BOOLEAN, held : {Permissions},
          fresh : BOOLEAN]
Regrants == [op : {"role"}, role : RoleIds, to : SUBSET Permissions,
             held : SUBSET Permissions, fresh : BOOLEAN]
Demands == Edits \cup Flags \cup Regrants

AuthorityTyped ==
    /\ person \in [Accounts -> Person]
    /\ roles \subseteq RoleIds
    /\ grants \in [RoleIds -> SUBSET Permissions]
    /\ holds \subseteq Accounts \X RoleIds
    /\ req \in [Workers -> Demands \cup {IdleReq}]

(* What a request decided, by what is stored now: its assignment or bundle *)
(* is within what its author held, and whoever it takes the last way in    *)
(* from is not the last.                                                   *)
Replaceable(p) == Operates(p) => \E u \in Accounts \ {p} : Operates(u)
Stands(r) ==
    /\ r.op = "user" => Bundle(r.add) \subseteq r.held /\ (~r.on => Replaceable(r.who))
    /\ r.op = "super" => (~r.to => Replaceable(r.who))
    /\ r.op = "role" => r.to \subseteq r.held

FreshStand == \A w \in Workers : ~Free(w) /\ req[w].fresh => Stands(req[w])

AuthorityInv == AuthorityTyped /\ FreshStand

(* What LockedOutOnlyByRace and NothingBeyondAuthor say of one step.       *)
WayInStep ==
    \A w \in Workers : Decides(w, {"user", "super"}) =>
        ((\E p \in Accounts : Operates(p)) => \E p \in Accounts : Operates(p)')
GrantStep ==
    \A w \in Workers : Decides(w, {"user", "role", "super"}) =>
        \A p \in Accounts : Authority(p)' \ Authority(p) \subseteq req[w].held

Held == AuthorityInv' /\ [WayInStep]_directory /\ [GrantStep]_directory
-----------------------------------------------------------------------------
LEMMA DemandShapes ==
    /\ IdleReq \notin Demands /\ IdleReq.op = "idle"
    /\ \A r \in Demands : /\ r.op \in {"user", "super", "role"} /\ r.held \subseteq Permissions
                          /\ r.op = "user" => r \in Edits
                          /\ r.op = "super" => r \in Flags
                          /\ r.op = "role" => r \in Regrants
  BY DEF IdleReq, Demands, Edits, Flags, Regrants

(* Nobody holds more than the catalogue.                                   *)
LEMMA WithinCatalogue ==
    ASSUME AuthorityTyped
    PROVE  /\ \A S \in SUBSET RoleIds : Bundle(S) \subseteq Permissions
           /\ \A p \in Accounts : RolesOf(p) \subseteq RoleIds /\ Authority(p) \subseteq Permissions
<1>1. \A S \in SUBSET RoleIds : Bundle(S) \subseteq Permissions
  BY DEF AuthorityTyped, Bundle
<1>2. \A p \in Accounts : RolesOf(p) \subseteq RoleIds
  BY DEF AuthorityTyped, RolesOf
<1> QED
  BY <1>1, <1>2 DEF Authority

(* A request ends, or decides, and nothing is written.                     *)
LEMMA NothingWritten ==
    ASSUME AuthorityInv, NEW w \in Workers, NEW r \in Demands \cup {IdleReq},
           req' = [req EXCEPT ![w] = r], UNCHANGED directory,
           r # IdleReq => Stands(r)
    PROVE  Held
<1>1. UNCHANGED <<person, roles, grants, holds>>
  BY DEF directory
<1>2. AuthorityTyped'
  BY <1>1 DEF AuthorityInv, AuthorityTyped
<1>3. req'[w] = r /\ \A v \in Workers : v # w => req'[v] = req[v]
  BY DEF AuthorityInv, AuthorityTyped
<1>5. FreshStand'
  <2> SUFFICES ASSUME NEW v \in Workers, ~Free(v)', req'[v].fresh
               PROVE  Stands(req[v])'
    BY DEF FreshStand
  <2>1. Stands(req'[v])
    BY <1>3 DEF AuthorityInv, FreshStand, Free
  <2> QED
    BY <1>1, <2>1 DEF Stands, Bundle, Replaceable, Operates
<1> QED
  BY <1>2, <1>5 DEF Held, AuthorityInv

(* Whoever writes answers, and overtakes all that the others read.         *)
LEMMA WriterAnswers ==
    ASSUME AuthorityTyped, NEW w \in Workers, Writes(w)
    PROVE  /\ req' \in [Workers -> Demands \cup {IdleReq}]
           /\ FreshStand'
           /\ \A v \in Workers : ~Free(v) /\ Free(v)' => v = w
<1>1. req' = [v \in Workers |-> IF v = w THEN IdleReq
                 ELSE IF Free(v) THEN req[v] ELSE [req[v] EXCEPT !.fresh = FALSE]]
  BY DEF Writes, Overtake
<1>2. \A v \in Workers : v # w /\ ~Free(v) => req'[v] \in Demands /\ ~req'[v].fresh
  <2> SUFFICES ASSUME NEW v \in Workers, v # w, ~Free(v)
               PROVE  req'[v] \in Demands /\ ~req'[v].fresh
    OBVIOUS
  <2>1. req'[v] = [req[v] EXCEPT !.fresh = FALSE]
    BY <1>1
  <2>2. req[v] \in Demands
    BY DEF AuthorityTyped, Free
  <2> QED
    BY <2>1, <2>2 DEF Demands, Edits, Flags, Regrants
<1>3. req'[w] = IdleReq /\ \A v \in Workers : v # w /\ Free(v) => req'[v] = IdleReq
  BY <1>1 DEF Free
<1>4. \A v \in Workers : req'[v] \in Demands \cup {IdleReq}
  BY <1>2, <1>3
<1> QED
  BY <1>1, <1>2, <1>3, <1>4, DemandShapes DEF FreshStand, Free

(* A free worker that writes at once decides nothing by an older read.     *)
LEMMA WrittenAtOnce ==
    ASSUME AuthorityInv, NEW w \in Workers, Free(w), Writes(w),
           person' \in [Accounts -> Person], roles' \subseteq RoleIds,
           grants' \in [RoleIds -> SUBSET Permissions], holds' \subseteq Accounts \X RoleIds
    PROVE  Held
<1>1. AuthorityTyped' /\ FreshStand'
  BY WriterAnswers DEF AuthorityInv, AuthorityTyped
<1>2. \A v \in Workers : ~Decides(v, {"user", "super"}) /\ ~Decides(v, {"user", "role", "super"})
  BY WriterAnswers, DemandShapes DEF Decides, AuthorityInv, Free
<1> QED
  BY <1>1, <1>2 DEF Held, AuthorityInv, WayInStep, GrantStep
-----------------------------------------------------------------------------
LEMMA AuthorityStart == AuthorityInit /\ NoRequest => AuthorityInv
<1> SUFFICES ASSUME AuthorityInit, NoRequest
             PROVE  AuthorityInv
  OBVIOUS
<1>1. person \in [Accounts -> Person]
  BY DEF AuthorityInit, Person
<1>2. grants \in [RoleIds -> SUBSET Permissions] /\ roles = RoleIds /\ holds = {}
  BY GrantsAssumption DEF AuthorityInit
<1>3. \A w \in Workers : Free(w)
  BY DEF NoRequest, Free
<1> QED
  BY <1>1, <1>2, <1>3 DEF AuthorityInv, AuthorityTyped, FreshStand, NoRequest

(* update_user and _assign_roles: an author who deactivates somebody stays,*)
(* and an active superuser is deactivated by another one only.             *)
LEMMA UpdateUserHolds ==
    ASSUME AuthorityInv, NEW w \in Workers, UpdateUser(w)
    PROVE  Held
<1> USE DEF AuthorityInv
<1> PICK a, p \in Accounts, on \in BOOLEAN, asked \in SUBSET RoleIds :
          /\ May(a, "users:update")
          /\ person[a].super \/ (~person[p].super /\ p \notin Elsewhere)
          /\ p = a => on
          /\ asked = RolesOf(p) \/ MayAssign(a, p, asked)
          /\ Ask(w, [op |-> "user", who |-> p, on |-> on, was |-> person[p].on,
                     add |-> asked \ RolesOf(p), drop |-> RolesOf(p) \ asked,
                     held |-> Authority(a), fresh |-> TRUE])
  BY ZenonT(30) DEF UpdateUser
<1> DEFINE r == [op |-> "user", who |-> p, on |-> on, was |-> person[p].on,
                 add |-> asked \ RolesOf(p), drop |-> RolesOf(p) \ asked,
                 held |-> Authority(a), fresh |-> TRUE]
<1>1. r \in Edits
  BY WithinCatalogue DEF Edits, AuthorityTyped, Person
<1>2. Bundle(asked \ RolesOf(p)) \subseteq Authority(a)
  BY DEF MayAssign, Bundle
<1>3. ~on => Replaceable(p)
  BY DEF Replaceable, Operates, May
<1>4. Stands(r)
  BY <1>2, <1>3 DEF Stands
<1>5. req' = [req EXCEPT ![w] = r] /\ UNCHANGED directory
  BY DEF UpdateUser, Ask
<1> HIDE DEF r
<1> QED
  BY <1>1, <1>4, <1>5, NothingWritten DEF Demands

LEMMA UserUpdatedHolds ==
    ASSUME AuthorityInv, NEW w \in Workers, UserUpdated(w)
    PROVE  Held
<1> USE DEF AuthorityInv
<1> DEFINE r == req[w]
<1>1. r \in Edits
  BY DemandShapes DEF UserUpdated, Serving, AuthorityTyped
<1>2. CASE Answer(w) /\ UNCHANGED directory
  BY <1>2, NothingWritten DEF Answer, Ask
<1>3. CASE ~(Answer(w) /\ UNCHANGED directory)
  <2>1. /\ person' = [person EXCEPT ![r.who].on = Column(r.on, r.was, @)]
        /\ holds' = (holds \ ({r.who} \X r.drop)) \cup ({r.who} \X r.add)
        /\ Writes(w) /\ UNCHANGED <<roles, grants>> /\ ~Free(w)
    BY <1>3, DemandShapes DEF UserUpdated, Serving, Free
  <2>2. r.who \in Accounts /\ r.on \in BOOLEAN /\ r.add \subseteq RoleIds
    BY <1>1 DEF Edits
  <2>3. /\ person' \in [Accounts -> Person]
        /\ \A p \in Accounts : /\ p # r.who => person'[p] = person[p]
                               /\ person'[p].super = person[p].super
                               /\ person'[p].admin = person[p].admin
                               /\ r.on /\ person[p].on => person'[p].on
    BY <2>1, <2>2 DEF Person, AuthorityTyped, Column
  <2>4. AuthorityTyped' /\ FreshStand'
    BY <2>1, <2>2, <2>3, WriterAnswers DEF AuthorityTyped
  <2>5. WayInStep
    <3> SUFFICES ASSUME NEW v \in Workers, Decides(v, {"user", "super"}),
                        NEW p \in Accounts, Operates(p)
                 PROVE  \E u \in Accounts : Operates(u)'
      BY DEF WayInStep
    <3>1. v = w /\ Stands(r) /\ r.op = "user"
      BY <1>1, <2>1, WriterAnswers, DemandShapes DEF Decides, Free, FreshStand, Edits
    <3>2. CASE Operates(r.who) /\ ~r.on
      <4> PICK u \in Accounts \ {r.who} : Operates(u)
        BY <2>2, <3>1, <3>2 DEF Stands, Replaceable
      <4> QED
        BY <2>3 DEF Operates
    <3>3. CASE ~(Operates(r.who) /\ ~r.on)
      BY <2>2, <2>3, <3>3 DEF Operates
    <3> QED
      BY <3>2, <3>3
  <2>6. GrantStep
    <3> SUFFICES ASSUME NEW v \in Workers, Decides(v, {"user", "role", "super"}),
                        NEW p \in Accounts
                 PROVE  Authority(p)' \ Authority(p) \subseteq req[v].held
      BY DEF GrantStep
    <3>1. v = w /\ Bundle(r.add) \subseteq r.held
      BY <1>1, <2>1, WriterAnswers, DemandShapes DEF Decides, Free, FreshStand, Edits, Stands
    <3>2. RolesOf(p)' \subseteq RolesOf(p) \cup r.add
      BY <2>1 DEF RolesOf
    <3>3. Bundle(RolesOf(p))' \subseteq Bundle(RolesOf(p)) \cup Bundle(r.add)
      BY <2>1, <3>2 DEF Bundle
    <3> QED
      BY <2>3, <3>1, <3>3 DEF Authority
  <2> QED
    BY <2>4, <2>5, <2>6 DEF Held
<1> QED
  BY <1>2, <1>3

(* set_superuser: "The last superuser cannot be demoted".                  *)
LEMMA SetSuperuserHolds ==
    ASSUME AuthorityInv, NEW w \in Workers, SetSuperuser(w)
    PROVE  Held
<1> USE DEF AuthorityInv
<1> PICK p \in Accounts :
          /\ person[p].super => Demotable(p)
          /\ Ask(w, [op |-> "super", who |-> p, to |-> ~person[p].super,
                     held |-> Permissions, fresh |-> TRUE])
  BY DEF SetSuperuser
<1> DEFINE r == [op |-> "super", who |-> p, to |-> ~person[p].super,
                 held |-> Permissions, fresh |-> TRUE]
<1>1. r \in Flags
  BY DEF Flags, AuthorityTyped, Person
<1>2. Stands(r)
  BY DEF Stands, Replaceable, Demotable, Operates
<1>3. req' = [req EXCEPT ![w] = r] /\ UNCHANGED directory
  BY DEF SetSuperuser, Ask
<1> HIDE DEF r
<1> QED
  BY <1>1, <1>2, <1>3, NothingWritten DEF Demands

LEMMA SuperuserSetHolds ==
    ASSUME AuthorityInv, NEW w \in Workers, SuperuserSet(w)
    PROVE  Held
<1> USE DEF AuthorityInv
<1> DEFINE r == req[w]
<1>1. r \in Flags /\ r.op = "super"
  BY DemandShapes DEF SuperuserSet, Serving, AuthorityTyped
<1>2. /\ person' = [person EXCEPT ![r.who].super = r.to]
      /\ Writes(w) /\ UNCHANGED <<roles, grants, holds>> /\ ~Free(w)
  BY <1>1, DemandShapes DEF SuperuserSet, Free
<1>3. r.who \in Accounts /\ r.to \in BOOLEAN /\ r.held = Permissions
  BY <1>1 DEF Flags
<1>4. /\ person' \in [Accounts -> Person]
      /\ \A p \in Accounts : /\ p # r.who => person'[p] = person[p]
                             /\ person'[p].on = person[p].on
                             /\ r.to /\ person[p].super => person'[p].super
  BY <1>2, <1>3 DEF Person, AuthorityTyped
<1>5. AuthorityTyped' /\ FreshStand'
  BY <1>2, <1>4, WriterAnswers DEF AuthorityTyped
<1>6. \A v \in Workers, S \in {{"user", "super"}, {"user", "role", "super"}} :
          Decides(v, S) => v = w /\ Stands(r)
  BY <1>2, WriterAnswers, DemandShapes DEF Decides, Free, FreshStand
<1>7. WayInStep
  <2> SUFFICES ASSUME NEW v \in Workers, Decides(v, {"user", "super"}),
                      NEW p \in Accounts, Operates(p)
               PROVE  \E u \in Accounts : Operates(u)'
    BY DEF WayInStep
  <2>1. CASE Operates(r.who) /\ ~r.to
    <3> PICK u \in Accounts \ {r.who} : Operates(u)
      BY <1>1, <1>3, <1>6, <2>1 DEF Stands, Replaceable
    <3> QED
      BY <1>4 DEF Operates
  <2>2. CASE ~(Operates(r.who) /\ ~r.to)
    BY <1>3, <1>4, <2>2 DEF Operates
  <2> QED
    BY <2>1, <2>2
<1>8. GrantStep
  <2>1. ASSUME NEW p \in Accounts
        PROVE  Authority(p)' \subseteq Permissions
    <3>1. RolesOf(p)' \subseteq RoleIds /\ grants' \in [RoleIds -> SUBSET Permissions]
      BY <1>5 DEF AuthorityTyped, RolesOf
    <3>2. Bundle(RolesOf(p))' \subseteq Permissions
      BY <3>1 DEF Bundle
    <3> QED
      BY <3>2 DEF Authority
  <2> QED
    BY <1>3, <1>6, <2>1 DEF GrantStep
<1> QED
  BY <1>5, <1>7, <1>8 DEF Held

(* assert_can_grant on the edit of a role, which all its holders gain by.  *)
LEMMA UpdateRoleHolds ==
    ASSUME AuthorityInv, NEW w \in Workers, UpdateRole(w)
    PROVE  Held
<1> USE DEF AuthorityInv
<1> PICK a \in Accounts, role \in roles, S \in Grants :
          /\ MayGrant(a, role, S)
          /\ Ask(w, [op |-> "role", role |-> role, to |-> S,
                     held |-> Authority(a), fresh |-> TRUE])
  BY DEF UpdateRole
<1> DEFINE r == [op |-> "role", role |-> role, to |-> S, held |-> Authority(a),
                 fresh |-> TRUE]
<1>1. r \in Regrants
  BY WithinCatalogue, GrantsAssumption DEF Regrants, AuthorityTyped
<1>2. Stands(r)
  BY DEF Stands, MayGrant
<1>3. req' = [req EXCEPT ![w] = r] /\ UNCHANGED directory
  BY DEF UpdateRole, Ask
<1> HIDE DEF r
<1> QED
  BY <1>1, <1>2, <1>3, NothingWritten DEF Demands

LEMMA RoleUpdatedHolds ==
    ASSUME AuthorityInv, NEW w \in Workers, RoleUpdated(w)
    PROVE  Held
<1> USE DEF AuthorityInv
<1> DEFINE r == req[w]
<1>1. r \in Regrants /\ r.op = "role"
  BY DemandShapes DEF RoleUpdated, Serving, AuthorityTyped
<1>2. CASE Answer(w) /\ UNCHANGED directory
  BY <1>2, NothingWritten DEF Answer, Ask
<1>3. CASE ~(Answer(w) /\ UNCHANGED directory)
  <2>1. /\ grants' = [grants EXCEPT ![r.role] = r.to]
        /\ Writes(w) /\ UNCHANGED <<person, roles, holds>> /\ ~Free(w)
    BY <1>1, <1>3, DemandShapes DEF RoleUpdated, Free
  <2>2. r.role \in RoleIds /\ r.to \subseteq Permissions
    BY <1>1 DEF Regrants
  <2>3. /\ grants' \in [RoleIds -> SUBSET Permissions]
        /\ \A role \in RoleIds : grants'[role] \subseteq grants[role] \cup r.to
    BY <2>1, <2>2 DEF AuthorityTyped
  <2>4. AuthorityTyped' /\ FreshStand'
    BY <2>1, <2>3, WriterAnswers DEF AuthorityTyped
  <2>5. WayInStep
    BY <2>1 DEF WayInStep, Operates
  <2>6. GrantStep
    <3> SUFFICES ASSUME NEW v \in Workers, Decides(v, {"user", "role", "super"}),
                        NEW p \in Accounts
                 PROVE  Authority(p)' \ Authority(p) \subseteq req[v].held
      BY DEF GrantStep
    <3>1. v = w /\ r.to \subseteq r.held
      BY <1>1, <2>1, WriterAnswers, DemandShapes DEF Decides, Free, FreshStand, Stands
    <3>2. RolesOf(p)' = RolesOf(p) /\ RolesOf(p) \subseteq RoleIds
      BY <2>1, WithinCatalogue DEF RolesOf
    <3>3. Bundle(RolesOf(p))' \subseteq Bundle(RolesOf(p)) \cup r.to
      BY <2>3, <3>2 DEF Bundle
    <3> QED
      BY <2>1, <3>1, <3>3 DEF Authority
  <2> QED
    BY <2>4, <2>5, <2>6 DEF Held
<1> QED
  BY <1>2, <1>3

LEMMA AuthorityStep ==
    AuthorityInv /\ [AuthorityNext]_<<directory, req>> => Held
<1> SUFFICES ASSUME AuthorityInv, [AuthorityNext]_<<directory, req>>
             PROVE  Held
  OBVIOUS
<1> USE DEF AuthorityInv
<1>1. ASSUME NEW w \in Workers, SetMemberAdmin(w)
      PROVE  Held
  <2> PICK p \in Accounts : person' = [person EXCEPT ![p].admin = ~@]
    BY <1>1 DEF SetMemberAdmin
  <2>1. person' \in [Accounts -> Person]
    BY DEF AuthorityTyped, Person
  <2> QED
    BY <1>1, <2>1, WrittenAtOnce DEF SetMemberAdmin, AuthorityTyped
<1>2. ASSUME NEW w \in Workers, CreateRole(w)
      PROVE  Held
  <2> PICK r \in RoleIds, S \in Grants :
        roles' = roles \cup {r} /\ grants' = [grants EXCEPT ![r] = S]
    BY <1>2 DEF CreateRole
  <2>1. roles' \subseteq RoleIds /\ grants' \in [RoleIds -> SUBSET Permissions]
    BY GrantsAssumption DEF AuthorityTyped
  <2> QED
    BY <1>2, <2>1, WrittenAtOnce DEF CreateRole, AuthorityTyped
<1>3. ASSUME NEW w \in Workers, DeleteRole(w, {})
      PROVE  Held
  <2> PICK r \in roles : /\ roles' = roles \ {r} /\ grants' = [grants EXCEPT ![r] = {}]
                         /\ holds' = holds \ (Accounts \X {r})
    BY <1>3 DEF DeleteRole
  <2>1. /\ roles' \subseteq RoleIds /\ grants' \in [RoleIds -> SUBSET Permissions]
        /\ holds' \subseteq Accounts \X RoleIds
    BY DEF AuthorityTyped
  <2> QED
    BY <1>3, <2>1, WrittenAtOnce DEF DeleteRole, AuthorityTyped
<1>4. ASSUME NEW w \in Workers, AuthorityCrash(w)
      PROVE  Held
  BY <1>4, NothingWritten DEF AuthorityCrash, Dies, Answer, Ask
<1>5. ASSUME UNCHANGED <<directory, req>>
      PROVE  Held
  <2>1. UNCHANGED <<person, roles, grants, holds, req, directory>>
    BY <1>5 DEF directory
  <2> QED
    BY <2>1 DEF Held, AuthorityTyped, FreshStand, Free, Stands, Bundle, Replaceable, Operates
<1> QED
  BY <1>1, <1>2, <1>3, <1>4, <1>5, UpdateUserHolds, UserUpdatedHolds, SetSuperuserHolds,
     SuperuserSetHolds, UpdateRoleHolds, RoleUpdatedHolds DEF AuthorityNext
-----------------------------------------------------------------------------
(* "Never leave the install with no way in", for any accounts and workers: *)
(* set_superuser and update_user keep one superuser who can log in, unless *)
(* another commit overtook the request.                                    *)
THEOREM WayInKept == AuthoritySpec => LockedOutOnlyByRace
<1>1. [WayInStep]_directory =>
        [\A w \in Workers : Decides(w, {"user", "super"}) =>
          ((\E p \in Accounts : Operates(p)) => \E p \in Accounts : Operates(p)')]_directory
  BY DEF WayInStep
<1>2. AuthorityInv /\ [AuthorityNext]_<<directory, req>> => AuthorityInv' /\ [WayInStep]_directory
  BY AuthorityStep DEF Held
<1> QED
  BY <1>1, <1>2, AuthorityStart, PTL DEF AuthoritySpec, LockedOutOnlyByRace

(* No assignment and no edit of a role gives anybody a permission that its *)
(* author does not hold, unless another commit overtook the request, for   *)
(* any accounts, roles, permissions and workers.                           *)
THEOREM NoEscalation == AuthoritySpec => NothingBeyondAuthor
<1>1. [GrantStep]_directory =>
        [\A w \in Workers : Decides(w, {"user", "role", "super"}) =>
          \A p \in Accounts : Authority(p)' \ Authority(p) \subseteq req[w].held]_directory
  BY DEF GrantStep
<1>2. AuthorityInv /\ [AuthorityNext]_<<directory, req>> => AuthorityInv' /\ [GrantStep]_directory
  BY AuthorityStep DEF Held
<1> QED
  BY <1>1, <1>2, AuthorityStart, PTL DEF AuthoritySpec, NothingBeyondAuthor
-----------------------------------------------------------------------------
(* The tasks shown to some roles.                                          *)

TaskRow(row) == row = [targets |-> row.targets, assignee |-> row.assignee, stage |-> row.stage]
TaskEdit(r) ==
    r = [op |-> "task", task |-> r.task, open |-> r.open, add |-> r.add, drop |-> r.drop,
         was |-> r.was, to |-> r.to, fresh |-> r.fresh]

TasksTyped ==
    /\ tasks = [t \in TaskIds |-> tasks[t]]
    /\ \A t \in TaskIds : TaskRow(tasks[t])
    /\ req = [w \in Workers |-> req[w]]
    /\ \A w \in Workers : req[w] = IdleReq \/ TaskEdit(req[w])

(* A task that was never created names no role; an edit is of one that     *)
(* was, and where nobody overtook it and it names an existing role, it     *)
(* leaves its task with one.                                               *)
NoneNamed == \A t \in TaskIds : tasks[t].stage = "none" => tasks[t].targets = {}
EditStands(r) ==
    r.op = "task" =>
        /\ r.task \in TaskIds /\ tasks[r.task].stage # "none"
        /\ r.fresh /\ ~r.open => (tasks[r.task].targets \ r.drop) \cup r.add # {}
EditsStand == \A w \in Workers : EditStands(req[w])

TasksInv == TasksTyped /\ NoneNamed /\ EditsStand

OpenedStep ==
    \A t \in TaskIds : tasks[t].targets # {} /\ tasks'[t].targets = {} =>
        \E w \in Workers : /\ Serving(w, "task") /\ Free(w)' /\ req[w].task = t
                           /\ req[w].open \/ ~req[w].fresh

LEMMA TaskShapes ==
    /\ IdleReq.op # "task" /\ TaskRow(NoTask)
    /\ NoTask.stage = "none" /\ NoTask.targets = {}
  BY DEF IdleReq, NoTask, TaskRow

LEMMA TasksStart == TasksInit /\ NoRequest => TasksInv
  BY TaskShapes DEF TasksInit, NoTasks, NoRequest, TasksInv, TasksTyped, NoneNamed,
                    EditsStand, EditStands

(* A step that writes no task, and ends a request or begins one.           *)
LEMMA TasksUnwritten ==
    ASSUME TasksInv, NEW w \in Workers, NEW r, Ask(w, r), UNCHANGED tasks,
           r = IdleReq \/ (TaskEdit(r) /\ EditStands(r))
    PROVE  TasksInv' /\ OpenedStep
<1>1. \A v \in Workers : req'[v] = IF v = w THEN r ELSE req[v]
  BY DEF TasksInv, TasksTyped, Ask
<1>2. TasksTyped' /\ NoneNamed'
  BY <1>1 DEF TasksInv, TasksTyped, NoneNamed, Ask
<1>3. \A q : EditStands(q) => EditStands(q)'
  BY DEF EditStands
<1>4. EditStands(IdleReq)
  BY TaskShapes DEF EditStands
<1>5. EditsStand'
  BY <1>1, <1>3, <1>4 DEF TasksInv, EditsStand, EditStands
<1> QED
  BY <1>2, <1>5 DEF TasksInv, OpenedStep

(* A commit leaves no other edit fresh.                                    *)
LEMMA TasksOvertaken ==
    ASSUME TasksTyped, EditsStand, NEW w \in Workers, Writes(w),
           \A t \in TaskIds : tasks[t].stage # "none" => tasks'[t].stage # "none"
    PROVE  /\ req' = [v \in Workers |-> req'[v]] /\ Free(w)'
           /\ \A v \in Workers : req'[v] = IdleReq \/ TaskEdit(req'[v])
           /\ EditsStand'
<1>1. req' = [v \in Workers |-> IF v = w THEN IdleReq
                 ELSE IF Free(v) THEN req[v] ELSE [req[v] EXCEPT !.fresh = FALSE]]
  BY DEF Writes, Overtake
<1>2. req'[w] = IdleReq /\ \A v \in Workers : v # w /\ Free(v) => req'[v] = IdleReq
  BY <1>1 DEF Free
<1>3. \A v \in Workers : v # w /\ ~Free(v) =>
         TaskEdit(req'[v]) /\ ~req'[v].fresh /\ req'[v].task = req[v].task /\ req[v].op = "task"
  <2> SUFFICES ASSUME NEW v \in Workers, v # w, ~Free(v)
               PROVE  TaskEdit(req'[v]) /\ ~req'[v].fresh /\ req'[v].task = req[v].task
                      /\ req[v].op = "task"
    OBVIOUS
  <2>1. PICK r : r = req[v] /\ TaskEdit(r)
    BY DEF TasksTyped, Free
  <2>2. req'[v] = [r EXCEPT !.fresh = FALSE]
    BY <1>1, <2>1
  <2>3. PICK q : q = [op |-> "task", task |-> r.task, open |-> r.open, add |-> r.add,
                      drop |-> r.drop, was |-> r.was, to |-> r.to, fresh |-> FALSE]
    OBVIOUS
  <2>4. req'[v] = q
    <3>1. PICK i, o, a, d, x, y, f :
            /\ r = [op |-> "task", task |-> i, open |-> o, add |-> a, drop |-> d,
                    was |-> x, to |-> y, fresh |-> f]
            /\ q = [op |-> "task", task |-> i, open |-> o, add |-> a, drop |-> d,
                    was |-> x, to |-> y, fresh |-> FALSE]
      BY <2>1, <2>3 DEF TaskEdit
    <3> QED
      BY <2>2, <3>1
  <2>5. r.op = "task"
    BY <2>1 DEF TaskEdit
  <2> QED
    BY <2>1, <2>3, <2>4, <2>5 DEF TaskEdit
<1>4. \A v \in Workers : req'[v] = IdleReq \/ (TaskEdit(req'[v]) /\ ~req'[v].fresh)
  BY <1>2, <1>3
<1>5. EditsStand'
  BY <1>2, <1>3, TaskShapes DEF EditsStand, EditStands
<1> QED
  BY <1>1, <1>2, <1>4, <1>5 DEF Free

LEMMA TasksStep ==
    TasksInv /\ [TasksNext]_<<directory, tasks, req>> => TasksInv' /\ OpenedStep
<1> SUFFICES ASSUME TasksInv, [TasksNext]_<<directory, tasks, req>>
             PROVE  TasksInv' /\ OpenedStep
  OBVIOUS
<1> USE DEF TasksInv
<1>1. ASSUME NEW w \in Workers, CreateTask(w)
      PROVE  TasksInv' /\ OpenedStep
  <2>1. PICK t, S, a :
           /\ t \in TaskIds /\ tasks[t].stage = "none"
           /\ tasks' = [tasks EXCEPT ![t] = [targets |-> S, assignee |-> a, stage |-> "live"]]
    BY <1>1 DEF CreateTask
  <2>2. /\ tasks'[t] = [targets |-> S, assignee |-> a, stage |-> "live"]
        /\ \A u \in TaskIds : u # t => tasks'[u] = tasks[u]
    BY <2>1 DEF TasksTyped
  <2>3. TaskRow(tasks'[t]) /\ tasks'[t].stage = "live"
    BY <2>2 DEF TaskRow
  <2>4. TasksTyped' /\ EditsStand'
    BY <1>1, <2>1, <2>2, <2>3, TasksOvertaken DEF TasksTyped, CreateTask
  <2>5. NoneNamed' /\ OpenedStep
    BY <2>1, <2>2, <2>3 DEF NoneNamed, OpenedStep
  <2> QED
    BY <2>4, <2>5
<1>2. ASSUME NEW w \in Workers, UpdateTask(w)
      PROVE  TasksInv' /\ OpenedStep
  <2>1. PICK t, assignee, found :
           /\ t \in TaskIds /\ tasks[t].stage = "live"
           /\ Ask(w, [op |-> "task", task |-> t, open |-> found = {},
                      add |-> found \ tasks[t].targets, drop |-> tasks[t].targets \ found,
                      was |-> tasks[t].assignee, to |-> assignee, fresh |-> TRUE])
    BY <1>2 DEF UpdateTask, Live
  <2>2. PICK r : r = [op |-> "task", task |-> t, open |-> found = {},
                      add |-> found \ tasks[t].targets, drop |-> tasks[t].targets \ found,
                      was |-> tasks[t].assignee, to |-> assignee, fresh |-> TRUE]
    OBVIOUS
  <2>3. TaskEdit(r)
    BY <2>2 DEF TaskEdit
  <2>4. /\ r.task = t /\ r.add = found \ tasks[t].targets
        /\ r.drop = tasks[t].targets \ found
    BY <2>2
  <2>5. ~r.open => found # {}
    BY <2>2, Zenon
  <2>6. (tasks[t].targets \ r.drop) \cup r.add = found
    BY <2>4
  <2>7. EditStands(r)
    BY <2>1, <2>4, <2>5, <2>6 DEF EditStands
  <2> QED
    BY <1>2, <2>1, <2>2, <2>3, <2>7, TasksUnwritten DEF UpdateTask
<1>3. ASSUME NEW w \in Workers, TaskUpdated(w)
      PROVE  TasksInv' /\ OpenedStep
  <2>1. PICK r : r = req[w]
    OBVIOUS
  <2>2. CASE ~TargetsFit(r.task, r.add, r.drop)
    BY <1>3, <2>1, <2>2, TasksUnwritten DEF TaskUpdated, Answer
  <2>3. CASE TargetsFit(r.task, r.add, r.drop)
    <3>1. /\ Writes(w) /\ r.op = "task"
          /\ tasks' = [tasks EXCEPT
                ![r.task].targets = (@ \ r.drop) \cup r.add,
                ![r.task].assignee = Column(r.to, r.was, @)]
      BY <1>3, <2>1, <2>3 DEF TaskUpdated, Serving
    <3>2. PICK row : row = [targets |-> (tasks[r.task].targets \ r.drop) \cup r.add,
                            assignee |-> Column(r.to, r.was, tasks[r.task].assignee),
                            stage |-> tasks[r.task].stage]
      OBVIOUS
    <3>3. \A t \in TaskIds : tasks'[t] = IF t = r.task THEN row ELSE tasks[t]
      <4>1. r.task \in TaskIds
        BY <2>1, <3>1 DEF EditsStand, EditStands
      <4>2. PICK T, a, s : tasks[r.task] = [targets |-> T, assignee |-> a, stage |-> s]
        <5>1. TaskRow(tasks[r.task])
          BY <4>1 DEF TasksTyped
        <5> QED
          BY <5>1, Zenon DEF TaskRow
      <4>3. PICK N, b : N = (T \ r.drop) \cup r.add /\ b = Column(r.to, r.was, a)
        OBVIOUS
      <4>4. PICK f : f = [tasks EXCEPT ![r.task].targets = (@ \ r.drop) \cup r.add]
        OBVIOUS
      <4>5. /\ f = [t \in TaskIds |-> f[t]] /\ \A t \in TaskIds : t # r.task => f[t] = tasks[t]
            /\ f[r.task] = [targets |-> N, assignee |-> a, stage |-> s]
        <5>1. [tasks[r.task] EXCEPT !.targets = (@ \ r.drop) \cup r.add]
                 = [targets |-> N, assignee |-> a, stage |-> s]
          BY <4>2, <4>3
        <5> QED
          BY <4>1, <4>4, <5>1 DEF TasksTyped
      <4>6. tasks' = [f EXCEPT ![r.task].assignee = b]
        BY <3>1, <4>4, <4>5, <4>3
      <4>7. row = [targets |-> N, assignee |-> b, stage |-> s]
        BY <3>2, <4>2, <4>3
      <4> QED
        BY <4>1, <4>5, <4>6, <4>7
    <3>4. TaskRow(row) /\ row.targets = (tasks[r.task].targets \ r.drop) \cup r.add
                       /\ row.stage = tasks[r.task].stage
      BY <3>2 DEF TaskRow
    <3>5. TasksTyped' /\ EditsStand' /\ Free(w)'
      BY <3>1, <3>3, <3>4, TasksOvertaken DEF TasksTyped
    <3>6. NoneNamed'
      <4>1. tasks[r.task].stage # "none"
        BY <2>1, <3>1 DEF EditsStand, EditStands
      <4> QED
        BY <3>3, <3>4, <4>1 DEF NoneNamed
    <3>7. OpenedStep
      <4> SUFFICES ASSUME NEW t \in TaskIds, tasks[t].targets # {}, tasks'[t].targets = {}
                   PROVE  req[w].op = "task" /\ req[w].task = t
                          /\ (req[w].open \/ ~req[w].fresh)
        BY <3>5 DEF OpenedStep, Serving
      <4>1. t = r.task /\ row.targets = {}
        BY <3>3
      <4>2. EditStands(r)
        BY <2>1 DEF EditsStand
      <4> QED
        BY <2>1, <3>1, <3>4, <4>1, <4>2 DEF EditStands
    <3> QED
      BY <3>5, <3>6, <3>7
  <2> QED
    BY <2>2, <2>3
<1>4. ASSUME NEW w \in Workers, DeleteTask(w)
      PROVE  TasksInv' /\ OpenedStep
  <2>1. PICK t \in TaskIds : /\ Live(t)
                             /\ tasks' = [tasks EXCEPT ![t].stage = "deleted"]
    BY <1>4 DEF DeleteTask
  <2>2. PICK row : row = [targets |-> tasks[t].targets, assignee |-> tasks[t].assignee,
                          stage |-> "deleted"]
    OBVIOUS
  <2>3. \A u \in TaskIds : tasks'[u] = IF u = t THEN row ELSE tasks[u]
    BY <2>1, <2>2 DEF TasksTyped, TaskRow
  <2>4. TaskRow(row) /\ row.targets = tasks[t].targets /\ row.stage = "deleted"
    BY <2>2 DEF TaskRow
  <2>5. TasksTyped' /\ EditsStand'
    BY <1>4, <2>1, <2>3, <2>4, TasksOvertaken DEF TasksTyped, DeleteTask
  <2>6. NoneNamed' /\ OpenedStep
    BY <2>3, <2>4 DEF NoneNamed, OpenedStep
  <2> QED
    BY <2>5, <2>6
<1>5. ASSUME NEW w \in Workers, Writes(w), UNCHANGED tasks
      PROVE  TasksInv' /\ OpenedStep
  <2>1. TasksTyped' /\ NoneNamed' /\ EditsStand'
    BY <1>5, TasksOvertaken DEF TasksTyped, NoneNamed
  <2> QED
    BY <1>5, <2>1 DEF OpenedStep
<1>6. ASSUME NEW w \in Workers, TasksCrash(w)
      PROVE  TasksInv' /\ OpenedStep
  BY <1>6, TasksUnwritten DEF TasksCrash, Dies, Answer
<1>7. ASSUME UNCHANGED <<directory, tasks, req>>
      PROVE  TasksInv' /\ OpenedStep
  BY <1>7 DEF TasksTyped, NoneNamed, EditsStand, EditStands, OpenedStep
<1> QED
  BY <1>1, <1>2, <1>3, <1>4, <1>5, <1>6, <1>7
     DEF TasksNext, CreateRole, DropRole, DeleteRole

(* A task shown to some roles is shown to everyone only by an edit of it   *)
(* that names no existing role or that another commit overtook: no delete  *)
(* of a role, and no overlap without such an edit, opens it.               *)
THEOREM OpenedByEdit == TasksSpec => OpenedOnlyByEdit
<1>1. OpenedStep =>
        [\A t \in TaskIds :
          tasks[t].targets # {} /\ tasks'[t].targets = {} =>
             \E w \in Workers :
                /\ Serving(w, "task") /\ Free(w)' /\ req[w].task = t
                /\ req[w].open \/ ~req[w].fresh]_tasks
  BY DEF OpenedStep
<1> QED
  BY <1>1, TasksStart, TasksStep, PTL DEF TasksSpec, OpenedOnlyByEdit
-----------------------------------------------------------------------------
(* The timelines of occurrences.                                           *)

Telling == Statuses \cup {NoStatus}
Noted == [from : Telling, to : Telling, seen : Nat]
TimelineEntry == [from : Telling, to : Telling, seen : Nat, id : Nat]
Ticket == [status : Statuses, resolved : BOOLEAN, assigned : SUBSET Assignees,
           reporter : Reporters, public : BOOLEAN, timeline : Seq(TimelineEntry)]
Filing(r) ==
    /\ r = [op |-> "report", number |-> r.number, reporter |-> r.reporter, public |-> r.public]
    /\ r.reporter \in Reporters /\ r.public \in BOOLEAN
Moving(r) ==
    /\ r = [op |-> "update", number |-> r.number, assign |-> r.assign, entry |-> r.entry]
    /\ r.assign \in SUBSET Assignees /\ r.entry \in Noted
Submission(r) == r = IdleReq \/ Filing(r) \/ Moving(r)

TicketsTyped ==
    /\ tickets \in [Filed -> Ticket]
    /\ req = [w \in Workers |-> req[w]]
    /\ \A w \in Workers : Submission(req[w])

(* Of the first m entries committed, the last transition.                  *)
Latest(line, k, m) ==
    /\ k \in Told(line) /\ line[k].id <= m
    /\ \A j \in Told(line) : line[j].id <= m => line[j].id <= line[k].id

(* Of two entries, one is listed before the other unless it was read after *)
(* the other's commit.                                                     *)
Listing(line) ==
    /\ \A i \in DOMAIN line : line[i].id \in 1 .. Len(line) /\ line[i].seen < line[i].id
    /\ \A i, j \in DOMAIN line : i < j =>
          line[i].id # line[j].id /\ line[i].seen < line[j].id

(* A transition starts where the last that its request found ended.        *)
Continues(e, line) ==
    e.to # NoStatus =>
        e.from # e.to /\ \E k \in DOMAIN line : Latest(line, k, e.seen) /\ line[k].to = e.from
Traced(line) ==
    \A i \in DOMAIN line : IF line[i].seen = 0 THEN line[i].id = 1 /\ line[i].from # line[i].to
                           ELSE Continues(line[i], line)
Tells(line, status) ==
    \E k \in DOMAIN line : Latest(line, k, Len(line)) /\ line[k].to = status
TimelinesTell ==
    \A n \in Filed :
        /\ Listing(tickets[n].timeline) /\ Traced(tickets[n].timeline)
        /\ Tells(tickets[n].timeline, tickets[n].status)
EntryContinues ==
    \A w \in Workers : Serving(w, "update") =>
        /\ req[w].number \in Filed
        /\ req[w].entry.seen \in 1 .. Len(tickets[req[w].number].timeline)
        /\ Continues(req[w].entry, tickets[req[w].number].timeline)

OccurrencesInv == TicketsTyped /\ TimelinesTell /\ EntryContinues

LEMMA TicketShapes ==
    /\ IdleReq.op \notin {"report", "update"}
    /\ Submission(IdleReq)
    /\ \A r : Submission(r) => /\ (r.op = "report" => Filing(r))
                               /\ (r.op = "update" => Moving(r))
<1>1. \A r : (Filing(r) => r.op = "report") /\ (Moving(r) => r.op = "update")
  BY DEF Filing, Moving
<1> QED
  BY <1>1 DEF IdleReq, Submission

LEMMA OccurrencesStart == OccurrencesInit /\ NoRequest => OccurrencesInv
<1> SUFFICES ASSUME OccurrencesInit, NoRequest
             PROVE  OccurrencesInv
  OBVIOUS
<1>1. Filed = {} /\ tickets \in [Filed -> Ticket]
  BY DEF OccurrencesInit, Filed
<1> QED
  BY <1>1, TicketShapes DEF NoRequest, OccurrencesInv, TicketsTyped, TimelinesTell,
                            EntryContinues, Serving

LEMMA EntriesShape ==
    ASSUME NEW line \in Seq(TimelineEntry)
    PROVE  /\ Len(line) \in Nat /\ DOMAIN line = 1 .. Len(line)
           /\ \A i \in DOMAIN line : line[i].seen \in Nat /\ line[i].id \in Nat
<1>1. Len(line) \in Nat /\ DOMAIN line = 1 .. Len(line) /\ \A i \in DOMAIN line : line[i] \in TimelineEntry
  OBVIOUS
<1>2. \A x \in TimelineEntry : x.seen \in Nat /\ x.id \in Nat
  BY DEF TimelineEntry
<1> QED
  BY <1>1, <1>2

(* An entry in its place: the others keep theirs, moved one up behind it.  *)
Moved(i, k) == IF i < k THEN i ELSE i + 1

LEMMA InsertedShape ==
    ASSUME NEW line \in Seq(TimelineEntry), NEW e \in Noted,
           NEW k \in 1 .. Len(line) + 1, NEW new, new = Inserted(line, k, e)
    PROVE  /\ new \in Seq(TimelineEntry) /\ Len(new) = Len(line) + 1
           /\ new[k] = Numbered(e, Len(line) + 1)
           /\ \A i \in 1 .. Len(line) : Moved(i, k) \in DOMAIN new /\ new[Moved(i, k)] = line[i]
           /\ \A j \in DOMAIN new : j = k \/ \E i \in 1 .. Len(line) : j = Moved(i, k)
<1>1. /\ Len(line) \in Nat /\ DOMAIN line = 1 .. Len(line)
      /\ \A i \in 1 .. Len(line) : line[i] \in TimelineEntry
  OBVIOUS
<1>2. PICK n, f : n = Len(line) + 1 /\ f = Numbered(e, n)
  OBVIOUS
<1>3. n \in Nat /\ f \in TimelineEntry
  BY <1>1, <1>2 DEF TimelineEntry, Noted, Numbered
<1>4. new = [i \in 1 .. n |-> IF i < k THEN line[i] ELSE IF i = k THEN f ELSE line[i - 1]]
  BY <1>2 DEF Inserted
<1>5. \A i \in 1 .. n : new[i] \in TimelineEntry
  BY <1>1, <1>2, <1>3, <1>4
<1>6. new \in Seq(TimelineEntry) /\ Len(new) = n /\ DOMAIN new = 1 .. n
  BY <1>3, <1>4, <1>5
<1>7. new[k] = f
  BY <1>2, <1>4
<1>8. \A i \in 1 .. Len(line) : Moved(i, k) \in 1 .. n /\ new[Moved(i, k)] = line[i]
  BY <1>1, <1>2, <1>4 DEF Moved
<1>9. ASSUME NEW j \in 1 .. n, j # k
      PROVE  \E i \in 1 .. Len(line) : j = Moved(i, k)
  <2>1. CASE j < k
    BY <1>1, <1>2, <1>9, <2>1 DEF Moved
  <2>2. CASE k < j
    <3>1. j - 1 \in 1 .. Len(line) /\ j = Moved(j - 1, k)
      BY <1>1, <1>2, <1>9, <2>2 DEF Moved
    <3> QED
      BY <3>1
  <2> QED
    BY <1>9, <2>1, <2>2
<1> QED
  BY <1>2, <1>6, <1>7, <1>8, <1>9

(* What was the last transition among the first entries stays so.          *)
LEMMA LatestStays ==
    ASSUME NEW line \in Seq(TimelineEntry), NEW e \in Noted,
           NEW k \in 1 .. Len(line) + 1, NEW new, new = Inserted(line, k, e),
           NEW m \in Nat, m <= Len(line), NEW i \in DOMAIN line, Latest(line, i, m)
    PROVE  /\ Moved(i, k) \in DOMAIN new /\ new[Moved(i, k)] = line[i]
           /\ Latest(new, Moved(i, k), m)
<1>1. /\ Len(line) \in Nat /\ DOMAIN line = 1 .. Len(line)
      /\ new[k].id = Len(line) + 1
      /\ \A h \in 1 .. Len(line) : Moved(h, k) \in DOMAIN new /\ new[Moved(h, k)] = line[h]
      /\ \A j \in DOMAIN new : j = k \/ \E h \in 1 .. Len(line) : j = Moved(h, k)
  <2>1. Numbered(e, Len(line) + 1).id = Len(line) + 1
    BY DEF Numbered
  <2> QED
    BY <2>1, EntriesShape, InsertedShape
<1>2. ASSUME NEW j \in Told(new), new[j].id <= m
      PROVE  new[j].id <= line[i].id
  <2>1. j \in DOMAIN new /\ j # k
    BY <1>1, <1>2 DEF Told
  <2>2. PICK h \in 1 .. Len(line) : j = Moved(h, k)
    BY <1>1, <2>1
  <2>3. h \in Told(line) /\ new[j] = line[h]
    BY <1>1, <1>2, <2>2 DEF Told
  <2> QED
    BY <1>2, <2>3 DEF Latest
<1> QED
  BY <1>1, <1>2 DEF Latest, Told

LEMMA ContinuesStill ==
    ASSUME NEW line \in Seq(TimelineEntry), NEW e \in Noted,
           NEW k \in 1 .. Len(line) + 1, NEW new, new = Inserted(line, k, e),
           NEW d, d.seen \in Nat, d.seen <= Len(line), Continues(d, line)
    PROVE  Continues(d, new)
<1> SUFFICES ASSUME d.to # NoStatus
             PROVE  d.from # d.to /\ \E j \in DOMAIN new : Latest(new, j, d.seen) /\ new[j].to = d.from
  BY DEF Continues
<1>1. PICK i \in DOMAIN line : Latest(line, i, d.seen) /\ line[i].to = d.from
  BY DEF Continues
<1>2. /\ Moved(i, k) \in DOMAIN new /\ new[Moved(i, k)] = line[i]
      /\ Latest(new, Moved(i, k), d.seen)
  BY <1>1, LatestStays
<1> QED
  BY <1>1, <1>2 DEF Continues

(* An entry that continues a timeline is told with it, wherever its stamp  *)
(* puts it.                                                                *)
LEMMA TellsOn ==
    ASSUME NEW line \in Seq(TimelineEntry), NEW status, Listing(line), Traced(line),
           Tells(line, status), NEW e \in Noted, e.seen \in 1 .. Len(line),
           Continues(e, line), NEW k \in Places(line, e), NEW new, new = Inserted(line, k, e)
    PROVE  /\ new \in Seq(TimelineEntry) /\ Len(new) = Len(line) + 1
           /\ Listing(new) /\ Traced(new)
           /\ Tells(new, IF e.to = NoStatus THEN status ELSE e.to)
<1> PICK n, f : n = Len(line) + 1 /\ f = Numbered(e, n)
  OBVIOUS
<1>1. /\ Len(line) \in Nat /\ n \in Nat /\ DOMAIN line = 1 .. Len(line) /\ k \in 1 .. n
      /\ \A i \in 1 .. Len(line) : line[i] \in TimelineEntry
      /\ \A i \in 1 .. Len(line) : line[i].id <= e.seen => i < k
  BY DEF Places
<1>2. /\ new \in Seq(TimelineEntry) /\ Len(new) = n /\ DOMAIN new = 1 .. n /\ new[k] = f
      /\ \A i \in 1 .. Len(line) : Moved(i, k) \in DOMAIN new /\ new[Moved(i, k)] = line[i]
      /\ \A j \in DOMAIN new : j = k \/ \E i \in 1 .. Len(line) : j = Moved(i, k)
  BY <1>1, InsertedShape
<1>3. f.id = n /\ f.seen = e.seen /\ f.from = e.from /\ f.to = e.to /\ f.seen \in Nat
  BY DEF Noted, Numbered
<1>4. Listing(new)
  <2>1. \A j \in DOMAIN new : new[j].id \in 1 .. n /\ new[j].seen < new[j].id
    <3>1. f.id \in 1 .. n /\ f.seen < f.id
      BY <1>1, <1>3
    <3>2. \A i \in 1 .. Len(line) : line[i].id \in 1 .. n /\ line[i].seen < line[i].id
      BY <1>1 DEF Listing
    <3> QED
      <4> SUFFICES ASSUME NEW j \in DOMAIN new
                   PROVE  new[j].id \in 1 .. n /\ new[j].seen < new[j].id
        OBVIOUS
      <4>1. new[j] = f \/ \E i \in 1 .. Len(line) : new[j] = line[i]
        BY <1>2
      <4> QED
        BY <3>1, <3>2, <4>1
  <2>2. ASSUME NEW i \in DOMAIN new, NEW j \in DOMAIN new, i < j
        PROVE  new[i].id # new[j].id /\ new[i].seen < new[j].id
    <3>1. CASE i = k
      <4>1. PICK h \in 1 .. Len(line) : j = Moved(h, k)
        <5>1. j # k
          BY <1>1, <1>2, <2>2, <3>1
        <5> QED
          BY <1>2, <5>1
      <4>2. new[j] = line[h] /\ ~(h < k)
        BY <1>1, <1>2, <2>2, <3>1, <4>1 DEF Moved
      <4>3. line[h].id \in 1 .. Len(line) /\ ~(line[h].id <= e.seen)
        BY <1>1, <4>2 DEF Listing
      <4> QED
        BY <1>1, <1>2, <1>3, <3>1, <4>2, <4>3
    <3>2. CASE j = k
      <4>1. PICK h \in 1 .. Len(line) : i = Moved(h, k)
        BY <1>1, <1>2, <2>2, <3>2
      <4>2. new[i] = line[h] /\ line[h].id \in 1 .. Len(line) /\ line[h].seen < line[h].id
            /\ line[h].seen \in Nat
        BY <1>1, <1>2, <4>1 DEF Listing, TimelineEntry
      <4> QED
        BY <1>1, <1>2, <1>3, <3>2, <4>2
    <3>3. CASE i # k /\ j # k
      <4>1. PICK g \in 1 .. Len(line), h \in 1 .. Len(line) : i = Moved(g, k) /\ j = Moved(h, k)
        BY <1>2, <2>2, <3>3
      <4>2. g < h
        BY <1>1, <2>2, <4>1 DEF Moved
      <4> QED
        BY <1>1, <1>2, <4>1, <4>2 DEF Listing
    <3> QED
      BY <3>1, <3>2, <3>3
  <2> QED
    BY <1>2, <2>1, <2>2 DEF Listing
<1>5. ASSUME NEW j \in DOMAIN new
      PROVE  IF new[j].seen = 0 THEN new[j].id = 1 /\ new[j].from # new[j].to
             ELSE Continues(new[j], new)
  <2>1. CASE j = k
    <3>1. f.seen # 0 /\ Continues(f, line)
      BY <1>3 DEF Continues
    <3> QED
      BY <1>1, <1>2, <1>3, <2>1, <3>1, ContinuesStill
  <2>2. CASE j # k
    <3>1. PICK i \in 1 .. Len(line) : new[j] = line[i]
      BY <1>2, <2>2
    <3>2. IF line[i].seen = 0 THEN line[i].id = 1 /\ line[i].from # line[i].to
          ELSE Continues(line[i], line)
      BY <1>1 DEF Traced
    <3>3. line[i].seen \in Nat /\ line[i].seen <= Len(line)
      BY EntriesShape DEF Listing
    <3> QED
      BY <1>1, <3>1, <3>2, <3>3, ContinuesStill
  <2> QED
    BY <2>1, <2>2
<1>6. CASE e.to = NoStatus
  <2>1. PICK i \in DOMAIN line : Latest(line, i, Len(line)) /\ line[i].to = status
    BY DEF Tells
  <2>2. /\ Moved(i, k) \in DOMAIN new /\ new[Moved(i, k)] = line[i]
        /\ Latest(new, Moved(i, k), Len(line))
    BY <1>1, <2>1, LatestStays
  <2>3. \A j \in Told(new) : new[j].id <= Len(line)
    <3> SUFFICES ASSUME NEW j \in Told(new)
                 PROVE  new[j].id <= Len(line)
      OBVIOUS
    <3>1. j # k /\ j \in DOMAIN new
      BY <1>2, <1>3, <1>6 DEF Told
    <3>2. PICK h \in 1 .. Len(line) : new[j] = line[h]
      BY <1>2, <3>1
    <3> QED
      BY EntriesShape, <3>2 DEF Listing
  <2>4. Latest(new, Moved(i, k), n)
    <3>1. line[i].id \in Nat /\ n = Len(line) + 1
      BY EntriesShape
    <3> QED
      BY <1>1, <2>2, <2>3, <3>1 DEF Latest
  <2> QED
    BY <1>2, <1>4, <1>5, <1>6, <2>1, <2>2, <2>4 DEF Traced, Tells
<1>7. CASE e.to # NoStatus
  <2>1. Latest(new, k, n) /\ new[k].to = e.to /\ k \in DOMAIN new
    BY <1>1, <1>2, <1>3, <1>4, <1>7 DEF Latest, Told, Listing
  <2> QED
    BY <1>2, <1>4, <1>5, <1>7, <2>1 DEF Traced, Tells
<1> QED
  BY <1>6, <1>7

(* A step that writes no occurrence.                                       *)
LEMMA TicketsUnwritten ==
    ASSUME OccurrencesInv, NEW w \in Workers, NEW r, Submission(r), Ask(w, r), UNCHANGED tickets,
           r.op = "update" =>
              /\ r.number \in Filed
              /\ r.entry.seen \in 1 .. Len(tickets[r.number].timeline)
              /\ Continues(r.entry, tickets[r.number].timeline)
    PROVE  OccurrencesInv'
<1>1. \A v \in Workers : req'[v] = IF v = w THEN r ELSE req[v]
  BY DEF OccurrencesInv, TicketsTyped, Ask
<1>2. TicketsTyped' /\ TimelinesTell'
  BY <1>1 DEF OccurrencesInv, TicketsTyped, TimelinesTell, Ask, Filed
<1>3. EntryContinues'
  BY <1>1 DEF OccurrencesInv, EntryContinues, Serving, Filed
<1> QED
  BY <1>2, <1>3 DEF OccurrencesInv

LEMMA EntryWaits ==
    ASSUME OccurrencesInv, NEW w \in Workers, NEW n \in Filed, UNCHANGED tickets,
           NEW status \in Telling, NEW assign \in SUBSET Assignees,
           Ask(w, Change(n, status, assign))
    PROVE  OccurrencesInv'
<1>1. PICK r, line, m : /\ r = Change(n, status, assign)
                        /\ line = tickets[n].timeline /\ m = Len(line)
  OBVIOUS
<1>2. /\ tickets[n].status \in Statuses /\ line \in Seq(TimelineEntry)
      /\ Listing(line) /\ Tells(line, tickets[n].status)
  BY <1>1 DEF OccurrencesInv, TicketsTyped, TimelinesTell, Ticket
<1>3. PICK k \in DOMAIN line : Latest(line, k, m) /\ line[k].to = tickets[n].status
  BY <1>1, <1>2 DEF Tells
<1>4. m \in Nat /\ m \in 1 .. m
  BY <1>1, <1>2, <1>3
<1>5. PICK e, a : /\ r = [op |-> "update", number |-> n, assign |-> a, entry |-> e]
                  /\ a = Column(assign, tickets[n].assigned, Nobody)
                  /\ e = IF status \in {NoStatus, tickets[n].status}
                         THEN Line(NoStatus, NoStatus, m)
                         ELSE Line(tickets[n].status, status, m)
  BY <1>1 DEF Change
<1>6. /\ e \in Noted /\ e.seen = m
      /\ e.to # NoStatus => e.from = tickets[n].status /\ e.from # e.to
  BY <1>2, <1>4, <1>5 DEF Line, Noted, Telling
<1>7. a \in SUBSET Assignees
  BY <1>5 DEF Column, Nobody
<1>8. Submission(r) /\ r.number = n /\ r.entry = e
  BY <1>5, <1>6, <1>7 DEF Submission, Moving
<1>9. Continues(e, line)
  BY <1>3, <1>6 DEF Continues
<1> QED
  BY <1>1, <1>4, <1>6, <1>8, <1>9, TicketsUnwritten

(* The commit of either request leaves what others are to tell true.       *)
LEMMA UpdatedTells ==
    ASSUME OccurrencesInv, NEW w \in Workers, Updated(w)
    PROVE  OccurrencesInv'
<1>1. PICK r, n, e, old, line :
        r = req[w] /\ n = r.number /\ e = r.entry /\ old = tickets[n] /\ line = old.timeline
  OBVIOUS
<1>2. e \in Noted /\ r.assign \in SUBSET Assignees
  BY <1>1, TicketShapes DEF Updated, Serving, OccurrencesInv, TicketsTyped, Moving
<1>3. n \in Filed /\ e.seen \in 1 .. Len(line) /\ Continues(e, line)
  BY <1>1 DEF Updated, OccurrencesInv, EntryContinues
<1>4. /\ old \in Ticket /\ line \in Seq(TimelineEntry)
      /\ Listing(line) /\ Traced(line) /\ Tells(line, old.status)
  BY <1>1, <1>3 DEF OccurrencesInv, TicketsTyped, TimelinesTell, Ticket
<1>5. PICK k \in Places(line, e) :
        tickets' = [tickets EXCEPT ![n].status = IF e.to = NoStatus THEN @ ELSE e.to,
                                   ![n].resolved = @ \/ e.to = "RESOLVED",
                                   ![n].assigned = IF r.assign = Nobody THEN @ ELSE r.assign,
                                   ![n].timeline = Inserted(line, k, e)]
  BY <1>1 DEF Updated
<1>51. PICK t : t = Inserted(line, k, e)
  OBVIOUS
<1>52. PICK new : new = [old EXCEPT !.status = IF e.to = NoStatus THEN @ ELSE e.to,
                                    !.resolved = @ \/ e.to = "RESOLVED",
                                    !.assigned = IF r.assign = Nobody THEN @ ELSE r.assign,
                                    !.timeline = t]
  OBVIOUS
<1>6. tickets' = [tickets EXCEPT ![n] = new]
  BY <1>1, <1>3, <1>4, <1>5, <1>51, <1>52 DEF OccurrencesInv, TicketsTyped, Ticket
<1>61. /\ t \in Seq(TimelineEntry) /\ Len(t) = Len(line) + 1 /\ Listing(t) /\ Traced(t)
       /\ Tells(t, IF e.to = NoStatus THEN old.status ELSE e.to)
  BY <1>2, <1>3, <1>4, <1>51, TellsOn
<1>7. new \in Ticket /\ new.timeline = t
      /\ new.status = IF e.to = NoStatus THEN old.status ELSE e.to
  <2>1. PICK s, b, a :
          /\ s = IF e.to = NoStatus THEN old.status ELSE e.to
          /\ b = (old.resolved \/ e.to = "RESOLVED")
          /\ a = IF r.assign = Nobody THEN old.assigned ELSE r.assign
    OBVIOUS
  <2>3. s \in Statuses
    BY <1>2, <1>4, <2>1 DEF Ticket, Noted, Telling
  <2>4. a \in SUBSET Assignees
    BY <1>2, <1>4, <2>1 DEF Ticket
  <2>5. b \in BOOLEAN
    BY <2>1, Zenon
  <2>2. new = [old EXCEPT !.status = s, !.resolved = b, !.assigned = a, !.timeline = t]
    BY <1>4, <1>52, <2>1 DEF Ticket
  <2> QED
    BY <1>4, <1>61, <2>1, <2>2, <2>3, <2>4, <2>5 DEF Ticket
<1>9. Filed' = Filed /\ \A m \in Filed : tickets'[m] = IF m = n THEN new ELSE tickets[m]
  BY <1>3, <1>6 DEF Filed
<1>10. \A v \in Workers : req'[v] = IF v = w THEN IdleReq ELSE req[v]
  BY DEF Updated, Answer, Ask, OccurrencesInv, TicketsTyped
<1>11. TicketsTyped' /\ TimelinesTell'
  <2>1. TimelinesTell'
    BY <1>7, <1>9, <1>61 DEF OccurrencesInv, TimelinesTell
  <2>2. tickets' \in [Filed -> Ticket]
    BY <1>3, <1>6, <1>7 DEF OccurrencesInv, TicketsTyped
  <2>3. req' = [v \in Workers |-> req'[v]]
    BY DEF Updated, Answer, Ask, OccurrencesInv, TicketsTyped
  <2> QED
    BY <1>9, <1>10, <2>1, <2>2, <2>3, TicketShapes DEF OccurrencesInv, TicketsTyped
<1>13. EntryContinues'
  <2> SUFFICES ASSUME NEW v \in Workers, Serving(v, "update")'
               PROVE  /\ req'[v].number \in Filed'
                      /\ req'[v].entry.seen \in 1 .. Len(tickets'[req'[v].number].timeline)
                      /\ Continues(req'[v].entry, tickets'[req'[v].number].timeline)
    BY DEF EntryContinues
  <2>1. req'[v] = req[v] /\ Serving(v, "update")
    BY <1>10, TicketShapes DEF Serving
  <2>2. PICK d, m : d = req[v].entry /\ m = req[v].number
    OBVIOUS
  <2>3. /\ m \in Filed /\ d.seen \in 1 .. Len(tickets[m].timeline)
        /\ Continues(d, tickets[m].timeline)
    BY <2>1, <2>2 DEF OccurrencesInv, EntryContinues
  <2>4. CASE m = n
    <3>1. d.seen \in 1 .. Len(line) /\ Continues(d, line)
      BY <1>1, <2>3, <2>4
    <3>2. Len(line) \in Nat /\ k \in 1 .. Len(line) + 1
      BY <1>4 DEF Places
    <3>3. d.seen \in 1 .. Len(t)
      BY <1>61, <3>1, <3>2
    <3>4. Continues(d, t)
      BY <1>2, <1>4, <1>51, <3>1, <3>2, ContinuesStill
    <3> QED
      BY <1>7, <1>9, <2>1, <2>2, <2>3, <2>4, <3>3, <3>4
  <2>5. CASE m # n
    BY <1>9, <2>1, <2>2, <2>3, <2>5
  <2> QED
    BY <2>4, <2>5
<1> QED
  BY <1>11, <1>13 DEF OccurrencesInv

LEMMA FiledTells ==
    ASSUME OccurrencesInv, NEW w \in Workers, OccurrenceFiled(w)
    PROVE  OccurrencesInv'
<1>1. PICK r, n : r = req[w] /\ n = r.number
  OBVIOUS
<1>2. r.reporter \in Reporters /\ r.public \in BOOLEAN
  BY <1>1, TicketShapes DEF OccurrenceFiled, Serving, OccurrencesInv, TicketsTyped, Filing
<1>3. CASE n \in Filed
  BY <1>1, <1>3, TicketShapes, TicketsUnwritten DEF OccurrenceFiled, Answer
<1>4. CASE n \notin Filed
  <2>1. PICK new, e :
          /\ new = [status |-> "OPEN", resolved |-> FALSE, assigned |-> Nobody,
                    reporter |-> r.reporter, public |-> r.public, timeline |-> <<e>>]
          /\ e = Numbered(Line(NoStatus, "OPEN", 0), 1)
    OBVIOUS
  <2>2. e \in TimelineEntry /\ e.to = "OPEN" /\ e.from # e.to /\ "OPEN" # NoStatus
        /\ e.id = 1 /\ e.seen = 0
    BY <2>1 DEF Line, Numbered, TimelineEntry, Telling, Statuses, NoStatus
  <2>3. /\ new \in Ticket /\ new.timeline = <<e>> /\ new.status = "OPEN"
    BY <1>1, <1>2, <2>1, <2>2 DEF Ticket, Statuses, Nobody
  <2>4. tickets' = [m \in Filed \cup {n} |-> IF m \in Filed THEN tickets[m] ELSE new]
    BY <1>1, <1>4, <2>1 DEF OccurrenceFiled
  <2>5. Filed' = Filed \cup {n} /\ \A m \in Filed' : tickets'[m] = IF m = n THEN new ELSE tickets[m]
    BY <1>4, <2>4 DEF Filed
  <2>6. PICK line : line = new.timeline
    OBVIOUS
  <2>61. DOMAIN line = {1} /\ Len(line) = 1 /\ line[1] = e
    BY <2>2, <2>3, <2>6
  <2>7. Listing(line) /\ Traced(line) /\ Tells(line, new.status)
    BY <2>2, <2>3, <2>61 DEF Listing, Traced, Tells, Latest, Told
  <2>8. \A v \in Workers : req'[v] = IF v = w THEN IdleReq ELSE req[v]
    BY DEF OccurrenceFiled, Answer, Ask, OccurrencesInv, TicketsTyped
  <2>9. TimelinesTell'
    BY <2>5, <2>6, <2>7 DEF OccurrencesInv, TimelinesTell
  <2>10. TicketsTyped'
    <3>1. tickets' \in [Filed' -> Ticket]
      BY <2>3, <2>4, <2>5 DEF OccurrencesInv, TicketsTyped
    <3>2. req' = [v \in Workers |-> req'[v]]
      BY DEF OccurrenceFiled, Answer, Ask, OccurrencesInv, TicketsTyped
    <3> QED
      BY <2>8, <3>1, <3>2, TicketShapes DEF OccurrencesInv, TicketsTyped
  <2>11. EntryContinues'
    BY <1>4, <2>5, <2>8, TicketShapes DEF OccurrencesInv, EntryContinues, Serving
  <2> QED
    BY <2>9, <2>10, <2>11 DEF OccurrencesInv
<1> QED
  BY <1>3, <1>4

LEMMA OccurrencesStep ==
    OccurrencesInv /\ [OccurrencesNext]_<<tickets, req>> => OccurrencesInv'
<1> SUFFICES ASSUME OccurrencesInv, [OccurrencesNext]_<<tickets, req>>
             PROVE  OccurrencesInv'
  OBVIOUS
<1>1. ASSUME NEW w \in Workers, Report(w)
      PROVE  OccurrencesInv'
  <2>1. PICK u \in Reporters, public \in BOOLEAN :
          Ask(w, [op |-> "report", number |-> NextNumber, reporter |-> u, public |-> public])
    BY <1>1 DEF Report
  <2>2. PICK r : r = [op |-> "report", number |-> NextNumber, reporter |-> u, public |-> public]
    OBVIOUS
  <2>3. Submission(r) /\ r.op = "report"
    BY <2>2 DEF Submission, Filing
  <2> QED
    BY <1>1, <2>1, <2>2, <2>3, TicketsUnwritten DEF Report
<1>2. ASSUME NEW w \in Workers, UpdateStatus(w)
      PROVE  OccurrencesInv'
  <2>1. PICK n \in Filed, status \in Telling, assign \in {Nobody} \cup {{v} : v \in Assignees} :
          Ask(w, Change(n, status, assign))
    BY <1>2 DEF UpdateStatus, Telling
  <2>2. assign \in SUBSET Assignees
    BY DEF Nobody
  <2> QED
    BY <1>2, <2>1, <2>2, EntryWaits DEF UpdateStatus
<1>3. ASSUME NEW w \in Workers, AddNote(w)
      PROVE  OccurrencesInv'
  <2>1. PICK n \in Filed, status \in Telling : Ask(w, Change(n, status, Nobody))
    BY <1>3 DEF AddNote, Telling
  <2> QED
    BY <1>3, <2>1, EntryWaits DEF AddNote, Nobody
<1>4. ASSUME NEW w \in Workers, OccurrencesCrash(w)
      PROVE  OccurrencesInv'
  BY <1>4, TicketShapes, TicketsUnwritten DEF OccurrencesCrash, Dies, Answer
<1>5. ASSUME UNCHANGED <<tickets, req>>
      PROVE  OccurrencesInv'
  BY <1>5 DEF OccurrencesInv, TicketsTyped, TimelinesTell, EntryContinues, Serving, Filed
<1> QED
  BY <1>1, <1>2, <1>3, <1>4, <1>5, UpdatedTells, FiledTells DEF OccurrencesNext

(* What was told as the invariant has it reads as TimelineTellsStatus      *)
(* says.                                                                   *)
LEMMA AsTold ==
    ASSUME NEW line \in Seq(TimelineEntry), NEW status,
           Listing(line), Traced(line), Tells(line, status)
    PROVE  /\ \E c \in Told(line) :
                /\ line[c].to = status
                /\ \A i \in Told(line) : c < i => Overlapped(line[i], line[c])
           /\ \A h, i \in Told(line) :
                h < i /\ (\A j \in Told(line) : j <= h \/ i <= j) =>
                   /\ line[i].from # line[i].to
                   /\ \/ line[i].from = line[h].to
                      \/ \E j \in Told(line) : j # h /\ Overlapped(line[h], line[j])
                      \/ \E j \in Told(line) : j # i /\ Overlapped(line[i], line[j])
<1>1. /\ Len(line) \in Nat /\ DOMAIN line = 1 .. Len(line)
      /\ \A i \in DOMAIN line : /\ line[i].seen \in Nat /\ line[i].id \in 1 .. Len(line)
                                /\ line[i].seen < line[i].id
      /\ \A i, j \in DOMAIN line : i < j => line[i].id # line[j].id /\ line[i].seen < line[j].id
      /\ Told(line) \subseteq DOMAIN line
  BY EntriesShape DEF Listing, Told
<1>2. PICK c \in DOMAIN line : Latest(line, c, Len(line)) /\ line[c].to = status
  BY DEF Tells
<1>3. c \in Told(line) /\ \A j \in Told(line) : line[j].id <= line[c].id
  BY <1>1, <1>2 DEF Latest
<1>4. \A i \in Told(line) : c < i => Overlapped(line[i], line[c])
  BY <1>1, <1>3 DEF Overlapped
<1>6. ASSUME NEW h \in Told(line), NEW k \in Told(line), h < k,
             \A j \in Told(line) : j <= h \/ k <= j,
             \A j \in Told(line) : j # h => ~Overlapped(line[h], line[j]),
             \A j \in Told(line) : j # k => ~Overlapped(line[k], line[j])
      PROVE  line[k].from = line[h].to
  <2>1. line[k].seen # 0
    BY <1>1, <1>6 DEF Traced
  <2>2. PICK p \in DOMAIN line : Latest(line, p, line[k].seen) /\ line[p].to = line[k].from
    BY <1>1, <1>6, <2>1 DEF Traced, Continues, Told
  <2>3. p \in Told(line) /\ line[p].id <= line[k].seen
    BY <2>2 DEF Latest
  <2>4. p < k
    BY <1>1, <1>6, <2>3
  <2>5. p <= h
    BY <1>1, <1>6, <2>3, <2>4
  <2>6. line[h].id <= line[k].seen
    <3>0. k # h
      BY <1>1, <1>6
    <3>1. ~(line[h].seen < line[k].id /\ line[k].seen < line[h].id)
      BY <1>6, <3>0 DEF Overlapped
    <3> QED
      BY <1>1, <1>6, <3>1
  <2>7. line[h].id <= line[p].id
    BY <2>2, <2>6, <1>6 DEF Latest
  <2>8. ~(p < h)
    <3> SUFFICES ASSUME p < h
                 PROVE  FALSE
      OBVIOUS
    <3>1. line[p].seen < line[h].id /\ line[p].id # line[h].id
      BY <1>1, <1>6, <2>3
    <3>2. line[h].seen < line[p].id
      BY <1>1, <1>6, <2>3, <2>7
    <3>3. ~(line[h].seen < line[p].id /\ line[p].seen < line[h].id)
      BY <1>1, <1>6, <2>3 DEF Overlapped
    <3> QED
      BY <3>1, <3>2, <3>3
  <2> QED
    BY <1>1, <2>2, <2>3, <2>5, <2>8
<1>7. \A k \in Told(line) : line[k].from # line[k].to
  BY <1>1 DEF Traced, Continues, Told
<1> QED
  BY <1>2, <1>3, <1>4, <1>6, <1>7

(* For any users, numbers and workers, and wherever the clock puts the     *)
(* entries of requests that overlap: a transition leads to the status and  *)
(* those listed after it overlapped it, and one starts where the one       *)
(* before it ended unless one of the two was overlapped.                   *)
THEOREM TimelineTells == OccurrencesSpec => []TimelineTellsStatus
<1>1. OccurrencesInv => TimelineTellsStatus
  <2> SUFFICES ASSUME OccurrencesInv, NEW n \in Filed, NEW line, line = tickets[n].timeline
               PROVE  /\ line \in Seq(TimelineEntry)
                      /\ Listing(line) /\ Traced(line) /\ Tells(line, tickets[n].status)
    BY AsTold DEF TimelineTellsStatus
  <2> QED
    BY DEF OccurrencesInv, TicketsTyped, TimelinesTell, Ticket
<1> QED
  BY <1>1, OccurrencesStart, OccurrencesStep, PTL DEF OccurrencesSpec
-----------------------------------------------------------------------------
(* Infractions.  Rows keep their shape, and lists are lists.               *)
RuleRow(r) ==
    r = [active |-> r.active, window |-> r.window, ladder |-> r.ladder, written |-> r.written]
CaseRow(r) ==
    r = [rule |-> r.rule, who |-> r.who, lot |-> r.lot, on |-> r.on, at |-> r.at, by |-> r.by]
Listed(s) == Len(s) \in Nat /\ s = [i \in 1 .. Len(s) |-> s[i]]

BookShape ==
    book = [instant |-> book.instant, day |-> book.day, fee |-> book.fee,
            rules |-> book.rules, cases |-> book.cases, stages |-> book.stages,
            pleas |-> book.pleas, closes |-> book.closes]

BookTyped ==
    /\ BookShape /\ book.instant \in Nat
    /\ book.rules = [r \in Rules |-> book.rules[r]]
    /\ \A r \in Rules : book.rules[r] = NoRule \/ RuleRow(book.rules[r])
    /\ book.cases = [c \in Cases |-> book.cases[c]]
    /\ book.stages = [c \in Cases |-> book.stages[c]]
    /\ \A c \in Cases : Listed(book.stages[c])
    /\ req = [w \in Workers |-> req[w]]

(* A process names a rule there is, at an instant taken.                   *)
Registered(row) ==
    CaseRow(row) /\ row.rule \in Articles /\ row.at \in Nat /\ row.at < book.instant

(* A stage was decided on fewer stages than now precede it, and on more    *)
(* than each earlier one of its worker.                                    *)
Decided(line) ==
    /\ \A i \in 1 .. Len(line) : line[i].seen \in Nat /\ line[i].seen < i
    /\ \A i, j \in 1 .. Len(line) :
          i < j /\ line[i].by = line[j].by => line[i].seen < line[j].seen

(* What a worker is about to commit: a stage later than those of its own,  *)
(* a close later than the processes of its own.                            *)
AboutTo(w, r) ==
    /\ r.op = "policy" => r.rule \in Articles
    /\ r.op = "register" => Registered(r.row) /\ r.row.by = w
    /\ r.op = "stage" =>
          /\ r.case \in Cases /\ r.row.by = w /\ r.row.seen \in Nat
          /\ r.row.seen <= Len(book.stages[r.case])
          /\ \A i \in 1 .. Len(book.stages[r.case]) :
                book.stages[r.case][i].by = w => book.stages[r.case][i].seen < r.row.seen
    /\ r.op = "close" =>
          /\ r.row.by = w /\ r.row.at \in Nat /\ r.row.at < book.instant
          /\ \A c \in Open : book.cases[c].by = w => book.cases[c].at < r.row.at

InfractionsInv ==
    /\ BookTyped
    /\ \A c \in Open : Registered(book.cases[c])
    /\ \A c \in Cases : Decided(book.stages[c])
    /\ \A w \in Workers : AboutTo(w, req[w])

(* What OfferedLessOnlyByRace says of one step.                            *)
OfferedStep ==
    \A c \in Open :
       \/ LadderIndex(c)' >= LadderIndex(c)
       \/ book'.rules[book.cases[c].rule].window # book.rules[book.cases[c].rule].window
       \/ \E x \in book'.closes \ book.closes : x.by # book.cases[c].by

(* The processes that the count of c finds.                                *)
Counted(c) ==
    LET me == book.cases[c]
        start == me.on - book.rules[me.rule].window
    IN {d \in Open \ {c} :
          LET other == book.cases[d]
          IN /\ other.rule = me.rule /\ other.who = me.who
             /\ start <= other.on /\ other.on < me.on
             /\ \A x \in ClosesOf(c) : other.at > x.at}

LEMMA InfractionShapes ==
    /\ \A r : RuleRow(r) => r # NoRule
    /\ \A r : CaseRow(r) => r # NoCase
    /\ \A w : AboutTo(w, IdleReq)
<1>1. ASSUME NEW r, RuleRow(r) PROVE r # NoRule
  <2> PICK a, n, l, k : r = [active |-> a, window |-> n, ladder |-> l, written |-> k]
    BY <1>1, Zenon DEF RuleRow
  <2>1. "active" \in DOMAIN r
    OBVIOUS
  <2>2. "active" \notin DOMAIN NoRule
    BY DEF NoRule
  <2> QED
    BY <2>1, <2>2
<1>2. ASSUME NEW r, CaseRow(r) PROVE r # NoCase
  <2> PICK u, who, l, on, at, by :
        r = [rule |-> u, who |-> who, lot |-> l, on |-> on, at |-> at, by |-> by]
    BY <1>2, Zenon DEF CaseRow
  <2>1. "who" \in DOMAIN r
    OBVIOUS
  <2>2. "who" \notin DOMAIN NoCase
    BY DEF NoCase
  <2> QED
    BY <2>1, <2>2
<1>3. ASSUME NEW w PROVE AboutTo(w, IdleReq)
  BY DEF AboutTo, IdleReq
<1> QED
  BY <1>1, <1>2, <1>3

LEMMA InfractionsStart == InfractionsInit /\ NoRequest => InfractionsInv
<1> SUFFICES ASSUME InfractionsInit, NoRequest PROVE InfractionsInv
  OBVIOUS
<1>1. BookTyped
  BY DEF InfractionsInit, NoRequest, BookTyped, BookShape, Listed
<1>2. Open = {} /\ \A c \in Cases : Decided(book.stages[c])
  BY DEF InfractionsInit, Open, Decided
<1>3. \A w \in Workers : AboutTo(w, req[w])
  BY InfractionShapes DEF NoRequest
<1> QED
  BY <1>1, <1>2, <1>3 DEF InfractionsInv

(* The place on the ladder goes with the processes counted and the stages. *)
LEMMA LadderClimbs ==
    ASSUME InfractionsInv, InfractionsInv', NEW c \in Open, Counted(c) \subseteq Counted(c)',
           Len(book.stages[c]) <= Len(book'.stages[c])
    PROVE  LadderIndex(c)' >= LadderIndex(c)
<1>1. Counted(c)' \subseteq Cases
  BY DEF Counted, Open
<1>2. IsFiniteSet(Counted(c)') /\ IsFiniteSet(Counted(c))
  BY <1>1, FS_Subset, CasesAssumption
<1>3. /\ Cardinality(Counted(c)) \in Nat /\ Cardinality(Counted(c)') \in Nat
      /\ Cardinality(Counted(c)) <= Cardinality(Counted(c)')
  BY <1>2, FS_CardinalityType, FS_Subset
<1>4. Recidivism(c) = Cardinality(Counted(c)) /\ Recidivism(c)' = Cardinality(Counted(c)')
  BY DEF Recidivism, Counted
<1>5. Len(book.stages[c]) \in Nat /\ Len(book'.stages[c]) \in Nat
  BY DEF InfractionsInv, BookTyped, Listed, Open
<1> QED
  BY <1>3, <1>4, <1>5 DEF LadderIndex, Applied

(* A process that counted still counts while no row changes, the window    *)
(* stands and no close comes to bear.                                      *)
LEMMA CountedKept ==
    ASSUME NEW c \in Open, Open \subseteq Open',
           \A d \in Open : book'.cases[d] = book.cases[d],
           book'.rules[book.cases[c].rule].window = book.rules[book.cases[c].rule].window,
           ClosesOf(c)' \subseteq ClosesOf(c)
    PROVE  Counted(c) \subseteq Counted(c)'
  BY DEF Counted

(* A step that records no process, stage or close: what others are about   *)
(* to commit stays right.                                                  *)
LEMMA NothingRecorded ==
    ASSUME InfractionsInv, BookTyped', Articles \subseteq Articles',
           book'.instant >= book.instant, book'.cases = book.cases,
           book'.stages = book.stages, book'.closes = book.closes,
           \A w \in Workers : req'[w] = req[w] \/ AboutTo(w, req[w])'
    PROVE  InfractionsInv' /\ OfferedStep
<1>1. Open' = Open
  BY DEF Open
<1>2. \A row : Registered(row) => Registered(row)'
  BY DEF Registered, InfractionsInv, BookTyped
<1>3. \A w, r : AboutTo(w, r) => AboutTo(w, r)'
  <2> SUFFICES ASSUME NEW w, NEW r, AboutTo(w, r) PROVE AboutTo(w, r)'
    OBVIOUS
  <2>1. r.op = "close" => r.row.at < book'.instant
    BY DEF AboutTo, InfractionsInv, BookTyped
  <2> QED
    BY <1>1, <1>2, <2>1 DEF AboutTo
<1>4. \A w \in Workers : AboutTo(w, req[w])'
  <2> SUFFICES ASSUME NEW w \in Workers PROVE AboutTo(w, req[w])'
    OBVIOUS
  <2> PICK r : r = req[w]
    OBVIOUS
  <2> QED
    BY <1>3 DEF InfractionsInv
<1>5. InfractionsInv'
  BY <1>1, <1>2, <1>4 DEF InfractionsInv
<1>6. OfferedStep
  <2> SUFFICES ASSUME NEW c \in Open,
                      book'.rules[book.cases[c].rule].window
                      = book.rules[book.cases[c].rule].window
               PROVE  LadderIndex(c)' >= LadderIndex(c)
    BY DEF OfferedStep
  <2>1. ClosesOf(c)' = ClosesOf(c)
    BY DEF ClosesOf
  <2>2. Len(book.stages[c]) \in Nat
    BY DEF InfractionsInv, BookTyped, Listed, Open
  <2> QED
    BY <1>1, <1>5, <2>1, <2>2, CountedKept, LadderClimbs
<1> QED
  BY <1>5, <1>6

(* A step that touches rules, instants or what nobody counts.              *)
LEMMA RulesRewritten ==
    ASSUME InfractionsInv, BookShape', book'.rules = [r \in Rules |-> book'.rules[r]],
           \A r \in Rules : book'.rules[r] = book.rules[r] \/ RuleRow(book'.rules[r]),
           book'.instant = book.instant \/ book'.instant = book.instant + 1,
           book'.cases = book.cases, book'.stages = book.stages,
           book'.closes = book.closes,
           NEW w \in Workers, NEW r, req' = req \/ (Ask(w, r) /\ AboutTo(w, r)')
    PROVE  InfractionsInv' /\ OfferedStep
<1>1. \A v \in Workers : req'[v] = req[v] \/ AboutTo(v, req[v])'
  BY DEF Ask, InfractionsInv, BookTyped
<1>2. req' = [v \in Workers |-> req'[v]]
  BY DEF Ask, InfractionsInv, BookTyped
<1>3. BookTyped'
  BY <1>2 DEF InfractionsInv, BookTyped
<1>4. Articles \subseteq Articles' /\ book'.instant >= book.instant
  BY InfractionShapes DEF Articles, InfractionsInv, BookTyped
<1> QED
  BY <1>1, <1>3, <1>4, NothingRecorded

(* A step of which the book sees at most the instant it takes.             *)
LEMMA OnlyAsked ==
    ASSUME InfractionsInv, NEW w \in Workers, NEW r, Ask(w, r), AboutTo(w, r)',
           UNCHANGED book \/ Stamp
    PROVE  InfractionsInv' /\ OfferedStep
<1>1. BookTyped /\ BookShape
  BY DEF InfractionsInv, BookTyped
<1>2. /\ book'.instant = book.instant \/ book'.instant = book.instant + 1
      /\ BookShape' /\ book'.rules = book.rules /\ book'.cases = book.cases
      /\ book'.stages = book.stages /\ book'.closes = book.closes
  BY <1>1 DEF Stamp, BookShape
<1> QED
  BY <1>1, <1>2, RulesRewritten DEF BookTyped

LEMMA CaseHolds ==
    ASSUME InfractionsInv, NEW w \in Workers, CaseRegistered(w)
    PROVE  InfractionsInv' /\ OfferedStep
<1> PICK row : row = req[w].row
  OBVIOUS
<1>1. PICK c \in Cases \ Open : book' = [book EXCEPT !.cases[c] = row]
  BY DEF CaseRegistered
<1>2. Registered(row) /\ row.by = w
  BY DEF CaseRegistered, Serving, InfractionsInv, AboutTo
<1>3. /\ book'.cases = [book.cases EXCEPT ![c] = row] /\ book'.instant = book.instant
      /\ book'.rules = book.rules /\ book'.stages = book.stages
      /\ book'.closes = book.closes /\ BookShape'
  BY <1>1 DEF InfractionsInv, BookTyped, BookShape
<1>4. \A d \in Cases : book'.cases[d] = IF d = c THEN row ELSE book.cases[d]
  BY <1>3 DEF InfractionsInv, BookTyped
<1>5. Open' = Open \cup {c} /\ \A d \in Open : d \in Cases /\ d # c
  BY <1>1, <1>2, <1>4, InfractionShapes DEF Open, Registered
<1>6. \A v \in Workers : req'[v] = IF v = w THEN IdleReq ELSE req[v]
  BY DEF CaseRegistered, Answer, Ask, InfractionsInv, BookTyped
<1>7. BookTyped'
  BY <1>3, <1>6 DEF InfractionsInv, BookTyped, CaseRegistered, Answer, Ask
<1>8. \A r : Registered(r) => Registered(r)'
  BY <1>3 DEF Registered, Articles
<1>9. (\A d \in Open : Registered(book.cases[d]))'
  BY <1>1, <1>2, <1>4, <1>5, <1>8 DEF InfractionsInv
<1>10. \A v \in Workers : AboutTo(v, req[v])'
  <2> SUFFICES ASSUME NEW v \in Workers, v # w PROVE AboutTo(v, req[v])'
    BY <1>6 DEF AboutTo, IdleReq
  <2> PICK r : r = req[v] /\ r = req'[v]
    BY <1>6
  <2>1. AboutTo(v, r)
    BY DEF InfractionsInv
  <2>2. r.op = "register" => Registered(r.row)'
    BY <1>8, <2>1 DEF AboutTo
  <2>3. r.op = "close" => \A d \in Open' : book'.cases[d].by = v => book'.cases[d].at < r.row.at
    BY <1>1, <1>2, <1>4, <1>5, <2>1 DEF AboutTo
  <2>4. AboutTo(v, r)'
    BY <1>3, <2>1, <2>2, <2>3 DEF AboutTo, Articles
  <2> QED
    BY <2>4
<1>11. InfractionsInv'
  BY <1>3, <1>7, <1>9, <1>10 DEF InfractionsInv
<1>12. OfferedStep
  <2> SUFFICES ASSUME NEW d \in Open PROVE LadderIndex(d)' >= LadderIndex(d)
    BY DEF OfferedStep
  <2>1. ClosesOf(d)' = ClosesOf(d)
    BY <1>3, <1>4, <1>5 DEF ClosesOf
  <2>2. Len(book.stages[d]) \in Nat
    BY DEF InfractionsInv, BookTyped, Listed, Open
  <2>3. Counted(d) \subseteq Counted(d)'
    BY <1>3, <1>4, <1>5, <2>1, CountedKept
  <2> QED
    BY <1>3, <1>11, <2>2, <2>3, LadderClimbs
<1> QED
  BY <1>11, <1>12

LEMMA ListGrows ==
    ASSUME NEW s, Listed(s), NEW e
    PROVE  /\ Listed(Append(s, e)) /\ Len(Append(s, e)) = Len(s) + 1
           /\ \A i \in 1 .. Len(s) : Append(s, e)[i] = s[i]
           /\ Append(s, e)[Len(s) + 1] = e
<1> PICK n \in Nat : n = Len(s)
  BY DEF Listed
<1> PICK S : S = {s[i] : i \in 1 .. n} \cup {e}
  OBVIOUS
<1>1. s = [i \in 1 .. n |-> s[i]] /\ \A i \in 1 .. n : s[i] \in S
  BY DEF Listed
<1>2. s \in [1 .. n -> S]
  BY <1>1
<1>3. s \in Seq(S) /\ e \in S
  BY <1>2
<1>4. Append(s, e) \in Seq(S) /\ Len(Append(s, e)) = n + 1
  BY <1>3
<1>5. Listed(Append(s, e))
  <2> PICK t \in Seq(S) : t = Append(s, e)
    BY <1>4
  <2>1. Len(t) \in Nat /\ t \in [1 .. Len(t) -> S]
    BY LenProperties
  <2>2. t = [i \in 1 .. Len(t) |-> t[i]]
    BY <2>1
  <2> QED
    BY <2>1, <2>2 DEF Listed
<1> QED
  BY <1>3, <1>4, <1>5

LEMMA StageHolds ==
    ASSUME InfractionsInv, NEW w \in Workers, StageAdded(w)
    PROVE  InfractionsInv' /\ OfferedStep
<1>1. PICK k, row, old, new :
        /\ k = req[w].case /\ row = req[w].row
        /\ old = book.stages[k] /\ new = Append(old, row)
  OBVIOUS
<1>2. /\ k \in Cases /\ row.by = w /\ row.seen \in Nat /\ row.seen <= Len(old)
      /\ \A i \in 1 .. Len(old) : old[i].by = w => old[i].seen < row.seen
  BY <1>1 DEF StageAdded, Serving, InfractionsInv, AboutTo
<1>3. Listed(old) /\ Decided(old)
  BY <1>1, <1>2 DEF InfractionsInv, BookTyped
<1>4. /\ Listed(new) /\ Len(new) = Len(old) + 1 /\ Len(old) \in Nat
      /\ \A i \in 1 .. Len(old) : new[i] = old[i]
      /\ new[Len(old) + 1] = row
  <2>1. Len(old) \in Nat
    BY <1>3 DEF Listed
  <2>2. /\ Listed(Append(old, row)) /\ Len(Append(old, row)) = Len(old) + 1
        /\ \A i \in 1 .. Len(old) : Append(old, row)[i] = old[i]
        /\ Append(old, row)[Len(old) + 1] = row
    BY <1>3, ListGrows, Zenon
  <2>3. new = Append(old, row)
    BY <1>1
  <2> QED
    BY <2>1, <2>2, <2>3, Zenon
<1>5. /\ book'.stages = [book.stages EXCEPT ![k] = new] /\ book'.instant = book.instant
      /\ book'.rules = book.rules /\ book'.cases = book.cases
      /\ book'.closes = book.closes /\ BookShape'
  BY <1>1, <1>2 DEF StageAdded, InfractionsInv, BookTyped, BookShape
<1>6. \A c \in Cases : book'.stages[c] = IF c = k THEN new ELSE book.stages[c]
  BY <1>5 DEF InfractionsInv, BookTyped
<1>7. \A v \in Workers : req'[v] = IF v = w THEN IdleReq ELSE req[v]
  BY DEF StageAdded, Answer, Ask, InfractionsInv, BookTyped
<1>8. BookTyped'
  <2>1. \A c \in Cases : Listed(book'.stages[c])
    BY <1>4, <1>6 DEF InfractionsInv, BookTyped
  <2>2. book'.stages = [c \in Cases |-> book'.stages[c]]
    BY <1>5 DEF InfractionsInv, BookTyped
  <2>3. req' = [v \in Workers |-> req'[v]]
    BY DEF StageAdded, Answer, Ask, InfractionsInv, BookTyped
  <2> QED
    BY <1>5, <2>1, <2>2, <2>3 DEF InfractionsInv, BookTyped
<1>9. Decided(new)
  <2>1. \A i \in 1 .. Len(new) : i = Len(old) + 1 \/ i \in 1 .. Len(old)
    BY <1>4
  <2>2. \A i \in 1 .. Len(new) : new[i].seen \in Nat /\ new[i].seen < i
    BY <1>2, <1>3, <1>4, <2>1 DEF Decided
  <2>3. ASSUME NEW i \in 1 .. Len(new), NEW j \in 1 .. Len(new),
               i < j, new[i].by = new[j].by
        PROVE  new[i].seen < new[j].seen
    <3>1. i \in 1 .. Len(old) /\ new[i] = old[i]
      BY <1>4, <2>1, <2>3
    <3>2. CASE j \in 1 .. Len(old)
      BY <1>3, <1>4, <2>3, <3>1, <3>2 DEF Decided
    <3>3. CASE j = Len(old) + 1
      BY <1>2, <1>4, <2>3, <3>1, <3>3
    <3> QED
      BY <2>1, <3>2, <3>3
  <2> QED
    BY <2>2, <2>3 DEF Decided
<1>10. Open' = Open /\ \A r : Registered(r) => Registered(r)'
  BY <1>5 DEF Registered, Articles, Open
<1>11. \A v \in Workers : AboutTo(v, req[v])'
  <2> SUFFICES ASSUME NEW v \in Workers, v # w PROVE AboutTo(v, req[v])'
    BY <1>7 DEF AboutTo, IdleReq
  <2> PICK r : r = req[v] /\ r = req'[v]
    BY <1>7
  <2>1. AboutTo(v, r)
    BY DEF InfractionsInv
  <2>2. r.op = "register" => Registered(r.row)'
    BY <1>10, <2>1 DEF AboutTo
  <2>3. ASSUME r.op = "stage"
        PROVE  /\ r.row.seen <= Len(book'.stages[r.case])
               /\ \A i \in 1 .. Len(book'.stages[r.case]) :
                    book'.stages[r.case][i].by = v => book'.stages[r.case][i].seen < r.row.seen
    <3>1. /\ r.case \in Cases /\ r.row.seen \in Nat
          /\ r.row.seen <= Len(book.stages[r.case])
          /\ \A i \in 1 .. Len(book.stages[r.case]) :
                book.stages[r.case][i].by = v => book.stages[r.case][i].seen < r.row.seen
      BY <2>1, <2>3 DEF AboutTo
    <3>2. CASE r.case # k
      BY <1>6, <3>1, <3>2
    <3>3. CASE r.case = k
      <4>1. book.stages[k] = old /\ book'.stages[k] = new
        BY <1>1, <1>2, <1>6
      <4>2. /\ r.row.seen \in Nat /\ r.row.seen <= Len(old)
            /\ \A i \in 1 .. Len(old) : old[i].by = v => old[i].seen < r.row.seen
        BY <3>1, <3>3, <4>1
      <4>3. r.row.seen <= Len(new)
        BY <1>4, <4>2
      <4>4. \A i \in 1 .. Len(new) : new[i].by = v => new[i].seen < r.row.seen
        BY <1>2, <1>4, <4>2
      <4> QED
        BY <3>3, <4>1, <4>3, <4>4
    <3> QED
      BY <3>2, <3>3
  <2>4. AboutTo(v, r)'
    BY <1>5, <1>10, <2>1, <2>2, <2>3 DEF AboutTo, Articles
  <2> QED
    BY <2>4
<1>12. InfractionsInv'
  BY <1>5, <1>6, <1>8, <1>9, <1>10, <1>11 DEF InfractionsInv
<1>13. OfferedStep
  <2> SUFFICES ASSUME NEW d \in Open PROVE LadderIndex(d)' >= LadderIndex(d)
    BY DEF OfferedStep
  <2>1. ClosesOf(d)' = ClosesOf(d) /\ d \in Cases
    BY <1>5 DEF ClosesOf, Open
  <2>2. Len(book.stages[d]) \in Nat /\ Len(book.stages[d]) <= Len(book'.stages[d])
    <3>1. Len(book.stages[d]) \in Nat
      BY <2>1 DEF InfractionsInv, BookTyped, Listed
    <3>2. Len(old) <= Len(new)
      BY <1>4
    <3>3. CASE d = k
      BY <1>1, <1>6, <2>1, <3>1, <3>2, <3>3
    <3>4. CASE d # k
      <4>1. book'.stages[d] = book.stages[d]
        BY <1>6, <2>1, <3>4
      <4> QED
        BY <3>1, <4>1
    <3> QED
      BY <3>3, <3>4
  <2>3. Counted(d) \subseteq Counted(d)'
    BY <1>5, <1>10, <2>1, CountedKept
  <2> QED
    BY <1>12, <2>2, <2>3, LadderClimbs
<1> QED
  BY <1>12, <1>13

(* A worker closes a cycle after every process of its own.                 *)
LEMMA CloseHolds ==
    ASSUME InfractionsInv, NEW w \in Workers, CycleClosed(w)
    PROVE  InfractionsInv' /\ OfferedStep
<1>1. PICK row : row = req[w].row
  OBVIOUS
<1>2. /\ row.by = w /\ row.at \in Nat
      /\ \A c \in Open : book.cases[c].by = w => book.cases[c].at < row.at
  BY <1>1 DEF CycleClosed, Serving, InfractionsInv, AboutTo
<1>3. /\ book'.closes = book.closes \cup {row} /\ book'.instant = book.instant
      /\ book'.rules = book.rules /\ book'.cases = book.cases
      /\ book'.stages = book.stages /\ BookShape'
  BY <1>1 DEF CycleClosed, InfractionsInv, BookTyped, BookShape
<1>4. \A v \in Workers : req'[v] = IF v = w THEN IdleReq ELSE req[v]
  BY DEF CycleClosed, Answer, Ask, InfractionsInv, BookTyped
<1>5. BookTyped'
  BY <1>3, <1>4 DEF InfractionsInv, BookTyped, CycleClosed, Answer, Ask
<1>6. Open' = Open /\ \A r : Registered(r) => Registered(r)'
  BY <1>3 DEF Registered, Articles, Open
<1>7. \A v \in Workers : AboutTo(v, req[v])'
  <2> SUFFICES ASSUME NEW v \in Workers, v # w PROVE AboutTo(v, req[v])'
    BY <1>4 DEF AboutTo, IdleReq
  <2> PICK r : r = req[v] /\ r = req'[v]
    BY <1>4
  <2>1. AboutTo(v, r)
    BY DEF InfractionsInv
  <2>2. AboutTo(v, r)'
    BY <1>3, <1>6, <2>1 DEF AboutTo, Articles
  <2> QED
    BY <2>2
<1>8. InfractionsInv'
  BY <1>3, <1>5, <1>6, <1>7 DEF InfractionsInv
<1>9. OfferedStep
  <2> SUFFICES ASSUME NEW d \in Open, \A x \in book'.closes \ book.closes : x.by = book.cases[d].by
               PROVE  LadderIndex(d)' >= LadderIndex(d)
    BY DEF OfferedStep
  <2>1. ClosesOf(d)' \subseteq ClosesOf(d)
    <3>1. CASE row \in book.closes
      BY <1>3, <3>1 DEF ClosesOf
    <3>2. CASE row \notin book.closes
      <4>1. book.cases[d].at < row.at /\ book.cases[d].at \in Nat
        BY <1>2, <1>3, <3>2 DEF InfractionsInv, Registered
      <4>2. ~(row.at <= book.cases[d].at)
        BY <1>2, <4>1
      <4> QED
        BY <1>3, <4>2 DEF ClosesOf
    <3> QED
      BY <3>1, <3>2
  <2>2. Len(book.stages[d]) \in Nat
    BY DEF InfractionsInv, BookTyped, Listed, Open
  <2>3. Counted(d) \subseteq Counted(d)'
    BY <1>3, <1>6, <2>1, CountedKept
  <2> QED
    BY <1>3, <1>8, <2>2, <2>3, LadderClimbs
<1> QED
  BY <1>8, <1>9

LEMMA InfractionsStep ==
    InfractionsInv /\ [InfractionsNext]_<<book, req>> => InfractionsInv' /\ OfferedStep
<1> SUFFICES ASSUME InfractionsInv, [InfractionsNext]_<<book, req>>
             PROVE  InfractionsInv' /\ OfferedStep
  OBVIOUS
<1>1. BookTyped /\ BookShape
  BY DEF InfractionsInv, BookTyped
<1>2. ASSUME NEW w \in Workers, CreateRule(w)
      PROVE  InfractionsInv' /\ OfferedStep
  <2>1. PICK r \in Rules, n \in Windows, on \in BOOLEAN :
          book' = [book EXCEPT !.rules[r] =
             [active |-> on, window |-> n, ladder |-> <<>>, written |-> 0]]
    BY <1>2 DEF CreateRule, Articles
  <2>2. PICK rule : rule = [active |-> on, window |-> n, ladder |-> <<>>, written |-> 0]
    OBVIOUS
  <2>3. RuleRow(rule)
    BY <2>2 DEF RuleRow
  <2>4. /\ book'.rules = [book.rules EXCEPT ![r] = rule] /\ BookShape'
        /\ book'.instant = book.instant /\ book'.cases = book.cases
        /\ book'.stages = book.stages /\ book'.closes = book.closes
    BY <1>1, <2>1, <2>2 DEF BookShape
  <2> QED
    BY <1>1, <1>2, <2>3, <2>4, RulesRewritten DEF CreateRule, BookTyped
<1>3. ASSUME NEW w \in Workers, UpdateRule(w) \/ DeactivateRule(w)
      PROVE  InfractionsInv' /\ OfferedStep
  <2>1. PICK r \in Articles :
          \/ \E n \in Windows : book' = [book EXCEPT !.rules[r].window = n]
          \/ \E on \in BOOLEAN : book' = [book EXCEPT !.rules[r].active = on]
    BY <1>3 DEF UpdateRule, DeactivateRule
  <2>2. r \in Rules /\ RuleRow(book.rules[r])
    BY <1>1 DEF Articles, BookTyped
  <2>3. PICK old : old = book.rules[r]
    OBVIOUS
  <2>4. PICK rule : /\ RuleRow(rule)
                    /\ book' = [book EXCEPT !.rules[r] = rule]
    <3>1. \A n : RuleRow([old EXCEPT !.window = n]) /\ RuleRow([old EXCEPT !.active = n])
      <4> PICK a, n, l, k : old = [active |-> a, window |-> n, ladder |-> l, written |-> k]
        BY <2>2, <2>3, Zenon DEF RuleRow
      <4> QED
        BY DEF RuleRow
    <3> QED
      BY <2>1, <2>3, <3>1
  <2>5. /\ book'.rules = [book.rules EXCEPT ![r] = rule] /\ BookShape'
        /\ book'.instant = book.instant /\ book'.cases = book.cases
        /\ book'.stages = book.stages /\ book'.closes = book.closes
    BY <1>1, <2>4 DEF BookShape
  <2> QED
    BY <1>1, <1>3, <2>4, <2>5, RulesRewritten DEF UpdateRule, DeactivateRule, BookTyped
<1>4. ASSUME NEW w \in Workers, WritePolicy(w)
      PROVE  InfractionsInv' /\ OfferedStep
  <2>1. PICK r \in Articles, ladder \in Ladders :
          Ask(w, [op |-> "policy", rule |-> r, ladder |-> ladder,
                  written |-> book.rules[r].written])
    BY <1>4 DEF WritePolicy
  <2>2. PICK q : q = [op |-> "policy", rule |-> r, ladder |-> ladder,
                      written |-> book.rules[r].written]
    OBVIOUS
  <2>3. AboutTo(w, q)' /\ UNCHANGED book
    BY <1>4, <2>2 DEF AboutTo, WritePolicy, Articles
  <2> QED
    BY <2>1, <2>2, <2>3, OnlyAsked
<1>5. ASSUME NEW w \in Workers, PolicyWritten(w)
      PROVE  InfractionsInv' /\ OfferedStep
  <2>1. PICK r, ladder : r = req[w].rule /\ ladder = req[w].ladder
    OBVIOUS
  <2>2. r \in Rules /\ RuleRow(book.rules[r])
    BY <1>1, <1>5, <2>1
       DEF PolicyWritten, Serving, InfractionsInv, AboutTo, Articles, BookTyped
  <2>3. PICK old, rule : /\ old = book.rules[r]
                         /\ rule = [old EXCEPT !.ladder = ladder, !.written = @ + 1]
    OBVIOUS
  <2>4. RuleRow(rule)
    <3> PICK a, n, l, k : old = [active |-> a, window |-> n, ladder |-> l, written |-> k]
      BY <2>2, <2>3, Zenon DEF RuleRow
    <3> QED
      BY <2>3 DEF RuleRow
  <2>5. \/ UNCHANGED book
        \/ book' = [book EXCEPT !.rules[r] = rule]
    BY <1>1, <1>5, <2>1, <2>2, <2>3 DEF PolicyWritten, BookTyped, BookShape, RuleRow
  <2>6. /\ book'.rules = book.rules \/ book'.rules = [book.rules EXCEPT ![r] = rule]
        /\ BookShape'
        /\ book'.instant = book.instant /\ book'.cases = book.cases
        /\ book'.stages = book.stages /\ book'.closes = book.closes
    BY <1>1, <2>5 DEF BookShape
  <2>7. Ask(w, IdleReq) /\ AboutTo(w, IdleReq)'
    BY <1>5 DEF PolicyWritten, Answer, AboutTo, IdleReq
  <2> QED
    BY <1>1, <2>4, <2>6, <2>7, RulesRewritten DEF BookTyped
<1>6. ASSUME NEW w \in Workers, WriteSettings(w) \/ Contested(w)
      PROVE  InfractionsInv' /\ OfferedStep
  <2>1. /\ BookShape' /\ book'.rules = book.rules
        /\ book'.instant = book.instant /\ book'.cases = book.cases
        /\ book'.stages = book.stages /\ book'.closes = book.closes
    BY <1>1, <1>6 DEF WriteSettings, Contested, BookShape
  <2>2. req' = req \/ (Ask(w, IdleReq) /\ AboutTo(w, IdleReq)')
    BY <1>6 DEF WriteSettings, Contested, Answer, AboutTo, IdleReq
  <2> QED
    BY <1>1, <2>1, <2>2, RulesRewritten DEF BookTyped
<1>7. ASSUME NEW w \in Workers, Register(w)
      PROVE  InfractionsInv' /\ OfferedStep
  <2>1. PICK r \in Articles, who \in Offenders, on \in Days :
          Ask(w, [op |-> "register", row |-> [rule |-> r, who |-> who,
              lot |-> HomeOf[who], on |-> on, at |-> book.instant, by |-> w]])
    BY <1>7 DEF Register
  <2>2. PICK row : row = [rule |-> r, who |-> who, lot |-> HomeOf[who], on |-> on,
                          at |-> book.instant, by |-> w]
    OBVIOUS
  <2>3. PICK q : q = [op |-> "register", row |-> row]
    OBVIOUS
  <2>4. CaseRow(row) /\ row.rule \in Articles /\ row.by = w /\ row.at = book.instant
    BY <2>2 DEF CaseRow
  <2>5. book'.rules = book.rules /\ book'.instant = book.instant + 1
    BY <1>1, <1>7 DEF Register, Stamp, BookShape
  <2>6. Registered(row)'
    BY <1>1, <2>4, <2>5 DEF Registered, Articles, BookTyped
  <2>7. AboutTo(w, q)'
    BY <2>3, <2>4, <2>6 DEF AboutTo
  <2> QED
    BY <1>7, <2>1, <2>2, <2>3, <2>7, OnlyAsked DEF Register
<1>8. ASSUME NEW w \in Workers, AddStage(w)
      PROVE  InfractionsInv' /\ OfferedStep
  <2> PICK c \in Open : \E q :
          /\ q.op = "stage" /\ q.case = c /\ q.row.seen = Applied(c) /\ q.row.by = w
          /\ Ask(w, q)
    BY <1>8 DEF AddStage
  <2>1. PICK q :
          /\ q.op = "stage" /\ q.case = c /\ q.row.seen = Applied(c) /\ q.row.by = w
          /\ Ask(w, q)
    OBVIOUS
  <2>2. c \in Cases /\ Len(book.stages[c]) \in Nat /\ Decided(book.stages[c])
    BY <1>1 DEF Open, InfractionsInv, BookTyped, Listed
  <2>3. book'.stages = book.stages
    BY <1>1, <1>8 DEF AddStage, Stamp, BookShape
  <2>4. AboutTo(w, q)'
    BY <2>1, <2>2, <2>3 DEF AboutTo, Applied, Decided
  <2> QED
    BY <1>8, <2>1, <2>4, OnlyAsked DEF AddStage
<1>9. ASSUME NEW w \in Workers, Contest(w)
      PROVE  InfractionsInv' /\ OfferedStep
  <2>1. PICK c, at : Ask(w, [op |-> "plea", row |-> [case |-> c, at |-> at]])
    BY <1>9 DEF Contest
  <2>2. PICK q : q = [op |-> "plea", row |-> [case |-> c, at |-> at]]
    OBVIOUS
  <2>3. AboutTo(w, q)'
    BY <2>2 DEF AboutTo
  <2> QED
    BY <1>9, <2>1, <2>2, <2>3, OnlyAsked DEF Contest
<1>10. ASSUME NEW w \in Workers, CloseCycle(w)
       PROVE  InfractionsInv' /\ OfferedStep
  <2>1. PICK r \in Articles, who \in Offenders :
          Ask(w, [op |-> "close", row |->
             [rule |-> r, who |-> who, at |-> book.instant, by |-> w]])
    BY <1>10 DEF CloseCycle
  <2>2. PICK q : q = [op |-> "close", row |->
                        [rule |-> r, who |-> who, at |-> book.instant, by |-> w]]
    OBVIOUS
  <2>3. book'.cases = book.cases /\ book'.instant = book.instant + 1
    BY <1>1, <1>10 DEF CloseCycle, Stamp, BookShape
  <2>4. \A c \in Open' : book'.cases[c].at < book.instant
    BY <2>3 DEF InfractionsInv, Registered, Open
  <2>5. AboutTo(w, q)'
    BY <1>1, <2>2, <2>3, <2>4 DEF AboutTo, BookTyped
  <2> QED
    BY <1>10, <2>1, <2>2, <2>5, OnlyAsked DEF CloseCycle
<1>11. ASSUME NEW w \in Workers, InfractionsCrash(w)
       PROVE  InfractionsInv' /\ OfferedStep
  <2>1. AboutTo(w, IdleReq)'
    BY DEF AboutTo, IdleReq
  <2> QED
    BY <1>11, <2>1, OnlyAsked DEF InfractionsCrash, Dies, Answer
<1>12. ASSUME NextDay \/ UNCHANGED <<book, req>>
       PROVE  InfractionsInv' /\ OfferedStep
  <2>1. /\ BookShape' /\ book'.rules = book.rules /\ req' = req
        /\ book'.instant = book.instant /\ book'.cases = book.cases
        /\ book'.stages = book.stages /\ book'.closes = book.closes
    BY <1>1, <1>12 DEF NextDay, BookShape
  <2>2. BookTyped' /\ Articles \subseteq Articles' /\ book'.instant >= book.instant
    BY <1>1, <2>1 DEF BookTyped, Articles
  <2> QED
    BY <2>1, <2>2, NothingRecorded
<1> QED
  BY <1>2, <1>3, <1>4, <1>5, <1>6, <1>7, <1>8, <1>9, <1>10, <1>11, <1>12,
     CaseHolds, StageHolds, CloseHolds DEF InfractionsNext

(* For any residents, rules, ladders and workers, and however requests     *)
(* overlap: the stages one worker adds to a process were decided on ever   *)
(* longer histories.                                                       *)
THEOREM SuggestionAnsweredOnce == InfractionsSpec => []SameSuggestionOnlyByRace
<1>1. InfractionsInv => SameSuggestionOnlyByRace
  <2> SUFFICES ASSUME InfractionsInv, NEW c \in Open,
                      NEW i \in DOMAIN book.stages[c], NEW j \in DOMAIN book.stages[c],
                      i < j, book.stages[c][i].by = book.stages[c][j].by
               PROVE  book.stages[c][i].seen # book.stages[c][j].seen
    BY DEF SameSuggestionOnlyByRace
  <2> PICK line : line = book.stages[c]
    OBVIOUS
  <2>1. Len(line) \in Nat /\ line = [k \in 1 .. Len(line) |-> line[k]]
    BY DEF InfractionsInv, BookTyped, Listed, Open
  <2>2. Decided(line)
    BY DEF InfractionsInv, Open
  <2>3. DOMAIN line = 1 .. Len(line)
    BY <2>1, Zenon
  <2>4. /\ i \in 1 .. Len(line) /\ j \in 1 .. Len(line)
        /\ line[i].by = line[j].by
    BY <2>3
  <2>5. /\ line[i].seen \in Nat /\ line[j].seen \in Nat
        /\ line[i].seen < line[j].seen
    BY <2>2, <2>4 DEF Decided
  <2> QED
    BY <2>5
<1> QED
  BY <1>1, InfractionsStart, InfractionsStep, PTL DEF InfractionsSpec

(* For any residents, rules, ladders and workers: no step offers a process *)
(* an earlier place on the ladder, unless its window changes or the close  *)
(* of another worker is committed.                                         *)
THEOREM LadderOnlyClimbed == InfractionsSpec => OfferedLessOnlyByRace
<1>1. InfractionsInv /\ [InfractionsNext]_<<book, req>> => [OfferedStep]_book
  BY InfractionsStep
<1> QED
  BY <1>1, InfractionsStart, InfractionsStep, PTL
     DEF InfractionsSpec, OfferedLessOnlyByRace, OfferedStep
=============================================================================
