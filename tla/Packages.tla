------------------------------ MODULE Packages ------------------------------
(* Packages waiting at the gate (package_service).  Bound: Parcels, the    *)
(* row ids.                                                                *)
EXTENDS Requests

CONSTANTS
    Parcels, Doors,     \* row ids; lots
    Callers,            \* who may come for one
    QueueReaders,       \* users with packages:queue_read
    LinkedTo            \* user -> the lots of its links and residents

VARIABLE parcels        \* Package: id -> row or NoParcel

NoParcel == [status |-> "none"]
(* by is auxiliary: the worker that recorded the pickup.                   *)
Parcel == [status : {"AWAITING_PICKUP"}, lot : Doors]
    \cup [status : {"PICKED_UP"}, lot : Doors, to : Callers, by : Workers]

Arrived == {p \in Parcels : parcels[p] # NoParcel}
Taken(p) == parcels[p].status = "PICKED_UP"

PackagesInit == parcels = [p \in Parcels |-> NoParcel]

(* _assert_lot_access.                                                     *)
MayTake(u, p) == u \in QueueReaders \/ parcels[p].lot \in LinkedTo[u]

(* create_package.                                                         *)
Receive(w) ==
    /\ Free(w) /\ QueueReaders # {}
    /\ \E p \in Parcels \ Arrived, d \in Doors :
          parcels' = [parcels EXCEPT ![p] = [status |-> "AWAITING_PICKUP", lot |-> d]]
    /\ UNCHANGED req

(* A mistake: whoever comes is recorded.                                   *)
PickUpAgain(w) ==
    /\ Free(w)
    /\ \E p \in Arrived, u \in Callers :
          MayTake(u, p) /\ Ask(w, [op |-> "pickup", parcel |-> p, to |-> u])
    /\ UNCHANGED parcels

(* mark_picked_up, up to its commit, and the commit.                       *)
PickUp(w) ==
    /\ Free(w)
    /\ \E p \in Arrived, u \in Callers :
          /\ MayTake(u, p) /\ ~Taken(p)
          /\ Ask(w, [op |-> "pickup", parcel |-> p, to |-> u])
    /\ UNCHANGED parcels

PickedUp(w) ==
    /\ Serving(w, "pickup")
    /\ parcels' = [parcels EXCEPT ![req[w].parcel] =
          [status |-> "PICKED_UP", lot |-> @.lot, to |-> req[w].to, by |-> w]]
    /\ Answer(w)

PackagesCrash(w) == Dies(w) /\ UNCHANGED parcels

PackagesNext == \E w \in Workers :
    Receive(w) \/ PickUp(w) \/ PickedUp(w) \/ PackagesCrash(w)

PackagesSpec == PackagesInit /\ NoRequest /\ [][PackagesNext]_<<parcels, req>>
-----------------------------------------------------------------------------
(* "Terminal, one-way transition": what was recorded of a pickup is        *)
(* overwritten only by a pickup of another worker that overlapped it, and  *)
(* the package never waits again.                                          *)
TakenOnce ==
    [][\A p \in Arrived : Taken(p) /\ parcels'[p] # parcels[p]
          => parcels'[p].status = "PICKED_UP" /\ parcels'[p].by # parcels[p].by]_parcels
=============================================================================
