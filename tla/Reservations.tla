---------------------------- MODULE Reservations ----------------------------
(* The bookings of shared spaces: requests, approvals, cancellations, and  *)
(* the edits of the spaces they are for.                                   *)
(*                                                                         *)
(* As in Voting, each worker serves one request at a time in a transaction *)
(* of its own at READ COMMITTED without row locks: it reads, decides, and  *)
(* commits in a later step.  req[w] is what the request of w has read.     *)
(*                                                                         *)
(* Bounds: MaxTime (the clock) and Ids (booking rows).                     *)
EXTENDS Naturals

CONSTANTS
    Ids,        \* row ids of SpaceReservation
    Spaces,
    Users,
    Staff,      \* users with reservations:approve and :reject
    Workers,
    Times,      \* the starts and ends a booking may have
    MaxTime

ASSUME ReservationsAssumption ==
    /\ Times \subseteq Nat /\ MaxTime \in Nat
    /\ Staff \subseteq Users

VARIABLES
    now,        \* the server clock
    active,     \* spaces with is_active
    approval,   \* spaces with requires_approval
    bookings,   \* the rows: id -> row, or NoRow
    confirmer,  \* auxiliary: who wrote CONFIRMED into the row last
    req         \* the request each worker is serving

spaces == <<active, approval>>
vars == <<now, spaces, bookings, confirmer, req>>

Statuses == {"PENDING", "CONFIRMED", "REJECTED", "CANCELLED"}
Blocking == {"PENDING", "CONFIRMED"}

NoRow == [status |-> "none"]
Row == [space : Spaces, owner : Users, start : Times, end : Times,
        status : Statuses]

IdleReq == [op |-> "idle"]
BookReq == [op : {"booking"}, row : Row]
DecideReq == [op : {"deciding"}, id : Ids, read : Statuses,
              to : {"CONFIRMED", "REJECTED"}]
CancelReq == [op : {"cancelling"}, id : Ids]
Requests == {IdleReq} \cup BookReq \cup DecideReq \cup CancelReq

Free(w) == req[w] = IdleReq
Idle(w) == req' = [req EXCEPT ![w] = IdleReq]

Rows == {i \in Ids : bookings[i] # NoRow}
Confirmed == {i \in Ids : bookings[i].status = "CONFIRMED"}

(* The half-open windows of two rows of one space meet.                    *)
Overlap(a, b) == a.space = b.space /\ a.start < b.end /\ b.start < a.end

(* check_conflict with statuses=[CONFIRMED], as every caller has it.       *)
Conflict(row, others) == \E c \in Confirmed \cap others : Overlap(row, bookings[c])
-----------------------------------------------------------------------------
Init ==
    /\ now = 0
    /\ active = Spaces
    /\ approval \in SUBSET Spaces
    /\ bookings = [i \in Ids |-> NoRow]
    /\ confirmer = [i \in Ids |-> {}]
    /\ req = [w \in Workers |-> IdleReq]

Tick ==
    /\ now < MaxTime
    /\ now' = now + 1
    /\ UNCHANGED <<spaces, bookings, confirmer, req>>

(* A mistake a property must notice: a request for a space without         *)
(* approval trusts the calendar of the client.                             *)
AskUnchecked(w) ==
    /\ Free(w)
    /\ \E s \in active, u \in Users, a, b \in Times :
          /\ a < b
          /\ req' = [req EXCEPT ![w] =
                       [op |-> "booking",
                        row |-> [space |-> s, owner |-> u, start |-> a,
                                 end |-> b,
                                 status |-> IF s \in approval THEN "PENDING"
                                                              ELSE "CONFIRMED"]]]
    /\ UNCHANGED <<now, spaces, bookings, confirmer>>

(* create_reservation, up to its commit: the space is active and nothing   *)
(* confirmed meets the window; bids for an approval may meet each other.   *)
Ask(w) ==
    /\ Free(w)
    /\ \E s \in active, u \in Users, a, b \in Times :
          LET row == [space |-> s, owner |-> u, start |-> a, end |-> b,
                      status |-> IF s \in approval THEN "PENDING"
                                                   ELSE "CONFIRMED"]
          IN /\ a < b
             /\ ~Conflict(row, Ids)
             /\ req' = [req EXCEPT ![w] = [op |-> "booking", row |-> row]]
    /\ UNCHANGED <<now, spaces, bookings, confirmer>>

Book(w) ==
    /\ req[w].op = "booking"
    /\ \E i \in Ids \ Rows :
          /\ bookings' = [bookings EXCEPT ![i] = req[w].row]
          /\ confirmer' = [confirmer EXCEPT ![i] =
                IF req[w].row.status = "CONFIRMED" THEN {w} ELSE {}]
    /\ Idle(w)
    /\ UNCHANGED <<now, spaces>>

(* A mistake: an approval does not look for conflicts again.               *)
DecideUnchecked(w) ==
    /\ Free(w) /\ Staff # {}
    /\ \E i \in Rows, to \in {"CONFIRMED", "REJECTED"} :
          req' = [req EXCEPT ![w] =
                    [op |-> "deciding", id |-> i,
                     read |-> bookings[i].status, to |-> to]]
    /\ UNCHANGED <<now, spaces, bookings, confirmer>>

(* decide_reservation, up to its commit.  It looks at no status of the row *)
(* itself; an approval runs the conflict check again, leaving the row out. *)
Decide(w) ==
    /\ Free(w) /\ Staff # {}
    /\ \E i \in Rows, to \in {"CONFIRMED", "REJECTED"} :
          /\ to = "CONFIRMED" => ~Conflict(bookings[i], Ids \ {i})
          /\ req' = [req EXCEPT ![w] =
                       [op |-> "deciding", id |-> i,
                        read |-> bookings[i].status, to |-> to]]
    /\ UNCHANGED <<now, spaces, bookings, confirmer>>

(* The commit writes the status only if it differs from the one read.      *)
Decided(w) ==
    /\ req[w].op = "deciding"
    /\ IF req[w].read = req[w].to
          THEN UNCHANGED <<bookings, confirmer>>
          ELSE /\ bookings' = [bookings EXCEPT ![req[w].id].status = req[w].to]
               /\ confirmer' = [confirmer EXCEPT ![req[w].id] =
                     IF req[w].to = "CONFIRMED" THEN {w} ELSE {}]
    /\ Idle(w)
    /\ UNCHANGED <<now, spaces>>

(* cancel_reservation: by the staff, or by the owner before the start.     *)
Cancel(w) ==
    /\ Free(w)
    /\ \E i \in Rows, u \in Users :
          /\ bookings[i].status \in Blocking
          /\ u \in Staff \/ (bookings[i].owner = u /\ now < bookings[i].start)
          /\ req' = [req EXCEPT ![w] = [op |-> "cancelling", id |-> i]]
    /\ UNCHANGED <<now, spaces, bookings, confirmer>>

Cancelled(w) ==
    /\ req[w].op = "cancelling"
    /\ bookings' = [bookings EXCEPT ![req[w].id].status = "CANCELLED"]
    /\ confirmer' = [confirmer EXCEPT ![req[w].id] = {}]
    /\ Idle(w)
    /\ UNCHANGED <<now, spaces>>

(* update_space, and deactivate_space: neither looks at the bookings.      *)
UpdateSpace(w) ==
    /\ Free(w)
    /\ active' \in SUBSET Spaces /\ approval' \in SUBSET Spaces
    /\ \E s \in Spaces : \A t \in Spaces \ {s} :
          (t \in active' <=> t \in active) /\ (t \in approval' <=> t \in approval)
    /\ UNCHANGED <<now, bookings, confirmer, req>>

(* The transaction of a request that dies is rolled back.                  *)
Crash(w) ==
    /\ ~Free(w)
    /\ Idle(w)
    /\ UNCHANGED <<now, spaces, bookings, confirmer>>

Serve(w) ==
    \/ Ask(w) \/ Book(w) \/ Decide(w) \/ Decided(w) \/ Cancel(w) \/ Cancelled(w)
    \/ UpdateSpace(w) \/ Crash(w)

Next == Tick \/ \E w \in Workers : Serve(w)

Spec == Init /\ [][Next]_vars
-----------------------------------------------------------------------------
(* Properties.                                                             *)

(* Every variable has its type.                                            *)
TypeOK ==
    /\ now \in Nat
    /\ active \subseteq Spaces /\ approval \subseteq Spaces
    /\ bookings \in [Ids -> Row \cup {NoRow}]
    /\ confirmer \in [Ids -> SUBSET Workers]
    /\ req \in [Workers -> Requests]

Meeting(a, b) ==
    a # b /\ a \in Confirmed /\ b \in Confirmed /\ Overlap(bookings[a], bookings[b])

(* No worker confirms two bookings that meet, however creating, approving, *)
(* cancelling and approving again interleave with other workers: so a      *)
(* space is double-booked by requests on different workers only, and no    *)
(* more bookings meet than there are workers.  The conflict check of       *)
(* create_reservation and the one repeated by an approval.                 *)
DoubleBookedOnlyByRace ==
    \A a, b \in Ids : Meeting(a, b) => confirmer[a] # confirmer[b]

(* What check_conflict is for, and gives with one worker: confirmed        *)
(* bookings of a space never meet.                                         *)
NoDoubleBooking == \A a, b \in Ids : ~Meeting(a, b)
=============================================================================
