------------------------- MODULE ReservationsProofs -------------------------
(* The spaces are double-booked only by requests on different workers,     *)
(* whatever the bookings, spaces, users and number of workers; with one    *)
(* worker, never.                                                          *)
EXTENDS Reservations, TLAPS

(* The row a request is about to confirm, and the id it leaves out of the  *)
(* conflict check: what it read still binds the worker, because every      *)
(* confirmation since then was another worker's.                           *)
RequestsApart ==
    \A w \in Workers :
        /\ (req[w].op = "booking" /\ req[w].row.status = "CONFIRMED") =>
              \A c \in Confirmed :
                 Overlap(req[w].row, bookings[c]) => confirmer[c] # {w}
        /\ (req[w].op = "deciding" /\ req[w].to = "CONFIRMED") =>
              /\ req[w].id \in Rows
              /\ \A c \in Confirmed \ {req[w].id} :
                    Overlap(bookings[req[w].id], bookings[c])
                       => confirmer[c] # {w}

(* Somebody confirmed every confirmed row.                                 *)
ConfirmedBySome ==
    \A c \in Confirmed : \E w \in Workers : confirmer[c] = {w}

(* Requests only decide or cancel rows that exist; rows stay.              *)
TargetsExist ==
    \A w \in Workers :
        req[w].op \in {"deciding", "cancelling"} => req[w].id \in Rows

ReservationsInv ==
    /\ RequestsApart
    /\ ConfirmedBySome
    /\ TargetsExist
    /\ DoubleBookedOnlyByRace
-----------------------------------------------------------------------------
(* A request record has the fields its op promises.                        *)
LEMMA RequestShape ==
    ASSUME NEW r \in Requests
    PROVE  /\ r.op = "booking" => r \in BookReq
           /\ r.op = "deciding" => r \in DecideReq
           /\ r.op = "cancelling" => r \in CancelReq
<1>1. r = IdleReq => r.op = "idle"
  BY DEF IdleReq
<1>2. /\ r \in BookReq => r.op = "booking"
      /\ r \in DecideReq => r.op = "deciding"
      /\ r \in CancelReq => r.op = "cancelling"
  BY DEF BookReq, DecideReq, CancelReq
<1> QED
  BY <1>1, <1>2 DEF Requests

(* A row that is there is a Row.                                           *)
LEMMA RowsTyped ==
    ASSUME TypeOK
    PROVE  /\ \A i \in Rows : bookings[i] \in Row
           /\ Confirmed \subseteq Rows
           /\ \A i \in Ids : bookings[i] \in Row => i \in Rows
<1>1. \A i \in Rows : bookings[i] \in Row
  BY DEF TypeOK, Rows
<1>2. Confirmed \subseteq Rows
  BY DEF Confirmed, Rows, NoRow
<1>3. \A r \in Row : r.status \in Statuses
  BY DEF Row
<1>4. NoRow \notin Row
  BY <1>3 DEF NoRow, Statuses
<1> QED
  BY <1>1, <1>2, <1>4 DEF Rows

(* Writing a status leaves the window and the space of the row alone.      *)
LEMMA StatusWrite ==
    ASSUME TypeOK, NEW i \in Rows, NEW st \in Statuses,
           bookings' = [bookings EXCEPT ![i].status = st]
    PROVE  /\ bookings' \in [Ids -> Row \cup {NoRow}]
           /\ \A j \in Ids : j # i => bookings'[j] = bookings[j]
           /\ bookings'[i] \in Row
           /\ bookings'[i].status = st
           /\ \A r : /\ Overlap(bookings'[i], r) <=> Overlap(bookings[i], r)
                     /\ Overlap(r, bookings'[i]) <=> Overlap(r, bookings[i])
<1>1. bookings[i] \in Row /\ i \in Ids
  BY RowsTyped DEF Rows
<1>2. bookings'[i] = [bookings[i] EXCEPT !.status = st]
  BY <1>1 DEF TypeOK
<1>3. /\ bookings'[i] \in Row
      /\ bookings'[i].status = st
      /\ bookings'[i].space = bookings[i].space
      /\ bookings'[i].start = bookings[i].start
      /\ bookings'[i].end = bookings[i].end
  BY <1>1, <1>2 DEF Row
<1>4. \A j \in Ids : j # i => bookings'[j] = bookings[j]
  BY DEF TypeOK
<1>5. bookings' \in [Ids -> Row \cup {NoRow}]
  BY <1>1, <1>3 DEF TypeOK
<1> QED
  BY <1>3, <1>4, <1>5 DEF Overlap
-----------------------------------------------------------------------------
LEMMA TypeInit == Init => TypeOK
  BY ReservationsAssumption DEF Init, TypeOK, Requests

LEMMA TypeStep == TypeOK /\ ReservationsInv /\ [Next]_vars => TypeOK'
<1> SUFFICES ASSUME TypeOK, ReservationsInv, [Next]_vars PROVE TypeOK'
  OBVIOUS
<1> USE DEF spaces
<1>1. CASE UNCHANGED vars
  BY <1>1 DEF vars, TypeOK
<1>2. CASE Tick
  BY <1>2 DEF Tick, TypeOK
<1>3. ASSUME NEW w \in Workers, Ask(w)
      PROVE  TypeOK'
  <2>1. PICK r \in Row : req' = [req EXCEPT ![w] = [op |-> "booking", row |-> r]]
    BY <1>3 DEF Ask, Row, Statuses, TypeOK
  <2>2. req' \in [Workers -> Requests]
    BY <2>1 DEF TypeOK, Requests, BookReq
  <2> QED
    BY <1>3, <2>2 DEF Ask, TypeOK
<1>4. ASSUME NEW w \in Workers, Book(w)
      PROVE  TypeOK'
  <2>1. req[w] \in BookReq
    BY <1>4, RequestShape DEF Book, TypeOK
  <2>2. req' \in [Workers -> Requests]
    BY <1>4 DEF Book, Idle, TypeOK, Requests
  <2> QED
    BY <1>4, <2>1, <2>2 DEF Book, BookReq, TypeOK
<1>5. ASSUME NEW w \in Workers, Decide(w)
      PROVE  TypeOK'
  <2>1. PICK i \in Rows, to \in {"CONFIRMED", "REJECTED"} :
           req' = [req EXCEPT ![w] =
                     [op |-> "deciding", id |-> i,
                      read |-> bookings[i].status, to |-> to]]
    BY <1>5 DEF Decide
  <2>2. bookings[i].status \in Statuses /\ i \in Ids
    BY RowsTyped DEF Row, Rows
  <2>3. req' \in [Workers -> Requests]
    BY <2>1, <2>2 DEF TypeOK, Requests, DecideReq
  <2> QED
    BY <1>5, <2>3 DEF Decide, TypeOK
<1>6. ASSUME NEW w \in Workers, Decided(w)
      PROVE  TypeOK'
  <2>1. req[w] \in DecideReq /\ req[w].id \in Rows
    BY <1>6, RequestShape DEF Decided, TypeOK, ReservationsInv, TargetsExist
  <2>2. bookings' \in [Ids -> Row \cup {NoRow}]
    <3>1. CASE req[w].read = req[w].to
      BY <1>6, <3>1 DEF Decided, TypeOK
    <3>2. CASE req[w].read # req[w].to
      BY <1>6, <2>1, <3>2, StatusWrite DEF Decided, DecideReq, Statuses
    <3> QED
      BY <3>1, <3>2
  <2>3. confirmer' \in [Ids -> SUBSET Workers]
    BY <1>6, <2>1 DEF Decided, TypeOK
  <2>4. req' \in [Workers -> Requests]
    BY <1>6 DEF Decided, Idle, TypeOK, Requests
  <2> QED
    BY <1>6, <2>2, <2>3, <2>4 DEF Decided, TypeOK
<1>7. ASSUME NEW w \in Workers, Cancel(w)
      PROVE  TypeOK'
  <2>1. req' \in [Workers -> Requests]
    BY <1>7 DEF Cancel, Rows, TypeOK, Requests, CancelReq
  <2> QED
    BY <1>7, <2>1 DEF Cancel, TypeOK
<1>8. ASSUME NEW w \in Workers, Cancelled(w)
      PROVE  TypeOK'
  <2>1. req[w] \in CancelReq /\ req[w].id \in Rows
    BY <1>8, RequestShape DEF Cancelled, TypeOK, ReservationsInv, TargetsExist
  <2>2. bookings' \in [Ids -> Row \cup {NoRow}]
    BY <1>8, <2>1, StatusWrite DEF Cancelled, Statuses
  <2>3. confirmer' \in [Ids -> SUBSET Workers]
    BY <1>8 DEF Cancelled, TypeOK
  <2>4. req' \in [Workers -> Requests]
    BY <1>8 DEF Cancelled, Idle, TypeOK, Requests
  <2> QED
    BY <1>8, <2>2, <2>3, <2>4 DEF Cancelled, TypeOK
<1>9. ASSUME NEW w \in Workers, UpdateSpace(w)
      PROVE  TypeOK'
  BY <1>9 DEF UpdateSpace, TypeOK
<1>10. ASSUME NEW w \in Workers, Crash(w)
       PROVE  TypeOK'
  <2>1. req' \in [Workers -> Requests]
    BY <1>10 DEF Crash, Idle, TypeOK, Requests
  <2> QED
    BY <1>10, <2>1 DEF Crash, TypeOK
<1> QED
  BY <1>1, <1>2, <1>3, <1>4, <1>5, <1>6, <1>7, <1>8, <1>9, <1>10
     DEF Next, Serve
-----------------------------------------------------------------------------
LEMMA InvInit == Init => ReservationsInv
  BY DEF Init, ReservationsInv, RequestsApart, ConfirmedBySome, TargetsExist,
         DoubleBookedOnlyByRace, Meeting, Confirmed, NoRow, IdleReq

(* A request that ends, or a row untouched, keeps the invariant.           *)
LEMMA Frame ==
    ASSUME TypeOK, ReservationsInv, UNCHANGED <<bookings, confirmer>>,
           \A v \in Workers : req'[v] = req[v] \/ req'[v] = IdleReq
    PROVE  ReservationsInv'
<1>1. UNCHANGED <<Rows, Confirmed>>
  BY DEF Rows, Confirmed
<1>2. TargetsExist'
  BY <1>1 DEF ReservationsInv, TargetsExist, IdleReq
<1>3. RequestsApart'
  BY <1>1 DEF ReservationsInv, RequestsApart, IdleReq
<1>4. ConfirmedBySome'
  BY <1>1 DEF ReservationsInv, ConfirmedBySome
<1>5. DoubleBookedOnlyByRace'
  BY <1>1 DEF ReservationsInv, DoubleBookedOnlyByRace, Meeting
<1> QED
  BY <1>2, <1>3, <1>4, <1>5 DEF ReservationsInv

(* Taking a confirmation away keeps the invariant.                         *)
LEMMA Unconfirm ==
    ASSUME TypeOK, ReservationsInv, NEW i \in Rows,
           NEW st \in Statuses, st # "CONFIRMED",
           bookings' = [bookings EXCEPT ![i].status = st],
           confirmer' = [confirmer EXCEPT ![i] = {}],
           \A v \in Workers : req'[v] = req[v] \/ req'[v] = IdleReq
    PROVE  ReservationsInv'
<1>0. i \in Ids
  BY DEF Rows
<1>1. /\ \A j \in Ids : j # i => bookings'[j] = bookings[j]
      /\ bookings'[i] \in Row
      /\ bookings'[i].status = st
      /\ \A r : Overlap(bookings'[i], r) <=> Overlap(bookings[i], r)
  BY StatusWrite
<1>2. \A j \in Ids : j # i => confirmer'[j] = confirmer[j]
  BY DEF TypeOK
<1>3. bookings'[i] # NoRow
  BY <1>1 DEF Row, Statuses, NoRow
<1>4. Rows' = Rows
  BY <1>0, <1>1, <1>3 DEF Rows
<1>5. Confirmed' = Confirmed \ {i}
  BY <1>0, <1>1 DEF Confirmed
<1>6. \A c \in Confirmed' : /\ bookings'[c] = bookings[c]
                            /\ confirmer'[c] = confirmer[c] /\ c \in Ids
  BY <1>1, <1>2, <1>5 DEF Confirmed
<1>7. \A j \in Ids : \A r : Overlap(bookings'[j], r) <=> Overlap(bookings[j], r)
  BY <1>1
<1>8. TargetsExist'
  BY <1>4 DEF ReservationsInv, TargetsExist, IdleReq
<1>9. RequestsApart'
  <2> SUFFICES ASSUME NEW v \in Workers
               PROVE  /\ (req'[v].op = "booking" /\ req'[v].row.status = "CONFIRMED") =>
                            \A c \in Confirmed' :
                               Overlap(req'[v].row, bookings'[c]) => confirmer'[c] # {v}
                      /\ (req'[v].op = "deciding" /\ req'[v].to = "CONFIRMED") =>
                            /\ req'[v].id \in Rows'
                            /\ \A c \in Confirmed' \ {req'[v].id} :
                                  Overlap(bookings'[req'[v].id], bookings'[c])
                                     => confirmer'[c] # {v}
    BY DEF RequestsApart
  <2>1. CASE req'[v] = IdleReq
    BY <2>1 DEF IdleReq
  <2>2. CASE req'[v] = req[v]
    BY <1>4, <1>5, <1>6, <1>7, <2>2 DEF ReservationsInv, RequestsApart, Rows
  <2> QED
    BY <2>1, <2>2
<1>10. ConfirmedBySome'
  BY <1>5, <1>6 DEF ReservationsInv, ConfirmedBySome
<1>11. DoubleBookedOnlyByRace'
  BY <1>5, <1>6 DEF ReservationsInv, DoubleBookedOnlyByRace, Meeting
<1> QED
  BY <1>8, <1>9, <1>10, <1>11 DEF ReservationsInv

(* A row a worker confirms keeps the invariant, provided none of its own   *)
(* confirmations meets the row.                                            *)
LEMMA Confirm ==
    ASSUME TypeOK, ReservationsInv, NEW w \in Workers, NEW i \in Ids,
           Rows' = Rows \cup {i}, Confirmed' = Confirmed \cup {i},
           \A j \in Ids : j # i => /\ bookings'[j] = bookings[j]
                                   /\ confirmer'[j] = confirmer[j],
           confirmer'[i] = {w},
           i \in Rows => \A r : Overlap(bookings'[i], r) <=> Overlap(bookings[i], r),
           \A c \in Confirmed \ {i} :
              Overlap(bookings'[i], bookings[c]) => confirmer[c] # {w},
           req'[w] = IdleReq,
           \A v \in Workers : v # w => req'[v] = req[v]
    PROVE  ReservationsInv'
<1>1. \A c \in Confirmed \ {i} : /\ bookings'[c] = bookings[c] /\ c \in Ids
                                 /\ confirmer'[c] = confirmer[c]
  BY DEF Confirmed
<1>2. TargetsExist'
  BY DEF ReservationsInv, TargetsExist, IdleReq
<1>3. RequestsApart'
  <2> SUFFICES ASSUME NEW v \in Workers
               PROVE  /\ (req'[v].op = "booking" /\ req'[v].row.status = "CONFIRMED") =>
                            \A c \in Confirmed' :
                               Overlap(req'[v].row, bookings'[c]) => confirmer'[c] # {v}
                      /\ (req'[v].op = "deciding" /\ req'[v].to = "CONFIRMED") =>
                            /\ req'[v].id \in Rows'
                            /\ \A c \in Confirmed' \ {req'[v].id} :
                                  Overlap(bookings'[req'[v].id], bookings'[c])
                                     => confirmer'[c] # {v}
    BY DEF RequestsApart
  <2>1. CASE v = w
    BY <2>1 DEF IdleReq
  <2>2. CASE v # w
    <3>1. req'[v] = req[v] /\ confirmer'[i] # {v}
      BY <2>2
    <3>2. ASSUME req[v].op = "booking", req[v].row.status = "CONFIRMED",
                 NEW c \in Confirmed', Overlap(req[v].row, bookings'[c])
          PROVE  confirmer'[c] # {v}
      BY <1>1, <3>1, <3>2 DEF ReservationsInv, RequestsApart
    <3>3. ASSUME req[v].op = "deciding", req[v].to = "CONFIRMED"
          PROVE  /\ req[v].id \in Rows'
                 /\ \A c \in Confirmed' \ {req[v].id} :
                       Overlap(bookings'[req[v].id], bookings'[c])
                          => confirmer'[c] # {v}
      <4>1. /\ req[v].id \in Rows /\ req[v].id \in Ids
            /\ \A c \in Confirmed \ {req[v].id} :
                  Overlap(bookings[req[v].id], bookings[c]) => confirmer[c] # {v}
        BY <3>3 DEF ReservationsInv, RequestsApart, Rows
      <4>2. \A r : Overlap(bookings'[req[v].id], r)
                      <=> Overlap(bookings[req[v].id], r)
        BY <4>1
      <4> QED
        BY <1>1, <3>1, <4>1, <4>2
    <3> QED
      BY <3>1, <3>2, <3>3
  <2> QED
    BY <2>1, <2>2
<1>4. ConfirmedBySome'
  BY <1>1 DEF ReservationsInv, ConfirmedBySome
<1>5. DoubleBookedOnlyByRace'
  <2> SUFFICES ASSUME NEW a \in Ids, NEW b \in Ids, Meeting(a, b)'
               PROVE  confirmer'[a] # confirmer'[b]
    BY DEF DoubleBookedOnlyByRace
  <2>1. /\ a # b /\ a \in Confirmed \cup {i} /\ b \in Confirmed \cup {i}
        /\ Overlap(bookings'[a], bookings'[b])
        /\ Overlap(bookings'[b], bookings'[a])
    BY DEF Meeting, Overlap
  <2>2. CASE a = i
    BY <1>1, <2>1, <2>2
  <2>3. CASE b = i
    BY <1>1, <2>1, <2>3
  <2>4. CASE a # i /\ b # i
    BY <1>1, <2>1, <2>4 DEF ReservationsInv, DoubleBookedOnlyByRace, Meeting
  <2> QED
    BY <2>2, <2>3, <2>4
<1> QED
  BY <1>2, <1>3, <1>4, <1>5 DEF ReservationsInv

LEMMA InvStep == TypeOK /\ ReservationsInv /\ [Next]_vars => ReservationsInv'
<1> SUFFICES ASSUME TypeOK, ReservationsInv, [Next]_vars PROVE ReservationsInv'
  OBVIOUS
<1> USE DEF spaces
<1>1. CASE UNCHANGED vars
  BY <1>1, Frame DEF vars
<1>2. CASE Tick
  BY <1>2, Frame DEF Tick
<1>3. ASSUME NEW w \in Workers, Ask(w)
      PROVE  ReservationsInv'
  <2>1. PICK r : /\ ~Conflict(r, Ids)
                 /\ req' = [req EXCEPT ![w] = [op |-> "booking", row |-> r]]
    BY <1>3 DEF Ask
  <2>2. UNCHANGED <<Rows, Confirmed, bookings, confirmer>>
    BY <1>3 DEF Ask, Rows, Confirmed
  <2>3. \A c \in Confirmed : ~Overlap(r, bookings[c])
    BY <2>1 DEF Conflict, Confirmed
  <2>4. /\ req'[w] = [op |-> "booking", row |-> r]
        /\ \A v \in Workers : v # w => req'[v] = req[v]
    BY <2>1 DEF TypeOK
  <2>5. TargetsExist'
    BY <2>2, <2>4 DEF ReservationsInv, TargetsExist
  <2>6. RequestsApart'
    BY <2>2, <2>3, <2>4 DEF ReservationsInv, RequestsApart
  <2> QED
    BY <2>2, <2>5, <2>6 DEF ReservationsInv, ConfirmedBySome,
                            DoubleBookedOnlyByRace, Meeting
<1>4. ASSUME NEW w \in Workers, Book(w)
      PROVE  ReservationsInv'
  <2>1. PICK i \in Ids \ Rows :
           /\ bookings' = [bookings EXCEPT ![i] = req[w].row]
           /\ confirmer' = [confirmer EXCEPT ![i] =
                 IF req[w].row.status = "CONFIRMED" THEN {w} ELSE {}]
    BY <1>4 DEF Book
  <2>2. req[w].row \in Row
    BY <1>4, RequestShape DEF Book, TypeOK, BookReq
  <2>3. /\ bookings'[i] = req[w].row
        /\ \A j \in Ids : j # i => /\ bookings'[j] = bookings[j]
                                   /\ confirmer'[j] = confirmer[j]
        /\ req'[w] = IdleReq
        /\ \A v \in Workers : v # w => req'[v] = req[v]
    BY <1>4, <2>1 DEF Book, Idle, TypeOK
  <2>4. i \notin Rows /\ i \notin Confirmed
    BY <2>1, RowsTyped
  <2>5. Rows' = Rows \cup {i}
    <3>1. bookings'[i] # NoRow
      BY <2>2, <2>3 DEF Row, Statuses, NoRow
    <3> QED
      BY <2>1, <2>3, <3>1 DEF Rows
  <2>6. CASE req[w].row.status = "CONFIRMED"
    <3>1. Confirmed' = Confirmed \cup {i}
      BY <2>1, <2>3, <2>6 DEF Confirmed
    <3>2. \A c \in Confirmed : Overlap(req[w].row, bookings[c]) => confirmer[c] # {w}
      BY <1>4, <2>6 DEF Book, ReservationsInv, RequestsApart
    <3>3. confirmer'[i] = {w}
      BY <2>1, <2>6 DEF TypeOK
    <3> QED
      BY <2>3, <2>4, <2>5, <3>1, <3>2, <3>3, Confirm
  <2>7. CASE req[w].row.status # "CONFIRMED"
    <3>1. Confirmed' = Confirmed
      BY <2>1, <2>3, <2>4, <2>7 DEF Confirmed
    <3>2. \A c \in Confirmed : /\ bookings'[c] = bookings[c]
                               /\ confirmer'[c] = confirmer[c] /\ c \in Ids
      BY <2>3, <2>4 DEF Confirmed
    <3>3. \A v \in Workers : req'[v] = req[v] \/ req'[v] = IdleReq
      BY <2>3
    <3>4. \A j \in Rows : bookings'[j] = bookings[j]
      BY <2>3, <2>4 DEF Rows
    <3>5. TargetsExist'
      BY <2>5, <3>3 DEF ReservationsInv, TargetsExist, IdleReq
    <3>6. RequestsApart'
      BY <2>5, <3>1, <3>2, <3>3, <3>4 DEF ReservationsInv, RequestsApart, IdleReq
    <3>7. ConfirmedBySome'
      BY <3>1, <3>2 DEF ReservationsInv, ConfirmedBySome
    <3>8. DoubleBookedOnlyByRace'
      BY <3>1, <3>2 DEF ReservationsInv, DoubleBookedOnlyByRace, Meeting
    <3> QED
      BY <3>5, <3>6, <3>7, <3>8 DEF ReservationsInv
  <2> QED
    BY <2>6, <2>7
<1>5. ASSUME NEW w \in Workers, Decide(w)
      PROVE  ReservationsInv'
  <2>1. PICK i \in Rows, to \in {"CONFIRMED", "REJECTED"} :
           /\ to = "CONFIRMED" => ~Conflict(bookings[i], Ids \ {i})
           /\ req' = [req EXCEPT ![w] =
                        [op |-> "deciding", id |-> i,
                         read |-> bookings[i].status, to |-> to]]
    BY <1>5 DEF Decide
  <2>2. UNCHANGED <<Rows, Confirmed, bookings, confirmer>>
    BY <1>5 DEF Decide, Rows, Confirmed
  <2>3. to = "CONFIRMED" =>
           \A c \in Confirmed \ {i} : ~Overlap(bookings[i], bookings[c])
    BY <2>1 DEF Conflict, Confirmed
  <2>4. /\ req'[w].op = "deciding" /\ req'[w].id = i /\ req'[w].to = to
        /\ \A v \in Workers : v # w => req'[v] = req[v]
    BY <2>1 DEF TypeOK
  <2>5. TargetsExist'
    BY <2>1, <2>2, <2>4 DEF ReservationsInv, TargetsExist
  <2>6. RequestsApart'
    BY <2>1, <2>2, <2>3, <2>4 DEF ReservationsInv, RequestsApart
  <2> QED
    BY <2>2, <2>5, <2>6 DEF ReservationsInv, ConfirmedBySome,
                            DoubleBookedOnlyByRace, Meeting
<1>6. ASSUME NEW w \in Workers, Decided(w)
      PROVE  ReservationsInv'
  <2> DEFINE i == req[w].id
  <2>1. req[w] \in DecideReq /\ i \in Rows /\ i \in Ids
    BY <1>6, RequestShape DEF Decided, TypeOK, ReservationsInv, TargetsExist, Rows
  <2>2. /\ req'[w] = IdleReq
        /\ \A v \in Workers : v # w => req'[v] = req[v]
    BY <1>6 DEF Decided, Idle, TypeOK
  <2>3. CASE req[w].read = req[w].to
    BY <1>6, <2>2, <2>3, Frame DEF Decided
  <2>4. CASE req[w].read # req[w].to /\ req[w].to = "REJECTED"
    <3>1. /\ bookings' = [bookings EXCEPT ![i].status = "REJECTED"]
          /\ confirmer' = [confirmer EXCEPT ![i] = {}]
      BY <1>6, <2>4 DEF Decided
    <3> HIDE DEF i
    <3> QED
      BY <2>1, <2>2, <3>1, Unconfirm DEF Statuses
  <2>5. CASE req[w].read # req[w].to /\ req[w].to = "CONFIRMED"
    <3>1. /\ bookings' = [bookings EXCEPT ![i].status = "CONFIRMED"]
          /\ confirmer' = [confirmer EXCEPT ![i] = {w}]
      BY <1>6, <2>5 DEF Decided
    <3>2. \A c \in Confirmed \ {i} :
             Overlap(bookings[i], bookings[c]) => confirmer[c] # {w}
      BY <1>6, <2>5 DEF Decided, ReservationsInv, RequestsApart
    <3> HIDE DEF i
    <3>3. /\ \A j \in Ids : j # i => bookings'[j] = bookings[j]
          /\ bookings'[i] \in Row
          /\ bookings'[i].status = "CONFIRMED"
          /\ \A r : Overlap(bookings'[i], r) <=> Overlap(bookings[i], r)
      BY <2>1, <3>1, StatusWrite DEF Statuses
    <3>4. confirmer'[i] = {w} /\ \A j \in Ids : j # i => confirmer'[j] = confirmer[j]
      BY <2>1, <3>1 DEF TypeOK
    <3>5. Confirmed' = Confirmed \cup {i}
      BY <2>1, <3>3 DEF Confirmed
    <3>6. Rows' = Rows \cup {i}
      <4>1. bookings'[i] # NoRow
        BY <3>3 DEF NoRow
      <4> QED
        BY <2>1, <3>3, <4>1 DEF Rows
    <3> QED
      BY <2>1, <2>2, <3>2, <3>3, <3>4, <3>5, <3>6, Confirm
  <2> QED
    BY <2>1, <2>3, <2>4, <2>5 DEF DecideReq
<1>7. ASSUME NEW w \in Workers, Cancel(w)
      PROVE  ReservationsInv'
  <2>1. PICK i \in Rows : req' = [req EXCEPT ![w] = [op |-> "cancelling", id |-> i]]
    BY <1>7 DEF Cancel
  <2>2. UNCHANGED <<Rows, Confirmed, bookings, confirmer>>
    BY <1>7 DEF Cancel, Rows, Confirmed
  <2>3. /\ req'[w].op = "cancelling" /\ req'[w].id = i
        /\ \A v \in Workers : v # w => req'[v] = req[v]
    BY <2>1 DEF TypeOK
  <2>4. TargetsExist'
    BY <2>1, <2>2, <2>3 DEF ReservationsInv, TargetsExist
  <2>5. RequestsApart'
    BY <2>2, <2>3 DEF ReservationsInv, RequestsApart
  <2> QED
    BY <2>2, <2>4, <2>5 DEF ReservationsInv, ConfirmedBySome,
                            DoubleBookedOnlyByRace, Meeting
<1>8. ASSUME NEW w \in Workers, Cancelled(w)
      PROVE  ReservationsInv'
  <2> DEFINE i == req[w].id
  <2>1. i \in Rows
    BY <1>8 DEF Cancelled, ReservationsInv, TargetsExist
  <2>2. /\ bookings' = [bookings EXCEPT ![i].status = "CANCELLED"]
        /\ confirmer' = [confirmer EXCEPT ![i] = {}]
        /\ \A v \in Workers : req'[v] = req[v] \/ req'[v] = IdleReq
    BY <1>8 DEF Cancelled, Idle, TypeOK
  <2> HIDE DEF i
  <2> QED
    BY <2>1, <2>2, Unconfirm DEF Statuses
<1>9. ASSUME NEW w \in Workers, UpdateSpace(w)
      PROVE  ReservationsInv'
  BY <1>9, Frame DEF UpdateSpace
<1>10. ASSUME NEW w \in Workers, Crash(w)
       PROVE  ReservationsInv'
  BY <1>10, Frame DEF Crash, Idle, TypeOK
<1> QED
  BY <1>1, <1>2, <1>3, <1>4, <1>5, <1>6, <1>7, <1>8, <1>9, <1>10
     DEF Next, Serve
-----------------------------------------------------------------------------
(* Every variable of the bookings keeps its type.                          *)
THEOREM TypeCorrect == Spec => []TypeOK
<1>1. Init => TypeOK /\ ReservationsInv
  BY TypeInit, InvInit
<1>2. TypeOK /\ ReservationsInv /\ [Next]_vars => (TypeOK /\ ReservationsInv)'
  BY TypeStep, InvStep
<1> QED
  BY <1>1, <1>2, PTL DEF Spec

(* Confirmed bookings of a space that meet were confirmed by requests on   *)
(* different workers.                                                      *)
THEOREM RacersOnly == Spec => [](ConfirmedBySome /\ DoubleBookedOnlyByRace)
<1>1. Init => TypeOK /\ ReservationsInv
  BY TypeInit, InvInit
<1>2. TypeOK /\ ReservationsInv /\ [Next]_vars => (TypeOK /\ ReservationsInv)'
  BY TypeStep, InvStep
<1>3. ReservationsInv => ConfirmedBySome /\ DoubleBookedOnlyByRace
  BY DEF ReservationsInv
<1> QED
  BY <1>1, <1>2, <1>3, PTL DEF Spec

(* Served one at a time, requests never double-book a space: creating,     *)
(* approving, cancelling and approving again in any order.                 *)
THEOREM OneAtATime ==
    ASSUME \A v, w \in Workers : v = w
    PROVE  Spec => []NoDoubleBooking
<1>1. ConfirmedBySome /\ DoubleBookedOnlyByRace => NoDoubleBooking
  BY DEF ConfirmedBySome, DoubleBookedOnlyByRace, NoDoubleBooking, Meeting
<1> QED
  BY <1>1, RacersOnly, PTL
=============================================================================
