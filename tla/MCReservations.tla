--------------------------- MODULE MCReservations ---------------------------
(* Instances of the space bookings for TLC.                                *)
EXTENDS Reservations, TLC

CONSTANTS i1, i2, i3, s1, s2, u1, u2, w1, w2

ThreeRows == {i1, i2, i3}
OneSpace == {s1}
TwoSpaces == {s1, s2}
OneUser == {u1}
TwoUsers == {u1, u2}
TwoWorkers == {w1, w2}
ThreeTimes == 0 .. 2

Interchangeable ==
    Permutations(ThreeRows) \cup Permutations(TwoSpaces)
        \cup Permutations(TwoWorkers)
=============================================================================
