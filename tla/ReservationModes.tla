-------------------------- MODULE ReservationModes --------------------------
(* The bookings for TLC, in one of two ways: requests that overlap on one  *)
(* space, made by staff, or requests of staff and of a resident one after  *)
(* the other on two spaces.                                                *)
EXTENDS MCReservations

VARIABLE serial

(* Its states name no space but s1.  They are taken to be the same only by *)
(* permutations that leave it alone.                                       *)
Small == INSTANCE Reservations WITH Spaces <- OneSpace, Users <- OneUser

modeVars == <<vars, serial>>

ModeInit == serial \in BOOLEAN /\ IF serial THEN Init ELSE Small!Init

ModeNext ==
    (IF serial THEN Tick \/ Serve(w1) ELSE Small!Next) /\ UNCHANGED serial

ModeSpec == ModeInit /\ [][ModeNext]_modeVars
=============================================================================
