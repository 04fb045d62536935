--------------------------- MODULE AssemblyModes ---------------------------
(* One assembly for TLC, in one of two ways: requests that overlap on a    *)
(* small assembly without minutes, or requests one after the other on a    *)
(* larger one with them.                                                   *)
EXTENDS MCAssembly

ASSUME ServerAssumption == w1 \in Workers

VARIABLE serial

(* Its states name no paper but p1.  They are taken to be the same only by *)
(* permutations that leave it alone.                                       *)
Small == INSTANCE Assembly WITH Papers <- OnePaper, MaxMinutes <- 0

modeVars == <<vars, serial>>

ModeInit == serial \in BOOLEAN /\ Init

OneAfterTheOther ==
    \/ \E v \in Votes : Elapse(v)
    \/ Agenda(w1) \/ Closing(w1) \/ Filing(w1) \/ Stop(w1)

ModeNext == (IF serial THEN OneAfterTheOther ELSE Small!Next) /\ UNCHANGED serial

ModeSpec == ModeInit /\ [][ModeNext]_modeVars

(* One request at a time: the frozen result of a vote has a counter for    *)
(* each of its options and for no other, and every unit that voted is in   *)
(* them.  The two tests of update_vote, across the two commits of every    *)
(* edit.                                                                   *)
ResultsCoverOptions == serial => ResultCoversOptions

(* One request at a time: what the minutes say of a vote is its frozen     *)
(* result, they leave out no vote but those created after the closing, and *)
(* all of them are in one folder.                                          *)
MinutesTellAll == serial => MinutesTellResults /\ OneFolder
=============================================================================
