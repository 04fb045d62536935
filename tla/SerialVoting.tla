---------------------------- MODULE SerialVoting ----------------------------
(* Requests served one after the other, for TLC: an assembly vote over two *)
(* units with two owners, or a multiple-choice poll of two people.         *)
EXTENDS MCVoting

VARIABLE poll

Poll == INSTANCE VotingBox WITH
    Kind <- "ENQUETE", SingleChoice <- FALSE,
    Lots <- OneLot, Options <- TwoOptions, MaxEdits <- 1

PollBox == INSTANCE BallotBox WITH
    Keys <- Users, Options <- TwoOptions,
    word <- [k \in Users |-> Poll!Word(k)],
    result <- Poll!Result

serialVars == <<vars, poll>>

(* Everybody owns every lot.                                               *)
SerialInit ==
    poll \in BOOLEAN /\ (IF poll THEN Poll!Init ELSE Init) /\ extras = {}
SerialNext == (IF poll THEN Poll!Next ELSE Next) /\ UNCHANGED poll
SerialSpec == SerialInit /\ [][SerialNext]_serialVars

(* A ballot that counts is accepted only while its lot is in good standing *)
(* and its voter entitled to it.                                           *)
EntitledWhenCast ==
    [][IF poll THEN Poll!EntitledStep ELSE EntitledStep]_serialVars

(* Casting, changing, withdrawing and closing are those of the ballot box: *)
(* the lot lock holds, a withdrawal frees the lot, the result counts       *)
(* exactly the ballots held, and nothing moves after it.                   *)
ImplementsBallotBox ==
    /\ IF poll THEN PollBox!Init ELSE Box!Init
    /\ [][IF poll THEN PollBox!Next \/ UNCHANGED PollBox!box
          ELSE Box!Next \/ UNCHANGED Box!box]_serialVars
=============================================================================
