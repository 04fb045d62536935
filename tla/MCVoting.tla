----------------------------- MODULE MCVoting ------------------------------
(* Instances of the voting service for TLC: one worker serves requests one *)
(* after the other, two let them overlap.                                  *)
EXTENDS VotingBox, VotingInvariant, TLC

CONSTANTS u1, u2, l1, l2, o1, o2, w1, w2

TwoUsers == {u1, u2}
OneLot == {l1}
TwoLots == {l1, l2}
TwoOptions == {o1, o2}
OneOption == {o1}
OneWorker == {w1}
TwoWorkers == {w1, w2}
TwoIds == 1 .. 2
ThreeIds == 1 .. 3
FourIds == 1 .. 4

Interchangeable ==
    Permutations(TwoUsers) \cup Permutations(TwoWorkers)
        \cup Permutations(TwoLots) \cup Permutations(TwoOptions)

(* One lot with one owner; the other user is an extra voter of it.         *)
OverlapInit == Init /\ Cardinality(extras) = 1
OverlapSpec == OverlapInit /\ [][Next]_vars
=============================================================================
