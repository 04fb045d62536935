----------------------------- MODULE MCAssembly -----------------------------
(* Instances of an assembly for TLC.                                        *)
EXTENDS Assembly, TLC

CONSTANTS v1, v2, l1, l2, p1, p2, p3, f1, f2, w1, w2

OneVote == {v1}
TwoVotes == {v1, v2}
OneLot == {l1}
OnePaper == {p1}
TwoLots == {l1, l2}
TwoPapers == {p1, p2}
ThreePapers == {p1, p2, p3}
TwoFolders == {f1, f2}
OneWorker == {w1}
TwoWorkers == {w1, w2}

Interchangeable ==
    Permutations(TwoVotes) \cup Permutations(TwoLots)
        \cup Permutations(ThreePapers) \cup Permutations(TwoFolders)
        \cup Permutations(TwoWorkers)
=============================================================================
