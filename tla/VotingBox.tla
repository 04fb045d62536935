----------------------------- MODULE VotingBox -----------------------------
(* The voting service read as a ballot box: the last word on a key is its  *)
(* last row, and the announced result is the frozen tally.                 *)
EXTENDS Voting

Word(k) ==
    {[voter |-> b.voter, choice |-> b.choice] : b \in LatestOf(ballots, k)}

Result == {[voters |-> t.voters, counts |-> t.counts] : t \in snapshot}

Box == INSTANCE BallotBox WITH
    word   <- [k \in Keys |-> Word(k)],
    result <- Result
=============================================================================
