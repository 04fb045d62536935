------------------------------ MODULE Ballots ------------------------------
(* How APRAS reads the state of a vote from its ballot rows.  A ballot is  *)
(* never updated or deleted: a change of mind and a retraction are further *)
(* rows for the same voter key, and every reader goes through the last row *)
(* of a key.  The operators are those of the "ballot reading helpers" of   *)
(* backend/app/services/voting_service.py; a row is a record with at least *)
(* the fields id, key, voter, retraction, choice and at (cast_at).         *)
EXTENDS Naturals, FiniteSets

(* The order of the rows: by cast_at, the random row id breaking a tie.    *)
Before(a, b) == a.at < b.at \/ (a.at = b.at /\ a.id < b.id)

RowsOf(rows, k) == {b \in rows : b.key = k}

(* The last row of a voter key: a set of one row, or of none.              *)
LatestOf(rows, k) ==
    {b \in RowsOf(rows, k) : \A c \in RowsOf(rows, k) : ~Before(b, c)}

(* Who holds the ballot of the key: one user, or nobody when the key has   *)
(* no row or its last row is a retraction.                                 *)
HoldersOf(rows, k) ==
    {b.voter : b \in {r \in LatestOf(rows, k) : ~r.retraction}}

(* A mistake a property must notice: a retraction counted as a ballot.     *)
LastRows(rows) == {b \in rows : b \in LatestOf(rows, b.key)}

(* The ballots a count goes through.                                       *)
ActiveBallots(rows) ==
    {b \in rows : ~b.retraction /\ b \in LatestOf(rows, b.key)}

(* The tally: how many keys voted, and how many of them chose each option. *)
(* activeLots is the denominator of an assembly (0 for a poll).            *)
Tally(rows, options, activeLots) ==
    [voters    |-> Cardinality(ActiveBallots(rows)),
     counts    |-> [o \in options |->
                       Cardinality({b \in ActiveBallots(rows) : o \in b.choice})],
     totalLots |-> activeLots]
=============================================================================
