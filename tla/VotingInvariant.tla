-------------------------- MODULE VotingInvariant --------------------------
(* The inductive invariants behind the safety properties of a vote.  The   *)
(* argument for the lot lock: a request remembers (seen) the rows of its   *)
(* key it read; the last of them was a retraction or a ballot of the same  *)
(* user; and its row is dated after all of them.  So whatever row directly *)
(* precedes it and belongs to somebody else was not among those it read.   *)
EXTENDS Voting

(* No two rows share an id.                                                *)
UniqueIds(rows) == \A b, c \in rows : b.id = c.id => b = c

(* A key with rows has a last one.                                         *)
HasLast(rows, k) ==
    RowsOf(rows, k) = {}
    \/ \E l \in RowsOf(rows, k) :
          \A c \in RowsOf(rows, k) : c = l \/ Before(c, l)

(* The rows read are rows of the key.                                      *)
SeenRows(rows, k, seen) == \A i \in seen : \E p \in rows : p.id = i /\ p.key = k

(* The last row read leaves the ballot to u.                               *)
OwnOrFree(rows, u, seen) ==
    seen = {}
    \/ \E l \in rows :
          /\ l.id \in seen
          /\ l.retraction \/ l.voter = u
          /\ \A p \in rows : p.id \in seen => p = l \/ Before(p, l)

(* Every row read is older than t.                                         *)
SawBefore(rows, seen, t) == \A p \in rows : p.id \in seen => p.at < t

RequestInv ==
    \A w \in Workers :
        /\ req[w].op \in {"checked", "stamped"} =>
              /\ SeenRows(ballots, req[w].key, req[w].seen)
              /\ OwnOrFree(ballots, req[w].voter, req[w].seen)
        /\ req[w].op = "stamped" => SawBefore(ballots, req[w].seen, req[w].at)

RowInv ==
    \A b \in ballots :
        /\ SeenRows(ballots, b.key, b.seen)
        /\ OwnOrFree(ballots, b.voter, b.seen)
        /\ SawBefore(ballots, b.seen, b.at)

(* What a casting request has read binds it until it commits, and binds    *)
(* its row ever after, however requests overlap: the lot lock and the      *)
(* dating of rows, put so that every step preserves it.                    *)
RaceInv ==
    /\ UniqueIds(ballots)
    /\ \A k \in Keys : HasLast(ballots, k)
    /\ RequestInv
    /\ RowInv

(* A closing request without a tally of its own found one stored.          *)
FreezeInv ==
    /\ ClosedIffFrozen
    /\ \A w \in Workers :
          req[w].op = "freezing" =>
             /\ req[w].tally = {} => snapshot # {}
             /\ \A s, t \in req[w].tally : s = t
-----------------------------------------------------------------------------
(* One request at a time: what a request decided by still holds when it    *)
(* commits, since only the clock moves meanwhile.                          *)
Alone == \A v, w \in Workers : v = w

(* What the check of a casting request established, and did not change.    *)
StillAllowed(r) ==
    /\ snapshot = {}
    /\ HoldersOf(ballots, r.key) \subseteq {r.voter}
    /\ r.retraction <=> r.choice = {}
    /\ r.retraction => HoldersOf(ballots, r.key) = {r.voter}
    /\ ~r.retraction => r.key \notin delinquent /\ MayVoteFor(r.voter, r.key)

SerialRequests ==
    \A w \in Workers :
        /\ req[w].op \in {"checked", "stamped"} => StillAllowed(req[w])
        /\ req[w].op = "stamped" =>
              \A c \in RowsOf(ballots, req[w].key) : c.at < req[w].at
        /\ req[w].op = "freezing" /\ req[w].tally # {} =>
              snapshot = {} /\ req[w].tally = {CurrentTally}

(* A row without a choice is a retraction.                                 *)
ChoicesGiven == \A b \in ballots : b.retraction <=> b.choice = {}

SerialInv == ChoicesGiven /\ SerialRequests
=============================================================================
