------------------------------ MODULE Voting -------------------------------
(* One vote of APRAS, from its first ballot to its frozen result: casting, *)
(* changing and retracting ballots, the four ways the vote is closed, and  *)
(* the edits of lots, links and roles that decide who may vote meanwhile.  *)
(*                                                                         *)
(* The backend runs one request per worker, each in its own PostgreSQL     *)
(* transaction at READ COMMITTED and without row locks, so a request reads *)
(* committed state, decides, and commits later.  req[w] is what the        *)
(* request of worker w has read and decided so far; every other variable   *)
(* is committed state.  With one worker requests run one after the other.  *)
(*                                                                         *)
(* Bounds: MaxTime (the clock), MaxEdits (administrative edits) and        *)
(* RowIds (ballot rows).                                                   *)
EXTENDS Ballots

CONSTANTS
    Users, Lots, Options, Workers,
    Kind,               \* "ASSEMBLEIA" or "ENQUETE"
    SingleChoice,       \* vote_type = SINGLE_CHOICE
    OpensAt, ClosesAt,  \* the window of the vote
    RowIds,             \* random row ids, as numbers: only their order counts
    MaxTime, MaxEdits

ASSUME VotingAssumption ==
    /\ Kind \in {"ASSEMBLEIA", "ENQUETE"}
    /\ SingleChoice \in BOOLEAN
    /\ OpensAt \in Nat /\ ClosesAt \in Nat
    /\ MaxTime \in Nat /\ MaxEdits \in Nat
    /\ RowIds \subseteq Nat
    /\ IsFiniteSet(Lots) /\ IsFiniteSet(RowIds)

VARIABLES
    now,         \* the server clock
    status,      \* vote.status
    snapshot,    \* vote.tally_snapshot_json: {} or the set of one tally
    assembly,    \* status of the assembly the vote belongs to
    ballots,     \* the ballot rows
    barred,      \* lots with a DELINQUENT_LOT row in ballot_rejection
    link,        \* association of a user to a lot (UserLotLink)
    extras,      \* LotVoterEligibility rows
    delinquent,  \* lots with is_delinquent
    deleted,     \* lots with is_deleted
    granted,     \* voting permissions of the users
    edits,       \* administrative edits so far (bounded by MaxEdits)
    req          \* the request each worker is serving

registry == <<barred, link, extras, delinquent, deleted, granted, edits>>
vars == <<now, status, snapshot, assembly, ballots, registry, req>>

Associations == {"NONE", "PROPRIETARIO", "INQUILINO"}
VotePermissions == {"votes:cast", "votes:retract"}

(* A ballot belongs to the unit in an assembly and to the person in a poll. *)
Keys == IF Kind = "ASSEMBLEIA" THEN Lots ELSE Users
KeysFor(u) == IF Kind = "ASSEMBLEIA" THEN Lots ELSE {u}

(* What _validate_selection and the body schema let through.               *)
Selections ==
    {s \in SUBSET Options : s # {} /\ (SingleChoice => \A a, b \in s : a = b)}

(* A row; seen is auxiliary: the rows of the key its request had read when *)
(* it checked who holds the ballot.                                        *)
Ballot ==
    [id : RowIds, key : Keys, voter : Users, retraction : BOOLEAN,
     choice : SUBSET Options, at : Nat, seen : SUBSET RowIds]

Tallies == [voters : Nat, counts : [Options -> Nat], totalLots : Nat]

IdleReq == [op |-> "idle"]
CheckedReq ==
    [op : {"checked"}, key : Keys, voter : Users, retraction : BOOLEAN,
     choice : SUBSET Options, seen : SUBSET RowIds]
StampedReq ==
    [op : {"stamped"}, key : Keys, voter : Users, retraction : BOOLEAN,
     choice : SUBSET Options, seen : SUBSET RowIds, at : Nat]
FreezeReq == [op : {"freezing"}, cascade : BOOLEAN, tally : SUBSET Tallies]
CascadeReq == [op |-> "cascaded"]
PatchReq == [op : {"patching"}, to : {"DRAFT", "OPEN"}]
Requests ==
    {IdleReq, CascadeReq} \cup CheckedReq \cup StampedReq \cup FreezeReq
        \cup PatchReq

Free(w) == req[w] = IdleReq
Idle(w) == req' = [req EXCEPT ![w] = IdleReq]
-----------------------------------------------------------------------------
(* Who may vote.                                                           *)

ActiveLots == Lots \ deleted

(* get_lot_eligible_user_ids: owners and the extra voters of the lot.      *)
EligibleUsers(l) ==
    {u \in Users : link[<<l, u>>] = "PROPRIETARIO" \/ <<l, u>> \in extras}

HasLotLink(u) == \E l \in Lots : link[<<l, u>>] # "NONE"

(* A mistake a property must notice: the window goes by the clock alone.   *)
WindowByClock == OpensAt <= now /\ now < ClosesAt

WindowOpen ==
    /\ status = "OPEN" /\ OpensAt <= now /\ now < ClosesAt
    /\ Kind = "ASSEMBLEIA" => assembly = "OPEN"

MayVoteFor(u, k) ==
    IF Kind = "ASSEMBLEIA" THEN k \notin deleted /\ u \in EligibleUsers(k)
                           ELSE HasLotLink(u)

(* Mistakes: no lot lock; delinquency not looked at; anybody retracts.     *)
CanCastOverHolder(u, k) ==
    /\ WindowOpen /\ <<u, "votes:cast">> \in granted
    /\ MayVoteFor(u, k) /\ k \notin delinquent

CanCastInArrears(u, k) ==
    /\ WindowOpen /\ <<u, "votes:cast">> \in granted
    /\ MayVoteFor(u, k) /\ HoldersOf(ballots, k) \subseteq {u}

CanRetractAnyones(u, k) ==
    /\ WindowOpen /\ <<u, "votes:retract">> \in granted
    /\ HoldersOf(ballots, k) # {}

(* The chains of _assert_can_cast: casting, and withdrawing (3b and 4b).   *)
CanCast(u, k) ==
    /\ WindowOpen
    /\ <<u, "votes:cast">> \in granted
    /\ MayVoteFor(u, k)
    /\ k \notin delinquent
    /\ HoldersOf(ballots, k) \subseteq {u}

CanRetract(u, k) ==
    /\ WindowOpen
    /\ <<u, "votes:retract">> \in granted
    /\ HoldersOf(ballots, k) = {u}
-----------------------------------------------------------------------------
Init ==
    /\ now = 0
    /\ status = "OPEN" /\ snapshot = {}
    /\ assembly = "OPEN"
    /\ ballots = {} /\ barred = {}
    /\ \E owners \in SUBSET Users :
          /\ link = [p \in Lots \X Users |->
                      IF p[2] \in owners THEN "PROPRIETARIO" ELSE "NONE"]
          /\ extras = Lots \X (Users \ owners)
    /\ delinquent = {} /\ deleted = {}
    /\ granted = Users \X VotePermissions
    /\ edits = 0
    /\ req = [w \in Workers |-> IdleReq]

Tick ==
    /\ now < MaxTime
    /\ now' = now + 1
    /\ UNCHANGED <<status, snapshot, assembly, ballots, registry, req>>

(* cast_ballot, first part: the selection is valid and every check of the  *)
(* chain passes.                                                           *)
Check(w, u, k, retract, choice) ==
    /\ Free(w)
    /\ IF retract THEN CanRetract(u, k) ELSE CanCast(u, k)
    /\ req' = [req EXCEPT ![w] =
                 [op |-> "checked", key |-> k, voter |-> u,
                  retraction |-> retract, choice |-> choice,
                  seen |-> {b.id : b \in RowsOf(ballots, k)}]]
    /\ UNCHANGED <<now, status, snapshot, assembly, ballots, registry>>

CastCheck(w) ==
    \E u \in Users : \E k \in KeysFor(u), s \in Selections :
        Check(w, u, k, FALSE, s)

RetractCheck(w) ==
    \E u \in Users : \E k \in KeysFor(u) : Check(w, u, k, TRUE, {})

(* A refusal for delinquency is committed before the request fails, so the *)
(* minutes can explain the missing unit.  The other refusals write audit   *)
(* rows that no code reads.                                                *)
CastBarred(w) ==
    /\ Free(w)
    /\ \E u \in Users : \E k \in KeysFor(u) \cap delinquent :
          /\ WindowOpen
          /\ <<u, "votes:cast">> \in granted
          /\ MayVoteFor(u, k)
          /\ barred' = barred \cup {k}
    /\ UNCHANGED <<now, status, snapshot, assembly, ballots, link, extras,
                   delinquent, deleted, granted, edits, req>>

(* A mistake: the clock alone dates a row.                                 *)
CastAtNow(k) == {now}

(* _next_cast_at reads the last row of the key again: the clock, or just   *)
(* after that row when the clock has not passed it.                        *)
NextCastAt(k) ==
    {t \in {now} \cup {b.at + 1 : b \in LatestOf(ballots, k)} :
        t >= now /\ \A b \in LatestOf(ballots, k) : b.at < t}

Stamp(w) ==
    /\ req[w].op = "checked"
    /\ \E t \in NextCastAt(req[w].key) :
          req' = [req EXCEPT ![w] =
                    [op |-> "stamped", key |-> req[w].key,
                     voter |-> req[w].voter,
                     retraction |-> req[w].retraction,
                     choice |-> req[w].choice, seen |-> req[w].seen,
                     at |-> t]]
    /\ UNCHANGED <<now, status, snapshot, assembly, ballots, registry>>

(* The row a stamped request inserts under a row id.                       *)
NewRow(r, i) ==
    [id |-> i, key |-> r.key, voter |-> r.voter, retraction |-> r.retraction,
     choice |-> r.choice, at |-> r.at, seen |-> r.seen]

UnusedIds == RowIds \ {b.id : b \in ballots}

AppendRow(w) ==
    /\ req[w].op = "stamped"
    /\ \E i \in UnusedIds : ballots' = ballots \cup {NewRow(req[w], i)}
    /\ Idle(w)
    /\ UNCHANGED <<now, status, snapshot, assembly, registry>>
-----------------------------------------------------------------------------
(* Closing.  Every way of closing goes through materialize_snapshot.       *)

CurrentTally ==
    Tally(ballots, Options,
          IF Kind = "ASSEMBLEIA" THEN Cardinality(ActiveLots) ELSE 0)

(* A mistake: every close counts again.                                    *)
MaterializeAgain(w, cascade) ==
    /\ Free(w)
    /\ req' = [req EXCEPT ![w] =
                 [op |-> "freezing", cascade |-> cascade,
                  tally |-> {CurrentTally}]]
    /\ UNCHANGED <<now, status, snapshot, assembly, ballots, registry>>

(* materialize_snapshot, up to its commit: a tally is computed only when   *)
(* the row read has none.                                                  *)
Materialize(w, cascade) ==
    /\ Free(w)
    /\ req' = [req EXCEPT ![w] =
                 [op |-> "freezing", cascade |-> cascade,
                  tally |-> IF snapshot = {} THEN {CurrentTally} ELSE {}]]
    /\ UNCHANGED <<now, status, snapshot, assembly, ballots, registry>>

CloseVote(w) == status = "OPEN" /\ Materialize(w, FALSE)

(* The first read past the end of the window closes the vote.              *)
LazyClose(w) == status = "OPEN" /\ now >= ClosesAt /\ Materialize(w, FALSE)

CloseAssembly(w) ==
    Kind = "ASSEMBLEIA" /\ assembly # "CLOSED" /\ Materialize(w, TRUE)

(* A mistake: the status is committed without the tally.                   *)
FreezeStatusOnly(w) ==
    /\ req[w].op = "freezing"
    /\ status' = "CLOSED"
    /\ req' = [req EXCEPT ![w] = IF req[w].cascade THEN CascadeReq ELSE IdleReq]
    /\ UNCHANGED <<now, snapshot, assembly, ballots, registry>>

Freeze(w) ==
    /\ req[w].op = "freezing"
    /\ snapshot' = IF req[w].tally = {} THEN snapshot ELSE req[w].tally
    /\ status' = "CLOSED"
    /\ req' = [req EXCEPT ![w] = IF req[w].cascade THEN CascadeReq ELSE IdleReq]
    /\ UNCHANGED <<now, assembly, ballots, registry>>

(* The second commit of close_assembly.                                    *)
AssemblyClosed(w) ==
    /\ req[w].op = "cascaded"
    /\ assembly' = "CLOSED"
    /\ Idle(w)
    /\ UNCHANGED <<now, status, snapshot, ballots, registry>>

(* update_assembly: a draft is opened, or an open assembly taken back.  An *)
(* assembly read as CLOSED is refused; the status is written only when it  *)
(* differs from the one read.                                              *)
PatchAssembly(w) ==
    /\ Free(w) /\ Kind = "ASSEMBLEIA" /\ assembly # "CLOSED"
    /\ edits < MaxEdits /\ edits' = edits + 1
    /\ \E s \in {"DRAFT", "OPEN"} \ {assembly} :
          req' = [req EXCEPT ![w] = [op |-> "patching", to |-> s]]
    /\ UNCHANGED <<now, status, snapshot, assembly, ballots, barred, link,
                   extras, delinquent, deleted, granted>>

AssemblyPatched(w) ==
    /\ req[w].op = "patching"
    /\ assembly' = req[w].to
    /\ Idle(w)
    /\ UNCHANGED <<now, status, snapshot, ballots, registry>>

(* A request dies with its worker: the open transaction is rolled back.    *)
Crash(w) ==
    /\ ~Free(w)
    /\ Idle(w)
    /\ UNCHANGED <<now, status, snapshot, assembly, ballots, registry>>
-----------------------------------------------------------------------------
(* Administrative edits, each one short request of its own.                *)

Edit(w) ==
    /\ Free(w)
    /\ edits < MaxEdits /\ edits' = edits + 1
    /\ UNCHANGED <<now, status, snapshot, assembly, ballots, barred, req>>

LinkUser(w) ==
    /\ Edit(w)
    /\ \E l \in ActiveLots, u \in Users, a \in Associations \ {"NONE"} :
          /\ link[<<l, u>>] = "NONE"
          /\ link' = [link EXCEPT ![<<l, u>>] = a]
    /\ UNCHANGED <<extras, delinquent, deleted, granted>>

(* unlink_user, or the end date of the link passing.                       *)
UnlinkUser(w) ==
    /\ Edit(w)
    /\ \E p \in DOMAIN link :
          /\ link[p] # "NONE"
          /\ link' = [link EXCEPT ![p] = "NONE"]
    /\ UNCHANGED <<extras, delinquent, deleted, granted>>

AddExtraVoter(w) ==
    /\ Edit(w)
    /\ \E l \in ActiveLots, u \in Users :
          /\ <<l, u>> \notin extras
          /\ extras' = extras \cup {<<l, u>>}
    /\ UNCHANGED <<link, delinquent, deleted, granted>>

RemoveExtraVoter(w) ==
    /\ Edit(w)
    /\ \E p \in extras : extras' = extras \ {p}
    /\ UNCHANGED <<link, delinquent, deleted, granted>>

SetDelinquency(w) ==
    /\ Edit(w)
    /\ \E l \in ActiveLots :
          delinquent' = IF l \in delinquent THEN delinquent \ {l}
                                            ELSE delinquent \cup {l}
    /\ UNCHANGED <<link, extras, deleted, granted>>

DeleteLot(w) ==
    /\ Edit(w)
    /\ \E l \in ActiveLots : deleted' = deleted \cup {l}
    /\ UNCHANGED <<link, extras, delinquent, granted>>

(* The roles of a user change, and with them what the user may do.         *)
ChangeRoles(w) ==
    /\ Edit(w)
    /\ \E u \in Users, ps \in SUBSET VotePermissions :
          granted' = {g \in granted : g[1] # u} \cup ({u} \X ps)
    /\ UNCHANGED <<link, extras, delinquent, deleted>>
-----------------------------------------------------------------------------
Administer(w) ==
    \/ LinkUser(w) \/ UnlinkUser(w)
    \/ AddExtraVoter(w) \/ RemoveExtraVoter(w)
    \/ SetDelinquency(w) \/ DeleteLot(w) \/ ChangeRoles(w)

Serve(w) ==
    \/ CastCheck(w) \/ RetractCheck(w) \/ CastBarred(w)
    \/ Stamp(w) \/ AppendRow(w)
    \/ CloseVote(w) \/ LazyClose(w) \/ CloseAssembly(w)
    \/ Freeze(w) \/ AssemblyClosed(w)
    \/ PatchAssembly(w) \/ AssemblyPatched(w) \/ Crash(w)

Next == Tick \/ \E w \in Workers : Serve(w) \/ Administer(w)

Spec == Init /\ [][Next]_vars
-----------------------------------------------------------------------------
(* Properties.                                                             *)

(* Every variable has its type.                                            *)
TypeOK ==
    /\ now \in Nat
    /\ status \in {"OPEN", "CLOSED"}
    /\ snapshot \in SUBSET Tallies
    /\ assembly \in {"DRAFT", "OPEN", "CLOSED"}
    /\ ballots \subseteq Ballot /\ IsFiniteSet(ballots)
    /\ barred \subseteq Lots
    /\ link \in [Lots \X Users -> Associations]
    /\ extras \subseteq Lots \X Users
    /\ delinquent \subseteq Lots /\ deleted \subseteq Lots
    /\ granted \subseteq Users \X VotePermissions
    /\ edits \in Nat
    /\ req \in [Workers -> Requests]

(* p is the row just before b in the history of their key.                 *)
DirectlyFollows(p, b) ==
    /\ p.key = b.key /\ Before(p, b)
    /\ ~ \E c \in RowsOf(ballots, b.key) : Before(p, c) /\ Before(c, b)

(* b took over a ballot that another user was holding.                     *)
Overwrites(b, p) ==
    DirectlyFollows(p, b) /\ ~p.retraction /\ p.voter # b.voter

(* A second voter, or a retraction by someone else, replaces an active     *)
(* ballot of a key only in a race: the replaced ballot was not there yet   *)
(* when the checks of the request that replaced it ran.  This is what the  *)
(* per-lot lock of _assert_can_cast_assembly, the holder check of          *)
(* retractions and the cast_at rule of _next_cast_at are worth together.   *)
OverwriteOnlyByRace ==
    \A b, p \in ballots : Overwrites(b, p) => p.id \notin b.seen

(* The lot lock as get_active_ballot_holder states it: a second eligible   *)
(* voter never overwrites an active ballot.                                *)
NeverOverwritten == \A b, p \in ballots : ~Overwrites(b, p)

(* A vote is CLOSED exactly when its tally is frozen, so no reader of a    *)
(* closed vote finds it without a result.                                  *)
ClosedIffFrozen ==
    /\ status = "CLOSED" <=> snapshot # {}
    /\ \A s, t \in snapshot : s = t

(* No request that overlapped the closing of the vote is still running.    *)
Settled ==
    /\ status = "CLOSED"
    /\ \A w \in Workers :
          /\ req[w].op \notin {"checked", "stamped"}
          /\ req[w].op = "freezing" => req[w].tally = {}

(* Once the vote is closed and the requests that overlapped its closing    *)
(* are over, the result and the ballots never change again, whatever       *)
(* requests come: the status check of casting and the test for an existing *)
(* snapshot in materialize_snapshot.                                       *)
ResultSettles ==
    [][Settled => Settled' /\ UNCHANGED <<snapshot, ballots>>]_vars

(* "Freeze the tally once": a stored tally is never written again.         *)
FrozenOnce == [][snapshot # {} => UNCHANGED snapshot]_vars

(* Of a step with one worker: a ballot that counts is accepted only while  *)
(* its lot is in good standing and its voter entitled to it.               *)
EntitledStep ==
    \A b \in ballots' \ ballots :
        b.retraction \/ (b.key \notin delinquent /\ MayVoteFor(b.voter, b.key))
=============================================================================
