---------------------------- MODULE VotingProofs ----------------------------
(* What holds of every vote, for any users, lots, options, workers and     *)
(* bounds: proofs of the invariants and the action property of Voting.     *)
EXTENDS VotingBox, VotingInvariant, FiniteSetTheorems, FunctionTheorems, TLAPS

(* A request record has the fields its op promises.                        *)
LEMMA RequestShape ==
    ASSUME NEW r \in Requests
    PROVE  /\ r.op = "idle" => r = IdleReq
           /\ r.op = "cascaded" => r = CascadeReq
           /\ r.op = "checked" => r \in CheckedReq
           /\ r.op = "stamped" => r \in StampedReq
           /\ r.op = "freezing" => r \in FreezeReq
           /\ r.op = "patching" => r \in PatchReq
<1>1. r = IdleReq => r.op = "idle"
  BY DEF IdleReq
<1>2. r = CascadeReq => r.op = "cascaded"
  BY DEF CascadeReq
<1>3. /\ r \in CheckedReq => r.op = "checked"
      /\ r \in StampedReq => r.op = "stamped"
      /\ r \in FreezeReq => r.op = "freezing"
      /\ r \in PatchReq => r.op = "patching"
  BY DEF CheckedReq, StampedReq, FreezeReq, PatchReq
<1> QED
  BY <1>1, <1>2, <1>3 DEF Requests

(* The tally of finitely many rows is a tally.                             *)
LEMMA TallyType ==
    ASSUME NEW S, IsFiniteSet(S), NEW n \in Nat
    PROVE  Tally(S, Options, n) \in Tallies
<1>1. /\ IsFiniteSet(ActiveBallots(S))
      /\ Cardinality(ActiveBallots(S)) \in Nat
  <2>1. ActiveBallots(S) \subseteq S
    BY DEF ActiveBallots
  <2> QED
    BY <2>1, FS_Subset, FS_CardinalityType
<1>2. ASSUME NEW o \in Options
      PROVE  Cardinality({b \in ActiveBallots(S) : o \in b.choice}) \in Nat
  <2>1. {b \in ActiveBallots(S) : o \in b.choice} \subseteq ActiveBallots(S)
    OBVIOUS
  <2> QED
    BY <1>1, <2>1, FS_Subset, FS_CardinalityType
<1> QED
  BY <1>1, <1>2 DEF Tally, Tallies

(* Whatever the state, closing counts to a tally.                          *)
LEMMA CurrentTallyType ==
    ASSUME TypeOK
    PROVE  CurrentTally \in Tallies
<1>1. Cardinality(ActiveLots) \in Nat
  <2>1. ActiveLots \subseteq Lots
    BY DEF ActiveLots
  <2> QED
    BY <2>1, VotingAssumption, FS_Subset, FS_CardinalityType
<1>2. (IF Kind = "ASSEMBLEIA" THEN Cardinality(ActiveLots) ELSE 0) \in Nat
  BY <1>1
<1> QED
  BY <1>2, TallyType DEF CurrentTally, TypeOK

(* The key a user may name is a key.                                       *)
LEMMA KeysForAreKeys == \A u \in Users : KeysFor(u) \subseteq Keys
  BY DEF KeysFor, Keys
-----------------------------------------------------------------------------
LEMMA TypeInit == Init => TypeOK
<1> SUFFICES ASSUME Init PROVE TypeOK
  OBVIOUS
<1>1. IsFiniteSet(ballots)
  BY FS_EmptySet DEF Init
<1>2. req \in [Workers -> Requests]
  BY DEF Init, Requests
<1> QED
  BY <1>1, <1>2, SMT DEF Init, TypeOK, Associations

LEMMA TypeStep == TypeOK /\ [Next]_vars => TypeOK'
<1> SUFFICES ASSUME TypeOK, [Next]_vars PROVE TypeOK'
  OBVIOUS
<1> USE DEF registry
<1>1. CASE UNCHANGED vars
  BY <1>1 DEF vars, TypeOK
<1>2. CASE Tick
  BY <1>2 DEF Tick, TypeOK
<1>3. ASSUME NEW w \in Workers, CastCheck(w) \/ RetractCheck(w)
      PROVE  TypeOK'
  <2>1. PICK u \in Users, k \in Keys, b \in BOOLEAN, s \in SUBSET Options :
           Check(w, u, k, b, s)
    BY <1>3, KeysForAreKeys DEF CastCheck, RetractCheck, Selections
  <2>2. {c.id : c \in RowsOf(ballots, k)} \subseteq RowIds
    BY DEF RowsOf, TypeOK, Ballot
  <2>3. req' \in [Workers -> Requests]
    BY <2>1, <2>2 DEF Check, TypeOK, Requests, CheckedReq
  <2> QED
    BY <2>1, <2>3 DEF Check, TypeOK
<1>4. ASSUME NEW w \in Workers, CastBarred(w)
      PROVE  TypeOK'
  <2>1. barred' \subseteq Lots
    BY <1>4 DEF CastBarred, TypeOK
  <2> QED
    BY <1>4, <2>1 DEF CastBarred, TypeOK
<1>5. ASSUME NEW w \in Workers, Stamp(w)
      PROVE  TypeOK'
  <2>1. req[w] \in CheckedReq
    BY <1>5, RequestShape DEF Stamp, TypeOK
  <2>2. PICK t \in NextCastAt(req[w].key) :
           req' = [req EXCEPT ![w] =
                     [op |-> "stamped", key |-> req[w].key,
                      voter |-> req[w].voter,
                      retraction |-> req[w].retraction,
                      choice |-> req[w].choice, seen |-> req[w].seen,
                      at |-> t]]
    BY <1>5 DEF Stamp
  <2>3. t \in Nat
    BY <2>2 DEF NextCastAt, LatestOf, RowsOf, TypeOK, Ballot
  <2>4. req' \in [Workers -> Requests]
    BY <2>1, <2>2, <2>3 DEF TypeOK, Requests, CheckedReq, StampedReq
  <2> QED
    BY <1>5, <2>4 DEF Stamp, TypeOK
<1>6. ASSUME NEW w \in Workers, AppendRow(w)
      PROVE  TypeOK'
  <2>1. req[w] \in StampedReq
    BY <1>6, RequestShape DEF AppendRow, TypeOK
  <2>2. PICK i \in UnusedIds : ballots' = ballots \cup {NewRow(req[w], i)}
    BY <1>6 DEF AppendRow
  <2>3. NewRow(req[w], i) \in Ballot
    BY <2>1, <2>2 DEF NewRow, StampedReq, Ballot, UnusedIds
  <2>4. ballots' \subseteq Ballot /\ IsFiniteSet(ballots')
    BY <2>2, <2>3, FS_AddElement DEF TypeOK
  <2>5. req' \in [Workers -> Requests]
    BY <1>6 DEF AppendRow, Idle, TypeOK, Requests
  <2> QED
    BY <1>6, <2>4, <2>5 DEF AppendRow, TypeOK
<1>7. ASSUME NEW w \in Workers, CloseVote(w) \/ LazyClose(w) \/ CloseAssembly(w)
      PROVE  TypeOK'
  <2>1. PICK b \in BOOLEAN : Materialize(w, b)
    BY <1>7 DEF CloseVote, LazyClose, CloseAssembly
  <2>2. req' \in [Workers -> Requests]
    BY <2>1, CurrentTallyType DEF Materialize, TypeOK, Requests, FreezeReq
  <2> QED
    BY <2>1, <2>2 DEF Materialize, TypeOK
<1>8. ASSUME NEW w \in Workers, Freeze(w)
      PROVE  TypeOK'
  <2>1. req[w] \in FreezeReq
    BY <1>8, RequestShape DEF Freeze, TypeOK
  <2>2. snapshot' \in SUBSET Tallies
    BY <1>8, <2>1 DEF Freeze, FreezeReq, TypeOK
  <2>3. req' \in [Workers -> Requests]
    BY <1>8 DEF Freeze, TypeOK, Requests
  <2> QED
    BY <1>8, <2>2, <2>3 DEF Freeze, TypeOK
<1>9. ASSUME NEW w \in Workers, AssemblyClosed(w) \/ Crash(w)
      PROVE  TypeOK'
  <2>1. req' \in [Workers -> Requests]
    BY <1>9 DEF AssemblyClosed, Crash, Idle, TypeOK, Requests
  <2> QED
    BY <1>9, <2>1 DEF AssemblyClosed, Crash, TypeOK
<1>10. ASSUME NEW w \in Workers, PatchAssembly(w)
       PROVE  TypeOK'
  <2>1. req' \in [Workers -> Requests]
    BY <1>10 DEF PatchAssembly, TypeOK, Requests, PatchReq
  <2> QED
    BY <1>10, <2>1 DEF PatchAssembly, TypeOK
<1>11. ASSUME NEW w \in Workers, AssemblyPatched(w)
       PROVE  TypeOK'
  <2>1. req[w] \in PatchReq
    BY <1>11, RequestShape DEF AssemblyPatched, TypeOK
  <2>2. req' \in [Workers -> Requests]
    BY <1>11 DEF AssemblyPatched, Idle, TypeOK, Requests
  <2> QED
    BY <1>11, <2>1, <2>2 DEF AssemblyPatched, PatchReq, TypeOK
<1>12. ASSUME NEW w \in Workers, Administer(w)
       PROVE  TypeOK'
  <2>1. CASE LinkUser(w)
    BY <2>1 DEF LinkUser, Edit, ActiveLots, TypeOK
  <2>2. CASE UnlinkUser(w)
    BY <2>2 DEF UnlinkUser, Edit, Associations, TypeOK
  <2>3. CASE AddExtraVoter(w)
    BY <2>3 DEF AddExtraVoter, Edit, ActiveLots, TypeOK
  <2>4. CASE RemoveExtraVoter(w)
    BY <2>4 DEF RemoveExtraVoter, Edit, TypeOK
  <2>5. CASE SetDelinquency(w)
    BY <2>5 DEF SetDelinquency, Edit, ActiveLots, TypeOK
  <2>6. CASE DeleteLot(w)
    BY <2>6 DEF DeleteLot, Edit, ActiveLots, TypeOK
  <2>7. CASE ChangeRoles(w)
    BY <2>7 DEF ChangeRoles, Edit, TypeOK
  <2> QED
    BY <1>12, <2>1, <2>2, <2>3, <2>4, <2>5, <2>6, <2>7 DEF Administer
<1> QED
  BY <1>1, <1>2, <1>3, <1>4, <1>5, <1>6, <1>7, <1>8, <1>9, <1>10, <1>11,
     <1>12 DEF Next, Serve

(* Every variable of a vote keeps its type.                                *)
THEOREM TypeCorrect == Spec => []TypeOK
<1>1. Init => TypeOK
  BY TypeInit
<1>2. TypeOK /\ [Next]_vars => TypeOK'
  BY TypeStep
<1> QED
  BY <1>1, <1>2, PTL DEF Spec
-----------------------------------------------------------------------------
(* The freezing of the result.                                             *)

(* Only a closing request starts to freeze, and only a freezing one writes *)
(* the status or the snapshot.                                             *)
LEMMA FreezeFrame ==
    ASSUME TypeOK, [Next]_vars,
           \A w \in Workers :
              ~Freeze(w) /\ ~CloseVote(w) /\ ~LazyClose(w) /\ ~CloseAssembly(w)
    PROVE  /\ UNCHANGED <<status, snapshot>>
           /\ \A v \in Workers : req'[v].op = "freezing" => req'[v] = req[v]
<1> USE DEF registry
<1>1. CASE UNCHANGED vars
  BY <1>1 DEF vars
<1>2. CASE Tick
  BY <1>2 DEF Tick
<1>3. ASSUME NEW w \in Workers, CastCheck(w) \/ RetractCheck(w)
      PROVE  /\ UNCHANGED <<status, snapshot>>
             /\ \A v \in Workers : req'[v].op = "freezing" => req'[v] = req[v]
  BY <1>3 DEF CastCheck, RetractCheck, Check, TypeOK
<1>4. ASSUME NEW w \in Workers, Stamp(w)
      PROVE  /\ UNCHANGED <<status, snapshot>>
             /\ \A v \in Workers : req'[v].op = "freezing" => req'[v] = req[v]
  BY <1>4 DEF Stamp, TypeOK
<1>5. ASSUME NEW w \in Workers,
             AppendRow(w) \/ AssemblyClosed(w) \/ AssemblyPatched(w) \/ Crash(w)
      PROVE  /\ UNCHANGED <<status, snapshot>>
             /\ \A v \in Workers : req'[v].op = "freezing" => req'[v] = req[v]
  BY <1>5 DEF AppendRow, AssemblyClosed, AssemblyPatched, Crash, Idle, IdleReq,
              TypeOK
<1>6. ASSUME NEW w \in Workers, PatchAssembly(w)
      PROVE  /\ UNCHANGED <<status, snapshot>>
             /\ \A v \in Workers : req'[v].op = "freezing" => req'[v] = req[v]
  BY <1>6 DEF PatchAssembly, TypeOK
<1>7. ASSUME NEW w \in Workers, CastBarred(w) \/ Administer(w)
      PROVE  UNCHANGED <<status, snapshot, req>>
  BY <1>7 DEF CastBarred, Administer, Edit, LinkUser, UnlinkUser,
              AddExtraVoter, RemoveExtraVoter, SetDelinquency, DeleteLot,
              ChangeRoles
<1> QED
  BY <1>1, <1>2, <1>3, <1>4, <1>5, <1>6, <1>7 DEF Next, Serve

LEMMA FreezeInit == Init => FreezeInv
  BY DEF Init, FreezeInv, ClosedIffFrozen, IdleReq

LEMMA FreezeStep == TypeOK /\ FreezeInv /\ [Next]_vars => FreezeInv'
<1> SUFFICES ASSUME TypeOK, FreezeInv, [Next]_vars PROVE FreezeInv'
  OBVIOUS
<1>1. ASSUME NEW w \in Workers, CloseVote(w) \/ LazyClose(w) \/ CloseAssembly(w)
      PROVE  FreezeInv'
  <2>1. PICK b \in BOOLEAN : Materialize(w, b)
    BY <1>1 DEF CloseVote, LazyClose, CloseAssembly
  <2>2. \A v \in Workers \ {w} : req'[v] = req[v]
    BY <2>1 DEF Materialize, TypeOK
  <2>3. req'[w].tally = IF snapshot = {} THEN {CurrentTally} ELSE {}
    BY <2>1 DEF Materialize, TypeOK
  <2>4. UNCHANGED <<status, snapshot>>
    BY <2>1 DEF Materialize
  <2> QED
    BY <2>2, <2>3, <2>4 DEF FreezeInv, ClosedIffFrozen
<1>2. ASSUME NEW w \in Workers, Freeze(w)
      PROVE  FreezeInv'
  <2>1. \A v \in Workers \ {w} : req'[v] = req[v]
    BY <1>2 DEF Freeze, TypeOK
  <2>2. req'[w].op # "freezing"
    BY <1>2 DEF Freeze, TypeOK, IdleReq, CascadeReq
  <2>3. snapshot' # {} /\ \A s, t \in snapshot' : s = t
    BY <1>2 DEF Freeze, FreezeInv, ClosedIffFrozen
  <2>4. status' = "CLOSED"
    BY <1>2 DEF Freeze
  <2> QED
    BY <2>1, <2>2, <2>3, <2>4 DEF FreezeInv, ClosedIffFrozen
<1>3. CASE \A w \in Workers :
             ~Freeze(w) /\ ~CloseVote(w) /\ ~LazyClose(w) /\ ~CloseAssembly(w)
  BY <1>3, FreezeFrame DEF FreezeInv, ClosedIffFrozen
<1> QED
  BY <1>1, <1>2, <1>3

(* A vote is CLOSED exactly when its result is stored, whatever requests   *)
(* overlap, cascade or die half-way.                                       *)
THEOREM FrozenResult == Spec => []ClosedIffFrozen
<1>1. Init => TypeOK /\ FreezeInv
  BY TypeInit, FreezeInit
<1>2. TypeOK /\ FreezeInv /\ [Next]_vars => (TypeOK /\ FreezeInv)'
  BY TypeStep, FreezeStep
<1>3. TypeOK /\ FreezeInv => ClosedIffFrozen
  BY DEF FreezeInv
<1> QED
  BY <1>1, <1>2, <1>3, PTL DEF Spec

(* A step from a settled vote changes neither result nor ballots, and the  *)
(* vote stays settled.                                                     *)
LEMMA SettledStep ==
    ASSUME TypeOK, FreezeInv, Settled, [Next]_vars
    PROVE  Settled' /\ UNCHANGED <<snapshot, ballots>>
<1> USE DEF registry
<1>0. status = "CLOSED" /\ snapshot # {}
  BY DEF Settled, FreezeInv, ClosedIffFrozen
<1>1. CASE UNCHANGED vars
  BY <1>1 DEF vars, Settled
<1>2. CASE Tick
  BY <1>2 DEF Tick, Settled
<1>3. ASSUME NEW w \in Workers, CastCheck(w) \/ RetractCheck(w)
      PROVE  FALSE
  BY <1>0, <1>3 DEF CastCheck, RetractCheck, Check, CanCast, CanRetract,
                    WindowOpen
<1>4. ASSUME NEW w \in Workers, Stamp(w) \/ AppendRow(w)
      PROVE  FALSE
  BY <1>4 DEF Stamp, AppendRow, Settled
<1>5. ASSUME NEW w \in Workers, CloseVote(w) \/ LazyClose(w) \/ CloseAssembly(w)
      PROVE  Settled' /\ UNCHANGED <<snapshot, ballots>>
  <2>1. PICK b \in BOOLEAN : Materialize(w, b)
    BY <1>5 DEF CloseVote, LazyClose, CloseAssembly
  <2>2. req' = [req EXCEPT ![w] =
                  [op |-> "freezing", cascade |-> b, tally |-> {}]]
    BY <1>0, <2>1 DEF Materialize
  <2>3. UNCHANGED <<status, snapshot, ballots>>
    BY <2>1 DEF Materialize
  <2>4. \A v \in Workers : v # w => req'[v] = req[v]
    BY <2>2 DEF TypeOK
  <2>5. req'[w].op = "freezing" /\ req'[w].tally = {}
    BY <2>2 DEF TypeOK
  <2> QED
    BY <2>3, <2>4, <2>5 DEF Settled
<1>6. ASSUME NEW w \in Workers, Freeze(w)
      PROVE  Settled' /\ UNCHANGED <<snapshot, ballots>>
  <2>1. req[w].tally = {}
    BY <1>6 DEF Freeze, Settled
  <2> QED
    BY <1>6, <2>1 DEF Freeze, Settled, TypeOK, CascadeReq, IdleReq
<1>7. ASSUME NEW w \in Workers,
             AssemblyClosed(w) \/ AssemblyPatched(w) \/ Crash(w)
      PROVE  Settled' /\ UNCHANGED <<snapshot, ballots>>
  BY <1>7 DEF AssemblyClosed, AssemblyPatched, Crash, Idle, IdleReq, Settled,
              TypeOK
<1>8. ASSUME NEW w \in Workers, PatchAssembly(w)
      PROVE  Settled' /\ UNCHANGED <<snapshot, ballots>>
  BY <1>8 DEF PatchAssembly, Settled, TypeOK
<1>9. ASSUME NEW w \in Workers, CastBarred(w) \/ Administer(w)
      PROVE  Settled' /\ UNCHANGED <<snapshot, ballots>>
  <2>1. UNCHANGED <<status, snapshot, ballots, req>>
    BY <1>9 DEF CastBarred, Administer, Edit, LinkUser, UnlinkUser,
                AddExtraVoter, RemoveExtraVoter, SetDelinquency, DeleteLot,
                ChangeRoles
  <2> QED
    BY <2>1 DEF Settled
<1> QED
  BY <1>1, <1>2, <1>3, <1>4, <1>5, <1>6, <1>7, <1>8, <1>9 DEF Next, Serve

(* Once the requests that overlapped its closing are over, the result and  *)
(* the ballots of a closed vote never change.                              *)
THEOREM ResultIsFinal == Spec => ResultSettles
<1>1. Init => TypeOK /\ FreezeInv
  BY TypeInit, FreezeInit
<1>2. TypeOK /\ FreezeInv /\ [Next]_vars => (TypeOK /\ FreezeInv)'
  BY TypeStep, FreezeStep
<1>3. TypeOK /\ FreezeInv /\ [Next]_vars
         => [Settled => Settled' /\ UNCHANGED <<snapshot, ballots>>]_vars
  BY SettledStep
<1> QED
  BY <1>1, <1>2, <1>3, PTL DEF Spec, ResultSettles
-----------------------------------------------------------------------------
(* The lot lock.                                                           *)

(* Appending a row under a new id changes nothing about the rows read.     *)
LEMMA GrowSeen ==
    ASSUME NEW rows, NEW b, NEW k, NEW u, NEW t, NEW seen,
           b.id \notin {c.id : c \in rows}, SeenRows(rows, k, seen)
    PROVE  /\ SeenRows(rows \cup {b}, k, seen)
           /\ OwnOrFree(rows, u, seen) => OwnOrFree(rows \cup {b}, u, seen)
           /\ SawBefore(rows, seen, t) => SawBefore(rows \cup {b}, seen, t)
<1>1. b.id \notin seen
  BY DEF SeenRows
<1> QED
  BY <1>1 DEF SeenRows, OwnOrFree, SawBefore

(* A key keeps a last row when a row is appended.                          *)
LEMMA GrowLast ==
    ASSUME NEW rows \in SUBSET Ballot, NEW b \in Ballot, NEW k,
           b.id \notin {c.id : c \in rows}, HasLast(rows, k)
    PROVE  HasLast(rows \cup {b}, k)
<1>1. \A c \in rows \cup {b} : c.at \in Nat /\ c.id \in Nat
  BY VotingAssumption DEF Ballot
<1>2. CASE b.key # k
  <2>1. RowsOf(rows \cup {b}, k) = RowsOf(rows, k)
    BY <1>2 DEF RowsOf
  <2> QED
    BY <2>1 DEF HasLast
<1>3. CASE b.key = k
  <2>1. RowsOf(rows \cup {b}, k) = RowsOf(rows, k) \cup {b}
    BY <1>3 DEF RowsOf
  <2>2. CASE RowsOf(rows, k) = {}
    BY <2>1, <2>2 DEF HasLast
  <2>3. ASSUME NEW l \in RowsOf(rows, k),
               \A c \in RowsOf(rows, k) : c = l \/ Before(c, l)
        PROVE  HasLast(rows \cup {b}, k)
    <3>1. RowsOf(rows, k) \subseteq rows /\ l \in rows
      BY DEF RowsOf
    <3>2. Before(l, b) \/ Before(b, l)
      BY <1>1, <3>1 DEF Before
    <3>3. CASE Before(b, l)
      BY <2>1, <2>3, <3>3 DEF HasLast
    <3>4. CASE Before(l, b)
      <4>1. \A c \in RowsOf(rows, k) : Before(c, b)
        BY <1>1, <2>3, <3>1, <3>4 DEF Before
      <4> QED
        BY <2>1, <4>1 DEF HasLast
    <3> QED
      BY <3>2, <3>3, <3>4
  <2> QED
    BY <2>2, <2>3 DEF HasLast
<1> QED
  BY <1>2, <1>3

(* The last row of a key is the one _latest_ballot_for_key finds.          *)
LEMMA LastIsLatest ==
    ASSUME NEW rows \in SUBSET Ballot, NEW k, NEW l \in RowsOf(rows, k),
           \A c \in RowsOf(rows, k) : c = l \/ Before(c, l)
    PROVE  l \in LatestOf(rows, k)
<1>1. \A c \in RowsOf(rows, k) : c.at \in Nat /\ c.id \in Nat
  BY VotingAssumption DEF Ballot, RowsOf
<1> QED
  BY <1>1 DEF LatestOf, Before

(* The check of the holder leaves the ballot free or with its caster.      *)
LEMMA HolderOwns ==
    ASSUME NEW rows \in SUBSET Ballot, NEW k, NEW u,
           UniqueIds(rows), HasLast(rows, k), HoldersOf(rows, k) \subseteq {u}
    PROVE  /\ SeenRows(rows, k, {b.id : b \in RowsOf(rows, k)})
           /\ OwnOrFree(rows, u, {b.id : b \in RowsOf(rows, k)})
<1> DEFINE seen == {b.id : b \in RowsOf(rows, k)}
<1>1. SeenRows(rows, k, seen)
  BY DEF SeenRows, RowsOf
<1>2. \A p \in rows : p.id \in seen => p \in RowsOf(rows, k)
  BY DEF UniqueIds, RowsOf
<1>3. CASE RowsOf(rows, k) = {}
  BY <1>1, <1>3 DEF OwnOrFree
<1>4. ASSUME NEW l \in RowsOf(rows, k),
             \A c \in RowsOf(rows, k) : c = l \/ Before(c, l)
      PROVE  OwnOrFree(rows, u, seen)
  <2>1. l \in LatestOf(rows, k)
    BY <1>4, LastIsLatest
  <2>2. l.retraction \/ l.voter = u
    BY <2>1 DEF HoldersOf
  <2>3. l \in rows /\ l.id \in seen
    BY DEF RowsOf
  <2>4. \A p \in rows : p.id \in seen => p = l \/ Before(p, l)
    BY <1>2, <1>4
  <2> QED
    BY <2>2, <2>3, <2>4 DEF OwnOrFree
<1> QED
  BY <1>1, <1>3, <1>4 DEF HasLast

(* _next_cast_at dates a row after every row of its key.                   *)
LEMMA DatedAfter ==
    ASSUME TypeOK, RaceInv, NEW k \in Keys, NEW seen, NEW t \in NextCastAt(k),
           SeenRows(ballots, k, seen)
    PROVE  SawBefore(ballots, seen, t)
<1> SUFFICES ASSUME NEW p \in ballots, p.id \in seen PROVE p.at < t
  BY DEF SawBefore
<1>1. p \in RowsOf(ballots, k)
  BY DEF SeenRows, RaceInv, UniqueIds, RowsOf
<1>2. PICK l \in RowsOf(ballots, k) :
         \A c \in RowsOf(ballots, k) : c = l \/ Before(c, l)
  BY <1>1 DEF RaceInv, HasLast
<1>3. l \in LatestOf(ballots, k)
  BY <1>2, LastIsLatest DEF TypeOK
<1>4. l.at < t /\ p.at \in Nat /\ l.at \in Nat /\ t \in Nat
  BY <1>1, <1>2, <1>3 DEF NextCastAt, LatestOf, RowsOf, TypeOK, Ballot
<1>5. p.at <= l.at
  BY <1>1, <1>2, <1>4 DEF Before
<1> QED
  BY <1>4, <1>5

(* A step that adds no row and lets no request into "checked" or "stamped" *)
(* keeps the invariant.                                                    *)
LEMMA RaceFrame ==
    ASSUME TypeOK, RaceInv, UNCHANGED ballots,
           \A v \in Workers :
              req'[v].op \in {"checked", "stamped"} => req'[v] = req[v]
    PROVE  RaceInv'
  BY DEF RaceInv, RequestInv, RowInv

LEMMA RaceInit == Init => RaceInv
  BY DEF Init, RaceInv, RequestInv, RowInv, UniqueIds, HasLast, RowsOf, IdleReq

LEMMA RaceStep == TypeOK /\ RaceInv /\ [Next]_vars => RaceInv'
<1> SUFFICES ASSUME TypeOK, RaceInv, [Next]_vars PROVE RaceInv'
  OBVIOUS
<1> USE DEF registry
<1>1. CASE UNCHANGED vars
  BY <1>1, RaceFrame DEF vars
<1>2. CASE Tick
  BY <1>2, RaceFrame DEF Tick
<1>3. ASSUME NEW w \in Workers, CastCheck(w) \/ RetractCheck(w)
      PROVE  RaceInv'
  <2>1. PICK u \in Users, k \in Keys, b \in BOOLEAN, s \in Selections \cup {{}} :
           Check(w, u, k, b, s)
    BY <1>3, KeysForAreKeys DEF CastCheck, RetractCheck
  <2>2. HoldersOf(ballots, k) \subseteq {u}
    BY <2>1 DEF Check, CanCast, CanRetract
  <2> DEFINE seen == {c.id : c \in RowsOf(ballots, k)}
  <2>3. SeenRows(ballots, k, seen) /\ OwnOrFree(ballots, u, seen)
    BY <2>2, HolderOwns DEF TypeOK, RaceInv
  <2>4. /\ req'[w].op = "checked" /\ req'[w].key = k
        /\ req'[w].voter = u /\ req'[w].seen = seen
        /\ \A v \in Workers : v # w => req'[v] = req[v]
        /\ UNCHANGED ballots
    BY <2>1 DEF Check, TypeOK
  <2>5. RequestInv'
    <3> HIDE DEF seen
    <3> QED
      BY <2>3, <2>4 DEF RaceInv, RequestInv
  <2> QED
    BY <2>4, <2>5 DEF RaceInv, RowInv
<1>4. ASSUME NEW w \in Workers, Stamp(w)
      PROVE  RaceInv'
  <2>1. req[w] \in CheckedReq
    BY <1>4, RequestShape DEF Stamp, TypeOK
  <2>2. PICK t \in NextCastAt(req[w].key) :
           req' = [req EXCEPT ![w] =
                     [op |-> "stamped", key |-> req[w].key,
                      voter |-> req[w].voter,
                      retraction |-> req[w].retraction,
                      choice |-> req[w].choice, seen |-> req[w].seen,
                      at |-> t]]
    BY <1>4 DEF Stamp
  <2>3. /\ req'[w].op = "stamped" /\ req'[w].key = req[w].key
        /\ req'[w].voter = req[w].voter /\ req'[w].seen = req[w].seen
        /\ req'[w].at = t
        /\ \A v \in Workers : v # w => req'[v] = req[v]
        /\ UNCHANGED ballots
    BY <1>4, <2>2 DEF Stamp, TypeOK
  <2>4. /\ SeenRows(ballots, req[w].key, req[w].seen)
        /\ OwnOrFree(ballots, req[w].voter, req[w].seen)
    BY <1>4 DEF Stamp, RaceInv, RequestInv
  <2>5. SawBefore(ballots, req[w].seen, t)
    BY <2>1, <2>4, DatedAfter DEF CheckedReq
  <2>6. RequestInv'
    BY <2>3, <2>4, <2>5 DEF RaceInv, RequestInv
  <2> QED
    BY <2>3, <2>6 DEF RaceInv, RowInv
<1>5. ASSUME NEW w \in Workers, AppendRow(w)
      PROVE  RaceInv'
  <2>1. req[w] \in StampedReq
    BY <1>5, RequestShape DEF AppendRow, TypeOK
  <2>2. PICK i \in UnusedIds : ballots' = ballots \cup {NewRow(req[w], i)}
    BY <1>5 DEF AppendRow
  <2> DEFINE b == NewRow(req[w], i)
  <2>3. /\ b \in Ballot /\ b.id = i
        /\ b.key = req[w].key /\ b.voter = req[w].voter
        /\ b.seen = req[w].seen /\ b.at = req[w].at
    BY <2>1, <2>2 DEF NewRow, StampedReq, Ballot, UnusedIds
  <2>4. b.id \notin {c.id : c \in ballots}
    BY <2>2, <2>3 DEF UnusedIds
  <2>5. ballots' = ballots \cup {b}
    BY <2>2
  <2>6. /\ SeenRows(ballots, b.key, b.seen)
        /\ OwnOrFree(ballots, b.voter, b.seen)
        /\ SawBefore(ballots, b.seen, b.at)
    BY <1>5, <2>3 DEF AppendRow, RaceInv, RequestInv
  <2>7. \A v \in Workers :
           req'[v].op \in {"checked", "stamped"} => req'[v] = req[v]
    BY <1>5 DEF AppendRow, Idle, IdleReq, TypeOK
  <2> HIDE DEF b
  <2>8. UniqueIds(ballots')
    BY <2>4, <2>5 DEF RaceInv, UniqueIds
  <2>9. \A k \in Keys : HasLast(ballots', k)
    BY <2>3, <2>4, <2>5, GrowLast DEF RaceInv, TypeOK
  <2>10. RequestInv'
    BY <2>4, <2>5, <2>7, GrowSeen DEF RaceInv, RequestInv
  <2>11. RowInv'
    BY <2>4, <2>5, <2>6, GrowSeen DEF RaceInv, RowInv
  <2> QED
    BY <2>8, <2>9, <2>10, <2>11 DEF RaceInv
<1>6. ASSUME NEW w \in Workers, CloseVote(w) \/ LazyClose(w) \/ CloseAssembly(w)
      PROVE  RaceInv'
  <2>1. PICK b \in BOOLEAN : Materialize(w, b)
    BY <1>6 DEF CloseVote, LazyClose, CloseAssembly
  <2> QED
    BY <2>1, RaceFrame DEF Materialize, TypeOK
<1>7. ASSUME NEW w \in Workers, Freeze(w)
      PROVE  RaceInv'
  BY <1>7, RaceFrame DEF Freeze, IdleReq, CascadeReq, TypeOK
<1>8. ASSUME NEW w \in Workers,
             AssemblyClosed(w) \/ AssemblyPatched(w) \/ Crash(w)
      PROVE  RaceInv'
  BY <1>8, RaceFrame DEF AssemblyClosed, AssemblyPatched, Crash, Idle, IdleReq,
                         TypeOK
<1>9. ASSUME NEW w \in Workers, PatchAssembly(w)
      PROVE  RaceInv'
  BY <1>9, RaceFrame DEF PatchAssembly, TypeOK
<1>10. ASSUME NEW w \in Workers, CastBarred(w) \/ Administer(w)
       PROVE  RaceInv'
  <2>1. UNCHANGED <<ballots, req>>
    BY <1>10 DEF CastBarred, Administer, Edit, LinkUser, UnlinkUser,
                 AddExtraVoter, RemoveExtraVoter, SetDelinquency, DeleteLot,
                 ChangeRoles
  <2> QED
    BY <2>1, RaceFrame
<1> QED
  BY <1>1, <1>2, <1>3, <1>4, <1>5, <1>6, <1>7, <1>8, <1>9, <1>10
     DEF Next, Serve

(* A row another user's ballot was overwritten by had not read it.         *)
LEMMA RaceImplies == TypeOK /\ RaceInv => OverwriteOnlyByRace
<1> SUFFICES ASSUME TypeOK, RaceInv,
                    NEW b \in ballots, NEW p \in ballots,
                    Overwrites(b, p), p.id \in b.seen
             PROVE  FALSE
  BY DEF OverwriteOnlyByRace
<1>1. PICK l \in ballots :
         /\ l.id \in b.seen
         /\ l.retraction \/ l.voter = b.voter
         /\ \A c \in ballots : c.id \in b.seen => c = l \/ Before(c, l)
  BY DEF RaceInv, RowInv, OwnOrFree
<1>2. p # l
  BY <1>1 DEF Overwrites
<1>3. Before(p, l)
  BY <1>1, <1>2
<1>4. l.key = b.key
  BY <1>1 DEF RaceInv, RowInv, SeenRows, UniqueIds
<1>5. Before(l, b)
  BY <1>1 DEF RaceInv, RowInv, SawBefore, Before
<1> QED
  BY <1>3, <1>4, <1>5 DEF Overwrites, DirectlyFollows, RowsOf

(* What a casting request read binds it and its row.                       *)
THEOREM ReadsBind == Spec => []RaceInv
<1>1. Init => TypeOK /\ RaceInv
  BY TypeInit, RaceInit
<1>2. TypeOK /\ RaceInv /\ [Next]_vars => (TypeOK /\ RaceInv)'
  BY TypeStep, RaceStep
<1> QED
  BY <1>1, <1>2, PTL DEF Spec

(* The ballot of a unit passes from one holder to another only through a   *)
(* retraction, or in a race with a ballot not yet committed when the check *)
(* ran: the reach of the lot lock under any number of workers.             *)
THEOREM LotLock == Spec => []OverwriteOnlyByRace
<1>1. TypeOK /\ RaceInv => OverwriteOnlyByRace
  BY RaceImplies
<1> QED
  BY <1>1, TypeCorrect, ReadsBind, PTL
-----------------------------------------------------------------------------
(* Requests served one after the other.                                    *)

LEMMA SerialInit == Init => SerialInv
  BY DEF Init, SerialInv, ChoicesGiven, SerialRequests, IdleReq

(* A step that leaves the requests alone, or only ends them, and touches   *)
(* nothing they decided by, keeps what they decided by.                    *)
LEMMA SerialFrame ==
    ASSUME TypeOK, SerialInv, UNCHANGED <<snapshot, ballots, delinquent, deleted,
                                          link, extras>>,
           \A v \in Workers :
              req'[v].op \in {"checked", "stamped", "freezing"} => req'[v] = req[v]
    PROVE  SerialInv'
<1>1. \A u, k : MayVoteFor(u, k)' <=> MayVoteFor(u, k)
  BY DEF MayVoteFor, EligibleUsers, HasLotLink
<1>2. CurrentTally' = CurrentTally
  BY DEF CurrentTally, ActiveLots
<1>3. ASSUME NEW v \in Workers, req'[v].op \in {"checked", "stamped"}
      PROVE  StillAllowed(req[v])'
  BY <1>1, <1>3 DEF SerialInv, SerialRequests, StillAllowed
<1> QED
  BY <1>2, <1>3 DEF SerialInv, ChoicesGiven, SerialRequests

(* Checking a cast or a withdrawal establishes what it will rest on.       *)
LEMMA SerialCheck ==
    ASSUME TypeOK, FreezeInv, SerialInv, NEW w \in Workers, Alone,
           CastCheck(w) \/ RetractCheck(w)
    PROVE  SerialInv'
<1> USE DEF registry
<1>1. PICK u \in Users, k \in Keys, b \in BOOLEAN, s \in SUBSET Options :
         Check(w, u, k, b, s) /\ (b <=> s = {})
  BY KeysForAreKeys DEF CastCheck, RetractCheck, Selections
<1>2. /\ req'[w].op = "checked" /\ req'[w].key = k /\ req'[w].voter = u
      /\ req'[w].retraction = b /\ req'[w].choice = s
      /\ UNCHANGED <<snapshot, ballots, delinquent, deleted, link, extras>>
  BY <1>1 DEF Check, TypeOK
<1>3. snapshot = {}
  BY <1>1 DEF Check, CanCast, CanRetract, WindowOpen, FreezeInv, ClosedIffFrozen
<1>4. /\ HoldersOf(ballots, k) \subseteq {u}
      /\ b => HoldersOf(ballots, k) = {u}
      /\ ~b => k \notin delinquent /\ MayVoteFor(u, k)
  BY <1>1 DEF Check, CanCast, CanRetract
<1>5. MayVoteFor(u, k)' <=> MayVoteFor(u, k)
  BY <1>2 DEF MayVoteFor, EligibleUsers, HasLotLink
<1>6. StillAllowed(req[w])'
  BY <1>1, <1>2, <1>3, <1>4, <1>5 DEF StillAllowed
<1> QED
  BY <1>2, <1>6 DEF SerialInv, ChoicesGiven, SerialRequests, Alone

(* A row is dated after every row of its key.                              *)
LEMMA SerialStamp ==
    ASSUME TypeOK, RaceInv, SerialInv, NEW w \in Workers, Alone, Stamp(w)
    PROVE  SerialInv'
<1> USE DEF registry
<1>1. req[w] \in CheckedReq
  BY RequestShape DEF Stamp, TypeOK
<1>2. PICK t \in NextCastAt(req[w].key) :
         req' = [req EXCEPT ![w] =
                   [op |-> "stamped", key |-> req[w].key,
                    voter |-> req[w].voter,
                    retraction |-> req[w].retraction,
                    choice |-> req[w].choice, seen |-> req[w].seen,
                    at |-> t]]
  BY DEF Stamp
<1>3. /\ req'[w].op = "stamped" /\ req'[w].key = req[w].key
      /\ req'[w].voter = req[w].voter /\ req'[w].at = t
      /\ req'[w].retraction = req[w].retraction
      /\ req'[w].choice = req[w].choice
      /\ UNCHANGED <<snapshot, ballots, delinquent, deleted, link, extras>>
  BY <1>2 DEF Stamp, TypeOK
<1>4. StillAllowed(req[w])'
  BY <1>3, ZenonT(30) DEF Stamp, SerialInv, SerialRequests, StillAllowed,
                       MayVoteFor, EligibleUsers, HasLotLink
<1>5. \A c \in RowsOf(ballots, req[w].key) : c.at < t
  <2> DEFINE seen == {c.id : c \in RowsOf(ballots, req[w].key)}
  <2>1. SeenRows(ballots, req[w].key, seen)
    BY DEF SeenRows, RowsOf
  <2>2. SawBefore(ballots, seen, t)
    BY <1>1, <1>2, <2>1, DatedAfter DEF CheckedReq
  <2> QED
    BY <2>2 DEF SawBefore, RowsOf
<1> QED
  BY <1>3, <1>4, <1>5 DEF SerialInv, ChoicesGiven, SerialRequests, Alone

LEMMA SerialStep ==
    ASSUME TypeOK, FreezeInv, RaceInv, SerialInv, Alone, [Next]_vars
    PROVE  SerialInv'
<1> USE DEF registry
<1>1. CASE UNCHANGED vars
  BY <1>1, SerialFrame DEF vars
<1>2. CASE Tick
  BY <1>2, SerialFrame DEF Tick
<1>3. ASSUME NEW w \in Workers, AppendRow(w)
      PROVE  SerialInv'
  <2>1. PICK i \in UnusedIds : ballots' = ballots \cup {NewRow(req[w], i)}
    BY <1>3 DEF AppendRow
  <2>2. ChoicesGiven'
    BY <1>3, <2>1 DEF AppendRow, NewRow, SerialInv, ChoicesGiven,
                      SerialRequests, StillAllowed
  <2>3. \A v \in Workers : req'[v] = IdleReq
    BY <1>3 DEF AppendRow, Idle, TypeOK, Alone
  <2> QED
    BY <2>2, <2>3 DEF SerialInv, SerialRequests, IdleReq
<1>4. ASSUME NEW w \in Workers, CloseVote(w) \/ LazyClose(w) \/ CloseAssembly(w)
      PROVE  SerialInv'
  <2>1. PICK b \in BOOLEAN : Materialize(w, b)
    BY <1>4 DEF CloseVote, LazyClose, CloseAssembly
  <2>2. /\ req'[w].op = "freezing"
        /\ req'[w].tally = IF snapshot = {} THEN {CurrentTally} ELSE {}
        /\ UNCHANGED <<snapshot, ballots, deleted>>
    BY <2>1 DEF Materialize, TypeOK
  <2>3. CurrentTally' = CurrentTally
    BY <2>2 DEF CurrentTally, ActiveLots
  <2> QED
    BY <2>2, <2>3 DEF SerialInv, ChoicesGiven, SerialRequests, Alone
<1>5. ASSUME NEW w \in Workers, Freeze(w)
      PROVE  SerialInv'
  <2>1. \A v \in Workers : req'[v] \in {IdleReq, CascadeReq}
    BY <1>5 DEF Freeze, TypeOK, Alone
  <2>2. UNCHANGED ballots
    BY <1>5 DEF Freeze
  <2> QED
    BY <2>1, <2>2 DEF SerialInv, ChoicesGiven, SerialRequests, IdleReq,
                      CascadeReq
<1>6. ASSUME NEW w \in Workers,
             AssemblyClosed(w) \/ AssemblyPatched(w) \/ Crash(w)
      PROVE  SerialInv'
  BY <1>6, SerialFrame DEF AssemblyClosed, AssemblyPatched, Crash, Idle, IdleReq,
                           TypeOK
<1>7. ASSUME NEW w \in Workers, PatchAssembly(w)
      PROVE  SerialInv'
  BY <1>7, SerialFrame DEF PatchAssembly, TypeOK
<1>8. ASSUME NEW w \in Workers, CastBarred(w)
      PROVE  SerialInv'
  BY <1>8, SerialFrame DEF CastBarred
<1>9. ASSUME NEW w \in Workers, Administer(w)
      PROVE  SerialInv'
  <2>1. UNCHANGED <<ballots, req>> /\ req[w] = IdleReq
    BY <1>9 DEF Administer, Edit, Free, LinkUser, UnlinkUser,
                AddExtraVoter, RemoveExtraVoter, SetDelinquency, DeleteLot,
                ChangeRoles
  <2> QED
    BY <2>1 DEF SerialInv, ChoicesGiven, SerialRequests, IdleReq, Alone
<1> QED
  BY <1>1, <1>2, <1>3, <1>4, <1>5, <1>6, <1>7, <1>8, <1>9, SerialCheck,
     SerialStamp
     DEF Next, Serve

(* All that is known of a vote whose requests come one after the other.    *)
LEMMA SerialAlways ==
    ASSUME Alone
    PROVE  Spec => [](TypeOK /\ FreezeInv /\ RaceInv /\ SerialInv)
<1>1. Init => TypeOK /\ FreezeInv /\ RaceInv /\ SerialInv
  BY TypeInit, FreezeInit, RaceInit, SerialInit
<1>2. TypeOK /\ FreezeInv /\ RaceInv /\ SerialInv /\ [Next]_vars
         => (TypeOK /\ FreezeInv /\ RaceInv /\ SerialInv)'
  BY TypeStep, FreezeStep, RaceStep, SerialStep
<1> QED
  BY <1>1, <1>2, PTL DEF Spec
-----------------------------------------------------------------------------
(* Requests served one after the other are the steps of a ballot box.      *)

(* A key has at most one last row.                                         *)
LEMMA OneLatest ==
    ASSUME NEW rows, NEW k, HasLast(rows, k),
           NEW a \in LatestOf(rows, k), NEW b \in LatestOf(rows, k)
    PROVE  a = b
  BY DEF HasLast, LatestOf

(* The last word on a key, read off its last row.                          *)
LEMMA WordRead ==
    ASSUME NEW k
    PROVE  /\ \A b \in LatestOf(ballots, k) :
                 \E x \in Word(k) : x.voter = b.voter /\ x.choice = b.choice
           /\ \A x \in Word(k) :
                 \E b \in LatestOf(ballots, k) :
                    x.voter = b.voter /\ x.choice = b.choice
<1>1. ASSUME NEW b \in LatestOf(ballots, k)
      PROVE  \E x \in Word(k) : x.voter = b.voter /\ x.choice = b.choice
  <2> DEFINE x == [voter |-> b.voter, choice |-> b.choice]
  <2>1. x \in Word(k)
    BY DEF Word
  <2>2. x.voter = b.voter /\ x.choice = b.choice
    OBVIOUS
  <2> QED
    BY <2>1, <2>2
<1>2. ASSUME NEW x \in Word(k)
      PROVE  \E b \in LatestOf(ballots, k) :
                x.voter = b.voter /\ x.choice = b.choice
  <2>1. PICK b \in LatestOf(ballots, k) : x = [voter |-> b.voter, choice |-> b.choice]
    BY DEF Word
  <2> QED
    BY <2>1
<1> QED
  BY <1>1, <1>2

(* Who holds the key in the box.                                           *)
LEMMA HolderRead ==
    ASSUME NEW k \in Keys
    PROVE  Box!Holder(k) = {b.voter : b \in {d \in LatestOf(ballots, k) : d.choice # {}}}
<1>1. Box!Holder(k) = {x.voter : x \in {y \in Word(k) : y.choice # {}}}
  BY DEF Box!Holder
<1> QED
  BY <1>1, WordRead

(* A row later than all of its key becomes the last one of it, and that of *)
(* no other key.                                                           *)
LEMMA AppendLatest ==
    ASSUME NEW rows \in SUBSET Ballot, NEW b \in Ballot,
           \A c \in RowsOf(rows, b.key) : c.at < b.at
    PROVE  /\ LatestOf(rows \cup {b}, b.key) = {b}
           /\ \A k \in Keys \ {b.key} :
                 LatestOf(rows \cup {b}, k) = LatestOf(rows, k)
<1>1. \A c \in rows \cup {b} : c.at \in Nat /\ c.id \in Nat
  BY VotingAssumption DEF Ballot
<1>2. RowsOf(rows \cup {b}, b.key) = RowsOf(rows, b.key) \cup {b}
  BY DEF RowsOf
<1>3. \A c \in RowsOf(rows, b.key) : Before(c, b) /\ ~Before(b, c)
  BY <1>1 DEF Before, RowsOf
<1>4. ~Before(b, b)
  BY <1>1 DEF Before
<1>5. LatestOf(rows \cup {b}, b.key) = {b}
  BY <1>2, <1>3, <1>4 DEF LatestOf
<1>6. ASSUME NEW k \in Keys \ {b.key}
      PROVE  LatestOf(rows \cup {b}, k) = LatestOf(rows, k)
  <2>1. RowsOf(rows \cup {b}, k) = RowsOf(rows, k)
    BY DEF RowsOf
  <2> QED
    BY <2>1 DEF LatestOf
<1> QED
  BY <1>5, <1>6

(* Counting ballots is counting the keys they are for.                     *)
LEMMA KeysCounted ==
    ASSUME TypeOK, \A k \in Keys : HasLast(ballots, k),
           NEW S \in SUBSET ActiveBallots(ballots)
    PROVE  Cardinality({k \in Keys : \E b \in S : b.key = k}) = Cardinality(S)
<1> DEFINE T == {k \in Keys : \E b \in S : b.key = k}
           f == [b \in S |-> b.key]
<1>1. \A b \in S : b \in ballots /\ b.key \in Keys /\ b \in LatestOf(ballots, b.key)
  BY DEF ActiveBallots, TypeOK, Ballot
<1>2. IsFiniteSet(S)
  <2>1. S \subseteq ballots
    BY <1>1
  <2> QED
    BY <2>1, FS_Subset DEF TypeOK
<1>3. f \in Bijection(S, T)
  <2>1. f \in [S -> T]
    BY <1>1
  <2>2. \A a, b \in S : f[a] = f[b] => a = b
    BY <1>1, OneLatest
  <2>3. \A k \in T : \E b \in S : f[b] = k
    OBVIOUS
  <2> QED
    BY <2>1, <2>2, <2>3, Fun_IsBij
<1>4. ExistsBijection(S, T)
  BY <1>3 DEF ExistsBijection
<1> QED
  BY <1>2, <1>4, FS_Bijection

(* The tally counts what the box holds.                                    *)
LEMMA CountAgrees ==
    ASSUME TypeOK, RaceInv, ChoicesGiven
    PROVE  Box!Count = [voters |-> CurrentTally.voters,
                        counts |-> CurrentTally.counts]
<1> DEFINE A == ActiveBallots(ballots)
<1>1. \A k \in Keys : HasLast(ballots, k)
  BY DEF RaceInv
<1>2. \A b \in A : /\ b \in ballots /\ b.key \in Keys /\ ~b.retraction
                   /\ b \in LatestOf(ballots, b.key)
  BY DEF ActiveBallots, TypeOK, Ballot
<1>3. \A k \in Keys : \A b \in LatestOf(ballots, k) :
         b \in ballots /\ b.key = k /\ (b.choice # {} => b \in A)
  BY DEF LatestOf, RowsOf, ActiveBallots, ChoicesGiven
<1>4. Cardinality({k \in Keys : Box!Holder(k) # {}}) = Cardinality(A)
  <2>1. {k \in Keys : Box!Holder(k) # {}} = {k \in Keys : \E b \in A : b.key = k}
    <3>1. ASSUME NEW k \in Keys
          PROVE  Box!Holder(k) # {} <=> \E b \in LatestOf(ballots, k) : b.choice # {}
      BY HolderRead
    <3>2. ASSUME NEW k \in Keys
          PROVE  (\E b \in LatestOf(ballots, k) : b.choice # {})
                    <=> \E b \in A : b.key = k
      BY <1>2, <1>3 DEF ChoicesGiven
    <3> QED
      BY <3>1, <3>2
  <2> QED
    BY <1>1, <2>1, KeysCounted
<1>5. ASSUME NEW o \in Options
      PROVE  Cardinality({k \in Keys : \E x \in Word(k) : o \in x.choice})
               = Cardinality({b \in A : o \in b.choice})
  <2> DEFINE S == {b \in A : o \in b.choice}
  <2>1. ASSUME NEW k \in Keys
        PROVE  (\E x \in Word(k) : o \in x.choice) <=> \E b \in S : b.key = k
    BY <1>2, <1>3, WordRead
  <2>2. {k \in Keys : \E x \in Word(k) : o \in x.choice}
          = {k \in Keys : \E b \in S : b.key = k}
    BY <2>1
  <2>3. S \subseteq A
    OBVIOUS
  <2> QED
    BY <1>1, <2>2, <2>3, KeysCounted
<1>6. [o \in Options |->
         Cardinality({k \in Keys : \E x \in [i \in Keys |-> Word(i)][k] :
                         o \in x.choice})]
        = [o \in Options |-> Cardinality({b \in A : o \in b.choice})]
  <2>1. \A k \in Keys : [i \in Keys |-> Word(i)][k] = Word(k)
    OBVIOUS
  <2>2. ASSUME NEW o \in Options
        PROVE  {k \in Keys : \E x \in [i \in Keys |-> Word(i)][k] : o \in x.choice}
                 = {k \in Keys : \E x \in Word(k) : o \in x.choice}
    BY <2>1
  <2> QED
    BY <1>5, <2>2
<1>7. \A S : Box!Cardinality(S) = Cardinality(S)
  BY DEF Box!Cardinality, Cardinality
<1> QED
  BY <1>4, <1>6, <1>7 DEF Box!Count, CurrentTally, Tally

LEMMA BoxInit == Init => Box!Init
  BY DEF Init, Box!Init, Word, LatestOf, RowsOf, Result

(* What does not touch rows or result is no step of the box.               *)
LEMMA BoxQuiet ==
    ASSUME UNCHANGED <<ballots, snapshot>> PROVE UNCHANGED Box!box
  BY DEF Box!box, Word, Result, LatestOf, RowsOf

(* The commit of a row is a cast or a withdrawal by the holder.            *)
LEMMA AppendIsSaid ==
    ASSUME TypeOK, SerialInv, NEW w \in Workers, AppendRow(w)
    PROVE  Box!Next
<1>1. req[w] \in StampedReq
  BY RequestShape DEF AppendRow, TypeOK
<1>2. PICK k \in Keys, u \in Users, c \in SUBSET Options :
          k = req[w].key /\ u = req[w].voter /\ c = req[w].choice
  BY <1>1 DEF StampedReq
<1>3. PICK i \in UnusedIds : ballots' = ballots \cup {NewRow(req[w], i)}
  BY DEF AppendRow
<1> DEFINE b == NewRow(req[w], i)
<1>4. /\ b \in Ballot /\ b.key = k /\ b.voter = u /\ b.choice = c
      /\ b.at = req[w].at
  BY <1>1, <1>2, <1>3 DEF NewRow, StampedReq, Ballot, UnusedIds
<1>5. ballots' = ballots \cup {b}
  BY <1>3
<1>6. StillAllowed(req[w]) /\ \A d \in RowsOf(ballots, k) : d.at < b.at
  BY <1>2, <1>4 DEF AppendRow, SerialInv, SerialRequests
<1>7. /\ LatestOf(ballots', k) = {b}
      /\ \A j \in Keys \ {k} : LatestOf(ballots', j) = LatestOf(ballots, j)
  <2> HIDE DEF b
  <2> QED
    BY <1>4, <1>5, <1>6, AppendLatest, ZenonT(30) DEF TypeOK
<1> HIDE DEF b
<1>8. /\ Word(k)' = {[voter |-> u, choice |-> c]}
      /\ \A j \in Keys \ {k} : Word(j)' = Word(j)
  BY <1>4, <1>7 DEF Word
<1>9. [j \in Keys |-> Word(j)]'
        = [[j \in Keys |-> Word(j)] EXCEPT ![k] = {[voter |-> u, choice |-> c]}]
  BY <1>8
<1>10. Result = {} /\ UNCHANGED Result
  BY <1>6 DEF AppendRow, StillAllowed, Result
<1>11. Box!Say(u, k, c)
  BY <1>9, <1>10 DEF Box!Say
<1>12. Box!Holder(k) = HoldersOf(ballots, k)
  <2>1. LatestOf(ballots, k) \subseteq ballots
    BY DEF LatestOf, RowsOf
  <2>2. \A d \in LatestOf(ballots, k) : d.choice # {} <=> ~d.retraction
    BY <2>1 DEF SerialInv, ChoicesGiven
  <2> QED
    BY <2>2, HolderRead DEF HoldersOf
<1>13. CASE req[w].retraction
  <2>1. c = {} /\ Box!Holder(k) = {u}
    BY <1>2, <1>6, <1>12, <1>13 DEF StillAllowed
  <2>2. Box!Withdraw(u, k)
    BY <1>11, <2>1 DEF Box!Withdraw
  <2> QED
    BY <2>2 DEF Box!Next
<1>14. CASE ~req[w].retraction
  <2>1. c # {} /\ Box!Holder(k) \subseteq {u}
    BY <1>2, <1>6, <1>12, <1>14 DEF StillAllowed
  <2>2. Box!Cast(u, k, c)
    BY <1>11, <2>1 DEF Box!Cast
  <2> QED
    BY <2>2 DEF Box!Next, Box!Choice
<1> QED
  BY <1>13, <1>14

(* Storing the first tally is announcing the count; storing it again is no *)
(* step.                                                                   *)
LEMMA FreezeIsAnnounced ==
    ASSUME TypeOK, RaceInv, SerialInv, NEW w \in Workers, Freeze(w)
    PROVE  [Box!Next]_(Box!box)
<1>1. UNCHANGED ballots
  BY DEF Freeze
<1>2. CASE req[w].tally = {}
  <2>1. UNCHANGED snapshot
    BY <1>2 DEF Freeze
  <2> QED
    BY <1>1, <2>1, BoxQuiet
<1>3. CASE req[w].tally # {}
  <2>1. snapshot = {} /\ snapshot' = {CurrentTally}
    BY <1>3 DEF Freeze, SerialInv, SerialRequests
  <2>2. Result = {} /\ Result' = {Box!Count}
    <3>1. Box!Count = [voters |-> CurrentTally.voters,
                       counts |-> CurrentTally.counts]
      BY CountAgrees DEF SerialInv
    <3> QED
      BY <2>1, <3>1 DEF Result
  <2>3. UNCHANGED [k \in Keys |-> Word(k)]
    BY <1>1 DEF Word, LatestOf, RowsOf
  <2>4. Box!Announce
    BY <2>2, <2>3 DEF Box!Announce
  <2> QED
    BY <2>4 DEF Box!Next
<1> QED
  BY <1>2, <1>3

LEMMA BoxStep ==
    ASSUME TypeOK, RaceInv, SerialInv, [Next]_vars
    PROVE  [Box!Next]_(Box!box)
<1> USE DEF registry
<1>1. CASE UNCHANGED vars
  BY <1>1, BoxQuiet DEF vars
<1>2. CASE Tick
  BY <1>2, BoxQuiet DEF Tick
<1>3. ASSUME NEW w \in Workers, CastCheck(w) \/ RetractCheck(w)
      PROVE  UNCHANGED <<ballots, snapshot>>
  BY <1>3 DEF CastCheck, RetractCheck, Check
<1>4. ASSUME NEW w \in Workers, CloseVote(w) \/ LazyClose(w) \/ CloseAssembly(w)
      PROVE  UNCHANGED <<ballots, snapshot>>
  BY <1>4 DEF CloseVote, LazyClose, CloseAssembly, Materialize
<1>5. ASSUME NEW w \in Workers,
             CastBarred(w) \/ Stamp(w) \/ AssemblyClosed(w)
             \/ PatchAssembly(w) \/ AssemblyPatched(w) \/ Crash(w)
      PROVE  UNCHANGED <<ballots, snapshot>>
  BY <1>5 DEF CastBarred, Stamp, AssemblyClosed, PatchAssembly, AssemblyPatched,
              Crash
<1>6. ASSUME NEW w \in Workers, Administer(w)
      PROVE  UNCHANGED <<ballots, snapshot>>
  BY <1>6 DEF Administer, Edit, LinkUser, UnlinkUser, AddExtraVoter,
              RemoveExtraVoter, SetDelinquency, DeleteLot, ChangeRoles
<1> QED
  BY <1>1, <1>2, <1>3, <1>4, <1>5, <1>6, BoxQuiet, AppendIsSaid,
     FreezeIsAnnounced
     DEF Next, Serve

(* With requests served one after the other, the voting service is a       *)
(* ballot box: rows, checks, dates and the stored tally implement its      *)
(* casting, withdrawing and announcing, for a meeting as for a poll.       *)
THEOREM BoxImplemented ==
    ASSUME Alone
    PROVE  Spec => Box!Spec
<1>1. Init => Box!Init
  BY BoxInit
<1>2. TypeOK /\ FreezeInv /\ RaceInv /\ SerialInv /\ [Next]_vars
         => [Box!Next]_(Box!box)
  BY BoxStep
<1> QED
  BY <1>1, <1>2, SerialAlways, PTL DEF Spec, Box!Spec

(* With requests served one after the other, a ballot that counts is       *)
(* accepted only from an entitled voter and while its lot is in good       *)
(* standing: nothing changes between the check and the commit.             *)
THEOREM EntitledAtCommit ==
    ASSUME Alone
    PROVE  Spec => [][EntitledStep]_vars
<1>1. ASSUME TypeOK, SerialInv, [Next]_vars, NEW b \in ballots' \ ballots
      PROVE  b.retraction \/ (b.key \notin delinquent /\ MayVoteFor(b.voter, b.key))
  <2> USE DEF registry
  <2>1. PICK w \in Workers : AppendRow(w)
    BY <1>1 DEF Next, vars, Tick, Serve, CastCheck, RetractCheck, Check,
       CastBarred, Stamp, CloseVote, LazyClose, CloseAssembly, Materialize,
       Freeze, AssemblyClosed, PatchAssembly, AssemblyPatched, Crash, Administer,
       Edit, LinkUser, UnlinkUser, AddExtraVoter, RemoveExtraVoter,
       SetDelinquency, DeleteLot, ChangeRoles
  <2>2. /\ b.key = req[w].key /\ b.voter = req[w].voter
        /\ b.retraction = req[w].retraction
    BY <1>1, <2>1 DEF AppendRow, NewRow
  <2>3. StillAllowed(req[w])
    BY <1>1, <2>1 DEF AppendRow, SerialInv, SerialRequests
  <2> QED
    BY <2>2, <2>3 DEF StillAllowed
<1>2. TypeOK /\ FreezeInv /\ RaceInv /\ SerialInv /\ [Next]_vars
         => [EntitledStep]_vars
  BY <1>1 DEF EntitledStep
<1> QED
  BY <1>2, SerialAlways, PTL DEF Spec
=============================================================================
