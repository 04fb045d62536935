--------------------------- MODULE AssemblyProofs ---------------------------
(* Whatever the number of votes, units and overlapping requests, and        *)
(* wherever they crash: an assembly that reads CLOSED has no open vote but  *)
(* those created during or after a closing.  When no two requests overlap,  *)
(* frozen results cover the options and the minutes tell them.              *)
EXTENDS AssemblyModes, FiniteSetTheorems, TLAPS

(* The votes a closing or a rendering has still to go through.              *)
LeftOf(r) == IF r.op \in {"closing", "rendering"} THEN r.left ELSE {}

(* Requests only touch votes that exist; votes stay.                        *)
TargetsExist ==
    \A w \in Workers :
        /\ req[w].op \in {"printing", "editing", "freezing", "casting"}
              => req[w].vote \in Created
        /\ LeftOf(req[w]) \subseteq Created
        /\ req[w].op = "freezing" => LeftOf(req[w].after) \subseteq Created

(* What a closing has gone past is closed, or was created meanwhile.        *)
CascadeInv ==
    \A w \in Workers :
        /\ req[w].op = "closing" => OpenVotes \subseteq req[w].left \cup late
        /\ (req[w].op = "freezing" /\ req[w].after.op = "closing") =>
              OpenVotes \subseteq req[w].after.left \cup {req[w].vote} \cup late

AssemblyInv == CascadeInv /\ OpenVotesAreLate

(* Requests served one after the other: no two are under way.               *)
OneByOne == \A v, w \in Workers : ~Free(v) /\ ~Free(w) => v = w

(* A report tells frozen results, and leaves out no vote but those still    *)
(* to come and those created after the closing.                             *)
ReportTrue(report) ==
    \A e \in report : e.vote \in Created /\ votes[e.vote].result = {e.result}
Covered(report, left) == Created \subseteq left \cup {e.vote : e \in report} \cup late

Renders(r) ==
    r.op \in {"rendering", "foldering", "filing"} =>
        assembly = "CLOSED" /\ ReportTrue(r.report) /\ Covered(r.report, LeftOf(r))

Untouched(v) == votes[v].status = "OPEN" /\ \A l \in Lots : last[<<v, l>>] = NoRow

(* What a request read and what still holds when it commits.                *)
Knows(r) ==
    /\ r.op \in {"printing", "editing"} => Untouched(r.vote)
    /\ r.op = "casting" =>
          /\ votes[r.vote].status = "OPEN"
          /\ r.choice \in votes[r.vote].papers \cup {Withdrawn}
    /\ r.op = "freezing" =>
          /\ r.tally = IF votes[r.vote].result = {} THEN {TallyOf(r.vote)} ELSE {}
          /\ Renders(r.after)
    /\ r.op = "patching" => assembly # "CLOSED"
    /\ Renders(r)
    /\ r.op = "foldering" => folders = {}
    /\ r.op = "filing" => r.folder \in folders

(* Of the stored rows: a vote is closed with one result, which counts its   *)
(* options; a unit's last row names one of them.                            *)
ResultsStored ==
    /\ \A v \in Created :
          /\ votes[v].status = "CLOSED" <=> votes[v].result # {}
          /\ \A s, t \in votes[v].result : s = t
    /\ ResultCoversOptions
    /\ \A v \in Votes, l \in Lots :
          last[<<v, l>>] \in IF v \in Created
                                THEN votes[v].papers \cup {NoRow, Withdrawn}
                                ELSE {NoRow}

MinutesStored ==
    /\ \A d \in minutes :
          /\ assembly = "CLOSED"
          /\ ReportTrue(d.report) /\ Covered(d.report, {})
          /\ d.folder \in folders
    /\ \A f, g \in folders : f = g

SerialInv ==
    ResultsStored /\ MinutesStored /\ \A w \in Workers : Knows(req[w])
-----------------------------------------------------------------------------
(* A request record has the fields its op promises.                         *)
LEMMA RequestShape ==
    ASSUME NEW r \in Requests
    PROVE  /\ r.op = "closing" => r \in ClosingReq
           /\ r.op = "rendering" => r \in RenderReq
           /\ r.op = "freezing" => r \in FreezeReq
           /\ r.op = "casting" => r \in CastReq
           /\ r.op = "printing" => r \in OptionsReq
           /\ r.op = "editing" => r \in EditReq
           /\ r.op = "patching" => r \in PatchReq
           /\ r.op = "foldering" => r \in FolderReq
           /\ r.op = "filing" => r \in FileReq
<1>1. r = IdleReq => r.op = "idle"
  BY DEF IdleReq
<1>2. /\ r \in ClosingReq => r.op = "closing"
      /\ r \in RenderReq => r.op = "rendering"
      /\ r \in FreezeReq => r.op = "freezing"
      /\ r \in CastReq => r.op = "casting"
      /\ r \in OptionsReq => r.op = "printing"
  BY DEF ClosingReq, RenderReq, FreezeReq, CastReq, OptionsReq
<1>3. /\ r \in EditReq => r.op = "editing"
      /\ r \in PatchReq => r.op = "patching"
      /\ r \in FolderReq => r.op = "foldering"
      /\ r \in FileReq => r.op = "filing"
  BY DEF EditReq, PatchReq, FolderReq, FileReq
<1> QED
  BY <1>1, <1>2, <1>3 DEF Requests

(* What a request that freezes does next is idle, a closing or a rendering. *)
LEMMA AfterShape ==
    ASSUME NEW r \in FreezeReq
    PROVE  /\ r.vote \in Votes /\ r.tally \in SUBSET Results
           /\ r.after \in Requests
           /\ r.after.op \in {"idle", "closing", "rendering"}
<1>1. r.after \in {IdleReq} \cup ClosingReq \cup RenderReq
  BY DEF FreezeReq
<1>2. IdleReq.op = "idle"
  BY DEF IdleReq
<1>3. \A c \in ClosingReq : c.op = "closing"
  BY DEF ClosingReq
<1>4. \A c \in RenderReq : c.op = "rendering"
  BY DEF RenderReq
<1> QED
  BY <1>1, <1>2, <1>3, <1>4 DEF FreezeReq, Requests

LEMMA RowsTyped ==
    ASSUME TypeOK
    PROVE  /\ \A v \in Created : votes[v] \in Row /\ v \in Votes
           /\ OpenVotes \subseteq Created
           /\ \A v \in Votes : votes[v] \in Row => v \in Created
<1>1. \A v \in Created : votes[v] \in Row /\ v \in Votes
  BY DEF TypeOK, Created
<1>2. OpenVotes \subseteq Created
  BY DEF OpenVotes, Created, NoVote
<1>3. \A r \in Row : r.status \in {"OPEN", "CLOSED"}
  BY DEF Row
<1>4. NoVote \notin Row
  BY <1>3 DEF NoVote
<1> QED
  BY <1>1, <1>2, <1>4 DEF Created

(* A vote row rewritten is a row of the same vote: votes are never deleted. *)
LEMMA RowWrite ==
    ASSUME TypeOK, NEW v \in Votes, NEW row \in Row,
           votes' = [votes EXCEPT ![v] = row]
    PROVE  /\ votes' \in [Votes -> Row \cup {NoVote}]
           /\ Created' = Created \cup {v}
           /\ OpenVotes' = IF row.status = "OPEN" THEN OpenVotes \cup {v}
                                                  ELSE OpenVotes \ {v}
<1>1. /\ votes'[v] = row
      /\ \A u \in Votes : u # v => votes'[u] = votes[u]
      /\ votes' \in [Votes -> Row \cup {NoVote}]
  BY DEF TypeOK
<1>2. row # NoVote
  <2>1. row.status \in {"OPEN", "CLOSED"}
    BY DEF Row
  <2> QED
    BY <2>1 DEF NoVote
<1>3. Created' = Created \cup {v}
  BY <1>1, <1>2 DEF Created
<1>4. OpenVotes' = IF row.status = "OPEN" THEN OpenVotes \cup {v}
                                          ELSE OpenVotes \ {v}
  BY <1>1 DEF OpenVotes
<1> QED
  BY <1>1, <1>3, <1>4

LEMMA TallyTyped ==
    ASSUME TypeOK, NEW v \in Created
    PROVE  TallyOf(v) \in Results
<1>1. /\ Cardinality({l \in Lots : last[<<v, l>>] \in Papers}) \in Nat
      /\ Cardinality({l \in Lots : last[<<v, l>>] \in votes[v].papers}) \in Nat
  BY AssemblyAssumption, FS_Subset, FS_CardinalityType
<1>2. votes[v].papers \in SUBSET Papers
  BY RowsTyped DEF Row
<1> QED
  BY <1>1, <1>2 DEF TallyOf, Results

(* The row that Freeze writes.                                              *)
LEMMA FreezeWrite ==
    ASSUME TypeOK, TargetsExist, NEW w \in Workers, Freeze(w)
    PROVE  \E row \in Row :
              /\ row.status = "CLOSED" /\ row.papers = votes[req[w].vote].papers
              /\ row.result = IF req[w].tally = {} THEN votes[req[w].vote].result
                                                  ELSE req[w].tally
              /\ votes' = [votes EXCEPT ![req[w].vote] = row]
<1> DEFINE old == votes[req[w].vote]
           row == [old EXCEPT !.status = "CLOSED",
                              !.result = IF req[w].tally = {} THEN old.result
                                                              ELSE req[w].tally]
<1>1. req[w] \in FreezeReq /\ req[w].vote \in Created
  BY RequestShape DEF Freeze, TypeOK, TargetsExist
<1>2. old \in Row /\ req[w].vote \in Votes /\ req[w].tally \in SUBSET Results
  BY <1>1, RowsTyped, AfterShape
<1>3. /\ row \in Row /\ row.status = "CLOSED" /\ row.papers = old.papers
      /\ row.result = IF req[w].tally = {} THEN old.result ELSE req[w].tally
  BY <1>2 DEF Row
<1>4. votes' = [votes EXCEPT ![req[w].vote] = row]
  BY <1>2 DEF Freeze, TypeOK
<1> QED
  BY <1>3, <1>4

(* The row that VoteEdited writes.                                          *)
LEMMA EditWrite ==
    ASSUME TypeOK, TargetsExist, NEW w \in Workers, VoteEdited(w)
    PROVE  \E row \in Row :
              /\ row.status = votes[req[w].vote].status
              /\ row.result = votes[req[w].vote].result
              /\ votes' = [votes EXCEPT ![req[w].vote] = row]
<1> DEFINE r == req[w]
           old == votes[r.vote]
           ps == IF r.replace THEN old.papers \ r.old ELSE old.papers
           due == IF r.due = {} THEN old.due ELSE TRUE \in r.due
           row == [old EXCEPT !.papers = ps, !.due = due]
<1>1. r \in EditReq /\ r.vote \in Created
  BY RequestShape DEF VoteEdited, TypeOK, TargetsExist
<1>2. old \in Row /\ r.vote \in Votes
  BY <1>1, RowsTyped
<1>3. row \in Row /\ row.status = old.status /\ row.result = old.result
  <2>1. ps \in SUBSET Papers
    BY <1>2 DEF Row
  <2>2. due \in BOOLEAN
    <3>1. old.due \in BOOLEAN
      BY <1>2 DEF Row
    <3>2. (TRUE \in r.due) \in BOOLEAN
      OBVIOUS
    <3> QED
      BY <3>1, <3>2
  <2> HIDE DEF ps, due
  <2> QED
    BY <1>2, <2>1, <2>2 DEF Row
<1>4. votes' = [votes EXCEPT ![r.vote] = row]
  BY <1>2 DEF VoteEdited, TypeOK
<1> QED
  BY <1>3, <1>4

(* The row that PrintOptions writes.                                        *)
LEMMA PrintWrite ==
    ASSUME TypeOK, TargetsExist, NEW w \in Workers, PrintOptions(w)
    PROVE  \E row \in Row :
              /\ row.status = votes[req[w].vote].status
              /\ row.result = votes[req[w].vote].result
              /\ votes' = [votes EXCEPT ![req[w].vote] = row]
<1>1. req[w].vote \in Created
  BY DEF PrintOptions, TargetsExist
<1>2. votes[req[w].vote] \in Row /\ req[w].vote \in Votes
  BY <1>1, RowsTyped
<1>3. PICK p \in Papers :
         votes' = [votes EXCEPT ![req[w].vote].papers = @ \cup {p}]
  BY DEF PrintOptions
<1> DEFINE row == [votes[req[w].vote] EXCEPT
                     !.papers = votes[req[w].vote].papers \cup {p}]
<1>4. /\ row \in Row /\ row.status = votes[req[w].vote].status
      /\ row.result = votes[req[w].vote].result
  BY <1>2 DEF Row
<1>5. votes' = [votes EXCEPT ![req[w].vote] = row]
  BY <1>2, <1>3 DEF TypeOK
<1> QED
  BY <1>4, <1>5
-----------------------------------------------------------------------------
LEMMA TypeInit == Init => TypeOK
  BY DEF Init, TypeOK, Phases, Requests

(* A step that hands a worker a well-formed request keeps their type.       *)
LEMMA GoTyped ==
    ASSUME TypeOK, NEW w \in Workers, NEW r \in Requests, Go(w, r)
    PROVE  req' \in [Workers -> Requests]
  BY DEF TypeOK, Go

LEMMA MaterializeTyped ==
    ASSUME TypeOK, NEW w \in Workers, NEW v \in Created,
           NEW after \in {IdleReq} \cup ClosingReq \cup RenderReq,
           Materialize(w, v, after)
    PROVE  req' \in [Workers -> Requests]
<1> DEFINE tally == IF votes[v].result = {} THEN {TallyOf(v)} ELSE {}
           r == [op |-> "freezing", vote |-> v, after |-> after, tally |-> tally]
<1>1. tally \in SUBSET Results
  BY TallyTyped
<1>2. v \in Votes
  BY RowsTyped
<1> HIDE DEF tally
<1>3. r \in Requests
  BY <1>1, <1>2 DEF FreezeReq, Requests
<1>4. Go(w, r)
  BY DEF Materialize, tally
<1> QED
  BY <1>3, <1>4, GoTyped

LEMMA IdleTyped == IdleReq \in Requests
  BY DEF Requests

LEMMA TypeStep == TypeOK /\ TargetsExist /\ [Next]_vars => TypeOK'
<1> SUFFICES ASSUME TypeOK, TargetsExist, [Next]_vars PROVE TypeOK'
  OBVIOUS
<1> USE DEF archive
<1>1. CASE UNCHANGED vars
  BY <1>1 DEF vars, TypeOK
<1>2. ASSUME NEW v \in Votes, Elapse(v)
      PROVE  TypeOK'
  <2>1. votes[v] \in Row
    BY <1>2, RowsTyped DEF Elapse
  <2>2. [votes[v] EXCEPT !.due = TRUE] \in Row
    BY <2>1 DEF Row
  <2>3. votes' \in [Votes -> Row \cup {NoVote}]
    BY <1>2, <2>2 DEF Elapse, TypeOK
  <2> QED
    BY <1>2, <2>3 DEF Elapse, TypeOK
<1>3. ASSUME NEW w \in Workers, CreateVote(w)
      PROVE  TypeOK'
  <2>1. PICK v \in Votes, due \in BOOLEAN :
           /\ votes' = [votes EXCEPT ![v] =
                [status |-> "OPEN", papers |-> {}, due |-> due, result |-> {}]]
           /\ late' \subseteq late \cup {v}
           /\ Go(w, [op |-> "printing", vote |-> v])
    BY <1>3 DEF CreateVote
  <2>2. [status |-> "OPEN", papers |-> {}, due |-> due, result |-> {}] \in Row
    BY DEF Row
  <2>3. votes' \in [Votes -> Row \cup {NoVote}]
    BY <2>1, <2>2 DEF TypeOK
  <2>4. [op |-> "printing", vote |-> v] \in Requests
    BY DEF OptionsReq, Requests
  <2>5. req' \in [Workers -> Requests]
    BY <2>1, <2>4, GoTyped
  <2> QED
    BY <1>3, <2>1, <2>3, <2>5 DEF CreateVote, TypeOK
<1>4. ASSUME NEW w \in Workers, PrintOptions(w)
      PROVE  TypeOK'
  <2>1. votes' \in [Votes -> Row \cup {NoVote}]
    BY <1>4, PrintWrite DEF TypeOK
  <2>2. req' \in [Workers -> Requests]
    BY <1>4, IdleTyped, GoTyped DEF PrintOptions
  <2>3. printed' \subseteq Papers
    BY <1>4 DEF PrintOptions, TypeOK
  <2> QED
    BY <1>4, <2>1, <2>2, <2>3 DEF PrintOptions, TypeOK
<1>5. ASSUME NEW w \in Workers, EditVote(w)
      PROVE  TypeOK'
  <2>1. PICK v \in Votes, replace \in BOOLEAN, due \in {{}, {TRUE}, {FALSE}} :
           /\ Editable(v)
           /\ Go(w, [op |-> "editing", vote |-> v, old |-> votes[v].papers,
                     replace |-> replace, due |-> due])
    BY <1>5 DEF EditVote
  <2>2. votes[v].papers \in SUBSET Papers
    BY <2>1, RowsTyped DEF Editable, Row
  <2>3. [op |-> "editing", vote |-> v, old |-> votes[v].papers,
         replace |-> replace, due |-> due] \in Requests
    BY <2>2 DEF EditReq, Requests
  <2> QED
    BY <1>5, <2>1, <2>3, GoTyped DEF EditVote, TypeOK
<1>6. ASSUME NEW w \in Workers, VoteEdited(w)
      PROVE  TypeOK'
  <2>1. votes' \in [Votes -> Row \cup {NoVote}]
    BY <1>6, EditWrite DEF TypeOK
  <2>2. req[w].vote \in Votes
    BY <1>6, RowsTyped DEF VoteEdited, TargetsExist
  <2>3. [op |-> "printing", vote |-> req[w].vote] \in Requests
    BY <2>2 DEF OptionsReq, Requests
  <2>4. req' \in [Workers -> Requests]
    BY <1>6, <2>3, IdleTyped, GoTyped DEF VoteEdited
  <2> QED
    BY <1>6, <2>1, <2>4 DEF VoteEdited, TypeOK
<1>7. ASSUME NEW w \in Workers, CastCheck(w)
      PROVE  TypeOK'
  <2>1. PICK v \in OpenVotes, l \in Lots :
           \E c \in votes[v].papers \cup {Withdrawn} :
              Go(w, [op |-> "casting", vote |-> v, lot |-> l, choice |-> c])
    BY <1>7 DEF CastCheck
  <2>2. PICK c \in votes[v].papers \cup {Withdrawn} :
           Go(w, [op |-> "casting", vote |-> v, lot |-> l, choice |-> c])
    BY <2>1
  <2>3. v \in Votes /\ c \in Papers \cup {Withdrawn}
    BY RowsTyped DEF Row
  <2>4. [op |-> "casting", vote |-> v, lot |-> l, choice |-> c] \in Requests
    BY <2>3 DEF CastReq, Requests
  <2> QED
    BY <1>7, <2>2, <2>4, GoTyped DEF CastCheck, TypeOK
<1>8. ASSUME NEW w \in Workers, AppendRow(w)
      PROVE  TypeOK'
  <2>1. req[w] \in CastReq
    BY <1>8, RequestShape DEF AppendRow, TypeOK
  <2>2. last' \in [Votes \X Lots -> Papers \cup {NoRow, Withdrawn}]
    BY <1>8, <2>1 DEF AppendRow, CastReq, TypeOK
  <2> QED
    BY <1>8, <2>2, IdleTyped, GoTyped DEF AppendRow, TypeOK
<1>9. ASSUME NEW w \in Workers, Freeze(w)
      PROVE  TypeOK'
  <2>1. votes' \in [Votes -> Row \cup {NoVote}]
    BY <1>9, FreezeWrite DEF TypeOK
  <2>2. req[w].after \in Requests
    BY <1>9, RequestShape, AfterShape DEF Freeze, TypeOK
  <2> QED
    BY <1>9, <2>1, <2>2, GoTyped DEF Freeze, TypeOK
<1>10. ASSUME NEW w \in Workers, CloseVote(w)
       PROVE  TypeOK'
  <2>1. req' \in [Workers -> Requests]
    BY <1>10, MaterializeTyped, RowsTyped DEF CloseVote
  <2> QED
    BY <1>10, <2>1 DEF CloseVote, TypeOK
<1>11. ASSUME NEW w \in Workers, CloseAssembly(w)
       PROVE  TypeOK'
  <2>1. [op |-> "closing", left |-> Created] \in Requests
    BY DEF ClosingReq, Requests, Created
  <2> QED
    BY <1>11, <2>1, GoTyped DEF CloseAssembly, TypeOK
<1>12. ASSUME NEW w \in Workers, Cascade(w)
       PROVE  TypeOK'
  <2>1. PICK v \in req[w].left :
           Materialize(w, v, [op |-> "closing", left |-> req[w].left \ {v}])
    BY <1>12 DEF Cascade
  <2>2. req[w] \in ClosingReq /\ v \in Created
    BY <1>12, <2>1, RequestShape DEF Cascade, TypeOK, TargetsExist, LeftOf
  <2>3. [op |-> "closing", left |-> req[w].left \ {v}] \in ClosingReq
    BY <2>2 DEF ClosingReq
  <2>4. req' \in [Workers -> Requests]
    BY <2>1, <2>2, <2>3, MaterializeTyped
  <2> QED
    BY <1>12, <2>4 DEF Cascade, TypeOK
<1>13. ASSUME NEW w \in Workers, AssemblyClosed(w)
       PROVE  TypeOK'
  BY <1>13, IdleTyped, GoTyped DEF AssemblyClosed, TypeOK, Phases
<1>14. ASSUME NEW w \in Workers, PatchAssembly(w)
       PROVE  TypeOK'
  <2>1. PICK s \in {"DRAFT", "OPEN"} : Go(w, [op |-> "patching", to |-> s])
    BY <1>14 DEF PatchAssembly
  <2>2. [op |-> "patching", to |-> s] \in Requests
    BY DEF PatchReq, Requests
  <2> QED
    BY <1>14, <2>1, <2>2, GoTyped DEF PatchAssembly, TypeOK
<1>15. ASSUME NEW w \in Workers, AssemblyPatched(w)
       PROVE  TypeOK'
  <2>1. req[w].to \in {"DRAFT", "OPEN"}
    BY <1>15, RequestShape DEF AssemblyPatched, TypeOK, PatchReq
  <2> QED
    BY <1>15, <2>1, IdleTyped, GoTyped DEF AssemblyPatched, TypeOK, Phases
<1>16. ASSUME NEW w \in Workers, RenderMinutes(w)
       PROVE  TypeOK'
  <2>1. [op |-> "rendering", left |-> Created, report |-> {}] \in Requests
    BY DEF RenderReq, Requests, Created
  <2> QED
    BY <1>16, <2>1, GoTyped DEF RenderMinutes, TypeOK
<1>17. ASSUME NEW w \in Workers, RenderVote(w)
       PROVE  TypeOK'
  <2>1. PICK v \in req[w].left :
           \/ Materialize(w, v, req[w])
           \/ \E t \in votes[v].result :
                 Go(w, [op |-> "rendering", left |-> req[w].left \ {v},
                        report |-> req[w].report \cup {[vote |-> v, result |-> t]}])
    BY <1>17 DEF RenderVote
  <2>2. req[w] \in RenderReq /\ v \in Created
    BY <1>17, <2>1, RequestShape DEF RenderVote, TypeOK, TargetsExist, LeftOf
  <2>3. CASE Materialize(w, v, req[w])
    BY <1>17, <2>2, <2>3, MaterializeTyped DEF RenderVote, TypeOK
  <2>4. ASSUME NEW t \in votes[v].result,
               Go(w, [op |-> "rendering", left |-> req[w].left \ {v},
                      report |-> req[w].report \cup {[vote |-> v, result |-> t]}])
        PROVE  TypeOK'
    <3>1. t \in Results /\ v \in Votes
      BY <2>2, RowsTyped DEF Row
    <3>2. [vote |-> v, result |-> t] \in Entries
      BY <3>1 DEF Entries
    <3>3. [op |-> "rendering", left |-> req[w].left \ {v},
           report |-> req[w].report \cup {[vote |-> v, result |-> t]}] \in Requests
      BY <2>2, <3>2 DEF RenderReq, Requests
    <3> QED
      BY <1>17, <2>4, <3>3, GoTyped DEF RenderVote, TypeOK
  <2> QED
    BY <2>1, <2>3, <2>4
<1>18. ASSUME NEW w \in Workers, FindFolder(w)
       PROVE  TypeOK'
  <2>1. req[w].report \in SUBSET Entries
    BY <1>18, RequestShape DEF FindFolder, TypeOK, RenderReq
  <2>2. [op |-> "foldering", report |-> req[w].report] \in Requests
    BY <2>1 DEF FolderReq, Requests
  <2>3. \A f \in folders :
           [op |-> "filing", folder |-> f, report |-> req[w].report] \in Requests
    BY <2>1 DEF FileReq, Requests, TypeOK
  <2> QED
    BY <1>18, <2>2, <2>3, GoTyped DEF FindFolder, TypeOK
<1>19. ASSUME NEW w \in Workers, MakeFolder(w)
       PROVE  TypeOK'
  <2>1. req[w].report \in SUBSET Entries
    BY <1>19, RequestShape DEF MakeFolder, TypeOK, FolderReq
  <2>2. \A f \in Folders :
           [op |-> "filing", folder |-> f, report |-> req[w].report] \in Requests
    BY <2>1 DEF FileReq, Requests
  <2> QED
    BY <1>19, <2>2, GoTyped DEF MakeFolder, TypeOK
<1>20. ASSUME NEW w \in Workers, FileMinutes(w)
       PROVE  TypeOK'
  <2>1. req[w] \in FileReq
    BY <1>20, RequestShape DEF FileMinutes, TypeOK
  <2>2. [folder |-> req[w].folder, report |-> req[w].report] \in Documents
    BY <2>1 DEF FileReq, Documents
  <2> QED
    BY <1>20, <2>2, IdleTyped, GoTyped DEF FileMinutes, TypeOK
<1>21. ASSUME NEW w \in Workers, Stop(w)
       PROVE  TypeOK'
  BY <1>21, IdleTyped, GoTyped DEF Stop, TypeOK
<1> QED
  BY <1>1, <1>2, <1>3, <1>4, <1>5, <1>6, <1>7, <1>8, <1>9, <1>10, <1>11,
     <1>12, <1>13, <1>14, <1>15, <1>16, <1>17, <1>18, <1>19, <1>20, <1>21
     DEF Next, Agenda, Closing, Filing
-----------------------------------------------------------------------------
(* No step deletes a vote, and a step that rewrites a row without opening   *)
(* or closing the vote leaves the open votes as they are.                   *)
LEMMA SameStatus ==
    ASSUME TypeOK, NEW v \in Created, NEW row \in Row,
           row.status = votes[v].status, votes' = [votes EXCEPT ![v] = row]
    PROVE  Created' = Created /\ OpenVotes' = OpenVotes
<1>1. v \in Votes
  BY RowsTyped
<1>2. row.status = "OPEN" <=> v \in OpenVotes
  BY <1>1 DEF OpenVotes
<1>3. /\ Created' = Created \cup {v}
      /\ OpenVotes' = IF row.status = "OPEN" THEN OpenVotes \cup {v}
                                             ELSE OpenVotes \ {v}
  BY <1>1, RowWrite
<1>4. Created' = Created
  BY <1>3
<1>5. OpenVotes' = OpenVotes
  BY <1>2, <1>3
<1> QED
  BY <1>4, <1>5

LEMMA EditKeeps ==
    ASSUME TypeOK, TargetsExist, NEW w \in Workers,
           VoteEdited(w) \/ PrintOptions(w)
    PROVE  Created' = Created /\ OpenVotes' = OpenVotes
<1>1. req[w].vote \in Created
  BY DEF VoteEdited, PrintOptions, TargetsExist
<1>2. CASE VoteEdited(w)
  BY <1>1, <1>2, EditWrite, SameStatus
<1>3. CASE PrintOptions(w)
  BY <1>1, <1>3, PrintWrite, SameStatus
<1> QED
  BY <1>2, <1>3

LEMMA ElapseKeeps ==
    ASSUME TypeOK, NEW v \in Votes, Elapse(v)
    PROVE  Created' = Created /\ OpenVotes' = OpenVotes
<1>1. v \in Created /\ votes[v] \in Row
  BY RowsTyped DEF Elapse
<1> DEFINE row == [votes[v] EXCEPT !.due = TRUE]
<1>2. row \in Row /\ row.status = votes[v].status
  BY <1>1 DEF Row
<1>3. votes' = [votes EXCEPT ![v] = row]
  BY <1>1 DEF Elapse, TypeOK
<1> QED
  BY <1>1, <1>2, <1>3, SameStatus

LEMMA FreezeCloses ==
    ASSUME TypeOK, TargetsExist, NEW w \in Workers, Freeze(w)
    PROVE  Created' = Created /\ OpenVotes' = OpenVotes \ {req[w].vote}
<1>1. req[w].vote \in Created /\ req[w].vote \in Votes
  BY RowsTyped DEF Freeze, TargetsExist
<1>2. PICK row \in Row :
         /\ row.status = "CLOSED"
         /\ votes' = [votes EXCEPT ![req[w].vote] = row]
  BY FreezeWrite
<1>3. /\ Created' = Created \cup {req[w].vote}
      /\ OpenVotes' = IF row.status = "OPEN" THEN OpenVotes \cup {req[w].vote}
                                             ELSE OpenVotes \ {req[w].vote}
  BY <1>1, <1>2, RowWrite
<1> QED
  BY <1>1, <1>2, <1>3

LEMMA CreateOpens ==
    ASSUME TypeOK, NEW w \in Workers, CreateVote(w)
    PROVE  \E v \in Votes :
              /\ Created' = Created \cup {v}
              /\ OpenVotes' = OpenVotes \cup {v}
              /\ late' = IF assembly = "CLOSED" \/ \E x \in Workers : Closes(req[x])
                            THEN late \cup {v} ELSE late
              /\ Go(w, [op |-> "printing", vote |-> v])
<1>1. PICK v \in Votes, due \in BOOLEAN :
         /\ votes' = [votes EXCEPT ![v] =
              [status |-> "OPEN", papers |-> {}, due |-> due, result |-> {}]]
         /\ late' = IF assembly = "CLOSED" \/ \E x \in Workers : Closes(req[x])
                       THEN late \cup {v} ELSE late
         /\ Go(w, [op |-> "printing", vote |-> v])
  BY DEF CreateVote
<1> DEFINE row == [status |-> "OPEN", papers |-> {}, due |-> due, result |-> {}]
<1>2. row \in Row /\ row.status = "OPEN"
  BY DEF Row
<1>3. Created' = Created \cup {v} /\ OpenVotes' = OpenVotes \cup {v}
  BY <1>1, <1>2, RowWrite
<1> QED
  BY <1>1, <1>3
-----------------------------------------------------------------------------
LEMMA TargetsInit == Init => TargetsExist
  BY DEF Init, TargetsExist, IdleReq, LeftOf

(* A step that hands worker w a request on existing votes and deletes none. *)
LEMMA TargetsGo ==
    ASSUME TypeOK, TargetsExist, NEW w \in Workers, NEW r, Go(w, r),
           Created \subseteq Created',
           r.op \in {"printing", "editing", "freezing", "casting"}
              => r.vote \in Created',
           LeftOf(r) \subseteq Created',
           r.op = "freezing" => LeftOf(r.after) \subseteq Created'
    PROVE  TargetsExist'
<1> SUFFICES ASSUME NEW x \in Workers
             PROVE  /\ req'[x].op \in {"printing", "editing", "freezing", "casting"}
                          => req'[x].vote \in Created'
                    /\ LeftOf(req'[x]) \subseteq Created'
                    /\ req'[x].op = "freezing"
                          => LeftOf(req'[x].after) \subseteq Created'
  BY DEF TargetsExist, LeftOf
<1>1. CASE x = w
  BY <1>1 DEF Go, TypeOK
<1>2. CASE x # w
  <2>1. req'[x] = req[x]
    BY <1>2 DEF Go, TypeOK
  <2> QED
    BY <2>1 DEF TargetsExist
<1> QED
  BY <1>1, <1>2

(* The requests that touch no vote.                                         *)
LEMMA TargetsQuiet ==
    ASSUME TypeOK, TargetsExist, NEW w \in Workers, NEW r, Go(w, r),
           Created' = Created,
           r.op \in {"idle", "patching", "foldering", "filing"}
    PROVE  TargetsExist'
<1>1. LeftOf(r) = {}
  BY DEF LeftOf
<1> QED
  BY <1>1, TargetsGo

LEMMA TargetsMaterialize ==
    ASSUME TypeOK, TargetsExist, NEW w \in Workers, NEW v \in Created,
           NEW after, Materialize(w, v, after), Created' = Created,
           LeftOf(after) \subseteq Created
    PROVE  TargetsExist'
<1> DEFINE r == [op |-> "freezing", vote |-> v, after |-> after,
                 tally |-> IF votes[v].result = {} THEN {TallyOf(v)} ELSE {}]
<1>1. /\ r.op = "freezing" /\ r.vote \in Created /\ r.after = after
      /\ Go(w, r)
  BY DEF Materialize
<1>2. LeftOf(r) = {}
  BY <1>1 DEF LeftOf
<1> HIDE DEF r
<1> QED
  BY <1>1, <1>2, TargetsGo

LEMMA TargetsStep == TypeOK /\ TargetsExist /\ [Next]_vars => TargetsExist'
<1> SUFFICES ASSUME TypeOK, TargetsExist, [Next]_vars PROVE TargetsExist'
  OBVIOUS
<1>0. IdleReq.op = "idle"
  BY DEF IdleReq
<1>1. CASE UNCHANGED vars
  BY <1>1 DEF vars, TargetsExist, LeftOf, Created
<1>2. ASSUME NEW v \in Votes, Elapse(v)
      PROVE  TargetsExist'
  BY <1>2, ElapseKeeps DEF Elapse, TargetsExist, LeftOf
<1>3. ASSUME NEW w \in Workers, CreateVote(w)
      PROVE  TargetsExist'
  <2>1. PICK v \in Votes :
           /\ Created' = Created \cup {v}
           /\ Go(w, [op |-> "printing", vote |-> v])
    BY <1>3, CreateOpens
  <2>2. LeftOf([op |-> "printing", vote |-> v]) = {}
    BY DEF LeftOf
  <2> QED
    BY <2>1, <2>2, TargetsGo
<1>4. ASSUME NEW w \in Workers, PrintOptions(w)
      PROVE  TargetsExist'
  BY <1>0, <1>4, EditKeeps, TargetsQuiet DEF PrintOptions
<1>5. ASSUME NEW w \in Workers, EditVote(w)
      PROVE  TargetsExist'
  <2>1. PICK v \in Votes, replace \in BOOLEAN, due \in {{}, {TRUE}, {FALSE}} :
           /\ Editable(v)
           /\ Go(w, [op |-> "editing", vote |-> v, old |-> votes[v].papers,
                     replace |-> replace, due |-> due])
    BY <1>5 DEF EditVote
  <2> DEFINE r == [op |-> "editing", vote |-> v, old |-> votes[v].papers,
                   replace |-> replace, due |-> due]
  <2>2. r.op = "editing" /\ r.vote \in Created /\ LeftOf(r) = {} /\ Go(w, r)
    BY <2>1 DEF Editable, LeftOf
  <2>3. Created' = Created
    BY <1>5 DEF EditVote, Created
  <2> HIDE DEF r
  <2> QED
    BY <2>2, <2>3, TargetsGo
<1>6. ASSUME NEW w \in Workers, VoteEdited(w)
      PROVE  TargetsExist'
  <2>1. Created' = Created /\ req[w].vote \in Created
    BY <1>6, EditKeeps DEF VoteEdited, TargetsExist
  <2>2. CASE Go(w, IdleReq)
    BY <1>0, <2>1, <2>2, TargetsQuiet
  <2>3. CASE Go(w, [op |-> "printing", vote |-> req[w].vote])
    <3>1. LeftOf([op |-> "printing", vote |-> req[w].vote]) = {}
      BY DEF LeftOf
    <3> QED
      BY <2>1, <2>3, <3>1, TargetsGo
  <2> QED
    BY <1>6, <2>2, <2>3 DEF VoteEdited
<1>7. ASSUME NEW w \in Workers, CastCheck(w)
      PROVE  TargetsExist'
  <2>1. PICK v \in OpenVotes, l \in Lots :
           \E c \in votes[v].papers \cup {Withdrawn} :
              Go(w, [op |-> "casting", vote |-> v, lot |-> l, choice |-> c])
    BY <1>7 DEF CastCheck
  <2>2. PICK c \in votes[v].papers \cup {Withdrawn} :
           Go(w, [op |-> "casting", vote |-> v, lot |-> l, choice |-> c])
    BY <2>1
  <2> DEFINE r == [op |-> "casting", vote |-> v, lot |-> l, choice |-> c]
  <2>3. r.op = "casting" /\ r.vote \in Created /\ LeftOf(r) = {} /\ Go(w, r)
    BY <2>2, RowsTyped DEF LeftOf
  <2>4. Created' = Created
    BY <1>7 DEF CastCheck, Created
  <2> HIDE DEF r
  <2> QED
    BY <2>3, <2>4, TargetsGo
<1>8. ASSUME NEW w \in Workers, AppendRow(w)
      PROVE  TargetsExist'
  BY <1>0, <1>8, TargetsQuiet DEF AppendRow, Created
<1>9. ASSUME NEW w \in Workers, Freeze(w)
      PROVE  TargetsExist'
  <2>1. req[w].after.op \in {"idle", "closing", "rendering"}
    BY <1>9, RequestShape, AfterShape DEF Freeze, TypeOK
  <2>2. LeftOf(req[w].after) \subseteq Created
    BY <1>9 DEF Freeze, TargetsExist
  <2> QED
    BY <1>9, <2>1, <2>2, FreezeCloses, TargetsGo DEF Freeze
<1>10. ASSUME NEW w \in Workers, CloseVote(w)
       PROVE  TargetsExist'
  <2>1. LeftOf(IdleReq) = {} /\ Created' = Created
    BY <1>0, <1>10 DEF LeftOf, CloseVote, Created
  <2> QED
    BY <1>10, <2>1, RowsTyped, TargetsMaterialize DEF CloseVote
<1>11. ASSUME NEW w \in Workers, CloseAssembly(w)
       PROVE  TargetsExist'
  <2>1. LeftOf([op |-> "closing", left |-> Created]) = Created
    BY DEF LeftOf
  <2>2. Created' = Created
    BY <1>11 DEF CloseAssembly, Created
  <2> QED
    BY <1>11, <2>1, <2>2, TargetsGo DEF CloseAssembly
<1>12. ASSUME NEW w \in Workers, Cascade(w)
       PROVE  TargetsExist'
  <2>1. PICK v \in req[w].left :
           Materialize(w, v, [op |-> "closing", left |-> req[w].left \ {v}])
    BY <1>12 DEF Cascade
  <2>2. req[w].left \subseteq Created
    BY <1>12 DEF Cascade, TargetsExist, LeftOf
  <2>3. LeftOf([op |-> "closing", left |-> req[w].left \ {v}]) \subseteq Created
    BY <2>2 DEF LeftOf
  <2>4. Created' = Created
    BY <1>12 DEF Cascade, Created
  <2> QED
    BY <2>1, <2>2, <2>3, <2>4, TargetsMaterialize
<1>13. ASSUME NEW w \in Workers, AssemblyClosed(w)
       PROVE  TargetsExist'
  BY <1>0, <1>13, TargetsQuiet DEF AssemblyClosed, Created
<1>14. ASSUME NEW w \in Workers, PatchAssembly(w)
       PROVE  TargetsExist'
  BY <1>14, TargetsQuiet DEF PatchAssembly, Created
<1>15. ASSUME NEW w \in Workers, AssemblyPatched(w)
       PROVE  TargetsExist'
  BY <1>0, <1>15, TargetsQuiet DEF AssemblyPatched, Created
<1>16. ASSUME NEW w \in Workers, RenderMinutes(w)
       PROVE  TargetsExist'
  <2>1. LeftOf([op |-> "rendering", left |-> Created, report |-> {}]) = Created
    BY DEF LeftOf
  <2>2. Created' = Created
    BY <1>16 DEF RenderMinutes, Created
  <2> QED
    BY <1>16, <2>1, <2>2, TargetsGo DEF RenderMinutes
<1>17. ASSUME NEW w \in Workers, RenderVote(w)
       PROVE  TargetsExist'
  <2>1. PICK v \in req[w].left :
           \/ Materialize(w, v, req[w])
           \/ \E t \in votes[v].result :
                 Go(w, [op |-> "rendering", left |-> req[w].left \ {v},
                        report |-> req[w].report \cup {[vote |-> v, result |-> t]}])
    BY <1>17 DEF RenderVote
  <2>2. LeftOf(req[w]) = req[w].left /\ req[w].left \subseteq Created
    BY <1>17 DEF RenderVote, TargetsExist, LeftOf
  <2>3. Created' = Created
    BY <1>17 DEF RenderVote, Created
  <2>4. CASE Materialize(w, v, req[w])
    BY <2>2, <2>3, <2>4, TargetsMaterialize
  <2>5. ASSUME NEW t \in votes[v].result,
               Go(w, [op |-> "rendering", left |-> req[w].left \ {v},
                      report |-> req[w].report \cup {[vote |-> v, result |-> t]}])
        PROVE  TargetsExist'
    <3>1. LeftOf([op |-> "rendering", left |-> req[w].left \ {v},
                  report |-> req[w].report \cup {[vote |-> v, result |-> t]}])
             \subseteq Created
      BY <2>2 DEF LeftOf
    <3> QED
      BY <2>3, <2>5, <3>1, TargetsGo
  <2> QED
    BY <2>1, <2>4, <2>5
<1>18. ASSUME NEW w \in Workers, FindFolder(w)
       PROVE  TargetsExist'
  <2>1. Created' = Created
    BY <1>18 DEF FindFolder, Created
  <2>2. CASE Go(w, [op |-> "foldering", report |-> req[w].report])
    BY <2>1, <2>2, TargetsQuiet
  <2>3. ASSUME NEW f \in folders,
               Go(w, [op |-> "filing", folder |-> f, report |-> req[w].report])
        PROVE  TargetsExist'
    BY <2>1, <2>3, TargetsQuiet
  <2> QED
    BY <1>18, <2>2, <2>3 DEF FindFolder
<1>19. ASSUME NEW w \in Workers, MakeFolder(w)
       PROVE  TargetsExist'
  BY <1>19, TargetsQuiet DEF MakeFolder, Created
<1>20. ASSUME NEW w \in Workers, FileMinutes(w)
       PROVE  TargetsExist'
  BY <1>0, <1>20, TargetsQuiet DEF FileMinutes, Created
<1>21. ASSUME NEW w \in Workers, Stop(w)
       PROVE  TargetsExist'
  BY <1>0, <1>21, TargetsQuiet DEF Stop, Created
<1> QED
  BY <1>1, <1>2, <1>3, <1>4, <1>5, <1>6, <1>7, <1>8, <1>9, <1>10, <1>11,
     <1>12, <1>13, <1>14, <1>15, <1>16, <1>17, <1>18, <1>19, <1>20, <1>21
     DEF Next, Agenda, Closing, Filing
-----------------------------------------------------------------------------
LEMMA AssemblyInit == Init => AssemblyInv
  BY DEF Init, AssemblyInv, CascadeInv, OpenVotesAreLate, IdleReq

(* A step that opens no vote but as a late one, and hands worker w a        *)
(* request that has gone past no other open vote.                           *)
LEMMA CascadeGo ==
    ASSUME TypeOK, CascadeInv, NEW w \in Workers, NEW r, Go(w, r),
           OpenVotes' \subseteq OpenVotes, late' = late,
           r.op = "closing" => OpenVotes' \subseteq r.left \cup late,
           (r.op = "freezing" /\ r.after.op = "closing")
              => OpenVotes' \subseteq r.after.left \cup {r.vote} \cup late
    PROVE  CascadeInv'
<1> SUFFICES ASSUME NEW x \in Workers
             PROVE  /\ req'[x].op = "closing"
                          => OpenVotes' \subseteq req'[x].left \cup late'
                    /\ (req'[x].op = "freezing" /\ req'[x].after.op = "closing")
                          => OpenVotes' \subseteq
                                req'[x].after.left \cup {req'[x].vote} \cup late'
  BY DEF CascadeInv
<1>1. CASE x = w
  <2>1. req'[x] = r
    BY <1>1 DEF Go, TypeOK
  <2> QED
    BY <2>1
<1>2. CASE x # w
  <2>1. req'[x] = req[x]
    BY <1>2 DEF Go, TypeOK
  <2> QED
    BY <2>1 DEF CascadeInv
<1> QED
  BY <1>1, <1>2

(* The requests that close no assembly, while no vote opens.                *)
LEMMA CascadeQuiet ==
    ASSUME TypeOK, AssemblyInv, NEW w \in Workers, NEW r, Go(w, r),
           OpenVotes' \subseteq OpenVotes, late' = late, assembly' = assembly,
           r.op # "closing",
           r.op # "freezing" \/ r.after.op # "closing"
    PROVE  AssemblyInv'
<1>1. CascadeInv'
  BY CascadeGo DEF AssemblyInv
<1>2. OpenVotesAreLate'
  BY DEF AssemblyInv, OpenVotesAreLate
<1> QED
  BY <1>1, <1>2 DEF AssemblyInv

LEMMA CascadeMaterialize ==
    ASSUME TypeOK, AssemblyInv, NEW w \in Workers, NEW v, NEW after,
           Materialize(w, v, after), OpenVotes' = OpenVotes, late' = late,
           assembly' = assembly,
           after.op = "closing" => OpenVotes \subseteq after.left \cup {v} \cup late
    PROVE  AssemblyInv'
<1> DEFINE r == [op |-> "freezing", vote |-> v, after |-> after,
                 tally |-> IF votes[v].result = {} THEN {TallyOf(v)} ELSE {}]
<1>1. r.op = "freezing" /\ r.vote = v /\ r.after = after /\ Go(w, r)
  BY DEF Materialize
<1> HIDE DEF r
<1>2. CascadeInv'
  BY <1>1, CascadeGo DEF AssemblyInv
<1>3. OpenVotesAreLate'
  BY DEF AssemblyInv, OpenVotesAreLate
<1> QED
  BY <1>2, <1>3 DEF AssemblyInv

LEMMA AssemblyStep ==
    TypeOK /\ TargetsExist /\ AssemblyInv /\ [Next]_vars => AssemblyInv'
<1> SUFFICES ASSUME TypeOK, TargetsExist, AssemblyInv, [Next]_vars
             PROVE  AssemblyInv'
  OBVIOUS
<1>0. IdleReq.op = "idle"
  BY DEF IdleReq
<1>1. CASE UNCHANGED vars
  BY <1>1 DEF vars, AssemblyInv, CascadeInv, OpenVotesAreLate, OpenVotes
<1>2. ASSUME NEW v \in Votes, Elapse(v)
      PROVE  AssemblyInv'
  BY <1>2, ElapseKeeps DEF Elapse, AssemblyInv, CascadeInv, OpenVotesAreLate
<1>3. ASSUME NEW w \in Workers, CreateVote(w)
      PROVE  AssemblyInv'
  <2>1. PICK v \in Votes :
           /\ OpenVotes' = OpenVotes \cup {v}
           /\ late' = IF assembly = "CLOSED" \/ \E x \in Workers : Closes(req[x])
                         THEN late \cup {v} ELSE late
           /\ Go(w, [op |-> "printing", vote |-> v])
    BY <1>3, CreateOpens
  <2>2. OpenVotesAreLate'
    BY <1>3, <2>1 DEF CreateVote, AssemblyInv, OpenVotesAreLate
  <2>3. CascadeInv'
    <3> SUFFICES ASSUME NEW x \in Workers, Closes(req[x])', x # w
                 PROVE  /\ req[x].op = "closing"
                              => OpenVotes' \subseteq req[x].left \cup late'
                        /\ (req[x].op = "freezing" /\ req[x].after.op = "closing")
                              => OpenVotes' \subseteq
                                    req[x].after.left \cup {req[x].vote} \cup late'
      BY <2>1 DEF CascadeInv, Closes, Go, TypeOK
    <3>1. Closes(req[x])
      BY <2>1 DEF Closes, Go, TypeOK
    <3>2. late' = late \cup {v}
      BY <2>1, <3>1
    <3> QED
      BY <2>1, <3>2 DEF AssemblyInv, CascadeInv
  <2> QED
    BY <2>2, <2>3 DEF AssemblyInv
<1>4. ASSUME NEW w \in Workers, PrintOptions(w)
      PROVE  AssemblyInv'
  BY <1>0, <1>4, EditKeeps, CascadeQuiet DEF PrintOptions
<1>5. ASSUME NEW w \in Workers, EditVote(w)
      PROVE  AssemblyInv'
  <2>1. OpenVotes' = OpenVotes
    BY <1>5 DEF EditVote, OpenVotes
  <2> QED
    BY <1>5, <2>1, CascadeQuiet DEF EditVote
<1>6. ASSUME NEW w \in Workers, VoteEdited(w)
      PROVE  AssemblyInv'
  <2>1. OpenVotes' = OpenVotes
    BY <1>6, EditKeeps
  <2>2. PICK r : Go(w, r) /\ r.op \in {"idle", "printing"}
    BY <1>0, <1>6 DEF VoteEdited
  <2> QED
    BY <1>6, <2>1, <2>2, CascadeQuiet DEF VoteEdited
<1>7. ASSUME NEW w \in Workers, CastCheck(w)
      PROVE  AssemblyInv'
  <2>1. OpenVotes' = OpenVotes
    BY <1>7 DEF CastCheck, OpenVotes
  <2> QED
    BY <1>7, <2>1, CascadeQuiet DEF CastCheck
<1>8. ASSUME NEW w \in Workers, AppendRow(w)
      PROVE  AssemblyInv'
  BY <1>0, <1>8, CascadeQuiet DEF AppendRow, OpenVotes
<1>9. ASSUME NEW w \in Workers, Freeze(w)
      PROVE  AssemblyInv'
  <2>1. OpenVotes' = OpenVotes \ {req[w].vote}
    BY <1>9, FreezeCloses
  <2>2. req[w].after.op \in {"idle", "closing", "rendering"}
    BY <1>9, RequestShape, AfterShape DEF Freeze, TypeOK
  <2>3. req[w].after.op = "closing"
           => OpenVotes' \subseteq req[w].after.left \cup late
    BY <1>9, <2>1 DEF Freeze, AssemblyInv, CascadeInv
  <2>4. CascadeInv'
    BY <1>9, <2>1, <2>2, <2>3, CascadeGo DEF Freeze, AssemblyInv
  <2>5. OpenVotesAreLate'
    BY <1>9, <2>1 DEF Freeze, AssemblyInv, OpenVotesAreLate
  <2> QED
    BY <2>4, <2>5 DEF AssemblyInv
<1>10. ASSUME NEW w \in Workers, CloseVote(w)
       PROVE  AssemblyInv'
  <2>1. OpenVotes' = OpenVotes
    BY <1>10 DEF CloseVote, OpenVotes
  <2> QED
    BY <1>0, <1>10, <2>1, CascadeMaterialize DEF CloseVote
<1>11. ASSUME NEW w \in Workers, CloseAssembly(w)
       PROVE  AssemblyInv'
  <2>1. OpenVotes' = OpenVotes
    BY <1>11 DEF CloseAssembly, OpenVotes
  <2>2. OpenVotes \subseteq Created
    BY RowsTyped
  <2>3. CascadeInv'
    BY <1>11, <2>1, <2>2, CascadeGo DEF CloseAssembly, AssemblyInv
  <2>4. OpenVotesAreLate'
    BY <1>11, <2>1 DEF CloseAssembly, AssemblyInv, OpenVotesAreLate
  <2> QED
    BY <2>3, <2>4 DEF AssemblyInv
<1>12. ASSUME NEW w \in Workers, Cascade(w)
       PROVE  AssemblyInv'
  <2>1. PICK v \in req[w].left :
           Materialize(w, v, [op |-> "closing", left |-> req[w].left \ {v}])
    BY <1>12 DEF Cascade
  <2>2. OpenVotes' = OpenVotes
    BY <1>12 DEF Cascade, OpenVotes
  <2>3. OpenVotes \subseteq (req[w].left \ {v}) \cup {v} \cup late
    BY <1>12 DEF Cascade, AssemblyInv, CascadeInv
  <2> QED
    BY <1>12, <2>1, <2>2, <2>3, CascadeMaterialize DEF Cascade
<1>13. ASSUME NEW w \in Workers, AssemblyClosed(w)
       PROVE  AssemblyInv'
  <2>1. OpenVotes' = OpenVotes
    BY <1>13 DEF AssemblyClosed, OpenVotes
  <2>2. OpenVotes \subseteq late
    BY <1>13 DEF AssemblyClosed, AssemblyInv, CascadeInv
  <2>3. CascadeInv'
    BY <1>0, <1>13, <2>1, CascadeGo DEF AssemblyClosed, AssemblyInv
  <2> QED
    BY <1>13, <2>1, <2>2, <2>3 DEF AssemblyClosed, AssemblyInv, OpenVotesAreLate
<1>14. ASSUME NEW w \in Workers, PatchAssembly(w)
       PROVE  AssemblyInv'
  <2>1. OpenVotes' = OpenVotes
    BY <1>14 DEF PatchAssembly, OpenVotes
  <2> QED
    BY <1>14, <2>1, CascadeQuiet DEF PatchAssembly
<1>15. ASSUME NEW w \in Workers, AssemblyPatched(w)
       PROVE  AssemblyInv'
  <2>1. OpenVotes' = OpenVotes
    BY <1>15 DEF AssemblyPatched, OpenVotes
  <2>2. assembly' # "CLOSED"
    BY <1>15, RequestShape DEF AssemblyPatched, PatchReq, TypeOK
  <2>3. CascadeInv'
    BY <1>0, <1>15, <2>1, CascadeGo DEF AssemblyPatched, AssemblyInv
  <2> QED
    BY <2>2, <2>3 DEF AssemblyInv, OpenVotesAreLate
<1>16. ASSUME NEW w \in Workers, RenderMinutes(w)
       PROVE  AssemblyInv'
  <2>1. OpenVotes' = OpenVotes
    BY <1>16 DEF RenderMinutes, OpenVotes
  <2> QED
    BY <1>16, <2>1, CascadeQuiet DEF RenderMinutes
<1>17. ASSUME NEW w \in Workers, RenderVote(w)
       PROVE  AssemblyInv'
  <2>1. OpenVotes' = OpenVotes
    BY <1>17 DEF RenderVote, OpenVotes
  <2>2. PICK v \in req[w].left :
           \/ Materialize(w, v, req[w])
           \/ \E t \in votes[v].result :
                 Go(w, [op |-> "rendering", left |-> req[w].left \ {v},
                        report |-> req[w].report \cup {[vote |-> v, result |-> t]}])
    BY <1>17 DEF RenderVote
  <2>3. CASE Materialize(w, v, req[w])
    BY <1>17, <2>1, <2>3, CascadeMaterialize DEF RenderVote
  <2>4. ASSUME NEW t \in votes[v].result,
               Go(w, [op |-> "rendering", left |-> req[w].left \ {v},
                      report |-> req[w].report \cup {[vote |-> v, result |-> t]}])
        PROVE  AssemblyInv'
    BY <1>17, <2>1, <2>4, CascadeQuiet DEF RenderVote
  <2> QED
    BY <2>2, <2>3, <2>4
<1>18. ASSUME NEW w \in Workers, FindFolder(w)
       PROVE  AssemblyInv'
  <2>1. OpenVotes' = OpenVotes
    BY <1>18 DEF FindFolder, OpenVotes
  <2>2. CASE Go(w, [op |-> "foldering", report |-> req[w].report])
    BY <1>18, <2>1, <2>2, CascadeQuiet DEF FindFolder
  <2>3. ASSUME NEW f \in folders,
               Go(w, [op |-> "filing", folder |-> f, report |-> req[w].report])
        PROVE  AssemblyInv'
    BY <1>18, <2>1, <2>3, CascadeQuiet DEF FindFolder
  <2> QED
    BY <1>18, <2>2, <2>3 DEF FindFolder
<1>19. ASSUME NEW w \in Workers, MakeFolder(w)
       PROVE  AssemblyInv'
  <2>1. OpenVotes' = OpenVotes
    BY <1>19 DEF MakeFolder, OpenVotes
  <2> QED
    BY <1>19, <2>1, CascadeQuiet DEF MakeFolder
<1>20. ASSUME NEW w \in Workers, FileMinutes(w)
       PROVE  AssemblyInv'
  BY <1>0, <1>20, CascadeQuiet DEF FileMinutes, OpenVotes
<1>21. ASSUME NEW w \in Workers, Stop(w)
       PROVE  AssemblyInv'
  BY <1>0, <1>21, CascadeQuiet DEF Stop, OpenVotes
<1> QED
  BY <1>1, <1>2, <1>3, <1>4, <1>5, <1>6, <1>7, <1>8, <1>9, <1>10, <1>11,
     <1>12, <1>13, <1>14, <1>15, <1>16, <1>17, <1>18, <1>19, <1>20, <1>21
     DEF Next, Agenda, Closing, Filing
-----------------------------------------------------------------------------
(* Every variable keeps its type: what a request carries over its commits   *)
(* stays well-formed and only names votes that exist.                       *)
THEOREM TypeCorrect == Spec => []TypeOK
<1>1. Init => TypeOK /\ TargetsExist
  BY TypeInit, TargetsInit
<1>2. TypeOK /\ TargetsExist /\ [Next]_vars => TypeOK' /\ TargetsExist'
  BY TypeStep, TargetsStep
<1> QED
  BY <1>1, <1>2, PTL DEF Spec

(* close_assembly leaves no vote open behind it, for any number of votes    *)
(* and of overlapping requests and with crashes anywhere: the only open     *)
(* votes of a closed assembly were created during the closing or later.     *)
THEOREM ClosingIsComplete == Spec => []OpenVotesAreLate
<1>1. Init => TypeOK /\ TargetsExist /\ AssemblyInv
  BY TypeInit, TargetsInit, AssemblyInit
<1>2. TypeOK /\ TargetsExist /\ AssemblyInv /\ [Next]_vars
         => TypeOK' /\ TargetsExist' /\ AssemblyInv'
  BY TypeStep, TargetsStep, AssemblyStep
<1>3. AssemblyInv => OpenVotesAreLate
  BY DEF AssemblyInv
<1> QED
  BY <1>1, <1>2, <1>3, PTL DEF Spec
-----------------------------------------------------------------------------
(* Requests served one after the other.                                     *)

(* The worker that steps is the only one with a request.                    *)
LEMMA SoleWorker ==
    ASSUME TypeOK, OneByOne, OneByOne', NEW w \in Workers, NEW r, Go(w, r),
           ~Free(w) \/ r # IdleReq
    PROVE  \A x \in Workers : x # w => req[x] = IdleReq /\ req'[x] = IdleReq
<1>1. req'[w] = r /\ \A x \in Workers : x # w => req'[x] = req[x]
  BY DEF Go, TypeOK
<1> QED
  BY <1>1 DEF OneByOne, Free

LEMMA IdleKnows == Knows(IdleReq)' /\ Renders(IdleReq)
  BY DEF Knows, Renders, IdleReq

(* It is enough to look at its next request and at the rows.                *)
LEMMA SerialGo ==
    ASSUME TypeOK, OneByOne, OneByOne', NEW w \in Workers, NEW r, Go(w, r),
           ~Free(w) \/ r # IdleReq,
           ResultsStored', MinutesStored', Knows(r)'
    PROVE  SerialInv'
<1>1. req'[w] = r
  BY DEF Go, TypeOK
<1>2. \A x \in Workers : x # w => req'[x] = IdleReq
  BY SoleWorker
<1>3. ASSUME NEW x \in Workers
      PROVE  Knows(req[x])'
  <2>1. CASE x = w
    <3>1. req'[x] = r
      BY <1>1, <2>1
    <3> QED
      BY <3>1 DEF Knows, Renders, Untouched, TallyOf, ReportTrue, Covered, LeftOf
  <2>2. CASE x # w
    <3>1. req'[x] = IdleReq
      BY <1>2, <2>2
    <3> QED
      BY <3>1 DEF Knows, Renders, IdleReq
  <2> QED
    BY <2>1, <2>2
<1> QED
  BY <1>3 DEF SerialInv

(* A step that only reads.                                                  *)
LEMMA ReadFrame ==
    ASSUME UNCHANGED <<assembly, votes, last, folders, minutes, late>>
    PROVE  /\ ResultsStored' <=> ResultsStored
           /\ MinutesStored' <=> MinutesStored
           /\ \A r : Knows(r)' <=> Knows(r)
<1>1. Created' = Created
  BY DEF Created
<1>2. \A v : TallyOf(v)' = TallyOf(v)
  BY DEF TallyOf
<1>3. \A r : Renders(r)' <=> Renders(r)
  BY <1>1 DEF Renders, ReportTrue, Covered, LeftOf
<1>4. \A v : Untouched(v)' <=> Untouched(v)
  BY DEF Untouched
<1>5. \A r : Knows(r)' <=> Knows(r)
  BY <1>2, <1>3, <1>4 DEF Knows
<1>6. ResultsStored' <=> ResultsStored
  BY <1>1 DEF ResultsStored, ResultCoversOptions
<1>7. MinutesStored' <=> MinutesStored
  BY <1>1 DEF MinutesStored, ReportTrue, Covered
<1> QED
  BY <1>5, <1>6, <1>7

LEMMA SerialRead ==
    ASSUME TypeOK, OneByOne, OneByOne', SerialInv, NEW w \in Workers, NEW r, Go(w, r),
           ~Free(w) \/ r # IdleReq, Knows(r),
           UNCHANGED <<assembly, votes, last, folders, minutes, late>>
    PROVE  SerialInv'
<1>1. ResultsStored' /\ MinutesStored' /\ Knows(r)'
  BY ReadFrame DEF SerialInv
<1> QED
  BY <1>1, SerialGo

(* A request about to store a result.                                       *)
LEMMA SerialMaterialize ==
    ASSUME TypeOK, OneByOne, OneByOne', SerialInv, NEW w \in Workers, NEW v,
           NEW after, Materialize(w, v, after), Renders(after),
           UNCHANGED <<assembly, votes, last, folders, minutes, late>>
    PROVE  SerialInv'
<1> DEFINE tally == IF votes[v].result = {} THEN {TallyOf(v)} ELSE {}
<1>1. PICK r : r = [op |-> "freezing", vote |-> v, after |-> after, tally |-> tally]
  OBVIOUS
<1>2. Go(w, r)
  BY <1>1 DEF Materialize
<1>3. r.op = "freezing" /\ r.vote = v /\ r.after = after /\ r.tally = tally
  BY <1>1
<1>4. Knows(r)
  BY <1>3 DEF Knows, Renders
<1>5. r # IdleReq
  BY <1>3 DEF IdleReq
<1> QED
  BY <1>2, <1>4, <1>5, SerialRead

LEMMA SerialInit == Init => SerialInv
<1> SUFFICES ASSUME Init PROVE SerialInv
  OBVIOUS
<1>1. Created = {} /\ minutes = {} /\ folders = {}
  BY DEF Init, Created
<1>2. ResultsStored
  BY <1>1 DEF Init, ResultsStored, ResultCoversOptions
<1>3. MinutesStored
  BY <1>1 DEF MinutesStored
<1>4. \A w \in Workers : Knows(req[w])
  BY DEF Init, Knows, Renders, IdleReq
<1> QED
  BY <1>2, <1>3, <1>4 DEF SerialInv
-----------------------------------------------------------------------------
(* Reading steps.                                                           *)

LEMMA SerialReads ==
    ASSUME TypeOK, TargetsExist, OneByOne, OneByOne', SerialInv, NEW w \in Workers,
           EditVote(w) \/ CastCheck(w) \/ CloseVote(w) \/ CloseAssembly(w)
           \/ Cascade(w) \/ PatchAssembly(w) \/ RenderMinutes(w) \/ RenderVote(w)
           \/ FindFolder(w) \/ Stop(w)
    PROVE  SerialInv'
<1> USE DEF archive
<1>0. UNCHANGED <<assembly, votes, last, folders, minutes, late>>
  BY DEF EditVote, CastCheck, CloseVote, CloseAssembly, Cascade, PatchAssembly,
         RenderMinutes, RenderVote, FindFolder, Stop
<1>1. CASE EditVote(w)
  <2>1. PICK v, r :
           /\ v \in Votes /\ Editable(v) /\ Go(w, r) /\ r.op = "editing" /\ r.vote = v
    BY <1>1 DEF EditVote
  <2>2. votes[v].status = "OPEN"
    BY <2>1, RowsTyped DEF Editable, Row
  <2>3. Knows(r) /\ r # IdleReq
    BY <2>1, <2>2 DEF Knows, Renders, Untouched, Editable, IdleReq
  <2> QED
    BY <1>0, <2>1, <2>3, SerialRead
<1>2. CASE CastCheck(w)
  <2>0. PICK v \in OpenVotes, l \in Lots :
           \E c \in votes[v].papers
                       \cup (IF last[<<v, l>>] \in Papers THEN {Withdrawn} ELSE {}) :
              Go(w, [op |-> "casting", vote |-> v, lot |-> l, choice |-> c])
    BY <1>2 DEF CastCheck
  <2>1. PICK r : /\ Go(w, r) /\ r.op = "casting" /\ r.vote = v
                 /\ r.choice \in votes[v].papers \cup {Withdrawn}
    BY <2>0
  <2>2. Knows(r) /\ r # IdleReq
    BY <2>1 DEF Knows, Renders, OpenVotes, IdleReq
  <2> QED
    BY <1>0, <2>1, <2>2, SerialRead
<1>3. CASE CloseVote(w)
  <2>1. PICK v \in OpenVotes : Materialize(w, v, IdleReq)
    BY <1>3 DEF CloseVote
  <2> QED
    BY <1>0, <2>1, SerialMaterialize, IdleKnows
<1>4. CASE CloseAssembly(w)
  <2>1. PICK r : Go(w, r) /\ r.op = "closing"
    BY <1>4 DEF CloseAssembly
  <2>2. Knows(r) /\ r # IdleReq
    BY <2>1 DEF Knows, Renders, IdleReq
  <2> QED
    BY <1>0, <2>1, <2>2, SerialRead
<1>5. CASE Cascade(w)
  <2>1. PICK v, after : /\ v \in req[w].left /\ after.op = "closing"
                        /\ Materialize(w, v, after)
    BY <1>5 DEF Cascade
  <2>2. Renders(after)
    BY <2>1 DEF Renders
  <2> QED
    BY <1>0, <2>1, <2>2, SerialMaterialize
<1>6. CASE PatchAssembly(w)
  <2>1. PICK r : Go(w, r) /\ r.op = "patching"
    BY <1>6 DEF PatchAssembly
  <2>2. Knows(r) /\ r # IdleReq
    BY <1>6, <2>1 DEF PatchAssembly, Knows, Renders, IdleReq
  <2> QED
    BY <1>0, <2>1, <2>2, SerialRead
<1>7. CASE RenderMinutes(w)
  <2>1. PICK r : /\ Go(w, r) /\ r.op = "rendering" /\ r.left = Created
                 /\ r.report = {}
    BY <1>7 DEF RenderMinutes
  <2>2. Knows(r) /\ r # IdleReq
    BY <1>7, <2>1 DEF RenderMinutes, Knows, Renders, ReportTrue, Covered, LeftOf,
                      IdleReq
  <2> QED
    BY <1>0, <2>1, <2>2, SerialRead
<1>8. CASE RenderVote(w)
  <2>0. req[w].op = "rendering" /\ Renders(req[w]) /\ req[w].left \subseteq Created
    BY <1>8 DEF RenderVote, SerialInv, Knows, TargetsExist, LeftOf
  <2>1. ASSUME NEW v \in req[w].left, Materialize(w, v, req[w])
        PROVE  SerialInv'
    BY <1>0, <2>0, <2>1, SerialMaterialize
  <2>2. ASSUME NEW v \in req[w].left, NEW t \in votes[v].result,
               Go(w, [op |-> "rendering", left |-> req[w].left \ {v},
                      report |-> req[w].report \cup {[vote |-> v, result |-> t]}])
        PROVE  SerialInv'
    <3> DEFINE e == [vote |-> v, result |-> t]
    <3>1. PICK r : /\ Go(w, r) /\ r.op = "rendering" /\ r.left = req[w].left \ {v}
                   /\ r.report = req[w].report \cup {e}
      BY <2>2
    <3>2. v \in Created /\ votes[v].result = {t}
      BY <2>0, <2>2 DEF SerialInv, ResultsStored
    <3>3. /\ assembly = "CLOSED" /\ ReportTrue(req[w].report)
          /\ Covered(req[w].report, req[w].left)
      BY <2>0 DEF Renders, LeftOf
    <3>4. e.vote = v /\ e.result = t
      OBVIOUS
    <3> HIDE DEF e
    <3>5. ReportTrue(r.report)
      BY <3>1, <3>2, <3>3, <3>4 DEF ReportTrue
    <3>6. Covered(r.report, r.left)
      BY <3>1, <3>3, <3>4 DEF Covered
    <3>7. Knows(r) /\ r # IdleReq
      BY <3>1, <3>3, <3>5, <3>6 DEF Knows, Renders, LeftOf, IdleReq
    <3> QED
      BY <1>0, <3>1, <3>7, SerialRead
  <2> QED
    BY <1>8, <2>1, <2>2 DEF RenderVote
<1>9. CASE FindFolder(w)
  <2>0. /\ assembly = "CLOSED" /\ ReportTrue(req[w].report)
        /\ Covered(req[w].report, {})
    BY <1>9 DEF FindFolder, SerialInv, Knows, Renders, LeftOf
  <2>1. PICK r : /\ Go(w, r) /\ r.report = req[w].report
                 /\ \/ r.op = "foldering" /\ folders = {}
                    \/ r.op = "filing" /\ r.folder \in folders
    <3>1. CASE folders = {}
      <4>1. Go(w, [op |-> "foldering", report |-> req[w].report])
        BY <1>9, <3>1 DEF FindFolder
      <4> QED
        BY <3>1, <4>1
    <3>2. CASE folders # {}
      <4>1. PICK f \in folders :
               Go(w, [op |-> "filing", folder |-> f, report |-> req[w].report])
        BY <1>9, <3>2 DEF FindFolder
      <4> QED
        BY <4>1
    <3> QED
      BY <3>1, <3>2
  <2>2. Knows(r) /\ r # IdleReq
    BY <2>0, <2>1 DEF Knows, Renders, LeftOf, IdleReq
  <2> QED
    BY <1>0, <2>1, <2>2, SerialRead
<1>10. CASE Stop(w)
  <2>1. Go(w, IdleReq) /\ ~Free(w)
    BY <1>10 DEF Stop
  <2>2. Knows(IdleReq)
    BY DEF Knows, Renders, IdleReq
  <2> QED
    BY <1>0, <2>1, <2>2, SerialRead
<1> QED
  BY <1>1, <1>2, <1>3, <1>4, <1>5, <1>6, <1>7, <1>8, <1>9, <1>10
-----------------------------------------------------------------------------
(* Writing steps.                                                           *)

(* What a step leaves of the minutes when it keeps the stored results.      *)
LEMMA MinutesKept ==
    ASSUME Created' = Created, UNCHANGED <<assembly, folders, minutes, late>>,
           \A v \in Created : votes[v].result # {} => votes'[v].result = votes[v].result
    PROVE  /\ MinutesStored => MinutesStored'
           /\ \A r : Renders(r) => Renders(r)'
<1>1. ASSUME NEW report
      PROVE  /\ ReportTrue(report) => ReportTrue(report)'
             /\ \A left : Covered(report, left)' <=> Covered(report, left)
  BY DEF ReportTrue, Covered
<1>2. MinutesStored => MinutesStored'
  BY <1>1 DEF MinutesStored, Covered, ReportTrue
<1>3. \A r : Renders(r) => Renders(r)'
  BY DEF Renders, ReportTrue, Covered, LeftOf
<1> QED
  BY <1>2, <1>3

(* A vote nobody has voted in changes its options or its window.            *)
LEMMA UntouchedWrite ==
    ASSUME TypeOK, SerialInv, NEW v \in Created, NEW row \in Row, Untouched(v),
           votes' = [votes EXCEPT ![v] = row],
           row.status = votes[v].status, row.result = votes[v].result,
           UNCHANGED <<assembly, last, folders, minutes, late>>
    PROVE  ResultsStored' /\ MinutesStored' /\ Untouched(v)'
<1>1. v \in Votes /\ Created' = Created
  BY RowsTyped, SameStatus
<1>2. votes'[v] = row /\ \A u \in Votes : u # v => votes'[u] = votes[u]
  BY <1>1 DEF TypeOK
<1>3. \A u \in Created : u \in Votes
  BY DEF Created
<1>4. \A u \in Created : votes'[u].result = votes[u].result
                         /\ votes'[u].status = votes[u].status
  BY <1>2, <1>3
<1>5. votes[v].result = {}
  BY DEF SerialInv, ResultsStored, Untouched
<1>6. ResultCoversOptions'
  BY <1>1, <1>2, <1>3, <1>4, <1>5 DEF SerialInv, ResultsStored, ResultCoversOptions
<1>7. ASSUME NEW u \in Votes, NEW l \in Lots
      PROVE  last'[<<u, l>>] \in IF u \in Created'
                                    THEN votes'[u].papers \cup {NoRow, Withdrawn}
                                    ELSE {NoRow}
  BY <1>1, <1>2, <1>7 DEF SerialInv, ResultsStored, Untouched
<1>8. ResultsStored'
  <2>1. \A u \in Created' : /\ votes'[u].status = "CLOSED" <=> votes'[u].result # {}
                           /\ \A s, t \in votes'[u].result : s = t
    BY <1>1, <1>4 DEF SerialInv, ResultsStored
  <2> QED
    BY <1>6, <1>7, <2>1 DEF ResultsStored
<1>9. MinutesStored'
  BY <1>1, <1>4, MinutesKept DEF SerialInv
<1>10. Untouched(v)'
  BY <1>4 DEF Untouched
<1> QED
  BY <1>8, <1>9, <1>10

LEMMA SerialOptions ==
    ASSUME TypeOK, TargetsExist, OneByOne, OneByOne', SerialInv, NEW w \in Workers,
           PrintOptions(w) \/ VoteEdited(w)
    PROVE  SerialInv'
<1>1. PICK v : v = req[w].vote
  OBVIOUS
<1>2. v \in Created /\ Untouched(v) /\ ~Free(w)
  <2>1. req[w].op \in {"printing", "editing"}
    BY DEF PrintOptions, VoteEdited
  <2>2. Knows(req[w]) /\ req[w].vote \in Created
    BY <2>1 DEF SerialInv, TargetsExist
  <2>3. Untouched(req[w].vote) /\ req[w] # IdleReq
    BY <2>1, <2>2 DEF Knows, IdleReq
  <2> QED
    BY <1>1, <2>2, <2>3 DEF Untouched, Free
<1>3. PICK row \in Row : /\ votes' = [votes EXCEPT ![v] = row]
                         /\ row.status = votes[v].status
                         /\ row.result = votes[v].result
  BY <1>1, PrintWrite, EditWrite
<1>4. ResultsStored' /\ MinutesStored' /\ Untouched(v)'
  BY <1>2, <1>3, UntouchedWrite DEF PrintOptions, VoteEdited, archive
<1>5. PICK r : Go(w, r) /\ ((r.op = "printing" /\ r.vote = v) \/ r = IdleReq)
  <2>1. CASE PrintOptions(w)
    BY <2>1 DEF PrintOptions
  <2>2. CASE VoteEdited(w) /\ req[w].replace
    <3>1. Go(w, [op |-> "printing", vote |-> v])
      BY <1>1, <2>2 DEF VoteEdited
    <3> QED
      BY <3>1
  <2>3. CASE VoteEdited(w) /\ ~req[w].replace
    BY <2>3 DEF VoteEdited
  <2> QED
    BY <2>1, <2>2, <2>3
<1>6. Knows(r)'
  BY <1>4, <1>5 DEF Knows, Renders, IdleReq
<1> QED
  BY <1>2, <1>4, <1>5, <1>6, SerialGo

LEMMA SerialElapse ==
    ASSUME TypeOK, TargetsExist, SerialInv, NEW v \in Votes, Elapse(v)
    PROVE  SerialInv'
<1>1. v \in Created /\ votes[v] \in Row
  BY RowsTyped DEF Elapse
<1>2. /\ votes'[v] = [votes[v] EXCEPT !.due = TRUE]
      /\ \A u \in Votes : u # v => votes'[u] = votes[u]
  BY DEF Elapse, TypeOK
<1>3. \A u \in Created : /\ votes'[u].status = votes[u].status
                         /\ votes'[u].papers = votes[u].papers
                         /\ votes'[u].result = votes[u].result
  BY <1>1, <1>2 DEF Created, Row
<1>4. Created' = Created /\ UNCHANGED <<assembly, last, folders, minutes, late, req>>
  BY ElapseKeeps DEF Elapse, archive
<1>5. ResultsStored'
  <2>1. /\ \A u \in Created :
              /\ votes'[u].status = "CLOSED" <=> votes'[u].result # {}
              /\ \A s, t \in votes'[u].result : s = t
        /\ ResultCoversOptions'
    BY <1>3, <1>4 DEF SerialInv, ResultsStored, ResultCoversOptions
  <2>2. \A u \in Votes, l \in Lots :
           last'[<<u, l>>] \in IF u \in Created
                                  THEN votes'[u].papers \cup {NoRow, Withdrawn}
                                  ELSE {NoRow}
    BY <1>3, <1>4 DEF SerialInv, ResultsStored
  <2> QED
    BY <1>4, <2>1, <2>2 DEF ResultsStored
<1>6. MinutesStored' /\ \A r : Renders(r) => Renders(r)'
  BY <1>3, <1>4, MinutesKept DEF SerialInv
<1>7. ASSUME NEW w \in Workers
      PROVE  Knows(req[w])'
  <2>1. PICK r : r = req[w] /\ r = req'[w]
    BY <1>4
  <2>2. r.op \in {"printing", "editing", "freezing", "casting"} => r.vote \in Created
    BY <2>1 DEF TargetsExist
  <2>3. \A u \in Created : (Untouched(u)' <=> Untouched(u)) /\ TallyOf(u)' = TallyOf(u)
    BY <1>3, <1>4 DEF Untouched, TallyOf
  <2>4. Knows(r)
    BY <2>1 DEF SerialInv
  <2>5. Knows(r)'
    BY <1>3, <1>4, <1>6, <2>2, <2>3, <2>4 DEF Knows
  <2> QED
    BY <2>1, <2>5 DEF Knows, Renders, Untouched, TallyOf, ReportTrue, Covered, LeftOf
<1> QED
  BY <1>5, <1>6, <1>7 DEF SerialInv

LEMMA SerialAppend ==
    ASSUME TypeOK, TargetsExist, OneByOne, OneByOne', SerialInv, NEW w \in Workers,
           AppendRow(w)
    PROVE  SerialInv'
<1>1. PICK r : r = req[w]
  OBVIOUS
<1>2. /\ r.op = "casting" /\ r.vote \in Created /\ r.vote \in Votes /\ r.lot \in Lots
      /\ votes[r.vote].status = "OPEN"
      /\ r.choice \in votes[r.vote].papers \cup {Withdrawn}
  <2>1. r.op = "casting" /\ r \in Requests
    BY <1>1 DEF AppendRow, TypeOK
  <2>2. r.lot \in Lots
    BY <2>1, RequestShape DEF CastReq
  <2> QED
    BY <1>1, <2>1, <2>2, RowsTyped DEF SerialInv, Knows, TargetsExist
<1>3. /\ last' = [last EXCEPT ![<<r.vote, r.lot>>] = r.choice] /\ Go(w, IdleReq)
      /\ UNCHANGED <<assembly, votes, folders, minutes, late>>
  BY <1>1 DEF AppendRow, archive
<1>4. Created' = Created
  BY <1>3 DEF Created
<1>5. votes[r.vote].result = {}
  BY <1>2 DEF SerialInv, ResultsStored
<1>6. ASSUME NEW u \in Votes, NEW l \in Lots
      PROVE  last'[<<u, l>>] \in IF u \in Created
                                    THEN votes[u].papers \cup {NoRow, Withdrawn}
                                    ELSE {NoRow}
  <2>1. CASE <<u, l>> = <<r.vote, r.lot>>
    <3>1. last'[<<u, l>>] = r.choice /\ u = r.vote
      BY <1>2, <1>3, <2>1 DEF TypeOK
    <3> QED
      BY <1>2, <3>1
  <2>2. CASE <<u, l>> # <<r.vote, r.lot>>
    <3>1. last'[<<u, l>>] = last[<<u, l>>]
      BY <1>2, <1>3, <2>2 DEF TypeOK
    <3> QED
      BY <3>1 DEF SerialInv, ResultsStored
  <2> QED
    BY <2>1, <2>2
<1>7. ResultsStored'
  BY <1>3, <1>4, <1>6, SMTT(30) DEF SerialInv, ResultsStored, ResultCoversOptions
<1>8. MinutesStored'
  BY <1>3, <1>4, MinutesKept DEF SerialInv
<1>9. Knows(IdleReq)' /\ ~Free(w)
  BY <1>1, <1>2, IdleKnows DEF Free, IdleReq
<1> QED
  BY <1>3, <1>7, <1>8, <1>9, SerialGo

(* Every unit that voted is in the tally of an open vote.                   *)
LEMMA TallyCounts ==
    ASSUME TypeOK, SerialInv, NEW v \in Created
    PROVE  TallyOf(v).papers = votes[v].papers /\ TallyOf(v).counted = TallyOf(v).voters
<1>1. v \in Votes /\ votes[v].papers \subseteq Papers
  BY RowsTyped DEF Row
<1>2. \A l \in Lots : last[<<v, l>>] \in Papers <=> last[<<v, l>>] \in votes[v].papers
  BY <1>1, AssemblyAssumption DEF SerialInv, ResultsStored
<1>3. {l \in Lots : last[<<v, l>>] \in Papers}
         = {l \in Lots : last[<<v, l>>] \in votes[v].papers}
  BY <1>2
<1> QED
  BY <1>3 DEF TallyOf

LEMMA SerialFreeze ==
    ASSUME TypeOK, TargetsExist, OneByOne, OneByOne', SerialInv, NEW w \in Workers,
           Freeze(w)
    PROVE  SerialInv'
<1>1. PICK r : r = req[w]
  OBVIOUS
<1>2. /\ r.op = "freezing" /\ r \in FreezeReq
      /\ r.vote \in Created /\ r.vote \in Votes /\ votes[r.vote] \in Row
      /\ r.tally = IF votes[r.vote].result = {} THEN {TallyOf(r.vote)} ELSE {}
      /\ Renders(r.after)
  BY <1>1, RowsTyped, RequestShape DEF Freeze, TypeOK, SerialInv, Knows, TargetsExist
<1>3. PICK row \in Row :
         /\ row.status = "CLOSED" /\ row.papers = votes[r.vote].papers
         /\ row.result = IF r.tally = {} THEN votes[r.vote].result ELSE r.tally
         /\ votes' = [votes EXCEPT ![r.vote] = row]
  BY <1>1, FreezeWrite
<1>4. /\ votes'[r.vote].status = "CLOSED"
      /\ votes'[r.vote].papers = votes[r.vote].papers
      /\ votes'[r.vote].result = IF votes[r.vote].result = {} THEN {TallyOf(r.vote)}
                                                              ELSE votes[r.vote].result
      /\ \A u \in Votes : u # r.vote => votes'[u] = votes[u]
  <2>1. votes'[r.vote] = row /\ \A u \in Votes : u # r.vote => votes'[u] = votes[u]
    BY <1>2, <1>3 DEF TypeOK
  <2>2. row.result = IF votes[r.vote].result = {} THEN {TallyOf(r.vote)}
                                                  ELSE votes[r.vote].result
    BY <1>2, <1>3
  <2> QED
    BY <1>3, <2>1, <2>2
<1>5. Created' = Created /\ Go(w, r.after) /\ ~Free(w)
  <2>1. Created' = Created
    BY FreezeCloses
  <2>2. Go(w, r.after)
    BY <1>1 DEF Freeze
  <2>3. r.op = "freezing" /\ IdleReq.op # "freezing"
    BY <1>2 DEF IdleReq
  <2> QED
    BY <1>1, <2>1, <2>2, <2>3 DEF Free
<1>6. UNCHANGED <<assembly, last, folders, minutes, late>>
  BY DEF Freeze, archive
<1>7. \A u \in Created : u \in Votes
  BY DEF Created
<1>8. /\ TallyOf(r.vote).papers = votes[r.vote].papers
      /\ TallyOf(r.vote).counted = TallyOf(r.vote).voters
  BY <1>2, TallyCounts
<1>9. ASSUME NEW u \in Created
      PROVE  /\ votes'[u].status = "CLOSED" <=> votes'[u].result # {}
             /\ \A s, t \in votes'[u].result : s = t
             /\ \A t \in votes'[u].result :
                   t.papers = votes'[u].papers /\ t.counted = t.voters
  <2>1. CASE u = r.vote
    BY <1>4, <1>8, <2>1 DEF SerialInv, ResultsStored, ResultCoversOptions
  <2>2. CASE u # r.vote
    BY <1>4, <1>7, <2>2 DEF SerialInv, ResultsStored, ResultCoversOptions
  <2> QED
    BY <2>1, <2>2
<1>10. ResultsStored'
  <2>1. \A u \in Votes, l \in Lots :
           last'[<<u, l>>] \in IF u \in Created'
                                  THEN votes'[u].papers \cup {NoRow, Withdrawn}
                                  ELSE {NoRow}
    BY <1>4, <1>5, <1>6 DEF SerialInv, ResultsStored
  <2> QED
    BY <1>5, <1>9, <2>1 DEF ResultsStored, ResultCoversOptions
<1>11. MinutesStored' /\ Renders(r.after)'
  <2>1. \A u \in Created : votes[u].result # {} => votes'[u].result = votes[u].result
    BY <1>4, <1>7
  <2> QED
    BY <1>2, <1>5, <1>6, <2>1, MinutesKept DEF SerialInv
<1>12. PICK a : a = r.after
  OBVIOUS
<1>13. a.op \in {"idle", "closing", "rendering"}
  BY <1>2, <1>12 DEF FreezeReq, IdleReq, ClosingReq, RenderReq
<1>14. Knows(a)'
  BY <1>11, <1>12, <1>13 DEF Knows
<1> QED
  BY <1>5, <1>10, <1>11, <1>12, <1>14, SerialGo

LEMMA SerialCreate ==
    ASSUME TypeOK, OneByOne, OneByOne', SerialInv, NEW w \in Workers, CreateVote(w)
    PROVE  SerialInv'
<1>1. PICK v \in Votes \ Created, due \in BOOLEAN :
         /\ votes' = [votes EXCEPT ![v] =
               [status |-> "OPEN", papers |-> {}, due |-> due, result |-> {}]]
         /\ late' = IF assembly = "CLOSED" \/ \E x \in Workers : Closes(req[x])
                       THEN late \cup {v} ELSE late
         /\ Go(w, [op |-> "printing", vote |-> v])
  BY DEF CreateVote
<1>2. PICK row : /\ row = [status |-> "OPEN", papers |-> {}, due |-> due, result |-> {}]
                 /\ row \in Row /\ votes' = [votes EXCEPT ![v] = row]
  BY <1>1 DEF Row
<1>3. row.status = "OPEN" /\ row.papers = {} /\ row.result = {}
  BY <1>2
<1>4. Created' = Created \cup {v}
  BY <1>2, RowWrite
<1>5. votes'[v] = row /\ \A u \in Votes : u # v => votes'[u] = votes[u]
  BY <1>2 DEF TypeOK
<1>6. \A u \in Created : u \in Votes /\ u # v
  BY <1>1 DEF Created
<1>7. UNCHANGED <<assembly, last, folders, minutes>>
  BY DEF CreateVote, archive
<1>8. \A l \in Lots : last[<<v, l>>] = NoRow
  BY <1>1 DEF SerialInv, ResultsStored
<1>9. ResultsStored'
  <2>1. /\ \A u \in Created' :
              /\ votes'[u].status = "CLOSED" <=> votes'[u].result # {}
              /\ \A s, t \in votes'[u].result : s = t
        /\ ResultCoversOptions'
    BY <1>3, <1>4, <1>5, <1>6 DEF SerialInv, ResultsStored, ResultCoversOptions
  <2>2. \A u \in Votes, l \in Lots :
           last'[<<u, l>>] \in IF u \in Created'
                                  THEN votes'[u].papers \cup {NoRow, Withdrawn}
                                  ELSE {NoRow}
    BY <1>4, <1>5, <1>6, <1>7, <1>8 DEF SerialInv, ResultsStored
  <2> QED
    BY <2>1, <2>2 DEF ResultsStored
<1>10. MinutesStored'
  <2>1. ASSUME NEW d \in minutes
        PROVE  /\ assembly = "CLOSED" /\ d.folder \in folders
               /\ ReportTrue(d.report)' /\ Covered(d.report, {})'
    <3>1. /\ assembly = "CLOSED" /\ d.folder \in folders
          /\ ReportTrue(d.report) /\ Covered(d.report, {})
      BY DEF SerialInv, MinutesStored
    <3>2. late' = late \cup {v}
      BY <1>1, <3>1
    <3>3. \A e \in d.report : e.vote \in Created' /\ votes'[e.vote].result = {e.result}
      BY <1>4, <1>5, <1>6, <3>1 DEF ReportTrue
    <3> QED
      BY <1>4, <3>1, <3>2, <3>3 DEF ReportTrue, Covered
  <2> QED
    BY <1>7, <2>1 DEF SerialInv, MinutesStored, ReportTrue, Covered
<1>11. PICK r : r = [op |-> "printing", vote |-> v]
  OBVIOUS
<1>12. r.op = "printing" /\ r.vote = v /\ r # IdleReq
  BY <1>11 DEF IdleReq
<1>13. Knows(r)'
  BY <1>3, <1>5, <1>7, <1>8, <1>12 DEF Knows, Renders, Untouched
<1> QED
  BY <1>1, <1>9, <1>10, <1>11, <1>12, <1>13, SerialGo

(* The status of the assembly.                                              *)
LEMMA SerialStatus ==
    ASSUME TypeOK, OneByOne, OneByOne', SerialInv, NEW w \in Workers,
           AssemblyClosed(w) \/ AssemblyPatched(w)
    PROVE  SerialInv'
<1>1. /\ Go(w, IdleReq) /\ ~Free(w)
      /\ UNCHANGED <<votes, last, folders, minutes, late>>
  BY DEF AssemblyClosed, AssemblyPatched, archive, Free, IdleReq
<1>2. minutes = {} \/ assembly' = "CLOSED"
  BY DEF AssemblyClosed, AssemblyPatched, SerialInv, Knows, MinutesStored
<1>3. Created' = Created
  BY <1>1 DEF Created
<1>4. ResultsStored'
  BY <1>1, <1>3, SMTT(30) DEF SerialInv, ResultsStored, ResultCoversOptions
<1>5. MinutesStored'
  BY <1>1, <1>2, <1>3, SMTT(30) DEF SerialInv, MinutesStored, ReportTrue, Covered
<1> QED
  BY <1>1, <1>4, <1>5, IdleKnows, SerialGo

(* The folder of the minutes and the documents in it.                       *)
LEMMA SerialFiling ==
    ASSUME TypeOK, OneByOne, OneByOne', SerialInv, NEW w \in Workers,
           MakeFolder(w) \/ FileMinutes(w)
    PROVE  SerialInv'
<1>1. PICK q : q = req[w]
  OBVIOUS
<1>2. /\ q.op \in {"foldering", "filing"} /\ Knows(q) /\ ~Free(w)
      /\ UNCHANGED <<assembly, votes, last, late>>
  BY <1>1 DEF MakeFolder, FileMinutes, SerialInv, Free, IdleReq
<1>3. assembly = "CLOSED" /\ ReportTrue(q.report) /\ Covered(q.report, {})
  BY <1>2 DEF Knows, Renders, LeftOf
<1>4. Created' = Created
  BY <1>2 DEF Created
<1>5. \A s : (ReportTrue(s)' <=> ReportTrue(s)) /\ (Covered(s, {})' <=> Covered(s, {}))
  BY <1>2, <1>4 DEF ReportTrue, Covered
<1>6. ResultsStored'
  BY <1>2, <1>4 DEF SerialInv, ResultsStored, ResultCoversOptions
<1>7. CASE MakeFolder(w)
  <2>1. PICK f \in Folders \ folders :
           /\ folders' = folders \cup {f} /\ minutes' = minutes
           /\ Go(w, [op |-> "filing", folder |-> f, report |-> q.report])
    BY <1>1, <1>7 DEF MakeFolder
  <2>2. folders = {}
    BY <1>1, <1>2, <1>7 DEF MakeFolder, Knows
  <2>3. MinutesStored'
    BY <2>1, <2>2 DEF SerialInv, MinutesStored
  <2>4. PICK r : r = [op |-> "filing", folder |-> f, report |-> q.report]
    OBVIOUS
  <2>5. r.op = "filing" /\ r.folder = f /\ r.report = q.report
    BY <2>4
  <2>6. Knows(r)'
    BY <1>2, <1>3, <1>5, <2>1, <2>5 DEF Knows, Renders, LeftOf
  <2> QED
    BY <1>2, <1>6, <2>1, <2>3, <2>4, <2>6, SerialGo
<1>8. CASE FileMinutes(w)
  <2>1. /\ minutes' = minutes \cup {[folder |-> q.folder, report |-> q.report]}
        /\ Go(w, IdleReq) /\ folders' = folders /\ q.folder \in folders
    BY <1>1, <1>2, <1>8 DEF FileMinutes, Knows
  <2>2. MinutesStored'
    <3>1. ASSUME NEW d \in minutes'
          PROVE  /\ assembly' = "CLOSED" /\ ReportTrue(d.report)
                 /\ Covered(d.report, {}) /\ d.folder \in folders'
      BY <1>2, <1>3, <2>1 DEF SerialInv, MinutesStored
    <3> QED
      BY <1>2, <1>4, <2>1, <3>1 DEF SerialInv, MinutesStored, ReportTrue, Covered
  <2> QED
    BY <1>2, <1>6, <2>1, <2>2, IdleKnows, SerialGo
<1> QED
  BY <1>7, <1>8

LEMMA SerialStep ==
    TypeOK /\ TargetsExist /\ OneByOne /\ OneByOne' /\ SerialInv /\ [Next]_vars
        => SerialInv'
<1> SUFFICES ASSUME TypeOK, TargetsExist, OneByOne, OneByOne', SerialInv, [Next]_vars
             PROVE  SerialInv'
  OBVIOUS
<1>1. CASE UNCHANGED vars
  <2>1. UNCHANGED <<assembly, votes, last, folders, minutes, late, req>>
    BY <1>1 DEF vars, archive
  <2>2. ASSUME NEW w \in Workers
        PROVE  Knows(req[w])'
    <3>1. PICK r : r = req[w] /\ r = req'[w]
      BY <2>1
    <3>2. Knows(r)'
      BY <2>1, <3>1, ReadFrame DEF SerialInv
    <3> QED
      BY <3>1, <3>2
         DEF Knows, Renders, Untouched, TallyOf, ReportTrue, Covered, LeftOf
  <2> QED
    BY <2>1, <2>2, ReadFrame DEF SerialInv
<1>2. ASSUME NEW v \in Votes, Elapse(v)
      PROVE  SerialInv'
  BY <1>2, SerialElapse
<1>3. ASSUME NEW w \in Workers, Agenda(w) \/ Closing(w) \/ Filing(w) \/ Stop(w)
      PROVE  SerialInv'
  BY <1>3, SerialReads, SerialOptions, SerialAppend, SerialFreeze, SerialCreate,
     SerialStatus, SerialFiling
     DEF Agenda, Closing, Filing
<1> QED
  BY <1>1, <1>2, <1>3 DEF Next
-----------------------------------------------------------------------------
(* What the two properties need of the rows.                                *)
LEMMA SerialGives ==
    SerialInv => ResultCoversOptions /\ MinutesTellResults /\ OneFolder
<1> SUFFICES ASSUME SerialInv
             PROVE  ResultCoversOptions /\ MinutesTellResults /\ OneFolder
  OBVIOUS
<1>1. ResultCoversOptions
  BY DEF SerialInv, ResultsStored
<1>2. MinutesTellResults
  BY DEF SerialInv, MinutesStored, MinutesTellResults, ReportTrue, Covered
<1>3. OneFolder
  BY DEF SerialInv, MinutesStored, OneFolder
<1> QED
  BY <1>1, <1>2, <1>3

(* For any number of votes, papers, units and documents: as long as no two  *)
(* requests are under way together, a frozen result has a counter for each  *)
(* option of its vote and counts every unit that voted (update_vote and     *)
(* materialize_snapshot), and the minutes tell frozen results, of every     *)
(* vote, from one folder (render_minutes_html and save_minutes).            *)
THEOREM SerialRequestsTellTheTruth ==
    Spec /\ []OneByOne
        => [](ResultCoversOptions /\ MinutesTellResults /\ OneFolder)
<1>1. Init => TypeOK /\ TargetsExist /\ SerialInv
  BY TypeInit, TargetsInit, SerialInit
<1>2. TypeOK /\ TargetsExist /\ SerialInv /\ OneByOne /\ OneByOne' /\ [Next]_vars
         => TypeOK' /\ TargetsExist' /\ SerialInv'
  BY TypeStep, TargetsStep, SerialStep
<1>3. SerialInv => ResultCoversOptions /\ MinutesTellResults /\ OneFolder
  BY SerialGives
<1> QED
  BY <1>1, <1>2, <1>3, PTL DEF Spec
-----------------------------------------------------------------------------
(* The instance that serves its requests one after the other does so.       *)

Alone == \A w \in Workers : w # w1 => Free(w)

LEMMA AloneGo ==
    ASSUME TypeOK, Alone, NEW r, Go(w1, r)
    PROVE  Alone'
<1>1. \A w \in Workers : w # w1 => req'[w] = req[w]
  BY DEF Go, TypeOK
<1> QED
  BY <1>1 DEF Alone, Free

LEMMA AloneStep == TypeOK /\ Alone /\ OneAfterTheOther => Alone'
<1> SUFFICES ASSUME TypeOK, Alone, OneAfterTheOther
             PROVE  Alone'
  OBVIOUS
<1>1. CASE \E v \in Votes : Elapse(v)
  BY <1>1 DEF Elapse, Alone, Free
<1>2. CASE Agenda(w1)
  <2>1. \E r : Go(w1, r)
    BY <1>2 DEF Agenda, CreateVote, PrintOptions, EditVote, VoteEdited, CastCheck,
                AppendRow
  <2> QED
    BY <2>1, AloneGo
<1>3. CASE Closing(w1)
  <2>1. \E r : Go(w1, r)
    BY <1>3 DEF Closing, CloseVote, CloseAssembly, Cascade, Freeze, AssemblyClosed,
                PatchAssembly, AssemblyPatched, Materialize
  <2> QED
    BY <2>1, AloneGo
<1>4. CASE Filing(w1)
  <2>1. \E r : Go(w1, r)
    BY <1>4 DEF Filing, RenderMinutes, RenderVote, FindFolder, MakeFolder,
                FileMinutes, Materialize
  <2> QED
    BY <2>1, AloneGo
<1>5. CASE Stop(w1)
  BY <1>5, AloneGo DEF Stop
<1> QED
  BY <1>1, <1>2, <1>3, <1>4, <1>5 DEF OneAfterTheOther

LEMMA AloneIsOneByOne == Alone => OneByOne
  BY DEF Alone, OneByOne

ModeInv == serial => TypeOK /\ TargetsExist /\ Alone /\ SerialInv

LEMMA ModeStep == ModeInv /\ [ModeNext]_modeVars => ModeInv'
<1> SUFFICES ASSUME ModeInv, [ModeNext]_modeVars, serial'
             PROVE  TypeOK' /\ TargetsExist' /\ Alone' /\ SerialInv'
  BY DEF ModeInv
<1>1. serial
  BY DEF ModeNext, modeVars
<1>2. TypeOK /\ TargetsExist /\ Alone /\ SerialInv
  BY <1>1 DEF ModeInv
<1>3. OneAfterTheOther \/ UNCHANGED vars
  BY <1>1 DEF ModeNext, modeVars
<1>4. [Next]_vars
  BY <1>3, ServerAssumption DEF OneAfterTheOther, Next
<1>5. Alone'
  BY <1>2, <1>3, AloneStep DEF Alone, Free, vars
<1>6. TypeOK' /\ TargetsExist'
  BY <1>2, <1>4, TypeStep, TargetsStep
<1>7. OneByOne'
  BY <1>5, AloneIsOneByOne DEF Alone, OneByOne, Free
<1> QED
  BY <1>2, <1>4, <1>5, <1>6, <1>7, AloneIsOneByOne, SerialStep

LEMMA ModeInitially == ModeInit => ModeInv
<1> SUFFICES ASSUME Init
             PROVE  TypeOK /\ TargetsExist /\ Alone /\ SerialInv
  BY DEF ModeInit, ModeInv
<1>1. Alone
  BY DEF Init, Alone, Free
<1> QED
  BY <1>1, TypeInit, TargetsInit, SerialInit

(* Requests one after the other, any number of votes: the frozen result of  *)
(* a vote covers its options, through the two commits of every edit.        *)
THEOREM SerialResultsCoverOptions == ModeSpec => []ResultsCoverOptions
<1>1. ModeInv => ResultsCoverOptions
  BY SerialGives DEF ModeInv, ResultsCoverOptions
<1> QED
  BY <1>1, ModeInitially, ModeStep, PTL DEF ModeSpec

(* Requests one after the other, any number of votes and of documents: the  *)
(* minutes tell the frozen results, of every vote, from one folder.         *)
THEOREM SerialMinutesTellAll == ModeSpec => []MinutesTellAll
<1>1. ModeInv => MinutesTellAll
  BY SerialGives DEF ModeInv, MinutesTellAll
<1> QED
  BY <1>1, ModeInitially, ModeStep, PTL DEF ModeSpec
=============================================================================
