------------------------------ MODULE Assembly ------------------------------
(* The life of one assembly of APRAS: the votes put on its agenda and their *)
(* options, the closing that cascades into the votes, and the minutes that  *)
(* are rendered from the frozen results and filed as documents.             *)
(*                                                                          *)
(* Workers and requests are those of Voting: a request reads committed      *)
(* state and commits in later steps, here often more than once.  What       *)
(* Voting tells apart within one vote is abstracted: who may cast is left   *)
(* open, and of the rows of a unit only the last is kept.  The options that *)
(* one create or update of a vote writes are one value, a paper: they are   *)
(* written, and deleted, together.                                          *)
(*                                                                          *)
(* Bounds: Votes, Papers, Folders and MaxMinutes (documents filed).         *)
EXTENDS Naturals, FiniteSets

CONSTANTS Votes, Lots, Papers, Folders, Workers, MaxMinutes,
    NoRow, Withdrawn     \* the unit never voted; its last row is a retraction

ASSUME AssemblyAssumption ==
    /\ IsFiniteSet(Votes) /\ IsFiniteSet(Lots)
    /\ MaxMinutes \in Nat
    /\ NoRow \notin Papers /\ Withdrawn \notin Papers

VARIABLES
    assembly,   \* assembly.status
    votes,      \* the votes of the assembly: vote -> row, or NoVote
    last,       \* last ballot row: [vote, unit] -> paper, NoRow or Withdrawn
    printed,    \* papers whose options were ever inserted
    folders,    \* root folders named "Atas de Assembleia"
    minutes,    \* documents filed there
    late,       \* auxiliary: votes created during or after a closing
    req         \* the request each worker is serving

archive == <<folders, minutes>>
vars == <<assembly, votes, last, printed, archive, late, req>>

Phases == {"DRAFT", "OPEN", "CLOSED"}

(* A tally: the papers it has counters for, the units that voted, and the   *)
(* votes on those counters.                                                 *)
Results == [papers : SUBSET Papers, voters : Nat, counted : Nat]

NoVote == [status |-> "none"]
Row == [status : {"OPEN", "CLOSED"}, papers : SUBSET Papers, due : BOOLEAN,
        result : SUBSET Results]

Created == {v \in Votes : votes[v] # NoVote}
OpenVotes == {v \in Votes : votes[v].status = "OPEN"}

(* What a document says of a vote.                                          *)
Entries == [vote : Votes, result : Results]
Documents == [folder : Folders, report : SUBSET Entries]

IdleReq == [op |-> "idle"]
ClosingReq == [op : {"closing"}, left : SUBSET Votes]
RenderReq == [op : {"rendering"}, left : SUBSET Votes, report : SUBSET Entries]
FreezeReq == [op : {"freezing"}, vote : Votes, tally : SUBSET Results,
              after : {IdleReq} \cup ClosingReq \cup RenderReq]
CastReq == [op : {"casting"}, vote : Votes, lot : Lots,
            choice : Papers \cup {Withdrawn}]
OptionsReq == [op : {"printing"}, vote : Votes]
EditReq == [op : {"editing"}, vote : Votes, old : SUBSET Papers,
            replace : BOOLEAN, due : SUBSET BOOLEAN]
PatchReq == [op : {"patching"}, to : {"DRAFT", "OPEN"}]
FolderReq == [op : {"foldering"}, report : SUBSET Entries]
FileReq == [op : {"filing"}, folder : Folders, report : SUBSET Entries]
Requests ==
    {IdleReq} \cup ClosingReq \cup RenderReq \cup FreezeReq \cup CastReq
        \cup OptionsReq \cup EditReq \cup PatchReq \cup FolderReq \cup FileReq

Free(w) == req[w] = IdleReq
Go(w, r) == req' = [req EXCEPT ![w] = r]

(* A close_assembly is under way.                                           *)
Closes(r) ==
    r.op = "closing" \/ (r.op = "freezing" /\ r.after.op = "closing")
-----------------------------------------------------------------------------
Init ==
    /\ assembly = "DRAFT"
    /\ votes = [v \in Votes |-> NoVote]
    /\ last = [p \in Votes \X Lots |-> NoRow]
    /\ printed = {} /\ folders = {} /\ minutes = {} /\ late = {}
    /\ req = [w \in Workers |-> IdleReq]

(* The clock passes closes_at of a vote.                                    *)
Elapse(v) ==
    /\ v \in Created /\ ~votes[v].due
    /\ votes' = [votes EXCEPT ![v].due = TRUE]
    /\ UNCHANGED <<assembly, last, printed, archive, late, req>>

(* create_vote, first commit: the vote without options.  The status of the  *)
(* assembly is not looked at.                                               *)
CreateVote(w) ==
    /\ Free(w)
    /\ \E v \in Votes \ Created, due \in BOOLEAN :
          /\ votes' = [votes EXCEPT ![v] =
                [status |-> "OPEN", papers |-> {}, due |-> due, result |-> {}]]
          /\ late' = IF assembly = "CLOSED" \/ \E x \in Workers : Closes(req[x])
                        THEN late \cup {v} ELSE late
          /\ Go(w, [op |-> "printing", vote |-> v])
    /\ UNCHANGED <<assembly, last, printed, archive>>

(* The options are inserted by a commit of their own.                       *)
PrintOptions(w) ==
    /\ req[w].op = "printing"
    /\ \E p \in Papers \ printed :
          /\ votes' = [votes EXCEPT ![req[w].vote].papers = @ \cup {p}]
          /\ printed' = printed \cup {p}
    /\ Go(w, IdleReq)
    /\ UNCHANGED <<assembly, last, archive, late>>

(* Mistakes a property must notice: a vote is edited after its first        *)
(* ballot; a closed vote is edited.                                         *)
EditableWithBallots(v) == v \in Created /\ votes[v].status # "CLOSED"

EditableWhenClosed(v) == v \in Created /\ \A l \in Lots : last[<<v, l>>] = NoRow

(* update_vote: only while open and without a single ballot row.            *)
Editable(v) ==
    /\ v \in Created /\ votes[v].status # "CLOSED"
    /\ \A l \in Lots : last[<<v, l>>] = NoRow

EditVote(w) ==
    /\ Free(w)
    /\ \E v \in Votes, replace \in BOOLEAN, due \in {{}, {TRUE}, {FALSE}} :
          /\ Editable(v)
          /\ Go(w, [op |-> "editing", vote |-> v, old |-> votes[v].papers,
                    replace |-> replace, due |-> due])
    /\ UNCHANGED <<assembly, votes, last, printed, archive, late>>

(* The commit of the edited columns deletes the options read; new ones      *)
(* follow in a second commit.                                               *)
VoteEdited(w) ==
    LET r == req[w] IN
    /\ r.op = "editing"
    /\ votes' = [votes EXCEPT
          ![r.vote].papers = IF r.replace THEN @ \ r.old ELSE @,
          ![r.vote].due = IF r.due = {} THEN @ ELSE TRUE \in r.due]
    /\ Go(w, IF r.replace THEN [op |-> "printing", vote |-> r.vote] ELSE IdleReq)
    /\ UNCHANGED <<assembly, last, printed, archive, late>>

(* cast_ballot: a choice among the options the vote has, or a retraction.   *)
CastCheck(w) ==
    /\ Free(w) /\ assembly = "OPEN"
    /\ \E v \in OpenVotes, l \in Lots :
          /\ ~votes[v].due
          /\ \E c \in votes[v].papers
                      \cup (IF last[<<v, l>>] \in Papers THEN {Withdrawn} ELSE {}) :
                Go(w, [op |-> "casting", vote |-> v, lot |-> l, choice |-> c])
    /\ UNCHANGED <<assembly, votes, last, printed, archive, late>>

AppendRow(w) ==
    /\ req[w].op = "casting"
    /\ last' = [last EXCEPT ![<<req[w].vote, req[w].lot>>] = req[w].choice]
    /\ Go(w, IdleReq)
    /\ UNCHANGED <<assembly, votes, printed, archive, late>>
-----------------------------------------------------------------------------
(* Closing.                                                                 *)

TallyOf(v) ==
    [papers  |-> votes[v].papers,
     voters  |-> Cardinality({l \in Lots : last[<<v, l>>] \in Papers}),
     counted |-> Cardinality({l \in Lots : last[<<v, l>>] \in votes[v].papers})]

(* materialize_snapshot up to its commit, then what the request does next.  *)
Materialize(w, v, after) ==
    Go(w, [op |-> "freezing", vote |-> v, after |-> after,
           tally |-> IF votes[v].result = {} THEN {TallyOf(v)} ELSE {}])

Freeze(w) ==
    LET r == req[w] IN
    /\ r.op = "freezing"
    /\ votes' = [votes EXCEPT
          ![r.vote].status = "CLOSED",
          ![r.vote].result = IF r.tally = {} THEN @ ELSE r.tally]
    /\ Go(w, r.after)
    /\ UNCHANGED <<assembly, last, printed, archive, late>>

(* close_vote, or the first read of a vote past its window.                 *)
CloseVote(w) ==
    /\ Free(w)
    /\ \E v \in OpenVotes : Materialize(w, v, IdleReq)
    /\ UNCHANGED <<assembly, votes, last, printed, archive, late>>

(* close_assembly goes through the votes it listed, one commit each.        *)
CloseAssembly(w) ==
    /\ Free(w) /\ assembly # "CLOSED"
    /\ Go(w, [op |-> "closing", left |-> Created])
    /\ UNCHANGED <<assembly, votes, last, printed, archive, late>>

Cascade(w) ==
    /\ req[w].op = "closing"
    /\ \E v \in req[w].left :
          Materialize(w, v, [op |-> "closing", left |-> req[w].left \ {v}])
    /\ UNCHANGED <<assembly, votes, last, printed, archive, late>>

(* A mistake: the assembly is closed before its votes are.                  *)
AssemblyClosedFirst(w) ==
    /\ req[w].op = "closing"
    /\ assembly' = "CLOSED"
    /\ Go(w, IF req[w].left = {} THEN IdleReq ELSE req[w])
    /\ UNCHANGED <<votes, last, printed, archive, late>>

AssemblyClosed(w) ==
    /\ req[w].op = "closing" /\ req[w].left = {}
    /\ assembly' = "CLOSED"
    /\ Go(w, IdleReq)
    /\ UNCHANGED <<votes, last, printed, archive, late>>

(* update_assembly.                                                         *)
PatchAssembly(w) ==
    /\ Free(w) /\ assembly # "CLOSED"
    /\ \E s \in {"DRAFT", "OPEN"} \ {assembly} :
          Go(w, [op |-> "patching", to |-> s])
    /\ UNCHANGED <<assembly, votes, last, printed, archive, late>>

AssemblyPatched(w) ==
    /\ req[w].op = "patching"
    /\ assembly' = req[w].to
    /\ Go(w, IdleReq)
    /\ UNCHANGED <<votes, last, printed, archive, late>>
-----------------------------------------------------------------------------
(* Minutes.                                                                 *)

(* render_minutes_html of a closed assembly.                                *)
RenderMinutes(w) ==
    /\ Free(w) /\ assembly = "CLOSED" /\ Cardinality(minutes) < MaxMinutes
    /\ Go(w, [op |-> "rendering", left |-> Created, report |-> {}])
    /\ UNCHANGED <<assembly, votes, last, printed, archive, late>>

(* A mistake: a vote without a result is recounted, not frozen.             *)
RenderVoteLive(w) ==
    LET r == req[w] IN
    /\ r.op = "rendering"
    /\ \E v \in r.left :
          Go(w, [op |-> "rendering", left |-> r.left \ {v},
                 report |-> r.report \cup {[vote |-> v, result |-> TallyOf(v)]}])
    /\ UNCHANGED <<assembly, votes, last, printed, archive, late>>

(* One vote after the other: its frozen result, frozen now if missing.      *)
RenderVote(w) ==
    LET r == req[w] IN
    /\ r.op = "rendering"
    /\ \E v \in r.left :
          \/ votes[v].result = {} /\ Materialize(w, v, r)
          \/ \E t \in votes[v].result :
                Go(w, [op |-> "rendering", left |-> r.left \ {v},
                       report |-> r.report \cup {[vote |-> v, result |-> t]}])
    /\ UNCHANGED <<assembly, votes, last, printed, archive, late>>

(* A mistake: the folder is never looked for.                               *)
FindNoFolder(w) ==
    /\ req[w].op = "rendering" /\ req[w].left = {}
    /\ Go(w, [op |-> "foldering", report |-> req[w].report])
    /\ UNCHANGED <<assembly, votes, last, printed, archive, late>>

(* save_minutes looks for the folder, creates it if there is none, and      *)
(* files the document.  A read of the minutes alone ends before this.       *)
FindFolder(w) ==
    /\ req[w].op = "rendering" /\ req[w].left = {}
    /\ IF folders = {}
          THEN Go(w, [op |-> "foldering", report |-> req[w].report])
          ELSE \E f \in folders :
                  Go(w, [op |-> "filing", folder |-> f, report |-> req[w].report])
    /\ UNCHANGED <<assembly, votes, last, printed, archive, late>>

MakeFolder(w) ==
    /\ req[w].op = "foldering"
    /\ \E f \in Folders \ folders :
          /\ folders' = folders \cup {f}
          /\ Go(w, [op |-> "filing", folder |-> f, report |-> req[w].report])
    /\ UNCHANGED <<assembly, votes, last, printed, minutes, late>>

FileMinutes(w) ==
    /\ req[w].op = "filing"
    /\ minutes' = minutes \cup
          {[folder |-> req[w].folder, report |-> req[w].report]}
    /\ Go(w, IdleReq)
    /\ UNCHANGED <<assembly, votes, last, printed, folders, late>>

(* A request ends early: its worker dies, or it only read the minutes.      *)
Stop(w) ==
    /\ ~Free(w)
    /\ Go(w, IdleReq)
    /\ UNCHANGED <<assembly, votes, last, printed, archive, late>>
-----------------------------------------------------------------------------
Agenda(w) ==
    \/ CreateVote(w) \/ PrintOptions(w) \/ EditVote(w) \/ VoteEdited(w)
    \/ CastCheck(w) \/ AppendRow(w)

Closing(w) ==
    \/ CloseVote(w) \/ CloseAssembly(w) \/ Cascade(w) \/ Freeze(w)
    \/ AssemblyClosed(w) \/ PatchAssembly(w) \/ AssemblyPatched(w)

Filing(w) ==
    \/ RenderMinutes(w) \/ RenderVote(w) \/ FindFolder(w) \/ MakeFolder(w)
    \/ FileMinutes(w)

Next ==
    \/ \E v \in Votes : Elapse(v)
    \/ \E w \in Workers : Agenda(w) \/ Closing(w) \/ Filing(w) \/ Stop(w)

Spec == Init /\ [][Next]_vars
-----------------------------------------------------------------------------
(* Properties.                                                              *)

(* Every variable has its type.                                             *)
TypeOK ==
    /\ assembly \in Phases
    /\ votes \in [Votes -> Row \cup {NoVote}]
    /\ last \in [Votes \X Lots -> Papers \cup {NoRow, Withdrawn}]
    /\ printed \subseteq Papers /\ folders \subseteq Folders
    /\ minutes \subseteq Documents
    /\ late \subseteq Votes
    /\ req \in [Workers -> Requests]

(* Every vote still open in a closed assembly was created while the         *)
(* assembly was being closed, or later: whatever overlaps the closing and   *)
(* wherever it crashes, the cascade of close_assembly has closed the        *)
(* others before the assembly reads CLOSED.                                 *)
OpenVotesAreLate == assembly = "CLOSED" => OpenVotes \subseteq late

(* A closed assembly stays closed: "Blocked once the assembly is CLOSED."   *)
ClosedForGood == [][assembly = "CLOSED" => assembly' = "CLOSED"]_vars

(* With one worker: the frozen result of a vote has a counter for each of   *)
(* its options and for no other, and every unit that voted is in them.  The *)
(* two tests of update_vote, across the two commits of every edit.          *)
ResultCoversOptions ==
    \A v \in Created : \A t \in votes[v].result :
        t.papers = votes[v].papers /\ t.counted = t.voters

(* With one worker: what the minutes say of a vote is its frozen result,    *)
(* and they leave out no vote but those created after the closing.          *)
MinutesTellResults ==
    \A d \in minutes :
        /\ \A e \in d.report : votes[e.vote].result = {e.result}
        /\ Created \ late \subseteq {e.vote : e \in d.report}

(* With one worker: all minutes are in one folder.                          *)
OneFolder == \A c, d \in minutes : c.folder = d.folder
=============================================================================
