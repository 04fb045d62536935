--------------------------- MODULE Announcements ----------------------------
(* The announcements of a condominium with their comments and read         *)
(* receipts (announcement_service), and a client that pages through the    *)
(* list one announcement at a time.  Their media files are in StoredFiles. *)
(* Bounds: MaxStamp, the time stamps ever taken, and MaxNotes, from which  *)
(* on no comment or receipt is asked for; they are where no client pages.  *)
EXTENDS Requests, Naturals, FiniteSets

CONSTANTS MaxStamp, MaxNotes

ASSUME AnnouncementsAssumption == MaxStamp \in Nat

(* The announcements by created_at, no two alike, each with its state and  *)
(* updated_at; comments and receipts; the last stamp.  Auxiliary: deleter; *)
(* who committed a comment or receipt late, after the deletion; the        *)
(* client's walk, with what it was shown and what happened meanwhile.      *)
VARIABLES feed, comments, receipts, stamp, walk
board == <<feed, comments, receipts, stamp, walk>>

Posts == 1 .. MaxStamp
NoPost == [state |-> "none", updated |-> 0, deleter |-> {}]
Listed == {p \in Posts : feed[p].state = "listed"}

NoWalk ==
    [skip |-> 0, shown |-> [p \in Posts |-> 0], start |-> {}, posted |-> FALSE,
     removed |-> FALSE, torn |-> FALSE, over |-> FALSE]

NoClient == [NoWalk EXCEPT !.over = TRUE]

AnnouncementsInit ==
    /\ feed = [p \in Posts |-> NoPost]
    /\ comments = {} /\ receipts = {} /\ stamp = 0 /\ walk \in {NoWalk, NoClient}

(* What happens while the client is at its walk.                           *)
Meanwhile(then) ==
    walk' = IF \/ walk.skip > 0 /\ ~walk.over
               \/ \E v \in Workers : Serving(v, "page")
            THEN then ELSE walk

Stamped(w, r) == stamp < MaxStamp /\ stamp' = stamp + 1 /\ Ask(w, r)

(* create_announcement; it becomes visible after its stamp was taken.      *)
Publish(w) ==
    /\ Free(w) /\ Stamped(w, [op |-> "publish", post |-> stamp + 1])
    /\ UNCHANGED <<feed, comments, receipts, walk>>
Published(w) ==
    /\ Serving(w, "publish")
    /\ feed' = [feed EXCEPT ![req[w].post] =
                   [NoPost EXCEPT !.state = "listed", !.updated = req[w].post]]
    /\ Meanwhile([walk EXCEPT !.posted = TRUE,
                              !.torn = @ \/ \E v \in Workers : Serving(v, "page")])
    /\ Answer(w) /\ UNCHANGED <<comments, receipts, stamp>>

(* update_announcement, which writes no is_deleted.                        *)
Revise(w) ==
    /\ Free(w)
    /\ \E p \in Listed : Stamped(w, [op |-> "revise", post |-> p, at |-> stamp + 1])
    /\ UNCHANGED <<feed, comments, receipts, walk>>
Revised(w) ==
    /\ Serving(w, "revise")
    /\ feed' = [feed EXCEPT ![req[w].post].updated = req[w].at]
    /\ Answer(w) /\ UNCHANGED <<comments, receipts, stamp, walk>>

(* delete_announcement.                                                    *)
Retire(w) ==
    /\ Free(w) /\ \E p \in Listed : Ask(w, [op |-> "retire", post |-> p])
    /\ UNCHANGED board
Retired(w) ==
    /\ Serving(w, "retire")
    /\ feed' = [feed EXCEPT ![req[w].post].state = "deleted",
                            ![req[w].post].deleter = @ \cup {w}]
    /\ Meanwhile([walk EXCEPT !.removed = TRUE])
    /\ Answer(w) /\ UNCHANGED <<comments, receipts, stamp>>

Note(w) ==
    [post |-> req[w].post,
     late |-> IF feed[req[w].post].state = "deleted" THEN {w} ELSE {}]
Room == walk = NoClient /\ Cardinality(comments) + Cardinality(receipts) < MaxNotes

(* add_comment.  A mistake: it looks for no deletion.                      *)
CommentAnyway(w) ==
    /\ Free(w) /\ Room /\ \E p \in Posts : /\ feed[p] # NoPost
                                   /\ Ask(w, [op |-> "comment", post |-> p])
    /\ UNCHANGED board
Comment(w) ==
    /\ Free(w) /\ Room /\ \E p \in Listed : Ask(w, [op |-> "comment", post |-> p])
    /\ UNCHANGED board
Commented(w) ==
    /\ Serving(w, "comment")
    /\ comments' = comments \cup {Note(w)}
    /\ Answer(w) /\ UNCHANGED <<feed, receipts, stamp, walk>>

(* delete_comment, which looks at no announcement.                         *)
Uncomment(w) ==
    /\ Free(w) /\ \E c \in comments : comments' = comments \ {c}
    /\ UNCHANGED <<feed, receipts, stamp, walk, req>>

(* mark_read by the one reader; the table holds one receipt of each.       *)
MarkRead(w) ==
    /\ Free(w) /\ Room
    /\ \E p \in Listed : /\ ~\E r \in receipts : r.post = p
                         /\ Ask(w, [op |-> "read", post |-> p])
    /\ UNCHANGED board
MarkedRead(w) ==
    /\ Serving(w, "read")
    /\ receipts' = IF \E r \in receipts : r.post = req[w].post THEN receipts
                   ELSE receipts \cup {Note(w)}
    /\ Answer(w) /\ UNCHANGED <<feed, comments, stamp, walk>>

(* list_announcements counts the rows in a query before the one that reads *)
(* a page of them; the client asks for the next page up to the last count. *)
CountFeed(w) ==
    /\ Free(w) /\ ~walk.over /\ ~\E v \in Workers : Serving(v, "page")
    /\ walk' = IF walk.skip = 0 THEN [NoWalk EXCEPT !.start = Listed] ELSE walk
    /\ Ask(w, [op |-> "page", total |-> Cardinality(Listed)])
    /\ UNCHANGED <<feed, comments, receipts, stamp>>

(* The listed announcements before p.  A mistake: by updated_at.           *)
BeforeByUpdate(p) == {q \in Listed : feed[q].updated > feed[p].updated}
Before(p) == {q \in Listed : q > p}
PageOf(skip) == {p \in Listed : Cardinality(Before(p)) = skip}

ShowPage(w) ==
    /\ Serving(w, "page")
    /\ walk' = [walk EXCEPT
           !.skip = @ + 1, !.over = walk.skip + 1 >= req[w].total,
           !.shown = [p \in Posts |-> @[p] + IF p \in PageOf(walk.skip) THEN 1 ELSE 0]]
    /\ Answer(w) /\ UNCHANGED <<feed, comments, receipts, stamp>>

AnnouncementsCrash(w) == Dies(w) /\ UNCHANGED board

BoardEnds(w) ==
    \/ Published(w) \/ Revised(w) \/ Retired(w) \/ Commented(w) \/ MarkedRead(w)
    \/ ShowPage(w)

AnnouncementsNext == \E w \in Workers :
    \/ Publish(w) \/ Revise(w) \/ Retire(w) \/ Comment(w) \/ Uncomment(w)
    \/ MarkRead(w) \/ CountFeed(w) \/ AnnouncementsCrash(w) \/ BoardEnds(w)

AnnouncementsSpec ==
    AnnouncementsInit /\ NoRequest /\ [][AnnouncementsNext]_<<board, req>>
-----------------------------------------------------------------------------
(* A client that walked through all pages was shown every announcement     *)
(* that was there when it began, unless one was deleted meanwhile or       *)
(* posted between the two queries of a page; and saw one twice only when   *)
(* another was posted meanwhile.  Edits move nothing.                      *)
MissedOnlyByChange == walk.over =>
    /\ \A p \in walk.start : walk.shown[p] = 0 => walk.removed \/ walk.torn
    /\ \A p \in Posts : walk.shown[p] > 1 => walk.posted

(* A comment or a receipt that came after the deletion of its announcement *)
(* is of a request that overlapped it, on another worker.                  *)
LateOnlyByRace == \A n \in comments \cup receipts :
    n.late # {} => \E v \in feed[n.post].deleter : v \notin n.late
=============================================================================
