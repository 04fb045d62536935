----------------------------- MODULE Feedbacks ------------------------------
(* Feedback to the board and the flag that tells its reporter of an answer *)
(* (feedback_service).  One submission; its reporter is not of the board.  *)
(* Bound: MaxReplies, the answers the board gives.                         *)
EXTENDS Requests, Naturals

CONSTANT MaxReplies

(* Feedback: reply counts the texts of board_response, told is             *)
(* response_seen_by_reporter.  Auxiliary: shown, the last reply shown to   *)
(* the reporter; repliedBy and toldBy, the workers that wrote reply and    *)
(* told; lost, the request that wrote told never answered.                 *)
VARIABLE feedback

NoFeedback == [status |-> "none"]
NoOne == {}

FeedbackInit == feedback = NoFeedback
Submitted == feedback # NoFeedback

(* create_feedback.                                                        *)
Submit(w) ==
    /\ Free(w) /\ ~Submitted
    /\ feedback' = [status |-> "PENDING", reply |-> 0, told |-> FALSE, shown |-> 0,
                    repliedBy |-> NoOne, toldBy |-> NoOne, lost |-> FALSE]
    /\ UNCHANGED req

(* respond_to_feedback, up to its commit.                                  *)
Respond(w) ==
    /\ Free(w) /\ Submitted /\ feedback.reply < MaxReplies
    /\ Ask(w, [op |-> "respond", told |-> feedback.told])
    /\ UNCHANGED feedback

(* A mistake: the flag of the first answer stays.                          *)
RespondedOnce(w) ==
    /\ Serving(w, "respond")
    /\ feedback' = [feedback EXCEPT !.status = "ANSWERED", !.reply = @ + 1,
                                    !.repliedBy = {w}]
    /\ Answer(w)

(* A flag read as false is not written back.                               *)
Responded(w) ==
    /\ Serving(w, "respond")
    /\ feedback' = [feedback EXCEPT !.status = "ANSWERED", !.reply = @ + 1,
                                    !.repliedBy = {w},
                                    !.told = IF req[w].told THEN FALSE ELSE @]
    /\ Answer(w)

(* get_feedback by the reporter.  An answer told before is shown as read;  *)
(* one that was not is told, and shown as the refresh after the commit     *)
(* finds it.                                                               *)
LookAgain(w) ==
    /\ Free(w) /\ Submitted /\ (feedback.status = "PENDING" \/ feedback.told)
    /\ feedback' = [feedback EXCEPT !.shown = feedback.reply]
    /\ UNCHANGED req

Look(w) ==
    /\ Free(w) /\ Submitted /\ feedback.status = "ANSWERED" /\ ~feedback.told
    /\ Ask(w, [op |-> "look"])
    /\ UNCHANGED feedback

Told(w) ==
    /\ Serving(w, "look")
    /\ feedback' = [feedback EXCEPT !.told = TRUE, !.toldBy = {w}, !.lost = FALSE]
    /\ Ask(w, [op |-> "show"])

Shown(w) ==
    /\ Serving(w, "show")
    /\ feedback' = [feedback EXCEPT !.shown = feedback.reply]
    /\ Answer(w)

FeedbackCrash(w) ==
    /\ feedback' = IF Serving(w, "show") THEN [feedback EXCEPT !.lost = TRUE] ELSE feedback
    /\ Dies(w)

FeedbackNext == \E w \in Workers :
    \/ Submit(w) \/ Respond(w) \/ Responded(w) \/ LookAgain(w) \/ Look(w)
    \/ Told(w) \/ Shown(w) \/ FeedbackCrash(w)

FeedbackSpec == FeedbackInit /\ NoRequest /\ [][FeedbackNext]_<<feedback, req>>
-----------------------------------------------------------------------------
(* An answer marked as seen was shown to its reporter, or is being shown,  *)
(* or the request that marked it died before it answered, or the board     *)
(* answered again in a request that overlapped the reporter's.             *)
SeenUnshownOnlyByRace ==
    Submitted /\ feedback.told /\ feedback.shown # feedback.reply =>
        \/ feedback.lost
        \/ \E w \in Workers : Serving(w, "show")
        \/ feedback.repliedBy # feedback.toldBy
=============================================================================
