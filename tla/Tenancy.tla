------------------------------ MODULE Tenancy -------------------------------
(* The invitations of administrators, the feedback to them and the demo    *)
(* seed for TLC.  They share the workers and no table, so a behaviour      *)
(* exercises one of them, chosen at the start: area.                       *)
EXTENDS Invitations, Feedbacks, DemoSeed, TLC

CONSTANTS w1, w2

VARIABLE area

TwoWorkers == {w1, w2}

tenancyVars == <<tenancy, feedback, seeds, req, area>>

TenancyInit ==
    /\ area \in {"invitations", "feedback", "seeds"}
    /\ NoRequest /\ InvitationsInit /\ FeedbackInit /\ SeedInit
    /\ area # "seeds" => script = Foundation

Inviting(A) == area = "invitations" /\ A /\ UNCHANGED <<feedback, seeds, area>>
Listening(A) == area = "feedback" /\ A /\ UNCHANGED <<tenancy, seeds, area>>
Seeding(A) == area = "seeds" /\ A /\ UNCHANGED <<tenancy, feedback, area>>

TenancyNext ==
    \/ Inviting(InvitationsNext)
    \/ Listening(FeedbackNext)
    \/ Seeding(SeedNext)

(* A request runs to its end unless it dies; requests that wait for one    *)
(* row are queued by the database.                                         *)
Ends(w) ==
    \/ Inviting(Finishes(w))
    \/ Listening(Responded(w) \/ Told(w) \/ Shown(w))
    \/ Seeding(SeedEnds(w))

Fairness == \A w \in Workers :
    WF_tenancyVars(Ends(w)) /\ SF_tenancyVars(Inviting(Waits(w)))

TenancySpec == TenancyInit /\ [][TenancyNext]_tenancyVars /\ Fairness
=============================================================================
