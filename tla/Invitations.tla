---------------------------- MODULE Invitations -----------------------------
(* Inviting the administrators of the condominiums: issue, resolve and     *)
(* accept of invitation_service, and the memberships they grant            *)
(* (tenant_service).  A row is locked while a request is accepting it: the *)
(* lock goes with the transaction, however it ends.  Bounds: Invites, the  *)
(* invitations ever issued, and MaxTime, the last instant.                 *)
EXTENDS Requests, Naturals

CONSTANTS Invites, Condos, Emails, TTL, MaxTime

ASSUME InvitationsAssumption == TTL \in Nat /\ MaxTime \in Nat

(* TenantInvitation: id -> row or NoInvite, accepted being {} or the       *)
(* worker that accepted it; User: e-mail -> account; UserTenantLink:       *)
(* (e-mail, tenant) -> membership; the clock.  Auxiliary, in an            *)
(* invitation: saw, the ones its request read, and superseded.             *)
VARIABLES invites, accounts, links, now
tenancy == <<invites, accounts, links, now>>

NoInvite == [saw |-> {}]
Issues == {i \in Invites : invites[i] # NoInvite}

InvitationsInit ==
    /\ invites = [i \in Invites |-> NoInvite]
    /\ accounts = [e \in Emails |-> "none"]
    /\ links = [m \in Emails \X Condos |-> "none"]
    /\ now = 0

Tick ==
    /\ now < MaxTime /\ now' = now + 1
    /\ UNCHANGED <<invites, accounts, links, req>>

(* The sign-up of an address, which an administrator activates later.      *)
SignUp(w) ==
    /\ Free(w)
    /\ \E e \in Emails :
          accounts[e] = "none" /\ accounts' = [accounts EXCEPT ![e] = "pending"]
    /\ UNCHANGED <<invites, links, now, req>>

Live(i) == invites[i].accepted = {} /\ invites[i].expires > now
Locked(i) == \E w \in Workers : Serving(w, "accepting") /\ req[w].id = i
Unissued == Invites \ (Issues \cup {req[w].id : w \in {v \in Workers : Serving(v, "issue")}})

(* issue, up to its commit: reads the live invitations of the pair.        *)
Issue(w) ==
    /\ Free(w)
    /\ \E k \in Condos, e \in Emails, i \in Unissued :
          Ask(w, [op |-> "issue", id |-> i, condo |-> k, to |-> e, at |-> now,
                  saw |-> Issues,
                  live |-> {j \in Issues : /\ invites[j].condo = k
                                           /\ invites[j].to = e /\ Live(j)}])
    /\ UNCHANGED tenancy

(* A mistake: the new invitation is added beside the live ones.            *)
SupersededNone(w) == invites
Superseded(w) ==
    [j \in Invites |-> IF j \in req[w].live
        THEN [invites[j] EXCEPT !.expires = req[w].at, !.superseded = TRUE]
        ELSE invites[j]]

(* Its commit expires what it read as live, when no lock is in the way,    *)
(* and inserts the new row.                                                *)
Issued(w) ==
    /\ Serving(w, "issue")
    /\ \A j \in req[w].live : ~Locked(j)
    /\ invites' = [Superseded(w) EXCEPT ![req[w].id] =
          [condo |-> req[w].condo, to |-> req[w].to, expires |-> req[w].at + TTL,
           accepted |-> {}, superseded |-> FALSE, saw |-> req[w].saw]]
    /\ Answer(w)
    /\ UNCHANGED <<accounts, links, now>>

(* accept waits for the row, locks it and reads the rest, or is refused.   *)
Accept(w) ==
    /\ Free(w)
    /\ \E i \in Issues : Ask(w, [op |-> "accept", id |-> i])
    /\ UNCHANGED tenancy

(* A mistake: the row is read without its lock.                            *)
ResolveUnlocked(w) ==
    /\ Serving(w, "accept")
    /\ LET i == req[w].id
       IN IF Live(i)
          THEN Ask(w, [op |-> "accepting", id |-> i,
                       account |-> accounts[invites[i].to],
                       link |-> links[<<invites[i].to, invites[i].condo>>]])
          ELSE Answer(w)
    /\ UNCHANGED tenancy

Resolve(w) ==
    /\ Serving(w, "accept")
    /\ LET i == req[w].id
       IN /\ ~Locked(i)
          /\ IF Live(i)
             THEN Ask(w, [op |-> "accepting", id |-> i,
                          account |-> accounts[invites[i].to],
                          link |-> links[<<invites[i].to, invites[i].condo>>]])
             ELSE Answer(w)
    /\ UNCHANGED tenancy

(* _create_user refuses: incomplete or invalid data, or a CPF that exists. *)
Declined(w) ==
    /\ Serving(w, "accepting") /\ req[w].account = "none"
    /\ Answer(w)
    /\ UNCHANGED tenancy

(* A membership is written when its value is not the one read; adding one  *)
(* that exists by now and changing one that was removed fail.              *)
WritableLink(read, to, link) ==
    to \in {read, "none"} \/ (read = "none") = (link = "none")
WrittenLink(read, to, link) == IF to = read THEN link ELSE to

(* An account or a membership made, or removed, meanwhile by another       *)
(* request fails the one that accepts.                                     *)
Invitation(w) == invites[req[w].id]
Clash(w) ==
    \/ req[w].account = "none" /\ accounts[Invitation(w).to] # "none"
    \/ ~WritableLink(req[w].link, "admin", links[<<Invitation(w).to, Invitation(w).condo>>])

(* The rest of accept, in one transaction: the account made or activated,  *)
(* the membership made or promoted and the invitation consumed.            *)
Consume(w) ==
    /\ ~Clash(w)
    /\ accounts' = [accounts EXCEPT ![Invitation(w).to] = "active"]
    /\ links' = [links EXCEPT ![<<Invitation(w).to, Invitation(w).condo>>] =
                    WrittenLink(req[w].link, "admin", @)]
    /\ invites' = [invites EXCEPT ![req[w].id].accepted = {w}]
    /\ UNCHANGED now

(* A mistake: the request waits for a conflict to go away.                 *)
AcceptedWhenClear(w) == Serving(w, "accepting") /\ Consume(w) /\ Answer(w)
Accepted(w) ==
    /\ Serving(w, "accepting")
    /\ Consume(w) \/ (Clash(w) /\ UNCHANGED tenancy)
    /\ Answer(w)

(* add_member, set_member_admin and remove_member, up to their commit.     *)
Member(w) ==
    /\ Free(w)
    /\ \E m \in {n \in Emails \X Condos : accounts[n[1]] # "none"},
          to \in {"none", "member", "admin"} :
          /\ links[m] = "none" => to # "none"
          /\ Ask(w, [op |-> "member", pair |-> m, link |-> links[m], to |-> to])
    /\ UNCHANGED tenancy

MemberWritten(w) ==
    /\ Serving(w, "member")
    /\ links' = IF WritableLink(req[w].link, req[w].to, links[req[w].pair])
                THEN [links EXCEPT ![req[w].pair] =
                         WrittenLink(req[w].link, req[w].to, @)]
                ELSE links
    /\ Answer(w)
    /\ UNCHANGED <<invites, accounts, now>>

InvitationsCrash(w) == Dies(w) /\ UNCHANGED tenancy

Waits(w) == Issued(w) \/ Resolve(w)
Finishes(w) == Declined(w) \/ Accepted(w) \/ MemberWritten(w)

InvitationsNext ==
    \/ Tick
    \/ \E w \in Workers :
          \/ SignUp(w) \/ Issue(w) \/ Accept(w) \/ Member(w)
          \/ Waits(w) \/ Finishes(w) \/ InvitationsCrash(w)

InvitationsSpec ==
    InvitationsInit /\ NoRequest /\ [][InvitationsNext]_<<tenancy, req>>
-----------------------------------------------------------------------------
(* An invitation is consumed once, and never after an issue superseded it, *)
(* however the requests that accept and supersede it overlap.              *)
SingleUse ==
    [][\A i \in Issues : invites'[i].accepted # invites[i].accepted =>
          invites[i].accepted = {} /\ ~invites[i].superseded]_tenancy

(* Two live invitations of one address to one condominium were issued by   *)
(* requests neither of which read the other's row.                         *)
TwoLiveOnlyByRace ==
    \A i, j \in Issues :
        /\ i # j /\ Live(i) /\ Live(j)
        /\ invites[i].condo = invites[j].condo /\ invites[i].to = invites[j].to
        => i \notin invites[j].saw /\ j \notin invites[i].saw

(* Every request ends: one that waits for the lock of a row gets its turn, *)
(* whatever the requests before it end with.                               *)
EveryRequestAnswered == \A w \in Workers : ~Free(w) ~> Free(w)
=============================================================================
