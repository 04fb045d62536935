--------------------------- MODULE TenancyProofs ---------------------------
(* Whatever the invitations, condominiums, addresses and number of         *)
(* workers: the lock of its row lets one request consume an invitation,    *)
(* and none after another superseded it; two live invitations of a pair    *)
(* come of requests that did not read each other's.  An answer of the      *)
(* board reads as seen and was not shown only by a crash or by requests    *)
(* that overlapped.  The demo seed, however often it is run, killed and    *)
(* undone, copies no row but by runs that overlapped or, where the row     *)
(* bears a date, by runs on different days, and leaves out none.           *)
EXTENDS Invitations, Feedbacks, DemoSeed, TLAPS
-----------------------------------------------------------------------------
(* Invitations.                                                            *)

AccountStates == {"none", "pending", "active"}
LinkStates == {"none", "member", "admin"}
Invite == [condo : Condos, to : Emails, expires : Nat, accepted : SUBSET Workers,
           superseded : BOOLEAN, saw : SUBSET Invites]

InvitationsRequests == {IdleReq}
    \cup [op : {"issue"}, id : Invites, condo : Condos, to : Emails, at : Nat,
          saw : SUBSET Invites, live : SUBSET Invites]
    \cup [op : {"accept"}, id : Invites]
    \cup [op : {"accepting"}, id : Invites, account : AccountStates, link : LinkStates]
    \cup [op : {"member"}, pair : Emails \X Condos, link : LinkStates, to : LinkStates]

InvitationsTyped ==
    /\ invites \in [Invites -> Invite \cup {NoInvite}]
    /\ accounts \in [Emails -> AccountStates]
    /\ links \in [Emails \X Condos -> LinkStates]
    /\ now \in Nat
    /\ req \in [Workers -> InvitationsRequests]

(* Requests name the rows they read; two that issue insert two new rows.   *)
InvitesExist ==
    \A w \in Workers :
        /\ Serving(w, "issue") =>
              /\ req[w].id \notin Issues /\ req[w].live \subseteq Issues
              /\ req[w].at <= now
              /\ \A v \in Workers \ {w} : Serving(v, "issue") => req[v].id # req[w].id
        /\ req[w].op \in {"accept", "accepting"} => req[w].id \in Issues

(* What was superseded has expired, so that nobody resolves it.            *)
SupersededDead == \A i \in Issues : invites[i].superseded => invites[i].expires <= now

(* The request that is accepting an invitation is the only one, and what   *)
(* it read of the row still holds.                                         *)
LockHeld ==
    \A w \in Workers : Serving(w, "accepting") =>
        /\ invites[req[w].id].accepted = {} /\ ~invites[req[w].id].superseded
        /\ \A v \in Workers \ {w} : Serving(v, "accepting") => req[v].id # req[w].id

InvitationsInv == InvitationsTyped /\ InvitesExist /\ SupersededDead /\ LockHeld

SingleStep ==
    \A i \in Issues : invites'[i].accepted # invites[i].accepted =>
        invites[i].accepted = {} /\ ~invites[i].superseded
-----------------------------------------------------------------------------
LEMMA InvitationsShapes ==
    /\ NoInvite \notin Invite /\ IdleReq \in InvitationsRequests /\ IdleReq.op = "idle"
    /\ \A r \in InvitationsRequests :
          /\ r.op = "issue" => /\ r.id \in Invites /\ r.condo \in Condos /\ r.to \in Emails
                               /\ r.at \in Nat /\ r.saw \subseteq Invites
                               /\ r.live \subseteq Invites
          /\ r.op \in {"accept", "accepting"} => r.id \in Invites
          /\ r.op = "accepting" => r.link \in LinkStates
          /\ r.op = "member" => /\ r.pair \in Emails \X Condos
                                /\ r.link \in LinkStates /\ r.to \in LinkStates
  BY DEF NoInvite, Invite, IdleReq, InvitationsRequests

LEMMA InviteRows ==
    ASSUME InvitationsTyped
    PROVE  /\ \A i \in Issues : i \in Invites /\ invites[i] \in Invite
           /\ \A i \in Invites : invites[i] \in Invite => i \in Issues
  BY InvitationsShapes DEF InvitationsTyped, Issues

(* A request ends or begins that neither issues nor is accepting, and no   *)
(* invitation is written.                                                  *)
LEMMA NoInviteWritten ==
    ASSUME InvitationsInv, NEW w \in Workers, NEW r \in InvitationsRequests,
           req' = [req EXCEPT ![w] = r], r.op \notin {"issue", "accepting"},
           r.op = "accept" => r.id \in Issues, UNCHANGED <<invites, now>>,
           accounts' \in [Emails -> AccountStates],
           links' \in [Emails \X Condos -> LinkStates]
    PROVE  InvitationsInv' /\ SingleStep
<1> USE DEF InvitationsInv
<1>1. InvitationsTyped'
  BY DEF InvitationsTyped
<1>2. req'[w] = r /\ \A v \in Workers : v # w => req'[v] = req[v]
  BY DEF InvitationsTyped
<1>3. Issues' = Issues
  BY DEF Issues
<1>4. InvitesExist'
  BY <1>2, <1>3 DEF InvitesExist, Serving
<1>5. SupersededDead' /\ SingleStep
  BY <1>3 DEF SupersededDead, SingleStep
<1>6. LockHeld'
  BY <1>2 DEF LockHeld, Serving
<1> QED
  BY <1>1, <1>4, <1>5, <1>6
-----------------------------------------------------------------------------
LEMMA InvitationsStart == InvitationsInit /\ NoRequest => InvitationsInv
  BY DEF InvitationsInit, NoRequest, InvitationsInv, InvitationsTyped, AccountStates,
         LinkStates, InvitationsRequests, InvitesExist, SupersededDead, LockHeld,
         Issues, Serving, IdleReq

LEMMA TickKeeps == ASSUME InvitationsInv, Tick PROVE InvitationsInv' /\ SingleStep
<1> USE DEF InvitationsInv
<1>1. UNCHANGED <<invites, accounts, links, req>> /\ now \in Nat /\ now' = now + 1
  BY DEF Tick, InvitationsTyped
<1>2. Issues' = Issues /\ InvitationsTyped'
  BY <1>1 DEF Issues, InvitationsTyped
<1>3. InvitesExist'
  <2>1. \A w \in Workers : Serving(w, "issue") => req[w].at \in Nat
    BY InvitationsShapes DEF Serving, InvitationsTyped
  <2> QED
    BY <1>1, <1>2, <2>1 DEF InvitesExist, Serving
<1>4. SupersededDead'
  <2>1. \A i \in Issues : invites[i].expires \in Nat
    BY InviteRows DEF Invite
  <2> QED
    BY <1>1, <1>2, <2>1 DEF SupersededDead
<1> QED
  BY <1>1, <1>2, <1>3, <1>4 DEF LockHeld, Serving, SingleStep

(* issue, up to its commit.                                                *)
LEMMA IssueKeeps ==
    ASSUME InvitationsInv, NEW w \in Workers, Issue(w)
    PROVE  InvitationsInv' /\ SingleStep
<1> USE DEF InvitationsInv
<1> PICK k \in Condos, e \in Emails, i \in Unissued :
        Ask(w, [op |-> "issue", id |-> i, condo |-> k, to |-> e, at |-> now, saw |-> Issues,
                live |-> {j \in Issues : /\ invites[j].condo = k
                                         /\ invites[j].to = e /\ Live(j)}])
  BY DEF Issue
<1> DEFINE r == [op |-> "issue", id |-> i, condo |-> k, to |-> e, at |-> now, saw |-> Issues,
                 live |-> {j \in Issues : /\ invites[j].condo = k
                                          /\ invites[j].to = e /\ Live(j)}]
<1>1. /\ i \in Invites /\ i \notin Issues
      /\ \A v \in Workers : Serving(v, "issue") => req[v].id # i
  BY DEF Unissued
<1>2. Issues \subseteq Invites /\ now \in Nat
  BY DEF Issues, InvitationsTyped
<1>3. r \in InvitationsRequests
  BY <1>1, <1>2 DEF InvitationsRequests
<1>4. r.op = "issue" /\ r.id = i /\ r.at = now /\ r.live \subseteq Issues
  OBVIOUS
<1>5. req' = [req EXCEPT ![w] = r] /\ UNCHANGED <<invites, accounts, links, now>>
  BY DEF Ask, Issue, tenancy
<1> HIDE DEF r
<1>6. req'[w] = r /\ \A v \in Workers : v # w => req'[v] = req[v]
  BY <1>5 DEF InvitationsTyped
<1>7. InvitationsTyped' /\ Issues' = Issues
  BY <1>3, <1>5 DEF InvitationsTyped, Issues
<1>8. InvitesExist'
  BY <1>1, <1>2, <1>4, <1>5, <1>6, <1>7 DEF InvitesExist, Serving
<1>9. SupersededDead' /\ LockHeld' /\ SingleStep
  BY <1>4, <1>5, <1>6, <1>7 DEF SupersededDead, LockHeld, SingleStep, Serving
<1> QED
  BY <1>7, <1>8, <1>9

(* The commit of issue: what it supersedes nobody is accepting.            *)
LEMMA IssuedKeeps ==
    ASSUME InvitationsInv, NEW w \in Workers, Issued(w)
    PROVE  InvitationsInv' /\ SingleStep
<1> USE DEF InvitationsInv
<1> DEFINE i == req[w].id
           row == [condo |-> req[w].condo, to |-> req[w].to, expires |-> req[w].at + TTL,
                   accepted |-> {}, superseded |-> FALSE, saw |-> req[w].saw]
<1>1. /\ Serving(w, "issue") /\ \A j \in req[w].live : ~Locked(j)
      /\ UNCHANGED <<accounts, links, now>>
  BY DEF Issued
<1>2. /\ i \in Invites /\ req[w].condo \in Condos /\ req[w].to \in Emails
      /\ req[w].at \in Nat /\ req[w].saw \subseteq Invites
  BY <1>1, InvitationsShapes DEF Serving, InvitationsTyped
<1>3. i \notin Issues /\ req[w].live \subseteq Issues /\ req[w].at <= now
  BY <1>1 DEF InvitesExist
<1>4. row \in Invite /\ row.accepted = {} /\ ~row.superseded
  BY <1>2, InvitationsAssumption DEF Invite
<1>5. invites' = [Superseded(w) EXCEPT ![i] = row]
  BY DEF Issued
<1> HIDE DEF row
<1>6. invites'[i] = row /\ \A j \in Invites : j # i => invites'[j] = Superseded(w)[j]
  BY <1>2, <1>5 DEF Superseded
<1>7. \A j \in Issues : j \in Invites /\ j # i /\ invites[j] \in Invite
  BY <1>3, InviteRows
<1>8. \A j \in req[w].live :
          /\ invites'[j] \in Invite /\ invites'[j].accepted = invites[j].accepted
          /\ invites'[j].expires = req[w].at
  <2> SUFFICES ASSUME NEW j \in req[w].live
               PROVE  /\ invites'[j] \in Invite /\ invites'[j].accepted = invites[j].accepted
                      /\ invites'[j].expires = req[w].at
    OBVIOUS
  <2>1. invites'[j] = [invites[j] EXCEPT !.expires = req[w].at, !.superseded = TRUE]
    BY <1>3, <1>6, <1>7 DEF Superseded
  <2> QED
    BY <1>2, <1>3, <1>7, <2>1 DEF Invite
<1>9. \A j \in Invites : j # i /\ j \notin req[w].live => invites'[j] = invites[j]
  BY <1>6 DEF Superseded
<1>10. invites' \in [Invites -> Invite \cup {NoInvite}]
  <2>1. DOMAIN invites' = Invites /\ invites' = [j \in Invites |-> invites'[j]]
    BY <1>5 DEF Superseded
  <2>2. \A j \in Invites : invites'[j] \in Invite \cup {NoInvite}
    BY <1>4, <1>6, <1>8, <1>9 DEF InvitationsTyped
  <2> QED
    BY <2>1, <2>2
<1>11. Issues' = Issues \cup {i}
  <2>1. \A j \in Invites : invites'[j] # NoInvite <=> (invites[j] # NoInvite \/ j = i)
    BY <1>3, <1>4, <1>6, <1>7, <1>8, <1>9, InvitationsShapes
  <2> QED
    BY <1>2, <2>1 DEF Issues
<1>12. req' = [req EXCEPT ![w] = IdleReq]
  BY DEF Issued, Answer, Ask
<1>13. req'[w] = IdleReq /\ \A v \in Workers : v # w => req'[v] = req[v]
  BY <1>12 DEF InvitationsTyped
<1>14. InvitationsTyped'
  BY <1>1, <1>10, <1>12, InvitationsShapes DEF InvitationsTyped
<1>15. InvitesExist'
  BY <1>1, <1>11, <1>13, InvitationsShapes DEF InvitesExist, Serving
<1>16. SupersededDead'
  BY <1>1, <1>3, <1>4, <1>6, <1>7, <1>8, <1>9, <1>11 DEF SupersededDead
<1>17. \A v \in Workers : Serving(v, "accepting")' =>
          /\ v # w /\ Serving(v, "accepting") /\ req'[v] = req[v]
          /\ invites'[req[v].id] = invites[req[v].id]
  <2> SUFFICES ASSUME NEW v \in Workers, Serving(v, "accepting")'
               PROVE  /\ v # w /\ Serving(v, "accepting") /\ req'[v] = req[v]
                      /\ invites'[req[v].id] = invites[req[v].id]
    OBVIOUS
  <2>1. v # w /\ Serving(v, "accepting") /\ req'[v] = req[v]
    BY <1>13, InvitationsShapes DEF Serving
  <2>2. req[v].id \in Issues /\ req[v].id \notin req[w].live
    BY <1>1, <2>1 DEF InvitesExist, Serving, Locked
  <2> QED
    BY <1>7, <1>9, <2>1, <2>2
<1>18. LockHeld'
  BY <1>17 DEF LockHeld
<1>19. SingleStep
  BY <1>7, <1>8, <1>9 DEF SingleStep
<1> QED
  BY <1>14, <1>15, <1>16, <1>18, <1>19

(* resolve under the lock of the row: it is live, so not superseded.       *)
LEMMA ResolveKeeps ==
    ASSUME InvitationsInv, NEW w \in Workers, Resolve(w)
    PROVE  InvitationsInv' /\ SingleStep
<1> USE DEF InvitationsInv
<1> DEFINE i == req[w].id
<1>1. UNCHANGED <<invites, accounts, links, now>> /\ ~Locked(i) /\ Serving(w, "accept")
  BY DEF Resolve, tenancy
<1>2. i \in Issues /\ invites[i] \in Invite
  BY <1>1, InviteRows DEF InvitesExist, Serving
<1>3. CASE Live(i)
  <2> DEFINE r == [op |-> "accepting", id |-> i, account |-> accounts[invites[i].to],
                   link |-> links[<<invites[i].to, invites[i].condo>>]]
  <2>1. accounts[invites[i].to] \in AccountStates
    BY <1>2 DEF Invite, InvitationsTyped
  <2>2. links[<<invites[i].to, invites[i].condo>>] \in LinkStates
    BY <1>2 DEF Invite, InvitationsTyped
  <2>3. r \in InvitationsRequests /\ r.op = "accepting" /\ r.id = i
    BY <1>2, <2>1, <2>2, InviteRows DEF InvitationsRequests
  <2>4. req' = [req EXCEPT ![w] = r]
    BY <1>3 DEF Resolve, Ask
  <2> HIDE DEF r
  <2>5. req'[w] = r /\ \A v \in Workers : v # w => req'[v] = req[v]
    BY <2>4 DEF InvitationsTyped
  <2>6. InvitationsTyped' /\ Issues' = Issues
    BY <1>1, <2>3, <2>4 DEF InvitationsTyped, Issues
  <2>7. InvitesExist'
    BY <1>1, <1>2, <2>3, <2>5, <2>6 DEF InvitesExist, Serving
  <2>8. invites[i].accepted = {} /\ ~invites[i].superseded
    <3>1. invites[i].expires \in Nat /\ now \in Nat
      BY <1>2 DEF Invite, InvitationsTyped
    <3> QED
      BY <1>2, <1>3, <3>1 DEF Live, SupersededDead
  <2>9. LockHeld'
    <3>1. \A v \in Workers \ {w} : Serving(v, "accepting") => req[v].id # i
      BY <1>1 DEF Locked
    <3>2. \A v \in Workers \ {w} : Serving(v, "accepting")' =>
              Serving(v, "accepting") /\ req'[v] = req[v]
      BY <2>5 DEF Serving
    <3> QED
      BY <1>1, <2>3, <2>5, <2>8, <3>1, <3>2 DEF LockHeld
  <2> QED
    BY <1>1, <2>6, <2>7, <2>9 DEF SupersededDead, SingleStep
<1>4. CASE ~Live(i)
  <2>1. req' = [req EXCEPT ![w] = IdleReq]
    BY <1>4 DEF Resolve, Answer, Ask
  <2>2. accounts' \in [Emails -> AccountStates] /\ links' \in [Emails \X Condos -> LinkStates]
    BY <1>1 DEF InvitationsTyped
  <2> QED
    BY <1>1, <2>1, <2>2, InvitationsShapes, NoInviteWritten
<1> QED
  BY <1>3, <1>4

(* The commit of accept consumes the row it has locked.                    *)
LEMMA ConsumeKeeps ==
    ASSUME InvitationsInv, NEW w \in Workers, Serving(w, "accepting"), Consume(w), Answer(w)
    PROVE  InvitationsInv' /\ SingleStep
<1> USE DEF InvitationsInv
<1> DEFINE i == req[w].id
           row == [invites[i] EXCEPT !.accepted = {w}]
<1>1. i \in Issues /\ i \in Invites /\ invites[i] \in Invite
  BY InviteRows DEF InvitesExist, Serving
<1>2. /\ row \in Invite /\ row.accepted = {w}
      /\ row.superseded = invites[i].superseded /\ row.expires = invites[i].expires
  BY <1>1 DEF Invite
<1>3. invites' = [invites EXCEPT ![i] = row] /\ UNCHANGED now
  BY <1>1 DEF Consume, InvitationsTyped
<1> HIDE DEF row
<1>4. invites'[i] = row /\ \A j \in Invites : j # i => invites'[j] = invites[j]
  BY <1>1, <1>3 DEF InvitationsTyped
<1>5. Issues' = Issues
  BY <1>1, <1>2, <1>4, InvitationsShapes DEF Issues
<1>6. req' = [req EXCEPT ![w] = IdleReq]
  BY DEF Answer, Ask
<1>7. req'[w] = IdleReq /\ \A v \in Workers : v # w => req'[v] = req[v]
  BY <1>6 DEF InvitationsTyped
<1>8. accounts' \in [Emails -> AccountStates]
  BY DEF Consume, InvitationsTyped, AccountStates
<1>9. links' \in [Emails \X Condos -> LinkStates]
  <2>1. req[w].link \in LinkStates
    BY InvitationsShapes DEF Serving, InvitationsTyped
  <2>2. \A m \in Emails \X Condos : WrittenLink(req[w].link, "admin", links[m]) \in LinkStates
    BY DEF WrittenLink, LinkStates, InvitationsTyped
  <2> QED
    BY <2>2 DEF Consume, InvitationsTyped
<1>10. InvitationsTyped'
  BY <1>2, <1>3, <1>6, <1>8, <1>9, InvitationsShapes DEF InvitationsTyped
<1>11. InvitesExist'
  BY <1>3, <1>5, <1>7, InvitationsShapes DEF InvitesExist, Serving
<1>12. SupersededDead'
  BY <1>2, <1>3, <1>4, <1>5, InviteRows DEF SupersededDead
<1>13. LockHeld'
  <2>1. \A v \in Workers : Serving(v, "accepting")' =>
            /\ v # w /\ Serving(v, "accepting") /\ req'[v] = req[v]
            /\ req[v].id # i /\ req[v].id \in Issues
    BY <1>7, InvitationsShapes DEF Serving, LockHeld, InvitesExist
  <2>2. \A v \in Workers : Serving(v, "accepting")' => invites'[req[v].id] = invites[req[v].id]
    BY <1>4, <2>1, InviteRows
  <2> QED
    BY <2>1, <2>2 DEF LockHeld
<1>14. SingleStep
  BY <1>4, InviteRows DEF SingleStep, LockHeld
<1> QED
  BY <1>10, <1>11, <1>12, <1>13, <1>14
-----------------------------------------------------------------------------
LEMMA InvitationsStep ==
    InvitationsInv /\ [InvitationsNext]_<<tenancy, req>> => InvitationsInv' /\ SingleStep
<1> SUFFICES ASSUME InvitationsInv, [InvitationsNext]_<<tenancy, req>>
             PROVE  InvitationsInv' /\ SingleStep
  OBVIOUS
<1> USE DEF InvitationsInv
<1>1. CASE UNCHANGED <<tenancy, req>>
  BY <1>1 DEF tenancy, InvitationsTyped, InvitesExist, SupersededDead, LockHeld, SingleStep,
              Issues, Serving
<1>2. ASSUME NEW w \in Workers, SignUp(w)
      PROVE  InvitationsInv' /\ SingleStep
  <2>1. req' = [req EXCEPT ![w] = IdleReq]
    BY <1>2 DEF SignUp, Free, InvitationsTyped
  <2>2. UNCHANGED <<invites, now>> /\ links' \in [Emails \X Condos -> LinkStates]
    BY <1>2 DEF SignUp, InvitationsTyped
  <2>3. accounts' \in [Emails -> AccountStates]
    BY <1>2 DEF SignUp, InvitationsTyped, AccountStates
  <2> QED
    BY <2>1, <2>2, <2>3, InvitationsShapes, NoInviteWritten
<1>3. ASSUME NEW w \in Workers, Accept(w)
      PROVE  InvitationsInv' /\ SingleStep
  <2> PICK i \in Issues : Ask(w, [op |-> "accept", id |-> i])
    BY <1>3 DEF Accept
  <2>1. [op |-> "accept", id |-> i] \in InvitationsRequests
    BY DEF InvitationsRequests, Issues
  <2>2. /\ UNCHANGED <<invites, now>> /\ accounts' \in [Emails -> AccountStates]
        /\ links' \in [Emails \X Condos -> LinkStates]
    BY <1>3 DEF Accept, tenancy, InvitationsTyped
  <2> QED
    BY <2>1, <2>2, NoInviteWritten DEF Ask
<1>4. ASSUME NEW w \in Workers, Member(w)
      PROVE  InvitationsInv' /\ SingleStep
  <2> PICK m \in Emails \X Condos, to \in LinkStates :
          Ask(w, [op |-> "member", pair |-> m, link |-> links[m], to |-> to])
    BY <1>4 DEF Member, LinkStates
  <2>1. [op |-> "member", pair |-> m, link |-> links[m], to |-> to] \in InvitationsRequests
    BY DEF InvitationsRequests, InvitationsTyped
  <2>2. /\ UNCHANGED <<invites, now>> /\ accounts' \in [Emails -> AccountStates]
        /\ links' \in [Emails \X Condos -> LinkStates]
    BY <1>4 DEF Member, tenancy, InvitationsTyped
  <2> QED
    BY <2>1, <2>2, NoInviteWritten DEF Ask
<1>5. ASSUME NEW w \in Workers, MemberWritten(w)
      PROVE  InvitationsInv' /\ SingleStep
  <2>1. req' = [req EXCEPT ![w] = IdleReq] /\ UNCHANGED <<invites, accounts, now>>
    BY <1>5 DEF MemberWritten, Answer, Ask
  <2>2. req[w].pair \in Emails \X Condos /\ req[w].to \in LinkStates
    BY <1>5, InvitationsShapes DEF MemberWritten, Serving, InvitationsTyped
  <2>3. \A m \in Emails \X Condos :
            WrittenLink(req[w].link, req[w].to, links[m]) \in LinkStates
    BY <2>2 DEF WrittenLink, InvitationsTyped
  <2>4. links' \in [Emails \X Condos -> LinkStates]
    BY <1>5, <2>2, <2>3 DEF MemberWritten, InvitationsTyped
  <2>5. accounts' \in [Emails -> AccountStates]
    BY <2>1 DEF InvitationsTyped
  <2> QED
    BY <2>1, <2>4, <2>5, InvitationsShapes, NoInviteWritten
<1>6. ASSUME NEW w \in Workers, Declined(w) \/ InvitationsCrash(w)
      PROVE  InvitationsInv' /\ SingleStep
  <2>1. req' = [req EXCEPT ![w] = IdleReq] /\ UNCHANGED <<invites, accounts, links, now>>
    BY <1>6 DEF Declined, InvitationsCrash, Dies, Answer, Ask, tenancy
  <2>2. accounts' \in [Emails -> AccountStates] /\ links' \in [Emails \X Condos -> LinkStates]
    BY <2>1 DEF InvitationsTyped
  <2> QED
    BY <2>1, <2>2, InvitationsShapes, NoInviteWritten
<1>7. ASSUME NEW w \in Workers, Accepted(w)
      PROVE  InvitationsInv' /\ SingleStep
  <2>1. CASE Consume(w)
    BY <1>7, <2>1, ConsumeKeeps DEF Accepted
  <2>2. CASE UNCHANGED tenancy
    <3>1. req' = [req EXCEPT ![w] = IdleReq] /\ UNCHANGED <<invites, accounts, links, now>>
      BY <1>7, <2>2 DEF Accepted, Answer, Ask, tenancy
    <3>2. accounts' \in [Emails -> AccountStates] /\ links' \in [Emails \X Condos -> LinkStates]
      BY <3>1 DEF InvitationsTyped
    <3> QED
      BY <3>1, <3>2, InvitationsShapes, NoInviteWritten
  <2> QED
    BY <1>7, <2>1, <2>2 DEF Accepted
<1> QED
  BY <1>1, <1>2, <1>3, <1>4, <1>5, <1>6, <1>7, TickKeeps, IssueKeeps, IssuedKeeps,
     ResolveKeeps DEF InvitationsNext, Waits, Finishes
-----------------------------------------------------------------------------
(* accept consumes an invitation once and never a superseded one, whatever *)
(* issues, acceptances and memberships overlap.                            *)
THEOREM ConsumedOnce == InvitationsSpec => SingleUse
<1>1. SingleStep => [\A i \in Issues : invites'[i].accepted # invites[i].accepted =>
                        invites[i].accepted = {} /\ ~invites[i].superseded]_tenancy
  BY DEF SingleStep
<1> QED
  BY <1>1, InvitationsStart, InvitationsStep, PTL DEF InvitationsSpec, SingleUse
-----------------------------------------------------------------------------
(* Two live invitations of a pair.                                         *)

(* What a request that issues read, or had read, are rows.                 *)
ReadExists ==
    /\ \A i \in Issues : invites[i].saw \subseteq Issues
    /\ \A w \in Workers : Serving(w, "issue") => req[w].saw \subseteq Issues

(* Of the rows a request that issues read, those of its pair that are live *)
(* are among the ones it is to supersede.                                  *)
ReadLive ==
    \A w \in Workers : Serving(w, "issue") =>
        \A j \in req[w].saw :
            invites[j].condo = req[w].condo /\ invites[j].to = req[w].to /\ Live(j) =>
                j \in req[w].live

PairsInv == ReadExists /\ ReadLive /\ TwoLiveOnlyByRace

(* No request begins to issue, no row is added and none comes to life.     *)
LEMMA NoneComesToLife ==
    ASSUME PairsInv, Issues' = Issues,
           \A w \in Workers : Serving(w, "issue")' =>
               Serving(w, "issue") /\ req'[w] = req[w],
           \A j \in Issues :
               /\ invites'[j].condo = invites[j].condo /\ invites'[j].to = invites[j].to
               /\ invites'[j].saw = invites[j].saw
               /\ Live(j)' => Live(j)
    PROVE  PairsInv'
<1>1. ReadExists'
  BY DEF PairsInv, ReadExists
<1>2. ReadLive'
  <2> SUFFICES ASSUME NEW w \in Workers, Serving(w, "issue")', NEW j \in req'[w].saw,
                      invites'[j].condo = req'[w].condo, invites'[j].to = req'[w].to, Live(j)'
               PROVE  j \in req'[w].live
    BY DEF ReadLive
  <2>1. Serving(w, "issue") /\ req'[w] = req[w]
    OBVIOUS
  <2>2. j \in Issues
    BY <2>1 DEF PairsInv, ReadExists
  <2> QED
    BY <2>1, <2>2 DEF PairsInv, ReadLive
<1>3. TwoLiveOnlyByRace'
  <2> SUFFICES ASSUME NEW i \in Issues, NEW j \in Issues, i # j, Live(i)', Live(j)',
                      invites'[i].condo = invites'[j].condo, invites'[i].to = invites'[j].to
               PROVE  i \notin invites'[j].saw /\ j \notin invites'[i].saw
    BY DEF TwoLiveOnlyByRace
  <2> QED
    BY DEF PairsInv, TwoLiveOnlyByRace
<1> QED
  BY <1>1, <1>2, <1>3 DEF PairsInv

(* No invitation is written, and time may pass.                            *)
LEMMA RowsKept ==
    ASSUME InvitationsInv, PairsInv, NEW w \in Workers, NEW r, r.op # "issue",
           req' = [req EXCEPT ![w] = r], UNCHANGED <<invites, now>>
    PROVE  PairsInv'
<1>1. \A v \in Workers : req'[v] = IF v = w THEN r ELSE req[v]
  BY DEF InvitationsInv, InvitationsTyped
<1>2. Issues' = Issues /\ \A j \in Issues : Live(j)' => Live(j)
  BY DEF Issues, Live
<1>3. \A v \in Workers : Serving(v, "issue")' => Serving(v, "issue") /\ req'[v] = req[v]
  BY <1>1 DEF Serving
<1> QED
  BY <1>2, <1>3, NoneComesToLife

LEMMA TickKeepsPairs == ASSUME InvitationsInv, PairsInv, Tick PROVE PairsInv'
<1>1. UNCHANGED <<invites, req>> /\ now \in Nat /\ now' = now + 1
  BY DEF Tick, InvitationsInv, InvitationsTyped
<1>2. \A j \in Issues : invites[j].expires \in Nat
  BY InviteRows DEF Invite, InvitationsInv
<1>3. \A j \in Issues : Live(j)' => Live(j)
  BY <1>1, <1>2 DEF Live
<1> QED
  BY <1>1, <1>3, NoneComesToLife DEF Issues, Serving

LEMMA IssueKeepsPairs ==
    ASSUME InvitationsInv, PairsInv, NEW w \in Workers, Issue(w)
    PROVE  PairsInv'
<1> PICK k \in Condos, e \in Emails, i \in Unissued :
        Ask(w, [op |-> "issue", id |-> i, condo |-> k, to |-> e, at |-> now, saw |-> Issues,
                live |-> {j \in Issues : /\ invites[j].condo = k
                                         /\ invites[j].to = e /\ Live(j)}])
  BY DEF Issue
<1>1. PICK r : r = [op |-> "issue", id |-> i, condo |-> k, to |-> e, at |-> now,
                    saw |-> Issues,
                    live |-> {j \in Issues : /\ invites[j].condo = k
                                             /\ invites[j].to = e /\ Live(j)}]
  OBVIOUS
<1>2. /\ r.saw = Issues /\ r.condo = k /\ r.to = e
      /\ \A j \in Issues : invites[j].condo = k /\ invites[j].to = e /\ Live(j) => j \in r.live
  BY <1>1
<1>3. /\ \A v \in Workers : req'[v] = IF v = w THEN r ELSE req[v]
      /\ UNCHANGED <<invites, now>>
  BY <1>1 DEF Ask, Issue, tenancy, InvitationsInv, InvitationsTyped
<1>4. Issues' = Issues /\ \A j : Live(j)' <=> Live(j)
  BY <1>3 DEF Issues, Live
<1>5. ReadExists'
  BY <1>2, <1>3, <1>4 DEF PairsInv, ReadExists, Serving
<1>6. ReadLive'
  BY <1>2, <1>3, <1>4 DEF PairsInv, ReadLive, Serving
<1>7. TwoLiveOnlyByRace'
  BY <1>3, <1>4 DEF PairsInv, TwoLiveOnlyByRace
<1> QED
  BY <1>5, <1>6, <1>7 DEF PairsInv

(* The commit of issue: what it read live of its pair it supersedes, and   *)
(* nobody read the row it inserts.                                         *)
LEMMA IssuedKeepsPairs ==
    ASSUME InvitationsInv, PairsInv, NEW w \in Workers, Issued(w)
    PROVE  PairsInv'
<1>1. /\ Serving(w, "issue") /\ now' = now /\ req[w].id \notin Issues
      /\ req[w].live \subseteq Issues /\ req[w].at <= now
  BY DEF Issued, InvitationsInv, InvitesExist
<1>2. req[w].id \in Invites /\ req[w].at \in Nat /\ req[w].condo \in Condos
  BY <1>1, InvitationsShapes DEF Serving, InvitationsInv, InvitationsTyped
<1>3. PICK n : n = req[w].id
  OBVIOUS
<1>4. PICK row : row = [condo |-> req[w].condo, to |-> req[w].to,
                        expires |-> req[w].at + TTL, accepted |-> {}, superseded |-> FALSE,
                        saw |-> req[w].saw]
  OBVIOUS
<1>5. row.condo = req[w].condo /\ row.to = req[w].to /\ row.saw = req[w].saw
  BY <1>4
<1>6. invites' = [Superseded(w) EXCEPT ![n] = row]
  BY <1>3, <1>4 DEF Issued
<1>7. invites'[n] = row /\ \A j \in Invites : j # n => invites'[j] = Superseded(w)[j]
  BY <1>2, <1>3, <1>6 DEF Superseded
<1>8. \A j \in Issues : j \in Invites /\ j # n /\ invites[j] \in Invite
  BY <1>1, <1>3, InviteRows DEF InvitationsInv
<1>9. \A j \in req[w].live : invites'[j].saw = invites[j].saw /\ ~Live(j)'
  <2> SUFFICES ASSUME NEW j \in req[w].live
               PROVE  invites'[j].saw = invites[j].saw /\ ~Live(j)'
    OBVIOUS
  <2>1. invites'[j] = [invites[j] EXCEPT !.expires = req[w].at, !.superseded = TRUE]
    BY <1>1, <1>7, <1>8 DEF Superseded
  <2>2. invites'[j].expires = req[w].at /\ invites'[j].saw = invites[j].saw
    BY <1>1, <1>8, <2>1 DEF Invite
  <2>3. now \in Nat
    BY DEF InvitationsInv, InvitationsTyped
  <2> QED
    BY <1>1, <1>2, <2>2, <2>3 DEF Live
<1>10. \A j \in Issues \ req[w].live : invites'[j] = invites[j] /\ (Live(j)' <=> Live(j))
  BY <1>1, <1>7, <1>8 DEF Superseded, Live
<1>11. Issues' = Issues \cup {n}
  <2>1. InvitationsTyped'
    BY IssuedKeeps DEF InvitationsInv
  <2>2. \A j \in Issues : j \in Issues'
    <3>1. \A j \in Issues : invites'[j] # NoInvite
      <4> SUFFICES ASSUME NEW j \in Issues
                   PROVE  invites'[j] # NoInvite
        OBVIOUS
      <4>1. CASE j \in req[w].live
        <5>1. invites'[j] = [invites[j] EXCEPT !.expires = req[w].at, !.superseded = TRUE]
          BY <1>1, <1>7, <1>8, <4>1 DEF Superseded
        <5>2. invites'[j] \in Invite
          BY <1>2, <1>8, <5>1 DEF Invite
        <5> QED
          BY <5>2, InvitationsShapes
      <4> QED
        BY <1>8, <1>10, <4>1, InvitationsShapes
    <3> QED
      BY <1>8, <3>1 DEF Issues
  <2>3. n \in Issues'
    BY <1>2, <1>3, <1>4, <1>7 DEF Issues, NoInvite
  <2>4. \A j \in Issues' : j # n => j \in Issues
    BY <1>1, <1>7 DEF Issues, Superseded
  <2> QED
    BY <2>2, <2>3, <2>4
<1>12. \A v \in Workers : Serving(v, "issue")' => v # w /\ Serving(v, "issue") /\ req'[v] = req[v]
  BY InvitationsShapes DEF Issued, Answer, Ask, Serving, InvitationsInv, InvitationsTyped
<1>13. \A j \in Issues : Live(j)' => j \notin req[w].live /\ Live(j) /\ invites'[j] = invites[j]
  BY <1>9, <1>10
<1>14. ReadExists'
  BY <1>1, <1>5, <1>7, <1>9, <1>10, <1>11, <1>12 DEF PairsInv, ReadExists
<1>15. ReadLive'
  <2> SUFFICES ASSUME NEW v \in Workers, Serving(v, "issue")', NEW j \in req'[v].saw,
                      invites'[j].condo = req'[v].condo, invites'[j].to = req'[v].to, Live(j)'
               PROVE  j \in req'[v].live
    BY DEF ReadLive
  <2>1. Serving(v, "issue") /\ req'[v] = req[v] /\ j \in Issues
    BY <1>12 DEF PairsInv, ReadExists
  <2> QED
    BY <1>13, <2>1 DEF PairsInv, ReadLive
<1>16. \A j \in Issues : /\ Live(j)' /\ invites'[j].condo = row.condo
                         /\ invites'[j].to = row.to
                         => j \notin row.saw /\ n \notin invites'[j].saw
  BY <1>1, <1>3, <1>5, <1>13 DEF PairsInv, ReadLive, ReadExists
<1>17. TwoLiveOnlyByRace'
  <2> SUFFICES ASSUME NEW i \in Issues', NEW j \in Issues', i # j, Live(i)', Live(j)',
                      invites'[i].condo = invites'[j].condo, invites'[i].to = invites'[j].to
               PROVE  i \notin invites'[j].saw /\ j \notin invites'[i].saw
    BY DEF TwoLiveOnlyByRace
  <2>1. CASE i = n
    BY <1>7, <1>11, <1>16, <2>1
  <2>2. CASE j = n
    BY <1>7, <1>11, <1>16, <2>2
  <2>3. CASE i # n /\ j # n
    BY <1>11, <1>13, <2>3 DEF PairsInv, TwoLiveOnlyByRace
  <2> QED
    BY <2>1, <2>2, <2>3
<1> QED
  BY <1>14, <1>15, <1>17 DEF PairsInv

(* An acceptance, with or without a conflict.                              *)
LEMMA AcceptedKeepsPairs ==
    ASSUME InvitationsInv, PairsInv, NEW w \in Workers, Accepted(w)
    PROVE  PairsInv'
<1>1. /\ req' = [req EXCEPT ![w] = IdleReq] /\ now' = now
      /\ invites' = invites \/ invites' = [invites EXCEPT ![req[w].id].accepted = {w}]
  BY DEF Accepted, Answer, Ask, Consume, tenancy
<1>2. \A j \in Issues : j \in Invites /\ invites[j] \in Invite
  BY InviteRows DEF InvitationsInv
<1>3. \A j \in Issues :
          /\ invites'[j].condo = invites[j].condo /\ invites'[j].to = invites[j].to
          /\ invites'[j].saw = invites[j].saw /\ invites'[j].expires = invites[j].expires
          /\ invites'[j].accepted = invites[j].accepted \/ invites'[j].accepted = {w}
  BY <1>1, <1>2 DEF Invite, InvitationsInv, InvitationsTyped
<1>4. \A j \in Issues : Live(j)' => Live(j)
  BY <1>1, <1>3 DEF Live
<1>5. Issues' = Issues
  <2>1. CASE invites' = invites
    BY <2>1 DEF Issues
  <2>2. CASE invites' = [invites EXCEPT ![req[w].id].accepted = {w}]
    <3>1. req[w].id \in Issues
      BY DEF Accepted, InvitationsInv, InvitesExist, Serving
    <3>2. invites' = [invites EXCEPT ![req[w].id] =
                         [invites[req[w].id] EXCEPT !.accepted = {w}]]
      BY <1>2, <2>2, <3>1 DEF InvitationsInv, InvitationsTyped
    <3>3. [invites[req[w].id] EXCEPT !.accepted = {w}] \in Invite
      BY <1>2, <3>1 DEF Invite
    <3> QED
      BY <1>2, <3>1, <3>2, <3>3, InvitationsShapes DEF Issues, InvitationsInv, InvitationsTyped
  <2> QED
    BY <1>1, <2>1, <2>2
<1>6. \A v \in Workers : Serving(v, "issue")' => Serving(v, "issue") /\ req'[v] = req[v]
  BY <1>1, InvitationsShapes DEF Serving, InvitationsInv, InvitationsTyped
<1> QED
  BY <1>3, <1>4, <1>5, <1>6, NoneComesToLife

LEMMA PairsStep ==
    InvitationsInv /\ PairsInv /\ [InvitationsNext]_<<tenancy, req>> => PairsInv'
<1> SUFFICES ASSUME InvitationsInv, PairsInv, [InvitationsNext]_<<tenancy, req>>
             PROVE  PairsInv'
  OBVIOUS
<1>1. CASE UNCHANGED <<tenancy, req>>
  <2>1. Issues' = Issues /\ \A j : Live(j)' <=> Live(j)
    BY <1>1 DEF tenancy, Issues, Live
  <2> QED
    BY <1>1, <2>1, NoneComesToLife DEF tenancy, Serving
<1>2. ASSUME NEW w \in Workers,
             \/ SignUp(w) \/ Declined(w) \/ MemberWritten(w) \/ InvitationsCrash(w)
      PROVE  PairsInv'
  <2>1. /\ req' = [req EXCEPT ![w] = IdleReq] /\ UNCHANGED <<invites, now>>
    <3>1. CASE SignUp(w)
      BY <3>1 DEF SignUp, Free, InvitationsInv, InvitationsTyped
    <3>2. CASE Declined(w) \/ MemberWritten(w) \/ InvitationsCrash(w)
      BY <3>2 DEF Declined, MemberWritten, InvitationsCrash, Dies, Answer, Ask, tenancy
    <3> QED
      BY <1>2, <3>1, <3>2
  <2> QED
    BY <2>1, RowsKept, InvitationsShapes
<1>3. ASSUME NEW w \in Workers, Accept(w)
      PROVE  PairsInv'
  <2> PICK i \in Issues : Ask(w, [op |-> "accept", id |-> i])
    BY <1>3 DEF Accept
  <2> QED
    BY <1>3, RowsKept DEF Accept, tenancy, Ask
<1>4. ASSUME NEW w \in Workers, Member(w)
      PROVE  PairsInv'
  <2> PICK m \in Emails \X Condos, to \in LinkStates :
          Ask(w, [op |-> "member", pair |-> m, link |-> links[m], to |-> to])
    BY <1>4 DEF Member, LinkStates
  <2> QED
    BY <1>4, RowsKept DEF Member, tenancy, Ask
<1>5. ASSUME NEW w \in Workers, Resolve(w)
      PROVE  PairsInv'
  <2>1. UNCHANGED <<invites, now>>
    BY <1>5 DEF Resolve, tenancy
  <2>2. PICK r : r.op # "issue" /\ req' = [req EXCEPT ![w] = r]
    <3>1. CASE Live(req[w].id)
      BY <1>5, <3>1 DEF Resolve, Ask
    <3>2. CASE ~Live(req[w].id)
      BY <1>5, <3>2, InvitationsShapes DEF Resolve, Answer, Ask
    <3> QED
      BY <3>1, <3>2
  <2> QED
    BY <2>1, <2>2, RowsKept
<1> QED
  BY <1>1, <1>2, <1>3, <1>4, <1>5, TickKeepsPairs, IssueKeepsPairs, IssuedKeepsPairs,
     AcceptedKeepsPairs DEF InvitationsNext, Waits, Finishes

(* For any number of requests: two live invitations of one address to one  *)
(* condominium were issued by requests that did not read each other's row, *)
(* since what issue reads as live it expires when it commits.              *)
THEOREM TwoLiveByRace == InvitationsSpec => []TwoLiveOnlyByRace
<1>1. InvitationsInit /\ NoRequest => PairsInv
  BY InvitationsShapes DEF InvitationsInit, NoRequest, PairsInv, ReadExists, ReadLive,
         TwoLiveOnlyByRace, Issues, Serving
<1>2. PairsInv => TwoLiveOnlyByRace
  BY DEF PairsInv
<1> QED
  BY <1>1, <1>2, InvitationsStart, InvitationsStep, PairsStep, PTL DEF InvitationsSpec
-----------------------------------------------------------------------------
(* Feedback to the board.                                                  *)

Feedback == [status : {"PENDING", "ANSWERED"}, reply : Nat, told : BOOLEAN, shown : Nat,
             repliedBy : SUBSET Workers, toldBy : SUBSET Workers, lost : BOOLEAN]

FeedbackTyped ==
    /\ feedback \in Feedback \cup {NoFeedback}
    /\ req = [w \in Workers |-> req[w]]

(* Requests are about a submission.                                        *)
AboutOne == \A w \in Workers : req[w].op \in {"respond", "look", "show"} => Submitted

(* Where a worker answers and read that the reporter was not told, the     *)
(* reporter was told since, by another.                                    *)
OthersTold ==
    \A w \in Workers : Serving(w, "respond") /\ ~req[w].told /\ feedback.told =>
        feedback.toldBy # {w}

FeedbackInv == FeedbackTyped /\ AboutOne /\ OthersTold /\ SeenUnshownOnlyByRace

LEMMA FeedbackStart == FeedbackInit /\ NoRequest => FeedbackInv
<1> SUFFICES ASSUME FeedbackInit, NoRequest
             PROVE  FeedbackInv
  OBVIOUS
<1>1. ~Submitted /\ \A w \in Workers : req[w].op = "idle"
  BY DEF FeedbackInit, NoRequest, Submitted, IdleReq
<1>2. FeedbackTyped
  BY DEF FeedbackInit, NoRequest, FeedbackTyped
<1> QED
  BY <1>1, <1>2 DEF FeedbackInv, AboutOne, OthersTold, SeenUnshownOnlyByRace, Serving

LEMMA FeedbackShape == NoFeedback \notin Feedback
  BY DEF NoFeedback, Feedback

LEMMA FeedbackStep == FeedbackInv /\ [FeedbackNext]_<<feedback, req>> => FeedbackInv'
<1> SUFFICES ASSUME FeedbackInv, [FeedbackNext]_<<feedback, req>>
             PROVE  FeedbackInv'
  OBVIOUS
<1> USE DEF Serving, Submitted
<1>0. CASE UNCHANGED <<feedback, req>>
  BY <1>0 DEF FeedbackInv, FeedbackTyped, AboutOne, OthersTold, SeenUnshownOnlyByRace
<1>1. ASSUME NEW w \in Workers, Submit(w)
      PROVE  FeedbackInv'
  <2>1. feedback' \in Feedback /\ ~feedback'.told /\ req' = req
    BY <1>1 DEF Submit, Feedback, NoOne
  <2> QED
    BY <2>1, FeedbackShape
       DEF FeedbackInv, FeedbackTyped, AboutOne, OthersTold, SeenUnshownOnlyByRace
<1>2. ASSUME NEW w \in Workers, Respond(w)
      PROVE  FeedbackInv'
  <2>1. PICK r : r = [op |-> "respond", told |-> feedback.told]
    OBVIOUS
  <2>2. r.op = "respond" /\ r.told = feedback.told
    BY <2>1
  <2>3. /\ req' = [req EXCEPT ![w] = r] /\ feedback' = feedback /\ Submitted
        /\ req[w].op = "idle"
    BY <1>2, <2>1 DEF Respond, Ask, Free, IdleReq
  <2>4. \A v \in Workers : req'[v] = IF v = w THEN r ELSE req[v]
    BY <2>3 DEF FeedbackInv, FeedbackTyped
  <2>5. FeedbackTyped' /\ AboutOne'
    BY <2>3, <2>4 DEF FeedbackInv, FeedbackTyped, AboutOne
  <2>6. OthersTold'
    BY <2>2, <2>3, <2>4 DEF FeedbackInv, OthersTold
  <2>7. SeenUnshownOnlyByRace'
    BY <2>3, <2>4 DEF FeedbackInv, SeenUnshownOnlyByRace
  <2> QED
    BY <2>5, <2>6, <2>7 DEF FeedbackInv
<1>3. ASSUME NEW w \in Workers, Responded(w)
      PROVE  FeedbackInv'
  <2>1. req[w].op = "respond" /\ Submitted /\ feedback \in Feedback
    BY <1>3 DEF Responded, FeedbackInv, AboutOne, FeedbackTyped
  <2>2. /\ req' = [req EXCEPT ![w] = IdleReq]
        /\ \A v \in Workers : req'[v] = IF v = w THEN IdleReq ELSE req[v]
    BY <1>3 DEF Responded, Answer, Ask, FeedbackInv, FeedbackTyped
  <2>3. PICK told \in BOOLEAN : told = IF req[w].told THEN FALSE ELSE feedback.told
    BY <2>1 DEF Feedback
  <2>4. feedback' = [feedback EXCEPT !.status = "ANSWERED", !.reply = @ + 1,
                                     !.repliedBy = {w}, !.told = told]
    BY <1>3, <2>3 DEF Responded
  <2>5. /\ feedback' \in Feedback /\ feedback'.told = told
        /\ feedback'.repliedBy = {w} /\ feedback'.toldBy = feedback.toldBy
    <3>1. feedback.reply + 1 \in Nat /\ {w} \in SUBSET Workers
      BY <2>1 DEF Feedback
    <3>2. PICK n \in Nat : n = feedback.reply + 1
      BY <3>1
    <3>3. feedback' = [feedback EXCEPT !.status = "ANSWERED", !.reply = n,
                                       !.repliedBy = {w}, !.told = told]
      BY <2>4, <3>2
    <3> QED
      BY <2>1, <3>1, <3>3 DEF Feedback
  <2>6. told => feedback.told /\ feedback.toldBy # {w}
    BY <2>1, <2>3 DEF FeedbackInv, OthersTold
  <2>7. FeedbackTyped' /\ AboutOne'
    BY <2>2, <2>5, FeedbackShape DEF FeedbackInv, FeedbackTyped, AboutOne
  <2>8. OthersTold'
    BY <2>2, <2>5, <2>6 DEF FeedbackInv, OthersTold, IdleReq
  <2>9. SeenUnshownOnlyByRace'
    BY <2>5, <2>6 DEF SeenUnshownOnlyByRace
  <2> QED
    BY <2>7, <2>8, <2>9 DEF FeedbackInv
<1>4. ASSUME NEW w \in Workers, LookAgain(w)
      PROVE  FeedbackInv'
  <2>1. feedback \in Feedback
    BY <1>4 DEF LookAgain, FeedbackInv, FeedbackTyped
  <2>2. feedback' = [feedback EXCEPT !.shown = feedback.reply] /\ req' = req
    BY <1>4 DEF LookAgain
  <2>3. /\ feedback' \in Feedback /\ feedback'.shown = feedback'.reply
        /\ feedback'.told = feedback.told /\ feedback'.toldBy = feedback.toldBy
    BY <2>1, <2>2 DEF Feedback
  <2> QED
    BY <2>2, <2>3, FeedbackShape
       DEF FeedbackInv, FeedbackTyped, AboutOne, OthersTold, SeenUnshownOnlyByRace
<1>5. ASSUME NEW w \in Workers, Look(w)
      PROVE  FeedbackInv'
  <2>1. PICK r : r = [op |-> "look"]
    OBVIOUS
  <2>2. r.op = "look" /\ feedback' = feedback /\ Submitted /\ req[w].op = "idle"
    BY <1>5, <2>1 DEF Look, Free, IdleReq
  <2>3. /\ req' = [req EXCEPT ![w] = r]
        /\ \A v \in Workers : req'[v] = IF v = w THEN r ELSE req[v]
    BY <1>5, <2>1 DEF Look, Ask, FeedbackInv, FeedbackTyped
  <2> QED
    BY <2>2, <2>3
       DEF FeedbackInv, FeedbackTyped, AboutOne, OthersTold, SeenUnshownOnlyByRace
<1>6. ASSUME NEW w \in Workers, Told(w)
      PROVE  FeedbackInv'
  <2>1. PICK r : r = [op |-> "show"]
    OBVIOUS
  <2>2. r.op = "show" /\ Submitted /\ feedback \in Feedback
    BY <1>6, <2>1 DEF Told, FeedbackInv, FeedbackTyped, AboutOne
  <2>3. /\ req' = [req EXCEPT ![w] = r]
        /\ \A v \in Workers : req'[v] = IF v = w THEN r ELSE req[v]
    BY <1>6, <2>1 DEF Told, Ask, FeedbackInv, FeedbackTyped
  <2>4. feedback' \in Feedback /\ feedback'.toldBy = {w}
    BY <1>6, <2>2 DEF Told, Feedback
  <2>5. FeedbackTyped' /\ AboutOne'
    BY <2>3, <2>4, FeedbackShape DEF FeedbackInv, FeedbackTyped, AboutOne
  <2>6. OthersTold'
    BY <2>2, <2>3, <2>4 DEF OthersTold
  <2>7. SeenUnshownOnlyByRace'
    BY <2>2, <2>3 DEF SeenUnshownOnlyByRace
  <2> QED
    BY <2>5, <2>6, <2>7 DEF FeedbackInv
<1>7. ASSUME NEW w \in Workers, Shown(w)
      PROVE  FeedbackInv'
  <2>1. feedback \in Feedback
    BY <1>7 DEF Shown, FeedbackInv, FeedbackTyped, AboutOne
  <2>2. /\ req' = [req EXCEPT ![w] = IdleReq]
        /\ \A v \in Workers : req'[v] = IF v = w THEN IdleReq ELSE req[v]
    BY <1>7 DEF Shown, Answer, Ask, FeedbackInv, FeedbackTyped
  <2>3. feedback' = [feedback EXCEPT !.shown = feedback.reply]
    BY <1>7 DEF Shown
  <2>4. /\ feedback' \in Feedback /\ feedback'.shown = feedback'.reply
        /\ feedback'.told = feedback.told /\ feedback'.toldBy = feedback.toldBy
    BY <2>1, <2>3 DEF Feedback
  <2> QED
    BY <2>2, <2>4, FeedbackShape
       DEF FeedbackInv, FeedbackTyped, AboutOne, OthersTold, SeenUnshownOnlyByRace, IdleReq
<1>8. ASSUME NEW w \in Workers, FeedbackCrash(w)
      PROVE  FeedbackInv'
  <2>1. /\ req' = [req EXCEPT ![w] = IdleReq]
        /\ \A v \in Workers : req'[v] = IF v = w THEN IdleReq ELSE req[v]
    BY <1>8 DEF FeedbackCrash, Dies, Answer, Ask, FeedbackInv, FeedbackTyped
  <2>2. CASE req[w].op = "show"
    <3>1. feedback \in Feedback /\ feedback' = [feedback EXCEPT !.lost = TRUE]
      BY <1>8, <2>2 DEF FeedbackCrash, FeedbackInv, FeedbackTyped, AboutOne
    <3>2. /\ feedback' \in Feedback /\ feedback'.lost
          /\ feedback'.told = feedback.told /\ feedback'.toldBy = feedback.toldBy
      BY <3>1 DEF Feedback
    <3> QED
      BY <2>1, <3>2, FeedbackShape
         DEF FeedbackInv, FeedbackTyped, AboutOne, OthersTold, SeenUnshownOnlyByRace, IdleReq
  <2>3. CASE req[w].op # "show"
    <3>1. feedback' = feedback
      BY <1>8, <2>3 DEF FeedbackCrash
    <3>2. FeedbackTyped' /\ AboutOne' /\ OthersTold'
      BY <2>1, <3>1 DEF FeedbackInv, FeedbackTyped, AboutOne, OthersTold, IdleReq
    <3>3. SeenUnshownOnlyByRace'
      BY <2>1, <2>3, <3>1 DEF FeedbackInv, SeenUnshownOnlyByRace
    <3> QED
      BY <3>2, <3>3 DEF FeedbackInv
  <2> QED
    BY <2>2, <2>3
<1> QED
  BY <1>0, <1>1, <1>2, <1>3, <1>4, <1>5, <1>6, <1>7, <1>8 DEF FeedbackNext

(* Whatever the number of workers: an answer that reads as seen and was    *)
(* not shown to its reporter is being shown, died on its way, or came in a *)
(* request that overlapped the reporter's (get_feedback against            *)
(* respond_to_feedback).                                                   *)
THEOREM SeenWasShown == FeedbackSpec => []SeenUnshownOnlyByRace
<1>1. FeedbackInv => SeenUnshownOnlyByRace
  BY DEF FeedbackInv
<1> QED
  BY <1>1, FeedbackStart, FeedbackStep, PTL DEF FeedbackSpec
-----------------------------------------------------------------------------
(* The demo seed.                                                          *)

(* A fixture inserts something, and a role all at once.                    *)
Sound(f) ==
    /\ "parts" \in DOMAIN f /\ "table" \in DOMAIN f
    /\ Len(f.parts) \in Nat \ {0}
    /\ f.table = "role" => Len(f.parts) = 1
ScriptSound(s) == \E F : s \in Seq(F) /\ \A f \in F : Sound(f)

LEMMA RowsSound == \A t : Sound(Row(t))
  BY DEF Row, Sound
LEMMA VariantsSound ==
    \A f : Sound(f) => Sound(Within(f)) /\ Sound(Daily(f)) /\ Sound(Unindexed(f))
  BY DEF Within, Daily, Unindexed, Sound
LEMMA InPartsSound ==
    ASSUME NEW t, t # "role", NEW X, NEW more \in Seq(X)
    PROVE  Sound(InParts(t, more))
<1>1. PICK p, q, Y : p = <<{t}>> /\ q = p \o more /\ Y = X \cup {{t}}
  OBVIOUS
<1>2. p \in Seq(Y) /\ Len(p) = 1 /\ more \in Seq(Y)
  BY <1>1
<1>3. Len(q) = 1 + Len(more) /\ Len(more) \in Nat
  BY <1>1, <1>2
<1>4. PICK f : f = Row(t)
  OBVIOUS
<1>6. Sound(f) /\ f.table = t /\ f.parts = p
  BY <1>1, <1>4, RowsSound DEF Row
<1>5. InParts(t, more) = [f EXCEPT !.parts = q]
  BY <1>1, <1>4, <1>6 DEF InParts
<1> QED
  BY <1>3, <1>5, <1>6 DEF Sound
LEMMA Tuples ==
    /\ \A x : <<x>> \in Seq({x})
    /\ \A x, y : <<x, y>> \in Seq({x, y})
    /\ \A x, y, z : <<x, y, z>> \in Seq({x, y, z})
    /\ \A x, y, z, u : <<x, y, z, u>> \in Seq({x, y, z, u})
  OBVIOUS
LEMMA TuplesSound ==
    /\ \A f : Sound(f) => ScriptSound(<<f>>)
    /\ \A f, g : Sound(f) /\ Sound(g) => ScriptSound(<<f, g>>)
    /\ \A f, g, h, i : Sound(f) /\ Sound(g) /\ Sound(h) /\ Sound(i) => ScriptSound(<<f, g, h, i>>)
<1>1. \A s, F : s \in Seq(F) /\ (\A x \in F : Sound(x)) => ScriptSound(s)
  BY DEF ScriptSound
<1>2. ASSUME NEW f, Sound(f)
      PROVE  ScriptSound(<<f>>)
  <2>1. PICK s, F : s = <<f>> /\ F = {f}
    OBVIOUS
  <2>2. s \in Seq(F) /\ \A x \in F : Sound(x)
    BY <1>2, <2>1, Tuples
  <2>3. ScriptSound(s)
    BY <1>1, <2>2
  <2> QED
    BY <2>1, <2>3
<1>3. ASSUME NEW f, NEW g, Sound(f), Sound(g)
      PROVE  ScriptSound(<<f, g>>)
  <2>1. PICK s, F : s = <<f, g>> /\ F = {f, g}
    OBVIOUS
  <2>2. s \in Seq(F) /\ \A x \in F : Sound(x)
    BY <1>3, <2>1, Tuples
  <2>3. ScriptSound(s)
    BY <1>1, <2>2
  <2> QED
    BY <2>1, <2>3
<1>4. ASSUME NEW f, NEW g, NEW h, NEW i, Sound(f), Sound(g), Sound(h), Sound(i)
      PROVE  ScriptSound(<<f, g, h, i>>)
  <2>1. PICK s, F : s = <<f, g, h, i>> /\ F = {f, g, h, i}
    OBVIOUS
  <2>2. s \in Seq(F) /\ \A x \in F : Sound(x)
    BY <1>4, <2>1, Tuples
  <2>3. ScriptSound(s)
    BY <1>1, <2>2
  <2> QED
    BY <2>1, <2>3
<1> QED
  BY <1>2, <1>3, <1>4
LEMMA JoinedSound ==
    ASSUME NEW s, NEW t, ScriptSound(s), ScriptSound(t)
    PROVE  ScriptSound(s \o t)
<1>1. PICK F : s \in Seq(F) /\ \A f \in F : Sound(f)
  BY DEF ScriptSound
<1>2. PICK G : t \in Seq(G) /\ \A f \in G : Sound(f)
  BY DEF ScriptSound
<1>3. PICK H : H = F \cup G
  OBVIOUS
<1>4. s \in Seq(H) /\ t \in Seq(H)
  BY <1>1, <1>2, <1>3
<1>5. s \o t \in Seq(H)
  BY <1>4
<1> QED
  BY <1>1, <1>2, <1>3, <1>5 DEF ScriptSound
LEMMA ScriptRead ==
    ASSUME NEW s, ScriptSound(s)
    PROVE  Len(s) \in Nat /\ DOMAIN s = 1 .. Len(s) /\ \A n \in 1 .. Len(s) : Sound(s[n])
  BY DEF ScriptSound

LEMMA ScriptsSound == \A s \in Scripts : ScriptSound(s)
<1>1. /\ ScriptSound(TenantRows) /\ ScriptSound(RoleRows) /\ ScriptSound(UserRows)
      /\ ScriptSound(LinkRows) /\ ScriptSound(PlanRows)
  BY RowsSound, TuplesSound DEF TenantRows, RoleRows, UserRows, LinkRows, PlanRows
<1>2. ScriptSound(Foundation)
  BY <1>1, JoinedSound DEF Foundation
<1>3. /\ ScriptSound(LotRows) /\ ScriptSound(ResidentRows) /\ ScriptSound(TaskRows)
      /\ ScriptSound(AnnouncementRows) /\ ScriptSound(SpaceRows)
      /\ ScriptSound(PackageRows) /\ ScriptSound(OccurrenceRows)
  BY RowsSound, VariantsSound, TuplesSound
     DEF LotRows, ResidentRows, TaskRows, AnnouncementRows, SpaceRows, PackageRows, OccurrenceRows
<1>4. /\ ScriptSound(VisitorRows) /\ ScriptSound(FinanceRows)
      /\ ScriptSound(FeedbackRows) /\ ScriptSound(DocumentRows)
      /\ ScriptSound(MediaRows) /\ ScriptSound(DeviceRows)
      /\ ScriptSound(SecondaryRows)
  BY RowsSound, VariantsSound, TuplesSound
     DEF VisitorRows, FinanceRows, FeedbackRows, DocumentRows, MediaRows, DeviceRows, SecondaryRows
<1>5. /\ \A x : Sound(InParts("construction_project", <<x>>))
      /\ \A x : Sound(InParts("infraction_rule", <<x>>))
      /\ \A x, y, z : Sound(InParts("infraction", <<x, y, z>>))
      /\ \A x, y : Sound(InParts("vote", <<x, y>>))
      /\ \A x : Sound(InParts("asset", <<x>>))
  BY Tuples, InPartsSound
<1>6. ScriptSound(ProjectRows) /\ ScriptSound(RuleRows)
  BY <1>5, RowsSound, TuplesSound DEF ProjectRows, RuleRows
<1>7. ScriptSound(InfractionRows)
  BY <1>5, <1>6, VariantsSound, TuplesSound, JoinedSound DEF InfractionRows
<1>8. ScriptSound(VoteRows) /\ ScriptSound(AssetRows)
  BY <1>5, RowsSound, VariantsSound, TuplesSound DEF VoteRows, AssetRows
<1>9. ScriptSound(PurchaseRows)
  <2>1. PICK x, y, z : PurchaseParts = <<x, y>> /\ Decided = InParts("purchase_request", PurchaseParts \o <<z>>)
    BY DEF PurchaseParts, Decided
  <2>2. PICK X : PurchaseParts \in Seq(X) /\ <<z>> \in Seq(X)
    <3>1. <<x, y>> \in Seq({x, y, z}) /\ <<z>> \in Seq({x, y, z})
      OBVIOUS
    <3> QED
      BY <2>1, <3>1
  <2>3. PurchaseParts \o <<z>> \in Seq(X)
    BY <2>2
  <2>4. Sound(InParts("purchase_request", PurchaseParts)) /\ Sound(Decided)
    BY <2>1, <2>2, <2>3, InPartsSound
  <2> QED
    BY <2>4, TuplesSound DEF PurchaseRows
<1>10. \A s \in Sections : ScriptSound(s)
  BY <1>3, <1>4, <1>6, <1>7, <1>8, <1>9 DEF Sections
<1> QED
  BY <1>1, <1>2, <1>10, JoinedSound DEF Scripts
-----------------------------------------------------------------------------
(* What a run records, and the requests; a row of seed.py is a role.       *)
Runs == [end : {"running", "done", "killed", "refused", "undone"}, day : Nat, beside : SUBSET Nat]
SeedRequests == {IdleReq}
    \cup [op : {"seed", "insert", "fill"}, run : Nat, held : Seq(Nat)]
    \cup [op : {"reset"}, next : {"roles", "people"}]

IsRow(r) ==
    /\ r = [key |-> r.key, run |-> r.run, parts |-> r.parts]
    /\ r.key.fix \in DOMAIN script /\ r.run \in 0 .. Len(runs) /\ r.parts \in Nat
    /\ r.run = 0 => script[r.key.fix].table = "role" /\ r.parts = 1

SeedTyped ==
    /\ ScriptSound(script)
    /\ runs \in Seq(Runs)
    /\ today \in Nat
    /\ req \in [Workers -> SeedRequests]
    /\ \A r \in rows : IsRow(r)

(* Each worker is at a run of its own; seed.py runs while no other does.   *)
OnRun(w) == req[w].op \in {"seed", "insert", "fill"}
OneRunEach ==
    \A w \in Workers : OnRun(w) =>
        /\ req[w].run \in Running
        /\ Len(req[w].held) <= Len(script)
        /\ req[w].op # "seed" => At(w) <= Len(script)
        /\ \A v \in Workers \ {w} : OnRun(v) => req[v].run # req[w].run
ResetAlone ==
    \A w \in Workers : Serving(w, "reset") =>
        /\ \A v \in Workers \ {w} : Free(v)
        /\ Running = {}
        /\ req[w].next = "roles" => \A r \in rows : script[r.key.fix].table # "role"

(* Runs that go on at one time overlap.                                    *)
RunningMeet == \A p, q \in Running : p # q => Overlap(p, q)

(* A run inserts a row once, and what it has passed it has filled.         *)
OneOfRun == \A r, s \in rows : r.run = s.run /\ r.key = s.key => r = s
OwnRows ==
    \A w \in Workers : OnRun(w) =>
        /\ \A r \in rows : r.run = req[w].run =>
              \/ r.key.fix <= Len(req[w].held) /\ Whole(r)
              \/ /\ req[w].op = "fill" /\ r.key = Key(w)
                 /\ r.parts < Len(script[r.key.fix].parts)

(* Rows lack parts only by a run that did not end by itself.               *)
PartsMissing ==
    \A r \in rows : Whole(r) \/ runs[r.run].end \in {"killed", "running", "undone"}

(* For what a run has passed there are rows.                               *)
There(n, run) == \E s \in rows : s.key.fix = n /\ (script[n].daily => s.key.day = runs[run].day)
HeldThere ==
    \A w \in Workers : OnRun(w) => \A n \in 1 .. Len(req[w].held) : There(n, req[w].run)
DoneThere ==
    \A r \in DOMAIN runs : runs[r].end = "done" => \A n \in DOMAIN script : There(n, r)
RefusedByOthers ==
    \A r \in DOMAIN runs : runs[r].end = "refused" =>
        people = "developers" \/ \E s \in DOMAIN runs : Overlap(r, s)

(* The rows in the way of an insert are of runs that overlapped this one.  *)
InWayMeet ==
    \A w \in Workers : Serving(w, "insert") => \A r \in Keyed(Key(w)) :
        r.run \in DOMAIN runs /\ Overlap(r.run, req[w].run)

(* Rows of one key are of runs that overlapped.                            *)
TwinsMeet ==
    \A r, s \in rows : r # s /\ r.key = s.key =>
        ~script[r.key.fix].indexed /\ r.run \in DOMAIN runs /\ Overlap(r.run, s.run)

SeedInv ==
    /\ SeedTyped /\ OneRunEach /\ ResetAlone /\ RunningMeet
    /\ OneOfRun /\ OwnRows /\ PartsMissing
    /\ HeldThere /\ DoneThere /\ RefusedByOthers
    /\ InWayMeet /\ TwinsMeet

LEMMA SeedShapes ==
    ASSUME SeedTyped
    PROVE  /\ \A w \in Workers : OnRun(w) =>
                 req[w] \in [op : {"seed", "insert", "fill"}, run : Nat, held : Seq(Nat)]
           /\ \A w \in Workers : ~OnRun(w) => Free(w) \/ Serving(w, "reset")
           /\ \A w \in Workers : Free(w) => req[w].op = "idle"
           /\ Len(script) \in Nat /\ DOMAIN script = 1 .. Len(script)
           /\ \A n \in DOMAIN script : Sound(script[n])
           /\ Len(runs) \in Nat /\ DOMAIN runs = 1 .. Len(runs)
           /\ \A r \in DOMAIN runs : runs[r] \in Runs
<1>1. \A w \in Workers : OnRun(w) =>
          req[w] \in [op : {"seed", "insert", "fill"}, run : Nat, held : Seq(Nat)]
  BY DEF SeedTyped, SeedRequests, OnRun, IdleReq
<1>2. \A w \in Workers : ~OnRun(w) => Free(w) \/ Serving(w, "reset")
  BY DEF SeedTyped, SeedRequests, OnRun, Free, Serving
<1>3. \A w \in Workers : Free(w) => req[w].op = "idle"
  BY DEF Free, IdleReq
<1> QED
  BY <1>1, <1>2, <1>3, ScriptRead DEF SeedTyped

LEMMA RowsOfRuns ==
    ASSUME SeedTyped, NEW r \in rows
    PROVE  Whole(r) \/ r.run \in DOMAIN runs
<1>1. CASE r.run = 0
  BY <1>1, SeedShapes DEF SeedTyped, IsRow, Whole, Sound
<1>2. CASE r.run # 0
  BY <1>2, SeedShapes DEF SeedTyped, IsRow
<1> QED
  BY <1>1, <1>2

LEMMA MoreThanOne == \A m \in Nat \ {0} : m # 1 => 1 < m
  OBVIOUS

LEMMA KeyKept ==
    ASSUME NEW w \in Workers, UNCHANGED script, req'[w].held = req[w].held,
           req'[w].run = req[w].run, runs'[req[w].run].day = runs[req[w].run].day
    PROVE  Key(w)' = Key(w)
  BY DEF Key, At, Fixture

LEMMA OverlapsKept ==
    ASSUME \A r \in DOMAIN runs : runs'[r].beside = runs[r].beside
    PROVE  \A p, q \in DOMAIN runs : Overlap(p, q)' <=> Overlap(p, q)
  BY DEF Overlap

(* A run ends: by itself when it has filled what it inserted.              *)
LEMMA RunEnds ==
    ASSUME SeedInv, NEW w \in Workers, OnRun(w), UNCHANGED <<script, rows, people, today>>,
           NEW how \in {"done", "killed", "refused"}, End(w, how), Answer(w),
           how # "killed" => req[w].op # "fill",
           how = "done" => Len(req[w].held) = Len(script),
           how = "refused" => \/ people = "developers"
                              \/ \E s \in DOMAIN runs : Overlap(req[w].run, s)
    PROVE  SeedInv'
<1> USE DEF SeedInv
<1>1. PICK q : q = req[w].run
  OBVIOUS
<1>2. q \in Running /\ q \in DOMAIN runs /\ runs[q] \in Runs
  BY <1>1, SeedShapes DEF OneRunEach, Running
<1>3. runs' = [runs EXCEPT ![q].end = how]
  BY <1>1 DEF End
<1>4. /\ runs' \in Seq(Runs) /\ Len(runs') = Len(runs) /\ DOMAIN runs' = DOMAIN runs
      /\ \A r \in DOMAIN runs : /\ runs'[r].end = IF r = q THEN how ELSE runs[r].end
                                /\ runs'[r].day = runs[r].day
                                /\ runs'[r].beside = runs[r].beside
  <2>1. [runs[q] EXCEPT !.end = how] \in Runs
    BY <1>2 DEF Runs
  <2> QED
    BY <1>2, <1>3, <2>1 DEF SeedTyped
<1>5. \A v \in Workers : req'[v] = IF v = w THEN IdleReq ELSE req[v]
  BY DEF SeedTyped, Answer, Ask
<1>6. \A v \in Workers : OnRun(v)' => v # w /\ OnRun(v) /\ req'[v] = req[v] /\ req[v].run # q
  BY <1>1, <1>5 DEF OnRun, IdleReq, OneRunEach
<1>7. Running' = Running \ {q}
  BY <1>2, <1>4 DEF Running
<1>8. \A v \in Workers : OnRun(v)' => Key(v)' = Key(v) /\ req[v].run \in DOMAIN runs
  BY <1>4, <1>6, KeyKept DEF OneRunEach, Running
<1>9. \A p, r \in DOMAIN runs : Overlap(p, r)' <=> Overlap(p, r)
  BY <1>4, OverlapsKept
<1>10. SeedTyped'
  <2>1. req' \in [Workers -> SeedRequests]
    BY DEF SeedTyped, Answer, Ask, SeedRequests
  <2>2. \A r \in rows' : IsRow(r)'
    BY <1>4 DEF SeedTyped, IsRow
  <2> QED
    BY <1>4, <2>1, <2>2 DEF SeedTyped
<1>11. OneRunEach'
  BY <1>6, <1>7 DEF OneRunEach, At
<1>12. ResetAlone'
  BY <1>5, <1>7 DEF ResetAlone, Serving, Free, OnRun, IdleReq
<1>13. RunningMeet'
  BY <1>7, <1>9 DEF RunningMeet, Running
<1>14. OneOfRun'
  BY DEF OneOfRun
<1>15. OwnRows'
  BY <1>6, <1>8 DEF OwnRows, Whole
<1>16. PartsMissing'
  <2>1. \A r \in rows : r.run = q /\ how # "killed" => Whole(r)
    BY <1>1 DEF OwnRows
  <2> SUFFICES ASSUME NEW r \in rows, ~Whole(r)
               PROVE  runs'[r.run].end \in {"killed", "running", "undone"}
    BY DEF PartsMissing, Whole
  <2>2. r.run \in DOMAIN runs
    BY RowsOfRuns
  <2> QED
    BY <1>4, <2>1, <2>2 DEF PartsMissing
<1>17. \A n : \A r \in DOMAIN runs : There(n, r) => There(n, r)'
  BY <1>4 DEF There
<1>18. HeldThere'
  BY <1>6, <1>8, <1>17 DEF HeldThere
<1>19. DoneThere'
  BY <1>1, <1>2, <1>4, <1>17, SeedShapes DEF DoneThere, HeldThere
<1>20. RefusedByOthers'
  BY <1>1, <1>4, <1>9 DEF RefusedByOthers
<1>21. InWayMeet'
  BY <1>4, <1>6, <1>8, <1>9 DEF InWayMeet, Serving, OnRun, Keyed
<1>22. TwinsMeet'
  BY <1>4, <1>9 DEF TwinsMeet
<1> QED
  BY <1>10, <1>11, <1>12, <1>13, <1>14, <1>15, <1>16, <1>18, <1>19, <1>20, <1>21, <1>22

(* Time passes, a run finds a row or sees that it has to insert one.       *)
LEMMA RunFinds ==
    ASSUME SeedInv, NEW w \in Workers, Find(w)
    PROVE  SeedInv'
<1> USE DEF SeedInv
<1>1. PICK q, k, n : q = req[w] /\ k = Key(w) /\ n = At(w)
  OBVIOUS
<1>2. /\ q \in [op : {"seed", "insert", "fill"}, run : Nat, held : Seq(Nat)]
      /\ q.op = "seed" /\ q.run \in Running /\ n = Len(q.held) + 1 /\ n <= Len(script)
      /\ UNCHANGED <<script, rows, runs, people, today>>
  BY <1>1, SeedShapes DEF Find, Serving, OnRun, OneRunEach, seeds, At
<1>3. PICK x : /\ x \in [op : {"seed", "insert", "fill"}, run : Nat, held : Seq(Nat)]
               /\ req' = [req EXCEPT ![w] = x] /\ x.run = q.run
               /\ \/ /\ x.op = "seed" /\ Len(x.held) = n
                     /\ \E r \in rows : r.key = k
                  \/ /\ x.op = "insert" /\ x.held = q.held
                     /\ Keyed(k) = {}
  <2>1. CASE \E r \in Keyed(k) : Ask(w, Holds(w, r.run))
    <3> PICK r \in Keyed(k) : Ask(w, Holds(w, r.run))
      BY <2>1
    <3>1. PICK p : p = r.run
      OBVIOUS
    <3>2. p \in Nat /\ r \in rows /\ r.key = k
      BY <3>1, SeedShapes DEF Keyed, SeedTyped, IsRow
    <3>3. PICK h : h = Append(q.held, p)
      OBVIOUS
    <3>03. h \in Seq(Nat) /\ Len(h) = n
      BY <1>2, <3>2, <3>3
    <3>4. PICK x : x = [q EXCEPT !.op = "seed", !.held = h]
      OBVIOUS
    <3>04. x \in [op : {"seed", "insert", "fill"}, run : Nat, held : Seq(Nat)]
          /\ x.run = q.run /\ x.op = "seed" /\ Len(x.held) = n
      BY <1>2, <3>03, <3>4
    <3>5. req' = [req EXCEPT ![w] = x]
      BY <1>1, <1>2, <3>1, <3>3, <3>4 DEF Ask, Holds
    <3> QED
      BY <3>2, <3>04, <3>5
  <2>2. CASE Keyed(k) = {} /\ Ask(w, [req[w] EXCEPT !.op = "insert"])
    <3>1. PICK x : x = [q EXCEPT !.op = "insert"]
      OBVIOUS
    <3>2. x \in [op : {"seed", "insert", "fill"}, run : Nat, held : Seq(Nat)]
          /\ x.run = q.run /\ x.op = "insert" /\ x.held = q.held
      BY <1>2, <3>1
    <3>3. req' = [req EXCEPT ![w] = x]
      BY <1>1, <2>2, <3>1 DEF Ask
    <3> QED
      BY <2>2, <3>2, <3>3
  <2> QED
    BY <1>1, <2>1, <2>2 DEF Find
<1>4. \A v \in Workers : req'[v] = IF v = w THEN x ELSE req[v]
  BY <1>3 DEF SeedTyped
<1>5. /\ \A v \in Workers : OnRun(v)' <=> OnRun(v)
      /\ \A v \in Workers : OnRun(v) => req'[v].run = req[v].run
      /\ OnRun(w)
  BY <1>1, <1>2, <1>3, <1>4 DEF OnRun
<1>6. \A v \in Workers : v # w \/ x.op = "insert" => Key(v)' = Key(v)
  BY <1>1, <1>2, <1>3, <1>4, KeyKept
<1>7. SeedTyped'
  <2>1. req' \in [Workers -> SeedRequests]
    BY <1>3 DEF SeedTyped, SeedRequests
  <2> QED
    BY <1>2, <2>1 DEF SeedTyped, IsRow
<1>8. OneRunEach'
  <2>1. Running' = Running
    BY <1>2 DEF Running
  <2> QED
    BY <1>1, <1>2, <1>3, <1>4, <1>5, <2>1, SeedShapes DEF OneRunEach, At
<1>9. ResetAlone'
  BY <1>2, <1>4, <1>5, SeedShapes DEF ResetAlone, Serving, Free, OnRun, Running, IdleReq
<1>10. RunningMeet' /\ OneOfRun' /\ PartsMissing' /\ DoneThere' /\ RefusedByOthers' /\ TwinsMeet'
  BY <1>2 DEF RunningMeet, OneOfRun, PartsMissing, DoneThere, RefusedByOthers, TwinsMeet,
              Running, Overlap, Whole, There
<1>11. OwnRows'
  <2>1. \A r \in rows : r.key.fix \in 1 .. Len(script)
    BY SeedShapes DEF SeedTyped, IsRow
  <2> QED
    BY <1>1, <1>2, <1>3, <1>4, <1>5, <1>6, <2>1 DEF OwnRows, Whole
<1>12. HeldThere'
  <2>1. \A m, p : There(m, p)' <=> There(m, p)
    BY <1>2 DEF There
  <2>2. ASSUME Len(x.held) = n, \E r \in rows : r.key = k
        PROVE  There(n, q.run)
    <3>1. PICK r \in rows : r.key = k
      BY <2>2
    <3>2. k.fix = n /\ (script[n].daily => k.day = runs[q.run].day)
      BY <1>1 DEF Key, Fixture
    <3> QED
      BY <3>1, <3>2 DEF There
  <2>3. \A m \in 1 .. Len(q.held) : There(m, q.run)
    BY <1>1, <1>5 DEF HeldThere
  <2>4. \A m \in 1 .. Len(x.held) : There(m, q.run)
    BY <1>2, <1>3, <2>2, <2>3
  <2> QED
    BY <1>1, <1>3, <1>4, <1>5, <2>1, <2>4 DEF HeldThere
<1>13. InWayMeet'
  <2> SUFFICES ASSUME NEW v \in Workers, Serving(v, "insert")', NEW y \in rows, y.key = Key(v)'
               PROVE  y.run \in DOMAIN runs /\ Overlap(y.run, req'[v].run)
    BY <1>2 DEF InWayMeet, Keyed, Overlap
  <2>1. v # w
    BY <1>1, <1>3, <1>4, <1>6 DEF Serving, Keyed
  <2> QED
    BY <1>4, <1>6, <2>1 DEF InWayMeet, Serving, Keyed
<1> QED
  BY <1>7, <1>8, <1>9, <1>10, <1>11, <1>12, <1>13

LEMMA SeedWaits ==
    ASSUME SeedInv, UNCHANGED <<script, rows, runs, people, req>>, today' \in Nat
    PROVE  SeedInv'
<1> USE DEF SeedInv
<1>1. SeedTyped' /\ OneRunEach' /\ ResetAlone' /\ RunningMeet'
  BY DEF SeedTyped, IsRow, OneRunEach, OnRun, At, ResetAlone, Serving, Free, RunningMeet, Running,
         Overlap
<1>2. OneOfRun' /\ OwnRows' /\ PartsMissing'
  BY DEF OneOfRun, OwnRows, OnRun, Key, At, Fixture, Whole, PartsMissing
<1>3. HeldThere' /\ DoneThere' /\ RefusedByOthers'
  BY DEF HeldThere, OnRun, DoneThere, There, RefusedByOthers, Overlap
<1>4. InWayMeet' /\ TwinsMeet'
  BY DEF InWayMeet, Serving, Keyed, Key, At, Fixture, Overlap, TwinsMeet
<1> QED
  BY <1>1, <1>2, <1>3, <1>4

LEMMA RunStarts ==
    ASSUME SeedInv, NEW w \in Workers, Start(w)
    PROVE  SeedInv'
<1> USE DEF SeedInv
<1>1. PICK n, row : n = Len(runs) + 1
                    /\ row = [end |-> "running", day |-> today, beside |-> Running]
  OBVIOUS
<1>2. Running \subseteq 1 .. Len(runs) /\ Len(runs) \in Nat
  BY SeedShapes DEF Running
<1>3. row \in Runs
  BY <1>1, <1>2 DEF Runs, SeedTyped
<1>4. /\ runs' = Append(runs, row) /\ UNCHANGED <<script, rows, people, today>>
      /\ Free(w) /\ \A v \in Workers : ~Serving(v, "reset")
  BY <1>1 DEF Start
<1>5. PICK x : x = [op |-> "seed", run |-> n, held |-> <<>>]
  OBVIOUS
<1>6. x \in [op : {"seed", "insert", "fill"}, run : Nat, held : Seq(Nat)] /\ Len(x.held) = 0
      /\ x.op = "seed" /\ x.run = n
  BY <1>1, <1>2, <1>5
<1>7. \A v \in Workers : req'[v] = IF v = w THEN x ELSE req[v]
  BY <1>1, <1>5 DEF Start, Ask, SeedTyped
<1>8. /\ runs' \in Seq(Runs) /\ Len(runs') = n /\ DOMAIN runs' = 1 .. n
      /\ DOMAIN runs = 1 .. Len(runs) /\ runs'[n] = row
      /\ \A r \in DOMAIN runs : runs'[r] = runs[r]
  BY <1>1, <1>2, <1>3, <1>4 DEF SeedTyped
<1>9. /\ \A v \in Workers : OnRun(v)' <=> v = w \/ OnRun(v)
      /\ \A v \in Workers : OnRun(v) => v # w /\ req'[v] = req[v] /\ req[v].run \in DOMAIN runs
  BY <1>4, <1>6, <1>7 DEF OnRun, Free, IdleReq, OneRunEach, Running
<1>10. Running' = Running \cup {n}
  BY <1>1, <1>2, <1>8 DEF Running
<1>11. \A p, q \in DOMAIN runs : Overlap(p, q)' <=> Overlap(p, q)
  BY <1>8, OverlapsKept
<1>12. \A v \in Workers : OnRun(v) => Key(v)' = Key(v)
  BY <1>4, <1>8, <1>9, KeyKept
<1>13. SeedTyped'
  <2>1. req' \in [Workers -> SeedRequests]
    BY <1>1, <1>5, <1>6 DEF Start, Ask, SeedTyped, SeedRequests
  <2>2. \A r \in rows' : IsRow(r)'
    BY <1>1, <1>2, <1>4, <1>8 DEF SeedTyped, IsRow
  <2> QED
    BY <1>4, <1>8, <2>1, <2>2 DEF SeedTyped
<1>14. OneRunEach'
  BY <1>1, <1>2, <1>4, <1>6, <1>7, <1>8, <1>9, <1>10, SeedShapes DEF OneRunEach, At
<1>15. ResetAlone'
  BY <1>4, <1>6, <1>7 DEF ResetAlone, Serving
<1>16. RunningMeet'
  <2>1. \A p \in Running : Overlap(p, n)' /\ Overlap(n, p)'
    BY <1>1, <1>8 DEF Overlap
  <2> QED
    BY <1>2, <1>8, <1>10, <1>11, <2>1 DEF RunningMeet
<1>17. OneOfRun'
  BY <1>4 DEF OneOfRun
<1>18. OwnRows'
  <2>1. \A r \in rows : r.run # n
    BY <1>1, <1>2 DEF SeedTyped, IsRow
  <2> QED
    BY <1>4, <1>6, <1>7, <1>9, <1>12, <2>1 DEF OwnRows, Whole
<1>19. PartsMissing'
  <2> SUFFICES ASSUME NEW r \in rows, ~Whole(r)
               PROVE  runs'[r.run].end \in {"killed", "running", "undone"}
    BY <1>4 DEF PartsMissing, Whole
  <2>1. r.run \in DOMAIN runs
    BY RowsOfRuns
  <2> QED
    BY <1>8, <2>1 DEF PartsMissing
<1>20. \A m : \A r \in DOMAIN runs : There(m, r) => There(m, r)'
  BY <1>4, <1>8 DEF There
<1>21. HeldThere'
  BY <1>6, <1>7, <1>9, <1>20 DEF HeldThere
<1>22. DoneThere'
  BY <1>1, <1>2, <1>4, <1>8, <1>20 DEF DoneThere
<1>23. RefusedByOthers'
  BY <1>1, <1>2, <1>4, <1>8, <1>11 DEF RefusedByOthers
<1>24. InWayMeet'
  <2> SUFFICES ASSUME NEW v \in Workers, Serving(v, "insert")', NEW y \in rows, y.key = Key(v)',
                      NEW z, z = req'[v].run
               PROVE  y.run \in DOMAIN runs' /\ Overlap(y.run, z)'
    BY <1>4 DEF InWayMeet, Keyed
  <2>1. v # w /\ OnRun(v) /\ req'[v] = req[v]
    BY <1>6, <1>7, <1>9 DEF Serving, OnRun
  <2>2. y.run \in DOMAIN runs /\ Overlap(y.run, z) /\ z \in DOMAIN runs
    BY <1>9, <1>12, <2>1 DEF InWayMeet, Serving, Keyed
  <2> QED
    BY <1>1, <1>2, <1>8, <1>11, <2>2
<1>25. TwinsMeet'
  <2> SUFFICES ASSUME NEW r \in rows, NEW s \in rows, r # s, r.key = s.key
               PROVE  ~script[r.key.fix].indexed /\ r.run \in DOMAIN runs' /\ Overlap(r.run, s.run)'
    BY <1>4 DEF TwinsMeet
  <2>1. /\ ~script[r.key.fix].indexed /\ r.run \in DOMAIN runs /\ Overlap(r.run, s.run)
        /\ s.run \in DOMAIN runs
    BY DEF TwinsMeet
  <2> QED
    BY <1>1, <1>2, <1>8, <1>11, <2>1
<1> QED
  BY <1>13, <1>14, <1>15, <1>16, <1>17, <1>18, <1>19, <1>21, <1>22, <1>23, <1>24, <1>25

(* A run inserts a row nothing forbids, with its first part.               *)
LEMMA RunInserts ==
    ASSUME SeedInv, NEW w \in Workers, Insert(w)
    PROVE  SeedInv'
<1> USE DEF SeedInv
<1>1. PICK q, k, n, len, row :
          /\ q = req[w] /\ k = Key(w) /\ n = At(w) /\ len = Len(Fixture(w).parts)
          /\ row = [key |-> k, run |-> q.run, parts |-> 1]
  OBVIOUS
<1>2. /\ q \in [op : {"seed", "insert", "fill"}, run : Nat, held : Seq(Nat)]
      /\ q.op = "insert" /\ q.run \in Running /\ q.run \in DOMAIN runs
      /\ n = Len(q.held) + 1 /\ n \in DOMAIN script
      /\ UNCHANGED <<script, runs, people, today>>
      /\ rows' = rows \cup {row} /\ ~Taken(w)
  BY <1>1, SeedShapes DEF Insert, Serving, OnRun, OneRunEach, At, Running
<1>3. /\ k.fix = n /\ (script[n].daily => k.day = runs[q.run].day)
      /\ row = [key |-> row.key, run |-> row.run, parts |-> row.parts]
      /\ row.key = k /\ row.run = q.run /\ row.parts = 1
      /\ len = Len(script[n].parts) /\ len \in Nat \ {0}
  BY <1>1, <1>2, SeedShapes DEF Key, Fixture, Sound
<1>4. PICK x : /\ x \in [op : {"seed", "insert", "fill"}, run : Nat, held : Seq(Nat)]
               /\ req' = [req EXCEPT ![w] = x] /\ x.run = q.run
               /\ \/ x.op = "seed" /\ Len(x.held) = n /\ len = 1
                  \/ x.op = "fill" /\ x.held = q.held /\ len # 1
  <2>1. CASE len = 1
    <3>1. PICK h : h = Append(q.held, q.run)
      OBVIOUS
    <3>2. h \in Seq(Nat) /\ Len(h) = n
      BY <1>2, <3>1
    <3>3. PICK x : x = [q EXCEPT !.op = "seed", !.held = h]
      OBVIOUS
    <3>4. /\ x \in [op : {"seed", "insert", "fill"}, run : Nat, held : Seq(Nat)]
          /\ x.run = q.run /\ x.op = "seed" /\ Len(x.held) = n
      BY <1>2, <3>2, <3>3
    <3>5. req' = [req EXCEPT ![w] = x]
      BY <1>1, <1>2, <2>1, <3>1, <3>3 DEF Insert, Ask, Holds
    <3> QED
      BY <2>1, <3>4, <3>5
  <2>2. CASE len # 1
    <3>1. PICK x : x = [q EXCEPT !.op = "fill"]
      OBVIOUS
    <3>2. /\ x \in [op : {"seed", "insert", "fill"}, run : Nat, held : Seq(Nat)]
          /\ x.run = q.run /\ x.op = "fill" /\ x.held = q.held
      BY <1>2, <3>1
    <3>3. req' = [req EXCEPT ![w] = x]
      BY <1>1, <2>2, <3>1 DEF Insert, Ask
    <3> QED
      BY <2>2, <3>2, <3>3
  <2> QED
    BY <2>1, <2>2
<1>5. \A v \in Workers : req'[v] = IF v = w THEN x ELSE req[v]
  BY <1>4 DEF SeedTyped
<1>6. /\ \A v \in Workers : OnRun(v)' <=> OnRun(v)
      /\ \A v \in Workers : OnRun(v) => req'[v].run = req[v].run
      /\ OnRun(w)
  BY <1>1, <1>2, <1>4, <1>5 DEF OnRun
<1>7. \A v \in Workers : v # w \/ x.op = "fill" => Key(v)' = Key(v)
  BY <1>1, <1>2, <1>4, <1>5, KeyKept
<1>8. \A v \in Workers : v # w /\ OnRun(v) => req[v].run \in Running /\ req[v].run # q.run
  BY <1>1, <1>6 DEF OneRunEach
<1>9. SeedTyped'
  <2>1. req' \in [Workers -> SeedRequests]
    BY <1>4 DEF SeedTyped, SeedRequests
  <2>2. IsRow(row)'
    BY <1>2, <1>3, SeedShapes DEF IsRow
  <2> QED
    BY <1>2, <2>1, <2>2 DEF SeedTyped, IsRow
<1>10. OneRunEach'
  <2>1. Running' = Running
    BY <1>2 DEF Running
  <2> QED
    BY <1>1, <1>2, <1>4, <1>5, <1>6, <2>1, SeedShapes DEF OneRunEach, At
<1>11. ResetAlone'
  <2>1. \A v \in Workers : ~Serving(v, "reset")
    BY <1>1, <1>2, SeedShapes DEF ResetAlone, Running
  <2> QED
    BY <1>4, <1>5, <2>1 DEF ResetAlone, Serving
<1>12. RunningMeet' /\ RefusedByOthers'
  BY <1>2 DEF RunningMeet, RefusedByOthers, Running, Overlap
<1>13. \A r \in rows : ~(r.run = q.run /\ r.key = k)
  BY <1>1, <1>2, <1>3, <1>6 DEF OwnRows
<1>14. OneOfRun'
  BY <1>2, <1>3, <1>13 DEF OneOfRun
<1>15. OwnRows'
  <2>1. \A r \in rows : r.key.fix \in 1 .. Len(script)
    BY SeedShapes DEF SeedTyped, IsRow
  <2>2. \A r : Whole(r)' <=> Whole(r)
    BY <1>2 DEF Whole
  <2>3. ASSUME NEW v \in Workers, v # w, OnRun(v), NEW r \in rows', r.run = req[v].run
        PROVE  \/ r.key.fix <= Len(req[v].held) /\ Whole(r)
               \/ /\ req[v].op = "fill" /\ r.key = Key(v)
                  /\ r.parts < Len(script[r.key.fix].parts)
    BY <1>2, <1>3, <1>8, <2>3 DEF OwnRows
  <2>4. ASSUME NEW r \in rows', r.run = q.run
        PROVE  \/ r.key.fix <= Len(x.held) /\ Whole(r)
               \/ /\ x.op = "fill" /\ r.key = Key(w)
                  /\ r.parts < Len(script[r.key.fix].parts)
    <3>1. CASE r = row
      <4>1. /\ r.key = Key(w) /\ r.key.fix = n /\ r.parts = 1
            /\ Len(script[r.key.fix].parts) = len /\ n \in Nat
        BY <1>1, <1>2, <1>3, <3>1
      <4>2. n <= n
        BY <4>1
      <4>3. len # 1 => 1 < len
        BY <1>3, MoreThanOne
      <4> QED
        BY <1>4, <4>1, <4>2, <4>3 DEF Whole
    <3>2. CASE r \in rows
      BY <1>1, <1>2, <1>4, <1>6, <2>1, <2>4, <3>2 DEF OwnRows
    <3> QED
      BY <1>2, <3>1, <3>2
  <2> QED
    BY <1>1, <1>2, <1>4, <1>5, <1>6, <1>7, <2>2, <2>3, <2>4 DEF OwnRows
<1>16. PartsMissing'
  BY <1>2, <1>3 DEF PartsMissing, Whole, Running
<1>17. There(n, q.run)' /\ \A m, p : There(m, p) => There(m, p)'
  BY <1>2, <1>3 DEF There
<1>18. HeldThere'
  <2>1. \A m \in 1 .. Len(x.held) : There(m, q.run)'
    BY <1>1, <1>2, <1>4, <1>6, <1>17 DEF HeldThere
  <2> QED
    BY <1>1, <1>4, <1>5, <1>6, <1>17, <2>1 DEF HeldThere
<1>19. DoneThere'
  BY <1>2, <1>17 DEF DoneThere
<1>20. InWayMeet'
  <2> SUFFICES ASSUME NEW v \in Workers, Serving(v, "insert")', NEW y \in rows', y.key = Key(v)'
               PROVE  y.run \in DOMAIN runs /\ Overlap(y.run, req'[v].run)
    BY <1>2 DEF InWayMeet, Keyed, Overlap
  <2>1. v # w /\ Serving(v, "insert") /\ OnRun(v) /\ req'[v] = req[v]
    BY <1>4, <1>5 DEF Serving, OnRun
  <2>2. CASE y \in rows
    BY <1>7, <2>1, <2>2 DEF InWayMeet, Keyed
  <2>3. CASE y = row
    BY <1>2, <1>3, <1>8, <2>1, <2>3 DEF RunningMeet
  <2> QED
    BY <1>2, <2>2, <2>3
<1>21. TwinsMeet'
  <2>1. ASSUME NEW s \in rows, s.key = k
        PROVE  ~script[n].indexed /\ s.run \in DOMAIN runs /\ Overlap(s.run, q.run)
    BY <1>1, <1>2, <2>1 DEF InWayMeet, Serving, Keyed, Taken, Fixture
  <2>2. ASSUME NEW r \in rows', NEW s \in rows', r # s, r.key = s.key
        PROVE  ~script[r.key.fix].indexed /\ r.run \in DOMAIN runs /\ Overlap(r.run, s.run)
    <3>1. CASE r \in rows /\ s \in rows
      BY <2>2, <3>1 DEF TwinsMeet
    <3>2. CASE r = row /\ s \in rows
      BY <1>2, <1>3, <2>1, <2>2, <3>2 DEF Overlap
    <3>3. CASE s = row /\ r \in rows
      BY <1>2, <1>3, <2>1, <2>2, <3>3
    <3> QED
      BY <1>2, <2>2, <3>1, <3>2, <3>3
  <2> QED
    BY <1>2, <2>2 DEF TwinsMeet, Overlap
<1> QED
  BY <1>9, <1>10, <1>11, <1>12, <1>14, <1>15, <1>16, <1>18, <1>19, <1>20, <1>21

(* A run fills the row it inserted, one part more.                         *)
LEMMA RunFills ==
    ASSUME SeedInv, NEW w \in Workers, Fill(w)
    PROVE  SeedInv'
<1> USE DEF SeedInv
<1>1. PICK q, k, n, len : /\ q = req[w] /\ k = Key(w) /\ n = At(w) /\ len = Len(Fixture(w).parts)
  OBVIOUS
<1>2. /\ q \in [op : {"seed", "insert", "fill"}, run : Nat, held : Seq(Nat)]
      /\ q.op = "fill" /\ q.run \in Running /\ q.run \in DOMAIN runs
      /\ n = Len(q.held) + 1 /\ n \in DOMAIN script
      /\ UNCHANGED <<script, runs, people, today>> /\ OnRun(w)
  BY <1>1, SeedShapes DEF Fill, Serving, OnRun, OneRunEach, At, Running
<1>3. PICK r \in rows :
          /\ r.key = k /\ r.run = q.run
          /\ rows' = (rows \ {r}) \cup {[r EXCEPT !.parts = @ + 1]}
          /\ Ask(w, IF r.parts + 1 = len THEN Holds(w, q.run) ELSE q)
  BY <1>1 DEF Fill, Keyed
<1>4. PICK row : row = [r EXCEPT !.parts = @ + 1]
  OBVIOUS
<1>5. /\ k.fix = n /\ len = Len(script[n].parts) /\ len \in Nat \ {0} /\ n \in Nat
      /\ r = [key |-> r.key, run |-> r.run, parts |-> r.parts] /\ r.parts \in Nat
  <2>1. k.fix = n /\ len = Len(script[n].parts)
    BY <1>1 DEF Key, Fixture
  <2>2. len \in Nat \ {0} /\ n \in Nat
    BY <1>2, <2>1, SeedShapes DEF Sound
  <2>3. r = [key |-> r.key, run |-> r.run, parts |-> r.parts] /\ r.parts \in Nat
    BY DEF SeedTyped, IsRow
  <2> QED
    BY <2>1, <2>2, <2>3
<1>6. r.parts < len
  BY <1>1, <1>2, <1>3, <1>5 DEF OwnRows
<1>7. /\ row = [key |-> row.key, run |-> row.run, parts |-> row.parts]
      /\ row.key = k /\ row.run = q.run /\ row.parts = r.parts + 1
      /\ rows' = (rows \ {r}) \cup {row}
  BY <1>3, <1>4, <1>5
<1>8. PICK x : /\ x \in [op : {"seed", "insert", "fill"}, run : Nat, held : Seq(Nat)]
               /\ req' = [req EXCEPT ![w] = x] /\ x.run = q.run
               /\ \/ x.op = "seed" /\ Len(x.held) = n /\ row.parts = len
                  \/ x.op = "fill" /\ x.held = q.held /\ row.parts < len
  <2>1. CASE r.parts + 1 = len
    <3>1. PICK h : h = Append(q.held, q.run)
      OBVIOUS
    <3>2. h \in Seq(Nat) /\ Len(h) = n
      BY <1>2, <3>1
    <3>3. PICK x : x = [q EXCEPT !.op = "seed", !.held = h]
      OBVIOUS
    <3>4. /\ x \in [op : {"seed", "insert", "fill"}, run : Nat, held : Seq(Nat)]
          /\ x.run = q.run /\ x.op = "seed" /\ Len(x.held) = n
      BY <1>2, <3>2, <3>3
    <3>5. req' = [req EXCEPT ![w] = x]
      BY <1>1, <1>2, <1>3, <2>1, <3>1, <3>3 DEF Ask, Holds
    <3> QED
      BY <1>7, <2>1, <3>4, <3>5
  <2>2. CASE r.parts + 1 # len
    <3>1. req' = [req EXCEPT ![w] = q]
      BY <1>3, <2>2 DEF Ask
    <3>2. row.parts < len
      BY <1>5, <1>6, <1>7, <2>2
    <3> QED
      BY <1>2, <3>1, <3>2
  <2> QED
    BY <2>1, <2>2
<1>9. \A v \in Workers : req'[v] = IF v = w THEN x ELSE req[v]
  BY <1>8 DEF SeedTyped
<1>10. /\ \A v \in Workers : OnRun(v)' <=> OnRun(v)
       /\ \A v \in Workers : OnRun(v) => req'[v].run = req[v].run
  BY <1>1, <1>2, <1>8, <1>9 DEF OnRun
<1>11. \A v \in Workers : v # w \/ x.op = "fill" => Key(v)' = Key(v)
  BY <1>1, <1>2, <1>8, <1>9, KeyKept
<1>12. \A v \in Workers : v # w /\ OnRun(v) => req[v].run # q.run
  BY <1>1, <1>2 DEF OneRunEach
<1>13. SeedTyped'
  <2>1. req' \in [Workers -> SeedRequests]
    BY <1>8 DEF SeedTyped, SeedRequests
  <2>2. row.run \in 0 .. Len(runs) /\ row.run # 0
    BY <1>2, <1>7, SeedShapes
  <2>3. IsRow(row)'
    BY <1>2, <1>5, <1>7, <2>2 DEF IsRow
  <2> QED
    BY <1>2, <1>7, <2>1, <2>3 DEF SeedTyped, IsRow
<1>14. OneRunEach'
  <2>1. Running' = Running
    BY <1>2 DEF Running
  <2> QED
    BY <1>1, <1>2, <1>8, <1>9, <1>10, <2>1, SeedShapes DEF OneRunEach, At
<1>15. ResetAlone'
  <2>1. \A v \in Workers : ~Serving(v, "reset")
    BY <1>1, <1>2, SeedShapes DEF ResetAlone, Running
  <2> QED
    BY <1>8, <1>9, <2>1 DEF ResetAlone, Serving
<1>16. RunningMeet' /\ RefusedByOthers'
  BY <1>2 DEF RunningMeet, RefusedByOthers, Running, Overlap
<1>17. OneOfRun'
  BY <1>3, <1>7 DEF OneOfRun
<1>18. OwnRows'
  <2>1. \A s \in rows : s.key.fix \in 1 .. Len(script)
    BY SeedShapes DEF SeedTyped, IsRow
  <2>2. \A s : Whole(s)' <=> Whole(s)
    BY <1>2 DEF Whole
  <2>3. ASSUME NEW v \in Workers, v # w, OnRun(v), NEW s \in rows', s.run = req[v].run
        PROVE  \/ s.key.fix <= Len(req[v].held) /\ Whole(s)
               \/ /\ req[v].op = "fill" /\ s.key = Key(v)
                  /\ s.parts < Len(script[s.key.fix].parts)
    <3>1. s \in rows
      BY <1>7, <1>12, <2>3
    <3> QED
      BY <2>3, <3>1 DEF OwnRows
  <2>4. ASSUME NEW s \in rows', s.run = q.run
        PROVE  \/ s.key.fix <= Len(x.held) /\ Whole(s)
               \/ /\ x.op = "fill" /\ s.key = Key(w)
                  /\ s.parts < Len(script[s.key.fix].parts)
    <3>1. CASE s = row
      <4>1. s.key = Key(w) /\ s.key.fix = n /\ Len(script[s.key.fix].parts) = len
        BY <1>1, <1>5, <1>7, <3>1
      <4>2. n <= n
        BY <1>5
      <4> QED
        BY <1>8, <3>1, <4>1, <4>2 DEF Whole
    <3>2. CASE s \in rows /\ s # r
      <4>1. s.key # k
        BY <1>3, <2>4, <3>2 DEF OneOfRun
      <4>2. s.key.fix <= Len(q.held) /\ Whole(s)
        BY <1>1, <1>2, <2>4, <3>2, <4>1 DEF OwnRows
      <4>3. Len(q.held) \in Nat /\ Len(q.held) <= Len(x.held)
        BY <1>2, <1>8
      <4>4. s.key.fix <= Len(x.held)
        BY <1>8, <2>1, <3>2, <4>2, <4>3
      <4> QED
        BY <4>2, <4>4
    <3> QED
      BY <1>7, <3>1, <3>2
  <2> QED
    BY <1>1, <1>2, <1>8, <1>9, <1>10, <1>11, <2>2, <2>3, <2>4 DEF OwnRows
<1>19. PartsMissing'
  BY <1>2, <1>7 DEF PartsMissing, Whole, Running
<1>20. There(n, q.run)' /\ \A m, p : There(m, p) => There(m, p)'
  <2>1. script[n].daily => k.day = runs[q.run].day
    BY <1>1 DEF Key, Fixture
  <2>2. There(n, q.run)'
    BY <1>2, <1>5, <1>7, <2>1 DEF There
  <2>3. ASSUME NEW m, NEW p, There(m, p)
        PROVE  There(m, p)'
    <3>1. PICK s \in rows : s.key.fix = m /\ (script[m].daily => s.key.day = runs[p].day)
      BY <2>3 DEF There
    <3>2. \E z \in rows' : z.key = s.key
      BY <1>3, <1>7
    <3> QED
      BY <1>2, <3>1, <3>2 DEF There
  <2> QED
    BY <2>2, <2>3
<1>21. HeldThere'
  <2>1. \A m \in 1 .. Len(x.held) : There(m, q.run)'
    BY <1>1, <1>2, <1>8, <1>20 DEF HeldThere
  <2> QED
    BY <1>1, <1>8, <1>9, <1>10, <1>20, <2>1 DEF HeldThere
<1>22. DoneThere'
  BY <1>2, <1>20 DEF DoneThere
<1>23. \A y \in rows' : \E z \in rows : z.key = y.key /\ z.run = y.run /\ (y = row => z = r)
                                        /\ (y # row => z = y)
  BY <1>3, <1>7
<1>24. InWayMeet'
  <2> SUFFICES ASSUME NEW v \in Workers, Serving(v, "insert")', NEW y \in rows', y.key = Key(v)'
               PROVE  y.run \in DOMAIN runs /\ Overlap(y.run, req'[v].run)
    BY <1>2 DEF InWayMeet, Keyed, Overlap
  <2>1. v # w /\ Serving(v, "insert") /\ OnRun(v) /\ req'[v] = req[v]
    BY <1>8, <1>9 DEF Serving, OnRun
  <2>2. PICK z \in rows : z.key = y.key /\ z.run = y.run
    BY <1>23
  <2> QED
    BY <1>11, <2>1, <2>2 DEF InWayMeet, Keyed
<1>25. TwinsMeet'
  <2>1. ASSUME NEW y \in rows', NEW z \in rows', y # z, y.key = z.key
        PROVE  ~script[y.key.fix].indexed /\ y.run \in DOMAIN runs /\ Overlap(y.run, z.run)
    <3>1. PICK a \in rows : a.key = y.key /\ a.run = y.run /\ (y = row => a = r) /\ (y # row => a = y)
      BY <1>23
    <3>2. PICK b \in rows : b.key = z.key /\ b.run = z.run /\ (z = row => b = r) /\ (z # row => b = z)
      BY <1>23
    <3>3. a # b
      BY <1>7, <2>1, <3>1, <3>2
    <3> QED
      BY <2>1, <3>1, <3>2, <3>3 DEF TwinsMeet
  <2> QED
    BY <1>2, <2>1 DEF TwinsMeet, Overlap
<1> QED
  BY <1>13, <1>14, <1>15, <1>16, <1>17, <1>18, <1>19, <1>21, <1>22, <1>24, <1>25

(* seed.py starts, when nothing runs: no role stays, and no run goes on.   *)
LEMMA ResetStarts ==
    ASSUME SeedInv, NEW w \in Workers, Reset(w)
    PROVE  SeedInv'
<1> USE DEF SeedInv
<1>1. PICK kept : kept = {s \in rows : Stays(s)}
  OBVIOUS
<1>2. PICK x : x = [op |-> "reset", next |-> "roles"]
  OBVIOUS
<1>3. /\ rows' = {Stripped(r) : r \in kept} /\ UNCHANGED <<script, today>>
      /\ req' = [req EXCEPT ![w] = x] /\ \A v \in Workers : Free(v)
      /\ runs' = [r \in DOMAIN runs |-> [runs[r] EXCEPT !.end = "undone"]]
  BY <1>1, <1>2 DEF Reset, Ask, NoRequest, Free
<1>4. /\ runs' \in Seq(Runs) /\ Len(runs') = Len(runs) /\ DOMAIN runs' = DOMAIN runs
      /\ \A r \in DOMAIN runs : /\ runs'[r].end = "undone" /\ runs'[r].day = runs[r].day
                                /\ runs'[r].beside = runs[r].beside
  <2>1. \A r \in DOMAIN runs : [runs[r] EXCEPT !.end = "undone"] \in Runs
    BY SeedShapes DEF Runs
  <2>2. runs' \in [1 .. Len(runs) -> Runs] /\ Len(runs) \in Nat
    BY <1>3, <2>1, SeedShapes
  <2>3. runs' \in Seq(Runs) /\ Len(runs') = Len(runs)
    BY <2>2
  <2> QED
    BY <1>3, <2>3, SeedShapes DEF Runs
<1>5. \A v \in Workers : req'[v] = IF v = w THEN x ELSE req[v]
  BY <1>3 DEF SeedTyped
<1>6. Running' = {} /\ \A v \in Workers : ~OnRun(v)'
  BY <1>2, <1>3, <1>4, <1>5, SeedShapes DEF Running, OnRun
<1>7. \A r \in kept : r \in rows /\ script[r.key.fix].table # "role"
  <2>1. "role" \in Wiped
    BY DEF Wiped, Cascade, Naming
  <2> QED
    BY <1>1, <2>1 DEF Stays
<1>8. ASSUME NEW r \in kept
      PROVE  /\ Stripped(r).key = r.key /\ Stripped(r).run = r.run
             /\ Stripped(r).parts \in Nat
             /\ Stripped(r) = [key |-> Stripped(r).key, run |-> Stripped(r).run,
                               parts |-> Stripped(r).parts]
             /\ r.run \in DOMAIN runs
  <2>1. PICK p : p = IF \E m \in 1 .. r.parts : script[r.key.fix].parts[m] \cap Wiped # {}
                     THEN 1 ELSE r.parts
    OBVIOUS
  <2>2. Stripped(r) = [r EXCEPT !.parts = p]
    BY <2>1 DEF Stripped
  <2>3. /\ r = [key |-> r.key, run |-> r.run, parts |-> r.parts]
        /\ r.parts \in Nat /\ r.run \in 0 .. Len(runs) /\ r.run # 0
    BY <1>7 DEF SeedTyped, IsRow
  <2>4. p \in Nat
    BY <2>1, <2>3
  <2>5. r.run \in DOMAIN runs
    BY <2>3, SeedShapes
  <2> QED
    BY <2>2, <2>3, <2>4, <2>5
<1>9. \A z \in rows' : \E r \in kept : z = Stripped(r) /\ z.key = r.key /\ z.run = r.run
  BY <1>3, <1>8
<1>10. SeedTyped'
  <2>1. req' \in [Workers -> SeedRequests]
    BY <1>2, <1>3 DEF SeedTyped, SeedRequests
  <2>2. ASSUME NEW z \in rows'
        PROVE  IsRow(z)'
    <3>1. PICK r \in kept : z = Stripped(r) /\ z.key = r.key /\ z.run = r.run
      BY <1>9
    <3>2. r.key.fix \in DOMAIN script /\ r.run \in 1 .. Len(runs)
      BY <1>7, <1>8, SeedShapes DEF SeedTyped, IsRow
    <3> QED
      BY <1>3, <1>4, <1>8, <3>1, <3>2, SeedShapes DEF IsRow
  <2> QED
    BY <1>3, <1>4, <2>1, <2>2 DEF SeedTyped
<1>11. OneRunEach' /\ OwnRows' /\ HeldThere'
  BY <1>6 DEF OneRunEach, OwnRows, HeldThere
<1>12. ResetAlone'
  <2>1. \A z \in rows' : script[z.key.fix].table # "role"
    BY <1>7, <1>9
  <2>2. \A v \in Workers \ {w} : Free(v)'
    BY <1>3, <1>5 DEF Free
  <2>3. \A v \in Workers : Serving(v, "reset")' => v = w
    BY <1>3, <1>5, SeedShapes DEF Serving
  <2> QED
    BY <1>3, <1>6, <2>1, <2>2, <2>3 DEF ResetAlone
<1>13. RunningMeet'
  BY <1>6 DEF RunningMeet
<1>14. OneOfRun'
  BY <1>7, <1>9 DEF OneOfRun
<1>15. PartsMissing' /\ DoneThere' /\ RefusedByOthers'
  BY <1>4, <1>8, <1>9 DEF PartsMissing, DoneThere, RefusedByOthers
<1>16. InWayMeet'
  BY <1>6 DEF InWayMeet, Serving, OnRun
<1>17. TwinsMeet'
  <2>1. ASSUME NEW y \in rows', NEW z \in rows', y # z, y.key = z.key
        PROVE  ~script[y.key.fix].indexed /\ y.run \in DOMAIN runs /\ Overlap(y.run, z.run)'
    <3>1. PICK a \in kept : y = Stripped(a) /\ a.key = y.key /\ a.run = y.run
      BY <1>9
    <3>2. PICK b \in kept : z = Stripped(b) /\ b.key = z.key /\ b.run = z.run
      BY <1>9
    <3>3. a # b /\ a \in rows /\ b \in rows /\ b.run \in DOMAIN runs
      BY <1>7, <1>8, <2>1, <3>1, <3>2
    <3>4. ~script[y.key.fix].indexed /\ y.run \in DOMAIN runs /\ Overlap(y.run, z.run)
      BY <2>1, <3>1, <3>2, <3>3 DEF TwinsMeet
    <3>5. z.run \in DOMAIN runs
      BY <3>2, <3>3
    <3>6. PICK p, q : p = y.run /\ q = z.run
      OBVIOUS
    <3>7. Overlap(p, q)'
      BY <1>4, <3>4, <3>5, <3>6, OverlapsKept
    <3> QED
      BY <3>4, <3>6, <3>7
  <2> QED
    BY <1>3, <1>4, <2>1 DEF TwinsMeet
<1> QED
  BY <1>10, <1>11, <1>12, <1>13, <1>14, <1>15, <1>16, <1>17

(* seed.py has made its roles, or is done, or dies.                        *)
LEMMA ResetGoesOn ==
    ASSUME SeedInv, NEW w \in Workers, Serving(w, "reset"), UNCHANGED <<script, runs, today>>,
           people' = people \/ people' = "developers",
           NEW x \in {IdleReq, [op |-> "reset", next |-> "people"]},
           req' = [req EXCEPT ![w] = x],
           rows \subseteq rows',
           \A r \in rows' \ rows :
               /\ r = [key |-> r.key, run |-> 0, parts |-> 1] /\ r.key.fix \in DOMAIN script
               /\ script[r.key.fix].table = "role" /\ req[w].next = "roles",
           \A r, s \in rows' \ rows : r.key.fix = s.key.fix => r = s
    PROVE  SeedInv'
<1> USE DEF SeedInv
<1>1. \A v \in Workers : v # w => Free(v) /\ req'[v] = req[v]
  BY DEF ResetAlone, SeedTyped
<1>2. req'[w] = x
  BY DEF SeedTyped
<1>3. Running = {} /\ Running' = {}
  BY DEF ResetAlone, Running
<1>4. \A v \in Workers : ~OnRun(v)'
  BY <1>1, <1>2, SeedShapes DEF OnRun, IdleReq
<1>5. \A r \in rows' \ rows : \A s \in rows : s.key # r.key
  BY DEF ResetAlone
<1>6. ASSUME NEW r \in rows' \ rows
      PROVE  r.run = 0 /\ r.parts = 1 /\ Whole(r)
  <2>1. r = [key |-> r.key, run |-> 0, parts |-> 1]
    OBVIOUS
  <2>2. r.run = 0 /\ r.parts = 1
    BY <2>1
  <2>3. r.key.fix \in DOMAIN script /\ script[r.key.fix].table = "role"
    OBVIOUS
  <2>4. Len(script[r.key.fix].parts) = 1
    BY <2>3, SeedShapes DEF Sound
  <2> QED
    BY <2>2, <2>4 DEF Whole
<1>7. SeedTyped'
  <2>1. req' \in [Workers -> SeedRequests]
    BY DEF SeedTyped, SeedRequests
  <2>2. \A r \in rows' \ rows : IsRow(r)'
    BY <1>6, SeedShapes DEF IsRow
  <2> QED
    BY <2>1, <2>2 DEF SeedTyped, IsRow
<1>8. OneRunEach' /\ OwnRows' /\ HeldThere'
  BY <1>4 DEF OneRunEach, OwnRows, HeldThere
<1>9. ResetAlone'
  <2>1. \A v \in Workers : Serving(v, "reset")' => v = w /\ req'[v].next = "people"
    BY <1>1, <1>2, SeedShapes DEF Serving, IdleReq
  <2> QED
    BY <1>1, <1>3, <2>1 DEF ResetAlone, Free
<1>10. RunningMeet'
  BY <1>3 DEF RunningMeet
<1>11. OneOfRun'
  BY <1>5 DEF OneOfRun
<1>12. PartsMissing'
  BY <1>6 DEF PartsMissing, Whole
<1>13. DoneThere'
  BY DEF DoneThere, There
<1>14. RefusedByOthers'
  BY DEF RefusedByOthers, Overlap
<1>15. InWayMeet'
  BY <1>4 DEF InWayMeet, Serving, OnRun
<1>16. TwinsMeet'
  <2>1. \A y, z \in rows' : y # z /\ y.key = z.key => y \in rows /\ z \in rows
    BY <1>5
  <2> QED
    BY <2>1 DEF TwinsMeet, Overlap
<1> QED
  BY <1>7, <1>8, <1>9, <1>10, <1>11, <1>12, <1>13, <1>14, <1>15, <1>16

LEMMA SeedStep == SeedInv /\ [SeedNext]_<<seeds, req>> => SeedInv'
<1> SUFFICES ASSUME SeedInv, [SeedNext]_<<seeds, req>>
             PROVE  SeedInv'
  OBVIOUS
<1>1. CASE UNCHANGED <<seeds, req>> \/ NextDay
  <2>1. UNCHANGED <<script, rows, runs, people, req>> /\ today' \in Nat
    BY <1>1 DEF seeds, NextDay, SeedInv, SeedTyped
  <2> QED
    BY <2>1, SeedWaits
<1>2. ASSUME NEW w \in Workers, Refused(w)
      PROVE  SeedInv'
  <2>1. OnRun(w) /\ req[w].op = "insert" /\ req[w].run \in DOMAIN runs
    BY <1>2 DEF Refused, Serving, OnRun, SeedInv, OneRunEach, Running
  <2>2. people = "developers" \/ \E s \in DOMAIN runs : Overlap(req[w].run, s)
    <3>1. CASE people = "developers"
      BY <3>1
    <3>2. ASSUME NEW r \in Keyed(Key(w))
          PROVE  r.run \in DOMAIN runs /\ Overlap(r.run, req[w].run)
      BY <2>1 DEF SeedInv, InWayMeet, Serving
    <3>3. \A r \in Keyed(Key(w)) : Overlap(req[w].run, r.run)
      BY <3>2 DEF Overlap
    <3> QED
      BY <1>2, <3>1, <3>2, <3>3 DEF Refused, Taken
  <2> QED
    BY <1>2, <2>1, <2>2, RunEnds DEF Refused
<1>3. ASSUME NEW w \in Workers, Finish(w)
      PROVE  SeedInv'
  <2>1. OnRun(w) /\ req[w].op = "seed"
    BY <1>3 DEF Finish, Serving, OnRun
  <2>2. Len(req[w].held) = Len(script)
    <3>1. Len(req[w].held) \in Nat /\ Len(script) \in Nat
      BY <2>1, SeedShapes DEF SeedInv
    <3> QED
      BY <1>3, <2>1, <3>1 DEF Finish, At, SeedInv, OneRunEach
  <2> QED
    BY <1>3, <2>1, <2>2, RunEnds DEF Finish
<1>4. ASSUME NEW w \in Workers, Killed(w)
      PROVE  SeedInv'
  <2>1. CASE Serving(w, "reset")
    <3>1. /\ req' = [req EXCEPT ![w] = IdleReq] /\ UNCHANGED <<script, rows, runs, people, today>>
      BY <1>4, <2>1 DEF Killed, Answer, Ask
    <3> QED
      BY <2>1, <3>1, ResetGoesOn
  <2>2. CASE ~Serving(w, "reset")
    <3>1. OnRun(w)
      BY <1>4, <2>2, SeedShapes DEF Killed, SeedInv
    <3> QED
      BY <1>4, <2>2, <3>1, RunEnds DEF Killed
  <2> QED
    BY <2>1, <2>2
<1>5. ASSUME NEW w \in Workers, ResetRoles(w)
      PROVE  SeedInv'
  <2>1. PICK roles, made, x :
            /\ roles = {m \in DOMAIN script : script[m].table = "role"}
            /\ made = {[key |-> [fix |-> n, within |-> 0, day |-> 0], run |-> 0, parts |-> 1] :
                          n \in roles}
            /\ x = [op |-> "reset", next |-> "people"]
    OBVIOUS
  <2>2. /\ rows' = rows \cup made /\ req' = [req EXCEPT ![w] = x]
        /\ UNCHANGED <<script, runs, people, today>>
        /\ Serving(w, "reset") /\ req[w].next = "roles"
    BY <1>5, <2>1 DEF ResetRoles, Ask
  <2>3. \A r \in made :
            /\ r = [key |-> [fix |-> r.key.fix, within |-> 0, day |-> 0], run |-> 0, parts |-> 1]
            /\ r.key.fix \in DOMAIN script /\ script[r.key.fix].table = "role"
    BY <2>1
  <2>4. \A r \in made : r = [key |-> r.key, run |-> 0, parts |-> 1]
    BY <2>1
  <2>5. \A r, s \in made : r.key.fix = s.key.fix => r = s
    BY <2>1
  <2> QED
    BY <2>1, <2>2, <2>3, <2>4, <2>5, ResetGoesOn
<1>6. ASSUME NEW w \in Workers, ResetPeople(w)
      PROVE  SeedInv'
  <2>1. /\ req' = [req EXCEPT ![w] = IdleReq] /\ UNCHANGED <<script, rows, runs, today>>
        /\ people' = "developers" /\ Serving(w, "reset")
    BY <1>6 DEF ResetPeople, Answer, Ask
  <2> QED
    BY <2>1, ResetGoesOn
<1> QED
  BY <1>1, <1>2, <1>3, <1>4, <1>5, <1>6, RunStarts, ResetStarts, RunFinds, RunInserts, RunFills
     DEF SeedNext, SeedEnds

LEMMA SeedStart == SeedInit /\ NoRequest => SeedInv
<1> SUFFICES ASSUME SeedInit, NoRequest
             PROVE  SeedInv
  OBVIOUS
<1>1. /\ ScriptSound(script) /\ rows = {} /\ runs = <<>> /\ today = 0
      /\ DOMAIN runs = {} /\ Running = {}
      /\ \A w \in Workers : ~OnRun(w) /\ ~Serving(w, "reset") /\ ~Serving(w, "insert")
  BY ScriptsSound DEF SeedInit, NoRequest, OnRun, Serving, IdleReq, Running
<1>2. SeedTyped
  BY <1>1 DEF SeedTyped, SeedRequests, NoRequest
<1>3. /\ OneRunEach /\ ResetAlone /\ RunningMeet /\ OneOfRun /\ OwnRows /\ PartsMissing
      /\ HeldThere /\ DoneThere /\ RefusedByOthers /\ InWayMeet /\ TwinsMeet
  BY <1>1 DEF OneRunEach, ResetAlone, RunningMeet, OneOfRun, OwnRows, PartsMissing,
              HeldThere, DoneThere, RefusedByOthers, InWayMeet, TwinsMeet
<1> QED
  BY <1>2, <1>3 DEF SeedInv

(* Only what is looked for by a date has one in its key.                   *)
KeysDated ==
    \A r \in rows :
        /\ r = [key |-> r.key, run |-> r.run, parts |-> r.parts]
        /\ r.key = [fix |-> r.key.fix, within |-> r.key.within, day |-> r.key.day]
        /\ ~script[r.key.fix].daily => r.key.day = 0

LEMMA KeysStayDated == KeysDated /\ [SeedNext]_<<seeds, req>> => KeysDated'
<1> SUFFICES ASSUME KeysDated, [SeedNext]_<<seeds, req>>
             PROVE  KeysDated'
  OBVIOUS
<1> DEFINE Dated(r) ==
      /\ r = [key |-> r.key, run |-> r.run, parts |-> r.parts]
      /\ r.key = [fix |-> r.key.fix, within |-> r.key.within, day |-> r.key.day]
      /\ ~script[r.key.fix].daily => r.key.day = 0
<1>1. script' = script
  BY DEF SeedNext, SeedEnds, NextDay, Start, Find, Insert, Refused, Fill, Finish,
         ResetRoles, ResetPeople, Reset, Killed, seeds
<1>2. \A r \in rows : Dated(r)
  BY DEF KeysDated
<1>3. SUFFICES ASSUME NEW r \in rows', r \notin rows
               PROVE  Dated(r)
  BY <1>1, <1>2 DEF KeysDated
<1>4. ASSUME NEW s \in rows, NEW p
       PROVE  Dated([s EXCEPT !.parts = p])
  <2>1. PICK k, n, t : k = s.key /\ n = s.run /\ t = s.parts
    OBVIOUS
  <2>2. Dated(s)
    BY <1>2
  <2>3. s = [key |-> k, run |-> n, parts |-> t]
    BY <2>1, <2>2
  <2>4. [s EXCEPT !.parts = p] = [key |-> k, run |-> n, parts |-> p]
    BY <2>3
  <2> QED
    BY <2>1, <2>2, <2>4
<1>5. ASSUME NEW w \in Workers, Insert(w)
      PROVE  Dated(r)
  <2>1. r = [key |-> Key(w), run |-> req[w].run, parts |-> 1]
    BY <1>3, <1>5 DEF Insert
  <2>2. PICK k : k = Key(w)
    OBVIOUS
  <2>3. /\ k = [fix |-> k.fix, within |-> k.within, day |-> k.day]
        /\ ~script[k.fix].daily => k.day = 0
    BY <2>2 DEF Key, Fixture
  <2> QED
    BY <2>1, <2>2, <2>3
<1>6. ASSUME NEW w \in Workers, Fill(w)
      PROVE  Dated(r)
  <2>1. PICK s \in rows : r = [s EXCEPT !.parts = @ + 1]
    BY <1>3, <1>6 DEF Fill, Keyed
  <2>2. PICK p : r = [s EXCEPT !.parts = p]
    BY <2>1
  <2> QED
    BY <1>4, <2>2
<1>7. ASSUME NEW w \in Workers, Reset(w)
      PROVE  Dated(r)
  <2>1. PICK s \in rows : r = Stripped(s)
    BY <1>3, <1>7 DEF Reset
  <2>2. PICK p : r = [s EXCEPT !.parts = p]
    BY <2>1 DEF Stripped
  <2> QED
    BY <1>4, <2>2
<1>8. ASSUME NEW w \in Workers, ResetRoles(w)
      PROVE  Dated(r)
  <2>1. PICK n : r = [key |-> [fix |-> n, within |-> 0, day |-> 0], run |-> 0, parts |-> 1]
    BY <1>3, <1>8 DEF ResetRoles
  <2> QED
    BY <2>1
<1>9. rows' # rows
  BY <1>3
<1>10. \E w \in Workers : Insert(w) \/ Fill(w) \/ Reset(w) \/ ResetRoles(w)
  BY <1>9 DEF SeedNext, SeedEnds, NextDay, Start, Find, Refused, Finish, ResetPeople, Killed, seeds
<1> QED
  BY <1>5, <1>6, <1>7, <1>8, <1>10

(* For any number of workers, runs and days, whichever the section: two    *)
(* copies of a row come of runs of seed_demo that overlapped, each looking *)
(* the row up before the other inserted it, where no index stops the       *)
(* second; or of runs on different days, where the row bears a date.       *)
THEOREM TwinsByOverlapOrDay == DemoSeedSpec => []TwinsOnlyByOverlapOrDay
<1>1. SeedInv /\ KeysDated => TwinsOnlyByOverlapOrDay
  <2> SUFFICES ASSUME SeedInv, KeysDated, NEW r \in rows, NEW s \in rows, Copies(r, s),
                      script[r.key.fix].daily => r.key.day = s.key.day
               PROVE  ~script[r.key.fix].indexed /\ Overlap(r.run, s.run)
    BY DEF TwinsOnlyByOverlapOrDay
  <2>1. r # s /\ r.key.fix = s.key.fix /\ r.key.within = s.key.within
    BY DEF Copies
  <2>2. r.key.day = s.key.day
    BY <2>1 DEF KeysDated
  <2>3. r.key = s.key
    BY <2>1, <2>2 DEF KeysDated
  <2> QED
    BY <2>1, <2>3 DEF SeedInv, TwinsMeet
<1>2. SeedInit => KeysDated
  BY DEF SeedInit, KeysDated
<1> QED
  BY <1>1, <1>2, SeedStart, SeedStep, KeysStayDated, PTL DEF DemoSeedSpec

(* For any number of workers, runs and days, whichever the section: a run  *)
(* that finished leaves a row for every fixture of its day, whole unless   *)
(* the run that inserted it still goes on, was killed or was undone by     *)
(* seed.py, and a run is refused only beside another or after seed.py.     *)
THEOREM CutShortByOthers == DemoSeedSpec => []CutShortOnlyByOthers
<1>1. SeedInv => CutShortOnlyByOthers
  <2> SUFFICES ASSUME SeedInv, NEW r \in DOMAIN runs
               PROVE  /\ runs[r].end = "done" => \A n \in DOMAIN script : \E s \in rows :
                            /\ s.key.fix = n /\ (script[n].daily => s.key.day = runs[r].day)
                            /\ Whole(s) \/ runs[s.run].end \in {"killed", "running", "undone"}
                      /\ runs[r].end = "refused" =>
                            people = "developers" \/ \E s \in DOMAIN runs : Overlap(r, s)
    BY DEF CutShortOnlyByOthers
  <2>1. ASSUME runs[r].end = "done", NEW n \in DOMAIN script
        PROVE  \E s \in rows :
                  /\ s.key.fix = n /\ (script[n].daily => s.key.day = runs[r].day)
                  /\ Whole(s) \/ runs[s.run].end \in {"killed", "running", "undone"}
    BY <2>1 DEF SeedInv, DoneThere, There, PartsMissing
  <2>2. runs[r].end = "refused" =>
            people = "developers" \/ \E s \in DOMAIN runs : Overlap(r, s)
    BY DEF SeedInv, RefusedByOthers
  <2> QED
    BY <2>1, <2>2
<1> QED
  BY <1>1, SeedStart, SeedStep, PTL DEF DemoSeedSpec
=============================================================================
