----------------------------- MODULE Authority ------------------------------
(* Who may do what in one condominium: accounts, the global flag of        *)
(* superusers, the capability of tenant administrators, roles and their    *)
(* permissions (users.py, roles.py, role_service, deps.py and the members  *)
(* of tenant_service).  Accounts are members of the condominium, those of  *)
(* Elsewhere of another one too; Permissions are the grantable ones, those *)
(* of Dormant belong to modules switched off.  Names are not told apart.   *)
(* Bounds: RoleIds, Grants and MaxCommits, the commits.                    *)
EXTENDS Requests, Naturals

CONSTANTS Accounts, Elsewhere, RoleIds, Permissions, Dormant, Grants, MaxCommits

(* A bundle is of grantable permissions: RoleCreate and assert_can_grant.  *)
ASSUME GrantsAssumption == Grants \subseteq SUBSET Permissions

(* User and the admin flag of its UserTenantLink; the existing roles and   *)
(* what each grants; UserRoleLink; the commits so far.                     *)
VARIABLES person, roles, grants, holds, writes
directory == <<person, roles, grants, holds, writes>>

(* One superuser has given the first roles their permissions; those who    *)
(* sign up wait to be activated and hold no role.                          *)
AuthorityInit ==
    /\ \E p \in Accounts :
          person = [u \in Accounts |->
                      [on |-> u = p, super |-> u = p, admin |-> FALSE]]
    /\ roles = RoleIds /\ grants \in [RoleIds -> Grants]
    /\ holds = {}
    /\ writes = 0

RolesOf(p) == {r \in roles : <<p, r>> \in holds}
Bundle(S) == UNION {grants[r] : r \in S}

(* _resolve_permissions, which is also get_grantable_permissions; and      *)
(* has_permission of an account that may log in.                           *)
Authority(p) ==
    IF person[p].super \/ person[p].admin THEN Permissions
                                          ELSE Bundle(RolesOf(p))
May(p, permission) ==
    /\ person[p].on
    /\ permission \in Authority(p) \ (IF person[p].super THEN {} ELSE Dormant)
Operates(p) == person[p].on /\ person[p].super

(* One more commit, with the reads it overtakes.                           *)
Writes(w) == writes < MaxCommits /\ writes' = writes + 1 /\ Overtake(w)
-----------------------------------------------------------------------------
(* A mistake: an existing role is assigned whatever it grants.             *)
MayAssignAny(a, p, asked) == p # a /\ asked \subseteq roles

(* The self-guard and _assign_roles.                                       *)
MayAssign(a, p, asked) ==
    /\ p # a /\ asked \subseteq roles
    /\ Bundle(asked) \subseteq Authority(a)

(* update_user, up to its commit.  Role links are written as differences.  *)
(* held is auxiliary: what the author may grant.                           *)
UpdateUser(w) ==
    /\ Free(w)
    /\ \E a, p \in Accounts, on \in BOOLEAN, asked \in SUBSET RoleIds :
          /\ May(a, "users:update")
          /\ person[a].super \/ (~person[p].super /\ p \notin Elsewhere)
          /\ p = a => on
          /\ asked = RolesOf(p) \/ MayAssign(a, p, asked)
          /\ on # person[p].on \/ asked # RolesOf(p)
          /\ Ask(w, [op |-> "user", who |-> p, on |-> on, was |-> person[p].on,
                     add |-> asked \ RolesOf(p), drop |-> RolesOf(p) \ asked,
                     held |-> Authority(a), fresh |-> TRUE])
    /\ UNCHANGED directory

(* Its commit, which fails on a link that exists already or no longer, and *)
(* on one to a role that is gone.                                          *)
Fits(p, add, drop) ==
    /\ add \subseteq roles \ RolesOf(p)
    /\ drop \subseteq RolesOf(p)

UserUpdated(w) ==
    /\ Serving(w, "user")
    /\ LET r == req[w] IN
       IF ~Fits(r.who, r.add, r.drop) THEN Answer(w) /\ UNCHANGED directory
       ELSE /\ person' = [person EXCEPT ![r.who].on = Column(r.on, r.was, @)]
            /\ holds' = (holds \ ({r.who} \X r.drop)) \cup ({r.who} \X r.add)
            /\ Writes(w)
            /\ UNCHANGED <<roles, grants>>

(* A mistake: the inactive count.                                          *)
AnotherIsLeft(p) == \E u \in Accounts \ {p} : person[u].super

(* "The last superuser cannot be demoted".                                 *)
Demotable(p) ==
    person[p].on => \E u \in Accounts \ {p} : Operates(u)

(* set_superuser, and its commit.                                          *)
SetSuperuser(w) ==
    /\ Free(w)
    /\ \E a \in Accounts : Operates(a)
    /\ \E p \in Accounts :
          /\ person[p].super => Demotable(p)
          /\ Ask(w, [op |-> "super", who |-> p, to |-> ~person[p].super,
                     held |-> Permissions, fresh |-> TRUE])
    /\ UNCHANGED directory

SuperuserSet(w) ==
    /\ Serving(w, "super")
    /\ person' = [person EXCEPT ![req[w].who].super = req[w].to]
    /\ Writes(w)
    /\ UNCHANGED <<roles, grants, holds>>

(* set_member_admin.                                                       *)
SetMemberAdmin(w) ==
    /\ Free(w)
    /\ \E a \in Accounts : Operates(a)
    /\ \E p \in Accounts : person' = [person EXCEPT ![p].admin = ~@]
    /\ Writes(w)
    /\ UNCHANGED <<roles, grants, holds>>
-----------------------------------------------------------------------------
(* create_role.                                                            *)
CreateRole(w) ==
    /\ Free(w)
    /\ \E a \in Accounts, r \in RoleIds \ roles, S \in Grants :
          /\ May(a, "roles:create") /\ S \subseteq Authority(a)
          /\ roles' = roles \cup {r}
          /\ grants' = [grants EXCEPT ![r] = S]
    /\ Writes(w)
    /\ UNCHANGED <<person, holds>>

(* A mistake: only what a role already grants is looked at.                *)
MayGrantMore(a, r, S) == grants[r] \subseteq Authority(a)

(* assert_can_grant.                                                       *)
MayGrant(a, r, S) == S \subseteq Authority(a)

(* update_role, up to its commit, which fails when the role is gone.       *)
UpdateRole(w) ==
    /\ Free(w)
    /\ \E a \in Accounts, r \in roles, S \in Grants :
          /\ May(a, "roles:update") /\ MayGrant(a, r, S) /\ S # grants[r]
          /\ Ask(w, [op |-> "role", role |-> r, to |-> S,
                     held |-> Authority(a), fresh |-> TRUE])
    /\ UNCHANGED directory

RoleUpdated(w) ==
    /\ Serving(w, "role")
    /\ IF req[w].role \notin roles THEN Answer(w) /\ UNCHANGED directory
       ELSE /\ grants' = [grants EXCEPT ![req[w].role] = req[w].to]
            /\ Writes(w)
            /\ UNCHANGED <<person, roles, holds>>

(* delete_role, with the links of its holders.  Rows of other tables that  *)
(* name the role keep it: Named.                                           *)
DeleteRole(w, Named) ==
    /\ Free(w)
    /\ \E a \in Accounts, r \in roles \ Named :
          /\ May(a, "roles:delete")
          /\ roles' = roles \ {r}
          /\ grants' = [grants EXCEPT ![r] = {}]
          /\ holds' = holds \ (Accounts \X {r})
    /\ Writes(w)
    /\ UNCHANGED person

AuthorityCrash(w) == Dies(w) /\ UNCHANGED directory

AuthorityNext == \E w \in Workers :
    \/ UpdateUser(w) \/ UserUpdated(w) \/ SetSuperuser(w) \/ SuperuserSet(w)
    \/ SetMemberAdmin(w) \/ CreateRole(w) \/ UpdateRole(w) \/ RoleUpdated(w)
    \/ DeleteRole(w, {}) \/ AuthorityCrash(w)

AuthoritySpec ==
    AuthorityInit /\ NoRequest /\ [][AuthorityNext]_<<directory, req>>
-----------------------------------------------------------------------------
(* Worker w commits, and nothing was written since it read.                *)
Decides(w, ops) == req[w].op \in ops /\ Free(w)' /\ req[w].fresh

(* "Never leave the install with no way in": deactivations and demotions   *)
(* together never take the last superuser who can log in, unless another   *)
(* request wrote between the reads of one and its commit.                  *)
LockedOutOnlyByRace ==
    [][\A w \in Workers : Decides(w, {"user", "super"}) =>
          ((\E p \in Accounts : Operates(p)) => \E p \in Accounts : Operates(p)')]_directory

(* No surface escalates: whoever gains a permission by an assignment or by *)
(* an edit of a role gains one that its author holds, under the same       *)
(* condition, however many hold the role.                                  *)
NothingBeyondAuthor ==
    [][\A w \in Workers : Decides(w, {"user", "role", "super"}) =>
          \A p \in Accounts : Authority(p)' \ Authority(p) \subseteq req[w].held]_directory
=============================================================================
