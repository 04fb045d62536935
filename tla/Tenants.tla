------------------------------ MODULE Tenants -------------------------------
(* The condominiums of an installation: names and slugs, both unique, and  *)
(* the roles each is given (tenant_service, core/tenant_context).  All     *)
(* names are taken to derive one slug, so slug n is the base with the      *)
(* suffix -n, and 1 the base alone.  The branding that is saved with a     *)
(* name is left out, its commit included.                                  *)
EXTENDS Requests, Naturals, FiniteSets

CONSTANTS TenantIds, Default, TenantNames, Slugs, LegacyRoles, Attempts

(* Suffixes have no end: some are left whatever the condominiums hold.     *)
ASSUME TenantsAssumption ==
    /\ Slugs \subseteq Nat /\ 1 \in Slugs /\ Default \in TenantIds
    /\ \A held \in [TenantIds -> Slugs] :
          \E s \in Slugs : \A t \in TenantIds : held[t] # s

(* The condominiums by id; the roles, each of one of them.  Auxiliary: the *)
(* condominiums whose creation died between its two commits.               *)
VARIABLES tenants, roles, cut
houses == <<tenants, roles, cut>>

NoTenant == [name |-> {}]
Existing == {t \in TenantIds : tenants[t] # NoTenant}
Holding(s) == {t \in Existing : tenants[t].slug = s}
Named(n) == {t \in Existing : tenants[t].name = n}

(* The default one, with its roles, as the migrations leave it.            *)
TenantsInit ==
    /\ \E n \in TenantNames : tenants =
          [t \in TenantIds |-> IF t = Default THEN [name |-> n, slug |-> 1, active |-> TRUE]
                               ELSE NoTenant]
    /\ roles = {[tenant |-> Default, name |-> r] : r \in LegacyRoles}
    /\ cut = {}

(* Worker w has written and goes on with r.                                *)
Wrote(w, r) == req' = [v \in Workers |->
    IF v = w THEN r ELSE IF Free(v) THEN req[v] ELSE [req[v] EXCEPT !.fresh = FALSE]]

(* The smallest suffix not taken.  A mistake: one more than there are.     *)
CountedSlug == CHOOSE n \in Slugs : n = 1 + Cardinality(Existing)
FirstFreeSlug ==
    CHOOSE n \in Slugs : Holding(n) = {} /\ \A m \in Slugs : m < n => Holding(m) # {}

(* create_tenant; the commit that meets a name or slug taken meanwhile is  *)
(* tried again with another slug, Attempts times in all.                   *)
Create(w) ==
    /\ Free(w)
    /\ \E t \in TenantIds \ Existing, n \in TenantNames :
          /\ \A v \in Workers : ~Free(v) => req[v].id # t
          /\ Named(n) = {}
          /\ Ask(w, [op |-> "create", id |-> t, name |-> n, slug |-> FirstFreeSlug,
                     tries |-> 1, fresh |-> TRUE])
    /\ UNCHANGED houses

Clash(w) == Named(req[w].name) # {} \/ Holding(req[w].slug) # {}
Created(w) ==
    /\ Serving(w, "create") /\ ~Clash(w)
    /\ tenants' = [tenants EXCEPT
          ![req[w].id] = [name |-> req[w].name, slug |-> req[w].slug, active |-> TRUE]]
    /\ Wrote(w, [req[w] EXCEPT !.op = "roles"])
    /\ UNCHANGED <<roles, cut>>
CreateAgain(w) ==
    /\ Serving(w, "create") /\ Clash(w) /\ req[w].tries < Attempts
    /\ Ask(w, [req[w] EXCEPT !.slug = FirstFreeSlug, !.tries = @ + 1])
    /\ UNCHANGED houses
CreateRefused(w) ==
    /\ Serving(w, "create") /\ Clash(w) /\ req[w].tries = Attempts
    /\ Answer(w) /\ UNCHANGED houses

(* The filter on reads and the stamp on writes of a session: scope holds   *)
(* the condominium it acts in, if any.                                     *)
Seen(scope) == {r \in roles : scope = {} \/ r.tenant \in scope}
Stamp(scope, name) ==
    [tenant |-> IF scope = {} THEN Default ELSE CHOOSE t \in scope : TRUE, name |-> name]

(* acting_tenant_scope, in a session that acts in no condominium.  A       *)
(* mistake: the session stays as it is.                                    *)
OuterScope(t) == {}
ActingScope(t) == {t}

(* ensure_legacy_roles.                                                    *)
Missing(scope) == LegacyRoles \ {r.name : r \in Seen(scope)}
RolesEnsured(w) ==
    /\ Serving(w, "roles")
    /\ LET scope == ActingScope(req[w].id) IN
          roles' = roles \cup {Stamp(scope, n) : n \in Missing(scope)}
    /\ Wrote(w, IdleReq) /\ UNCHANGED <<tenants, cut>>

(* The name's check: its own, or nobody's.  A slug's likewise; a typed one *)
(* is refused, never given a suffix.                                       *)
FreeName(t, n) == Named(n) \subseteq {t}
FreeSlug(t, s) == Holding(s) \subseteq {t}

(* update_tenant.                                                          *)
UpdateTenant(w) ==
    /\ Free(w)
    /\ \E t \in Existing, n \in TenantNames, a \in BOOLEAN :
          /\ FreeName(t, n)
          /\ Ask(w, [op |-> "rename", id |-> t, name |-> n, active |-> a, slug |-> {},
                     read |-> tenants[t], fresh |-> TRUE])
    /\ UNCHANGED houses

(* The acting condominium, which is active; who acts is left open.         *)
Acting == {t \in Existing : tenants[t].active}

(* update_profile, with a typed slug.                                      *)
SaveProfile(w) ==
    /\ Free(w)
    /\ \E t \in Acting, n \in TenantNames, s \in Slugs :
          /\ FreeSlug(t, s) /\ FreeName(t, n)
          /\ Ask(w, [op |-> "rename", id |-> t, name |-> n, active |-> tenants[t].active,
                     slug |-> {s} \ {tenants[t].slug}, read |-> tenants[t], fresh |-> TRUE])
    /\ UNCHANGED houses

(* The commit of the name, which a slug follows in a commit of its own.    *)
Updated(w) ==
    /\ Serving(w, "rename") /\ FreeName(req[w].id, req[w].name)
    /\ tenants' = [tenants EXCEPT
          ![req[w].id].name = Column(req[w].name, req[w].read.name, @),
          ![req[w].id].active = Column(req[w].active, req[w].read.active, @)]
    /\ Wrote(w, IF req[w].slug \subseteq {tenants[req[w].id].slug} THEN IdleReq
                ELSE [req[w] EXCEPT !.op = "slug"])
    /\ UNCHANGED <<roles, cut>>
UpdateRefused(w) ==
    /\ Serving(w, "rename") /\ ~FreeName(req[w].id, req[w].name)
    /\ Answer(w) /\ UNCHANGED houses

Slug(w) == CHOOSE s \in req[w].slug : TRUE
SlugWritten(w) ==
    /\ Serving(w, "slug") /\ FreeSlug(req[w].id, Slug(w))
    /\ tenants' = [tenants EXCEPT ![req[w].id].slug = Slug(w)]
    /\ Wrote(w, IdleReq) /\ UNCHANGED <<roles, cut>>
SlugRefused(w) ==
    /\ Serving(w, "slug") /\ ~FreeSlug(req[w].id, Slug(w))
    /\ Answer(w) /\ UNCHANGED houses

TenantsCrash(w) ==
    /\ cut' = IF Serving(w, "roles") THEN cut \cup {req[w].id} ELSE cut
    /\ Dies(w) /\ UNCHANGED <<tenants, roles>>

HouseEnds(w) ==
    \/ Created(w) \/ CreateAgain(w) \/ CreateRefused(w) \/ RolesEnsured(w)
    \/ Updated(w) \/ UpdateRefused(w) \/ SlugWritten(w) \/ SlugRefused(w)

TenantsNext == \E w \in Workers :
    Create(w) \/ UpdateTenant(w) \/ SaveProfile(w) \/ HouseEnds(w) \/ TenantsCrash(w)

TenantsSpec == TenantsInit /\ NoRequest /\ [][TenantsNext]_<<houses, req>>
-----------------------------------------------------------------------------
(* Once its checks have passed, a request is refused at a commit only when *)
(* another overtook it: "a refused slug stores nothing -- not even the     *)
(* name that rode along with it" holds of requests that nobody overtakes,  *)
(* and the suffix of a new slug is always free.                            *)
RefusedLateOnlyByRace ==
    [][\A w \in Workers :
          CreateRefused(w) \/ UpdateRefused(w) \/ SlugRefused(w) => ~req[w].fresh
      ]_<<houses, req>>

(* Every condominium has its roles, and no other got them, unless its      *)
(* creation is at them or died before.                                     *)
RolelessOnlyByCrash == \A t \in Existing :
    \/ {r.name : r \in Seen({t})} = LegacyRoles
    \/ t \in cut \/ \E w \in Workers : Serving(w, "roles") /\ req[w].id = t
=============================================================================
