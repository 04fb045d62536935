---------------------------- MODULE Condominium -----------------------------
(* One condominium for TLC: the gate, the packages, the facial readers,    *)
(* the register of residents, the occurrences, the infractions, the        *)
(* subscription, the accounts with their roles, and the tasks shown to     *)
(* roles.  They share the workers and, but for the roles, no table, so a   *)
(* behaviour exercises one of them, chosen at the start: desk.             *)
EXTENDS Gate, Packages, FaceAccess, Residents, Occurrences, Infractions,
        Subscriptions, Tasks, TLC

CONSTANTS w1, w2, u1, u2, t1, t2, a1, a2, b1, b2, p1, p2, p3

VARIABLE desk

(* Row ids; one component at a time uses them.                             *)
OneWorker == {w1}
TwoWorkers == {w1, w2}
TwoIds == {a1, a2}
MoreIds == {b1, b2}

TwoUsers == {u1, u2}
TwoLots == {t1, t2}
OneLot == {t1}
Access == {<<u1, t1>>}
ShortTerms == {[single |-> TRUE, from |-> 0, until |-> 0, slots |-> {0}],
               [single |-> FALSE, from |-> 0, until |-> 1, slots |-> {0, 1}],
               [single |-> FALSE, from |-> 1, until |-> 1, slots |-> {0, 1}]}
Linked == (u1 :> {}) @@ (u2 :> {t1})
UserOne == {u1}
UserTwo == {u2}

(* The offender lives in t1, the occurrence names no lot; a ladder empty,  *)
(* or a notification with a day to answer and a fine in condominium fees.  *)
Home == "offender" :> t1
Located == "occurrence" :> NoLot
Rung(action, multiple, days) == [action |-> action, multiple |-> multiple, days |-> days]
ShortLadders == {<<>>, <<Rung("NOTIFICACAO", FALSE, 1), Rung("MULTA", TRUE, 0)>>}

(* Members edit accounts, roles and tasks; managers also do what only they *)
(* may.                                                                    *)
ThreeAccounts == {p1, p2, p3}
Others == {p2, p3}
OfMembers == {"users:update", "roles:update", "tasks:create", "tasks:read",
              "tasks:update"}
OfManagers == OfMembers \cup {"roles:create", "roles:delete", "tasks:read_all",
                              "tasks:update_any", "tasks:delete"}
RoleGrants == {OfMembers, OfManagers}

Interchangeable ==
    Permutations(TwoWorkers) \cup Permutations(TwoIds) \cup Permutations(MoreIds)
    \cup Permutations(Others)

deskVars ==
    <<gate, parcels, faces, register, tickets, book, contract, directory, tasks,
      req, desk>>

(* At the other desks nobody edits accounts.                               *)
DirectoryClosed ==
    /\ person = [p \in Accounts |-> [on |-> FALSE, super |-> FALSE, admin |-> FALSE]]
    /\ roles = {} /\ holds = {} /\ grants = [r \in RoleIds |-> {}] /\ writes = 0

DeskInit ==
    /\ desk \in {"gate", "packages", "faces", "residents", "occurrences",
                 "infractions", "subscription", "accounts", "tasks"}
    /\ NoRequest /\ GateInit /\ PackagesInit /\ FaceInit /\ ResidentsInit
    /\ OccurrencesInit /\ InfractionsInit /\ SubscriptionsInit
    /\ CASE desk = "accounts" -> AuthorityInit /\ Operates(p1) /\ NoTasks
                                 /\ grants[b1] # grants[b2]
         [] desk = "tasks" -> TasksInit /\ RolesOf(p1) = {}
         [] OTHER -> DirectoryClosed /\ NoTasks

AtGate == desk = "gate" /\ GateNext /\ UNCHANGED
    <<parcels, faces, register, tickets, book, contract, directory, tasks,
      desk>>
AtPackages == desk = "packages" /\ PackagesNext /\ UNCHANGED
    <<gate, faces, register, tickets, book, contract, directory, tasks,
      desk>>
AtReaders == desk = "faces" /\ FaceNext /\ UNCHANGED
    <<gate, parcels, register, tickets, book, contract, directory, tasks,
      desk>>
AtRegister == desk = "residents" /\ ResidentsNext /\ UNCHANGED
    <<gate, parcels, faces, tickets, book, contract, directory, tasks,
      desk>>
AtOccurrences == desk = "occurrences" /\ OccurrencesNext /\ UNCHANGED
    <<gate, parcels, faces, register, book, contract, directory, tasks,
      desk>>
AtInfractions == desk = "infractions" /\ InfractionsNext /\ UNCHANGED
    <<gate, parcels, faces, register, tickets, contract, directory, tasks,
      desk>>
AtSubscription == desk = "subscription" /\ SubscriptionsNext /\ UNCHANGED
    <<gate, parcels, faces, register, tickets, book, directory, tasks,
      desk>>
AtAccounts == desk = "accounts" /\ AuthorityNext /\ UNCHANGED
    <<gate, parcels, faces, register, tickets, book, contract, tasks, desk>>
AtTasks == desk = "tasks" /\ TasksNext /\ UNCHANGED
    <<gate, parcels, faces, register, tickets, book, contract, desk>>

DeskNext ==
    \/ AtGate \/ AtPackages \/ AtReaders \/ AtRegister
    \/ AtOccurrences \/ AtInfractions \/ AtSubscription \/ AtAccounts \/ AtTasks

DeskSpec == DeskInit /\ [][DeskNext]_deskVars

(* The subscription alone.                                                 *)
SubscriptionSpec == DeskInit /\ desk = "subscription" /\ [][AtSubscription]_deskVars
=============================================================================
