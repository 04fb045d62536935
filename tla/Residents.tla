----------------------------- MODULE Residents ------------------------------
(* The residents of lots and the accounts they are matched with            *)
(* (resident_service, and signing up in the auth endpoint).                *)
(* A person's CPF identifies it here; matching by e-mail is the same rule. *)
(* Bound: Entries (row ids).                                               *)
EXTENDS Requests

CONSTANTS Entries, Homes, Persons

VARIABLES
    entries,    \* Resident: id -> row or NoEntry
    accounts    \* persons with a User row

register == <<entries, accounts>>

NoAccount == "none"
NoEntry == [active |-> FALSE]
(* by is auxiliary: the worker that last wrote cpf.                        *)
Entry == [active : BOOLEAN, home : Homes, cpf : Persons,
          user : Persons \cup {NoAccount}, by : Workers]

Registered == {e \in Entries : entries[e] # NoEntry}
Current == {e \in Registered : entries[e].active}
SameCpf(home, cpf) == {e \in Current : entries[e].home = home /\ entries[e].cpf = cpf}

ResidentsInit ==
    /\ entries = [e \in Entries |-> NoEntry]
    /\ accounts = {}

(* A mistake: the CPF is only compared with inactive residents.            *)
EnterUnchecked(w) ==
    /\ Free(w)
    /\ \E h \in Homes, p \in Persons : Ask(w, [op |-> "enter", home |-> h,
          cpf |-> p, user |-> IF p \in accounts THEN p ELSE NoAccount])
    /\ UNCHANGED register

(* create_resident: no active resident of the lot has the CPF; the account *)
(* with the CPF, if there is one, is linked.                               *)
Enter(w) ==
    /\ Free(w)
    /\ \E h \in Homes, p \in Persons :
          /\ SameCpf(h, p) = {}
          /\ Ask(w, [op |-> "enter", home |-> h, cpf |-> p,
                     user |-> IF p \in accounts THEN p ELSE NoAccount])
    /\ UNCHANGED register

Entered(w) ==
    /\ Serving(w, "enter")
    /\ \E e \in Entries \ Registered : entries' = [entries EXCEPT ![e] =
          [active |-> TRUE, home |-> req[w].home, cpf |-> req[w].cpf,
           user |-> req[w].user, by |-> w]]
    /\ Answer(w)
    /\ UNCHANGED accounts

(* update_resident with a new CPF: the same check, the row left out.       *)
ChangeCpf(w) ==
    /\ Free(w)
    /\ \E e \in Current, p \in Persons :
          /\ p # entries[e].cpf
          /\ SameCpf(entries[e].home, p) \subseteq {e}
          /\ Ask(w, [op |-> "cpf", entry |-> e, cpf |-> p])
    /\ UNCHANGED register

CpfChanged(w) ==
    /\ Serving(w, "cpf")
    /\ entries' = [entries EXCEPT ![req[w].entry].cpf = req[w].cpf,
                                  ![req[w].entry].by = w]
    /\ Answer(w)
    /\ UNCHANGED accounts

(* deactivate_resident; link_user and unlink_user of an active resident.   *)
Deactivate(w) ==
    /\ Free(w)
    /\ \E e \in Current : entries' = [entries EXCEPT ![e].active = FALSE]
    /\ UNCHANGED <<accounts, req>>

LinkUser(w) ==
    /\ Free(w)
    /\ \E e \in Current, u \in accounts :
          entries[e].user # u /\ entries' = [entries EXCEPT ![e].user = u]
    /\ UNCHANGED <<accounts, req>>

UnlinkUser(w) ==
    /\ Free(w)
    /\ \E e \in Current : entries' = [entries EXCEPT ![e].user = NoAccount]
    /\ UNCHANGED <<accounts, req>>

(* Signing up commits the account (and its membership), then               *)
(* auto_link_user finds and links the unlinked active residents.           *)
SignUp(w) ==
    /\ Free(w)
    /\ \E p \in Persons \ accounts :
          accounts' = accounts \cup {p} /\ Ask(w, [op |-> "signup", user |-> p])
    /\ UNCHANGED entries

Matches(p) == {e \in Current : entries[e].user = NoAccount /\ entries[e].cpf = p}

FindResidents(w) ==
    /\ Serving(w, "signup")
    /\ Ask(w, [op |-> "autolink", user |-> req[w].user, found |-> Matches(req[w].user)])
    /\ UNCHANGED register

AutoLink(w) ==
    /\ Serving(w, "autolink")
    /\ entries' = [e \in Entries |-> IF e \in req[w].found
          THEN [entries[e] EXCEPT !.user = req[w].user] ELSE entries[e]]
    /\ Answer(w)
    /\ UNCHANGED accounts

ResidentsCrash(w) == Dies(w) /\ UNCHANGED register

ResidentsNext == \E w \in Workers :
    \/ Enter(w) \/ Entered(w) \/ ChangeCpf(w) \/ CpfChanged(w) \/ Deactivate(w)
    \/ LinkUser(w) \/ UnlinkUser(w) \/ SignUp(w) \/ FindResidents(w) \/ AutoLink(w)
    \/ ResidentsCrash(w)

ResidentsSpec ==
    ResidentsInit /\ NoRequest /\ [][ResidentsNext]_<<register, req>>
-----------------------------------------------------------------------------
(* Two active residents of a lot with one CPF were written by different    *)
(* workers, in overlapping requests: no table constraint backs the check   *)
(* that create_resident and update_resident make.                          *)
TwinsOnlyByRace ==
    \A d, e \in Current :
        d # e /\ entries[d].home = entries[e].home /\ entries[d].cpf = entries[e].cpf
            => entries[d].by # entries[e].by
=============================================================================
