-------------------------------- MODULE Gate --------------------------------
(* The gate (visitor_service): authorizations of visitors, and the log of  *)
(* who came in under them.                                                 *)
(*                                                                         *)
(* The clock counts moments; slots are the moments whose day of the week   *)
(* and shift an authorization allows.                                      *)
(* Bounds: Auths and Logs (row ids), MaxTime.                              *)
EXTENDS Naturals, Requests

CONSTANTS
    Auths, Logs,    \* row ids
    Visitors, Lots, Users,
    LotAccess,      \* <<user, lot>>: links, active residents, managers
    Terms,          \* what an authorization may grant: [single, from, until, slots]
    MaxTime

ASSUME GateAssumption ==
    MaxTime \in Nat /\ LotAccess \subseteq Users \X Lots

VARIABLES
    hour,           \* the clock
    auths,          \* VisitorAuthorization: id -> row or NoAuth
    logs            \* AccessLog: id -> row or NoLog

gate == <<hour, auths, logs>>

GateRequests == {IdleReq}
    \cup [op : {"revoke", "expire"}, auth : Auths]
    \cup [op : {"checkin"}, visitor : Visitors, auth : Auths]
    \cup [op : {"checkout"}, log : Logs]

NoAuth == [status |-> "none"]
NoLog == [open |-> FALSE]
Auth == [status : {"ACTIVE", "REVOKED", "EXPIRED"}, lot : Lots, terms : Terms]
(* by is auxiliary: the worker that wrote the row.                         *)
Log == [open : BOOLEAN, visitor : Visitors, auth : Auths, by : Workers]

Granted == {a \in Auths : auths[a] # NoAuth}
Logged == {l \in Logs : logs[l] # NoLog}
OpenLogs(v) == {l \in Logged : logs[l].open /\ logs[l].visitor = v}

GateInit ==
    /\ hour = 0
    /\ auths = [a \in Auths |-> NoAuth]
    /\ logs = [l \in Logs |-> NoLog]

GateTick == hour < MaxTime /\ hour' = hour + 1 /\ UNCHANGED <<auths, logs, req>>

(* create_authorization, by somebody with access to the lot.               *)
CreateAuthorization(w) ==
    /\ Free(w)
    /\ \E a \in Auths \ Granted, t \in Terms, ul \in LotAccess :
          auths' = [auths EXCEPT ![a] =
                [status |-> "ACTIVE", lot |-> ul[2], terms |-> t]]
    /\ UNCHANGED <<hour, logs, req>>

(* revoke_authorization looks at no status: read, then committed.          *)
Revoke(w) ==
    /\ Free(w)
    /\ \E a \in Granted : /\ \E ul \in LotAccess : ul[2] = auths[a].lot
                          /\ Ask(w, [op |-> "revoke", auth |-> a])
    /\ UNCHANGED gate

Revoked(w) ==
    /\ Serving(w, "revoke")
    /\ auths' = [auths EXCEPT ![req[w].auth].status = "REVOKED"]
    /\ Answer(w)
    /\ UNCHANGED <<hour, logs>>

Admits(a) ==
    /\ auths[a].status = "ACTIVE"
    /\ hour >= auths[a].terms.from /\ hour <= auths[a].terms.until
    /\ hour \in auths[a].terms.slots
RunOut(a) ==
    /\ auths[a].status = "ACTIVE"
    /\ hour >= auths[a].terms.from /\ hour > auths[a].terms.until

(* Mistakes: nobody looks for an open entry; the whole row is written.     *)
CheckInAnyway(w) ==
    /\ Free(w)
    /\ \E v \in Visitors, a \in Granted :
          Admits(a) /\ Ask(w, [op |-> "checkin", visitor |-> v, auth |-> a])
    /\ UNCHANGED gate

(* check_in, up to its commit: no open entry, and a valid authorization,   *)
(* the visitor's newest for the lot or the one whose id was scanned: that  *)
(* one may be any row, so it stands for both.                              *)
CheckIn(w) ==
    /\ Free(w)
    /\ \E v \in Visitors :
          /\ OpenLogs(v) = {}
          /\ \E a \in Granted :
                \/ Admits(a) /\ Ask(w, [op |-> "checkin", visitor |-> v, auth |-> a])
                \/ RunOut(a) /\ Ask(w, [op |-> "expire", auth |-> a])
    /\ UNCHANGED gate

(* A check-in after valid_until stores EXPIRED and is refused.             *)
Expired(w) ==
    /\ Serving(w, "expire")
    /\ auths' = [auths EXCEPT ![req[w].auth].status = "EXPIRED"]
    /\ Answer(w)
    /\ UNCHANGED <<hour, logs>>

NewLog(w) == [open |-> TRUE, visitor |-> req[w].visitor,
              auth |-> req[w].auth, by |-> w]

CheckedInWholeRow(w) ==
    /\ Serving(w, "checkin")
    /\ \E l \in Logs \ Logged : logs' = [logs EXCEPT ![l] = NewLog(w)]
    /\ auths' = [auths EXCEPT ![req[w].auth].status =
                    IF auths[req[w].auth].terms.single THEN "EXPIRED" ELSE "ACTIVE"]
    /\ Answer(w)
    /\ UNCHANGED hour

CheckedInReusable(w) ==
    /\ Serving(w, "checkin")
    /\ \E l \in Logs \ Logged : logs' = [logs EXCEPT ![l] = NewLog(w)]
    /\ Answer(w)
    /\ UNCHANGED <<hour, auths>>

(* The commit of check_in: the entry, and EXPIRED for a SINGLE one.        *)
CheckedIn(w) ==
    /\ Serving(w, "checkin")
    /\ \E l \in Logs \ Logged : logs' = [logs EXCEPT ![l] = NewLog(w)]
    /\ auths' = IF auths[req[w].auth].terms.single
                   THEN [auths EXCEPT ![req[w].auth].status = "EXPIRED"]
                   ELSE auths
    /\ Answer(w)
    /\ UNCHANGED hour

(* check_out: of a given open entry, or of any the visitor has.            *)
CheckOut(w) ==
    /\ Free(w)
    /\ \E v \in Visitors, l \in Logged :
          l \in OpenLogs(v) /\ Ask(w, [op |-> "checkout", log |-> l])
    /\ UNCHANGED gate

CheckedOut(w) ==
    /\ Serving(w, "checkout")
    /\ logs' = [logs EXCEPT ![req[w].log].open = FALSE]
    /\ Answer(w)
    /\ UNCHANGED <<hour, auths>>

GateCrash(w) == Dies(w) /\ UNCHANGED gate

GateNext ==
    \/ GateTick
    \/ \E w \in Workers :
          \/ CreateAuthorization(w) \/ Revoke(w) \/ Revoked(w) \/ CheckIn(w)
          \/ Expired(w) \/ CheckedIn(w) \/ CheckOut(w) \/ CheckedOut(w)
          \/ GateCrash(w)

GateSpec == GateInit /\ NoRequest /\ [][GateNext]_<<gate, req>>
-----------------------------------------------------------------------------
(* Properties.                                                             *)

(* The rows have their types; what the requests hold is GateRequests.      *)
GateTypeOK ==
    /\ hour \in Nat
    /\ auths \in [Auths -> Auth \cup {NoAuth}]
    /\ logs \in [Logs -> Log \cup {NoLog}]

(* A visitor inside twice was let in by check-ins that overlapped: no      *)
(* worker opens a second entry, whatever checks in and out in between.     *)
(* The open-entry check of check_in.                                       *)
InsideTwiceOnlyByRace ==
    \A l, m \in Logged :
        l # m /\ logs[l].open /\ logs[m].open /\ logs[l].visitor = logs[m].visitor
            => logs[l].by # logs[m].by

(* A SINGLE authorization used twice was used by check-ins that            *)
(* overlapped, however revocations, expiries and check-outs interleave.    *)
SingleReusedOnlyByRace ==
    \A l, m \in Logged :
        l # m /\ logs[l].auth = logs[m].auth /\ auths[logs[l].auth].terms.single
            => logs[l].by # logs[m].by

(* An authorization revoked or expired never admits again, though late     *)
(* commits of requests that read it ACTIVE still write its row.            *)
ShutForGood ==
    [][\A a \in Granted : auths[a].status # "ACTIVE"
          => auths'[a].status # "ACTIVE"]_gate
=============================================================================
