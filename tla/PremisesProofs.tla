--------------------------- MODULE PremisesProofs ---------------------------
(* The gate, the register of residents and the facial readers, whatever the *)
(* number of rows and workers.  A visitor is inside twice, and a SINGLE     *)
(* authorization is used twice, only by check-ins of different workers; one *)
(* that is shut stays shut.  Two active residents of a lot with one CPF     *)
(* were written by different workers.  A template is of an approved photo.  *)
EXTENDS Gate, Residents, FaceAccess, TLAPS
-----------------------------------------------------------------------------
(* The gate.                                                                *)

GateTyped == GateTypeOK /\ req \in [Workers -> GateRequests]

(* Entries and requests name rows that exist.                              *)
RowsExist ==
    /\ \A l \in Logged : logs[l].auth \in Granted
    /\ \A w \in Workers :
          /\ req[w].op \in {"revoke", "expire", "checkin"} => req[w].auth \in Granted
          /\ Serving(w, "checkout") => req[w].log \in Logged

(* A SINGLE authorization that let somebody in is no longer ACTIVE.        *)
SingleSpent ==
    \A l \in Logged : auths[logs[l].auth].terms.single
                        => auths[logs[l].auth].status # "ACTIVE"

(* A worker about to let a visitor in saw neither an open entry of theirs  *)
(* nor a used SINGLE authorization: those there are by now are others'.    *)
OthersLetIn ==
    \A w \in Workers : Serving(w, "checkin") =>
        /\ \A l \in Logged : logs[l].open /\ logs[l].visitor = req[w].visitor
                                => logs[l].by # w
        /\ \A l \in Logged : logs[l].auth = req[w].auth /\ auths[req[w].auth].terms.single
                                => logs[l].by # w

GateInv ==
    /\ GateTyped /\ RowsExist /\ SingleSpent /\ OthersLetIn
    /\ InsideTwiceOnlyByRace /\ SingleReusedOnlyByRace

ShutStep ==
    \A a \in Granted : auths[a].status # "ACTIVE" => auths'[a].status # "ACTIVE"
-----------------------------------------------------------------------------
(* The shapes of the requests and the rows.                                *)
LEMMA GateShapes ==
    /\ \A r \in GateRequests :
          /\ r.op \in {"revoke", "expire", "checkin"} => r.auth \in Auths
          /\ r.op = "checkin" => r.visitor \in Visitors
          /\ r.op = "checkout" => r.log \in Logs
    /\ NoAuth \notin Auth /\ NoLog \notin Log
    /\ \A l \in Logs : [op |-> "checkout", log |-> l] \in GateRequests
    /\ \A a \in Auths :
          /\ [op |-> "revoke", auth |-> a] \in GateRequests
          /\ [op |-> "expire", auth |-> a] \in GateRequests
    /\ \A a \in Auths, v \in Visitors :
          /\ [op |-> "checkin", visitor |-> v, auth |-> a] \in GateRequests
          /\ \A w \in Workers :
                [open |-> TRUE, visitor |-> v, auth |-> a, by |-> w] \in Log
  BY DEF GateRequests, IdleReq, NoAuth, NoLog, Auth, Log

LEMMA GateRows ==
    ASSUME GateTyped
    PROVE  /\ \A a \in Granted : a \in Auths /\ auths[a] \in Auth
           /\ \A a \in Auths : auths[a] \in Auth => a \in Granted
           /\ \A l \in Logged : l \in Logs /\ logs[l] \in Log
           /\ \A l \in Logs : logs[l] \in Log => l \in Logged
  BY GateShapes DEF GateTyped, GateTypeOK, Granted, Logged

(* Shutting an authorization leaves its terms, and the other rows, alone.  *)
LEMMA Shutting ==
    ASSUME GateTyped, NEW a \in Granted, NEW st \in {"REVOKED", "EXPIRED"},
           auths' = [auths EXCEPT ![a].status = st]
    PROVE  /\ auths' \in [Auths -> Auth \cup {NoAuth}]
           /\ Granted' = Granted
           /\ \A b \in Granted : /\ auths'[b].terms = auths[b].terms
                                 /\ auths[b].status # "ACTIVE" => auths'[b].status # "ACTIVE"
           /\ auths'[a].status # "ACTIVE"
<1>1. a \in Auths /\ auths[a] \in Auth
  BY GateRows
<1>2. [auths[a] EXCEPT !.status = st] \in Auth
  BY <1>1 DEF Auth
<1>3. auths' = [auths EXCEPT ![a] = [auths[a] EXCEPT !.status = st]]
  BY <1>1 DEF GateTyped, GateTypeOK
<1>4. auths' \in [Auths -> Auth \cup {NoAuth}]
  BY <1>2, <1>3 DEF GateTyped, GateTypeOK
<1>5. \A b \in Auths : b # a => auths'[b] = auths[b]
  BY <1>3 DEF GateTyped, GateTypeOK
<1>6. auths'[a] = [auths[a] EXCEPT !.status = st]
  BY <1>1, <1>3 DEF GateTyped, GateTypeOK
<1>7. auths'[a].status = st /\ auths'[a].terms = auths[a].terms
  BY <1>1, <1>6 DEF Auth
<1>8. auths'[a] # NoAuth /\ auths[a] # NoAuth
  BY <1>1, <1>2, <1>6, GateShapes
<1>9. Granted' = Granted
  BY <1>1, <1>5, <1>8 DEF Granted
<1> QED
  BY <1>4, <1>5, <1>7, <1>9 DEF Granted

(* An authorization is shut, or nothing of them changes, and a request     *)
(* ends or begins that is no check-in.                                     *)
LEMMA NoLogEntry ==
    ASSUME GateInv, NEW w \in Workers, NEW r \in GateRequests,
           req' = [req EXCEPT ![w] = r], r.op # "checkin",
           r.op \in {"revoke", "expire"} => r.auth \in Granted,
           r.op = "checkout" => r.log \in Logged,
           UNCHANGED <<hour, logs>>,
           \/ auths' = auths
           \/ \E a \in Granted, st \in {"REVOKED", "EXPIRED"} :
                 auths' = [auths EXCEPT ![a].status = st]
    PROVE  GateInv' /\ ShutStep
<1> USE DEF GateInv
<1>1. /\ auths' \in [Auths -> Auth \cup {NoAuth}]
      /\ Granted' = Granted
      /\ \A b \in Granted : /\ auths'[b].terms = auths[b].terms
                            /\ auths[b].status # "ACTIVE" => auths'[b].status # "ACTIVE"
  <2>1. CASE auths' = auths
    BY <2>1 DEF GateTyped, GateTypeOK, Granted
  <2>2. CASE \E a \in Granted, st \in {"REVOKED", "EXPIRED"} :
                auths' = [auths EXCEPT ![a].status = st]
    BY <2>2, Shutting
  <2> QED
    BY <2>1, <2>2
<1>2. Logged' = Logged /\ logs' = logs
  BY DEF Logged
<1>3. GateTyped'
  BY <1>1 DEF GateTyped, GateTypeOK
<1>4. req'[w] = r /\ \A v \in Workers : v # w => req'[v] = req[v]
  BY DEF GateTyped
<1>5. RowsExist'
  BY <1>1, <1>2, <1>4 DEF RowsExist, Serving
<1>6. SingleSpent'
  BY <1>1, <1>2 DEF SingleSpent, RowsExist
<1>7. OthersLetIn'
  <2> SUFFICES ASSUME NEW v \in Workers, Serving(v, "checkin")'
               PROVE  /\ \A l \in Logged : logs[l].open /\ logs[l].visitor = req[v].visitor
                                              => logs[l].by # v
                      /\ \A l \in Logged : logs[l].auth = req[v].auth
                                              /\ auths'[req[v].auth].terms.single
                                              => logs[l].by # v
                      /\ req'[v] = req[v]
    BY <1>2 DEF OthersLetIn
  <2>1. v # w /\ req'[v] = req[v] /\ Serving(v, "checkin")
    BY <1>4 DEF Serving
  <2>2. req[v].auth \in Granted
    BY <2>1 DEF RowsExist, Serving
  <2> QED
    BY <1>1, <2>1, <2>2 DEF OthersLetIn
<1>8. InsideTwiceOnlyByRace'
  BY <1>2 DEF InsideTwiceOnlyByRace
<1>9. SingleReusedOnlyByRace'
  BY <1>1, <1>2 DEF SingleReusedOnlyByRace, RowsExist
<1> QED
  BY <1>1, <1>3, <1>5, <1>6, <1>7, <1>8, <1>9 DEF ShutStep
-----------------------------------------------------------------------------
LEMMA GateStart == GateInit /\ NoRequest => GateInv
  BY DEF GateInit, NoRequest, GateInv, GateTyped, GateTypeOK, GateRequests, RowsExist,
         SingleSpent, OthersLetIn, InsideTwiceOnlyByRace, SingleReusedOnlyByRace,
         Granted, Logged, Serving, IdleReq

(* check_in, up to its commit: nobody of the visitor is inside, and an     *)
(* ACTIVE authorization is no used SINGLE one.                             *)
LEMMA CheckInKeeps ==
    ASSUME GateInv, NEW w \in Workers, CheckIn(w)
    PROVE  GateInv' /\ ShutStep
<1> USE DEF GateInv
<1>0. UNCHANGED gate /\ UNCHANGED <<hour, auths, logs>>
  BY DEF CheckIn, gate
<1>1. ASSUME NEW a \in Granted, Ask(w, [op |-> "expire", auth |-> a])
      PROVE  GateInv' /\ ShutStep
  <2>1. [op |-> "expire", auth |-> a] \in GateRequests
    BY GateRows, GateShapes
  <2> QED
    BY <1>0, <1>1, <2>1, NoLogEntry DEF Ask
<1>2. ASSUME NEW v \in Visitors, OpenLogs(v) = {}, NEW a \in Granted, Admits(a),
             Ask(w, [op |-> "checkin", visitor |-> v, auth |-> a])
      PROVE  GateInv' /\ ShutStep
  <2> DEFINE r == [op |-> "checkin", visitor |-> v, auth |-> a]
  <2>1. r \in GateRequests
    BY GateRows, GateShapes
  <2>2. req'[w] = r /\ \A u \in Workers : u # w => req'[u] = req[u]
    BY <1>2 DEF Ask, GateTyped
  <2>3. GateTyped'
    BY <1>0, <1>2, <2>1 DEF Ask, GateTyped, GateTypeOK
  <2>4. Granted' = Granted /\ Logged' = Logged
    BY <1>0 DEF Granted, Logged
  <2>5. RowsExist'
    BY <1>0, <2>2, <2>4 DEF RowsExist, Serving
  <2>6. \A l \in Logged : /\ ~(logs[l].open /\ logs[l].visitor = v)
                          /\ logs[l].auth = a => ~auths[a].terms.single
    BY <1>2 DEF OpenLogs, Admits, SingleSpent
  <2>7. OthersLetIn'
    BY <1>0, <2>2, <2>4, <2>6 DEF OthersLetIn, Serving
  <2>8. SingleSpent' /\ InsideTwiceOnlyByRace' /\ SingleReusedOnlyByRace'
    BY <1>0, <2>4 DEF SingleSpent, InsideTwiceOnlyByRace, SingleReusedOnlyByRace
  <2> QED
    BY <1>0, <2>3, <2>5, <2>7, <2>8 DEF ShutStep
<1> QED
  BY <1>1, <1>2 DEF CheckIn

(* The commit of check_in adds an entry of w, and spends a SINGLE one.     *)
LEMMA CheckedInKeeps ==
    ASSUME GateInv, NEW w \in Workers, CheckedIn(w)
    PROVE  GateInv' /\ ShutStep
<1> USE DEF GateInv
<1> DEFINE a == req[w].auth
           row == NewLog(w)
<1>1. req[w] \in GateRequests /\ req[w].op = "checkin" /\ a \in Granted
  BY DEF CheckedIn, Serving, RowsExist, GateTyped
<1>2. row \in Log /\ row.visitor = req[w].visitor /\ row.auth = a /\ row.by = w
  BY <1>1, GateRows, GateShapes DEF NewLog
<1> PICK l \in Logs \ Logged : logs' = [logs EXCEPT ![l] = row]
  BY DEF CheckedIn
<1> HIDE DEF row
<1>3. /\ l \notin Logged
      /\ logs'[l] = row
      /\ \A m \in Logs : m # l => logs'[m] = logs[m]
      /\ logs' \in [Logs -> Log \cup {NoLog}]
  BY <1>2 DEF GateTyped, GateTypeOK
<1>4. Logged' = Logged \cup {l}
  BY <1>2, <1>3, GateShapes DEF Logged
<1>5. /\ auths' \in [Auths -> Auth \cup {NoAuth}]
      /\ Granted' = Granted
      /\ \A b \in Granted : /\ auths'[b].terms = auths[b].terms
                            /\ auths[b].status # "ACTIVE" => auths'[b].status # "ACTIVE"
      /\ auths[a].terms.single => auths'[a].status # "ACTIVE"
  <2>1. CASE auths[a].terms.single
    <3>1. auths' = [auths EXCEPT ![a].status = "EXPIRED"]
      BY <2>1 DEF CheckedIn
    <3> QED
      BY <1>1, <3>1, Shutting
  <2>2. CASE ~auths[a].terms.single
    BY <2>2 DEF CheckedIn, GateTyped, GateTypeOK, Granted
  <2> QED
    BY <2>1, <2>2
<1>6. req'[w] = IdleReq /\ \A v \in Workers : v # w => req'[v] = req[v]
  BY DEF CheckedIn, Answer, Ask, GateTyped
<1>7. GateTyped'
  BY <1>3, <1>5, <1>6 DEF CheckedIn, Answer, Ask, GateTyped, GateTypeOK, GateRequests
<1>8. RowsExist'
  BY <1>1, <1>2, <1>3, <1>4, <1>5, <1>6, GateRows DEF RowsExist, Serving, IdleReq
<1>9. SingleSpent'
  BY <1>1, <1>2, <1>3, <1>4, <1>5, GateRows DEF SingleSpent, RowsExist
<1>10. \A v \in Workers : Serving(v, "checkin")' => v # w /\ Serving(v, "checkin")
  BY <1>6 DEF Serving, IdleReq
<1>11. OthersLetIn'
  <2> SUFFICES ASSUME NEW v \in Workers, Serving(v, "checkin")', NEW m \in Logged'
               PROVE  /\ logs'[m].open /\ logs'[m].visitor = req'[v].visitor
                            => logs'[m].by # v
                      /\ logs'[m].auth = req'[v].auth /\ auths'[req'[v].auth].terms.single
                            => logs'[m].by # v
    BY DEF OthersLetIn
  <2>1. v # w /\ Serving(v, "checkin") /\ req'[v] = req[v]
    BY <1>6, <1>10
  <2>2. CASE m = l
    BY <2>1, <2>2, <1>2, <1>3
  <2>3. CASE m # l
    <3>1. m \in Logged /\ logs'[m] = logs[m]
      BY <2>3, <1>3, <1>4, GateRows
    <3>2. req[v].auth \in Granted
      BY <2>1 DEF RowsExist, Serving
    <3> QED
      BY <2>1, <3>1, <3>2, <1>5 DEF OthersLetIn
  <2> QED
    BY <2>2, <2>3
<1>12. \A m \in Logged : /\ logs'[m] = logs[m]
                         /\ logs[m].open /\ logs[m].visitor = req[w].visitor => logs[m].by # w
                         /\ logs[m].auth = a /\ auths[a].terms.single => logs[m].by # w
  BY <1>1, <1>3, GateRows DEF OthersLetIn, Serving
<1>13. InsideTwiceOnlyByRace'
  BY <1>2, <1>3, <1>4, <1>12 DEF InsideTwiceOnlyByRace
<1>14. SingleReusedOnlyByRace'
  BY <1>1, <1>2, <1>3, <1>4, <1>5, <1>12 DEF SingleReusedOnlyByRace, RowsExist
<1> QED
  BY <1>5, <1>7, <1>8, <1>9, <1>11, <1>13, <1>14 DEF ShutStep

(* check_out closes an entry.                                              *)
LEMMA CheckedOutKeeps ==
    ASSUME GateInv, NEW w \in Workers, CheckedOut(w)
    PROVE  GateInv' /\ ShutStep
<1> USE DEF GateInv
<1> DEFINE l == req[w].log
           row == [logs[l] EXCEPT !.open = FALSE]
<1>1. l \in Logged /\ l \in Logs /\ logs[l] \in Log
  BY GateRows DEF CheckedOut, RowsExist
<1>2. /\ row \in Log /\ ~row.open
      /\ row.visitor = logs[l].visitor /\ row.auth = logs[l].auth /\ row.by = logs[l].by
  BY <1>1 DEF Log
<1>3. logs' = [logs EXCEPT ![l] = row]
  BY <1>1 DEF CheckedOut, GateTyped, GateTypeOK
<1> HIDE DEF row
<1>4. /\ logs' \in [Logs -> Log \cup {NoLog}]
      /\ logs'[l] = row
      /\ \A m \in Logs : m # l => logs'[m] = logs[m]
  BY <1>1, <1>2, <1>3 DEF GateTyped, GateTypeOK
<1>5. Logged' = Logged
  BY <1>1, <1>2, <1>4, GateShapes DEF Logged
<1>6. \A m \in Logged : /\ logs'[m].visitor = logs[m].visitor
                        /\ logs'[m].auth = logs[m].auth /\ logs'[m].by = logs[m].by
                        /\ logs'[m].open => logs[m].open
  BY <1>2, <1>4, GateRows
<1>7. req'[w] = IdleReq /\ \A v \in Workers : v # w => req'[v] = req[v]
  BY DEF CheckedOut, Answer, Ask, GateTyped
<1>8. GateTyped' /\ auths' = auths /\ Granted' = Granted
  BY <1>4, <1>7 DEF CheckedOut, Answer, Ask, GateTyped, GateTypeOK, GateRequests, Granted
<1>9. RowsExist'
  BY <1>5, <1>6, <1>7, <1>8 DEF RowsExist, Serving, IdleReq
<1>10. OthersLetIn'
  BY <1>5, <1>6, <1>7, <1>8 DEF OthersLetIn, Serving, IdleReq
<1>11. SingleSpent' /\ InsideTwiceOnlyByRace' /\ SingleReusedOnlyByRace'
  BY <1>5, <1>6, <1>8 DEF SingleSpent, InsideTwiceOnlyByRace, SingleReusedOnlyByRace
<1> QED
  BY <1>8, <1>9, <1>10, <1>11 DEF ShutStep

(* create_authorization adds a row no entry or request names.              *)
LEMMA CreationKeeps ==
    ASSUME GateInv, NEW w \in Workers, CreateAuthorization(w)
    PROVE  GateInv' /\ ShutStep
<1> USE DEF GateInv
<1> PICK a \in Auths \ Granted, t \in Terms, ul \in LotAccess :
      auths' = [auths EXCEPT ![a] = [status |-> "ACTIVE", lot |-> ul[2], terms |-> t]]
  BY DEF CreateAuthorization
<1>1. [status |-> "ACTIVE", lot |-> ul[2], terms |-> t] \in Auth
  BY GateAssumption DEF Auth
<1>2. UNCHANGED <<hour, logs, req>> /\ Logged' = Logged
  BY DEF CreateAuthorization, Logged
<1>3. GateTyped'
  BY <1>1, <1>2 DEF GateTyped, GateTypeOK
<1>4. \A b \in Granted : b # a /\ auths'[b] = auths[b] /\ b \in Granted'
  BY DEF GateTyped, GateTypeOK, Granted
<1>5. RowsExist'
  BY <1>2, <1>4 DEF RowsExist, Serving
<1>6. OthersLetIn'
  BY <1>2, <1>4 DEF OthersLetIn, RowsExist, Serving
<1>7. SingleSpent' /\ InsideTwiceOnlyByRace' /\ SingleReusedOnlyByRace'
  BY <1>2, <1>4 DEF SingleSpent, RowsExist, InsideTwiceOnlyByRace, SingleReusedOnlyByRace
<1> QED
  BY <1>3, <1>4, <1>5, <1>6, <1>7 DEF ShutStep

LEMMA GateStep ==
    GateInv /\ [GateNext]_<<gate, req>> => GateInv' /\ ShutStep
<1> SUFFICES ASSUME GateInv, [GateNext]_<<gate, req>>
             PROVE  GateInv' /\ ShutStep
  OBVIOUS
<1>1. ASSUME GateTick \/ UNCHANGED <<gate, req>>
      PROVE  GateInv' /\ ShutStep
  <2>1. UNCHANGED <<auths, logs, req>> /\ hour' \in Nat
    BY <1>1 DEF GateTick, gate, GateInv, GateTyped, GateTypeOK
  <2> QED
    BY <2>1 DEF GateInv, GateTyped, GateTypeOK, RowsExist, SingleSpent, OthersLetIn,
                InsideTwiceOnlyByRace, SingleReusedOnlyByRace, ShutStep, Granted,
                Logged, Serving
<1>2. ASSUME NEW w \in Workers, Revoke(w)
      PROVE  GateInv' /\ ShutStep
  <2> PICK a \in Granted : Ask(w, [op |-> "revoke", auth |-> a])
    BY <1>2 DEF Revoke
  <2>1. [op |-> "revoke", auth |-> a] \in GateRequests
    BY GateRows, GateShapes DEF GateInv
  <2> QED
    BY <1>2, <2>1, NoLogEntry DEF Revoke, Ask, gate
<1>3. ASSUME NEW w \in Workers, Revoked(w) \/ Expired(w)
      PROVE  GateInv' /\ ShutStep
  <2>1. req[w].auth \in Granted
    BY <1>3 DEF Revoked, Expired, Serving, GateInv, RowsExist
  <2>2. \E a \in Granted, st \in {"REVOKED", "EXPIRED"} :
          auths' = [auths EXCEPT ![a].status = st]
    BY <1>3, <2>1 DEF Revoked, Expired
  <2>3. IdleReq \in GateRequests /\ IdleReq.op = "idle"
    BY DEF GateRequests, IdleReq
  <2> QED
    BY <1>3, <2>2, <2>3, NoLogEntry DEF Revoked, Expired, Answer, Ask
<1>4. ASSUME NEW w \in Workers, CheckOut(w)
      PROVE  GateInv' /\ ShutStep
  <2> PICK l \in Logged : Ask(w, [op |-> "checkout", log |-> l])
    BY <1>4 DEF CheckOut
  <2>1. [op |-> "checkout", log |-> l] \in GateRequests
    BY GateRows, GateShapes DEF GateInv
  <2> QED
    BY <1>4, <2>1, NoLogEntry DEF CheckOut, Ask, gate
<1>5. ASSUME NEW w \in Workers, GateCrash(w)
      PROVE  GateInv' /\ ShutStep
  <2>1. IdleReq \in GateRequests /\ IdleReq.op = "idle"
    BY DEF GateRequests, IdleReq
  <2> QED
    BY <1>5, <2>1, NoLogEntry DEF GateCrash, Dies, Answer, Ask, gate
<1> QED
  BY <1>1, <1>2, <1>3, <1>4, <1>5, CreationKeeps, CheckInKeeps, CheckedInKeeps,
     CheckedOutKeeps DEF GateNext
-----------------------------------------------------------------------------
(* The clock, the authorizations and the log keep their types.             *)
THEOREM GateTypeCorrect == GateSpec => []GateTypeOK
<1>1. GateInv => GateTypeOK
  BY DEF GateInv, GateTyped
<1> QED
  BY <1>1, GateStart, GateStep, PTL DEF GateSpec

(* check_in lets a visitor in twice only in requests of different workers. *)
THEOREM InsideOnce == GateSpec => []InsideTwiceOnlyByRace
<1>1. GateInv => InsideTwiceOnlyByRace
  BY DEF GateInv
<1> QED
  BY <1>1, GateStart, GateStep, PTL DEF GateSpec

(* check_in uses a SINGLE authorization again only in requests of          *)
(* different workers.                                                      *)
THEOREM SingleUsedOnce == GateSpec => []SingleReusedOnlyByRace
<1>1. GateInv => SingleReusedOnlyByRace
  BY DEF GateInv
<1> QED
  BY <1>1, GateStart, GateStep, PTL DEF GateSpec

(* No late commit makes a revoked or expired authorization ACTIVE again.   *)
THEOREM ShutStaysShut == GateSpec => ShutForGood
<1>1. ShutStep => [\A a \in Granted : auths[a].status # "ACTIVE"
                     => auths'[a].status # "ACTIVE"]_gate
  BY DEF ShutStep
<1> QED
  BY <1>1, GateStart, GateStep, PTL DEF GateSpec, ShutForGood

-----------------------------------------------------------------------------
(* The register of residents.                                               *)

ResidentsRequests == {IdleReq}
    \cup [op : {"enter"}, home : Homes, cpf : Persons, user : Persons \cup {NoAccount}]
    \cup [op : {"cpf"}, entry : Entries, cpf : Persons]
    \cup [op : {"signup"}, user : Persons]
    \cup [op : {"autolink"}, user : Persons, found : SUBSET Entries]

ResidentsTyped ==
    /\ entries \in [Entries -> Entry \cup {NoEntry}]
    /\ accounts \subseteq Persons
    /\ req \in [Workers -> ResidentsRequests]

(* Requests name rows that exist.                                          *)
EntriesExist ==
    \A w \in Workers :
        /\ Serving(w, "cpf") => req[w].entry \in Registered
        /\ Serving(w, "autolink") => req[w].found \subseteq Registered

(* A worker about to write a CPF saw no other active resident of the lot   *)
(* with it: those there are by now were written by others.                 *)
OthersWrote ==
    \A w \in Workers, d \in Current :
        /\ Serving(w, "enter") /\ entries[d].home = req[w].home
              /\ entries[d].cpf = req[w].cpf => entries[d].by # w
        /\ Serving(w, "cpf") /\ d # req[w].entry
              /\ entries[d].home = entries[req[w].entry].home
              /\ entries[d].cpf = req[w].cpf => entries[d].by # w

ResidentsInv == ResidentsTyped /\ EntriesExist /\ OthersWrote /\ TwinsOnlyByRace
-----------------------------------------------------------------------------
LEMMA ResidentsShapes ==
    /\ NoEntry \notin Entry /\ IdleReq \in ResidentsRequests
    /\ \A r \in ResidentsRequests :
          /\ r.op = "enter" => /\ r.home \in Homes /\ r.cpf \in Persons
                               /\ r.user \in Persons \cup {NoAccount}
          /\ r.op = "cpf" => r.entry \in Entries /\ r.cpf \in Persons
          /\ r.op = "signup" => r.user \in Persons
          /\ r.op = "autolink" => r.user \in Persons /\ r.found \subseteq Entries
  BY DEF NoEntry, Entry, IdleReq, ResidentsRequests

LEMMA EntryRows ==
    ASSUME ResidentsTyped
    PROVE  /\ \A e \in Registered : e \in Entries /\ entries[e] \in Entry
           /\ \A e \in Entries : entries[e] \in Entry => e \in Registered
           /\ Current \subseteq Registered
  BY ResidentsShapes DEF ResidentsTyped, Registered, Current

(* Nobody becomes an active resident and no CPF is written, and a request  *)
(* ends or begins that is to write none.                                   *)
LEMMA NoCpfWritten ==
    ASSUME ResidentsInv, NEW w \in Workers, NEW r \in ResidentsRequests,
           req' = [req EXCEPT ![w] = r], r.op \notin {"enter", "cpf"},
           r.op = "autolink" => r.found \subseteq Registered,
           entries' \in [Entries -> Entry \cup {NoEntry}], Registered' = Registered,
           accounts' \subseteq Persons,
           \A e \in Registered :
              /\ entries'[e].active => entries[e].active
              /\ entries'[e].home = entries[e].home
              /\ entries'[e].cpf = entries[e].cpf /\ entries'[e].by = entries[e].by
    PROVE  ResidentsInv'
<1> USE DEF ResidentsInv
<1>1. ResidentsTyped'
  BY DEF ResidentsTyped
<1>2. req'[w] = r /\ \A v \in Workers : v # w => req'[v] = req[v]
  BY DEF ResidentsTyped
<1>3. EntriesExist'
  BY <1>2 DEF EntriesExist, Serving
<1>4. \A d \in Current' : d \in Current /\ d \in Registered
  BY DEF Current
<1>5. OthersWrote'
  <2> SUFFICES ASSUME NEW v \in Workers, NEW d \in Current',
                      Serving(v, "enter")' \/ Serving(v, "cpf")'
               PROVE  /\ Serving(v, "enter")' /\ entries'[d].home = req'[v].home
                            /\ entries'[d].cpf = req'[v].cpf => entries'[d].by # v
                      /\ Serving(v, "cpf")' /\ d # req'[v].entry
                            /\ entries'[d].home = entries'[req'[v].entry].home
                            /\ entries'[d].cpf = req'[v].cpf => entries'[d].by # v
    BY DEF OthersWrote
  <2>1. v # w /\ req'[v] = req[v]
    BY <1>2 DEF Serving
  <2>2. Serving(v, "cpf") => entries'[req[v].entry].home = entries[req[v].entry].home
    BY DEF EntriesExist
  <2> QED
    BY <1>4, <2>1, <2>2 DEF OthersWrote, Serving
<1>6. TwinsOnlyByRace'
  BY <1>4 DEF TwinsOnlyByRace
<1> QED
  BY <1>1, <1>3, <1>5, <1>6

(* A request ends or begins and nothing is written.                        *)
LEMMA OnlyReq ==
    ASSUME ResidentsInv, NEW w \in Workers, NEW r \in ResidentsRequests,
           req' = [req EXCEPT ![w] = r], r.op \notin {"enter", "cpf"},
           r.op = "autolink" => r.found \subseteq Registered,
           UNCHANGED entries, accounts' \subseteq Persons
    PROVE  ResidentsInv'
<1>1. entries' \in [Entries -> Entry \cup {NoEntry}] /\ Registered' = Registered
  BY DEF ResidentsInv, ResidentsTyped, Registered
<1> QED
  BY <1>1, NoCpfWritten

(* Linking, unlinking or deactivating one active resident.                 *)
LEMMA OneRow ==
    ASSUME ResidentsInv, NEW w \in Workers, Free(w), NEW e \in Current, NEW row \in Entry,
           entries' = [entries EXCEPT ![e] = row],
           row.home = entries[e].home, row.cpf = entries[e].cpf, row.by = entries[e].by,
           UNCHANGED <<accounts, req>>
    PROVE  ResidentsInv'
<1> USE DEF ResidentsInv
<1>1. e \in Entries /\ entries[e] \in Entry /\ e \in Registered /\ entries[e].active
  BY EntryRows DEF Current
<1>2. entries' \in [Entries -> Entry \cup {NoEntry}]
  BY <1>1 DEF ResidentsTyped
<1>3. entries'[e] = row /\ \A d \in Entries : d # e => entries'[d] = entries[d]
  BY <1>1 DEF ResidentsTyped
<1>4. Registered' = Registered
  BY <1>1, <1>3, ResidentsShapes DEF Registered
<1>5. \A d \in Registered :
          /\ entries'[d].active => entries[d].active
          /\ entries'[d].home = entries[d].home
          /\ entries'[d].cpf = entries[d].cpf /\ entries'[d].by = entries[d].by
  BY <1>1, <1>3 DEF Registered
<1>6. req' = [req EXCEPT ![w] = IdleReq] /\ IdleReq.op = "idle" /\ accounts' \subseteq Persons
  BY DEF ResidentsTyped, Free, IdleReq
<1> QED
  BY <1>2, <1>4, <1>5, <1>6, ResidentsShapes, NoCpfWritten
-----------------------------------------------------------------------------
LEMMA ResidentsStart == ResidentsInit /\ NoRequest => ResidentsInv
  BY DEF ResidentsInit, NoRequest, ResidentsInv, ResidentsTyped, ResidentsRequests,
         EntriesExist, OthersWrote, TwinsOnlyByRace, Registered, Current, Serving, IdleReq

(* create_resident and update_resident, up to their commit: no other       *)
(* active resident of the lot has the CPF.                                 *)
LEMMA CheckKeeps ==
    ASSUME ResidentsInv, NEW w \in Workers, Enter(w) \/ ChangeCpf(w)
    PROVE  ResidentsInv'
<1> USE DEF ResidentsInv
<1>1. UNCHANGED <<entries, accounts>>
  BY DEF Enter, ChangeCpf, register
<1>2. Current' = Current /\ Registered' = Registered
  BY <1>1 DEF Current, Registered
<1>3. ASSUME NEW h \in Homes, NEW p \in Persons, SameCpf(h, p) = {},
             Ask(w, [op |-> "enter", home |-> h, cpf |-> p,
                     user |-> IF p \in accounts THEN p ELSE NoAccount])
      PROVE  ResidentsInv'
  <2> DEFINE r == [op |-> "enter", home |-> h, cpf |-> p,
                   user |-> IF p \in accounts THEN p ELSE NoAccount]
  <2>1. r \in ResidentsRequests /\ r.op = "enter" /\ r.home = h /\ r.cpf = p
    BY DEF ResidentsRequests
  <2>2. req' = [req EXCEPT ![w] = r]
    BY <1>3 DEF Ask
  <2> HIDE DEF r
  <2>3. req'[w] = r /\ \A v \in Workers : v # w => req'[v] = req[v]
    BY <2>2 DEF ResidentsTyped
  <2>4. ResidentsTyped'
    BY <1>1, <2>1, <2>2 DEF ResidentsTyped
  <2>5. EntriesExist'
    BY <1>2, <2>1, <2>3 DEF EntriesExist, Serving
  <2>6. OthersWrote'
    BY <1>1, <1>2, <1>3, <2>1, <2>3 DEF OthersWrote, Serving, SameCpf
  <2> QED
    BY <1>1, <1>2, <2>4, <2>5, <2>6 DEF TwinsOnlyByRace
<1>4. ASSUME NEW e \in Current, NEW p \in Persons, SameCpf(entries[e].home, p) \subseteq {e},
             Ask(w, [op |-> "cpf", entry |-> e, cpf |-> p])
      PROVE  ResidentsInv'
  <2> DEFINE r == [op |-> "cpf", entry |-> e, cpf |-> p]
  <2>1. r \in ResidentsRequests /\ r.op = "cpf" /\ r.entry = e /\ r.cpf = p
    BY EntryRows DEF ResidentsRequests
  <2>2. req' = [req EXCEPT ![w] = r]
    BY <1>4 DEF Ask
  <2> HIDE DEF r
  <2>3. req'[w] = r /\ \A v \in Workers : v # w => req'[v] = req[v]
    BY <2>2 DEF ResidentsTyped
  <2>4. ResidentsTyped'
    BY <1>1, <2>1, <2>2 DEF ResidentsTyped
  <2>5. EntriesExist'
    BY <1>2, <2>1, <2>3, EntryRows DEF EntriesExist, Serving
  <2>6. OthersWrote'
    BY <1>1, <1>2, <1>4, <2>1, <2>3 DEF OthersWrote, Serving, SameCpf
  <2> QED
    BY <1>1, <1>2, <2>4, <2>5, <2>6 DEF TwinsOnlyByRace
<1> QED
  BY <1>3, <1>4 DEF Enter, ChangeCpf

(* The commits: a row of w gets the CPF; those that have it are others'.   *)
LEMMA WriteKeeps ==
    ASSUME ResidentsInv, NEW w \in Workers, NEW e \in Entries, NEW row \in Entry,
           entries' = [entries EXCEPT ![e] = row], row.by = w, Answer(w), UNCHANGED accounts,
           e \in Registered => row.active = entries[e].active /\ row.home = entries[e].home,
           row.active => \A d \in Current : d # e /\ entries[d].home = row.home
                                              /\ entries[d].cpf = row.cpf => entries[d].by # w
    PROVE  ResidentsInv'
<1> USE DEF ResidentsInv
<1>1. entries'[e] = row /\ \A d \in Entries : d # e => entries'[d] = entries[d]
  BY DEF ResidentsTyped
<1>2. req' = [req EXCEPT ![w] = IdleReq]
  BY DEF Answer, Ask
<1>3. req'[w] = IdleReq /\ IdleReq.op = "idle" /\ \A v \in Workers : v # w => req'[v] = req[v]
  BY <1>2 DEF ResidentsTyped, IdleReq
<1>4. ResidentsTyped'
  BY <1>2, ResidentsShapes DEF ResidentsTyped
<1>5. Registered' = Registered \cup {e}
  BY <1>1, ResidentsShapes DEF Registered
<1>6. EntriesExist'
  BY <1>3, <1>5 DEF EntriesExist, Serving
<1>7. \A d \in Current' : d # e => d \in Current /\ entries'[d] = entries[d]
  BY <1>1, <1>5 DEF Current, Registered
<1>8. OthersWrote'
  <2> SUFFICES ASSUME NEW v \in Workers, NEW d \in Current',
                      Serving(v, "enter")' \/ Serving(v, "cpf")'
               PROVE  /\ Serving(v, "enter")' /\ entries'[d].home = req'[v].home
                            /\ entries'[d].cpf = req'[v].cpf => entries'[d].by # v
                      /\ Serving(v, "cpf")' /\ d # req'[v].entry
                            /\ entries'[d].home = entries'[req'[v].entry].home
                            /\ entries'[d].cpf = req'[v].cpf => entries'[d].by # v
    BY DEF OthersWrote
  <2>1. v # w /\ req'[v] = req[v]
    BY <1>3 DEF Serving
  <2>2. CASE d = e
    BY <1>1, <2>1, <2>2
  <2>3. CASE d # e
    <3>1. d \in Current /\ entries'[d] = entries[d]
      BY <1>7, <2>3
    <3>2. Serving(v, "cpf") => /\ req[v].entry \in Registered
                               /\ entries'[req[v].entry].home = entries[req[v].entry].home
      BY <1>1 DEF EntriesExist, Registered
    <3> QED
      BY <2>1, <3>1, <3>2 DEF OthersWrote, Serving
  <2> QED
    BY <2>2, <2>3
<1>9. TwinsOnlyByRace'
  <2>1. e \in Current' => row.active
    BY <1>1 DEF Current
  <2> QED
    BY <1>1, <1>7, <2>1 DEF TwinsOnlyByRace
<1> QED
  BY <1>4, <1>6, <1>8, <1>9

LEMMA ResidentsStep ==
    ResidentsInv /\ [ResidentsNext]_<<register, req>> => ResidentsInv'
<1> SUFFICES ASSUME ResidentsInv, [ResidentsNext]_<<register, req>>
             PROVE  ResidentsInv'
  OBVIOUS
<1> USE DEF ResidentsInv
<1>0. IdleReq \in ResidentsRequests /\ IdleReq.op = "idle"
  BY ResidentsShapes DEF IdleReq
<1>1. CASE UNCHANGED <<register, req>>
  BY <1>1 DEF register, ResidentsTyped, EntriesExist, OthersWrote, TwinsOnlyByRace,
              Registered, Current, Serving
<1>2. ASSUME NEW w \in Workers, Entered(w)
      PROVE  ResidentsInv'
  <2> PICK e \in Entries \ Registered : entries' = [entries EXCEPT ![e] =
          [active |-> TRUE, home |-> req[w].home, cpf |-> req[w].cpf,
           user |-> req[w].user, by |-> w]]
    BY <1>2 DEF Entered
  <2> DEFINE row == [active |-> TRUE, home |-> req[w].home, cpf |-> req[w].cpf,
                     user |-> req[w].user, by |-> w]
  <2>1. Serving(w, "enter") /\ Answer(w) /\ UNCHANGED accounts
    BY <1>2 DEF Entered
  <2>2. /\ req[w].home \in Homes /\ req[w].cpf \in Persons
        /\ req[w].user \in Persons \cup {NoAccount}
    BY <2>1, ResidentsShapes DEF ResidentsTyped, Serving
  <2>3. row \in Entry
    BY <2>2 DEF Entry
  <2>4. \A d \in Current : entries[d].home = row.home /\ entries[d].cpf = row.cpf
                             => entries[d].by # w
    BY <2>1 DEF OthersWrote
  <2>5. row.by = w
    OBVIOUS
  <2> HIDE DEF row
  <2>6. entries' = [entries EXCEPT ![e] = row]
    BY DEF row
  <2> QED
    BY <2>1, <2>3, <2>4, <2>5, <2>6, WriteKeeps, ZenonT(30)
<1>3. ASSUME NEW w \in Workers, CpfChanged(w)
      PROVE  ResidentsInv'
  <2> DEFINE e == req[w].entry
             row == [entries[e] EXCEPT !.cpf = req[w].cpf, !.by = w]
  <2>1. Serving(w, "cpf") /\ Answer(w) /\ UNCHANGED accounts
    BY <1>3 DEF CpfChanged
  <2>2. e \in Registered /\ e \in Entries /\ entries[e] \in Entry /\ req[w].cpf \in Persons
    BY <2>1, ResidentsShapes, EntryRows DEF EntriesExist, ResidentsTyped, Serving
  <2>3. /\ row \in Entry /\ row.by = w /\ row.cpf = req[w].cpf
        /\ row.active = entries[e].active /\ row.home = entries[e].home
    BY <2>2 DEF Entry
  <2>4. entries' = [entries EXCEPT ![e] = row]
    BY <1>3, <2>2 DEF CpfChanged, ResidentsTyped
  <2> HIDE DEF row
  <2>5. \A d \in Current : d # e /\ entries[d].home = row.home /\ entries[d].cpf = row.cpf
                             => entries[d].by # w
    BY <2>1, <2>3 DEF OthersWrote
  <2> HIDE DEF e
  <2> QED
    BY <2>1, <2>2, <2>3, <2>4, <2>5, WriteKeeps
<1>4. ASSUME NEW w \in Workers, Deactivate(w) \/ LinkUser(w) \/ UnlinkUser(w)
      PROVE  ResidentsInv'
  <2>1. PICK e \in Current, u \in Persons \cup {NoAccount} :
            \/ entries' = [entries EXCEPT ![e].active = FALSE]
            \/ entries' = [entries EXCEPT ![e].user = u]
    BY <1>4 DEF Deactivate, LinkUser, UnlinkUser, ResidentsTyped
  <2>2. Free(w) /\ UNCHANGED <<accounts, req>>
    BY <1>4 DEF Deactivate, LinkUser, UnlinkUser
  <2>3. e \in Entries /\ entries[e] \in Entry
    BY EntryRows
  <2>4. PICK row \in {[entries[e] EXCEPT !.active = FALSE], [entries[e] EXCEPT !.user = u]} :
            entries' = [entries EXCEPT ![e] = row]
    BY <2>1, <2>3 DEF ResidentsTyped
  <2>5. /\ row \in Entry /\ row.home = entries[e].home
        /\ row.cpf = entries[e].cpf /\ row.by = entries[e].by
    BY <2>3 DEF Entry
  <2> QED
    BY <2>2, <2>4, <2>5, OneRow
<1>5. ASSUME NEW w \in Workers, SignUp(w)
      PROVE  ResidentsInv'
  <2> PICK p \in Persons : /\ accounts' = accounts \cup {p}
                           /\ Ask(w, [op |-> "signup", user |-> p])
    BY <1>5 DEF SignUp
  <2>1. [op |-> "signup", user |-> p] \in ResidentsRequests
    BY DEF ResidentsRequests
  <2>2. UNCHANGED entries /\ accounts' \subseteq Persons
    BY <1>5 DEF SignUp, ResidentsTyped
  <2> QED
    BY <2>1, <2>2, OnlyReq DEF Ask
<1>6. ASSUME NEW w \in Workers, FindResidents(w)
      PROVE  ResidentsInv'
  <2> DEFINE r == [op |-> "autolink", user |-> req[w].user, found |-> Matches(req[w].user)]
  <2>1. req[w].user \in Persons
    BY <1>6, ResidentsShapes DEF FindResidents, Serving, ResidentsTyped
  <2>2. r.found \subseteq Registered /\ r.found \subseteq Entries
    BY EntryRows DEF Matches
  <2>3. r \in ResidentsRequests /\ r.op = "autolink"
    BY <2>1, <2>2 DEF ResidentsRequests
  <2>4. req' = [req EXCEPT ![w] = r] /\ UNCHANGED entries /\ accounts' \subseteq Persons
    BY <1>6 DEF FindResidents, Ask, register, ResidentsTyped
  <2> HIDE DEF r
  <2> QED
    BY <2>2, <2>3, <2>4, OnlyReq
<1>7. ASSUME NEW w \in Workers, AutoLink(w)
      PROVE  ResidentsInv'
  <2>1. req[w].found \subseteq Registered /\ req[w].user \in Persons
    BY <1>7, ResidentsShapes DEF AutoLink, EntriesExist, Serving, ResidentsTyped
  <2>2. entries' = [e \in Entries |-> IF e \in req[w].found
                       THEN [entries[e] EXCEPT !.user = req[w].user] ELSE entries[e]]
    BY <1>7 DEF AutoLink
  <2>3. \A e \in Entries : e \notin req[w].found => entries'[e] = entries[e]
    BY <2>2
  <2>4. \A e \in req[w].found : /\ e \in Entries /\ entries[e] \in Entry /\ e \in Registered
                                /\ entries'[e] = [entries[e] EXCEPT !.user = req[w].user]
    BY <2>1, <2>2, EntryRows
  <2>5. \A e \in req[w].found :
            /\ entries'[e] \in Entry
            /\ entries'[e].active = entries[e].active /\ entries'[e].home = entries[e].home
            /\ entries'[e].cpf = entries[e].cpf /\ entries'[e].by = entries[e].by
    BY <2>1, <2>4 DEF Entry
  <2>6. entries' \in [Entries -> Entry \cup {NoEntry}]
    BY <2>2, <2>3, <2>5 DEF ResidentsTyped
  <2>7. Registered' = Registered
    <3>1. \A e \in Entries : entries'[e] = NoEntry <=> entries[e] = NoEntry
      BY <2>3, <2>4, <2>5, ResidentsShapes
    <3> QED
      BY <3>1 DEF Registered
  <2>8. \A e \in Registered :
            /\ entries'[e].active => entries[e].active
            /\ entries'[e].home = entries[e].home
            /\ entries'[e].cpf = entries[e].cpf /\ entries'[e].by = entries[e].by
    BY <2>3, <2>5 DEF Registered
  <2>9. req' = [req EXCEPT ![w] = IdleReq] /\ accounts' \subseteq Persons
    BY <1>7 DEF AutoLink, Answer, Ask, ResidentsTyped
  <2> QED
    BY <1>0, <2>6, <2>7, <2>8, <2>9, NoCpfWritten
<1>8. ASSUME NEW w \in Workers, ResidentsCrash(w)
      PROVE  ResidentsInv'
  <2>1. req' = [req EXCEPT ![w] = IdleReq] /\ UNCHANGED entries /\ accounts' \subseteq Persons
    BY <1>8 DEF ResidentsCrash, Dies, Answer, Ask, register, ResidentsTyped
  <2> QED
    BY <1>0, <2>1, OnlyReq
<1> QED
  BY <1>1, <1>2, <1>3, <1>4, <1>5, <1>6, <1>7, <1>8, CheckKeeps DEF ResidentsNext
-----------------------------------------------------------------------------
(* create_resident and update_resident make twins only in requests of      *)
(* different workers, whatever is linked and deactivated meanwhile.        *)
THEOREM TwinsByRace == ResidentsSpec => []TwinsOnlyByRace
<1>1. ResidentsInv => TwinsOnlyByRace
  BY DEF ResidentsInv
<1> QED
  BY <1>1, ResidentsStart, ResidentsStep, PTL DEF ResidentsSpec
-----------------------------------------------------------------------------
(* The facial readers.                                                      *)

FaceTyped ==
    /\ photos \in [Photos -> Photo \cup {NoPhoto, Gone}]
    /\ template \in [People -> Photos \cup {NoPhoto}]
    /\ req = [w \in Workers |-> req[w]]

(* The photo a sync read is still an approved one, or is deleted by now.    *)
SyncsVetted ==
    \A w \in Workers : Serving(w, "sync") =>
        /\ req[w].photo \in Photos
        /\ \/ photos[req[w].photo] = Gone
           \/ req[w].photo \in Uploaded /\ photos[req[w].photo].vetted

ApprovedVetted == \A p \in Uploaded : photos[p].status = "APPROVED" => photos[p].vetted

FaceInv == FaceTyped /\ SyncsVetted /\ ApprovedVetted /\ EnrolledFromVetted

LEMMA PhotoShape ==
    ASSUME FaceTyped, NEW p \in Uploaded
    PROVE  p \in Photos /\ photos[p] \in Photo
  BY DEF FaceTyped, Uploaded

LEMMA PhotoNone == NoPhoto \notin Photo /\ Gone \notin Photo /\ NoPhoto # Gone
  BY DEF NoPhoto, Gone, Photo

LEMMA FaceStart == FaceInit /\ NoRequest => FaceInv
  BY DEF FaceInit, NoRequest, FaceInv, FaceTyped, SyncsVetted, ApprovedVetted,
         EnrolledFromVetted, Enrolled, Serving, IdleReq, Uploaded

(* A step that hands its worker no sync and touches no photo.               *)
LEMMA PhotosAlone ==
    ASSUME FaceInv, NEW w \in Workers, NEW r, r.op = "sync" => r = req[w], Ask(w, r),
           UNCHANGED <<photos, template>>
    PROVE  FaceInv'
<1>1. \A v \in Workers : req'[v] = IF v = w THEN r ELSE req[v]
  BY DEF FaceInv, FaceTyped, Ask
<1>2. FaceTyped'
  BY DEF FaceInv, FaceTyped, Ask
<1>3. SyncsVetted'
  BY <1>1 DEF FaceInv, SyncsVetted, Serving, Uploaded
<1>4. EnrolledFromVetted' /\ ApprovedVetted'
  BY DEF FaceInv, EnrolledFromVetted, ApprovedVetted, Enrolled, Uploaded
<1> QED
  BY <1>2, <1>3, <1>4 DEF FaceInv

(* A step that writes one photo and keeps whose it is and that it was       *)
(* approved.                                                                *)
LEMMA PhotoWritten ==
    ASSUME FaceInv, NEW p \in Photos, photos[p] # Gone, NEW row \in Photo,
           photos' = [photos EXCEPT ![p] = row],
           row.status = "APPROVED" => row.vetted,
           p \in Uploaded =>
              row.of = photos[p].of /\ (photos[p].vetted => row.vetted),
           UNCHANGED <<template, req>>
    PROVE  FaceInv'
<1>1. /\ photos'[p] = row
      /\ \A q \in Photos : q # p => photos'[q] = photos[q]
  BY DEF FaceInv, FaceTyped
<1>2. Uploaded' = Uploaded \cup {p}
  BY <1>1, PhotoNone DEF Uploaded
<1>3. FaceTyped'
  BY DEF FaceInv, FaceTyped
<1>4. ASSUME NEW q \in Uploaded
      PROVE  /\ q \in Uploaded' /\ photos'[q].of = photos[q].of
             /\ photos[q].vetted => photos'[q].vetted
  BY <1>1, <1>2 DEF Uploaded
<1>5. SyncsVetted'
  BY <1>1, <1>4 DEF FaceInv, SyncsVetted, Serving
<1>6. EnrolledFromVetted'
  BY <1>4 DEF FaceInv, EnrolledFromVetted, Enrolled
<1>7. ApprovedVetted'
  BY <1>1, <1>2 DEF FaceInv, ApprovedVetted, Uploaded
<1> QED
  BY <1>3, <1>5, <1>6, <1>7 DEF FaceInv

LEMMA FaceStep == FaceInv /\ [FaceNext]_<<faces, req>> => FaceInv'
<1> SUFFICES ASSUME FaceInv, [FaceNext]_<<faces, req>>
             PROVE  FaceInv'
  OBVIOUS
<1> USE DEF faces
<1>0. CASE UNCHANGED <<faces, req>>
  BY <1>0 DEF FaceInv, FaceTyped, SyncsVetted, ApprovedVetted, EnrolledFromVetted,
              Enrolled, Uploaded, Serving
<1>1. ASSUME NEW w \in Workers, Upload(w)
      PROVE  FaceInv'
  <2>1. PICK p \in Photos, r \in People, auto \in BOOLEAN :
           /\ photos[p] = NoPhoto
           /\ photos' = [photos EXCEPT ![p] =
                [of |-> r, vetted |-> auto,
                 status |-> IF auto THEN "APPROVED" ELSE "PENDING_APPROVAL"]]
    BY <1>1 DEF Upload
  <2> DEFINE row == [of |-> r, vetted |-> auto,
                     status |-> IF auto THEN "APPROVED" ELSE "PENDING_APPROVAL"]
  <2>2. row \in Photo /\ (row.status = "APPROVED" => row.vetted)
    BY DEF Photo
  <2>3. p \notin Uploaded /\ photos[p] # Gone
    BY <2>1, PhotoNone DEF Uploaded
  <2> HIDE DEF row
  <2> QED
    BY <1>1, <2>1, <2>2, <2>3, PhotoWritten DEF Upload, row
<1>2. ASSUME NEW w \in Workers, Approve(w)
      PROVE  FaceInv'
  <2>1. PICK p \in Uploaded :
           photos' = [photos EXCEPT ![p].status = "APPROVED", ![p].vetted = TRUE]
    BY <1>2 DEF Approve
  <2>2. p \in Photos /\ photos[p] \in Photo /\ photos[p] # Gone
    BY PhotoShape, PhotoNone DEF FaceInv
  <2>3. PICK row : row = [photos[p] EXCEPT !.status = "APPROVED", !.vetted = TRUE]
    OBVIOUS
  <2>4. row \in Photo /\ row.of = photos[p].of /\ row.vetted
    BY <2>2, <2>3 DEF Photo
  <2>5. photos' = [photos EXCEPT ![p] = row]
    BY <2>1, <2>2, <2>3 DEF FaceInv, FaceTyped
  <2> QED
    BY <1>2, <2>2, <2>4, <2>5, PhotoWritten DEF Approve
<1>3. ASSUME NEW w \in Workers, Reject(w)
      PROVE  FaceInv'
  <2>1. PICK p \in Uploaded : photos' = [photos EXCEPT ![p].status = "REJECTED"]
    BY <1>3 DEF Reject
  <2>2. p \in Photos /\ photos[p] \in Photo /\ photos[p] # Gone
    BY PhotoShape, PhotoNone DEF FaceInv
  <2>3. PICK row : row = [photos[p] EXCEPT !.status = "REJECTED"]
    OBVIOUS
  <2>4. /\ row \in Photo /\ row.of = photos[p].of /\ row.vetted = photos[p].vetted
        /\ row.status = "REJECTED"
    BY <2>2, <2>3 DEF Photo
  <2>5. photos' = [photos EXCEPT ![p] = row]
    BY <2>1, <2>3 DEF FaceInv, FaceTyped
  <2> QED
    BY <1>3, <2>2, <2>4, <2>5, PhotoWritten DEF Reject
<1>4. ASSUME NEW w \in Workers, DeletePhoto(w)
      PROVE  FaceInv'
  <2>1. PICK p \in Uploaded :
           /\ photos' = [photos EXCEPT ![p] = Gone]
           /\ template' = [r \in People |->
                 IF template[r] = p THEN NoPhoto ELSE template[r]]
           /\ req' = req
    BY <1>4 DEF DeletePhoto
  <2>2. /\ photos'[p] = Gone
        /\ \A q \in Photos : q # p => photos'[q] = photos[q]
    BY <2>1, PhotoShape DEF FaceInv, FaceTyped
  <2>3. Uploaded' = Uploaded \ {p}
    BY <2>2 DEF Uploaded
  <2>4. FaceTyped'
    BY <2>1 DEF FaceInv, FaceTyped
  <2>5. SyncsVetted'
    BY <2>1, <2>2, <2>3 DEF FaceInv, SyncsVetted, Serving
  <2>6. EnrolledFromVetted'
    BY <2>1, <2>2, <2>3 DEF FaceInv, FaceTyped, EnrolledFromVetted, Enrolled, Uploaded
  <2>7. ApprovedVetted'
    BY <2>2, <2>3 DEF FaceInv, ApprovedVetted, Uploaded
  <2> QED
    BY <2>4, <2>5, <2>6, <2>7 DEF FaceInv
<1>5. ASSUME NEW w \in Workers, Sync(w)
      PROVE  FaceInv'
  <2>1. PICK p \in Uploaded :
           /\ photos[p].status = "APPROVED"
           /\ Ask(w, [op |-> "sync", photo |-> p, had |-> Enrolled(photos[p].of)])
    BY <1>5 DEF Sync
  <2>2. PICK r : r = [op |-> "sync", photo |-> p, had |-> Enrolled(photos[p].of)]
    OBVIOUS
  <2>3. r.op = "sync" /\ r.photo = p /\ p \in Photos /\ photos[p].vetted
    BY <2>1, <2>2, PhotoShape DEF FaceInv, ApprovedVetted
  <2>4. \A v \in Workers : req'[v] = IF v = w THEN r ELSE req[v]
    BY <2>1, <2>2 DEF FaceInv, FaceTyped, Ask
  <2>5. UNCHANGED <<photos, template>>
    BY <1>5 DEF Sync
  <2>6. FaceTyped'
    BY <2>1, <2>5 DEF FaceInv, FaceTyped, Ask
  <2>7. SyncsVetted'
    BY <2>3, <2>4, <2>5 DEF FaceInv, SyncsVetted, Serving, Uploaded
  <2>8. EnrolledFromVetted' /\ ApprovedVetted'
    BY <2>5 DEF FaceInv, EnrolledFromVetted, ApprovedVetted, Enrolled, Uploaded
  <2> QED
    BY <2>6, <2>7, <2>8 DEF FaceInv
<1>6. ASSUME NEW w \in Workers, Synced(w)
      PROVE  FaceInv'
  <2>1. PICK p \in Uploaded :
           /\ p = req[w].photo /\ photos[p].vetted
           /\ template' = [template EXCEPT ![photos[p].of] = p]
           /\ req' = [req EXCEPT ![w] = IdleReq] /\ photos' = photos
    BY <1>6, PhotoNone DEF Synced, FaceInv, SyncsVetted, Answer, Ask, Uploaded
  <2>2. p \in Photos /\ photos[p].of \in People
    BY PhotoShape DEF FaceInv, Photo
  <2>3. FaceTyped'
    BY <2>1, <2>2 DEF FaceInv, FaceTyped
  <2>4. SyncsVetted'
    BY <2>1 DEF FaceInv, FaceTyped, SyncsVetted, Serving, Uploaded, IdleReq
  <2>5. EnrolledFromVetted' /\ ApprovedVetted'
    BY <2>1, <2>2 DEF FaceInv, FaceTyped, EnrolledFromVetted, ApprovedVetted, Enrolled,
                      Uploaded
  <2> QED
    BY <2>3, <2>4, <2>5 DEF FaceInv
<1>7. ASSUME NEW w \in Workers,
             Leave(w) \/ CreateDevice(w) \/ AdministerDevice(w)
      PROVE  FaceInv'
  <2>1. UNCHANGED <<photos, template, req>>
    BY <1>7 DEF Leave, CreateDevice, AdministerDevice
  <2> QED
    BY <2>1 DEF FaceInv, FaceTyped, SyncsVetted, ApprovedVetted, EnrolledFromVetted,
                Enrolled, Uploaded, Serving
<1>8. ASSUME NEW w \in Workers, Webhook(w)
      PROVE  FaceInv'
  <2>1. PICK r : r.op = "face" /\ Ask(w, r)
    BY <1>8 DEF Webhook
  <2> QED
    BY <1>8, <2>1, PhotosAlone DEF Webhook
<1>9. ASSUME NEW w \in Workers, Reported(w) \/ FaceCrash(w)
      PROVE  FaceInv'
  <2>1. IdleReq.op = "idle" /\ Ask(w, IdleReq) /\ UNCHANGED <<photos, template>>
    BY <1>9 DEF Reported, FaceCrash, Dies, Answer, IdleReq
  <2> QED
    BY <2>1, PhotosAlone
<1> QED
  BY <1>0, <1>1, <1>2, <1>3, <1>4, <1>5, <1>6, <1>7, <1>8, <1>9 DEF FaceNext

(* However approvals, rejections, deletions and syncs overlap: a facial     *)
(* template is of a photo that is there, of that resident and that somebody *)
(* approved (sync_facial_template, delete_photo).                           *)
THEOREM EnrolledAreVetted == FaceSpec => []EnrolledFromVetted
<1>1. FaceInv => EnrolledFromVetted
  BY DEF FaceInv
<1> QED
  BY <1>1, FaceStart, FaceStep, PTL DEF FaceSpec
=============================================================================
