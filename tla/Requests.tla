------------------------------ MODULE Requests ------------------------------
(* How the backend serves requests, for the modules that model its         *)
(* services.  A worker serves one request at a time in a session of its    *)
(* own, at READ COMMITTED and, unless a module says so, without row locks: *)
(* it reads committed rows and decides in one step, keeping in req[w] what *)
(* it read and needs again, and commits in a later step.  A request that   *)
(* is refused without a change of state is no step.                        *)
CONSTANT Workers

VARIABLE req        \* the request each worker is serving

IdleReq == [op |-> "idle"]
Free(w) == req[w] = IdleReq
Ask(w, r) == req' = [req EXCEPT ![w] = r]
Answer(w) == Ask(w, IdleReq)
Serving(w, op) == req[w].op = op
NoRequest == req = [w \in Workers |-> IdleReq]

(* SQLAlchemy writes a column when its value is not the one read.          *)
Column(new, read, now) == IF new = read THEN now ELSE new

(* Worker w ends its request and has written.  Where requests carry the    *)
(* auxiliary field fresh, it tells that nothing was written since the      *)
(* request read.                                                           *)
Overtake(w) ==
    req' = [v \in Workers |->
        IF v = w THEN IdleReq
        ELSE IF Free(v) THEN req[v] ELSE [req[v] EXCEPT !.fresh = FALSE]]

(* A request that dies leaves nothing of its open transaction.             *)
Dies(w) == ~Free(w) /\ Answer(w)
=============================================================================
