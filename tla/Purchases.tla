----------------------------- MODULE Purchases ------------------------------
(* One purchase request, its lines, the quotes that price them and the     *)
(* decisions that choose among them (purchase_service).  The files of the  *)
(* quotes are StoredFiles' subject.                                        *)
(* Bounds: Lines and Offers (row ids), MaxDecisions.                       *)
EXTENDS Naturals, FiniteSets, Requests

CONSTANTS Lines, Offers, MaxDecisions

ASSUME PurchasesAssumption == IsFiniteSet(Lines)

VARIABLES
    purchase,   \* PurchaseRequest: its status, or Deleted
    grid,       \* PurchaseRequestItem: line -> "new" | "in" | "out"
    offers,     \* PurchaseQuote: id -> its linked lines, NoOffer or Withdrawn
    decisions   \* PurchaseQuoteDecision: [offer, at]

purchases == <<purchase, grid, offers, decisions>>

Nobody == "nobody"
(* by is auxiliary: who wrote the status.                                  *)
Purchase == [status : {"OPEN", "DECIDED", "CANCELLED"}, by : Workers \cup {Nobody}]
Deleted == [status |-> "deleted", by |-> Nobody]
NoOffer == {"no quote"}
Withdrawn == {"deleted quote"}

Items == {l \in Lines : grid[l] = "in"}
Offered == {q \in Offers : offers[q] \notin {NoOffer, Withdrawn}}
Exists == purchase # Deleted

(* create_request.                                                         *)
PurchasesInit ==
    /\ purchase = [status |-> "OPEN", by |-> Nobody]
    /\ \E ls \in SUBSET Lines : grid = [l \in Lines |-> IF l \in ls THEN "in" ELSE "new"]
    /\ offers = [q \in Offers |-> NoOffer]
    /\ decisions = {}

(* _assert_quotes_unfrozen.                                                *)
Unfrozen == purchase.status = "OPEN"

(* update_request with a list of lines; without one nothing modelled here  *)
(* changes.  The lines it no longer has go with the cells that price them; *)
(* the deletion of one that another request deleted meanwhile is no error. *)
ReviseLines(w) ==
    /\ Free(w) /\ Unfrozen
    /\ \E cut \in SUBSET Items, more \in SUBSET {l \in Lines : grid[l] = "new"} :
          /\ cut \cup more # {}
          /\ Ask(w, [op |-> "revise", cut |-> cut, more |-> more])
    /\ UNCHANGED purchases

(* A mistake: cells of the lines that go are left in the quotes.           *)
LinesRevisedAlone(w) ==
    /\ Serving(w, "revise") /\ Exists
    /\ \A l \in req[w].more : grid[l] = "new"
    /\ grid' = [l \in Lines |-> CASE l \in req[w].cut -> "out"
                  [] l \in req[w].more -> "in" [] OTHER -> grid[l]]
    /\ Answer(w)
    /\ UNCHANGED <<purchase, offers, decisions>>

LinesRevised(w) ==
    /\ Serving(w, "revise") /\ Exists
    /\ \A l \in req[w].more : grid[l] = "new"
    /\ grid' = [l \in Lines |-> CASE l \in req[w].cut -> "out"
                  [] l \in req[w].more -> "in" [] OTHER -> grid[l]]
    /\ offers' = [q \in Offers |->
          IF q \in Offered THEN offers[q] \ req[w].cut ELSE offers[q]]
    /\ Answer(w)
    /\ UNCHANGED <<purchase, decisions>>

(* delete_request, in any status for who may decide.                       *)
DeleteRequest(w) ==
    /\ Free(w) /\ Exists
    /\ purchase' = Deleted /\ decisions' = {}
    /\ offers' = [q \in Offers |-> Withdrawn]
    /\ UNCHANGED <<grid, req>>

(* cancel_request.                                                         *)
Cancel(w) ==
    /\ Free(w) /\ purchase.status = "OPEN"
    /\ Ask(w, [op |-> "cancel"])
    /\ UNCHANGED purchases

Cancelled(w) ==
    /\ Serving(w, "cancel") /\ Exists
    /\ purchase' = [purchase EXCEPT !.status = "CANCELLED", !.by = w]
    /\ Answer(w)
    /\ UNCHANGED <<grid, offers, decisions>>

(* add_quote: every line it prices is one of the request's.                *)
AddQuote(w) ==
    /\ Free(w) /\ Unfrozen
    /\ \E ls \in SUBSET Items : Ask(w, [op |-> "quote", lines |-> ls])
    /\ UNCHANGED purchases

(* Foreign keys: the request and the lines are still there.                *)
QuoteAdded(w) ==
    /\ Serving(w, "quote") /\ Exists
    /\ req[w].lines \subseteq Items
    /\ \E q \in Offers : offers[q] = NoOffer /\ offers' = [offers EXCEPT ![q] = req[w].lines]
    /\ Answer(w)
    /\ UNCHANGED <<purchase, grid, decisions>>

(* update_quote and _replace_quote_items: rows of the lines it still has   *)
(* are kept, the others deleted or inserted.                               *)
ReviseQuote(w) ==
    /\ Free(w) /\ Unfrozen
    /\ \E q \in Offered, ls \in SUBSET Items : Ask(w,
          [op |-> "requote", offer |-> q, cut |-> offers[q] \ ls, more |-> ls \ offers[q]])
    /\ UNCHANGED purchases

QuoteRevised(w) ==
    /\ Serving(w, "requote") /\ req[w].offer \in Offered
    /\ LET cells == offers[req[w].offer] IN
          /\ req[w].more \subseteq Items \ cells
          /\ offers' = [offers EXCEPT ![req[w].offer] = (cells \ req[w].cut) \cup req[w].more]
    /\ Answer(w)
    /\ UNCHANGED <<purchase, grid, decisions>>

(* delete_quote; its decisions go with it (ON DELETE CASCADE).             *)
DeleteQuoteDecided(w) ==        \* a mistake: decided requests are not frozen
    /\ Free(w) /\ purchase.status # "CANCELLED"
    /\ \E q \in Offered : Ask(w, [op |-> "unquote", offer |-> q])
    /\ UNCHANGED purchases

WithdrawQuote(w) ==
    /\ Free(w) /\ Unfrozen
    /\ \E q \in Offered : Ask(w, [op |-> "unquote", offer |-> q])
    /\ UNCHANGED purchases

QuoteWithdrawn(w) ==
    /\ Serving(w, "unquote") /\ req[w].offer \in Offered
    /\ offers' = [offers EXCEPT ![req[w].offer] = Withdrawn]
    /\ decisions' = {d \in decisions : d.offer # req[w].offer}
    /\ Answer(w)
    /\ UNCHANGED <<purchase, grid>>

(* select_quote: not of a cancelled request; a decided one may be decided  *)
(* again, and then its status is not written.  decided_at is taken before  *)
(* the commit.                                                             *)
Stamps == {d.at : d \in decisions}
    \cup {req[v].at : v \in {u \in Workers : Serving(u, "select")}}

SelectAnyway(w) ==              \* a mistake: of a cancelled request too
    /\ Free(w) /\ Exists
    /\ \E q \in Offered, t \in (1 .. MaxDecisions) \ Stamps : Ask(w, [op |-> "select",
          offer |-> q, at |-> t, write |-> purchase.status # "DECIDED"])
    /\ UNCHANGED purchases

Select(w) ==
    /\ Free(w) /\ purchase.status \in {"OPEN", "DECIDED"}
    /\ \E q \in Offered, t \in 1 .. MaxDecisions :
          /\ \A s \in Stamps : s < t
          /\ Ask(w, [op |-> "select", offer |-> q, at |-> t,
                     write |-> purchase.status # "DECIDED"])
    /\ UNCHANGED purchases

Selected(w) ==
    /\ Serving(w, "select") /\ req[w].offer \in Offered
    /\ decisions' = decisions \cup {[offer |-> req[w].offer, at |-> req[w].at]}
    /\ purchase' = IF req[w].write
          THEN [purchase EXCEPT !.status = "DECIDED", !.by = w] ELSE purchase
    /\ Answer(w)
    /\ UNCHANGED <<grid, offers>>

PurchasesCrash(w) == Dies(w) /\ UNCHANGED purchases

PurchasesNext == \E w \in Workers :
    \/ ReviseLines(w) \/ LinesRevised(w) \/ DeleteRequest(w)
    \/ Cancel(w) \/ Cancelled(w)
    \/ AddQuote(w) \/ QuoteAdded(w) \/ ReviseQuote(w) \/ QuoteRevised(w)
    \/ WithdrawQuote(w) \/ QuoteWithdrawn(w) \/ Select(w) \/ Selected(w)
    \/ PurchasesCrash(w)

PurchasesSpec == PurchasesInit /\ NoRequest /\ [][PurchasesNext]_<<purchases, req>>
-----------------------------------------------------------------------------
(* The count of priced lines tells a complete quote: it equals the count   *)
(* of the request's lines only when they are the same lines, whatever the  *)
(* order in which lines and quotes were rewritten.                         *)
CompletePricesEveryLine ==
    \A q \in Offered : Cardinality(offers[q]) = Cardinality(Items) => offers[q] = Items

(* Once decided or cancelled, the status, the lines and the quotes change, *)
(* and a decision is lost, only by a deletion of it all, or by a worker    *)
(* other than the one that settled it, with a request that overlapped that.*)
SettledOnlyByRace ==
    [][\A w \in Workers :
          /\ purchase.status \in {"DECIDED", "CANCELLED"} /\ purchase'.status # "deleted"
          /\ purchase.by = w /\ req'[w] # req[w]
          => /\ <<purchase.status, grid, offers>>' = <<purchase.status, grid, offers>>
             /\ decisions \subseteq decisions']_purchases
=============================================================================
