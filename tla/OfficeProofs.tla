---------------------------- MODULE OfficeProofs ----------------------------
(* What the components of the office keep whatever the rows and the number *)
(* of workers: purchases as settled, the ledger's pairs and statements,    *)
(* the files that rows name, the sums of stock and budget, the tree of     *)
(* folders, the announcements and a walk through their pages, the          *)
(* condominiums' names, slugs and roles.                                   *)
EXTENDS Office, FiniteSetTheorems, WellFoundedInduction, TLAPS
-----------------------------------------------------------------------------
(* Purchases.                                                              *)

PurchasesTyped ==
    /\ purchase \in Purchase \cup {Deleted}
    /\ offers = [q \in Offers |-> offers[q]]
    /\ req = [w \in Workers |-> req[w]]

(* A quote prices lines of its request, and goes with it.                  *)
PricesLines == \A q \in Offered : offers[q] \subseteq Items
OfferedByRequest == Exists \/ Offered = {}

(* The worker that settled the request serves none that began before.      *)
Changing == {"revise", "cancel", "quote", "requote", "unquote"}
SettledLast ==
    \A w \in Workers : purchase.status \in {"DECIDED", "CANCELLED"} /\ purchase.by = w =>
        req[w].op \notin Changing /\ (Serving(w, "select") => ~req[w].write)

PurchasesInv == PurchasesTyped /\ PricesLines /\ OfferedByRequest /\ SettledLast

SettledStep ==
    \A w \in Workers :
          /\ purchase.status \in {"DECIDED", "CANCELLED"} /\ purchase'.status # "deleted"
          /\ purchase.by = w /\ req'[w] # req[w]
          => /\ <<purchase.status, grid, offers>>' = <<purchase.status, grid, offers>>
             /\ decisions \subseteq decisions'

(* A request that changes nothing begins, or one ends.                     *)
LEMMA PurchasesKept ==
    ASSUME PurchasesInv, UNCHANGED purchases, NEW w \in Workers, NEW r,
           req' = [req EXCEPT ![w] = r],
           r.op \notin Changing \/ purchase.status = "OPEN",
           r.op = "select" /\ purchase.status = "DECIDED" => ~r.write,
           r.op = "select" => purchase.status \in {"OPEN", "DECIDED"}
    PROVE  PurchasesInv' /\ SettledStep
<1>1. \A v \in Workers : req'[v] = IF v = w THEN r ELSE req[v]
  BY DEF PurchasesInv, PurchasesTyped
<1>2. PurchasesTyped' /\ PricesLines' /\ OfferedByRequest'
  BY DEF PurchasesInv, PurchasesTyped, PricesLines, OfferedByRequest, purchases, Offered, Items,
         Exists
<1>3. SettledLast'
  BY <1>1 DEF PurchasesInv, SettledLast, purchases, Serving
<1>4. SettledStep
  BY DEF SettledStep, purchases
<1> QED
  BY <1>2, <1>3, <1>4 DEF PurchasesInv

(* A request ends that may change the lines and the quotes of an open one, *)
(* and the request was not settled by its own worker.                      *)
LEMMA PurchasesEnd ==
    ASSUME PurchasesInv, NEW w \in Workers, req[w].op \in Changing \/ Serving(w, "select"),
           Exists, req' = [req EXCEPT ![w] = IdleReq],
           \/ purchase' = purchase
           \/ /\ Serving(w, "select") => req[w].write
              /\ \E s \in {"DECIDED", "CANCELLED"} :
                    purchase' = [purchase EXCEPT !.status = s, !.by = w],
           Serving(w, "select") => UNCHANGED <<grid, offers>> /\ decisions \subseteq decisions',
           offers' = [q \in Offers |-> offers'[q]], PricesLines'
    PROVE  PurchasesInv' /\ SettledStep
<1>1. \A v \in Workers : req'[v] = IF v = w THEN IdleReq ELSE req[v]
  BY DEF PurchasesInv, PurchasesTyped
<1>2. IdleReq.op \notin Changing \cup {"select"}
  BY DEF IdleReq, Changing
<1>3. \/ purchase' = purchase
      \/ /\ Serving(w, "select") => req[w].write
         /\ purchase' \in Purchase /\ purchase'.by = w
  <2> SUFFICES ASSUME purchase' # purchase
               PROVE  /\ Serving(w, "select") => req[w].write
                      /\ purchase' \in Purchase /\ purchase'.by = w
    OBVIOUS
  <2> PICK s \in {"DECIDED", "CANCELLED"} :
          purchase' = [purchase EXCEPT !.status = s, !.by = w]
    OBVIOUS
  <2>1. purchase \in Purchase /\ w \in Workers
    BY DEF PurchasesInv, PurchasesTyped, Exists
  <2> QED
    BY <2>1 DEF Purchase
<1>4. PurchasesTyped' /\ OfferedByRequest'
  <2>1. Deleted \notin Purchase
    BY DEF Deleted, Purchase
  <2> QED
    BY <1>3, <2>1 DEF PurchasesInv, PurchasesTyped, OfferedByRequest, Exists
<1>5. SettledLast'
  BY <1>1, <1>2, <1>3 DEF PurchasesInv, SettledLast, Serving
<1>6. SettledStep
  <2> SUFFICES ASSUME NEW v \in Workers, purchase.status \in {"DECIDED", "CANCELLED"},
                      purchase.by = v, req'[v] # req[v]
               PROVE  /\ <<purchase.status, grid, offers>>' = <<purchase.status, grid, offers>>
                      /\ decisions \subseteq decisions'
    BY DEF SettledStep
  <2>1. v = w
    BY <1>1
  <2>2. req[w].op \notin Changing /\ Serving(w, "select") /\ ~req[w].write
    BY <2>1 DEF PurchasesInv, SettledLast
  <2> QED
    BY <1>3, <2>2
<1> QED
  BY <1>4, <1>5, <1>6 DEF PurchasesInv

LEMMA PurchasesStep ==
    PurchasesInv /\ [PurchasesNext]_<<purchases, req>> => PurchasesInv' /\ SettledStep
<1> SUFFICES ASSUME PurchasesInv, [PurchasesNext]_<<purchases, req>>
             PROVE  PurchasesInv' /\ SettledStep
  OBVIOUS
<1>0. CASE UNCHANGED <<purchases, req>>
  BY <1>0 DEF purchases, PurchasesInv, PurchasesTyped, PricesLines, OfferedByRequest,
              SettledLast, SettledStep, Offered, Items, Serving, Exists
<1>1. ASSUME NEW w \in Workers, ReviseLines(w)
      PROVE  PurchasesInv' /\ SettledStep
  <2> PICK out \in SUBSET Items, more \in SUBSET {l \in Lines : grid[l] = "new"} :
          Ask(w, [op |-> "revise", cut |-> out, more |-> more])
    BY <1>1 DEF ReviseLines
  <2> QED
    BY <1>1, PurchasesKept DEF ReviseLines, Ask, Unfrozen
<1>2. ASSUME NEW w \in Workers, LinesRevised(w)
      PROVE  PurchasesInv' /\ SettledStep
  <2>1. /\ offers' = [q \in Offers |->
              IF q \in Offered THEN offers[q] \ req[w].cut ELSE offers[q]]
        /\ \A l \in Items : l \notin req[w].cut => l \in Items'
    BY <1>2 DEF LinesRevised, Items
  <2>2. PricesLines'
    BY <2>1 DEF PurchasesInv, PricesLines, Offered
  <2> QED
    BY <1>2, <2>1, <2>2, PurchasesEnd DEF LinesRevised, Answer, Ask, Serving, Changing
<1>3. ASSUME NEW w \in Workers, DeleteRequest(w)
      PROVE  PurchasesInv' /\ SettledStep
  <2>1. purchase' = Deleted /\ purchase'.status = "deleted" /\ req' = req
    BY <1>3 DEF DeleteRequest, Deleted
  <2>2. Offered' = {} /\ offers' = [q \in Offers |-> offers'[q]]
    BY <1>3 DEF DeleteRequest, Offered
  <2> QED
    BY <2>1, <2>2
       DEF PurchasesInv, PurchasesTyped, PricesLines, OfferedByRequest, SettledLast, SettledStep
<1>4. ASSUME NEW w \in Workers, Cancel(w)
      PROVE  PurchasesInv' /\ SettledStep
  BY <1>4, PurchasesKept DEF Cancel, Ask
<1>5. ASSUME NEW w \in Workers, Cancelled(w)
      PROVE  PurchasesInv' /\ SettledStep
  <2>1. PricesLines' /\ offers' = [q \in Offers |-> offers'[q]]
    BY <1>5 DEF Cancelled, PurchasesInv, PurchasesTyped, PricesLines, Offered, Items
  <2> QED
    BY <1>5, <2>1, PurchasesEnd DEF Cancelled, Answer, Ask, Serving, Changing, Exists
<1>6. ASSUME NEW w \in Workers, AddQuote(w)
      PROVE  PurchasesInv' /\ SettledStep
  <2> PICK ls \in SUBSET Items : Ask(w, [op |-> "quote", lines |-> ls])
    BY <1>6 DEF AddQuote
  <2> QED
    BY <1>6, PurchasesKept DEF AddQuote, Ask, Unfrozen
<1>7. ASSUME NEW w \in Workers, QuoteAdded(w)
      PROVE  PurchasesInv' /\ SettledStep
  <2> PICK q \in Offers : offers' = [offers EXCEPT ![q] = req[w].lines]
    BY <1>7 DEF QuoteAdded
  <2>1. \A p \in Offers : offers'[p] = IF p = q THEN req[w].lines ELSE offers[p]
    BY DEF PurchasesInv, PurchasesTyped
  <2>2. offers' = [p \in Offers |-> offers'[p]]
    BY DEF PurchasesInv, PurchasesTyped
  <2>3. PricesLines'
    BY <1>7, <2>1 DEF QuoteAdded, PurchasesInv, PricesLines, Offered, Items
  <2> QED
    BY <1>7, <2>2, <2>3, PurchasesEnd DEF QuoteAdded, Answer, Ask, Serving, Changing
<1>8. ASSUME NEW w \in Workers, ReviseQuote(w)
      PROVE  PurchasesInv' /\ SettledStep
  <2> PICK q \in Offered, ls \in SUBSET Items : Ask(w,
          [op |-> "requote", offer |-> q, cut |-> offers[q] \ ls, more |-> ls \ offers[q]])
    BY <1>8 DEF ReviseQuote
  <2> QED
    BY <1>8, PurchasesKept DEF ReviseQuote, Ask, Unfrozen
<1>9. ASSUME NEW w \in Workers, QuoteRevised(w)
      PROVE  PurchasesInv' /\ SettledStep
  <2>1. PICK q \in Offered : q = req[w].offer
    BY <1>9 DEF QuoteRevised
  <2>2. PICK cells : cells = (offers[q] \ req[w].cut) \cup req[w].more
    OBVIOUS
  <2>3. offers' = [offers EXCEPT ![q] = cells] /\ req[w].more \subseteq Items
    BY <1>9, <2>1, <2>2 DEF QuoteRevised
  <2>4. \A p \in Offers : offers'[p] = IF p = q THEN cells ELSE offers[p]
    BY <2>3 DEF PurchasesInv, PurchasesTyped
  <2>5. cells \subseteq Items
    BY <2>1, <2>2, <2>3 DEF PurchasesInv, PricesLines
  <2>6. PricesLines'
    BY <1>9, <2>4, <2>5 DEF QuoteRevised, PurchasesInv, PricesLines, Offered, Items
  <2>7. offers' = [p \in Offers |-> offers'[p]]
    BY <2>3 DEF PurchasesInv, PurchasesTyped
  <2> QED
    BY <1>9, <2>6, <2>7, PurchasesEnd
       DEF QuoteRevised, Answer, Ask, Serving, Changing, PurchasesInv, OfferedByRequest
<1>10. ASSUME NEW w \in Workers, WithdrawQuote(w)
      PROVE  PurchasesInv' /\ SettledStep
  <2> PICK q \in Offered : Ask(w, [op |-> "unquote", offer |-> q])
    BY <1>10 DEF WithdrawQuote
  <2> QED
    BY <1>10, PurchasesKept DEF WithdrawQuote, Ask, Unfrozen
<1>11. ASSUME NEW w \in Workers, QuoteWithdrawn(w)
      PROVE  PurchasesInv' /\ SettledStep
  <2>1. PICK q \in Offered : q = req[w].offer
    BY <1>11 DEF QuoteWithdrawn
  <2>2. offers' = [offers EXCEPT ![q] = Withdrawn]
    BY <1>11, <2>1 DEF QuoteWithdrawn
  <2>3. \A p \in Offers : offers'[p] = IF p = q THEN Withdrawn ELSE offers[p]
    BY <2>2 DEF PurchasesInv, PurchasesTyped
  <2>4. PricesLines'
    BY <1>11, <2>3 DEF QuoteWithdrawn, PurchasesInv, PricesLines, Offered, Items
  <2>5. offers' = [p \in Offers |-> offers'[p]]
    BY <2>2 DEF PurchasesInv, PurchasesTyped
  <2> QED
    BY <1>11, <2>4, <2>5, PurchasesEnd
       DEF QuoteWithdrawn, Answer, Ask, Serving, Changing, PurchasesInv, OfferedByRequest
<1>12. ASSUME NEW w \in Workers, Select(w)
      PROVE  PurchasesInv' /\ SettledStep
  <2> PICK q \in Offered, t \in 1 .. MaxDecisions :
          Ask(w, [op |-> "select", offer |-> q, at |-> t,
                  write |-> purchase.status # "DECIDED"])
    BY <1>12 DEF Select
  <2> QED
    BY <1>12, PurchasesKept DEF Select, Ask, Changing
<1>13. ASSUME NEW w \in Workers, Selected(w)
      PROVE  PurchasesInv' /\ SettledStep
  <2>1. PricesLines' /\ offers' = [q \in Offers |-> offers'[q]]
    BY <1>13 DEF Selected, PurchasesInv, PurchasesTyped, PricesLines, Offered, Items
  <2>2. decisions \subseteq decisions' /\ UNCHANGED <<grid, offers>>
    BY <1>13 DEF Selected
  <2>3. Exists
    BY <1>13 DEF Selected, PurchasesInv, OfferedByRequest
  <2> QED
    BY <1>13, <2>1, <2>2, <2>3, PurchasesEnd DEF Selected, Answer, Ask, Serving
<1>14. ASSUME NEW w \in Workers, PurchasesCrash(w)
      PROVE  PurchasesInv' /\ SettledStep
  BY <1>14, PurchasesKept DEF PurchasesCrash, Dies, Answer, Ask, IdleReq, Changing
<1> QED
  BY <1>0, <1>1, <1>2, <1>3, <1>4, <1>5, <1>6, <1>7, <1>8, <1>9, <1>10, <1>11, <1>12, <1>13,
     <1>14 DEF PurchasesNext

LEMMA PurchasesStart == PurchasesInit /\ NoRequest => PurchasesInv
<1> SUFFICES ASSUME PurchasesInit, NoRequest
             PROVE  PurchasesInv
  OBVIOUS
<1>1. purchase \in Purchase /\ purchase.status = "OPEN" /\ Offered = {}
  BY DEF PurchasesInit, Purchase, Offered
<1>2. PurchasesTyped
  BY <1>1 DEF PurchasesInit, NoRequest, PurchasesTyped
<1> QED
  BY <1>1, <1>2 DEF PurchasesInv, PricesLines, OfferedByRequest, SettledLast

(* For any lines and quotes: the count of its priced lines tells a quote   *)
(* that prices all of them, however update_request and update_quote        *)
(* overlapped.                                                             *)
THEOREM CompleteQuotes == PurchasesSpec => []CompletePricesEveryLine
<1>1. PurchasesInv => CompletePricesEveryLine
  <2> SUFFICES ASSUME PurchasesInv, NEW q \in Offered,
                      Cardinality(offers[q]) = Cardinality(Items)
               PROVE  offers[q] = Items
    BY DEF CompletePricesEveryLine
  <2>1. IsFiniteSet(Items)
    BY PurchasesAssumption, FS_Subset DEF Items
  <2>2. offers[q] \in SUBSET Items
    BY DEF PurchasesInv, PricesLines
  <2> QED
    BY <2>1, <2>2, FS_Subset
<1> QED
  BY <1>1, PurchasesStart, PurchasesStep, PTL DEF PurchasesSpec

(* For any number of workers: once decided or cancelled, a purchase        *)
(* request is changed only by its deletion or by requests of other workers *)
(* than the one that settled it (select_quote, cancel_request).            *)
THEOREM SettledStands == PurchasesSpec => SettledOnlyByRace
<1>1. SettledStep => [\A w \in Workers :
          /\ purchase.status \in {"DECIDED", "CANCELLED"} /\ purchase'.status # "deleted"
          /\ purchase.by = w /\ req'[w] # req[w]
          => /\ <<purchase.status, grid, offers>>' = <<purchase.status, grid, offers>>
             /\ decisions \subseteq decisions']_purchases
  BY DEF SettledStep
<1> QED
  BY <1>1, PurchasesStart, PurchasesStep, PTL DEF PurchasesSpec, SettledOnlyByRace
-----------------------------------------------------------------------------
(* The books.                                                              *)

Updates == [op : {"update"}, tx : Txs, kind : Kinds, cat : CatIds, day : 1 .. LastDay,
            set : SUBSET {"kind", "cat", "day"}]

IsStatement(r) ==
    r = [op |-> "statement", at |-> r.at, from |-> r.from, to |-> r.to,
         part |-> r.part, sum |-> r.sum, quiet |-> r.quiet]

LedgerTyped ==
    /\ cats \in [CatIds -> Cat \cup {NoCat}]
    /\ txs \in [Txs -> Tx \cup {NoTx, Void}]
    /\ req = [w \in Workers |-> req[w]]
    /\ \A w \in Workers :
          /\ Serving(w, "update") => req[w] \in Updates
          /\ Serving(w, "statement") => IsStatement(req[w])

(* Transactions and updates name categories there are, and updates name    *)
(* transactions there are, or were.                                        *)
BooksNameRows ==
    /\ \A t \in Booked : txs[t].cat \in Opened
    /\ \A w \in Workers : Serving(w, "update") =>
          req[w].cat \in Opened /\ txs[req[w].tx] # NoTx

(* An update that is to write the type or the category of a transaction    *)
(* checked that they fit; the one that it leaves is still the one it read, *)
(* or was written by another.                                              *)
HalfChecked ==
    \A w \in Workers :
        Serving(w, "update") /\ req[w].tx \in Booked /\ req[w].set \cap {"kind", "cat"} # {} =>
            /\ req[w].kind = cats[req[w].cat].kind
            /\ \/ "kind" \in req[w].set \/ txs[req[w].tx].kind = req[w].kind
               \/ txs[req[w].tx].kindBy # w
            /\ \/ "cat" \in req[w].set \/ txs[req[w].tx].cat = req[w].cat
               \/ txs[req[w].tx].catBy # w

LedgerInv == LedgerTyped /\ BooksNameRows /\ HalfChecked /\ MismatchOnlyByRace

LEMMA LedgerRows ==
    /\ NoCat \notin Cat /\ NoTx \notin Tx /\ Void \notin Tx /\ NoTx # Void
    /\ IdleReq.op = "idle"
  BY DEF NoCat, Cat, NoTx, Tx, Void, Kinds, IdleReq

LEMMA RowsOpened ==
    ASSUME LedgerTyped
    PROVE  /\ \A c \in Opened : cats[c] \in Cat
           /\ \A t \in Booked : txs[t] \in Tx
           /\ \A t \in Txs : txs[t] \in Tx => t \in Booked
  BY LedgerRows DEF LedgerTyped, Opened, Booked

(* A statement after a commit to the transactions, and after a query.      *)
Unquiet(r) == [r EXCEPT !.quiet = FALSE]
Queried(r, n, sum, part) == [r EXCEPT !.at = n, !.sum = sum, !.part = part]

LEMMA StatementWritten ==
    ASSUME NEW r, IsStatement(r), NEW n, NEW sum, NEW part
    PROVE  /\ IsStatement(Unquiet(r)) /\ Unquiet(r).op = "statement"
           /\ IsStatement(Queried(r, n, sum, part))
           /\ Queried(r, n, sum, part).op = "statement"
<1>1. PICK at, from, to, p, s, quiet :
          r \in [op : {"statement"}, at : {at}, from : {from}, to : {to},
                 part : {p}, sum : {s}, quiet : {quiet}]
  BY DEF IsStatement
<1>2. Unquiet(r) \in [op : {"statement"}, at : {at}, from : {from}, to : {to},
                      part : {p}, sum : {s}, quiet : {FALSE}]
  BY <1>1 DEF Unquiet
<1>3. Queried(r, n, sum, part) \in
          [op : {"statement"}, at : {n}, from : {from}, to : {to},
           part : {part}, sum : {sum}, quiet : {quiet}]
  BY <1>1 DEF Queried
<1> QED
  BY <1>2, <1>3 DEF IsStatement

(* The requests after a commit to the transactions.                        *)
LEMMA BookedByOthers ==
    ASSUME LedgerTyped, NEW w \in Workers, BookedBy(w)
    PROVE  /\ req' = [v \in Workers |-> req'[v]]
           /\ \A v \in Workers : Serving(v, "update")' =>
                  v # w /\ Serving(v, "update") /\ req'[v] = req[v]
           /\ \A v \in Workers : Serving(v, "statement")' => IsStatement(req'[v])
<1>1. req' = [v \in Workers |-> req'[v]]
  BY DEF BookedBy
<1>2. req'[w] = IdleReq
  BY DEF BookedBy
<1>3. ASSUME NEW v \in Workers, v # w, Serving(v, "statement")
      PROVE  IsStatement(req'[v]) /\ req'[v].op = "statement"
  <2>1. PICK r : r = req[v]
    OBVIOUS
  <2>2. IsStatement(r) /\ req'[v] = Unquiet(r)
    BY <1>3, <2>1 DEF LedgerTyped, BookedBy, Unquiet
  <2> QED
    BY <2>2, StatementWritten
<1>4. ASSUME NEW v \in Workers, v # w, ~Serving(v, "statement")
      PROVE  req'[v] = req[v]
  BY <1>4 DEF BookedBy
<1>5. \A v \in Workers : Serving(v, "update")' =>
          v # w /\ Serving(v, "update") /\ req'[v] = req[v]
  BY <1>2, <1>3, <1>4, LedgerRows DEF Serving
<1>6. \A v \in Workers : Serving(v, "statement")' => IsStatement(req'[v])
  BY <1>2, <1>3, <1>4, LedgerRows DEF Serving
<1> QED
  BY <1>1, <1>5, <1>6

(* A request begins or ends and the books stay as they are.                *)
LEMMA BooksKept ==
    ASSUME LedgerInv, UNCHANGED books, NEW w \in Workers, NEW r,
           req' = [req EXCEPT ![w] = r], r.op # "update",
           r.op = "statement" => IsStatement(r)
    PROVE  LedgerInv'
<1>1. \A v \in Workers : req'[v] = IF v = w THEN r ELSE req[v]
  BY DEF LedgerInv, LedgerTyped
<1>2. LedgerTyped'
  BY <1>1 DEF LedgerInv, LedgerTyped, books, Serving
<1>3. BooksNameRows' /\ MismatchOnlyByRace'
  BY <1>1
     DEF LedgerInv, BooksNameRows, MismatchOnlyByRace, books, Serving, Booked, Opened
<1>4. HalfChecked'
  BY <1>1 DEF LedgerInv, HalfChecked, books, Serving, Booked
<1> QED
  BY <1>2, <1>3, <1>4 DEF LedgerInv

(* The categories change, and those there are keep their type.             *)
LEMMA KindsKept ==
    ASSUME LedgerInv, UNCHANGED <<txs, req>>, cats' \in [CatIds -> Cat \cup {NoCat}],
           Opened \subseteq Opened', \A c \in Opened : cats'[c].kind = cats[c].kind
    PROVE  LedgerInv'
<1>1. Booked' = Booked /\ \A v \in Workers : req'[v] = req[v]
  BY DEF Booked
<1>2. LedgerTyped' /\ BooksNameRows'
  BY <1>1 DEF LedgerInv, LedgerTyped, BooksNameRows, Serving
<1>3. HalfChecked' /\ MismatchOnlyByRace'
  BY <1>1 DEF LedgerInv, BooksNameRows, HalfChecked, MismatchOnlyByRace, Serving
<1> QED
  BY <1>2, <1>3 DEF LedgerInv

(* A transaction is written, by one request, which ends.                   *)
LEMMA TransactionWritten ==
    ASSUME LedgerInv, NEW w \in Workers, BookedBy(w), UNCHANGED cats,
           NEW t \in Txs, NEW row \in Tx, txs' = [txs EXCEPT ![t] = row],
           row.cat \in Opened,
           row.kind # cats[row.cat].kind => row.kindBy # row.catBy,
           t \in Booked =>
               /\ row.kindBy = w \/ (row.kind = txs[t].kind /\ row.kindBy = txs[t].kindBy)
               /\ row.catBy = w \/ (row.cat = txs[t].cat /\ row.catBy = txs[t].catBy),
           t \notin Booked => txs[t] = NoTx
    PROVE  LedgerInv'
<1>1. \A u \in Txs : txs'[u] = IF u = t THEN row ELSE txs[u]
  BY DEF LedgerInv, LedgerTyped
<1>2. Booked' = Booked \cup {t} /\ Opened' = Opened
  BY <1>1, LedgerRows DEF Booked, Opened
<1>3. LedgerTyped'
  BY BookedByOthers DEF LedgerInv, LedgerTyped
<1>4. BooksNameRows' /\ MismatchOnlyByRace'
  <2>1. \A u \in Booked : u \in Txs
    BY DEF Booked
  <2>2. MismatchOnlyByRace'
    BY <1>1, <1>2, <2>1 DEF LedgerInv, MismatchOnlyByRace
  <2>3. \A u \in Booked' : txs'[u].cat \in Opened'
    BY <1>1, <1>2, <2>1 DEF LedgerInv, BooksNameRows
  <2>4. \A v \in Workers : Serving(v, "update")' =>
            req'[v].cat \in Opened' /\ txs'[req'[v].tx] # NoTx
    BY <1>1, <1>2, BookedByOthers, LedgerRows
       DEF LedgerInv, LedgerTyped, BooksNameRows, Updates
  <2> QED
    BY <2>2, <2>3, <2>4 DEF BooksNameRows
<1>5. HalfChecked'
  <2> SUFFICES ASSUME NEW v \in Workers, Serving(v, "update")', req'[v].tx \in Booked',
                      req'[v].set \cap {"kind", "cat"} # {}
               PROVE  /\ req'[v].kind = cats[req'[v].cat].kind
                      /\ \/ "kind" \in req'[v].set \/ txs'[req'[v].tx].kind = req'[v].kind
                         \/ txs'[req'[v].tx].kindBy # v
                      /\ \/ "cat" \in req'[v].set \/ txs'[req'[v].tx].cat = req'[v].cat
                         \/ txs'[req'[v].tx].catBy # v
    BY DEF HalfChecked
  <2>1. v # w /\ Serving(v, "update") /\ req'[v] = req[v] /\ req[v].tx \in Txs
    BY BookedByOthers DEF LedgerInv, LedgerTyped, Updates
  <2>2. req[v].tx \in Booked
    BY <1>2, <2>1 DEF LedgerInv, BooksNameRows
  <2>3. /\ req[v].kind = cats[req[v].cat].kind
        /\ \/ "kind" \in req[v].set \/ txs[req[v].tx].kind = req[v].kind
           \/ txs[req[v].tx].kindBy # v
        /\ \/ "cat" \in req[v].set \/ txs[req[v].tx].cat = req[v].cat
           \/ txs[req[v].tx].catBy # v
    BY <2>1, <2>2 DEF LedgerInv, HalfChecked
  <2> QED
    BY <1>1, <2>1, <2>2, <2>3
<1> QED
  BY <1>3, <1>4, <1>5 DEF LedgerInv

LEMMA CreateTransactionKeeps ==
    ASSUME LedgerInv, NEW w \in Workers, CreateTransaction(w)
    PROVE  LedgerInv'
<1> PICK t \in Txs, c \in Opened, a \in Amounts, d \in 1 .. LastDay :
        /\ txs[t] = NoTx
        /\ txs' = [txs EXCEPT ![t] = [kind |-> cats[c].kind, cat |-> c, amount |-> a,
                                      day |-> d, kindBy |-> w, catBy |-> w]]
  BY DEF CreateTransaction
<1> DEFINE row == [kind |-> cats[c].kind, cat |-> c, amount |-> a, day |-> d,
                   kindBy |-> w, catBy |-> w]
<1>1. c \in CatIds /\ cats[c] \in Cat /\ t \notin Booked
  BY RowsOpened DEF LedgerInv, Opened, Booked
<1>2. row \in Tx /\ row.kind = cats[row.cat].kind /\ row.cat = c
  BY <1>1 DEF Tx, Cat
<1> HIDE DEF row
<1>3. txs' = [txs EXCEPT ![t] = row] /\ BookedBy(w) /\ cats' = cats
  BY DEF CreateTransaction, row
<1> QED
  BY <1>1, <1>2, <1>3, TransactionWritten

(* What an update writes in a row.                                         *)
LEMMA UpdatedRow ==
    ASSUME NEW x \in Tx, NEW r \in Updates, NEW w \in Workers
    PROVE  LET y == Rewritten(x, r, w)
           IN /\ y \in Tx
              /\ y.kind = IF "kind" \in r.set THEN r.kind ELSE x.kind
              /\ y.kindBy = IF "kind" \in r.set THEN w ELSE x.kindBy
              /\ y.cat = IF "cat" \in r.set THEN r.cat ELSE x.cat
              /\ y.catBy = IF "cat" \in r.set THEN w ELSE x.catBy
<1>1. r.kind \in Kinds /\ r.cat \in CatIds /\ r.day \in 1 .. LastDay
  BY DEF Updates
<1>2. PICK k \in Kinds : k = IF "kind" \in r.set THEN r.kind ELSE x.kind
  BY <1>1 DEF Tx
<1>3. PICK kb \in Workers : kb = IF "kind" \in r.set THEN w ELSE x.kindBy
  BY DEF Tx
<1>4. PICK c \in CatIds : c = IF "cat" \in r.set THEN r.cat ELSE x.cat
  BY <1>1 DEF Tx
<1>5. PICK cb \in Workers : cb = IF "cat" \in r.set THEN w ELSE x.catBy
  BY DEF Tx
<1>6. PICK d \in 1 .. LastDay : d = IF "day" \in r.set THEN r.day ELSE x.day
  BY <1>1 DEF Tx
<1>7. LET y == [x EXCEPT !.kind = k, !.kindBy = kb, !.cat = c, !.catBy = cb, !.day = d]
      IN y \in Tx /\ y.kind = k /\ y.kindBy = kb /\ y.cat = c /\ y.catBy = cb
  BY DEF Tx
<1> QED
  BY <1>2, <1>3, <1>4, <1>5, <1>6, <1>7 DEF Rewritten

LEMMA UpdatedTransactionKeeps ==
    ASSUME LedgerInv, NEW w \in Workers, UpdatedTransaction(w)
    PROVE  LedgerInv'
<1>1. PICK r : r = req[w]
  OBVIOUS
<1>2. r \in Updates /\ r.tx \in Booked /\ Serving(w, "update")
  BY <1>1 DEF UpdatedTransaction, LedgerInv, LedgerTyped
<1>3. PICK t \in Booked : t = r.tx
  BY <1>2
<1>4. t \in Txs /\ txs[t] \in Tx /\ txs[t].cat \in Opened /\ r.cat \in Opened
  BY <1>1, <1>2, RowsOpened DEF LedgerInv, BooksNameRows, Booked
<1>5. PICK row : row = Rewritten(txs[t], r, w)
  OBVIOUS
<1>6. /\ row \in Tx
      /\ row.kind = IF "kind" \in r.set THEN r.kind ELSE txs[t].kind
      /\ row.kindBy = IF "kind" \in r.set THEN w ELSE txs[t].kindBy
      /\ row.cat = IF "cat" \in r.set THEN r.cat ELSE txs[t].cat
      /\ row.catBy = IF "cat" \in r.set THEN w ELSE txs[t].catBy
  BY <1>2, <1>4, <1>5, UpdatedRow
<1>7. txs' = [txs EXCEPT ![t] = row] /\ BookedBy(w) /\ cats' = cats
  BY <1>1, <1>3, <1>4, <1>5 DEF UpdatedTransaction, LedgerInv, LedgerTyped
<1>8. row.kind # cats[row.cat].kind => row.kindBy # row.catBy
  <2>1. CASE r.set \cap {"kind", "cat"} = {}
    <3>1. "kind" \notin r.set /\ "cat" \notin r.set
      BY <2>1
    <3> QED
      BY <1>6, <3>1 DEF LedgerInv, MismatchOnlyByRace
  <2>2. CASE r.set \cap {"kind", "cat"} # {}
    <3>1. /\ r.kind = cats[r.cat].kind
          /\ "kind" \in r.set \/ txs[t].kind = r.kind \/ txs[t].kindBy # w
          /\ "cat" \in r.set \/ txs[t].cat = r.cat \/ txs[t].catBy # w
      BY <1>1, <1>2, <1>3, <2>2 DEF LedgerInv, HalfChecked
    <3>2. "kind" \in r.set \/ "cat" \in r.set
      BY <2>2
    <3> QED
      BY <1>6, <3>1, <3>2
  <2> QED
    BY <2>1, <2>2
<1> QED
  BY <1>3, <1>4, <1>6, <1>7, <1>8, TransactionWritten

(* The check of an update fits its type to its category, or it changes     *)
(* neither.                                                                *)
LEMMA UpdateKeeps ==
    ASSUME LedgerInv, NEW w \in Workers, UpdateTransaction(w)
    PROVE  LedgerInv'
<1> PICK t \in Booked, k \in Kinds, c \in Opened, d \in 1 .. LastDay :
        /\ (k = txs[t].kind /\ c = txs[t].cat) \/ k = cats[c].kind
        /\ Update(w, t, k, c, d)
  BY DEF UpdateTransaction
<1> DEFINE set == {f \in {"kind", "cat", "day"} :
                     \/ f = "kind" /\ k # txs[t].kind
                     \/ f = "cat" /\ c # txs[t].cat
                     \/ f = "day" /\ d # txs[t].day}
           r == [op |-> "update", tx |-> t, kind |-> k, cat |-> c, day |-> d, set |-> set]
<1>1. /\ "kind" \in set <=> k # txs[t].kind
      /\ "cat" \in set <=> c # txs[t].cat
  OBVIOUS
<1>2. set \in SUBSET {"kind", "cat", "day"}
  OBVIOUS
<1> HIDE DEF set
<1>3. /\ r \in Updates /\ r.op = "update" /\ r.tx = t /\ r.kind = k /\ r.cat = c
      /\ r.set = set
  BY <1>2 DEF Updates, Opened, Booked
<1>4. req' = [req EXCEPT ![w] = r] /\ UNCHANGED books
  BY DEF UpdateTransaction, Update, Ask, set
<1> HIDE DEF r
<1>5. \A v \in Workers : req'[v] = IF v = w THEN r ELSE req[v]
  BY <1>4 DEF LedgerInv, LedgerTyped
<1>6. LedgerTyped'
  BY <1>3, <1>4, <1>5 DEF LedgerInv, LedgerTyped, books, Serving
<1>7. BooksNameRows' /\ MismatchOnlyByRace'
  BY <1>3, <1>4, <1>5
     DEF LedgerInv, BooksNameRows, MismatchOnlyByRace, books, Serving, Booked, Opened
<1>8. set \cap {"kind", "cat"} # {} => k = cats[c].kind
  BY <1>1
<1>9. HalfChecked'
  BY <1>1, <1>3, <1>4, <1>5, <1>8 DEF LedgerInv, HalfChecked, books, Serving, Booked
<1> QED
  BY <1>6, <1>7, <1>9 DEF LedgerInv

LEMMA DeleteKeeps ==
    ASSUME LedgerInv, NEW w \in Workers, DeleteTransaction(w)
    PROVE  LedgerInv'
<1> PICK t \in Booked : txs' = [txs EXCEPT ![t] = Void]
  BY DEF DeleteTransaction
<1>1. \A u \in Txs : txs'[u] = IF u = t THEN Void ELSE txs[u]
  BY DEF LedgerInv, LedgerTyped, Booked
<1>2. Booked' = Booked \ {t} /\ Opened' = Opened /\ cats' = cats
  BY <1>1 DEF Booked, DeleteTransaction, Opened
<1>3. LedgerTyped'
  BY BookedByOthers DEF LedgerInv, LedgerTyped, DeleteTransaction
<1>4. BooksNameRows'
  <2>1. \A u \in Booked' : txs'[u].cat \in Opened'
    BY <1>1, <1>2 DEF LedgerInv, BooksNameRows, Booked
  <2>2. \A v \in Workers : Serving(v, "update")' =>
            req'[v].cat \in Opened' /\ txs'[req'[v].tx] # NoTx
    BY <1>1, <1>2, BookedByOthers, LedgerRows
       DEF LedgerInv, LedgerTyped, BooksNameRows, Updates, DeleteTransaction
  <2> QED
    BY <2>1, <2>2 DEF BooksNameRows
<1>5. MismatchOnlyByRace'
  BY <1>1, <1>2 DEF LedgerInv, MismatchOnlyByRace, Booked
<1>6. HalfChecked'
  BY <1>1, <1>2, BookedByOthers DEF LedgerInv, HalfChecked, DeleteTransaction, Booked
<1> QED
  BY <1>3, <1>4, <1>5, <1>6 DEF LedgerInv

LEMMA LedgerStep == LedgerInv /\ [LedgerNext]_<<books, req>> => LedgerInv'
<1> SUFFICES ASSUME LedgerInv, [LedgerNext]_<<books, req>>
             PROVE  LedgerInv'
  OBVIOUS
<1>0. CASE UNCHANGED <<books, req>>
  BY <1>0 DEF books, LedgerInv, LedgerTyped, BooksNameRows, HalfChecked, MismatchOnlyByRace,
              Booked, Opened, Serving
<1>1. ASSUME NEW w \in Workers, CreateCategory(w)
      PROVE  LedgerInv'
  <2> PICK c \in CatIds \ Opened, r \in Cat : cats' = [cats EXCEPT ![c] = r]
    BY <1>1 DEF CreateCategory
  <2>1. \A d \in CatIds : cats'[d] = IF d = c THEN r ELSE cats[d]
    BY DEF LedgerInv, LedgerTyped
  <2>2. Opened \subseteq Opened' /\ \A d \in Opened : cats'[d].kind = cats[d].kind
    BY <2>1, LedgerRows DEF Opened
  <2>3. cats' \in [CatIds -> Cat \cup {NoCat}]
    BY DEF LedgerInv, LedgerTyped
  <2> QED
    BY <1>1, <2>2, <2>3, KindsKept DEF CreateCategory
<1>2. ASSUME NEW w \in Workers, RenameCategory(w)
      PROVE  LedgerInv'
  <2> PICK c \in Opened, n \in CatNames : cats' = [cats EXCEPT ![c].name = n]
    BY <1>2 DEF RenameCategory
  <2>1. c \in CatIds /\ cats[c] \in Cat
    BY RowsOpened DEF LedgerInv, Opened
  <2>2. PICK row : row = [cats[c] EXCEPT !.name = n]
    OBVIOUS
  <2>3. row \in Cat /\ row.kind = cats[c].kind
    BY <2>1, <2>2 DEF Cat
  <2>4. cats' = [cats EXCEPT ![c] = row]
    BY <2>1, <2>2 DEF LedgerInv, LedgerTyped
  <2>5. \A d \in CatIds : cats'[d] = IF d = c THEN row ELSE cats[d]
    BY <2>4 DEF LedgerInv, LedgerTyped
  <2>6. Opened \subseteq Opened' /\ \A d \in Opened : cats'[d].kind = cats[d].kind
    BY <2>3, <2>5, LedgerRows DEF Opened
  <2>7. cats' \in [CatIds -> Cat \cup {NoCat}]
    BY <2>1, <2>3, <2>4 DEF LedgerInv, LedgerTyped
  <2> QED
    BY <1>2, <2>6, <2>7, KindsKept DEF RenameCategory
<1>3. ASSUME NEW w \in Workers, CreateBudgetLine(w) \/ DeleteBudgetLine(w)
      PROVE  LedgerInv'
  <2>1. UNCHANGED <<cats, txs, req>>
    BY <1>3 DEF CreateBudgetLine, DeleteBudgetLine
  <2> QED
    BY <2>1, KindsKept DEF LedgerInv, LedgerTyped, Opened
<1>4. ASSUME NEW w \in Workers, Statement(w)
      PROVE  LedgerInv'
  <2> PICK from \in 1 .. LastDay : \E to \in from .. LastDay : Ask(w,
          [op |-> "statement", at |-> 1, from |-> from, to |-> to, part |-> 0,
           sum |-> Total("INCOME", 1, DayBefore(from)), quiet |-> TRUE])
    BY <1>4 DEF Statement
  <2> PICK to \in from .. LastDay : Ask(w,
          [op |-> "statement", at |-> 1, from |-> from, to |-> to, part |-> 0,
           sum |-> Total("INCOME", 1, DayBefore(from)), quiet |-> TRUE])
    OBVIOUS
  <2>1. PICK s : s = Total("INCOME", 1, DayBefore(from))
    OBVIOUS
  <2>2. PICK r : r = [op |-> "statement", at |-> 1, from |-> from, to |-> to, part |-> 0,
                      sum |-> s, quiet |-> TRUE]
    OBVIOUS
  <2>3. IsStatement(r) /\ r.op = "statement"
    BY <2>2 DEF IsStatement
  <2>4. req' = [req EXCEPT ![w] = r] /\ UNCHANGED books
    BY <1>4, <2>1, <2>2 DEF Statement, Ask
  <2> QED
    BY <2>3, <2>4, BooksKept
<1>5. ASSUME NEW w \in Workers, NextQuery(w)
      PROVE  LedgerInv'
  <2>1. PICK r : r = req[w]
    OBVIOUS
  <2>2. IsStatement(r) /\ UNCHANGED books
    BY <1>5, <2>1 DEF NextQuery, LedgerInv, LedgerTyped
  <2>3. PICK n, sum, part : req' = [req EXCEPT ![w] = Queried(r, n, sum, part)]
    BY <1>5, <2>1 DEF NextQuery, Ask, Queried
  <2> QED
    BY <2>2, <2>3, StatementWritten, BooksKept
<1>6. ASSUME NEW w \in Workers, ShowStatement(w) \/ LedgerCrash(w)
      PROVE  LedgerInv'
  <2>1. req' = [req EXCEPT ![w] = IdleReq] /\ UNCHANGED books
    BY <1>6 DEF ShowStatement, LedgerCrash, Dies, Answer, Ask
  <2> QED
    BY <2>1, LedgerRows, BooksKept
<1> QED
  BY <1>0, <1>1, <1>2, <1>3, <1>4, <1>5, <1>6, CreateTransactionKeeps, UpdateKeeps,
     UpdatedTransactionKeeps, DeleteKeeps DEF LedgerNext

LEMMA LedgerStart == LedgerInit /\ NoRequest => LedgerInv
<1> SUFFICES ASSUME LedgerInit, NoRequest
             PROVE  LedgerInv
  OBVIOUS
<1>1. Booked = {} /\ \A w \in Workers : req[w].op = "idle"
  BY LedgerRows DEF LedgerInit, NoRequest, Booked
<1>2. LedgerTyped
  BY <1>1 DEF LedgerInit, NoRequest, LedgerTyped, Serving
<1> QED
  BY <1>1, <1>2 DEF LedgerInv, BooksNameRows, HalfChecked, MismatchOnlyByRace, Serving

(* For any categories, transactions and workers: a transaction of another  *)
(* type than its category got the two from workers that overlapped, since  *)
(* update_transaction checks the pair that it read.                        *)
THEOREM MismatchByRace == LedgerSpec => []MismatchOnlyByRace
<1>1. LedgerInv => MismatchOnlyByRace
  BY DEF LedgerInv
<1> QED
  BY <1>1, LedgerStart, LedgerStep, PTL DEF LedgerSpec
-----------------------------------------------------------------------------
(* Stored files.                                                           *)

DeletesFirst == {"replace", "unset", "drop"} \cup DeletedAlready
Ops == {"set", "commit", "clear", "cleanup", "insert"} \cup DeletesFirst
Job == [op : Ops, row : Rows \cup {NoRow}, prev : minted \cup {NoFile},
        new : minted \cup {NoFile}]

(* A request holds a file that no row names yet.                           *)
Pending(w) == req[w].op \in {"commit", "recommit", "insert"}

FilesTyped ==
    /\ minted \subseteq Files /\ stored \subseteq minted /\ pasted \subseteq minted
    /\ names \in [Rows -> minted \cup {NoFile, NoRow, Gone}]
    /\ req = [w \in Workers |-> req[w]]
    /\ \A w \in Workers : req[w] = IdleReq \/ req[w] \in Job

RowsFit ==
    \A w \in Workers :
        /\ req[w].op \in Ops \ {"insert"} => req[w].row \in Rows
        /\ req[w].op \in DeletesFirst => req[w].row \in Quotes \cup Invoices \cup Media
        /\ req[w].op \in Ops \ {"commit", "recommit", "insert", "cleanup"} =>
              req[w].new = NoFile

(* But for files whose URL was written by hand: a file has one name, the   *)
(* one a request is to delete is named by its row or, once it committed,   *)
(* not at all, and one that is to be named is there and has no other use.  *)
OneName ==
    \A h, g \in Rows : names[h] = names[g] /\ names[h] \in minted \ pasted => h = g

PrevOfRow ==
    \A w \in Workers, h \in Rows :
        /\ req[w].op \in Ops /\ req[w].prev \in minted \ pasted /\ names[h] = req[w].prev
        => h = req[w].row /\ req[w].op # "cleanup"

ForItsRow(w) ==
    /\ req[w].new \in stored \cup pasted
    /\ req[w].new \notin pasted =>
          /\ \A h \in Rows : names[h] # req[w].new
          /\ \A v \in Workers : req[v].op \in Ops => req[v].prev # req[w].new
          /\ \A v \in Workers \ {w} : Pending(v) => req[v].new # req[w].new
NewUnused == \A w \in Workers : Pending(w) => ForItsRow(w)

FilesInv == FilesTyped /\ RowsFit /\ OneName /\ PrevOfRow /\ NewUnused /\ DanglesOnlyInFlight

LEMMA FileOps ==
    /\ IdleReq.op \notin Ops /\ DeletesFirst \subseteq Ops
    /\ DeletedAlready \subseteq DeletesFirst /\ "recommit" \in DeletedAlready
    /\ {"replace", "unset", "drop"} \cap DeletedAlready = {}
    /\ {"commit", "recommit", "insert", "cleanup", "clear"} \subseteq Ops
    /\ {"commit", "insert", "cleanup", "set", "clear"} \cap DeletesFirst = {}
    /\ NoFile \notin Files /\ NoRow \notin Files /\ Gone \notin Files
    /\ NoFile # NoRow /\ NoFile # Gone /\ NoRow # Gone
  BY StorageAssumption
     DEF IdleReq, Ops, DeletesFirst, DeletedAlready, NoFile, NoRow, Gone

(* Nothing is written and a request reads its row, or ends.                *)
LEMMA FilesKept ==
    ASSUME FilesInv, NEW w \in Workers, UNCHANGED <<minted, stored, names, pasted>>,
           NEW r, req' = [req EXCEPT ![w] = r],
           \/ r = IdleReq
           \/ /\ r \in Job /\ r.op \in {"set", "clear", "replace", "unset", "drop"}
              /\ r.row \in Rows /\ r.prev = names[r.row] /\ r.new = NoFile
              /\ r.op \in DeletesFirst => r.row \in Quotes \cup Invoices \cup Media,
           failed \subseteq failed',
           req[w].op \in DeletedAlready => req[w].row \in failed'
    PROVE  FilesInv'
<1>1. \A v \in Workers : req'[v] = IF v = w THEN r ELSE req[v]
  BY DEF FilesInv, FilesTyped
<1>2. r.op \notin {"commit", "recommit", "insert", "cleanup"}
  BY FileOps
<1>3. FilesTyped'
  BY <1>1 DEF FilesInv, FilesTyped, Job
<1>4. RowsFit'
  BY <1>1, FileOps DEF FilesInv, RowsFit
<1>5. OneName'
  BY DEF FilesInv, OneName
<1>6. PrevOfRow'
  <2> SUFFICES ASSUME NEW v \in Workers, NEW h \in Rows, req'[v].op \in Ops,
                      req'[v].prev \in minted \ pasted, names[h] = req'[v].prev
               PROVE  h = req'[v].row /\ req'[v].op # "cleanup"
    BY DEF PrevOfRow
  <2>1. CASE v = w
    BY <1>1, <1>2, <2>1, FileOps DEF FilesInv, OneName
  <2>2. CASE v # w
    BY <1>1, <2>2 DEF FilesInv, PrevOfRow
  <2> QED
    BY <2>1, <2>2
<1>7. NewUnused'
  <2> SUFFICES ASSUME NEW v \in Workers, Pending(v)'
               PROVE  ForItsRow(v)'
    BY DEF NewUnused
  <2>1. v # w /\ req'[v] = req[v] /\ Pending(v)
    BY <1>1, <1>2 DEF Pending
  <2>2. \A u \in Workers \ {v} : Pending(u)' => Pending(u) /\ req'[u] = req[u]
    BY <1>1, <1>2 DEF Pending
  <2>3. req[v].new \notin pasted =>
            \A u \in Workers : req'[u].op \in Ops => req'[u].prev # req[v].new
    BY <1>1, <2>1, FileOps DEF FilesInv, NewUnused, ForItsRow
  <2> QED
    BY <2>1, <2>2, <2>3 DEF FilesInv, NewUnused, ForItsRow
<1>8. DanglesOnlyInFlight'
  <2> SUFFICES ASSUME NEW h \in Rows, names[h] \in Files \ (stored \cup pasted)
               PROVE  /\ h \notin Logos \cup Covers
                      /\ \/ h \in failed'
                         \/ \E v \in Workers : req'[v].op \in DeletedAlready /\ req'[v].row = h
    BY DEF DanglesOnlyInFlight
  <2>1. /\ h \notin Logos \cup Covers
        /\ \/ h \in failed
           \/ \E v \in Workers : req[v].op \in DeletedAlready /\ req[v].row = h
    BY DEF FilesInv, DanglesOnlyInFlight
  <2> QED
    BY <1>1, <2>1
<1> QED
  BY <1>3, <1>4, <1>5, <1>6, <1>7, <1>8 DEF FilesInv

(* A file is saved under a name nobody has seen.                           *)
LEMMA FileSaved ==
    ASSUME FilesInv, NEW w \in Workers, NEW f \in Files \ minted,
           minted' = minted \cup {f}, stored' = stored \cup {f},
           UNCHANGED <<names, pasted, failed>>,
           NEW r \in Job', req' = [req EXCEPT ![w] = r], r.new = f,
           \/ /\ r.op = "commit" /\ req[w].op = "set"
              /\ r.row = req[w].row /\ r.prev = req[w].prev
           \/ /\ r.op = "recommit" /\ req[w].op = "resave"
              /\ r.row = req[w].row /\ r.prev = req[w].prev
           \/ r.op = "insert" /\ req[w] = IdleReq /\ r.prev = NoFile
    PROVE  FilesInv'
<1>1. \A v \in Workers : req'[v] = IF v = w THEN r ELSE req[v]
  BY DEF FilesInv, FilesTyped
<1>2. FilesTyped'
  BY <1>1 DEF FilesInv, FilesTyped, Job
<1>3. \A h \in Rows : names[h] # f /\ (names[h] \in minted' => names[h] \in minted)
  BY FileOps DEF FilesInv, FilesTyped
<1>4. \A v \in Workers : req[v].op \in Ops =>
          req[v].prev \in minted \cup {NoFile} /\ req[v].new \in minted \cup {NoFile}
  BY FileOps DEF FilesInv, FilesTyped, Job
<1>5. f \notin pasted /\ f # NoFile
  BY FileOps DEF FilesInv, FilesTyped
<1>6. {"set", "resave", "commit", "recommit", "insert"} \subseteq Ops
      /\ "resave" \in DeletedAlready
  BY DEF Ops, DeletesFirst, DeletedAlready
<1>7. RowsFit'
  BY <1>1, <1>6, FileOps DEF FilesInv, RowsFit
<1>8. OneName'
  BY <1>3 DEF FilesInv, OneName
<1>9. PrevOfRow'
  <2> SUFFICES ASSUME NEW v \in Workers, NEW h \in Rows, req'[v].op \in Ops,
                      req'[v].prev \in minted' \ pasted, names[h] = req'[v].prev
               PROVE  h = req'[v].row /\ req'[v].op # "cleanup"
    BY DEF PrevOfRow
  <2>1. CASE v = w
    <3>1. r.prev = names[h] /\ r.prev # NoFile
      BY <1>1, <1>3, <2>1, FileOps DEF FilesInv, FilesTyped
    <3>2. r.prev = req[w].prev /\ r.row = req[w].row /\ req[w].op \in Ops
      BY <1>6, <3>1
    <3>3. req[w].prev \in minted \ pasted
      BY <1>1, <1>3, <2>1, <3>2
    <3> QED
      BY <1>1, <2>1, <3>1, <3>2, <3>3 DEF FilesInv, PrevOfRow
  <2>2. CASE v # w
    BY <1>1, <1>3, <2>2 DEF FilesInv, PrevOfRow
  <2> QED
    BY <2>1, <2>2
<1>10. NewUnused'
  <2> SUFFICES ASSUME NEW v \in Workers, Pending(v)'
               PROVE  ForItsRow(v)'
    BY DEF NewUnused
  <2>1. \A u \in Workers : req'[u].op \in Ops =>
            req'[u].prev \in minted \cup {NoFile}
            /\ (u # w => req'[u] = req[u] /\ req[u].op \in Ops)
            /\ (u = w => req'[u].prev = NoFile \/ (req[w].op \in Ops /\ req'[u].prev = req[w].prev))
    BY <1>1, <1>4, <1>6
  <2>2. CASE v = w
    <3>1. \A u \in Workers \ {w} : Pending(u)' => req'[u].new # f
      BY <1>1, <1>4, <1>5, FileOps DEF Pending
    <3>2. \A u \in Workers : req'[u].op \in Ops => req'[u].prev # f
      BY <1>5, <2>1
    <3> QED
      BY <1>1, <1>3, <2>2, <3>1, <3>2 DEF ForItsRow
  <2>3. CASE v # w
    <3>1. Pending(v) /\ req'[v] = req[v] /\ ForItsRow(v)
      BY <1>1, <2>3 DEF Pending, FilesInv, NewUnused
    <3>2. req[v].new # f /\ req[v].new # NoFile
      BY <1>5, <3>1, FileOps DEF ForItsRow, FilesInv, FilesTyped
    <3>3. \A u \in Workers \ {v} : Pending(u)' => u = w \/ (Pending(u) /\ req'[u] = req[u])
      BY <1>1 DEF Pending
    <3>4. req[v].new \notin pasted =>
              \A u \in Workers : req'[u].op \in Ops => req'[u].prev # req[v].new
      BY <2>1, <3>1, <3>2 DEF ForItsRow
    <3> QED
      BY <1>1, <3>1, <3>2, <3>3, <3>4 DEF ForItsRow
  <2> QED
    BY <2>2, <2>3
<1>11. DanglesOnlyInFlight'
  <2> SUFFICES ASSUME NEW h \in Rows, names[h] \in Files \ (stored \cup pasted)
               PROVE  /\ h \notin Logos \cup Covers
                      /\ \/ h \in failed
                         \/ \E v \in Workers : req'[v].op \in DeletedAlready /\ req'[v].row = h
    BY DEF DanglesOnlyInFlight
  <2>1. req[w].op \in DeletedAlready => r.op \in DeletedAlready /\ r.row = req[w].row
    BY FileOps
  <2> QED
    BY <1>1, <2>1 DEF FilesInv, DanglesOnlyInFlight
<1> QED
  BY <1>2, <1>7, <1>8, <1>9, <1>10, <1>11 DEF FilesInv

(* A row is given its new name, or none, or a file by hand.                *)
LEMMA NameWritten ==
    ASSUME FilesInv, NEW w \in Workers, NEW h \in Rows, NEW x,
           names' = [names EXCEPT ![h] = x], UNCHANGED <<minted, stored, failed>>,
           pasted \subseteq pasted', pasted' \subseteq minted,
           \/ x \in {NoFile, Gone} \cup pasted'
           \/ Pending(w) /\ x = req[w].new,
           NEW r, req' = [req EXCEPT ![w] = r],
           \/ r = IdleReq
           \/ /\ r \in Job /\ r.op = "cleanup" /\ req[w].op \in Ops
              /\ h = req[w].row /\ r.row = h /\ r.prev = req[w].prev,
           req[w].op \in DeletedAlready => h = req[w].row
    PROVE  FilesInv'
<1>1. \A v \in Workers : req'[v] = IF v = w THEN r ELSE req[v]
  BY DEF FilesInv, FilesTyped
<1>2. \A g \in Rows : names'[g] = IF g = h THEN x ELSE names[g]
  BY DEF FilesInv, FilesTyped
<1>3. Pending(w) => req[w].new \in minted /\ ForItsRow(w) /\ req[w].op \in Ops
  BY FileOps DEF FilesInv, FilesTyped, NewUnused, ForItsRow, Pending
<1>4. FilesTyped'
  <2>1. names' \in [Rows -> minted \cup {NoFile, NoRow, Gone}]
    BY <1>3 DEF FilesInv, FilesTyped
  <2> QED
    BY <1>1, <2>1 DEF FilesInv, FilesTyped, Job
<1>5. RowsFit'
  BY <1>1, FileOps DEF FilesInv, RowsFit
<1>6. x \in minted \ pasted' => Pending(w) /\ x = req[w].new
  BY FileOps DEF FilesInv, FilesTyped
<1>7. x \in minted \ pasted' =>
          /\ \A g \in Rows : names[g] # x
          /\ \A v \in Workers : req[v].op \in Ops => req[v].prev # x
          /\ \A v \in Workers \ {w} : Pending(v) => req[v].new # x
  BY <1>3, <1>6 DEF ForItsRow
<1>8. OneName'
  BY <1>2, <1>7 DEF FilesInv, OneName
<1>9. PrevOfRow'
  <2> SUFFICES ASSUME NEW v \in Workers, NEW g \in Rows, req'[v].op \in Ops,
                      req'[v].prev \in minted \ pasted', names'[g] = req'[v].prev
               PROVE  g = req'[v].row /\ req'[v].op # "cleanup"
    BY DEF PrevOfRow
  <2>1. req[v].op \in Ops /\ req[v].prev = req'[v].prev
    BY <1>1, FileOps
  <2>2. g # h /\ names[g] = req[v].prev
    BY <1>2, <1>7, <2>1
  <2>3. g = req[v].row /\ req[v].op # "cleanup"
    BY <2>1, <2>2 DEF FilesInv, PrevOfRow
  <2>4. v # w
    BY <1>1, <2>2, <2>3, FileOps
  <2> QED
    BY <1>1, <2>3, <2>4
<1>10. NewUnused'
  <2> SUFFICES ASSUME NEW v \in Workers, Pending(v)'
               PROVE  ForItsRow(v)'
    BY DEF NewUnused
  <2>1. v # w /\ req'[v] = req[v] /\ Pending(v) /\ ForItsRow(v)
    BY <1>1, FileOps DEF Pending, FilesInv, NewUnused
  <2>2. req[v].new \in minted
    BY <2>1 DEF ForItsRow, FilesInv, FilesTyped
  <2>3. req[v].new \notin pasted' => x # req[v].new
    BY <1>7, <2>1, <2>2
  <2>4. \A u \in Workers : req'[u].op \in Ops =>
            req[u].op \in Ops /\ req[u].prev = req'[u].prev
    BY <1>1, FileOps
  <2>5. \A u \in Workers \ {v} : Pending(u)' => Pending(u) /\ req'[u] = req[u]
    BY <1>1, FileOps DEF Pending
  <2> QED
    BY <1>2, <2>1, <2>3, <2>4, <2>5 DEF ForItsRow
<1>11. DanglesOnlyInFlight'
  <2> SUFFICES ASSUME NEW g \in Rows, names'[g] \in Files \ (stored \cup pasted')
               PROVE  /\ g \notin Logos \cup Covers
                      /\ \/ g \in failed
                         \/ \E v \in Workers : req'[v].op \in DeletedAlready /\ req'[v].row = g
    BY DEF DanglesOnlyInFlight
  <2>1. g # h
    BY <1>2, <1>3, FileOps DEF ForItsRow
  <2> QED
    BY <1>1, <1>2, <2>1 DEF FilesInv, DanglesOnlyInFlight
<1> QED
  BY <1>4, <1>5, <1>8, <1>9, <1>10, <1>11 DEF FilesInv

(* What a request read as the file of its row is deleted, or not: the      *)
(* request has committed another name, or is about to.                     *)
LEMMA FileDeleted ==
    ASSUME FilesInv, NEW w \in Workers, UNCHANGED <<minted, names, pasted, failed>>,
           stored' \in {stored, stored \ {req[w].prev}},
           NEW r, req' = [req EXCEPT ![w] = r],
           \/ r = IdleReq /\ req[w].op = "cleanup"
           \/ /\ req[w].op \in {"replace", "unset", "drop"}
              /\ r \in Job /\ r.op \in {"resave", "unnamed", "dropped"} /\ r.row = req[w].row
              /\ r.prev = req[w].prev /\ r.new = req[w].new
    PROVE  FilesInv'
<1>1. \A v \in Workers : req'[v] = IF v = w THEN r ELSE req[v]
  BY DEF FilesInv, FilesTyped
<1>2. /\ {"replace", "unset", "drop", "resave", "unnamed", "dropped"} \subseteq DeletesFirst
      /\ {"resave", "unnamed", "dropped"} \subseteq DeletedAlready
      /\ {"replace", "unset", "drop", "cleanup"} \cap DeletedAlready = {}
  BY DEF DeletesFirst, DeletedAlready
<1>3. req[w].op \in Ops
  BY <1>2, FileOps
<1>4. FilesTyped'
  BY <1>1 DEF FilesInv, FilesTyped, Job
<1>5. RowsFit'
  BY <1>1, <1>2, FileOps DEF FilesInv, RowsFit
<1>6. OneName'
  BY DEF FilesInv, OneName
<1>7. PrevOfRow'
  BY <1>1, <1>3, FileOps DEF FilesInv, PrevOfRow
<1>8. NewUnused'
  <2> SUFFICES ASSUME NEW v \in Workers, Pending(v)'
               PROVE  ForItsRow(v)'
    BY DEF NewUnused
  <2>1. v # w /\ req'[v] = req[v] /\ Pending(v) /\ ForItsRow(v)
    BY <1>1, FileOps DEF Pending, FilesInv, NewUnused
  <2>2. req[v].new \in stored' \cup pasted
    BY <1>3, <2>1 DEF ForItsRow
  <2>3. \A u \in Workers : req'[u].op \in Ops =>
            req[u].op \in Ops /\ req[u].prev = req'[u].prev
    BY <1>1, <1>3, FileOps
  <2>4. \A u \in Workers \ {v} : Pending(u)' => Pending(u) /\ req'[u] = req[u]
    BY <1>1, FileOps DEF Pending
  <2> QED
    BY <2>1, <2>2, <2>3, <2>4 DEF ForItsRow
<1>9. DanglesOnlyInFlight'
  <2> SUFFICES ASSUME NEW g \in Rows, names[g] \in Files \ (stored' \cup pasted)
               PROVE  /\ g \notin Logos \cup Covers
                      /\ \/ g \in failed
                         \/ \E v \in Workers : req'[v].op \in DeletedAlready /\ req'[v].row = g
    BY DEF DanglesOnlyInFlight
  <2>1. CASE names[g] \in stored
    <3>1. names[g] = req[w].prev /\ names[g] \in minted \ pasted
      BY <2>1 DEF FilesInv, FilesTyped
    <3>2. g = req[w].row /\ req[w].op # "cleanup"
      BY <1>3, <3>1 DEF FilesInv, PrevOfRow
    <3>3. g \in Quotes \cup Invoices \cup Media
      BY <1>2, <3>2 DEF FilesInv, RowsFit
    <3> QED
      BY <1>1, <1>2, <3>2, <3>3, StorageAssumption
  <2>2. CASE names[g] \notin stored
    <3>1. req[w].op \notin DeletedAlready
      BY <1>2
    <3> QED
      BY <1>1, <2>2, <3>1 DEF FilesInv, DanglesOnlyInFlight
  <2> QED
    BY <2>1, <2>2
<1> QED
  BY <1>4, <1>5, <1>6, <1>7, <1>8, <1>9 DEF FilesInv

(* A request goes on.                                                      *)
LEMMA JobMoved ==
    ASSUME NEW r \in Job, NEW op \in Ops
    PROVE  LET s == [r EXCEPT !.op = op]
           IN s \in Job /\ s.op = op /\ s.row = r.row /\ s.prev = r.prev /\ s.new = r.new
  BY DEF Job

LEMMA BeginKeeps ==
    ASSUME FilesInv, NEW w \in Workers, NEW op \in {"set", "clear", "replace", "unset", "drop"},
           NEW h \in Rows, Begin(w, op, h),
           op \in {"replace", "unset", "drop"} => h \in Quotes \cup Invoices \cup Media
    PROVE  FilesInv'
<1> DEFINE r == [op |-> op, row |-> h, prev |-> names[h], new |-> NoFile]
<1>1. names[h] \in minted \cup {NoFile}
  BY DEF Begin, There, FilesInv, FilesTyped
<1>2. op \in Ops /\ (op \in DeletesFirst => op \in {"replace", "unset", "drop"})
  BY DEF Ops, DeletesFirst, DeletedAlready
<1>3. /\ r \in Job /\ r.op = op /\ r.row = h /\ r.prev = names[h] /\ r.new = NoFile
  BY <1>1, <1>2 DEF Job
<1>4. req' = [req EXCEPT ![w] = r] /\ UNCHANGED storage /\ req[w] = IdleReq
  BY DEF Begin, Ask, Free
<1> HIDE DEF r
<1> QED
  BY <1>2, <1>3, <1>4, FileOps, FilesKept DEF storage

LEMMA FilesStep == FilesInv /\ [StorageNext]_<<storage, req>> => FilesInv'
<1> SUFFICES ASSUME FilesInv, [StorageNext]_<<storage, req>>
             PROVE  FilesInv'
  OBVIOUS
<1>0. CASE UNCHANGED <<storage, req>>
  BY <1>0 DEF storage, FilesInv, FilesTyped, Job, RowsFit, OneName, PrevOfRow, NewUnused,
              ForItsRow, Pending, DanglesOnlyInFlight
<1> SUFFICES ASSUME NEW w \in Workers, StorageStep(w)
             PROVE  FilesInv'
  BY <1>0 DEF StorageNext
<1>1. Logos \cup Covers \cup Quotes \cup Invoices \cup Media = Rows
  BY DEF Rows
<1>2. CASE \/ SetLogo(w) \/ SetCoverPhoto(w) \/ SetQuoteAttachment(w)
           \/ ClearLogo(w) \/ ClearCoverPhoto(w) \/ ClearQuoteAttachment(w)
  <2> PICK h \in Rows, op \in {"set", "clear"} : Begin(w, op, h)
    BY <1>1, <1>2 DEF SetLogo, SetCoverPhoto, SetQuoteAttachment, ClearLogo,
                      ClearCoverPhoto, ClearQuoteAttachment
  <2> QED
    BY BeginKeeps
<1>3. CASE \/ UploadInvoice(w) \/ DeleteInvoice(w) \/ DeleteTransactionRow(w)
           \/ DeleteQuote(w) \/ DeleteMedia(w)
  <2> PICK h \in Quotes \cup Invoices \cup Media, op \in {"replace", "unset", "drop"} :
          Begin(w, op, h)
    BY <1>3 DEF UploadInvoice, DeleteInvoice, DeleteTransactionRow, DeleteQuote, DeleteMedia
  <2> QED
    BY <1>1, BeginKeeps
<1>4. CASE SaveNew(w) \/ SaveAgain(w)
  <2>1. PICK r : r = req[w]
    OBVIOUS
  <2>2. r \in Job /\ r.op \in {"set", "resave"}
    BY <1>4, <2>1, FileOps
       DEF SaveNew, SaveAgain, Serving, IdleReq, FilesInv, FilesTyped
  <2>3. CASE \E next \in {"commit", "recommit"} :
                SaveFile(w, next) /\ UNCHANGED <<names, pasted, failed>>
                /\ (next = "commit" <=> r.op = "set")
    <3> PICK next \in {"commit", "recommit"} :
            SaveFile(w, next) /\ UNCHANGED <<names, pasted, failed>>
            /\ (next = "commit" <=> r.op = "set")
      BY <2>3
    <3> PICK f \in Files \ minted :
            /\ minted' = minted \cup {f} /\ stored' = stored \cup {f}
            /\ Ask(w, [req[w] EXCEPT !.op = next, !.new = f])
      BY DEF SaveFile
    <3>1. PICK s : s = [r EXCEPT !.op = next, !.new = f]
      OBVIOUS
    <3>2. next \in Ops
      BY FileOps
    <3>3. s \in Job' /\ s.op = next /\ s.row = r.row /\ s.prev = r.prev /\ s.new = f
      BY <2>2, <3>1, <3>2 DEF Job
    <3>4. req' = [req EXCEPT ![w] = s]
      BY <2>1, <3>1 DEF Ask
    <3> QED
      BY <2>1, <2>2, <3>3, <3>4, FileSaved
  <2>4. CASE Serving(w, "resave") /\ failed' = failed \cup {req[w].row} /\ Answer(w)
             /\ UNCHANGED <<minted, stored, names, pasted>>
    BY <2>4, FilesKept DEF Answer, Ask
  <2> QED
    BY <1>4, <2>1, <2>2, <2>3, <2>4 DEF SaveNew, SaveAgain, Serving
<1>5. CASE CommitName(w)
  <2>1. PICK r : r = req[w]
    OBVIOUS
  <2>2. r \in Job /\ r.op \in {"commit", "clear"} /\ r.op \in Ops
    BY <1>5, <2>1, FileOps DEF CommitName, IdleReq, FilesInv, FilesTyped
  <2>3. PICK s : s = [r EXCEPT !.op = "cleanup"]
    OBVIOUS
  <2>4. s \in Job /\ s.op = "cleanup" /\ s.row = r.row /\ s.prev = r.prev
    BY <2>2, <2>3, JobMoved, FileOps
  <2>5. r.row \in Rows /\ (r.op = "clear" => r.new = NoFile)
    BY <2>1, <2>2 DEF FilesInv, RowsFit
  <2>6. /\ names' = [names EXCEPT ![r.row] = r.new] /\ req' = [req EXCEPT ![w] = s]
        /\ UNCHANGED <<minted, stored, pasted, failed>>
    BY <1>5, <2>1, <2>3 DEF CommitName, Goto, Ask
  <2>7. r.op = "commit" => Pending(w)
    BY <2>1 DEF Pending
  <2>8. req[w].op \notin DeletedAlready /\ pasted \subseteq minted
    BY <2>1, <2>2 DEF DeletedAlready, FilesInv, FilesTyped
  <2> QED
    BY <2>1, <2>2, <2>4, <2>5, <2>6, <2>7, <2>8, NameWritten
<1>6. CASE Cleanup(w)
  BY <1>6, FileDeleted DEF Cleanup, DeleteFile, Answer, Ask, Serving
<1>7. CASE PasteCover(w)
  <2> PICK h \in Covers, f \in minted :
          names' = [names EXCEPT ![h] = f] /\ pasted' = pasted \cup {f}
    BY <1>7 DEF PasteCover
  <2>1. req[w] = IdleReq /\ req' = [req EXCEPT ![w] = IdleReq] /\ IdleReq.op \notin DeletedAlready
    BY <1>7, FileOps DEF PasteCover, Free, FilesInv, FilesTyped
  <2>2. h \in Rows /\ pasted \subseteq pasted' /\ pasted' \subseteq minted /\ f \in pasted'
    BY <1>1 DEF FilesInv, FilesTyped
  <2>3. UNCHANGED <<minted, stored, failed>>
    BY <1>7 DEF PasteCover
  <2> QED
    BY <2>1, <2>2, <2>3, NameWritten
<1>8. CASE DeleteProject(w)
  <2> PICK h \in Covers : names' = [names EXCEPT ![h] = Gone]
    BY <1>8 DEF DeleteProject
  <2>1. req[w] = IdleReq /\ req' = [req EXCEPT ![w] = IdleReq] /\ IdleReq.op \notin DeletedAlready
    BY <1>8, FileOps DEF DeleteProject, Free, FilesInv, FilesTyped
  <2>2. h \in Rows /\ pasted \subseteq minted
    BY <1>1 DEF FilesInv, FilesTyped
  <2>3. UNCHANGED <<minted, stored, pasted, failed>>
    BY <1>8 DEF DeleteProject
  <2> QED
    BY <2>1, <2>2, <2>3, NameWritten
<1>9. CASE DeleteFirst(w)
  <2>1. PICK r : r = req[w]
    OBVIOUS
  <2>2. r \in Job /\ r.op \in {"replace", "unset", "drop"}
    BY <1>9, <2>1 DEF DeleteFirst, IdleReq, FilesInv, FilesTyped
  <2>3. PICK op \in {"resave", "unnamed", "dropped"} : op = After(r.op)
    BY <2>2 DEF After
  <2>4. PICK s : s = [r EXCEPT !.op = op]
    OBVIOUS
  <2>5. op \in Ops
    BY DEF Ops, DeletesFirst, DeletedAlready
  <2>6. s \in Job /\ s.op = op /\ s.row = r.row /\ s.prev = r.prev /\ s.new = r.new
    BY <2>2, <2>4, <2>5, JobMoved
  <2>7. /\ req' = [req EXCEPT ![w] = s] /\ stored' \in {stored, stored \ {r.prev}}
        /\ UNCHANGED <<minted, names, pasted, failed>>
    BY <1>9, <2>1, <2>3, <2>4 DEF DeleteFirst, DeleteFile, Goto, Ask
  <2> QED
    BY <2>1, <2>2, <2>6, <2>7, FileDeleted
<1>10. CASE CommitAfterDelete(w)
  <2>1. req[w].op \in {"recommit", "unnamed", "dropped"} /\ req[w].op \in Ops \ {"insert"}
    BY <1>10 DEF CommitAfterDelete, Ops, DeletesFirst, DeletedAlready
  <2>2. req[w].row \in Rows /\ (req[w].op = "unnamed" => req[w].new = NoFile)
    BY <2>1 DEF FilesInv, RowsFit
  <2>3. PICK x : x = IF Serving(w, "dropped") THEN Gone ELSE req[w].new
    OBVIOUS
  <2>4. x \in {NoFile, Gone} \/ (Pending(w) /\ x = req[w].new)
    BY <2>1, <2>2, <2>3 DEF Serving, Pending
  <2>5. /\ names' = [names EXCEPT ![req[w].row] = x] /\ req' = [req EXCEPT ![w] = IdleReq]
        /\ UNCHANGED <<minted, stored, pasted, failed>> /\ pasted \subseteq minted
    BY <1>10, <2>3 DEF CommitAfterDelete, Answer, Ask, FilesInv, FilesTyped
  <2> QED
    BY <2>2, <2>4, <2>5, NameWritten
<1>11. CASE UploadMedia(w)
  <2> PICK f \in Files \ minted :
          /\ minted' = minted \cup {f} /\ stored' = stored \cup {f}
          /\ Ask(w, [op |-> "insert", row |-> NoRow, prev |-> NoFile, new |-> f])
    BY <1>11 DEF UploadMedia
  <2>1. PICK s : s = [op |-> "insert", row |-> NoRow, prev |-> NoFile, new |-> f]
    OBVIOUS
  <2>2. s \in Job' /\ s.op = "insert" /\ s.prev = NoFile /\ s.new = f
    BY <2>1, FileOps DEF Job
  <2>3. req' = [req EXCEPT ![w] = s] /\ req[w] = IdleReq /\ UNCHANGED <<names, pasted, failed>>
    BY <1>11, <2>1 DEF UploadMedia, Ask, Free
  <2> QED
    BY <2>2, <2>3, FileSaved
<1>12. CASE InsertMedia(w)
  <2> PICK h \in Media : names' = [names EXCEPT ![h] = req[w].new]
    BY <1>12 DEF InsertMedia
  <2>1. Pending(w) /\ req[w].op \notin DeletedAlready /\ h \in Rows /\ pasted \subseteq minted
    BY <1>1, <1>12 DEF InsertMedia, Serving, Pending, DeletedAlready, FilesInv, FilesTyped
  <2>2. req' = [req EXCEPT ![w] = IdleReq] /\ UNCHANGED <<minted, stored, pasted, failed>>
    BY <1>12 DEF InsertMedia, Answer, Ask
  <2> QED
    BY <2>1, <2>2, NameWritten
<1>13. CASE StorageCrash(w)
  BY <1>13, FilesKept DEF StorageCrash, Dies, Answer, Ask
<1> QED
  BY <1>2, <1>3, <1>4, <1>5, <1>6, <1>7, <1>8, <1>9, <1>10, <1>11, <1>12, <1>13 DEF StorageStep

LEMMA FilesStart == StorageInit /\ NoRequest => FilesInv
<1> SUFFICES ASSUME StorageInit, NoRequest
             PROVE  FilesInv
  OBVIOUS
<1>1. \A w \in Workers : req[w] = IdleReq /\ req[w].op \notin Ops /\ ~Pending(w)
  BY FileOps DEF NoRequest, Pending
<1>2. FilesTyped
  BY <1>1 DEF StorageInit, NoRequest, FilesTyped
<1>3. \A h \in Rows : names[h] \notin Files
  BY FileOps DEF StorageInit
<1>4. RowsFit
  BY <1>1, FileOps DEF RowsFit
<1> QED
  BY <1>1, <1>2, <1>3, <1>4
     DEF StorageInit, FilesInv, OneName, PrevOfRow, NewUnused, DanglesOnlyInFlight

(* For any rows, files and workers: no logo or cover names a file that is  *)
(* gone, but by a URL written by hand; any other row that does belongs to  *)
(* a request of the kind that deletes first, under way, dead or refused.   *)
THEOREM DanglesInFlight == StorageSpec => []DanglesOnlyInFlight
<1>1. FilesInv => DanglesOnlyInFlight
  BY DEF FilesInv
<1> QED
  BY <1>1, FilesStart, FilesStep, PTL DEF StorageSpec
-----------------------------------------------------------------------------
(* Stock.                                                                  *)

Amount == 0 .. MaxStock
MovementRow == [prev : Amount, new : Amount, by : Workers]
Movement == [op : {"move"}, prev : Amount, new : Amount, scrap : BOOLEAN]
StockTyped ==
    /\ asset \in [qty : Amount, scrapped : BOOLEAN, there : BOOLEAN]
    /\ moves \in Seq(MovementRow)
    /\ req = [w \in Workers |-> req[w]]
    /\ \A w \in Workers : req[w] \in Movement \cup {IdleReq}

(* Nothing moves an asset that does not exist yet.                         *)
NoneBefore == asset = NoAsset => moves = <<>> /\ \A w \in Workers : req[w] = IdleReq

(* A movement under way starts from the stock as it is, or another worker  *)
(* has recorded one since it was read.                                     *)
LastByOther(w) == Len(moves) > 0 /\ moves[Len(moves)].by # w
MovesFromStock ==
    \A w \in Workers : asset.there /\ Serving(w, "move") =>
        req[w].prev = asset.qty \/ LastByOther(w)

(* The stock is what the latest movement says, but where that one left the *)
(* quantity as it had been read, and another worker's was before it.       *)
LatestTells ==
    asset.there /\ Len(moves) > 0 /\ asset.qty # moves[Len(moves)].new =>
        /\ Len(moves) > 1
        /\ moves[Len(moves) - 1].by # moves[Len(moves)].by
        /\ moves[Len(moves)].prev = moves[Len(moves)].new

(* Movement i starts where the one before it ended, or they tell of a race.*)
Continued(s, i) ==
    s[i + 1].prev # s[i].new =>
        \/ s[i].by # s[i + 1].by
        \/ i > 1 /\ s[i].prev = s[i].new /\ s[i - 1].by # s[i].by
MovesContinue == \A i \in 1 .. Len(moves) - 1 : Continued(moves, i)

StockInv ==
    StockTyped /\ NoneBefore /\ MovesFromStock /\ LatestTells /\ MovesContinue
             /\ (~asset.there => moves = <<>>)

LEMMA StockStart == StockInit /\ NoRequest => StockInv
BY StockAssumption
   DEF StockInit, NoRequest, StockInv, StockTyped, NoneBefore, MovesFromStock, LatestTells,
       MovesContinue, NoAsset, Amount, Serving, IdleReq

(* Only a request begins or dies.                                          *)
LEMMA StockKept ==
    ASSUME StockInv, UNCHANGED stock, NEW w \in Workers, NEW r \in Movement \cup {IdleReq},
           req' = [req EXCEPT ![w] = r],
           r # IdleReq => asset.there /\ r.prev = asset.qty
    PROVE  StockInv'
<1>1. \A v \in Workers : req'[v] = IF v = w THEN r ELSE req[v]
  BY DEF StockInv, StockTyped
<1>2. StockTyped'
  BY <1>1 DEF StockInv, StockTyped, stock
<1>3. NoneBefore'
  BY <1>1 DEF StockInv, NoneBefore, stock, NoAsset
<1>4. MovesFromStock'
  <2> SUFFICES ASSUME NEW v \in Workers, asset.there, req'[v].op = "move"
               PROVE  req'[v].prev = asset.qty \/ LastByOther(v)
    BY DEF MovesFromStock, stock, Serving, LastByOther
  <2>1. CASE v = w
    BY <1>1, <2>1 DEF IdleReq
  <2>2. CASE v # w
    BY <1>1, <2>2 DEF StockInv, MovesFromStock, Serving
  <2> QED
    BY <2>1, <2>2
<1>5. LatestTells' /\ MovesContinue' /\ (~asset'.there => moves' = <<>>)
  BY DEF StockInv, LatestTells, MovesContinue, Continued, stock
<1> QED
  BY <1>2, <1>3, <1>4, <1>5 DEF StockInv

(* The row of the asset changes and no movement is recorded.               *)
LEMMA AssetChanged ==
    ASSUME StockInv, asset.there, UNCHANGED <<moves, req>>, NEW b \in BOOLEAN,
           asset' = [asset EXCEPT !.scrapped = b]
    PROVE  StockInv'
<1>1. asset'.qty = asset.qty /\ asset'.there /\ StockTyped' /\ asset' # NoAsset
  BY DEF StockInv, StockTyped, NoAsset
<1> QED
  BY <1>1 DEF StockInv, NoneBefore, MovesFromStock, LatestTells, MovesContinue, Continued,
       LastByOther, Serving

LEMMA Recorded ==
    ASSUME StockInv, NEW w \in Workers, MovementRecorded(w)
    PROVE  StockInv'
<1> DEFINE r == req[w]
           m == [prev |-> r.prev, new |-> r.new, by |-> w]
           n == Len(moves)
<1>1. r \in Movement /\ asset.there /\ m \in MovementRow
  BY DEF StockInv, StockTyped, MovementRecorded, Serving, IdleReq, Movement, MovementRow
<1>2. /\ asset'.qty = (IF r.new # r.prev THEN r.new ELSE asset.qty)
      /\ asset' \in [qty : Amount, scrapped : BOOLEAN, there : BOOLEAN] /\ asset'.there
  BY <1>1 DEF StockInv, StockTyped, MovementRecorded, Movement
<1>3. moves' = Append(moves, m) /\ req' = [req EXCEPT ![w] = IdleReq]
  BY DEF MovementRecorded, Answer, Ask
<1>4. /\ moves' \in Seq(MovementRow) /\ Len(moves') = n + 1 /\ n \in Nat
      /\ \A i \in 1 .. n : moves'[i] = moves[i]
      /\ moves'[n + 1] = m
  BY <1>1, <1>3 DEF StockInv, StockTyped
<1>5. \A v \in Workers : req'[v] = IF v = w THEN IdleReq ELSE req[v]
  BY <1>3 DEF StockInv, StockTyped
<1> HIDE DEF r, m, n
<1>6. m.prev = r.prev /\ m.new = r.new /\ m.by = w
  BY DEF m
<1>7. r.prev = asset.qty \/ (n > 0 /\ moves[n].by # w)
  BY <1>1 DEF StockInv, MovesFromStock, LastByOther, MovementRecorded, r, n
<1>8. n > 0 /\ asset.qty # moves[n].new =>
          n > 1 /\ moves[n - 1].by # moves[n].by /\ moves[n].prev = moves[n].new
  BY <1>1 DEF StockInv, LatestTells, n
<1>9. StockTyped'
  BY <1>2, <1>3, <1>4, <1>5 DEF StockInv, StockTyped
<1>10. NoneBefore'
  BY <1>2 DEF NoneBefore, NoAsset
<1>11. MovesFromStock'
  <2> SUFFICES ASSUME NEW v \in Workers, req'[v].op = "move"
               PROVE  n + 1 > 0 /\ moves'[n + 1].by # v
    BY <1>4 DEF MovesFromStock, Serving, LastByOther
  <2>1. v # w
    BY <1>5 DEF IdleReq
  <2> QED
    BY <1>4, <1>6, <2>1
<1>12. LatestTells'
  <2> SUFFICES ASSUME asset'.qty # m.new
               PROVE  n > 0 /\ moves[n].by # w /\ m.prev = m.new
    BY <1>4, <1>6 DEF LatestTells
  <2> QED
    BY <1>2, <1>6, <1>7
<1>13. MovesContinue'
  <2> SUFFICES ASSUME NEW i \in 1 .. n
               PROVE  Continued(moves', i)
    BY <1>4 DEF MovesContinue
  <2>1. CASE i < n
    <3>1. Continued(moves, i)
      BY <1>4, <2>1 DEF StockInv, MovesContinue, n
    <3>2. moves'[i] = moves[i] /\ moves'[i + 1] = moves[i + 1]
      BY <1>4, <2>1
    <3>3. i > 1 => moves'[i - 1] = moves[i - 1]
      BY <1>4, <2>1
    <3> QED
      BY <3>1, <3>2, <3>3 DEF Continued
  <2>2. CASE i = n
    <3>1. moves'[i] = moves[n] /\ moves'[i + 1] = m /\ (n > 1 => moves'[i - 1] = moves[n - 1])
      BY <1>4, <2>2
    <3> QED
      BY <1>6, <1>7, <1>8, <2>2, <3>1 DEF Continued
  <2> QED
    BY <1>4, <2>1, <2>2
<1> QED
  BY <1>2, <1>9, <1>10, <1>11, <1>12, <1>13 DEF StockInv

LEMMA StockStep == StockInv /\ [StockNext]_<<stock, req>> => StockInv'
<1> SUFFICES ASSUME StockInv, [StockNext]_<<stock, req>>
             PROVE  StockInv'
  OBVIOUS
<1>1. CASE UNCHANGED <<stock, req>>
  BY <1>1 DEF StockInv, StockTyped, NoneBefore, MovesFromStock, LatestTells, MovesContinue,
     Continued, LastByOther, Serving, stock
<1> SUFFICES ASSUME NEW w \in Workers,
                    \/ CreateAsset(w) \/ UpdateAsset(w) \/ DeleteAsset(w)
                    \/ RecordMovement(w) \/ MovementRecorded(w) \/ StockCrash(w)
             PROVE  StockInv'
  BY <1>1 DEF StockNext
<1>2. CASE CreateAsset(w)
  <2> PICK a \in Asset : /\ asset' = a
                         /\ moves' = IF a.qty = 0 THEN <<>> ELSE
                               <<[prev |-> 0, new |-> a.qty, by |-> w]>>
    BY <1>2 DEF CreateAsset
  <2>1. /\ asset' \in [qty : Amount, scrapped : BOOLEAN, there : BOOLEAN] /\ asset'.there
        /\ asset' # NoAsset
    <3>1. a \in [qty : Amount, scrapped : BOOLEAN, there : BOOLEAN] /\ a.there
      BY DEF Asset, Amount
    <3>2. ~NoAsset.there
      BY DEF NoAsset
    <3> QED
      BY <3>1, <3>2
  <2>2. /\ \A v \in Workers : req'[v] = IdleReq /\ req'[v].op # "move"
        /\ req' = [v \in Workers |-> req'[v]]
    BY <1>2 DEF CreateAsset, StockInv, StockTyped, NoneBefore, IdleReq
  <2>3. CASE a.qty = 0
    <3>1. moves' = <<>> /\ moves' \in Seq(MovementRow) /\ Len(moves') = 0
      BY <2>3
    <3> QED
      BY <2>1, <2>2, <3>1 DEF StockInv, StockTyped, NoneBefore, MovesFromStock, LatestTells,
         MovesContinue, Serving
  <2>4. CASE a.qty # 0
    <3>1. PICK x : x = [prev |-> 0, new |-> a.qty, by |-> w]
      OBVIOUS
    <3>2. x \in MovementRow /\ x.new = asset'.qty
      BY <3>1, StockAssumption DEF MovementRow, Amount, Asset
    <3>3. moves' = <<x>>
      BY <2>4, <3>1
    <3>4. /\ <<x>> \in Seq(MovementRow)
          /\ Len(<<x>>) = 1
          /\ <<x>>[1] = x
      BY <3>2
    <3>5. moves' \in Seq(MovementRow) /\ Len(moves') = 1 /\ moves'[1] = x
      BY <3>3, <3>4
    <3> QED
      BY <2>1, <2>2, <3>2, <3>5 DEF StockInv, StockTyped, NoneBefore, MovesFromStock,
         LatestTells, MovesContinue, Serving
  <2> QED
    BY <2>3, <2>4
<1>3. CASE UpdateAsset(w)
  <2>1. PICK b \in BOOLEAN : b = ~asset.scrapped
    OBVIOUS
  <2> QED
    BY <1>3, <2>1, AssetChanged DEF UpdateAsset
<1>4. CASE DeleteAsset(w)
  <2>1. /\ asset' \in [qty : Amount, scrapped : BOOLEAN, there : BOOLEAN] /\ ~asset'.there
        /\ asset' # NoAsset
    <3>1. PICK z : z = NoAsset
      OBVIOUS
    <3>2. z \in [qty : Amount, scrapped : BOOLEAN, there : BOOLEAN] /\ ~z.there /\ ~z.scrapped
      BY <3>1, StockAssumption DEF NoAsset, Amount
    <3>3. asset' = [z EXCEPT !.scrapped = TRUE]
      BY <1>4, <3>1 DEF DeleteAsset, Removed
    <3>4. asset'.scrapped # NoAsset.scrapped
      BY <3>1, <3>2, <3>3
    <3> QED
      BY <3>2, <3>3, <3>4
  <2>2. moves' = <<>> /\ moves' \in Seq(MovementRow) /\ Len(moves') = 0 /\ UNCHANGED req
    BY <1>4 DEF DeleteAsset
  <2> QED
    BY <2>1, <2>2 DEF StockInv, StockTyped, NoneBefore, MovesFromStock, LatestTells, MovesContinue
<1>5. CASE RecordMovement(w)
  <2>1. PICK kind \in MovementType, k \in 0 .. MaxStock :
            /\ Valid(kind, k, asset.qty)
            /\ NewQuantity(kind, k, asset.qty) <= MaxStock
            /\ Ask(w, [op |-> "move", prev |-> asset.qty,
                       new |-> NewQuantity(kind, k, asset.qty),
                       scrap |-> kind = "BAIXA_PATRIMONIAL" /\ ~asset.scrapped])
    BY <1>5 DEF RecordMovement, Move
  <2>2. PICK new : new = NewQuantity(kind, k, asset.qty)
    OBVIOUS
  <2>3. new \in Amount /\ asset.qty \in Amount
    BY <2>1, <2>2, StockAssumption
       DEF NewQuantity, Valid, MovementType, Amount, StockInv, StockTyped
  <2>4. PICK b \in BOOLEAN : b = (kind = "BAIXA_PATRIMONIAL" /\ ~asset.scrapped)
    OBVIOUS
  <2>5. PICK r : r = [op |-> "move", prev |-> asset.qty, new |-> new, scrap |-> b]
    OBVIOUS
  <2>6. r \in Movement \cup {IdleReq} /\ r.prev = asset.qty
    BY <2>3, <2>5 DEF Movement
  <2>7. req' = [req EXCEPT ![w] = r] /\ asset.there /\ UNCHANGED stock
    BY <1>5, <2>1, <2>2, <2>4, <2>5 DEF RecordMovement, Ask
  <2> QED
    BY <2>6, <2>7, StockKept
<1>6. CASE MovementRecorded(w)
  BY <1>6, Recorded
<1>7. CASE StockCrash(w)
  BY <1>7, StockKept DEF StockCrash, Dies, Answer, Ask
<1> QED
  BY <1>2, <1>3, <1>4, <1>5, <1>6, <1>7

LEMMA StockTells == StockInv => StockLostOnlyByRace
<1> SUFFICES ASSUME StockInv
             PROVE  StockLostOnlyByRace
  OBVIOUS
<1>1. Len(moves) \in Nat /\ (moves # <<>> => Len(moves) > 0)
  BY DEF StockInv, StockTyped
<1>2. moves # <<>> => asset.there
  BY DEF StockInv
<1> QED
  BY <1>1, <1>2 DEF StockInv, LatestTells, MovesContinue, Continued, StockLostOnlyByRace, Last
-----------------------------------------------------------------------------
(* Projects.                                                               *)

Budget == 0 .. MaxBudget
PostRow == [prev : Budget, new : Budget, by : Workers]
Posting == [op : {"budget"}, prev : Budget, new : Budget]
ProjectsTyped ==
    /\ project \in Budget \cup {NoProject}
    /\ posts \in Seq(PostRow)
    /\ req = [w \in Workers |-> req[w]]
    /\ \A w \in Workers : Serving(w, "budget") => req[w] \in Posting

(* A budget to be written was computed from the one that stands, or        *)
(* another worker has written one since; the last one written stands.      *)
PostsFromBudget ==
    \A w \in Workers : Underway /\ Serving(w, "budget") =>
        \/ req[w].prev = project
        \/ Len(posts) > 0 /\ posts[Len(posts)].by # w
LastPostStands == Underway /\ Len(posts) > 0 => posts[Len(posts)].new = project

ProjectsInv == ProjectsTyped /\ PostsFromBudget /\ LastPostStands /\ BudgetLostOnlyByRace

LEMMA ProjectsStart == ProjectsInit /\ NoRequest => ProjectsInv
BY DEF ProjectsInit, NoRequest, ProjectsInv, ProjectsTyped, PostsFromBudget, LastPostStands,
       BudgetLostOnlyByRace, Budget, Serving, IdleReq

(* No budget is written: a request begins or ends.                         *)
LEMMA ProjectsKept ==
    ASSUME ProjectsInv, UNCHANGED <<project, posts>>, NEW w \in Workers, NEW r,
           req' = [req EXCEPT ![w] = r],
           r.op = "budget" => r \in Posting /\ r.prev = project
    PROVE  ProjectsInv'
<1>1. \A v \in Workers : req'[v] = IF v = w THEN r ELSE req[v]
  BY DEF ProjectsInv, ProjectsTyped
<1>2. ProjectsTyped'
  BY <1>1 DEF ProjectsInv, ProjectsTyped, Serving
<1>3. PostsFromBudget'
  BY <1>1 DEF ProjectsInv, PostsFromBudget, Serving, Underway
<1>4. LastPostStands' /\ BudgetLostOnlyByRace'
  BY DEF ProjectsInv, LastPostStands, BudgetLostOnlyByRace, Underway
<1> QED
  BY <1>2, <1>3, <1>4 DEF ProjectsInv

LEMMA ProjectsIdle == IdleReq.op \notin {"budget", "milestone"}
BY DEF IdleReq

LEMMA Written ==
    ASSUME ProjectsInv, NEW w \in Workers, BudgetWritten(w)
    PROVE  ProjectsInv'
<1> DEFINE r == req[w]
           m == [prev |-> r.prev, new |-> r.new, by |-> w]
           n == Len(posts)
<1>1. r \in Posting /\ Underway /\ m \in PostRow
  BY DEF ProjectsInv, ProjectsTyped, BudgetWritten, Serving, Posting, PostRow
<1>2. project' = r.new /\ posts' = Append(posts, m) /\ req' = [req EXCEPT ![w] = IdleReq]
  BY DEF BudgetWritten, Answer, Ask
<1>3. /\ posts' \in Seq(PostRow) /\ Len(posts') = n + 1 /\ n \in Nat
      /\ \A i \in 1 .. n : posts'[i] = posts[i]
      /\ posts'[n + 1] = m
  BY <1>1, <1>2 DEF ProjectsInv, ProjectsTyped
<1>4. \A v \in Workers : req'[v] = IF v = w THEN IdleReq ELSE req[v]
  BY <1>2 DEF ProjectsInv, ProjectsTyped
<1>5. r.prev = project \/ (n > 0 /\ posts[n].by # w)
  BY <1>1 DEF ProjectsInv, PostsFromBudget, BudgetWritten
<1>6. n > 0 => posts[n].new = project
  BY <1>1 DEF ProjectsInv, LastPostStands
<1> HIDE DEF r, m, n
<1>7. m.prev = r.prev /\ m.new = r.new /\ m.by = w
  BY DEF m
<1>8. ProjectsTyped'
  BY <1>1, <1>2, <1>3, <1>4, ProjectsIdle DEF ProjectsInv, ProjectsTyped, Posting, Serving
<1>9. PostsFromBudget'
  <2> SUFFICES ASSUME NEW v \in Workers, req'[v].op = "budget"
               PROVE  n + 1 > 0 /\ posts'[n + 1].by # v
    BY <1>3 DEF PostsFromBudget, Serving
  <2>1. v # w
    BY <1>4, ProjectsIdle
  <2> QED
    BY <1>3, <1>7, <2>1
<1>10. LastPostStands'
  BY <1>2, <1>3, <1>7 DEF LastPostStands
<1>11. BudgetLostOnlyByRace'
  <2> SUFFICES ASSUME NEW i \in 1 .. n, posts'[i + 1].prev # posts'[i].new
               PROVE  posts'[i].by # posts'[i + 1].by
    BY <1>3 DEF BudgetLostOnlyByRace
  <2>1. CASE i < n
    <3>1. posts'[i] = posts[i] /\ posts'[i + 1] = posts[i + 1] /\ i \in 1 .. n - 1
      BY <1>3, <2>1
    <3> QED
      BY <3>1 DEF ProjectsInv, BudgetLostOnlyByRace, n
  <2>2. CASE i = n
    <3>1. posts'[i] = posts[n] /\ posts'[i + 1] = m
      BY <1>3, <2>2
    <3> QED
      BY <1>3, <1>5, <1>6, <1>7, <2>2, <3>1
  <2> QED
    BY <1>3, <2>1, <2>2
<1> QED
  BY <1>8, <1>9, <1>10, <1>11 DEF ProjectsInv

LEMMA ProjectsStep == ProjectsInv /\ [ProjectsNext]_<<works, req>> => ProjectsInv'
<1> SUFFICES ASSUME ProjectsInv, [ProjectsNext]_<<works, req>>
             PROVE  ProjectsInv'
  OBVIOUS
<1>0. CASE UNCHANGED <<project, posts, req>>
  BY <1>0 DEF ProjectsInv, ProjectsTyped, PostsFromBudget, LastPostStands,
     BudgetLostOnlyByRace, Serving, Underway
<1>1. CASE UNCHANGED <<works, req>>
  BY <1>0, <1>1 DEF works
<1> SUFFICES ASSUME NEW w \in Workers,
                    \/ SetBudget(w) \/ PostUpdate(w) \/ BudgetWritten(w) \/ DeleteWorks(w)
                    \/ CreateMilestone(w) \/ UpdateMilestone(w) \/ MilestoneUpdated(w)
                    \/ DeleteMilestone(w) \/ ProjectsCrash(w)
             PROVE  ProjectsInv'
  BY <1>1 DEF ProjectsNext
<1>2. ASSUME NEW b \in Budget, Underway, UNCHANGED works,
             Ask(w, [op |-> "budget", prev |-> project, new |-> b])
      PROVE  ProjectsInv'
  <2>1. PICK r : r = [op |-> "budget", prev |-> project, new |-> b]
    OBVIOUS
  <2>2. r \in Posting /\ r.prev = project
    BY <1>2, <2>1 DEF ProjectsInv, ProjectsTyped, Underway, Posting
  <2> QED
    BY <1>2, <2>1, <2>2, ProjectsKept DEF works, Ask
<1>3. CASE SetBudget(w)
  BY <1>2, <1>3 DEF SetBudget, Budget
<1>4. CASE PostUpdate(w)
  <2>1. PICK c \in Costs :
            project + c <= MaxBudget
              /\ Ask(w, [op |-> "budget", prev |-> project, new |-> project + c])
    BY <1>4 DEF PostUpdate
  <2>2. project + c \in Budget /\ Underway /\ UNCHANGED works
    BY <1>4, <2>1, ProjectsAssumption
       DEF PostUpdate, ProjectsInv, ProjectsTyped, Underway, Budget
  <2> QED
    BY <1>2, <2>1, <2>2
<1>5. CASE BudgetWritten(w)
  BY <1>5, Written
<1>6. CASE DeleteWorks(w)
  <2>1. ~Underway' /\ UNCHANGED <<posts, req>>
    BY <1>6 DEF DeleteWorks, Underway, NoProject
  <2> QED
    BY <1>6, <2>1 DEF DeleteWorks, ProjectsInv, ProjectsTyped, PostsFromBudget, LastPostStands,
       BudgetLostOnlyByRace, Serving, NoProject
<1>7. CASE CreateMilestone(w)
  BY <1>0, <1>7 DEF CreateMilestone
<1>8. CASE UpdateMilestone(w)
  <2> PICK m \in Planned, s \in MilestoneStatus, dated \in BOOLEAN :
        Ask(w, [op |-> "milestone", milestone |-> m, status |-> s,
                write |-> s # milestones[m].status,
                date |-> dated \/ (s = "DONE" /\ milestones[m].status # "DONE"
                                     /\ ~milestones[m].dated)])
    BY <1>8 DEF UpdateMilestone
  <2>1. PICK b, d : b = (s # milestones[m].status) /\
            d = (dated \/ (s = "DONE" /\ milestones[m].status # "DONE" /\ ~milestones[m].dated))
    OBVIOUS
  <2>2. PICK r : r = [op |-> "milestone", milestone |-> m, status |-> s, write |-> b, date |-> d]
    OBVIOUS
  <2>3. r.op # "budget" /\ req' = [req EXCEPT ![w] = r] /\ UNCHANGED <<project, posts>>
    BY <1>8, <2>1, <2>2 DEF UpdateMilestone, works, Ask
  <2> QED
    BY <2>3, ProjectsKept
<1>9. CASE MilestoneUpdated(w)
  BY <1>9, ProjectsKept, ProjectsIdle DEF MilestoneUpdated, Answer, Ask
<1>10. CASE DeleteMilestone(w)
  BY <1>0, <1>10 DEF DeleteMilestone
<1>11. CASE ProjectsCrash(w)
  BY <1>11, ProjectsKept, ProjectsIdle DEF ProjectsCrash, Dies, Answer, Ask, works
<1> QED
  BY <1>3, <1>4, <1>5, <1>6, <1>7, <1>8, <1>9, <1>10, <1>11
-----------------------------------------------------------------------------
(* Announcements.                                                          *)

Announced == [state : {"none", "listed", "deleted"}, updated : Nat, deleter : SUBSET Workers]
NoteRow == [post : Posts, late : SUBSET Workers]
Naming == [op : {"publish", "retire", "comment", "read"}, post : Posts]
Revising == [op : {"revise"}, post : Posts, at : Nat]
Paging == [op : {"page"}, total : Nat]
BoardRequest == Naming \cup Revising \cup Paging \cup {IdleReq}

BoardTyped ==
    /\ feed \in [Posts -> Announced]
    /\ stamp \in 0 .. MaxStamp
    /\ comments \cup receipts \subseteq NoteRow
    /\ req = [w \in Workers |-> req[w]]
    /\ \A w \in Workers : req[w] \in BoardRequest

(* A deleted announcement has who deleted it, and no other has.  A row     *)
(* appears once, of the one request that took its stamp.                   *)
DeletedBySome == \A p \in Posts : feed[p].state = "deleted" <=> feed[p].deleter # {}
Unpublished(p) == feed[p].state = "none"
Publishing ==
    /\ \A p \in Posts : p > stamp => Unpublished(p)
    /\ \A w \in Workers : Serving(w, "publish") =>
          req[w].post <= stamp /\ Unpublished(req[w].post)
    /\ \A v, w \in Workers : Serving(v, "publish") /\ Serving(w, "publish") /\ v # w =>
          req[v].post # req[w].post
    /\ \A w \in Workers : req[w].op \in {"retire", "revise"} => ~Unpublished(req[w].post)

(* Who is at a comment or receipt has not deleted the announcement since.  *)
NotOwnDeletion ==
    \A w \in Workers : req[w].op \in {"comment", "read"} => w \notin feed[req[w].post].deleter

BoardInv == BoardTyped /\ DeletedBySome /\ Publishing /\ NotOwnDeletion /\ LateOnlyByRace

LEMMA BoardShapes ==
    /\ IdleReq.op \notin {"publish", "retire", "comment", "read", "revise", "page"}
    /\ NoPost \in Announced /\ NoPost.state = "none" /\ NoPost.deleter = {}
    /\ \A r \in BoardRequest :
          /\ r.op \in {"publish", "retire", "comment", "read", "revise"} => r.post \in Posts
          /\ r.op = "revise" => r.at \in Nat
          /\ r.op = "page" => r.total \in Nat
    /\ \A w \in Workers : \A op : Serving(w, op) <=> req[w].op = op
<1>1. IdleReq.op \notin {"publish", "retire", "comment", "read", "revise", "page"}
  BY DEF IdleReq
<1>2. NoPost \in Announced /\ NoPost.state = "none" /\ NoPost.deleter = {}
  BY DEF NoPost, Announced
<1>3. ASSUME NEW r \in BoardRequest
      PROVE  /\ r.op \in {"publish", "retire", "comment", "read", "revise"} => r.post \in Posts
             /\ r.op = "revise" => r.at \in Nat
             /\ r.op = "page" => r.total \in Nat
  BY <1>1, <1>3 DEF BoardRequest, Naming, Revising, Paging
<1> QED
  BY <1>1, <1>2, <1>3 DEF Serving

(* Sets of announcements are finite.                                       *)
LEMMA SetsOfPosts ==
    ASSUME NEW S \in SUBSET Posts
    PROVE  IsFiniteSet(S) /\ Cardinality(S) \in Nat
<1>1. IsFiniteSet(1 .. MaxStamp)
  BY AnnouncementsAssumption, FS_Interval
<1>2. IsFiniteSet(S)
  BY <1>1, FS_Subset DEF Posts
<1> QED
  BY <1>2, FS_CardinalityType

(* What else a request that writes no announcement may do: take a stamp,   *)
(* and leave notes, which tell of another worker if they are late.         *)
Stamping(r) ==
    /\ stamp' \in 0 .. MaxStamp /\ stamp <= stamp'
    /\ r.op = "publish" => r.post = stamp + 1 /\ stamp' = stamp + 1
NotesTell ==
    \A n \in comments' \cup receipts' :
        \/ n \in comments \cup receipts
        \/ n \in NoteRow /\ (n.late # {} => \E v \in feed[n.post].deleter : v \notin n.late)

LEMMA FeedKept ==
    ASSUME BoardInv, UNCHANGED feed, NEW w \in Workers, NEW r \in BoardRequest,
           req' = [req EXCEPT ![w] = r],
           Stamping(r), NotesTell,
           r.op \in {"retire", "comment", "read", "revise"} => r.post \in Listed
    PROVE  BoardInv'
<1>1. \A v \in Workers : req'[v] = IF v = w THEN r ELSE req[v]
  BY DEF BoardInv, BoardTyped
<1>2. BoardTyped'
  BY <1>1 DEF BoardInv, BoardTyped, Stamping, NotesTell
<1>3. stamp \in Nat /\ stamp' \in Nat /\ \A p \in Posts : p \in Nat
  BY AnnouncementsAssumption DEF BoardInv, BoardTyped, Posts, Stamping
<1>4. r.op \in {"retire", "comment", "read", "revise"} =>
          feed[r.post].state = "listed" /\ r.post \in Posts
  BY DEF Listed
<1>5. DeletedBySome'
  BY DEF BoardInv, DeletedBySome
<1>6. Publishing'
  <2>1. \A p \in Posts : p > stamp' => feed[p].state = "none"
    BY <1>3 DEF BoardInv, Publishing, Unpublished, Stamping
  <2>2. r.op = "publish" => r.post \in Posts /\ r.post > stamp
    BY <1>3, BoardShapes DEF Stamping
  <2>3. \A v \in Workers : req'[v].op = "publish" =>
            req'[v].post <= stamp' /\ feed[req'[v].post].state = "none"
    <3> SUFFICES ASSUME NEW v \in Workers, req'[v].op = "publish"
                 PROVE  req'[v].post <= stamp' /\ feed[req'[v].post].state = "none"
      OBVIOUS
    <3>1. CASE v = w
      BY <1>1, <1>3, <2>2, <3>1 DEF BoardInv, Publishing, Unpublished, Stamping
    <3>2. CASE v # w
      <4>1. req'[v] = req[v] /\ req[v] \in BoardRequest /\ req[v].op = "publish"
        BY <1>1, <3>2 DEF BoardInv, BoardTyped
      <4>2. req[v].post \in Nat
        BY <1>3, <4>1, BoardShapes
      <4> QED
        BY <1>3, <4>1, <4>2 DEF BoardInv, Publishing, Unpublished, Serving, Stamping
    <3> QED
      BY <3>1, <3>2
  <2>4. \A u, v \in Workers : req'[u].op = "publish" /\ req'[v].op = "publish" /\ u # v =>
            req'[u].post # req'[v].post
    <3>1. \A v \in Workers : req[v].op = "publish" => req[v].post <= stamp /\ req[v].post \in Nat
      BY <1>3, BoardShapes DEF BoardInv, BoardTyped, Publishing, Serving
    <3>2. \A v \in Workers : req[v].op = "publish" /\ r.op = "publish" => req[v].post # r.post
      BY <1>3, <3>1 DEF Stamping
    <3> QED
      BY <1>1, <3>2 DEF BoardInv, Publishing, Serving
  <2>5. \A v \in Workers : req'[v].op \in {"retire", "revise"} =>
            feed[req'[v].post].state # "none"
    BY <1>1, <1>4 DEF BoardInv, Publishing, Unpublished
  <2> QED
    BY <2>1, <2>3, <2>4, <2>5 DEF Publishing, Unpublished, Serving
<1>7. NotOwnDeletion'
  BY <1>1, <1>4 DEF BoardInv, NotOwnDeletion, DeletedBySome
<1>8. LateOnlyByRace'
  BY DEF BoardInv, LateOnlyByRace, NotesTell
<1> QED
  BY <1>2, <1>5, <1>6, <1>7, <1>8 DEF BoardInv

(* A request ends that wrote the row of announcement p.                    *)
LEMMA FeedWritten ==
    ASSUME BoardInv, NEW w \in Workers, NEW p \in Posts, NEW row \in Announced,
           req[w].op \in {"publish", "retire", "revise"}, req[w].post = p,
           feed' = [feed EXCEPT ![p] = row], req' = [req EXCEPT ![w] = IdleReq],
           UNCHANGED <<comments, receipts, stamp>>,
           row.state # "none",
           feed[p].deleter \subseteq row.deleter, row.deleter \subseteq feed[p].deleter \cup {w},
           row.state = "deleted" <=> row.deleter # {}
    PROVE  BoardInv'
<1>1. \A v \in Workers : req'[v] = IF v = w THEN IdleReq ELSE req[v]
  BY DEF BoardInv, BoardTyped
<1>2. \A q \in Posts : feed'[q] = IF q = p THEN row ELSE feed[q]
  BY DEF BoardInv, BoardTyped
<1>3. BoardTyped'
  BY <1>1, BoardShapes DEF BoardInv, BoardTyped, BoardRequest
<1>4. DeletedBySome'
  BY <1>2 DEF BoardInv, DeletedBySome
<1>5. \A v \in Workers : req'[v].op # "idle" => v # w /\ req'[v] = req[v] /\ req[v] \in BoardRequest
  BY <1>1 DEF BoardInv, BoardTyped, IdleReq
<1>6. Publishing'
  <2>1. p <= stamp
    <3>1. p > stamp => Unpublished(p)
      BY DEF BoardInv, Publishing
    <3>2. req[w].op = "publish" => p <= stamp
      BY DEF BoardInv, Publishing, Serving
    <3>3. req[w].op # "publish" => ~Unpublished(p)
      BY DEF BoardInv, Publishing
    <3> QED
      BY <3>1, <3>2, <3>3, AnnouncementsAssumption DEF BoardInv, BoardTyped, Posts
  <2>2. \A q \in Posts : q > stamp => feed'[q].state = "none"
    BY <1>2, <2>1, AnnouncementsAssumption DEF BoardInv, BoardTyped, Publishing, Unpublished, Posts
  <2>3. ASSUME NEW v \in Workers, req'[v].op = "publish"
        PROVE  req'[v].post <= stamp' /\ feed'[req'[v].post].state = "none"
    <3>1. v # w /\ req'[v] = req[v] /\ req[v].post \in Posts /\ req[v].op = "publish"
      BY <1>5, <2>3, BoardShapes
    <3>2. req[v].post # p
      BY <3>1 DEF BoardInv, Publishing, Serving
    <3> QED
      BY <1>2, <3>1, <3>2 DEF BoardInv, Publishing, Serving, Unpublished
  <2>4. \A u, v \in Workers : req'[u].op = "publish" /\ req'[v].op = "publish" /\ u # v =>
            req'[u].post # req'[v].post
    BY <1>5 DEF BoardInv, Publishing, Serving
  <2>5. ASSUME NEW v \in Workers, req'[v].op \in {"retire", "revise"}
        PROVE  feed'[req'[v].post].state # "none"
    <3>1. req'[v] = req[v] /\ req[v].post \in Posts
      BY <1>5, <2>5, BoardShapes
    <3> QED
      BY <1>2, <2>5, <3>1 DEF BoardInv, Publishing, Unpublished
  <2> QED
    BY <2>2, <2>3, <2>4, <2>5 DEF Publishing, Unpublished, Serving
<1>7. NotOwnDeletion'
  <2> SUFFICES ASSUME NEW v \in Workers, req'[v].op \in {"comment", "read"}
               PROVE  v \notin feed'[req'[v].post].deleter
    BY DEF NotOwnDeletion
  <2>1. v # w /\ req'[v] = req[v] /\ req[v].post \in Posts
    BY <1>5, BoardShapes
  <2>2. v \notin feed[req[v].post].deleter
    BY <2>1 DEF BoardInv, NotOwnDeletion
  <2> QED
    BY <1>2, <2>1, <2>2
<1>8. LateOnlyByRace'
  <2> SUFFICES ASSUME NEW n \in comments \cup receipts, n.late # {}
               PROVE  \E v \in feed'[n.post].deleter : v \notin n.late
    BY DEF LateOnlyByRace
  <2>1. PICK v \in feed[n.post].deleter : v \notin n.late
    BY DEF BoardInv, LateOnlyByRace
  <2>2. n.post \in Posts
    BY DEF BoardInv, BoardTyped, NoteRow
  <2> QED
    BY <1>2, <2>1, <2>2
<1> QED
  BY <1>3, <1>4, <1>6, <1>7, <1>8 DEF BoardInv

(* A comment or receipt committed now, late only after another's deletion. *)
LEMMA NotesFit ==
    ASSUME BoardInv, NEW w \in Workers, req[w].op \in {"comment", "read"}
    PROVE  /\ Note(w) \in NoteRow
           /\ Note(w).late # {} =>
                 \E v \in feed[Note(w).post].deleter : v \notin Note(w).late
<1>1. req[w].post \in Posts
  BY BoardShapes DEF BoardInv, BoardTyped
<1>2. PICK l : l = IF feed[req[w].post].state = "deleted" THEN {w} ELSE {}
  OBVIOUS
<1>3. Note(w).post = req[w].post /\ Note(w).late = l /\ Note(w) \in NoteRow
  BY <1>1, <1>2 DEF Note, NoteRow
<1>4. l # {} => l = {w} /\ feed[req[w].post].deleter # {}
  BY <1>1, <1>2 DEF BoardInv, DeletedBySome
<1>5. w \notin feed[req[w].post].deleter
  BY DEF BoardInv, NotOwnDeletion
<1> QED
  BY <1>3, <1>4, <1>5

LEMMA BoardStart == AnnouncementsInit /\ NoRequest => BoardInv
<1> SUFFICES ASSUME AnnouncementsInit, NoRequest
             PROVE  BoardInv
  OBVIOUS
<1>1. \A w \in Workers : req[w] = IdleReq
  BY DEF NoRequest
<1>2. BoardTyped
  BY <1>1, BoardShapes, AnnouncementsAssumption
     DEF AnnouncementsInit, NoRequest, BoardTyped, BoardRequest
<1>3. \A p \in Posts : feed[p] = NoPost
  BY DEF AnnouncementsInit
<1> QED
  BY <1>1, <1>2, <1>3, BoardShapes
     DEF AnnouncementsInit, BoardInv, DeletedBySome, Publishing, Unpublished, NotOwnDeletion,
         LateOnlyByRace

LEMMA BoardStep == BoardInv /\ [AnnouncementsNext]_<<board, req>> => BoardInv'
<1> SUFFICES ASSUME BoardInv, [AnnouncementsNext]_<<board, req>>
             PROVE  BoardInv'
  OBVIOUS
<1>1. CASE UNCHANGED <<feed, comments, receipts, stamp, req>>
  BY <1>1 DEF BoardInv, BoardTyped, DeletedBySome, Publishing, Unpublished, NotOwnDeletion,
     LateOnlyByRace, Serving
<1>2. CASE UNCHANGED <<board, req>>
  BY <1>1, <1>2 DEF board
<1> SUFFICES ASSUME NEW w \in Workers,
                    \/ Publish(w) \/ Revise(w) \/ Retire(w) \/ Comment(w) \/ Uncomment(w)
                    \/ MarkRead(w) \/ CountFeed(w) \/ AnnouncementsCrash(w) \/ BoardEnds(w)
             PROVE  BoardInv'
  BY <1>2 DEF AnnouncementsNext
<1>3. /\ stamp \in 0 .. MaxStamp /\ stamp \in Nat /\ MaxStamp \in Nat
      /\ \A p \in Listed : p \in Posts /\ feed[p].state = "listed"
      /\ IdleReq \in BoardRequest
  BY AnnouncementsAssumption DEF BoardInv, BoardTyped, Listed, BoardRequest
<1>31. /\ UNCHANGED <<comments, receipts>> => NotesTell
       /\ \A r : UNCHANGED stamp /\ r.op # "publish" => Stamping(r)
       /\ \A r : stamp < MaxStamp /\ stamp' = stamp + 1 /\ (r.op = "publish" => r.post = stamp + 1)
                 => Stamping(r)
  BY <1>3 DEF NotesTell, Stamping
<1>4. CASE Publish(w)
  <2>1. PICK r : r = [op |-> "publish", post |-> stamp + 1]
    OBVIOUS
  <2>2. /\ stamp < MaxStamp /\ stamp' = stamp + 1 /\ req' = [req EXCEPT ![w] = r]
        /\ UNCHANGED <<feed, comments, receipts>>
    BY <1>4, <2>1 DEF Publish, Stamped, Ask
  <2>3. r \in BoardRequest /\ r.op = "publish" /\ r.post = stamp + 1
    BY <1>3, <2>1, <2>2 DEF BoardRequest, Naming, Posts
  <2> QED
    BY <1>31, <2>2, <2>3, FeedKept
<1>5. CASE Revise(w)
  <2>1. PICK p \in Listed : Stamped(w, [op |-> "revise", post |-> p, at |-> stamp + 1])
    BY <1>5 DEF Revise
  <2>2. PICK r : r = [op |-> "revise", post |-> p, at |-> stamp + 1]
    OBVIOUS
  <2>3. /\ stamp < MaxStamp /\ stamp' = stamp + 1 /\ req' = [req EXCEPT ![w] = r]
        /\ UNCHANGED <<feed, comments, receipts>>
    BY <1>5, <2>1, <2>2 DEF Revise, Stamped, Ask
  <2>4. r \in BoardRequest /\ r.op = "revise" /\ r.post = p
    BY <1>3, <2>2 DEF BoardRequest, Revising
  <2> QED
    BY <1>31, <2>3, <2>4, FeedKept
<1>6. ASSUME NEW op \in {"retire", "comment", "read"}, NEW p \in Listed,
             Ask(w, [op |-> op, post |-> p]), UNCHANGED board
      PROVE  BoardInv'
  <2>1. PICK r : r = [op |-> op, post |-> p]
    OBVIOUS
  <2>2. r \in BoardRequest /\ r.op = op /\ r.post = p
    BY <1>3, <2>1 DEF BoardRequest, Naming
  <2>3. req' = [req EXCEPT ![w] = r] /\ UNCHANGED <<feed, comments, receipts, stamp>>
    BY <1>6, <2>1 DEF Ask, board
  <2> QED
    BY <1>31, <2>2, <2>3, FeedKept
<1>7. CASE Retire(w)
  BY <1>6, <1>7 DEF Retire
<1>8. CASE Comment(w)
  BY <1>6, <1>8 DEF Comment
<1>9. CASE MarkRead(w)
  BY <1>6, <1>9 DEF MarkRead
<1>10. CASE Uncomment(w)
  <2>1. comments' \subseteq comments /\ UNCHANGED <<feed, receipts, stamp, req>>
    BY <1>10 DEF Uncomment
  <2> QED
    BY <2>1 DEF BoardInv, BoardTyped, DeletedBySome, Publishing, Unpublished, NotOwnDeletion,
       LateOnlyByRace, Serving
<1>11. CASE CountFeed(w)
  <2>1. PICK r : r = [op |-> "page", total |-> Cardinality(Listed)]
    OBVIOUS
  <2>2. Cardinality(Listed) \in Nat
    BY SetsOfPosts DEF Listed
  <2>3. r \in BoardRequest /\ r.op = "page"
    BY <2>1, <2>2 DEF BoardRequest, Paging
  <2>4. req' = [req EXCEPT ![w] = r] /\ UNCHANGED <<feed, comments, receipts, stamp>>
    BY <1>11, <2>1 DEF CountFeed, Ask
  <2> QED
    BY <1>31, <2>3, <2>4, FeedKept
<1>12. CASE AnnouncementsCrash(w)
  <2>1. req' = [req EXCEPT ![w] = IdleReq] /\ UNCHANGED <<feed, comments, receipts, stamp>>
    BY <1>12 DEF AnnouncementsCrash, Dies, Answer, Ask, board
  <2> QED
    BY <1>31, <1>3, <2>1, FeedKept, BoardShapes
<1>13. CASE Published(w)
  <2>1. PICK row, old : /\ row = [old EXCEPT !.state = "listed", !.updated = req[w].post]
                        /\ old = NoPost
    OBVIOUS
  <2>2. req[w].op = "publish" /\ req[w].post \in Posts /\ feed[req[w].post].deleter = {}
    BY <1>13, BoardShapes
       DEF Published, Serving, BoardInv, BoardTyped, Publishing, Unpublished, DeletedBySome
  <2>3. row \in Announced /\ row.state = "listed" /\ row.deleter = {}
    <3>1. req[w].post \in Nat
      BY <2>2, AnnouncementsAssumption DEF Posts
    <3>2. old \in Announced /\ old.deleter = {}
      BY <2>1, BoardShapes
    <3> QED
      BY <2>1, <3>1, <3>2 DEF Announced
  <2>4. /\ feed' = [feed EXCEPT ![req[w].post] = row] /\ req' = [req EXCEPT ![w] = IdleReq]
        /\ UNCHANGED <<comments, receipts, stamp>>
    BY <1>13, <2>1 DEF Published, Answer, Ask
  <2> QED
    BY <2>2, <2>3, <2>4, FeedWritten
<1>14. CASE Revised(w)
  <2>1. req[w].op = "revise" /\ req[w].post \in Posts /\ req[w].at \in Nat
    BY <1>14, BoardShapes DEF Revised, Serving, BoardInv, BoardTyped
  <2>2. feed[req[w].post] \in Announced /\ feed[req[w].post].state # "none"
    BY <2>1 DEF BoardInv, BoardTyped, Publishing, Unpublished
  <2>3. PICK row : row = [feed[req[w].post] EXCEPT !.updated = req[w].at]
    OBVIOUS
  <2>4. /\ row \in Announced /\ row.state = feed[req[w].post].state
        /\ row.deleter = feed[req[w].post].deleter
    BY <2>1, <2>2, <2>3 DEF Announced
  <2>5. /\ feed' = [feed EXCEPT ![req[w].post] = row] /\ req' = [req EXCEPT ![w] = IdleReq]
        /\ UNCHANGED <<comments, receipts, stamp>>
    BY <1>14, <2>3 DEF Revised, Answer, Ask
  <2>6. row.state = "deleted" <=> row.deleter # {}
    BY <2>1, <2>4 DEF BoardInv, DeletedBySome
  <2> QED
    BY <2>1, <2>2, <2>4, <2>5, <2>6, FeedWritten
<1>15. CASE Retired(w)
  <2>1. req[w].op = "retire" /\ req[w].post \in Posts
    BY <1>15, BoardShapes DEF Retired, Serving, BoardInv, BoardTyped
  <2>2. feed[req[w].post] \in Announced /\ feed \in [Posts -> Announced]
    BY <2>1 DEF BoardInv, BoardTyped
  <2>3. PICK row : row = [feed[req[w].post] EXCEPT !.state = "deleted", !.deleter = @ \cup {w}]
    OBVIOUS
  <2>4. /\ row \in Announced /\ row.state = "deleted"
        /\ row.deleter = feed[req[w].post].deleter \cup {w}
    BY <2>1, <2>2, <2>3 DEF Announced
  <2>5. /\ req' = [req EXCEPT ![w] = IdleReq] /\ UNCHANGED <<comments, receipts, stamp>>
        /\ feed' = [feed EXCEPT ![req[w].post].state = "deleted",
                                ![req[w].post].deleter = @ \cup {w}]
    BY <1>15 DEF Retired, Answer, Ask
  <2>6. feed' = [feed EXCEPT ![req[w].post] = row]
    BY <2>1, <2>2, <2>3, <2>5
  <2> QED
    BY <2>1, <2>4, <2>5, <2>6, FeedWritten
<1>16. CASE Commented(w)
  <2>1. req[w].op = "comment" /\ req' = [req EXCEPT ![w] = IdleReq]
        /\ comments' = comments \cup {Note(w)} /\ UNCHANGED <<feed, receipts, stamp>>
    BY <1>16 DEF Commented, Serving, Answer, Ask
  <2>2. NotesTell
    BY <2>1, NotesFit DEF NotesTell
  <2> QED
    BY <1>31, <1>3, <2>1, <2>2, FeedKept, BoardShapes
<1>17. CASE MarkedRead(w)
  <2>1. req[w].op = "read" /\ req' = [req EXCEPT ![w] = IdleReq]
        /\ receipts' \subseteq receipts \cup {Note(w)} /\ UNCHANGED <<feed, comments, stamp>>
    BY <1>17 DEF MarkedRead, Serving, Answer, Ask
  <2>2. NotesTell
    BY <2>1, NotesFit DEF NotesTell
  <2> QED
    BY <1>31, <1>3, <2>1, <2>2, FeedKept, BoardShapes
<1>18. CASE ShowPage(w)
  <2>1. req' = [req EXCEPT ![w] = IdleReq] /\ UNCHANGED <<feed, comments, receipts, stamp>>
    BY <1>18 DEF ShowPage, Answer, Ask
  <2> QED
    BY <1>31, <1>3, <2>1, FeedKept, BoardShapes
<1> QED
  BY <1>4, <1>5, <1>7, <1>8, <1>9, <1>10, <1>11, <1>12, <1>13, <1>14, <1>15, <1>16, <1>17,
     <1>18 DEF BoardEnds

(* For any stamps, announcements and workers: a comment or receipt that    *)
(* came after the deletion of its announcement was under way when another  *)
(* worker deleted it.                                                      *)
THEOREM LateByRace == AnnouncementsSpec => []LateOnlyByRace
<1>1. BoardInv => LateOnlyByRace
  BY DEF BoardInv
<1> QED
  BY <1>1, BoardStart, BoardStep, PTL DEF AnnouncementsSpec
-----------------------------------------------------------------------------
(* The client's walk through the pages.                                    *)

WalkRow ==
    [skip : Nat, shown : [Posts -> Nat], start : SUBSET Posts, posted : BOOLEAN,
     removed : BOOLEAN, torn : BOOLEAN, over : BOOLEAN]
PageServed == \E v \in Workers : Serving(v, "page")
Walking == (walk.skip > 0 /\ ~walk.over) \/ PageServed

(* One page is read at a time, and none once the walk is over.             *)
OnePager ==
    /\ \A v, w \in Workers : Serving(v, "page") /\ Serving(w, "page") => v = w
    /\ walk.over => ~PageServed

(* The walk against the list, both as values: what was there at the start  *)
(* and was not shown is not among the skipped; what was shown is, once.    *)
Above(p, L) == {q \in L : q > p}
StartStands(k, L) ==
    ~k.removed => /\ k.start \subseteq L
                  /\ \A p \in k.start : k.shown[p] = 0 => Cardinality(Above(p, L)) >= k.skip
ShownOnce(k, L) ==
    ~k.posted => \A p \in Posts :
        k.shown[p] <= 1 /\ (k.shown[p] = 1 => Cardinality(Above(p, L)) < k.skip)
Followed(k, L) == StartStands(k, L) /\ ShownOnce(k, L)

(* The count of a page that is being served still holds.                   *)
CountHolds ==
    \A w \in Workers : Serving(w, "page") =>
        walk.torn \/ walk.removed \/ req[w].total = Cardinality(Listed)

WalkInv ==
    /\ walk \in WalkRow
    /\ OnePager /\ CountHolds /\ MissedOnlyByChange
    /\ Walking => Followed(walk, Listed)

LEMMA AboveSmaller ==
    ASSUME NEW L \in SUBSET Posts, NEW M \in SUBSET L, NEW p \in Posts
    PROVE  /\ Cardinality(Above(p, M)) <= Cardinality(Above(p, L))
           /\ Cardinality(Above(p, L)) \in Nat /\ Cardinality(Above(p, M)) \in Nat
           /\ p \in L => Cardinality(Above(p, L)) < Cardinality(L)
<1>1. Above(p, M) \in SUBSET Above(p, L) /\ Above(p, L) \in SUBSET L
  BY DEF Above
<1>2. /\ IsFiniteSet(Above(p, L)) /\ IsFiniteSet(L) /\ Cardinality(L) \in Nat
      /\ Cardinality(Above(p, L)) \in Nat
  BY <1>1, SetsOfPosts
<1>3. Cardinality(Above(p, M)) \in Nat
  BY <1>1, SetsOfPosts
<1>4. Cardinality(Above(p, M)) <= Cardinality(Above(p, L))
  BY <1>1, <1>2, FS_Subset
<1>5. p \notin Above(p, L)
  BY AnnouncementsAssumption DEF Above, Posts
<1>6. Cardinality(Above(p, L)) <= Cardinality(L)
  BY <1>1, <1>2, FS_Subset
<1>7. Cardinality(L) = Cardinality(Above(p, L)) => L = Above(p, L)
  BY <1>1, <1>2, FS_Subset
<1> QED
  BY <1>2, <1>3, <1>4, <1>5, <1>6, <1>7

(* Where the list grew, what was shown may come again; where it shrank,    *)
(* something may be passed over.                                           *)
LEMMA ListGrows ==
    ASSUME NEW k \in WalkRow, NEW j \in WalkRow, NEW L \in SUBSET Posts, NEW M \in SUBSET Posts,
           Followed(k, L), L \subseteq M, j.posted, j.skip = k.skip, j.shown = k.shown,
           j.start = k.start, j.removed = k.removed
    PROVE  Followed(j, M)
<1> SUFFICES ASSUME ~k.removed, NEW p \in k.start, k.shown[p] = 0
             PROVE  Cardinality(Above(p, M)) >= k.skip
  BY DEF Followed, StartStands, ShownOnce
<1>1. Cardinality(Above(p, L)) >= k.skip /\ p \in Posts /\ k.skip \in Nat
  BY DEF Followed, StartStands, WalkRow
<1> QED
  BY <1>1, AboveSmaller

LEMMA ListShrinks ==
    ASSUME NEW k \in WalkRow, NEW j \in WalkRow, NEW L \in SUBSET Posts, NEW M \in SUBSET L,
           Followed(k, L), j.removed, j.skip = k.skip, j.shown = k.shown, j.posted = k.posted
    PROVE  Followed(j, M)
<1> SUFFICES ASSUME ~k.posted, NEW p \in Posts
             PROVE  k.shown[p] <= 1 /\ (k.shown[p] = 1 => Cardinality(Above(p, M)) < k.skip)
  BY DEF Followed, StartStands, ShownOnce
<1>1. k.shown[p] <= 1 /\ (k.shown[p] = 1 => Cardinality(Above(p, L)) < k.skip) /\ k.skip \in Nat
  BY DEF Followed, ShownOnce, WalkRow
<1> QED
  BY <1>1, AboveSmaller

(* A page is shown.                                                        *)
LEMMA PageShown ==
    ASSUME NEW k \in WalkRow, NEW j \in WalkRow, NEW L \in SUBSET Posts, Followed(k, L),
           j.skip = k.skip + 1, j.start = k.start, j.posted = k.posted, j.removed = k.removed,
           \A p \in Posts : j.shown[p] =
               k.shown[p] + (IF p \in L /\ Cardinality(Above(p, L)) = k.skip THEN 1 ELSE 0)
    PROVE  Followed(j, L)
<1>1. \A p \in Posts : Cardinality(Above(p, L)) \in Nat /\ k.shown[p] \in Nat
  BY AboveSmaller DEF WalkRow
<1>2. k.skip \in Nat /\ k.start \subseteq Posts
  BY DEF WalkRow
<1>3. StartStands(j, L)
  <2> SUFFICES ASSUME ~k.removed
               PROVE  /\ k.start \subseteq L
                      /\ \A p \in k.start : j.shown[p] = 0 =>
                            Cardinality(Above(p, L)) >= k.skip + 1
    BY DEF StartStands
  <2>1. k.start \subseteq L /\ \A p \in k.start : k.shown[p] = 0 =>
            Cardinality(Above(p, L)) >= k.skip
    BY DEF Followed, StartStands
  <2>2. ASSUME NEW p \in k.start, j.shown[p] = 0
        PROVE  Cardinality(Above(p, L)) >= k.skip + 1
    <3>1. p \in Posts /\ p \in L
      BY <1>2, <2>1
    <3>2. k.shown[p] = 0 /\ Cardinality(Above(p, L)) # k.skip
      BY <1>1, <2>2, <3>1
    <3> QED
      BY <1>1, <1>2, <2>1, <3>1, <3>2
  <2> QED
    BY <2>1, <2>2
<1>4. ShownOnce(j, L)
  <2> SUFFICES ASSUME ~k.posted, NEW p \in Posts
               PROVE  j.shown[p] <= 1 /\ (j.shown[p] = 1 => Cardinality(Above(p, L)) < k.skip + 1)
    BY DEF ShownOnce
  <2>1. k.shown[p] <= 1 /\ (k.shown[p] = 1 => Cardinality(Above(p, L)) < k.skip)
    BY DEF Followed, ShownOnce
  <2>2. j.shown[p] =
            k.shown[p] + (IF p \in L /\ Cardinality(Above(p, L)) = k.skip THEN 1 ELSE 0)
    OBVIOUS
  <2> QED
    BY <1>1, <1>2, <2>1, <2>2
<1> QED
  BY <1>3, <1>4 DEF Followed

LEMMA WalkStart == AnnouncementsInit /\ NoRequest => WalkInv
<1> SUFFICES ASSUME AnnouncementsInit, NoRequest
             PROVE  WalkInv
  OBVIOUS
<1>1. \A w \in Workers : req[w] = IdleReq
  BY DEF NoRequest
<1>2. NoWalk \in WalkRow /\ NoWalk.skip = 0 /\ ~NoWalk.over
  BY DEF NoWalk, WalkRow
<1>3. /\ NoClient \in WalkRow /\ NoClient.skip = 0 /\ NoClient.over /\ NoClient.start = {}
      /\ NoClient.shown = [p \in Posts |-> 0]
  <2>1. PICK k : k = NoWalk
    OBVIOUS
  <2>2. k \in WalkRow /\ k.skip = 0 /\ k.start = {} /\ k.shown = [p \in Posts |-> 0]
    BY <2>1, <1>2 DEF NoWalk
  <2>3. NoClient = [k EXCEPT !.over = TRUE]
    BY <2>1 DEF NoClient
  <2> QED
    BY <2>2, <2>3 DEF WalkRow
<1>4. ~PageServed /\ OnePager /\ CountHolds
  BY <1>1, BoardShapes DEF PageServed, OnePager, CountHolds, Serving
<1>5. walk \in {NoWalk, NoClient}
  BY DEF AnnouncementsInit
<1> QED
  BY <1>2, <1>3, <1>4, <1>5 DEF WalkInv, Walking, MissedOnlyByChange

(* Neither the list nor the walk changes, and no page begins.              *)
LEMMA WalkKept ==
    ASSUME BoardInv, WalkInv, UNCHANGED walk, Listed' = Listed, NEW w \in Workers, NEW r,
           req' = [req EXCEPT ![w] = r], r.op # "page"
    PROVE  WalkInv'
<1>1. \A v \in Workers : req'[v] = IF v = w THEN r ELSE req[v]
  BY DEF BoardInv, BoardTyped
<1>2. \A v \in Workers : req'[v].op = "page" => req'[v] = req[v]
  BY <1>1
<1>3. OnePager' /\ CountHolds' /\ (Walking' => Walking)
  BY <1>2 DEF WalkInv, OnePager, CountHolds, Walking, PageServed, Serving
<1>4. MissedOnlyByChange'
  BY DEF WalkInv, MissedOnlyByChange
<1> QED
  BY <1>3, <1>4 DEF WalkInv

(* A row appears on or leaves the list, of which the walk takes note.      *)
LEMMA WalkNotes ==
    ASSUME BoardInv, WalkInv, NEW w \in Workers, ~Serving(w, "page"),
           req' = [req EXCEPT ![w] = IdleReq], NEW k \in WalkRow,
           walk' = IF Walking THEN k ELSE walk,
           k.over = walk.over, k.skip = walk.skip,
           PageServed => k.torn \/ k.removed,
           Walking => Followed(k, Listed')
    PROVE  WalkInv'
<1>1. \A v \in Workers : req'[v] = IF v = w THEN IdleReq ELSE req[v]
  BY DEF BoardInv, BoardTyped
<1>2. \A v \in Workers : req'[v].op = "page" => req'[v] = req[v]
  BY <1>1, BoardShapes
<1>3. PageServed' => PageServed
  BY <1>2 DEF PageServed, Serving
<1>4. walk' \in WalkRow /\ walk'.over = walk.over /\ walk'.skip = walk.skip
  BY DEF WalkInv
<1>5. OnePager'
  BY <1>2, <1>3, <1>4 DEF WalkInv, OnePager, Serving
<1>6. CountHolds'
  <2> SUFFICES ASSUME NEW v \in Workers, req'[v].op = "page"
               PROVE  walk'.torn \/ walk'.removed
    BY DEF CountHolds, Serving
  <2>1. PageServed
    BY <1>2 DEF PageServed, Serving
  <2> QED
    BY <2>1 DEF Walking
<1>7. Walking' => Walking
  BY <1>3, <1>4 DEF Walking
<1>8. walk.over => ~Walking
  BY DEF WalkInv, OnePager, Walking
<1>9. MissedOnlyByChange'
  BY <1>4, <1>8 DEF WalkInv, MissedOnlyByChange
<1> QED
  BY <1>4, <1>5, <1>6, <1>7, <1>9 DEF WalkInv

LEMMA WalkCounted ==
    ASSUME BoardInv, WalkInv, NEW w \in Workers, CountFeed(w)
    PROVE  WalkInv'
<1>1. ~walk.over /\ ~PageServed /\ Listed' = Listed /\ Listed \subseteq Posts
  BY DEF CountFeed, PageServed, Listed
<1>2. PICK r : r = [op |-> "page", total |-> Cardinality(Listed)]
  OBVIOUS
<1>3. r.op = "page" /\ r.total = Cardinality(Listed) /\ req' = [req EXCEPT ![w] = r]
  BY <1>2 DEF CountFeed, Ask
<1>4. \A v \in Workers : req'[v] = IF v = w THEN r ELSE req[v]
  BY <1>3 DEF BoardInv, BoardTyped
<1>5. \A v \in Workers : req[v].op # "page"
  BY <1>1 DEF PageServed, Serving
<1>6. walk' \in WalkRow /\ ~walk'.over /\ Followed(walk', Listed)
  <2>1. CASE walk.skip = 0
    <3>1. PICK k : k = NoWalk
      OBVIOUS
    <3>2. /\ k \in WalkRow /\ k.skip = 0 /\ ~k.over
          /\ \A p \in Posts : k.shown[p] = 0
      BY <3>1 DEF NoWalk, WalkRow
    <3>3. walk' = [k EXCEPT !.start = Listed]
      BY <2>1, <3>1 DEF CountFeed
    <3>4. /\ walk' \in WalkRow /\ ~walk'.over /\ walk'.skip = 0 /\ walk'.start = Listed
          /\ \A p \in Posts : walk'.shown[p] = 0
      BY <1>1, <3>2, <3>3 DEF WalkRow
    <3>5. \A p \in Posts : Cardinality(Above(p, Listed)) \in Nat
      BY <1>1, AboveSmaller
    <3> QED
      BY <1>1, <3>4, <3>5 DEF Followed, StartStands, ShownOnce
  <2>2. CASE walk.skip # 0
    <3>1. walk' = walk /\ walk.skip > 0
      BY <2>2 DEF CountFeed, WalkInv, WalkRow
    <3> QED
      BY <1>1, <3>1 DEF WalkInv, Walking
  <2> QED
    BY <2>1, <2>2
<1>7. OnePager'
  BY <1>4, <1>5, <1>6 DEF OnePager, Serving
<1>8. CountHolds'
  BY <1>1, <1>3, <1>4, <1>5 DEF CountHolds, Serving
<1> QED
  BY <1>1, <1>6, <1>7, <1>8 DEF WalkInv, MissedOnlyByChange

(* The client that ends its walk was shown as many as the last count, and  *)
(* the whole list is above none of its announcements.                      *)
LEMMA WalkShown ==
    ASSUME BoardInv, WalkInv, NEW w \in Workers, ShowPage(w)
    PROVE  WalkInv'
<1> DEFINE k == walk
           L == Listed
<1>1. L \subseteq Posts /\ Listed' = L /\ k \in WalkRow /\ req[w].total \in Nat
  <2>1. req[w] \in BoardRequest /\ req[w].op = "page"
    BY DEF ShowPage, Serving, BoardInv, BoardTyped
  <2> QED
    BY <2>1, BoardShapes DEF ShowPage, Listed, WalkInv
<1>2. Serving(w, "page") /\ PageServed /\ Walking /\ Followed(k, L)
  BY DEF ShowPage, PageServed, Walking, WalkInv
<1>3. walk' = [k EXCEPT
           !.skip = k.skip + 1, !.over = k.skip + 1 >= req[w].total,
           !.shown = [p \in Posts |-> k.shown[p] + IF p \in PageOf(k.skip) THEN 1 ELSE 0]]
  BY DEF ShowPage
<1>4. \A p \in Posts : p \in PageOf(k.skip) <=> p \in L /\ Cardinality(Above(p, L)) = k.skip
  BY DEF PageOf, Above, Before
<1>5. PICK s : s = [p \in Posts |-> k.shown[p] + IF p \in PageOf(k.skip) THEN 1 ELSE 0]
  OBVIOUS
<1>6. /\ s \in [Posts -> Nat]
      /\ \A p \in Posts : s[p] =
             k.shown[p] + (IF p \in L /\ Cardinality(Above(p, L)) = k.skip THEN 1 ELSE 0)
  BY <1>1, <1>4, <1>5 DEF WalkRow
<1>7. /\ walk' \in WalkRow /\ walk'.skip = k.skip + 1 /\ walk'.start = k.start
      /\ walk'.posted = k.posted /\ walk'.removed = k.removed /\ walk'.torn = k.torn
      /\ walk'.shown = s /\ walk'.over = (k.skip + 1 >= req[w].total)
  <2>1. PICK o : o = (k.skip + 1 >= req[w].total)
    OBVIOUS
  <2>2. walk' = [k EXCEPT !.skip = k.skip + 1, !.over = o, !.shown = s]
    BY <1>3, <1>5, <2>1
  <2>3. o \in BOOLEAN
    BY <2>1
  <2>4. walk'.over = o
    BY <1>1, <2>2 DEF WalkRow
  <2>5. k.skip + 1 \in Nat
    BY <1>1 DEF WalkRow
  <2>6. walk' \in WalkRow
    BY <1>1, <1>6, <2>2, <2>3, <2>5 DEF WalkRow
  <2> QED
    BY <1>1, <2>1, <2>2, <2>4, <2>6 DEF WalkRow
<1>8. Followed(walk', L)
  BY <1>1, <1>2, <1>6, <1>7, PageShown
<1>9. \A v \in Workers : req'[v] = IF v = w THEN IdleReq ELSE req[v]
  BY DEF ShowPage, Answer, Ask, BoardInv, BoardTyped
<1>10. \A v \in Workers : req'[v].op # "page"
  BY <1>2, <1>9, BoardShapes DEF WalkInv, OnePager, Serving
<1>11. OnePager' /\ CountHolds'
  BY <1>10 DEF OnePager, PageServed, CountHolds, Serving
<1>12. MissedOnlyByChange'
  <2> SUFFICES ASSUME k.skip + 1 >= req[w].total
               PROVE  /\ \A p \in k.start : s[p] = 0 => k.removed \/ k.torn
                      /\ \A p \in Posts : s[p] > 1 => k.posted
    BY <1>7 DEF MissedOnlyByChange
  <2>1. ASSUME NEW p \in k.start, s[p] = 0, ~k.removed, ~k.torn
        PROVE  FALSE
    <3>1. req[w].total = Cardinality(L)
      BY <1>2, <2>1 DEF WalkInv, CountHolds
    <3>2. p \in L /\ Cardinality(Above(p, L)) >= k.skip + 1
      BY <1>7, <1>8, <2>1 DEF Followed, StartStands
    <3>3. /\ Cardinality(Above(p, L)) \in Nat /\ Cardinality(L) \in Nat
          /\ Cardinality(Above(p, L)) < Cardinality(L)
      BY <1>1, <3>2, AboveSmaller, SetsOfPosts
    <3>4. k.skip \in Nat
      BY <1>1 DEF WalkRow
    <3> QED
      BY <3>1, <3>2, <3>3, <3>4
  <2>2. ASSUME NEW p \in Posts, s[p] > 1, ~k.posted
        PROVE  FALSE
    BY <1>6, <1>7, <1>8, <2>2 DEF Followed, ShownOnce
  <2> QED
    BY <2>1, <2>2
<1> QED
  BY <1>1, <1>7, <1>8, <1>11, <1>12 DEF WalkInv

LEMMA WalkStep == BoardInv /\ WalkInv /\ [AnnouncementsNext]_<<board, req>> => WalkInv'
<1> SUFFICES ASSUME BoardInv, WalkInv, [AnnouncementsNext]_<<board, req>>
             PROVE  WalkInv'
  OBVIOUS
<1>1. CASE UNCHANGED <<feed, walk, req>>
  <2>1. Listed' = Listed
    BY <1>1 DEF Listed
  <2> QED
    BY <1>1, <2>1 DEF WalkInv, OnePager, PageServed, CountHolds, Walking, MissedOnlyByChange, Serving
<1>2. CASE UNCHANGED <<board, req>>
  BY <1>1, <1>2 DEF board
<1> SUFFICES ASSUME NEW w \in Workers,
                    \/ Publish(w) \/ Revise(w) \/ Retire(w) \/ Comment(w) \/ Uncomment(w)
                    \/ MarkRead(w) \/ CountFeed(w) \/ AnnouncementsCrash(w) \/ BoardEnds(w)
             PROVE  WalkInv'
  BY <1>2 DEF AnnouncementsNext
<1>3. UNCHANGED feed => Listed' = Listed
  BY DEF Listed
<1>4. ASSUME NEW r, r.op # "page", req' = [req EXCEPT ![w] = r], UNCHANGED <<feed, walk>>
      PROVE  WalkInv'
  BY <1>3, <1>4, WalkKept
<1>5. ASSUME NEW op, op # "page", NEW p, Ask(w, [op |-> op, post |-> p]), UNCHANGED <<feed, walk>>
      PROVE  WalkInv'
  <2>1. PICK r : r = [op |-> op, post |-> p]
    OBVIOUS
  <2>2. r.op # "page" /\ req' = [req EXCEPT ![w] = r]
    BY <1>5, <2>1 DEF Ask
  <2> QED
    BY <1>4, <1>5, <2>2
<1>6. Answer(w) /\ UNCHANGED <<feed, walk>> => WalkInv'
  BY <1>4, BoardShapes DEF Answer, Ask
<1>7. CASE Publish(w) \/ Retire(w) \/ Comment(w) \/ MarkRead(w)
  BY <1>5, <1>7 DEF Publish, Retire, Comment, MarkRead, Stamped, board
<1>8. CASE Revise(w)
  <2>1. PICK p : Ask(w, [op |-> "revise", post |-> p, at |-> stamp + 1])
    BY <1>8 DEF Revise, Stamped
  <2>2. PICK r : r = [op |-> "revise", post |-> p, at |-> stamp + 1]
    OBVIOUS
  <2>3. r.op # "page" /\ req' = [req EXCEPT ![w] = r]
    BY <2>1, <2>2 DEF Ask
  <2> QED
    BY <1>4, <1>8, <2>3 DEF Revise
<1>9. CASE Uncomment(w)
  BY <1>1, <1>9 DEF Uncomment
<1>10. CASE CountFeed(w)
  BY <1>10, WalkCounted
<1>11. CASE AnnouncementsCrash(w) \/ Commented(w) \/ MarkedRead(w)
  BY <1>6, <1>11 DEF AnnouncementsCrash, Dies, Commented, MarkedRead, board
<1>12. CASE Revised(w)
  <2>1. \A p \in Posts : feed'[p].state = feed[p].state
    BY <1>12 DEF Revised, BoardInv, BoardTyped, Announced
  <2>2. Listed' = Listed
    BY <2>1 DEF Listed
  <2> QED
    BY <1>12, <2>2, WalkKept, BoardShapes DEF Revised, Answer, Ask
<1>13. CASE Published(w)
  <2>1. PICK k : k = [walk EXCEPT !.posted = TRUE, !.torn = walk.torn \/ PageServed]
    OBVIOUS
  <2>2. /\ k \in WalkRow /\ k.posted /\ k.skip = walk.skip /\ k.shown = walk.shown
        /\ k.start = walk.start /\ k.removed = walk.removed /\ k.over = walk.over
        /\ (PageServed => k.torn)
    BY <2>1 DEF WalkInv, WalkRow
  <2>3. walk' = IF Walking THEN k ELSE walk
    BY <1>13, <2>1 DEF Published, Meanwhile, Walking, PageServed
  <2>4. ~Serving(w, "page") /\ req' = [req EXCEPT ![w] = IdleReq]
    BY <1>13 DEF Published, Serving, Answer, Ask
  <2>5. Listed \subseteq Listed' /\ Listed' \subseteq Posts
    <3>1. PICK row : row = [NoPost EXCEPT !.state = "listed", !.updated = req[w].post]
      OBVIOUS
    <3>2. row.state = "listed"
      <4>1. PICK old : old = NoPost
        OBVIOUS
      <4> QED
        BY <3>1, <4>1, BoardShapes DEF Announced
    <3>3. feed' = [feed EXCEPT ![req[w].post] = row]
      BY <1>13, <3>1 DEF Published
    <3> QED
      BY <3>2, <3>3 DEF Listed, BoardInv, BoardTyped
  <2>6. Walking => Followed(k, Listed')
    BY <2>2, <2>5, ListGrows DEF WalkInv, Listed
  <2> QED
    BY <2>2, <2>3, <2>4, <2>6, WalkNotes
<1>14. CASE Retired(w)
  <2>1. PICK k : k = [walk EXCEPT !.removed = TRUE]
    OBVIOUS
  <2>2. /\ k \in WalkRow /\ k.removed /\ k.skip = walk.skip /\ k.shown = walk.shown
        /\ k.posted = walk.posted /\ k.over = walk.over
    BY <2>1 DEF WalkInv, WalkRow
  <2>3. walk' = IF Walking THEN k ELSE walk
    BY <1>14, <2>1 DEF Retired, Meanwhile, Walking, PageServed
  <2>4. ~Serving(w, "page") /\ req' = [req EXCEPT ![w] = IdleReq]
    BY <1>14 DEF Retired, Serving, Answer, Ask
  <2>5. Listed' \subseteq Listed /\ Listed \subseteq Posts
    <3>1. \A p \in Posts : feed'[p].state = "listed" => feed[p].state = "listed"
      BY <1>14 DEF Retired, BoardInv, BoardTyped, Announced
    <3> QED
      BY <3>1 DEF Listed
  <2>6. Walking => Followed(k, Listed')
    BY <2>2, <2>5, ListShrinks DEF WalkInv
  <2> QED
    BY <2>2, <2>3, <2>4, <2>6, WalkNotes
<1>15. CASE ShowPage(w)
  BY <1>15, WalkShown
<1> QED
  BY <1>7, <1>8, <1>9, <1>10, <1>11, <1>12, <1>13, <1>14, <1>15 DEF BoardEnds

(* For any stamps, announcements and workers: a client that walks through  *)
(* all pages misses an announcement only when one was deleted meanwhile or *)
(* one was posted between the two queries of a page, and sees one twice    *)
(* only when another was posted.                                           *)
THEOREM MissedByChange == AnnouncementsSpec => []MissedOnlyByChange
<1>1. BoardInv /\ WalkInv => MissedOnlyByChange
  BY DEF WalkInv
<1> QED
  BY <1>1, BoardStart, BoardStep, WalkStart, WalkStep, PTL DEF AnnouncementsSpec
-----------------------------------------------------------------------------
(* Condominiums.                                                           *)

House == [name : TenantNames, slug : Slugs, active : BOOLEAN]
Creation ==
    [op : {"create", "roles"}, id : TenantIds, name : TenantNames, slug : Slugs,
     tries : Nat, fresh : BOOLEAN]
Change ==
    [op : {"rename", "slug"}, id : TenantIds, name : TenantNames, active : BOOLEAN,
     slug : SUBSET Slugs, read : House, fresh : BOOLEAN]
HouseRequest == Creation \cup Change \cup {IdleReq}

HousesTyped ==
    /\ tenants \in [TenantIds -> House \cup {NoTenant}]
    /\ roles \subseteq [tenant : TenantIds, name : LegacyRoles]
    /\ req = [w \in Workers |-> req[w]]
    /\ \A w \in Workers : req[w] \in HouseRequest

(* What a request is at, it still is at: a creation's row is nobody's, any *)
(* other's exists; one slug at most is typed.                              *)
AtItsRow(r) ==
    /\ r.op = "create" => r.id \notin Existing
    /\ r.op \in {"roles", "rename", "slug"} => r.id \in Existing
    /\ r.op \in {"rename", "slug"} => \A s, u \in r.slug : s = u
    /\ r.op = "slug" => r.slug # {}

(* While nothing was written since, the checks still hold.                 *)
ChecksHold(r) ==
    /\ r.op = "create" /\ r.fresh => Named(r.name) = {} /\ Holding(r.slug) = {}
    /\ r.op = "rename" /\ r.fresh => FreeName(r.id, r.name)
    /\ r.op \in {"rename", "slug"} /\ r.fresh => \A s \in r.slug : FreeSlug(r.id, s)

RowsApart ==
    \A v, w \in Workers : v # w /\ Serving(w, "create") /\ ~Free(v) => req[v].id # req[w].id

HousesInv ==
    /\ HousesTyped /\ RowsApart /\ RolelessOnlyByCrash
    /\ \A w \in Workers : AtItsRow(req[w]) /\ ChecksHold(req[w])

LEMMA HouseShapes ==
    /\ NoTenant \notin House
    /\ IdleReq.op \notin {"create", "roles", "rename", "slug"}
    /\ \A r \in HouseRequest : r # IdleReq =>
          /\ r.op \in {"create", "roles", "rename", "slug"} /\ r.id \in TenantIds
          /\ r.name \in TenantNames
          /\ r.op \in {"create", "roles"} => r \in Creation
          /\ r.op \in {"rename", "slug"} => r \in Change
<1>1. \A h \in House : DOMAIN h = {"name", "slug", "active"}
  BY DEF House
<1>2. DOMAIN NoTenant = {"name"}
  BY DEF NoTenant
<1>3. NoTenant \notin House
  BY <1>1, <1>2
<1>4. IdleReq.op \notin {"create", "roles", "rename", "slug"}
  BY DEF IdleReq
<1> QED
  BY <1>3, <1>4 DEF HouseRequest, Creation, Change

(* The request of another worker once something was written.               *)
Stale(r) == [r EXCEPT !.fresh = FALSE]

LEMMA Stales ==
    ASSUME NEW r \in HouseRequest, r # IdleReq
    PROVE  /\ Stale(r) \in HouseRequest /\ Stale(r) # IdleReq /\ ~Stale(r).fresh
           /\ Stale(r).op = r.op /\ Stale(r).id = r.id /\ Stale(r).slug = r.slug
<1>1. CASE r \in Creation
  BY <1>1, HouseShapes DEF Creation, HouseRequest, Stale
<1>2. CASE r \in Change
  BY <1>2, HouseShapes DEF Change, HouseRequest, Stale
<1> QED
  BY <1>1, <1>2 DEF HouseRequest

(* Every set of numbers has a least one.                                   *)
LEMMA Least ==
    ASSUME NEW F \in SUBSET Nat, F # {}
    PROVE  \E n \in F : \A m \in F : ~(m < n)
<1>1. IsWellFoundedOn(OpToRel(<, Nat), Nat)
  BY NatLessThanWellFounded
<1>2. PICK R : R = OpToRel(<, Nat)
  OBVIOUS
<1>3. PICK n \in F : \A m \in F : ~ (<<m, n>> \in R)
  BY <1>1, <1>2, WFMin
<1>4. \A m \in F : m < n => <<m, n>> \in R
  BY <1>2 DEF OpToRel
<1> QED
  BY <1>3, <1>4

(* _unique_slug finds a slug that no condominium holds.                    *)
LEMMA SlugFound ==
    ASSUME HousesTyped
    PROVE  FirstFreeSlug \in Slugs /\ Holding(FirstFreeSlug) = {}
<1> DEFINE held == [t \in TenantIds |-> IF t \in Existing THEN tenants[t].slug ELSE 1]
           F == {n \in Slugs : Holding(n) = {}}
<1>1. held \in [TenantIds -> Slugs]
  BY TenantsAssumption DEF HousesTyped, Existing, House
<1>2. PICK s \in Slugs : \A t \in TenantIds : held[t] # s
  BY <1>1, TenantsAssumption
<1>3. Holding(s) = {}
  BY <1>2 DEF Holding, Existing
<1>4. F \in SUBSET Nat /\ F # {}
  BY <1>2, <1>3, TenantsAssumption
<1>5. PICK n \in F : \A m \in F : ~(m < n)
  BY <1>4, Least
<1>6. n \in Slugs /\ Holding(n) = {} /\ \A m \in Slugs : m < n => Holding(m) # {}
  BY <1>5
<1> QED
  BY <1>6 DEF FirstFreeSlug

(* A request begins or ends and writes nothing; one that leaves the roles  *)
(* of a condominium undone is noted.                                       *)
LEMMA HousesKept ==
    ASSUME HousesInv, UNCHANGED <<tenants, roles>>, cut \subseteq cut', NEW w \in Workers,
           NEW r \in HouseRequest, req' = [req EXCEPT ![w] = r],
           Serving(w, "roles") => req[w].id \in cut',
           r.op \in {"roles", "slug"} => r = req[w],
           AtItsRow(r), ChecksHold(r),
           \A v \in Workers :
               /\ r # IdleReq /\ ~Free(v) /\ v # w
               /\ r.op = "create" \/ Serving(v, "create")
               => req[v].id # r.id
    PROVE  HousesInv'
<1>1. \A v \in Workers : req'[v] = IF v = w THEN r ELSE req[v]
  BY DEF HousesInv, HousesTyped
<1>2. HousesTyped'
  BY <1>1 DEF HousesInv, HousesTyped
<1>3. \A v \in Workers : (AtItsRow(req[v]) /\ ChecksHold(req[v]))'
  BY <1>1 DEF HousesInv, AtItsRow, ChecksHold, Existing, Named, Holding, FreeName, FreeSlug
<1>4. RowsApart'
  <2> SUFFICES ASSUME NEW u \in Workers, NEW v \in Workers, u # v, req'[v].op = "create",
                      req'[u] # IdleReq
               PROVE  req'[u].id # req'[v].id
    BY DEF RowsApart, Serving, Free
  <2>1. CASE u = w
    BY <1>1, <2>1, HouseShapes DEF Serving, Free
  <2>2. CASE v = w
    BY <1>1, <2>2, HouseShapes DEF Serving, Free
  <2>3. CASE u # w /\ v # w
    BY <1>1, <2>3 DEF HousesInv, RowsApart, Serving, Free
  <2> QED
    BY <2>1, <2>2, <2>3
<1>5. RolelessOnlyByCrash'
  <2> SUFFICES ASSUME NEW t \in Existing, t \notin cut',
                      \A v \in Workers : ~(req'[v].op = "roles" /\ req'[v].id = t)
               PROVE  {x.name : x \in Seen({t})} = LegacyRoles
    BY DEF RolelessOnlyByCrash, Existing, Seen, Serving
  <2>1. \A v \in Workers : ~(Serving(v, "roles") /\ req[v].id = t)
    BY <1>1 DEF Serving
  <2> QED
    BY <2>1 DEF HousesInv, RolelessOnlyByCrash
<1> QED
  BY <1>2, <1>3, <1>4, <1>5 DEF HousesInv

(* What a commit makes of the other requests.                              *)
LEMMA WroteOthers ==
    ASSUME HousesInv, NEW w \in Workers, NEW r \in HouseRequest, Wrote(w, r)
    PROVE  /\ \A v \in Workers : req'[v] = IF v = w THEN r ELSE
                  IF req[v] = IdleReq THEN IdleReq ELSE Stale(req[v])
           /\ \A v \in Workers : v # w =>
                  /\ req'[v].op = req[v].op
                  /\ req[v] # IdleReq => req'[v].id = req[v].id /\ ~req'[v].fresh
                        /\ req'[v].slug = req[v].slug
           /\ req' = [v \in Workers |-> req'[v]]
           /\ \A v \in Workers : req'[v] \in HouseRequest
<1>1. \A v \in Workers : req'[v] = IF v = w THEN r ELSE
          IF req[v] = IdleReq THEN IdleReq ELSE Stale(req[v])
  BY DEF Wrote, Free, Stale
<1>2. \A v \in Workers : req[v] \in HouseRequest
  BY DEF HousesInv, HousesTyped
<1>3. req' = [v \in Workers |-> req'[v]]
  BY DEF Wrote
<1> QED
  BY <1>1, <1>2, <1>3, Stales

(* The rows of the condominiums as a commit leaves them, in which none is  *)
(* missing and none new that another request is creating.                  *)
LEMMA OthersStay ==
    ASSUME HousesInv, NEW w \in Workers, NEW r \in HouseRequest, Wrote(w, r),
           Existing \subseteq Existing', r.op # "create",
           \A v \in Workers : v # w /\ Serving(v, "create") => req[v].id \notin Existing',
           AtItsRow(r)', ChecksHold(r)',
           r # IdleReq => ~Free(w) /\ r.id = req[w].id
    PROVE  /\ \A v \in Workers : (AtItsRow(req[v]) /\ ChecksHold(req[v]))'
           /\ RowsApart'
<1>1. ASSUME NEW v \in Workers
      PROVE  (AtItsRow(req[v]) /\ ChecksHold(req[v]))'
  <2>1. CASE v = w
    BY <2>1, WroteOthers DEF AtItsRow, ChecksHold, Existing, Named, Holding, FreeName, FreeSlug
  <2>2. CASE v # w /\ req[v] = IdleReq
    <3>1. req'[v].op = "idle"
      BY <2>2, WroteOthers DEF IdleReq
    <3> QED
      BY <3>1 DEF AtItsRow, ChecksHold
  <2>3. CASE v # w /\ req[v] # IdleReq
    <3>1. /\ req'[v].op = req[v].op /\ req'[v].id = req[v].id /\ ~req'[v].fresh
          /\ req'[v].slug = req[v].slug
      BY <2>3, WroteOthers
    <3>2. AtItsRow(req[v])
      BY DEF HousesInv
    <3>3. req[v].op = "create" => req[v].id \notin Existing'
      BY <2>3 DEF Serving
    <3> QED
      BY <3>1, <3>2, <3>3 DEF AtItsRow, ChecksHold
  <2> QED
    BY <2>1, <2>2, <2>3
<1>2. RowsApart'
  <2> SUFFICES ASSUME NEW u \in Workers, NEW v \in Workers, u # v, req'[v].op = "create",
                      req'[u] # IdleReq
               PROVE  req'[u].id # req'[v].id
    BY DEF RowsApart, Serving, Free
  <2>1. v # w /\ req[v].op = "create" /\ req[v] # IdleReq /\ req'[v].id = req[v].id
    BY WroteOthers, HouseShapes
  <2>2. req[u] # IdleReq /\ req'[u].id = req[u].id
    BY WroteOthers DEF Free
  <2> QED
    BY <2>1, <2>2 DEF HousesInv, RowsApart, Serving, Free
<1> QED
  BY <1>1, <1>2

LEMMA HouseCreated ==
    ASSUME HousesInv, NEW w \in Workers, Created(w)
    PROVE  HousesInv'
<1>11. PICK t, h, r :
          /\ t = req[w].id
          /\ h = [name |-> req[w].name, slug |-> req[w].slug, active |-> TRUE]
          /\ r = [req[w] EXCEPT !.op = "roles"]
  OBVIOUS
<1>1. req[w] \in Creation /\ req[w].op = "create" /\ req[w] # IdleReq
  BY HouseShapes DEF Created, Serving, HousesInv, HousesTyped
<1>2. h \in House /\ t \in TenantIds /\ t \notin Existing
  BY <1>1, <1>11 DEF Creation, House, HousesInv, AtItsRow
<1>3. r \in HouseRequest /\ r.op = "roles" /\ r.id = t
  BY <1>1, <1>11 DEF Creation, HouseRequest
<1>4. tenants' = [tenants EXCEPT ![t] = h] /\ Wrote(w, r) /\ UNCHANGED <<roles, cut>>
  BY <1>11 DEF Created
<1>5. Existing' = Existing \cup {t}
  BY <1>2, <1>4, HouseShapes DEF Existing, HousesInv, HousesTyped
<1>6. HousesTyped'
  BY <1>2, <1>3, <1>4, WroteOthers DEF HousesInv, HousesTyped
<1>7. AtItsRow(r)' /\ ChecksHold(r)'
  BY <1>3, <1>5 DEF AtItsRow, ChecksHold
<1>8. \A v \in Workers : v # w /\ Serving(v, "create") => req[v].id \notin Existing'
  BY <1>1, <1>5, <1>11 DEF HousesInv, RowsApart, AtItsRow, Serving, Free
<1>9. RowsApart' /\ \A v \in Workers : (AtItsRow(req[v]) /\ ChecksHold(req[v]))'
  BY <1>1, <1>3, <1>4, <1>5, <1>7, <1>8, <1>11, OthersStay DEF Free
<1>10. RolelessOnlyByCrash'
  <2> SUFFICES ASSUME NEW u \in Existing', u \notin cut,
                      \A v \in Workers : ~(req'[v].op = "roles" /\ req'[v].id = u)
               PROVE  {x.name : x \in Seen({u})} = LegacyRoles
    BY <1>4 DEF RolelessOnlyByCrash, Seen, Serving
  <2>1. req'[w] = r
    BY <1>3, <1>4, WroteOthers
  <2>2. u # t /\ u \in Existing
    BY <1>3, <1>5, <2>1
  <2>3. \A v \in Workers : ~(req[v].op = "roles" /\ req[v].id = u)
    BY <1>1, <1>3, <1>4, WroteOthers, HouseShapes
  <2> QED
    BY <2>2, <2>3 DEF HousesInv, RolelessOnlyByCrash, Serving
<1> QED
  BY <1>6, <1>9, <1>10 DEF HousesInv

(* A condominium keeps its id and its roles, and gets other values.        *)
LEMMA HouseChanged ==
    ASSUME HousesInv, NEW w \in Workers, NEW t \in Existing, NEW h \in House,
           tenants' = [tenants EXCEPT ![t] = h], UNCHANGED <<roles, cut>>,
           NEW r \in HouseRequest, Wrote(w, r), r.op \notin {"create", "roles"},
           req[w].op \in {"rename", "slug"}, AtItsRow(r)', ChecksHold(r)',
           r # IdleReq => r.id = req[w].id
    PROVE  HousesInv'
<1>1. Existing' = Existing
  BY HouseShapes DEF Existing, HousesInv, HousesTyped
<1>2. HousesTyped'
  BY WroteOthers DEF HousesInv, HousesTyped, Existing
<1>3. \A v \in Workers : v # w /\ Serving(v, "create") => req[v].id \notin Existing'
  BY <1>1 DEF HousesInv, AtItsRow, Serving
<1>4. RowsApart' /\ \A v \in Workers : (AtItsRow(req[v]) /\ ChecksHold(req[v]))'
  BY <1>1, <1>3, OthersStay, HouseShapes DEF Free
<1>5. RolelessOnlyByCrash'
  <2> SUFFICES ASSUME NEW u \in Existing, u \notin cut,
                      \A v \in Workers : ~(req'[v].op = "roles" /\ req'[v].id = u)
               PROVE  {x.name : x \in Seen({u})} = LegacyRoles
    BY <1>1 DEF RolelessOnlyByCrash, Seen, Serving
  <2>1. \A v \in Workers : ~(req[v].op = "roles" /\ req[v].id = u)
    BY WroteOthers, HouseShapes
  <2> QED
    BY <2>1 DEF HousesInv, RolelessOnlyByCrash, Serving
<1> QED
  BY <1>2, <1>4, <1>5 DEF HousesInv

LEMMA HouseRolesEnsured ==
    ASSUME HousesInv, NEW w \in Workers, RolesEnsured(w)
    PROVE  HousesInv'
<1>1. PICK t : t = req[w].id
  OBVIOUS
<1>2. req[w] # IdleReq /\ req[w].op = "roles" /\ t \in TenantIds
  BY <1>1, HouseShapes DEF RolesEnsured, Serving, HousesInv, HousesTyped
<1>3. \A n : Stamp({t}, n) = [tenant |-> t, name |-> n]
  <2>1. (CHOOSE u \in {t} : TRUE) = t /\ {t} # {}
    OBVIOUS
  <2> QED
    BY <2>1 DEF Stamp
<1>4. PICK A : A = {[tenant |-> t, name |-> n] : n \in Missing({t})}
  OBVIOUS
<1>5. roles' = roles \cup A
  BY <1>1, <1>3, <1>4 DEF RolesEnsured, ActingScope
<1>6. /\ A \subseteq [tenant : TenantIds, name : LegacyRoles]
      /\ \A x \in A : x.tenant = t
      /\ \A n \in Missing({t}) : \E x \in A : x.name = n
  <2>1. PICK M : M = Missing({t})
    OBVIOUS
  <2>2. M \subseteq LegacyRoles /\ A = {[tenant |-> t, name |-> n] : n \in M}
    BY <1>4, <2>1 DEF Missing
  <2>3. \A n \in M : \E x \in A : x.name = n
    <3> SUFFICES ASSUME NEW n \in M
                 PROVE  \E x \in A : x.name = n
      OBVIOUS
    <3>1. PICK x : x = [tenant |-> t, name |-> n]
      OBVIOUS
    <3> QED
      BY <2>2, <3>1
  <2> QED
    BY <1>2, <2>1, <2>2, <2>3
<1>7. Wrote(w, IdleReq) /\ UNCHANGED <<tenants, cut>> /\ IdleReq \in HouseRequest
  BY DEF RolesEnsured, HouseRequest
<1>8. HousesTyped'
  BY <1>5, <1>6, <1>7, WroteOthers DEF HousesInv, HousesTyped
<1>9. Existing' = Existing
  BY <1>7 DEF Existing
<1>10. AtItsRow(IdleReq)' /\ ChecksHold(IdleReq)'
  BY HouseShapes DEF AtItsRow, ChecksHold
<1>11. RowsApart' /\ \A v \in Workers : (AtItsRow(req[v]) /\ ChecksHold(req[v]))'
  <2>1. \A v \in Workers : v # w /\ Serving(v, "create") => req[v].id \notin Existing'
    BY <1>9 DEF HousesInv, AtItsRow, Serving
  <2> QED
    BY <1>7, <1>9, <1>10, <2>1, OthersStay, HouseShapes
<1>12. RolelessOnlyByCrash'
  <2> SUFFICES ASSUME NEW u \in Existing, u \notin cut,
                      \A v \in Workers : ~(req'[v].op = "roles" /\ req'[v].id = u)
               PROVE  {x.name : x \in Seen({u})'} = LegacyRoles
    BY <1>7, <1>9 DEF RolelessOnlyByCrash, Serving, Seen
  <2>1. \A x \in roles' : x.name \in LegacyRoles
    BY <1>8 DEF HousesTyped
  <2>2. CASE u = t
    <3>1. ASSUME NEW n \in LegacyRoles
          PROVE  \E x \in roles' : x.tenant = t /\ x.name = n
      <4>1. CASE n \in Missing({t})
        BY <1>5, <1>6, <4>1
      <4>2. CASE n \notin Missing({t})
        BY <1>5, <4>2 DEF Missing, Seen
      <4> QED
        BY <4>1, <4>2
    <3> QED
      BY <2>1, <2>2, <3>1 DEF Seen
  <2>3. CASE u # t
    <3>1. \A v \in Workers : ~(Serving(v, "roles") /\ req[v].id = u)
      BY <1>1, <1>2, <1>7, <2>3, WroteOthers DEF Serving
    <3>2. {x.name : x \in Seen({u})} = LegacyRoles
      BY <3>1 DEF HousesInv, RolelessOnlyByCrash
    <3>3. Seen({u})' = Seen({u})
      BY <1>5, <1>6, <2>3 DEF Seen
    <3> QED
      BY <3>2, <3>3
  <2> QED
    BY <2>2, <2>3
<1> QED
  BY <1>8, <1>11, <1>12 DEF HousesInv

LEMMA HouseUpdated ==
    ASSUME HousesInv, NEW w \in Workers, Updated(w)
    PROVE  HousesInv'
<1>1. PICK t, q : t = req[w].id /\ q = req[w]
  OBVIOUS
<1>2. /\ q \in Change /\ q.op = "rename" /\ t \in Existing /\ q # IdleReq
      /\ AtItsRow(q) /\ ChecksHold(q)
  BY <1>1, HouseShapes DEF Updated, Serving, HousesInv, HousesTyped, AtItsRow
<1>3. tenants[t] \in House /\ t \in TenantIds
  BY <1>2 DEF HousesInv, HousesTyped, Existing
<1>4. PICK n, a : /\ n = Column(q.name, q.read.name, tenants[t].name)
                  /\ a = Column(q.active, q.read.active, tenants[t].active)
  OBVIOUS
<1>5. n \in TenantNames /\ a \in BOOLEAN
  <2>1. /\ q.name \in TenantNames /\ tenants[t].name \in TenantNames
        /\ q.active \in BOOLEAN /\ tenants[t].active \in BOOLEAN
    BY <1>2, <1>3 DEF Change, House
  <2>2. n \in {q.name, tenants[t].name} /\ a \in {q.active, tenants[t].active}
    BY <1>4 DEF Column
  <2> QED
    BY <2>1, <2>2
<1>6. PICK h : h = [tenants[t] EXCEPT !.name = n, !.active = a]
  OBVIOUS
<1>7. h \in House /\ h.slug = tenants[t].slug
  BY <1>3, <1>5, <1>6 DEF House
<1>8. tenants' = [tenants EXCEPT ![t] = h]
  <2>1. tenants' = [tenants EXCEPT ![t].name = Column(q.name, q.read.name, @),
                                   ![t].active = Column(q.active, q.read.active, @)]
    BY <1>1 DEF Updated
  <2>2. tenants' = [tenants EXCEPT ![t].name = n, ![t].active = a]
    BY <1>3, <1>4, <2>1 DEF HousesInv, HousesTyped
  <2> QED
    BY <1>3, <1>6, <2>2 DEF HousesInv, HousesTyped
<1>9. \A u \in TenantIds : tenants'[u] = IF u = t THEN h ELSE tenants[u]
  BY <1>8 DEF HousesInv, HousesTyped
<1>10. Existing' = Existing
  BY <1>2, <1>7, <1>9, HouseShapes DEF Existing
<1>11. \A s : Holding(s)' = Holding(s)
  BY <1>7, <1>9, <1>10 DEF Holding, Existing
<1>12. PICK r : r = IF q.slug \subseteq {tenants[t].slug} THEN IdleReq
                    ELSE [q EXCEPT !.op = "slug"]
  OBVIOUS
<1>13. Wrote(w, r) /\ UNCHANGED <<roles, cut>>
  BY <1>1, <1>12 DEF Updated
<1>14. CASE q.slug \subseteq {tenants[t].slug}
  <2>1. r = IdleReq /\ r \in HouseRequest /\ AtItsRow(r)' /\ ChecksHold(r)'
    BY <1>12, <1>14, HouseShapes DEF HouseRequest, AtItsRow, ChecksHold
  <2> QED
    BY <1>1, <1>2, <1>7, <1>8, <1>13, <2>1, HouseChanged, HouseShapes
<1>15. CASE ~(q.slug \subseteq {tenants[t].slug})
  <2>1. r = [q EXCEPT !.op = "slug"]
    BY <1>12, <1>15
  <2>2. /\ r \in Change /\ r.op = "slug" /\ r.id = t /\ r.slug = q.slug /\ r.slug # {}
        /\ r.fresh = q.fresh
    BY <1>1, <1>2, <1>15, <2>1 DEF Change
  <2>3. AtItsRow(r)'
    BY <1>2, <1>10, <2>2 DEF AtItsRow
  <2>4. ChecksHold(r)'
    BY <1>1, <1>2, <1>11, <2>2 DEF ChecksHold, FreeSlug
  <2> QED
    BY <1>1, <1>2, <1>7, <1>8, <1>13, <2>2, <2>3, <2>4, HouseChanged DEF HouseRequest
<1> QED
  BY <1>14, <1>15

LEMMA HouseSlugWritten ==
    ASSUME HousesInv, NEW w \in Workers, SlugWritten(w)
    PROVE  HousesInv'
<1>1. PICK t, s : t = req[w].id /\ s = Slug(w)
  OBVIOUS
<1>2. req[w] \in Change /\ req[w].op = "slug" /\ t \in Existing /\ AtItsRow(req[w])
  BY <1>1, HouseShapes DEF SlugWritten, Serving, HousesInv, HousesTyped, AtItsRow
<1>3. s \in Slugs
  BY <1>1, <1>2 DEF Slug, AtItsRow, Change
<1>4. tenants[t] \in House /\ t \in TenantIds
  BY <1>2 DEF HousesInv, HousesTyped, Existing
<1>5. PICK h : h = [tenants[t] EXCEPT !.slug = s]
  OBVIOUS
<1>6. h \in House
  BY <1>3, <1>4, <1>5 DEF House
<1>7. tenants' = [tenants EXCEPT ![t] = h]
  BY <1>1, <1>4, <1>5 DEF SlugWritten, HousesInv, HousesTyped
<1>8. /\ Wrote(w, IdleReq) /\ UNCHANGED <<roles, cut>> /\ IdleReq \in HouseRequest
      /\ AtItsRow(IdleReq)' /\ ChecksHold(IdleReq)'
  BY HouseShapes DEF SlugWritten, HouseRequest, AtItsRow, ChecksHold
<1> QED
  BY <1>2, <1>6, <1>7, <1>8, HouseChanged, HouseShapes

LEMMA HousesStart == TenantsInit /\ NoRequest => HousesInv
<1> SUFFICES ASSUME TenantsInit, NoRequest
             PROVE  HousesInv
  OBVIOUS
<1>1. \A w \in Workers : req[w] = IdleReq
  BY DEF NoRequest
<1>2. PICK n \in TenantNames : tenants =
          [t \in TenantIds |-> IF t = Default THEN [name |-> n, slug |-> 1, active |-> TRUE]
                               ELSE NoTenant]
  BY DEF TenantsInit
<1>3. [name |-> n, slug |-> 1, active |-> TRUE] \in House
  BY TenantsAssumption DEF House
<1>4. tenants \in [TenantIds -> House \cup {NoTenant}] /\ Existing = {Default}
  BY <1>2, <1>3, HouseShapes, TenantsAssumption DEF Existing
<1>5. HousesTyped
  <2>1. roles \subseteq [tenant : TenantIds, name : LegacyRoles]
    BY TenantsAssumption DEF TenantsInit
  <2> QED
    BY <1>1, <1>4, <2>1 DEF NoRequest, HousesTyped, HouseRequest
<1>6. RolelessOnlyByCrash
  <2>1. ASSUME NEW x \in LegacyRoles
        PROVE  \E r \in roles : r.tenant = Default /\ r.name = x
    <3>1. PICK r : r = [tenant |-> Default, name |-> x]
      OBVIOUS
    <3> QED
      BY <3>1 DEF TenantsInit
  <2> QED
    BY <1>4, <1>5, <2>1 DEF RolelessOnlyByCrash, Seen, HousesTyped
<1>7. RowsApart /\ \A w \in Workers : AtItsRow(req[w]) /\ ChecksHold(req[w])
  BY <1>1, HouseShapes DEF RowsApart, AtItsRow, ChecksHold, Serving
<1> QED
  BY <1>5, <1>6, <1>7 DEF HousesInv

LEMMA HousesStep == HousesInv /\ [TenantsNext]_<<houses, req>> => HousesInv'
<1> SUFFICES ASSUME HousesInv, [TenantsNext]_<<houses, req>>
             PROVE  HousesInv'
  OBVIOUS
<1>1. CASE UNCHANGED <<houses, req>>
  BY <1>1 DEF HousesInv, HousesTyped, RowsApart, RolelessOnlyByCrash, AtItsRow, ChecksHold,
     Existing, Named, Holding, FreeName, FreeSlug, Seen, Serving, Free, houses
<1> SUFFICES ASSUME NEW w \in Workers,
                    Create(w) \/ UpdateTenant(w) \/ SaveProfile(w) \/ HouseEnds(w)
                      \/ TenantsCrash(w)
             PROVE  HousesInv'
  BY <1>1 DEF TenantsNext
<1>2. \A v \in Workers : /\ Serving(v, "create") => req[v].id \notin Existing
                         /\ Free(v) => ~Serving(v, "roles")
  BY HouseShapes DEF HousesInv, AtItsRow, Serving, Free
<1>3. AtItsRow(IdleReq) /\ ChecksHold(IdleReq) /\ IdleReq \in HouseRequest
  BY HouseShapes DEF AtItsRow, ChecksHold, HouseRequest
<1>4. CASE Create(w)
  <2>1. PICK t \in TenantIds \ Existing, n \in TenantNames :
            /\ \A v \in Workers : ~Free(v) => req[v].id # t
            /\ Named(n) = {}
            /\ Ask(w, [op |-> "create", id |-> t, name |-> n, slug |-> FirstFreeSlug,
                       tries |-> 1, fresh |-> TRUE])
    BY <1>4 DEF Create
  <2>2. PICK s : s = FirstFreeSlug
    OBVIOUS
  <2>3. s \in Slugs /\ Holding(s) = {}
    BY <2>2, SlugFound DEF HousesInv
  <2>4. PICK r : r = [op |-> "create", id |-> t, name |-> n, slug |-> s, tries |-> 1,
                      fresh |-> TRUE]
    OBVIOUS
  <2>5. r \in HouseRequest /\ r.op = "create" /\ r.id = t /\ AtItsRow(r) /\ ChecksHold(r)
    BY <2>1, <2>3, <2>4 DEF HouseRequest, Creation, AtItsRow, ChecksHold
  <2>6. req' = [req EXCEPT ![w] = r] /\ UNCHANGED houses /\ Free(w)
    BY <1>4, <2>1, <2>2, <2>4 DEF Create, Ask
  <2> QED
    BY <1>2, <2>1, <2>5, <2>6, HousesKept DEF houses
<1>5. ASSUME NEW r \in Change, r.op = "rename", r.id \in Existing, AtItsRow(r), ChecksHold(r),
             Free(w), UNCHANGED houses, req' = [req EXCEPT ![w] = r]
      PROVE  HousesInv'
  BY <1>2, <1>5, HousesKept DEF HouseRequest, houses
<1>6. CASE UpdateTenant(w)
  <2>1. PICK t \in Existing, n \in TenantNames, a \in BOOLEAN :
            /\ FreeName(t, n)
            /\ Ask(w, [op |-> "rename", id |-> t, name |-> n, active |-> a, slug |-> {},
                       read |-> tenants[t], fresh |-> TRUE])
    BY <1>6 DEF UpdateTenant
  <2>2. tenants[t] \in House /\ t \in TenantIds
    BY DEF HousesInv, HousesTyped, Existing
  <2>3. PICK r : r = [op |-> "rename", id |-> t, name |-> n, active |-> a, slug |-> {},
                      read |-> tenants[t], fresh |-> TRUE]
    OBVIOUS
  <2>4. r \in Change /\ r.op = "rename" /\ r.id = t /\ r.name = n /\ r.slug = {}
    BY <2>2, <2>3 DEF Change
  <2>5. AtItsRow(r) /\ ChecksHold(r)
    BY <2>1, <2>4 DEF AtItsRow, ChecksHold
  <2> QED
    BY <1>5, <1>6, <2>1, <2>3, <2>4, <2>5 DEF UpdateTenant, Ask
<1>7. CASE SaveProfile(w)
  <2>1. PICK t \in Acting, n \in TenantNames, s \in Slugs :
            /\ FreeSlug(t, s) /\ FreeName(t, n)
            /\ Ask(w, [op |-> "rename", id |-> t, name |-> n, active |-> tenants[t].active,
                       slug |-> {s} \ {tenants[t].slug}, read |-> tenants[t], fresh |-> TRUE])
    BY <1>7 DEF SaveProfile
  <2>2. t \in Existing /\ tenants[t] \in House /\ t \in TenantIds /\ tenants[t].active \in BOOLEAN
    BY DEF HousesInv, HousesTyped, Existing, Acting, House
  <2>3. PICK S, a : S = {s} \ {tenants[t].slug} /\ a = tenants[t].active
    OBVIOUS
  <2>4. PICK r : r = [op |-> "rename", id |-> t, name |-> n, active |-> a, slug |-> S,
                      read |-> tenants[t], fresh |-> TRUE]
    OBVIOUS
  <2>5. r \in Change /\ r.op = "rename" /\ r.id = t /\ r.name = n /\ r.slug \subseteq {s}
    BY <2>2, <2>3, <2>4 DEF Change
  <2>6. AtItsRow(r) /\ ChecksHold(r)
    BY <2>1, <2>2, <2>5 DEF AtItsRow, ChecksHold
  <2> QED
    BY <1>5, <1>7, <2>1, <2>2, <2>3, <2>4, <2>5, <2>6 DEF SaveProfile, Ask
<1>8. CASE Created(w)
  BY <1>8, HouseCreated
<1>9. CASE CreateAgain(w)
  <2>1. PICK q : q = req[w]
    OBVIOUS
  <2>2. q \in Creation /\ q.op = "create" /\ q # IdleReq /\ AtItsRow(q) /\ ~q.fresh
    <3>1. q \in Creation /\ q.op = "create" /\ q # IdleReq /\ AtItsRow(q) /\ ChecksHold(q)
      BY <1>9, <2>1, HouseShapes DEF CreateAgain, Serving, HousesInv, HousesTyped
    <3> QED
      BY <1>9, <2>1, <3>1 DEF CreateAgain, Clash, ChecksHold
  <2>3. PICK s : s = FirstFreeSlug
    OBVIOUS
  <2>4. s \in Slugs
    BY <2>3, SlugFound DEF HousesInv
  <2>5. PICK r : r = [q EXCEPT !.slug = s, !.tries = q.tries + 1]
    OBVIOUS
  <2>6. r \in HouseRequest /\ r.op = "create" /\ r.id = q.id /\ ~r.fresh
    <3>1. PICK k \in Nat : k = q.tries + 1
      BY <2>2 DEF Creation
    <3>2. r = [q EXCEPT !.slug = s, !.tries = k]
      BY <2>5, <3>1
    <3>3. r \in Creation
      BY <2>2, <2>4, <3>2 DEF Creation
    <3>4. r.op = q.op /\ r.id = q.id /\ r.fresh = q.fresh
      BY <2>2, <3>2 DEF Creation
    <3> QED
      BY <2>2, <3>3, <3>4 DEF HouseRequest
  <2>7. AtItsRow(r) /\ ChecksHold(r)
    BY <2>2, <2>6 DEF AtItsRow, ChecksHold
  <2>8. req' = [req EXCEPT ![w] = r] /\ UNCHANGED houses
    BY <1>9, <2>1, <2>3, <2>5 DEF CreateAgain, Ask
  <2>9. \A v \in Workers : ~Free(v) /\ v # w => req[v].id # r.id
    BY <2>1, <2>2, <2>6 DEF HousesInv, RowsApart, Serving
  <2> QED
    BY <2>1, <2>2, <2>6, <2>7, <2>8, <2>9, HousesKept DEF Serving, houses
<1>10. CASE CreateRefused(w) \/ UpdateRefused(w) \/ SlugRefused(w)
  <2>1. req' = [req EXCEPT ![w] = IdleReq] /\ UNCHANGED houses /\ ~Serving(w, "roles")
    BY <1>10 DEF CreateRefused, UpdateRefused, SlugRefused, Serving, Answer, Ask
  <2> QED
    BY <1>3, <2>1, HousesKept, HouseShapes DEF houses
<1>11. CASE RolesEnsured(w)
  BY <1>11, HouseRolesEnsured
<1>12. CASE Updated(w)
  BY <1>12, HouseUpdated
<1>13. CASE SlugWritten(w)
  BY <1>13, HouseSlugWritten
<1>14. CASE TenantsCrash(w)
  <2>1. /\ req' = [req EXCEPT ![w] = IdleReq] /\ UNCHANGED <<tenants, roles>>
        /\ cut \subseteq cut' /\ (Serving(w, "roles") => req[w].id \in cut')
    BY <1>14 DEF TenantsCrash, Dies, Answer, Ask
  <2> QED
    BY <1>3, <2>1, HousesKept, HouseShapes
<1> QED
  BY <1>4, <1>6, <1>7, <1>8, <1>9, <1>10, <1>11, <1>12, <1>13, <1>14 DEF HouseEnds

(* For any condominiums, names, slugs, roles and workers: a condominium    *)
(* lacks its roles only while its creation is at them, or because that     *)
(* died between its two commits (create_tenant, ensure_legacy_roles).      *)
THEOREM RolelessByCrash == TenantsSpec => []RolelessOnlyByCrash
<1>1. HousesInv => RolelessOnlyByCrash
  BY DEF HousesInv
<1> QED
  BY <1>1, HousesStart, HousesStep, PTL DEF TenantsSpec

RefusedStep ==
    \A w \in Workers :
        CreateRefused(w) \/ UpdateRefused(w) \/ SlugRefused(w) => ~req[w].fresh

LEMMA RefusedLate == HousesInv => RefusedStep
<1> SUFFICES ASSUME HousesInv, NEW w \in Workers, req[w].fresh,
                    CreateRefused(w) \/ UpdateRefused(w) \/ SlugRefused(w)
             PROVE  FALSE
  BY DEF RefusedStep
<1>1. AtItsRow(req[w]) /\ ChecksHold(req[w])
  BY DEF HousesInv
<1>2. CASE CreateRefused(w)
  BY <1>1, <1>2 DEF CreateRefused, Serving, Clash, ChecksHold
<1>3. CASE UpdateRefused(w)
  BY <1>1, <1>3 DEF UpdateRefused, Serving, ChecksHold
<1>4. CASE SlugRefused(w)
  <2>1. req[w].op = "slug" /\ Slug(w) \in req[w].slug
    BY <1>1, <1>4 DEF SlugRefused, Serving, AtItsRow, Slug
  <2> QED
    BY <1>1, <1>4, <2>1 DEF SlugRefused, ChecksHold
<1> QED
  BY <1>2, <1>3, <1>4

(* For any condominiums, names, slugs and workers: once the checks of a    *)
(* name and a slug have passed, a commit refuses them only when another    *)
(* was written since; a generated slug is one nobody holds.                *)
THEOREM RefusedLateByRace == TenantsSpec => RefusedLateOnlyByRace
<1>1. RefusedStep => [\A w \in Workers :
          CreateRefused(w) \/ UpdateRefused(w) \/ SlugRefused(w) => ~req[w].fresh]_<<houses, req>>
  BY DEF RefusedStep
<1> QED
  BY <1>1, RefusedLate, HousesStart, HousesStep, PTL DEF TenantsSpec, RefusedLateOnlyByRace
-----------------------------------------------------------------------------
(* The office: one component works, and the others' sums stand still.      *)

SumsInv ==
    /\ IF desk = "stock" THEN StockInv ELSE moves = <<>>
    /\ IF desk = "projects" THEN ProjectsInv ELSE posts = <<>>

LEMMA SumsStep == SumsInv /\ [OfficeNext]_officeVars => SumsInv'
<1> SUFFICES ASSUME SumsInv, [OfficeNext]_officeVars
             PROVE  SumsInv'
  OBVIOUS
<1>1. desk' = desk
  BY DEF OfficeNext, officeVars, AtLedger, AtFiles, AtPurchases, AtStock, AtProjects,
         AtDocuments, AtFeed, AtTenants
<1>2. CASE desk = "stock"
  <2>1. [StockNext]_<<stock, req>> /\ UNCHANGED works
    BY <1>2 DEF OfficeNext, officeVars, AtLedger, AtFiles, AtPurchases, AtStock, AtProjects,
         AtDocuments, AtFeed, AtTenants
  <2> QED
    BY <1>1, <1>2, <2>1, StockStep DEF SumsInv, works
<1>3. CASE desk = "projects"
  <2>1. [ProjectsNext]_<<works, req>> /\ UNCHANGED stock
    BY <1>3 DEF OfficeNext, officeVars, AtLedger, AtFiles, AtPurchases, AtStock, AtProjects,
         AtDocuments, AtFeed, AtTenants
  <2> QED
    BY <1>1, <1>3, <2>1, ProjectsStep DEF SumsInv, stock
<1>4. CASE desk \notin {"stock", "projects"}
  <2>1. UNCHANGED <<stock, works>>
    BY <1>4 DEF OfficeNext, officeVars, AtLedger, AtFiles, AtPurchases, AtStock, AtProjects,
         AtDocuments, AtFeed, AtTenants
  <2> QED
    BY <1>1, <1>4, <2>1 DEF SumsInv, stock, works
<1> QED
  BY <1>2, <1>3, <1>4

(* For any stock, costs and workers: neither the stock of an asset nor the *)
(* executed budget of a project loses an update, but between two workers   *)
(* that read the same sum.                                                 *)
THEOREM SumsLostByRace == OfficeSpec => []SumsLostOnlyByRace
<1>1. OfficeInit => SumsInv
  <2>1. OfficeInit => StockInv /\ moves = <<>>
    BY StockStart DEF OfficeInit, StockInit
  <2>2. OfficeInit => ProjectsInv /\ posts = <<>>
    BY ProjectsStart DEF OfficeInit, ProjectsInit
  <2> QED
    BY <2>1, <2>2 DEF SumsInv
<1>2. SumsInv => SumsLostOnlyByRace
  <2>1. SumsInv => StockLostOnlyByRace
    BY StockTells DEF SumsInv, StockLostOnlyByRace
  <2>2. SumsInv => BudgetLostOnlyByRace
    BY DEF SumsInv, ProjectsInv, BudgetLostOnlyByRace
  <2> QED
    BY <2>1, <2>2 DEF SumsLostOnlyByRace
<1> QED
  BY <1>1, <1>2, SumsStep, PTL DEF OfficeSpec
-----------------------------------------------------------------------------
(* Documents.                                                              *)

FolderRow(r) == r = [parent |-> r.parent, by |-> r.by]

DocumentsTyped ==
    /\ Len(folders) \in Nat /\ folders = [f \in 1 .. Len(folders) |-> folders[f]]
    /\ \A f \in Folders : FolderRow(folders[f]) /\ folders[f].by \in Workers
    /\ req = [w \in Workers |-> req[w]]

(* Folders that are there have parents that are.                           *)
ParentsThere == \A f \in Folders : folders[f].parent \subseteq Folders

(* No worker closed a loop alone: of folders that it placed, one is not in *)
(* another.                                                                *)
LooseEnd(S) == \E f \in S : folders[f].parent \cap S = {}
NoLoopOfOne ==
    \A w \in Workers : \A S \in SUBSET Folders :
        S # {} /\ (\A f \in S : folders[f].by = w) => LooseEnd(S)

(* Where a worker moves a folder, that folder is not above the parent by   *)
(* the worker's own placements.                                            *)
NotAbove(w, f, P) ==
    \E S \in SUBSET DOMAIN folders :
        /\ P \subseteq S /\ f \notin S
        /\ \A g \in S \cap Folders : folders[g].by = w => folders[g].parent \subseteq S
MovesBelow ==
    \A w \in Workers : Serving(w, "move") => NotAbove(w, req[w].folder, req[w].parent)

DocumentsInv == DocumentsTyped /\ ParentsThere /\ NoLoopOfOne /\ MovesBelow

LEMMA FolderShapes ==
    /\ \A r : FolderRow(r) => r # FolderGone
    /\ IdleReq.op # "move"
<1>1. ASSUME NEW r, FolderRow(r) PROVE r # FolderGone
  <2> PICK p, w : r = [parent |-> p, by |-> w]
    BY <1>1, Zenon DEF FolderRow
  <2>1. "by" \in DOMAIN r
    OBVIOUS
  <2>2. "by" \notin DOMAIN FolderGone
    BY DEF FolderGone
  <2> QED
    BY <2>1, <2>2
<1> QED
  BY <1>1 DEF IdleReq

(* A chain holds where it starts and is closed upwards, and leads out of a *)
(* folder by its parents only.                                             *)
LEMMA ChainCloses ==
    ASSUME ParentsThere, NEW f \in Folders
    PROVE  /\ f \in Chain(f) /\ Chain(f) \subseteq Folders /\ Upward(Chain(f))
           /\ \A g \in Chain(f) : Chain(g) \subseteq Chain(f)
           /\ \A g \in Chain(f) : g = f \/ \E p \in folders[f].parent : g \in Chain(p)
<1>1. f \in Chain(f) /\ Chain(f) \subseteq Folders
  BY DEF Chain
<1>2. Upward(Chain(f))
  <2> SUFFICES ASSUME NEW g \in Chain(f), NEW p \in folders[g].parent
               PROVE  p \in Chain(f)
    BY DEF Upward
  <2>1. p \in Folders
    BY DEF Chain, ParentsThere
  <2>2. \A S \in SUBSET Folders : f \in S /\ Upward(S) => p \in S
    BY DEF Chain, Upward
  <2> QED
    BY <2>1, <2>2 DEF Chain
<1>3. \A g \in Chain(f) : Chain(g) \subseteq Chain(f)
  BY <1>1, <1>2 DEF Chain
<1>4. ASSUME NEW g \in Chain(f), g # f
      PROVE  \E p \in folders[f].parent : g \in Chain(p)
  <2>1. PICK S : S = {f} \cup UNION {Chain(p) : p \in folders[f].parent}
    OBVIOUS
  <2>2. S \subseteq Folders
    BY <2>1 DEF Chain
  <2>3. \A p \in folders[f].parent :
          /\ p \in Chain(p)
          /\ \A h \in Chain(p) : folders[h].parent \subseteq Chain(p)
    <3> SUFFICES ASSUME NEW p \in folders[f].parent
                 PROVE  /\ p \in Chain(p)
                        /\ \A h \in Chain(p) : folders[h].parent \subseteq Chain(p)
      OBVIOUS
    <3>1. p \in Folders
      BY DEF ParentsThere
    <3> QED
      BY <3>1 DEF Chain, Upward, ParentsThere
  <2>4. Upward(S)
    BY <2>1, <2>3 DEF Upward
  <2>5. g \in S
    BY <2>1, <2>2, <2>4 DEF Chain
  <2> QED
    BY <1>4, <2>1, <2>5
<1> QED
  BY <1>1, <1>2, <1>3, <1>4

LEMMA DocumentsStart == DocumentsInit /\ NoRequest => DocumentsInv
  BY FolderShapes DEF DocumentsInit, NoRequest, DocumentsInv, DocumentsTyped, ParentsThere,
     NoLoopOfOne, MovesBelow, Folders, Serving

(* A step that leaves the folders, and begins no move that could close one.*)
LEMMA FoldersKept ==
    ASSUME DocumentsInv, UNCHANGED folders, NEW w \in Workers, NEW r,
           req' = req \/ Ask(w, r),
           r.op = "move" => NotAbove(w, r.folder, r.parent)
    PROVE  DocumentsInv'
<1>1. \A v \in Workers : req'[v] = req[v] \/ (v = w /\ req'[v] = r)
  BY DEF Ask, DocumentsInv, DocumentsTyped
<1>2. DocumentsTyped'
  BY DEF Ask, DocumentsInv, DocumentsTyped, Folders
<1>3. ParentsThere' /\ NoLoopOfOne'
  BY DEF DocumentsInv, ParentsThere, NoLoopOfOne, LooseEnd, Folders
<1>4. \A v, f, P : NotAbove(v, f, P)' = NotAbove(v, f, P)
  BY DEF NotAbove, Folders
<1>5. MovesBelow'
  BY <1>1, <1>4 DEF DocumentsInv, MovesBelow, Serving
<1> QED
  BY <1>2, <1>3, <1>5 DEF DocumentsInv

(* A request ends; the folders there were may go, and others be placed by  *)
(* its worker.                                                             *)
LEMMA OthersMoveBelow ==
    ASSUME DocumentsInv, NEW w \in Workers, Answer(w), DOMAIN folders \subseteq DOMAIN folders',
           \A f \in Folders' : folders'[f].by = w \/ (f \in Folders /\ folders'[f] = folders[f]),
           \A f \in Folders' : f \in DOMAIN folders => f \in Folders
    PROVE  MovesBelow'
<1> SUFFICES ASSUME NEW v \in Workers, Serving(v, "move")'
             PROVE  NotAbove(v, req[v].folder, req[v].parent)'
  BY DEF MovesBelow
<1>1. v # w /\ req'[v] = req[v]
  BY FolderShapes DEF Answer, Ask, Serving, DocumentsInv, DocumentsTyped
<1>2. NotAbove(v, req[v].folder, req[v].parent)
  BY <1>1 DEF DocumentsInv, MovesBelow, Serving
<1>3. PICK S \in SUBSET DOMAIN folders :
        /\ req[v].parent \subseteq S /\ req[v].folder \notin S
        /\ \A g \in S \cap Folders : folders[g].by = v => folders[g].parent \subseteq S
  BY <1>2 DEF NotAbove
<1>4. \A g \in S \cap Folders' : folders'[g].by = v => folders'[g].parent \subseteq S
  BY <1>1, <1>3
<1> QED
  BY <1>1, <1>3, <1>4 DEF NotAbove

LEMMA FolderIsCreated ==
    ASSUME DocumentsInv, NEW w \in Workers, FolderCreated(w)
    PROVE  DocumentsInv'
<1>1. CASE UNCHANGED folders
  BY <1>1, FoldersKept, FolderShapes DEF FolderCreated, Answer
<1>2. CASE ~UNCHANGED folders
  <2>1. PICK P, row, n : /\ P = req[w].parent /\ row = [parent |-> P, by |-> w]
                         /\ n = Len(folders) + 1
    OBVIOUS
  <2>2. P \subseteq Folders /\ folders' = Append(folders, row)
    BY <1>2, <2>1 DEF FolderCreated
  <2>3. FolderRow(row) /\ row.parent = P /\ row.by = w
    BY <2>1 DEF FolderRow
  <2>4. /\ Len(folders') = n /\ n \in Nat /\ folders' = [f \in 1 .. n |-> folders'[f]]
        /\ n \notin DOMAIN folders /\ folders'[n] = row
        /\ \A f \in DOMAIN folders : folders'[f] = folders[f]
        /\ DOMAIN folders' = DOMAIN folders \cup {n}
    BY <2>1, <2>2 DEF DocumentsInv, DocumentsTyped
  <2>5. Folders' = Folders \cup {n} /\ n \notin Folders /\ Folders \subseteq DOMAIN folders
    BY <2>3, <2>4, FolderShapes DEF Folders
  <2>6. DocumentsTyped'
    <3>1. \A f \in Folders' : FolderRow(folders'[f]) /\ folders'[f].by \in Workers
      BY <2>3, <2>4, <2>5 DEF DocumentsInv, DocumentsTyped
    <3>2. req' = [v \in Workers |-> req'[v]]
      BY DEF DocumentsInv, DocumentsTyped, FolderCreated, Answer, Ask
    <3>3. Len(folders') \in Nat /\ folders' = [f \in 1 .. Len(folders') |-> folders'[f]]
      BY <2>4 DEF DocumentsInv, DocumentsTyped
    <3> QED
      BY <3>1, <3>2, <3>3 DEF DocumentsTyped
  <2>7. ParentsThere'
    BY <2>2, <2>3, <2>4, <2>5 DEF DocumentsInv, ParentsThere
  <2>8. MovesBelow'
    BY <2>3, <2>4, <2>5, OthersMoveBelow DEF FolderCreated
  <2>9. NoLoopOfOne'
    <3> SUFFICES ASSUME NEW v \in Workers, NEW S \in SUBSET Folders', S # {},
                        \A f \in S : folders'[f].by = v
                 PROVE  LooseEnd(S)'
      BY DEF NoLoopOfOne
    <3>1. CASE S \cap Folders = {}
      <4>1. S = {n}
        BY <2>5, <3>1
      <4> QED
        BY <2>2, <2>3, <2>4, <2>5, <4>1 DEF LooseEnd
    <3>2. CASE S \cap Folders # {}
      <4> PICK T \in SUBSET Folders : T = S \cap Folders
        OBVIOUS
      <4>3. \A f \in T : folders[f].by = v
        BY <2>4, <2>5
      <4>4. LooseEnd(T)
        BY <3>2, <4>3 DEF DocumentsInv, NoLoopOfOne
      <4>1. PICK f \in S \cap Folders : folders[f].parent \cap (S \cap Folders) = {}
        BY <4>4 DEF LooseEnd
      <4>2. folders'[f].parent = folders[f].parent /\ folders[f].parent \subseteq Folders
        BY <2>4, <2>5 DEF DocumentsInv, ParentsThere
      <4> QED
        BY <4>1, <4>2 DEF LooseEnd
    <3> QED
      BY <3>1, <3>2
  <2> QED
    BY <2>6, <2>7, <2>8, <2>9 DEF DocumentsInv
<1> QED
  BY <1>1, <1>2

LEMMA FolderIsMoved ==
    ASSUME DocumentsInv, NEW w \in Workers, FolderMoved(w)
    PROVE  DocumentsInv'
<1>1. CASE UNCHANGED folders
  BY <1>1, FoldersKept, FolderShapes DEF FolderMoved, Answer
<1>2. CASE ~UNCHANGED folders
  <2>1. PICK f, P, row : /\ f = req[w].folder /\ P = req[w].parent
                         /\ row = [parent |-> P, by |-> w]
    OBVIOUS
  <2>2. f \in Folders /\ P \subseteq Folders /\ folders' = [folders EXCEPT ![f] = row]
    BY <1>2, <2>1 DEF FolderMoved
  <2>3. FolderRow(row) /\ row.parent = P /\ row.by = w
    BY <2>1 DEF FolderRow
  <2>4. /\ DOMAIN folders' = DOMAIN folders /\ Folders \subseteq DOMAIN folders
        /\ Len(folders') = Len(folders)
        /\ folders' = [g \in 1 .. Len(folders) |-> folders'[g]]
        /\ \A g \in DOMAIN folders : folders'[g] = IF g = f THEN row ELSE folders[g]
    <3> PICK n \in Nat : n = Len(folders)
      BY DEF DocumentsInv, DocumentsTyped
    <3>1. folders = [g \in 1 .. n |-> folders[g]] /\ DOMAIN folders = 1 .. n
      BY DEF DocumentsInv, DocumentsTyped
    <3>2. folders' = [g \in 1 .. n |-> IF g = f THEN row ELSE folders[g]]
      BY <2>2, <3>1
    <3>3. Len(folders') = n /\ DOMAIN folders' = 1 .. n
      BY <3>2
    <3>4. Folders \subseteq DOMAIN folders
      BY DEF Folders
    <3> QED
      BY <3>1, <3>2, <3>3, <3>4
  <2>5. Folders' = Folders
    BY <2>2, <2>3, <2>4, FolderShapes DEF Folders
  <2>6. DocumentsTyped'
    <3>1. \A g \in Folders' : FolderRow(folders'[g]) /\ folders'[g].by \in Workers
      BY <2>3, <2>4, <2>5 DEF DocumentsInv, DocumentsTyped
    <3>2. req' = [v \in Workers |-> req'[v]]
      BY DEF DocumentsInv, DocumentsTyped, FolderMoved, Answer, Ask
    <3>3. Len(folders') \in Nat /\ folders' = [g \in 1 .. Len(folders') |-> folders'[g]]
      BY <2>4 DEF DocumentsInv, DocumentsTyped
    <3> QED
      BY <3>1, <3>2, <3>3 DEF DocumentsTyped
  <2>7. ParentsThere'
    BY <2>2, <2>3, <2>4, <2>5 DEF DocumentsInv, ParentsThere
  <2>8. MovesBelow'
    BY <2>3, <2>4, <2>5, OthersMoveBelow DEF FolderMoved
  <2>9. PICK T \in SUBSET DOMAIN folders :
          /\ P \subseteq T /\ f \notin T
          /\ \A g \in T \cap Folders : folders[g].by = w => folders[g].parent \subseteq T
    BY <2>1 DEF FolderMoved, DocumentsInv, MovesBelow, NotAbove
  <2>10. NoLoopOfOne'
    <3> SUFFICES ASSUME NEW v \in Workers, NEW S \in SUBSET Folders', S # {},
                        \A g \in S : folders'[g].by = v
                 PROVE  LooseEnd(S)'
      BY DEF NoLoopOfOne
    <3>1. S \subseteq Folders
      BY <2>5
    <3>2. CASE f \notin S
      <4>1. \A g \in S : folders'[g] = folders[g]
        BY <2>4, <3>1, <3>2
      <4>2. LooseEnd(S)
        BY <3>1, <4>1 DEF DocumentsInv, NoLoopOfOne
      <4> QED
        BY <4>1, <4>2 DEF LooseEnd
    <3>3. CASE f \in S /\ P \cap S = {}
      BY <2>2, <2>3, <2>4, <3>1, <3>3 DEF LooseEnd
    <3>4. CASE f \in S /\ P \cap S # {}
      <4>1. v = w /\ S \cap T # {} /\ f \notin S \cap T
        BY <2>2, <2>3, <2>4, <2>9, <3>1, <3>4
      <4>2. \A g \in S \cap T : folders'[g] = folders[g] /\ folders[g].by = w
        BY <2>4, <3>1, <4>1
      <4>3. PICK g \in S \cap T : folders[g].parent \cap (S \cap T) = {}
        BY <3>1, <4>1, <4>2 DEF DocumentsInv, NoLoopOfOne, LooseEnd
      <4>4. folders[g].parent \subseteq T
        BY <2>9, <3>1, <4>2, <4>3
      <4> QED
        BY <4>2, <4>3, <4>4 DEF LooseEnd
    <3> QED
      BY <3>2, <3>3, <3>4
  <2> QED
    BY <2>6, <2>7, <2>8, <2>10 DEF DocumentsInv
<1> QED
  BY <1>1, <1>2

LEMMA FolderIsDeleted ==
    ASSUME DocumentsInv, NEW w \in Workers, FolderDeleted(w)
    PROVE  DocumentsInv'
<1>1. PICK gone, R : /\ R = req[w].folders /\ gone = Under(R)
                     /\ folders' = [f \in DOMAIN folders |-> IF f \in gone THEN FolderGone ELSE folders[f]]
  BY DEF FolderDeleted
<1>2. /\ DOMAIN folders' = DOMAIN folders /\ Folders \subseteq DOMAIN folders
      /\ \A f \in DOMAIN folders : folders'[f] = IF f \in gone THEN FolderGone ELSE folders[f]
  BY <1>1 DEF Folders
<1>3. Folders' = Folders \ gone /\ \A f \in Folders' : folders'[f] = folders[f]
  BY <1>2 DEF Folders
<1>4. /\ Len(folders') = Len(folders) /\ Len(folders) \in Nat
      /\ folders' = [f \in 1 .. Len(folders) |-> folders'[f]]
  BY <1>1 DEF DocumentsInv, DocumentsTyped
<1>5. DocumentsTyped'
  BY <1>3, <1>4 DEF DocumentsInv, DocumentsTyped, FolderDeleted, Answer, Ask
<1>6. ParentsThere'
  <2> SUFFICES ASSUME NEW f \in Folders \ gone, NEW p \in folders[f].parent
               PROVE  p \in Folders \ gone
    BY <1>3 DEF ParentsThere
  <2>1. ParentsThere /\ p \in Folders
    BY DEF DocumentsInv, ParentsThere
  <2>2. p \in Chain(f)
    BY <2>1, ChainCloses DEF Upward
  <2>3. Chain(p) \subseteq Chain(f)
    BY <2>1, <2>2, ChainCloses
  <2> QED
    BY <1>1, <2>1, <2>3 DEF Under
<1>7. NoLoopOfOne'
  <2> SUFFICES ASSUME NEW v \in Workers, NEW S \in SUBSET Folders', S # {},
                      \A g \in S : folders'[g].by = v
               PROVE  LooseEnd(S)'
    BY DEF NoLoopOfOne
  <2>1. S \subseteq Folders /\ \A g \in S : folders'[g] = folders[g]
    BY <1>3
  <2>2. LooseEnd(S)
    BY <2>1 DEF DocumentsInv, NoLoopOfOne
  <2> QED
    BY <2>1, <2>2 DEF LooseEnd
<1>8. MovesBelow'
  BY <1>2, <1>3, OthersMoveBelow DEF FolderDeleted
<1> QED
  BY <1>5, <1>6, <1>7, <1>8 DEF DocumentsInv

LEMMA DocumentsStep == DocumentsInv /\ [DocumentsNext]_<<papers, req>> => DocumentsInv'
<1> SUFFICES ASSUME DocumentsInv, [DocumentsNext]_<<papers, req>>
             PROVE  DocumentsInv'
  OBVIOUS
<1>1. ASSUME NEW w \in Workers, MoveFolder(w)
      PROVE  DocumentsInv'
  <2>1. PICK f \in Folders, p \in Folders :
          f \notin Chain(p) /\ Ask(w, [op |-> "move", folder |-> f, parent |-> {p}])
    BY <1>1 DEF MoveFolder
  <2>2. PICK r : r = [op |-> "move", folder |-> f, parent |-> {p}]
    OBVIOUS
  <2>3. NotAbove(w, f, {p})
    <3>1. p \in Chain(p) /\ Chain(p) \subseteq Folders /\ Upward(Chain(p))
      BY ChainCloses DEF DocumentsInv
    <3> QED
      BY <2>1, <3>1 DEF NotAbove, Upward, Folders
  <2> QED
    BY <1>1, <2>1, <2>2, <2>3, FoldersKept DEF MoveFolder, papers
<1>2. ASSUME NEW w \in Workers, NEW r, req' = req \/ Ask(w, r), r.op # "move", UNCHANGED folders
      PROVE  DocumentsInv'
  BY <1>2, FoldersKept
<1>3. ASSUME NEW w \in Workers, CreateFolder(w)
      PROVE  DocumentsInv'
  <2>1. PICK r : Ask(w, r) /\ r.op # "move"
    BY <1>3 DEF CreateFolder
  <2> QED
    BY <1>2, <1>3, <2>1 DEF CreateFolder, papers
<1>4. ASSUME NEW w \in Workers, MoveFolderHangs(w)
      PROVE  DocumentsInv'
  <2>1. PICK r : Ask(w, r) /\ r.op # "move"
    BY <1>4 DEF MoveFolderHangs
  <2> QED
    BY <1>2, <1>4, <2>1 DEF MoveFolderHangs, papers
<1>5. ASSUME NEW w \in Workers, DeleteFolder(w)
      PROVE  DocumentsInv'
  <2>1. PICK r : Ask(w, r) /\ r.op # "move"
    BY <1>5 DEF DeleteFolder
  <2> QED
    BY <1>2, <1>5, <2>1 DEF DeleteFolder, papers
<1>6. ASSUME NEW w \in Workers, CreateDocument(w)
      PROVE  DocumentsInv'
  <2>1. PICK r : Ask(w, r) /\ r.op # "move"
    BY <1>6 DEF CreateDocument
  <2> QED
    BY <1>2, <1>6, <2>1 DEF CreateDocument, papers
<1>7. ASSUME NEW w \in Workers, CreateVersion(w)
      PROVE  DocumentsInv'
  <2>1. PICK r : Ask(w, r) /\ r.op # "move"
    BY <1>7 DEF CreateVersion
  <2> QED
    BY <1>2, <1>7, <2>1 DEF CreateVersion, papers
<1>8. ASSUME NEW w \in Workers, DocumentCreated(w) \/ DeleteDocument(w) \/ DocumentsCrash(w)
      PROVE  DocumentsInv'
  BY <1>2, <1>8, FolderShapes DEF DocumentCreated, DeleteDocument, DocumentsCrash, Dies, Answer, papers
<1>9. ASSUME UNCHANGED <<papers, req>>
      PROVE  DocumentsInv'
  <2>1. UNCHANGED folders /\ UNCHANGED req
    BY <1>9 DEF papers
  <2>2. Folders' = Folders
    BY <2>1 DEF Folders
  <2>3. DocumentsTyped'
    BY <2>1, <2>2 DEF DocumentsInv, DocumentsTyped
  <2>4. ParentsThere'
    BY <2>1, <2>2 DEF DocumentsInv, ParentsThere
  <2>5. NoLoopOfOne'
    BY <2>1, <2>2 DEF DocumentsInv, NoLoopOfOne, LooseEnd
  <2>6. MovesBelow'
    BY <2>1, <2>2 DEF DocumentsInv, MovesBelow, NotAbove, Serving
  <2> QED
    BY <2>3, <2>4, <2>5, <2>6 DEF DocumentsInv
<1>10. ASSUME DocumentsNext
       PROVE  DocumentsInv'
  <2> PICK w \in Workers :
         \/ CreateFolder(w) \/ FolderCreated(w) \/ MoveFolder(w) \/ MoveFolderHangs(w) \/ FolderMoved(w)
         \/ DeleteFolder(w) \/ FolderDeleted(w)
         \/ CreateDocument(w) \/ CreateVersion(w) \/ DocumentCreated(w)
         \/ DeleteDocument(w) \/ DocumentsCrash(w)
    BY <1>10, Zenon DEF DocumentsNext
  <2>1. CASE FolderCreated(w)
    BY <2>1, FolderIsCreated
  <2>2. CASE FolderMoved(w)
    BY <2>2, FolderIsMoved
  <2>3. CASE FolderDeleted(w)
    BY <2>3, FolderIsDeleted
  <2> QED
    BY <1>1, <1>3, <1>4, <1>5, <1>6, <1>7, <1>8, <2>1, <2>2, <2>3, Zenon
<1> QED
  BY <1>9, <1>10

(* For any number of folders, documents and workers, and however requests  *)
(* overlap: along a loop of folders, different workers set the parents.    *)
THEOREM LoopsByRace == DocumentsSpec => []LoopsOnlyByRace
<1>1. DocumentsInv => LoopsOnlyByRace
  <2> SUFFICES ASSUME DocumentsInv, NEW f \in Folders, NEW p \in folders[f].parent,
                      f \in Chain(p),
                      \A g \in Chain(f), h \in Chain(f) : folders[g].by = folders[h].by
               PROVE  FALSE
    BY DEF LoopsOnlyByRace, InLoop
  <2>1. ParentsThere /\ p \in Folders
    BY DEF DocumentsInv, ParentsThere
  <2>2. /\ f \in Chain(f) /\ Chain(f) \subseteq Folders /\ Upward(Chain(f))
        /\ p \in Chain(p)
    BY <2>1, ChainCloses
  <2>3. PICK v \in Workers : \A g \in Chain(f) : folders[g].by = v
    BY <2>2 DEF DocumentsInv, DocumentsTyped
  <2>4. PICK S : S = {g \in Chain(f) : f \in Chain(g)}
    OBVIOUS
  <2>5. ASSUME NEW g \in S
        PROVE  folders[g].parent \cap S # {}
    <3>1. g \in Folders /\ f \in Chain(g) /\ folders[g].parent \subseteq Chain(f)
      BY <2>2, <2>4 DEF Upward
    <3>2. CASE g = f
      BY <2>4, <3>1, <3>2
    <3>3. CASE g # f
      <4>1. PICK q \in folders[g].parent : f \in Chain(q)
        BY <2>1, <3>1, <3>3, ChainCloses
      <4> QED
        BY <2>4, <3>1, <4>1
    <3> QED
      BY <3>2, <3>3
  <2>6. S \in SUBSET Folders /\ f \in S /\ \A g \in S : folders[g].by = v
    BY <2>2, <2>3, <2>4
  <2>7. LooseEnd(S)
    BY <2>6 DEF DocumentsInv, NoLoopOfOne
  <2> QED
    BY <2>5, <2>7 DEF LooseEnd
<1> QED
  BY <1>1, DocumentsStart, DocumentsStep, PTL DEF DocumentsSpec
-----------------------------------------------------------------------------
(* Sums over finite sets of rows, as the queries of the ledger form them:  *)
(* some element first, then the rest.                                      *)

First(s) == CHOOSE x \in s : TRUE
Adds(h, a, S) ==
    h = [s \in SUBSET S |-> IF s = {} THEN 0 ELSE a[First(s)] + h[s \ {First(s)}]]
AddsUpto(h, a, S, n) ==
    \A s \in SUBSET S : Cardinality(s) <= n =>
        h[s] = IF s = {} THEN 0 ELSE a[First(s)] + h[s \ {First(s)}]

LEMMA Rest ==
    ASSUME NEW U, IsFiniteSet(U), NEW s \in SUBSET U
    PROVE  /\ Cardinality(s) \in Nat /\ (Cardinality(s) = 0 <=> s = {})
           /\ Cardinality(s) <= Cardinality(U)
           /\ \A x \in s : Cardinality(s \ {x}) = Cardinality(s) - 1
           /\ s # {} => First(s) \in s
<1>1. IsFiniteSet(s) /\ Cardinality(s) <= Cardinality(U)
  BY FS_Subset
<1>2. Cardinality(s) \in Nat /\ (Cardinality(s) = 0 <=> s = {})
  BY <1>1, FS_CardinalityType, FS_EmptySet
<1>3. \A x \in s : Cardinality(s \ {x}) = Cardinality(s) - 1
  BY <1>1, FS_RemoveElement
<1>4. s # {} => First(s) \in s
  BY DEF First
<1> QED
  BY <1>1, <1>2, <1>3, <1>4

LEMMA SumExists ==
    ASSUME NEW U, IsFiniteSet(U), NEW a \in [U -> Int]
    PROVE  \E g \in [SUBSET U -> Int] : Adds(g, a, U)
<1> PICK F \in SUBSET Nat :
      F = {n \in Nat : ~ \E g \in [SUBSET U -> Int] : AddsUpto(g, a, U, n)}
  OBVIOUS
<1>1. ASSUME NEW n \in F, \A m \in F : ~(m < n)
      PROVE  FALSE
  <2>1. CASE n = 0
    <3>1. PICK g : g = [s \in SUBSET U |-> 0]
      OBVIOUS
    <3>2. \A s \in SUBSET U : Cardinality(s) <= 0 => s = {}
      BY Rest
    <3>3. AddsUpto(g, a, U, 0)
      BY <3>1, <3>2 DEF AddsUpto
    <3>4. g \in [SUBSET U -> Int]
      BY <3>1
    <3> QED
      BY <2>1, <3>3, <3>4
  <2>2. CASE n # 0
    <3>0. n \in Nat
      OBVIOUS
    <3>1. n - 1 \in Nat /\ n - 1 < n
      BY <2>2, <3>0
    <3>01. n - 1 \notin F
      BY <1>1, <3>1
    <3>02. \E g \in [SUBSET U -> Int] : AddsUpto(g, a, U, n - 1)
      BY <3>1, <3>01
    <3>2. PICK g \in [SUBSET U -> Int] : AddsUpto(g, a, U, n - 1)
      BY <3>02
    <3>3. PICK h : h = [s \in SUBSET U |->
                          IF Cardinality(s) <= n - 1 THEN g[s]
                          ELSE a[First(s)] + g[s \ {First(s)}]]
      OBVIOUS
    <3>4. \A s \in SUBSET U : Cardinality(s) <= n - 1 \/ (s # {} /\ First(s) \in U)
      BY <3>1, Rest
    <3>5. h \in [SUBSET U -> Int]
      BY <3>3, <3>4
    <3>6. ASSUME NEW s \in SUBSET U, Cardinality(s) <= n
          PROVE  h[s] = IF s = {} THEN 0 ELSE a[First(s)] + h[s \ {First(s)}]
      <4>1. CASE s = {}
        BY <3>1, <3>2, <3>3, <4>1, Rest DEF AddsUpto
      <4>2. CASE s # {}
        <5>1. PICK t \in SUBSET U : t = s \ {First(s)}
          OBVIOUS
        <5>2. /\ Cardinality(s) \in Nat /\ Cardinality(t) = Cardinality(s) - 1
              /\ Cardinality(t) <= n - 1
          BY <3>6, <4>2, <5>1, Rest
        <5>3. h[t] = g[t]
          BY <3>3, <5>2
        <5>4. h[s] = a[First(s)] + g[t]
          BY <3>2, <3>3, <4>2, <5>1 DEF AddsUpto
        <5> QED
          BY <4>2, <5>1, <5>3, <5>4
      <4> QED
        BY <4>1, <4>2
    <3>7. AddsUpto(h, a, U, n)
      BY <3>6 DEF AddsUpto
    <3> QED
      BY <3>5, <3>7
  <2> QED
    BY <2>1, <2>2
<1>2. F = {}
  BY <1>1, Least
<1>3. Cardinality(U) \in Nat
  BY Rest
<1>4. PICK g \in [SUBSET U -> Int] : AddsUpto(g, a, U, Cardinality(U))
  BY <1>2, <1>3
<1>5. \A s \in SUBSET U : g[s] = IF s = {} THEN 0 ELSE a[First(s)] + g[s \ {First(s)}]
  BY <1>4, Rest DEF AddsUpto
<1>6. Adds(g, a, U)
  BY <1>5 DEF Adds
<1> QED
  BY <1>6

(* A set of finite sets has one that is in it with none of the sets one    *)
(* element smaller.                                                        *)
LEMMA SmallestSet ==
    ASSUME NEW U, IsFiniteSet(U), NEW B \in SUBSET (SUBSET U), B # {}
    PROVE  \E s \in B : \A x \in s : s \ {x} \notin B
<1> PICK F \in SUBSET Nat : F = {n \in Nat : \E s \in B : Cardinality(s) = n}
  OBVIOUS
<1>1. \A s \in B : Cardinality(s) \in F
  BY Rest
<1>2. PICK n \in F : \A m \in F : ~(m < n)
  BY <1>1, Least
<1>3. PICK s \in B : Cardinality(s) = n
  OBVIOUS
<1>4. ASSUME NEW x \in s, s \ {x} \in B
      PROVE  FALSE
  <2>1. Cardinality(s \ {x}) = n - 1 /\ n \in Nat
    BY <1>3, Rest
  <2>2. n - 1 \in F
    BY <1>1, <1>4, <2>1
  <2> QED
    BY <1>2, <2>1, <2>2
<1> QED
  BY <1>4

(* A sum over fewer rows is the same sum.                                  *)
LEMMA SumUnique ==
    ASSUME NEW U, IsFiniteSet(U), NEW a, NEW g, Adds(g, a, U),
           NEW S \in SUBSET U, NEW h, Adds(h, a, S)
    PROVE  \A s \in SUBSET S : h[s] = g[s]
<1>00. \A C \in SUBSET (SUBSET U) : C # {} => \E s \in C : \A x \in s : s \ {x} \notin C
  BY SmallestSet
<1> PICK B : B = {s \in SUBSET S : h[s] # g[s]}
  OBVIOUS
<1>0. B \in SUBSET (SUBSET U)
  OBVIOUS
<1> SUFFICES ASSUME B # {}
             PROVE  FALSE
  OBVIOUS
<1>1. PICK s \in B : \A x \in s : s \ {x} \notin B
  BY <1>0, <1>00
<1>2. s # {} /\ s \in SUBSET S
  BY DEF Adds
<1>3. First(s) \in s
  BY <1>2, Rest
<1>4. h[s \ {First(s)}] = g[s \ {First(s)}]
  BY <1>1, <1>2, <1>3
<1>5. /\ h[s] = a[First(s)] + h[s \ {First(s)}]
      /\ g[s] = a[First(s)] + g[s \ {First(s)}]
  BY <1>2 DEF Adds
<1> QED
  BY <1>4, <1>5

(* Any element may come first.                                             *)
AnyFirst(g, a, s) == \A x \in s : g[s] = a[x] + g[s \ {x}]

LEMMA SumTakesAny ==
    ASSUME NEW U, IsFiniteSet(U), NEW a \in [U -> Int],
           NEW g \in [SUBSET U -> Int], Adds(g, a, U)
    PROVE  \A s \in SUBSET U : AnyFirst(g, a, s)
<1>00. \A C \in SUBSET (SUBSET U) : C # {} => \E s \in C : \A x \in s : s \ {x} \notin C
  BY SmallestSet
<1> PICK B : B = {s \in SUBSET U : ~AnyFirst(g, a, s)}
  OBVIOUS
<1>0. B \in SUBSET (SUBSET U)
  OBVIOUS
<1> SUFFICES ASSUME B # {}
             PROVE  FALSE
  OBVIOUS
<1>1. PICK s \in B : \A x \in s : s \ {x} \notin B
  BY <1>0, <1>00
<1>2. s \in SUBSET U /\ ~AnyFirst(g, a, s)
  OBVIOUS
<1>3. PICK x \in s : g[s] # a[x] + g[s \ {x}]
  BY <1>2 DEF AnyFirst
<1>4. PICK c \in s : c = First(s)
  BY <1>2, Rest
<1>5. PICK t, r, q : t = s \ {c} /\ r = s \ {x} /\ q = s \ {c, x}
  OBVIOUS
<1>6. g[s] = a[c] + g[t]
  BY <1>2, <1>4, <1>5 DEF Adds
<1>7. x # c
  BY <1>3, <1>5, <1>6
<1>8. /\ t \in SUBSET U /\ x \in t /\ t \ {x} = q /\ t \notin B
      /\ r \in SUBSET U /\ c \in r /\ r \ {c} = q /\ r \notin B
      /\ q \in SUBSET U
  BY <1>1, <1>2, <1>5, <1>7
<1>9. AnyFirst(g, a, t) /\ AnyFirst(g, a, r)
  BY <1>8
<1>10. g[t] = a[x] + g[q] /\ g[r] = a[c] + g[q]
  BY <1>8, <1>9 DEF AnyFirst
<1>11. a[c] \in Int /\ a[x] \in Int /\ g[q] \in Int
  BY <1>2, <1>8
<1>12. g[s] # a[x] + g[r]
  BY <1>3, <1>5
<1> QED
  BY <1>6, <1>10, <1>11, <1>12

(* The sum of two sets of rows that share none.                            *)
Splits(g, S, T) == S \cap T = {} => g[S \cup T] = g[S] + g[T]

LEMMA SumsOfParts ==
    ASSUME NEW U, IsFiniteSet(U), NEW a \in [U -> Int],
           NEW g \in [SUBSET U -> Int], Adds(g, a, U)
    PROVE  \A S, T \in SUBSET U : Splits(g, S, T)
<1>00. \A C \in SUBSET (SUBSET U) : C # {} => \E s \in C : \A x \in s : s \ {x} \notin C
  BY SmallestSet
<1> SUFFICES ASSUME NEW S \in SUBSET U
             PROVE  \A T \in SUBSET U : Splits(g, S, T)
  OBVIOUS
<1> PICK B : B = {T \in SUBSET U : ~Splits(g, S, T)}
  OBVIOUS
<1>0. B \in SUBSET (SUBSET U)
  OBVIOUS
<1> SUFFICES ASSUME B # {}
             PROVE  FALSE
  OBVIOUS
<1>1. PICK T \in B : \A x \in T : T \ {x} \notin B
  BY <1>0, <1>00
<1>2. T \in SUBSET U /\ ~Splits(g, S, T)
  OBVIOUS
<1>21. S \cap T = {} /\ g[S \cup T] # g[S] + g[T]
  BY <1>2 DEF Splits
<1>3. T # {}
  <2>1. g[{}] = 0
    BY DEF Adds
  <2>2. g[S] \in Int
    OBVIOUS
  <2>3. SUFFICES ASSUME T = {} PROVE FALSE
    OBVIOUS
  <2>4. S \cup T = S
    BY <2>3
  <2>5. g[S] # g[S] + 0
    BY <1>21, <2>1, <2>3, <2>4
  <2> QED
    BY <2>2, <2>5
<1>4. PICK x \in T : TRUE
  BY <1>3
<1>5. PICK R, V, W : R = T \ {x} /\ V = S \cup T /\ W = S \cup R
  OBVIOUS
<1>6. /\ R \in SUBSET U /\ V \in SUBSET U /\ W \in SUBSET U
      /\ W = V \ {x} /\ x \in V /\ S \cap R = {} /\ R \notin B
  BY <1>1, <1>2, <1>21, <1>5
<1>7. g[W] = g[S] + g[R]
  BY <1>5, <1>6 DEF Splits
<1>8. AnyFirst(g, a, V) /\ AnyFirst(g, a, T)
  BY <1>2, <1>6, SumTakesAny
<1>9. g[V] = a[x] + g[W] /\ g[T] = a[x] + g[R]
  BY <1>5, <1>6, <1>8 DEF AnyFirst
<1>10. a[x] \in Int /\ g[S] \in Int /\ g[R] \in Int
  BY <1>2, <1>6
<1>11. g[V] # g[S] + g[T]
  BY <1>5, <1>21
<1> QED
  BY <1>7, <1>9, <1>10, <1>11
-----------------------------------------------------------------------------
(* What a query of the ledger returns is the sum of the rows it selects.   *)
Chosen(k, first, last) == {t \in Booked : txs[t].kind = k /\ txs[t].day \in first .. last}
Summed(h, S) ==
    h = [s \in SUBSET S |->
            IF s = {} THEN 0
            ELSE txs[CHOOSE x \in s : TRUE].amount + h[s \ {CHOOSE x \in s : TRUE}]]

LEMMA TotalIsSum ==
    ASSUME IsFiniteSet(Booked), NEW a, a = [t \in Booked |-> txs[t].amount],
           NEW g, Adds(g, a, Booked), NEW k, NEW first, NEW last
    PROVE  Total(k, first, last) = g[Chosen(k, first, last)]
<1>1. PICK S : S = Chosen(k, first, last)
  OBVIOUS
<1>2. S \in SUBSET Booked
  BY <1>1 DEF Chosen
<1>3. ASSUME NEW s \in SUBSET S, s # {}
      PROVE  txs[CHOOSE x \in s : TRUE].amount = a[First(s)] /\ First(s) \in s
  <2>1. First(s) \in s
    BY <1>2, <1>3, Rest
  <2>2. First(s) = CHOOSE x \in s : TRUE
    BY DEF First
  <2> QED
    BY <1>2, <2>1, <2>2
<1>4. \A h : Summed(h, S) <=> Adds(h, a, S)
  <2>1. SUFFICES ASSUME NEW h
                 PROVE  Summed(h, S) <=> Adds(h, a, S)
    OBVIOUS
  <2>2. \A s \in SUBSET S :
            (IF s = {} THEN 0
             ELSE txs[CHOOSE x \in s : TRUE].amount + h[s \ {CHOOSE x \in s : TRUE}])
            = (IF s = {} THEN 0 ELSE a[First(s)] + h[s \ {First(s)}])
    BY <1>3 DEF First
  <2>3. PICK p, q :
            /\ p = [s \in SUBSET S |->
                      IF s = {} THEN 0
                      ELSE txs[CHOOSE x \in s : TRUE].amount + h[s \ {CHOOSE x \in s : TRUE}]]
            /\ q = [s \in SUBSET S |-> IF s = {} THEN 0 ELSE a[First(s)] + h[s \ {First(s)}]]
    OBVIOUS
  <2>4. \A s \in SUBSET S : p[s] = q[s]
    BY <2>2, <2>3
  <2>5. p = q
    BY <2>3, <2>4
  <2>6. (h = p <=> Summed(h, S)) /\ (h = q <=> Adds(h, a, S))
    BY <2>3 DEF Summed, Adds
  <2> QED
    BY <2>5, <2>6
<1>5. \E h : Adds(h, a, S)
  <2>1. PICK h : h = [s \in SUBSET S |-> g[s]]
    OBVIOUS
  <2>2. ASSUME NEW s \in SUBSET S
        PROVE  h[s] = IF s = {} THEN 0 ELSE a[First(s)] + h[s \ {First(s)}]
    BY <1>2, <2>1 DEF Adds
  <2>3. PICK q : q = [s \in SUBSET S |-> IF s = {} THEN 0 ELSE a[First(s)] + h[s \ {First(s)}]]
    OBVIOUS
  <2>4. h = q
    BY <2>1, <2>2, <2>3
  <2>5. Adds(h, a, S)
    BY <2>3, <2>4 DEF Adds
  <2> QED
    BY <2>5
<1>6. PICK i : i = CHOOSE h : Summed(h, S)
  OBVIOUS
<1>7. Adds(i, a, S)
  BY <1>4, <1>5, <1>6
<1>8. Total(k, first, last) = i[S]
  BY <1>1, <1>6 DEF Total, MapThenSumSet, MapThenFoldSet, Summed, Chosen
<1>9. i[S] = g[S]
  BY <1>2, <1>7, SumUnique
<1> QED
  BY <1>1, <1>8, <1>9

(* A balance grows by what the days after it brought.                      *)
LEMMA TotalsAdd ==
    ASSUME LedgerTyped, NEW k
    PROVE  /\ \A first, last : Total(k, first, last) \in Int
           /\ \A from \in 1 .. LastDay : \A to \in from .. LastDay :
                 Total(k, 1, from - 1) + Total(k, from, to) = Total(k, 1, to)
<1>1. IsFiniteSet(Booked)
  BY LedgerAssumption, FS_Subset DEF Booked
<1>2. PICK a : a = [t \in Booked |-> txs[t].amount]
  OBVIOUS
<1>3. a \in [Booked -> Int]
  BY <1>2, RowsOpened, LedgerAssumption DEF Tx
<1>4. PICK g \in [SUBSET Booked -> Int] : Adds(g, a, Booked)
  BY <1>1, <1>3, SumExists
<1>5. \A first, last : Total(k, first, last) = g[Chosen(k, first, last)]
  BY <1>1, <1>2, <1>4, TotalIsSum
<1>6. \A first, last : Chosen(k, first, last) \in SUBSET Booked
  BY DEF Chosen
<1>7. ASSUME NEW from \in 1 .. LastDay, NEW to \in from .. LastDay
      PROVE  Total(k, 1, from - 1) + Total(k, from, to) = Total(k, 1, to)
  <2>1. PICK S, T, V : /\ S = Chosen(k, 1, from - 1)
                       /\ T = Chosen(k, from, to)
                       /\ V = Chosen(k, 1, to)
    OBVIOUS
  <2>2. \A t \in Booked : txs[t].day \in 1 .. LastDay
    BY RowsOpened DEF Tx
  <2>3. V = S \cup T /\ S \cap T = {}
    BY <2>1, <2>2, LedgerAssumption DEF Chosen
  <2>4. S \in SUBSET Booked /\ T \in SUBSET Booked
    BY <1>6, <2>1
  <2>5. Splits(g, S, T)
    BY <1>1, <1>3, <1>4, <2>4, SumsOfParts
  <2>6. g[V] = g[S] + g[T]
    BY <2>3, <2>5 DEF Splits
  <2> QED
    BY <1>5, <2>1, <2>6
<1>8. \A first, last : Total(k, first, last) \in Int
  BY <1>4, <1>5, <1>6
<1> QED
  BY <1>7, <1>8

(* What a statement has read so far, when nothing was committed since it   *)
(* began.                                                                  *)
Carried(k, r) == Total(k, 1, r.from - 1)
Ranged(k, r) == Total(k, r.from, r.to)
AtLast(k, r) == Total(k, 1, r.to)

SumSoFar(r) ==
    CASE r.at = 1 -> Carried("INCOME", r)
      [] r.at = 2 -> Carried("INCOME", r) - Carried("EXPENSE", r)
      [] OTHER    -> Carried("INCOME", r) - Carried("EXPENSE", r)
                       + Ranged("INCOME", r) - Ranged("EXPENSE", r)
PartSoFar(r) ==
    CASE r.at = 4 -> AtLast("INCOME", r)
      [] r.at = 5 -> AtLast("INCOME", r) - AtLast("EXPENSE", r)
      [] OTHER    -> r.part
QuietReads(r) ==
    /\ r.at \in 1 .. 5 /\ r.from \in 1 .. LastDay /\ r.to \in r.from .. LastDay
    /\ r.sum = SumSoFar(r)
    /\ r.part = PartSoFar(r)
StatementsRead ==
    \A w \in Workers : \A r :
        r = req[w] /\ r.op = "statement" /\ r.quiet => QuietReads(r)
StatementsInv == LedgerInv /\ StatementsRead

LEMMA TotalsKept ==
    ASSUME UNCHANGED txs
    PROVE  \A r : QuietReads(r)' <=> QuietReads(r)
<1>1. \A k, first, last : Total(k, first, last)' = Total(k, first, last)
  BY DEF Total, MapThenSumSet, MapThenFoldSet, Booked
<1> QED
  BY <1>1 DEF QuietReads, SumSoFar, PartSoFar, Carried, Ranged, AtLast

LEMMA ReadsKept ==
    ASSUME StatementsInv, UNCHANGED txs, NEW w \in Workers, NEW r,
           req' = [req EXCEPT ![w] = r],
           r.op = "statement" /\ r.quiet => QuietReads(r)
    PROVE  StatementsRead'
<1>1. \A v \in Workers : req'[v] = IF v = w THEN r ELSE req[v]
  BY DEF StatementsInv, LedgerInv, LedgerTyped
<1> QED
  BY <1>1, TotalsKept DEF StatementsInv, StatementsRead

(* A commit to the transactions leaves no statement under way quiet.       *)
LEMMA NoneQuiet ==
    ASSUME StatementsInv, NEW w \in Workers, BookedBy(w)
    PROVE  StatementsRead'
<1>1. ASSUME NEW v \in Workers, req'[v].op = "statement"
      PROVE  ~req'[v].quiet
  <2>1. v # w
    BY <1>1, LedgerRows DEF BookedBy
  <2>2. Serving(v, "statement")
    BY <1>1, <2>1 DEF BookedBy, Serving
  <2>3. PICK r : r = req[v] /\ IsStatement(r)
    BY <2>2 DEF StatementsInv, LedgerInv, LedgerTyped
  <2>4. req'[v] = [r EXCEPT !.quiet = FALSE]
    BY <2>1, <2>2, <2>3 DEF BookedBy
  <2> QED
    BY <2>3, <2>4 DEF IsStatement
<1> QED
  BY <1>1 DEF StatementsRead

LEMMA QueryReads ==
    ASSUME StatementsInv, NEW w \in Workers, NextQuery(w)
    PROVE  StatementsRead'
<1>1. PICK r : r = req[w] /\ IsStatement(r) /\ r.op = "statement"
  BY DEF NextQuery, Serving, StatementsInv, LedgerInv, LedgerTyped
<1>2. PICK n, sum, part :
        /\ n = r.at + 1
        /\ sum = CASE r.at = 1 -> r.sum - Total("EXPENSE", 1, DayBefore(r.from))
                   [] r.at = 2 -> r.sum + Total("INCOME", r.from, r.to)
                                        - Total("EXPENSE", r.from, r.to)
                   [] OTHER -> r.sum
        /\ part = CASE r.at = 3 -> Total("INCOME", 1, r.to)
                    [] r.at = 4 -> r.part - Total("EXPENSE", 1, r.to)
                    [] OTHER -> r.part
  OBVIOUS
<1>3. PICK q : q = Queried(r, n, sum, part)
  OBVIOUS
<1>4. req' = [req EXCEPT ![w] = q] /\ UNCHANGED books /\ r.at < 5
  BY <1>1, <1>2, <1>3 DEF NextQuery, Ask, Queried
<1>5. /\ q.at = n /\ q.sum = sum /\ q.part = part
      /\ q.from = r.from /\ q.to = r.to /\ q.quiet = r.quiet
  BY <1>1, <1>3 DEF Queried, IsStatement
<1>6. ASSUME q.quiet
      PROVE  QuietReads(q)
  <2>1. QuietReads(r)
    BY <1>1, <1>5, <1>6 DEF StatementsInv, StatementsRead
  <2>2. /\ r.at \in 1 .. 4 /\ r.from \in 1 .. LastDay /\ r.to \in r.from .. LastDay
        /\ r.sum = SumSoFar(r) /\ r.part = PartSoFar(r)
    BY <1>4, <2>1 DEF QuietReads
  <2>3. q.at \in 1 .. 5 /\ q.from \in 1 .. LastDay /\ q.to \in q.from .. LastDay
    BY <1>2, <1>5, <2>2
  <2>4. /\ \A k : Carried(k, q) = Carried(k, r) /\ Ranged(k, q) = Ranged(k, r)
                  /\ AtLast(k, q) = AtLast(k, r)
        /\ \A k : Carried(k, r) \in Int /\ Ranged(k, r) \in Int /\ AtLast(k, r) \in Int
    BY <1>5, TotalsAdd DEF StatementsInv, LedgerInv, Carried, Ranged, AtLast
  <2>5. sum = CASE r.at = 1 -> r.sum - Carried("EXPENSE", r)
                [] r.at = 2 -> r.sum + Ranged("INCOME", r) - Ranged("EXPENSE", r)
                [] OTHER -> r.sum
    BY <1>2 DEF DayBefore, Carried, Ranged
  <2>6. part = CASE r.at = 3 -> AtLast("INCOME", r)
                 [] r.at = 4 -> r.part - AtLast("EXPENSE", r)
                 [] OTHER -> r.part
    BY <1>2 DEF AtLast
  <2>7. q.sum = SumSoFar(q)
    BY <1>2, <1>5, <2>2, <2>4, <2>5 DEF SumSoFar
  <2>8. q.part = PartSoFar(q)
    BY <1>2, <1>5, <2>2, <2>4, <2>6 DEF PartSoFar
  <2> QED
    BY <2>3, <2>7, <2>8 DEF QuietReads
<1> QED
  BY <1>4, <1>6, ReadsKept DEF books

LEMMA StatementsStep == StatementsInv /\ [LedgerNext]_<<books, req>> => StatementsInv'
<1> SUFFICES ASSUME StatementsInv, [LedgerNext]_<<books, req>>
             PROVE  StatementsRead'
  BY LedgerStep DEF StatementsInv
<1>0. CASE UNCHANGED <<books, req>>
  BY <1>0, TotalsKept DEF books, StatementsInv, StatementsRead
<1>1. ASSUME NEW w \in Workers,
             CreateCategory(w) \/ RenameCategory(w) \/ CreateBudgetLine(w) \/ DeleteBudgetLine(w)
      PROVE  StatementsRead'
  <2>1. UNCHANGED <<txs, req>>
    BY <1>1 DEF CreateCategory, RenameCategory, CreateBudgetLine, DeleteBudgetLine
  <2> QED
    BY <2>1, TotalsKept DEF StatementsInv, StatementsRead
<1>2. ASSUME NEW w \in Workers,
             CreateTransaction(w) \/ UpdatedTransaction(w) \/ DeleteTransaction(w)
      PROVE  StatementsRead'
  <2>1. BookedBy(w)
    BY <1>2 DEF CreateTransaction, UpdatedTransaction, DeleteTransaction
  <2> QED
    BY <2>1, NoneQuiet
<1>3. ASSUME NEW w \in Workers, UpdateTransaction(w)
      PROVE  StatementsRead'
  <2>1. PICK t, k, c, d : Update(w, t, k, c, d)
    BY <1>3 DEF UpdateTransaction
  <2>2. PICK S : S = {f \in {"kind", "cat", "day"} :
                        \/ f = "kind" /\ k # txs[t].kind
                        \/ f = "cat" /\ c # txs[t].cat
                        \/ f = "day" /\ d # txs[t].day}
    OBVIOUS
  <2>3. PICK r : r = [op |-> "update", tx |-> t, kind |-> k, cat |-> c, day |-> d, set |-> S]
    OBVIOUS
  <2>4. req' = [req EXCEPT ![w] = r] /\ r.op = "update"
    BY <2>1, <2>2, <2>3 DEF Update, Ask
  <2>5. UNCHANGED txs
    BY <1>3 DEF UpdateTransaction, books
  <2> QED
    BY <2>4, <2>5, ReadsKept
<1>4. ASSUME NEW w \in Workers, Statement(w)
      PROVE  StatementsRead'
  <2> PICK from \in 1 .. LastDay : \E to \in from .. LastDay : Ask(w,
          [op |-> "statement", at |-> 1, from |-> from, to |-> to, part |-> 0,
           sum |-> Total("INCOME", 1, DayBefore(from)), quiet |-> TRUE])
    BY <1>4 DEF Statement
  <2> PICK to \in from .. LastDay : Ask(w,
          [op |-> "statement", at |-> 1, from |-> from, to |-> to, part |-> 0,
           sum |-> Total("INCOME", 1, DayBefore(from)), quiet |-> TRUE])
    OBVIOUS
  <2>1. PICK s : s = Total("INCOME", 1, DayBefore(from))
    OBVIOUS
  <2>2. PICK r : r = [op |-> "statement", at |-> 1, from |-> from, to |-> to, part |-> 0,
                      sum |-> s, quiet |-> TRUE]
    OBVIOUS
  <2>3. req' = [req EXCEPT ![w] = r] /\ UNCHANGED txs
    BY <1>4, <2>1, <2>2 DEF Statement, Ask, books
  <2>4. r.sum = SumSoFar(r)
    BY <2>1, <2>2 DEF SumSoFar, Carried, DayBefore
  <2>5. r.part = PartSoFar(r)
    BY <2>2 DEF PartSoFar
  <2>6. QuietReads(r)
    BY <2>2, <2>4, <2>5 DEF QuietReads
  <2> QED
    BY <2>3, <2>6, ReadsKept
<1>5. ASSUME NEW w \in Workers, ShowStatement(w) \/ LedgerCrash(w)
      PROVE  StatementsRead'
  <2>1. req' = [req EXCEPT ![w] = IdleReq] /\ UNCHANGED txs
    BY <1>5 DEF ShowStatement, LedgerCrash, Dies, Answer, Ask, books
  <2> QED
    BY <2>1, LedgerRows, ReadsKept
<1> QED
  BY <1>0, <1>1, <1>2, <1>3, <1>4, <1>5, QueryReads DEF LedgerNext

(* For any categories, finitely many transactions of any amounts and days, *)
(* and any workers: the running balance of a statement ends at its closing *)
(* balance unless a transaction was committed between get_statement's      *)
(* queries; five sums over the days before, in and up to the end of the    *)
(* range are parts of one.                                                 *)
THEOREM StatementsAddUp == LedgerSpec => []StatementAddsUp
<1>1. LedgerInit /\ NoRequest => StatementsInv
  <2>1. NoRequest => StatementsRead
    BY LedgerRows DEF NoRequest, StatementsRead
  <2> QED
    BY <2>1, LedgerStart DEF StatementsInv
<1>2. StatementsInv => StatementAddsUp
  <2> SUFFICES ASSUME StatementsInv, NEW w \in Workers, Serving(w, "statement"),
                      req[w].at = 5, req[w].quiet
               PROVE  req[w].sum = req[w].part
    BY DEF StatementAddsUp
  <2>1. PICK r : r = req[w]
    OBVIOUS
  <2>2. QuietReads(r) /\ r.at = 5
    BY <2>1 DEF StatementsInv, StatementsRead, Serving
  <2>3. /\ r.sum = Carried("INCOME", r) - Carried("EXPENSE", r)
                     + Ranged("INCOME", r) - Ranged("EXPENSE", r)
        /\ r.part = AtLast("INCOME", r) - AtLast("EXPENSE", r)
        /\ r.from \in 1 .. LastDay /\ r.to \in r.from .. LastDay
    BY <2>2 DEF QuietReads, SumSoFar, PartSoFar
  <2>4. \A k : /\ Carried(k, r) \in Int /\ Ranged(k, r) \in Int
               /\ Carried(k, r) + Ranged(k, r) = AtLast(k, r)
    BY <2>3, TotalsAdd DEF StatementsInv, LedgerInv, Carried, Ranged, AtLast
  <2> QED
    BY <2>1, <2>3, <2>4
<1> QED
  BY <1>1, <1>2, StatementsStep, PTL DEF LedgerSpec
=============================================================================
