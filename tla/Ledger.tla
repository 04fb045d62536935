------------------------------- MODULE Ledger -------------------------------
(* The books of the association (finance_service): categories, budget      *)
(* lines, transactions and the statement computed from them.  The files of *)
(* invoices are StoredFiles' subject.                                      *)
(* Bounds: CatIds and Txs (row ids), LastDay, MaxLines, one fiscal year.   *)
EXTENDS Integers, FiniteSets, FiniteSetsExt, Requests

CONSTANTS CatIds, CatNames, MaxLines, Txs, Amounts, LastDay

ASSUME LedgerAssumption == IsFiniteSet(Txs) /\ Amounts \subseteq Int /\ LastDay \in Nat

VARIABLES
    cats,       \* FinanceCategory: id -> row or NoCat
    lines,      \* BudgetLine: the categories with a line for the year
    txs         \* FinancialTransaction: id -> row; NoTx before, Void after

books == <<cats, lines, txs>>

Kinds == {"INCOME", "EXPENSE"}
NoCat == [kind |-> "none"]
NoTx == [kind |-> "none"]
Void == [kind |-> "deleted"]
Cat == [kind : Kinds, name : CatNames]
(* kindBy and catBy are auxiliary: who last wrote the type, the category.  *)
Tx == [kind : Kinds, cat : CatIds, amount : Amounts, day : 1 .. LastDay,
       kindBy : Workers, catBy : Workers]

Opened == {c \in CatIds : cats[c] # NoCat}
Booked == {t \in Txs : txs[t] \notin {NoTx, Void}}
NameTaken(n, k) == \E c \in Opened : cats[c].name = n /\ cats[c].kind = k

LedgerInit ==
    /\ cats = [c \in CatIds |-> NoCat]
    /\ lines = {}
    /\ txs = [t \in Txs |-> NoTx]

(* A commit to the transactions: statements under way saw some of it.      *)
BookedBy(w) == req' = [v \in Workers |->
    IF v = w THEN IdleReq
    ELSE IF Serving(v, "statement") THEN [req[v] EXCEPT !.quiet = FALSE] ELSE req[v]]

(* create_category and update_category; the constraint on (name, type)     *)
(* refuses what the check missed.                                          *)
CreateCategory(w) ==
    /\ Free(w)
    /\ \E c \in CatIds \ Opened, r \in Cat :
          ~NameTaken(r.name, r.kind) /\ cats' = [cats EXCEPT ![c] = r]
    /\ UNCHANGED <<lines, txs, req>>

RenameCategory(w) ==
    /\ Free(w)
    /\ \E c \in Opened, n \in CatNames :
          ~NameTaken(n, cats[c].kind) /\ cats' = [cats EXCEPT ![c].name = n]
    /\ UNCHANGED <<lines, txs, req>>

(* create_budget_line, delete_budget_line; the amount is not modelled.     *)
CreateBudgetLine(w) ==
    /\ Free(w) /\ Cardinality(lines) < MaxLines
    /\ \E c \in Opened \ lines : lines' = lines \cup {c}
    /\ UNCHANGED <<cats, txs, req>>

DeleteBudgetLine(w) ==
    /\ Free(w)
    /\ \E c \in lines : lines' = lines \ {c}
    /\ UNCHANGED <<cats, txs, req>>

(* create_transaction: the type of a category never changes, so checking   *)
(* it and committing is one step.                                          *)
CreateTransaction(w) ==
    /\ Free(w)
    /\ \E t \in Txs, c \in Opened, a \in Amounts, d \in 1 .. LastDay :
       /\ txs[t] = NoTx
       /\ txs' = [txs EXCEPT ![t] = [kind |-> cats[c].kind, cat |-> c, amount |-> a,
                                     day |-> d, kindBy |-> w, catBy |-> w]]
    /\ BookedBy(w)
    /\ UNCHANGED <<cats, lines>>

(* The columns an update will write: those it changes in the row it read.  *)
Update(w, t, k, c, d) ==
    Ask(w, [op |-> "update", tx |-> t, kind |-> k, cat |-> c, day |-> d,
            set |-> {f \in {"kind", "cat", "day"} :
                       \/ f = "kind" /\ k # txs[t].kind
                       \/ f = "cat" /\ c # txs[t].cat
                       \/ f = "day" /\ d # txs[t].day}])

(* A mistake: the type is compared with the category being left.           *)
UpdateByOldCategory(w) ==
    /\ Free(w)
    /\ \E t \in Booked, k \in Kinds, c \in Opened, d \in 1 .. LastDay :
          k = cats[txs[t].cat].kind /\ Update(w, t, k, c, d)
    /\ UNCHANGED books

(* update_transaction, up to its commit: a new type or category must fit   *)
(* the other as it was read.                                               *)
UpdateTransaction(w) ==
    /\ Free(w)
    /\ \E t \in Booked, k \in Kinds, c \in Opened, d \in 1 .. LastDay :
          /\ (k = txs[t].kind /\ c = txs[t].cat) \/ k = cats[c].kind
          /\ Update(w, t, k, c, d)
    /\ UNCHANGED books

Rewritten(row, r, w) == [row EXCEPT
    !.kind = IF "kind" \in r.set THEN r.kind ELSE @,
    !.kindBy = IF "kind" \in r.set THEN w ELSE @,
    !.cat = IF "cat" \in r.set THEN r.cat ELSE @,
    !.catBy = IF "cat" \in r.set THEN w ELSE @,
    !.day = IF "day" \in r.set THEN r.day ELSE @]

UpdatedTransaction(w) ==
    /\ Serving(w, "update")
    /\ req[w].tx \in Booked
    /\ txs' = [txs EXCEPT ![req[w].tx] = Rewritten(txs[req[w].tx], req[w], w)]
    /\ BookedBy(w)
    /\ UNCHANGED <<cats, lines>>

DeleteTransaction(w) ==
    /\ Free(w)
    /\ \E t \in Booked : txs' = [txs EXCEPT ![t] = Void]
    /\ BookedBy(w)
    /\ UNCHANGED <<cats, lines>>

(* get_cash_balance: one query per type.                                   *)
Total(k, first, last) == MapThenSumSet(LAMBDA t : txs[t].amount,
    {t \in Booked : txs[t].kind = k /\ txs[t].day \in first .. last})

SameDay(d) == d                 \* a mistake
DayBefore(d) == d - 1

(* get_statement(from, to): the balance up to the day before, the          *)
(* transactions of the range, the balance up to its last day - five        *)
(* queries, each of what is committed by then.  sum is the running balance *)
(* of the last month, part the income of the closing balance.              *)
Statement(w) ==
    /\ Free(w)
    /\ \E from \in 1 .. LastDay : \E to \in from .. LastDay : Ask(w,
          [op |-> "statement", at |-> 1, from |-> from, to |-> to, part |-> 0,
           sum |-> Total("INCOME", 1, DayBefore(from)), quiet |-> TRUE])
    /\ UNCHANGED books

NextQuery(w) ==
    /\ Serving(w, "statement") /\ req[w].at < 5
    /\ LET r == req[w] IN Ask(w, [r EXCEPT
          !.at = r.at + 1,
          !.sum = CASE r.at = 1 -> r.sum - Total("EXPENSE", 1, DayBefore(r.from))
                    [] r.at = 2 -> r.sum + Total("INCOME", r.from, r.to)
                                         - Total("EXPENSE", r.from, r.to)
                    [] OTHER -> r.sum,
          !.part = CASE r.at = 3 -> Total("INCOME", 1, r.to)
                     [] r.at = 4 -> r.part - Total("EXPENSE", 1, r.to)
                     [] OTHER -> r.part])
    /\ UNCHANGED books

ShowStatement(w) ==
    /\ Serving(w, "statement") /\ req[w].at = 5
    /\ Answer(w)
    /\ UNCHANGED books

LedgerCrash(w) == Dies(w) /\ UNCHANGED books

LedgerNext == \E w \in Workers :
    \/ CreateCategory(w) \/ RenameCategory(w)
    \/ CreateBudgetLine(w) \/ DeleteBudgetLine(w)
    \/ CreateTransaction(w) \/ UpdateTransaction(w) \/ UpdatedTransaction(w)
    \/ DeleteTransaction(w)
    \/ Statement(w) \/ NextQuery(w) \/ ShowStatement(w) \/ LedgerCrash(w)

LedgerSpec == LedgerInit /\ NoRequest /\ [][LedgerNext]_<<books, req>>
-----------------------------------------------------------------------------
(* A transaction whose type is not its category's was written by two       *)
(* workers, in updates that overlapped: update_transaction checks the pair *)
(* it read and writes only the half it changes.                            *)
MismatchOnlyByRace ==
    \A t \in Booked : txs[t].kind # cats[txs[t].cat].kind
        => txs[t].kindBy # txs[t].catBy

(* The running balance of a statement ends at its closing balance, unless  *)
(* a transaction was committed between its queries.                        *)
StatementAddsUp ==
    \A w \in Workers : Serving(w, "statement") /\ req[w].at = 5 /\ req[w].quiet
        => req[w].sum = req[w].part
=============================================================================
