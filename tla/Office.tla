------------------------------- MODULE Office -------------------------------
(* The office for TLC: the books, the stored files, purchase requests, the *)
(* stock, the projects, the documents, the announcements and the           *)
(* condominiums of the installation.  They share the workers and no table  *)
(* (which row names which file is StoredFiles' alone), so a behaviour      *)
(* exercises one of them, chosen at the start: desk.                       *)
EXTENDS Ledger, StoredFiles, Purchases, Stock, Projects, Documents,
        Announcements, Tenants, TLC

CONSTANTS w1, w2, i1, i2, i3, j1, j2

VARIABLE desk

(* Row ids and names; one component at a time uses them.                   *)
TwoWorkers == {w1, w2}
TwoIds == {j1, j2}
ThreeIds == {i1, i2, i3}

Interchangeable ==
    Permutations(TwoWorkers) \cup Permutations(TwoIds) \cup Permutations(ThreeIds)

(* Two of the rows that name files exist, or, for media, may come to.      *)
TwoRows == Cardinality({h \in Rows : names[h] # Gone}) = 2

officeVars == <<books, storage, purchases, stock, works, papers, board,
                houses, req, desk>>

OfficeInit ==
    /\ desk \in {"ledger", "files", "purchases", "stock", "projects", "documents",
                "feed", "tenants"}
    /\ NoRequest /\ LedgerInit /\ StorageInit /\ PurchasesInit /\ StockInit
    /\ ProjectsInit /\ DocumentsInit /\ AnnouncementsInit
    /\ IF desk = "files" THEN TwoRows ELSE names = [h \in Rows |-> Gone]
    /\ desk # "purchases" => Items = {}
    /\ desk # "projects" => project = 0
    /\ desk # "feed" => walk = NoWalk
    /\ IF desk = "tenants" THEN TenantsInit
       ELSE tenants = [t \in TenantIds |-> NoTenant] /\ roles = {} /\ cut = {}

AtLedger == desk = "ledger" /\ LedgerNext /\ UNCHANGED
    <<storage, purchases, stock, works, papers, board, houses, desk>>
AtFiles == desk = "files" /\ StorageNext /\ UNCHANGED
    <<books, purchases, stock, works, papers, board, houses, desk>>
AtPurchases == desk = "purchases" /\ PurchasesNext /\ UNCHANGED
    <<books, storage, stock, works, papers, board, houses, desk>>
AtStock == desk = "stock" /\ StockNext /\ UNCHANGED
    <<books, storage, purchases, works, papers, board, houses, desk>>
AtProjects == desk = "projects" /\ ProjectsNext /\ UNCHANGED
    <<books, storage, purchases, stock, papers, board, houses, desk>>
AtDocuments == desk = "documents" /\ DocumentsNext /\ UNCHANGED
    <<books, storage, purchases, stock, works, board, houses, desk>>
AtFeed == desk = "feed" /\ AnnouncementsNext /\ UNCHANGED
    <<books, storage, purchases, stock, works, papers, houses, desk>>
AtTenants == desk = "tenants" /\ TenantsNext /\ UNCHANGED
    <<books, storage, purchases, stock, works, papers, board, desk>>
OfficeNext ==
    \/ AtLedger \/ AtFiles \/ AtPurchases \/ AtStock \/ AtProjects \/ AtDocuments
    \/ AtFeed \/ AtTenants

OfficeSpec == OfficeInit /\ [][OfficeNext]_officeVars

(* The sums that are read, added to and written: neither the stock nor an  *)
(* executed budget loses an update but between two workers.                *)
SumsLostOnlyByRace == StockLostOnlyByRace /\ BudgetLostOnlyByRace
=============================================================================
