------------------------------- MODULE Schema -------------------------------
(* The tables of the database as the migrations create them: the other     *)
(* tables their rows name, and whether a unique index, besides the one on  *)
(* the id, covers what tells their rows apart.                             *)
EXTENDS TLC

Unique(refs) == [refs |-> refs, unique |-> TRUE]
Open(refs) == [refs |-> refs, unique |-> FALSE]

PlatformTables ==
    "plan" :> Unique({})
    @@ "tenant" :> Unique({})
    @@ "user" :> Unique({})
    @@ "access_device" :> Unique({"tenant", "user"})
    @@ "announcement" :> Open({"tenant", "user"})
    @@ "assembly" :> Open({"tenant", "user"})
    @@ "asset" :> Unique({"tenant"})
    @@ "category" :> Unique({"tenant"})

CondominiumTables ==
    "construction_project" :> Open({"tenant"})
    @@ "document_folder" :> Open({"tenant"})
    @@ "feedback" :> Open({"tenant", "user"})
    @@ "finance_category" :> Unique({"tenant"})
    @@ "infraction_rule" :> Unique({"tenant"})
    @@ "infraction_settings" :> Unique({"tenant", "user"})
    @@ "lot" :> Unique({"tenant", "user"})

MembershipTables ==
    "media_asset" :> Open({"tenant", "user"})
    @@ "purchase_request" :> Open({"tenant", "user"})
    @@ "reservable_space" :> Unique({"tenant"})
    @@ "role" :> Unique({"tenant"})
    @@ "tenant_subscription" :> Unique({"plan", "tenant"})
    @@ "user_tenant_link" :> Unique({"tenant", "user"})
    @@ "visitor" :> Open({"tenant"})

BookTables ==
    "announcement_comment" :> Open({"announcement", "user"})
    @@ "announcement_media" :> Open({"announcement"})
    @@ "announcement_read_receipt" :> Unique({"announcement", "user"})
    @@ "association_document" :> Open({"document_folder", "tenant", "user"})
    @@ "budget_line" :> Unique({"finance_category", "tenant"})
    @@ "financial_transaction" :> Open({"finance_category", "tenant", "user"})
    @@ "infraction_policy_step" :> Unique({"infraction_rule"})
    @@ "inventory_movement" :> Open({"asset", "tenant", "user"})

UnitTables ==
    "lot_voter_eligibility" :> Unique({"lot", "user"})
    @@ "occurrence" :> Unique({"lot", "tenant", "user"})
    @@ "package" :> Open({"lot", "tenant", "user"})
    @@ "project_milestone" :> Open({"construction_project"})
    @@ "project_update" :> Open({"construction_project", "user"})
    @@ "purchase_quote" :> Open({"purchase_request", "user"})
    @@ "resident" :> Open({"lot", "tenant", "user"})

LinkTables ==
    "space_reservation" :> Open({"lot", "reservable_space", "tenant", "user"})
    @@ "subscription_change" :> Open({"plan", "tenant_subscription", "user"})
    @@ "task" :> Open({"category", "tenant", "user"})
    @@ "user_lot_link" :> Unique({"lot", "user"})
    @@ "user_role_link" :> Unique({"role", "user"})
    @@ "visitor_authorization" :> Open({"lot", "tenant", "user", "visitor"})
    @@ "vote" :> Open({"assembly", "tenant", "user"})

VoteTables ==
    "access_log" :> Open({"lot", "tenant", "user", "visitor",
                          "visitor_authorization"})
    @@ "ballot" :> Open({"lot", "user", "vote"})
    @@ "ballot_rejection" :> Open({"lot", "user", "vote"})
    @@ "document_download_log" :> Open({"association_document", "user"})
    @@ "facial_access_event" :> Open({"access_device", "resident"})
    @@ "facial_template" :> Unique({"media_asset", "resident"})

DetailTables ==
    "infraction" :> Open({"infraction_rule", "lot", "occurrence", "resident",
                          "tenant", "user"})
    @@ "infraction_cycle_close" :> Open({"infraction_rule", "lot",
                                         "resident", "tenant", "user"})
    @@ "occurrence_timeline" :> Open({"occurrence", "user"})
    @@ "purchase_quote_decision" :> Open({"purchase_quote",
                                          "purchase_request", "user"})
    @@ "task_visible_to_link" :> Unique({"role", "task"})
    @@ "taskcomment" :> Open({"task", "user"})
    @@ "taskhistory" :> Open({"task", "user"})
    @@ "vote_option" :> Open({"vote"})
    @@ "infraction_stage" :> Open({"infraction", "user"})
    @@ "infraction_contestation" :> Open({"infraction", "infraction_stage",
                                          "user"})

InvitationTables ==
    "tenant_invitation" :> Unique({"tenant", "user"})

LineTables ==
    "purchase_request_item" :> Open({"purchase_request"})
    @@ "purchase_quote_item" :> Unique({"purchase_quote",
                                        "purchase_request_item"})

Tables ==
    PlatformTables @@ CondominiumTables @@ MembershipTables @@ BookTables
    @@ UnitTables @@ LinkTables @@ VoteTables @@ DetailTables
    @@ InvitationTables @@ LineTables

(* TRUNCATE ... CASCADE of the tables S: those that name one of them, and  *)
(* so on.                                                                  *)
Naming(S) == S \cup {t \in DOMAIN Tables : Tables[t].refs \cap S # {}}
Cascade(S) == Naming(Naming(Naming(Naming(S))))
=============================================================================
