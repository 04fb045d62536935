------------------------------ MODULE DemoSeed ------------------------------
(* The demo seed (seed_demo.py), run from a command line, run again after  *)
(* it was killed, by two people at once and on another day, and the        *)
(* developer seed (seed.py), which empties tables first.  A run goes       *)
(* through its fixtures in order: it looks a row up by its key and, when   *)
(* there is none, inserts it and fills its parts in commits of their own.  *)
(* One fixture stands for all rows of its kind.  The sections of the seed  *)
(* share no table, so a behaviour exercises one of them: script.  Bounds:  *)
(* MaxRuns, the runs ever started, and MaxDay.                             *)
EXTENDS Requests, Schema, Naturals, Sequences

CONSTANTS MaxRuns, MaxDay

(* The rows of the fixtures; the runs, each with its day, how it ended     *)
(* and, an auxiliary, the runs that were going on when it began; the       *)
(* people, who hold the CPFs of the demo's when they are those of seed.py; *)
(* the date.                                                               *)
VARIABLES script, rows, runs, people, today
seeds == <<script, rows, runs, people, today>>

(* A fixture: its table, whether an index makes its key unique, whether    *)
(* the key names the row of the fixture before, or a date reckoned from    *)
(* today, and the tables filled in each of its commits.                    *)
Row(table) ==
    [table |-> table, indexed |-> Tables[table].unique, within |-> FALSE,
     daily |-> FALSE, parts |-> <<{table}>>]
Within(fixture) == [fixture EXCEPT !.within = TRUE]
Daily(fixture) == [fixture EXCEPT !.daily = TRUE]
Unindexed(fixture) == [fixture EXCEPT !.indexed = FALSE]
InParts(table, more) == [Row(table) EXCEPT !.parts = @ \o more]

TenantRows == <<Row("tenant")>>
RoleRows == <<Row("role")>>
UserRows == <<Row("user")>>
LinkRows == <<Row("user_tenant_link"), Row("user_role_link")>>
PlanRows == <<Row("plan"), Row("tenant_subscription")>>

LotRows == <<Row("lot"), Row("user_lot_link")>>
ResidentRows == <<Row("resident")>>
TaskRows == <<Row("category"), Row("task")>>
AnnouncementRows == <<Row("announcement")>>
SpaceRows == <<Row("reservable_space"), Within(Row("space_reservation"))>>
PackageRows == <<Row("package")>>
OccurrenceRows == <<Row("occurrence")>>
VisitorRows == <<Row("visitor"), Within(Row("visitor_authorization"))>>
FinanceRows == <<Row("finance_category"), Daily(Row("financial_transaction"))>>
FeedbackRows == <<Row("feedback")>>
DocumentRows == <<Row("document_folder"), Within(Row("association_document"))>>
ProjectRows ==
    <<InParts("construction_project", <<{"project_milestone", "project_update"}>>)>>
MediaRows == <<Row("media_asset")>>
DeviceRows == <<Row("access_device"), Within(Row("facial_access_event"))>>
RuleRows ==
    <<Row("infraction_settings"),
      InParts("infraction_rule", <<{"infraction_policy_step"}>>)>>
InfractionRows ==
    RuleRows \o <<Within(InParts("infraction",
        <<{"infraction_stage"}, {"infraction_stage"}, {"infraction_contestation"}>>))>>
VoteRows ==
    <<Row("assembly"), InParts("vote", <<{"vote_option"}, {"ballot"}>>)>>

(* A consumable has no tag for the index to tell apart.                    *)
AssetRows ==
    <<Row("asset"), Unindexed(InParts("asset", <<{"inventory_movement"}>>))>>

(* A request still open, and one that is decided.                          *)
PurchaseParts ==
    <<{"purchase_request_item"}, {"purchase_quote", "purchase_quote_item"}>>
Decided == InParts("purchase_request", PurchaseParts \o <<{"purchase_quote_decision"}>>)
PurchaseRows == <<InParts("purchase_request", PurchaseParts), Decided>>

SecondaryRows ==
    <<Row("lot"), Row("category"), Row("task"), Row("announcement")>>

(* A run goes through the first script, then the sections.  Of the first   *)
(* only the users can stop it once they are there.                         *)
Foundation == TenantRows \o RoleRows \o UserRows \o LinkRows \o PlanRows
Sections ==
    {LotRows, ResidentRows, TaskRows, AnnouncementRows, SpaceRows, PackageRows,
     OccurrenceRows, VisitorRows, FinanceRows, FeedbackRows, DocumentRows,
     ProjectRows, MediaRows, DeviceRows, InfractionRows, VoteRows, AssetRows,
     PurchaseRows, SecondaryRows}
Scripts == {Foundation} \cup {UserRows \o s : s \in Sections}

SeedInit ==
    /\ script \in Scripts
    /\ rows = {} /\ runs = <<>> /\ people = "nobody" /\ today = 0

NextDay ==
    /\ today < MaxDay /\ today' = today + 1
    /\ UNCHANGED <<script, rows, runs, people, req>>

Running == {r \in DOMAIN runs : runs[r].end = "running"}
At(w) == Len(req[w].held) + 1
Fixture(w) == script[At(w)]
End(w, how) == runs' = [runs EXCEPT ![req[w].run].end = how]

(* run_seed; the date is read once.                                        *)
Start(w) ==
    /\ Free(w) /\ Len(runs) < MaxRuns /\ ~\E v \in Workers : Serving(v, "reset")
    /\ runs' = Append(runs, [end |-> "running", day |-> today, beside |-> Running])
    /\ Ask(w, [op |-> "seed", run |-> Len(runs) + 1, held |-> <<>>])
    /\ UNCHANGED <<script, rows, people, today>>

(* The key of a fixture: the row of the fixture before, by the run that    *)
(* inserted it, and the date.                                              *)
Key(w) ==
    [fix |-> At(w), within |-> IF Fixture(w).within THEN req[w].held[At(w) - 1] ELSE 0,
     day |-> IF Fixture(w).daily THEN runs[req[w].run].day ELSE 0]
Keyed(k) == {r \in rows : r.key = k}
Holds(w, run) == [req[w] EXCEPT !.op = "seed", !.held = Append(@, run)]

(* A mistake: the seed looks for a row of its own run alone.               *)
FindBlind(w) ==
    /\ Serving(w, "seed") /\ At(w) <= Len(script)
    /\ Ask(w, [req[w] EXCEPT !.op = "insert"])
    /\ UNCHANGED seeds
Find(w) ==
    /\ Serving(w, "seed") /\ At(w) <= Len(script)
    /\ \/ \E r \in Keyed(Key(w)) : Ask(w, Holds(w, r.run))
       \/ Keyed(Key(w)) = {} /\ Ask(w, [req[w] EXCEPT !.op = "insert"])
    /\ UNCHANGED seeds

(* The insert fails on a unique index; a user, also on the CPF of another. *)
Taken(w) ==
    \/ Fixture(w).indexed /\ Keyed(Key(w)) # {}
    \/ Fixture(w).table = "user" /\ people = "developers"

(* A mistake: the row is inserted and its parts are left to the next run.  *)
InsertAlone(w) ==
    /\ Serving(w, "insert") /\ ~Taken(w)
    /\ rows' = rows \cup {[key |-> Key(w), run |-> req[w].run, parts |-> 1]}
    /\ Ask(w, Holds(w, req[w].run))
    /\ UNCHANGED <<script, runs, people, today>>
Insert(w) ==
    /\ Serving(w, "insert") /\ ~Taken(w)
    /\ rows' = rows \cup {[key |-> Key(w), run |-> req[w].run, parts |-> 1]}
    /\ Ask(w, IF Len(Fixture(w).parts) = 1 THEN Holds(w, req[w].run)
              ELSE [req[w] EXCEPT !.op = "fill"])
    /\ UNCHANGED <<script, runs, people, today>>

Refused(w) ==
    /\ Serving(w, "insert") /\ Taken(w)
    /\ End(w, "refused") /\ Answer(w)
    /\ UNCHANGED <<script, rows, people, today>>

(* The next commit of the fixture: the rows that belong to the row.        *)
Fill(w) ==
    /\ Serving(w, "fill")
    /\ \E r \in Keyed(Key(w)) :
          /\ r.run = req[w].run
          /\ rows' = (rows \ {r}) \cup {[r EXCEPT !.parts = @ + 1]}
          /\ Ask(w, IF r.parts + 1 = Len(Fixture(w).parts)
                    THEN Holds(w, req[w].run) ELSE req[w])
    /\ UNCHANGED <<script, runs, people, today>>

Finish(w) ==
    /\ Serving(w, "seed") /\ At(w) > Len(script)
    /\ End(w, "done") /\ Answer(w)
    /\ UNCHANGED <<script, rows, people, today>>

Killed(w) ==
    /\ ~Free(w) /\ Answer(w)
    /\ IF Serving(w, "reset") THEN UNCHANGED runs ELSE End(w, "killed")
    /\ UNCHANGED <<script, rows, people, today>>

(* seed_db, run while nothing else is, starts by emptying five tables and  *)
(* what names their rows; of a row that stays, its first part stays.       *)
Wiped == Cascade({"task", "user", "category", "role", "user_role_link"})
Stays(r) == script[r.key.fix].table \notin Wiped
Stripped(r) ==
    [r EXCEPT !.parts =
        IF \E p \in 1 .. @ : script[r.key.fix].parts[p] \cap Wiped # {} THEN 1 ELSE @]
Reset(w) ==
    /\ NoRequest
    /\ rows' = {Stripped(r) : r \in {s \in rows : Stays(s)}}
    /\ people' = "nobody"
    /\ runs' = [r \in DOMAIN runs |-> [runs[r] EXCEPT !.end = "undone"]]
    /\ Ask(w, [op |-> "reset", next |-> "roles"])
    /\ UNCHANGED <<script, today>>

(* The roles, which the demo looks up by the same names, then the people.  *)
ResetRoles(w) ==
    /\ Serving(w, "reset") /\ req[w].next = "roles"
    /\ rows' = rows \cup
          {[key |-> [fix |-> n, within |-> 0, day |-> 0], run |-> 0, parts |-> 1] :
              n \in {m \in DOMAIN script : script[m].table = "role"}}
    /\ Ask(w, [op |-> "reset", next |-> "people"])
    /\ UNCHANGED <<script, runs, people, today>>

ResetPeople(w) ==
    /\ Serving(w, "reset") /\ req[w].next = "people"
    /\ people' = "developers"
    /\ Answer(w)
    /\ UNCHANGED <<script, rows, runs, today>>

SeedEnds(w) ==
    \/ Find(w) \/ Insert(w) \/ Refused(w) \/ Fill(w) \/ Finish(w)
    \/ ResetRoles(w) \/ ResetPeople(w)

SeedNext ==
    \/ NextDay
    \/ \E w \in Workers : Start(w) \/ Reset(w) \/ SeedEnds(w) \/ Killed(w)

DemoSeedSpec == SeedInit /\ NoRequest /\ [][SeedNext]_<<seeds, req>>
-----------------------------------------------------------------------------
Overlap(p, q) == p \in runs[q].beside \/ q \in runs[p].beside
Whole(r) == r.parts = Len(script[r.key.fix].parts)

(* Rows that the seed means to be one.                                     *)
Copies(r, s) == r # s /\ r.key.fix = s.key.fix /\ r.key.within = s.key.within

(* Copies of a row were inserted by runs that overlapped, in a table       *)
(* without a unique index, or on different days, where the seed looks for  *)
(* the row by a date reckoned from today: a later run, however often the   *)
(* ones before it were killed, copies nothing else, and nothing that day.  *)
TwinsOnlyByOverlapOrDay ==
    \A r, s \in rows : Copies(r, s) =>
        \/ script[r.key.fix].daily /\ r.key.day # s.key.day
        \/ ~script[r.key.fix].indexed /\ Overlap(r.run, s.run)

(* "Reuses or creates records without duplicates": as the head of          *)
(* seed_demo.py has it, no run copies a row that another one left to it.   *)
(* The transactions of a run on another day do.                            *)
NoDuplicates == \A r, s \in rows : Copies(r, s) => Overlap(r.run, s.run)

(* A run that finished left every row of its day whole, but for what       *)
(* another run is at, was killed over or had undone by seed.py: no run     *)
(* returns to a row that is there.  One is refused only when another       *)
(* overlapped it, or by the people of seed.py.                             *)
CutShortOnlyByOthers == \A r \in DOMAIN runs :
    /\ runs[r].end = "done" => \A n \in DOMAIN script : \E s \in rows :
          /\ s.key.fix = n /\ (script[n].daily => s.key.day = runs[r].day)
          /\ Whole(s) \/ runs[s.run].end \in {"killed", "running", "undone"}
    /\ runs[r].end = "refused" =>
          people = "developers" \/ \E s \in DOMAIN runs : Overlap(r, s)
=============================================================================
