# Formal models of APRAS

APRAS is the back office of a residents' association: a FastAPI application over PostgreSQL
(`src/backend/app`) with a React client (`src/frontend`). This directory holds TLA+ models of the parts of
the backend whose rules relate several requests to one another, the TLC runs that check them on small
instances, and TLAPS proofs of their main properties for every size of instance.

## The system

Every request is served by one worker in a SQLAlchemy session of its own (`db.py:get_session`), at PostgreSQL's
default isolation, READ COMMITTED. No service takes row locks (the one exception is
`InvitationService.resolve(lock=True)`), there is no background scheduler, and there is no queue. A service
function reads rows, decides, writes the changed columns at `session.commit()`, and sometimes commits more than
once; several also write and delete files, which no transaction covers. So what is hard here is nearly always
the same: *state read before a commit of another request and used after it*, *several commits with a crash in
between*, and *long sequences of legal calls*. A request that dies loses its open transaction and nothing else.

| Component | State | What makes it correct | Module |
|---|---|---|---|
| Ballots of a vote (`voting_service`) | ballot rows, status, frozen tally | one ballot per unit, changed by its holder only; the result is the recount, and final | `Ballots`, `Voting`, `VotingBox`, `BallotBox` |
| Who may vote (`lot_service`, `users`) | links, extra voters, delinquency, roles | judged again on every cast | `Voting` |
| Assemblies and minutes (`voting_service`, `document_service`) | status, votes, options, minutes | no open vote in a closed assembly; minutes report frozen results | `Assembly` |
| Space reservations (`reservation_service`) | spaces, bookings | confirmed bookings of a space never meet | `Reservations` |
| Gate (`visitor_service`) | authorizations, access log | one open visit per visitor, SINGLE used once, revoked stays revoked | `Gate` |
| Packages (`package_service`) | packages | a pickup is recorded once | `Packages` |
| Facial readers (`access_control_service`, `media_service`) | photos, templates, devices | templates come from approved photos of the same resident | `FaceAccess` |
| Residents and sign-up (`resident_service`, `auth`) | residents, accounts | one active resident of a lot per CPF | `Residents` |
| Occurrences (`occurrence_service`, `protocol_generator`) | rows, timelines, numbers | the timeline tells the status, but for changes that overlap | `Occurrences` |
| Infractions (`infraction_service`) | rules, ladders, cases, stages, closures | the suggested rung is applied once, and never falls but for a closure | `Infractions` |
| Subscriptions (`subscription_service`, `plan_service`, `tenant_service`) | plans, plan of a condominium, courtesy, modules | no module on beyond the entitlement, and the history tells every change | `Subscriptions` |
| Accounts and roles (`users`, `roles`, `role_service`, `deps`) | accounts, roles, permissions, links | nobody hands out what they do not hold; a superuser is left | `Authority` |
| Tasks (`task_service`) | tasks with the roles that see them | a task shown to some never opens to all by itself | `Tasks` |
| Finance (`finance_service`) | categories, budget lines, transactions | type and category agree; the statement adds up | `Ledger` |
| Stored files (`storage_service` and the services that own files) | files, rows that name them | no row names a missing file | `StoredFiles` |
| Purchases (`purchase_service`) | requests, lines, quotes, decisions | a settled request stays as it was decided | `Purchases` |
| Stock (`asset_service`), projects (`project_service`) | quantity and movements, budget and updates | the sum is the sum of its entries | `Stock`, `Projects` |
| Documents (`document_service`) | folder tree, version chains | the tree stays a tree | `Documents` |
| Announcements (`announcement_service`) | announcements, comments, receipts | paging misses nothing that stayed; nothing is added to a deleted one | `Announcements` |
| Condominiums (`tenant_service`, `tenant_context`) | names, slugs, standard roles, the acting one | names and slugs differ; each gets its own roles | `Tenants` |
| Invitations (`invitation_service`) | invitations, memberships | used once; a new one supersedes the old | `Invitations` |
| Feedback (`feedback_service`) | answer and seen flag | what counts as seen was shown | `Feedbacks` |
| Seeds (`seed`, `seed_demo`), first migration | every table | running again copies nothing and leaves nothing out; not so on another day, when it inserts every transaction again | `Schema`, `DemoSeed` |
| Authentication, permission catalogue, report rendering, web client, other migrations | - | - | no |

How they interact: almost only through tables. Occurrences are promoted to infractions (`Infractions` has both
ends); a role deleted by `roles.py` takes links of tasks and accounts with it (`Tasks` extends `Authority`);
saving minutes goes through `document_service` (`Assembly`); files are stored for the rows of six services
(`StoredFiles` has them all); a condominium's modules are written by three services (`Subscriptions`).
`PROJECT.json` lists every component with its files, and every hazard with the line where it bites.

## How requests are modelled

`Workers` is the set of workers. A request is a sequence of steps of one worker: it reads committed state and
decides (`Check`, `Ask`, `Materialize`, ...), keeping in `req[w]` what later steps use, and commits in a later
step. Between the two, any step of any other worker may happen. A request may die between its steps (`Crash`,
`Stop`, `...Crash`). A request refused without changing state is no step. With one worker the requests run one
after the other: such instances are about *sequences of calls*, those with two workers about *overlap*. A request
whose only commit contradicts nothing it read is one step.

**`Requests`** holds this for all modules but the three oldest: `Ask(w, r)` begins or continues, `Answer(w)` ends,
`Dies(w)` drops the request. `Column(new, read, stored)` is what SQLAlchemy writes of one column: nothing when the
new value is the one it read. `Overtake(w)` is a commit after which every other request under way is no longer
`fresh`: it read what is no longer so. Properties that end in *OnlyByRace* say exactly which request overlapped
which; many rest on an auxiliary field `by`, the worker that committed a value. A worker serves one request at a
time, so two values with different `by` are all that overlap can produce, and two with the same `by` came one
after the other.

Ids, names and choices are model values; times are small numbers. `{}` and singletons stand for nullable columns.

## Modules

**`Ballots`, `Voting`** - one vote. `cast_ballot` is `CastCheck`/`RetractCheck` (all checks of
`_assert_can_cast`), `Stamp` (`_next_cast_at`, which reads the last row again) and `AppendRow`. Closing is
`Materialize` (reached by `CloseVote`, `LazyClose` and `CloseAssembly`) and `Freeze` (its commit), and for an
assembly `AssemblyClosed`, a commit of its own. `PatchAssembly`/`AssemblyPatched` is `update_assembly`. The seven
administrative edits are steps of their own. `seen` in a row is auxiliary: the rows its request had read when it
checked who holds the ballot. **`BallotBox`** is what a vote promises its voters, the abstract specification: each
key holds at most one choice, only its holder changes or withdraws it, and the result, announced once, counts what
is held. **`VotingBox`** maps `Voting` to it. `VotingInvariant` names the parts of the inductive invariant.

**`Assembly`** - one assembly with its votes. `create_vote` is `CreateVote` and `PrintOptions`, its two commits;
`update_vote` is `EditVote`, `VoteEdited` and, if it replaces options, `PrintOptions`. The options of one commit are
one value, a paper. `close_assembly` is `CloseAssembly`, `Cascade` and `Freeze` for each vote, `AssemblyClosed`.
`save_minutes` is `RenderMinutes`, `RenderVote` for each vote, `FindFolder`, `MakeFolder`, `FileMinutes`. `late` is
auxiliary: the votes created while the assembly was being closed, or after.

**`Reservations`** - `Ask`/`Book`, `Decide`/`Decided`, `Cancel`/`Cancelled`, `UpdateSpace`. `decide_reservation`
looks at no status of the booking, so the model decides bookings in every status.

**`Gate`, `Packages`, `FaceAccess`, `Residents`, `Occurrences`, `Infractions`, `Subscriptions`, `Authority`,
`Tasks`** are composed by **`Condominium`**. In each, a handler `X` is the action `X` up to its commit and `Xed` the
commit. Worth knowing: `check_in` expires a SINGLE authorization and writes the entry in one commit (`CheckedIn`), while
a refusal by the date expires it in a commit of its own (`Expired`). `sync` copies an approved photo (`Sync`,
`Synced`); a rejection later leaves the template where it is, which is what the code does. `Infractions` computes
suggestions from the window, the closures and the stages applied, as `suggest_next_step` does. A timeline of
`Occurrences` is in the order it is served, by `created_at`, with every entry a manager is shown: a request stamps its
entry before its commit, so `Updated` puts it anywhere after the entries the request found (the clock is assumed not
to go back). All four levers of
`Subscriptions` go through `Pull` and `Pulled`. `Authority(p)` is what `deps.py` computes for an account:
everything for a superuser, the grantable ones for an administrator, the union of its roles' otherwise, less the modules switched off.

**`Ledger`, `StoredFiles`, `Purchases`, `Stock`, `Projects`, `Documents`, `Announcements`, `Tenants`** are composed
by **`Office`**. The statement of `Ledger` is the queries it makes one after the other (`NextQuery`).
`StoredFiles` has two orders: logos, covers and quotes commit the new name and then delete the old file; invoices
and media delete first; saving may fail, deleting is best effort. `Documents` follows the parent chain as
`update_folder` does, `MoveFolderHangs` being the walk that meets a loop. `Announcements` has, beside the
handlers, a client that asks for page after page until the count it was last told (external to `src/`, modelled
from `list_announcements`). `Tenants` models the slug walk with its retries, the two commits of `create_tenant`,
the two of `update_profile`, and the session scope in which the roles are looked up and stamped: `Seen` is the read
filter, `Stamp` the write stamp, `ActingScope` the condominium acted in meanwhile.

**`Invitations`, `Feedbacks`, `DemoSeed`** are composed by **`Tenancy`**. `accept` is `Accept`, `Resolve` (which
waits for the row lock), then `Declined` or `Accepted`; `issue` supersedes the live rows in the commit that adds its
own (`Issued`), and waits for their locks too. `DemoSeed` runs the list of fixtures of `run_seed`: `Find` looks a row
up by the key the code uses, `Insert` and `Fill` are its commits, `Refused` is an insert that meets a unique index;
`Reset`, `ResetRoles`, `ResetPeople` are `seed_db`. **`Schema`** is the tables of the first migration: what each
refers to and whether an index covers what the seeds search by.

**`MCVoting`, `MCAssembly`, `MCReservations`** give the instances their values. **`SerialVoting`**,
**`AssemblyModes`** and **`ReservationModes`** put two instances of one module under one specification: an initial
choice (`poll`, `serial`) decides which of them a behaviour belongs to. Likewise `desk` and `area`
decide which component a behaviour of `Condominium`, `Office` or `Tenancy` exercises: the components
share no table (those that do are one module here), so running them together would only multiply their states.

In most modules an operator marked as *a mistake* stands next to the one it distorts: a bug that the
properties were shown to notice (`PROJECT.json`, `mutants`). No specification uses it.

## Runs

All runs switch deadlock checking off: at its bounds (no row id left, clock and edits spent) the modelled system
really stops. Liveness is stated where a request can wait for another.

| Run | Shows |
|---|---|
| `VotingOverlap` | `OverwriteOnlyByRace`: the lot lock, the holder check of retractions and the `cast_at` rule ensure that a ballot is replaced by another voter only if it was not there yet when that voter was checked. `ClosedIffFrozen`, `ResultSettles`: the result is stored with the closing and, once the overlapping requests are over, final. |
| `VotingSerial` | One at a time, assembly vote or multiple-choice poll. `ImplementsBallotBox`: the rows are a ballot box, and the frozen result is what is held. `EntitledWhenCast`: counted ballots were cast by entitled voters of lots in good standing. |
| `Assembly` | `OpenVotesAreLate` under overlap and crashes anywhere. One at a time, with crashes: `ResultsCoverOptions`, `MinutesTellAll`. |
| `Reservations` | `DoubleBookedOnlyByRace`: bookings that meet were confirmed by different workers - hence, one at a time, never. (That overlapping requests can double-book is a limitation `docs/tasks/APRAS-31-spec.md` accepts.) |
| `Condominium` | Gate: `InsideTwiceOnlyByRace`, `SingleReusedOnlyByRace`, `ShutForGood`. Packages: `TakenOnce`. Readers: `EnrolledFromVetted`. Residents: `TwinsOnlyByRace`. Occurrences: `TimelineTellsStatus`. Infractions: `SameSuggestionOnlyByRace`, `OfferedLessOnlyByRace`. Subscription: `CeilingHeld`, `ToldInHistory`. Accounts: `LockedOutOnlyByRace`, `NothingBeyondAuthor`. Tasks: `OpenedOnlyByEdit`. |
| `Office` | Ledger: `MismatchOnlyByRace`, `StatementAddsUp`. Files: `DanglesOnlyInFlight`. Purchases: `CompletePricesEveryLine`, `SettledOnlyByRace`. Stock and projects: `SumsLostOnlyByRace`. Documents: `LoopsOnlyByRace`. Announcements: `MissedOnlyByChange` (a page may skip an announcement only when one was deleted, or posted between the two queries of a page, meanwhile), `LateOnlyByRace`. Condominiums: `RolelessOnlyByCrash` (only a creation that died between its commits lacks roles, and none gets another's), `RefusedLateOnlyByRace` (a create, rename or new slug whose checks passed fails only against a commit that overtook it). |
| `Tenancy` | Invitations: `SingleUse`, `TwoLiveOnlyByRace`. Feedback: `SeenUnshownOnlyByRace`. Seeds: `TwinsOnlyByOverlapOrDay` (a row is copied only by a run that overlaps, where no index forbids it, or by a run on another day, where it is looked for by a date: the financial transactions), `CutShortOnlyByOthers`. Liveness: `EveryRequestAnswered`. |
| `VotingLotLock`, `VotingFrozenOnce`, `AssemblyReopened`, `BundleSplit`, `SeedAnotherDay` | Violated; see the next section. |

### What the code does and a document denies

* `VotingLotLock`: two owners of a unit who cast at the same time both pass the lock, and one replaces the other's
  ballot, against the docstring of `get_active_ballot_holder`.
* `VotingFrozenOnce`: two overlapping closings each store a tally, against "Freeze the tally once".
* `AssemblyReopened`: an edit that overlaps the closing writes DRAFT or OPEN over CLOSED, against "Blocked once the
  assembly is CLOSED".
* `BundleSplit`: a change of plan leaves half a module bundle on, against "always entirely on or entirely off".
* `SeedAnotherDay`: the demo seed run again on a later day inserts all its financial transactions again, since it looks
  for each by a date reckoned from today, against "Idempotent" and "Reuses or creates records without duplicates". The
  books and the statement of the demo condominium then count them twice.

Smaller observations, which the models follow and the passing properties allow for: `decide_reservation` approves a
rejected or cancelled booking and rejects a confirmed one, though its docstring says "Approve or reject a PENDING
reservation"; a profile whose slug is overtaken after the
name was committed keeps the new name although it is answered with a refusal (`RefusedLateOnlyByRace`); the demo seed killed between a row
and its parts never completes it, and stops at the users of a database that `seed.py` filled, whose people hold the
demo's CPFs, though its docstring calls it safe to run against any database (`CutShortOnlyByOthers`); an invoice
whose replacement cannot be stored is gone (`DanglesOnlyInFlight`); a loop of folders, once closed by two moves, hangs
every later walk through it (`LoopsOnlyByRace`).

### Bounds

Two workers make every race of two requests; the invariants proved for any number show no third is needed. One row
more than a race needs makes room for what happens before or after it.

* `VotingOverlap`: 1 unit, its owner and an extra voter, 1 option, 3 rows (a ballot, its replacement, and one in
  between), 1 edit, `MaxTime = ClosesAt = 1` (a moment inside the window, one after). `VotingSerial`: 2 units, 2 owners,
  3 rows, 2 edits; or a poll of 2 people, 2 options, several at once.
* `Assembly`: 2 votes. Overlapping: 1 paper, no minutes. One at a time: 2 units, 3 papers (two votes, and one
  replacement), 2 sets of minutes, 2 folders.
* `Reservations`: 3 bookings over three times (equal, adjacent, nested). Overlapping: 1 space, staff; one at a time: 2 spaces, staff and a resident.
* `Condominium`: 2 rows of every table (1 device, rule, plan, task, visitor, lot of residents); `MaxTime = 1`; `MaxKey = 1`,
  one rotation of a key; `MaxNumber = 2` occurrences with `MaxEntries = 4` timeline entries; a ladder of two rungs, `Windows = {1}`,
  `MaxInstant = 3`, `MaxDay = 1`, `MaxWrites = 1`; 2 modules; 3 accounts, 2 roles, two bundles of permissions, one
  within the other, `MaxCommits = 3`; `Elsewhere` and `Dormant` empty.
* `Office`: 3 categories with 2 names, `MaxLines = 1`, 1 transaction on one of three days; 2 file names and any two of the rows;
  3 lines, 2 quotes, `MaxDecisions = 2`; `MaxStock = 2`, `MaxMoves = 3`; `MaxBudget = 2`, `MaxPosts = 3`; `MaxFolders = 3` (the
  shortest loop and a folder outside), `MaxDocs = 2`, `MaxPapers = 4`; `MaxStamp = 3` announcements and edits and `MaxNotes = 1`
  comment or receipt, the latter only where no client pages; 2 condominiums, 3 names, 3 slugs, 1 role, 2 attempts instead of the
  code's 5 (one retry shows what a second adds).
* `Tenancy`: 2 invitations of one address to one condominium, `TTL = 1`, `MaxTime = 2` (before and after expiry);
  `MaxReplies = 2`; 2 runs of the seeds over 2 days (`MaxRuns = 2`, `MaxDay = 1`), each through one section, preceded by the
  users, or through the foundation: the sections share no table.

Symmetry is used over model values only, in runs without liveness. In `AssemblyModes` and `ReservationModes` the
smaller instance names `p1` or `s1` alone, and the permutations are those that leave it alone.

### Fairness

Nothing in the backend runs on its own: a vote past its window is closed by the next read of it and by nothing else,
so most modules assume no fairness. `Tenancy` does: `WF(Ends(w))`, since a worker that serves a request and is not
waiting runs it to its end (or dies, which ends it too), and `SF(Waits(w))` for the two steps that need a row lock:
PostgreSQL queues the waiters of a row, so a lock that is released again and again comes to each. No fairness makes
anybody begin a request, run a seed or let the clock pass.

## Proofs

Each from the assumptions its module names, for any number of workers and rows; the row ids, lots, persons and the
rest are unconstrained sets. An operator named `...Inv` is the inductive invariant of its theorems, a conjunction of named parts.

* `VotingProofs`: `TypeCorrect`; `FrozenResult` (`ClosedIffFrozen`: a worker past its closing commit has a closed
  vote, and a request about to freeze with no tally of its own read a stored one); `ResultIsFinal`; `ReadsBind` and
  `LotLock`: `OverwriteOnlyByRace` is not inductive. `RaceInv` adds that ids are unique, that the rows a request saw
  are rows of its key, that the last of them belongs to the voter or is a retraction, that a stamped time is later than
  all of them, and the same of every stored row. `BoxImplemented` is the refinement that `VotingSerial` checks: with
  one worker (`Alone`) the initial state maps to the ballot box's and each step to a step of it or none. The mapping
  needs `SerialInv`: what the one request read is what is stored, so the row it appends is the last of its key and
  the tally it freezes counts what is held. `EntitledAtCommit` is the step formula of `EntitledWhenCast`, by the same invariant.
* `AssemblyProofs`: `TypeCorrect` (what a request still has to freeze is a vote that exists); `ClosingIsComplete`:
  `CascadeInv` adds that every open vote is late, or still listed by each closing under way, or about to be frozen.
  `SerialResultsCoverOptions` and `SerialMinutesTellAll`: `ResultsStored` adds to the first that a vote is closed with one
  result, and that a unit's last row is on a paper of its vote; `MinutesStored` that stored minutes tell frozen results and leave out
  late votes only; `Knows` says what a request under way read and what still holds when it commits: the vote it prints or edits
  has no ballot, the tally it freezes is today's, its report so far is true and complete but for what it has left to visit. Both rest on
  `SerialRequestsTellTheTruth`, which is about any number of workers that take turns.
* `ReservationsProofs`: `TypeCorrect`; `RacersOnly`: every confirmed booking has one confirmer, and a request between check
  and commit has nothing confirmed by its own worker in its way; `OneAtATime`.
* `PremisesProofs`: of the gate `GateTypeCorrect`, `InsideOnce`, `SingleUsedOnce`, `ShutStaysShut`. The invariant: what a
  request read was a row (`RowsExist`); a SINGLE authorization that some entry used is no longer ACTIVE
  (`SingleSpent`); and the open logs and uses in the way of a check-in under way are of other workers
  (`OthersLetIn`). Of residents `TwinsByRace`, by `OthersWrote`: whoever holds the CPF a request is about to write was
  entered by another worker since it checked. Of facial readers `EnrolledAreVetted`, by `SyncsVetted`: the photo a sync
  read is vetted still, or deleted by now, in which case the commit enrols nothing.
* `TenancyProofs`: `ConsumedOnce`, by `LockHeld` (one request per row is past its lock, and its row is neither
  accepted nor superseded) and `SupersededDead`; `TwoLiveByRace`, by `ReadLive` (what an issue under way
  read and is still live, it is going to supersede); `SeenWasShown`, by `OthersTold`: where a worker answers having
  read that the reporter was not told yet, and the reporter has been told since, another worker did that. Of the demo seed `TwinsByOverlapOrDay` and
  `CutShortByOthers`, for the script of any section (`ScriptsSound`: the sections are finitely many, and checked one by
  one): runs that go on at one time overlap (`RunningMeet`), and so do a run that found nothing and the one that
  inserted the row since (`InWayMeet`); a run inserts a row once (`OneOfRun`), has filled its own
  when it goes on (`OwnRows`), and there is a row for what it has passed (`HeldThere`); a row that is not whole is of a run that is at it, was killed over it or undone
  (`PartsMissing`). Only what is looked for by a date has one in its key (`KeysDated`): two rows of one fixture and one parent on one day, or without a date, have one key.
* `SubscriptionsProofs`: `CeilingKept`, `HistoryTold`: while a request is fresh, what it read is what is stored.
* `DeskProofs`: `PickupStands` (of a package that is taken, every request about to write was begun by another worker);
  `WayInKept`, `NoEscalation`: while a request is fresh, what its author could grant still covers what it adds, and the
  superuser that was left is. `OpenedByEdit`, by `EditsStand`: a fresh edit that does not open the task leaves a target.
  `TimelineTells`: an entry starts where the last transition its request found ended (`Continues`), and is listed
  before another unless it was read after the other's commit (`Listing`); both hold of the entry a request is about to add
  (`EntryWaits`), and the place it gets, any after those it found, disturbs neither (`TellsOn`).
  Of infractions `SuggestionAnsweredOnce` and `LadderOnlyClimbed`: what a worker is about to commit
  (`AboutTo`) is a stage later than all of its own, or a close later than every process of its own, and what was counted is
  a subset of what is counted.
* `OfficeProofs`: of purchases `CompleteQuotes` (a quote prices lines of its request, `PricesLines`; a subset of as many
  elements is the whole) and `SettledStands` (`SettledLast`: the worker that settled serves nothing that began before). Of
  the ledger `MismatchByRace`, by `HalfChecked`: an update checked the pair it is about to complete, or another worker has
  changed the other half since. Of files `DanglesInFlight`: but for URLs written by hand, a file has one name
  (`OneName`), what a request is to delete is named by its row or, once it committed, by none (`PrevOfRow`), and what is to be
  named is there and has no other use (`NewUnused`). Of the sums
  `SumsLostByRace`, by `MovesFromStock` and `PostsFromBudget` (what is about to be added was read from what stands, or
  another worker wrote since) and `LatestTells`. Of the ledger's statement `StatementsAddUp`, by
  `StatementsRead`: while nothing was committed since it began, what each query read is the sum of what stands. The
  proof needs that a sum over a finite set is what its recursive function says whichever row comes first
  (`SumExists`, `SumUnique`, `SumTakesAny`) and that sums of disjoint parts add (`SumsOfParts`), by a smallest
  counterexample among the subsets. Of folders `LoopsByRace`, by `NoLoopOfOne` (of any folders one worker placed, one
  is in none of the others) and `MovesBelow` (while a move is under way, some set of folders that is closed under
  the worker's own placements holds the new parent and not the folder). Of announcements `LateByRace`, by
  `NotOwnDeletion`, and `MissedByChange`: as long as nothing was removed and no page torn, what was listed at the start and not yet shown stands past the
  entries skipped, and what was shown within them (`StartStands`, `ShownOnce`), and the count of a page still holds (`CountHolds`).
  Of condominiums `RolelessByCrash` and `RefusedLateByRace`: a row appears once (`RowsApart`), a fresh request's checks
  still hold (`ChecksHold`), and `SlugFound`: the slug walk ends at a free one, by the least element of a set of
  naturals.

Assumptions on constants, each named in its module: workers and rows are any sets, those that are counted or summed finite;
bounds, costs and days are naturals, the amounts of transactions integers; `TenantsAssumption` says that some
slug is left whatever the condominiums hold (the code's suffixes do not end).

Only model-checked: `EntitledWhenCast` and `ImplementsBallotBox` as they are stated, for the two instances of
`SerialVoting` at once; `EntitledAtCommit` and `BoxImplemented` prove what each says of one. `EveryRequestAnswered` is
out of the prover's reach (liveness under fairness, which needs `ENABLED`). Induction over data is out of reach as
such, and done by the least element of a set of naturals instead.

## Not modelled

* Authentication (tokens, password hashes, rate limits) and the catalogue of permissions: no state that requests share.
* Report rendering, the HTML of minutes, the PDF of a notification, e-mail: formatting of rows that are modelled.
* The web client; every rule it mirrors is enforced by the backend.
* The migrations after the first, and its data but for the first condominium and its roles; they run once, offline.
* Categories of tasks, texts, titles, contact data, amounts and prices, branding: edits of one row that decide nothing
  else. `opens_at`, ideal fractions and anonymity in votes; rejections other than delinquency; the file written for a set of minutes.
* Who may open a document folder and the log of downloads; deleting a project's update, which touches no budget;
  the subscription's status and notes; the visitors' own data.
* Of the seeds, rows that users make or delete meanwhile, and what the rows contain.
* In most modules who acts is left open where a permission decides and nothing else depends on it; how permissions
  follow from roles is `Authority`'s subject.

Two hazards have no property because overlapping requests do run into them and no document denies it: options replaced
while a ballot for the old ones is committed (`voting_service.py:863`), and two root folders for the minutes
(`voting_service.py:1137`). The serial properties `ResultsCoverOptions` and `MinutesTellAll` show that requests served one after the other never do.
