---------------------------- MODULE Infractions -----------------------------
(* Infractions: the rule and its escalation ladder, the processes, their   *)
(* stages, the contestations and the closed cycles (infraction_service).   *)
(* Origin, article, amounts and texts are not told apart; a resident named *)
(* as responsible is an active one.  Bounds: Rules and Cases, the row ids; *)
(* MaxInstant, the timestamps taken; MaxDay; MaxWrites, ladders written.   *)
EXTENDS Requests, Sequences, FiniteSets, FiniteSetsExt

CONSTANTS
    Rules, Cases,
    Offenders, HomeOf,      \* active residents; resident -> lot
    Reports, LotReported,   \* occurrences; occurrence -> lot or NoLot
    NoLot,
    Neighbours, UnitsOf,    \* users; user -> linked_lot_ids
    Ladders, Windows,       \* ladders and windows a request may send
    MaxInstant, MaxDay, MaxWrites

ASSUME CasesAssumption == IsFiniteSet(Cases)

(* instant: the created_at, closed_at, ... taken so far; day: today_utc;   *)
(* fee: InfractionSettings has a condo_fee_amount.                         *)
VARIABLE book

NoRule == [window |-> "none"]
NoCase == [rule |-> "none"]
NoRung == [action |-> "none"]
NoDue == -1

Actions == {"AVISO", "NOTIFICACAO", "MULTA"}

Articles == {r \in Rules : book.rules[r] # NoRule}
Open == {c \in Cases : book.cases[c] # NoCase}

InfractionsInit ==
    book = [instant |-> 0, day |-> 0, fee |-> FALSE,
            rules |-> [r \in Rules |-> NoRule],
            cases |-> [c \in Cases |-> NoCase],
            stages |-> [c \in Cases |-> <<>>],
            pleas |-> {}, closes |-> {}]

Days == 0 .. MaxDay

(* create_rule: (origin, article) is unique in the table.                  *)
CreateRule(w) ==
    /\ Free(w)
    /\ \E r \in Rules \ Articles, n \in Windows, on \in BOOLEAN :
          book' = [book EXCEPT !.rules[r] =
             [active |-> on, window |-> n, ladder |-> <<>>, written |-> 0]]
    /\ UNCHANGED req

(* update_rule: only the columns sent are written.                         *)
UpdateRule(w) ==
    /\ Free(w)
    /\ \E r \in Articles :
          \/ \E n \in Windows : book' = [book EXCEPT !.rules[r].window = n]
          \/ book' = [book EXCEPT !.rules[r].active = TRUE]
    /\ UNCHANGED req

(* deactivate_rule.                                                        *)
DeactivateRule(w) ==
    /\ Free(w)
    /\ \E r \in Articles : book' = [book EXCEPT !.rules[r].active = FALSE]
    /\ UNCHANGED req

(* write_policy: the rungs read are deleted and the new ones inserted.     *)
WritePolicy(w) ==
    /\ Free(w)
    /\ \E r \in Articles, ladder \in Ladders :
          /\ book.rules[r].written < MaxWrites
          /\ Ask(w, [op |-> "policy", rule |-> r, ladder |-> ladder,
                     written |-> book.rules[r].written])
    /\ UNCHANGED book

(* When another ladder came in between, the rungs read are gone already:   *)
(* beside a rung of the other ladder the unique (rule, step_order) refuses *)
(* one of this; an empty ladder deletes nothing more.                      *)
PolicyWritten(w) ==
    /\ Serving(w, "policy")
    /\ LET r == req[w].rule
           now == book.rules[r]
           replaced == now.written # req[w].written
           lands == ~replaced \/ (now.ladder = <<>> /\ req[w].ladder # <<>>)
       IN book' = IF lands
             THEN [book EXCEPT !.rules[r].ladder = req[w].ladder,
                               !.rules[r].written = @ + 1]
             ELSE book
    /\ Answer(w)

(* write_settings.                                                         *)
WriteSettings(w) ==
    /\ Free(w)
    /\ \E set \in BOOLEAN : book' = [book EXCEPT !.fee = set]
    /\ UNCHANGED req

(* Every request that stamps a row takes the next instant.                 *)
Stamp == book' = [book EXCEPT !.instant = @ + 1]

(* _effective_lot_id of a promoted occurrence and the lot of the body.     *)
EffectiveLots(o, sent) ==
    IF sent = NoLot THEN {LotReported[o]} \ {NoLot}
    ELSE IF LotReported[o] \in {NoLot, sent} THEN {sent} ELSE {}

(* create_infraction and promote_occurrence, up to the commit; the entry   *)
(* on the timeline of the occurrence changes no status.                    *)
Register(w) ==
    /\ Free(w) /\ book.instant < MaxInstant
    /\ \E r \in Articles, who \in Offenders, on \in Days :
          /\ book.rules[r].active
          /\ \/ Ask(w, [op |-> "register", row |-> [rule |-> r, who |-> who,
                        lot |-> HomeOf[who], on |-> on, at |-> book.instant, by |-> w]])
             \/ \E o \in Reports, sent \in Range(HomeOf) \cup {NoLot} :
                   /\ HomeOf[who] \in EffectiveLots(o, sent)
                   /\ Ask(w, [op |-> "register", row |-> [rule |-> r, who |-> who,
                        lot |-> HomeOf[who], on |-> on, at |-> book.instant, by |-> w]])
    /\ Stamp

CaseRegistered(w) ==
    /\ Serving(w, "register")
    /\ \E c \in Cases \ Open : book' = [book EXCEPT !.cases[c] = req[w].row]
    /\ Answer(w)
-----------------------------------------------------------------------------
(* A mistake: a close cuts the processes that were there before it too.    *)
ClosesOfEver(c) ==
    {x \in book.closes : x.rule = book.cases[c].rule /\ x.who = book.cases[c].who}

(* _cycle_closed_at.                                                       *)
ClosesOf(c) ==
    {x \in book.closes : /\ x.rule = book.cases[c].rule
                         /\ x.who = book.cases[c].who
                         /\ x.at <= book.cases[c].at}

(* _recidivism_count: the lot is absent from it.                           *)
Recidivism(c) ==
    LET me == book.cases[c]
        start == me.on - book.rules[me.rule].window
    IN Cardinality({d \in Open \ {c} :
          LET other == book.cases[d]
          IN /\ other.rule = me.rule /\ other.who = me.who
             /\ start <= other.on /\ other.on < me.on
             /\ \A x \in ClosesOf(c) : other.at > x.at})

(* A mistake: stages that named their action are left out.                 *)
AppliedFollowed(c) == Cardinality({i \in DOMAIN book.stages[c] : book.stages[c][i].followed})
Applied(c) == Len(book.stages[c])

(* suggest_next_step.                                                      *)
LadderIndex(c) == Recidivism(c) + Applied(c) + 1
Ladder(c) == book.rules[book.cases[c].rule].ladder
SuggestedOrder(c) ==
    IF Len(Ladder(c)) < LadderIndex(c) THEN Len(Ladder(c)) ELSE LadderIndex(c)
Suggested(c) == IF Ladder(c) = <<>> THEN NoRung ELSE Ladder(c)[SuggestedOrder(c)]

(* _step_for_explicit_action.                                              *)
LastRungOf(c, action) ==
    LET of == {i \in DOMAIN Ladder(c) : Ladder(c)[i].action = action}
    IN IF of = {} THEN NoRung ELSE Ladder(c)[Max(of)]

RungFor(c, action) ==
    IF action = Suggested(c).action THEN Suggested(c) ELSE LastRungOf(c, action)

(* _price answers CONDO_FEE_NOT_SET.                                       *)
Unpriced(rung) == rung.action = "MULTA" /\ rung.multiple /\ ~book.fee

DueOn(rung) == IF rung.action = "NOTIFICACAO" THEN book.day + rung.days ELSE NoDue

(* add_stage, up to its commit: the suggestion (NO_POLICY refuses it) or   *)
(* an action named, with the fine or the deadline typed or the rung's.     *)
AddStage(w) ==
    /\ Free(w) /\ book.instant < MaxInstant
    /\ \E c \in Open, followed \in BOOLEAN, action \in Actions, typed \in BOOLEAN :
          /\ followed => action = Suggested(c).action
          /\ ~(action = "MULTA" /\ ~typed /\ Unpriced(RungFor(c, action)))
          /\ Ask(w, [op |-> "stage", case |-> c, row |->
                [action |-> action, on |-> book.day, at |-> book.instant,
                 due |-> IF typed /\ action = "NOTIFICACAO" THEN book.day + 1
                         ELSE DueOn(RungFor(c, action)),
                 rung |-> IF followed THEN SuggestedOrder(c) ELSE 0,
                 followed |-> followed, seen |-> Applied(c), by |-> w]])
    /\ Stamp

StageAdded(w) ==
    /\ Serving(w, "stage")
    /\ book' = [book EXCEPT !.stages[req[w].case] = Append(@, req[w].row)]
    /\ Answer(w)

(* The NOTIFICACAO a defense answers: the last by (applied_on, created_at).*)
Later(a, b) == a.on < b.on \/ (a.on = b.on /\ a.at < b.at)
Notifications(c) ==
    {s \in Range(book.stages[c]) : s.action = "NOTIFICACAO"}
LastNotification(c) ==
    {s \in Notifications(c) : \A t \in Notifications(c) \ {s} : Later(t, s)}

(* add_contestation, up to its commit, and the commit.                     *)
Contest(w) ==
    /\ Free(w)
    /\ \E u \in Neighbours, c \in Open :
          /\ book.cases[c].lot \in UnitsOf[u]
          /\ \E s \in LastNotification(c) :
                /\ s.due # NoDue /\ book.day <= s.due
                /\ Ask(w, [op |-> "plea", row |-> [case |-> c, at |-> s.at]])
    /\ UNCHANGED book

Contested(w) ==
    /\ Serving(w, "plea")
    /\ book' = [book EXCEPT !.pleas = @ \cup {req[w].row}]
    /\ Answer(w)

(* close_cycle, up to its commit, and the commit: it deletes nothing.      *)
CloseCycle(w) ==
    /\ Free(w) /\ book.instant < MaxInstant
    /\ \E r \in Articles, who \in Offenders :
          Ask(w, [op |-> "close", row |->
             [rule |-> r, who |-> who, at |-> book.instant, by |-> w]])
    /\ Stamp

CycleClosed(w) ==
    /\ Serving(w, "close")
    /\ book' = [book EXCEPT !.closes = @ \cup {req[w].row}]
    /\ Answer(w)

NextDay ==
    book.day < MaxDay /\ book' = [book EXCEPT !.day = @ + 1] /\ UNCHANGED req

InfractionsCrash(w) == Dies(w) /\ UNCHANGED book

InfractionsNext ==
    \/ NextDay
    \/ \E w \in Workers :
          \/ CreateRule(w) \/ UpdateRule(w) \/ DeactivateRule(w)
          \/ WritePolicy(w) \/ PolicyWritten(w) \/ WriteSettings(w)
          \/ Register(w) \/ CaseRegistered(w)
          \/ AddStage(w) \/ StageAdded(w)
          \/ Contest(w) \/ Contested(w)
          \/ CloseCycle(w) \/ CycleClosed(w) \/ InfractionsCrash(w)

InfractionsSpec ==
    InfractionsInit /\ NoRequest /\ [][InfractionsNext]_<<book, req>>
-----------------------------------------------------------------------------
(* One process never answers one suggestion twice: two stages decided on   *)
(* the same history were decided by two requests at a time.                *)
SameSuggestionOnlyByRace ==
    \A c \in Open : \A i, j \in DOMAIN book.stages[c] :
        i < j /\ book.stages[c][i].seen = book.stages[c][j].seen
            => book.stages[c][i].by # book.stages[c][j].by

(* "A cutoff going forward rather than a retroactive rewrite": a process   *)
(* is never offered an earlier place on the ladder than it was, unless the *)
(* window of its rule changes or the close of a cycle overlapped its       *)
(* registration or that of the cases it counted.                           *)
OfferedLessOnlyByRace ==
    [][\A c \in Open :
         \/ LadderIndex(c)' >= LadderIndex(c)
         \/ book'.rules[book.cases[c].rule].window # book.rules[book.cases[c].rule].window
         \/ \E x \in book'.closes \ book.closes : x.by # book.cases[c].by]_book
=============================================================================
