---------------------------- MODULE Occurrences -----------------------------
(* Occurrences and their protocol numbers (occurrence_service,             *)
(* protocol_generator), within one year.  An occurrence is named by its    *)
(* number, unique in the table.  Bounds: MaxNumber; MaxEntries of all      *)
(* timelines.  Category, title, photos and anonymity are not told apart,   *)
(* nor the entries that only managers are shown: a timeline is as they     *)
(* are served it.                                                          *)
EXTENDS Requests, Integers, Sequences, FiniteSets, FiniteSetsExt

CONSTANTS
    Reporters,          \* users, without occurrences:manage_all
    Managers,           \* users with it
    Assignees,          \* users an occurrence is given to
    MaxNumber, MaxEntries

VARIABLE tickets        \* Occurrence: number -> row; its timeline is in it

(* To this code UNDER_REVIEW is like IN_PROGRESS, REJECTED like RESOLVED.  *)
Statuses == {"OPEN", "IN_PROGRESS", "RESOLVED"}
Nobody == {}
NoStatus == "none"

(* What a request is to note, with an auxiliary: how many entries it       *)
(* found.  An entry of a timeline adds its place in the order of commits.  *)
Line(from, to, seen) == [from |-> from, to |-> to, seen |-> seen]
Numbered(e, n) == [from |-> e.from, to |-> e.to, seen |-> e.seen, id |-> n]

OccurrencesInit == tickets = <<>>

Filed == DOMAIN tickets

Written == Cardinality(UNION {{n} \X DOMAIN tickets[n].timeline : n \in Filed})

(* generate_occurrence_protocol: one more than the highest.                *)
NextNumber == IF Filed = {} THEN 1 ELSE Max(Filed) + 1

(* create_occurrence, up to its flush.                                     *)
Report(w) ==
    /\ Free(w) /\ NextNumber <= MaxNumber /\ Written < MaxEntries
    /\ \E u \in Reporters, public \in BOOLEAN :
          Ask(w, [op |-> "report", number |-> NextNumber, reporter |-> u,
                  public |-> public])
    /\ UNCHANGED tickets

(* ix_occurrence_tenant_protocol refuses a number taken meanwhile.         *)
OccurrenceFiled(w) ==
    /\ Serving(w, "report")
    /\ \/ /\ req[w].number \notin Filed
          /\ tickets' = [n \in Filed \cup {req[w].number} |->
                IF n \in Filed THEN tickets[n]
                ELSE [status |-> "OPEN", resolved |-> FALSE, assigned |-> Nobody,
                      reporter |-> req[w].reporter, public |-> req[w].public,
                      timeline |-> <<Numbered(Line(NoStatus, "OPEN", 0), 1)>>]]
       \/ req[w].number \in Filed /\ UNCHANGED tickets
    /\ Answer(w)

(* _check_user_access; the holders of occurrences:read_assigned are all.   *)
MayRead(u, n) ==
    \/ u \in Managers \/ tickets[n].reporter = u \/ tickets[n].public
    \/ u \in tickets[n].assigned

MayUpdate(u, n) == u \in Managers \/ u \in tickets[n].assigned

(* A mistake: a status that is there already is a transition too.          *)
ChangeUntold(n, status, assign) ==
    [op |-> "update", number |-> n, assign |-> Column(assign, tickets[n].assigned, Nobody),
     entry |-> Line(IF status = NoStatus THEN status ELSE tickets[n].status, status,
                    Len(tickets[n].timeline))]

(* The columns a request writes are those whose value it changes; a status *)
(* already there changes nothing and leaves no transition.                 *)
Change(n, status, assign) ==
    [op |-> "update", number |-> n, assign |-> Column(assign, tickets[n].assigned, Nobody),
     entry |-> IF status \in {NoStatus, tickets[n].status}
               THEN Line(NoStatus, NoStatus, Len(tickets[n].timeline))
               ELSE Line(tickets[n].status, status, Len(tickets[n].timeline))]

(* update_occurrence_status, up to its commit.                             *)
UpdateStatus(w) ==
    /\ Free(w)
    /\ \E n \in Filed, u \in Reporters \cup Managers, status \in Statuses \cup {NoStatus},
          assign \in {Nobody} \cup {{v} : v \in Assignees} :
          /\ MayUpdate(u, n) /\ Written < MaxEntries
          /\ Ask(w, Change(n, status, assign))
    /\ UNCHANGED tickets

(* add_timeline_note, up to its commit: who may read it may move it.       *)
AddNote(w) ==
    /\ Free(w)
    /\ \E n \in Filed, u \in Reporters \cup Managers, status \in Statuses \cup {NoStatus} :
          /\ MayRead(u, n) /\ Written < MaxEntries
          /\ Ask(w, Change(n, status, Nobody))
    /\ UNCHANGED tickets

(* A timeline is served by created_at, which an entry gets from the clock  *)
(* between the read of its request and its commit: it comes after all that *)
(* the request found, anywhere among those committed since.                *)
Inserted(line, k, e) ==
    [i \in 1 .. Len(line) + 1 |->
        IF i < k THEN line[i] ELSE IF i = k THEN Numbered(e, Len(line) + 1) ELSE line[i - 1]]
Places(line, e) ==
    {k \in 1 .. Len(line) + 1 : \A i \in DOMAIN line : line[i].id <= e.seen => i < k}

(* The commit of either: the entry and the columns together.               *)
Updated(w) ==
    /\ Serving(w, "update")
    /\ LET n == req[w].number
           to == req[w].entry.to
           line == tickets[n].timeline
       IN \E k \in Places(line, req[w].entry) : tickets' = [tickets EXCEPT
             ![n].status = IF to = NoStatus THEN @ ELSE to,
             ![n].resolved = @ \/ to = "RESOLVED",
             ![n].assigned = IF req[w].assign = Nobody THEN @ ELSE req[w].assign,
             ![n].timeline = Inserted(line, k, req[w].entry)]
    /\ Answer(w)

OccurrencesCrash(w) == Dies(w) /\ UNCHANGED tickets

OccurrencesNext == \E w \in Workers :
    \/ Report(w) \/ OccurrenceFiled(w) \/ UpdateStatus(w) \/ AddNote(w) \/ Updated(w)
    \/ OccurrencesCrash(w)

OccurrencesSpec == OccurrencesInit /\ NoRequest /\ [][OccurrencesNext]_<<tickets, req>>
-----------------------------------------------------------------------------
(* The entries of a timeline that tell a transition.                       *)
Told(line) == {i \in DOMAIN line : line[i].to # NoStatus}

(* Each was read before the other was committed.                           *)
Overlapped(d, e) == d.seen < e.id /\ e.seen < d.id

(* The timeline tells the status of an occurrence, but for requests that   *)
(* overlapped: a transition leads to the status, and those listed after it *)
(* overlapped it; each starts where the one listed before it ended, or     *)
(* another overlapped one of the two; and none leads where it started.     *)
TimelineTellsStatus ==
    \A n \in Filed :
       LET line == tickets[n].timeline
           Raced(i) == \E j \in Told(line) : j # i /\ Overlapped(line[i], line[j])
       IN /\ \E c \in Told(line) :
                /\ line[c].to = tickets[n].status
                /\ \A i \in Told(line) : c < i => Overlapped(line[i], line[c])
          /\ \A h, i \in Told(line) :
                h < i /\ (\A j \in Told(line) : j <= h \/ i <= j) =>
                   /\ line[i].from # line[i].to
                   /\ line[i].from = line[h].to \/ Raced(h) \/ Raced(i)
=============================================================================
