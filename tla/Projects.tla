------------------------------ MODULE Projects ------------------------------
(* A construction project, its milestones and the updates that add to its  *)
(* executed budget (project_service).  Its cover photo is StoredFiles'.    *)
(* Bounds: Milestones (row ids), MaxBudget, MaxPosts.                      *)
EXTENDS Naturals, Sequences, Requests

CONSTANTS Milestones, Costs, MaxBudget, MaxPosts

ASSUME ProjectsAssumption == MaxBudget \in Nat /\ Costs \subseteq Nat

VARIABLES
    project,    \* ConstructionProject.executed_budget, or NoProject
    posts,      \* auxiliary: what wrote it, in the order of the commits
    milestones  \* ProjectMilestone: id -> row; NoMilestone before, Dropped after

works == <<project, posts, milestones>>

NoProject == MaxBudget + 1
NoMilestone == [status |-> "none", dated |-> FALSE]
Dropped == [status |-> "deleted", dated |-> FALSE]
MilestoneStatus == {"NEXT_STEPS", "IN_PROGRESS", "DONE"}
Milestone == [status : MilestoneStatus, dated : BOOLEAN]

Planned == {m \in Milestones : milestones[m] \notin {NoMilestone, Dropped}}
Underway == project # NoProject

(* create_project.                                                         *)
ProjectsInit ==
    /\ project \in 0 .. MaxBudget
    /\ posts = <<>>
    /\ milestones = [m \in Milestones |-> NoMilestone]

(* update_project with an executed_budget, up to its commit.               *)
SetBudget(w) ==
    /\ Free(w) /\ Underway /\ Len(posts) < MaxPosts
    /\ \E b \in 0 .. MaxBudget :
          b # project /\ Ask(w, [op |-> "budget", prev |-> project, new |-> b])
    /\ UNCHANGED works

(* A mistake: the cost is added to the budget the project started with.    *)
PostOnFirst(w) ==
    /\ Free(w) /\ Underway /\ Len(posts) < MaxPosts
    /\ LET base == IF posts = <<>> THEN project ELSE posts[1].prev IN
          \E c \in Costs : base + c <= MaxBudget
             /\ Ask(w, [op |-> "budget", prev |-> base, new |-> base + c])
    /\ UNCHANGED works

(* create_project_update, up to its commit: a positive cost is added to    *)
(* the budget that was read, any other cost is only recorded.              *)
PostUpdate(w) ==
    /\ Free(w) /\ Underway /\ Len(posts) < MaxPosts
    /\ \E c \in Costs : project + c <= MaxBudget
          /\ Ask(w, [op |-> "budget", prev |-> project, new |-> project + c])
    /\ UNCHANGED works

BudgetWritten(w) ==
    /\ Serving(w, "budget") /\ Underway /\ Len(posts) < MaxPosts
    /\ project' = req[w].new
    /\ posts' = Append(posts, [prev |-> req[w].prev, new |-> req[w].new, by |-> w])
    /\ Answer(w)
    /\ UNCHANGED milestones

(* delete_project: its milestones and updates go with it.                  *)
DeleteWorks(w) ==
    /\ Free(w) /\ Underway
    /\ project' = NoProject
    /\ milestones' = [m \in Milestones |-> Dropped]
    /\ UNCHANGED <<posts, req>>

(* create_milestone: DONE without a completion date is dated today.        *)
CreateMilestone(w) ==
    /\ Free(w) /\ Underway
    /\ \E m \in Milestones, r \in Milestone :
       /\ milestones[m] = NoMilestone
       /\ milestones' = [milestones EXCEPT ![m] = [r EXCEPT !.dated = @ \/ r.status = "DONE"]]
    /\ UNCHANGED <<project, posts, req>>

(* update_milestone: the columns it changes in the row it read; becoming   *)
(* DONE without a date dates it, and no date is ever cleared.              *)
UpdateMilestone(w) ==
    /\ Free(w)
    /\ \E m \in Planned, s \in MilestoneStatus, dated \in BOOLEAN :
          LET old == milestones[m] IN Ask(w,
             [op |-> "milestone", milestone |-> m, status |-> s,
              write |-> s # old.status,
              date |-> dated \/ (s = "DONE" /\ old.status # "DONE" /\ ~old.dated)])
    /\ UNCHANGED works

MilestoneUpdated(w) ==
    /\ Serving(w, "milestone") /\ req[w].milestone \in Planned
    /\ milestones' = [milestones EXCEPT ![req[w].milestone] =
          [status |-> IF req[w].write THEN req[w].status ELSE @.status,
           dated |-> @.dated \/ req[w].date]]
    /\ Answer(w)
    /\ UNCHANGED <<project, posts>>

DeleteMilestone(w) ==
    /\ Free(w)
    /\ \E m \in Planned : milestones' = [milestones EXCEPT ![m] = Dropped]
    /\ UNCHANGED <<project, posts, req>>

ProjectsCrash(w) == Dies(w) /\ UNCHANGED works

ProjectsNext == \E w \in Workers :
    \/ SetBudget(w) \/ PostUpdate(w) \/ BudgetWritten(w) \/ DeleteWorks(w)
    \/ CreateMilestone(w) \/ UpdateMilestone(w) \/ MilestoneUpdated(w)
    \/ DeleteMilestone(w) \/ ProjectsCrash(w)

ProjectsSpec == ProjectsInit /\ NoRequest /\ [][ProjectsNext]_<<works, req>>
-----------------------------------------------------------------------------
(* Each cost is added to what the write before it left, unless another     *)
(* worker wrote that: an update is lost only between two workers.          *)
BudgetLostOnlyByRace ==
    \A i \in 1 .. Len(posts) - 1 :
        posts[i + 1].prev # posts[i].new => posts[i].by # posts[i + 1].by
=============================================================================
