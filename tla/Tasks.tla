------------------------------- MODULE Tasks --------------------------------
(* Tasks shown to some roles (task_service, endpoints/tasks.py), beside    *)
(* the roles they name.  Of a task only who may see and edit it is told    *)
(* apart; titles, comments and the history rows decide nothing.  Bounds:   *)
(* TaskIds, and what Authority bounds.                                     *)
EXTENDS Authority

CONSTANTS TaskIds, Unassigned

(* Task with its TaskVisibleToLink rows: no target shows it to everyone.   *)
VARIABLE tasks

NoTask == [targets |-> {}, assignee |-> Unassigned, stage |-> "none"]
NoTasks == tasks = [t \in TaskIds |-> NoTask]

(* Nobody but the holders of the roles is at work.                         *)
TasksInit ==
    /\ NoTasks
    /\ person = [p \in Accounts |-> [on |-> TRUE, super |-> FALSE, admin |-> FALSE]]
    /\ roles = RoleIds /\ grants \in [RoleIds -> Grants]
    /\ holds \in SUBSET (Accounts \X RoleIds)
    /\ writes = 0

Live(t) == tasks[t].stage = "live"
Scoped(a) == ~May(a, "tasks:read_all")

(* create_task: ids of no role are dropped, and a scoped author who names  *)
(* none targets the roles held.                                            *)
CreateTask(w) ==
    /\ Free(w)
    /\ \E a \in Accounts, t \in TaskIds, asked \in SUBSET RoleIds,
         assignee \in Accounts \cup {Unassigned} :
          /\ tasks[t].stage = "none"
          /\ May(a, "tasks:create")
          /\ tasks' = [tasks EXCEPT ![t] =
                [targets |-> IF asked = {} /\ Scoped(a) THEN RolesOf(a)
                             ELSE asked \cap roles,
                 assignee |-> assignee, stage |-> "live"]]
    /\ Writes(w)
    /\ UNCHANGED <<person, roles, grants, holds>>

(* assert_manager_can_see_task and assert_can_edit_task.                   *)
MaySee(a, t) ==
    /\ May(a, "tasks:read")
    /\ Scoped(a) => \/ tasks[t].targets = {}
                    \/ tasks[t].targets \cap RolesOf(a) # {}
MayEdit(a, t) ==
    /\ May(a, "tasks:update")
    /\ May(a, "tasks:update_any") \/ tasks[t].assignee \in {Unassigned, a}

(* update_task of the targets or of the assignee, up to its commit.  A     *)
(* scoped author names roles held only.                                    *)
UpdateTask(w) ==
    /\ Free(w)
    /\ \E a \in Accounts, t \in TaskIds, asked \in SUBSET RoleIds,
         assignee \in Accounts \cup {Unassigned} :
          LET now == tasks[t].targets  found == asked \cap roles
          IN /\ Live(t) /\ MaySee(a, t) /\ MayEdit(a, t)
             /\ asked = now \/ (Scoped(a) => asked \subseteq RolesOf(a))
             /\ (found # now) # (assignee # tasks[t].assignee)
             /\ Ask(w, [op |-> "task", task |-> t, open |-> found = {},
                        add |-> found \ now, drop |-> now \ found,
                        was |-> tasks[t].assignee, to |-> assignee, fresh |-> TRUE])
    /\ UNCHANGED <<directory, tasks>>

(* The commit of the links, as differences.                                *)
TargetsFit(t, add, drop) ==
    /\ add \subseteq roles \ tasks[t].targets
    /\ drop \subseteq tasks[t].targets

TaskUpdated(w) ==
    /\ Serving(w, "task")
    /\ LET r == req[w] IN
       IF ~TargetsFit(r.task, r.add, r.drop)
       THEN Answer(w) /\ UNCHANGED <<writes, tasks>>
       ELSE /\ tasks' = [tasks EXCEPT
                  ![r.task].targets = (@ \ r.drop) \cup r.add,
                  ![r.task].assignee = Column(r.to, r.was, @)]
            /\ Writes(w)
    /\ UNCHANGED <<person, roles, grants, holds>>

(* delete_task: the row and its links stay.                                *)
DeleteTask(w) ==
    /\ Free(w)
    /\ \E a \in Accounts, t \in TaskIds :
          /\ Live(t) /\ May(a, "tasks:delete")
          /\ tasks' = [tasks EXCEPT ![t].stage = "deleted"]
    /\ Writes(w)
    /\ UNCHANGED <<person, roles, grants, holds>>

(* A mistake: the links of tasks go with the role.                         *)
DropRoleAndLinks(w) ==
    /\ DeleteRole(w, {})
    /\ tasks' = [t \in TaskIds |-> [tasks[t] EXCEPT !.targets = @ \cap roles']]

(* delete_role: the foreign key of TaskVisibleToLink keeps a role that a   *)
(* task names.                                                             *)
DropRole(w) ==
    /\ DeleteRole(w, UNION {tasks[t].targets : t \in TaskIds})
    /\ UNCHANGED tasks

TasksCrash(w) == Dies(w) /\ UNCHANGED <<directory, tasks>>

(* The tasks, with the creation and deletion of roles.                     *)
TasksNext == \E w \in Workers :
    \/ CreateTask(w) \/ UpdateTask(w) \/ TaskUpdated(w) \/ DeleteTask(w)
    \/ CreateRole(w) /\ UNCHANGED tasks
    \/ DropRole(w) \/ TasksCrash(w)

TasksSpec == TasksInit /\ NoRequest /\ [][TasksNext]_<<directory, tasks, req>>
-----------------------------------------------------------------------------
(* A task shown to some roles is never shown to everyone but by an edit of *)
(* it that names no existing role, or that another commit overtook: no     *)
(* deletion of a role opens it.                                            *)
OpenedOnlyByEdit ==
    [][\A t \in TaskIds :
          tasks[t].targets # {} /\ tasks'[t].targets = {} =>
             \E w \in Workers :
                /\ Serving(w, "task") /\ Free(w)' /\ req[w].task = t
                /\ req[w].open \/ ~req[w].fresh]_tasks
=============================================================================
