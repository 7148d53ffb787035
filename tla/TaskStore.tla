------------------------------ MODULE TaskStore ------------------------------
(***************************************************************************)
(* The tasks table with its task_lineage rows, and one operator per        *)
(* statement that writes them (internal/store/task_store.go and the        *)
(* inserts of backlog_candidate_store.go and backlog_item_store.go).       *)
(*                                                                         *)
(* Whoever creates a task with a lineage row does so in one transaction,   *)
(* and the row is deleted with its task, so the two are one record here.   *)
(* The order of Tasks is the order of creation.                            *)
(***************************************************************************)
EXTENDS Integers, FiniteSets

CONSTANTS
  None,
  Tasks,          \* bound on the tasks ever created
  Projects, Titles, Requirements, Candidates, Items,
  Roles,          \* the role ids in use, in the catalog or not
  TaskEdits       \* what users do to tasks by hand

ASSUME TaskAssumption ==
  /\ Tasks \subseteq Nat
  /\ TaskEdits \subseteq {"create", "rename", "close", "reopen", "delete"}
  /\ None \notin Projects \cup Titles \cup Requirements \cup Candidates
                 \cup Items \cup Roles \cup Tasks

VARIABLES
  task,     \* the tasks table
  catalog   \* the role ids this build of the server knows

store == <<task, catalog>>

TaskRow ==
  [life : {"absent", "live", "deleted"},
   project : Projects \cup {None},
   title : Titles \cup {None},
   open : BOOLEAN,                  \* status todo or in_progress
   role : Roles \cup {None},        \* source role_dispatch:<role>
   dispatch : {"none", "queued", "running", "completed", "failed"},
   result : {"null", "output", "error"},
   kind : {"manual", "applied_candidate", "backlog_item"},
   cand : Candidates \cup {None},
   item : Items \cup {None},
   req : Requirements \cup {None}]

Blank == [life |-> "absent", project |-> None, title |-> None, open |-> FALSE,
          role |-> None, dispatch |-> "none", result |-> "null",
          kind |-> "manual", cand |-> None, item |-> None, req |-> None]

TaskTypeOK == task \in [Tasks -> TaskRow] /\ catalog \subseteq Roles

TaskInit == task = [t \in Tasks |-> Blank] /\ catalog = Roles

Live(t) == task[t].life = "live"

\* The row the next INSERT creates.
Fresh(t) ==
  /\ task[t].life = "absent"
  /\ \A s \in Tasks : s < t => task[s].life # "absent"

\* INSERT INTO tasks, and INSERT INTO task_lineage when it has an origin.
Insert(t, row) ==
  /\ Fresh(t)
  /\ task' = [task EXCEPT ![t] = row]

-----------------------------------------------------------------------------
(* Tasks edited by hand                                                    *)

\* A task created directly never enters the dispatch queue, whatever its
\* source says.
CreateTask(t, p, title, role) ==
  /\ "create" \in TaskEdits
  /\ \E open \in BOOLEAN :
       Insert(t, [Blank EXCEPT !.life = "live", !.project = p, !.title = title,
                               !.open = open, !.role = role])

\* Update and BatchUpdate: any status, any title, nothing else of interest.
UpdateTask(t) ==
  /\ Live(t)
  /\ \/ /\ "rename" \in TaskEdits
        /\ \E title \in Titles : task' = [task EXCEPT ![t].title = title]
     \/ /\ "close" \in TaskEdits
        /\ task' = [task EXCEPT ![t].open = FALSE]
     \/ /\ "reopen" \in TaskEdits
        /\ task' = [task EXCEPT ![t].open = TRUE]

DeleteTask(t) ==
  /\ "delete" \in TaskEdits
  /\ Live(t)
  /\ task' = [task EXCEPT ![t] = [Blank EXCEPT !.life = "deleted"]]

-----------------------------------------------------------------------------
(* The dispatch columns                                                    *)

\* The oldest queued task in the projects ps.
OldestQueued(t, ps) ==
  LET Eligible(s) == Live(s) /\ task[s].dispatch = "queued" /\ task[s].project \in ps
  IN  Eligible(t) /\ \A s \in Tasks : Eligible(s) => t <= s

MarkRunning(t) == task' = [task EXCEPT ![t].dispatch = "running"]

\* One UPDATE that looks at the project but not at the dispatch status.  An
\* empty result is written as NULL.
UpdateDispatchStatus(t, ps, status, result) ==
  IF Live(t) /\ task[t].project \in ps
  THEN task' = [task EXCEPT ![t].dispatch = status, ![t].result = result]
  ELSE UNCHANGED task

\* Mutant: a completed task may be sent again.
RequeueDispatchTask_Completed(t) ==
  /\ Live(t)
  /\ task[t].dispatch \in {"completed", "failed"}
  /\ task[t].role # None
  /\ task' = [task EXCEPT ![t].dispatch = "queued", ![t].result = "null"]

\* Mutant: the old result stays.
RequeueDispatchTask_KeepsResult(t) ==
  /\ Live(t)
  /\ task[t].dispatch = "failed"
  /\ task[t].role # None
  /\ task' = [task EXCEPT ![t].dispatch = "queued"]

RequeueDispatchTask(t) ==
  /\ Live(t)
  /\ task[t].dispatch = "failed"
  /\ task[t].role # None
  /\ task' = [task EXCEPT ![t].dispatch = "queued", ![t].result = "null"]
=============================================================================
