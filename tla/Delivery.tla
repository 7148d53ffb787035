------------------------------- MODULE Delivery -------------------------------
(***************************************************************************)
(* From reviewed candidates and backlog items to tasks, and from tasks to  *)
(* the connectors that execute them: CandidateReview, BacklogItems and     *)
(* TaskDispatch on one TaskStore, with users who edit, requeue and delete  *)
(* tasks at the same time.                                                 *)
(***************************************************************************)
EXTENDS TaskDispatch, CandidateReview, BacklogItems

CONSTANTS
  Deploys,            \* whether a new build may drop roles from the catalog
  RequirementEdits    \* what users do to requirements: "status", "delete"

ASSUME DeliveryAssumption ==
  /\ Deploys \in BOOLEAN
  /\ RequirementEdits \subseteq {"status", "delete"}

vars == <<store, taskDispatchVars, reviewVars, itemVars>>

TypeOK == TaskTypeOK /\ TaskDispatchTypeOK /\ ReviewTypeOK /\ ItemTypeOK

Init == TaskInit /\ TaskDispatchInit /\ ReviewInit /\ ItemInit

DispatchAction ==
  \/ \E c \in Connectors : TaskClaimStep(c) \/ TaskDaemonStep(c)
  \/ \E h \in Posts : ResultStep(h)
  \/ \E t \in Tasks : Requeue(t)

RequirementAction(q) ==
  \/ /\ "status" \in RequirementEdits
     /\ \E s \in {"draft", "planned", "archived"} : SetRequirementStatus(q, s)
     /\ UNCHANGED itemVars
  \/ /\ "delete" \in RequirementEdits
     /\ DeleteRequirementCheck(q)
     /\ UNCHANGED itemVars
  \/ /\ DeleteRequirement(q)
     /\ Detach({}, {c \in Candidates : ReqOf[c] = q})
     /\ UNCHANGED itemEdit

ReviewAction ==
  \/ /\ \/ \E e \in Edits : EditWrite(e)
        \/ \E e \in Edits, c \in Candidates : EditRead(e, c)
        \/ \E h \in Applies :
             \/ ApplyStep(h) \/ ApplyAbort(h)
             \/ \E c \in Candidates, role \in Roles \cup {None} : ApplyBegin(h, c, role)
     /\ UNCHANGED itemVars
  \/ \E q \in Requirements : RequirementAction(q)

\* A candidate that a new item names exists, in the item's project.
Originates(p, c) ==
  c # None => cand[c].status # "deleted" /\ ProjectOf[ReqOf[c]] = p

ItemAction ==
  \/ \E i \in Items :
       \/ \E p \in Projects, title \in Titles, c \in Candidates \cup {None},
             status \in UserStatus :
            Originates(p, c) /\ CreateItem(i, p, title, c, status)
       \/ \E e \in ItemEdits, status \in UserStatus \cup {"committed"} :
            ItemEditRead(e, i, status)
       \/ \E t \in Tasks : CommitToTask(i, t)
  \/ \E e \in ItemEdits : ItemEditWrite(e)

TaskAction ==
  \E t \in Tasks :
    /\ \/ /\ \E p \in Projects, title \in Titles, role \in Roles \cup {None} :
               CreateTask(t, p, title, role)
          /\ UNCHANGED itemVars
       \/ UpdateTask(t) /\ UNCHANGED itemVars
       \/ DeleteTask(t) /\ Detach({t}, {}) /\ UNCHANGED itemEdit
    /\ UNCHANGED catalog

\* The server restarts with a build whose catalog lacks role r.  Every request
\* in progress dies; the tables and the daemons survive.
Deploy(r) ==
  /\ Deploys
  /\ r \in catalog
  /\ catalog' = catalog \ {r}
  /\ drained' = [c \in Connectors |-> -1]
  /\ post' = [h \in Posts |-> NoPost]
  /\ edit' = [e \in Edits |-> NoEdit]
  /\ apply' = [h \in Applies |-> NoApply]
  /\ deleting' = {}
  /\ itemEdit' = [e \in ItemEdits |-> NoItemEdit]
  /\ UNCHANGED <<task, work, cand, audit, req, item>>

Next ==
  \/ DispatchAction /\ UNCHANGED <<reviewVars, itemVars>>
  \/ ReviewAction /\ UNCHANGED taskDispatchVars
  \/ ItemAction /\ UNCHANGED <<taskDispatchVars, reviewVars>>
  \/ TaskAction /\ UNCHANGED <<taskDispatchVars, reviewVars>>
  \/ \E r \in Roles : Deploy(r)

Safety == Init /\ [][Next]_vars

-----------------------------------------------------------------------------
(* Invariants                                                              *)

Busy(t) == (\E c \in Connectors : work[c] = t) \/ (\E h \in Posts : post[h].t = t)

\* Nothing in the tables says who is running a task, and results are written
\* without a check.  Yet a task is with at most one daemon or one result
\* request at a time, and it is running all that while: a claim is the only
\* way in, one result the only way out, and only a failed task is requeued.
SingleExecutor ==
  \A t \in Tasks :
    /\ \A b, c \in Connectors : work[b] = t /\ work[c] = t => b = c
    /\ \A g, h \in Posts : post[g].t = t /\ post[h].t = t => g = h
    /\ \A c \in Connectors, h \in Posts : ~ (work[c] = t /\ post[h].t = t)
    /\ Live(t) /\ Busy(t) => task[t].dispatch = "running"

\* docs/data-model.md: execution_result is null until completed or failed; a
\* requeued task does not show the result of its last attempt.  (That a settled
\* task has one rests on the daemon: the server stores none for a success that
\* comes without.)
ResultOnlyWhenSettled ==
  \A t \in Tasks :
    task[t].result # "null" <=> task[t].dispatch \in {"completed", "failed"}

FromApply(t) == Live(t) /\ task[t].kind = "applied_candidate"

\* "Each request materializes at most one task", and applying again returns
\* it: however PATCH and apply requests interleave, even when a stale PATCH
\* takes back the applied status, a candidate has one applied task.
AppliedOnce ==
  \A s, t \in Tasks :
    /\ FromApply(s)
    /\ FromApply(t)
    /\ task[s].cand = task[t].cand
    /\ task[s].cand # None
    => s = t

\* SQL folds the letters of this title as Go does.
FoldsAlike(title) == SqlKey[title] = GoKey[title]

\* While a task from an apply is open, no apply creates another one with the
\* same normalised title in its project, although titles are edited meanwhile.
\* (When nobody renames or reopens tasks, and of titles that SQL and Go fold
\* alike: the lock is on one normalisation and the lookup by the other.)
OneOpenTaskPerTitle ==
  \A s, t \in Tasks :
    /\ FromApply(s)
    /\ FromApply(t)
    /\ task[s].open /\ task[t].open
    /\ task[s].project = task[t].project
    /\ FoldsAlike(task[s].title)
    /\ GoKey[task[s].title] = GoKey[task[t].title]
    => t <= s

\* A backlog item is committed to one task, although a stale PATCH may make it
\* look ready again.
CommittedOnce ==
  \A s, t \in Tasks :
    /\ Live(s)
    /\ Live(t)
    /\ task[s].item = task[t].item
    /\ task[s].item # None
    => s = t

-----------------------------------------------------------------------------
(* Action properties                                                       *)

\* A completed task keeps its result, and a failed one leaves that state only
\* through the queue: no late or second result overwrites either.
SettledTasksStay ==
  \A t \in Tasks :
    /\ task[t].dispatch = "completed" /\ task'[t].life = "live" =>
         task'[t].dispatch = "completed" /\ task'[t].result = task[t].result
    /\ task[t].dispatch = "failed" /\ task'[t].life = "live" =>
         task'[t].dispatch \in {"failed", "queued"}

SettledTaskIsFinal == [][SettledTasksStay]_vars

-----------------------------------------------------------------------------
(* Fairness: requests run to their end and daemons keep polling and        *)
(* working.  What users do is never forced.                                *)

Fairness ==
  /\ \A c \in Connectors :
       /\ WF_vars(TaskClaimStep(c) /\ UNCHANGED <<reviewVars, itemVars>>)
       /\ SF_vars(TaskDaemonStep(c) /\ UNCHANGED <<reviewVars, itemVars>>)
  /\ \A h \in Posts : WF_vars(ResultStep(h) /\ UNCHANGED <<reviewVars, itemVars>>)
  /\ \A h \in Applies :
       SF_vars(ApplyStep(h) /\ UNCHANGED <<taskDispatchVars, itemVars>>)

Spec == Safety /\ Fairness

RequeueStep == \E t \in Tasks : task[t].dispatch = "failed" /\ task'[t].dispatch = "queued"

Reached(t) == \E c \in Connectors : task[t].project \in Reach[c]

\* Tasks with roles that are gone, any number of them, do not block the queue:
\* unless users requeue failed tasks forever, a queued task in a project of a
\* polling daemon is claimed or failed.
TaskQueueDrains ==
  <>[][~ RequeueStep]_vars =>
    \A t \in Tasks :
      Live(t) /\ task[t].dispatch = "queued" /\ Reached(t)
        ~> ~ Live(t) \/ task[t].dispatch # "queued"

\* Every apply is answered: row and title locks are taken in one order and
\* given back on every path.
ApplyIsAnswered == \A h \in Applies : apply[h].pc # "idle" ~> apply[h].pc = "idle"

-----------------------------------------------------------------------------
(* What the documentation says and the code does not keep                  *)

\* docs/operating-rules.md: "Every `execution_role` change is recorded in
\* `actor_audit`".
RoleChangeIsAudited ==
  [][\A c \in Candidates :
       cand'[c].role # cand[c].role => audit'[c] = cand'[c].role]_vars
=============================================================================
