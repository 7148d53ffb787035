--------------------------- MODULE DeliveryProofs ---------------------------
(***************************************************************************)
(* Proofs about Delivery for any number of tasks, candidates, items,       *)
(* daemons and concurrent requests, with lost messages, failing            *)
(* transactions and deploys that drop roles.                               *)
(***************************************************************************)
EXTENDS Delivery, TLAPS

-----------------------------------------------------------------------------
(* Types                                                                   *)

\* A request in progress names its candidate, and a PATCH has read a row.
RequestsNamed ==
  /\ \A h \in Applies : apply[h].pc # "idle" => apply[h].c \in Candidates
  /\ \A e \in Edits : edit[e].open => edit[e].c \in Candidates /\ edit[e].row \in Candidate

TypeInv == TypeOK /\ RequestsNamed

LEMMA TypeInit == Init => TypeInv
<1> USE DEF Init, TypeOK
<1>1. TaskInit => TaskTypeOK
  BY DEF TaskInit, TaskTypeOK, TaskRow, Blank
<1>2. TaskDispatchInit => TaskDispatchTypeOK
  BY TaskDispatchAssumption DEF TaskDispatchInit, TaskDispatchTypeOK, Post, NoPost
<1>3. ReviewInit => ReviewTypeOK
  <2> SUFFICES ASSUME ReviewInit PROVE ReviewTypeOK
    OBVIOUS
  <2>1. cand \in [Candidates -> Candidate]
    BY DEF ReviewInit, Candidate, Review
  <2>2. QED
    BY <2>1 DEF ReviewInit, ReviewTypeOK, EditRequest, NoEdit, ApplyRequest, NoApply
<1>4. ItemInit => ItemTypeOK
  BY DEF ItemInit, ItemTypeOK, Item, Absent, ItemEdit, NoItemEdit, UserStatus, Committable
<1>5. ReviewInit => RequestsNamed
  BY DEF ReviewInit, RequestsNamed, NoApply, NoEdit
<1>6. QED
  BY <1>1, <1>2, <1>3, <1>4, <1>5 DEF TypeInv

\* An insert puts a row where none was.
LEMMA InsertType ==
  ASSUME TaskTypeOK, NEW t \in Tasks, NEW row \in TaskRow, Insert(t, row),
         UNCHANGED catalog
  PROVE  TaskTypeOK'
BY DEF TaskTypeOK, Insert

\* Writing the two dispatch columns of one task.
LEMMA ColumnsType ==
  ASSUME TaskTypeOK, NEW t \in Tasks,
         NEW d \in {"none", "queued", "running", "completed", "failed"},
         NEW x \in {"null", "output", "error"},
         task' = [task EXCEPT ![t].dispatch = d, ![t].result = x]
  PROVE  task' \in [Tasks -> TaskRow]
<1>1. task[t] \in TaskRow
  BY DEF TaskTypeOK
<1>2. [task[t] EXCEPT !.dispatch = d, !.result = x] \in TaskRow
  BY <1>1 DEF TaskRow
<1>3. task' = [task EXCEPT ![t] = [task[t] EXCEPT !.dispatch = d, !.result = x]]
  OBVIOUS
<1>4. QED
  BY <1>2, <1>3 DEF TaskTypeOK

LEMMA DispatchType ==
  ASSUME TypeInv, DispatchAction, UNCHANGED <<reviewVars, itemVars>>
  PROVE  TypeInv'
<1> USE DEF TypeInv, TypeOK
<1>1. ReviewTypeOK' /\ ItemTypeOK' /\ RequestsNamed'
  BY DEF ReviewTypeOK, ItemTypeOK, RequestsNamed, reviewVars, itemVars
<1> USE TaskDispatchAssumption DEF TaskTypeOK, TaskDispatchTypeOK, taskDispatchVars
<1>2. ASSUME NEW c \in Connectors, TaskClaimStep(c)
      PROVE  (TaskTypeOK /\ TaskDispatchTypeOK)'
  <2>1. CASE ClaimOpen(c)
    BY <2>1 DEF ClaimOpen
  <2>2. CASE ClaimEmpty(c)
    BY <2>2 DEF ClaimEmpty, EndClaim
  <2>3. ASSUME NEW t \in Tasks, ClaimStale(c, t)
        PROVE  (TaskTypeOK /\ TaskDispatchTypeOK)'
    <3>1. task' \in [Tasks -> TaskRow]
      BY <2>3, ColumnsType DEF ClaimStale
    <3>2. drained' \in [Connectors -> -1 .. StaleDrainCap - 1]
      BY <2>3 DEF ClaimStale, InClaim
    <3>3. QED
      BY <2>3, <3>1, <3>2 DEF ClaimStale
  <2>4. ASSUME NEW t \in Tasks, ClaimTake(c, t)
        PROVE  (TaskTypeOK /\ TaskDispatchTypeOK)'
    <3>1. task' \in [Tasks -> TaskRow]
      BY <2>4 DEF ClaimTake, MarkRunning, TaskRow
    <3>2. QED
      BY <2>4, <3>1 DEF ClaimTake, EndClaim
  <2>5. QED
    BY <1>2, <2>1, <2>2, <2>3, <2>4 DEF TaskClaimStep
<1>3. ASSUME NEW c \in Connectors, TaskDaemonStep(c)
      PROVE  (TaskTypeOK /\ TaskDispatchTypeOK)'
  <2>1. CASE LoseTask(c)
    BY <2>1 DEF LoseTask
  <2>2. ASSUME NEW h \in Posts, NEW ok \in BOOLEAN, PostTaskResult(c, h, ok)
        PROVE  (TaskTypeOK /\ TaskDispatchTypeOK)'
    <3>1. post' \in [Posts -> Post]
      BY <2>2 DEF PostTaskResult, Posted, Post
    <3>2. QED
      BY <2>2, <3>1 DEF PostTaskResult
  <2>3. QED
    BY <1>3, <2>1, <2>2 DEF TaskDaemonStep
<1>4. ASSUME NEW h \in Posts, ResultStep(h)
      PROVE  (TaskTypeOK /\ TaskDispatchTypeOK)'
  <2>1. CASE ResultCheck(h)
    <3>1. post' \in [Posts -> Post]
      BY <2>1 DEF ResultCheck, Post, NoPost
    <3>2. QED
      BY <2>1, <3>1 DEF ResultCheck
  <2>2. CASE ResultWrite(h)
    <3>1. post' \in [Posts -> Post]
      BY <2>2 DEF ResultWrite, Post, NoPost
    <3>2. task' \in [Tasks -> TaskRow]
      BY <2>2 DEF ResultWrite, UpdateDispatchStatus, TaskRow
    <3>3. QED
      BY <2>2, <3>1, <3>2 DEF ResultWrite
  <2>3. QED
    BY <1>4, <2>1, <2>2 DEF ResultStep
<1>5. ASSUME NEW t \in Tasks, Requeue(t)
      PROVE  (TaskTypeOK /\ TaskDispatchTypeOK)'
  <2>1. task' \in [Tasks -> TaskRow]
    BY <1>5, ColumnsType DEF Requeue, RequeueDispatchTask
  <2>2. QED
    BY <1>5, <2>1 DEF Requeue
<1>6. QED
  BY <1>1, <1>2, <1>3, <1>4, <1>5 DEF DispatchAction

LEMMA ApplyType ==
  ASSUME TypeInv, NEW h \in Applies, ApplyStep(h) \/ ApplyAbort(h)
  PROVE  (TaskTypeOK /\ ReviewTypeOK /\ RequestsNamed)'
<1> USE DEF TypeInv, TypeOK, ReviewTypeOK, store
<1>1. NoApply \in ApplyRequest
  BY DEF NoApply, ApplyRequest
<1>2. apply[h] \in ApplyRequest
  OBVIOUS
<1>3. ASSUME NEW pc \in {"row", "title", "create", "promote"}, ToApply(h, pc)
      PROVE  /\ apply' \in [Applies -> ApplyRequest]
             /\ \A g \in Applies : apply'[g].c = apply[g].c
             /\ \A g \in Applies \ {h} : apply'[g] = apply[g]
  BY <1>2, <1>3 DEF ToApply, ApplyRequest
<1>4. ASSUME EndApply(h)
      PROVE  apply' \in [Applies -> ApplyRequest]
  BY <1>1, <1>4 DEF EndApply
<1>5. ASSUME ApplyLockTitle(h)
      PROVE  (TaskTypeOK /\ ReviewTypeOK)'
  BY <1>5, <1>3 DEF ApplyLockTitle, TaskTypeOK
<1>6. ASSUME ApplyFound(h)
      PROVE  (TaskTypeOK /\ ReviewTypeOK)'
  <2>1. cand' \in [Candidates -> Candidate]
    BY <1>6 DEF ApplyFound, Candidate
  <2>2. QED
    BY <1>6, <1>4, <2>1 DEF ApplyFound, TaskTypeOK
<1>7. ASSUME ApplyDecide(h)
      PROVE  (TaskTypeOK /\ ReviewTypeOK)'
  BY <1>7, <1>3, <1>4 DEF ApplyDecide, TaskTypeOK
<1>8. ASSUME ApplyPromote(h)
      PROVE  (TaskTypeOK /\ ReviewTypeOK)'
  <2>1. req' \in [Requirements -> {"draft", "planned", "archived", "deleted"}]
    BY <1>8 DEF ApplyPromote
  <2>2. QED
    BY <1>8, <1>4, <2>1 DEF ApplyPromote, TaskTypeOK
<1>9. ASSUME ApplyAbort(h)
      PROVE  (TaskTypeOK /\ ReviewTypeOK)'
  BY <1>9, <1>4 DEF ApplyAbort, TaskTypeOK
<1>10. ASSUME NEW t \in Tasks, ApplyCreate(h, t)
       PROVE  (TaskTypeOK /\ ReviewTypeOK)'
  <2> DEFINE c == apply[h].c
             role == apply[h].role
             row == [Blank EXCEPT
                       !.life = "live", !.open = TRUE, !.title = cand[c].title,
                       !.project = ProjectOf[ReqOf[c]], !.req = ReqOf[c], !.cand = c,
                       !.kind = "applied_candidate", !.role = role,
                       !.dispatch = IF role = None THEN "none" ELSE "queued"]
  <2>1. role \in Roles \cup {None} /\ c \in Candidates
    BY <1>2, <1>10 DEF ApplyRequest, ApplyCreate, RequestsNamed
  <2>2. cand[c] \in Candidate
    BY <2>1
  <2>3. row \in TaskRow
    BY <1>10, <2>1, <2>2, ReviewAssumption DEF TaskRow, Blank, Candidate
  <2>4. TaskTypeOK'
    BY <1>10, <2>3, InsertType DEF ApplyCreate
  <2>5. cand' \in [Candidates -> Candidate]
    BY <1>10, <2>1 DEF ApplyCreate, Candidate
  <2>6. audit' \in [Candidates -> Roles \cup {None, Unaudited}]
    BY <1>10, <2>1 DEF ApplyCreate
  <2>7. QED
    BY <1>10, <1>3, <2>4, <2>5, <2>6 DEF ApplyCreate
<1>11. RequestsNamed'
  <2>1. \/ EndApply(h)
        \/ \E pc \in {"title", "create", "promote"} : ToApply(h, pc) /\ apply[h].pc # "idle"
    BY DEF ApplyStep, ApplyLockTitle, ApplyFound, ApplyDecide, ApplyPromote,
       ApplyAbort, ApplyCreate
  <2>2. CASE EndApply(h)
    BY <2>2, <1>1 DEF EndApply, RequestsNamed, NoApply, ApplyStep, ApplyAbort,
       ApplyLockTitle, ApplyFound, ApplyDecide, ApplyPromote, ApplyCreate
  <2>3. ASSUME NEW pc \in {"title", "create", "promote"}, ToApply(h, pc),
               apply[h].pc # "idle"
        PROVE  RequestsNamed'
    BY <2>3, <1>3 DEF RequestsNamed, ApplyStep, ApplyAbort,
       ApplyLockTitle, ApplyFound, ApplyDecide, ApplyPromote, ApplyCreate
  <2>4. QED
    BY <2>1, <2>2, <2>3
<1>12. QED
  BY <1>5, <1>6, <1>7, <1>8, <1>9, <1>10, <1>11 DEF ApplyStep

LEMMA EditType ==
  ASSUME TypeInv, NEW e \in Edits,
         EditWrite(e) \/ \E c \in Candidates : EditRead(e, c)
  PROVE  (TaskTypeOK /\ ReviewTypeOK /\ RequestsNamed)'
<1> USE DEF TypeInv, TypeOK, ReviewTypeOK, store
<1>1. NoEdit \in EditRequest
  BY DEF NoEdit, EditRequest
<1>2. CASE EditWrite(e)
  <2> DEFINE c == edit[e].c
  <2>1. c \in Candidates /\ edit[e].row \in Candidate
    BY <1>2 DEF EditWrite, RequestsNamed
  <2>2. cand' \in [Candidates -> Candidate]
    BY <1>2, <2>1 DEF EditWrite
  <2>3. audit' \in [Candidates -> Roles \cup {None, Unaudited}]
    BY <1>2, <2>1 DEF EditWrite, Candidate
  <2>4. edit' \in [Edits -> EditRequest] /\ RequestsNamed'
    BY <1>1, <1>2 DEF EditWrite, RequestsNamed, NoEdit
  <2>5. QED
    BY <1>2, <2>2, <2>3, <2>4 DEF EditWrite, TaskTypeOK
<1>3. ASSUME NEW c \in Candidates, EditRead(e, c)
      PROVE  (TaskTypeOK /\ ReviewTypeOK /\ RequestsNamed)'
  <2>1. PICK row \in Patched(cand[c]) :
          edit' = [edit EXCEPT ![e] = [open |-> TRUE, c |-> c, row |-> row,
                                       roleChanged |-> row.role # cand[c].role]]
    BY <1>3 DEF EditRead
  <2>2. row \in Candidate
    BY <2>1 DEF Patched, Candidate, TaskTypeOK
  <2>3. edit' \in [Edits -> EditRequest]
    BY <2>1, <2>2 DEF EditRequest
  <2>4. RequestsNamed'
    BY <1>3, <2>1, <2>2 DEF RequestsNamed, EditRead
  <2>5. QED
    BY <1>3, <2>3, <2>4 DEF EditRead, TaskTypeOK
<1>4. QED
  BY <1>2, <1>3

LEMMA BeginType ==
  ASSUME TypeInv, NEW h \in Applies, NEW c \in Candidates,
         NEW role \in Roles \cup {None}, ApplyBegin(h, c, role)
  PROVE  (TaskTypeOK /\ ReviewTypeOK /\ RequestsNamed)'
<1>1. [pc |-> "row", c |-> c, role |-> role] \in ApplyRequest
  BY DEF ApplyRequest
<1>2. QED
  BY <1>1 DEF ApplyBegin, TypeInv, TypeOK, ReviewTypeOK, TaskTypeOK, RequestsNamed, store

\* What a deletion clears in the items leaves items.
LEMMA DetachType ==
  ASSUME ItemTypeOK, NEW ts, NEW cs, Detach(ts, cs)
  PROVE  item' \in [Items -> Item]
<1>1. ASSUME NEW i \in Items
      PROVE  item'[i] \in Item
  <2>1. PICK x \in {item[i].task, None}, y \in {item[i].cand, None} :
          item'[i] = [item[i] EXCEPT !.task = x, !.cand = y]
    BY DEF Detach
  <2>2. item[i] \in Item
    BY DEF ItemTypeOK
  <2>3. QED
    BY <2>1, <2>2 DEF Item
<1>2. QED
  BY <1>1 DEF Detach

LEMMA RequirementType ==
  ASSUME TypeInv, NEW q \in Requirements, RequirementAction(q)
  PROVE  (TaskTypeOK /\ ReviewTypeOK /\ RequestsNamed /\ ItemTypeOK)'
<1> USE DEF TypeInv, TypeOK, ReviewTypeOK, store
<1>1. ASSUME NEW s \in {"draft", "planned", "archived"}, SetRequirementStatus(q, s),
             UNCHANGED itemVars
      PROVE  (TaskTypeOK /\ ReviewTypeOK /\ RequestsNamed /\ ItemTypeOK)'
  BY <1>1 DEF SetRequirementStatus, TaskTypeOK, RequestsNamed, ItemTypeOK, itemVars
<1>2. CASE DeleteRequirementCheck(q) /\ UNCHANGED itemVars
  BY <1>2 DEF DeleteRequirementCheck, TaskTypeOK, RequestsNamed, ItemTypeOK, itemVars
<1>3. CASE /\ DeleteRequirement(q)
           /\ Detach({}, {c \in Candidates : ReqOf[c] = q})
           /\ UNCHANGED itemEdit
  <2>1. task' \in [Tasks -> TaskRow]
    <3>1. ASSUME NEW t \in Tasks
          PROVE  task'[t] \in TaskRow
      <4>1. PICK x \in {task[t].req, None}, y \in {task[t].cand, None} :
              task'[t] = [task[t] EXCEPT !.req = x, !.cand = y]
        BY <1>3 DEF DeleteRequirement
      <4>2. task[t] \in TaskRow
        BY DEF TaskTypeOK
      <4>3. QED
        BY <4>1, <4>2 DEF TaskRow
    <3>2. QED
      BY <1>3, <3>1 DEF DeleteRequirement
  <2>2. cand' \in [Candidates -> Candidate]
    BY <1>3 DEF DeleteRequirement, Candidate
  <2>3. req' \in [Requirements -> {"draft", "planned", "archived", "deleted"}]
    BY <1>3 DEF DeleteRequirement
  <2>4. item' \in [Items -> Item]
    BY <1>3, DetachType
  <2>5. QED
    BY <1>3, <2>1, <2>2, <2>3, <2>4
       DEF DeleteRequirement, TaskTypeOK, ItemTypeOK, RequestsNamed
<1>4. QED
  BY <1>1, <1>2, <1>3 DEF RequirementAction

LEMMA ItemType ==
  ASSUME TypeInv, ItemAction, UNCHANGED <<taskDispatchVars, reviewVars>>
  PROVE  TypeInv'
<1> USE DEF TypeInv, TypeOK
<1>1. TaskDispatchTypeOK' /\ ReviewTypeOK' /\ RequestsNamed'
  BY DEF TaskDispatchTypeOK, ReviewTypeOK, RequestsNamed, taskDispatchVars, reviewVars
<1>2. ASSUME NEW i \in Items, NEW p \in Projects, NEW title \in Titles,
             NEW c \in Candidates \cup {None}, NEW status \in UserStatus,
             CreateItem(i, p, title, c, status)
      PROVE  (TaskTypeOK /\ ItemTypeOK)'
  <2>1. item' \in [Items -> Item]
    BY <1>2 DEF CreateItem, ItemTypeOK, Item
  <2>2. QED
    BY <1>2, <2>1 DEF CreateItem, TaskTypeOK, ItemTypeOK, store
<1>3. ASSUME NEW i \in Items, NEW e \in ItemEdits,
             NEW status \in UserStatus \cup {"committed"}, ItemEditRead(e, i, status)
      PROVE  (TaskTypeOK /\ ItemTypeOK)'
  <2>1. [i |-> i, status |-> status] \in ItemEdit
    BY DEF ItemEdit
  <2>2. QED
    BY <1>3, <2>1 DEF ItemEditRead, TaskTypeOK, ItemTypeOK, store
<1>4. ASSUME NEW i \in Items, NEW t \in Tasks, CommitToTask(i, t)
      PROVE  (TaskTypeOK /\ ItemTypeOK)'
  <2> DEFINE row == [Blank EXCEPT !.life = "live", !.open = TRUE,
                                  !.project = item[i].project, !.title = item[i].title,
                                  !.kind = "backlog_item", !.item = i,
                                  !.cand = item[i].cand]
  <2>1. item[i] \in Item
    BY DEF ItemTypeOK
  <2>2. row \in TaskRow
    BY <2>1 DEF TaskRow, Blank, Item
  <2>3. TaskTypeOK'
    BY <1>4, <2>2, InsertType DEF CommitToTask
  <2>4. item' \in [Items -> Item]
    <3>1. [item[i] EXCEPT !.status = "committed", !.task = t] \in Item
      BY <2>1 DEF Item
    <3>2. item' = [item EXCEPT ![i] = [item[i] EXCEPT !.status = "committed", !.task = t]]
      BY <1>4 DEF CommitToTask
    <3>3. QED
      BY <3>1, <3>2 DEF ItemTypeOK
  <2>5. QED
    BY <1>4, <2>3, <2>4 DEF CommitToTask, ItemTypeOK
<1>5. ASSUME NEW e \in ItemEdits, ItemEditWrite(e)
      PROVE  (TaskTypeOK /\ ItemTypeOK)'
  <2>1. itemEdit[e] \in ItemEdit /\ NoItemEdit \in ItemEdit
    BY DEF ItemTypeOK, NoItemEdit, ItemEdit, UserStatus, Committable
  <2>2. item' \in [Items -> Item]
    BY <1>5, <2>1 DEF ItemEditWrite, ItemTypeOK, ItemEdit, Item
  <2>3. QED
    BY <1>5, <2>1, <2>2 DEF ItemEditWrite, TaskTypeOK, ItemTypeOK, store
<1>6. QED
  BY <1>1, <1>2, <1>3, <1>4, <1>5 DEF ItemAction
LEMMA TaskActionType ==
  ASSUME TypeInv, TaskAction, UNCHANGED <<taskDispatchVars, reviewVars>>
  PROVE  TypeInv'
<1> USE DEF TypeInv, TypeOK
<1>1. TaskDispatchTypeOK' /\ ReviewTypeOK' /\ RequestsNamed'
  BY DEF TaskDispatchTypeOK, ReviewTypeOK, RequestsNamed, taskDispatchVars, reviewVars
<1>2. PICK t \in Tasks :
        /\ \/ /\ \E p \in Projects, title \in Titles, role \in Roles \cup {None} :
                   CreateTask(t, p, title, role)
              /\ UNCHANGED itemVars
           \/ UpdateTask(t) /\ UNCHANGED itemVars
           \/ DeleteTask(t) /\ Detach({t}, {}) /\ UNCHANGED itemEdit
        /\ UNCHANGED catalog
  BY DEF TaskAction
<1>3. task[t] \in TaskRow
  BY DEF TaskTypeOK
<1>4. ASSUME NEW p \in Projects, NEW title \in Titles, NEW role \in Roles \cup {None},
             CreateTask(t, p, title, role), UNCHANGED itemVars
      PROVE  (TaskTypeOK /\ ItemTypeOK)'
  <2>1. PICK open \in BOOLEAN :
          Insert(t, [Blank EXCEPT !.life = "live", !.project = p, !.title = title,
                                  !.open = open, !.role = role])
    BY <1>4 DEF CreateTask
  <2>2. [Blank EXCEPT !.life = "live", !.project = p, !.title = title,
                      !.open = open, !.role = role] \in TaskRow
    BY DEF TaskRow, Blank
  <2>3. TaskTypeOK'
    BY <1>2, <2>1, <2>2, InsertType
  <2>4. QED
    BY <1>4, <2>3 DEF ItemTypeOK, itemVars
<1>5. ASSUME UpdateTask(t), UNCHANGED itemVars
      PROVE  (TaskTypeOK /\ ItemTypeOK)'
  <2>1. PICK title \in {task[t].title} \cup Titles, open \in BOOLEAN :
          task' = [task EXCEPT ![t] = [task[t] EXCEPT !.title = title, !.open = open]]
    <3>1. task[t].open \in BOOLEAN
      BY <1>3 DEF TaskRow
    <3>2. ASSUME NEW title \in Titles, task' = [task EXCEPT ![t].title = title]
          PROVE  task' = [task EXCEPT ![t] = [task[t] EXCEPT
                                                !.title = title, !.open = task[t].open]]
      BY <1>3, <3>2 DEF TaskRow
    <3>3. ASSUME NEW open \in BOOLEAN, task' = [task EXCEPT ![t].open = open]
          PROVE  task' = [task EXCEPT ![t] = [task[t] EXCEPT
                                                !.title = task[t].title, !.open = open]]
      BY <1>3, <3>3 DEF TaskRow
    <3>4. QED
      BY <1>5, <3>1, <3>2, <3>3 DEF UpdateTask
  <2>2. [task[t] EXCEPT !.title = title, !.open = open] \in TaskRow
    BY <1>3 DEF TaskRow
  <2>3. QED
    BY <1>2, <1>5, <2>1, <2>2 DEF TaskTypeOK, ItemTypeOK, itemVars
<1>6. ASSUME DeleteTask(t), Detach({t}, {}), UNCHANGED itemEdit
      PROVE  (TaskTypeOK /\ ItemTypeOK)'
  <2>1. [Blank EXCEPT !.life = "deleted"] \in TaskRow
    BY DEF TaskRow, Blank
  <2>2. item' \in [Items -> Item]
    BY <1>6, DetachType
  <2>3. QED
    BY <1>2, <1>6, <2>1, <2>2 DEF DeleteTask, TaskTypeOK, ItemTypeOK
<1>7. QED
  BY <1>1, <1>2, <1>4, <1>5, <1>6

LEMMA DeployType ==
  ASSUME TypeInv, NEW r \in Roles, Deploy(r)
  PROVE  TypeInv'
<1> USE DEF TypeInv, TypeOK, Deploy
<1>1. TaskTypeOK'
  BY DEF TaskTypeOK
<1>2. TaskDispatchTypeOK'
  BY TaskDispatchAssumption DEF TaskDispatchTypeOK, NoPost, Post
<1>3. ReviewTypeOK' /\ RequestsNamed'
  BY DEF ReviewTypeOK, RequestsNamed, NoEdit, EditRequest, NoApply, ApplyRequest
<1>4. ItemTypeOK'
  BY DEF ItemTypeOK, NoItemEdit, ItemEdit, UserStatus, Committable
<1>5. QED
  BY <1>1, <1>2, <1>3, <1>4

LEMMA TypeStep == TypeInv /\ [Next]_vars => TypeInv'
<1> SUFFICES ASSUME TypeInv, [Next]_vars
             PROVE  TypeInv'
  OBVIOUS
<1>1. CASE DispatchAction /\ UNCHANGED <<reviewVars, itemVars>>
  BY <1>1, DispatchType
<1>2. CASE ReviewAction /\ UNCHANGED taskDispatchVars
  <2>1. TaskDispatchTypeOK'
    BY <1>2 DEF TypeInv, TypeOK, TaskDispatchTypeOK, taskDispatchVars
  <2>2. (TaskTypeOK /\ ReviewTypeOK /\ RequestsNamed)'
    BY <1>2, EditType, ApplyType, BeginType, RequirementType DEF ReviewAction
  <2>3. ItemTypeOK'
    <3>1. UNCHANGED itemVars => ItemTypeOK'
      BY DEF TypeInv, TypeOK, ItemTypeOK, itemVars
    <3>2. QED
      BY <1>2, <3>1, RequirementType DEF ReviewAction
  <2>4. QED
    BY <2>1, <2>2, <2>3 DEF TypeInv, TypeOK
<1>3. CASE ItemAction /\ UNCHANGED <<taskDispatchVars, reviewVars>>
  BY <1>3, ItemType
<1>4. CASE TaskAction /\ UNCHANGED <<taskDispatchVars, reviewVars>>
  BY <1>4, TaskActionType
<1>5. ASSUME NEW r \in Roles, Deploy(r)
      PROVE  TypeInv'
  BY <1>5, DeployType
<1>6. CASE UNCHANGED vars
  BY <1>6 DEF TypeInv, TypeOK, TaskTypeOK, TaskDispatchTypeOK, ReviewTypeOK, ItemTypeOK,
     RequestsNamed, vars, store, taskDispatchVars, reviewVars, itemVars
<1>7. QED
  BY <1>1, <1>2, <1>3, <1>4, <1>5, <1>6 DEF Next

\* Every variable of the delivery system keeps its type, and a request in
\* progress always names an existing candidate.
THEOREM DeliveryTypeCorrect == Safety => [](TypeOK /\ RequestsNamed)
<1>1. Safety => []TypeInv
  BY TypeInit, TypeStep, PTL DEF Safety
<1>2. TypeInv => TypeOK /\ RequestsNamed
  BY DEF TypeInv
<1>3. QED
  BY <1>1, <1>2, PTL
-----------------------------------------------------------------------------
(* Dispatch: one executor, and results that stay                           *)

\* What a step of the reviewers, of the items or of the users by hand can do
\* to the dispatch columns of a task.
SameDispatch(t) ==
  /\ task'[t].life = task[t].life
  /\ task'[t].dispatch = task[t].dispatch
  /\ task'[t].result = task[t].result
Inserted(t) ==
  /\ Fresh(t) /\ task'[t].life = "live"
  /\ task'[t].dispatch \in {"none", "queued"}
  /\ task'[t].result = "null"
Removed(t) ==
  /\ task[t].life = "live" /\ task'[t].life = "deleted"
  /\ task'[t].dispatch = "none"
  /\ task'[t].result = "null"

OutsideDispatch == \A t \in Tasks : SameDispatch(t) \/ Inserted(t) \/ Removed(t)

LEMMA InsertOutside ==
  ASSUME TypeInv, NEW t \in Tasks, NEW row, Insert(t, row),
         row.life = "live", row.dispatch \in {"none", "queued"}, row.result = "null"
  PROVE  OutsideDispatch
<1>1. Fresh(t) /\ task' = [task EXCEPT ![t] = row]
  BY DEF Insert
<1>2. QED
  BY <1>1 DEF TypeInv, TypeOK, TaskTypeOK, OutsideDispatch, SameDispatch, Inserted

LEMMA ReviewOutside ==
  ASSUME TypeInv, ReviewAction
  PROVE  OutsideDispatch
<1>1. CASE UNCHANGED task
  BY <1>1 DEF OutsideDispatch, SameDispatch
<1>2. ASSUME NEW h \in Applies, NEW t \in Tasks, ApplyCreate(h, t)
      PROVE  OutsideDispatch
  BY <1>2, InsertOutside DEF ApplyCreate, Blank
<1>3. ASSUME NEW q \in Requirements, DeleteRequirement(q)
      PROVE  OutsideDispatch
  <2>1. ASSUME NEW t \in Tasks
        PROVE  SameDispatch(t)
    <3>1. PICK x \in {task[t].req, None}, y \in {task[t].cand, None} :
            task'[t] = [task[t] EXCEPT !.req = x, !.cand = y]
      BY <1>3 DEF DeleteRequirement
    <3>2. task[t] \in TaskRow
      BY DEF TypeInv, TypeOK, TaskTypeOK
    <3>3. QED
      BY <3>1, <3>2 DEF TaskRow, SameDispatch
  <2>2. QED
    BY <2>1 DEF OutsideDispatch
<1>4. QED
  BY <1>1, <1>2, <1>3 DEF ReviewAction, RequirementAction, EditWrite, EditRead,
     ApplyStep, ApplyAbort, ApplyBegin, ApplyLockTitle, ApplyFound, ApplyDecide,
     ApplyPromote, SetRequirementStatus, DeleteRequirementCheck, store

LEMMA ItemOutside ==
  ASSUME TypeInv, ItemAction
  PROVE  OutsideDispatch
<1>1. CASE UNCHANGED task
  BY <1>1 DEF OutsideDispatch, SameDispatch
<1>2. ASSUME NEW i \in Items, NEW t \in Tasks, CommitToTask(i, t)
      PROVE  OutsideDispatch
  BY <1>2, InsertOutside DEF CommitToTask, Blank
<1>3. QED
  BY <1>1, <1>2 DEF ItemAction, CreateItem, ItemEditRead, ItemEditWrite, store

LEMMA TaskOutside ==
  ASSUME TypeInv, TaskAction
  PROVE  OutsideDispatch
<1>1. ASSUME NEW t \in Tasks, NEW p, NEW title, NEW role, CreateTask(t, p, title, role)
      PROVE  OutsideDispatch
  BY <1>1, InsertOutside DEF CreateTask, Blank
<1>2. ASSUME NEW t \in Tasks, UpdateTask(t)
      PROVE  OutsideDispatch
  BY <1>2 DEF UpdateTask, TypeInv, TypeOK, TaskTypeOK, TaskRow, OutsideDispatch, SameDispatch
<1>3. ASSUME NEW t \in Tasks, DeleteTask(t)
      PROVE  OutsideDispatch
  BY <1>3 DEF DeleteTask, Live, Blank, TypeInv, TypeOK, TaskTypeOK,
     OutsideDispatch, SameDispatch, Removed
<1>4. QED
  BY <1>1, <1>2, <1>3 DEF TaskAction

\* The inductive invariant: a task that has yet to be inserted is with nobody
\* and was never dispatched, and a result request names a task and carries the
\* result of a success.
InFlight ==
  /\ SingleExecutor
  /\ \A t \in Tasks : Busy(t) => task[t].life # "absent"
  /\ \A t \in Tasks : task[t].life = "absent" => task[t].dispatch = "none"
  /\ \A h \in Posts : post[h].pc # "idle" =>
       /\ post[h].t \in Tasks
       /\ post[h].ok => post[h].result = "output"

DispatchInv == TypeInv /\ InFlight /\ ResultOnlyWhenSettled

LEMMA InFlightOutside ==
  ASSUME DispatchInv, OutsideDispatch, UNCHANGED taskDispatchVars
  PROVE  InFlight' /\ ResultOnlyWhenSettled' /\ SettledTasksStay
<1> USE DEF DispatchInv, InFlight, OutsideDispatch, SameDispatch, Inserted, Removed,
        taskDispatchVars, Live, Fresh
<1>1. \A t \in Tasks : Busy(t)' = Busy(t)
  BY DEF Busy
<1>2. SingleExecutor'
  BY <1>1 DEF SingleExecutor
<1>3. \A t \in Tasks : /\ Busy(t)' => task'[t].life # "absent"
                      /\ task'[t].life = "absent" => task'[t].dispatch = "none"
  BY <1>1
<1>4. ResultOnlyWhenSettled'
  BY DEF ResultOnlyWhenSettled
<1>5. SettledTasksStay
  BY DEF SettledTasksStay
<1>6. \A h \in Posts : post'[h].pc # "idle" =>
        /\ post'[h].t \in Tasks
        /\ post'[h].ok => post'[h].result = "output"
  OBVIOUS
<1>7. InFlight'
  BY <1>2, <1>3, <1>6 DEF InFlight, Busy
<1>8. QED
  BY <1>4, <1>5, <1>7
LEMMA InFlightDispatch ==
  ASSUME DispatchInv, DispatchAction
  PROVE  InFlight' /\ ResultOnlyWhenSettled' /\ SettledTasksStay
<1> DEFINE Goal == InFlight' /\ ResultOnlyWhenSettled' /\ SettledTasksStay
<1> USE DEF DispatchInv, InFlight
<1>1. /\ task \in [Tasks -> TaskRow]
      /\ work \in [Connectors -> Tasks \cup {None}]
      /\ post \in [Posts -> Post]
      /\ None \notin Tasks
  BY TaskAssumption DEF TypeInv, TypeOK, TaskTypeOK, TaskDispatchTypeOK
<1>2. CASE UNCHANGED <<task, work, post>>
  BY <1>2 DEF SingleExecutor, Busy, Live, ResultOnlyWhenSettled, SettledTasksStay
<1>3. ASSUME NEW c \in Connectors, NEW t \in Tasks, ClaimStale(c, t)
      PROVE  Goal
  <2>1. /\ Live(t) /\ task[t].dispatch = "queued" /\ ~ Busy(t)
        /\ task'[t].life = task[t].life
        /\ task'[t].dispatch = "failed" /\ task'[t].result = "error"
        /\ \A s \in Tasks \ {t} : task'[s] = task[s]
        /\ work' = work /\ post' = post
    BY <1>1, <1>3 DEF ClaimStale, OldestQueued, SingleExecutor, TaskRow
  <2>2. \A s \in Tasks : Busy(s)' = Busy(s)
    BY <2>1 DEF Busy
  <2>3. InFlight'
    BY <2>1, <2>2 DEF SingleExecutor, Live
  <2>4. ResultOnlyWhenSettled' /\ SettledTasksStay
    BY <2>1 DEF ResultOnlyWhenSettled, SettledTasksStay
  <2>5. QED
    BY <2>3, <2>4
<1>4. ASSUME NEW c \in Connectors, NEW t \in Tasks, ClaimTake(c, t)
      PROVE  Goal
  <2>1. /\ Live(t) /\ task[t].dispatch = "queued" /\ ~ Busy(t)
        /\ task'[t].life = "live"
        /\ task'[t].dispatch = "running" /\ task'[t].result = task[t].result
        /\ \A s \in Tasks \ {t} : task'[s] = task[s]
        /\ post' = post
    BY <1>1, <1>4 DEF ClaimTake, OldestQueued, MarkRunning, SingleExecutor, TaskRow, Live
  <2>2. /\ \A b \in Connectors \ {c} : work'[b] = work[b]
        /\ work'[c] \in {work[c], t}
    BY <1>1, <1>4 DEF ClaimTake
  <2>3. InFlight'
    BY <2>1, <2>2 DEF SingleExecutor, Live, Busy
  <2>4. ResultOnlyWhenSettled' /\ SettledTasksStay
    BY <2>1 DEF ResultOnlyWhenSettled, SettledTasksStay
  <2>5. QED
    BY <2>3, <2>4
<1>5. ASSUME NEW c \in Connectors, LoseTask(c)
      PROVE  Goal
  <2>1. /\ work'[c] = None
        /\ \A b \in Connectors \ {c} : work'[b] = work[b]
        /\ task' = task /\ post' = post
    BY <1>1, <1>5 DEF LoseTask
  <2>2. QED
    BY <1>1, <2>1 DEF SingleExecutor, Busy, Live, ResultOnlyWhenSettled, SettledTasksStay
<1>6. ASSUME NEW c \in Connectors, NEW h \in Posts, NEW ok \in BOOLEAN,
             PostTaskResult(c, h, ok)
      PROVE  Goal
  <2>1. /\ work[c] \in Tasks /\ work'[c] = None
        /\ \A b \in Connectors \ {c} : work'[b] = work[b]
        /\ post'[h].t = work[c]
        /\ post'[h].ok => post'[h].result = "output"
        /\ \A g \in Posts \ {h} : post'[g] = post[g]
        /\ task' = task
    BY <1>1, <1>6 DEF PostTaskResult, Posted
  <2>2. \A s \in Tasks : Busy(s)' => Busy(s)
    BY <1>1, <2>1 DEF Busy
  <2>3. SingleExecutor'
    BY <1>1, <2>1, <2>2 DEF SingleExecutor, Live
  <2>4. QED
    BY <2>1, <2>2, <2>3 DEF ResultOnlyWhenSettled, SettledTasksStay
<1>7. ASSUME NEW h \in Posts, ResultCheck(h)
      PROVE  Goal
  <2>1. /\ post'[h].t \in {post[h].t, None}
        /\ post'[h].pc # "idle" =>
             /\ post'[h].t = post[h].t
             /\ post'[h].ok = post[h].ok
             /\ post'[h].result = post[h].result
        /\ post[h].pc # "idle"
        /\ \A g \in Posts \ {h} : post'[g] = post[g]
        /\ task' = task /\ work' = work
    BY <1>1, <1>7 DEF ResultCheck, NoPost, Post
  <2>2. \A s \in Tasks : Busy(s)' => Busy(s)
    BY <1>1, <2>1 DEF Busy
  <2>3. SingleExecutor'
    BY <1>1, <2>1, <2>2 DEF SingleExecutor, Live
  <2>4. QED
    BY <2>1, <2>2, <2>3 DEF ResultOnlyWhenSettled, SettledTasksStay
<1>8. ASSUME NEW h \in Posts, ResultWrite(h)
      PROVE  Goal
  <2>0. PICK t \in Tasks : t = post[h].t
    BY <1>8 DEF ResultWrite
  <2>1. /\ post'[h].t = None /\ post'[h].pc = "idle"
        /\ \A g \in Posts \ {h} : post'[g] = post[g]
        /\ work' = work
    BY <1>1, <1>8 DEF ResultWrite, NoPost
  <2>2. /\ \A s \in Tasks : Busy(s)' => Busy(s)
        /\ ~ Busy(t)'
    <3>1. \A s \in Tasks : Busy(s)' => Busy(s)
      BY <1>1, <2>0, <2>1 DEF Busy
    <3>2. /\ \A c \in Connectors : work[c] # t
          /\ \A g \in Posts \ {h} : post[g].t # t
      BY <2>0, <2>1 DEF SingleExecutor
    <3>3. ~ Busy(t)'
      <4>1. \A g \in Posts : post'[g].t # t
        BY <1>1, <2>0, <2>1, <3>2
      <4>2. QED
        BY <2>0, <2>1, <3>2, <4>1 DEF Busy
    <3>4. QED
      BY <3>1, <3>3
  <2>3. \/ task' = task
        \/ /\ Live(t) /\ task[t].dispatch = "running"
           /\ task'[t].life = task[t].life
           /\ \/ task'[t].dispatch = "completed" /\ task'[t].result = "output"
              \/ task'[t].dispatch = "failed" /\ task'[t].result = "error"
           /\ \A s \in Tasks \ {t} : task'[s] = task[s]
    <3>1. Busy(t)
      BY <2>0, <2>1 DEF Busy
    <3>2. CASE Live(t) /\ task[t].project \in Reach[post[h].c]
      <4>1. task[t].dispatch = "running"
        BY <2>0, <2>1, <3>1, <3>2 DEF SingleExecutor
      <4>2. QED
        BY <1>1, <1>8, <2>0, <2>1, <3>2, <4>1 DEF ResultWrite, UpdateDispatchStatus, TaskRow
    <3>3. CASE ~ (Live(t) /\ task[t].project \in Reach[post[h].c])
      BY <1>8, <2>0, <3>3 DEF ResultWrite, UpdateDispatchStatus
    <3>4. QED
      BY <3>2, <3>3
  <2>4. SingleExecutor'
    <3>1. \A s \in Tasks : Live(s)' /\ Busy(s)' => task'[s].dispatch = "running"
      <4>1. \A s \in Tasks : Live(s)' /\ Busy(s)' => Live(s) /\ Busy(s)
        BY <2>2, <2>3 DEF Live
      <4>2. \A s \in Tasks : Busy(s)' => task'[s] = task[s]
        BY <2>2, <2>3
      <4>3. \A s \in Tasks : Live(s) /\ Busy(s) => task[s].dispatch = "running"
        BY DEF SingleExecutor
      <4>4. QED
        BY <4>1, <4>2, <4>3
    <3>2. QED
      BY <1>1, <2>0, <2>1, <3>1 DEF SingleExecutor
  <2>5. ResultOnlyWhenSettled' /\ SettledTasksStay
    BY <2>0, <2>1, <2>3 DEF ResultOnlyWhenSettled, SettledTasksStay
  <2>6. QED
    BY <2>0, <2>1, <2>2, <2>3, <2>4, <2>5 DEF Live
<1>9. ASSUME NEW t \in Tasks, Requeue(t)
      PROVE  Goal
  <2>1. /\ Live(t) /\ task[t].dispatch = "failed" /\ ~ Busy(t)
        /\ task'[t].life = "live"
        /\ task'[t].dispatch = "queued" /\ task'[t].result = "null"
        /\ \A s \in Tasks \ {t} : task'[s] = task[s]
        /\ work' = work /\ post' = post
    BY <1>1, <1>9 DEF Requeue, RequeueDispatchTask, SingleExecutor, TaskRow,
       taskDispatchVars, Live
  <2>2. \A s \in Tasks : Busy(s)' = Busy(s)
    BY <2>1 DEF Busy
  <2>3. InFlight'
    BY <2>1, <2>2 DEF SingleExecutor, Live
  <2>4. QED
    BY <2>1, <2>3 DEF ResultOnlyWhenSettled, SettledTasksStay
<1>10. QED
  BY <1>2, <1>3, <1>4, <1>5, <1>6, <1>7, <1>8, <1>9
     DEF DispatchAction, TaskClaimStep, ClaimOpen, ClaimEmpty, TaskDaemonStep, ResultStep

\* No dispatch step inserts or deletes a task.
LEMMA DispatchAges ==
  ASSUME TypeInv, DispatchAction
  PROVE  \A t \in Tasks : task'[t].life = task[t].life
<1>1. task \in [Tasks -> TaskRow]
  BY DEF TypeInv, TypeOK, TaskTypeOK
<1>2. ASSUME NEW t, NEW d, NEW x,
             task' = [task EXCEPT ![t].dispatch = d, ![t].result = x]
      PROVE  \A s \in Tasks : task'[s].life = task[s].life
  BY <1>1, <1>2 DEF TaskRow
<1>3. ASSUME NEW t, MarkRunning(t)
      PROVE  \A s \in Tasks : task'[s].life = task[s].life
  BY <1>1, <1>3 DEF MarkRunning, TaskRow
<1>4. ASSUME NEW h \in Posts, ResultWrite(h)
      PROVE  \A s \in Tasks : task'[s].life = task[s].life
  BY <1>2, <1>4 DEF ResultWrite, UpdateDispatchStatus
<1>5. ASSUME NEW c \in Connectors, NEW t \in Tasks, ClaimStale(c, t) \/ ClaimTake(c, t)
      PROVE  \A s \in Tasks : task'[s].life = task[s].life
  BY <1>2, <1>3, <1>5 DEF ClaimStale, ClaimTake
<1>6. ASSUME NEW t \in Tasks, Requeue(t)
      PROVE  \A s \in Tasks : task'[s].life = task[s].life
  BY <1>2, <1>6 DEF Requeue, RequeueDispatchTask
<1>7. QED
  BY <1>4, <1>5, <1>6 DEF DispatchAction, TaskClaimStep, ClaimOpen, ClaimEmpty,
     TaskDaemonStep, LoseTask, PostTaskResult, ResultStep, ResultCheck

LEMMA DispatchInvStep ==
  ASSUME DispatchInv, [Next]_vars
  PROVE  DispatchInv' /\ (SettledTasksStay \/ UNCHANGED vars)
<1>1. TypeInv'
  BY TypeStep DEF DispatchInv
<1>2. CASE DispatchAction
  BY <1>1, <1>2, InFlightDispatch DEF DispatchInv
<1>3. CASE (ReviewAction \/ ItemAction \/ TaskAction) /\ UNCHANGED taskDispatchVars
  <2>1. OutsideDispatch
    BY <1>3, ReviewOutside, ItemOutside, TaskOutside DEF DispatchInv
  <2>2. QED
    BY <1>1, <1>3, <2>1, InFlightOutside DEF DispatchInv
<1>4. ASSUME NEW r \in Roles, Deploy(r)
      PROVE  DispatchInv' /\ SettledTasksStay
  <2>1. /\ task' = task /\ work' = work
        /\ \A h \in Posts : post'[h] = NoPost
        /\ None \notin Tasks
    BY <1>4, TaskAssumption DEF Deploy
  <2>2. \A t \in Tasks : Busy(t)' => Busy(t)
    BY <2>1 DEF Busy, NoPost
  <2>3. SingleExecutor'
    BY <2>1, <2>2 DEF DispatchInv, InFlight, SingleExecutor, Live, NoPost
  <2>4. QED
    BY <1>1, <2>1, <2>2, <2>3 DEF DispatchInv, InFlight, NoPost,
       ResultOnlyWhenSettled, SettledTasksStay
<1>5. CASE UNCHANGED vars
  BY <1>1, <1>5 DEF DispatchInv, InFlight, SingleExecutor, Busy, Live,
     ResultOnlyWhenSettled, vars, store, taskDispatchVars
<1>6. QED
  BY <1>2, <1>3, <1>4, <1>5 DEF Next

LEMMA DispatchInvInit == Init => DispatchInv
<1> SUFFICES ASSUME Init PROVE DispatchInv
  OBVIOUS
<1>1. TypeInv
  BY TypeInit
<1>2. InFlight /\ ResultOnlyWhenSettled
  BY TaskAssumption DEF Init, TaskInit, TaskDispatchInit, Blank, NoPost, InFlight, SingleExecutor,
     Busy, Live, ResultOnlyWhenSettled
<1>3. QED
  BY <1>1, <1>2 DEF DispatchInv

\* Without leases, holders or fences in the table, a task is with at most one
\* daemon or result request, and running while it is.
THEOREM OneExecutorPerTask == Safety => []SingleExecutor
<1>1. DispatchInv /\ [Next]_vars => DispatchInv'
  BY DispatchInvStep
<1>2. DispatchInv => SingleExecutor
  BY DEF DispatchInv, InFlight
<1>3. QED
  BY DispatchInvInit, <1>1, <1>2, PTL DEF Safety

\* A task shows a result exactly when it is completed or failed.
THEOREM ResultsOfSettledTasks == Safety => []ResultOnlyWhenSettled
<1>1. DispatchInv /\ [Next]_vars => DispatchInv'
  BY DispatchInvStep
<1>2. DispatchInv => ResultOnlyWhenSettled
  BY DEF DispatchInv
<1>3. QED
  BY DispatchInvInit, <1>1, <1>2, PTL DEF Safety

\* No result is ever overwritten: the unguarded UPDATE of a result request
\* always meets the attempt it belongs to.
THEOREM SettledTasksFinal == Safety => SettledTaskIsFinal
<1>1. DispatchInv /\ [Next]_vars => DispatchInv'
  BY DispatchInvStep
<1>2. DispatchInv /\ [Next]_vars => [SettledTasksStay]_vars
  BY DispatchInvStep
<1>3. QED
  BY DispatchInvInit, <1>1, <1>2, PTL DEF Safety, SettledTaskIsFinal
-----------------------------------------------------------------------------
(* Applies: one task per candidate, one open task per title                *)

\* When titles of tasks are fixed and closed tasks stay closed.
TitlesKept == TaskEdits \cap {"rename", "reopen"} = {}

\* What a step does to a task that came from an apply, unless it is the step
\* that creates it.
Kept(t) ==
  FromApply(t)' =>
    /\ FromApply(t)
    /\ task'[t].cand \in {task[t].cand, None}
    /\ task'[t].project = task[t].project
    /\ TitlesKept => task'[t].title = task[t].title /\ (task'[t].open => task[t].open)

LEMMA InsertKeeps ==
  ASSUME TypeInv, NEW t \in Tasks, NEW row, Insert(t, row), row.kind # "applied_candidate"
  PROVE  \A s \in Tasks : Kept(s)
<1>1. task' = [task EXCEPT ![t] = row]
  BY DEF Insert
<1>2. QED
  BY <1>1 DEF TypeInv, TypeOK, TaskTypeOK, Kept, FromApply, Live

LEMMA TasksKept ==
  ASSUME TypeInv, [Next]_vars, \A h \in Applies, t \in Tasks : ~ ApplyCreate(h, t)
  PROVE  \A t \in Tasks : Kept(t)
<1> DEFINE Goal == \A t \in Tasks : Kept(t)
<1>1. task \in [Tasks -> TaskRow]
  BY DEF TypeInv, TypeOK, TaskTypeOK
<1>2. CASE UNCHANGED task
  BY <1>2 DEF Kept, FromApply, Live
<1>3. ASSUME NEW t \in Tasks, NEW d, NEW x,
             task' = [task EXCEPT ![t].dispatch = d, ![t].result = x]
      PROVE  Goal
  BY <1>1, <1>3 DEF Kept, FromApply, Live, TaskRow
<1>4. CASE DispatchAction
  <2>1. ASSUME NEW c \in Connectors, NEW t \in Tasks, ClaimTake(c, t)
        PROVE  Goal
    BY <1>1, <2>1 DEF ClaimTake, MarkRunning, Kept, FromApply, Live, TaskRow
  <2>2. ASSUME NEW c \in Connectors, NEW t \in Tasks, ClaimStale(c, t)
        PROVE  Goal
    BY <2>2, <1>3 DEF ClaimStale
  <2>3. ASSUME NEW h \in Posts, ResultWrite(h)
        PROVE  Goal
    <3>1. CASE post[h].t \in Tasks
      BY <1>2, <1>3, <2>3, <3>1 DEF ResultWrite, UpdateDispatchStatus
    <3>2. CASE post[h].t \notin Tasks
      BY <1>1, <2>3, <3>2 DEF ResultWrite, UpdateDispatchStatus, Kept, FromApply, Live
    <3>3. QED
      BY <3>1, <3>2
  <2>4. ASSUME NEW t \in Tasks, Requeue(t)
        PROVE  Goal
    BY <2>4, <1>3 DEF Requeue, RequeueDispatchTask
  <2>5. QED
    BY <1>2, <1>4, <2>1, <2>2, <2>3, <2>4 DEF DispatchAction, TaskClaimStep, ClaimOpen,
       ClaimEmpty, TaskDaemonStep, LoseTask, PostTaskResult, ResultStep, ResultCheck
<1>5. CASE ReviewAction
  <2>1. ASSUME NEW q \in Requirements, DeleteRequirement(q)
        PROVE  Goal
    <3>1. ASSUME NEW t \in Tasks
          PROVE  Kept(t)
      <4>1. PICK x \in {task[t].req, None}, y \in {task[t].cand, None} :
              task'[t] = [task[t] EXCEPT !.req = x, !.cand = y]
        BY <2>1 DEF DeleteRequirement
      <4>2. task[t] \in TaskRow
        BY <1>1
      <4>3. QED
        BY <4>1, <4>2 DEF TaskRow, Kept, FromApply, Live
    <3>2. QED
      BY <3>1
  <2>2. QED
    BY <1>2, <1>5, <2>1 DEF ReviewAction, RequirementAction, EditWrite, EditRead,
       ApplyStep, ApplyAbort, ApplyBegin, ApplyLockTitle, ApplyFound, ApplyDecide,
       ApplyPromote, SetRequirementStatus, DeleteRequirementCheck, store
<1>6. CASE ItemAction
  <2>1. ASSUME NEW i \in Items, NEW t \in Tasks, CommitToTask(i, t)
        PROVE  Goal
    BY <2>1, InsertKeeps DEF CommitToTask, Blank
  <2>2. QED
    BY <1>2, <1>6, <2>1 DEF ItemAction, CreateItem, ItemEditRead, ItemEditWrite, store
<1>7. CASE TaskAction
  <2>1. ASSUME NEW t \in Tasks, NEW p, NEW title, NEW role, CreateTask(t, p, title, role)
        PROVE  Goal
    BY <2>1, InsertKeeps DEF CreateTask, Blank
  <2>2. ASSUME NEW t \in Tasks, UpdateTask(t)
        PROVE  Goal
    <3>1. ASSUME NEW title \in Titles, "rename" \in TaskEdits,
                 task' = [task EXCEPT ![t].title = title]
          PROVE  Goal
      BY <1>1, <3>1 DEF TitlesKept, Kept, FromApply, Live, TaskRow
    <3>2. CASE task' = [task EXCEPT ![t].open = FALSE]
      BY <1>1, <3>2 DEF Kept, FromApply, Live, TaskRow
    <3>3. CASE "reopen" \in TaskEdits /\ task' = [task EXCEPT ![t].open = TRUE]
      BY <1>1, <3>3 DEF TitlesKept, Kept, FromApply, Live, TaskRow
    <3>4. QED
      BY <2>2, <3>1, <3>2, <3>3 DEF UpdateTask
  <2>3. ASSUME NEW t \in Tasks, DeleteTask(t)
        PROVE  Goal
    BY <1>1, <2>3 DEF DeleteTask, Blank, Kept, FromApply, Live
  <2>4. QED
    BY <1>7, <2>1, <2>2, <2>3 DEF TaskAction
<1>8. QED
  BY <1>2, <1>4, <1>5, <1>6, <1>7 DEF Next, Deploy, vars, store

\* The title of a candidate is fixed while an apply holds its row.
LEMMA TitleFixed ==
  ASSUME TypeInv, [Next]_vars, NEW c \in Candidates, RowLocked(c)
  PROVE  cand'[c].title = cand[c].title
<1>1. cand \in [Candidates -> Candidate]
  BY DEF TypeInv, TypeOK, ReviewTypeOK
<1>2. CASE UNCHANGED cand
  BY <1>2
<1>3. ASSUME NEW e \in Edits, EditWrite(e)
      PROVE  cand'[c].title = cand[c].title
  BY <1>1, <1>3 DEF EditWrite
<1>4. ASSUME NEW h \in Applies, ApplyFound(h)
      PROVE  cand'[c].title = cand[c].title
  BY <1>1, <1>4 DEF ApplyFound, Candidate
<1>5. ASSUME NEW h \in Applies, NEW t \in Tasks, ApplyCreate(h, t)
      PROVE  cand'[c].title = cand[c].title
  BY <1>1, <1>5 DEF ApplyCreate, Candidate
<1>6. ASSUME NEW q \in Requirements, DeleteRequirement(q)
      PROVE  cand'[c].title = cand[c].title
  BY <1>1, <1>6 DEF DeleteRequirement, Candidate
<1>7. CASE ReviewAction
  BY <1>2, <1>3, <1>4, <1>5, <1>6, <1>7 DEF ReviewAction, RequirementAction, EditRead,
     ApplyStep, ApplyAbort, ApplyBegin, ApplyLockTitle, ApplyDecide,
     ApplyPromote, SetRequirementStatus, DeleteRequirementCheck
<1>8. QED
  BY <1>2, <1>7 DEF Next, Deploy, vars, reviewVars
\* A request slot that a step may free or move on; every other one stays.
SlotFreed(h) == apply' = [apply EXCEPT ![h] = NoApply]

\* What a step does to the requests for an apply.
LEMMA ApplySteps ==
  ASSUME TypeInv, [Next]_vars
  PROVE  \/ apply' = apply
         \/ \A h \in Applies : apply'[h] = NoApply
         \/ \E h \in Applies :
              \/ SlotFreed(h)
              \/ \E c \in Candidates, role \in Roles \cup {None} : ApplyBegin(h, c, role)
              \/ ApplyLockTitle(h)
              \/ ApplyDecide(h) /\ ToApply(h, "create") /\ ~ Refused(apply[h].c)
              \/ \E t \in Tasks : ApplyCreate(h, t)
<1>1. CASE ReviewAction
  BY <1>1 DEF ReviewAction, RequirementAction, EditWrite, EditRead, ApplyStep, ApplyAbort,
     ApplyFound, ApplyDecide, ApplyPromote, EndApply, SlotFreed, SetRequirementStatus,
     DeleteRequirement, DeleteRequirementCheck
<1>2. ASSUME NEW r \in Roles, Deploy(r)
      PROVE  \A h \in Applies : apply'[h] = NoApply
  BY <1>2 DEF Deploy
<1>3. QED
  BY <1>1, <1>2 DEF Next, vars, reviewVars

\* How a request comes to hold a title lock.
LEMMA SlotSteps ==
  ASSUME TypeInv, [Next]_vars, NEW h \in Applies, apply'[h].pc \in {"title", "create"}
  PROVE  \/ apply'[h] = apply[h]
         \/ ApplyLockTitle(h)
         \/ ApplyDecide(h) /\ ToApply(h, "create") /\ ~ Refused(apply[h].c)
<1>1. apply \in [Applies -> ApplyRequest]
  BY DEF TypeInv, TypeOK, ReviewTypeOK
<1>2. CASE apply'[h] # apply[h]
  <2>1. PICK g \in Applies :
          \/ SlotFreed(g)
          \/ \E c \in Candidates, role \in Roles \cup {None} : ApplyBegin(g, c, role)
          \/ ApplyLockTitle(g)
          \/ ApplyDecide(g) /\ ToApply(g, "create") /\ ~ Refused(apply[g].c)
          \/ \E t \in Tasks : ApplyCreate(g, t)
    BY <1>2, ApplySteps DEF NoApply
  <2>2. g = h
    BY <1>1, <1>2, <2>1 DEF SlotFreed, ApplyBegin, ApplyLockTitle, ApplyCreate, ToApply
  <2>3. ~ SlotFreed(h)
    BY <1>1 DEF SlotFreed, NoApply
  <2>4. ASSUME NEW c, NEW role PROVE ~ ApplyBegin(h, c, role)
    BY <1>1 DEF ApplyBegin
  <2>5. ASSUME NEW t PROVE ~ ApplyCreate(h, t)
    BY <1>1 DEF ApplyCreate, ToApply, ApplyRequest
  <2>6. QED
    BY <2>1, <2>2, <2>3, <2>4, <2>5
<1>3. QED
  BY <1>2

\* At most one request holds the row of a candidate.
RowLockExclusive ==
  \A g, h \in Applies :
    /\ apply[g].pc \in {"row", "title", "create"}
    /\ apply[h].pc \in {"row", "title", "create"}
    /\ apply[g].c = apply[h].c
    => g = h

\* A request that has decided to create a task is the only one to do so, and
\* what it has looked up still holds.
StillUnapplied ==
  \A h \in Applies, t \in Tasks :
    apply[h].pc = "create" => ~ (FromApply(t) /\ task[t].cand = apply[h].c)

\* The inductive invariant.
ApplyInv ==
  /\ TypeInv
  /\ RowLockExclusive
  /\ StillUnapplied
  /\ AppliedOnce

LEMMA RowLockStep ==
  ASSUME ApplyInv, [Next]_vars
  PROVE  RowLockExclusive'
<1>1. apply \in [Applies -> ApplyRequest]
  BY DEF ApplyInv, TypeInv, TypeOK, ReviewTypeOK
<1>2. RowLockExclusive
  BY DEF ApplyInv
<1>3. ASSUME NEW h \in Applies, NEW c \in Candidates, NEW role, ApplyBegin(h, c, role)
      PROVE  RowLockExclusive'
  BY <1>1, <1>2, <1>3 DEF ApplyBegin, RowLocked, RowLockExclusive
<1>4. ASSUME NEW h \in Applies, NEW pc, ToApply(h, pc),
             \/ apply[h].pc \in {"row", "title", "create"}
             \/ pc \notin {"row", "title", "create"}
      PROVE  RowLockExclusive'
  BY <1>1, <1>2, <1>4 DEF ToApply, RowLockExclusive, ApplyRequest
<1>5. ASSUME NEW h \in Applies, SlotFreed(h)
      PROVE  RowLockExclusive'
  BY <1>1, <1>2, <1>5 DEF SlotFreed, NoApply, RowLockExclusive
<1>6. ASSUME \A h \in Applies : apply'[h] = NoApply
      PROVE  RowLockExclusive'
  BY <1>6 DEF NoApply, RowLockExclusive
<1>7. CASE apply' = apply
  BY <1>2, <1>7 DEF RowLockExclusive
<1>8. TypeInv
  BY DEF ApplyInv
<1>9. QED
  BY <1>3, <1>4, <1>5, <1>6, <1>7, <1>8, ApplySteps
     DEF ApplyLockTitle, ApplyDecide, ApplyCreate

LEMMA AppliedOnceStep ==
  ASSUME ApplyInv, [Next]_vars
  PROVE  StillUnapplied' /\ AppliedOnce'
<1>1. /\ apply \in [Applies -> ApplyRequest]
      /\ task \in [Tasks -> TaskRow]
      /\ None \notin Candidates
      /\ TypeInv
      /\ \A h \in Applies : apply[h].pc = "create" => apply[h].c \in Candidates
  BY TaskAssumption DEF ApplyInv, TypeInv, TypeOK, ReviewTypeOK, TaskTypeOK, RequestsNamed
<1>2. ASSUME NEW h \in Applies, NEW t \in Tasks, ApplyCreate(h, t)
      PROVE  StillUnapplied' /\ AppliedOnce'
  <2>1. PICK c \in Candidates : c = apply[h].c
    BY <1>1, <1>2 DEF ApplyCreate
  <2>2. /\ task'[t].cand = c
        /\ \A s \in Tasks \ {t} : task'[s] = task[s]
    BY <1>1, <1>2, <2>1 DEF ApplyCreate, Insert, Blank
  <2>3. /\ apply[h].pc = "create"
        /\ apply'[h].pc = "promote"
        /\ \A g \in Applies \ {h} : apply'[g] = apply[g]
    BY <1>1, <1>2 DEF ApplyCreate, ToApply, ApplyRequest
  <2>4. \A s \in Tasks : FromApply(s) => task[s].cand # c
    BY <2>1, <2>3 DEF ApplyInv, StillUnapplied
  <2>5. AppliedOnce'
    BY <2>2, <2>4 DEF ApplyInv, AppliedOnce, FromApply, Live
  <2>6. \A g \in Applies \ {h} : apply[g].pc = "create" => apply[g].c # c
    BY <2>1, <2>3 DEF ApplyInv, RowLockExclusive
  <2>7. StillUnapplied'
    BY <2>2, <2>3, <2>6 DEF ApplyInv, StillUnapplied, FromApply, Live
  <2>8. QED
    BY <2>5, <2>7
<1>3. ASSUME \A h \in Applies, t \in Tasks : ~ ApplyCreate(h, t)
      PROVE  StillUnapplied' /\ AppliedOnce'
  <2>1. \A t \in Tasks : Kept(t)
    BY <1>1, <1>3, TasksKept
  <2>2. AppliedOnce'
    BY <2>1 DEF Kept, ApplyInv, AppliedOnce
  <2>3. ASSUME NEW h \in Applies, apply'[h].pc = "create"
        PROVE  /\ apply'[h].c \in Candidates
               /\ \A t \in Tasks : FromApply(t) => task[t].cand # apply'[h].c
    <3>1. CASE apply'[h] = apply[h]
      BY <1>1, <2>3, <3>1 DEF ApplyInv, StillUnapplied
    <3>2. CASE apply'[h] # apply[h]
      <4>1. ApplyDecide(h) /\ ToApply(h, "create")
        BY <1>1, <1>3, <2>3, <3>2, SlotSteps DEF ApplyLockTitle, ToApply, ApplyRequest
      <4>2. apply'[h].c = apply[h].c /\ apply[h].pc = "title"
        BY <1>1, <4>1 DEF ToApply, ApplyDecide, ApplyRequest
      <4>3. \A t \in Tasks : ~ AppliedTask(apply[h].c, t)
        BY <4>1 DEF ApplyDecide
      <4>4. apply[h].c \in Candidates
        BY <4>2 DEF ApplyInv, TypeInv, RequestsNamed
      <4>5. QED
        BY <4>2, <4>3, <4>4 DEF AppliedTask, FromApply
    <3>3. QED
      BY <3>1, <3>2
  <2>4. StillUnapplied'
    BY <1>1, <2>1, <2>3 DEF Kept, StillUnapplied
  <2>5. QED
    BY <2>2, <2>4
<1>4. QED
  BY <1>2, <1>3
\* At most one request holds the lock on a title of a project.
TitleLockExclusive ==
  \A g, h \in Applies :
    /\ apply[g].pc \in {"title", "create"}
    /\ apply[h].pc \in {"title", "create"}
    /\ ProjectOf[ReqOf[apply[g].c]] = ProjectOf[ReqOf[apply[h].c]]
    /\ GoKey[cand[apply[g].c].title] = GoKey[cand[apply[h].c].title]
    => g = h

\* The title a request is about to use is still free among applied tasks.
TitleStillFree ==
  \A h \in Applies, t \in Tasks :
    /\ apply[h].pc = "create"
    /\ FromApply(t) /\ task[t].open
    /\ task[t].project = ProjectOf[ReqOf[apply[h].c]]
    /\ FoldsAlike(task[t].title)
    => GoKey[task[t].title] # GoKey[cand[apply[h].c].title]

\* Ids are used in order.
IdsInOrder ==
  \A s, t \in Tasks :
    s < t /\ task[t].life # "absent" => task[s].life # "absent"

\* The inductive invariant.
TitleInv ==
  /\ ApplyInv
  /\ IdsInOrder
  /\ TitleLockExclusive
  /\ TitleStillFree
  /\ OneOpenTaskPerTitle

\* A request that holds a title lock after a step held the row before it, and
\* its candidate and title are the same.
LEMMA TitleHeld ==
  ASSUME ApplyInv, [Next]_vars, NEW h \in Applies, apply'[h].pc \in {"title", "create"}
  PROVE  /\ apply[h].pc \in {"row", "title", "create"}
         /\ apply'[h].c = apply[h].c
         /\ cand'[apply[h].c].title = cand[apply[h].c].title
<1>1. TypeInv /\ apply \in [Applies -> ApplyRequest]
  BY DEF ApplyInv, TypeInv, TypeOK, ReviewTypeOK
<1>2. apply[h].pc \in {"row", "title", "create"} /\ apply'[h].c = apply[h].c
  BY <1>1, SlotSteps DEF ApplyLockTitle, ApplyDecide, ToApply, ApplyRequest
<1>3. apply[h].c \in Candidates
  BY <1>1, <1>2 DEF TypeInv, RequestsNamed
<1>4. RowLocked(apply[h].c)
  BY <1>2 DEF RowLocked
<1>5. QED
  BY <1>1, <1>2, <1>3, <1>4, TitleFixed

LEMMA IdsStep ==
  ASSUME TypeInv, IdsInOrder, [Next]_vars
  PROVE  IdsInOrder'
<1> DEFINE Aged(t) == \/ task[t].life # "absent" /\ task'[t].life # "absent"
                      \/ task'[t].life = task[t].life
                      \/ Fresh(t)
<1>1. ASSUME NEW t \in Tasks
      PROVE  Aged(t)
  <2>1. CASE DispatchAction
    BY <2>1, DispatchAges
  <2>2. CASE ReviewAction \/ ItemAction \/ TaskAction
    BY <2>2, ReviewOutside, ItemOutside, TaskOutside
       DEF OutsideDispatch, SameDispatch, Inserted, Removed
  <2>3. CASE UNCHANGED task
    BY <2>3
  <2>4. QED
    BY <2>1, <2>2, <2>3 DEF Next, Deploy, vars, store
<1>2. ASSUME NEW s \in Tasks, NEW t \in Tasks, s < t, task'[t].life # "absent",
             task'[s].life = "absent"
      PROVE  FALSE
  <2>1. task[s].life = "absent"
    BY <1>1, <1>2 DEF Fresh
  <2>2. task[t].life = "absent"
    BY <1>2, <2>1 DEF IdsInOrder
  <2>3. Fresh(t)
    BY <1>1, <1>2, <2>2
  <2>4. QED
    BY <1>2, <2>1, <2>3 DEF Fresh
<1>3. QED
  BY <1>2 DEF IdsInOrder

LEMMA TitleLockStep ==
  ASSUME TitleInv, [Next]_vars
  PROVE  TitleLockExclusive'
<1>1. TypeInv /\ ApplyInv /\ apply \in [Applies -> ApplyRequest]
  BY DEF TitleInv, ApplyInv, TypeInv, TypeOK, ReviewTypeOK
<1>2. ASSUME NEW g \in Applies, NEW h \in Applies, g # h,
             apply'[g].pc \in {"title", "create"}, apply'[h].pc \in {"title", "create"},
             ProjectOf[ReqOf[apply'[g].c]] = ProjectOf[ReqOf[apply'[h].c]],
             GoKey[cand'[apply'[g].c].title] = GoKey[cand'[apply'[h].c].title]
      PROVE  FALSE
  <2>1. /\ ProjectOf[ReqOf[apply[g].c]] = ProjectOf[ReqOf[apply[h].c]]
        /\ GoKey[cand[apply[g].c].title] = GoKey[cand[apply[h].c].title]
    BY <1>1, <1>2, TitleHeld
  <2>2. ~ (apply[g].pc \in {"title", "create"} /\ apply[h].pc \in {"title", "create"})
    BY <1>2, <2>1 DEF TitleInv, TitleLockExclusive
  <2>3. ASSUME NEW k \in Applies, NEW l \in Applies, k # l,
               apply'[l].pc \in {"title", "create"},
               ProjectOf[ReqOf[apply[k].c]] = ProjectOf[ReqOf[apply[l].c]],
               GoKey[cand[apply[k].c].title] = GoKey[cand[apply[l].c].title]
        PROVE  ~ ApplyLockTitle(k)
    <3>1. SUFFICES ASSUME ApplyLockTitle(k) PROVE FALSE
      OBVIOUS
    <3>2. apply'[l] = apply[l]
      BY <1>1, <2>3, <3>1 DEF ApplyLockTitle, ToApply
    <3>3. TitleLocked(ProjectOf[ReqOf[apply[k].c]], GoKey[cand[apply[k].c].title])
      BY <2>3, <3>2 DEF TitleLocked
    <3>4. QED
      BY <3>1, <3>3 DEF ApplyLockTitle
  <2>4. ~ ApplyLockTitle(g) /\ ~ ApplyLockTitle(h)
    BY <1>2, <2>1, <2>3
  <2>5. apply[g].pc \in {"title", "create"} /\ apply[h].pc \in {"title", "create"}
    BY <1>1, <1>2, <2>4, SlotSteps DEF ApplyDecide
  <2>6. QED
    BY <2>2, <2>5
<1>3. QED
  BY <1>2 DEF TitleLockExclusive

LEMMA TitleStep ==
  ASSUME TitlesKept, TitleInv, [Next]_vars
  PROVE  TitleStillFree' /\ OneOpenTaskPerTitle'
<1>1. /\ ApplyInv
      /\ TypeInv
      /\ apply \in [Applies -> ApplyRequest]
      /\ task \in [Tasks -> TaskRow]
      /\ cand \in [Candidates -> Candidate]
  BY DEF TitleInv, ApplyInv, TypeInv, TypeOK, ReviewTypeOK, TaskTypeOK
<1>2. ASSUME NEW h \in Applies, NEW t \in Tasks, ApplyCreate(h, t)
      PROVE  TitleStillFree' /\ OneOpenTaskPerTitle'
  <2>1. /\ task[t].life = "absent"
        /\ task'[t].project = ProjectOf[ReqOf[apply[h].c]]
        /\ task'[t].title = cand[apply[h].c].title
        /\ \A s \in Tasks \ {t} : task'[s] = task[s]
    BY <1>1, <1>2 DEF ApplyCreate, Insert, Fresh, Blank
  <2>2. /\ apply[h].pc = "create"
        /\ apply'[h].pc = "promote"
        /\ \A g \in Applies \ {h} : apply'[g] = apply[g]
    BY <1>1, <1>2 DEF ApplyCreate, ToApply, ApplyRequest
  <2>3. OneOpenTaskPerTitle'
    <3>1. SUFFICES ASSUME NEW u \in Tasks, NEW v \in Tasks,
                          FromApply(u)', FromApply(v)', task'[u].open, task'[v].open,
                          task'[u].project = task'[v].project,
                          FoldsAlike(task'[u].title),
                          GoKey[task'[u].title] = GoKey[task'[v].title],
                          ~ (v <= u)
                   PROVE  FALSE
      BY DEF OneOpenTaskPerTitle, FoldsAlike
    <3>2. u < v /\ u # v
      <4>1. u \in Nat /\ v \in Nat
        BY TaskAssumption
      <4>2. QED
        BY <3>1, <4>1
    <3>3. CASE v = t
      BY <2>1, <2>2, <3>1, <3>2, <3>3 DEF TitleInv, TitleStillFree, FromApply, Live
    <3>4. CASE u = t
      BY <2>1, <3>1, <3>2, <3>4 DEF TitleInv, IdsInOrder, FromApply, Live
    <3>5. CASE u # t /\ v # t
      BY <2>1, <3>1, <3>5 DEF TitleInv, OneOpenTaskPerTitle, FromApply, Live
    <3>6. QED
      BY <3>3, <3>4, <3>5
  <2>4. ASSUME NEW g \in Applies, apply'[g].pc = "create"
        PROVE  /\ g # h
               /\ apply'[g] = apply[g]
               /\ cand'[apply[g].c].title = cand[apply[g].c].title
    BY <1>1, <2>2, <2>4, TitleHeld
  <2>5. ASSUME NEW g \in Applies, apply'[g].pc = "create",
               task'[t].project = ProjectOf[ReqOf[apply'[g].c]]
        PROVE  GoKey[task'[t].title] # GoKey[cand'[apply'[g].c].title]
    <3>1. /\ g # h
          /\ apply[g].pc = "create"
          /\ apply'[g].c = apply[g].c
          /\ cand'[apply'[g].c].title = cand[apply[g].c].title
      BY <2>4, <2>5
    <3>2. GoKey[cand[apply[g].c].title] # GoKey[cand[apply[h].c].title]
      BY <2>1, <2>2, <2>5, <3>1 DEF TitleInv, TitleLockExclusive
    <3>3. QED
      BY <2>1, <3>1, <3>2
  <2>6. TitleStillFree'
    BY <2>1, <2>4, <2>5 DEF TitleInv, TitleStillFree, FromApply, Live, FoldsAlike
  <2>7. QED
    BY <2>3, <2>6
<1>3. ASSUME \A h \in Applies, t \in Tasks : ~ ApplyCreate(h, t)
      PROVE  TitleStillFree' /\ OneOpenTaskPerTitle'
  <2>1. \A t \in Tasks : Kept(t)
    BY <1>1, <1>3, TasksKept
  <2>2. OneOpenTaskPerTitle'
    BY <2>1 DEF Kept, TitleInv, OneOpenTaskPerTitle
  <2>3. ASSUME NEW h \in Applies, apply'[h].pc = "create"
        PROVE  /\ apply'[h].c = apply[h].c
               /\ cand'[apply[h].c].title = cand[apply[h].c].title
               /\ \A t \in Tasks :
                    FromApply(t) /\ task[t].open
                    /\ task[t].project = ProjectOf[ReqOf[apply[h].c]]
                    /\ FoldsAlike(task[t].title)
                      => GoKey[task[t].title] # GoKey[cand[apply[h].c].title]
    <3>1. /\ apply'[h].c = apply[h].c
          /\ cand'[apply[h].c].title = cand[apply[h].c].title
      BY <1>1, <2>3, TitleHeld
    <3>2. CASE apply'[h] = apply[h]
      BY <2>3, <3>1, <3>2 DEF TitleInv, TitleStillFree
    <3>3. CASE ~ Refused(apply[h].c)
      BY <3>1, <3>3 DEF Refused, DuplicateTitle, FromApply, FoldsAlike
    <3>4. ~ ApplyLockTitle(h)
      BY <1>1, <2>3 DEF ApplyLockTitle, ToApply, ApplyRequest
    <3>5. QED
      BY <1>1, <2>3, <3>2, <3>3, <3>4, SlotSteps
  <2>4. TitleStillFree'
    BY <2>1, <2>3 DEF Kept, TitleStillFree, FoldsAlike
  <2>5. QED
    BY <2>2, <2>4
<1>4. QED
  BY <1>2, <1>3

LEMMA ApplyInvInit == Init => ApplyInv
<1> SUFFICES ASSUME Init PROVE ApplyInv
  OBVIOUS
<1>1. TypeInv
  BY TypeInit
<1>2. RowLockExclusive /\ StillUnapplied /\ AppliedOnce
  BY DEF Init, TaskInit, ReviewInit, Blank, NoApply, RowLockExclusive, StillUnapplied,
     AppliedOnce, FromApply, Live
<1>3. QED
  BY <1>1, <1>2 DEF ApplyInv

LEMMA ApplyInvStep == ApplyInv /\ [Next]_vars => ApplyInv'
BY TypeStep, RowLockStep, AppliedOnceStep DEF ApplyInv

\* When users neither rename nor reopen tasks, no apply adds an open task to one
\* of the same normalised title in its project, although titles of candidates
\* are edited: of titles that SQL folds as Go does.
THEOREM TitlesUsedOnce ==
  ASSUME TitlesKept
  PROVE  Safety => []OneOpenTaskPerTitle
<1>1. Init => TitleInv
  BY ApplyInvInit DEF Init, TaskInit, ReviewInit, Blank, NoApply, TitleInv,
     IdsInOrder, TitleLockExclusive, TitleStillFree, OneOpenTaskPerTitle, FromApply, Live
<1>2. TitleInv /\ [Next]_vars => TitleInv'
  BY ApplyInvStep, IdsStep, TitleLockStep, TitleStep DEF TitleInv, ApplyInv
<1>3. TitleInv => OneOpenTaskPerTitle
  BY DEF TitleInv
<1>4. QED
  BY <1>1, <1>2, <1>3, PTL DEF Safety

\* A candidate has at most one task from applies, whatever PATCH requests
\* write over its status.
THEOREM CandidatesAppliedOnce == Safety => []AppliedOnce
<1>1. ApplyInv => AppliedOnce
  BY DEF ApplyInv
<1>2. QED
  BY ApplyInvInit, ApplyInvStep, <1>1, PTL DEF Safety
-----------------------------------------------------------------------------
(* Backlog items: one task per item                                        *)

\* The task of an item is the one the item names, and the row of an item that
\* does not exist yet names none.
ItemsLinked ==
  /\ \A t \in Tasks, i \in Items : Live(t) /\ task[t].item = i => item[i].task = t
  /\ \A i \in Items : item[i].status = "absent" => item[i].task = None

ItemInv == TypeInv /\ ItemsLinked

\* A step that links no task to an item and unlinks none of a live task.
LinksKept ==
  /\ \A t \in Tasks : Live(t)' /\ task'[t].item # None =>
       Live(t) /\ task'[t].item = task[t].item
  /\ \A i \in Items :
       /\ item'[i].task = item[i].task \/ task'[item[i].task].life # "live"
       /\ item'[i].task \in {item[i].task, None}
       /\ item'[i].status = "absent" => item[i].status = "absent"

LEMMA LinksKeptKeep ==
  ASSUME ItemInv, LinksKept
  PROVE  ItemsLinked'
<1>1. None \notin Items
  BY TaskAssumption
<1>2. ASSUME NEW t \in Tasks, NEW i \in Items, Live(t)', task'[t].item = i
      PROVE  item'[i].task = t
  <2>1. Live(t) /\ task[t].item = i
    BY <1>1, <1>2 DEF LinksKept
  <2>2. item[i].task = t
    BY <2>1 DEF ItemInv, ItemsLinked
  <2>3. QED
    BY <1>2, <2>2 DEF LinksKept, Live
<1>3. ASSUME NEW i \in Items, item'[i].status = "absent"
      PROVE  item'[i].task = None
  BY <1>3 DEF ItemInv, ItemsLinked, LinksKept
<1>4. QED
  BY <1>2, <1>3 DEF ItemsLinked

LEMMA InsertUnlinked ==
  ASSUME TypeInv, UNCHANGED item, NEW t \in Tasks, NEW row, Insert(t, row), row.item = None
  PROVE  LinksKept
<1>1. task' = [task EXCEPT ![t] = row]
  BY DEF Insert
<1>2. QED
  BY <1>1 DEF TypeInv, TypeOK, TaskTypeOK, LinksKept, Live

LEMMA ItemsLinkedStep ==
  ASSUME ItemInv, [Next]_vars
  PROVE  ItemsLinked'
<1>1. /\ TypeInv
      /\ task \in [Tasks -> TaskRow]
      /\ item \in [Items -> Item]
      /\ None \notin Items /\ None \notin Tasks
  BY TaskAssumption DEF ItemInv, TypeInv, TypeOK, TaskTypeOK, ItemTypeOK
<1>2. CASE UNCHANGED <<task, item>>
  BY <1>2, LinksKeptKeep DEF LinksKept, Live
<1>3. CASE DispatchAction /\ UNCHANGED item
  <2>1. ASSUME NEW t \in Tasks, NEW d, NEW x,
               task' = [task EXCEPT ![t].dispatch = d, ![t].result = x]
        PROVE  LinksKept
    BY <1>1, <1>3, <2>1 DEF LinksKept, Live, TaskRow
  <2>2. ASSUME NEW c \in Connectors, NEW t \in Tasks, ClaimTake(c, t)
        PROVE  LinksKept
    BY <1>1, <1>3, <2>2 DEF ClaimTake, MarkRunning, LinksKept, Live, TaskRow
  <2>3. ASSUME NEW h \in Posts, ResultWrite(h)
        PROVE  LinksKept
    <3>1. CASE post[h].t \in Tasks
      BY <1>3, <2>1, <2>3, <3>1 DEF ResultWrite, UpdateDispatchStatus, LinksKept, Live
    <3>2. CASE post[h].t \notin Tasks
      BY <1>1, <1>3, <2>3, <3>2 DEF ResultWrite, UpdateDispatchStatus, LinksKept, Live
    <3>3. QED
      BY <3>1, <3>2
  <2>4. LinksKept \/ UNCHANGED task
    BY <1>3, <2>1, <2>2, <2>3 DEF DispatchAction, TaskClaimStep, ClaimOpen, ClaimEmpty,
       ClaimStale, TaskDaemonStep, LoseTask, PostTaskResult, ResultStep, ResultCheck,
       Requeue, RequeueDispatchTask
  <2>5. QED
    BY <1>2, <1>3, <2>4, LinksKeptKeep
<1>4. CASE ReviewAction
  <2>1. ASSUME NEW q \in Requirements, DeleteRequirement(q),
               Detach({}, {c \in Candidates : ReqOf[c] = q})
        PROVE  LinksKept
    <3>1. ASSUME NEW t \in Tasks
          PROVE  task'[t].life = task[t].life /\ task'[t].item = task[t].item
      <4>1. PICK x \in {task[t].req, None}, y \in {task[t].cand, None} :
              task'[t] = [task[t] EXCEPT !.req = x, !.cand = y]
        BY <2>1 DEF DeleteRequirement
      <4>2. task[t] \in TaskRow
        BY <1>1
      <4>3. QED
        BY <4>1, <4>2 DEF TaskRow
    <3>2. ASSUME NEW i \in Items
          PROVE  item'[i].task = item[i].task /\ item'[i].status = item[i].status
      <4>1. PICK y \in {item[i].cand, None} :
              item'[i] = [item[i] EXCEPT !.task = item[i].task, !.cand = y]
        BY <2>1 DEF Detach
      <4>2. item[i] \in Item
        BY <1>1
      <4>3. QED
        BY <4>1, <4>2 DEF Item
    <3>3. QED
      BY <3>1, <3>2 DEF LinksKept, Live
  <2>2. ASSUME NEW h \in Applies, NEW t \in Tasks, ApplyCreate(h, t), UNCHANGED item
        PROVE  LinksKept
    BY <1>1, <2>2, InsertUnlinked DEF ApplyCreate, Blank
  <2>3. LinksKept \/ UNCHANGED <<task, item>>
    BY <1>4, <2>1, <2>2 DEF ReviewAction, RequirementAction, EditWrite, EditRead,
       ApplyStep, ApplyAbort, ApplyBegin, ApplyLockTitle, ApplyFound, ApplyDecide,
       ApplyPromote, SetRequirementStatus, DeleteRequirementCheck, store, itemVars
  <2>4. QED
    BY <1>2, <2>3, LinksKeptKeep
<1>5. ASSUME NEW i \in Items, NEW t \in Tasks, CommitToTask(i, t)
      PROVE  ItemsLinked'
  <2>1. /\ item[i].task = None
        /\ task'[t].item = i
        /\ \A s \in Tasks \ {t} : task'[s] = task[s]
    BY <1>1, <1>5 DEF CommitToTask, Insert, Blank
  <2>2. /\ item'[i].task = t
        /\ item'[i].status = "committed"
        /\ \A j \in Items \ {i} : item'[j] = item[j]
    BY <1>1, <1>5 DEF CommitToTask, Item
  <2>3. \A s \in Tasks \ {t} : Live(s) => task[s].item # i
    BY <1>1, <2>1 DEF ItemInv, ItemsLinked
  <2>4. QED
    BY <1>1, <2>1, <2>2, <2>3 DEF ItemInv, ItemsLinked, Live
<1>6. ASSUME NEW i \in Items, NEW p, NEW title, NEW c, NEW status \in UserStatus,
             CreateItem(i, p, title, c, status)
      PROVE  ItemsLinked'
  <2>1. /\ task' = task
        /\ item[i].task = None /\ item'[i].task = None
        /\ \A j \in Items \ {i} : item'[j] = item[j]
    BY <1>1, <1>6 DEF CreateItem, ItemInv, ItemsLinked, store
  <2>2. QED
    BY <1>1, <2>1 DEF ItemInv, ItemsLinked, Live
<1>7. ASSUME NEW e \in ItemEdits, ItemEditWrite(e)
      PROVE  ItemsLinked'
  <2>1. itemEdit[e] \in ItemEdit
    BY <1>1 DEF TypeInv, TypeOK, ItemTypeOK
  <2>2. PICK i \in Items, status \in UserStatus \cup {"committed"} :
          item' = [item EXCEPT ![i].status = status]
    BY <1>7, <2>1 DEF ItemEditWrite, ItemEdit
  <2>3. /\ item'[i].task = item[i].task
        /\ item'[i].status # "absent"
        /\ \A j \in Items \ {i} : item'[j] = item[j]
    BY <1>1, <2>2 DEF Item, UserStatus, Committable
  <2>4. QED
    BY <1>7, <2>3 DEF ItemEditWrite, ItemInv, ItemsLinked, Live, store
<1>8. CASE ItemAction
  BY <1>2, <1>5, <1>6, <1>7, <1>8 DEF ItemAction, ItemEditRead, store
<1>9. CASE TaskAction
  <2>1. ASSUME NEW t \in Tasks, NEW p, NEW title, NEW role, CreateTask(t, p, title, role),
               UNCHANGED itemVars
        PROVE  LinksKept
    BY <1>1, <2>1, InsertUnlinked DEF CreateTask, Blank, itemVars
  <2>2. ASSUME NEW t \in Tasks, UpdateTask(t), UNCHANGED itemVars
        PROVE  LinksKept
    BY <1>1, <2>2 DEF UpdateTask, LinksKept, Live, TaskRow, itemVars
  <2>3. ASSUME NEW t \in Tasks, DeleteTask(t), Detach({t}, {})
        PROVE  LinksKept
    <3>1. /\ task'[t].life = "deleted"
          /\ \A s \in Tasks \ {t} : task'[s] = task[s]
      BY <1>1, <2>3 DEF DeleteTask, Blank
    <3>2. ASSUME NEW i \in Items
          PROVE  /\ item'[i].task = IF item[i].task = t THEN None ELSE item[i].task
                 /\ item'[i].status = item[i].status
      BY <1>1, <2>3 DEF Detach, Item
    <3>3. QED
      BY <3>1, <3>2 DEF LinksKept, Live
  <2>4. QED
    BY <1>9, <2>1, <2>2, <2>3, LinksKeptKeep DEF TaskAction
<1>10. QED
  BY <1>2, <1>3, <1>4, <1>8, <1>9 DEF Next, Deploy, vars, store, itemVars

\* An item is committed to at most one task, although a stale PATCH may make it
\* look committable again.
THEOREM ItemsCommittedOnce == Safety => []CommittedOnce
<1>1. Init => ItemInv
  <2>1. Init => ItemsLinked
    BY DEF Init, TaskInit, ItemInit, Blank, Absent, ItemsLinked, Live
  <2>2. QED
    BY <2>1, TypeInit DEF ItemInv
<1>2. ItemInv /\ [Next]_vars => ItemInv'
  BY TypeStep, ItemsLinkedStep DEF ItemInv
<1>3. ItemInv => CommittedOnce
  BY DEF ItemInv, TypeInv, TypeOK, TaskTypeOK, TaskRow, ItemsLinked, CommittedOnce
<1>4. QED
  BY <1>1, <1>2, <1>3, PTL DEF Safety
=============================================================================
