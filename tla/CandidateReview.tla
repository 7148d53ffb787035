--------------------------- MODULE CandidateReview ---------------------------
(***************************************************************************)
(* Backlog candidates from review to task: BacklogCandidateStore.Update    *)
(* and ApplyToTaskWithMode (internal/store/backlog_candidate_store.go),    *)
(* their handlers, and what happens meanwhile to the requirement the       *)
(* candidates belong to (internal/store/requirement_store.go).             *)
(*                                                                         *)
(* Update reads the row, then writes all its columns.  An apply is one     *)
(* transaction that takes the row lock, then the lock on its title, then   *)
(* decides and writes; the locks are those of PostgreSQL, SQLite's single  *)
(* connection allows fewer interleavings.                                  *)
(***************************************************************************)
EXTENDS TaskStore

CONSTANTS
  ReqOf,      \* the requirement of each candidate
  ProjectOf,  \* the project of each requirement
  Edits,      \* concurrent PATCH requests
  Applies,    \* concurrent apply requests
  Keys,       \* what titles are compared by
  GoKey,      \* strings.ToLower(strings.TrimSpace(title))
  SqlKey,     \* LOWER(TRIM(title)), which need not fold the same letters
  Patches,    \* the kinds of column PATCH requests change
  Faults      \* whether the database may fail a transaction

ASSUME ReviewAssumption ==
  /\ ReqOf \in [Candidates -> Requirements]
  /\ ProjectOf \in [Requirements -> Projects]
  /\ GoKey \in [Titles -> Keys]
  /\ SqlKey \in [Titles -> Keys]
  /\ Patches \subseteq {"title", "status", "role"}
  /\ Faults \in BOOLEAN

VARIABLES
  cand,      \* the backlog_candidates rows
  audit,     \* new_value of the last audit row for execution_role
  edit,      \* the PATCH request in each slot
  apply,     \* the apply request in each slot
  req,       \* the status of each requirement
  deleting   \* requirements a DELETE request has found deletable

reviewVars == <<cand, audit, edit, apply, req, deleting>>

Review == {"draft", "approved", "rejected"}

Candidate ==
  [status : Review \cup {"applied", "deleted"}, title : Titles,
   role : Roles \cup {None}]

\* audit value before the first audited change.
Unaudited == "unaudited"

EditRequest ==
  [open : BOOLEAN, c : Candidates \cup {None}, row : Candidate \cup {None},
   roleChanged : BOOLEAN]
NoEdit == [open |-> FALSE, c |-> None, row |-> None, roleChanged |-> FALSE]

ApplyRequest ==
  [pc : {"idle", "row", "title", "create", "promote"},
   c : Candidates \cup {None}, role : Roles \cup {None}]
NoApply == [pc |-> "idle", c |-> None, role |-> None]

ReviewTypeOK ==
  /\ cand \in [Candidates -> Candidate]
  /\ audit \in [Candidates -> Roles \cup {None, Unaudited}]
  /\ edit \in [Edits -> EditRequest]
  /\ apply \in [Applies -> ApplyRequest]
  /\ req \in [Requirements -> {"draft", "planned", "archived", "deleted"}]
  /\ deleting \subseteq Requirements

\* Candidates as CreateDraftsForPlanningRun leaves them; a suggested role is
\* not audited.
ReviewInit ==
  /\ cand \in [Candidates -> [status : {"draft"}, title : Titles, role : {None}]]
  /\ audit = [c \in Candidates |-> Unaudited]
  /\ edit = [e \in Edits |-> NoEdit]
  /\ apply = [h \in Applies |-> NoApply]
  /\ req = [q \in Requirements |-> "draft"]
  /\ deleting = {}

\* FOR UPDATE locks of the applies in progress, and the advisory locks.
RowLocked(c) ==
  \E h \in Applies : apply[h].c = c /\ apply[h].pc \in {"row", "title", "create"}

TitleLocked(p, key) ==
  \E h \in Applies :
    /\ apply[h].pc \in {"title", "create"}
    /\ ProjectOf[ReqOf[apply[h].c]] = p
    /\ GoKey[cand[apply[h].c].title] = key

-----------------------------------------------------------------------------
(* PATCH backlog-candidates/:id                                            *)

\* Rows that differ from row in one column a PATCH may carry.
Patched(row) ==
  {r \in [status : Review, title : Titles, role : catalog \cup {None}] :
     \/ "title" \in Patches
          /\ r = [row EXCEPT !.title = r.title] /\ r.title # row.title
     \/ "status" \in Patches
          /\ r = [row EXCEPT !.status = r.status] /\ r.status # row.status
     \/ "role" \in Patches
          /\ r = [row EXCEPT !.role = r.role] /\ r.role # row.role}

\* GetByID, the checks and the new column values.
EditRead(e, c) ==
  /\ ~ edit[e].open
  /\ cand[c].status \in Review
  /\ \E row \in Patched(cand[c]) :
       edit' = [edit EXCEPT ![e] = [open |-> TRUE, c |-> c, row |-> row,
                                    roleChanged |-> row.role # cand[c].role]]
  /\ UNCHANGED <<store, cand, audit, apply, req, deleting>>

\* All columns are written, with the audit row if the role was patched.  The
\* UPDATE waits for the row lock and does not look at the status.
EditWrite(e) ==
  LET c == edit[e].c IN
  /\ edit[e].open
  /\ ~ RowLocked(c)
  /\ cand' = IF cand[c].status = "deleted" THEN cand
             ELSE [cand EXCEPT ![c] = edit[e].row]
  /\ audit' = IF edit[e].roleChanged
              THEN [audit EXCEPT ![c] = edit[e].row.role] ELSE audit
  /\ edit' = [edit EXCEPT ![e] = NoEdit]
  /\ UNCHANGED <<store, apply, req, deleting>>

-----------------------------------------------------------------------------
(* POST backlog-candidates/:id/apply                                       *)

ToApply(h, pc) == apply' = [apply EXCEPT ![h].pc = pc]
EndApply(h) == apply' = [apply EXCEPT ![h] = NoApply]

AppliedTask(c, t) == Live(t) /\ task[t].cand = c

\* BEGIN and SELECT ... FOR UPDATE.  None asks for a manual task.
ApplyBegin(h, c, role) ==
  /\ apply[h].pc = "idle"
  /\ role \in catalog \cup {None}
  /\ cand[c].status # "deleted"
  /\ ~ RowLocked(c)
  /\ apply' = [apply EXCEPT ![h] = [pc |-> "row", c |-> c, role |-> role]]
  /\ UNCHANGED <<store, cand, audit, edit, req, deleting>>

\* Mutant: no lock on the title.
ApplyLockTitle_Unlocked(h) ==
  /\ apply[h].pc = "row"
  /\ ToApply(h, "title")
  /\ UNCHANGED <<store, cand, audit, edit, req, deleting>>

\* lockCandidateApplyKey: the key is the title as Go normalises it.
ApplyLockTitle(h) ==
  LET c == apply[h].c IN
  /\ apply[h].pc = "row"
  /\ ~ TitleLocked(ProjectOf[ReqOf[c]], GoKey[cand[c].title])
  /\ ToApply(h, "title")
  /\ UNCHANGED <<store, cand, audit, edit, req, deleting>>

\* The candidate has a task already, from an earlier apply or from a backlog
\* item that names it: answer with that one.
ApplyFound(h) ==
  LET c == apply[h].c IN
  /\ apply[h].pc = "title"
  /\ \E t \in Tasks : AppliedTask(c, t)
  /\ cand' = [cand EXCEPT ![c].status = "applied"]
  /\ EndApply(h)
  /\ UNCHANGED <<store, audit, edit, req, deleting>>

\* findOpenTaskByNormalizedTitle: the title of the task as SQL normalises it
\* against that of the candidate as Go does.
DuplicateTitle(c) ==
  \E t \in Tasks :
    /\ Live(t) /\ task[t].open
    /\ task[t].project = ProjectOf[ReqOf[c]]
    /\ SqlKey[task[t].title] = GoKey[cand[c].title]

Refused(c) == cand[c].status = "rejected" \/ DuplicateTitle(c)

\* Mutant: whether the candidate was applied is read off its status.
ApplyDecide_ByStatus(h) ==
  LET c == apply[h].c IN
  /\ apply[h].pc = "title"
  /\ cand[c].status # "applied"
  /\ IF Refused(c) THEN EndApply(h) ELSE ToApply(h, "create")
  /\ UNCHANGED <<store, cand, audit, edit, req, deleting>>

\* Mutant: returning the error leaves the transaction open.
ApplyDecide_NoRollback(h) ==
  LET c == apply[h].c IN
  /\ apply[h].pc = "title"
  /\ ~ \E t \in Tasks : AppliedTask(c, t)
  /\ ~ Refused(c)
  /\ ToApply(h, "create")
  /\ UNCHANGED <<store, cand, audit, edit, req, deleting>>

\* Refuse and roll back, or go on to create the task.
ApplyDecide(h) ==
  LET c == apply[h].c IN
  /\ apply[h].pc = "title"
  /\ ~ \E t \in Tasks : AppliedTask(c, t)
  /\ IF Refused(c) THEN EndApply(h) ELSE ToApply(h, "create")
  /\ UNCHANGED <<store, cand, audit, edit, req, deleting>>

\* Task, lineage, status, role and audit row become visible at COMMIT.
ApplyCreate(h, t) ==
  LET c == apply[h].c
      role == apply[h].role
  IN
  /\ apply[h].pc = "create"
  /\ Insert(t, [Blank EXCEPT
                  !.life = "live", !.open = TRUE, !.title = cand[c].title,
                  !.project = ProjectOf[ReqOf[c]], !.req = ReqOf[c], !.cand = c,
                  !.kind = "applied_candidate", !.role = role,
                  !.dispatch = IF role = None THEN "none" ELSE "queued"])
  /\ cand' = [cand EXCEPT ![c].status = "applied",
                          ![c].role = IF role = None THEN @ ELSE role]
  /\ audit' = IF role \in {None, cand[c].role} THEN audit
              ELSE [audit EXCEPT ![c] = role]
  /\ ToApply(h, "promote")
  /\ UNCHANGED <<catalog, edit, req, deleting>>

\* PromoteToPlannedIfDraft, after the commit.
ApplyPromote(h) ==
  LET q == ReqOf[apply[h].c] IN
  /\ apply[h].pc = "promote"
  /\ req' = [req EXCEPT ![q] = IF @ = "draft" THEN "planned" ELSE @]
  /\ EndApply(h)
  /\ UNCHANGED <<store, cand, audit, edit, deleting>>

\* A statement fails, the database breaks a deadlock with a DELETE, or the
\* promotion fails and is only logged.
ApplyAbort(h) ==
  /\ Faults
  /\ apply[h].pc # "idle"
  /\ EndApply(h)
  /\ UNCHANGED <<store, cand, audit, edit, req, deleting>>

ApplyStep(h) ==
  \/ ApplyLockTitle(h) \/ ApplyFound(h) \/ ApplyDecide(h) \/ ApplyPromote(h)
  \/ \E t \in Tasks : ApplyCreate(h, t)

-----------------------------------------------------------------------------
(* The requirement                                                         *)

\* PATCH requirements/:id writes the status as given.
SetRequirementStatus(q, status) ==
  /\ req[q] # "deleted"
  /\ req' = [req EXCEPT ![q] = status]
  /\ UNCHANGED <<store, cand, audit, edit, apply, deleting>>

\* DELETE requirements/:id: HasAppliedTasks and HasActiveRun ...
DeleteRequirementCheck(q) ==
  /\ req[q] # "deleted"
  /\ q \notin deleting
  /\ ~ \E t \in Tasks : Live(t) /\ task[t].req = q
  /\ deleting' = deleting \cup {q}
  /\ UNCHANGED <<store, cand, audit, edit, apply, req>>

\* ... and the DELETE, which takes the candidates along and clears the
\* lineage columns that point at them.  It waits for their row locks.  The
\* rows of backlog items are left to the composition.
DeleteRequirement(q) ==
  /\ q \in deleting
  /\ \A c \in Candidates : ReqOf[c] = q => ~ RowLocked(c)
  /\ req' = [req EXCEPT ![q] = "deleted"]
  /\ cand' = [c \in Candidates |->
                IF ReqOf[c] = q THEN [cand[c] EXCEPT !.status = "deleted"] ELSE cand[c]]
  /\ task' = [t \in Tasks |->
                [task[t] EXCEPT
                   !.req = IF @ = q THEN None ELSE @,
                   !.cand = IF @ # None /\ ReqOf[@] = q THEN None ELSE @]]
  /\ deleting' = deleting \ {q}
  /\ UNCHANGED <<catalog, audit, edit, apply>>
=============================================================================
