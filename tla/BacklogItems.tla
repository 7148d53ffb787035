----------------------------- MODULE BacklogItems -----------------------------
(***************************************************************************)
(* Backlog items and their commitment to a task                            *)
(* (internal/store/backlog_item_store.go, handlers/backlog_items.go).      *)
(* CommitToTask is a transaction on the locked row.  PATCH decides on a    *)
(* row it read before, and the store writes without looking again.         *)
(***************************************************************************)
EXTENDS TaskStore

CONSTANT ItemEdits   \* concurrent PATCH requests

VARIABLES
  item,      \* the backlog_items rows
  itemEdit   \* the PATCH request in each slot

itemVars == <<item, itemEdit>>

Committable == {"triage", "ready"}
UserStatus == Committable \cup {"blocked", "archived"}

Item == [status : UserStatus \cup {"absent", "committed"},
         project : Projects \cup {None}, title : Titles \cup {None},
         cand : Candidates \cup {None}, task : Tasks \cup {None}]

Absent == [status |-> "absent", project |-> None, title |-> None,
           cand |-> None, task |-> None]

ItemEdit == [i : Items \cup {None}, status : UserStatus \cup {"committed"}]
NoItemEdit == [i |-> None, status |-> "triage"]

ItemTypeOK ==
  /\ item \in [Items -> Item]
  /\ itemEdit \in [ItemEdits -> ItemEdit]

ItemInit ==
  /\ item = [i \in Items |-> Absent]
  /\ itemEdit = [e \in ItemEdits |-> NoItemEdit]

\* Any status but committed; at most one item per candidate (unique index).
\* validateOriginProject: a candidate named must exist in the project.
CreateItem(i, p, title, c, status) ==
  /\ item[i].status = "absent"
  /\ c # None => \A j \in Items : item[j].cand # c
  /\ item' = [item EXCEPT ![i] = [status |-> status, project |-> p, title |-> title,
                                  cand |-> c, task |-> None]]
  /\ UNCHANGED <<store, itemEdit>>

\* The handler reads the row and lets the new status through unless the row
\* has a task or the status is the system's.
ItemEditRead(e, i, status) ==
  /\ itemEdit[e].i = None
  /\ item[i].status # "absent"
  /\ IF item[i].task = None
     THEN status \in UserStatus
     ELSE status = "committed" /\ item[i].status = "committed"
  /\ itemEdit' = [itemEdit EXCEPT ![e] = [i |-> i, status |-> status]]
  /\ UNCHANGED <<store, item>>

ItemEditWrite(e) ==
  /\ itemEdit[e].i # None
  /\ item' = [item EXCEPT ![itemEdit[e].i].status = itemEdit[e].status]
  /\ itemEdit' = [itemEdit EXCEPT ![e] = NoItemEdit]
  /\ UNCHANGED store

\* Mutant: an item is taken to be committed when its status says so.
CommitToTask_ByStatus(i, t) ==
  /\ item[i].status \in Committable
  /\ Insert(t, [Blank EXCEPT !.life = "live", !.open = TRUE,
                             !.project = item[i].project, !.title = item[i].title,
                             !.kind = "backlog_item", !.item = i,
                             !.cand = item[i].cand])
  /\ item' = [item EXCEPT ![i].status = "committed", ![i].task = t]
  /\ UNCHANGED <<catalog, itemEdit>>

\* A commit that creates the task.  With a task already there, or with any
\* other status, the request changes nothing.
CommitToTask(i, t) ==
  /\ item[i].task = None
  /\ item[i].status \in Committable
  /\ Insert(t, [Blank EXCEPT !.life = "live", !.open = TRUE,
                             !.project = item[i].project, !.title = item[i].title,
                             !.kind = "backlog_item", !.item = i,
                             !.cand = item[i].cand])
  /\ item' = [item EXCEPT ![i].status = "committed", ![i].task = t]
  /\ UNCHANGED <<catalog, itemEdit>>

\* ON DELETE SET NULL: what the deletion of tasks ts and candidates cs does to
\* the items.
Detach(ts, cs) ==
  item' = [i \in Items |->
             [item[i] EXCEPT !.task = IF @ \in ts THEN None ELSE @,
                             !.cand = IF @ \in cs THEN None ELSE @]]
=============================================================================
