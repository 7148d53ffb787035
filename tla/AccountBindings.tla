--------------------------- MODULE AccountBindings ---------------------------
(***************************************************************************)
(* The model providers one user has connected: which binding is active for *)
(* a provider and which is primary in a namespace                          *)
(* (store/account_binding_store.go, handlers/account_bindings.go).         *)
(*                                                                         *)
(* Update reads its row before the transaction.  In the transaction the    *)
(* UPDATEs that switch other rows off touch those that match both in the   *)
(* snapshot of the statement, which a later statement takes anew, and      *)
(* after waiting for their locks; a row another transaction inserts after  *)
(* the snapshot is seen by the unique indexes only.                        *)
(***************************************************************************)
EXTENDS Integers, FiniteSets

CONSTANTS BindingIds,        \* uuids, each drawn once
          Providers,
          Namespace,         \* "cli" for cli:* providers, "api" otherwise
          BindingLabels,
          ActiveFlags,       \* bound: is_active of a request, "yes", "no" or "unset"
          PrimaryFlags,      \* bound: is_primary of a request
          Edits,             \* slots for requests in progress
          LocalMode

ASSUME AccountBindingsAssumption ==
  /\ Namespace \in [Providers -> {"cli", "api"}]
  /\ LocalMode \in BOOLEAN
  /\ ActiveFlags \cup PrimaryFlags \subseteq {"yes", "no", "unset"}

VARIABLES account,   \* account[i]: the row of binding i
          edit       \* edit[t]: the request in slot t

accountVars == <<account, edit>>

Patched(flag, old) == IF flag = "unset" THEN old ELSE flag = "yes"

BindingRow == [state : {"stored"}, provider : Providers, label : BindingLabels,
        active : BOOLEAN, primary : BOOLEAN]

Unborn == [state |-> "unborn"]
Deleted == [state |-> "deleted"]
NoEdit == [op |-> "none"]

Stored(acc) == {i \in BindingIds : acc[i].state = "stored"}

AccountInit ==
  /\ account = [i \in BindingIds |-> Unborn]
  /\ edit = [t \in Edits |-> NoEdit]

-----------------------------------------------------------------------------
(* The unique indexes                                                      *)

OneActivePerProvider(acc) ==
  \A i, j \in Stored(acc) :
    acc[i].active /\ acc[j].active /\ acc[i].provider = acc[j].provider => i = j

OnePrimaryPerNamespace(acc) ==
  \A i, j \in Stored(acc) :
    acc[i].primary /\ acc[j].primary
      /\ Namespace[acc[i].provider] = Namespace[acc[j].provider] => i = j

LabelsDistinct(acc) ==
  \A i, j \in Stored(acc) :
    acc[i].provider = acc[j].provider /\ acc[i].label = acc[j].label => i = j

IndexesAdmit(acc) ==
  OneActivePerProvider(acc) /\ OnePrimaryPerNamespace(acc) /\ LabelsDistinct(acc)

-----------------------------------------------------------------------------
(* Requests                                                                *)

\* The gate on cli:* providers outside local mode.
Admitted(p) == LocalMode \/ Namespace[p] # "cli"

\* Nothing is read before the transaction, whose first snapshot this is.
AskCreate(t, i, p, l, primary) ==
  /\ edit[t].op = "none"
  /\ account[i].state = "unborn"
  /\ \A u \in Edits : edit[u].op = "create" => edit[u].id # i
  /\ Admitted(p)
  /\ edit' = [edit EXCEPT ![t] =
       [op |-> "create", id |-> i, provider |-> p, label |-> l, primary |-> primary,
        stage |-> "open", seen |-> account]]
  /\ UNCHANGED account

\* GetByID, then the patch of what it returned.
AskUpdate(t, i, l, active, primary) ==
  /\ edit[t].op = "none"
  /\ i \in Stored(account)
  /\ Admitted(account[i].provider)
  /\ edit' = [edit EXCEPT ![t] =
       [op |-> "update", id |-> i, provider |-> account[i].provider, stage |-> "read",
        read |-> account[i],
        row |-> [account[i] EXCEPT !.label = l,
                                   !.active = Patched(active, @),
                                   !.primary = Patched(primary, @)],
        named |-> active # "unset" \/ primary # "unset"]]
  /\ UNCHANGED account

BeginUpdate(t) ==
  /\ edit[t].op = "update"
  /\ edit[t].stage = "read"
  /\ edit' = [edit EXCEPT ![t] = [op |-> "update", id |-> @.id, provider |-> @.provider,
                                  read |-> @.read, row |-> @.row, named |-> @.named,
                                  stage |-> "open", seen |-> account]]
  /\ UNCHANGED account

-----------------------------------------------------------------------------
(* The transaction                                                         *)

\* What a statement after the first one sees.  Bound: the rows of the first
\* snapshot or those of the commit, nothing in between.
Snapshots(t) == {edit[t].seen, account}

\* Rows a statement of transaction t changes: all but its own that satisfied the
\* condition in its snapshot and still do.
Others(t, view) == (Stored(view) \cap Stored(account)) \ {edit[t].id}

ActiveFor(r, p) == r.active /\ r.provider = p

\* The first statement of the transaction.
DeactivatedBy(t) ==
  {i \in Others(t, edit[t].seen) : /\ ActiveFor(edit[t].seen[i], edit[t].provider)
                                   /\ ActiveFor(account[i], edit[t].provider)}

PrimaryBeside(r, p) == r.primary /\ Namespace[r.provider] = Namespace[p]

\* Mutant: demotes within the provider, like the statement before it.
DemotedBy_SameProvider(t, view) ==
  {i \in Others(t, view) : account[i].primary /\ account[i].provider = edit[t].provider}

DemotedBy(t, view) ==
  {i \in Others(t, view) : /\ PrimaryBeside(view[i], edit[t].provider)
                           /\ PrimaryBeside(account[i], edit[t].provider)}

\* What the first binding of a namespace looks at: after its own deactivations
\* only other providers have active ones.
FirstInNamespace(t, view) ==
  ~ \E i \in Stored(view) : /\ view[i].active
                            /\ view[i].provider # edit[t].provider
                            /\ Namespace[view[i].provider] = Namespace[edit[t].provider]

\* The rows the transaction would write, with row r as its own and the demotion in
\* the snapshot view.
After(t, r, view) ==
  [i \in BindingIds |->
     IF i = edit[t].id THEN r
     ELSE IF i \notin Stored(account) THEN account[i]
     ELSE [account[i] EXCEPT
             !.active = @ /\ ~ (r.active /\ i \in DeactivatedBy(t)),
             !.primary = @ /\ ~ (r.primary /\ i \in DemotedBy(t, view))]]

\* The row of a creation that counts in the snapshot view.
NewRow(t, view) ==
  [state |-> "stored", provider |-> edit[t].provider, label |-> edit[t].label,
   active |-> TRUE,
   primary |-> IF edit[t].primary = "unset" THEN FirstInNamespace(t, view)
               ELSE edit[t].primary = "yes"]

\* Mutant: flags that are left out become false.
UpdatedRows_Defaults(t) ==
  {IF edit[t].id \in Stored(account) /\ edit[t].named THEN edit[t].row
   ELSE IF edit[t].id \in Stored(account) THEN [edit[t].row EXCEPT !.primary = FALSE]
   ELSE account[edit[t].id]}

\* An update of a deleted row changes the others all the same.
UpdatedRows(t) ==
  {IF edit[t].id \in Stored(account) THEN edit[t].row ELSE account[edit[t].id]}

\* A creation that counts in the snapshot of the commit demotes in it too.
Created(t) ==
  {After(t, NewRow(t, edit[t].seen), view) : view \in Snapshots(t)}
    \cup {After(t, NewRow(t, account), account)}

\* All outcomes of the transaction.  The flags that drive the two statements are
\* those of the request, also when its own row is gone.
Outcomes(t) ==
  IF edit[t].op = "create" THEN Created(t)
  ELSE {[After(t, edit[t].row, view) EXCEPT ![edit[t].id] = r] :
          r \in UpdatedRows(t), view \in Snapshots(t)}

InTransaction(t) == edit[t].op # "none" /\ edit[t].stage = "open"

Finish(t) == edit' = [edit EXCEPT ![t] = NoEdit]

Store(t) ==
  /\ InTransaction(t)
  /\ \E acc \in Outcomes(t) : IndexesAdmit(acc) /\ account' = acc
  /\ Finish(t)

\* 409: the transaction is rolled back.
Conflict(t) ==
  /\ InTransaction(t)
  /\ \E acc \in Outcomes(t) : ~ IndexesAdmit(acc)
  /\ Finish(t)
  /\ UNCHANGED account

Delete(i) ==
  /\ i \in Stored(account)
  /\ account' = [account EXCEPT ![i] = Deleted]
  /\ UNCHANGED edit

AccountNext ==
  \/ \E t \in Edits, i \in BindingIds, l \in BindingLabels, primary \in PrimaryFlags :
       \/ \E p \in Providers : AskCreate(t, i, p, l, primary)
       \/ \E active \in ActiveFlags : AskUpdate(t, i, l, active, primary)
  \/ \E t \in Edits : BeginUpdate(t) \/ Store(t) \/ Conflict(t)
  \/ \E i \in BindingIds : Delete(i)

AccountSpec == AccountInit /\ [][AccountNext]_accountVars

-----------------------------------------------------------------------------
\* The indexes hold what the transactions alone do not: two bindings created at
\* the same time switch the old ones off and neither sees the other.
BindingsCoherent == IndexesAdmit(account)

\* "Auto-demote makes the first two effectively unreachable ... e.g. concurrent
\* creates": with no other write since its snapshot, a request meets no conflict
\* on the active or the primary flag.
NoConflictAlone ==
  \A t \in Edits :
    InTransaction(t) /\ edit[t].seen = account
      => \A acc \in Outcomes(t) : OneActivePerProvider(acc) /\ OnePrimaryPerNamespace(acc)

\* What the resolution of a planning run reads.
Selection(acc) == {<<i, acc[i].active, acc[i].primary>> : i \in Stored(acc)}

\* A request that names neither flag changes no selection, unless its own row
\* was changed after Update had read it.
QuietEditsKeepSelection ==
  [][\A t \in Edits :
       (/\ edit[t].op = "update"
        /\ edit'[t] # edit[t]
        /\ edit[t].stage = "open"
        /\ ~ edit[t].named
        /\ edit[t].read = account[edit[t].id])
       => Selection(account') = Selection(account)]_accountVars
=============================================================================
