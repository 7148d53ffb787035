--------------------------- MODULE ProviderProofs ---------------------------
(***************************************************************************)
(* Proofs about where a planning run gets its model from: the bindings of  *)
(* a user's accounts (AccountBindings), for any number of bindings,        *)
(* providers and concurrent requests, and the choice of the provider       *)
(* (ProviderSelection), for any models, lists and number of administrators *)
(* who save at the same time.                                              *)
(***************************************************************************)
EXTENDS AccountBindings, ProviderSelection, TLAPS

-----------------------------------------------------------------------------
(* Account bindings                                                        *)

Creations == [op : {"create"}, id : BindingIds, provider : Providers, label : BindingLabels,
              primary : {"yes", "no", "unset"}, stage : {"open"},
              seen : [BindingIds -> BindingRow \cup {Unborn, Deleted}]]

\* What a patch leaves alone is as it was read.
UpdateOK(e) ==
  /\ e.op = "update" /\ e.id \in BindingIds
  /\ e.read \in BindingRow /\ e.row \in BindingRow
  /\ e.read.provider = e.provider /\ e.row.provider = e.provider
  /\ ~ e.named => e.row.active = e.read.active /\ e.row.primary = e.read.primary

AccountTypeOK ==
  /\ account \in [BindingIds -> BindingRow \cup {Unborn, Deleted}]
  /\ DOMAIN edit = Edits
  /\ \A t \in Edits : edit[t] = NoEdit \/ edit[t] \in Creations \/ UpdateOK(edit[t])

\* The inductive invariant of the bindings.
AccountInv == AccountTypeOK /\ BindingsCoherent

LEMMA StoredRow ==
  ASSUME AccountTypeOK, NEW i \in Stored(account)
  PROVE  i \in BindingIds /\ account[i] \in BindingRow
BY DEF AccountTypeOK, Stored, Unborn, Deleted

\* The rows that a transaction leaves behind: its own is of its provider, the others
\* lose flags at most.
LEMMA OutcomeRows ==
  ASSUME AccountTypeOK, NEW t \in Edits, InTransaction(t), NEW acc \in Outcomes(t)
  PROVE  /\ acc \in [BindingIds -> BindingRow \cup {Unborn, Deleted}]
         /\ edit[t].id \in BindingIds
         /\ edit[t].id \in Stored(acc) => acc[edit[t].id].provider = edit[t].provider
         /\ \A i \in BindingIds \ {edit[t].id} :
              /\ i \in Stored(acc) <=> i \in Stored(account)
              /\ i \in Stored(account) =>
                   /\ acc[i].provider = account[i].provider
                   /\ acc[i].active => account[i].active
                   /\ acc[i].primary => account[i].primary
                   /\ edit[t].id \in Stored(acc) /\ acc[edit[t].id].active
                        => ~ (acc[i].active /\ i \in DeactivatedBy(t))
                   /\ edit[t].id \in Stored(acc) /\ acc[edit[t].id].primary
                        => \E view \in Snapshots(t) :
                             ~ (acc[i].primary /\ i \in DemotedBy(t, view))
<1> DEFINE id == edit[t].id
<1>0. account \in [BindingIds -> BindingRow \cup {Unborn, Deleted}]
  BY DEF AccountTypeOK
<1>1. edit[t] \in Creations \/ UpdateOK(edit[t])
  BY DEF AccountTypeOK, InTransaction, NoEdit
<1>2. id \in BindingIds
  BY <1>1 DEF Creations, UpdateOK
<1>3. ASSUME NEW r \in BindingRow, NEW view \in Snapshots(t)
      PROVE  /\ After(t, r, view) \in [BindingIds -> BindingRow \cup {Unborn, Deleted}]
             /\ After(t, r, view)[id] = r
             /\ \A i \in BindingIds \ {id} :
                  /\ i \in Stored(After(t, r, view)) <=> i \in Stored(account)
                  /\ i \in Stored(account) =>
                       /\ After(t, r, view)[i].provider = account[i].provider
                       /\ After(t, r, view)[i].active => account[i].active
                       /\ After(t, r, view)[i].primary => account[i].primary
                       /\ r.active => ~ (After(t, r, view)[i].active /\ i \in DeactivatedBy(t))
                       /\ r.primary => ~ (After(t, r, view)[i].primary /\ i \in DemotedBy(t, view))
  <2>1. ASSUME NEW i \in BindingIds \ {id}, i \notin Stored(account)
        PROVE  After(t, r, view)[i] = account[i] /\ account[i] \in BindingRow \cup {Unborn, Deleted}
    BY <1>0, <2>1 DEF After
  <2>2. ASSUME NEW i \in BindingIds \ {id}, i \in Stored(account)
        PROVE  /\ After(t, r, view)[i] \in BindingRow
               /\ After(t, r, view)[i].provider = account[i].provider
               /\ After(t, r, view)[i].active => account[i].active
               /\ After(t, r, view)[i].primary => account[i].primary
               /\ r.active => ~ (After(t, r, view)[i].active /\ i \in DeactivatedBy(t))
               /\ r.primary => ~ (After(t, r, view)[i].primary /\ i \in DemotedBy(t, view))
    <3>1. account[i] \in BindingRow
      BY <2>2, StoredRow
    <3>2. After(t, r, view)[i] = [account[i] EXCEPT
             !.active = @ /\ ~ (r.active /\ i \in DeactivatedBy(t)),
             !.primary = @ /\ ~ (r.primary /\ i \in DemotedBy(t, view))]
      BY <2>2 DEF After
    <3> HIDE DEF After
    <3>3. QED
      BY <3>1, <3>2 DEF BindingRow
  <2>3. After(t, r, view)[id] = r
    BY <1>2 DEF After
  <2>4. DOMAIN After(t, r, view) = BindingIds /\ After(t, r, view) = [i \in BindingIds |-> After(t, r, view)[i]]
    BY DEF After
  <2>5. After(t, r, view) \in [BindingIds -> BindingRow \cup {Unborn, Deleted}]
    BY <2>1, <2>2, <2>3, <2>4
  <2>6. \A i \in BindingIds \ {id} : i \in Stored(After(t, r, view)) <=> i \in Stored(account)
    BY <2>1, <2>2 DEF Stored, BindingRow
  <2>7. QED
    BY <2>2, <2>3, <2>5, <2>6
<1>4. CASE edit[t] \in Creations
  <2>1. ASSUME NEW count
        PROVE  NewRow(t, count) \in BindingRow /\ NewRow(t, count).provider = edit[t].provider
    <3>1. FirstInNamespace(t, count) \in BOOLEAN
      BY DEF FirstInNamespace
    <3>2. /\ edit[t].provider \in Providers /\ edit[t].label \in BindingLabels
          /\ edit[t].primary \in {"yes", "no", "unset"}
      BY <1>4, AccountBindingsAssumption DEF Creations
    <3> DEFINE flag == IF edit[t].primary = "unset" THEN FirstInNamespace(t, count)
                       ELSE edit[t].primary = "yes"
    <3>3. flag \in BOOLEAN
      BY <3>1, Zenon
    <3>4. NewRow(t, count) = [state |-> "stored", provider |-> edit[t].provider,
                              label |-> edit[t].label, active |-> TRUE, primary |-> flag]
      BY DEF NewRow
    <3> HIDE DEF flag
    <3>5. QED
      BY <3>2, <3>3, <3>4 DEF BindingRow
  <2>2. PICK count \in Snapshots(t), view \in Snapshots(t) : acc = After(t, NewRow(t, count), view)
    <3>1. acc \in Created(t)
      BY <1>4 DEF Outcomes, Creations
    <3>2. QED
      BY <3>1, Zenon DEF Created, Snapshots
  <2> DEFINE r == NewRow(t, count)
  <2>3. r \in BindingRow /\ r.provider = edit[t].provider /\ acc = After(t, r, view)
    BY <2>1, <2>2
  <2> HIDE DEF r
  <2>4. QED
    BY <1>2, <1>3, <2>3
<1>5. CASE UpdateOK(edit[t])
  <2>1. PICK r \in UpdatedRows(t), view \in Snapshots(t) :
         acc = [After(t, edit[t].row, view) EXCEPT ![id] = r]
    BY <1>5 DEF Outcomes, UpdateOK
  <2>2. edit[t].row \in BindingRow /\ edit[t].row.provider = edit[t].provider
    BY <1>5 DEF UpdateOK
  <2>3. \/ id \in Stored(account) /\ r = edit[t].row
        \/ id \notin Stored(account) /\ r = account[id]
    BY <2>1 DEF UpdatedRows
  <2>4. /\ DOMAIN acc = BindingIds /\ acc[id] = r
        /\ \A i \in BindingIds \ {id} : acc[i] = After(t, edit[t].row, view)[i]
    BY <1>2, <1>3, <2>1, <2>2
  <2>5. \A i \in BindingIds \ {id} : i \in Stored(acc) <=> i \in Stored(After(t, edit[t].row, view))
    BY <2>4 DEF Stored
  <2>6. id \in Stored(acc) => r = edit[t].row
    BY <2>3, <2>4 DEF Stored
  <2>7. acc \in [BindingIds -> BindingRow \cup {Unborn, Deleted}]
    <3>1. r \in BindingRow \cup {Unborn, Deleted}
      BY <1>0, <1>2, <2>2, <2>3
    <3>2. QED
      BY <1>2, <1>3, <2>1, <2>2, <3>1
  <2>8. QED
    BY <1>2, <1>3, <2>2, <2>4, <2>5, <2>6, <2>7
<1>6. QED
  BY <1>1, <1>4, <1>5

\* With nothing written since the snapshot, the statements switch off every other row
\* that stands in the way.
LEMMA AloneNoConflict == AccountInv => NoConflictAlone
<1> SUFFICES ASSUME AccountInv, NEW t \in Edits, InTransaction(t), edit[t].seen = account,
                    NEW acc \in Outcomes(t)
             PROVE  OneActivePerProvider(acc) /\ OnePrimaryPerNamespace(acc)
  BY DEF NoConflictAlone
<1> DEFINE id == edit[t].id
<1>1. AccountTypeOK /\ OneActivePerProvider(account) /\ OnePrimaryPerNamespace(account)
  BY DEF AccountInv, BindingsCoherent, IndexesAdmit
<1>2. \A i \in BindingIds \ {id} : i \in Stored(account) =>
        /\ i \in DeactivatedBy(t) <=> account[i].active /\ account[i].provider = edit[t].provider
        /\ \A view \in Snapshots(t) :
          i \in DemotedBy(t, view) <=> /\ account[i].primary
                                       /\ Namespace[account[i].provider] = Namespace[edit[t].provider]
  BY DEF Snapshots, DeactivatedBy, DemotedBy, Others, ActiveFor, PrimaryBeside, Stored
<1>3. \A i, j \in Stored(acc) :
        acc[i].active /\ acc[j].active /\ acc[i].provider = acc[j].provider => i = j
  <2> SUFFICES ASSUME NEW i \in Stored(acc), NEW j \in Stored(acc), i # j,
                      acc[i].active, acc[j].active, acc[i].provider = acc[j].provider
               PROVE  FALSE
    OBVIOUS
  <2>1. i \in BindingIds /\ j \in BindingIds
    BY DEF Stored
  <2>2. CASE i # id /\ j # id
    BY <1>1, <2>1, <2>2, OutcomeRows DEF OneActivePerProvider
  <2>3. CASE i = id
    BY <1>1, <1>2, <2>1, <2>3, OutcomeRows
  <2>4. CASE j = id
    BY <1>1, <1>2, <2>1, <2>4, OutcomeRows
  <2>5. QED
    BY <2>2, <2>3, <2>4
<1>4. \A i, j \in Stored(acc) :
        acc[i].primary /\ acc[j].primary
          /\ Namespace[acc[i].provider] = Namespace[acc[j].provider] => i = j
  <2> SUFFICES ASSUME NEW i \in Stored(acc), NEW j \in Stored(acc), i # j,
                      acc[i].primary, acc[j].primary,
                      Namespace[acc[i].provider] = Namespace[acc[j].provider]
               PROVE  FALSE
    OBVIOUS
  <2>1. i \in BindingIds /\ j \in BindingIds
    BY DEF Stored
  <2>2. CASE i # id /\ j # id
    BY <1>1, <2>1, <2>2, OutcomeRows DEF OnePrimaryPerNamespace
  <2>3. CASE i = id
    BY <1>1, <1>2, <2>1, <2>3, OutcomeRows
  <2>4. CASE j = id
    BY <1>1, <1>2, <2>1, <2>4, OutcomeRows
  <2>5. QED
    BY <2>2, <2>3, <2>4
<1>5. QED
  BY <1>3, <1>4 DEF OneActivePerProvider, OnePrimaryPerNamespace

LEMMA AccountStep == AccountInv /\ [AccountNext]_accountVars => AccountInv'
<1> SUFFICES ASSUME AccountInv, [AccountNext]_accountVars PROVE AccountInv'
  OBVIOUS
<1>0. /\ account \in [BindingIds -> BindingRow \cup {Unborn, Deleted}]
      /\ DOMAIN edit = Edits
      /\ \A t \in Edits : edit[t] = NoEdit \/ edit[t] \in Creations \/ UpdateOK(edit[t])
      /\ BindingsCoherent
  BY DEF AccountInv, AccountTypeOK
<1>1. ASSUME NEW t \in Edits, NEW e, e = NoEdit \/ e \in Creations \/ UpdateOK(e),
             edit' = [edit EXCEPT ![t] = e],
             account' \in [BindingIds -> BindingRow \cup {Unborn, Deleted}], BindingsCoherent'
      PROVE  AccountInv'
  <2>1. \A u \in Edits : edit'[u] = IF u = t THEN e ELSE edit[u]
    BY <1>0, <1>1
  <2>2. \A u \in Edits : edit'[u] = NoEdit \/ edit'[u] \in Creations \/ UpdateOK(edit'[u])
    BY <1>0, <1>1, <2>1
  <2>3. DOMAIN edit' = Edits
    BY <1>0, <1>1
  <2>4. QED
    BY <1>1, <2>2, <2>3 DEF AccountInv, AccountTypeOK
<1>2. ASSUME NEW t \in Edits, NEW i \in BindingIds, NEW p \in Providers,
             NEW l \in BindingLabels, NEW primary \in PrimaryFlags,
             AskCreate(t, i, p, l, primary)
      PROVE  AccountInv'
  <2> DEFINE e == [op |-> "create", id |-> i, provider |-> p, label |-> l,
                   primary |-> primary, stage |-> "open", seen |-> account]
  <2>1. e \in Creations
    BY <1>0, AccountBindingsAssumption DEF Creations
  <2>2. edit' = [edit EXCEPT ![t] = e] /\ UNCHANGED account
    BY <1>2 DEF AskCreate
  <2> HIDE DEF e
  <2>3. BindingsCoherent'
    BY <1>0, <2>2 DEF BindingsCoherent
  <2>4. QED
    BY <1>0, <1>1, <2>1, <2>2, <2>3
<1>3. ASSUME NEW t \in Edits, NEW i \in BindingIds, NEW l \in BindingLabels,
             NEW active \in ActiveFlags, NEW primary \in PrimaryFlags,
             AskUpdate(t, i, l, active, primary)
      PROVE  AccountInv'
  <2> DEFINE row == [account[i] EXCEPT !.label = l,
                                       !.active = Patched(active, @),
                                       !.primary = Patched(primary, @)]
             e == [op |-> "update", id |-> i, provider |-> account[i].provider, stage |-> "read",
                   read |-> account[i], row |-> row,
                   named |-> active # "unset" \/ primary # "unset"]
  <2>1. account[i] \in BindingRow
    BY <1>3, StoredRow DEF AccountInv, AskUpdate
  <2>2. /\ row \in BindingRow /\ row.provider = account[i].provider
        /\ active = "unset" => row.active = account[i].active
        /\ primary = "unset" => row.primary = account[i].primary
    BY <2>1 DEF BindingRow, Patched
  <2>3. edit' = [edit EXCEPT ![t] = e] /\ UNCHANGED account
    BY <1>3 DEF AskUpdate
  <2> HIDE DEF row
  <2>4. UpdateOK(e)
    BY <2>1, <2>2 DEF UpdateOK
  <2> HIDE DEF e
  <2>5. BindingsCoherent'
    BY <1>0, <2>3 DEF BindingsCoherent
  <2>6. QED
    BY <1>0, <1>1, <2>3, <2>4, <2>5
<1>4. ASSUME NEW t \in Edits, BeginUpdate(t)
      PROVE  AccountInv'
  <2> DEFINE e == [op |-> "update", id |-> edit[t].id, provider |-> edit[t].provider,
                   read |-> edit[t].read, row |-> edit[t].row, named |-> edit[t].named,
                   stage |-> "open", seen |-> account]
  <2>1. UpdateOK(edit[t])
    BY <1>0, <1>4 DEF BeginUpdate, NoEdit, Creations
  <2>2. UpdateOK(e)
    BY <2>1 DEF UpdateOK
  <2>3. edit' = [edit EXCEPT ![t] = e] /\ UNCHANGED account
    BY <1>4 DEF BeginUpdate
  <2> HIDE DEF e
  <2>4. BindingsCoherent'
    BY <1>0, <2>3 DEF BindingsCoherent
  <2>5. QED
    BY <1>0, <1>1, <2>2, <2>3, <2>4
<1>5. ASSUME NEW t \in Edits, Store(t)
      PROVE  AccountInv'
  <2>1. PICK acc \in Outcomes(t) : IndexesAdmit(acc) /\ account' = acc
    BY <1>5 DEF Store
  <2>2. account' \in [BindingIds -> BindingRow \cup {Unborn, Deleted}]
    BY <1>5, <2>1, OutcomeRows DEF Store, AccountInv
  <2>3. BindingsCoherent'
    BY <2>1 DEF BindingsCoherent
  <2>4. QED
    BY <1>1, <1>5, <2>2, <2>3 DEF Store, Finish
<1>6. ASSUME NEW t \in Edits, Conflict(t)
      PROVE  AccountInv'
  <2>1. BindingsCoherent'
    BY <1>0, <1>6 DEF BindingsCoherent, Conflict
  <2>2. QED
    BY <1>0, <1>1, <1>6, <2>1 DEF Conflict, Finish
<1>7. ASSUME NEW i \in BindingIds, Delete(i)
      PROVE  AccountInv'
  <2>1. \A j \in BindingIds : account'[j] = IF j = i THEN Deleted ELSE account[j]
    BY <1>0, <1>7 DEF Delete
  <2>2. account' \in [BindingIds -> BindingRow \cup {Unborn, Deleted}]
    BY <1>0, <1>7 DEF Delete
  <2>3. Stored(account') = Stored(account) \ {i}
    BY <2>1 DEF Stored, Deleted
  <2>4. \A j \in Stored(account') : j \in Stored(account) /\ account'[j] = account[j]
    BY <2>1, <2>3 DEF Stored
  <2>5. IndexesAdmit(account')
    BY <1>0, <2>4 DEF BindingsCoherent, IndexesAdmit, OneActivePerProvider,
       OnePrimaryPerNamespace, LabelsDistinct
  <2>6. BindingsCoherent'
    BY <2>5 DEF BindingsCoherent
  <2>7. QED
    BY <1>0, <1>7, <2>2, <2>6 DEF Delete, AccountInv, AccountTypeOK
<1>8. CASE UNCHANGED accountVars
  BY <1>8 DEF accountVars, AccountInv, AccountTypeOK, BindingsCoherent
<1>9. QED
  BY <1>2, <1>3, <1>4, <1>5, <1>6, <1>7, <1>8 DEF AccountNext

LEMMA AccountInvariant == AccountSpec => []AccountInv
<1>1. AccountInit => AccountInv
  BY DEF AccountInit, AccountInv, AccountTypeOK, BindingsCoherent, IndexesAdmit, Unborn,
     OneActivePerProvider, OnePrimaryPerNamespace, LabelsDistinct, Stored
<1>2. QED
  BY <1>1, AccountStep, PTL DEF AccountSpec

\* "Auto-demote makes the first two effectively unreachable": for any bindings,
\* providers and namespaces, a request whose transaction sees every earlier write
\* meets no conflict on the active or the primary flag.
THEOREM AloneMeetsNoConflict == AccountSpec => []NoConflictAlone
BY AloneNoConflict, AccountInvariant, PTL

\* A request that names neither flag writes back the flags it has read.
LEMMA QuietStep ==
  ASSUME AccountInv, [AccountNext]_accountVars, NEW t \in Edits,
         edit[t].op = "update", edit'[t] # edit[t], edit[t].stage = "open",
         ~ edit[t].named, edit[t].read = account[edit[t].id]
  PROVE  Selection(account') = Selection(account)
<1> DEFINE id == edit[t].id
<1>0. /\ AccountTypeOK /\ OneActivePerProvider(account) /\ OnePrimaryPerNamespace(account)
      /\ DOMAIN edit = Edits /\ UpdateOK(edit[t])
  BY DEF AccountInv, AccountTypeOK, BindingsCoherent, IndexesAdmit, Creations, NoEdit
<1>1. /\ id \in Stored(account) /\ id \in BindingIds
      /\ account[id].provider = edit[t].provider
      /\ edit[t].row \in BindingRow
      /\ edit[t].row.active = account[id].active /\ edit[t].row.primary = account[id].primary
  BY <1>0 DEF UpdateOK, Stored, BindingRow
<1>2. Store(t) \/ Conflict(t)
  <2>1. edit' # edit
    OBVIOUS
  <2>2. ASSUME NEW u \in Edits, u # t, NEW e, edit' = [edit EXCEPT ![u] = e]
        PROVE  FALSE
    BY <1>0, <2>2
  <2>3. ASSUME NEW u \in Edits, NEW i, NEW l, NEW primary, NEW p, AskCreate(u, i, p, l, primary)
        PROVE  FALSE
    BY <2>2, <2>3 DEF AskCreate
  <2>4. ASSUME NEW u \in Edits, NEW i, NEW l, NEW primary, NEW active,
               AskUpdate(u, i, l, active, primary)
        PROVE  FALSE
    BY <2>2, <2>4 DEF AskUpdate
  <2>5. ASSUME NEW u \in Edits, BeginUpdate(u)
        PROVE  FALSE
    BY <2>2, <2>5 DEF BeginUpdate
  <2>6. ASSUME NEW u \in Edits, Store(u) \/ Conflict(u)
        PROVE  u = t
    BY <2>2, <2>6 DEF Store, Conflict, Finish
  <2>7. QED
    BY <2>1, <2>3, <2>4, <2>5, <2>6 DEF AccountNext, accountVars, Delete
<1>3. CASE Store(t)
  <2>1. PICK r \in UpdatedRows(t), view \in Snapshots(t) :
         account' = [After(t, edit[t].row, view) EXCEPT ![id] = r]
    BY <1>3 DEF Store, Outcomes
  <2>2. r = edit[t].row
    BY <1>1, <2>1 DEF UpdatedRows
  <2>3. /\ DOMAIN account' = BindingIds
        /\ \A i \in BindingIds : account'[i] = IF i = id THEN edit[t].row ELSE After(t, edit[t].row, view)[i]
    BY <1>1, <2>1, <2>2 DEF After
  <2>4. ASSUME NEW i \in Stored(account), i # id
        PROVE  After(t, edit[t].row, view)[i] = account[i]
    <3>1. i \in BindingIds /\ account[i] \in BindingRow
      BY <1>0, StoredRow
    <3>2. edit[t].row.active => i \notin DeactivatedBy(t)
      BY <1>0, <1>1, <2>4 DEF DeactivatedBy, ActiveFor, OneActivePerProvider
    <3>3. edit[t].row.primary => i \notin DemotedBy(t, view)
      BY <1>0, <1>1, <2>4 DEF DemotedBy, PrimaryBeside, OnePrimaryPerNamespace
    <3>4. After(t, edit[t].row, view)[i] =
            [account[i] EXCEPT !.active = @ /\ ~ (edit[t].row.active /\ i \in DeactivatedBy(t)),
                               !.primary = @ /\ ~ (edit[t].row.primary /\ i \in DemotedBy(t, view))]
      BY <2>4, <3>1 DEF After
    <3>5. After(t, edit[t].row, view)[i] = [account[i] EXCEPT !.active = account[i].active,
                                                        !.primary = account[i].primary]
      BY <3>1, <3>2, <3>3, <3>4 DEF BindingRow
    <3>6. QED
      BY <3>1, <3>5 DEF BindingRow
  <2>5. ASSUME NEW i \in BindingIds, i # id, i \notin Stored(account)
        PROVE  account'[i] = account[i]
    BY <2>3, <2>5 DEF After
  <2>6. Stored(account') = Stored(account)
    BY <1>1, <2>3, <2>4, <2>5 DEF Stored, BindingRow
  <2>7. \A i \in Stored(account) : account'[i].active = account[i].active
                                   /\ account'[i].primary = account[i].primary
    <3> SUFFICES ASSUME NEW i \in Stored(account)
                 PROVE  account'[i].active = account[i].active
                        /\ account'[i].primary = account[i].primary
      OBVIOUS
    <3>1. i \in BindingIds
      BY DEF Stored
    <3>2. CASE i = id
      BY <1>1, <2>3, <3>1, <3>2
    <3>3. CASE i # id
      BY <2>3, <2>4, <3>1, <3>3
    <3>4. QED
      BY <3>2, <3>3
  <2>8. QED
    BY <2>6, <2>7 DEF Selection
<1>4. CASE Conflict(t)
  BY <1>4 DEF Conflict
<1>5. QED
  BY <1>2, <1>3, <1>4

\* For any bindings and concurrent requests, a PATCH that names neither flag
\* leaves every selection alone, unless its row changed after it was read
\* (AccountBindingStore.Update reads outside its transaction).
THEOREM QuietEditsKeep == AccountSpec => QuietEditsKeepSelection
<1>1. AccountInv /\ [AccountNext]_accountVars =>
        [\A t \in Edits :
           (/\ edit[t].op = "update"
            /\ edit'[t] # edit[t]
            /\ edit[t].stage = "open"
            /\ ~ edit[t].named
            /\ edit[t].read = account[edit[t].id])
           => Selection(account') = Selection(account)]_accountVars
  BY QuietStep
<1>2. QED
  BY <1>1, AccountInvariant, PTL DEF AccountSpec, QuietEditsKeepSelection

-----------------------------------------------------------------------------
(* The provider of a planning run: types                                   *)

AllModels == Models \cup {Rules}
Sources == {"system", "shared", "personal"}
Choice == [provider : PlanningProviders, model : AllModels]
Settings == [provider : PlanningProviders, model : AllModels, models : Seq(AllModels),
             mode : CredentialModes]

Bindings == [model : Models \cup {NoChoice}, models : Seq(Models)]

Request == [provider : PlanningProviders \cup {NoChoice}, model : AllModels \cup {NoChoice}]

Job == [pc : {"idle", "select", "generate", "called"},
        request : Request \cup {NoChoice}, read : Settings \cup {NoChoice},
        recorded : Choice \cup {NoChoice}, modes : SUBSET CredentialModes,
        call : [source : Sources, use : Choice, offers : Seq(AllModels)] \cup {NoChoice}]

SelectionTypeOK ==
  /\ settings \in Settings \cup {NoChoice}
  /\ updates \in [Admins -> Settings \cup {NoChoice}]
  /\ personal \in Bindings \cup {NoChoice}
  /\ job \in Job

\* What a resolution has read was in force since it began, and so is what it has
\* yet to read.
ModesSeen ==
  /\ job.read # NoChoice => job.read.mode \in job.modes
  /\ job.pc # "idle" => InForce.mode \in job.modes

\* Only a run that recorded its choice generates.
CallsLast ==
  /\ job.pc = "select" => job.request \in Request
  /\ job.pc = "generate" => job.recorded \in Choice
  /\ job.call # NoChoice => job.pc = "called"

\* Modes are never forgotten while a run is resolved, so one that admits the shared
\* credentials stays.
SharedWasAdmitted ==
  job.call # NoChoice /\ job.call.source # "personal"
    => \E mode \in job.modes : mode # "personal_required"

\* The inductive invariant.
SelectionInv ==
  /\ SelectionTypeOK
  /\ ModesSeen
  /\ CallsLast
  /\ SharedWasAdmitted
  /\ SavedSettingsWork
  /\ CallIsAsRecorded

-----------------------------------------------------------------------------
(* Lemmas about the resolution                                             *)

LEMMA InForceIsSettings == SelectionTypeOK => InForce \in Settings
<1>1. Default \in Settings
  BY DEF Default, Settings, PlanningProviders, CredentialModes, AllModels
<1> QED
  BY <1>1 DEF SelectionTypeOK, InForce

\* Every registry that is made has known providers and lists.
IsRegistry(registry) ==
  /\ registry.provider \in PlanningProviders
  /\ registry.source \in Sources
  /\ registry.offers \in [PlanningProviders -> Seq(AllModels)]

LEMMA RegistryOK ==
  ASSUME NEW source \in Sources, NEW p \in PlanningProviders, NEW l \in Seq(AllModels), NEW m
  PROVE  IsRegistry(Registry(source, p, l, m))
<1> DEFINE offers == [q \in PlanningProviders |-> IF q = "deterministic" THEN <<Rules>> ELSE l]
<1>1. <<Rules>> \in Seq(AllModels)
  BY DEF AllModels
<1>2. offers \in [PlanningProviders -> Seq(AllModels)]
  BY <1>1
<1>3. Registry(source, p, l, m) = [source |-> source, provider |-> p, model |-> m, offers |-> offers]
  BY DEF Registry
<1> HIDE DEF offers
<1> QED
  BY <1>2, <1>3 DEF IsRegistry

\* Shared credentials are resolved only under a mode that admits them.
LEMMA ResolutionOK ==
  ASSUME SelectionTypeOK, NEW s \in Settings, Resolution(s) # NoChoice
  PROVE  /\ IsRegistry(Resolution(s))
         /\ Resolution(s).source # "personal" => s.mode # "personal_required"
<1>1. CASE personal # NoChoice /\ s.mode # "shared"
  <2>1. personal.models \in Seq(AllModels)
    BY <1>1 DEF SelectionTypeOK, Bindings, AllModels
  <2>2. Resolution(s) = PersonalRegistry
    BY <1>1 DEF Resolution
  <2>3. IsRegistry(PersonalRegistry)
    <3>1. "personal" \in Sources /\ "openai-compatible" \in PlanningProviders
      BY DEF PlanningProviders, Sources
    <3> DEFINE model == IF personal.model = NoChoice /\ personal.models # <<>>
                        THEN Head(personal.models) ELSE personal.model
    <3> HIDE DEF model
    <3>2. IsRegistry(Registry("personal", "openai-compatible", personal.models, model))
      BY <2>1, <3>1, RegistryOK
    <3> QED
      BY <3>2 DEF PersonalRegistry, model
  <2>4. PersonalRegistry.source = "personal"
    BY DEF PersonalRegistry, Registry
  <2> QED
    BY <2>2, <2>3, <2>4
<1>2. CASE personal = NoChoice \/ s.mode = "shared"
  <2>1. Resolution(s) = SharedRegistry(s) /\ s.mode # "personal_required"
    BY <1>2 DEF Resolution
  <2>2. IsRegistry(SharedRegistry(s))
    <3>1. s.provider \in PlanningProviders /\ s.models \in Seq(AllModels)
      BY DEF Settings
    <3> DEFINE source == IF s.provider = "deterministic" THEN "system" ELSE "shared"
               models == IF s.provider = "deterministic" THEN <<>> ELSE s.models
    <3>2. source \in Sources /\ models \in Seq(AllModels)
      BY <3>1 DEF Sources
    <3> HIDE DEF source, models
    <3>3. IsRegistry(Registry(source, s.provider, models, s.model))
      BY <3>1, <3>2, RegistryOK
    <3> QED
      BY <3>3 DEF SharedRegistry, source, models
  <2> QED
    BY <2>1, <2>2
<1> QED
  BY <1>1, <1>2

\* A selection is a provider with one of its models, and a full request is met as
\* it stands or not at all (ProviderRegistry.Resolve).
LEMMA SelectedOK ==
  ASSUME NEW registry, IsRegistry(registry),
         NEW provider \in PlanningProviders \cup {NoChoice}, NEW model,
         Selected(registry, provider, model) # NoChoice
  PROVE  LET chosen == Selected(registry, provider, model) IN
         /\ chosen \in Choice
         /\ Contains(registry.offers[chosen.provider], chosen.model)
         /\ provider # NoChoice /\ model # NoChoice
              => chosen = [provider |-> provider, model |-> model]
<1> DEFINE p == IF provider = NoChoice THEN registry.provider ELSE provider
           m == IF model # NoChoice THEN model
                ELSE IF provider = NoChoice THEN registry.model
                ELSE IF registry.offers[p] = <<>> THEN NoChoice ELSE Head(registry.offers[p])
<1>1. /\ Selected(registry, provider, model) = [provider |-> p, model |-> m]
      /\ Contains(registry.offers[p], m)
  BY DEF Selected
<1>2. p \in PlanningProviders
  <2>1. registry.provider \in PlanningProviders
    BY DEF IsRegistry
  <2> QED
    BY <2>1
<1>3. m \in AllModels
  <2>1. registry.offers[p] \in Seq(AllModels)
    BY <1>2 DEF IsRegistry
  <2> QED
    BY <1>1, <2>1 DEF Contains
<1>4. provider # NoChoice /\ model # NoChoice => p = provider /\ m = model
  OBVIOUS
<1> HIDE DEF p, m
<1> QED
  BY <1>1, <1>2, <1>3, <1>4 DEF Choice

\* What an update saves works: the default model is one of the models
\* (PlanningSettingsHandler.Update, PlanningSettingsStore.Upsert).
LEMMA UpsertedWorks ==
  ASSUME NEW old \in Settings, NEW provider \in PlanningProviders,
         NEW model \in Models \cup {NoChoice}, NEW models \in Seq(Models),
         NEW mode \in CredentialModes \cup {NoChoice},
         provider = "openai-compatible" => model # NoChoice \/ models # <<>>
  PROVE  /\ Upserted(old, provider, model, models, mode) \in Settings
         /\ Usable(SharedRegistry(Upserted(old, provider, model, models, mode)))
<1> DEFINE new == Upserted(old, provider, model, models, mode)
           chosen == IF model = NoChoice THEN models[1] ELSE model
           offered == IF Contains(models, chosen) THEN models ELSE <<chosen>> \o models
<1>1. (IF mode = NoChoice THEN old.mode ELSE mode) \in CredentialModes
  BY DEF Settings
<1>2. CASE provider = "deterministic"
  <2>1. new = [provider |-> provider, model |-> Rules, models |-> <<Rules>>,
               mode |-> IF mode = NoChoice THEN old.mode ELSE mode]
    BY <1>2 DEF Upserted
  <2>2. new \in Settings
    BY <1>1, <2>1 DEF Settings, AllModels
  <2>3. Contains(<<Rules>>, Rules)
    BY DEF Contains
  <2>4. /\ SharedRegistry(new).provider = "deterministic"
        /\ SharedRegistry(new).model = Rules
        /\ SharedRegistry(new).offers["deterministic"] = <<Rules>>
    BY <1>2, <2>1 DEF SharedRegistry, Registry, PlanningProviders
  <2> QED
    BY <2>2, <2>3, <2>4 DEF Usable
<1>3. CASE provider = "openai-compatible"
  <2>1. chosen \in Models
    BY <1>3
  <2>2. offered \in Seq(Models) /\ Contains(offered, chosen)
    <3>1. CASE Contains(models, chosen)
      BY <3>1
    <3>2. CASE ~ Contains(models, chosen)
      <4>1. <<chosen>> \in Seq(Models) /\ Len(<<chosen>>) = 1
        BY <2>1
      <4>2. <<chosen>> \o models \in Seq(Models) /\ (<<chosen>> \o models)[1] = chosen
            /\ Len(<<chosen>> \o models) >= 1
        BY <2>1, <4>1
      <4> QED
        BY <3>2, <4>2 DEF Contains
    <3> QED
      BY <3>1, <3>2
  <2>3. new = [provider |-> provider, model |-> chosen, models |-> offered,
               mode |-> IF mode = NoChoice THEN old.mode ELSE mode]
    BY <1>3 DEF Upserted
  <2> HIDE DEF chosen, offered
  <2>4. chosen \in AllModels /\ offered \in Seq(AllModels)
    BY <2>1, <2>2 DEF AllModels
  <2>5. new \in Settings
    BY <1>1, <2>3, <2>4 DEF Settings
  <2>6. /\ SharedRegistry(new).provider = "openai-compatible"
        /\ SharedRegistry(new).model = chosen
        /\ SharedRegistry(new).offers["openai-compatible"] = offered
    BY <1>3, <2>3 DEF SharedRegistry, Registry, PlanningProviders
  <2> QED
    BY <2>2, <2>5, <2>6 DEF Usable
<1> QED
  BY <1>2, <1>3 DEF PlanningProviders

-----------------------------------------------------------------------------
LEMMA NoJobOK ==
  /\ NoJob \in Job
  /\ NoJob.pc = "idle" /\ NoJob.read = NoChoice /\ NoJob.call = NoChoice
  BY DEF NoJob, Job

LEMMA InitInv == SelectionInit => SelectionInv
  BY NoJobOK
     DEF SelectionInit, SelectionInv, SelectionTypeOK, ModesSeen, CallsLast, SharedWasAdmitted,
         SavedSettingsWork, CallIsAsRecorded

\* A job that is over satisfies whatever is asked of jobs.
LEMMA JobEnds ==
  ASSUME SelectionInv, job' = NoJob, UNCHANGED <<settings, updates, personal>>
  PROVE  SelectionInv'
  BY NoJobOK
     DEF SelectionInv, SelectionTypeOK, ModesSeen, CallsLast, SharedWasAdmitted,
         SavedSettingsWork, CallIsAsRecorded

\* One that goes on needs a look at what it knows.
LEMMA JobGoesOn ==
  ASSUME SelectionInv, UNCHANGED <<settings, updates, personal>>, job' \in Job,
         ModesSeen', CallsLast', SharedWasAdmitted', CallIsAsRecorded'
  PROVE  SelectionInv'
  BY DEF SelectionInv, SelectionTypeOK, SavedSettingsWork, Usable, SharedRegistry, Registry

\* What a step must leave of a job that it does not touch.
LEMMA JobWaits ==
  ASSUME SelectionInv, UNCHANGED job, InForce'.mode = InForce.mode
  PROVE  ModesSeen' /\ CallsLast' /\ SharedWasAdmitted' /\ CallIsAsRecorded'
  BY DEF SelectionInv, ModesSeen, CallsLast, SharedWasAdmitted, CallIsAsRecorded, Request, Choice,
         AllModels

LEMMA SavedStays ==
  ASSUME SelectionInv, UNCHANGED settings
  PROVE  SavedSettingsWork' /\ InForce' = InForce
  BY DEF SelectionInv, SavedSettingsWork, InForce

\* Every step preserves the invariant.
LEMMA StepInv == SelectionInv /\ [SelectionNext]_selectionVars => SelectionInv'
<1> SUFFICES ASSUME SelectionInv, [SelectionNext]_selectionVars PROVE SelectionInv'
  OBVIOUS
<1> USE ProviderSelectionAssumption
<1>0. InForce \in Settings
  BY InForceIsSettings DEF SelectionInv
<1>1. CASE UNCHANGED selectionVars
  BY <1>1, JobWaits, SavedStays DEF selectionVars, SelectionInv, SelectionTypeOK
<1>2. ASSUME NEW e \in Admins, UpdateReads(e) PROVE SelectionInv'
  <2>1. updates' \in [Admins -> Settings \cup {NoChoice}]
    BY <1>0, <1>2 DEF UpdateReads, SelectionInv, SelectionTypeOK
  <2> QED
    BY <1>2, <2>1, JobWaits, SavedStays DEF UpdateReads, SelectionInv, SelectionTypeOK
<1>3. ASSUME NEW e \in Admins, NEW p \in PlanningProviders, NEW m \in Models \cup {NoChoice},
             NEW l \in ModelLists, NEW mode \in CredentialModes \cup {NoChoice},
             UpdateSaves(e, p, m, l, mode)
      PROVE  SelectionInv'
  <2>1. updates[e] \in Settings /\ l \in Seq(Models)
    BY <1>3 DEF UpdateSaves, SelectionInv, SelectionTypeOK
  <2>2. settings' \in Settings /\ Usable(SharedRegistry(settings'))
    BY <1>3, <2>1, UpsertedWorks DEF UpdateSaves
  <2>3. SavedSettingsWork'
    BY <2>2 DEF SavedSettingsWork
  <2>4. updates' \in [Admins -> Settings \cup {NoChoice}] /\ personal' = personal
    BY <1>3 DEF UpdateSaves, SelectionInv, SelectionTypeOK
  <2>5. InForce'.mode \in CredentialModes
    BY <2>2 DEF InForce, Settings, Default, CredentialModes
  <2>6. job' = IF job.pc = "idle" THEN job ELSE [job EXCEPT !.modes = @ \cup {InForce'.mode}]
    BY <1>3 DEF UpdateSaves, WithMode
  <2>7. job' \in Job
    BY <2>5, <2>6 DEF SelectionInv, SelectionTypeOK, Job
  <2>8. /\ job'.pc = job.pc /\ job'.read = job.read /\ job'.call = job.call
        /\ job'.recorded = job.recorded /\ job'.request = job.request
        /\ job.modes \subseteq job'.modes
        /\ job.pc # "idle" => InForce'.mode \in job'.modes
    BY <2>6 DEF SelectionInv, SelectionTypeOK, Job
  <2>9. SharedWasAdmitted'
    BY <2>8 DEF SelectionInv, SharedWasAdmitted
  <2>10. CallIsAsRecorded'
    BY <2>8, <2>9 DEF SelectionInv, CallIsAsRecorded, SharedWasAdmitted
  <2>11. ModesSeen' /\ CallsLast'
    BY <2>8 DEF SelectionInv, ModesSeen, CallsLast, Request, Choice, AllModels
  <2> QED
    BY <2>2, <2>3, <2>4, <2>7, <2>9, <2>10, <2>11 DEF SelectionInv, SelectionTypeOK
<1>4. ASSUME NEW m \in Models \cup {NoChoice}, NEW l \in ModelLists, PersonalBindingChanges(m, l)
      PROVE  SelectionInv'
  <2>1. l \in Seq(Models)
    OBVIOUS
  <2>2. BindingOf(m, l) \in Bindings
    BY <2>1 DEF BindingOf, Bindings
  <2>3. personal # NoChoice =>
          /\ [personal EXCEPT !.model = m] \in Bindings
          /\ [personal EXCEPT !.models = l] \in Bindings
    BY <2>1 DEF SelectionInv, SelectionTypeOK, Bindings
  <2>4. personal' \in Bindings \cup {NoChoice}
    BY <1>4, <2>2, <2>3 DEF PersonalBindingChanges
  <2> QED
    BY <1>4, <2>4, JobWaits, SavedStays DEF PersonalBindingChanges, SelectionInv, SelectionTypeOK
<1>5. ASSUME NEW p \in PlanningProviders \cup {NoChoice}, NEW m \in AllModels \cup {NoChoice},
             RunRequested(p, m)
      PROVE  SelectionInv'
  <2> DEFINE request == [provider |-> p, model |-> m]
  <2>1. request \in Request /\ InForce.mode \in CredentialModes
    BY <1>0 DEF Settings, Request
  <2> HIDE DEF request
  <2>2. job' = [NoJob EXCEPT !.pc = "select", !.request = request, !.modes = {InForce.mode}]
        /\ UNCHANGED <<settings, updates, personal>>
    BY <1>5 DEF RunRequested, request
  <2>3. job' \in Job
    BY <2>1, <2>2, NoJobOK DEF Job
  <2>4. /\ job'.pc = "select" /\ job'.read = NoChoice /\ job'.call = NoChoice
        /\ job'.request = request /\ job'.modes = {InForce.mode}
    BY <2>2 DEF NoJob
  <2>5. InForce' = InForce
    BY <2>2 DEF InForce
  <2>6. ModesSeen' /\ CallsLast' /\ SharedWasAdmitted' /\ CallIsAsRecorded'
    BY <2>1, <2>4, <2>5 DEF ModesSeen, CallsLast, SharedWasAdmitted, CallIsAsRecorded
  <2> QED
    BY <2>2, <2>3, <2>6, JobGoesOn
<1>6. CASE ReadsSettings
  <2>1. job' = [job EXCEPT !.read = InForce] /\ job.pc \in {"select", "generate"}
        /\ UNCHANGED <<settings, updates, personal>>
    BY <1>6 DEF ReadsSettings
  <2>2. job' \in Job
    BY <1>0, <2>1 DEF SelectionInv, SelectionTypeOK, Job
  <2>3. /\ job'.pc = job.pc /\ job'.read = InForce /\ job'.call = job.call
        /\ job'.modes = job.modes /\ job'.recorded = job.recorded /\ job'.request = job.request
    BY <2>1 DEF SelectionInv, SelectionTypeOK, Job
  <2>4. InForce' = InForce
    BY <2>1 DEF InForce
  <2>5. ModesSeen' /\ CallsLast'
    BY <2>1, <2>3, <2>4 DEF SelectionInv, ModesSeen, CallsLast
  <2>6. SharedWasAdmitted' /\ CallIsAsRecorded'
    BY <2>3 DEF SelectionInv, SharedWasAdmitted, CallIsAsRecorded
  <2> QED
    BY <2>1, <2>2, <2>5, <2>6, JobGoesOn
<1>7. CASE SelectionResolved
  <2> DEFINE registry == Resolution(job.read)
             chosen == Selected(registry, job.request.provider, job.request.model)
  <2>1. /\ job.pc = "select" /\ job.read # NoChoice
        /\ UNCHANGED <<settings, updates, personal>>
        /\ \/ job' = NoJob
           \/ /\ registry # NoChoice /\ chosen # NoChoice
              /\ job' = [job EXCEPT !.pc = "generate", !.read = NoChoice,
                                    !.modes = {InForce.mode}, !.recorded = chosen]
    BY <1>7 DEF SelectionResolved
  <2>2. CASE job' = NoJob
    BY <2>1, <2>2, JobEnds
  <2>3. CASE job' # NoJob
    <3>1. job.read \in Settings /\ job.request \in Request /\ InForce.mode \in CredentialModes
      BY <1>0, <2>1 DEF SelectionInv, SelectionTypeOK, Job, CallsLast, Settings
    <3>2. IsRegistry(registry)
      BY <2>1, <2>3, <3>1, ResolutionOK DEF SelectionInv
    <3>3. chosen \in Choice
      BY <2>1, <2>3, <3>1, <3>2, SelectedOK DEF Request
    <3> HIDE DEF chosen, registry
    <3>4. job' \in Job
      <4>1. {InForce.mode} \in SUBSET CredentialModes /\ job \in Job
        BY <3>1 DEF SelectionInv, SelectionTypeOK
      <4>2. job' = [job EXCEPT !.pc = "generate", !.read = NoChoice,
                               !.modes = {InForce.mode}, !.recorded = chosen]
        BY <2>1, <2>3
      <4> QED
        BY <3>3, <4>1, <4>2 DEF Job
    <3>5. /\ job'.pc = "generate" /\ job'.read = NoChoice /\ job'.call = job.call
          /\ job'.modes = {InForce.mode} /\ job'.recorded = chosen
      BY <2>1, <2>3 DEF SelectionInv, SelectionTypeOK, Job
    <3>6. InForce' = InForce
      BY <2>1 DEF InForce
    <3>7. job.call = NoChoice
      BY <2>1 DEF SelectionInv, CallsLast
    <3>8. ModesSeen' /\ CallsLast' /\ SharedWasAdmitted' /\ CallIsAsRecorded'
      BY <3>3, <3>5, <3>6, <3>7 DEF ModesSeen, CallsLast, SharedWasAdmitted, CallIsAsRecorded
    <3> QED
      BY <2>1, <3>4, <3>8, JobGoesOn
  <2> QED
    BY <2>2, <2>3
<1>8. CASE GenerationResolved
  <2> DEFINE registry == Resolution(job.read)
             chosen == SelectedAgain(registry, job.recorded)
             call == [source |-> registry.source, use |-> chosen,
                      offers |-> registry.offers[chosen.provider]]
  <2>1. /\ job.pc = "generate" /\ job.read # NoChoice
        /\ UNCHANGED <<settings, updates, personal>>
        /\ \/ job' = NoJob
           \/ /\ registry # NoChoice /\ chosen # NoChoice
              /\ job' = [job EXCEPT !.pc = "called", !.call = call]
    BY <1>8 DEF GenerationResolved
  <2>2. CASE job' = NoJob
    BY <2>1, <2>2, JobEnds
  <2>3. CASE job' # NoJob
    <3>1. job.read \in Settings /\ job.recorded \in Choice
      BY <2>1 DEF SelectionInv, SelectionTypeOK, Job, CallsLast
    <3>2. /\ IsRegistry(registry)
          /\ registry.source # "personal" => job.read.mode # "personal_required"
      BY <2>1, <2>3, <3>1, ResolutionOK DEF SelectionInv
    <3>3. /\ job.recorded = [provider |-> job.recorded.provider, model |-> job.recorded.model]
          /\ job.recorded.provider \in PlanningProviders /\ job.recorded.provider # NoChoice
          /\ job.recorded.model # NoChoice
      BY <3>1 DEF Choice, AllModels
    <3>4. /\ chosen = job.recorded /\ chosen \in Choice
          /\ Contains(registry.offers[chosen.provider], chosen.model)
      BY <2>1, <2>3, <3>2, <3>3, SelectedOK DEF SelectedAgain
    <3> HIDE DEF chosen, registry
    <3>5. /\ call \in [source : Sources, use : Choice, offers : Seq(AllModels)]
          /\ call.source = registry.source /\ call.use = chosen
          /\ call.offers = registry.offers[chosen.provider]
      BY <3>2, <3>4 DEF IsRegistry, Choice
    <3> HIDE DEF call
    <3>6. job' \in Job
      BY <2>1, <2>3, <3>5 DEF SelectionInv, SelectionTypeOK, Job
    <3>7. /\ job'.pc = "called" /\ job'.read = job.read /\ job'.call = call
          /\ job'.modes = job.modes /\ job'.recorded = job.recorded
      BY <2>1, <2>3 DEF SelectionInv, SelectionTypeOK, Job
    <3>8. InForce' = InForce
      BY <2>1 DEF InForce
    <3>9. ModesSeen' /\ CallsLast'
      BY <2>1, <3>7, <3>8 DEF SelectionInv, ModesSeen, CallsLast
    <3>10. SharedWasAdmitted'
      BY <2>1, <3>2, <3>5, <3>7 DEF SelectionInv, ModesSeen, SharedWasAdmitted
    <3>11. CallIsAsRecorded'
      BY <3>4, <3>5, <3>7, <3>10 DEF CallIsAsRecorded, SharedWasAdmitted
    <3> QED
      BY <2>1, <3>6, <3>9, <3>10, <3>11, JobGoesOn
  <2> QED
    BY <2>2, <2>3
<1>9. CASE CallEnds
  BY <1>9, JobEnds DEF CallEnds
<1> QED
  BY <1>1, <1>2, <1>3, <1>4, <1>5, <1>6, <1>7, <1>8, <1>9 DEF SelectionNext, AllModels

\* The provider a run calls is the one it recorded, with a model its credentials
\* offer, and never the shared ones while personal ones are required
\* (SettingsBackedPlanner.ResolveSelection and Generate).
THEOREM CallIsAsRecordedAlways == SelectionSpec => []CallIsAsRecorded
<1>1. SelectionInv => CallIsAsRecorded
  BY DEF SelectionInv
<1> QED
  BY InitInv, StepInv, <1>1, PTL DEF SelectionSpec

\* A run can be made with whatever settings two administrators have saved at once:
\* the default model is one of those configured (PlanningSettingsStore.Upsert).
THEOREM SavedSettingsWorkAlways == SelectionSpec => []SavedSettingsWork
<1>1. SelectionInv => SavedSettingsWork
  BY DEF SelectionInv
<1> QED
  BY InitInv, StepInv, <1>1, PTL DEF SelectionSpec
=============================================================================
