----------------------------- MODULE CliConfigs -----------------------------
(***************************************************************************)
(* The CLI configurations in a connector's metadata document, as functions *)
(* of the list before to the list after: store/local_connector_store.go    *)
(* AddCliConfig, UpdateCliConfig, DeleteCliConfig, SetPrimaryCliConfig.    *)
(* Model ids and commands are validated and stored, nothing else depends   *)
(* on them, so a configuration keeps its id, label and primary flag here.  *)
(***************************************************************************)
EXTENDS Integers, Sequences

CONSTANTS ConfigIds,       \* the uuids AddCliConfig may draw
          Labels,          \* provider and trimmed label: unique together
          MaxCliConfigs

ASSUME CliConfigsAssumption == MaxCliConfigs \in Nat

Config == [id : ConfigIds, label : Labels, primary : BOOLEAN]

Demoted(cs) == [i \in DOMAIN cs |-> [cs[i] EXCEPT !.primary = FALSE]]

\* The guard against duplicates; an update does not compare with itself.
LabelFree(cs, label, self) ==
  \A i \in DOMAIN cs : i # self => cs[i].label # label

\* A uuid is new.
FreshId(cs, id) == \A i \in DOMAIN cs : cs[i].id # id

CanAddCliConfig(cs, label) == Len(cs) < MaxCliConfigs /\ LabelFree(cs, label, 0)

\* The first one is primary whatever the request says.
AddCliConfig(cs, id, label, wantsPrimary) ==
  LET primary == cs = <<>> \/ wantsPrimary
  IN  Append(IF primary THEN Demoted(cs) ELSE cs,
             [id |-> id, label |-> label, primary |-> primary])

\* Promotes position k and demotes the others.
SetPrimaryCliConfig(cs, k) == [i \in DOMAIN cs |-> [cs[i] EXCEPT !.primary = (i = k)]]

CanUpdateCliConfig(cs, k, label) == LabelFree(cs, label, k)

\* is_primary = false and an absent is_primary change nothing.
UpdateCliConfig(cs, k, label, wantsPrimary) ==
  LET named == [cs EXCEPT ![k].label = label]
  IN  IF wantsPrimary THEN SetPrimaryCliConfig(named, k) ELSE named

Without(cs, k) ==
  [i \in 1 .. Len(cs) - 1 |-> IF i < k THEN cs[i] ELSE cs[i + 1]]

\* The first that remains takes over from a deleted primary.
DeleteCliConfig(cs, k) ==
  LET rest == Without(cs, k)
  IN  IF cs[k].primary /\ rest # <<>>
      THEN [rest EXCEPT ![1].primary = TRUE]
      ELSE rest

\* The lists that one request for each of the four may leave behind.
WithAdded(cs) ==
  {AddCliConfig(cs, x.id, x.label, x.primary) :
     x \in {y \in Config : FreshId(cs, y.id) /\ CanAddCliConfig(cs, y.label)}}
WithUpdated(cs) ==
  UNION {{UpdateCliConfig(cs, k, l, primary) :
            l \in {x \in Labels : CanUpdateCliConfig(cs, k, x)}, primary \in BOOLEAN} : k \in DOMAIN cs}
WithDeleted(cs) == {DeleteCliConfig(cs, k) : k \in DOMAIN cs}
WithPromoted(cs) == {SetPrimaryCliConfig(cs, k) : k \in DOMAIN cs}

EditedCliConfigs(cs) ==
  WithAdded(cs) \cup WithUpdated(cs) \cup WithDeleted(cs) \cup WithPromoted(cs)

-----------------------------------------------------------------------------
\* "exactly one primary if any exist"
OnePrimary(cs) ==
  cs # <<>> => \E i \in DOMAIN cs : \A j \in DOMAIN cs : cs[j].primary <=> j = i

LabelsUnique(cs) ==
  \A i, j \in DOMAIN cs : cs[i].label = cs[j].label => i = j

IdsUnique(cs) ==
  \A i, j \in DOMAIN cs : cs[i].id = cs[j].id => i = j

CoherentConfigs(cs) ==
  /\ OnePrimary(cs)
  /\ LabelsUnique(cs)
  /\ IdsUnique(cs)
  /\ Len(cs) <= MaxCliConfigs
=============================================================================
