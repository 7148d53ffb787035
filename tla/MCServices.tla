----------------------------- MODULE MCServices -----------------------------
(***************************************************************************)
(* Six components of the server that share no state, one per behaviour:    *)
(* Init chooses the part that runs.                                        *)
(***************************************************************************)
EXTENDS ConnectorLink, AccountBindings, RepoSync, ActivityHub, EventBroker,
        PlanningContext

CONSTANTS t1, t2, n1, n2

VARIABLE part

linkRest ==
  <<part, accountVars, syncVars, hubVars, brokerVars, contextVars>>
accountRest ==
  <<part, linkVars, syncVars, hubVars, brokerVars, contextVars>>
syncRest ==
  <<part, linkVars, accountVars, hubVars, brokerVars, contextVars>>
hubRest ==
  <<part, linkVars, accountVars, syncVars, brokerVars, contextVars>>
brokerRest ==
  <<part, linkVars, accountVars, syncVars, hubVars, contextVars>>
contextRest ==
  <<part, linkVars, accountVars, syncVars, hubVars, brokerVars>>

\* A part that does not run starts in one state.
ServicesInit ==
  /\ part \in {"link", "accounts", "sync", "hub", "broker", "context"}
  /\ Init /\ AccountInit /\ SyncInit /\ HubInit /\ BrokerInit /\ ContextInit
  /\ part # "context" => rows = NothingRead /\ sizes = CHOOSE z \in Sizes : TRUE

\* Three kinds of incident: a scan, a signal that a user posts, a failure that the
\* log tells of.  A behaviour has two at most, of one kind or two.
FewIncidents ==
  Cardinality({s \in Scans : scan[s].pc # "new"}) + Cardinality({x \in signal : x.by = "user"})
    + Cardinality(logged) + Cardinality(doubtful) <= 2

ServicesNext ==
  \/ part = "link" /\ Next /\ UNCHANGED linkRest
  \/ part = "accounts" /\ AccountNext /\ UNCHANGED accountRest
  \/ part = "sync" /\ SyncNext /\ FewIncidents' /\ UNCHANGED syncRest
  \/ part = "hub" /\ HubNext /\ UNCHANGED hubRest
  \/ part = "broker" /\ BrokerNext /\ UNCHANGED brokerRest
  \/ part = "context" /\ ContextNext /\ UNCHANGED contextRest

servicesVars == <<linkRest, linkVars>>

ServicesSpec == ServicesInit /\ [][ServicesNext]_servicesVars

CliNamespace == [p \in Providers |-> "cli"]
OneFile == [c \in Commits |-> "f"]
OneDocument == [f \in {"f"} |-> Docs]

Each(tasks, documents, signals, syncs, agents) ==
  [open_tasks |-> tasks, recent_documents |-> documents, open_drift_signals |-> signals,
   latest_sync_run |-> syncs, recent_agent_runs |-> agents]

TwoTasksAndDocuments == Each(2, 2, 1, 1, 1)
TwoRows == Each(2, 2, 1, 1, 1)

Bytes(items, each) == [n \in 0 .. items |-> 2 + n * each]
OneMeasure == {Each(Bytes(2, 3), Bytes(2, 4), Bytes(1, 3), Bytes(1, 5), Bytes(1, 4))}

\* Slots, identifiers and streams are interchangeable; the parts share their names.
ServicesSymmetry == Permutations({t1, t2}) \cup Permutations({n1, n2})
=============================================================================
