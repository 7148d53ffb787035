--------------------------- MODULE PlanningSystem ---------------------------
(***************************************************************************)
(* Planning dispatch as a whole: browser requests run the orchestrator     *)
(* (Orchestrator), connector daemons claim and submit (ConnectorDispatch), *)
(* all against one set of tables (PlanningRunStore), while leases lapse    *)
(* and the server process may die and restart.                             *)
(***************************************************************************)
EXTENDS Orchestrator, ConnectorDispatch

CONSTANT Crashes   \* whether the server process may die

ASSUME SystemAssumption == Crashes \in BOOLEAN

vars == <<tables, orch, dispatchVars>>

TypeOK == StoreTypeOK /\ OrchestratorTypeOK /\ DispatchTypeOK

Init == StoreInit /\ OrchestratorInit /\ DispatchInit

\* Every request in progress dies between two statements; the tables and
\* the daemons survive, and startup repairs no planning run.
ServerCrash ==
  /\ Crashes
  /\ orch' = [r \in Runs |-> IF orch[r] = "none" THEN "none" ELSE "done"]
  /\ poll' = [c \in Connectors |-> "idle"]
  /\ submit' = [h \in Handlers |-> NoRequest]
  /\ UNCHANGED <<tables, exec>>

Next ==
  \/ \E r \in Runs :
       \/ (Create(r) \/ OrchestratorStep(r)) /\ UNCHANGED dispatchVars
       \/ Cancel(r) /\ UNCHANGED dispatchVars
       \/ LeaseLapse(r) /\ UNCHANGED <<orch, dispatchVars>>
  \/ \E c \in Connectors :
       (ClaimStep(c) \/ DaemonStep(c) \/ RevokeConnector(c)) /\ UNCHANGED orch
  \/ \E h \in Handlers : SubmitStep(h) /\ UNCHANGED orch
  \/ ServerCrash

Safety == Init /\ [][Next]_vars

-----------------------------------------------------------------------------
(* Invariants                                                              *)

\* The dispatch columns of a local run move in step with its status: a run
\* waiting for a connector has no holder and no lease, a running one has
\* both, a settled one has handed its lease back; server runs never carry a
\* lease.  The claim, submit and cancel queries of planning_run_store.go each
\* test only some of these columns and rely on the others to agree.
RowCoherent(row) ==
  IF row.mode = "server"
  THEN row.dispatch = "not_required" /\ row.connector = None /\ row.lease = "null"
  ELSE /\ row.status = "queued" =>
            /\ row.dispatch \in {"queued", "expired"}
            /\ row.connector = None
            /\ row.lease = "null"
       /\ row.status = "running" =>
            /\ row.dispatch = "leased"
            /\ row.connector # None
            /\ row.lease # "null"
       /\ row.status \in Terminal => row.dispatch = "returned" /\ row.lease = "null"
       /\ row.status # "absent"

LeaseCoherence == \A r \in Runs : RowCoherent(run[r])

\* The daemon that holds a run was allowed to have it: it belongs to the
\* requesting user, understands account bindings if the run carries one, and
\* is the pinned connector if there is a pin (Path B R3, Phase 6a).
DispatchEligibility ==
  \A r \in Runs :
    run[r].mode = "local" /\ run[r].status = "running" =>
      MayRun(run[r].connector, run[r])

\* A requirement never has two queued or running planning runs, although
\* MarkRunning can turn a cancelled run back into a running one.
OneActivePerRequirement ==
  \A r, s \in Runs :
    /\ run[r].status \in Active
    /\ run[s].status \in Active
    /\ run[r].req = run[s].req
    => r = s

\* No request is working on run r.
Quiet(r) ==
  /\ orch[r] \in {"none", "done"}
  /\ \A h \in Handlers : submit[h].r # r

\* Drafts are inserted before the run is known to complete, and removed by
\* hand on every failing path.  Once nobody works on a run any more, drafts
\* are left behind only by a run that completed.  (Without server crashes and
\* database errors; no transaction spans the two tables.)
NoOrphanDrafts ==
  \A r \in Runs :
    Quiet(r) /\ run[r].status # "completed" => drafts[r] = {}

\* The audit trail never claims a success that did not happen: once nobody
\* works on a run, a completed audit row belongs to a completed run, however
\* the submissions of two connectors to one run interleaved.  (Under the same
\* assumptions.)
AuditNeverOverclaims ==
  \A r \in Runs :
    Quiet(r) /\ agent[r] = "completed" => run[r].status = "completed"

-----------------------------------------------------------------------------
(* Action properties                                                       *)

\* A local run that has been completed, failed or cancelled is never touched
\* again, whichever stale daemon, sweep or second cancel arrives; the one
\* exception is the orchestrator giving up on an audit row it could not write.
SettledRunsStay ==
  \A r \in Runs :
    run[r].mode = "local" /\ run[r].status \in Terminal /\ orch[r] # "abort"
      => run'[r] = run[r]

SettledIsFinal == [][SettledRunsStay]_vars

-----------------------------------------------------------------------------
(* Fairness: requests in progress run to their end, daemons keep polling   *)
(* and working, clocks advance.  Creating, cancelling, revoking and losing *)
(* are never forced.  PostResult is given strong fairness because only the *)
(* bound on Handlers can disable it.                                       *)

Fairness ==
  /\ \A r \in Runs :
       /\ WF_vars(OrchestratorStep(r) /\ UNCHANGED dispatchVars)
       /\ WF_vars(LeaseLapse(r) /\ UNCHANGED <<orch, dispatchVars>>)
  /\ \A h \in Handlers : WF_vars(SubmitStep(h) /\ UNCHANGED orch)
  /\ \A c \in Connectors :
       /\ WF_vars(ClaimStep(c) /\ UNCHANGED orch)
       /\ SF_vars(DaemonStep(c) /\ UNCHANGED orch)

Spec == Safety /\ Fairness

\* A run whose lease has run out does not stay with its dead holder: as long
\* as any paired daemon, of any account, keeps polling, it is put back in the
\* queue or settled.  (Nothing but another claim sweeps expired leases.)
LapsedLeaseIsReclaimed ==
  \A r \in Runs :
    run[r].lease = "lapsed" ~> run[r].lease # "lapsed" \/ revoked = Connectors

LapseStep == \E r \in Runs : run[r].lease = "live" /\ run'[r].lease = "lapsed"

Served(r) ==
  \/ run[r].status # "queued"
  \/ \A c \in Connectors : c \in revoked \/ ~ MayRun(c, run[r])

\* If from some time on daemons answer within their leases, a queued local
\* run is served: some eligible daemon gets it, unless it is cancelled or
\* every eligible connector is revoked.  Older runs, pinned runs and runs for
\* newer daemons cannot block the queue for it.
QueueDrains ==
  <>[][~ LapseStep]_vars =>
    \A r \in Runs : run[r].mode = "local" /\ run[r].status = "queued" ~> Served(r)

-----------------------------------------------------------------------------
(* Refinement: the local rows of planning_runs are a DispatchQueue         *)

LocalJobs ==
  [req : Requirements, user : Users, bound : BOOLEAN,
   target : Connectors \cup {None}]

Phase(row) ==
  IF row.mode # "local" THEN "none"
  ELSE CASE row.status = "queued" -> "waiting"
         [] row.status = "running" -> "held"
         [] OTHER -> row.status

JobOf(row) ==
  IF row.mode = "local"
  THEN [req |-> row.req, user |-> row.user, bound |-> row.bound, target |-> row.target]
  ELSE None

Topic(j) == j.req

Queue == INSTANCE DispatchQueue WITH
  Workers <- Connectors, Jobs <- LocalJobs, Eligible <- MayRun,
  phase <- [r \in Runs |-> Phase(run[r])],
  holder <- [r \in Runs |-> run[r].connector],
  job <- [r \in Runs |-> JobOf(run[r])]

\* Claiming, sweeping, submitting, cancelling and creating, as the handlers
\* interleave them, implement the work queue: FIFO among eligible jobs, one
\* holder, one open job per requirement, a result only from a held job, and
\* nothing after a result.  (Without database errors.)
ImplementsQueue == Queue!Spec

-----------------------------------------------------------------------------
(* What the documentation says and the code does not keep                  *)

\* docs/api-surface.md, "A successful planning run now persists ranked backlog
\* suggestions linked to the requirement and run."
CompletedRunHasDrafts ==
  \A r \in Runs : Quiet(r) /\ run[r].status = "completed" => drafts[r] # {}

\* handlers/planning_runs.go Cancel: "transitions a queued or running planning
\* run into the cancelled terminal state".
CancelledIsTerminal ==
  [][\A r \in Runs : run[r].status = "cancelled" => run'[r].status = "cancelled"]_vars
=============================================================================
