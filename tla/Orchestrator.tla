---------------------------- MODULE Orchestrator ----------------------------
(***************************************************************************)
(* internal/planning/orchestrator.go RunWithBindingSnapshot and            *)
(* failRunPair, with the request handlers that reach planning_runs from a  *)
(* browser (internal/handlers/planning_runs.go Create and Cancel).  One    *)
(* invocation creates exactly one run, so it is indexed by that run;       *)
(* orch[r] names the next store or generator call it will make.            *)
(***************************************************************************)
EXTENDS PlanningRunStore

CONSTANT Modes   \* the execution modes requests ask for

ASSUME OrchestratorAssumption == Modes \subseteq {"local", "server"}

VARIABLE orch

OrchestratorTypeOK ==
  orch \in [Runs -> {"none", "start", "audit", "generate", "draft",
                     "closeAudit", "complete", "abort", "cleanup", "fail",
                     "failAudit", "done"}]

OrchestratorInit == orch = [r \in Runs |-> "none"]

Goto(r, pc) == orch' = [orch EXCEPT ![r] = pc]

At(r, pc) == orch[r] = pc

-----------------------------------------------------------------------------
\* Which dispatch columns a local request may fill: none, an account binding,
\* or a (connector, cli_config) pin.
DispatchChoices(u) ==
  {<<FALSE, None>>, <<TRUE, None>>}
    \cup {<<FALSE, c>> : c \in {d \in Connectors : Owner[d] = u /\ d \notin revoked}}

\* A local request needs a usable connector of that user.  The check and the
\* INSERT are two statements; a revocation between them gives the state that
\* a revocation after both gives, so they are one step here.
CreateLocal(r, q, u, b, t) ==
  /\ "local" \in Modes
  /\ \E c \in Connectors : Owner[c] = u /\ c \notin revoked
  /\ <<b, t>> \in DispatchChoices(u)
  /\ CreateWithBinding(r, QueuedRow("local", q, u, b, t))
  /\ Goto(r, "audit")
  /\ UNCHANGED <<agent, drafts, revoked>>

\* server_provider and deterministic runs: no dispatch column matters.
CreateServer(r, q) ==
  /\ "server" \in Modes
  /\ CreateWithBinding(r, QueuedRow("server", q, None, FALSE, None))
  /\ Goto(r, "start")
  /\ UNCHANGED <<agent, drafts, revoked>>

Start(r) ==
  /\ At(r, "start")
  /\ MarkRunning(r)
  /\ Goto(r, "audit")
  /\ UNCHANGED <<agent, drafts, revoked>>

\* The index refuses MarkRunning: the run was cancelled meanwhile and another
\* run of the requirement became active.
StartRefused(r) ==
  /\ At(r, "start")
  /\ ~ IndexAdmits(r, run[r].req)
  /\ Goto(r, "abort")
  /\ UNCHANGED tables

OpenAudit(r) ==
  /\ At(r, "audit")
  /\ CreateOrGetByIdempotency(r)
  /\ Goto(r, IF run[r].mode = "local" THEN "done" ELSE "generate")
  /\ UNCHANGED <<run, drafts, revoked>>

Generate(r) ==
  /\ At(r, "generate")
  /\ \E next \in {"draft", "cleanup"} : Goto(r, next)
  /\ UNCHANGED tables

StoreDrafts(r) ==
  /\ At(r, "draft")
  /\ CreateDraftsForPlanningRun(r, None)
  /\ Goto(r, "closeAudit")
  /\ UNCHANGED <<run, agent, revoked>>

CloseAudit(r) ==
  /\ At(r, "closeAudit")
  /\ UpdateAgentRun(r, "completed")
  /\ Goto(r, "complete")
  /\ UNCHANGED <<run, drafts, revoked>>

Finish(r) ==
  /\ At(r, "complete")
  /\ Complete(r)
  /\ Goto(r, "done")
  /\ UNCHANGED <<agent, drafts, revoked>>

\* Fail after MarkRunning or the audit row could not be written.
Abort(r) ==
  /\ At(r, "abort")
  /\ Fail(r)
  /\ Goto(r, "done")
  /\ UNCHANGED <<agent, drafts, revoked>>

\* failRunPair: three statements whose errors are ignored.
PairCleanup(r) ==
  /\ At(r, "cleanup")
  /\ DeleteByPlanningRun(r)
  /\ Goto(r, "fail")
  /\ UNCHANGED <<run, agent, revoked>>

PairFail(r) ==
  /\ At(r, "fail")
  /\ Fail(r)
  /\ Goto(r, "failAudit")
  /\ UNCHANGED <<agent, drafts, revoked>>

PairFailAudit(r) ==
  /\ At(r, "failAudit")
  /\ UpdateAgentRun(r, "failed")
  /\ Goto(r, "done")
  /\ UNCHANGED <<run, drafts, revoked>>

\* Where each call's error return leads.
AfterError(pc) ==
  CASE pc \in {"start", "audit"} -> "abort"
    [] pc \in {"draft", "closeAudit", "complete"} -> "cleanup"
    [] pc = "cleanup" -> "fail"
    [] pc = "fail" -> "failAudit"
    [] pc \in {"abort", "failAudit"} -> "done"

OrchestratorFault(r) ==
  /\ DbFaults
  /\ orch[r] \notin {"none", "generate", "done"}
  /\ Goto(r, AfterError(orch[r]))
  /\ UNCHANGED tables

\* POST /planning-runs/:id/cancel.  The handler's own status read only picks
\* the wording of the 409; CancelIfActive decides.
Cancel(r) ==
  /\ CancelIfActive(r)
  /\ UNCHANGED <<agent, drafts, revoked, orch>>

OrchestratorStep(r) ==
  \/ Start(r) \/ StartRefused(r) \/ OpenAudit(r) \/ Generate(r)
  \/ StoreDrafts(r) \/ CloseAudit(r) \/ Finish(r) \/ Abort(r)
  \/ PairCleanup(r) \/ PairFail(r) \/ PairFailAudit(r)
  \/ OrchestratorFault(r)

Create(r) ==
  \E q \in Requirements :
    \/ CreateServer(r, q)
    \/ \E u \in Users, b \in BOOLEAN, t \in Connectors \cup {None} :
         CreateLocal(r, q, u, b, t)
=============================================================================
