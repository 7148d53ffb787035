-------------------------- MODULE ConnectorDispatch --------------------------
(***************************************************************************)
(* The connector side of planning dispatch: the handlers ClaimNextRun and  *)
(* SubmitPlanningRunResult (internal/handlers/local_connectors.go), the    *)
(* revoke handler, and the loop of the connector daemon that calls them    *)
(* (internal/connector/service.go Run and RunOnce).                        *)
(*                                                                         *)
(* A submit request in progress occupies one of Handlers; its pc names the *)
(* next store call.  At most one claim request per connector is open at a  *)
(* time: the daemon is a single loop.                                      *)
(***************************************************************************)
EXTENDS PlanningRunStore

CONSTANTS
  Handlers,    \* concurrent submit requests
  Outcomes,    \* the results daemons post
  Losses       \* whether the daemon may crash or a message may be lost

Results == {"failure", "invalid", "drafts"}

ASSUME DispatchAssumption == Outcomes \subseteq Results /\ Losses \in BOOLEAN

VARIABLES
  exec,    \* the run each daemon is executing, or None
  poll,    \* how far each open claim request is
  submit   \* the submit request in each handler

dispatchVars == <<exec, poll, submit>>

Request ==
  [pc : {"idle", "check", "failAudit", "failRun", "draft", "closeAudit",
         "complete", "undoDrafts", "undo", "undoAudit"},
   c : Connectors \cup {None}, r : Runs \cup {None},
   result : Results, audited : BOOLEAN]

NoRequest == [pc |-> "idle", c |-> None, r |-> None,
              result |-> "invalid", audited |-> FALSE]

DispatchTypeOK ==
  /\ exec \in [Connectors -> Runs \cup {None}]
  /\ poll \in [Connectors -> {"idle", "swept"}]
  /\ submit \in [Handlers -> Request]

DispatchInit ==
  /\ exec = [c \in Connectors |-> None]
  /\ poll = [c \in Connectors |-> "idle"]
  /\ submit = [h \in Handlers |-> NoRequest]

-----------------------------------------------------------------------------
(* claim-next-run                                                          *)

\* Authentication and the sweep.  Revocation is looked at here only.
ClaimSweep(c) ==
  /\ exec[c] = None
  /\ poll[c] = "idle"
  /\ c \notin revoked
  /\ SweepExpiredLeases
  /\ poll' = [poll EXCEPT ![c] = "swept"]
  /\ UNCHANGED <<agent, drafts, revoked, exec, submit>>

\* The lease is written and the reply reaches the daemon.
ClaimLease(c, r) ==
  /\ poll[c] = "swept"
  /\ LeaseNext(r, c)
  /\ poll' = [poll EXCEPT ![c] = "idle"]
  /\ exec' = [exec EXCEPT ![c] = r]
  /\ UNCHANGED <<agent, drafts, revoked, submit>>

\* The lease is written but its reply is lost: the requirement could not be
\* loaded (500), or the daemon or its connection is gone.
ClaimLeaseLost(c, r) ==
  /\ DbFaults \/ Losses
  /\ poll[c] = "swept"
  /\ LeaseNext(r, c)
  /\ poll' = [poll EXCEPT ![c] = "idle"]
  /\ UNCHANGED <<agent, drafts, revoked, exec, submit>>

\* Nothing to lease, or the statement fails.
ClaimNothing(c) ==
  /\ poll[c] = "swept"
  /\ DbFaults \/ \A r \in Runs : ~ Claimable(c, r)
  /\ poll' = [poll EXCEPT ![c] = "idle"]
  /\ UNCHANGED <<tables, exec, submit>>

-----------------------------------------------------------------------------
(* The daemon between claim and submit                                     *)

\* RunOnce posts its result once and does not retry.  Its POST may fail while
\* the server still works on it, after which the loop goes on: the request
\* leaves the daemon free.
PostResult(c, h, result) ==
  /\ exec[c] # None
  /\ submit[h].pc = "idle"
  /\ submit' = [submit EXCEPT ![h] =
                  [pc |-> "check", c |-> c, r |-> exec[c],
                   result |-> result, audited |-> FALSE]]
  /\ exec' = [exec EXCEPT ![c] = None]
  /\ UNCHANGED <<tables, poll>>

\* The daemon dies while executing, or its POST never arrives.
LoseResult(c) ==
  /\ Losses
  /\ exec[c] # None
  /\ exec' = [exec EXCEPT ![c] = None]
  /\ UNCHANGED <<tables, poll, submit>>

-----------------------------------------------------------------------------
(* planning-runs/:id/result                                                *)

To(h, pc) == submit' = [submit EXCEPT ![h].pc = pc]

Reply(h) == submit' = [submit EXCEPT ![h] = NoRequest]

InCall(h, pc) == submit[h].pc = pc

\* Authentication, lease check, audit-row lookup and validation of the
\* payload: only the lease check reads what other requests write in a way
\* that matters, the audit row is never removed, so they are one step.
Accepted(h) ==
  /\ submit[h].c \notin revoked
  /\ HoldsLease(submit[h].c, submit[h].r)
  /\ submit[h].result # "invalid"

SubmitCheck(h) ==
  /\ InCall(h, "check")
  /\ Accepted(h)
  /\ submit' = [submit EXCEPT ![h] =
                  [@ EXCEPT !.pc = IF submit[h].result = "drafts"
                                   THEN "draft" ELSE "failAudit",
                            !.audited = agent[submit[h].r] # "none"]]
  /\ UNCHANGED <<tables, exec, poll>>

\* 401, 409 "not currently leased to this connector", or 400.
SubmitRejected(h) ==
  /\ InCall(h, "check")
  /\ ~ Accepted(h)
  /\ Reply(h)
  /\ UNCHANGED <<tables, exec, poll>>

FinalizeAudit(h, s) ==
  IF submit[h].audited THEN UpdateAgentRun(submit[h].r, s)
                       ELSE UNCHANGED agent

SubmitFailAudit(h) ==
  /\ InCall(h, "failAudit")
  /\ FinalizeAudit(h, "failed")
  /\ To(h, "failRun")
  /\ UNCHANGED <<run, drafts, revoked, exec, poll>>

\* Mutant: the failure path writes like Fail, without the lease.
SubmitFailRun_Unfenced(h) ==
  /\ InCall(h, "failRun")
  /\ Fail(submit[h].r)
  /\ Reply(h)
  /\ UNCHANGED <<agent, drafts, revoked, exec, poll>>

SubmitFailRun(h) ==
  /\ InCall(h, "failRun")
  /\ IF HoldsLease(submit[h].c, submit[h].r)
     THEN FailLocalConnectorRun(submit[h].r, submit[h].c)
     ELSE UNCHANGED run
  /\ Reply(h)
  /\ UNCHANGED <<agent, drafts, revoked, exec, poll>>

\* Inserts without looking at the lease again.
SubmitDrafts(h) ==
  /\ InCall(h, "draft")
  /\ CreateDraftsForPlanningRun(submit[h].r, submit[h].c)
  /\ To(h, "closeAudit")
  /\ UNCHANGED <<run, agent, revoked, exec, poll>>

SubmitCloseAudit(h) ==
  /\ InCall(h, "closeAudit")
  /\ FinalizeAudit(h, "completed")
  /\ To(h, "complete")
  /\ UNCHANGED <<run, drafts, revoked, exec, poll>>

SubmitComplete(h) ==
  /\ InCall(h, "complete")
  /\ CompleteLocalConnectorRun(submit[h].r, submit[h].c)
  /\ Reply(h)
  /\ UNCHANGED <<agent, drafts, revoked, exec, poll>>

\* Mutant: the 500 is sent without the cleanup.
SubmitLeaseLost_NoCleanup(h) ==
  /\ InCall(h, "complete")
  /\ ~ HoldsLease(submit[h].c, submit[h].r)
  /\ Reply(h)
  /\ UNCHANGED <<tables, exec, poll>>

\* ErrPlanningRunLeaseUnavailable: the UPDATE matched no row.
SubmitLeaseLost(h) ==
  /\ InCall(h, "complete")
  /\ ~ HoldsLease(submit[h].c, submit[h].r)
  /\ To(h, "undo")
  /\ UNCHANGED <<tables, exec, poll>>

\* "undoDrafts" follows a failed audit update and ends the request there;
\* "undo" follows a failed completion and still has the audit row to fail.
SubmitUndoDrafts(h) ==
  /\ submit[h].pc \in {"undoDrafts", "undo"}
  /\ DeleteByPlanningRun(submit[h].r)
  /\ IF InCall(h, "undo") THEN To(h, "undoAudit") ELSE Reply(h)
  /\ UNCHANGED <<run, agent, revoked, exec, poll>>

\* Mutant: the audit row keeps its completed status.
SubmitUndoAudit_Skipped(h) ==
  /\ InCall(h, "undoAudit")
  /\ Reply(h)
  /\ UNCHANGED <<tables, exec, poll>>

SubmitUndoAudit(h) ==
  /\ InCall(h, "undoAudit")
  /\ FinalizeAudit(h, "failed")
  /\ Reply(h)
  /\ UNCHANGED <<run, drafts, revoked, exec, poll>>

\* A store call of the request returns an error.
SubmitFault(h) ==
  /\ DbFaults
  /\ \/ submit[h].pc \in {"check", "failAudit", "failRun", "draft",
                          "undoDrafts", "undoAudit"} /\ Reply(h)
     \/ InCall(h, "closeAudit") /\ submit[h].audited /\ To(h, "undoDrafts")
     \/ InCall(h, "complete") /\ To(h, "undo")
     \/ InCall(h, "undo") /\ To(h, "undoAudit")
  /\ UNCHANGED <<tables, exec, poll>>

SubmitStep(h) ==
  \/ SubmitCheck(h) \/ SubmitRejected(h)
  \/ SubmitFailAudit(h) \/ SubmitFailRun(h)
  \/ SubmitDrafts(h) \/ SubmitCloseAudit(h)
  \/ SubmitComplete(h) \/ SubmitLeaseLost(h)
  \/ SubmitUndoDrafts(h) \/ SubmitUndoAudit(h)
  \/ SubmitFault(h)

ClaimStep(c) ==
  \/ ClaimSweep(c) \/ ClaimNothing(c)
  \/ \E r \in Runs : ClaimLease(c, r) \/ ClaimLeaseLost(c, r)

DaemonStep(c) ==
  \/ LoseResult(c)
  \/ \E h \in Handlers, result \in Outcomes : PostResult(c, h, result)

RevokeConnector(c) == Revoke(c) /\ UNCHANGED dispatchVars
=============================================================================
