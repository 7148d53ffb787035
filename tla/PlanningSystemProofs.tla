------------------------ MODULE PlanningSystemProofs ------------------------
(***************************************************************************)
(* Proofs about PlanningSystem for any number of runs, requirements,       *)
(* accounts, connectors and concurrent requests, with or without database  *)
(* errors, lost messages and server crashes.                               *)
(***************************************************************************)
EXTENDS PlanningSystem, TLAPS

\* Only server runs get past the audit row in the orchestrator: the calls
\* that write planning_runs without a status guard are made for them alone.
OnlyServerRunsGenerate ==
  \A r \in Runs :
    orch[r] \in {"start", "generate", "draft", "closeAudit", "complete",
                 "cleanup", "fail", "failAudit"}
      => run[r].mode = "server"

\* What one row of planning_runs must satisfy by itself.
RowOK(row) ==
  /\ row \in Row
  /\ RowCoherent(row)
  /\ row.mode = "local" /\ row.status = "running" => MayRun(row.connector, row)

RunsOK ==
  /\ run \in [Runs -> Row]
  /\ LeaseCoherence
  /\ DispatchEligibility
  /\ OneActivePerRequirement

\* The inductive invariant.
IInv ==
  /\ RunsOK
  /\ TypeOK
  /\ OnlyServerRunsGenerate

-----------------------------------------------------------------------------
(* Lemmas about the statements                                             *)

\* A statement that writes one row keeps the table good when the new row is
\* good by itself and, if active, is admitted by the unique index.
LEMMA WriteRow ==
  ASSUME RunsOK, NEW r \in Runs, NEW row, RowOK(row),
         row.status \in Active => IndexAdmits(r, row.req),
         run' = [run EXCEPT ![r] = row]
  PROVE  RunsOK'
<1>1. /\ run' \in [Runs -> Row]
      /\ run'[r] = row
      /\ \A s \in Runs \ {r} : run'[s] = run[s]
  BY DEF RunsOK, RowOK
<1>2. LeaseCoherence'
  BY <1>1 DEF RunsOK, RowOK, LeaseCoherence
<1>3. DispatchEligibility'
  BY <1>1 DEF RunsOK, RowOK, DispatchEligibility
<1>4. OneActivePerRequirement'
  BY <1>1 DEF RunsOK, OneActivePerRequirement, IndexAdmits
<1>5. QED
  BY <1>1, <1>2, <1>3, <1>4 DEF RunsOK

\* A row of a good table is good.
LEMMA GoodRow ==
  ASSUME RunsOK, NEW r \in Runs
  PROVE  RowOK(run[r])
BY DEF RunsOK, RowOK, LeaseCoherence, DispatchEligibility

\* Settling a good row, in whatever state it is, gives a good inactive row.
LEMMA SettledRow ==
  ASSUME NEW row, RowOK(row), NEW s \in Terminal
  PROVE  /\ RowOK(Settled(row, s))
         /\ Settled(row, s).status = s
         /\ Settled(row, s).mode = row.mode
<1>1. CASE row.mode = "local"
  BY <1>1 DEF RowOK, Row, RowCoherent, Settled, Terminal, Active
<1>2. CASE row.mode # "local"
  BY <1>2 DEF RowOK, Row, RowCoherent, Settled, Terminal, Active
<1>3. QED
  BY <1>1, <1>2

\* So the three unguarded or guarded terminal writes keep the table good.
LEMMA SettleRun ==
  ASSUME RunsOK, NEW r \in Runs, NEW s \in Terminal,
         run' = [run EXCEPT ![r] = Settled(@, s)]
  PROVE  /\ RunsOK'
         /\ \A x \in Runs : run'[x].mode = run[x].mode
         /\ \A x \in Runs \ {r} : run'[x] = run[x]
<1>1. RowOK(run[r])
  BY GoodRow
<1>2. /\ RowOK(Settled(run[r], s))
      /\ Settled(run[r], s).status = s
      /\ Settled(run[r], s).mode = run[r].mode
  BY <1>1, SettledRow
<1>3. run' = [run EXCEPT ![r] = Settled(run[r], s)]
  OBVIOUS
<1>4. s \notin Active
  BY DEF Active, Terminal
<1>5. RunsOK'
  BY <1>2, <1>3, <1>4, WriteRow
<1>6. QED
  BY <1>2, <1>3, <1>5 DEF RunsOK

\* The sweep keeps the table good: it moves expired leases, all at once, from
\* running to queued, so no requirement gains an active run.
LEMMA SweepKeeps ==
  ASSUME RunsOK, SweepExpiredLeases
  PROVE  /\ RunsOK'
         /\ \A x \in Runs : run'[x].mode = run[x].mode
         /\ \A x \in Runs : run[x].status \in Terminal => run'[x] = run[x]
<1> DEFINE Back(row) == [row EXCEPT !.status = "queued", !.dispatch = "expired",
                                    !.connector = None, !.lease = "null"]
<1>1. ASSUME NEW x \in Runs
      PROVE  /\ RowOK(run'[x])
             /\ run'[x].mode = run[x].mode
             /\ run'[x].req = run[x].req
             /\ run'[x].status \in Active => run[x].status \in Active
             /\ run[x].status \in Terminal => run'[x] = run[x]
  <2>1. RowOK(run[x])
    BY GoodRow
  <2>2. CASE LeaseExpired(run[x])
    <3>1. run'[x] = Back(run[x])
      BY <2>2 DEF SweepExpiredLeases
    <3>2. QED
      BY <2>1, <2>2, <3>1 DEF RowOK, Row, RowCoherent, LeaseExpired, Active, Terminal
  <2>3. CASE ~ LeaseExpired(run[x])
    <3>1. run'[x] = run[x]
      BY <2>3 DEF SweepExpiredLeases
    <3>2. QED
      BY <2>1, <3>1
  <2>4. QED
    BY <2>2, <2>3
<1>2. run' \in [Runs -> Row]
  <2>1. run' = [x \in Runs |-> run'[x]]
    BY DEF SweepExpiredLeases
  <2>2. QED
    BY <1>1, <2>1 DEF RowOK
<1>3. LeaseCoherence' /\ DispatchEligibility'
  BY <1>1 DEF RowOK, LeaseCoherence, DispatchEligibility
<1>4. OneActivePerRequirement'
  BY <1>1 DEF RunsOK, OneActivePerRequirement
<1>5. QED
  BY <1>1, <1>2, <1>3, <1>4 DEF RunsOK

\* The new row of a claim.
LEMMA LeasedRow ==
  ASSUME RunsOK, NEW r \in Runs, NEW c \in Connectors, LeaseNext(r, c)
  PROVE  /\ RunsOK'
         /\ \A x \in Runs : run'[x].mode = run[x].mode
         /\ \A x \in Runs : run[x].status \in Terminal => run'[x] = run[x]
<1> DEFINE row == [run[r] EXCEPT !.status = "running", !.dispatch = "leased",
                                 !.connector = c, !.lease = "live"]
<1>1. RowOK(run[r]) /\ run[r].status = "queued" /\ MayRun(c, run[r])
  BY GoodRow DEF LeaseNext, Claimable
<1>2. /\ RowOK(row)
      /\ row.mode = run[r].mode
      /\ row.req = run[r].req
  <2>1. /\ row \in Row
        /\ row.mode = "local" /\ row.status = "running" /\ row.connector = c
        /\ row.dispatch = "leased" /\ row.lease = "live"
        /\ row.user = run[r].user /\ row.bound = run[r].bound
        /\ row.target = run[r].target /\ row.req = run[r].req
        /\ row.mode = run[r].mode
    BY <1>1 DEF RowOK, Row, LeaseNext, Claimable, Active
  <2>2. RowCoherent(row)
    BY <2>1, StoreAssumption DEF RowCoherent, Terminal
  <2>3. MayRun(row.connector, row)
    BY <1>1, <2>1 DEF MayRun
  <2>4. QED
    BY <2>1, <2>2, <2>3 DEF RowOK
<1>3. run' = [run EXCEPT ![r] = row]
  BY DEF LeaseNext
<1>4. IndexAdmits(r, row.req)
  BY <1>1, <1>2 DEF RunsOK, OneActivePerRequirement, IndexAdmits, Active
<1> HIDE DEF row
<1>5. RunsOK'
  BY <1>2, <1>3, <1>4, WriteRow
<1>6. QED
  BY <1>1, <1>2, <1>3, <1>5 DEF RunsOK, Terminal

-----------------------------------------------------------------------------
(* The orchestrator and the browser requests                               *)

\* A request that inserts a run.
LEMMA CreateKeeps ==
  ASSUME IInv, NEW r \in Runs, Create(r), UNCHANGED dispatchVars
  PROVE  IInv'
<1>1. ASSUME NEW q \in Requirements, CreateServer(r, q)
      PROVE  IInv'
  <2> DEFINE row == QueuedRow("server", q, None, FALSE, None)
  <2>1. /\ RowOK(row)
        /\ row.req = q
        /\ row.mode = "server"
    BY DEF RowOK, Row, RowCoherent, QueuedRow, Active, Terminal
  <2>2. IndexAdmits(r, q) /\ run' = [run EXCEPT ![r] = row]
    BY <1>1, <2>1 DEF CreateServer, CreateWithBinding
  <2> HIDE DEF row
  <2>3. RunsOK'
    BY <2>1, <2>2, WriteRow DEF IInv
  <2>4. TypeOK'
    BY <1>1, <2>3 DEF IInv, RunsOK, TypeOK, StoreTypeOK, OrchestratorTypeOK,
         DispatchTypeOK, dispatchVars, CreateServer, Goto
  <2>5. OnlyServerRunsGenerate'
    BY <1>1, <2>1, <2>2 DEF IInv, RunsOK, TypeOK, OrchestratorTypeOK,
         OnlyServerRunsGenerate, CreateServer, Goto
  <2>6. QED
    BY <2>3, <2>4, <2>5 DEF IInv
<1>2. ASSUME NEW q \in Requirements, NEW u \in Users, NEW b \in BOOLEAN,
             NEW t \in Connectors \cup {None}, CreateLocal(r, q, u, b, t)
      PROVE  IInv'
  <2> DEFINE row == QueuedRow("local", q, u, b, t)
  <2>1. /\ RowOK(row)
        /\ row.req = q
    BY DEF RowOK, Row, RowCoherent, QueuedRow, Active, Terminal
  <2>2. IndexAdmits(r, q) /\ run' = [run EXCEPT ![r] = row]
    BY <1>2, <2>1 DEF CreateLocal, CreateWithBinding
  <2> HIDE DEF row
  <2>3. RunsOK'
    BY <2>1, <2>2, WriteRow DEF IInv
  <2>4. TypeOK'
    BY <1>2, <2>3 DEF IInv, RunsOK, TypeOK, StoreTypeOK, OrchestratorTypeOK,
         DispatchTypeOK, dispatchVars, CreateLocal, Goto
  <2>5. OnlyServerRunsGenerate'
    BY <1>2, <2>2 DEF IInv, RunsOK, TypeOK, OrchestratorTypeOK,
         OnlyServerRunsGenerate, CreateLocal, Goto
  <2>6. QED
    BY <2>3, <2>4, <2>5 DEF IInv
<1>3. QED
  BY <1>1, <1>2 DEF Create

\* A statement that leaves planning_runs alone keeps the table good.
LEMMA SameRuns ==
  ASSUME RunsOK, UNCHANGED run
  PROVE  RunsOK'
BY DEF RunsOK, LeaseCoherence, DispatchEligibility, OneActivePerRequirement

\* Marking a server run as running, which the unique index alone may refuse.
LEMMA MarkRunningKeeps ==
  ASSUME RunsOK, NEW r \in Runs, run[r].mode = "server", MarkRunning(r)
  PROVE  /\ RunsOK'
         /\ \A x \in Runs : run'[x].mode = run[x].mode
         /\ \A x \in Runs \ {r} : run'[x] = run[x]
<1> DEFINE row == [run[r] EXCEPT !.status = "running"]
<1>1. RowOK(run[r])
  BY GoodRow
<1>2. /\ RowOK(row)
      /\ row.req = run[r].req
      /\ row.mode = run[r].mode
  BY <1>1 DEF RowOK, Row, RowCoherent, Active
<1>3. run' = [run EXCEPT ![r] = row] /\ IndexAdmits(r, run[r].req)
  BY DEF MarkRunning
<1> HIDE DEF row
<1>4. RunsOK'
  BY <1>2, <1>3, WriteRow
<1>5. QED
  BY <1>2, <1>3, <1>4 DEF RunsOK

\* A step of the orchestrator.
LEMMA OrchestratorKeeps ==
  ASSUME IInv, NEW r \in Runs, OrchestratorStep(r), UNCHANGED dispatchVars
  PROVE  IInv'
<1> USE DEF At, Goto
<1>1. CASE Start(r)
  <2>1. run[r].mode = "server"
    BY <1>1 DEF Start, IInv, OnlyServerRunsGenerate
  <2>2. RunsOK' /\ \A x \in Runs : run'[x].mode = run[x].mode
    BY <1>1, <2>1, MarkRunningKeeps DEF Start, IInv
  <2>3. QED
    BY <1>1, <2>2 DEF Start, IInv, RunsOK, TypeOK, StoreTypeOK,
         OrchestratorTypeOK, DispatchTypeOK, dispatchVars, OnlyServerRunsGenerate
<1>2. ASSUME \/ StartRefused(r) \/ Generate(r) \/ OrchestratorFault(r)
             \/ OpenAudit(r) \/ StoreDrafts(r) \/ CloseAudit(r)
             \/ PairCleanup(r) \/ PairFailAudit(r)
      PROVE  IInv'
  <2>1. UNCHANGED run
    BY <1>2 DEF StartRefused, Generate, OrchestratorFault, OpenAudit,
         StoreDrafts, CloseAudit, PairCleanup, PairFailAudit, tables
  <2>2. RunsOK'
    BY <2>1, SameRuns DEF IInv
  <2>3. StoreTypeOK'
    BY <1>2, <2>2 DEF StartRefused, Generate, OrchestratorFault, OpenAudit,
         StoreDrafts, CloseAudit, PairCleanup, PairFailAudit, tables,
         CreateOrGetByIdempotency, CreateDraftsForPlanningRun, UpdateAgentRun,
         DeleteByPlanningRun, IInv, RunsOK, TypeOK, StoreTypeOK
  <2>4. OrchestratorTypeOK' /\ OnlyServerRunsGenerate'
    BY <1>2, <2>1 DEF StartRefused, Generate, OrchestratorFault, OpenAudit,
         StoreDrafts, CloseAudit, PairCleanup, PairFailAudit, AfterError,
         IInv, RunsOK, TypeOK, OrchestratorTypeOK, OnlyServerRunsGenerate, Row
  <2>5. QED
    BY <2>2, <2>3, <2>4 DEF IInv, TypeOK, DispatchTypeOK, dispatchVars
<1>3. ASSUME Finish(r) \/ Abort(r) \/ PairFail(r)
      PROVE  IInv'
  <2>1. RunsOK' /\ \A x \in Runs : run'[x].mode = run[x].mode
    <3>1. PICK st \in Terminal : run' = [run EXCEPT ![r] = Settled(@, st)]
      BY <1>3 DEF Finish, Abort, PairFail, Complete, Fail, Terminal
    <3>2. QED
      BY <3>1, SettleRun DEF IInv
  <2>2. StoreTypeOK' /\ DispatchTypeOK'
    BY <1>3, <2>1 DEF Finish, Abort, PairFail, IInv, RunsOK, TypeOK, StoreTypeOK,
         DispatchTypeOK, dispatchVars
  <2>3. OrchestratorTypeOK' /\ OnlyServerRunsGenerate'
    BY <1>3, <2>1 DEF Finish, Abort, PairFail, IInv, TypeOK, OrchestratorTypeOK,
         OnlyServerRunsGenerate
  <2>4. QED
    BY <2>1, <2>2, <2>3 DEF IInv, TypeOK
<1>4. QED
  BY <1>1, <1>2, <1>3 DEF OrchestratorStep

\* Cancelling, and the clock.
LEMMA CancelKeeps ==
  ASSUME IInv, NEW r \in Runs, Cancel(r), UNCHANGED dispatchVars
  PROVE  IInv'
<1>1. RunsOK' /\ \A x \in Runs : run'[x].mode = run[x].mode
  BY SettleRun DEF Cancel, CancelIfActive, IInv, Terminal
<1>2. QED
  BY <1>1 DEF Cancel, IInv, RunsOK, TypeOK, StoreTypeOK, OrchestratorTypeOK,
       DispatchTypeOK, dispatchVars, OnlyServerRunsGenerate

LEMMA LapsedRow ==
  ASSUME RunsOK, NEW r \in Runs, LeaseLapse(r)
  PROVE  /\ RunsOK'
         /\ \A x \in Runs : run'[x].mode = run[x].mode
         /\ \A x \in Runs : run[x].status \in Terminal => run'[x] = run[x]
<1> DEFINE row == [run[r] EXCEPT !.lease = "lapsed"]
<1>1. RowOK(run[r]) /\ run[r].lease = "live"
  BY GoodRow DEF LeaseLapse
<1>2. run[r].mode = "local" /\ run[r].status = "running"
  BY <1>1 DEF RowOK, Row, RowCoherent, Active, Terminal
<1>3. /\ RowOK(row)
      /\ row.req = run[r].req
      /\ row.mode = run[r].mode
  BY <1>1, <1>2 DEF RowOK, Row, RowCoherent, MayRun, Active, Terminal
<1>4. run' = [run EXCEPT ![r] = row]
  BY DEF LeaseLapse
<1>5. IndexAdmits(r, row.req)
  BY <1>2, <1>3 DEF RunsOK, OneActivePerRequirement, IndexAdmits, Active
<1> HIDE DEF row
<1>6. RunsOK'
  BY <1>3, <1>4, <1>5, WriteRow
<1>7. QED
  BY <1>2, <1>3, <1>4, <1>6 DEF RunsOK, Terminal

-----------------------------------------------------------------------------
(* The connectors                                                          *)

\* A claim request, a daemon or a revocation.
LEMMA ConnectorKeeps ==
  ASSUME IInv, NEW c \in Connectors, UNCHANGED orch,
         ClaimStep(c) \/ DaemonStep(c) \/ RevokeConnector(c)
  PROVE  IInv'
<1>1. CASE ClaimSweep(c)
  <2>1. RunsOK' /\ \A x \in Runs : run'[x].mode = run[x].mode
    BY <1>1, SweepKeeps DEF ClaimSweep, IInv
  <2>2. QED
    BY <1>1, <2>1 DEF ClaimSweep, IInv, RunsOK, TypeOK, StoreTypeOK,
         OrchestratorTypeOK, DispatchTypeOK, OnlyServerRunsGenerate
<1>2. ASSUME NEW r \in Runs, ClaimLease(c, r) \/ ClaimLeaseLost(c, r)
      PROVE  IInv'
  <2>1. RunsOK' /\ \A x \in Runs : run'[x].mode = run[x].mode
    BY <1>2, LeasedRow DEF ClaimLease, ClaimLeaseLost, IInv
  <2>2. QED
    BY <1>2, <2>1 DEF ClaimLease, ClaimLeaseLost, IInv, RunsOK, TypeOK,
         StoreTypeOK, OrchestratorTypeOK, DispatchTypeOK, OnlyServerRunsGenerate
<1>3. CASE ClaimNothing(c) \/ LoseResult(c) \/ RevokeConnector(c)
  <2>1. UNCHANGED run
    BY <1>3 DEF ClaimNothing, LoseResult, RevokeConnector, Revoke, tables
  <2>2. RunsOK'
    BY <2>1, SameRuns DEF IInv
  <2>3. QED
    BY <1>3, <2>1, <2>2 DEF ClaimNothing, LoseResult, RevokeConnector, Revoke,
         tables, dispatchVars, IInv, RunsOK, TypeOK, StoreTypeOK,
         OrchestratorTypeOK, DispatchTypeOK, OnlyServerRunsGenerate
<1>4. ASSUME NEW h \in Handlers, NEW result \in Outcomes, PostResult(c, h, result)
      PROVE  IInv'
  <2>1. UNCHANGED <<run, agent, drafts, revoked, poll>>
    BY <1>4 DEF PostResult, tables
  <2>2. RunsOK'
    BY <2>1, SameRuns DEF IInv
  <2>3. submit' \in [Handlers -> Request] /\ exec' \in [Connectors -> Runs \cup {None}]
    BY <1>4, DispatchAssumption DEF PostResult, Request, IInv, TypeOK, DispatchTypeOK
  <2>4. QED
    BY <2>1, <2>2, <2>3 DEF IInv, RunsOK, TypeOK, StoreTypeOK,
         OrchestratorTypeOK, DispatchTypeOK, OnlyServerRunsGenerate
<1>5. QED
  BY <1>1, <1>2, <1>3, <1>4 DEF ClaimStep, DaemonStep

\* Whatever run a request names, settling it keeps the table good; settling
\* NULL (no request in progress does) would write no row.
LEMMA SettleNamedRun ==
  ASSUME RunsOK, NEW r \in Runs \cup {None}, NEW s \in Terminal,
         run' = [run EXCEPT ![r] = Settled(@, s)]
  PROVE  /\ RunsOK'
         /\ \A x \in Runs : run'[x].mode = run[x].mode
         /\ \A x \in Runs \ {r} : run'[x] = run[x]
<1>1. CASE r \in Runs
  BY <1>1, SettleRun
<1>2. CASE r = None
  <2>1. None \notin Runs
    BY StoreAssumption
  <2>2. run' = run
    BY <1>2, <2>1 DEF RunsOK
  <2>3. QED
    BY <2>2, SameRuns
<1>3. QED
  BY <1>1, <1>2

\* A submit request writes planning_runs in two places only.
LEMMA SubmitWrites ==
  ASSUME NEW h \in Handlers, SubmitStep(h)
  PROVE  \/ UNCHANGED run
         \/ /\ HoldsLease(submit[h].c, submit[h].r)
            /\ \E st \in Terminal :
                 run' = [run EXCEPT ![submit[h].r] = Settled(@, st)]
BY DEF SubmitStep, SubmitCheck, SubmitRejected, SubmitFailAudit, SubmitFailRun,
     SubmitDrafts, SubmitCloseAudit, SubmitComplete, SubmitLeaseLost,
     SubmitUndoDrafts, SubmitUndoAudit, SubmitFault, tables,
     CompleteLocalConnectorRun, FailLocalConnectorRun, Terminal

LEMMA SubmitKeeps ==
  ASSUME IInv, NEW h \in Handlers, SubmitStep(h), UNCHANGED orch
  PROVE  IInv'
<1>1. /\ submit[h] \in Request
      /\ submit[h].r \in Runs \cup {None}
      /\ submit[h].c \in Connectors \cup {None}
  BY DEF IInv, TypeOK, DispatchTypeOK, Request
<1>2. RunsOK' /\ \A x \in Runs : run'[x].mode = run[x].mode
  BY <1>1, SubmitWrites, SettleNamedRun, SameRuns DEF IInv
<1>3. StoreTypeOK'
  BY <1>1, <1>2 DEF SubmitStep, SubmitCheck, SubmitRejected, SubmitFailAudit,
       SubmitFailRun, SubmitDrafts, SubmitCloseAudit, SubmitComplete,
       SubmitLeaseLost, SubmitUndoDrafts, SubmitUndoAudit, SubmitFault, tables,
       FinalizeAudit, UpdateAgentRun, CreateDraftsForPlanningRun,
       DeleteByPlanningRun, IInv, RunsOK, TypeOK, StoreTypeOK
<1>4. NoRequest \in Request
  BY DEF NoRequest, Request, Results
<1>5. DispatchTypeOK'
  <2>1. ASSUME NEW pc \in {"draft", "failAudit"}, NEW a \in BOOLEAN,
               submit' = [submit EXCEPT ![h] = [@ EXCEPT !.pc = pc, !.audited = a]]
        PROVE  submit' \in [Handlers -> Request]
    <3>1. [submit[h] EXCEPT !.pc = pc, !.audited = a] \in Request
      BY <1>1 DEF Request
    <3>2. QED
      BY <2>1, <3>1 DEF IInv, TypeOK, DispatchTypeOK
  <2>2. ASSUME NEW pc \in {"failRun", "closeAudit", "complete", "undoDrafts",
                           "undo", "undoAudit"}, To(h, pc)
        PROVE  submit' \in [Handlers -> Request]
    <3>1. [submit[h] EXCEPT !.pc = pc] \in Request
      BY <1>1 DEF Request
    <3>2. submit' = [submit EXCEPT ![h] = [submit[h] EXCEPT !.pc = pc]]
      BY <2>2 DEF To
    <3>3. QED
      BY <3>1, <3>2 DEF IInv, TypeOK, DispatchTypeOK
  <2>3. ASSUME Reply(h)
        PROVE  submit' \in [Handlers -> Request]
    BY <1>4, <2>3 DEF Reply, IInv, TypeOK, DispatchTypeOK
  <2>4. UNCHANGED <<exec, poll>>
    BY DEF SubmitStep, SubmitCheck, SubmitRejected, SubmitFailAudit,
       SubmitFailRun, SubmitDrafts, SubmitCloseAudit, SubmitComplete,
       SubmitLeaseLost, SubmitUndoDrafts, SubmitUndoAudit, SubmitFault
  <2>5. submit' \in [Handlers -> Request]
    BY <2>1, <2>2, <2>3 DEF SubmitStep, SubmitCheck, SubmitRejected,
       SubmitFailAudit, SubmitFailRun, SubmitDrafts, SubmitCloseAudit,
       SubmitComplete, SubmitLeaseLost, SubmitUndoDrafts, SubmitUndoAudit,
       SubmitFault
  <2>6. QED
    BY <2>4, <2>5 DEF IInv, TypeOK, DispatchTypeOK
<1>6. QED
  BY <1>2, <1>3, <1>5 DEF IInv, RunsOK, TypeOK, OrchestratorTypeOK,
     OnlyServerRunsGenerate

-----------------------------------------------------------------------------
(* The theorems                                                            *)

LEMMA InitEstablishes == Init => IInv
BY StoreAssumption
   DEF Init, StoreInit, OrchestratorInit, DispatchInit, NoRow, NoRequest, IInv,
       RunsOK, TypeOK, StoreTypeOK, OrchestratorTypeOK, DispatchTypeOK, Row,
       RowCoherent, Request, Results, LeaseCoherence, DispatchEligibility,
       OneActivePerRequirement, OnlyServerRunsGenerate, Active, Terminal

LEMMA StepPreserves == IInv /\ [Next]_vars => IInv'
<1> SUFFICES ASSUME IInv, [Next]_vars
             PROVE  IInv'
  OBVIOUS
<1>1. ASSUME NEW r \in Runs, Create(r) \/ OrchestratorStep(r), UNCHANGED dispatchVars
      PROVE  IInv'
  BY <1>1, CreateKeeps, OrchestratorKeeps
<1>2. ASSUME NEW r \in Runs, Cancel(r), UNCHANGED dispatchVars
      PROVE  IInv'
  BY <1>2, CancelKeeps
<1>3. ASSUME NEW r \in Runs, LeaseLapse(r), UNCHANGED <<orch, dispatchVars>>
      PROVE  IInv'
  BY <1>3, LapsedRow DEF LeaseLapse, IInv, RunsOK, TypeOK, StoreTypeOK,
     OrchestratorTypeOK, DispatchTypeOK, dispatchVars, OnlyServerRunsGenerate
<1>4. ASSUME NEW c \in Connectors, UNCHANGED orch,
             ClaimStep(c) \/ DaemonStep(c) \/ RevokeConnector(c)
      PROVE  IInv'
  BY <1>4, ConnectorKeeps
<1>5. ASSUME NEW h \in Handlers, SubmitStep(h), UNCHANGED orch
      PROVE  IInv'
  BY <1>5, SubmitKeeps
<1>6. CASE ServerCrash
  <2>1. RunsOK'
    BY <1>6, SameRuns DEF ServerCrash, tables, IInv
  <2>2. NoRequest \in Request
    BY DEF NoRequest, Request, Results
  <2>3. QED
    BY <1>6, <2>1, <2>2 DEF ServerCrash, tables, IInv, RunsOK, TypeOK, StoreTypeOK,
       OrchestratorTypeOK, DispatchTypeOK, OnlyServerRunsGenerate
<1>7. CASE UNCHANGED vars
  <2>1. RunsOK'
    BY <1>7, SameRuns DEF vars, tables, IInv
  <2>2. QED
    BY <1>7, <2>1 DEF vars, tables, dispatchVars, IInv, RunsOK, TypeOK, StoreTypeOK,
       OrchestratorTypeOK, DispatchTypeOK, OnlyServerRunsGenerate
<1>8. QED
  BY <1>1, <1>2, <1>3, <1>4, <1>5, <1>6, <1>7 DEF Next

LEMMA Invariant == Safety => []IInv
BY InitEstablishes, StepPreserves, PTL DEF Safety

\* Every table column, request and daemon register keeps its type.
THEOREM TypeCorrect == Safety => []TypeOK
<1>1. IInv => TypeOK
  BY DEF IInv
<1>2. QED
  BY <1>1, Invariant, PTL

\* The dispatch columns of planning_runs always agree with the status, so the
\* claim, submit, sweep and cancel statements may each test a part of them.
THEOREM LeasesCoherent == Safety => []LeaseCoherence
<1>1. IInv => LeaseCoherence
  BY DEF IInv, RunsOK
<1>2. QED
  BY <1>1, Invariant, PTL

\* No daemon ever holds a run of another account, one pinned to another
\* connector, or one it is too old to understand.
THEOREM OnlyEligibleDaemons == Safety => []DispatchEligibility
<1>1. IInv => DispatchEligibility
  BY DEF IInv, RunsOK
<1>2. QED
  BY <1>1, Invariant, PTL

\* A requirement never has two active planning runs, in either mode.
THEOREM OneActive == Safety => []OneActivePerRequirement
<1>1. IInv => OneActivePerRequirement
  BY DEF IInv, RunsOK
<1>2. QED
  BY <1>1, Invariant, PTL

-----------------------------------------------------------------------------
(* Settled local runs are final                                            *)

LEMMA StepKeepsSettled == IInv /\ [Next]_vars => SettledRunsStay
<1> SUFFICES ASSUME IInv, [Next]_vars, NEW r \in Runs,
                    run[r].mode = "local", run[r].status \in Terminal,
                    orch[r] # "abort"
             PROVE  run'[r] = run[r]
  BY DEF SettledRunsStay
<1> USE DEF IInv
<1>1. run[r].status \notin Active \cup {"absent"}
  BY DEF Active, Terminal
<1>2. ASSUME NEW x \in Runs, Create(x) \/ OrchestratorStep(x)
      PROVE  run'[r] = run[r]
  <2>1. ASSUME NEW row, run' = [run EXCEPT ![x] = row], x # r
        PROVE  run'[r] = run[r]
    BY <2>1 DEF RunsOK
  <2>2. CASE Create(x)
    BY <1>1, <2>1, <2>2 DEF Create, CreateServer, CreateLocal, CreateWithBinding, Fresh
  <2>3. CASE OrchestratorStep(x)
    BY <2>1, <2>3 DEF OnlyServerRunsGenerate, OrchestratorStep, At, tables, Start,
       StartRefused, OpenAudit, Generate, StoreDrafts, CloseAudit, Finish, Abort,
       PairCleanup, PairFail, PairFailAudit, OrchestratorFault, MarkRunning,
       Complete, Fail
  <2>4. QED
    BY <1>2, <2>2, <2>3
<1>3. ASSUME NEW x \in Runs, Cancel(x)
      PROVE  run'[r] = run[r]
  BY <1>1, <1>3 DEF Cancel, CancelIfActive, RunsOK
<1>4. ASSUME NEW x \in Runs, LeaseLapse(x)
      PROVE  run'[r] = run[r]
  BY <1>4, LapsedRow
<1>5. ASSUME NEW c \in Connectors, ClaimStep(c) \/ DaemonStep(c) \/ RevokeConnector(c)
      PROVE  run'[r] = run[r]
  BY <1>5, SweepKeeps, LeasedRow DEF ClaimStep, ClaimSweep, ClaimNothing,
     ClaimLease, ClaimLeaseLost, DaemonStep, LoseResult, PostResult,
     RevokeConnector, Revoke, tables
<1>6. ASSUME NEW h \in Handlers, SubmitStep(h)
      PROVE  run'[r] = run[r]
  <2>1. submit[h].r \in Runs \cup {None}
    BY DEF TypeOK, DispatchTypeOK, Request
  <2>2. CASE UNCHANGED run
    BY <2>2
  <2>3. ASSUME HoldsLease(submit[h].c, submit[h].r), NEW st \in Terminal,
               run' = [run EXCEPT ![submit[h].r] = Settled(@, st)]
        PROVE  run'[r] = run[r]
    <3>1. submit[h].r # r
      BY <1>1, <2>3 DEF HoldsLease, Active
    <3>2. QED
      BY <2>1, <2>3, <3>1, SettleNamedRun
  <2>4. QED
    BY <1>6, <2>2, <2>3, SubmitWrites
<1>7. CASE ServerCrash \/ UNCHANGED vars
  BY <1>7 DEF ServerCrash, vars, tables
<1>8. QED
  BY <1>2, <1>3, <1>4, <1>5, <1>6, <1>7 DEF Next

\* A completed, failed or cancelled local run is never written again, except
\* by the orchestrator that could not write its audit row.
THEOREM SettledFinal == Safety => SettledIsFinal
<1>1. IInv /\ [Next]_vars => [SettledRunsStay]_vars
  BY StepKeepsSettled
<1>2. Safety => [][SettledRunsStay]_vars
  BY <1>1, Invariant, PTL DEF Safety
<1>3. QED
  BY <1>2, PTL DEF SettledIsFinal

-----------------------------------------------------------------------------
(* Drafts and audit rows, when no database call fails and the server lives *)

NoFaults == ~ DbFaults /\ ~ Crashes

\* What the orchestrator and the submit requests in progress know of their runs.
RequestsKnowTheirRuns ==
  /\ \A r \in Runs :
       /\ run[r].status = "absent" => orch[r] = "none"
       /\ run[r].mode = "local" => orch[r] \in {"audit", "done"}
       /\ run[r].mode = "server" /\ run[r].status = "completed" => orch[r] = "done"
  /\ \A h \in Handlers :
       submit[h].pc # "idle" =>
         /\ submit[h].r \in Runs
         /\ submit[h].pc # "check" => run[submit[h].r].mode = "local"

\* Somebody is about to complete run r or to remove its drafts ...
DraftsInHand(r) ==
  \/ orch[r] \in {"closeAudit", "complete"}
  \/ \E h \in Handlers :
       /\ submit[h].r = r
       /\ submit[h].pc \in {"closeAudit", "complete", "undo", "undoDrafts"}

\* ... or to complete it or to fail its audit row.
AuditInHand(r) ==
  \/ orch[r] = "complete"
  \/ \E h \in Handlers :
       /\ submit[h].r = r
       /\ submit[h].audited
       /\ submit[h].pc \in {"complete", "undo", "undoAudit"}

DraftsAccounted ==
  \A r \in Runs : drafts[r] # {} => run[r].status = "completed" \/ DraftsInHand(r)

AuditAccounted ==
  \A r \in Runs : agent[r] = "completed" => run[r].status = "completed" \/ AuditInHand(r)

\* The inductive invariant of the runs without faults.
CalmInv == IInv /\ RequestsKnowTheirRuns /\ DraftsAccounted /\ AuditAccounted

\* Who moves what.
LEMMA WhoMoves ==
  ASSUME NoFaults, IInv, [Next]_vars
  PROVE  /\ \A r \in Runs : 
              \/ orch'[r] = orch[r]
              \/ (Create(r) \/ OrchestratorStep(r)) /\ UNCHANGED dispatchVars
         /\ \A h \in Handlers :
              \/ submit'[h] = submit[h]
              \/ submit[h].pc = "idle" /\ submit'[h].pc = "check" /\ submit'[h].r \in Runs
              \/ SubmitStep(h) /\ UNCHANGED orch
         /\ \/ UNCHANGED <<agent, drafts>>
            \/ \E r \in Runs : OrchestratorStep(r) /\ UNCHANGED dispatchVars
            \/ \E h \in Handlers : SubmitStep(h) /\ UNCHANGED orch
<1> USE DEF IInv, TypeOK, OrchestratorTypeOK, DispatchTypeOK
<1>1. ASSUME NEW r \in Runs, Create(r), UNCHANGED dispatchVars
      PROVE  /\ UNCHANGED <<agent, drafts, submit>>
             /\ \A x \in Runs : x # r => orch'[x] = orch[x]
  BY <1>1 DEF Create, CreateLocal, CreateServer, Goto, dispatchVars
<1>2. ASSUME NEW r \in Runs, OrchestratorStep(r), UNCHANGED dispatchVars
      PROVE  UNCHANGED submit /\ \A x \in Runs : x # r => orch'[x] = orch[x]
  BY <1>2 DEF OrchestratorStep, Start, StartRefused, OpenAudit, Generate, StoreDrafts,
     CloseAudit, Finish, Abort, PairCleanup, PairFail, PairFailAudit,
     OrchestratorFault, Goto, dispatchVars
<1>3. ASSUME NEW r \in Runs,
             \/ Cancel(r) /\ UNCHANGED dispatchVars
             \/ LeaseLapse(r) /\ UNCHANGED <<orch, dispatchVars>>
      PROVE  UNCHANGED <<agent, drafts, submit, orch>>
  BY <1>3 DEF Cancel, LeaseLapse, dispatchVars
<1>4. ASSUME NEW c \in Connectors, ClaimStep(c) \/ RevokeConnector(c) \/ LoseResult(c)
      PROVE  UNCHANGED <<agent, drafts, submit>>
  BY <1>4 DEF ClaimStep, ClaimSweep, ClaimNothing, ClaimLease, ClaimLeaseLost,
     RevokeConnector, Revoke, LoseResult, dispatchVars, tables
<1>5. ASSUME NEW c \in Connectors, NEW h \in Handlers, NEW result \in Outcomes,
             PostResult(c, h, result)
      PROVE  /\ UNCHANGED <<agent, drafts>>
             /\ submit[h].pc = "idle" /\ submit'[h].pc = "check" /\ submit'[h].r \in Runs
             /\ \A k \in Handlers : k # h => submit'[k] = submit[k]
  BY <1>5 DEF PostResult, tables
<1>6. ASSUME NEW h \in Handlers, SubmitStep(h)
      PROVE  \A k \in Handlers : k # h => submit'[k] = submit[k]
  BY <1>6 DEF SubmitStep, SubmitCheck, SubmitRejected, SubmitFailAudit,
     SubmitFailRun, SubmitDrafts, SubmitCloseAudit, SubmitComplete, SubmitLeaseLost,
     SubmitUndoDrafts, SubmitUndoAudit, SubmitFault, To, Reply
<1>7. CASE UNCHANGED vars
  BY <1>7 DEF vars, tables, dispatchVars
<1>8. CASE \E r \in Runs : Create(r) /\ UNCHANGED dispatchVars
  BY <1>1, <1>8
<1>9. CASE \E r \in Runs : OrchestratorStep(r) /\ UNCHANGED dispatchVars
  BY <1>2, <1>9
<1>10. CASE \E c \in Connectors :
              (ClaimStep(c) \/ DaemonStep(c) \/ RevokeConnector(c)) /\ UNCHANGED orch
  BY <1>4, <1>5, <1>10 DEF DaemonStep
<1>11. CASE \E h \in Handlers : SubmitStep(h) /\ UNCHANGED orch
  BY <1>6, <1>11
<1>12. QED
  BY <1>3, <1>7, <1>8, <1>9, <1>10, <1>11 DEF Next, ServerCrash, NoFaults

\* A row that exists keeps its mode and goes on existing.
LEMMA RowsStay ==
  ASSUME IInv, [Next]_vars, NEW x \in Runs, run[x].status # "absent"
  PROVE  run'[x].mode = run[x].mode /\ run'[x].status # "absent"
<1> USE DEF IInv, RunsOK
<1>0. run[x] \in Row /\ run \in [Runs -> Row]
  OBVIOUS
<1>1. ASSUME NEW r \in Runs, NEW s \in Terminal, run' = [run EXCEPT ![r] = Settled(@, s)]
      PROVE  run'[x].mode = run[x].mode /\ run'[x].status # "absent"
  BY <1>0, <1>1 DEF Settled, Row, Terminal
<1>2. ASSUME NEW r \in Runs, Create(r)
      PROVE  run'[x].mode = run[x].mode /\ run'[x].status # "absent"
  BY <1>0, <1>2 DEF Create, CreateLocal, CreateServer, CreateWithBinding, Fresh
<1>3. ASSUME NEW r \in Runs, OrchestratorStep(r)
      PROVE  run'[x].mode = run[x].mode /\ run'[x].status # "absent"
  <2>1. CASE Start(r)
    BY <1>0, <2>1 DEF Start, MarkRunning, Row
  <2>2. CASE Finish(r) \/ Abort(r) \/ PairFail(r)
    BY <1>1, <2>2 DEF Finish, Abort, PairFail, Complete, Fail, Terminal
  <2>3. CASE ~ (Start(r) \/ Finish(r) \/ Abort(r) \/ PairFail(r))
    BY <1>3, <2>3 DEF OrchestratorStep, StartRefused, OpenAudit, Generate, StoreDrafts,
       CloseAudit, PairCleanup, PairFailAudit, OrchestratorFault, tables
  <2>4. QED
    BY <2>1, <2>2, <2>3
<1>4. ASSUME NEW r \in Runs, Cancel(r) \/ LeaseLapse(r)
      PROVE  run'[x].mode = run[x].mode /\ run'[x].status # "absent"
  BY <1>0, <1>1, <1>4 DEF Cancel, CancelIfActive, LeaseLapse, Terminal, Row
<1>5. CASE SweepExpiredLeases
  BY <1>0, <1>5 DEF SweepExpiredLeases, Row
<1>6. ASSUME NEW r \in Runs, NEW c \in Connectors, LeaseNext(r, c)
      PROVE  run'[x].mode = run[x].mode /\ run'[x].status # "absent"
  BY <1>0, <1>6 DEF LeaseNext, Row
<1>7. ASSUME NEW c \in Connectors, ClaimStep(c) \/ DaemonStep(c) \/ RevokeConnector(c)
      PROVE  run'[x].mode = run[x].mode /\ run'[x].status # "absent"
  BY <1>5, <1>6, <1>7 DEF ClaimStep, ClaimSweep, ClaimNothing, ClaimLease,
     ClaimLeaseLost, DaemonStep, LoseResult, PostResult, RevokeConnector, Revoke, tables
<1>8. ASSUME NEW h \in Handlers, SubmitStep(h)
      PROVE  run'[x].mode = run[x].mode /\ run'[x].status # "absent"
  <2>1. submit[h].r \in Runs \cup {None}
    BY DEF TypeOK, DispatchTypeOK, Request
  <2>2. submit[h].r \notin Runs => UNCHANGED run
    BY <1>8, SubmitWrites, <2>1
  <2>3. QED
    BY <1>1, <1>8, <2>1, <2>2, SubmitWrites
<1>9. CASE ServerCrash \/ UNCHANGED vars
  BY <1>9 DEF ServerCrash, vars, tables
<1>10. QED
  BY <1>2, <1>3, <1>4, <1>7, <1>8, <1>9 DEF Next

\* Without faults, a completed run stays completed, in either mode.
LEMMA CompletedStays ==
  ASSUME NoFaults, IInv, RequestsKnowTheirRuns, [Next]_vars,
         NEW x \in Runs, run[x].status = "completed"
  PROVE  run'[x].status = "completed"
<1>0. run[x] \in Row /\ run \in [Runs -> Row]
  BY DEF IInv, RunsOK
<1>1. CASE run[x].mode = "local"
  <2>1. orch[x] # "abort"
    BY <1>1 DEF RequestsKnowTheirRuns
  <2>2. QED
    BY <1>1, <2>1, StepKeepsSettled DEF SettledRunsStay, Terminal
<1>2. CASE run[x].mode = "server"
  <2>1. orch[x] = "done"
    BY <1>2 DEF RequestsKnowTheirRuns
  <2>2. ASSUME NEW r \in Runs, Create(r) \/ OrchestratorStep(r)
        PROVE  run'[x] = run[x]
    <3>1. r # x
      BY <2>1, <2>2 DEF Create, CreateLocal, CreateServer, CreateWithBinding,
         Fresh, OrchestratorStep, At, Start, StartRefused, OpenAudit, Generate,
         StoreDrafts, CloseAudit, Finish, Abort, PairCleanup, PairFail, PairFailAudit,
         OrchestratorFault, NoFaults
    <3>2. QED
      BY <1>0, <2>2, <3>1 DEF Create, CreateLocal, CreateServer, CreateWithBinding,
         OrchestratorStep, Start, StartRefused, OpenAudit, Generate,
         StoreDrafts, CloseAudit, Finish, Abort, PairCleanup, PairFail, PairFailAudit,
         OrchestratorFault, MarkRunning, Complete, Fail, tables
  <2>3. ASSUME NEW r \in Runs, Cancel(r) \/ LeaseLapse(r)
        PROVE  run'[x].status = "completed"
    BY <1>0, <2>3 DEF Cancel, CancelIfActive, LeaseLapse, Active, Row
  <2>4. ASSUME NEW c \in Connectors, ClaimStep(c) \/ DaemonStep(c) \/ RevokeConnector(c)
        PROVE  run'[x] = run[x]
    BY <2>4, SweepKeeps, LeasedRow DEF IInv, Terminal, ClaimStep, ClaimSweep, ClaimNothing,
       ClaimLease, ClaimLeaseLost, DaemonStep, LoseResult, PostResult,
       RevokeConnector, Revoke, tables
  <2>5. ASSUME NEW h \in Handlers, SubmitStep(h)
        PROVE  run'[x] = run[x]
    BY <1>0, <1>2, <2>5, SubmitWrites DEF HoldsLease
  <2>6. CASE ServerCrash \/ UNCHANGED vars
    BY <2>6 DEF ServerCrash, vars, tables
  <2>7. QED
    BY <2>2, <2>3, <2>4, <2>5, <2>6 DEF Next
<1>3. QED
  BY <1>0, <1>1, <1>2 DEF Row

\* A server run becomes completed by the last step of its orchestrator only.
LEMMA ServerCompletes ==
  ASSUME NoFaults, IInv, RequestsKnowTheirRuns, [Next]_vars, NEW x \in Runs,
         run'[x].mode = "server", run'[x].status = "completed"
  PROVE  run[x].status = "completed" \/ orch'[x] = "done"
<1> SUFFICES ASSUME run[x].status # "completed", orch'[x] # "done"
             PROVE  FALSE
  OBVIOUS
<1>0. run[x] \in Row /\ run \in [Runs -> Row]
  BY DEF IInv, RunsOK
<1>a. DOMAIN orch = Runs
  BY DEF IInv, TypeOK, OrchestratorTypeOK
<1>b. ASSUME NEW r \in Runs, NEW s \in Terminal, run' = [run EXCEPT ![r] = Settled(@, s)]
      PROVE  r = x /\ s = "completed" /\ run[x].mode = "server"
  BY <1>0, <1>b DEF Settled, Row, Terminal
<1>1. ASSUME NEW r \in Runs, Create(r)
      PROVE  FALSE
  <2>1. ASSUME NEW q \in Requirements, CreateServer(r, q)
        PROVE  FALSE
    BY <1>0, <2>1 DEF CreateServer, CreateWithBinding, QueuedRow
  <2>2. ASSUME NEW q, NEW u, NEW b, NEW t, CreateLocal(r, q, u, b, t)
        PROVE  FALSE
    BY <1>0, <2>2 DEF CreateLocal, CreateWithBinding, QueuedRow
  <2>3. QED
    BY <1>1, <2>1, <2>2 DEF Create
<1>2. ASSUME NEW r \in Runs, OrchestratorStep(r)
      PROVE  FALSE
  <2>1. CASE Start(r)
    BY <1>0, <2>1 DEF Start, MarkRunning, Row
  <2>2. CASE Finish(r)
    BY <1>a, <1>b, <2>2 DEF Finish, Complete, Terminal, Goto
  <2>3. CASE Abort(r) \/ PairFail(r)
    BY <1>b, <2>3 DEF Abort, PairFail, Fail, Terminal
  <2>4. CASE ~ (Start(r) \/ Finish(r) \/ Abort(r) \/ PairFail(r))
    BY <1>2, <2>4 DEF OrchestratorStep, StartRefused, OpenAudit, Generate, StoreDrafts,
       CloseAudit, PairCleanup, PairFailAudit, OrchestratorFault, tables
  <2>5. QED
    BY <2>1, <2>2, <2>3, <2>4
<1>3. ASSUME NEW r \in Runs, Cancel(r) \/ LeaseLapse(r)
      PROVE  FALSE
  <2>1. CASE Cancel(r)
    BY <1>b, <2>1 DEF Cancel, CancelIfActive, Terminal
  <2>2. CASE LeaseLapse(r)
    BY <1>0, <2>2 DEF LeaseLapse, Row
  <2>3. QED
    BY <1>3, <2>1, <2>2
<1>4. CASE SweepExpiredLeases
  BY <1>0, <1>4 DEF SweepExpiredLeases, Row
<1>5. ASSUME NEW r \in Runs, NEW c \in Connectors, LeaseNext(r, c)
      PROVE  FALSE
  BY <1>0, <1>5 DEF LeaseNext, Row
<1>6. ASSUME NEW c \in Connectors, ClaimStep(c) \/ DaemonStep(c) \/ RevokeConnector(c)
      PROVE  FALSE
  BY <1>4, <1>5, <1>6 DEF ClaimStep, ClaimSweep, ClaimNothing, ClaimLease,
     ClaimLeaseLost, DaemonStep, LoseResult, PostResult, RevokeConnector, Revoke, tables
<1>7. ASSUME NEW h \in Handlers, SubmitStep(h)
      PROVE  FALSE
  <2>1. submit[h].r \in Runs \cup {None}
    BY DEF IInv, TypeOK, DispatchTypeOK, Request
  <2>2. submit[h].r \notin Runs => UNCHANGED run
    BY <1>7, SubmitWrites, <2>1, <1>0
  <2>3. QED
    BY <1>b, <1>7, <2>1, <2>2, SubmitWrites DEF HoldsLease
<1>8. CASE ServerCrash \/ UNCHANGED vars
  BY <1>8 DEF ServerCrash, vars, tables
<1>9. QED
  BY <1>1, <1>2, <1>3, <1>6, <1>7, <1>8 DEF Next

\* A submit request that goes on is still about its run.
LEMMA RequestStays ==
  ASSUME IInv, NEW h \in Handlers, SubmitStep(h), submit'[h].pc # "idle"
  PROVE  /\ submit'[h].r = submit[h].r
         /\ submit'[h].audited = submit[h].audited \/ SubmitCheck(h)
         /\ SubmitCheck(h) \/ submit[h].pc # "check"
<1>1. submit \in [Handlers -> Request] /\ submit[h] \in Request
  BY DEF IInv, TypeOK, DispatchTypeOK
<1>2. ~ Reply(h)
  BY <1>1 DEF Reply, NoRequest
<1>3. ASSUME NEW pc, To(h, pc)
      PROVE  submit'[h].r = submit[h].r /\ submit'[h].audited = submit[h].audited
  BY <1>1, <1>3 DEF To, Request
<1>4. CASE SubmitCheck(h)
  BY <1>1, <1>4 DEF SubmitCheck, Request
<1>5. CASE ~ SubmitCheck(h)
  BY <1>2, <1>3, <1>5 DEF SubmitStep, SubmitRejected, SubmitFailAudit, SubmitFailRun,
     SubmitDrafts, SubmitCloseAudit, SubmitComplete, SubmitLeaseLost, SubmitUndoDrafts,
     SubmitUndoAudit, SubmitFault, InCall
<1>6. QED
  BY <1>4, <1>5

\* The requests go on knowing their runs.
LEMMA RequestsGoOn ==
  ASSUME NoFaults, IInv, RequestsKnowTheirRuns, [Next]_vars
  PROVE  RequestsKnowTheirRuns'
<1> USE DEF IInv, TypeOK, OrchestratorTypeOK, DispatchTypeOK
<1>1. ASSUME NEW r \in Runs
      PROVE  /\ run'[r].status = "absent" => orch'[r] = "none"
             /\ run'[r].mode = "local" => orch'[r] \in {"audit", "done"}
  <2>1. CASE Create(r)
    <3>1. ASSUME NEW q \in Requirements, CreateServer(r, q)
          PROVE  run'[r].status = "queued" /\ run'[r].mode = "server"
      BY <3>1 DEF CreateServer, CreateWithBinding, QueuedRow, RunsOK
    <3>2. ASSUME NEW q, NEW u, NEW b, NEW t, CreateLocal(r, q, u, b, t)
          PROVE  run'[r].status = "queued" /\ orch'[r] = "audit"
      BY <3>2 DEF CreateLocal, CreateWithBinding, QueuedRow, RunsOK, Goto
    <3>3. QED
      BY <2>1, <3>1, <3>2 DEF Create
  <2>2. CASE OrchestratorStep(r)
    <3>1. orch[r] # "none" /\ orch[r] # "done"
      BY <2>2 DEF OrchestratorStep, At, Start, StartRefused, OpenAudit, Generate,
         StoreDrafts, CloseAudit, Finish, Abort, PairCleanup, PairFail, PairFailAudit,
         OrchestratorFault
    <3>2. run'[r].mode = run[r].mode /\ run'[r].status # "absent"
      BY <3>1, RowsStay DEF RequestsKnowTheirRuns
    <3>3. run[r].mode = "local" => orch'[r] = "done"
      BY <2>2, <3>1 DEF OrchestratorStep, At, Goto, Start, StartRefused, OpenAudit,
         Generate, StoreDrafts, CloseAudit, Finish, Abort, PairCleanup, PairFail,
         PairFailAudit, OrchestratorFault, NoFaults, RequestsKnowTheirRuns
    <3>4. QED
      BY <3>2, <3>3
  <2>3. CASE orch'[r] = orch[r] /\ ~ Create(r)
    <3>1. CASE run[r].status = "absent"
      <4>1. run[r].mode = "server" /\ orch[r] = "none"
        BY <3>1 DEF RunsOK, LeaseCoherence, RowCoherent, RequestsKnowTheirRuns, Row
      <4>2. UNCHANGED run[r]
        <5>1. ASSUME NEW x \in Runs, Create(x) \/ OrchestratorStep(x) \/ Cancel(x) \/ LeaseLapse(x)
              PROVE  x # r
          BY <2>3, <3>1, <4>1, <5>1 DEF OrchestratorStep, At, Start, StartRefused, OpenAudit,
             Generate, StoreDrafts, CloseAudit, Finish, Abort, PairCleanup, PairFail,
             PairFailAudit, OrchestratorFault, Cancel, CancelIfActive, Active, LeaseLapse,
             RunsOK, LeaseCoherence, RowCoherent
        <5>2. ASSUME NEW x \in Runs, x # r, Create(x) \/ OrchestratorStep(x) \/ Cancel(x) \/ LeaseLapse(x)
              PROVE  UNCHANGED run[r]
          BY <5>2 DEF RunsOK, Create, CreateLocal, CreateServer, CreateWithBinding,
             OrchestratorStep, Start, StartRefused, OpenAudit, Generate, StoreDrafts,
             CloseAudit, Finish, Abort, PairCleanup, PairFail, PairFailAudit,
             OrchestratorFault, MarkRunning, Complete, Fail, tables, Cancel,
             CancelIfActive, LeaseLapse
        <5>3. CASE SweepExpiredLeases
          BY <3>1, <5>3 DEF SweepExpiredLeases, LeaseExpired
        <5>4. ASSUME NEW x \in Runs, NEW c \in Connectors, LeaseNext(x, c)
              PROVE  UNCHANGED run[r]
          BY <3>1, <5>4 DEF LeaseNext, Claimable, RunsOK
        <5>5. ASSUME NEW c \in Connectors, ClaimStep(c) \/ DaemonStep(c) \/ RevokeConnector(c)
              PROVE  UNCHANGED run[r]
          BY <5>3, <5>4, <5>5 DEF ClaimStep, ClaimSweep, ClaimNothing, ClaimLease,
             ClaimLeaseLost, DaemonStep, LoseResult, PostResult, RevokeConnector, Revoke, tables
        <5>6. ASSUME NEW h \in Handlers, SubmitStep(h)
              PROVE  UNCHANGED run[r]
          BY <3>1, <5>6, SubmitWrites DEF HoldsLease, RunsOK
        <5>7. CASE ServerCrash \/ UNCHANGED vars
          BY <5>7 DEF ServerCrash, vars, tables
        <5>8. QED
          BY <5>1, <5>2, <5>5, <5>6, <5>7 DEF Next
      <4>3. QED
        BY <2>3, <4>1, <4>2
    <3>2. CASE run[r].status # "absent"
      BY <2>3, <3>2, RowsStay DEF RequestsKnowTheirRuns
    <3>3. QED
      BY <3>1, <3>2
  <2>4. QED
    BY <2>1, <2>2, <2>3, WhoMoves
<1>2. ASSUME NEW r \in Runs, run'[r].mode = "server", run'[r].status = "completed"
      PROVE  orch'[r] = "done"
  <2>1. CASE run[r].status = "completed"
    <3>1. orch[r] = "done"
      BY <1>2, <2>1, RowsStay DEF RequestsKnowTheirRuns
    <3>2. ~ Create(r) /\ ~ OrchestratorStep(r)
      BY <2>1, <3>1 DEF Create, CreateLocal, CreateServer, CreateWithBinding, Fresh,
         OrchestratorStep, At, Start, StartRefused, OpenAudit, Generate, StoreDrafts,
         CloseAudit, Finish, Abort, PairCleanup, PairFail, PairFailAudit, OrchestratorFault
    <3>3. QED
      BY <3>1, <3>2, WhoMoves
  <2>2. QED
    BY <1>2, <2>1, ServerCompletes
<1>3. ASSUME NEW h \in Handlers, submit'[h].pc # "idle"
      PROVE  /\ submit'[h].r \in Runs
             /\ submit'[h].pc # "check" => run'[submit'[h].r].mode = "local"
  <2>1. CASE submit[h].pc = "idle"
    <3>1. ~ SubmitStep(h)
      BY <2>1 DEF SubmitStep, SubmitCheck, SubmitRejected, SubmitFailAudit,
         SubmitFailRun, SubmitDrafts, SubmitCloseAudit, SubmitComplete, SubmitLeaseLost,
         SubmitUndoDrafts, SubmitUndoAudit, SubmitFault, InCall
    <3>2. QED
      BY <1>3, <2>1, <3>1, WhoMoves
  <2>2. CASE submit[h].pc # "idle"
    <3>1. submit[h].r \in Runs
      BY <2>2 DEF RequestsKnowTheirRuns
    <3>2. CASE SubmitStep(h)
      <4>1. submit'[h].r = submit[h].r /\ (SubmitCheck(h) \/ submit[h].pc # "check")
        BY <1>3, <2>2, <3>2, RequestStays
      <4>2. run[submit[h].r].mode = "local"
        BY <2>2, <4>1 DEF RequestsKnowTheirRuns, SubmitCheck, Accepted, HoldsLease
      <4>3. run[submit[h].r].status # "absent"
        BY <3>1, <4>2 DEF RunsOK, LeaseCoherence, RowCoherent
      <4>4. QED
        BY <3>1, <4>1, <4>2, <4>3, RowsStay
    <3>3. CASE submit'[h] = submit[h]
      <4>1. submit[h].pc # "check" => run[submit[h].r].mode = "local"
        BY <2>2 DEF RequestsKnowTheirRuns
      <4>2. run[submit[h].r].mode = "local" => run[submit[h].r].status # "absent"
        BY <3>1 DEF RunsOK, LeaseCoherence, RowCoherent
      <4>3. QED
        BY <3>1, <3>3, <4>1, <4>2, RowsStay
    <3>4. QED
      BY <2>2, <3>2, <3>3, WhoMoves
  <2>3. QED
    BY <2>1, <2>2
<1>4. QED
  BY <1>1, <1>2, <1>3 DEF RequestsKnowTheirRuns

\* Drafts of a run that is not completed stay in somebody's hand.
LEMMA DraftsStayAccounted ==
  ASSUME NoFaults, CalmInv, [Next]_vars
  PROVE  DraftsAccounted'
<1> SUFFICES ASSUME NEW r \in Runs, drafts'[r] # {}, run'[r].status # "completed"
             PROVE  DraftsInHand(r)'
  BY DEF DraftsAccounted
<1> USE DEF CalmInv
<1>1. run[r].status # "completed"
  BY CompletedStays
<1>2. /\ DOMAIN orch = Runs /\ drafts \in [Runs -> SUBSET (Connectors \cup {None})]
      /\ submit \in [Handlers -> Request] /\ run \in [Runs -> Row]
  BY DEF IInv, TypeOK, OrchestratorTypeOK, StoreTypeOK, DispatchTypeOK
<1>a. \A x \in Runs : Settled(run[x], "completed").status = "completed"
  BY <1>2 DEF Settled, Row
<1>3. ASSUME NEW x \in Runs, OrchestratorStep(x), UNCHANGED dispatchVars
      PROVE  DraftsInHand(r)'
  <2>1. UNCHANGED submit
    BY <1>3 DEF dispatchVars
  <2>2. CASE x = r
    <3>1. CASE StoreDrafts(r) \/ CloseAudit(r)
      BY <1>2, <3>1 DEF StoreDrafts, CloseAudit, Goto, DraftsInHand
    <3>2. CASE Finish(r) \/ PairCleanup(r)
      BY <1>2, <1>a, <3>2 DEF Finish, Complete, PairCleanup, DeleteByPlanningRun
    <3>3. CASE ~ (StoreDrafts(r) \/ CloseAudit(r) \/ Finish(r) \/ PairCleanup(r))
      <4>1. drafts' = drafts /\ orch[r] \notin {"closeAudit", "complete"}
        BY <1>3, <2>2, <3>3 DEF OrchestratorStep, At, Start, StartRefused, OpenAudit,
           Generate, Abort, PairFail, PairFailAudit, OrchestratorFault, NoFaults, tables
      <4>2. QED
        BY <1>1, <2>1, <4>1 DEF DraftsAccounted, DraftsInHand
    <3>4. QED
      BY <3>1, <3>2, <3>3
  <2>3. CASE x # r
    <3>1. drafts'[r] = drafts[r] /\ orch'[r] = orch[r]
      BY <1>2, <1>3, <2>3 DEF OrchestratorStep, Start, StartRefused, OpenAudit, Generate,
         StoreDrafts, CloseAudit, Finish, Abort, PairCleanup, PairFail, PairFailAudit,
         OrchestratorFault, Goto, CreateDraftsForPlanningRun, DeleteByPlanningRun, tables
    <3>2. QED
      BY <1>1, <2>1, <3>1 DEF DraftsAccounted, DraftsInHand
  <2>4. QED
    BY <2>2, <2>3
<1>4. ASSUME NEW h \in Handlers, SubmitStep(h), UNCHANGED orch
      PROVE  DraftsInHand(r)'
  <2>1. \A k \in Handlers : k # h => submit'[k] = submit[k]
    BY <1>2, <1>4 DEF SubmitStep, SubmitCheck, SubmitRejected, SubmitFailAudit,
       SubmitFailRun, SubmitDrafts, SubmitCloseAudit, SubmitComplete, SubmitLeaseLost,
       SubmitUndoDrafts, SubmitUndoAudit, SubmitFault, To, Reply
  <2>2. CASE submit[h].r = r
    <3>1. CASE SubmitDrafts(h) \/ SubmitCloseAudit(h) \/ SubmitLeaseLost(h)
      BY <1>2, <2>2, <3>1 DEF SubmitDrafts, SubmitCloseAudit, SubmitLeaseLost, To,
         DraftsInHand, Request
    <3>2. CASE SubmitComplete(h) \/ SubmitUndoDrafts(h)
      BY <1>2, <1>a, <2>2, <3>2 DEF SubmitComplete, CompleteLocalConnectorRun,
         SubmitUndoDrafts, DeleteByPlanningRun
    <3>3. CASE SubmitCheck(h) \/ SubmitRejected(h) \/ SubmitFailAudit(h)
               \/ SubmitFailRun(h) \/ SubmitUndoAudit(h)
      <4>1. drafts' = drafts
            /\ submit[h].pc \notin {"closeAudit", "complete", "undo", "undoDrafts"}
        BY <3>3 DEF SubmitCheck, SubmitRejected, SubmitFailAudit, SubmitFailRun,
           SubmitUndoAudit, InCall, tables
      <4>2. QED
        BY <1>1, <1>4, <2>1, <4>1 DEF DraftsAccounted, DraftsInHand
    <3>4. QED
      BY <1>4, <3>1, <3>2, <3>3 DEF SubmitStep, SubmitFault, NoFaults
  <2>3. CASE submit[h].r # r
    <3>1. drafts'[r] = drafts[r]
      BY <1>2, <1>4, <2>3 DEF SubmitStep, SubmitCheck, SubmitRejected, SubmitFailAudit,
         SubmitFailRun, SubmitDrafts, SubmitCloseAudit, SubmitComplete, SubmitLeaseLost,
         SubmitUndoDrafts, SubmitUndoAudit, SubmitFault, tables,
         CreateDraftsForPlanningRun, DeleteByPlanningRun
    <3>2. QED
      BY <1>1, <1>4, <2>1, <2>3, <3>1 DEF DraftsAccounted, DraftsInHand
  <2>4. QED
    BY <2>2, <2>3
<1>5. CASE /\ ~ \E x \in Runs : OrchestratorStep(x) /\ UNCHANGED dispatchVars
           /\ ~ \E h \in Handlers : SubmitStep(h) /\ UNCHANGED orch
  <2>1. DraftsInHand(r)
    BY <1>1, <1>5, WhoMoves DEF DraftsAccounted
  <2>2. \A h \in Handlers : submit[h].pc # "idle" => submit'[h] = submit[h]
    BY <1>5, WhoMoves
  <2>3. orch[r] # "none" => orch'[r] = orch[r]
    BY <1>5, WhoMoves DEF Create, CreateLocal, CreateServer, CreateWithBinding, Fresh,
       RequestsKnowTheirRuns
  <2>4. QED
    BY <2>1, <2>2, <2>3 DEF DraftsInHand
<1>6. QED
  BY <1>3, <1>4, <1>5

\* A completed audit row of a run that is not completed stays in somebody's hand.
LEMMA AuditStaysAccounted ==
  ASSUME NoFaults, CalmInv, [Next]_vars
  PROVE  AuditAccounted'
<1> SUFFICES ASSUME NEW r \in Runs, agent'[r] = "completed", run'[r].status # "completed"
             PROVE  AuditInHand(r)'
  BY DEF AuditAccounted
<1> USE DEF CalmInv
<1>1. run[r].status # "completed"
  BY CompletedStays
<1>2. /\ DOMAIN orch = Runs /\ DOMAIN agent = Runs
      /\ submit \in [Handlers -> Request] /\ run \in [Runs -> Row]
  BY DEF IInv, TypeOK, OrchestratorTypeOK, StoreTypeOK, DispatchTypeOK
<1>a. \A x \in Runs : Settled(run[x], "completed").status = "completed"
  BY <1>2 DEF Settled, Row
<1>3. ASSUME NEW x \in Runs, OrchestratorStep(x), UNCHANGED dispatchVars
      PROVE  AuditInHand(r)'
  <2>1. UNCHANGED submit
    BY <1>3 DEF dispatchVars
  <2>2. CASE x = r
    <3>1. CASE CloseAudit(r)
      BY <1>2, <3>1 DEF CloseAudit, Goto, AuditInHand
    <3>2. CASE Finish(r) \/ PairFailAudit(r)
      BY <1>2, <1>a, <3>2 DEF Finish, Complete, PairFailAudit, UpdateAgentRun
    <3>3. CASE ~ (CloseAudit(r) \/ Finish(r) \/ PairFailAudit(r))
      <4>1. agent[r] = "completed" /\ orch[r] # "complete"
        BY <1>2, <1>3, <2>2, <3>3 DEF OrchestratorStep, At, Start, StartRefused, OpenAudit,
           StoreDrafts, Generate, Abort, PairCleanup, PairFail, OrchestratorFault, NoFaults,
           CreateOrGetByIdempotency, tables
      <4>2. QED
        BY <1>1, <2>1, <4>1 DEF AuditAccounted, AuditInHand
    <3>4. QED
      BY <3>1, <3>2, <3>3
  <2>3. CASE x # r
    <3>1. agent'[r] = agent[r] /\ orch'[r] = orch[r]
      BY <1>2, <1>3, <2>3 DEF OrchestratorStep, Start, StartRefused, OpenAudit, Generate,
         StoreDrafts, CloseAudit, Finish, Abort, PairCleanup, PairFail, PairFailAudit,
         OrchestratorFault, Goto, CreateOrGetByIdempotency, UpdateAgentRun, tables
    <3>2. QED
      BY <1>1, <2>1, <3>1 DEF AuditAccounted, AuditInHand
  <2>4. QED
    BY <2>2, <2>3
<1>4. ASSUME NEW h \in Handlers, SubmitStep(h), UNCHANGED orch
      PROVE  AuditInHand(r)'
  <2>1. \A k \in Handlers : k # h => submit'[k] = submit[k]
    BY <1>2, <1>4 DEF SubmitStep, SubmitCheck, SubmitRejected, SubmitFailAudit,
       SubmitFailRun, SubmitDrafts, SubmitCloseAudit, SubmitComplete, SubmitLeaseLost,
       SubmitUndoDrafts, SubmitUndoAudit, SubmitFault, To, Reply
  <2>2. CASE submit[h].r = r /\ submit[h].audited
    <3>1. CASE SubmitCloseAudit(h) \/ SubmitLeaseLost(h)
      BY <1>2, <2>2, <3>1 DEF SubmitCloseAudit, SubmitLeaseLost, To, AuditInHand, Request
    <3>2. CASE SubmitComplete(h) \/ SubmitUndoAudit(h) \/ SubmitFailAudit(h)
      BY <1>2, <1>a, <2>2, <3>2 DEF SubmitComplete, CompleteLocalConnectorRun,
         SubmitUndoAudit, SubmitFailAudit, FinalizeAudit, UpdateAgentRun
    <3>3. CASE SubmitUndoDrafts(h)
      <4>1. agent' = agent
        BY <3>3 DEF SubmitUndoDrafts
      <4>2. CASE submit[h].pc = "undo"
        BY <1>2, <2>2, <3>3, <4>2 DEF SubmitUndoDrafts, InCall, To, AuditInHand, Request
      <4>3. CASE submit[h].pc # "undo"
        <5>1. submit[h].pc \notin {"complete", "undo", "undoAudit"}
          BY <3>3, <4>3 DEF SubmitUndoDrafts
        <5>2. QED
          BY <1>1, <1>4, <2>1, <4>1, <5>1 DEF AuditAccounted, AuditInHand
      <4>4. QED
        BY <4>2, <4>3
    <3>4. CASE SubmitCheck(h) \/ SubmitRejected(h) \/ SubmitFailRun(h) \/ SubmitDrafts(h)
      <4>1. agent' = agent /\ submit[h].pc \notin {"complete", "undo", "undoAudit"}
        BY <3>4 DEF SubmitCheck, SubmitRejected, SubmitFailRun, SubmitDrafts, InCall, tables
      <4>2. QED
        BY <1>1, <1>4, <2>1, <4>1 DEF AuditAccounted, AuditInHand
    <3>5. QED
      BY <1>4, <3>1, <3>2, <3>3, <3>4 DEF SubmitStep, SubmitFault, NoFaults
  <2>3. CASE ~ (submit[h].r = r /\ submit[h].audited)
    <3>1. agent'[r] = agent[r]
      BY <1>2, <1>4, <2>3 DEF SubmitStep, SubmitCheck, SubmitRejected, SubmitFailAudit,
         SubmitFailRun, SubmitDrafts, SubmitCloseAudit, SubmitComplete, SubmitLeaseLost,
         SubmitUndoDrafts, SubmitUndoAudit, SubmitFault, tables, FinalizeAudit, UpdateAgentRun
    <3>2. QED
      BY <1>1, <1>4, <2>1, <2>3, <3>1 DEF AuditAccounted, AuditInHand
  <2>4. QED
    BY <2>2, <2>3
<1>5. CASE /\ ~ \E x \in Runs : OrchestratorStep(x) /\ UNCHANGED dispatchVars
           /\ ~ \E h \in Handlers : SubmitStep(h) /\ UNCHANGED orch
  <2>1. AuditInHand(r)
    BY <1>1, <1>5, WhoMoves DEF AuditAccounted
  <2>2. \A h \in Handlers : submit[h].pc # "idle" => submit'[h] = submit[h]
    BY <1>5, WhoMoves
  <2>3. orch[r] # "none" => orch'[r] = orch[r]
    BY <1>5, WhoMoves DEF Create, CreateLocal, CreateServer, CreateWithBinding, Fresh,
       RequestsKnowTheirRuns
  <2>4. QED
    BY <2>1, <2>2, <2>3 DEF AuditInHand
<1>6. QED
  BY <1>3, <1>4, <1>5

LEMMA CalmInvariant ==
  ASSUME NoFaults
  PROVE  Safety => []CalmInv
<1>1. Init => CalmInv
  BY InitEstablishes, StoreAssumption
     DEF Init, StoreInit, OrchestratorInit, DispatchInit, NoRow, NoRequest, CalmInv,
         RequestsKnowTheirRuns, DraftsAccounted, AuditAccounted
<1>2. CalmInv /\ [Next]_vars => CalmInv'
  BY StepPreserves, RequestsGoOn, DraftsStayAccounted, AuditStaysAccounted DEF CalmInv
<1>3. QED
  BY <1>1, <1>2, PTL DEF Safety

\* If no database call fails and the server does not die, drafts outlive the
\* requests on their run only if the run completed, however many submissions of
\* it overlap (SubmitPlanningRunResult, Orchestrator.Run).
THEOREM OrphansNever ==
  ASSUME NoFaults
  PROVE  Safety => []NoOrphanDrafts
<1>1. CalmInv => NoOrphanDrafts
  BY DEF CalmInv, DraftsAccounted, DraftsInHand, NoOrphanDrafts, Quiet
<1>2. QED
  BY <1>1, CalmInvariant, PTL

\* Under the same assumptions, an audit row that says completed when the requests
\* on its run are over belongs to a completed run.
THEOREM AuditsTrue ==
  ASSUME NoFaults
  PROVE  Safety => []AuditNeverOverclaims
<1>1. CalmInv => AuditNeverOverclaims
  BY DEF CalmInv, AuditAccounted, AuditInHand, AuditNeverOverclaims, Quiet
<1>2. QED
  BY <1>1, CalmInvariant, PTL

-----------------------------------------------------------------------------
(* The local rows are a work queue                                         *)

\* No store call fails; messages may be lost, daemons and the server may die.
StoreWorks == DbFaults = FALSE

\* An invocation leaves the row of a local run alone, and rows are inserted by
\* their own invocation.
InvocationsBelong ==
  \A r \in Runs : /\ run[r].status = "absent" => orch[r] = "none"
                  /\ run[r].mode = "local" => orch[r] \in {"audit", "done"}

\* Ids are drawn in order.
NoGaps ==
  \A r, s \in Runs : r < s /\ run[s].status # "absent" => run[r].status # "absent"

\* The inductive invariant of the refinement.
QueueInv == IInv /\ InvocationsBelong /\ NoGaps

\* A row is inserted by Create, and by nothing else.
LEMMA AbsentStays ==
  ASSUME IInv, InvocationsBelong, [Next]_vars, NEW x \in Runs, run[x].status = "absent",
         ~ (Create(x) /\ UNCHANGED dispatchVars)
  PROVE  run'[x] = run[x]
<1>0. /\ run \in [Runs -> Row]
      /\ orch[x] = "none"
      /\ run[x].mode = "server" /\ run[x].lease = "null"
  <2>1. run \in [Runs -> Row] /\ orch[x] = "none" /\ RowCoherent(run[x])
    BY DEF IInv, RunsOK, InvocationsBelong, LeaseCoherence
  <2>2. QED
    BY <2>1 DEF RowCoherent, Row
<1>1. ASSUME NEW r \in Runs, (Create(r) \/ OrchestratorStep(r)) /\ UNCHANGED dispatchVars
      PROVE  run'[x] = run[x]
  <2>1. r # x
    BY <1>0, <1>1 DEF OrchestratorStep, Start, StartRefused, OpenAudit, Generate, StoreDrafts,
       CloseAudit, Finish, Abort, PairCleanup, PairFail, PairFailAudit, OrchestratorFault, At
  <2>2. run' = run \/ \E row : run' = [run EXCEPT ![r] = row]
    BY <1>1 DEF OrchestratorStep, Start, StartRefused, OpenAudit, Generate, StoreDrafts,
       CloseAudit, Finish, Abort, PairCleanup, PairFail, PairFailAudit, OrchestratorFault,
       MarkRunning, Complete, Fail, tables, Create, CreateLocal, CreateServer, CreateWithBinding
  <2>3. QED
    BY <1>0, <2>1, <2>2
<1>2. ASSUME NEW r \in Runs, Cancel(r) \/ LeaseLapse(r)
      PROVE  run'[x] = run[x]
  BY <1>0, <1>2 DEF Cancel, CancelIfActive, LeaseLapse, Active
<1>3. ASSUME NEW c \in Connectors, ClaimStep(c) \/ DaemonStep(c) \/ RevokeConnector(c)
      PROVE  run'[x] = run[x]
  <2>1. SweepExpiredLeases => run'[x] = run[x]
    BY DEF SweepExpiredLeases, LeaseExpired
  <2>2. ASSUME NEW r \in Runs, LeaseNext(r, c)
        PROVE  run'[x] = run[x]
    BY <1>0, <2>2 DEF LeaseNext, Claimable
  <2>3. QED
    BY <1>3, <2>1, <2>2 DEF ClaimStep, ClaimSweep, ClaimNothing, ClaimLease, ClaimLeaseLost,
       DaemonStep, LoseResult, PostResult, RevokeConnector, Revoke, tables
<1>4. ASSUME NEW h \in Handlers, SubmitStep(h)
      PROVE  run'[x] = run[x]
  BY <1>0, <1>4 DEF SubmitStep, SubmitCheck, SubmitRejected, SubmitFailAudit, SubmitFailRun,
     SubmitDrafts, SubmitCloseAudit, SubmitComplete, SubmitLeaseLost, SubmitUndoDrafts,
     SubmitUndoAudit, SubmitFault, FailLocalConnectorRun, CompleteLocalConnectorRun,
     HoldsLease, tables
<1>5. CASE ServerCrash \/ UNCHANGED vars
  BY <1>5 DEF ServerCrash, vars, tables
<1>6. QED
  BY <1>1, <1>2, <1>3, <1>4, <1>5 DEF Next

LEMMA InvocationsGoOn ==
  ASSUME StoreWorks, IInv, InvocationsBelong, [Next]_vars
  PROVE  InvocationsBelong'
<1> SUFFICES ASSUME NEW x \in Runs
             PROVE  /\ run'[x].status = "absent" => orch'[x] = "none"
                    /\ run'[x].mode = "local" => orch'[x] \in {"audit", "done"}
  BY DEF InvocationsBelong
<1>0. /\ run \in [Runs -> Row]
      /\ DOMAIN orch = Runs
      /\ run[x].status = "absent" => orch[x] = "none"
      /\ run[x].mode = "local" => orch[x] \in {"audit", "done"} /\ run[x].status # "absent"
  <2>1. run \in [Runs -> Row] /\ DOMAIN orch = Runs /\ RowCoherent(run[x])
    BY DEF IInv, RunsOK, LeaseCoherence, TypeOK, OrchestratorTypeOK
  <2>2. QED
    BY <2>1 DEF RowCoherent, Row, InvocationsBelong
<1>1. CASE Create(x)
  <2>1. \A q : QueuedRow("server", q, None, FALSE, None).status = "queued"
               /\ QueuedRow("server", q, None, FALSE, None).mode = "server"
    BY DEF QueuedRow
  <2>2. \A q, u, b, t : QueuedRow("local", q, u, b, t).status = "queued"
    BY DEF QueuedRow
  <2>3. CASE \E q \in Requirements : CreateServer(x, q)
    BY <1>0, <2>1, <2>3 DEF CreateServer, CreateWithBinding, Goto
  <2>4. CASE \E q \in Requirements, u \in Users, b \in BOOLEAN, t \in Connectors \cup {None} :
               CreateLocal(x, q, u, b, t)
    BY <1>0, <2>2, <2>4 DEF CreateLocal, CreateWithBinding, Goto
  <2>5. QED
    BY <1>1, <2>3, <2>4 DEF Create
<1>2. CASE ~ Create(x)
  <2>1. CASE run[x].status = "absent"
    <3>1. run'[x] = run[x] /\ run[x].mode # "local"
      BY <1>0, <1>2, <2>1, AbsentStays
    <3>2. orch'[x] = orch[x]
      <4>1. ASSUME NEW r \in Runs, Create(r) \/ OrchestratorStep(r)
            PROVE  orch'[x] = orch[x]
        <5>1. r # x
          BY <1>0, <1>2, <2>1, <4>1 DEF OrchestratorStep, Start, StartRefused, OpenAudit,
             Generate, StoreDrafts, CloseAudit, Finish, Abort, PairCleanup, PairFail,
             PairFailAudit, OrchestratorFault, At
        <5>2. QED
          BY <1>0, <4>1, <5>1 DEF OrchestratorStep, Start, StartRefused, OpenAudit,
             Generate, StoreDrafts, CloseAudit, Finish, Abort, PairCleanup, PairFail,
             PairFailAudit, OrchestratorFault, Goto, Create, CreateLocal, CreateServer
      <4>2. ServerCrash => orch'[x] = orch[x]
        BY <1>0, <2>1 DEF ServerCrash
      <4>3. QED
        BY <4>1, <4>2 DEF Next, vars, Cancel
    <3>3. QED
      BY <1>0, <2>1, <3>1, <3>2
  <2>2. CASE run[x].status # "absent"
    <3>1. run'[x].mode = run[x].mode /\ run'[x].status # "absent"
      BY <2>2, RowsStay
    <3>2. ASSUME orch[x] \in {"audit", "done"}, run[x].mode = "local"
          PROVE  orch'[x] \in {"audit", "done"}
      <4>1. ASSUME NEW r \in Runs, Create(r) \/ OrchestratorStep(r)
            PROVE  orch'[x] \in {"audit", "done"}
        <5>1. CASE r = x
          BY <1>0, <1>2, <3>2, <4>1, <5>1 DEF OrchestratorStep, Start, StartRefused, OpenAudit,
             Generate, StoreDrafts, CloseAudit, Finish, Abort, PairCleanup, PairFail,
             PairFailAudit, OrchestratorFault, At, Goto, StoreWorks
        <5>2. CASE r # x
          BY <1>0, <3>2, <4>1, <5>2 DEF OrchestratorStep, Start, StartRefused, OpenAudit,
             Generate, StoreDrafts, CloseAudit, Finish, Abort, PairCleanup, PairFail,
             PairFailAudit, OrchestratorFault, Goto, Create, CreateLocal, CreateServer
        <5>3. QED
          BY <5>1, <5>2
      <4>2. ServerCrash => orch'[x] \in {"audit", "done"}
        BY <1>0, <3>2 DEF ServerCrash
      <4>3. QED
        BY <3>2, <4>1, <4>2 DEF Next, vars, Cancel
    <3>3. QED
      BY <1>0, <3>1, <3>2
  <2>3. QED
    BY <2>1, <2>2
<1>3. QED
  BY <1>1, <1>2

LEMMA GapsStayClosed ==
  ASSUME IInv, InvocationsBelong, NoGaps, [Next]_vars
  PROVE  NoGaps'
<1> SUFFICES ASSUME NEW r \in Runs, NEW s \in Runs, r < s, run'[s].status # "absent"
             PROVE  run'[r].status # "absent"
  BY DEF NoGaps
<1>1. CASE run[s].status # "absent"
  BY <1>1, RowsStay DEF NoGaps
<1>2. CASE run[s].status = "absent"
  <2>1. Create(s)
    BY <1>2, AbsentStays
  <2>2. run[r].status # "absent"
    BY <2>1 DEF Create, CreateLocal, CreateServer, CreateWithBinding, Fresh
  <2>3. QED
    BY <2>2, RowsStay
<1>3. QED
  BY <1>1, <1>2

\* The queue does not see server runs.
LEMMA ServerRow ==
  ASSUME NEW row, row.mode # "local"
  PROVE  Phase(row) = "none" /\ JobOf(row) = None
BY DEF Phase, JobOf

LEMMA OpenRow ==
  ASSUME NEW row, row.mode = "local", row.status \in Active \cup Terminal \cup {"absent"}
  PROVE  /\ Phase(row) = "waiting" <=> row.status = "queued"
         /\ Phase(row) = "held" <=> row.status = "running"
         /\ row.status \in Terminal => Phase(row) = row.status
         /\ JobOf(row) = [req |-> row.req, user |-> row.user, bound |-> row.bound,
                          target |-> row.target]
<1>1. JobOf(row) = [req |-> row.req, user |-> row.user, bound |-> row.bound,
                    target |-> row.target]
  BY DEF JobOf
<1>2. CASE row.status = "queued"
  BY <1>1, <1>2 DEF Phase, Terminal
<1>3. CASE row.status = "running"
  BY <1>1, <1>3 DEF Phase, Terminal
<1>4. CASE row.status \notin {"queued", "running"}
  <2>1. Phase(row) = row.status
    BY <1>4 DEF Phase
  <2>2. QED
    BY <1>1, <1>4, <2>1 DEF Active, Terminal
<1>5. QED
  BY <1>2, <1>3, <1>4

\* A write the queue does not see.
LEMMA QueueStutters ==
  ASSUME run \in [Runs -> Row], NEW r \in Runs, NEW row,
         run' = run \/ run' = [run EXCEPT ![r] = row],
         row.connector = run[r].connector, Phase(row) = Phase(run[r]),
         JobOf(row) = JobOf(run[r])
  PROVE  UNCHANGED Queue!queueVars
<1>1. \A x \in Runs : /\ run'[x].connector = run[x].connector
                      /\ Phase(run'[x]) = Phase(run[x])
                      /\ JobOf(run'[x]) = JobOf(run[x])
  <2>1. CASE run' = run
    BY <2>1
  <2>2. CASE run' = [run EXCEPT ![r] = row]
    <3>1. \A x \in Runs : run'[x] = IF x = r THEN row ELSE run[x]
      BY <2>2
    <3>2. QED
      BY <3>1
  <2>3. QED
    BY <2>1, <2>2
<1>2. QED
  BY <1>1 DEF Queue!queueVars

\* Settling a row settles its job, if it is a local run that is held or cancelled.
LEMMA SettleRefines ==
  ASSUME IInv, NEW r \in Runs, NEW s \in Terminal,
         run' = [run EXCEPT ![r] = Settled(@, s)],
         run[r].mode = "local" =>
           run[r].status = "running" \/ (run[r].status = "queued" /\ s = "cancelled")
  PROVE  [Queue!Next]_(Queue!queueVars)
<1>0. run \in [Runs -> Row] /\ run[r] \in Row
  BY DEF IInv, RunsOK
<1>1. CASE run[r].mode # "local"
  <2>1. /\ Settled(run[r], s).connector = run[r].connector
        /\ Phase(Settled(run[r], s)) = Phase(run[r])
        /\ JobOf(Settled(run[r], s)) = JobOf(run[r])
    <3>1. /\ Settled(run[r], s).connector = run[r].connector
          /\ Settled(run[r], s).mode = run[r].mode
      BY <1>0, <1>1 DEF Settled, Row
    <3>2. QED
      BY <1>1, <3>1, ServerRow
  <2>2. QED
    BY <1>0, <2>1, QueueStutters
<1>2. CASE run[r].mode = "local"
  <2>1. /\ Settled(run[r], s).connector = run[r].connector
        /\ Phase(Settled(run[r], s)) = s
        /\ JobOf(Settled(run[r], s)) = JobOf(run[r])
        /\ s \in Queue!Results
    <3>1. /\ Settled(run[r], s).connector = run[r].connector
          /\ Settled(run[r], s).mode = "local" /\ Settled(run[r], s).status = s
          /\ Settled(run[r], s).req = run[r].req /\ Settled(run[r], s).user = run[r].user
          /\ Settled(run[r], s).bound = run[r].bound
          /\ Settled(run[r], s).target = run[r].target
      BY <1>0, <1>2 DEF Settled, Row
    <3>2. run[r].status \in Active \cup Terminal \cup {"absent"}
      BY <1>0 DEF Row
    <3>3. JobOf(Settled(run[r], s)) = JobOf(run[r]) /\ Phase(Settled(run[r], s)) = s
      BY <1>2, <3>1, <3>2, OpenRow
    <3>4. QED
      BY <3>1, <3>3 DEF Terminal, Queue!Results
  <2>2. \A x \in Runs : run'[x] = IF x = r THEN Settled(run[r], s) ELSE run[x]
    BY <1>0
  <2>3. Phase(run[r]) = "held" \/ (Phase(run[r]) = "waiting" /\ s = "cancelled")
    BY <1>2 DEF Phase
  <2>4. /\ [x \in Runs |-> Phase(run[x])]' = [[x \in Runs |-> Phase(run[x])] EXCEPT ![r] = s]
        /\ UNCHANGED <<[x \in Runs |-> run[x].connector], [x \in Runs |-> JobOf(run[x])]>>
    <3>1. [x \in Runs |-> Phase(run[x])]' = [[x \in Runs |-> Phase(run[x])] EXCEPT ![r] = s]
      <4>1. \A x \in Runs : Phase(run'[x]) = IF x = r THEN s ELSE Phase(run[x])
        BY <2>1, <2>2
      <4>2. QED
        BY <4>1
    <3>2. \A x \in Runs : run'[x].connector = run[x].connector /\ JobOf(run'[x]) = JobOf(run[x])
      BY <2>1, <2>2
    <3>3. QED
      BY <3>1, <3>2
  <2>5. Queue!Settle(r, s)
    BY <2>3, <2>4 DEF Queue!Settle
  <2>6. QED
    BY <2>1, <2>5 DEF Queue!Next
<1>3. QED
  BY <1>1, <1>2

\* A row that Create inserts is a job that is posted, unless it is a server run.
LEMMA CreateRefines ==
  ASSUME QueueInv, NEW r \in Runs, Create(r)
  PROVE  [Queue!Next]_(Queue!queueVars)
<1>0. /\ run \in [Runs -> Row] /\ run[r] \in Row
      /\ run[r].status = "absent" /\ run[r].mode = "server" /\ run[r].connector = None
  <2>1. run[r] \in Row /\ run[r].status = "absent" /\ RowCoherent(run[r])
    BY DEF QueueInv, IInv, RunsOK, LeaseCoherence, Create, CreateLocal, CreateServer,
       CreateWithBinding, Fresh
  <2>2. QED
    BY <2>1 DEF RowCoherent, Row, QueueInv, IInv, RunsOK
<1>1. ASSUME NEW q \in Requirements, CreateServer(r, q)
      PROVE  UNCHANGED Queue!queueVars
  <2> DEFINE row == QueuedRow("server", q, None, FALSE, None)
  <2>1. /\ row.connector = None
        /\ Phase(row) = Phase(run[r])
        /\ JobOf(row) = JobOf(run[r])
    <3>1. row.connector = None /\ row.mode = "server"
      BY DEF QueuedRow
    <3> HIDE DEF row
    <3>2. QED
      BY <1>0, <3>1, ServerRow
  <2>2. run' = [run EXCEPT ![r] = row]
    BY <1>1 DEF CreateServer, CreateWithBinding
  <2> HIDE DEF row
  <2>3. QED
    BY <1>0, <2>1, <2>2, QueueStutters
<1>2. ASSUME NEW q \in Requirements, NEW u \in Users, NEW b \in BOOLEAN,
             NEW t \in Connectors \cup {None}, CreateLocal(r, q, u, b, t)
      PROVE  Queue!Next
  <2> DEFINE row == QueuedRow("local", q, u, b, t)
             j == [req |-> q, user |-> u, bound |-> b, target |-> t]
  <2>1. /\ row.connector = None /\ Phase(row) = "waiting" /\ JobOf(row) = j
        /\ row.req = q /\ j \in LocalJobs
    BY DEF QueuedRow, Phase, JobOf, LocalJobs
  <2>2. /\ run' = [run EXCEPT ![r] = row]
        /\ IndexAdmits(r, q)
        /\ \A s \in Runs : s < r => run[s].status # "absent"
    BY <1>2, <2>1 DEF CreateLocal, CreateWithBinding, Fresh
  <2>3. Topic(j) = q
    BY DEF Topic
  <2> HIDE DEF row, j
  <2>4. \A x \in Runs : run'[x] = IF x = r THEN row ELSE run[x]
    BY <1>0, <2>2
  <2>5. \A s \in Runs : s >= r => Phase(run[s]) = "none"
    <3> SUFFICES ASSUME NEW s \in Runs, s >= r PROVE Phase(run[s]) = "none"
      OBVIOUS
    <3>1. run[s].status = "absent"
      <4>1. r \in Nat /\ s \in Nat
        BY StoreAssumption
      <4>2. r = s \/ r < s
        BY <4>1
      <4>3. QED
        BY <1>0, <4>2 DEF QueueInv, NoGaps
    <3>2. run[s].mode # "local"
      BY <3>1 DEF QueueInv, IInv, RunsOK, LeaseCoherence, RowCoherent, Active, Terminal
    <3>3. QED
      BY <3>2, ServerRow
  <2>6. \A s \in Runs : Phase(run[s]) \in {"waiting", "held"} => Topic(JobOf(run[s])) # q
    <3> SUFFICES ASSUME NEW s \in Runs, Phase(run[s]) \in {"waiting", "held"}
                 PROVE  Topic(JobOf(run[s])) # q
      OBVIOUS
    <3>1. run[s] \in Row
      BY <1>0
    <3>2. run[s].mode = "local" /\ run[s].status \in Active
      <4>1. run[s].status \in Active \cup Terminal \cup {"absent"}
        BY <3>1 DEF Row
      <4>2. run[s].mode = "local"
        BY ServerRow
      <4>3. QED
        BY <4>1, <4>2, OpenRow DEF Active
    <3>3. s # r
      BY <1>0, <3>2
    <3>4. Topic(JobOf(run[s])) = run[s].req
      BY <3>2 DEF Topic, JobOf
    <3>5. QED
      BY <2>2, <3>2, <3>3, <3>4 DEF IndexAdmits
  <2>7. /\ [x \in Runs |-> Phase(run[x])]' = [[x \in Runs |-> Phase(run[x])] EXCEPT ![r] = "waiting"]
        /\ [x \in Runs |-> JobOf(run[x])]' = [[x \in Runs |-> JobOf(run[x])] EXCEPT ![r] = j]
        /\ UNCHANGED [x \in Runs |-> run[x].connector]
    BY <1>0, <2>1, <2>4
  <2>8. Queue!Post(r, j)
    BY <2>3, <2>5, <2>6, <2>7 DEF Queue!Post, Queue!Open
  <2>9. QED
    BY <2>1, <2>8 DEF Queue!Next
<1>3. QED
  BY <1>1, <1>2 DEF Create

\* Leasing the oldest claimable row grants the oldest waiting job of the connector.
LEMMA LeaseRefines ==
  ASSUME QueueInv, NEW r \in Runs, NEW c \in Connectors, LeaseNext(r, c)
  PROVE  Queue!Next
<1>0. run \in [Runs -> Row] /\ run[r] \in Row
  BY DEF QueueInv, IInv, RunsOK
<1> DEFINE row == [run[r] EXCEPT !.status = "running", !.dispatch = "leased",
                                 !.connector = c, !.lease = "live"]
<1>1. /\ run' = [run EXCEPT ![r] = row]
      /\ Phase(run[r]) = "waiting" /\ MayRun(c, run[r]) /\ run[r].mode = "local"
  BY <1>0 DEF LeaseNext, Claimable, Phase
<1>2. row.connector = c /\ Phase(row) = "held" /\ JobOf(row) = JobOf(run[r])
  BY <1>0, <1>1 DEF Phase, JobOf, Row
<1> HIDE DEF row
<1>3. \A x \in Runs : run'[x] = IF x = r THEN row ELSE run[x]
  BY <1>0, <1>1
<1>4. \A x \in Runs : run[x].mode = "local" => (MayRun(c, JobOf(run[x])) <=> MayRun(c, run[x]))
  BY DEF MayRun, JobOf
<1>5. \A s \in Runs : s < r /\ Phase(run[s]) = "waiting" => ~ MayRun(c, JobOf(run[s]))
  <2> SUFFICES ASSUME NEW s \in Runs, s < r, Phase(run[s]) = "waiting"
               PROVE  ~ MayRun(c, run[s]) /\ run[s].mode = "local"
    BY <1>4
  <2>1. run[s] \in Row /\ RowCoherent(run[s])
    BY <1>0 DEF QueueInv, IInv, RunsOK, LeaseCoherence
  <2>2. run[s].mode = "local" /\ run[s].status = "queued"
    <3>1. run[s].status \in Active \cup Terminal \cup {"absent"}
      BY <2>1 DEF Row
    <3>2. run[s].mode = "local"
      BY ServerRow
    <3>3. QED
      BY <3>1, <3>2, OpenRow
  <2>3. run[s].dispatch \in {"queued", "expired"}
    BY <2>1, <2>2 DEF RowCoherent
  <2>4. QED
    BY <2>2, <2>3 DEF LeaseNext, Claimable
<1>6. /\ [x \in Runs |-> Phase(run[x])]' = [[x \in Runs |-> Phase(run[x])] EXCEPT ![r] = "held"]
      /\ [x \in Runs |-> run[x].connector]' = [[x \in Runs |-> run[x].connector] EXCEPT ![r] = c]
      /\ UNCHANGED [x \in Runs |-> JobOf(run[x])]
  BY <1>2, <1>3
<1>7. MayRun(c, JobOf(run[r]))
  BY <1>1, <1>4
<1>8. Queue!Grant(r, c)
  BY <1>1, <1>5, <1>6, <1>7 DEF Queue!Grant
<1>9. QED
  BY <1>8 DEF Queue!Next

LEMMA TakenBack ==
  ASSUME NEW T, T \subseteq Runs,
         \A r \in T : Phase(run[r]) = "held",
         [x \in Runs |-> Phase(run[x])]'
           = [x \in Runs |-> IF x \in T THEN "waiting" ELSE Phase(run[x])],
         [x \in Runs |-> run[x].connector]'
           = [x \in Runs |-> IF x \in T THEN None ELSE run[x].connector],
         UNCHANGED [x \in Runs |-> JobOf(run[x])]
  PROVE  Queue!Next
<1>1. /\ \A x \in T : [y \in Runs |-> Phase(run[y])][x] = "held"
      /\ [x \in Runs |-> IF x \in T THEN "waiting" ELSE Phase(run[x])]
           = [x \in Runs |-> IF x \in T THEN "waiting" ELSE [y \in Runs |-> Phase(run[y])][x]]
      /\ [x \in Runs |-> IF x \in T THEN None ELSE run[x].connector]
           = [x \in Runs |-> IF x \in T THEN None ELSE [y \in Runs |-> run[y].connector][x]]
  OBVIOUS
<1>2. Queue!TakeBack(T)
  BY <1>1 DEF Queue!TakeBack
<1>3. T \in SUBSET Runs
  OBVIOUS
<1>4. QED
  BY <1>2, <1>3 DEF Queue!Next

\* A sweep takes back the jobs of the expired leases, all at once.
LEMMA SweepRefines ==
  ASSUME QueueInv, SweepExpiredLeases
  PROVE  Queue!Next
<1>0. run \in [Runs -> Row]
  BY DEF QueueInv, IInv, RunsOK
<1> DEFINE S == {x \in Runs : LeaseExpired(run[x])}
           Back(row) == [row EXCEPT !.status = "queued", !.dispatch = "expired",
                                    !.connector = None, !.lease = "null"]
<1>1. \A x \in Runs : run'[x] = IF x \in S THEN Back(run[x]) ELSE run[x]
  BY DEF SweepExpiredLeases
<1>2. \A x \in S : /\ Phase(run[x]) = "held"
                   /\ Phase(Back(run[x])) = "waiting"
                   /\ Back(run[x]).connector = None
                   /\ JobOf(Back(run[x])) = JobOf(run[x])
  BY <1>0 DEF LeaseExpired, Phase, JobOf, Row
<1> HIDE DEF S, Back
<1>3. /\ [x \in Runs |-> Phase(run[x])]' = [x \in Runs |-> IF x \in S THEN "waiting" ELSE Phase(run[x])]
      /\ [x \in Runs |-> run[x].connector]' = [x \in Runs |-> IF x \in S THEN None ELSE run[x].connector]
      /\ UNCHANGED [x \in Runs |-> JobOf(run[x])]
  BY <1>1, <1>2
<1>4. S \subseteq Runs
  BY DEF S
<1>5. QED
  BY <1>2, <1>3, <1>4, TakenBack

\* Every step maps to a step of the queue or to a stutter.
LEMMA StepRefines ==
  ASSUME StoreWorks, QueueInv, [Next]_vars
  PROVE  [Queue!Next]_(Queue!queueVars)
<1>0. run \in [Runs -> Row]
  BY DEF QueueInv, IInv, RunsOK
<1>1. ASSUME UNCHANGED run
      PROVE  UNCHANGED Queue!queueVars
  BY <1>1 DEF Queue!queueVars
<1>2. ASSUME NEW r \in Runs, OrchestratorStep(r)
      PROVE  [Queue!Next]_(Queue!queueVars)
  <2>1. run[r].mode = "local" => OpenAudit(r)
    BY <1>2 DEF QueueInv, InvocationsBelong, OrchestratorStep, Start, StartRefused, Generate,
       StoreDrafts, CloseAudit, Finish, Abort, PairCleanup, PairFail, PairFailAudit,
       OrchestratorFault, At, StoreWorks
  <2>2. CASE OpenAudit(r)
    BY <1>1, <2>2 DEF OpenAudit
  <2>3. CASE run[r].mode # "local" /\ (Finish(r) \/ Abort(r) \/ PairFail(r))
    BY <2>3, SettleRefines DEF QueueInv, Finish, Abort, PairFail, Complete, Fail, Terminal
  <2>4. CASE run[r].mode # "local" /\ Start(r)
    <3> DEFINE row == [run[r] EXCEPT !.status = "running"]
    <3>1. run' = [run EXCEPT ![r] = row]
      BY <2>4 DEF Start, MarkRunning
    <3>2. /\ row.connector = run[r].connector
          /\ Phase(row) = Phase(run[r])
          /\ JobOf(row) = JobOf(run[r])
      <4>1. row.connector = run[r].connector /\ row.mode = run[r].mode
        BY <1>0 DEF Row
      <4> HIDE DEF row
      <4>2. QED
        BY <2>4, <4>1, ServerRow
    <3> HIDE DEF row
    <3>3. QED
      BY <1>0, <3>1, <3>2, QueueStutters
  <2>5. CASE ~ (Start(r) \/ Finish(r) \/ Abort(r) \/ PairFail(r))
    BY <1>1, <1>2, <2>5 DEF OrchestratorStep, StartRefused, OpenAudit, Generate, StoreDrafts,
       CloseAudit, PairCleanup, PairFailAudit, OrchestratorFault, tables
  <2>6. QED
    BY <2>1, <2>2, <2>3, <2>4, <2>5
<1>3. ASSUME NEW r \in Runs, Cancel(r)
      PROVE  [Queue!Next]_(Queue!queueVars)
  BY <1>3, SettleRefines DEF QueueInv, Cancel, CancelIfActive, Active, Terminal
<1>4. ASSUME NEW r \in Runs, LeaseLapse(r)
      PROVE  [Queue!Next]_(Queue!queueVars)
  <2> DEFINE row == [run[r] EXCEPT !.lease = "lapsed"]
  <2>1. run' = [run EXCEPT ![r] = row]
    BY <1>4 DEF LeaseLapse
  <2>2. /\ row.connector = run[r].connector
        /\ Phase(row) = Phase(run[r])
        /\ JobOf(row) = JobOf(run[r])
    BY <1>0 DEF Phase, JobOf, Row
  <2> HIDE DEF row
  <2>3. QED
    BY <1>0, <2>1, <2>2, QueueStutters
<1>5. ASSUME NEW c \in Connectors, ClaimStep(c) \/ DaemonStep(c) \/ RevokeConnector(c)
      PROVE  [Queue!Next]_(Queue!queueVars)
  BY <1>1, <1>5, SweepRefines, LeaseRefines
     DEF ClaimStep, ClaimSweep, ClaimNothing, ClaimLease, ClaimLeaseLost, DaemonStep,
         LoseResult, PostResult, RevokeConnector, Revoke, tables
<1>6. ASSUME NEW h \in Handlers, SubmitStep(h)
      PROVE  [Queue!Next]_(Queue!queueVars)
  <2>1. CASE UNCHANGED run
    BY <1>1, <2>1
  <2>2. CASE run' # run
    <3>1. /\ HoldsLease(submit[h].c, submit[h].r)
          /\ \E st \in Terminal : run' = [run EXCEPT ![submit[h].r] = Settled(@, st)]
      BY <1>6, <2>2, SubmitWrites
    <3>2. submit[h].r \in Runs
      <4>1. submit[h].r \in Runs \cup {None}
        BY DEF QueueInv, IInv, TypeOK, DispatchTypeOK, Request
      <4>2. submit[h].r \in Runs \/ run' = run
        BY <1>0, <3>1, <4>1
      <4>3. QED
        BY <2>2, <4>2
    <3>3. QED
      BY <3>1, <3>2, SettleRefines DEF QueueInv, HoldsLease
  <2>3. QED
    BY <2>1, <2>2
<1>7. CASE ServerCrash \/ UNCHANGED vars
  BY <1>1, <1>7 DEF ServerCrash, vars, tables
<1>8. QED
  BY <1>2, <1>3, <1>4, <1>5, <1>6, <1>7, CreateRefines DEF Next

\* If no store call fails, the local rows of planning_runs are a work queue, whatever
\* daemons die, replies are lost, leases lapse and submissions overlap, and even if
\* the server restarts (claim-next-run, planning-runs/:id/result, the orchestrator).
THEOREM QueueImplemented ==
  ASSUME StoreWorks
  PROVE  Safety => ImplementsQueue
<1>1. Init => QueueInv /\ Queue!Init
  <2>1. Init => IInv
    BY InitEstablishes
  <2>2. Init => InvocationsBelong /\ NoGaps
    BY DEF Init, StoreInit, OrchestratorInit, NoRow, InvocationsBelong, NoGaps
  <2>3. Init => Queue!Init
    BY DEF Init, StoreInit, NoRow, Queue!Init, Phase, JobOf
  <2>4. QED
    BY <2>1, <2>2, <2>3 DEF QueueInv
<1>2. QueueInv /\ [Next]_vars => QueueInv'
  BY StepPreserves, InvocationsGoOn, GapsStayClosed DEF QueueInv
<1>3. QueueInv /\ [Next]_vars => [Queue!Next]_(Queue!queueVars)
  BY StepRefines
<1>4. QED
  BY <1>1, <1>2, <1>3, PTL DEF Safety, ImplementsQueue, Queue!Spec
=============================================================================
