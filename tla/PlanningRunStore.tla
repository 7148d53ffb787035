-------------------------- MODULE PlanningRunStore --------------------------
(***************************************************************************)
(* The database tables of planning dispatch and the SQL statements that    *)
(* change them (internal/store/planning_run_store.go, agent_run_store.go,  *)
(* backlog_candidate_store.go, local_connector_store.go).  Every operator  *)
(* that primes a table is ONE statement or ONE transaction, so it is the   *)
(* grain at which handlers of concurrent requests interleave.              *)
(*                                                                         *)
(* Time is abstracted: a stored lease_expires_at is "live" while it lies   *)
(* in the future, "lapsed" once it has passed, "null" when it is NULL.     *)
(***************************************************************************)
EXTENDS Naturals

CONSTANTS
  Runs,          \* planning run ids, numbered in order of (created_at, id)
  Requirements,  \* requirement ids
  Connectors,    \* paired local connectors
  Users,         \* account ids
  Owner,         \* local_connectors.user_id
  Protocol,      \* local_connectors.protocol_version
  None,          \* SQL NULL; as the author of drafts, the server itself
  DbFaults       \* whether a database call may return an error

ASSUME StoreAssumption ==
  /\ Runs \subseteq Nat
  /\ Owner \in [Connectors -> Users]
  /\ Protocol \in [Connectors -> Nat]
  /\ DbFaults \in BOOLEAN
  /\ None \notin Runs \cup Requirements \cup Connectors \cup Users

VARIABLES
  run,      \* planning_runs
  agent,    \* agent_runs.status under the key "planning-run:<id>"
  drafts,   \* who wrote the backlog_candidates that carry this planning_run_id
  revoked   \* local_connectors whose status is revoked

tables == <<run, agent, drafts, revoked>>

Active == {"queued", "running"}
Terminal == {"completed", "failed", "cancelled"}

Row == [status    : Active \cup Terminal \cup {"absent"},
        mode      : {"local", "server"},
        dispatch  : {"not_required", "queued", "leased", "returned", "expired"},
        connector : Connectors \cup {None},
        lease     : {"null", "live", "lapsed"},
        req       : Requirements \cup {None},
        user      : Users \cup {None},
        bound     : BOOLEAN,
        target    : Connectors \cup {None}]

NoRow == [status |-> "absent", mode |-> "server", dispatch |-> "not_required",
          connector |-> None, lease |-> "null", req |-> None, user |-> None,
          bound |-> FALSE, target |-> None]

StoreTypeOK ==
  /\ run \in [Runs -> Row]
  /\ agent \in [Runs -> {"none", "running", "completed", "failed"}]
  /\ drafts \in [Runs -> SUBSET (Connectors \cup {None})]
  /\ revoked \subseteq Connectors

StoreInit ==
  /\ run = [r \in Runs |-> NoRow]
  /\ agent = [r \in Runs |-> "none"]
  /\ drafts = [r \in Runs |-> {}]
  /\ revoked = {}

-----------------------------------------------------------------------------
(* planning_runs                                                           *)

\* Mutant: the index predicate forgets running.
IndexAdmits_QueuedOnly(r, q) ==
  \A s \in Runs \ {r} : ~ (run[s].status = "queued" /\ run[s].req = q)

\* The key condition of the partial unique index
\* idx_planning_runs_requirement_active: r may be active on requirement q.
IndexAdmits(r, q) ==
  \A s \in Runs \ {r} : ~ (run[s].status \in Active /\ run[s].req = q)

\* The next id in creation order.
Fresh(r) ==
  /\ run[r].status = "absent"
  /\ \A s \in Runs : s < r => run[s].status # "absent"

QueuedRow(m, q, u, b, t) ==
  [status |-> "queued", mode |-> m,
   dispatch |-> IF m = "local" THEN "queued" ELSE "not_required",
   connector |-> None, lease |-> "null", req |-> q, user |-> u,
   bound |-> b, target |-> t]

CreateWithBinding(r, row) ==
  /\ Fresh(r)
  /\ IndexAdmits(r, row.req)
  /\ run' = [run EXCEPT ![r] = row]

\* MarkRunning has no status guard: the unique index alone can refuse it.
MarkRunning(r) ==
  /\ IndexAdmits(r, run[r].req)
  /\ run' = [run EXCEPT ![r] =
               IF @.mode = "local"
               THEN [@ EXCEPT !.status = "running", !.dispatch = "leased",
                              !.lease = "null"]
               ELSE [@ EXCEPT !.status = "running"]]

\* Mutant: a dispatch status the schema does not know.
Settled_Typo(row, s) ==
  IF row.mode = "local"
  THEN [row EXCEPT !.status = s, !.dispatch = "complete", !.lease = "null"]
  ELSE [row EXCEPT !.status = s]

\* The columns every terminal write leaves behind; connector_id is kept.
Settled(row, s) ==
  IF row.mode = "local"
  THEN [row EXCEPT !.status = s, !.dispatch = "returned", !.lease = "null"]
  ELSE [row EXCEPT !.status = s]

\* Complete and Fail have no status guard either.
Complete(r) == run' = [run EXCEPT ![r] = Settled(@, "completed")]
Fail(r) == run' = [run EXCEPT ![r] = Settled(@, "failed")]

\* Mutant: no status guard, like Complete and Fail.
CancelIfActive_Always(r) ==
  /\ run[r].status # "absent"
  /\ run' = [run EXCEPT ![r] = Settled(@, "cancelled")]

CancelIfActive(r) ==
  /\ run[r].status \in Active
  /\ run' = [run EXCEPT ![r] = Settled(@, "cancelled")]

\* GetLeasedLocalConnectorRun, and the WHERE clause of the two writes below.
HoldsLease(c, r) ==
  /\ run[r].mode = "local"
  /\ run[r].status = "running"
  /\ run[r].dispatch = "leased"
  /\ run[r].connector = c
  /\ run[r].lease = "live"

CompleteLocalConnectorRun(r, c) ==
  /\ HoldsLease(c, r)
  /\ run' = [run EXCEPT ![r] = Settled(@, "completed")]

FailLocalConnectorRun(r, c) ==
  /\ HoldsLease(c, r)
  /\ run' = [run EXCEPT ![r] = Settled(@, "failed")]

\* Mutant: a pinned run is left to the connector it is pinned to.
LeaseExpired_Unpinned(row) ==
  /\ row.mode = "local"
  /\ row.status = "running"
  /\ row.dispatch = "leased"
  /\ row.lease = "lapsed"
  /\ row.target = None

LeaseExpired(row) ==
  /\ row.mode = "local"
  /\ row.status = "running"
  /\ row.dispatch = "leased"
  /\ row.lease = "lapsed"

\* Mutant: the holder is not cleared.
SweepExpiredLeases_KeepsHolder ==
  run' = [r \in Runs |->
            IF LeaseExpired(run[r])
            THEN [run[r] EXCEPT !.status = "queued", !.dispatch = "expired",
                                !.lease = "null"]
            ELSE run[r]]

\* First statement of LeaseNextLocalConnectorRunForProtocol: every expired
\* lease, of every user, goes back to the queue.
SweepExpiredLeases ==
  run' = [r \in Runs |->
            IF LeaseExpired(run[r])
            THEN [run[r] EXCEPT !.status = "queued", !.dispatch = "expired",
                                !.connector = None, !.lease = "null"]
            ELSE run[r]]

\* Its second statement: the runs connector c may be handed ...
MayRun(c, row) ==
  /\ row.user = Owner[c]
  /\ Protocol[c] < 1 => ~ row.bound
  /\ row.target \in {None, c}

\* Mutant: no account filter.
Claimable_AnyAccount(c, r) ==
  /\ run[r].mode = "local"
  /\ run[r].status = "queued"
  /\ run[r].dispatch \in {"queued", "expired"}
  /\ Protocol[c] < 1 => ~ run[r].bound
  /\ run[r].target \in {None, c}

\* Mutant: a requeued run is not offered again.
Claimable_NeverExpired(c, r) ==
  /\ run[r].mode = "local"
  /\ run[r].status = "queued"
  /\ run[r].dispatch = "queued"
  /\ MayRun(c, run[r])

Claimable(c, r) ==
  /\ run[r].mode = "local"
  /\ run[r].status = "queued"
  /\ run[r].dispatch \in {"queued", "expired"}
  /\ MayRun(c, run[r])

\* Mutant: ORDER BY created_at DESC.
LeaseNext_Newest(r, c) ==
  /\ Claimable(c, r)
  /\ \A s \in Runs : s > r => ~ Claimable(c, s)
  /\ run' = [run EXCEPT ![r] =
               [@ EXCEPT !.status = "running", !.dispatch = "leased",
                         !.connector = c, !.lease = "live"]]

\* ... of which it leases the oldest.
LeaseNext(r, c) ==
  /\ Claimable(c, r)
  /\ \A s \in Runs : s < r => ~ Claimable(c, s)
  /\ run' = [run EXCEPT ![r] =
               [@ EXCEPT !.status = "running", !.dispatch = "leased",
                         !.connector = c, !.lease = "live"]]

\* The clock passes lease_expires_at.
LeaseLapse(r) ==
  /\ run[r].lease = "live"
  /\ run' = [run EXCEPT ![r] = [@ EXCEPT !.lease = "lapsed"]]
  /\ UNCHANGED <<agent, drafts, revoked>>

-----------------------------------------------------------------------------
(* agent_runs, backlog_candidates, local_connectors                        *)

\* Create starts every row as running; an existing row is returned as it is.
CreateOrGetByIdempotency(r) ==
  agent' = [agent EXCEPT ![r] = IF @ = "none" THEN "running" ELSE @]

UpdateAgentRun(r, s) == agent' = [agent EXCEPT ![r] = s]

CreateDraftsForPlanningRun(r, author) ==
  drafts' = [drafts EXCEPT ![r] = @ \cup {author}]

\* Deletes by planning_run_id: whoever wrote them.
DeleteByPlanningRun(r) == drafts' = [drafts EXCEPT ![r] = {}]

Revoke(c) ==
  /\ c \notin revoked
  /\ revoked' = revoked \cup {c}
  /\ UNCHANGED <<run, agent, drafts>>
=============================================================================
