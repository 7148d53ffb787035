----------------------------- MODULE TaskDispatch -----------------------------
(***************************************************************************)
(* Role-dispatch tasks on their way through the connectors: the handlers   *)
(* ClaimNextTask and SubmitTaskResult (internal/handlers/                  *)
(* connector_dispatch.go), requeueing, and RunOnceTask of the daemon       *)
(* (internal/connector/service.go).  Unlike a planning run, a task records *)
(* neither the connector that claimed it nor a lease.                      *)
(***************************************************************************)
EXTENDS TaskStore

CONSTANTS
  Connectors,
  Reach,          \* the projects a connector's owner is a member of
  Posts,          \* concurrent result requests
  StaleDrainCap,  \* stale tasks one claim request fails at most
  Losses          \* whether daemons may crash or messages be lost

ASSUME TaskDispatchAssumption ==
  /\ Reach \in [Connectors -> SUBSET Projects]
  /\ StaleDrainCap \in Nat \ {0}
  /\ Losses \in BOOLEAN

VARIABLES
  work,     \* the task each daemon is executing, or None
  drained,  \* stale tasks failed by the open claim request, -1 if none is open
  post      \* the result request in each slot

taskDispatchVars == <<work, drained, post>>

Post == [pc : {"idle", "check", "write"}, c : Connectors \cup {None},
         t : Tasks \cup {None}, ok : BOOLEAN, result : {"null", "output"}]

NoPost == [pc |-> "idle", c |-> None, t |-> None, ok |-> FALSE, result |-> "null"]

TaskDispatchTypeOK ==
  /\ work \in [Connectors -> Tasks \cup {None}]
  /\ drained \in [Connectors -> -1 .. StaleDrainCap - 1]
  /\ post \in [Posts -> Post]

TaskDispatchInit ==
  /\ work = [c \in Connectors |-> None]
  /\ drained = [c \in Connectors |-> -1]
  /\ post = [h \in Posts |-> NoPost]

-----------------------------------------------------------------------------
(* claim-next-task: each iteration of the loop is a transaction            *)

InClaim(c) == drained[c] >= 0

EndClaim(c) == drained' = [drained EXCEPT ![c] = -1]

\* One polling round of RunOnceTask: authentication.
ClaimOpen(c) ==
  /\ work[c] = None
  /\ ~ InClaim(c)
  /\ drained' = [drained EXCEPT ![c] = 0]
  /\ UNCHANGED <<task, catalog, work, post>>

\* Mutant: the stale task is skipped over, not failed.
ClaimStale_Kept(c, t) ==
  /\ InClaim(c)
  /\ OldestQueued(t, Reach[c])
  /\ task[t].role \notin catalog
  /\ drained' = [drained EXCEPT ![c] = IF @ + 1 >= StaleDrainCap THEN -1 ELSE @ + 1]
  /\ UNCHANGED <<task, catalog, work, post>>

\* Mutant: the cap is one too high.
ClaimStale_CapOffByOne(c, t) ==
  /\ InClaim(c)
  /\ OldestQueued(t, Reach[c])
  /\ task[t].role \notin catalog
  /\ task' = [task EXCEPT ![t].dispatch = "failed", ![t].result = "error"]
  /\ drained' = [drained EXCEPT ![c] = IF @ + 1 > StaleDrainCap THEN -1 ELSE @ + 1]
  /\ UNCHANGED <<catalog, work, post>>

\* The oldest task names a role that is no longer known: fail it and look
\* again, or give up for this round at the cap.
ClaimStale(c, t) ==
  /\ InClaim(c)
  /\ OldestQueued(t, Reach[c])
  /\ task[t].role \notin catalog
  /\ task' = [task EXCEPT ![t].dispatch = "failed", ![t].result = "error"]
  /\ drained' = [drained EXCEPT ![c] = IF @ + 1 >= StaleDrainCap THEN -1 ELSE @ + 1]
  /\ UNCHANGED <<catalog, work, post>>

ClaimTake(c, t) ==
  /\ InClaim(c)
  /\ OldestQueued(t, Reach[c])
  /\ task[t].role \in catalog
  /\ MarkRunning(t)
  /\ EndClaim(c)
  /\ \/ work' = [work EXCEPT ![c] = t]
     \/ Losses /\ UNCHANGED work         \* the reply is lost
  /\ UNCHANGED <<catalog, post>>

ClaimEmpty(c) ==
  /\ InClaim(c)
  /\ \A t \in Tasks : ~ OldestQueued(t, Reach[c])
  /\ EndClaim(c)
  /\ UNCHANGED <<task, catalog, work, post>>

TaskClaimStep(c) ==
  \/ ClaimOpen(c) \/ ClaimEmpty(c)
  \/ \E t \in Tasks : ClaimStale(c, t) \/ ClaimTake(c, t)

-----------------------------------------------------------------------------
(* Executing and posting the result                                        *)

\* The request of this repository's daemon: a success carries the JSON it has
\* parsed.  The server would take a success without a result as well.
Posted(c, ok) ==
  [pc |-> "check", c |-> c, t |-> work[c], ok |-> ok,
   result |-> IF ok THEN "output" ELSE "null"]

\* Mutant: the daemon posts again when it has no answer.
PostTaskResult_Retries(c, h, ok) ==
  /\ work[c] # None
  /\ post[h].pc = "idle"
  /\ post' = [post EXCEPT ![h] = Posted(c, ok)]
  /\ UNCHANGED <<task, catalog, work, drained>>

\* Every way through RunOnceTask after the claim posts once, success or
\* failure, and never again; the daemon goes on even if the reply is missing.
PostTaskResult(c, h, ok) ==
  /\ work[c] # None
  /\ post[h].pc = "idle"
  /\ post' = [post EXCEPT ![h] = Posted(c, ok)]
  /\ work' = [work EXCEPT ![c] = None]
  /\ UNCHANGED <<task, catalog, drained>>

\* The daemon dies, or its request never arrives.
LoseTask(c) ==
  /\ Losses
  /\ work[c] # None
  /\ work' = [work EXCEPT ![c] = None]
  /\ UNCHANGED <<task, catalog, drained, post>>

TaskDaemonStep(c) ==
  \/ LoseTask(c)
  \/ \E h \in Posts, ok \in BOOLEAN : PostTaskResult(c, h, ok)

Acceptable(h) ==
  /\ Live(post[h].t)
  /\ task[post[h].t].project \in Reach[post[h].c]
  /\ task[post[h].t].dispatch = "running"

\* Ownership and status are read here ...
ResultCheck(h) ==
  /\ post[h].pc = "check"
  /\ post' = [post EXCEPT ![h] = IF Acceptable(h) THEN [@ EXCEPT !.pc = "write"]
                                                  ELSE NoPost]
  /\ UNCHANGED <<task, catalog, work, drained>>

\* ... and the status is written here without looking again.  A failure is
\* recorded as JSON of its own, a success with what the request carries.
ResultWrite(h) ==
  /\ post[h].pc = "write"
  /\ UpdateDispatchStatus(post[h].t, Reach[post[h].c],
                          IF post[h].ok THEN "completed" ELSE "failed",
                          IF post[h].ok THEN post[h].result ELSE "error")
  /\ post' = [post EXCEPT ![h] = NoPost]
  /\ UNCHANGED <<catalog, work, drained>>

ResultStep(h) == ResultCheck(h) \/ ResultWrite(h)

-----------------------------------------------------------------------------
(* Users                                                                   *)

Requeue(t) == RequeueDispatchTask(t) /\ UNCHANGED <<catalog, taskDispatchVars>>
=============================================================================
