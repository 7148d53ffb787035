--------------------------- MODULE ConnectorLink ---------------------------
(***************************************************************************)
(* Connectors and their registry: the requests of users and daemons as     *)
(* transactions on connector rows (store/local_connector_store.go,         *)
(* handlers/local_connectors.go, handlers/account_bindings.go), and the    *)
(* probe pipeline of the daemon (connector/service.go).                    *)
(*                                                                         *)
(* A request is asked, locks the rows it reads (SELECT ... FOR UPDATE, or  *)
(* BEGIN IMMEDIATE on SQLite) and commits what it computes from them.      *)
(***************************************************************************)
EXTENDS ConnectorRegistry

CONSTANTS Txs,      \* slots for requests in progress at the server
          Live,     \* the connectors whose machine runs the daemon
          Faults    \* whether requests and replies fail and daemons restart

VARIABLES tx,        \* tx[t]: the request in slot t
          lapsed,    \* the sessions whose expires_at has passed
          binding,   \* the account bindings that exist
          daemon     \* daemon[c]: the process that was paired as c

linkVars == <<registryVars, tx, lapsed, binding, daemon>>

\* A request: what it brings with it, and the rows it has read.
NoRows == [c \in {} |-> NoRow]
NoTx == [op |-> "none"]
PairRequest(s, c) == [op |-> "pair", stage |-> "asked", session |-> s, connector |-> c]
ProbeRequest(c, b) ==
  [op |-> "enqueue", stage |-> "asked", connector |-> c, binding |-> b, seen |-> NoRows]
ScrubRequest(b) == [op |-> "scrub", stage |-> "asked", binding |-> b, seen |-> NoRows]
HeartbeatRequest(c, reports) ==
  [op |-> "heartbeat", stage |-> "asked", connector |-> c, reports |-> reports, seen |-> NoRows]

Seen == UNION {[cs -> Row] : cs \in SUBSET Connectors}
Tx == {NoTx}
      \cup [op : {"pair"}, stage : {"asked", "locked", "reply"},
            session : Sessions, connector : Connectors]
      \cup [op : {"enqueue"}, stage : {"asked", "locked"},
            connector : Connectors, binding : Bindings, seen : Seen]
      \cup [op : {"scrub"}, stage : {"asked", "locked"}, binding : Bindings, seen : Seen]
      \cup [op : {"heartbeat"}, stage : {"asked", "locked", "reply"},
            connector : Connectors, reports : Reports, seen : Seen]
      \cup [op : {"revoke", "configs"}, stage : {"locked"}, connector : Connectors, seen : Seen]

\* token: the pairing reply arrived.  queue: probes announced and not begun.
\* known: pendingProbeIDs.  working: the probe the worker executes.  out:
\* results for the next heartbeat, sent: results in the open one, in slot call.
Daemon == [token : BOOLEAN, queue : Seq(Probes), known : SUBSET Probes,
           working : Probes \cup {None}, out : Reports, sent : Reports,
           call : Txs \cup {None}]

NoReports == [p \in {} |-> TRUE]

NewDaemon(token) ==
  [token |-> token, queue |-> <<>>, known |-> {}, working |-> None,
   out |-> NoReports, sent |-> NoReports, call |-> None]

Init ==
  /\ RegistryInit
  /\ tx = [t \in Txs |-> NoTx]
  /\ lapsed = {}
  /\ binding = Bindings
  /\ daemon = [c \in Connectors |-> NewDaemon(FALSE)]

Free(t) == tx[t].op = "none"
End(t) == tx' = [tx EXCEPT ![t] = NoTx]

Ask(t, request) ==
  /\ Free(t)
  /\ tx' = [tx EXCEPT ![t] = request]

-----------------------------------------------------------------------------
(* Requests                                                                *)

\* Ten minutes pass.
SessionExpires(s) ==
  /\ session[s].status = "pending"
  /\ lapsed' = lapsed \cup {s}
  /\ UNCHANGED <<registryVars, tx, binding, daemon>>

Pair(t, s, c) ==
  /\ ~ Exists(c)
  /\ \A u \in Txs : tx[u].op = "pair" => tx[u].connector # c   \* a new uuid
  /\ Ask(t, PairRequest(s, c))
  /\ UNCHANGED <<registryVars, lapsed, binding, daemon>>

\* ProbeBinding reads the binding before the transaction.
ProbeBinding(t, c, b) ==
  /\ Exists(c)
  /\ b \in binding
  /\ Ask(t, ProbeRequest(c, b))
  /\ UNCHANGED <<registryVars, lapsed, binding, daemon>>

\* The binding is deleted first, its probes are scrubbed by a request of its own.
DeleteBinding(t, b) ==
  /\ b \in binding
  /\ binding' = binding \ {b}
  /\ Ask(t, ScrubRequest(b))
  /\ UNCHANGED <<registryVars, lapsed, daemon>>

\* The main loop: the results are drained into the request.
SendHeartbeat(t, c) ==
  /\ c \in Live
  /\ daemon[c].token
  /\ daemon[c].call = None
  /\ Ask(t, HeartbeatRequest(c, daemon[c].out))
  /\ daemon' = [daemon EXCEPT ![c].sent = daemon[c].out, ![c].out = NoReports, ![c].call = t]
  /\ UNCHANGED <<registryVars, lapsed, binding>>

-----------------------------------------------------------------------------
(* Transactions                                                            *)

Locked(u) == tx[u].op # "none" /\ tx[u].stage = "locked"

LockedRows == UNION {DOMAIN tx[u].seen : u \in {v \in Txs : Locked(v) /\ tx[v].op # "pair"}}

RowsOf(t) ==
  IF tx[t].op = "scrub" THEN {c \in Connectors : Exists(c)} ELSE {tx[t].connector}

\* Requests that bring nothing with them are asked and locked in one step.
LockRow(t, c, op) ==
  /\ Exists(c)
  /\ Free(t)
  /\ c \notin LockedRows
  /\ tx' = [tx EXCEPT ![t] = [op |-> op, stage |-> "locked", connector |-> c,
                              seen |-> [x \in {c} |-> row[x]]]]
  /\ UNCHANGED <<registryVars, lapsed, binding, daemon>>

\* Mutant: SELECT without FOR UPDATE.
LockRows_Shared(t) ==
  /\ ~ Free(t)
  /\ tx[t].stage = "asked"
  /\ tx[t].op # "pair"
  /\ tx' = [tx EXCEPT ![t].stage = "locked", ![t].seen = [c \in RowsOf(t) |-> row[c]]]
  /\ UNCHANGED <<registryVars, lapsed, binding, daemon>>

LockRows(t) ==
  /\ ~ Free(t)
  /\ tx[t].stage = "asked"
  /\ tx[t].op # "pair"
  /\ RowsOf(t) \cap LockedRows = {}
  /\ tx' = [tx EXCEPT ![t].stage = "locked", ![t].seen = [c \in RowsOf(t) |-> row[c]]]
  /\ UNCHANGED <<registryVars, lapsed, binding, daemon>>

Claimable(s) == session[s].status = "pending" /\ s \notin lapsed

\* Mutant: the session is read without a lock.
LockSession_Shared(t) ==
  /\ tx[t].op = "pair"
  /\ tx[t].stage = "asked"
  /\ Claimable(tx[t].session)
  /\ tx' = [tx EXCEPT ![t].stage = "locked"]
  /\ UNCHANGED <<registryVars, lapsed, binding, daemon>>

\* The code is looked up by its hash among the pending, unexpired sessions.
LockSession(t) ==
  /\ tx[t].op = "pair"
  /\ tx[t].stage = "asked"
  /\ Claimable(tx[t].session)
  /\ \A u \in Txs : Locked(u) /\ tx[u].op = "pair" => tx[u].session # tx[t].session
  /\ tx' = [tx EXCEPT ![t].stage = "locked"]
  /\ UNCHANGED <<registryVars, lapsed, binding, daemon>>

\* What the transaction read.
Read(t) == tx[t].seen[tx[t].connector]

Write(c, r) == row' = [row EXCEPT ![c] = r]

\* Nothing compares the session with the clock again.
CommitPair(t) ==
  LET s == tx[t].session  c == tx[t].connector IN
  /\ tx[t].op = "pair"
  /\ Locked(t)
  /\ session' = [session EXCEPT ![s] = [status |-> "claimed", connector |-> c]]
  /\ row' = [row EXCEPT ![c].status = "pending"]
  /\ tx' = [tx EXCEPT ![t].stage = "reply"]
  /\ UNCHANGED <<minted, lapsed, binding, daemon>>

CommitHeartbeat(t) ==
  /\ tx[t].op = "heartbeat"
  /\ Locked(t)
  /\ MayHeartbeat(Read(t))
  /\ \E old \in SUBSET FoldProbeResults(Doc(Read(t)), tx[t].reports).results :
       Write(tx[t].connector, HeartbeatRow(Read(t), tx[t].reports, old))
  /\ tx' = [tx EXCEPT ![t].stage = "reply"]
  /\ UNCHANGED <<session, minted, lapsed, binding, daemon>>

\* The request for a binding that is being probed gets the probe in flight.
CommitEnqueue(t) ==
  LET doc == Doc(Read(t))  b == tx[t].binding IN
  /\ tx[t].op = "enqueue"
  /\ Locked(t)
  /\ \/ /\ InFlight(doc, b) # {} \/ ~ CanEnqueue(doc, b)
        /\ UNCHANGED <<row, minted>>
     \/ /\ InFlight(doc, b) = {}
        /\ CanEnqueue(doc, b)
        /\ minted + 1 \in Probes
        /\ minted' = minted + 1
        /\ \E old \in SUBSET doc.results :
             Write(tx[t].connector, EnqueueRow(Read(t), minted + 1, b, old))
  /\ End(t)
  /\ UNCHANGED <<session, lapsed, binding, daemon>>

CommitScrub(t) ==
  /\ tx[t].op = "scrub"
  /\ Locked(t)
  /\ row' = [c \in Connectors |->
               IF c \in DOMAIN tx[t].seen THEN ScrubRow(tx[t].seen[c], tx[t].binding) ELSE row[c]]
  /\ End(t)
  /\ UNCHANGED <<session, minted, lapsed, binding, daemon>>

CommitRevoke(t) ==
  /\ tx[t].op = "revoke"
  /\ Locked(t)
  /\ Write(tx[t].connector, RevokeRow(Read(t)))
  /\ End(t)
  /\ UNCHANGED <<session, minted, lapsed, binding, daemon>>

CommitConfigs(t) ==
  /\ tx[t].op = "configs"
  /\ Locked(t)
  /\ \E r \in ConfigRows(Read(t)) : Write(tx[t].connector, r)
  /\ End(t)
  /\ UNCHANGED <<session, minted, lapsed, binding, daemon>>

-----------------------------------------------------------------------------
(* The daemon                                                              *)

Merged(newer, older) ==
  [p \in DOMAIN newer \cup DOMAIN older |-> IF p \in DOMAIN newer THEN newer[p] ELSE older[p]]

\* Mutant: the slot of the failed call is never given back.
CallFailed_NoReset(d) == [d EXCEPT !.out = Merged(d.out, d.sent), !.sent = NoReports]

\* A call that fails: its results go back in front of the newer ones.
CallFailed(d) == [d EXCEPT !.out = Merged(d.out, d.sent), !.sent = NoReports, !.call = None]

\* Probes in the order in which they were asked for.
InOrder(ps) ==
  {q \in [1 .. Cardinality(ps) -> ps] : \A i, j \in DOMAIN q : i < j => q[i] < q[j]}

\* Probes announced in the reply that are neither queued nor running.
News(d, pending) == Ids(pending) \ d.known

Announced(d, news) ==
  [d EXCEPT !.known = @ \cup {news[i] : i \in DOMAIN news}, !.queue = @ \o news,
            !.sent = NoReports, !.call = None]

\* Another request may have changed the row since the commit: the reply is a new read.
HeartbeatReply(t) ==
  LET c == tx[t].connector IN
  /\ tx[t].op = "heartbeat"
  /\ tx[t].stage = "reply"
  /\ IF daemon[c].call = t
     THEN \E news \in InOrder(News(daemon[c], row[c].pending)) :
            daemon' = [daemon EXCEPT ![c] = Announced(@, news)]
     ELSE UNCHANGED daemon
  /\ End(t)
  /\ UNCHANGED <<registryVars, lapsed, binding>>

PairReply(t) ==
  /\ tx[t].op = "pair"
  /\ tx[t].stage = "reply"
  /\ daemon' = [daemon EXCEPT ![tx[t].connector].token = TRUE]
  /\ End(t)
  /\ UNCHANGED <<registryVars, lapsed, binding>>

\* The daemon that waits for slot t, if one does, gets an error.
Answered(t) ==
  [c \in Connectors |-> IF daemon[c].call = t THEN CallFailed(daemon[c]) ELSE daemon[c]]

\* A revoked connector is refused: the daemon goes on with its loop.
RefuseHeartbeat(t) ==
  /\ tx[t].op = "heartbeat"
  /\ Locked(t)
  /\ ~ MayHeartbeat(Read(t))
  /\ daemon' = Answered(t)
  /\ End(t)
  /\ UNCHANGED <<registryVars, lapsed, binding>>

\* A wrong, used or expired code.
RefusePair(t) ==
  /\ tx[t].op = "pair"
  /\ tx[t].stage = "asked"
  /\ ~ Claimable(tx[t].session)
  /\ End(t)
  /\ UNCHANGED <<registryVars, lapsed, binding, daemon>>

\* A configuration request that the row does not allow.
RefuseConfigs(t) ==
  /\ tx[t].op = "configs"
  /\ Locked(t)
  /\ ConfigRows(Read(t)) = {}
  /\ End(t)
  /\ UNCHANGED <<registryVars, lapsed, binding, daemon>>

\* An error, or a restart of the server: the transaction is rolled back or, when
\* it has committed, only its reply is lost.
RequestFails(t) ==
  /\ Faults
  /\ ~ Free(t)
  /\ daemon' = Answered(t)
  /\ End(t)
  /\ UNCHANGED <<registryVars, lapsed, binding>>

\* The client gives up; the server works on.
CallTimesOut(c) ==
  /\ Faults
  /\ daemon[c].call # None
  /\ daemon' = [daemon EXCEPT ![c] = CallFailed(@)]
  /\ UNCHANGED <<registryVars, tx, lapsed, binding>>

WorkerTakes(c) ==
  LET d == daemon[c] IN
  /\ d.working = None
  /\ d.queue # <<>>
  /\ daemon' = [daemon EXCEPT ![c].working = Head(d.queue), ![c].queue = Tail(d.queue)]
  /\ UNCHANGED <<registryVars, tx, lapsed, binding>>

\* The result is handed over, then the probe is forgotten: a heartbeat that was
\* sent before announces it again.
WorkerDone(c, ok) ==
  LET d == daemon[c] IN
  /\ d.working # None
  /\ daemon' = [daemon EXCEPT ![c].working = None,
                              ![c].known = @ \ {d.working},
                              ![c].out = Merged([p \in {d.working} |-> ok], @)]
  /\ UNCHANGED <<registryVars, tx, lapsed, binding>>

\* Everything but the state file is lost.
DaemonRestarts(c) ==
  /\ Faults
  /\ daemon[c] # NewDaemon(daemon[c].token)
  /\ daemon' = [daemon EXCEPT ![c] = NewDaemon(@.token)]
  /\ UNCHANGED <<registryVars, tx, lapsed, binding>>

-----------------------------------------------------------------------------
Users ==
  \/ \E s \in Sessions : \/ CreatePairingSession(s) /\ UNCHANGED <<tx, lapsed, binding, daemon>>
                         \/ SessionExpires(s)
  \/ \E t \in Txs : \/ \E s \in Sessions, c \in Connectors : Pair(t, s, c)
                    \/ \E c \in Connectors, b \in Bindings : ProbeBinding(t, c, b)
                    \/ \E b \in Bindings : DeleteBinding(t, b)
                    \/ \E c \in Connectors, op \in {"revoke", "configs"} : LockRow(t, c, op)

Lock(t) == LockRows(t) \/ LockSession(t) \/ RefusePair(t)

Commit(t) ==
  \/ CommitPair(t)
  \/ CommitHeartbeat(t)
  \/ CommitEnqueue(t)
  \/ CommitScrub(t)
  \/ CommitRevoke(t)
  \/ CommitConfigs(t)
  \/ RefuseHeartbeat(t)
  \/ RefuseConfigs(t)

Reply(t) == HeartbeatReply(t) \/ PairReply(t)

Worker(c) == WorkerTakes(c) \/ \E ok \in BOOLEAN : WorkerDone(c, ok)

Mishap ==
  \/ \E t \in Txs : RequestFails(t)
  \/ \E c \in Connectors : CallTimesOut(c) \/ DaemonRestarts(c)

Next ==
  \/ Users
  \/ \E t \in Txs : Lock(t) \/ Commit(t) \/ Reply(t)
  \/ \E t \in Txs, c \in Connectors : SendHeartbeat(t, c)
  \/ \E c \in Connectors : Worker(c)
  \/ Mishap

Safety == Init /\ [][Next]_linkVars

-----------------------------------------------------------------------------
(* Invariants                                                              *)

TypeOK ==
  /\ session \in [Sessions -> [status : {"none", "pending", "claimed"},
                               connector : Connectors \cup {None}]]
  /\ row \in [Connectors -> Row]
  /\ minted \in Nat
  /\ lapsed \subseteq Sessions
  /\ binding \subseteq Bindings
  /\ daemon \in [Connectors -> Daemon]
  /\ tx \in [Txs -> Tx]

\* Whatever daemons report twice, late or after a restart, and whatever users
\* enqueue and delete meanwhile, a connector has one probe entry per binding.
OneProbePerBinding == \A c \in Connectors : OneEntryPerBinding(Doc(row[c]))

\* One pairing code makes one connector, also when two machines present it at
\* the same time: every connector is the one its session names.
CodeUsedOnce ==
  \A c \in Connectors : Exists(c) => \E s \in Sessions : session[s].connector = c

\* The configurations keep exactly one primary, unique labels and the cap
\* under concurrent edits and heartbeats, which rewrite the same document; a
\* revoked connector keeps none, so nothing is inherited.
ConfigsCoherent ==
  \A c \in Connectors :
    /\ CoherentConfigs(row[c].configs)
    /\ row[c].status = "revoked" => row[c].configs = <<>>

(* Action properties                                                       *)

\* A heartbeat in progress never brings a revoked connector back.
RevokedIsFinal ==
  [][\A c \in Connectors : row[c].status = "revoked" => row'[c].status = "revoked"]_linkVars

\* A probe id that was answered, evicted or scrubbed never reappears, and an
\* answer never changes: a daemon that executes a probe twice does not
\* overwrite what the user has seen.
AnswersAreFinal ==
  [][\A c \in Connectors, p \in 1 .. minted :
       /\ p \notin Ids(row[c].pending) => p \notin Ids(row'[c].pending)
       /\ p \notin Ids(row[c].pending) =>
            {r \in row'[c].results : r.probe = p} \subseteq row[c].results]_linkVars

\* The transactions, as they interleave, implement operations that take effect
\* at one instant: no heartbeat, probe or configuration is lost to another.
ImplementsRegistry == RegistrySpec

-----------------------------------------------------------------------------
(* Liveness: requests run to their end, daemons keep sending heartbeats and *)
(* their workers execute what is queued.  A slot is always free in the     *)
(* code, hence strong fairness for sending.                                *)

Fairness ==
  /\ \A t \in Txs : SF_linkVars(Lock(t)) /\ WF_linkVars(Commit(t)) /\ WF_linkVars(Reply(t))
  /\ \A c \in Connectors : /\ SF_linkVars(\E t \in Txs : SendHeartbeat(t, c))
                            /\ WF_linkVars(Worker(c))

Spec == Safety /\ Fairness

\* If failures stop, every probe of a connector whose daemon has its token is
\* taken off the pending list: answered, unless it is scrubbed, superseded or
\* the connector is revoked.
ProbesAreAnswered ==
  <>[][~ Mishap]_linkVars =>
    \A c \in Connectors, p \in Probes :
      (p \in Ids(row[c].pending) /\ daemon[c].token /\ c \in Live)
        ~> (p \notin Ids(row[c].pending) \/ row[c].status = "revoked")
=============================================================================
