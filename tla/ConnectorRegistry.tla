------------------------- MODULE ConnectorRegistry -------------------------
(***************************************************************************)
(* What the connector registry promises: pairing sessions and connector    *)
(* rows changed by operations that take effect at one instant, in          *)
(* store/local_connector_store.go.  `ConnectorLink` is the code's version, *)
(* in which an operation is a transaction that reads the row, computes the *)
(* whole metadata document and writes it back.                             *)
(***************************************************************************)
EXTENDS CliConfigs, ProbeRequests

CONSTANTS Connectors, Sessions, None

ASSUME ConnectorAssumption == None \notin Connectors

VARIABLES session,   \* session[s]: status and connector_id
          row,       \* row[c]: status and metadata of a connector
          minted     \* probe ids drawn so far

registryVars == <<session, row, minted>>

Row == [status : {"none", "pending", "online", "revoked"},
        pending : SUBSET Request, results : SUBSET Answer, configs : Seq(Config)]

Exists(c) == row[c].status # "none"

Doc(r) == [pending |-> r.pending, results |-> r.results]
WithDoc(r, doc) == [r EXCEPT !.pending = doc.pending, !.results = doc.results]

NoRow == [status |-> "none", pending |-> {}, results |-> {}, configs |-> <<>>]

RegistryInit ==
  /\ session = [s \in Sessions |-> [status |-> "none", connector |-> None]]
  /\ row = [c \in Connectors |-> NoRow]
  /\ minted = 0

-----------------------------------------------------------------------------
(* What one operation makes of the row it has read                         *)

\* Mutant: the token of a revoked connector is still accepted.
MayHeartbeat_Any(r) == r.status # "none"

MayHeartbeat(r) == r.status \notin {"none", "revoked"}

HeartbeatRow(r, reports, old) ==
  [WithDoc(r, GcOldProbeResults(FoldProbeResults(Doc(r), reports), old))
     EXCEPT !.status = "online"]

EnqueueRow(r, p, b, old) ==
  WithDoc(r, GcOldProbeResults(EnqueueCliProbe(Doc(r), p, b), old))

ScrubRow(r, b) == WithDoc(r, ScrubCliProbes(Doc(r), b))

\* Probes stay: only the configurations are removed.
RevokeRow(r) == [r EXCEPT !.status = "revoked", !.configs = <<>>]

\* The rows the four configuration requests may leave behind; a revoked
\* connector refuses them.
ConfigRows(r) ==
  {[r EXCEPT !.configs = cs] :
     cs \in IF r.status \in {"none", "revoked"} THEN {} ELSE EditedCliConfigs(r.configs)}

-----------------------------------------------------------------------------
CreatePairingSession(s) ==
  /\ session[s].status = "none"
  /\ session' = [session EXCEPT ![s].status = "pending"]
  /\ UNCHANGED <<row, minted>>

ClaimPairingSession(s, c) ==
  /\ session[s].status = "pending"
  /\ ~ Exists(c)
  /\ session' = [session EXCEPT ![s] = [status |-> "claimed", connector |-> c]]
  /\ row' = [row EXCEPT ![c].status = "pending"]
  /\ UNCHANGED minted

Heartbeat(c, reports) ==
  /\ MayHeartbeat(row[c])
  /\ \E old \in SUBSET FoldProbeResults(Doc(row[c]), reports).results :
       row' = [row EXCEPT ![c] = HeartbeatRow(@, reports, old)]
  /\ UNCHANGED <<session, minted>>

\* Neither the status of the connector nor the binding is looked at.
Enqueue(c, b) ==
  /\ Exists(c)
  /\ InFlight(Doc(row[c]), b) = {}
  /\ CanEnqueue(Doc(row[c]), b)
  /\ minted + 1 \in Probes
  /\ minted' = minted + 1
  /\ \E old \in SUBSET row[c].results :
       row' = [row EXCEPT ![c] = EnqueueRow(@, minted + 1, b, old)]
  /\ UNCHANGED session

\* All connectors of the user at once, except one that is paired meanwhile.
Scrub(cs, b) ==
  /\ row' = [c \in Connectors |-> IF c \in cs THEN ScrubRow(row[c], b) ELSE row[c]]
  /\ UNCHANGED <<session, minted>>

Revoke(c) ==
  /\ Exists(c)
  /\ row' = [row EXCEPT ![c] = RevokeRow(@)]
  /\ UNCHANGED <<session, minted>>

EditConfigs(c) ==
  /\ \E r \in ConfigRows(row[c]) : row' = [row EXCEPT ![c] = r]
  /\ UNCHANGED <<session, minted>>

RegistryNext ==
  \/ \E s \in Sessions : \/ CreatePairingSession(s)
                         \/ \E c \in Connectors : ClaimPairingSession(s, c)
  \/ \E c \in Connectors : \/ \E reports \in Reports : Heartbeat(c, reports)
                           \/ \E b \in Bindings : Enqueue(c, b)
                           \/ Revoke(c)
                           \/ EditConfigs(c)
  \/ \E cs \in SUBSET Connectors, b \in Bindings : Scrub(cs, b)

RegistrySpec == RegistryInit /\ [][RegistryNext]_registryVars
=============================================================================
