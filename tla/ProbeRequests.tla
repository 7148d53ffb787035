--------------------------- MODULE ProbeRequests ---------------------------
(***************************************************************************)
(* The CLI probes in a connector's metadata document, as functions of the  *)
(* document before to the document after: store/local_connector_store.go   *)
(* EnqueueCliProbe, foldProbeResultsInto, gcOldProbeResults,               *)
(* ScrubCliProbesForBinding.  `pending` are the requests not yet answered, *)
(* `results` the answers; probe ids are drawn in the order 1, 2, ...       *)
(***************************************************************************)
EXTENDS Integers, FiniteSets

CONSTANTS Probes,             \* probe ids
          Bindings,           \* account bindings with a CLI
          MaxPendingProbes    \* maxPendingProbesPerConnector, 64 in the code

ASSUME ProbeRequestsAssumption == MaxPendingProbes \in Nat /\ Probes \subseteq Nat \ {0}

Request == [probe : Probes, binding : Bindings]
Answer == [probe : Probes, binding : Bindings, ok : BOOLEAN]

\* What a heartbeat reports: an outcome for some probes.  Of two results for one
\* probe in the list that is sent, the later one counts.
Reports == UNION {[ps -> BOOLEAN] : ps \in SUBSET Probes}

Ids(entries) == {e.probe : e \in entries}

Of(entries, b) == {e \in entries : e.binding = b}

\* Mutant: also takes results for probes that have been answered.
FoldProbeResults_Unsolicited(doc, reports) ==
  LET accepted == {e \in doc.pending \cup doc.results : e.probe \in DOMAIN reports}
  IN  [doc EXCEPT !.pending = {e \in @ : e.probe \notin DOMAIN reports},
                  !.results = {r \in @ : r.probe \notin Ids(accepted)}
                                \cup {[probe |-> e.probe, binding |-> e.binding,
                                       ok |-> reports[e.probe]] : e \in accepted}]

\* A result answers a pending request or is ignored.
FoldProbeResults(doc, reports) ==
  LET accepted == {e \in doc.pending : e.probe \in DOMAIN reports}
  IN  [doc EXCEPT !.pending = @ \ accepted,
                  !.results = {r \in @ : r.probe \notin Ids(accepted)}
                                \cup {[probe |-> e.probe, binding |-> e.binding,
                                       ok |-> reports[e.probe]] : e \in accepted}]

\* Which results are older than 24 hours is up to the clocks: the completion
\* time is the daemon's.
GcOldProbeResults(doc, old) == [doc EXCEPT !.results = @ \ old]

\* A request for a binding whose probe is still in flight gets that probe.
InFlight(doc, b) == {e \in Of(doc.pending, b) : e.probe \notin Ids(doc.results)}

CanEnqueue(doc, b) == Cardinality(doc.pending \ Of(doc.pending, b)) < MaxPendingProbes

\* Mutant: the previous answer for the binding stays.
EnqueueCliProbe_KeepsResults(doc, p, b) ==
  [doc EXCEPT !.pending = (@ \ Of(@, b)) \cup {[probe |-> p, binding |-> b]}]

EnqueueCliProbe(doc, p, b) ==
  [doc EXCEPT !.pending = (@ \ Of(@, b)) \cup {[probe |-> p, binding |-> b]},
              !.results = @ \ Of(@, b)]

ScrubCliProbes(doc, b) ==
  [doc EXCEPT !.pending = @ \ Of(@, b), !.results = @ \ Of(@, b)]

-----------------------------------------------------------------------------
\* A binding has one entry in the document, a request or an answer: a poll for
\* a fresh probe never meets an earlier outcome, and no probe is both.
OneEntryPerBinding(doc) ==
  /\ \A e, f \in doc.pending \cup doc.results : e.binding = f.binding => e = f
  /\ Ids(doc.pending) \cap Ids(doc.results) = {}
=============================================================================
