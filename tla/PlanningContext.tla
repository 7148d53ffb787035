--------------------------- MODULE PlanningContext ---------------------------
(***************************************************************************)
(* The picture of the project a planning run is given: five queries one    *)
(* after the other (planning/context_builder.go), while the project goes   *)
(* on changing, and the reduction of what they return to a number of bytes *)
(* (planning/wire/reducer.go).  The connector route is a daemon's claim    *)
(* (handlers/local_connectors.go), which also keeps a snapshot; the egress *)
(* route is the request to a model (openai_compatible_provider.go).        *)
(*                                                                         *)
(* A source is the number of its items, the best-ranked first: only the    *)
(* last one is ever dropped.                                               *)
(***************************************************************************)
EXTENDS Integers, Sequences

CONSTANTS NoBuild,
          SourceLimit,      \* the number of items a query of each source keeps
          SampleLimit,      \* the number of items a model is sent of a list
          MaxRows,          \* bound: items of each source in the project
          MaxScans,         \* bound: repository syncs
          Sizes,            \* the byte lengths to try: sizes[s][n] of n items of s
          Scaffolding,      \* bytes of the braces and names around the lists
          SyncKeyBytes,     \* and of the name of the scan, left out when there is none
          MaxSourcesBytes

\* Mutant: the scan is read before the signals it may yet raise.
ReadOrder_ScanFirst ==
  <<"open_tasks", "recent_documents", "latest_sync_run", "open_drift_signals",
    "recent_agent_runs">>

\* The order of the queries.
ReadOrder ==
  <<"open_tasks", "recent_documents", "open_drift_signals", "latest_sync_run",
    "recent_agent_runs">>

\* The order in which the reducer measures: the first of the largest is cut.
MeasureOrder ==
  <<"open_tasks", "recent_documents", "open_drift_signals", "latest_sync_run",
    "recent_agent_runs">>

ContextSources ==
  {"open_tasks", "recent_documents", "open_drift_signals", "latest_sync_run",
   "recent_agent_runs"}

Place(s) == CHOOSE i \in 1 .. 5 : MeasureOrder[i] = s

\* An empty source is "[]" or "null", shorter than any item.
ASSUME PlanningContextAssumption ==
  /\ SourceLimit \in [ContextSources -> Nat]
  /\ MaxRows \in [ContextSources -> Nat]
  /\ SampleLimit \in Nat /\ MaxScans \in Nat
  /\ Scaffolding \in Nat /\ SyncKeyBytes \in Nat
  /\ MaxSourcesBytes \in Nat \ {0}
  /\ \A z \in Sizes :
       /\ DOMAIN z = ContextSources
       /\ \A s \in ContextSources :
            /\ z[s] \in [0 .. SourceLimit[s] -> Nat]
            /\ \A n \in 1 .. SourceLimit[s] :
                 /\ z[s][n - 1] < z[s][n]
                 /\ \A r \in ContextSources : z[r][0] < z[s][n]

VARIABLES rows,      \* rows[s]: items a query of s would find
          scans,     \* syncs started so far
          signalled, \* the newest of them that raised a signal
          sizes,     \* the byte lengths of this project's items
          build,     \* the context being built, if any
          snapshot   \* whether planning_context_snapshots has a row for the run

contextVars == <<rows, scans, signalled, sizes, build, snapshot>>

Routes == {"connector", "egress"}

NothingRead == [s \in ContextSources |-> 0]

\* next: the query to make.  read: what the queries returned.  given, kept and
\* dropped: what the reducer got and made of it.  sent: what is in the request to a
\* model.  signalsOf, syncOf: the newest scan behind the signals read, and the one
\* that was read.
Started(route) ==
  [pc |-> "read", route |-> route, next |-> 1, read |-> NothingRead, given |-> NothingRead,
   kept |-> NothingRead, dropped |-> NothingRead, sent |-> NothingRead, warned |-> {},
   signalsOf |-> 0, syncOf |-> 0]

ContextInit ==
  /\ rows \in {n \in [ContextSources -> 0 .. 1] : n["latest_sync_run"] = 0
                                                /\ n["open_drift_signals"] = 0}
  /\ scans = 0 /\ signalled = 0
  /\ sizes \in Sizes
  /\ build = NoBuild /\ snapshot = FALSE

-----------------------------------------------------------------------------
(* The project changes; once all has been read it makes no difference      *)

Unread == build # NoBuild => build.pc = "read"

ItemAppears(s) ==
  /\ Unread
  /\ s \notin {"latest_sync_run", "open_drift_signals"}
  /\ rows[s] < MaxRows[s]
  /\ rows' = [rows EXCEPT ![s] = @ + 1]
  /\ UNCHANGED <<scans, signalled, sizes, build, snapshot>>

ItemGoes(s) ==
  /\ Unread
  /\ s # "latest_sync_run" /\ rows[s] > 0
  /\ rows' = [rows EXCEPT ![s] = @ - 1]
  /\ UNCHANGED <<scans, signalled, sizes, build, snapshot>>

ScanStarts ==
  /\ Unread
  /\ scans < MaxScans
  /\ scans' = scans + 1
  /\ rows' = [rows EXCEPT !["latest_sync_run"] = 1]
  /\ UNCHANGED <<signalled, sizes, build, snapshot>>

ScanRaisesSignal ==
  /\ Unread
  /\ scans > 0 /\ rows["open_drift_signals"] < MaxRows["open_drift_signals"]
  /\ signalled' = scans
  /\ rows' = [rows EXCEPT !["open_drift_signals"] = @ + 1]
  /\ UNCHANGED <<scans, sizes, build, snapshot>>

-----------------------------------------------------------------------------
(* The queries: BuildWithWarnings                                          *)

\* A daemon has claimed the run, or the server generates for it.
BuildStarts(route) ==
  /\ build = NoBuild
  /\ build' = Started(route)
  /\ UNCHANGED <<rows, scans, signalled, sizes, snapshot>>

Querying == build # NoBuild /\ build.pc = "read"

Least(a, b) == IF a < b THEN a ELSE b

QuerySucceeds ==
  /\ Querying
  /\ LET s == ReadOrder[build.next]
         n == Least(rows[s], SourceLimit[s])
         read == [build EXCEPT !.next = @ + 1, !.read[s] = n, !.given[s] = n, !.kept[s] = n,
                               !.pc = IF build.next = 5 THEN "sanitize" ELSE "read"]
     IN  \/ /\ s = "open_drift_signals" /\ n > 0
            /\ \E scan \in 1 .. signalled : build' = [read EXCEPT !.signalsOf = scan]
         \/ s = "latest_sync_run" /\ build' = [read EXCEPT !.syncOf = scans]
         \/ s # "latest_sync_run" /\ (s = "open_drift_signals" => n = 0) /\ build' = read
  /\ UNCHANGED <<rows, scans, signalled, sizes, snapshot>>

\* A source that fails is replaced by a warning, ...
QueryFails ==
  /\ Querying /\ build.next > 1
  /\ build' = [build EXCEPT !.next = @ + 1,
                            !.warned = @ \union {ReadOrder[build.next]},
                            !.pc = IF build.next = 5 THEN "sanitize" ELSE "read"]
  /\ UNCHANGED <<rows, scans, signalled, sizes, snapshot>>

\* ... except the tasks: the daemon gets no context, the server run fails.
TaskQueryFails ==
  /\ Querying /\ build.next = 1
  /\ build' = NoBuild
  /\ UNCHANGED <<rows, scans, signalled, sizes, snapshot>>

-----------------------------------------------------------------------------
(* BuildContextV1 and sanitizeForOpenAIEgress                              *)

Unsanitized(route) == build # NoBuild /\ build.pc = "sanitize" /\ build.route = route

\* The texts are redacted and shortened.
BuildContextV1 ==
  /\ Unsanitized("connector")
  /\ build' = [build EXCEPT !.pc = "reduce"]
  /\ UNCHANGED <<rows, scans, signalled, sizes, snapshot>>

\* For a model the reducer gets a sample of the documents, and no warnings.
SanitizeForOpenAIEgress ==
  /\ Unsanitized("egress")
  /\ LET sample == Least(build.kept["recent_documents"], SampleLimit)
     IN  build' = [build EXCEPT !.pc = "reduce", !.warned = {},
                                !.given["recent_documents"] = sample,
                                !.kept["recent_documents"] = sample]
  /\ UNCHANGED <<rows, scans, signalled, sizes, snapshot>>

SourceByteLen(n, s) == sizes[s][n[s]]

\* A missing scan measures "null" among the sources and nothing in their sum.
SourcesByteLen(n) ==
  Scaffolding + SourceByteLen(n, "open_tasks") + SourceByteLen(n, "recent_documents")
    + SourceByteLen(n, "open_drift_signals") + SourceByteLen(n, "recent_agent_runs")
    + IF n["latest_sync_run"] = 0 THEN 0 ELSE SyncKeyBytes + SourceByteLen(n, "latest_sync_run")

\* Mutant: the source with the most items.
LargestSource_ByCount(n) ==
  CHOOSE s \in ContextSources : \A r \in ContextSources : n[s] >= n[r]

LargestSource(n) ==
  CHOOSE s \in ContextSources :
    \A r \in ContextSources \ {s} :
      \/ SourceByteLen(n, s) > SourceByteLen(n, r)
      \/ SourceByteLen(n, s) = SourceByteLen(n, r) /\ Place(s) < Place(r)

Reducing == build # NoBuild /\ build.pc = "reduce"

\* One round of ReduceSources.
DropLastFromSource ==
  /\ Reducing
  /\ SourcesByteLen(build.kept) > MaxSourcesBytes
  /\ LET s == LargestSource(build.kept)
     IN  /\ build.kept[s] > 0
         /\ build' = [build EXCEPT !.kept[s] = @ - 1, !.dropped[s] = @ + 1]
  /\ UNCHANGED <<rows, scans, signalled, sizes, snapshot>>

\* It fits, or nothing is left to drop.
ReductionEnds ==
  /\ Reducing
  /\ \/ SourcesByteLen(build.kept) <= MaxSourcesBytes
     \/ build.kept[LargestSource(build.kept)] = 0
  /\ build' = [build EXCEPT !.pc = "built"]
  /\ UNCHANGED <<rows, scans, signalled, sizes, snapshot>>

Built == build # NoBuild /\ build.pc = "built"

\* Before the response; the context is also delivered when its snapshot could
\* not be saved.
SaveContextSnapshot(saved) ==
  /\ Built
  /\ build.route = "connector"
  /\ build' = [build EXCEPT !.pc = "recorded"]
  /\ snapshot' = (snapshot \/ saved)
  /\ UNCHANGED <<rows, scans, signalled, sizes>>

\* The request to a model: the reduced lists are cut once more, to a sample each,
\* and some of the agent runs, own, are the planner's and left out; the counts of
\* what was dropped stay those of the reducer.
CompactFromWire ==
  /\ Built
  /\ build.route = "egress"
  /\ \E own \in 0 .. build.kept["recent_agent_runs"] :
       build' = [build EXCEPT !.pc = "compacted",
         !.sent = [s \in ContextSources |->
                     IF s = "latest_sync_run" THEN build.kept[s]
                     ELSE IF s = "recent_agent_runs" THEN Least(build.kept[s] - own, SampleLimit)
                     ELSE Least(build.kept[s], SampleLimit)]]
  /\ UNCHANGED <<rows, scans, signalled, sizes, snapshot>>

Deliver ==
  /\ build # NoBuild
  /\ build.pc = IF build.route = "connector" THEN "recorded" ELSE "compacted"
  /\ build' = NoBuild
  /\ UNCHANGED <<rows, scans, signalled, sizes, snapshot>>

ContextNext ==
  \/ \E s \in ContextSources : ItemAppears(s) \/ ItemGoes(s)
  \/ ScanStarts
  \/ ScanRaisesSignal
  \/ \E route \in Routes : BuildStarts(route)
  \/ QuerySucceeds
  \/ QueryFails
  \/ TaskQueryFails
  \/ BuildContextV1
  \/ SanitizeForOpenAIEgress
  \/ DropLastFromSource
  \/ ReductionEnds
  \/ \E saved \in BOOLEAN : SaveContextSnapshot(saved)
  \/ CompactFromWire
  \/ Deliver

ContextSpec == ContextInit /\ [][ContextNext]_contextVars

-----------------------------------------------------------------------------
\* "Items are dropped one at a time from whichever source currently has the
\* largest marshaled byte length": what the reducer leaves fits, or there is
\* nothing left; nothing is dropped without need, or from one source for the sake
\* of another: of each source that lost items, the last one lost would not have
\* fitted ..., and the source had been at least as large with it as every other
\* source still is.
ReducedFairly ==
  /\ SourcesByteLen(build.kept) <= MaxSourcesBytes \/ build.kept = NothingRead
  /\ \A s \in ContextSources :
       /\ build.kept[s] + build.dropped[s] = build.given[s]
       /\ build.dropped[s] > 0 =>
            LET restored == [build.kept EXCEPT ![s] = @ + 1] IN
            \A r \in ContextSources :
              SourceByteLen(restored, s) >= SourceByteLen(restored, r)
  /\ build.dropped # NothingRead =>
       \E s \in ContextSources :
         /\ build.dropped[s] > 0
         /\ SourcesByteLen([build.kept EXCEPT ![s] = @ + 1]) > MaxSourcesBytes

\* A daemon gets every item that was read, or its count.  A model gets a sample of
\* what was read; the counts it is told explain what its sample is short of, except
\* for the agent runs, some of which are the planner's own.
ShortageIsCounted ==
  \A s \in ContextSources :
    /\ build.route = "connector" => build.kept[s] + build.dropped[s] = build.read[s]
    /\ build.pc = "compacted" /\ s # "recent_agent_runs"
         => build.sent[s] >= Least(build.read[s], SampleLimit) \/ build.dropped[s] > 0

\* What is delivered is cut fairly, and what the cut took is told.
CutIsFair ==
  build # NoBuild /\ build.pc \in {"built", "compacted"} => ReducedFairly /\ ShortageIsCounted

\* The signals are queried before the scan, so a context never shows a signal of
\* a later scan than the one it shows, whatever scans run in between.
SignalsBehindScan ==
  Built /\ build.kept["open_drift_signals"] > 0 /\ build.kept["latest_sync_run"] > 0
    => build.signalsOf <= build.syncOf
=============================================================================
