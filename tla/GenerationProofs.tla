-------------------------- MODULE GenerationProofs --------------------------
(***************************************************************************)
(* Proofs about what a planning run is given and what it suggests:         *)
(* PlanningContext for any number of items, any byte lengths, limits and   *)
(* scans, and SuggestionRanking for any requirements and any number of     *)
(* duplicates and agent runs.                                              *)
(***************************************************************************)
EXTENDS PlanningContext, SuggestionRanking, FiniteSetTheorems, TLAPS

Counts == [ContextSources -> Nat]

Build == [pc : {"read", "sanitize", "reduce", "built", "recorded", "compacted"},
          route : Routes, next : 1 .. 6, read : Counts, given : Counts, kept : Counts,
          dropped : Counts, sent : Counts,
          warned : SUBSET ContextSources, signalsOf : Nat, syncOf : Nat]

ContextTypeOK ==
  /\ rows \in Counts
  /\ scans \in Nat
  /\ signalled \in Nat
  /\ sizes \in Sizes
  /\ build # NoBuild => build \in Build

\* No signal is older than the newest scan.
SignalsHaveScans ==
  /\ signalled <= scans
  /\ build # NoBuild => build.signalsOf <= scans

\* A scan is read after the signals, and is then at least as new.
ScanReadLast ==
  build # NoBuild =>
    /\ build.pc = "read" => build.next <= 5
    /\ build.pc = "read" /\ build.next <= 4 => build.kept["latest_sync_run"] = 0
    /\ build.kept["latest_sync_run"] > 0 => build.signalsOf <= build.syncOf

\* Every item read is kept or dropped, and no query exceeds its limit.
NothingVanishes ==
  build # NoBuild =>
    /\ \A s \in ContextSources :
         build.kept[s] + build.dropped[s] = build.given[s] /\ build.given[s] <= SourceLimit[s]
    /\ build.pc \in {"read", "sanitize"} => build.dropped = NothingRead

\* The reducer gets all that was read, except for the documents a model is sent.
Given(b, s) ==
  IF b.route = "egress" /\ b.pc \notin {"read", "sanitize"} /\ s = "recent_documents"
  THEN Least(b.read[s], SampleLimit) ELSE b.read[s]

\* What the request to a model takes of it.
Sent(b, s) == IF s = "latest_sync_run" THEN b.kept[s] ELSE Least(b.kept[s], SampleLimit)

ReadIsGiven ==
  build # NoBuild =>
    /\ \A s \in ContextSources : build.given[s] = Given(build, s)
    /\ build.pc = "compacted" =>
         \A s \in ContextSources \ {"recent_agent_runs"} : build.sent[s] = Sent(build, s)

\* A source that lost an item was, with it, as large as every other still is.
LargestLoses(b) ==
  \A s \in ContextSources : b.dropped[s] > 0 =>
    \A r \in ContextSources \ {s} : sizes[s][b.kept[s] + 1] >= sizes[r][b.kept[r]]

\* The last item dropped had to go.
NoNeedlessCut(b) ==
  b.dropped # NothingRead =>
    \E s \in ContextSources :
      b.dropped[s] > 0 /\ SourcesByteLen([b.kept EXCEPT ![s] = @ + 1]) > MaxSourcesBytes

Fits(b) == SourcesByteLen(b.kept) <= MaxSourcesBytes \/ b.kept = NothingRead

CutSoFar ==
  build # NoBuild =>
    /\ LargestLoses(build)
    /\ NoNeedlessCut(build)
    /\ build.pc \in {"built", "recorded", "compacted"} => Fits(build)

\* The inductive invariant.
ContextInv ==
  /\ ContextTypeOK
  /\ SignalsHaveScans
  /\ ScanReadLast
  /\ NothingVanishes
  /\ ReadIsGiven
  /\ CutSoFar

-----------------------------------------------------------------------------
(* Lemmas about byte lengths                                               *)

LEMMA SizesGrow ==
  ASSUME sizes \in Sizes
  PROVE  \A s \in ContextSources :
           /\ sizes[s] \in [0 .. SourceLimit[s] -> Nat]
           /\ SourceLimit[s] \in Nat
           /\ \A n \in 1 .. SourceLimit[s] :
                /\ sizes[s][n - 1] < sizes[s][n]
                /\ \A r \in ContextSources : sizes[r][0] < sizes[s][n]
  BY PlanningContextAssumption

Bounded(n) == \A s \in ContextSources : n[s] \in 0 .. SourceLimit[s]

\* The chosen source is as large as every other one (largestSource).
LEMMA LargestIsLargest ==
  ASSUME sizes \in Sizes, NEW n \in Counts, Bounded(n)
  PROVE  /\ LargestSource(n) \in ContextSources
         /\ \A r \in ContextSources : sizes[LargestSource(n)][n[LargestSource(n)]] >= sizes[r][n[r]]
<1> DEFINE Beats(s, r) == \/ SourceByteLen(n, s) > SourceByteLen(n, r)
                          \/ SourceByteLen(n, s) = SourceByteLen(n, r) /\ Place(s) < Place(r)
<1>1. \A s \in ContextSources : SourceByteLen(n, s) \in Nat
  BY SizesGrow DEF SourceByteLen, Bounded
<1>2. /\ Place("open_tasks") = 1 /\ Place("recent_documents") = 2
      /\ Place("open_drift_signals") = 3 /\ Place("latest_sync_run") = 4
      /\ Place("recent_agent_runs") = 5
  BY DEF Place, MeasureOrder
<1>3. \E s \in ContextSources : \A r \in ContextSources \ {s} : Beats(s, r)
  <2> DEFINE a == SourceByteLen(n, "open_tasks")
             b == SourceByteLen(n, "recent_documents")
             c == SourceByteLen(n, "open_drift_signals")
             d == SourceByteLen(n, "latest_sync_run")
             e == SourceByteLen(n, "recent_agent_runs")
  <2>1. a \in Nat /\ b \in Nat /\ c \in Nat /\ d \in Nat /\ e \in Nat
    BY <1>1 DEF ContextSources
  <2> HIDE DEF a, b, c, d, e
  <2>2. \/ a >= b /\ a >= c /\ a >= d /\ a >= e
        \/ b > a /\ b >= c /\ b >= d /\ b >= e
        \/ c > a /\ c > b /\ c >= d /\ c >= e
        \/ d > a /\ d > b /\ d > c /\ d >= e
        \/ e > a /\ e > b /\ e > c /\ e > d
    BY <2>1
  <2>3. CASE a >= b /\ a >= c /\ a >= d /\ a >= e
    <3>1. \A r \in ContextSources \ {"open_tasks"} : Beats("open_tasks", r)
      BY <1>2, <2>1, <2>3 DEF ContextSources, a, b, c, d, e
    <3> QED
      BY <3>1 DEF ContextSources
  <2>4. CASE b > a /\ b >= c /\ b >= d /\ b >= e
    <3>1. \A r \in ContextSources \ {"recent_documents"} : Beats("recent_documents", r)
      BY <1>2, <2>1, <2>4 DEF ContextSources, a, b, c, d, e
    <3> QED
      BY <3>1 DEF ContextSources
  <2>5. CASE c > a /\ c > b /\ c >= d /\ c >= e
    <3>1. \A r \in ContextSources \ {"open_drift_signals"} : Beats("open_drift_signals", r)
      BY <1>2, <2>1, <2>5 DEF ContextSources, a, b, c, d, e
    <3> QED
      BY <3>1 DEF ContextSources
  <2>6. CASE d > a /\ d > b /\ d > c /\ d >= e
    <3>1. \A r \in ContextSources \ {"latest_sync_run"} : Beats("latest_sync_run", r)
      BY <1>2, <2>1, <2>6 DEF ContextSources, a, b, c, d, e
    <3> QED
      BY <3>1 DEF ContextSources
  <2>7. CASE e > a /\ e > b /\ e > c /\ e > d
    <3>1. \A r \in ContextSources \ {"recent_agent_runs"} : Beats("recent_agent_runs", r)
      BY <1>2, <2>1, <2>7 DEF ContextSources, a, b, c, d, e
    <3> QED
      BY <3>1 DEF ContextSources
  <2> QED
    BY <2>2, <2>3, <2>4, <2>5, <2>6, <2>7
<1>4. LargestSource(n) = CHOOSE s \in ContextSources : \A r \in ContextSources \ {s} : Beats(s, r)
  BY DEF LargestSource
<1> HIDE DEF Beats
<1>5. /\ LargestSource(n) \in ContextSources
      /\ \A r \in ContextSources \ {LargestSource(n)} : Beats(LargestSource(n), r)
  BY <1>3, <1>4
<1>6. \A s, r \in ContextSources : Beats(s, r) => SourceByteLen(n, s) >= SourceByteLen(n, r)
  BY <1>1 DEF Beats
<1>7. \A r \in ContextSources : SourceByteLen(n, LargestSource(n)) >= SourceByteLen(n, r)
  BY <1>1, <1>5, <1>6
<1> QED
  BY <1>5, <1>7 DEF SourceByteLen

\* When the largest source is empty, all are.
LEMMA EmptyLargest ==
  ASSUME sizes \in Sizes, NEW n \in Counts, Bounded(n), n[LargestSource(n)] = 0
  PROVE  n = NothingRead
<1>1. \A r \in ContextSources : n[r] = 0
  <2> SUFFICES ASSUME NEW r \in ContextSources, n[r] # 0 PROVE FALSE
    OBVIOUS
  <2> DEFINE s == LargestSource(n)
  <2>1. s \in ContextSources /\ sizes[s][0] >= sizes[r][n[r]]
    BY LargestIsLargest
  <2>2. n[r] \in 1 .. SourceLimit[r]
    BY SizesGrow DEF Bounded, Counts
  <2>3. sizes[s][0] < sizes[r][n[r]] /\ sizes[s][0] \in Nat /\ sizes[r][n[r]] \in Nat
    <3>1. s \in ContextSources
      BY <2>1
    <3> HIDE DEF s
    <3>2. sizes[s][0] < sizes[r][n[r]]
      BY <2>2, <3>1, SizesGrow
    <3>3. /\ sizes[s] \in [0 .. SourceLimit[s] -> Nat] /\ SourceLimit[s] \in Nat
          /\ sizes[r] \in [0 .. SourceLimit[r] -> Nat] /\ SourceLimit[r] \in Nat
      BY <3>1, SizesGrow
    <3>4. QED
      BY <2>2, <3>2, <3>3
  <2> QED
    BY <2>1, <2>3
<1> QED
  BY <1>1 DEF NothingRead, Counts

\* One round of the reducer keeps what CutIsFair asks for (ReduceSources).
LEMMA RoundIsFair ==
  ASSUME ContextInv, DropLastFromSource
  PROVE  /\ build # NoBuild /\ build' \in Build
         /\ build'.pc = "reduce" /\ build'.signalsOf = build.signalsOf
         /\ build'.syncOf = build.syncOf /\ build'.given = build.given
         /\ build'.read = build.read /\ build'.route = build.route
         /\ \A s \in ContextSources : /\ build'.kept[s] <= build.kept[s]
                                      /\ build'.kept[s] + build'.dropped[s] = build.given[s]
         /\ LargestLoses(build') /\ NoNeedlessCut(build')
<1> DEFINE s == LargestSource(build.kept)
           kept == [build.kept EXCEPT ![s] = @ - 1]
           dropped == [build.dropped EXCEPT ![s] = @ + 1]
<1>1. /\ build # NoBuild /\ build \in Build /\ sizes \in Sizes /\ sizes' = sizes
      /\ build.kept \in Counts /\ build.dropped \in Counts /\ build.given \in Counts
      /\ build.pc = "reduce"
      /\ build.kept[s] > 0
      /\ SourcesByteLen(build.kept) > MaxSourcesBytes
      /\ build' = [build EXCEPT !.kept = kept, !.dropped = dropped]
  BY DEF DropLastFromSource, Reducing, ContextInv, ContextTypeOK, Build
<1>2. Bounded(build.kept)
  BY <1>1, SizesGrow DEF ContextInv, NothingVanishes, Bounded, Counts
<1>3. /\ s \in ContextSources
      /\ \A r \in ContextSources : sizes[s][build.kept[s]] >= sizes[r][build.kept[r]]
  BY <1>1, <1>2, LargestIsLargest
<1> HIDE DEF s
<1>4. /\ kept \in Counts /\ dropped \in Counts
      /\ kept[s] = build.kept[s] - 1 /\ dropped[s] = build.dropped[s] + 1
      /\ \A r \in ContextSources \ {s} : kept[r] = build.kept[r] /\ dropped[r] = build.dropped[r]
  BY <1>1, <1>3 DEF Counts
<1>5. [kept EXCEPT ![s] = @ + 1] = build.kept
  BY <1>1, <1>3, <1>4 DEF Counts
<1>6. \A r \in ContextSources :
        /\ sizes[r][build.kept[r]] \in Nat
        /\ sizes[r][kept[r]] \in Nat
        /\ sizes[r][kept[r]] <= sizes[r][build.kept[r]]
        /\ build.kept[r] + 1 <= SourceLimit[r] => sizes[r][build.kept[r] + 1] \in Nat
  <2> SUFFICES ASSUME NEW r \in ContextSources
      PROVE  /\ sizes[r][build.kept[r]] \in Nat
             /\ sizes[r][kept[r]] \in Nat
             /\ sizes[r][kept[r]] <= sizes[r][build.kept[r]]
             /\ build.kept[r] + 1 <= SourceLimit[r] => sizes[r][build.kept[r] + 1] \in Nat
    OBVIOUS
  <2>1. build.kept[r] \in 0 .. SourceLimit[r] /\ SourceLimit[r] \in Nat
        /\ sizes[r] \in [0 .. SourceLimit[r] -> Nat]
    BY <1>1, <1>2, SizesGrow DEF Bounded
  <2>2. build.kept[r] > 0 => /\ sizes[r][build.kept[r] - 1] < sizes[r][build.kept[r]]
                             /\ sizes[r][build.kept[r] - 1] \in Nat
    <3> DEFINE m == build.kept[r]
    <3>1. \A n \in 1 .. SourceLimit[r] : sizes[r][n - 1] < sizes[r][n]
      BY <1>1, SizesGrow DEF ContextInv, ContextTypeOK
    <3>2. m \in 0 .. SourceLimit[r] /\ SourceLimit[r] \in Nat
          /\ sizes[r] \in [0 .. SourceLimit[r] -> Nat]
      BY <2>1
    <3> HIDE DEF m
    <3>3. m > 0 => sizes[r][m - 1] < sizes[r][m] /\ sizes[r][m - 1] \in Nat
      BY <3>1, <3>2
    <3>4. QED
      BY <3>3 DEF m
  <2>3. kept[r] = build.kept[r] \/ (build.kept[r] > 0 /\ kept[r] = build.kept[r] - 1)
    BY <1>1, <1>4
  <2> DEFINE m == build.kept[r]
             p == kept[r]
  <2>4. /\ m \in 0 .. SourceLimit[r] /\ SourceLimit[r] \in Nat
        /\ sizes[r] \in [0 .. SourceLimit[r] -> Nat]
        /\ m > 0 => sizes[r][m - 1] < sizes[r][m] /\ sizes[r][m - 1] \in Nat
        /\ p = m \/ (m > 0 /\ p = m - 1)
    BY <2>1, <2>2, <2>3
  <2> HIDE DEF m, p
  <2>5. /\ sizes[r][m] \in Nat /\ sizes[r][p] \in Nat
        /\ sizes[r][p] <= sizes[r][m]
        /\ m + 1 <= SourceLimit[r] => sizes[r][m + 1] \in Nat
    <3>1. sizes[r][m] \in Nat
      BY <2>4
    <3>2. m + 1 <= SourceLimit[r] => sizes[r][m + 1] \in Nat
      BY <2>4
    <3>3. sizes[r][p] \in Nat /\ sizes[r][p] <= sizes[r][m]
      BY <2>4, <3>1
    <3>4. QED
      BY <3>1, <3>2, <3>3
  <2> QED
    BY <2>5 DEF m, p
<1> HIDE DEF kept, dropped
<1>7. build'.kept = kept /\ build'.dropped = dropped /\ build'.given = build.given
      /\ build'.read = build.read /\ build'.route = build.route
      /\ build'.pc = build.pc /\ build'.signalsOf = build.signalsOf /\ build'.syncOf = build.syncOf
  BY <1>1 DEF Build
<1>8. build' \in Build
  BY <1>1, <1>4 DEF Build
<1>9. \A r \in ContextSources : /\ kept[r] <= build.kept[r]
                                /\ kept[r] + dropped[r] = build.given[r]
  BY <1>1, <1>3, <1>4 DEF ContextInv, NothingVanishes, Counts
<1>10. LargestLoses(build')
  <2> SUFFICES ASSUME NEW q \in ContextSources, dropped[q] > 0, NEW r \in ContextSources \ {q}
               PROVE  sizes[q][kept[q] + 1] >= sizes[r][kept[r]]
    BY <1>7 DEF LargestLoses
  <2>1. CASE q = s
    <3>1. kept[q] + 1 = build.kept[q]
      BY <1>1, <1>4, <2>1 DEF Counts
    <3> QED
      BY <1>3, <1>6, <2>1, <3>1
  <2>2. CASE q # s
    <3>1. kept[q] = build.kept[q] /\ build.dropped[q] > 0
      BY <1>4, <2>2
    <3>2. sizes[q][build.kept[q] + 1] >= sizes[r][build.kept[r]]
      BY <1>1, <3>1 DEF ContextInv, CutSoFar, LargestLoses
    <3>3. build.kept[q] + 1 <= SourceLimit[q]
      BY <1>1, <3>1, SizesGrow DEF ContextInv, NothingVanishes, Counts
    <3> QED
      BY <1>6, <3>1, <3>2, <3>3
  <2> QED
    BY <2>1, <2>2
<1>11. NoNeedlessCut(build')
  BY <1>1, <1>3, <1>4, <1>5, <1>7 DEF NoNeedlessCut, Counts
<1> QED
  BY <1>1, <1>7, <1>8, <1>9, <1>10, <1>11

-----------------------------------------------------------------------------
\* A context without items satisfies everything.
LEMMA NothingReadOK ==
  /\ NothingRead \in Counts
  /\ \A s \in ContextSources : NothingRead[s] = 0
  BY DEF NothingRead, Counts

\* No cut has happened before the reduction.
LEMMA UncutOK ==
  ASSUME NEW b, b.dropped = NothingRead
  PROVE  LargestLoses(b) /\ NoNeedlessCut(b)
  BY NothingReadOK DEF LargestLoses, NoNeedlessCut

LEMMA InitInv == ContextInit => ContextInv
<1> SUFFICES ASSUME ContextInit PROVE ContextInv
  OBVIOUS
<1>1. rows \in Counts
  BY DEF ContextInit, Counts
<1> QED
  BY <1>1 DEF ContextInit, ContextInv, ContextTypeOK, SignalsHaveScans, ScanReadLast,
              NothingVanishes, ReadIsGiven, CutSoFar

\* The project may change while the context is left alone, as long as scans and
\* signals come in order.
LEMMA ProjectChanges ==
  ASSUME ContextInv, UNCHANGED <<build, sizes>>, rows' \in Counts, scans' \in Nat,
         scans <= scans', signalled' \in Nat, signalled' <= scans'
  PROVE  ContextInv'
<1>1. ContextTypeOK' /\ ScanReadLast' /\ NothingVanishes' /\ ReadIsGiven'
  BY DEF ContextInv, ContextTypeOK, ScanReadLast, NothingVanishes, ReadIsGiven, Given, Sent
<1>2. SignalsHaveScans'
  <2>1. build # NoBuild => build.signalsOf \in Nat /\ build.signalsOf <= scans
    BY DEF ContextInv, ContextTypeOK, Build, SignalsHaveScans
  <2> QED
    BY <2>1 DEF ContextInv, ContextTypeOK
             , SignalsHaveScans
<1>3. CutSoFar'
  BY DEF ContextInv, CutSoFar, LargestLoses, NoNeedlessCut, Fits, SourcesByteLen, SourceByteLen
<1> QED
  BY <1>1, <1>2, <1>3 DEF ContextInv

\* There may be no context.
LEMMA BuildEnds ==
  ASSUME ContextInv, build' = NoBuild, UNCHANGED <<rows, scans, signalled, sizes>>
  PROVE  ContextInv'
  BY DEF ContextInv, ContextTypeOK, SignalsHaveScans, ScanReadLast, NothingVanishes, ReadIsGiven,
         CutSoFar

\* What is kept is a number the query could return.
LEMMA KeptIsBounded ==
  ASSUME ContextInv, build # NoBuild
  PROVE  Bounded(build.kept)
<1>1. build \in Build /\ sizes \in Sizes
  BY DEF ContextInv, ContextTypeOK
<1> QED
  BY <1>1, SizesGrow DEF ContextInv, NothingVanishes, Bounded, Counts, Build

\* Steps after the queries that neither drop nor keep anything.
LEMMA BuildPasses ==
  ASSUME ContextInv, build # NoBuild, build' \in Build, build'.pc \notin {"read", "sanitize"},
         UNCHANGED <<rows, scans, signalled, sizes>>,
         build'.given = build.given, build'.kept = build.kept, build'.dropped = build.dropped,
         build'.signalsOf = build.signalsOf, build'.syncOf = build.syncOf,
         build'.read = build.read, build'.route = build.route,
         build.pc \in {"read", "sanitize"} => build.route = "connector",
         build'.pc = "compacted" =>
           \A s \in ContextSources \ {"recent_agent_runs"} : build'.sent[s] = Sent(build, s),
         build'.pc \in {"built", "recorded", "compacted"} => Fits(build)
  PROVE  ContextInv'
<1>1. ContextTypeOK' /\ SignalsHaveScans' /\ ScanReadLast' /\ NothingVanishes'
  BY DEF ContextInv, ContextTypeOK, SignalsHaveScans, ScanReadLast, NothingVanishes
<1>2. CutSoFar'
  BY DEF ContextInv, CutSoFar, LargestLoses, NoNeedlessCut, Fits, SourcesByteLen, SourceByteLen
<1>3. ReadIsGiven'
  BY DEF ContextInv, ReadIsGiven, Given, Sent
<1> QED
  BY <1>1, <1>2, <1>3 DEF ContextInv

LEMMA ReadOrderIs ==
  \A i \in 1 .. 5 : /\ ReadOrder[i] \in ContextSources
                    /\ ReadOrder[i] = "open_drift_signals" <=> i = 3
                    /\ ReadOrder[i] = "latest_sync_run" <=> i = 4
  BY DEF ReadOrder, ContextSources

\* A query only touches its own source and comes before any cut.
LEMMA BuildReads ==
  ASSUME ContextInv, build # NoBuild, build.pc = "read", build' \in Build,
         UNCHANGED <<rows, scans, signalled, sizes>>,
         NEW n \in Nat, n <= SourceLimit[ReadOrder[build.next]],
         build'.next = build.next + 1,
         build'.pc = IF build.next = 5 THEN "sanitize" ELSE "read",
         build'.route = build.route,
         build'.read = [build.read EXCEPT ![ReadOrder[build.next]] = n],
         build'.given = [build.given EXCEPT ![ReadOrder[build.next]] = n],
         build'.kept = [build.kept EXCEPT ![ReadOrder[build.next]] = n],
         build'.dropped = build.dropped,
         build'.signalsOf = build.signalsOf \/ (build.next = 3 /\ build'.signalsOf <= signalled),
         build.next # 4 => build'.syncOf = build.syncOf,
         build.next = 4 => build'.syncOf = scans \/ n = 0
  PROVE  ContextInv'
<1> DEFINE s == ReadOrder[build.next]
<1>1. /\ build.next \in 1 .. 5 /\ s \in ContextSources
      /\ s = "latest_sync_run" <=> build.next = 4
      /\ build \in Build /\ build.dropped = NothingRead
  BY DEF ContextInv, ContextTypeOK, ScanReadLast, NothingVanishes, Build, ReadOrder,
         ContextSources
<1> HIDE DEF s
<1>2. /\ build'.kept[s] = n /\ build'.given[s] = n
      /\ \A r \in ContextSources \ {s} : /\ build'.kept[r] = build.kept[r]
                                         /\ build'.given[r] = build.given[r]
                                         /\ build'.read[r] = build.read[r]
      /\ build'.read[s] = n
  BY <1>1 DEF s, Build, Counts
<1>3. ContextTypeOK' /\ SignalsHaveScans'
  BY <1>1 DEF ContextInv, ContextTypeOK, SignalsHaveScans, Build
<1>4. ScanReadLast'
  <2>1. build'.pc = "read" => build'.next <= 5
    BY <1>1
  <2>2. ASSUME build'.pc = "read", build'.next <= 4 PROVE build'.kept["latest_sync_run"] = 0
    BY <1>1, <1>2, <2>2 DEF ContextInv, ScanReadLast, ContextSources
  <2>3. ASSUME build'.kept["latest_sync_run"] > 0 PROVE build'.signalsOf <= build'.syncOf
    <3>1. CASE build.next = 4
      BY <1>1, <1>2, <2>3, <3>1 DEF ContextInv, SignalsHaveScans
    <3>2. CASE build.next # 4
      BY <1>1, <1>2, <2>3, <3>2 DEF ContextInv, ScanReadLast, ContextSources
    <3> QED
      BY <3>1, <3>2
  <2> QED
    BY <2>1, <2>2, <2>3 DEF ScanReadLast
<1>5. NothingVanishes'
  BY <1>1, <1>2, NothingReadOK DEF ContextInv, NothingVanishes, s
<1>6. CutSoFar'
  <2>1. LargestLoses(build') /\ NoNeedlessCut(build')
    BY <1>1, UncutOK
  <2>2. CutSoFar' <=> (build' # NoBuild => LargestLoses(build') /\ NoNeedlessCut(build'))
    BY DEF CutSoFar, LargestLoses, NoNeedlessCut, SourcesByteLen, SourceByteLen
  <2> QED
    BY <2>1, <2>2
<1>7. ReadIsGiven'
  BY <1>1, <1>2 DEF ContextInv, ReadIsGiven, Given
<1> QED
  BY <1>3, <1>4, <1>5, <1>6, <1>7 DEF ContextInv

\* Every step preserves the invariant.
LEMMA StepInv == ContextInv /\ [ContextNext]_contextVars => ContextInv'
<1> SUFFICES ASSUME ContextInv, [ContextNext]_contextVars PROVE ContextInv'
  OBVIOUS
<1> USE PlanningContextAssumption
<1>1. CASE UNCHANGED contextVars
  BY <1>1, ProjectChanges DEF contextVars, ContextInv, ContextTypeOK, SignalsHaveScans
<1>2. ASSUME NEW s \in ContextSources, ItemAppears(s) \/ ItemGoes(s) PROVE ContextInv'
  <2>1. rows' \in Counts
    <3>1. rows \in [ContextSources -> Nat]
      BY DEF ContextInv, ContextTypeOK, Counts
    <3>2. CASE ItemAppears(s)
      BY <3>1, <3>2 DEF ItemAppears, Counts
    <3>3. CASE ItemGoes(s)
      BY <3>1, <3>3 DEF ItemGoes, Counts
    <3>4. QED
      BY <1>2, <3>2, <3>3
  <2> QED
    BY <1>2, <2>1, ProjectChanges
       DEF ItemAppears, ItemGoes, ContextInv, ContextTypeOK, SignalsHaveScans
<1>3. CASE ScanStarts
  <2>1. rows' \in Counts
    BY <1>3 DEF ScanStarts, ContextInv, ContextTypeOK, Counts
  <2>2. scans' \in Nat /\ scans <= scans' /\ signalled' \in Nat /\ signalled' <= scans'
        /\ UNCHANGED <<build, sizes>>
    BY <1>3 DEF ScanStarts, ContextInv, ContextTypeOK, SignalsHaveScans
  <2> QED
    BY <2>1, <2>2, ProjectChanges
<1>4. CASE ScanRaisesSignal
  <2>1. rows' \in Counts
    <3>1. rows' = [rows EXCEPT !["open_drift_signals"] = @ + 1]
      BY <1>4 DEF ScanRaisesSignal
    <3>2. rows \in [ContextSources -> Nat] /\ "open_drift_signals" \in ContextSources
      BY DEF ContextInv, ContextTypeOK, Counts, ContextSources
    <3>3. QED
      BY <3>1, <3>2 DEF Counts
  <2> QED
    BY <1>4, <2>1, ProjectChanges
       DEF ScanRaisesSignal, ContextInv, ContextTypeOK, SignalsHaveScans
<1>5. ASSUME NEW route \in Routes, BuildStarts(route) PROVE ContextInv'
  <2>1. build' = Started(route) /\ UNCHANGED <<rows, scans, signalled, sizes>>
    BY <1>5 DEF BuildStarts
  <2>2. build' \in Build
    BY <2>1, NothingReadOK DEF Started, Build
  <2>3. /\ build'.pc = "read" /\ build'.next = 1 /\ build'.given = NothingRead
        /\ build'.read = NothingRead /\ build'.kept = NothingRead /\ build'.dropped = NothingRead
        /\ build'.signalsOf = 0 /\ build'.syncOf = 0
    BY <2>1 DEF Started
  <2>4. ContextTypeOK' /\ SignalsHaveScans'
    BY <2>1, <2>2, <2>3 DEF ContextInv, ContextTypeOK, SignalsHaveScans
  <2>5. ScanReadLast' /\ NothingVanishes' /\ ReadIsGiven'
    BY <2>3, NothingReadOK DEF ScanReadLast, NothingVanishes, ReadIsGiven, Given, ContextSources
  <2>6. LargestLoses(build') /\ NoNeedlessCut(build')
    BY <2>3, UncutOK
  <2>7. CutSoFar'
    BY <2>1, <2>3, <2>6
       DEF CutSoFar, LargestLoses, NoNeedlessCut, SourcesByteLen, SourceByteLen
  <2> QED
    BY <2>4, <2>5, <2>7 DEF ContextInv
<1>6. CASE QuerySucceeds
  <2> DEFINE s == ReadOrder[build.next]
             n == Least(rows[s], SourceLimit[s])
             read == [build EXCEPT !.next = @ + 1, !.read[s] = n, !.given[s] = n, !.kept[s] = n,
                                   !.pc = IF build.next = 5 THEN "sanitize" ELSE "read"]
  <2>1. /\ build # NoBuild /\ build.pc = "read" /\ UNCHANGED <<rows, scans, signalled, sizes>>
        /\ \/ /\ s = "open_drift_signals"
              /\ \E scan \in 1 .. signalled : build' = [read EXCEPT !.signalsOf = scan]
           \/ s = "latest_sync_run" /\ build' = [read EXCEPT !.syncOf = scans]
           \/ s # "latest_sync_run" /\ build' = read
    BY <1>6 DEF QuerySucceeds, Querying
  <2>2. /\ build \in Build /\ build.next \in 1 .. 5 /\ s \in ContextSources
        /\ s = "latest_sync_run" <=> build.next = 4
        /\ s = "open_drift_signals" <=> build.next = 3
    <3>1. build \in Build /\ build.next \in 1 .. 5
      <4>1. build # NoBuild /\ build.pc = "read"
        BY <1>6 DEF QuerySucceeds, Querying
      <4> QED
        BY <4>1 DEF ContextInv, ContextTypeOK, ScanReadLast, Build
    <3> QED
      BY <3>1, ReadOrderIs
  <2>3. n \in Nat /\ n <= SourceLimit[s]
    BY <2>2 DEF Least, ContextInv, ContextTypeOK, Counts
  <2> HIDE DEF s, n
  <2>4. /\ read \in Build
        /\ read.next = build.next + 1
        /\ read.pc = IF build.next = 5 THEN "sanitize" ELSE "read"
        /\ read.route = build.route /\ read.read = [build.read EXCEPT ![s] = n]
        /\ read.given = [build.given EXCEPT ![s] = n]
        /\ read.kept = [build.kept EXCEPT ![s] = n]
        /\ read.dropped = build.dropped /\ read.signalsOf = build.signalsOf
        /\ read.syncOf = build.syncOf
    <3>1. /\ [build.given EXCEPT ![s] = n] \in Counts /\ [build.kept EXCEPT ![s] = n] \in Counts
          /\ [build.read EXCEPT ![s] = n] \in Counts
          /\ build.next + 1 \in 1 .. 6
      <4>1. /\ build.given \in Counts /\ build.kept \in Counts /\ build.read \in Counts
            /\ build.next + 1 \in 1 .. 6
        BY <2>2 DEF Build
      <4>2. \A c \in Counts : [c EXCEPT ![s] = n] \in Counts
        BY <2>3 DEF Counts
      <4> QED
        BY <4>1, <4>2
    <3>2. read \in Build
      BY <2>2, <3>1 DEF Build
    <3> QED
      BY <2>2, <3>2 DEF Build
  <2> HIDE DEF read
  <2>5. /\ build' \in Build
        /\ build'.next = read.next /\ build'.pc = read.pc /\ build'.given = read.given
        /\ build'.read = read.read /\ build'.route = read.route
        /\ build'.kept = read.kept /\ build'.dropped = read.dropped
        /\ build'.signalsOf = read.signalsOf \/ (build.next = 3 /\ build'.signalsOf <= signalled)
        /\ build.next # 4 => build'.syncOf = build.syncOf
        /\ build.next = 4 => build'.syncOf = scans
    <3>1. CASE s = "open_drift_signals"
               /\ \E scan \in 1 .. signalled : build' = [read EXCEPT !.signalsOf = scan]
      <4>1. PICK scan \in 1 .. signalled : build' = [read EXCEPT !.signalsOf = scan]
        BY <3>1
      <4>2. scan \in Nat /\ scan <= signalled
        BY DEF ContextInv, ContextTypeOK
      <4> QED
        BY <2>2, <2>4, <3>1, <4>1, <4>2 DEF Build
    <3>2. CASE s = "latest_sync_run" /\ build' = [read EXCEPT !.syncOf = scans]
      <4>1. scans \in Nat
        BY DEF ContextInv, ContextTypeOK
      <4> QED
        BY <2>2, <2>4, <3>2, <4>1 DEF Build
    <3>3. CASE s # "latest_sync_run" /\ build' = read
      BY <2>2, <2>4, <3>3
    <3> QED
      BY <2>1, <3>1, <3>2, <3>3
  <2> QED
    BY <2>1, <2>3, <2>4, <2>5, BuildReads DEF s
<1>7. CASE QueryFails
  <2>1. /\ build # NoBuild /\ build.pc = "read" /\ UNCHANGED <<rows, scans, signalled, sizes>>
        /\ build' = [build EXCEPT !.next = @ + 1, !.warned = @ \cup {ReadOrder[build.next]},
                                  !.pc = IF build.next = 5 THEN "sanitize" ELSE "read"]
    BY <1>7 DEF QueryFails, Querying
  <2>2. build \in Build /\ build.next \in 1 .. 5 /\ ReadOrder[build.next] \in ContextSources
    <3>1. build \in Build /\ build.next \in 1 .. 5
      BY <2>1 DEF ContextInv, ContextTypeOK, ScanReadLast, Build
    <3> QED
      BY <3>1, ReadOrderIs
  <2>3. build' \in Build
    <3>1. /\ build.next + 1 \in 1 .. 6
          /\ build.warned \cup {ReadOrder[build.next]} \in SUBSET ContextSources
          /\ (IF build.next = 5 THEN "sanitize" ELSE "read") \in {"sanitize", "read"}
      BY <2>2 DEF Build
    <3> QED
      BY <2>1, <2>2, <3>1 DEF Build
  <2>4. /\ build'.next = build.next + 1
        /\ build'.pc = IF build.next = 5 THEN "sanitize" ELSE "read"
        /\ build'.route = build.route /\ build'.read = build.read
        /\ build'.given = build.given /\ build'.kept = build.kept
        /\ build'.dropped = build.dropped /\ build'.signalsOf = build.signalsOf
        /\ build'.syncOf = build.syncOf
    BY <2>1, <2>2 DEF Build
  <2>5. ContextTypeOK' /\ SignalsHaveScans'
    BY <2>1, <2>3, <2>4 DEF ContextInv, ContextTypeOK, SignalsHaveScans
  <2>6. ScanReadLast' /\ NothingVanishes' /\ ReadIsGiven'
    BY <2>1, <2>2, <2>4 DEF ContextInv, ScanReadLast, NothingVanishes, ReadIsGiven, Given
  <2>7. LargestLoses(build') /\ NoNeedlessCut(build')
    BY <2>1, <2>4, UncutOK DEF ContextInv, NothingVanishes
  <2>8. CutSoFar'
    BY <2>1, <2>4, <2>7
       DEF CutSoFar, LargestLoses, NoNeedlessCut, SourcesByteLen, SourceByteLen
  <2> QED
    BY <2>5, <2>6, <2>8 DEF ContextInv
<1>8. CASE TaskQueryFails
  BY <1>8, BuildEnds DEF TaskQueryFails
<1>9. CASE BuildContextV1
  <2>1. /\ build # NoBuild /\ build \in Build /\ build.pc = "sanitize"
        /\ build.route = "connector"
        /\ build' = [build EXCEPT !.pc = "reduce"] /\ UNCHANGED <<rows, scans, signalled, sizes>>
    BY <1>9 DEF BuildContextV1, Unsanitized, ContextInv, ContextTypeOK
  <2>2. /\ build' \in Build /\ build'.pc = "reduce"
        /\ build'.route = build.route /\ build'.read = build.read
        /\ build'.given = build.given /\ build'.kept = build.kept
        /\ build'.dropped = build.dropped /\ build'.signalsOf = build.signalsOf
        /\ build'.syncOf = build.syncOf
    BY <2>1 DEF Build
  <2> QED
    BY <2>1, <2>2, BuildPasses
<1>10. CASE SanitizeForOpenAIEgress
  <2> DEFINE d == "recent_documents"
             sample == Least(build.kept[d], SampleLimit)
  <2>1. /\ build # NoBuild /\ build \in Build /\ build.pc = "sanitize"
        /\ build.route = "egress"
        /\ build' = [build EXCEPT !.pc = "reduce", !.warned = {},
                                  !.given[d] = sample, !.kept[d] = sample]
        /\ UNCHANGED <<rows, scans, signalled, sizes>>
    BY <1>10 DEF SanitizeForOpenAIEgress, Unsanitized, ContextInv, ContextTypeOK
  <2>2. /\ build.kept \in Counts /\ build.given \in Counts /\ build.dropped = NothingRead
        /\ d \in ContextSources
    BY <2>1 DEF Build, ContextInv, NothingVanishes, ContextSources
  <2>3. sample \in Nat /\ sample <= build.kept[d] /\ build.kept[d] <= SourceLimit[d]
    BY <2>1, <2>2, NothingReadOK DEF Least, Counts, ContextInv, NothingVanishes
  <2> HIDE DEF sample
  <2> DEFINE given == [build.given EXCEPT ![d] = sample]
             kept == [build.kept EXCEPT ![d] = sample]
  <2>4. /\ given \in Counts /\ kept \in Counts /\ given[d] = sample /\ kept[d] = sample
        /\ \A s \in ContextSources \ {d} : given[s] = build.given[s] /\ kept[s] = build.kept[s]
    BY <2>2, <2>3 DEF Counts
  <2>5. build' = [build EXCEPT !.pc = "reduce", !.warned = {}, !.given = given, !.kept = kept]
    BY <2>1
  <2> HIDE DEF given, kept
  <2>6. build' \in Build
    BY <2>1, <2>4, <2>5 DEF Build
  <2>7. /\ build'.pc = "reduce" /\ build'.given = given /\ build'.kept = kept
        /\ build'.route = build.route /\ build'.read = build.read
        /\ build'.dropped = NothingRead /\ build'.signalsOf = build.signalsOf
        /\ build'.syncOf = build.syncOf
    BY <2>1, <2>2, <2>5 DEF Build
  <2>8. ContextTypeOK' /\ SignalsHaveScans'
    BY <2>1, <2>6, <2>7 DEF ContextInv, ContextTypeOK, SignalsHaveScans
  <2>9. ScanReadLast'
    BY <2>1, <2>4, <2>7 DEF ContextInv, ScanReadLast, ContextSources
  <2>10. NothingVanishes'
    BY <2>1, <2>2, <2>3, <2>4, <2>7, NothingReadOK DEF ContextInv, NothingVanishes, Counts
  <2>11. LargestLoses(build') /\ NoNeedlessCut(build')
    BY <2>7, UncutOK
  <2>12. CutSoFar'
    BY <2>1, <2>7, <2>11
       DEF CutSoFar, LargestLoses, NoNeedlessCut, SourcesByteLen, SourceByteLen
  <2>13. ReadIsGiven'
    <3>1. \A s \in ContextSources : build.given[s] = build.read[s]
      BY <2>1 DEF ContextInv, ReadIsGiven, Given
    <3>2. build.kept[d] = build.given[d]
      <4>1. build.given[d] = build.kept[d] + build.dropped[d]
        BY <2>1, <2>2 DEF ContextInv, NothingVanishes
      <4>2. build.dropped[d] = 0 /\ build.kept[d] \in Nat
        BY <2>2, NothingReadOK DEF Counts
      <4> QED
        BY <4>1, <4>2
    <3>3. sample = Least(build.read[d], SampleLimit)
      BY <2>2, <3>1, <3>2 DEF sample
    <3>4. \A s \in ContextSources : build'.given[s] = IF s = d THEN sample ELSE build.given[s]
      BY <2>1, <2>4, <2>7
    <3> HIDE DEF sample
    <3> QED
      BY <2>1, <2>7, <3>1, <3>3, <3>4 DEF ReadIsGiven, Given
  <2> QED
    BY <2>8, <2>9, <2>10, <2>12, <2>13 DEF ContextInv
<1>11. CASE DropLastFromSource
  <2>1. UNCHANGED <<rows, scans, signalled, sizes>>
    BY <1>11 DEF DropLastFromSource
  <2>2. /\ build # NoBuild /\ build \in Build /\ build' \in Build
        /\ build'.pc = "reduce" /\ build'.signalsOf = build.signalsOf
        /\ build'.syncOf = build.syncOf /\ build'.given = build.given
        /\ build'.read = build.read /\ build'.route = build.route /\ build.pc = "reduce"
        /\ \A s \in ContextSources : /\ build'.kept[s] <= build.kept[s]
                                     /\ build'.kept[s] + build'.dropped[s] = build.given[s]
        /\ LargestLoses(build') /\ NoNeedlessCut(build')
    BY <1>11, RoundIsFair DEF ContextInv, ContextTypeOK, DropLastFromSource, Reducing
  <2>3. ContextTypeOK' /\ SignalsHaveScans'
    BY <2>1, <2>2 DEF ContextInv, ContextTypeOK, SignalsHaveScans
  <2>4. ScanReadLast'
    <3>1. /\ build'.kept["latest_sync_run"] <= build.kept["latest_sync_run"]
          /\ build'.kept["latest_sync_run"] \in Nat /\ build.kept["latest_sync_run"] \in Nat
      BY <2>2 DEF Build, Counts, ContextSources
    <3> QED
      BY <2>2, <3>1 DEF ContextInv, ScanReadLast
  <2>5. NothingVanishes'
    BY <2>2 DEF ContextInv, NothingVanishes
  <2>6. CutSoFar'
    BY <2>1, <2>2 DEF CutSoFar, LargestLoses, NoNeedlessCut, SourcesByteLen, SourceByteLen
  <2>7. ReadIsGiven'
    BY <2>2 DEF ContextInv, ReadIsGiven, Given
  <2> QED
    BY <2>3, <2>4, <2>5, <2>6, <2>7 DEF ContextInv
<1>12. CASE ReductionEnds
  <2>1. /\ build # NoBuild /\ build \in Build /\ build.pc = "reduce"
        /\ build' = [build EXCEPT !.pc = "built"] /\ UNCHANGED <<rows, scans, signalled, sizes>>
        /\ \/ SourcesByteLen(build.kept) <= MaxSourcesBytes
           \/ build.kept[LargestSource(build.kept)] = 0
    BY <1>12 DEF ReductionEnds, Reducing, ContextInv, ContextTypeOK
  <2>2. /\ build' \in Build /\ build'.pc = "built"
        /\ build'.route = build.route /\ build'.read = build.read
        /\ build'.given = build.given /\ build'.kept = build.kept
        /\ build'.dropped = build.dropped /\ build'.signalsOf = build.signalsOf
        /\ build'.syncOf = build.syncOf
    BY <2>1 DEF Build
  <2>3. build.kept \in Counts /\ Bounded(build.kept) /\ sizes \in Sizes
    BY <2>1, KeptIsBounded DEF Build, ContextInv, ContextTypeOK
  <2>4. Fits(build)
    BY <2>1, <2>3, EmptyLargest DEF Fits
  <2> QED
    BY <2>1, <2>2, <2>4, BuildPasses
<1>13. ASSUME NEW saved \in BOOLEAN, SaveContextSnapshot(saved) PROVE ContextInv'
  <2>1. /\ build # NoBuild /\ build \in Build /\ build.pc = "built"
        /\ build' = [build EXCEPT !.pc = "recorded"] /\ UNCHANGED <<rows, scans, signalled, sizes>>
    BY <1>13 DEF SaveContextSnapshot, Built, ContextInv, ContextTypeOK
  <2>2. /\ build' \in Build /\ build'.pc = "recorded"
        /\ build'.route = build.route /\ build'.read = build.read
        /\ build'.given = build.given /\ build'.kept = build.kept
        /\ build'.dropped = build.dropped /\ build'.signalsOf = build.signalsOf
        /\ build'.syncOf = build.syncOf
    BY <2>1 DEF Build
  <2>3. Fits(build)
    BY <2>1 DEF ContextInv, CutSoFar
  <2> QED
    BY <2>1, <2>2, <2>3, BuildPasses
<1>14. CASE CompactFromWire
  <2> DEFINE sent(own) == [s \in ContextSources |->
                            IF s = "latest_sync_run" THEN build.kept[s]
                            ELSE IF s = "recent_agent_runs" THEN Least(build.kept[s] - own, SampleLimit)
                            ELSE Least(build.kept[s], SampleLimit)]
  <2>1. PICK own \in 0 .. build.kept["recent_agent_runs"] :
          build' = [build EXCEPT !.pc = "compacted", !.sent = sent(own)]
    BY <1>14 DEF CompactFromWire
  <2>2. /\ build # NoBuild /\ build \in Build /\ build.pc = "built" /\ Fits(build)
        /\ UNCHANGED <<rows, scans, signalled, sizes>>
    BY <1>14 DEF CompactFromWire, Built, ContextInv, ContextTypeOK, CutSoFar
  <2>3. sent(own) \in Counts
    <3>1. build.kept \in Counts /\ "recent_agent_runs" \in ContextSources
      BY <2>2 DEF Build, ContextSources
    <3>2. \A s \in ContextSources :
            /\ build.kept[s] \in Nat /\ Least(build.kept[s], SampleLimit) \in Nat
            /\ s = "recent_agent_runs" => Least(build.kept[s] - own, SampleLimit) \in Nat
      BY <3>1 DEF Least, Counts
    <3> QED
      BY <3>2 DEF Counts
  <2>4. \A s \in ContextSources \ {"recent_agent_runs"} : sent(own)[s] = Sent(build, s)
    BY DEF Sent
  <2> HIDE DEF sent
  <2>5. /\ build' \in Build /\ build'.pc = "compacted" /\ build'.sent = sent(own)
        /\ build'.route = build.route /\ build'.read = build.read
        /\ build'.given = build.given /\ build'.kept = build.kept
        /\ build'.dropped = build.dropped /\ build'.signalsOf = build.signalsOf
        /\ build'.syncOf = build.syncOf
    BY <2>1, <2>2, <2>3 DEF Build
  <2> QED
    BY <2>2, <2>4, <2>5, BuildPasses
<1>15. CASE Deliver
  BY <1>15, BuildEnds DEF Deliver
<1> QED
  BY <1>1, <1>2, <1>3, <1>4, <1>5, <1>6, <1>7, <1>8, <1>9, <1>10, <1>11, <1>12, <1>13, <1>14, <1>15
     DEF ContextNext

-----------------------------------------------------------------------------
\* A planning run is given as many bytes as fit, the largest source always pays
\* (wire.ReduceSources), a daemon gets or is told of every item that was read, and
\* what a model's samples are short of has been counted, agent runs apart
\* (openAICompatibleUserPrompt).
THEOREM CutIsFairAlways == ContextSpec => []CutIsFair
<1>1. ContextInv => CutIsFair
  <2> SUFFICES ASSUME ContextInv, build # NoBuild, build.pc \in {"built", "compacted"}
               PROVE  ReducedFairly /\ ShortageIsCounted
    BY DEF CutIsFair
  <2>1. /\ build # NoBuild /\ build \in Build /\ sizes \in Sizes
        /\ build.read \in Counts /\ build.kept \in Counts /\ build.dropped \in Counts
        /\ LargestLoses(build) /\ NoNeedlessCut(build) /\ Fits(build)
        /\ \A s \in ContextSources : build.kept[s] + build.dropped[s] = build.given[s]
    BY DEF ContextInv, ContextTypeOK, CutSoFar, NothingVanishes, Build
  <2>2. ASSUME NEW s \in ContextSources, build.dropped[s] > 0, NEW r \in ContextSources
        PROVE  LET restored == [build.kept EXCEPT ![s] = @ + 1] IN
               SourceByteLen(restored, s) >= SourceByteLen(restored, r)
    <3> DEFINE restored == [build.kept EXCEPT ![s] = @ + 1]
    <3>1. restored[s] = build.kept[s] + 1 /\ (r # s => restored[r] = build.kept[r])
      BY <2>1 DEF Counts
    <3>2. CASE r = s
      <4>1. build.kept[s] + 1 \in 0 .. SourceLimit[s]
        BY <2>1, <2>2, SizesGrow DEF Counts, ContextInv, NothingVanishes
      <4>2. sizes[s][restored[s]] \in Nat
        BY <2>1, <3>1, <4>1, SizesGrow
      <4> QED
        BY <3>2, <4>2 DEF SourceByteLen
    <3>3. CASE r # s
      BY <2>1, <2>2, <3>1, <3>3 DEF LargestLoses, SourceByteLen
    <3> QED
      BY <3>2, <3>3
  <2>3. ReducedFairly
    BY <2>1, <2>2 DEF ReducedFairly, Fits, NoNeedlessCut
  <2>4. ASSUME NEW s \in ContextSources
        PROVE  /\ build.route = "connector" => build.kept[s] + build.dropped[s] = build.read[s]
               /\ build.pc = "compacted" /\ s # "recent_agent_runs"
                    => build.sent[s] >= Least(build.read[s], SampleLimit) \/ build.dropped[s] > 0
    <3>1. /\ build.given[s] = Given(build, s)
          /\ build.pc = "compacted" /\ s # "recent_agent_runs" => build.sent[s] = Sent(build, s)
      BY <2>1 DEF ContextInv, ReadIsGiven
    <3>2. /\ build.kept[s] \in Nat /\ build.dropped[s] \in Nat /\ build.read[s] \in Nat
          /\ SampleLimit \in Nat /\ build.kept[s] + build.dropped[s] = build.given[s]
      BY <2>1, PlanningContextAssumption DEF Counts
    <3>3. build.given[s] = build.read[s] \/ build.given[s] = Least(build.read[s], SampleLimit)
      BY <3>1 DEF Given
    <3>4. build.dropped[s] = 0 =>
            Least(build.kept[s], SampleLimit) >= Least(build.read[s], SampleLimit)
            /\ build.kept[s] >= Least(build.read[s], SampleLimit)
      BY <3>2, <3>3 DEF Least
    <3>5. build.dropped[s] = 0 => Sent(build, s) >= Least(build.read[s], SampleLimit)
      BY <3>4 DEF Sent
    <3>6. build.route = "connector" => build.given[s] = build.read[s]
      BY <3>1 DEF Given
    <3> QED
      BY <3>1, <3>2, <3>5, <3>6
  <2>5. ShortageIsCounted
    BY <2>4 DEF ShortageIsCounted
  <2> QED
    BY <2>3, <2>5
<1> QED
  BY InitInv, StepInv, <1>1, PTL DEF ContextSpec

\* A context never shows a signal of a later scan than the one it shows
\* (ProjectContextBuilder.BuildWithWarnings).
THEOREM SignalsBehindScanAlways == ContextSpec => []SignalsBehindScan
<1>1. ContextInv => SignalsBehindScan
  BY DEF ContextInv, ScanReadLast, SignalsBehindScan, Built
<1> QED
  BY InitInv, StepInv, <1>1, PTL DEF ContextSpec

-----------------------------------------------------------------------------
(* The suggestions: their scores and their order                           *)

\* The inductive invariant of the suggestions: the drafts are made for the
\* situation at hand.
RankingInv == situation \in Situation /\ drafts \in Generated(situation)

LEMMA Requirements ==
  ASSUME NEW x \in Situation
  PROVE  /\ x.requirement.lines \in 1 .. 2 /\ x.requirement.keywords \in 0 .. 10
         /\ \A k \in Kinds : x.dups[k] \in 0 .. MaxDuplicates /\ x.requirement.title[k] \in 1 .. 3
         /\ MaxDuplicates \in Nat
         /\ x.failures \in Nat /\ x.activity \in Nat
         /\ RequirementUrgency(x) \in 58 .. 100
<1>1. /\ x.requirement \in RankedRequirements
      /\ RankedRequirements \subseteq [lines : 1 .. 2, keywords : 0 .. 10, title : Orders]
      /\ MaxDuplicates \in Nat
  BY SuggestionRankingAssumption DEF Situation
<1>2. /\ x.requirement.lines \in 1 .. 2 /\ x.requirement.keywords \in 0 .. 10
      /\ x.requirement.title \in Orders
  BY <1>1
<1>3. \A k \in Kinds : x.dups[k] \in 0 .. MaxDuplicates /\ x.requirement.title[k] \in 1 .. 3
  BY <1>2 DEF Situation, Orders
<1>4. QED
  BY <1>1, <1>2, <1>3 DEF Situation, RequirementUrgency, Unit, Clamp, Lower

LEMMA Rounded ==
  ASSUME NEW v \in Int, NEW s \in RoundTenth(v)
  PROVE  s \in Int /\ v - 1 <= 2 * s /\ 2 * s <= v + 1
BY DEF RoundTenth

\* What each provider starts from, within bounds that leave room for what it adds.
LEMMA BaseBounds ==
  ASSUME NEW x \in Situation, NEW k \in Kinds
  PROVE  /\ Base(x, k) \in [impact : 0 .. 92, urgency : 0 .. 100, unlock : 0 .. 100, risk : 0 .. 84,
                           effort : 38 .. 54, confidence : 65 .. 75]
         /\ k = "integration" => Base(x, k).confidence \in 68 .. 71
         /\ k = "validation" => Base(x, k).confidence \in 65 .. 66
<1>1. ASSUME NEW v \in {RequirementUrgency(x) - 8, RequirementUrgency(x) - 4,
                         RequirementUrgency(x) - 3, RequirementUrgency(x) + 2}
      PROVE  Unit(v) \in 0 .. 100
  BY Requirements DEF Unit, Clamp, Lower
<1>2. RequirementUrgency(x) \in 0 .. 100
  BY Requirements
<1>3. CASE k = "implementation"
  BY <1>2, <1>3 DEF Base
<1>4. CASE k = "integration"
  BY <1>1, <1>4 DEF Base
<1>5. CASE k = "validation"
  BY <1>1, <1>5 DEF Base
<1>6. QED
  BY <1>3, <1>4, <1>5 DEF Kinds

\* No factor leaves its range, whatever comes together, and the caps on impact,
\* effort and confidence keep every score below its top.
LEMMA AdjustedBounds ==
  ASSUME NEW x \in Situation, NEW k \in Kinds
  PROVE  /\ Adjusted(x, k).impact \in 0 .. 92 /\ Adjusted(x, k).urgency \in 0 .. 100
         /\ Adjusted(x, k).risk \in 0 .. 100 /\ Adjusted(x, k).effort \in 38 .. 54
         /\ Adjusted(x, k).confidence \in 65 .. 90
         /\ DependencyUnlock(x, k) \in 0 .. 100
<1> DEFINE b == Base(x, k)
           f == Adjusted(x, k)
<1>1. /\ b \in [impact : 0 .. 92, urgency : 0 .. 100, unlock : 0 .. 100, risk : 0 .. 84,
               effort : 38 .. 54, confidence : 65 .. 75]
      /\ k = "integration" => b.confidence \in 68 .. 71
      /\ k = "validation" => b.confidence \in 65 .. 66
  BY BaseBounds
<1>2. DependencyUnlock(x, k) \in 0 .. 100
  <2>1. b.unlock + When(x.tasks, 4)
          + When(IF k = "validation" THEN x.stale ELSE x.related, 6) - When(SyncFailed(x), 3) \in Int
    BY <1>1 DEF When
  <2> HIDE DEF b
  <2>2. QED
    BY <2>1 DEF DependencyUnlock, Unit, Clamp, Lower, b
<1>3. \A v \in Int : Unit(v) \in 0 .. 100 /\ (v \in 0 .. 100 => Unit(v) = v)
  BY DEF Unit, Clamp, Lower
<1>4. \A t, n : n \in Nat => When(t, n) \in 0 .. n
  BY DEF When
\* It is enough to bound what is added to three of the factors.
<1>5. ASSUME NEW u \in 0 .. 100, NEW r \in 0 .. 100, NEW c \in 65 .. 90,
             f = [b EXCEPT !.urgency = u, !.risk = r, !.confidence = c]
      PROVE  /\ f.impact \in 0 .. 92 /\ f.urgency \in 0 .. 100 /\ f.risk \in 0 .. 100
             /\ f.effort \in 38 .. 54 /\ f.confidence \in 65 .. 90
  <2> HIDE DEF f, b
  <2>1. /\ f.impact = b.impact /\ f.effort = b.effort
        /\ f.urgency = u /\ f.risk = r /\ f.confidence = c
    BY <1>1, <1>5
  <2>2. QED
    BY <1>1, <2>1
<1>6. /\ b.urgency \in 0 .. 100 /\ b.risk \in 0 .. 84 /\ b.confidence \in 65 .. 75
      /\ b = [b EXCEPT !.urgency = @, !.risk = @, !.confidence = @]
  <2> HIDE DEF b
  <2>1. QED
    BY <1>1
<1>7. CASE k = "implementation"
  <2>1. PICK n \in 5 .. 6 :
          f = [b EXCEPT !.risk = @ + When(x.related, n), !.confidence = @ + When(x.related, 4)]
    BY <1>7 DEF Adjusted, AdjustedByRules, AdjustedForModel
  <2>2. When(x.related, n) \in 0 .. 6 /\ When(x.related, 4) \in 0 .. 4
    BY DEF When
  <2> DEFINE r == b.risk + When(x.related, n)
             c == b.confidence + When(x.related, 4)
  <2>3. r \in 0 .. 100 /\ c \in 65 .. 90
    BY <1>6, <2>2
  <2> DEFINE u == b.urgency
  <2>4. f = [b EXCEPT !.urgency = u, !.risk = r, !.confidence = c] /\ u \in 0 .. 100
    <3> HIDE DEF f, b
    <3>1. QED
      BY <1>1, <2>1
  <2> HIDE DEF f, b, u, r, c
  <2>5. QED
    BY <1>2, <1>5, <2>3, <2>4 DEF f
<1>8. CASE k = "integration"
  <2>1. CASE x.provider = "deterministic"
    <3> DEFINE u == Unit(b.urgency + When(Unstable(x), 6))
               r == b.risk + When(x.related, 5)
               c == b.confidence + When(x.related, 7) - When(SyncFailed(x), 2)
    <3>1. f = [b EXCEPT !.urgency = u, !.risk = r, !.confidence = c]
      BY <1>8, <2>1 DEF Adjusted, AdjustedByRules
    <3>2. /\ When(x.related, 5) \in 0 .. 5 /\ When(x.related, 7) \in 0 .. 7
          /\ When(SyncFailed(x), 2) \in 0 .. 2 /\ When(Unstable(x), 6) \in 0 .. 6
      BY <1>4
    <3>3. b.confidence \in 68 .. 71
      BY <1>1, <1>8
    <3> HIDE DEF f, b
    <3>4. b.urgency + When(Unstable(x), 6) \in Int
      BY <1>6, <3>2
    <3>5. u \in 0 .. 100
      BY <1>3, <3>4
    <3>6. r \in 0 .. 100 /\ c \in 65 .. 90
      BY <1>6, <3>2, <3>3
    <3> HIDE DEF u, r, c
    <3>7. QED
      BY <1>2, <1>5, <3>1, <3>5, <3>6 DEF f
  <2>2. CASE x.provider # "deterministic"
    <3>1. f = b
      BY <1>8, <2>2 DEF Adjusted, AdjustedForModel
    <3> DEFINE u == b.urgency
               r == b.risk
               c == b.confidence
    <3> HIDE DEF f, b
    <3>2. /\ u \in 0 .. 100 /\ r \in 0 .. 100 /\ c \in 65 .. 90
          /\ f = [b EXCEPT !.urgency = u, !.risk = r, !.confidence = c]
      BY <1>6, <3>1
    <3> HIDE DEF u, r, c
    <3>3. QED
      BY <1>2, <1>5, <3>2 DEF f
  <2>3. QED
    BY <2>1, <2>2
<1>9. CASE k = "validation"
  <2>1. CASE x.provider = "deterministic"
    <3> DEFINE alarmed == x.drift = "high" \/ Unstable(x)
               u == Unit(Unit(Unit(Unit(b.urgency + When(Unstable(x), 10)) + When(Drifting(x), 8))
                              + When(alarmed, 4)) + When(x.stale, 3))
               r == Unit(Unit(b.risk + When(alarmed, 14)) + When(x.stale, 5))
               c == b.confidence + When(x.stale \/ x.drift # "none", 10)
                      + When(SyncFailed(x), 8) + When(x.failures > 0, 6)
    <3>1. f = [b EXCEPT !.urgency = u, !.risk = r, !.confidence = c]
      BY <1>9, <2>1 DEF Adjusted, AdjustedByRules
    <3>2. /\ When(x.stale \/ x.drift # "none", 10) \in 0 .. 10
          /\ When(SyncFailed(x), 8) \in 0 .. 8 /\ When(x.failures > 0, 6) \in 0 .. 6
      BY <1>4
    <3>3. b.confidence \in 65 .. 66
      BY <1>1, <1>9
    <3> HIDE DEF f, b, alarmed
    <3>4. c \in 65 .. 90
      <4> DEFINE p == When(x.stale \/ x.drift # "none", 10)
                 q == When(SyncFailed(x), 8)
                 o == When(x.failures > 0, 6)
      <4>1. p \in 0 .. 10 /\ q \in 0 .. 8 /\ o \in 0 .. 6 /\ c = b.confidence + p + q + o
        BY <3>2
      <4> HIDE DEF p, q, o, c
      <4>2. QED
        BY <3>3, <4>1
    <3>5. u \in 0 .. 100 /\ r \in 0 .. 100
      <4>1. \A v \in Int : \A t : \A n \in Nat : Unit(v + When(t, n)) \in 0 .. 100
        BY <1>3, <1>4
      <4>0. b.urgency \in Int /\ b.risk \in Int
        BY <1>6
      <4>2. Unit(b.urgency + When(Unstable(x), 10)) \in Int
        BY <4>0, <4>1
      <4>3. Unit(Unit(b.urgency + When(Unstable(x), 10)) + When(Drifting(x), 8)) \in Int
        BY <4>1, <4>2
      <4>4. Unit(Unit(Unit(b.urgency + When(Unstable(x), 10)) + When(Drifting(x), 8))
                 + When(alarmed, 4)) \in Int
        BY <4>1, <4>3
      <4>5. u \in 0 .. 100
        BY <4>1, <4>4
      <4>6. Unit(b.risk + When(alarmed, 14)) \in Int
        BY <4>0, <4>1
      <4>7. r \in 0 .. 100
        BY <4>1, <4>6
      <4>8. QED
        BY <4>5, <4>7
    <3> HIDE DEF u, r, c
    <3>6. QED
      BY <1>2, <1>5, <3>1, <3>4, <3>5 DEF f
  <2>2. CASE x.provider # "deterministic"
    <3> DEFINE u == Unit(Unit(b.urgency + When(Unstable(x), 12)) + When(Drifting(x), 8))
               r == Unit(b.risk + When(Unstable(x), 12) + When(Drifting(x), 8))
               c == Unit(b.confidence + When(Unstable(x), 8) + When(Drifting(x), 6))
    <3>1. f = [b EXCEPT !.urgency = u, !.risk = r, !.confidence = c]
      BY <1>9, <2>2 DEF Adjusted, AdjustedForModel
    <3>2. b.confidence \in 65 .. 66
      BY <1>1, <1>9
    <3> HIDE DEF f, b
    <3>3. b.confidence + When(Unstable(x), 8) + When(Drifting(x), 6) \in 65 .. 80
      BY <1>4, <3>2
    <3>4. c \in 65 .. 90
      BY <1>3, <3>3
    <3>5. u \in 0 .. 100 /\ r \in 0 .. 100
      BY <1>3, <1>4, <1>6
    <3> HIDE DEF u, r, c
    <3>6. QED
      BY <1>2, <1>5, <3>1, <3>4, <3>5 DEF f
  <2>3. QED
    BY <2>1, <2>2
<1>10. QED
  BY <1>7, <1>8, <1>9 DEF Kinds

LEMMA Penalty ==
  ASSUME NEW n \in Nat
  PROVE  /\ DuplicatePenalty(n) \in 0 .. 100
         /\ DuplicatePenalty(n) <= DuplicatePenalty(n + 1)
         /\ n <= 18 => DuplicatePenalty(n) <= 61
BY DEF DuplicatePenalty, Unit, Clamp, Lower

LEMMA EvidenceCounted ==
  ASSUME NEW x \in Situation, NEW k \in Kinds
  PROVE  EvidenceCount(x, k) \in Nat \ {0}
BY Requirements DEF EvidenceCount, Kinds, One

LEMMA WeightBounds ==
  ASSUME NEW x \in Situation, NEW k \in Kinds
  PROVE  WeightedScore(x, k) \in Int /\ WeightedScore(x, k) <= 1838
<1>1. Unit(Adjusted(x, k).confidence - DuplicatePenalty(x.dups[k])) \in 0 .. 100
  <2>1. DuplicatePenalty(x.dups[k]) \in Int /\ Adjusted(x, k).confidence \in Int
    <3>1. x.dups[k] \in Nat
      BY Requirements
    <3>2. QED
      BY <3>1, AdjustedBounds, Penalty
  <2>2. QED
    BY <2>1 DEF Unit, Clamp, Lower
<1> DEFINE f == Adjusted(x, k)
           c == Unit(Adjusted(x, k).confidence - DuplicatePenalty(x.dups[k]))
           un == DependencyUnlock(x, k)
<1>2. WeightedScore(x, k) =
        6 * f.impact + 5 * f.urgency + 4 * un + 3 * f.risk + 2 * c - 3 * f.effort
  BY DEF WeightedScore
<1>3. /\ f.impact \in 0 .. 92 /\ f.urgency \in 0 .. 100 /\ un \in 0 .. 100
      /\ f.risk \in 0 .. 100 /\ c \in 0 .. 100 /\ f.effort \in 38 .. 54
  BY <1>1, AdjustedBounds
<1> DEFINE i == f.impact
           u == f.urgency
           r == f.risk
           e == f.effort
<1> HIDE DEF f, c, un
<1>4. /\ i \in 0 .. 92 /\ u \in 0 .. 100 /\ un \in 0 .. 100
      /\ r \in 0 .. 100 /\ c \in 0 .. 100 /\ e \in 38 .. 54
  BY <1>3
<1> HIDE DEF i, u, r, e
<1>5. /\ 6 * i + 5 * u + 4 * un + 3 * r + 2 * c - 3 * e \in Int
      /\ 6 * i + 5 * u + 4 * un + 3 * r + 2 * c - 3 * e <= 1838
  BY <1>4
<1>6. QED
  BY <1>2, <1>5 DEF i, u, r, e

\* A draft is what its seed makes of it.
LEMMA DraftParts ==
  ASSUME NEW x, NEW d \in Generated(x), NEW k \in Kinds
  PROVE  /\ d[k].seed \in RoundTenth(WeightedScore(x, k))
         /\ d[k].priority = PriorityScore(x, k, d[k].seed)
         /\ d[k].confidence = Confidence(x, k)
         /\ d[k].rank = Rank(x, [l \in Kinds |-> d[l].priority], k)
<1> DEFINE confident == PerKind(Confidence(x, "implementation"), Confidence(x, "integration"),
                                Confidence(x, "validation"))
           scored(sd) == PerKind(PriorityScore(x, "implementation", sd["implementation"]),
                                 PriorityScore(x, "integration", sd["integration"]),
                                 PriorityScore(x, "validation", sd["validation"]))
           made(sd) == [l \in Kinds |-> [seed |-> sd[l], priority |-> scored(sd)[l],
                                         confidence |-> confident[l],
                                         rank |-> Rank(x, scored(sd), l)]]
<1> DEFINE seeds == {PerKind(a, b, c) :
                      a \in RoundTenth(WeightedScore(x, "implementation")),
                      b \in RoundTenth(WeightedScore(x, "integration")),
                      c \in RoundTenth(WeightedScore(x, "validation"))}
<1>1. PICK chosen \in seeds : d = made(chosen)
  <2>1. Generated(x) = {made(sd) : sd \in seeds}
    BY DEF Generated
  <2> HIDE DEF made, seeds
  <2>2. QED
    BY <2>1
<1> DEFINE score == scored(chosen)
           ranks == [l \in Kinds |-> Rank(x, score, l)]
<1>2. \A l \in Kinds : chosen[l] \in RoundTenth(WeightedScore(x, l))
  <2>1. PICK a \in RoundTenth(WeightedScore(x, "implementation")),
             b \in RoundTenth(WeightedScore(x, "integration")),
             c \in RoundTenth(WeightedScore(x, "validation")) :
               chosen = PerKind(a, b, c)
    OBVIOUS
  <2>2. QED
    BY <2>1 DEF Kinds, PerKind
<1> HIDE DEF seeds
<1>3. \A l \in Kinds : d[l] = [seed |-> chosen[l], priority |-> score[l],
                               confidence |-> confident[l], rank |-> ranks[l]]
  <2> HIDE DEF scored, confident
  <2>1. QED
    BY <1>1
<1>4. Rank(x, [l \in Kinds |-> d[l].priority], k) = Rank(x, score, k)
  <2>1. ASSUME NEW l \in Kinds PROVE d[l].priority = score[l]
    <3> HIDE DEF score, confident, ranks
    <3>1. d[l] = [seed |-> chosen[l], priority |-> score[l], confidence |-> confident[l],
                  rank |-> ranks[l]]
      BY <1>3
    <3>2. QED
      BY <3>1
  <2> HIDE DEF score
  <2> DEFINE given == [l \in Kinds |-> d[l].priority]
  <2>2. \A l \in Kinds : given[l] = score[l]
    BY <2>1
  <2> HIDE DEF given
  <2>3. \A l \in Kinds : Before(x, given, l, k) <=> Before(x, score, l, k)
    BY <2>2 DEF Before
  <2>4. {l \in Kinds : Before(x, given, l, k)} = {l \in Kinds : Before(x, score, l, k)}
    BY <2>3
  <2>5. QED
    BY <2>4 DEF Rank, given
<1>8. score[k] = PriorityScore(x, k, chosen[k])
  BY DEF PerKind, Kinds
<1> HIDE DEF made, score, confident, ranks
<1>5. d[k].seed = chosen[k] /\ d[k].priority = score[k] /\ d[k].confidence = confident[k]
      /\ d[k].rank = ranks[k]
  <2>1. d[k] = [seed |-> chosen[k], priority |-> score[k], confidence |-> confident[k],
                rank |-> ranks[k]]
    BY <1>3
  <2>2. QED
    BY <2>1
<1>6. confident[k] = Confidence(x, k) /\ ranks[k] = Rank(x, score, k)
  BY DEF confident, ranks, PerKind, Kinds
<1>7. QED
  BY <1>2, <1>4, <1>5, <1>6, <1>8

\* No suggestion reaches the top, where an order would be lost.
LEMMA PriorityBounds ==
  ASSUME NEW x \in Situation, NEW k \in Kinds, NEW s \in RoundTenth(WeightedScore(x, k))
  PROVE  /\ s \in Int
         /\ s + Lower(18 * EvidenceCount(x, k), 60) - 65 * x.dups[k] \in Int
         /\ s + Lower(18 * EvidenceCount(x, k), 60) - 65 * x.dups[k] <= 979 - 65 * x.dups[k]
         /\ PriorityScore(x, k, s) \in 0 .. 1000
<1>1. s \in Int /\ s <= 919
  BY WeightBounds, Rounded
<1>2. Lower(18 * EvidenceCount(x, k), 60) \in 0 .. 60
  BY EvidenceCounted DEF Lower
<1>3. x.dups[k] \in Nat
  BY Requirements
<1> DEFINE e == Lower(18 * EvidenceCount(x, k), 60)
           n == x.dups[k]
<1>4. PriorityScore(x, k, s) = Clamp(s + e - 65 * n, 1000)
  BY DEF PriorityScore
<1> HIDE DEF e, n
<1>5. /\ s + e - 65 * n \in Int /\ s + e - 65 * n <= 979 - 65 * n
      /\ PriorityScore(x, k, s) \in 0 .. 1000
  <2>1. e \in 0 .. 60 /\ n \in Nat
    BY <1>2, <1>3 DEF e, n
  <2>2. s + e - 65 * n \in Int /\ s + e - 65 * n <= 979 - 65 * n
    BY <1>1, <2>1
  <2>3. Clamp(s + e - 65 * n, 1000) \in 0 .. 1000
    BY <2>2 DEF Clamp, Lower
  <2>4. QED
    BY <1>4, <2>2, <2>3
<1>6. s + Lower(18 * EvidenceCount(x, k), 60) - 65 * x.dups[k] \in Int
  BY <1>5 DEF e, n
<1>7. s + Lower(18 * EvidenceCount(x, k), 60) - 65 * x.dups[k] <= 979 - 65 * x.dups[k]
  BY <1>5 DEF e, n
<1>8. QED
  BY <1>1, <1>5, <1>6, <1>7

LEMMA QuietIsSituation ==
  ASSUME NEW p \in RankingProviders, NEW q \in RankedRequirements
  PROVE  Quiet(p, q) \in Situation
<1>1. /\ 0 \in 0 .. MaxDuplicates
      /\ 0 \in 0 .. FailureSample /\ 0 \in 0 .. ActivitySample
  BY SuggestionRankingAssumption
<1>2. [k \in Kinds |-> 0] \in [Kinds -> 0 .. MaxDuplicates]
  BY <1>1
<1>3. QED
  BY <1>1, <1>2 DEF Quiet, Situation

LEMMA SituationStays ==
  ASSUME situation \in Situation, RankingNext
  PROVE  situation' \in Situation /\ Becomes(situation')
<1>1. ASSUME NEW k \in Kinds, DuplicateAppears(k)
      PROVE  situation' \in Situation /\ Becomes(situation')
  <2>1. Becomes([situation EXCEPT !.dups[k] = @ + 1]) /\ situation.dups[k] < MaxDuplicates
    BY <1>1 DEF DuplicateAppears
  <2>2. [situation.dups EXCEPT ![k] = @ + 1] \in [Kinds -> 0 .. MaxDuplicates]
    BY <2>1, Requirements DEF Situation
  <2>3. QED
    BY <2>1, <2>2 DEF Becomes, Situation
<1>2. CASE TasksOpen
  BY <1>2 DEF TasksOpen, Becomes, Situation
<1>3. CASE DocumentsMatch
  BY <1>3 DEF DocumentsMatch, Becomes, Situation
<1>4. CASE DocumentGoesStale
  BY <1>4 DEF DocumentGoesStale, Becomes, Situation
<1>5. CASE DriftOpens
  BY <1>5 DEF DriftOpens, Becomes, Situation
<1>6. CASE \E status \in {"completed", "failed"} : SyncEnds(status)
  BY <1>6 DEF SyncEnds, Becomes, Situation
<1>7. CASE AgentRunFails
  BY <1>7 DEF AgentRunFails, Resampled, Becomes, Situation
<1>8. CASE AgentRunCompletes
  BY <1>8 DEF AgentRunCompletes, Resampled, Becomes, Situation
<1>9. CASE AgentRunStarts
  BY <1>9, SuggestionRankingAssumption DEF AgentRunStarts, Becomes, Situation
<1>10. CASE CleanUp
  <2>1. situation' = Quiet(situation.provider, situation.requirement) /\ Becomes(situation')
    BY <1>10 DEF CleanUp, Becomes
  <2>2. QED
    BY <2>1, QuietIsSituation DEF Situation
<1>11. QED
  BY <1>1, <1>2, <1>3, <1>4, <1>5, <1>6, <1>7, <1>8, <1>9, <1>10 DEF RankingNext

LEMMA RankingInvariant == RankingSpec => []RankingInv
<1>1. RankingInit => RankingInv
  BY QuietIsSituation DEF RankingInit, RankingInv
<1>2. RankingInv /\ [RankingNext]_rankingVars => RankingInv'
  <2>1. ASSUME RankingInv, RankingNext PROVE RankingInv'
    BY <2>1, SituationStays DEF RankingInv, Becomes
  <2>2. ASSUME RankingInv, UNCHANGED rankingVars PROVE RankingInv'
    BY <2>2 DEF rankingVars, RankingInv
  <2>3. QED
    BY <2>1, <2>2
<1>3. QED
  BY <1>1, <1>2, PTL DEF RankingSpec

\* One more duplicate: the penalty outweighs the line of evidence, and the scores
\* of the others stay where they were.
LEMMA DuplicateStep ==
  ASSUME RankingInv, RankingNext, NEW k \in Kinds,
         situation' = [situation EXCEPT !.dups[k] = @ + 1]
  PROVE  /\ drafts'[k].rank >= drafts[k].rank
         /\ drafts'[k].priority < drafts[k].priority \/ drafts'[k].priority = 0
         /\ drafts'[k].confidence < drafts[k].confidence \/ drafts'[k].confidence = 0
<1> DEFINE x == situation
           y == situation'
           n == x.dups[k]
<1>1. /\ x \in Situation /\ y \in Situation
      /\ drafts \in Generated(x) /\ drafts' \in Generated(y)
      /\ \A l \in Kinds : Inputs(y, l) = Inputs(x, l) => drafts'[l].seed = drafts[l].seed
  BY SituationStays DEF RankingInv, Becomes
<1>2. /\ n \in Nat /\ y.dups[k] = n + 1
      /\ \A l \in Kinds \ {k} : y.dups[l] = x.dups[l] /\ Inputs(y, l) = Inputs(x, l)
  <2>1. n \in Nat
    BY <1>1, Requirements
  <2>2. y.dups = [x.dups EXCEPT ![k] = @ + 1]
    BY <1>1 DEF Situation
  <2>3. y.dups[k] = n + 1 /\ \A l \in Kinds \ {k} : y.dups[l] = x.dups[l]
    BY <1>1, <2>2 DEF Situation
  <2>4. ASSUME NEW l \in Kinds \ {k}
        PROVE  Inputs(y, l) = Inputs(x, l)
    BY <1>1, <2>3, <2>4 DEF Inputs, Situation
  <2>5. QED
    BY <2>1, <2>3, <2>4
<1>3. /\ y.provider = x.provider /\ y.requirement = x.requirement /\ y.tasks = x.tasks
      /\ y.related = x.related /\ y.stale = x.stale /\ y.drift = x.drift /\ y.sync = x.sync
      /\ y.failures = x.failures /\ y.activity = x.activity
  BY <1>1 DEF Situation
<1> HIDE DEF x, y, n
<1>4. \A l \in Kinds : Base(y, l) = Base(x, l)
  BY <1>3 DEF Base, RequirementUrgency
<1>5. \A l \in Kinds : /\ Adjusted(y, l) = Adjusted(x, l)
                       /\ DependencyUnlock(y, l) = DependencyUnlock(x, l)
  <2>1. ASSUME NEW l \in Kinds
        PROVE  DependencyUnlock(y, l) = DependencyUnlock(x, l)
    BY <1>3, <1>4 DEF DependencyUnlock, SyncFailed
  <2>2. SyncFailed(y) = SyncFailed(x) /\ Unstable(y) = Unstable(x) /\ Drifting(y) = Drifting(x)
    BY <1>3 DEF SyncFailed, Unstable, Drifting
  <2>3. ASSUME NEW l \in Kinds
        PROVE  AdjustedByRules(y, l) = AdjustedByRules(x, l)
    BY <1>3, <1>4, <2>2 DEF AdjustedByRules
  <2>4. ASSUME NEW l \in Kinds
        PROVE  AdjustedForModel(y, l) = AdjustedForModel(x, l)
    BY <1>3, <1>4, <2>2 DEF AdjustedForModel
  <2>5. QED
    BY <1>3, <2>1, <2>3, <2>4 DEF Adjusted
<1>6. /\ EvidenceCount(y, k) \in EvidenceCount(x, k) .. EvidenceCount(x, k) + 1
      /\ \A l \in Kinds \ {k} : EvidenceCount(y, l) = EvidenceCount(x, l)
  <2>1. EvidenceCount(y, k) \in EvidenceCount(x, k) .. EvidenceCount(x, k) + 1
    BY <1>1, <1>2, <1>3, Requirements DEF EvidenceCount, One, Kinds, n
  <2>2. \A l \in Kinds \ {k} : EvidenceCount(y, l) = EvidenceCount(x, l)
    BY <1>2, <1>3 DEF EvidenceCount, Kinds
  <2>3. QED
    BY <2>1, <2>2
<1>7. EvidenceCount(x, k) \in Nat /\ EvidenceCount(y, k) \in Nat
  BY <1>1, EvidenceCounted
<1>8. WeightedScore(y, k) <= WeightedScore(x, k)
  <2>1. DuplicatePenalty(n) <= DuplicatePenalty(n + 1)
        /\ DuplicatePenalty(n) \in Int /\ DuplicatePenalty(n + 1) \in Int
    BY <1>2, Penalty
  <2>2. Adjusted(x, k).confidence \in Int
    BY <1>1, AdjustedBounds
  <2>3. /\ Unit(Adjusted(x, k).confidence - DuplicatePenalty(n + 1)) \in Int
        /\ Unit(Adjusted(x, k).confidence - DuplicatePenalty(n)) \in Int
        /\ Unit(Adjusted(x, k).confidence - DuplicatePenalty(n + 1))
             <= Unit(Adjusted(x, k).confidence - DuplicatePenalty(n))
    BY <2>1, <2>2 DEF Unit, Clamp, Lower
  <2>4. QED
    <3> DEFINE f == Adjusted(x, k)
               c == Unit(f.confidence - DuplicatePenalty(n))
               d == Unit(f.confidence - DuplicatePenalty(n + 1))
               rest == 6 * f.impact + 5 * f.urgency + 4 * DependencyUnlock(x, k) + 3 * f.risk
    <3>1. WeightedScore(x, k) = rest + 2 * c - 3 * f.effort
      BY DEF WeightedScore, n
    <3>2. WeightedScore(y, k) = rest + 2 * d - 3 * f.effort
      BY <1>2, <1>5 DEF WeightedScore
    <3>3. rest \in Int /\ f.effort \in Int
      <4>1. f.impact \in Int /\ f.urgency \in Int /\ f.risk \in Int /\ f.effort \in Int
        BY <1>1, AdjustedBounds
      <4>2. DependencyUnlock(x, k) \in Int
        BY <1>1, AdjustedBounds
      <4> HIDE DEF f
      <4>3. QED
        BY <4>1, <4>2
    <3> HIDE DEF rest, c, d, f
    <3>4. d <= c /\ d \in Int /\ c \in Int
      BY <2>3 DEF c, d, f
    <3>5. QED
      BY <3>1, <3>2, <3>3, <3>4
<1>9. /\ drafts[k].seed \in RoundTenth(WeightedScore(x, k))
      /\ drafts'[k].seed \in RoundTenth(WeightedScore(y, k))
      /\ drafts[k].priority = PriorityScore(x, k, drafts[k].seed)
      /\ drafts'[k].priority = PriorityScore(y, k, drafts'[k].seed)
      /\ drafts[k].confidence = Confidence(x, k)
      /\ drafts'[k].confidence = Confidence(y, k)
  BY <1>1, DraftParts
<1>10. drafts'[k].seed <= drafts[k].seed + 1 /\ drafts[k].seed \in Int /\ drafts'[k].seed \in Int
  BY <1>1, <1>8, <1>9, WeightBounds, Rounded
<1>11. /\ drafts'[k].priority < drafts[k].priority \/ drafts'[k].priority = 0
       /\ drafts'[k].priority <= drafts[k].priority
  <2> DEFINE p == drafts[k].seed + Lower(18 * EvidenceCount(x, k), 60) - 65 * n
             q == drafts'[k].seed + Lower(18 * EvidenceCount(y, k), 60) - 65 * (n + 1)
  <2>1. p \in Int /\ q \in Int /\ p <= 979
    BY <1>1, <1>2, <1>9, PriorityBounds DEF n
  <2>2. q < p
    BY <1>2, <1>6, <1>7, <1>10 DEF Lower
  <2>3. drafts[k].priority = Clamp(p, 1000) /\ drafts'[k].priority = Clamp(q, 1000)
    BY <1>2, <1>9 DEF PriorityScore, n
  <2> HIDE DEF p, q
  <2>4. QED
    BY <2>1, <2>2, <2>3 DEF Clamp, Lower
<1>12. drafts'[k].confidence < drafts[k].confidence \/ drafts'[k].confidence = 0
  <2> DEFINE c == Adjusted(x, k).confidence
  <2>1. c \in 65 .. 90
    BY <1>1, AdjustedBounds
  <2>2. /\ drafts[k].confidence =
             Clamp(10 * Unit(c) + Lower(25 * EvidenceCount(x, k), 100) - 90 * n, 1000)
        /\ drafts'[k].confidence =
             Clamp(10 * Unit(c) + Lower(25 * EvidenceCount(y, k), 100) - 90 * (n + 1), 1000)
    BY <1>2, <1>5, <1>9 DEF Confidence, n
  <2> HIDE DEF c
  <2>3. Unit(c) = c
    BY <2>1 DEF Unit, Clamp, Lower
  <2>4. QED
    BY <1>2, <1>6, <1>7, <2>1, <2>2, <2>3 DEF Clamp, Lower
<1>13. \A l \in Kinds \ {k} : drafts'[l].priority = drafts[l].priority
  <2> SUFFICES ASSUME NEW l \in Kinds \ {k} PROVE drafts'[l].priority = drafts[l].priority
    OBVIOUS
  <2>1. drafts'[l].seed = drafts[l].seed
    BY <1>1, <1>2
  <2>2. /\ drafts[l].priority = PriorityScore(x, l, drafts[l].seed)
        /\ drafts'[l].priority = PriorityScore(y, l, drafts'[l].seed)
    <3>1. drafts[l].priority = PriorityScore(x, l, drafts[l].seed)
      BY <1>1, DraftParts, Zenon
    <3>2. drafts'[l].priority = PriorityScore(y, l, drafts'[l].seed)
      BY <1>1, DraftParts, Zenon
    <3>3. QED
      BY <3>1, <3>2
  <2>3. QED
    BY <1>2, <1>6, <2>1, <2>2 DEF PriorityScore
<1>14. drafts'[k].rank >= drafts[k].rank
  <2> DEFINE score == [l \in Kinds |-> drafts[l].priority]
             later == [l \in Kinds |-> drafts'[l].priority]
             ahead == {l \in Kinds : Before(x, score, l, k)}
             aheadLater == {l \in Kinds : Before(y, later, l, k)}
  <2>1. drafts[k].rank = Rank(x, score, k) /\ drafts'[k].rank = Rank(y, later, k)
    BY <1>1, DraftParts
  <2>2. \A l \in Kinds : drafts[l].priority \in Int /\ drafts'[l].priority \in Int
    <3>1. ASSUME NEW l \in Kinds
          PROVE  drafts[l].priority \in Int /\ drafts'[l].priority \in Int
      <4>1. PriorityScore(x, l, drafts[l].seed) \in Int
        <5>1. drafts[l].seed \in RoundTenth(WeightedScore(x, l))
          BY <1>1, DraftParts
        <5>2. PriorityScore(x, l, drafts[l].seed) \in 0 .. 1000
          BY <1>1, <5>1, PriorityBounds
        <5>3. QED
          BY <5>2
      <4>2. PriorityScore(y, l, drafts'[l].seed) \in Int
        <5>1. drafts'[l].seed \in RoundTenth(WeightedScore(y, l))
          BY <1>1, DraftParts
        <5>2. PriorityScore(y, l, drafts'[l].seed) \in 0 .. 1000
          BY <1>1, <5>1, PriorityBounds
        <5>3. QED
          BY <5>2
      <4>3. /\ drafts[l].priority = PriorityScore(x, l, drafts[l].seed)
            /\ drafts'[l].priority = PriorityScore(y, l, drafts'[l].seed)
        BY <1>1, DraftParts, Zenon
      <4>4. QED
        BY <4>1, <4>2, <4>3
    <3>2. QED
      BY <3>1
  <2>3. ahead \subseteq aheadLater
    <3> SUFFICES ASSUME NEW l \in Kinds, Before(x, score, l, k)
                 PROVE  Before(y, later, l, k)
      OBVIOUS
    <3>1. x.requirement.title[k] \in Int
      BY <1>1, Requirements
    <3>2. l # k
      BY <2>2, <3>1 DEF Before
    <3>3. later[l] = score[l] /\ later[k] <= score[k]
      BY <1>11, <1>13, <3>2
    <3>4. QED
      BY <1>3, <2>2, <3>3 DEF Before
  <2>4. IsFiniteSet(aheadLater) /\ IsFiniteSet(ahead)
    <3>1. IsFiniteSet(Kinds)
      <4>1. Kinds = ({"implementation"} \cup {"integration"}) \cup {"validation"}
        BY DEF Kinds
      <4>2. IsFiniteSet({"implementation"})
        BY FS_Singleton
      <4>3. IsFiniteSet({"implementation"} \cup {"integration"})
        BY <4>2, FS_AddElement
      <4>4. QED
        BY <4>1, <4>3, FS_AddElement
    <3>2. QED
      BY <3>1, FS_Subset
  <2>5. Cardinality(ahead) <= Cardinality(aheadLater)
    BY <2>3, <2>4, FS_Subset
  <2>6. Cardinality(ahead) \in Nat /\ Cardinality(aheadLater) \in Nat
    BY <2>4, FS_CardinalityType
  <2>7. QED
    BY <2>1, <2>5, <2>6 DEF Rank
<1>15. QED
  BY <1>11, <1>12, <1>14

\* The factors of the deterministic provider's validation.
LEMMA ValidationFactors ==
  ASSUME NEW x \in Situation, x.provider = "deterministic"
  PROVE  LET f == Adjusted(x, "validation")
             alarmed == x.drift = "high" \/ Unstable(x)
         IN  /\ f.impact = 61 /\ f.effort = 38
             /\ f.urgency = Unit(Unit(Unit(Unit(Unit(RequirementUrgency(x) - 8)
                  + When(Unstable(x), 10)) + When(Drifting(x), 8)) + When(alarmed, 4))
                  + When(x.stale, 3))
             /\ f.risk = Unit(Unit(84 + When(alarmed, 14)) + When(x.stale, 5))
             /\ f.confidence = 65 + When(x.stale \/ x.drift # "none", 10)
                                  + When(SyncFailed(x), 8) + When(x.failures > 0, 6)
             /\ DependencyUnlock(x, "validation") =
                  48 + When(x.tasks, 4) + When(x.stale, 6) - When(SyncFailed(x), 3)
<1> DEFINE b == Base(x, "validation")
           f == Adjusted(x, "validation")
           alarmed == x.drift = "high" \/ Unstable(x)
           v == Unit(RequirementUrgency(x) - 8)
           u == Unit(Unit(Unit(Unit(v + When(Unstable(x), 10)) + When(Drifting(x), 8))
                          + When(alarmed, 4)) + When(x.stale, 3))
           r == Unit(Unit(84 + When(alarmed, 14)) + When(x.stale, 5))
           c == 65 + When(x.stale \/ x.drift # "none", 10)
                   + When(SyncFailed(x), 8) + When(x.failures > 0, 6)
<1>1. b = [impact |-> 61, urgency |-> v, unlock |-> 48, risk |-> 84, effort |-> 38,
           confidence |-> 65]
  BY DEF Base
<1>2. f = [b EXCEPT
             !.urgency = Unit(Unit(Unit(Unit(@ + When(Unstable(x), 10)) + When(Drifting(x), 8))
                                   + When(alarmed, 4)) + When(x.stale, 3)),
             !.risk = Unit(Unit(@ + When(alarmed, 14)) + When(x.stale, 5)),
             !.confidence = @ + When(x.stale \/ x.drift # "none", 10)
                              + When(SyncFailed(x), 8) + When(x.failures > 0, 6)]
  BY DEF Adjusted, AdjustedByRules
<1> HIDE DEF b, f, v, alarmed
<1>3. f = [impact |-> 61, urgency |-> u, unlock |-> 48, risk |-> r, effort |-> 38,
           confidence |-> c]
  <2>1. b.urgency = v /\ b.risk = 84 /\ b.confidence = 65
    BY <1>1
  <2>2. f = [b EXCEPT !.urgency = u, !.risk = r, !.confidence = c]
    BY <1>2, <2>1
  <2> HIDE DEF u, r, c
  <2>3. QED
    BY <1>1, <2>2
<1>4. DependencyUnlock(x, "validation") =
        48 + When(x.tasks, 4) + When(x.stale, 6) - When(SyncFailed(x), 3)
  <2> DEFINE w == 48 + When(x.tasks, 4) + When(x.stale, 6) - When(SyncFailed(x), 3)
  <2>1. DependencyUnlock(x, "validation") = Unit(w)
    BY <1>1 DEF DependencyUnlock, b
  <2>2. w \in 45 .. 58
    BY DEF When
  <2> HIDE DEF w
  <2>3. Unit(w) = w
    BY <2>2 DEF Unit, Clamp, Lower
  <2>4. QED
    BY <2>1, <2>3 DEF w
<1> HIDE DEF u, r, c
<1>5. f.impact = 61 /\ f.effort = 38 /\ f.urgency = u /\ f.risk = r /\ f.confidence = c
  BY <1>3
<1>6. QED
  BY <1>4, <1>5 DEF f, u, r, c, v, alarmed

LEMMA ClampNear ==
  ASSUME NEW v \in Int, NEW w \in Int, NEW d \in Nat, v <= w + 1 + d
  PROVE  Clamp(v, 1000) <= Clamp(w, 1000) + 1 + d
BY DEF Clamp, Lower

\* One step takes at most one line of failures away, unless everything is dealt with
\* at once.
LEMMA OneLineLess ==
  ASSUME RankingInv, RankingNext, situation' # Quiet(situation.provider, situation.requirement)
  PROVE  situation.failures <= situation'.failures + 1
<1>1. situation.failures \in Nat /\ situation \in Situation
  BY Requirements DEF RankingInv
<1>2. CASE AgentRunFails
  BY <1>1, <1>2 DEF AgentRunFails, Resampled, Becomes, Situation
<1>3. CASE AgentRunCompletes
  BY <1>1, <1>3 DEF AgentRunCompletes, Resampled, Becomes, Situation
<1>4. CASE AgentRunStarts
  BY <1>1, <1>4 DEF AgentRunStarts, Becomes, Situation
<1>5. CASE CleanUp
  BY <1>5 DEF CleanUp, Becomes
<1>6. ASSUME NEW k \in Kinds, DuplicateAppears(k)
      PROVE  situation'.failures = situation.failures
  BY <1>1, <1>6 DEF DuplicateAppears, Becomes, Situation
<1>7. CASE TasksOpen
  BY <1>1, <1>7 DEF TasksOpen, Becomes, Situation
<1>8. CASE DocumentsMatch
  BY <1>1, <1>8 DEF DocumentsMatch, Becomes, Situation
<1>9. CASE DocumentGoesStale
  BY <1>1, <1>9 DEF DocumentGoesStale, Becomes, Situation
<1>10. CASE DriftOpens
  BY <1>1, <1>10 DEF DriftOpens, Becomes, Situation
<1>11. CASE \E status \in {"completed", "failed"} : SyncEnds(status)
  BY <1>1, <1>11 DEF SyncEnds, Becomes, Situation
<1>12. QED
  BY <1>1, <1>2, <1>3, <1>4, <1>5, <1>6, <1>7, <1>8, <1>9, <1>10, <1>11 DEF RankingNext

\* One thing for the worse: only a failed scan costs the validation anything, and
\* what it costs in one factor comes back in another, unless that one is held
\* down by duplicates; with as many of them the score is zero anyway.  A repeated
\* failure costs the points of a line.
LEMMA TroubleStep ==
  ASSUME RankingInv, RankingNext, situation.provider = "deterministic",
         situation # situation', Trouble(situation, situation')
  PROVE  LET line(points) == When(LosesLine(situation, situation'), points) IN
         /\ drafts'["validation"].priority + 1 + line(18) >= drafts["validation"].priority
         /\ drafts'["validation"].confidence + line(25) >= drafts["validation"].confidence
<1> DEFINE x == situation
           y == situation'
           k == "validation"
           n == x.dups[k]
           fewer == When(y.failures < x.failures, 1)
<1>1. /\ x \in Situation /\ y \in Situation
      /\ drafts \in Generated(x) /\ drafts' \in Generated(y)
  BY SituationStays DEF RankingInv, Becomes
<1>2. /\ y.provider = x.provider /\ y.requirement = x.requirement /\ y.tasks = x.tasks
      /\ y.dups = x.dups
  <2>1. CASE y = [x EXCEPT !.stale = TRUE]
    BY <1>1, <2>1 DEF Situation
  <2>2. CASE y = [x EXCEPT !.drift = y.drift]
    BY <1>1, <2>2 DEF Situation
  <2>3. CASE y = [x EXCEPT !.sync = "failed"]
    BY <1>1, <2>3 DEF Situation
  <2>4. CASE y = [x EXCEPT !.failures = y.failures]
    BY <1>1, <2>4 DEF Situation
  <2>5. QED
    BY <2>1, <2>2, <2>3, <2>4 DEF Trouble
<1>3. /\ x.stale => y.stale
      /\ x.drift # "none" => y.drift # "none"
      /\ x.drift = "high" => y.drift = "high"
      /\ x.sync # "none" => y.sync # "none"
      /\ SyncFailed(x) => SyncFailed(y)
      /\ x.failures > 0 => y.failures > 0
      /\ x.failures <= y.failures + fewer /\ fewer \in 0 .. 1
  <2>1. CASE y = [x EXCEPT !.stale = TRUE]
    BY <1>1, <2>1, Requirements DEF Situation, SyncFailed, When
  <2>2. CASE y = [x EXCEPT !.drift = y.drift] /\ (x.drift = "none" \/ y.drift = "high")
    BY <1>1, <2>2, Requirements DEF Situation, SyncFailed, When
  <2>3. CASE y = [x EXCEPT !.sync = "failed"]
    BY <1>1, <2>3, Requirements DEF Situation, SyncFailed, When
  <2>4. CASE y = [x EXCEPT !.failures = y.failures] /\ y.failures > 0
    <3>1. x.failures <= y.failures + 1
      <4>1. y # Quiet(x.provider, x.requirement)
        BY <2>4 DEF Quiet
      <4>2. QED
        BY <4>1, OneLineLess
    <3>2. QED
      BY <1>1, <2>4, <3>1, Requirements DEF Situation, SyncFailed, When
  <2>5. QED
    BY <2>1, <2>2, <2>3, <2>4 DEF Trouble
<1>4. /\ x.stale \in BOOLEAN /\ y.stale \in BOOLEAN
      /\ x.failures \in Nat /\ y.failures \in Nat
      /\ k \in Kinds /\ n \in Nat /\ y.dups[k] = n
  BY <1>1, <1>2, Requirements DEF Situation, Kinds
<1> HIDE DEF x, y
<1>5. /\ Unstable(x) => Unstable(y)
      /\ Drifting(x) => Drifting(y)
      /\ x.drift = "high" \/ Unstable(x) => y.drift = "high" \/ Unstable(y)
      /\ x.stale \/ x.drift # "none" => y.stale \/ y.drift # "none"
      /\ x.failures > 0 => y.failures > 0
  BY <1>3, <1>4 DEF Unstable, Drifting
<1>6. EvidenceCount(x, k) <= EvidenceCount(y, k) + fewer
  BY <1>1, <1>2, <1>3, <1>4, Requirements DEF EvidenceCount, One
<1>7. EvidenceCount(x, k) \in Nat /\ EvidenceCount(y, k) \in Nat
  BY <1>1, <1>4, EvidenceCounted
<1> DEFINE fx == Adjusted(x, k)
           fy == Adjusted(y, k)
           ux == DependencyUnlock(x, k)
           uy == DependencyUnlock(y, k)
           lost == When(SyncFailed(y) /\ ~ SyncFailed(x), 1)
<1>8. fx.urgency <= fy.urgency
  <2> DEFINE v == Unit(RequirementUrgency(x) - 8)
             a1(z) == Unit(v + When(Unstable(z), 10))
             a2(z) == Unit(a1(z) + When(Drifting(z), 8))
             a3(z) == Unit(a2(z) + When(z.drift = "high" \/ Unstable(z), 4))
             a4(z) == Unit(a3(z) + When(z.stale, 3))
  <2>1. v \in Int /\ RequirementUrgency(y) = RequirementUrgency(x)
    <3>1. RequirementUrgency(x) \in Int
      BY <1>1, Requirements
    <3>2. QED
      BY <1>2, <3>1 DEF Unit, Clamp, Lower, RequirementUrgency
  <2>2. fx.urgency = a4(x) /\ fy.urgency = a4(y)
    BY <1>1, <1>2, <2>1, ValidationFactors DEF x
  <2> HIDE DEF fx, fy, v
  <2>3. /\ When(Unstable(x), 10) \in Int /\ When(Unstable(y), 10) \in Int
        /\ When(Unstable(x), 10) <= When(Unstable(y), 10)
    BY <1>5 DEF When
  <2>4. /\ When(Drifting(x), 8) \in Int /\ When(Drifting(y), 8) \in Int
        /\ When(Drifting(x), 8) <= When(Drifting(y), 8)
    BY <1>5 DEF When
  <2>5. /\ When(x.drift = "high" \/ Unstable(x), 4) \in Int
        /\ When(y.drift = "high" \/ Unstable(y), 4) \in Int
        /\ When(x.drift = "high" \/ Unstable(x), 4) <= When(y.drift = "high" \/ Unstable(y), 4)
    BY <1>5 DEF When
  <2>6. When(x.stale, 3) \in Int /\ When(y.stale, 3) \in Int /\ When(x.stale, 3) <= When(y.stale, 3)
    BY <1>3 DEF When
  <2>7. a1(x) <= a1(y) /\ a1(x) \in Int /\ a1(y) \in Int
    BY <2>1, <2>3 DEF Unit, Clamp, Lower
  <2> HIDE DEF a1
  <2>8. a2(x) <= a2(y) /\ a2(x) \in Int /\ a2(y) \in Int
    BY <2>4, <2>7 DEF Unit, Clamp, Lower
  <2> HIDE DEF a2
  <2>9. a3(x) <= a3(y) /\ a3(x) \in Int /\ a3(y) \in Int
    BY <2>5, <2>8 DEF Unit, Clamp, Lower
  <2> HIDE DEF a3
  <2>10. a4(x) <= a4(y)
    BY <2>6, <2>9 DEF Unit, Clamp, Lower
  <2>11. QED
    BY <2>2, <2>10
<1>9. fx.risk <= fy.risk
  <2> DEFINE r1(z) == Unit(84 + When(z.drift = "high" \/ Unstable(z), 14))
             r2(z) == Unit(r1(z) + When(z.stale, 5))
  <2>1. fx.risk = r2(x) /\ fy.risk = r2(y)
    BY <1>1, <1>2, ValidationFactors DEF x
  <2> HIDE DEF fx, fy
  <2>2. r1(x) <= r1(y) /\ r1(x) \in Int /\ r1(y) \in Int
    BY <1>5 DEF Unit, Clamp, Lower, When
  <2> HIDE DEF r1
  <2>3. r2(x) <= r2(y)
    BY <1>3, <2>2 DEF Unit, Clamp, Lower, When
  <2>4. QED
    BY <2>1, <2>3
<1>10. /\ fy.confidence \in Int /\ fx.confidence \in 65 .. 90 /\ fy.confidence \in 65 .. 90
       /\ fy.confidence >= fx.confidence + 8 * lost /\ lost \in 0 .. 1
  <2>1. /\ fx.confidence = 65 + When(x.stale \/ x.drift # "none", 10)
                              + When(SyncFailed(x), 8) + When(x.failures > 0, 6)
        /\ fy.confidence = 65 + When(y.stale \/ y.drift # "none", 10)
                              + When(SyncFailed(y), 8) + When(y.failures > 0, 6)
    BY <1>1, <1>2, ValidationFactors DEF x
  <2> HIDE DEF fx, fy
  <2>2. QED
    BY <1>3, <1>5, <2>1 DEF When
<1>11. ux \in Int /\ uy \in Int /\ uy >= ux - 3 * lost
  <2>1. /\ ux = 48 + When(x.tasks, 4) + When(x.stale, 6) - When(SyncFailed(x), 3)
        /\ uy = 48 + When(x.tasks, 4) + When(y.stale, 6) - When(SyncFailed(y), 3)
    BY <1>1, <1>2, ValidationFactors DEF x
  <2> HIDE DEF ux, uy
  <2>2. QED
    BY <1>3, <2>1 DEF When
<1>12. /\ fx.impact = 61 /\ fy.impact = 61 /\ fx.effort = 38 /\ fy.effort = 38
       /\ fx.urgency \in Int /\ fy.urgency \in Int /\ fx.risk \in Int /\ fy.risk \in Int
  <2>1. fx.impact = 61 /\ fy.impact = 61 /\ fx.effort = 38 /\ fy.effort = 38
    BY <1>1, <1>2, ValidationFactors DEF x
  <2>2. fx.urgency \in Int /\ fy.urgency \in Int /\ fx.risk \in Int /\ fy.risk \in Int
    BY <1>1, <1>4, AdjustedBounds
  <2>3. QED
    BY <2>1, <2>2
<1>13. /\ drafts[k].seed \in RoundTenth(WeightedScore(x, k))
       /\ drafts'[k].seed \in RoundTenth(WeightedScore(y, k))
       /\ drafts[k].priority = PriorityScore(x, k, drafts[k].seed)
       /\ drafts'[k].priority = PriorityScore(y, k, drafts'[k].seed)
       /\ drafts[k].confidence = Confidence(x, k)
       /\ drafts'[k].confidence = Confidence(y, k)
  BY <1>1, <1>4, DraftParts
<1>14. drafts'[k].confidence + 25 * fewer >= drafts[k].confidence
  <2>1. /\ drafts[k].confidence =
             Clamp(10 * Unit(fx.confidence) + Lower(25 * EvidenceCount(x, k), 100) - 90 * n, 1000)
        /\ drafts'[k].confidence =
             Clamp(10 * Unit(fy.confidence) + Lower(25 * EvidenceCount(y, k), 100) - 90 * n, 1000)
    BY <1>4, <1>13 DEF Confidence
  <2> HIDE DEF fx, fy, n, lost, fewer
  <2>2. Unit(fx.confidence) = fx.confidence /\ Unit(fy.confidence) = fy.confidence
    BY <1>10 DEF Unit, Clamp, Lower
  <2>3. fx.confidence <= fy.confidence
    BY <1>10
  <2> DEFINE ex == Lower(25 * EvidenceCount(x, k), 100)
             ey == Lower(25 * EvidenceCount(y, k), 100)
  <2>4. ex <= ey + 25 * fewer /\ ex \in Int /\ ey \in Int
    BY <1>3, <1>6, <1>7 DEF Lower
  <2> HIDE DEF ex, ey
  <2>5. QED
    BY <1>3, <1>4, <1>10, <2>1, <2>2, <2>3, <2>4 DEF Clamp, ex, ey, Lower
<1>15. drafts'[k].priority + 1 + 18 * fewer >= drafts[k].priority
  <2> DEFINE ex == Lower(18 * EvidenceCount(x, k), 60)
             ey == Lower(18 * EvidenceCount(y, k), 60)
             sx == drafts[k].seed
             sy == drafts'[k].seed
             px == sx + ex - 65 * n
             py == sy + ey - 65 * n
  <2> HIDE DEF fewer
  <2>1. ex <= ey + 18 * fewer /\ ex \in Int /\ ey \in Int
    BY <1>3, <1>6, <1>7 DEF Lower
  <2>2. drafts[k].priority = Clamp(px, 1000) /\ drafts'[k].priority = Clamp(py, 1000)
    BY <1>4, <1>13 DEF PriorityScore
  <2>3. px \in Int /\ py \in Int /\ px <= 979 - 65 * n /\ py <= 979 - 65 * n
    <3>1. px \in Int /\ px <= 979 - 65 * n
      BY <1>1, <1>4, <1>13, PriorityBounds
    <3>2. py \in Int /\ py <= 979 - 65 * n
      BY <1>1, <1>4, <1>13, PriorityBounds
    <3>3. QED
      BY <3>1, <3>2
  <2>4. CASE n > 18
    <3> HIDE DEF px, py, n
    <3>1. QED
      BY <1>3, <1>4, <2>2, <2>3, <2>4 DEF Clamp, Lower
  <2>5. CASE n <= 18
    <3> DEFINE d == DuplicatePenalty(n)
               cx == Unit(fx.confidence - d)
               cy == Unit(fy.confidence - d)
               wx == WeightedScore(x, k)
               wy == WeightedScore(y, k)
    <3>1. d \in 0 .. 61
      BY <1>4, <2>5, Penalty
    <3>2. /\ wx = 6 * fx.impact + 5 * fx.urgency + 4 * ux + 3 * fx.risk + 2 * cx - 3 * fx.effort
          /\ wy = 6 * fy.impact + 5 * fy.urgency + 4 * uy + 3 * fy.risk + 2 * cy - 3 * fy.effort
      BY <1>4 DEF WeightedScore
    <3> HIDE DEF fx, fy, ux, uy, lost, d, n
    <3>3. cx \in Int /\ cy \in Int /\ cy >= cx + 8 * lost
      BY <1>10, <3>1 DEF Unit, Clamp, Lower
    <3> HIDE DEF cx, cy, wx, wy
    <3>4. wx \in Int /\ wy \in Int /\ wx <= wy
      BY <1>8, <1>9, <1>10, <1>11, <1>12, <3>2, <3>3
    <3>5. sy + 1 >= sx /\ sx \in Int /\ sy \in Int
      BY <1>13, <3>4, Rounded DEF wx, wy
    <3> HIDE DEF sx, sy, ex, ey
    <3>6. py + 1 + 18 * fewer >= px
      BY <1>3, <1>4, <2>1, <3>5
    <3> HIDE DEF px, py
    <3>7. px \in Int /\ py \in Int
      BY <2>3
    <3> DEFINE d2 == 18 * fewer
    <3>8. d2 \in Nat
      BY <1>3
    <3> HIDE DEF d2
    <3>9. px <= py + 1 + d2
      BY <3>6, <3>7, <3>8 DEF d2
    <3>10. Clamp(px, 1000) <= Clamp(py, 1000) + 1 + d2
      BY <3>7, <3>8, <3>9, ClampNear
    <3>11. Clamp(px, 1000) \in Int /\ Clamp(py, 1000) \in Int
      BY <3>7 DEF Clamp, Lower
    <3>12. drafts'[k].priority + 1 + d2 >= drafts[k].priority
      BY <2>2, <3>8, <3>10, <3>11
    <3>13. QED
      BY <3>12 DEF d2
  <2>6. QED
    BY <1>4, <2>4, <2>5
<1>16. /\ When(LosesLine(situation, situation'), 18) = 18 * fewer
       /\ When(LosesLine(situation, situation'), 25) = 25 * fewer
  BY DEF LosesLine, When, x, y
<1> HIDE DEF fewer
<1>17. QED
  BY <1>14, <1>15, <1>16

\* "Exact-title overlap with open work reduced ranking confidence": whatever else
\* the project holds and however many duplicates there are already, one more
\* lowers both scores of its suggestion, or they are zero, and never its place.
THEOREM DuplicatesNeverHelpEver == RankingSpec => DuplicatesNeverHelp
<1> DEFINE NeverHelps ==
             \A k \in Kinds :
               situation' = [situation EXCEPT !.dups[k] = @ + 1]
                 => /\ drafts'[k].rank >= drafts[k].rank
                    /\ drafts'[k].priority < drafts[k].priority \/ drafts'[k].priority = 0
                    /\ drafts'[k].confidence < drafts[k].confidence \/ drafts'[k].confidence = 0
<1>1. RankingInv /\ [RankingNext]_rankingVars => [NeverHelps]_rankingVars
  BY DuplicateStep DEF rankingVars
<1>2. QED
  BY <1>1, RankingInvariant, PTL DEF RankingSpec, DuplicatesNeverHelp

\* "Recent agent failures increase the value of validation": whatever the
\* requirement, the duplicates and the runs, trouble never lowers the
\* deterministic provider's scores of the validation by more than a rounding, and
\* a failure like the one before it by no more than the line it pushes out.
THEOREM TroubleAlwaysRaisesValidation == RankingSpec => TroubleRaisesValidation
<1> DEFINE Raises ==
             situation.provider = "deterministic" /\ situation # situation'
                  /\ Trouble(situation, situation')
               => LET line(points) == When(LosesLine(situation, situation'), points) IN
                  /\ drafts'["validation"].priority + 1 + line(18) >= drafts["validation"].priority
                  /\ drafts'["validation"].confidence + line(25) >= drafts["validation"].confidence
<1>1. RankingInv /\ [RankingNext]_rankingVars => [Raises]_rankingVars
  BY TroubleStep DEF rankingVars
<1>2. QED
  BY <1>1, RankingInvariant, PTL DEF RankingSpec, TroubleRaisesValidation
=============================================================================
