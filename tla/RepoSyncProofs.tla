---------------------------- MODULE RepoSyncProofs ----------------------------
(***************************************************************************)
(* Proofs about RepoSync for any commits, documents and overlapping scans, *)
(* with or without failing statements and restarts.                        *)
(***************************************************************************)
EXTENDS RepoSync, TLAPS

\* The two phases of a scan raise different signals, and handle a document once each.
PhaseOK(s) ==
  /\ scan[s].pc \in {"new", "started", "read"} => scan[s].marked = {}
  /\ scan[s].pc \in {"new", "started", "read", "flag"} => scan[s].trigger = "code_change"
  /\ At(s, "decay") => scan[s].trigger = "time_decay"
  /\ scan[s].todo \cap scan[s].marked = {}

\* What came before the window of scan s was in the window of a scan that ended.
WindowOK(s) ==
  At(s, "started") =>
    /\ scan[s].since <= clock
    /\ \A c \in Landed \ overtaken : date[c] > scan[s].since \/ date[c] <= lastSync

\* East of UTC, a scan has read every commit that no scan before it dealt with.
ReadOK(s) ==
  Scanning(s) =>
    /\ scan[s].read \subseteq Landed
    /\ ZoneOffset >= 0 => \A c \in Landed \ overtaken : c \in scan[s].read \/ date[c] <= lastSync

\* What a scan has read is flagged or still to do.
FlagOK(s) ==
  Flagging(s) =>
    \A c \in scan[s].read : \A d \in Covers(c) :
      Flagged(c, d) \/ (At(s, "flag") /\ d \in scan[s].todo)

ScanOK(s) == PhaseOK(s) /\ WindowOK(s) /\ ReadOK(s) /\ FlagOK(s)

\* A document has a signal of a scan only after the scan made it known or reported
\* that it could not, and never one of a phase that has yet to handle it.
SignalOK(x) ==
  x.by = "scan" =>
    /\ x.scan \in Scans
    /\ scan[x.scan].pc \notin {"new", "started", "read"}
    /\ At(x.scan, "flag") => x.trigger = "code_change"
    /\ Flagging(x.scan) =>
         /\ x.doc \in scan[x.scan].known \/ <<x.scan, x.doc>> \in doubtful
         /\ x.trigger = scan[x.scan].trigger =>
              x.doc \notin scan[x.scan].todo \cup scan[x.scan].marked

SignalsKnown == \A x \in signal : SignalOK(x)

\* The inductive invariant.
SyncInv ==
  /\ SyncTypeOK
  /\ \A s \in Scans : ScanOK(s)
  /\ ChangesAreFlagged
  /\ SignalsKnown
  /\ OneSignalPerScan

-----------------------------------------------------------------------------
(* Lemmas                                                                  *)

LEMMA CoversDocs == \A c \in Commits : Covers(c) \subseteq Docs
  BY RepoSyncAssumption DEF Covers

\* What is on record stays on record: a document may become stale, be refreshed at
\* the present time, age, or be logged.
FlagsStay == \A c \in Landed, d \in Docs : Flagged(c, d) => Flagged(c, d)'

LEMMA RecordsStay ==
  ASSUME SyncTypeOK, UNCHANGED date, logged \subseteq logged',
         \A d \in Docs : \/ /\ doc[d].stale => doc'[d].stale
                            /\ doc'[d].updated = doc[d].updated
                         \/ doc'[d].updated = clock
  PROVE  FlagsStay
<1> SUFFICES ASSUME NEW c \in Landed, NEW d \in Docs, Flagged(c, d) PROVE Flagged(c, d)'
  BY DEF FlagsStay
<1>1. date[c] <= clock /\ date[c] \in Nat /\ doc[d].updated \in Nat /\ clock \in Nat
  BY DEF SyncTypeOK, Landed
<1> QED
  BY <1>1 DEF Flagged

\* As long as the repository stands still, the main invariant holds if records stay,
\* and so does what a scan knows that does not move.
LEMMA NothingUnflagged ==
  ASSUME SyncInv, UNCHANGED <<date, lastSync>>, overtaken \subseteq overtaken', FlagsStay
  PROVE  ChangesAreFlagged'
<1>1. \A c \in Landed : c \in Commits /\ Covers(c) \subseteq Docs
  BY CoversDocs DEF Landed
<1> QED
  BY <1>1 DEF SyncInv, ChangesAreFlagged, FlagsStay, Landed, Covers

LEMMA ScanRests ==
  ASSUME SyncInv, UNCHANGED date, overtaken \subseteq overtaken', clock' \in Nat, clock <= clock',
         lastSync <= lastSync', lastSync' \in Nat, FlagsStay, NEW s \in Scans, scan'[s] = scan[s]
  PROVE  ScanOK(s)'
<1>1. /\ ScanOK(s) /\ scan[s].since \in Int /\ lastSync \in Nat /\ clock \in Nat
      /\ \A c \in Landed : date[c] \in Nat
  BY DEF SyncInv, SyncTypeOK, Scan, Landed
<1>2. \A c \in Landed : c \in Commits /\ Covers(c) \subseteq Docs
  BY CoversDocs DEF Landed
<1>3. PhaseOK(s)'
  BY <1>1 DEF ScanOK, PhaseOK, At
<1>4. WindowOK(s)'
  BY <1>1 DEF ScanOK, WindowOK, At, Landed
<1>5. ReadOK(s)'
  BY <1>1 DEF ScanOK, ReadOK, Scanning, Landed
<1>6. FlagOK(s)'
  BY <1>1, <1>2 DEF ScanOK, ReadOK, FlagOK, Scanning, Flagging, FlagsStay, Covers, At
<1> QED
  BY <1>3, <1>4, <1>5, <1>6 DEF ScanOK

\* A scan that moves from one record to another keeps its signals coherent, when it
\* raises none.
KeepsSignals(old, new) ==
  \/ new = old
  \/ old.pc \in {"new", "started", "read"}
  \/ /\ old.pc \in {"flag", "decay"} /\ new.pc = old.pc
     /\ new.known = old.known /\ new.trigger = old.trigger
     /\ new.todo \cup new.marked \subseteq old.todo \cup old.marked
  \/ old.pc = "flag" /\ new.pc = "decay" /\ new.known = old.known /\ new.trigger = "time_decay"
  \/ new.pc \in {"stamped", "completed", "failed"}

LEMMA SignalRests ==
  ASSUME NEW x, SignalOK(x), doubtful \subseteq doubtful',
         x.by = "scan" => KeepsSignals(scan[x.scan], scan'[x.scan])
  PROVE  SignalOK(x)'
<1> SUFFICES ASSUME x.by = "scan"
             PROVE  /\ x.scan \in Scans
                    /\ scan'[x.scan].pc \notin {"new", "started", "read"}
                    /\ scan'[x.scan].pc = "flag" => x.trigger = "code_change"
                    /\ scan'[x.scan].pc \in {"flag", "decay"} =>
                         /\ x.doc \in scan'[x.scan].known \/ <<x.scan, x.doc>> \in doubtful'
                         /\ x.trigger = scan'[x.scan].trigger =>
                              x.doc \notin scan'[x.scan].todo \cup scan'[x.scan].marked
  BY DEF SignalOK, Flagging, At
<1>1. /\ x.scan \in Scans
      /\ scan[x.scan].pc \notin {"new", "started", "read"}
      /\ scan[x.scan].pc = "flag" => x.trigger = "code_change"
      /\ scan[x.scan].pc \in {"flag", "decay"} =>
           /\ x.doc \in scan[x.scan].known \/ <<x.scan, x.doc>> \in doubtful
           /\ x.trigger = scan[x.scan].trigger =>
                x.doc \notin scan[x.scan].todo \cup scan[x.scan].marked
  BY DEF SignalOK, Flagging, At
<1>2. CASE scan'[x.scan].pc \in {"stamped", "completed", "failed"}
  BY <1>1, <1>2
<1>3. CASE scan'[x.scan] = scan[x.scan]
  BY <1>1, <1>3
<1>4. CASE /\ scan[x.scan].pc \in {"flag", "decay"} /\ scan'[x.scan].pc = scan[x.scan].pc
           /\ scan'[x.scan].known = scan[x.scan].known
           /\ scan'[x.scan].trigger = scan[x.scan].trigger
           /\ scan'[x.scan].todo \cup scan'[x.scan].marked
                \subseteq scan[x.scan].todo \cup scan[x.scan].marked
  BY <1>1, <1>4
<1>5. CASE /\ scan[x.scan].pc = "flag" /\ scan'[x.scan].pc = "decay"
           /\ scan'[x.scan].known = scan[x.scan].known /\ scan'[x.scan].trigger = "time_decay"
  BY <1>1, <1>5
<1> QED
  BY <1>1, <1>2, <1>3, <1>4, <1>5 DEF KeepsSignals

\* Signals stay coherent when none is added and scans are not set back.
LEMMA SignalsRest ==
  ASSUME SyncInv, UNCHANGED signal, doubtful \subseteq doubtful',
         \A s \in Scans : KeepsSignals(scan[s], scan'[s])
  PROVE  SignalsKnown' /\ OneSignalPerScan'
<1>1. OneSignalPerScan'
  BY DEF SyncInv, OneSignalPerScan
<1>2. ASSUME NEW x \in signal PROVE SignalOK(x)'
  <2>1. SignalOK(x)
    BY DEF SyncInv, SignalsKnown
  <2>2. x.by = "scan" => x.scan \in Scans
    BY <2>1 DEF SignalOK
  <2> QED
    BY <2>1, <2>2, SignalRests
<1> QED
  BY <1>1, <1>2 DEF SignalsKnown

\* A change of statuses keeps who signalled what.
LEMMA StatusesChange ==
  ASSUME SyncInv, UNCHANGED <<scan, doubtful>>, NEW f,   \* what becomes of a signal
         \A y \in signal' : y.by = "scan" =>
           \E x \in signal : /\ x.doc = y.doc /\ x.scan = y.scan /\ x.by = y.by
                             /\ x.trigger = y.trigger /\ y = f[x]
  PROVE  SignalsKnown' /\ OneSignalPerScan'
<1>1. ASSUME NEW y \in signal', y.by = "scan" PROVE SignalOK(y)'
  <2>1. PICK x \in signal : /\ x.doc = y.doc /\ x.scan = y.scan /\ x.by = y.by
                            /\ x.trigger = y.trigger
    BY <1>1
  <2>2. SignalOK(x)
    BY DEF SyncInv, SignalsKnown
  <2>3. SignalOK(y)
    BY <1>1, <2>1, <2>2 DEF SignalOK
  <2> QED
    BY <2>3 DEF SignalOK, At, Flagging
<1>2. SignalsKnown'
  BY <1>1 DEF SignalsKnown, SignalOK
<1>3. OneSignalPerScan'
  <2> SUFFICES ASSUME NEW y \in signal', NEW z \in signal', y.by = "scan", z.by = "scan",
                      y.scan = z.scan, y.doc = z.doc
               PROVE  y = z \/ (y.trigger # z.trigger /\ <<y.scan, y.doc>> \in doubtful)
    BY DEF OneSignalPerScan
  <2>1. PICK u \in signal : /\ u.doc = y.doc /\ u.scan = y.scan /\ u.by = y.by
                            /\ u.trigger = y.trigger /\ y = f[u]
    OBVIOUS
  <2>2. PICK v \in signal : /\ v.doc = z.doc /\ v.scan = z.scan /\ v.by = z.by
                            /\ v.trigger = z.trigger /\ z = f[v]
    OBVIOUS
  <2> QED
    BY <2>1, <2>2 DEF SyncInv, OneSignalPerScan
<1> QED
  BY <1>2, <1>3

LEMMA InitInv == SyncInit => SyncInv
<1> SUFFICES ASSUME SyncInit PROVE SyncInv
  OBVIOUS
<1>1. /\ NewScan \in Scan /\ NewScan.pc = "new" /\ NewScan.trigger = "code_change"
      /\ NewScan.todo = {} /\ NewScan.marked = {}
  BY DEF NewScan, Scan
<1>2. SyncTypeOK
  BY <1>1 DEF SyncInit, SyncTypeOK, Scan
<1>3. \A s \in Scans : ScanOK(s)
  BY <1>1 DEF SyncInit, ScanOK, PhaseOK, WindowOK, ReadOK, FlagOK, At, Scanning, Flagging
<1> QED
  BY <1>2, <1>3 DEF SyncInit, SyncInv, ChangesAreFlagged, SignalsKnown, OneSignalPerScan, Landed

-----------------------------------------------------------------------------
(* Steps of scans.  A lemma each for what a step of scan s must show.      *)

\* Only scan s moves.
Moves(s, new) ==
  /\ scan' = [scan EXCEPT ![s] = new]
  /\ UNCHANGED <<clock, date, lastSync>>
  /\ overtaken \subseteq overtaken'

LEMMA OneScanMoves ==
  ASSUME SyncInv, NEW s \in Scans, NEW new \in Scan, Moves(s, new), FlagsStay,
         signal' \subseteq Signal, doc' \in [Docs -> [stale : BOOLEAN, updated : Nat]],
         doubtful' \subseteq Scans \X Docs, ScanOK(s)', SignalsKnown', OneSignalPerScan'
  PROVE  SyncInv'
<1>1. SyncTypeOK'
  BY DEF Moves, SyncInv, SyncTypeOK
<1>2. \A u \in Scans : ScanOK(u)'
  <2> SUFFICES ASSUME NEW u \in Scans, u # s PROVE ScanOK(u)'
    OBVIOUS
  <2>1. scan'[u] = scan[u] /\ lastSync \in Nat /\ clock \in Nat
    BY DEF Moves, SyncInv, SyncTypeOK
  <2> QED
    BY <2>1, ScanRests DEF Moves
<1>3. ChangesAreFlagged'
  BY NothingUnflagged DEF Moves
<1> QED
  BY <1>1, <1>2, <1>3 DEF SyncInv

\* A move that leaves documents and signals alone.
LEMMA QuietMove ==
  ASSUME SyncInv, NEW s \in Scans, NEW new \in Scan, Moves(s, new), UNCHANGED <<doc, signal>>,
         logged \subseteq logged', doubtful \subseteq doubtful', doubtful' \subseteq Scans \X Docs,
         ScanOK(s)', KeepsSignals(scan[s], new)
  PROVE  SyncInv'
<1>1. FlagsStay
  BY RecordsStay DEF Moves, SyncInv
<1>2. scan'[s] = new /\ \A u \in Scans \ {s} : scan'[u] = scan[u]
  BY DEF Moves, SyncInv, SyncTypeOK
<1>3. \A u \in Scans : KeepsSignals(scan[u], scan'[u])
  BY <1>2 DEF KeepsSignals
<1>4. SignalsKnown' /\ OneSignalPerScan'
  BY <1>3, SignalsRest
<1> QED
  BY <1>1, <1>4, OneScanMoves DEF SyncInv, SyncTypeOK

\* Signals, documents and the log change outside scans.
LEMMA ScansRest ==
  ASSUME SyncInv, UNCHANGED <<clock, date, lastSync, overtaken, scan, doubtful>>, FlagsStay,
         signal' \subseteq Signal, doc' \in [Docs -> [stale : BOOLEAN, updated : Nat]],
         SignalsKnown', OneSignalPerScan'
  PROVE  SyncInv'
<1>1. SyncTypeOK' /\ lastSync \in Nat /\ clock \in Nat
  BY DEF SyncInv, SyncTypeOK
<1>2. \A s \in Scans : ScanOK(s)'
  BY <1>1, ScanRests
<1>3. ChangesAreFlagged'
  BY NothingUnflagged
<1> QED
  BY <1>1, <1>2, <1>3 DEF SyncInv

LEMMA OpenDocsAreDocs == SyncTypeOK => OpenDocs \subseteq Docs
  BY DEF SyncTypeOK, OpenDocs, Signal

\* A first scan leaves what is older than its window to the history.
LEMMA StartOK ==
  ASSUME SyncInv, NEW s \in Scans, Start(s)
  PROVE  SyncInv'
<1> DEFINE since == IF lastSync = 0 THEN clock - FirstWindow ELSE lastSync
           new == [scan[s] EXCEPT !.pc = "started", !.since = since]
<1>1. /\ scan[s] \in Scan /\ ScanOK(s) /\ scan[s].pc = "new"
      /\ lastSync \in Nat /\ clock \in Nat /\ lastSync <= clock
      /\ \A c \in Landed : date[c] \in Nat
  BY DEF Start, At, SyncInv, SyncTypeOK, Landed
<1>2. /\ overtaken \subseteq overtaken'
      /\ lastSync = 0 => overtaken' = overtaken \cup {c \in Landed : date[c] <= since}
  BY DEF Start
<1>3. since \in Int /\ since <= clock /\ (lastSync # 0 => since = lastSync)
  BY <1>1, RepoSyncAssumption
<1>4. Moves(s, new) /\ UNCHANGED <<doc, signal, logged, doubtful>>
  BY <1>2 DEF Start, Moves
<1> HIDE DEF since
<1>5. /\ new \in Scan /\ new.pc = "started" /\ new.since = since
      /\ new.todo = scan[s].todo /\ new.marked = scan[s].marked /\ new.trigger = scan[s].trigger
  BY <1>1, <1>3 DEF Scan
<1> HIDE DEF new
<1>6. scan'[s] = new
  BY <1>4 DEF Moves, SyncInv, SyncTypeOK
<1>7. WindowOK(s)'
  <2> SUFFICES ASSUME NEW c \in Landed \ overtaken'
               PROVE  date[c] > since \/ date[c] <= lastSync
    BY <1>3, <1>4, <1>5, <1>6 DEF WindowOK, Moves, Landed
  <2> QED
    BY <1>1, <1>2, <1>3
<1>8. ScanOK(s)'
  BY <1>1, <1>5, <1>6, <1>7 DEF ScanOK, PhaseOK, ReadOK, FlagOK, Scanning, Flagging, At
<1> QED
  BY <1>1, <1>4, <1>5, <1>8, QuietMove DEF KeepsSignals, SyncInv, SyncTypeOK

\* East of UTC the window that git is given begins no later than it should.
LEMMA RecentChangesOK ==
  ASSUME SyncInv, NEW s \in Scans, RecentChanges(s)
  PROVE  SyncInv'
<1> DEFINE new == [scan[s] EXCEPT !.pc = "read", !.since = 0, !.read = InWindow(s)]
<1>1. /\ scan[s] \in Scan /\ ScanOK(s) /\ scan[s].pc = "started" /\ InWindow(s) \subseteq Commits
      /\ \A c \in Landed : date[c] \in Nat
  BY DEF RecentChanges, At, SyncInv, SyncTypeOK, InWindow, Landed
<1>2. /\ new \in Scan /\ new.pc = "read" /\ new.read = InWindow(s)
      /\ new.todo = scan[s].todo /\ new.marked = scan[s].marked /\ new.trigger = scan[s].trigger
  <2>1. PICK zero \in Int : zero = 0
    OBVIOUS
  <2>2. new = [scan[s] EXCEPT !.pc = "read", !.since = zero, !.read = InWindow(s)]
    BY <2>1
  <2> QED
    BY <1>1, <2>2 DEF Scan
<1>3. Moves(s, new) /\ UNCHANGED <<doc, signal, logged, doubtful, overtaken>>
  BY DEF RecentChanges, Moves
<1> HIDE DEF new
<1>4. scan'[s] = new
  BY <1>3 DEF Moves, SyncInv, SyncTypeOK
<1>5. ASSUME ZoneOffset >= 0, NEW c \in Landed \ overtaken
      PROVE  c \in InWindow(s) \/ date[c] <= lastSync
  <2>1. date[c] > scan[s].since \/ date[c] <= lastSync
    BY <1>1 DEF ScanOK, WindowOK, At
  <2>2. date[c] > scan[s].since => date[c] > scan[s].since - ZoneOffset
    BY <1>1, <1>5, RepoSyncAssumption DEF Scan
  <2> QED
    BY <2>1, <2>2 DEF InWindow
<1>6. ReadOK(s)'
  BY <1>2, <1>3, <1>4, <1>5 DEF ReadOK, Moves, InWindow, Landed
<1>7. ScanOK(s)'
  BY <1>1, <1>2, <1>4, <1>6 DEF ScanOK, PhaseOK, WindowOK, FlagOK, Flagging, At
<1> QED
  BY <1>1, <1>2, <1>3, <1>7, QuietMove DEF KeepsSignals, SyncInv, SyncTypeOK

\* A scan that ends, however it does, knows nothing any more.
LEMMA EndOK ==
  ASSUME SyncInv, NEW s \in Scans, NEW pc \in {"failed", "stamped", "completed"}
  PROVE  LET new == [NewScan EXCEPT !.pc = pc]
         IN  new \in Scan /\ (scan'[s] = new => ScanOK(s)') /\ \A old : KeepsSignals(old, new)
<1> DEFINE new == [NewScan EXCEPT !.pc = pc]
<1>1. /\ new \in Scan /\ new.pc = pc /\ new.todo = {} /\ new.marked = {}
  BY DEF NewScan, Scan
<1> HIDE DEF new
<1>2. scan'[s] = new => ScanOK(s)'
  BY <1>1 DEF ScanOK, PhaseOK, WindowOK, ReadOK, FlagOK, Scanning, Flagging, At
<1>3. \A old : KeepsSignals(old, new)
  BY <1>1 DEF KeepsSignals
<1> QED
  BY <1>1, <1>2, <1>3 DEF new

LEMMA ScanFailsOK ==
  ASSUME SyncInv, NEW s \in Scans, ScanFails(s)
  PROVE  SyncInv'
<1> DEFINE new == [NewScan EXCEPT !.pc = "failed"]
<1>1. Moves(s, new) /\ UNCHANGED <<doc, signal, logged, doubtful>>
  BY DEF ScanFails, Moves
<1>2. new \in Scan /\ (scan'[s] = new => ScanOK(s)') /\ KeepsSignals(scan[s], new)
  BY EndOK
<1> HIDE DEF new
<1>3. scan'[s] = new
  BY <1>1, <1>2 DEF Moves, SyncInv, SyncTypeOK
<1> QED
  BY <1>1, <1>2, <1>3, QuietMove DEF SyncInv, SyncTypeOK

\* The documents of all commits read are to do, or logged.
LEMMA MatchOK ==
  ASSUME SyncInv, NEW s \in Scans, Match(s)
  PROVE  SyncInv'
<1>1. PICK known \in {OpenDocs, {}}, lost \in SUBSET Changed(s) :
        /\ scan' = [scan EXCEPT ![s].pc = "flag", ![s].known = known, ![s].todo = Changed(s) \ lost]
        /\ logged' = logged \cup lost
  BY DEF Match
<1> DEFINE new == [scan[s] EXCEPT !.pc = "flag", !.known = known, !.todo = Changed(s) \ lost]
<1>2. scan[s] \in Scan /\ scan[s].pc = "read" /\ ScanOK(s) /\ scan[s].read \subseteq Landed
  BY DEF Match, At, SyncInv, SyncTypeOK, ScanOK, ReadOK, Scanning
<1>3. \A c \in scan[s].read : Covers(c) \subseteq Changed(s)
  BY DEF Covers, Changed
<1>4. Changed(s) \subseteq Docs
  BY <1>2, RepoSyncAssumption DEF Changed, Scan
<1>5. /\ new \in Scan /\ new.pc = "flag" /\ new.read = scan[s].read
      /\ new.todo = Changed(s) \ lost /\ new.marked = scan[s].marked
      /\ new.trigger = scan[s].trigger
  BY <1>2, <1>4, OpenDocsAreDocs DEF SyncInv, Scan
<1>6. Moves(s, new) /\ UNCHANGED <<doc, signal, doubtful, overtaken>> /\ logged \subseteq logged'
  BY <1>1 DEF Match, Moves
<1> HIDE DEF new
<1>7. scan'[s] = new
  BY <1>6 DEF Moves, SyncInv, SyncTypeOK
<1>8. PhaseOK(s)' /\ WindowOK(s)'
  BY <1>2, <1>5, <1>7 DEF ScanOK, PhaseOK, WindowOK, At
<1>9. ReadOK(s)'
  BY <1>2, <1>5, <1>6, <1>7 DEF ScanOK, ReadOK, Moves, Scanning, Landed
<1>10. ASSUME NEW c \in scan'[s].read, NEW d \in Covers(c)
       PROVE  Flagged(c, d)' \/ (At(s, "flag")' /\ d \in scan'[s].todo)
  BY <1>1, <1>3, <1>5, <1>7, <1>10 DEF Flagged, At
<1>11. ScanOK(s)'
  BY <1>8, <1>9, <1>10 DEF ScanOK, FlagOK, Covers
<1> QED
  BY <1>2, <1>5, <1>6, <1>11, QuietMove DEF KeepsSignals, SyncInv, SyncTypeOK

LEMMA MarkStaleOK ==
  ASSUME SyncInv, NEW s \in Scans, NEW d \in Docs, MarkStale(s, d)
  PROVE  SyncInv'
<1> DEFINE new == [scan[s] EXCEPT !.todo = @ \ {d}, !.marked = @ \cup {d}]
<1>1. /\ scan[s] \in Scan /\ ScanOK(s) /\ scan[s].pc \in {"flag", "decay"} /\ d \in scan[s].todo
      /\ new \in Scan /\ new.pc = scan[s].pc /\ new.read = scan[s].read
      /\ new.todo = scan[s].todo \ {d} /\ new.marked = scan[s].marked \cup {d}
      /\ new.known = scan[s].known /\ new.trigger = scan[s].trigger
  BY DEF MarkStale, SyncInv, SyncTypeOK, Scan, Flagging
<1>2. Moves(s, new) /\ UNCHANGED <<signal, doubtful, overtaken>>
  BY DEF MarkStale, Moves
<1>3. \/ doc' = [doc EXCEPT ![d].stale = TRUE] /\ UNCHANGED logged
      \/ logged' = logged \cup {d} /\ UNCHANGED doc
  BY DEF MarkStale
<1> HIDE DEF new
<1>4. scan'[s] = new /\ \A u \in Scans \ {s} : scan'[u] = scan[u]
  BY <1>2 DEF Moves, SyncInv, SyncTypeOK
<1>5. doc' \in [Docs -> [stale : BOOLEAN, updated : Nat]]
  BY <1>3 DEF SyncInv, SyncTypeOK
<1>6. FlagsStay
  <2>1. \A e \in Docs : /\ doc[e].stale => doc'[e].stale
                        /\ doc'[e].updated = doc[e].updated
    BY <1>3 DEF SyncInv, SyncTypeOK
  <2> QED
    BY <1>2, <1>3, <2>1, RecordsStay DEF SyncInv, Moves
<1>7. \A c \in Commits : Flagged(c, d)'
  BY <1>3 DEF Flagged, SyncInv, SyncTypeOK
<1>8. ASSUME NEW c \in scan'[s].read, NEW e \in Covers(c)
      PROVE  Flagged(c, e)' \/ (At(s, "flag")' /\ e \in scan'[s].todo)
  <2>1. c \in scan[s].read /\ c \in Landed /\ c \in Commits /\ e \in Docs
    BY <1>1, <1>4, CoversDocs DEF ScanOK, ReadOK, Scanning, Landed
  <2>2. Flagged(c, e) \/ (At(s, "flag") /\ e \in scan[s].todo)
    BY <1>1, <2>1 DEF ScanOK, FlagOK, Flagging
  <2> QED
    BY <1>1, <1>4, <1>6, <1>7, <2>1, <2>2 DEF FlagsStay, At
<1>9. ScanOK(s)'
  <2>1. PhaseOK(s)' /\ WindowOK(s)'
    BY <1>1, <1>4 DEF ScanOK, PhaseOK, WindowOK, At
  <2>2. ReadOK(s)'
    BY <1>1, <1>2, <1>4 DEF ScanOK, ReadOK, Moves, Scanning, Landed
  <2>3. FlagOK(s)'
    BY <1>8 DEF FlagOK, Covers
  <2> QED
    BY <2>1, <2>2, <2>3 DEF ScanOK
<1>10. SignalsKnown' /\ OneSignalPerScan'
  <2>1. KeepsSignals(scan[s], new)
    BY <1>1 DEF KeepsSignals
  <2>2. \A u \in Scans : KeepsSignals(scan[u], scan'[u])
    BY <1>4, <2>1 DEF KeepsSignals
  <2> QED
    BY <1>2, <2>2, SignalsRest
<1> QED
  BY <1>1, <1>2, <1>5, <1>6, <1>9, <1>10, OneScanMoves DEF SyncInv, SyncTypeOK

\* A signal is raised for a document that was not known.  An earlier one of this scan
\* for the document is then in doubt, and of the other trigger.
LEMMA CreateSignalOK ==
  ASSUME SyncInv, NEW s \in Scans, NEW d \in Docs, CreateSignal(s, d)
  PROVE  SyncInv'
<1>0. PICK x : x = NewSignal(s, d)
  OBVIOUS
<1> DEFINE told == [scan[s] EXCEPT !.marked = @ \ {d}, !.known = @ \cup {d}]
           silent == [scan[s] EXCEPT !.marked = @ \ {d}]
<1>1. /\ scan[s] \in Scan /\ ScanOK(s) /\ scan[s].pc \in {"flag", "decay"} /\ d \in scan[s].marked
      /\ UNCHANGED <<clock, date, lastSync, overtaken, doc, logged>>
  BY DEF CreateSignal, SyncInv, SyncTypeOK, Flagging
<1>2. /\ told \in Scan /\ silent \in Scan
      /\ \A new \in {told, silent} :
           /\ new.pc = scan[s].pc /\ new.read = scan[s].read /\ new.trigger = scan[s].trigger
           /\ new.todo = scan[s].todo /\ new.marked = scan[s].marked \ {d}
      /\ told.known = scan[s].known \cup {d} /\ silent.known = scan[s].known
      /\ x \in Signal /\ x.doc = d /\ x.scan = s /\ x.by = "scan" /\ x.trigger = scan[s].trigger
  BY <1>0, <1>1 DEF Scan, Signal, NewSignal
<1>3. \/ UNCHANGED <<signal, doubtful>> /\ scan' = [scan EXCEPT ![s] = silent]
      \/ /\ d \notin scan[s].known /\ signal' = signal \cup {x} /\ UNCHANGED doubtful
         /\ scan' = [scan EXCEPT ![s] = told]
      \/ /\ d \notin scan[s].known /\ signal' \in {signal, signal \cup {x}}
         /\ doubtful' = doubtful \cup {<<s, d>>} /\ scan' = [scan EXCEPT ![s] = silent]
  BY <1>0 DEF CreateSignal
<1> HIDE DEF told, silent
<1>4. FlagsStay
  BY <1>1, RecordsStay DEF SyncInv
<1>5. PICK new \in {told, silent} :
        /\ scan' = [scan EXCEPT ![s] = new]
        /\ scan'[s] = new /\ \A u \in Scans \ {s} : scan'[u] = scan[u]
  BY <1>3 DEF SyncInv, SyncTypeOK
<1>6. new \in Scan /\ Moves(s, new) /\ scan[s].known \subseteq new.known
  BY <1>1, <1>2, <1>5 DEF Moves
<1>7. ScanOK(s)'
  <2>1. PhaseOK(s)' /\ WindowOK(s)'
    BY <1>1, <1>2, <1>5 DEF ScanOK, PhaseOK, WindowOK, At
  <2>2. ReadOK(s)'
    BY <1>1, <1>2, <1>5 DEF ScanOK, ReadOK, Scanning, Landed
  <2>3. FlagOK(s)'
    BY <1>1, <1>2, <1>5 DEF ScanOK, FlagOK, Flagging, Covers, Flagged, At
  <2> QED
    BY <2>1, <2>2, <2>3 DEF ScanOK
<1>8. doubtful \subseteq doubtful' /\ doubtful' \subseteq Scans \X Docs /\ signal' \subseteq Signal
  BY <1>2, <1>3 DEF SyncInv, SyncTypeOK
<1>9. ASSUME NEW y \in signal PROVE SignalOK(y)'
  <2>1. SignalOK(y)
    BY DEF SyncInv, SignalsKnown
  <2>2. CASE y.scan = s
    BY <1>2, <1>5, <1>6, <1>8, <2>1, <2>2 DEF SignalOK, Flagging, At
  <2>3. CASE y.scan # s
    <3>1. y.by = "scan" => scan'[y.scan] = scan[y.scan]
      BY <1>5, <2>1, <2>3 DEF SignalOK
    <3> QED
      BY <1>8, <2>1, <3>1, SignalRests DEF KeepsSignals
  <2> QED
    BY <2>2, <2>3
<1>10. ASSUME d \notin scan[s].known, signal' = signal \cup {x},
              d \in new.known \/ <<s, d>> \in doubtful'
       PROVE  SyncInv'
  <2>1. ASSUME NEW y \in signal, y.by = "scan", y.scan = s, y.doc = d
        PROVE  y.trigger # x.trigger /\ <<s, d>> \in doubtful
    <3>1. SignalOK(y)
      BY DEF SyncInv, SignalsKnown
    <3> QED
      BY <1>1, <1>2, <1>10, <2>1, <3>1 DEF SignalOK, Flagging
  <2>2. OneSignalPerScan'
    <3> SUFFICES ASSUME NEW y \in signal', NEW z \in signal', y.by = "scan", z.by = "scan",
                        y.scan = z.scan, y.doc = z.doc, y # z
                 PROVE  y.trigger # z.trigger /\ <<y.scan, y.doc>> \in doubtful'
      BY DEF OneSignalPerScan
    <3>1. CASE y \in signal /\ z \in signal
      BY <1>8, <3>1 DEF SyncInv, OneSignalPerScan
    <3>2. CASE y = x /\ z \in signal
      BY <1>2, <1>8, <2>1, <3>2
    <3>3. CASE y \in signal /\ z = x
      BY <1>2, <1>8, <2>1, <3>3
    <3> QED
      BY <1>10, <3>1, <3>2, <3>3
  <2>3. SignalOK(x)'
    <3>1. scan[s].pc = "flag" => x.trigger = "code_change"
      BY <1>1, <1>2 DEF ScanOK, PhaseOK
    <3>2. d \notin new.todo /\ d \notin new.marked
      BY <1>1, <1>2 DEF ScanOK, PhaseOK
    <3>3. /\ scan'[s] = new /\ new.pc = scan[s].pc /\ new.trigger = scan[s].trigger
          /\ x.doc = d /\ x.scan = s /\ x.trigger = scan[s].trigger
      BY <1>2, <1>5
    <3> QED
      BY <1>1, <1>10, <3>1, <3>2, <3>3 DEF SignalOK, Flagging, At
  <2>4. SignalsKnown'
    <3> SUFFICES ASSUME NEW y \in signal' PROVE SignalOK(y)'
      BY DEF SignalsKnown
    <3>1. CASE y \in signal
      BY <1>9, <3>1
    <3>2. CASE y = x
      BY <2>3, <3>2 DEF SignalOK, Flagging, At
    <3> QED
      BY <1>10, <3>1, <3>2
  <2> QED
    BY <1>1, <1>4, <1>6, <1>7, <1>8, <2>2, <2>4, OneScanMoves DEF SyncInv, SyncTypeOK
<1>11. CASE UNCHANGED signal
  <2>1. SignalsKnown' /\ OneSignalPerScan'
    BY <1>8, <1>9, <1>11 DEF SignalsKnown, SyncInv, OneSignalPerScan
  <2> QED
    BY <1>1, <1>4, <1>6, <1>7, <1>8, <2>1, OneScanMoves DEF SyncInv, SyncTypeOK
<1>12. CASE /\ d \notin scan[s].known /\ signal' = signal \cup {x}
            /\ scan' = [scan EXCEPT ![s] = told]
  <2>1. new = told
    BY <1>5, <1>12 DEF SyncInv, SyncTypeOK
  <2> QED
    BY <1>2, <1>10, <1>12, <2>1
<1>13. CASE /\ d \notin scan[s].known /\ signal' = signal \cup {x}
            /\ doubtful' = doubtful \cup {<<s, d>>}
  BY <1>10, <1>13
<1> QED
  BY <1>3, <1>11, <1>12, <1>13

LEMMA FindTimeDecayedOK ==
  ASSUME SyncInv, NEW s \in Scans, FindTimeDecayed(s)
  PROVE  SyncInv'
<1>1. PICK old \in SUBSET Docs :
        scan' = [scan EXCEPT ![s].pc = "decay", ![s].trigger = "time_decay", ![s].todo = old]
  BY DEF FindTimeDecayed, Decayed
<1> DEFINE new == [scan[s] EXCEPT !.pc = "decay", !.trigger = "time_decay", !.todo = old]
<1>2. /\ scan[s] \in Scan /\ ScanOK(s) /\ scan[s].pc = "flag"
      /\ scan[s].todo = {} /\ scan[s].marked = {}
  BY DEF FindTimeDecayed, At, PhaseDone, SyncInv, SyncTypeOK
<1>3. /\ new \in Scan /\ new.pc = "decay" /\ new.trigger = "time_decay"
      /\ new.read = scan[s].read /\ new.known = scan[s].known /\ new.marked = {}
  BY <1>2 DEF Scan
<1>4. Moves(s, new) /\ UNCHANGED <<doc, signal, logged, doubtful, overtaken>>
  BY <1>1 DEF FindTimeDecayed, Moves
<1> HIDE DEF new
<1>5. scan'[s] = new
  BY <1>4 DEF Moves, SyncInv, SyncTypeOK
<1>6. PhaseOK(s)' /\ WindowOK(s)'
  BY <1>3, <1>5 DEF PhaseOK, WindowOK, At
<1>7. ReadOK(s)'
  BY <1>2, <1>3, <1>4, <1>5 DEF ScanOK, ReadOK, Moves, Scanning, Landed
<1>8. FlagOK(s)'
  BY <1>2, <1>3, <1>4, <1>5 DEF ScanOK, FlagOK, Moves, Flagging, Covers, Flagged, At
<1>9. ScanOK(s)'
  BY <1>6, <1>7, <1>8 DEF ScanOK
<1> QED
  BY <1>2, <1>3, <1>4, <1>9, QuietMove DEF KeepsSignals, SyncInv, SyncTypeOK

\* Everything since the last scan was read and is flagged, so the window may move.
LEMMA StampOK ==
  ASSUME SyncInv, NEW s \in Scans, UpdateLastSyncAt(s)
  PROVE  SyncInv'
<1> DEFINE new == [NewScan EXCEPT !.pc = "stamped"]
<1>1. /\ ScanOK(s) /\ Scanning(s) /\ Flagging(s) /\ ~ At(s, "flag")
      /\ scan' = [scan EXCEPT ![s] = new]
      /\ lastSync' \in {clock, lastSync}
      /\ UNCHANGED <<clock, date, doc, signal, logged, doubtful, overtaken>>
  BY DEF UpdateLastSyncAt, At, Scanning, Flagging, SyncInv
<1>2. /\ lastSync \in Nat /\ clock \in Nat /\ lastSync' \in 0 .. clock /\ lastSync <= lastSync'
      /\ \A c \in Commits : date[c] \in Nat
  BY <1>1 DEF SyncInv, SyncTypeOK
<1>3. new \in Scan /\ (scan'[s] = new => ScanOK(s)') /\ \A old : KeepsSignals(old, new)
  BY EndOK
<1> HIDE DEF new
<1>4. scan'[s] = new /\ \A u \in Scans \ {s} : scan'[u] = scan[u]
  BY <1>1 DEF SyncInv, SyncTypeOK
<1>5. SyncTypeOK'
  BY <1>1, <1>2, <1>3 DEF SyncInv, SyncTypeOK
<1>6. FlagsStay
  BY <1>1, RecordsStay DEF SyncInv
<1>7. ASSUME NEW u \in Scans PROVE ScanOK(u)'
  <2>1. CASE u = s
    BY <1>3, <1>4, <2>1
  <2>2. CASE u # s
    BY <1>1, <1>2, <1>4, <1>6, <2>2, ScanRests
  <2> QED
    BY <2>1, <2>2
<1>8. ASSUME ZoneOffset >= 0, NEW c \in Landed \ overtaken, NEW d \in Covers(c)
      PROVE  Flagged(c, d)
  <2>1. CASE c \in scan[s].read
    BY <1>1, <2>1 DEF ScanOK, FlagOK
  <2>2. CASE ~ (date[c] > lastSync)
    BY <1>8, <2>2 DEF SyncInv, ChangesAreFlagged
  <2>3. c \in scan[s].read \/ ~ (date[c] > lastSync)
    BY <1>1, <1>2, <1>8 DEF ScanOK, ReadOK, Landed
  <2> QED
    BY <2>1, <2>2, <2>3
<1>9. ChangesAreFlagged'
  BY <1>1, <1>8 DEF ChangesAreFlagged, Landed, Covers, Flagged
<1>10. SignalsKnown' /\ OneSignalPerScan'
  <2>1. \A u \in Scans : KeepsSignals(scan[u], scan'[u])
    BY <1>3, <1>4 DEF KeepsSignals
  <2> QED
    BY <1>1, <2>1, SignalsRest
<1> QED
  BY <1>5, <1>7, <1>9, <1>10 DEF SyncInv

LEMMA CompleteOK ==
  ASSUME SyncInv, NEW s \in Scans, Complete(s)
  PROVE  SyncInv'
<1> DEFINE new == [scan[s] EXCEPT !.pc = "completed"]
<1>1. /\ scan[s] \in Scan /\ ScanOK(s) /\ new \in Scan /\ new.pc = "completed"
      /\ new.todo = scan[s].todo /\ new.marked = scan[s].marked
  BY DEF SyncInv, SyncTypeOK, Scan
<1>2. Moves(s, new) /\ UNCHANGED <<doc, signal, logged, doubtful>>
  BY DEF Complete, Moves
<1> HIDE DEF new
<1>3. scan'[s] = new
  BY <1>1, <1>2 DEF Moves, SyncInv, SyncTypeOK
<1>4. ScanOK(s)'
  BY <1>1, <1>3 DEF ScanOK, PhaseOK, WindowOK, ReadOK, FlagOK, Scanning, Flagging, At
<1> QED
  BY <1>1, <1>2, <1>4, QuietMove DEF KeepsSignals, SyncInv, SyncTypeOK

LEMMA ServerRestartsOK ==
  ASSUME SyncInv, ServerRestarts
  PROVE  SyncInv'
<1> DEFINE over == [NewScan EXCEPT !.pc = "failed"]
<1>1. /\ UNCHANGED <<clock, date, lastSync, doc, signal, logged, doubtful, overtaken>>
      /\ scan' = [s \in Scans |-> IF scan[s].pc \in {"new", "completed", "failed"} THEN scan[s]
                                  ELSE over]
  BY DEF ServerRestarts
<1>2. \A s \in Scans : /\ over \in Scan /\ (scan'[s] = over => ScanOK(s)')
                       /\ KeepsSignals(scan[s], over)
  BY EndOK
<1> HIDE DEF over
<1>3. FlagsStay /\ lastSync \in Nat /\ clock \in Nat
  BY <1>1, RecordsStay DEF SyncInv, SyncTypeOK
<1>4. SyncTypeOK'
  BY <1>1, <1>2 DEF SyncInv, SyncTypeOK
<1>5. ASSUME NEW s \in Scans PROVE ScanOK(s)'
  <2>1. CASE scan'[s] = scan[s]
    BY <1>1, <1>3, <2>1, ScanRests
  <2>2. CASE scan'[s] = over
    BY <1>2, <2>2
  <2> QED
    BY <1>1, <2>1, <2>2
<1>6. ChangesAreFlagged'
  BY <1>1, <1>3, NothingUnflagged
<1>7. SignalsKnown' /\ OneSignalPerScan'
  <2>1. \A s \in Scans : KeepsSignals(scan[s], scan'[s])
    BY <1>1, <1>2 DEF KeepsSignals
  <2> QED
    BY <1>1, <2>1, SignalsRest
<1> QED
  BY <1>4, <1>5, <1>6, <1>7 DEF SyncInv

-----------------------------------------------------------------------------
(* Steps of the repository and of users                                    *)

LEMMA TimePassesOK ==
  ASSUME SyncInv, TimePasses
  PROVE  SyncInv'
<1>1. clock' = clock + 1 /\ UNCHANGED <<date, lastSync, doc, signal, scan, logged, doubtful, overtaken>>
  BY DEF TimePasses
<1>2. /\ clock \in Nat \ {0} /\ clock' \in Nat \ {0} /\ clock <= clock' /\ lastSync \in Nat
      /\ date \in [Commits -> 0 .. clock'] /\ lastSync \in 0 .. clock'
  BY <1>1 DEF SyncInv, SyncTypeOK
<1>3. SyncTypeOK'
  BY <1>1, <1>2 DEF SyncInv, SyncTypeOK
<1>4. FlagsStay
  BY <1>1 DEF FlagsStay, Flagged
<1>5. ASSUME NEW s \in Scans PROVE ScanOK(s)'
  BY <1>1, <1>2, <1>4, ScanRests
<1>6. ChangesAreFlagged'
  BY <1>1, <1>4, NothingUnflagged
<1>7. SignalsKnown' /\ OneSignalPerScan'
  BY <1>1, SignalsRest DEF KeepsSignals
<1> QED
  BY <1>3, <1>5, <1>6, <1>7 DEF SyncInv

\* A commit lands and leaves what is known of the others alone.
LEMMA LandsOK ==
  ASSUME SyncInv, NEW c \in Commits, date[c] = 0, NEW t \in 1 .. clock',
         clock' \in Nat \ {0}, clock <= clock', date' = [date EXCEPT ![c] = t],
         overtaken \subseteq overtaken', UNCHANGED <<lastSync, doc, signal, scan, logged, doubtful>>,
         c \in overtaken' \/ (t > clock /\ \A s \in Scans : ~ Scanning(s))
  PROVE  SyncInv'
<1>1. /\ clock \in Nat /\ lastSync \in Nat /\ lastSync <= clock
      /\ date \in [Commits -> 0 .. clock] /\ scan \in [Scans -> Scan]
  BY DEF SyncInv, SyncTypeOK
<1>2. /\ Landed' = Landed \cup {c} /\ c \notin Landed
      /\ \A e \in Landed : date'[e] = date[e]
      /\ date'[c] = t
  BY <1>1 DEF Landed
<1>3. SyncTypeOK'
  <2>1. date' \in [Commits -> 0 .. clock'] /\ lastSync \in 0 .. clock'
    BY <1>1
  <2> QED
    BY <2>1 DEF SyncInv, SyncTypeOK
<1>4. \A e \in Landed, d \in Docs : Flagged(e, d) => Flagged(e, d)'
  BY <1>2 DEF Flagged
<1>5. \A e \in Landed : Covers(e) \subseteq Docs /\ Covers(e)' = Covers(e)
  BY CoversDocs DEF Landed, Covers
<1>6. \A e \in (Landed \ overtaken)' : e \in Landed \ overtaken
                                      \/ (e = c /\ t > clock /\ \A s \in Scans : ~ Scanning(s))
  BY <1>2
<1>7. ASSUME NEW s \in Scans PROVE ScanOK(s)'
  <2>1. ScanOK(s) /\ scan[s].since \in Int
    BY <1>1 DEF SyncInv, Scan
  <2>2. PhaseOK(s)'
    BY <2>1 DEF ScanOK, PhaseOK, At
  <2>3. WindowOK(s)'
    BY <1>1, <1>2, <1>6, <2>1 DEF ScanOK, WindowOK, At
  <2>4. ReadOK(s)'
    BY <1>2, <1>6, <2>1 DEF ScanOK, ReadOK, Scanning
  <2>5. FlagOK(s)'
    BY <1>4, <1>5, <2>1 DEF ScanOK, ReadOK, FlagOK, Scanning, Flagging, At
  <2> QED
    BY <2>2, <2>3, <2>4, <2>5 DEF ScanOK
<1>8. ChangesAreFlagged'
  BY <1>1, <1>2, <1>4, <1>5, <1>6 DEF SyncInv, ChangesAreFlagged
<1>9. SignalsKnown' /\ OneSignalPerScan'
  BY SignalsRest DEF KeepsSignals
<1> QED
  BY <1>3, <1>7, <1>8, <1>9 DEF SyncInv

\* A commit that lands while no scan is under way is ahead of every window.
LEMMA CommitLandsOK ==
  ASSUME SyncInv, NEW c \in Commits, CommitLands(c)
  PROVE  SyncInv'
<1>1. clock \in Nat
  BY DEF SyncInv, SyncTypeOK
<1>2. /\ date[c] = 0 /\ clock' = clock + 1 /\ date' = [date EXCEPT ![c] = clock + 1]
      /\ overtaken \subseteq overtaken' /\ UNCHANGED <<lastSync, doc, signal, scan, logged, doubtful>>
      /\ c \in overtaken' \/ \A s \in Scans : ~ Scanning(s)
  BY DEF CommitLands
<1> DEFINE t == clock + 1
<1>3. /\ t \in 1 .. clock' /\ t > clock /\ clock' \in Nat \ {0} /\ clock <= clock'
      /\ date' = [date EXCEPT ![c] = t]
  BY <1>1, <1>2
<1> HIDE DEF t
<1> QED
  BY <1>2, <1>3, LandsOK

LEMMA MergeLandsOK ==
  ASSUME SyncInv, NEW c \in Commits, MergeLands(c)
  PROVE  SyncInv'
<1>1. PICK t \in 1 .. clock : date' = [date EXCEPT ![c] = t]
  BY DEF MergeLands
<1>2. /\ date[c] = 0 /\ overtaken' = overtaken \cup {c} /\ clock \in Nat \ {0}
      /\ UNCHANGED <<clock, lastSync, doc, signal, scan, logged, doubtful>>
  BY DEF MergeLands, SyncInv, SyncTypeOK
<1>3. /\ t \in 1 .. clock' /\ clock' \in Nat \ {0} /\ clock <= clock' /\ c \in overtaken'
      /\ overtaken \subseteq overtaken'
  BY <1>2
<1> QED
  BY <1>1, <1>2, <1>3, LandsOK

LEMMA RefreshSummaryOK ==
  ASSUME SyncInv, NEW d \in Docs, RefreshSummary(d)
  PROVE  SyncInv'
<1>1. /\ UNCHANGED <<clock, date, lastSync, signal, scan, logged, doubtful, overtaken>>
      /\ doc' = [doc EXCEPT ![d] = [stale |-> FALSE, updated |-> clock]]
  BY DEF RefreshSummary
<1>2. doc \in [Docs -> [stale : BOOLEAN, updated : Nat]] /\ clock \in Nat
  BY DEF SyncInv, SyncTypeOK
<1>3. doc' \in [Docs -> [stale : BOOLEAN, updated : Nat]]
  BY <1>1, <1>2
<1>4. \A e \in Docs : \/ /\ doc[e].stale => doc'[e].stale
                         /\ doc'[e].updated = doc[e].updated
                      \/ doc'[e].updated = clock
  BY <1>1, <1>2
<1>5. FlagsStay
  BY <1>1, <1>4, RecordsStay DEF SyncInv
<1>6. SignalsKnown' /\ OneSignalPerScan'
  BY <1>1, SignalsRest DEF KeepsSignals
<1> QED
  BY <1>1, <1>3, <1>5, <1>6, ScansRest DEF SyncInv, SyncTypeOK

\* Signals resolved or reopened are the same signals.
LEMMA SignalsChange ==
  ASSUME SyncInv, UNCHANGED <<clock, date, lastSync, doc, scan, logged, doubtful, overtaken>>,
         signal' \subseteq Signal, NEW f,
         \A y \in signal' : y.by = "scan" =>
           \E x \in signal : /\ x.doc = y.doc /\ x.scan = y.scan /\ x.by = y.by
                             /\ x.trigger = y.trigger /\ y = f[x]
  PROVE  SyncInv'
<1>1. FlagsStay
  BY RecordsStay DEF SyncInv
<1>2. SignalsKnown' /\ OneSignalPerScan'
  BY StatusesChange
<1> QED
  BY <1>1, <1>2, ScansRest DEF SyncInv, SyncTypeOK

LEMMA ResolveOK ==
  ASSUME SyncInv, UNCHANGED <<clock, date, lastSync, doc, scan, logged, doubtful, overtaken>>,
         NEW xs \in SUBSET signal, \A x \in xs : x.status = "open", Resolve(xs)
  PROVE  SyncInv'
<1> DEFINE f == [x \in signal |-> IF x \in xs THEN [x EXCEPT !.status = "resolved"] ELSE x]
<1>1. signal \subseteq Signal
  BY DEF SyncInv, SyncTypeOK
<1>2. \A x \in Signal : LET y == [x EXCEPT !.status = "resolved"] IN
                        /\ y \in Signal /\ y.doc = x.doc /\ y.scan = x.scan
                        /\ y.by = x.by /\ y.trigger = x.trigger
  BY DEF Signal
<1>3. signal' \subseteq Signal
  BY <1>1, <1>2 DEF Resolve
<1>4. \A y \in signal' : \E x \in signal : /\ x.doc = y.doc /\ x.scan = y.scan /\ x.by = y.by
                                             /\ x.trigger = y.trigger /\ y = f[x]
  <2> SUFFICES ASSUME NEW y \in signal'
               PROVE  \E x \in signal : /\ x.doc = y.doc /\ x.scan = y.scan /\ x.by = y.by
                                        /\ x.trigger = y.trigger /\ y = f[x]
    OBVIOUS
  <2>1. CASE y \in signal /\ y \notin xs
    BY <2>1
  <2>2. CASE \E x \in xs : y = [x EXCEPT !.status = "resolved"]
    BY <1>1, <1>2, <2>2
  <2> QED
    BY <2>1, <2>2 DEF Resolve
<1> HIDE DEF f
<1> QED
  BY <1>3, <1>4, SignalsChange

LEMMA UpdateSignalOK ==
  ASSUME SyncInv, NEW z \in signal, UpdateSignal(z)
  PROVE  SyncInv'
<1> DEFINE w == [z EXCEPT !.status = IF @ = "open" THEN "resolved" ELSE "open"]
           f == [x \in signal |-> IF x = z THEN w ELSE x]
<1>1. signal \subseteq Signal /\ z \in Signal
  BY DEF SyncInv, SyncTypeOK
<1>2. w \in Signal /\ w.doc = z.doc /\ w.scan = z.scan /\ w.by = z.by /\ w.trigger = z.trigger
  BY <1>1 DEF Signal
<1>3. signal' = (signal \ {z}) \cup {w} /\ UNCHANGED <<clock, date, lastSync, doc, scan, logged, doubtful, overtaken>>
  BY DEF UpdateSignal
<1> HIDE DEF w
<1>4. signal' \subseteq Signal
  BY <1>1, <1>2, <1>3
<1>5. \A y \in signal' : \E x \in signal : /\ x.doc = y.doc /\ x.scan = y.scan /\ x.by = y.by
                                             /\ x.trigger = y.trigger /\ y = f[x]
  BY <1>2, <1>3
<1> HIDE DEF f
<1> QED
  BY <1>3, <1>4, <1>5, SignalsChange

\* What a user posts is not a scan's.
LEMMA CreateManualOK ==
  ASSUME SyncInv, NEW d \in Docs, CreateManual(d)
  PROVE  SyncInv'
<1>1. PICK t \in PostedTriggers, u \in Scans \cup {NoScan} :
        signal' = signal \cup {[doc |-> d, scan |-> u, trigger |-> t, by |-> "user", status |-> "open"]}
  BY DEF CreateManual
<1> DEFINE m == [doc |-> d, scan |-> u, trigger |-> t, by |-> "user", status |-> "open"]
           f == [x \in signal |-> x]
<1>2. m \in Signal /\ m.by # "scan"
  BY RepoSyncAssumption DEF Signal
<1>3. signal' = signal \cup {m} /\ UNCHANGED <<clock, date, lastSync, doc, scan, logged, doubtful, overtaken>>
  BY <1>1 DEF CreateManual
<1> HIDE DEF m
<1>4. signal' \subseteq Signal
  BY <1>2, <1>3 DEF SyncInv, SyncTypeOK
<1>5. \A y \in signal' : y.by = "scan" =>
        \E x \in signal : /\ x.doc = y.doc /\ x.scan = y.scan /\ x.by = y.by
                          /\ x.trigger = y.trigger /\ y = f[x]
  BY <1>2, <1>3
<1> HIDE DEF f
<1> QED
  BY <1>3, <1>4, <1>5, SignalsChange

\* Every step preserves the invariant.
LEMMA StepInv == SyncInv /\ [SyncNext]_syncVars => SyncInv'
<1> SUFFICES ASSUME SyncInv, [SyncNext]_syncVars PROVE SyncInv'
  OBVIOUS
<1>1. CASE UNCHANGED syncVars
  <2>1. UNCHANGED <<clock, date, lastSync, doc, signal, scan, logged, doubtful, overtaken>>
    BY <1>1 DEF syncVars
  <2>2. FlagsStay
    BY <2>1, RecordsStay DEF SyncInv
  <2>3. SignalsKnown' /\ OneSignalPerScan'
    BY <2>1, SignalsRest DEF KeepsSignals
  <2> QED
    BY <2>1, <2>2, <2>3, ScansRest DEF SyncInv, SyncTypeOK
<1>2. ASSUME NEW c \in Commits, CommitLands(c) \/ MergeLands(c) PROVE SyncInv'
  BY <1>2, CommitLandsOK, MergeLandsOK
<1>3. ASSUME NEW s \in Scans,
             \/ Start(s) \/ RecentChanges(s) \/ ScanFails(s) \/ Match(s)
             \/ \E d \in Docs : MarkStale(s, d) \/ CreateSignal(s, d)
             \/ FindTimeDecayed(s) \/ UpdateLastSyncAt(s) \/ Complete(s)
      PROVE  SyncInv'
  BY <1>3, StartOK, RecentChangesOK, ScanFailsOK, MatchOK, MarkStaleOK, CreateSignalOK,
     FindTimeDecayedOK, StampOK, CompleteOK
<1>4. CASE ServerRestarts
  BY <1>4, ServerRestartsOK
<1>5. ASSUME NEW d \in Docs, ResolveOpenByDocumentID(d) PROVE SyncInv'
  <2> DEFINE xs == {x \in signal : x.doc = d /\ x.status = "open"}
  <2>1. xs \in SUBSET signal /\ \A x \in xs : x.status = "open"
    OBVIOUS
  <2>2. Resolve(xs) /\ UNCHANGED <<clock, date, lastSync, doc, scan, logged, doubtful, overtaken>>
    BY <1>5 DEF ResolveOpenByDocumentID
  <2> HIDE DEF xs
  <2> QED
    BY <2>1, <2>2, ResolveOK
<1>6. CASE BulkResolveByProject
  <2> DEFINE xs == {x \in signal : x.status = "open"}
  <2>1. xs \in SUBSET signal /\ \A x \in xs : x.status = "open"
    OBVIOUS
  <2>2. Resolve(xs) /\ UNCHANGED <<clock, date, lastSync, doc, scan, logged, doubtful, overtaken>>
    BY <1>6 DEF BulkResolveByProject
  <2> HIDE DEF xs
  <2> QED
    BY <2>1, <2>2, ResolveOK
<1> QED
  BY <1>1, <1>2, <1>3, <1>4, <1>5, <1>6, TimePassesOK, RefreshSummaryOK, UpdateSignalOK, CreateManualOK DEF SyncNext

\* A change the next scan will not look at is on record, across failed, crashed and
\* overlapping scans (SyncService.Run).
THEOREM ChangesAreFlaggedAlways == SyncSpec => []ChangesAreFlagged
<1>1. SyncInv => ChangesAreFlagged
  BY DEF SyncInv
<1> QED
  BY InitInv, StepInv, <1>1, PTL DEF SyncSpec

\* One scan gives a document one signal (SyncService.Run).
THEOREM OneSignalPerScanAlways == SyncSpec => []OneSignalPerScan
<1>1. SyncInv => OneSignalPerScan
  BY DEF SyncInv
<1> QED
  BY InitInv, StepInv, <1>1, PTL DEF SyncSpec
=============================================================================
