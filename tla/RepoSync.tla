------------------------------ MODULE RepoSync ------------------------------
(***************************************************************************)
(* Repository scans and drift signals (git/sync_service.go,                *)
(* git/scanner.go, store/drift_signal_store.go, store/document_store.go,   *)
(* handlers/sync.go, handlers/drift.go).  A scan runs in the request that  *)
(* asks for it, so scans of a project overlap; nothing they do is a        *)
(* transaction.                                                            *)
(*                                                                         *)
(* A commit has a date, of its own if it is made on the scanned branch, and *)
(* an earlier one if it is merged into it.  Dates, last_sync_at and         *)
(* last_updated_at are moments of one clock, whose unit is left open.       *)
(***************************************************************************)
EXTENDS Integers, FiniteSets

CONSTANTS Commits, Docs, Scans, NoScan,
          FileOf,      \* the file a commit changes
          Noisy,       \* generated, vendored, test and lock files
          DocsFor,     \* documents linked to a file or registered under its path
          FirstWindow, \* how far the first scan looks back: 30 days
          StaleDays,   \* age from which a document counts as decayed
          ZoneOffset,  \* of the server's local time: positive east of UTC
          MaxClock,    \* bounds the time that passes without commits
          PostedTriggers, MaxPosted,  \* triggers of signals that users post, and how many
          SyncFaults   \* whether statements fail and the server restarts

ASSUME RepoSyncAssumption ==
  /\ NoScan \notin Scans
  /\ \A c \in Commits : FileOf[c] \notin Noisy => DocsFor[FileOf[c]] \subseteq Docs
  /\ FirstWindow \in Nat
  /\ StaleDays \in Nat
  /\ ZoneOffset \in Int
  /\ MaxClock \in Nat
  /\ PostedTriggers \subseteq {"code_change", "time_decay", "manual"}
  /\ MaxPosted \in Nat
  /\ SyncFaults \in BOOLEAN

VARIABLES clock,
          date,      \* date[c] of a commit on the scanned branch, 0 before
          lastSync,  \* projects.last_sync_at, 0 while it is null
          doc,       \* doc[d]: is_stale, last_updated_at or creation
          signal,    \* drift_signals
          scan,      \* scan[s]: a request in SyncService.Run
          resolving, \* documents whose refresh request has yet to resolve signals
          logged,    \* documents in an error line of the log: not found or not marked
          doubtful,  \* <<scan, document>>: creating the signal was reported failed
          overtaken  \* commits behind a scan's back, or too old for the first scan

syncVars == <<clock, date, lastSync, doc, signal, scan, resolving, logged, doubtful, overtaken>>

Landed == {c \in Commits : date[c] > 0}

Scan == [pc : {"new", "started", "read", "flag", "decay", "stamped", "completed", "failed"},
         since : Int, read : SUBSET Commits, known : SUBSET Docs, todo : SUBSET Docs,
         marked : SUBSET Docs, trigger : {"code_change", "time_decay"}]

\* "by" is who inserted the row, which the table does not say.
Signal == [doc : Docs, scan : Scans \cup {NoScan}, trigger : {"code_change", "time_decay", "manual"},
           by : {"scan", "user"}, status : {"open", "resolved"}]

NewScan == [pc |-> "new", since |-> 0, read |-> {}, known |-> {}, todo |-> {},
            marked |-> {}, trigger |-> "code_change"]

SyncInit ==
  /\ clock = 1
  /\ date = [c \in Commits |-> 0]
  /\ lastSync = 0
  /\ doc = [d \in Docs |-> [stale |-> FALSE, updated |-> 0]]
  /\ signal = {}
  /\ scan = [s \in Scans |-> NewScan]
  /\ resolving = {}
  /\ logged = {}
  /\ doubtful = {}
  /\ overtaken = {}

At(s, pc) == scan[s].pc = pc
\* Between reading the repository and stamping the project.
Scanning(s) == scan[s].pc \in {"read", "flag", "decay"}

OpenDocs == {x.doc : x \in {y \in signal : y.status = "open"}}

-----------------------------------------------------------------------------
(* The repository                                                          *)

TimePasses ==
  /\ clock < MaxClock
  /\ clock' = clock + 1
  /\ UNCHANGED <<date, lastSync, doc, signal, scan, resolving, logged, doubtful, overtaken>>

CommitLands(c) ==
  /\ date[c] = 0
  /\ clock' = clock + 1
  /\ date' = [date EXCEPT ![c] = clock + 1]
  /\ overtaken' = IF \E s \in Scans : Scanning(s) THEN overtaken \cup {c} ELSE overtaken
  /\ UNCHANGED <<lastSync, doc, signal, scan, resolving, logged, doubtful>>

\* A commit of another branch arrives with the date it was made on.
MergeLands(c) ==
  /\ date[c] = 0
  /\ \E t \in 1 .. clock : date' = [date EXCEPT ![c] = t]
  /\ overtaken' = overtaken \cup {c}
  /\ UNCHANGED <<clock, lastSync, doc, signal, scan, resolving, logged, doubtful>>

-----------------------------------------------------------------------------
(* SyncService.Run                                                         *)

\* The project is read once.  A project without a last scan is looked back into
\* for FirstWindow, and older commits count as history.
Start(s) ==
  /\ At(s, "new")
  /\ LET since == IF lastSync = 0 THEN clock - FirstWindow ELSE lastSync
     IN  /\ scan' = [scan EXCEPT ![s].pc = "started", ![s].since = since]
         /\ overtaken' = IF lastSync = 0 THEN overtaken \cup {c \in Landed : date[c] <= since}
                         ELSE overtaken
  /\ UNCHANGED <<clock, date, lastSync, doc, signal, resolving, logged, doubtful>>

\* The moment is written in UTC without a zone and git reads it as local time,
\* which is an earlier moment east of UTC and a later one to the west.
InWindow(s) == {c \in Landed : date[c] > scan[s].since - ZoneOffset}

RecentChanges(s) ==
  /\ At(s, "started")
  /\ scan' = [scan EXCEPT ![s].pc = "read", ![s].since = 0, ![s].read = InWindow(s)]
  /\ UNCHANGED <<clock, date, lastSync, doc, signal, resolving, logged, doubtful, overtaken>>

\* Mutant: a failed scan that moves the window all the same.
ScanFails_Stamps(s) ==
  /\ SyncFaults
  /\ At(s, "started")
  /\ scan' = [scan EXCEPT ![s] = [NewScan EXCEPT !.pc = "failed"]]
  /\ lastSync' = clock
  /\ UNCHANGED <<clock, date, doc, signal, resolving, logged, doubtful, overtaken>>

\* No repository, no such branch: the run is marked failed.
ScanFails(s) ==
  /\ SyncFaults
  /\ At(s, "started")
  /\ scan' = [scan EXCEPT ![s] = [NewScan EXCEPT !.pc = "failed"]]
  /\ UNCHANGED <<clock, date, lastSync, doc, signal, resolving, logged, doubtful, overtaken>>

Changed(s) == UNION {DocsFor[FileOf[c]] : c \in {x \in scan[s].read : FileOf[x] \notin Noisy}}

\* The set of documents with an open signal is read once for the whole scan;
\* documents that cannot be looked up are logged and left out.
Match(s) ==
  /\ At(s, "read")
  /\ \E known \in IF SyncFaults THEN {OpenDocs, {}} ELSE {OpenDocs},
        lost \in IF SyncFaults THEN SUBSET Changed(s) ELSE {{}} :
       /\ scan' = [scan EXCEPT ![s].pc = "flag", ![s].known = known, ![s].todo = Changed(s) \ lost]
       /\ logged' = logged \cup lost
  /\ UNCHANGED <<clock, date, lastSync, doc, signal, resolving, doubtful, overtaken>>

Flagging(s) == scan[s].pc \in {"flag", "decay"}

\* MarkStale, for every document of the phase in any order.
MarkStale(s, d) ==
  /\ Flagging(s)
  /\ d \in scan[s].todo
  /\ \/ doc' = [doc EXCEPT ![d].stale = TRUE] /\ UNCHANGED logged
     \/ SyncFaults /\ logged' = logged \cup {d} /\ UNCHANGED doc
  /\ scan' = [scan EXCEPT ![s].todo = @ \ {d}, ![s].marked = @ \cup {d}]
  /\ UNCHANGED <<clock, date, lastSync, signal, resolving, doubtful, overtaken>>

NewSignal(s, d) ==
  [doc |-> d, scan |-> s, trigger |-> scan[s].trigger, by |-> "scan", status |-> "open"]

\* Mutant: the documents that were handled in the first phase get a second signal.
CreateSignal_ForgetsKnown(s, d) ==
  /\ Flagging(s)
  /\ d \in scan[s].marked
  /\ \/ d \notin scan[s].known /\ signal' = signal \cup {NewSignal(s, d)}
     \/ d \in scan[s].known /\ UNCHANGED signal
  /\ scan' = [scan EXCEPT ![s].marked = @ \ {d}]
  /\ UNCHANGED <<clock, date, lastSync, doc, resolving, logged, doubtful, overtaken>>

\* ... followed by its signal, unless one was open.  The row is inserted and then
\* read back: a failure of either is an error, and leaves the document unknown.
CreateSignal(s, d) ==
  /\ Flagging(s)
  /\ d \in scan[s].marked
  /\ \/ /\ d \in scan[s].known
        /\ scan' = [scan EXCEPT ![s].marked = @ \ {d}]
        /\ UNCHANGED <<signal, doubtful>>
     \/ /\ d \notin scan[s].known
        /\ signal' = signal \cup {NewSignal(s, d)}
        /\ scan' = [scan EXCEPT ![s].marked = @ \ {d}, ![s].known = @ \cup {d}]
        /\ UNCHANGED doubtful
     \/ /\ SyncFaults
        /\ d \notin scan[s].known
        /\ signal' \in {signal, signal \cup {NewSignal(s, d)}}
        /\ scan' = [scan EXCEPT ![s].marked = @ \ {d}]
        /\ doubtful' = doubtful \cup {<<s, d>>}
  /\ UNCHANGED <<clock, date, lastSync, doc, resolving, logged, overtaken>>

PhaseDone(s) == scan[s].todo = {} /\ scan[s].marked = {}

\* Not refreshed for stale_days_threshold days.
Decayed == {d \in Docs : clock - doc[d].updated > StaleDays}

\* An error of the query leaves the phase out.
FindTimeDecayed(s) ==
  /\ At(s, "flag")
  /\ PhaseDone(s)
  /\ \E old \in {Decayed} \cup (IF SyncFaults THEN {{}} ELSE {}) :
       scan' = [scan EXCEPT ![s].pc = "decay", ![s].trigger = "time_decay", ![s].todo = old]
  /\ UNCHANGED <<clock, date, lastSync, doc, signal, resolving, logged, doubtful, overtaken>>

\* The time is that of the stamp, not that of the read; an error is ignored.
UpdateLastSyncAt(s) ==
  /\ At(s, "decay")
  /\ PhaseDone(s)
  /\ lastSync' = clock \/ (SyncFaults /\ lastSync' = lastSync)
  /\ scan' = [scan EXCEPT ![s] = [NewScan EXCEPT !.pc = "stamped"]]
  /\ UNCHANGED <<clock, date, doc, signal, resolving, logged, doubtful, overtaken>>

\* The statement that completes the run, and the answer.
Complete(s) ==
  /\ At(s, "stamped")
  /\ scan' = [scan EXCEPT ![s].pc = "completed"]
  /\ UNCHANGED <<clock, date, lastSync, doc, signal, resolving, logged, doubtful, overtaken>>

\* The process is gone: what was written stays, the run is "running" for ever.
ServerRestarts ==
  /\ SyncFaults
  /\ \E s \in Scans : scan[s].pc \notin {"new", "completed", "failed"}
  /\ scan' = [s \in Scans |-> IF scan[s].pc \in {"new", "completed", "failed"} THEN scan[s]
                              ELSE [NewScan EXCEPT !.pc = "failed"]]
  /\ resolving' = {}
  /\ UNCHANGED <<clock, date, lastSync, doc, signal, logged, doubtful, overtaken>>

-----------------------------------------------------------------------------
(* Documents and users                                                     *)

RefreshSummary(d) ==
  /\ d \notin resolving
  /\ doc[d] # [stale |-> FALSE, updated |-> clock]
  /\ doc' = [doc EXCEPT ![d] = [stale |-> FALSE, updated |-> clock]]
  /\ resolving' = resolving \cup {d}
  /\ UNCHANGED <<clock, date, lastSync, signal, scan, logged, doubtful, overtaken>>

\* All open signals that satisfy the condition of the statement.
Resolve(xs) == signal' = {x \in signal : x \notin xs \/ x.status # "open"}
                          \cup {[x EXCEPT !.status = "resolved"] : x \in xs}

ResolveOpenByDocumentID(d) ==
  /\ d \in resolving
  /\ Resolve({x \in signal : x.doc = d /\ x.status = "open"})
  /\ resolving' = resolving \ {d}
  /\ UNCHANGED <<clock, date, lastSync, doc, scan, logged, doubtful, overtaken>>

BulkResolveByProject ==
  /\ OpenDocs # {}
  /\ Resolve({x \in signal : x.status = "open"})
  /\ UNCHANGED <<clock, date, lastSync, doc, scan, resolving, logged, doubtful, overtaken>>

\* PATCH sets any status, "open" included.
UpdateSignal(x) ==
  /\ signal' = (signal \ {x}) \cup {[x EXCEPT !.status = IF @ = "open" THEN "resolved" ELSE "open"]}
  /\ UNCHANGED <<clock, date, lastSync, doc, scan, resolving, logged, doubtful, overtaken>>

\* POST takes any trigger and the identifier of any scan.
CreateManual(d) ==
  /\ Cardinality({x \in signal : x.by = "user"}) < MaxPosted
  /\ \E t \in PostedTriggers, u \in {v \in Scans : ~ At(v, "new")} \cup {NoScan} :
       signal' = signal \cup {[doc |-> d, scan |-> u, trigger |-> t, by |-> "user", status |-> "open"]}
  /\ UNCHANGED <<clock, date, lastSync, doc, scan, resolving, logged, doubtful, overtaken>>

-----------------------------------------------------------------------------
SyncNext ==
  \/ TimePasses
  \/ \E c \in Commits : CommitLands(c) \/ MergeLands(c)
  \/ \E s \in Scans : \/ Start(s)
                      \/ RecentChanges(s)
                      \/ ScanFails(s)
                      \/ Match(s)
                      \/ \E d \in Docs : MarkStale(s, d) \/ CreateSignal(s, d)
                      \/ FindTimeDecayed(s)
                      \/ UpdateLastSyncAt(s)
                      \/ Complete(s)
  \/ ServerRestarts
  \/ \E d \in Docs : \/ RefreshSummary(d)
                     \/ ResolveOpenByDocumentID(d)
                     \/ CreateManual(d)
  \/ BulkResolveByProject
  \/ \E x \in signal : UpdateSignal(x)

SyncSpec == SyncInit /\ [][SyncNext]_syncVars

-----------------------------------------------------------------------------
SyncTypeOK ==
  /\ clock \in Nat \ {0}
  /\ date \in [Commits -> 0 .. clock]
  /\ lastSync \in 0 .. clock
  /\ doc \in [Docs -> [stale : BOOLEAN, updated : Nat]]
  /\ signal \subseteq Signal
  /\ scan \in [Scans -> Scan]
  /\ doubtful \subseteq Scans \X Docs

Covers(c) == IF FileOf[c] \in Noisy THEN {} ELSE DocsFor[FileOf[c]]

Flagged(c, d) == doc[d].stale \/ doc[d].updated >= date[c] \/ d \in logged

\* Across failed, crashed and overlapping scans, a change that the next scan will
\* not look at is on record: its documents are stale, were refreshed after it or
\* are in the log, unless it reached the branch while a scan was under way or
\* with an old date, or lies before the window of the first scan.  West of UTC it
\* is not so: there the window begins after the last scan.
ChangesAreFlagged ==
  ZoneOffset >= 0 =>
    \A c \in Landed \ overtaken : \A d \in Covers(c) : date[c] > lastSync \/ Flagged(c, d)

\* "code_change takes priority over time_decay": a scan inserts one signal for a
\* document, although its phases look at the same documents, and one of each
\* trigger at most if inserting one was reported failed.
OneSignalPerScan ==
  \A x, y \in {z \in signal : z.by = "scan"} :
    x.scan = y.scan /\ x.doc = y.doc =>
      x = y \/ (x.trigger # y.trigger /\ <<x.scan, x.doc>> \in doubtful)

=============================================================================
