----------------------------- MODULE ActivityHub -----------------------------
(***************************************************************************)
(* What a connector is doing, from its daemon to the browser: the queue of *)
(* the reporter (connector/activity_reporter.go), the hub in the server's  *)
(* memory (activity/hub.go), its snapshot in the database                  *)
(* (store/local_connector_store.go PersistActivity) and the event streams  *)
(* of one user (handlers/connector_activity.go), for one connector.        *)
(***************************************************************************)
EXTENDS Integers, FiniteSets, SequencesExt

CONSTANTS Phases, Idle,
          MaxReports,   \* bound on the reports of a behaviour
          Posts,        \* POST handlers that run at the same time
          Streams,      \* event streams, each opened once
          MaxStreams,   \* maxSSEPerUser
          Buffer,       \* capacity of a stream's channel, 8 in the code
          NoActivity

ASSUME ActivityHubAssumption ==
  /\ Idle \in Phases
  /\ MaxReports \in Nat
  /\ MaxStreams \in Nat
  /\ Buffer \in Nat

VARIABLES current,    \* the newest activity the daemon has reported
          reporter,   \* the reporter's queue, last appended entry and batch
          post,       \* post[h]: a request to /api/connector/activity
          hub,        \* Hub.states for the connector
          persisting, \* goroutines that write a snapshot
          stored,     \* current_activity_json
          stream,     \* stream[s]: what the browser shows and its channel
          lost        \* whether a report failed on its way or the hub forgot it

hubVars == <<current, reporter, post, hub, persisting, stored, stream, lost>>

Activity == [phase : Phases, n : 1 .. MaxReports]

NoPost == [pc |-> "none"]
\* gap: a message was dropped, or two updates were broadcast at the same time.
NewStream == [open |-> FALSE, used |-> FALSE, shown |-> NoActivity, channel |-> <<>>, gap |-> FALSE]

HubInit ==
  /\ current = NoActivity
  /\ reporter = [queue |-> <<>>, last |-> NoActivity, batch |-> <<>>, call |-> NoPost]
  /\ post = [h \in Posts |-> NoPost]
  /\ hub = NoActivity
  /\ persisting = {}
  /\ stored = NoActivity
  /\ stream = [s \in Streams |-> NewStream]
  /\ lost = FALSE

-----------------------------------------------------------------------------
(* The daemon                                                              *)

NextReport == IF current = NoActivity THEN 1 ELSE current.n + 1

PhaseChange(a) == reporter.last = NoActivity \/ reporter.last.phase # a.phase

\* Mutant: the window also coalesces reports of different phases.
Report_MergesPhases(phase) ==
  LET a == [phase |-> phase, n |-> NextReport]
      queue == reporter.queue
  IN
  /\ NextReport <= MaxReports
  /\ current' = a
  /\ \/ reporter' = [reporter EXCEPT !.queue = Append(queue, a), !.last = a]
     \/ /\ queue # <<>>
        /\ reporter' = [reporter EXCEPT !.queue[Len(queue)] = [Last(queue) EXCEPT !.n = a.n]]
  /\ UNCHANGED <<post, hub, persisting, stored, stream, lost>>

\* A step within the coalesce window replaces the last entry of the queue.
Report(phase) ==
  LET a == [phase |-> phase, n |-> NextReport]
      queue == reporter.queue
  IN
  /\ NextReport <= MaxReports
  /\ current' = a
  /\ \/ reporter' = [reporter EXCEPT !.queue = Append(queue, a), !.last = a]
     \/ /\ ~ PhaseChange(a)
        /\ queue # <<>>
        /\ reporter' = [reporter EXCEPT !.queue[Len(queue)] = [Last(queue) EXCEPT !.n = a.n]]
  /\ UNCHANGED <<post, hub, persisting, stored, stream, lost>>

Flush ==
  /\ reporter.batch = <<>>
  /\ reporter.queue # <<>>
  /\ reporter' = [reporter EXCEPT !.batch = reporter.queue, !.queue = <<>>]
  /\ UNCHANGED <<current, post, hub, persisting, stored, stream, lost>>

ReportActivity(h) ==
  /\ reporter.batch # <<>>
  /\ reporter.call = NoPost
  /\ post[h] = NoPost
  /\ post' = [post EXCEPT ![h] = [pc |-> "arrived", activity |-> Head(reporter.batch), to |-> {}]]
  /\ reporter' = [reporter EXCEPT !.call = [pc |-> "waiting", at |-> h]]
  /\ UNCHANGED <<current, hub, persisting, stored, stream, lost>>

\* An answer, or an error that is printed and forgotten.
ReportAnswered == reporter' = [reporter EXCEPT !.batch = Tail(@), !.call = NoPost]

\* The daemon gives up; the handler, if there is one, works on.
ReportTimesOut ==
  /\ reporter.call # NoPost
  /\ ReportAnswered
  /\ lost' = TRUE
  /\ UNCHANGED <<current, post, hub, persisting, stored, stream>>

-----------------------------------------------------------------------------
(* The hub                                                                 *)

Waits(h) == reporter.call # NoPost /\ reporter.call.at = h

OpenStreams == {s \in Streams : stream[s].open}

Broadcasting == {h \in Posts : post[h].pc = "sending"}

\* Mutant: leaves out an update of the same phase.
Update_PhasesOnly(h) ==
  /\ post[h].pc = "arrived"
  /\ hub' = post[h].activity
  /\ post' = [post EXCEPT ![h].pc = "sending",
                          ![h].to = IF hub # NoActivity /\ hub.phase = post[h].activity.phase
                                    THEN {} ELSE OpenStreams]
  /\ stream' = [s \in Streams |->
                  [stream[s] EXCEPT !.gap = @ \/ (stream[s].open /\ Broadcasting # {})]]
  /\ UNCHANGED <<current, reporter, persisting, stored, lost>>

\* Under the lock: the state, and the list of subscribers.
Update(h) ==
  /\ post[h].pc = "arrived"
  /\ hub' = post[h].activity
  /\ post' = [post EXCEPT ![h].pc = "sending", ![h].to = OpenStreams]
  /\ stream' = [s \in Streams |->
                  [stream[s] EXCEPT !.gap = @ \/ (stream[s].open /\ Broadcasting # {})]]
  /\ UNCHANGED <<current, reporter, persisting, stored, lost>>

\* Not under the lock: a full channel loses the message.
SendActivity(h, s) ==
  /\ post[h].pc = "sending"
  /\ s \in post[h].to
  /\ post' = [post EXCEPT ![h].to = @ \ {s}]
  /\ stream' = IF ~ stream[s].open THEN stream
                ELSE IF Len(stream[s].channel) < Buffer
                THEN [stream EXCEPT ![s].channel = Append(@, post[h].activity)]
                ELSE [stream EXCEPT ![s].gap = TRUE]
  /\ UNCHANGED <<current, reporter, hub, persisting, stored, lost>>

\* The snapshot is left to a goroutine and the daemon gets its answer.
UpdateReturns(h) ==
  /\ post[h].pc = "sending"
  /\ post[h].to = {}
  /\ persisting' = persisting \cup {post[h].activity}
  /\ post' = [post EXCEPT ![h] = NoPost]
  /\ IF Waits(h) THEN ReportAnswered ELSE UNCHANGED reporter
  /\ UNCHANGED <<current, hub, stored, stream, lost>>

\* In any order, or not at all.
PersistActivity(a) ==
  /\ a \in persisting
  /\ persisting' = persisting \ {a}
  /\ stored' \in {stored, a}
  /\ UNCHANGED <<current, reporter, post, hub, stream, lost>>

\* Five minutes idle: the state is dropped, the streams are not told.
PurgeIdle ==
  /\ hub # NoActivity
  /\ hub.phase = Idle
  /\ hub' = NoActivity
  /\ lost' = TRUE
  /\ UNCHANGED <<current, reporter, post, persisting, stored, stream>>

\* Handlers, goroutines and streams are gone; the hub starts from the snapshot.
HubRestarts ==
  /\ hub' = stored
  /\ persisting' = {}
  /\ stream' = [s \in Streams |-> [stream[s] EXCEPT !.open = FALSE, !.channel = <<>>]]
  /\ post' = [h \in Posts |-> NoPost]
  /\ IF reporter.call # NoPost THEN ReportAnswered ELSE UNCHANGED reporter
  /\ lost' = TRUE
  /\ UNCHANGED <<current, stored>>

-----------------------------------------------------------------------------
(* Browsers                                                                *)

\* Subscribe hands out the state and registers the channel under one lock; a hub
\* without a state leaves the first event to the database.
OpenStream(s) ==
  /\ ~ stream[s].used
  /\ Cardinality(OpenStreams) < MaxStreams
  /\ stream' = [stream EXCEPT ![s] =
       [NewStream EXCEPT !.open = TRUE, !.used = TRUE,
                         !.shown = IF hub = NoActivity THEN stored ELSE hub]]
  /\ UNCHANGED <<current, reporter, post, hub, persisting, stored, lost>>

ReceiveActivity(s) ==
  /\ stream[s].open
  /\ stream[s].channel # <<>>
  /\ stream' = [stream EXCEPT ![s].shown = Head(stream[s].channel), ![s].channel = Tail(@)]
  /\ UNCHANGED <<current, reporter, post, hub, persisting, stored, lost>>

CloseStream(s) ==
  /\ stream[s].open
  /\ stream' = [stream EXCEPT ![s].open = FALSE, ![s].channel = <<>>]
  /\ UNCHANGED <<current, reporter, post, hub, persisting, stored, lost>>

HubNext ==
  \/ \E phase \in Phases : Report(phase)
  \/ Flush
  \/ ReportTimesOut
  \/ \E h \in Posts : \/ ReportActivity(h)
                      \/ Update(h)
                      \/ \E s \in Streams : SendActivity(h, s)
                      \/ UpdateReturns(h)
  \/ \E a \in persisting : PersistActivity(a)
  \/ PurgeIdle
  \/ HubRestarts
  \/ \E s \in Streams : OpenStream(s) \/ ReceiveActivity(s) \/ CloseStream(s)

HubSpec == HubInit /\ [][HubNext]_hubVars

-----------------------------------------------------------------------------
\* Coalescing, batching and the streams never lose the newest report: it waits in
\* the queue, in the batch, in a handler, or it is what the hub holds, unless a
\* report timed out, the server restarted or the idle state was purged.
NewestIsOnItsWay ==
  current # NoActivity /\ ~ lost =>
    \/ reporter.queue # <<>> /\ Last(reporter.queue) = current
    \/ /\ reporter.queue = <<>>
       /\ \/ reporter.batch # <<>> /\ Last(reporter.batch) = current
          \/ reporter.batch = <<>> /\ hub = current

\* The last event in the channel, or else what is shown.
Newest(s) == IF stream[s].channel = <<>> THEN stream[s].shown ELSE Last(stream[s].channel)

\* A stream has no gap between the state it starts with and the updates that
\* follow: once they are sent, it has what the hub holds.
StreamIsCurrent ==
  \A s \in Streams :
    stream[s].open /\ ~ stream[s].gap /\ Broadcasting = {} /\ hub # NoActivity
      => Newest(s) = hub
=============================================================================
