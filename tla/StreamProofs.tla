---------------------------- MODULE StreamProofs ----------------------------
(***************************************************************************)
(* Proofs about what browsers are told: the activity of a connector, from  *)
(* its reporter to the hub and to each event stream (ActivityHub), for any *)
(* number of reports, handlers and streams and any size of the channels;   *)
(* and the list of event streams of a user (EventBroker), for any number   *)
(* of streams and of calls of Publish.                                     *)
(***************************************************************************)
EXTENDS ActivityHub, EventBroker, SequenceTheorems, TLAPS

-----------------------------------------------------------------------------
(* The activity hub: types                                                 *)

Activities == [phase : Phases, n : Nat]
Shown == Activities \cup {NoActivity}

Reporters == [queue : Seq(Activities), last : Shown, batch : Seq(Activities),
              call : {NoPost} \cup [pc : {"waiting"}, at : Posts]]

Handled == [pc : {"arrived", "sending"}, activity : Activities, to : SUBSET Streams]

EventStreams == [open : BOOLEAN, used : BOOLEAN, shown : Shown, channel : Seq(Activities),
                 gap : BOOLEAN]

HubTypeOK ==
  /\ current \in Shown
  /\ reporter \in Reporters
  /\ post \in [Posts -> Handled \cup {NoPost}]
  /\ hub \in Shown
  /\ persisting \subseteq Activities
  /\ stored \in Shown
  /\ stream \in [Streams -> EventStreams]
  /\ lost \in BOOLEAN

\* A report that is coalesced has the phase of the entry it replaces.
LastIsQueued ==
  reporter.queue # <<>> => Last(reporter.queue).phase = reporter.last.phase

\* Unless a report was given up, the only handler at work has the head of the
\* batch, and once it has broadcast it, so has the hub.
HandlerHasHead ==
  ~ lost => \A h \in Posts :
    post[h] # NoPost =>
      /\ reporter.call # NoPost /\ reporter.call.at = h
      /\ reporter.batch # <<>> /\ Head(reporter.batch) = post[h].activity
      /\ post[h].pc = "sending" => hub = post[h].activity

\* The daemon waits for an answer only while it has a batch.
CallHasBatch == reporter.call # NoPost => reporter.batch # <<>>

\* Broadcasts go to streams that have been opened; one without a gap is sent
\* nothing but the state of the hub, and has it if nothing is being sent to it.
Pending(s) == {h \in Broadcasting : s \in post[h].to}

StreamFollows(s) ==
  stream[s].open /\ ~ stream[s].gap /\ hub # NoActivity =>
    /\ \A h \in Pending(s) : post[h].activity = hub
    /\ Pending(s) = {} => Newest(s) = hub

StreamsFollow ==
  \A s \in Streams :
    /\ ~ stream[s].used => ~ stream[s].open /\ Pending(s) = {}
    /\ StreamFollows(s)

\* The inductive invariant of the hub.
HubInv ==
  /\ HubTypeOK
  /\ LastIsQueued
  /\ CallHasBatch
  /\ HandlerHasHead
  /\ NewestIsOnItsWay
  /\ StreamsFollow

-----------------------------------------------------------------------------
(* The activity hub: lemmas about sequences                                *)

LEMMA LastOfAppend ==
  ASSUME NEW S, NEW q \in Seq(S), NEW e \in S
  PROVE  /\ Append(q, e) \in Seq(S)
         /\ Append(q, e) # <<>>
         /\ Last(Append(q, e)) = e
BY DEF Last

LEMMA LastReplaced ==
  ASSUME NEW S, NEW q \in Seq(S), q # <<>>, NEW e \in S
  PROVE  /\ [q EXCEPT ![Len(q)] = e] \in Seq(S)
         /\ [q EXCEPT ![Len(q)] = e] # <<>>
         /\ Last([q EXCEPT ![Len(q)] = e]) = e
<1>1. Len(q) \in 1 .. Len(q)
  BY EmptySeq
<1>2. /\ [q EXCEPT ![Len(q)] = e] \in Seq(S)
      /\ Len([q EXCEPT ![Len(q)] = e]) = Len(q)
      /\ [q EXCEPT ![Len(q)] = e][Len(q)] = e
  BY <1>1, ExceptSeq
<1>3. QED
  BY <1>1, <1>2, EmptySeq DEF Last

LEMMA LastOfTail ==
  ASSUME NEW S, NEW q \in Seq(S), q # <<>>
  PROVE  /\ Tail(q) \in Seq(S)
         /\ Head(q) \in S
         /\ Last(q) \in S
         /\ Tail(q) # <<>> => Last(Tail(q)) = Last(q)
         /\ Tail(q) = <<>> => Last(q) = Head(q)
<1>1. Len(q) \in Nat \ {0}
  BY EmptySeq
<1>2. /\ Tail(q) \in Seq(S) /\ Head(q) \in S /\ Len(Tail(q)) = Len(q) - 1
      /\ \A i \in 1 .. Len(Tail(q)) : Tail(q)[i] = q[i + 1]
  BY HeadTailProperties
<1>3. Last(q) \in S
  BY <1>1, ElementOfSeq DEF Last
<1>4. Tail(q) # <<>> => Last(Tail(q)) = Last(q)
  <2>1. Tail(q) # <<>> => Len(Tail(q)) \in 1 .. Len(Tail(q))
    BY <1>2, EmptySeq
  <2>2. QED
    BY <1>1, <1>2, <2>1 DEF Last
<1>5. Tail(q) = <<>> => Last(q) = Head(q)
  <2>1. Tail(q) = <<>> => Len(q) = 1
    BY <1>1, <1>2, EmptySeq
  <2>2. QED
    BY <2>1 DEF Last
<1>6. QED
  BY <1>2, <1>3, <1>4, <1>5

-----------------------------------------------------------------------------
(* The activity hub: what each step does to the reporter and the handlers  *)

\* The newest report is appended, or replaces the last entry of its phase.
LEMMA ReportQueues ==
  ASSUME HubTypeOK, LastIsQueued, NEW phase \in Phases, Report(phase)
  PROVE  /\ current' \in Activities
         /\ reporter' \in Reporters
         /\ reporter'.queue # <<>> /\ Last(reporter'.queue) = current'
         /\ LastIsQueued'
         /\ reporter'.batch = reporter.batch /\ reporter'.call = reporter.call
<1> DEFINE a == [phase |-> phase, n |-> NextReport]
           queue == reporter.queue
<1>1. /\ reporter \in Reporters /\ queue \in Seq(Activities) /\ current' = a
  BY DEF HubTypeOK, Reporters, Report
<1>2. a \in Activities
  <2>1. NextReport \in Nat
    <3>1. CASE current = NoActivity
      BY <3>1 DEF NextReport
    <3>2. CASE current # NoActivity
      BY <3>2 DEF NextReport, HubTypeOK, Shown, Activities
    <3>3. QED
      BY <3>1, <3>2
  <2>2. QED
    BY <2>1 DEF Activities
<1>3. CASE reporter' = [reporter EXCEPT !.queue = Append(queue, a), !.last = a]
  <2>1. /\ Append(queue, a) \in Seq(Activities)
        /\ Append(queue, a) # <<>>
        /\ Last(Append(queue, a)) = a
    BY <1>1, <1>2, LastOfAppend
  <2> HIDE DEF a, queue
  <2>2. QED
    BY <1>1, <1>2, <1>3, <2>1 DEF Reporters, Shown, LastIsQueued
<1>4. CASE /\ ~ PhaseChange(a)
           /\ queue # <<>>
           /\ reporter' = [reporter EXCEPT !.queue[Len(queue)] = [Last(queue) EXCEPT !.n = a.n]]
  <2>1. Last(queue).phase = phase /\ reporter.last.phase = phase
    BY <1>4 DEF LastIsQueued, PhaseChange
  <2>2. Last(queue) \in Activities
    BY <1>1, <1>4, LastOfTail
  <2>3. [Last(queue) EXCEPT !.n = a.n] = a
    BY <2>1, <2>2 DEF Activities
  <2>4. reporter' = [reporter EXCEPT !.queue = [queue EXCEPT ![Len(queue)] = a]]
    BY <1>1, <1>4, <2>3 DEF Reporters
  <2>5. /\ [queue EXCEPT ![Len(queue)] = a] \in Seq(Activities)
        /\ [queue EXCEPT ![Len(queue)] = a] # <<>>
        /\ Last([queue EXCEPT ![Len(queue)] = a]) = a
    BY <1>1, <1>2, <1>4, LastReplaced
  <2>6. a.phase = phase
    OBVIOUS
  <2> HIDE DEF a, queue
  <2>7. QED
    BY <1>1, <1>2, <2>1, <2>4, <2>5, <2>6 DEF Reporters, LastIsQueued
<1>5. QED
  BY <1>3, <1>4 DEF Report

\* An answer takes the head off the batch.
LEMMA AnswerTakesHead ==
  ASSUME HubTypeOK, CallHasBatch, reporter.call # NoPost, ReportAnswered
  PROVE  /\ reporter.batch # <<>>
         /\ reporter' \in Reporters
         /\ reporter'.queue = reporter.queue /\ reporter'.last = reporter.last
         /\ reporter'.batch = Tail(reporter.batch)
         /\ reporter'.call = NoPost
<1>1. reporter \in Reporters /\ reporter.batch # <<>> /\ reporter.batch \in Seq(Activities)
  BY DEF HubTypeOK, Reporters, CallHasBatch
<1>2. Tail(reporter.batch) \in Seq(Activities)
  BY <1>1, LastOfTail
<1>3. QED
  BY <1>1, <1>2 DEF ReportAnswered, Reporters

\* Only the handler that has the daemon's report is at work, unless one was given up.
LEMMA HandlerIsCalled ==
  ASSUME HubTypeOK, HandlerHasHead, NEW h \in Posts, post[h].pc \in {"arrived", "sending"}, ~ lost
  PROVE  /\ Waits(h)
         /\ \A k \in Posts \ {h} : post[k] = NoPost
         /\ reporter.batch # <<>> /\ Head(reporter.batch) = post[h].activity
         /\ post[h].pc = "sending" => hub = post[h].activity
<1>1. post[h] # NoPost
  BY DEF NoPost
<1>2. QED
  BY <1>1 DEF HandlerHasHead, Waits

LEMMA HubTypes ==
  ASSUME HubTypeOK, LastIsQueued, CallHasBatch, [HubNext]_hubVars
  PROVE  HubTypeOK'
<1> USE DEF HubTypeOK
<1>1. ASSUME NEW phase \in Phases, Report(phase)
      PROVE  HubTypeOK'
  BY <1>1, ReportQueues DEF Report, Shown
<1>2. CASE Flush
  BY <1>2 DEF Flush, Reporters
<1>3. CASE ReportTimesOut
  BY <1>3, AnswerTakesHead DEF ReportTimesOut
<1>4. ASSUME NEW h \in Posts, ReportActivity(h)
      PROVE  HubTypeOK'
  <2>1. Head(reporter.batch) \in Activities
    BY <1>4, LastOfTail DEF ReportActivity, Reporters
  <2>2. [pc |-> "arrived", activity |-> Head(reporter.batch), to |-> {}] \in Handled
    BY <2>1 DEF Handled
  <2>3. reporter' \in Reporters
    BY <1>4 DEF ReportActivity, Reporters
  <2>4. QED
    BY <1>4, <2>2, <2>3 DEF ReportActivity
<1>5. ASSUME NEW h \in Posts, Update(h)
      PROVE  HubTypeOK'
  <2>1. post[h] \in Handled
    BY <1>5 DEF Update, NoPost
  <2>2. [post[h] EXCEPT !.pc = "sending", !.to = OpenStreams] \in Handled
    BY <2>1 DEF Handled, OpenStreams
  <2>3. post' = [post EXCEPT ![h] = [post[h] EXCEPT !.pc = "sending", !.to = OpenStreams]]
    BY <1>5 DEF Update
  <2>4. stream' \in [Streams -> EventStreams]
    BY <1>5 DEF Update, EventStreams
  <2>5. QED
    BY <1>5, <2>1, <2>2, <2>3, <2>4 DEF Update, Handled, Shown
<1>6. ASSUME NEW h \in Posts, NEW s \in Streams, SendActivity(h, s)
      PROVE  HubTypeOK'
  <2>1. post[h] \in Handled
    BY <1>6 DEF SendActivity, NoPost
  <2>2. [post[h] EXCEPT !.to = @ \ {s}] \in Handled
    BY <2>1 DEF Handled
  <2>3. post' = [post EXCEPT ![h] = [post[h] EXCEPT !.to = @ \ {s}]]
    BY <1>6 DEF SendActivity
  <2>4. stream[s] \in EventStreams
    OBVIOUS
  <2>5. [stream[s] EXCEPT !.channel = Append(@, post[h].activity)] \in EventStreams
    <3>1. post[h].activity \in Activities /\ stream[s].channel \in Seq(Activities)
      BY <2>1, <2>4 DEF Handled, EventStreams
    <3>2. Append(stream[s].channel, post[h].activity) \in Seq(Activities)
      BY <3>1, LastOfAppend
    <3>3. QED
      BY <2>4, <3>2 DEF EventStreams
  <2>6. [stream[s] EXCEPT !.gap = TRUE] \in EventStreams
    BY <2>4 DEF EventStreams
  <2>7. \/ stream' = stream
        \/ stream' = [stream EXCEPT ![s] = [stream[s] EXCEPT !.channel = Append(@, post[h].activity)]]
        \/ stream' = [stream EXCEPT ![s] = [stream[s] EXCEPT !.gap = TRUE]]
    BY <1>6 DEF SendActivity
  <2>8. stream' \in [Streams -> EventStreams]
    BY <2>5, <2>6, <2>7
  <2>9. QED
    BY <1>6, <2>2, <2>3, <2>8 DEF SendActivity
<1>7. ASSUME NEW h \in Posts, UpdateReturns(h)
      PROVE  HubTypeOK'
  <2>1. post[h] \in Handled
    BY <1>7 DEF UpdateReturns, NoPost
  <2>2. post[h].activity \in Activities
    BY <2>1 DEF Handled
  <2>3. reporter' \in Reporters
    BY <1>7, AnswerTakesHead DEF UpdateReturns, Waits
  <2>4. QED
    BY <1>7, <2>2, <2>3 DEF UpdateReturns
<1>8. ASSUME NEW a \in persisting, PersistActivity(a)
      PROVE  HubTypeOK'
  BY <1>8 DEF PersistActivity, Shown
<1>9. CASE PurgeIdle
  BY <1>9 DEF PurgeIdle, Shown
<1>10. CASE HubRestarts
  <2>1. reporter' \in Reporters
    BY <1>10, AnswerTakesHead DEF HubRestarts
  <2>2. stream' \in [Streams -> EventStreams]
    BY <1>10, EmptySeq DEF HubRestarts, EventStreams
  <2>3. QED
    BY <1>10, <2>1, <2>2 DEF HubRestarts
<1>11. ASSUME NEW s \in Streams, OpenStream(s) \/ ReceiveActivity(s) \/ CloseStream(s)
       PROVE  HubTypeOK'
  <2>1. stream[s] \in EventStreams
    OBVIOUS
  <2>2. CASE OpenStream(s)
    <3>1. [NewStream EXCEPT !.open = TRUE, !.used = TRUE,
             !.shown = IF hub = NoActivity THEN stored ELSE hub] \in EventStreams
      BY EmptySeq DEF NewStream, EventStreams, Shown
    <3>2. QED
      BY <2>2, <3>1 DEF OpenStream
  <2>3. CASE ReceiveActivity(s)
    <3>1. /\ Head(stream[s].channel) \in Activities
          /\ Tail(stream[s].channel) \in Seq(Activities)
      BY <2>1, <2>3, LastOfTail DEF ReceiveActivity, EventStreams
    <3>2. [stream[s] EXCEPT !.shown = Head(stream[s].channel), !.channel = Tail(@)] \in EventStreams
      BY <2>1, <3>1 DEF EventStreams, Shown
    <3>3. stream' = [stream EXCEPT ![s] =
             [stream[s] EXCEPT !.shown = Head(stream[s].channel), !.channel = Tail(@)]]
      BY <2>3 DEF ReceiveActivity
    <3>4. QED
      BY <2>3, <3>2, <3>3 DEF ReceiveActivity
  <2>4. CASE CloseStream(s)
    <3>1. [stream[s] EXCEPT !.open = FALSE, !.channel = <<>>] \in EventStreams
      BY <2>1, EmptySeq DEF EventStreams
    <3>2. stream' = [stream EXCEPT ![s] = [stream[s] EXCEPT !.open = FALSE, !.channel = <<>>]]
      BY <2>4 DEF CloseStream
    <3>3. QED
      BY <2>4, <3>1, <3>2 DEF CloseStream
  <2>5. QED
    BY <1>11, <2>2, <2>3, <2>4
<1>12. CASE UNCHANGED hubVars
  BY <1>12 DEF hubVars
<1>13. QED
  BY <1>1, <1>2, <1>3, <1>4, <1>5, <1>6, <1>7, <1>8, <1>9, <1>10, <1>11, <1>12 DEF HubNext

\* The reporter, its batch and its handler: nothing on the way is overtaken.
LEMMA ReporterKeeps ==
  ASSUME HubTypeOK, LastIsQueued, CallHasBatch, HandlerHasHead, NewestIsOnItsWay,
         [HubNext]_hubVars
  PROVE  LastIsQueued' /\ CallHasBatch' /\ HandlerHasHead' /\ NewestIsOnItsWay'
<1> USE DEF HubTypeOK
<1>1. ASSUME NEW phase \in Phases, Report(phase)
      PROVE  LastIsQueued' /\ CallHasBatch' /\ HandlerHasHead' /\ NewestIsOnItsWay'
  <2>1. UNCHANGED <<post, hub, lost>>
    BY <1>1 DEF Report
  <2>2. QED
    BY <1>1, <2>1, ReportQueues DEF CallHasBatch, HandlerHasHead, NewestIsOnItsWay
<1>2. CASE Flush
  <2>1. /\ reporter.batch = <<>> /\ reporter.queue # <<>> /\ reporter.call = NoPost
        /\ reporter'.batch = reporter.queue /\ reporter'.queue = <<>>
        /\ reporter'.call = reporter.call
        /\ UNCHANGED <<current, post, hub, lost>>
    BY <1>2 DEF Flush, CallHasBatch, Reporters
  <2>2. QED
    BY <2>1 DEF LastIsQueued, CallHasBatch, HandlerHasHead, NewestIsOnItsWay
<1>3. ASSUME lost'
      PROVE  HandlerHasHead' /\ NewestIsOnItsWay'
  BY <1>3 DEF HandlerHasHead, NewestIsOnItsWay
<1>4. CASE ReportTimesOut
  BY <1>3, <1>4, AnswerTakesHead DEF ReportTimesOut, LastIsQueued, CallHasBatch
<1>5. ASSUME NEW h \in Posts, ReportActivity(h)
      PROVE  LastIsQueued' /\ CallHasBatch' /\ HandlerHasHead' /\ NewestIsOnItsWay'
  <2>1. /\ reporter.batch # <<>> /\ reporter.call = NoPost
        /\ reporter'.queue = reporter.queue /\ reporter'.batch = reporter.batch
        /\ reporter'.last = reporter.last
        /\ reporter'.call = [pc |-> "waiting", at |-> h]
        /\ post' = [post EXCEPT ![h] =
                      [pc |-> "arrived", activity |-> Head(reporter.batch), to |-> {}]]
        /\ UNCHANGED <<current, hub, lost>>
    BY <1>5 DEF ReportActivity, Reporters
  <2>2. reporter'.call # NoPost
    BY <2>1 DEF NoPost
  <2>3. ~ lost => \A k \in Posts \ {h} : post'[k] = NoPost
    BY <2>1 DEF HandlerHasHead
  <2>4. HandlerHasHead'
    BY <2>1, <2>2, <2>3 DEF HandlerHasHead
  <2>5. QED
    BY <2>1, <2>4 DEF LastIsQueued, CallHasBatch, NewestIsOnItsWay
<1>6. ASSUME NEW h \in Posts, Update(h)
      PROVE  LastIsQueued' /\ CallHasBatch' /\ HandlerHasHead' /\ NewestIsOnItsWay'
  <2>1. /\ post[h].pc = "arrived" /\ hub' = post[h].activity
        /\ UNCHANGED <<current, reporter, lost>>
        /\ \A k \in Posts \ {h} : post'[k] = post[k]
        /\ post'[h].activity = post[h].activity
    BY <1>6 DEF Update
  <2>2. ~ lost => /\ \A k \in Posts \ {h} : post[k] = NoPost
                  /\ reporter.call # NoPost /\ reporter.call.at = h
                  /\ reporter.batch # <<>> /\ Head(reporter.batch) = post[h].activity
    BY <2>1, HandlerIsCalled DEF Waits
  <2>3. HandlerHasHead'
    BY <2>1, <2>2 DEF HandlerHasHead
  <2>4. NewestIsOnItsWay'
    BY <2>1, <2>2 DEF NewestIsOnItsWay
  <2>5. QED
    BY <2>1, <2>3, <2>4 DEF LastIsQueued, CallHasBatch
<1>7. ASSUME NEW h \in Posts, NEW s \in Streams, SendActivity(h, s)
      PROVE  LastIsQueued' /\ CallHasBatch' /\ HandlerHasHead' /\ NewestIsOnItsWay'
  <2>1. /\ post[h].pc = "sending"
        /\ UNCHANGED <<current, reporter, hub, lost>>
        /\ \A k \in Posts \ {h} : post'[k] = post[k]
        /\ post'[h].activity = post[h].activity
    BY <1>7 DEF SendActivity
  <2>2. post[h] # NoPost
    BY <2>1 DEF NoPost
  <2>3. QED
    BY <2>1, <2>2 DEF LastIsQueued, CallHasBatch, HandlerHasHead, NewestIsOnItsWay
<1>8. ASSUME NEW h \in Posts, UpdateReturns(h)
      PROVE  LastIsQueued' /\ CallHasBatch' /\ HandlerHasHead' /\ NewestIsOnItsWay'
  <2>1. /\ post[h].pc = "sending"
        /\ post' = [post EXCEPT ![h] = NoPost]
        /\ IF Waits(h) THEN ReportAnswered ELSE UNCHANGED reporter
        /\ UNCHANGED <<current, hub, lost>>
    BY <1>8 DEF UpdateReturns
  <2>2. CASE Waits(h)
    <3>1. /\ reporter.batch # <<>>
          /\ reporter'.queue = reporter.queue /\ reporter'.last = reporter.last
          /\ reporter'.batch = Tail(reporter.batch) /\ reporter'.call = NoPost
      BY <2>1, <2>2, AnswerTakesHead DEF Waits
    <3>2. LastIsQueued' /\ CallHasBatch'
      BY <3>1 DEF LastIsQueued, CallHasBatch
    <3>3. ~ lost => /\ \A k \in Posts \ {h} : post[k] = NoPost
                    /\ hub = Head(reporter.batch)
      BY <2>1, HandlerIsCalled
    <3>4. HandlerHasHead'
      BY <2>1, <3>3 DEF HandlerHasHead
    <3>5. /\ Tail(reporter.batch) # <<>> => Last(Tail(reporter.batch)) = Last(reporter.batch)
          /\ Tail(reporter.batch) = <<>> => Last(reporter.batch) = Head(reporter.batch)
      BY <3>1, LastOfTail DEF Reporters
    <3>6. NewestIsOnItsWay'
      BY <2>1, <3>1, <3>3, <3>5 DEF NewestIsOnItsWay
    <3>7. QED
      BY <3>2, <3>4, <3>6
  <2>3. CASE ~ Waits(h)
    <3>1. lost
      BY <2>1, <2>3, HandlerIsCalled
    <3>2. QED
      BY <2>1, <2>3, <3>1 DEF LastIsQueued, CallHasBatch, HandlerHasHead, NewestIsOnItsWay
  <2>4. QED
    BY <2>2, <2>3
<1>9. CASE PurgeIdle
  BY <1>3, <1>9 DEF PurgeIdle, LastIsQueued, CallHasBatch
<1>10. CASE HubRestarts
  BY <1>3, <1>10, AnswerTakesHead DEF HubRestarts, LastIsQueued, CallHasBatch
<1>11. ASSUME UNCHANGED <<current, reporter, post, hub, lost>>
       PROVE  LastIsQueued' /\ CallHasBatch' /\ HandlerHasHead' /\ NewestIsOnItsWay'
  BY <1>11 DEF LastIsQueued, CallHasBatch, HandlerHasHead, NewestIsOnItsWay
<1>12. QED
  BY <1>1, <1>2, <1>4, <1>5, <1>6, <1>7, <1>8, <1>9, <1>10, <1>11
     DEF HubNext, hubVars, PersistActivity, OpenStream, ReceiveActivity, CloseStream

-----------------------------------------------------------------------------
(* The activity hub: the streams                                           *)

\* A step that changes neither the hub nor the handlers that broadcast, nor what a
\* stream has newest.
LEMMA StreamUntouched ==
  ASSUME StreamsFollow, NEW s \in Streams, UNCHANGED hub,
         Pending(s)' = Pending(s), \A h \in Pending(s) : post'[h].activity = post[h].activity,
         UNCHANGED stream[s]
  PROVE  (~ stream[s].used => ~ stream[s].open /\ Pending(s) = {})' /\ StreamFollows(s)'
BY DEF StreamsFollow, StreamFollows, Newest

LEMMA StreamsKeep ==
  ASSUME HubTypeOK, StreamsFollow, [HubNext]_hubVars
  PROVE  StreamsFollow'
<1> SUFFICES ASSUME NEW s \in Streams
             PROVE  (~ stream[s].used => ~ stream[s].open /\ Pending(s) = {})' /\ StreamFollows(s)'
  BY DEF StreamsFollow
<1> USE DEF HubTypeOK
<1>0. stream[s] \in EventStreams
  OBVIOUS
<1>1. ASSUME UNCHANGED <<post, hub, stream>>
      PROVE  (~ stream[s].used => ~ stream[s].open /\ Pending(s) = {})' /\ StreamFollows(s)'
  BY <1>1 DEF StreamsFollow, StreamFollows, Newest, Pending, Broadcasting
<1>2. ASSUME NEW h \in Posts, ReportActivity(h)
      PROVE  (~ stream[s].used => ~ stream[s].open /\ Pending(s) = {})' /\ StreamFollows(s)'
  <2>1. /\ UNCHANGED <<hub, stream>> /\ post[h].pc # "sending" /\ post'[h].pc = "arrived"
        /\ \A k \in Posts \ {h} : post'[k] = post[k]
    BY <1>2 DEF ReportActivity, NoPost
  <2>2. Pending(s)' = Pending(s) /\ \A k \in Pending(s) : post'[k] = post[k]
    BY <2>1 DEF Pending, Broadcasting
  <2>3. QED
    BY <2>1, <2>2, StreamUntouched
<1>3. ASSUME NEW h \in Posts, UpdateReturns(h)
      PROVE  (~ stream[s].used => ~ stream[s].open /\ Pending(s) = {})' /\ StreamFollows(s)'
  <2>1. /\ UNCHANGED <<hub, stream>> /\ post[h].to = {} /\ post'[h].pc = "none"
        /\ \A k \in Posts \ {h} : post'[k] = post[k]
    BY <1>3 DEF UpdateReturns, NoPost
  <2>2. Pending(s)' = Pending(s) /\ \A k \in Pending(s) : post'[k] = post[k]
    BY <2>1 DEF Pending, Broadcasting
  <2>3. QED
    BY <2>1, <2>2, StreamUntouched
<1>4. ASSUME NEW h \in Posts, Update(h)
      PROVE  (~ stream[s].used => ~ stream[s].open /\ Pending(s) = {})' /\ StreamFollows(s)'
  <2>1. /\ post[h].pc = "arrived" /\ hub' = post[h].activity
        /\ post'[h].pc = "sending" /\ post'[h].to = OpenStreams
        /\ post'[h].activity = post[h].activity
        /\ \A k \in Posts \ {h} : post'[k] = post[k]
        /\ stream'[s] = [stream[s] EXCEPT !.gap = @ \/ (stream[s].open /\ Broadcasting # {})]
    <3>1. post[h] \in Handled
      BY <1>4 DEF Update, NoPost
    <3>2. QED
      BY <1>4, <3>1 DEF Update, Handled
  <2>2. /\ stream'[s].open = stream[s].open /\ stream'[s].used = stream[s].used
        /\ ~ stream'[s].gap /\ stream[s].open => Broadcasting = {}
    BY <1>0, <2>1 DEF EventStreams
  <2>3. Pending(s)' \subseteq Pending(s) \cup {h}
    BY <2>1 DEF Pending, Broadcasting
  <2>4. stream[s].open => h \in Pending(s)'
    BY <2>1 DEF Pending, Broadcasting, OpenStreams
  <2>5. ~ stream[s].open => Pending(s)' = Pending(s)
    BY <2>1 DEF Pending, Broadcasting, OpenStreams
  <2>6. StreamFollows(s)'
    <3>1. ASSUME stream'[s].open, ~ stream'[s].gap
          PROVE  Pending(s)' = {h}
      BY <2>2, <2>3, <2>4, <3>1 DEF Pending
    <3>2. QED
      BY <2>1, <3>1 DEF StreamFollows
  <2>7. QED
    BY <2>2, <2>5, <2>6 DEF StreamsFollow
<1>5. ASSUME NEW h \in Posts, NEW x \in Streams, SendActivity(h, x)
      PROVE  (~ stream[s].used => ~ stream[s].open /\ Pending(s) = {})' /\ StreamFollows(s)'
  <2>0. post[h] \in Handled
    BY <1>5 DEF SendActivity, NoPost
  <2>1. /\ post[h].pc = "sending" /\ x \in post[h].to
        /\ post'[h].pc = "sending" /\ post'[h].activity = post[h].activity
        /\ post'[h].to = post[h].to \ {x}
        /\ \A k \in Posts \ {h} : post'[k] = post[k]
        /\ UNCHANGED hub
    BY <1>5, <2>0 DEF SendActivity, Handled
  <2>2. CASE s # x
    <3>1. stream'[s] = stream[s]
      BY <1>5, <2>2 DEF SendActivity
    <3>2. Pending(s)' = Pending(s) /\ \A k \in Pending(s) : post'[k].activity = post[k].activity
      BY <2>1, <2>2 DEF Pending, Broadcasting
    <3>3. QED
      BY <2>1, <3>1, <3>2, StreamUntouched
  <2>3. CASE s = x
    <3>1. h \in Pending(s) /\ Pending(s)' = Pending(s) \ {h}
      BY <2>1, <2>3 DEF Pending, Broadcasting
    <3>2. \A k \in Pending(s)' : post'[k].activity = post[k].activity
      BY <2>1, <3>1 DEF Pending, Broadcasting
    <3>3. stream[s].used
      BY <3>1 DEF StreamsFollow
    <3>4. CASE ~ stream[s].open
      BY <1>5, <2>3, <3>3, <3>4 DEF SendActivity, StreamFollows
    <3>5. CASE stream[s].open /\ Len(stream[s].channel) < Buffer
      <4>1. stream'[s] = [stream[s] EXCEPT !.channel = Append(@, post[h].activity)]
        BY <1>5, <2>3, <3>5 DEF SendActivity
      <4>2. /\ stream'[s].open = stream[s].open /\ stream'[s].used = stream[s].used
            /\ stream'[s].gap = stream[s].gap
            /\ stream'[s].channel = Append(stream[s].channel, post[h].activity)
        BY <1>0, <4>1 DEF EventStreams
      <4>3. Newest(s)' = post[h].activity
        <5>1. stream[s].channel \in Seq(Activities) /\ post[h].activity \in Activities
          BY <1>0, <2>0 DEF EventStreams, Handled
        <5>2. QED
          BY <4>2, <5>1, LastOfAppend DEF Newest
      <4>4. QED
        BY <2>1, <3>1, <3>2, <3>3, <4>2, <4>3 DEF StreamsFollow, StreamFollows
    <3>6. CASE stream[s].open /\ ~ (Len(stream[s].channel) < Buffer)
      <4>1. stream'[s] = [stream[s] EXCEPT !.gap = TRUE]
        BY <1>5, <2>3, <3>6 DEF SendActivity
      <4>2. stream'[s].gap /\ stream'[s].used = stream[s].used
        BY <1>0, <4>1 DEF EventStreams
      <4>3. QED
        BY <3>3, <4>2 DEF StreamFollows
    <3>7. QED
      BY <3>4, <3>5, <3>6
  <2>4. QED
    BY <2>2, <2>3
<1>6. CASE PurgeIdle
  <2>1. UNCHANGED <<post, stream>> /\ hub' = NoActivity
    BY <1>6 DEF PurgeIdle
  <2>2. Pending(s)' = Pending(s)
    BY <2>1 DEF Pending, Broadcasting
  <2>3. QED
    BY <2>1, <2>2 DEF StreamsFollow, StreamFollows
<1>7. CASE HubRestarts
  <2>1. /\ ~ stream'[s].open /\ stream'[s].used = stream[s].used
        /\ \A h \in Posts : post'[h] = NoPost
    BY <1>0, <1>7 DEF HubRestarts, EventStreams
  <2>2. Pending(s)' = {}
    BY <2>1 DEF Pending, Broadcasting, NoPost
  <2>3. QED
    BY <2>1, <2>2 DEF StreamFollows
<1>8. ASSUME NEW x \in Streams, OpenStream(x) \/ ReceiveActivity(x) \/ CloseStream(x)
      PROVE  (~ stream[s].used => ~ stream[s].open /\ Pending(s) = {})' /\ StreamFollows(s)'
  <2>1. UNCHANGED <<post, hub>>
    BY <1>8 DEF OpenStream, ReceiveActivity, CloseStream
  <2>2. Pending(s)' = Pending(s)
    BY <2>1 DEF Pending, Broadcasting
  <2>3. CASE s # x
    <3>1. stream'[s] = stream[s]
      BY <1>8, <2>3 DEF OpenStream, ReceiveActivity, CloseStream
    <3>2. QED
      BY <2>1, <2>2, <3>1, StreamUntouched
  <2>4. CASE s = x /\ OpenStream(x)
    <3>1. /\ stream'[s].used /\ stream'[s].channel = <<>>
          /\ stream'[s].shown = IF hub = NoActivity THEN stored ELSE hub
      BY <2>4 DEF OpenStream, NewStream
    <3>2. Pending(s) = {}
      BY <2>4 DEF OpenStream, StreamsFollow
    <3>3. QED
      BY <2>1, <2>2, <3>1, <3>2 DEF StreamFollows, Newest
  <2>5. CASE s = x /\ ReceiveActivity(x)
    <3>1. /\ stream'[s].used = stream[s].used /\ stream'[s].open = stream[s].open
          /\ stream'[s].gap = stream[s].gap
          /\ stream'[s].shown = Head(stream[s].channel)
          /\ stream'[s].channel = Tail(stream[s].channel)
          /\ stream[s].channel # <<>> /\ stream[s].channel \in Seq(Activities)
      BY <1>0, <2>5 DEF ReceiveActivity, EventStreams
    <3>2. Newest(s)' = Newest(s)
      BY <3>1, LastOfTail DEF Newest
    <3>3. QED
      BY <2>1, <2>2, <3>1, <3>2 DEF StreamsFollow, StreamFollows
  <2>6. CASE s = x /\ CloseStream(x)
    <3>1. ~ stream'[s].open /\ stream'[s].used = stream[s].used
      BY <1>0, <2>6 DEF CloseStream, EventStreams
    <3>2. QED
      BY <2>2, <3>1 DEF StreamsFollow, StreamFollows
  <2>7. QED
    BY <1>8, <2>3, <2>4, <2>5, <2>6
<1>9. QED
  BY <1>1, <1>2, <1>3, <1>4, <1>5, <1>6, <1>7, <1>8
     DEF HubNext, hubVars, Report, Flush, ReportTimesOut, PersistActivity

-----------------------------------------------------------------------------
(* The activity hub: theorems                                              *)

LEMMA HubInvariant == HubSpec => []HubInv
<1>1. HubInit => HubInv
  <2> SUFFICES ASSUME HubInit PROVE HubInv
    OBVIOUS
  <2>1. HubTypeOK
    BY EmptySeq DEF HubInit, HubTypeOK, Reporters, Shown, EventStreams, NewStream
  <2>2. LastIsQueued /\ CallHasBatch /\ HandlerHasHead /\ NewestIsOnItsWay
    BY DEF HubInit, LastIsQueued, CallHasBatch, HandlerHasHead, NewestIsOnItsWay
  <2>3. StreamsFollow
    BY DEF HubInit, NewStream, StreamsFollow, StreamFollows, Pending, Broadcasting, NoPost
  <2>4. QED
    BY <2>1, <2>2, <2>3 DEF HubInv
<1>2. HubInv /\ [HubNext]_hubVars => HubInv'
  BY HubTypes, ReporterKeeps, StreamsKeep DEF HubInv
<1>3. QED
  BY <1>1, <1>2, PTL DEF HubSpec

\* Coalescing, batching and answering never lose the newest report, however many
\* there are (ActivityReporter, Hub.Update), unless one timed out, the server
\* restarted or the idle state was purged.
THEOREM NewestAlwaysOnItsWay == HubSpec => []NewestIsOnItsWay
<1>1. HubInv => NewestIsOnItsWay
  BY DEF HubInv
<1>2. QED
  BY <1>1, HubInvariant, PTL

\* For any number of handlers, streams and channel sizes, a stream that has lost no
\* message shows or has queued what the hub holds, once it is sent (Hub.Subscribe).
THEOREM StreamAlwaysCurrent == HubSpec => []StreamIsCurrent
<1>1. HubInv => StreamIsCurrent
  BY DEF HubInv, StreamsFollow, StreamFollows, StreamIsCurrent, Pending
<1>2. QED
  BY <1>1, HubInvariant, PTL

-----------------------------------------------------------------------------
(* The event broker: types                                                 *)

Arrays == Seq(Subscribers \cup {Empty})

States == [state : {"none", "open", "closed"}, used : Nat]

BrokerTypeOK ==
  /\ heap \in Seq(Arrays)
  /\ list \in [array : Nat, len : Nat]
  /\ list.array \in 1 .. Len(heap)
  /\ list.len \in 0 .. Len(heap[list.array])
  /\ channel \in [Subscribers -> States]

\* The place of every open stream, and of nothing else, in the slice.
PlacesExact ==
  /\ \A i \in 1 .. list.len : heap[list.array][i] \in Listening
  /\ \A s \in Listening : \E i \in 1 .. list.len : heap[list.array][i] = s
  /\ \A i, j \in 1 .. list.len : heap[list.array][i] = heap[list.array][j] => i = j

BrokerInv == BrokerTypeOK /\ PlacesExact

\* A new array.
LEMMA GrownArray ==
  ASSUME BrokerTypeOK, NEW s \in Subscribers
  PROVE  /\ Grown(s) \in Arrays
         /\ Len(Grown(s)) >= list.len + 1
         /\ Grown(s)[list.len + 1] = s
         /\ \A i \in 1 .. list.len : Grown(s)[i] = heap[list.array][i]
<1> DEFINE size == IF list.len = 0 THEN 1 ELSE 2 * list.len
<1>1. heap[list.array] \in Arrays /\ list.len \in Nat
  BY DEF BrokerTypeOK
<1>2. size \in Nat /\ size >= list.len + 1
  BY <1>1
<1>3. Grown(s) = [i \in 1 .. size |-> IF i <= list.len THEN heap[list.array][i]
                       ELSE IF i = list.len + 1 THEN s ELSE Empty]
  BY DEF Grown
<1> HIDE DEF size
<1>4. \A i \in 1 .. list.len : heap[list.array][i] \in Subscribers \cup {Empty}
  BY <1>1 DEF BrokerTypeOK, Arrays
<1>5. \A i \in 1 .. size : Grown(s)[i] \in Subscribers \cup {Empty}
  BY <1>1, <1>2, <1>3, <1>4
<1>6. Grown(s) \in [1 .. size -> Subscribers \cup {Empty}]
  BY <1>3, <1>5
<1>7. Grown(s) \in Arrays /\ Len(Grown(s)) = size
  BY <1>2, <1>6 DEF Arrays
<1>8. QED
  BY <1>1, <1>2, <1>3, <1>7

\* A stream is added at the end.
LEMMA SubscribeKeeps ==
  ASSUME BrokerInv, NEW s \in Subscribers, Subscribe(s)
  PROVE  BrokerInv'
<1> USE DEF BrokerInv
<1>1. /\ heap \in Seq(Arrays) /\ list.array \in 1 .. Len(heap) /\ list.len \in Nat
      /\ heap[list.array] \in Arrays /\ list.len <= Len(heap[list.array])
  BY DEF BrokerTypeOK
<1>2. channel' \in [Subscribers -> States] /\ s \notin Listening /\ Listening' = Listening \cup {s}
  BY DEF Subscribe, BrokerTypeOK, States, Listening
<1>3. /\ heap' \in Seq(Arrays)
      /\ list' \in [array : Nat, len : Nat]
      /\ list'.array \in 1 .. Len(heap')
      /\ list'.len = list.len + 1
      /\ list'.len <= Len(heap'[list'.array])
      /\ heap'[list'.array][list.len + 1] = s
      /\ \A i \in 1 .. list.len : heap'[list'.array][i] = heap[list.array][i]
  <2>1. CASE list.len < Len(heap[list.array])
    <3>1. /\ heap' = [heap EXCEPT ![list.array] = [heap[list.array] EXCEPT ![list.len + 1] = s]]
          /\ list' = [list EXCEPT !.len = list.len + 1]
      BY <2>1 DEF Subscribe
    <3> DEFINE array == [heap[list.array] EXCEPT ![list.len + 1] = s]
    <3>2. /\ array \in Arrays
          /\ Len(array) = Len(heap[list.array])
          /\ array[list.len + 1] = s
          /\ \A i \in 1 .. list.len : array[i] = heap[list.array][i]
      BY <1>1, <2>1 DEF Arrays
    <3>3. heap' = [heap EXCEPT ![list.array] = array]
      BY <3>1
    <3> HIDE DEF array
    <3>4. heap' \in Seq(Arrays) /\ Len(heap') = Len(heap) /\ heap'[list.array] = array
      BY <1>1, <3>2, <3>3
    <3>5. list' \in [array : Nat, len : Nat] /\ list'.array = list.array /\ list'.len = list.len + 1
      BY <1>1, <3>1 DEF BrokerTypeOK
    <3>6. QED
      BY <1>1, <2>1, <3>2, <3>4, <3>5
  <2>2. CASE ~ (list.len < Len(heap[list.array]))
    <3>1. heap' = Append(heap, Grown(s)) /\ list' = [array |-> Len(heap) + 1, len |-> list.len + 1]
      BY <2>2 DEF Subscribe
    <3>2. heap' \in Seq(Arrays) /\ Len(heap') = Len(heap) + 1 /\ heap'[Len(heap) + 1] = Grown(s)
      BY <1>1, <3>1, GrownArray
    <3>3. QED
      BY <1>1, <3>1, <3>2, GrownArray
  <2>3. QED
    BY <2>1, <2>2
<1>4. BrokerTypeOK'
  BY <1>1, <1>2, <1>3 DEF BrokerTypeOK
<1>5. PlacesExact'
  <2>a. \A n \in Nat : 1 .. n + 1 = (1 .. n) \cup {n + 1}
    OBVIOUS
  <2>b. 1 .. list'.len = (1 .. list.len) \cup {list.len + 1}
    BY <1>1, <1>3, <2>a
  <2>c. \A i \in 1 .. list.len : heap'[list'.array][i] \in Listening
    BY <1>3 DEF PlacesExact
  <2>1. /\ 1 .. list'.len = (1 .. list.len) \cup {list.len + 1}
        /\ \A i \in 1 .. list.len : heap'[list'.array][i] \in Listening
    BY <2>b, <2>c
  <2>2. \A i \in 1 .. list'.len : heap'[list'.array][i] \in Listening'
    BY <1>2, <1>3, <2>1
  <2>3. \A x \in Listening' : \E i \in 1 .. list'.len : heap'[list'.array][i] = x
    BY <1>2, <1>3, <2>1 DEF PlacesExact
  <2>4. \A i, j \in 1 .. list'.len : heap'[list'.array][i] = heap'[list'.array][j] => i = j
    BY <1>2, <1>3, <2>1 DEF PlacesExact
  <2>5. QED
    BY <2>2, <2>3, <2>4 DEF PlacesExact
<1>6. QED
  BY <1>4, <1>5

\* The streams behind the one that leaves move down one place.
LEMMA UnsubscribeKeeps ==
  ASSUME BrokerInv, NEW s \in Subscribers, Unsubscribe(s)
  PROVE  BrokerInv'
<1> USE DEF BrokerInv
<1>1. /\ heap \in Seq(Arrays) /\ list.array \in 1 .. Len(heap) /\ list.len \in Nat
      /\ heap[list.array] \in Arrays /\ list.len <= Len(heap[list.array])
  BY DEF BrokerTypeOK
<1>2. channel' \in [Subscribers -> States] /\ Listening' = Listening \ {s}
  BY DEF Unsubscribe, BrokerTypeOK, States, Listening
<1>3. PICK k \in 1 .. list.len : /\ heap[list.array][k] = s
                                 /\ heap' = [heap EXCEPT ![list.array] = Shifted(k)]
  BY DEF Unsubscribe
<1>4. list' \in [array : Nat, len : Nat] /\ list'.array = list.array /\ list'.len = list.len - 1
  BY <1>1, <1>3 DEF Unsubscribe, BrokerTypeOK
<1>5. /\ Shifted(k) \in Arrays /\ Len(Shifted(k)) = Len(heap[list.array])
      /\ \A i \in 1 .. list.len - 1 :
           Shifted(k)[i] = IF i >= k THEN heap[list.array][i + 1] ELSE heap[list.array][i]
  <2>1. DOMAIN heap[list.array] = 1 .. Len(heap[list.array])
    BY <1>1 DEF Arrays
  <2>2. \A i \in 1 .. Len(heap[list.array]) : heap[list.array][i] \in Subscribers \cup {Empty}
    BY <1>1 DEF Arrays
  <2>3. Shifted(k) = [i \in 1 .. Len(heap[list.array]) |->
           IF i \in k .. list.len - 1 THEN heap[list.array][i + 1] ELSE heap[list.array][i]]
    BY <2>1 DEF Shifted
  <2>4. \A i \in 1 .. Len(heap[list.array]) : Shifted(k)[i] \in Subscribers \cup {Empty}
    BY <1>1, <2>2, <2>3
  <2>5. Shifted(k) \in [1 .. Len(heap[list.array]) -> Subscribers \cup {Empty}]
    BY <2>3, <2>4
  <2>6. Len(heap[list.array]) \in Nat
    BY <1>1 DEF Arrays
  <2>7. Shifted(k) \in Arrays /\ Len(Shifted(k)) = Len(heap[list.array])
    BY <2>5, <2>6 DEF Arrays
  <2>8. QED
    BY <1>1, <2>3, <2>6, <2>7
<1>6. heap' \in Seq(Arrays) /\ Len(heap') = Len(heap) /\ heap'[list.array] = Shifted(k)
  BY <1>1, <1>3, <1>5
<1>7. BrokerTypeOK'
  BY <1>1, <1>2, <1>3, <1>4, <1>5, <1>6 DEF BrokerTypeOK
<1>8. \A i \in 1 .. list'.len :
        heap'[list'.array][i] = IF i >= k THEN heap[list.array][i + 1] ELSE heap[list.array][i]
  BY <1>4, <1>5, <1>6
<1>9. PlacesExact'
  <2>0. /\ \A i \in 1 .. list.len : heap[list.array][i] \in Listening
        /\ \A i, j \in 1 .. list.len : heap[list.array][i] = heap[list.array][j] => i = j
    BY DEF PlacesExact
  <2>1. ASSUME NEW i \in 1 .. list'.len
        PROVE  heap'[list'.array][i] \in Listening'
    <3>1. CASE i >= k
      <4>1. i + 1 \in 1 .. list.len /\ i + 1 # k /\ heap'[list'.array][i] = heap[list.array][i + 1]
        BY <1>1, <1>4, <1>8, <3>1
      <4>2. QED
        BY <1>2, <1>3, <2>0, <4>1
    <3>2. CASE ~ (i >= k)
      <4>1. i \in 1 .. list.len /\ i # k /\ heap'[list'.array][i] = heap[list.array][i]
        BY <1>1, <1>4, <1>8, <3>2
      <4>2. QED
        BY <1>2, <1>3, <2>0, <4>1
    <3>3. QED
      BY <3>1, <3>2
  <2>2. ASSUME NEW x \in Listening'
        PROVE  \E i \in 1 .. list'.len : heap'[list'.array][i] = x
    <3>1. PICK i \in 1 .. list.len : heap[list.array][i] = x
      BY <1>2 DEF PlacesExact
    <3>2. i # k
      BY <1>2, <1>3, <3>1
    <3>3. CASE i < k
      <4>1. i \in 1 .. list'.len /\ heap'[list'.array][i] = x
        BY <1>1, <1>4, <1>8, <3>1, <3>3
      <4>2. QED
        BY <4>1
    <3>4. CASE i > k
      <4>0. i - 1 \in 1 .. list'.len /\ i - 1 >= k /\ (i - 1) + 1 = i
        BY <1>1, <1>4, <3>4
      <4>1. i - 1 \in 1 .. list'.len /\ heap'[list'.array][i - 1] = x
        BY <1>8, <3>1, <4>0
      <4>2. QED
        BY <4>1
    <3>5. QED
      BY <3>2, <3>3, <3>4
  <2>3. ASSUME NEW i \in 1 .. list'.len, NEW j \in 1 .. list'.len,
               heap'[list'.array][i] = heap'[list'.array][j]
        PROVE  i = j
    <3> DEFINE from(n) == IF n >= k THEN n + 1 ELSE n
    <3>1. from(i) \in 1 .. list.len /\ from(j) \in 1 .. list.len
      BY <1>1, <1>4
    <3>2. /\ heap'[list'.array][i] = heap[list.array][from(i)]
          /\ heap'[list'.array][j] = heap[list.array][from(j)]
      BY <1>8
    <3>3. from(i) = from(j)
      BY <2>0, <2>3, <3>1, <3>2
    <3>4. QED
      BY <3>3
  <2>4. QED
    BY <2>1, <2>2, <2>3 DEF PlacesExact
<1>10. QED
  BY <1>7, <1>9

LEMMA BrokerStep == BrokerInv /\ [BrokerNext]_brokerVars => BrokerInv'
<1> SUFFICES ASSUME BrokerInv, [BrokerNext]_brokerVars
             PROVE  BrokerInv'
  OBVIOUS
<1> USE DEF BrokerInv
<1>1. ASSUME UNCHANGED <<heap, list>>, channel' \in [Subscribers -> States],
             \A s \in Subscribers : channel'[s].state = channel[s].state
      PROVE  BrokerInv'
  <2>1. Listening' = Listening
    BY <1>1 DEF Listening
  <2>2. QED
    BY <1>1, <2>1 DEF BrokerTypeOK, PlacesExact
<1>2. channel \in [Subscribers -> States]
  BY DEF BrokerTypeOK
<1>3. ASSUME NEW s \in Subscribers, Drain(s)
      PROVE  BrokerInv'
  BY <1>1, <1>2, <1>3 DEF Drain, States
<1>4. ASSUME NEW p \in Publications, Publish(p) \/ Published(p)
      PROVE  BrokerInv'
  BY <1>1, <1>2, <1>4 DEF Publish, Published
<1>5. ASSUME NEW p \in Publications, Send(p)
      PROVE  BrokerInv'
  <2>1. ASSUME NEW s, channel' = [channel EXCEPT ![s].used = @ + 1]
        PROVE  /\ channel' \in [Subscribers -> States]
               /\ \A x \in Subscribers : channel'[x].state = channel[x].state
    <3>1. CASE s \in Subscribers
      BY <1>2, <2>1, <3>1 DEF States
    <3>2. CASE s \notin Subscribers
      BY <1>2, <2>1, <3>2
    <3>3. QED
      BY <3>1, <3>2
  <2>2. UNCHANGED channel \/ \E s : channel' = [channel EXCEPT ![s].used = @ + 1]
    BY <1>5 DEF Send
  <2>3. QED
    BY <1>1, <1>2, <1>5, <2>1, <2>2 DEF Send
<1>6. CASE UNCHANGED brokerVars
  BY <1>1, <1>2, <1>6 DEF brokerVars
<1>7. QED
  BY <1>3, <1>4, <1>5, <1>6, SubscribeKeeps, UnsubscribeKeeps DEF BrokerNext

\* Whatever arrays append and remove have shared, shifted and outgrown, the slice
\* of a user's streams holds every open one exactly once (events.Broker).
THEOREM ListIsExactAlways == BrokerSpec => []ListIsExact
<1>1. BrokerInit => BrokerInv
  BY DEF BrokerInit, BrokerInv, BrokerTypeOK, PlacesExact, Listening, Arrays, States
<1>2. BrokerInv => ListIsExact
  <2>1. BrokerInv => Members(list) = Listening
    BY DEF BrokerInv, PlacesExact, Members
  <2>2. BrokerInv => \A i, j \in 1 .. list.len : Listed(list)[i] = Listed(list)[j] => i = j
    BY DEF BrokerInv, PlacesExact, Listed
  <2>3. QED
    BY <2>1, <2>2 DEF ListIsExact
<1>3. QED
  BY <1>1, <1>2, BrokerStep, PTL DEF BrokerSpec
=============================================================================
