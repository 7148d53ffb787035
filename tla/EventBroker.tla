----------------------------- MODULE EventBroker -----------------------------
(***************************************************************************)
(* The broker that pushes notifications and run changes to the event       *)
(* streams of one user (events/broker.go, handlers/notifications.go        *)
(* Stream, store/notification_store.go Create).                            *)
(*                                                                         *)
(* The subscribers are a Go slice, that is, a part of an array in the      *)
(* heap: append writes into the array while it has room and removing       *)
(* shifts it in place, and Publish walks the slice after the lock is gone. *)
(***************************************************************************)
EXTENDS Integers, Sequences

CONSTANTS Subscribers,    \* one channel each
          Publications,   \* events, published at any time
          ChannelSize,    \* capacity of a channel, 8 in the code
          Empty           \* an unused place of an array

ASSUME EventBrokerAssumption == ChannelSize \in Nat \ {0}

VARIABLES heap,      \* the arrays behind the slices, in the order of allocation
          list,      \* b.subscribers[userID]: an array and a length
          channel,   \* channel[s]: its state and the number of events in it
          publish,   \* publish[p]: a call of Publish
          got        \* got[s]: the events put into the channel or refused by it

brokerVars == <<heap, list, channel, publish, got>>

Listed(slice) == [i \in 1 .. slice.len |-> heap[slice.array][i]]
Members(slice) == {heap[slice.array][i] : i \in 1 .. slice.len}

Listening == {s \in Subscribers : channel[s].state = "open"}

BrokerInit ==
  /\ heap = <<(<<>>)>>
  /\ list = [array |-> 1, len |-> 0]
  /\ channel = [s \in Subscribers |-> [state |-> "none", used |-> 0]]
  /\ publish = [p \in Publications |-> [pc |-> "none"]]
  /\ got = [s \in Subscribers |-> {}]

-----------------------------------------------------------------------------
(* Streams                                                                 *)

\* An array of twice the size when there is no room.
Grown(s) ==
  LET size == IF list.len = 0 THEN 1 ELSE 2 * list.len IN
  [i \in 1 .. size |-> IF i <= list.len THEN heap[list.array][i]
                       ELSE IF i = list.len + 1 THEN s ELSE Empty]

Subscribe(s) ==
  /\ channel[s].state = "none"
  /\ channel' = [channel EXCEPT ![s].state = "open"]
  /\ IF list.len < Len(heap[list.array])
     THEN /\ heap' = [heap EXCEPT ![list.array][list.len + 1] = s]
          /\ list' = [list EXCEPT !.len = @ + 1]
     ELSE /\ heap' = Append(heap, Grown(s))
          /\ list' = [array |-> Len(heap) + 1, len |-> list.len + 1]
  /\ UNCHANGED <<publish, got>>

\* The subscribers that follow move one place down in the same array.
Shifted(k) ==
  [i \in DOMAIN heap[list.array] |->
     IF i \in k .. list.len - 1 THEN heap[list.array][i + 1] ELSE heap[list.array][i]]

\* Mutant: forgets to store the shorter slice.
Unsubscribe_KeepsLength(s) ==
  /\ \E k \in 1 .. list.len : /\ heap[list.array][k] = s
                              /\ heap' = [heap EXCEPT ![list.array] = Shifted(k)]
  /\ channel' = [channel EXCEPT ![s] = [state |-> "closed", used |-> 0]]
  /\ UNCHANGED <<list, publish, got>>

Unsubscribe(s) ==
  /\ \E k \in 1 .. list.len : /\ heap[list.array][k] = s
                              /\ heap' = [heap EXCEPT ![list.array] = Shifted(k)]
  /\ list' = [list EXCEPT !.len = @ - 1]
  /\ channel' = [channel EXCEPT ![s] = [state |-> "closed", used |-> 0]]
  /\ UNCHANGED <<publish, got>>

\* The stream's handler takes an event and writes it to the browser.
Drain(s) ==
  /\ channel[s].used > 0
  /\ channel' = [channel EXCEPT ![s].used = @ - 1]
  /\ UNCHANGED <<heap, list, publish, got>>

-----------------------------------------------------------------------------
(* Publish                                                                 *)

\* Under the read lock: the slice, not the channels in it.
Publish(p) ==
  /\ publish[p].pc = "none"
  /\ publish' = [publish EXCEPT ![p] =
       [pc |-> "sending", slice |-> list, next |-> 1, to |-> Members(list)]]
  /\ UNCHANGED <<heap, list, channel, got>>

\* A full channel is skipped; a send on a closed one panics, which ends the
\* request that publishes.
Send(p) ==
  LET call == publish[p]
      s == heap[call.slice.array][call.next]
  IN
  /\ call.pc = "sending"
  /\ call.next <= call.slice.len
  /\ IF channel[s].state = "closed"
     THEN /\ publish' = [publish EXCEPT ![p].pc = "panicked"]
          /\ UNCHANGED <<channel, got>>
     ELSE /\ publish' = [publish EXCEPT ![p].next = @ + 1]
          /\ got' = [got EXCEPT ![s] = @ \cup {p}]
          /\ channel' = IF channel[s].used < ChannelSize
                        THEN [channel EXCEPT ![s].used = @ + 1] ELSE channel
  /\ UNCHANGED <<heap, list>>

Published(p) ==
  /\ publish[p].pc = "sending"
  /\ publish[p].next > publish[p].slice.len
  /\ publish' = [publish EXCEPT ![p].pc = "done"]
  /\ UNCHANGED <<heap, list, channel, got>>

BrokerNext ==
  \/ \E s \in Subscribers : Subscribe(s) \/ Unsubscribe(s) \/ Drain(s)
  \/ \E p \in Publications : Publish(p) \/ Send(p) \/ Published(p)

BrokerSpec == BrokerInit /\ [][BrokerNext]_brokerVars

-----------------------------------------------------------------------------
\* Whatever arrays were shared, shifted and outgrown, the slice the lock protects
\* has every open stream once, so a stream can always be found and released.
ListIsExact ==
  /\ Members(list) = Listening
  /\ \A i, j \in 1 .. list.len : Listed(list)[i] = Listed(list)[j] => i = j

\* "Publish delivers an event to all active subscribers for the user ...
\* subscribers that are too slow to consume are skipped."
PublishReachesAll ==
  \A p \in Publications :
    publish[p].pc = "done" => \A s \in publish[p].to \cap Listening : p \in got[s]
=============================================================================
