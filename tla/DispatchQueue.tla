--------------------------- MODULE DispatchQueue ---------------------------
(***************************************************************************)
(* What planning dispatch promises for local runs, without tables,         *)
(* requests or clocks: a work queue.  A job waits, is held by at most one  *)
(* eligible worker, may be taken back from it, and is settled once.        *)
(***************************************************************************)
EXTENDS Naturals

CONSTANTS Runs, Workers, None,
          Jobs,              \* what a job asks for
          Topic(_),          \* at most one open job per topic
          Eligible(_, _)     \* Eligible(w, j): worker w may hold job j

VARIABLES phase, holder, job

queueVars == <<phase, holder, job>>

Results == {"completed", "failed", "cancelled"}

Open(r) == phase[r] \in {"waiting", "held"}

Init ==
  /\ phase = [r \in Runs |-> "none"]
  /\ holder = [r \in Runs |-> None]
  /\ job = [r \in Runs |-> None]

\* Jobs are posted in the order of their ids.
Post(r, j) ==
  /\ \A s \in Runs : s >= r => phase[s] = "none"
  /\ \A s \in Runs : Open(s) => Topic(job[s]) # Topic(j)
  /\ phase' = [phase EXCEPT ![r] = "waiting"]
  /\ job' = [job EXCEPT ![r] = j]
  /\ UNCHANGED holder

\* A worker gets the oldest waiting job it is eligible for.
Grant(r, w) ==
  /\ phase[r] = "waiting"
  /\ Eligible(w, job[r])
  /\ \A s \in Runs : s < r /\ phase[s] = "waiting" => ~ Eligible(w, job[s])
  /\ phase' = [phase EXCEPT ![r] = "held"]
  /\ holder' = [holder EXCEPT ![r] = w]
  /\ UNCHANGED job

\* Any set of held jobs may be taken back together.
TakeBack(S) ==
  /\ \A r \in S : phase[r] = "held"
  /\ phase' = [r \in Runs |-> IF r \in S THEN "waiting" ELSE phase[r]]
  /\ holder' = [r \in Runs |-> IF r \in S THEN None ELSE holder[r]]
  /\ UNCHANGED job

\* Only a held job completes or fails; a waiting one can only be cancelled.
Settle(r, result) ==
  /\ \/ phase[r] = "held"
     \/ phase[r] = "waiting" /\ result = "cancelled"
  /\ phase' = [phase EXCEPT ![r] = result]
  /\ UNCHANGED <<holder, job>>

Next ==
  \/ \E r \in Runs : \/ \E j \in Jobs : Post(r, j)
                     \/ \E w \in Workers : Grant(r, w)
                     \/ \E result \in Results : Settle(r, result)
  \/ \E S \in SUBSET Runs : TakeBack(S)

Spec == Init /\ [][Next]_queueVars
=============================================================================
