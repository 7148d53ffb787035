----------------------------- MODULE MCPlanning -----------------------------
(* Small instances of PlanningSystem for TLC.                              *)
EXTENDS PlanningSystem, FiniteSets, TLC

CONSTANTS ann, bob, c1, c2, c3

\* Two connectors of one account, the second still on protocol 0.
OneOwner == [c \in Connectors |-> ann]
MixedProtocol == [c \in Connectors |-> IF c = c2 THEN 0 ELSE 1]
NewProtocol == [c \in Connectors |-> 1]

\* The third connector belongs to another account.
TwoOwners == [c \in Connectors |-> IF c = c3 THEN bob ELSE ann]

Submissions(D) ==
  {h \in Handlers : submit[h].pc # "idle" /\ submit[h].c \in D}

\* Bounds of the contention run: one connector is revoked, and the daemon of
\* the other account polls, works and submits beside one submission at most.
FewDaemons ==
  /\ Cardinality(revoked) <= 1
  /\ c3 \notin revoked
  /\ Cardinality(Submissions({c3})) <= 1
  /\ poll[c3] # "idle" \/ exec[c3] # None => Cardinality(Submissions(Connectors)) <= 1

Contention == Init /\ [][Next /\ FewDaemons']_vars

HandlerSymmetry == Permutations(Handlers)
=============================================================================
