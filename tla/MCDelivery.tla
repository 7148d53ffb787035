----------------------------- MODULE MCDelivery -----------------------------
(* Small instances of Delivery for TLC.                                    *)
EXTENDS Delivery, TLC

CONSTANTS p1, p2, c2, k2, q1, q2, tA, ta

\* Two interchangeable daemons ...
AllReached == [c \in Connectors |-> Projects]

\* ... or one whose user is a member of the second project only.
TwoUsers == [c \in Connectors |-> IF c = c2 THEN {p2} ELSE {p1, p2}]

OneRequirement == [c \in Candidates |-> q1]
TwoRequirements == [c \in Candidates |-> IF c = k2 THEN q2 ELSE q1]
ProjectEach == [q \in Requirements |-> IF q = q2 THEN p2 ELSE p1]

\* Two titles: one with a capital that Go folds and LOWER of SQLite, or of a C
\* locale, does not, and the same in small letters.
GoFolds == [t \in Titles |-> IF t = tA THEN ta ELSE t]
SqlFolds == [t \in Titles |-> t]

RequestSymmetry == Permutations(Applies)
DaemonSymmetry == Permutations(Connectors) \cup Permutations(Posts)
=============================================================================
