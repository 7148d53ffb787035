------------------------------ MODULE MCBroker ------------------------------
EXTENDS EventBroker, TLC

CONSTANTS u1, u2, u3, p1, p2

\* Streams are interchangeable.
StreamSymmetry == Permutations({u1, u2, u3})
=============================================================================
