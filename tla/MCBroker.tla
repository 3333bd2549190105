------------------------------ MODULE MCBroker ------------------------------
(* TLC instances of Broker.                                               *)
EXTENDS Broker, TLC

CONSTANTS r1, r2, i1, t1, t2

\* The threads differ in nothing but their names: the others are renamings.
MCInit == Init /\ thread[r1] = t1
MCSpec == MCInit /\ [][Next]_vars
MCFairSpec == MCSpec /\ Fairness
=============================================================================
