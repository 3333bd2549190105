---------------------------- MODULE MCJobStore ----------------------------
(* TLC instances of JobStore.                                             *)
EXTENDS JobStore, TLC

\* Every environment, those with verifiable identities, and a background job's.
EverySite == {s \in Site : s.startKnown => s.linux}
VerifiableSites == {s \in Site : s.startKnown /\ s.linux}
DetachedSites == {s \in VerifiableSites : s.detached}

Symmetry == Permutations(Cli)
=============================================================================
