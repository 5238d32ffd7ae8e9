------------------------------ MODULE MCDaemon ------------------------------
(* Finite instances of Daemon for TLC.                                     *)
EXTENDS Daemon

CONSTANTS l1, l2, l3

MCLaunches == {l1, l2, l3}
MCTwo == {l1, l2}

MCAllKinds == Kind
MCServe == {"serve"}

MCAllFaults == Fault

\* The launches are alike but for their kinds, so that of the assignments of kinds
\* that a permutation of the launches makes of each other one is enough.
Rank == [serve |-> 1, init |-> 2, query |-> 3]
MCInit == Init /\ Rank[kind[l1]] <= Rank[kind[l2]] /\ Rank[kind[l2]] <= Rank[kind[l3]]
MCFairSpec == MCInit /\ [][Next]_vars /\ Fairness
=============================================================================
