---------------------------- MODULE MCRunStore ----------------------------
(* Two runs with one tool call each: enough for a transaction that sweeps   *)
(* several runs (restart recovery) to meet runs in different states.        *)
EXTENDS RunStore, TLC

\* Bound: effect evidence and advanced consequence for one of the runs at a
\* time; the rows of different runs meet in the restart sweeps only, and those
\* treat each run by itself.
EvidenceForOneRun ==
    \E r \in Runs : consequence[r] = NoneObserved /\ \A c \in Calls : effect[<<r, c>>] = "none"

Symmetry == Permutations(Runs)
=============================================================================
