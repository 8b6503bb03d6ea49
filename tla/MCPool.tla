------------------------------- MODULE MCPool -------------------------------
(***************************************************************************)
(* Instances of the worker pool for TLC.                                   *)
(***************************************************************************)
EXTENDS PoolProperties, TLC

CONSTANTS j1, j2, j3, j4, k1, k2, k3

MCKeys == {k1, k2, k3}

\* Of four deliveries j1 and j2 repeat one update; j3 and j4 are others.
MCKey == [j \in Jobs |-> IF j = j3 THEN k2 ELSE IF j = j4 THEN k3 ELSE k1]

\* The other way to pair them: j1 and j2 repeat one update, j3 and j4 another.
PairedKey == [j \in Jobs |-> IF j \in {j3, j4} THEN k2 ELSE k1]

\* Both classes are in use.
MixedPrio == [j \in Jobs |-> IF j = j3 THEN "high" ELSE "normal"]

\* Every job has normal priority, as in app/utils/speedcheck.py.
NormalPrio == [j \in Jobs |-> "normal"]

\* Workers are interchangeable.
WorkerSymmetry == Permutations(Workers)
=============================================================================
