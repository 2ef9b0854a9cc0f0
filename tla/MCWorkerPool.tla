---------------------------- MODULE MCWorkerPool ----------------------------
(* Instances of WorkerPool for TLC. *)
EXTENDS WorkerPool, TLC

CONSTANTS w1, w2, w3, j1, j2, j3, j4

TwoWorkers == {w1, w2}
ThreeWorkers == {w1, w2, w3}
ThreeJobs == {j1, j2, j3}
FourJobs == {j1, j2, j3, j4}

\* Workers are interchangeable, and so are the jobs other than the first.
PoolSymmetry2 == Permutations(TwoWorkers) \union Permutations({j2, j3, j4})
PoolSymmetry3 == Permutations(ThreeWorkers) \union Permutations({j2, j3, j4})
=============================================================================
