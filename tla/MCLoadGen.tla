----------------------------- MODULE MCLoadGen -----------------------------
(* Small instances of LoadGen for TLC. *)
EXTENDS LoadGen, TLC

CONSTANTS w1, w2

TwoWorkers == {w1, w2}
OneWorker == {w1}
AllUsages == {0, 80, 90, 95}
NoPressure == {0}
Emergency == {0, 95}

WorkerSymmetry == Permutations(Worker)
=============================================================================
