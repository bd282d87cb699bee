------------------------------- MODULE Rounds -------------------------------
(***************************************************************************)
(* What a benchmark script promises about its results directory, however   *)
(* its rounds go and whatever earlier invocations left behind: a result    *)
(* is discarded before the round that replaces it, it is published by the  *)
(* invocation that measured it, and a comparison is only ever made of two  *)
(* results of the same invocation, the one that writes the report.         *)
(***************************************************************************)
EXTENDS Naturals

CONSTANT Label          \* the configurations compared

VARIABLES
    run,        \* the number of the current invocation
    results,    \* results[l]: the invocation that measured l's metrics, 0: none
    report      \* the invocation whose comparison the report holds, 0: none

roundVars == <<run, results, report>>

Init == run = 0 /\ results = [l \in Label |-> 0] /\ report = 0

Invoke == run' = run + 1 /\ UNCHANGED <<results, report>>

Discard(l) == results' = [results EXCEPT ![l] = 0] /\ UNCHANGED <<run, report>>

Publish(l) ==
    /\ results[l] = 0
    /\ results' = [results EXCEPT ![l] = run]
    /\ UNCHANGED <<run, report>>

Compare ==
    /\ \A l \in Label : results[l] = run
    /\ report' = run
    /\ UNCHANGED <<run, results>>

Next == Invoke \/ Compare \/ \E l \in Label : Discard(l) \/ Publish(l)

Spec == Init /\ [][Next]_roundVars
=============================================================================
