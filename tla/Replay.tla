------------------------------- MODULE Replay -------------------------------
(***************************************************************************)
(* The Ethereum mainnet replay, fdp-etherium/scripts/bench.sh "bench": one *)
(* round per configuration, each with its own file system and its own      *)
(* counters; in a round the chain is converted and imported chunk by chunk *)
(* while a background process samples the counters.  The script runs under *)
(* set -euo pipefail with an EXIT trap, can fail or be interrupted at any  *)
(* step, and can be invoked again on what an earlier invocation left.      *)
(***************************************************************************)
EXTENDS FemuStats, FiniteSets, FiniteSetsExt

CONSTANTS
    TOTAL_BLOCKS, CHUNK_BLOCKS,
    MaxRuns             \* bound: invocations of the script

\* The script tests neither number.  With CHUNK_BLOCKS = 0 its loop never leaves block 0;
\* that setting is left out.
ASSUME ReplayAssumption == {TOTAL_BLOCKS, CHUNK_BLOCKS, MaxRuns, MaxBehind} \subseteq Nat \ {0}

VARIABLES
    sh,         \* the script: invocation, mode, step, round and loop variables
    MONITOR_PID,    \* the invocation whose monitor the variable names, 0: empty
    monitor,    \* monitor[r]: the step of the background monitor of invocation r
    unrecorded, \* invocations interrupted between the fork of their monitor and the record
    orphan,     \* a du a killed monitor left running
    rlp,        \* chunk ids whose RLP file is in ERA_DIR
    chain,      \* block ranges imported into the round's database
    results,    \* results[l]: metrics.txt of label l
    report      \* the invocation whose comparison is in the report, 0: none

monitorVars == <<MONITOR_PID, monitor, unrecorded, orphan>>
vars == <<femuVars, sh, monitorVars, rlp, chain, results, report>>

Runs == 1 .. MaxRuns

Label == {"non-fdp", "fdp"}
Order == <<"non-fdp", "fdp">>

\* The rounds a mode argument asks for, in order.
Asked == [nofdp |-> <<"non-fdp">>, fdp |-> <<"fdp">>, both |-> Order]

NoResult == [run |-> 0, waf |-> <<>>]
Down == [run |-> 0, mode |-> "both", todo |-> <<>>, pc |-> "down", block |-> 0,
         chunk |-> 0, waf |-> <<>>]

Init ==
    /\ FemuInit
    /\ sh = Down /\ MONITOR_PID = 0 /\ monitor = [r \in Runs |-> "none"]
    /\ unrecorded = {} /\ orphan = FALSE
    /\ rlp = {} /\ chain = {}
    /\ results = [l \in Label |-> NoResult] /\ report = 0

\* A write of the current round: part -1 is the formatting, part b the import of
\* the chunk that starts at block b.
Token(part) == [run |-> sh.run, label |-> Head(sh.todo), part |-> part]

\* A running du keeps the file system busy.
Busy == orphan \/ \E r \in Runs : monitor[r] = "du"

Step(from, to) == sh.pc = from /\ sh' = [sh EXCEPT !.pc = to]

----------------------------------------------------------------------------
\* The script

StartRun ==
    /\ sh.pc = "down" /\ sh.run < MaxRuns
    /\ \E mode \in DOMAIN Asked :
        sh' = [Down EXCEPT !.run = sh.run + 1, !.mode = mode, !.todo = Asked[mode], !.pc = "clear"]
    /\ MONITOR_PID' = 0
    /\ UNCHANGED <<femuVars, monitor, unrecorded, orphan, rlp, chain, results, report>>

\* run_replay: rm -rf "$rdir".
ClearResults ==
    /\ Step("clear", "prepare")
    /\ results' = [results EXCEPT ![Head(sh.todo)] = NoResult]
    /\ UNCHANGED <<femuVars, monitorVars, rlp, chain, report>>

\* A step fails: errexit ends the script, through the EXIT trap.
Prepare ==
    /\ \/ Step("prepare", "reset") /\ prepare_fs(Busy, {Token(-1)}) /\ chain' = {}
       \/ Step("prepare", "trap") /\ mkfs_fails(Busy) /\ UNCHANGED chain
       \/ Step("prepare", "trap") /\ mount_fails(Busy, {Token(-1)}) /\ chain' = {}
    /\ UNCHANGED <<monitorVars, rlp, results, report>>

Reset ==
    /\ Step("reset", "check")
    /\ reset_femu_counters
    /\ UNCHANGED <<monitorVars, rlp, chain, results, report>>

\* Binaries and era1 files are there, or the round returns 1.
CheckInputs ==
    /\ sh.pc = "check"
    /\ \E to \in {"fork", "trap"} : sh' = [sh EXCEPT !.pc = to]
    /\ UNCHANGED <<femuVars, monitorVars, rlp, chain, results, report>>

\* start_monitor: the subshell is forked, and then its pid recorded.
ForkMonitor ==
    /\ Step("fork", "record")
    /\ monitor' = [monitor EXCEPT ![sh.run] = "snapshot"]
    /\ UNCHANGED <<femuVars, MONITOR_PID, unrecorded, orphan, rlp, chain, results, report>>

RecordMonitor ==
    /\ sh.pc = "record"
    /\ sh' = [sh EXCEPT !.pc = "convert", !.block = 0, !.chunk = 0]
    /\ MONITOR_PID' = sh.run
    /\ UNCHANGED <<femuVars, monitor, unrecorded, orphan, rlp, chain, results, report>>

ChunkEnd == Min({sh.block + CHUNK_BLOCKS, TOTAL_BLOCKS})

\* The while loop ends, or the next chunk is converted: era2rlp fails, or leaves no
\* file, or writes chunk_<id>.rlp.
Convert ==
    /\ \/ sh.block >= TOTAL_BLOCKS /\ Step("convert", "stop") /\ UNCHANGED rlp
       \/ sh.block < TOTAL_BLOCKS /\ Step("convert", "trap") /\ UNCHANGED rlp
       \/ sh.block < TOTAL_BLOCKS /\ Step("convert", "import") /\ rlp' = rlp \cup {sh.chunk}
    /\ UNCHANGED <<femuVars, monitorVars, chain, results, report>>

\* The loop variable is not advanced past a last, shorter chunk.
ImportStuck ==
    /\ sh.pc = "import"
    /\ Write({Token(sh.block)})
    /\ \/ /\ chain' = chain \cup {<<sh.block, ChunkEnd>>}
          /\ rlp' = rlp \ {sh.chunk}
          /\ sh' = [sh EXCEPT !.pc = "convert", !.block = (@ + CHUNK_BLOCKS) % TOTAL_BLOCKS]
       \/ sh' = [sh EXCEPT !.pc = "trap"] /\ UNCHANGED <<chain, rlp>>
    /\ UNCHANGED <<monitorVars, results, report>>

\* geth imports the file and the file is removed, or geth fails part of the way.
Import ==
    /\ sh.pc = "import"
    /\ Write({Token(sh.block)})
    /\ \/ /\ chain' = chain \cup {<<sh.block, ChunkEnd>>}
          /\ rlp' = rlp \ {sh.chunk}
          /\ sh' = [sh EXCEPT !.pc = "convert", !.block = ChunkEnd, !.chunk = @ + 1]
       \/ sh' = [sh EXCEPT !.pc = "trap"] /\ UNCHANGED <<chain, rlp>>
    /\ UNCHANGED <<monitorVars, results, report>>

\* kill ends the subshell; a du it is waiting for goes on.
stop_monitor ==
    /\ monitor' = [r \in Runs |-> IF r = MONITOR_PID THEN "none" ELSE monitor[r]]
    /\ orphan' = (orphan \/ \E r \in Runs : r = MONITOR_PID /\ monitor[r] = "du")
    /\ MONITOR_PID' = 0
    /\ UNCHANGED unrecorded

StopMonitor ==
    /\ Step("stop", "snapshot")
    /\ stop_monitor
    /\ UNCHANGED <<femuVars, rlp, chain, results, report>>

\* The last sample of the monitor is taken for the final one.
SnapshotSkipped ==
    /\ Step("snapshot", "waf")
    /\ UNCHANGED <<femuVars, monitorVars, rlp, chain, results, report>>

Snapshot ==
    /\ Step("snapshot", "waf")
    /\ snapshot_femu
    /\ UNCHANGED <<monitorVars, rlp, chain, results, report>>

ReadWaf ==
    /\ sh.pc = "waf"
    /\ \E waf \in {printed, Unreliable, <<>>} :
        get_waf_from_host(waf) /\ sh' = [sh EXCEPT !.pc = "teardown", !.waf = waf]
    /\ UNCHANGED <<monitorVars, rlp, chain, results, report>>

Teardown ==
    /\ Step("teardown", "metrics")
    /\ teardown_fs(Busy)
    /\ UNCHANGED <<monitorVars, rlp, chain, results, report>>

\* The comparison is made whenever the two files are there.
SaveMetricsAndCompare ==
    /\ sh.pc = "metrics"
    /\ results' = [results EXCEPT ![Head(sh.todo)] =
                      [run |-> sh.run, waf |-> sh.waf]]
    /\ sh' = [sh EXCEPT !.todo = Tail(@), !.waf = <<>>,
                        !.pc = IF Tail(sh.todo) # <<>> THEN "clear"
                               ELSE IF \A l \in Label : results'[l].run > 0 THEN "compare" ELSE "trap"]
    /\ UNCHANGED <<femuVars, monitorVars, rlp, chain, report>>

\* metrics.txt; then the next round, the comparison or the end.
SaveMetrics ==
    /\ sh.pc = "metrics"
    /\ results' = [results EXCEPT ![Head(sh.todo)] =
                      [run |-> sh.run, waf |-> sh.waf]]
    /\ sh' = [sh EXCEPT !.todo = Tail(@), !.waf = <<>>,
                        !.pc = IF Tail(sh.todo) # <<>> THEN "clear"
                               ELSE IF sh.mode = "both" THEN "compare" ELSE "trap"]
    /\ UNCHANGED <<femuVars, monitorVars, rlp, chain, report>>

Compare ==
    /\ Step("compare", "trap")
    /\ report' = sh.run
    /\ UNCHANGED <<femuVars, monitorVars, rlp, chain, results>>

\* The trap only unmounts.
TrapUnmounts ==
    /\ Step("trap", "down")
    /\ teardown_fs(Busy)
    /\ UNCHANGED <<monitorVars, rlp, chain, results, report>>

\* cleanup_on_exit.
Trap ==
    /\ Step("trap", "down")
    /\ stop_monitor
    /\ teardown_fs(Busy')
    /\ UNCHANGED <<rlp, chain, results, report>>

\* The script is interrupted between two steps; the trap runs.
Interrupt ==
    /\ sh.pc \notin {"down", "trap"}
    /\ sh' = [sh EXCEPT !.pc = "trap"]
    /\ unrecorded' = IF sh.pc = "record" THEN unrecorded \cup {sh.run} ELSE unrecorded
    /\ UNCHANGED <<femuVars, MONITOR_PID, monitor, orphan, rlp, chain, results, report>>

----------------------------------------------------------------------------
\* The monitors, and the du one leaves.  A monitor that nothing stops goes on
\* beside the invocations that follow.

\* The request, and du, which keeps the file system busy if it is mounted.
MonitorSnapshot(r) ==
    /\ monitor[r] = "snapshot"
    /\ \E outcome \in Outcome : fdp_stats(FALSE, outcome)
    /\ \E at \in IF mounted THEN {"du"} ELSE {"sleep", "none"} : monitor' = [monitor EXCEPT ![r] = at]
    /\ UNCHANGED <<spoiled, sh, MONITOR_PID, unrecorded, orphan, rlp, chain, results, report>>

\* du succeeds, or fails (a file vanishes under it), or the log cannot be written:
\* a failure ends the subshell, which inherits errexit and pipefail.
MonitorDu(r) ==
    /\ monitor[r] = "du"
    /\ \E at \in {"sleep", "none"} : monitor' = [monitor EXCEPT ![r] = at]
    /\ UNCHANGED <<femuVars, sh, MONITOR_PID, unrecorded, orphan, rlp, chain, results, report>>

MonitorWakes(r) ==
    /\ monitor[r] = "sleep"
    /\ monitor' = [monitor EXCEPT ![r] = "snapshot"]
    /\ UNCHANGED <<femuVars, sh, MONITOR_PID, unrecorded, orphan, rlp, chain, results, report>>

Monitor(r) == MonitorSnapshot(r) \/ MonitorDu(r) \/ MonitorWakes(r)

OrphanEnds ==
    /\ orphan /\ orphan' = FALSE
    /\ UNCHANGED <<femuVars, sh, MONITOR_PID, monitor, unrecorded, rlp, chain, results, report>>

Prints == HostPrints /\ UNCHANGED <<sh, monitorVars, rlp, chain, results, report>>

Script ==
    \/ ClearResults \/ Prepare \/ Reset \/ CheckInputs \/ ForkMonitor \/ RecordMonitor
    \/ Convert \/ Import \/ StopMonitor \/ Snapshot \/ ReadWaf \/ Teardown
    \/ SaveMetrics \/ Compare \/ Trap

Next ==
    \/ StartRun \/ Script \/ Interrupt
    \/ (\E r \in Runs : Monitor(r)) \/ OrphanEnds \/ Prints

Spec == Init /\ [][Next]_vars

\* The script waits for era2rlp or for geth import, which have no time limit.
Waits == sh.pc = "import" \/ (sh.pc = "convert" /\ sh.block < TOTAL_BLOCKS)

\* The script takes its own steps, and the host goes on printing; nothing is
\* assumed of the monitors, of era2rlp and of geth.  Strong fairness, because the
\* bound MaxBehind lets a monitor's request hold up the script's again and again.
FairSpec == Spec /\ SF_vars(~Waits /\ Script) /\ WF_vars(Prints)

----------------------------------------------------------------------------
\* Properties

Starts == {b \in 0 .. TOTAL_BLOCKS - 1 : b % CHUNK_BLOCKS = 0}
Chunks == 0 .. Cardinality(Starts) - 1
Tokens == [run : 1 .. MaxRuns, label : Label, part : {-1} \cup Starts]

\* Every variable of bench.sh, and of the device it drives, has its type; the
\* block the loop has reached never exceeds TOTAL_BLOCKS.
TypeOK ==
    /\ {mounted, spoiled, orphan} \subseteq BOOLEAN
    /\ MONITOR_PID \in 0 .. MaxRuns /\ unrecorded \subseteq Runs
    /\ counters \subseteq Tokens
    /\ Len(unprinted) <= MaxBehind /\ Len(printed) <= 1 /\ Len(sh.waf) <= 2
    /\ sh.run \in 0 .. MaxRuns /\ report \in 0 .. MaxRuns
    /\ sh.block \in 0 .. TOTAL_BLOCKS /\ sh.chunk \in Nat
    /\ rlp \subseteq Chunks
    /\ chain \subseteq Starts \X (1 .. TOTAL_BLOCKS)
    /\ \A l \in Label : results[l].run \in 0 .. MaxRuns

\* A published WAF counts exactly the writes of its own round's import, all of
\* them and nothing of the formatting, of another round or of an earlier
\* invocation, as long as this round's own reset and final snapshot reached the
\* device and the host printed in time: what went wrong in an earlier round, and
\* whatever the monitor samples, does not spread (run_replay, get_waf_from_host).
WafExact ==
    \A l \in Label :
        results[l].waf \notin {<<>>, Unreliable} =>
            results[l].waf = <<[run : {results[l].run}, label : {l}, part : Starts]>>

\* The monitors that run are the one of the import under way and those the EXIT
\* trap could not know of, because their script was interrupted between the fork
\* and the assignment of MONITOR_PID: none outlives its import or its script for
\* another reason, whatever fails (start_monitor, stop_monitor, cleanup_on_exit).
MonitorStopped ==
    \A r \in Runs : monitor[r] # "none" =>
        \/ r \in unrecorded
        \/ r = sh.run /\ sh.pc \in {"record", "convert", "import", "stop", "trap"}

\* An invocation comes to an end, whatever fails in it, unless it waits for ever
\* for one conversion or for one import: the loop over the chunks is finite.
ReplayEnds ==
    []<>(sh.pc = "down") \/ <>[](sh.pc = "convert") \/ <>[](sh.pc = "import")

\* The results directory is used as Rounds says.
Abstract == INSTANCE Rounds WITH
    run <- sh.run, results <- [l \in Label |-> results[l].run], report <- report

ImplementsRounds == Abstract!Spec
=============================================================================
