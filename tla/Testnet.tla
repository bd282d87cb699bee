------------------------------- MODULE Testnet -------------------------------
(***************************************************************************)
(* The Ethereum testnet benchmark, fdp-etherium/scripts/bench_old.sh with  *)
(* helpers.sh, run_geth.sh and run_lighthouse.sh: per configuration a geth *)
(* (EL) in the background, a Lighthouse beacon node and validator client   *)
(* (CL) in sessions of their own, the spamoor phases, and kill_el_cl, which *)
(* is also the EXIT trap.  The processes are known to kill_el_cl only      *)
(* through CUR_GETH_PID, the file lighthouse.pids and the ports they hold. *)
(***************************************************************************)
EXTENDS FemuStats, FiniteSets, FiniteSetsExt

CONSTANTS
    BatchSize,          \* requests per batch of count_confirmed_txs (200)
    BlocksAtOnce,       \* blocks produced between two looks at the chain
    MaxHeight,          \* bound: blocks the chain may grow to
    MaxRuns             \* bound: invocations of the script

ASSUME TestnetAssumption == {BatchSize, BlocksAtOnce, MaxHeight, MaxRuns, MaxBehind} \subseteq Nat \ {0}

VARIABLES
    sh,         \* the script: invocation, rounds to do, step, readings of this round
    el,         \* geth: "no", "starting", "up" or "closing"; CUR_GETH_PID is set
    cl,         \* beacon node and validator client; lighthouse.pids names them
    churn,      \* the invocations whose background storagespam runs
    height,     \* the blocks of the round's chain
    results,    \* results[l]: the invocation that wrote metrics.txt of label l, 0: none
    report      \* the invocation whose comparison is in the report, 0: none

vars == <<femuVars, sh, el, cl, churn, height, results, report>>

Label == {"non-fdp", "fdp"}

NoGeth == [geth |-> "no", cur |-> FALSE]
NoCl == [bn |-> "no", vc |-> "no", pids |-> FALSE]
Down == [run |-> 0, todo |-> <<>>, pc |-> "down", trap |-> FALSE,
         start |-> 0, end |-> 0, counted |-> {}]

Init ==
    /\ FemuInit
    /\ sh = Down /\ el = NoGeth /\ cl = NoCl /\ churn = {}
    /\ height = 0
    /\ results = [l \in Label |-> 0] /\ report = 0

label == Head(sh.todo)

\* The processes with files open on the mounted file system.
Busy == el.geth # "no" \/ cl.bn # "no" \/ cl.vc # "no"

Step(from, to) == sh.pc = from /\ sh' = [sh EXCEPT !.pc = to]

\* errexit, or an interrupt: the EXIT trap runs kill_el_cl and teardown_fs.
Die == sh' = [sh EXCEPT !.pc = "lighthouse", !.trap = TRUE]
StepOrDie(from, to) == Step(from, to) \/ (sh.pc = from /\ Die)

----------------------------------------------------------------------------
\* run_full_benchmark, up to the workload

StartRun ==
    /\ sh.pc = "down" /\ sh.run < MaxRuns
    /\ sh' = [Down EXCEPT !.run = sh.run + 1, !.todo = <<"non-fdp", "fdp">>, !.pc = "clear"]
    /\ el' = [el EXCEPT !.cur = FALSE]
    /\ UNCHANGED <<femuVars, cl, churn, height, results, report>>

\* rm -rf "$rdir".
ClearResults ==
    /\ Step("clear", "prepare")
    /\ results' = [results EXCEPT ![label] = 0]
    /\ UNCHANGED <<femuVars, el, cl, churn, height, report>>

\* A round that cannot be prepared is left out.
PrepareOrSkip ==
    /\ sh.pc = "prepare"
    /\ \/ /\ prepare_fs(Busy, {}) /\ sh' = [sh EXCEPT !.pc = "reset"]
          /\ cl' = [cl EXCEPT !.pids = FALSE] /\ height' = 0
       \/ /\ mkfs_fails(Busy) /\ UNCHANGED <<cl, height>>
          /\ sh' = [sh EXCEPT !.todo = Tail(@), !.pc = IF Tail(sh.todo) # <<>> THEN "clear" ELSE "compare"]
    /\ UNCHANGED <<el, churn, results, report>>

\* mkfs also removes the lighthouse.pids of an earlier round, and its chain.
Prepare ==
    /\ sh.pc = "prepare"
    /\ \/ /\ \/ prepare_fs(Busy, {}) /\ sh' = [sh EXCEPT !.pc = "reset"]
             \/ mount_fails(Busy, {}) /\ Die
          /\ cl' = [cl EXCEPT !.pids = FALSE] /\ height' = 0
       \/ mkfs_fails(Busy) /\ Die /\ UNCHANGED <<cl, height>>
    /\ UNCHANGED <<el, churn, results, report>>

\* reset_femu_counters, the checks, gen_genesis.sh.
ResetAndCheck ==
    /\ StepOrDie("reset", "fork")
    /\ reset_femu_counters
    /\ UNCHANGED <<el, cl, churn, height, results, report>>

\* run_geth.sh is started in the background, and then its pid recorded.
ForkGeth ==
    /\ Step("fork", "record")
    /\ el' = [el EXCEPT !.geth = "starting"]
    /\ UNCHANGED <<femuVars, cl, churn, height, results, report>>

RecordGeth ==
    /\ Step("record", "rpc")
    /\ el' = [el EXCEPT !.cur = TRUE]
    /\ UNCHANGED <<femuVars, cl, churn, height, results, report>>

\* The RPC port answers, or does not for 30 seconds.
WaitRpc ==
    /\ \/ el.geth = "up" /\ Step("rpc", "bn")
       \/ sh.pc = "rpc" /\ Die
    /\ UNCHANGED <<femuVars, el, cl, churn, height, results, report>>

\* run_lighthouse.sh: prerequisites, beacon node, its API, validator client, pids.
StartBn ==
    /\ \/ Step("bn", "api") /\ cl' = [cl EXCEPT !.bn = "starting"]
       \/ sh.pc = "bn" /\ Die /\ UNCHANGED cl
    /\ UNCHANGED <<femuVars, el, churn, height, results, report>>

WaitApi ==
    /\ \/ cl.bn = "up" /\ Step("api", "vc")
       \/ sh.pc = "api" /\ Die
    /\ UNCHANGED <<femuVars, el, cl, churn, height, results, report>>

StartVc ==
    /\ \/ Step("vc", "pids") /\ cl' = [cl EXCEPT !.vc = "up"]
       \/ sh.pc = "vc" /\ Die /\ UNCHANGED cl
    /\ UNCHANGED <<femuVars, el, churn, height, results, report>>

\* The pids are written; the wait for the first block only warns.
WritePids ==
    /\ Step("pids", "seed")
    /\ cl' = [cl EXCEPT !.pids = TRUE]
    /\ UNCHANGED <<femuVars, el, churn, height, results, report>>

----------------------------------------------------------------------------
\* run_realistic_workload

\* Phase 1, snapshot_femu.
Seed ==
    /\ StepOrDie("seed", "start")
    /\ snapshot_femu
    /\ UNCHANGED <<el, cl, churn, height, results, report>>

\* get_block_number: the height, or 0 when the request or its parsing fails.
BlockNumber == IF el.geth = "up" THEN {height, 0} ELSE {0}

\* The measured window opens; the background churn is started.
OpenWindow ==
    /\ sh.pc = "start"
    /\ \E n \in BlockNumber : sh' = [sh EXCEPT !.pc = "defi", !.start = n]
    /\ churn' = churn \cup {sh.run}
    /\ UNCHANGED <<femuVars, el, cl, height, results, report>>

\* Phase 2 ends; the churn is killed.  When phase 2 fails it is not.
Defi ==
    /\ \/ Step("defi", "end") /\ churn' = churn \ {sh.run}
       \/ sh.pc = "defi" /\ Die /\ UNCHANGED churn
    /\ UNCHANGED <<femuVars, el, cl, height, results, report>>

CloseWindow ==
    /\ sh.pc = "end"
    /\ \E n \in BlockNumber : sh' = [sh EXCEPT !.pc = "burst", !.end = n]
    /\ snapshot_femu
    /\ UNCHANGED <<el, cl, churn, height, results, report>>

\* Phase 3.
Burst ==
    /\ StepOrDie("burst", "count")
    /\ UNCHANGED <<femuVars, el, cl, churn, height, results, report>>

\* The batches of requests for the blocks start + 1 .. end: one is sent when it is
\* full and at the last block.
Batches(start, end) ==
    {(start + 1 + i * BatchSize) .. Min({start + (i + 1) * BatchSize, end}) :
        i \in 0 .. (end - start - 1) \div BatchSize}

\* A batch that fails is left out of the sum.
CountConfirmed ==
    /\ sh.pc = "count"
    /\ \E answered \in SUBSET (IF sh.end > sh.start THEN Batches(sh.start, sh.end) ELSE {}) :
        sh' = [sh EXCEPT !.pc = "snapshot", !.counted = UNION answered]
    /\ UNCHANGED <<femuVars, el, cl, churn, height, results, report>>

Snapshot ==
    /\ Step("snapshot", "lighthouse")
    /\ snapshot_femu
    /\ UNCHANGED <<el, cl, churn, height, results, report>>

----------------------------------------------------------------------------
\* kill_el_cl and what follows it, in the round and in the trap

\* kill, and kill -9 a second later, for every pid of the file.
KillLighthouse ==
    /\ Step("lighthouse", "geth")
    /\ cl' = IF cl.pids /\ mounted THEN [cl EXCEPT !.bn = "no", !.vc = "no"] ELSE cl
    /\ UNCHANGED <<femuVars, el, churn, height, results, report>>

\* The wait for geth has no limit.
geth_wait_unlimited == FALSE /\ UNCHANGED el
\* The wait is over, and geth is left to itself.
geth_wait_gives_up == el.geth = "closing" /\ UNCHANGED el

\* geth has not closed its database within 30 seconds and is killed.
geth_wait_over == el.geth = "closing" /\ el' = [el EXCEPT !.geth = "no"]

\* SIGINT to the pid in CUR_GETH_PID, then a wait for its end.
KillGeth ==
    /\ \/ /\ el.cur /\ el.geth \in {"starting", "up"} /\ sh.pc = "geth"
          /\ el' = [el EXCEPT !.geth = "closing"] /\ UNCHANGED sh
       \/ el.cur /\ Step("geth", "ports") /\ geth_wait_over
       \/ (~el.cur \/ el.geth = "no") /\ Step("geth", "ports") /\ UNCHANGED el
    /\ UNCHANGED <<femuVars, cl, churn, height, results, report>>

\* fuser -k on 8545, 8551 and 5052 reaches what listens on them.
KillPorts ==
    /\ Step("ports", "teardown")
    /\ el' = IF el.geth = "up" THEN [el EXCEPT !.geth = "no"] ELSE el
    /\ cl' = IF cl.bn = "up" THEN [cl EXCEPT !.bn = "no"] ELSE cl
    /\ UNCHANGED <<femuVars, churn, height, results, report>>

\* geth.log is copied before the file system is unmounted.
Teardown ==
    /\ sh.pc = "teardown"
    /\ teardown_fs(Busy)
    /\ sh' = [sh EXCEPT !.pc = IF sh.trap THEN "down" ELSE "metrics"]
    /\ el' = IF sh.trap THEN el ELSE [el EXCEPT !.cur = FALSE]
    /\ UNCHANGED <<cl, churn, height, results, report>>

\* metrics.txt; then the next round or the comparison.
SaveMetrics ==
    /\ sh.pc = "metrics"
    /\ results' = [results EXCEPT ![label] = sh.run]
    /\ sh' = [sh EXCEPT !.todo = Tail(@), !.pc = IF Tail(sh.todo) # <<>> THEN "clear" ELSE "compare"]
    /\ UNCHANGED <<femuVars, el, cl, churn, height, report>>

\* The comparison is printed and saved; then the trap runs.
Compare ==
    /\ sh.pc = "compare" /\ Die
    /\ report' = sh.run
    /\ UNCHANGED <<femuVars, el, cl, churn, height, results>>

Interrupt ==
    /\ sh.pc # "down" /\ ~sh.trap /\ Die
    /\ UNCHANGED <<femuVars, el, cl, churn, height, results, report>>

----------------------------------------------------------------------------
\* The processes

GethUp ==       \* run_geth.sh gets to exec, and geth to its ports; or it exits
    /\ el.geth = "starting"
    /\ \E s \in {"up", "no"} : el' = [el EXCEPT !.geth = s]
    /\ UNCHANGED <<femuVars, sh, cl, churn, height, results, report>>

GethCloses ==
    /\ el.geth = "closing"
    /\ el' = [el EXCEPT !.geth = "no"]
    /\ UNCHANGED <<femuVars, sh, cl, churn, height, results, report>>

BnUp ==
    /\ cl.bn = "starting"
    /\ \E s \in {"up", "no"} : cl' = [cl EXCEPT !.bn = s]
    /\ UNCHANGED <<femuVars, sh, el, churn, height, results, report>>

NewBlock ==
    /\ el.geth = "up" /\ cl.bn = "up" /\ cl.vc = "up"
    /\ height' = height + BlocksAtOnce /\ height' <= MaxHeight
    /\ UNCHANGED <<femuVars, sh, el, cl, churn, results, report>>

ChurnTimesOut ==
    /\ \E r \in churn : churn' = churn \ {r}
    /\ UNCHANGED <<femuVars, sh, el, cl, height, results, report>>

Prints == HostPrints /\ UNCHANGED <<sh, el, cl, churn, height, results, report>>

Script ==
    \/ ClearResults \/ Prepare \/ ResetAndCheck \/ ForkGeth \/ RecordGeth \/ WaitRpc
    \/ StartBn \/ WaitApi \/ StartVc \/ WritePids
    \/ Seed \/ OpenWindow \/ Defi \/ CloseWindow \/ Burst \/ CountConfirmed \/ Snapshot
    \/ KillLighthouse \/ KillGeth \/ KillPorts \/ Teardown \/ SaveMetrics \/ Compare

Next ==
    \/ StartRun \/ Script \/ Interrupt
    \/ GethUp \/ GethCloses \/ BnUp \/ NewBlock \/ ChurnTimesOut \/ Prints

Spec == Init /\ [][Next]_vars

\* The steps that wait for an answer of geth or of the beacon node, asked by curl
\* without a time limit, or for spamoor to end.
Waits == sh.pc \in {"rpc", "api", "pids", "seed", "start", "defi", "end", "burst", "count", "snapshot"}

\* Nothing is assumed of the processes: they may leave the script waiting, and geth
\* may hang while it closes.
FairSpec == Spec /\ WF_vars(~Waits /\ Script) /\ WF_vars(Prints)

----------------------------------------------------------------------------
\* Properties

Blocks == 0 .. MaxHeight

\* Every variable of the scripts has its type; no block is counted that the chain
\* cannot have.
TypeOK ==
    /\ {mounted, spoiled, sh.trap, el.cur, cl.pids} \subseteq BOOLEAN
    /\ el.geth \in {"no", "starting", "up", "closing"}
    /\ cl.bn \in {"no", "starting", "up"} /\ cl.vc \in {"no", "up"}
    /\ {sh.run, report} \cup churn \subseteq 0 .. MaxRuns
    /\ {sh.start, sh.end, height} \subseteq Blocks
    /\ sh.counted \subseteq Blocks

\* When the script is over, however it ended, nothing it had recorded runs any
\* more: neither the geth of CUR_GETH_PID, even one that hangs, nor the processes
\* of lighthouse.pids (kill_el_cl, cleanup_on_exit).
RecordedKilled ==
    sh.pc = "down" => /\ el.cur => el.geth = "no"
                      /\ cl.pids => cl.bn = "no" /\ cl.vc = "no"

\* An invocation comes to an end, even when geth never finishes closing, unless a
\* process it waits for without a time limit never lets it go on.
TestnetEnds == sh.pc # "down" ~> sh.pc = "down" \/ []Waits

\* The results directory is used as Rounds says.
Abstract == INSTANCE Rounds WITH run <- sh.run

ImplementsRounds == Abstract!Spec
=============================================================================
