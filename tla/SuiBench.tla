------------------------------ MODULE SuiBench ------------------------------
(***************************************************************************)
(* The Sui benchmark scripts, fdp-sui/scripts/bench.sh and the older       *)
(* bench_old_baseline.sh: per configuration a fresh file system, a setup   *)
(* phase and NUM_ROUNDS rounds of sui-single-node-benchmark on one store,  *)
(* then one reading of the counters and the metrics.  There is no EXIT     *)
(* trap: a script that fails leaves everything as it is for the next one.  *)
(***************************************************************************)
EXTENDS FemuStats, Integers

CONSTANTS
    NUM_ROUNDS,
    TxPerRound,     \* TX_COUNT * NUM_BATCHES
    TxPerCheckpoint,    \* 100
    Unit,           \* a throughput is printed with decimals: in units of 1 / Unit per second
    Tps,            \* the throughputs a round may print, in these units
    Seconds,        \* the seconds a round may take
    MaxRuns         \* bound: invocations of the script

ASSUME SuiBenchAssumption ==
    /\ {NUM_ROUNDS, TxPerRound, TxPerCheckpoint, Unit, MaxRuns, MaxBehind} \subseteq Nat \ {0}
    /\ Tps \subseteq Nat /\ Seconds \subseteq Nat

VARIABLES
    sh,         \* the script: invocation, mode, rounds to do, step, fdp variables exported,
                \* and whether it is bench_old_baseline.sh (old) or bench.sh
    sums,       \* the loop: rounds made, their total_tx, tps_sum and tps_count, the seconds
                \* since start_time, and the throughputs printed
    waf,        \* what get_waf_from_host returned
    ran,        \* configurations run with the environment of the other one
    results,    \* results[l]: the metrics of label l
    report      \* the invocation whose comparison is in the report, 0: none

vars == <<femuVars, sh, sums, waf, ran, results, report>>

Label == {"nofdp", "fdp"}
Asked == [nofdp |-> <<"nofdp">>, fdp |-> <<"fdp">>, both |-> <<"nofdp", "fdp">>]

\* run_benchmark of the two scripts, step by step.
Steps ==
    IF sh.old THEN <<"prepare", "reset", "setup", "clear", "rounds", "snapshot", "waf", "metrics", "teardown">>
    ELSE <<"clear", "prepare", "reset", "setup", "rounds", "snapshot", "waf", "teardown", "metrics">>

NoResult == [run |-> 0, waf |-> <<>>, txs |-> 0, avg |-> 0, rate |-> <<>>,
             tps |-> {}, rounds |-> 0, secs |-> 0]
NoSums == [rounds |-> 0, total_tx |-> 0, tps_sum |-> 0, tps_count |-> 0, secs |-> 0, tps |-> {}]

Init ==
    /\ FemuInit
    /\ \E old \in BOOLEAN :
        sh = [run |-> 0, mode |-> "both", todo |-> <<>>, at |-> 0, exported |-> FALSE, old |-> old]
    /\ sums = NoSums /\ waf = <<>> /\ ran = {}
    /\ results = [l \in Label |-> NoResult] /\ report = 0

label == Head(sh.todo)
At(step) == sh.at > 0 /\ Steps[sh.at] = step
Token(part) == [run |-> sh.run, label |-> label, part |-> part]

\* The next step; after the last one the next configuration, the comparison
\* (todo is empty) or the end.
Advance ==
    sh' = IF sh.at < Len(Steps) THEN [sh EXCEPT !.at = @ + 1]
          ELSE [sh EXCEPT !.todo = Tail(@), !.at = IF Len(sh.todo) > 1 THEN 1 ELSE 0,
                          !.mode = IF Len(sh.todo) = 1 /\ @ = "both" THEN "compare" ELSE @]

\* errexit.
Die == sh' = [sh EXCEPT !.at = 0, !.todo = <<>>]

\* The variables of run_benchmark are local to one call.
Locals ==
    IF sh'.at <= 1 THEN sums' = NoSums /\ waf' = <<>>
    ELSE UNCHANGED <<sums, waf>>

StartRun ==
    /\ sh.at = 0 /\ sh.mode # "compare" /\ sh.run < MaxRuns
    /\ \E mode \in DOMAIN Asked, exported \in BOOLEAN :     \* by the caller
        sh' = [sh EXCEPT !.run = @ + 1, !.mode = mode, !.todo = Asked[mode], !.at = 1,
                         !.exported = exported]
    /\ UNCHANGED <<femuVars, sums, waf, ran, results, report>>

\* The old metrics stay until they are overwritten.
ClearNothing ==
    /\ At("clear") /\ Advance
    /\ UNCHANGED <<femuVars, sums, waf, ran, results, report>>

\* rm -rf "$rdir", or the truncation of the result file.
Clear ==
    /\ At("clear") /\ Advance
    /\ results' = [results EXCEPT ![label] = NoResult]
    /\ UNCHANGED <<femuVars, sums, waf, ran, report>>

\* The older script exports nothing.
set_sui_fdp_env == IF sh.old THEN sh.exported ELSE label = "fdp"

Prepare ==
    /\ At("prepare")
    /\ \/ /\ prepare_fs(FALSE, {Token(-1)})
          /\ sh' = [sh EXCEPT !.at = @ + 1, !.exported = set_sui_fdp_env]
       \/ (mkfs_fails(FALSE) \/ mount_fails(FALSE, {Token(-1)})) /\ Die
    /\ Locals
    /\ UNCHANGED <<ran, results, report>>

\* The older script does not ignore that the device could not be opened.
Reset ==
    /\ At("reset")
    /\ \E outcome \in Outcome :
        /\ fdp_stats(TRUE, outcome)
        /\ spoiled' = (spoiled \/ outcome # "executed")
        /\ IF sh.old /\ outcome = "unopened" THEN Die ELSE Advance
    /\ Locals
    /\ UNCHANGED <<ran, results, report>>

\* A process inherits whatever the shell exports.
FdpVarsInherited == (sh.old /\ label = "fdp") \/ sh.exported

\* Whether a benchmark process sees the FDP variables: not for nofdp (env -u); for
\* fdp they are the exported ones, or its own (env).
FdpVars == label = "fdp" /\ (sh.old \/ sh.exported)

Runs == ran' = IF (FdpVars <=> label = "fdp") THEN ran ELSE ran \cup {label}

\* The older script runs without pipefail: tail hides that the setup failed.
Setup ==
    /\ At("setup")
    /\ Write({Token(0)}) /\ Runs
    /\ Advance \/ (~sh.old /\ Die)
    /\ Locals
    /\ UNCHANGED <<results, report>>

\* for round in $(seq 1 "$NUM_ROUNDS").
MoreRounds == sums.rounds < NUM_ROUNDS

\* One round, which may print no throughput; a failing one ends the script.
Round ==
    /\ At("rounds") /\ MoreRounds
    /\ Write({Token(sums.rounds + 1)}) /\ Runs
    /\ \/ /\ \E s \in Seconds :
               LET made == [sums EXCEPT !.rounds = @ + 1, !.total_tx = @ + TxPerRound, !.secs = @ + s]
               IN  \/ sums' = made
                   \/ \E t \in Tps :
                         sums' = [made EXCEPT !.tps_sum = @ + t, !.tps_count = @ + 1, !.tps = @ \cup {t}]
          /\ UNCHANGED <<sh, waf>>
       \/ Die /\ Locals
    /\ UNCHANGED <<results, report>>

\* The counters are read before the last round ends.
EndRoundsEarly ==
    /\ At("rounds") /\ sums.rounds = NUM_ROUNDS - 1 /\ Advance
    /\ UNCHANGED <<femuVars, sums, waf, ran, results, report>>

EndRounds ==
    /\ At("rounds") /\ sums.rounds = NUM_ROUNDS /\ Advance
    /\ UNCHANGED <<femuVars, sums, waf, ran, results, report>>

Snapshot ==
    /\ At("snapshot") /\ Advance
    /\ snapshot_femu
    /\ UNCHANGED <<sums, waf, ran, results, report>>

ReadWaf ==
    /\ At("waf") /\ Advance
    /\ \E w \in {printed, Unreliable, <<>>} : get_waf_from_host(w) /\ waf' = w
    /\ UNCHANGED <<sums, ran, results, report>>

Teardown ==
    /\ At("teardown") /\ Advance
    /\ teardown_fs(FALSE)
    /\ Locals
    /\ UNCHANGED <<ran, results, report>>

\* bc with scale=0 after a test for zero.
Quotient(n, d) == IF d > 0 THEN n \div d ELSE 0

\* Rounds without a throughput count as zero.
AverageOverRounds == Quotient(sums.tps_sum, NUM_ROUNDS * Unit)
Average == Quotient(sums.tps_sum, sums.tps_count * Unit)

\* committed_tps; in the older script checkpoints_per_sec, in hundredths (scale=2) and
\* without the test: bc prints nothing when it is told to divide by zero.
Rate ==
    IF ~sh.old THEN <<Quotient(sums.total_tx, sums.secs)>>
    ELSE IF sums.secs = 0 THEN <<>>
    ELSE <<Quotient(100 * Quotient(sums.total_tx, TxPerCheckpoint), sums.secs)>>

SaveMetrics ==
    /\ At("metrics") /\ Advance
    /\ results' = [results EXCEPT ![label] =
        [run |-> sh.run, waf |-> waf, txs |-> sums.total_tx,
         avg |-> Average, rate |-> Rate,
         tps |-> sums.tps, rounds |-> sums.rounds, secs |-> sums.secs]]
    /\ Locals
    /\ UNCHANGED <<femuVars, ran, report>>

\* The comparison of the two metrics files.
Compare ==
    /\ sh.mode = "compare"
    /\ sh' = [sh EXCEPT !.mode = "both"]
    /\ report' = sh.run
    /\ UNCHANGED <<femuVars, sums, waf, ran, results>>

Prints == HostPrints /\ UNCHANGED <<sh, sums, waf, ran, results, report>>

Next ==
    \/ StartRun \/ Clear \/ Prepare \/ Reset \/ Setup \/ Round \/ EndRounds \/ Snapshot
    \/ ReadWaf \/ Teardown \/ SaveMetrics \/ Compare \/ Prints

Spec == Init /\ [][Next]_vars

----------------------------------------------------------------------------
\* Properties

Tokens == [run : 1 .. MaxRuns, label : Label, part : -1 .. NUM_ROUNDS]

\* Every variable of run_benchmark, and of the device, has its type.
TypeOK ==
    /\ {mounted, spoiled, sh.exported} \subseteq BOOLEAN
    /\ counters \subseteq Tokens /\ Len(unprinted) <= MaxBehind
    /\ sh.run \in 0 .. MaxRuns /\ sh.at \in 0 .. Len(Steps)
    /\ (sh.at > 0) = (sh.todo # <<>>)
    /\ sums.tps_count <= sums.rounds /\ sums.rounds <= NUM_ROUNDS

\* A published WAF counts the writes of its configuration's setup and rounds, all
\* of them and no others, unless this configuration's own reset or snapshot was
\* lost; neither an earlier failed invocation nor one still mounted changes it.
WafExact ==
    \A l \in Label : LET r == results[l] IN
        r.waf \notin {<<>>, Unreliable} =>
            r.waf = <<[run : {r.run}, label : {l}, part : 0 .. NUM_ROUNDS]>>

\* Published throughputs are those of all NUM_ROUNDS rounds: the average lies
\* between the extremes that were printed, off the lower one by less than the
\* transaction per second bc cuts off (zero when nothing was printed), and the
\* rate never promises more transactions, or more checkpoints, than were made.
ThroughputSound ==
    \A l \in Label : LET r == results[l] IN r.run > 0 =>
        /\ r.rounds = NUM_ROUNDS /\ r.txs = NUM_ROUNDS * TxPerRound
        /\ IF r.tps = {} THEN r.avg = 0
           ELSE \E lo, hi \in r.tps : lo < (r.avg + 1) * Unit /\ r.avg * Unit <= hi
        /\ \A i \in DOMAIN r.rate :
              /\ r.secs = 0 => r.rate[i] = 0
              /\ IF sh.old THEN r.rate[i] * r.secs * TxPerCheckpoint <= 100 * r.txs
                 ELSE r.rate[i] * r.secs <= r.txs

\* No process of a configuration runs with the FDP environment of the other one,
\* whatever the caller had exported (set_sui_fdp_env, env -u).
EnvironmentsSeparate == ran = {}

\* The results directory is used as Rounds says.
Abstract == INSTANCE Rounds WITH
    run <- sh.run, results <- [l \in Label |-> results[l].run], report <- report

ImplementsRounds == Abstract!Spec
=============================================================================
