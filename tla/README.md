# A TLA+ model of fdp-bench

fdp-bench measures how Flexible Data Placement (FDP) changes the write
amplification of blockchain nodes. It puts a node's files on a FEMU-emulated SSD
with placement identifiers, drives the node with a load, and compares the device's
counters with and without FDP. This directory models the code of the repository
that has state and concurrency of its own, and in the two vendored validators the
code that must survive a crash of the node. TLC checks the models on small
instances; TLAPS proves the central properties for instances of every size.

## The system

| Part | Code | State | Operations | What is hard |
|---|---|---|---|---|
| Sui load generator, measured phase | `fdp-sui/src/main.rs` 277-314, 488-602, 880-1366 | per worker: gas coin reference, tracked objects, failures in a row; shared: semaphore, five counters, pressure level, `running` | one loop per worker, memory monitor, reporter, join | lost and late answers, stale references, shared permits, counters read without a lock |
| Sui load generator, setup and persistence | `main.rs` 380-487, 605-877 | workers under construction, the saved file | faucet, seed objects, load, refresh, save | retries of what may have happened, a crash inside the save |
| `io_churn` Move package | `fdp-sui/move/io_churn` | counters and blobs on chain | create, update, read, delete | u64 arithmetic that aborts, owned against shared objects |
| Device and file system helpers | `common/env.sh`, `common/fdp_stats.cc` | device counters, host log, mount | format, mount, reset, snapshot, read WAF | ignored failures, a log read too early |
| Ethereum replay | `fdp-etherium/scripts/bench.sh` | round, chunk, monitor process, results | convert, import, monitor, compare | monitor against final measurement, cleanup on exit |
| Ethereum testnet | `bench_old.sh`, `helpers.sh`, `run_geth.sh`, `run_lighthouse.sh` | processes, pid files | start, wait until ready, load, stop | graceful against forced stop |
| Sui single-node rounds | `fdp-sui/scripts/bench.sh`, `bench_old_baseline.sh` | round, sums, results | setup, rounds, compare | stale measurements |
| Aptos safety rules | `fdp-aptos/consensus/safety-rules`, `consensus-types` | safety data in storage and in a cache, waypoint, signer | vote, time out, order, initialize | writes of unknown outcome, crashes, old proofs, faulty validators |
| Solana tower | `fdp-solana/core/src/consensus.rs`, `replay_stage.rs`, `voting_service.rs`, `validator.rs`, the vote state of `sdk/program` and `programs/vote` | tower in memory, on disk, on the wire, in the banks | adopt, vote, refresh, store, send, restore | four copies that are updated one after the other |
| Latency analysis, Solana launch scripts, testnet key generation | `analyze_latency.sh`, `run-solana-fdp`, `fdp-etherium/setup` | none | - | not modelled |

The parts meet at few places: the scripts format and mount the device through
`common/env.sh` and read WAF from the host's log; the load generator talks to a
Sui node by RPC and to a faucet by HTTP; the Move package runs inside that node.
The Solana and Aptos validators are what the device is written by in the other
benchmarks; nothing of this repository calls into them.

What each part should guarantee:

- **Measured phase.** No permit is lost; the counters account for every outcome
  and never claim what the chain does not hold; references are genuine and fall
  behind the chain only as far as lost answers explain; memory pressure throttles
  without stopping a worker for good; the run ends after the deadline.
- **Setup and persistence.** The measured phase starts only with a coin and genuine
  references for every worker; what was saved is what is loaded, or the load fails.
- **Move package.** A checksum is that of its counter's fields; an abort changes nothing.
- **Device helpers and rounds.** A reported WAF belongs to the round it is reported
  for, or is marked as missing.
- **Process scripts.** After a round nothing it recorded is running, on every way out.
- **Validators.** What a validator signs never contradicts what it signed before, by
  the same process or by one that crashed.

## Modules

| Module | Content |
|---|---|
| `SuiNode` | the node behind `--rpc-url`, external to the repository, as its clients see it |
| `LoadGen` | the measured phase, on top of `SuiNode` |
| `Phases` | abstract: what `--save-objects` and `--load-objects` promise across runs |
| `LoadSetup` | setup, save and load over several runs; implements `Phases` |
| `IoChurn` | the Move package |
| `FemuStats` | device counters, host log and file system, extended by the three script modules |
| `Rounds` | abstract: how a benchmark script may use its results directory |
| `Replay` | `bench.sh` of the Ethereum replay; implements `Rounds` |
| `Testnet` | `bench_old.sh` and the processes it starts; implements `Rounds` |
| `SuiBench` | `bench.sh` and `bench_old_baseline.sh` of Sui; implements `Rounds` |
| `SafetyRules` | the Aptos safety rules of all correct validators and their storage |
| `Tower` | voting of one Solana validator, with crash and restore |
| `MC*` | the small instances; one `.cfg` per run |
| `LoadGenProofs` | lemmas on the list operators; references, types, permits, counters, reports, late creates |
| `LoadSetupProofs` | what a run measures with, and that the runs implement `Phases` |
| `FemuStatsProofs` | lemmas on the counters and the host's log, for the next two |
| `ReplayProofs`, `SuiBenchProofs` | whose writes a published number counts; monitor, environments, throughputs; `Rounds` |
| `TestnetProofs` | the processes of the testnet script; `Rounds` |
| `SafetyRulesProofs` | the theorems on the Aptos safety rules |
| `TowerProofs` | the theorems on the Solana tower |

### SuiNode

Every worker has an address of its own, so `chain[w]` holds the version of w's gas
coin and of each object w owns. `net[w]` holds what w has sent and the node has
neither executed nor refused; it stays there when the client stops waiting.
`done[w]` is the last executed transaction with its effects. A transaction executes
only if every reference it carries is current, and gives coin, inputs and created
objects one common new version. Because the coin is an input of every transaction
of its owner, at most one transaction executes for each version of the coin. Equal
transactions have one digest: sending an executed one again returns the effects it
already has. A Move call that aborts still consumes the coin and its inputs.
Effects are always part of an answer, because the calls ask for them; object
changes may be missing, because they are computed after the effects certificate
the call waits for.

### LoadGen

One worker's step runs from one await of `run_worker` to the next; `pc[w]` names
the place:

| `pc` | Place in `main.rs` | Steps out of it |
|---|---|---|
| `head` | 899 | `LoopExit`, `LoopHead` (level, truncation, delay) |
| `emergency` | 929 | `EmergencyGate` |
| `acquire` | 939, 979 | `AcquirePermit` |
| `execute` | 940, 984 | `SendCreate`, `SendUpdate`, `UpdateNothing` |
| `rpc` | 1082, 1176, 1250, 1344 | `RpcReply`, `RpcRefused`, `RpcLost` |
| `count` | 946, 1000 | `CountSubmitted` |
| `match` | 947, 1002 | `MatchResult` |
| `sleep` | 958, 1015-1030 | `ReleasePermit` |
| `done` | 1033 | none |

The permit is held from `execute` to `sleep`: `_permit` lives to the end of the
loop body, backoff and rate limit included. The emergency branch (938-958) and the
normal branch (978-1030) pass the same places; they differ in that the first never
creates and does not count failures in a row, which `MayCreate`, `MayUpdate` and
`MatchResult` decide by `pressure_level[w]`. The counters are separate atomics:
`CountSubmitted` and `MatchResult` are separate steps, and the `Reporter` loads
`tx_submitted`, `tx_success` and `tx_failed` in three steps with others in between.
`tx_success` and the object counters, which `match` adds to in one go, are one
step, as no property looks between them.

Left out of the data: digests (the version determines them), addresses and keys
(one worker each), gas price and budget (a budget that runs out is an abort),
delays and their lengths, logging. The failure-rate pauses at 963-976 only delay
the acquire. `consecutive_failures` stops at `MAX_CONSECUTIVE_FAILURES`, from which
on the code only computes a delay. The atomics are `Relaxed`; the model interleaves
them in program order, which is what x86-64, the target of the FEMU image, does.
`Init` is the state a complete setup leaves: every worker has its coin and
references to its seed objects.

Two variables are bookkeeping: `attempts` and `faults` enforce the bounds, and
`lateCreates`, a history variable, counts the creates sent at the emergency level.

### LoadSetup and Phases

`LoadSetup` follows `main` over several runs. `main.stage` is the place in `main`,
`ws[w]` a worker under construction; ledger, transactions under way, payouts the
faucet owes and the saved file outlive a run. Every `?` of `main` is a `Quit`, and
`Crash` may come at any step, between `File::create` and `write_all` included
(`file.kind = "torn"`). `NewChain` is a benchmark script that formats the device
between two runs while the saved file is elsewhere. The refresh asks for 50 objects at
a time and the node looks them up one after the other, with executions in between, so
`RefreshRead` is one object and the size of a query does not matter. The measured phase
appears in outline only (`Work`): a call executes and is answered, or fails and stays under
way. `Phases` forgets all of this and keeps phase, identity, gas, objects and file.

### IoChurn

One action per entry function. `u64` arithmetic that overflows aborts the call; the
widths are scaled down together, as `LcgAssumption` states. `keccak256` is a function
without collisions. Ownership rules of the chain are `MayUse`.

### FemuStats, Rounds, Replay, Testnet and SuiBench

A counter of the device is the set of writes it has counted, each named by the
invocation, configuration and part of the work that made it, so a WAF that is
published tells whose writes it stands for. `fdp_stats` asks for a line that the host
prints in its own time; `get_waf_from_host` reads the last line there is. The scripts
ignore every failure on the way; `spoiled` remembers that one happened in this round,
and a number read in a spoiled round (`Unreliable`) is published like any other but
says nothing. `WafExact` excepts these numbers: it does not show that a failed reset or a
late line is noticed, which it is not, but that it spoils no other round.
A write is counted when it is made. The page cache, which may delay it beyond the snapshot
(the scripts sync only when they unmount), is not modelled. `prepare_fs` fails before
the device is formatted (`mkfs_fails`) or after (`mount_fails`).

The script modules have the script's place in `sh`, its background processes beside
it, and let it fail at each step that can fail under `set -e`. `Replay` has the
monitor of each invocation, the fork of it and the recording of its pid as two steps, and
the EXIT trap; a monitor the trap does not know of goes on beside later invocations.
`Testnet` has geth, beacon node and validator client with their slow starts, hangs
and deaths, and knows them only by what the script knows: a variable, a file, the
ports; its reading of WAF is the one of the other two and is not repeated. `SuiBench` has
both scripts, which run their steps in different orders, and
the environment that processes inherit; the sums over the rounds (`sums`) run along
as in the scripts, throughputs with their decimals, quotients as `bc` cuts them. `Rounds` is what all three implement: a
result is discarded before it is replaced, is published by the invocation that
measured it, and a report compares two results of its own invocation.

### SafetyRules

One record per correct validator in `store` and one, or none, in `cache`. Votes, order
votes and timeouts that left a validator are sets; a certificate is whatever these
sets and the signatures of faulty validators can be aggregated into, so it may reach
anyone at any time. Each `guarded_*` method is one action (its callers hold a mutex).
A write to the storage succeeds, is lost, or fails with the data written; the cache is
dropped on failure (`set_safety_data`), and nothing of a failed call leaves the
validator, although the vote in a record that was written may leave it later
(`VoteAgain`). `Initialize` writes waypoint and data in the order of the code, with an
outcome for each. With `enable_cached_safety_data` off the code reads the storage
every time, which is the model with an empty cache. A timeout certificate is taken to be of
the block's epoch: its callers check that (`SyncInfo::verify`), `verify_tc` does not. Left out: proposal signing and
commit votes (no state), hashes and signatures, voting power (quorums are sets).

### Tower

One validator; the cluster produces banks on a given tree of slots and lands any vote
it was sent. `tower` is the tower in memory, `queue` the channel to the voting service,
`saved` the file, `sent` what left the node, `bank[s]` the vote account in the bank of
slot s. `handle_votable_bank` records the vote, sets the root, prunes and pushes;
`StoreTower` and `SendVote` are the two halves of `handle_vote`. The switch, threshold
and propagation checks weigh the stake of others and only ever withhold a vote, so
they are nondeterminism; `is_recent` and `is_locked_out` are not.
`post_process_restored_tower` starts from any replayed root with the file adjusted to
it. The vote program's checks (`process_new_vote_state`) are the reference the sent
votes are held against.

Left out: the rebuilding of a tower whose file cannot be adjusted (without
`--require-tower`), the window of the slot hashes sysvar, a file lost because
`store` does not sync it, votes landing twice in one block, timestamps and latencies, and a
vote account that is missing, unreadable or given to another node (`generate_vote_tx`).

## Runs

| Run | Instance | Result |
|---|---|---|
| `references` | 1 worker, 2 seed objects, batch 2, cap 5, floor 3, levels 0-3, 3 operations, 2 faults | no error, 774 586 states |
| `contention` | 2 workers, 1 permit, 1 report, symmetric workers | no error, 1.46 million states |
| `liveness` | 2 workers, 1 permit, no seed objects, emergency level, 2 operations each, no faults | no error, 48 514 states |
| `setup` | 2 workers, 3 seed objects in batches of 2, cap 3, faucet chunks of 1, 1 request, 2 queries, 2 runs, 2 chains, 1 fault | no error, 735 926 states |
| `calls` | 2 senders, 2 objects of a kind, 4 calls, 2 epochs, integers up to 255 | no error, 75 756 states |
| `replay` | 3 blocks in chunks of 2, 2 invocations | no error, 1.08 million states |
| `sui` | 2 rounds, 2 invocations, either script, 0 or 3 seconds a round, 1.8 transactions per second or none printed | no error, 1.79 million states |
| `testnet` | 2 invocations, chain of up to 6 blocks | no error, 276 652 states |
| `safety` | 3 correct validators and a faulty one, 5 blocks in rounds 0-2, 2 epochs, 1 disturbance | no error, 82 906 states |
| `tower` | 7 slots on two forks, depth 3, history of 5, queue of 2, 1 crash | no error, 196 734 states |
| `inflight` | 2 workers, 1 permit | `InflightBounded` violated |
| `unique` | seeds 0 and 4, bytes of 2 bits | `UniqueData` violated |

**references.** `GasAtMostOneBehind`, `TrackedGenuine`, `CoherentUntilFault`,
`UnseenBlocksExecution` and `DeadRefsStayDead` say what a worker's references can be
after lost, late, incomplete and repeated answers. Together they show how a worker
degrades. A lost answer stops it until it happens to send the same transaction
again; an update that starts at the same place of an unchanged list is the same
transaction, and so is a create of the same size, so this does happen. Missing
object changes leave references that nothing repairs. `TrackedCapped`,
`NeverEmptied` and `OneLateCreate` are about memory pressure. Three operations and
two faults suffice for a lost answer, a repeated send and a use of the result; two
seed objects and batches of two reach the cap of 5 and pass the floor of 3.

**contention.** `PermitsConserved`, `StatsAccounted`, `ReportLag` and
`CountersOnChain`. Two workers and one permit give every order of acquire and
release, and one report every way to interleave the three loads.

**liveness.** `Termination` and `PermitGranted` under `FairSpec`. Time passes
(`DeadlinePasses`), tokio polls ready tasks (weak fairness of each worker and of
`main`), the semaphore is fair (tokio serves waiters in order: strong fairness of
the acquire), and every RPC returns, with an answer or an error (`SuiClientBuilder::default()`
sets a request timeout). Nothing is assumed of the node, the monitor or the reporter.
Without seed objects a worker at the emergency level goes round `head` and `emergency`
with nothing to do, and one at another level meets the early return of an update; both
must still end. Refusals stand for every error here: a lost answer leaves the worker
at the same place.

**setup.** `RefsOwned`, `CurrentUntilUnseen` and `SeedsComplete` say what a run holds
when it begins to measure, after lost answers, a crash, an interrupted save or a
re-created chain; `ImplementsPhases` that keys, gas and objects carry over as promised;
`SetupEnds` that the way there ends when the faucet pays late or never. Two runs are
what it takes to save and load; batches and chunks are smaller than the lists, so that
the loops over them go round twice, as do the coin queries. The faucet request is made
once: repeated requests leave an address with several coins, which together with measured
work is too much for TLC. `RefsOwned` and `SetupEnds` have also been checked with two requests
and with `MaxWork` and `MaxFaults` at 0 (159 649 states).

**calls.** `ChecksumsMatch` and `ExhaustedForGood`. The largest value is among the
arguments, so every addition that can overflow does.

**replay**, **sui**, **testnet.** `WafExact` (whose writes a published number counts),
`MonitorStopped` and `RecordedKilled` (what is left running), `EnvironmentsSeparate` and
`ThroughputSound` (what is measured, and what the averages are of), `ImplementsRounds`,
`ReplayEnds` and `TestnetEnds`. Two invocations are enough for one to find what another
left: file system, device counters, results, processes. The last chunk of the replay is
shorter than the other. `ThroughputSound` has also been checked with throughputs of 0.5, 1.8 and 2.5
and rounds of 0, 2 and 5 seconds in one invocation (2.5 million states). `CHUNK_BLOCKS` is
positive: the script accepts 0 and then never gets beyond the first block.

**safety.** `Agreement`, `OrderedLocks` and `StoredGrows`. Four validators are the
smallest set with a faulty one. The blocks contain a fork in round 1 and a block of
round 2 over either genesis or round 1, which is what it takes to order two conflicting
blocks if a rule is wrong. A disturbance is a crash, a failing write, a missing key or the
proof of a new epoch; one is enough to break each rule's mutant, and the proofs cover any
number. A proof whose second write fails is one disturbance, and proofs repeated after it
are none, so the recovery of `guarded_initialize` is within the bound.

**tower.** `LockoutsHonored`, `Landable` and `Restorable`. Depth 3 lets a slot be
rooted; the two forks that leave slot 1 let a vote expire on one and be locked out on
the other; the history of 5 slots lets a vote become too old. The run also passes with
two crashes and a queue of one (565 113 states).

Fairness. `liveness`: see above. `setup`: the runtime runs every task that can go on, and
calls of the Sui client return (it has a request timeout). The faucet's HTTP client has none:
a request may never be answered, and `SetupEnds` excepts that. `replay`: the script goes on
and the host prints; strongly fair, because the bound on lines to print would otherwise
let a monitor's requests keep the script from its own. `era2rlp` and `geth import` have no
time limit and may never return (`Waits`); nothing is assumed of the monitor. `testnet`: the
script goes on where it does not wait for an answer of geth or of the beacon node, asked for
by `curl` without `--max-time`, or for spamoor to end (`Waits`); nothing is assumed of these
processes, and geth may hang while it closes, which the script does bound. The other runs
have safety properties only. Deadlock is not checked where the bounds on runs, calls, slots
or invocations end the model (`setup`, `calls`, `replay`, `sui`, `testnet`, `tower`); in
`safety` and in the passing runs of `LoadGen` it is.

### Disagreements with the documentation

Two runs show a help text or a comment at odds with the code; `PROJECT.json` quotes the
lines. The code's behaviour may well be the intended one.

- `inflight`: a call that ends in an error returns its permit while its transaction can
  still be on its way, so the permits bound the calls and not the transactions.
- `unique`: the data of a blob depend on the low byte of the seed only, because the
  generator's modulus is a multiple of 256 and `state % 256` is what is kept of it; 256
  contents there are, of "unique data".

Others were met while modelling and have no run of their own:

- A worker above `--memory-critical` ("Critical memory threshold that stops all workers",
  `main.rs` 148) slows down and goes on sending.
- A reset the device refuses, or never gets, is not noticed, and the message says that the
  counters have been reset (`env.sh` 63, `fdp_stats.cc`).
- Background churn survives a failing measured phase of `bench_old.sh` and runs beside the
  phases of the next invocation, whose two rounds are then not "the SAME workload".
- A block number that cannot be read counts as 0 (`helpers.sh` 28), and the transactions of
  the seed phase then as confirmed "in measurement window".
- Seed objects are `MicroCounter`s whatever `--use-blobs` says, and the first updates
  pass them to `update_blob`; `--max-tracked-objects` is never read.
- The monitor of the replay ends for good when `du` fails once; `umount` failures are
  ignored; chunk files of an interrupted conversion stay.
- In the testnet scripts a process that is started and not yet recorded when the
  script is interrupted survives it.
- Solana: `refresh_last_vote` sends a vote and saves nothing. As long as a process that
  has signed a vote keeps its voting key this is harmless, and the `tower` run assumes it
  (`KeysChange = FALSE`). If the key disappears for a vote and returns for the refresh,
  a vote is sent that no file knows, and `LockoutsHonored` fails after a crash.
- Solana: a tower restored with a stray last vote may vote for its own root, since
  `is_recent` compares with that last vote only; the vote program refuses such votes.
  `Landable` excepts it.

## Proofs

### LoadGen

All theorems hold for every finite, non-empty set of workers and for every value of
the options and bounds. The assumptions on constants are that counts are natural
numbers, `--max-inflight`, `--batch-size` and the blob limit are positive, and the
truncation floor is at least 3 (50 in the code): a list of three is cut to none at
the level that drops 75 percent only if the floor lets it.

| Theorem | Property | Argument |
|---|---|---|
| `TypeCorrect` | types (`TypeOK`) | inductive together with the next |
| `PermitsNeverLeak` | `PermitsConserved` | counting the workers at holding places; returning a permit stays below the maximum because the returning worker is one of the holders |
| `GasNeverFallsBehind` | `GasAtMostOneBehind` | `GasInv`, below |
| `UnseenBlocks` | `UnseenBlocksExecution` | `GasInv` |
| `ListCapped` | `TrackedCapped` | what `TrackCreated` and `Truncate` do to the length |
| `ListNeverEmptied` | `NeverEmptied` | `KeepBounds`: rounding keeps at least one object above the floor |
| `ReferencesGenuine` | `TrackedGenuine` | `GasInv` and `RefInv` |
| `DeadForGood` | `DeadRefsStayDead` | `RefInv` and `InputsInv` |
| `CoherentWithoutFaults` | `CoherentUntilFault` | `CoherentInv` |
| `CountersAgree` | `StatsAccounted` | counting the workers between the two additions |
| `ReportsLagByWorkers` | `ReportLag` | `LagInv` |
| `CreatesStop` | `OneLateCreate` | `LateInv` |
| `CountersBacked` | `CountersOnChain` | `ClaimInv`, `GasInv` and `RefInv` |

`GasAtMostOneBehind` is not inductive: an execution could add to the distance if an
old transaction could still execute. `GasInv(w)` adds that nothing in `net[w]` carries
a newer coin than the worker's, that the transaction waited for carries exactly the
worker's, and that `done[w]` tells the chain's version. An executing transaction then
carries the worker's current reference, and the answer brings it up to date.

`TrackedGenuine` needs to know, when an answer arrives, that the objects it lists are
not tracked yet and still have the version it gives. `RefInv(w)` keeps this for as
long as effects are unseen (`Pending`): the created objects are above `done[w].base`
and every tracked identity is not; by `UnseenBlocks` nothing has changed them since.
`Bounded` (no object is newer than the coin) makes an execution raise versions.

`DeadRefsStayDead` is about two states: a dead reference could come back to life if an
answer named it as an input. `InputsInv(w)` excludes this: whatever w has sent with the
coin it still holds carries the references it still tracks, so an answer repairs only
what was current when it was sent. `CoherentInv(w)` says that without a fault there is
nothing under way but the call awaited, so the effects not yet seen are its effects.

`LagInv` relates what the reporter has loaded to the counters it has yet to load: since
outcomes are only added, it can miss no more than what was in flight at its first load.
`LateInv(w)` says that a worker which has sent a create at the emergency level reads
that level before it decides again.

`CountersOnChain` compares counters all workers add to with sums over the chain, and is
not inductive: an answer lets a worker count without anything changing on the chain.
`ClaimInv` therefore puts what the workers have seen between the two: the versions of
their gas coins, and their objects without those of an execution still unseen. An answer
moves the coin by exactly one version (`GasInv`) and shows the objects of that execution
(`RefInv`), so it pays for what it adds. The sums are the community modules' fold over a
set, a recursive function; `PartialExists` shows that it is defined, by the number
of workers, and `SumGrows` that a sum grows by what one of its terms grows by, by taking a
smallest set of workers for which it would not.

`StepOfOne` and `RefStep` reduce a step to what it does to one worker: nothing but
perhaps a truncation, a send, an error, an answer, an execution. The invariants are
proved over these five ways and not over every action.

### LoadSetup

For any number of workers, seed objects, runs, ledgers, transactions and faults, and
any batch and chunk sizes of at least one:

| Theorem | Property | Argument |
|---|---|---|
| `MeasuredRefsOwned` | `RefsOwned` | `IInv` |
| `MeasuredRefsCurrent` | `CurrentUntilUnseen` | `IInv` |
| `AllSeedsTracked` | `SeedsComplete` | `IInv` |
| `SetupImplementsPhases` | `ImplementsPhases` | `IInv`, and one step of `Phases` or none for each action |
| `Types` | - | `IInv` |

All of them are about the measured phase and say nothing of the way there, so the
inductive invariant `IInv` is mostly about that way. `LedgerInv(k, w)` follows one
address: what its last transaction created is there and no older than the effects say,
and keys that have not been generated have sent nothing. A FRESH run therefore has its
addresses to itself, and `SeedInv(w)` can say that the one batch a worker has sent is
either under way or executed with objects the worker does not track yet (`RpcInv`),
and that between batches the worker has seen all there is (`IdleInv`). A LOAD run
shares its addresses with transactions of earlier runs that may still execute;
`RefreshInv(w)` says that what has been read so far is owned, is current unless such a
transaction has executed since (`unseen`), is without duplicates because the file is,
and names nothing the file does not name. `FileInv` and `RunInv` relate the file to the
run: only a saved file has keys, a LOAD run uses them, and a FRESH run has newer
keys than any file, which is why it may track objects no file names.

`Executes`, `Sends`, `Pays` and `Same` are the ways a step can change one address; the
lemmas on workers (`StillStep`, `ExecutedStep`) are proved over these and not over
every action of the node. The run has `MaxFresh = 1`; TLC has also checked `IInv`
with two FRESH runs, where the keys of file and run can differ.

### Replay, SuiBench and Testnet

For any number of blocks, chunks, rounds, invocations, any values a round prints and any
delay of the host; the counts are assumed to be positive. Which processes fail or hang,
and when, is left open as in the models.

| Theorem | Property |
|---|---|
| `MonitorNeverOutlives`, `PublishedWafExact`, `ReplayImplementsRounds` (`ReplayProofs`) | `MonitorStopped`, `WafExact`, `ImplementsRounds` |
| `EnvironmentsNeverMix`, `SuiWafExact`, `ThroughputsSound`, `SuiImplementsRounds` (`SuiBenchProofs`) | `EnvironmentsSeparate`, `WafExact`, `ThroughputSound`, `ImplementsRounds` |
| `NothingRecordedSurvives`, `TestnetImplementsRounds` (`TestnetProofs`) | `RecordedKilled`, `ImplementsRounds` |

The inductive invariants say, step by step of the script, what holds there: which
rounds are to do (`TodoInv`), that the result of the round being made has been discarded
and an earlier one of two is this invocation's (`RoundsInv`), and in a round that is not
spoiled, what the counters have counted so far (`CountInv`). The last needs `ReadOut`:
once the counters have been read, either their line is the only one in the host's log
or it is the last the host has still to print, so a late host can leave the script
without a number but not with a wrong one.
`SumsInv` bounds the sum of the throughputs by the extremes times their number, which
is inductive although the average is not; `AverageBetween` and `CheckpointRate` are what
division that drops the remainder makes of it. `MonitorInv` and `KillInv` say which
processes are recorded at which step, hence what a trap can reach.

### SafetyRules

For any validators, any quorums of which two always share a correct validator, any set
of blocks (finite or not) with one genesis block per epoch, and any number of rounds,
epochs and disturbances:

| Theorem | Property | Argument |
|---|---|---|
| `Grow` | `StoredGrows` | `SafetyInv`: what is cached is what is stored |
| `Locked` | `OrderedLocks` | `SafetyInv` |
| `Agree` | `Agreement` | `SafetyInv` and `ChainInv` |
| `Invariance` | - | `Inv == TypeOK /\ SafetyInv /\ ChainInv` is inductive |

`Agreement` speaks of certificates and is far from inductive. `ReplicaInv(r)` ties what
r has signed to what r has stored: votes, orders and timeouts are bounded by the stored
rounds; one vote per round; and a timeout carries a certificate at least as high as the
parent of any block r voted for, or any block r ordered, up to that round. The vote in
the storage counts as signed, because a write of unknown outcome can be found there
after a restart and be sent. `Locked` then follows from two quorums: if a block of a
later round was justified by a timeout certificate, some correct validator is both among
those that timed out and those that ordered, and its timeout pins the certificate.
`Agree` needs a path from a block down to the ordered one: `ChainInv` says that below a
certified block every round is either that of a certified ancestor or is jumped over by
some certified block, and `Locked` excludes that the round of an ordered block is jumped.
It replaces an induction along the chain.

### Tower

For any tree of slots, any depth of the tower and of the slot history, any length of the
queue and any number of votes, landings and crashes, under one hypothesis: `~KeysChange`,
a process that has signed a vote keeps its voting key. Without it `LockoutsHonored` does
not hold (see above).

| Theorem | Property | Argument |
|---|---|---|
| `LockoutsAlwaysHonored` | `LockoutsHonored` | `SentInv` |
| `VotesLand` | `Landable` (which excepts votes for the own root) | `SentInv`, and what the vote program demands follows from `Recorded` and `Supersedes` |
| `FilesRestore` | `Restorable` | `SavedInv` |

The properties speak of votes sent at any two times, by processes that knew of each other
only through the file and the ledger. `Supersedes(t, u)` is the relation between two
towers that makes it work: nothing in `u` is forgotten by `t`, that is, every vote `v` of
`u` satisfies `Covers(t, v)`: it is an ancestor of the root of `t`, or still in `t` with
at least as many confirmations, or its lockout ended before the next vote of `t`. The
inductive invariant `Inv` says that along the way of a vote each copy supersedes the
ones that left before it:

- `SentInv`: of two votes sent, the one for the later slot supersedes the other, and an
  account in a bank holds a vote that was sent.
- `SavedInv`: the file supersedes everything sent. This is what a crash relies on, and
  why a vote is stored before it is sent.
- `QueueInv`: an operation supersedes everything sent and everything queued before it,
  and brings its own tower to the file, or follows one that does. A refresh brings no
  tower and is harmless because the vote it repeats is in the file by the time it is sent.
- `TowerInv`: the tower in memory supersedes all of these, and once it has signed, the
  last of them is its own.

All towers involved are a `Stack`: slots rise along one fork, confirmations fall, each
vote has been confirmed by those above it and is locked out at the next. `VoteStep` shows
that `process_next_vote_slot` keeps the shape and supersedes what it replaces,
`AdoptFacts` the same for a tower taken from a bank, `RestoreFacts` for one adjusted to
a replayed root, where votes of another fork may stay on top of the new root.
Powers of two and ancestors are recursive functions; that they satisfy their equations and
what follows from these (`LockoutDef`, `LockoutGrows`, `ForkOrder`, `ForkJoin`) is
proved by taking the least number at which it would fail (`LeastNat`).
TLC has checked `Inv` on the instance of the `tower` run.

### What is only model-checked

- `ChecksumsMatch` and `ExhaustedForGood` (`IoChurn`): the module uses
  `Bitwise`, whose recursive definition the provers cannot use.
- Liveness (`Termination`, `PermitGranted`, `SetupEnds`, `ReplayEnds`, `TestnetEnds`):
  the provers' backends handle neither fairness nor `ENABLED`.

## Not modelled, and why

- Nearly all lines of the repository are the vendored Solana and Aptos code bases, more
  than a million of them, with tests and specifications of their own. Modelled are the
  two parts where a crash of the node, which a benchmark of storage devices is about,
  decides safety. Runtime, gossip, ledger, banking, execution, the Move VM and storage
  are not: each is a project of its own, and a model of a third of these lines would
  not be a faithful one.
- In the modelled parts of the forks: what the sections on `SafetyRules` and `Tower` name
  as left out.
- Single-workload modes, download and build commands and log parsing of the Ethereum
  scripts; latency percentiles; bind mounts and the restart loop of the Solana launch
  scripts; key and genesis generation; report formatting: input and output with little
  or no state of their own.
- Lengths of delays, throughput and memory consumption: the models have no clock.
