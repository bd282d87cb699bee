------------------------------ MODULE LoadGen ------------------------------
(***************************************************************************)
(* The measured phase of the Sui load generator (fdp-sui/src/main.rs): the *)
(* worker tasks of run_worker, the memory monitor, the statistics reporter *)
(* and main's wait for the workers, running against the node of SuiNode.   *)
(*                                                                         *)
(* A worker's step runs from one await to the next.  Sleeps are the time   *)
(* between steps; the length of a delay is not modelled.                   *)
(***************************************************************************)
EXTENDS SuiNode, Functions

CONSTANTS
    MaxInflight,        \* --max-inflight
    BatchSize,          \* --batch-size
    CreatePct,          \* --create-pct
    UseBlobs,           \* --use-blobs
    MemThreshold,       \* --memory-threshold, in percent
    MemCritical,        \* --memory-critical, in percent
    MemEmergency,       \* --memory-emergency, in percent
    MaxTracked,         \* MAX_TRACKED_OBJECTS_PER_WORKER (5000)
    TruncFloor,         \* list length above which memory pressure truncates (50)
    BlobLimit,          \* most blobs in one transaction (20)
    MaxFailures,        \* MAX_CONSECUTIVE_FAILURES (10)
    Usage,              \* memory usages the monitor may read, in percent (0: unreadable)
    MaxAttempts,        \* bound: operations a worker attempts
    MaxFaults,          \* bound: answers lost or incomplete, executions aborted
    MaxReports          \* bound: lines the reporter prints

ASSUME InflightAssumption == MaxInflight \in Nat \ {0}
ASSUME BatchAssumption == BatchSize \in Nat \ {0} /\ BlobLimit \in Nat \ {0}
ASSUME ModeAssumption == UseBlobs \in BOOLEAN /\ CreatePct \in Nat
ASSUME TrackedAssumption == MaxTracked \in Nat
ASSUME FloorAssumption == TruncFloor \in Nat /\ TruncFloor >= 3
ASSUME FailuresAssumption == MaxFailures \in Nat
ASSUME MemAssumption ==
    /\ Usage \subseteq Nat
    /\ MemThreshold \in Nat /\ MemCritical \in Nat /\ MemEmergency \in Nat
ASSUME BoundAssumption == MaxAttempts \in Nat /\ MaxFaults \in Nat /\ MaxReports \in Nat

MEM_PRESSURE_NORMAL == 0
MEM_PRESSURE_LIGHT == 1
MEM_PRESSURE_HEAVY == 2
MEM_PRESSURE_EMERGENCY == 3

VARIABLES
    running,            \* the shared flag `running'
    expired,            \* whether Instant::now() has reached the deadline
    memory_pressure,    \* the shared level the monitor stores
    permits,            \* free permits of the one semaphore all workers share
    stats,              \* BenchStats
    report,             \* the reporter: which counter it loads next, and what it has loaded
    pc,                 \* pc[w]: where worker w is
    pressure_level,     \* pressure_level[w]: the level w read at the head of its loop
    gas_coin,           \* gas_coin[w]: version of the gas coin reference in WorkerState
    objects,            \* objects[w]: the tracked objects, oldest first
    rpc,                \* rpc[w]: the transaction w awaits the answer to
    result,             \* result[w]: what execute_*_batch returned
    consecutive_failures,
    attempts,           \* bookkeeping for the bounds: operations w has attempted
    faults,             \* ... and faults so far
    lateCreates         \* history: creates w sent since the level became EMERGENCY

workerVars == <<pc, pressure_level, gas_coin, objects, rpc, result, consecutive_failures,
                attempts, lateCreates>>
sharedVars == <<running, expired, memory_pressure, permits, stats, report, faults>>
vars == <<workerVars, sharedVars, nodeVars>>

BenchStats == [tx_submitted : Nat, tx_success : Nat, tx_failed : Nat,
               objects_created : Nat, objects_updated : Nat]
Result == [ok : BOOLEAN, created : Nat, updated : Nat]
Failure == [ok |-> FALSE, created |-> 0, updated |-> 0]

\* Where a worker can be, and where it holds its permit: `_permit' lives to the
\* end of the loop body, so through the backoff and rate-limit sleeps as well.
Holding == {"execute", "rpc", "count", "match", "sleep"}
Location == Holding \cup {"head", "emergency", "acquire", "done"}

SharedTypeOK ==
    /\ running \in BOOLEAN /\ expired \in BOOLEAN
    /\ memory_pressure \in 0..3
    /\ permits \in 0..MaxInflight
    /\ stats \in BenchStats
    /\ report \in [next : {"check", "submitted", "success", "failed"}, lines : Nat,
                   submitted : Nat, success : Nat, failed : Nat]
    /\ faults \in Nat

WorkerTypeOK ==
    /\ pc \in [Worker -> Location]
    /\ pressure_level \in [Worker -> 0..3]
    /\ gas_coin \in [Worker -> Nat \ {0}]
    /\ objects \in [Worker -> Seq(TrackedObject)]
    /\ rpc \in [Worker -> Transaction]
    /\ result \in [Worker -> Result]
    /\ consecutive_failures \in [Worker -> 0..MaxFailures]
    /\ attempts \in [Worker -> Nat]
    /\ lateCreates \in [Worker -> Nat]

\* Every variable has its type; in particular the semaphore never holds more
\* permits than it was created with.
TypeOK == NodeTypeOK /\ SharedTypeOK /\ WorkerTypeOK

Smaller(a, b) == IF a <= b THEN a ELSE b

Init ==
    /\ NodeInit
    /\ running = TRUE
    /\ expired = FALSE
    /\ memory_pressure = MEM_PRESSURE_NORMAL
    /\ permits = MaxInflight
    /\ stats = [tx_submitted |-> 0, tx_success |-> 0, tx_failed |-> 0,
                objects_created |-> 0, objects_updated |-> 0]
    /\ report = [next |-> "check", lines |-> 0, submitted |-> 0, success |-> 0, failed |-> 0]
    /\ pc = [w \in Worker |-> "head"]
    /\ pressure_level = [w \in Worker |-> MEM_PRESSURE_NORMAL]
    /\ gas_coin = [w \in Worker |-> 1]
    /\ objects = [w \in Worker |-> [i \in 1..Smaller(SeedObjects, MaxTracked) |->
                                       [id |-> i, version |-> 1]]]
    /\ rpc = [w \in Worker |-> NoTx]
    /\ result = [w \in Worker |-> Failure]
    /\ consecutive_failures = [w \in Worker |-> 0]
    /\ attempts = [w \in Worker |-> 0]
    /\ faults = 0
    /\ lateCreates = [w \in Worker |-> 0]
-----------------------------------------------------------------------------
(* The memory monitor *)

\* The level for a memory usage, the highest threshold first.
PressureLevel(usage) ==
    IF usage >= MemEmergency THEN MEM_PRESSURE_EMERGENCY
    ELSE IF usage >= MemCritical THEN MEM_PRESSURE_HEAVY
    ELSE IF usage >= MemThreshold THEN MEM_PRESSURE_LIGHT
    ELSE MEM_PRESSURE_NORMAL

MemoryMonitor ==
    /\ running
    /\ \E usage \in Usage : memory_pressure' = PressureLevel(usage)
    /\ lateCreates' = IF memory_pressure' = MEM_PRESSURE_EMERGENCY /\ memory_pressure # MEM_PRESSURE_EMERGENCY
                      THEN [w \in Worker |-> 0] ELSE lateCreates
    /\ UNCHANGED <<running, expired, permits, stats, report, faults, nodeVars, pc, pressure_level,
                   gas_coin, objects, rpc, result, consecutive_failures, attempts>>
-----------------------------------------------------------------------------
(* The worker loop, run_worker *)

\* Percentage of the tracked objects a worker drops at levels 1, 2 and 3.
DropPct == <<25, 50, 75>>

Keep(before, level) == (before * (100 - DropPct[level])) \div 100

\* Mutant of Truncate: the floor is forgotten.
TruncateNoFloor(objs, level) ==
    IF level > MEM_PRESSURE_NORMAL THEN SubSeq(objs, 1, Keep(Len(objs), level)) ELSE objs

\* Under pressure a list longer than the floor is cut to its oldest objects.
Truncate(objs, level) ==
    IF level > MEM_PRESSURE_NORMAL /\ Len(objs) > TruncFloor
    THEN SubSeq(objs, 1, Keep(Len(objs), level))
    ELSE objs

\* Mutant of LoopExit: the deadline is not tested.
LoopExitOnFlag(w) ==
    /\ pc[w] = "head"
    /\ ~running
    /\ pc' = [pc EXCEPT ![w] = "done"]
    /\ UNCHANGED <<sharedVars, nodeVars, pressure_level, gas_coin, objects, rpc, result,
                   consecutive_failures, attempts, lateCreates>>

\* Past the deadline (or once `running' is cleared) the task returns.
LoopExit(w) ==
    /\ pc[w] = "head"
    /\ ~running \/ expired
    /\ pc' = [pc EXCEPT ![w] = "done"]
    /\ UNCHANGED <<sharedVars, nodeVars, pressure_level, gas_coin, objects, rpc, result,
                   consecutive_failures, attempts, lateCreates>>

\* Another round: read the level, drop objects, and sleep for the level's delay.
LoopHead(w) ==
    /\ pc[w] = "head"
    /\ running /\ ~expired
    /\ attempts[w] < MaxAttempts
    /\ pressure_level' = [pressure_level EXCEPT ![w] = memory_pressure]
    /\ objects' = [objects EXCEPT ![w] = Truncate(@, memory_pressure)]
    /\ pc' = [pc EXCEPT ![w] = IF memory_pressure = MEM_PRESSURE_EMERGENCY THEN "emergency" ELSE "acquire"]
    /\ UNCHANGED <<sharedVars, nodeVars, gas_coin, rpc, result, consecutive_failures, attempts, lateCreates>>

\* At the emergency level a worker with nothing to update waits and starts over.
EmergencyGate(w) ==
    /\ pc[w] = "emergency"
    /\ pc' = [pc EXCEPT ![w] = IF objects[w] = <<>> THEN "head" ELSE "acquire"]
    /\ UNCHANGED <<sharedVars, nodeVars, pressure_level, gas_coin, objects, rpc, result,
                   consecutive_failures, attempts, lateCreates>>

\* The failure-rate pauses before the acquire only delay it.
AcquirePermit(w) ==
    /\ pc[w] = "acquire"
    /\ permits > 0
    /\ permits' = permits - 1
    /\ pc' = [pc EXCEPT ![w] = "execute"]
    /\ UNCHANGED <<running, expired, memory_pressure, stats, report, faults, nodeVars, pressure_level,
                   gas_coin, objects, rpc, result, consecutive_failures, attempts, lateCreates>>

\* What `gen_range(0..100) < create_pct' can be.
DoCreate == {r < CreatePct : r \in 0..99}

\* Mutant of MayCreate: skip_creates is not honoured.
MayCreateAlways(w) == TRUE \in DoCreate

MayCreate(w) == pressure_level[w] # MEM_PRESSURE_EMERGENCY /\ TRUE \in DoCreate
MayUpdate(w) == pressure_level[w] = MEM_PRESSURE_EMERGENCY \/ FALSE \in DoCreate

\* execute_create_blob_batch is execute_create_batch with fewer objects at a time,
\* and execute_update_blob_batch likewise.
CreateBatch == IF UseBlobs THEN Smaller(BatchSize, BlobLimit) ELSE BatchSize
UpdateBatch == IF UseBlobs THEN Smaller(BatchSize, BlobLimit) ELSE BatchSize

\* The objects an update takes: `UpdateBatch' of the list, round robin from `start'.
Window(objs, start) ==
    {objs[((start + i) % Len(objs)) + 1] : i \in 0..(Smaller(UpdateBatch, Len(objs)) - 1)}

Send(w, tx) ==
    /\ rpc' = [rpc EXCEPT ![w] = tx]
    /\ Submit(w, tx)
    /\ pc' = [pc EXCEPT ![w] = "rpc"]
    /\ attempts' = [attempts EXCEPT ![w] = @ + 1]
    /\ UNCHANGED <<sharedVars, pressure_level, gas_coin, objects, result, consecutive_failures>>

\* Mutant of SendCreate: the gas coin is looked up at every send and not stored.
SendCreateFreshGas(w) ==
    /\ pc[w] = "execute"
    /\ MayCreate(w)
    /\ Send(w, [gas |-> chain[w].gas, create |-> CreateBatch, inputs |-> {}, first |-> 0])
    /\ lateCreates' = IF memory_pressure = MEM_PRESSURE_EMERGENCY
                      THEN [lateCreates EXCEPT ![w] = @ + 1] ELSE lateCreates

\* execute_create_batch and execute_create_blob_batch, up to the await.
SendCreate(w) ==
    /\ pc[w] = "execute"
    /\ MayCreate(w)
    /\ Send(w, [gas |-> gas_coin[w], create |-> CreateBatch, inputs |-> {}, first |-> 0])
    /\ lateCreates' = IF memory_pressure = MEM_PRESSURE_EMERGENCY
                      THEN [lateCreates EXCEPT ![w] = @ + 1] ELSE lateCreates

\* execute_update_batch and execute_update_blob_batch, up to the await.
SendUpdate(w) ==
    /\ pc[w] = "execute"
    /\ MayUpdate(w)
    /\ objects[w] # <<>>
    /\ \E start \in 0..(Len(objects[w]) - 1) :
           Send(w, [gas |-> gas_coin[w], create |-> 0, inputs |-> Window(objects[w], start),
                    first |-> objects[w][start + 1].id])
    /\ UNCHANGED lateCreates

\* ... and their early return: "No objects to update".
UpdateNothing(w) ==
    /\ pc[w] = "execute"
    /\ MayUpdate(w)
    /\ objects[w] = <<>>
    /\ result' = [result EXCEPT ![w] = Failure]
    /\ pc' = [pc EXCEPT ![w] = "count"]
    /\ attempts' = [attempts EXCEPT ![w] = @ + 1]
    /\ UNCHANGED <<sharedVars, nodeVars, pressure_level, gas_coin, objects, rpc, consecutive_failures, lateCreates>>
-----------------------------------------------------------------------------
(* The answer to execute_transaction_block *)

\* Mutant of TrackCreated: the cap tested with <=.
TrackCreatedOneMore(objs, base, count, version) ==
    LET room == IF Len(objs) <= MaxTracked THEN MaxTracked - Len(objs) + 1 ELSE 0
    IN objs \o [i \in 1..Smaller(count, room) |-> [id |-> base + i, version |-> version]]

\* Push the created objects until the list holds MAX_TRACKED_OBJECTS_PER_WORKER.
TrackCreated(objs, base, count, version) ==
    LET room == IF Len(objs) < MaxTracked THEN MaxTracked - Len(objs) ELSE 0
    IN objs \o [i \in 1..Smaller(count, room) |-> [id |-> base + i, version |-> version]]

\* Mutants of TrackMutated: the Mutated changes are ignored, or pushed beside the
\* references they replace.
TrackMutatedIgnored(objs, ids, version) == objs

TrackMutatedPushed(objs, ids, version) ==
    LET named == SelectSeq(objs, LAMBDA r : r.id \in ids)
    IN objs \o [i \in 1..Len(named) |-> [id |-> named[i].id, version |-> version]]

\* Give the tracked objects among `ids' the version the effects report.
TrackMutated(objs, ids, version) ==
    [i \in 1..Len(objs) |-> [id |-> objs[i].id,
                             version |-> IF objs[i].id \in ids THEN version ELSE objs[i].version]]

CreatedBy(w, full) == IF full /\ done[w].ok THEN rpc[w].create ELSE 0

MutatedBy(w, full) == IF full THEN Ids(rpc[w].inputs) ELSE {}

\* Effects arrive: the gas coin is taken from them, the lists from the object
\* changes, which may be missing.  The status in the effects is not looked at.
\* (An answer without effects would leave the gas coin alone and still count as a
\* success; the node is taken to send the effects it was asked for.)
RpcReply(w, full) ==
    /\ pc[w] = "rpc"
    /\ Executed(w, rpc[w])
    /\ full \/ faults < MaxFaults
    /\ LET version == rpc[w].gas + 1
           mutated == TrackMutated(objects[w], MutatedBy(w, full), version)
       IN /\ gas_coin' = [gas_coin EXCEPT ![w] = version]
          /\ objects' = [objects EXCEPT ![w] = TrackCreated(mutated, done[w].base, CreatedBy(w, full), version)]
          /\ result' = [result EXCEPT ![w] =
                 [ok |-> TRUE, created |-> CreatedBy(w, full),
                  updated |-> Cardinality({i \in 1..Len(objects[w]) : objects[w][i].id \in MutatedBy(w, full)})]]
    /\ pc' = [pc EXCEPT ![w] = "count"]
    /\ faults' = IF full THEN faults ELSE faults + 1
    /\ UNCHANGED <<running, expired, memory_pressure, permits, stats, report, nodeVars, pressure_level,
                   rpc, consecutive_failures, attempts, lateCreates>>

\* Mutants of RpcError: the gas coin is advanced as if the call had succeeded; the
\* objects are read back from the chain; the error is taken for a success.
RpcErrorAdvancesGas(w) ==
    /\ pc[w] = "rpc"
    /\ result' = [result EXCEPT ![w] = Failure]
    /\ pc' = [pc EXCEPT ![w] = "count"]
    /\ gas_coin' = [gas_coin EXCEPT ![w] = @ + 1]
    /\ UNCHANGED <<running, expired, memory_pressure, permits, stats, report, pressure_level,
                   objects, rpc, consecutive_failures, attempts, lateCreates>>

RpcErrorRefreshes(w) ==
    /\ pc[w] = "rpc"
    /\ result' = [result EXCEPT ![w] = Failure]
    /\ pc' = [pc EXCEPT ![w] = "count"]
    /\ objects' = [objects EXCEPT ![w] = [i \in 1..Len(@) |-> [id |-> @[i].id, version |-> chain[w].obj[@[i].id]]]]
    /\ UNCHANGED <<running, expired, memory_pressure, permits, stats, report, pressure_level,
                   gas_coin, rpc, consecutive_failures, attempts, lateCreates>>

RpcErrorIsSuccess(w) ==
    /\ pc[w] = "rpc"
    /\ result' = [result EXCEPT ![w] = [ok |-> TRUE, created |-> rpc[w].create, updated |-> 0]]
    /\ pc' = [pc EXCEPT ![w] = "count"]
    /\ UNCHANGED <<running, expired, memory_pressure, permits, stats, report, pressure_level,
                   gas_coin, objects, rpc, consecutive_failures, attempts, lateCreates>>

\* The `?' after the await: WorkerState is left as it was.
RpcError(w) ==
    /\ pc[w] = "rpc"
    /\ result' = [result EXCEPT ![w] = Failure]
    /\ pc' = [pc EXCEPT ![w] = "count"]
    /\ UNCHANGED <<running, expired, memory_pressure, permits, stats, report, pressure_level,
                   gas_coin, objects, rpc, consecutive_failures, attempts, lateCreates>>

\* The node refuses the transaction: stale references, or overload.
RpcRefused(w) ==
    /\ RpcError(w)
    /\ ~Executed(w, rpc[w])
    /\ Refuse(w, rpc[w])
    /\ UNCHANGED faults

\* The answer is lost or the client times out; the transaction may have been
\* executed, or be executed later.
RpcLost(w) ==
    /\ RpcError(w)
    /\ faults < MaxFaults
    /\ faults' = faults + 1
    /\ UNCHANGED nodeVars

\* With --use-blobs the calls take LargeBlobs, and the seed objects are MicroCounters.
TypesMatch(tx) == UseBlobs => \A r \in tx.inputs : r.id > SeedObjects

\* The node executes one of w's transactions; a Move abort (a wrong argument
\* type, or a gas budget that runs out) still consumes gas and inputs.
NodeExecute(w) ==
    \E tx \in net[w], ok \in BOOLEAN :
        /\ Execute(w, tx, ok)
        /\ ok => TypesMatch(tx)
        /\ IF ok \/ ~TypesMatch(tx) THEN UNCHANGED faults
           ELSE faults < MaxFaults /\ faults' = faults + 1
        /\ UNCHANGED <<workerVars, running, expired, memory_pressure, permits, stats, report>>
-----------------------------------------------------------------------------
(* Statistics *)

\* Mutant of CountSubmitted: only answered transactions count as submitted.
CountSubmittedAnswered(w) ==
    /\ pc[w] = "count"
    /\ stats' = IF result[w].ok THEN [stats EXCEPT !.tx_submitted = @ + 1] ELSE stats
    /\ pc' = [pc EXCEPT ![w] = "match"]
    /\ UNCHANGED <<running, expired, memory_pressure, permits, report, faults, nodeVars, pressure_level,
                   gas_coin, objects, rpc, result, consecutive_failures, attempts, lateCreates>>

\* tx_submitted is counted when the call has returned, whatever it returned.
CountSubmitted(w) ==
    /\ pc[w] = "count"
    /\ stats' = [stats EXCEPT !.tx_submitted = @ + 1]
    /\ pc' = [pc EXCEPT ![w] = "match"]
    /\ UNCHANGED <<running, expired, memory_pressure, permits, report, faults, nodeVars, pressure_level,
                   gas_coin, objects, rpc, result, consecutive_failures, attempts, lateCreates>>

\* `match result': the emergency branch does not count failures in a row.
MatchResult(w) ==
    /\ pc[w] = "match"
    /\ stats' = IF result[w].ok
                THEN [stats EXCEPT !.tx_success = @ + 1,
                                   !.objects_created = @ + result[w].created,
                                   !.objects_updated = @ + result[w].updated]
                ELSE [stats EXCEPT !.tx_failed = @ + 1]
    /\ consecutive_failures' = [consecutive_failures EXCEPT ![w] =
           IF result[w].ok THEN 0
           ELSE IF pressure_level[w] = MEM_PRESSURE_EMERGENCY THEN @
           ELSE Smaller(@ + 1, MaxFailures)]
    /\ pc' = [pc EXCEPT ![w] = "sleep"]
    /\ UNCHANGED <<running, expired, memory_pressure, permits, report, faults, nodeVars, pressure_level,
                   gas_coin, objects, rpc, result, attempts, lateCreates>>

\* Mutants of ReleasePermit: the permit is forgotten after a failure, or returned
\* a second time by hand.
ReleasePermitForgotten(w) ==
    /\ pc[w] = "sleep"
    /\ permits' = IF result[w].ok THEN permits + 1 ELSE permits
    /\ pc' = [pc EXCEPT ![w] = "head"]
    /\ UNCHANGED <<running, expired, memory_pressure, stats, report, faults, nodeVars, pressure_level,
                   gas_coin, objects, rpc, result, consecutive_failures, attempts, lateCreates>>

\* After the backoff and the rate-limit sleep the permit is dropped.
ReleasePermit(w) ==
    /\ pc[w] = "sleep"
    /\ permits' = permits + 1
    /\ pc' = [pc EXCEPT ![w] = "head"]
    /\ UNCHANGED <<running, expired, memory_pressure, stats, report, faults, nodeVars, pressure_level,
                   gas_coin, objects, rpc, result, consecutive_failures, attempts, lateCreates>>

\* The reporter's loop: test `running', sleep, then load the counters one by one.
ReportStep(from, to) ==
    /\ report.next = from
    /\ report' = [report EXCEPT
           !.next = to,
           !.lines = IF from = "failed" THEN @ + 1 ELSE @,
           !.submitted = IF from = "submitted" THEN stats.tx_submitted ELSE @,
           !.success = IF from = "success" THEN stats.tx_success ELSE @,
           !.failed = IF from = "failed" THEN stats.tx_failed ELSE @]
    /\ UNCHANGED <<workerVars, nodeVars, running, expired, memory_pressure, permits, stats, faults>>

\* Mutant of Reporter: the submissions are loaded last.
ReporterSubmittedLast ==
    \/ running /\ report.lines < MaxReports /\ ReportStep("check", "success")
    \/ ReportStep("success", "failed")
    \/ ReportStep("failed", "submitted")
    \/ ReportStep("submitted", "check")

Reporter ==
    \/ running /\ report.lines < MaxReports /\ ReportStep("check", "submitted")
    \/ ReportStep("submitted", "success")
    \/ ReportStep("success", "failed")
    \/ ReportStep("failed", "check")
-----------------------------------------------------------------------------
(* main *)

DeadlinePasses ==
    /\ ~expired
    /\ expired' = TRUE
    /\ UNCHANGED <<workerVars, nodeVars, running, memory_pressure, permits, stats, report, faults>>

\* All handles have been awaited: stop the reporter and the monitor.
JoinWorkers ==
    /\ running
    /\ \A w \in Worker : pc[w] = "done"
    /\ running' = FALSE
    /\ UNCHANGED <<workerVars, nodeVars, expired, memory_pressure, permits, stats, report, faults>>

\* The program has ended.
Terminated == ~running /\ UNCHANGED vars

WorkerStep(w) ==
    \/ LoopExit(w) \/ LoopHead(w) \/ EmergencyGate(w) \/ AcquirePermit(w)
    \/ SendCreate(w) \/ SendUpdate(w) \/ UpdateNothing(w)
    \/ CountSubmitted(w) \/ MatchResult(w) \/ ReleasePermit(w)

RpcReturn(w) ==
    \/ \E full \in BOOLEAN : RpcReply(w, full)
    \/ RpcRefused(w)
    \/ RpcLost(w)

Next ==
    \/ \E w \in Worker : WorkerStep(w) \/ RpcReturn(w) \/ NodeExecute(w)
    \/ MemoryMonitor
    \/ Reporter
    \/ DeadlinePasses
    \/ JoinWorkers
    \/ Terminated

Spec == Init /\ [][Next]_vars

\* Time passes; the executor polls every ready task; the semaphore serves its
\* waiters in order (strong fairness of the acquire); every call returns.
Fairness ==
    /\ WF_vars(DeadlinePasses)
    /\ WF_vars(JoinWorkers)
    /\ \A w \in Worker : WF_vars(WorkerStep(w)) /\ SF_vars(AcquirePermit(w)) /\ WF_vars(RpcReturn(w))

FairSpec == Spec /\ Fairness
-----------------------------------------------------------------------------
(* Properties *)

\* Every permit is free or held by exactly one worker between its acquire and
\* the end of its loop body: no path through run_worker leaks or duplicates one.
PermitsConserved == permits + Cardinality({w \in Worker : pc[w] \in Holding}) = MaxInflight

\* A worker's gas coin reference is the current one or the one just before it:
\* run_worker never falls further behind the chain, however many answers it loses.
GasAtMostOneBehind == \A w \in Worker : chain[w].gas \in {gas_coin[w], gas_coin[w] + 1}

\* Every tracked reference names an object that exists, at a version it has or
\* had, and no object is tracked twice (a batch naming one object twice would be
\* an invalid transaction), also when a lost create is answered on a second send.
TrackedGenuine ==
    \A w \in Worker : \A i \in 1..Len(objects[w]) :
        /\ objects[w][i].id \in 1..Len(chain[w].obj)
        /\ objects[w][i].version <= chain[w].obj[objects[w][i].id]
        /\ \A j \in 1..Len(objects[w]) : objects[w][i].id = objects[w][j].id => i = j

\* The effects w has yet to see: its gas coin reference is behind the chain.
Unseen(w) == gas_coin[w] < chain[w].gas

\* As long as no answer was lost or incomplete, only the objects of the
\* transaction a worker is waiting for can be out of date in its list.
CoherentUntilFault ==
    faults = 0 => \A w \in Worker :
        /\ Unseen(w) => pc[w] = "rpc" /\ Executed(w, rpc[w])
        /\ \A i \in 1..Len(objects[w]) :
               \/ objects[w][i].version = chain[w].obj[objects[w][i].id]
               \/ Unseen(w) /\ objects[w][i].id \in Ids(rpc[w].inputs)

\* A submission is counted before its outcome and each outcome once, so the
\* counters differ by the workers between the two and agree in the final report.
StatsAccounted ==
    stats.tx_submitted = stats.tx_success + stats.tx_failed
                         + Cardinality({w \in Worker : pc[w] = "match"})

\* A success that its worker has seen and the counters do not show yet.
Uncounted(w) == pc[w] \in {"count", "match"} /\ result[w].ok

\* The counters never claim more than the chain holds: every success counted or about
\* to be counted is an execution of its own, and every object counted was created,
\* although the same transaction can be sent, and answered, more than once.
CountersOnChain ==
    /\ stats.tx_success <= SumFunction([w \in Worker |->
           chain[w].gas - 1 - (IF Uncounted(w) THEN 1 ELSE 0)])
    /\ stats.objects_created <= SumFunction([w \in Worker |->
           Len(chain[w].obj) - SeedObjects - (IF Uncounted(w) THEN result[w].created ELSE 0)])

\* A line of the reporter, whose three loads other tasks run between, leaves at
\* most one submission per worker without an outcome.
ReportLag ==
    report.next = "check" =>
        report.submitted <= report.success + report.failed + Cardinality(Worker)

\* The list never outgrows MAX_TRACKED_OBJECTS_PER_WORKER.
TrackedCapped == \A w \in Worker : Len(objects[w]) <= MaxTracked

\* The level is read once per round, so creates go on after the monitor stores
\* EMERGENCY: at most one for each worker until the level changes again.
OneLateCreate == \A w \in Worker : lateCreates[w] <= 1

\* While the effects of a worker's last transaction are unseen, none of its
\* transactions executes, however often it sends: a lost answer stops a worker
\* until it happens to send the very transaction whose answer was lost.
UnseenBlocksExecution == [][\A w \in Worker : Unseen(w) => chain'[w] = chain[w]]_vars

\* Tracked objects of w whose reference is out of date and is not an input of
\* the transaction whose effects are unseen.
Dead(w) ==
    {id \in Ids({objects[w][i] : i \in 1..Len(objects[w])}) :
        /\ ~(Unseen(w) /\ id \in Ids(done[w].tx.inputs))
        /\ \A i \in 1..Len(objects[w]) :
               objects[w][i].id = id => objects[w][i].version < chain[w].obj[id]}

\* A dead reference is never repaired, only dropped by memory pressure: nothing
\* in run_worker reads versions back from the chain.
DeadRefsStayDead ==
    [][\A w \in Worker : \A id \in Dead(w) :
           \/ id \in Dead(w)'
           \/ Len(objects'[w]) < Len(objects[w])]_vars

\* A worker that tracks an object always tracks one: truncation under memory
\* pressure never empties a list, so no worker is left waiting for a create
\* that the emergency level forbids.
NeverEmptied == [][\A w \in Worker : objects[w] # <<>> => objects'[w] # <<>>]_vars

\* After the deadline every worker stops, with every permit back, and main goes on.
Termination == <>(~running /\ permits = MaxInflight)

\* A worker waiting for a permit gets one, although others sleep out their
\* backoff with theirs.
PermitGranted == \A w \in Worker : pc[w] = "acquire" ~> pc[w] = "execute"
-----------------------------------------------------------------------------
(* What the documentation of the options says and the code does not do *)

\* "--max-inflight: Maximum concurrent in-flight transactions".
InflightBounded == Cardinality(UNION {{w} \X net[w] : w \in Worker}) <= MaxInflight
=============================================================================
