----------------------------- MODULE LoadSetup -----------------------------
(***************************************************************************)
(* Runs of the Sui load generator (fdp-sui/src/main.rs) around the         *)
(* measured phase: FRESH setup (faucet in chunks, seed objects in          *)
(* parallel), LOAD setup (saved keys, faucet, refresh of the versions) and *)
(* the save at the end.  A run can crash at any point; the ledger, the     *)
(* transactions still under way, the payouts the faucet still owes and the *)
(* file outlive it.  The ledger, the full node and the faucet are external *)
(* and read off the calls main.rs makes.                                   *)
(***************************************************************************)
EXTENDS Naturals, Sequences, FiniteSetsExt, Functions

CONSTANTS
    Workers,        \* --workers
    SeedObjects,    \* --seed-objects
    SeedBatch,      \* objects per seed transaction (100)
    FaucetChunk,    \* workers funded in parallel (8)
    Posts,          \* faucet requests per worker (3)
    Queries,        \* coin queries per worker (5)
    MaxTracked,     \* MAX_TRACKED_OBJECTS_PER_WORKER (5000)
    MaxFresh,       \* bound: FRESH runs
    MaxStarts,      \* bound: runs
    MaxWork,        \* bound: transactions of the measured phases
    MaxFaults,      \* bound: executions aborted, answers without object changes
    MaxChains       \* bound: ledgers started on an empty file system

ASSUME CountAssumption ==
    /\ Workers \in Nat \ {0} /\ SeedObjects \in Nat /\ MaxTracked \in Nat
    /\ SeedBatch \in Nat \ {0} /\ FaucetChunk \in Nat \ {0}
    /\ Posts \in Nat \ {0} /\ Queries \in Nat \ {0} /\ MaxFresh \in Nat

Worker == 1..Workers
Key == 1..MaxFresh      \* a FRESH run generates one key pair per worker

VARIABLES
    \* what outlives a run
    coins,      \* coins[k][w]: gas coins of the address, with version and transactions paid
    owned,      \* owned[k][w]: the address's objects, identity -> version
    net,        \* net[k][w]: transactions sent and not executed
    owed,       \* owed[k][w]: payouts the faucet has accepted and not made
    done,       \* done[k][w]: the last executed transaction and the identities it created
    nextId,     \* the next object identity
    file,       \* the saved state: "none", "torn" or "saved"
    \* the current run
    main,       \* main: its stage, key pairs, --load-objects, faucet chunk and refresh position
    ws,         \* ws[w]: WorkerState, and where w's part of the setup is
    \* bookkeeping
    used,       \* bounds: FRESH runs, runs, transactions, faults, ledgers
    unseen      \* history: a transaction executed in this run whose answer it does not get

ledgerVars == <<coins, owned, net, owed, done, nextId>>
vars == <<ledgerVars, file, main, ws, used, unseen>>

Every(x) == [w \in Worker |-> x]
EveryKey(x) == [k \in Key |-> Every(x)]
Smaller(a, b) == IF a <= b THEN a ELSE b

NoCoin == [id |-> 0, version |-> 0]
NoTx == [coin |-> NoCoin, create |-> 0, inputs |-> {}]
NothingDone == [tx |-> NoTx, first |-> 1, count |-> 0, version |-> 0]
NoFile == [kind |-> "none", keys |-> 0, objects |-> Every(<<>>)]
Down == [stage |-> "down", keys |-> 0, load |-> FALSE, chunk |-> 1,
         w |-> 1, pos |-> 1, read |-> <<>>]
NoWorker == [pc |-> "wait", tries |-> 1, remaining |-> 0, rpc |-> NoTx, gas_coin |-> NoCoin,
             objects |-> <<>>]

TrackedObject == [id : Nat \ {0}, version : Nat]
Ref == [id : Nat, version : Nat]
Transaction == [coin : Ref, create : Nat, inputs : SUBSET TrackedObject]
WorkerState == [pc : {"wait", "post", "query", "funded", "failed", "seed", "rpc", "ready"},
                tries : Nat, remaining : 0..SeedObjects, rpc : Transaction, gas_coin : Ref,
                objects : Seq(TrackedObject)]

\* Every variable has its type, and the run has keys exactly while it is up.
TypeOK ==
    /\ nextId \in Nat \ {0}
    /\ coins \in [Key -> [Worker -> Seq([version : Nat, paid : Nat])]]
    /\ DOMAIN owned = Key
    /\ \A k \in Key : DOMAIN owned[k] = Worker
    /\ \A k \in Key, w \in Worker : \E S \in SUBSET (1..(nextId - 1)) : owned[k][w] \in [S -> Nat]
    /\ net \in [Key -> [Worker -> SUBSET Transaction]]
    /\ owed \in [Key -> [Worker -> Nat]]
    /\ done \in [Key -> [Worker -> [tx : Transaction, first : Nat \ {0}, count : Nat, version : Nat]]]
    /\ file \in [kind : {"none", "torn", "saved"}, keys : 0..MaxFresh,
                 objects : [Worker -> Seq(TrackedObject)]]
    /\ main \in [stage : {"down", "faucet", "seed", "refresh", "measure", "saving"},
                 keys : 0..MaxFresh, load : BOOLEAN, chunk : Nat, w : Nat \ {0}, pos : Nat \ {0},
                 read : Seq(TrackedObject)]
    /\ (main.keys = 0) = (main.stage = "down")
    /\ ws \in [Worker -> WorkerState]
    /\ used \in [fresh : 0..MaxFresh, starts : Nat, work : Nat, faults : Nat, chains : Nat]
    /\ unseen \in BOOLEAN

Init ==
    /\ coins = EveryKey(<<>>) /\ owned = EveryKey(<<>>) /\ net = EveryKey({})
    /\ owed = EveryKey(0) /\ done = EveryKey(NothingDone)
    /\ nextId = 1 /\ file = NoFile
    /\ main = Down /\ ws = Every(NoWorker)
    /\ used = [fresh |-> 0, starts |-> 0, work |-> 0, faults |-> 0, chains |-> 1]
    /\ unseen = FALSE
-----------------------------------------------------------------------------
(* The ledger, the faucet and the node *)

\* The sui node is started on a new file system (common/env.sh: prepare_fs),
\* with no coin and no object; the saved file is elsewhere and stays.
NewChain ==
    /\ main.stage = "down" /\ used.chains < MaxChains
    /\ used' = [used EXCEPT !.chains = @ + 1]
    /\ coins' = EveryKey(<<>>) /\ owned' = EveryKey(<<>>) /\ net' = EveryKey({})
    /\ owed' = EveryKey(0) /\ done' = EveryKey(NothingDone)
    /\ UNCHANGED <<nextId, file, main, ws, unseen>>

FaucetPays(k, w) ==
    /\ owed[k][w] > 0
    /\ owed' = [owed EXCEPT ![k][w] = @ - 1]
    /\ coins' = [coins EXCEPT ![k][w] = Append(@, [version |-> 1, paid |-> 0])]
    /\ UNCHANGED <<owned, net, done, nextId, file, main, ws, used, unseen>>

\* All references are the current ones.
Current(k, w, tx) ==
    /\ tx.coin.id \in DOMAIN coins[k][w]
    /\ tx.coin.version = coins[k][w][tx.coin.id].version
    /\ \A r \in tx.inputs : r.id \in DOMAIN owned[k][w] /\ r.version = owned[k][w][r.id]

\* The version an execution gives to everything it touches.
NewVersion(tx) == 1 + Max({tx.coin.version} \cup {r.version : r \in tx.inputs})

\* Executes `tx': the gas coin pays and moves on whether or not the Move calls
\* succeed; objects appear only when they do.  Other transactions that name the
\* same coin version are dead from here on.
Apply(k, w, tx, ok) ==
    LET v == NewVersion(tx)
        n == IF ok THEN tx.create ELSE 0
        new == nextId..(nextId + n - 1)
        touched == new \cup {r.id : r \in tx.inputs}
        old == owned[k][w]
    IN /\ Current(k, w, tx)
       /\ coins' = [coins EXCEPT ![k][w][tx.coin.id] = [version |-> v, paid |-> @.paid + 1]]
       /\ owned' = [owned EXCEPT ![k][w] = [i \in DOMAIN old \cup new |->
                                               IF i \in touched THEN v ELSE old[i]]]
       /\ net' = [net EXCEPT ![k][w] = {t \in @ : t.coin # tx.coin}]
       /\ done' = [done EXCEPT ![k][w] = [tx |-> tx, first |-> nextId, count |-> n, version |-> v]]
       /\ nextId' = nextId + n
       /\ UNCHANGED owed

\* A transaction under way executes, perhaps long after its sender is gone.
NodeExecute(k, w) ==
    \E tx \in net[k][w], ok \in BOOLEAN :
        /\ Apply(k, w, tx, ok)
        /\ ok \/ used.faults < MaxFaults
        /\ used' = [used EXCEPT !.faults = @ + IF ok THEN 0 ELSE 1]
        /\ unseen' = (unseen \/ (k = main.keys /\ tx # ws[w].rpc))
        /\ UNCHANGED <<file, main, ws>>
-----------------------------------------------------------------------------
(* Start and end of a run *)

\* The workers funded together: a chunk in FRESH mode, one by one in LOAD mode.
Chunk(n, load) == {w \in Worker : (w - 1) \div (IF load THEN 1 ELSE FaucetChunk) = n - 1}

\* Every `?' of main, its end and every crash: the run's own state is gone.
Quit == main' = Down /\ ws' = Every(NoWorker) /\ unseen' = FALSE /\ UNCHANGED <<ledgerVars, used>>

Crash == main.stage # "down" /\ Quit /\ UNCHANGED file

\* A run starts on keys `k' with the objects `list'.
Start(load, k, list) ==
    /\ main.stage = "down" /\ used.starts < MaxStarts
    /\ main' = [Down EXCEPT !.stage = "faucet", !.keys = k, !.load = load]
    /\ ws' = [w \in Worker |-> [NoWorker EXCEPT !.pc = IF w \in Chunk(1, load) THEN "post" ELSE "wait",
                                                !.objects = list[w]]]
    /\ UNCHANGED <<ledgerVars, file, unseen>>

StartFresh ==
    /\ used.fresh < MaxFresh
    /\ used' = [used EXCEPT !.starts = @ + 1, !.fresh = @ + 1]
    /\ Start(FALSE, used.fresh + 1, Every(<<>>))

\* A missing or torn file ends the run before anything has changed.
StartLoad ==
    /\ file.kind = "saved"
    /\ used' = [used EXCEPT !.starts = @ + 1]
    /\ Start(TRUE, file.keys, file.objects)
-----------------------------------------------------------------------------
(* request_gas_from_faucet *)

\* A request is answered with success, or it fails: the faucet may pay all the same.
FaucetPost(w) ==
    \E ok \in BOOLEAN, pays \in BOOLEAN :
        /\ ws[w].pc = "post" /\ (ok => pays)
        /\ owed' = [owed EXCEPT ![main.keys][w] = @ + IF pays THEN 1 ELSE 0]
        /\ ws' = [ws EXCEPT ![w] = IF ok \/ @.tries = Posts
                                   THEN [@ EXCEPT !.pc = "query", !.tries = 1]
                                   ELSE [@ EXCEPT !.tries = ws[w].tries + 1]]
        /\ UNCHANGED <<coins, owned, net, done, nextId, file, main, used, unseen>>

\* max_by_key(balance): among the richest any, the order of the listing is the node's.
Richest(cs) == {i \in DOMAIN cs : \A j \in DOMAIN cs : cs[i].paid <= cs[j].paid}

\* Mutant: the queries are not counted.
GetCoinsForever(w) ==
    LET cs == coins[main.keys][w]
    IN /\ ws[w].pc = "query"
       /\ IF cs = <<>> THEN UNCHANGED ws
          ELSE \E i \in Richest(cs) :
                   ws' = [ws EXCEPT ![w].gas_coin = [id |-> i, version |-> cs[i].version],
                                    ![w].pc = "funded"]
       /\ UNCHANGED <<ledgerVars, file, main, used, unseen>>

\* One coin query: a coin, none yet, none after the last query, or an error.
GetCoins(w) ==
    LET cs == coins[main.keys][w]
    IN /\ ws[w].pc = "query"
       /\ \/ \E i \in Richest(cs) :
                ws' = [ws EXCEPT ![w].gas_coin = [id |-> i, version |-> cs[i].version],
                                 ![w].pc = "funded", ![w].tries = 1]
          \/ cs = <<>> /\ ws[w].tries < Queries /\ ws' = [ws EXCEPT ![w].tries = @ + 1]
          \/ cs = <<>> /\ ws[w].tries = Queries /\ ws' = [ws EXCEPT ![w].pc = "failed"]
          \/ ws' = [ws EXCEPT ![w].pc = "failed"]
       /\ UNCHANGED <<ledgerVars, file, main, used, unseen>>

\* Mutant: a worker without gas does not end the run.
EndChunkTolerant ==
    /\ main.stage = "faucet"
    /\ \A w \in Chunk(main.chunk, main.load) : ws[w].pc \in {"funded", "failed"}
    /\ main' = [main EXCEPT !.stage = IF main.load THEN "refresh" ELSE "seed"]
    /\ ws' = [w \in Worker |-> [ws[w] EXCEPT !.pc = "seed", !.remaining = 0]]
    /\ UNCHANGED <<ledgerVars, used, unseen, file>>

\* The results of a chunk are looked at when all of them are in.
EndChunk ==
    /\ main.stage = "faucet"
    /\ \A w \in Chunk(main.chunk, main.load) : ws[w].pc \in {"funded", "failed"}
    /\ \/ (\E w \in Worker : ws[w].pc = "failed") /\ Quit
       \/ /\ \A w \in Worker : ws[w].pc = "funded"
          /\ main' = [main EXCEPT !.stage = IF main.load THEN "refresh" ELSE "seed"]
          /\ ws' = [w \in Worker |-> [ws[w] EXCEPT !.pc = "seed", !.remaining =
                                          IF main.load THEN 0 ELSE SeedObjects]]
          /\ UNCHANGED <<ledgerVars, used, unseen>>
       \/ /\ \A w \in Worker : ws[w].pc # "failed"
          /\ \E w \in Worker : ws[w].pc = "wait"
          /\ main' = [main EXCEPT !.chunk = @ + 1]
          /\ ws' = [w \in Worker |-> IF w \in Chunk(main.chunk + 1, main.load)
                                     THEN [ws[w] EXCEPT !.pc = "post"] ELSE ws[w]]
          /\ UNCHANGED <<ledgerVars, used, unseen>>
    /\ UNCHANGED file
-----------------------------------------------------------------------------
(* create_seed_objects, one task per worker *)

SeedSend(w) ==
    LET batch == Smaller(ws[w].remaining, SeedBatch)
        tx == [coin |-> ws[w].gas_coin, create |-> batch, inputs |-> {}]
    IN /\ main.stage = "seed" /\ ws[w].pc = "seed" /\ batch > 0
       /\ ws' = [ws EXCEPT ![w].remaining = @ - batch, ![w].rpc = tx, ![w].pc = "rpc"]
       /\ net' = [net EXCEPT ![main.keys][w] = @ \cup {tx}]
       /\ UNCHANGED <<coins, owned, owed, done, nextId, file, main, used, unseen>>

SeedDone(w) ==
    /\ main.stage = "seed" /\ ws[w].pc = "seed" /\ ws[w].remaining = 0
    /\ ws' = [ws EXCEPT ![w].pc = "ready"]
    /\ UNCHANGED <<ledgerVars, file, main, used, unseen>>

\* The Created entries of an answer, as far as the list has room for them.
Track(list, d) ==
    LET room == MaxTracked - Smaller(Len(list), MaxTracked)
    IN list \o [i \in 1..Smaller(d.count, room) |-> [id |-> d.first + i - 1, version |-> d.version]]

\* The effects arrive, perhaps without object changes.  Their status is not looked at.
SeedReply(w) ==
    \E changes \in BOOLEAN :
        LET d == done[main.keys][w]
            list == ws[w].objects
        IN /\ ws[w].pc = "rpc" /\ d.tx = ws[w].rpc
           /\ changes \/ used.faults < MaxFaults
           /\ ws' = [ws EXCEPT ![w].gas_coin.version = d.version, ![w].pc = "seed", ![w].rpc = NoTx,
                               ![w].objects = IF changes THEN Track(list, d) ELSE list]
           /\ used' = [used EXCEPT !.faults = @ + IF changes THEN 0 ELSE 1]
           /\ UNCHANGED <<ledgerVars, file, main, unseen>>

\* The call fails: refused, or timed out and possibly executed now or later.
SeedError(w) ==
    /\ ws[w].pc = "rpc" /\ ws' = [ws EXCEPT ![w].pc = "failed"]
    /\ UNCHANGED <<ledgerVars, file, main, used, unseen>>

\* Mutant: the results of the seed tasks are not looked at.
EndSeedTolerant ==
    /\ main.stage = "seed" /\ \A w \in Worker : ws[w].pc \in {"ready", "failed"}
    /\ main' = [main EXCEPT !.stage = "measure"]
    /\ UNCHANGED <<ledgerVars, ws, used, unseen, file>>

\* join_all waits for every task; then the first error ends main.
EndSeed ==
    /\ main.stage = "seed" /\ \A w \in Worker : ws[w].pc \in {"ready", "failed"}
    /\ \/ (\E w \in Worker : ws[w].pc = "failed") /\ Quit
       \/ /\ \A w \in Worker : ws[w].pc = "ready"
          /\ main' = [main EXCEPT !.stage = "measure"]
          /\ UNCHANGED <<ledgerVars, ws, used, unseen>>
    /\ UNCHANGED file
-----------------------------------------------------------------------------
(* refresh_worker_objects, one worker after the other *)

\* Mutants: an object that is gone stays in the list; the saved version is kept.
FetchedAll(w, r) == <<r>>
FetchedStale(w, r) == IF r.id \in DOMAIN owned[main.keys][w] THEN <<r>> ELSE <<>>

\* The node's answer for one object: its version now, if it exists.
Fetched(w, r) ==
    LET mine == owned[main.keys][w]
    IN IF r.id \in DOMAIN mine THEN <<[id |-> r.id, version |-> mine[r.id]]>> ELSE <<>>

\* The node looks the objects of a query up one after the other.
RefreshRead ==
    LET list == ws[main.w].objects
    IN /\ main.stage = "refresh" /\ main.pos <= Len(list)
       /\ main' = [main EXCEPT !.pos = @ + 1, !.read = @ \o Fetched(main.w, list[main.pos])]
       /\ UNCHANGED <<ledgerVars, file, ws, used, unseen>>

\* After the last query the list is replaced.
RefreshDone ==
    /\ main.stage = "refresh" /\ main.pos > Len(ws[main.w].objects)
    /\ ws' = [ws EXCEPT ![main.w].objects = main.read]
    /\ main' = [main EXCEPT !.stage = IF main.w = Workers THEN "measure" ELSE "refresh",
                            !.w = @ + 1, !.pos = 1, !.read = <<>>]
    /\ UNCHANGED <<ledgerVars, file, used, unseen>>

RefreshError == main.stage = "refresh" /\ ws[main.w].objects # <<>> /\ Quit /\ UNCHANGED file
-----------------------------------------------------------------------------
(* The measured phase, in outline (LoadGen has the details), and the save *)

Updated(list, inputs, v) ==
    [i \in DOMAIN list |-> IF list[i] \in inputs THEN [list[i] EXCEPT !.version = v] ELSE list[i]]

\* A worker's transaction executes and is answered, or its call fails and it stays under way.
Work(w) ==
    \E n \in 0..1 : \E inputs \in {{}} \cup {{r} : r \in Range(ws[w].objects)} :
        LET tx == [coin |-> ws[w].gas_coin, create |-> n, inputs |-> inputs]
            v == NewVersion(tx)
        IN /\ main.stage = "measure" /\ used.work < MaxWork
           /\ (n = 0) # (inputs = {})
           /\ used' = [used EXCEPT !.work = @ + 1]
           /\ \/ /\ Apply(main.keys, w, tx, TRUE)
                 /\ ws' = [ws EXCEPT ![w].gas_coin.version = v, ![w].objects =
                               Track(Updated(@, inputs, v), done'[main.keys][w])]
              \/ /\ net' = [net EXCEPT ![main.keys][w] = @ \cup {tx}]
                 /\ UNCHANGED <<coins, owned, owed, done, nextId, ws>>
           /\ UNCHANGED <<file, main, unseen>>

\* File::create: the file is empty until it has been written.
SaveCreate ==
    /\ main.stage = "measure" /\ main' = [main EXCEPT !.stage = "saving"]
    /\ file' = [NoFile EXCEPT !.kind = "torn"]
    /\ UNCHANGED <<ledgerVars, ws, used, unseen>>

\* write_all: the workers' key pairs and objects, not their gas coins.
SaveWrite ==
    /\ main.stage = "saving"
    /\ file' = [kind |-> "saved", keys |-> main.keys, objects |-> [w \in Worker |-> ws[w].objects]]
    /\ Quit

\* The run ends without --save-objects.
EndRun == main.stage = "measure" /\ Quit /\ UNCHANGED file
-----------------------------------------------------------------------------
Ledger == NewChain \/ (\E k \in Key, w \in Worker : FaucetPays(k, w) \/ NodeExecute(k, w))
WorkerTask(w) == FaucetPost(w) \/ GetCoins(w) \/ SeedSend(w) \/ SeedDone(w) \/ SeedReply(w) \/ SeedError(w)
Setup == (\E w \in Worker : WorkerTask(w)) \/ EndChunk \/ EndSeed \/ RefreshRead \/ RefreshDone \/ RefreshError
Measured == (\E w \in Worker : Work(w)) \/ SaveCreate \/ SaveWrite \/ EndRun

Next == StartFresh \/ StartLoad \/ Setup \/ Measured \/ Crash \/ Ledger

Spec == Init /\ [][Next]_vars

\* Fairness for the setup alone: the runtime runs every task that can go on, and
\* every call to the node returns, with an answer or an error (SuiClientBuilder's
\* request timeout).  The faucet client has no timeout: its answer may never come.
NodeTask(w) == GetCoins(w) \/ SeedSend(w) \/ SeedDone(w) \/ SeedReply(w) \/ SeedError(w)
FairSpec == Spec /\ WF_vars(EndChunk) /\ WF_vars(EndSeed) /\ WF_vars(RefreshRead \/ RefreshDone)
                 /\ \A w \in Worker : WF_vars(NodeTask(w))
-----------------------------------------------------------------------------
(* Properties *)

Measuring == main.stage \in {"measure", "saving"}

\* Whatever the faucet, the node and earlier runs did, a run that measures has
\* for each worker a gas coin the worker's own address holds and a list of
\* distinct objects of that address, none at a version the chain has not reached
\* (main.rs:382 "same keypairs = same ownership").
RefsOwned ==
    Measuring => \A w \in Worker :
        LET mine == owned[main.keys][w]
            list == ws[w].objects
        IN /\ ws[w].gas_coin.id \in DOMAIN coins[main.keys][w]
           /\ ws[w].gas_coin.version <= coins[main.keys][w][ws[w].gas_coin.id].version
           /\ \A i \in DOMAIN list : list[i].id \in DOMAIN mine /\ list[i].version <= mine[list[i].id]
           /\ \A i, j \in DOMAIN list : list[i].id = list[j].id => i = j

\* The references a run measures with are the current ones, until a transaction
\* of its workers executes that it has no answer to: one of an earlier run that
\* arrives after the refresh has read the versions, or one of its own.
CurrentUntilUnseen ==
    Measuring /\ ~unseen => \A w \in Worker :
        /\ ws[w].gas_coin.version = coins[main.keys][w][ws[w].gas_coin.id].version
        /\ \A r \in Range(ws[w].objects) : r.version = owned[main.keys][w][r.id]

\* A run with fresh keys measures only when every worker has all of its seed
\* objects (up to the cap), unless an answer was incomplete or an execution
\* aborted: one failing batch of one worker ends the run for all.
SeedsComplete ==
    (Measuring /\ ~main.load /\ used.faults = 0) =>
        \A w \in Worker : Len(ws[w].objects) >= Smaller(SeedObjects, MaxTracked)

\* The runs implement the abstract specification: keys, gas and objects carry
\* over as --save-objects and --load-objects promise, and a file is lost only to
\* a save that was interrupted.
Abstract == INSTANCE Phases WITH
    phase <- CASE main.stage = "down" -> "down" [] main.stage = "measure" -> "measuring"
               [] main.stage = "saving" -> "saving" [] OTHER -> "setup",
    used <- used.fresh,
    identity <- main.keys,
    gas <- IF Measuring THEN {w \in Worker : ws[w].gas_coin.id \in DOMAIN coins[main.keys][w]} ELSE {},
    tracked <- [w \in Worker |-> IF Measuring THEN {r.id : r \in Range(ws[w].objects)} ELSE {}],
    saved <- [identity |-> file.keys,
              tracked |-> [w \in Worker |-> {r.id : r \in Range(file.objects[w])}]]

ImplementsPhases == Abstract!Spec

\* Retries are bounded: a setup ends, measuring or with an error, even if the
\* faucet never pays and the node never shows a coin; the one thing that can keep
\* it for ever is a faucet request that is never answered (request_gas_from_faucet).
SetupEnds ==
    \/ []<>(Measuring \/ main.stage = "down")
    \/ <>[](\E w \in Worker : ws[w].pc = "post")
=============================================================================
