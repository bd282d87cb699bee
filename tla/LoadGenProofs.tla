--------------------------- MODULE LoadGenProofs ---------------------------
(***************************************************************************)
(* Theorems about LoadGen, for every number of workers, list length, batch *)
(* size and bound.  First what its lists and the references a worker       *)
(* keeps, its gas coin and its tracked objects, have in common with the    *)
(* chain they name: the invariants, and that every step preserves them.    *)
(* Then the theorems: those that count workers or add up over them take    *)
(* the library's facts on finite sets.                                     *)
(***************************************************************************)
EXTENDS LoadGen, TLAPS

-----------------------------------------------------------------------------
(* What the list operators return *)

\* A function on 1..n into S is a sequence over S.
LEMMA IntervalIsSeq ==
    ASSUME NEW S, NEW n \in Nat, NEW f \in [1..n -> S]
    PROVE  f \in Seq(S) /\ Len(f) = n
OBVIOUS

\* The length kept under pressure is at most the length before, and not 0 above the floor.
LEMMA KeepBounds ==
    ASSUME NEW n \in Nat, n > TruncFloor, NEW l \in 1..3
    PROVE  Keep(n, l) \in 1..n
BY FloorAssumption DEF Keep, DropPct

\* Truncation under pressure yields a prefix, which is empty only if the list was.
LEMMA TruncateFacts ==
    ASSUME NEW s \in Seq(TrackedObject), NEW l \in 0..3
    PROVE  /\ Truncate(s, l) \in Seq(TrackedObject)
           /\ Len(Truncate(s, l)) <= Len(s)
           /\ \A i \in 1..Len(Truncate(s, l)) : Truncate(s, l)[i] = s[i]
           /\ s # <<>> => Truncate(s, l) # <<>>
<1>1. CASE ~(l > MEM_PRESSURE_NORMAL /\ Len(s) > TruncFloor)
  BY <1>1 DEF Truncate
<1>2. CASE l > MEM_PRESSURE_NORMAL /\ Len(s) > TruncFloor
  <2>1. l \in 1..3 BY <1>2 DEF MEM_PRESSURE_NORMAL
  <2>2. Keep(Len(s), l) \in 1..Len(s) BY <1>2, <2>1, KeepBounds
  <2>3. Truncate(s, l) = SubSeq(s, 1, Keep(Len(s), l)) BY <1>2, Zenon DEF Truncate
  <2> QED BY <2>2, <2>3
<1> QED BY <1>1, <1>2, Zenon

\* Mutated changes touch versions only.
LEMMA TrackMutatedFacts ==
    ASSUME NEW s \in Seq(TrackedObject), NEW ids, NEW v \in Nat
    PROVE  /\ TrackMutated(s, ids, v) \in Seq(TrackedObject)
           /\ Len(TrackMutated(s, ids, v)) = Len(s)
           /\ \A i \in 1..Len(s) :
                 /\ TrackMutated(s, ids, v)[i].id = s[i].id
                 /\ TrackMutated(s, ids, v)[i].version = IF s[i].id \in ids THEN v ELSE s[i].version
<1>1. \A i \in 1..Len(s) : s[i] \in TrackedObject OBVIOUS
<1>2. TrackMutated(s, ids, v) \in [1..Len(s) -> TrackedObject]
  BY <1>1, Zenon DEF TrackMutated, TrackedObject
<1>3. Len(s) \in Nat OBVIOUS
<1>4. TrackMutated(s, ids, v) \in Seq(TrackedObject) /\ Len(TrackMutated(s, ids, v)) = Len(s)
  BY <1>2, <1>3, IntervalIsSeq, Zenon
<1>5. \A i \in 1..Len(s) :
         /\ TrackMutated(s, ids, v)[i].id = s[i].id
         /\ TrackMutated(s, ids, v)[i].version = IF s[i].id \in ids THEN v ELSE s[i].version
  BY <1>1, Zenon DEF TrackMutated, TrackedObject
<1> QED BY <1>4, <1>5, Zenon

\* Created changes are appended, as many as the cap leaves room for.
LEMMA TrackCreatedFacts ==
    ASSUME NEW s \in Seq(TrackedObject), NEW b \in Nat, NEW n \in Nat, NEW v \in Nat
    PROVE  /\ TrackCreated(s, b, n, v) \in Seq(TrackedObject)
           /\ Len(TrackCreated(s, b, n, v)) \in Len(s)..(Len(s) + n)
           /\ Len(s) <= MaxTracked => Len(TrackCreated(s, b, n, v)) <= MaxTracked
           /\ \A i \in 1..Len(s) : TrackCreated(s, b, n, v)[i] = s[i]
           /\ \A i \in (Len(s) + 1)..Len(TrackCreated(s, b, n, v)) :
                 TrackCreated(s, b, n, v)[i] = [id |-> b + (i - Len(s)), version |-> v]
<1> DEFINE room == IF Len(s) < MaxTracked THEN MaxTracked - Len(s) ELSE 0
           k == Smaller(n, room)
           new == [i \in 1..k |-> [id |-> b + i, version |-> v]]
<1>1. room \in Nat /\ (Len(s) <= MaxTracked => Len(s) + room <= MaxTracked) /\ Len(s) \in Nat
  BY TrackedAssumption
<1>2. k \in Nat /\ k <= n /\ k <= room BY <1>1 DEF Smaller
<1> HIDE DEF room, k
<1>3. new \in [1..k -> TrackedObject] BY <1>2 DEF TrackedObject
<1>4. new \in Seq(TrackedObject) /\ Len(new) = k BY <1>2, <1>3, IntervalIsSeq, Zenon
<1>5. \A i \in 1..k : new[i] = [id |-> b + i, version |-> v] BY Zenon
<1>6. TrackCreated(s, b, n, v) = s \o new BY Zenon DEF TrackCreated, room, k
<1> HIDE DEF new
<1>7. /\ s \o new \in Seq(TrackedObject)
      /\ Len(s \o new) = Len(s) + k
      /\ \A i \in 1..(Len(s) + k) : (s \o new)[i] = IF i <= Len(s) THEN s[i] ELSE new[i - Len(s)]
  <2>1. Len(new) \in Nat BY <1>2, <1>4, Zenon
  <2>2. /\ s \o new \in Seq(TrackedObject)
        /\ Len(s \o new) = Len(s) + Len(new)
        /\ \A i \in 1..(Len(s) + Len(new)) :
              (s \o new)[i] = IF i <= Len(s) THEN s[i] ELSE new[i - Len(s)]
    BY <1>4
  <2> QED BY <2>2, <1>4, Zenon
<1>8. \A i \in (Len(s) + 1)..(Len(s) + k) : (s \o new)[i] = [id |-> b + (i - Len(s)), version |-> v]
  BY <1>1, <1>2, <1>5, <1>7
<1>9. \A i \in 1..Len(s) : (s \o new)[i] = s[i]
  BY <1>1, <1>2, <1>7
<1>10. Len(s \o new) \in Len(s)..(Len(s) + n) /\ (Len(s) <= MaxTracked => Len(s \o new) <= MaxTracked)
  BY <1>1, <1>2, <1>7, TrackedAssumption
<1> HIDE DEF new
<1>11. \A i \in (Len(s) + 1)..Len(s \o new) : (s \o new)[i] = [id |-> b + (i - Len(s)), version |-> v]
  BY <1>7, <1>8, Zenon
<1> QED BY <1>6, <1>7, <1>9, <1>10, <1>11, Zenon

\* An update takes tracked references.
LEMMA WindowFacts ==
    ASSUME NEW s \in Seq(TrackedObject), s # <<>>, NEW start \in Nat
    PROVE  Window(s, start) \subseteq {s[i] : i \in 1..Len(s)}
<1>1. Len(s) \in Nat \ {0} OBVIOUS
<1>2. \A i \in Nat : ((start + i) % Len(s)) + 1 \in 1..Len(s) BY <1>1
<1>3. Smaller(UpdateBatch, Len(s)) \in Nat BY <1>1, BatchAssumption, ModeAssumption, Zenon DEF Smaller, UpdateBatch
<1>4. \A i \in 0..(Smaller(UpdateBatch, Len(s)) - 1) : i \in Nat BY <1>3
<1> QED BY <1>2, <1>4, Zenon DEF Window

\* The first of them is one of the list's.
LEMMA FirstFacts ==
    ASSUME NEW s \in Seq(TrackedObject), NEW start \in 0..(Len(s) - 1)
    PROVE  s[start + 1].id \in Nat
<1>1. Len(s) \in Nat OBVIOUS
<1>2. start + 1 \in 1..Len(s) BY <1>1
<1>3. s[start + 1] \in TrackedObject BY <1>2
<1> QED BY <1>3, Zenon DEF TrackedObject

\* An execution keeps the number of objects or adds the created ones; inputs and
\* created objects have the new version, the others the one they had.
LEMMA ObjectsAfterFacts ==
    ASSUME NodeTypeOK, NEW w \in Worker, NEW tx \in Transaction, NEW ok \in BOOLEAN
    PROVE  /\ ObjectsAfter(w, tx, ok) \in Seq(Nat)
           /\ Len(ObjectsAfter(w, tx, ok)) = Len(chain[w].obj) + IF ok THEN tx.create ELSE 0
           /\ \A i \in 1..Len(ObjectsAfter(w, tx, ok)) :
                 ObjectsAfter(w, tx, ok)[i] =
                     IF i > Len(chain[w].obj) \/ i \in Ids(tx.inputs) THEN tx.gas + 1 ELSE chain[w].obj[i]
<1> DEFINE n == Len(chain[w].obj)
           m == n + IF ok THEN tx.create ELSE 0
<1>1. chain[w].obj \in Seq(Nat) /\ tx.gas \in Nat /\ tx.create \in Nat
  BY Zenon DEF NodeTypeOK, Transaction
<1>2. n \in Nat /\ m \in Nat /\ \A i \in 1..n : chain[w].obj[i] \in Nat
  <2>1. (IF ok THEN tx.create ELSE 0) \in Nat BY <1>1, Zenon
  <2>2. n \in Nat /\ \A i \in 1..n : chain[w].obj[i] \in Nat BY <1>1, SMTT(20)
  <2>3. m \in Nat BY <2>1, <2>2
  <2> QED BY <2>2, <2>3, Zenon
<1> HIDE DEF n, m
<1>3. ObjectsAfter(w, tx, ok) = [i \in 1..m |-> IF i > n \/ i \in Ids(tx.inputs) THEN tx.gas + 1 ELSE chain[w].obj[i]]
  BY Zenon DEF ObjectsAfter, n, m
<1>4. ObjectsAfter(w, tx, ok) \in [1..m -> Nat]
  <2>1. \A i \in 1..m : ~(i > n) => i \in 1..n BY <1>2
  <2>2. \A i \in 1..m : (IF i > n \/ i \in Ids(tx.inputs) THEN tx.gas + 1 ELSE chain[w].obj[i]) \in Nat
    BY <1>1, <1>2, <2>1
  <2> QED BY <1>3, <2>2, Zenon
<1>5. ObjectsAfter(w, tx, ok) \in Seq(Nat) /\ Len(ObjectsAfter(w, tx, ok)) = m
  BY <1>2, <1>4, IntervalIsSeq, Zenon
<1> QED BY <1>3, <1>5, Zenon DEF n, m

-----------------------------------------------------------------------------
(* The gas coin *)

\* A worker's gas coin reference and the transactions that carry it.  An older
\* reference than the worker's is dead, and the effects of the last execution
\* tell the version the chain is at.
GasInv(w) ==
    /\ chain[w].gas \in {gas_coin[w], gas_coin[w] + 1}
    /\ \A tx \in net[w] : tx.gas <= gas_coin[w]
    /\ pc[w] = "rpc" => rpc[w].gas = gas_coin[w]
    /\ done[w].tx.gas + 1 = chain[w].gas

\* Setup leaves every worker with the current version of its coin.
LEMMA GasInit == Init => \A w \in Worker : GasInv(w)
BY DEF Init, NodeInit, GasInv, NoTx

\* What the type invariant says of the references of one worker.
LEMMA WorkerTypes ==
    ASSUME TypeOK, NEW w \in Worker
    PROVE  /\ chain[w].gas \in Nat /\ gas_coin[w] \in Nat /\ rpc[w].gas \in Nat /\ rpc[w].create \in Nat
           /\ \A tx \in net[w] : tx.gas \in Nat
           /\ chain[w].obj \in Seq(Nat) /\ Len(chain[w].obj) \in Nat
           /\ objects[w] \in Seq(TrackedObject) /\ Len(objects[w]) \in Nat
           /\ done[w].tx.gas \in Nat /\ done[w].base \in Nat
<1>1. /\ chain[w] \in [gas : Nat \ {0}, obj : Seq(Nat)] /\ net[w] \in SUBSET Transaction
      /\ done[w] \in Effects /\ gas_coin[w] \in Nat \ {0}
      /\ objects[w] \in Seq(TrackedObject) /\ rpc[w] \in Transaction
  BY Zenon DEF TypeOK, NodeTypeOK, WorkerTypeOK
<1>2. chain[w].gas \in Nat \ {0} /\ chain[w].obj \in Seq(Nat) BY <1>1, Zenon
<1>3. rpc[w].gas \in Nat /\ rpc[w].create \in Nat BY <1>1, Zenon DEF Transaction
<1>4. \A tx \in net[w] : tx.gas \in Nat BY <1>1, Zenon DEF Transaction
<1>5. done[w].tx \in Transaction /\ done[w].base \in Nat BY <1>1, Zenon DEF Effects
<1>6. done[w].tx.gas \in Nat BY <1>5, Zenon DEF Transaction
<1>7. Len(chain[w].obj) \in Nat BY <1>2
<1>8. Len(objects[w]) \in Nat BY <1>1
<1> QED BY <1>1, <1>2, <1>3, <1>4, <1>5, <1>6, <1>7, <1>8, Zenon

\* Who moves which worker: a step of one worker, or of the node for one worker,
\* leaves the references of every other worker alone, and the other steps leave
\* all of them alone.
LEMMA StepOfOne ==
    ASSUME TypeOK, [Next]_vars, NEW w \in Worker
    PROVE  \/ WorkerStep(w) \/ RpcReturn(w) \/ NodeExecute(w)
           \/ /\ chain'[w] = chain[w] /\ net'[w] = net[w] /\ done'[w] = done[w]
              /\ gas_coin'[w] = gas_coin[w] /\ rpc'[w] = rpc[w] /\ pc'[w] = pc[w]
              /\ objects'[w] = objects[w] /\ pressure_level'[w] = pressure_level[w]
<1> USE DEF sharedVars, workerVars, nodeVars
<1> DEFINE Same == /\ chain'[w] = chain[w] /\ net'[w] = net[w] /\ done'[w] = done[w]
                   /\ gas_coin'[w] = gas_coin[w] /\ rpc'[w] = rpc[w] /\ pc'[w] = pc[w]
                   /\ objects'[w] = objects[w] /\ pressure_level'[w] = pressure_level[w]
<1>0. /\ chain \in [Worker -> [gas : Nat \ {0}, obj : Seq(Nat)]]
      /\ net \in [Worker -> SUBSET Transaction]
      /\ done \in [Worker -> Effects]
      /\ pc \in [Worker -> Location]
      /\ pressure_level \in [Worker -> 0..3]
      /\ gas_coin \in [Worker -> Nat \ {0}]
      /\ objects \in [Worker -> Seq(TrackedObject)]
      /\ rpc \in [Worker -> Transaction]
  BY Zenon DEF TypeOK, NodeTypeOK, WorkerTypeOK
<1>1. ASSUME NEW v \in Worker, v # w, LoopExit(v) \/ LoopHead(v) \/ EmergencyGate(v) \/ AcquirePermit(v)
      PROVE  Same
  BY <1>0, <1>1, Zenon DEF LoopExit, LoopHead, EmergencyGate, AcquirePermit
<1>2. ASSUME NEW v \in Worker, v # w, SendCreate(v) \/ SendUpdate(v) \/ UpdateNothing(v)
      PROVE  Same
  BY <1>0, <1>2 DEF SendCreate, SendUpdate, Send, Submit, UpdateNothing
<1>3. ASSUME NEW v \in Worker, v # w, CountSubmitted(v) \/ MatchResult(v) \/ ReleasePermit(v)
      PROVE  Same
  BY <1>0, <1>3, Zenon DEF CountSubmitted, MatchResult, ReleasePermit
<1>4. ASSUME NEW v \in Worker, v # w, NEW full \in BOOLEAN, RpcReply(v, full)
      PROVE  Same
  BY <1>0, <1>4, Zenon DEF RpcReply
<1>5. ASSUME NEW v \in Worker, v # w, RpcRefused(v) \/ RpcLost(v)
      PROVE  Same
  BY <1>0, <1>5, Zenon DEF RpcRefused, RpcLost, RpcError, Refuse
<1>6. ASSUME NEW v \in Worker, v # w, NodeExecute(v)
      PROVE  Same
  BY <1>0, <1>6 DEF NodeExecute, Execute
<1>7. ASSUME MemoryMonitor \/ Reporter \/ DeadlinePasses \/ JoinWorkers \/ UNCHANGED vars
      PROVE  Same
  BY <1>7, Zenon DEF MemoryMonitor, Reporter, ReportStep, DeadlinePasses, JoinWorkers, vars
<1> QED
  BY <1>1, <1>2, <1>3, <1>4, <1>5, <1>6, <1>7, Zenon DEF Next, WorkerStep, RpcReturn, Terminated

\* The ways a step can touch the references of w: not at all, except that the head
\* of the loop may truncate the list; a send; an error; an answer; an execution.
Idle(w) ==
    /\ chain'[w] = chain[w] /\ net'[w] = net[w] /\ done'[w] = done[w]
    /\ gas_coin'[w] = gas_coin[w] /\ rpc'[w] = rpc[w]
    /\ pc'[w] = "rpc" <=> pc[w] = "rpc"
    /\ objects'[w] \in {objects[w], Truncate(objects[w], memory_pressure)}

Sends(w, tx) ==
    /\ tx.gas = gas_coin[w] /\ tx.inputs \subseteq {objects[w][i] : i \in 1..Len(objects[w])}
    /\ pc[w] = "execute" /\ pc'[w] = "rpc" /\ rpc'[w] = tx
    /\ net'[w] = net[w] \cup {tx} /\ chain'[w] = chain[w] /\ done'[w] = done[w]
    /\ gas_coin'[w] = gas_coin[w] /\ objects'[w] = objects[w]

Fails(w) ==
    /\ pc[w] = "rpc" /\ pc'[w] = "count" /\ rpc'[w] = rpc[w]
    /\ net'[w] \subseteq net[w] /\ chain'[w] = chain[w] /\ done'[w] = done[w]
    /\ gas_coin'[w] = gas_coin[w] /\ objects'[w] = objects[w]
    /\ faults' = 0 => net'[w] = net[w] \ {rpc[w]} /\ ~Executed(w, rpc[w])

\* Every step touches the references of w in one of these ways.
LEMMA RefStep ==
    ASSUME TypeOK, [Next]_vars, NEW w \in Worker
    PROVE  \/ Idle(w)
           \/ \E tx \in Transaction : Sends(w, tx)
           \/ Fails(w)
           \/ \E full \in BOOLEAN : RpcReply(w, full)
           \/ \E tx \in net[w], ok \in BOOLEAN :
                 Execute(w, tx, ok) /\ UNCHANGED <<gas_coin, objects, rpc, pc>>
<1> USE DEF sharedVars, workerVars, nodeVars
<1>0. /\ net \in [Worker -> SUBSET Transaction]
      /\ pc \in [Worker -> Location]
      /\ objects \in [Worker -> Seq(TrackedObject)]
      /\ rpc \in [Worker -> Transaction]
      /\ gas_coin \in [Worker -> Nat \ {0}]
  BY Zenon DEF TypeOK, NodeTypeOK, WorkerTypeOK
<1>1. ASSUME LoopExit(w) \/ LoopHead(w) \/ EmergencyGate(w) \/ AcquirePermit(w) PROVE Idle(w)
  BY <1>0, <1>1, Zenon DEF LoopExit, LoopHead, EmergencyGate, AcquirePermit, Idle
<1>2. ASSUME UpdateNothing(w) \/ CountSubmitted(w) \/ MatchResult(w) \/ ReleasePermit(w) PROVE Idle(w)
  BY <1>0, <1>2, Zenon DEF UpdateNothing, CountSubmitted, MatchResult, ReleasePermit, Idle
<1>3. ASSUME SendCreate(w) PROVE \E tx \in Transaction : Sends(w, tx)
  <2> DEFINE tx == [gas |-> gas_coin[w], create |-> CreateBatch, inputs |-> {}, first |-> 0]
  <2>1. CreateBatch \in Nat BY BatchAssumption, ModeAssumption, Zenon DEF CreateBatch, Smaller
  <2>2. tx \in Transaction BY <1>0, <2>1, Zenon DEF Transaction
  <2>3. Sends(w, tx) BY <1>0, <1>3, Zenon DEF SendCreate, Send, Submit, Sends
  <2> QED BY <2>2, <2>3, Zenon
<1>4. ASSUME SendUpdate(w) PROVE \E tx \in Transaction : Sends(w, tx)
  <2>1. PICK start \in 0..(Len(objects[w]) - 1) :
            Send(w, [gas |-> gas_coin[w], create |-> 0, inputs |-> Window(objects[w], start),
                     first |-> objects[w][start + 1].id])
    BY <1>4, Zenon DEF SendUpdate
  <2> DEFINE tx == [gas |-> gas_coin[w], create |-> 0, inputs |-> Window(objects[w], start),
                     first |-> objects[w][start + 1].id]
  <2>2. objects[w] \in Seq(TrackedObject) /\ objects[w] # <<>> /\ start \in Nat /\ pc[w] = "execute"
    BY <1>0, <1>4 DEF SendUpdate
  <2>3. Window(objects[w], start) \subseteq {objects[w][i] : i \in 1..Len(objects[w])}
    BY <2>2, WindowFacts, Zenon
  <2>4. {objects[w][i] : i \in 1..Len(objects[w])} \subseteq TrackedObject BY <2>2
  <2>a. objects[w][start + 1].id \in Nat BY <2>2, FirstFacts, Zenon
  <2>5. tx \in Transaction
    <3> DEFINE f == objects[w][start + 1].id
               win == Window(objects[w], start)
    <3>1. f \in Nat /\ gas_coin[w] \in Nat BY <1>0, <2>a, Zenon
    <3>2. win \subseteq TrackedObject BY <2>3, <2>4, Zenon
    <3> HIDE DEF f, win
    <3>3. [gas |-> gas_coin[w], create |-> 0, inputs |-> win, first |-> f] \in Transaction
      BY <3>1, <3>2, Zenon DEF Transaction
    <3> QED BY <3>3, Zenon DEF f, win
  <2>6. Sends(w, tx) BY <1>0, <2>1, <2>2, <2>3, Zenon DEF Send, Submit, Sends
  <2> QED BY <2>5, <2>6, Zenon
<1>5. ASSUME RpcRefused(w) \/ RpcLost(w) PROVE Fails(w)
  <2>1. /\ pc[w] = "rpc" /\ pc' = [pc EXCEPT ![w] = "count"]
        /\ UNCHANGED <<rpc, gas_coin, objects, chain, done>>
    BY <1>5, Zenon DEF RpcRefused, RpcLost, RpcError, Refuse
  <2>2. pc'[w] = "count" BY <1>0, <2>1, Zenon
  <2>3. net'[w] \subseteq net[w] /\ (faults' = 0 => net'[w] = net[w] \ {rpc[w]} /\ ~Executed(w, rpc[w]))
    <3>1. CASE RpcRefused(w)
      <4>1. net' = [net EXCEPT ![w] = @ \ {rpc[w]}] /\ ~Executed(w, rpc[w])
        BY <3>1, Zenon DEF RpcRefused, Refuse
      <4> QED BY <1>0, <4>1, Zenon
    <3>2. CASE RpcLost(w)
      <4>1. net' = net /\ faults' = faults + 1 BY <3>2, Zenon DEF RpcLost
      <4>2. faults \in Nat BY Zenon DEF TypeOK, SharedTypeOK
      <4> QED BY <4>1, <4>2
    <3> QED BY <1>5, <3>1, <3>2, Zenon
  <2> QED BY <2>1, <2>2, <2>3, Zenon DEF Fails
<1>6. ASSUME NodeExecute(w)
      PROVE  \E tx \in net[w], ok \in BOOLEAN :
                 Execute(w, tx, ok) /\ UNCHANGED <<gas_coin, objects, rpc, pc>>
  BY <1>6, Zenon DEF NodeExecute
<1>7. ASSUME /\ chain'[w] = chain[w] /\ net'[w] = net[w] /\ done'[w] = done[w]
             /\ gas_coin'[w] = gas_coin[w] /\ rpc'[w] = rpc[w] /\ pc'[w] = pc[w]
             /\ objects'[w] = objects[w] /\ pressure_level'[w] = pressure_level[w]
      PROVE  Idle(w)
  BY <1>7, Zenon DEF Idle
<1> QED
  BY <1>1, <1>2, <1>3, <1>4, <1>5, <1>6, <1>7, StepOfOne, Zenon DEF WorkerStep, RpcReturn

\* What is known of w after an execution, function updates resolved, and after ...
LEMMA ExecuteFacts ==
    ASSUME TypeOK, NEW w \in Worker, NEW tx \in net[w], NEW ok \in BOOLEAN, Execute(w, tx, ok)
    PROVE  /\ chain'[w].gas = tx.gas + 1 /\ chain'[w].obj = ObjectsAfter(w, tx, ok)
           /\ done'[w].tx = tx /\ done'[w].ok = ok /\ done'[w].base = Len(chain[w].obj)
           /\ net'[w] = {} /\ Current(w, tx) /\ tx.gas = chain[w].gas /\ tx \in Transaction
<1>1. done'[w] = [tx |-> tx, ok |-> ok, base |-> Len(chain[w].obj)]
  BY Zenon DEF TypeOK, NodeTypeOK, Execute
<1>2. [tx |-> tx, ok |-> ok, base |-> Len(chain[w].obj)].tx = tx BY Zenon
<1>3. [tx |-> tx, ok |-> ok, base |-> Len(chain[w].obj)].ok = ok BY Zenon
<1>4. [tx |-> tx, ok |-> ok, base |-> Len(chain[w].obj)].base = Len(chain[w].obj) BY Zenon
<1>5. done'[w].tx = tx /\ done'[w].ok = ok /\ done'[w].base = Len(chain[w].obj)
  BY <1>1, <1>2, <1>3, <1>4, Zenon
<1> QED BY <1>5, Zenon DEF TypeOK, NodeTypeOK, Execute, Current

\* ... an answer.
LEMMA ReplyFacts ==
    ASSUME TypeOK, NEW w \in Worker, NEW full \in BOOLEAN, RpcReply(w, full)
    PROVE  /\ pc[w] = "rpc" /\ pc'[w] = "count" /\ done[w].tx = rpc[w]
           /\ chain'[w] = chain[w] /\ net'[w] = net[w] /\ done'[w] = done[w]
           /\ gas_coin'[w] = rpc[w].gas + 1
           /\ objects'[w] = TrackCreated(TrackMutated(objects[w], MutatedBy(w, full), rpc[w].gas + 1),
                                         done[w].base, CreatedBy(w, full), rpc[w].gas + 1)
BY Zenon DEF TypeOK, NodeTypeOK, WorkerTypeOK, RpcReply, Executed, nodeVars

\* An answer brings the reference up to the chain; an execution takes the chain one
\* version ahead of it, and only a transaction with the current reference executes.
LEMMA GasStep ==
    ASSUME TypeOK, [Next]_vars, NEW w \in Worker, GasInv(w)
    PROVE  GasInv(w)'
<1>0. /\ chain[w].gas \in Nat /\ gas_coin[w] \in Nat /\ rpc[w].gas \in Nat
      /\ \A tx \in net[w] : tx.gas \in Nat
      /\ done[w].tx.gas \in Nat
  BY WorkerTypes, Zenon
<1>1. CASE Idle(w)
  BY <1>0, <1>1, Zenon DEF GasInv, Idle
<1>2. ASSUME NEW tx \in Transaction, Sends(w, tx) PROVE GasInv(w)'
  BY <1>0, <1>2 DEF GasInv, Sends
<1>3. CASE Fails(w)
  BY <1>0, <1>3, Zenon DEF GasInv, Fails
<1>4. ASSUME NEW full \in BOOLEAN, RpcReply(w, full) PROVE GasInv(w)'
  <2>1. /\ pc[w] = "rpc" /\ pc'[w] = "count" /\ done[w].tx = rpc[w]
        /\ chain'[w] = chain[w] /\ net'[w] = net[w] /\ done'[w] = done[w]
        /\ gas_coin'[w] = rpc[w].gas + 1
    BY <1>4, ReplyFacts, Zenon
  <2> QED BY <1>0, <2>1 DEF GasInv
<1>5. ASSUME NEW tx \in net[w], NEW ok \in BOOLEAN, Execute(w, tx, ok),
             UNCHANGED <<gas_coin, objects, rpc, pc>>
      PROVE  GasInv(w)'
  <2>1. /\ chain'[w].gas = tx.gas + 1 /\ done'[w].tx = tx /\ net'[w] = {} /\ tx.gas = chain[w].gas
    BY <1>5, ExecuteFacts, SMTT(30)
  <2> QED BY <1>0, <1>5, <2>1 DEF GasInv
<1> QED BY <1>1, <1>2, <1>3, <1>4, <1>5, RefStep, Zenon

\* Until a worker has seen the effects of its last transaction, nothing it has
\* sent can execute.
LEMMA UnseenStep ==
    ASSUME TypeOK, NEW w \in Worker, GasInv(w), [Next]_vars, Unseen(w)
    PROVE  chain'[w] = chain[w]
<1>0. /\ chain[w].gas \in Nat /\ gas_coin[w] \in Nat /\ \A tx \in net[w] : tx.gas \in Nat
  BY WorkerTypes, Zenon
<1>1. ASSUME NEW tx \in net[w], NEW ok \in BOOLEAN, Execute(w, tx, ok) PROVE FALSE
  <2>1. tx.gas = chain[w].gas BY <1>1, ExecuteFacts
  <2> QED BY <1>0, <2>1 DEF GasInv, Unseen
<1>2. ASSUME NEW full \in BOOLEAN, RpcReply(w, full) PROVE chain'[w] = chain[w]
  BY <1>2, ReplyFacts, Zenon
<1> QED BY <1>1, <1>2, RefStep, Zenon DEF Idle, Sends, Fails

-----------------------------------------------------------------------------
(* The tracked objects: the list as a whole *)

\* The lists of an answer, in terms of the list before it.
LEMMA ReplyList ==
    ASSUME TypeOK, NEW w \in Worker, NEW full \in BOOLEAN, RpcReply(w, full)
    PROVE  LET s == objects[w]  t == objects'[w]  v == rpc[w].gas + 1 IN
           /\ s \in Seq(TrackedObject) /\ t \in Seq(TrackedObject)
           /\ CreatedBy(w, full) \in Nat /\ v \in Nat /\ done[w].base \in Nat
           /\ Len(t) \in Len(s)..(Len(s) + CreatedBy(w, full))
           /\ Len(s) <= MaxTracked => Len(t) <= MaxTracked
           /\ \A i \in 1..Len(s) : /\ t[i].id = s[i].id
                                   /\ t[i].version = IF s[i].id \in MutatedBy(w, full) THEN v ELSE s[i].version
           /\ \A i \in (Len(s) + 1)..Len(t) : /\ t[i].id = done[w].base + (i - Len(s))
                                              /\ t[i].version = v
<1> DEFINE s == objects[w]
           v == rpc[w].gas + 1
           b == done[w].base
           n == CreatedBy(w, full)
           m == TrackMutated(s, MutatedBy(w, full), v)
           t == TrackCreated(m, b, n, v)
<1>1. s \in Seq(TrackedObject) /\ v \in Nat /\ b \in Nat
  <2>1. s \in Seq(TrackedObject) /\ rpc[w].gas \in Nat /\ b \in Nat BY WorkerTypes, Zenon
  <2>2. v \in Nat BY <2>1
  <2> QED BY <2>1, <2>2, Zenon
<1>2. n \in Nat
  <2>1. rpc[w].create \in Nat /\ 0 \in Nat BY Zenon DEF TypeOK, WorkerTypeOK, Transaction
  <2> QED BY <2>1, Zenon DEF CreatedBy
<1>3. objects'[w] = t BY ReplyFacts, Zenon
<1> HIDE DEF n, b, v
<1>4. /\ m \in Seq(TrackedObject) /\ Len(m) = Len(s)
      /\ \A i \in 1..Len(s) : /\ m[i].id = s[i].id
                              /\ m[i].version = IF s[i].id \in MutatedBy(w, full) THEN v ELSE s[i].version
  BY <1>1, TrackMutatedFacts
<1> HIDE DEF m
<1>5. /\ t \in Seq(TrackedObject)
      /\ Len(t) \in Len(m)..(Len(m) + n)
      /\ Len(m) <= MaxTracked => Len(t) <= MaxTracked
      /\ \A i \in 1..Len(m) : t[i] = m[i]
      /\ \A i \in (Len(m) + 1)..Len(t) : t[i] = [id |-> b + (i - Len(m)), version |-> v]
  BY <1>1, <1>2, <1>4, TrackCreatedFacts
<1> HIDE DEF t
<1>6. \A i \in 1..Len(s) : /\ t[i].id = s[i].id
                           /\ t[i].version = IF s[i].id \in MutatedBy(w, full) THEN v ELSE s[i].version
  BY <1>4, <1>5, Zenon
<1>7. ASSUME NEW i \in (Len(s) + 1)..Len(t)
      PROVE  t[i].id = b + (i - Len(s)) /\ t[i].version = v
  <2>1. t[i] = [id |-> b + (i - Len(s)), version |-> v] BY <1>4, <1>5, <1>7, Zenon
  <2> QED BY <2>1
<1> HIDE DEF s
<1> QED BY <1>1, <1>2, <1>3, <1>4, <1>5, <1>6, <1>7, Zenon DEF s, v, b, n

\* No step makes a list longer than MAX_TRACKED_OBJECTS_PER_WORKER.
LEMMA CappedInit == Init => TrackedCapped
<1> SUFFICES ASSUME Init, NEW w \in Worker PROVE Len(objects[w]) <= MaxTracked
  BY Zenon DEF TrackedCapped
<1> DEFINE k == Smaller(SeedObjects, MaxTracked)
<1>1. k \in Nat /\ k <= MaxTracked BY SeedAssumption, TrackedAssumption DEF Smaller
<1>2. objects[w] = [i \in 1..k |-> [id |-> i, version |-> 1]] BY Zenon DEF Init
<1> HIDE DEF k
<1>3. [i \in 1..k |-> [id |-> i, version |-> 1]] \in [1..k -> TrackedObject] BY <1>1 DEF TrackedObject
<1>4. Len(objects[w]) = k BY <1>1, <1>2, <1>3, IntervalIsSeq
<1> QED BY <1>1, <1>4, Zenon

LEMMA CappedStep == TypeOK /\ TrackedCapped /\ [Next]_vars => TrackedCapped'
<1> SUFFICES ASSUME TypeOK, TrackedCapped, [Next]_vars, NEW w \in Worker
             PROVE  Len(objects'[w]) <= MaxTracked
  BY Zenon DEF TrackedCapped
<1>1. /\ objects[w] \in Seq(TrackedObject) /\ memory_pressure \in 0..3 /\ Len(objects[w]) <= MaxTracked
  BY Zenon DEF TypeOK, SharedTypeOK, WorkerTypeOK, TrackedCapped
<1>2. CASE Idle(w)
  <2>1. Len(Truncate(objects[w], memory_pressure)) <= MaxTracked
    <3>1. /\ Truncate(objects[w], memory_pressure) \in Seq(TrackedObject)
          /\ Len(Truncate(objects[w], memory_pressure)) <= Len(objects[w])
      BY <1>1, TruncateFacts, Zenon
    <3> QED BY <1>1, <3>1, TrackedAssumption
  <2> QED BY <1>1, <1>2, <2>1, Zenon DEF Idle
<1>3. ASSUME NEW full \in BOOLEAN, RpcReply(w, full) PROVE Len(objects'[w]) <= MaxTracked
  BY <1>1, <1>3, ReplyList, Zenon
<1> QED BY <1>1, <1>2, <1>3, RefStep, Zenon DEF Sends, Fails

\* No step empties a list.
LEMMA NeverEmptiedStep ==
    ASSUME TypeOK, [Next]_vars, NEW w \in Worker, objects[w] # <<>>
    PROVE  objects'[w] # <<>>
<1>1. objects[w] \in Seq(TrackedObject) /\ memory_pressure \in 0..3
  BY Zenon DEF TypeOK, SharedTypeOK, WorkerTypeOK
<1>2. CASE Idle(w)
  <2>1. Truncate(objects[w], memory_pressure) # <<>> BY <1>1, TruncateFacts, Zenon
  <2> QED BY <1>2, <2>1, Zenon DEF Idle
<1>3. ASSUME NEW full \in BOOLEAN, RpcReply(w, full) PROVE objects'[w] # <<>>
  <2>1. objects'[w] \in Seq(TrackedObject) /\ Len(objects'[w]) >= Len(objects[w])
    <3>1. Len(objects[w]) \in Nat BY <1>1
    <3> QED BY <1>3, <3>1, ReplyList
  <2>2. Len(objects[w]) > 0 BY <1>1
  <2> QED BY <1>1, <2>1, <2>2
<1>4. ASSUME NEW tx \in net[w], NEW ok \in BOOLEAN, UNCHANGED <<gas_coin, objects, rpc, pc>>
      PROVE  objects'[w] # <<>>
  BY <1>4, Zenon
<1> QED BY <1>2, <1>3, <1>4, RefStep, Zenon DEF Sends, Fails

-----------------------------------------------------------------------------
(* The tracked objects: each reference *)

\* What w tracks exists, and is tracked once, at a version the object has had.
Tracked(w) ==
    \A i \in 1..Len(objects[w]) :
        /\ objects[w][i].id \in 1..Len(chain[w].obj)
        /\ objects[w][i].version <= chain[w].obj[objects[w][i].id]
        /\ \A j \in 1..Len(objects[w]) : objects[w][i].id = objects[w][j].id => i = j

\* No object is newer than the gas coin.
Bounded(w) == \A i \in 1..Len(chain[w].obj) : chain[w].obj[i] <= chain[w].gas

\* While the effects of the last execution are unseen, the objects it created are
\* not tracked yet and, like its inputs, still have the version it gave them.
Pending(w) ==
    Unseen(w) =>
        /\ Len(chain[w].obj) = done[w].base + (IF done[w].ok THEN done[w].tx.create ELSE 0)
        /\ \A i \in 1..Len(objects[w]) : objects[w][i].id <= done[w].base
        /\ \A i \in 1..Len(chain[w].obj) :
               i > done[w].base \/ i \in Ids(done[w].tx.inputs) => chain[w].obj[i] = chain[w].gas

RefInv(w) == Tracked(w) /\ Bounded(w) /\ Pending(w)

\* Setup leaves current references to distinct seed objects.
LEMMA RefInit == Init => \A w \in Worker : RefInv(w)
<1> SUFFICES ASSUME Init, NEW w \in Worker PROVE RefInv(w)
  BY Zenon
<1> DEFINE k == Smaller(SeedObjects, MaxTracked)
<1>1. k \in Nat /\ k <= SeedObjects /\ SeedObjects \in Nat
  BY SeedAssumption, TrackedAssumption DEF Smaller
<1>2. objects[w] = [i \in 1..k |-> [id |-> i, version |-> 1]] BY Zenon DEF Init
<1>3. chain[w] = [gas |-> 1, obj |-> [i \in 1..SeedObjects |-> 1]] BY Zenon DEF Init, NodeInit
<1>4. ~Unseen(w)
  <2>1. chain[w].gas = 1 /\ gas_coin[w] = 1 BY <1>3 DEF Init
  <2> QED BY <2>1 DEF Unseen
<1> HIDE DEF k
<1>5. [i \in 1..k |-> [id |-> i, version |-> 1]] \in [1..k -> TrackedObject] BY <1>1 DEF TrackedObject
<1>6. Len(objects[w]) = k /\ \A i \in 1..k : objects[w][i].id = i /\ objects[w][i].version = 1
  BY <1>1, <1>2, <1>5, IntervalIsSeq
<1>7. [i \in 1..SeedObjects |-> 1] \in [1..SeedObjects -> Nat] BY Zenon
<1>8. Len(chain[w].obj) = SeedObjects /\ \A i \in 1..SeedObjects : chain[w].obj[i] = 1
  BY <1>1, <1>3, <1>7, IntervalIsSeq
<1>9. chain[w].gas = 1 BY <1>3
<1>10. Tracked(w) BY <1>1, <1>6, <1>8 DEF Tracked
<1>11. Bounded(w) BY <1>1, <1>8, <1>9 DEF Bounded
<1>12. Pending(w) BY <1>4, Zenon DEF Pending
<1> QED BY <1>10, <1>11, <1>12, Zenon DEF RefInv

\* The ways of touching the references keep them genuine: dropping objects does not
\* hurt, an execution only raises versions, and an answer adds the objects that the
\* execution whose effects were unseen created.
LEMMA RefPreserved ==
    ASSUME TypeOK, [Next]_vars, NEW w \in Worker, GasInv(w), RefInv(w)
    PROVE  RefInv(w)'
<1>0. /\ chain[w].obj \in Seq(Nat) /\ chain[w].gas \in Nat /\ gas_coin[w] \in Nat
      /\ objects[w] \in Seq(TrackedObject) /\ memory_pressure \in 0..3
      /\ done[w].base \in Nat
  BY Zenon DEF TypeOK, NodeTypeOK, SharedTypeOK, WorkerTypeOK, Effects
<1>a. \A i \in 1..Len(objects[w]) :
         objects[w][i] \in TrackedObject /\ objects[w][i].id \in Nat /\ objects[w][i].version \in Nat
  <2>1. \A i \in 1..Len(objects[w]) : objects[w][i] \in TrackedObject BY <1>0
  <2> QED BY <2>1, Zenon DEF TrackedObject
<1>1. ASSUME chain'[w] = chain[w], done'[w] = done[w], gas_coin'[w] = gas_coin[w],
             Len(objects'[w]) \in Nat, Len(objects'[w]) <= Len(objects[w]),
             \A i \in 1..Len(objects'[w]) : objects'[w][i] = objects[w][i]
      PROVE  RefInv(w)'
  <2>1. \A i \in 1..Len(objects'[w]) : i \in 1..Len(objects[w]) BY <1>0, <1>1
  <2>2. Unseen(w)' <=> Unseen(w) BY <1>1, Zenon DEF Unseen
  <2>3. Tracked(w)' BY <1>1, <2>1, Zenon DEF RefInv, Tracked
  <2>4. Bounded(w)' BY <1>1, Zenon DEF RefInv, Bounded
  <2>5. Pending(w)' BY <1>1, <2>1, <2>2, Zenon DEF RefInv, Pending
  <2> QED BY <2>3, <2>4, <2>5, Zenon DEF RefInv
<1>2. CASE Idle(w)
  <2>1. /\ Truncate(objects[w], memory_pressure) \in Seq(TrackedObject)
        /\ Len(Truncate(objects[w], memory_pressure)) <= Len(objects[w])
        /\ \A i \in 1..Len(Truncate(objects[w], memory_pressure)) :
              Truncate(objects[w], memory_pressure)[i] = objects[w][i]
    BY <1>0, TruncateFacts, Zenon
  <2>2. Len(objects[w]) \in Nat /\ Len(Truncate(objects[w], memory_pressure)) \in Nat
        /\ Len(objects[w]) <= Len(objects[w])
    BY <1>0, <2>1
  <2>3. objects'[w] = objects[w] \/ objects'[w] = Truncate(objects[w], memory_pressure)
    BY <1>2, Zenon DEF Idle
  <2>4. /\ Len(objects'[w]) \in Nat /\ Len(objects'[w]) <= Len(objects[w])
        /\ \A i \in 1..Len(objects'[w]) : objects'[w][i] = objects[w][i]
    BY <2>1, <2>2, <2>3, Zenon
  <2>5. chain'[w] = chain[w] /\ done'[w] = done[w] /\ gas_coin'[w] = gas_coin[w] BY <1>2, Zenon DEF Idle
  <2> QED BY <1>1, <2>4, <2>5, Zenon
<1>b. ASSUME chain'[w] = chain[w], done'[w] = done[w], gas_coin'[w] = gas_coin[w],
             objects'[w] = objects[w]
      PROVE  RefInv(w)'
  <2>0. Len(objects[w]) \in Nat /\ Len(objects[w]) <= Len(objects[w]) BY <1>0
  <2>1. /\ Len(objects'[w]) \in Nat /\ Len(objects'[w]) <= Len(objects[w])
        /\ \A i \in 1..Len(objects'[w]) : objects'[w][i] = objects[w][i]
    BY <1>b, <2>0, Zenon
  <2> QED BY <1>1, <1>b, <2>1, Zenon
<1>3. ASSUME NEW tx \in Transaction, Sends(w, tx) PROVE RefInv(w)'
  <2>1. chain'[w] = chain[w] /\ done'[w] = done[w] /\ gas_coin'[w] = gas_coin[w] /\ objects'[w] = objects[w]
    BY <1>3, Zenon DEF Sends
  <2> QED BY <1>b, <2>1, Zenon
<1>4. CASE Fails(w)
  <2>1. chain'[w] = chain[w] /\ done'[w] = done[w] /\ gas_coin'[w] = gas_coin[w] /\ objects'[w] = objects[w]
    BY <1>4, Zenon DEF Fails
  <2> QED BY <1>b, <2>1, Zenon
<1>5. ASSUME NEW full \in BOOLEAN, RpcReply(w, full) PROVE RefInv(w)'
  <2> DEFINE s == objects[w]
             t == objects'[w]
             v == rpc[w].gas + 1
             n == CreatedBy(w, full)
             b == done[w].base
  <2>1. /\ pc[w] = "rpc" /\ done[w].tx = rpc[w] /\ gas_coin'[w] = v
        /\ chain'[w] = chain[w] /\ done'[w] = done[w]
    BY <1>5, ReplyFacts, Zenon
  <2>2. /\ t \in Seq(TrackedObject) /\ n \in Nat /\ v \in Nat
        /\ Len(t) \in Len(s)..(Len(s) + n)
        /\ \A i \in 1..Len(s) : /\ t[i].id = s[i].id
                                /\ t[i].version = IF s[i].id \in MutatedBy(w, full) THEN v ELSE s[i].version
        /\ \A i \in (Len(s) + 1)..Len(t) : t[i].id = b + (i - Len(s)) /\ t[i].version = v
    BY <1>5, ReplyList, Zenon
  <2>3. Unseen(w) /\ v = chain[w].gas
    BY <1>0, <2>1 DEF GasInv, Unseen
  <2>4. /\ Len(chain[w].obj) = b + (IF done[w].ok THEN rpc[w].create ELSE 0)
        /\ \A i \in 1..Len(s) : s[i].id <= b
        /\ \A i \in 1..Len(chain[w].obj) :
              i > b \/ i \in Ids(rpc[w].inputs) => chain[w].obj[i] = v
    BY <2>1, <2>3, Zenon DEF RefInv, Pending
  <2>5. b + n <= Len(chain[w].obj)
    <3> DEFINE k == IF done[w].ok THEN rpc[w].create ELSE 0
               m == Len(chain[w].obj)
    <3>1. n = 0 \/ n = k BY Zenon DEF CreatedBy
    <3>2. rpc[w].create \in Nat BY Zenon DEF TypeOK, WorkerTypeOK, Transaction
    <3>3. k \in Nat BY <3>2, Zenon
    <3>4. m = b + k BY <2>4, Zenon
    <3>5. b \in Nat BY <1>0, Zenon
    <3> HIDE DEF k, m, n, b
    <3>6. b + n <= m BY <3>1, <3>3, <3>4, <3>5
    <3> QED BY <3>6, Zenon DEF m
  <2>6. ~Unseen(w)' BY <1>0, <2>1, <2>3 DEF Unseen
  <2>7. MutatedBy(w, full) \subseteq Ids(rpc[w].inputs) BY Zenon DEF MutatedBy
  <2> HIDE DEF s, t, v, n, b
  <2>8. ASSUME NEW i \in 1..Len(t)
        PROVE  /\ t[i].id \in 1..Len(chain[w].obj)
               /\ t[i].version <= chain[w].obj[t[i].id]
               /\ i > Len(s) => t[i].id > b
    <3>1. CASE i \in 1..Len(s)
      <4>0. ~(i > Len(s)) BY <1>0, <3>1 DEF s
      <4>1. /\ s[i].id \in 1..Len(chain[w].obj) /\ s[i].version <= chain[w].obj[s[i].id]
        BY <3>1, Zenon DEF RefInv, Tracked, s
      <4>2. CASE s[i].id \in MutatedBy(w, full)
        <5>1. t[i].version = v /\ t[i].id = s[i].id BY <2>2, <3>1, <4>2, Zenon
        <5>2. chain[w].obj[s[i].id] = v BY <2>4, <2>7, <4>1, <4>2, Zenon
        <5>3. v <= v BY <2>2
        <5> QED BY <4>0, <4>1, <5>1, <5>2, <5>3, Zenon
      <4>3. CASE s[i].id \notin MutatedBy(w, full)
        <5>1. t[i].id = s[i].id /\ t[i].version = s[i].version BY <2>2, <3>1, <4>3, Zenon
        <5> QED BY <4>0, <4>1, <5>1, Zenon
      <4> QED BY <4>2, <4>3, Zenon
    <3>2. CASE i \in (Len(s) + 1)..Len(t)
      <4>1. t[i].id = b + (i - Len(s)) /\ t[i].version = v BY <2>2, <3>2, Zenon
      <4>2. Len(s) \in Nat /\ Len(t) \in Nat /\ b \in Nat /\ Len(chain[w].obj) \in Nat
        BY <1>0, <2>2 DEF s, b
      <4>3. t[i].id > b /\ t[i].id \in 1..Len(chain[w].obj)
        <5>1. Len(t) \in Len(s)..(Len(s) + n) /\ n \in Nat BY <2>2, Zenon
        <5>2. i - Len(s) \in 1..n BY <3>2, <4>2, <5>1
        <5>3. b + (i - Len(s)) > b /\ b + (i - Len(s)) \in 1..Len(chain[w].obj) BY <2>5, <4>2, <5>1, <5>2
        <5> QED BY <4>1, <5>3, Zenon
      <4>4. chain[w].obj[t[i].id] = v BY <2>4, <4>3, Zenon
      <4>5. v <= v BY <2>2
      <4> QED BY <4>1, <4>3, <4>4, <4>5, Zenon
    <3>3. i \in 1..Len(s) \/ i \in (Len(s) + 1)..Len(t)
      <4>1. Len(s) \in Nat /\ Len(t) \in Nat BY <1>0, <2>2 DEF s
      <4> QED BY <4>1
    <3> QED BY <3>1, <3>2, <3>3, Zenon
  <2>9. ASSUME NEW i \in 1..Len(t), NEW j \in 1..Len(t), t[i].id = t[j].id PROVE i = j
    <3>0. Len(s) \in Nat /\ Len(t) \in Nat /\ b \in Nat /\ Len(s) <= Len(t) BY <1>0, <2>2 DEF s, b
    <3>1. CASE i <= Len(s) /\ j <= Len(s)
      <4>1. i \in 1..Len(s) /\ j \in 1..Len(s) BY <3>0, <3>1
      <4>2. s[i].id = s[j].id BY <2>2, <2>9, <4>1, Zenon
      <4> QED BY <4>1, <4>2, Zenon DEF RefInv, Tracked, s
    <3>2. CASE i > Len(s) /\ j > Len(s)
      <4>1. i \in (Len(s) + 1)..Len(t) /\ j \in (Len(s) + 1)..Len(t) BY <3>0, <3>2
      <4>2. t[i].id = b + (i - Len(s)) /\ t[j].id = b + (j - Len(s)) BY <2>2, <4>1, Zenon
      <4>3. b + (i - Len(s)) = b + (j - Len(s)) BY <2>9, <4>2, Zenon
      <4> QED BY <3>0, <4>1, <4>3
    <3>3. ASSUME NEW x \in 1..Len(t), x <= Len(s) PROVE t[x].id <= b
      <4>1. x \in 1..Len(s) BY <3>0, <3>3
      <4> QED BY <2>2, <2>4, <4>1, Zenon
    <3>4. \A x \in 1..Len(t) : x > Len(s) => t[x].id > b BY <2>8, Zenon
    <3>5. \A x \in 1..Len(t) : t[x].id \in Nat BY <2>8
    <3>6. CASE i <= Len(s) /\ j > Len(s)
      <4>1. t[i].id <= b /\ t[j].id > b BY <3>3, <3>4, <3>6, Zenon
      <4> QED BY <2>9, <3>0, <3>5, <4>1
    <3>7. CASE i > Len(s) /\ j <= Len(s)
      <4>1. t[j].id <= b /\ t[i].id > b BY <3>3, <3>4, <3>7, Zenon
      <4> QED BY <2>9, <3>0, <3>5, <4>1
    <3>8. (i <= Len(s) \/ i > Len(s)) /\ (j <= Len(s) \/ j > Len(s)) BY <3>0
    <3> QED BY <3>1, <3>2, <3>6, <3>7, <3>8, Zenon
  <2>10. Tracked(w)' BY <2>1, <2>8, <2>9, Zenon DEF Tracked, t
  <2>11. Bounded(w)' BY <2>1, Zenon DEF RefInv, Bounded
  <2>12. Pending(w)' BY <2>6, Zenon DEF Pending
  <2> QED BY <2>10, <2>11, <2>12, Zenon DEF RefInv
<1>6. ASSUME NEW tx \in net[w], NEW ok \in BOOLEAN, Execute(w, tx, ok),
             UNCHANGED <<gas_coin, objects, rpc, pc>>
      PROVE  RefInv(w)'
  <2> DEFINE o == chain[w].obj
             c == IF ok THEN tx.create ELSE 0
  <2>1. /\ chain'[w].gas = tx.gas + 1 /\ chain'[w].obj = ObjectsAfter(w, tx, ok)
        /\ done'[w].tx = tx /\ done'[w].ok = ok /\ done'[w].base = Len(o)
        /\ tx.gas = chain[w].gas /\ tx \in Transaction
    BY <1>6, ExecuteFacts, SMTT(30)
  <2>2. c \in Nat
    <3>1. tx.create \in Nat /\ 0 \in Nat BY <2>1, Zenon DEF Transaction
    <3> QED BY <3>1, Zenon
  <2>3. /\ Len(chain'[w].obj) = Len(o) + c
        /\ \A i \in 1..(Len(o) + c) :
              chain'[w].obj[i] = IF i > Len(o) \/ i \in Ids(tx.inputs) THEN tx.gas + 1 ELSE o[i]
    <3>1. /\ Len(ObjectsAfter(w, tx, ok)) = Len(o) + c
          /\ \A i \in 1..Len(ObjectsAfter(w, tx, ok)) :
                ObjectsAfter(w, tx, ok)[i] = IF i > Len(o) \/ i \in Ids(tx.inputs) THEN tx.gas + 1 ELSE o[i]
      <4>1. NodeTypeOK /\ tx \in Transaction BY <2>1, Zenon DEF TypeOK
      <4> QED BY <4>1, ObjectsAfterFacts, Zenon
    <3> QED BY <2>1, <3>1, Zenon
  <2>4. (IF done'[w].ok THEN done'[w].tx.create ELSE 0) = c BY <2>1, Zenon
  <2> HIDE DEF c
  <2>5. Len(o) \in Nat /\ tx.gas \in Nat /\ \A i \in 1..Len(o) : o[i] \in Nat /\ o[i] <= tx.gas
    <3>1. tx.gas \in Nat BY <1>0, <2>1, Zenon
    <3>2. \A i \in 1..Len(o) : o[i] <= tx.gas BY <2>1, Zenon DEF RefInv, Bounded
    <3>3. o \in Seq(Nat) BY <1>0, Zenon
    <3> HIDE DEF o
    <3>4. Len(o) \in Nat /\ \A i \in 1..Len(o) : o[i] \in Nat BY <3>3
    <3> QED BY <3>1, <3>2, <3>4, Zenon
  <2> HIDE DEF o
  <2>6. \A i \in 1..Len(o) : i \in 1..(Len(o) + c) /\ o[i] <= chain'[w].obj[i] /\ chain'[w].obj[i] \in Nat
    <3>1. ASSUME NEW i \in 1..Len(o)
          PROVE  i \in 1..(Len(o) + c) /\ o[i] <= chain'[w].obj[i] /\ chain'[w].obj[i] \in Nat
      <4>1. i \in 1..(Len(o) + c) BY <2>2, <2>5
      <4>2. chain'[w].obj[i] = tx.gas + 1 \/ chain'[w].obj[i] = o[i] BY <2>3, <4>1, Zenon
      <4>3. o[i] \in Nat /\ o[i] <= tx.gas /\ tx.gas \in Nat BY <2>5, Zenon
      <4> DEFINE x == o[i]
                 y == chain'[w].obj[i]
                 g == tx.gas
      <4>4. x \in Nat /\ x <= g /\ g \in Nat /\ (y = g + 1 \/ y = x) BY <4>2, <4>3, Zenon
      <4> HIDE DEF x, y, g
      <4>5. x <= y /\ y \in Nat BY <4>4
      <4> QED BY <4>1, <4>5, Zenon DEF x, y
    <3> QED BY <3>1, Zenon
  <2>7. Bounded(w)'
    <3>1. ASSUME NEW i \in 1..(Len(o) + c) PROVE chain'[w].obj[i] <= tx.gas + 1
      <4>1. CASE i > Len(o) \/ i \in Ids(tx.inputs)
        <5>1. chain'[w].obj[i] = tx.gas + 1 BY <2>3, <4>1, Zenon
        <5>2. tx.gas + 1 <= tx.gas + 1 BY <2>5
        <5> QED BY <5>1, <5>2, Zenon
      <4>2. CASE ~(i > Len(o) \/ i \in Ids(tx.inputs))
        <5>1. chain'[w].obj[i] = o[i] BY <2>3, <4>2, Zenon
        <5>2. i \in 1..Len(o) BY <2>2, <2>5, <4>2
        <5>3. o[i] <= tx.gas + 1 BY <2>5, <5>2
        <5> QED BY <5>1, <5>3, Zenon
      <4> QED BY <4>1, <4>2, Zenon
    <3> QED BY <2>1, <2>3, <3>1, Zenon DEF Bounded
  <2>8. \A i \in 1..(Len(o) + c) : i > Len(o) \/ i \in Ids(tx.inputs) => chain'[w].obj[i] = chain'[w].gas
    BY <2>1, <2>3, Zenon
  <2>9. \A i \in 1..Len(objects[w]) :
           /\ objects[w][i].id \in 1..Len(o)
           /\ objects[w][i].version <= o[objects[w][i].id]
           /\ \A j \in 1..Len(objects[w]) : objects[w][i].id = objects[w][j].id => i = j
    BY Zenon DEF RefInv, Tracked, o
  <2>10. Pending(w)'
    <3>1. \A i \in 1..Len(objects[w]) : objects[w][i].id <= Len(o)
      <4>1. \A x \in 1..Len(o) : x <= Len(o) BY <2>5
      <4> QED BY <2>9, <4>1, Zenon
    <3> QED BY <1>6, <2>1, <2>3, <2>4, <2>8, <3>1, Zenon DEF Pending
  <2>11. ASSUME NEW i \in 1..Len(objects[w])
         PROVE  /\ objects[w][i].id \in 1..(Len(o) + c)
                /\ objects[w][i].version <= chain'[w].obj[objects[w][i].id]
    <3> DEFINE x == objects[w][i].id
    <3>1. x \in 1..Len(o) /\ objects[w][i].version <= o[x] BY <2>9, Zenon
    <3>2. o[x] <= chain'[w].obj[x] /\ o[x] \in Nat BY <2>5, <2>6, <3>1, Zenon
    <3>3. chain'[w].obj[x] \in Nat BY <2>6, <3>1, Zenon
    <3>4. objects[w][i].version \in Nat BY <1>a, Zenon
    <3>5. x \in 1..(Len(o) + c) BY <2>6, <3>1, Zenon
    <3> DEFINE u == objects[w][i].version
               v == o[x]
               z == chain'[w].obj[x]
    <3>6. u <= z
      <4>1. u \in Nat /\ v \in Nat /\ z \in Nat /\ u <= v /\ v <= z BY <3>1, <3>2, <3>3, <3>4, Zenon
      <4> HIDE DEF u, v, z
      <4> QED BY <4>1
    <3> QED BY <3>5, <3>6, Zenon
  <2>12. Tracked(w)' BY <1>6, <2>3, <2>9, <2>11, Zenon DEF Tracked
  <2> QED BY <2>7, <2>10, <2>12, Zenon DEF RefInv
<1> QED BY <1>2, <1>3, <1>4, <1>5, <1>6, RefStep, Zenon

-----------------------------------------------------------------------------
(* The tracked objects: references that are out of date *)

\* Whatever w has sent with the gas coin it still holds, it sent with the
\* references it still tracks: they change only with an answer, and so does the coin.
InputsInv(w) ==
    \A tx \in net[w] : tx.gas = gas_coin[w] =>
        \A r \in tx.inputs, i \in 1..Len(objects[w]) : objects[w][i].id = r.id => objects[w][i] = r

\* A list that loses objects at most from its end.
Prefix(w) ==
    /\ Len(objects'[w]) \in Nat /\ Len(objects'[w]) <= Len(objects[w])
    /\ \A i \in 1..Len(objects'[w]) : i \in 1..Len(objects[w]) /\ objects'[w][i] = objects[w][i]

\* Every step but an answer leaves a prefix of the list.
LEMMA PrefixSteps ==
    ASSUME TypeOK, NEW w \in Worker,
           Idle(w) \/ Fails(w) \/ (\E tx \in Transaction : Sends(w, tx)) \/ UNCHANGED objects
    PROVE  Prefix(w)
<1>0. objects[w] \in Seq(TrackedObject) /\ memory_pressure \in 0..3 /\ Len(objects[w]) \in Nat
  BY WorkerTypes, Zenon DEF TypeOK, SharedTypeOK
<1>1. ASSUME objects'[w] = objects[w] PROVE Prefix(w)
  BY <1>0, <1>1 DEF Prefix
<1>2. ASSUME objects'[w] = Truncate(objects[w], memory_pressure) PROVE Prefix(w)
  <2> DEFINE t == Truncate(objects[w], memory_pressure)
  <2>1. /\ t \in Seq(TrackedObject) /\ Len(t) <= Len(objects[w])
        /\ \A i \in 1..Len(t) : t[i] = objects[w][i]
    BY <1>0, TruncateFacts, Zenon
  <2>2. objects'[w] = t BY <1>2, Zenon
  <2> HIDE DEF t
  <2>3. Len(t) \in Nat BY <2>1
  <2>4. \A i \in 1..Len(t) : i \in 1..Len(objects[w]) BY <1>0, <2>1, <2>3
  <2> QED BY <2>1, <2>2, <2>3, <2>4, Zenon DEF Prefix
<1>3. objects'[w] = objects[w] \/ objects'[w] = Truncate(objects[w], memory_pressure)
  BY Zenon DEF Idle, Fails, Sends
<1> QED BY <1>1, <1>2, <1>3, Zenon

LEMMA InputsStep ==
    ASSUME TypeOK, [Next]_vars, NEW w \in Worker, GasInv(w), RefInv(w), InputsInv(w)
    PROVE  InputsInv(w)'
<1>0. gas_coin[w] \in Nat /\ rpc[w].gas \in Nat /\ \A tx \in net[w] : tx.gas \in Nat
  BY WorkerTypes, Zenon
<1>1. ASSUME net'[w] \subseteq net[w], gas_coin'[w] = gas_coin[w], Prefix(w) PROVE InputsInv(w)'
  BY <1>1, Zenon DEF InputsInv, Prefix
<1>2. CASE Idle(w) BY <1>1, <1>2, PrefixSteps, Zenon DEF Idle
<1>3. CASE Fails(w) BY <1>1, <1>3, PrefixSteps, Zenon DEF Fails
<1>4. ASSUME NEW tx \in Transaction, Sends(w, tx) PROVE InputsInv(w)'
  <2>1. /\ net'[w] = net[w] \cup {tx} /\ gas_coin'[w] = gas_coin[w] /\ objects'[w] = objects[w]
        /\ tx.inputs \subseteq {objects[w][i] : i \in 1..Len(objects[w])}
    BY <1>4, Zenon DEF Sends
  <2>2. \A i, j \in 1..Len(objects[w]) : objects[w][i].id = objects[w][j].id => i = j
    BY Zenon DEF RefInv, Tracked
  <2>3. ASSUME NEW r \in tx.inputs, NEW i \in 1..Len(objects[w]), objects[w][i].id = r.id
        PROVE  objects[w][i] = r
    <3>1. PICK j \in 1..Len(objects[w]) : r = objects[w][j] BY <2>1, Zenon
    <3>2. i = j BY <2>2, <2>3, <3>1, Zenon
    <3> QED BY <3>1, <3>2, Zenon
  <2> QED BY <2>1, <2>3, Zenon DEF InputsInv
<1>5. ASSUME NEW full \in BOOLEAN, RpcReply(w, full) PROVE InputsInv(w)'
  <2>1. /\ pc[w] = "rpc" /\ net'[w] = net[w] /\ gas_coin'[w] = rpc[w].gas + 1
    BY <1>5, ReplyFacts, Zenon
  <2>2. rpc[w].gas = gas_coin[w] /\ \A tx \in net[w] : tx.gas <= gas_coin[w] BY <2>1, Zenon DEF GasInv
  <2>3. \A tx \in net'[w] : tx.gas # gas_coin'[w] BY <1>0, <2>1, <2>2
  <2> QED BY <2>3, Zenon DEF InputsInv
<1>6. ASSUME NEW tx \in net[w], NEW ok \in BOOLEAN, Execute(w, tx, ok) PROVE InputsInv(w)'
  <2>1. net'[w] = {} BY <1>6, ExecuteFacts
  <2> QED BY <2>1, Zenon DEF InputsInv
<1> QED BY <1>2, <1>3, <1>4, <1>5, <1>6, RefStep, Zenon

\* Being dead, element by element, before and after a step.
LEMMA DeadFacts ==
    ASSUME NEW w \in Worker, NEW id
    PROVE  /\ id \in Dead(w) =>
                 /\ \E i \in 1..Len(objects[w]) : objects[w][i].id = id
                 /\ ~(Unseen(w) /\ id \in Ids(done[w].tx.inputs))
                 /\ \A i \in 1..Len(objects[w]) :
                       objects[w][i].id = id => objects[w][i].version < chain[w].obj[id]
           /\ (/\ \E i \in 1..Len(objects'[w]) : objects'[w][i].id = id
               /\ ~(Unseen(w)' /\ id \in Ids(done'[w].tx.inputs))
               /\ \A i \in 1..Len(objects'[w]) :
                     objects'[w][i].id = id => objects'[w][i].version < chain'[w].obj[id])
              => id \in Dead(w)'
<1>1. ASSUME id \in Dead(w) PROVE \E i \in 1..Len(objects[w]) : objects[w][i].id = id
  BY <1>1, Zenon DEF Dead, Ids
<1>2. ASSUME NEW i \in 1..Len(objects'[w]), objects'[w][i].id = id
      PROVE  id \in Ids({objects'[w][j] : j \in 1..Len(objects'[w])})
  BY <1>2, Zenon DEF Ids
<1> QED BY <1>1, <1>2, Zenon DEF Dead

\* A dead reference was not an input of a transaction that is answered or executes:
\* an answer leaves it alone, and an execution takes only current references.
LEMMA DeadStep ==
    ASSUME TypeOK, [Next]_vars, NEW w \in Worker, GasInv(w), RefInv(w), InputsInv(w),
           NEW id \in Dead(w), ~(Len(objects'[w]) < Len(objects[w]))
    PROVE  id \in Dead(w)'
<1>0. /\ objects[w] \in Seq(TrackedObject) /\ Len(objects[w]) \in Nat
      /\ chain[w].gas \in Nat /\ gas_coin[w] \in Nat /\ Len(chain[w].obj) \in Nat
      /\ rpc[w].gas \in Nat /\ done[w].base \in Nat
  BY WorkerTypes, Zenon
<1>a. PICK k \in 1..Len(objects[w]) : objects[w][k].id = id BY DeadFacts, Zenon
<1>b. /\ ~(Unseen(w) /\ id \in Ids(done[w].tx.inputs))
      /\ \A i \in 1..Len(objects[w]) :
            objects[w][i].id = id => objects[w][i].version < chain[w].obj[id]
  BY DeadFacts, Zenon
<1>c. ASSUME Prefix(w)
      PROVE  /\ Len(objects'[w]) = Len(objects[w])
             /\ \A i \in 1..Len(objects[w]) : objects'[w][i] = objects[w][i]
  <2>1. /\ Len(objects'[w]) \in Nat /\ Len(objects'[w]) <= Len(objects[w])
        /\ \A i \in 1..Len(objects'[w]) : objects'[w][i] = objects[w][i]
    BY <1>c, Zenon DEF Prefix
  <2>2. Len(objects'[w]) = Len(objects[w]) BY <1>0, <2>1
  <2> QED BY <2>1, <2>2, Zenon
<1>1. ASSUME chain'[w] = chain[w], done'[w] = done[w], gas_coin'[w] = gas_coin[w], Prefix(w)
      PROVE  id \in Dead(w)'
  <2>1. Unseen(w)' <=> Unseen(w) BY <1>1, Zenon DEF Unseen
  <2>2. /\ Len(objects'[w]) = Len(objects[w])
        /\ \A i \in 1..Len(objects[w]) : objects'[w][i] = objects[w][i]
    BY <1>1, <1>c, Zenon
  <2>3. k \in 1..Len(objects'[w]) /\ objects'[w][k].id = id BY <1>a, <2>2, Zenon
  <2>4. \A i \in 1..Len(objects'[w]) : objects'[w][i].id = id => objects'[w][i].version < chain'[w].obj[id]
    BY <1>1, <1>b, <2>2, Zenon
  <2>5. ~(Unseen(w)' /\ id \in Ids(done'[w].tx.inputs)) BY <1>1, <1>b, <2>1, Zenon
  <2> QED BY <2>3, <2>4, <2>5, DeadFacts, Zenon
<1>2. CASE Idle(w)
  <2>1. chain'[w] = chain[w] /\ done'[w] = done[w] /\ gas_coin'[w] = gas_coin[w] BY <1>2, Zenon DEF Idle
  <2> QED BY <1>1, <1>2, <2>1, PrefixSteps, Zenon
<1>3. CASE Fails(w)
  <2>1. chain'[w] = chain[w] /\ done'[w] = done[w] /\ gas_coin'[w] = gas_coin[w] BY <1>3, Zenon DEF Fails
  <2> QED BY <1>1, <1>3, <2>1, PrefixSteps, Zenon
<1>4. ASSUME NEW tx \in Transaction, Sends(w, tx) PROVE id \in Dead(w)'
  <2>1. chain'[w] = chain[w] /\ done'[w] = done[w] /\ gas_coin'[w] = gas_coin[w] BY <1>4, Zenon DEF Sends
  <2> QED BY <1>1, <1>4, <2>1, PrefixSteps, Zenon
<1>5. ASSUME NEW full \in BOOLEAN, RpcReply(w, full) PROVE id \in Dead(w)'
  <2> DEFINE s == objects[w]
             t == objects'[w]
             b == done[w].base
  <2>1. /\ pc[w] = "rpc" /\ done[w].tx = rpc[w] /\ gas_coin'[w] = rpc[w].gas + 1
        /\ chain'[w] = chain[w] /\ done'[w] = done[w]
    BY <1>5, ReplyFacts, Zenon
  <2>2. Unseen(w) /\ ~Unseen(w)' BY <1>0, <2>1 DEF GasInv, Unseen
  <2>3. id \notin MutatedBy(w, full)
    <3>1. id \notin Ids(rpc[w].inputs) BY <1>b, <2>1, <2>2, Zenon
    <3> QED BY <3>1, Zenon DEF MutatedBy
  <2>4. /\ t \in Seq(TrackedObject) /\ Len(t) \in Len(s)..(Len(s) + CreatedBy(w, full))
        /\ CreatedBy(w, full) \in Nat
        /\ \A i \in 1..Len(s) :
              /\ t[i].id = s[i].id
              /\ t[i].version = IF s[i].id \in MutatedBy(w, full) THEN rpc[w].gas + 1 ELSE s[i].version
        /\ \A i \in (Len(s) + 1)..Len(t) : t[i].id = b + (i - Len(s))
    BY <1>5, ReplyList, Zenon
  <2>5. \A i \in 1..Len(s) : s[i].id <= b BY <2>2, Zenon DEF RefInv, Pending
  <2> HIDE DEF s, t, b
  <2>6. Len(s) \in Nat /\ Len(t) \in Nat /\ Len(s) <= Len(t) /\ b \in Nat
    BY <1>0, <2>4 DEF s, b
  <2>7. k \in 1..Len(s) /\ s[k].id = id BY <1>a, Zenon DEF s
  <2>8. k \in 1..Len(t) BY <2>6, <2>7
  <2>9. t[k].id = id BY <2>4, <2>7, Zenon
  <2>10. ASSUME NEW i \in 1..Len(t), t[i].id = id PROVE t[i].version < chain[w].obj[id]
    <3>1. CASE i \in 1..Len(s)
      <4>1. t[i].id = s[i].id /\ s[i].id = id BY <2>4, <2>10, <3>1, Zenon
      <4>2. t[i].version = s[i].version BY <2>3, <2>4, <3>1, <4>1, Zenon
      <4> QED BY <1>b, <3>1, <4>1, <4>2, Zenon DEF s
    <3>2. CASE i \in (Len(s) + 1)..Len(t)
      <4>1. t[i].id = b + (i - Len(s)) BY <2>4, <3>2, Zenon
      <4>2. id <= b BY <2>5, <2>7, Zenon
      <4>3. i - Len(s) > 0 /\ i - Len(s) \in Nat BY <2>6, <3>2
      <4> QED BY <2>6, <2>10, <4>1, <4>2, <4>3
    <3> QED BY <2>6, <3>1, <3>2
  <2> QED BY <2>1, <2>2, <2>8, <2>9, <2>10, DeadFacts, Zenon DEF t
<1>6. ASSUME NEW tx \in net[w], NEW ok \in BOOLEAN, Execute(w, tx, ok),
             UNCHANGED <<gas_coin, objects, rpc, pc>>
      PROVE  id \in Dead(w)'
  <2>1. /\ chain'[w].obj = ObjectsAfter(w, tx, ok) /\ done'[w].tx = tx
        /\ Current(w, tx) /\ tx.gas = chain[w].gas /\ tx \in Transaction
    BY <1>6, ExecuteFacts, SMTT(30)
  <2>2. tx.gas = gas_coin[w]
    <3>1. tx.gas <= gas_coin[w] /\ chain[w].gas \in {gas_coin[w], gas_coin[w] + 1} BY Zenon DEF GasInv
    <3> QED BY <1>0, <2>1, <3>1
  <2>3. id \notin Ids(tx.inputs)
    <3>1. SUFFICES ASSUME NEW r \in tx.inputs, r.id = id PROVE FALSE BY Zenon DEF Ids
    <3>2. r.version = chain[w].obj[id] BY <2>1, <3>1, Zenon DEF Current
    <3>3. objects[w][k] = r BY <1>a, <2>2, <3>1, Zenon DEF InputsInv
    <3>4. r.version < chain[w].obj[id] BY <1>a, <1>b, <3>1, <3>3, Zenon
    <3>5. r.version \in Nat
      <4>1. objects[w][k] \in TrackedObject BY <1>0, <1>a
      <4> QED BY <3>3, <4>1, Zenon DEF TrackedObject
    <3> QED BY <3>2, <3>4, <3>5
  <2>4. id \in 1..Len(chain[w].obj) BY <1>a, Zenon DEF RefInv, Tracked
  <2>5. chain'[w].obj[id] = chain[w].obj[id]
    <3> DEFINE n == Len(chain[w].obj)
               c == IF ok THEN tx.create ELSE 0
    <3>1. c \in Nat
      <4>1. tx.create \in Nat /\ 0 \in Nat BY <2>1, Zenon DEF Transaction
      <4> QED BY <4>1, Zenon
    <3>2. /\ Len(ObjectsAfter(w, tx, ok)) = n + c
          /\ \A i \in 1..Len(ObjectsAfter(w, tx, ok)) :
                ObjectsAfter(w, tx, ok)[i] = IF i > n \/ i \in Ids(tx.inputs) THEN tx.gas + 1 ELSE chain[w].obj[i]
      <4>1. NodeTypeOK /\ tx \in Transaction BY <2>1, Zenon DEF TypeOK
      <4> QED BY <4>1, ObjectsAfterFacts, Zenon
    <3>3. id \in 1..n /\ n \in Nat BY <1>0, <2>4, Zenon
    <3> HIDE DEF n, c
    <3>4. id \in 1..(n + c) /\ ~(id > n) BY <3>1, <3>3
    <3> QED BY <2>1, <2>3, <3>2, <3>4, Zenon
  <2> QED BY <1>6, <1>a, <1>b, <2>1, <2>3, <2>5, DeadFacts, Zenon
<1> QED BY <1>2, <1>3, <1>4, <1>5, <1>6, RefStep, Zenon

LEMMA InputsInit == Init => \A w \in Worker : InputsInv(w)
BY Zenon DEF Init, NodeInit, InputsInv

-----------------------------------------------------------------------------
(* The tracked objects: coherence as long as every answer arrives whole *)

\* Without a fault w has nothing under way but the call it awaits, and what it
\* has not seen are the effects of that call.
CoherentInv(w) ==
    /\ net[w] \subseteq {rpc[w]}
    /\ pc[w] # "rpc" => net[w] = {}
    /\ Unseen(w) => pc[w] = "rpc" /\ Executed(w, rpc[w]) /\ net[w] = {}
    /\ \A i \in 1..Len(objects[w]) :
           \/ objects[w][i].version = chain[w].obj[objects[w][i].id]
           \/ Unseen(w) /\ objects[w][i].id \in Ids(rpc[w].inputs)

\* Faults are counted and never forgotten; an answer without object changes is one.
LEMMA FaultSteps ==
    ASSUME TypeOK, [Next]_vars, faults' = 0
    PROVE  /\ faults = 0
           /\ \A w \in Worker, full \in BOOLEAN : RpcReply(w, full) => full
<1> USE DEF sharedVars, workerVars
<1>0. faults \in Nat BY Zenon DEF TypeOK, SharedTypeOK
<1>1. ASSUME NEW w \in Worker, WorkerStep(w) PROVE faults' = faults
  BY <1>1, Zenon DEF WorkerStep, LoopExit, LoopHead, EmergencyGate, AcquirePermit, SendCreate, SendUpdate,
                     Send, UpdateNothing, CountSubmitted, MatchResult, ReleasePermit
<1>2. ASSUME NEW w \in Worker, RpcReturn(w) \/ NodeExecute(w) PROVE faults' \in {faults, faults + 1}
  BY <1>2, Zenon DEF RpcReturn, RpcReply, RpcRefused, RpcLost, NodeExecute
<1>3. ASSUME MemoryMonitor \/ Reporter \/ DeadlinePasses \/ JoinWorkers \/ UNCHANGED vars PROVE faults' = faults
  BY <1>3, Zenon DEF MemoryMonitor, Reporter, ReportStep, DeadlinePasses, JoinWorkers, vars
<1>4. faults' \in {faults, faults + 1} BY <1>1, <1>2, <1>3, Zenon DEF Next, Terminated
<1>5. ASSUME NEW w \in Worker, NEW full \in BOOLEAN, RpcReply(w, full), ~full PROVE FALSE
  <2>1. faults' = faults + 1 BY <1>5, Zenon DEF RpcReply
  <2> QED BY <1>0, <2>1
<1> QED BY <1>0, <1>4, <1>5

\* A refusal or an answer ends the only call under way, and the answer brings
\* exactly the references of the objects its execution touched up to date.
LEMMA CoherentStep ==
    ASSUME TypeOK, [Next]_vars, NEW w \in Worker, GasInv(w), RefInv(w), CoherentInv(w), faults' = 0
    PROVE  CoherentInv(w)'
<1>0. /\ objects[w] \in Seq(TrackedObject) /\ Len(objects[w]) \in Nat
      /\ chain[w].gas \in Nat /\ gas_coin[w] \in Nat /\ Len(chain[w].obj) \in Nat
      /\ rpc[w].gas \in Nat /\ done[w].base \in Nat /\ done[w].tx.gas \in Nat
  BY WorkerTypes, Zenon
<1>a. /\ net[w] \subseteq {rpc[w]}
      /\ pc[w] # "rpc" => net[w] = {}
      /\ Unseen(w) => pc[w] = "rpc" /\ done[w].tx = rpc[w] /\ net[w] = {}
      /\ \A i \in 1..Len(objects[w]) :
            \/ objects[w][i].version = chain[w].obj[objects[w][i].id]
            \/ Unseen(w) /\ objects[w][i].id \in Ids(rpc[w].inputs)
  BY Zenon DEF CoherentInv, Executed
<1>b. ~Unseen(w) => chain[w].gas = gas_coin[w] BY <1>0 DEF GasInv, Unseen
<1>1. CASE Idle(w)
  <2>1. /\ chain'[w] = chain[w] /\ net'[w] = net[w] /\ done'[w] = done[w]
        /\ gas_coin'[w] = gas_coin[w] /\ rpc'[w] = rpc[w] /\ (pc'[w] = "rpc" <=> pc[w] = "rpc")
    BY <1>1, Zenon DEF Idle
  <2>2. Unseen(w)' <=> Unseen(w) BY <2>1, Zenon DEF Unseen
  <2>3. \A i \in 1..Len(objects'[w]) : i \in 1..Len(objects[w]) /\ objects'[w][i] = objects[w][i]
    BY <1>1, PrefixSteps, Zenon DEF Prefix
  <2>4. \A i \in 1..Len(objects'[w]) :
           \/ objects'[w][i].version = chain'[w].obj[objects'[w][i].id]
           \/ Unseen(w)' /\ objects'[w][i].id \in Ids(rpc'[w].inputs)
    BY <1>a, <2>1, <2>2, <2>3, Zenon
  <2> QED BY <1>a, <2>1, <2>2, <2>4, Zenon DEF CoherentInv, Executed
<1>c. ASSUME ~Unseen(w)', net'[w] \subseteq {rpc'[w]}, pc'[w] # "rpc" => net'[w] = {},
             chain'[w] = chain[w], objects'[w] = objects[w], ~Unseen(w)
      PROVE  CoherentInv(w)'
  <2>0. \A i \in 1..Len(objects[w]) : objects[w][i].version = chain[w].obj[objects[w][i].id]
    BY <1>a, <1>c, Zenon
  <2>1. \A i \in 1..Len(objects'[w]) : objects'[w][i].version = chain'[w].obj[objects'[w][i].id]
    BY <1>c, <2>0, Zenon
  <2> QED BY <1>c, <2>1, Zenon DEF CoherentInv
<1>2. ASSUME NEW tx \in Transaction, Sends(w, tx) PROVE CoherentInv(w)'
  <2>1. /\ pc[w] = "execute" /\ pc'[w] = "rpc" /\ rpc'[w] = tx /\ net'[w] = net[w] \cup {tx}
        /\ chain'[w] = chain[w] /\ gas_coin'[w] = gas_coin[w] /\ objects'[w] = objects[w]
    BY <1>2, Zenon DEF Sends
  <2>2. net[w] = {} /\ ~Unseen(w) BY <1>a, <2>1, Zenon
  <2>3. ~Unseen(w)' BY <2>1, <2>2, Zenon DEF Unseen
  <2>4. net'[w] \subseteq {rpc'[w]} BY <2>1, <2>2, Zenon
  <2> QED BY <1>c, <2>1, <2>2, <2>3, <2>4, Zenon
<1>3. CASE Fails(w)
  <2>1. /\ pc[w] = "rpc" /\ pc'[w] = "count" /\ rpc'[w] = rpc[w] /\ net'[w] = net[w] \ {rpc[w]}
        /\ chain'[w] = chain[w] /\ gas_coin'[w] = gas_coin[w] /\ objects'[w] = objects[w]
    BY <1>3, Zenon DEF Fails
  <2>2. net'[w] = {} BY <1>a, <2>1, Zenon
  <2>3. ~Unseen(w) BY <1>3, <1>a, Zenon DEF Fails, Executed
  <2>4. ~Unseen(w)' BY <2>1, <2>3, Zenon DEF Unseen
  <2> QED BY <1>c, <2>1, <2>2, <2>3, <2>4, Zenon
<1>4. ASSUME NEW full \in BOOLEAN, RpcReply(w, full) PROVE CoherentInv(w)'
  <2> DEFINE s == objects[w]
             t == objects'[w]
             b == done[w].base
             o == chain[w].obj
             v == rpc[w].gas + 1
             n == CreatedBy(w, full)
  <2>1. /\ pc[w] = "rpc" /\ pc'[w] = "count" /\ done[w].tx = rpc[w] /\ gas_coin'[w] = v
        /\ chain'[w] = chain[w] /\ done'[w] = done[w] /\ net'[w] = net[w]
    BY <1>4, ReplyFacts, Zenon
  <2>2. Unseen(w) /\ ~Unseen(w)' /\ v = chain[w].gas BY <1>0, <2>1 DEF GasInv, Unseen
  <2>3. net'[w] = {} BY <1>a, <2>1, <2>2, Zenon
  <2>4. full BY <1>4, FaultSteps, Zenon
  <2>5. MutatedBy(w, full) = Ids(rpc[w].inputs) BY <2>4, Zenon DEF MutatedBy
  <2>6. /\ t \in Seq(TrackedObject) /\ Len(t) \in Len(s)..(Len(s) + n) /\ n \in Nat
        /\ \A i \in 1..Len(s) :
              /\ t[i].id = s[i].id
              /\ t[i].version = IF s[i].id \in MutatedBy(w, full) THEN v ELSE s[i].version
        /\ \A i \in (Len(s) + 1)..Len(t) : t[i].id = b + (i - Len(s)) /\ t[i].version = v
    BY <1>4, ReplyList, ZenonT(30)
  <2>7. /\ Len(o) = b + (IF done[w].ok THEN rpc[w].create ELSE 0)
        /\ \A i \in 1..Len(o) : i > b \/ i \in Ids(rpc[w].inputs) => o[i] = v
    BY <2>1, <2>2, Zenon DEF RefInv, Pending
  <2>8. n = IF done[w].ok THEN rpc[w].create ELSE 0 BY <2>4, Zenon DEF CreatedBy
  <2>9. Len(o) = b + n BY <2>7, <2>8, Zenon
  <2>10. \A i \in 1..Len(s) : s[i].id \in 1..Len(o) BY Zenon DEF RefInv, Tracked
  <2>11. \A i \in 1..Len(s) : s[i].version = o[s[i].id] \/ s[i].id \in Ids(rpc[w].inputs) BY <1>a, Zenon
  <2>12. Len(s) \in Nat /\ b \in Nat /\ Len(o) \in Nat BY <1>0, Zenon
  <2> HIDE DEF s, t, b, o, v, n
  <2>13. Len(t) \in Nat /\ Len(s) <= Len(t) /\ Len(t) <= Len(s) + n BY <2>6, <2>12
  <2>14. ASSUME NEW i \in 1..Len(t) PROVE t[i].version = o[t[i].id]
    <3>1. CASE i \in 1..Len(s)
      <4>1. t[i].id = s[i].id BY <2>6, <3>1, Zenon
      <4>2. CASE s[i].id \in Ids(rpc[w].inputs)
        <5>1. t[i].version = v BY <2>5, <2>6, <3>1, <4>2, Zenon
        <5>2. o[s[i].id] = v BY <2>7, <2>10, <3>1, <4>2, Zenon
        <5> QED BY <4>1, <5>1, <5>2, Zenon
      <4>3. CASE s[i].id \notin Ids(rpc[w].inputs)
        <5>1. t[i].version = s[i].version BY <2>5, <2>6, <3>1, <4>3, Zenon
        <5> QED BY <2>11, <3>1, <4>1, <4>3, <5>1, Zenon
      <4> QED BY <4>2, <4>3, Zenon
    <3>2. CASE i \in (Len(s) + 1)..Len(t)
      <4>1. t[i].id = b + (i - Len(s)) /\ t[i].version = v BY <2>6, <3>2, Zenon
      <4>2. b + (i - Len(s)) \in 1..Len(o) /\ b + (i - Len(s)) > b
        BY <2>6, <2>9, <2>12, <2>13, <3>2
      <4>3. o[b + (i - Len(s))] = v BY <2>7, <4>2, Zenon
      <4> QED BY <4>1, <4>3, Zenon
    <3> QED BY <2>12, <2>13, <3>1, <3>2
  <2>15. \A i \in 1..Len(objects'[w]) : objects'[w][i].version = chain'[w].obj[objects'[w][i].id]
    BY <2>1, <2>14, Zenon DEF t, o
  <2> QED BY <2>2, <2>3, <2>15, Zenon DEF CoherentInv
<1>5. ASSUME NEW tx \in net[w], NEW ok \in BOOLEAN, Execute(w, tx, ok),
             UNCHANGED <<gas_coin, objects, rpc, pc>>
      PROVE  CoherentInv(w)'
  <2> DEFINE o == chain[w].obj
             n == Len(chain[w].obj)
             c == IF ok THEN tx.create ELSE 0
  <2>1. /\ chain'[w].gas = tx.gas + 1 /\ chain'[w].obj = ObjectsAfter(w, tx, ok)
        /\ done'[w].tx = tx /\ net'[w] = {} /\ tx.gas = chain[w].gas /\ tx \in Transaction
    BY <1>5, ExecuteFacts, SMTT(30)
  <2>2. tx = rpc[w] /\ pc[w] = "rpc" /\ ~Unseen(w)
    <3>1. net[w] \subseteq {rpc[w]} /\ (pc[w] # "rpc" => net[w] = {}) /\ (Unseen(w) => net[w] = {})
      BY <1>a, Zenon
    <3> QED BY <3>1, Zenon
  <2>3. Unseen(w)'
    <3>1. chain'[w].gas = gas_coin[w] + 1 BY <1>b, <2>1, <2>2, Zenon
    <3>2. gas_coin' = gas_coin BY <1>5, Zenon
    <3>3. gas_coin'[w] = gas_coin[w] BY <3>2, Zenon
    <3> QED BY <1>0, <3>1, <3>3 DEF Unseen
  <2>4. Executed(w, rpc[w])' BY <1>5, <2>1, <2>2, Zenon DEF Executed
  <2>5. c \in Nat
    <3>1. tx.create \in Nat /\ 0 \in Nat BY <2>1, Zenon DEF Transaction
    <3> QED BY <3>1, Zenon
  <2>6. /\ Len(ObjectsAfter(w, tx, ok)) = n + c
        /\ \A i \in 1..Len(ObjectsAfter(w, tx, ok)) :
              ObjectsAfter(w, tx, ok)[i] = IF i > n \/ i \in Ids(tx.inputs) THEN tx.gas + 1 ELSE o[i]
    <3>1. NodeTypeOK /\ tx \in Transaction BY <2>1, Zenon DEF TypeOK
    <3> QED BY <3>1, ObjectsAfterFacts, Zenon
  <2>7. n \in Nat BY <1>0, Zenon
  <2>8. \A i \in 1..Len(objects[w]) : objects[w][i].id \in 1..n BY Zenon DEF RefInv, Tracked
  <2>9. \A i \in 1..Len(objects[w]) : objects[w][i].version = o[objects[w][i].id] BY <1>a, <2>2, Zenon
  <2> HIDE DEF o, n, c
  <2>10. ASSUME NEW i \in 1..n, i \notin Ids(tx.inputs) PROVE chain'[w].obj[i] = o[i]
    <3>1. i \in 1..(n + c) /\ ~(i > n) BY <2>5, <2>7
    <3> QED BY <2>1, <2>6, <2>10, <3>1, Zenon
  <2>11. \A i \in 1..Len(objects'[w]) :
            \/ objects'[w][i].version = chain'[w].obj[objects'[w][i].id]
            \/ Unseen(w)' /\ objects'[w][i].id \in Ids(rpc'[w].inputs)
    <3>1. objects' = objects /\ rpc' = rpc BY <1>5, Zenon
    <3>2. ASSUME NEW i \in 1..Len(objects[w])
          PROVE  objects[w][i].version = chain'[w].obj[objects[w][i].id] \/ objects[w][i].id \in Ids(rpc[w].inputs)
      BY <2>2, <2>8, <2>9, <2>10, Zenon
    <3> QED BY <2>3, <3>1, <3>2, Zenon
  <2>12. pc'[w] = "rpc" BY <1>5, <2>2, Zenon
  <2> QED BY <2>1, <2>4, <2>11, <2>12, ZenonT(30) DEF CoherentInv
<1> QED BY <1>1, <1>2, <1>3, <1>4, <1>5, RefStep, Zenon

LEMMA CoherentInit == Init => \A w \in Worker : CoherentInv(w)
<1> SUFFICES ASSUME Init, NEW w \in Worker PROVE CoherentInv(w) BY Zenon
<1> DEFINE k == Smaller(SeedObjects, MaxTracked)
<1>1. k \in Nat /\ k <= SeedObjects /\ SeedObjects \in Nat
  BY SeedAssumption, TrackedAssumption DEF Smaller
<1>2. objects[w] = [i \in 1..k |-> [id |-> i, version |-> 1]] BY Zenon DEF Init
<1>3. chain[w].gas = 1 /\ chain[w].obj = [i \in 1..SeedObjects |-> 1] /\ gas_coin[w] = 1 /\ net[w] = {}
  BY Zenon DEF Init, NodeInit
<1>4. ~Unseen(w) BY <1>3 DEF Unseen
<1> HIDE DEF k
<1>5. [i \in 1..k |-> [id |-> i, version |-> 1]] \in [1..k -> TrackedObject] BY <1>1 DEF TrackedObject
<1>6. Len(objects[w]) = k BY <1>1, <1>2, <1>5, IntervalIsSeq
<1>7. ASSUME NEW i \in 1..k PROVE objects[w][i].version = chain[w].obj[objects[w][i].id]
  <2>1. objects[w][i].id = i /\ objects[w][i].version = 1 BY <1>2
  <2>2. i \in 1..SeedObjects BY <1>1
  <2>3. chain[w].obj[i] = 1 BY <1>3, <2>2, Zenon
  <2> QED BY <2>1, <2>3, Zenon
<1> QED BY <1>3, <1>4, <1>6, <1>7, Zenon DEF CoherentInv

-----------------------------------------------------------------------------
(* Types *)

\* The types are right initially.
LEMMA TypeInit == Init => TypeOK
<1> SUFFICES ASSUME Init PROVE TypeOK
  BY Zenon
<1>1. Smaller(SeedObjects, MaxTracked) \in Nat /\ SeedObjects \in Nat
  BY SeedAssumption, TrackedAssumption, Zenon DEF Smaller
<1>2. [i \in 1..SeedObjects |-> 1] \in Seq(Nat)
  <2>1. [i \in 1..SeedObjects |-> 1] \in [1..SeedObjects -> Nat] BY Zenon
  <2> QED BY <1>1, <2>1, IntervalIsSeq, Zenon
<1>3. [i \in 1..Smaller(SeedObjects, MaxTracked) |-> [id |-> i, version |-> 1]] \in Seq(TrackedObject)
  <2>1. [i \in 1..Smaller(SeedObjects, MaxTracked) |-> [id |-> i, version |-> 1]]
            \in [1..Smaller(SeedObjects, MaxTracked) -> TrackedObject]
    BY <1>1, SMTT(30) DEF TrackedObject
  <2> QED BY <1>1, <2>1, IntervalIsSeq, Zenon
<1>4. NodeTypeOK
  <2>1. NodeInit BY Zenon DEF Init
  <2>2. chain \in [Worker -> [gas : Nat \ {0}, obj : Seq(Nat)]]
    <3> DEFINE c == [gas |-> 1, obj |-> [i \in 1..SeedObjects |-> 1]]
    <3>1. 1 \in Nat \ {0} OBVIOUS
    <3>2. c \in [gas : Nat \ {0}, obj : Seq(Nat)] BY <1>2, <3>1, Zenon
    <3>3. chain = [w \in Worker |-> c] BY <2>1, Zenon DEF NodeInit
    <3> HIDE DEF c
    <3> QED BY <3>2, <3>3, Zenon
  <2>3. net \in [Worker -> SUBSET Transaction] BY <2>1, Zenon DEF NodeInit
  <2>4. done \in [Worker -> Effects]
    <3> DEFINE e == [tx |-> NoTx, ok |-> TRUE, base |-> 0]
    <3>1. NoTx \in Transaction BY Zenon DEF NoTx, Transaction
    <3>2. e \in Effects BY <3>1, Zenon DEF Effects
    <3>3. done = [w \in Worker |-> e] BY <2>1, Zenon DEF NodeInit
    <3> HIDE DEF e
    <3> QED BY <3>2, <3>3, Zenon
  <2> QED BY <2>2, <2>3, <2>4, Zenon DEF NodeTypeOK
<1> QED
  <2>1. running \in BOOLEAN /\ expired \in BOOLEAN /\ result \in [Worker -> Result]
    BY Zenon DEF Init, Result, Failure
  <2>2. /\ permits \in 0..MaxInflight
        /\ consecutive_failures \in [Worker -> 0..MaxFailures]
        /\ memory_pressure \in 0..3 /\ pressure_level \in [Worker -> 0..3]
        /\ stats \in BenchStats
    BY InflightAssumption, FailuresAssumption, SMTT(30) DEF Init, BenchStats, MEM_PRESSURE_NORMAL
  <2>3. /\ pc \in [Worker -> Location]
        /\ gas_coin \in [Worker -> Nat \ {0}]
        /\ rpc \in [Worker -> Transaction]
        /\ attempts \in [Worker -> Nat] /\ faults \in Nat /\ lateCreates \in [Worker -> Nat]
        /\ report \in [next : {"check", "submitted", "success", "failed"}, lines : Nat,
                       submitted : Nat, success : Nat, failed : Nat]
    BY DEF Init, Location, NoTx, Transaction
  <2>4. objects \in [Worker -> Seq(TrackedObject)]
    BY <1>3, Zenon DEF Init
  <2> QED BY <1>4, <2>1, <2>2, <2>3, <2>4, Zenon DEF TypeOK, SharedTypeOK, WorkerTypeOK

\* Every step keeps the types, as long as a permit is only returned while one is
\* out, and the number of some positions of a list is a number.
LEMMA TypesKept ==
    ASSUME TypeOK, [Next]_vars,
           \A w \in Worker : ReleasePermit(w) => permits < MaxInflight,
           \A n \in Nat : \A I \in SUBSET (1..n) : Cardinality(I) \in Nat
    PROVE  TypeOK'
<1> USE DEF sharedVars, workerVars, nodeVars
<1>0. /\ UNCHANGED nodeVars => NodeTypeOK'
      /\ UNCHANGED sharedVars => SharedTypeOK'
      /\ UNCHANGED workerVars => WorkerTypeOK'
  BY Zenon DEF TypeOK, NodeTypeOK, SharedTypeOK, WorkerTypeOK
<1>a. \A w \in Worker, l \in Location : [pc EXCEPT ![w] = l] \in [Worker -> Location]
  BY Zenon DEF TypeOK, WorkerTypeOK
<1>b. \A l \in Holding \cup {"head", "emergency", "acquire", "done"} : l \in Location
  BY Zenon DEF Location
<1>1. ASSUME NEW w \in Worker, LoopExit(w) PROVE TypeOK'
  <2>1. UNCHANGED nodeVars /\ UNCHANGED sharedVars BY <1>1, Zenon DEF LoopExit
  <2>2. WorkerTypeOK' BY <1>1, <1>a, <1>b, Zenon DEF LoopExit, TypeOK, WorkerTypeOK
  <2> QED BY <1>0, <2>1, <2>2, Zenon DEF TypeOK
<1>2. ASSUME NEW w \in Worker, LoopHead(w) PROVE TypeOK'
  <2>1. UNCHANGED nodeVars /\ UNCHANGED sharedVars BY <1>2, Zenon DEF LoopHead
  <2>2. memory_pressure \in 0..3 /\ objects[w] \in Seq(TrackedObject)
    BY Zenon DEF TypeOK, SharedTypeOK, WorkerTypeOK
  <2>3. Truncate(objects[w], memory_pressure) \in Seq(TrackedObject) BY <2>2, TruncateFacts, Zenon
  <2>4. pc' \in [Worker -> Location] BY <1>2, <1>a, <1>b, Zenon DEF LoopHead
  <2>5. WorkerTypeOK' BY <1>2, <2>2, <2>3, <2>4, Zenon DEF LoopHead, TypeOK, WorkerTypeOK
  <2> QED BY <1>0, <2>1, <2>5, Zenon DEF TypeOK
<1>3. ASSUME NEW w \in Worker, EmergencyGate(w) PROVE TypeOK'
  <2>1. UNCHANGED nodeVars /\ UNCHANGED sharedVars BY <1>3, Zenon DEF EmergencyGate
  <2>2. pc' \in [Worker -> Location] BY <1>3, <1>a, <1>b, Zenon DEF EmergencyGate
  <2>3. WorkerTypeOK' BY <1>3, <2>2, Zenon DEF EmergencyGate, TypeOK, WorkerTypeOK
  <2> QED BY <1>0, <2>1, <2>3, Zenon DEF TypeOK
<1>4. ASSUME NEW w \in Worker, AcquirePermit(w) PROVE TypeOK'
  <2>1. UNCHANGED nodeVars BY <1>4, Zenon DEF AcquirePermit
  <2>2. permits' \in 0..MaxInflight BY <1>4, InflightAssumption DEF AcquirePermit, TypeOK, SharedTypeOK
  <2>3. SharedTypeOK' BY <1>4, <2>2, Zenon DEF AcquirePermit, TypeOK, SharedTypeOK
  <2>4. WorkerTypeOK' BY <1>4, <1>a, <1>b, Zenon DEF AcquirePermit, TypeOK, WorkerTypeOK, Holding
  <2> QED BY <1>0, <2>1, <2>3, <2>4, Zenon DEF TypeOK
<1>c. ASSUME NEW w \in Worker, NEW tx \in Transaction, Send(w, tx), lateCreates' \in [Worker -> Nat]
      PROVE  TypeOK'
  <2>1. UNCHANGED sharedVars BY <1>c, Zenon DEF Send
  <2>2. NodeTypeOK' BY <1>c, Zenon DEF Send, Submit, TypeOK, NodeTypeOK
  <2>3. pc' \in [Worker -> Location] BY <1>c, <1>a, <1>b, Zenon DEF Send, Holding
  <2>4. attempts' \in [Worker -> Nat] BY <1>c DEF Send, TypeOK, WorkerTypeOK
  <2>5. rpc' \in [Worker -> Transaction] BY <1>c, Zenon DEF Send, TypeOK, WorkerTypeOK
  <2>6. UNCHANGED <<pressure_level, gas_coin, objects, result, consecutive_failures>> BY <1>c, Zenon DEF Send
  <2>7. WorkerTypeOK' BY <1>c, <2>3, <2>4, <2>5, <2>6, Zenon DEF TypeOK, WorkerTypeOK
  <2> QED BY <1>0, <2>1, <2>2, <2>7, Zenon DEF TypeOK
<1>5. ASSUME NEW w \in Worker, SendCreate(w) PROVE TypeOK'
  <2>1. CreateBatch \in Nat BY BatchAssumption, ModeAssumption, Zenon DEF CreateBatch, Smaller
  <2>2. [gas |-> gas_coin[w], create |-> CreateBatch, inputs |-> {}, first |-> 0] \in Transaction
    BY <2>1, Zenon DEF TypeOK, WorkerTypeOK, Transaction
  <2>3. lateCreates' \in [Worker -> Nat] BY <1>5 DEF SendCreate, TypeOK, WorkerTypeOK
  <2> QED BY <1>5, <1>c, <2>2, <2>3, Zenon DEF SendCreate
<1>6. ASSUME NEW w \in Worker, SendUpdate(w) PROVE TypeOK'
  <2>1. PICK start \in 0..(Len(objects[w]) - 1) :
            Send(w, [gas |-> gas_coin[w], create |-> 0, inputs |-> Window(objects[w], start),
                     first |-> objects[w][start + 1].id])
    BY <1>6, Zenon DEF SendUpdate
  <2>2. objects[w] \in Seq(TrackedObject) /\ objects[w] # <<>> /\ start \in Nat
    BY <1>6 DEF SendUpdate, TypeOK, WorkerTypeOK
  <2>3. Window(objects[w], start) \subseteq TrackedObject
    BY <2>2, WindowFacts
  <2>a. objects[w][start + 1].id \in Nat BY <2>2, FirstFacts, Zenon
  <2>4. [gas |-> gas_coin[w], create |-> 0, inputs |-> Window(objects[w], start),
         first |-> objects[w][start + 1].id] \in Transaction
    <3> DEFINE f == objects[w][start + 1].id
    <3>1. f \in Nat BY <2>a, Zenon
    <3>2. gas_coin[w] \in Nat BY Zenon DEF TypeOK, WorkerTypeOK
    <3> HIDE DEF f
    <3>3. [gas |-> gas_coin[w], create |-> 0, inputs |-> Window(objects[w], start), first |-> f] \in Transaction
      BY <2>3, <3>1, <3>2, Zenon DEF Transaction
    <3> QED BY <3>3, Zenon DEF f
  <2>5. lateCreates' \in [Worker -> Nat] BY <1>6, Zenon DEF SendUpdate, TypeOK, WorkerTypeOK
  <2> QED BY <1>c, <2>1, <2>4, <2>5, Zenon
<1>d. Failure \in Result BY Zenon DEF Failure, Result
<1>7. ASSUME NEW w \in Worker, UpdateNothing(w) PROVE TypeOK'
  <2>1. UNCHANGED nodeVars /\ UNCHANGED sharedVars BY <1>7, Zenon DEF UpdateNothing
  <2>2. pc' = [pc EXCEPT ![w] = "count"] BY <1>7, Zenon DEF UpdateNothing
  <2>3. pc' \in [Worker -> Location] BY <2>2, <1>a, <1>b, ZenonT(30) DEF Holding
  <2>4. attempts' = [attempts EXCEPT ![w] = @ + 1] BY <1>7, Zenon DEF UpdateNothing
  <2>5. attempts' \in [Worker -> Nat] BY <2>4 DEF TypeOK, WorkerTypeOK
  <2>6. result' = [result EXCEPT ![w] = Failure] BY <1>7, Zenon DEF UpdateNothing
  <2>7. result' \in [Worker -> Result] BY <1>d, <2>6, Zenon DEF TypeOK, WorkerTypeOK
  <2>8. UNCHANGED <<pressure_level, gas_coin, objects, rpc, consecutive_failures, lateCreates>>
    BY <1>7, Zenon DEF UpdateNothing
  <2>9. WorkerTypeOK' BY <2>3, <2>5, <2>7, <2>8, Zenon DEF TypeOK, WorkerTypeOK
  <2> QED BY <1>0, <2>1, <2>9, Zenon DEF TypeOK
<1>8. ASSUME NEW w \in Worker, CountSubmitted(w) PROVE TypeOK'
  <2>1. UNCHANGED nodeVars BY <1>8, Zenon DEF CountSubmitted
  <2>2. pc' \in [Worker -> Location] BY <1>8, <1>a, <1>b, Zenon DEF CountSubmitted, Holding
  <2>3. WorkerTypeOK' BY <1>8, <2>2, Zenon DEF CountSubmitted, TypeOK, WorkerTypeOK
  <2>4. stats' \in BenchStats BY <1>8 DEF CountSubmitted, TypeOK, SharedTypeOK, BenchStats
  <2>5. SharedTypeOK' BY <1>8, <2>4, Zenon DEF CountSubmitted, TypeOK, SharedTypeOK
  <2> QED BY <1>0, <2>1, <2>3, <2>5, Zenon DEF TypeOK
<1>9. ASSUME NEW w \in Worker, MatchResult(w) PROVE TypeOK'
  <2>1. UNCHANGED nodeVars BY <1>9, Zenon DEF MatchResult
  <2>2. pc' \in [Worker -> Location] BY <1>9, <1>a, <1>b, Zenon DEF MatchResult, Holding
  <2>3. Smaller(consecutive_failures[w] + 1, MaxFailures) \in 0..MaxFailures
    BY FailuresAssumption DEF Smaller, TypeOK, WorkerTypeOK
  <2>4. consecutive_failures' \in [Worker -> 0..MaxFailures]
    BY <1>9, <2>3, FailuresAssumption DEF MatchResult, TypeOK, WorkerTypeOK
  <2>5. WorkerTypeOK' BY <1>9, <2>2, <2>4, Zenon DEF MatchResult, TypeOK, WorkerTypeOK
  <2>6. result[w].created \in Nat /\ result[w].updated \in Nat BY Zenon DEF TypeOK, WorkerTypeOK, Result
  <2>7. stats' \in BenchStats
    <3>1. CASE result[w].ok
      <4>1. stats' = [stats EXCEPT !.tx_success = @ + 1,
                                   !.objects_created = @ + result[w].created,
                                   !.objects_updated = @ + result[w].updated]
        BY <1>9, <3>1, Zenon DEF MatchResult
      <4> DEFINE s == [stats EXCEPT !.tx_success = @ + 1]
                 t == [s EXCEPT !.objects_created = @ + result[w].created]
      <4>2. s \in BenchStats BY DEF TypeOK, SharedTypeOK, BenchStats
      <4>3. stats' = [t EXCEPT !.objects_updated = @ + result[w].updated] BY <4>1, Zenon
      <4> HIDE DEF s
      <4>4. t \in BenchStats BY <4>2, <2>6 DEF BenchStats
      <4> HIDE DEF t
      <4> QED BY <4>3, <4>4, <2>6 DEF BenchStats
    <3>2. CASE ~result[w].ok
      <4>1. stats' = [stats EXCEPT !.tx_failed = @ + 1]
        BY <1>9, <3>2, Zenon DEF MatchResult
      <4> QED BY <4>1 DEF TypeOK, SharedTypeOK, BenchStats
    <3> QED BY <3>1, <3>2, Zenon
  <2>8. SharedTypeOK' BY <1>9, <2>7, Zenon DEF MatchResult, TypeOK, SharedTypeOK
  <2> QED BY <1>0, <2>1, <2>5, <2>8, Zenon DEF TypeOK
<1>10. ASSUME NEW w \in Worker, ReleasePermit(w) PROVE TypeOK'
  <2>1. UNCHANGED nodeVars BY <1>10, Zenon DEF ReleasePermit
  <2>2. pc' \in [Worker -> Location] BY <1>10, <1>a, <1>b, Zenon DEF ReleasePermit
  <2>3. WorkerTypeOK' BY <1>10, <2>2, Zenon DEF ReleasePermit, TypeOK, WorkerTypeOK
  <2>4. permits' \in 0..MaxInflight
    <3>1. permits < MaxInflight BY <1>10, Zenon
    <3> QED BY <1>10, <3>1, InflightAssumption DEF ReleasePermit, TypeOK, SharedTypeOK
  <2>5. SharedTypeOK' BY <1>10, <2>4, Zenon DEF ReleasePermit, TypeOK, SharedTypeOK
  <2> QED BY <1>0, <2>1, <2>3, <2>5, Zenon DEF TypeOK
<1>11. ASSUME NEW w \in Worker, NEW full \in BOOLEAN, RpcReply(w, full) PROVE TypeOK'
  <2>1. UNCHANGED nodeVars BY <1>11, Zenon DEF RpcReply
  <2>2. faults' \in Nat
    <3>1. faults' = faults \/ faults' = faults + 1 BY <1>11, Zenon DEF RpcReply
    <3> QED BY <3>1 DEF TypeOK, SharedTypeOK
  <2>3. SharedTypeOK' BY <1>11, <2>2, Zenon DEF RpcReply, TypeOK, SharedTypeOK
  <2>4. pc' \in [Worker -> Location] BY <1>11, <1>a, <1>b, Zenon DEF RpcReply, Holding
  <2>5. rpc[w].gas + 1 \in Nat \ {0} /\ objects[w] \in Seq(TrackedObject)
    BY DEF TypeOK, WorkerTypeOK, Transaction
  <2>6. CreatedBy(w, full) \in Nat /\ done[w].base \in Nat
    <3>1. rpc[w].create \in Nat /\ done[w].base \in Nat
      BY Zenon DEF TypeOK, NodeTypeOK, WorkerTypeOK, Transaction, Effects
    <3>2. 0 \in Nat BY Zenon
    <3> QED BY <3>1, <3>2, Zenon DEF CreatedBy
  <2>7. TrackMutated(objects[w], MutatedBy(w, full), rpc[w].gas + 1) \in Seq(TrackedObject)
    BY <2>5, TrackMutatedFacts, Zenon
  <2>8. TrackCreated(TrackMutated(objects[w], MutatedBy(w, full), rpc[w].gas + 1),
                     done[w].base, CreatedBy(w, full), rpc[w].gas + 1) \in Seq(TrackedObject)
    BY <2>5, <2>6, <2>7, TrackCreatedFacts, Zenon
  <2>9. Cardinality({i \in 1..Len(objects[w]) : objects[w][i].id \in MutatedBy(w, full)}) \in Nat
    <3>1. Len(objects[w]) \in Nat BY <2>5
    <3> QED BY <3>1, Zenon
  <2>10. [ok |-> TRUE, created |-> CreatedBy(w, full),
          updated |-> Cardinality({i \in 1..Len(objects[w]) : objects[w][i].id \in MutatedBy(w, full)})] \in Result
    BY <2>6, <2>9, Zenon DEF Result
  <2>11. gas_coin' \in [Worker -> Nat \ {0}] BY <1>11, <2>5, Zenon DEF RpcReply, TypeOK, WorkerTypeOK
  <2>12. objects' \in [Worker -> Seq(TrackedObject)] BY <1>11, <2>8, Zenon DEF RpcReply, TypeOK, WorkerTypeOK
  <2>13. result' \in [Worker -> Result] BY <1>11, <2>10, Zenon DEF RpcReply, TypeOK, WorkerTypeOK
  <2>14. WorkerTypeOK' BY <1>11, <2>4, <2>11, <2>12, <2>13, Zenon DEF RpcReply, TypeOK, WorkerTypeOK
  <2> QED BY <1>0, <2>1, <2>3, <2>14, Zenon DEF TypeOK
<1>e. ASSUME NEW w \in Worker, RpcError(w) PROVE WorkerTypeOK'
  <2>1. pc' \in [Worker -> Location] BY <1>e, <1>a, <1>b, Zenon DEF RpcError, Holding
  <2> QED BY <1>e, <1>d, <2>1, Zenon DEF RpcError, TypeOK, WorkerTypeOK
<1>12. ASSUME NEW w \in Worker, RpcRefused(w) PROVE TypeOK'
  <2>1. UNCHANGED sharedVars BY <1>12, Zenon DEF RpcRefused, RpcError
  <2>2. NodeTypeOK' BY <1>12, Zenon DEF RpcRefused, Refuse, TypeOK, NodeTypeOK
  <2> QED BY <1>0, <1>12, <1>e, <2>1, <2>2, Zenon DEF TypeOK, RpcRefused
<1>13. ASSUME NEW w \in Worker, RpcLost(w) PROVE TypeOK'
  <2>1. UNCHANGED nodeVars /\ RpcError(w) BY <1>13, Zenon DEF RpcLost
  <2>2. faults' \in Nat BY <1>13 DEF RpcLost, TypeOK, SharedTypeOK
  <2>3. SharedTypeOK' BY <2>1, <2>2, Zenon DEF RpcError, TypeOK, SharedTypeOK
  <2> QED BY <1>0, <1>e, <2>1, <2>3, Zenon DEF TypeOK
<1>14. ASSUME NEW w \in Worker, NodeExecute(w) PROVE TypeOK'
  <2>1. PICK tx \in net[w], ok \in BOOLEAN :
            /\ Execute(w, tx, ok)
            /\ faults' = faults \/ faults' = faults + 1
            /\ UNCHANGED <<workerVars, running, expired, memory_pressure, permits, stats, report>>
    BY <1>14, Zenon DEF NodeExecute
  <2>2. faults' \in Nat BY <2>1 DEF TypeOK, SharedTypeOK
  <2>3. SharedTypeOK' BY <2>1, <2>2, Zenon DEF TypeOK, SharedTypeOK
  <2>4. tx \in Transaction /\ tx.gas + 1 \in Nat \ {0} BY DEF TypeOK, NodeTypeOK, Transaction
  <2>5. ObjectsAfter(w, tx, ok) \in Seq(Nat) BY <2>4, ObjectsAfterFacts, Zenon DEF TypeOK
  <2>6. Len(chain[w].obj) \in Nat BY DEF TypeOK, NodeTypeOK
  <2>7. [tx |-> tx, ok |-> ok, base |-> Len(chain[w].obj)] \in Effects BY <2>4, <2>6, Zenon DEF Effects
  <2>8. NodeTypeOK' BY <2>1, <2>4, <2>5, <2>7, Zenon DEF Execute, TypeOK, NodeTypeOK
  <2>9. UNCHANGED workerVars BY <2>1, Zenon
  <2> QED BY <1>0, <2>3, <2>8, <2>9, Zenon DEF TypeOK
<1>15. ASSUME MemoryMonitor PROVE TypeOK'
  <2>1. UNCHANGED nodeVars BY <1>15, Zenon DEF MemoryMonitor
  <2>2. memory_pressure' \in 0..3
    BY <1>15 DEF MemoryMonitor, PressureLevel, MEM_PRESSURE_NORMAL, MEM_PRESSURE_LIGHT,
                 MEM_PRESSURE_HEAVY, MEM_PRESSURE_EMERGENCY
  <2>3. SharedTypeOK' BY <1>15, <2>2, Zenon DEF MemoryMonitor, TypeOK, SharedTypeOK
  <2>4. lateCreates' \in [Worker -> Nat]
    <3>1. lateCreates' = [w \in Worker |-> 0] \/ lateCreates' = lateCreates
      BY <1>15, Zenon DEF MemoryMonitor
    <3> QED BY <3>1, SMTT(20) DEF TypeOK, WorkerTypeOK
  <2>5. WorkerTypeOK' BY <1>15, <2>4, Zenon DEF MemoryMonitor, TypeOK, WorkerTypeOK
  <2> QED BY <1>0, <2>1, <2>3, <2>5, Zenon DEF TypeOK
<1>f. ASSUME NEW from, NEW to \in {"check", "submitted", "success", "failed"}, ReportStep(from, to)
      PROVE  TypeOK'
  <2>1. UNCHANGED nodeVars /\ UNCHANGED workerVars BY <1>f, Zenon DEF ReportStep
  <2>2. stats.tx_submitted \in Nat /\ stats.tx_success \in Nat /\ stats.tx_failed \in Nat
    BY Zenon DEF TypeOK, SharedTypeOK, BenchStats
  <2>3. report' \in [next : {"check", "submitted", "success", "failed"}, lines : Nat,
                     submitted : Nat, success : Nat, failed : Nat]
    <3> DEFINE Report == [next : {"check", "submitted", "success", "failed"}, lines : Nat,
                          submitted : Nat, success : Nat, failed : Nat]
               r1 == [report EXCEPT !.next = to]
               r2 == [r1 EXCEPT !.lines = IF from = "failed" THEN @ + 1 ELSE @]
               r3 == [r2 EXCEPT !.submitted = IF from = "submitted" THEN stats.tx_submitted ELSE @]
               r4 == [r3 EXCEPT !.success = IF from = "success" THEN stats.tx_success ELSE @]
    <3>1. report' = [r4 EXCEPT !.failed = IF from = "failed" THEN stats.tx_failed ELSE @]
      BY <1>f, Zenon DEF ReportStep
    <3>2. r1 \in Report BY Zenon DEF TypeOK, SharedTypeOK
    <3> HIDE DEF r1
    <3>3. r2 \in Report BY <3>2
    <3> HIDE DEF r2
    <3>4. r3 \in Report BY <3>3, <2>2, Zenon
    <3> HIDE DEF r3
    <3>5. r4 \in Report BY <3>4, <2>2, Zenon
    <3> HIDE DEF r4
    <3> QED BY <3>1, <3>5, <2>2, Zenon
  <2>4. SharedTypeOK' BY <1>f, <2>3, Zenon DEF ReportStep, TypeOK, SharedTypeOK
  <2> QED BY <1>0, <2>1, <2>4, Zenon DEF TypeOK
<1>16. ASSUME Reporter PROVE TypeOK'
  BY <1>16, <1>f, Zenon DEF Reporter
<1>17. ASSUME DeadlinePasses \/ JoinWorkers PROVE TypeOK'
  <2>1. UNCHANGED nodeVars /\ UNCHANGED workerVars BY <1>17, Zenon DEF DeadlinePasses, JoinWorkers
  <2>2. SharedTypeOK' BY <1>17, Zenon DEF DeadlinePasses, JoinWorkers, TypeOK, SharedTypeOK
  <2> QED BY <1>0, <2>1, <2>2, Zenon DEF TypeOK
<1>18. ASSUME UNCHANGED vars PROVE TypeOK'
  BY <1>0, <1>18, Zenon DEF vars, TypeOK
<1> QED
  BY <1>1, <1>2, <1>3, <1>4, <1>5, <1>6, <1>7, <1>8, <1>9, <1>10, <1>11, <1>12, <1>13, <1>14,
     <1>15, <1>16, <1>17, <1>18, SMTT(30)
  DEF Next, WorkerStep, RpcReturn, Terminated

-----------------------------------------------------------------------------
(* The counters and the reporter, step by step *)

\* Only the two counting steps touch the counters, and only they move a worker
\* into or out of the place between them.
LEMMA CountingSteps ==
    ASSUME TypeOK, [Next]_vars
    PROVE  \/ \E w \in Worker : CountSubmitted(w) \/ MatchResult(w)
           \/ /\ stats' = stats
              /\ \/ pc' = pc
                 \/ \E w \in Worker, to \in Location :
                       pc[w] # "match" /\ to # "match" /\ pc' = [pc EXCEPT ![w] = to]
<1> USE DEF sharedVars, workerVars
<1> DEFINE Moves(w) == \E to \in Location : pc[w] # "match" /\ to # "match" /\ pc' = [pc EXCEPT ![w] = to]
<1>0. \A l \in Holding \cup {"head", "emergency", "acquire", "done"} : l \in Location
  BY Zenon DEF Location
<1>1. ASSUME NEW w \in Worker, LoopExit(w) \/ LoopHead(w) \/ EmergencyGate(w) PROVE stats' = stats /\ Moves(w)
  <2>1. stats' = stats /\ pc[w] # "match" BY <1>1, Zenon DEF LoopExit, LoopHead, EmergencyGate
  <2>2. PICK to \in {"head", "emergency", "acquire", "done"} : pc' = [pc EXCEPT ![w] = to]
    BY <1>1, Zenon DEF LoopExit, LoopHead, EmergencyGate
  <2> QED BY <1>0, <2>1, <2>2, Zenon
<1>2. ASSUME NEW w \in Worker, AcquirePermit(w) \/ ReleasePermit(w) \/ UpdateNothing(w)
      PROVE  stats' = stats /\ Moves(w)
  <2>1. stats' = stats /\ pc[w] # "match" BY <1>2, Zenon DEF AcquirePermit, ReleasePermit, UpdateNothing
  <2>2. PICK to \in {"execute", "head", "count"} : pc' = [pc EXCEPT ![w] = to]
    BY <1>2, Zenon DEF AcquirePermit, ReleasePermit, UpdateNothing
  <2> QED BY <1>0, <2>1, <2>2, Zenon DEF Holding
<1>3. ASSUME NEW w \in Worker, SendCreate(w) \/ SendUpdate(w) PROVE stats' = stats /\ Moves(w)
  <2>1. stats' = stats /\ pc[w] # "match" /\ pc' = [pc EXCEPT ![w] = "rpc"]
    BY <1>3, Zenon DEF SendCreate, SendUpdate, Send
  <2> QED BY <1>0, <2>1, Zenon DEF Holding
<1>4. ASSUME NEW w \in Worker, RpcReturn(w) PROVE stats' = stats /\ Moves(w)
  <2>1. stats' = stats /\ pc[w] = "rpc" /\ pc' = [pc EXCEPT ![w] = "count"]
    BY <1>4, Zenon DEF RpcReturn, RpcReply, RpcRefused, RpcLost, RpcError
  <2> QED BY <1>0, <2>1, Zenon DEF Holding
<1>5. ASSUME \/ \E w \in Worker : NodeExecute(w)
             \/ MemoryMonitor \/ Reporter \/ DeadlinePasses \/ JoinWorkers \/ UNCHANGED vars
      PROVE  stats' = stats /\ pc' = pc
  BY <1>5, Zenon DEF NodeExecute, MemoryMonitor, Reporter, ReportStep, DeadlinePasses, JoinWorkers, vars
<1> QED BY <1>1, <1>2, <1>3, <1>4, <1>5, Zenon DEF Next, WorkerStep, Terminated

\* The fields of the counters after each of the two.
LEMMA CountingFacts ==
    ASSUME TypeOK, NEW w \in Worker
    PROVE  /\ stats.tx_submitted \in Nat /\ stats.tx_success \in Nat /\ stats.tx_failed \in Nat
           /\ CountSubmitted(w) =>
                 /\ stats'.tx_submitted = stats.tx_submitted + 1
                 /\ stats'.tx_success = stats.tx_success /\ stats'.tx_failed = stats.tx_failed
                 /\ pc[w] = "count" /\ pc' = [pc EXCEPT ![w] = "match"]
           /\ MatchResult(w) =>
                 /\ stats'.tx_submitted = stats.tx_submitted
                 /\ \/ stats'.tx_success = stats.tx_success + 1 /\ stats'.tx_failed = stats.tx_failed
                    \/ stats'.tx_success = stats.tx_success /\ stats'.tx_failed = stats.tx_failed + 1
                 /\ pc[w] = "match" /\ pc' = [pc EXCEPT ![w] = "sleep"]
<1>0. stats \in BenchStats BY Zenon DEF TypeOK, SharedTypeOK
<1>1. stats.tx_submitted \in Nat /\ stats.tx_success \in Nat /\ stats.tx_failed \in Nat
  BY <1>0, Zenon DEF BenchStats
<1>2. ASSUME CountSubmitted(w)
      PROVE  /\ stats'.tx_submitted = stats.tx_submitted + 1
             /\ stats'.tx_success = stats.tx_success /\ stats'.tx_failed = stats.tx_failed
             /\ pc[w] = "count" /\ pc' = [pc EXCEPT ![w] = "match"]
  BY <1>0, <1>2, Zenon DEF CountSubmitted, BenchStats
<1>3. ASSUME MatchResult(w)
      PROVE  /\ stats'.tx_submitted = stats.tx_submitted
             /\ \/ stats'.tx_success = stats.tx_success + 1 /\ stats'.tx_failed = stats.tx_failed
                \/ stats'.tx_success = stats.tx_success /\ stats'.tx_failed = stats.tx_failed + 1
  <2>1. CASE result[w].ok
    <3>1. stats' = [stats EXCEPT !.tx_success = @ + 1,
                                 !.objects_created = @ + result[w].created,
                                 !.objects_updated = @ + result[w].updated]
      BY <1>3, <2>1, Zenon DEF MatchResult
    <3> QED BY <1>0, <3>1, Zenon DEF BenchStats
  <2>2. CASE ~result[w].ok
    <3>1. stats' = [stats EXCEPT !.tx_failed = @ + 1]
      BY <1>3, <2>2, Zenon DEF MatchResult
    <3> QED BY <1>0, <3>1, Zenon DEF BenchStats
  <2> QED BY <2>1, <2>2, Zenon
<1>4. MatchResult(w) => pc[w] = "match" /\ pc' = [pc EXCEPT ![w] = "sleep"]
  BY Zenon DEF MatchResult
<1> QED BY <1>1, <1>2, <1>3, <1>4, Zenon

\* The counters only grow.
LEMMA CountersGrow ==
    ASSUME TypeOK, [Next]_vars
    PROVE  /\ stats.tx_success \in Nat /\ stats.tx_failed \in Nat
           /\ stats'.tx_success \in Nat /\ stats'.tx_failed \in Nat
           /\ stats.tx_success <= stats'.tx_success /\ stats.tx_failed <= stats'.tx_failed
<1>0. PICK v \in Worker : TRUE BY WorkerAssumption, Zenon
<1>1. stats.tx_success \in Nat /\ stats.tx_failed \in Nat BY <1>0, CountingFacts, Zenon
<1>2. ASSUME NEW w \in Worker, CountSubmitted(w) \/ MatchResult(w)
      PROVE  /\ stats'.tx_success \in {stats.tx_success, stats.tx_success + 1}
             /\ stats'.tx_failed \in {stats.tx_failed, stats.tx_failed + 1}
  BY <1>2, CountingFacts, Zenon
<1>3. /\ stats'.tx_success \in {stats.tx_success, stats.tx_success + 1}
      /\ stats'.tx_failed \in {stats.tx_failed, stats.tx_failed + 1}
  BY <1>2, CountingSteps, Zenon
<1> QED BY <1>1, <1>3

\* The reporter's own steps; the steps of others leave `report' alone.
LEMMA ReportSteps ==
    ASSUME TypeOK, [Next]_vars
    PROVE  \/ report' = report
           \/ \E from, to \in {"check", "submitted", "success", "failed"} :
                 /\ <<from, to>> \in {<<"check", "submitted">>, <<"submitted", "success">>,
                                      <<"success", "failed">>, <<"failed", "check">>}
                 /\ report.next = from /\ report'.next = to /\ stats' = stats
                 /\ report'.submitted = IF from = "submitted" THEN stats.tx_submitted ELSE report.submitted
                 /\ report'.success = IF from = "success" THEN stats.tx_success ELSE report.success
                 /\ report'.failed = IF from = "failed" THEN stats.tx_failed ELSE report.failed
<1> USE DEF sharedVars, workerVars
<1>0. report \in [next : {"check", "submitted", "success", "failed"}, lines : Nat,
                  submitted : Nat, success : Nat, failed : Nat]
  BY Zenon DEF TypeOK, SharedTypeOK
<1>1. ASSUME NEW from, NEW to, ReportStep(from, to)
      PROVE  /\ report.next = from /\ report'.next = to /\ stats' = stats
             /\ report'.submitted = IF from = "submitted" THEN stats.tx_submitted ELSE report.submitted
             /\ report'.success = IF from = "success" THEN stats.tx_success ELSE report.success
             /\ report'.failed = IF from = "failed" THEN stats.tx_failed ELSE report.failed
  BY <1>0, <1>1, Zenon DEF ReportStep
<1>2. CASE Reporter
  <2>1. PICK from, to \in {"check", "submitted", "success", "failed"} :
            /\ <<from, to>> \in {<<"check", "submitted">>, <<"submitted", "success">>,
                                 <<"success", "failed">>, <<"failed", "check">>}
            /\ ReportStep(from, to)
    BY <1>2, Zenon DEF Reporter
  <2> HIDE DEF sharedVars, workerVars
  <2> QED BY <1>1, <2>1, Zenon
<1>3. ASSUME NEW w \in Worker, LoopExit(w) \/ LoopHead(w) \/ EmergencyGate(w) \/ AcquirePermit(w)
      PROVE  report' = report
  BY <1>3, Zenon DEF LoopExit, LoopHead, EmergencyGate, AcquirePermit
<1>4. ASSUME NEW w \in Worker, SendCreate(w) \/ SendUpdate(w) \/ UpdateNothing(w) PROVE report' = report
  BY <1>4, Zenon DEF SendCreate, SendUpdate, Send, UpdateNothing
<1>5. ASSUME NEW w \in Worker, CountSubmitted(w) \/ MatchResult(w) \/ ReleasePermit(w) PROVE report' = report
  BY <1>5, Zenon DEF CountSubmitted, MatchResult, ReleasePermit
<1>6. ASSUME NEW w \in Worker, RpcReturn(w) \/ NodeExecute(w) PROVE report' = report
  BY <1>6, Zenon DEF RpcReturn, RpcReply, RpcRefused, RpcLost, RpcError, NodeExecute
<1>7. ASSUME MemoryMonitor \/ DeadlinePasses \/ JoinWorkers \/ UNCHANGED vars PROVE report' = report
  BY <1>7, Zenon DEF MemoryMonitor, DeadlinePasses, JoinWorkers, vars
<1> QED BY <1>2, <1>3, <1>4, <1>5, <1>6, <1>7, Zenon DEF Next, WorkerStep, Terminated

-----------------------------------------------------------------------------
(* Creates after the monitor has stored EMERGENCY *)

\* A worker that has sent a create at the emergency level carries that level the
\* next time it decides what to send.
LateInv(w) ==
    /\ lateCreates[w] <= 1
    /\ /\ memory_pressure = MEM_PRESSURE_EMERGENCY
       /\ pressure_level[w] # MEM_PRESSURE_EMERGENCY
       /\ pc[w] \in {"emergency", "acquire", "execute"}
       => lateCreates[w] = 0

\* Only a create counts, only the monitor changes the level, and only the head of
\* the loop reads it.
LEMMA LateSteps ==
    ASSUME TypeOK, [Next]_vars, NEW w \in Worker
    PROVE  \/ MemoryMonitor
           \/ SendCreate(w)
           \/ LoopHead(w)
           \/ /\ memory_pressure' = memory_pressure /\ lateCreates'[w] = lateCreates[w]
              /\ pressure_level'[w] = pressure_level[w]
              /\ pc'[w] \in {"emergency", "acquire", "execute"} => pc[w] \in {"emergency", "acquire", "execute"}
<1> USE DEF sharedVars, workerVars
<1> DEFINE Same == /\ memory_pressure' = memory_pressure /\ lateCreates'[w] = lateCreates[w]
                   /\ pressure_level'[w] = pressure_level[w]
                   /\ pc'[w] \in {"emergency", "acquire", "execute"} =>
                         pc[w] \in {"emergency", "acquire", "execute"}
<1>0. /\ pc \in [Worker -> Location] /\ pressure_level \in [Worker -> 0..3]
      /\ lateCreates \in [Worker -> Nat]
  BY Zenon DEF TypeOK, WorkerTypeOK
<1>1. ASSUME NEW v \in Worker, v # w, LoopHead(v) \/ SendCreate(v) PROVE Same
  BY <1>0, <1>1, Zenon DEF LoopHead, SendCreate, Send
<1>2. ASSUME NEW v \in Worker, LoopExit(v) \/ EmergencyGate(v) \/ AcquirePermit(v) PROVE Same
  BY <1>0, <1>2, Zenon DEF LoopExit, EmergencyGate, AcquirePermit
<1>3. ASSUME NEW v \in Worker, SendUpdate(v) \/ UpdateNothing(v) PROVE Same
  BY <1>0, <1>3, Zenon DEF SendUpdate, Send, UpdateNothing
<1>4. ASSUME NEW v \in Worker, CountSubmitted(v) \/ MatchResult(v) \/ ReleasePermit(v) PROVE Same
  BY <1>0, <1>4, Zenon DEF CountSubmitted, MatchResult, ReleasePermit
<1>5. ASSUME NEW v \in Worker, RpcReturn(v) PROVE Same
  <2>1. /\ pc' = [pc EXCEPT ![v] = "count"]
        /\ UNCHANGED <<memory_pressure, lateCreates, pressure_level>>
    BY <1>5, Zenon DEF RpcReturn, RpcReply, RpcRefused, RpcLost, RpcError
  <2> QED BY <1>0, <2>1, Zenon
<1>6. ASSUME \/ \E v \in Worker : NodeExecute(v)
             \/ Reporter \/ DeadlinePasses \/ JoinWorkers \/ UNCHANGED vars
      PROVE  Same
  BY <1>6, Zenon DEF NodeExecute, Reporter, ReportStep, DeadlinePasses, JoinWorkers, vars
<1> QED BY <1>1, <1>2, <1>3, <1>4, <1>5, <1>6, Zenon DEF Next, WorkerStep, Terminated

LEMMA LateStep ==
    ASSUME TypeOK, [Next]_vars, NEW w \in Worker, LateInv(w)
    PROVE  LateInv(w)'
<1>0. /\ lateCreates \in [Worker -> Nat] /\ pc \in [Worker -> Location]
      /\ pressure_level \in [Worker -> 0..3]
  BY Zenon DEF TypeOK, WorkerTypeOK
<1>1. CASE MemoryMonitor
  <2>1. UNCHANGED <<pc, pressure_level>> BY <1>1, Zenon DEF MemoryMonitor
  <2>2. CASE memory_pressure' = MEM_PRESSURE_EMERGENCY /\ memory_pressure # MEM_PRESSURE_EMERGENCY
    <3>1. lateCreates' = [v \in Worker |-> 0] BY <1>1, <2>2, Zenon DEF MemoryMonitor
    <3>2. lateCreates'[w] = 0 BY <3>1, Zenon
    <3> QED BY <3>2 DEF LateInv
  <2>3. CASE ~(memory_pressure' = MEM_PRESSURE_EMERGENCY /\ memory_pressure # MEM_PRESSURE_EMERGENCY)
    <3>1. lateCreates' = lateCreates BY <1>1, <2>3, Zenon DEF MemoryMonitor
    <3> QED BY <2>1, <2>3, <3>1, Zenon DEF LateInv
  <2> QED BY <2>2, <2>3, Zenon
<1>2. CASE SendCreate(w)
  <2>1. /\ pc[w] = "execute" /\ pressure_level[w] # MEM_PRESSURE_EMERGENCY /\ pc'[w] = "rpc"
    BY <1>0, <1>2, Zenon DEF SendCreate, MayCreate, Send
  <2>2. CASE memory_pressure = MEM_PRESSURE_EMERGENCY
    <3>1. lateCreates[w] = 0 BY <2>1, <2>2, Zenon DEF LateInv
    <3>2. lateCreates'[w] = 1 BY <1>0, <1>2, <2>2, <3>1 DEF SendCreate
    <3>3. ~(pc'[w] \in {"emergency", "acquire", "execute"}) BY <2>1, Zenon
    <3> QED BY <3>2, <3>3 DEF LateInv
  <2>3. CASE memory_pressure # MEM_PRESSURE_EMERGENCY
    <3>1. lateCreates' = lateCreates BY <1>2, <2>3, Zenon DEF SendCreate
    <3> QED BY <2>1, <3>1, Zenon DEF LateInv
  <2> QED BY <2>2, <2>3, Zenon
<1>3. CASE LoopHead(w)
  <2>1. /\ pressure_level'[w] = memory_pressure /\ memory_pressure' = memory_pressure
        /\ lateCreates' = lateCreates
    BY <1>0, <1>3, Zenon DEF LoopHead, sharedVars
  <2> QED BY <2>1, Zenon DEF LateInv
<1>4. ASSUME memory_pressure' = memory_pressure, lateCreates'[w] = lateCreates[w],
             pressure_level'[w] = pressure_level[w],
             pc'[w] \in {"emergency", "acquire", "execute"} => pc[w] \in {"emergency", "acquire", "execute"}
      PROVE  LateInv(w)'
  BY <1>4, Zenon DEF LateInv
<1> QED BY <1>1, <1>2, <1>3, <1>4, LateSteps, Zenon

-----------------------------------------------------------------------------
(* The counters and the chain: what each worker may have counted *)

\* The number of w's objects, without those of an execution w has no answer about.
Known(w) == IF Unseen(w) THEN done[w].base ELSE Len(chain[w].obj)

\* What w may have added to tx_success, and to objects_created.
Credit(w) == gas_coin[w] - 1 - (IF Uncounted(w) THEN 1 ELSE 0)

Stock(w) == Known(w) - SeedObjects - (IF Uncounted(w) THEN result[w].created ELSE 0)

\* A step that brings w no answer and executes nothing of w's.
Unanswered(w) ==
    /\ chain'[w] = chain[w] /\ done'[w] = done[w] /\ gas_coin'[w] = gas_coin[w]
    /\ Uncounted(w)' => Uncounted(w) /\ result'[w] = result[w]

\* The terms of the sums are numbers ...
LEMMA ClaimTypes ==
    ASSUME TypeOK, NEW w \in Worker
    PROVE  /\ gas_coin[w] \in Nat /\ chain[w].gas \in Nat /\ result[w].created \in Nat
           /\ done[w].base \in Nat /\ Len(chain[w].obj) \in Nat /\ Known(w) \in Nat
           /\ Credit(w) \in Int /\ Stock(w) \in Int /\ SeedObjects \in Nat
<1>1. /\ gas_coin[w] \in Nat /\ chain[w].gas \in Nat
      /\ done[w].base \in Nat /\ Len(chain[w].obj) \in Nat
  BY WorkerTypes, Zenon
<1>2. result[w] \in Result BY Zenon DEF TypeOK, WorkerTypeOK
<1>3. result[w].created \in Nat BY <1>2, Zenon DEF Result
<1>4. SeedObjects \in Nat BY SeedAssumption, Zenon
<1>5. Known(w) \in Nat BY <1>1, Zenon DEF Known
<1>6. Credit(w) \in Int BY <1>1 DEF Credit
<1>7. Stock(w) \in Int BY <1>3, <1>4, <1>5 DEF Stock
<1> QED BY <1>1, <1>3, <1>4, <1>5, <1>6, <1>7, Zenon

\* ... in every state that has its types.
LEMMA ClaimIntegers == TypeOK => \A w \in Worker : Credit(w) \in Int /\ Stock(w) \in Int
BY ClaimTypes, Zenon

\* Every step is an answer to w, an execution for w, or brings w nothing.
LEMMA ClaimSteps ==
    ASSUME TypeOK, [Next]_vars, NEW w \in Worker
    PROVE  \/ Unanswered(w)
           \/ \E full \in BOOLEAN : RpcReply(w, full)
           \/ \E tx \in net[w], ok \in BOOLEAN : Execute(w, tx, ok) /\ UNCHANGED <<gas_coin, result, pc>>
<1> USE DEF sharedVars, workerVars, nodeVars
<1>0. /\ chain \in [Worker -> [gas : Nat \ {0}, obj : Seq(Nat)]]
      /\ done \in [Worker -> Effects]
      /\ pc \in [Worker -> Location]
      /\ gas_coin \in [Worker -> Nat \ {0}]
      /\ result \in [Worker -> Result]
  BY Zenon DEF TypeOK, NodeTypeOK, WorkerTypeOK
<1>a. ASSUME NEW v \in Worker, NEW to, to \notin {"count", "match"} \/ (v = w => pc[v] = "count"),
             pc' = [pc EXCEPT ![v] = to], UNCHANGED <<chain, done, gas_coin, result>>
      PROVE  Unanswered(w)
  <2>1. v # w => pc'[w] = pc[w] BY <1>0, <1>a, Zenon
  <2>2. v = w => pc'[w] = to BY <1>0, <1>a, Zenon
  <2>3. pc'[w] \in {"count", "match"} => pc[w] \in {"count", "match"} BY <1>a, <2>1, <2>2, Zenon
  <2>4. Uncounted(w)' => Uncounted(w) BY <1>a, <2>3, Zenon DEF Uncounted
  <2> QED BY <1>a, <2>4, Zenon DEF Unanswered
<1>b. ASSUME NEW v \in Worker, pc' = [pc EXCEPT ![v] = "count"], result' = [result EXCEPT ![v] = Failure],
             UNCHANGED <<chain, done, gas_coin>>
      PROVE  Unanswered(w)
  <2>1. v # w => pc'[w] = pc[w] /\ result'[w] = result[w] BY <1>0, <1>b, Zenon
  <2>2. v = w => result'[w] = Failure BY <1>0, <1>b, Zenon
  <2>3. ~Failure.ok BY Zenon DEF Failure
  <2>4. Uncounted(w)' => Uncounted(w) /\ result'[w] = result[w] BY <2>1, <2>2, <2>3, Zenon DEF Uncounted
  <2> QED BY <1>b, <2>4, Zenon DEF Unanswered
<1>c. ASSUME UNCHANGED <<chain, done, gas_coin, result, pc>> PROVE Unanswered(w)
  BY <1>c, Zenon DEF Unanswered, Uncounted
<1>1. ASSUME NEW v \in Worker, LoopExit(v) \/ LoopHead(v) \/ EmergencyGate(v) \/ AcquirePermit(v)
      PROVE  Unanswered(w)
  <2>1. UNCHANGED <<chain, done, gas_coin, result>>
    BY <1>1, Zenon DEF LoopExit, LoopHead, EmergencyGate, AcquirePermit
  <2>2. PICK to \in {"head", "emergency", "acquire", "done", "execute"} : pc' = [pc EXCEPT ![v] = to]
    BY <1>1, Zenon DEF LoopExit, LoopHead, EmergencyGate, AcquirePermit
  <2>3. to \notin {"count", "match"} BY <2>2, Zenon
  <2> QED BY <1>a, <2>1, <2>2, <2>3, Zenon
<1>2. ASSUME NEW v \in Worker, SendCreate(v) \/ SendUpdate(v) PROVE Unanswered(w)
  <2>1. UNCHANGED <<chain, done, gas_coin, result>> /\ pc' = [pc EXCEPT ![v] = "rpc"]
    BY <1>2, Zenon DEF SendCreate, SendUpdate, Send, Submit
  <2> QED BY <1>a, <2>1, Zenon
<1>3. ASSUME NEW v \in Worker, UpdateNothing(v) PROVE Unanswered(w)
  BY <1>3, <1>b, Zenon DEF UpdateNothing
<1>4. ASSUME NEW v \in Worker, CountSubmitted(v) PROVE Unanswered(w)
  <2>1. UNCHANGED <<chain, done, gas_coin, result>> /\ pc' = [pc EXCEPT ![v] = "match"] /\ pc[v] = "count"
    BY <1>4, Zenon DEF CountSubmitted
  <2> QED BY <1>a, <2>1, Zenon
<1>5. ASSUME NEW v \in Worker, MatchResult(v) \/ ReleasePermit(v) PROVE Unanswered(w)
  <2>1. UNCHANGED <<chain, done, gas_coin, result>> BY <1>5, Zenon DEF MatchResult, ReleasePermit
  <2>2. PICK to \in {"sleep", "head"} : pc' = [pc EXCEPT ![v] = to]
    BY <1>5, Zenon DEF MatchResult, ReleasePermit
  <2>3. to \notin {"count", "match"} BY <2>2, Zenon
  <2> QED BY <1>a, <2>1, <2>2, <2>3, Zenon
<1>6. ASSUME NEW v \in Worker, RpcRefused(v) \/ RpcLost(v) PROVE Unanswered(w)
  <2>1. /\ pc' = [pc EXCEPT ![v] = "count"] /\ result' = [result EXCEPT ![v] = Failure]
        /\ UNCHANGED <<chain, done, gas_coin>>
    BY <1>6, Zenon DEF RpcRefused, RpcLost, RpcError, Refuse
  <2> QED BY <1>b, <2>1, Zenon
<1>7. ASSUME NEW v \in Worker, v # w, NEW full \in BOOLEAN, RpcReply(v, full) PROVE Unanswered(w)
  <2>1. /\ chain' = chain /\ done' = done /\ gas_coin' = [gas_coin EXCEPT ![v] = rpc[v].gas + 1]
        /\ pc' = [pc EXCEPT ![v] = "count"]
    BY <1>7, Zenon DEF RpcReply
  <2>2. gas_coin'[w] = gas_coin[w] /\ pc'[w] = pc[w] BY <1>0, <1>7, <2>1, Zenon
  <2>3. result'[w] = result[w] BY <1>0, <1>7, Zenon DEF RpcReply
  <2> QED BY <2>1, <2>2, <2>3, Zenon DEF Unanswered, Uncounted
<1>8. ASSUME NEW v \in Worker, v # w, NodeExecute(v) PROVE Unanswered(w)
  <2>1. PICK tx \in net[v], ok \in BOOLEAN : Execute(v, tx, ok) BY <1>8, Zenon DEF NodeExecute
  <2>2. chain'[w] = chain[w] /\ done'[w] = done[w] BY <1>0, <1>8, <2>1, Zenon DEF Execute
  <2>3. UNCHANGED <<gas_coin, result, pc>> BY <1>8, Zenon DEF NodeExecute
  <2> QED BY <2>2, <2>3, Zenon DEF Unanswered, Uncounted
<1>9. ASSUME NodeExecute(w)
      PROVE  \E tx \in net[w], ok \in BOOLEAN : Execute(w, tx, ok) /\ UNCHANGED <<gas_coin, result, pc>>
  BY <1>9, Zenon DEF NodeExecute
<1>10. ASSUME MemoryMonitor \/ Reporter \/ DeadlinePasses \/ JoinWorkers \/ UNCHANGED vars
       PROVE  Unanswered(w)
  <2>1. UNCHANGED <<chain, done, gas_coin, result, pc>>
    BY <1>10, Zenon DEF MemoryMonitor, Reporter, ReportStep, DeadlinePasses, JoinWorkers, vars
  <2> QED BY <1>c, <2>1, Zenon
<1> HIDE DEF sharedVars, workerVars, nodeVars
<1>11. ASSUME NEW v \in Worker, WorkerStep(v) PROVE Unanswered(w)
  BY <1>1, <1>2, <1>3, <1>4, <1>5, <1>11, Zenon DEF WorkerStep
<1>12. ASSUME NEW v \in Worker, RpcReturn(v)
       PROVE  Unanswered(w) \/ \E full \in BOOLEAN : RpcReply(w, full)
  BY <1>6, <1>7, <1>12, Zenon DEF RpcReturn
<1> QED BY <1>8, <1>9, <1>10, <1>11, <1>12, Zenon DEF Next, Terminated

\* No step takes from what w may claim: an answer brings at least what it gives w to
\* count, and an execution changes nothing until its answer.
LEMMA ClaimGrows ==
    ASSUME TypeOK, [Next]_vars, NEW w \in Worker, GasInv(w), RefInv(w)
    PROVE  Credit(w) <= Credit(w)' /\ Stock(w) <= Stock(w)'
<1>0. /\ gas_coin[w] \in Nat /\ chain[w].gas \in Nat /\ result[w].created \in Nat
      /\ done[w].base \in Nat /\ Len(chain[w].obj) \in Nat /\ Known(w) \in Nat
      /\ SeedObjects \in Nat
  BY ClaimTypes, Zenon
<1>1. CASE Unanswered(w)
  <2>1. chain'[w] = chain[w] /\ done'[w] = done[w] /\ gas_coin'[w] = gas_coin[w] BY <1>1, Zenon DEF Unanswered
  <2>2. Known(w)' = Known(w) BY <2>1, Zenon DEF Known, Unseen
  <2>3. Uncounted(w)' => Uncounted(w) /\ result'[w] = result[w] BY <1>1, Zenon DEF Unanswered
  <2>4. Credit(w)' = gas_coin[w] - 1 - (IF Uncounted(w)' THEN 1 ELSE 0) BY <2>1, Zenon DEF Credit
  <2>5. Stock(w)' = Known(w) - SeedObjects - (IF Uncounted(w)' THEN result'[w].created ELSE 0)
    BY <2>2, Zenon DEF Stock
  <2> QED BY <1>0, <2>3, <2>4, <2>5 DEF Credit, Stock
<1>2. ASSUME NEW full \in BOOLEAN, RpcReply(w, full)
      PROVE  Credit(w) <= Credit(w)' /\ Stock(w) <= Stock(w)'
  <2>1. /\ pc[w] = "rpc" /\ done[w].tx = rpc[w] /\ pc'[w] = "count"
        /\ chain'[w] = chain[w] /\ done'[w] = done[w] /\ gas_coin'[w] = rpc[w].gas + 1
    BY <1>2, ReplyFacts, Zenon
  <2>2. rpc[w].gas = gas_coin[w] /\ done[w].tx.gas + 1 = chain[w].gas BY <2>1, Zenon DEF GasInv
  <2>3. chain[w].gas = gas_coin[w] + 1 /\ gas_coin'[w] = gas_coin[w] + 1 BY <2>1, <2>2, Zenon
  <2>4. Unseen(w) BY <1>0, <2>3 DEF Unseen
  <2>5. ~Unseen(w)'
    <3>1. gas_coin'[w] = chain'[w].gas BY <2>1, <2>3, Zenon
    <3>2. ~(chain[w].gas < chain[w].gas) BY <1>0
    <3>3. ~(gas_coin'[w] < chain'[w].gas) BY <2>1, <3>1, <3>2, Zenon
    <3> QED BY <3>3, Zenon DEF Unseen
  <2>6. result'[w].created = CreatedBy(w, full)
    <3> DEFINE c == CreatedBy(w, full)
               u == Cardinality({i \in 1..Len(objects[w]) : objects[w][i].id \in MutatedBy(w, full)})
    <3>1. result \in [Worker -> Result] BY Zenon DEF TypeOK, WorkerTypeOK
    <3>2. result'[w] = [ok |-> TRUE, created |-> c, updated |-> u] BY <1>2, <3>1, Zenon DEF RpcReply
    <3> HIDE DEF c, u
    <3>3. [ok |-> TRUE, created |-> c, updated |-> u].created = c BY Zenon
    <3> QED BY <3>2, <3>3, Zenon DEF c
  <2>7. Len(chain[w].obj) = done[w].base + (IF done[w].ok THEN rpc[w].create ELSE 0)
    BY <2>1, <2>4, Zenon DEF RefInv, Pending
  <2>8. rpc[w].create \in Nat BY WorkerTypes, Zenon
  <2>9. Known(w) = done[w].base /\ Known(w)' = Len(chain[w].obj) BY <2>1, <2>4, <2>5, Zenon DEF Known
  <2>10. done[w].base + CreatedBy(w, full) <= Len(chain[w].obj) /\ CreatedBy(w, full) \in Nat
    BY <1>0, <2>7, <2>8 DEF CreatedBy
  <2>11. ~Uncounted(w) BY <2>1, Zenon DEF Uncounted
  <2>12. Credit(w) = gas_coin[w] - 1 - 0 /\ Stock(w) = done[w].base - SeedObjects - 0
    BY <2>9, <2>11, Zenon DEF Credit, Stock
  <2>13. Credit(w)' = (gas_coin[w] + 1) - 1 - (IF Uncounted(w)' THEN 1 ELSE 0) BY <2>3, Zenon DEF Credit
  <2>14. Stock(w)' = Len(chain[w].obj) - SeedObjects - (IF Uncounted(w)' THEN CreatedBy(w, full) ELSE 0)
    BY <2>6, <2>9, Zenon DEF Stock
  <2>15. CASE Uncounted(w)'
    <3>1. Credit(w)' = (gas_coin[w] + 1) - 1 - 1 /\ Stock(w)' = Len(chain[w].obj) - SeedObjects - CreatedBy(w, full)
      BY <2>13, <2>14, <2>15, Zenon
    <3>2. gas_coin[w] - 1 - 0 <= (gas_coin[w] + 1) - 1 - 1 BY <1>0
    <3>3. \A b, n, c, k \in Nat : b + c <= n => b - k - 0 <= n - k - c OBVIOUS
    <3>4. done[w].base - SeedObjects - 0 <= Len(chain[w].obj) - SeedObjects - CreatedBy(w, full)
      BY <1>0, <2>10, <3>3, Zenon
    <3> QED BY <2>12, <3>1, <3>2, <3>4, Zenon
  <2>16. CASE ~Uncounted(w)'
    <3>1. Credit(w)' = (gas_coin[w] + 1) - 1 - 0 /\ Stock(w)' = Len(chain[w].obj) - SeedObjects - 0
      BY <2>13, <2>14, <2>16, Zenon
    <3>2. gas_coin[w] - 1 - 0 <= (gas_coin[w] + 1) - 1 - 0 BY <1>0
    <3>3. done[w].base - SeedObjects - 0 <= Len(chain[w].obj) - SeedObjects - 0 BY <1>0, <2>10
    <3> QED BY <2>12, <3>1, <3>2, <3>3, Zenon
  <2> QED BY <2>15, <2>16, Zenon
<1>3. ASSUME NEW tx \in net[w], NEW ok \in BOOLEAN, Execute(w, tx, ok), UNCHANGED <<gas_coin, result, pc>>
      PROVE  Credit(w) <= Credit(w)' /\ Stock(w) <= Stock(w)'
  <2>1. /\ chain'[w].gas = tx.gas + 1 /\ done'[w].base = Len(chain[w].obj) /\ tx.gas = chain[w].gas
    BY <1>3, ExecuteFacts, SMTT(30)
  <2>2. tx.gas <= gas_coin[w] /\ chain[w].gas \in {gas_coin[w], gas_coin[w] + 1} BY Zenon DEF GasInv
  <2>3. gas_coin' = gas_coin /\ result' = result /\ pc' = pc BY <1>3, Zenon
  <2>4. chain[w].gas = gas_coin[w] /\ chain'[w].gas = gas_coin[w] + 1 BY <1>0, <2>1, <2>2
  <2>5. ~Unseen(w) BY <1>0, <2>4 DEF Unseen
  <2>6. gas_coin[w] < chain'[w].gas BY <1>0, <2>4
  <2>7. Unseen(w)' BY <2>3, <2>6, Zenon DEF Unseen
  <2>8. Known(w)' = Known(w) BY <2>1, <2>5, <2>7, Zenon DEF Known
  <2>9. Uncounted(w)' = Uncounted(w) BY <2>3, Zenon DEF Uncounted
  <2>10. Credit(w)' = Credit(w) BY <2>3, <2>9, Zenon DEF Credit
  <2>11. Stock(w)' = Stock(w) BY <2>3, <2>8, <2>9, Zenon DEF Stock
  <2>12. Credit(w) \in Int /\ Stock(w) \in Int BY ClaimTypes, Zenon
  <2> QED BY <2>10, <2>11, <2>12
<1> QED BY <1>1, <1>2, <1>3, ClaimSteps, Zenon

\* Counting an answer takes from the worker what it adds to the counters.
LEMMA ClaimCounted ==
    ASSUME TypeOK, NEW w \in Worker, MatchResult(w)
    PROVE  /\ stats.tx_success \in Nat /\ stats.objects_created \in Nat
           /\ stats'.tx_success - stats.tx_success \in Int
           /\ stats'.objects_created - stats.objects_created \in Int
           /\ Credit(w) + (stats'.tx_success - stats.tx_success) <= Credit(w)'
           /\ Stock(w) + (stats'.objects_created - stats.objects_created) <= Stock(w)'
<1>0. /\ gas_coin[w] \in Nat /\ result[w].created \in Nat /\ Known(w) \in Nat /\ SeedObjects \in Nat
  BY ClaimTypes, Zenon
<1>1. stats \in BenchStats BY Zenon DEF TypeOK, SharedTypeOK
<1>2. stats.tx_success \in Nat /\ stats.objects_created \in Nat BY <1>1, Zenon DEF BenchStats
<1>3. /\ pc[w] = "match" /\ pc' = [pc EXCEPT ![w] = "sleep"]
      /\ UNCHANGED <<chain, done, gas_coin, result>>
  BY Zenon DEF MatchResult, nodeVars
<1>4. pc'[w] = "sleep" BY <1>3, Zenon DEF TypeOK, WorkerTypeOK
<1>5. ~Uncounted(w)' BY <1>4, Zenon DEF Uncounted
<1>6. Known(w)' = Known(w) BY <1>3, Zenon DEF Known, Unseen
<1>7. Credit(w)' = gas_coin[w] - 1 - 0 /\ Stock(w)' = Known(w) - SeedObjects - 0
  BY <1>3, <1>5, <1>6, Zenon DEF Credit, Stock
<1>8. CASE result[w].ok
  <2>1. Uncounted(w) BY <1>3, <1>8, Zenon DEF Uncounted
  <2>2. stats' = [stats EXCEPT !.tx_success = @ + 1, !.objects_created = @ + result[w].created,
                               !.objects_updated = @ + result[w].updated]
    BY <1>8, Zenon DEF MatchResult
  <2>3. stats'.tx_success = stats.tx_success + 1 /\ stats'.objects_created = stats.objects_created + result[w].created
    BY <1>1, <2>2, Zenon DEF BenchStats
  <2>4. Credit(w) = gas_coin[w] - 1 - 1 /\ Stock(w) = Known(w) - SeedObjects - result[w].created
    BY <2>1, Zenon DEF Credit, Stock
  <2> QED BY <1>0, <1>2, <1>7, <2>3, <2>4
<1>9. CASE ~result[w].ok
  <2>1. ~Uncounted(w) BY <1>9, Zenon DEF Uncounted
  <2>2. stats' = [stats EXCEPT !.tx_failed = @ + 1] BY <1>9, Zenon DEF MatchResult
  <2>3. stats'.tx_success = stats.tx_success /\ stats'.objects_created = stats.objects_created
    BY <1>1, <2>2, Zenon DEF BenchStats
  <2>4. Credit(w) = gas_coin[w] - 1 - 0 /\ Stock(w) = Known(w) - SeedObjects - 0
    BY <2>1, Zenon DEF Credit, Stock
  <2> QED BY <1>0, <1>2, <1>7, <2>3, <2>4
<1> QED BY <1>8, <1>9, Zenon

-----------------------------------------------------------------------------
(* The theorems *)

INSTANCE FiniteSetTheorems

-----------------------------------------------------------------------------
(* Types and permits *)

\* The workers that f puts at one of the locations L.
At(f, L) == {v \in Worker : f[v] \in L}

\* Moving one worker within, into or out of a set of locations.
LEMMA MoveCount ==
    ASSUME NEW f \in [Worker -> Location], NEW w \in Worker, NEW to \in Location, NEW L
    PROVE  /\ Cardinality(At(f, L)) \in Nat
           /\ (f[w] \in L <=> to \in L) =>
                 Cardinality(At([f EXCEPT ![w] = to], L)) = Cardinality(At(f, L))
           /\ f[w] \notin L /\ to \in L =>
                 Cardinality(At([f EXCEPT ![w] = to], L)) = Cardinality(At(f, L)) + 1
           /\ f[w] \in L /\ to \notin L =>
                 Cardinality(At([f EXCEPT ![w] = to], L)) = Cardinality(At(f, L)) - 1
<1> DEFINE before == At(f, L)
           after == At([f EXCEPT ![w] = to], L)
<1>1. IsFiniteSet(before) /\ IsFiniteSet(after)
  BY WorkerAssumption, FS_Subset, Zenon DEF At
<1>2. Cardinality(before) \in Nat /\ Cardinality(after) \in Nat
  BY <1>1, FS_CardinalityType, Zenon
<1>3. ASSUME f[w] \in L <=> to \in L PROVE after = before
  BY <1>3, Zenon DEF At
<1>4. ASSUME f[w] \notin L, to \in L PROVE Cardinality(after) = Cardinality(before) + 1
  <2>1. after = before \cup {w} /\ w \notin before BY <1>4, Zenon DEF At
  <2> QED BY <2>1, <1>1, FS_AddElement, Zenon
<1>5. ASSUME f[w] \in L, to \notin L PROVE Cardinality(after) = Cardinality(before) - 1
  <2>1. after = before \ {w} /\ w \in before BY <1>5, Zenon DEF At
  <2> QED BY <2>1, <1>1, FS_RemoveElement, Zenon
<1> QED BY <1>2, <1>3, <1>4, <1>5, Zenon

\* Initially every permit is free.
LEMMA PermitsInit == Init => PermitsConserved
<1> SUFFICES ASSUME Init PROVE PermitsConserved
  BY Zenon
<1>1. {w \in Worker : pc[w] \in Holding} = {}
  BY Zenon DEF Init, Holding
<1>2. permits = MaxInflight BY Zenon DEF Init
<1>3. Cardinality({}) = 0 BY FS_EmptySet, Zenon
<1> QED BY <1>1, <1>2, <1>3, InflightAssumption DEF PermitsConserved

\* Every step keeps the types, as long as no permit is returned twice.
LEMMA TypeStep ==
    ASSUME TypeOK, PermitsConserved, [Next]_vars
    PROVE  TypeOK'
<1>1. ASSUME NEW w \in Worker, ReleasePermit(w) PROVE permits < MaxInflight
  <2>1. w \in At(pc, Holding) BY <1>1, Zenon DEF ReleasePermit, At, Holding
  <2>2. IsFiniteSet(At(pc, Holding)) BY WorkerAssumption, FS_Subset, Zenon DEF At
  <2>3. Cardinality(At(pc, Holding)) \in Nat /\ Cardinality(At(pc, Holding)) # 0
    BY <2>1, <2>2, FS_CardinalityType, FS_EmptySet, Zenon
  <2>4. permits + Cardinality(At(pc, Holding)) = MaxInflight BY Zenon DEF PermitsConserved, At
  <2>5. permits \in 0..MaxInflight BY Zenon DEF TypeOK, SharedTypeOK
  <2> QED BY <2>3, <2>4, <2>5, InflightAssumption
<1>2. ASSUME NEW n \in Nat, NEW I \in SUBSET (1..n) PROVE Cardinality(I) \in Nat
  <2>1. 1 \in Int /\ n \in Int OBVIOUS
  <2>2. IsFiniteSet(1..n) BY <2>1, FS_Interval, Zenon
  <2> QED BY <2>2, FS_Subset, FS_CardinalityType, Zenon
<1> QED BY <1>1, <1>2, TypesKept, Zenon

\* A step of a worker that does not enter or leave the holding part of the loop
\* keeps the count of permits; the acquire and the end of the body move one.
LEMMA PermitsStep == TypeOK /\ PermitsConserved /\ [Next]_vars => PermitsConserved'
<1> SUFFICES ASSUME TypeOK, PermitsConserved, [Next]_vars PROVE PermitsConserved'
  BY Zenon
<1> USE DEF sharedVars, workerVars
<1>0. pc \in [Worker -> Location] /\ permits \in Nat
  BY InflightAssumption DEF TypeOK, SharedTypeOK, WorkerTypeOK
<1>a. /\ permits + Cardinality(At(pc, Holding)) = MaxInflight
      /\ PermitsConserved' <=> permits' + Cardinality(At(pc', Holding)) = MaxInflight
  BY Zenon DEF PermitsConserved, At
<1>b. ASSUME NEW w \in Worker, NEW to \in Location, pc' = [pc EXCEPT ![w] = to],
             (pc[w] \in Holding <=> to \in Holding), permits' = permits
      PROVE  PermitsConserved'
  BY <1>0, <1>a, <1>b, MoveCount, Zenon
<1>1. ASSUME NEW w \in Worker, LoopExit(w) \/ LoopHead(w) \/ EmergencyGate(w) PROVE PermitsConserved'
  <2>1. PICK to \in {"head", "emergency", "acquire", "done"} : pc' = [pc EXCEPT ![w] = to]
    BY <1>1, Zenon DEF LoopExit, LoopHead, EmergencyGate
  <2>2. permits' = permits /\ pc[w] \notin Holding
    BY <1>1, Zenon DEF LoopExit, LoopHead, EmergencyGate, Holding
  <2>3. to \in Location /\ to \notin Holding BY Zenon DEF Location, Holding
  <2> QED BY <1>b, <2>1, <2>2, <2>3, Zenon
<1>2. ASSUME NEW w \in Worker,
             SendCreate(w) \/ SendUpdate(w) \/ UpdateNothing(w) \/ CountSubmitted(w) \/ MatchResult(w)
             \/ RpcReturn(w)
      PROVE  PermitsConserved'
  <2>1. PICK to \in Holding : pc' = [pc EXCEPT ![w] = to]
    BY <1>2, Zenon DEF SendCreate, SendUpdate, Send, UpdateNothing, CountSubmitted, MatchResult,
                RpcReturn, RpcReply, RpcRefused, RpcLost, RpcError, Holding
  <2>2. permits' = permits /\ pc[w] \in Holding
    BY <1>2, Zenon DEF SendCreate, SendUpdate, Send, UpdateNothing, CountSubmitted, MatchResult,
                RpcReturn, RpcReply, RpcRefused, RpcLost, RpcError, Holding
  <2>3. to \in Location BY Zenon DEF Location
  <2> QED BY <1>b, <2>1, <2>2, <2>3, Zenon
<1>3. ASSUME NEW w \in Worker, AcquirePermit(w) PROVE PermitsConserved'
  <2>1. pc' = [pc EXCEPT ![w] = "execute"] /\ permits' = permits - 1 /\ pc[w] \notin Holding
    BY <1>3, Zenon DEF AcquirePermit, Holding
  <2>2. "execute" \in Location /\ "execute" \in Holding BY Zenon DEF Location, Holding
  <2>3. /\ Cardinality(At(pc, Holding)) \in Nat
        /\ Cardinality(At(pc', Holding)) = Cardinality(At(pc, Holding)) + 1
    BY <1>0, <2>1, <2>2, MoveCount, ZenonT(30)
  <2> QED BY <1>0, <1>a, <2>1, <2>3
<1>4. ASSUME NEW w \in Worker, ReleasePermit(w) PROVE PermitsConserved'
  <2>1. pc' = [pc EXCEPT ![w] = "head"] /\ permits' = permits + 1 /\ pc[w] \in Holding
    BY <1>4, Zenon DEF ReleasePermit, Holding
  <2>2. "head" \in Location /\ "head" \notin Holding BY Zenon DEF Location, Holding
  <2>3. /\ Cardinality(At(pc, Holding)) \in Nat
        /\ Cardinality(At(pc', Holding)) = Cardinality(At(pc, Holding)) - 1
    BY <1>0, <2>1, <2>2, MoveCount, Zenon
  <2> QED BY <1>0, <1>a, <2>1, <2>3
<1>5. ASSUME UNCHANGED <<pc, permits>> PROVE PermitsConserved'
  BY <1>5, Zenon DEF PermitsConserved
<1>6. ASSUME \/ \E w \in Worker : NodeExecute(w)
             \/ MemoryMonitor \/ Reporter \/ DeadlinePasses \/ JoinWorkers \/ UNCHANGED vars
      PROVE  UNCHANGED <<pc, permits>>
  BY <1>6, Zenon DEF NodeExecute, MemoryMonitor, Reporter, ReportStep, DeadlinePasses, JoinWorkers, vars
<1> QED
  BY <1>1, <1>2, <1>3, <1>4, <1>5, <1>6, Zenon DEF Next, WorkerStep, Terminated

\* The types hold and no permit is lost or duplicated: the two need each other, as
\* only the count of the holders bounds the permits when one is returned.
LEMMA TypedPermits == Spec => [](TypeOK /\ PermitsConserved)
<1>1. (TypeOK /\ PermitsConserved) /\ [Next]_vars => (TypeOK /\ PermitsConserved)'
  BY TypeStep, PermitsStep, Zenon
<1> QED BY TypeInit, PermitsInit, <1>1, PTL DEF Spec

\* Every variable keeps its type, for any number of workers and any options.
THEOREM TypeCorrect == Spec => []TypeOK
BY TypedPermits, PTL

\* The semaphore's permits and the workers inside their loop body always add up
\* to --max-inflight: no early return, failure or backoff leaks a permit.
THEOREM PermitsNeverLeak == Spec => []PermitsConserved
BY TypedPermits, PTL

-----------------------------------------------------------------------------
(* Statistics *)

\* A submission without an outcome is a worker between the two counting steps.
LEMMA StatsStep ==
    ASSUME TypeOK, StatsAccounted, [Next]_vars
    PROVE  StatsAccounted'
<1> DEFINE M == {"match"}
<1>0. pc \in [Worker -> Location] BY Zenon DEF TypeOK, WorkerTypeOK
<1>1. /\ stats.tx_submitted = stats.tx_success + stats.tx_failed + Cardinality(At(pc, M))
      /\ StatsAccounted' <=> stats'.tx_submitted = stats'.tx_success + stats'.tx_failed + Cardinality(At(pc', M))
  <2>1. At(pc, M) = {w \in Worker : pc[w] = "match"} /\ At(pc', M) = {w \in Worker : pc'[w] = "match"}
    BY Zenon DEF At
  <2> QED BY <2>1, Zenon DEF StatsAccounted
<1>2. {"match", "sleep"} \subseteq Location BY Zenon DEF Location, Holding
<1>3. ASSUME NEW w \in Worker, CountSubmitted(w) PROVE StatsAccounted'
  <2>1. /\ Cardinality(At(pc, M)) \in Nat
        /\ Cardinality(At(pc', M)) = Cardinality(At(pc, M)) + 1
    <3>1. pc' = [pc EXCEPT ![w] = "match"] /\ pc[w] \notin M /\ "match" \in M /\ "match" \in Location
      BY <1>2, <1>3, CountingFacts, Zenon
    <3>2. pc \in [Worker -> Location] BY <1>0, Zenon
    <3> HIDE DEF M
    <3> QED BY <3>1, <3>2, MoveCount, ZenonT(30)
  <2> HIDE DEF M
  <2> QED BY <1>1, <1>3, <2>1, CountingFacts
<1>4. ASSUME NEW w \in Worker, MatchResult(w) PROVE StatsAccounted'
  <2>1. /\ Cardinality(At(pc, M)) \in Nat
        /\ Cardinality(At(pc', M)) = Cardinality(At(pc, M)) - 1
    <3>1. pc' = [pc EXCEPT ![w] = "sleep"] /\ pc[w] \in M /\ "sleep" \notin M /\ "sleep" \in Location
      BY <1>2, <1>4, CountingFacts, Zenon
    <3>2. pc \in [Worker -> Location] BY <1>0, Zenon
    <3> HIDE DEF M
    <3> QED BY <3>1, <3>2, MoveCount, ZenonT(30)
  <2> HIDE DEF M
  <2> QED BY <1>1, <1>4, <2>1, CountingFacts
<1>5. ASSUME NEW w \in Worker, NEW to \in Location, stats' = stats,
             pc[w] # "match", to # "match", pc' = [pc EXCEPT ![w] = to]
      PROVE  StatsAccounted'
  <2>1. Cardinality(At(pc', M)) = Cardinality(At(pc, M))
    <3>1. pc[w] \in M <=> to \in M BY <1>5, Zenon
    <3>2. pc \in [Worker -> Location] BY <1>0, Zenon
    <3>3. (pc[w] \in M <=> to \in M) =>
              Cardinality(At([pc EXCEPT ![w] = to], M)) = Cardinality(At(pc, M))
      <4> HIDE DEF M
      <4> QED BY <1>5, <3>2, MoveCount, ZenonT(30)
    <3> QED BY <1>5, <3>1, <3>3, Zenon
  <2> QED BY <1>1, <1>5, <2>1, Zenon
<1>6. ASSUME stats' = stats, pc' = pc PROVE StatsAccounted'
  BY <1>6, Zenon DEF StatsAccounted
<1> QED BY <1>3, <1>4, <1>5, <1>6, CountingSteps, Zenon

\* Whatever answers come, are refused or are lost, every submission counted has
\* one outcome counted, but for the workers that are about to count it.
THEOREM CountersAgree == Spec => []StatsAccounted
<1>1. Init => StatsAccounted
  <2> SUFFICES ASSUME Init PROVE StatsAccounted BY Zenon
  <2>1. {w \in Worker : pc[w] = "match"} = {} BY Zenon DEF Init
  <2>2. stats.tx_submitted = 0 /\ stats.tx_success = 0 /\ stats.tx_failed = 0 BY Zenon DEF Init
  <2> QED BY <2>1, <2>2, FS_EmptySet DEF StatsAccounted
<1>2. TypeOK /\ StatsAccounted /\ [Next]_vars => StatsAccounted' BY StatsStep, Zenon
<1> QED BY TypeCorrect, <1>1, <1>2, PTL DEF Spec

\* What the reporter has loaded so far, against the counters it has yet to load:
\* outcomes are only ever added, so what was in flight at its first load is the
\* most it can miss.
LagInv ==
    /\ report.next = "success" =>
          report.submitted <= stats.tx_success + stats.tx_failed + Cardinality(Worker)
    /\ report.next = "failed" =>
          report.submitted <= report.success + stats.tx_failed + Cardinality(Worker)
    /\ report.next \in {"check", "submitted"} =>
          report.submitted <= report.success + report.failed + Cardinality(Worker)

\* A load of the submissions finds at most one per worker without an outcome; the
\* outcomes loaded later are at least those counted by then.
LEMMA LagStep ==
    ASSUME TypeOK, StatsAccounted, LagInv, [Next]_vars
    PROVE  LagInv'
<1> DEFINE N == Cardinality(Worker)
           m == Cardinality({w \in Worker : pc[w] = "match"})
<1>0. /\ report.next \in {"check", "submitted", "success", "failed"}
      /\ report.submitted \in Nat /\ report.success \in Nat /\ report.failed \in Nat
      /\ stats.tx_submitted \in Nat
  BY Zenon DEF TypeOK, SharedTypeOK, BenchStats
<1>1. /\ stats.tx_success \in Nat /\ stats.tx_failed \in Nat
      /\ stats'.tx_success \in Nat /\ stats'.tx_failed \in Nat
      /\ stats.tx_success <= stats'.tx_success /\ stats.tx_failed <= stats'.tx_failed
  BY CountersGrow, Zenon
<1>2. N \in Nat /\ m \in Nat /\ m <= N
  BY WorkerAssumption, FS_Subset, FS_CardinalityType, Zenon
<1>3. stats.tx_submitted = stats.tx_success + stats.tx_failed + m
  BY Zenon DEF StatsAccounted
<1> HIDE DEF m
<1>4. /\ report.next = "success" => report.submitted <= stats.tx_success + stats.tx_failed + N
      /\ report.next = "failed" => report.submitted <= report.success + stats.tx_failed + N
      /\ report.next \in {"check", "submitted"} => report.submitted <= report.success + report.failed + N
  BY Zenon DEF LagInv
<1>5. SUFFICES /\ report'.next = "success" => report'.submitted <= stats'.tx_success + stats'.tx_failed + N
               /\ report'.next = "failed" => report'.submitted <= report'.success + stats'.tx_failed + N
               /\ report'.next \in {"check", "submitted"} => report'.submitted <= report'.success + report'.failed + N
  BY Zenon DEF LagInv
<1> HIDE DEF N
<1>6. CASE report' = report
  BY <1>0, <1>1, <1>2, <1>4, <1>6
<1>7. ASSUME NEW from \in {"check", "submitted", "success", "failed"},
             NEW to \in {"check", "submitted", "success", "failed"},
             <<from, to>> \in {<<"check", "submitted">>, <<"submitted", "success">>,
                               <<"success", "failed">>, <<"failed", "check">>},
             report.next = from, report'.next = to, stats' = stats,
             report'.submitted = IF from = "submitted" THEN stats.tx_submitted ELSE report.submitted,
             report'.success = IF from = "success" THEN stats.tx_success ELSE report.success,
             report'.failed = IF from = "failed" THEN stats.tx_failed ELSE report.failed
      PROVE  /\ report'.next = "success" => report'.submitted <= stats'.tx_success + stats'.tx_failed + N
             /\ report'.next = "failed" => report'.submitted <= report'.success + stats'.tx_failed + N
             /\ report'.next \in {"check", "submitted"} => report'.submitted <= report'.success + report'.failed + N
  <2>1. CASE from = "check" /\ to = "submitted" BY <1>0, <1>4, <1>7, <2>1, Zenon
  <2>2. CASE from = "submitted" /\ to = "success" BY <1>0, <1>1, <1>2, <1>3, <1>7, <2>2
  <2>3. CASE from = "success" /\ to = "failed" BY <1>0, <1>4, <1>7, <2>3, Zenon
  <2>4. CASE from = "failed" /\ to = "check" BY <1>0, <1>4, <1>7, <2>4, Zenon
  <2> QED BY <1>7, <2>1, <2>2, <2>3, <2>4, Zenon
<1> QED BY <1>6, <1>7, ReportSteps, Zenon

\* A line of the reporter, loaded in three steps between which the workers run on,
\* shows at most one submission per worker without an outcome.
THEOREM ReportsLagByWorkers == Spec => []ReportLag
<1>1. Init => LagInv
  <2>1. Cardinality(Worker) \in Nat BY WorkerAssumption, FS_CardinalityType, Zenon
  <2>2. Init => report = [next |-> "check", lines |-> 0, submitted |-> 0, success |-> 0, failed |-> 0]
    BY Zenon DEF Init
  <2>3. Init => report.next = "check" /\ report.submitted = 0 /\ report.success = 0 /\ report.failed = 0
    BY <2>2
  <2> QED BY <2>1, <2>3 DEF LagInv
<1>2. TypeOK /\ StatsAccounted /\ LagInv /\ [Next]_vars => LagInv' BY LagStep, Zenon
<1>3. LagInv => ReportLag BY Zenon DEF LagInv, ReportLag
<1> QED BY TypeCorrect, CountersAgree, <1>1, <1>2, <1>3, PTL DEF Spec

-----------------------------------------------------------------------------
(* The references of the workers *)

\* After the monitor has stored EMERGENCY a worker sends at most one more create:
\* the level it read before the change is used up by the round it is in.
THEOREM CreatesStop == Spec => []OneLateCreate
<1>1. Init => \A w \in Worker : LateInv(w)
  <2>1. Init => lateCreates = [w \in Worker |-> 0] BY Zenon DEF Init
  <2>2. Init => \A w \in Worker : lateCreates[w] = 0 BY <2>1, Zenon
  <2> QED BY <2>2 DEF LateInv
<1>2. TypeOK /\ (\A w \in Worker : LateInv(w)) /\ [Next]_vars => (\A w \in Worker : LateInv(w))'
  BY LateStep, Zenon
<1>3. (\A w \in Worker : LateInv(w)) => OneLateCreate BY Zenon DEF LateInv, OneLateCreate
<1> QED BY TypeCorrect, <1>1, <1>2, <1>3, PTL DEF Spec

\* The gas coin invariant holds of every worker in every reachable state.
LEMMA GasInvariant == Spec => [](TypeOK /\ \A w \in Worker : GasInv(w))
<1>1. TypeOK /\ (\A w \in Worker : GasInv(w)) /\ [Next]_vars => (\A w \in Worker : GasInv(w))'
  BY GasStep, Zenon
<1> QED BY TypeCorrect, GasInit, <1>1, PTL DEF Spec

\* However many answers are lost, refused or repeated, a worker's gas coin
\* reference is the chain's current version or the one before it.
THEOREM GasNeverFallsBehind == Spec => []GasAtMostOneBehind
<1>1. TypeOK /\ (\A w \in Worker : GasInv(w)) => GasAtMostOneBehind
  BY Zenon DEF GasInv, GasAtMostOneBehind
<1> QED BY GasInvariant, <1>1, PTL

\* Until a worker has seen the effects of its last transaction, nothing it sends
\* executes: the chain of that worker stands still.
THEOREM UnseenBlocks == Spec => UnseenBlocksExecution
<1>1. TypeOK /\ (\A w \in Worker : GasInv(w)) /\ [Next]_vars
      => [\A w \in Worker : Unseen(w) => chain'[w] = chain[w]]_vars
  BY UnseenStep, Zenon
<1> QED BY GasInvariant, <1>1, PTL DEF Spec, UnseenBlocksExecution

\* The list never outgrows MAX_TRACKED_OBJECTS_PER_WORKER: whatever an answer
\* creates, only as many objects are pushed as there is room for.
THEOREM ListCapped == Spec => []TrackedCapped
BY TypeCorrect, CappedInit, CappedStep, PTL DEF Spec

\* No step empties a list: the floor keeps truncation from it at every level, so
\* at the emergency level a worker with objects always has something to update.
THEOREM ListNeverEmptied == Spec => NeverEmptied
<1>1. TypeOK /\ [Next]_vars => [\A w \in Worker : objects[w] # <<>> => objects'[w] # <<>>]_vars
  BY NeverEmptiedStep, Zenon
<1> QED BY TypeCorrect, <1>1, PTL DEF Spec, NeverEmptied

\* Both reference invariants hold of every worker in every reachable state.
LEMMA RefInvariant == Spec => [](TypeOK /\ \A w \in Worker : GasInv(w) /\ RefInv(w))
<1>1. Init => \A w \in Worker : GasInv(w) /\ RefInv(w)
  BY GasInit, RefInit, Zenon
<1>2. TypeOK /\ (\A w \in Worker : GasInv(w) /\ RefInv(w)) /\ [Next]_vars
      => (\A w \in Worker : GasInv(w) /\ RefInv(w))'
  BY GasStep, RefPreserved, Zenon
<1> QED BY TypeCorrect, <1>1, <1>2, PTL DEF Spec

\* Every tracked reference names an existing object at a version it has or had,
\* and no object is tracked twice, whatever answers are lost or repeated.
THEOREM ReferencesGenuine == Spec => []TrackedGenuine
<1>1. TypeOK /\ (\A w \in Worker : GasInv(w) /\ RefInv(w)) => TrackedGenuine
  BY Zenon DEF RefInv, Tracked, TrackedGenuine
<1> QED BY RefInvariant, <1>1, PTL

\* The references of every worker: genuine, and the ones it sends.
LEMMA InputsInvariant == Spec => [](TypeOK /\ \A w \in Worker : GasInv(w) /\ RefInv(w) /\ InputsInv(w))
<1>1. TypeOK /\ (\A w \in Worker : GasInv(w) /\ RefInv(w)) /\ (\A w \in Worker : InputsInv(w)) /\ [Next]_vars
      => (\A w \in Worker : InputsInv(w))'
  BY InputsStep, Zenon
<1>2. (\A w \in Worker : GasInv(w) /\ RefInv(w)) /\ (\A w \in Worker : InputsInv(w))
      => \A w \in Worker : GasInv(w) /\ RefInv(w) /\ InputsInv(w)
  BY Zenon
<1> QED BY RefInvariant, InputsInit, <1>1, <1>2, PTL DEF Spec

\* A reference that has fallen behind the chain for any other reason than the
\* answer the worker still waits for is never repaired: it stays dead until memory
\* pressure drops part of the list.
THEOREM DeadForGood == Spec => DeadRefsStayDead
<1>1. ASSUME TypeOK, \A w \in Worker : GasInv(w) /\ RefInv(w) /\ InputsInv(w), [Next]_vars,
             NEW w \in Worker, NEW id \in Dead(w)
      PROVE  id \in Dead(w)' \/ Len(objects'[w]) < Len(objects[w])
  BY <1>1, DeadStep, Zenon
<1>2. TypeOK /\ (\A w \in Worker : GasInv(w) /\ RefInv(w) /\ InputsInv(w)) /\ [Next]_vars
      => [\A w \in Worker : \A id \in Dead(w) :
             \/ id \in Dead(w)'
             \/ Len(objects'[w]) < Len(objects[w])]_vars
  BY <1>1, Zenon
<1> QED BY InputsInvariant, <1>2, PTL DEF Spec, DeadRefsStayDead

\* As long as no answer is lost or incomplete and no execution aborts, whatever is
\* refused, a worker's references are current but for the objects of the one
\* transaction it is waiting for.
THEOREM CoherentWithoutFaults == Spec => []CoherentUntilFault
<1>1. /\ TypeOK /\ (\A w \in Worker : GasInv(w) /\ RefInv(w))
      /\ (faults = 0 => \A w \in Worker : CoherentInv(w)) /\ [Next]_vars
      => (faults = 0 => \A w \in Worker : CoherentInv(w))'
  BY CoherentStep, FaultSteps, Zenon
<1>2. (faults = 0 => \A w \in Worker : CoherentInv(w)) => CoherentUntilFault
  BY Zenon DEF CoherentInv, CoherentUntilFault
<1>3. Init => (faults = 0 => \A w \in Worker : CoherentInv(w)) BY CoherentInit, Zenon
<1> QED BY RefInvariant, <1>1, <1>2, <1>3, PTL DEF Spec

-----------------------------------------------------------------------------
(* Sums over the workers *)

\* Natural numbers are well-ordered.
LEMMA LeastNat ==
    ASSUME NEW T, T \subseteq Nat, T # {}
    PROVE  \E x \in T : \A y \in T : x <= y
<1> DEFINE R == OpToRel(<, Nat)
<1>1. IsWellFoundedOn(R, Nat) BY NatLessThanWellFounded, Zenon
<1>2. \A x, y \in Nat : x < y => <<x, y>> \in R BY Zenon DEF OpToRel
<1> HIDE DEF R
<1>3. PICK x \in T : \A y \in T : ~(<<y, x>> \in R) BY <1>1, WFMin, Zenon
<1>4. \A y \in T : ~(y < x) BY <1>2, <1>3, Zenon
<1>5. \A y \in T : x <= y BY <1>4
<1> QED BY <1>5, Zenon

\* The order in which the fold takes the workers.
Pick(T) == CHOOSE x \in T : TRUE

\* One step of the fold that adds up f, over the sets in D.
Partial(f, g, D) == [T \in D |-> IF T = {} THEN 0 ELSE f[Pick(T)] + g[T \ {Pick(T)}]]

\* SumFunction is the fixed point of that step, if there is one.
LEMMA SumIsPartial ==
    ASSUME NEW f, DOMAIN f = Worker, \E g : g = Partial(f, g, SUBSET Worker)
    PROVE  \E g : g = Partial(f, g, SUBSET Worker) /\ SumFunction(f) = g[Worker]
<1> DEFINE iter == CHOOSE g : g = Partial(f, g, SUBSET Worker)
<1>1. iter = Partial(f, iter, SUBSET Worker) BY Zenon
<1>2. SumFunction(f) = iter[Worker]
  BY Zenon DEF SumFunction, SumFunctionOnSet, FoldFunctionOnSet, MapThenFoldSet, Partial, Pick
<1> QED BY <1>1, <1>2, Zenon

\* Of some sets of workers, one has no set with one worker less among them.
LEMMA LeastSubset ==
    ASSUME NEW B, B \subseteq SUBSET Worker, B # {}
    PROVE  \E T \in B : \A x \in T : T \ {x} \notin B
<1> DEFINE sizes == {Cardinality(T) : T \in B}
<1>1. \A T \in SUBSET Worker : IsFiniteSet(T) BY WorkerAssumption, FS_Subset, Zenon
<1>2. \A T \in SUBSET Worker : Cardinality(T) \in Nat BY <1>1, FS_CardinalityType, Zenon
<1>3. sizes \subseteq Nat /\ sizes # {} BY <1>2, Zenon
<1>4. PICK n \in sizes : \A m \in sizes : n <= m BY <1>3, LeastNat, Zenon
<1>5. PICK T \in B : n = Cardinality(T) BY <1>4, Zenon
<1>6. ASSUME NEW x \in T, T \ {x} \in B PROVE FALSE
  <2>1. Cardinality(T \ {x}) = Cardinality(T) - 1 BY <1>1, <1>5, FS_RemoveElement, Zenon
  <2>2. Cardinality(T) <= Cardinality(T \ {x}) BY <1>4, <1>5, <1>6, Zenon
  <2>3. Cardinality(T) \in Nat BY <1>2, <1>5, Zenon
  <2> QED BY <2>1, <2>2, <2>3
<1> QED BY <1>6, Zenon

\* The fold is defined: step by step, for sets of more and more workers.
LEMMA PartialExists ==
    ASSUME NEW f
    PROVE  \E g : g = Partial(f, g, SUBSET Worker)
<1> DEFINE Small(n) == {T \in SUBSET Worker : Cardinality(T) <= n}
           Solved(n) == \E g : g = Partial(f, g, Small(n))
           bad == {n \in Nat : ~Solved(n)}
<1>1. \A T \in SUBSET Worker : IsFiniteSet(T) BY WorkerAssumption, FS_Subset, Zenon
<1>2. \A T \in SUBSET Worker : Cardinality(T) \in Nat BY <1>1, FS_CardinalityType, Zenon
<1>p. \A T : T # {} => Pick(T) \in T BY Zenon DEF Pick
<1>3. \A T \in SUBSET Worker : T # {} => Cardinality(T \ {Pick(T)}) = Cardinality(T) - 1
  BY <1>1, <1>p, FS_RemoveElement, Zenon
<1>4. ASSUME NEW n \in Nat, NEW g, n = 0 \/ g = Partial(f, g, Small(n - 1)) PROVE Solved(n)
  <2> DEFINE h == Partial(f, g, Small(n))
  <2>1. ASSUME NEW T \in Small(n), T # {} PROVE h[T \ {Pick(T)}] = g[T \ {Pick(T)}]
    <3> DEFINE U == T \ {Pick(T)}
    <3>1. Cardinality(T) \in Nat /\ Cardinality(T) <= n /\ Cardinality(U) = Cardinality(T) - 1 /\ Cardinality(U) \in Nat
      BY <1>2, <1>3, <2>1, Zenon
    <3>2. n # 0 /\ Cardinality(U) <= n - 1 /\ Cardinality(U) <= n BY <3>1
    <3>3. U \in Small(n - 1) /\ U \in Small(n) BY <3>2, Zenon
    <3>4. g = Partial(f, g, Small(n - 1)) BY <1>4, <3>2, Zenon
    <3> DEFINE sum == IF U = {} THEN 0 ELSE f[Pick(U)] + g[U \ {Pick(U)}]
    <3> HIDE DEF U, Small
    <3>5. g[U] = sum BY <3>3, <3>4, Zenon DEF Partial
    <3>6. h[U] = sum BY <3>3, Zenon DEF Partial
    <3> HIDE DEF h, sum
    <3>7. h[U] = g[U] BY <3>5, <3>6, Zenon
    <3> QED BY <3>7, Zenon DEF U
  <2> HIDE DEF Small
  <2>2. \A T \in Small(n) : (IF T = {} THEN 0 ELSE f[Pick(T)] + g[T \ {Pick(T)}])
                          = (IF T = {} THEN 0 ELSE f[Pick(T)] + h[T \ {Pick(T)}])
    <3> HIDE DEF h
    <3> QED BY <2>1, Zenon
  <2>3. h = [T \in Small(n) |-> IF T = {} THEN 0 ELSE f[Pick(T)] + g[T \ {Pick(T)}]] BY Zenon DEF Partial
  <2> HIDE DEF h
  <2>4. h = [T \in Small(n) |-> IF T = {} THEN 0 ELSE f[Pick(T)] + h[T \ {Pick(T)}]]
    BY <2>2, <2>3, Zenon
  <2> QED BY <2>4, Zenon DEF Partial
<1>5. bad = {}
  <2> SUFFICES ASSUME bad # {} PROVE FALSE BY Zenon
  <2>1. PICK n \in bad : \A m \in bad : n <= m
    <3>1. bad \subseteq Nat BY Zenon
    <3> HIDE DEF bad
    <3> QED BY <3>1, LeastNat, Zenon
  <2>2. n \in Nat /\ ~Solved(n) BY <2>1, Zenon
  <2> HIDE DEF Solved
  <2>3. n # 0 BY <1>4, <2>2, Zenon
  <2>4. n - 1 \in Nat /\ ~(n <= n - 1) BY <2>2, <2>3
  <2>5. Solved(n - 1) BY <2>1, <2>4, Zenon
  <2>6. PICK g : g = Partial(f, g, Small(n - 1)) BY <2>5, Zenon DEF Solved
  <2> QED BY <1>4, <2>2, <2>6, Zenon
<1>6. Cardinality(Worker) \in Nat BY <1>2, Zenon
<1>7. Solved(Cardinality(Worker)) BY <1>5, <1>6, Zenon
<1>8. Small(Cardinality(Worker)) = SUBSET Worker
  <2>1. \A T \in SUBSET Worker : Cardinality(T) <= Cardinality(Worker) BY WorkerAssumption, FS_Subset, Zenon
  <2> QED BY <2>1, Zenon
<1> QED BY <1>7, <1>8, Zenon

\* What the fold gives for every set of workers, and its sum for all of them.
LEMMA SumDef ==
    ASSUME NEW f \in [Worker -> Int]
    PROVE  \E g \in [SUBSET Worker -> Int] :
              /\ g[{}] = 0
              /\ \A T \in SUBSET Worker : T # {} => g[T] = f[Pick(T)] + g[T \ {Pick(T)}]
              /\ SumFunction(f) = g[Worker]
<1>1. PICK g : g = Partial(f, g, SUBSET Worker) /\ SumFunction(f) = g[Worker]
  BY PartialExists, SumIsPartial, Zenon
<1>2. g = [T \in SUBSET Worker |-> IF T = {} THEN 0 ELSE f[Pick(T)] + g[T \ {Pick(T)}]]
  BY <1>1, Zenon DEF Partial
<1>p. \A T : T # {} => Pick(T) \in T BY Zenon DEF Pick
<1>3. {} \in SUBSET Worker BY Zenon
<1>4. g[{}] = 0 BY <1>2, <1>3, Zenon
<1>5. \A T \in SUBSET Worker : T # {} => g[T] = f[Pick(T)] + g[T \ {Pick(T)}] BY <1>2, Zenon
<1> DEFINE bad == {T \in SUBSET Worker : g[T] \notin Int}
<1>6. bad = {}
  <2> SUFFICES ASSUME bad # {} PROVE FALSE BY Zenon
  <2>1. bad \subseteq SUBSET Worker BY Zenon
  <2>2. PICK T \in bad : \A x \in T : T \ {x} \notin bad
    <3> HIDE DEF bad
    <3> QED BY <2>1, LeastSubset, Zenon
  <2>a. g[{}] \in Int BY <1>4
  <2>3. T \in SUBSET Worker /\ g[T] \notin Int /\ T # {} BY <2>2, <2>a, Zenon
  <2>4. Pick(T) \in T /\ f[Pick(T)] \in Int BY <1>p, <2>3, Zenon
  <2>5. g[T \ {Pick(T)}] \in Int BY <2>2, <2>3, <2>4, Zenon
  <2>6. g[T] = f[Pick(T)] + g[T \ {Pick(T)}] BY <1>5, <2>3, Zenon
  <2> QED BY <2>3, <2>4, <2>5, <2>6
<1>7. \A T \in SUBSET Worker : g[T] \in Int BY <1>6, Zenon
<1>8. g \in [SUBSET Worker -> Int] BY <1>2, <1>7, Zenon
<1> QED BY <1>1, <1>4, <1>5, <1>8, Zenon

\* A sum of numbers that are not negative is not negative.
LEMMA SumNatural ==
    ASSUME NEW f \in [Worker -> Int], \A w \in Worker : f[w] >= 0
    PROVE  SumFunction(f) >= 0
<1>1. PICK g \in [SUBSET Worker -> Int] :
              /\ g[{}] = 0
              /\ \A T \in SUBSET Worker : T # {} => g[T] = f[Pick(T)] + g[T \ {Pick(T)}]
              /\ SumFunction(f) = g[Worker]
  BY SumDef, Zenon
<1>p. \A T : T # {} => Pick(T) \in T BY Zenon DEF Pick
<1> DEFINE bad == {T \in SUBSET Worker : ~(g[T] >= 0)}
<1>2. bad = {}
  <2> SUFFICES ASSUME bad # {} PROVE FALSE BY Zenon
  <2>1. bad \subseteq SUBSET Worker BY Zenon
  <2>2. PICK T \in bad : \A x \in T : T \ {x} \notin bad
    <3> HIDE DEF bad
    <3> QED BY <2>1, LeastSubset, Zenon
  <2>3. T \in SUBSET Worker /\ ~(g[T] >= 0) BY <2>2, Zenon
  <2>a. g[{}] = 0 BY <1>1, Zenon
  <2>b. g[{}] >= 0 BY <2>a
  <2>4. T # {} BY <2>3, <2>b, Zenon
  <2>5. Pick(T) \in T /\ Pick(T) \in Worker BY <1>p, <2>3, <2>4, Zenon
  <2>6. f[Pick(T)] \in Int /\ f[Pick(T)] >= 0 BY <2>5, Zenon
  <2> DEFINE U == T \ {Pick(T)}
  <2>7. U \in SUBSET Worker /\ U \notin bad BY <2>2, <2>3, <2>5, Zenon
  <2>8. g[T] = f[Pick(T)] + g[U] BY <1>1, <2>3, <2>4, Zenon
  <2> HIDE DEF U
  <2>9. g[U] \in Int /\ g[U] >= 0 BY <1>1, <2>7, Zenon
  <2> QED BY <2>3, <2>6, <2>8, <2>9
<1>3. Worker \in SUBSET Worker BY Zenon
<1>4. g[Worker] >= 0 BY <1>2, <1>3, Zenon
<1> QED BY <1>1, <1>4, Zenon

\* A sum grows with its terms, by at least what one of them grows by.
LEMMA SumGrows ==
    ASSUME NEW f \in [Worker -> Int], NEW h \in [Worker -> Int], NEW w \in Worker, NEW d \in Int,
           \A v \in Worker \ {w} : f[v] <= h[v],
           f[w] + d <= h[w]
    PROVE  SumFunction(f) \in Int /\ SumFunction(h) \in Int /\ SumFunction(f) + d <= SumFunction(h)
<1>1. PICK g \in [SUBSET Worker -> Int] :
              /\ g[{}] = 0
              /\ \A T \in SUBSET Worker : T # {} => g[T] = f[Pick(T)] + g[T \ {Pick(T)}]
              /\ SumFunction(f) = g[Worker]
  BY SumDef, Zenon
<1>2. PICK k \in [SUBSET Worker -> Int] :
              /\ k[{}] = 0
              /\ \A T \in SUBSET Worker : T # {} => k[T] = h[Pick(T)] + k[T \ {Pick(T)}]
              /\ SumFunction(h) = k[Worker]
  BY SumDef, Zenon
<1>p. \A T : T # {} => Pick(T) \in T BY Zenon DEF Pick
<1> DEFINE Share(T) == IF w \in T THEN d ELSE 0
           bad == {T \in SUBSET Worker : ~(g[T] + Share(T) <= k[T])}
<1>3. bad = {}
  <2> SUFFICES ASSUME bad # {} PROVE FALSE BY Zenon
  <2>1. bad \subseteq SUBSET Worker BY Zenon
  <2>2. PICK T \in bad : \A x \in T : T \ {x} \notin bad
    <3> HIDE DEF bad
    <3> QED BY <2>1, LeastSubset, Zenon
  <2>3. T \in SUBSET Worker /\ ~(g[T] + Share(T) <= k[T]) BY <2>2, Zenon
  <2>e. g[{}] = 0 /\ k[{}] = 0 /\ Share({}) = 0 BY <1>1, <1>2, Zenon
  <2>f. g[{}] + Share({}) <= k[{}]
    <3> HIDE DEF Share
    <3> QED BY <2>e
  <2>4. T # {}
    <3> HIDE DEF Share
    <3> QED BY <2>3, <2>f, Zenon
  <2> DEFINE x == Pick(T)
             U == T \ {x}
  <2>5. x \in T /\ x \in Worker BY <1>p, <2>3, <2>4, Zenon
  <2>6. U \in SUBSET Worker /\ U \notin bad BY <2>2, <2>3, <2>5, Zenon
  <2>7. g[T] = f[x] + g[U] /\ k[T] = h[x] + k[U] BY <1>1, <1>2, <2>3, <2>4, Zenon
  <2>8. f[x] \in Int /\ h[x] \in Int /\ g[U] \in Int /\ k[U] \in Int BY <1>1, <1>2, <2>5, <2>6, Zenon
  <2>a. x = w => Share(T) = d /\ Share(U) = 0 BY <2>5, Zenon
  <2>b. x # w => Share(T) = Share(U) BY <2>5, Zenon
  <2>c. Share(U) \in Int
    <3>1. 0 \in Int OBVIOUS
    <3> QED BY <3>1, Zenon
  <2>d. x # w => f[x] <= h[x] BY <2>5, Zenon
  <2>9. g[U] + Share(U) <= k[U] BY <2>6, Zenon
  <2> HIDE DEF x, U, Share, bad
  <2>10. CASE x = w
    <3>1. f[w] + d <= h[w] BY Zenon
    <3> QED BY <2>3, <2>7, <2>8, <2>9, <2>a, <2>10, <3>1
  <2>11. CASE x # w BY <2>3, <2>7, <2>8, <2>9, <2>b, <2>c, <2>d, <2>11
  <2> QED BY <2>10, <2>11, Zenon
<1>4. Worker \in SUBSET Worker BY Zenon
<1>5. g[Worker] + Share(Worker) <= k[Worker] /\ Share(Worker) = d BY <1>3, <1>4, Zenon
<1>6. g[Worker] \in Int /\ k[Worker] \in Int BY <1>1, <1>2, <1>4, Zenon
<1> HIDE DEF Share
<1>7. g[Worker] + d <= k[Worker] BY <1>5, Zenon
<1> QED BY <1>1, <1>2, <1>6, <1>7, Zenon

-----------------------------------------------------------------------------
(* The counters and the chain: the sums *)

\* The counters claim no more than the workers have seen.
ClaimInv ==
    /\ stats.tx_success <= SumFunction([w \in Worker |-> Credit(w)])
    /\ stats.objects_created <= SumFunction([w \in Worker |-> Stock(w)])

\* In a step that counts nothing the counters stay, and in a step that counts the
\* answer of one worker the others keep what they may claim.
LEMMA ClaimStep ==
    ASSUME TypeOK, TypeOK', \A w \in Worker : GasInv(w) /\ RefInv(w), ClaimInv, [Next]_vars
    PROVE  ClaimInv'
<1> DEFINE f == [w \in Worker |-> Credit(w)]
           h == [w \in Worker |-> Credit(w)']
           k == [w \in Worker |-> Stock(w)]
           m == [w \in Worker |-> Stock(w)']
<1>1. /\ stats.tx_success <= SumFunction(f) /\ stats.objects_created <= SumFunction(k)
  BY Zenon DEF ClaimInv
<1>2. \A w \in Worker : Credit(w) \in Int /\ Stock(w) \in Int BY ClaimTypes, Zenon
<1>3. \A w \in Worker : Credit(w)' \in Int /\ Stock(w)' \in Int
  <2>1. (\A w \in Worker : Credit(w) \in Int /\ Stock(w) \in Int)' BY ClaimIntegers, PTL
  <2> QED BY <2>1, Zenon
<1>4. f \in [Worker -> Int] /\ h \in [Worker -> Int] /\ k \in [Worker -> Int] /\ m \in [Worker -> Int]
  BY <1>2, <1>3, Zenon
<1>5. \A w \in Worker : f[w] <= h[w] /\ k[w] <= m[w] BY ClaimGrows, Zenon
<1>6. stats \in BenchStats /\ stats' \in BenchStats BY Zenon DEF TypeOK, SharedTypeOK
<1>7. /\ stats.tx_success \in Nat /\ stats.objects_created \in Nat
      /\ stats'.tx_success \in Nat /\ stats'.objects_created \in Nat
  BY <1>6, Zenon DEF BenchStats
<1>8. ASSUME NEW w \in Worker, NEW a \in Int, NEW b \in Int,
             stats'.tx_success = stats.tx_success + a, stats'.objects_created = stats.objects_created + b,
             f[w] + a <= h[w], k[w] + b <= m[w]
      PROVE  ClaimInv'
  <2> HIDE DEF f, h, k, m
  <2>1. SumFunction(f) \in Int /\ SumFunction(h) \in Int /\ SumFunction(f) + a <= SumFunction(h)
    BY <1>4, <1>5, <1>8, SumGrows, Zenon
  <2>2. SumFunction(k) \in Int /\ SumFunction(m) \in Int /\ SumFunction(k) + b <= SumFunction(m)
    BY <1>4, <1>5, <1>8, SumGrows, Zenon
  <2>3. stats'.tx_success <= SumFunction(h) BY <1>1, <1>7, <1>8, <2>1
  <2>4. stats'.objects_created <= SumFunction(m) BY <1>1, <1>7, <1>8, <2>2
  <2> QED BY <2>3, <2>4, Zenon DEF ClaimInv, h, m
<1>9. ASSUME NEW w \in Worker, MatchResult(w) PROVE ClaimInv'
  <2> DEFINE a == stats'.tx_success - stats.tx_success
             b == stats'.objects_created - stats.objects_created
  <2>1. a \in Int /\ b \in Int /\ f[w] + a <= h[w] /\ k[w] + b <= m[w] BY <1>9, ClaimCounted, Zenon
  <2>2. stats'.tx_success = stats.tx_success + a /\ stats'.objects_created = stats.objects_created + b
    BY <1>7
  <2> HIDE DEF a, b, f, h, k, m
  <2> QED BY <1>8, <2>1, <2>2, Zenon
<1>10. ASSUME stats'.tx_success = stats.tx_success, stats'.objects_created = stats.objects_created
       PROVE  ClaimInv'
  <2>1. PICK w \in Worker : TRUE BY WorkerAssumption, Zenon
  <2> HIDE DEF f, h, k, m
  <2>2. /\ stats'.tx_success = stats.tx_success + 0 /\ stats'.objects_created = stats.objects_created + 0
    BY <1>7, <1>10
  <2>3. f[w] \in Int /\ h[w] \in Int /\ k[w] \in Int /\ m[w] \in Int BY <1>4, Zenon
  <2>4. f[w] + 0 <= h[w] /\ k[w] + 0 <= m[w] BY <1>5, <2>3
  <2>5. 0 \in Int OBVIOUS
  <2> QED BY <1>8, <2>2, <2>4, <2>5, Zenon
<1>11. ASSUME NEW w \in Worker, CountSubmitted(w) PROVE ClaimInv'
  <2>1. stats' = [stats EXCEPT !.tx_submitted = @ + 1] BY <1>11, Zenon DEF CountSubmitted
  <2>2. stats'.tx_success = stats.tx_success /\ stats'.objects_created = stats.objects_created
    BY <1>6, <2>1, Zenon DEF BenchStats
  <2> QED BY <1>10, <2>2, Zenon
<1> QED BY <1>9, <1>10, <1>11, CountingSteps, Zenon

\* At the start nothing is counted and nothing is to be counted.
LEMMA ClaimInit == Init => ClaimInv
<1> SUFFICES ASSUME Init PROVE ClaimInv BY Zenon
<1> DEFINE f == [w \in Worker |-> Credit(w)]
           k == [w \in Worker |-> Stock(w)]
<1>1. ASSUME NEW w \in Worker PROVE Credit(w) = 0 /\ Stock(w) = 0
  <2>1. pc[w] = "head" /\ gas_coin[w] = 1 BY Zenon DEF Init
  <2>2. chain[w] = [gas |-> 1, obj |-> [i \in 1..SeedObjects |-> 1]] BY Zenon DEF Init, NodeInit
  <2>a. [gas |-> 1, obj |-> [i \in 1..SeedObjects |-> 1]].gas = 1 BY Zenon
  <2>b. [gas |-> 1, obj |-> [i \in 1..SeedObjects |-> 1]].obj = [i \in 1..SeedObjects |-> 1] BY Zenon
  <2>3. chain[w].gas = 1 /\ chain[w].obj = [i \in 1..SeedObjects |-> 1] BY <2>2, <2>a, <2>b, Zenon
  <2>4. SeedObjects \in Nat BY SeedAssumption, Zenon
  <2>5. Len(chain[w].obj) = SeedObjects BY <2>3, <2>4
  <2>6. ~Unseen(w) BY <2>1, <2>3 DEF Unseen
  <2>7. Known(w) = SeedObjects BY <2>5, <2>6, Zenon DEF Known
  <2>8. ~Uncounted(w) BY <2>1, Zenon DEF Uncounted
  <2>9. Credit(w) = 1 - 1 - 0 /\ Stock(w) = SeedObjects - SeedObjects - 0
    BY <2>1, <2>7, <2>8, Zenon DEF Credit, Stock
  <2> QED BY <2>4, <2>9
<1>2. f \in [Worker -> Int] /\ k \in [Worker -> Int] /\ \A w \in Worker : f[w] = 0 /\ k[w] = 0
  <2>1. 0 \in Int OBVIOUS
  <2> QED BY <1>1, <2>1, Zenon
<1> HIDE DEF f, k
<1>3. \A w \in Worker : f[w] >= 0 /\ k[w] >= 0 BY <1>2
<1>4. SumFunction(f) >= 0 /\ SumFunction(k) >= 0 BY <1>2, <1>3, SumNatural, Zenon
<1>5. stats.tx_success = 0 /\ stats.objects_created = 0 BY Zenon DEF Init
<1>6. SumFunction(f) \in Int /\ SumFunction(k) \in Int
  <2>1. PICK w \in Worker : TRUE BY WorkerAssumption, Zenon
  <2>2. \A v \in Worker : f[v] <= f[v] /\ k[v] <= k[v] BY <1>2
  <2>3. 0 \in Int /\ f[w] + 0 <= f[w] /\ k[w] + 0 <= k[w] BY <1>2
  <2> QED BY <1>2, <2>2, <2>3, SumGrows, Zenon
<1>7. stats.tx_success <= SumFunction(f) /\ stats.objects_created <= SumFunction(k) BY <1>4, <1>5, <1>6
<1> QED BY <1>7, Zenon DEF ClaimInv, f, k

\* The counters never claim more than the chain holds, whatever is lost, repeated or
\* answered twice: the workers claim what they have seen, each execution once.
THEOREM CountersBacked == Spec => []CountersOnChain
<1> DEFINE Refs == \A w \in Worker : GasInv(w) /\ RefInv(w)
<1>1. ASSUME TypeOK, Refs, ClaimInv PROVE CountersOnChain
  <2> DEFINE f == [w \in Worker |-> Credit(w)]
             h == [w \in Worker |-> chain[w].gas - 1 - (IF Uncounted(w) THEN 1 ELSE 0)]
             k == [w \in Worker |-> Stock(w)]
             m == [w \in Worker |-> Len(chain[w].obj) - SeedObjects
                                    - (IF Uncounted(w) THEN result[w].created ELSE 0)]
  <2>1. ASSUME NEW w \in Worker
        PROVE  /\ f[w] \in Int /\ h[w] \in Int /\ k[w] \in Int /\ m[w] \in Int
               /\ f[w] <= h[w] /\ k[w] <= m[w]
    <3>0. /\ gas_coin[w] \in Nat /\ chain[w].gas \in Nat /\ result[w].created \in Nat
          /\ done[w].base \in Nat /\ Len(chain[w].obj) \in Nat /\ SeedObjects \in Nat
      BY <1>1, ClaimTypes, Zenon
    <3>1. chain[w].gas \in {gas_coin[w], gas_coin[w] + 1} BY <1>1, Zenon DEF GasInv
    <3>2. gas_coin[w] <= chain[w].gas BY <3>0, <3>1
    <3>3. Known(w) \in Nat /\ Known(w) <= Len(chain[w].obj)
      <4>1. CASE Unseen(w)
        <5>1. Len(chain[w].obj) = done[w].base + (IF done[w].ok THEN done[w].tx.create ELSE 0)
          BY <1>1, <4>1, Zenon DEF RefInv, Pending
        <5>2. done[w] \in Effects BY <1>1, Zenon DEF TypeOK, NodeTypeOK
        <5>3. done[w].tx \in Transaction BY <5>2, Zenon DEF Effects
        <5>4. done[w].tx.create \in Nat BY <5>3, Zenon DEF Transaction
        <5>5. done[w].base <= Len(chain[w].obj) BY <3>0, <5>1, <5>4
        <5> QED BY <3>0, <4>1, <5>5, Zenon DEF Known
      <4>2. CASE ~Unseen(w)
        <5>1. Len(chain[w].obj) <= Len(chain[w].obj) BY <3>0
        <5> QED BY <3>0, <4>2, <5>1, Zenon DEF Known
      <4> QED BY <4>1, <4>2, Zenon
    <3>4. f[w] = gas_coin[w] - 1 - (IF Uncounted(w) THEN 1 ELSE 0) BY Zenon DEF Credit
    <3>5. h[w] = chain[w].gas - 1 - (IF Uncounted(w) THEN 1 ELSE 0) BY Zenon
    <3>6. k[w] = Known(w) - SeedObjects - (IF Uncounted(w) THEN result[w].created ELSE 0) BY Zenon DEF Stock
    <3>7. m[w] = Len(chain[w].obj) - SeedObjects - (IF Uncounted(w) THEN result[w].created ELSE 0) BY Zenon
    <3> HIDE DEF f, h, k, m
    <3>8. f[w] \in Int /\ h[w] \in Int /\ f[w] <= h[w] BY <3>0, <3>2, <3>4, <3>5
    <3>9. k[w] \in Int /\ m[w] \in Int /\ k[w] <= m[w] BY <3>0, <3>3, <3>6, <3>7
    <3> QED BY <3>8, <3>9, Zenon
  <2>2. PICK w \in Worker : TRUE BY WorkerAssumption, Zenon
  <2>3. f \in [Worker -> Int] /\ h \in [Worker -> Int] /\ k \in [Worker -> Int] /\ m \in [Worker -> Int]
    BY <2>1, Zenon
  <2>4. stats.tx_success <= SumFunction(f) /\ stats.objects_created <= SumFunction(k)
    BY <1>1, Zenon DEF ClaimInv
  <2>5. stats \in BenchStats BY <1>1, Zenon DEF TypeOK, SharedTypeOK
  <2>6. stats.tx_success \in Nat /\ stats.objects_created \in Nat BY <2>5, Zenon DEF BenchStats
  <2>7. CountersOnChain <=> stats.tx_success <= SumFunction(h) /\ stats.objects_created <= SumFunction(m)
    BY Zenon DEF CountersOnChain
  <2> HIDE DEF f, h, k, m
  <2>8. 0 \in Int /\ f[w] + 0 <= h[w] /\ k[w] + 0 <= m[w] BY <2>1
  <2>9. SumFunction(f) \in Int /\ SumFunction(h) \in Int /\ SumFunction(f) + 0 <= SumFunction(h)
    BY <2>1, <2>3, <2>8, SumGrows, Zenon
  <2>10. SumFunction(k) \in Int /\ SumFunction(m) \in Int /\ SumFunction(k) + 0 <= SumFunction(m)
    BY <2>1, <2>3, <2>8, SumGrows, Zenon
  <2>11. stats.tx_success <= SumFunction(h) BY <2>4, <2>6, <2>9
  <2>12. stats.objects_created <= SumFunction(m) BY <2>4, <2>6, <2>10
  <2> QED BY <2>7, <2>11, <2>12, Zenon
<1>2. TypeOK /\ TypeOK' /\ Refs /\ ClaimInv /\ [Next]_vars => ClaimInv' BY ClaimStep, Zenon
<1>3. TypeOK /\ Refs /\ ClaimInv => CountersOnChain BY <1>1, Zenon
<1> HIDE DEF Refs
<1>4. Spec => [](TypeOK /\ Refs) BY RefInvariant, Zenon DEF Refs
<1> QED BY <1>2, <1>3, <1>4, ClaimInit, PTL DEF Spec
=============================================================================
