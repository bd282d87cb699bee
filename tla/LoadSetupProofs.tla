-------------------------- MODULE LoadSetupProofs --------------------------
(***************************************************************************)
(* Theorems about LoadSetup, for any number of workers, runs, ledgers and  *)
(* faults: what a run holds when it measures (RefsOwned,                   *)
(* CurrentUntilUnseen, SeedsComplete), and that the runs implement Phases. *)
(*                                                                         *)
(* The inductive invariant follows an address through the ledger           *)
(* (LedgerInv), the file through save and load (FileInv, RunInv) and each  *)
(* worker through the stages of a run: the faucet (FaucetInv), the seed    *)
(* objects of a FRESH run, whose keys nobody else has used (SeedInv), the  *)
(* refresh of a LOAD run, during which transactions of earlier runs may    *)
(* still execute (RefreshInv), and the measured phase (MeasureInv).        *)
(***************************************************************************)
EXTENDS LoadSetup, TLAPS

Effects == [tx : Transaction, first : Nat \ {0}, count : Nat, version : Nat]

\* The transactions the generator sends name one object at most.
Single(tx) == tx.inputs = {} \/ \E r \in tx.inputs : tx.inputs = {r}

\* A worker's coin is one of its address, at a version it has had; at the version it has.
GasOwned(w) ==
    LET cs == coins[main.keys][w]
        c == ws[w].gas_coin
    IN c.id \in DOMAIN cs /\ c.version <= cs[c.id].version
GasCurrent(w) == ws[w].gas_coin.version = coins[main.keys][w][ws[w].gas_coin.id].version

DistinctIds(list) == \A i, j \in DOMAIN list : list[i].id = list[j].id => i = j

\* The objects of a list are the address's, at versions they have had; at the ones they have.
OwnedBy(w, list) ==
    \A i \in DOMAIN list : /\ list[i].id \in DOMAIN owned[main.keys][w]
                           /\ list[i].version <= owned[main.keys][w][list[i].id]
CurrentFor(w, list) == \A i \in DOMAIN list : list[i].version = owned[main.keys][w][list[i].id]

\* What a transaction created is there, and no older than its effects say; keys
\* that have not been generated yet have sent nothing.
LedgerInv(k, w) ==
    LET d == done[k][w]
    IN /\ \A tx \in net[k][w] : tx.coin.id # 0 /\ Single(tx)
       /\ d.tx.coin.id # 0 => /\ d.tx.coin.id \in DOMAIN coins[k][w]
                              /\ d.version <= coins[k][w][d.tx.coin.id].version
                              /\ d.tx.coin.version < d.version
       /\ \A i \in d.first..(d.first + d.count - 1) :
             i \in DOMAIN owned[k][w] /\ d.version <= owned[k][w][i]
       /\ used.faults = 0 => d.count = d.tx.create
       /\ k > used.fresh => net[k][w] = {} /\ d.tx.coin.id = 0

FileInv ==
    /\ file.keys <= used.fresh
    /\ file.kind = "saved" <=> file.keys # 0
    /\ file.kind # "saved" => file.objects = Every(<<>>)
    /\ \A w \in Worker : DistinctIds(file.objects[w])

RunInv ==
    /\ main.keys <= used.fresh
    /\ main.stage \in {"faucet", "seed", "refresh", "measure"} =>
          /\ main.load => main.keys = file.keys
          /\ ~main.load => file.keys < main.keys /\ main.keys = used.fresh
    /\ main.stage = "seed" => ~main.load
    /\ main.stage = "refresh" => main.load /\ main.w \in Worker
    /\ main.stage = "faucet" => main.w = 1 /\ main.pos = 1 /\ main.read = <<>>

\* The seed objects a worker has been answered for.
Seeded(w) == SeedObjects - ws[w].remaining - IF ws[w].pc = "rpc" THEN ws[w].rpc.create ELSE 0

\* The one transaction a seeding worker has sent is under way, or has executed
\* and created objects the worker does not track yet.
RpcInv(w) ==
    LET k == main.keys
        s == ws[w]
        d == done[k][w]
    IN /\ s.rpc.coin = s.gas_coin /\ s.rpc.inputs = {} /\ GasOwned(w)
       /\ \/ net[k][w] = {s.rpc} /\ d.tx # s.rpc /\ GasCurrent(w)
          \/ /\ net[k][w] = {} /\ d.tx = s.rpc
             /\ d.version = coins[k][w][s.gas_coin.id].version
             /\ \A i \in DOMAIN s.objects : s.objects[i].id < d.first
             /\ \A i \in d.first..(d.first + d.count - 1) : owned[k][w][i] = d.version

\* Nobody has used the keys of a FRESH run before; a LOAD run has the lists of the file.
FaucetInv(w) ==
    LET k == main.keys
        s == ws[w]
    IN /\ s.pc \in {"wait", "post", "query", "funded", "failed"} /\ s.rpc = NoTx
       /\ s.pc = "funded" => GasOwned(w) /\ ((main.load /\ unseen) \/ GasCurrent(w))
       /\ main.load => s.objects = file.objects[w]
       /\ ~main.load => net[k][w] = {} /\ done[k][w].tx.coin.id = 0 /\ s.objects = <<>>

\* Between two batches a worker has seen all that happened to its address.
IdleInv(w) ==
    /\ net[main.keys][w] = {} /\ GasOwned(w) /\ GasCurrent(w)
    /\ done[main.keys][w].tx.coin.id \in {0, ws[w].gas_coin.id}

SeedListInv(w) ==
    LET list == ws[w].objects
    IN /\ DistinctIds(list) /\ OwnedBy(w, list) /\ CurrentFor(w, list)
       /\ used.faults = 0 => Len(list) >= Smaller(Seeded(w), MaxTracked)

SeedInv(w) ==
    LET s == ws[w]
    IN /\ s.pc \in {"seed", "rpc", "ready", "failed"}
       /\ s.pc \in {"seed", "ready"} => IdleInv(w) /\ s.rpc = NoTx
       /\ s.pc = "rpc" => RpcInv(w)
       /\ s.pc # "failed" => SeedListInv(w)
       /\ s.pc = "ready" => s.remaining = 0

\* A list a LOAD run has refreshed: objects of the file, owned, and current
\* unless a transaction of an earlier run has executed since.
Refreshed(w, list) ==
    /\ DistinctIds(list) /\ OwnedBy(w, list) /\ (unseen \/ CurrentFor(w, list))
    /\ \A i \in DOMAIN list : \E j \in DOMAIN file.objects[w] : list[i].id = file.objects[w][j].id

RefreshInv(w) ==
    LET s == ws[w]
    IN /\ s.pc = "seed" /\ s.rpc = NoTx
       /\ GasOwned(w) /\ (unseen \/ GasCurrent(w))
       /\ main.w <= w => s.objects = file.objects[w]
       /\ w < main.w => Refreshed(w, s.objects)
       /\ w = main.w => /\ Refreshed(w, main.read)
                        /\ \A i \in DOMAIN main.read : \E j \in DOMAIN s.objects :
                              j < main.pos /\ main.read[i].id = s.objects[j].id

MeasureInv(w) ==
    LET s == ws[w]
    IN /\ s.pc \in {"seed", "ready"} /\ s.rpc = NoTx
       /\ GasOwned(w) /\ (unseen \/ GasCurrent(w))
       /\ DistinctIds(s.objects) /\ OwnedBy(w, s.objects) /\ (unseen \/ CurrentFor(w, s.objects))
       /\ (~main.load /\ used.faults = 0) => Len(s.objects) >= Smaller(SeedObjects, MaxTracked)

WorkerInv(w) ==
    /\ main.stage = "down" => ws[w].pc = "wait"
    /\ main.stage = "faucet" => FaucetInv(w)
    /\ main.stage = "seed" => SeedInv(w)
    /\ main.stage = "refresh" => RefreshInv(w)
    /\ main.stage \in {"measure", "saving"} => MeasureInv(w)

IInv ==
    /\ TypeOK /\ FileInv /\ RunInv
    /\ \A k \in Key, w \in Worker : LedgerInv(k, w)
    /\ \A w \in Worker : WorkerInv(w)
-----------------------------------------------------------------------------
(* Operators *)

\* Counting on from a number.
LEMMA NextNat ==
    ASSUME NEW m \in Nat
    PROVE  m + 1 \in Nat
OBVIOUS

\* A number is at most itself.
LEMMA NoMore ==
    ASSUME NEW m \in Nat, NEW n, n = m
    PROVE  m <= n /\ n \in Nat
OBVIOUS

\* A transaction gives everything it touches a version above all it carries.
LEMMA NewVersionAbove ==
    ASSUME NEW tx \in Transaction, Single(tx)
    PROVE  /\ NewVersion(tx) \in Nat /\ tx.coin.version < NewVersion(tx)
           /\ \A r \in tx.inputs : r.version < NewVersion(tx)
<1> DEFINE m == tx.coin.version
<1>0. m \in Nat
  BY Zenon DEF Transaction, Ref
<1>1. CASE tx.inputs = {}
  <2>1. {m} \cup {r.version : r \in tx.inputs} = {m}
    BY <1>1, Zenon
  <2>2. \A x \in {m} : x = m
    BY Zenon
  <2>3. Max({m}) = m
    BY <1>0 DEF Max
  <2> QED
    BY <1>0, <1>1, <2>1, <2>3 DEF NewVersion
<1>2. CASE \E r \in tx.inputs : tx.inputs = {r}
  <2>1. PICK r \in tx.inputs : tx.inputs = {r}
    BY <1>2, Zenon
  <2> DEFINE u == r.version
  <2>2. u \in Nat
    BY <2>1, Zenon DEF Transaction, TrackedObject
  <2>3. {m} \cup {q.version : q \in tx.inputs} = {m, u}
    BY <2>1, Zenon
  <2> HIDE DEF m, u
  <2>4. Max({m, u}) \in {m, u} /\ m <= Max({m, u}) /\ u <= Max({m, u})
    <3>1. \E x \in {m, u} : \A y \in {m, u} : x >= y
      BY <1>0, <2>2
    <3>2. Max({m, u}) \in {m, u} /\ \A y \in {m, u} : Max({m, u}) >= y
      BY <3>1, Zenon DEF Max
    <3> QED
      BY <3>2, <1>0, <2>2, Zenon
  <2>5. NewVersion(tx) = 1 + Max({m, u})
    BY <2>3, Zenon DEF NewVersion, m
  <2>6. \A q \in tx.inputs : q.version = u
    BY <2>1, Zenon DEF u
  <2>7. tx.coin.version = m
    BY Zenon DEF m
  <2> QED
    BY <1>0, <2>2, <2>4, <2>5, <2>6, <2>7
<1> QED
  BY <1>1, <1>2, Zenon DEF Single

\* Tracking appends created objects, as far as there is room, and changes no entry.
LEMMA TrackAppends ==
    ASSUME NEW list \in Seq(TrackedObject), NEW d \in Effects
    PROVE  /\ Track(list, d) \in Seq(TrackedObject)
           /\ Len(Track(list, d)) >= Len(list)
           /\ Len(Track(list, d)) >= Smaller(Len(list) + d.count, MaxTracked)
           /\ \A i \in DOMAIN list : i \in DOMAIN Track(list, d) /\ Track(list, d)[i] = list[i]
           /\ \A i \in DOMAIN Track(list, d) : i > Len(list) =>
                 /\ Track(list, d)[i].id = d.first + (i - Len(list)) - 1
                 /\ Track(list, d)[i].id \in d.first..(d.first + d.count - 1)
                 /\ Track(list, d)[i].version = d.version
<1> DEFINE room == MaxTracked - Smaller(Len(list), MaxTracked)
           n == Smaller(d.count, room)
           add == [i \in 1..n |-> [id |-> d.first + i - 1, version |-> d.version]]
<1>1. d.first \in Nat \ {0} /\ d.count \in Nat /\ d.version \in Nat
  BY Zenon DEF Effects
<1>2. MaxTracked \in Nat /\ Len(list) \in Nat
  BY CountAssumption
<1>3. n \in Nat /\ n <= d.count /\ Len(list) + n >= Smaller(Len(list) + d.count, MaxTracked)
  BY <1>1, <1>2 DEF Smaller
<1> HIDE DEF n
<1>4. add \in Seq(TrackedObject) /\ Len(add) = n
  <2>1. \A i \in 1..n : [id |-> d.first + i - 1, version |-> d.version] \in TrackedObject
    BY <1>1, <1>3 DEF TrackedObject
  <2> QED
    BY <1>3, <2>1
<1>5. \A i \in 1..n : add[i].id = d.first + i - 1 /\ add[i].version = d.version
  BY Zenon
<1>6. Track(list, d) = list \o add
  BY Zenon DEF Track, n
<1> HIDE DEF add
<1>7. /\ list \o add \in Seq(TrackedObject) /\ Len(list \o add) = Len(list) + n
      /\ \A i \in 1..(Len(list) + n) :
            (list \o add)[i] = IF i <= Len(list) THEN list[i] ELSE add[i - Len(list)]
      /\ DOMAIN (list \o add) = 1..(Len(list) + n)
  BY <1>2, <1>3, <1>4
<1>8. \A i \in 1..(Len(list) + n) : i > Len(list) =>
        /\ i - Len(list) \in 1..n
        /\ (list \o add)[i] = add[i - Len(list)]
  BY <1>2, <1>3, <1>7
<1>9. \A i \in 1..(Len(list) + n) : i > Len(list) =>
        /\ (list \o add)[i].id = d.first + (i - Len(list)) - 1
        /\ (list \o add)[i].version = d.version
        /\ d.first + (i - Len(list)) - 1 \in d.first..(d.first + d.count - 1)
  <2> SUFFICES ASSUME NEW i \in 1..(Len(list) + n), i > Len(list)
               PROVE  /\ (list \o add)[i].id = d.first + (i - Len(list)) - 1
                      /\ (list \o add)[i].version = d.version
                      /\ d.first + (i - Len(list)) - 1 \in d.first..(d.first + d.count - 1)
    BY Zenon
  <2> DEFINE j == i - Len(list)
  <2>1. j \in 1..n /\ (list \o add)[i] = add[j]
    BY <1>8, Zenon
  <2> HIDE DEF j
  <2>2. add[j].id = d.first + j - 1 /\ add[j].version = d.version
    BY <1>5, <2>1, Zenon
  <2>3. d.first + j - 1 \in d.first..(d.first + d.count - 1)
    BY <1>1, <1>3, <2>1, SMTT(20)
  <2> QED
    BY <2>1, <2>2, <2>3, Zenon DEF j
<1>10. \A i \in DOMAIN list : i \in 1..(Len(list) + n) /\ (list \o add)[i] = list[i]
  BY <1>2, <1>3, <1>7
<1> QED
  BY <1>2, <1>3, <1>6, <1>7, <1>9, <1>10

\* Updating a list changes the versions of the inputs and nothing else.
LEMMA UpdatedKeeps ==
    ASSUME NEW list \in Seq(TrackedObject), NEW inputs, NEW v \in Nat
    PROVE  /\ Updated(list, inputs, v) \in Seq(TrackedObject)
           /\ DOMAIN Updated(list, inputs, v) = DOMAIN list
           /\ Len(Updated(list, inputs, v)) = Len(list)
           /\ \A i \in DOMAIN list :
                 /\ Updated(list, inputs, v)[i].id = list[i].id
                 /\ Updated(list, inputs, v)[i].version = IF list[i] \in inputs THEN v ELSE list[i].version
<1>1. \A i \in DOMAIN list : list[i] \in TrackedObject
  OBVIOUS
<1>2. \A i \in DOMAIN list : [list[i] EXCEPT !.version = v] \in TrackedObject
  BY <1>1, Zenon DEF TrackedObject
<1>3. \A i \in DOMAIN list : /\ [list[i] EXCEPT !.version = v].id = list[i].id
                             /\ [list[i] EXCEPT !.version = v].version = v
  BY <1>1, Zenon DEF TrackedObject
<1>4. DOMAIN list = 1..Len(list) /\ Len(list) \in Nat
  OBVIOUS
<1>5. Updated(list, inputs, v) \in [1..Len(list) -> TrackedObject]
  BY <1>1, <1>2, <1>4, Zenon DEF Updated
<1>6. Updated(list, inputs, v) \in Seq(TrackedObject) /\ Len(Updated(list, inputs, v)) = Len(list)
  BY <1>4, <1>5
<1> QED
  BY <1>3, <1>4, <1>6, Zenon DEF Updated
-----------------------------------------------------------------------------
(* Types, and what a step does to the ledger of one address *)

Coin == [version : Nat, paid : Nat]

LedgerType ==
    /\ nextId \in Nat \ {0}
    /\ coins \in [Key -> [Worker -> Seq(Coin)]]
    /\ DOMAIN owned = Key
    /\ \A k \in Key : DOMAIN owned[k] = Worker
    /\ \A k \in Key, w \in Worker : \E S \in SUBSET (1..(nextId - 1)) : owned[k][w] \in [S -> Nat]
    /\ net \in [Key -> [Worker -> SUBSET Transaction]]
    /\ owed \in [Key -> [Worker -> Nat]]
    /\ done \in [Key -> [Worker -> Effects]]

MainState == [stage : {"down", "faucet", "seed", "refresh", "measure", "saving"},
              keys : 0..MaxFresh, load : BOOLEAN, chunk : Nat, w : Nat \ {0}, pos : Nat \ {0},
              read : Seq(TrackedObject)]

RunType ==
    /\ file \in [kind : {"none", "torn", "saved"}, keys : 0..MaxFresh,
                 objects : [Worker -> Seq(TrackedObject)]]
    /\ main \in MainState
    /\ (main.keys = 0) = (main.stage = "down")
    /\ ws \in [Worker -> WorkerState]
    /\ used \in [fresh : 0..MaxFresh, starts : Nat, work : Nat, faults : Nat, chains : Nat]
    /\ unseen \in BOOLEAN

LEMMA TypeParts == TypeOK <=> LedgerType /\ RunType
  BY Zenon DEF TypeOK, LedgerType, RunType, MainState, Effects, Coin

\* Changing one place of a table by key and worker.
LEMMA Table ==
    ASSUME NEW f, DOMAIN f = Key, \A k \in Key : DOMAIN f[k] = Worker,
           NEW k \in Key, NEW w \in Worker, NEW x
    PROVE  LET g == [f EXCEPT ![k][w] = x]
           IN /\ DOMAIN g = Key /\ \A j \in Key : DOMAIN g[j] = Worker
              /\ g[k][w] = x
              /\ \A j \in Key, v \in Worker : j # k \/ v # w => g[j][v] = f[j][v]
  BY Zenon

LEMMA TypedTable ==
    ASSUME NEW T, NEW f \in [Key -> [Worker -> T]], NEW k \in Key, NEW w \in Worker, NEW x \in T
    PROVE  LET g == [f EXCEPT ![k][w] = x]
           IN /\ g \in [Key -> [Worker -> T]]
              /\ g[k][w] = x
              /\ \A j \in Key, v \in Worker : j # k \/ v # w => g[j][v] = f[j][v]
  BY Zenon

Same(k, w) ==
    /\ coins'[k][w] = coins[k][w] /\ owned'[k][w] = owned[k][w]
    /\ net'[k][w] = net[k][w] /\ done'[k][w] = done[k][w]

Pays(k, w) ==
    /\ coins'[k][w] = Append(coins[k][w], [version |-> 1, paid |-> 0])
    /\ owned'[k][w] = owned[k][w] /\ net'[k][w] = net[k][w] /\ done'[k][w] = done[k][w]

Sends(k, w, tx) ==
    /\ net'[k][w] = net[k][w] \cup {tx}
    /\ coins'[k][w] = coins[k][w] /\ owned'[k][w] = owned[k][w] /\ done'[k][w] = done[k][w]

Executes(k, w, tx, ok) ==
    LET v == NewVersion(tx)
        n == IF ok THEN tx.create ELSE 0
        new == nextId..(nextId + n - 1)
    IN /\ Current(k, w, tx)
       /\ DOMAIN coins'[k][w] = DOMAIN coins[k][w]
       /\ \A i \in DOMAIN coins[k][w] :
             coins'[k][w][i].version = IF i = tx.coin.id THEN v ELSE coins[k][w][i].version
       /\ DOMAIN owned'[k][w] = DOMAIN owned[k][w] \cup new
       /\ \A i \in new : owned'[k][w][i] = v
       /\ \A i \in DOMAIN owned[k][w] :
             owned'[k][w][i] = IF \E r \in tx.inputs : r.id = i THEN v ELSE owned[k][w][i]
       /\ net'[k][w] = {t \in net[k][w] : t.coin # tx.coin}
       /\ done'[k][w] = [tx |-> tx, first |-> nextId, count |-> n, version |-> v]

\* The types of what belongs to one address, and to one worker.
LEMMA AddressType ==
    ASSUME LedgerType, NEW k \in Key, NEW w \in Worker
    PROVE  /\ nextId \in Nat \ {0}
           /\ coins[k][w] \in Seq(Coin)
           /\ \A i \in DOMAIN coins[k][w] : coins[k][w][i] \in Coin /\ coins[k][w][i].version \in Nat
           /\ DOMAIN coins[k][w] \subseteq Nat \ {0}
           /\ DOMAIN owned[k][w] \subseteq 1..(nextId - 1)
           /\ \A i \in DOMAIN owned[k][w] : owned[k][w][i] \in Nat
           /\ net[k][w] \in SUBSET Transaction
           /\ done[k][w] \in Effects
<1>1. coins[k][w] \in Seq(Coin)
  BY DEF LedgerType
<1>2. \A i \in DOMAIN coins[k][w] : coins[k][w][i] \in Coin
  BY <1>1
<1>3. DOMAIN coins[k][w] \subseteq Nat \ {0}
  BY <1>1
<1>4. PICK S \in SUBSET (1..(nextId - 1)) : owned[k][w] \in [S -> Nat]
  BY Zenon DEF LedgerType
<1>5. net[k][w] \in SUBSET Transaction /\ done[k][w] \in Effects /\ nextId \in Nat \ {0}
  BY DEF LedgerType
<1>6. \A c \in Coin : c.version \in Nat
  BY Zenon DEF Coin
<1> QED
  BY <1>1, <1>2, <1>3, <1>4, <1>5, <1>6, Zenon

\* An execution: what it does to the address, and that all others are left alone.
LEMMA ApplyExecutes ==
    ASSUME LedgerType, NEW k \in Key, NEW w \in Worker, NEW tx \in Transaction, Single(tx),
           NEW ok \in BOOLEAN, Apply(k, w, tx, ok)
    PROVE  /\ Executes(k, w, tx, ok)
           /\ \A j \in Key, x \in Worker : j # k \/ x # w => Same(j, x)
           /\ nextId' = nextId + IF ok THEN tx.create ELSE 0
           /\ LedgerType'
<1> DEFINE v == NewVersion(tx)
           n == IF ok THEN tx.create ELSE 0
           new == nextId..(nextId + n - 1)
           touched == new \cup {r.id : r \in tx.inputs}
           old == owned[k][w]
           c == tx.coin.id
           cs == [coins[k][w] EXCEPT ![c] = [version |-> v, paid |-> @.paid + 1]]
           os == [i \in DOMAIN old \cup new |-> IF i \in touched THEN v ELSE old[i]]
           ns == {t \in net[k][w] : t.coin # tx.coin}
           ds == [tx |-> tx, first |-> nextId, count |-> n, version |-> v]
<1>1. v \in Nat
  BY NewVersionAbove, Zenon
<1>2. n \in Nat /\ nextId \in Nat \ {0}
  BY Zenon DEF Transaction, LedgerType
<1>3. /\ Current(k, w, tx)
      /\ coins' = [coins EXCEPT ![k][w] = cs]
      /\ owned' = [owned EXCEPT ![k][w] = os]
      /\ net' = [net EXCEPT ![k][w] = ns]
      /\ done' = [done EXCEPT ![k][w] = ds]
      /\ nextId' = nextId + n /\ owed' = owed
  BY Zenon DEF Apply
<1>4. /\ coins[k][w] \in Seq(Coin) /\ DOMAIN old \subseteq 1..(nextId - 1)
      /\ \A i \in DOMAIN old : old[i] \in Nat
      /\ net[k][w] \in SUBSET Transaction
      /\ \A i \in DOMAIN coins[k][w] : coins[k][w][i] \in Coin
  BY AddressType, Zenon
<1>5. c \in DOMAIN coins[k][w]
  BY <1>3, Zenon DEF Current
<1> HIDE DEF v, n
<1>6. /\ cs \in Seq(Coin) /\ DOMAIN cs = DOMAIN coins[k][w]
      /\ \A i \in DOMAIN cs : cs[i].version = IF i = c THEN v ELSE coins[k][w][i].version
  <2>1. coins[k][w][c].paid \in Nat
    BY <1>4, <1>5, Zenon DEF Coin
  <2>2. [version |-> v, paid |-> coins[k][w][c].paid + 1] \in Coin
    BY <2>1, <1>1 DEF Coin
  <2>3. cs \in [1..Len(coins[k][w]) -> Coin]
    BY <1>4, <1>5, <2>2
  <2>4. cs \in Seq(Coin)
    BY <1>4, <2>3
  <2>5. DOMAIN cs = DOMAIN coins[k][w]
    BY Zenon
  <2>6. \A i \in DOMAIN cs : cs[i].version = IF i = c THEN v ELSE coins[k][w][i].version
    BY <1>5, Zenon
  <2> QED
    BY <2>4, <2>5, <2>6, Zenon
<1>7. /\ DOMAIN os = DOMAIN old \cup new
      /\ \A i \in new : os[i] = v
      /\ \A i \in DOMAIN old : os[i] = IF \E r \in tx.inputs : r.id = i THEN v ELSE old[i]
      /\ os \in [DOMAIN old \cup new -> Nat]
  <2>1. \A i \in DOMAIN old : i \notin new
    BY <1>2, <1>4
  <2>2. \A i \in DOMAIN old : i \in touched <=> \E r \in tx.inputs : r.id = i
    BY <2>1, Zenon
  <2>3. \A i \in new : i \in touched
    BY Zenon
  <2> HIDE DEF new, touched
  <2> QED
    BY <1>1, <1>4, <2>2, <2>3, Zenon
<1>8. DOMAIN old \cup new \in SUBSET (1..(nextId' - 1))
  BY <1>2, <1>3, <1>4
<1>9. ns \in SUBSET Transaction /\ ds \in Effects
  BY <1>1, <1>2, <1>4, Zenon DEF Effects
<1> HIDE DEF new, touched, old, cs, os, ns, ds
<1>10. /\ coins' \in [Key -> [Worker -> Seq(Coin)]] /\ coins'[k][w] = cs
       /\ \A j \in Key, x \in Worker : j # k \/ x # w => coins'[j][x] = coins[j][x]
  BY <1>3, <1>6, TypedTable DEF LedgerType
<1>11. /\ DOMAIN owned' = Key /\ \A j \in Key : DOMAIN owned'[j] = Worker
       /\ owned'[k][w] = os
       /\ \A j \in Key, x \in Worker : j # k \/ x # w => owned'[j][x] = owned[j][x]
  BY <1>3, Table DEF LedgerType
<1>12. /\ net' \in [Key -> [Worker -> SUBSET Transaction]] /\ net'[k][w] = ns
       /\ \A j \in Key, x \in Worker : j # k \/ x # w => net'[j][x] = net[j][x]
  BY <1>3, <1>9, TypedTable DEF LedgerType
<1>13. /\ done' \in [Key -> [Worker -> Effects]] /\ done'[k][w] = ds
       /\ \A j \in Key, x \in Worker : j # k \/ x # w => done'[j][x] = done[j][x]
  BY <1>3, <1>9, TypedTable DEF LedgerType
<1>14. nextId' \in Nat \ {0}
  BY <1>2, <1>3
<1>15. \A j \in Key, x \in Worker : \E S \in SUBSET (1..(nextId' - 1)) : owned'[j][x] \in [S -> Nat]
  <2> SUFFICES ASSUME NEW j \in Key, NEW x \in Worker
               PROVE  \E S \in SUBSET (1..(nextId' - 1)) : owned'[j][x] \in [S -> Nat]
    BY Zenon
  <2>1. CASE j = k /\ x = w
    BY <1>7, <1>8, <1>11, <2>1, Zenon
  <2>2. CASE j # k \/ x # w
    <3>1. PICK S \in SUBSET (1..(nextId - 1)) : owned[j][x] \in [S -> Nat]
      BY Zenon DEF LedgerType
    <3>2. S \in SUBSET (1..(nextId' - 1))
      BY <1>2, <1>3, <3>1
    <3>3. owned'[j][x] = owned[j][x]
      BY <1>11, <2>2, Zenon
    <3> QED
      BY <3>1, <3>2, <3>3, Zenon
  <2> QED
    BY <2>1, <2>2, Zenon
<1>16. owed' \in [Key -> [Worker -> Nat]]
  BY <1>3, Zenon DEF LedgerType
<1>17. LedgerType'
  BY <1>10, <1>11, <1>12, <1>13, <1>14, <1>15, <1>16, Zenon DEF LedgerType
<1>18. \A j \in Key, x \in Worker : j # k \/ x # w => Same(j, x)
  <2> SUFFICES ASSUME NEW j \in Key, NEW x \in Worker, j # k \/ x # w
               PROVE  Same(j, x)
    BY Zenon
  <2>1. coins'[j][x] = coins[j][x] /\ owned'[j][x] = owned[j][x]
    BY <1>10, <1>11, Zenon
  <2>2. net'[j][x] = net[j][x] /\ done'[j][x] = done[j][x]
    BY <1>12, <1>13, Zenon
  <2> QED
    BY <2>1, <2>2, Zenon DEF Same
<1>19. Executes(k, w, tx, ok)
  BY <1>3, <1>6, <1>7, <1>10, <1>11, <1>12, <1>13 DEF Executes, v, n, new, old, ns, ds
<1> QED
  BY <1>3, <1>17, <1>18, <1>19, Zenon DEF n

LEMMA QuietStep ==
    ASSUME LedgerType, UNCHANGED <<coins, owned, net, done, nextId>>, owed' \in [Key -> [Worker -> Nat]]
    PROVE  LedgerType' /\ \A k \in Key, w \in Worker : Same(k, w)
<1>1. LedgerType'
  BY Zenon DEF LedgerType
<1> QED
  BY <1>1, Zenon DEF Same

LEMMA PaysStep ==
    ASSUME LedgerType, NEW k \in Key, NEW w \in Worker, FaucetPays(k, w)
    PROVE  /\ LedgerType' /\ Pays(k, w)
           /\ \A j \in Key, x \in Worker : j # k \/ x # w => Same(j, x)
<1> DEFINE cs == Append(coins[k][w], [version |-> 1, paid |-> 0])
<1>1. coins' = [coins EXCEPT ![k][w] = cs] /\ UNCHANGED <<owned, net, done, nextId>>
  BY Zenon DEF FaucetPays
<1>2. cs \in Seq(Coin)
  <2>1. coins[k][w] \in Seq(Coin) /\ [version |-> 1, paid |-> 0] \in Coin
    BY AddressType, Zenon DEF Coin
  <2> QED
    BY <2>1
<1> HIDE DEF cs
<1>3. /\ coins' \in [Key -> [Worker -> Seq(Coin)]] /\ coins'[k][w] = cs
      /\ \A j \in Key, x \in Worker : j # k \/ x # w => coins'[j][x] = coins[j][x]
  BY <1>1, <1>2, TypedTable DEF LedgerType
<1>4. owed' \in [Key -> [Worker -> Nat]]
  <2>1. owed[k][w] \in Nat /\ owed[k][w] > 0 /\ owed' = [owed EXCEPT ![k][w] = owed[k][w] - 1]
    BY DEF FaucetPays, LedgerType
  <2>2. owed[k][w] - 1 \in Nat
    BY <2>1
  <2> QED
    BY <2>1, <2>2, TypedTable DEF LedgerType
<1>5. LedgerType'
  BY <1>1, <1>3, <1>4, Zenon DEF LedgerType
<1>6. Pays(k, w)
  BY <1>1, <1>3, Zenon DEF Pays, cs
<1>7. ASSUME NEW j \in Key, NEW x \in Worker, j # k \/ x # w
      PROVE  Same(j, x)
  <2>1. coins'[j][x] = coins[j][x]
    BY <1>3, <1>7, Zenon
  <2> QED
    BY <1>1, <2>1, Zenon DEF Same
<1> QED
  BY <1>5, <1>6, <1>7, Zenon

LEMMA SendsStep ==
    ASSUME LedgerType, NEW k \in Key, NEW w \in Worker, NEW tx \in Transaction,
           net' = [net EXCEPT ![k][w] = @ \cup {tx}], UNCHANGED <<coins, owned, owed, done, nextId>>
    PROVE  /\ LedgerType' /\ Sends(k, w, tx)
           /\ \A j \in Key, x \in Worker : j # k \/ x # w => Same(j, x)
<1>1. net[k][w] \cup {tx} \in SUBSET Transaction
  BY AddressType, Zenon
<1>2. /\ net' \in [Key -> [Worker -> SUBSET Transaction]] /\ net'[k][w] = net[k][w] \cup {tx}
      /\ \A j \in Key, x \in Worker : j # k \/ x # w => net'[j][x] = net[j][x]
  BY <1>1, TypedTable DEF LedgerType
<1>3. LedgerType'
  BY <1>2, Zenon DEF LedgerType
<1>4. ASSUME NEW j \in Key, NEW x \in Worker, j # k \/ x # w
      PROVE  Same(j, x)
  <2>1. net'[j][x] = net[j][x]
    BY <1>2, <1>4, Zenon
  <2> QED
    BY <2>1, Zenon DEF Same
<1> QED
  BY <1>2, <1>3, <1>4, Zenon DEF Sends

\* Nothing an address holds disappears or goes back; without an execution nothing changes.
Grows(k, w) ==
    /\ \A i \in DOMAIN coins[k][w] :
          /\ i \in DOMAIN coins'[k][w] /\ coins'[k][w][i].version \in Nat
          /\ coins[k][w][i].version <= coins'[k][w][i].version
    /\ \A i \in DOMAIN owned[k][w] :
          /\ i \in DOMAIN owned'[k][w] /\ owned'[k][w][i] \in Nat
          /\ owned[k][w][i] <= owned'[k][w][i]

Stays(k, w) ==
    /\ \A i \in DOMAIN coins[k][w] :
          i \in DOMAIN coins'[k][w] /\ coins'[k][w][i].version = coins[k][w][i].version
    /\ owned'[k][w] = owned[k][w]
    /\ done'[k][w] = done[k][w]

LEMMA AllStay ==
    ASSUME LedgerType, NEW k \in Key, NEW w \in Worker,
           Same(k, w) \/ Pays(k, w) \/ \E tx \in Transaction : Sends(k, w, tx)
    PROVE  Stays(k, w) /\ Grows(k, w)
<1>1. Stays(k, w)
  <2>1. CASE Same(k, w)
    BY <2>1, Zenon DEF Same, Stays
  <2>2. CASE Pays(k, w)
    <3>1. coins[k][w] \in Seq(Coin) /\ [version |-> 1, paid |-> 0] \in Coin
      BY AddressType, Zenon DEF Coin
    <3>2. \A i \in DOMAIN coins[k][w] :
             i \in DOMAIN coins'[k][w] /\ coins'[k][w][i] = coins[k][w][i]
      BY <2>2, <3>1 DEF Pays
    <3> QED
      BY <2>2, <3>2, Zenon DEF Pays, Stays
  <2>3. CASE \E tx \in Transaction : Sends(k, w, tx)
    BY <2>3, Zenon DEF Sends, Stays
  <2> QED
    BY <2>1, <2>2, <2>3, Zenon
<1>2. \A i \in DOMAIN coins[k][w] : coins[k][w][i].version \in Nat
  BY AddressType, Zenon
<1>3. \A i \in DOMAIN owned[k][w] : owned[k][w][i] \in Nat
  BY AddressType, Zenon
<1> QED
  BY <1>1, <1>2, <1>3 DEF Stays, Grows

LEMMA ExecutionGrows ==
    ASSUME LedgerType, NEW k \in Key, NEW w \in Worker, NEW tx \in Transaction, Single(tx),
           NEW ok \in BOOLEAN, Executes(k, w, tx, ok)
    PROVE  Grows(k, w)
<1>1. /\ NewVersion(tx) \in Nat /\ tx.coin.version < NewVersion(tx) /\ tx.coin.version \in Nat
      /\ \A r \in tx.inputs : r.version < NewVersion(tx) /\ r.version \in Nat
  BY NewVersionAbove, Zenon DEF Transaction, TrackedObject, Ref
<1>2. /\ \A i \in DOMAIN coins[k][w] : coins[k][w][i].version \in Nat
      /\ \A i \in DOMAIN owned[k][w] : owned[k][w][i] \in Nat
  BY AddressType, Zenon
<1>3. /\ tx.coin.version = coins[k][w][tx.coin.id].version
      /\ \A r \in tx.inputs : r.version = owned[k][w][r.id]
  BY Zenon DEF Executes, Current
<1>4. \A i \in DOMAIN coins[k][w] :
         /\ i \in DOMAIN coins'[k][w] /\ coins'[k][w][i].version \in Nat
         /\ coins[k][w][i].version <= coins'[k][w][i].version
  BY <1>1, <1>2, <1>3 DEF Executes
<1>5. ASSUME NEW i \in DOMAIN owned[k][w]
      PROVE  /\ i \in DOMAIN owned'[k][w] /\ owned'[k][w][i] \in Nat
             /\ owned[k][w][i] <= owned'[k][w][i]
  <2>1. i \in DOMAIN owned'[k][w]
    BY Zenon DEF Executes
  <2>2. CASE \E r \in tx.inputs : r.id = i
    <3>1. PICK r \in tx.inputs : r.id = i
      BY <2>2, Zenon
    <3>2. owned[k][w][i] < NewVersion(tx)
      BY <1>1, <1>3, <3>1, Zenon
    <3>3. owned'[k][w][i] = NewVersion(tx)
      BY <2>2, Zenon DEF Executes
    <3> QED
      BY <1>1, <1>2, <2>1, <3>2, <3>3
  <2>3. CASE ~ \E r \in tx.inputs : r.id = i
    <3>1. owned'[k][w][i] = owned[k][w][i]
      BY <2>3, Zenon DEF Executes
    <3> QED
      BY <1>2, <2>1, <3>1
  <2> QED
    BY <2>2, <2>3, Zenon
<1> QED
  BY <1>4, <1>5, Zenon DEF Grows
-----------------------------------------------------------------------------
(* The ledger *)

LEMMA LedgerKept ==
    ASSUME LedgerType, NEW k \in Key, NEW w \in Worker, LedgerInv(k, w),
           used.fresh \in Nat, used'.fresh \in Nat, used.fresh <= used'.fresh,
           used'.faults = 0 => used.faults = 0,
           \/ Same(k, w) \/ Pays(k, w)
           \/ \E tx \in Transaction : Sends(k, w, tx) /\ tx.coin.id # 0 /\ Single(tx) /\ k <= used'.fresh
           \/ \E tx \in Transaction, ok \in BOOLEAN :
                 Executes(k, w, tx, ok) /\ Single(tx) /\ k <= used'.fresh /\ (ok \/ used'.faults # 0)
    PROVE  LedgerInv(k, w)'
<1> DEFINE d == done[k][w]
<1>0. k \in Nat
  BY CountAssumption DEF Key
<1>1. d \in Effects /\ d.first \in Nat /\ d.count \in Nat /\ d.version \in Nat
  BY AddressType, Zenon DEF Effects
<1>2. /\ \A tx \in net[k][w] : tx.coin.id # 0 /\ Single(tx)
      /\ d.tx.coin.id # 0 => /\ d.tx.coin.id \in DOMAIN coins[k][w]
                             /\ d.version <= coins[k][w][d.tx.coin.id].version
                             /\ d.tx.coin.version < d.version
      /\ \A i \in d.first..(d.first + d.count - 1) :
            i \in DOMAIN owned[k][w] /\ d.version <= owned[k][w][i]
      /\ used.faults = 0 => d.count = d.tx.create
      /\ k > used.fresh => net[k][w] = {} /\ d.tx.coin.id = 0
  BY Zenon DEF LedgerInv
<1>3. ASSUME Stays(k, w),
             \A tx \in net'[k][w] : tx.coin.id # 0 /\ Single(tx),
             k > used'.fresh => net'[k][w] = net[k][w]
      PROVE  LedgerInv(k, w)'
  <2>1. done'[k][w] = d /\ owned'[k][w] = owned[k][w]
    BY <1>3, Zenon DEF Stays
  <2>2. d.tx.coin.id # 0 => /\ d.tx.coin.id \in DOMAIN coins'[k][w]
                            /\ d.version <= coins'[k][w][d.tx.coin.id].version
                            /\ d.tx.coin.version < d.version
    BY <1>2, <1>3, Zenon DEF Stays
  <2>3. k > used'.fresh => net'[k][w] = {} /\ d.tx.coin.id = 0
    <3>1. k > used'.fresh => k > used.fresh
      BY <1>0
    <3> QED
      BY <1>2, <1>3, <3>1, Zenon
  <2> HIDE DEF d
  <2> QED
    BY <1>2, <1>3, <2>1, <2>2, <2>3, Zenon DEF LedgerInv
<1>4. CASE Same(k, w) \/ Pays(k, w)
  <2>1. net'[k][w] = net[k][w]
    BY <1>4, Zenon DEF Same, Pays
  <2>2. Stays(k, w)
    BY <1>4, AllStay, Zenon
  <2> QED
    BY <1>2, <1>3, <2>1, <2>2, Zenon
<1>5. ASSUME NEW tx \in Transaction, Sends(k, w, tx), tx.coin.id # 0, Single(tx), k <= used'.fresh
      PROVE  LedgerInv(k, w)'
  <2>1. net'[k][w] = net[k][w] \cup {tx}
    BY <1>5, Zenon DEF Sends
  <2>2. Stays(k, w)
    BY <1>5, AllStay, Zenon
  <2>3. \A t \in net'[k][w] : t.coin.id # 0 /\ Single(t)
    BY <1>2, <1>5, <2>1, Zenon
  <2>4. ~(k > used'.fresh)
    BY <1>0, <1>5
  <2> QED
    BY <1>3, <2>2, <2>3, <2>4, Zenon
<1>6. ASSUME NEW tx \in Transaction, NEW ok \in BOOLEAN, Executes(k, w, tx, ok), Single(tx),
             k <= used'.fresh, ok \/ used'.faults # 0
      PROVE  LedgerInv(k, w)'
  <2> DEFINE v == NewVersion(tx)
             n == IF ok THEN tx.create ELSE 0
             e == done'[k][w]
  <2>1. v \in Nat /\ tx.coin.version < v /\ tx.create \in Nat /\ nextId \in Nat
    BY <1>6, NewVersionAbove, Zenon DEF LedgerType, Transaction
  <2>2. e.tx = tx /\ e.first = nextId /\ e.count = n /\ e.version = v
    <3>1. e = [tx |-> tx, first |-> nextId, count |-> n, version |-> v]
      BY <1>6, Zenon DEF Executes
    <3> HIDE DEF e, n, v
    <3> QED
      BY <3>1, Zenon
  <2>3. \A t \in net'[k][w] : t.coin.id # 0 /\ Single(t)
    <3>1. net'[k][w] \subseteq net[k][w]
      BY <1>6, Zenon DEF Executes
    <3> QED
      BY <1>2, <3>1, Zenon
  <2>4. /\ tx.coin.id \in DOMAIN coins'[k][w]
        /\ coins'[k][w][tx.coin.id].version = v
    BY <1>6, Zenon DEF Executes, Current
  <2>5. \A i \in nextId..(nextId + n - 1) : i \in DOMAIN owned'[k][w] /\ owned'[k][w][i] = v
    BY <1>6, Zenon DEF Executes
  <2>6. used'.faults = 0 => e.count = tx.create
    BY <1>6, <2>2, Zenon
  <2>7. ~(k > used'.fresh)
    BY <1>0, <1>6
  <2> HIDE DEF v, n
  <2>8. \A i \in nextId..(nextId + n - 1) : i \in DOMAIN owned'[k][w] /\ v <= owned'[k][w][i]
    BY <2>1, <2>5
  <2>9. v <= coins'[k][w][tx.coin.id].version
    BY <2>1, <2>4
  <2> HIDE DEF e
  <2> QED
    BY <2>1, <2>2, <2>3, <2>4, <2>6, <2>7, <2>8, <2>9, Zenon DEF LedgerInv, e
<1> QED
  BY <1>4, <1>5, <1>6, Zenon

\* An empty ledger.
NothingYet ==
    /\ coins = EveryKey(<<>>) /\ owned = EveryKey(<<>>) /\ net = EveryKey({})
    /\ owed = EveryKey(0) /\ done = EveryKey(NothingDone) /\ nextId \in Nat \ {0}

LEMMA EmptyLedger == NothingYet => LedgerType /\ \A k \in Key, w \in Worker : LedgerInv(k, w)
<1> SUFFICES ASSUME NothingYet
             PROVE  LedgerType /\ \A k \in Key, w \in Worker : LedgerInv(k, w)
  BY Zenon
<1>1. /\ coins = EveryKey(<<>>) /\ owned = EveryKey(<<>>) /\ net = EveryKey({})
      /\ owed = EveryKey(0) /\ done = EveryKey(NothingDone) /\ nextId \in Nat \ {0}
  BY Zenon DEF NothingYet
<1>2. ASSUME NEW T, NEW x \in T
      PROVE  /\ EveryKey(x) \in [Key -> [Worker -> T]]
             /\ \A k \in Key, w \in Worker : EveryKey(x)[k][w] = x
  BY Zenon DEF EveryKey, Every
<1>3. NothingDone \in Effects
  <2>1. NoTx \in Transaction
    BY Zenon DEF NoTx, NoCoin, Transaction, Ref
  <2> QED
    BY <2>1 DEF NothingDone, Effects
<1>4. /\ coins \in [Key -> [Worker -> Seq(Coin)]] /\ net \in [Key -> [Worker -> SUBSET Transaction]]
      /\ owed \in [Key -> [Worker -> Nat]] /\ done \in [Key -> [Worker -> Effects]]
  <2>1. <<>> \in Seq(Coin) /\ {} \in SUBSET Transaction /\ 0 \in Nat
    OBVIOUS
  <2> QED
    BY <1>1, <1>2, <1>3, <2>1, Zenon
<1>5. /\ DOMAIN owned = Key /\ \A k \in Key : DOMAIN owned[k] = Worker
      /\ \A k \in Key, w \in Worker : owned[k][w] = <<>>
  BY <1>1, Zenon DEF EveryKey, Every
<1>6. \A k \in Key, w \in Worker : \E S \in SUBSET (1..(nextId - 1)) : owned[k][w] \in [S -> Nat]
  <2>1. <<>> \in [{} -> Nat] /\ {} \in SUBSET (1..(nextId - 1))
    OBVIOUS
  <2> QED
    BY <1>5, <2>1, Zenon
<1>7. LedgerType
  BY <1>1, <1>4, <1>5, <1>6, Zenon DEF LedgerType
<1>8. ASSUME NEW k \in Key, NEW w \in Worker
      PROVE  LedgerInv(k, w)
  <2>1. net[k][w] = {} /\ done[k][w] = NothingDone
    <3>1. {} \in SUBSET Transaction
      BY Zenon
    <3> QED
      BY <1>1, <1>2, <1>3, <3>1, Zenon
  <2>2. /\ done[k][w].tx.coin.id = 0 /\ done[k][w].first = 1 /\ done[k][w].count = 0
        /\ done[k][w].tx.create = 0
    BY <2>1 DEF NothingDone, NoTx, NoCoin
  <2> QED
    BY <2>1, <2>2 DEF LedgerInv
<1> QED
  BY <1>7, <1>8, Zenon
-----------------------------------------------------------------------------
(* One worker *)

LEMMA WorkerType ==
    ASSUME RunType, NEW w \in Worker
    PROVE  /\ ws[w] \in WorkerState
           /\ ws[w].objects \in Seq(TrackedObject) /\ ws[w].gas_coin \in Ref /\ ws[w].rpc \in Transaction
           /\ ws[w].gas_coin.version \in Nat /\ ws[w].gas_coin.id \in Nat
           /\ ws[w].remaining \in 0..SeedObjects /\ ws[w].tries \in Nat
           /\ file.objects[w] \in Seq(TrackedObject)
<1>1. ws[w] \in WorkerState
  BY Zenon DEF RunType
<1>2. file.objects[w] \in Seq(TrackedObject)
  BY Zenon DEF RunType
<1> QED
  BY <1>1, <1>2, Zenon DEF WorkerState, Ref

LEMMA MainType ==
    ASSUME RunType
    PROVE  /\ main.stage # "down" => main.keys \in Key
           /\ main.keys \in Nat /\ main.w \in Nat \ {0} /\ main.pos \in Nat \ {0}
           /\ main.read \in Seq(TrackedObject) /\ main.load \in BOOLEAN
           /\ main.stage \in {"down", "faucet", "seed", "refresh", "measure", "saving"}
           /\ file.keys \in Nat /\ used.fresh \in Nat /\ used.faults \in Nat /\ unseen \in BOOLEAN
  BY CountAssumption DEF RunType, MainState, Key

LEMMA EntryType ==
    ASSUME NEW list \in Seq(TrackedObject)
    PROVE  \A i \in DOMAIN list : list[i] \in TrackedObject /\ list[i].id \in Nat \ {0} /\ list[i].version \in Nat
<1>1. \A i \in DOMAIN list : list[i] \in TrackedObject
  OBVIOUS
<1> QED
  BY <1>1, Zenon DEF TrackedObject

\* What a worker holds stays the address's when the ledger grows, and stays
\* current while the ledger does not move.
LEMMA OwnedStays ==
    ASSUME TypeOK, NEW w \in Worker, NEW list \in Seq(TrackedObject), main.stage # "down",
           Grows(main.keys, w), OwnedBy(w, list)
    PROVE  \A i \in DOMAIN list : /\ list[i].id \in DOMAIN owned'[main.keys][w]
                                  /\ list[i].version <= owned'[main.keys][w][list[i].id]
<1> DEFINE k == main.keys
<1>1. LedgerType /\ RunType /\ k \in Key
  BY TypeParts, MainType, Zenon
<1> HIDE DEF k
<1>2. \A i \in DOMAIN owned[k][w] : owned[k][w][i] \in Nat
  BY <1>1, AddressType, Zenon
<1>3. \A i \in DOMAIN list : list[i].version \in Nat
  BY EntryType, Zenon
<1>4. ASSUME NEW i \in DOMAIN list
      PROVE  list[i].id \in DOMAIN owned'[k][w] /\ list[i].version <= owned'[k][w][list[i].id]
  <2> DEFINE o == list[i].id
  <2>1. o \in DOMAIN owned[k][w] /\ list[i].version <= owned[k][w][o]
    BY Zenon DEF OwnedBy, k
  <2> HIDE DEF o
  <2>2. o \in DOMAIN owned'[k][w] /\ owned[k][w][o] <= owned'[k][w][o] /\ owned'[k][w][o] \in Nat
    BY <2>1, Zenon DEF Grows, k
  <2> QED
    BY <1>2, <1>3, <2>1, <2>2 DEF o
<1> QED
  BY <1>4, Zenon DEF k

LEMMA GasStays ==
    ASSUME TypeOK, NEW w \in Worker, main.stage # "down", main' = main,
           ws'[w].gas_coin = ws[w].gas_coin, GasOwned(w)
    PROVE  /\ Grows(main.keys, w) => GasOwned(w)'
           /\ Stays(main.keys, w) /\ GasCurrent(w) => GasCurrent(w)'
<1> DEFINE k == main.keys
           g == ws[w].gas_coin
<1>1. LedgerType /\ RunType /\ k \in Key
  BY TypeParts, MainType, Zenon
<1>2. main'.keys = k /\ ws'[w].gas_coin = g
  BY Zenon
<1>3. g.id \in DOMAIN coins[k][w] /\ g.version <= coins[k][w][g.id].version
  BY Zenon DEF GasOwned
<1>4. g.version \in Nat
  BY <1>1, WorkerType, Zenon
<1>5. ASSUME Grows(k, w)
      PROVE  GasOwned(w)'
  <2> HIDE DEF k, g
  <2>1. \A i \in DOMAIN coins[k][w] : coins[k][w][i].version \in Nat
    BY <1>1, AddressType, Zenon
  <2>2. /\ g.id \in DOMAIN coins'[k][w] /\ coins'[k][w][g.id].version \in Nat
        /\ coins[k][w][g.id].version <= coins'[k][w][g.id].version
    BY <1>3, <1>5, Zenon DEF Grows
  <2>3. g.version <= coins'[k][w][g.id].version
    BY <1>3, <1>4, <2>1, <2>2
  <2> QED
    BY <1>2, <2>2, <2>3, Zenon DEF GasOwned
<1>6. ASSUME Stays(k, w), GasCurrent(w)
      PROVE  GasCurrent(w)'
  <2>1. g.version = coins[k][w][g.id].version
    BY <1>6, Zenon DEF GasCurrent
  <2>2. coins'[k][w][g.id].version = coins[k][w][g.id].version
    BY <1>3, <1>6, Zenon DEF Stays
  <2> HIDE DEF k, g
  <2> QED
    BY <1>2, <2>1, <2>2, Zenon DEF GasCurrent
<1> QED
  BY <1>5, <1>6, Zenon

\* A refresh goes on as it was, if what it has read and its coin stay good.
LEMMA RefreshStays ==
    ASSUME NEW w, RefreshInv(w), main' = main, file' = file, ws'[w] = ws[w],
           Refreshed(w, ws[w].objects) => Refreshed(w, ws[w].objects)',
           Refreshed(w, main.read) => Refreshed(w, main.read)',
           GasOwned(w)', unseen' \/ GasCurrent(w)'
    PROVE  RefreshInv(w)'
<1> DEFINE Found == \A i \in DOMAIN main.read : \E j \in DOMAIN ws[w].objects :
                       j < main.pos /\ main.read[i].id = ws[w].objects[j].id
<1>1. /\ ws[w].pc = "seed" /\ ws[w].rpc = NoTx
      /\ main.w <= w => ws[w].objects = file.objects[w]
      /\ w < main.w => Refreshed(w, ws[w].objects)
      /\ w = main.w => Refreshed(w, main.read) /\ Found
  BY Zenon DEF RefreshInv
<1>2. Found => \A i \in DOMAIN main'.read : \E j \in DOMAIN ws'[w].objects :
                  j < main'.pos /\ main'.read[i].id = ws'[w].objects[j].id
  BY ZenonT(30)
<1> HIDE DEF Found
<1>3. /\ ws'[w].pc = "seed" /\ ws'[w].rpc = NoTx
      /\ main'.w <= w => ws'[w].objects = file'.objects[w]
      /\ w < main'.w => Refreshed(w, ws[w].objects)'
      /\ w = main'.w => /\ Refreshed(w, main.read)'
                        /\ \A i \in DOMAIN main'.read : \E j \in DOMAIN ws'[w].objects :
                              j < main'.pos /\ main'.read[i].id = ws'[w].objects[j].id
  BY <1>1, <1>2, Zenon
<1> QED
  BY <1>3, Zenon DEF RefreshInv

\* Steps of others leave a worker's invariant alone.
LEMMA StillStep ==
    ASSUME TypeOK, NEW w \in Worker, WorkerInv(w), main' = main, file' = file, ws'[w] = ws[w],
           unseen => unseen', used'.faults = 0 => used.faults = 0,
           main.stage # "down" => Stays(main.keys, w) /\ Grows(main.keys, w),
           main.stage \in {"faucet", "seed"} => net'[main.keys][w] = net[main.keys][w]
    PROVE  WorkerInv(w)'
<1> DEFINE k == main.keys
           list == ws[w].objects
<1>1. LedgerType /\ RunType
  BY TypeParts, Zenon
<1>2. list \in Seq(TrackedObject) /\ main.read \in Seq(TrackedObject)
  BY <1>1, WorkerType, MainType, Zenon
<1>3. ASSUME NEW l \in Seq(TrackedObject), main.stage # "down"
      PROVE  /\ OwnedBy(w, l) => /\ \A i \in DOMAIN l : /\ l[i].id \in DOMAIN owned'[k][w]
                                                        /\ l[i].version <= owned'[k][w][l[i].id]
             /\ CurrentFor(w, l) => \A i \in DOMAIN l : l[i].version = owned'[k][w][l[i].id]
  <2>1. OwnedBy(w, l) => \A i \in DOMAIN l : /\ l[i].id \in DOMAIN owned'[k][w]
                                             /\ l[i].version <= owned'[k][w][l[i].id]
    BY <1>3, OwnedStays, Zenon
  <2>2. owned'[k][w] = owned[k][w]
    BY <1>3, Zenon DEF Stays
  <2> QED
    BY <2>1, <2>2, Zenon DEF CurrentFor
<1>4. ASSUME main.stage # "down"
      PROVE  /\ OwnedBy(w, list) => OwnedBy(w, ws[w].objects)'
             /\ CurrentFor(w, list) => CurrentFor(w, ws[w].objects)'
             /\ OwnedBy(w, main.read) => OwnedBy(w, main.read)'
             /\ CurrentFor(w, main.read) => CurrentFor(w, main.read)'
             /\ DistinctIds(list) => DistinctIds(ws[w].objects)'
             /\ DistinctIds(main.read) => DistinctIds(main.read)'
  <2>1. ws'[w].objects = list /\ main'.keys = k /\ main'.read = main.read
    BY Zenon
  <2> HIDE DEF list, k
  <2>2. OwnedBy(w, list) => OwnedBy(w, ws[w].objects)'
    BY <1>2, <1>3, <1>4, <2>1, Zenon DEF OwnedBy
  <2>3. CurrentFor(w, list) => CurrentFor(w, ws[w].objects)'
    BY <1>2, <1>3, <1>4, <2>1, Zenon DEF CurrentFor
  <2>4. OwnedBy(w, main.read) => OwnedBy(w, main.read)'
    BY <1>2, <1>3, <1>4, <2>1, Zenon DEF OwnedBy
  <2>5. CurrentFor(w, main.read) => CurrentFor(w, main.read)'
    BY <1>2, <1>3, <1>4, <2>1, Zenon DEF CurrentFor
  <2>6. DistinctIds(list) => DistinctIds(ws[w].objects)'
    BY <2>1, Zenon DEF DistinctIds
  <2> QED
    BY <2>2, <2>3, <2>4, <2>5, <2>6, Zenon DEF DistinctIds
<1>5. ASSUME main.stage # "down", GasOwned(w)
      PROVE  GasOwned(w)' /\ (GasCurrent(w) => GasCurrent(w)')
  BY <1>5, GasStays, Zenon
<1>6. main.stage \in {"faucet", "seed"} =>
         done'[k][w] = done[k][w] /\ net'[k][w] = net[k][w] /\ owned'[k][w] = owned[k][w]
  BY Zenon DEF Stays
<1>7. ASSUME main.stage = "faucet"
      PROVE  FaucetInv(w)'
  <2>1. FaucetInv(w)
    BY <1>7, Zenon DEF WorkerInv
  <2>2. main.stage # "down"
    BY <1>7, Zenon
  <2> QED
    BY <1>5, <1>6, <1>7, <2>1, <2>2, Zenon DEF FaucetInv
<1>8. ASSUME main.stage = "seed"
      PROVE  SeedInv(w)'
  <2>1. SeedInv(w)
    BY <1>8, Zenon DEF WorkerInv
  <2>2. main.stage # "down"
    BY <1>8, Zenon
  <2>3. IdleInv(w) => IdleInv(w)'
    BY <1>5, <1>6, <1>8, <2>2, Zenon DEF IdleInv
  <2>4. SeedListInv(w) => SeedListInv(w)'
    <3>1. Seeded(w)' = Seeded(w)
      BY Zenon DEF Seeded
    <3> QED
      BY <1>4, <2>2, <3>1, Zenon DEF SeedListInv
  <2>5. RpcInv(w) => RpcInv(w)'
    <3> SUFFICES ASSUME RpcInv(w) PROVE RpcInv(w)'
      BY Zenon
    <3>1. GasOwned(w)' /\ (GasCurrent(w) => GasCurrent(w)')
      BY <1>5, <2>2, Zenon DEF RpcInv
    <3>2. coins'[k][w][ws[w].gas_coin.id].version = coins[k][w][ws[w].gas_coin.id].version
      BY <2>2, Zenon DEF RpcInv, GasOwned, Stays
    <3>3. main'.keys = k /\ ws'[w] = ws[w]
      BY Zenon
    <3> QED
      BY <1>6, <1>8, <3>1, <3>2, <3>3, ZenonT(30) DEF RpcInv
  <2>6. main'.stage = main.stage /\ ws'[w] = ws[w]
    BY Zenon
  <2> QED
    BY <2>1, <2>3, <2>4, <2>5, <2>6, Zenon DEF SeedInv
<1>9. ASSUME main.stage = "refresh"
      PROVE  RefreshInv(w)'
  <2>1. RefreshInv(w) /\ main.stage # "down"
    BY <1>9, Zenon DEF WorkerInv
  <2>2. Refreshed(w, list) => Refreshed(w, ws[w].objects)'
    BY <1>4, <2>1, Zenon DEF Refreshed
  <2>3. Refreshed(w, main.read) => Refreshed(w, main.read)'
    BY <1>4, <2>1, Zenon DEF Refreshed
  <2>4. GasOwned(w)' /\ (unseen' \/ GasCurrent(w)')
    BY <1>5, <2>1, Zenon DEF RefreshInv
  <2> QED
    BY <2>1, <2>2, <2>3, <2>4, RefreshStays, Zenon
<1>10. ASSUME main.stage \in {"measure", "saving"}
       PROVE  MeasureInv(w)'
  <2>1. MeasureInv(w) /\ main.stage # "down"
    BY <1>10, Zenon DEF WorkerInv
  <2>2. GasOwned(w)' /\ (unseen' \/ GasCurrent(w)')
    BY <1>5, <2>1, Zenon DEF MeasureInv
  <2> QED
    BY <1>4, <2>1, <2>2, Zenon DEF MeasureInv
<1> QED
  BY <1>7, <1>8, <1>9, <1>10, Zenon DEF WorkerInv

\* A transaction of the worker executes: the one it waits for, or one of an
\* earlier call or run, which makes its references stale.
LEMMA ExecutedStep ==
    ASSUME TypeOK, NEW w \in Worker, WorkerInv(w), main.stage # "down", LedgerInv(main.keys, w),
           main' = main, file' = file, ws'[w] = ws[w], used'.faults = 0 => used.faults = 0,
           NEW tx \in net[main.keys][w], NEW ok \in BOOLEAN, Executes(main.keys, w, tx, ok),
           tx # ws[w].rpc => unseen', unseen => unseen'
    PROVE  WorkerInv(w)'
<1> DEFINE k == main.keys
           list == ws[w].objects
<1>1. LedgerType /\ RunType /\ k \in Key
  BY TypeParts, MainType, Zenon
<1>2. list \in Seq(TrackedObject) /\ main.read \in Seq(TrackedObject)
  BY <1>1, WorkerType, MainType, Zenon
<1>3. tx \in Transaction /\ Single(tx) /\ tx.coin.id # 0
  BY <1>1, AddressType, Zenon DEF LedgerInv
<1>4. Grows(k, w)
  BY <1>1, <1>3, ExecutionGrows, Zenon
<1>5. main'.keys = k /\ ws'[w].objects = list /\ main'.read = main.read
  BY Zenon
<1>6. OwnedBy(w, list) => OwnedBy(w, ws[w].objects)'
  <2>1. OwnedBy(w, list) => \A i \in DOMAIN list : /\ list[i].id \in DOMAIN owned'[k][w]
                                                   /\ list[i].version <= owned'[k][w][list[i].id]
    BY <1>2, <1>4, OwnedStays, Zenon
  <2> HIDE DEF list, k
  <2> QED
    BY <1>5, <2>1, Zenon DEF OwnedBy
<1>7. OwnedBy(w, main.read) => OwnedBy(w, main.read)'
  <2>1. OwnedBy(w, main.read) =>
           \A i \in DOMAIN main.read : /\ main.read[i].id \in DOMAIN owned'[k][w]
                                       /\ main.read[i].version <= owned'[k][w][main.read[i].id]
    BY <1>2, <1>4, OwnedStays, Zenon
  <2> HIDE DEF k
  <2> QED
    BY <1>5, <2>1, Zenon DEF OwnedBy
<1>8. GasOwned(w) => GasOwned(w)'
  BY <1>4, GasStays, Zenon
<1>9. DistinctIds(list) => DistinctIds(ws[w].objects)'
  BY <1>5, Zenon DEF DistinctIds
<1>10. ws[w].rpc = NoTx => unseen'
  <2>1. tx # NoTx
    BY <1>3 DEF NoTx, NoCoin
  <2> QED
    BY <2>1, Zenon
<1>11. ASSUME main.stage = "faucet"
       PROVE  FaucetInv(w)'
  <2>1. FaucetInv(w)
    BY <1>11, Zenon DEF WorkerInv
  <2>2. main.load
    BY <2>1, Zenon DEF FaucetInv
  <2> QED
    BY <1>8, <1>10, <2>1, <2>2, Zenon DEF FaucetInv
<1>12. ASSUME main.stage = "refresh"
       PROVE  RefreshInv(w)'
  <2>1. RefreshInv(w)
    BY <1>12, Zenon DEF WorkerInv
  <2>2. unseen'
    BY <1>10, <2>1, Zenon DEF RefreshInv
  <2>3. Refreshed(w, list) => Refreshed(w, ws[w].objects)'
    BY <1>6, <1>9, <2>2, Zenon DEF Refreshed
  <2>4. Refreshed(w, main.read) => Refreshed(w, main.read)'
    BY <1>7, <2>2, Zenon DEF Refreshed, DistinctIds
  <2>5. GasOwned(w)'
    BY <1>8, <2>1, Zenon DEF RefreshInv
  <2> QED
    BY <2>1, <2>2, <2>3, <2>4, <2>5, RefreshStays, Zenon
<1>13. ASSUME main.stage \in {"measure", "saving"}
       PROVE  MeasureInv(w)'
  <2>1. MeasureInv(w)
    BY <1>13, Zenon DEF WorkerInv
  <2>2. unseen' /\ GasOwned(w)'
    BY <1>8, <1>10, <2>1, Zenon DEF MeasureInv
  <2> QED
    BY <1>6, <1>9, <2>1, <2>2, Zenon DEF MeasureInv
<1>14. ASSUME main.stage = "seed"
       PROVE  SeedInv(w)'
  <2>1. SeedInv(w)
    BY <1>14, Zenon DEF WorkerInv
  <2>2. ws[w].pc \in {"rpc", "failed"}
    BY <2>1, Zenon DEF SeedInv, IdleInv
  <2>3. CASE ws[w].pc = "failed"
    BY <2>3, Zenon DEF SeedInv
  <2>4. CASE ws[w].pc = "rpc"
    <3>1. RpcInv(w) /\ SeedListInv(w)
      BY <2>1, <2>4, Zenon DEF SeedInv
    <3>2. net[k][w] = {ws[w].rpc} /\ tx = ws[w].rpc
      BY <3>1, Zenon DEF RpcInv
    <3>3. tx.coin = ws[w].gas_coin /\ tx.inputs = {} /\ GasOwned(w)'
      BY <1>8, <3>1, <3>2, Zenon DEF RpcInv
    <3>4. net'[k][w] = {}
      BY <3>2, Zenon DEF Executes
    <3>5. \A i \in DOMAIN owned[k][w] : owned'[k][w][i] = owned[k][w][i]
      BY <3>3, Zenon DEF Executes
    <3>6. OwnedBy(w, list) /\ CurrentFor(w, list)
      BY <3>1, Zenon DEF SeedListInv
    <3>7. CurrentFor(w, ws[w].objects)'
      <4>1. \A i \in DOMAIN list : list[i].id \in DOMAIN owned[k][w] /\ list[i].version = owned[k][w][list[i].id]
        BY <3>6, Zenon DEF OwnedBy, CurrentFor
      <4> HIDE DEF list, k
      <4>2. \A i \in DOMAIN list : list[i].version = owned'[k][w][list[i].id]
        BY <3>5, <4>1, Zenon
      <4> QED
        BY <1>5, <4>2, Zenon DEF CurrentFor
    <3>8. SeedListInv(w)'
      <4>1. Seeded(w)' = Seeded(w)
        BY Zenon DEF Seeded
      <4>2. used'.faults = 0 => Len(ws'[w].objects) >= Smaller(Seeded(w)', MaxTracked)
        BY <3>1, <4>1, Zenon DEF SeedListInv
      <4> QED
        BY <1>6, <1>9, <3>1, <3>7, <4>2, Zenon DEF SeedListInv
    <3>9. /\ done'[k][w].tx = tx /\ done'[k][w].first = nextId
          /\ done'[k][w].version = coins'[k][w][tx.coin.id].version
          /\ \A i \in nextId..(nextId + done'[k][w].count - 1) : owned'[k][w][i] = done'[k][w].version
      <4> DEFINE v == NewVersion(tx)
                 m == IF ok THEN tx.create ELSE 0
      <4>1. done'[k][w] = [tx |-> tx, first |-> nextId, count |-> m, version |-> v]
        BY Zenon DEF Executes
      <4>2. tx.coin.id \in DOMAIN coins[k][w]
        BY Zenon DEF Executes, Current
      <4>3. coins'[k][w][tx.coin.id].version = v
        BY <4>2, Zenon DEF Executes
      <4>4. \A i \in nextId..(nextId + m - 1) : owned'[k][w][i] = v
        BY Zenon DEF Executes
      <4> HIDE DEF v, m
      <4>5. /\ done'[k][w].tx = tx /\ done'[k][w].first = nextId
            /\ done'[k][w].count = m /\ done'[k][w].version = v
        <5> DEFINE e == [tx |-> tx, first |-> nextId, count |-> m, version |-> v]
        <5>1. e.tx = tx /\ e.first = nextId /\ e.count = m /\ e.version = v
          BY Zenon
        <5>2. done'[k][w] = e
          BY <4>1, Zenon
        <5> HIDE DEF e
        <5> QED
          BY <5>1, <5>2, Zenon
      <4> QED
        BY <4>3, <4>4, <4>5, Zenon
    <3>10. \A i \in DOMAIN list : list[i].id < nextId
      <4>1. DOMAIN owned[k][w] \subseteq 1..(nextId - 1) /\ nextId \in Nat
        BY <1>1, AddressType, Zenon
      <4>2. \A i \in DOMAIN list : list[i].id \in DOMAIN owned[k][w]
        BY <3>6, Zenon DEF OwnedBy
      <4>3. \A i \in 1..(nextId - 1) : i < nextId
        BY <4>1
      <4> QED
        BY <4>1, <4>2, <4>3, Zenon
    <3>11. RpcInv(w)'
      <4>1. ws'[w] = ws[w] /\ main'.keys = k
        BY Zenon
      <4> HIDE DEF k
      <4>2. /\ net'[k][w] = {} /\ done'[k][w].tx = ws[w].rpc
            /\ done'[k][w].version = coins'[k][w][ws[w].gas_coin.id].version
            /\ \A i \in DOMAIN ws[w].objects : ws[w].objects[i].id < done'[k][w].first
            /\ \A i \in done'[k][w].first..(done'[k][w].first + done'[k][w].count - 1) :
                  owned'[k][w][i] = done'[k][w].version
        BY <3>2, <3>3, <3>4, <3>9, <3>10, Zenon
      <4>3. ws[w].rpc.coin = ws[w].gas_coin /\ ws[w].rpc.inputs = {}
        BY <3>2, <3>3, Zenon
      <4> QED
        BY <3>3, <4>1, <4>2, <4>3, Zenon DEF RpcInv
    <3>12. ws'[w].pc = "rpc"
      BY <2>4, Zenon
    <3> QED
      BY <3>8, <3>11, <3>12, Zenon DEF SeedInv
  <2> QED
    BY <2>2, <2>3, <2>4, Zenon
<1> QED
  BY <1>11, <1>12, <1>13, <1>14, Zenon DEF WorkerInv
-----------------------------------------------------------------------------
(* The steps of a worker *)

\* What a worker's task leaves alone.
Others(w) ==
    /\ main' = main /\ file' = file
    /\ ws' \in [Worker -> WorkerState]
    /\ \A x \in Worker : x # w => ws'[x] = ws[x]

LEMMA FaucetPostStep ==
    ASSUME IInv, NEW w \in Worker, FaucetPost(w)
    PROVE  /\ WorkerInv(w)' /\ Others(w)
           /\ UNCHANGED <<coins, owned, net, done, nextId, used, unseen>>
           /\ owed' \in [Key -> [Worker -> Nat]]
<1>1. LedgerType /\ RunType /\ WorkerInv(w)
  BY TypeParts, Zenon DEF IInv
<1>2. PICK ok \in BOOLEAN, pays \in BOOLEAN :
         /\ ws[w].pc = "post"
         /\ owed' = [owed EXCEPT ![main.keys][w] = @ + IF pays THEN 1 ELSE 0]
         /\ ws' = [ws EXCEPT ![w] = IF ok \/ @.tries = Posts
                                    THEN [@ EXCEPT !.pc = "query", !.tries = 1]
                                    ELSE [@ EXCEPT !.tries = ws[w].tries + 1]]
         /\ UNCHANGED <<coins, owned, net, done, nextId, file, main, used, unseen>>
  BY Zenon DEF FaucetPost
<1>3. main.stage = "faucet" /\ FaucetInv(w)
  BY <1>1, <1>2, MainType, Zenon DEF WorkerInv, SeedInv, RefreshInv, MeasureInv
<1>4. main.keys \in Key
  BY <1>1, <1>3, MainType, Zenon
<1>5. owed' \in [Key -> [Worker -> Nat]]
  <2> DEFINE m == owed[main.keys][w] + IF pays THEN 1 ELSE 0
  <2>1. m \in Nat
    BY <1>1, <1>4 DEF LedgerType
  <2>2. owed' = [owed EXCEPT ![main.keys][w] = m]
    BY <1>2, Zenon
  <2> HIDE DEF m
  <2> QED
    BY <1>1, <1>4, <2>1, <2>2, TypedTable DEF LedgerType
<1>6. /\ ws' \in [Worker -> WorkerState] /\ \A x \in Worker : x # w => ws'[x] = ws[x]
      /\ ws'[w].pc \in {"post", "query"} /\ ws'[w].objects = ws[w].objects
      /\ ws'[w].rpc = ws[w].rpc /\ ws'[w].gas_coin = ws[w].gas_coin
  <2> DEFINE s == ws[w]
             t == IF ok \/ s.tries = Posts THEN [s EXCEPT !.pc = "query", !.tries = 1]
                  ELSE [s EXCEPT !.tries = s.tries + 1]
  <2>1. s \in WorkerState /\ s.tries \in Nat /\ s.pc = "post"
    BY <1>1, <1>2, WorkerType, Zenon
  <2>2. t \in WorkerState /\ t.pc \in {"post", "query"} /\ t.objects = s.objects /\ t.rpc = s.rpc
        /\ t.gas_coin = s.gas_coin
    <3> HIDE DEF s
    <3>1. CASE ok \/ s.tries = Posts
      <4>1. t = [s EXCEPT !.pc = "query", !.tries = 1]
        BY <3>1, Zenon
      <4> QED
        BY <2>1, <4>1, Zenon DEF WorkerState
    <3>2. CASE ~(ok \/ s.tries = Posts)
      <4>1. t = [s EXCEPT !.tries = s.tries + 1]
        BY <3>2, Zenon
      <4> QED
        BY <2>1, <4>1 DEF WorkerState
    <3> QED
      BY <3>1, <3>2, Zenon
  <2>3. ws' = [ws EXCEPT ![w] = t] /\ ws \in [Worker -> WorkerState]
    BY <1>1, <1>2, Zenon DEF RunType
  <2> HIDE DEF s, t
  <2>4. ws' \in [Worker -> WorkerState] /\ ws'[w] = t /\ \A x \in Worker : x # w => ws'[x] = ws[x]
    BY <2>2, <2>3, Zenon
  <2> QED
    BY <2>2, <2>4, Zenon DEF s
<1>7. FaucetInv(w)'
  BY <1>2, <1>3, <1>6, Zenon DEF FaucetInv
<1>8. WorkerInv(w)'
  BY <1>2, <1>3, <1>7, Zenon DEF WorkerInv
<1> QED
  BY <1>2, <1>5, <1>6, <1>8, Zenon DEF Others

LEMMA GetCoinsStep ==
    ASSUME IInv, NEW w \in Worker, GetCoins(w)
    PROVE  /\ WorkerInv(w)' /\ Others(w)
           /\ UNCHANGED <<ledgerVars, used, unseen>>
<1> DEFINE k == main.keys
           cs == coins[k][w]
           s == ws[w]
<1>1. LedgerType /\ RunType /\ WorkerInv(w)
  BY TypeParts, Zenon DEF IInv
<1>2. s.pc = "query" /\ UNCHANGED <<ledgerVars, file, main, used, unseen>>
  BY Zenon DEF GetCoins
<1>3. main.stage = "faucet" /\ FaucetInv(w)
  BY <1>1, <1>2, MainType, Zenon DEF WorkerInv, SeedInv, RefreshInv, MeasureInv
<1>4. k \in Key /\ s \in WorkerState /\ s.tries \in Nat /\ ws \in [Worker -> WorkerState]
  BY <1>1, <1>3, MainType, WorkerType, Zenon DEF RunType
<1>5. \A i \in DOMAIN cs : i \in Nat \ {0} /\ cs[i].version \in Nat
  BY <1>1, <1>4, AddressType, Zenon
<1>6. UNCHANGED <<coins, owned, net, done>> /\ main' = main /\ file' = file
  BY <1>2, Zenon DEF ledgerVars
<1>7. ASSUME NEW i \in Richest(cs),
             ws' = [ws EXCEPT ![w].gas_coin = [id |-> i, version |-> cs[i].version],
                              ![w].pc = "funded", ![w].tries = 1]
      PROVE  WorkerInv(w)' /\ Others(w)
  <2>1. i \in DOMAIN cs
    BY Zenon DEF Richest
  <2> DEFINE g == [id |-> i, version |-> cs[i].version]
             t == [s EXCEPT !.gas_coin = g, !.pc = "funded", !.tries = 1]
  <2>2. g \in Ref
    BY <1>5, <2>1, Zenon DEF Ref
  <2>3. t \in WorkerState /\ t.pc = "funded" /\ t.objects = s.objects /\ t.rpc = s.rpc
        /\ t.gas_coin = g
    BY <1>4, <2>2, Zenon DEF WorkerState
  <2>4. ws' = [ws EXCEPT ![w] = t]
    BY <1>7, Zenon
  <2>5. g.id = i /\ g.version = cs[i].version
    BY Zenon
  <2> HIDE DEF t, g
  <2>6. ws' \in [Worker -> WorkerState] /\ ws'[w] = t /\ \A x \in Worker : x # w => ws'[x] = ws[x]
    BY <1>4, <2>3, <2>4, ZenonT(30)
  <2>7. GasOwned(w)' /\ GasCurrent(w)'
    BY <1>5, <1>6, <2>1, <2>3, <2>5, <2>6 DEF GasOwned, GasCurrent
  <2>8. FaucetInv(w)'
    BY <1>2, <1>3, <1>6, <2>3, <2>6, <2>7, Zenon DEF FaucetInv
  <2> QED
    BY <1>3, <1>6, <2>6, <2>8, Zenon DEF WorkerInv, Others
<1>8. ASSUME NEW t \in WorkerState, t.pc \in {"query", "failed"}, t.objects = s.objects, t.rpc = s.rpc,
             ws' = [ws EXCEPT ![w] = t]
      PROVE  WorkerInv(w)' /\ Others(w)
  <2>1. ws' \in [Worker -> WorkerState] /\ ws'[w] = t /\ \A x \in Worker : x # w => ws'[x] = ws[x]
    BY <1>4, <1>8, Zenon
  <2>2. FaucetInv(w)'
    BY <1>2, <1>3, <1>6, <1>8, <2>1, Zenon DEF FaucetInv
  <2> QED
    BY <1>3, <1>6, <2>1, <2>2, Zenon DEF WorkerInv, Others
<1>9. ASSUME ws' = [ws EXCEPT ![w].tries = @ + 1]
      PROVE  WorkerInv(w)' /\ Others(w)
  <2> DEFINE t == [s EXCEPT !.tries = s.tries + 1]
  <2>1. t \in WorkerState /\ t.pc \in {"query", "failed"} /\ t.objects = s.objects /\ t.rpc = s.rpc
    <3>1. s.tries + 1 \in Nat
      BY <1>2, <1>4, NextNat, Zenon DEF WorkerState
    <3> QED
      BY <1>2, <1>4, <3>1, Zenon DEF WorkerState
  <2>2. ws' = [ws EXCEPT ![w] = t]
    BY <1>9, Zenon
  <2> HIDE DEF t
  <2> QED
    BY <1>8, <2>1, <2>2, Zenon
<1>10. ASSUME ws' = [ws EXCEPT ![w].pc = "failed"]
       PROVE  WorkerInv(w)' /\ Others(w)
  <2> DEFINE t == [s EXCEPT !.pc = "failed"]
  <2>1. t \in WorkerState /\ t.pc \in {"query", "failed"} /\ t.objects = s.objects /\ t.rpc = s.rpc
    BY <1>2, <1>4, Zenon DEF WorkerState
  <2>2. ws' = [ws EXCEPT ![w] = t]
    BY <1>10, Zenon
  <2> HIDE DEF t
  <2> QED
    BY <1>8, <2>1, <2>2, Zenon
<1>11. \/ \E i \in Richest(cs) :
             ws' = [ws EXCEPT ![w].gas_coin = [id |-> i, version |-> cs[i].version],
                              ![w].pc = "funded", ![w].tries = 1]
       \/ ws' = [ws EXCEPT ![w].tries = @ + 1]
       \/ ws' = [ws EXCEPT ![w].pc = "failed"]
  BY Zenon DEF GetCoins
<1> QED
  BY <1>2, <1>7, <1>9, <1>10, <1>11, Zenon

LEMMA SeedSendStep ==
    ASSUME IInv, NEW w \in Worker, SeedSend(w)
    PROVE  /\ WorkerInv(w)' /\ Others(w) /\ UNCHANGED <<used, unseen>> /\ main.keys \in Key
           /\ \E tx \in Transaction : Sends(main.keys, w, tx) /\ tx.coin.id # 0 /\ Single(tx)
           /\ LedgerType'
           /\ \A j \in Key, x \in Worker : j # main.keys \/ x # w => Same(j, x)
<1> DEFINE k == main.keys
           s == ws[w]
           batch == Smaller(s.remaining, SeedBatch)
           tx == [coin |-> s.gas_coin, create |-> batch, inputs |-> {}]
           t == [s EXCEPT !.remaining = s.remaining - batch, !.rpc = tx, !.pc = "rpc"]
           d == done[k][w]
<1>1. LedgerType /\ RunType /\ WorkerInv(w)
  BY TypeParts, Zenon DEF IInv
<1>2. /\ main.stage = "seed" /\ s.pc = "seed" /\ batch > 0
      /\ ws' = [ws EXCEPT ![w] = t]
      /\ net' = [net EXCEPT ![k][w] = @ \cup {tx}]
      /\ UNCHANGED <<coins, owned, owed, done, nextId, file, main, used, unseen>>
  BY Zenon DEF SeedSend
<1>3. k \in Key /\ SeedInv(w) /\ LedgerInv(k, w)
  BY <1>1, <1>2, MainType, Zenon DEF WorkerInv, IInv
<1>4. /\ s \in WorkerState /\ s.gas_coin \in Ref /\ s.remaining \in 0..SeedObjects
      /\ s.objects \in Seq(TrackedObject) /\ ws \in [Worker -> WorkerState]
  BY <1>1, WorkerType, Zenon DEF RunType
<1>5. batch \in Nat /\ s.remaining - batch \in 0..SeedObjects /\ SeedObjects \in Nat /\ s.remaining \in Nat
  BY <1>4, CountAssumption DEF Smaller
<1> HIDE DEF batch
<1>6. tx \in Transaction /\ Single(tx) /\ tx.coin = s.gas_coin /\ tx.create = batch /\ tx.inputs = {}
  BY <1>4, <1>5, Zenon DEF Transaction, Single
<1> HIDE DEF tx
<1>7. /\ t \in WorkerState /\ t.pc = "rpc" /\ t.rpc = tx /\ t.remaining = s.remaining - batch
      /\ t.objects = s.objects /\ t.gas_coin = s.gas_coin
  BY <1>4, <1>5, <1>6, Zenon DEF WorkerState
<1> HIDE DEF t
<1>8. ws' \in [Worker -> WorkerState] /\ ws'[w] = t /\ \A x \in Worker : x # w => ws'[x] = ws[x]
  BY <1>2, <1>4, <1>7, Zenon
<1>9. Others(w)
  BY <1>2, <1>8, Zenon DEF Others
<1>10. /\ LedgerType' /\ Sends(k, w, tx)
       /\ \A j \in Key, x \in Worker : j # k \/ x # w => Same(j, x)
  BY <1>1, <1>2, <1>3, <1>6, SendsStep, Zenon
<1>11. IdleInv(w) /\ SeedListInv(w)
  BY <1>2, <1>3, Zenon DEF SeedInv
<1>12. /\ s.gas_coin.id \in DOMAIN coins[k][w] /\ s.gas_coin.id # 0
       /\ s.gas_coin.version = coins[k][w][s.gas_coin.id].version
       /\ net[k][w] = {} /\ d.tx.coin.id \in {0, s.gas_coin.id}
  BY <1>1, <1>3, <1>11, AddressType, Zenon DEF IdleInv, GasOwned, GasCurrent
<1>13. d.tx # tx
  <2> SUFFICES ASSUME d.tx = tx PROVE FALSE
    BY Zenon
  <2>1. d.tx.coin.id # 0 /\ d.tx.coin = s.gas_coin
    BY <1>6, <1>12, Zenon
  <2>2. d.version <= coins[k][w][s.gas_coin.id].version /\ s.gas_coin.version < d.version
    BY <1>3, <2>1, Zenon DEF LedgerInv
  <2>3. d.version \in Nat /\ s.gas_coin.version \in Nat
    BY <1>1, <1>3, <1>4, AddressType, Zenon DEF Effects, Ref
  <2>4. d.version <= s.gas_coin.version
    BY <1>12, <2>2, Zenon
  <2> HIDE DEF d, s
  <2> QED
    BY <2>2, <2>3, <2>4
<1>14. GasOwned(w)' /\ GasCurrent(w)'
  BY <1>2, <1>7, <1>8, <1>11, Zenon DEF IdleInv, GasOwned, GasCurrent
<1>15. RpcInv(w)'
  <2>1. net'[k][w] = {tx} /\ done'[k][w].tx # tx
    BY <1>2, <1>10, <1>12, <1>13, Zenon DEF Sends
  <2>2. main'.keys = k /\ ws'[w].rpc = tx /\ tx.coin = ws'[w].gas_coin /\ tx.inputs = {}
    BY <1>2, <1>6, <1>7, <1>8, Zenon
  <2> HIDE DEF k, s, d
  <2> QED
    BY <1>14, <2>1, <2>2, Zenon DEF RpcInv
<1>16. SeedListInv(w)'
  <2>1. Seeded(w)' = Seeded(w)
    <3>1. Seeded(w) = SeedObjects - s.remaining - 0
      BY <1>2, Zenon DEF Seeded
    <3>2. Seeded(w)' = SeedObjects - (s.remaining - batch) - batch
      BY <1>6, <1>7, <1>8, Zenon DEF Seeded
    <3> QED
      BY <1>5, <3>1, <3>2
  <2>2. ws'[w].objects = s.objects /\ owned' = owned /\ main' = main /\ used' = used
    BY <1>2, <1>7, <1>8, Zenon
  <2>3. /\ DistinctIds(s.objects) /\ OwnedBy(w, s.objects) /\ CurrentFor(w, s.objects)
        /\ used.faults = 0 => Len(s.objects) >= Smaller(Seeded(w), MaxTracked)
    BY <1>11, Zenon DEF SeedListInv
  <2> HIDE DEF s
  <2>4. DistinctIds(ws[w].objects)' /\ OwnedBy(w, ws[w].objects)' /\ CurrentFor(w, ws[w].objects)'
    BY <2>2, <2>3, Zenon DEF DistinctIds, OwnedBy, CurrentFor
  <2> QED
    BY <2>1, <2>2, <2>3, <2>4, Zenon DEF SeedListInv
<1>17. WorkerInv(w)'
  <2>1. main'.stage = "seed" /\ ws'[w].pc = "rpc"
    BY <1>2, <1>7, <1>8, Zenon
  <2> QED
    BY <1>15, <1>16, <2>1, Zenon DEF WorkerInv, SeedInv
<1> QED
  BY <1>2, <1>3, <1>6, <1>9, <1>10, <1>12, <1>17, Zenon

LEMMA SeedDoneStep ==
    ASSUME IInv, NEW w \in Worker, SeedDone(w)
    PROVE  WorkerInv(w)' /\ Others(w) /\ UNCHANGED <<ledgerVars, used, unseen>>
<1> DEFINE s == ws[w]
           t == [s EXCEPT !.pc = "ready"]
<1>1. LedgerType /\ RunType /\ WorkerInv(w)
  BY TypeParts, Zenon DEF IInv
<1>2. /\ main.stage = "seed" /\ s.pc = "seed" /\ s.remaining = 0
      /\ ws' = [ws EXCEPT ![w] = t]
      /\ UNCHANGED <<ledgerVars, file, main, used, unseen>>
  BY Zenon DEF SeedDone
<1>3. s \in WorkerState /\ ws \in [Worker -> WorkerState]
  BY <1>1, WorkerType, Zenon DEF RunType
<1>4. /\ t \in WorkerState /\ t.pc = "ready" /\ t.remaining = 0 /\ t.rpc = s.rpc
      /\ t.objects = s.objects /\ t.gas_coin = s.gas_coin
  BY <1>2, <1>3, Zenon DEF WorkerState
<1> HIDE DEF t
<1>5. ws' \in [Worker -> WorkerState] /\ ws'[w] = t /\ \A x \in Worker : x # w => ws'[x] = ws[x]
  BY <1>2, <1>3, <1>4, Zenon
<1>6. UNCHANGED <<coins, owned, net, done, main, used, file>>
  BY <1>2, Zenon DEF ledgerVars
<1>7. IdleInv(w) /\ SeedListInv(w) /\ s.rpc = NoTx
  BY <1>1, <1>2, Zenon DEF WorkerInv, SeedInv
<1>8. IdleInv(w)'
  BY <1>4, <1>5, <1>6, <1>7, Zenon DEF IdleInv, GasOwned, GasCurrent
<1>9. SeedListInv(w)'
  <2>1. Seeded(w)' = Seeded(w)
    BY <1>2, <1>4, <1>5, Zenon DEF Seeded
  <2> QED
    BY <1>4, <1>5, <1>6, <1>7, <2>1, Zenon DEF SeedListInv, DistinctIds, OwnedBy, CurrentFor
<1>10. SeedInv(w)'
  BY <1>4, <1>5, <1>7, <1>8, <1>9, Zenon DEF SeedInv
<1>11. WorkerInv(w)'
  BY <1>2, <1>10, Zenon DEF WorkerInv
<1> QED
  BY <1>2, <1>5, <1>11, Zenon DEF Others

LEMMA SeedErrorStep ==
    ASSUME IInv, NEW w \in Worker, SeedError(w)
    PROVE  WorkerInv(w)' /\ Others(w) /\ UNCHANGED <<ledgerVars, used, unseen>>
<1> DEFINE s == ws[w]
           t == [s EXCEPT !.pc = "failed"]
<1>1. LedgerType /\ RunType /\ WorkerInv(w)
  BY TypeParts, Zenon DEF IInv
<1>2. /\ s.pc = "rpc" /\ ws' = [ws EXCEPT ![w] = t]
      /\ UNCHANGED <<ledgerVars, file, main, used, unseen>>
  BY Zenon DEF SeedError
<1>3. s \in WorkerState /\ ws \in [Worker -> WorkerState]
  BY <1>1, WorkerType, Zenon DEF RunType
<1>4. t \in WorkerState /\ t.pc = "failed"
  BY <1>3, Zenon DEF WorkerState
<1> HIDE DEF t
<1>5. ws' \in [Worker -> WorkerState] /\ ws'[w] = t /\ \A x \in Worker : x # w => ws'[x] = ws[x]
  BY <1>2, <1>3, <1>4, Zenon
<1>6. main.stage = "seed"
  BY <1>1, <1>2, MainType, Zenon DEF WorkerInv, FaucetInv, RefreshInv, MeasureInv
<1>7. WorkerInv(w)'
  BY <1>2, <1>4, <1>5, <1>6, Zenon DEF WorkerInv, SeedInv
<1> QED
  BY <1>2, <1>5, <1>7, Zenon DEF Others

\* The list after tracking: old entries, and created objects none of which was there.
LEMMA TrackDistinct ==
    ASSUME NEW list \in Seq(TrackedObject), NEW d \in Effects,
           \A i \in DOMAIN list : list[i].id < d.first
    PROVE  /\ \A i \in DOMAIN Track(list, d) :
                 \/ i \in DOMAIN list /\ Track(list, d)[i] = list[i]
                 \/ /\ Track(list, d)[i].id \in d.first..(d.first + d.count - 1)
                    /\ Track(list, d)[i].version = d.version
           /\ DistinctIds(list) => DistinctIds(Track(list, d))
<1> DEFINE T == Track(list, d)
<1>1. /\ T \in Seq(TrackedObject) /\ Len(T) >= Len(list)
      /\ \A i \in DOMAIN list : i \in DOMAIN T /\ T[i] = list[i]
      /\ \A i \in DOMAIN T : i > Len(list) =>
            /\ T[i].id = d.first + (i - Len(list)) - 1
            /\ T[i].id \in d.first..(d.first + d.count - 1)
            /\ T[i].version = d.version
  BY TrackAppends, Zenon
<1>2. d.first \in Nat /\ d.count \in Nat
  BY Zenon DEF Effects
<1>3. \A i \in DOMAIN list : list[i].id \in Nat
  BY EntryType, Zenon
<1> HIDE DEF T
<1>4. \A i \in DOMAIN T : i \in DOMAIN list \/ i > Len(list)
  BY <1>1
<1>5. \A i \in DOMAIN T : \/ i \in DOMAIN list /\ T[i] = list[i]
                          \/ T[i].id \in d.first..(d.first + d.count - 1) /\ T[i].version = d.version
  BY <1>1, <1>4, Zenon
<1>6. ASSUME DistinctIds(list), NEW i \in DOMAIN T, NEW j \in DOMAIN T, T[i].id = T[j].id
      PROVE  i = j
  <2>0. i \in Nat /\ j \in Nat /\ Len(list) \in Nat
    BY <1>1
  <2>1. CASE i \in DOMAIN list /\ j \in DOMAIN list
    BY <1>1, <1>6, <2>1, Zenon DEF DistinctIds
  <2>2. CASE i > Len(list) /\ j > Len(list)
    <3>1. T[i].id = d.first + (i - Len(list)) - 1 /\ T[j].id = d.first + (j - Len(list)) - 1
      BY <1>1, <2>2, Zenon
    <3>2. d.first + (i - Len(list)) - 1 = d.first + (j - Len(list)) - 1
      BY <1>6, <3>1, Zenon
    <3> QED
      BY <1>2, <2>0, <3>2
  <2>3. CASE i \in DOMAIN list /\ j > Len(list)
    <3>1. T[i].id < d.first /\ T[i].id \in Nat
      BY <1>1, <1>3, <2>3, Zenon
    <3>2. T[j].id >= d.first
      BY <1>1, <1>2, <2>3
    <3> QED
      BY <1>2, <1>6, <3>1, <3>2
  <2>4. CASE j \in DOMAIN list /\ i > Len(list)
    <3>1. T[j].id < d.first /\ T[j].id \in Nat
      BY <1>1, <1>3, <2>4, Zenon
    <3>2. T[i].id >= d.first
      BY <1>1, <1>2, <2>4
    <3> QED
      BY <1>2, <1>6, <3>1, <3>2
  <2> QED
    BY <1>4, <2>1, <2>2, <2>3, <2>4, Zenon
<1> QED
  BY <1>5, <1>6, Zenon DEF T, DistinctIds

LEMMA SeedReplyStep ==
    ASSUME IInv, NEW w \in Worker, SeedReply(w)
    PROVE  /\ WorkerInv(w)' /\ Others(w) /\ UNCHANGED <<ledgerVars, unseen>>
           /\ used'.fresh = used.fresh /\ (used'.faults = 0 => used.faults = 0)
           /\ used' \in [fresh : 0..MaxFresh, starts : Nat, work : Nat, faults : Nat, chains : Nat]
<1> DEFINE k == main.keys
           s == ws[w]
           d == done[k][w]
           list == s.objects
<1>1. LedgerType /\ RunType /\ WorkerInv(w)
  BY TypeParts, Zenon DEF IInv
<1>2. PICK changes \in BOOLEAN :
         /\ s.pc = "rpc" /\ d.tx = s.rpc
         /\ ws' = [ws EXCEPT ![w].gas_coin.version = d.version, ![w].pc = "seed", ![w].rpc = NoTx,
                             ![w].objects = IF changes THEN Track(list, d) ELSE list]
         /\ used' = [used EXCEPT !.faults = @ + IF changes THEN 0 ELSE 1]
         /\ UNCHANGED <<ledgerVars, file, main, unseen>>
  BY Zenon DEF SeedReply
<1>3. main.stage = "seed" /\ SeedInv(w)
  BY <1>1, <1>2, MainType, Zenon DEF WorkerInv, FaucetInv, RefreshInv, MeasureInv
<1>4. k \in Key /\ LedgerInv(k, w)
  BY <1>1, <1>3, MainType, Zenon DEF IInv
<1>5. /\ s \in WorkerState /\ s.gas_coin \in Ref /\ s.remaining \in 0..SeedObjects
      /\ list \in Seq(TrackedObject) /\ ws \in [Worker -> WorkerState] /\ s.rpc \in Transaction
  BY <1>1, WorkerType, Zenon DEF RunType
<1>6. d \in Effects /\ d.version \in Nat /\ d.first \in Nat /\ d.count \in Nat
  BY <1>1, <1>4, AddressType, Zenon DEF Effects
<1>7. RpcInv(w) /\ SeedListInv(w)
  BY <1>2, <1>3, Zenon DEF SeedInv
<1>8. /\ s.rpc.coin = s.gas_coin /\ net[k][w] = {} /\ GasOwned(w)
      /\ d.version = coins[k][w][s.gas_coin.id].version
      /\ \A i \in DOMAIN list : list[i].id < d.first
      /\ \A i \in d.first..(d.first + d.count - 1) : owned[k][w][i] = d.version
  BY <1>2, <1>7, Zenon DEF RpcInv
<1> DEFINE new == IF changes THEN Track(list, d) ELSE list
           g == [s.gas_coin EXCEPT !.version = d.version]
           t == [s EXCEPT !.gas_coin = g, !.pc = "seed", !.rpc = NoTx, !.objects = new]
<1>9. new \in Seq(TrackedObject)
  BY <1>5, <1>6, TrackAppends, Zenon
<1>10. g \in Ref /\ g.id = s.gas_coin.id /\ g.version = d.version
  BY <1>5, <1>6, Zenon DEF Ref
<1>11. ws' = [ws EXCEPT ![w] = t]
  BY <1>2, Zenon
<1> HIDE DEF new, g
<1>12. NoTx \in Transaction
  BY Zenon DEF NoTx, NoCoin, Transaction, Ref
<1>13. /\ t \in WorkerState /\ t.pc = "seed" /\ t.rpc = NoTx /\ t.objects = new /\ t.gas_coin = g
       /\ t.remaining = s.remaining
  BY <1>5, <1>9, <1>10, <1>12, Zenon DEF WorkerState
<1> HIDE DEF t
<1>14. ws' \in [Worker -> WorkerState] /\ ws'[w] = t /\ \A x \in Worker : x # w => ws'[x] = ws[x]
  BY <1>5, <1>11, <1>13, Zenon
<1>15. UNCHANGED <<coins, owned, net, done, main, file>>
  BY <1>2, Zenon DEF ledgerVars
<1>16. /\ used'.fresh = used.fresh /\ (used'.faults = 0 => used.faults = 0 /\ changes)
       /\ used' \in [fresh : 0..MaxFresh, starts : Nat, work : Nat, faults : Nat, chains : Nat]
  <2>1. used \in [fresh : 0..MaxFresh, starts : Nat, work : Nat, faults : Nat, chains : Nat]
    BY <1>1, Zenon DEF RunType
  <2> QED
    BY <1>2, <2>1
<1>17. IdleInv(w)'
  <2>1. s.gas_coin.id \in DOMAIN coins[k][w]
    BY <1>8, Zenon DEF GasOwned
  <2>2. d.tx.coin.id = g.id
    BY <1>2, <1>8, <1>10, Zenon
  <2>3. ws'[w].gas_coin = g
    BY <1>13, <1>14, Zenon
  <2>4. GasOwned(w)' /\ GasCurrent(w)'
    <3>1. main'.keys = k /\ coins' = coins
      BY <1>15, Zenon
    <3>2. g.id \in DOMAIN coins[k][w] /\ g.version = coins[k][w][g.id].version /\ g.version \in Nat
      BY <1>6, <1>8, <1>10, <2>1, Zenon
    <3> HIDE DEF k
    <3>3. g.version <= coins[k][w][g.id].version
      BY <3>2
    <3> QED
      BY <2>3, <3>1, <3>2, <3>3, Zenon DEF GasOwned, GasCurrent
  <2> QED
    BY <1>8, <1>15, <2>2, <2>3, <2>4, Zenon DEF IdleInv
<1>18. DistinctIds(list) /\ OwnedBy(w, list) /\ CurrentFor(w, list)
  BY <1>7, Zenon DEF SeedListInv
<1>19. \A i \in d.first..(d.first + d.count - 1) : i \in DOMAIN owned[k][w]
  BY <1>4, Zenon DEF LedgerInv
<1>20. /\ DistinctIds(new)
       /\ \A i \in DOMAIN new : new[i].id \in DOMAIN owned[k][w] /\ new[i].version = owned[k][w][new[i].id]
  <2>1. \A i \in DOMAIN list : list[i].id \in DOMAIN owned[k][w] /\ list[i].version = owned[k][w][list[i].id]
    BY <1>18, Zenon DEF OwnedBy, CurrentFor
  <2>2. CASE ~changes
    BY <1>18, <2>1, <2>2, Zenon DEF new
  <2>3. CASE changes
    <3>1. new = Track(list, d)
      BY <2>3, Zenon DEF new
    <3>2. DistinctIds(new)
      BY <1>5, <1>6, <1>8, <1>18, <3>1, TrackDistinct, Zenon
    <3>3. \A i \in DOMAIN new :
             \/ i \in DOMAIN list /\ new[i] = list[i]
             \/ new[i].id \in d.first..(d.first + d.count - 1) /\ new[i].version = d.version
      BY <1>5, <1>6, <1>8, <3>1, TrackDistinct, ZenonT(30)
    <3> HIDE DEF list, d, k, s
    <3> QED
      BY <1>8, <1>19, <2>1, <3>2, <3>3, Zenon
  <2> QED
    BY <2>2, <2>3, Zenon
<1>21. used'.faults = 0 => Len(new) >= Smaller(SeedObjects - s.remaining, MaxTracked)
  <2> SUFFICES ASSUME used'.faults = 0 PROVE Len(new) >= Smaller(SeedObjects - s.remaining, MaxTracked)
    BY Zenon
  <2>1. new = Track(list, d) /\ used.faults = 0
    BY <1>16, Zenon DEF new
  <2>2. Len(new) >= Smaller(Len(list) + d.count, MaxTracked)
    BY <1>5, <1>6, <2>1, TrackAppends, Zenon
  <2>3. d.count = s.rpc.create
    BY <1>2, <1>4, <2>1, Zenon DEF LedgerInv
  <2>4. Len(list) >= Smaller(SeedObjects - s.remaining - d.count, MaxTracked)
    BY <1>2, <1>7, <2>1, <2>3, Zenon DEF SeedListInv, Seeded
  <2>5. Len(list) \in Nat /\ Len(new) \in Nat /\ MaxTracked \in Nat /\ SeedObjects \in Nat /\ s.remaining \in Nat
    BY <1>5, <1>9, CountAssumption
  <2> HIDE DEF list, d, k, s
  <2> QED
    BY <1>6, <2>2, <2>4, <2>5 DEF Smaller
<1>22. SeedListInv(w)'
  <2>1. Seeded(w)' = SeedObjects - s.remaining
    BY <1>5, <1>13, <1>14, CountAssumption DEF Seeded
  <2>2. ws'[w].objects = new /\ main'.keys = k
    BY <1>13, <1>14, <1>15, Zenon
  <2>3. \A i \in DOMAIN owned[k][w] : owned[k][w][i] \in Nat
    BY <1>1, <1>4, AddressType, Zenon
  <2> HIDE DEF k, s, d
  <2>4. DistinctIds(ws[w].objects)' /\ OwnedBy(w, ws[w].objects)' /\ CurrentFor(w, ws[w].objects)'
    BY <1>15, <1>20, <2>2, <2>3 DEF DistinctIds, OwnedBy, CurrentFor
  <2> QED
    BY <1>21, <2>1, <2>2, <2>4, Zenon DEF SeedListInv
<1>23. SeedInv(w)'
  BY <1>13, <1>14, <1>17, <1>22, Zenon DEF SeedInv
<1>24. WorkerInv(w)'
  BY <1>3, <1>15, <1>23, Zenon DEF WorkerInv
<1> QED
  BY <1>2, <1>14, <1>15, <1>16, <1>24, Zenon DEF Others

\* A transaction of the measured phase that is answered: the list follows the chain.
LEMMA AnsweredStep ==
    ASSUME TypeOK, NEW w \in Worker, main.stage = "measure", MeasureInv(w),
           NEW tx \in Transaction, Single(tx), tx.coin = ws[w].gas_coin,
           tx.inputs \subseteq Range(ws[w].objects),
           Executes(main.keys, w, tx, TRUE), main' = main, file' = file,
           used'.faults = used.faults, unseen' = unseen, ws'[w].pc = ws[w].pc, ws'[w].rpc = ws[w].rpc,
           ws'[w].gas_coin = [ws[w].gas_coin EXCEPT !.version = NewVersion(tx)],
           ws'[w].objects = Track(Updated(ws[w].objects, tx.inputs, NewVersion(tx)), done'[main.keys][w])
    PROVE  MeasureInv(w)' /\ ws'[w].objects \in Seq(TrackedObject)
<1> DEFINE k == main.keys
           v == NewVersion(tx)
           list == ws[w].objects
           upd == Updated(list, tx.inputs, v)
           d == done'[k][w]
           new == Track(upd, d)
<1>1. LedgerType /\ RunType /\ k \in Key
  BY TypeParts, MainType, Zenon
<1>2. list \in Seq(TrackedObject) /\ ws[w].gas_coin \in Ref /\ v \in Nat /\ nextId \in Nat \ {0}
  BY <1>1, WorkerType, NewVersionAbove, Zenon DEF LedgerType
<1>3. d = [tx |-> tx, first |-> nextId, count |-> tx.create, version |-> v]
  BY Zenon DEF Executes
<1>4. d \in Effects /\ d.first = nextId /\ d.count = tx.create /\ d.version = v
  BY <1>2, <1>3 DEF Effects, Transaction
<1>5. Grows(k, w)
  BY <1>1, ExecutionGrows, Zenon
<1>6. /\ upd \in Seq(TrackedObject) /\ DOMAIN upd = DOMAIN list /\ Len(upd) = Len(list)
      /\ \A i \in DOMAIN list : /\ upd[i].id = list[i].id
                                /\ upd[i].version = IF list[i] \in tx.inputs THEN v ELSE list[i].version
  BY <1>2, UpdatedKeeps
<1>7. DistinctIds(list) /\ OwnedBy(w, list) /\ (unseen \/ CurrentFor(w, list))
  BY Zenon DEF MeasureInv
<1>8. /\ \A i \in DOMAIN owned[k][w] : owned[k][w][i] \in Nat
      /\ DOMAIN owned[k][w] \subseteq 1..(nextId - 1)
  BY <1>1, AddressType, Zenon
<1>9. \A i \in DOMAIN list : list[i] \in TrackedObject /\ list[i].id \in Nat \ {0} /\ list[i].version \in Nat
  BY <1>2, EntryType, Zenon
<1>10. \A i \in DOMAIN list : list[i].id \in DOMAIN owned[k][w]
  BY <1>7, Zenon DEF OwnedBy
<1>11. \A i \in DOMAIN upd : upd[i].id < d.first
  <2>1. \A i \in DOMAIN list : list[i].id < nextId
    BY <1>2, <1>8, <1>9, <1>10
  <2> QED
    BY <1>4, <1>6, <2>1, Zenon
<1> HIDE DEF upd, v, d
<1>12. /\ new \in Seq(TrackedObject) /\ Len(new) >= Len(upd)
       /\ \A i \in DOMAIN new :
             \/ i \in DOMAIN upd /\ new[i] = upd[i]
             \/ new[i].id \in d.first..(d.first + d.count - 1) /\ new[i].version = d.version
       /\ DistinctIds(upd) => DistinctIds(new)
  BY <1>4, <1>6, <1>11, TrackAppends, TrackDistinct, Zenon
<1>13. DistinctIds(upd)
  <2> HIDE DEF list
  <2> QED
    BY <1>6, <1>7, Zenon DEF DistinctIds
<1>14. /\ \A i \in d.first..(d.first + d.count - 1) : i \in DOMAIN owned'[k][w] /\ owned'[k][w][i] = v
       /\ \A i \in DOMAIN owned[k][w] :
             /\ i \in DOMAIN owned'[k][w]
             /\ owned'[k][w][i] = IF \E r \in tx.inputs : r.id = i THEN v ELSE owned[k][w][i]
  BY <1>4, Zenon DEF Executes, v
\* A reference that was not sent: its object has not changed.
<1>15. ASSUME NEW i \in DOMAIN list, list[i] \notin tx.inputs
       PROVE  ~ \E r \in tx.inputs : r.id = list[i].id
  <2> SUFFICES ASSUME NEW r \in tx.inputs, r.id = list[i].id PROVE FALSE
    BY Zenon
  <2>1. PICK j \in DOMAIN list : list[j] = r
    BY Zenon DEF Range
  <2>2. i = j
    BY <1>7, <2>1, Zenon DEF DistinctIds
  <2> QED
    BY <1>15, <2>1, <2>2, Zenon
<1>16. ASSUME NEW i \in DOMAIN list
       PROVE  /\ upd[i].id \in DOMAIN owned'[k][w] /\ upd[i].version <= owned'[k][w][upd[i].id]
              /\ CurrentFor(w, list) => upd[i].version = owned'[k][w][upd[i].id]
  <2> DEFINE o == list[i].id
  <2>0. o \in DOMAIN owned[k][w] /\ list[i].version <= owned[k][w][o] /\ upd[i].id = o
    BY <1>6, <1>7, Zenon DEF OwnedBy
  <2>1. CASE list[i] \in tx.inputs
    <3>1. owned'[k][w][o] = v
      BY <1>14, <2>0, <2>1, Zenon
    <3>2. upd[i].version = v
      BY <1>6, <2>1, Zenon
    <3>3. v <= v
      BY <1>2
    <3> HIDE DEF o, k, list
    <3>4. o \in DOMAIN owned'[k][w]
      BY <1>14, <2>0, Zenon
    <3> QED
      BY <2>0, <3>1, <3>2, <3>3, <3>4, Zenon
  <2>2. CASE list[i] \notin tx.inputs
    <3>1. owned'[k][w][o] = owned[k][w][o]
      BY <1>14, <1>15, <2>0, <2>2, Zenon
    <3>2. upd[i].version = list[i].version
      BY <1>6, <2>2, Zenon
    <3>3. CurrentFor(w, list) => list[i].version = owned[k][w][o]
      BY Zenon DEF CurrentFor
    <3> HIDE DEF o, k, list
    <3> QED
      BY <1>14, <2>0, <3>1, <3>2, <3>3, Zenon
  <2> QED
    BY <2>1, <2>2, Zenon
<1>17. \A i \in DOMAIN new : /\ new[i].id \in DOMAIN owned'[k][w] /\ new[i].version <= owned'[k][w][new[i].id]
                             /\ CurrentFor(w, list) => new[i].version = owned'[k][w][new[i].id]
  <2> SUFFICES ASSUME NEW i \in DOMAIN new
               PROVE  /\ new[i].id \in DOMAIN owned'[k][w] /\ new[i].version <= owned'[k][w][new[i].id]
                      /\ CurrentFor(w, list) => new[i].version = owned'[k][w][new[i].id]
    BY Zenon
  <2>1. CASE i \in DOMAIN upd /\ new[i] = upd[i]
    BY <1>6, <1>16, <2>1, Zenon
  <2>2. CASE new[i].id \in d.first..(d.first + d.count - 1) /\ new[i].version = d.version
    <3> HIDE DEF new, k
    <3>1. new[i].id \in DOMAIN owned'[k][w] /\ owned'[k][w][new[i].id] = v /\ new[i].version = v
      BY <1>4, <1>14, <2>2, Zenon
    <3> QED
      BY <1>2, <3>1
  <2> QED
    BY <1>12, <2>1, <2>2, Zenon
<1>18. ws'[w].objects = new /\ main'.keys = k
  BY Zenon DEF upd, v, d
<1>19. OwnedBy(w, ws[w].objects)' /\ (CurrentFor(w, list) => CurrentFor(w, ws[w].objects)')
       /\ DistinctIds(ws[w].objects)'
  <2> HIDE DEF new, k, list
  <2> QED
    BY <1>12, <1>13, <1>17, <1>18, Zenon DEF OwnedBy, CurrentFor, DistinctIds
<1>20. GasOwned(w)' /\ GasCurrent(w)'
  <2>1. ws'[w].gas_coin.id = tx.coin.id /\ ws'[w].gas_coin.version = v
    BY <1>2, Zenon DEF Ref, v
  <2>2. tx.coin.id \in DOMAIN coins'[k][w] /\ coins'[k][w][tx.coin.id].version = v
    BY ZenonT(30) DEF Executes, Current, v
  <2>3. v <= coins'[k][w][tx.coin.id].version
    BY <1>2, <2>2
  <2> HIDE DEF k
  <2> QED
    BY <1>18, <2>1, <2>2, <2>3, Zenon DEF GasOwned, GasCurrent
<1>21. (~main'.load /\ used'.faults = 0) => Len(ws'[w].objects) >= Smaller(SeedObjects, MaxTracked)
  <2>1. Len(new) \in Nat /\ Len(list) \in Nat /\ Len(new) >= Len(list)
    BY <1>2, <1>6, <1>12
  <2>2. Smaller(SeedObjects, MaxTracked) \in Nat
    BY CountAssumption, Zenon DEF Smaller
  <2>3. (~main.load /\ used.faults = 0) => Len(list) >= Smaller(SeedObjects, MaxTracked)
    BY Zenon DEF MeasureInv
  <2> HIDE DEF new, list
  <2> QED
    BY <1>18, <2>1, <2>2, <2>3
<1> QED
  BY <1>7, <1>12, <1>18, <1>19, <1>20, <1>21, Zenon DEF MeasureInv

LEMMA WorkStep ==
    ASSUME IInv, NEW w \in Worker, Work(w)
    PROVE  /\ WorkerInv(w)' /\ Others(w) /\ unseen' = unseen /\ main.keys \in Key
           /\ used'.fresh = used.fresh /\ used'.faults = used.faults
           /\ used' \in [fresh : 0..MaxFresh, starts : Nat, work : Nat, faults : Nat, chains : Nat]
           /\ LedgerType'
           /\ \A j \in Key, x \in Worker : j # main.keys \/ x # w => Same(j, x)
           /\ \E tx \in Transaction :
                 /\ Single(tx) /\ tx.coin.id # 0
                 /\ Sends(main.keys, w, tx) \/ Executes(main.keys, w, tx, TRUE)
<1> DEFINE k == main.keys
           s == ws[w]
<1>1. LedgerType /\ RunType /\ WorkerInv(w) /\ TypeOK
  BY TypeParts, Zenon DEF IInv
<1>2. PICK n \in 0..1, inputs \in {{}} \cup {{r} : r \in Range(s.objects)} :
         LET tx == [coin |-> s.gas_coin, create |-> n, inputs |-> inputs]
             v == NewVersion(tx)
         IN /\ main.stage = "measure"
            /\ used' = [used EXCEPT !.work = @ + 1]
            /\ \/ /\ Apply(k, w, tx, TRUE)
                  /\ ws' = [ws EXCEPT ![w].gas_coin.version = v, ![w].objects =
                                Track(Updated(@, inputs, v), done'[k][w])]
               \/ /\ net' = [net EXCEPT ![k][w] = @ \cup {tx}]
                  /\ UNCHANGED <<coins, owned, owed, done, nextId, ws>>
            /\ UNCHANGED <<file, main, unseen>>
  BY Zenon DEF Work
<1> DEFINE tx == [coin |-> s.gas_coin, create |-> n, inputs |-> inputs]
           v == NewVersion(tx)
<1>3. /\ s \in WorkerState /\ s.gas_coin \in Ref /\ s.objects \in Seq(TrackedObject)
      /\ ws \in [Worker -> WorkerState]
  BY <1>1, WorkerType, Zenon DEF RunType
<1>4. tx \in Transaction /\ Single(tx) /\ tx.coin = s.gas_coin /\ tx.inputs \subseteq Range(s.objects)
      /\ tx.inputs = inputs
  <2>1. \A r \in Range(s.objects) : r \in TrackedObject
    BY <1>3, EntryType, Zenon DEF Range
  <2>2. inputs = {} \/ \E r \in Range(s.objects) : inputs = {r}
    BY <1>2, Zenon
  <2>3. inputs \in SUBSET TrackedObject /\ inputs \subseteq Range(s.objects)
    BY <2>1, <2>2, Zenon
  <2>4. tx \in Transaction
    BY <1>2, <1>3, <2>3 DEF Transaction
  <2>5. Single(tx)
    BY <2>2, Zenon DEF Single
  <2> QED
    BY <2>3, <2>4, <2>5, Zenon
<1>5. /\ main.stage = "measure" /\ used' = [used EXCEPT !.work = @ + 1] /\ UNCHANGED <<file, main, unseen>>
      /\ \/ /\ Apply(k, w, tx, TRUE)
            /\ ws' = [ws EXCEPT ![w].gas_coin.version = v, ![w].objects =
                          Track(Updated(@, tx.inputs, v), done'[k][w])]
         \/ /\ net' = [net EXCEPT ![k][w] = @ \cup {tx}]
            /\ UNCHANGED <<coins, owned, owed, done, nextId, ws>>
  BY <1>2, Zenon
<1> HIDE DEF tx
<1>6. k \in Key /\ MeasureInv(w)
  BY <1>1, <1>5, MainType, Zenon DEF WorkerInv
<1>7. /\ used'.fresh = used.fresh /\ used'.faults = used.faults
      /\ used' \in [fresh : 0..MaxFresh, starts : Nat, work : Nat, faults : Nat, chains : Nat]
  <2>1. used \in [fresh : 0..MaxFresh, starts : Nat, work : Nat, faults : Nat, chains : Nat]
    BY <1>1, Zenon DEF RunType
  <2> QED
    BY <1>5, <2>1
<1>8. tx.coin.id # 0
  BY <1>1, <1>4, <1>6, AddressType, Zenon DEF MeasureInv, GasOwned
<1>9. CASE net' = [net EXCEPT ![k][w] = @ \cup {tx}] /\ UNCHANGED <<coins, owned, owed, done, nextId, ws>>
  <2>1. /\ LedgerType' /\ Sends(k, w, tx)
        /\ \A j \in Key, x \in Worker : j # k \/ x # w => Same(j, x)
    BY <1>1, <1>4, <1>6, <1>9, SendsStep, Zenon
  <2>2. Stays(k, w) /\ Grows(k, w)
    BY <1>1, <1>4, <1>6, <2>1, AllStay, Zenon
  <2>3. ws'[w] = ws[w]
    BY <1>9, Zenon
  <2>4. WorkerInv(w)'
    BY <1>1, <1>5, <1>7, <2>2, <2>3, StillStep, Zenon
  <2>5. Others(w)
    BY <1>3, <1>5, <1>9, Zenon DEF Others
  <2> QED
    BY <1>4, <1>5, <1>6, <1>7, <1>8, <2>1, <2>4, <2>5, Zenon
<1>10. CASE /\ Apply(k, w, tx, TRUE)
            /\ ws' = [ws EXCEPT ![w].gas_coin.version = v, ![w].objects =
                          Track(Updated(@, tx.inputs, v), done'[k][w])]
  <2>1. /\ Executes(k, w, tx, TRUE) /\ LedgerType'
        /\ \A j \in Key, x \in Worker : j # k \/ x # w => Same(j, x)
    BY <1>1, <1>4, <1>6, <1>10, ApplyExecutes, Zenon
  <2> DEFINE list == Track(Updated(s.objects, tx.inputs, v), done'[k][w])
             g == [s.gas_coin EXCEPT !.version = v]
             t == [s EXCEPT !.gas_coin = g, !.objects = list]
  <2>2. ws' = [ws EXCEPT ![w] = t]
    BY <1>10, Zenon
  <2>3. v \in Nat
    BY <1>4, NewVersionAbove, Zenon
  <2> HIDE DEF list, v
  <2>4. g \in Ref
    BY <1>3, <2>3, Zenon DEF Ref
  <2> HIDE DEF g
  <2>5. t.pc = s.pc /\ t.rpc = s.rpc /\ t.gas_coin = g /\ t.objects = list
    BY <1>3, Zenon DEF WorkerState
  <2>6. list \in Seq(TrackedObject) => t \in WorkerState
    BY <1>3, <2>4, Zenon DEF WorkerState
  <2> HIDE DEF t
  <2>7. ws'[w] = t /\ \A x \in Worker : x # w => ws'[x] = ws[x]
    BY <1>3, <2>2, Zenon
  <2>8. MeasureInv(w)' /\ ws'[w].objects \in Seq(TrackedObject)
    <3>1. ws'[w].gas_coin = [ws[w].gas_coin EXCEPT !.version = NewVersion(tx)]
      BY <2>5, <2>7, Zenon DEF g, v
    <3>2. ws'[w].objects = Track(Updated(ws[w].objects, tx.inputs, NewVersion(tx)), done'[main.keys][w])
      BY <2>5, <2>7, Zenon DEF list, v
    <3>3. ws'[w].pc = ws[w].pc /\ ws'[w].rpc = ws[w].rpc
      BY <2>5, <2>7, Zenon
    <3> QED
      BY <1>1, <1>4, <1>5, <1>6, <1>7, <2>1, <3>1, <3>2, <3>3, AnsweredStep, ZenonT(30)
  <2>9. ws' \in [Worker -> WorkerState]
    <3>1. t \in WorkerState
      BY <2>5, <2>6, <2>7, <2>8, Zenon
    <3> QED
      BY <1>3, <2>2, <3>1, Zenon
  <2>10. WorkerInv(w)'
    BY <1>5, <2>8, Zenon DEF WorkerInv
  <2>11. Others(w)
    BY <1>5, <2>7, <2>9, Zenon DEF Others
  <2> QED
    BY <1>4, <1>5, <1>6, <1>7, <1>8, <2>1, <2>10, <2>11, Zenon
<1> QED
  BY <1>5, <1>9, <1>10, Zenon
-----------------------------------------------------------------------------
(* The steps of main *)

LEMMA RunDown ==
    ASSUME IInv, Quit, file' \in [kind : {"none", "torn", "saved"}, keys : 0..MaxFresh,
                                  objects : [Worker -> Seq(TrackedObject)]]
    PROVE  RunType' /\ RunInv' /\ UNCHANGED <<ledgerVars, used>> /\ \A w \in Worker : WorkerInv(w)'
<1>1. RunType
  BY TypeParts, Zenon DEF IInv
<1>2. main' = Down /\ ws' = Every(NoWorker) /\ unseen' = FALSE /\ UNCHANGED <<ledgerVars, used>>
  BY Zenon DEF Quit
<1>3. MaxFresh \in Nat /\ SeedObjects \in Nat
  BY CountAssumption, Zenon
<1>4. Down \in MainState /\ Down.keys = 0 /\ Down.stage = "down"
  BY <1>3 DEF Down, MainState
<1>5. NoTx \in Transaction /\ NoCoin \in Ref
  BY Zenon DEF NoTx, NoCoin, Transaction, Ref
<1>6. NoWorker \in WorkerState /\ NoWorker.pc = "wait"
  BY <1>3, <1>5 DEF NoWorker, WorkerState
<1>7. ws' \in [Worker -> WorkerState] /\ \A w \in Worker : ws'[w].pc = "wait"
  BY <1>2, <1>6, Zenon DEF Every
<1>8. used' \in [fresh : 0..MaxFresh, starts : Nat, work : Nat, faults : Nat, chains : Nat]
  BY <1>1, <1>2, Zenon DEF RunType
<1>9. RunType'
  BY <1>2, <1>4, <1>7, <1>8, Zenon DEF RunType
<1>10. RunInv'
  <2>1. used'.fresh \in Nat
    BY <1>3, <1>8
  <2> QED
    BY <1>2, <1>4, <2>1 DEF RunInv
<1>11. \A w \in Worker : WorkerInv(w)'
  BY <1>2, <1>4, <1>7, Zenon DEF WorkerInv
<1> QED
  BY <1>2, <1>9, <1>10, <1>11, Zenon

\* A worker as Start leaves it.
Started(p, l) == [NoWorker EXCEPT !.pc = p, !.objects = l]

\* What a worker holds when a run starts: its list, and no request.
LEMMA StartedWorker ==
    ASSUME NEW p, p = "post" \/ p = "wait", NEW l \in Seq(TrackedObject)
    PROVE  /\ Started(p, l) \in WorkerState /\ Started(p, l).pc = p
           /\ Started(p, l).rpc = NoTx /\ Started(p, l).objects = l
<1>1. SeedObjects \in Nat
  BY CountAssumption, Zenon
<1>2. NoTx \in Transaction /\ NoCoin \in Ref
  BY Zenon DEF NoTx, NoCoin, Transaction, Ref
<1>3. NoWorker \in WorkerState /\ NoWorker.rpc = NoTx
  BY <1>1, <1>2 DEF NoWorker, WorkerState
<1>4. Started(p, l) \in WorkerState
  BY <1>3, Zenon DEF WorkerState, Started
<1>5. Started(p, l).pc = p /\ Started(p, l).rpc = NoTx /\ Started(p, l).objects = l
  BY <1>3, Zenon DEF WorkerState, Started
<1> QED
  BY <1>4, <1>5, Zenon

\* A run starts: nobody has used fresh keys, and lists come from the file.
LEMMA StartStep ==
    ASSUME IInv, StartFresh \/ StartLoad
    PROVE  /\ RunType' /\ RunInv' /\ UNCHANGED <<ledgerVars, file>> /\ \A w \in Worker : WorkerInv(w)'
           /\ used.fresh <= used'.fresh /\ used'.faults = used.faults
<1>1. LedgerType /\ RunType /\ RunInv /\ FileInv /\ \A k \in Key, w \in Worker : LedgerInv(k, w)
  BY TypeParts, Zenon DEF IInv
<1>2. MaxFresh \in Nat /\ SeedObjects \in Nat
  BY CountAssumption, Zenon
<1>3. used \in [fresh : 0..MaxFresh, starts : Nat, work : Nat, faults : Nat, chains : Nat]
  BY <1>1, Zenon DEF RunType
<1>6. ASSUME NEW load \in BOOLEAN, NEW k \in Key, NEW lists \in [Worker -> Seq(TrackedObject)],
             Start(load, k, lists)
      PROVE  /\ main' \in MainState /\ main'.stage = "faucet" /\ main'.keys = k /\ main'.load = load
             /\ main'.w = 1 /\ main'.pos = 1 /\ main'.read = <<>>
             /\ ws' \in [Worker -> WorkerState]
             /\ \A w \in Worker : /\ ws'[w].pc \in {"post", "wait"} /\ ws'[w].rpc = NoTx
                                  /\ ws'[w].objects = lists[w]
             /\ UNCHANGED <<ledgerVars, file, unseen>>
  <2>1. /\ main' = [Down EXCEPT !.stage = "faucet", !.keys = k, !.load = load]
        /\ ws' = [w \in Worker |-> [NoWorker EXCEPT !.pc = IF w \in Chunk(1, load) THEN "post" ELSE "wait",
                                                    !.objects = lists[w]]]
        /\ UNCHANGED <<ledgerVars, file, unseen>>
    BY <1>6, Zenon DEF Start
  <2>2. k \in 0..MaxFresh
    BY <1>2 DEF Key
  <2>3. /\ main' \in MainState /\ main'.stage = "faucet" /\ main'.keys = k /\ main'.load = load
        /\ main'.w = 1 /\ main'.pos = 1 /\ main'.read = <<>>
    <3>1. main' = [stage |-> "faucet", keys |-> k, load |-> load, chunk |-> 1,
                   w |-> 1, pos |-> 1, read |-> <<>>]
      BY <2>1, Zenon DEF Down
    <3>2. main' \in MainState
      BY <2>2, <3>1 DEF MainState
    <3> QED
      BY <3>1, <3>2, Zenon
  <2>5. ASSUME NEW w \in Worker
        PROVE  /\ ws'[w] \in WorkerState /\ ws'[w].pc \in {"post", "wait"} /\ ws'[w].rpc = NoTx
               /\ ws'[w].objects = lists[w]
    <3> DEFINE p == IF w \in Chunk(1, load) THEN "post" ELSE "wait"
    <3>1. (p = "post" \/ p = "wait") /\ lists[w] \in Seq(TrackedObject)
      BY Zenon
    <3>2. ws'[w] = Started(p, lists[w])
      BY <2>1, Zenon DEF Started
    <3> HIDE DEF p
    <3>3. /\ Started(p, lists[w]) \in WorkerState /\ Started(p, lists[w]).pc = p
          /\ Started(p, lists[w]).rpc = NoTx /\ Started(p, lists[w]).objects = lists[w]
      BY <3>1, StartedWorker, Zenon
    <3> QED
      BY <3>1, <3>2, <3>3, Zenon
  <2>6. ws' \in [Worker -> WorkerState]
    BY <2>1, <2>5, Zenon
  <2> QED
    BY <2>1, <2>3, <2>5, <2>6, Zenon
<1>7. CASE StartFresh
  <2> DEFINE k == used.fresh + 1
  <2>1. used.fresh < MaxFresh /\ used' = [used EXCEPT !.starts = @ + 1, !.fresh = @ + 1]
        /\ Start(FALSE, k, Every(<<>>))
    BY <1>7, Zenon DEF StartFresh
  <2>2. k \in Key /\ k > used.fresh /\ used.fresh \in Nat /\ k \in Nat /\ k # 0
    BY <1>2, <1>3, <2>1 DEF Key
  <2>3. Every(<<>>) \in [Worker -> Seq(TrackedObject)] /\ \A w \in Worker : Every(<<>>)[w] = <<>>
    BY DEF Every
  <2>4. /\ used' \in [fresh : 0..MaxFresh, starts : Nat, work : Nat, faults : Nat, chains : Nat]
        /\ used'.fresh = k /\ used'.faults = used.faults
    <3>1. used.fresh + 1 \in 0..MaxFresh /\ used.starts + 1 \in Nat
      BY <1>2, <1>3, <2>1
    <3> QED
      BY <1>3, <2>1, <3>1, Zenon
  <2> HIDE DEF k
  <2>5. /\ main' \in MainState /\ main'.stage = "faucet" /\ main'.keys = k /\ main'.load = FALSE
        /\ main'.w = 1 /\ main'.pos = 1 /\ main'.read = <<>>
        /\ ws' \in [Worker -> WorkerState]
        /\ \A w \in Worker : ws'[w].pc \in {"post", "wait"} /\ ws'[w].rpc = NoTx /\ ws'[w].objects = <<>>
        /\ UNCHANGED <<ledgerVars, file, unseen>>
    BY <1>6, <2>1, <2>2, <2>3, ZenonT(30)
  <2>6. RunType'
    BY <1>1, <2>2, <2>4, <2>5, Zenon DEF RunType
  <2>7. RunInv'
    <3>1. file'.keys < k
      BY <1>1, <2>2, <2>5, MainType DEF FileInv
    <3> QED
      BY <2>2, <2>4, <2>5, <3>1 DEF RunInv
  <2>8. \A w \in Worker : WorkerInv(w)'
    <3>1. \A w \in Worker : net'[k][w] = {} /\ done'[k][w].tx.coin.id = 0
      BY <1>1, <2>2, <2>5, Zenon DEF LedgerInv, ledgerVars
    <3>2. \A w \in Worker : FaucetInv(w)'
      BY <2>5, <3>1, Zenon DEF FaucetInv
    <3> QED
      BY <2>5, <3>2, Zenon DEF WorkerInv
  <2> QED
    BY <2>2, <2>4, <2>5, <2>6, <2>7, <2>8
<1>8. CASE StartLoad
  <2> DEFINE k == file.keys
  <2>1. file.kind = "saved" /\ used' = [used EXCEPT !.starts = @ + 1] /\ Start(TRUE, k, file.objects)
    BY <1>8, Zenon DEF StartLoad
  <2>2. k \in Key /\ k \in Nat /\ k # 0 /\ k <= used.fresh /\ used.fresh \in Nat
    BY <1>1, <1>2, <1>3, <2>1 DEF Key, RunType, FileInv
  <2>3. file.objects \in [Worker -> Seq(TrackedObject)]
    BY <1>1, Zenon DEF RunType
  <2>4. /\ used' \in [fresh : 0..MaxFresh, starts : Nat, work : Nat, faults : Nat, chains : Nat]
        /\ used'.fresh = used.fresh /\ used'.faults = used.faults
    BY <1>2, <1>3, <2>1
  <2>5. /\ main' \in MainState /\ main'.stage = "faucet" /\ main'.keys = k /\ main'.load = TRUE
        /\ main'.w = 1 /\ main'.pos = 1 /\ main'.read = <<>>
        /\ ws' \in [Worker -> WorkerState]
        /\ \A w \in Worker : /\ ws'[w].pc \in {"post", "wait"} /\ ws'[w].rpc = NoTx
                             /\ ws'[w].objects = file.objects[w]
        /\ UNCHANGED <<ledgerVars, file, unseen>>
    <3> HIDE DEF k
    <3> QED
      BY <1>6, <2>1, <2>2, <2>3, Zenon
  <2>6. RunType'
    BY <1>1, <2>2, <2>4, <2>5, Zenon DEF RunType
  <2>7. RunInv'
    BY <2>2, <2>4, <2>5, Zenon DEF RunInv
  <2>8. \A w \in Worker : WorkerInv(w)'
    <3>1. \A w \in Worker : FaucetInv(w)'
      BY <2>5, Zenon DEF FaucetInv
    <3> QED
      BY <2>5, <3>1, Zenon DEF WorkerInv
  <2> QED
    BY <2>2, <2>4, <2>5, <2>6, <2>7, <2>8
<1> QED
  BY <1>7, <1>8, Zenon

\* The end of a chunk: an error ends the run, the next chunk begins, or the
\* setup goes on with all workers funded.
LEMMA EndChunkStep ==
    ASSUME IInv, EndChunk
    PROVE  RunType' /\ RunInv' /\ UNCHANGED <<ledgerVars, used, file>> /\ \A w \in Worker : WorkerInv(w)'
<1>1. RunType /\ RunInv /\ FileInv /\ \A w \in Worker : WorkerInv(w)
  BY TypeParts, Zenon DEF IInv
<1>2. main.stage = "faucet" /\ file' = file
  BY Zenon DEF EndChunk
<1>3. main.keys \in Key /\ main \in MainState /\ main.keys # 0 /\ main.load \in BOOLEAN
  BY <1>1, <1>2, MainType, Zenon DEF RunType
<1>4. \A w \in Worker : FaucetInv(w)
  BY <1>1, <1>2, Zenon DEF WorkerInv
<1>5. SeedObjects \in Nat /\ MaxTracked \in Nat /\ 1 \in Worker
  BY CountAssumption DEF Worker
<1>6. CASE Quit
  <2>1. file' \in [kind : {"none", "torn", "saved"}, keys : 0..MaxFresh,
                   objects : [Worker -> Seq(TrackedObject)]]
    BY <1>1, <1>2, Zenon DEF RunType
  <2> QED
    BY <1>2, <1>6, <2>1, RunDown, Zenon
<1>7. CASE /\ \A w \in Worker : ws[w].pc = "funded"
           /\ main' = [main EXCEPT !.stage = IF main.load THEN "refresh" ELSE "seed"]
           /\ ws' = [w \in Worker |-> [ws[w] EXCEPT !.pc = "seed", !.remaining =
                                           IF main.load THEN 0 ELSE SeedObjects]]
           /\ UNCHANGED <<ledgerVars, used, unseen>>
  <2>1. /\ main'.stage = (IF main.load THEN "refresh" ELSE "seed") /\ main'.keys = main.keys
        /\ main'.load = main.load /\ main'.w = main.w /\ main'.pos = main.pos /\ main'.read = main.read
        /\ main' \in MainState
    BY <1>3, <1>7, Zenon DEF MainState
  <2>2. ASSUME NEW w \in Worker
        PROVE  /\ ws'[w] \in WorkerState /\ ws'[w].pc = "seed" /\ ws'[w].rpc = NoTx
               /\ ws'[w].objects = ws[w].objects /\ ws'[w].gas_coin = ws[w].gas_coin
               /\ ws'[w].remaining = IF main.load THEN 0 ELSE SeedObjects
    <3> DEFINE n == IF main.load THEN 0 ELSE SeedObjects
    <3>1. n \in 0..SeedObjects
      BY <1>5
    <3>2. ws'[w] = [ws[w] EXCEPT !.pc = "seed", !.remaining = n]
      BY <1>7, Zenon
    <3>3. ws[w] \in WorkerState /\ ws[w].rpc = NoTx
      BY <1>1, <1>4, WorkerType, Zenon DEF FaucetInv
    <3> HIDE DEF n
    <3>4. /\ ws'[w] \in WorkerState /\ ws'[w].pc = "seed" /\ ws'[w].rpc = ws[w].rpc
          /\ ws'[w].objects = ws[w].objects /\ ws'[w].gas_coin = ws[w].gas_coin /\ ws'[w].remaining = n
      BY <3>1, <3>2, <3>3, Zenon DEF WorkerState
    <3> QED
      BY <3>3, <3>4, Zenon DEF n
  <2>3. ws' \in [Worker -> WorkerState]
    BY <1>7, <2>2, Zenon
  <2>4. RunType'
    <3>1. (main'.keys = 0) = (main'.stage = "down")
      BY <1>3, <2>1, Zenon
    <3>2. unseen' \in BOOLEAN /\ used' = used
      BY <1>1, <1>7, Zenon DEF RunType
    <3> QED
      BY <1>1, <1>2, <2>1, <2>3, <3>1, <3>2, Zenon DEF RunType
  <2>5. RunInv'
    <3>1. used' = used /\ main.w = 1
      BY <1>1, <1>2, <1>7, Zenon DEF RunInv
    <3>2. main.keys <= used.fresh /\ (main.load => main.keys = file.keys)
          /\ (~main.load => file.keys < main.keys /\ main.keys = used.fresh)
      BY <1>1, <1>2, Zenon DEF RunInv
    <3>3. CASE main.load
      BY <1>2, <1>5, <2>1, <3>1, <3>2, <3>3, Zenon DEF RunInv
    <3>4. CASE ~main.load
      BY <1>2, <2>1, <3>1, <3>2, <3>4, Zenon DEF RunInv
    <3> QED
      BY <3>3, <3>4, Zenon
  <2>6. ASSUME NEW w \in Worker
        PROVE  GasOwned(w)' /\ ((main.load /\ unseen') \/ GasCurrent(w)')
    <3>1. GasOwned(w) /\ ((main.load /\ unseen) \/ GasCurrent(w))
      BY <1>4, <1>7, Zenon DEF FaucetInv
    <3>2. coins' = coins /\ unseen' = unseen /\ main'.keys = main.keys /\ ws'[w].gas_coin = ws[w].gas_coin
      BY <1>7, <2>1, <2>2, Zenon DEF ledgerVars
    <3>3. GasOwned(w)'
      BY <3>1, <3>2, Zenon DEF GasOwned
    <3>4. GasCurrent(w)' <=> GasCurrent(w)
      BY <3>2, Zenon DEF GasCurrent
    <3> QED
      BY <3>1, <3>2, <3>3, <3>4, Zenon
  <2>7. CASE main.load
    <3>1. main'.stage = "refresh" /\ main'.w = 1 /\ main'.pos = 1 /\ main'.read = <<>>
      BY <1>1, <1>2, <2>1, <2>7, Zenon DEF RunInv
    <3>2. ASSUME NEW w \in Worker
          PROVE  RefreshInv(w)'
      <4>1. ws'[w].objects = file'.objects[w]
        BY <1>2, <1>4, <2>2, <2>7, ZenonT(30) DEF FaucetInv
      <4>2. ~(w < main'.w)
        BY <3>1 DEF Worker
      <4>3. DOMAIN main'.read = {}
        BY <3>1
      <4>4. Refreshed(w, main.read)'
        BY <4>3, Zenon DEF Refreshed, DistinctIds, OwnedBy, CurrentFor
      <4>5. unseen' \/ GasCurrent(w)'
        BY <2>6, Zenon
      <4> QED
        BY <2>2, <2>6, <4>1, <4>2, <4>3, <4>4, <4>5, Zenon DEF RefreshInv
    <3> QED
      BY <1>2, <1>7, <2>4, <2>5, <3>1, <3>2, Zenon DEF WorkerInv
  <2>8. CASE ~main.load
    <3>1. main'.stage = "seed"
      BY <2>1, <2>8, Zenon
    <3>2. ASSUME NEW w \in Worker
          PROVE  SeedInv(w)'
      <4>1. net'[main'.keys][w] = {} /\ done'[main'.keys][w].tx.coin.id = 0 /\ ws'[w].objects = <<>>
        <5>1. net[main.keys][w] = {} /\ done[main.keys][w].tx.coin.id = 0 /\ ws[w].objects = <<>>
          BY <1>4, <2>8, Zenon DEF FaucetInv
        <5>2. net' = net /\ done' = done
          BY <1>7, Zenon DEF ledgerVars
        <5> QED
          BY <2>1, <2>2, <5>1, <5>2, Zenon
      <4>2. IdleInv(w)'
        BY <2>6, <2>8, <4>1, Zenon DEF IdleInv
      <4>3. Seeded(w)' = 0
        BY <1>5, <2>2, <2>8 DEF Seeded
      <4>4. DOMAIN ws'[w].objects = {} /\ Len(ws'[w].objects) = 0
        BY <4>1
      <4>5. Smaller(Seeded(w)', MaxTracked) = 0
        BY <1>5, <4>3 DEF Smaller
      <4>6. SeedListInv(w)'
        BY <4>4, <4>5 DEF SeedListInv, DistinctIds, OwnedBy, CurrentFor
      <4> QED
        BY <2>2, <4>2, <4>6, Zenon DEF SeedInv
    <3> QED
      BY <1>2, <1>7, <2>4, <2>5, <3>1, <3>2, Zenon DEF WorkerInv
  <2> QED
    BY <1>3, <2>7, <2>8, Zenon
<1>8. CASE /\ \A w \in Worker : ws[w].pc # "failed"
           /\ \E w \in Worker : ws[w].pc = "wait"
           /\ main' = [main EXCEPT !.chunk = @ + 1]
           /\ ws' = [w \in Worker |-> IF w \in Chunk(main.chunk + 1, main.load)
                                      THEN [ws[w] EXCEPT !.pc = "post"] ELSE ws[w]]
           /\ UNCHANGED <<ledgerVars, used, unseen>>
  <2>1. /\ main'.stage = main.stage /\ main'.keys = main.keys
        /\ main'.load = main.load /\ main'.w = main.w /\ main'.pos = main.pos /\ main'.read = main.read
        /\ main' \in MainState
    BY <1>3, <1>8 DEF MainState
  <2>2. ASSUME NEW w \in Worker
        PROVE  /\ ws'[w] \in WorkerState /\ ws'[w].pc \in {"post", ws[w].pc} /\ ws'[w].rpc = NoTx
               /\ ws'[w].objects = ws[w].objects /\ ws'[w].gas_coin = ws[w].gas_coin
    <3>1. ws'[w] = [ws[w] EXCEPT !.pc = "post"] \/ ws'[w] = ws[w]
      BY <1>8, Zenon
    <3>2. ws[w] \in WorkerState /\ ws[w].rpc = NoTx
      BY <1>1, <1>4, WorkerType, Zenon DEF FaucetInv
    <3>3. CASE ws'[w] = ws[w]
      BY <3>2, <3>3, Zenon
    <3>4. CASE ws'[w] = [ws[w] EXCEPT !.pc = "post"]
      <4>1. /\ ws'[w] \in WorkerState /\ ws'[w].pc = "post" /\ ws'[w].rpc = ws[w].rpc
            /\ ws'[w].objects = ws[w].objects /\ ws'[w].gas_coin = ws[w].gas_coin
        BY <3>2, <3>4, Zenon DEF WorkerState
      <4> QED
        BY <3>2, <4>1, Zenon
    <3> QED
      BY <3>1, <3>3, <3>4, Zenon
  <2>3. ws' \in [Worker -> WorkerState]
    <3>1. ws' = [w \in Worker |-> ws'[w]]
      BY <1>8, Zenon
    <3> QED
      BY <2>2, <3>1, Zenon
  <2>4. RunType'
    <3>1. (main'.keys = 0) = (main'.stage = "down")
      BY <1>2, <1>3, <2>1, Zenon
    <3>2. unseen' \in BOOLEAN /\ used' = used
      BY <1>1, <1>8, Zenon DEF RunType
    <3> QED
      BY <1>1, <1>2, <2>1, <2>3, <3>1, <3>2, Zenon DEF RunType
  <2>5. RunInv'
    BY <1>1, <1>2, <1>8, <2>1, Zenon DEF RunInv
  <2>6. ASSUME NEW w \in Worker
        PROVE  FaucetInv(w)'
    <3>1. FaucetInv(w)
      BY <1>4, Zenon
    <3>2. /\ coins' = coins /\ net' = net /\ done' = done /\ unseen' = unseen
          /\ main'.keys = main.keys /\ ws'[w].gas_coin = ws[w].gas_coin
      BY <1>8, <2>1, <2>2, Zenon DEF ledgerVars
    <3>3. GasOwned(w) => GasOwned(w)'
      BY <3>2, Zenon DEF GasOwned
    <3>4. GasCurrent(w)' <=> GasCurrent(w)
      BY <3>2, Zenon DEF GasCurrent
    <3>5. ws'[w].pc = "funded" => GasOwned(w)' /\ ((main'.load /\ unseen') \/ GasCurrent(w)')
      BY <2>1, <2>2, <3>1, <3>2, <3>3, <3>4, Zenon DEF FaucetInv
    <3> QED
      BY <1>2, <2>1, <2>2, <3>1, <3>2, <3>5, Zenon DEF FaucetInv
  <2> QED
    BY <1>2, <1>8, <2>1, <2>4, <2>5, <2>6, Zenon DEF WorkerInv
<1> QED
  BY <1>6, <1>7, <1>8, Zenon DEF EndChunk

\* The seed tasks are all in: an error ends the run, or it measures.
LEMMA EndSeedStep ==
    ASSUME IInv, EndSeed
    PROVE  RunType' /\ RunInv' /\ UNCHANGED <<ledgerVars, used, file>> /\ \A w \in Worker : WorkerInv(w)'
<1>1. RunType /\ RunInv /\ \A w \in Worker : WorkerInv(w)
  BY TypeParts, Zenon DEF IInv
<1>2. main.stage = "seed" /\ file' = file
  BY Zenon DEF EndSeed
<1>3. main.keys \in Key /\ main \in MainState /\ main.keys # 0
  BY <1>1, <1>2, MainType, Zenon DEF RunType
<1>4. \A w \in Worker : SeedInv(w)
  BY <1>1, <1>2, Zenon DEF WorkerInv
<1>5. SeedObjects \in Nat
  BY CountAssumption, Zenon
<1>6. CASE Quit
  <2>1. file' \in [kind : {"none", "torn", "saved"}, keys : 0..MaxFresh,
                   objects : [Worker -> Seq(TrackedObject)]]
    BY <1>1, <1>2, Zenon DEF RunType
  <2> QED
    BY <1>2, <1>6, <2>1, RunDown, Zenon
<1>7. CASE /\ \A w \in Worker : ws[w].pc = "ready"
           /\ main' = [main EXCEPT !.stage = "measure"]
           /\ UNCHANGED <<ledgerVars, ws, used, unseen>>
  <2>1. /\ main'.stage = "measure" /\ main'.keys = main.keys /\ main'.load = main.load
        /\ main' \in MainState
    BY <1>3, <1>7, Zenon DEF MainState
  <2>2. ws' = ws /\ used' = used /\ unseen' = unseen /\ coins' = coins /\ owned' = owned
    BY <1>7, Zenon DEF ledgerVars
  <2>3. RunType'
    BY <1>1, <1>2, <1>3, <2>1, <2>2, Zenon DEF RunType
  <2>4. RunInv'
    BY <1>1, <1>2, <2>1, <2>2, Zenon DEF RunInv
  <2>5. ASSUME NEW w \in Worker
        PROVE  MeasureInv(w)'
    <3>1. ws[w].pc = "ready" /\ ws[w].rpc = NoTx /\ IdleInv(w) /\ SeedListInv(w) /\ ws[w].remaining = 0
      BY <1>4, <1>7, Zenon DEF SeedInv
    <3>2. GasOwned(w)' /\ GasCurrent(w)'
      BY <2>1, <2>2, <3>1, Zenon DEF IdleInv, GasOwned, GasCurrent
    <3>3. DistinctIds(ws[w].objects)' /\ OwnedBy(w, ws[w].objects)' /\ CurrentFor(w, ws[w].objects)'
      BY <2>1, <2>2, <3>1, Zenon DEF SeedListInv, DistinctIds, OwnedBy, CurrentFor
    <3>4. Seeded(w) = SeedObjects
      BY <1>5, <3>1 DEF Seeded
    <3>5. used'.faults = 0 => Len(ws'[w].objects) >= Smaller(SeedObjects, MaxTracked)
      BY <2>2, <3>1, <3>4, Zenon DEF SeedListInv
    <3> QED
      BY <2>2, <3>1, <3>2, <3>3, <3>5, Zenon DEF MeasureInv
  <2> QED
    BY <1>2, <1>7, <2>1, <2>3, <2>4, <2>5, Zenon DEF WorkerInv
<1> QED
  BY <1>6, <1>7, Zenon DEF EndSeed

\* One object is looked up: it joins the list with the version it has, or it is gone.
LEMMA RefreshReadStep ==
    ASSUME IInv, RefreshRead
    PROVE  /\ RunType' /\ RunInv' /\ UNCHANGED <<ledgerVars, used, file>> /\ main'.stage = "refresh"
           /\ \A w \in Worker : WorkerInv(w)'
<1> DEFINE u == main.w
           k == main.keys
           list == ws[u].objects
           r == list[main.pos]
           mine == owned[k][u]
           read == main.read \o Fetched(u, r)
<1>1. LedgerType /\ RunType /\ RunInv /\ FileInv /\ \A w \in Worker : WorkerInv(w)
  BY TypeParts, Zenon DEF IInv
<1>2. /\ main.stage = "refresh" /\ main.pos <= Len(list)
      /\ main' = [main EXCEPT !.pos = @ + 1, !.read = read]
      /\ UNCHANGED <<ledgerVars, file, ws, used, unseen>>
  BY Zenon DEF RefreshRead
<1>3. main \in MainState /\ k \in Key /\ k # 0 /\ u \in Worker /\ main.pos \in Nat \ {0}
      /\ main.read \in Seq(TrackedObject)
  BY <1>1, <1>2, MainType, Zenon DEF RunType, RunInv
<1>4. \A w \in Worker : RefreshInv(w)
  BY <1>1, <1>2, Zenon DEF WorkerInv
<1>5. list \in Seq(TrackedObject) /\ main.pos \in DOMAIN list /\ r \in TrackedObject
      /\ r.id \in Nat \ {0}
  <2>1. list \in Seq(TrackedObject)
    BY <1>1, <1>3, WorkerType, Zenon
  <2>2. main.pos \in DOMAIN list
    BY <1>2, <1>3, <2>1
  <2> QED
    BY <2>1, <2>2, EntryType, Zenon
<1>6. \A i \in DOMAIN mine : mine[i] \in Nat
  BY <1>1, <1>3, AddressType, Zenon
<1>7. /\ Refreshed(u, main.read) /\ list = file.objects[u] /\ DistinctIds(list)
      /\ \A i \in DOMAIN main.read : \E j \in DOMAIN list : j < main.pos /\ main.read[i].id = list[j].id
  <2>1. u <= u
    BY <1>3 DEF Worker
  <2>2. RefreshInv(u)
    BY <1>3, <1>4, Zenon
  <2>3. list = file.objects[u]
    BY <2>1, <2>2, Zenon DEF RefreshInv
  <2>4. DistinctIds(list)
    BY <1>1, <1>3, <2>3, Zenon DEF FileInv
  <2> QED
    BY <2>2, <2>3, <2>4, Zenon DEF RefreshInv
<1>8. /\ read \in Seq(TrackedObject)
      /\ \A i \in DOMAIN read : \/ i \in DOMAIN main.read /\ read[i] = main.read[i]
                                \/ /\ i = Len(main.read) + 1 /\ r.id \in DOMAIN mine
                                   /\ read[i].id = r.id /\ read[i].version = mine[r.id]
  <2>1. CASE r.id \in DOMAIN mine
    <3> DEFINE e == [id |-> r.id, version |-> mine[r.id]]
    <3>1. e \in TrackedObject /\ e.id = r.id /\ e.version = mine[r.id]
      BY <1>5, <1>6, <2>1, Zenon DEF TrackedObject
    <3>2. Fetched(u, r) = <<e>>
      BY <2>1, Zenon DEF Fetched
    <3> HIDE DEF e, r, mine
    <3>3. read = main.read \o <<e>>
      BY <3>2, Zenon
    <3>4. /\ read \in Seq(TrackedObject) /\ Len(read) = Len(main.read) + 1
          /\ \A i \in 1..Len(main.read) : read[i] = main.read[i]
          /\ read[Len(main.read) + 1] = e
      BY <1>3, <3>1, <3>3
    <3> HIDE DEF read
    <3>5. \A i \in DOMAIN read : i \in DOMAIN main.read \/ i = Len(main.read) + 1
      BY <1>3, <3>4
    <3>6. DOMAIN main.read = 1..Len(main.read)
      BY <1>3
    <3> QED
      BY <2>1, <3>1, <3>4, <3>5, <3>6, Zenon
  <2>2. CASE r.id \notin DOMAIN mine
    <3>1. Fetched(u, r) = <<>>
      BY <2>2, Zenon DEF Fetched
    <3>2. read = main.read
      BY <1>3, <3>1
    <3> QED
      BY <1>3, <3>2, Zenon
  <2> QED
    BY <2>1, <2>2, Zenon
<1> HIDE DEF read
<1>9. /\ main'.stage = "refresh" /\ main'.keys = k /\ main'.load = main.load /\ main'.w = u
      /\ main'.pos = main.pos + 1 /\ main'.read = read /\ main' \in MainState
  <2>1. main.pos + 1 \in Nat \ {0} /\ main' = [main EXCEPT !.pos = main.pos + 1, !.read = read]
    BY <1>2, <1>3
  <2>2. main' \in MainState
    BY <1>3, <1>8, <2>1, Zenon DEF MainState
  <2> QED
    BY <1>2, <1>3, <2>1, <2>2, Zenon DEF MainState
<1>10. ws' = ws /\ used' = used /\ unseen' = unseen /\ coins' = coins /\ owned' = owned /\ file' = file
  BY <1>2, Zenon DEF ledgerVars
<1>11. RunType'
  BY <1>1, <1>3, <1>9, <1>10, Zenon DEF RunType
<1>12. RunInv'
  BY <1>1, <1>2, <1>9, <1>10, Zenon DEF RunInv
<1>13. Refreshed(u, read)
  <2>1. /\ DistinctIds(main.read) /\ OwnedBy(u, main.read) /\ (unseen \/ CurrentFor(u, main.read))
        /\ \A i \in DOMAIN main.read : \E j \in DOMAIN file.objects[u] :
              main.read[i].id = file.objects[u][j].id
    BY <1>7, Zenon DEF Refreshed
  <2>2. ASSUME NEW i \in DOMAIN main.read
        PROVE  main.read[i].id # r.id
    <3>1. PICK j \in DOMAIN list : j < main.pos /\ main.read[i].id = list[j].id
      BY <1>7, Zenon
    <3>2. list[j].id = r.id => j = main.pos
      BY <1>5, <1>7, Zenon DEF DistinctIds
    <3> QED
      BY <1>3, <1>5, <3>1, <3>2
  <2>3. DistinctIds(read)
    <3> SUFFICES ASSUME NEW i \in DOMAIN read, NEW j \in DOMAIN read, read[i].id = read[j].id
                 PROVE  i = j
      BY Zenon DEF DistinctIds
    <3>1. CASE i \in DOMAIN main.read /\ read[i] = main.read[i] /\ j \in DOMAIN main.read /\ read[j] = main.read[j]
      BY <2>1, <3>1, Zenon DEF DistinctIds
    <3>2. CASE i = Len(main.read) + 1 /\ j = Len(main.read) + 1
      BY <3>2, Zenon
    <3>3. CASE i \in DOMAIN main.read /\ read[i] = main.read[i] /\ read[j].id = r.id
      BY <2>2, <3>3, Zenon
    <3>4. CASE j \in DOMAIN main.read /\ read[j] = main.read[j] /\ read[i].id = r.id
      BY <2>2, <3>4, Zenon
    <3> QED
      BY <1>8, <3>1, <3>2, <3>3, <3>4, Zenon
  <2>4. OwnedBy(u, read)
    <3> SUFFICES ASSUME NEW i \in DOMAIN read
                 PROVE  read[i].id \in DOMAIN mine /\ read[i].version <= mine[read[i].id]
      BY Zenon DEF OwnedBy
    <3>1. CASE i \in DOMAIN main.read /\ read[i] = main.read[i]
      BY <2>1, <3>1, Zenon DEF OwnedBy
    <3>2. CASE r.id \in DOMAIN mine /\ read[i].id = r.id /\ read[i].version = mine[r.id]
      <4>1. mine[r.id] \in Nat
        BY <1>6, <3>2, Zenon
      <4> HIDE DEF mine, r
      <4>2. mine[r.id] <= mine[r.id]
        BY <4>1
      <4> QED
        BY <3>2, <4>2, Zenon
    <3> QED
      BY <1>8, <3>1, <3>2, Zenon
  <2>5. unseen \/ CurrentFor(u, read)
    <3> SUFFICES ASSUME CurrentFor(u, main.read), NEW i \in DOMAIN read
                 PROVE  read[i].version = mine[read[i].id]
      BY <2>1, Zenon DEF CurrentFor
    <3> QED
      BY <1>8, Zenon DEF CurrentFor
  <2>6. \A i \in DOMAIN read : \E j \in DOMAIN file.objects[u] : read[i].id = file.objects[u][j].id
    <3> HIDE DEF list, r
    <3>1. r.id = list[main.pos].id /\ main.pos \in DOMAIN list
      BY <1>5, Zenon DEF r
    <3> QED
      <4> SUFFICES ASSUME NEW i \in DOMAIN read
                   PROVE  \E j \in DOMAIN file.objects[u] : read[i].id = file.objects[u][j].id
        BY Zenon
      <4>1. CASE i \in DOMAIN main.read /\ read[i] = main.read[i]
        BY <2>1, <4>1, Zenon
      <4>2. CASE read[i].id = r.id
        BY <1>7, <3>1, <4>2, Zenon
      <4> QED
        BY <1>8, <4>1, <4>2, Zenon
  <2> QED
    BY <2>1, <2>3, <2>4, <2>5, <2>6, Zenon DEF Refreshed
<1>14. \A i \in DOMAIN read : \E j \in DOMAIN list : j < main.pos + 1 /\ read[i].id = list[j].id
  <2> SUFFICES ASSUME NEW i \in DOMAIN read
               PROVE  \E j \in DOMAIN list : j < main.pos + 1 /\ read[i].id = list[j].id
    BY Zenon
  <2>1. CASE i \in DOMAIN main.read /\ read[i] = main.read[i]
    <3>1. PICK j \in DOMAIN list : j < main.pos /\ main.read[i].id = list[j].id
      BY <1>7, <2>1, Zenon
    <3>2. j < main.pos + 1
      BY <1>3, <1>5, <3>1
    <3> QED
      BY <2>1, <3>1, <3>2, Zenon
  <2>2. CASE read[i].id = r.id
    <3>1. main.pos < main.pos + 1
      BY <1>3
    <3> QED
      BY <1>5, <2>2, <3>1, Zenon
  <2> QED
    BY <1>8, <2>1, <2>2, Zenon
<1>15. ASSUME NEW w \in Worker
       PROVE  RefreshInv(w)'
  <2>1. RefreshInv(w)
    BY <1>4, Zenon
  <2>2. GasOwned(w)' /\ (unseen' \/ GasCurrent(w)')
    BY <1>9, <1>10, <2>1, Zenon DEF RefreshInv, GasOwned, GasCurrent
  <2>3. owned'[main'.keys] = owned[k] /\ unseen' = unseen /\ file' = file
    BY <1>9, <1>10, Zenon
  <2>4. ASSUME w < u
        PROVE  Refreshed(w, ws[w].objects)'
    <3>1. Refreshed(w, ws[w].objects)
      BY <2>1, <2>4, Zenon DEF RefreshInv
    <3>2. DistinctIds(ws[w].objects)' /\ OwnedBy(w, ws[w].objects)'
      BY <1>10, <2>3, <3>1, Zenon DEF Refreshed, DistinctIds, OwnedBy
    <3>3. unseen' \/ CurrentFor(w, ws[w].objects)'
      <4>1. unseen \/ CurrentFor(w, ws[w].objects)
        BY <3>1, Zenon DEF Refreshed
      <4>2. CurrentFor(w, ws[w].objects) => CurrentFor(w, ws[w].objects)'
        BY <1>10, <2>3, Zenon DEF CurrentFor
      <4> QED
        BY <2>3, <4>1, <4>2, Zenon
    <3>4. \A i \in DOMAIN ws'[w].objects : \E j \in DOMAIN file'.objects[w] :
             ws'[w].objects[i].id = file'.objects[w][j].id
      BY <1>10, <3>1, Zenon DEF Refreshed
    <3> QED
      BY <3>2, <3>3, <3>4, Zenon DEF Refreshed
  <2>5. ASSUME w = u
        PROVE  Refreshed(w, main.read)'
    <3>0. Refreshed(w, read) /\ main'.read = read
      BY <1>9, <1>13, <2>5, Zenon
    <3>2. DistinctIds(main.read)' /\ OwnedBy(w, main.read)'
      BY <2>3, <3>0, Zenon DEF Refreshed, DistinctIds, OwnedBy
    <3>3. unseen' \/ CurrentFor(w, main.read)'
      <4>1. unseen \/ CurrentFor(w, read)
        BY <3>0, Zenon DEF Refreshed
      <4>2. CurrentFor(w, read) => CurrentFor(w, main.read)'
        BY <2>3, <3>0, Zenon DEF CurrentFor
      <4> QED
        BY <2>3, <4>1, <4>2, Zenon
    <3>4. \A i \in DOMAIN main'.read : \E j \in DOMAIN file'.objects[w] :
             main'.read[i].id = file'.objects[w][j].id
      BY <2>3, <3>0, Zenon DEF Refreshed
    <3> QED
      BY <3>2, <3>3, <3>4, Zenon DEF Refreshed
  <2>6. w = u => \A i \in DOMAIN main'.read : \E j \in DOMAIN ws'[w].objects :
                    j < main'.pos /\ main'.read[i].id = ws'[w].objects[j].id
    BY <1>9, <1>10, <1>14
  <2>7. ws'[w].pc = "seed" /\ ws'[w].rpc = NoTx /\ (u <= w => ws'[w].objects = file'.objects[w])
    BY <1>10, <2>1, Zenon DEF RefreshInv
  <2> QED
    BY <1>9, <2>2, <2>4, <2>5, <2>6, <2>7, Zenon DEF RefreshInv
<1> QED
  BY <1>2, <1>9, <1>11, <1>12, <1>15, Zenon DEF WorkerInv

\* A worker's list is replaced by what was read; after the last one the run measures.
LEMMA RefreshDoneStep ==
    ASSUME IInv, RefreshDone
    PROVE  /\ RunType' /\ RunInv' /\ UNCHANGED <<ledgerVars, used, file>>
           /\ \A w \in Worker : WorkerInv(w)'
           /\ main.stage = "refresh" /\ main'.stage \in {"refresh", "measure"}
           /\ main'.stage = "measure" => \A w \in Worker : Refreshed(w, ws[w].objects)'
<1> DEFINE u == main.w
           k == main.keys
<1>1. LedgerType /\ RunType /\ RunInv /\ FileInv /\ \A w \in Worker : WorkerInv(w)
  BY TypeParts, Zenon DEF IInv
<1>2. /\ main.stage = "refresh"
      /\ ws' = [ws EXCEPT ![u].objects = main.read]
      /\ main' = [main EXCEPT !.stage = IF u = Workers THEN "measure" ELSE "refresh",
                              !.w = @ + 1, !.pos = 1, !.read = <<>>]
      /\ UNCHANGED <<ledgerVars, file, used, unseen>>
  BY Zenon DEF RefreshDone
<1>3. /\ main \in MainState /\ k \in Key /\ k # 0 /\ u \in Worker /\ main.load
      /\ main.read \in Seq(TrackedObject) /\ u \in Nat \ {0} /\ Workers \in Nat \ {0}
  BY <1>1, <1>2, MainType, CountAssumption, Zenon DEF RunType, RunInv
<1>4. \A w \in Worker : RefreshInv(w)
  BY <1>1, <1>2, Zenon DEF WorkerInv
<1>5. /\ main'.stage = (IF u = Workers THEN "measure" ELSE "refresh")
      /\ main'.keys = k /\ main'.load = main.load /\ main'.w = u + 1
      /\ main'.pos = 1 /\ main'.read = <<>> /\ main' \in MainState
  <2> DEFINE next == IF u = Workers THEN "measure" ELSE "refresh"
             v == u + 1
  <2>1. v \in Nat \ {0} /\ next \in {"measure", "refresh"} /\ <<>> \in Seq(TrackedObject)
    BY <1>3
  <2>2. main' = [main EXCEPT !.stage = next, !.w = v, !.pos = 1, !.read = <<>>]
    BY <1>2, Zenon
  <2> HIDE DEF next, v
  <2>3. main' \in MainState
    <3>1. /\ main.keys \in 0..MaxFresh /\ main.load \in BOOLEAN /\ main.chunk \in Nat
          /\ main' = [stage |-> next, keys |-> main.keys, load |-> main.load, chunk |-> main.chunk,
                      w |-> v, pos |-> 1, read |-> <<>>]
      BY <1>3, <2>2, Zenon DEF MainState
    <3>2. next \in {"down", "faucet", "seed", "refresh", "measure", "saving"} /\ 1 \in Nat \ {0}
      BY <2>1
    <3> QED
      BY <2>1, <3>1, <3>2, Zenon DEF MainState
  <2>4. /\ main'.stage = next /\ main'.keys = k /\ main'.load = main.load /\ main'.w = v
        /\ main'.pos = 1 /\ main'.read = <<>>
    BY <1>3, <2>2, Zenon DEF MainState
  <2> QED
    BY <2>3, <2>4, Zenon DEF next, v
<1>6. used' = used /\ unseen' = unseen /\ coins' = coins /\ owned' = owned /\ file' = file
  BY <1>2, Zenon DEF ledgerVars
<1>7. ASSUME NEW w \in Worker
      PROVE  /\ ws'[w] \in WorkerState /\ ws'[w].pc = ws[w].pc /\ ws'[w].rpc = ws[w].rpc
             /\ ws'[w].gas_coin = ws[w].gas_coin
             /\ w = u => ws'[w].objects = main.read
             /\ w # u => ws'[w].objects = ws[w].objects
  <2>1. ws[w] \in WorkerState /\ ws \in [Worker -> WorkerState]
    BY <1>1, WorkerType, Zenon DEF RunType
  <2>2. CASE w = u
    <3>1. ws'[w] = [ws[w] EXCEPT !.objects = main.read]
      BY <1>2, <2>1, <2>2, Zenon
    <3> QED
      BY <1>3, <2>1, <2>2, <3>1, ZenonT(30) DEF WorkerState
  <2>3. CASE w # u
    <3>1. ws'[w] = ws[w]
      BY <1>2, <2>1, <2>3, Zenon
    <3> QED
      BY <2>1, <2>3, <3>1, Zenon
  <2> QED
    BY <2>2, <2>3, Zenon
<1>8. ws' \in [Worker -> WorkerState]
  <2>1. ws' = [w \in Worker |-> ws'[w]]
    BY <1>1, <1>2, Zenon DEF RunType
  <2> QED
    BY <1>7, <2>1, Zenon
<1>9. RunType'
  <2>1. (main'.keys = 0) = (main'.stage = "down")
    BY <1>3, <1>5, Zenon
  <2> QED
    BY <1>1, <1>5, <1>6, <1>8, <2>1, Zenon DEF RunType
<1>10. RunInv'
  <2>1. u # Workers => u + 1 \in Worker
    BY <1>3 DEF Worker
  <2>2. main.keys <= used.fresh /\ main.keys = file.keys
    BY <1>1, <1>2, <1>3, Zenon DEF RunInv
  <2> QED
    BY <1>3, <1>5, <1>6, <2>1, <2>2, Zenon DEF RunInv
<1>11. ASSUME NEW w \in Worker, w <= u
       PROVE  Refreshed(w, ws[w].objects)'
  <2> DEFINE l == ws'[w].objects
  <2>1. Refreshed(w, l)
    <3>1. CASE w = u
      BY <1>4, <1>7, <3>1, Zenon DEF RefreshInv
    <3>2. CASE w # u
      <4>1. w < u
        BY <1>3, <1>11, <3>2 DEF Worker
      <4> QED
        BY <1>4, <1>7, <3>2, <4>1, Zenon DEF RefreshInv
    <3> QED
      BY <3>1, <3>2, Zenon
  <2>2. DistinctIds(ws[w].objects)' /\ OwnedBy(w, ws[w].objects)'
    BY <1>5, <1>6, <2>1, Zenon DEF Refreshed, DistinctIds, OwnedBy
  <2>3. unseen' \/ CurrentFor(w, ws[w].objects)'
    <3>1. unseen \/ CurrentFor(w, l)
      BY <2>1, Zenon DEF Refreshed
    <3>2. CurrentFor(w, l) => CurrentFor(w, ws[w].objects)'
      BY <1>5, <1>6, Zenon DEF CurrentFor
    <3> QED
      BY <1>6, <3>1, <3>2, Zenon
  <2>4. \A i \in DOMAIN ws'[w].objects : \E j \in DOMAIN file'.objects[w] :
           ws'[w].objects[i].id = file'.objects[w][j].id
    BY <1>6, <2>1, Zenon DEF Refreshed
  <2> QED
    BY <2>2, <2>3, <2>4, Zenon DEF Refreshed
<1>12. ASSUME NEW w \in Worker
       PROVE  /\ ws'[w].pc = "seed" /\ ws'[w].rpc = NoTx
              /\ GasOwned(w)' /\ (unseen' \/ GasCurrent(w)')
  <2>1. /\ ws[w].pc = "seed" /\ ws[w].rpc = NoTx /\ GasOwned(w) /\ (unseen \/ GasCurrent(w))
    BY <1>4, Zenon DEF RefreshInv
  <2>2. GasOwned(w)' /\ (GasCurrent(w) => GasCurrent(w)')
    BY <1>5, <1>6, <1>7, <2>1, Zenon DEF GasOwned, GasCurrent
  <2> QED
    BY <1>6, <1>7, <2>1, <2>2, Zenon
<1>13. CASE u = Workers
  <2>1. main'.stage = "measure"
    BY <1>5, <1>13, Zenon
  <2>2. ASSUME NEW w \in Worker
        PROVE  MeasureInv(w)' /\ Refreshed(w, ws[w].objects)'
    <3>1. w <= u
      BY <1>13 DEF Worker
    <3>2. Refreshed(w, ws[w].objects)'
      BY <1>11, <3>1, Zenon
    <3>3. /\ DistinctIds(ws[w].objects)' /\ OwnedBy(w, ws[w].objects)'
          /\ (unseen' \/ CurrentFor(w, ws[w].objects)')
      BY <3>2, Zenon DEF Refreshed
    <3> QED
      BY <1>3, <1>5, <1>12, <3>2, <3>3, Zenon DEF MeasureInv
  <2> QED
    BY <1>2, <1>9, <1>10, <2>1, <2>2, Zenon DEF WorkerInv
<1>14. CASE u # Workers
  <2>1. main'.stage = "refresh"
    BY <1>5, <1>14, Zenon
  <2>2. ASSUME NEW w \in Worker
        PROVE  RefreshInv(w)'
    <3>1. w \in Nat /\ (u + 1 <= w => u <= w /\ w # u) /\ (w < u + 1 => w <= u)
      BY <1>3 DEF Worker
    <3>2. main'.w <= w => ws'[w].objects = file'.objects[w]
      BY <1>4, <1>5, <1>6, <1>7, <3>1, Zenon DEF RefreshInv
    <3>3. w < main'.w => Refreshed(w, ws[w].objects)'
      BY <1>5, <1>11, <3>1, Zenon
    <3>4. DOMAIN main'.read = {}
      BY <1>5
    <3>5. Refreshed(w, main.read)'
      BY <3>4, Zenon DEF Refreshed, DistinctIds, OwnedBy, CurrentFor
    <3> QED
      BY <1>12, <3>2, <3>3, <3>4, <3>5, Zenon DEF RefreshInv
  <2> QED
    BY <1>2, <1>9, <1>10, <2>1, <2>2, Zenon DEF WorkerInv
<1> QED
  BY <1>13, <1>14, Zenon

\* The save: the file is created empty, then written.
LEMMA SaveCreateStep ==
    ASSUME IInv, SaveCreate
    PROVE  RunType' /\ RunInv' /\ FileInv' /\ UNCHANGED <<ledgerVars, used>> /\ \A w \in Worker : WorkerInv(w)'
<1>1. RunType /\ RunInv /\ \A w \in Worker : WorkerInv(w)
  BY TypeParts, Zenon DEF IInv
<1>2. /\ main.stage = "measure" /\ main' = [main EXCEPT !.stage = "saving"]
      /\ file' = [NoFile EXCEPT !.kind = "torn"]
      /\ UNCHANGED <<ledgerVars, ws, used, unseen>>
  BY Zenon DEF SaveCreate
<1>3. main.keys \in Key /\ main \in MainState /\ main.keys # 0 /\ used.fresh \in Nat /\ MaxFresh \in Nat
  BY <1>1, <1>2, MainType, CountAssumption, Zenon DEF RunType
<1>4. main'.stage = "saving" /\ main'.keys = main.keys /\ main'.load = main.load /\ main' \in MainState
  BY <1>2, <1>3, Zenon DEF MainState
<1>5. ws' = ws /\ used' = used /\ unseen' = unseen /\ coins' = coins /\ owned' = owned
  BY <1>2, Zenon DEF ledgerVars
<1>6. file' = [kind |-> "torn", keys |-> 0, objects |-> Every(<<>>)]
  BY <1>2, Zenon DEF NoFile
<1>7. Every(<<>>) \in [Worker -> Seq(TrackedObject)] /\ \A w \in Worker : DOMAIN Every(<<>>)[w] = {}
  BY DEF Every
<1>8. RunType'
  <2>1. file' \in [kind : {"none", "torn", "saved"}, keys : 0..MaxFresh,
                   objects : [Worker -> Seq(TrackedObject)]]
    BY <1>3, <1>6, <1>7
  <2> QED
    BY <1>1, <1>3, <1>4, <1>5, <2>1, Zenon DEF RunType
<1>9. RunInv'
  BY <1>1, <1>4, <1>5, Zenon DEF RunInv
<1>10. FileInv'
  BY <1>3, <1>5, <1>6, <1>7 DEF FileInv, DistinctIds
<1>11. ASSUME NEW w \in Worker
       PROVE  MeasureInv(w)'
  <2>1. MeasureInv(w)
    BY <1>1, <1>2, Zenon DEF WorkerInv
  <2>2. GasOwned(w)' /\ (GasCurrent(w) => GasCurrent(w)')
    BY <1>4, <1>5, <2>1, Zenon DEF MeasureInv, GasOwned, GasCurrent
  <2>3. /\ DistinctIds(ws[w].objects)' /\ OwnedBy(w, ws[w].objects)'
        /\ (CurrentFor(w, ws[w].objects) => CurrentFor(w, ws[w].objects)')
    BY <1>4, <1>5, <2>1, Zenon DEF MeasureInv, DistinctIds, OwnedBy, CurrentFor
  <2> QED
    BY <1>4, <1>5, <2>1, <2>2, <2>3, Zenon DEF MeasureInv
<1> QED
  BY <1>2, <1>4, <1>8, <1>9, <1>10, <1>11, Zenon DEF WorkerInv

LEMMA SaveWriteStep ==
    ASSUME IInv, SaveWrite
    PROVE  RunType' /\ RunInv' /\ FileInv' /\ UNCHANGED <<ledgerVars, used>> /\ \A w \in Worker : WorkerInv(w)'
<1>1. RunType /\ RunInv /\ \A w \in Worker : WorkerInv(w)
  BY TypeParts, Zenon DEF IInv
<1>2. /\ main.stage = "saving" /\ Quit
      /\ file' = [kind |-> "saved", keys |-> main.keys, objects |-> [w \in Worker |-> ws[w].objects]]
  BY Zenon DEF SaveWrite
<1>3. main.keys \in 0..MaxFresh /\ main.keys # 0 /\ main.keys <= used.fresh
  BY <1>1, <1>2, Zenon DEF RunType, RunInv, MainState
<1>4. [w \in Worker |-> ws[w].objects] \in [Worker -> Seq(TrackedObject)]
  BY <1>1, WorkerType, Zenon
<1>5. file' \in [kind : {"none", "torn", "saved"}, keys : 0..MaxFresh, objects : [Worker -> Seq(TrackedObject)]]
  BY <1>2, <1>3, <1>4, Zenon
<1>6. RunType' /\ RunInv' /\ UNCHANGED <<ledgerVars, used>> /\ \A w \in Worker : WorkerInv(w)'
  BY <1>2, <1>5, RunDown, Zenon
<1>7. \A w \in Worker : DistinctIds(ws[w].objects)
  BY <1>1, <1>2, Zenon DEF WorkerInv, MeasureInv
<1>8. FileInv'
  BY <1>2, <1>3, <1>6, <1>7 DEF FileInv, DistinctIds
<1> QED
  BY <1>6, <1>8, Zenon
-----------------------------------------------------------------------------
(* The invariant *)

\* What holds of the run holds until its state, the file or the keys change.
LEMMA RunKept ==
    ASSUME RunInv, main' = main, file' = file, used'.fresh = used.fresh
    PROVE  RunInv'
BY Zenon DEF RunInv

LEMMA FileKept ==
    ASSUME IInv, file' = file, used'.fresh \in Nat, used.fresh <= used'.fresh
    PROVE  FileInv'
<1>1. file.keys \in Nat /\ used.fresh \in Nat
  BY TypeParts, MainType, Zenon DEF IInv
<1> QED
  BY <1>1 DEF IInv, FileInv, DistinctIds

\* A step of main leaves the ledger alone.
LEMMA MainStep ==
    ASSUME IInv, UNCHANGED ledgerVars, used.fresh <= used'.fresh, used'.faults = used.faults,
           RunType', RunInv', FileInv', \A w \in Worker : WorkerInv(w)'
    PROVE  IInv'
<1>1. LedgerType /\ RunType
  BY TypeParts, Zenon DEF IInv
<1>2. LedgerType' /\ \A k \in Key, w \in Worker : Same(k, w)
  <2>1. UNCHANGED <<coins, owned, net, done, nextId>> /\ owed' \in [Key -> [Worker -> Nat]]
    BY <1>1, Zenon DEF ledgerVars, LedgerType
  <2> QED
    BY <1>1, <2>1, QuietStep, Zenon
<1>3. TypeOK'
  <2>1. (LedgerType /\ RunType)' => TypeOK'
    BY TypeParts, PTL
  <2> QED
    BY <1>2, <2>1, Zenon
<1>4. used.fresh \in Nat /\ used'.fresh \in Nat
  <2>1. MaxFresh \in Nat
    BY CountAssumption, Zenon
  <2> QED
    BY <1>1, <2>1 DEF RunType
<1>5. \A k \in Key, w \in Worker : LedgerInv(k, w)'
  <2> SUFFICES ASSUME NEW k \in Key, NEW w \in Worker
               PROVE  LedgerInv(k, w)'
    BY Zenon
  <2>1. LedgerInv(k, w) /\ Same(k, w)
    BY <1>2, Zenon DEF IInv
  <2> QED
    BY <1>1, <1>4, <2>1, LedgerKept, Zenon
<1> QED
  BY <1>3, <1>5, Zenon DEF IInv

\* A step of worker w: its own part is given, the others' is unchanged.
LEMMA OwnStep ==
    ASSUME IInv, NEW w \in Worker, WorkerInv(w)', Others(w), LedgerType',
           used' \in [fresh : 0..MaxFresh, starts : Nat, work : Nat, faults : Nat, chains : Nat],
           used'.fresh = used.fresh, used'.faults = 0 => used.faults = 0, unseen' = unseen,
           \A j \in Key, x \in Worker : j # main.keys \/ x # w => Same(j, x),
           \A k \in Key : k = main.keys => LedgerInv(k, w)'
    PROVE  IInv'
<1>1. LedgerType /\ RunType /\ TypeOK
  BY TypeParts, Zenon DEF IInv
<1>2. main' = main /\ file' = file /\ ws' \in [Worker -> WorkerState] /\ \A x \in Worker : x # w => ws'[x] = ws[x]
  BY Zenon DEF Others
<1>3. used.fresh \in Nat /\ (main.stage # "down" => main.keys \in Key)
  BY <1>1, MainType, Zenon
<1>4. RunType'
  BY <1>1, <1>2, Zenon DEF RunType
<1>5. TypeOK'
  <2>1. (LedgerType /\ RunType)' => TypeOK'
    BY TypeParts, PTL
  <2> QED
    BY <1>4, <2>1, Zenon
<1>6. RunInv'
  <2>1. RunInv /\ used'.fresh = used.fresh
    BY Zenon DEF IInv
  <2> QED
    BY <1>2, <2>1, RunKept, Zenon
<1>7. FileInv'
  <2>1. used.fresh <= used'.fresh /\ used'.fresh \in Nat
    BY <1>3, NoMore, Zenon
  <2> QED
    BY <1>2, <2>1, FileKept, Zenon
<1>8. ASSUME NEW k \in Key, NEW x \in Worker
      PROVE  LedgerInv(k, x)'
  <2>1. CASE k = main.keys /\ x = w
    BY <2>1, Zenon
  <2>2. CASE k # main.keys \/ x # w
    <3>1. Same(k, x)
      BY <2>2, Zenon
    <3>2. LedgerInv(k, x)
      BY Zenon DEF IInv
    <3>3. used.fresh <= used'.fresh /\ used'.fresh \in Nat
      BY <1>3, NoMore, Zenon
    <3> QED
      BY <1>1, <1>3, <3>1, <3>2, <3>3, LedgerKept, Zenon
  <2> QED
    BY <2>1, <2>2, Zenon
<1>9. ASSUME NEW x \in Worker
      PROVE  WorkerInv(x)'
  <2>1. CASE x = w
    BY <2>1, Zenon
  <2>2. CASE x # w
    <3>1. main.stage # "down" => Same(main.keys, x)
      BY <1>3, <2>2, Zenon
    <3>2. main.stage # "down" => Stays(main.keys, x) /\ Grows(main.keys, x)
      BY <1>1, <1>3, <3>1, AllStay, Zenon
    <3>3. main.stage \in {"faucet", "seed"} => net'[main.keys][x] = net[main.keys][x]
      BY <3>1, Zenon DEF Same
    <3>4. WorkerInv(x) /\ ws'[x] = ws[x]
      BY <1>2, <2>2, Zenon DEF IInv
    <3> QED
      BY <1>1, <1>2, <3>2, <3>3, <3>4, StillStep, Zenon
  <2> QED
    BY <2>1, <2>2, Zenon
<1> QED
  BY <1>5, <1>6, <1>7, <1>8, <1>9, Zenon DEF IInv

\* A step of the ledger: the run sees nothing of it but an execution.
LEMMA LedgerStep ==
    ASSUME IInv, NEW k \in Key, NEW w \in Worker, UNCHANGED <<main, file, ws>>, LedgerType',
           used' \in [fresh : 0..MaxFresh, starts : Nat, work : Nat, faults : Nat, chains : Nat],
           used'.fresh = used.fresh, used'.faults = 0 => used.faults = 0,
           unseen' \in BOOLEAN, unseen => unseen', LedgerInv(k, w)',
           \A j \in Key, x \in Worker : j # k \/ x # w => Same(j, x),
           \/ Pays(k, w)
           \/ \E tx \in net[k][w], ok \in BOOLEAN :
                 Executes(k, w, tx, ok) /\ (k = main.keys /\ tx # ws[w].rpc => unseen')
    PROVE  IInv'
<1>1. LedgerType /\ RunType /\ TypeOK
  BY TypeParts, Zenon DEF IInv
<1>2. main' = main /\ file' = file /\ ws' = ws
  BY Zenon
<1>3. used.fresh \in Nat /\ (main.stage # "down" => main.keys \in Key)
  BY <1>1, MainType, Zenon
<1>4. RunType'
  BY <1>1, <1>2, Zenon DEF RunType
<1>5. TypeOK'
  <2>1. (LedgerType /\ RunType)' => TypeOK'
    BY TypeParts, PTL
  <2> QED
    BY <1>4, <2>1, Zenon
<1>6. RunInv'
  <2>1. RunInv
    BY Zenon DEF IInv
  <2>2. used'.fresh = used.fresh
    BY Zenon
  <2> QED
    BY <1>2, <2>1, <2>2, RunKept, Zenon
<1>7. FileInv'
  <2>1. used.fresh <= used'.fresh /\ used'.fresh \in Nat
    BY <1>3, NoMore, Zenon
  <2> QED
    BY <1>2, <2>1, FileKept, Zenon
<1>8. ASSUME NEW j \in Key, NEW x \in Worker
      PROVE  LedgerInv(j, x)'
  <2>1. CASE j = k /\ x = w
    BY <2>1, Zenon
  <2>2. CASE j # k \/ x # w
    <3>1. Same(j, x)
      BY <2>2, Zenon
    <3>2. LedgerInv(j, x)
      BY Zenon DEF IInv
    <3>3. used.fresh <= used'.fresh /\ used'.fresh \in Nat
      BY <1>3, NoMore, Zenon
    <3> QED
      BY <1>1, <1>3, <3>1, <3>2, <3>3, LedgerKept, Zenon
  <2> QED
    BY <2>1, <2>2, Zenon
<1>9. ASSUME NEW x \in Worker
      PROVE  WorkerInv(x)'
  <2>0. WorkerInv(x) /\ ws'[x] = ws[x]
    BY <1>2, Zenon DEF IInv
  <2>1. CASE main.stage = "down"
    BY <1>1, <1>2, <2>0, <2>1, StillStep, Zenon
  <2>2. ASSUME main.stage # "down", Same(main.keys, x) \/ Pays(main.keys, x)
        PROVE  WorkerInv(x)'
    <3>1. Stays(main.keys, x) /\ Grows(main.keys, x)
      BY <1>1, <1>3, <2>2, AllStay, Zenon
    <3>2. net'[main.keys][x] = net[main.keys][x]
      BY <2>2, Zenon DEF Same, Pays
    <3> QED
      BY <1>1, <1>2, <2>0, <3>1, <3>2, StillStep, Zenon
  <2>3. CASE main.stage # "down" /\ (main.keys # k \/ x # w)
    BY <1>3, <2>2, <2>3, Zenon
  <2>4. CASE main.stage # "down" /\ main.keys = k /\ x = w
    <3>1. CASE Pays(k, w)
      BY <2>2, <2>4, <3>1, Zenon
    <3>2. ASSUME NEW tx \in net[k][w], NEW ok \in BOOLEAN, Executes(k, w, tx, ok),
                 k = main.keys /\ tx # ws[w].rpc => unseen'
          PROVE  WorkerInv(x)'
      <4>1. LedgerInv(main.keys, x) /\ tx \in net[main.keys][x] /\ Executes(main.keys, x, tx, ok)
        BY <2>4, <3>2, Zenon DEF IInv
      <4>2. tx # ws[x].rpc => unseen'
        BY <2>4, <3>2, ZenonT(30)
      <4> QED
        BY <1>1, <1>2, <2>0, <2>4, <4>1, <4>2, ExecutedStep, ZenonT(30)
    <3> QED
      BY <3>1, <3>2, Zenon
  <2> QED
    BY <2>1, <2>3, <2>4, Zenon
<1> QED
  BY <1>5, <1>6, <1>7, <1>8, <1>9, Zenon DEF IInv

LEMMA FaucetPaysStep ==
    ASSUME IInv, NEW k \in Key, NEW w \in Worker, FaucetPays(k, w)
    PROVE  IInv'
<1>1. LedgerType /\ RunType
  BY TypeParts, Zenon DEF IInv
<1>2. UNCHANGED <<file, main, ws, used, unseen>>
  BY Zenon DEF FaucetPays
<1>3. /\ LedgerType' /\ Pays(k, w)
      /\ \A j \in Key, x \in Worker : j # k \/ x # w => Same(j, x)
  BY <1>1, PaysStep, Zenon
<1>4. used'.fresh = used.fresh /\ used'.faults = used.faults /\ used.fresh \in Nat /\ unseen' = unseen
      /\ used' \in [fresh : 0..MaxFresh, starts : Nat, work : Nat, faults : Nat, chains : Nat]
      /\ unseen' \in BOOLEAN
  BY <1>1, <1>2, MainType, Zenon DEF RunType
<1>5. LedgerInv(k, w)'
  <2>1. LedgerInv(k, w)
    BY Zenon DEF IInv
  <2>2. used.fresh <= used'.fresh /\ used'.fresh \in Nat
    BY <1>4, NoMore, Zenon
  <2> QED
    BY <1>1, <1>3, <1>4, <2>1, <2>2, LedgerKept, Zenon
<1> QED
  BY <1>2, <1>3, <1>4, <1>5, LedgerStep

LEMMA NodeExecuteStep ==
    ASSUME IInv, NEW k \in Key, NEW w \in Worker, NodeExecute(k, w)
    PROVE  IInv'
<1>1. LedgerType /\ RunType /\ LedgerInv(k, w)
  BY TypeParts, Zenon DEF IInv
<1>2. PICK tx \in net[k][w], ok \in BOOLEAN :
         /\ Apply(k, w, tx, ok)
         /\ used' = [used EXCEPT !.faults = @ + IF ok THEN 0 ELSE 1]
         /\ unseen' = (unseen \/ (k = main.keys /\ tx # ws[w].rpc))
         /\ UNCHANGED <<file, main, ws>>
  BY Zenon DEF NodeExecute
<1>3. tx \in Transaction /\ Single(tx)
  BY <1>1, AddressType, Zenon DEF LedgerInv
<1>4. /\ Executes(k, w, tx, ok) /\ LedgerType'
      /\ \A j \in Key, x \in Worker : j # k \/ x # w => Same(j, x)
  BY <1>1, <1>2, <1>3, ApplyExecutes, ZenonT(30)
<1>5. /\ used \in [fresh : 0..MaxFresh, starts : Nat, work : Nat, faults : Nat, chains : Nat]
      /\ used.fresh \in Nat /\ used.faults \in Nat
  BY <1>1, MainType, Zenon DEF RunType
<1>6. /\ used' \in [fresh : 0..MaxFresh, starts : Nat, work : Nat, faults : Nat, chains : Nat]
      /\ used'.fresh = used.fresh /\ (ok \/ used'.faults # 0) /\ (used'.faults = 0 => used.faults = 0)
  <2> DEFINE n == used.faults + IF ok THEN 0 ELSE 1
  <2>1. n \in Nat /\ (ok \/ n # 0) /\ (n = 0 => used.faults = 0)
    BY <1>5
  <2>2. used' = [used EXCEPT !.faults = n]
    BY <1>2, Zenon
  <2> HIDE DEF n
  <2> QED
    BY <1>5, <2>1, <2>2, Zenon
<1>7. unseen' \in BOOLEAN /\ (unseen => unseen') /\ (k = main.keys /\ tx # ws[w].rpc => unseen')
  BY <1>2, Zenon
<1>8. LedgerInv(k, w)'
  <2>1. k <= used'.fresh
    <3>1. ~(k > used.fresh)
      BY <1>1, <1>2, Zenon DEF LedgerInv
    <3> QED
      BY <1>5, <1>6, <3>1, CountAssumption DEF Key
  <2>2. used.fresh <= used'.fresh /\ used'.fresh \in Nat
    BY <1>5, <1>6, NoMore, Zenon
  <2> QED
    BY <1>1, <1>3, <1>4, <1>5, <1>6, <2>1, <2>2, LedgerKept, ZenonT(30)
<1>9. \E t \in net[k][w], b \in BOOLEAN :
         Executes(k, w, t, b) /\ (k = main.keys /\ t # ws[w].rpc => unseen')
  BY <1>4, <1>7, Zenon
<1> QED
  BY <1>2, <1>4, <1>6, <1>7, <1>8, <1>9, LedgerStep, ZenonT(30)

\* A new ledger is empty; no run is up that could hold anything of the old one.
LEMMA NewChainStep ==
    ASSUME IInv, NewChain
    PROVE  IInv'
<1>1. LedgerType /\ RunType
  BY TypeParts, Zenon DEF IInv
<1>2. /\ main.stage = "down" /\ used' = [used EXCEPT !.chains = @ + 1]
      /\ coins' = EveryKey(<<>>) /\ owned' = EveryKey(<<>>) /\ net' = EveryKey({})
      /\ owed' = EveryKey(0) /\ done' = EveryKey(NothingDone)
      /\ UNCHANGED <<nextId, file, main, ws, unseen>>
  BY Zenon DEF NewChain
<1>3. /\ used' \in [fresh : 0..MaxFresh, starts : Nat, work : Nat, faults : Nat, chains : Nat]
      /\ used'.fresh = used.fresh /\ used'.faults = used.faults /\ used.fresh \in Nat
  <2>1. /\ used \in [fresh : 0..MaxFresh, starts : Nat, work : Nat, faults : Nat, chains : Nat]
        /\ used.fresh \in Nat
    BY <1>1, MainType, Zenon DEF RunType
  <2>2. used.chains + 1 \in Nat
    BY <2>1
  <2> QED
    BY <1>2, <2>1, <2>2, Zenon
<1>4. LedgerType' /\ \A k \in Key, w \in Worker : LedgerInv(k, w)'
  <2>1. NothingYet'
    BY <1>1, <1>2, Zenon DEF NothingYet, LedgerType
  <2>2. NothingYet' => (LedgerType /\ \A k \in Key, w \in Worker : LedgerInv(k, w))'
    BY EmptyLedger, PTL
  <2> QED
    BY <2>1, <2>2, Zenon
<1>5. RunType'
  BY <1>1, <1>2, <1>3, Zenon DEF RunType
<1>6. TypeOK'
  <2>1. (LedgerType /\ RunType)' => TypeOK'
    BY TypeParts, PTL
  <2> QED
    BY <1>4, <1>5, <2>1, Zenon
<1>7. RunInv'
  BY <1>2, <1>3, Zenon DEF IInv, RunInv
<1>8. FileInv'
  <2>1. used.fresh <= used'.fresh /\ file' = file
    BY <1>2, <1>3
  <2> QED
    BY <1>3, <2>1, FileKept, Zenon
<1>9. \A w \in Worker : WorkerInv(w)'
  BY <1>2, Zenon DEF IInv, WorkerInv
<1> QED
  BY <1>4, <1>6, <1>7, <1>8, <1>9, Zenon DEF IInv

LEMMA InitIInv == Init => IInv
<1> SUFFICES ASSUME Init
             PROVE  IInv
  BY Zenon
<1>1. /\ file = NoFile /\ main = Down /\ ws = Every(NoWorker) /\ unseen = FALSE
      /\ used = [fresh |-> 0, starts |-> 0, work |-> 0, faults |-> 0, chains |-> 1]
  BY Zenon DEF Init
<1>2. MaxFresh \in Nat /\ SeedObjects \in Nat
  BY CountAssumption, Zenon
<1>3. LedgerType /\ \A k \in Key, w \in Worker : LedgerInv(k, w)
  <2>1. NothingYet
    BY DEF Init, NothingYet
  <2> QED
    BY <2>1, EmptyLedger, Zenon
<1>4. used \in [fresh : 0..MaxFresh, starts : Nat, work : Nat, faults : Nat, chains : Nat] /\ used.fresh = 0
  BY <1>1, <1>2
<1>5. Every(<<>>) \in [Worker -> Seq(TrackedObject)] /\ \A w \in Worker : DOMAIN Every(<<>>)[w] = {}
  BY DEF Every
<1>6. /\ file \in [kind : {"none", "torn", "saved"}, keys : 0..MaxFresh, objects : [Worker -> Seq(TrackedObject)]]
      /\ file.keys = 0 /\ file.kind = "none" /\ file.objects = Every(<<>>)
  BY <1>1, <1>2, <1>5 DEF NoFile
<1>7. main \in MainState /\ main.keys = 0 /\ main.stage = "down"
  <2>1. /\ 0 \in 0..MaxFresh /\ 1 \in Nat \ {0}
        /\ <<>> \in Seq(TrackedObject)
    BY <1>2
  <2>2. Down \in MainState
    BY <2>1, Zenon DEF Down, MainState
  <2>3. Down.keys = 0 /\ Down.stage = "down"
    BY Zenon DEF Down
  <2> QED
    BY <1>1, <2>2, <2>3, Zenon
<1>8. ws \in [Worker -> WorkerState] /\ \A w \in Worker : ws[w].pc = "wait"
  <2>1. NoTx \in Transaction /\ NoCoin \in Ref
    BY Zenon DEF NoTx, NoCoin, Transaction, Ref
  <2>2. NoWorker \in WorkerState /\ NoWorker.pc = "wait"
    BY <1>2, <2>1 DEF NoWorker, WorkerState
  <2> QED
    BY <1>1, <2>2, Zenon DEF Every
<1>9. TypeOK
  <2>1. RunType
    BY <1>1, <1>4, <1>6, <1>7, <1>8, ZenonT(30) DEF RunType
  <2> QED
    BY <1>3, <2>1, TypeParts, Zenon
<1>10. FileInv /\ RunInv
  BY <1>4, <1>5, <1>6, <1>7 DEF FileInv, RunInv, DistinctIds
<1>11. \A w \in Worker : WorkerInv(w)
  BY <1>7, <1>8, Zenon DEF WorkerInv
<1> QED
  BY <1>3, <1>9, <1>10, <1>11, Zenon DEF IInv

\* A step of a worker's task or of a worker that measures.
LEMMA WorkerStep ==
    ASSUME IInv, NEW w \in Worker, WorkerTask(w) \/ Work(w)
    PROVE  IInv'
<1>1. LedgerType /\ RunType /\ \A k \in Key : LedgerInv(k, w)
  BY TypeParts, Zenon DEF IInv
<1>2. /\ used \in [fresh : 0..MaxFresh, starts : Nat, work : Nat, faults : Nat, chains : Nat]
      /\ used.fresh \in Nat /\ used.fresh <= used.fresh /\ main.keys <= used.fresh
  <2>1. used \in [fresh : 0..MaxFresh, starts : Nat, work : Nat, faults : Nat, chains : Nat]
    BY <1>1, Zenon DEF RunType
  <2>2. used.fresh \in Nat
    BY <1>1, MainType, Zenon
  <2>3. used.fresh <= used.fresh
    BY <2>2, NoMore, Zenon
  <2>4. main.keys <= used.fresh
    BY Zenon DEF IInv, RunInv
  <2> QED
    BY <2>1, <2>2, <2>3, <2>4, Zenon
<1>3. ASSUME WorkerInv(w)', Others(w), UNCHANGED <<coins, owned, net, done, nextId>>, unseen' = unseen,
             owed' \in [Key -> [Worker -> Nat]], used'.fresh = used.fresh, used'.faults = 0 => used.faults = 0,
             used' \in [fresh : 0..MaxFresh, starts : Nat, work : Nat, faults : Nat, chains : Nat]
      PROVE  IInv'
  <2>1. LedgerType' /\ \A k \in Key, x \in Worker : Same(k, x)
    BY <1>1, <1>3, QuietStep, Zenon
  <2>2. \A k \in Key : LedgerInv(k, w)'
    <3> SUFFICES ASSUME NEW k \in Key
                 PROVE  LedgerInv(k, w)'
      BY Zenon
    <3>1. LedgerInv(k, w) /\ Same(k, w) /\ used.fresh <= used'.fresh /\ used'.fresh \in Nat
      BY <1>1, <1>2, <1>3, <2>1, Zenon
    <3> QED
      BY <1>1, <1>2, <1>3, <3>1, LedgerKept, Zenon
  <2> QED
    BY <1>3, <2>1, <2>2, OwnStep, Zenon
<1>4. ASSUME UNCHANGED <<ledgerVars, used>>
      PROVE  /\ UNCHANGED <<coins, owned, net, done, nextId>> /\ owed' \in [Key -> [Worker -> Nat]]
             /\ used'.fresh = used.fresh /\ (used'.faults = 0 => used.faults = 0)
             /\ used' \in [fresh : 0..MaxFresh, starts : Nat, work : Nat, faults : Nat, chains : Nat]
  BY <1>1, <1>2, <1>4, Zenon DEF ledgerVars, LedgerType
<1>5. CASE FaucetPost(w)
  <2>1. /\ WorkerInv(w)' /\ Others(w) /\ UNCHANGED <<coins, owned, net, done, nextId, used, unseen>>
        /\ owed' \in [Key -> [Worker -> Nat]]
    BY <1>5, FaucetPostStep, Zenon
  <2> QED
    BY <1>2, <1>3, <2>1, Zenon
<1>6. CASE GetCoins(w) \/ SeedDone(w) \/ SeedError(w)
  <2>1. WorkerInv(w)' /\ Others(w) /\ UNCHANGED <<ledgerVars, used, unseen>>
    BY <1>6, GetCoinsStep, SeedDoneStep, SeedErrorStep, Zenon
  <2> QED
    BY <1>3, <1>4, <2>1, Zenon
<1>7. CASE SeedReply(w)
  <2>1. /\ WorkerInv(w)' /\ Others(w) /\ UNCHANGED <<ledgerVars, unseen>>
        /\ used'.fresh = used.fresh /\ (used'.faults = 0 => used.faults = 0)
        /\ used' \in [fresh : 0..MaxFresh, starts : Nat, work : Nat, faults : Nat, chains : Nat]
    BY <1>7, SeedReplyStep, Zenon
  <2>2. UNCHANGED <<coins, owned, net, done, nextId>> /\ owed' \in [Key -> [Worker -> Nat]]
    BY <1>1, <2>1, Zenon DEF ledgerVars, LedgerType
  <2> QED
    BY <1>3, <2>1, <2>2, Zenon
<1>8. ASSUME WorkerInv(w)', Others(w), unseen' = unseen, LedgerType', main.keys \in Key,
             used'.fresh = used.fresh, used'.faults = used.faults,
             used' \in [fresh : 0..MaxFresh, starts : Nat, work : Nat, faults : Nat, chains : Nat],
             \A j \in Key, x \in Worker : j # main.keys \/ x # w => Same(j, x),
             NEW tx \in Transaction, Single(tx), tx.coin.id # 0,
             Sends(main.keys, w, tx) \/ Executes(main.keys, w, tx, TRUE)
      PROVE  IInv'
  <2>1. ASSUME NEW k \in Key, k = main.keys
        PROVE  LedgerInv(k, w)'
    <3>1. LedgerInv(k, w) /\ used.fresh <= used'.fresh /\ used'.fresh \in Nat /\ k <= used'.fresh
      BY <1>1, <1>2, <1>8, <2>1, Zenon
    <3>2. Sends(k, w, tx) \/ Executes(k, w, tx, TRUE)
      BY <1>8, <2>1, Zenon
    <3>3. \/ \E t \in Transaction : Sends(k, w, t) /\ t.coin.id # 0 /\ Single(t) /\ k <= used'.fresh
          \/ \E t \in Transaction, ok \in BOOLEAN :
                Executes(k, w, t, ok) /\ Single(t) /\ k <= used'.fresh /\ (ok \/ used'.faults # 0)
      BY <1>8, <3>1, <3>2, Zenon
    <3> QED
      BY <1>1, <1>2, <1>8, <3>1, <3>3, LedgerKept, ZenonT(30)
  <2> QED
    BY <1>8, <2>1, OwnStep, Zenon
<1>9. CASE SeedSend(w)
  <2>1. /\ WorkerInv(w)' /\ Others(w) /\ UNCHANGED <<used, unseen>> /\ main.keys \in Key
        /\ \E tx \in Transaction : Sends(main.keys, w, tx) /\ tx.coin.id # 0 /\ Single(tx)
        /\ LedgerType'
        /\ \A j \in Key, x \in Worker : j # main.keys \/ x # w => Same(j, x)
    BY <1>9, SeedSendStep, Zenon
  <2>2. PICK tx \in Transaction : Sends(main.keys, w, tx) /\ tx.coin.id # 0 /\ Single(tx)
    BY <2>1, Zenon
  <2>3. /\ used'.fresh = used.fresh /\ used'.faults = used.faults /\ unseen' = unseen
        /\ used' \in [fresh : 0..MaxFresh, starts : Nat, work : Nat, faults : Nat, chains : Nat]
    BY <1>2, <2>1, Zenon
  <2> QED
    BY <1>8, <2>1, <2>2, <2>3, Zenon
<1>10. CASE Work(w)
  <2>1. /\ WorkerInv(w)' /\ Others(w) /\ unseen' = unseen /\ main.keys \in Key
        /\ used'.fresh = used.fresh /\ used'.faults = used.faults
        /\ used' \in [fresh : 0..MaxFresh, starts : Nat, work : Nat, faults : Nat, chains : Nat]
        /\ LedgerType'
        /\ \A j \in Key, x \in Worker : j # main.keys \/ x # w => Same(j, x)
        /\ \E tx \in Transaction :
              /\ Single(tx) /\ tx.coin.id # 0
              /\ Sends(main.keys, w, tx) \/ Executes(main.keys, w, tx, TRUE)
    BY <1>10, WorkStep, Zenon
  <2>2. PICK tx \in Transaction : /\ Single(tx) /\ tx.coin.id # 0
                                  /\ Sends(main.keys, w, tx) \/ Executes(main.keys, w, tx, TRUE)
    BY <2>1, Zenon
  <2> QED
    BY <1>8, <2>1, <2>2, Zenon
<1> QED
  BY <1>5, <1>6, <1>7, <1>9, <1>10, Zenon DEF WorkerTask

\* The steps that end a run and leave the file as it is.
LEMMA GoDown ==
    ASSUME IInv, Quit, UNCHANGED file
    PROVE  IInv'
<1>1. RunType /\ used.fresh \in Nat
  BY TypeParts, MainType, Zenon DEF IInv
<1>2. file' \in [kind : {"none", "torn", "saved"}, keys : 0..MaxFresh, objects : [Worker -> Seq(TrackedObject)]]
  BY <1>1, Zenon DEF RunType
<1>3. RunType' /\ RunInv' /\ UNCHANGED <<ledgerVars, used>> /\ \A w \in Worker : WorkerInv(w)'
  BY <1>2, RunDown, Zenon
<1>4. used.fresh <= used'.fresh /\ used'.fresh \in Nat /\ used'.faults = used.faults
  BY <1>1, <1>3, NoMore, Zenon
<1>5. FileInv'
  BY <1>4, FileKept, Zenon
<1> QED
  BY <1>3, <1>4, <1>5, MainStep, Zenon

LEMMA StepIInv == IInv /\ [Next]_vars => IInv'
<1> SUFFICES ASSUME IInv, [Next]_vars
             PROVE  IInv'
  BY Zenon
<1>1. RunType /\ LedgerType /\ used.fresh \in Nat /\ used.fresh <= used.fresh
  BY TypeParts, MainType, NoMore, Zenon DEF IInv
<1>2. ASSUME RunType', RunInv', UNCHANGED <<ledgerVars, used, file>>, \A w \in Worker : WorkerInv(w)'
      PROVE  IInv'
  <2>1. used.fresh <= used'.fresh /\ used'.fresh \in Nat /\ used'.faults = used.faults /\ file' = file
        /\ UNCHANGED ledgerVars
    BY <1>1, <1>2, NoMore, Zenon
  <2>2. FileInv'
    BY <2>1, FileKept, Zenon
  <2> QED
    BY <1>2, <2>1, <2>2, MainStep, Zenon
<1>3. CASE StartFresh \/ StartLoad
  <2>1. /\ RunType' /\ RunInv' /\ UNCHANGED <<ledgerVars, file>> /\ \A w \in Worker : WorkerInv(w)'
        /\ used.fresh <= used'.fresh /\ used'.faults = used.faults
    BY <1>3, StartStep, Zenon
  <2>2. used'.fresh \in Nat
    BY <2>1, CountAssumption DEF RunType
  <2>3. FileInv'
    BY <2>1, <2>2, FileKept, Zenon
  <2> QED
    BY <2>1, <2>3, MainStep, Zenon
<1>4. CASE \E w \in Worker : WorkerTask(w)
  BY <1>4, WorkerStep, Zenon
<1>5. CASE \E w \in Worker : Work(w)
  BY <1>5, WorkerStep, Zenon
<1>6. CASE EndChunk
  BY <1>2, <1>6, EndChunkStep, Zenon
<1>7. CASE EndSeed
  BY <1>2, <1>7, EndSeedStep, Zenon
<1>8. CASE RefreshRead
  BY <1>2, <1>8, RefreshReadStep, Zenon
<1>9. CASE RefreshDone
  BY <1>2, <1>9, RefreshDoneStep, Zenon
<1>10. CASE RefreshError \/ EndRun \/ Crash
  <2>1. Quit /\ UNCHANGED file
    BY <1>10, Zenon DEF RefreshError, EndRun, Crash
  <2> QED
    BY <2>1, GoDown, Zenon
<1>11. CASE SaveCreate \/ SaveWrite
  <2>1. RunType' /\ RunInv' /\ FileInv' /\ UNCHANGED <<ledgerVars, used>> /\ \A w \in Worker : WorkerInv(w)'
    BY <1>11, SaveCreateStep, SaveWriteStep, Zenon
  <2>2. used.fresh <= used'.fresh /\ used'.faults = used.faults /\ UNCHANGED ledgerVars
    BY <1>1, <2>1, NoMore, Zenon
  <2> QED
    BY <2>1, <2>2, MainStep, Zenon
<1>12. CASE Ledger
  <2>1. CASE NewChain
    BY <2>1, NewChainStep, Zenon
  <2>2. ASSUME NEW k \in Key, NEW w \in Worker, FaucetPays(k, w) \/ NodeExecute(k, w)
        PROVE  IInv'
    BY <2>2, FaucetPaysStep, NodeExecuteStep, Zenon
  <2> QED
    BY <1>12, <2>1, <2>2, Zenon DEF Ledger
<1>13. CASE UNCHANGED vars
  <2>1. RunType' /\ RunInv' /\ \A w \in Worker : WorkerInv(w)'
    <3>1. /\ file' = file /\ main' = main /\ ws' = ws /\ used' = used /\ unseen' = unseen
          /\ UNCHANGED <<coins, owned, net, done, nextId>> /\ owed' \in [Key -> [Worker -> Nat]]
      BY <1>1, <1>13, Zenon DEF vars, ledgerVars, LedgerType
    <3>2. RunType' /\ RunInv'
      BY <1>1, <3>1, Zenon DEF IInv, RunType, RunInv
    <3>3. \A k \in Key, w \in Worker : Same(k, w)
      BY <1>1, <3>1, QuietStep, Zenon
    <3>4. ASSUME NEW w \in Worker
          PROVE  WorkerInv(w)'
      <4>1. main.stage # "down" => Stays(main.keys, w) /\ Grows(main.keys, w)
        BY <1>1, <3>3, AllStay, MainType, Zenon
      <4>2. TypeOK /\ WorkerInv(w)
        BY Zenon DEF IInv
      <4> QED
        BY <3>1, <4>1, <4>2, StillStep, Zenon
    <3> QED
      BY <3>2, <3>4, Zenon
  <2>2. UNCHANGED <<ledgerVars, used, file>>
    BY <1>13, Zenon DEF vars
  <2> QED
    BY <1>2, <2>1, <2>2, Zenon
<1>14. Next \/ UNCHANGED vars
  BY Zenon
<1> QED
  BY <1>3, <1>4, <1>5, <1>6, <1>7, <1>8, <1>9, <1>10, <1>11, <1>12, <1>13, <1>14, ZenonT(30)
     DEF Next, Setup, Measured

LEMMA Invariant == Spec => []IInv
  BY InitIInv, StepIInv, PTL DEF Spec
-----------------------------------------------------------------------------
(* What a run measures with *)

\* Every variable keeps its type, and the run has keys exactly while it is up.
THEOREM Types == Spec => []TypeOK
<1>1. IInv => TypeOK
  BY Zenon DEF IInv
<1> QED
  BY <1>1, Invariant, PTL

\* Each worker of a run that measures has a gas coin of its own address, and a
\* list of distinct objects of that address at versions they have had, whatever
\* the faucet, the node, crashes and earlier runs did (main.rs: saved key pairs
\* and objects, the refresh, the seed answers).
THEOREM MeasuredRefsOwned == Spec => []RefsOwned
<1>1. IInv => RefsOwned
  <2> SUFFICES ASSUME IInv, Measuring, NEW w \in Worker
               PROVE  LET mine == owned[main.keys][w]
                          list == ws[w].objects
                      IN /\ ws[w].gas_coin.id \in DOMAIN coins[main.keys][w]
                         /\ ws[w].gas_coin.version <= coins[main.keys][w][ws[w].gas_coin.id].version
                         /\ \A i \in DOMAIN list : list[i].id \in DOMAIN mine /\ list[i].version <= mine[list[i].id]
                         /\ \A i, j \in DOMAIN list : list[i].id = list[j].id => i = j
    BY Zenon DEF RefsOwned
  <2>1. GasOwned(w) /\ DistinctIds(ws[w].objects) /\ OwnedBy(w, ws[w].objects)
    BY Zenon DEF IInv, WorkerInv, MeasureInv, Measuring
  <2> QED
    BY <2>1, Zenon DEF GasOwned, DistinctIds, OwnedBy
<1> QED
  BY <1>1, Invariant, PTL

\* The references are the current ones until a transaction of the workers
\* executes that the run has no answer to.
THEOREM MeasuredRefsCurrent == Spec => []CurrentUntilUnseen
<1>1. IInv => CurrentUntilUnseen
  <2> SUFFICES ASSUME IInv, Measuring, ~unseen, NEW w \in Worker
               PROVE  /\ ws[w].gas_coin.version = coins[main.keys][w][ws[w].gas_coin.id].version
                      /\ \A r \in Range(ws[w].objects) : r.version = owned[main.keys][w][r.id]
    BY Zenon DEF CurrentUntilUnseen
  <2>1. GasCurrent(w) /\ CurrentFor(w, ws[w].objects)
    BY Zenon DEF IInv, WorkerInv, MeasureInv, Measuring
  <2> QED
    BY <2>1, Zenon DEF GasCurrent, CurrentFor, Range
<1> QED
  BY <1>1, Invariant, PTL

\* With no aborted execution and no incomplete answer, a FRESH run that measures
\* has every seed object of every worker, up to the cap: a failing batch of one
\* worker ends the run for all (main.rs: the errors of create_seed_objects).
THEOREM AllSeedsTracked == Spec => []SeedsComplete
<1>1. IInv => SeedsComplete
  BY Zenon DEF IInv, WorkerInv, MeasureInv, Measuring, SeedsComplete
<1> QED
  BY <1>1, Invariant, PTL
-----------------------------------------------------------------------------
(* The runs implement Phases *)

\* The values the refinement mapping gives to the variables of Phases.
PhaseOf == CASE main.stage = "down" -> "down" [] main.stage = "measure" -> "measuring"
             [] main.stage = "saving" -> "saving" [] OTHER -> "setup"
GasOf == IF Measuring THEN {w \in Worker : ws[w].gas_coin.id \in DOMAIN coins[main.keys][w]} ELSE {}
TrackedOf == [w \in Worker |-> IF Measuring THEN {r.id : r \in Range(ws[w].objects)} ELSE {}]
SavedOf == [identity |-> file.keys,
            tracked |-> [w \in Worker |-> {r.id : r \in Range(file.objects[w])}]]

Mapped ==
    /\ main.stage = "down" => PhaseOf = "down"
    /\ main.stage \in {"faucet", "seed", "refresh"} => PhaseOf = "setup"
    /\ main.stage = "measure" => PhaseOf = "measuring"
    /\ main.stage = "saving" => PhaseOf = "saving"
    /\ Measuring => GasOf = Worker
    /\ ~Measuring => GasOf = {} /\ TrackedOf = Abstract!Nothing
    /\ TrackedOf \in [Worker -> SUBSET Nat]
    /\ file.kind = "saved" => SavedOf # Abstract!NoFile
    /\ file.kind # "saved" => SavedOf = Abstract!NoFile

LEMMA MappedState == IInv => Mapped
<1> SUFFICES ASSUME IInv
             PROVE  Mapped
  BY Zenon
<1>1. RunType /\ FileInv
  BY TypeParts, Zenon DEF IInv
<1>2. /\ main.stage = "down" => PhaseOf = "down"
      /\ main.stage \in {"faucet", "seed", "refresh"} => PhaseOf = "setup"
      /\ main.stage = "measure" => PhaseOf = "measuring"
      /\ main.stage = "saving" => PhaseOf = "saving"
  BY Zenon DEF PhaseOf
<1>3. Measuring => GasOf = Worker
  <2> SUFFICES ASSUME Measuring
               PROVE  GasOf = Worker
    BY Zenon
  <2>1. \A w \in Worker : GasOwned(w)
    BY Zenon DEF IInv, WorkerInv, MeasureInv, Measuring
  <2>2. \A w \in Worker : ws[w].gas_coin.id \in DOMAIN coins[main.keys][w]
    BY <2>1, Zenon DEF GasOwned
  <2> QED
    BY <2>2, Zenon DEF GasOf
<1>4. ~Measuring => GasOf = {} /\ TrackedOf = Abstract!Nothing
  BY Zenon DEF GasOf, TrackedOf, Abstract!Nothing
<1>5. TrackedOf \in [Worker -> SUBSET Nat]
  <2>1. ASSUME NEW w \in Worker
        PROVE  {r.id : r \in Range(ws[w].objects)} \in SUBSET Nat
    <3>1. \A i \in DOMAIN ws[w].objects : ws[w].objects[i].id \in Nat
      BY <1>1, WorkerType, EntryType, Zenon
    <3> QED
      BY <3>1, Zenon DEF Range
  <2> QED
    BY <2>1, Zenon DEF TrackedOf
<1>6. file.kind = "saved" => SavedOf # Abstract!NoFile
  <2>1. file.kind = "saved" => SavedOf.identity # 0
    BY <1>1, Zenon DEF FileInv, SavedOf
  <2>2. Abstract!NoFile.identity = 0
    BY Zenon DEF Abstract!NoFile
  <2> QED
    BY <2>1, <2>2, Zenon
<1>7. file.kind # "saved" => SavedOf = Abstract!NoFile
  <2> SUFFICES ASSUME file.kind # "saved"
               PROVE  SavedOf = Abstract!NoFile
    BY Zenon
  <2>1. file.keys = 0 /\ file.objects = Every(<<>>)
    BY <1>1, Zenon DEF FileInv
  <2>2. \A w \in Worker : {r.id : r \in Range(file.objects[w])} = {}
    BY <2>1 DEF Every, Range
  <2>3. [w \in Worker |-> {r.id : r \in Range(file.objects[w])}] = [w \in Worker |-> {}]
    BY <2>2, Zenon
  <2> QED
    BY <2>1, <2>3, Zenon DEF SavedOf, Abstract!NoFile, Abstract!Nothing
<1> QED
  BY <1>2, <1>3, <1>4, <1>5, <1>6, <1>7, Zenon DEF Mapped

LEMMA MappedInit == Init => Abstract!Init
<1> SUFFICES ASSUME Init
             PROVE  Abstract!Init
  BY Zenon
<1>1. main = Down /\ file = NoFile /\ used.fresh = 0
  BY Zenon DEF Init
<1>2. main.stage = "down" /\ main.keys = 0 /\ file.kind = "none"
  BY <1>1, Zenon DEF Down, NoFile
<1>3. ~Measuring
  BY <1>2, Zenon DEF Measuring
<1>4. PhaseOf = "down" /\ GasOf = {} /\ TrackedOf = Abstract!Nothing /\ SavedOf = Abstract!NoFile
  BY <1>2, <1>3, InitIInv, MappedState, Zenon DEF Mapped
<1> QED
  BY <1>1, <1>2, <1>4, Zenon DEF Abstract!Init, PhaseOf, GasOf, TrackedOf, SavedOf

\* The steps of Phases, in terms of the mapped values.
LEMMA MapStart ==
    ASSUME PhaseOf = "down", PhaseOf' = "setup",
           \/ used'.fresh = used.fresh + 1 /\ main'.keys = used'.fresh
           \/ used'.fresh = used.fresh /\ SavedOf # Abstract!NoFile /\ main'.keys = SavedOf.identity,
           GasOf' = GasOf, TrackedOf' = TrackedOf, SavedOf' = SavedOf
    PROVE  Abstract!Start
  BY Zenon DEF Abstract!Start, PhaseOf, GasOf, TrackedOf, SavedOf

LEMMA MapBegin ==
    ASSUME PhaseOf = "setup", PhaseOf' = "measuring", GasOf' = Worker,
           TrackedOf' \in [Worker -> SUBSET Nat],
           main.keys = SavedOf.identity => \A w \in Worker : TrackedOf'[w] \subseteq SavedOf.tracked[w],
           used'.fresh = used.fresh, main'.keys = main.keys, SavedOf' = SavedOf
    PROVE  Abstract!Begin
  BY Zenon DEF Abstract!Begin, PhaseOf, GasOf, TrackedOf, SavedOf

LEMMA MapWork ==
    ASSUME PhaseOf = "measuring", PhaseOf' = PhaseOf, TrackedOf' \in [Worker -> SUBSET Nat],
           used'.fresh = used.fresh, main'.keys = main.keys, GasOf' = GasOf, SavedOf' = SavedOf
    PROVE  Abstract!Work
  BY Zenon DEF Abstract!Work, PhaseOf, GasOf, TrackedOf, SavedOf

LEMMA MapBeginSave ==
    ASSUME PhaseOf = "measuring", PhaseOf' = "saving", SavedOf' = Abstract!NoFile,
           used'.fresh = used.fresh, main'.keys = main.keys, GasOf' = GasOf, TrackedOf' = TrackedOf
    PROVE  Abstract!BeginSave
  BY Zenon DEF Abstract!BeginSave, PhaseOf, GasOf, TrackedOf, SavedOf

LEMMA MapQuit ==
    ASSUME PhaseOf # "down", PhaseOf' = "down", main'.keys = 0, GasOf' = {},
           TrackedOf' = Abstract!Nothing, used'.fresh = used.fresh
    PROVE  Abstract!Quit
  BY Zenon DEF Abstract!Quit, PhaseOf, GasOf, TrackedOf, SavedOf

LEMMA MapStop ==
    ASSUME Abstract!Quit, SavedOf' = SavedOf
    PROVE  Abstract!Stop
  BY Zenon DEF Abstract!Stop, SavedOf

LEMMA MapEndSave ==
    ASSUME Abstract!Quit, PhaseOf = "saving", SavedOf' = [identity |-> main.keys, tracked |-> TrackedOf]
    PROVE  Abstract!EndSave
  BY Zenon DEF Abstract!EndSave, PhaseOf, TrackedOf, SavedOf

LEMMA MapStutter ==
    ASSUME PhaseOf' = PhaseOf, used'.fresh = used.fresh, main'.keys = main.keys, GasOf' = GasOf,
           TrackedOf' = TrackedOf, SavedOf' = SavedOf
    PROVE  UNCHANGED Abstract!phaseVars
  BY Zenon DEF Abstract!phaseVars, PhaseOf, GasOf, TrackedOf, SavedOf

\* A task of the setup runs only in the stages that have tasks.
LEMMA TaskStage ==
    ASSUME IInv, NEW w \in Worker, WorkerTask(w)
    PROVE  main.stage \in {"faucet", "seed"} /\ main' = main /\ file' = file /\ used'.fresh = used.fresh
<1>1. WorkerInv(w) /\ main.stage \in {"down", "faucet", "seed", "refresh", "measure", "saving"}
  BY TypeParts, MainType, Zenon DEF IInv
<1>2. main.stage = "seed" \/ ws[w].pc \in {"post", "query", "rpc"}
  BY Zenon DEF WorkerTask, FaucetPost, GetCoins, SeedSend, SeedDone, SeedReply, SeedError
<1>3. main.stage \in {"faucet", "seed"}
  BY <1>1, <1>2, Zenon DEF WorkerInv, RefreshInv, MeasureInv
<1>4. Others(w) /\ used'.fresh = used.fresh
  BY FaucetPostStep, GetCoinsStep, SeedSendStep, SeedDoneStep, SeedReplyStep, SeedErrorStep, Zenon DEF WorkerTask
<1> QED
  BY <1>3, <1>4, Zenon DEF Others

LEMMA MappedStep == IInv /\ IInv' /\ [Next]_vars => [Abstract!Next]_(Abstract!phaseVars)
<1> SUFFICES ASSUME IInv, IInv', [Next]_vars
             PROVE  Abstract!Next \/ UNCHANGED Abstract!phaseVars
  BY Zenon
<1>1. Mapped /\ Mapped'
  <2>1. IInv' => Mapped'
    BY MappedState, PTL
  <2> QED
    BY <2>1, MappedState, Zenon
<1>2. RunType /\ FileInv /\ RunInv /\ RunType' /\ RunInv'
  <2>1. TypeOK' => RunType'
    BY TypeParts, PTL
  <2> QED
    BY <2>1, TypeParts, Zenon DEF IInv
<1>3. file' = file => SavedOf' = SavedOf
  BY Zenon DEF SavedOf
<1>4. Measuring <=> main.stage \in {"measure", "saving"}
  BY Zenon DEF Measuring
<1>5. Measuring' <=> main'.stage \in {"measure", "saving"}
  BY Zenon DEF Measuring
\* Steps within the setup.
<1>6. ASSUME main.stage \in {"faucet", "seed", "refresh"}, main'.stage \in {"faucet", "seed", "refresh"},
             main'.keys = main.keys, used'.fresh = used.fresh, file' = file
      PROVE  UNCHANGED Abstract!phaseVars
  <2>1. ~Measuring /\ ~Measuring'
    BY <1>4, <1>5, <1>6, Zenon
  <2>2. PhaseOf' = PhaseOf /\ GasOf' = GasOf /\ TrackedOf' = TrackedOf
    BY <1>1, <1>6, <2>1, Zenon DEF Mapped, Abstract!Nothing
  <2> QED
    BY <1>3, <1>6, <2>2, MapStutter, Zenon
\* Steps that leave the run and the file alone.
<1>7. ASSUME main' = main, ws' = ws, file' = file, used'.fresh = used.fresh
      PROVE  UNCHANGED Abstract!phaseVars
  <2>1. PhaseOf' = PhaseOf /\ TrackedOf' = TrackedOf /\ Measuring' = Measuring
    BY <1>7, Zenon DEF PhaseOf, TrackedOf, Measuring
  <2>2. GasOf' = GasOf
    BY <1>1, <2>1, Zenon DEF Mapped
  <2> QED
    BY <1>3, <1>7, <2>1, <2>2, MapStutter, Zenon
\* Steps that end a run.
<1>8. ASSUME Quit, main.stage # "down"
      PROVE  Abstract!Quit
  <2>1. main' = Down /\ used' = used
    BY <1>8, Zenon DEF Quit
  <2>2. main'.stage = "down" /\ main'.keys = 0
    BY <2>1, Zenon DEF Down
  <2>3. PhaseOf # "down"
    BY <1>1, <1>2, <1>8, MainType, Zenon DEF Mapped
  <2>4. PhaseOf' = "down" /\ GasOf' = {} /\ TrackedOf' = Abstract!Nothing
    <3>1. ~Measuring'
      BY <1>5, <2>2, Zenon
    <3> QED
      BY <1>1, <2>2, <3>1, Zenon DEF Mapped, Abstract!Nothing
  <2> QED
    BY <2>1, <2>2, <2>3, <2>4, MapQuit, Zenon
<1>9. ASSUME Quit, file' = file, main.stage # "down"
      PROVE  Abstract!Next
  BY <1>3, <1>8, <1>9, MapStop, Zenon DEF Abstract!Next
\* The measured phase begins.
<1>10. ASSUME main.stage \in {"seed", "refresh"}, main'.stage = "measure", main'.keys = main.keys,
              used'.fresh = used.fresh, file' = file,
              main.keys = file.keys => \A w \in Worker : Refreshed(w, ws[w].objects)'
       PROVE  Abstract!Next
  <2>1. PhaseOf = "setup" /\ PhaseOf' = "measuring" /\ GasOf' = Worker /\ TrackedOf' \in [Worker -> SUBSET Nat]
    BY <1>1, <1>5, <1>10, Zenon DEF Mapped
  <2>2. SavedOf.identity = file.keys
    BY Zenon DEF SavedOf
  <2>3. ASSUME main.keys = file.keys, NEW w \in Worker
        PROVE  TrackedOf'[w] \subseteq SavedOf.tracked[w]
    <3>1. TrackedOf'[w] = {r.id : r \in Range(ws'[w].objects)}
      BY <1>5, <1>10, Zenon DEF TrackedOf
    <3>2. SavedOf.tracked[w] = {r.id : r \in Range(file.objects[w])}
      BY Zenon DEF SavedOf
    <3>3. \A i \in DOMAIN ws'[w].objects : \E j \in DOMAIN file.objects[w] :
             ws'[w].objects[i].id = file.objects[w][j].id
      BY <1>10, <2>3, Zenon DEF Refreshed
    <3>4. ASSUME NEW i \in DOMAIN ws'[w].objects
          PROVE  ws'[w].objects[i].id \in SavedOf.tracked[w]
      BY <3>2, <3>3, Zenon DEF Range
    <3> QED
      BY <3>1, <3>4, Zenon DEF Range
  <2> QED
    BY <1>3, <1>10, <2>1, <2>2, <2>3, MapBegin, ZenonT(30) DEF Abstract!Next
<1>11. CASE StartFresh \/ StartLoad
  <2>1. /\ UNCHANGED file /\ main.stage = "down" /\ main'.stage = "faucet"
        /\ \/ used'.fresh = used.fresh + 1 /\ main'.keys = used'.fresh
           \/ used'.fresh = used.fresh /\ file.kind = "saved" /\ main'.keys = file.keys
    <3>1. used \in [fresh : 0..MaxFresh, starts : Nat, work : Nat, faults : Nat, chains : Nat]
      BY <1>2, Zenon DEF RunType
    <3>2. CASE StartFresh
      <4>1. /\ used' = [used EXCEPT !.starts = @ + 1, !.fresh = @ + 1] /\ UNCHANGED file /\ main.stage = "down"
            /\ main' = [Down EXCEPT !.stage = "faucet", !.keys = used.fresh + 1, !.load = FALSE]
        BY <3>2, Zenon DEF StartFresh, Start
      <4>2. used'.fresh = used.fresh + 1
        BY <3>1, <4>1, Zenon
      <4> QED
        BY <4>1, <4>2, Zenon DEF Down
    <3>3. CASE StartLoad
      <4>1. /\ used' = [used EXCEPT !.starts = @ + 1] /\ UNCHANGED file /\ main.stage = "down"
            /\ file.kind = "saved"
            /\ main' = [Down EXCEPT !.stage = "faucet", !.keys = file.keys, !.load = TRUE]
        BY <3>3, Zenon DEF StartLoad, Start
      <4>2. used'.fresh = used.fresh
        BY <3>1, <4>1, Zenon
      <4> QED
        BY <4>1, <4>2, Zenon DEF Down
    <3> QED
      BY <1>11, <3>2, <3>3, Zenon
  <2>2. ~Measuring /\ ~Measuring'
    BY <1>4, <1>5, <2>1, Zenon
  <2>3. PhaseOf = "down" /\ PhaseOf' = "setup" /\ GasOf' = GasOf /\ TrackedOf' = TrackedOf
    BY <1>1, <2>1, <2>2, Zenon DEF Mapped, Abstract!Nothing
  <2>4. SavedOf.identity = file.keys /\ (file.kind = "saved" => SavedOf # Abstract!NoFile)
    BY <1>1, Zenon DEF SavedOf, Mapped
  <2>5. \/ used'.fresh = used.fresh + 1 /\ main'.keys = used'.fresh
        \/ used'.fresh = used.fresh /\ SavedOf # Abstract!NoFile /\ main'.keys = SavedOf.identity
    BY <2>1, <2>4, Zenon
  <2> QED
    BY <1>3, <2>1, <2>3, <2>5, MapStart, Zenon DEF Abstract!Next
<1>12. CASE \E w \in Worker : WorkerTask(w)
  <2>1. PICK w \in Worker : WorkerTask(w)
    BY <1>12, Zenon
  <2>2. main.stage \in {"faucet", "seed"} /\ main' = main /\ file' = file /\ used'.fresh = used.fresh
    BY <2>1, TaskStage, Zenon
  <2> QED
    BY <1>6, <2>2, Zenon
<1>13. CASE EndChunk
  <2>1. main.stage = "faucet" /\ file' = file
    BY <1>13, Zenon DEF EndChunk
  <2>2. CASE Quit
    BY <1>9, <2>1, <2>2, Zenon
  <2>3. CASE ~Quit
    <3>1. /\ UNCHANGED used
          /\ \/ main' = [main EXCEPT !.stage = IF main.load THEN "refresh" ELSE "seed"]
             \/ main' = [main EXCEPT !.chunk = @ + 1]
      BY <1>13, <2>3, Zenon DEF EndChunk
    <3>2. main \in MainState
      BY <1>2, Zenon DEF RunType
    <3>3. main'.stage \in {"faucet", "seed", "refresh"} /\ main'.keys = main.keys
      BY <2>1, <3>1, <3>2, Zenon DEF MainState
    <3> QED
      BY <1>6, <2>1, <3>1, <3>3, Zenon
  <2> QED
    BY <2>2, <2>3, Zenon
<1>14. CASE EndSeed
  <2>1. main.stage = "seed" /\ file' = file
    BY <1>14, Zenon DEF EndSeed
  <2>2. CASE Quit
    BY <1>9, <2>1, <2>2, Zenon
  <2>3. CASE ~Quit
    <3>1. UNCHANGED used /\ main' = [main EXCEPT !.stage = "measure"]
      BY <1>14, <2>3, Zenon DEF EndSeed
    <3>2. main \in MainState /\ main.keys \in Nat /\ file.keys \in Nat
      BY <1>2, MainType, Zenon DEF RunType
    <3>3. main'.stage = "measure" /\ main'.keys = main.keys
      BY <3>1, <3>2, Zenon DEF MainState
    <3>4. file.keys # main.keys
      BY <1>2, <2>1, <3>2 DEF RunInv
    <3> QED
      BY <1>10, <2>1, <3>1, <3>3, <3>4, Zenon
  <2> QED
    BY <2>2, <2>3, Zenon
<1>15. CASE RefreshRead
  <2>1. main.stage = "refresh" /\ main'.stage = "refresh" /\ UNCHANGED <<used, file>>
    BY <1>15, RefreshReadStep, Zenon DEF RefreshRead
  <2>2. main'.keys = main.keys
    BY <1>2, <1>15, Zenon DEF RefreshRead, RunType, MainState
  <2> QED
    BY <1>6, <2>1, <2>2, Zenon
<1>16. CASE RefreshDone
  <2>1. /\ main.stage = "refresh" /\ main'.stage \in {"refresh", "measure"} /\ UNCHANGED <<used, file>>
        /\ main'.stage = "measure" => \A w \in Worker : Refreshed(w, ws[w].objects)'
    BY <1>16, RefreshDoneStep, Zenon
  <2>2. main'.keys = main.keys
    BY <1>2, <1>16, Zenon DEF RefreshDone, RunType, MainState
  <2>3. CASE main'.stage = "refresh"
    BY <1>6, <2>1, <2>2, <2>3, Zenon
  <2>4. CASE main'.stage = "measure"
    BY <1>10, <2>1, <2>2, <2>4, Zenon
  <2> QED
    BY <2>1, <2>3, <2>4, Zenon
<1>17. CASE RefreshError \/ EndRun \/ Crash
  <2>1. Quit /\ file' = file /\ main.stage # "down"
    BY <1>17, Zenon DEF RefreshError, EndRun, Crash
  <2> QED
    BY <1>9, <2>1, Zenon
<1>18. CASE \E w \in Worker : Work(w)
  <2>1. PICK w \in Worker : Work(w)
    BY <1>18, Zenon
  <2>2. main.stage = "measure"
    BY <2>1, Zenon DEF Work
  <2>3. main' = main /\ file' = file /\ used'.fresh = used.fresh
    BY <2>1, WorkStep, Zenon DEF Others
  <2>4. /\ PhaseOf = "measuring" /\ PhaseOf' = "measuring" /\ GasOf = Worker /\ GasOf' = Worker
        /\ TrackedOf' \in [Worker -> SUBSET Nat]
    BY <1>1, <1>4, <1>5, <2>2, <2>3, Zenon DEF Mapped
  <2> QED
    BY <1>3, <2>3, <2>4, MapWork, Zenon DEF Abstract!Next
<1>19. CASE SaveCreate
  <2>1. /\ main.stage = "measure" /\ main' = [main EXCEPT !.stage = "saving"]
        /\ file' = [NoFile EXCEPT !.kind = "torn"] /\ ws' = ws /\ used' = used
    BY <1>19, Zenon DEF SaveCreate
  <2>2. main'.stage = "saving" /\ main'.keys = main.keys
    BY <1>2, <2>1, Zenon DEF RunType, MainState
  <2>3. file'.kind = "torn"
    BY <2>1, Zenon DEF NoFile
  <2>4. Measuring /\ Measuring'
    BY <1>4, <1>5, <2>1, <2>2, Zenon
  <2>5. PhaseOf = "measuring" /\ PhaseOf' = "saving" /\ GasOf' = GasOf
    BY <1>1, <2>1, <2>2, <2>4, Zenon DEF Mapped
  <2>6. SavedOf' = Abstract!NoFile
    BY <1>1, <2>3, Zenon DEF Mapped, Abstract!NoFile, Abstract!Nothing
  <2>7. TrackedOf' = TrackedOf
    BY <2>1, <2>4, Zenon DEF TrackedOf
  <2> QED
    BY <2>1, <2>2, <2>5, <2>6, <2>7, MapBeginSave, Zenon DEF Abstract!Next
<1>20. CASE SaveWrite
  <2>1. /\ main.stage = "saving" /\ Quit
        /\ file' = [kind |-> "saved", keys |-> main.keys, objects |-> [w \in Worker |-> ws[w].objects]]
    BY <1>20, Zenon DEF SaveWrite
  <2>2. Abstract!Quit /\ PhaseOf = "saving" /\ Measuring
    BY <1>1, <1>4, <1>8, <2>1, Zenon DEF Mapped
  <2>3. SavedOf' = [identity |-> main.keys, tracked |-> TrackedOf]
    <3>1. \A w \in Worker : {r.id : r \in Range(file'.objects[w])} = TrackedOf[w]
      BY <2>1, <2>2, Zenon DEF TrackedOf
    <3>2. [w \in Worker |-> {r.id : r \in Range(file'.objects[w])}] = TrackedOf
      BY <3>1, Zenon DEF TrackedOf
    <3> QED
      BY <2>1, <3>2, Zenon DEF SavedOf
  <2> QED
    BY <2>2, <2>3, MapEndSave, Zenon DEF Abstract!Next
<1>21. CASE Ledger
  <2>1. main' = main /\ ws' = ws /\ file' = file
    BY <1>21, Zenon DEF Ledger, NewChain, FaucetPays, NodeExecute
  <2>2. used'.fresh = used.fresh
    <3>1. used \in [fresh : 0..MaxFresh, starts : Nat, work : Nat, faults : Nat, chains : Nat]
      BY <1>2, Zenon DEF RunType
    <3>2. \/ used' = used \/ used' = [used EXCEPT !.chains = @ + 1]
          \/ \E ok \in BOOLEAN : used' = [used EXCEPT !.faults = @ + IF ok THEN 0 ELSE 1]
      BY <1>21, Zenon DEF Ledger, NewChain, FaucetPays, NodeExecute
    <3> QED
      BY <3>1, <3>2, Zenon
  <2> QED
    BY <1>7, <2>1, <2>2, Zenon
<1>22. CASE UNCHANGED vars
  BY <1>7, <1>22, Zenon DEF vars
<1> QED
  BY <1>11, <1>12, <1>13, <1>14, <1>15, <1>16, <1>17, <1>18, <1>19, <1>20, <1>21, <1>22, ZenonT(30)
     DEF Next, Setup, Measured

\* The runs implement Phases (--save-objects, --load-objects): a run measures
\* only once every worker has gas, FRESH runs have keys of their own, LOAD runs
\* go on with the keys of the file and no object it does not name, and a file is
\* lost only to a save that was interrupted.
THEOREM SetupImplementsPhases == Spec => ImplementsPhases
<1>1. IInv /\ [Next]_vars => IInv'
  BY StepIInv, Zenon
<1> QED
  BY <1>1, Invariant, MappedInit, MappedStep, PTL DEF Spec, ImplementsPhases, Abstract!Spec
=============================================================================
