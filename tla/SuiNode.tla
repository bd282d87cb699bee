------------------------------ MODULE SuiNode ------------------------------
(***************************************************************************)
(* The Sui full node and validator behind --rpc-url, as far as the load    *)
(* generator in fdp-sui/src/main.rs can tell its behaviours apart.  The    *)
(* node is not part of the repository: everything here is external and is  *)
(* read off the calls main.rs makes (execute_transaction_block) and the    *)
(* parts of the answer it uses (gas_object, Created, Mutated).             *)
(*                                                                         *)
(* Every worker has its own address, so its gas coin and its objects are   *)
(* touched by its own transactions only and the ledger is kept per worker. *)
(* An execution gives the gas coin, every input and every created object   *)
(* one common new version, one above the gas coin's (Sui's version rule:   *)
(* the gas coin is an input of every transaction of its owner, so it is    *)
(* never older than the other inputs).                                     *)
(***************************************************************************)
EXTENDS Naturals, Sequences, FiniteSets

CONSTANTS
    Worker,         \* the workers (one address and key pair each)
    SeedObjects     \* objects of each worker that setup created

ASSUME WorkerAssumption == IsFiniteSet(Worker) /\ Worker # {}
ASSUME SeedAssumption == SeedObjects \in Nat

VARIABLES
    chain,  \* chain[w].gas: version of w's gas coin; chain[w].obj[i]: of w's i-th object
    net,    \* net[w]: transactions of w sent and not executed: on the wire or at the node
    done    \* done[w]: the last executed transaction of w, with what its effects say

nodeVars == <<chain, net, done>>

\* An object reference as a transaction carries it: identity and version.
\* The digest is left out: version determines it.
TrackedObject == [id : Nat \ {0}, version : Nat]

\* A signed transaction.  Two sends of equal contents have one digest, so they
\* are one transaction to the node: `create' is the argument of create_batch,
\* 0 for an update, and `inputs' are the owned objects an update takes, in a
\* round-robin order that `first' (0 for a create) determines.
Transaction == [gas : Nat, create : Nat, inputs : SUBSET TrackedObject, first : Nat]

Ids(refs) == {r.id : r \in refs}

NoTx == [gas |-> 0, create |-> 0, inputs |-> {}, first |-> 0]

\* Effects: the executed transaction, whether its Move calls succeeded, and the
\* number of w's objects before it (the created ones come right after).
Effects == [tx : Transaction, ok : BOOLEAN, base : Nat]

NodeTypeOK ==
    /\ chain \in [Worker -> [gas : Nat \ {0}, obj : Seq(Nat)]]
    /\ net \in [Worker -> SUBSET Transaction]
    /\ done \in [Worker -> Effects]

NodeInit ==
    /\ chain = [w \in Worker |-> [gas |-> 1, obj |-> [i \in 1..SeedObjects |-> 1]]]
    /\ net = [w \in Worker |-> {}]
    /\ done = [w \in Worker |-> [tx |-> NoTx, ok |-> TRUE, base |-> 0]]

\* Every reference the transaction carries is the current one.
Current(w, tx) ==
    /\ tx.gas = chain[w].gas
    /\ \A r \in tx.inputs : r.id \in 1..Len(chain[w].obj) /\ r.version = chain[w].obj[r.id]

\* What an execution leaves of w's objects: inputs get the new version whether
\* or not the Move calls succeed; objects appear only when they do.
ObjectsAfter(w, tx, ok) ==
    LET v == tx.gas + 1
        n == Len(chain[w].obj)
    IN [i \in 1..(n + IF ok THEN tx.create ELSE 0) |->
           IF i > n \/ i \in Ids(tx.inputs) THEN v ELSE chain[w].obj[i]]

\* The node executes a transaction whose references are current.  Whatever else
\* w has outstanding names the same gas coin version, and is dead from here on.
Execute(w, tx, ok) ==
    /\ tx \in net[w]
    /\ Current(w, tx)
    /\ chain' = [chain EXCEPT ![w] = [gas |-> tx.gas + 1, obj |-> ObjectsAfter(w, tx, ok)]]
    /\ done' = [done EXCEPT ![w] = [tx |-> tx, ok |-> ok, base |-> Len(chain[w].obj)]]
    /\ net' = [net EXCEPT ![w] = {}]

\* Sent to the node: equal transactions are one.
Submit(w, tx) ==
    /\ net' = [net EXCEPT ![w] = @ \cup {tx}]
    /\ UNCHANGED <<chain, done>>

\* Refused, now and for good, without being executed.
Refuse(w, tx) ==
    /\ net' = [net EXCEPT ![w] = @ \ {tx}]
    /\ UNCHANGED <<chain, done>>

\* The effects of a transaction are known to the node once it has executed, and
\* are the answer to every later send of the same transaction.
Executed(w, tx) == done[w].tx = tx
=============================================================================
