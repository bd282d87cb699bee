------------------------------ MODULE IoChurn ------------------------------
(***************************************************************************)
(* The Move package io_churn (fdp-sui/move/io_churn/sources): counters and *)
(* blobs, what each entry function does to them, and when its u64          *)
(* arithmetic or its assertion aborts it.  An aborted call leaves every    *)
(* object as it was (the Move VM's rule).  keccak256 is modelled as a      *)
(* function of its 16 bytes without collisions; whether a hash fits into   *)
(* 64 bits is left open.                                                   *)
(***************************************************************************)
EXTENDS Naturals, Sequences, FiniteSets, Functions, Bitwise

CONSTANTS
    Sender,         \* addresses that call the package
    MaxU64,         \* 2^64 - 1
    LcgMul, LcgInc, LcgMod,     \* 1103515245, 12345, 2147483648
    ByteMod,        \* 256
    BLOB_SIZE,      \* 4096
    BatchSizes,     \* {2, 4, 8}
    Entropy,        \* the u64 arguments callers pass
    MaxObjects,     \* bound: counters, and blobs, ever created
    MaxCalls,       \* bound: calls
    MaxEpoch        \* bound: epochs

\* The bit widths of the package: only the first step of the generator can
\* overflow, and a byte of its output is what is left modulo a divisor of LcgMod.
ASSUME LcgAssumption ==
    /\ LcgMul * (LcgMod - 1) + LcgInc <= MaxU64
    /\ LcgMod % ByteMod = 0

VARIABLES
    counters,   \* MicroCounters: identity -> fields
    blobs,      \* LargeBlobs: identity -> fields
    epoch,      \* the current epoch
    last,       \* the last call: function, object, whether it went through
    calls       \* bound

vars == <<counters, blobs, epoch, last, calls>>

U64 == 0..MaxU64
Fits(n) == n <= MaxU64
compute_checksum(value, nonce) == [value |-> value, nonce |-> nonce]

Init ==
    /\ counters = <<>> /\ blobs = <<>> /\ epoch = 0 /\ calls = 0
    /\ last = [call |-> "none", id |-> 0, ok |-> TRUE]

\* A call ends: with its effect, or aborted with none.
Return(call, id, ok) ==
    /\ calls < MaxCalls /\ calls' = calls + 1
    /\ last' = [call |-> call, id |-> id, ok |-> ok]
    /\ UNCHANGED epoch
Abort(call, id) == Return(call, id, FALSE) /\ UNCHANGED <<counters, blobs>>

NextEpoch == epoch < MaxEpoch /\ epoch' = epoch + 1 /\ UNCHANGED <<counters, blobs, last, calls>>
-----------------------------------------------------------------------------
(* Counters *)

NewCounter(sender, shared) ==
    [owner |-> sender, shared |-> shared, value |-> 0, nonce |-> epoch,
     checksum |-> compute_checksum(0, epoch)]

CreateCounters(call, sender, n, shared) ==
    /\ Len(counters) + n <= MaxObjects
    /\ counters' = counters \o [i \in 1..n |-> NewCounter(sender, shared)]
    /\ Return(call, 0, TRUE) /\ UNCHANGED blobs

create_batch(sender, count) == CreateCounters("create_batch", sender, count, FALSE)
create_shared(sender) == CreateCounters("create_shared", sender, 1, TRUE)

\* An owned object is an argument for its owner alone, a shared one for everyone.
MayUse(sender, c) == counters[c].owner = sender \/ counters[c].shared

\* Mutant: the checksum is not computed anew.
SetKeepsChecksum(c, value, nonce) == [c EXCEPT !.value = value, !.nonce = nonce]

Set(c, value, nonce) == [c EXCEPT !.value = value, !.nonce = nonce,
                                  !.checksum = compute_checksum(value, nonce)]

At(ids, c) == CHOOSE i \in DOMAIN ids : ids[i] = c

\* Mutant: the sum wraps instead of aborting.
IncrementWraps(call, ids, add) ==
    /\ counters' = [c \in DOMAIN counters |->
                       IF c \notin Range(ids) THEN counters[c]
                       ELSE Set(counters[c], counters[c].value + 1,
                                (counters[c].nonce + add[At(ids, c)]) % (MaxU64 + 1))]
    /\ Return(call, ids[1], TRUE) /\ UNCHANGED blobs

\* value + 1 and nonce + add[i], for the counters ids[i] in turn.
Increment(call, ids, add) ==
    IF \A i \in DOMAIN ids : Fits(counters[ids[i]].value + 1) /\ Fits(counters[ids[i]].nonce + add[i])
    THEN /\ counters' = [c \in DOMAIN counters |->
                            IF c \notin Range(ids) THEN counters[c]
                            ELSE Set(counters[c], counters[c].value + 1,
                                     counters[c].nonce + add[At(ids, c)])]
         /\ Return(call, ids[1], TRUE) /\ UNCHANGED blobs
    ELSE Abort(call, ids[1])

\* The clock's time in milliseconds is never 0 after genesis.
increment(c) == \E ms \in 1..2 : Increment("increment", <<c>>, <<ms>>)
increment_simple(c) == Increment("increment_simple", <<c>>, <<epoch + counters[c].value + 1>>)
batch_increment(ids) == Increment("batch_increment", ids, [i \in DOMAIN ids |-> epoch + i])

set_value(sender, c, value, entropy) ==
    IF counters[c].owner = sender
    THEN /\ counters' = [counters EXCEPT ![c] = Set(@, value, entropy ^^ epoch)]
         /\ Return("set_value", c, TRUE) /\ UNCHANGED blobs
    ELSE Abort("set_value", c)
-----------------------------------------------------------------------------
(* Blobs *)

\* state = (state * 1103515245 + 12345) % 2147483648, from the seed on.
LcgStates(seed) ==
    LET state[i \in 0..BLOB_SIZE] ==
            IF i = 0 THEN seed ELSE (state[i - 1] * LcgMul + LcgInc) % LcgMod
    IN state
generate_blob_data(seed) == LET state == LcgStates(seed) IN [i \in 1..BLOB_SIZE |-> state[i] % ByteMod]
Generates(seed) == Fits(seed * LcgMul + LcgInc)     \* otherwise the first step aborts

NewBlob(sender) == [owner |-> sender, alive |-> TRUE, version |-> 0,
                    data |-> generate_blob_data(epoch), checksum |-> compute_checksum(0, epoch),
                    seed |-> epoch]

create_blob_batch(sender, count) ==
    /\ Len(blobs) + count <= MaxObjects
    /\ blobs' = blobs \o [i \in 1..count |-> NewBlob(sender)]
    /\ Return("create_blob_batch", 0, TRUE) /\ UNCHANGED counters

NextVersion(b) == blobs[b].version + 1

\* version + 1, new data from the seed, new checksum; aborts when the arithmetic does.
Rewrite(call, b, seed) ==
    LET v == NextVersion(b)
    IN IF Fits(v) /\ Fits(seed) /\ Generates(seed)
       THEN /\ blobs' = [blobs EXCEPT ![b].version = v, ![b].seed = seed,
                             ![b].data = generate_blob_data(seed),
                             ![b].checksum = compute_checksum(v, seed)]
            /\ Return(call, b, TRUE) /\ UNCHANGED counters
       ELSE Abort(call, b)

update_blob(b) == Rewrite("update_blob", b, epoch + NextVersion(b))
update_blob_entropy(b, e) == Rewrite("update_blob_entropy", b, (epoch ^^ e) ^^ NextVersion(b))

\* The checksum read is cast to u64, which aborts unless it happens to fit.
read_update_blob(r, b) ==
    \/ Abort("read_update_blob", b)
    \/ \E e \in Entropy : Rewrite("read_update_blob", b, (epoch ^^ e) ^^ NextVersion(b))

delete_blob(b) ==
    /\ blobs' = [blobs EXCEPT ![b].alive = FALSE]
    /\ Return("delete_blob", b, TRUE) /\ UNCHANGED counters
-----------------------------------------------------------------------------
Distinct(n) == {s \in [1..n -> DOMAIN counters] : \A i, j \in 1..n : s[i] = s[j] => i = j}

CounterCall(sender) ==
    \/ \E n \in 1..2 : create_batch(sender, n)
    \/ create_shared(sender)
    \/ \E c \in DOMAIN counters : MayUse(sender, c) /\ (increment(c) \/ increment_simple(c))
    \/ \E c \in DOMAIN counters, v \in {0, MaxU64} : \E e \in Entropy :
           MayUse(sender, c) /\ set_value(sender, c, v, e)
    \/ \E n \in BatchSizes : \E ids \in Distinct(n) :
           (\A i \in 1..n : MayUse(sender, ids[i])) /\ batch_increment(ids)

BlobCall(sender) ==
    LET Mine == {b \in DOMAIN blobs : blobs[b].owner = sender /\ blobs[b].alive}
    IN \/ \E n \in 1..2 : create_blob_batch(sender, n)
       \/ \E b \in Mine : update_blob(b) \/ delete_blob(b)
       \/ \E b \in Mine, e \in Entropy : update_blob_entropy(b, e)
       \/ \E r \in Mine : \E b \in Mine \ {r} : read_update_blob(r, b)

Next == NextEpoch \/ \E sender \in Sender : CounterCall(sender) \/ BlobCall(sender)

Spec == Init /\ [][Next]_vars
-----------------------------------------------------------------------------
(* Properties *)

\* All counters are u64 values: arithmetic aborts, it never wraps or overflows.
TypeOK ==
    /\ \A c \in DOMAIN counters : counters[c].value \in U64 /\ counters[c].nonce \in U64
    /\ \A b \in DOMAIN blobs : blobs[b].version \in U64 /\ blobs[b].data \in [1..BLOB_SIZE -> 0..(ByteMod - 1)]

\* Whatever calls succeeded or aborted, a checksum is the one of the fields
\* stored beside it, and a blob's data are the ones its seed generates.
ChecksumsMatch ==
    /\ \A c \in DOMAIN counters : counters[c].checksum = compute_checksum(counters[c].value, counters[c].nonce)
    /\ \A b \in DOMAIN blobs : /\ blobs[b].checksum = compute_checksum(blobs[b].version, blobs[b].seed)
                               /\ blobs[b].data = generate_blob_data(blobs[b].seed)

\* A counter that increment_simple cannot update any more stays so, whatever
\* epoch it is and whatever else is called, until its owner sets it back.
Exhausted(c) == ~Fits(counters[c].nonce + epoch + counters[c].value + 1)
ExhaustedForGood ==
    [][\A c \in DOMAIN counters :
          Exhausted(c) => Exhausted(c)' \/ (last'.call = "set_value" /\ last'.id = c)]_vars

\* What io_churn.move:23 says, "Each update writes 4KB of unique data", of two
\* blobs updated from different seeds.  generate_blob_data keeps the low bits of
\* a generator whose low bits only depend on the low bits of its seed.
UniqueData ==
    \A a, b \in DOMAIN blobs :
        blobs[a].version > 0 /\ blobs[b].version > 0 /\ blobs[a].seed # blobs[b].seed
            => blobs[a].data # blobs[b].data
=============================================================================
