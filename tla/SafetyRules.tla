----------------------------- MODULE SafetyRules -----------------------------
(* The safety rules of the Aptos validator (src/fdp-aptos/consensus/          *)
(* safety-rules): what a validator signs, what it writes to its secure storage *)
(* before the signature leaves it, and how it comes back after a crash or a    *)
(* change of epoch.  The correct validators run this code; the others, Faulty, *)
(* sign anything.  Certificates are what the signatures published so far can   *)
(* be aggregated into, so a certificate may reach any validator at any time,   *)
(* late, twice or never.  Signatures are unforgeable: a signed message is a    *)
(* member of a set.                                                            *)
(*                                                                             *)
(* A call is one step: its callers hold a mutex around it.  A crash in the     *)
(* middle of a call is a write to the storage that fails, with or without      *)
(* effect, followed by Crash: nothing that call signed has left the validator. *)
(* sign_proposal and sign_commit_vote change no state and are not actions.     *)
EXTENDS Naturals

CONSTANTS
    Replica,        \* the validators, the same in every epoch
    Faulty,         \* those that need not run this code
    Quorum,         \* the sets of validators with 2f+1 of the voting power
    Block,          \* blocks that may be proposed
    EpochOf(_), Round(_),   \* their epoch and round
    Parent(_),      \* the block certified by the quorum certificate they carry
    MaxEpoch,       \* bound: last epoch
    MaxRound,       \* bound: last round of a timeout
    MaxDisturbances \* bound: crashes, failing writes, missing keys, proofs of a new epoch

Epoch == 1..MaxEpoch
Correct == Replica \ Faulty

ASSUME QuorumAssumption ==
    /\ Quorum \subseteq SUBSET Replica
    /\ \A P, Q \in Quorum : P \cap Q \cap Correct # {}

\* Block::verify_well_formed; the parent of a genesis block is itself.
ASSUME BlockAssumption ==
    \A b \in Block :
        /\ EpochOf(b) \in Nat /\ Round(b) \in Nat
        /\ Parent(b) \in Block /\ EpochOf(Parent(b)) = EpochOf(b)
        /\ IF Round(b) = 0 THEN Parent(b) = b ELSE Round(Parent(b)) < Round(b)

\* BlockStore accepts no other genesis block than the one of its root.
ASSUME GenesisAssumption ==
    \A b, c \in Block : Round(b) = 0 /\ Round(c) = 0 /\ EpochOf(b) = EpochOf(c) => b = c

ASSUME BoundsAssumption == MaxEpoch \in Nat /\ MaxRound \in Nat /\ MaxDisturbances \in Nat

VARIABLES
    store,      \* SAFETY_DATA in the secure storage of each correct validator
    waypoint,   \* WAYPOINT there, as the epoch its ledger info starts
    cache,      \* cached_safety_data: {} for None, {d} for Some(d)
    signs,      \* validator_signer and epoch_state are set
    votes,      \* votes that left their validator: <<validator, block>>
    orders,     \* order votes: <<validator, block>>
    timeouts,   \* timeouts: [author, epoch, round, hqc]
    disturbances    \* crashes, failing writes, missing keys and proofs of a new epoch so far

vars == <<store, waypoint, cache, signs, votes, orders, timeouts, disturbances>>

Higher(m, n) == IF m > n THEN m ELSE n

SafetyData == [epoch : Nat, last_voted_round : Nat, preferred_round : Nat,
               one_chain_round : Nat, last_vote : SUBSET Block, highest_timeout_round : Nat]

\* SafetyData::new for an epoch; last_vote is {} for None and {b} for a vote for b.
NewEpoch(e) == [epoch |-> e, last_voted_round |-> 0, preferred_round |-> 0,
                one_chain_round |-> 0, last_vote |-> {}, highest_timeout_round |-> 0]

Timeout == [author : Correct, epoch : Nat, round : Nat, hqc : Nat]

TypeOK ==
    /\ store \in [Correct -> SafetyData]
    /\ waypoint \in [Correct -> Nat]
    /\ cache \in [Correct -> SUBSET SafetyData]
    /\ signs \in [Correct -> BOOLEAN]
    /\ votes \subseteq Correct \X Block /\ orders \subseteq Correct \X Block
    /\ timeouts \subseteq Timeout
    /\ disturbances \in 0..MaxDisturbances

\* PersistentSafetyStorage::initialize and a first initialize for epoch 1.
Init ==
    /\ store = [r \in Correct |-> NewEpoch(1)]
    /\ waypoint = [r \in Correct |-> 1]
    /\ cache = [r \in Correct |-> {NewEpoch(1)}]
    /\ signs = [r \in Correct |-> TRUE]
    /\ votes = {} /\ orders = {} /\ timeouts = {}
    /\ disturbances = 0

-----------------------------------------------------------------------------
\* Certificates.

\* QuorumCert::verify: a quorum voted for the block; genesis needs no votes.
Certified(b) ==
    Round(b) = 0 \/ \E Q \in Quorum : \A r \in Q : r \in Faulty \/ <<r, b>> \in votes

CertifiedRound(e, n) == \E b \in Block : EpochOf(b) = e /\ Round(b) = n /\ Certified(b)

\* TwoChainTimeoutCertificate::verify: a quorum timed out, and the certificate carries
\* a quorum certificate of the highest round that any of them signed.
TimedOut(e, n, h) ==
    /\ h < n /\ CertifiedRound(e, h)
    /\ \E Q \in Quorum :
        /\ \A r \in Q \ Faulty :
            \E t \in timeouts : t.author = r /\ t.epoch = e /\ t.round = n /\ t.hqc <= h
        /\ \E r \in Q : r \in Faulty \/ [author |-> r, epoch |-> e, round |-> n, hqc |-> h] \in timeouts

\* What may be passed for timeout_cert; without one the rules take 0 for its rounds.
\* verify_tc does not look at the certificate's epoch: that it is the block's is what the
\* callers check (SyncInfo::verify), and it is taken over from them here.
TimeoutCerts(e) ==
    {[round |-> 0, hqc |-> 0]} \cup
    {tc \in [round : 1..MaxRound, hqc : 0..MaxRound] : TimedOut(e, tc.round, tc.hqc)}

\* The ledger info of a vote commits the parent in the round before
\* (construct_ledger_info_2chain); the ledger info of an order vote, its block.
Ordered(b) ==
    \/ \E Q \in Quorum : \A r \in Q : r \in Faulty \/ <<r, b>> \in orders
    \/ \E c \in Block : Round(c) = Round(b) + 1 /\ Parent(c) = b /\ Certified(c)

-----------------------------------------------------------------------------
\* PersistentSafetyStorage.

\* safety_data: the cache, or what is stored.
Data(r) == IF cache[r] = {} THEN store[r] ELSE CHOOSE d \in cache[r] : TRUE

\* A write that returns an error may have reached the storage.
Outcome == {"ok", "lost", "unknown"}

Disturb == disturbances < MaxDisturbances /\ disturbances' = disturbances + 1
WriteOutcome(o) == IF o = "ok" THEN UNCHANGED disturbances ELSE Disturb

\* set_safety_data: a failed write drops the cache.
set_safety_data_stale_cache(r, d, o) ==
    /\ store' = IF o = "lost" THEN store ELSE [store EXCEPT ![r] = d]
    /\ UNCHANGED cache
set_safety_data(r, d, o) ==
    /\ store' = IF o = "lost" THEN store ELSE [store EXCEPT ![r] = d]
    /\ cache' = [cache EXCEPT ![r] = IF o = "ok" THEN {d} ELSE {}]

-----------------------------------------------------------------------------
\* SafetyRules.

\* observe_qc: the rounds of the certified block and of its parent.
observe_qc(d, b) ==
    [d EXCEPT !.one_chain_round = Higher(@, Round(b)),
              !.preferred_round = Higher(@, Round(Parent(b)))]

safe_to_vote(b, tc) ==
    \/ Round(b) = Round(Parent(b)) + 1
    \/ Round(b) = tc.round + 1 /\ Round(Parent(b)) >= tc.hqc

safe_to_timeout_any_qc(d, round, hqc, tc) == round = hqc + 1 \/ round = tc.round + 1
safe_to_timeout(d, round, hqc, tc) ==
    (round = hqc + 1 \/ round = tc.round + 1) /\ hqc >= d.one_chain_round

safe_for_order_vote(d, b) == Round(b) > d.highest_timeout_round

\* verify_proposal: the epoch is the stored one, and the block's certificate is valid.
verify_proposal(r, b) ==
    /\ signs[r] /\ EpochOf(b) = Data(r).epoch
    /\ Round(b) > 0 /\ Certified(Parent(b))

\* guarded_construct_and_sign_vote_two_chain when the last vote is of the same round:
\* that vote is returned again, whatever block is proposed.
VoteAgain(r, b) ==
    /\ \E v \in Data(r).last_vote : Round(v) = Round(b) /\ votes' = votes \cup {<<r, v>>}
    /\ verify_proposal(r, b)
    /\ cache' = [cache EXCEPT ![r] = {Data(r)}]
    /\ UNCHANGED <<store, waypoint, signs, orders, timeouts, disturbances>>

\* guarded_construct_and_sign_vote_two_chain otherwise: the vote is stored, then returned.
Vote(r, b, o) ==
    /\ WriteOutcome(o)
    /\ \A v \in Data(r).last_vote : Round(v) # Round(b)
    /\ Round(b) > Data(r).last_voted_round
    /\ verify_proposal(r, b)
    /\ \E tc \in TimeoutCerts(EpochOf(b)) : safe_to_vote(b, tc)
    /\ set_safety_data(r, [observe_qc(Data(r), Parent(b)) EXCEPT !.last_voted_round = Round(b),
                                                                 !.last_vote = {b}], o)
    /\ votes' = IF o = "ok" THEN votes \cup {<<r, b>>} ELSE votes
    /\ UNCHANGED <<waypoint, signs, orders, timeouts>>

\* guarded_sign_timeout_with_qc.
SignTimeout(r, round, hqc, o) ==
    LET d == Data(r)
    IN /\ WriteOutcome(o)
       /\ signs[r] /\ hqc < round /\ round >= d.last_voted_round
       /\ CertifiedRound(d.epoch, hqc)
       /\ \E tc \in TimeoutCerts(d.epoch) : safe_to_timeout(d, round, hqc, tc)
       /\ set_safety_data(r, [d EXCEPT !.last_voted_round = round,
                                       !.highest_timeout_round = Higher(@, round)], o)
       /\ timeouts' = IF o = "ok"
                      THEN timeouts \cup {[author |-> r, epoch |-> d.epoch, round |-> round, hqc |-> hqc]}
                      ELSE timeouts
       /\ UNCHANGED <<waypoint, signs, votes, orders>>

\* guarded_construct_and_sign_order_vote.
OrderVote(r, b, o) ==
    LET d == observe_qc(Data(r), b)
    IN /\ WriteOutcome(o)
       /\ signs[r] /\ EpochOf(b) = d.epoch
       /\ safe_for_order_vote(d, b)
       /\ Certified(b)
       /\ set_safety_data(r, d, o)
       /\ orders' = IF o = "ok" THEN orders \cup {<<r, b>>} ELSE orders
       /\ UNCHANGED <<waypoint, signs, votes, timeouts>>

\* The proof starts an epoch the data is not of yet (Ordering::Less).
starts_epoch_again(r, e) == e >= Data(r).epoch
starts_epoch(r, e) == e > Data(r).epoch

\* guarded_initialize with a proof that ends at the start of epoch e and verifies against
\* the waypoint.  A newer waypoint is written first, with outcome p; then the data of a
\* newer epoch, with outcome o; then the signer takes the key of the epoch, if it is stored.
Initialize(r, e, p, o, stored) ==
    LET newer == e > waypoint[r]
        starts == starts_epoch(r, e)
    IN /\ e >= waypoint[r]
       /\ p # "ok" => newer /\ o = "ok"
       /\ o # "ok" => starts
       /\ IF newer \/ o # "ok" \/ ~stored THEN Disturb ELSE UNCHANGED disturbances
       /\ waypoint' = IF newer /\ p # "lost" THEN [waypoint EXCEPT ![r] = e] ELSE waypoint
       /\ IF p # "ok" \/ e < Data(r).epoch
          THEN UNCHANGED <<store, cache, signs>>
          ELSE /\ IF starts THEN set_safety_data(r, NewEpoch(e), o) ELSE UNCHANGED <<store, cache>>
               /\ signs' = [signs EXCEPT ![r] = IF o # "ok" THEN @ ELSE stored]
       /\ UNCHANGED <<votes, orders, timeouts>>

\* The process is killed; the storage stays.
Crash(r) ==
    /\ Disturb
    /\ cache' = [cache EXCEPT ![r] = {}]
    /\ signs' = [signs EXCEPT ![r] = FALSE]
    /\ UNCHANGED <<store, waypoint, votes, orders, timeouts>>

Next ==
    \E r \in Correct :
        \/ \E b \in Block : VoteAgain(r, b)
        \/ \E b \in Block, o \in Outcome : Vote(r, b, o)
        \/ \E round \in 1..MaxRound, hqc \in 0..MaxRound, o \in Outcome : SignTimeout(r, round, hqc, o)
        \/ \E b \in Block, o \in Outcome : OrderVote(r, b, o)
        \/ \E e \in Epoch, p \in Outcome, o \in Outcome, stored \in BOOLEAN : Initialize(r, e, p, o, stored)
        \/ Crash(r)

Spec == Init /\ [][Next]_vars

-----------------------------------------------------------------------------
\* b is c or an ancestor of c: in every set of blocks with c that is closed under Parent.
Ancestor(b, c) ==
    \A S \in SUBSET Block : c \in S /\ (\A x \in S : Parent(x) \in S) => b \in S

\* What is ordered, by a quorum certificate of the next round or by order votes, lies on
\* one chain in every epoch, whatever a third of the validators sign and whichever writes
\* fail (safe_to_vote, safe_to_timeout, safe_for_order_vote).
Agreement ==
    \A b, c \in {x \in Block : Ordered(x)} :
        EpochOf(b) = EpochOf(c) => Ancestor(b, c) \/ Ancestor(c, b)

\* Once a block is ordered, no block of a later round is certified whose own certificate
\* is of an earlier round than the ordered one: nothing can branch off below it.
OrderedLocks ==
    \A b \in {x \in Block : Ordered(x)}, c \in {x \in Block : Certified(x)} :
        EpochOf(c) = EpochOf(b) /\ Round(c) > Round(b) => Round(Parent(c)) >= Round(b)

\* What a validator has stored never goes back within an epoch, and the epoch never goes
\* back: not after a crash, a failing write, or an old proof (guarded_initialize).
StoredGrows ==
    [][\A r \in Correct :
        \/ store'[r].epoch > store[r].epoch
        \/ /\ store'[r].epoch = store[r].epoch
           /\ store'[r].last_voted_round >= store[r].last_voted_round
           /\ store'[r].one_chain_round >= store[r].one_chain_round
           /\ store'[r].preferred_round >= store[r].preferred_round
           /\ store'[r].highest_timeout_round >= store[r].highest_timeout_round]_vars
=============================================================================
