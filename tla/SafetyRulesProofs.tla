-------------------------- MODULE SafetyRulesProofs --------------------------
(* Proofs about SafetyRules, for any set of validators, any quorums that meet  *)
(* in a correct validator, any tree of blocks and any number of crashes,       *)
(* failing writes and epochs: stored data only grow, nothing is certified that *)
(* branches off below an ordered block, and the ordered blocks of an epoch lie *)
(* on one chain.                                                               *)
(*                                                                             *)
(* ReplicaInv ties what one validator has signed to what it has stored.  The   *)
(* vote in the storage counts as signed: a write whose outcome was unknown may *)
(* be found there after a restart, and is then sent.  ChainInv says of every   *)
(* certified block that each earlier round is either that of one of its        *)
(* certified ancestors or is jumped over by a certified block.                 *)
EXTENDS SafetyRules, TLAPS

Cast(r, b) == <<r, b>> \in votes \/ b \in store[r].last_vote

Justified(b) ==
    /\ Round(b) > 0 /\ Certified(Parent(b))
    /\ \/ Round(b) = Round(Parent(b)) + 1
       \/ \E h \in 0..Round(Parent(b)) : TimedOut(EpochOf(b), Round(b) - 1, h)

Stored(r, e, voted, chain, timeout) ==
    /\ e <= store[r].epoch
    /\ e = store[r].epoch => /\ voted <= store[r].last_voted_round
                             /\ chain <= store[r].one_chain_round
                             /\ timeout <= store[r].highest_timeout_round

ReplicaInv(r) ==
    /\ cache[r] \in {{}, {store[r]}}
    /\ \A b \in store[r].last_vote : EpochOf(b) = store[r].epoch
    /\ \A b \in Block : Cast(r, b) =>
        Justified(b) /\ Stored(r, EpochOf(b), Round(b), Round(Parent(b)), 0)
    /\ \A b \in Block : <<r, b>> \in orders =>
        Certified(b) /\ Stored(r, EpochOf(b), 0, Round(b), 0)
    /\ \A t \in timeouts : t.author = r => Stored(r, t.epoch, t.round, 0, t.round)
    /\ \A b, c \in Block :
        Cast(r, b) /\ Cast(r, c) /\ EpochOf(b) = EpochOf(c) /\ Round(b) = Round(c) => b = c
    /\ \A t \in timeouts, b \in Block : t.author = r /\ t.epoch = EpochOf(b) /\ t.round >= Round(b) =>
        /\ Cast(r, b) => t.hqc >= Round(Parent(b))
        /\ <<r, b>> \in orders => t.hqc >= Round(b)

SafetyInv == \A r \in Correct : ReplicaInv(r)

ChainInv ==
    \A c \in Block, n \in Nat : Certified(c) /\ n < Round(c) =>
        \/ \E b \in Block : /\ Round(b) = n /\ EpochOf(b) = EpochOf(c)
                            /\ Certified(b) /\ Ancestor(b, c)
        \/ \E p \in Block : /\ EpochOf(p) = EpochOf(c) /\ Certified(p)
                            /\ Round(Parent(p)) < n /\ n < Round(p)

-----------------------------------------------------------------------------
\* What is read is what is stored.
LEMMA DataIsStore ==
    ASSUME NEW r \in Correct, ReplicaInv(r)
    PROVE  Data(r) = store[r]
<1>1. CASE cache[r] = {}
    BY <1>1, Zenon DEF Data
<1>2. CASE cache[r] = {store[r]}
    <2>1. (CHOOSE d \in {store[r]} : TRUE) = store[r]
        BY Zenon
    <2> QED
        BY <1>2, <2>1, Zenon DEF Data
<1> QED
    BY <1>1, <1>2, Zenon DEF ReplicaInv

\* Certificates stay valid while signatures are only added.
LEMMA CertifiedStays ==
    ASSUME votes \subseteq votes', NEW b, Certified(b)
    PROVE  Certified(b)'
BY Zenon DEF Certified

LEMMA TimedOutStays ==
    ASSUME votes \subseteq votes', timeouts \subseteq timeouts', NEW e, NEW n, NEW h, TimedOut(e, n, h)
    PROVE  TimedOut(e, n, h)'
<1>1. CertifiedRound(e, h)'
    BY CertifiedStays, Zenon DEF TimedOut, CertifiedRound
<1> QED
    BY <1>1, Zenon DEF TimedOut

LEMMA JustifiedStays ==
    ASSUME votes \subseteq votes', timeouts \subseteq timeouts', NEW b, Justified(b)
    PROVE  Justified(b)'
BY CertifiedStays, TimedOutStays, Zenon DEF Justified

\* Signatures are never taken back.
LEMMA SignaturesStay ==
    ASSUME [Next]_vars
    PROVE  votes \subseteq votes' /\ orders \subseteq orders' /\ timeouts \subseteq timeouts'
<1>1. CASE UNCHANGED vars
    BY <1>1, Zenon DEF vars
<1>2. ASSUME NEW r \in Correct, NEW b \in Block, VoteAgain(r, b)
      PROVE  votes \subseteq votes' /\ orders \subseteq orders' /\ timeouts \subseteq timeouts'
    BY <1>2, Zenon DEF VoteAgain
<1>3. ASSUME NEW r \in Correct, NEW b \in Block, NEW o \in Outcome, Vote(r, b, o)
      PROVE  votes \subseteq votes' /\ orders \subseteq orders' /\ timeouts \subseteq timeouts'
    BY <1>3, Zenon DEF Vote
<1>4. ASSUME NEW r \in Correct, NEW round \in 1..MaxRound, NEW hqc \in 0..MaxRound, NEW o \in Outcome,
             SignTimeout(r, round, hqc, o)
      PROVE  votes \subseteq votes' /\ orders \subseteq orders' /\ timeouts \subseteq timeouts'
    BY <1>4, Zenon DEF SignTimeout
<1>5. ASSUME NEW r \in Correct, NEW b \in Block, NEW o \in Outcome, OrderVote(r, b, o)
      PROVE  votes \subseteq votes' /\ orders \subseteq orders' /\ timeouts \subseteq timeouts'
    BY <1>5, Zenon DEF OrderVote
<1>6. ASSUME NEW r \in Correct, NEW e \in Epoch, NEW p \in Outcome, NEW o \in Outcome,
             NEW stored \in BOOLEAN, Initialize(r, e, p, o, stored)
      PROVE  votes \subseteq votes' /\ orders \subseteq orders' /\ timeouts \subseteq timeouts'
    BY <1>6, Zenon DEF Initialize, starts_epoch
<1>7. ASSUME NEW r \in Correct, Crash(r)
      PROVE  votes \subseteq votes' /\ orders \subseteq orders' /\ timeouts \subseteq timeouts'
    BY <1>7, Zenon DEF Crash
<1> QED
    BY <1>1, <1>2, <1>3, <1>4, <1>5, <1>6, <1>7, Zenon DEF Next

-----------------------------------------------------------------------------
\* Types.

LEMMA WriteTyped ==
    ASSUME TypeOK, NEW r \in Correct, NEW d \in SafetyData, NEW o \in Outcome, set_safety_data(r, d, o)
    PROVE  /\ store' \in [Correct -> SafetyData]
           /\ cache' \in [Correct -> SUBSET SafetyData]
BY Zenon DEF TypeOK, set_safety_data

LEMMA ObserveTyped ==
    ASSUME NEW d \in SafetyData, NEW b \in Block
    PROVE  observe_qc(d, b) \in SafetyData
BY BlockAssumption, Zenon DEF observe_qc, SafetyData, Higher

LEMMA TimeoutTyped ==
    ASSUME NEW d \in SafetyData, NEW n \in Nat
    PROVE  [d EXCEPT !.last_voted_round = n, !.highest_timeout_round = Higher(@, n)] \in SafetyData
BY Zenon DEF SafetyData, Higher

LEMMA NewEpochTyped ==
    ASSUME NEW e \in Nat
    PROVE  NewEpoch(e) \in SafetyData
BY Zenon DEF NewEpoch, SafetyData

LEMMA OutcomeTyped ==
    ASSUME TypeOK, NEW o, WriteOutcome(o)
    PROVE  disturbances' \in 0..MaxDisturbances
BY BoundsAssumption DEF TypeOK, WriteOutcome, Disturb

\* Every action keeps the types.
LEMMA TypeStep ==
    ASSUME TypeOK, SafetyInv, [Next]_vars
    PROVE  TypeOK'
<1> USE BoundsAssumption, BlockAssumption
<1>0. \A r \in Correct : Data(r) = store[r] /\ store[r] \in SafetyData
    BY DataIsStore, Zenon DEF SafetyInv, TypeOK
<1>1. CASE UNCHANGED vars
    BY <1>1, Zenon DEF vars, TypeOK
<1>2. ASSUME NEW r \in Correct, NEW b \in Block, VoteAgain(r, b)
      PROVE  TypeOK'
    <2>1. cache' \in [Correct -> SUBSET SafetyData]
        BY <1>0, <1>2, Zenon DEF VoteAgain, TypeOK
    <2>2. votes' \subseteq Correct \X Block
        BY <1>0, <1>2 DEF VoteAgain, TypeOK, SafetyData
    <2> QED
        BY <1>2, <2>1, <2>2, Zenon DEF VoteAgain, TypeOK
<1>3. ASSUME NEW r \in Correct, NEW b \in Block, NEW o \in Outcome, Vote(r, b, o)
      PROVE  TypeOK'
    <2> DEFINE d == [observe_qc(Data(r), Parent(b)) EXCEPT !.last_voted_round = Round(b), !.last_vote = {b}]
    <2>1. d \in SafetyData
        <3>1. observe_qc(Data(r), Parent(b)) \in SafetyData
            BY <1>0, ObserveTyped, Zenon
        <3> QED
            BY <3>1, Zenon DEF SafetyData
    <2>2. store' \in [Correct -> SafetyData] /\ cache' \in [Correct -> SUBSET SafetyData]
        BY <1>3, <2>1, WriteTyped, Zenon DEF Vote
    <2>3. disturbances' \in 0..MaxDisturbances
        BY <1>3, OutcomeTyped, Zenon DEF Vote
    <2> QED
        BY <1>3, <2>2, <2>3 DEF Vote, TypeOK
<1>4. ASSUME NEW r \in Correct, NEW round \in 1..MaxRound, NEW hqc \in 0..MaxRound, NEW o \in Outcome,
             SignTimeout(r, round, hqc, o)
      PROVE  TypeOK'
    <2> DEFINE d == [Data(r) EXCEPT !.last_voted_round = round, !.highest_timeout_round = Higher(@, round)]
    <2>1. d \in SafetyData
        <3>1. Data(r) \in SafetyData /\ round \in Nat
            BY <1>0
        <3> QED
            BY <3>1, TimeoutTyped, Zenon
    <2>2. store' \in [Correct -> SafetyData] /\ cache' \in [Correct -> SUBSET SafetyData]
        BY <1>4, <2>1, WriteTyped, Zenon DEF SignTimeout
    <2>3. disturbances' \in 0..MaxDisturbances
        BY <1>4, OutcomeTyped, Zenon DEF SignTimeout
    <2>4. [author |-> r, epoch |-> Data(r).epoch, round |-> round, hqc |-> hqc] \in Timeout
        BY <1>0 DEF Timeout, SafetyData
    <2> QED
        BY <1>4, <2>2, <2>3, <2>4, Zenon DEF SignTimeout, TypeOK
<1>5. ASSUME NEW r \in Correct, NEW b \in Block, NEW o \in Outcome, OrderVote(r, b, o)
      PROVE  TypeOK'
    <2>1. observe_qc(Data(r), b) \in SafetyData
        BY <1>0, ObserveTyped, Zenon
    <2>2. store' \in [Correct -> SafetyData] /\ cache' \in [Correct -> SUBSET SafetyData]
        BY <1>5, <2>1, WriteTyped, Zenon DEF OrderVote
    <2>3. disturbances' \in 0..MaxDisturbances
        BY <1>5, OutcomeTyped, Zenon DEF OrderVote
    <2> QED
        BY <1>5, <2>2, <2>3 DEF OrderVote, TypeOK
<1>6. ASSUME NEW r \in Correct, NEW e \in Epoch, NEW p \in Outcome, NEW o \in Outcome,
             NEW stored \in BOOLEAN, Initialize(r, e, p, o, stored)
      PROVE  TypeOK'
    <2>1. store' \in [Correct -> SafetyData] /\ cache' \in [Correct -> SUBSET SafetyData]
        <3>1. CASE set_safety_data(r, NewEpoch(e), o)
            BY <3>1, WriteTyped, NewEpochTyped DEF Epoch
        <3>2. CASE UNCHANGED <<store, cache>>
            BY <3>2, Zenon DEF TypeOK
        <3> QED
            BY <1>6, <3>1, <3>2, Zenon DEF Initialize, starts_epoch
    <2>2. signs' \in [Correct -> BOOLEAN]
        BY <1>6, Zenon DEF Initialize, starts_epoch, TypeOK
    <2>3. waypoint' \in [Correct -> Nat]
        BY <1>6 DEF Initialize, starts_epoch, TypeOK, Epoch
    <2>4. disturbances' \in 0..MaxDisturbances
        BY <1>6 DEF Initialize, starts_epoch, TypeOK, Disturb
    <2> QED
        BY <1>6, <2>1, <2>2, <2>3, <2>4, Zenon DEF Initialize, starts_epoch, TypeOK
<1>7. ASSUME NEW r \in Correct, Crash(r)
      PROVE  TypeOK'
    BY <1>7 DEF Crash, TypeOK, Disturb
<1> QED
    BY <1>1, <1>2, <1>3, <1>4, <1>5, <1>6, <1>7, Zenon DEF Next

-----------------------------------------------------------------------------
\* What one validator has signed and what it has stored.

\* A step that leaves the stored data of a validator alone, and publishes at most the
\* vote that is stored.
LEMMA Keeps ==
    ASSUME TypeOK, votes \subseteq votes', timeouts \subseteq timeouts',
           NEW r \in Correct, ReplicaInv(r),
           store'[r] = store[r], cache'[r] \in {{}, {store[r]}},
           \A b \in Block : <<r, b>> \in votes' => Cast(r, b),
           \A b \in Block : <<r, b>> \in orders' => <<r, b>> \in orders,
           \A t \in timeouts' : t.author = r => t \in timeouts
    PROVE  ReplicaInv(r)'
<1>1. \A b \in Block : Cast(r, b)' => Cast(r, b)
    BY Zenon DEF Cast
<1>2. \A b \in Block : Justified(b) => Justified(b)'
    BY JustifiedStays, Zenon
<1>3. \A b \in Block : Certified(b) => Certified(b)'
    BY CertifiedStays, Zenon
<1>4. \A e, i, j, k : Stored(r, e, i, j, k) => Stored(r, e, i, j, k)'
    BY Zenon DEF Stored
<1>5. \A b \in Block : Cast(r, b)' => (Justified(b) /\ Stored(r, EpochOf(b), Round(b), Round(Parent(b)), 0))'
    BY <1>1, <1>2, <1>4, Zenon DEF ReplicaInv
<1>6. \A b \in Block : <<r, b>> \in orders' => (Certified(b) /\ Stored(r, EpochOf(b), 0, Round(b), 0))'
    BY <1>3, <1>4, Zenon DEF ReplicaInv
<1>7. \A t \in timeouts' : t.author = r => Stored(r, t.epoch, t.round, 0, t.round)'
    BY <1>4, Zenon DEF ReplicaInv
<1>8. \A b, c \in Block :
        Cast(r, b)' /\ Cast(r, c)' /\ EpochOf(b) = EpochOf(c) /\ Round(b) = Round(c) => b = c
    BY <1>1, Zenon DEF ReplicaInv
<1>9. \A t \in timeouts', b \in Block : t.author = r /\ t.epoch = EpochOf(b) /\ t.round >= Round(b) =>
        /\ Cast(r, b)' => t.hqc >= Round(Parent(b))
        /\ <<r, b>> \in orders' => t.hqc >= Round(b)
    BY <1>1, Zenon DEF ReplicaInv
<1> QED
    BY <1>5, <1>6, <1>7, <1>8, <1>9, Zenon DEF ReplicaInv

\* The vote that is about to be signed is justified.
LEMMA VoteJustified ==
    ASSUME NEW r \in Correct, NEW b \in Block, NEW o, Vote(r, b, o)
    PROVE  Justified(b)
<1> USE BlockAssumption
<1>1. Round(b) > 0 /\ Certified(Parent(b))
    BY Zenon DEF Vote, verify_proposal
<1>2. PICK tc \in TimeoutCerts(EpochOf(b)) : safe_to_vote(b, tc)
    BY Zenon DEF Vote
<1>3. CASE tc = [round |-> 0, hqc |-> 0]
    <2>1. Round(b) = Round(Parent(b)) + 1
        BY <1>1, <1>2, <1>3 DEF safe_to_vote
    <2> QED
        BY <1>1, <2>1, Zenon DEF Justified
<1>4. CASE tc \in [round : 1..MaxRound, hqc : 0..MaxRound] /\ TimedOut(EpochOf(b), tc.round, tc.hqc)
    <2>1. CASE Round(b) = Round(Parent(b)) + 1
        BY <1>1, <2>1, Zenon DEF Justified
    <2>2. CASE Round(b) = tc.round + 1 /\ Round(Parent(b)) >= tc.hqc
        <3>1. tc.round = Round(b) - 1 /\ tc.hqc \in 0..Round(Parent(b))
            BY <1>4, <2>2, BoundsAssumption, SMTT(30)
        <3> QED
            BY <1>1, <1>4, <3>1, Zenon DEF Justified
    <2> QED
        BY <1>2, <2>1, <2>2, Zenon DEF safe_to_vote
<1> QED
    BY <1>3, <1>4, Zenon DEF TimeoutCerts

\* A vote that reached the storage, whether or not it was returned.
LEMMA VoteStored ==
    ASSUME TypeOK, votes \subseteq votes', timeouts \subseteq timeouts',
           NEW r \in Correct, ReplicaInv(r), NEW b \in Block, NEW o \in Outcome, Vote(r, b, o), o # "lost"
    PROVE  ReplicaInv(r)'
<1> USE BlockAssumption
<1> DEFINE s == store[r]
<1>0. Data(r) = s /\ s \in SafetyData
    BY DataIsStore, Zenon DEF TypeOK
<1>1. /\ store'[r].epoch = s.epoch
      /\ store'[r].last_voted_round = Round(b)
      /\ store'[r].one_chain_round = Higher(s.one_chain_round, Round(Parent(b)))
      /\ store'[r].highest_timeout_round = s.highest_timeout_round
      /\ store'[r].last_vote = {b}
      /\ cache'[r] \in {{}, {store'[r]}}
    BY <1>0, Zenon DEF Vote, set_safety_data, observe_qc, TypeOK, SafetyData
<1>2. EpochOf(b) = s.epoch /\ Round(b) > s.last_voted_round
    BY <1>0, Zenon DEF Vote, verify_proposal
<1>3. \A c \in Block : Cast(r, c)' => c = b \/ Cast(r, c)
    BY <1>1, Zenon DEF Cast, Vote
<1>4. orders' = orders /\ timeouts' = timeouts
    BY Zenon DEF Vote
<1>5. /\ s.last_voted_round \in Nat /\ s.one_chain_round \in Nat /\ s.epoch \in Nat
      /\ s.highest_timeout_round \in Nat
    BY <1>0, Zenon DEF SafetyData
<1>6. \A e, j, k \in Nat, n \in Nat : Stored(r, e, n, j, k) => Stored(r, e, n, j, k)'
    BY <1>1, <1>2, <1>5 DEF Stored, Higher
<1>7. (Justified(b) /\ Stored(r, EpochOf(b), Round(b), Round(Parent(b)), 0))'
    BY <1>1, <1>2, <1>5, VoteJustified, JustifiedStays DEF Stored, Higher
<1>8. \A c \in Block : Cast(r, c)' => (Justified(c) /\ Stored(r, EpochOf(c), Round(c), Round(Parent(c)), 0))'
    BY <1>3, <1>6, <1>7, JustifiedStays, SMTT(30) DEF ReplicaInv
<1>9. \A c \in Block : <<r, c>> \in orders' => (Certified(c) /\ Stored(r, EpochOf(c), 0, Round(c), 0))'
    BY <1>4, <1>6, CertifiedStays, Zenon DEF ReplicaInv
<1>10. \A t \in timeouts' : t.author = r => Stored(r, t.epoch, t.round, 0, t.round)'
    BY <1>4, <1>6, Zenon DEF ReplicaInv, TypeOK, Timeout
<1>11. \A c \in Block : Cast(r, c) /\ EpochOf(c) = EpochOf(b) => Round(c) < Round(b)
    BY <1>2, <1>5 DEF ReplicaInv, Stored
<1>12. \A x, c \in Block :
        Cast(r, x)' /\ Cast(r, c)' /\ EpochOf(x) = EpochOf(c) /\ Round(x) = Round(c) => x = c
    BY <1>3, <1>11 DEF ReplicaInv
<1>13. \A t \in timeouts' : t.author = r /\ t.epoch = EpochOf(b) => t.round < Round(b)
    BY <1>2, <1>4, <1>5 DEF ReplicaInv, Stored, TypeOK, Timeout
<1>14. \A t \in timeouts', c \in Block : t.author = r /\ t.epoch = EpochOf(c) /\ t.round >= Round(c) =>
        /\ Cast(r, c)' => t.hqc >= Round(Parent(c))
        /\ <<r, c>> \in orders' => t.hqc >= Round(c)
    <2> SUFFICES ASSUME NEW t \in timeouts', NEW c \in Block,
                        t.author = r, t.epoch = EpochOf(c), t.round >= Round(c)
                 PROVE  /\ Cast(r, c)' => t.hqc >= Round(Parent(c))
                        /\ <<r, c>> \in orders' => t.hqc >= Round(c)
        BY Zenon
    <2>1. c # b
        BY <1>4, <1>13 DEF TypeOK, Timeout
    <2> QED
        BY <1>3, <1>4, <2>1, Zenon DEF ReplicaInv
<1> QED
    BY <1>1, <1>2, <1>8, <1>9, <1>10, <1>12, <1>14, Zenon DEF ReplicaInv

\* A timeout that reached the storage: its quorum certificate is at least as high as any
\* this validator has observed.
LEMMA TimeoutStored ==
    ASSUME TypeOK, votes \subseteq votes', timeouts \subseteq timeouts',
           NEW r \in Correct, ReplicaInv(r), NEW round \in 1..MaxRound, NEW hqc \in 0..MaxRound,
           NEW o \in Outcome, SignTimeout(r, round, hqc, o), o # "lost"
    PROVE  ReplicaInv(r)'
<1> USE BlockAssumption, BoundsAssumption
<1> DEFINE s == store[r]
           new == [author |-> r, epoch |-> s.epoch, round |-> round, hqc |-> hqc]
<1>0. Data(r) = s /\ s \in SafetyData
    BY DataIsStore, Zenon DEF TypeOK
<1>1. /\ store'[r].epoch = s.epoch
      /\ store'[r].last_voted_round = round
      /\ store'[r].one_chain_round = s.one_chain_round
      /\ store'[r].highest_timeout_round = Higher(s.highest_timeout_round, round)
      /\ store'[r].last_vote = s.last_vote
      /\ cache'[r] \in {{}, {store'[r]}}
    BY <1>0, Zenon DEF SignTimeout, set_safety_data, TypeOK, SafetyData
<1>2. round >= s.last_voted_round /\ hqc >= s.one_chain_round
    BY <1>0, Zenon DEF SignTimeout, safe_to_timeout
<1>3. votes' = votes /\ orders' = orders /\ \A t \in timeouts' : t \in timeouts \/ t = new
    BY <1>0, SMTT(30) DEF SignTimeout
<1>4. \A c \in Block : Cast(r, c)' <=> Cast(r, c)
    BY <1>1, <1>3, Zenon DEF Cast
<1>5. /\ s.last_voted_round \in Nat /\ s.one_chain_round \in Nat /\ s.epoch \in Nat
      /\ s.highest_timeout_round \in Nat
    BY <1>0, Zenon DEF SafetyData
<1>6. \A e, j, k, n \in Nat : Stored(r, e, n, j, k) => Stored(r, e, n, j, k)'
    BY <1>1, <1>2, <1>5, SMTT(30) DEF Stored, Higher
<1>7. \A c \in Block : Cast(r, c)' => (Justified(c) /\ Stored(r, EpochOf(c), Round(c), Round(Parent(c)), 0))'
    BY <1>4, <1>6, JustifiedStays, SMTT(30) DEF ReplicaInv
<1>8. \A c \in Block : <<r, c>> \in orders' => (Certified(c) /\ Stored(r, EpochOf(c), 0, Round(c), 0))'
    BY <1>3, <1>6, CertifiedStays, Zenon DEF ReplicaInv
<1>9. ASSUME NEW t, t = new
      PROVE  Stored(r, t.epoch, t.round, 0, t.round)'
    BY <1>1, <1>5, <1>9, SMTT(30) DEF Stored, Higher
<1>10. \A t \in timeouts' : t.author = r => Stored(r, t.epoch, t.round, 0, t.round)'
    BY <1>3, <1>6, <1>9 DEF ReplicaInv, TypeOK, Timeout
<1>11. \A c \in Block : EpochOf(c) = s.epoch =>
        /\ Cast(r, c) => hqc >= Round(Parent(c))
        /\ <<r, c>> \in orders => hqc >= Round(c)
    BY <1>2, <1>5 DEF ReplicaInv, Stored
<1>12. ASSUME NEW t \in timeouts', NEW c \in Block, t.author = r, t.epoch = EpochOf(c), t.round >= Round(c)
       PROVE  /\ Cast(r, c)' => t.hqc >= Round(Parent(c))
              /\ <<r, c>> \in orders' => t.hqc >= Round(c)
    <2>1. CASE t \in timeouts
        <3>1. /\ Cast(r, c) => t.hqc >= Round(Parent(c))
              /\ <<r, c>> \in orders => t.hqc >= Round(c)
            BY <1>12, <2>1, Zenon DEF ReplicaInv
        <3> QED BY <1>3, <1>4, <3>1, Zenon
    <2>2. CASE t = new
        <3>1. t.epoch = s.epoch /\ t.hqc = hqc BY <2>2, Zenon
        <3> QED BY <1>3, <1>4, <1>11, <1>12, <3>1, Zenon
    <2> QED BY <1>3, <2>1, <2>2, Zenon
<1> QED
    BY <1>1, <1>4, <1>7, <1>8, <1>10, <1>12, Zenon DEF ReplicaInv

\* An order vote that reached the storage: no timeout of its round or a later one precedes it.
LEMMA OrderStored ==
    ASSUME TypeOK, votes \subseteq votes', timeouts \subseteq timeouts',
           NEW r \in Correct, ReplicaInv(r), NEW b \in Block, NEW o \in Outcome, OrderVote(r, b, o), o # "lost"
    PROVE  ReplicaInv(r)'
<1> USE BlockAssumption
<1> DEFINE s == store[r]
<1>0. Data(r) = s /\ s \in SafetyData
    BY DataIsStore, Zenon DEF TypeOK
<1>1. /\ store'[r].epoch = s.epoch
      /\ store'[r].last_voted_round = s.last_voted_round
      /\ store'[r].one_chain_round = Higher(s.one_chain_round, Round(b))
      /\ store'[r].highest_timeout_round = s.highest_timeout_round
      /\ store'[r].last_vote = s.last_vote
      /\ cache'[r] \in {{}, {store'[r]}}
    BY <1>0 DEF OrderVote, set_safety_data, observe_qc, TypeOK, SafetyData
<1>2. EpochOf(b) = s.epoch /\ Round(b) > s.highest_timeout_round /\ Certified(b)
    BY <1>0, Zenon DEF OrderVote, observe_qc, safe_for_order_vote, SafetyData
<1>3. votes' = votes /\ timeouts' = timeouts /\ \A c : <<r, c>> \in orders' => c = b \/ <<r, c>> \in orders
    BY Zenon DEF OrderVote
<1>4. \A c \in Block : Cast(r, c)' <=> Cast(r, c)
    BY <1>1, <1>3, Zenon DEF Cast
<1>5. /\ s.last_voted_round \in Nat /\ s.one_chain_round \in Nat /\ s.epoch \in Nat
      /\ s.highest_timeout_round \in Nat
    BY <1>0, Zenon DEF SafetyData
<1>6. \A e, j, k, n \in Nat : Stored(r, e, n, j, k) => Stored(r, e, n, j, k)'
    BY <1>1, <1>5, SMTT(30) DEF Stored, Higher
<1>7. \A c \in Block : Cast(r, c)' => (Justified(c) /\ Stored(r, EpochOf(c), Round(c), Round(Parent(c)), 0))'
    BY <1>4, <1>6, JustifiedStays, Zenon DEF ReplicaInv
<1>8. (Certified(b) /\ Stored(r, EpochOf(b), 0, Round(b), 0))'
    <2>1. Certified(b)' BY <1>2, CertifiedStays, Zenon
    <2>2. Round(b) \in Nat BY Zenon
    <2>3. Stored(r, EpochOf(b), 0, Round(b), 0)' BY <1>1, <1>2, <1>5, <2>2, SMTT(30) DEF Stored, Higher
    <2> QED BY <2>1, <2>3, Zenon
<1>9. \A c \in Block : <<r, c>> \in orders' => (Certified(c) /\ Stored(r, EpochOf(c), 0, Round(c), 0))'
    BY <1>3, <1>6, <1>8, CertifiedStays, SMTT(30) DEF ReplicaInv
<1>10. \A t \in timeouts' : t.author = r => Stored(r, t.epoch, t.round, 0, t.round)'
    BY <1>3, <1>6, SMTT(30) DEF ReplicaInv, TypeOK, Timeout
<1>11. \A t \in timeouts' : t.author = r /\ t.epoch = EpochOf(b) => t.round < Round(b)
    BY <1>2, <1>3, <1>5 DEF ReplicaInv, Stored, TypeOK, Timeout
<1>12. ASSUME NEW t \in timeouts', NEW c \in Block, t.author = r, t.epoch = EpochOf(c), t.round >= Round(c)
       PROVE  /\ Cast(r, c)' => t.hqc >= Round(Parent(c))
              /\ <<r, c>> \in orders' => t.hqc >= Round(c)
    <2>1. t \in timeouts BY <1>3, <1>12, Zenon
    <2>2. c # b
        <3>1. t.round \in Nat /\ Round(b) \in Nat BY <2>1, Zenon DEF TypeOK, Timeout
        <3> QED BY <1>11, <1>12, <3>1
    <2>3. /\ Cast(r, c) => t.hqc >= Round(Parent(c))
          /\ <<r, c>> \in orders => t.hqc >= Round(c)
        BY <1>12, <2>1, Zenon DEF ReplicaInv
    <2> QED BY <1>3, <1>4, <2>2, <2>3, Zenon
<1> QED
    BY <1>1, <1>4, <1>7, <1>9, <1>10, <1>12, Zenon DEF ReplicaInv

\* The data of a new epoch: everything signed so far is of an earlier one.
LEMMA EpochStored ==
    ASSUME TypeOK, NEW r \in Correct, ReplicaInv(r), NEW e \in Epoch, e > store[r].epoch,
           UNCHANGED <<votes, orders, timeouts>>,
           store'[r] = NewEpoch(e), cache'[r] \in {{}, {store'[r]}}
    PROVE  ReplicaInv(r)'
<1>1. store'[r].epoch = e /\ store'[r].last_vote = {} /\ e \in Nat /\ store[r].epoch \in Nat
  <2>1. NewEpoch(e).epoch = e /\ NewEpoch(e).last_vote = {} BY Zenon DEF NewEpoch
  <2>2. e \in Nat BY BoundsAssumption DEF Epoch
  <2>3. store[r] \in SafetyData BY Zenon DEF TypeOK
  <2>4. store[r].epoch \in Nat BY <2>3, BoundsAssumption, Zenon DEF SafetyData, Epoch
  <2> QED BY <2>1, <2>2, <2>4, Zenon
<1> USE BlockAssumption
<1>2. \A c \in Block : Cast(r, c)' => Cast(r, c)
    BY <1>1, Zenon DEF Cast
<1>3. \A x, j, k, n \in Nat : Stored(r, x, n, j, k) => Stored(r, x, n, j, k)'
    BY <1>1, SMTT(30) DEF Stored
<1>4. \A c \in Block : Cast(r, c)' => (Justified(c) /\ Stored(r, EpochOf(c), Round(c), Round(Parent(c)), 0))'
    BY <1>2, <1>3, JustifiedStays, SMTT(30) DEF ReplicaInv
<1>5. \A c \in Block : <<r, c>> \in orders' => (Certified(c) /\ Stored(r, EpochOf(c), 0, Round(c), 0))'
    BY <1>3, CertifiedStays, SMTT(30) DEF ReplicaInv
<1>6. \A t \in timeouts' : t.author = r => Stored(r, t.epoch, t.round, 0, t.round)'
    BY <1>3, SMTT(30) DEF ReplicaInv, TypeOK, Timeout
<1>7. \A t \in timeouts', c \in Block : t.author = r /\ t.epoch = EpochOf(c) /\ t.round >= Round(c) =>
        /\ Cast(r, c)' => t.hqc >= Round(Parent(c))
        /\ <<r, c>> \in orders' => t.hqc >= Round(c)
    BY <1>2, Zenon DEF ReplicaInv
<1> QED
    BY <1>1, <1>2, <1>4, <1>5, <1>6, <1>7, Zenon DEF ReplicaInv

\* Every action keeps what every validator has signed in step with what it has stored.
LEMMA SafetyStep ==
    ASSUME TypeOK, SafetyInv, [Next]_vars
    PROVE  SafetyInv'
<1>0. votes \subseteq votes' /\ timeouts \subseteq timeouts'
    BY SignaturesStay, Zenon
<1> SUFFICES ASSUME NEW q \in Correct
             PROVE  ReplicaInv(q)'
    BY Zenon DEF SafetyInv
<1>q. ReplicaInv(q) /\ cache[q] \in {{}, {store[q]}} /\ Data(q) = store[q]
    BY DataIsStore, Zenon DEF SafetyInv, ReplicaInv
<1>s. \A b \in Block : <<q, b>> \in votes => Cast(q, b)
    BY Zenon DEF Cast
<1>1. CASE UNCHANGED vars
    <2>1. store' = store /\ cache' = cache /\ votes' = votes /\ orders' = orders /\ timeouts' = timeouts
        BY <1>1, Zenon DEF vars
    <2> QED
        BY <1>0, <1>q, <1>s, <2>1, Keeps, Zenon
<1>2. ASSUME NEW r \in Correct, NEW b \in Block, VoteAgain(r, b)
      PROVE  ReplicaInv(q)'
    <2>1. store' = store /\ orders' = orders /\ timeouts' = timeouts
        BY <1>2, Zenon DEF VoteAgain
    <2>2. cache'[q] \in {{}, {store[q]}}
        BY <1>q, <1>2, Zenon DEF VoteAgain, TypeOK
    <2>3. \A c \in Block : <<q, c>> \in votes' => Cast(q, c)
        BY <1>q, <1>2, Zenon DEF VoteAgain, Cast
    <2> QED
        BY <1>0, <1>q, <2>1, <2>2, <2>3, Keeps, Zenon
<1>3. ASSUME NEW r \in Correct, NEW b \in Block, NEW o \in Outcome, Vote(r, b, o)
      PROVE  ReplicaInv(q)'
    <2>1. CASE q # r \/ o = "lost"
        <3>1. store'[q] = store[q] /\ cache'[q] \in {{}, {store[q]}}
            BY <1>q, <1>3, <2>1, Zenon DEF Vote, set_safety_data, TypeOK
        <3>2. orders' = orders /\ timeouts' = timeouts /\ \A c \in Block : <<q, c>> \in votes' => Cast(q, c)
            BY <1>3, <2>1, Zenon DEF Vote, Cast
        <3> QED
            BY <1>0, <1>q, <3>1, <3>2, Keeps, Zenon
    <2> QED
        BY <1>0, <1>q, <1>3, <2>1, VoteStored, Zenon
<1>4. ASSUME NEW r \in Correct, NEW round \in 1..MaxRound, NEW hqc \in 0..MaxRound, NEW o \in Outcome,
             SignTimeout(r, round, hqc, o)
      PROVE  ReplicaInv(q)'
    <2>1. CASE q # r \/ o = "lost"
        <3>1. store'[q] = store[q] /\ cache'[q] \in {{}, {store[q]}}
            BY <1>q, <1>4, <2>1, Zenon DEF SignTimeout, set_safety_data, TypeOK
        <3>2. orders' = orders /\ votes' = votes /\ \A t \in timeouts' : t.author = q => t \in timeouts
            BY <1>4, <2>1 DEF SignTimeout
        <3> QED
            BY <1>0, <1>q, <1>s, <3>1, <3>2, Keeps, Zenon
    <2> QED
        BY <1>0, <1>q, <1>4, <2>1, TimeoutStored, Zenon
<1>5. ASSUME NEW r \in Correct, NEW b \in Block, NEW o \in Outcome, OrderVote(r, b, o)
      PROVE  ReplicaInv(q)'
    <2>1. CASE q # r \/ o = "lost"
        <3>1. store'[q] = store[q] /\ cache'[q] \in {{}, {store[q]}}
            BY <1>q, <1>5, <2>1, Zenon DEF OrderVote, set_safety_data, TypeOK
        <3>2. /\ votes' = votes /\ timeouts' = timeouts
              /\ \A c \in Block : <<q, c>> \in orders' => <<q, c>> \in orders
            BY <1>5, <2>1, Zenon DEF OrderVote
        <3> QED
            BY <1>0, <1>q, <1>s, <3>1, <3>2, Keeps, Zenon
    <2> QED
        BY <1>0, <1>q, <1>5, <2>1, OrderStored, Zenon
<1>6. ASSUME NEW r \in Correct, NEW e \in Epoch, NEW p \in Outcome, NEW o \in Outcome,
             NEW stored \in BOOLEAN, Initialize(r, e, p, o, stored)
      PROVE  ReplicaInv(q)'
    <2>0. votes' = votes /\ orders' = orders /\ timeouts' = timeouts
        BY <1>6, Zenon DEF Initialize, starts_epoch
    <2>1. CASE UNCHANGED <<store, cache>>
        BY <1>0, <1>q, <1>s, <2>0, <2>1, Keeps, Zenon
    <2>2. CASE set_safety_data(r, NewEpoch(e), o) /\ e > Data(r).epoch
        <3>1. CASE q # r \/ o = "lost"
            <4>1. store'[q] = store[q] /\ cache'[q] \in {{}, {store[q]}}
                BY <1>q, <2>2, <3>1, Zenon DEF set_safety_data, TypeOK
            <4> QED
                BY <1>0, <1>q, <1>s, <2>0, <4>1, Keeps, Zenon
        <3>2. CASE q = r /\ o # "lost"
            <4>1. store'[q] = NewEpoch(e) /\ cache'[q] \in {{}, {store'[q]}}
                BY <2>2, <3>2, Zenon DEF set_safety_data, TypeOK
            <4> QED
                BY <1>q, <2>0, <2>2, <3>2, <4>1, EpochStored, Zenon
        <3> QED
            BY <3>1, <3>2, Zenon
    <2> QED
        BY <1>6, <2>1, <2>2, Zenon DEF Initialize, starts_epoch
<1>7. ASSUME NEW r \in Correct, Crash(r)
      PROVE  ReplicaInv(q)'
    <2>1. store' = store /\ votes' = votes /\ orders' = orders /\ timeouts' = timeouts
        BY <1>7, Zenon DEF Crash
    <2>2. cache'[q] \in {{}, {store[q]}}
        BY <1>q, <1>7, Zenon DEF Crash, TypeOK
    <2> QED
        BY <1>0, <1>q, <1>s, <2>1, <2>2, Keeps, Zenon
<1> QED
    BY <1>1, <1>2, <1>3, <1>4, <1>5, <1>6, <1>7, Zenon DEF Next

-----------------------------------------------------------------------------
\* Chains of certified blocks.

LEMMA AncestorChain ==
    /\ \A c \in Block : Ancestor(c, c)
    /\ \A b, c \in Block : Ancestor(b, Parent(c)) => Ancestor(b, c)
BY BlockAssumption, Zenon DEF Ancestor

\* A published vote was justified before the step that published it.
LEMMA VotesJustified ==
    ASSUME TypeOK, SafetyInv, [Next]_vars, NEW q \in Correct, NEW c \in Block, <<q, c>> \in votes'
    PROVE  Justified(c)
<1>1. CASE Cast(q, c)
    BY <1>1, Zenon DEF SafetyInv, ReplicaInv
<1> SUFFICES ASSUME ~Cast(q, c)
             PROVE  Justified(c)
    BY <1>1, Zenon
<1>2. <<q, c>> \notin votes /\ c \notin Data(q).last_vote
    BY DataIsStore, Zenon DEF Cast, SafetyInv
<1>3. PICK o \in Outcome : Vote(q, c, o)
    <2>1. votes' # votes
        BY <1>2, Zenon
    <2>2. ASSUME NEW r \in Correct, NEW b \in Block, VoteAgain(r, b)
          PROVE  FALSE
        BY <1>2, <2>2 DEF VoteAgain
    <2>3. ASSUME NEW r \in Correct, NEW b \in Block, NEW o \in Outcome, Vote(r, b, o)
          PROVE  r = q /\ b = c
        BY <1>2, <2>3, Zenon DEF Vote
    <2>4. \E r \in Correct :
            \/ \E b \in Block : VoteAgain(r, b)
            \/ \E b \in Block, o \in Outcome : Vote(r, b, o)
        <3>1. ASSUME NEW r \in Correct, NEW round, NEW hqc, NEW o, SignTimeout(r, round, hqc, o)
              PROVE  votes' = votes
            BY <3>1, Zenon DEF SignTimeout
        <3>2. ASSUME NEW r \in Correct, NEW b, NEW o, OrderVote(r, b, o)
              PROVE  votes' = votes
            BY <3>2, Zenon DEF OrderVote
        <3>3. ASSUME NEW r \in Correct, NEW e, NEW p, NEW o, NEW stored, Initialize(r, e, p, o, stored)
              PROVE  votes' = votes
            BY <3>3, Zenon DEF Initialize, starts_epoch
        <3>4. ASSUME NEW r \in Correct, Crash(r)
              PROVE  votes' = votes
            BY <3>4, Zenon DEF Crash
        <3> QED
            BY <2>1, <3>1, <3>2, <3>3, <3>4, Zenon DEF Next, vars
    <2> QED
        BY <2>2, <2>3, <2>4, Zenon
<1> QED
    BY <1>3, VoteJustified, Zenon

LEMMA ChainStep ==
    ASSUME TypeOK, SafetyInv, ChainInv, [Next]_vars
    PROVE  ChainInv'
<1> USE BlockAssumption
<1> SUFFICES ASSUME NEW c \in Block, NEW n \in Nat, Certified(c)', n < Round(c)
             PROVE  \/ \E b \in Block : /\ Round(b) = n /\ EpochOf(b) = EpochOf(c)
                                        /\ Certified(b)' /\ Ancestor(b, c)
                    \/ \E p \in Block : /\ EpochOf(p) = EpochOf(c) /\ Certified(p)'
                                        /\ Round(Parent(p)) < n /\ n < Round(p)
    BY Zenon DEF ChainInv
<1> DEFINE q == Parent(c)
<1>0. \A b \in Block : Certified(b) => Certified(b)'
    BY SignaturesStay, CertifiedStays, Zenon
<1>1. PICK r \in Correct : <<r, c>> \in votes'
    BY QuorumAssumption DEF Certified, Correct
<1>2. Certified(q) /\ q \in Block /\ EpochOf(q) = EpochOf(c) /\ Round(q) \in Nat
    BY <1>1, VotesJustified, Zenon DEF Justified
<1>3. CASE n < Round(q)
    <2>1. CASE \E b \in Block : Round(b) = n /\ EpochOf(b) = EpochOf(q) /\ Certified(b) /\ Ancestor(b, q)
        BY <1>0, <1>2, <2>1, AncestorChain, Zenon
    <2>2. CASE \E p \in Block : /\ EpochOf(p) = EpochOf(q) /\ Certified(p)
                                /\ Round(Parent(p)) < n /\ n < Round(p)
        BY <1>0, <1>2, <2>2, Zenon
    <2> QED
        BY <1>2, <1>3, <2>1, <2>2, Zenon DEF ChainInv
<1>4. CASE n = Round(q)
    BY <1>0, <1>2, <1>4, AncestorChain, Zenon
<1>5. CASE n > Round(q)
    BY <1>5, Zenon
<1> QED
    BY <1>2, <1>3, <1>4, <1>5

\* The inductive invariant.
Inv == TypeOK /\ SafetyInv /\ ChainInv

LEMMA InvInit == Init => Inv
<1> SUFFICES ASSUME Init
             PROVE  Inv
    BY Zenon
<1> USE BlockAssumption, BoundsAssumption DEF Init
<1>1. TypeOK
    <2>1. NewEpoch(1) \in SafetyData
        BY NewEpochTyped, SMTT(30)
    <2> QED
        BY <2>1 DEF TypeOK
<1>2. SafetyInv
    BY Zenon DEF SafetyInv, ReplicaInv, Cast, NewEpoch
<1>3. ChainInv
    <2>1. \A c \in Block : Certified(c) => Round(c) = 0
        BY QuorumAssumption, Zenon DEF Certified, Correct
    <2> QED
        BY <2>1 DEF ChainInv
<1> QED
    BY <1>1, <1>2, <1>3, Zenon DEF Inv

\* Inv holds in every reachable state, of any number of validators, blocks and epochs.
THEOREM Invariance == Spec => []Inv
<1>1. Inv /\ [Next]_vars => Inv'
    BY TypeStep, SafetyStep, ChainStep, Zenon DEF Inv
<1> QED
    BY InvInit, <1>1, PTL DEF Spec

\* The stored safety data and the signatures keep their types.
THEOREM TypeCorrect == Spec => []TypeOK
<1>1. Inv => TypeOK
    BY Zenon DEF Inv
<1> QED
    BY Invariance, <1>1, PTL

-----------------------------------------------------------------------------
\* Agreement.

\* At most one block of a round is certified: a correct validator votes once in a round.
LEMMA CertifiedUnique ==
    ASSUME TypeOK, SafetyInv, NEW b \in Block, NEW c \in Block, Certified(b), Certified(c),
           EpochOf(b) = EpochOf(c), Round(b) = Round(c)
    PROVE  b = c
<1>1. CASE Round(b) = 0
    BY <1>1, GenesisAssumption, Zenon
<1>2. CASE Round(b) # 0
    <2>1. PICK r \in Correct : <<r, b>> \in votes /\ <<r, c>> \in votes
        BY <1>2, QuorumAssumption, Zenon DEF Certified, Correct
    <2> QED
        BY <2>1, Zenon DEF SafetyInv, ReplicaInv, Cast
<1> QED
    BY <1>1, <1>2, Zenon

LEMMA OrderedCertified ==
    ASSUME TypeOK, SafetyInv, NEW b \in Block, Ordered(b)
    PROVE  Certified(b)
<1> USE BlockAssumption
<1>1. CASE \E Q \in Quorum : \A r \in Q : r \in Faulty \/ <<r, b>> \in orders
    <2>1. PICK r \in Correct : <<r, b>> \in orders
        BY <1>1, QuorumAssumption, SMTT(30) DEF Correct
    <2> QED
        BY <2>1, Zenon DEF SafetyInv, ReplicaInv
<1>2. ASSUME NEW c \in Block, Round(c) = Round(b) + 1, Parent(c) = b, Certified(c)
      PROVE  Certified(b)
    <2>1. PICK r \in Correct : <<r, c>> \in votes
        BY <1>2, QuorumAssumption, SMTT(30) DEF Certified, Correct
    <2> QED
        BY <1>2, <2>1, Zenon DEF SafetyInv, ReplicaInv, Cast, Justified
<1> QED
    BY <1>1, <1>2, SMTT(30) DEF Ordered

\* A timeout carries a certificate as high as what its author voted over or ordered.
LEMMA TimeoutRespects ==
    ASSUME SafetyInv, NEW r \in Correct, NEW t \in timeouts, NEW b \in Block,
           t.author = r, t.epoch = EpochOf(b), t.round >= Round(b)
    PROVE  /\ Cast(r, b) => t.hqc >= Round(Parent(b))
           /\ <<r, b>> \in orders => t.hqc >= Round(b)
BY Zenon DEF SafetyInv, ReplicaInv

\* The validators that timed out in a round and those that ordered an earlier block share
\* a correct one, and its timeout carries a certificate as high as that block.
LEMMA LockedState ==
    ASSUME TypeOK, SafetyInv
    PROVE  OrderedLocks
<1> USE BlockAssumption
<1> SUFFICES ASSUME NEW b \in Block, NEW c \in Block, Ordered(b), Certified(c),
                    EpochOf(c) = EpochOf(b), Round(c) > Round(b)
             PROVE  Round(Parent(c)) >= Round(b)
    BY Zenon DEF OrderedLocks
<1>1. PICK v \in Correct : <<v, c>> \in votes
    BY QuorumAssumption, SMTT(30) DEF Certified, Correct
<1>2. Justified(c)
    BY <1>1, Zenon DEF SafetyInv, ReplicaInv, Cast
<1>3. CASE Round(c) = Round(Parent(c)) + 1
    BY <1>3
<1>4. ASSUME NEW h \in 0..Round(Parent(c)), TimedOut(EpochOf(c), Round(c) - 1, h)
      PROVE  Round(Parent(c)) >= Round(b)
    <2>1. PICK T \in Quorum : \A r \in T \ Faulty : \E t \in timeouts :
            t.author = r /\ t.epoch = EpochOf(c) /\ t.round = Round(c) - 1 /\ t.hqc <= h
        BY <1>4, Zenon DEF TimedOut
    <2>2. CASE \E Q \in Quorum : \A r \in Q : r \in Faulty \/ <<r, b>> \in orders
        <3>1. PICK r \in Correct : r \in T /\ <<r, b>> \in orders
            BY <2>1, <2>2, QuorumAssumption, Zenon DEF Correct
        <3>2. PICK t \in timeouts :
                t.author = r /\ t.epoch = EpochOf(c) /\ t.round = Round(c) - 1 /\ t.hqc <= h
            BY <2>1, <3>1, Zenon DEF Correct
        <3>3. t.round >= Round(b)
            BY <3>2
        <3>4. t.hqc >= Round(b)
            BY <3>1, <3>2, <3>3, TimeoutRespects, Zenon
        <3> QED
            BY <3>2, <3>4 DEF TypeOK, Timeout
    <2>3. ASSUME NEW d \in Block, Round(d) = Round(b) + 1, Parent(d) = b, Certified(d)
          PROVE  Round(Parent(c)) >= Round(b)
        <3>1. CASE Round(c) = Round(d)
            BY <2>3, <3>1, CertifiedUnique
        <3>2. CASE Round(c) # Round(d)
            <4>1. PICK r \in Correct : r \in T /\ <<r, d>> \in votes
                BY <2>1, <2>3, QuorumAssumption DEF Certified, Correct
            <4>2. PICK t \in timeouts :
                    t.author = r /\ t.epoch = EpochOf(c) /\ t.round = Round(c) - 1 /\ t.hqc <= h
                BY <2>1, <4>1, Zenon DEF Correct
            <4>3. t.round >= Round(d)
                BY <2>3, <3>2, <4>2, SMTT(30)
            <4>4. t.hqc >= Round(b)
                BY <2>3, <4>1, <4>2, <4>3, TimeoutRespects, Zenon DEF Cast
            <4> QED
                BY <4>2, <4>4 DEF TypeOK, Timeout
        <3> QED
            BY <3>1, <3>2, Zenon
    <2> QED
        BY <2>2, <2>3, Zenon DEF Ordered
<1> QED
    BY <1>2, <1>3, <1>4, Zenon DEF Justified

\* Of two ordered blocks, the one of the earlier round is an ancestor of the other: its
\* round cannot be jumped over, and no other block of that round is certified.
LEMMA AgreementState ==
    ASSUME Inv
    PROVE  Agreement
<1> USE BlockAssumption
<1>0. TypeOK /\ SafetyInv /\ ChainInv
    BY Zenon DEF Inv
<1>1. ASSUME NEW b \in Block, NEW c \in Block, Ordered(b), Ordered(c),
             EpochOf(b) = EpochOf(c), Round(b) <= Round(c)
      PROVE  Ancestor(b, c)
    <2>1. Certified(b) /\ Certified(c)
        BY <1>0, <1>1, OrderedCertified, Zenon
    <2>2. CASE Round(b) = Round(c)
        BY <1>0, <1>1, <2>1, <2>2, CertifiedUnique, AncestorChain, Zenon
    <2>3. CASE Round(b) < Round(c)
        <3>1. \A p \in Block : EpochOf(p) = EpochOf(c) /\ Certified(p) /\ Round(b) < Round(p) =>
                Round(Parent(p)) >= Round(b)
            BY <1>0, <1>1, LockedState, Zenon DEF OrderedLocks
        <3>2. PICK x \in Block : /\ Round(x) = Round(b) /\ EpochOf(x) = EpochOf(c)
                                 /\ Certified(x) /\ Ancestor(x, c)
            BY <1>0, <2>1, <2>3, <3>1 DEF ChainInv
        <3> QED
            BY <1>0, <1>1, <2>1, <3>2, CertifiedUnique, Zenon
    <2> QED
        BY <1>1, <2>2, <2>3
<1> QED
    BY <1>1 DEF Agreement

\* No certified block branches off below an ordered one.
THEOREM Locked == Spec => []OrderedLocks
<1>1. Inv => OrderedLocks
    BY LockedState, Zenon DEF Inv
<1> QED
    BY Invariance, <1>1, PTL

\* The ordered blocks of an epoch lie on one chain.
THEOREM Agree == Spec => []Agreement
<1>1. Inv => Agreement
    BY AgreementState, Zenon
<1> QED
    BY Invariance, <1>1, PTL

-----------------------------------------------------------------------------
\* The stored data never go back.

Grows(r) ==
    \/ store'[r].epoch > store[r].epoch
    \/ /\ store'[r].epoch = store[r].epoch
       /\ store'[r].last_voted_round >= store[r].last_voted_round
       /\ store'[r].one_chain_round >= store[r].one_chain_round
       /\ store'[r].preferred_round >= store[r].preferred_round
       /\ store'[r].highest_timeout_round >= store[r].highest_timeout_round

LEMMA UnchangedGrows ==
    ASSUME TypeOK, NEW q \in Correct, store'[q] = store[q]
    PROVE  Grows(q)
BY DEF Grows, TypeOK, SafetyData

LEMMA GrowsStep ==
    ASSUME TypeOK, SafetyInv, Next, NEW q \in Correct
    PROVE  Grows(q)
<1> USE BlockAssumption, BoundsAssumption
<1>0. Data(q) = store[q] /\ store[q] \in SafetyData
    BY DataIsStore, Zenon DEF SafetyInv, TypeOK
<1>1. CASE store'[q] = store[q]
    BY <1>1, UnchangedGrows, Zenon
<1>2. ASSUME NEW r \in Correct, NEW b \in Block, VoteAgain(r, b)
      PROVE  Grows(q)
    BY <1>1, <1>2, Zenon DEF VoteAgain
<1>3. ASSUME NEW r \in Correct, NEW b \in Block, NEW o \in Outcome, Vote(r, b, o)
      PROVE  Grows(q)
    <2>1. CASE q = r /\ o # "lost"
        BY <1>0, <1>3, <2>1 DEF Vote, set_safety_data, observe_qc, Higher, Grows, TypeOK, SafetyData
    <2> QED
        BY <1>1, <1>3, <2>1, Zenon DEF Vote, set_safety_data, TypeOK
<1>4. ASSUME NEW r \in Correct, NEW round \in 1..MaxRound, NEW hqc \in 0..MaxRound, NEW o \in Outcome,
             SignTimeout(r, round, hqc, o)
      PROVE  Grows(q)
    <2>1. CASE q = r /\ o # "lost"
        BY <1>0, <1>4, <2>1 DEF SignTimeout, set_safety_data, Higher, Grows, TypeOK, SafetyData
    <2> QED
        BY <1>1, <1>4, <2>1, Zenon DEF SignTimeout, set_safety_data, TypeOK
<1>5. ASSUME NEW r \in Correct, NEW b \in Block, NEW o \in Outcome, OrderVote(r, b, o)
      PROVE  Grows(q)
    <2>1. CASE q = r /\ o # "lost"
        BY <1>0, <1>5, <2>1 DEF OrderVote, set_safety_data, observe_qc, Higher, Grows, TypeOK, SafetyData
    <2> QED
        BY <1>1, <1>5, <2>1, Zenon DEF OrderVote, set_safety_data, TypeOK
<1>6. ASSUME NEW r \in Correct, NEW e \in Epoch, NEW p \in Outcome, NEW o \in Outcome,
             NEW stored \in BOOLEAN, Initialize(r, e, p, o, stored)
      PROVE  Grows(q)
    <2>1. CASE set_safety_data(r, NewEpoch(e), o) /\ e > Data(r).epoch
        <3>1. CASE q = r /\ o # "lost"
            BY <1>0, <2>1, <3>1, Zenon DEF set_safety_data, NewEpoch, Grows, TypeOK
        <3> QED
            BY <1>1, <2>1, <3>1, SMTT(30) DEF set_safety_data, TypeOK
    <2> QED
        BY <1>1, <1>6, <2>1, Zenon DEF Initialize, starts_epoch
<1>7. ASSUME NEW r \in Correct, Crash(r)
      PROVE  Grows(q)
    BY <1>1, <1>7, Zenon DEF Crash
<1> QED
    BY <1>2, <1>3, <1>4, <1>5, <1>6, <1>7, Zenon DEF Next

\* No crash, failing write or old proof takes the stored data back within an epoch.
THEOREM Grow == Spec => StoredGrows
<1>1. Inv /\ [Next]_vars => [\A r \in Correct : Grows(r)]_vars
    BY GrowsStep, Zenon DEF Inv
<1>2. [\A r \in Correct : Grows(r)]_vars =>
        [\A r \in Correct :
            \/ store'[r].epoch > store[r].epoch
            \/ /\ store'[r].epoch = store[r].epoch
               /\ store'[r].last_voted_round >= store[r].last_voted_round
               /\ store'[r].one_chain_round >= store[r].one_chain_round
               /\ store'[r].preferred_round >= store[r].preferred_round
               /\ store'[r].highest_timeout_round >= store[r].highest_timeout_round]_vars
    BY Zenon DEF Grows
<1> QED
    BY Invariance, <1>1, <1>2, PTL DEF Spec, StoredGrows

=============================================================================
