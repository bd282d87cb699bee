------------------------------- MODULE Tower -------------------------------
(***************************************************************************)
(* The voting of one validator of the Solana fork: its tower (the stack of *)
(* votes and their lockouts), the replay loop that votes, the voting       *)
(* service that saves the tower and sends the vote, the vote account in    *)
(* the banks, crashes, and the restoring of the tower against the root the *)
(* ledger was replayed to.                                                 *)
(*                                                                         *)
(* The other validators are the environment: they produce banks on a tree  *)
(* of slots and land any vote they were sent, or none.  The checks that    *)
(* weigh their stake (switch, threshold, propagation) only withhold a      *)
(* vote, so here the validator may or may not vote for a bank it is not    *)
(* locked out of.  A panic or exit of the process is a Crash.              *)
(***************************************************************************)
EXTENDS Integers, Sequences

CONSTANTS
    MaxSlot,              \* bound: the last slot
    Parent,               \* the tree of the slots: Parent[s] < s
    MAX_LOCKOUT_HISTORY,  \* the depth of the tower
    MAX_ENTRIES,          \* how many slots the slot history reaches back
    MaxQueue,             \* bound: operations waiting for the voting service
    MaxCrashes,           \* bound
    KeysChange            \* may the voting key be missing after it signed?

Slots == 0 .. MaxSlot

ASSUME TowerAssumption ==
    /\ MaxSlot \in Nat /\ MAX_LOCKOUT_HISTORY \in Nat \ {0}
    /\ MAX_ENTRIES \in Nat \ {0} /\ KeysChange \in BOOLEAN
    /\ Parent \in [1 .. MaxSlot -> Slots]
    /\ \A s \in 1 .. MaxSlot : Parent[s] < s

VARIABLES
    up,        \* is the process running?
    tower,     \* Tower: root, votes, last_vote; signed: last_vote_tx_blockhash is Some
    forks,     \* the root of BankForks
    computed,  \* the frozen banks whose stats are computed
    queue,     \* VoteOps on their way to the VotingService; saved: what PushVote carries
    saved,     \* the tower file: {} or one tower
    sent,      \* the votes the network was given
    bank,      \* the vote account in every bank produced so far
    crashes    \* how often the process died

vars == <<up, tower, forks, computed, queue, saved, sent, bank, crashes>>

Produced == DOMAIN bank

Ancestors[s \in Slots] ==
    IF s = 0 THEN {} ELSE {Parent[s]} \cup Ancestors[Parent[s]]

OnFork(s, t) == s = t \/ s \in Ancestors[t]

Latest(S) == CHOOSE m \in S : \A n \in S : n <= m

-----------------------------------------------------------------------------
(* The vote state: a root (-1 is None) and the votes, oldest first.        *)

Unvoted == [root |-> -1, votes |-> <<>>]

last_voted_slot(votes) ==
    IF votes = <<>> THEN -1 ELSE votes[Len(votes)].slot

VotedSlots(votes) == {votes[i].slot : i \in DOMAIN votes}

\* The slots a vote with this many confirmations is locked for: a power of
\* INITIAL_LOCKOUT, which is 2.
lockout[confirmations \in 0 .. MAX_LOCKOUT_HISTORY] ==
    IF confirmations = 0 THEN 1 ELSE 2 * lockout[confirmations - 1]

last_locked_out_slot(v) == v.slot + lockout[v.confirmation_count]

is_locked_out_at_slot(v, s) == last_locked_out_slot(v) >= s

\* Votes leave from the top until one is still locked out.
pop_expired_votes(votes, s) ==
    SubSeq(votes, 1, Latest({0} \cup {i \in DOMAIN votes : is_locked_out_at_slot(votes[i], s)}))

\* The votes past slot s are retained: the last ones, for their slots ascend.
Newer(votes, s) ==
    SubSeq(votes, Latest({0} \cup {i \in DOMAIN votes : votes[i].slot <= s}) + 1, Len(votes))

\* A mutant: the indices count from 1.
double_lockouts_late(votes) ==
    [i \in DOMAIN votes |-> [votes[i] EXCEPT !.confirmation_count =
        IF Len(votes) > i + @ THEN @ + 1 ELSE @]]

double_lockouts(votes) ==
    [i \in DOMAIN votes |->
        [votes[i] EXCEPT !.confirmation_count =
            IF Len(votes) > i - 1 + @ THEN @ + 1 ELSE @]]

process_next_vote_slot(vs, s) ==
    LET popped == pop_expired_votes(vs.votes, s)
        full == Len(popped) = MAX_LOCKOUT_HISTORY
        vote == [slot |-> s, confirmation_count |-> 1]
    IN  IF s <= last_voted_slot(vs.votes) THEN vs
        ELSE [root |-> IF full THEN Head(popped).slot ELSE vs.root,
              votes |-> double_lockouts(
                            Append(IF full THEN Tail(popped) ELSE popped, vote))]

\* What the vote program demands of a vote state v, for the account state vs
\* in a bank whose ancestors are known.
process_new_vote_state(vs, v, ancestors) ==
    LET new == v.votes
        Later(c) == {i \in DOMAIN new : new[i].slot >= c.slot}
        NextVote(c) == new[CHOOSE i \in Later(c) : \A j \in Later(c) : i <= j]
    IN  /\ new # <<>> /\ Len(new) <= MAX_LOCKOUT_HISTORY
        /\ last_voted_slot(new) > last_voted_slot(vs.votes)
        /\ VotedSlots(new) \cup {v.root} \subseteq ancestors
        /\ v.root >= vs.root
        /\ \A i \in DOMAIN new :
               /\ new[i].confirmation_count \in 1 .. MAX_LOCKOUT_HISTORY
               /\ v.root = 0 \/ new[i].slot > v.root
        /\ \A i \in 1 .. Len(new) - 1 :
               /\ new[i].slot < new[i+1].slot
               /\ new[i].confirmation_count > new[i+1].confirmation_count
               /\ is_locked_out_at_slot(new[i], new[i+1].slot)
        /\ \A i \in DOMAIN vs.votes :
               LET c == vs.votes[i] IN
               c.slot > v.root =>
                   IF NextVote(c).slot = c.slot
                   THEN NextVote(c).confirmation_count >= c.confirmation_count
                   ELSE ~is_locked_out_at_slot(c, NextVote(c).slot)

-----------------------------------------------------------------------------
(* The tower of the validator.                                             *)

NewTower(root, vs) ==
    [root |-> root, votes |-> Newer(vs.votes, root),
     last_vote |-> Unvoted, signed |-> FALSE]

VoteState(t) == [root |-> t.root, votes |-> t.votes]

is_recent(t, s) ==
    IF t.votes = <<>> THEN s > t.root ELSE s > last_voted_slot(t.votes)

\* A mutant: only the root has to be on the fork of the bank.
may_vote_on_any_fork(t, s, ancestors) ==
    LET tried == process_next_vote_slot(VoteState(t), s) IN
    is_recent(t, s) /\ tried.root \in ancestors \cup {s}

\* A vote for s, tried out on a copy, leaves no vote of another fork; the
\* assertion on the root is the last conjunct.
may_vote(t, s, ancestors) ==
    LET tried == process_next_vote_slot(VoteState(t), s)
    IN  /\ is_recent(t, s)
        /\ VotedSlots(tried.votes) \subseteq ancestors \cup {s}
        /\ tried.root \in ancestors \cup {s}

record_bank_vote(t, s) ==
    LET vs == process_next_vote_slot(VoteState(t), s)
    IN  [t EXCEPT !.root = vs.root, !.votes = vs.votes, !.last_vote = vs]

\* A frozen bank whose vote account is ahead of the tower replaces it, cut at the
\* root of the tower.
Adopt(t, vs) ==
    LET votes == IF t.root > vs.root
                 THEN Newer(vs.votes, t.root)
                 ELSE vs.votes
        root == IF t.root > vs.root THEN t.root ELSE vs.root
    IN  IF last_voted_slot(vs.votes) > last_voted_slot(t.votes)
        THEN [t EXCEPT !.root = root, !.votes = votes,
                       !.last_vote = [root |-> root, votes |-> votes]]
        ELSE t

\* The assertion on the votes that are left: the process panics without it.
AdoptAsserts(t, vs) ==
    LET votes == Adopt(t, vs).votes IN
    /\ last_voted_slot(vs.votes) > last_voted_slot(t.votes)
    /\ t.root > vs.root
    /\ votes # <<>>
    => t.root \in Ancestors[votes[1].slot]

-----------------------------------------------------------------------------
(* Restoring the tower against a replayed root.                            *)

\* SlotHistory::check, for the slots a history holds.
Check(history, s) ==
    CASE s > Latest(history) -> "Future"
      [] s < Latest(history) + 1 - MAX_ENTRIES -> "TooOld"
      [] OTHER -> IF s \in history THEN "Found" ELSE "NotFound"

\* Root and votes are walked from the newest.  The newest slot the history
\* has is the anchor; everything newer is retained.
Anchors(t, history) ==
    {s \in VotedSlots(t.votes) \cup {t.root} : Check(history, s) = "Found"}

Consistent(t, history) ==
    /\ Anchors(t, history) # {}
    /\ \A s \in VotedSlots(t.votes) \cup {t.root} :
           (\E a \in Anchors(t, history) : s < a) => Check(history, s) # "NotFound"
    /\ \A i \in 1 .. Len(t.votes) - 1 : t.votes[i].slot < t.votes[i+1].slot
    /\ t.votes # <<>> => t.root <= t.votes[1].slot

\* A mutant: the votes the history does not have are dropped with the others.
adjust_to_history_only(t, history) ==
    LET retained == Newer(t.votes, Latest(history))
    IN  [t EXCEPT !.votes = retained,
                  !.last_vote = IF retained = <<>> THEN Unvoted ELSE @]

adjust_lockouts_with_slot_history(t, history) ==
    LET retained == Newer(t.votes, Latest(Anchors(t, history)))
    IN  [t EXCEPT !.votes = retained,
                  !.last_vote = IF retained = <<>> THEN Unvoted ELSE @]

\* A tower rooted past the replayed root keeps its root, and is checked
\* against a history that pretends to have it.
History(t, r) ==
    Ancestors[r] \cup {r} \cup (IF t.root > r THEN {t.root} ELSE {})

TooOld(t, r) ==
    t.root <= r /\ Check(History(t, r), last_voted_slot(t.last_vote.votes)) = "TooOld"

adjust_lockouts_after_replay(t, r) ==
    LET adjusted == adjust_lockouts_with_slot_history(t, History(t, r))
    IN  IF t.root <= r THEN [adjusted EXCEPT !.root = r] ELSE adjusted

Restores(t, r) == ~TooOld(t, r) /\ Consistent(t, History(t, r))

-----------------------------------------------------------------------------
Init ==
    /\ up = TRUE
    /\ tower = NewTower(0, Unvoted)
    /\ forks = 0
    /\ computed = {}
    /\ queue = <<>>
    /\ saved = {}
    /\ sent = {}
    /\ bank = [s \in {0} |-> Unvoted]
    /\ crashes = 0

\* Another leader's block: slots pass in order, some without a block.  It lands
\* one vote it was sent, or none (a vote landed before another of the same
\* block changes nothing that the later one does not replace).
Produce(s) ==
    /\ Parent[s] \in Produced
    /\ \A b \in Produced : b < s
    /\ \E vs \in {bank[Parent[s]]} \cup
                 {v \in sent : process_new_vote_state(bank[Parent[s]], v, Ancestors[s])} :
           bank' = [b \in Produced \cup {s} |-> IF b = s THEN vs ELSE bank[b]]
    /\ UNCHANGED <<up, tower, forks, computed, queue, saved, sent, crashes>>

\* A bank is replayed and frozen after its parent; computing its stats may
\* replace the tower by the vote account it holds.
compute_bank_stats(s) ==
    /\ up
    /\ s \in Produced \ computed
    /\ s = forks \/ (s > forks /\ Parent[s] \in computed)
    /\ AdoptAsserts(tower, bank[s])
    /\ computed' = computed \cup {s}
    /\ tower' = Adopt(tower, bank[s])
    /\ UNCHANGED <<up, forks, queue, saved, sent, bank, crashes>>

\* The vote is recorded, a new root prunes the other forks, and then the vote
\* is signed and pushed with the tower to save (the file leaves out the blockhash
\* that says so): unless it cannot be signed, which is for startup verification
\* and wait_to_vote_slot at first, and later on only for want of the key.  (The other
\* reasons of generate_vote_tx are left out: the banks have the vote account, and its
\* node is this one.)
handle_votable_bank(s) ==
    /\ up
    /\ s \in computed
    /\ may_vote(tower, s, {a \in Ancestors[s] : a >= forks})
    /\ LET t == record_bank_vote(tower, s)
           root == IF t.root # tower.root THEN t.root ELSE forks
       IN  /\ forks' = root
           /\ computed' = {b \in computed : OnFork(root, b)}
           /\ \/ /\ Len(queue) < MaxQueue
                 /\ tower' = [t EXCEPT !.signed = TRUE]
                 /\ queue' = Append(queue, [vote |-> t.last_vote,
                                            saved |-> {[t EXCEPT !.signed = FALSE]}])
              \/ /\ ~tower.signed \/ KeysChange
                 /\ tower' = t
                 /\ queue' = queue
    /\ UNCHANGED <<up, saved, sent, bank, crashes>>

\* The last vote has not landed in a bank of its fork and its blockhash has
\* expired: it is sent again, and nothing is saved.
refresh_last_vote ==
    /\ up
    /\ tower.signed
    /\ tower.last_vote.votes # <<>>
    /\ Len(queue) < MaxQueue
    /\ \E b \in computed :
           /\ OnFork(last_voted_slot(tower.last_vote.votes), b)
           /\ last_voted_slot(bank[b].votes) < last_voted_slot(tower.last_vote.votes)
    /\ queue' = Append(queue, [vote |-> tower.last_vote, saved |-> {}])
    /\ UNCHANGED <<up, tower, forks, computed, saved, sent, bank, crashes>>

\* VotingService::handle_vote: the tower is stored, then the vote is sent.
StoreTower ==
    /\ up
    /\ queue # <<>>
    /\ Head(queue).saved # {}
    /\ saved' = Head(queue).saved
    /\ queue' = <<[Head(queue) EXCEPT !.saved = {}]>> \o Tail(queue)
    /\ UNCHANGED <<up, tower, forks, computed, sent, bank, crashes>>

SendVote ==
    /\ up
    /\ queue # <<>>
    /\ Head(queue).saved = {}
    /\ sent' = sent \cup {Head(queue).vote}
    /\ queue' = Tail(queue)
    /\ UNCHANGED <<up, tower, forks, computed, saved, bank, crashes>>

\* The process dies; the file, the network and the banks outlive it.
Crash ==
    /\ up
    /\ crashes < MaxCrashes
    /\ crashes' = crashes + 1
    /\ up' = FALSE
    /\ tower' = NewTower(0, Unvoted)
    /\ forks' = 0
    /\ computed' = {}
    /\ queue' = <<>>
    /\ UNCHANGED <<saved, sent, bank>>

\* The process starts from the root r its ledger or snapshot is replayed to, with
\* the tower of the file adjusted to r, or a new one if there is no file.  (A file
\* that cannot be adjusted ends the start under --require-tower; the rebuilding
\* of a tower without that flag is left out.)
post_process_restored_tower(r) ==
    /\ ~up
    /\ r \in Produced
    /\ \A t \in saved : Restores(t, r)
    /\ up' = TRUE
    /\ forks' = r
    /\ \/ \E t \in saved : tower' = adjust_lockouts_after_replay(t, r)
       \/ /\ saved = {}
          /\ \E b \in Produced : OnFork(r, b) /\ tower' = NewTower(r, bank[b])
    /\ UNCHANGED <<computed, queue, saved, sent, bank, crashes>>

Next ==
    \/ \E s \in Slots \ {0} : Produce(s)
    \/ \E s \in Slots : compute_bank_stats(s)
    \/ \E s \in Slots \ {0} : handle_votable_bank(s)
    \/ refresh_last_vote
    \/ StoreTower
    \/ SendVote
    \/ Crash
    \/ \E r \in Slots : post_process_restored_tower(r)

Spec == Init /\ [][Next]_vars

-----------------------------------------------------------------------------
(* Properties.                                                             *)

\* Respecting lockouts (docs/src/implemented-proposals/tower-bft.md, and the
\* comment on Lockout::last_locked_out_slot): whatever was sent before, by this
\* process or by one that crashed, binds a vote sent for a later slot: a vote of
\* the earlier tower is an ancestor of that slot or its lockout is over.
LockoutsHonored ==
    \A t, u \in sent :
        LET s == last_voted_slot(u.votes) IN
        last_voted_slot(t.votes) < s =>
            \A i \in DOMAIN t.votes :
                \/ OnFork(t.votes[i].slot, s)
                \/ last_locked_out_slot(t.votes[i]) < s

\* A vote the validator sent is never refused for what it says: the vote program
\* takes it on top of every bank of the voted fork whose account is behind it,
\* whichever earlier votes of this or of a crashed process have landed there.
\* The exception is a tower that votes for its own root, as one restored with a
\* stray last vote may: is_recent compares the bank with that vote only.
Landable ==
    \A v \in sent, b \in Produced :
        /\ v.root \notin VotedSlots(v.votes)
        /\ OnFork(last_voted_slot(v.votes), b)
        /\ last_voted_slot(v.votes) > last_voted_slot(bank[b].votes)
        => process_new_vote_state(bank[b], v, Ancestors[b] \cup {b})

\* The errors of adjust_lockouts_with_slot_history that "really shouldn't happen
\* unless ledger/tower is corrupted" do not: the file in storage can be adjusted
\* to every replayed root that the root of its tower does not contradict, as long
\* as the slot history still reaches that root.
Restorable ==
    \A t \in saved, r \in Produced :
        /\ OnFork(t.root, r) \/ OnFork(r, t.root)
        /\ Check(History(t, r), t.root) # "TooOld"
        => Consistent(t, History(t, r))
=============================================================================
