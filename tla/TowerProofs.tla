---------------------------- MODULE TowerProofs ----------------------------
(***************************************************************************)
(* Theorems about Tower, for every tree of slots, every depth of the tower *)
(* and of the slot history, and any number of votes and crashes: no vote   *)
(* is sent that an earlier one locks out, every vote sent can land, and    *)
(* every tower stored can be restored.                                     *)
(*                                                                         *)
(* Powers of two and ancestors are recursive functions.  What they compute *)
(* is proved by taking the least number at which it would fail.            *)
(***************************************************************************)
EXTENDS Tower, TLAPS, WellFoundedInduction

-----------------------------------------------------------------------------
(* Least and greatest numbers *)

\* Natural numbers are well-ordered.
LEMMA LeastNat ==
    ASSUME NEW T, T \subseteq Nat, T # {}
    PROVE  \E x \in T : \A y \in T : x <= y
<1> DEFINE R == OpToRel(<, Nat)
<1>1. IsWellFoundedOn(R, Nat) BY NatLessThanWellFounded, Zenon
<1>2. \A x, y \in Nat : x < y => <<x, y>> \in R BY Zenon DEF OpToRel
<1> HIDE DEF R
<1>3. PICK x \in T : \A y \in T : ~(<<y, x>> \in R) BY <1>1, WFMin, Zenon
<1>4. \A y \in T : ~(y < x) BY <1>2, <1>3, Zenon
<1>5. \A y \in T : x <= y BY <1>4
<1> QED BY <1>5, Zenon

\* A non-empty set of numbers up to n has a latest one.
LEMMA LatestFacts ==
    ASSUME NEW n \in Nat, NEW S, S \subseteq 0 .. n, S # {}
    PROVE  Latest(S) \in S /\ \A m \in S : m <= Latest(S)
<1> DEFINE T == {n - m : m \in S}
<1>0. \A m \in S : n - m \in Nat OBVIOUS
<1>1. T \subseteq Nat /\ T # {} BY <1>0, Zenon
<1> HIDE DEF T
<1>2. PICK x \in T : \A y \in T : x <= y BY <1>1, LeastNat, Zenon
<1>3. PICK m \in S : x = n - m BY <1>2, Zenon DEF T
<1>4. \A k \in S : n - m <= n - k BY <1>2, <1>3, Zenon DEF T
<1>5. \A k \in S : k <= m BY <1>4
<1> QED BY <1>5, Zenon DEF Latest

-----------------------------------------------------------------------------
(* Lockouts *)

\* The equation that defines lockout has a solution.
LEMMA LockoutDef ==
    lockout = [c \in 0 .. MAX_LOCKOUT_HISTORY |-> IF c = 0 THEN 1 ELSE 2 * lockout[c - 1]]
<1> DEFINE N == MAX_LOCKOUT_HISTORY
           Solves(f, k) == f \in [0 .. k -> Nat] /\ \A c \in 0 .. k : f[c] = IF c = 0 THEN 1 ELSE 2 * f[c - 1]
           Bad == {k \in 0 .. N : ~\E f : Solves(f, k)}
<1>0. N \in Nat BY TowerAssumption, Zenon
<1>1. Bad = {}
  <2> SUFFICES ASSUME Bad # {} PROVE FALSE BY Zenon
  <2>1. Bad \subseteq Nat BY <1>0
  <2>2. PICK k \in Bad : \A j \in Bad : k <= j
    <3> HIDE DEF Bad
    <3> QED BY <2>1, LeastNat, Zenon
  <2>3. CASE k = 0
    <3>1. Solves([c \in 0 .. 0 |-> 1], 0) OBVIOUS
    <3> QED BY <2>2, <2>3, <3>1, Zenon
  <2>4. CASE k > 0
    <3>1. k \in 1 .. N BY <2>2, <2>4, <1>0
    <3>2. k - 1 \in 0 .. N /\ ~(k <= k - 1)
      <4> HIDE DEF N
      <4> QED BY <1>0, <3>1
    <3>3. PICK f : Solves(f, k - 1) BY <2>2, <3>2, Zenon
    <3> DEFINE g == [c \in 0 .. k |-> IF c = k THEN 2 * f[k - 1] ELSE f[c]]
    <3>4. g \in [0 .. k -> Nat] BY <3>1, <3>3
    <3>5. ASSUME NEW c \in 0 .. k PROVE g[c] = IF c = 0 THEN 1 ELSE 2 * g[c - 1]
      <4>1. CASE c = k
        <5>1. k - 1 \in 0 .. k /\ k - 1 # k /\ k # 0 BY <3>1
        <5> QED BY <4>1, <5>1, Zenon
      <4>2. CASE c # k
        <5>1. c \in 0 .. (k - 1) /\ (c # 0 => c - 1 \in 0 .. k /\ c - 1 # k) BY <3>1, <4>2
        <5>2. g[c] = f[c] /\ (c # 0 => g[c - 1] = f[c - 1]) BY <4>2, <5>1, Zenon
        <5> QED BY <3>3, <5>1, <5>2, Zenon
      <4> QED BY <4>1, <4>2, Zenon
    <3>6. Solves(g, k) BY <3>4, <3>5, Zenon
    <3> QED BY <2>2, <3>6, Zenon
  <2> QED BY <2>1, <2>2, <2>3, <2>4
<1>2. PICK f : Solves(f, N)
  <2>1. N \in 0 .. N BY <1>0
  <2> QED BY <1>1, <2>1, Zenon
<1>3. f = [c \in 0 .. N |-> IF c = 0 THEN 1 ELSE 2 * f[c - 1]] BY <1>2, Zenon
<1> QED BY <1>3, Zenon DEF lockout

\* Another confirmation never shortens a lockout.
LEMMA LockoutGrows ==
    \A d \in 0 .. MAX_LOCKOUT_HISTORY : \A c \in 0 .. d : lockout[c] \in Nat /\ lockout[c] <= lockout[d]
<1> DEFINE N == MAX_LOCKOUT_HISTORY
           Grows(d) == \A c \in 0 .. d : lockout[c] \in Nat /\ lockout[c] <= lockout[d]
           Bad == {d \in 0 .. N : ~Grows(d)}
<1>0. N \in Nat BY TowerAssumption, Zenon
<1>1. \A c \in 0 .. N : lockout[c] = IF c = 0 THEN 1 ELSE 2 * lockout[c - 1]
  BY LockoutDef, Zenon
<1> HIDE DEF N
<1> SUFFICES ASSUME Bad # {} PROVE FALSE BY Zenon DEF N
<1>2. Bad \subseteq Nat BY <1>0
<1>3. PICK d \in Bad : \A j \in Bad : d <= j
  <2> HIDE DEF Bad
  <2> QED BY <1>2, LeastNat, Zenon
<1>4. d \in 0 .. N /\ ~Grows(d) BY <1>3, Zenon
<1>5. CASE d = 0
  <2>1. lockout[0] = 1 BY <1>0, <1>1
  <2>2. \A c \in 0 .. 0 : c = 0 OBVIOUS
  <2>3. Grows(0) BY <2>1, <2>2
  <2> QED BY <1>4, <1>5, <2>3, Zenon
<1>6. CASE d # 0
  <2>1. d - 1 \in 0 .. N /\ d \in 0 .. N /\ ~(d <= d - 1) BY <1>0, <1>4, <1>6
  <2>2. Grows(d - 1) BY <1>3, <2>1, Zenon
  <2>3. lockout[d] = 2 * lockout[d - 1] BY <1>1, <1>4, <1>6, Zenon
  <2>4. lockout[d - 1] \in Nat
    <3>1. d - 1 \in 0 .. (d - 1) BY <2>1
    <3> QED BY <2>2, <3>1, Zenon
  <2>5. lockout[d] \in Nat /\ lockout[d - 1] <= lockout[d] BY <2>3, <2>4
  <2>6. ASSUME NEW c \in 0 .. d PROVE lockout[c] \in Nat /\ lockout[c] <= lockout[d]
    <3>1. CASE c = d BY <2>5, <3>1
    <3>2. CASE c # d
      <4>1. c \in 0 .. (d - 1) BY <2>1, <3>2
      <4>2. lockout[c] \in Nat /\ lockout[c] <= lockout[d - 1] BY <2>2, <4>1, Zenon
      <4> QED BY <2>4, <2>5, <4>2
    <3> QED BY <3>1, <3>2, Zenon
  <2> QED BY <1>4, <2>6, Zenon
<1> QED BY <1>5, <1>6, Zenon

-----------------------------------------------------------------------------
(* The tree of the slots *)

\* The equation that defines Ancestors has a solution.
LEMMA AncestorsDef ==
    Ancestors = [s \in Slots |-> IF s = 0 THEN {} ELSE {Parent[s]} \cup Ancestors[Parent[s]]]
<1> DEFINE Solves(f, k) == /\ f \in [0 .. k -> SUBSET Slots]
                           /\ \A s \in 0 .. k : f[s] = IF s = 0 THEN {} ELSE {Parent[s]} \cup f[Parent[s]]
           Bad == {k \in 0 .. MaxSlot : ~\E f : Solves(f, k)}
<1>0. MaxSlot \in Nat /\ \A s \in 1 .. MaxSlot : Parent[s] \in Slots /\ Parent[s] \in Nat /\ Parent[s] < s
  BY TowerAssumption DEF Slots
<1>1. Bad = {}
  <2> SUFFICES ASSUME Bad # {} PROVE FALSE BY Zenon
  <2>1. Bad \subseteq Nat BY <1>0
  <2>2. PICK k \in Bad : \A j \in Bad : k <= j
    <3> HIDE DEF Bad
    <3> QED BY <2>1, LeastNat, Zenon
  <2>3. CASE k = 0
    <3>1. Solves([s \in 0 .. 0 |-> {}], 0) OBVIOUS
    <3> QED BY <2>2, <2>3, <3>1, Zenon
  <2>4. CASE k > 0
    <3>1. k \in 1 .. MaxSlot BY <1>0, <2>2, <2>4
    <3>2. k - 1 \in 0 .. MaxSlot /\ ~(k <= k - 1) BY <1>0, <3>1
    <3>3. PICK f : Solves(f, k - 1) BY <2>2, <3>2, Zenon
    <3> DEFINE g == [s \in 0 .. k |-> IF s = k THEN {Parent[k]} \cup f[Parent[k]] ELSE f[s]]
    <3>4. \A s \in 1 .. k : Parent[s] \in 0 .. (k - 1) /\ Parent[s] \in 0 .. k /\ Parent[s] # k /\ Parent[s] \in Slots
      BY <1>0, <3>1
    <3>5. \A s \in 0 .. k : s # k => s \in 0 .. (k - 1) BY <3>1
    <3>6. k \in 1 .. k /\ k # 0 /\ \A s \in 0 .. k : s # 0 => s \in 1 .. k BY <3>1
    <3>7. g \in [0 .. k -> SUBSET Slots]
      <4>1. f[Parent[k]] \in SUBSET Slots /\ Parent[k] \in Slots BY <3>3, <3>4, <3>6, Zenon
      <4> QED BY <3>3, <3>5, <4>1, Zenon
    <3>8. ASSUME NEW s \in 0 .. k PROVE g[s] = IF s = 0 THEN {} ELSE {Parent[s]} \cup g[Parent[s]]
      <4>1. CASE s = k
        <5>1. g[Parent[k]] = f[Parent[k]] BY <3>4, <3>6, Zenon
        <5> QED BY <3>6, <4>1, <5>1, Zenon
      <4>2. CASE s # k
        <5>1. g[s] = f[s] BY <4>2, Zenon
        <5>2. s # 0 => g[Parent[s]] = f[Parent[s]] BY <3>4, <3>6, Zenon
        <5> QED BY <3>3, <3>5, <4>2, <5>1, <5>2, Zenon
      <4> QED BY <4>1, <4>2, Zenon
    <3>9. Solves(g, k) BY <3>7, <3>8, Zenon
    <3> QED BY <2>2, <3>9, Zenon
  <2> QED BY <2>1, <2>2, <2>3, <2>4
<1>2. PICK f : Solves(f, MaxSlot)
  <2>1. MaxSlot \in 0 .. MaxSlot BY <1>0
  <2> QED BY <1>1, <2>1, Zenon
<1>3. f = [s \in Slots |-> IF s = 0 THEN {} ELSE {Parent[s]} \cup f[Parent[s]]] BY <1>2, Zenon DEF Slots
<1> QED BY <1>3, Zenon DEF Ancestors

\* The ancestors of a slot are older, their ancestors are among them, and of two
\* ancestors the older is an ancestor of the newer.
LEMMA AncestorFacts ==
    \A s \in Slots :
        /\ Ancestors[s] \subseteq Slots
        /\ \A a \in Ancestors[s] :
              /\ a < s /\ Ancestors[a] \subseteq Ancestors[s]
              /\ \A b \in Ancestors[s] : a < b => a \in Ancestors[b]
<1> DEFINE Good(s) == /\ Ancestors[s] \subseteq Slots
                      /\ \A a \in Ancestors[s] :
                            /\ a < s /\ Ancestors[a] \subseteq Ancestors[s]
                            /\ \A b \in Ancestors[s] : a < b => a \in Ancestors[b]
           Bad == {s \in Slots : ~Good(s)}
<1>0. MaxSlot \in Nat /\ Slots = 0 .. MaxSlot /\ \A s \in 1 .. MaxSlot : Parent[s] \in Slots /\ Parent[s] < s
  BY TowerAssumption, Zenon DEF Slots
<1>1. \A s \in Slots : Ancestors[s] = IF s = 0 THEN {} ELSE {Parent[s]} \cup Ancestors[Parent[s]]
  BY AncestorsDef, Zenon
<1> SUFFICES ASSUME Bad # {} PROVE FALSE BY Zenon
<1>2. Bad \subseteq Nat BY <1>0
<1>3. PICK s \in Bad : \A j \in Bad : s <= j
  <2> HIDE DEF Bad
  <2> QED BY <1>2, LeastNat, Zenon
<1>4. s \in Slots /\ ~Good(s) BY <1>3, Zenon
<1>5. CASE s = 0
  <2>1. Ancestors[s] = {} BY <1>1, <1>4, <1>5, Zenon
  <2> QED BY <1>4, <2>1, Zenon
<1>6. CASE s # 0
  <2> DEFINE p == Parent[s]
  <2>1. s \in 1 .. MaxSlot BY <1>0, <1>4, <1>6
  <2>2. p \in Slots /\ p < s BY <1>0, <2>1, Zenon
  <2>3. p \in Nat /\ s \in Nat /\ \A x \in Slots : x \in Nat BY <1>0, <1>4, <2>2
  <2>4. ~(s <= p) BY <2>2, <2>3
  <2>5. Good(p) BY <1>3, <2>2, <2>4, Zenon
  <2>6. Ancestors[s] = {p} \cup Ancestors[p] BY <1>1, <1>4, <1>6, Zenon
  <2> HIDE DEF p
  <2>7. Ancestors[s] \subseteq Slots BY <2>2, <2>5, <2>6, Zenon
  <2>8. ASSUME NEW a \in Ancestors[s]
        PROVE  /\ a < s /\ Ancestors[a] \subseteq Ancestors[s]
               /\ \A b \in Ancestors[s] : a < b => a \in Ancestors[b]
    <3>0. a \in Nat BY <2>3, <2>7, Zenon
    <3>1. CASE a = p
      <4>1. ASSUME NEW b \in Ancestors[s], p < b PROVE FALSE
        <5>1. b = p \/ b < p BY <2>5, <2>6, Zenon
        <5>2. b \in Nat BY <2>3, <2>7, Zenon
        <5> QED BY <2>3, <4>1, <5>1, <5>2
      <4> QED BY <2>2, <2>6, <3>1, <4>1, Zenon
    <3>2. CASE a \in Ancestors[p]
      <4>1. a < p BY <2>5, <3>2, Zenon
      <4>2. a < s BY <2>2, <2>3, <3>0, <4>1
      <4>3. Ancestors[a] \subseteq Ancestors[s] BY <2>5, <2>6, <3>2, Zenon
      <4>4. \A b \in Ancestors[s] : a < b => a \in Ancestors[b] BY <2>5, <2>6, <3>2, Zenon
      <4> QED BY <4>2, <4>3, <4>4, Zenon
    <3> QED BY <2>6, <3>1, <3>2, Zenon
  <2>9. Good(s) BY <2>7, <2>8, Zenon
  <2> QED BY <1>4, <2>9, Zenon
<1> QED BY <1>5, <1>6, Zenon

\* An ancestor is a slot, and no later than its descendant.
LEMMA ForkOrder ==
    ASSUME NEW b \in Slots, NEW a, OnFork(a, b)
    PROVE  a \in Slots /\ a \in Nat /\ b \in Nat /\ a <= b
<1>0. \A x \in Slots : x \in Nat BY TowerAssumption DEF Slots
<1>1. CASE a = b
  <2>1. b <= b BY <1>0
  <2> QED BY <1>0, <1>1, <2>1, Zenon
<1>2. CASE a \in Ancestors[b]
  <2>1. a \in Slots /\ a < b BY <1>2, AncestorFacts, Zenon
  <2> QED BY <1>0, <2>1
<1> QED BY <1>1, <1>2, Zenon DEF OnFork

\* An ancestor of an ancestor is an ancestor.
LEMMA ForkTrans ==
    ASSUME NEW c \in Slots, NEW a, NEW b, OnFork(a, b), OnFork(b, c)
    PROVE  OnFork(a, c)
BY AncestorFacts, Zenon DEF OnFork

\* Of two slots on the fork of a third, the earlier is on the fork of the later.
LEMMA ForkJoin ==
    ASSUME NEW c \in Slots, NEW a, NEW b, OnFork(a, c), OnFork(b, c), a <= b
    PROVE  OnFork(a, b)
<1>0. a \in Nat /\ b \in Nat /\ b <= c /\ c \in Nat /\ a <= c BY ForkOrder, Zenon
<1>1. CASE a = b BY <1>1, Zenon DEF OnFork
<1>2. CASE a # b /\ b = c BY <1>2, Zenon DEF OnFork
<1>3. CASE a # b /\ b # c
  <2>1. a < b /\ a # c BY <1>0, <1>3
  <2>2. a \in Ancestors[c] /\ b \in Ancestors[c] BY <1>3, <2>1, Zenon DEF OnFork
  <2> QED BY <2>1, <2>2, AncestorFacts, Zenon DEF OnFork
<1> QED BY <1>1, <1>2, <1>3, Zenon

-----------------------------------------------------------------------------
(* Stacks of votes *)

Lockouts == [slot : Slots, confirmation_count : 1 .. MAX_LOCKOUT_HISTORY]

\* The votes of a tower: on one fork, oldest first, each confirmed more often than
\* the next, at least once by every vote above it, and locked out at the next.
Stack(votes) ==
    /\ votes \in Seq(Lockouts) /\ Len(votes) <= MAX_LOCKOUT_HISTORY
    /\ \A i \in 1 .. Len(votes) : votes[i].confirmation_count >= Len(votes) - i + 1
    /\ \A i, j \in 1 .. Len(votes) : i < j =>
           /\ votes[i].slot < votes[j].slot
           /\ votes[i].confirmation_count > votes[j].confirmation_count
           /\ OnFork(votes[i].slot, votes[j].slot)
    /\ \A i \in 1 .. Len(votes) - 1 : is_locked_out_at_slot(votes[i], votes[i + 1].slot)

\* Slots are numbers.
LEMMA SlotFacts == Slots = 0 .. MaxSlot /\ MaxSlot \in Nat /\ \A s \in Slots : s \in Nat
BY TowerAssumption DEF Slots

\* A vote is locked out at its own slot at least.
LEMMA LockoutFacts ==
    ASSUME NEW v \in Lockouts
    PROVE  /\ v.slot \in Slots /\ v.slot \in Nat
           /\ v.confirmation_count \in 1 .. MAX_LOCKOUT_HISTORY /\ v.confirmation_count \in Nat
           /\ last_locked_out_slot(v) \in Nat /\ v.slot <= last_locked_out_slot(v)
<1>1. v.slot \in Slots /\ v.confirmation_count \in 1 .. MAX_LOCKOUT_HISTORY BY Zenon DEF Lockouts
<1>2. v.slot \in Nat BY <1>1, SlotFacts, Zenon
<1>3. v.confirmation_count \in Nat /\ v.confirmation_count \in 0 .. MAX_LOCKOUT_HISTORY
      /\ v.confirmation_count \in 0 .. v.confirmation_count
  BY <1>1, TowerAssumption
<1>4. lockout[v.confirmation_count] \in Nat BY <1>3, LockoutGrows, Zenon
<1>5. v.slot + lockout[v.confirmation_count] \in Nat /\ v.slot <= v.slot + lockout[v.confirmation_count]
  BY <1>2, <1>4
<1> QED BY <1>1, <1>2, <1>3, <1>5, Zenon DEF last_locked_out_slot

\* More confirmations, longer lockout.
LEMMA LongerLockout ==
    ASSUME NEW v \in Lockouts, NEW w \in Lockouts, w.slot = v.slot,
           w.confirmation_count >= v.confirmation_count
    PROVE  last_locked_out_slot(v) <= last_locked_out_slot(w)
<1> DEFINE c == v.confirmation_count
           d == w.confirmation_count
<1>1. c \in 1 .. MAX_LOCKOUT_HISTORY /\ d \in 1 .. MAX_LOCKOUT_HISTORY /\ v.slot \in Nat
  BY LockoutFacts, Zenon
<1>2. d \in 0 .. MAX_LOCKOUT_HISTORY /\ c \in 0 .. d /\ d \in 0 .. d BY <1>1, TowerAssumption
<1>3. lockout[c] \in Nat /\ lockout[d] \in Nat /\ lockout[c] <= lockout[d] BY <1>2, LockoutGrows, Zenon
<1>4. v.slot + lockout[c] <= v.slot + lockout[d] BY <1>1, <1>3
<1> QED BY <1>4, Zenon DEF last_locked_out_slot

\* What lies in a stack without a gap is a stack.
LEMMA StackPart ==
    ASSUME NEW votes, Stack(votes), NEW part \in Seq(Lockouts), NEW k \in Nat,
           k + Len(part) <= Len(votes), \A i \in 1 .. Len(part) : part[i] = votes[i + k]
    PROVE  Stack(part)
<1> DEFINE m == Len(part)
           n == Len(votes)
<1>0. m \in Nat /\ n \in Nat /\ n <= MAX_LOCKOUT_HISTORY /\ MAX_LOCKOUT_HISTORY \in Nat
  BY TowerAssumption DEF Stack
<1>1. m <= MAX_LOCKOUT_HISTORY BY <1>0
<1>2. ASSUME NEW i \in 1 .. m PROVE part[i].confirmation_count >= m - i + 1
  <2>1. i + k \in 1 .. n /\ part[i] = votes[i + k] BY <1>0
  <2>2. votes[i + k].confirmation_count >= n - (i + k) + 1 BY <2>1, Zenon DEF Stack
  <2>3. votes[i + k] \in Lockouts BY <2>1 DEF Stack
  <2>4. votes[i + k].confirmation_count \in Nat BY <2>3, LockoutFacts, Zenon
  <2> QED BY <1>0, <2>1, <2>2, <2>4
<1>3. ASSUME NEW i \in 1 .. m, NEW j \in 1 .. m, i < j
      PROVE  /\ part[i].slot < part[j].slot
             /\ part[i].confirmation_count > part[j].confirmation_count
             /\ OnFork(part[i].slot, part[j].slot)
  <2>1. i + k \in 1 .. n /\ j + k \in 1 .. n /\ i + k < j + k BY <1>0, <1>3
  <2>2. part[i] = votes[i + k] /\ part[j] = votes[j + k] BY Zenon
  <2> QED BY <2>1, <2>2, Zenon DEF Stack
<1>4. ASSUME NEW i \in 1 .. m - 1 PROVE is_locked_out_at_slot(part[i], part[i + 1].slot)
  <2>1. i \in 1 .. m /\ i + 1 \in 1 .. m /\ i + k \in 1 .. n - 1 /\ (i + 1) + k = (i + k) + 1 BY <1>0
  <2>2. part[i] = votes[i + k] /\ part[i + 1] = votes[(i + 1) + k] BY <2>1, Zenon
  <2>3. part[i + 1] = votes[(i + k) + 1] BY <2>1, <2>2, Zenon
  <2> QED BY <2>1, <2>2, <2>3, Zenon DEF Stack
<1> QED BY <1>1, <1>2, <1>3, <1>4, Zenon DEF Stack

\* Where a stack is cut, both parts are stacks.
LEMMA StackCut ==
    ASSUME NEW votes, Stack(votes), NEW k \in 0 .. Len(votes)
    PROVE  /\ Stack(SubSeq(votes, 1, k)) /\ Len(SubSeq(votes, 1, k)) = k
           /\ \A i \in 1 .. k : SubSeq(votes, 1, k)[i] = votes[i]
           /\ Stack(SubSeq(votes, k + 1, Len(votes))) /\ Len(SubSeq(votes, k + 1, Len(votes))) = Len(votes) - k
           /\ \A i \in 1 .. Len(votes) - k : SubSeq(votes, k + 1, Len(votes))[i] = votes[i + k]
<1> DEFINE low == SubSeq(votes, 1, k)
           high == SubSeq(votes, k + 1, Len(votes))
<1>0. votes \in Seq(Lockouts) /\ Len(votes) \in Nat BY DEF Stack
<1>1. low \in Seq(Lockouts) /\ Len(low) = k /\ \A i \in 1 .. k : low[i] = votes[i] BY <1>0
<1>2. /\ high \in Seq(Lockouts) /\ Len(high) = Len(votes) - k
      /\ \A i \in 1 .. Len(votes) - k : high[i] = votes[i + k]
  BY <1>0
<1> HIDE DEF low, high
<1>3. Stack(low)
  <2>1. 0 + Len(low) <= Len(votes) /\ 0 \in Nat BY <1>0, <1>1
  <2>2. \A i \in 1 .. Len(low) : low[i] = votes[i + 0] BY <1>0, <1>1
  <2> QED BY <1>1, <2>1, <2>2, StackPart, Zenon
<1>4. Stack(high)
  <2>1. k + Len(high) <= Len(votes) /\ k \in Nat BY <1>0, <1>2
  <2>2. \A i \in 1 .. Len(high) : high[i] = votes[i + k] BY <1>2, Zenon
  <2> QED BY <1>2, <2>1, <2>2, StackPart, Zenon
<1> QED BY <1>1, <1>2, <1>3, <1>4, Zenon DEF low, high

\* The same of a vote in a stack.
LEMMA StackVote ==
    ASSUME NEW votes, Stack(votes), NEW i \in 1 .. Len(votes)
    PROVE  /\ votes[i] \in Lockouts /\ votes[i].slot \in Slots /\ votes[i].slot \in Nat
           /\ votes[i].confirmation_count \in 1 .. MAX_LOCKOUT_HISTORY
           /\ last_locked_out_slot(votes[i]) \in Nat
           /\ votes[i].slot <= last_locked_out_slot(votes[i])
<1>1. votes[i] \in Lockouts BY DEF Stack
<1> QED BY <1>1, LockoutFacts, Zenon

\* A stack is no deeper than the tower may be.
LEMMA StackLen ==
    ASSUME NEW votes, Stack(votes)
    PROVE  /\ Len(votes) \in Nat /\ Len(votes) <= MAX_LOCKOUT_HISTORY /\ DOMAIN votes = 1 .. Len(votes)
           /\ votes = <<>> <=> Len(votes) = 0
           /\ votes # <<>> => Len(votes) \in 1 .. Len(votes)
BY DEF Stack

\* The newest vote of a stack.
LEMMA LastVote ==
    ASSUME NEW votes, Stack(votes), votes # <<>>
    PROVE  /\ last_voted_slot(votes) = votes[Len(votes)].slot /\ last_voted_slot(votes) \in Slots
           /\ \A i \in 1 .. Len(votes) : votes[i].slot <= last_voted_slot(votes)
                                         /\ OnFork(votes[i].slot, last_voted_slot(votes))
<1> DEFINE n == Len(votes)
<1>1. n \in Nat /\ n \in 1 .. n /\ last_voted_slot(votes) = votes[n].slot
  BY StackLen, Zenon DEF last_voted_slot
<1>2. votes[n].slot \in Slots BY <1>1, StackVote, Zenon
<1>3. ASSUME NEW i \in 1 .. n PROVE votes[i].slot <= votes[n].slot /\ OnFork(votes[i].slot, votes[n].slot)
  <2>1. votes[i].slot \in Nat /\ votes[n].slot \in Nat BY <1>1, StackVote, Zenon
  <2>2. CASE i = n BY <2>1, <2>2 DEF OnFork
  <2>3. CASE i < n
    <3>1. votes[i].slot < votes[n].slot /\ OnFork(votes[i].slot, votes[n].slot)
      BY <1>1, <2>3, Zenon DEF Stack
    <3>2. votes[i].slot <= votes[n].slot BY <2>1, <3>1
    <3> QED BY <3>1, <3>2, Zenon
  <2> QED BY <1>1, <2>2, <2>3
<1> QED BY <1>1, <1>2, <1>3, Zenon

\* A vote that is there twice has the same index.
LEMMA StackOrder ==
    ASSUME NEW votes, Stack(votes), NEW i \in 1 .. Len(votes), NEW j \in 1 .. Len(votes)
    PROVE  /\ votes[i].slot <= votes[j].slot <=> i <= j
           /\ votes[i].slot < votes[j].slot <=> i < j
<1>1. votes[i].slot \in Nat /\ votes[j].slot \in Nat BY StackVote, Zenon
<1>2. i \in Nat /\ j \in Nat BY StackLen
<1>3. i < j => votes[i].slot < votes[j].slot BY Zenon DEF Stack
<1>4. j < i => votes[j].slot < votes[i].slot BY Zenon DEF Stack
<1> QED BY <1>1, <1>2, <1>3, <1>4

\* The retained votes are the ones past slot s.
LEMMA NewerFacts ==
    ASSUME NEW votes, Stack(votes), NEW s \in Nat
    PROVE  /\ Stack(Newer(votes, s))
           /\ \E k \in 0 .. Len(votes) :
                  /\ Len(Newer(votes, s)) = Len(votes) - k
                  /\ \A i \in 1 .. Len(votes) - k : Newer(votes, s)[i] = votes[i + k]
                  /\ \A i \in 1 .. Len(votes) : votes[i].slot <= s <=> i <= k
<1> DEFINE n == Len(votes)
           I == {0} \cup {i \in DOMAIN votes : votes[i].slot <= s}
           k == Latest(I)
<1>1. n \in Nat /\ DOMAIN votes = 1 .. n BY StackLen, Zenon
<1>2. I \subseteq 0 .. n /\ I # {} BY <1>1
<1>3. k \in I /\ \A i \in I : i <= k BY <1>1, <1>2, LatestFacts, Zenon
<1>4. k \in 0 .. n BY <1>2, <1>3, Zenon
<1>5. ASSUME NEW i \in 1 .. n PROVE votes[i].slot <= s <=> i <= k
  <2>1. ASSUME votes[i].slot <= s PROVE i <= k
    <3>1. i \in I BY <1>1, <2>1, Zenon
    <3> QED BY <1>3, <3>1, Zenon
  <2>2. ASSUME i <= k PROVE votes[i].slot <= s
    <3>1. k # 0 /\ k \in 1 .. n BY <1>1, <1>4, <2>2
    <3>2. votes[k].slot <= s BY <1>3, <3>1, Zenon
    <3>3. votes[i].slot <= votes[k].slot BY <2>2, <3>1, StackOrder, Zenon
    <3>4. votes[i].slot \in Nat /\ votes[k].slot \in Nat BY <3>1, StackVote, Zenon
    <3> QED BY <3>2, <3>3, <3>4
  <2> QED BY <2>1, <2>2, Zenon
<1>6. Newer(votes, s) = SubSeq(votes, k + 1, n) BY Zenon DEF Newer
<1> HIDE DEF k
<1>7. /\ Stack(SubSeq(votes, k + 1, n)) /\ Len(SubSeq(votes, k + 1, n)) = n - k
      /\ \A i \in 1 .. n - k : SubSeq(votes, k + 1, n)[i] = votes[i + k]
  BY <1>4, StackCut, Zenon
<1> QED BY <1>4, <1>5, <1>6, <1>7, Zenon

\* Popping leaves the votes up to the newest that is locked out at s.
LEMMA PopFacts ==
    ASSUME NEW votes, Stack(votes), NEW s \in Slots
    PROVE  LET popped == pop_expired_votes(votes, s) IN
           /\ Stack(popped) /\ Len(popped) \in 0 .. Len(votes)
           /\ \A i \in 1 .. Len(popped) : popped[i] = votes[i]
           /\ popped # <<>> => is_locked_out_at_slot(popped[Len(popped)], s)
           /\ \A i \in 1 .. Len(votes) : i > Len(popped) => ~is_locked_out_at_slot(votes[i], s)
<1> DEFINE n == Len(votes)
           I == {0} \cup {i \in DOMAIN votes : is_locked_out_at_slot(votes[i], s)}
           k == Latest(I)
           popped == SubSeq(votes, 1, k)
<1>1. n \in Nat /\ DOMAIN votes = 1 .. n BY StackLen, Zenon
<1>2. I \subseteq 0 .. n /\ I # {} BY <1>1
<1>3. k \in I /\ \A i \in I : i <= k BY <1>1, <1>2, LatestFacts, Zenon
<1>4. k \in 0 .. n BY <1>2, <1>3, Zenon
<1>5. pop_expired_votes(votes, s) = popped BY Zenon DEF pop_expired_votes
<1>6. Stack(popped) /\ Len(popped) = k /\ \A i \in 1 .. k : popped[i] = votes[i]
  <2> HIDE DEF k
  <2> QED BY <1>4, StackCut, Zenon
<1>7. ASSUME NEW i \in 1 .. n, i > k PROVE ~is_locked_out_at_slot(votes[i], s)
  <2>1. i \notin I
    <3> HIDE DEF k, I
    <3> QED BY <1>1, <1>3, <1>4, <1>7
  <2> QED BY <1>1, <2>1, Zenon
<1>8. ASSUME popped # <<>> PROVE is_locked_out_at_slot(popped[k], s)
  <2>1. k # 0 /\ k \in 1 .. k
    <3> HIDE DEF k, popped
    <3> QED BY <1>1, <1>4, <1>6, <1>8, StackLen, Zenon
  <2>2. is_locked_out_at_slot(votes[k], s) BY <1>3, <2>1, Zenon
  <2> QED BY <1>6, <2>1, <2>2, Zenon
<1> HIDE DEF popped, k, I
<1> QED BY <1>4, <1>5, <1>6, <1>7, <1>8, Zenon

\* The confirmations double_lockouts leaves of c, at index i of n.
Doubled(n, i, c) == IF n > i - 1 + c THEN c + 1 ELSE c

\* A doubled count is no less than it was, and at least the depth of the vote in the stack.
LEMMA DoubledFacts ==
    ASSUME NEW n \in Nat, n + 1 <= MAX_LOCKOUT_HISTORY, NEW i \in Nat, i >= 1, NEW c \in Nat,
           c \in 1 .. MAX_LOCKOUT_HISTORY, c >= n - i + 1
    PROVE  LET d == Doubled(n + 1, i, c) IN
           d >= c /\ d >= n + 1 - i + 1 /\ d \in 1 .. MAX_LOCKOUT_HISTORY
BY TowerAssumption DEF Doubled

\* Doubling keeps the older of two votes the more confirmed one.
LEMMA ConfirmedInOrder ==
    ASSUME NEW n \in Nat, NEW i \in Nat, NEW j \in Nat, NEW c \in Nat, NEW d \in Nat, i < j, c > d
    PROVE  Doubled(n, i, c) > Doubled(n, j, d)
BY DEF Doubled

\* A vote for s on top of the votes that are locked out there and on its fork.
LEMMA PushFacts ==
    ASSUME NEW votes, Stack(votes), Len(votes) < MAX_LOCKOUT_HISTORY, NEW s \in Slots,
           \A i \in 1 .. Len(votes) : votes[i].slot < s /\ OnFork(votes[i].slot, s),
           votes # <<>> => is_locked_out_at_slot(votes[Len(votes)], s)
    PROVE  LET pushed == double_lockouts(Append(votes, [slot |-> s, confirmation_count |-> 1])) IN
           /\ Stack(pushed) /\ Len(pushed) = Len(votes) + 1 /\ pushed[Len(pushed)].slot = s
           /\ \A i \in 1 .. Len(votes) :
                  /\ pushed[i].slot = votes[i].slot
                  /\ pushed[i].confirmation_count >= votes[i].confirmation_count
<1> DEFINE n == Len(votes)
           vote == [slot |-> s, confirmation_count |-> 1]
           long == Append(votes, vote)
           pushed == double_lockouts(long)
<1>0. n \in Nat /\ votes \in Seq(Lockouts) /\ MAX_LOCKOUT_HISTORY \in Nat /\ n + 1 <= MAX_LOCKOUT_HISTORY
  BY TowerAssumption DEF Stack
<1>1. vote \in Lockouts BY <1>0 DEF Lockouts
<1>2. /\ long \in Seq(Lockouts) /\ Len(long) = n + 1 /\ DOMAIN long = 1 .. n + 1
      /\ \A i \in 1 .. n : long[i] = votes[i]
      /\ long[n + 1] = vote
  <2> HIDE DEF vote
  <2> QED BY <1>0, <1>1
<1> HIDE DEF long
<1>3. ASSUME NEW i \in 1 .. n + 1
      PROVE  /\ long[i] \in Lockouts /\ long[i].slot \in Slots /\ long[i].slot \in Nat
             /\ long[i].confirmation_count \in 1 .. MAX_LOCKOUT_HISTORY
             /\ long[i].confirmation_count >= n - i + 1
  <2>1. long[i] \in Lockouts BY <1>0, <1>2
  <2>2. CASE i = n + 1
    <3>1. long[i].confirmation_count = 1 BY <1>2, <2>2
    <3> QED BY <1>0, <2>1, <2>2, <3>1, LockoutFacts
  <2>3. CASE i \in 1 .. n
    <3>1. long[i].confirmation_count >= n - i + 1 BY <1>2, <2>3, Zenon DEF Stack
    <3> QED BY <2>1, <3>1, LockoutFacts, Zenon
  <2> QED BY <1>0, <2>2, <2>3
<1> HIDE DEF vote
<1> DEFINE c(i) == Doubled(n + 1, i, long[i].confirmation_count)
<1>4. pushed = [i \in 1 .. n + 1 |-> [long[i] EXCEPT !.confirmation_count = c(i)]]
  BY <1>2, Zenon DEF double_lockouts, Doubled
<1>5. ASSUME NEW i \in 1 .. n + 1
      PROVE  /\ pushed[i] \in Lockouts
             /\ pushed[i].slot = long[i].slot /\ pushed[i].confirmation_count = c(i)
             /\ c(i) >= long[i].confirmation_count /\ c(i) >= n + 1 - i + 1 /\ c(i) \in 1 .. MAX_LOCKOUT_HISTORY
  <2>1. c(i) >= long[i].confirmation_count /\ c(i) >= n + 1 - i + 1 /\ c(i) \in 1 .. MAX_LOCKOUT_HISTORY
    <3>1. long[i].confirmation_count \in 1 .. MAX_LOCKOUT_HISTORY /\ long[i].confirmation_count >= n - i + 1
      BY <1>3, Zenon
    <3>2. /\ long[i].confirmation_count \in Nat /\ i \in Nat /\ i >= 1
      BY <1>0, <3>1
    <3> QED BY <1>0, <3>1, <3>2, DoubledFacts, Zenon
  <2>2. pushed[i] = [long[i] EXCEPT !.confirmation_count = c(i)] BY <1>4, Zenon
  <2> HIDE DEF c, pushed
  <2>3. long[i] \in [slot : Slots, confirmation_count : 1 .. MAX_LOCKOUT_HISTORY] BY <1>3, Zenon DEF Lockouts
  <2>4. pushed[i].slot = long[i].slot /\ pushed[i].confirmation_count = c(i) BY <2>2, <2>3, Zenon
  <2>5. pushed[i] \in Lockouts BY <2>1, <2>2, <2>3, Zenon DEF Lockouts
  <2> QED BY <2>1, <2>4, <2>5, Zenon
<1>6. pushed \in Seq(Lockouts) /\ Len(pushed) = n + 1
  <2> DEFINE f(i) == [long[i] EXCEPT !.confirmation_count = c(i)]
  <2>1. \A i \in 1 .. n + 1 : f(i) \in Lockouts BY <1>4, <1>5, Zenon
  <2>2. pushed = [i \in 1 .. n + 1 |-> f(i)] BY <1>4, Zenon
  <2> HIDE DEF f, pushed
  <2> QED BY <1>0, <2>1, <2>2
<1>7. pushed[n + 1].slot = s
  <2>1. n + 1 \in 1 .. n + 1 BY <1>0
  <2>2. pushed[n + 1].slot = long[n + 1].slot BY <1>5, <2>1, Zenon
  <2> QED BY <1>2, <2>2 DEF vote
<1>8. ASSUME NEW i \in 1 .. n
      PROVE pushed[i].slot = votes[i].slot /\ pushed[i].confirmation_count >= votes[i].confirmation_count
  <2>1. i \in 1 .. n + 1 BY <1>0
  <2> QED BY <1>2, <1>5, <2>1, Zenon
<1>9. ASSUME NEW i \in 1 .. n + 1, NEW j \in 1 .. n + 1, i < j
      PROVE  /\ long[i].slot < long[j].slot /\ OnFork(long[i].slot, long[j].slot)
             /\ c(i) > c(j)
  <2>1. i \in 1 .. n /\ i \in Nat /\ j \in Nat BY <1>0, <1>9
  <2>2. CASE j = n + 1
    <3>1. long[j].slot = s BY <1>2, <2>2 DEF vote
    <3>2. long[i].slot < s /\ OnFork(long[i].slot, s) BY <1>2, <2>1, Zenon
    <3>3. long[j].confirmation_count = 1 BY <1>2, <2>2 DEF vote
    <3>4. c(j) = 1 BY <1>0, <2>2, <3>3 DEF Doubled
    <3>5. c(i) >= n + 1 - i + 1 /\ c(i) \in 1 .. MAX_LOCKOUT_HISTORY BY <1>5, Zenon
    <3> HIDE DEF c
    <3>6. c(i) > c(j) BY <1>0, <1>9, <2>1, <2>2, <3>4, <3>5
    <3> QED BY <3>1, <3>2, <3>6, Zenon
  <2>3. CASE j \in 1 .. n
    <3>1. long[i].slot < long[j].slot /\ OnFork(long[i].slot, long[j].slot)
          /\ long[i].confirmation_count > long[j].confirmation_count
      BY <1>2, <1>9, <2>1, <2>3, Zenon DEF Stack
    <3>2. /\ long[i].confirmation_count \in 1 .. MAX_LOCKOUT_HISTORY
          /\ long[j].confirmation_count \in 1 .. MAX_LOCKOUT_HISTORY
      BY <1>3, Zenon
    <3>3. long[i].confirmation_count \in Nat /\ long[j].confirmation_count \in Nat /\ n + 1 \in Nat
      BY <1>0, <3>2
    <3>4. c(i) > c(j) BY <1>9, <2>1, <3>1, <3>3, ConfirmedInOrder, Zenon
    <3> QED BY <3>1, <3>4, Zenon
  <2> QED BY <1>0, <2>2, <2>3
<1>10. ASSUME NEW i \in 1 .. (n + 1) - 1 PROVE is_locked_out_at_slot(pushed[i], pushed[i + 1].slot)
  <2>1. i \in 1 .. n /\ i \in 1 .. n + 1 /\ i + 1 \in 1 .. n + 1 /\ (i = n \/ i \in 1 .. n - 1) BY <1>0
  <2>2. is_locked_out_at_slot(votes[i], pushed[i + 1].slot)
    <3>1. CASE i = n
      <4>1. votes # <<>> BY <2>1, <3>1
      <4> QED BY <1>7, <3>1, <4>1, Zenon
    <3>2. CASE i \in 1 .. n - 1
      <4>1. i + 1 \in 1 .. n BY <1>0, <3>2
      <4>2. pushed[i + 1].slot = votes[i + 1].slot BY <1>8, <4>1, Zenon
      <4> QED BY <3>2, <4>2, Zenon DEF Stack
    <3> QED BY <2>1, <3>1, <3>2, Zenon
  <2>3. /\ votes[i] \in Lockouts /\ pushed[i] \in Lockouts /\ pushed[i + 1] \in Lockouts
        /\ pushed[i].slot = votes[i].slot /\ pushed[i].confirmation_count >= votes[i].confirmation_count
    BY <1>5, <1>8, <2>1, StackVote, Zenon
  <2>4. last_locked_out_slot(votes[i]) <= last_locked_out_slot(pushed[i]) BY <2>3, LongerLockout, Zenon
  <2>5. last_locked_out_slot(votes[i]) \in Nat /\ last_locked_out_slot(pushed[i]) \in Nat
        /\ pushed[i + 1].slot \in Nat
    BY <2>3, LockoutFacts, Zenon
  <2> HIDE DEF pushed
  <2> QED BY <2>2, <2>4, <2>5 DEF is_locked_out_at_slot
<1>11. Stack(pushed)
  <2>1. \A i \in 1 .. n + 1 : pushed[i].confirmation_count >= n + 1 - i + 1 BY <1>5, Zenon
  <2>2. ASSUME NEW i \in 1 .. n + 1, NEW j \in 1 .. n + 1, i < j
        PROVE  /\ pushed[i].slot < pushed[j].slot
               /\ pushed[i].confirmation_count > pushed[j].confirmation_count
               /\ OnFork(pushed[i].slot, pushed[j].slot)
    BY <1>5, <1>9, <2>2, Zenon
  <2> DEFINE m == n + 1
  <2>3. /\ \A i \in 1 .. m : pushed[i].confirmation_count >= m - i + 1
        /\ \A i, j \in 1 .. m : i < j =>
               /\ pushed[i].slot < pushed[j].slot
               /\ pushed[i].confirmation_count > pushed[j].confirmation_count
               /\ OnFork(pushed[i].slot, pushed[j].slot)
        /\ \A i \in 1 .. m - 1 : is_locked_out_at_slot(pushed[i], pushed[i + 1].slot)
    <3>1. \A i \in 1 .. m - 1 : is_locked_out_at_slot(pushed[i], pushed[i + 1].slot) BY <1>10, Zenon
    <3>2. \A i, j \in 1 .. m : i < j =>
               /\ pushed[i].slot < pushed[j].slot
               /\ pushed[i].confirmation_count > pushed[j].confirmation_count
               /\ OnFork(pushed[i].slot, pushed[j].slot)
      BY <2>2, Zenon
    <3> QED BY <2>1, <3>1, <3>2
  <2>4. m = Len(pushed) /\ m <= MAX_LOCKOUT_HISTORY BY <1>0, <1>6, Zenon
  <2> HIDE DEF pushed, m
  <2> QED BY <1>6, <2>3, <2>4, Zenon DEF Stack
<1> QED BY <1>6, <1>7, <1>8, <1>11, Zenon DEF long, vote

-----------------------------------------------------------------------------
(* Vote states, and when one leaves nothing of another unaccounted for *)

\* The root is an ancestor of every vote.
Rooted(vs) == \A i \in 1 .. Len(vs.votes) : OnFork(vs.root, vs.votes[i].slot)

\* A vote state that was voted with.
Recorded(vs) == vs.root \in Slots /\ Stack(vs.votes) /\ vs.votes # <<>> /\ Rooted(vs)

\* What is_recent compares a bank with.
Recent(t) == IF t.votes = <<>> THEN t.root ELSE last_voted_slot(t.votes)

\* An earlier vote v is rooted, or still there and confirmed as often, or it was
\* over before the next vote of t.
Covers(t, v) ==
    \/ OnFork(v.slot, t.root)
    \/ \E i \in 1 .. Len(t.votes) :
          t.votes[i].slot = v.slot /\ t.votes[i].confirmation_count >= v.confirmation_count
    \/ /\ last_locked_out_slot(v) < Recent(t)
       /\ \A i \in 1 .. Len(t.votes) :
              t.votes[i].slot > v.slot => last_locked_out_slot(v) < t.votes[i].slot

Supersedes(t, u) ==
    /\ u.root <= t.root
    /\ last_voted_slot(u.votes) <= Recent(t)
    /\ \A i \in 1 .. Len(u.votes) : Covers(t, u.votes[i])

\* From t to a, nothing is lost.
Carries(t, a) ==
    /\ t.root <= a.root
    /\ Recent(t) <= Recent(a)
    /\ \A v \in Lockouts : Covers(t, v) => Covers(a, v)

\* What is_recent compares a bank with is a number.
LEMMA RecentFacts ==
    ASSUME NEW t, t.root \in Slots, Stack(t.votes)
    PROVE  Recent(t) \in Nat /\ t.root \in Nat /\ last_voted_slot(t.votes) \in Int
<1>1. CASE t.votes = <<>>
  <2>1. last_voted_slot(t.votes) = -1 /\ Recent(t) = t.root BY <1>1, Zenon DEF last_voted_slot, Recent
  <2> QED BY <2>1, SlotFacts
<1>2. CASE t.votes # <<>>
  <2>1. last_voted_slot(t.votes) \in Slots /\ Recent(t) = last_voted_slot(t.votes)
    BY <1>2, LastVote, Zenon DEF Recent
  <2> QED BY <2>1, SlotFacts
<1> QED BY <1>1, <1>2, Zenon

\* Whatever a tower supersedes, one that carries it supersedes.
LEMMA CarriesOver ==
    ASSUME NEW t, t.root \in Slots, Stack(t.votes), NEW a, a.root \in Slots, Stack(a.votes),
           Carries(t, a), NEW u, Recorded(u), Supersedes(t, u)
    PROVE  Supersedes(a, u)
<1>1. u.root \in Slots /\ Stack(u.votes) BY Zenon DEF Recorded
<1>2. /\ u.root \in Nat /\ t.root \in Nat /\ a.root \in Nat /\ Recent(t) \in Nat /\ Recent(a) \in Nat
      /\ last_voted_slot(u.votes) \in Int
  BY <1>1, RecentFacts, Zenon
<1>3. u.root <= a.root /\ last_voted_slot(u.votes) <= Recent(a) BY <1>2 DEF Carries, Supersedes
<1>4. \A i \in 1 .. Len(u.votes) : Covers(a, u.votes[i])
  <2> TAKE i \in 1 .. Len(u.votes)
  <2>1. u.votes[i] \in Lockouts BY <1>1, StackVote, Zenon
  <2> QED BY <2>1, Zenon DEF Carries, Supersedes
<1> QED BY <1>3, <1>4, Zenon DEF Supersedes

\* A recorded vote state supersedes itself.
LEMMA SupersedesItself ==
    ASSUME NEW u, Recorded(u)
    PROVE  Supersedes(u, u)
<1>1. u.root \in Slots /\ Stack(u.votes) /\ u.votes # <<>> BY Zenon DEF Recorded
<1>2. u.root \in Nat /\ Recent(u) \in Nat /\ Recent(u) = last_voted_slot(u.votes)
  BY <1>1, RecentFacts, Zenon DEF Recent
<1>3. u.root <= u.root /\ last_voted_slot(u.votes) <= Recent(u) BY <1>2
<1>4. \A i \in 1 .. Len(u.votes) : Covers(u, u.votes[i])
  <2> TAKE i \in 1 .. Len(u.votes)
  <2>1. u.votes[i].confirmation_count \in 1 .. MAX_LOCKOUT_HISTORY BY <1>1, StackVote, Zenon
  <2>2. u.votes[i].confirmation_count >= u.votes[i].confirmation_count BY <2>1
  <2> QED BY <2>2, Zenon DEF Covers
<1> QED BY <1>3, <1>4, Zenon DEF Supersedes

\* Only root and votes count.
LEMMA SameVoteState ==
    ASSUME NEW t, NEW a, a.root = t.root, a.votes = t.votes
    PROVE  /\ Rooted(a) <=> Rooted(t)
           /\ Recorded(a) <=> Recorded(t)
           /\ Recent(a) = Recent(t)
           /\ \A u : Supersedes(a, u) <=> Supersedes(t, u)
           /\ \A u : Supersedes(u, a) <=> Supersedes(u, t)
           /\ \A u : Carries(u, a) <=> Carries(u, t)
<1>1. Recent(a) = Recent(t) BY Zenon DEF Recent
<1>2. \A v : Covers(a, v) <=> Covers(t, v) BY <1>1, Zenon DEF Covers
<1>3. Rooted(a) <=> Rooted(t) BY Zenon DEF Rooted
<1>4. \A u : Supersedes(a, u) <=> Supersedes(t, u) BY <1>1, <1>2, Zenon DEF Supersedes
<1>5. \A u : Supersedes(u, a) <=> Supersedes(u, t) BY Zenon DEF Supersedes
<1>6. \A u : Carries(u, a) <=> Carries(u, t) BY <1>1, <1>2, Zenon DEF Carries
<1> QED BY <1>1, <1>3, <1>4, <1>5, <1>6, Zenon DEF Recorded

\* Pushing a vote keeps the slots.
LEMMA PushedSlots ==
    ASSUME NEW votes \in Seq(Lockouts), NEW s \in Slots
    PROVE  LET pushed == double_lockouts(Append(votes, [slot |-> s, confirmation_count |-> 1])) IN
           /\ DOMAIN pushed = 1 .. Len(votes) + 1
           /\ \A i \in 1 .. Len(votes) : pushed[i].slot = votes[i].slot
<1> DEFINE vote == [slot |-> s, confirmation_count |-> 1]
           long == Append(votes, vote)
           n == Len(votes)
           pushed == double_lockouts(long)
<1>1. n \in Nat /\ DOMAIN long = 1 .. n + 1 /\ (\A i \in 1 .. n : long[i] = votes[i] /\ i \in 1 .. n + 1)
      /\ (\A i \in 1 .. n : votes[i] \in Lockouts)
  <2> HIDE DEF vote
  <2> QED OBVIOUS
<1> HIDE DEF long
<1>2. pushed = [i \in DOMAIN long |->
        [long[i] EXCEPT !.confirmation_count = IF Len(long) > i - 1 + @ THEN @ + 1 ELSE @]]
  BY Zenon DEF double_lockouts
<1>3. DOMAIN pushed = 1 .. n + 1 BY <1>1, <1>2, Zenon
<1>4. ASSUME NEW i \in 1 .. n PROVE pushed[i].slot = votes[i].slot
  <2>1. pushed[i] = [long[i] EXCEPT !.confirmation_count = IF Len(long) > i - 1 + @ THEN @ + 1 ELSE @]
    BY <1>1, <1>2, Zenon
  <2>2. long[i] \in [slot : Slots, confirmation_count : 1 .. MAX_LOCKOUT_HISTORY]
    BY <1>1, Zenon DEF Lockouts
  <2> HIDE DEF pushed
  <2> QED BY <1>1, <2>1, <2>2, Zenon
<1> QED BY <1>3, <1>4, Zenon DEF long

\* What a vote for slot s does to the vote state t: the votes that are kept, of
\* which the oldest becomes the root if the tower is full, and the vote on top.
LEMMA VoteShape ==
    ASSUME NEW t, t.root \in Slots, Stack(t.votes), NEW s \in Slots, is_recent(t, s)
    PROVE  LET vs == process_next_vote_slot(VoteState(t), s) IN
           /\ vs = VoteState(vs)
           /\ \E p \in 0 .. Len(t.votes), k \in {0, 1} :
                  /\ k <= p /\ p - k < MAX_LOCKOUT_HISTORY
                  /\ \A i \in 1 .. Len(t.votes) : t.votes[i].slot < s
                  /\ \A i \in 1 .. Len(t.votes) : i > p => ~is_locked_out_at_slot(t.votes[i], s)
                  /\ p > 0 => is_locked_out_at_slot(t.votes[p], s)
                  /\ vs.root = IF k = 1 THEN t.votes[1].slot ELSE t.root
                  /\ \E kept : /\ Stack(kept) /\ Len(kept) = p - k
                               /\ \A i \in 1 .. p - k : kept[i] = t.votes[i + k]
                               /\ vs.votes = double_lockouts(Append(kept, [slot |-> s, confirmation_count |-> 1]))
<1> DEFINE votes == t.votes
           n == Len(votes)
           popped == pop_expired_votes(votes, s)
           p == Len(popped)
           full == p = MAX_LOCKOUT_HISTORY
           k == IF full THEN 1 ELSE 0
           kept == IF full THEN Tail(popped) ELSE popped
           vs == process_next_vote_slot(VoteState(t), s)
<1>0. n \in Nat /\ s \in Nat /\ MAX_LOCKOUT_HISTORY \in Nat \ {0} BY StackLen, SlotFacts, TowerAssumption, Zenon
<1>1. /\ Stack(popped) /\ p \in 0 .. n /\ \A i \in 1 .. p : popped[i] = votes[i]
      /\ popped # <<>> => is_locked_out_at_slot(popped[p], s)
      /\ \A i \in 1 .. n : i > p => ~is_locked_out_at_slot(votes[i], s)
  BY PopFacts, Zenon
<1>2. p \in Nat /\ p <= MAX_LOCKOUT_HISTORY /\ (popped = <<>> <=> p = 0) BY <1>1, StackLen, Zenon
<1>3. VoteState(t).votes = votes /\ VoteState(t).root = t.root BY Zenon DEF VoteState
<1>4. votes # <<>> => last_voted_slot(votes) < s /\ last_voted_slot(votes) \in Slots
  <2>1. votes # <<>> => s > last_voted_slot(votes) /\ last_voted_slot(votes) \in Slots
    BY LastVote, Zenon DEF is_recent
  <2>2. last_voted_slot(votes) \in Slots => last_voted_slot(votes) \in Nat BY SlotFacts, Zenon
  <2> HIDE DEF votes
  <2> QED BY <1>0, <2>1, <2>2, Zenon
<1>5. ASSUME NEW i \in 1 .. n PROVE votes[i].slot < s
  <2>1. votes # <<>> BY <1>0, StackLen
  <2>2. votes[i].slot <= last_voted_slot(votes) /\ votes[i].slot \in Nat BY <2>1, LastVote, StackVote, Zenon
  <2>3. last_voted_slot(votes) \in Nat BY <1>4, <2>1, SlotFacts, Zenon
  <2> HIDE DEF votes
  <2> QED BY <1>0, <1>4, <2>1, <2>2, <2>3
<1>6. ~(s <= last_voted_slot(votes))
  <2>1. CASE votes = <<>>
    <3>1. last_voted_slot(votes) = -1 BY <2>1, Zenon DEF last_voted_slot
    <3> QED BY <1>0, <3>1
  <2>2. CASE votes # <<>>
    <3>1. last_voted_slot(votes) \in Nat BY <1>4, <2>2, SlotFacts, Zenon
    <3> HIDE DEF votes
    <3> QED BY <1>0, <1>4, <2>2, <3>1
  <2> QED BY <2>1, <2>2, Zenon
<1>7. vs = [root |-> IF full THEN Head(popped).slot ELSE t.root,
            votes |-> double_lockouts(Append(kept, [slot |-> s, confirmation_count |-> 1]))]
  BY <1>3, <1>6, Zenon DEF process_next_vote_slot
<1>8. k \in {0, 1} /\ k <= p /\ p - k < MAX_LOCKOUT_HISTORY BY <1>0, <1>2
<1>9. p > 0 => is_locked_out_at_slot(votes[p], s)
  <2>1. p > 0 => p \in 1 .. p /\ p # 0 BY <1>2
  <2> QED BY <1>1, <1>2, <2>1, Zenon
<1>10. Stack(kept) /\ Len(kept) = p - k /\ \A i \in 1 .. p - k : kept[i] = votes[i + k]
  <2>1. CASE full
    <3>1. popped # <<>> /\ popped \in Seq(Lockouts) /\ p \in 1 .. n BY <1>0, <1>1, <1>2, <2>1 DEF Stack
    <3>2. kept = Tail(popped) /\ k = 1 BY <2>1, Zenon
    <3>3. /\ kept \in Seq(Lockouts) /\ Len(kept) = p - 1
          /\ \A i \in 1 .. Len(kept) : kept[i] = popped[i + 1]
      <4> HIDE DEF popped, kept
      <4> QED BY <3>1, <3>2 DEF p
    <3>4. 1 + Len(kept) <= p /\ 1 \in Nat BY <1>2, <3>3
    <3>5. Stack(kept)
      <4> HIDE DEF popped, kept
      <4> QED BY <1>1, <3>3, <3>4, StackPart, Zenon
    <3>6. \A i \in 1 .. Len(kept) : i + 1 \in 1 .. p BY <1>2, <3>3
    <3> HIDE DEF popped, kept, votes, k
    <3> QED BY <1>1, <3>2, <3>3, <3>5, <3>6, Zenon
  <2>2. CASE ~full
    <3>1. kept = popped /\ k = 0 BY <2>2, Zenon
    <3>2. p - 0 = p /\ \A i \in 1 .. p : i + 0 = i BY <1>2
    <3> HIDE DEF popped, kept, votes, k
    <3> QED BY <1>1, <3>1, <3>2, Zenon
  <2> QED BY <2>1, <2>2, Zenon
<1> HIDE DEF popped, kept, vs, votes
<1>11. vs.root = IF k = 1 THEN votes[1].slot ELSE t.root
  <2>1. vs.root = IF full THEN Head(popped).slot ELSE t.root BY <1>7, Zenon
  <2>2. CASE full
    <3>1. popped # <<>> /\ 1 \in 1 .. p BY <1>0, <1>2, <2>2
    <3>2. Head(popped) = popped[1] BY <3>1, <1>1 DEF Stack
    <3>3. popped[1] = votes[1] BY <1>1, <3>1, Zenon
    <3> QED BY <2>1, <2>2, <3>2, <3>3, Zenon
  <2>3. CASE ~full
    <3>1. k # 1 BY <2>3
    <3> QED BY <2>1, <2>3, <3>1, Zenon
  <2> QED BY <2>2, <2>3, Zenon
<1>12. vs.votes = double_lockouts(Append(kept, [slot |-> s, confirmation_count |-> 1])) BY <1>7, Zenon
<1>13. vs = VoteState(vs) BY <1>7, Zenon DEF VoteState
<1> HIDE DEF k, p
<1> QED BY <1>1, <1>5, <1>8, <1>9, <1>10, <1>11, <1>12, <1>13, Zenon DEF votes, vs

\* The vote state t after a vote for slot s, on the fork of the root f, that may be
\* cast: its votes are on that fork too, and it covers what t covered.
LEMMA VoteStep ==
    ASSUME NEW t, t.root \in Slots, Stack(t.votes),
           NEW f \in Slots, t.root = f \/ Rooted(t),
           NEW s \in Slots, OnFork(f, s), may_vote(t, s, {a \in Ancestors[s] : a >= f})
    PROVE  LET vs == process_next_vote_slot(VoteState(t), s) IN
           /\ Recorded(vs) /\ last_voted_slot(vs.votes) = s
           /\ vs = VoteState(vs) /\ Carries(t, vs)
<1> DEFINE vs == process_next_vote_slot(VoteState(t), s)
           A == {a \in Ancestors[s] : a >= f} \cup {s}
           votes == t.votes
           vote == [slot |-> s, confirmation_count |-> 1]
<1>0. /\ is_recent(t, s)
      /\ \A i \in DOMAIN vs.votes : vs.votes[i].slot \in A
      /\ vs.root \in A
  BY Zenon DEF may_vote, VotedSlots
<1> HIDE DEF vs
<1>1. PICK p \in 0 .. Len(votes), k \in {0, 1} :
          /\ k <= p /\ p - k < MAX_LOCKOUT_HISTORY
          /\ \A i \in 1 .. Len(votes) : votes[i].slot < s
          /\ \A i \in 1 .. Len(votes) : i > p => ~is_locked_out_at_slot(votes[i], s)
          /\ p > 0 => is_locked_out_at_slot(votes[p], s)
          /\ vs.root = IF k = 1 THEN votes[1].slot ELSE t.root
          /\ \E kept : /\ Stack(kept) /\ Len(kept) = p - k
                       /\ \A i \in 1 .. p - k : kept[i] = votes[i + k]
                       /\ vs.votes = double_lockouts(Append(kept, vote))
  BY <1>0, VoteShape, Zenon DEF vs
<1>2. PICK kept : /\ Stack(kept) /\ Len(kept) = p - k
                  /\ \A i \in 1 .. p - k : kept[i] = votes[i + k]
                  /\ vs.votes = double_lockouts(Append(kept, vote))
  BY <1>1, Zenon
<1> DEFINE n == Len(votes)
           m == p - k
<1>3. /\ n \in Nat /\ p \in 0 .. n /\ p \in Nat /\ m \in Nat /\ m < MAX_LOCKOUT_HISTORY
      /\ MAX_LOCKOUT_HISTORY \in Nat /\ s \in Nat /\ f \in Nat /\ t.root \in Nat /\ k \in Nat /\ k <= p
  BY <1>1, StackLen, SlotFacts, TowerAssumption
<1>4. \A a \in A : OnFork(a, s) /\ a \in Slots /\ a \in Nat /\ a >= f /\ OnFork(f, a)
  <2> TAKE a \in A
  <2>1. OnFork(a, s) BY Zenon DEF OnFork
  <2>2. a \in Slots /\ a \in Nat BY <2>1, ForkOrder, Zenon
  <2>3. f <= s BY ForkOrder, Zenon
  <2>4. a >= f /\ f <= a BY <1>3, <2>2, <2>3, Zenon
  <2>5. OnFork(f, a) BY <2>1, <2>4, ForkJoin, Zenon
  <2> QED BY <2>1, <2>2, <2>4, <2>5, Zenon
<1> HIDE DEF A
\* The kept votes are on the fork of s, under the vote for s.
<1>5. ASSUME NEW i \in 1 .. m
      PROVE  /\ i + k \in 1 .. p /\ i + k \in 1 .. n /\ kept[i] = votes[i + k]
             /\ kept[i].slot < s /\ kept[i].slot \in A
  <2>1. i + k \in 1 .. p /\ i + k \in 1 .. n /\ i \in 1 .. m + 1 BY <1>3
  <2>2. kept[i] = votes[i + k] BY <1>2, Zenon
  <2>3. kept[i].slot < s BY <1>1, <2>1, <2>2, Zenon
  <2>4. kept \in Seq(Lockouts) /\ Len(kept) = m BY <1>2, Zenon DEF Stack
  <2>5. DOMAIN vs.votes = 1 .. m + 1 /\ \A j \in 1 .. m : vs.votes[j].slot = kept[j].slot
    <3>1. /\ DOMAIN vs.votes = 1 .. Len(kept) + 1
          /\ \A j \in 1 .. Len(kept) : vs.votes[j].slot = kept[j].slot
      BY <1>2, <2>4, PushedSlots, ZenonT(30)
    <3> HIDE DEF m
    <3> QED BY <2>4, <3>1, Zenon
  <2>6. kept[i].slot \in A BY <1>0, <2>1, <2>5, Zenon
  <2> QED BY <2>1, <2>2, <2>3, <2>6, Zenon
<1>6. /\ Stack(vs.votes) /\ Len(vs.votes) = m + 1 /\ vs.votes[m + 1].slot = s
      /\ \A i \in 1 .. m : /\ vs.votes[i].slot = kept[i].slot
                           /\ vs.votes[i].confirmation_count >= kept[i].confirmation_count
  <2>1. Len(kept) = m /\ Len(kept) < MAX_LOCKOUT_HISTORY BY <1>2, <1>3, Zenon
  <2>2. \A i \in 1 .. Len(kept) : kept[i].slot < s /\ OnFork(kept[i].slot, s)
    BY <1>4, <1>5, <2>1, Zenon
  <2>3. ASSUME kept # <<>> PROVE is_locked_out_at_slot(kept[Len(kept)], s)
    <3>1. m # 0 BY <1>2, <2>1, <2>3, StackLen, Zenon
    <3>2. m \in 1 .. m /\ m + k = p /\ p > 0 BY <1>1, <1>3, <3>1
    <3>3. kept[m] = votes[p] BY <1>5, <3>2, Zenon
    <3> QED BY <1>1, <2>1, <3>2, <3>3, Zenon
  <2>4. /\ Stack(vs.votes) /\ Len(vs.votes) = Len(kept) + 1 /\ vs.votes[Len(vs.votes)].slot = s
        /\ \A i \in 1 .. Len(kept) : /\ vs.votes[i].slot = kept[i].slot
                                     /\ vs.votes[i].confirmation_count >= kept[i].confirmation_count
    <3> DEFINE pushed == double_lockouts(Append(kept, vote))
    <3>1. Stack(kept) /\ Len(kept) < MAX_LOCKOUT_HISTORY BY <1>2, <2>1, Zenon
    <3>2. kept # <<>> => is_locked_out_at_slot(kept[Len(kept)], s) BY <2>3, Zenon
    <3>3. /\ Stack(pushed) /\ Len(pushed) = Len(kept) + 1 /\ pushed[Len(pushed)].slot = s
          /\ \A i \in 1 .. Len(kept) : /\ pushed[i].slot = kept[i].slot
                                       /\ pushed[i].confirmation_count >= kept[i].confirmation_count
      BY <2>2, <3>1, <3>2, PushFacts, Zenon
    <3>4. vs.votes = pushed BY <1>2, Zenon
    <3> HIDE DEF pushed
    <3> QED BY <3>3, <3>4, Zenon
  <2> HIDE DEF m
  <2> QED BY <2>1, <2>4, Zenon
<1> HIDE DEF votes, m
<1>7. vs.votes # <<>> /\ last_voted_slot(vs.votes) = s /\ Recent(vs) = s
  <2>1. vs.votes # <<>> BY <1>3, <1>6, StackLen
  <2> QED BY <1>6, <2>1, Zenon DEF last_voted_slot, Recent
<1>8. vs.root \in Slots /\ vs.root \in Nat /\ OnFork(vs.root, s) /\ OnFork(f, vs.root) BY <1>0, <1>4, Zenon
\* The old root is an ancestor of the new one.
<1>9. OnFork(t.root, vs.root)
  <2>1. CASE t.root = f BY <1>8, <2>1, Zenon
  <2>2. CASE Rooted(t)
    <3>1. CASE k = 1
      <4>1. 1 \in 1 .. n BY <1>1, <1>3, <3>1
      <4> QED BY <1>1, <2>2, <3>1, <4>1, Zenon DEF Rooted, votes
    <3>2. CASE k = 0
      <4>1. k # 1 BY <3>2
      <4> QED BY <1>1, <4>1, Zenon DEF OnFork
    <3> QED BY <3>1, <3>2, Zenon
  <2> QED BY <2>1, <2>2, Zenon
<1>10. t.root <= vs.root BY <1>8, <1>9, ForkOrder, Zenon
<1>11. Rooted(vs)
  <2> SUFFICES ASSUME NEW i \in 1 .. m + 1 PROVE OnFork(vs.root, vs.votes[i].slot)
    BY <1>6, Zenon DEF Rooted
  <2>1. CASE i = m + 1 BY <1>6, <1>8, <2>1, Zenon
  <2>2. CASE i \in 1 .. m
    <3>1. vs.votes[i].slot = votes[i + k].slot /\ i + k \in 1 .. n /\ votes[i + k].slot \in A
      BY <1>5, <1>6, <2>2, Zenon
    <3>2. CASE k = 1
      <4>1. 1 \in 1 .. n /\ 1 < i + k BY <1>1, <1>3, <2>2, <3>2
      <4>2. OnFork(votes[1].slot, votes[i + k].slot) BY <3>1, <4>1, Zenon DEF Stack, votes
      <4> QED BY <1>1, <3>1, <3>2, <4>2, Zenon
    <3>3. CASE k = 0
      <4>1. k # 1 BY <3>3
      <4>2. vs.root = t.root BY <1>1, <4>1, Zenon
      <4>3. CASE t.root = f BY <1>4, <3>1, <4>2, <4>3, Zenon
      <4>4. CASE Rooted(t) BY <3>1, <4>2, <4>4, Zenon DEF Rooted, votes
      <4> QED BY <4>3, <4>4, Zenon
    <3> QED BY <3>2, <3>3, Zenon
  <2> QED BY <1>3, <2>1, <2>2
<1>12. Recorded(vs) BY <1>6, <1>7, <1>8, <1>11, Zenon DEF Recorded
<1>13. Recent(t) < s /\ Recent(t) \in Nat
  <2>1. CASE votes = <<>> BY <1>0, <1>3, <2>1, Zenon DEF is_recent, Recent, votes
  <2>2. CASE votes # <<>>
    <3>1. last_voted_slot(votes) \in Slots /\ Recent(t) = last_voted_slot(votes) /\ s > last_voted_slot(votes)
      BY <1>0, <2>2, LastVote, Zenon DEF is_recent, Recent, votes
    <3>2. last_voted_slot(votes) \in Nat BY <3>1, SlotFacts, Zenon
    <3> QED BY <1>3, <3>1, <3>2, Zenon
  <2> QED BY <2>1, <2>2, Zenon
<1>14. ASSUME NEW v \in Lockouts, Covers(t, v) PROVE Covers(vs, v)
  <2> DEFINE e == last_locked_out_slot(v)
  <2>0. v.slot \in Slots /\ v.slot \in Nat /\ e \in Nat /\ v.slot <= e BY LockoutFacts, Zenon
  <2> HIDE DEF e
  \* An index of vs is the one of a kept vote or of the vote for s.
  <2>1. ASSUME e < s, \A i \in 1 .. p : votes[i].slot > v.slot => e < votes[i].slot
        PROVE  Covers(vs, v)
    <3>1. ASSUME NEW i \in 1 .. m + 1, vs.votes[i].slot > v.slot PROVE e < vs.votes[i].slot
      <4>1. CASE i = m + 1 BY <1>6, <2>1, <4>1, Zenon
      <4>2. CASE i \in 1 .. m
        <5>1. i + k \in 1 .. p /\ vs.votes[i].slot = votes[i + k].slot BY <1>5, <1>6, <4>2, Zenon
        <5> QED BY <2>1, <3>1, <5>1, Zenon
      <4> QED BY <1>3, <4>1, <4>2
    <3> QED BY <1>6, <1>7, <2>1, <3>1, Zenon DEF Covers, e
  <2>2. CASE OnFork(v.slot, t.root)
    <3>1. OnFork(v.slot, vs.root) BY <1>8, <1>9, <2>2, ForkTrans, Zenon
    <3> QED BY <3>1, Zenon DEF Covers
  <2>3. CASE \E i \in 1 .. n : votes[i].slot = v.slot /\ votes[i].confirmation_count >= v.confirmation_count
    <3>1. PICK i \in 1 .. n : votes[i].slot = v.slot /\ votes[i].confirmation_count >= v.confirmation_count
      BY <2>3, Zenon
    <3>2. votes[i] \in Lockouts BY StackVote, Zenon DEF votes
    <3>3. CASE i <= k
      <4>1. i = 1 /\ k = 1 BY <1>1, <1>3, <3>3
      <4>2. vs.root = v.slot BY <1>1, <3>1, <4>1, Zenon
      <4> QED BY <4>2, Zenon DEF Covers, OnFork
    <3>4. CASE i > k /\ i <= p
      <4>1. i - k \in 1 .. m /\ (i - k) + k = i /\ i - k \in 1 .. m + 1 BY <1>1, <1>3, <3>4 DEF m
      <4>2. kept[i - k] = votes[i] BY <1>5, <4>1, Zenon
      <4>3. /\ vs.votes[i - k].slot = v.slot
            /\ vs.votes[i - k].confirmation_count >= votes[i].confirmation_count
        BY <1>6, <3>1, <4>1, <4>2, Zenon
      <4>4. vs.votes[i - k] \in Lockouts BY <1>6, <4>1, StackVote, Zenon
      <4>5. /\ vs.votes[i - k].confirmation_count \in Nat /\ votes[i].confirmation_count \in Nat
            /\ v.confirmation_count \in Nat
        BY <3>2, <4>4, LockoutFacts, Zenon
      <4>6. vs.votes[i - k].confirmation_count >= v.confirmation_count BY <3>1, <4>3, <4>5
      <4> QED BY <1>6, <4>1, <4>3, <4>6, Zenon DEF Covers
    <3>5. CASE i > p
      <4>1. ~is_locked_out_at_slot(votes[i], s) BY <1>1, <3>5, Zenon
      <4>2. e <= last_locked_out_slot(votes[i]) BY <3>1, <3>2, LongerLockout, Zenon DEF e
      <4>3. last_locked_out_slot(votes[i]) \in Nat BY <3>2, LockoutFacts, Zenon
      <4>4. e < s BY <1>3, <2>0, <4>1, <4>2, <4>3 DEF is_locked_out_at_slot
      <4>5. ASSUME NEW j \in 1 .. p PROVE ~(votes[j].slot > v.slot)
        <5>1. j \in 1 .. n /\ j < i BY <1>3, <3>5
        <5>2. votes[j].slot < votes[i].slot BY <5>1, Zenon DEF Stack, votes
        <5>3. votes[j].slot \in Nat BY <5>1, StackVote, Zenon DEF votes
        <5> QED BY <2>0, <3>1, <5>2, <5>3
      <4> QED BY <2>1, <4>4, <4>5, Zenon
    <3> QED BY <1>1, <1>3, <3>3, <3>4, <3>5
  <2>4. CASE /\ e < Recent(t)
             /\ \A i \in 1 .. n : votes[i].slot > v.slot => e < votes[i].slot
    <3>1. e < s BY <1>3, <1>13, <2>0, <2>4
    <3>2. \A i \in 1 .. p : i \in 1 .. n BY <1>3
    <3> QED BY <2>1, <2>4, <3>1, <3>2, Zenon
  <2> QED BY <1>14, <2>2, <2>3, <2>4, Zenon DEF Covers, e, votes
<1>15. Recent(t) <= Recent(vs) BY <1>3, <1>7, <1>13
<1>16. vs = VoteState(vs) BY <1>0, VoteShape, Zenon DEF vs
<1> QED BY <1>7, <1>10, <1>12, <1>14, <1>15, <1>16, Zenon DEF vs, Carries

-----------------------------------------------------------------------------
(* Towers *)

VoteStates == [root : Slots, votes : Seq(Lockouts)]

Towers == [root : Slots, votes : Seq(Lockouts), last_vote : VoteStates \cup {Unvoted}, signed : BOOLEAN]

\* A tower without votes is a stack.
LEMMA EmptyStack == Stack(<<>>)
BY TowerAssumption DEF Stack

\* A vote account that the tower supersedes can only be adopted by an empty tower,
\* and then it brings nothing, or a single vote for the root.
LEMMA AdoptFacts ==
    ASSUME NEW t \in Towers, Stack(t.votes), NEW u \in VoteStates, Recorded(u), Supersedes(t, u)
    PROVE  LET a == Adopt(t, u) IN
           /\ a \in Towers /\ a.root = t.root /\ a.signed = t.signed /\ Stack(a.votes)
           /\ t.votes # <<>> => a = t
           /\ t.votes = <<>> => Rooted(a)
           /\ Carries(t, a)
<1> DEFINE a == Adopt(t, u)
           last == last_voted_slot(u.votes)
<1>1. u.root \in Slots /\ Stack(u.votes) /\ u.votes # <<>> /\ t.root \in Slots BY Zenon DEF Recorded, Towers
<1>2. /\ u.root \in Nat /\ t.root \in Nat /\ Recent(t) \in Nat /\ last \in Nat
      /\ last_voted_slot(t.votes) \in Int
  BY <1>1, RecentFacts, LastVote, SlotFacts, Zenon
<1>3. u.root <= t.root /\ last <= Recent(t) BY Zenon DEF Supersedes
<1>4. CASE t.votes # <<>>
  <2>1. ~(last > last_voted_slot(t.votes))
    <3>1. Recent(t) = last_voted_slot(t.votes) BY <1>4, Zenon DEF Recent
    <3> HIDE DEF last
    <3> QED BY <1>2, <1>3, <3>1
  <2>2. a = t BY <2>1, Zenon DEF Adopt
  <2>3. Carries(t, t)
    <3>1. t.root <= t.root /\ Recent(t) <= Recent(t) BY <1>2
    <3> QED BY <3>1, Zenon DEF Carries
  <2> QED BY <1>4, <2>2, <2>3, Zenon
<1>5. CASE t.votes = <<>>
  <2>1. last_voted_slot(t.votes) = -1 /\ Recent(t) = t.root BY <1>5, Zenon DEF last_voted_slot, Recent
  <2>2. last > last_voted_slot(t.votes) /\ last <= t.root
    <3> HIDE DEF last
    <3> QED BY <1>2, <1>3, <2>1
  <2> DEFINE votes == IF t.root > u.root THEN Newer(u.votes, t.root) ELSE u.votes
             root == IF t.root > u.root THEN t.root ELSE u.root
  <2>3. a = [t EXCEPT !.root = root, !.votes = votes, !.last_vote = [root |-> root, votes |-> votes]]
    BY <2>2, Zenon DEF Adopt
  <2>4. root = t.root BY <1>2, <1>3
  <2>5. ASSUME NEW i \in 1 .. Len(u.votes)
        PROVE  u.votes[i].slot \in Nat /\ u.root <= u.votes[i].slot /\ u.votes[i].slot <= t.root
    <3>1. OnFork(u.root, u.votes[i].slot) BY Zenon DEF Recorded, Rooted
    <3>2. u.votes[i].slot \in Slots /\ u.votes[i].slot \in Nat BY <1>1, StackVote, Zenon
    <3>3. u.root <= u.votes[i].slot BY <3>1, <3>2, ForkOrder, Zenon
    <3>4. u.votes[i].slot <= last BY <1>1, LastVote, Zenon
    <3> HIDE DEF last
    <3> QED BY <1>2, <2>2, <3>2, <3>3, <3>4
  <2>6. Stack(votes) /\ \A i \in 1 .. Len(votes) : votes[i].slot = t.root
    <3>1. CASE t.root > u.root
      <4>1. PICK k \in 0 .. Len(u.votes) :
                /\ Len(Newer(u.votes, t.root)) = Len(u.votes) - k
                /\ \A i \in 1 .. Len(u.votes) : u.votes[i].slot <= t.root <=> i <= k
        BY <1>1, <1>2, NewerFacts, Zenon
      <4>2. \A i \in 1 .. Len(u.votes) : i <= k BY <2>5, <4>1, Zenon
      <4>3. Len(u.votes) \in 1 .. Len(u.votes) /\ Len(u.votes) \in Nat BY <1>1, StackLen, Zenon
      <4>4. Len(u.votes) <= k BY <4>2, <4>3, Zenon
      <4>5. Len(u.votes) - k = 0 BY <4>3, <4>4
      <4>6. Len(votes) = 0 BY <3>1, <4>1, <4>5, Zenon
      <4>7. Stack(votes) BY <1>1, <1>2, <3>1, NewerFacts, Zenon
      <4> HIDE DEF votes
      <4> QED BY <4>6, <4>7
    <3>2. CASE ~(t.root > u.root)
      <4>1. votes = u.votes BY <3>2, Zenon
      <4>2. \A i \in 1 .. Len(u.votes) : u.votes[i].slot = t.root BY <1>2, <2>5, <3>2
      <4> HIDE DEF votes
      <4> QED BY <1>1, <4>1, <4>2, Zenon
    <3> QED BY <3>1, <3>2, Zenon
  <2> HIDE DEF votes, root, a
  <2>7. votes \in Seq(Lockouts) BY <2>6, Zenon DEF Stack
  <2>8. /\ a \in Towers /\ a.root = t.root /\ a.signed = t.signed /\ a.votes = votes
    BY <1>1, <2>3, <2>4, <2>7, Zenon DEF Towers, VoteStates
  <2>9. Rooted(a) BY <2>6, <2>8, Zenon DEF Rooted, OnFork
  <2>10. Recent(a) = t.root
    <3>1. CASE votes = <<>> BY <2>8, <3>1, Zenon DEF Recent
    <3>2. CASE votes # <<>>
      <4>1. Len(votes) \in 1 .. Len(votes) BY <2>6, <3>2, StackLen, Zenon
      <4> QED BY <2>6, <2>8, <3>2, <4>1, Zenon DEF Recent, last_voted_slot
    <3> QED BY <3>1, <3>2, Zenon
  <2>11. ASSUME NEW v \in Lockouts, Covers(t, v) PROVE Covers(a, v)
    <3>1. CASE OnFork(v.slot, t.root) BY <2>8, <3>1, Zenon DEF Covers
    <3>2. CASE last_locked_out_slot(v) < Recent(t)
      BY <2>1, <2>6, <2>8, <2>10, <3>2, Zenon DEF Covers
    <3>3. \A i \in 1 .. Len(t.votes) : FALSE BY <1>5
    <3> QED BY <2>11, <3>1, <3>2, <3>3, Zenon DEF Covers
  <2>12. t.root <= a.root /\ Recent(t) <= Recent(a) BY <1>2, <2>1, <2>8, <2>10
  <2> QED BY <1>5, <2>6, <2>8, <2>9, <2>11, <2>12, Zenon DEF a, Carries
<1> QED BY <1>4, <1>5, Zenon

-----------------------------------------------------------------------------
(* The slot history *)

\* A slot history holds the replayed fork, and the tower's own root if that is newer.
LEMMA HistoryFacts ==
    ASSUME NEW t, t.root \in Slots, NEW r \in Slots
    PROVE  LET h == History(t, r) IN
           /\ h \subseteq 0 .. MaxSlot /\ r \in h
           /\ Latest(h) \in h /\ \A s \in h : s <= Latest(h)
           /\ \A s : OnFork(s, r) => s \in h
           /\ t.root <= r => \A s \in h : OnFork(s, r)
           /\ t.root > r => t.root \in h /\ \A s \in h : s <= t.root
<1> DEFINE h == History(t, r)
<1>0. r \in Nat /\ t.root \in Nat /\ MaxSlot \in Nat BY SlotFacts, Zenon
<1>1. \A s : OnFork(s, r) => s \in h BY Zenon DEF History, OnFork
<1>2. \A s \in h : OnFork(s, r) \/ (t.root > r /\ s = t.root) BY Zenon DEF History, OnFork
<1>3. h \subseteq 0 .. MaxSlot
  <2> SUFFICES ASSUME NEW s \in h PROVE s \in Slots BY SlotFacts, Zenon
  <2> QED BY <1>2, ForkOrder, Zenon
<1>4. r \in h BY Zenon DEF History
<1>5. Latest(h) \in h /\ \A s \in h : s <= Latest(h)
  <2>1. h # {} BY <1>4, Zenon
  <2> HIDE DEF h
  <2> QED BY <1>0, <1>3, <2>1, LatestFacts, Zenon
<1>6. t.root <= r => \A s \in h : OnFork(s, r)
  <2>1. t.root <= r => ~(t.root > r) BY <1>0
  <2> QED BY <1>2, <2>1, Zenon
<1>7. ASSUME t.root > r PROVE t.root \in h /\ \A s \in h : s <= t.root
  <2>1. t.root \in h BY <1>7, Zenon DEF History
  <2>2. ASSUME NEW s \in h PROVE s <= t.root
    <3>1. CASE OnFork(s, r)
      <4>1. s \in Nat /\ s <= r BY <3>1, ForkOrder, Zenon
      <4> QED BY <1>0, <1>7, <4>1
    <3>2. CASE s = t.root BY <1>0, <3>2
    <3> QED BY <1>2, <3>1, <3>2, Zenon
  <2> QED BY <2>1, <2>2, Zenon
<1> QED BY <1>1, <1>3, <1>4, <1>5, <1>6, <1>7, Zenon

\* What a history that reaches slot s says of it.
LEMMA CheckFacts ==
    ASSUME NEW h, NEW s \in Nat, Latest(h) \in Nat
    PROVE  /\ Check(h, s) = "Found" => s \in h
           /\ Check(h, s) = "NotFound" => s \notin h
           /\ s \in h /\ s <= Latest(h) /\ Check(h, s) # "TooOld" => Check(h, s) = "Found"
           /\ s \in h /\ s = Latest(h) => Check(h, s) = "Found"
BY TowerAssumption DEF Check

\* The slots of a recorded vote state are on one fork.
LEMMA RecordedOrder ==
    ASSUME NEW t, Recorded(t), NEW s \in VotedSlots(t.votes) \cup {t.root},
           NEW x \in VotedSlots(t.votes) \cup {t.root}
    PROVE  s \in Slots /\ s \in Nat /\ t.root <= s /\ OnFork(t.root, s) /\ (s <= x => OnFork(s, x))
<1> DEFINE last == last_voted_slot(t.votes)
<1>1. t.root \in Slots /\ Stack(t.votes) /\ t.votes # <<>> BY Zenon DEF Recorded
<1>2. last \in Slots /\ OnFork(t.root, last)
  <2>1. Len(t.votes) \in 1 .. Len(t.votes) BY <1>1, StackLen, Zenon
  <2> QED BY <1>1, <2>1, LastVote, Zenon DEF Recorded, Rooted
<1>3. ASSUME NEW y \in VotedSlots(t.votes) \cup {t.root}
      PROVE  OnFork(t.root, y) /\ OnFork(y, last)
  <2>1. CASE y = t.root BY <1>2, <2>1, Zenon DEF OnFork
  <2>2. CASE y \in VotedSlots(t.votes)
    <3>1. PICK i \in 1 .. Len(t.votes) : y = t.votes[i].slot
      BY <1>1, <2>2, StackLen, Zenon DEF VotedSlots
    <3> QED BY <1>1, <3>1, LastVote, Zenon DEF Recorded, Rooted
  <2> QED BY <2>1, <2>2, Zenon
<1>4. OnFork(s, last) /\ OnFork(x, last) /\ OnFork(t.root, s) BY <1>3, Zenon
<1>5. s \in Slots /\ s \in Nat BY <1>2, <1>4, ForkOrder, Zenon
<1>6. t.root <= s BY <1>4, <1>5, ForkOrder, Zenon
<1>7. s <= x => OnFork(s, x) BY <1>2, <1>4, ForkJoin, Zenon
<1> QED BY <1>4, <1>5, <1>6, <1>7, Zenon

\* The anchor of a tower that can be restored at r is on the fork of the root the
\* tower gets, and so is the root it had.
LEMMA AnchorFacts ==
    ASSUME NEW t, Recorded(t), NEW r \in Slots, Restores(t, r)
    PROVE  LET c == Latest(Anchors(t, History(t, r)))
               root == IF t.root <= r THEN r ELSE t.root
           IN  /\ c \in VotedSlots(t.votes) \cup {t.root}
               /\ root \in Slots /\ OnFork(c, root) /\ OnFork(t.root, root)
<1> DEFINE h == History(t, r)
           A == Anchors(t, h)
           c == Latest(A)
           root == IF t.root <= r THEN r ELSE t.root
<1>0. t.root \in Slots /\ t.root \in Nat /\ r \in Nat /\ MaxSlot \in Nat BY SlotFacts, Zenon DEF Recorded
<1>1. /\ h \subseteq 0 .. MaxSlot
      /\ Latest(h) \in h /\ \A s \in h : s <= Latest(h)
      /\ t.root <= r => \A s \in h : OnFork(s, r)
      /\ t.root > r => t.root \in h /\ \A s \in h : s <= t.root
  BY <1>0, HistoryFacts, Zenon
<1> HIDE DEF h
<1>2. Latest(h) \in Nat
  <2>1. Latest(h) \in 0 .. MaxSlot BY <1>1, Zenon
  <2> QED BY <2>1
<1>3. A # {} BY Zenon DEF Restores, Consistent, h
<1>4. A \subseteq 0 .. MaxSlot
  <2> SUFFICES ASSUME NEW s \in A PROVE s \in Slots BY SlotFacts, Zenon
  <2> QED BY RecordedOrder, Zenon DEF Anchors
<1>5. c \in A /\ \A s \in A : s <= c
  <2> HIDE DEF A
  <2> QED BY <1>0, <1>3, <1>4, LatestFacts, Zenon
<1> HIDE DEF c
<1>6. c \in VotedSlots(t.votes) \cup {t.root} /\ Check(h, c) = "Found" BY <1>5, Zenon DEF Anchors
<1>7. c \in Slots /\ c \in Nat /\ OnFork(t.root, c) /\ t.root <= c BY <1>6, RecordedOrder, Zenon
<1>8. c \in h BY <1>2, <1>6, <1>7, CheckFacts, Zenon
<1>9. CASE t.root <= r
  <2>1. root = r /\ OnFork(c, r) BY <1>1, <1>8, <1>9, Zenon
  <2>2. OnFork(t.root, r) BY <1>7, <2>1, ForkTrans, Zenon
  <2> QED BY <1>6, <2>1, <2>2, Zenon DEF c, h
<1>10. CASE ~(t.root <= r)
  <2>1. t.root > r BY <1>0, <1>10
  <2>2. c <= t.root BY <1>1, <1>8, <2>1, Zenon
  <2>3. c = t.root /\ root = t.root BY <1>0, <1>7, <1>10, <2>2
  <2>4. OnFork(t.root, t.root) BY Zenon DEF OnFork
  <2> QED BY <1>0, <1>6, <2>3, <2>4, Zenon DEF c, h
<1> QED BY <1>9, <1>10, Zenon

\* A restored tower is rooted where its process is, or carries its own root, and
\* it carries over what the tower of the file covered.
LEMMA RestoreFacts ==
    ASSUME NEW t \in Towers, Recorded(t), NEW r \in Slots, Restores(t, r)
    PROVE  LET a == adjust_lockouts_after_replay(t, r) IN
           /\ a \in Towers /\ a.signed = t.signed /\ Stack(a.votes)
           /\ a.root = r \/ Rooted(a)
           /\ Carries(t, a)
<1> DEFINE c == Latest(Anchors(t, History(t, r)))
           root == IF t.root <= r THEN r ELSE t.root
           a == adjust_lockouts_after_replay(t, r)
           votes == t.votes
           kept == Newer(votes, c)
           n == Len(votes)
<1>0. /\ t.root \in Slots /\ t.root \in Nat /\ Stack(votes) /\ votes # <<>> /\ n \in Nat /\ n \in 1 .. n
      /\ DOMAIN votes = 1 .. n
  BY SlotFacts, StackLen, Zenon DEF Recorded
<1>1. c \in VotedSlots(votes) \cup {t.root} /\ root \in Slots /\ OnFork(c, root) /\ OnFork(t.root, root)
  BY AnchorFacts, Zenon
<1>2. c \in Nat /\ root \in Nat /\ c <= root /\ t.root <= root BY <1>1, ForkOrder, Zenon
<1> HIDE DEF c
<1>3. Stack(kept) BY <1>0, <1>2, NewerFacts, Zenon
<1>4. PICK k \in 0 .. n :
          /\ Len(kept) = n - k
          /\ \A i \in 1 .. n - k : kept[i] = votes[i + k]
          /\ \A i \in 1 .. n : votes[i].slot <= c <=> i <= k
  BY <1>0, <1>2, NewerFacts, Zenon
<1> HIDE DEF kept
<1>5. a \in Towers /\ a.root = root /\ a.votes = kept /\ a.signed = t.signed
  <2> DEFINE last == IF kept = <<>> THEN Unvoted ELSE t.last_vote
             b == [t EXCEPT !.votes = kept, !.last_vote = last]
  <2>1. adjust_lockouts_with_slot_history(t, History(t, r)) = b
    BY Zenon DEF adjust_lockouts_with_slot_history, c, kept
  <2>2. a = IF t.root <= r THEN [b EXCEPT !.root = r] ELSE b
    BY <2>1, Zenon DEF adjust_lockouts_after_replay
  <2>3. kept \in Seq(Lockouts) /\ last \in VoteStates \cup {Unvoted}
    BY <1>3, Zenon DEF Towers, Stack
  <2> HIDE DEF last, a
  <2>4. b \in Towers /\ b.root = t.root /\ b.votes = kept /\ b.signed = t.signed BY <2>3, Zenon DEF Towers
  <2> HIDE DEF b
  <2> QED BY <2>2, <2>4, Zenon DEF Towers
<1>6. ASSUME NEW i \in 1 .. n - k
      PROVE  i + k \in 1 .. n /\ kept[i] = votes[i + k]
  BY <1>0, <1>4
<1>7. a.root = r \/ Rooted(a)
  <2>1. CASE t.root <= r BY <1>5, <2>1, Zenon
  <2>2. CASE ~(t.root <= r)
    <3>1. a.root = t.root BY <1>5, <2>2, Zenon
    <3> QED BY <1>4, <1>5, <1>6, <3>1, Zenon DEF Rooted, Recorded
  <2> QED BY <2>1, <2>2, Zenon
\* What is dropped is rooted.
<1>8. ASSUME NEW i \in 1 .. n, i <= k PROVE OnFork(votes[i].slot, root)
  <2>1. votes[i].slot \in VotedSlots(votes) BY <1>0, Zenon DEF VotedSlots
  <2>2. votes[i].slot <= c BY <1>4, <1>8, Zenon
  <2>3. OnFork(votes[i].slot, c) BY <1>1, <2>1, <2>2, RecordedOrder, Zenon
  <2> QED BY <1>1, <2>3, ForkTrans, Zenon
<1> DEFINE last == last_voted_slot(votes)
<1>9. Recent(t) = last /\ last \in Nat /\ last = votes[n].slot
  BY <1>0, LastVote, SlotFacts, Zenon DEF Recent
<1>10. last <= Recent(a)
  <2>1. CASE kept = <<>>
    <3>1. Len(kept) = 0 BY <2>1, Zenon
    <3>2. n <= k BY <1>0, <1>4, <3>1
    <3>3. last <= c BY <1>0, <1>4, <1>9, <3>2, Zenon
    <3>4. Recent(a) = root BY <1>5, <2>1, Zenon DEF Recent
    <3> HIDE DEF last, root
    <3> QED BY <1>2, <1>9, <3>3, <3>4
  <2>2. CASE kept # <<>>
    <3>1. n - k \in 1 .. n - k BY <1>3, <1>4, <2>2, StackLen, Zenon
    <3>2. (n - k) + k = n BY <1>0
    <3>3. kept[n - k] = votes[n] BY <1>6, <3>1, <3>2, Zenon
    <3>4. Recent(a) = last
      BY <1>4, <1>5, <1>9, <2>2, <3>3, Zenon DEF Recent, last_voted_slot
    <3> HIDE DEF last
    <3> QED BY <1>9, <3>4
  <2> QED BY <2>1, <2>2, Zenon
<1> HIDE DEF last, root
<1>11. ASSUME NEW v \in Lockouts, Covers(t, v) PROVE Covers(a, v)
  <2>1. CASE OnFork(v.slot, t.root)
    <3>1. OnFork(v.slot, root) BY <1>1, <2>1, ForkTrans, Zenon
    <3> QED BY <1>5, <3>1, Zenon DEF Covers
  <2>2. CASE \E i \in 1 .. n : votes[i].slot = v.slot /\ votes[i].confirmation_count >= v.confirmation_count
    <3>1. PICK i \in 1 .. n : votes[i].slot = v.slot /\ votes[i].confirmation_count >= v.confirmation_count
      BY <2>2, Zenon
    <3>2. CASE i <= k BY <1>5, <1>8, <3>1, <3>2, Zenon DEF Covers
    <3>3. CASE i > k
      <4>1. i - k \in 1 .. n - k /\ (i - k) + k = i BY <1>0, <3>3
      <4>2. kept[i - k] = votes[i] BY <1>6, <4>1, Zenon
      <4> QED BY <1>4, <1>5, <3>1, <4>1, <4>2, Zenon DEF Covers
    <3> QED BY <1>0, <3>2, <3>3
  <2>3. CASE /\ last_locked_out_slot(v) < Recent(t)
             /\ \A i \in 1 .. n : votes[i].slot > v.slot => last_locked_out_slot(v) < votes[i].slot
    <3>1. a.root \in Slots /\ Stack(a.votes) BY <1>1, <1>3, <1>5, Zenon
    <3>2. Recent(a) \in Nat /\ last_locked_out_slot(v) \in Nat BY <3>1, RecentFacts, LockoutFacts, Zenon
    <3>3. last_locked_out_slot(v) < Recent(a) BY <1>9, <1>10, <2>3, <3>2
    <3>4. \A i \in 1 .. n - k : kept[i].slot > v.slot => last_locked_out_slot(v) < kept[i].slot
      BY <1>6, <2>3, Zenon
    <3> QED BY <1>4, <1>5, <3>3, <3>4, Zenon DEF Covers
  <2> QED BY <1>11, <2>1, <2>2, <2>3, Zenon DEF Covers
<1>12. Carries(t, a) BY <1>2, <1>5, <1>9, <1>10, <1>11, Zenon DEF Carries
<1> QED BY <1>3, <1>5, <1>7, <1>12, Zenon

-----------------------------------------------------------------------------
(* The inductive invariant *)

VoteOps == [vote : VoteStates, saved : SUBSET Towers]

TypeInv ==
    /\ up \in BOOLEAN
    /\ tower \in Towers
    /\ forks \in Slots
    /\ computed \in SUBSET Slots
    /\ queue \in Seq(VoteOps)
    /\ saved \in SUBSET Towers
    /\ sent \in SUBSET VoteStates
    /\ DOMAIN bank \in SUBSET Slots

\* The tower in memory: where it is not the root of BankForks, its root is an
\* ancestor of its votes; it supersedes all votes it sent or is about to send, and
\* once it has signed, the last of them is its own, on the way or saved.
TowerInv ==
    /\ Stack(tower.votes)
    /\ tower.root = forks \/ Rooted(tower)
    /\ \A s \in computed : OnFork(forks, s)
    /\ \A u \in sent : Supersedes(tower, u)
    /\ \A j \in 1 .. Len(queue) : Supersedes(tower, queue[j].vote)
    /\ tower.signed =>
          /\ tower.votes # <<>> /\ Rooted(tower) /\ tower.last_vote = VoteState(tower)
          /\ queue # <<>> => queue[Len(queue)].vote = VoteState(tower)
          /\ queue = <<>> => \E t \in saved : VoteState(t) = VoteState(tower)
    /\ ~tower.signed => queue = <<>>

\* The tower in the file supersedes every vote that was sent.
SavedInv ==
    /\ \A t, x \in saved : t = x
    /\ \A t \in saved : Recorded(t) /\ ~t.signed /\ \A u \in sent : Supersedes(t, u)
    /\ saved = {} => sent = {}

\* An operation in the queue supersedes what was sent and what is before it, and
\* brings its tower to the file if it is not there by then.
Queued(q, j, file, given) ==
    /\ Recorded(q[j].vote)
    /\ \A u \in given : Supersedes(q[j].vote, u)
    /\ \A i \in 1 .. j : Supersedes(q[j].vote, q[i].vote)
    /\ \A t, x \in q[j].saved : t = x
    /\ \A t \in q[j].saved : VoteState(t) = q[j].vote /\ ~t.signed
    /\ q[j].saved = {} /\ j = 1 => \E t \in file : VoteState(t) = q[1].vote
    /\ q[j].saved = {} /\ j # 1 => q[j - 1].vote = q[j].vote

QueueInv == \A j \in 1 .. Len(queue) : Queued(queue, j, saved, sent)

\* Of two votes that were sent, the one for the later slot supersedes the other;
\* banks hold votes that were sent.
SentInv ==
    /\ \A u \in sent : Recorded(u)
    /\ \A u, x \in sent : last_voted_slot(u.votes) < last_voted_slot(x.votes) => Supersedes(x, u)
    /\ \A b \in DOMAIN bank : bank[b] \in sent \cup {Unvoted}

Inv ==
    /\ TypeInv /\ SavedInv /\ QueueInv /\ SentInv
    /\ up => TowerInv
    /\ ~up => queue = <<>> /\ computed = {}

\* A new tower has the root it is made for and no votes.
LEMMA NoVotes ==
    /\ 0 \in Slots /\ Unvoted.votes = <<>> /\ Unvoted.root = -1
    /\ \A r \in Slots : /\ NewTower(r, Unvoted) \in Towers
                        /\ NewTower(r, Unvoted).root = r /\ NewTower(r, Unvoted).votes = <<>>
                        /\ NewTower(r, Unvoted).signed = FALSE
<1>1. Unvoted.votes = <<>> /\ Unvoted.root = -1 BY Zenon DEF Unvoted
<1>2. 0 \in Slots BY SlotFacts
<1>3. ASSUME NEW r \in Slots
      PROVE  NewTower(r, Unvoted) = [root |-> r, votes |-> <<>>, last_vote |-> Unvoted, signed |-> FALSE]
  <2>1. r \in Nat BY SlotFacts, Zenon
  <2>2. Stack(Newer(<<>>, r)) BY <2>1, EmptyStack, NewerFacts, Zenon
  <2>3. \E k \in 0 .. Len(<<>>) : Len(Newer(<<>>, r)) = Len(<<>>) - k
    BY <2>1, EmptyStack, NewerFacts, Zenon
  <2>4. Len(Newer(<<>>, r)) = 0 BY <2>3
  <2>5. Newer(<<>>, r) = <<>> BY <2>2, <2>4, StackLen, Zenon
  <2> QED BY <1>1, <2>5, Zenon DEF NewTower
<1>4. <<>> \in Seq(Lockouts) OBVIOUS
<1>5. ASSUME NEW r \in Slots
      PROVE  /\ NewTower(r, Unvoted) \in Towers
             /\ NewTower(r, Unvoted).root = r /\ NewTower(r, Unvoted).votes = <<>>
             /\ NewTower(r, Unvoted).signed = FALSE
  <2> DEFINE t == [root |-> r, votes |-> <<>>, last_vote |-> Unvoted, signed |-> FALSE]
  <2>1. t \in Towers BY <1>4, Zenon DEF Towers
  <2>2. t.root = r /\ t.votes = <<>> /\ t.signed = FALSE BY Zenon
  <2> HIDE DEF t
  <2>3. NewTower(r, Unvoted) = t BY <1>3, Zenon DEF t
  <2> QED BY <2>1, <2>2, <2>3, Zenon
<1> QED BY <1>1, <1>2, <1>5, Zenon

\* The invariant holds at genesis.
LEMMA InitInv == Init => Inv
<1> SUFFICES ASSUME Init PROVE Inv BY Zenon
<1>1. tower \in Towers /\ tower.root = 0 /\ tower.votes = <<>> /\ tower.signed = FALSE
  BY NoVotes, Zenon DEF Init
<1>2. /\ up = TRUE /\ forks = 0 /\ computed = {} /\ queue = <<>> /\ saved = {} /\ sent = {}
      /\ bank = [s \in {0} |-> Unvoted]
  BY Zenon DEF Init
<1>3. TypeInv BY <1>1, <1>2, NoVotes DEF TypeInv
<1>4. Len(queue) = 0 /\ \A j \in 1 .. Len(queue) : FALSE BY <1>2
<1>5. TowerInv BY <1>1, <1>2, <1>4, EmptyStack, Zenon DEF TowerInv
<1>6. SavedInv /\ QueueInv /\ SentInv BY <1>2, <1>4, Zenon DEF SavedInv, QueueInv, SentInv
<1> QED BY <1>2, <1>3, <1>5, <1>6, Zenon DEF Inv

\* It is preserved when the cluster produces a bank and lands votes in it.
LEMMA ProduceInv ==
    ASSUME Inv, NEW s \in Slots \ {0}, Produce(s)
    PROVE  Inv'
<1>1. UNCHANGED <<up, tower, forks, computed, queue, saved, sent>> BY Zenon DEF Produce
<1>2. PICK vs \in {bank[Parent[s]]} \cup
                  {v \in sent : process_new_vote_state(bank[Parent[s]], v, Ancestors[s])} :
          bank' = [b \in Produced \cup {s} |-> IF b = s THEN vs ELSE bank[b]]
  BY Zenon DEF Produce
<1>3. \A b \in Produced : bank[b] \in sent \cup {Unvoted} BY Zenon DEF Inv, SentInv, Produced
<1>4. vs \in sent \cup {Unvoted}
  <2>1. Parent[s] \in Produced BY Zenon DEF Produce
  <2> QED BY <1>3, <2>1, Zenon
<1>5. DOMAIN bank' = Produced \cup {s} BY <1>2, Zenon
<1>6. \A b \in DOMAIN bank' : bank'[b] \in sent \cup {Unvoted} BY <1>2, <1>3, <1>4, <1>5, Zenon
<1>7. DOMAIN bank' \in SUBSET Slots BY <1>5, Zenon DEF Inv, TypeInv, Produced
<1>8. TypeInv' BY <1>1, <1>7, Zenon DEF Inv, TypeInv
<1>9. SentInv' BY <1>1, <1>6, Zenon DEF Inv, SentInv
<1>10. SavedInv' /\ QueueInv'
  <2>1. SavedInv' BY <1>1, Zenon DEF Inv, SavedInv
  <2>2. queue' = queue /\ saved' = saved /\ sent' = sent BY <1>1, Zenon
  <2>3. QueueInv' BY <2>2, Zenon DEF Inv, QueueInv
  <2> QED BY <2>1, <2>3, Zenon
<1>11. (up => TowerInv)' BY <1>1, Zenon DEF Inv, TowerInv
<1> QED BY <1>1, <1>8, <1>9, <1>10, <1>11, Zenon DEF Inv

\* A frozen bank is on the fork of the root.
LEMMA FrozenFork ==
    ASSUME NEW f \in Slots, NEW s \in Slots, s # f => s > f /\ OnFork(f, Parent[s])
    PROVE  OnFork(f, s)
<1>1. CASE s = f BY <1>1, Zenon DEF OnFork
<1>2. CASE s # f
  <2>1. s # 0 BY <1>2, SlotFacts
  <2>2. Ancestors[s] = {Parent[s]} \cup Ancestors[Parent[s]] BY <2>1, AncestorsDef, Zenon
  <2> QED BY <1>2, <2>2, Zenon DEF OnFork
<1> QED BY <1>1, <1>2, Zenon

\* It is preserved when a frozen bank is computed and its vote state perhaps adopted.
LEMMA ComputeInv ==
    ASSUME Inv, NEW s \in Slots, compute_bank_stats(s)
    PROVE  Inv'
<1> DEFINE vs == bank[s]
<1>1. /\ UNCHANGED <<up, forks, queue, saved, sent, bank>> /\ up
      /\ computed' = computed \cup {s} /\ tower' = Adopt(tower, vs)
      /\ s \in Produced /\ (s = forks \/ (s > forks /\ Parent[s] \in computed))
  BY Zenon DEF compute_bank_stats
<1>2. /\ TowerInv /\ tower \in Towers /\ forks \in Slots /\ tower.root \in Slots /\ Stack(tower.votes)
  BY <1>1, Zenon DEF Inv, TypeInv, TowerInv, Towers
<1>3. vs \in sent \cup {Unvoted} BY <1>1, Zenon DEF Inv, SentInv, Produced
<1>4. OnFork(forks, s) BY <1>1, <1>2, FrozenFork, Zenon DEF TowerInv
<1>5. tower' = tower \/ vs \in sent
  <2>1. CASE vs = Unvoted
    <3>1. last_voted_slot(vs.votes) = -1 BY <2>1, NoVotes, Zenon DEF last_voted_slot
    <3>2. last_voted_slot(tower.votes) \in Nat \cup {-1}
      BY <1>2, LastVote, SlotFacts, Zenon DEF last_voted_slot
    <3>3. ~(last_voted_slot(vs.votes) > last_voted_slot(tower.votes))
      <4> HIDE DEF vs
      <4> QED BY <3>1, <3>2
    <3> QED BY <1>1, <3>3, Zenon DEF Adopt
  <2> QED BY <1>3, <2>1, Zenon
<1>6. TypeInv' /\ SavedInv' /\ QueueInv' /\ SentInv'
  <2>1. tower' \in Towers
    <3>1. ASSUME vs \in sent PROVE tower' \in Towers
      <4>1. vs \in VoteStates /\ Recorded(vs) /\ Supersedes(tower, vs)
        BY <1>2, <3>1, Zenon DEF Inv, TypeInv, SentInv, TowerInv
      <4> QED BY <1>1, <1>2, <4>1, AdoptFacts, Zenon
    <3> QED BY <1>2, <1>5, <3>1, Zenon
  <2>2. TypeInv' BY <1>1, <2>1, Zenon DEF Inv, TypeInv
  <2>3. SavedInv' /\ QueueInv' BY <1>1, Zenon DEF Inv, SavedInv, QueueInv
  <2>4. SentInv' BY <1>1, Zenon DEF Inv, SentInv
  <2> QED BY <2>2, <2>3, <2>4, Zenon
<1>7. \A b \in computed' : OnFork(forks, b) BY <1>1, <1>2, <1>4, Zenon DEF TowerInv
<1>8. TowerInv'
  <2>1. CASE tower' = tower
    <3>1. forks' = forks /\ queue' = queue /\ saved' = saved /\ sent' = sent BY <1>1, Zenon
    <3> QED BY <1>2, <1>7, <2>1, <3>1, Zenon DEF TowerInv
  <2>2. CASE vs \in sent
    <3>1. vs \in VoteStates /\ Recorded(vs) /\ Supersedes(tower, vs)
      BY <1>2, <2>2, Zenon DEF Inv, TypeInv, SentInv, TowerInv
    <3>2. /\ tower'.root = tower.root /\ tower'.signed = tower.signed /\ Stack(tower'.votes)
          /\ tower.votes # <<>> => tower' = tower
          /\ tower.votes = <<>> => Rooted(tower')
          /\ Carries(tower, tower')
      BY <1>1, <1>2, <3>1, AdoptFacts, Zenon
    <3>3. CASE tower.votes # <<>> BY <2>1, <3>2, <3>3, Zenon
    <3>4. CASE tower.votes = <<>>
      <4>1. ~tower.signed /\ queue = <<>> BY <1>2, <3>4, Zenon DEF TowerInv
      <4>2. \A j \in 1 .. Len(queue) : FALSE BY <4>1
      <4>3. \A u \in sent : Supersedes(tower', u)
        BY <1>2, <3>2, CarriesOver, Zenon DEF Inv, SentInv, TowerInv
      <4> QED BY <1>1, <1>7, <3>2, <3>4, <4>1, <4>2, <4>3, Zenon DEF TowerInv
    <3> QED BY <3>3, <3>4, Zenon
  <2> QED BY <1>5, <2>1, <2>2, Zenon
<1> QED BY <1>1, <1>6, <1>8, Zenon DEF Inv

\* An operation at the end of the queue.
LEMMA QueueAppend ==
    ASSUME NEW q \in Seq(VoteOps), NEW file, NEW given, \A j \in 1 .. Len(q) : Queued(q, j, file, given),
           NEW op \in VoteOps, Recorded(op.vote), \A u \in given : Supersedes(op.vote, u),
           \A i \in 1 .. Len(q) : Supersedes(op.vote, q[i].vote),
           \A t, x \in op.saved : t = x,
           \A t \in op.saved : VoteState(t) = op.vote /\ ~t.signed,
           op.saved = {} /\ q = <<>> => \E t \in file : VoteState(t) = op.vote,
           op.saved = {} /\ q # <<>> => q[Len(q)].vote = op.vote
    PROVE  /\ Append(q, op) \in Seq(VoteOps) /\ Len(Append(q, op)) = Len(q) + 1
           /\ \A j \in 1 .. Len(q) : Append(q, op)[j] = q[j]
           /\ Append(q, op)[Len(q) + 1] = op
           /\ \A j \in 1 .. Len(q) + 1 : Queued(Append(q, op), j, file, given)
<1> DEFINE p == Append(q, op)
           n == Len(q)
<1>1. /\ p \in Seq(VoteOps) /\ Len(p) = n + 1 /\ n \in Nat /\ (q = <<>> <=> n = 0)
      /\ \A j \in 1 .. n : p[j] = q[j]
      /\ p[n + 1] = op
  OBVIOUS
<1> HIDE DEF p, n
<1>2. ASSUME NEW j \in 1 .. n PROVE Queued(p, j, file, given)
  <2>1. Queued(q, j, file, given) BY Zenon DEF n
  <2>2. /\ \A i \in 1 .. j : i \in 1 .. n
        /\ 1 \in 1 .. n /\ j \in Nat /\ (j # 1 => j - 1 \in 1 .. n)
    BY <1>1
  <2>3. /\ p[j] = q[j] /\ p[1] = q[1] /\ (j # 1 => p[j - 1] = q[j - 1]) /\ \A i \in 1 .. j : p[i] = q[i]
    BY <1>1, <2>2, Zenon
  <2> QED BY <2>1, <2>3, Zenon DEF Queued
<1>3. Queued(p, n + 1, file, given)
  <2>1. p[n + 1] = op BY <1>1, Zenon
  <2>2. ASSUME NEW i \in 1 .. n + 1 PROVE Supersedes(op.vote, p[i].vote)
    <3>1. CASE i = n + 1 BY <2>1, <3>1, SupersedesItself, Zenon
    <3>2. CASE i \in 1 .. n BY <1>1, <3>2, Zenon DEF n
    <3> QED BY <1>1, <3>1, <3>2
  <2>3. op.saved = {} /\ n + 1 = 1 => \E t \in file : VoteState(t) = p[1].vote
    <3>1. n + 1 = 1 => q = <<>> /\ p[1] = op BY <1>1
    <3> QED BY <3>1, Zenon
  <2>4. op.saved = {} /\ n + 1 # 1 => p[(n + 1) - 1].vote = op.vote
    <3>1. n + 1 # 1 => q # <<>> /\ n \in 1 .. n /\ (n + 1) - 1 = n BY <1>1
    <3> QED BY <1>1, <3>1, Zenon DEF n
  <2> QED BY <2>1, <2>2, <2>3, <2>4, Zenon DEF Queued
<1>4. ASSUME NEW j \in 1 .. n + 1 PROVE Queued(p, j, file, given)
  <2>1. j \in 1 .. n \/ j = n + 1 BY <1>1
  <2> QED BY <1>2, <1>3, <2>1, Zenon
<1> QED BY <1>1, <1>4, Zenon DEF p, n

\* The tower after its vote for s.
LEMMA RecordFacts ==
    ASSUME NEW t \in Towers, Stack(t.votes), NEW f \in Slots, t.root = f \/ Rooted(t),
           NEW s \in Slots, OnFork(f, s), may_vote(t, s, {a \in Ancestors[s] : a >= f})
    PROVE  LET c == record_bank_vote(t, s) IN
           /\ c \in Towers /\ Recorded(c) /\ c.signed = t.signed
           /\ c.last_vote = VoteState(c) /\ c.last_vote \in VoteStates
           /\ Carries(t, c)
<1> DEFINE vs == process_next_vote_slot(VoteState(t), s)
           c == record_bank_vote(t, s)
<1>1. t.root \in Slots BY Zenon DEF Towers
<1>2. Recorded(vs) /\ vs = VoteState(vs) /\ Carries(t, vs) BY <1>1, VoteStep, Zenon
<1>3. c = [t EXCEPT !.root = vs.root, !.votes = vs.votes, !.last_vote = vs]
  BY Zenon DEF record_bank_vote
<1> HIDE DEF vs, c
<1>4. vs.root \in Slots /\ vs.votes \in Seq(Lockouts) BY <1>2, Zenon DEF Recorded, Stack
<1>5. vs \in VoteStates BY <1>2, <1>4, Zenon DEF VoteState, VoteStates
<1>6. /\ c \in Towers /\ c.root = vs.root /\ c.votes = vs.votes /\ c.last_vote = vs /\ c.signed = t.signed
  BY <1>3, <1>4, <1>5, Zenon DEF Towers
<1>7. VoteState(c) = vs BY <1>2, <1>6, Zenon DEF VoteState
<1>8. Recorded(c) /\ Carries(t, c) BY <1>2, <1>6, SameVoteState, Zenon
<1> QED BY <1>5, <1>6, <1>7, <1>8, Zenon DEF c

\* It is preserved when a vote is recorded and queued and the root is set.
LEMMA VoteInv ==
    ASSUME ~KeysChange, Inv, NEW s \in Slots \ {0}, handle_votable_bank(s)
    PROVE  Inv'
<1> DEFINE t == record_bank_vote(tower, s)
           a == [t EXCEPT !.signed = TRUE]
           z == [t EXCEPT !.signed = FALSE]
           root == IF t.root # tower.root THEN t.root ELSE forks
           op == [vote |-> t.last_vote, saved |-> {z}]
<1>1. /\ up /\ s \in computed /\ may_vote(tower, s, {x \in Ancestors[s] : x >= forks})
      /\ forks' = root /\ computed' = {x \in computed : OnFork(root, x)}
      /\ \/ tower' = a /\ queue' = Append(queue, op)
         \/ ~tower.signed /\ tower' = t /\ queue' = queue
      /\ up' = up /\ saved' = saved /\ sent' = sent /\ bank' = bank
  BY Zenon DEF handle_votable_bank
<1>2. /\ TowerInv /\ tower \in Towers /\ forks \in Slots /\ Stack(tower.votes) /\ queue \in Seq(VoteOps)
      /\ tower.root = forks \/ Rooted(tower)
      /\ OnFork(forks, s) /\ tower.root \in Slots
  BY <1>1, Zenon DEF Inv, TypeInv, TowerInv, Towers
<1> HIDE DEF t
<1>3. /\ t \in Towers /\ Recorded(t) /\ t.signed = tower.signed
      /\ t.last_vote = VoteState(t) /\ t.last_vote \in VoteStates
      /\ Carries(tower, t)
  <2>1. /\ tower \in Towers /\ Stack(tower.votes) /\ forks \in Slots /\ OnFork(forks, s) /\ s \in Slots
        /\ tower.root = forks \/ Rooted(tower)
        /\ may_vote(tower, s, {x \in Ancestors[s] : x >= forks})
    BY <1>1, <1>2, Zenon
  <2> QED BY <2>1, RecordFacts, Zenon DEF t
<1>4. /\ a \in Towers /\ a.signed = TRUE /\ a.root = t.root /\ a.votes = t.votes /\ a.last_vote = t.last_vote
      /\ z \in Towers /\ z.signed = FALSE /\ z.root = t.root /\ z.votes = t.votes /\ z.last_vote = t.last_vote
  BY <1>3, Zenon DEF Towers
<1>5. tower.signed = FALSE => z = t BY <1>3, Zenon DEF Towers
<1> HIDE DEF a, z
<1>6. /\ Recorded(a) /\ Carries(tower, a) /\ a.last_vote = VoteState(a)
       /\ Recorded(z) /\ Carries(tower, z) /\ z.last_vote = VoteState(z)
  BY <1>3, <1>4, SameVoteState, Zenon DEF VoteState
<1>7. Recorded(a.last_vote) /\ a.last_vote.root = a.root /\ a.last_vote.votes = a.votes
  <2>1. VoteState(a).root = a.root /\ VoteState(a).votes = a.votes BY Zenon DEF VoteState
  <2> QED BY <1>6, <2>1, SameVoteState, Zenon
<1>8. root \in Slots BY <1>2, <1>3, <1>4, <1>6, <1>7, Zenon DEF Recorded
<1>9. \A u : Recorded(u) /\ Supersedes(tower, u) => Supersedes(a, u) /\ Supersedes(z, u)
  <2> TAKE u
  <2> HAVE Recorded(u) /\ Supersedes(tower, u)
  <2>1. a.root \in Slots /\ Stack(a.votes) /\ z.root \in Slots /\ Stack(z.votes)
    BY <1>3, <1>4, <1>6, <1>7, <1>5, Zenon DEF Recorded
  <2> QED BY <1>2, <1>3, <1>4, <1>6, <1>7, <1>5, <2>1, CarriesOver, Zenon
<1>10. \A u \in sent : Supersedes(a, u) /\ Supersedes(z, u)
  BY <1>2, <1>9, Zenon DEF TowerInv, Inv, SentInv
<1>11. \A j \in 1 .. Len(queue) : Supersedes(a, queue[j].vote)
  <2> TAKE j \in 1 .. Len(queue)
  <2>1. Recorded(queue[j].vote) BY Zenon DEF Inv, QueueInv, Queued
  <2> QED BY <1>2, <1>9, <2>1, Zenon DEF TowerInv
<1>12. computed' \in SUBSET Slots /\ (\A x \in computed' : OnFork(root, x))
  BY <1>1, Zenon DEF Inv, TypeInv
<1> HIDE DEF root
<1>13. SavedInv' /\ SentInv'
  <2>1. SavedInv' BY <1>1, Zenon DEF Inv, SavedInv
  <2>2. SentInv' BY <1>1, Zenon DEF Inv, SentInv
  <2> QED BY <2>1, <2>2, Zenon
\* The vote is signed and pushed.
<1>14. CASE tower' = a /\ queue' = Append(queue, op)
  <2>1. op \in VoteOps /\ op.vote = a.last_vote /\ op.saved = {z} BY <1>3, <1>4, <1>6, <1>7, Zenon DEF VoteOps
  <2> HIDE DEF op
  <2>2. a.last_vote.root = a.root /\ a.last_vote.votes = a.votes
    BY <1>7, Zenon
  <2>3. \A u : Supersedes(op.vote, u) <=> Supersedes(a, u) BY <2>1, <2>2, SameVoteState, Zenon
  <2>4. /\ queue' \in Seq(VoteOps) /\ Len(queue') = Len(queue) + 1
        /\ \A j \in 1 .. Len(queue) : queue'[j] = queue[j]
        /\ queue'[Len(queue) + 1] = op
        /\ \A j \in 1 .. Len(queue) + 1 : Queued(queue', j, saved, sent)
    <3>1. \A j \in 1 .. Len(queue) : Queued(queue, j, saved, sent) BY Zenon DEF Inv, QueueInv
    <3>2. Recorded(op.vote) /\ (\A u \in sent : Supersedes(op.vote, u))
          /\ \A i \in 1 .. Len(queue) : Supersedes(op.vote, queue[i].vote)
      BY <1>3, <1>4, <1>6, <1>7, <1>10, <1>11, <2>1, <2>3, Zenon
    <3>3. (\A x, y \in op.saved : x = y) /\ (\A x \in op.saved : VoteState(x) = op.vote /\ ~x.signed)
          /\ op.saved # {}
      BY <1>3, <1>4, <1>6, <1>7, <1>5, <2>1, Zenon
    <3>4. /\ op.saved = {} /\ queue = <<>> => \E x \in saved : VoteState(x) = op.vote
          /\ op.saved = {} /\ queue # <<>> => queue[Len(queue)].vote = op.vote
      BY <3>3, Zenon
    <3>5. /\ Append(queue, op) \in Seq(VoteOps) /\ Len(Append(queue, op)) = Len(queue) + 1
          /\ \A j \in 1 .. Len(queue) : Append(queue, op)[j] = queue[j]
          /\ Append(queue, op)[Len(queue) + 1] = op
          /\ \A j \in 1 .. Len(queue) + 1 : Queued(Append(queue, op), j, saved, sent)
      BY <1>2, <2>1, <3>1, <3>2, <3>3, <3>4, QueueAppend, Zenon
    <3> QED BY <1>14, <3>5, Zenon
  <2>5. QueueInv'
    <3>1. \A j \in 1 .. Len(queue') : Queued(queue', j, saved, sent) BY <2>4, Zenon
    <3> QED BY <1>1, <3>1, Zenon DEF QueueInv
  <2>6. \A j \in 1 .. Len(queue') : Supersedes(a, queue'[j].vote)
    <3> SUFFICES ASSUME NEW j \in 1 .. Len(queue) + 1 PROVE Supersedes(a, queue'[j].vote) BY <2>4, Zenon
    <3>1. CASE j \in 1 .. Len(queue) BY <1>11, <2>4, <3>1, Zenon
    <3>2. CASE j = Len(queue) + 1
      <4>1. Supersedes(a, a) BY <1>3, <1>4, <1>6, <1>7, SupersedesItself, Zenon
      <4>2. Supersedes(a, a.last_vote) BY <2>2, <4>1, SameVoteState, Zenon
      <4> QED BY <2>1, <2>4, <3>2, <4>2, Zenon
    <3>3. j \in 1 .. Len(queue) \/ j = Len(queue) + 1 BY <1>2
    <3> QED BY <3>1, <3>2, <3>3, Zenon
  <2>7. queue' # <<>> /\ queue'[Len(queue')].vote = VoteState(a)
    <3>1. Len(queue) \in Nat /\ Len(queue') # 0 BY <1>2, <2>4
    <3>2. queue' # <<>> BY <3>1
    <3> QED BY <1>3, <1>4, <1>6, <1>7, <2>1, <2>4, <3>2, Zenon
  <2>8. TowerInv'
    <3>1. /\ Stack(tower'.votes) /\ Rooted(tower') /\ tower'.votes # <<>> /\ tower'.signed
          /\ tower'.last_vote = VoteState(tower')
      BY <1>3, <1>4, <1>6, <1>7, <1>14, Zenon DEF Recorded
    <3>2. /\ \A x \in computed' : OnFork(forks', x)
          /\ \A u \in sent' : Supersedes(tower', u)
          /\ \A j \in 1 .. Len(queue') : Supersedes(tower', queue'[j].vote)
          /\ queue' # <<>> /\ queue'[Len(queue')].vote = VoteState(tower')
      BY <1>1, <1>10, <1>12, <1>14, <2>6, <2>7, Zenon
    <3> QED BY <3>1, <3>2, Zenon DEF TowerInv
  <2>9. TypeInv' BY <1>1, <1>3, <1>4, <1>6, <1>7, <1>8, <1>12, <1>14, <2>4, Zenon DEF Inv, TypeInv
  <2> QED BY <1>1, <1>13, <2>5, <2>8, <2>9, Zenon DEF Inv
\* It cannot be signed yet, and none was before.
<1>15. CASE ~tower.signed /\ tower' = t /\ queue' = queue
  <2>1. tower.signed = FALSE BY <1>2, <1>15, Zenon DEF Towers
  <2>2. tower' = z /\ queue = <<>> BY <1>2, <1>4, <1>5, <1>6, <1>15, <2>1, Zenon DEF TowerInv
  <2>3. \A j \in 1 .. Len(queue) : FALSE BY <2>2
  <2>4. TowerInv'
    <3>1. Stack(tower'.votes) /\ Rooted(tower') /\ ~tower'.signed BY <1>4, <1>5, <1>6, <2>2, Zenon DEF Recorded
    <3>2. /\ \A x \in computed' : OnFork(forks', x)
          /\ \A u \in sent' : Supersedes(tower', u)
          /\ \A j \in 1 .. Len(queue') : FALSE
          /\ queue' = <<>>
      BY <1>1, <1>10, <1>12, <1>15, <2>2, <2>3, Zenon
    <3> QED BY <3>1, <3>2, Zenon DEF TowerInv
  <2>5. TypeInv' BY <1>1, <1>4, <1>5, <1>6, <1>8, <1>12, <1>15, <2>2, Zenon DEF Inv, TypeInv
  <2>6. QueueInv' BY <1>15, <2>3, Zenon DEF QueueInv
  <2> QED BY <1>1, <1>13, <2>4, <2>5, <2>6, Zenon DEF Inv
<1> QED BY <1>1, <1>14, <1>15, Zenon

\* It is preserved when the last vote is queued again.
LEMMA RefreshInv ==
    ASSUME Inv, refresh_last_vote
    PROVE  Inv'
<1> DEFINE op == [vote |-> tower.last_vote, saved |-> {}]
<1>1. /\ up /\ tower.signed /\ queue' = Append(queue, op)
      /\ up' = up /\ tower' = tower /\ forks' = forks /\ computed' = computed
      /\ saved' = saved /\ sent' = sent /\ bank' = bank
  BY Zenon DEF refresh_last_vote
<1>2. /\ TowerInv /\ tower \in Towers /\ tower.root \in Slots /\ Stack(tower.votes)
      /\ tower.votes # <<>> /\ Rooted(tower) /\ tower.last_vote = VoteState(tower)
      /\ queue # <<>> => queue[Len(queue)].vote = VoteState(tower)
      /\ queue = <<>> => \E t \in saved : VoteState(t) = VoteState(tower)
      /\ queue \in Seq(VoteOps)
  BY <1>1, Zenon DEF Inv, TypeInv, TowerInv, Towers
<1>3. Recorded(tower) BY <1>2, Zenon DEF Recorded
<1>4. tower.last_vote.root = tower.root /\ tower.last_vote.votes = tower.votes
  <2>1. VoteState(tower).root = tower.root /\ VoteState(tower).votes = tower.votes BY Zenon DEF VoteState
  <2> QED BY <1>2, <2>1, Zenon
<1>5. tower.last_vote \in VoteStates
  <2>1. tower.votes \in Seq(Lockouts) BY <1>2, Zenon DEF Towers
  <2>2. VoteState(tower) \in VoteStates BY <1>2, <2>1, Zenon DEF VoteState, VoteStates
  <2> QED BY <1>2, <2>2, Zenon
<1>6. op \in VoteOps /\ op.vote = tower.last_vote /\ op.saved = {}
  <2>1. op \in VoteOps BY <1>5, Zenon DEF VoteOps
  <2> QED BY <2>1, Zenon
<1> HIDE DEF op
<1>7. Recorded(op.vote) /\ Supersedes(op.vote, op.vote) /\ Supersedes(tower, op.vote)
      /\ \A u : Supersedes(op.vote, u) <=> Supersedes(tower, u)
  BY <1>3, <1>4, <1>6, SameVoteState, SupersedesItself, Zenon
<1>8. /\ queue' \in Seq(VoteOps) /\ Len(queue') = Len(queue) + 1
      /\ \A j \in 1 .. Len(queue) : queue'[j] = queue[j]
      /\ queue'[Len(queue) + 1] = op
      /\ \A j \in 1 .. Len(queue) + 1 : Queued(queue', j, saved, sent)
  <2>1. \A j \in 1 .. Len(queue) : Queued(queue, j, saved, sent) BY Zenon DEF Inv, QueueInv
  <2>2. /\ \A u \in sent : Supersedes(op.vote, u)
        /\ \A i \in 1 .. Len(queue) : Supersedes(op.vote, queue[i].vote)
    BY <1>2, <1>7, Zenon DEF TowerInv
  <2>3. /\ \A t, x \in op.saved : t = x
        /\ \A t \in op.saved : VoteState(t) = op.vote /\ ~t.signed
        /\ op.saved = {} /\ queue = <<>> => \E t \in saved : VoteState(t) = op.vote
        /\ op.saved = {} /\ queue # <<>> => queue[Len(queue)].vote = op.vote
    BY <1>2, <1>6, Zenon
  <2>4. /\ Append(queue, op) \in Seq(VoteOps) /\ Len(Append(queue, op)) = Len(queue) + 1
        /\ \A j \in 1 .. Len(queue) : Append(queue, op)[j] = queue[j]
        /\ Append(queue, op)[Len(queue) + 1] = op
        /\ \A j \in 1 .. Len(queue) + 1 : Queued(Append(queue, op), j, saved, sent)
    BY <1>2, <1>6, <1>7, <2>1, <2>2, <2>3, QueueAppend, Zenon
  <2> QED BY <1>1, <2>4, Zenon
<1>9. QueueInv'
  <2>1. \A j \in 1 .. Len(queue') : Queued(queue', j, saved, sent) BY <1>8, Zenon
  <2> QED BY <1>1, <2>1, Zenon DEF QueueInv
<1>10. \A j \in 1 .. Len(queue') : Supersedes(tower, queue'[j].vote)
  <2> SUFFICES ASSUME NEW j \in 1 .. Len(queue) + 1 PROVE Supersedes(tower, queue'[j].vote) BY <1>8, Zenon
  <2>1. j \in 1 .. Len(queue) \/ j = Len(queue) + 1 BY <1>2
  <2>2. CASE j \in 1 .. Len(queue) BY <1>2, <1>8, <2>2, Zenon DEF TowerInv
  <2>3. CASE j = Len(queue) + 1 BY <1>7, <1>8, <2>3, Zenon
  <2> QED BY <2>1, <2>2, <2>3, Zenon
<1>11. queue' # <<>> /\ queue'[Len(queue')].vote = VoteState(tower)
  <2>1. Len(queue) \in Nat /\ Len(queue') # 0 BY <1>2, <1>8
  <2>2. queue' # <<>> BY <2>1
  <2> QED BY <1>2, <1>6, <1>8, <2>2, Zenon
<1>12. TowerInv'
  <2>1. /\ \A j \in 1 .. Len(queue') : Supersedes(tower', queue'[j].vote)
        /\ queue' # <<>> /\ queue'[Len(queue')].vote = VoteState(tower') /\ tower'.signed
        /\ \A s \in computed' : OnFork(forks', s)
        /\ \A u \in sent' : Supersedes(tower', u)
    BY <1>1, <1>2, <1>10, <1>11, Zenon DEF TowerInv
  <2>2. Stack(tower'.votes) /\ Rooted(tower') /\ tower'.votes # <<>> /\ tower'.last_vote = VoteState(tower')
    BY <1>1, <1>2, Zenon
  <2> QED BY <2>1, <2>2, Zenon DEF TowerInv
<1>13. TypeInv' BY <1>1, <1>8, Zenon DEF Inv, TypeInv
<1>14. SavedInv' BY <1>1, Zenon DEF Inv, SavedInv
<1>15. SentInv' BY <1>1, Zenon DEF Inv, SentInv
<1> QED BY <1>1, <1>9, <1>12, <1>13, <1>14, <1>15, Zenon DEF Inv

\* It is preserved when the process dies.
LEMMA CrashInv ==
    ASSUME Inv, Crash
    PROVE  Inv'
<1>1. /\ up' = FALSE /\ tower' = NewTower(0, Unvoted) /\ forks' = 0 /\ computed' = {} /\ queue' = <<>>
      /\ saved' = saved /\ sent' = sent /\ bank' = bank
  BY Zenon DEF Crash
<1>2. tower' \in Towers /\ forks' \in Slots BY <1>1, NoVotes, Zenon
<1>3. queue' \in Seq(VoteOps) /\ \A j \in 1 .. Len(queue') : FALSE BY <1>1
<1>4. TypeInv'
  <2>1. up' \in BOOLEAN /\ computed' \in SUBSET Slots BY <1>1, Zenon
  <2> QED BY <1>1, <1>2, <1>3, <2>1, Zenon DEF Inv, TypeInv
<1>5. SavedInv' BY <1>1, Zenon DEF Inv, SavedInv
<1>6. SentInv' BY <1>1, Zenon DEF Inv, SentInv
<1>7. QueueInv' BY <1>3, Zenon DEF QueueInv
<1> QED BY <1>1, <1>4, <1>5, <1>6, <1>7, Zenon DEF Inv

\* It is preserved when a new process restores the tower from the file.
LEMMA RestoreInv ==
    ASSUME Inv, NEW r \in Slots, post_process_restored_tower(r)
    PROVE  Inv'
<1>1. /\ ~up /\ up' = TRUE /\ forks' = r
      /\ \A t \in saved : Restores(t, r)
      /\ \/ \E t \in saved : tower' = adjust_lockouts_after_replay(t, r)
         \/ saved = {} /\ \E b \in Produced : tower' = NewTower(r, bank[b])
      /\ computed' = computed /\ queue' = queue /\ saved' = saved /\ sent' = sent /\ bank' = bank
  BY Zenon DEF post_process_restored_tower
<1>2. computed = {} /\ queue = <<>> BY <1>1, Zenon DEF Inv
<1>3. \A j \in 1 .. Len(queue) : FALSE BY <1>2
<1>4. /\ tower' \in Towers /\ ~tower'.signed /\ Stack(tower'.votes)
      /\ tower'.root = r \/ Rooted(tower')
      /\ \A u \in sent : Supersedes(tower', u)
  <2>1. CASE \E t \in saved : tower' = adjust_lockouts_after_replay(t, r)
    <3>1. PICK t \in saved : tower' = adjust_lockouts_after_replay(t, r) BY <2>1, Zenon
    <3>2. t \in Towers /\ Recorded(t) /\ ~t.signed /\ (\A u \in sent : Supersedes(t, u)) /\ Restores(t, r)
      BY <1>1, Zenon DEF Inv, TypeInv, SavedInv
    <3>3. /\ tower' \in Towers /\ tower'.signed = t.signed /\ Stack(tower'.votes)
          /\ tower'.root = r \/ Rooted(tower')
          /\ Carries(t, tower')
      BY <3>1, <3>2, RestoreFacts, Zenon
    <3>4. tower'.root \in Slots /\ t.root \in Slots /\ Stack(t.votes) BY <3>2, <3>3, Zenon DEF Towers, Recorded
    <3>5. \A u \in sent : Supersedes(tower', u)
      BY <3>2, <3>3, <3>4, CarriesOver, Zenon DEF Inv, SentInv
    <3>6. ~tower'.signed BY <3>2, <3>3, Zenon
    <3> QED BY <3>3, <3>5, <3>6, Zenon
  <2>2. CASE saved = {} /\ \E b \in Produced : tower' = NewTower(r, bank[b])
    <3>1. PICK b \in Produced : tower' = NewTower(r, bank[b]) BY <2>2, Zenon
    <3>2. sent = {} BY <2>2, Zenon DEF Inv, SavedInv
    <3>3. bank[b] = Unvoted BY <3>2, Zenon DEF Inv, SentInv, Produced
    <3>4. tower' \in Towers /\ tower'.root = r /\ tower'.votes = <<>> /\ tower'.signed = FALSE
      BY <3>1, <3>3, NoVotes, Zenon
    <3> QED BY <3>2, <3>4, EmptyStack, Zenon
  <2> QED BY <1>1, <2>1, <2>2, Zenon
<1>5. TypeInv'
  <2>1. up' \in BOOLEAN BY <1>1, Zenon
  <2> QED BY <1>1, <1>4, <2>1, Zenon DEF Inv, TypeInv
<1>6. TowerInv' BY <1>1, <1>2, <1>3, <1>4, Zenon DEF TowerInv
<1>7. SavedInv' BY <1>1, Zenon DEF Inv, SavedInv
<1>8. SentInv' BY <1>1, Zenon DEF Inv, SentInv
<1>9. QueueInv' BY <1>1, <1>3, Zenon DEF QueueInv
<1> QED BY <1>1, <1>5, <1>6, <1>7, <1>8, <1>9, Zenon DEF Inv

\* It is preserved when the voting service saves a tower.
LEMMA StoreInv ==
    ASSUME Inv, StoreTower
    PROVE  Inv'
<1> DEFINE op == [queue[1] EXCEPT !.saved = {}]
           n == Len(queue)
<1>1. /\ up /\ queue # <<>> /\ Head(queue).saved # {} /\ saved' = Head(queue).saved
      /\ queue' = <<[Head(queue) EXCEPT !.saved = {}]>> \o Tail(queue)
      /\ up' = up /\ tower' = tower /\ forks' = forks /\ computed' = computed
      /\ sent' = sent /\ bank' = bank
  BY Zenon DEF StoreTower
<1>2. TowerInv /\ queue \in Seq(VoteOps) BY <1>1, Zenon DEF Inv, TypeInv
<1>3. n \in Nat /\ n \in 1 .. n /\ 1 \in 1 .. n /\ Head(queue) = queue[1] /\ queue[1] \in VoteOps
  BY <1>1, <1>2
<1>4. op \in VoteOps /\ op.vote = queue[1].vote /\ op.saved = {} BY <1>3, Zenon DEF VoteOps
<1>5. queue' = <<op>> \o Tail(queue) BY <1>1, <1>3, Zenon
<1> HIDE DEF op
<1>6. /\ queue' \in Seq(VoteOps) /\ Len(queue') = n /\ queue'[1] = op
      /\ \A j \in 1 .. n : j # 1 => queue'[j] = queue[j]
  <2> DEFINE rest == Tail(queue)
             p == <<op>> \o rest
  <2>1. rest \in Seq(VoteOps) /\ Len(rest) = n - 1 /\ \A j \in 1 .. n - 1 : rest[j] = queue[j + 1]
    BY <1>1, <1>2
  <2> HIDE DEF rest
  <2>2. p \in Seq(VoteOps) /\ Len(p) = 1 + Len(rest) /\ p[1] = op BY <1>4, <2>1
  <2>3. \A j \in 2 .. 1 + Len(rest) : p[j] = rest[j - 1] BY <2>1
  <2>4. queue' = p BY <1>5, Zenon DEF rest
  <2> HIDE DEF p, n
  <2>5. Len(p) = n BY <1>3, <2>1, <2>2
  <2>6. ASSUME NEW j \in 1 .. n, j # 1 PROVE p[j] = queue[j]
    <3>1. j \in 2 .. 1 + Len(rest) /\ j - 1 \in 1 .. n - 1 /\ (j - 1) + 1 = j BY <1>3, <2>1, <2>6
    <3> QED BY <2>1, <2>3, <3>1, Zenon
  <2> QED BY <2>2, <2>4, <2>5, <2>6, Zenon
<1> HIDE DEF n
<1>7. \A j \in 1 .. n : queue'[j].vote = queue[j].vote BY <1>4, <1>6, Zenon
<1>8. \A j \in 1 .. n : Queued(queue, j, saved, sent) BY Zenon DEF Inv, QueueInv, n
<1>9. /\ Recorded(queue[1].vote) /\ (\A u \in sent : Supersedes(queue[1].vote, u))
      /\ \A t, x \in queue[1].saved : t = x
      /\ \A t \in queue[1].saved : VoteState(t) = queue[1].vote /\ ~t.signed
  BY <1>3, <1>8, Zenon DEF Queued
<1>10. saved' = queue[1].saved /\ saved' # {} /\ saved' \in SUBSET Towers
  <2>1. queue[1].saved \in SUBSET Towers BY <1>3, Zenon DEF VoteOps
  <2> QED BY <1>1, <1>3, <2>1, Zenon
<1>11. SavedInv'
  <2>1. ASSUME NEW t \in saved'
        PROVE  Recorded(t) /\ ~t.signed /\ \A u \in sent : Supersedes(t, u)
    <3>1. VoteState(t) = queue[1].vote /\ ~t.signed BY <1>9, <1>10, Zenon
    <3>2. VoteState(t).root = t.root /\ VoteState(t).votes = t.votes BY Zenon DEF VoteState
    <3> DEFINE v == queue[1].vote
    <3>3. v.root = t.root /\ v.votes = t.votes BY <3>1, <3>2, Zenon
    <3>4. Recorded(v) /\ \A u \in sent : Supersedes(v, u) BY <1>9, Zenon
    <3> HIDE DEF v
    <3>5. Recorded(t) BY <3>3, <3>4, SameVoteState, Zenon
    <3>6. \A u \in sent : Supersedes(t, u) BY <3>3, <3>4, SameVoteState, Zenon
    <3> QED BY <3>1, <3>5, <3>6, Zenon
  <2>2. \A t, x \in saved' : t = x BY <1>9, <1>10, Zenon
  <2> QED BY <1>1, <1>10, <2>1, <2>2, Zenon DEF SavedInv
<1>12. ASSUME NEW j \in 1 .. n PROVE Queued(queue', j, saved', sent')
  <2>1. Queued(queue, j, saved, sent) BY <1>8, Zenon
  <2>2. \A i \in 1 .. j : i \in 1 .. n BY <1>3
  <2>3. /\ Recorded(queue'[j].vote) /\ (\A u \in sent' : Supersedes(queue'[j].vote, u))
        /\ \A i \in 1 .. j : Supersedes(queue'[j].vote, queue'[i].vote)
    BY <1>1, <1>7, <2>1, <2>2, Zenon DEF Queued
  <2>4. CASE j = 1
    <3>1. queue'[1].saved = {} BY <1>4, <1>6, Zenon
    <3>2. \E t \in saved' : VoteState(t) = queue'[1].vote BY <1>3, <1>7, <1>9, <1>10, Zenon
    <3> QED BY <2>3, <2>4, <3>1, <3>2, Zenon DEF Queued
  <2>5. CASE j # 1
    <3>1. j - 1 \in 1 .. n BY <1>3, <2>5
    <3>2. queue'[j].saved = queue[j].saved /\ queue'[j - 1].vote = queue[j - 1].vote /\ queue'[j].vote = queue[j].vote
      BY <1>6, <1>7, <2>5, <3>1, Zenon
    <3> QED BY <2>1, <2>3, <2>5, <3>2, Zenon DEF Queued
  <2> QED BY <2>4, <2>5, Zenon
<1>13. QueueInv' BY <1>6, <1>12, Zenon DEF QueueInv
<1>14. TowerInv'
  <2>1. queue' # <<>> /\ n = Len(queue) BY <1>3, <1>6 DEF n
  <2>2. /\ \A j \in 1 .. Len(queue') : Supersedes(tower', queue'[j].vote)
        /\ tower.signed => queue'[Len(queue')].vote = VoteState(tower')
    BY <1>1, <1>2, <1>3, <1>6, <1>7, <2>1, Zenon DEF TowerInv
  <2>3. /\ Stack(tower'.votes) /\ (tower'.root = forks' \/ Rooted(tower'))
        /\ \A s \in computed' : OnFork(forks', s)
        /\ \A u \in sent' : Supersedes(tower', u)
        /\ tower'.signed =>
              /\ tower'.votes # <<>> /\ Rooted(tower') /\ tower'.last_vote = VoteState(tower')
        /\ tower'.signed /\ tower.signed
    BY <1>1, <1>2, Zenon DEF TowerInv
  <2> QED BY <2>1, <2>2, <2>3, Zenon DEF TowerInv
<1>15. TypeInv' BY <1>1, <1>6, <1>10, Zenon DEF Inv, TypeInv
<1>16. SentInv' BY <1>1, Zenon DEF Inv, SentInv
<1> QED BY <1>1, <1>11, <1>13, <1>14, <1>15, <1>16, Zenon DEF Inv

\* It is preserved when the voting service sends a vote.
LEMMA SendInv ==
    ASSUME Inv, SendVote
    PROVE  Inv'
<1> DEFINE v == queue[1].vote
           n == Len(queue)
<1>1. /\ up /\ queue # <<>> /\ Head(queue).saved = {} /\ sent' = sent \cup {Head(queue).vote}
      /\ queue' = Tail(queue)
      /\ up' = up /\ tower' = tower /\ forks' = forks /\ computed' = computed
      /\ saved' = saved /\ bank' = bank
  BY Zenon DEF SendVote
<1>2. TowerInv /\ queue \in Seq(VoteOps) BY <1>1, Zenon DEF Inv, TypeInv
<1>3. n \in Nat /\ n \in 1 .. n /\ 1 \in 1 .. n /\ Head(queue) = queue[1] /\ queue[1] \in VoteOps
  BY <1>1, <1>2
<1>4. sent' = sent \cup {v} /\ queue[1].saved = {} BY <1>1, <1>3, Zenon
<1>5. /\ queue' \in Seq(VoteOps) /\ Len(queue') = n - 1 /\ \A j \in 1 .. n - 1 : queue'[j] = queue[j + 1]
      /\ \A j \in 1 .. n - 1 : j + 1 \in 1 .. n
  BY <1>1, <1>2, <1>3
<1> HIDE DEF n
<1>6. \A j \in 1 .. n : Queued(queue, j, saved, sent) BY Zenon DEF Inv, QueueInv, n
<1>7. PICK t \in saved : VoteState(t) = v BY <1>3, <1>4, <1>6, Zenon DEF Queued
<1>8. Recorded(v) /\ v \in VoteStates /\ \A u \in sent : Supersedes(v, u)
  BY <1>3, <1>6, Zenon DEF Queued, VoteOps
<1>9. ASSUME NEW j \in 1 .. n PROVE Supersedes(queue[j].vote, v)
  <2>1. 1 \in 1 .. j BY <1>3
  <2> QED BY <1>6, <2>1, Zenon DEF Queued
<1> HIDE DEF v
<1>10. SavedInv'
  <2>1. t.root = v.root /\ t.votes = v.votes
    <3>1. VoteState(t).root = t.root /\ VoteState(t).votes = t.votes BY Zenon DEF VoteState
    <3> QED BY <1>7, <3>1, Zenon
  <2>2. Supersedes(t, v) BY <1>8, <2>1, SameVoteState, SupersedesItself, Zenon
  <2>3. \A x \in saved : x = t BY Zenon DEF Inv, SavedInv
  <2>4. \A x \in saved : Supersedes(x, v) BY <2>2, <2>3, Zenon
  <2>5. \A x, y \in saved : x = y BY Zenon DEF Inv, SavedInv
  <2>6. \A x \in saved : Recorded(x) /\ ~x.signed /\ \A u \in sent : Supersedes(x, u)
    BY Zenon DEF Inv, SavedInv
  <2>7. \A x \in saved' : Recorded(x) /\ ~x.signed /\ \A u \in sent' : Supersedes(x, u)
    BY <1>1, <1>4, <2>4, <2>6, Zenon
  <2>8. saved' # {} BY <1>1, <1>7, Zenon
  <2> QED BY <1>1, <2>5, <2>7, <2>8, Zenon DEF SavedInv
<1>11. ASSUME NEW j \in 1 .. n - 1 PROVE Queued(queue', j, saved', sent')
  <2>1. Queued(queue, j + 1, saved, sent) /\ queue'[j] = queue[j + 1] /\ j + 1 \in 1 .. n BY <1>5, <1>6, Zenon
  <2>2. \A i \in 1 .. j : i \in 1 .. n - 1 /\ i + 1 \in 1 .. j + 1 BY <1>3
  <2>3. \A i \in 1 .. j : Supersedes(queue'[j].vote, queue'[i].vote)
    BY <1>5, <2>1, <2>2, Zenon DEF Queued
  <2>4. /\ Recorded(queue'[j].vote) /\ \A u \in sent' : Supersedes(queue'[j].vote, u)
        /\ \A x, y \in queue'[j].saved : x = y
        /\ \A x \in queue'[j].saved : VoteState(x) = queue'[j].vote /\ ~x.signed
    BY <1>4, <1>9, <2>1, Zenon DEF Queued
  <2>5. j + 1 # 1 /\ (j + 1) - 1 = j BY <1>3
  <2>6. queue'[j].saved = {} => queue[j].vote = queue'[j].vote
    BY <2>1, <2>5, Zenon DEF Queued
  <2>7. CASE j = 1
    <3>1. queue'[j].saved = {} => \E x \in saved' : VoteState(x) = queue'[1].vote
      BY <1>1, <1>7, <2>6, <2>7, Zenon DEF v
    <3> QED BY <2>3, <2>4, <2>7, <3>1, Zenon DEF Queued
  <2>8. CASE j # 1
    <3>1. j - 1 \in 1 .. n - 1 /\ (j - 1) + 1 = j BY <1>3, <2>8
    <3>2. queue'[j - 1] = queue[j] BY <1>5, <3>1, Zenon
    <3> QED BY <2>3, <2>4, <2>6, <2>8, <3>2, Zenon DEF Queued
  <2> QED BY <2>7, <2>8, Zenon
<1>12. QueueInv' BY <1>5, <1>11, Zenon DEF QueueInv
<1>13. TowerInv'
  <2>1. n = Len(queue) BY Zenon DEF n
  <2>2. \A j \in 1 .. Len(queue') : Supersedes(tower', queue'[j].vote)
    BY <1>1, <1>2, <1>5, <2>1, Zenon DEF TowerInv
  <2>3. \A u \in sent' : Supersedes(tower', u)
    BY <1>1, <1>2, <1>3, <1>4, <2>1, Zenon DEF TowerInv, v
  <2>4. /\ Stack(tower'.votes) /\ (tower'.root = forks' \/ Rooted(tower'))
        /\ \A s \in computed' : OnFork(forks', s)
        /\ tower'.votes # <<>> /\ Rooted(tower') /\ tower'.last_vote = VoteState(tower')
        /\ queue[n].vote = VoteState(tower') /\ tower'.signed
    BY <1>1, <1>2, <2>1, Zenon DEF TowerInv
  <2>5. CASE n = 1
    <3>1. \E x \in saved' : VoteState(x) = VoteState(tower') BY <1>1, <1>7, <2>4, <2>5, Zenon DEF v
    <3>2. queue' = <<>> BY <1>5, <2>5
    <3> QED BY <2>2, <2>3, <2>4, <3>1, <3>2, Zenon DEF TowerInv
  <2>6. CASE n # 1
    <3>1. n - 1 \in 1 .. n - 1 /\ (n - 1) + 1 = n BY <1>3, <2>6
    <3>2. queue'[Len(queue')] = queue[n] BY <1>5, <3>1, Zenon
    <3>3. queue' # <<>>
      <4>1. Len(queue') # 0 BY <1>5, <3>1
      <4> QED BY <4>1
    <3> QED BY <2>2, <2>3, <2>4, <3>2, <3>3, Zenon DEF TowerInv
  <2> QED BY <2>5, <2>6, Zenon
<1>14. TypeInv' BY <1>1, <1>4, <1>5, <1>8, Zenon DEF Inv, TypeInv
<1>15. SentInv'
  <2>1. ASSUME NEW u \in sent PROVE ~(last_voted_slot(v.votes) < last_voted_slot(u.votes))
    <3>1. Recorded(u) BY Zenon DEF Inv, SentInv
    <3>2. last_voted_slot(u.votes) \in Int /\ last_voted_slot(v.votes) \in Int
      BY <1>8, <3>1, RecentFacts, Zenon DEF Recorded
    <3>3. last_voted_slot(u.votes) <= last_voted_slot(v.votes)
      BY <1>8, Zenon DEF Supersedes, Recorded, Recent
    <3> QED BY <3>2, <3>3
  <2>2. Supersedes(v, v) BY <1>8, SupersedesItself, Zenon
  <2>3. ASSUME NEW u \in sent', NEW x \in sent', last_voted_slot(u.votes) < last_voted_slot(x.votes)
        PROVE  Supersedes(x, u)
    <3>1. CASE x = v BY <1>4, <1>8, <2>2, <3>1, Zenon
    <3>2. CASE x \in sent
      <4>1. u \in sent BY <1>4, <2>1, <2>3, <3>2, Zenon
      <4> QED BY <2>3, <3>2, <4>1, Zenon DEF Inv, SentInv
    <3> QED BY <1>4, <3>1, <3>2, Zenon
  <2>4. \A u \in sent' : Recorded(u) BY <1>4, <1>8, Zenon DEF Inv, SentInv
  <2>5. \A b \in DOMAIN bank' : bank'[b] \in sent' \cup {Unvoted} BY <1>1, <1>4, Zenon DEF Inv, SentInv
  <2> QED BY <2>3, <2>4, <2>5, Zenon DEF SentInv
<1> QED BY <1>1, <1>10, <1>12, <1>13, <1>14, <1>15, Zenon DEF Inv

\* Every step preserves it, if voting keys stay.
LEMMA NextInv ==
    ASSUME ~KeysChange, Inv, [Next]_vars
    PROVE  Inv'
<1>1. CASE \E s \in Slots \ {0} : Produce(s) BY <1>1, ProduceInv, Zenon
<1>2. CASE \E s \in Slots : compute_bank_stats(s) BY <1>2, ComputeInv, Zenon
<1>3. CASE \E s \in Slots \ {0} : handle_votable_bank(s) BY <1>3, VoteInv, Zenon
<1>4. CASE refresh_last_vote BY <1>4, RefreshInv, Zenon
<1>5. CASE StoreTower BY <1>5, StoreInv, Zenon
<1>6. CASE SendVote BY <1>6, SendInv, Zenon
<1>7. CASE Crash BY <1>7, CrashInv, Zenon
<1>8. CASE \E r \in Slots : post_process_restored_tower(r) BY <1>8, RestoreInv, Zenon
<1>9. CASE UNCHANGED vars
  <2>1. /\ up' = up /\ tower' = tower /\ forks' = forks /\ computed' = computed /\ queue' = queue
        /\ saved' = saved /\ sent' = sent /\ bank' = bank
    BY <1>9, Zenon DEF vars
  <2>2. TypeInv' BY <2>1, Zenon DEF Inv, TypeInv
  <2>3. SavedInv' BY <2>1, Zenon DEF Inv, SavedInv
  <2>4. QueueInv' BY <2>1, Zenon DEF Inv, QueueInv
  <2>5. SentInv' BY <2>1, Zenon DEF Inv, SentInv
  <2>6. (up => TowerInv)' BY <2>1, Zenon DEF Inv, TowerInv
  <2> QED BY <2>1, <2>2, <2>3, <2>4, <2>5, <2>6, Zenon DEF Inv
<1> QED BY <1>1, <1>2, <1>3, <1>4, <1>5, <1>6, <1>7, <1>8, <1>9, Zenon DEF Next

\* So it always holds.
LEMMA AlwaysInv ==
    ASSUME ~KeysChange
    PROVE  Spec => []Inv
<1>1. Init => Inv BY InitInv, Zenon
<1>2. Inv /\ [Next]_vars => Inv' BY NextInv, Zenon
<1> QED BY <1>1, <1>2, PTL DEF Spec

-----------------------------------------------------------------------------
(* What the validator promises *)

\* As long as the voting key stays, whatever the tree of slots, the depth of the
\* tower, the crashes and the replayed roots: a vote that is sent for a later slot
\* than an earlier one finds the votes of the earlier tower on its fork or their
\* lockouts over (may_vote, adjust_lockouts_after_replay, VotingService::handle_vote).
THEOREM LockoutsAlwaysHonored ==
    ASSUME ~KeysChange
    PROVE  Spec => []LockoutsHonored
<1>1. ASSUME Inv PROVE LockoutsHonored
  <2> SUFFICES ASSUME NEW t \in sent, NEW u \in sent,
                      last_voted_slot(t.votes) < last_voted_slot(u.votes), NEW i \in DOMAIN t.votes
               PROVE  \/ OnFork(t.votes[i].slot, last_voted_slot(u.votes))
                      \/ last_locked_out_slot(t.votes[i]) < last_voted_slot(u.votes)
    BY Zenon DEF LockoutsHonored
  <2> DEFINE s == last_voted_slot(u.votes)
             v == t.votes[i]
  <2>1. Recorded(t) /\ Recorded(u) /\ Supersedes(u, t) BY <1>1, Zenon DEF Inv, SentInv
  <2>2. i \in 1 .. Len(t.votes) BY <2>1, StackLen, Zenon DEF Recorded
  <2>3. Covers(u, v) BY <2>1, <2>2, Zenon DEF Supersedes
  <2>4. Recent(u) = s BY <2>1, Zenon DEF Recorded, Recent
  <2>5. s \in Slots /\ (\A j \in 1 .. Len(u.votes) : OnFork(u.votes[j].slot, s))
        /\ Len(u.votes) \in 1 .. Len(u.votes)
    BY <2>1, LastVote, StackLen, Zenon DEF Recorded
  <2>6. CASE OnFork(v.slot, u.root)
    <3>1. OnFork(u.root, u.votes[Len(u.votes)].slot) /\ u.votes[Len(u.votes)].slot = s
      BY <2>1, <2>5, LastVote, Zenon DEF Recorded, Rooted
    <3>2. OnFork(u.root, s) BY <3>1, Zenon
    <3> HIDE DEF s, v
    <3>3. OnFork(v.slot, s) BY <2>5, <2>6, <3>2, ForkTrans, Zenon
    <3> QED BY <3>3, Zenon DEF s, v
  <2>7. CASE \E j \in 1 .. Len(u.votes) : u.votes[j].slot = v.slot BY <2>5, <2>7, Zenon
  <2>8. CASE last_locked_out_slot(v) < Recent(u) BY <2>4, <2>8, Zenon
  <2> QED BY <2>3, <2>6, <2>7, <2>8, Zenon DEF Covers
<1> QED BY <1>1, AlwaysInv, PTL

\* A file that can be read restores: the file holds a recorded tower, whose slots are
\* on one fork, so a replayed root that its root does not contradict has an anchor
\* for it, and no slot under the anchor is missing from the history.
THEOREM FilesRestore ==
    ASSUME ~KeysChange
    PROVE  Spec => []Restorable
<1>1. ASSUME Inv PROVE Restorable
  <2> SUFFICES ASSUME NEW t \in saved, NEW r \in Produced,
                      OnFork(t.root, r) \/ OnFork(r, t.root),
                      Check(History(t, r), t.root) # "TooOld"
               PROVE  Consistent(t, History(t, r))
    BY Zenon DEF Restorable
  <2> DEFINE h == History(t, r)
             V == VotedSlots(t.votes) \cup {t.root}
             A == Anchors(t, h)
  <2>1. Recorded(t) /\ r \in Slots BY <1>1, Zenon DEF Inv, SavedInv, TypeInv, Produced
  <2>2. /\ t.root \in Slots /\ t.root \in Nat /\ r \in Nat /\ Stack(t.votes) /\ t.votes # <<>> /\ MaxSlot \in Nat
    BY <2>1, SlotFacts, Zenon DEF Recorded
  <2>3. /\ h \subseteq 0 .. MaxSlot
        /\ Latest(h) \in h /\ \A s \in h : s <= Latest(h)
        /\ \A s : OnFork(s, r) => s \in h
        /\ t.root <= r => \A s \in h : OnFork(s, r)
        /\ t.root > r => t.root \in h /\ \A s \in h : s <= t.root
    BY <2>1, <2>2, HistoryFacts, Zenon
  <2>4. Check(h, t.root) # "TooOld" BY Zenon
  <2> HIDE DEF h
  <2>5. Latest(h) \in Nat
    <3>1. Latest(h) \in 0 .. MaxSlot BY <2>3, Zenon
    <3> QED BY <3>1
  <2>6. t.root \in h
    <3>1. CASE t.root > r BY <2>3, <3>1, Zenon
    <3>2. CASE OnFork(t.root, r) BY <2>3, <3>2, Zenon
    <3>3. CASE OnFork(r, t.root) /\ ~(t.root > r)
      <4>1. r <= t.root BY <2>2, <3>3, ForkOrder, Zenon
      <4>2. t.root = r BY <2>2, <3>3, <4>1
      <4> QED BY <2>3, <4>2, Zenon DEF OnFork
    <3> QED BY <3>1, <3>2, <3>3, Zenon
  <2>7. A # {}
    <3>1. Check(h, t.root) = "Found" BY <2>2, <2>3, <2>4, <2>5, <2>6, CheckFacts, Zenon
    <3>2. t.root \in A BY <3>1, Zenon DEF Anchors
    <3> QED BY <3>2, Zenon
  <2>8. ASSUME NEW s \in V, NEW a \in A, s < a PROVE Check(h, s) # "NotFound"
    <3>1. a \in V /\ Check(h, a) = "Found" BY Zenon DEF Anchors
    <3>2. /\ s \in Nat /\ t.root <= s /\ (s <= a => OnFork(s, a)) /\ a \in Nat /\ a \in Slots
      BY <2>1, <3>1, RecordedOrder, Zenon
    <3>3. a \in h BY <2>5, <3>1, <3>2, CheckFacts, Zenon
    <3>4. s <= a BY <2>8, <3>2
    <3>5. t.root <= r
      <4>1. SUFFICES ASSUME t.root > r PROVE FALSE BY <2>2
      <4>2. a <= t.root BY <2>3, <3>3, <4>1, Zenon
      <4> QED BY <2>2, <2>8, <3>2, <4>2
    <3>6. OnFork(a, r) BY <2>3, <3>3, <3>5, Zenon
    <3>7. OnFork(s, r) BY <2>1, <3>2, <3>4, <3>6, ForkTrans, Zenon
    <3>8. s \in h BY <2>3, <3>7, Zenon
    <3> QED BY <2>5, <3>2, <3>8, CheckFacts, Zenon
  <2>9. ASSUME NEW i \in 1 .. Len(t.votes) - 1 PROVE t.votes[i].slot < t.votes[i + 1].slot
    <3>1. Len(t.votes) \in Nat BY <2>2, StackLen, Zenon
    <3>2. i \in 1 .. Len(t.votes) /\ i + 1 \in 1 .. Len(t.votes) /\ i < i + 1 BY <3>1
    <3> QED BY <2>2, <3>2, Zenon DEF Stack
  <2>10. t.root <= t.votes[1].slot
    <3>1. 1 \in 1 .. Len(t.votes) /\ DOMAIN t.votes = 1 .. Len(t.votes)
      <4>1. Len(t.votes) \in Nat /\ Len(t.votes) # 0 /\ DOMAIN t.votes = 1 .. Len(t.votes)
        BY <2>2, StackLen, Zenon
      <4> QED BY <4>1
    <3>2. t.votes[1].slot \in V BY <3>1, Zenon DEF VotedSlots
    <3> QED BY <2>1, <3>2, RecordedOrder, Zenon
  <2> QED BY <2>7, <2>8, <2>9, <2>10, Zenon DEF Consistent, h
<1> QED BY <1>1, AlwaysInv, PTL

\* What check_update_vote_state_slots_are_valid and process_new_vote_state look up:
\* the first of the votes of v that is not older than a vote c it covers.
LEMMA NextVoteFacts ==
    ASSUME NEW v, Recorded(v), NEW c \in Lockouts, Covers(v, c), c.slot > v.root,
           c.slot <= last_voted_slot(v.votes)
    PROVE  LET Later == {i \in DOMAIN v.votes : v.votes[i].slot >= c.slot}
               next == v.votes[CHOOSE i \in Later : \A j \in Later : i <= j]
           IN  IF next.slot = c.slot
               THEN next.confirmation_count >= c.confirmation_count
               ELSE ~is_locked_out_at_slot(c, next.slot)
<1> DEFINE n == Len(v.votes)
           Later == {i \in DOMAIN v.votes : v.votes[i].slot >= c.slot}
           k == CHOOSE i \in Later : \A j \in Later : i <= j
           next == v.votes[k]
           e == last_locked_out_slot(c)
<1>0. /\ v.root \in Slots /\ Stack(v.votes) /\ v.votes # <<>> /\ n \in Nat /\ n \in 1 .. n
      /\ DOMAIN v.votes = 1 .. n /\ Recent(v) = v.votes[n].slot /\ last_voted_slot(v.votes) = v.votes[n].slot
  BY StackLen, LastVote, Zenon DEF Recorded, Recent
<1>1. /\ c.slot \in Nat /\ e \in Nat /\ c.slot <= e /\ c.confirmation_count \in Nat /\ v.root \in Nat
  BY <1>0, LockoutFacts, SlotFacts, Zenon
<1>2. \A i \in 1 .. n : /\ v.votes[i] \in Lockouts /\ v.votes[i].slot \in Nat
                        /\ v.votes[i].confirmation_count \in Nat
                        /\ last_locked_out_slot(v.votes[i]) \in Nat
  BY <1>0, LockoutFacts, StackVote, Zenon
<1>3. k \in Later /\ \A j \in Later : k <= j
  <2>1. n \in Later
    <3>1. v.votes[n].slot >= c.slot BY <1>0, <1>1, <1>2, Zenon
    <3> QED BY <1>0, <3>1, Zenon
  <2>2. Later \subseteq Nat BY <1>0
  <2>3. \E m \in Later : \A j \in Later : m <= j
    <3> HIDE DEF Later
    <3> QED BY <2>1, <2>2, LeastNat, Zenon
  <2> HIDE DEF Later
  <2> QED BY <2>3, Zenon
<1>4. k \in 1 .. n /\ next.slot >= c.slot BY <1>0, <1>3, Zenon
<1> HIDE DEF k
<1>5. next \in Lockouts /\ next.slot \in Nat /\ next.confirmation_count \in Nat
      /\ last_locked_out_slot(next) \in Nat
  BY <1>2, <1>4, Zenon
<1> HIDE DEF next, e
<1>6. ~OnFork(c.slot, v.root)
  <2>1. OnFork(c.slot, v.root) => c.slot <= v.root BY <1>0, ForkOrder, Zenon
  <2> QED BY <1>1, <2>1
\* The vote is still there.
<1>7. CASE \E i \in 1 .. n : v.votes[i].slot = c.slot /\ v.votes[i].confirmation_count >= c.confirmation_count
  <2>1. PICK i \in 1 .. n : v.votes[i].slot = c.slot /\ v.votes[i].confirmation_count >= c.confirmation_count
    BY <1>7, Zenon
  <2>2. i \in Later
    <3>1. v.votes[i].slot >= c.slot BY <1>1, <2>1
    <3> QED BY <1>0, <3>1, Zenon
  <2>3. k <= i BY <1>3, <2>2, Zenon
  <2>4. v.votes[k].slot <= v.votes[i].slot BY <1>0, <1>4, <2>3, StackOrder, Zenon
  <2>5. next.slot = c.slot BY <1>1, <1>4, <1>5, <2>1, <2>4 DEF next
  <2>6. k = i
    <3>1. v.votes[i].slot <= v.votes[k].slot BY <1>1, <2>1, <2>5 DEF next
    <3>2. i <= k BY <1>0, <1>4, <3>1, StackOrder, ZenonT(30)
    <3> QED BY <1>0, <1>4, <2>3, <3>2
  <2> QED BY <2>1, <2>5, <2>6, Zenon DEF next, k, Later
\* It is over.
<1>8. CASE e < Recent(v) /\ \A i \in 1 .. n : v.votes[i].slot > c.slot => e < v.votes[i].slot
  <2>1. CASE next.slot # c.slot
    <3>1. next.slot > c.slot BY <1>1, <1>4, <1>5, <2>1
    <3>2. e < next.slot BY <1>4, <1>8, <3>1, Zenon DEF next
    <3>3. ~is_locked_out_at_slot(c, next.slot) BY <1>1, <1>5, <3>2 DEF is_locked_out_at_slot, e
    <3> QED BY <2>1, <3>3, Zenon DEF next, k, Later
  <2>2. CASE next.slot = c.slot
    <3>1. k # n
      <4>1. SUFFICES ASSUME k = n PROVE FALSE BY Zenon
      <4>2. Recent(v) = c.slot BY <1>0, <2>2, <4>1, Zenon DEF next
      <4> QED BY <1>1, <1>8, <4>2
    <3>2. k \in 1 .. n - 1 /\ k + 1 \in 1 .. n /\ k < k + 1 BY <1>0, <1>4, <3>1
    <3>3. is_locked_out_at_slot(next, v.votes[k + 1].slot) BY <1>0, <3>2, Zenon DEF Stack, next
    <3>4. v.votes[k + 1].slot > c.slot
      <4>1. v.votes[k].slot < v.votes[k + 1].slot BY <1>0, <1>4, <3>2, Zenon DEF Stack
      <4> QED BY <1>1, <1>2, <2>2, <3>2, <4>1, Zenon DEF next
    <3>5. e < v.votes[k + 1].slot BY <1>8, <3>2, <3>4, Zenon
    <3>6. v.votes[k + 1].slot \in Nat BY <1>2, <3>2, Zenon
    <3>7. ~(last_locked_out_slot(next) <= e)
      BY <1>1, <1>5, <3>3, <3>5, <3>6 DEF is_locked_out_at_slot
    <3>8. next.confirmation_count >= c.confirmation_count
      <4>1. SUFFICES ASSUME c.confirmation_count >= next.confirmation_count PROVE FALSE BY <1>1, <1>5
      <4>2. last_locked_out_slot(next) <= e BY <1>5, <2>2, <4>1, LongerLockout, Zenon DEF e
      <4> QED BY <3>7, <4>2, Zenon
    <3> QED BY <2>2, <3>8, Zenon DEF next, k, Later
  <2> QED BY <2>1, <2>2, Zenon
<1> QED BY <1>0, <1>6, <1>7, <1>8, Zenon DEF Covers, e

\* No vote is refused for what it says: the account it meets holds nothing, or an
\* earlier vote of this validator, which it supersedes.
THEOREM VotesLand ==
    ASSUME ~KeysChange
    PROVE  Spec => []Landable
<1>1. ASSUME Inv PROVE Landable
  <2> SUFFICES ASSUME NEW v \in sent, NEW b \in Produced, v.root \notin VotedSlots(v.votes),
                      OnFork(last_voted_slot(v.votes), b),
                      last_voted_slot(v.votes) > last_voted_slot(bank[b].votes)
               PROVE  process_new_vote_state(bank[b], v, Ancestors[b] \cup {b})
    BY Zenon DEF Landable
  <2> DEFINE new == v.votes
             n == Len(new)
             vs == bank[b]
             last == last_voted_slot(new)
  <2>1. Recorded(v) /\ vs \in sent \cup {Unvoted} /\ b \in Slots
    BY <1>1, Zenon DEF Inv, SentInv, TypeInv, Produced
  <2>2. /\ v.root \in Slots /\ v.root \in Nat /\ Stack(new) /\ new # <<>> /\ n \in Nat /\ n <= MAX_LOCKOUT_HISTORY
        /\ DOMAIN new = 1 .. n /\ last \in Slots /\ last \in Nat
    BY <2>1, LastVote, StackLen, SlotFacts, Zenon DEF Recorded
  <2>3. VotedSlots(new) \cup {v.root} \subseteq Ancestors[b] \cup {b}
    <3> SUFFICES ASSUME NEW s \in VotedSlots(new) \cup {v.root} PROVE OnFork(s, b) BY Zenon DEF OnFork
    <3>1. last \in VotedSlots(new) \cup {v.root}
      BY <2>2, LastVote, StackLen, Zenon DEF VotedSlots
    <3>2. s <= last
      <4>1. CASE s \in VotedSlots(new) BY <2>2, <4>1, LastVote, Zenon DEF VotedSlots
      <4>2. CASE s = v.root BY <2>1, <3>1, <4>2, RecordedOrder, Zenon
      <4> QED BY <4>1, <4>2, Zenon
    <3>3. OnFork(s, last) BY <2>1, <3>1, <3>2, RecordedOrder, Zenon
    <3> QED BY <2>1, <3>3, ForkTrans, Zenon
  <2>4. vs \in sent => Supersedes(v, vs) /\ Recorded(vs)
    <3>1. ASSUME vs \in sent PROVE Supersedes(v, vs) /\ Recorded(vs)
      <4>1. Recorded(vs) BY <1>1, <3>1, Zenon DEF Inv, SentInv
      <4>2. last_voted_slot(vs.votes) \in Int BY <4>1, RecentFacts, Zenon DEF Recorded
      <4>3. last_voted_slot(vs.votes) < last
        <5> HIDE DEF vs
        <5>1. last > last_voted_slot(vs.votes) BY Zenon DEF vs
        <5> HIDE DEF last
        <5> QED BY <2>2, <4>2, <5>1, Zenon
      <4> QED BY <1>1, <3>1, <4>1, <4>3, Zenon DEF Inv, SentInv
    <3> QED BY <3>1, Zenon
  <2>5. v.root >= vs.root
    <3>1. CASE vs \in sent
      <4>1. vs.root <= v.root /\ vs.root \in Nat BY <2>4, <3>1, SlotFacts, Zenon DEF Supersedes, Recorded
      <4> HIDE DEF vs
      <4> QED BY <2>2, <4>1, Zenon
    <3>2. CASE vs = Unvoted
      <4>1. vs.root = -1 BY <3>2, NoVotes, Zenon
      <4> HIDE DEF vs
      <4> QED BY <2>2, <4>1
    <3> QED BY <2>1, <3>1, <3>2, Zenon
  <2>6. ASSUME NEW i \in DOMAIN new
        PROVE  new[i].confirmation_count \in 1 .. MAX_LOCKOUT_HISTORY /\ new[i].slot > v.root
    <3>1. new[i].slot \in VotedSlots(new) /\ i \in 1 .. n BY <2>2, Zenon DEF VotedSlots
    <3>2. new[i].slot \in Nat /\ v.root <= new[i].slot BY <2>1, <3>1, RecordedOrder, Zenon
    <3>3. new[i].slot # v.root BY <3>1, Zenon
    <3>4. new[i].confirmation_count \in 1 .. MAX_LOCKOUT_HISTORY BY <2>2, <3>1, StackVote, Zenon
    <3> HIDE DEF new
    <3>5. new[i].slot > v.root BY <2>2, <3>2, <3>3
    <3> QED BY <3>4, <3>5, Zenon
  <2>7. ASSUME NEW i \in 1 .. n - 1
        PROVE  /\ new[i].slot < new[i + 1].slot
               /\ new[i].confirmation_count > new[i + 1].confirmation_count
               /\ is_locked_out_at_slot(new[i], new[i + 1].slot)
    <3>1. i \in 1 .. n /\ i + 1 \in 1 .. n /\ i < i + 1 BY <2>2
    <3> QED BY <2>2, <3>1, Zenon DEF Stack
  <2> DEFINE Later(c) == {i \in DOMAIN new : new[i].slot >= c.slot}
             NextVote(c) == new[CHOOSE i \in Later(c) : \A j \in Later(c) : i <= j]
  <2>8. ASSUME NEW i \in DOMAIN vs.votes, vs.votes[i].slot > v.root
        PROVE  IF NextVote(vs.votes[i]).slot = vs.votes[i].slot
               THEN NextVote(vs.votes[i]).confirmation_count >= vs.votes[i].confirmation_count
               ELSE ~is_locked_out_at_slot(vs.votes[i], NextVote(vs.votes[i]).slot)
    <3> DEFINE c == vs.votes[i]
    <3>1. vs \in sent
      <4>1. DOMAIN Unvoted.votes = {} BY NoVotes
      <4> QED BY <2>1, <4>1, Zenon
    <3>2. Recorded(vs) /\ Supersedes(v, vs) BY <2>4, <3>1, Zenon
    <3>3. Stack(vs.votes) /\ i \in 1 .. Len(vs.votes) /\ vs.votes # <<>>
      BY <3>2, StackLen, Zenon DEF Recorded
    <3>4. c \in Lockouts /\ c.slot \in Nat BY <3>3, StackVote, Zenon
    <3>5. Covers(v, c) BY <3>2, <3>3, Zenon DEF Supersedes
    <3>6. c.slot <= last
      <4>1. c.slot <= last_voted_slot(vs.votes) BY <3>3, LastVote, Zenon
      <4>2. last_voted_slot(vs.votes) <= Recent(v) /\ Recent(v) = last
        BY <2>2, <3>2, Zenon DEF Supersedes, Recent
      <4>3. last_voted_slot(vs.votes) \in Nat BY <3>3, LastVote, SlotFacts, Zenon
      <4> HIDE DEF c, last, vs
      <4> QED BY <2>2, <3>4, <4>1, <4>2, <4>3
    <3>7. c.slot > v.root BY <2>8, Zenon
    <3> HIDE DEF vs, last, c
    <3>8. IF NextVote(c).slot = c.slot
          THEN NextVote(c).confirmation_count >= c.confirmation_count
          ELSE ~is_locked_out_at_slot(c, NextVote(c).slot)
      BY <2>1, <3>4, <3>5, <3>6, <3>7, NextVoteFacts, Zenon DEF last
    <3> QED BY <3>8, Zenon DEF c
  <2> HIDE DEF Later, NextVote
  <2> QED BY <2>2, <2>3, <2>5, <2>6, <2>7, <2>8, Zenon DEF process_new_vote_state, NextVote, Later
<1> QED BY <1>1, AlwaysInv, PTL
=============================================================================
