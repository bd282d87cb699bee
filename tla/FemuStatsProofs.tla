-------------------------- MODULE FemuStatsProofs --------------------------
(***************************************************************************)
(* What the device's counters, its requests and the reading of the host's  *)
(* log do to the writes that are counted, for the proofs about the scripts *)
(* that use them.  T is the set of writes a script makes.                  *)
(***************************************************************************)
EXTENDS FemuStats, TLAPS

\* Every line is a set of writes.
Lines(T) ==
    /\ counters \in SUBSET T
    /\ unprinted \in Seq(SUBSET T) /\ printed \in Seq(SUBSET T)

\* The counters have been read: the line that is printed last, now or once the
\* host has caught up, is what they count.
ReadOut ==
    IF unprinted = <<>> THEN printed = <<counters>> ELSE unprinted[Len(unprinted)] = counters

LEMMA FdpStatsFacts ==
    ASSUME NEW T, Lines(T), NEW reset \in BOOLEAN, NEW outcome, fdp_stats(reset, outcome)
    PROVE  /\ Lines(T)' /\ printed' = printed
           /\ outcome = "executed" =>
                 unprinted' = Append(unprinted, counters) /\ (~reset => ReadOut')
           /\ ~reset => counters' = counters
           /\ reset /\ outcome = "executed" => counters' = {}
<1>1. /\ counters' = IF reset /\ outcome = "executed" THEN {} ELSE counters
      /\ unprinted' = IF outcome = "executed" THEN Append(unprinted, counters) ELSE unprinted
      /\ printed' = printed
  BY DEF fdp_stats
<1>2. counters' \in SUBSET T BY <1>1 DEF Lines
<1>3. Append(unprinted, counters) \in Seq(SUBSET T) BY DEF Lines
<1>4. unprinted' \in Seq(SUBSET T) BY <1>1, <1>3 DEF Lines
<1>5. ASSUME outcome = "executed", ~reset PROVE ReadOut'
  <2>1. unprinted' = Append(unprinted, counters) /\ counters' = counters BY <1>1, <1>5
  <2>2. /\ Append(unprinted, counters) # <<>>
        /\ Append(unprinted, counters)[Len(Append(unprinted, counters))] = counters
    BY DEF Lines
  <2> QED BY <2>1, <2>2 DEF ReadOut
<1> QED BY <1>1, <1>2, <1>4, <1>5 DEF Lines

\* A request spoils the round unless it is executed.
LEMMA RequestFacts ==
    ASSUME NEW T, Lines(T), NEW reset \in BOOLEAN, Request(reset)
    PROVE  /\ Lines(T)' /\ mounted' = mounted
           /\ ~spoiled' => ~spoiled
           /\ ~spoiled' /\ reset => counters' = {}
           /\ ~reset => counters' = counters
           /\ ~spoiled' /\ ~reset => ReadOut'
<1>1. PICK outcome \in Outcome : /\ fdp_stats(reset, outcome)
                                 /\ spoiled' = (spoiled \/ outcome # "executed")
  BY DEF Request
<1>2. ~spoiled' => ~spoiled /\ outcome = "executed" BY <1>1, Zenon
<1>3. mounted' = mounted BY <1>1 DEF fdp_stats
<1> QED BY <1>1, <1>2, <1>3, FdpStatsFacts

\* The host's next line does not change what is printed last in the end.
LEMMA HostPrintsFacts ==
    ASSUME NEW T, Lines(T), HostPrints
    PROVE  /\ Lines(T)' /\ UNCHANGED <<mounted, counters, spoiled>>
           /\ ReadOut => ReadOut'
<1>1. /\ unprinted # <<>> /\ printed' = <<Head(unprinted)>> /\ unprinted' = Tail(unprinted)
      /\ UNCHANGED <<mounted, counters, spoiled>>
  BY DEF HostPrints
<1>2. Head(unprinted) \in SUBSET T /\ Tail(unprinted) \in Seq(SUBSET T) BY <1>1 DEF Lines
<1>3. <<Head(unprinted)>> \in Seq(SUBSET T) BY <1>2
<1>4. ASSUME ReadOut PROVE ReadOut'
  <2>1. unprinted[Len(unprinted)] = counters BY <1>1, <1>4 DEF ReadOut
  <2> DEFINE n == Len(unprinted)
             rest == Tail(unprinted)
  <2>2. unprinted \in Seq(SUBSET T) /\ unprinted # <<>> BY <1>1 DEF Lines
  <2>3. /\ n \in Nat /\ n > 0 /\ Head(unprinted) = unprinted[1]
        /\ rest \in Seq(SUBSET T) /\ Len(rest) = n - 1
        /\ \A i \in 1 .. Len(rest) : rest[i] = unprinted[i + 1]
    BY <2>2
  <2>4. unprinted' = rest /\ printed' = <<unprinted[1]>> /\ unprinted[n] = counters /\ counters' = counters
    BY <1>1, <2>1, <2>3
  <2> HIDE DEF n, rest
  <2>5. CASE n = 1
    <3>1. rest = <<>> BY <2>3, <2>5
    <3> QED BY <2>4, <2>5, <3>1 DEF ReadOut
  <2>6. CASE n > 1
    <3>1. rest # <<>> /\ Len(rest) \in 1 .. Len(rest) BY <2>3, <2>6
    <3>2. rest[Len(rest)] = unprinted[n] BY <2>3, <3>1
    <3> QED BY <2>4, <3>1, <3>2 DEF ReadOut
  <2> QED BY <2>3, <2>5, <2>6
<1> QED BY <1>1, <1>2, <1>3, <1>4 DEF Lines

\* What get_waf_from_host returns in a round that is not spoiled is what the
\* counters counted, when the counters had been read.
LEMMA GetWafFacts ==
    ASSUME NEW T, Lines(T), NEW waf, get_waf_from_host(waf)
    PROVE  /\ waf \in Seq(SUBSET T)
           /\ Lines(T)' /\ UNCHANGED <<mounted, counters>>
           /\ ~spoiled' => ~spoiled
           /\ (~spoiled => ReadOut) => waf \in {<<>>, Unreliable, <<counters>>}
<1>1. /\ spoiled' <=> (spoiled \/ unprinted # <<>>)
      /\ UNCHANGED <<mounted, counters, unprinted, printed>>
      /\ waf = <<>> \/ (spoiled' /\ printed # <<>> /\ waf = Unreliable)
            \/ (~(spoiled' /\ printed # <<>>) /\ waf = printed)
  BY DEF get_waf_from_host
<1>2. <<>> \in Seq(SUBSET T) /\ Unreliable \in Seq(SUBSET T) BY DEF Unreliable
<1>3. waf \in Seq(SUBSET T) /\ Lines(T)' BY <1>1, <1>2 DEF Lines
<1>4. ASSUME ~spoiled => ReadOut PROVE waf \in {<<>>, Unreliable, <<counters>>}
  <2>1. ASSUME ~spoiled' PROVE printed = <<counters>>
    BY <1>1, <1>4, <2>1 DEF ReadOut
  <2> QED BY <1>1, <2>1
<1> QED BY <1>1, <1>3, <1>4
=============================================================================
