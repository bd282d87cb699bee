--------------------------- MODULE SuiBenchProofs ---------------------------
(***************************************************************************)
(* Proofs about the two Sui benchmark scripts: the environments, what a    *)
(* published WAF counts, the averages, and that the results are used as    *)
(* Rounds says, for any number of rounds, throughputs and durations, any   *)
(* number of invocations and any delay of the host.                        *)
(***************************************************************************)
EXTENDS SuiBench, FemuStatsProofs

-----------------------------------------------------------------------------
(* Types, and what a step does to the record of the script *)

Rest == {<<"nofdp", "fdp">>, <<"nofdp">>, <<"fdp">>, <<>>}

\* The writes there can be, and the values that can be read of the counters.
Written == [run : Nat, label : Label, part : Int]
Wafs == Seq(SUBSET Written)

ScriptState ==
    [run : Nat, mode : {"nofdp", "fdp", "both", "compare"}, todo : Rest, at : 0 .. 9,
     exported : BOOLEAN, old : BOOLEAN]

Sums == [rounds : Nat, total_tx : Nat, tps_sum : Nat, tps_count : Nat, secs : Nat, tps : SUBSET Nat]
Result == [run : Nat, waf : Wafs, txs : Nat, avg : Nat, rate : Seq(Nat), tps : SUBSET Nat, rounds : Nat, secs : Nat]

Shape ==
    /\ sh \in ScriptState /\ sums \in Sums /\ waf \in Wafs
    /\ results \in [Label -> Result]
    /\ Lines(Written)

\* The rounds still to do follow from the mode.
TodoInv ==
    /\ sh.at = 0 => sh.todo = <<>>
    /\ sh.at > 0 => \/ sh.mode = "both" /\ sh.todo = <<"nofdp", "fdp">>
                    \/ sh.mode = "both" /\ sh.todo = <<"fdp">>
                    \/ sh.mode = "nofdp" /\ sh.todo = <<"nofdp">>
                    \/ sh.mode = "fdp" /\ sh.todo = <<"fdp">>

LEMMA LabelFacts ==
    ASSUME TodoInv, sh.at > 0
    PROVE  /\ label \in Label
           /\ \/ sh.mode = "both" /\ label = "nofdp" /\ Len(sh.todo) = 2 /\ Tail(sh.todo) = <<"fdp">> /\ sh.todo # <<"fdp">>
              \/ /\ label = "fdp" /\ Len(sh.todo) = 1 /\ Tail(sh.todo) = <<>> /\ sh.todo = <<"fdp">>
                 /\ sh.mode \in {"both", "fdp"}
              \/ sh.mode = "nofdp" /\ label = "nofdp" /\ Len(sh.todo) = 1 /\ Tail(sh.todo) = <<>> /\ sh.todo # <<"fdp">>
<1>1. /\ Head(<<"nofdp", "fdp">>) = "nofdp" /\ Tail(<<"nofdp", "fdp">>) = <<"fdp">> /\ Len(<<"nofdp", "fdp">>) = 2
      /\ Head(<<"nofdp">>) = "nofdp" /\ Tail(<<"nofdp">>) = <<>> /\ Len(<<"nofdp">>) = 1
      /\ Head(<<"fdp">>) = "fdp" /\ Tail(<<"fdp">>) = <<>> /\ Len(<<"fdp">>) = 1
      /\ <<"nofdp">> # <<"fdp">> /\ <<"nofdp", "fdp">> # <<"fdp">>
  OBVIOUS
<1> QED BY <1>1, Zenon DEF TodoInv, label, Label

\* Where a step is in the two scripts.
LEMMA AtFacts ==
    ASSUME sh \in ScriptState
    PROVE  /\ Len(Steps) = 9
           /\ At("clear") => sh.at = IF sh.old THEN 4 ELSE 1
           /\ At("prepare") => sh.at = IF sh.old THEN 1 ELSE 2
           /\ At("reset") => sh.at = IF sh.old THEN 2 ELSE 3
           /\ At("setup") => sh.at = IF sh.old THEN 3 ELSE 4
           /\ At("rounds") => sh.at = 5
           /\ At("snapshot") => sh.at = 6
           /\ At("waf") => sh.at = 7
           /\ At("metrics") => sh.at = IF sh.old THEN 8 ELSE 9
           /\ At("teardown") => sh.at = IF sh.old THEN 9 ELSE 8
<1>1. sh.at \in 0 .. 9 BY Zenon DEF ScriptState
<1>2. CASE sh.old
  <2>1. Steps = <<"prepare", "reset", "setup", "clear", "rounds", "snapshot", "waf", "metrics", "teardown">>
    BY <1>2, Zenon DEF Steps
  <2>a. Len(Steps) = 9 BY <2>1, Zenon
  <2>2. /\ Steps[1] = "prepare" /\ Steps[2] = "reset" /\ Steps[3] = "setup" /\ Steps[4] = "clear" /\ Steps[5] = "rounds"
        /\ Steps[6] = "snapshot" /\ Steps[7] = "waf" /\ Steps[8] = "metrics" /\ Steps[9] = "teardown"
    BY <2>1, Zenon
  <2>3. ASSUME sh.at > 0 PROVE sh.at \in {1, 2, 3, 4, 5, 6, 7, 8, 9} BY <1>1, <2>3
  <2> QED BY <1>2, <2>2, <2>3, <2>a, Zenon DEF At
<1>3. CASE ~sh.old
  <2>1. Steps = <<"clear", "prepare", "reset", "setup", "rounds", "snapshot", "waf", "teardown", "metrics">>
    BY <1>3, Zenon DEF Steps
  <2>a. Len(Steps) = 9 BY <2>1, Zenon
  <2>2. /\ Steps[1] = "clear" /\ Steps[2] = "prepare" /\ Steps[3] = "reset" /\ Steps[4] = "setup" /\ Steps[5] = "rounds"
        /\ Steps[6] = "snapshot" /\ Steps[7] = "waf" /\ Steps[8] = "teardown" /\ Steps[9] = "metrics"
    BY <2>1, Zenon
  <2>3. ASSUME sh.at > 0 PROVE sh.at \in {1, 2, 3, 4, 5, 6, 7, 8, 9} BY <1>1, <2>3
  <2> QED BY <1>3, <2>2, <2>3, <2>a, Zenon DEF At
<1> QED BY <1>2, <1>3, Zenon

Same == sh' \in ScriptState /\ sh'.run = sh.run /\ sh'.old = sh.old /\ sh'.exported = sh.exported

\* The script goes to its next step, dies, or is done with a configuration.
NextStep == Same /\ sh'.at = sh.at + 1 /\ sh'.todo = sh.todo /\ sh'.mode = sh.mode
Dies == Same /\ sh'.at = 0 /\ sh'.todo = <<>> /\ sh'.mode = sh.mode
NextConfig ==
    /\ Same /\ sh'.todo = Tail(sh.todo) /\ sh'.at = IF Len(sh.todo) > 1 THEN 1 ELSE 0
    /\ sh'.mode = IF Len(sh.todo) = 1 /\ sh.mode = "both" THEN "compare" ELSE sh.mode

LEMMA AdvanceFacts ==
    ASSUME sh \in ScriptState, TodoInv, sh.at > 0, Advance
    PROVE  /\ sh.at < 9 => NextStep
           /\ sh.at = 9 => NextConfig
<1>0. sh.at \in 0 .. 9 /\ Len(Steps) = 9 BY AtFacts, Zenon DEF ScriptState
<1>1. ASSUME sh.at < 9 PROVE NextStep
  <2> DEFINE to == sh.at + 1
  <2>1. sh' = [sh EXCEPT !.at = to] BY <1>0, <1>1, Zenon DEF Advance
  <2>2. to \in 0 .. 9 BY <1>0, <1>1
  <2>3. NextStep <=> Same /\ sh'.at = to /\ sh'.todo = sh.todo /\ sh'.mode = sh.mode BY Zenon DEF NextStep
  <2> HIDE DEF to
  <2> QED BY <2>1, <2>2, <2>3, Zenon DEF Same, ScriptState
<1>2. ASSUME sh.at = 9 PROVE NextConfig
  <2> DEFINE rest == Tail(sh.todo)
             to == IF Len(sh.todo) > 1 THEN 1 ELSE 0
             mode == IF Len(sh.todo) = 1 /\ sh.mode = "both" THEN "compare" ELSE sh.mode
  <2>1. sh' = [sh EXCEPT !.todo = rest, !.at = to, !.mode = mode] BY <1>0, <1>2 DEF Advance, ScriptState
  <2>2. rest \in Rest BY LabelFacts, Zenon DEF Rest
  <2>3. to \in 0 .. 9 OBVIOUS
  <2>4. mode \in {"nofdp", "fdp", "both", "compare"} BY Zenon DEF ScriptState
  <2>5. NextConfig <=> Same /\ sh'.todo = rest /\ sh'.at = to /\ sh'.mode = mode BY Zenon DEF NextConfig
  <2> HIDE DEF rest, to, mode
  <2> QED BY <2>1, <2>2, <2>3, <2>4, <2>5, Zenon DEF Same, ScriptState
<1> QED BY <1>1, <1>2, Zenon

LEMMA DieFacts == ASSUME sh \in ScriptState, Die PROVE Dies
<1>1. <<>> \in Rest BY Zenon DEF Rest
<1>2. 0 \in 0 .. 9 OBVIOUS
<1>3. sh' = [sh EXCEPT !.at = 0, !.todo = <<>>] BY Zenon DEF Die
<1>4. sh' \in ScriptState BY <1>1, <1>2, <1>3, Zenon DEF ScriptState
<1>5. sh'.at = 0 /\ sh'.todo = <<>> /\ sh'.mode = sh.mode /\ sh'.run = sh.run /\ sh'.old = sh.old /\ sh'.exported = sh.exported
  BY <1>3, Zenon DEF ScriptState
<1> QED BY <1>4, <1>5, Zenon DEF Dies, Same

\* The file system is ready and the environment set.
Prepared ==
    /\ sh' \in ScriptState /\ sh'.run = sh.run /\ sh'.old = sh.old /\ sh'.todo = sh.todo /\ sh'.mode = sh.mode
    /\ sh'.at = sh.at + 1 /\ (~sh.old => (sh'.exported <=> label = "fdp"))

\* What the steps do to the record of the script, and where they are taken.
LEMMA ScriptSteps ==
    ASSUME Shape, TodoInv
    PROVE  /\ Clear => sh.at = (IF sh.old THEN 4 ELSE 1) /\ NextStep
           /\ Prepare => sh.at = (IF sh.old THEN 1 ELSE 2) /\ (Prepared \/ Dies)
           /\ Reset => sh.at = (IF sh.old THEN 2 ELSE 3) /\ (NextStep \/ Dies)
           /\ Setup => sh.at = (IF sh.old THEN 3 ELSE 4) /\ (NextStep \/ Dies)
           /\ Round => sh.at = 5 /\ (sh' = sh \/ Dies)
           /\ EndRounds => sh.at = 5 /\ NextStep
           /\ Snapshot => sh.at = 6 /\ NextStep
           /\ ReadWaf => sh.at = 7 /\ NextStep
           /\ Teardown => IF sh.old THEN sh.at = 9 /\ NextConfig ELSE sh.at = 8 /\ NextStep
           /\ SaveMetrics => IF sh.old THEN sh.at = 8 /\ NextStep ELSE sh.at = 9 /\ NextConfig
<1>0. sh \in ScriptState /\ sh.old \in BOOLEAN /\ sh.at \in 0 .. 9 BY Zenon DEF Shape, ScriptState
<1>a. ASSUME NEW s, At(s), Advance PROVE (sh.at < 9 => NextStep) /\ (sh.at = 9 => NextConfig)
  BY <1>0, <1>a, AdvanceFacts, Zenon DEF At
<1>1. Clear => sh.at = (IF sh.old THEN 4 ELSE 1) /\ NextStep BY <1>0, <1>a, AtFacts DEF Clear
<1>2. ASSUME Prepare PROVE sh.at = (IF sh.old THEN 1 ELSE 2) /\ (Prepared \/ Dies)
  <2>1. At("prepare") /\ (sh' = [sh EXCEPT !.at = @ + 1, !.exported = set_sui_fdp_env] \/ Die)
    BY <1>2, Zenon DEF Prepare
  <2>2. sh.at = IF sh.old THEN 1 ELSE 2 BY <1>0, <2>1, AtFacts, Zenon
  <2>3. ASSUME sh' = [sh EXCEPT !.at = @ + 1, !.exported = set_sui_fdp_env] PROVE Prepared
    <3> DEFINE to == sh.at + 1
               env == set_sui_fdp_env
    <3>1. sh' = [sh EXCEPT !.at = to, !.exported = env] BY <1>0, <2>3, Zenon DEF ScriptState
    <3>2. to \in 0 .. 9 BY <1>0, <2>2
    <3>3. env \in BOOLEAN /\ (~sh.old => (env <=> label = "fdp")) BY <1>0, Zenon DEF set_sui_fdp_env, ScriptState
    <3> HIDE DEF to, env
    <3>4. /\ sh' \in ScriptState /\ sh'.run = sh.run /\ sh'.old = sh.old /\ sh'.todo = sh.todo /\ sh'.mode = sh.mode
          /\ sh'.at = to /\ sh'.exported = env
      BY <1>0, <3>1, <3>2, <3>3, Zenon DEF ScriptState
    <3> QED BY <3>3, <3>4, Zenon DEF Prepared, to
  <2> QED BY <1>0, <2>1, <2>2, <2>3, DieFacts, Zenon
<1>3. Reset => sh.at = (IF sh.old THEN 2 ELSE 3) /\ (NextStep \/ Dies)
  <2>1. Reset => At("reset") /\ (Advance \/ Die) BY Zenon DEF Reset
  <2> QED BY <1>0, <1>a, <2>1, AtFacts, DieFacts
<1>4. Setup => sh.at = (IF sh.old THEN 3 ELSE 4) /\ (NextStep \/ Dies)
  <2>1. Setup => At("setup") /\ (Advance \/ Die) BY Zenon DEF Setup
  <2> QED BY <1>0, <1>a, <2>1, AtFacts, DieFacts
<1>5. Round => sh.at = 5 /\ (sh' = sh \/ Dies)
  <2>1. Round => At("rounds") /\ (UNCHANGED sh \/ Die) BY Zenon DEF Round
  <2> QED BY <1>0, <2>1, AtFacts, DieFacts, Zenon
<1>6. EndRounds => sh.at = 5 /\ NextStep BY <1>0, <1>a, AtFacts DEF EndRounds
<1>7. Snapshot => sh.at = 6 /\ NextStep BY <1>0, <1>a, AtFacts DEF Snapshot
<1>8. ReadWaf => sh.at = 7 /\ NextStep BY <1>0, <1>a, AtFacts DEF ReadWaf
<1>9. Teardown => IF sh.old THEN sh.at = 9 /\ NextConfig ELSE sh.at = 8 /\ NextStep
  <2>1. Teardown => At("teardown") /\ Advance BY Zenon DEF Teardown
  <2> QED BY <1>0, <1>a, <2>1, AtFacts
<1>10. SaveMetrics => IF sh.old THEN sh.at = 8 /\ NextStep ELSE sh.at = 9 /\ NextConfig
  <2>1. SaveMetrics => At("metrics") /\ Advance BY Zenon DEF SaveMetrics
  <2> QED BY <1>0, <1>a, <2>1, AtFacts
<1> QED BY <1>1, <1>2, <1>3, <1>4, <1>5, <1>6, <1>7, <1>8, <1>9, <1>10, Zenon

\* The next invocation starts on the configurations its mode asks for.
LEMMA StartFacts ==
    ASSUME sh \in ScriptState, StartRun
    PROVE  /\ sh.at = 0 /\ sh' \in ScriptState /\ sh'.run = sh.run + 1 /\ sh'.at = 1 /\ sh'.old = sh.old
           /\ \/ sh'.mode = "both" /\ sh'.todo = <<"nofdp", "fdp">>
              \/ sh'.mode = "nofdp" /\ sh'.todo = <<"nofdp">>
              \/ sh'.mode = "fdp" /\ sh'.todo = <<"fdp">>
<1>1. PICK mode \in DOMAIN Asked, exported \in BOOLEAN :
         sh' = [sh EXCEPT !.run = @ + 1, !.mode = mode, !.todo = Asked[mode], !.at = 1, !.exported = exported]
  BY Zenon DEF StartRun
<1>2. \/ mode = "both" /\ Asked[mode] = <<"nofdp", "fdp">>
      \/ mode = "nofdp" /\ Asked[mode] = <<"nofdp">>
      \/ mode = "fdp" /\ Asked[mode] = <<"fdp">>
  BY DEF Asked
<1> DEFINE next == sh.run + 1
           todo == Asked[mode]
<1>3. sh' = [sh EXCEPT !.run = next, !.mode = mode, !.todo = todo, !.at = 1, !.exported = exported]
  BY <1>1, Zenon DEF ScriptState
<1>4. next \in Nat /\ 1 \in 0 .. 9 BY DEF ScriptState
<1>5. todo \in Rest /\ mode \in {"nofdp", "fdp", "both", "compare"} BY <1>2, Zenon DEF Rest
<1> HIDE DEF next, todo
<1>6. /\ sh' \in ScriptState /\ sh'.run = next /\ sh'.at = 1 /\ sh'.old = sh.old
      /\ sh'.mode = mode /\ sh'.todo = todo
  BY <1>3, <1>4, <1>5, Zenon DEF ScriptState
<1> QED BY <1>2, <1>6, Zenon DEF StartRun, next, todo

\* The comparison is made once.
LEMMA CompareFacts ==
    ASSUME sh \in ScriptState, Compare
    PROVE  /\ sh.mode = "compare" /\ sh' \in ScriptState /\ sh'.mode = "both"
           /\ sh'.run = sh.run /\ sh'.at = sh.at /\ sh'.todo = sh.todo /\ sh'.old = sh.old /\ sh'.exported = sh.exported
BY Zenon DEF Compare, ScriptState

-----------------------------------------------------------------------------
(* The inductive invariant *)

\* The result of the configuration that is being measured has been discarded, an
\* earlier one of the two is this invocation's, and the script compares when both are.
RoundsInv ==
    /\ sh.at > 0 =>
          /\ sh.mode = "both" /\ sh.todo = <<"fdp">> => results["nofdp"].run = sh.run
          /\ ~sh.old /\ sh.at > 1 => results[label].run = 0
          /\ sh.old /\ sh.at > 4 => results[label].run = IF sh.at = 9 THEN sh.run ELSE 0
    /\ sh.mode = "compare" => sh.at = 0 /\ \A l \in Label : results[l].run = sh.run

\* bench.sh has exported the variables of the configuration it runs.
EnvInv ==
    /\ EnvironmentsSeparate
    /\ ~sh.old /\ sh.at \in {3, 4, 5} => (sh.exported <=> label = "fdp")

\* The extremes of the throughputs printed bound their sum.
Between(lo, hi) == lo * sums.tps_count <= sums.tps_sum /\ sums.tps_sum <= hi * sums.tps_count

SumsInv ==
    /\ sh.at \in 0 .. 4 => sums = NoSums
    /\ sums.rounds <= NUM_ROUNDS
    /\ sh.at \in 6 .. 9 => sums.rounds = NUM_ROUNDS
    /\ sums.total_tx = sums.rounds * TxPerRound
    /\ sums.tps_count = 0 <=> sums.tps = {}
    /\ sums.tps_count = 0 => sums.tps_sum = 0
    /\ sums.tps # {} => \E lo, hi \in sums.tps : Between(lo, hi)

\* The writes of the setup and of the first n rounds.
Work(n) == [run : {sh.run}, label : {label}, part : 0 .. n]

\* In a configuration that is not spoiled the counters count the setup and the
\* rounds so far, and at the end a line that says so is the last one of the log.
CountInv ==
    /\ ~spoiled =>
          /\ sh.at = (IF sh.old THEN 3 ELSE 4) => counters = {}
          /\ sh.old /\ sh.at = 4 => counters = Work(0)
          /\ sh.at = 5 => counters = Work(sums.rounds)
          /\ sh.at \in {6, 7} => counters = Work(NUM_ROUNDS)
          /\ sh.at = 7 => ReadOut
    /\ sh.at \in {8, 9} => waf \in {<<>>, Unreliable, <<Work(NUM_ROUNDS)>>}

-----------------------------------------------------------------------------
(* The loop over the rounds *)

\* One round more, which printed no throughput or one.
OneMore ==
    /\ sums' \in Sums
    /\ sums'.rounds = sums.rounds + 1 /\ sums'.total_tx = sums.total_tx + TxPerRound
    /\ \/ sums'.tps_sum = sums.tps_sum /\ sums'.tps_count = sums.tps_count /\ sums'.tps = sums.tps
       \/ \E t \in Nat : /\ sums'.tps_sum = sums.tps_sum + t /\ sums'.tps_count = sums.tps_count + 1
                         /\ sums'.tps = sums.tps \cup {t}

LEMMA NoSumsFacts ==
    /\ NoSums \in Sums /\ NoSums.rounds = 0 /\ NoSums.total_tx = 0 /\ NoSums.tps_count = 0 /\ NoSums.tps_sum = 0
    /\ NoSums.tps = {}
BY Zenon DEF NoSums, Sums

LEMMA RoundFacts ==
    ASSUME Shape, TodoInv, Round
    PROVE  /\ sh.at = 5 /\ sums.rounds < NUM_ROUNDS
           /\ counters' = counters \cup {Token(sums.rounds + 1)}
           /\ UNCHANGED <<mounted, unprinted, printed, spoiled, results, report>>
           /\ \/ Dies /\ sums' = NoSums /\ waf' = <<>>
              \/ sh' = sh /\ waf' = waf /\ OneMore
<1>0. sh \in ScriptState /\ sums \in Sums BY Zenon DEF Shape
<1>1. sh.at = 5 /\ sums.rounds < NUM_ROUNDS BY ScriptSteps, Zenon DEF Round, MoreRounds
<1>2. /\ counters' = counters \cup {Token(sums.rounds + 1)}
      /\ UNCHANGED <<mounted, unprinted, printed, spoiled, results, report>>
  BY Zenon DEF Round, Write
<1>3. ASSUME Die, Locals PROVE Dies /\ sums' = NoSums /\ waf' = <<>>
  <2>1. Dies BY <1>0, <1>3, DieFacts, Zenon
  <2>2. sh'.at <= 1 BY <2>1 DEF Dies
  <2> QED BY <1>3, <2>1, <2>2, Zenon DEF Locals
<1>4. ASSUME NEW n \in Nat,
             LET made == [sums EXCEPT !.rounds = @ + 1, !.total_tx = @ + TxPerRound, !.secs = @ + n]
             IN  \/ sums' = made
                 \/ \E t \in Tps :
                       sums' = [made EXCEPT !.tps_sum = @ + t, !.tps_count = @ + 1, !.tps = @ \cup {t}]
      PROVE  OneMore
  <2>0. TxPerRound \in Nat /\ Tps \subseteq Nat BY SuiBenchAssumption, Zenon
  <2> DEFINE a == sums.rounds + 1
             b == sums.total_tx + TxPerRound
             c == sums.secs + n
             made == [sums EXCEPT !.rounds = a, !.total_tx = b, !.secs = c]
  <2>1. a \in Nat /\ b \in Nat /\ c \in Nat BY <1>0, <2>0 DEF Sums
  <2>2. \/ sums' = made
        \/ \E t \in Tps :
              sums' = [made EXCEPT !.tps_sum = @ + t, !.tps_count = @ + 1, !.tps = @ \cup {t}]
    BY <1>0, <1>4, Zenon DEF Sums
  <2> HIDE DEF a, b, c
  <2>3. /\ made \in Sums /\ made.rounds = a /\ made.total_tx = b /\ made.tps_sum = sums.tps_sum
        /\ made.tps_count = sums.tps_count /\ made.tps = sums.tps
    BY <1>0, <2>1, Zenon DEF Sums
  <2> HIDE DEF made
  <2>4. CASE sums' = made BY <2>3, <2>4, Zenon DEF OneMore, a, b
  <2>5. ASSUME NEW t \in Tps, sums' = [made EXCEPT !.tps_sum = @ + t, !.tps_count = @ + 1, !.tps = @ \cup {t}]
        PROVE  OneMore
    <3> DEFINE d == made.tps_sum + t
               e == made.tps_count + 1
               f == made.tps \cup {t}
    <3>1. d \in Nat /\ e \in Nat /\ f \in SUBSET Nat BY <2>0, <2>3 DEF Sums
    <3>2. sums' = [made EXCEPT !.tps_sum = d, !.tps_count = e, !.tps = f] BY <2>3, <2>5, Zenon DEF Sums
    <3> HIDE DEF d, e, f
    <3>3. /\ sums' \in Sums /\ sums'.rounds = a /\ sums'.total_tx = b
          /\ sums'.tps_sum = d /\ sums'.tps_count = e /\ sums'.tps = f
      BY <2>3, <3>1, <3>2, Zenon DEF Sums
    <3> QED BY <2>0, <2>3, <3>3, Zenon DEF OneMore, a, b, d, e, f
  <2> QED BY <2>2, <2>4, <2>5, Zenon
<1>5. \/ Die /\ Locals
      \/ /\ UNCHANGED <<sh, waf>>
         /\ \E n \in Seconds :
               LET made == [sums EXCEPT !.rounds = @ + 1, !.total_tx = @ + TxPerRound, !.secs = @ + n]
               IN  \/ sums' = made
                   \/ \E t \in Tps :
                         sums' = [made EXCEPT !.tps_sum = @ + t, !.tps_count = @ + 1, !.tps = @ \cup {t}]
  BY Zenon DEF Round
<1>6. Seconds \subseteq Nat BY SuiBenchAssumption, Zenon
<1> QED BY <1>1, <1>2, <1>3, <1>4, <1>5, <1>6, Zenon

LEMMA ScriptTyped ==
    ASSUME Shape, TodoInv, [Next]_vars
    PROVE  sh' \in ScriptState
<1>0. sh \in ScriptState BY Zenon DEF Shape
<1>1. ASSUME NextStep \/ Dies \/ NextConfig \/ Prepared \/ sh' = sh PROVE sh' \in ScriptState
  BY <1>0, <1>1, Zenon DEF NextStep, Dies, NextConfig, Prepared, Same
<1>2. CASE StartRun BY <1>0, <1>2, StartFacts, Zenon
<1>3. CASE Compare BY <1>0, <1>3, CompareFacts, Zenon
<1>4. CASE Prints \/ UNCHANGED vars BY <1>1, <1>4, Zenon DEF Prints, vars
<1>5. ASSUME \/ Clear \/ Prepare \/ Reset \/ Setup \/ Round \/ EndRounds \/ Snapshot \/ ReadWaf \/ Teardown
             \/ SaveMetrics
      PROVE  NextStep \/ Dies \/ NextConfig \/ Prepared \/ sh' = sh
  BY <1>5, ScriptSteps, Zenon
<1> QED BY <1>1, <1>2, <1>3, <1>4, <1>5, Zenon DEF Next

\* The script goes forward one step at a time, and leaves the loop when it is done.
LEMMA Forward ==
    ASSUME Shape, TodoInv, [Next]_vars
    PROVE  /\ sh'.at \in {0, 1} \/ sh'.at = sh.at \/ sh'.at = sh.at + 1
           /\ sh.at = 5 /\ sh'.at = 6 => sums.rounds = NUM_ROUNDS
<1>0. sh \in ScriptState /\ sh.at \in 0 .. 9 BY Zenon DEF Shape, ScriptState
<1>1. ASSUME NextStep \/ Dies \/ NextConfig \/ Prepared \/ sh' = sh
      PROVE  sh'.at \in {0, 1} \/ sh'.at = sh.at \/ sh'.at = sh.at + 1
  BY <1>1, Zenon DEF NextStep, Dies, NextConfig, Prepared
<1>2. CASE StartRun BY <1>0, <1>2, StartFacts
<1>3. CASE Compare BY <1>0, <1>3, CompareFacts
<1>4. CASE Prints \/ UNCHANGED vars
  <2>1. sh' = sh BY <1>4, Zenon DEF Prints, vars
  <2> QED BY <1>0, <2>1
<1>5. CASE EndRounds
  <2>1. sums.rounds = NUM_ROUNDS BY <1>5, Zenon DEF EndRounds
  <2> QED BY <1>1, <1>5, <2>1, ScriptSteps, Zenon
<1>6. CASE Round
  <2>1. sh' = sh \/ sh'.at = 0 BY <1>6, RoundFacts, Zenon DEF Dies
  <2> QED BY <1>0, <2>1
<1>7. ASSUME Clear \/ Prepare \/ Reset \/ Setup \/ Snapshot \/ ReadWaf \/ Teardown \/ SaveMetrics
      PROVE  sh.at # 5 /\ (NextStep \/ Dies \/ NextConfig \/ Prepared)
  BY <1>7, <1>0, ScriptSteps DEF ScriptState
<1> QED BY <1>1, <1>2, <1>3, <1>4, <1>5, <1>6, <1>7, Zenon DEF Next

\* Every other step leaves the variables of the loop alone, or ends the function.
Kept == IF sh'.at <= 1 THEN sums' = NoSums ELSE sums' = sums

LEMMA KeptSteps ==
    ASSUME Shape, TodoInv, RoundsInv, SumsInv, [Next]_vars
    PROVE  Round \/ Kept
<1>0. sh \in ScriptState /\ sh.at \in 0 .. 9 BY Zenon DEF Shape, ScriptState
<1>a. sh'.at \in 0 .. 9 BY ScriptTyped, Zenon DEF ScriptState
<1>1. ASSUME sums' = sums, sh'.at > 1 \/ sh.at <= 1 PROVE Kept
  <2>1. CASE sh'.at > 1 BY <1>a, <1>1, <2>1 DEF Kept
  <2>2. CASE sh.at <= 1
    <3>1. sums = NoSums BY <1>0, <2>2 DEF SumsInv
    <3> QED BY <1>1, <3>1, Zenon DEF Kept
  <2> QED BY <1>1, <2>1, <2>2, Zenon
<1>2. ASSUME Locals PROVE Kept BY <1>2, Zenon DEF Locals, Kept
<1>3. CASE StartRun
  <2>1. sh.at = 0 /\ sums' = sums BY <1>3, Zenon DEF StartRun
  <2> QED BY <1>1, <2>1
<1>4. CASE Clear
  <2>1. NextStep /\ sh.at >= 1 /\ sums' = sums BY <1>0, <1>4, ScriptSteps DEF Clear
  <2> QED BY <1>0, <1>1, <2>1 DEF NextStep
<1>5. ASSUME Prepare \/ Reset \/ Setup \/ Teardown \/ SaveMetrics PROVE Locals
  BY <1>5, Zenon DEF Prepare, Reset, Setup, Teardown, SaveMetrics
<1>6. ASSUME EndRounds \/ Snapshot \/ ReadWaf PROVE Kept
  <2>1. NextStep /\ sh.at >= 5 BY <1>6, ScriptSteps
  <2>2. sums' = sums BY <1>6, Zenon DEF EndRounds, Snapshot, ReadWaf
  <2> QED BY <1>0, <1>1, <2>1, <2>2 DEF NextStep
<1>7. CASE Compare
  <2>1. sh.mode = "compare" BY <1>7, Zenon DEF Compare
  <2>2. sh.at = 0 BY <2>1, Zenon DEF RoundsInv
  <2> QED BY <1>0, <1>1, <1>7, <2>2 DEF Compare
<1>8. ASSUME Prints \/ UNCHANGED vars PROVE Kept
  <2>1. sh' = sh /\ sums' = sums BY <1>8, Zenon DEF Prints, vars
  <2> QED BY <1>0, <1>1, <2>1
<1> QED BY <1>2, <1>3, <1>4, <1>5, <1>6, <1>7, <1>8, Zenon DEF Next

LEMMA MulMono ==
    ASSUME NEW a \in Nat, NEW b \in Nat, NEW c \in Nat, a <= b
    PROVE  a * c <= b * c
<1>1. PICK d \in Nat : b = a + d
  <2>1. b - a \in Nat /\ b = a + (b - a) OBVIOUS
  <2> QED BY <2>1, Zenon
<1>2. b * c = a * c + d * c BY <1>1
<1>3. d * c >= 0 /\ a * c \in Nat /\ d * c \in Nat BY <1>1
<1> QED BY <1>2, <1>3

\* One throughput more: the extremes still bound the sum.
LEMMA BetweenStep ==
    ASSUME NEW T \in SUBSET Nat, NEW n \in Nat, NEW sum \in Nat, NEW t \in Nat,
           n = 0 <=> T = {}, n = 0 => sum = 0,
           T # {} => \E lo, hi \in T : lo * n <= sum /\ sum <= hi * n
    PROVE  \E lo, hi \in T \cup {t} : lo * (n + 1) <= sum + t /\ sum + t <= hi * (n + 1)
<1>1. CASE T = {}
  <2>1. t * (n + 1) = t /\ sum + t = t BY <1>1
  <2> QED BY <2>1
<1>2. CASE T # {}
  <2>1. PICK lo \in T, hi \in T : lo * n <= sum /\ sum <= hi * n BY <1>2, Zenon
  <2>2. lo \in Nat /\ hi \in Nat BY Zenon
  <2>3. \E x \in T \cup {t} : x * (n + 1) <= sum + t
    <3>1. CASE lo <= t
      <4>1. lo * (n + 1) = lo * n + lo /\ lo * n \in Nat BY <2>2
      <4>2. lo * (n + 1) <= sum + t BY <2>1, <2>2, <3>1, <4>1
      <4> QED BY <4>2, Zenon
    <3>2. CASE t <= lo
      <4>1. t * n <= lo * n BY <2>2, <3>2, MulMono, Zenon
      <4>2. t * (n + 1) = t * n + t /\ t * n \in Nat /\ lo * n \in Nat BY <2>2
      <4>3. t * (n + 1) <= sum + t BY <2>1, <4>1, <4>2
      <4> QED BY <4>3, Zenon
    <3> QED BY <2>2, <3>1, <3>2
  <2>4. \E x \in T \cup {t} : sum + t <= x * (n + 1)
    <3>1. CASE t <= hi
      <4>1. hi * (n + 1) = hi * n + hi /\ hi * n \in Nat BY <2>2
      <4>2. sum + t <= hi * (n + 1) BY <2>1, <2>2, <3>1, <4>1
      <4> QED BY <4>2, Zenon
    <3>2. CASE hi <= t
      <4>1. hi * n <= t * n BY <2>2, <3>2, MulMono, Zenon
      <4>2. t * (n + 1) = t * n + t /\ t * n \in Nat /\ hi * n \in Nat BY <2>2
      <4>3. sum + t <= t * (n + 1) BY <2>1, <4>1, <4>2
      <4> QED BY <4>3, Zenon
    <3> QED BY <2>2, <3>1, <3>2
  <2> QED BY <2>3, <2>4, Zenon
<1> QED BY <1>1, <1>2, Zenon

LEMMA SumsStep ==
    ASSUME Shape, TodoInv, RoundsInv, SumsInv, [Next]_vars
    PROVE  SumsInv'
<1>0. sh \in ScriptState /\ sums \in Sums /\ sh.at \in 0 .. 9 BY Zenon DEF Shape, ScriptState
<1>a. NUM_ROUNDS \in Nat \ {0} /\ TxPerRound \in Nat BY SuiBenchAssumption, Zenon
<1>b. sh'.at \in 0 .. 9 BY ScriptTyped, Zenon DEF ScriptState
<1>1. ASSUME sums' = NoSums, sh'.at <= 1 PROVE SumsInv'
  BY <1>1, <1>a, <1>b, NoSumsFacts DEF SumsInv
<1>2. CASE Round
  <2>1. CASE Dies /\ sums' = NoSums BY <1>1, <2>1 DEF Dies
  <2>2. CASE sh' = sh /\ OneMore
    <3>1. sh'.at = 5 /\ sums.rounds < NUM_ROUNDS BY <1>2, <2>2, RoundFacts, Zenon
    <3>2. sums'.rounds = sums.rounds + 1 /\ sums'.rounds \in Nat /\ sums.rounds \in Nat
      BY <1>0, <2>2, Zenon DEF OneMore, Sums
    <3>3. sums'.total_tx = sums'.rounds * TxPerRound
      <4>1. sums'.total_tx = sums.rounds * TxPerRound + TxPerRound BY <2>2, Zenon DEF OneMore, SumsInv
      <4>2. (sums.rounds + 1) * TxPerRound = sums.rounds * TxPerRound + TxPerRound BY <1>a, <3>2
      <4> QED BY <3>2, <4>1, <4>2, Zenon
    <3>4. /\ sums'.tps_count = 0 <=> sums'.tps = {}
          /\ sums'.tps_count = 0 => sums'.tps_sum = 0
          /\ sums'.tps # {} => \E lo, hi \in sums'.tps : lo * sums'.tps_count <= sums'.tps_sum /\ sums'.tps_sum <= hi * sums'.tps_count
      <4>0. /\ sums.tps_count \in Nat /\ sums.tps_sum \in Nat /\ sums.tps \in SUBSET Nat
            /\ sums.tps_count = 0 <=> sums.tps = {}
            /\ sums.tps_count = 0 => sums.tps_sum = 0
            /\ sums.tps # {} => \E lo, hi \in sums.tps : lo * sums.tps_count <= sums.tps_sum /\ sums.tps_sum <= hi * sums.tps_count
        BY <1>0, Zenon DEF Sums, SumsInv, Between
      <4>1. CASE sums'.tps_sum = sums.tps_sum /\ sums'.tps_count = sums.tps_count /\ sums'.tps = sums.tps
        BY <4>0, <4>1, Zenon
      <4>2. ASSUME NEW t \in Nat, sums'.tps_sum = sums.tps_sum + t, sums'.tps_count = sums.tps_count + 1,
                   sums'.tps = sums.tps \cup {t}
            PROVE  /\ sums'.tps_count # 0 /\ sums'.tps # {}
                   /\ \E lo, hi \in sums'.tps : lo * sums'.tps_count <= sums'.tps_sum /\ sums'.tps_sum <= hi * sums'.tps_count
        <5>1. \E lo, hi \in sums.tps \cup {t} :
                 lo * (sums.tps_count + 1) <= sums.tps_sum + t /\ sums.tps_sum + t <= hi * (sums.tps_count + 1)
          BY <4>0, BetweenStep
        <5>2. sums'.tps_count # 0 /\ sums'.tps # {} BY <4>0, <4>2
        <5> QED BY <4>2, <5>1, <5>2
      <4> QED BY <2>2, <4>1, <4>2, Zenon DEF OneMore
    <3> QED BY <1>a, <3>1, <3>2, <3>3, <3>4 DEF SumsInv, Between
  <2> QED BY <1>2, <2>1, <2>2, RoundFacts, Zenon
<1>3. CASE Kept
  <2>1. CASE sh'.at <= 1 BY <1>1, <1>3, <2>1, Zenon DEF Kept
  <2>2. CASE sh'.at > 1
    <3>1. sums' = sums BY <1>3, <1>b, <2>2 DEF Kept
    <3>2. sh'.at \in 0 .. 4 => sh.at \in 0 .. 4 BY <1>0, <1>b, <2>2, Forward
    <3>3. sh'.at \in 6 .. 9 => sh.at \in 6 .. 9 \/ sums.rounds = NUM_ROUNDS BY <1>0, <1>b, <2>2, Forward
    <3> QED BY <3>1, <3>2, <3>3, Zenon DEF SumsInv, Between
  <2> QED BY <1>b, <2>1, <2>2
<1> QED BY <1>2, <1>3, KeptSteps, Zenon

-----------------------------------------------------------------------------
(* The results *)

\* A step within a configuration that neither discards nor publishes its result.
Onward ==
    /\ sh'.run = sh.run /\ sh'.old = sh.old /\ sh'.todo = sh.todo /\ sh'.mode = sh.mode
    /\ sh.at > 0 /\ sh'.at = sh.at + 1 /\ sh.at \notin (IF sh.old THEN {4, 8, 9} ELSE {1, 9})

Quiet == UNCHANGED <<results, report>> /\ (sh' = sh \/ Dies \/ Onward)

LEMMA QuietSteps ==
    ASSUME Shape, TodoInv, [Next]_vars
    PROVE  StartRun \/ Clear \/ SaveMetrics \/ (Teardown /\ sh.old) \/ Compare \/ Quiet
<1>0. sh \in ScriptState /\ sh.old \in BOOLEAN BY Zenon DEF Shape, ScriptState
<1>1. ASSUME NextStep \/ Prepared, sh.at > 0, sh.at \notin (IF sh.old THEN {4, 8, 9} ELSE {1, 9}) PROVE Onward
  BY <1>1, Zenon DEF NextStep, Prepared, Same, Onward
<1>2. CASE Prepare
  <2>1. UNCHANGED <<results, report>> BY <1>2, Zenon DEF Prepare
  <2> QED BY <1>0, <1>1, <1>2, <2>1, ScriptSteps DEF Quiet
<1>3. CASE Reset
  <2>1. UNCHANGED <<results, report>> BY <1>3, Zenon DEF Reset
  <2> QED BY <1>0, <1>1, <1>3, <2>1, ScriptSteps DEF Quiet
<1>4. CASE Setup
  <2>1. UNCHANGED <<results, report>> BY <1>4, Zenon DEF Setup
  <2> QED BY <1>0, <1>1, <1>4, <2>1, ScriptSteps DEF Quiet
<1>5. CASE Round BY <1>5, RoundFacts, Zenon DEF Quiet
<1>6. ASSUME EndRounds \/ Snapshot \/ ReadWaf PROVE Quiet
  <2>1. UNCHANGED <<results, report>> BY <1>6, Zenon DEF EndRounds, Snapshot, ReadWaf
  <2>2. NextStep /\ sh.at \in {5, 6, 7} BY <1>6, ScriptSteps, Zenon
  <2> QED BY <1>0, <1>1, <2>1, <2>2 DEF Quiet
<1>7. CASE Teardown /\ ~sh.old
  <2>1. UNCHANGED <<results, report>> BY <1>7, Zenon DEF Teardown
  <2> QED BY <1>0, <1>1, <1>7, <2>1, ScriptSteps DEF Quiet
<1>8. ASSUME Prints \/ UNCHANGED vars PROVE Quiet
  BY <1>8, Zenon DEF Prints, vars, Quiet
<1> QED BY <1>0, <1>2, <1>3, <1>4, <1>5, <1>6, <1>7, <1>8, Zenon DEF Next

\* What the metrics files of the two configurations say after a step.
LEMMA SaveFacts ==
    ASSUME Shape, TodoInv, SaveMetrics
    PROVE  /\ results' = [results EXCEPT ![label] =
                  [run |-> sh.run, waf |-> waf, txs |-> sums.total_tx, avg |-> Average, rate |-> Rate,
                   tps |-> sums.tps,
                   rounds |-> sums.rounds, secs |-> sums.secs]]
           /\ results'[label].run = sh.run
           /\ \A l \in Label : l # label => results'[l] = results[l]
           /\ label \in Label /\ report' = report
<1>0. results \in [Label -> Result] BY Zenon DEF Shape
<1>1. sh.at > 0 BY ScriptSteps DEF SaveMetrics, Shape, ScriptState
<1>2. label \in Label BY <1>1, LabelFacts, Zenon
<1>3. /\ results' = [results EXCEPT ![label] =
                  [run |-> sh.run, waf |-> waf, txs |-> sums.total_tx, avg |-> Average, rate |-> Rate,
                   tps |-> sums.tps,
                   rounds |-> sums.rounds, secs |-> sums.secs]]
      /\ report' = report
  BY Zenon DEF SaveMetrics
<1> QED BY <1>0, <1>2, <1>3, Zenon

LEMMA ClearFacts ==
    ASSUME Shape, TodoInv, Clear
    PROVE  /\ results' = [results EXCEPT ![label] = NoResult]
           /\ results'[label] = NoResult /\ NoResult.run = 0 /\ NoResult.waf = <<>>
           /\ \A l \in Label : l # label => results'[l] = results[l]
           /\ label \in Label /\ report' = report
<1>0. results \in [Label -> Result] BY Zenon DEF Shape
<1>1. sh.at > 0 BY ScriptSteps DEF Shape, ScriptState
<1>2. label \in Label BY <1>1, LabelFacts, Zenon
<1>3. results' = [results EXCEPT ![label] = NoResult] /\ report' = report BY Zenon DEF Clear
<1>4. NoResult.run = 0 /\ NoResult.waf = <<>> BY Zenon DEF NoResult
<1> QED BY <1>0, <1>2, <1>3, <1>4, Zenon

\* After the last step of a configuration.
LEMMA NextConfigFacts ==
    ASSUME Shape, TodoInv, sh.at = 9, NextConfig
    PROVE  /\ TodoInv'
           /\ \/ /\ sh.mode = "both" /\ label = "nofdp" /\ sh'.mode = "both" /\ sh'.todo = <<"fdp">> /\ sh'.at = 1
              \/ sh.mode = "both" /\ label = "fdp" /\ sh.todo = <<"fdp">> /\ sh'.mode = "compare" /\ sh'.at = 0
              \/ sh.mode # "both" /\ sh'.mode \in {"nofdp", "fdp"} /\ sh'.at = 0
<1>1. sh.at > 0 OBVIOUS
<1>2. \/ /\ sh.mode = "both" /\ label = "nofdp" /\ sh'.mode = "both" /\ sh'.todo = <<"fdp">> /\ sh'.at = 1
      \/ /\ sh.mode = "both" /\ label = "fdp" /\ sh.todo = <<"fdp">> /\ sh'.mode = "compare" /\ sh'.at = 0
         /\ sh'.todo = <<>>
      \/ sh.mode # "both" /\ sh'.mode \in {"nofdp", "fdp"} /\ sh'.at = 0 /\ sh'.todo = <<>>
  <2>1. /\ sh'.todo = Tail(sh.todo) /\ sh'.at = IF Len(sh.todo) > 1 THEN 1 ELSE 0
        /\ sh'.mode = IF Len(sh.todo) = 1 /\ sh.mode = "both" THEN "compare" ELSE sh.mode
    BY Zenon DEF NextConfig
  <2>2. CASE sh.mode = "both" /\ label = "nofdp" /\ Len(sh.todo) = 2 /\ Tail(sh.todo) = <<"fdp">>
    BY <2>1, <2>2
  <2>3. CASE label = "fdp" /\ Len(sh.todo) = 1 /\ Tail(sh.todo) = <<>> /\ sh.todo = <<"fdp">> /\ sh.mode \in {"both", "fdp"}
    BY <2>1, <2>3
  <2>4. CASE sh.mode = "nofdp" /\ Len(sh.todo) = 1 /\ Tail(sh.todo) = <<>>
    BY <2>1, <2>4
  <2> QED BY <1>1, <2>2, <2>3, <2>4, LabelFacts
<1> QED BY <1>2 DEF TodoInv

LEMMA RoundsStep ==
    ASSUME Shape, TodoInv, RoundsInv, [Next]_vars
    PROVE  TodoInv' /\ RoundsInv'
<1>0. /\ sh \in ScriptState /\ sh.old \in BOOLEAN /\ sh.at \in 0 .. 9 /\ results \in [Label -> Result]
      /\ "nofdp" \in Label /\ "fdp" \in Label
  BY Zenon DEF Shape, ScriptState, Label
<1>a. label' = Head(sh'.todo) BY Zenon DEF label
<1>1. CASE StartRun
  <2>1. /\ sh'.at = 1 /\ sh'.old = sh.old
        /\ \/ sh'.mode = "both" /\ sh'.todo = <<"nofdp", "fdp">>
           \/ sh'.mode = "nofdp" /\ sh'.todo = <<"nofdp">>
           \/ sh'.mode = "fdp" /\ sh'.todo = <<"fdp">>
    BY <1>0, <1>1, StartFacts, Zenon
  <2>2. <<"nofdp", "fdp">> # <<"fdp">> BY Zenon
  <2>3. TodoInv' BY <2>1 DEF TodoInv
  <2>4. RoundsInv' BY <2>1, <2>2 DEF RoundsInv
  <2> QED BY <2>3, <2>4, Zenon
<1>2. CASE Clear
  <2>1. /\ sh.at = (IF sh.old THEN 4 ELSE 1) /\ sh'.at = sh.at + 1 /\ sh'.todo = sh.todo /\ sh'.mode = sh.mode
        /\ sh'.old = sh.old /\ sh'.run = sh.run
    BY <1>2, ScriptSteps, Zenon DEF NextStep, Same
  <2>2. sh.at > 0 /\ sh'.at > 0 /\ sh'.at # 9 /\ label' = label BY <1>0, <2>1 DEF label
  <2>3. TodoInv' BY <2>1, <2>2 DEF TodoInv
  <2>4. results'[label].run = 0 BY <1>2, ClearFacts, Zenon
  <2>5. sh.todo = <<"fdp">> => results'["nofdp"] = results["nofdp"] BY <1>0, <1>2, <2>2, ClearFacts, LabelFacts, Zenon
  <2>6. sh.mode # "compare" BY <2>2, Zenon DEF TodoInv
  <2> QED BY <2>1, <2>2, <2>3, <2>4, <2>5, <2>6, Zenon DEF RoundsInv
<1>3. CASE SaveMetrics
  <2>0. sh.at > 0 BY <1>0, <1>3, ScriptSteps
  <2>1. results'[label].run = sh.run /\ \A l \in Label : l # label => results'[l] = results[l] BY <1>3, SaveFacts, Zenon
  <2>2. sh.todo = <<"fdp">> => results'["nofdp"] = results["nofdp"] /\ label = "fdp" BY <1>0, <2>0, <2>1, LabelFacts, Zenon
  <2>3. CASE sh.old
    <3>1. /\ sh.at = 8 /\ sh'.at = 9 /\ sh'.todo = sh.todo /\ sh'.mode = sh.mode /\ sh'.old /\ sh'.run = sh.run
      <4>1. sh.at = 8 /\ NextStep BY <1>0, <1>3, <2>3, ScriptSteps, Zenon
      <4>2. sh'.old = sh.old BY <4>1, Zenon DEF NextStep, Same
      <4>3. sh'.old BY <2>3, <4>2, Zenon
      <4> QED BY <4>1, <4>3 DEF NextStep, Same
    <3>2. label' = label BY <3>1, Zenon DEF label
    <3>3. TodoInv' BY <3>1 DEF TodoInv
    <3>4. sh.mode # "compare" BY <2>0, Zenon DEF TodoInv
    <3> QED BY <2>1, <2>2, <3>1, <3>2, <3>3, <3>4 DEF RoundsInv
  <2>4. CASE ~sh.old
    <3>1. sh.at = 9 /\ NextConfig /\ sh'.run = sh.run BY <1>3, <2>4, ScriptSteps, Zenon DEF NextConfig, Same
    <3>2. TodoInv' BY <3>1, NextConfigFacts, Zenon
    <3>3. CASE sh.mode = "both" /\ label = "nofdp" /\ sh'.mode = "both" /\ sh'.todo = <<"fdp">> /\ sh'.at = 1
      BY <2>1, <3>1, <3>2, <3>3 DEF RoundsInv
    <3>4. CASE sh.mode = "both" /\ label = "fdp" /\ sh.todo = <<"fdp">> /\ sh'.mode = "compare" /\ sh'.at = 0
      <4>1. results'["nofdp"].run = sh.run /\ results'["fdp"].run = sh.run
        BY <2>0, <2>1, <2>2, <3>4, Zenon DEF RoundsInv
      <4> QED BY <3>1, <3>2, <3>4, <4>1 DEF RoundsInv, Label
    <3>5. CASE sh.mode # "both" /\ sh'.mode \in {"nofdp", "fdp"} /\ sh'.at = 0 BY <3>2, <3>5 DEF RoundsInv
    <3> QED BY <3>1, <3>2, <3>3, <3>4, <3>5, NextConfigFacts, Zenon
  <2> QED BY <1>0, <2>3, <2>4, Zenon
<1>4. CASE Teardown /\ sh.old
  <2>1. sh.at = 9 /\ NextConfig /\ sh'.run = sh.run BY <1>4, ScriptSteps, Zenon DEF NextConfig, Same
  <2>2. TodoInv' BY <2>1, NextConfigFacts, Zenon
  <2>3. results' = results BY <1>4, Zenon DEF Teardown
  <2>4. results[label].run = sh.run BY <1>4, <2>1 DEF RoundsInv
  <2>5. CASE sh.mode = "both" /\ label = "nofdp" /\ sh'.mode = "both" /\ sh'.todo = <<"fdp">> /\ sh'.at = 1
    BY <2>1, <2>2, <2>3, <2>4, <2>5 DEF RoundsInv
  <2>6. CASE sh.mode = "both" /\ label = "fdp" /\ sh.todo = <<"fdp">> /\ sh'.mode = "compare" /\ sh'.at = 0
    <3>1. results'["nofdp"].run = sh.run /\ results'["fdp"].run = sh.run
      BY <2>1, <2>3, <2>4, <2>6 DEF RoundsInv
    <3> QED BY <2>1, <2>2, <2>6, <3>1 DEF RoundsInv, Label
  <2>7. CASE sh.mode # "both" /\ sh'.mode \in {"nofdp", "fdp"} /\ sh'.at = 0 BY <2>2, <2>7 DEF RoundsInv
  <2> QED BY <2>1, <2>2, <2>5, <2>6, <2>7, NextConfigFacts, Zenon
<1>5. CASE Compare
  <2>1. sh'.at = sh.at /\ sh'.todo = sh.todo /\ sh'.mode = "both" /\ sh.mode = "compare" BY <1>0, <1>5, CompareFacts, Zenon
  <2>2. sh.at = 0 BY <2>1, Zenon DEF RoundsInv
  <2> QED BY <2>1, <2>2, Zenon DEF TodoInv, RoundsInv
<1>6. CASE Quiet
  <2>1. CASE sh' = sh
    <3>1. label' = label BY <2>1, Zenon DEF label
    <3> QED BY <1>6, <2>1, <3>1, Zenon DEF Quiet, TodoInv, RoundsInv
  <2>2. CASE Dies
    <3>1. sh'.at = 0 /\ sh'.todo = <<>> /\ sh'.mode = sh.mode /\ sh'.run = sh.run /\ results' = results
      BY <1>6, <2>2, Zenon DEF Dies, Same, Quiet
    <3> QED BY <3>1 DEF TodoInv, RoundsInv
  <2>3. CASE Onward
    <3>1. label' = label BY <2>3, Zenon DEF label, Onward
    <3>2. sh'.at > 0 BY <1>0, <2>3 DEF Onward
    <3>3. TodoInv' BY <2>3, <3>2 DEF TodoInv, Onward
    <3>4. sh.mode # "compare" BY <2>3, Zenon DEF TodoInv, Onward
    <3>5. results' = results BY <1>6, Zenon DEF Quiet
    <3>6. RoundsInv' BY <1>0, <2>3, <3>1, <3>4, <3>5 DEF RoundsInv, Onward
    <3> QED BY <3>3, <3>6, Zenon
  <2> QED BY <1>6, <2>1, <2>2, <2>3, Zenon DEF Quiet
<1> QED BY <1>1, <1>2, <1>3, <1>4, <1>5, <1>6, QuietSteps, Zenon

-----------------------------------------------------------------------------
(* The environments *)

LEMMA EnvStep ==
    ASSUME Shape, TodoInv, EnvInv, [Next]_vars
    PROVE  EnvInv'
<1>0. sh \in ScriptState /\ sh.old \in BOOLEAN /\ sh.exported \in BOOLEAN /\ sh.at \in 0 .. 9 BY Zenon DEF Shape, ScriptState
<1>a. ran = {} BY Zenon DEF EnvInv, EnvironmentsSeparate
<1>1. ASSUME Runs, sh.old \/ sh.at \in {3, 4, 5} PROVE ran' = {}
  <2>1. FdpVars <=> label = "fdp"
    <3>1. CASE sh.old BY <3>1, Zenon DEF FdpVars
    <3>2. CASE ~sh.old
      <4>1. sh.exported <=> label = "fdp" BY <1>1, <3>2, Zenon DEF EnvInv
      <4> QED BY <3>2, <4>1, Zenon DEF FdpVars
    <3> QED BY <3>1, <3>2, Zenon
  <2> QED BY <1>a, <1>1, <2>1, Zenon DEF Runs
<1>2. ran' = {}
  <2>1. CASE Setup BY <1>0, <1>1, <2>1, ScriptSteps, Zenon DEF Setup
  <2>2. CASE Round BY <1>1, <2>2, ScriptSteps, Zenon DEF Round
  <2>3. ASSUME \/ StartRun \/ Clear \/ Prepare \/ Reset \/ EndRounds \/ Snapshot \/ ReadWaf \/ Teardown
               \/ SaveMetrics \/ Compare \/ Prints \/ UNCHANGED vars
        PROVE  ran' = ran
    BY <2>3, Zenon DEF StartRun, Clear, Prepare, Reset, EndRounds, Snapshot, ReadWaf, Teardown, SaveMetrics,
        Compare, Prints, vars
  <2> QED BY <1>a, <2>1, <2>2, <2>3, Zenon DEF Next
<1>3. ASSUME ~sh'.old, sh'.at \in {3, 4, 5} PROVE sh'.exported <=> label' = "fdp"
  <2>1. ASSUME sh'.at \in {0, 1} PROVE FALSE BY <1>3, <2>1
  <2>2. ASSUME NextStep, sh.old \/ sh.at \notin {1, 2} PROVE sh'.exported <=> label' = "fdp"
    <3>1. sh'.old = sh.old /\ sh'.exported = sh.exported /\ sh'.todo = sh.todo /\ sh'.at = sh.at + 1
      BY <2>2, Zenon DEF NextStep, Same
    <3>2. ~sh.old /\ sh.at \in {3, 4} BY <1>0, <1>3, <2>2, <3>1
    <3>3. sh.exported <=> label = "fdp" BY <3>2, Zenon DEF EnvInv
    <3> QED BY <3>1, <3>3, Zenon DEF label
  <2>3. ASSUME sh'.old = sh.old, sh'.exported = sh.exported, sh'.todo = sh.todo, sh'.at = sh.at
        PROVE  sh'.exported <=> label' = "fdp"
    <3>1. sh.exported <=> label = "fdp" BY <1>3, <2>3, Zenon DEF EnvInv
    <3> QED BY <2>3, <3>1, Zenon DEF label
  <2>4. CASE StartRun BY <1>0, <2>1, <2>4, StartFacts, Zenon
  <2>5. CASE Clear
    <3>1. CASE sh.old BY <2>2, <2>5, <3>1, ScriptSteps, Zenon
    <3>2. CASE ~sh.old
      <4>1. sh'.at = 2 BY <2>5, <3>2, ScriptSteps DEF NextStep
      <4> QED BY <1>3, <4>1
    <3> QED BY <3>1, <3>2, Zenon
  <2>6. CASE Prepare
    <3>1. CASE Dies BY <2>1, <3>1, Zenon DEF Dies
    <3>2. CASE Prepared
      <4>1. sh'.old = sh.old /\ sh'.todo = sh.todo BY <3>2, Zenon DEF Prepared
      <4>2. ~sh.old BY <1>3, <4>1, Zenon
      <4> QED BY <3>2, <4>1, <4>2, Zenon DEF Prepared, label
    <3> QED BY <2>6, <3>1, <3>2, ScriptSteps, Zenon
  <2>7. ASSUME Reset \/ Setup \/ EndRounds \/ Snapshot \/ ReadWaf \/ Teardown \/ SaveMetrics
        PROVE  sh'.exported <=> label' = "fdp"
    <3>1. (NextStep /\ (sh.old \/ sh.at \notin {1, 2})) \/ Dies \/ NextConfig BY <1>0, <2>7, ScriptSteps
    <3>2. Dies \/ NextConfig => sh'.at \in {0, 1} BY Zenon DEF Dies, NextConfig
    <3> QED BY <2>1, <2>2, <3>1, <3>2, Zenon
  <2>8. CASE Round
    <3>1. sh' = sh \/ sh'.at = 0 BY <2>8, ScriptSteps, Zenon DEF Dies
    <3> QED BY <2>1, <2>3, <3>1, Zenon
  <2>9. CASE Compare BY <1>0, <2>3, <2>9, CompareFacts, Zenon
  <2>10. CASE Prints \/ UNCHANGED vars
    <3>1. sh' = sh BY <2>10, Zenon DEF Prints, vars
    <3> QED BY <2>3, <3>1, Zenon
  <2> QED BY <2>4, <2>5, <2>6, <2>7, <2>8, <2>9, <2>10, Zenon DEF Next
<1> QED BY <1>2, <1>3, Zenon DEF EnvInv, EnvironmentsSeparate

-----------------------------------------------------------------------------
(* What the counters count *)

LEMMA WorkFacts ==
    ASSUME NEW r, NEW l, NEW n \in Nat
    PROVE  /\ [run : {r}, label : {l}, part : 0 .. 0] = {[run |-> r, label |-> l, part |-> 0]}
           /\ [run : {r}, label : {l}, part : 0 .. n] \cup {[run |-> r, label |-> l, part |-> n + 1]}
                 = [run : {r}, label : {l}, part : 0 .. n + 1]
<1>1. ASSUME NEW P, NEW x \in [run : {r}, label : {l}, part : P] PROVE x = [run |-> r, label |-> l, part |-> x.part] /\ x.part \in P
  BY <1>1, Zenon
<1>2. ASSUME NEW P, NEW y \in P PROVE [run |-> r, label |-> l, part |-> y] \in [run : {r}, label : {l}, part : P]
  BY <1>2, Zenon
<1>3. 0 .. 0 = {0} /\ 0 .. n + 1 = (0 .. n) \cup {n + 1} OBVIOUS
<1>4. [run : {r}, label : {l}, part : 0 .. 0] = {[run |-> r, label |-> l, part |-> 0]}
  <2>1. ASSUME NEW x \in [run : {r}, label : {l}, part : 0 .. 0] PROVE x = [run |-> r, label |-> l, part |-> 0]
    <3>1. x = [run |-> r, label |-> l, part |-> x.part] /\ x.part \in 0 .. 0 BY <1>1, Zenon
    <3>2. x.part = 0 BY <3>1
    <3> QED BY <3>1, <3>2, Zenon
  <2>2. [run |-> r, label |-> l, part |-> 0] \in [run : {r}, label : {l}, part : 0 .. 0] BY <1>3, Zenon
  <2> QED BY <2>1, <2>2, Zenon
<1>5. ASSUME NEW x \in [run : {r}, label : {l}, part : 0 .. n + 1]
      PROVE  x \in [run : {r}, label : {l}, part : 0 .. n] \cup {[run |-> r, label |-> l, part |-> n + 1]}
  <2>1. x = [run |-> r, label |-> l, part |-> x.part] /\ x.part \in 0 .. n + 1 BY <1>1, Zenon
  <2>2. CASE x.part = n + 1 BY <2>1, <2>2, Zenon
  <2>3. CASE x.part \in 0 .. n BY <1>2, <2>1, <2>3, Zenon
  <2> QED BY <1>3, <2>1, <2>2, <2>3, Zenon
<1>6. [run : {r}, label : {l}, part : 0 .. n] \subseteq [run : {r}, label : {l}, part : 0 .. n + 1] BY <1>3, Zenon
<1>7. [run |-> r, label |-> l, part |-> n + 1] \in [run : {r}, label : {l}, part : 0 .. n + 1] BY <1>3, Zenon
<1> QED BY <1>4, <1>5, <1>6, <1>7, Zenon

LEMMA WorkNext ==
    ASSUME NEW n \in Nat
    PROVE  Work(n) \cup {Token(n + 1)} = Work(n + 1)
<1> DEFINE r == sh.run
           l == label
           m == n + 1
           A == [run : {r}, label : {l}, part : 0 .. n]
           B == [run : {r}, label : {l}, part : 0 .. m]
           x == [run |-> r, label |-> l, part |-> m]
<1>1. A \cup {x} = B BY WorkFacts
<1>2. Work(n) = A /\ Work(n + 1) = B /\ Token(n + 1) = x BY Zenon DEF Work, Token
<1> QED BY <1>1, <1>2, Zenon

LEMMA CountStep ==
    ASSUME Shape, TodoInv, SumsInv, CountInv, [Next]_vars
    PROVE  CountInv'
<1>0. /\ sh \in ScriptState /\ sh.old \in BOOLEAN /\ sh.at \in 0 .. 9 /\ Lines(Written)
      /\ sums \in Sums /\ sums.rounds \in Nat
  BY Zenon DEF Shape, ScriptState, Sums
<1>a. sh'.at \in 0 .. 9 BY ScriptTyped, Zenon DEF ScriptState
<1>b. ASSUME sh'.run = sh.run, sh'.todo = sh.todo, NEW n PROVE Work(n)' = Work(n)
  BY <1>b, Zenon DEF Work, label
<1>1. ASSUME sh'.at \in {0, 1, 2} PROVE CountInv' BY <1>1 DEF CountInv
<1>2. CASE StartRun BY <1>0, <1>1, <1>2, StartFacts, Zenon
<1>3. CASE Clear
  <2>1. CASE ~sh.old
    <3>1. sh'.at = 2 BY <1>3, <2>1, ScriptSteps DEF NextStep
    <3> QED BY <1>1, <3>1, Zenon
  <2>2. CASE sh.old
    <3>1. sh.at = 4 /\ sh'.at = 5 /\ sh'.run = sh.run /\ sh'.todo = sh.todo BY <1>3, <2>2, ScriptSteps DEF NextStep, Same
    <3>2. spoiled' = spoiled /\ counters' = counters /\ sums' = sums BY <1>3, Zenon DEF Clear, femuVars
    <3>3. sums.rounds = 0 BY <3>1, NoSumsFacts DEF SumsInv
    <3>4. Work(sums.rounds)' = Work(0) BY <3>1, <3>2, <3>3, Zenon DEF Work, label
    <3> QED BY <2>2, <3>1, <3>2, <3>4 DEF CountInv
  <2> QED BY <2>1, <2>2, Zenon
<1>4. CASE Prepare
  <2>1. CASE Dies BY <1>1, <2>1, Zenon DEF Dies
  <2>2. CASE Prepared
    <3>1. sh'.old = sh.old /\ sh'.at = sh.at + 1 BY <2>2, Zenon DEF Prepared
    <3>2. CASE sh.old
      <4>1. sh'.at = 2 BY <1>4, <3>1, <3>2, ScriptSteps
      <4> QED BY <1>1, <4>1, Zenon
    <3>3. CASE ~sh.old
      <4>1. sh'.at = 3 BY <1>4, <3>1, <3>3, ScriptSteps
      <4> QED BY <3>1, <3>3, <4>1 DEF CountInv
    <3> QED BY <3>2, <3>3, Zenon
  <2> QED BY <1>4, <2>1, <2>2, ScriptSteps, Zenon
<1>5. CASE Reset
  <2>1. CASE Dies BY <1>1, <2>1, Zenon DEF Dies
  <2>2. CASE NextStep
    <3>1. Request(TRUE) BY <1>5, Zenon DEF Reset, Request
    <3>2. ~spoiled' => counters' = {} BY <1>0, <3>1, RequestFacts, Zenon
    <3>3. sh'.at = (IF sh.old THEN 3 ELSE 4) /\ sh'.old = sh.old BY <1>0, <1>5, <2>2, ScriptSteps DEF NextStep, Same
    <3> QED BY <3>2, <3>3 DEF CountInv
  <2> QED BY <1>5, <2>1, <2>2, ScriptSteps, Zenon
<1>6. CASE Setup
  <2>1. CASE Dies BY <1>1, <2>1, Zenon DEF Dies
  <2>2. CASE NextStep
    <3>1. counters' = counters \cup {Token(0)} /\ spoiled' = spoiled BY <1>6, Zenon DEF Setup, Write
    <3>2. sh.at = (IF sh.old THEN 3 ELSE 4) BY <1>6, ScriptSteps, Zenon
    <3>3. ~spoiled => counters = {} BY <3>2, Zenon DEF CountInv
    <3>4. {Token(0)} = Work(0) BY WorkFacts, Zenon DEF Work, Token
    <3>5. ~spoiled' => counters' = Work(0) BY <3>1, <3>3, <3>4, Zenon
    <3>6. /\ sh'.at = (IF sh.old THEN 4 ELSE 5) /\ sh'.old = sh.old /\ sh'.run = sh.run /\ sh'.todo = sh.todo
      BY <1>0, <2>2, <3>2 DEF NextStep, Same
    <3>7. Work(0)' = Work(0) BY <1>b, <3>6, Zenon
    <3>8. sums' = sums /\ sums.rounds = 0
      <4>1. sums = NoSums BY <1>0, <3>2 DEF SumsInv
      <4>2. Locals BY <1>6, Zenon DEF Setup
      <4>3. sums' = sums BY <4>1, <4>2, Zenon DEF Locals
      <4> QED BY <4>1, <4>3, NoSumsFacts, Zenon
    <3>9. Work(sums.rounds)' = Work(0) BY <3>6, <3>8, Zenon DEF Work, label
    <3> QED BY <1>0, <3>5, <3>6, <3>7, <3>9 DEF CountInv
  <2> QED BY <1>6, <2>1, <2>2, ScriptSteps, Zenon
<1>7. CASE Round
  <2>1. CASE Dies BY <1>1, <2>1, Zenon DEF Dies
  <2>2. CASE sh' = sh /\ OneMore
    <3>1. sh.at = 5 /\ counters' = counters \cup {Token(sums.rounds + 1)} /\ spoiled' = spoiled
      BY <1>7, RoundFacts, Zenon
    <3>2. Work(sums.rounds) \cup {Token(sums.rounds + 1)} = Work(sums.rounds + 1)
      BY <1>0, WorkNext, Zenon
    <3>3. Work(sums.rounds)' = Work(sums.rounds + 1) BY <2>2, Zenon DEF Work, label, OneMore
    <3>4. sh'.at = 5 BY <2>2, <3>1, Zenon
    <3> QED BY <3>1, <3>2, <3>3, <3>4 DEF CountInv
  <2> QED BY <1>7, <2>1, <2>2, RoundFacts, Zenon
<1>8. CASE EndRounds
  <2>1. sh.at = 5 /\ sh'.at = 6 /\ sh'.run = sh.run /\ sh'.todo = sh.todo BY <1>8, ScriptSteps DEF NextStep, Same
  <2>2. spoiled' = spoiled /\ counters' = counters /\ sums.rounds = NUM_ROUNDS BY <1>8, Zenon DEF EndRounds, femuVars
  <2>3. Work(NUM_ROUNDS)' = Work(NUM_ROUNDS) BY <1>b, <2>1, Zenon
  <2> QED BY <2>1, <2>2, <2>3 DEF CountInv
<1>9. CASE Snapshot
  <2>1. sh.at = 6 /\ sh'.at = 7 /\ sh'.run = sh.run /\ sh'.todo = sh.todo BY <1>9, ScriptSteps DEF NextStep, Same
  <2>2. /\ ~spoiled' => ~spoiled /\ ReadOut'
        /\ counters' = counters
    BY <1>0, <1>9, RequestFacts, Zenon DEF Snapshot, snapshot_femu
  <2>3. Work(NUM_ROUNDS)' = Work(NUM_ROUNDS) BY <1>b, <2>1, Zenon
  <2> QED BY <2>1, <2>2, <2>3 DEF CountInv
<1>10. CASE ReadWaf
  <2>1. sh.at = 7 /\ sh'.at = 8 /\ sh'.run = sh.run /\ sh'.todo = sh.todo BY <1>10, ScriptSteps DEF NextStep, Same
  <2>2. get_waf_from_host(waf') BY <1>10, Zenon DEF ReadWaf
  <2>3. ~spoiled => ReadOut /\ counters = Work(NUM_ROUNDS) BY <2>1, Zenon DEF CountInv
  <2>4. waf' \in {<<>>, Unreliable, <<Work(NUM_ROUNDS)>>}
    <3>1. CASE ~spoiled BY <1>0, <2>2, <2>3, <3>1, GetWafFacts, Zenon
    <3>2. CASE spoiled
      <4>1. waf' \in {<<>>, Unreliable, printed} /\ (waf' = printed => printed = <<>> \/ printed = Unreliable)
        BY <2>2, <3>2, Zenon DEF get_waf_from_host
      <4> QED BY <4>1, Zenon
    <3> QED BY <3>1, <3>2, Zenon
  <2>5. Work(NUM_ROUNDS)' = Work(NUM_ROUNDS) BY <1>b, <2>1, Zenon
  <2> QED BY <2>1, <2>4, <2>5 DEF CountInv
<1>11. ASSUME Teardown \/ SaveMetrics PROVE CountInv'
  <2>1. NextConfig \/ (sh.at = 8 /\ NextStep) BY <1>0, <1>11, ScriptSteps, Zenon
  <2>2. CASE NextConfig BY <1>1, <2>2, Zenon DEF NextConfig
  <2>3. CASE sh.at = 8 /\ NextStep
    <3>1. sh'.at = 9 /\ sh'.run = sh.run /\ sh'.todo = sh.todo BY <2>3 DEF NextStep, Same
    <3>2. Locals BY <1>11, Zenon DEF Teardown, SaveMetrics
    <3>3. waf' = waf BY <3>1, <3>2 DEF Locals
    <3>4. Work(NUM_ROUNDS)' = Work(NUM_ROUNDS) BY <1>b, <3>1, Zenon
    <3> QED BY <2>3, <3>1, <3>3, <3>4 DEF CountInv
  <2> QED BY <2>1, <2>2, <2>3, Zenon
<1>12. ASSUME UNCHANGED <<sh, sums, waf>>, UNCHANGED <<counters, spoiled>>, ReadOut => ReadOut' PROVE CountInv'
  <2>1. Work(sums.rounds)' = Work(sums.rounds) /\ Work(NUM_ROUNDS)' = Work(NUM_ROUNDS) /\ Work(0)' = Work(0)
    BY <1>12, Zenon DEF Work, label
  <2> QED BY <1>12, <2>1, Zenon DEF CountInv
<1>13. CASE Compare
  <2>1. sh'.at = sh.at /\ sh'.run = sh.run /\ sh'.todo = sh.todo /\ sh'.old = sh.old BY <1>0, <1>13, CompareFacts, Zenon
  <2>2. sh.mode = "compare" BY <1>13, Zenon DEF Compare
  <2>3. sh.at = 0 BY <1>0, <2>2 DEF TodoInv
  <2> QED BY <1>1, <2>1, <2>3, Zenon
<1>14. CASE Prints
  <2>1. UNCHANGED <<sh, sums, waf>> BY <1>14, Zenon DEF Prints
  <2>2. spoiled' = spoiled /\ counters' = counters /\ (ReadOut => ReadOut')
    BY <1>0, <1>14, HostPrintsFacts, Zenon DEF Prints
  <2> QED BY <1>12, <2>1, <2>2, Zenon
<1>15. CASE UNCHANGED vars
  <2>1. UNCHANGED <<sh, sums, waf>> /\ UNCHANGED <<spoiled, counters, unprinted, printed>>
    BY <1>15, Zenon DEF vars, femuVars
  <2>2. ReadOut => ReadOut' BY <2>1, Zenon DEF ReadOut
  <2> QED BY <1>12, <2>1, <2>2, Zenon
<1> QED BY <1>2, <1>3, <1>4, <1>5, <1>6, <1>7, <1>8, <1>9, <1>10, <1>11, <1>13, <1>14, <1>15, Zenon DEF Next

-----------------------------------------------------------------------------
(* Types *)

\* What a published rate promises was done.
RateBacked(old, rate, secs, txs) ==
    /\ secs = 0 => rate = 0
    /\ IF old THEN rate * secs * TxPerCheckpoint <= 100 * txs ELSE rate * secs <= txs

LEMMA QuotientFacts ==
    ASSUME NEW n \in Nat, NEW d \in Nat
    PROVE  /\ Quotient(n, d) \in Nat /\ Quotient(n, d) * d <= n
           /\ d = 0 => Quotient(n, d) = 0
           /\ d > 0 => n < (Quotient(n, d) + 1) * d
<1>1. CASE d = 0 BY <1>1 DEF Quotient
<1>2. CASE d > 0
  <2> DEFINE q == n \div d
             r == n % d
  <2>1. q \in Nat /\ r \in Nat /\ r < d /\ n = d * q + r BY <1>2
  <2>2. Quotient(n, d) = q BY <1>2, Zenon DEF Quotient
  <2> HIDE DEF q, r
  <2>3. d * q = q * d /\ d * q \in Nat /\ (q + 1) * d = q * d + d BY <2>1
  <2>4. q * d <= n /\ n < (q + 1) * d BY <2>1, <2>3
  <2>5. d # 0 BY <1>2
  <2> QED BY <2>1, <2>2, <2>4, <2>5, Zenon
<1> QED BY <1>1, <1>2

\* The average of k throughputs that are printed in units of 1 / u, without its
\* decimals: less than 1 below the least of them and not above the greatest.
LEMMA AverageBetween ==
    ASSUME NEW sum \in Nat, NEW k \in Nat, NEW u \in Nat, NEW lo \in Nat, NEW hi \in Nat,
           k > 0, u > 0, lo * k <= sum, sum <= hi * k
    PROVE  lo < (Quotient(sum, k * u) + 1) * u /\ Quotient(sum, k * u) * u <= hi
<1> DEFINE q == Quotient(sum, k * u)
<1>1. k * u \in Nat /\ k * u > 0
  <2>1. k * u \in Nat /\ 1 * u = u /\ 1 \in Nat /\ 1 <= k OBVIOUS
  <2>2. 1 * u <= k * u BY <2>1, MulMono, Zenon
  <2> QED BY <2>1, <2>2
<1>2. q \in Nat /\ q * (k * u) <= sum /\ sum < (q + 1) * (k * u) BY <1>1, QuotientFacts, Zenon
<1> HIDE DEF q
<1>3. /\ q * (k * u) = (q * u) * k /\ (q + 1) * (k * u) = ((q + 1) * u) * k
      /\ q * u \in Nat /\ (q + 1) * u \in Nat
  BY <1>2
<1>4. ASSUME (q + 1) * u <= lo PROVE FALSE
  <2>1. ((q + 1) * u) * k <= lo * k BY <1>3, <1>4, MulMono, Zenon
  <2> QED BY <1>1, <1>2, <1>3, <2>1
<1>5. ASSUME hi < q * u PROVE FALSE
  <2>1. hi + 1 <= q * u /\ hi + 1 \in Nat BY <1>3, <1>5
  <2>2. (hi + 1) * k <= (q * u) * k BY <1>3, <2>1, MulMono, Zenon
  <2>3. (hi + 1) * k = hi * k + k /\ hi * k \in Nat OBVIOUS
  <2> QED BY <1>2, <1>3, <2>2, <2>3
<1>6. lo < (q + 1) * u /\ q * u <= hi BY <1>3, <1>4, <1>5
<1> QED BY <1>6, Zenon DEF q

\* Hundredths of checkpoints per second, c transactions a checkpoint.
LEMMA CheckpointRate ==
    ASSUME NEW n \in Nat, NEW c \in Nat, NEW d \in Nat
    PROVE  /\ Quotient(100 * Quotient(n, c), d) \in Nat
           /\ Quotient(100 * Quotient(n, c), d) * d * c <= 100 * n
<1> DEFINE points == Quotient(n, c)
           q == Quotient(100 * points, d)
<1>1. points \in Nat /\ points * c <= n BY QuotientFacts, Zenon
<1>2. 100 * points \in Nat BY <1>1
<1>3. q \in Nat /\ q * d <= 100 * points BY <1>2, QuotientFacts, Zenon
<1> HIDE DEF q, points
<1>4. (q * d) * c <= (100 * points) * c
  <2>1. q * d \in Nat BY <1>3
  <2> QED BY <1>2, <1>3, <2>1, MulMono, Zenon
<1>5. (100 * points) * c = 100 * (points * c) /\ points * c \in Nat /\ (q * d) * c \in Nat BY <1>1, <1>3
<1>6. q * d * c <= 100 * n BY <1>1, <1>4, <1>5
<1> QED BY <1>3, <1>6, Zenon DEF q, points

LEMMA ShapeInit == Init => Shape
<1> SUFFICES ASSUME Init PROVE Shape
  BY Zenon
<1>1. sh \in ScriptState
  <2>1. PICK old \in BOOLEAN :
           sh = [run |-> 0, mode |-> "both", todo |-> <<>>, at |-> 0, exported |-> FALSE, old |-> old]
    BY Zenon DEF Init
  <2>2. <<>> \in Rest BY Zenon DEF Rest
  <2> QED BY <2>1, <2>2 DEF ScriptState
<1>2. sums \in Sums /\ waf \in Wafs BY NoSumsFacts DEF Init, Wafs
<1>3. results \in [Label -> Result]
  <2>1. <<>> \in Wafs BY DEF Wafs
  <2>2. <<>> \in Seq(Nat) OBVIOUS
  <2>3. NoResult \in Result BY <2>1, <2>2, Zenon DEF NoResult, Result
  <2> QED BY <2>3, Zenon DEF Init
<1>4. Lines(Written) BY DEF Init, FemuInit, Lines
<1> QED BY <1>1, <1>2, <1>3, <1>4, Zenon DEF Shape

\* The device is written to, asked for its counters, or left alone; the lines of its
\* log are sets of writes still.
LEMMA LinesStep ==
    ASSUME Shape, TodoInv, [Next]_vars
    PROVE  Lines(Written)'
<1>0. Lines(Written) /\ sh \in ScriptState /\ sums.rounds \in Nat /\ sh.at \in 0 .. 9 /\ sh.old \in BOOLEAN
  BY Zenon DEF Shape, Sums, ScriptState
<1>1. ASSUME UNCHANGED <<counters, unprinted, printed>> PROVE Lines(Written)'
  BY <1>0, <1>1, Zenon DEF Lines
<1>2. ASSUME sh.at > 0, NEW n \in Int, counters' = counters \cup {Token(n)}, UNCHANGED <<unprinted, printed>>
      PROVE  Lines(Written)'
  <2>1. label \in Label BY <1>2, LabelFacts, Zenon
  <2>2. Token(n) \in Written BY <1>0, <2>1, Zenon DEF Token, Written, ScriptState
  <2> QED BY <1>0, <1>2, <2>2, Zenon DEF Lines
<1>3. CASE Prepare
  <2>1. CASE prepare_fs(FALSE, {Token(-1)})
    <3>1. counters' = counters \cup {Token(-1)} /\ UNCHANGED <<unprinted, printed>> BY <2>1, Zenon DEF prepare_fs
    <3>2. sh.at > 0 /\ -1 \in Int BY <1>0, <1>3, ScriptSteps
    <3> QED BY <1>2, <3>1, <3>2, Zenon
  <2>2. CASE mkfs_fails(FALSE)
    <3>1. UNCHANGED <<counters, unprinted, printed>> BY <2>2, Zenon DEF mkfs_fails
    <3> QED BY <1>1, <3>1, Zenon
  <2>3. CASE mount_fails(FALSE, {Token(-1)})
    <3>1. counters' = counters \cup {Token(-1)} /\ UNCHANGED <<unprinted, printed>> BY <2>3, Zenon DEF mount_fails
    <3>2. sh.at > 0 /\ -1 \in Int BY <1>0, <1>3, ScriptSteps
    <3> QED BY <1>2, <3>1, <3>2, Zenon
  <2> QED BY <1>3, <2>1, <2>2, <2>3, Zenon DEF Prepare
<1>4. CASE Reset
  <2>1. Request(TRUE) BY <1>4, Zenon DEF Reset, Request
  <2> QED BY <1>0, <2>1, RequestFacts, Zenon
<1>5. CASE Setup
  <2>1. counters' = counters \cup {Token(0)} /\ UNCHANGED <<unprinted, printed>> BY <1>5, Zenon DEF Setup, Write
  <2>2. sh.at > 0 /\ 0 \in Int BY <1>0, <1>5, ScriptSteps
  <2> QED BY <1>2, <2>1, <2>2, Zenon
<1>6. CASE Round
  <2>1. counters' = counters \cup {Token(sums.rounds + 1)} /\ UNCHANGED <<unprinted, printed>> /\ sh.at = 5
    BY <1>6, RoundFacts, Zenon
  <2>2. sh.at > 0 /\ sums.rounds + 1 \in Int BY <1>0, <2>1
  <2> QED BY <1>2, <2>1, <2>2, Zenon
<1>7. CASE Snapshot BY <1>0, <1>7, RequestFacts, Zenon DEF Snapshot, snapshot_femu
<1>8. CASE ReadWaf BY <1>0, <1>8, GetWafFacts, Zenon DEF ReadWaf
<1>9. CASE Teardown
  <2>1. UNCHANGED <<counters, unprinted, printed>> BY <1>9, Zenon DEF Teardown, teardown_fs
  <2> QED BY <1>1, <2>1, Zenon
<1>10. CASE Prints BY <1>0, <1>10, HostPrintsFacts, Zenon DEF Prints
<1>11. ASSUME StartRun \/ Clear \/ EndRounds \/ SaveMetrics \/ Compare \/ UNCHANGED vars
       PROVE  UNCHANGED <<counters, unprinted, printed>>
  BY <1>11, Zenon DEF StartRun, Clear, EndRounds, SaveMetrics, Compare, vars, femuVars
<1> QED BY <1>1, <1>3, <1>4, <1>5, <1>6, <1>7, <1>8, <1>9, <1>10, <1>11, Zenon DEF Next

LEMMA SavedNumbers ==
    ASSUME sums \in Sums
    PROVE  /\ Average \in Nat /\ Rate \in Seq(Nat)
           /\ \A i \in DOMAIN Rate : RateBacked(sh.old, Rate[i], sums.secs, sums.total_tx)
<1>0. /\ sums.total_tx \in Nat /\ sums.tps_sum \in Nat /\ sums.tps_count \in Nat /\ sums.secs \in Nat
      /\ TxPerCheckpoint \in Nat /\ Unit \in Nat
  BY SuiBenchAssumption, Zenon DEF Sums
<1>1. Average \in Nat
  <2>1. sums.tps_count * Unit \in Nat BY <1>0
  <2> QED BY <1>0, <2>1, QuotientFacts, Zenon DEF Average
<1> DEFINE committed == Quotient(sums.total_tx, sums.secs)
           points == Quotient(100 * Quotient(sums.total_tx, TxPerCheckpoint), sums.secs)
<1>2. committed \in Nat /\ (~sh.old => RateBacked(sh.old, committed, sums.secs, sums.total_tx))
  BY <1>0, QuotientFacts, Zenon DEF RateBacked
<1>3. points \in Nat /\ (sh.old /\ sums.secs # 0 => RateBacked(sh.old, points, sums.secs, sums.total_tx))
  BY <1>0, CheckpointRate, Zenon DEF RateBacked
<1>4. Rate = IF ~sh.old THEN <<committed>> ELSE IF sums.secs = 0 THEN <<>> ELSE <<points>>
  BY Zenon DEF Rate
<1> HIDE DEF committed, points
<1>5. CASE ~sh.old
  <2>1. Rate = <<committed>> BY <1>4, <1>5, Zenon
  <2>2. Rate \in Seq(Nat) /\ \A i \in DOMAIN Rate : Rate[i] = committed BY <1>2, <2>1
  <2> QED BY <1>1, <1>2, <1>5, <2>2, Zenon
<1>6. CASE sh.old /\ sums.secs = 0
  <2>1. Rate = <<>> BY <1>4, <1>6, Zenon
  <2>2. Rate \in Seq(Nat) /\ \A i \in DOMAIN Rate : FALSE BY <2>1
  <2> QED BY <1>1, <2>2, Zenon
<1>7. CASE sh.old /\ sums.secs # 0
  <2>1. Rate = <<points>> BY <1>4, <1>7, Zenon
  <2>2. Rate \in Seq(Nat) /\ \A i \in DOMAIN Rate : Rate[i] = points BY <1>3, <2>1
  <2> QED BY <1>1, <1>3, <1>7, <2>2, Zenon
<1> QED BY <1>5, <1>6, <1>7, Zenon

LEMMA ShapeStep ==
    ASSUME Shape, TodoInv, RoundsInv, SumsInv, [Next]_vars
    PROVE  Shape'
<1>0. sh \in ScriptState /\ sums \in Sums /\ waf \in Wafs /\ results \in [Label -> Result] /\ <<>> \in Wafs
  BY DEF Shape, Wafs
<1>1. sums' \in Sums
  <2>1. CASE Round BY <2>1, RoundFacts, NoSumsFacts, Zenon DEF OneMore
  <2>2. CASE Kept BY <1>0, <2>2, NoSumsFacts, Zenon DEF Kept
  <2> QED BY <2>1, <2>2, KeptSteps, Zenon
<1>2. waf' \in Wafs
  <2>1. CASE ReadWaf
    <3>1. get_waf_from_host(waf') BY <2>1, Zenon DEF ReadWaf
    <3> QED BY <3>1, GetWafFacts, Zenon DEF Shape, Wafs
  <2>2. CASE Round BY <1>0, <2>2, RoundFacts, Zenon
  <2>3. ASSUME Locals PROVE waf' \in Wafs BY <1>0, <2>3, Zenon DEF Locals
  <2>4. ASSUME Prepare \/ Reset \/ Setup \/ Teardown \/ SaveMetrics PROVE Locals
    BY <2>4, Zenon DEF Prepare, Reset, Setup, Teardown, SaveMetrics
  <2>5. ASSUME StartRun \/ Clear \/ EndRounds \/ Snapshot \/ Compare \/ Prints \/ UNCHANGED vars PROVE waf' = waf
    BY <2>5, Zenon DEF StartRun, Clear, EndRounds, Snapshot, Compare, Prints, vars
  <2> QED BY <1>0, <2>1, <2>2, <2>3, <2>4, <2>5, Zenon DEF Next
<1>3. results' \in [Label -> Result]
  <2>1. CASE Clear
    <3>1. <<>> \in Seq(Nat) OBVIOUS
    <3>2. NoResult \in Result BY <1>0, <3>1, Zenon DEF NoResult, Result
    <3> QED BY <1>0, <2>1, <3>2, ClearFacts, Zenon
  <2>2. CASE SaveMetrics
    <3>1. Average \in Nat /\ Rate \in Seq(Nat) BY <1>0, SavedNumbers, Zenon
    <3> DEFINE saved == [run |-> sh.run, waf |-> waf, txs |-> sums.total_tx, avg |-> Average, rate |-> Rate,
                         tps |-> sums.tps,
                         rounds |-> sums.rounds, secs |-> sums.secs]
    <3>2. results' = [results EXCEPT ![label] = saved] BY <2>2, SaveFacts, Zenon
    <3>3. sh.run \in Nat BY <1>0, Zenon DEF ScriptState
    <3>4. saved \in Result BY <1>0, <3>1, <3>3, Zenon DEF Result, Sums
    <3> HIDE DEF saved
    <3> QED BY <1>0, <3>2, <3>4, Zenon
  <2>3. ASSUME StartRun \/ (Teardown /\ sh.old) \/ Compare \/ Quiet PROVE results' = results
    BY <2>3, Zenon DEF StartRun, Teardown, Compare, Quiet
  <2> QED BY <1>0, <2>1, <2>2, <2>3, QuietSteps, Zenon
<1> QED BY <1>1, <1>2, <1>3, ScriptTyped, LinesStep, Zenon DEF Shape

-----------------------------------------------------------------------------
(* What is published *)

LEMMA OldKept ==
    ASSUME Shape, TodoInv, [Next]_vars
    PROVE  sh'.old = sh.old
<1>0. sh \in ScriptState /\ sh.old \in BOOLEAN BY Zenon DEF Shape, ScriptState
<1>1. ASSUME NextStep \/ NextConfig PROVE sh'.old = sh.old BY <1>1, Zenon DEF NextStep, NextConfig, Same
<1>2. CASE SaveMetrics \/ Clear \/ (Teardown /\ sh.old) BY <1>0, <1>1, <1>2, ScriptSteps, Zenon
<1>3. CASE StartRun \/ Compare BY <1>0, <1>3, StartFacts, CompareFacts, Zenon
<1>4. CASE Quiet BY <1>4, Zenon DEF Quiet, Dies, Onward, Same
<1> QED BY <1>2, <1>3, <1>4, QuietSteps, Zenon

LEMMA PublishedStep ==
    ASSUME Shape, TodoInv, SumsInv, CountInv, WafExact, ThroughputSound, [Next]_vars
    PROVE  WafExact' /\ ThroughputSound'
<1>a. sh'.old = sh.old BY OldKept, Zenon
<1>0. /\ sums \in Sums /\ results \in [Label -> Result]
      /\ sums.rounds \in Nat /\ sums.total_tx \in Nat /\ sums.tps_sum \in Nat /\ sums.tps_count \in Nat
      /\ sums.secs \in Nat /\ sums.tps \in SUBSET Nat /\ sh.old \in BOOLEAN /\ Unit \in Nat /\ Unit # 0
  BY SuiBenchAssumption, Zenon DEF Shape, Sums, ScriptState
<1>1. ASSUME results' = results PROVE WafExact' /\ ThroughputSound'
  BY <1>a, <1>1, Zenon DEF WafExact, ThroughputSound
<1>2. CASE Clear
  <2>1. \A l \in Label : results'[l] = results[l] \/ (results'[l].run = 0 /\ results'[l].waf = <<>>)
    BY <1>2, ClearFacts, Zenon
  <2>2. WafExact' BY <2>1, Zenon DEF WafExact
  <2>3. ThroughputSound' BY <1>a, <2>1 DEF ThroughputSound
  <2> QED BY <2>2, <2>3, Zenon
<1>3. CASE SaveMetrics
  <2> DEFINE saved == [run |-> sh.run, waf |-> waf, txs |-> sums.total_tx, avg |-> Average, rate |-> Rate,
                       tps |-> sums.tps,
                       rounds |-> sums.rounds, secs |-> sums.secs]
  <2>1. /\ results' = [results EXCEPT ![label] = saved] /\ label \in Label
        /\ \A l \in Label : l # label => results'[l] = results[l]
    BY <1>3, SaveFacts, Zenon
  <2>2. /\ saved.run = sh.run /\ saved.waf = waf /\ saved.txs = sums.total_tx /\ saved.avg = Average
        /\ saved.rate = Rate /\ saved.tps = sums.tps
        /\ saved.rounds = sums.rounds /\ saved.secs = sums.secs
    BY Zenon
  <2> HIDE DEF saved
  <2>3. results'[label] = saved BY <1>0, <2>1, Zenon
  <2>4. sh.at \in {8, 9} /\ sums.rounds = NUM_ROUNDS
    <3>1. sh.at \in {8, 9} BY <1>0, <1>3, ScriptSteps, Zenon
    <3>2. sh.at \in 6 .. 9 BY <3>1
    <3> QED BY <3>1, <3>2, Zenon DEF SumsInv
  <2>5. WafExact'
    <3>1. saved.waf \in {<<>>, Unreliable, <<[run : {saved.run}, label : {label}, part : 0 .. NUM_ROUNDS]>>}
      BY <2>2, <2>4, Zenon DEF CountInv, Work
    <3>2. ASSUME NEW l \in Label, results'[l].waf \notin {<<>>, Unreliable}
          PROVE  results'[l].waf = <<[run : {results'[l].run}, label : {l}, part : 0 .. NUM_ROUNDS]>>
      <4>1. CASE l = label BY <2>3, <3>1, <3>2, <4>1, Zenon
      <4>2. CASE l # label BY <2>1, <3>2, <4>2, Zenon DEF WafExact
      <4> QED BY <4>1, <4>2, Zenon
    <3> QED BY <3>2, Zenon DEF WafExact
  <2>6. saved.rounds = NUM_ROUNDS /\ saved.txs = NUM_ROUNDS * TxPerRound BY <2>2, <2>4, Zenon DEF SumsInv
  <2>7. IF saved.tps = {} THEN saved.avg = 0
        ELSE \E lo, hi \in saved.tps : lo < (saved.avg + 1) * Unit /\ saved.avg * Unit <= hi
    <3>1. CASE sums.tps = {}
      <4>1. sums.tps_count = 0 BY <3>1, Zenon DEF SumsInv
      <4>2. sums.tps_count * Unit = 0 BY <1>0, <4>1
      <4> QED BY <2>2, <3>1, <4>2 DEF Average, Quotient
    <3>2. CASE sums.tps # {}
      <4>1. sums.tps_count > 0 /\ Unit > 0 BY <1>0, <3>2 DEF SumsInv
      <4>2. PICK lo \in sums.tps, hi \in sums.tps :
               lo * sums.tps_count <= sums.tps_sum /\ sums.tps_sum <= hi * sums.tps_count
        BY <3>2, Zenon DEF SumsInv, Between
      <4>3. lo \in Nat /\ hi \in Nat BY <1>0, Zenon
      <4>4. lo < (Average + 1) * Unit /\ Average * Unit <= hi
        BY <1>0, <4>1, <4>2, <4>3, AverageBetween, Zenon DEF Average
      <4> QED BY <2>2, <3>2, <4>4, Zenon
    <3> QED BY <3>1, <3>2, Zenon
  <2>8. \A i \in DOMAIN saved.rate : RateBacked(sh.old, saved.rate[i], saved.secs, saved.txs)
    BY <1>0, <2>2, SavedNumbers, Zenon
  <2>9. ThroughputSound'
    <3>1. ASSUME NEW l \in Label, results'[l].run > 0
          PROVE  /\ results'[l].rounds = NUM_ROUNDS /\ results'[l].txs = NUM_ROUNDS * TxPerRound
                 /\ IF results'[l].tps = {} THEN results'[l].avg = 0
                    ELSE \E lo, hi \in results'[l].tps :
                           lo < (results'[l].avg + 1) * Unit /\ results'[l].avg * Unit <= hi
                 /\ \A i \in DOMAIN results'[l].rate :
                       RateBacked(sh'.old, results'[l].rate[i], results'[l].secs, results'[l].txs)
      <4>1. CASE l = label BY <1>a, <2>3, <2>6, <2>7, <2>8, <4>1, Zenon
      <4>2. CASE l # label
        <5>1. results'[l] = results[l] BY <2>1, <4>2, Zenon
        <5> QED BY <1>a, <3>1, <5>1, Zenon DEF ThroughputSound, RateBacked
      <4> QED BY <4>1, <4>2, Zenon
    <3> QED BY <3>1, Zenon DEF ThroughputSound, RateBacked
  <2> QED BY <2>5, <2>9, Zenon
<1>4. ASSUME StartRun \/ (Teardown /\ sh.old) \/ Compare \/ Quiet PROVE results' = results
  BY <1>4, Zenon DEF StartRun, Teardown, Compare, Quiet
<1> QED BY <1>1, <1>2, <1>3, <1>4, QuietSteps, Zenon

-----------------------------------------------------------------------------
(* The theorems *)

IInv ==
    /\ Shape /\ TodoInv /\ RoundsInv /\ EnvInv /\ SumsInv /\ CountInv
    /\ WafExact /\ ThroughputSound

LEMMA IInvInit == Init => IInv
<1> SUFFICES ASSUME Init PROVE IInv
  BY Zenon
<1>1. sh.at = 0 /\ sh.todo = <<>> /\ sh.mode = "both" BY DEF Init
<1>2. sums = NoSums /\ ran = {} BY Zenon DEF Init
<1>3. \A l \in Label : results[l].run = 0 /\ results[l].waf = <<>> BY Zenon DEF Init, NoResult
<1>4. TodoInv /\ RoundsInv BY <1>1 DEF TodoInv, RoundsInv
<1>5. EnvInv BY <1>1, <1>2 DEF EnvInv, EnvironmentsSeparate
<1>6. SumsInv BY <1>1, <1>2, NoSumsFacts, SuiBenchAssumption DEF SumsInv
<1>7. CountInv BY <1>1 DEF CountInv
<1>8. WafExact /\ ThroughputSound BY <1>3 DEF WafExact, ThroughputSound
<1> QED BY <1>4, <1>5, <1>6, <1>7, <1>8, ShapeInit, Zenon DEF IInv

LEMMA IInvAlways == Spec => []IInv
<1>1. IInv /\ [Next]_vars => IInv'
  BY ShapeStep, RoundsStep, EnvStep, SumsStep, CountStep, PublishedStep, Zenon DEF IInv
<1> QED BY <1>1, IInvInit, PTL DEF Spec

\* No process of a configuration runs with the FDP environment of the other one,
\* whatever the caller had exported (set_sui_fdp_env, env -u).
THEOREM EnvironmentsNeverMix == Spec => []EnvironmentsSeparate
<1>1. IInv => EnvironmentsSeparate BY Zenon DEF IInv, EnvInv
<1> QED BY <1>1, IInvAlways, PTL

\* A published WAF counts the writes of its configuration's setup and rounds, all
\* of them and no others, unless its own reset or snapshot was lost
\* (run_benchmark, get_waf_from_host).
THEOREM SuiWafExact == Spec => []WafExact
<1>1. IInv => WafExact BY Zenon DEF IInv
<1> QED BY <1>1, IInvAlways, PTL

\* Published throughputs are those of all rounds: the average, which loses its
\* decimals, is at most the greatest one printed and less than 1 below the least, and
\* the rate over the whole time promises no transactions, or checkpoints, that were
\* not made; it is 0 or missing, never a division by zero, when no second passed.
THEOREM ThroughputsSound == Spec => []ThroughputSound
<1>1. IInv => ThroughputSound BY Zenon DEF IInv
<1> QED BY <1>1, IInvAlways, PTL

\* The results are used as Rounds says: a result is discarded before it is
\* replaced, and only results of one invocation are compared.
THEOREM SuiImplementsRounds == Spec => ImplementsRounds
<1>1. Init => Abstract!Init
  BY DEF Init, Abstract!Init, NoResult
<1>2. ASSUME IInv, [Next]_vars PROVE [Abstract!Next]_(Abstract!roundVars)
  <2>0. /\ Shape /\ TodoInv /\ RoundsInv /\ sh \in ScriptState /\ sh.old \in BOOLEAN /\ sh.at \in 0 .. 9
        /\ results \in [Label -> Result]
    BY <1>2, Zenon DEF IInv, Shape, ScriptState
  <2> DEFINE made == [x \in Label |-> results[x].run]
  <2>1. CASE StartRun
    <3>1. sh'.run = sh.run + 1 /\ UNCHANGED <<results, report>> BY <2>0, <2>1, StartFacts, Zenon DEF StartRun
    <3> QED BY <3>1, Zenon DEF Abstract!Next, Abstract!Invoke
  <2>2. CASE Clear
    <3>1. sh'.run = sh.run /\ report' = report BY <2>0, <2>2, ScriptSteps, ClearFacts, Zenon DEF NextStep, Same
    <3>2. PICK l \in Label : l = label BY <2>0, <2>2, ClearFacts, Zenon
    <3>3. \A x \in Label : results'[x].run = IF x = l THEN 0 ELSE results[x].run BY <2>0, <2>2, <3>2, ClearFacts, Zenon
    <3>4. made' = [made EXCEPT ![l] = 0] BY <3>3, Zenon
    <3>5. Abstract!Discard(l) BY <3>1, <3>4, Zenon DEF Abstract!Discard
    <3> QED BY <3>5, Zenon DEF Abstract!Next
  <2>3. CASE SaveMetrics
    <3>0. IF sh.old THEN sh.at = 8 /\ NextStep ELSE sh.at = 9 /\ NextConfig BY <2>0, <2>3, ScriptSteps, Zenon
    <3>1. sh'.run = sh.run /\ report' = report
      BY <2>0, <2>3, <3>0, SaveFacts, Zenon DEF NextStep, NextConfig, Same
    <3>2. PICK l \in Label : l = label BY <2>0, <2>3, SaveFacts, Zenon
    <3>3. made[l] = 0
      <4>1. results[label].run = 0 BY <2>0, <3>0 DEF RoundsInv
      <4> QED BY <3>2, <4>1, Zenon
    <3>4. \A x \in Label : results'[x].run = IF x = l THEN sh.run ELSE results[x].run
      BY <2>0, <2>3, <3>2, SaveFacts, Zenon
    <3>5. made' = [made EXCEPT ![l] = sh.run] BY <3>4, Zenon
    <3>6. Abstract!Publish(l) BY <3>1, <3>3, <3>5, Zenon DEF Abstract!Publish
    <3> QED BY <3>6, Zenon DEF Abstract!Next
  <2>4. CASE Teardown /\ sh.old
    <3>1. UNCHANGED <<results, report>> BY <2>4, Zenon DEF Teardown
    <3>2. sh'.run = sh.run BY <2>0, <2>4, ScriptSteps, Zenon DEF NextConfig, Same
    <3> QED BY <3>1, <3>2, Zenon DEF Abstract!roundVars
  <2>5. CASE Compare
    <3>1. sh.mode = "compare" /\ sh'.run = sh.run /\ results' = results /\ report' = sh.run
      BY <2>0, <2>5, CompareFacts, Zenon DEF Compare
    <3>2. \A x \in Label : made[x] = sh.run BY <2>0, <3>1, Zenon DEF RoundsInv
    <3>3. Abstract!Compare BY <3>1, <3>2, Zenon DEF Abstract!Compare
    <3> QED BY <3>3, Zenon DEF Abstract!Next
  <2>6. CASE Quiet
    <3>1. UNCHANGED <<results, report>> /\ sh'.run = sh.run BY <2>6, Zenon DEF Quiet, Dies, Onward, Same
    <3> QED BY <3>1, Zenon DEF Abstract!roundVars
  <2> QED BY <1>2, <2>0, <2>1, <2>2, <2>3, <2>4, <2>5, <2>6, QuietSteps, Zenon
<1> QED BY <1>1, <1>2, IInvAlways, PTL DEF Spec, ImplementsRounds, Abstract!Spec
=============================================================================
