---------------------------- MODULE ReplayProofs ----------------------------
(***************************************************************************)
(* Proofs about the mainnet replay: no monitor that was recorded outlives  *)
(* its import, the results directory is used as Rounds says, and a         *)
(* published WAF counts exactly the writes of its round's import, for any  *)
(* number of blocks, any chunk size, any number of invocations and any     *)
(* delay of the host.                                                      *)
(***************************************************************************)
EXTENDS Replay, FemuStatsProofs

-----------------------------------------------------------------------------
(* Chunks *)

LEMMA MinTwo ==
    ASSUME NEW a \in Nat, NEW b \in Nat
    PROVE  Min({a, b}) = IF a <= b THEN a ELSE b
<1>1. CASE a <= b
  <2>1. a \in {a, b} /\ \A y \in {a, b} : a <= y BY <1>1
  <2>2. \A x \in {a, b} : (\A y \in {a, b} : x <= y) => x = a BY <1>1
  <2> QED BY <1>1, <2>1, <2>2 DEF Min
<1>2. CASE ~(a <= b)
  <2>1. b \in {a, b} /\ \A y \in {a, b} : b <= y BY <1>2
  <2>2. \A x \in {a, b} : (\A y \in {a, b} : x <= y) => x = b BY <1>2, Zenon
  <2> QED BY <1>2, <2>1, <2>2, Zenon DEF Min
<1> QED BY <1>1, <1>2, Zenon

\* Two multiples of n that differ by less than n are equal.
LEMMA MultipleApart ==
    ASSUME NEW n \in Nat \ {0}, NEW a \in Nat, NEW b \in Nat, a % n = 0, b % n = 0, a <= b, b < a + n
    PROVE  b = a
<1> DEFINE p == a \div n
           q == b \div n
<1>1. p \in Nat /\ q \in Nat /\ a = n * p /\ b = n * q
  OBVIOUS
<1> HIDE DEF p, q
<1>2. CASE q <= p
  <2>1. n * q <= n * p BY <1>1, <1>2
  <2> QED BY <1>1, <2>1
<1>3. CASE q >= p + 1
  <2>1. n * q >= n * (p + 1) BY <1>1, <1>3
  <2>2. n * (p + 1) = n * p + n BY <1>1
  <2> QED BY <1>1, <2>1, <2>2
<1> QED BY <1>1, <1>2, <1>3

LEMMA MultipleNext ==
    ASSUME NEW n \in Nat \ {0}, NEW a \in Nat, a % n = 0
    PROVE  (a + n) % n = 0
<1> DEFINE p == a \div n
<1>1. p \in Nat /\ a = n * p OBVIOUS
<1> HIDE DEF p
<1>2. a + n = n * (p + 1) + 0 BY <1>1
<1>3. p + 1 \in Nat BY <1>1
<1> QED BY <1>2, <1>3

\* The writes of some parts of a round.
Writes(r, l, parts) == [run : {r}, label : {l}, part : parts]

LEMMA OneMorePart ==
    ASSUME NEW r, NEW l, NEW S, NEW T, NEW b, T = S \cup {b}
    PROVE  \A x : x \in Writes(r, l, T) <=> x \in Writes(r, l, S) \/ x = [run |-> r, label |-> l, part |-> b]
<1>1. ASSUME NEW x \in Writes(r, l, T)
      PROVE  x \in Writes(r, l, S) \cup {[run |-> r, label |-> l, part |-> b]}
  <2>1. x = [run |-> r, label |-> l, part |-> x.part] /\ x.part \in S \cup {b} BY Zenon DEF Writes
  <2> QED BY <2>1, Zenon DEF Writes
<1>2. ASSUME NEW x \in Writes(r, l, S) \cup {[run |-> r, label |-> l, part |-> b]}
      PROVE  x \in Writes(r, l, T)
  BY DEF Writes
<1> QED BY <1>1, <1>2, Zenon

\* The writes of the import of the chunks that start before block n.
Imported(n) == Writes(sh.run, Head(sh.todo), {b \in Starts : b < n})

\* Importing the chunk at b, the first block not imported, adds its writes.
LEMMA ImportedNext ==
    ASSUME NEW b \in Nat, b < TOTAL_BLOCKS, b % CHUNK_BLOCKS = 0
    PROVE  Imported(b) \cup {Token(b)} = Imported(Min({b + CHUNK_BLOCKS, TOTAL_BLOCKS}))
<1> DEFINE e == Min({b + CHUNK_BLOCKS, TOTAL_BLOCKS})
<1>0. CHUNK_BLOCKS \in Nat \ {0} /\ TOTAL_BLOCKS \in Nat \ {0} BY ReplayAssumption, Zenon
<1>1. e = IF b + CHUNK_BLOCKS <= TOTAL_BLOCKS THEN b + CHUNK_BLOCKS ELSE TOTAL_BLOCKS
  BY <1>0, MinTwo
<1>2. ASSUME NEW x \in Starts PROVE x < e <=> (x < b \/ x = b)
  <2>1. x \in Nat /\ x < TOTAL_BLOCKS /\ x % CHUNK_BLOCKS = 0 BY <1>0 DEF Starts
  <2>2. x < b \/ x = b => x < e BY <1>0, <1>1, <2>1
  <2>3. ASSUME x < e, ~(x < b) PROVE x = b
    <3>1. b <= x /\ x < b + CHUNK_BLOCKS BY <1>0, <1>1, <2>1, <2>3
    <3> QED BY <1>0, <2>1, <3>1, MultipleApart, Zenon
  <2> QED BY <2>2, <2>3, Zenon
<1> HIDE DEF e
<1>3. b \in Starts BY <1>0 DEF Starts
<1>4. {x \in Starts : x < e} = {x \in Starts : x < b} \cup {b} BY <1>2, <1>3, Zenon
<1> DEFINE S == {x \in Starts : x < b}
<1> HIDE DEF S
<1> DEFINE T == {x \in Starts : x < e}
<1>5. T = S \cup {b} BY <1>4, Zenon DEF S
<1> HIDE DEF T
<1>6. Imported(e) = Writes(sh.run, Head(sh.todo), T) BY Zenon DEF Imported, T
<1>7. Imported(b) = Writes(sh.run, Head(sh.todo), S) BY Zenon DEF Imported, S
<1>8. ASSUME NEW r, NEW l
      PROVE \A x : x \in Writes(r, l, T) <=> x \in Writes(r, l, S) \/ x = [run |-> r, label |-> l, part |-> b]
  BY <1>5, OneMorePart, Zenon
<1>9. Imported(e) = Imported(b) \cup {Token(b)} BY <1>6, <1>7, <1>8, Zenon DEF Token
<1> QED BY <1>9, Zenon DEF e
-----------------------------------------------------------------------------
(* Types, and what a step does to the record of the script *)

Steps == {"clear", "prepare", "reset", "check", "fork", "record", "convert", "import", "stop",
          "snapshot", "waf", "teardown", "metrics", "compare", "trap", "down"}

\* The rounds still to do.
Rest == {<<"non-fdp", "fdp">>, <<"non-fdp">>, <<"fdp">>, <<>>}

\* The writes there can be, and the values that can be read of the counters.
Written == [run : Nat, label : Label, part : Int]
Wafs == Seq(SUBSET Written)

\* The steps of a monitor.
MonitorStep == {"none", "snapshot", "du", "sleep"}

ScriptState ==
    [run : Nat, mode : DOMAIN Asked, todo : Rest, pc : Steps, block : Nat, chunk : Nat, waf : Wafs]

Shape ==
    /\ sh \in ScriptState
    /\ monitor \in [Runs -> MonitorStep]
    /\ results \in [Label -> [run : Nat, waf : Wafs]]
    /\ Lines(Written)

\* The script goes to another step of the same round.
Moves(p) ==
    /\ sh' \in ScriptState /\ sh'.pc = p
    /\ sh'.run = sh.run /\ sh'.mode = sh.mode /\ sh'.todo = sh.todo /\ sh'.block = sh.block
    /\ sh'.waf = sh.waf

LEMMA StepMoves ==
    ASSUME sh \in ScriptState, NEW from, NEW to \in Steps, Step(from, to)
    PROVE  sh.pc = from /\ Moves(to)
BY Zenon DEF Step, Moves, ScriptState

LEMMA RestFacts ==
    /\ Head(<<"non-fdp", "fdp">>) = "non-fdp" /\ Tail(<<"non-fdp", "fdp">>) = <<"fdp">>
    /\ Head(<<"non-fdp">>) = "non-fdp" /\ Tail(<<"non-fdp">>) = <<>>
    /\ Head(<<"fdp">>) = "fdp" /\ Tail(<<"fdp">>) = <<>>
    /\ <<"fdp">> # <<>> /\ <<"non-fdp">> # <<>> /\ <<"non-fdp", "fdp">> # <<>>
    /\ <<"non-fdp", "fdp">> # <<"fdp">> /\ <<"non-fdp", "fdp">> # <<"non-fdp">> /\ <<"fdp">> # <<"non-fdp">>
OBVIOUS

LEMMA AskedFacts ==
    /\ DOMAIN Asked = {"nofdp", "fdp", "both"}
    /\ Asked["nofdp"] = <<"non-fdp">> /\ Asked["fdp"] = <<"fdp">> /\ Asked["both"] = <<"non-fdp", "fdp">>
BY Zenon DEF Asked, Order

\* The rounds still to do follow from the mode; none is left when the two are
\* compared.
TodoInv ==
    sh.pc \notin {"down", "trap"} =>
        IF sh.pc = "compare" THEN sh.todo = <<>> /\ sh.mode = "both"
        ELSE sh.todo \in [nofdp |-> {<<"non-fdp">>}, fdp |-> {<<"fdp">>},
                          both |-> {<<"non-fdp", "fdp">>, <<"fdp">>}][sh.mode]

LEMMA LabelFacts ==
    ASSUME sh \in ScriptState, TodoInv, sh.pc \notin {"down", "trap", "compare"}
    PROVE  /\ sh.todo # <<>> /\ Head(sh.todo) \in Label
           /\ \/ sh.mode = "both" /\ sh.todo = <<"non-fdp", "fdp">> /\ Head(sh.todo) = "non-fdp" /\ Tail(sh.todo) = <<"fdp">>
              \/ sh.mode # "nofdp" /\ sh.todo = <<"fdp">> /\ Head(sh.todo) = "fdp" /\ Tail(sh.todo) = <<>>
              \/ sh.mode = "nofdp" /\ sh.todo = <<"non-fdp">> /\ Head(sh.todo) = "non-fdp" /\ Tail(sh.todo) = <<>>
<1>1. sh.mode \in {"nofdp", "fdp", "both"} BY AskedFacts, Zenon DEF ScriptState
<1>2. \/ sh.mode = "both" /\ sh.todo = <<"non-fdp", "fdp">>
      \/ sh.mode # "nofdp" /\ sh.todo = <<"fdp">>
      \/ sh.mode = "nofdp" /\ sh.todo = <<"non-fdp">>
  BY <1>1 DEF TodoInv
<1> QED BY <1>2, RestFacts, Zenon DEF Label

\* The next invocation starts on the rounds its mode asks for.
LEMMA StartFacts ==
    ASSUME sh \in ScriptState, StartRun
    PROVE  /\ sh.pc = "down" /\ sh' \in ScriptState /\ sh'.run = sh.run + 1 /\ sh'.pc = "clear"
           /\ sh'.todo = Asked[sh'.mode]
<1>1. PICK mode \in DOMAIN Asked :
         sh' = [Down EXCEPT !.run = sh.run + 1, !.mode = mode, !.todo = Asked[mode], !.pc = "clear"]
  BY Zenon DEF StartRun
<1>2. sh' = [run |-> sh.run + 1, mode |-> mode, todo |-> Asked[mode], pc |-> "clear", block |-> 0,
             chunk |-> 0, waf |-> <<>>]
  BY <1>1, Zenon DEF Down
<1>a. Asked[mode] \in Rest BY <1>1, AskedFacts, Zenon DEF Rest
<1>b. "clear" \in Steps BY Zenon DEF Steps
<1>c. <<>> \in Wafs BY DEF Wafs
<1>3. Asked[mode] \in Rest /\ "clear" \in Steps /\ <<>> \in Wafs BY <1>a, <1>b, <1>c, Zenon
<1>4. sh.run + 1 \in Nat BY DEF ScriptState
<1>5. sh' \in ScriptState BY <1>2, <1>3, <1>4, Zenon DEF ScriptState
<1> QED BY <1>2, <1>5, Zenon DEF StartRun

\* A chunk is imported, or geth fails.
LEMMA ImportFacts ==
    ASSUME sh \in ScriptState, Import
    PROVE  /\ sh.pc = "import"
           /\ \/ Moves("trap")
              \/ /\ sh' \in ScriptState /\ sh'.pc = "convert" /\ sh'.block = ChunkEnd
                 /\ sh'.run = sh.run /\ sh'.mode = sh.mode /\ sh'.todo = sh.todo
           /\ counters' = counters \cup {Token(sh.block)}
           /\ UNCHANGED <<mounted, unprinted, printed, spoiled, monitorVars, results, report>>
<1>0. sh.block \in Nat /\ sh.chunk \in Nat BY Zenon DEF ScriptState
<1>1. ChunkEnd \in Nat
  <2>1. CHUNK_BLOCKS \in Nat /\ TOTAL_BLOCKS \in Nat BY ReplayAssumption, Zenon
  <2> QED BY <1>0, <2>1, MinTwo DEF ChunkEnd
<1>2. sh.pc = "import" /\ counters' = counters \cup {Token(sh.block)}
      /\ UNCHANGED <<mounted, unprinted, printed, spoiled, monitorVars, results, report>>
  BY Zenon DEF Import, Write
<1>3. CASE sh' = [sh EXCEPT !.pc = "convert", !.block = ChunkEnd, !.chunk = @ + 1]
  <2> DEFINE e == ChunkEnd
             c == sh.chunk + 1
  <2>1. sh' = [sh EXCEPT !.pc = "convert", !.block = e, !.chunk = c] BY <1>3, Zenon DEF ScriptState
  <2>2. e \in Nat /\ c \in Nat /\ "convert" \in Steps BY <1>0, <1>1 DEF Steps
  <2> HIDE DEF e, c
  <2>3. sh' \in ScriptState /\ sh'.pc = "convert" /\ sh'.block = e
        /\ sh'.run = sh.run /\ sh'.mode = sh.mode /\ sh'.todo = sh.todo
    BY <2>1, <2>2, Zenon DEF ScriptState
  <2> QED BY <1>2, <2>3, Zenon DEF e
<1>4. CASE sh' = [sh EXCEPT !.pc = "trap"]
  <2>1. Step("import", "trap") /\ "trap" \in Steps BY <1>2, <1>4, Zenon DEF Step, Steps
  <2> QED BY <1>2, <2>1, StepMoves, Zenon
<1> QED BY <1>3, <1>4, Zenon DEF Import

\* metrics.txt is written, and the script goes on to the next round, to the
\* comparison or to its end.
LEMMA SaveFacts ==
    ASSUME Shape, TodoInv, SaveMetrics
    PROVE  /\ sh.pc = "metrics" /\ sh' \in ScriptState /\ sh'.todo = Tail(sh.todo)
           /\ sh'.run = sh.run /\ sh'.mode = sh.mode
           /\ sh'.pc = IF Tail(sh.todo) # <<>> THEN "clear" ELSE IF sh.mode = "both" THEN "compare" ELSE "trap"
           /\ results' = [results EXCEPT ![Head(sh.todo)] = [run |-> sh.run, waf |-> sh.waf]]
           /\ UNCHANGED <<femuVars, monitorVars, report>>
<1>0. sh \in ScriptState /\ sh.pc = "metrics" BY Zenon DEF Shape, SaveMetrics
<1> DEFINE to == IF Tail(sh.todo) # <<>> THEN "clear" ELSE IF sh.mode = "both" THEN "compare" ELSE "trap"
           rest == Tail(sh.todo)
<1>1. sh' = [sh EXCEPT !.todo = rest, !.waf = <<>>, !.pc = to] BY <1>0, Zenon DEF SaveMetrics, ScriptState
<1>2. rest \in Rest BY <1>0, LabelFacts, Zenon DEF Rest
<1>3. to \in Steps /\ <<>> \in Wafs BY DEF Steps, Wafs
<1> HIDE DEF to, rest
<1>4. sh' \in ScriptState /\ sh'.todo = rest /\ sh'.run = sh.run /\ sh'.mode = sh.mode /\ sh'.pc = to
  BY <1>0, <1>1, <1>2, <1>3, Zenon DEF ScriptState
<1> QED BY <1>0, <1>4, Zenon DEF to, rest, SaveMetrics

\* What the other steps of the script do to its record, and where they are taken.
LEMMA ScriptSteps ==
    ASSUME Shape
    PROVE  /\ ClearResults => sh.pc = "clear" /\ Moves("prepare")
           /\ Prepare => sh.pc = "prepare" /\ (Moves("reset") \/ Moves("trap"))
           /\ Reset => sh.pc = "reset" /\ Moves("check")
           /\ CheckInputs => sh.pc = "check" /\ (Moves("fork") \/ Moves("trap"))
           /\ ForkMonitor => sh.pc = "fork" /\ Moves("record")
           /\ Convert => sh.pc = "convert" /\ (Moves("stop") \/ Moves("trap") \/ Moves("import"))
           /\ StopMonitor => sh.pc = "stop" /\ Moves("snapshot")
           /\ Snapshot => sh.pc = "snapshot" /\ Moves("waf")
           /\ Teardown => sh.pc = "teardown" /\ Moves("metrics")
           /\ Compare => sh.pc = "compare" /\ Moves("trap")
           /\ Trap => sh.pc = "trap" /\ Moves("down")
<1>0. sh \in ScriptState BY Zenon DEF Shape
<1>a. {"prepare", "reset", "trap", "check", "fork", "record", "stop", "import", "snapshot", "waf",
       "metrics", "down"} \subseteq Steps
  BY Zenon DEF Steps
<1>1. ClearResults => sh.pc = "clear" /\ Moves("prepare") BY <1>0, <1>a, StepMoves, Zenon DEF ClearResults
<1>2. Prepare => sh.pc = "prepare" /\ (Moves("reset") \/ Moves("trap"))
  <2>1. Prepare => Step("prepare", "reset") \/ Step("prepare", "trap") BY Zenon DEF Prepare
  <2> QED BY <1>0, <1>a, <2>1, StepMoves, Zenon
<1>3. Reset => sh.pc = "reset" /\ Moves("check") BY <1>0, <1>a, StepMoves, Zenon DEF Reset
<1>4. CheckInputs => sh.pc = "check" /\ (Moves("fork") \/ Moves("trap"))
  <2>1. CheckInputs => Step("check", "fork") \/ Step("check", "trap") BY Zenon DEF CheckInputs, Step
  <2> QED BY <1>0, <1>a, <2>1, StepMoves, Zenon
<1>5. ForkMonitor => sh.pc = "fork" /\ Moves("record") BY <1>0, <1>a, StepMoves, Zenon DEF ForkMonitor
<1>6. Convert => sh.pc = "convert" /\ (Moves("stop") \/ Moves("trap") \/ Moves("import"))
  BY <1>0, <1>a, StepMoves, Zenon DEF Convert
<1>7. StopMonitor => sh.pc = "stop" /\ Moves("snapshot") BY <1>0, <1>a, StepMoves, Zenon DEF StopMonitor
<1>8. Snapshot => sh.pc = "snapshot" /\ Moves("waf") BY <1>0, <1>a, StepMoves, Zenon DEF Snapshot
<1>9. Teardown => sh.pc = "teardown" /\ Moves("metrics")
  <2>1. Teardown => Step("teardown", "metrics") BY Zenon DEF Teardown
  <2> QED BY <1>0, <1>a, <2>1, StepMoves, Zenon
<1>10. Compare => sh.pc = "compare" /\ Moves("trap") BY <1>0, <1>a, StepMoves, Zenon DEF Compare
<1>11. Trap => sh.pc = "trap" /\ Moves("down")
  <2>1. Trap => Step("trap", "down") BY Zenon DEF Trap
  <2> QED BY <1>0, <1>a, <2>1, StepMoves, Zenon
<1> QED BY <1>1, <1>2, <1>3, <1>4, <1>5, <1>6, <1>7, <1>8, <1>9, <1>10, <1>11, Zenon

\* The loop starts at block 0.
LEMMA RecordFacts ==
    ASSUME Shape, RecordMonitor
    PROVE  /\ sh.pc = "record" /\ sh' \in ScriptState /\ sh'.pc = "convert" /\ sh'.block = 0
           /\ sh'.run = sh.run /\ sh'.mode = sh.mode /\ sh'.todo = sh.todo
<1>1. "convert" \in Steps /\ sh \in ScriptState BY Zenon DEF Steps, Shape
<1>2. sh' = [sh EXCEPT !.pc = "convert", !.block = 0, !.chunk = 0] BY Zenon DEF RecordMonitor
<1>3. /\ sh' \in ScriptState /\ sh'.pc = "convert" /\ sh'.block = 0
      /\ sh'.run = sh.run /\ sh'.mode = sh.mode /\ sh'.todo = sh.todo
  BY <1>1, <1>2, Zenon DEF ScriptState
<1> QED BY <1>3, Zenon DEF RecordMonitor

LEMMA InterruptFacts ==
    ASSUME sh \in ScriptState, Interrupt
    PROVE  /\ sh.pc \notin {"down", "trap"} /\ Moves("trap")
<1>1. Step(sh.pc, "trap") /\ "trap" \in Steps BY Zenon DEF Interrupt, Step, Steps
<1> QED BY <1>1, StepMoves, Zenon DEF Interrupt

LEMMA ReadFacts ==
    ASSUME Shape, ReadWaf
    PROVE  /\ sh.pc = "waf" /\ sh' \in ScriptState /\ sh'.pc = "teardown"
           /\ sh'.run = sh.run /\ sh'.mode = sh.mode /\ sh'.todo = sh.todo
           /\ get_waf_from_host(sh'.waf)
           /\ UNCHANGED <<monitorVars, results, report>>
<1>0. sh \in ScriptState /\ Lines(Written) BY Zenon DEF Shape
<1>1. PICK w \in {printed, Unreliable, <<>>} : get_waf_from_host(w) /\ sh' = [sh EXCEPT !.pc = "teardown", !.waf = w]
  BY Zenon DEF ReadWaf
<1>2. w \in Wafs BY <1>0, <1>1, GetWafFacts, Zenon DEF Wafs
<1>3. "teardown" \in Steps BY Zenon DEF Steps
<1>4. /\ sh' \in ScriptState /\ sh'.pc = "teardown" /\ sh'.waf = w
      /\ sh'.run = sh.run /\ sh'.mode = sh.mode /\ sh'.todo = sh.todo
  BY <1>0, <1>1, <1>2, <1>3, Zenon DEF ScriptState
<1> QED BY <1>1, <1>4, Zenon DEF ReadWaf

-----------------------------------------------------------------------------
(* The inductive invariant *)

\* A monitor that runs is the one MONITOR_PID names, or has just been forked, while
\* chunks are imported, or its script was interrupted in between.
MonitorInv ==
    \A r \in Runs : monitor[r] # "none" /\ r \notin unrecorded =>
        /\ r = sh.run
        /\ sh.pc = "record" \/ (MONITOR_PID = r /\ sh.pc \in {"convert", "import", "stop", "trap"})

\* The result of the round that is being made has been discarded, an earlier one of
\* the two is this invocation's, and the script compares when both are.
RoundsInv ==
    sh.pc \notin {"down", "trap"} =>
        /\ sh.mode = "both" /\ sh.todo = <<"fdp">> => results["non-fdp"].run = sh.run
        /\ sh.pc = "compare" => \A l \in Label : results[l].run = sh.run
        /\ sh.pc \notin {"clear", "compare"} => results[Head(sh.todo)].run = 0

\* While chunks are imported, the next block is the start of a chunk or the end.
BlockInv ==
    sh.pc \in {"convert", "import"} =>
        \/ sh.block < TOTAL_BLOCKS /\ sh.block % CHUNK_BLOCKS = 0
        \/ sh.block = TOTAL_BLOCKS /\ sh.pc = "convert"

\* In a round that is not spoiled the counters count what has been imported so far,
\* and at the end a line that says so is the last one of the host's log.
CountInv ==
    /\ ~spoiled =>
          /\ sh.pc \in {"check", "fork", "record"} => counters = {}
          /\ sh.pc \in {"convert", "import"} => counters = Imported(sh.block)
          /\ sh.pc \in {"stop", "snapshot", "waf"} => counters = Imported(TOTAL_BLOCKS)
          /\ sh.pc = "waf" => ReadOut
    /\ sh.pc \in {"teardown", "metrics"} => sh.waf \in {<<>>, Unreliable, <<Imported(TOTAL_BLOCKS)>>}

-----------------------------------------------------------------------------
(* The rounds *)

\* A step within a round, into the trap or out of it, or of another process.
Quiet ==
    /\ sh' \in ScriptState /\ UNCHANGED <<results, report>>
    /\ \/ sh' = sh
       \/ /\ sh'.run = sh.run /\ sh'.pc \in {"trap", "down"}
       \/ /\ sh.pc \notin {"clear", "compare", "down", "trap"} /\ sh'.pc \notin {"clear", "compare", "down", "trap"}
          /\ sh'.run = sh.run /\ sh'.mode = sh.mode /\ sh'.todo = sh.todo

LEMMA QuietSteps ==
    ASSUME Shape, TodoInv, [Next]_vars
    PROVE  StartRun \/ ClearResults \/ SaveMetrics \/ Compare \/ Quiet
<1>0. sh \in ScriptState BY Zenon DEF Shape
<1>1. ASSUME NEW p, Moves(p), UNCHANGED <<results, report>>,
             \/ p \in {"trap", "down"}
             \/ sh.pc \notin {"clear", "compare", "down", "trap"} /\ p \notin {"clear", "compare"}
      PROVE  Quiet
  BY <1>1, Zenon DEF Moves, Quiet
<1>2. CASE Prepare BY <1>1, <1>2, ScriptSteps, Zenon DEF Prepare
<1>3. CASE Reset BY <1>1, <1>3, ScriptSteps, Zenon DEF Reset
<1>4. CASE CheckInputs BY <1>1, <1>4, ScriptSteps, Zenon DEF CheckInputs
<1>5. CASE ForkMonitor BY <1>1, <1>5, ScriptSteps, Zenon DEF ForkMonitor
<1>6. CASE RecordMonitor BY <1>6, RecordFacts, Zenon DEF RecordMonitor, Quiet
<1>7. CASE Convert BY <1>1, <1>7, ScriptSteps, Zenon DEF Convert
<1>8. CASE Import
  <2>1. CASE Moves("trap") BY <1>0, <1>1, <1>8, <2>1, ImportFacts, Zenon
  <2>2. CASE ~Moves("trap") BY <1>0, <1>8, <2>2, ImportFacts, Zenon DEF Quiet
  <2> QED BY <2>1, <2>2, Zenon
<1>9. CASE StopMonitor BY <1>1, <1>9, ScriptSteps, Zenon DEF StopMonitor
<1>10. CASE Snapshot BY <1>1, <1>10, ScriptSteps, Zenon DEF Snapshot
<1>11. CASE ReadWaf BY <1>11, ReadFacts, Zenon DEF Quiet
<1>12. CASE Teardown BY <1>1, <1>12, ScriptSteps, Zenon DEF Teardown
<1>13. CASE Trap BY <1>1, <1>13, ScriptSteps, Zenon DEF Trap
<1>14. CASE Interrupt BY <1>0, <1>1, <1>14, InterruptFacts, Zenon DEF Interrupt
<1>15. ASSUME (\E r \in Runs : Monitor(r)) \/ OrphanEnds \/ Prints PROVE Quiet
  BY <1>0, <1>15, Zenon DEF Monitor, MonitorSnapshot, MonitorDu, MonitorWakes, OrphanEnds, Prints, Quiet
<1>16. CASE UNCHANGED vars BY <1>0, <1>16, Zenon DEF vars, Quiet
<1> QED BY <1>2, <1>3, <1>4, <1>5, <1>6, <1>7, <1>8, <1>9, <1>10, <1>11, <1>12, <1>13, <1>14, <1>15, <1>16
        DEF Next, Script

LEMMA RoundsStep ==
    ASSUME Shape, TodoInv, RoundsInv, [Next]_vars
    PROVE  TodoInv' /\ RoundsInv'
<1>0. /\ sh \in ScriptState /\ sh.run \in Nat /\ sh.mode \in {"nofdp", "fdp", "both"}
      /\ results \in [Label -> [run : Nat, waf : Wafs]]
  BY AskedFacts, Zenon DEF Shape, ScriptState
<1>1. CASE StartRun
  <2>1. /\ sh'.run = sh.run + 1 /\ sh'.pc = "clear" /\ sh'.todo = Asked[sh'.mode] /\ sh'.mode \in {"nofdp", "fdp", "both"}
    BY <1>0, <1>1, StartFacts, AskedFacts, Zenon DEF ScriptState
  <2>2. CASE sh'.mode = "both" BY <2>1, <2>2, AskedFacts, RestFacts DEF TodoInv, RoundsInv
  <2>3. CASE sh'.mode = "fdp" BY <2>1, <2>3, AskedFacts, RestFacts DEF TodoInv, RoundsInv
  <2>4. CASE sh'.mode = "nofdp" BY <2>1, <2>4, AskedFacts, RestFacts DEF TodoInv, RoundsInv
  <2> QED BY <2>1, <2>2, <2>3, <2>4, Zenon
<1>2. CASE ClearResults
  <2>1. sh.pc = "clear" /\ Moves("prepare") BY <1>2, ScriptSteps, Zenon
  <2>2. results' = [results EXCEPT ![Head(sh.todo)] = NoResult] BY <1>2, Zenon DEF ClearResults
  <2>3. NoResult.run = 0 BY Zenon DEF NoResult
  <2>4. TodoInv' BY <2>1, Zenon DEF TodoInv, Moves
  <2>5. RoundsInv' BY <1>0, <2>1, <2>2, <2>3, LabelFacts, RestFacts, Zenon DEF RoundsInv, Moves, Label
  <2> QED BY <2>4, <2>5, Zenon
<1>3. CASE SaveMetrics
  <2>1. /\ sh.pc = "metrics" /\ sh'.todo = Tail(sh.todo) /\ sh'.run = sh.run /\ sh'.mode = sh.mode
        /\ sh'.pc = IF Tail(sh.todo) # <<>> THEN "clear" ELSE IF sh.mode = "both" THEN "compare" ELSE "trap"
        /\ results' = [results EXCEPT ![Head(sh.todo)] = [run |-> sh.run, waf |-> sh.waf]]
    BY <1>3, SaveFacts, Zenon
  <2>2. TodoInv'
    <3>1. CASE sh.mode = "both" /\ sh.todo = <<"non-fdp", "fdp">>
      <4>1. sh'.todo = <<"fdp">> /\ sh'.pc = "clear" /\ sh'.mode = "both" BY <2>1, <3>1, RestFacts, Zenon
      <4> QED BY <4>1 DEF TodoInv
    <3>2. CASE sh.mode = "both" /\ sh.todo = <<"fdp">>
      <4>1. sh'.todo = <<>> /\ sh'.pc = "compare" /\ sh'.mode = "both" BY <2>1, <3>2, RestFacts, Zenon
      <4> QED BY <4>1, Zenon DEF TodoInv
    <3>3. CASE sh.mode # "both"
      <4>1. sh'.pc = "trap" BY <1>0, <2>1, <3>3, LabelFacts, Zenon
      <4> QED BY <4>1, Zenon DEF TodoInv
    <3> QED BY <1>0, <2>1, <3>1, <3>2, <3>3, LabelFacts, Zenon
  <2>3. CASE sh.mode = "both" /\ sh.todo = <<"non-fdp", "fdp">>
    BY <1>0, <2>1, <2>2, <2>3, LabelFacts, RestFacts, Zenon DEF RoundsInv, Label
  <2>4. CASE sh.mode = "both" /\ sh.todo = <<"fdp">>
    BY <1>0, <2>1, <2>2, <2>4, LabelFacts, RestFacts, Zenon DEF RoundsInv, Label
  <2>5. CASE sh.mode # "both"
    <3>1. sh'.pc = "trap" BY <1>0, <2>1, <2>5, LabelFacts, Zenon
    <3> QED BY <2>2, <3>1, Zenon DEF RoundsInv
  <2> QED BY <1>0, <2>1, <2>3, <2>4, <2>5, LabelFacts, Zenon
<1>4. CASE Compare
  <2>1. sh'.pc = "trap" BY <1>4, ScriptSteps, Zenon DEF Moves
  <2> QED BY <2>1, Zenon DEF TodoInv, RoundsInv
<1>5. CASE Quiet
  <2>1. CASE sh' = sh BY <1>5, <2>1, Zenon DEF Quiet, TodoInv, RoundsInv
  <2>2. CASE sh'.pc \in {"trap", "down"} BY <2>2, Zenon DEF TodoInv, RoundsInv
  <2>3. CASE /\ sh.pc \notin {"clear", "compare", "down", "trap"} /\ sh'.pc \notin {"clear", "compare", "down", "trap"}
             /\ sh'.run = sh.run /\ sh'.mode = sh.mode /\ sh'.todo = sh.todo
    BY <1>5, <2>3, Zenon DEF Quiet, TodoInv, RoundsInv
  <2> QED BY <1>5, <2>1, <2>2, <2>3, Zenon DEF Quiet
<1> QED BY <1>1, <1>2, <1>3, <1>4, <1>5, QuietSteps, Zenon

-----------------------------------------------------------------------------
(* Types *)

LEMMA ShapeInit == Init => Shape
<1> SUFFICES ASSUME Init PROVE Shape
  BY Zenon
<1>0. "down" \in Steps /\ <<>> \in Rest /\ <<>> \in Wafs /\ "both" \in DOMAIN Asked
  BY AskedFacts DEF Steps, Rest, Wafs
<1>1. sh \in ScriptState BY <1>0, Zenon DEF Init, Down, ScriptState
<1>2. monitor \in [Runs -> MonitorStep] BY Zenon DEF Init, MonitorStep
<1>3. results \in [Label -> [run : Nat, waf : Wafs]]
  <2>1. NoResult \in [run : Nat, waf : Wafs] BY <1>0, Zenon DEF NoResult
  <2> QED BY <2>1, Zenon DEF Init
<1>4. Lines(Written) BY DEF Init, FemuInit, Lines
<1> QED BY <1>1, <1>2, <1>3, <1>4, Zenon DEF Shape

\* A write of the current round.
LEMMA TokenFacts ==
    ASSUME Shape, TodoInv, sh.pc \notin {"down", "trap", "compare"}, NEW part \in Int
    PROVE  Token(part) \in Written
<1>1. sh \in ScriptState /\ sh.run \in Nat BY Zenon DEF Shape, ScriptState
<1>2. Head(sh.todo) \in Label BY <1>1, LabelFacts, Zenon
<1> QED BY <1>1, <1>2, Zenon DEF Token, Written

\* The device is written to, asked for its counters, or left alone; the lines of its
\* log are sets of writes still.
LEMMA LinesStep ==
    ASSUME Shape, TodoInv, [Next]_vars
    PROVE  Lines(Written)'
<1>0. Lines(Written) /\ sh \in ScriptState BY Zenon DEF Shape
<1>1. ASSUME UNCHANGED <<counters, unprinted, printed>> PROVE Lines(Written)'
  BY <1>0, <1>1, Zenon DEF Lines
<1>2. ASSUME NEW x \in Written, counters' = counters \cup {x}, UNCHANGED <<unprinted, printed>>
      PROVE  Lines(Written)'
  BY <1>0, <1>2, Zenon DEF Lines
<1>3. CASE Prepare
  <2>1. CASE prepare_fs(Busy, {Token(-1)})
    <3>1. counters' = counters \cup {Token(-1)} /\ UNCHANGED <<unprinted, printed>> BY <2>1, Zenon DEF prepare_fs
    <3>2. Token(-1) \in Written BY <1>3, ScriptSteps, TokenFacts
    <3> QED BY <1>2, <3>1, <3>2, Zenon
  <2>2. CASE mkfs_fails(Busy)
    <3>1. UNCHANGED <<counters, unprinted, printed>> BY <2>2, Zenon DEF mkfs_fails
    <3> QED BY <1>1, <3>1, Zenon
  <2>3. CASE mount_fails(Busy, {Token(-1)})
    <3>1. counters' = counters \cup {Token(-1)} /\ UNCHANGED <<unprinted, printed>> BY <2>3, Zenon DEF mount_fails
    <3>2. Token(-1) \in Written BY <1>3, ScriptSteps, TokenFacts
    <3> QED BY <1>2, <3>1, <3>2, Zenon
  <2> QED BY <1>3, <2>1, <2>2, <2>3, Zenon DEF Prepare
<1>4. CASE Reset BY <1>0, <1>4, RequestFacts, Zenon DEF Reset, reset_femu_counters
<1>5. CASE Import
  <2>1. sh.pc = "import" /\ counters' = counters \cup {Token(sh.block)} /\ UNCHANGED <<unprinted, printed>>
    BY <1>0, <1>5, ImportFacts, Zenon
  <2>2. Token(sh.block) \in Written BY <1>0, <2>1, TokenFacts DEF ScriptState
  <2> QED BY <1>2, <2>1, <2>2, Zenon
<1>6. CASE Snapshot BY <1>0, <1>6, RequestFacts, Zenon DEF Snapshot, snapshot_femu
<1>7. CASE ReadWaf BY <1>0, <1>7, GetWafFacts, Zenon DEF ReadWaf
<1>8. CASE Teardown
  <2>1. UNCHANGED <<counters, unprinted, printed>> BY <1>8, Zenon DEF Teardown, teardown_fs
  <2> QED BY <1>1, <2>1, Zenon
<1>9. CASE Trap
  <2>1. UNCHANGED <<counters, unprinted, printed>> BY <1>9, Zenon DEF Trap, teardown_fs
  <2> QED BY <1>1, <2>1, Zenon
<1>10. ASSUME NEW r \in Runs, MonitorSnapshot(r) PROVE Lines(Written)'
  BY <1>0, <1>10, FdpStatsFacts, Zenon DEF MonitorSnapshot
<1>11. CASE Prints BY <1>0, <1>11, HostPrintsFacts, Zenon DEF Prints
<1>12. CASE UNCHANGED femuVars
  <2>1. UNCHANGED <<counters, unprinted, printed>> BY <1>12, Zenon DEF femuVars
  <2> QED BY <1>1, <2>1, Zenon
<1>13. ASSUME \/ StartRun \/ ClearResults \/ CheckInputs \/ ForkMonitor \/ RecordMonitor \/ Convert
              \/ StopMonitor \/ SaveMetrics \/ Compare \/ Interrupt \/ OrphanEnds
              \/ (\E r \in Runs : MonitorDu(r) \/ MonitorWakes(r)) \/ UNCHANGED vars
       PROVE  UNCHANGED femuVars
  BY <1>13, Zenon DEF StartRun, ClearResults, CheckInputs, ForkMonitor, RecordMonitor, Convert, StopMonitor,
      SaveMetrics, Compare, Interrupt, MonitorDu, MonitorWakes, OrphanEnds, vars
<1> QED BY <1>3, <1>4, <1>5, <1>6, <1>7, <1>8, <1>9, <1>10, <1>11, <1>12, <1>13, Zenon DEF Next, Script, Monitor

LEMMA ShapeStep ==
    ASSUME Shape, TodoInv, [Next]_vars
    PROVE  Shape'
<1>0. /\ sh \in ScriptState /\ results \in [Label -> [run : Nat, waf : Wafs]]
      /\ monitor \in [Runs -> MonitorStep]
  BY Zenon DEF Shape
<1>1. sh' \in ScriptState /\ results' \in [Label -> [run : Nat, waf : Wafs]]
  <2>1. CASE StartRun BY <1>0, <2>1, StartFacts, Zenon DEF StartRun
  <2>2. CASE ClearResults
    <3>1. NoResult \in [run : Nat, waf : Wafs] BY DEF NoResult, Wafs
    <3>2. results' = [results EXCEPT ![Head(sh.todo)] = NoResult] BY <2>2, Zenon DEF ClearResults
    <3>3. results' \in [Label -> [run : Nat, waf : Wafs]] BY <1>0, <3>1, <3>2, Zenon
    <3> QED BY <2>2, <3>3, ScriptSteps, Zenon DEF Moves
  <2>3. CASE SaveMetrics
    <3>1. /\ sh' \in ScriptState
          /\ results' = [results EXCEPT ![Head(sh.todo)] = [run |-> sh.run, waf |-> sh.waf]]
      BY <2>3, SaveFacts, Zenon
    <3>2. [run |-> sh.run, waf |-> sh.waf] \in [run : Nat, waf : Wafs] BY <1>0, Zenon DEF ScriptState
    <3> QED BY <1>0, <3>1, <3>2, Zenon
  <2>4. CASE Compare BY <1>0, <2>4, ScriptSteps, Zenon DEF Moves, Compare
  <2>5. CASE Quiet BY <1>0, <2>5, Zenon DEF Quiet
  <2> QED BY <2>1, <2>2, <2>3, <2>4, <2>5, QuietSteps, Zenon
<1>2. monitor' \in [Runs -> MonitorStep]
  <2>1. ASSUME NEW r, NEW at \in MonitorStep, monitor' = [monitor EXCEPT ![r] = at]
        PROVE  monitor' \in [Runs -> MonitorStep]
    BY <1>0, <2>1, Zenon
  <2>2. CASE ForkMonitor BY <2>1, <2>2, Zenon DEF ForkMonitor, MonitorStep
  <2>3. CASE StopMonitor \/ Trap
    <3>1. monitor' = [r \in Runs |-> IF r = MONITOR_PID THEN "none" ELSE monitor[r]]
      BY <2>3, Zenon DEF StopMonitor, Trap, stop_monitor
    <3> QED BY <1>0, <3>1, Zenon DEF MonitorStep
  <2>4. ASSUME NEW r \in Runs, Monitor(r) PROVE monitor' \in [Runs -> MonitorStep]
    <3>1. \E at \in MonitorStep : monitor' = [monitor EXCEPT ![r] = at]
      BY <2>4, Zenon DEF Monitor, MonitorSnapshot, MonitorDu, MonitorWakes, MonitorStep
    <3> QED BY <2>1, <3>1, Zenon
  <2>5. ASSUME \/ StartRun \/ ClearResults \/ Prepare \/ Reset \/ CheckInputs \/ RecordMonitor \/ Convert
               \/ Import \/ Snapshot \/ ReadWaf \/ Teardown \/ SaveMetrics \/ Compare \/ Interrupt
               \/ OrphanEnds \/ Prints \/ UNCHANGED vars
        PROVE  monitor' = monitor
    BY <2>5, Zenon DEF StartRun, ClearResults, Prepare, Reset, CheckInputs, RecordMonitor, Convert, Import,
        Snapshot, ReadWaf, Teardown, SaveMetrics, Compare, Interrupt, OrphanEnds, Prints, vars, monitorVars
  <2> QED BY <1>0, <2>2, <2>3, <2>4, <2>5, Zenon DEF Next, Script
<1> QED BY <1>1, <1>2, LinesStep, Zenon DEF Shape

-----------------------------------------------------------------------------
(* The monitors *)

LEMMA MonitorKept ==
    ASSUME Shape, TodoInv, MonitorInv, [Next]_vars
    PROVE  MonitorInv'
<1>0. sh \in ScriptState /\ monitor \in [Runs -> MonitorStep] BY Zenon DEF Shape
<1>1. ASSUME NEW p, Moves(p), UNCHANGED monitorVars, sh.pc # "record",
             p \in {"import", "convert", "stop", "trap"} \/ sh.pc \notin {"convert", "import", "stop", "trap"}
      PROVE  MonitorInv'
  BY <1>1, Zenon DEF Moves, MonitorInv, monitorVars
<1>2. CASE StartRun
  <2>1. sh.pc = "down" /\ UNCHANGED <<monitor, unrecorded>> BY <1>2, Zenon DEF StartRun
  <2> QED BY <2>1, Zenon DEF MonitorInv
<1>3. ASSUME ClearResults \/ Prepare \/ Reset \/ CheckInputs \/ Convert \/ Snapshot \/ Teardown \/ Compare
      PROVE  MonitorInv'
  <2>1. UNCHANGED monitorVars
    BY <1>3, Zenon DEF ClearResults, Prepare, Reset, CheckInputs, Convert, Snapshot, Teardown, Compare
  <2> QED BY <1>1, <1>3, <2>1, ScriptSteps, Zenon
<1>4. CASE ForkMonitor
  <2>1. sh'.pc = "record" /\ sh'.run = sh.run /\ sh.pc = "fork" BY <1>4, ScriptSteps, Zenon DEF Moves
  <2>2. monitor' = [monitor EXCEPT ![sh.run] = "snapshot"] /\ unrecorded' = unrecorded
    BY <1>4, Zenon DEF ForkMonitor
  <2>3. \A r \in Runs : r # sh.run => monitor'[r] = monitor[r] BY <1>0, <2>2, Zenon
  <2> QED BY <2>1, <2>2, <2>3, Zenon DEF MonitorInv
<1>5. CASE RecordMonitor
  <2>1. sh'.pc = "convert" /\ sh'.run = sh.run BY <1>5, RecordFacts, Zenon
  <2>2. MONITOR_PID' = sh.run /\ UNCHANGED <<monitor, unrecorded>> BY <1>5, Zenon DEF RecordMonitor
  <2> QED BY <2>1, <2>2, Zenon DEF MonitorInv
<1>6. CASE Import
  <2>1. CASE Moves("trap") BY <1>0, <1>1, <1>6, <2>1, ImportFacts, Zenon
  <2>2. CASE ~Moves("trap")
    <3>1. sh.pc = "import" /\ sh'.pc = "convert" /\ sh'.run = sh.run /\ UNCHANGED monitorVars
      BY <1>0, <1>6, <2>2, ImportFacts, Zenon
    <3> QED BY <3>1, Zenon DEF MonitorInv, monitorVars
  <2> QED BY <2>1, <2>2, Zenon
<1>7. ASSUME stop_monitor, sh.pc \in {"stop", "trap"} PROVE MonitorInv'
  <2>1. monitor' = [r \in Runs |-> IF r = MONITOR_PID THEN "none" ELSE monitor[r]] /\ unrecorded' = unrecorded
    BY <1>7, Zenon DEF stop_monitor
  <2>2. ASSUME NEW r \in Runs, monitor'[r] # "none", r \notin unrecorded' PROVE FALSE
    BY <1>7, <2>1, <2>2, Zenon DEF MonitorInv
  <2> QED BY <2>2, Zenon DEF MonitorInv
<1>8. ASSUME StopMonitor \/ Trap PROVE MonitorInv'
  BY <1>7, <1>8, ScriptSteps, Zenon DEF StopMonitor, Trap
<1>9. CASE ReadWaf
  <2>1. sh.pc = "waf" /\ UNCHANGED monitorVars BY <1>9, ReadFacts, Zenon
  <2> QED BY <2>1, Zenon DEF MonitorInv, monitorVars
<1>10. CASE SaveMetrics
  <2>1. sh.pc = "metrics" /\ UNCHANGED monitorVars BY <1>10, SaveFacts, Zenon
  <2> QED BY <2>1, Zenon DEF MonitorInv, monitorVars
<1>11. CASE Interrupt
  <2>1. sh'.pc = "trap" /\ sh'.run = sh.run BY <1>0, <1>11, InterruptFacts, Zenon DEF Moves
  <2>2. /\ UNCHANGED <<MONITOR_PID, monitor>>
        /\ unrecorded' = IF sh.pc = "record" THEN unrecorded \cup {sh.run} ELSE unrecorded
    BY <1>11, Zenon DEF Interrupt
  <2> QED BY <2>1, <2>2, Zenon DEF MonitorInv
<1>12. ASSUME NEW r \in Runs, Monitor(r) PROVE MonitorInv'
  <2>1. /\ monitor[r] # "none" /\ UNCHANGED <<sh, MONITOR_PID, unrecorded>>
        /\ \E at : monitor' = [monitor EXCEPT ![r] = at]
    BY <1>12, Zenon DEF Monitor, MonitorSnapshot, MonitorDu, MonitorWakes
  <2>2. \A q \in Runs : q # r => monitor'[q] = monitor[q] BY <1>0, <2>1, Zenon
  <2>3. \A q \in Runs : monitor'[q] # "none" => monitor[q] # "none" BY <2>1, <2>2, Zenon
  <2> QED BY <2>1, <2>3, Zenon DEF MonitorInv
<1>13. ASSUME OrphanEnds \/ Prints \/ UNCHANGED vars PROVE MonitorInv'
  <2>1. UNCHANGED <<sh, MONITOR_PID, monitor, unrecorded>> BY <1>13, Zenon DEF OrphanEnds, Prints, vars, monitorVars
  <2> QED BY <2>1, Zenon DEF MonitorInv
<1> QED BY <1>2, <1>3, <1>4, <1>5, <1>6, <1>8, <1>9, <1>10, <1>11, <1>12, <1>13, Zenon DEF Next, Script

-----------------------------------------------------------------------------
(* The blocks that are imported, and what the counters count *)

\* The next chunk starts where this one ends, a multiple of the chunk size unless it
\* is the end.
LEMMA ChunkEndFacts ==
    ASSUME sh.block \in Nat, sh.block < TOTAL_BLOCKS, sh.block % CHUNK_BLOCKS = 0
    PROVE  \/ ChunkEnd < TOTAL_BLOCKS /\ ChunkEnd % CHUNK_BLOCKS = 0
           \/ ChunkEnd = TOTAL_BLOCKS
<1>0. CHUNK_BLOCKS \in Nat \ {0} /\ TOTAL_BLOCKS \in Nat \ {0} BY ReplayAssumption, Zenon
<1>1. ChunkEnd = IF sh.block + CHUNK_BLOCKS <= TOTAL_BLOCKS THEN sh.block + CHUNK_BLOCKS ELSE TOTAL_BLOCKS
  BY <1>0, MinTwo DEF ChunkEnd
<1> DEFINE next == sh.block + CHUNK_BLOCKS
<1>2. next % CHUNK_BLOCKS = 0 /\ next \in Nat BY <1>0, MultipleNext
<1>3. ChunkEnd = IF next <= TOTAL_BLOCKS THEN next ELSE TOTAL_BLOCKS BY <1>1, Zenon
<1> HIDE DEF next
<1>4. CASE next < TOTAL_BLOCKS
  <2>1. ChunkEnd = next BY <1>0, <1>2, <1>3, <1>4
  <2> QED BY <1>2, <1>4, <2>1, Zenon
<1>5. CASE ~(next < TOTAL_BLOCKS) BY <1>0, <1>2, <1>3, <1>5
<1> QED BY <1>4, <1>5, Zenon

LEMMA BlockStep ==
    ASSUME Shape, TodoInv, BlockInv, [Next]_vars
    PROVE  BlockInv'
<1>0. sh \in ScriptState /\ sh.block \in Nat BY Zenon DEF Shape, ScriptState
<1>a. CHUNK_BLOCKS \in Nat \ {0} /\ TOTAL_BLOCKS \in Nat \ {0} BY ReplayAssumption, Zenon
<1>1. ASSUME sh'.pc \notin {"convert", "import"} PROVE BlockInv' BY <1>1, Zenon DEF BlockInv
<1>2. CASE StartRun BY <1>0, <1>1, <1>2, StartFacts, Zenon
<1>3. ASSUME ClearResults \/ Prepare \/ Reset \/ CheckInputs \/ ForkMonitor \/ StopMonitor \/ Snapshot
             \/ Teardown \/ Compare \/ Trap
      PROVE  BlockInv'
  BY <1>1, <1>3, ScriptSteps, Zenon DEF Moves
<1>4. CASE RecordMonitor
  <2>1. sh'.pc = "convert" /\ sh'.block = 0 BY <1>4, RecordFacts, Zenon
  <2>2. 0 % CHUNK_BLOCKS = 0 /\ 0 < TOTAL_BLOCKS BY <1>a
  <2> QED BY <2>1, <2>2, Zenon DEF BlockInv
<1>5. CASE Convert
  <2>1. CASE Moves("import")
    <3>1. sh.pc = "convert" /\ sh'.pc = "import" /\ sh'.block = sh.block BY <1>5, <2>1, ScriptSteps, Zenon DEF Moves
    <3>2. sh.block < TOTAL_BLOCKS BY <1>0, <1>5, <3>1, Zenon DEF Convert, Step, ScriptState
    <3> QED BY <1>0, <1>a, <3>1, <3>2 DEF BlockInv
  <2>2. CASE ~Moves("import") BY <1>1, <1>5, <2>2, ScriptSteps, Zenon DEF Moves
  <2> QED BY <2>1, <2>2, Zenon
<1>6. CASE Import
  <2>1. CASE Moves("trap") BY <1>1, <2>1, Zenon DEF Moves
  <2>2. CASE ~Moves("trap")
    <3>1. sh.pc = "import" /\ sh'.pc = "convert" /\ sh'.block = ChunkEnd BY <1>0, <1>6, <2>2, ImportFacts, Zenon
    <3>2. sh.block < TOTAL_BLOCKS /\ sh.block % CHUNK_BLOCKS = 0 BY <3>1, Zenon DEF BlockInv
    <3> QED BY <1>0, <3>1, <3>2, ChunkEndFacts, Zenon DEF BlockInv
  <2> QED BY <2>1, <2>2, Zenon
<1>7. CASE ReadWaf BY <1>1, <1>7, ReadFacts, Zenon
<1>8. CASE SaveMetrics BY <1>1, <1>8, SaveFacts, Zenon
<1>9. CASE Interrupt BY <1>0, <1>1, <1>9, InterruptFacts, Zenon DEF Moves
<1>10. ASSUME (\E r \in Runs : Monitor(r)) \/ OrphanEnds \/ Prints \/ UNCHANGED vars PROVE BlockInv'
  <2>1. sh' = sh BY <1>10, Zenon DEF Monitor, MonitorSnapshot, MonitorDu, MonitorWakes, OrphanEnds, Prints, vars
  <2> QED BY <2>1, Zenon DEF BlockInv
<1> QED BY <1>2, <1>3, <1>4, <1>5, <1>6, <1>7, <1>8, <1>9, <1>10, Zenon DEF Next, Script

\* Nothing is imported before block 0; all of it when the end is reached.
LEMMA ImportedBounds ==
    ASSUME NEW r, NEW l
    PROVE  /\ Writes(r, l, {b \in Starts : b < 0}) = {}
           /\ Writes(r, l, {b \in Starts : b < TOTAL_BLOCKS}) = [run : {r}, label : {l}, part : Starts]
<1>0. TOTAL_BLOCKS \in Nat \ {0} BY ReplayAssumption, Zenon
<1>1. {b \in Starts : b < 0} = {} BY <1>0 DEF Starts
<1>2. {b \in Starts : b < TOTAL_BLOCKS} = Starts BY <1>0 DEF Starts
<1>3. Writes(r, l, {}) = {} BY Zenon DEF Writes
<1>4. Writes(r, l, Starts) = [run : {r}, label : {l}, part : Starts] BY Zenon DEF Writes
<1> QED BY <1>1, <1>2, <1>3, <1>4, Zenon

LEMMA CountStep ==
    ASSUME Shape, TodoInv, BlockInv, CountInv, [Next]_vars
    PROVE  CountInv'
<1>0. sh \in ScriptState /\ sh.block \in Nat /\ Lines(Written) BY Zenon DEF Shape, ScriptState
<1>1. ASSUME sh'.pc \notin {"check", "fork", "record", "convert", "import", "stop", "snapshot", "waf",
                            "teardown", "metrics"}
      PROVE  CountInv'
  BY <1>1, Zenon DEF CountInv
<1>2. CASE StartRun BY <1>0, <1>1, <1>2, StartFacts, Zenon
<1>3. ASSUME ClearResults \/ Prepare \/ Compare \/ Trap PROVE CountInv'
  BY <1>1, <1>3, ScriptSteps DEF Moves
<1>4. CASE Reset
  <2>1. sh'.pc = "check" BY <1>4, ScriptSteps, Zenon DEF Moves
  <2>2. ~spoiled' => counters' = {} BY <1>0, <1>4, RequestFacts, Zenon DEF Reset, reset_femu_counters
  <2> QED BY <2>1, <2>2, Zenon DEF CountInv
<1>5. ASSUME CheckInputs \/ ForkMonitor PROVE CountInv'
  <2>1. sh.pc \in {"check", "fork"} /\ sh'.pc \in {"fork", "record", "trap"} BY <1>5, ScriptSteps, Zenon DEF Moves
  <2>2. spoiled' = spoiled /\ counters' = counters BY <1>5, Zenon DEF CheckInputs, ForkMonitor, femuVars
  <2> QED BY <2>1, <2>2, Zenon DEF CountInv
<1>6. CASE RecordMonitor
  <2>1. sh.pc = "record" /\ sh'.pc = "convert" /\ sh'.block = 0 BY <1>6, RecordFacts, Zenon
  <2>2. spoiled' = spoiled /\ counters' = counters BY <1>6, Zenon DEF RecordMonitor, femuVars
  <2>3. Imported(sh.block)' = {} BY <2>1, ImportedBounds, Zenon DEF Imported
  <2> QED BY <2>1, <2>2, <2>3, Zenon DEF CountInv
<1>7. CASE Convert
  <2>1. /\ sh.pc = "convert" /\ sh'.pc \in {"stop", "trap", "import"}
        /\ sh'.run = sh.run /\ sh'.todo = sh.todo /\ sh'.block = sh.block
    BY <1>7, ScriptSteps, Zenon DEF Moves
  <2>2. spoiled' = spoiled /\ counters' = counters BY <1>7, Zenon DEF Convert, femuVars
  <2>3. CASE sh'.pc = "import"
    <3>1. Imported(sh.block)' = Imported(sh.block) BY <2>1, Zenon DEF Imported
    <3> QED BY <2>1, <2>2, <2>3, <3>1, Zenon DEF CountInv
  <2>4. CASE sh'.pc = "stop"
    <3>1. sh.block >= TOTAL_BLOCKS BY <1>0, <1>7, <2>1, <2>4, Zenon DEF Convert, Step, ScriptState
    <3>2. sh.block = TOTAL_BLOCKS BY <1>0, <2>1, <3>1, ReplayAssumption DEF BlockInv
    <3>3. Imported(TOTAL_BLOCKS)' = Imported(TOTAL_BLOCKS) BY <2>1, Zenon DEF Imported
    <3> QED BY <2>1, <2>2, <2>4, <3>2, <3>3, Zenon DEF CountInv
  <2> QED BY <1>1, <2>1, <2>3, <2>4, Zenon
<1>8. CASE Import
  <2>1. CASE Moves("trap") BY <1>1, <2>1, Zenon DEF Moves
  <2>2. CASE ~Moves("trap")
    <3>1. /\ sh.pc = "import" /\ sh'.pc = "convert" /\ sh'.block = ChunkEnd
          /\ sh'.run = sh.run /\ sh'.todo = sh.todo
          /\ counters' = counters \cup {Token(sh.block)} /\ spoiled' = spoiled
      BY <1>0, <1>8, <2>2, ImportFacts, Zenon
    <3>2. sh.block < TOTAL_BLOCKS /\ sh.block % CHUNK_BLOCKS = 0 BY <3>1, Zenon DEF BlockInv
    <3>3. Imported(sh.block) \cup {Token(sh.block)} = Imported(ChunkEnd)
      BY <1>0, <3>2, ImportedNext, Zenon DEF ChunkEnd
    <3>4. Imported(sh.block)' = Imported(ChunkEnd) BY <3>1, Zenon DEF Imported
    <3> QED BY <3>1, <3>3, <3>4, Zenon DEF CountInv
  <2> QED BY <2>1, <2>2, Zenon
<1>9. CASE StopMonitor
  <2>1. /\ sh.pc = "stop" /\ sh'.pc = "snapshot" /\ sh'.run = sh.run /\ sh'.todo = sh.todo
    BY <1>9, ScriptSteps, Zenon DEF Moves
  <2>2. spoiled' = spoiled /\ counters' = counters BY <1>9, Zenon DEF StopMonitor, femuVars
  <2>3. Imported(TOTAL_BLOCKS)' = Imported(TOTAL_BLOCKS) BY <2>1, Zenon DEF Imported
  <2> QED BY <2>1, <2>2, <2>3, Zenon DEF CountInv
<1>10. CASE Snapshot
  <2>1. /\ sh.pc = "snapshot" /\ sh'.pc = "waf" /\ sh'.run = sh.run /\ sh'.todo = sh.todo
    BY <1>10, ScriptSteps, Zenon DEF Moves
  <2>2. /\ ~spoiled' => ~spoiled /\ ReadOut'
        /\ counters' = counters
    BY <1>0, <1>10, RequestFacts, Zenon DEF Snapshot, snapshot_femu
  <2>3. Imported(TOTAL_BLOCKS)' = Imported(TOTAL_BLOCKS) BY <2>1, Zenon DEF Imported
  <2> QED BY <2>1, <2>2, <2>3, Zenon DEF CountInv
<1>11. CASE ReadWaf
  <2>1. /\ sh.pc = "waf" /\ sh'.pc = "teardown" /\ sh'.run = sh.run /\ sh'.todo = sh.todo
        /\ get_waf_from_host(sh'.waf)
    BY <1>11, ReadFacts, Zenon
  <2>2. ~spoiled => ReadOut /\ counters = Imported(TOTAL_BLOCKS) BY <2>1, Zenon DEF CountInv
  <2>3. sh'.waf \in {<<>>, Unreliable, <<Imported(TOTAL_BLOCKS)>>}
    <3>1. CASE ~spoiled BY <1>0, <2>1, <2>2, <3>1, GetWafFacts, Zenon
    <3>2. CASE spoiled
      <4>1. sh'.waf \in {<<>>, Unreliable, printed} /\ (sh'.waf = printed => printed = <<>> \/ printed = Unreliable)
        BY <2>1, <3>2, Zenon DEF get_waf_from_host
      <4> QED BY <4>1, Zenon
    <3> QED BY <3>1, <3>2, Zenon
  <2>4. Imported(TOTAL_BLOCKS)' = Imported(TOTAL_BLOCKS) BY <2>1, Zenon DEF Imported
  <2> QED BY <2>1, <2>3, <2>4, Zenon DEF CountInv
<1>12. CASE Teardown
  <2>1. /\ sh.pc = "teardown" /\ sh'.pc = "metrics" /\ sh'.run = sh.run /\ sh'.todo = sh.todo /\ sh'.waf = sh.waf
    BY <1>12, ScriptSteps, Zenon DEF Moves
  <2>2. Imported(TOTAL_BLOCKS)' = Imported(TOTAL_BLOCKS) BY <2>1, Zenon DEF Imported
  <2> QED BY <2>1, <2>2, Zenon DEF CountInv
<1>13. CASE SaveMetrics BY <1>1, <1>13, SaveFacts, Zenon
<1>14. CASE Interrupt BY <1>0, <1>1, <1>14, InterruptFacts, Zenon DEF Moves
<1>15. ASSUME sh' = sh, spoiled' = spoiled, counters' = counters, ReadOut => ReadOut' PROVE CountInv'
  <2>1. Imported(sh.block)' = Imported(sh.block) /\ Imported(TOTAL_BLOCKS)' = Imported(TOTAL_BLOCKS)
    BY <1>15, Zenon DEF Imported
  <2> QED BY <1>15, <2>1, Zenon DEF CountInv
<1>16. ASSUME NEW r \in Runs, MonitorSnapshot(r) PROVE CountInv'
  <2>1. sh' = sh /\ spoiled' = spoiled BY <1>16, Zenon DEF MonitorSnapshot
  <2>2. PICK outcome \in Outcome : fdp_stats(FALSE, outcome) BY <1>16, Zenon DEF MonitorSnapshot
  <2>3. counters' = counters BY <1>0, <2>2, FdpStatsFacts, Zenon
  <2>4. ReadOut => ReadOut'
    <3>1. CASE outcome = "executed" BY <1>0, <2>2, <3>1, FdpStatsFacts, Zenon
    <3>2. CASE outcome # "executed"
      <4>1. UNCHANGED <<counters, unprinted, printed>> BY <2>2, <3>2, Zenon DEF fdp_stats
      <4> QED BY <4>1, Zenon DEF ReadOut
    <3> QED BY <3>1, <3>2, Zenon
  <2> QED BY <1>15, <2>1, <2>3, <2>4, Zenon
<1>17. CASE Prints
  <2>1. sh' = sh BY <1>17, Zenon DEF Prints
  <2>2. spoiled' = spoiled /\ counters' = counters /\ (ReadOut => ReadOut')
    BY <1>0, <1>17, HostPrintsFacts, Zenon DEF Prints
  <2> QED BY <1>15, <2>1, <2>2, Zenon
<1>18. ASSUME (\E r \in Runs : MonitorDu(r) \/ MonitorWakes(r)) \/ OrphanEnds \/ UNCHANGED vars PROVE CountInv'
  <2>1. sh' = sh /\ UNCHANGED <<spoiled, counters, unprinted, printed>>
    BY <1>18, Zenon DEF MonitorDu, MonitorWakes, OrphanEnds, vars, femuVars
  <2>2. ReadOut => ReadOut' BY <2>1, Zenon DEF ReadOut
  <2> QED BY <1>15, <2>1, <2>2, Zenon
<1> QED BY <1>2, <1>3, <1>4, <1>5, <1>6, <1>7, <1>8, <1>9, <1>10, <1>11, <1>12, <1>13, <1>14, <1>16, <1>17, <1>18,
        Zenon DEF Next, Script, Monitor

\* A result is published from the variable the script read it into, and discarded
\* with the directory.
LEMMA WafStep ==
    ASSUME Shape, TodoInv, CountInv, WafExact, [Next]_vars
    PROVE  WafExact'
<1>0. sh \in ScriptState /\ results \in [Label -> [run : Nat, waf : Wafs]] BY Zenon DEF Shape
<1>1. ASSUME results' = results PROVE WafExact' BY <1>1, Zenon DEF WafExact
<1>2. CASE StartRun BY <1>1, <1>2, Zenon DEF StartRun
<1>3. CASE ClearResults
  <2>1. results' = [results EXCEPT ![Head(sh.todo)] = NoResult] /\ NoResult.waf = <<>>
    BY <1>3, Zenon DEF ClearResults, NoResult
  <2>2. ASSUME NEW l \in Label PROVE results'[l] = results[l] \/ results'[l].waf = <<>> BY <1>0, <2>1, Zenon
  <2> QED BY <2>2, Zenon DEF WafExact
<1>4. CASE SaveMetrics
  <2>1. sh.pc = "metrics" /\ results' = [results EXCEPT ![Head(sh.todo)] = [run |-> sh.run, waf |-> sh.waf]]
    BY <1>4, SaveFacts, Zenon
  <2>2. Head(sh.todo) \in Label BY <1>0, <2>1, LabelFacts, Zenon
  <2>3. sh.waf \in {<<>>, Unreliable, <<[run : {sh.run}, label : {Head(sh.todo)}, part : Starts]>>}
    BY <2>1, ImportedBounds, Zenon DEF CountInv, Imported
  <2>4. ASSUME NEW l \in Label, l # Head(sh.todo) PROVE results'[l] = results[l] BY <1>0, <2>1, <2>4, Zenon
  <2>5. results'[Head(sh.todo)].waf = sh.waf /\ results'[Head(sh.todo)].run = sh.run BY <1>0, <2>1, <2>2, Zenon
  <2>6. ASSUME NEW l \in Label, results'[l].waf \notin {<<>>, Unreliable}
        PROVE  results'[l].waf = <<[run : {results'[l].run}, label : {l}, part : Starts]>>
    <3>1. CASE l = Head(sh.todo) BY <2>3, <2>5, <2>6, <3>1, Zenon
    <3>2. CASE l # Head(sh.todo) BY <2>4, <2>6, <3>2, Zenon DEF WafExact
    <3> QED BY <3>1, <3>2, Zenon
  <2> QED BY <2>6, Zenon DEF WafExact
<1>5. CASE Compare BY <1>1, <1>5, Zenon DEF Compare
<1>6. CASE Quiet BY <1>1, <1>6, Zenon DEF Quiet
<1> QED BY <1>2, <1>3, <1>4, <1>5, <1>6, QuietSteps, Zenon

-----------------------------------------------------------------------------
(* The theorems *)

IInv == Shape /\ TodoInv /\ MonitorInv /\ RoundsInv /\ BlockInv /\ CountInv /\ WafExact

LEMMA IInvInit == Init => IInv
<1> SUFFICES ASSUME Init PROVE IInv
  BY Zenon
<1>1. sh = Down /\ monitor = [r \in Runs |-> "none"] /\ results = [l \in Label |-> NoResult] BY Zenon DEF Init
<1>2. /\ sh.pc = "down" /\ \A r \in Runs : monitor[r] = "none"
      /\ \A l \in Label : results[l].waf = <<>>
  BY <1>1, Zenon DEF Down, NoResult
<1>3. TodoInv /\ RoundsInv BY <1>2, Zenon DEF TodoInv, RoundsInv
<1>4. MonitorInv BY <1>2, Zenon DEF MonitorInv
<1>5. BlockInv /\ CountInv BY <1>2, Zenon DEF BlockInv, CountInv
<1>6. WafExact BY <1>2, Zenon DEF WafExact
<1> QED BY <1>3, <1>4, <1>5, <1>6, ShapeInit, Zenon DEF IInv

LEMMA IInvAlways == Spec => []IInv
<1>1. IInv /\ [Next]_vars => IInv'
  BY ShapeStep, RoundsStep, MonitorKept, BlockStep, CountStep, WafStep, Zenon DEF IInv
<1> QED BY <1>1, IInvInit, PTL DEF Spec

\* However an invocation ends, a monitor outlives its import only if the script was
\* interrupted after the fork and before MONITOR_PID was set, also when monitors of
\* earlier invocations run beside it (stop_monitor, cleanup_on_exit).
THEOREM MonitorNeverOutlives == Spec => []MonitorStopped
<1>1. IInv => MonitorStopped BY Zenon DEF IInv, MonitorInv, MonitorStopped
<1> QED BY <1>1, IInvAlways, PTL

\* A published WAF counts exactly the writes of its own round's import, all its
\* chunks and nothing else, as long as the round's requests reached the device and
\* the host printed in time (run_replay, get_waf_from_host).
THEOREM PublishedWafExact == Spec => []WafExact
<1>1. IInv => WafExact BY Zenon DEF IInv
<1> QED BY <1>1, IInvAlways, PTL

\* The results directory is used as Rounds says: a result is discarded before it
\* is replaced, and only results of one invocation are compared.
THEOREM ReplayImplementsRounds == Spec => ImplementsRounds
<1>1. Init => Abstract!Init
  BY DEF Init, Abstract!Init, Down, NoResult
<1>2. ASSUME IInv, [Next]_vars PROVE [Abstract!Next]_(Abstract!roundVars)
  <2>0. /\ Shape /\ TodoInv /\ RoundsInv /\ sh \in ScriptState
        /\ results \in [Label -> [run : Nat, waf : Wafs]]
    BY <1>2, Zenon DEF IInv, Shape
  <2> DEFINE made == [x \in Label |-> results[x].run]
  <2>1. CASE StartRun
    <3>1. sh'.run = sh.run + 1 /\ UNCHANGED <<results, report>> BY <2>0, <2>1, StartFacts, Zenon DEF StartRun
    <3> QED BY <3>1, Zenon DEF Abstract!Next, Abstract!Invoke
  <2>2. CASE ClearResults
    <3>1. sh.pc = "clear" /\ sh'.run = sh.run /\ report' = report
      BY <2>0, <2>2, ScriptSteps, Zenon DEF Moves, ClearResults
    <3>2. PICK l \in Label : l = Head(sh.todo) BY <2>0, <3>1, LabelFacts, Zenon
    <3>3. results' = [results EXCEPT ![Head(sh.todo)] = NoResult] /\ NoResult.run = 0
      BY <2>2, Zenon DEF ClearResults, NoResult
    <3>4. made' = [made EXCEPT ![l] = 0] BY <2>0, <3>2, <3>3, Zenon
    <3>5. Abstract!Discard(l) BY <3>1, <3>4, Zenon DEF Abstract!Discard
    <3> QED BY <3>5, Zenon DEF Abstract!Next
  <2>3. CASE SaveMetrics
    <3>1. /\ sh.pc = "metrics" /\ sh'.run = sh.run /\ report' = report
          /\ results' = [results EXCEPT ![Head(sh.todo)] = [run |-> sh.run, waf |-> sh.waf]]
      BY <2>0, <2>3, SaveFacts, Zenon
    <3>2. PICK l \in Label : l = Head(sh.todo) BY <2>0, <3>1, LabelFacts, Zenon
    <3>3. made[l] = 0 BY <2>0, <3>1, <3>2, Zenon DEF RoundsInv
    <3>4. made' = [made EXCEPT ![l] = sh.run] BY <2>0, <3>1, <3>2, Zenon
    <3>5. Abstract!Publish(l) BY <3>1, <3>3, <3>4, Zenon DEF Abstract!Publish
    <3> QED BY <3>5, Zenon DEF Abstract!Next
  <2>4. CASE Compare
    <3>1. /\ sh.pc = "compare" /\ sh'.run = sh.run /\ results' = results /\ report' = sh.run
      BY <2>0, <2>4, ScriptSteps, Zenon DEF Moves, Compare
    <3>2. \A l \in Label : made[l] = sh.run BY <2>0, <3>1, Zenon DEF RoundsInv
    <3>3. Abstract!Compare BY <3>1, <3>2, Zenon DEF Abstract!Compare
    <3> QED BY <3>3, Zenon DEF Abstract!Next
  <2>5. CASE Quiet BY <2>5, Zenon DEF Quiet, Abstract!roundVars
  <2> QED BY <1>2, <2>0, <2>1, <2>2, <2>3, <2>4, <2>5, QuietSteps, Zenon
<1> QED BY <1>1, <1>2, IInvAlways, PTL DEF Spec, ImplementsRounds, Abstract!Spec
=============================================================================
