--------------------------- MODULE TestnetProofs ---------------------------
(***************************************************************************)
(* Proofs about the Ethereum testnet benchmark: what kill_el_cl reaches,   *)
(* and that the results directory is used as Rounds says, for any number   *)
(* of invocations, any length of the chain and any delay of the host.      *)
(***************************************************************************)
EXTENDS Testnet, TLAPS

\* The steps that start a round's processes and those that use them, ...
Starting == {"reset", "fork", "record", "rpc", "bn", "api", "vc", "pids"}
Working == {"seed", "start", "defi", "end", "burst", "count", "snapshot"}
\* ... those of kill_el_cl and teardown_fs, and those around a round.
Ending == {"lighthouse", "geth", "ports", "teardown"}
Around == {"clear", "prepare", "metrics", "compare"}
Steps == Starting \cup Working \cup Ending \cup Around \cup {"down"}

\* The configurations still to do.
Rest == {<<"non-fdp", "fdp">>, <<"fdp">>, <<>>}

ScriptState ==
    [run : Nat, todo : Rest, pc : Steps, trap : BOOLEAN,
     start : Nat, end : Nat, counted : SUBSET Nat]
El == [geth : {"no", "starting", "up", "closing"}, cur : BOOLEAN]
Cl == [bn : {"no", "starting", "up"}, vc : {"no", "up"}, pids : BOOLEAN]

\* What the proofs need to know of the types of the variables.
Shape ==
    /\ sh \in ScriptState /\ el \in El /\ cl \in Cl
    /\ height \in Nat /\ report \in Nat
    /\ results \in [Label -> Nat]

LEMMA RestFacts ==
    /\ Head(<<"non-fdp", "fdp">>) = "non-fdp" /\ Tail(<<"non-fdp", "fdp">>) = <<"fdp">>
    /\ Head(<<"fdp">>) = "fdp" /\ Tail(<<"fdp">>) = <<>>
    /\ <<"fdp">> # <<>> /\ <<"non-fdp", "fdp">> # <<>> /\ <<"non-fdp", "fdp">> # <<"fdp">>
OBVIOUS

-----------------------------------------------------------------------------
(* How a step changes the record of the script *)

\* The script goes to another step of the same round ...
Moves(p) ==
    /\ sh' \in ScriptState /\ sh'.pc = p
    /\ sh'.run = sh.run /\ sh'.todo = sh.todo /\ sh'.trap = sh.trap

\* ... or to the EXIT trap ...
Dies ==
    /\ sh' \in ScriptState /\ sh'.pc = "lighthouse" /\ sh'.trap = TRUE
    /\ sh'.run = sh.run /\ sh'.todo = sh.todo

\* ... or to the next round or the comparison.
NextRound ==
    /\ sh' \in ScriptState /\ sh'.run = sh.run /\ sh'.trap = sh.trap /\ sh'.todo = Tail(sh.todo)
    /\ sh'.pc = IF Tail(sh.todo) # <<>> THEN "clear" ELSE "compare"

LEMMA StepMoves ==
    ASSUME sh \in ScriptState, NEW from, NEW to \in Steps, Step(from, to)
    PROVE  sh.pc = from /\ Moves(to)
BY Zenon DEF Step, Moves, ScriptState

LEMMA DieDies ==
    ASSUME sh \in ScriptState, Die
    PROVE  Dies
BY Zenon DEF Die, Dies, ScriptState, Steps, Ending

LEMMA CountMoves ==
    ASSUME sh \in ScriptState, CountConfirmed
    PROVE  sh.pc = "count" /\ Moves("snapshot")
<1>1. PICK answered \in SUBSET (IF sh.end > sh.start THEN Batches(sh.start, sh.end) ELSE {}) :
         sh' = [sh EXCEPT !.pc = "snapshot", !.counted = UNION answered]
  BY Zenon DEF CountConfirmed
<1>2. UNION answered \in SUBSET Nat
  <2>1. sh.start \in Nat /\ sh.end \in Nat /\ BatchSize \in Nat BY TestnetAssumption, Zenon DEF ScriptState
  <2>2. ASSUME NEW b \in Batches(sh.start, sh.end) PROVE b \subseteq Nat
    <3>1. PICK i \in 0 .. (sh.end - sh.start - 1) \div BatchSize :
             b = (sh.start + 1 + i * BatchSize) .. Min({sh.start + (i + 1) * BatchSize, sh.end})
      BY Zenon DEF Batches
    <3>2. sh.start + 1 + i * BatchSize \in Nat BY <2>1
    <3> QED BY <3>1, <3>2
  <2> QED BY <2>2, Zenon
<1>3. "snapshot" \in Steps BY Zenon DEF Steps, Working
<1> HIDE DEF Steps
<1>4. sh' \in ScriptState BY <1>1, <1>2, <1>3, Zenon DEF ScriptState
<1> QED BY <1>1, <1>4, Zenon DEF CountConfirmed, Moves, ScriptState
-----------------------------------------------------------------------------
(* Types *)

\* A round that is being made is the first of those still to do.
TodoInv ==
    IF sh.trap THEN sh.pc \in Ending \cup {"down"}
    ELSE sh.pc # "down" => (sh.pc = "compare" <=> sh.todo = <<>>)

LEMMA ShapeInit == Init => Shape
<1> SUFFICES ASSUME Init PROVE Shape
  BY Zenon
<1>1. sh \in ScriptState BY Zenon DEF Init, Down, ScriptState, Rest, Steps
<1>2. el \in El BY Zenon DEF Init, NoGeth, El
<1>3. cl \in Cl BY Zenon DEF Init, NoCl, Cl
<1>4. height \in Nat /\ report \in Nat /\ results \in [Label -> Nat] BY Zenon DEF Init
<1> QED BY <1>1, <1>2, <1>3, <1>4, Zenon DEF Shape

\* The next invocation starts with both rounds to do, whatever the last one left.
LEMMA StartFacts ==
    ASSUME sh \in ScriptState, StartRun
    PROVE  /\ sh' \in ScriptState /\ sh'.run = sh.run + 1 /\ sh'.pc = "clear" /\ sh'.trap = FALSE
           /\ sh'.todo = <<"non-fdp", "fdp">>
<1>1. sh' = [run |-> sh.run + 1, todo |-> <<"non-fdp", "fdp">>, pc |-> "clear", trap |-> FALSE,
             start |-> 0, end |-> 0, counted |-> {}]
  BY Zenon DEF StartRun, Down
<1>2. <<"non-fdp", "fdp">> \in Rest /\ "clear" \in Steps BY Zenon DEF Rest, Steps, Around
<1>3. sh.run + 1 \in Nat BY DEF ScriptState
<1> QED BY <1>1, <1>2, <1>3, Zenon DEF ScriptState

\* What a step of the script does to its record, and where it is taken.
LEMMA ScriptSteps ==
    ASSUME Shape
    PROVE  /\ ClearResults => sh.pc = "clear" /\ Moves("prepare")
           /\ Prepare => sh.pc = "prepare" /\ (Moves("reset") \/ Dies)
           /\ ResetAndCheck => sh.pc = "reset" /\ (Moves("fork") \/ Dies)
           /\ ForkGeth => sh.pc = "fork" /\ Moves("record")
           /\ RecordGeth => sh.pc = "record" /\ Moves("rpc")
           /\ WaitRpc => sh.pc = "rpc" /\ (Moves("bn") \/ Dies)
           /\ StartBn => sh.pc = "bn" /\ (Moves("api") \/ Dies)
           /\ WaitApi => sh.pc = "api" /\ (Moves("vc") \/ Dies)
           /\ StartVc => sh.pc = "vc" /\ (Moves("pids") \/ Dies)
           /\ WritePids => sh.pc = "pids" /\ Moves("seed")
           /\ Seed => sh.pc = "seed" /\ (Moves("start") \/ Dies)
           /\ OpenWindow => sh.pc = "start" /\ Moves("defi")
           /\ Defi => sh.pc = "defi" /\ (Moves("end") \/ Dies)
           /\ CloseWindow => sh.pc = "end" /\ Moves("burst")
           /\ Burst => sh.pc = "burst" /\ (Moves("count") \/ Dies)
           /\ CountConfirmed => sh.pc = "count" /\ Moves("snapshot")
           /\ Snapshot => sh.pc = "snapshot" /\ Moves("lighthouse")
           /\ KillLighthouse => sh.pc = "lighthouse" /\ Moves("geth")
           /\ KillGeth => sh.pc = "geth" /\ (sh' = sh \/ Moves("ports"))
           /\ KillPorts => sh.pc = "ports" /\ Moves("teardown")
           /\ Teardown => sh.pc = "teardown" /\ (IF sh.trap THEN Moves("down") ELSE Moves("metrics"))
           /\ SaveMetrics => sh.pc = "metrics" /\ (sh.todo # <<>> => NextRound)
           /\ Compare => sh.pc = "compare" /\ Dies
           /\ Interrupt => sh.pc # "down" /\ ~sh.trap /\ Dies
<1>0. sh \in ScriptState BY Zenon DEF Shape
<1>a. Starting \cup Working \cup Ending \cup Around \cup {"down"} \subseteq Steps BY Zenon DEF Steps
<1>1. ClearResults => sh.pc = "clear" /\ Moves("prepare") BY <1>0, <1>a, StepMoves, Zenon DEF ClearResults, Around
<1>2. Prepare => sh.pc = "prepare" /\ (Moves("reset") \/ Dies)
  <2>1. Prepare => sh.pc = "prepare" /\ (Step("prepare", "reset") \/ Die) BY Zenon DEF Prepare, Step
  <2>2. "reset" \in Steps BY <1>a, Zenon DEF Starting
  <2> QED BY <1>0, <2>1, <2>2, StepMoves, DieDies, Zenon
<1>3. ResetAndCheck => sh.pc = "reset" /\ (Moves("fork") \/ Dies)
  BY <1>0, <1>a, StepMoves, DieDies, Zenon DEF ResetAndCheck, StepOrDie, Starting
<1>4. ForkGeth => sh.pc = "fork" /\ Moves("record") BY <1>0, <1>a, StepMoves, Zenon DEF ForkGeth, Starting
<1>5. RecordGeth => sh.pc = "record" /\ Moves("rpc") BY <1>0, <1>a, StepMoves, Zenon DEF RecordGeth, Starting
<1>6. WaitRpc => sh.pc = "rpc" /\ (Moves("bn") \/ Dies) BY <1>0, <1>a, StepMoves, DieDies, Zenon DEF WaitRpc, Starting
<1>7. StartBn => sh.pc = "bn" /\ (Moves("api") \/ Dies) BY <1>0, <1>a, StepMoves, DieDies, Zenon DEF StartBn, Starting
<1>8. WaitApi => sh.pc = "api" /\ (Moves("vc") \/ Dies) BY <1>0, <1>a, StepMoves, DieDies, Zenon DEF WaitApi, Starting
<1>9. StartVc => sh.pc = "vc" /\ (Moves("pids") \/ Dies) BY <1>0, <1>a, StepMoves, DieDies, Zenon DEF StartVc, Starting
<1>10. WritePids => sh.pc = "pids" /\ Moves("seed") BY <1>0, <1>a, StepMoves, Zenon DEF WritePids, Working
<1>11. Seed => sh.pc = "seed" /\ (Moves("start") \/ Dies) BY <1>0, <1>a, StepMoves, DieDies, Zenon DEF Seed, StepOrDie, Working
<1>b. BlockNumber \subseteq Nat BY DEF BlockNumber, Shape
<1>12. OpenWindow => sh.pc = "start" /\ Moves("defi")
  <2> SUFFICES ASSUME OpenWindow PROVE sh.pc = "start" /\ Moves("defi")
    BY Zenon
  <2>1. PICK n \in BlockNumber : sh' = [sh EXCEPT !.pc = "defi", !.start = n]
    BY Zenon DEF OpenWindow
  <2>2. n \in Nat /\ height \in Nat /\ "defi" \in Steps BY <1>a, <1>b, Zenon DEF Working, Shape
  <2> HIDE DEF Steps
  <2>3. sh' \in ScriptState BY <1>0, <2>1, <2>2, Zenon DEF ScriptState
  <2> QED BY <1>0, <2>1, <2>3, Zenon DEF OpenWindow, Moves, ScriptState
<1>13. Defi => sh.pc = "defi" /\ (Moves("end") \/ Dies) BY <1>0, <1>a, StepMoves, DieDies, Zenon DEF Defi, Working
<1>14. CloseWindow => sh.pc = "end" /\ Moves("burst")
  <2> SUFFICES ASSUME CloseWindow PROVE sh.pc = "end" /\ Moves("burst")
    BY Zenon
  <2>1. PICK n \in BlockNumber : sh' = [sh EXCEPT !.pc = "burst", !.end = n] BY Zenon DEF CloseWindow
  <2>2. n \in Nat /\ "burst" \in Steps BY <1>a, <1>b, Zenon DEF Working
  <2> HIDE DEF Steps
  <2>3. sh' \in ScriptState BY <1>0, <2>1, <2>2, Zenon DEF ScriptState
  <2> QED BY <1>0, <2>1, <2>3, Zenon DEF CloseWindow, Moves, ScriptState
<1>15. Burst => sh.pc = "burst" /\ (Moves("count") \/ Dies)
  BY <1>0, <1>a, StepMoves, DieDies, Zenon DEF Burst, StepOrDie, Working
<1>16. CountConfirmed => sh.pc = "count" /\ Moves("snapshot") BY <1>0, CountMoves, Zenon
<1>17. Snapshot => sh.pc = "snapshot" /\ Moves("lighthouse") BY <1>0, <1>a, StepMoves, Zenon DEF Snapshot, Ending
<1>18. KillLighthouse => sh.pc = "lighthouse" /\ Moves("geth")
  BY <1>0, <1>a, StepMoves, Zenon DEF KillLighthouse, Ending
<1>19. KillGeth => sh.pc = "geth" /\ (sh' = sh \/ Moves("ports"))
  BY <1>0, <1>a, StepMoves, Zenon DEF KillGeth, Ending
<1>20. KillPorts => sh.pc = "ports" /\ Moves("teardown") BY <1>0, <1>a, StepMoves, Zenon DEF KillPorts, Ending
<1>21. Teardown => sh.pc = "teardown" /\ (IF sh.trap THEN Moves("down") ELSE Moves("metrics"))
  <2>1. "down" \in Steps /\ "metrics" \in Steps BY <1>a, Zenon DEF Around
  <2>2. Teardown /\ sh.trap => Step("teardown", "down") BY Zenon DEF Teardown, Step
  <2>3. Teardown /\ ~sh.trap => Step("teardown", "metrics") BY Zenon DEF Teardown, Step
  <2> QED BY <1>0, <2>1, <2>2, <2>3, StepMoves, Zenon
<1>22. SaveMetrics => sh.pc = "metrics" /\ (sh.todo # <<>> => NextRound)
  <2> SUFFICES ASSUME SaveMetrics, sh.todo # <<>> PROVE NextRound
    BY Zenon DEF SaveMetrics
  <2>1. Tail(sh.todo) \in Rest BY <1>0, RestFacts, Zenon DEF ScriptState, Rest
  <2>2. "clear" \in Steps /\ "compare" \in Steps BY <1>a, Zenon DEF Around
  <2> DEFINE to == IF Tail(sh.todo) # <<>> THEN "clear" ELSE "compare"
             rest == Tail(sh.todo)
  <2>3. sh' = [sh EXCEPT !.todo = rest, !.pc = to] BY <1>0, Zenon DEF SaveMetrics
  <2>4. to \in Steps /\ rest \in Rest BY <2>1, <2>2, Zenon
  <2> HIDE DEF Steps, to, rest
  <2>5. sh' \in ScriptState /\ sh'.run = sh.run /\ sh'.trap = sh.trap /\ sh'.todo = rest /\ sh'.pc = to
    BY <1>0, <2>3, <2>4, Zenon DEF ScriptState
  <2> QED BY <2>5, Zenon DEF NextRound, to, rest
<1>23. Compare => sh.pc = "compare" /\ Dies BY <1>0, DieDies, Zenon DEF Compare
<1>24. Interrupt => sh.pc # "down" /\ ~sh.trap /\ Dies BY <1>0, DieDies, Zenon DEF Interrupt
<1> QED BY <1>1, <1>2, <1>3, <1>4, <1>5, <1>6, <1>7, <1>8, <1>9, <1>10, <1>11, <1>12, <1>13, <1>14,
           <1>15, <1>16, <1>17, <1>18, <1>19, <1>20, <1>21, <1>22, <1>23, <1>24

\* prepare_fs, and what the script does when it fails.
LEMMA PrepareFacts ==
    ASSUME Shape, Prepare
    PROVE  /\ UNCHANGED <<el, churn, results, report>>
           /\ \/ /\ cl' = [cl EXCEPT !.pids = FALSE] /\ height' = 0
                 /\ (Moves("reset") /\ mounted') \/ Dies
              \/ /\ Dies /\ cl' = cl /\ height' = height
                 /\ mounted' <=> (mounted /\ Busy)
<1>1. UNCHANGED <<el, churn, results, report>> BY Zenon DEF Prepare
<1>2. CASE /\ prepare_fs(Busy, {}) /\ sh' = [sh EXCEPT !.pc = "reset"]
           /\ cl' = [cl EXCEPT !.pids = FALSE] /\ height' = 0
  <2>1. mounted' BY <1>2, Zenon DEF prepare_fs
  <2>2. Step("prepare", "reset") /\ "reset" \in Steps BY <1>2, Zenon DEF Prepare, Step, Steps, Starting
  <2>3. Moves("reset") BY <2>2, StepMoves, Zenon DEF Shape
  <2> QED BY <1>1, <1>2, <2>1, <2>3, Zenon
<1>3. CASE mkfs_fails(Busy) /\ Die /\ UNCHANGED <<cl, height>>
  <2>1. mounted' <=> (mounted /\ Busy) BY <1>3, Zenon DEF mkfs_fails
  <2>2. Dies BY <1>3, DieDies, Zenon DEF Shape
  <2> QED BY <1>1, <1>3, <2>1, <2>2, Zenon
<1>4. CASE mount_fails(Busy, {}) /\ Die /\ cl' = [cl EXCEPT !.pids = FALSE] /\ height' = 0
  <2>1. Dies BY <1>4, DieDies, Zenon DEF Shape
  <2> QED BY <1>1, <1>4, <2>1, Zenon
<1> QED BY <1>2, <1>3, <1>4, Zenon DEF Prepare

LEMMA ShapeStep == Shape /\ TodoInv /\ [Next]_vars => Shape'
<1> SUFFICES ASSUME Shape, TodoInv, [Next]_vars PROVE Shape'
  BY Zenon
<1>0. /\ sh \in ScriptState /\ el \in El /\ cl \in Cl
      /\ height \in Nat /\ report \in Nat /\ results \in [Label -> Nat] /\ sh.run \in Nat
  BY Zenon DEF Shape, ScriptState
<1>a. ASSUME NEW p, Moves(p) PROVE sh' \in ScriptState BY <1>a, Zenon DEF Moves
<1>b. Dies => sh' \in ScriptState BY Zenon DEF Dies
<1>c. NextRound => sh' \in ScriptState BY Zenon DEF NextRound
<1>1. CASE StartRun BY <1>0, <1>1, StartFacts, Zenon DEF StartRun, Shape, El
<1>2. CASE ClearResults BY <1>0, <1>2, <1>a, <1>b, ScriptSteps, Zenon DEF ClearResults, Shape
<1>3. CASE Prepare
  <2>1. sh' \in ScriptState BY <1>3, <1>a, <1>b, ScriptSteps, Zenon
  <2>2. [cl EXCEPT !.pids = FALSE] \in Cl BY <1>0, Zenon DEF Cl
  <2>3. \/ cl' = [cl EXCEPT !.pids = FALSE] /\ height' = 0
        \/ cl' = cl /\ height' = height
    BY <1>3, PrepareFacts, Zenon
  <2>4. cl' \in Cl BY <1>0, <2>2, <2>3, Zenon
  <2>5. height' \in Nat BY <1>0, <2>3
  <2> QED BY <1>0, <1>3, <2>1, <2>4, <2>5, PrepareFacts, Zenon DEF Shape
<1>4. CASE ResetAndCheck BY <1>0, <1>4, <1>a, <1>b, ScriptSteps, Zenon DEF ResetAndCheck, Shape
<1>5. CASE ForkGeth BY <1>0, <1>5, <1>a, <1>b, ScriptSteps, Zenon DEF ForkGeth, Shape, El
<1>6. CASE RecordGeth BY <1>0, <1>6, <1>a, <1>b, ScriptSteps, Zenon DEF RecordGeth, Shape, El
<1>7. CASE WaitRpc BY <1>0, <1>7, <1>a, <1>b, ScriptSteps, Zenon DEF WaitRpc, Shape
<1>8. CASE StartBn BY <1>0, <1>8, <1>a, <1>b, ScriptSteps, Zenon DEF StartBn, Shape, Cl
<1>9. CASE WaitApi BY <1>0, <1>9, <1>a, <1>b, ScriptSteps, Zenon DEF WaitApi, Shape
<1>10. CASE StartVc BY <1>0, <1>10, <1>a, <1>b, ScriptSteps, Zenon DEF StartVc, Shape, Cl
<1>11. CASE WritePids BY <1>0, <1>11, <1>a, <1>b, ScriptSteps, Zenon DEF WritePids, Shape, Cl
<1>12. CASE Seed BY <1>0, <1>12, <1>a, <1>b, ScriptSteps, Zenon DEF Seed, Shape
<1>13. CASE OpenWindow BY <1>0, <1>13, <1>a, <1>b, ScriptSteps, Zenon DEF OpenWindow, Shape
<1>14. CASE Defi BY <1>0, <1>14, <1>a, <1>b, ScriptSteps DEF Defi, Shape
<1>15. CASE CloseWindow BY <1>0, <1>15, <1>a, <1>b, ScriptSteps, Zenon DEF CloseWindow, Shape
<1>16. CASE Burst BY <1>0, <1>16, <1>a, <1>b, ScriptSteps, Zenon DEF Burst, Shape
<1>17. CASE CountConfirmed BY <1>0, <1>17, <1>a, <1>b, ScriptSteps, Zenon DEF CountConfirmed, Shape
<1>18. CASE Snapshot BY <1>0, <1>18, <1>a, <1>b, ScriptSteps, Zenon DEF Snapshot, Shape
<1>19. CASE KillLighthouse BY <1>0, <1>19, <1>a, <1>b, ScriptSteps, Zenon DEF KillLighthouse, Shape, Cl
<1>20. CASE KillGeth BY <1>0, <1>20, <1>a, <1>b, ScriptSteps, Zenon DEF KillGeth, Shape, El, geth_wait_over
<1>21. CASE KillPorts BY <1>0, <1>21, <1>a, <1>b, ScriptSteps, Zenon DEF KillPorts, Shape, El, Cl
<1>22. CASE Teardown BY <1>0, <1>22, <1>a, <1>b, ScriptSteps, Zenon DEF Teardown, Shape, El
<1>23. CASE SaveMetrics 
  <2>1. sh.pc = "metrics" /\ (sh.todo # <<>> => NextRound) BY <1>23, ScriptSteps, Zenon
  <2>2. sh.todo # <<>> BY <2>1, Zenon DEF TodoInv, Ending
  <2>3. sh' \in ScriptState BY <1>c, <2>1, <2>2, Zenon
  <2> QED BY <1>0, <1>23, <2>3, Zenon DEF SaveMetrics, Shape
<1>24. CASE Compare BY <1>0, <1>24, <1>a, <1>b, ScriptSteps, Zenon DEF Compare, Shape
<1>25. CASE Interrupt BY <1>0, <1>25, <1>a, <1>b, ScriptSteps, Zenon DEF Interrupt, Shape
<1>26. CASE GethUp BY <1>0, <1>26, Zenon DEF GethUp, Shape, El
<1>27. CASE GethCloses BY <1>0, <1>27, Zenon DEF GethCloses, Shape, El
<1>28. CASE BnUp BY <1>0, <1>28, Zenon DEF BnUp, Shape, Cl
<1>29. CASE NewBlock BY <1>0, TestnetAssumption, <1>29 DEF NewBlock, Shape
<1>30. CASE ChurnTimesOut BY <1>0, <1>30, Zenon DEF ChurnTimesOut, Shape
<1>31. CASE Prints BY <1>0, <1>31, Zenon DEF Prints, Shape
<1>32. CASE UNCHANGED vars BY <1>0, <1>32, Zenon DEF vars, Shape
<1> QED BY <1>1, <1>2, <1>3, <1>4, <1>5, <1>6, <1>7, <1>8, <1>9, <1>10, <1>11, <1>12, <1>13, <1>14, <1>15, <1>16, <1>17, <1>18, <1>19, <1>20, <1>21, <1>22, <1>23, <1>24, <1>25, <1>26, <1>27, <1>28, <1>29, <1>30, <1>31, <1>32, Zenon DEF Next, Script

-----------------------------------------------------------------------------
(* What is killed *)

\* Whenever kill_el_cl is past the file lighthouse.pids, and wherever that file is
\* no longer on the mounted file system, nothing it names runs; CUR_GETH_PID is
\* only set while a geth may run that this invocation started.
KillInv ==
    /\ sh.pc \in Around \cup {"reset", "fork", "record"} => ~el.cur
    /\ sh.pc \in {"ports", "teardown", "down"} /\ el.cur => el.geth = "no"
    /\ sh.pc \in Starting => ~cl.pids
    /\ sh.pc \in Starting \cup Working => mounted
    /\ cl.pids /\ (~mounted \/ sh.pc \in Around \cup {"geth", "ports", "teardown", "down"}) =>
          cl.bn = "no" /\ cl.vc = "no"

LEMMA KillStep == Shape /\ TodoInv /\ KillInv /\ [Next]_vars => KillInv'
<1> SUFFICES ASSUME Shape, TodoInv, KillInv, [Next]_vars PROVE KillInv'
  BY Zenon
<1>0. sh \in ScriptState /\ el \in El /\ cl \in Cl BY Zenon DEF Shape
<1> USE DEF KillInv, Starting, Working, Around
<1>1. CASE StartRun BY <1>0, <1>1, StartFacts, Zenon DEF StartRun, El, Cl, femuVars
<1>2. CASE ClearResults
  <2>1. sh.pc = "clear" /\ Moves("prepare") BY <1>2, ScriptSteps, Zenon
  <2> QED BY <1>0, <1>2, <2>1, Zenon DEF ClearResults, Moves, Dies, El, Cl, femuVars
<1>3. CASE Prepare
  <2>1. CASE Moves("reset") /\ cl' = [cl EXCEPT !.pids = FALSE] /\ mounted'
    <3>1. sh'.pc = "reset" /\ ~cl'.pids /\ el' = el BY <1>0, <1>3, <2>1, PrepareFacts, Zenon DEF Moves, Cl
    <3> QED BY <1>0, <1>3, <2>1, <3>1, ScriptSteps, Zenon
  <2>2. CASE Dies /\ cl' = cl /\ (mounted' <=> (mounted /\ Busy))
    <3>1. sh'.pc = "lighthouse" /\ el' = el BY <1>3, <2>2, PrepareFacts, Zenon DEF Dies
    <3> QED BY <1>0, <2>2, <3>1, Zenon DEF Busy
  <2>3. CASE Dies /\ cl' = [cl EXCEPT !.pids = FALSE]
    <3>1. sh'.pc = "lighthouse" /\ el' = el /\ ~cl'.pids BY <1>0, <1>3, <2>3, PrepareFacts, Zenon DEF Dies, Cl
    <3> QED BY <3>1, Zenon
  <2> QED BY <1>3, <2>1, <2>2, <2>3, PrepareFacts, Zenon
<1>4. CASE ResetAndCheck
  <2>1. sh.pc = "reset" /\ (Moves("fork") \/ Dies) BY <1>4, ScriptSteps, Zenon
  <2> QED BY <1>0, <1>4, <2>1 DEF ResetAndCheck, Moves, Dies, El, Cl, reset_femu_counters, Request, fdp_stats
<1>5. CASE ForkGeth
  <2>1. sh.pc = "fork" /\ Moves("record") BY <1>5, ScriptSteps, Zenon
  <2> QED BY <1>0, <1>5, <2>1, Zenon DEF ForkGeth, Moves, Dies, El, Cl, femuVars
<1>6. CASE RecordGeth
  <2>1. sh.pc = "record" /\ Moves("rpc") BY <1>6, ScriptSteps, Zenon
  <2> QED BY <1>0, <1>6, <2>1, Zenon DEF RecordGeth, Moves, Dies, El, Cl, femuVars
<1>7. CASE WaitRpc
  <2>1. sh.pc = "rpc" /\ (Moves("bn") \/ Dies) BY <1>7, ScriptSteps, Zenon
  <2> QED BY <1>0, <1>7, <2>1, Zenon DEF WaitRpc, Moves, Dies, El, Cl, femuVars
<1>8. CASE StartBn
  <2>1. sh.pc = "bn" /\ (Moves("api") \/ Dies) BY <1>8, ScriptSteps, Zenon
  <2> QED BY <1>0, <1>8, <2>1, Zenon DEF StartBn, Moves, Dies, El, Cl, femuVars
<1>9. CASE WaitApi
  <2>1. sh.pc = "api" /\ (Moves("vc") \/ Dies) BY <1>9, ScriptSteps, Zenon
  <2> QED BY <1>0, <1>9, <2>1, Zenon DEF WaitApi, Moves, Dies, El, Cl, femuVars
<1>10. CASE StartVc
  <2>1. sh.pc = "vc" /\ (Moves("pids") \/ Dies) BY <1>10, ScriptSteps, Zenon
  <2> QED BY <1>0, <1>10, <2>1, Zenon DEF StartVc, Moves, Dies, El, Cl, femuVars
<1>11. CASE WritePids
  <2>1. sh.pc = "pids" /\ Moves("seed") BY <1>11, ScriptSteps, Zenon
  <2> QED BY <1>0, <1>11, <2>1, Zenon DEF WritePids, Moves, Dies, El, Cl, femuVars
<1>12. CASE Seed
  <2>1. sh.pc = "seed" /\ (Moves("start") \/ Dies) BY <1>12, ScriptSteps, Zenon
  <2> QED BY <1>0, <1>12, <2>1 DEF Seed, Moves, Dies, El, Cl, snapshot_femu, Request, fdp_stats
<1>13. CASE OpenWindow
  <2>1. sh.pc = "start" /\ Moves("defi") BY <1>13, ScriptSteps, Zenon
  <2> QED BY <1>0, <1>13, <2>1, Zenon DEF OpenWindow, Moves, Dies, El, Cl, femuVars
<1>14. CASE Defi
  <2>1. sh.pc = "defi" /\ (Moves("end") \/ Dies) BY <1>14, ScriptSteps, Zenon
  <2> QED BY <1>0, <1>14, <2>1, Zenon DEF Defi, Moves, Dies, El, Cl, femuVars
<1>15. CASE CloseWindow
  <2>1. sh.pc = "end" /\ Moves("burst") BY <1>15, ScriptSteps, Zenon
  <2> QED BY <1>0, <1>15, <2>1 DEF CloseWindow, Moves, Dies, El, Cl, snapshot_femu, Request, fdp_stats
<1>16. CASE Burst
  <2>1. sh.pc = "burst" /\ (Moves("count") \/ Dies) BY <1>16, ScriptSteps, Zenon
  <2> QED BY <1>0, <1>16, <2>1, Zenon DEF Burst, Moves, Dies, El, Cl, femuVars
<1>17. CASE CountConfirmed
  <2>1. sh.pc = "count" /\ Moves("snapshot") BY <1>17, ScriptSteps, Zenon
  <2> QED BY <1>0, <1>17, <2>1, Zenon DEF CountConfirmed, Moves, Dies, El, Cl, femuVars
<1>18. CASE Snapshot
  <2>1. sh.pc = "snapshot" /\ Moves("lighthouse") BY <1>18, ScriptSteps, Zenon
  <2> QED BY <1>0, <1>18, <2>1 DEF Snapshot, Moves, Dies, El, Cl, snapshot_femu, Request, fdp_stats
<1>19. CASE KillLighthouse
  <2>1. sh.pc = "lighthouse" /\ Moves("geth") BY <1>19, ScriptSteps, Zenon
  <2> QED BY <1>0, <1>19, <2>1, Zenon DEF KillLighthouse, Moves, Dies, El, Cl, femuVars
<1>20. CASE KillGeth
  <2>1. sh.pc = "geth" /\ (sh' = sh \/ Moves("ports")) BY <1>20, ScriptSteps, Zenon
  <2> QED BY <1>0, <1>20, <2>1, Zenon DEF KillGeth, Moves, Dies, El, Cl, femuVars, geth_wait_over
<1>21. CASE KillPorts
  <2>1. sh.pc = "ports" /\ Moves("teardown") BY <1>21, ScriptSteps, Zenon
  <2> QED BY <1>0, <1>21, <2>1, Zenon DEF KillPorts, Moves, Dies, El, Cl, femuVars
<1>22. CASE Teardown
  <2>1. sh.pc = "teardown" /\ (IF sh.trap THEN Moves("down") ELSE Moves("metrics")) BY <1>22, ScriptSteps, Zenon
  <2> QED BY <1>0, <1>22, <2>1, Zenon DEF Teardown, Moves, Dies, El, Cl, teardown_fs, Busy
<1>23. CASE SaveMetrics
  <2>1. sh.pc = "metrics" /\ (sh.todo # <<>> => NextRound) BY <1>23, ScriptSteps, Zenon
  <2> QED BY <1>0, <1>23, <2>1 DEF SaveMetrics, NextRound, TodoInv, Ending, El, Cl, femuVars
<1>24. CASE Compare
  <2>1. sh.pc = "compare" /\ Dies BY <1>24, ScriptSteps, Zenon
  <2> QED BY <1>0, <1>24, <2>1, Zenon DEF Compare, Moves, Dies, El, Cl, femuVars
<1>25. CASE Interrupt
  <2>1. sh.pc # "down" /\ ~sh.trap /\ Dies BY <1>25, ScriptSteps, Zenon
  <2> QED BY <1>0, <1>25, <2>1, Zenon DEF Interrupt, Moves, Dies, El, Cl, femuVars
<1>26. CASE GethUp BY <1>0, <1>26, Zenon DEF GethUp, El, Cl, femuVars
<1>27. CASE GethCloses BY <1>0, <1>27, Zenon DEF GethCloses, El, Cl, femuVars
<1>28. CASE BnUp BY <1>0, <1>28, Zenon DEF BnUp, El, Cl, femuVars
<1>29. CASE NewBlock BY <1>0, <1>29, Zenon DEF NewBlock, El, Cl, femuVars
<1>30. CASE ChurnTimesOut BY <1>0, <1>30, Zenon DEF ChurnTimesOut, El, Cl, femuVars
<1>31. CASE Prints BY <1>0, <1>31, Zenon DEF Prints, El, Cl, HostPrints
<1>32. CASE UNCHANGED vars BY <1>0, <1>32, Zenon DEF vars, femuVars
<1> QED BY <1>1, <1>2, <1>3, <1>4, <1>5, <1>6, <1>7, <1>8, <1>9, <1>10, <1>11, <1>12, <1>13, <1>14, <1>15, <1>16, <1>17, <1>18, <1>19, <1>20, <1>21, <1>22, <1>23, <1>24, <1>25, <1>26, <1>27, <1>28, <1>29, <1>30, <1>31, <1>32, Zenon DEF Next, Script

-----------------------------------------------------------------------------
(* The steps that matter to the results *)

\* The script goes on within a round, or to the trap, or does nothing.
Quiet ==
    /\ UNCHANGED <<results, report>>
    /\ \/ sh' = sh
       \/ Dies
       \/ \E q \in Steps \ {"clear", "compare"} :
              /\ Moves(q) /\ sh.pc \notin {"clear", "compare", "down"}
              /\ sh.trap => q \in Ending \cup {"down"}

LEMMA QuietSteps ==
    ASSUME Shape, TodoInv, [Next]_vars
    PROVE  StartRun \/ ClearResults \/ SaveMetrics \/ Compare \/ Quiet
<1>a. Steps \ {"clear", "compare"} =
        Starting \cup Working \cup Ending \cup {"prepare", "metrics", "down"}
  BY Zenon DEF Steps, Starting, Working, Ending, Around
<1> USE DEF TodoInv, Starting, Working, Ending
<1>1. ASSUME ResetAndCheck \/ ForkGeth \/ RecordGeth PROVE Quiet
  BY <1>a, <1>1, ScriptSteps, Zenon DEF Quiet, ResetAndCheck, ForkGeth, RecordGeth
<1>2. ASSUME WaitRpc \/ StartBn \/ WaitApi PROVE Quiet
  BY <1>a, <1>2, ScriptSteps, Zenon DEF Quiet, WaitRpc, StartBn, WaitApi
<1>3. ASSUME StartVc \/ WritePids \/ Seed PROVE Quiet
  BY <1>a, <1>3, ScriptSteps, Zenon DEF Quiet, StartVc, WritePids, Seed
<1>4. ASSUME CloseWindow \/ Burst \/ CountConfirmed PROVE Quiet
  BY <1>a, <1>4, ScriptSteps, Zenon DEF Quiet, CloseWindow, Burst, CountConfirmed
<1>5. ASSUME Snapshot \/ KillLighthouse \/ KillGeth PROVE Quiet
  BY <1>a, <1>5, ScriptSteps, Zenon DEF Quiet, Snapshot, KillLighthouse, KillGeth
<1>6. ASSUME KillPorts \/ Teardown \/ Interrupt PROVE Quiet
  BY <1>a, <1>6, ScriptSteps, Zenon DEF Quiet, KillPorts, Teardown, Interrupt
<1>7. CASE Prepare BY <1>a, <1>7, ScriptSteps, PrepareFacts, Zenon DEF Quiet
<1>8. ASSUME GethUp \/ GethCloses \/ BnUp \/ NewBlock \/ ChurnTimesOut \/ Prints PROVE Quiet
  BY <1>8, Zenon DEF Quiet, GethUp, GethCloses, BnUp, NewBlock, ChurnTimesOut, Prints
<1>9. CASE UNCHANGED vars BY <1>9, Zenon DEF Quiet, vars
<1>10. ASSUME OpenWindow \/ Defi PROVE Quiet
  BY <1>a, <1>10, ScriptSteps, Zenon DEF Quiet, OpenWindow, Defi
<1> QED BY <1>1, <1>2, <1>3, <1>4, <1>5, <1>6, <1>7, <1>8, <1>9, <1>10, Zenon DEF Next, Script

-----------------------------------------------------------------------------
(* The results directory *)

\* The result of the round that is being made has been discarded, the one before
\* it is this invocation's, and the script compares when both are.
RoundsInv ==
    ~sh.trap /\ sh.pc # "down" =>
        /\ sh.todo = <<"fdp">> => results["non-fdp"] = sh.run
        /\ sh.todo = <<>> => \A l \in Label : results[l] = sh.run
        /\ sh.pc \notin {"clear", "compare"} => results[label] = 0
LEMMA TodoStep == Shape /\ TodoInv /\ [Next]_vars => TodoInv'
<1> SUFFICES ASSUME Shape, TodoInv, [Next]_vars PROVE TodoInv'
  BY Zenon
<1>0. sh \in ScriptState /\ sh.todo \in Rest /\ sh.trap \in BOOLEAN BY Zenon DEF Shape, ScriptState
<1> USE DEF TodoInv
<1>1. CASE StartRun BY <1>0, <1>1, StartFacts, RestFacts, Zenon
<1>2. CASE ClearResults
  <2>1. sh.pc = "clear" /\ Moves("prepare") BY <1>2, ScriptSteps, Zenon
  <2> QED BY <1>0, <2>1, Zenon DEF Moves, Ending
<1>3. CASE SaveMetrics
  <2>1. sh.pc = "metrics" /\ (sh.todo # <<>> => NextRound) BY <1>3, ScriptSteps, Zenon
  <2>2. sh.todo # <<>> /\ ~sh.trap BY <2>1, Zenon DEF Ending
  <2> QED BY <1>0, <2>1, <2>2, Zenon DEF NextRound
<1>4. CASE Compare
  <2>1. Dies BY <1>4, ScriptSteps, Zenon
  <2> QED BY <2>1, Zenon DEF Dies, Ending
<1>5. CASE Quiet
  <2>1. CASE Dies BY <2>1, Zenon DEF Dies, Ending
  <2>2. CASE sh' = sh BY <2>2, Zenon
  <2>3. ASSUME NEW q \in Steps \ {"clear", "compare"}, Moves(q),
               sh.pc \notin {"clear", "compare", "down"},
               sh.trap => q \in Ending \cup {"down"}
        PROVE  TodoInv'
    <3>1. sh'.pc = q /\ sh'.trap = sh.trap /\ sh'.todo = sh.todo BY <2>3, Zenon DEF Moves
    <3> QED BY <2>3, <3>1, Zenon
  <2> QED BY <1>5, <2>1, <2>2, <2>3, Zenon DEF Quiet
<1> QED BY <1>1, <1>2, <1>3, <1>4, <1>5, QuietSteps, Zenon

\* The label of the round being made, and what is left after it.
LEMMA LabelFacts ==
    ASSUME sh \in ScriptState, sh.todo # <<>>
    PROVE  /\ label \in Label
           /\ \/ sh.todo = <<"non-fdp", "fdp">> /\ label = "non-fdp" /\ Tail(sh.todo) = <<"fdp">>
              \/ sh.todo = <<"fdp">> /\ label = "fdp" /\ Tail(sh.todo) = <<>>
<1>1. sh.todo = <<"non-fdp", "fdp">> \/ sh.todo = <<"fdp">> BY Zenon DEF ScriptState, Rest
<1> QED BY <1>1, RestFacts, Zenon DEF label, Label

LEMMA RoundsStep == Shape /\ TodoInv /\ RoundsInv /\ [Next]_vars => RoundsInv'
<1> SUFFICES ASSUME Shape, TodoInv, RoundsInv, [Next]_vars PROVE RoundsInv'
  BY Zenon
<1>0. /\ sh \in ScriptState /\ sh.todo \in Rest /\ sh.trap \in BOOLEAN /\ sh.run \in Nat
      /\ results \in [Label -> Nat]
  BY Zenon DEF Shape, ScriptState
<1>1. CASE StartRun BY <1>0, <1>1, StartFacts, RestFacts, Zenon DEF RoundsInv
<1>2. CASE ClearResults
  <2>1. sh.pc = "clear" /\ Moves("prepare") BY <1>2, ScriptSteps, Zenon
  <2>2. sh.todo # <<>> /\ ~sh.trap BY <2>1, Zenon DEF TodoInv, Ending
  <2>3. label' = label BY <2>1, Zenon DEF label, Moves
  <2>4. results' = [results EXCEPT ![label] = 0] BY <1>2, Zenon DEF ClearResults
  <2> QED BY <1>0, <2>1, <2>2, <2>3, <2>4, LabelFacts, RestFacts, Zenon DEF Moves, RoundsInv, Label
<1>3. CASE SaveMetrics
  <2>1. sh.pc = "metrics" /\ (sh.todo # <<>> => NextRound) BY <1>3, ScriptSteps, Zenon
  <2>2. sh.todo # <<>> /\ ~sh.trap BY <2>1, Zenon DEF TodoInv, Ending
  <2>3. results' = [results EXCEPT ![label] = sh.run] BY <1>3, Zenon DEF SaveMetrics
  <2>4. sh.todo = <<"fdp">> => results["non-fdp"] = sh.run BY <2>1, <2>2, Zenon DEF RoundsInv
  <2> QED BY <1>0, <2>1, <2>2, <2>3, <2>4, LabelFacts, RestFacts, Zenon DEF NextRound, RoundsInv, Label
<1>4. CASE Compare
  <2>1. Dies BY <1>4, ScriptSteps, Zenon
  <2> QED BY <2>1, Zenon DEF Dies, RoundsInv
<1>5. CASE Quiet
  <2>1. CASE Dies BY <2>1, Zenon DEF Dies, RoundsInv
  <2>2. CASE sh' = sh BY <1>5, <2>2, Zenon DEF Quiet, RoundsInv, label
  <2>3. ASSUME NEW q \in Steps \ {"clear", "compare"}, Moves(q),
               sh.pc \notin {"clear", "compare", "down"}
        PROVE  RoundsInv'
    <3>1. sh'.trap = sh.trap /\ sh'.todo = sh.todo /\ sh'.run = sh.run /\ label' = label
      BY <2>3, Zenon DEF Moves, label
    <3>2. results' = results BY <1>5, Zenon DEF Quiet
    <3> QED BY <2>3, <3>1, <3>2, Zenon DEF RoundsInv
  <2> QED BY <1>5, <2>1, <2>2, <2>3, Zenon DEF Quiet
<1> QED BY <1>1, <1>2, <1>3, <1>4, <1>5, QuietSteps, Zenon

-----------------------------------------------------------------------------
(* The theorems *)

IInv == Shape /\ TodoInv /\ KillInv /\ RoundsInv

LEMMA IInvInit == Init => IInv
<1> SUFFICES ASSUME Init PROVE IInv
  BY Zenon
<1>1. sh = Down /\ el = NoGeth /\ cl = NoCl BY Zenon DEF Init
<1>2. sh.pc = "down" /\ sh.run = 0 /\ ~sh.trap /\ ~el.cur /\ ~cl.pids
  BY <1>1, Zenon DEF Down, NoGeth, NoCl
<1>3. TodoInv BY <1>2, Zenon DEF TodoInv
<1>4. KillInv BY <1>2, Zenon DEF KillInv, Around, Starting, Working
<1>5. RoundsInv BY <1>2, Zenon DEF RoundsInv
<1> QED BY <1>3, <1>4, <1>5, ShapeInit, Zenon DEF IInv

LEMMA IInvAlways == Spec => []IInv
<1>1. IInv /\ [Next]_vars => IInv'
  BY ShapeStep, TodoStep, KillStep, RoundsStep, Zenon DEF IInv
<1> QED BY <1>1, IInvInit, PTL DEF Spec

\* When the script is over, however it ended, nothing that CUR_GETH_PID or
\* lighthouse.pids names runs any more (kill_el_cl as the EXIT trap).
THEOREM NothingRecordedSurvives == Spec => []RecordedKilled
<1>1. IInv => RecordedKilled BY Zenon DEF IInv, KillInv, RecordedKilled
<1> QED BY <1>1, IInvAlways, PTL

\* The results directory is used as Rounds says: a result is discarded before it
\* is replaced, and only results of one invocation are compared.
THEOREM TestnetImplementsRounds == Spec => ImplementsRounds
<1>1. Init => Abstract!Init
  BY DEF Init, Abstract!Init, Down
<1>2. ASSUME IInv, [Next]_vars PROVE [Abstract!Next]_(Abstract!roundVars)
  <2>0. Shape /\ TodoInv /\ RoundsInv /\ sh \in ScriptState BY <1>2, Zenon DEF IInv, Shape
  <2>1. CASE StartRun
    <3>1. sh'.run = sh.run + 1 /\ UNCHANGED <<results, report>> BY <2>0, <2>1, StartFacts, Zenon DEF StartRun
    <3> QED BY <3>1, Zenon DEF Abstract!Next, Abstract!Invoke
  <2>2. CASE ClearResults
    <3>1. sh.pc = "clear" /\ Moves("prepare") BY <2>0, <2>2, ScriptSteps, Zenon
    <3>2. sh.todo # <<>> BY <2>0, <3>1, Zenon DEF TodoInv, Ending
    <3>3. label \in Label BY <2>0, <3>2, LabelFacts, Zenon
    <3>4. Abstract!Discard(label) BY <2>2, <3>1, Zenon DEF ClearResults, Moves, Abstract!Discard
    <3> QED BY <3>3, <3>4, Zenon DEF Abstract!Next
  <2>3. ASSUME sh'.run = sh.run, UNCHANGED <<results, report>> PROVE UNCHANGED Abstract!roundVars
    BY <2>3, Zenon DEF Abstract!roundVars
  <2>4. CASE SaveMetrics
    <3>1. sh.pc = "metrics" /\ (sh.todo # <<>> => NextRound) BY <2>0, <2>4, ScriptSteps, Zenon
    <3>2. sh.todo # <<>> /\ ~sh.trap BY <2>0, <3>1, Zenon DEF TodoInv, Ending
    <3>3. label \in Label BY <2>0, <3>2, LabelFacts, Zenon
    <3>4. results[label] = 0 BY <2>0, <3>1, <3>2, Zenon DEF RoundsInv
    <3>5. Abstract!Publish(label)
      BY <2>4, <3>1, <3>2, <3>4, Zenon DEF SaveMetrics, NextRound, Abstract!Publish
    <3> QED BY <3>3, <3>5, Zenon DEF Abstract!Next
  <2>5. CASE Compare
    <3>1. sh.pc = "compare" /\ Dies BY <2>0, <2>5, ScriptSteps, Zenon
    <3>2. sh.todo = <<>> /\ ~sh.trap BY <2>0, <3>1, Zenon DEF TodoInv, Ending
    <3>3. \A l \in Label : results[l] = sh.run BY <2>0, <3>1, <3>2, Zenon DEF RoundsInv
    <3>4. Abstract!Compare BY <2>5, <3>1, <3>3, Zenon DEF Compare, Dies, Abstract!Compare
    <3> QED BY <3>4, Zenon DEF Abstract!Next
  <2>6. CASE Quiet BY <2>3, <2>6, Zenon DEF Quiet, Moves, Dies
  <2> QED BY <1>2, <2>0, <2>1, <2>2, <2>4, <2>5, <2>6, QuietSteps, Zenon
<1> QED BY <1>1, <1>2, IInvAlways, PTL DEF Spec, ImplementsRounds, Abstract!Spec
=============================================================================
