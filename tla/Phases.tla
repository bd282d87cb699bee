------------------------------- MODULE Phases -------------------------------
(***************************************************************************)
(* What --save-objects and --load-objects promise across runs of the Sui   *)
(* load generator, without the steps that bring it about: a run measures   *)
(* only once every worker has gas, a fresh run owns keys nobody else has,  *)
(* and a loading run goes on with the keys of the saved file and with no   *)
(* object that file does not name.  LoadSetup implements it.               *)
(***************************************************************************)
EXTENDS Naturals

CONSTANT Worker

VARIABLES
    phase,      \* "down", "setup", "measuring" or "saving"
    used,       \* sets of key pairs generated so far
    identity,   \* the set of key pairs of the current run, 0 when down
    gas,        \* the workers of the current run that have a gas coin of theirs
    tracked,    \* tracked[w]: objects worker w may update
    saved       \* the file: its identity (0: no usable file) and objects

phaseVars == <<phase, used, identity, gas, tracked, saved>>

Nothing == [w \in Worker |-> {}]
NoFile == [identity |-> 0, tracked |-> Nothing]

Init ==
    /\ phase = "down" /\ used = 0 /\ identity = 0
    /\ gas = {} /\ tracked = Nothing /\ saved = NoFile

\* A run starts, with new keys or with the ones of a usable file.
Start ==
    /\ phase = "down" /\ phase' = "setup"
    /\ \/ used' = used + 1 /\ identity' = used'
       \/ used' = used /\ saved # NoFile /\ identity' = saved.identity
    /\ UNCHANGED <<gas, tracked, saved>>

\* The measured phase begins, for all workers at once.
Begin ==
    /\ phase = "setup" /\ phase' = "measuring"
    /\ gas' = Worker
    /\ tracked' \in [Worker -> SUBSET Nat]
    /\ identity = saved.identity => \A w \in Worker : tracked'[w] \subseteq saved.tracked[w]
    /\ UNCHANGED <<used, identity, saved>>

Work ==
    /\ phase = "measuring"
    /\ tracked' \in [Worker -> SUBSET Nat]
    /\ UNCHANGED <<phase, used, identity, gas, saved>>

BeginSave ==
    /\ phase = "measuring" /\ phase' = "saving"
    /\ saved' = NoFile
    /\ UNCHANGED <<used, identity, gas, tracked>>

Quit ==
    /\ phase # "down" /\ phase' = "down"
    /\ identity' = 0 /\ gas' = {} /\ tracked' = Nothing
    /\ UNCHANGED used

EndSave == phase = "saving" /\ saved' = [identity |-> identity, tracked |-> tracked] /\ Quit
Stop == UNCHANGED saved /\ Quit

Next == Start \/ Begin \/ Work \/ BeginSave \/ EndSave \/ Stop

Spec == Init /\ [][Next]_phaseVars
=============================================================================
