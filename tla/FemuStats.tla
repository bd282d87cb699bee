----------------------------- MODULE FemuStats -----------------------------
(***************************************************************************)
(* What every benchmark script shares (common/env.sh, common/fdp_stats.cc): *)
(* the file system on the FDP device, the write counters of the emulated   *)
(* flash translation layer, and the one way a script has to read them.     *)
(* fdp_stats asks the device to print its counters; the line appears in    *)
(* the log of the HOST, in the order of the requests but in its own time,  *)
(* and the script reads the last line of that log over ssh.  Every failure *)
(* on the way is ignored (|| true).  A write is a token of the work that   *)
(* made it, so that a counter value says whose writes it counts; it is     *)
(* counted when it is made: the page cache is not modelled.                *)
(***************************************************************************)
EXTENDS Naturals, Sequences

CONSTANT MaxBehind      \* bound: lines the host may still have to print

VARIABLES
    mounted,    \* the file system is mounted
    counters,   \* the writes the device's counters have counted
    unprinted,  \* lines the host has still to write to its log
    printed,    \* <<the last WAF line of the log>>, or <<>> when there is none
    spoiled     \* this round lost a request or read the log before its line was there

femuVars == <<mounted, counters, unprinted, printed, spoiled>>

FemuInit ==
    /\ mounted = FALSE /\ counters = {} /\ spoiled = FALSE
    /\ unprinted = <<>> /\ printed = <<>>

\* One run of fdp_stats: the command is executed, or refused (only warned
\* about: the exit status and the message are those of success), or never
\* sent because the device could not be opened.
fdp_stats(reset, outcome) ==
    /\ Len(unprinted) < MaxBehind
    /\ counters' = IF reset /\ outcome = "executed" THEN {} ELSE counters
    /\ unprinted' = IF outcome = "executed" THEN Append(unprinted, counters) ELSE unprinted
    /\ UNCHANGED <<mounted, printed>>

Outcome == {"executed", "refused", "unopened"}

\* The script's own requests; what goes wrong is not noticed.
Request(reset) ==
    \E outcome \in Outcome :
        /\ fdp_stats(reset, outcome)
        /\ spoiled' = (spoiled \/ outcome # "executed")

reset_femu_counters == Request(TRUE)
snapshot_femu == Request(FALSE)

\* The host gets round to its next line.
HostPrints ==
    /\ unprinted # <<>>
    /\ printed' = <<Head(unprinted)>> /\ unprinted' = Tail(unprinted)
    /\ UNCHANGED <<mounted, counters, spoiled>>

\* A number in a round that is spoiled: whose writes it counts is left open.
Unreliable == <<{}, {}>>

\* The value read is the last line, or "N/A" (<<>>) when ssh fails or other
\* messages have pushed the line out of the last 100.
get_waf_from_host(waf) ==
    /\ spoiled' = (spoiled \/ unprinted # <<>>)
    /\ waf \in {IF spoiled' /\ printed # <<>> THEN Unreliable ELSE printed, <<>>}
    /\ UNCHANGED <<mounted, counters, unprinted, printed>>

\* The workload writes.
Write(tokens) ==
    /\ counters' = counters \cup tokens
    /\ UNCHANGED <<mounted, unprinted, printed, spoiled>>

\* umount fails while the file system is busy, and its failure is ignored; mkfs
\* fails on a mounted device, which ends the script.  Formatting writes, too.
prepare_fs(busy, tokens) ==
    /\ ~(mounted /\ busy)
    /\ mounted' = TRUE
    /\ counters' = counters \cup tokens
    /\ spoiled' = FALSE
    /\ UNCHANGED <<unprinted, printed>>

mkfs_fails(busy) ==
    /\ mounted' = (mounted /\ busy)
    /\ UNCHANGED <<counters, unprinted, printed, spoiled>>

\* The device is formatted, and then the mount fails, or chmod after it.
mount_fails(busy, tokens) ==
    /\ ~(mounted /\ busy)
    /\ mounted' \in BOOLEAN
    /\ counters' = counters \cup tokens
    /\ UNCHANGED <<unprinted, printed, spoiled>>

\* sync has nothing left to write: a write is counted when it is made.
teardown_fs(busy) ==
    /\ mounted' = (mounted /\ busy)
    /\ UNCHANGED <<counters, unprinted, printed, spoiled>>
=============================================================================
