--------------------------- MODULE LivenessOracle ---------------------------
(***************************************************************************)
(* What the caller liveness tracker promises about exit signals, with no  *)
(* kqueue, dispatch loop, registry or watcher in sight.                   *)
(*                                                                         *)
(* Processes exit and PIDs are reused.  The tracker arms exit signals,    *)
(* each one for a PID and the incarnation of the PID current when it is  *)
(* armed, and fires them.  It promises two things:                        *)
(*   - a signal fires only after its incarnation has terminated, even if  *)
(*     the PID has been reused since (the TOCTOU guarantee);              *)
(*   - a PID has at most one pending signal: a second one is armed only   *)
(*     after the first has fired, and every watcher of the PID shares the *)
(*     pending one (the dedup of the registry).                           *)
(* A signal that has fired stays fired.                                    *)
(***************************************************************************)
EXTENDS Naturals

CONSTANTS
    Pids,     \* the PIDs
    Signals,  \* the signals the tracker can ever arm
    MaxInc    \* bound on how often one PID is reused

VARIABLES
    alive,    \* alive[p]: the current occupant of PID p is running
    inc,      \* inc[p]: which occupant of PID p is current
    sigOf,    \* the armed signals: sigOf[s] is the [pid, inc] it was armed for
    fired     \* the signals that have fired

vars == <<alive, inc, sigOf, fired>>

(* The incarnation a signal was armed for has terminated.                 *)
Terminated(a) == inc[a.pid] > a.inc \/ ~alive[a.pid]

(* The signal of PID p that has not fired yet, if any.                    *)
Pending(p) == {s \in DOMAIN sigOf \ fired : sigOf[s].pid = p}

Init ==
    /\ alive = [p \in Pids |-> TRUE]
    /\ inc = [p \in Pids |-> 0]
    /\ sigOf = [s \in {} |-> [pid |-> 0, inc |-> 0]]
    /\ fired = {}

Exit(p) ==
    /\ alive[p]
    /\ alive' = [alive EXCEPT ![p] = FALSE]
    /\ UNCHANGED <<inc, sigOf, fired>>

Spawn(p) ==
    /\ ~alive[p]
    /\ inc[p] < MaxInc
    /\ alive' = [alive EXCEPT ![p] = TRUE]
    /\ inc' = [inc EXCEPT ![p] = @ + 1]
    /\ UNCHANGED <<sigOf, fired>>

(* A new signal s for the current incarnation of p, when p has none       *)
(* pending.                                                                *)
Arm(p, s) ==
    /\ s \in Signals \ DOMAIN sigOf
    /\ Pending(p) = {}
    /\ sigOf' = [t \in DOMAIN sigOf \cup {s} |->
                    IF t = s THEN [pid |-> p, inc |-> inc[p]] ELSE sigOf[t]]
    /\ UNCHANGED <<alive, inc, fired>>

(* Some pending signals fire together, each after its incarnation ended.  *)
Fire(S) ==
    /\ S # {}
    /\ S \subseteq DOMAIN sigOf \ fired
    /\ \A s \in S : Terminated(sigOf[s])
    /\ fired' = fired \cup S
    /\ UNCHANGED <<alive, inc, sigOf>>

Next ==
    \/ \E p \in Pids : Exit(p) \/ Spawn(p) \/ \E s \in Signals : Arm(p, s)
    \/ \E S \in SUBSET Signals : Fire(S)

Spec == Init /\ [][Next]_vars

=============================================================================
