------------------------------- MODULE Turns -------------------------------
(***************************************************************************)
(* What a container gets from the companion, as the timed models see it:   *)
(* the abstract specification of the pass loop of companion.rs (fn run).   *)
(*                                                                         *)
(* In every pass each client has exactly one turn, and turns do not        *)
(* overlap.  A turn is an inspection and then a publication, or ends       *)
(* without one; a pass is over when all turns are.  A client's entry is    *)
(* written in its own turn only, after an inspection in the same turn, and *)
(* otherwise only lapses.  The process may die at any time.                *)
(*                                                                         *)
(* Companion implements this for all explicit containers of a docker       *)
(* network and whatever happens around them; Lease and Supervision         *)
(* implement it for one container with clocks.                             *)
(***************************************************************************)
CONSTANT Clients

VARIABLES
    phase,  \* "pass", "rest" between passes, or "down"
    step,   \* each client's turn: "todo", "inspected" or "done"
    held    \* whether each client has an entry in redis

vars == <<phase, step, held>>

AllAre(state) == [n \in Clients |-> state]

Init ==
    /\ phase \in {"pass", "rest", "down"}
    /\ step = AllAre("done")
    /\ held \in [Clients -> BOOLEAN]

Begin ==
    /\ phase # "pass" /\ phase' = "pass"
    /\ step' = AllAre("todo")
    /\ UNCHANGED held

Inspect(n) ==
    /\ phase = "pass" /\ step[n] = "todo"
    /\ \A m \in Clients : step[m] # "inspected"
    /\ step' = [step EXCEPT ![n] = "inspected"]
    /\ UNCHANGED <<phase, held>>

Publish(n) ==
    /\ phase = "pass" /\ step[n] = "inspected"
    /\ step' = [step EXCEPT ![n] = "done"]
    /\ held' = [held EXCEPT ![n] = TRUE]
    /\ UNCHANGED phase

(* The inspection has failed or shown that there is nothing to publish, or *)
(* the publication has failed; one that took effect even so (the answer    *)
(* got lost) is a Publish here.                                            *)
GoWithout(n) ==
    /\ phase = "pass" /\ step[n] # "done"
    /\ step' = [step EXCEPT ![n] = "done"]
    /\ UNCHANGED <<phase, held>>

End ==
    /\ phase = "pass" /\ step = AllAre("done")
    /\ phase' = "rest"
    /\ UNCHANGED <<step, held>>

Die ==
    /\ phase # "down" /\ phase' = "down"
    /\ step' = AllAre("done")
    /\ UNCHANGED held

Boot ==
    /\ phase = "down" /\ phase' = "rest"
    /\ UNCHANGED <<step, held>>

Lapse(n) ==
    /\ held[n]
    /\ held' = [held EXCEPT ![n] = FALSE]
    /\ UNCHANGED <<phase, step>>

Next ==
    \/ Begin \/ End \/ Die \/ Boot
    \/ \E n \in Clients : Inspect(n) \/ Publish(n) \/ GoWithout(n) \/ Lapse(n)

Spec == Init /\ [][Next]_vars
=============================================================================
