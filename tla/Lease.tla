------------------------------- MODULE Lease -------------------------------
(***************************************************************************)
(* The registration of one container as a lease: every pass that gets to   *)
(* publish it writes its key with a time to live (SETEX), and nothing else *)
(* keeps the key alive.  WaitLoop supplies the passes and the time between *)
(* them; here one container is followed through them, until it goes away.  *)
(***************************************************************************)
EXTENDS WaitLoop

CONSTANT Expire     \* expire_seconds

ASSUME ExpireAssumption == Expire \in Nat \ {0}

VARIABLES
    step,       \* this pass: "todo", "inspected" or "done" with the container
    ttl,        \* what is left of the key's time to live, 0 when it is gone
    missed,     \* passes in a row that failed to renew the key
    gone,       \* docker no longer shows the container
    sinceGone   \* history: for how long

leaseVars == <<step, ttl, missed, gone, sinceGone>>
vars == <<clockVars, leaseVars>>

TypeOK ==
    /\ WaitTypeOK
    /\ step \in {"todo", "inspected", "done"}
    /\ ttl \in 0..Expire
    /\ missed \in 0..1
    /\ gone \in BOOLEAN
    /\ sinceGone \in Nat

(* The container has just been published by the first pass.                *)
Init ==
    /\ WaitInit
    /\ step = "done"
    /\ ttl = Expire
    /\ missed = 0
    /\ gone = FALSE
    /\ sinceGone = 0

-----------------------------------------------------------------------------
(* One refresh_container *)

(* Mutant: an earlier inspection is used again. *)
Inspect_cached ==
    /\ phase = "pass" /\ step = "todo"
    /\ step' = "inspected"
    /\ UNCHANGED <<clockVars, ttl, missed, gone, sinceGone>>

Inspect ==
    /\ phase = "pass" /\ step = "todo" /\ ~gone
    /\ step' = "inspected"
    /\ UNCHANGED <<clockVars, ttl, missed, gone, sinceGone>>

(* Mutant: the value is written without renewing the time to live.         *)
Publish_keeps_ttl ==
    /\ phase = "pass" /\ step = "inspected"
    /\ step' = "done"
    /\ missed' = 0
    /\ UNCHANGED <<clockVars, ttl, gone, sinceGone>>

(* What was inspected is published, even if the container has gone since.  *)
Publish ==
    /\ phase = "pass" /\ step = "inspected"
    /\ step' = "done"
    /\ ttl' = Expire
    /\ missed' = 0
    /\ UNCHANGED <<clockVars, gone, sinceGone>>

(* Inspection or publication fails, but not in two passes in a row.        *)
Miss ==
    /\ phase = "pass" /\ step # "done" /\ ~gone
    /\ missed = 0
    /\ step' = "done"
    /\ missed' = 1
    /\ UNCHANGED <<clockVars, ttl, gone, sinceGone>>

(* The container is not there, or its publication fails: no matter now.    *)
SkipGone ==
    /\ phase = "pass" /\ step # "done" /\ gone
    /\ step' = "done"
    /\ UNCHANGED <<clockVars, ttl, missed, gone, sinceGone>>

-----------------------------------------------------------------------------
(* Passes and time *)

StartPass ==
    /\ BeginPass
    /\ step' = "todo"
    /\ UNCHANGED <<ttl, missed, gone, sinceGone>>

(* Mutant: what a pass has not got to is left out. *)
FinishPass_early ==
    /\ EndPass
    /\ UNCHANGED leaseVars

(* A pass ends when every container has had its turn. *)
FinishPass ==
    /\ step = "done"
    /\ EndPass
    /\ UNCHANGED leaseVars

Alive == Ping /\ UNCHANGED leaseVars

(* The history counts until well after the key must have expired.          *)
MaxSinceGone == Expire + MaxPass + 1

(* A tick also passes for redis. *)
Elapse ==
    /\ Tick
    /\ ttl' = IF ttl = 0 THEN 0 ELSE ttl - 1
    /\ sinceGone' = IF gone /\ sinceGone < MaxSinceGone
                    THEN sinceGone + 1 ELSE sinceGone
    /\ UNCHANGED <<step, missed, gone>>

ContainerGoes ==
    /\ ~gone
    /\ gone' = TRUE
    /\ UNCHANGED <<clockVars, step, ttl, missed, sinceGone>>

Next ==
    \/ Inspect \/ Publish \/ Miss \/ SkipGone
    \/ StartPass \/ FinishPass \/ Alive \/ Elapse
    \/ ContainerGoes

Spec == Init /\ [][Next]_vars

(* The process runs, and time passes. *)
FairSpec == Spec /\ WF_vars(Next)

-----------------------------------------------------------------------------
(* Properties *)

(***************************************************************************)
(* The registration of a container that stays does not lapse, with every   *)
(* other pass failing and the container moving anywhere in the order of    *)
(* the passes, if the expiration exceeds two waits and three passes.  With *)
(* the defaults (60 and 45% of it, main.rs:71-75) passes may take 1.9 s.   *)
(***************************************************************************)
LeaseHeld == (~gone /\ 2 * Refresh + 3 * MaxPass < Expire) => ttl > 0

(***************************************************************************)
(* README "published configuration will disappear unless continuously      *)
(* refreshed": no later than one expiration and one pass after docker has  *)
(* stopped showing the container.  The pass is for the publication that    *)
(* was in hand when the container went.                                    *)
(***************************************************************************)
GoneInTime == (gone /\ sinceGone >= Expire + MaxPass) => ttl = 0

(***************************************************************************)
(* The lease is what Turns has of one client: it adds the clock, and it    *)
(* leaves out nothing but the end of the process.                          *)
(***************************************************************************)
Rota == INSTANCE Turns WITH
    Clients <- {"it"},
    phase <- IF phase = "pass" THEN "pass" ELSE "rest",
    step <- [n \in {"it"} |-> step],
    held <- [n \in {"it"} |-> ttl > 0]

LeaseTakesTurns == Rota!Spec
=============================================================================
