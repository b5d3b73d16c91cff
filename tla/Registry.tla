------------------------------ MODULE Registry ------------------------------
(***************************************************************************)
(* What a consumer of the registry (confd) may rely on, whoever fills it   *)
(* and from whatever source: the abstract specification of the traits      *)
(* Inspect and Publish as the pass loop uses them (README "Design").       *)
(*                                                                         *)
(* The world offers entries for slots.  The companion takes one offer at a *)
(* time in hand, exactly as it is at that moment, and either puts it into  *)
(* its slot or drops it.  An entry once put changes only by being put      *)
(* again or by lapsing: the companion never takes anything out.            *)
(***************************************************************************)
CONSTANTS
    Slots,      \* where entries can be
    Entries,    \* what can be offered
    NoEntry,    \* what is in a slot that nothing is in
    Mortal      \* the entries that lapse by themselves

VARIABLES
    world,      \* what a look at the world would find now
    registry,   \* the entry in each slot
    hand        \* the offer in hand: none or one

vars == <<world, registry, hand>>

Offers == [slot : Slots, entry : Entries]

Init ==
    /\ world \in SUBSET Offers
    /\ registry = [s \in Slots |-> NoEntry]
    /\ hand = {}

WorldMoves ==
    /\ world' \in SUBSET Offers
    /\ UNCHANGED <<registry, hand>>

(* What is taken is a whole offer: never the slot of one and the entry of  *)
(* another, or one that was there earlier.                                 *)
Look ==
    /\ hand = {}
    /\ \E offer \in world : hand' = {offer}
    /\ UNCHANGED <<world, registry>>

Put ==
    /\ \E offer \in hand :
        registry' = [registry EXCEPT ![offer.slot] = offer.entry]
    /\ hand' = {}
    /\ UNCHANGED world

Drop ==
    /\ hand # {} /\ hand' = {}
    /\ UNCHANGED <<world, registry>>

Lapse ==
    /\ \E s \in Slots :
        /\ registry[s] \in Mortal
        /\ registry' = [registry EXCEPT ![s] = NoEntry]
    /\ UNCHANGED <<world, hand>>

Next == WorldMoves \/ Look \/ Put \/ Drop \/ Lapse

Spec == Init /\ [][Next]_vars
=============================================================================
