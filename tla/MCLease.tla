------------------------------ MODULE MCLease ------------------------------
(***************************************************************************)
(* The default lease of 60 s, renewed after 45% of it (main.rs:225-227),   *)
(* under the example unit's watchdog of 10 s, in ticks of half a second;   *)
(* passes take up to 1.5 s.                                                *)
(***************************************************************************)
EXTENDS Lease

TicksPerSecond == 2
DefaultExpire == 60 * TicksPerSecond
DefaultRefresh == ((60 * 45) \div 100) * TicksPerSecond
UnitDog == 10 * TicksPerSecond
=============================================================================
