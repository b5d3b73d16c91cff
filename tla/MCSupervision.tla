--------------------------- MODULE MCSupervision ---------------------------
(***************************************************************************)
(* The numbers of the example unit (WatchdogSec 10, TimeoutSec 5,          *)
(* RestartSec 10) and the default lease, in ticks of half a second; passes *)
(* take up to 1.5 s unless they hang.                                      *)
(***************************************************************************)
EXTENDS Supervision

TicksPerSecond == 2
DefaultExpire == 60 * TicksPerSecond
DefaultRefresh == ((60 * 45) \div 100) * TicksPerSecond
UnitDog == 10 * TicksPerSecond
UnitTimeout == 5 * TicksPerSecond
UnitRestart == 10 * TicksPerSecond
=============================================================================
