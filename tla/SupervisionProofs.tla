------------------------- MODULE SupervisionProofs -------------------------
(***************************************************************************)
(* Theorems about the supervised companion, for all the numbers of a unit  *)
(* and of a configuration: what is killed had its time, and a hanging call *)
(* costs no registration.                                                  *)
(***************************************************************************)
EXTENDS Supervision, TimingProofs

LEMMA Numbers ==
    /\ PingAfter \in Nat /\ Dog \in Nat /\ 2 * PingAfter < Dog
    /\ Refresh \in Nat \ {0} /\ MaxPass \in Nat /\ Expire \in Nat \ {0}
    /\ TimeoutSec \in Nat \ {0} /\ RestartSec \in Nat
BY TimingAssumption, ExpireAssumption, SupervisionAssumption, TwoPingsFit

LEMMA SupervisedTypeStep ==
    SupervisedTypeOK /\ [SupervisedNext]_allVars => SupervisedTypeOK'
<1> SUFFICES ASSUME SupervisedTypeOK, [SupervisedNext]_allVars
             PROVE  SupervisedTypeOK'
  OBVIOUS
<1> USE DEF SupervisedTypeOK, superVars
<1>1. CASE Refreshes
  <2>1. [Next]_vars
    BY <1>1 DEF Refreshes, Next
  <2>2. TypeOK'
    BY <2>1, LeaseTypeStep
  <2>3. QED
    BY <1>1, <2>2 DEF Refreshes
<1>2. CASE FinishesPass \/ BeginsPass \/ StaysAlive
  <2>1. [Next]_vars
    BY <1>2 DEF FinishesPass, BeginsPass, StaysAlive, Next
  <2>2. TypeOK'
    BY <2>1, LeaseTypeStep
  <2>3. QED
    BY <1>2, <2>2 DEF FinishesPass, BeginsPass, StaysAlive
<1>3. CASE Stops \/ WatchdogExpires \/ Kills
  <2>1. TypeOK'
    BY <1>3, LeaseTypeStep DEF Stops, WatchdogExpires, Kills
  <2>2. CASE Stops
    BY <2>1, <2>2 DEF Stops
  <2>3. CASE WatchdogExpires
    BY <2>1, <2>3 DEF WatchdogExpires
  <2>4. CASE Kills
    BY <2>1, <2>4 DEF Kills
  <2>5. QED
    BY <1>3, <2>2, <2>3, <2>4
<1>4. CASE Hangs \/ Returns
  <2>1. TypeOK'
    BY <1>4 DEF Hangs, Returns, TypeOK, WaitTypeOK, clockVars
  <2>2. CASE Hangs
    BY <2>1, <2>2 DEF Hangs
  <2>3. CASE Returns
    BY <2>1, <2>3 DEF Returns
  <2>4. QED
    BY <1>4, <2>2, <2>3
<1>5. CASE Restarts
  <2>1. TypeOK'
    BY <1>5, Numbers DEF Restarts, TypeOK, WaitTypeOK
  <2>2. QED
    BY <1>5, <2>1 DEF Restarts
<1>6. CASE TimePasses
  <2>1. TypeOK'
    <3>1. CASE working
      <4>1. [Next]_vars
        BY <1>6, <3>1 DEF TimePasses, Next
      <4>2. QED
        BY <4>1, LeaseTypeStep
    <3>2. CASE ~working
      BY <1>6, <3>2, Numbers DEF TimePasses, OutsideTick, TypeOK, WaitTypeOK
    <3>3. QED
      BY <3>1, <3>2
  <2>2. QED
    BY <1>6, <2>1 DEF TimePasses
<1>7. CASE UNCHANGED allVars
  <2>1. TypeOK'
    BY <1>7, LeaseTypeStep DEF allVars
  <2>2. QED
    BY <1>7, <2>1 DEF allVars
<1>8. QED
  BY <1>1, <1>2, <1>3, <1>4, <1>5, <1>6, <1>7 DEF SupervisedNext

(***************************************************************************)
(* The supervised companion is well typed.                                 *)
(***************************************************************************)
THEOREM SupervisedTypeCorrect == SupervisedSpec => []SupervisedTypeOK
<1>1. SupervisedInit => SupervisedTypeOK
  <2> SUFFICES ASSUME SupervisedInit PROVE SupervisedTypeOK
    OBVIOUS
  <2>1. TypeOK
    <3>1. WaitTypeOK
      BY Numbers DEF SupervisedInit, Init, WaitInit, WaitTypeOK
    <3>2. ttl \in 0..Expire /\ missed \in 0..1 /\ sinceGone \in Nat
      BY Numbers DEF SupervisedInit, Init
    <3>3. QED
      BY <3>1, <3>2 DEF SupervisedInit, Init, TypeOK
  <2>2. QED
    BY <2>1 DEF SupervisedInit, SupervisedTypeOK
<1>2. QED
  BY <1>1, SupervisedTypeStep, PTL DEF SupervisedSpec

-----------------------------------------------------------------------------
(* Who is killed *)

(* During a pass only time moves what the service manager has heard of: it *)
(* is as long ago as the pass began, or a ping period more if the pass     *)
(* began with a ping that got lost.                                        *)
PassClock ==
    up /\ phase = "pass" =>
        /\ passed <= passTime
        /\ lost = 0 => heard <= passTime
        /\ heard <= passTime + PingAfter
        /\ ~aborted => passTime <= heard /\ passTime <= Dog
        /\ aborted => /\ passTime >= Dog - PingAfter + timer
                      /\ passTime <= Dog + timer
                      /\ timer <= TimeoutSec

(* In a wait, until the first ping, the pass before it counts as well.     *)
WaitClock ==
    up /\ phase = "wait" =>
        /\ ~hung
        /\ sincePing <= PingAfter
        /\ lost = 0 => heard = sincePing
        /\ \/ sincePing = waited /\ heard <= passTime + waited
           \/ heard <= sincePing + PingAfter
        /\ passTime <= Dog + TimeoutSec
        /\ ~aborted => passTime <= Dog
        /\ aborted => /\ waited <= PingAfter
                      /\ passTime >= Dog - PingAfter
                      /\ timer = 0 \/ passTime >= Dog - PingAfter + timer

ClockInv == PingAfter < Refresh => PassClock /\ WaitClock /\ KilledOnlyInALongPass

LEMMA ClockStep ==
    SupervisedTypeOK /\ ClockInv /\ [SupervisedNext]_allVars => ClockInv'
<1> SUFFICES ASSUME SupervisedTypeOK, ClockInv, [SupervisedNext]_allVars,
                    PingAfter < Refresh
             PROVE  PassClock' /\ WaitClock' /\ KilledOnlyInALongPass'
  BY DEF ClockInv
<1> USE Numbers DEF ClockInv, PassClock, WaitClock, KilledOnlyInALongPass,
        SupervisedTypeOK, TypeOK, WaitTypeOK, up
<1>1. CASE Refreshes
  BY <1>1 DEF Refreshes, Inspect, Publish, Miss, clockVars
<1>2. CASE Hangs \/ Returns
  BY <1>2 DEF Hangs, Returns, clockVars
<1>3. CASE FinishesPass
  <2>1. /\ up /\ phase = "pass" /\ phase' = "wait" /\ waited' = 0
        /\ ~hung /\ UNCHANGED superVars /\ notify_status
    BY <1>3 DEF FinishesPass, FinishPass, EndPass, working
  <2>2. /\ sincePing' = 0
        /\ \/ heard' = 0 /\ lost' = 0
           \/ lost = 0 /\ lost' = 1 /\ heard' = heard
    BY <2>1, SupervisionAssumption DEF notify_status
  <2>3. QED
    BY <2>1, <2>2 DEF superVars
<1>4. CASE BeginsPass
  <2>1. /\ up /\ phase = "wait" /\ waited >= Refresh /\ phase' = "pass"
        /\ passTime' = 0 /\ passed' = 0 /\ notify_status
        /\ UNCHANGED <<process, aborted, timer>>
    BY <1>4 DEF BeginsPass, StartPass, BeginPass, refresh_timeout
  <2>2. ~aborted
    BY <2>1
  <2>3. /\ sincePing' = 0
        /\ \/ heard' = 0 /\ lost' = 0
           \/ lost = 0 /\ lost' = 1 /\ heard' = heard
    BY <2>1, SupervisionAssumption DEF notify_status
  <2>4. QED
    BY <2>1, <2>2, <2>3
<1>5. CASE StaysAlive
  <2>1. /\ phase = "wait" /\ notify_status
        /\ UNCHANGED <<phase, waited, superVars>>
    BY <1>5 DEF StaysAlive, Alive, Ping, watchdog_timeout
  <2>2. /\ sincePing' = 0
        /\ \/ heard' = 0 /\ lost' = 0
           \/ lost = 0 /\ lost' = 1 /\ heard' = heard
    BY <2>1, SupervisionAssumption DEF notify_status
  <2>3. QED
    BY <2>1, <2>2 DEF superVars
<1>6. CASE Stops
  BY <1>6 DEF Stops, vars, clockVars
<1>7. CASE WatchdogExpires
  <2>1. /\ up /\ ~aborted /\ heard >= Dog /\ aborted' /\ timer' = 0
        /\ UNCHANGED <<process, passTime, hung, phase, passed, waited,
                       sincePing, heard, lost>>
    BY <1>7 DEF WatchdogExpires, vars, clockVars
  <2>2. CASE phase = "pass"
    BY <2>1, <2>2
  <2>3. CASE phase = "wait"
    BY <2>1, <2>3
  <2>4. QED
    BY <2>2, <2>3
<1>8. CASE Kills
  <2>1. /\ up /\ aborted /\ timer >= TimeoutSec /\ process' = "killed"
        /\ UNCHANGED passTime
    BY <1>8 DEF Kills
  <2>2. passTime >= Dog - PingAfter + timer
    BY <2>1
  <2>3. QED
    BY <2>1, <2>2
<1>9. CASE Restarts
  BY <1>9 DEF Restarts
<1>10. CASE TimePasses
  <2>1. /\ UNCHANGED <<process, aborted, hung, phase, lost>>
        /\ timer' = IF aborted THEN timer + 1 ELSE timer
        /\ passTime' = IF up /\ phase = "pass" /\ passTime < MaxPassTime
                       THEN passTime + 1 ELSE passTime
        /\ passed' \in {passed, passed + 1}
    BY <1>10 DEF TimePasses, OutsideTick, Elapse, Tick
  <2>2. CASE ~up
    BY <2>1, <2>2
  <2>3. CASE up
    <3>1. sincePing' = sincePing + 1 /\ heard' = heard + 1
      BY <1>10, <2>3, SupervisionAssumption
         DEF TimePasses, OutsideTick, Elapse, Tick
    <3>2. /\ ~aborted => heard < Dog
          /\ aborted => phase = "pass" /\ timer < TimeoutSec
      BY <1>10, <2>3 DEF TimePasses, Due
    <3>3. CASE phase = "pass"
      <4>1. passTime' = passTime + 1
        BY <2>1, <2>3, <3>2, <3>3 DEF MaxPassTime
      <4>2. QED
        BY <2>1, <2>3, <3>1, <3>2, <3>3, <4>1
    <3>4. CASE phase = "wait"
      <4>1. waited' = waited + 1 /\ sincePing < PingAfter
        BY <1>10, <2>3, <3>4, SupervisionAssumption
           DEF TimePasses, Elapse, Tick, watchdog_timeout, working
      <4>2. QED
        BY <2>1, <2>3, <3>1, <3>2, <3>4, <4>1
    <3>5. QED
      BY <3>3, <3>4
  <2>4. QED
    BY <2>2, <2>3
<1>11. CASE UNCHANGED allVars
  BY <1>11 DEF allVars, vars, clockVars, superVars
<1>12. QED
  BY <1>1, <1>2, <1>3, <1>4, <1>5, <1>6, <1>7, <1>8, <1>9, <1>10, <1>11
     DEF SupervisedNext

(***************************************************************************)
(* Only a pass is killed, and only one that outlasted the grace period and *)
(* all of the watchdog interval but one ping.                              *)
(***************************************************************************)
THEOREM OnlyLongPassesAreKilled == SupervisedSpec => []KilledOnlyInALongPass
<1>1. SupervisedInit => ClockInv
  BY Numbers DEF SupervisedInit, Init, WaitInit, ClockInv, PassClock,
                 WaitClock, KilledOnlyInALongPass
<1>2. ClockInv => KilledOnlyInALongPass
  BY DEF ClockInv, KilledOnlyInALongPass
<1>3. QED
  BY <1>1, <1>2, SupervisedTypeCorrect, ClockStep, PTL DEF SupervisedSpec

-----------------------------------------------------------------------------
(* What a hang costs *)

(* At most n ticks have gone since the entry was renewed.                  *)
Since(n) == ttl + n >= Expire

(* A pass in which nothing hung takes as long as its calls.  One that was  *)
(* begun with the container missed cannot miss it again; what it needs is  *)
(* that the entry lasts to its end.                                        *)
PassLease ==
    up /\ phase = "pass" =>
        /\ hung => missed = 1
        /\ missed = 0 /\ step = "done" => Since(passed)
        /\ missed = 0 /\ step # "done" =>
            passTime = passed /\ Since(MaxPass + Refresh + passed)
        /\ missed = 1 /\ step = "done" =>
            \/ passTime = passed /\ ~hung /\ Since(MaxPass + Refresh + passed)
            \/ Since(passTime)
        /\ missed = 1 /\ step # "done" =>
            \/ passTime = passed /\ ~hung /\ ttl + passed > MaxPass
            \/ Since(MaxPass + Refresh + passTime)

WaitLease ==
    up /\ phase = "wait" =>
        /\ missed = 0 => Since(MaxPass + waited)
        /\ missed = 1 =>
            \/ passTime <= MaxPass /\ Since(2 * MaxPass + Refresh + waited)
            \/ Since(passTime + waited)

DownLease ==
    ~up =>
        /\ ~hung /\ aborted /\ timer <= RestartSec
        /\ missed = 0 => Since(MaxPass + PingAfter + timer)
        /\ missed = 1 => Since(MaxPass + Refresh + Dog + TimeoutSec + timer)

HangInv ==
    Bridgeable => /\ lateError => missed = 1
                  /\ ~lateError => PassLease /\ WaitLease /\ DownLease

LEMMA HangStep ==
    SupervisedTypeOK /\ ClockInv /\ HangInv /\ [SupervisedNext]_allVars
        => HangInv'
<1> SUFFICES ASSUME SupervisedTypeOK, ClockInv, HangInv,
                    [SupervisedNext]_allVars, Bridgeable
             PROVE  /\ lateError' => missed' = 1
                    /\ ~lateError' => PassLease' /\ WaitLease' /\ DownLease'
  BY DEF HangInv, Bridgeable
<1>1. /\ PassClock /\ WaitClock
      /\ MaxPass <= PingAfter /\ PingAfter + RestartSec < Refresh
      /\ 2 * Refresh + 3 * MaxPass < Expire
      /\ Refresh + Dog + TimeoutSec + RestartSec + 2 * MaxPass < Expire
  BY Numbers DEF ClockInv, Bridgeable
<1>2. /\ lateError => missed = 1
      /\ ~lateError => PassLease /\ WaitLease /\ DownLease
  BY DEF HangInv
<1> USE Numbers DEF SupervisedTypeOK, TypeOK, WaitTypeOK, up, Since
<1>3. CASE Refreshes
  <2>1. CASE Inspect
    <3>1. /\ step = "todo" /\ step' = "inspected"
          /\ UNCHANGED <<process, aborted, timer, hung, lateError,
                         passTime, phase, passed, waited, ttl, missed>>
      BY <1>3, <2>1 DEF Refreshes, Inspect, clockVars
    <3>2. QED
      BY <1>2, <3>1 DEF PassLease, WaitLease, DownLease
  <2>2. CASE Publish
    <3>1. /\ phase = "pass" /\ step' = "done" /\ missed' = 0 /\ ttl' = Expire
          /\ ~lateError' /\ up /\ ~hung
          /\ UNCHANGED <<process, phase, hung, passed>>
      BY <1>3, <2>2 DEF Refreshes, Publish, clockVars, working
    <3>2. QED
      BY <3>1 DEF PassLease, WaitLease, DownLease
  <2>3. CASE Miss
    <3>1. /\ phase = "pass" /\ missed = 0 /\ missed' = 1
          /\ step # "done" /\ step' = "done" /\ up /\ ~hung
          /\ UNCHANGED <<process, phase, hung, passed, passTime, ttl>>
      BY <1>3, <2>3 DEF Refreshes, Miss, clockVars, working
    <3>2. ~lateError
      BY <1>2, <3>1
    <3>3. QED
      BY <1>2, <3>1, <3>2 DEF PassLease, WaitLease, DownLease
  <2>4. QED
    BY <1>3, <2>1, <2>2, <2>3 DEF Refreshes
<1>4. CASE Hangs
  <2>1. /\ phase = "pass" /\ missed = 0 /\ missed' = 1 /\ up /\ ~hung
        /\ UNCHANGED <<process, phase, step, passed, passTime, ttl, lateError>>
    BY <1>4 DEF Hangs, clockVars, working
  <2>2. passed <= passTime
    BY <1>1, <2>1 DEF PassClock
  <2>3. QED
    BY <1>2, <2>1, <2>2 DEF PassLease, WaitLease, DownLease
<1>5. CASE Returns
  <2>1. /\ up /\ hung /\ ~hung'
        /\ UNCHANGED <<process, phase, passed, passTime, ttl, missed>>
    BY <1>5 DEF Returns, clockVars
  <2>2. phase = "pass" /\ missed = 1
    BY <1>1, <1>2, <2>1 DEF WaitClock, PassLease
  <2>3. lateError' \/ (step' = step /\ lateError' = lateError)
    BY <1>5 DEF Returns
  <2>4. QED
    BY <1>2, <2>1, <2>2, <2>3 DEF PassLease, WaitLease, DownLease
<1>6. CASE FinishesPass
  <2>1. /\ up /\ ~hung /\ phase = "pass" /\ phase' = "wait"
        /\ step = "done" /\ waited' = 0
        /\ UNCHANGED <<process, hung, lateError, passTime, ttl, missed>>
    BY <1>6 DEF FinishesPass, FinishPass, EndPass, working, superVars, leaseVars
  <2>2. QED
    BY <1>2, <2>1 DEF PassLease, WaitLease, DownLease
<1>7. CASE BeginsPass
  <2>1. /\ up /\ phase = "wait" /\ phase' = "pass" /\ waited >= Refresh
        /\ step' = "todo" /\ passTime' = 0 /\ passed' = 0
        /\ UNCHANGED <<process, aborted, hung, lateError, ttl, missed>>
    BY <1>7 DEF BeginsPass, StartPass, BeginPass, refresh_timeout
  <2>2. ~aborted /\ ~hung /\ passTime <= Dog
    BY <1>1, <2>1 DEF WaitClock
  <2>3. QED
    BY <1>1, <1>2, <2>1, <2>2 DEF PassLease, WaitLease, DownLease
<1>8. CASE StaysAlive
  <2>1. /\ up /\ phase = "wait"
        /\ UNCHANGED <<process, phase, waited, hung, lateError, passTime, ttl,
                       missed>>
    BY <1>8 DEF StaysAlive, Alive, Ping, watchdog_timeout, superVars, leaseVars
  <2>2. QED
    BY <1>2, <2>1 DEF PassLease, WaitLease, DownLease
<1>9. CASE Stops \/ (Kills /\ phase = "wait")
  <2>1. /\ up /\ aborted /\ phase = "wait" /\ process' # "up" /\ timer' = 0
        /\ UNCHANGED <<aborted, lateError, ttl, missed>>
        /\ ~hung => ~hung'
    BY <1>9 DEF Stops, Kills, vars, leaseVars
  <2>2. /\ ~hung /\ waited <= PingAfter
        /\ passTime > MaxPass /\ passTime <= Dog + TimeoutSec
    BY <1>1, <2>1 DEF WaitClock
  <2>3. QED
    BY <1>1, <1>2, <2>1, <2>2 DEF PassLease, WaitLease, DownLease
<1>10. CASE Kills /\ phase = "pass"
  <2>1. /\ up /\ aborted /\ process' # "up" /\ timer' = 0 /\ ~hung'
        /\ UNCHANGED <<aborted, lateError, ttl, missed>>
    BY <1>10 DEF Kills, vars, leaseVars
  <2>2. passTime > MaxPass /\ passTime <= Dog + TimeoutSec
    BY <1>1, <1>10, <2>1 DEF PassClock
  <2>3. QED
    BY <1>1, <1>2, <1>10, <2>1, <2>2 DEF PassLease, WaitLease, DownLease
<1>11. CASE WatchdogExpires
  <2>1. /\ up
        /\ UNCHANGED <<process, phase, passed, waited, step, hung, lateError,
                       passTime, ttl, missed>>
    BY <1>11 DEF WatchdogExpires, vars, clockVars, leaseVars
  <2>2. QED
    BY <1>2, <2>1 DEF PassLease, WaitLease, DownLease
<1>12. CASE Restarts
  <2>1. /\ ~up /\ process' = "up" /\ phase' = "pass" /\ passed' = 0
        /\ passTime' = 0 /\ step' = "todo"
        /\ UNCHANGED <<ttl, missed, hung, lateError>>
    BY <1>12 DEF Restarts
  <2>2. QED
    BY <1>1, <1>2, <2>1 DEF PassLease, WaitLease, DownLease
<1>13. CASE TimePasses
  <2>1. /\ ttl' = IF ttl = 0 THEN 0 ELSE ttl - 1
        /\ timer' = IF aborted THEN timer + 1 ELSE timer
        /\ passTime' = IF up /\ phase = "pass" /\ passTime < MaxPassTime
                       THEN passTime + 1 ELSE passTime
        /\ UNCHANGED <<process, aborted, phase, step, hung, lateError, missed>>
    BY <1>13 DEF TimePasses, OutsideTick, Elapse, Tick
  <2>2. CASE ~up
    <3>1. timer < RestartSec
      BY <1>13, <2>2 DEF TimePasses, Due
    <3>2. QED
      BY <1>2, <2>1, <2>2, <3>1 DEF PassLease, WaitLease, DownLease
  <2>3. CASE up /\ phase = "pass"
    <3>1. IF hung THEN passed' = passed ELSE passed' = passed + 1
      BY <1>13, <2>3 DEF TimePasses, OutsideTick, Elapse, Tick, working
    <3>2. passTime' = passTime + 1
      <4>1. /\ ~aborted => heard < Dog
            /\ aborted => timer < TimeoutSec
        BY <1>13, <2>3 DEF TimePasses, Due
      <4>2. QED
        BY <1>1, <2>1, <2>3, <4>1 DEF PassClock, MaxPassTime
    <3>3. QED
      BY <1>2, <2>1, <2>3, <3>1, <3>2 DEF PassLease, WaitLease, DownLease
  <2>4. CASE up /\ phase = "wait"
    <3>1. waited' = waited + 1
      <4>1. ~hung
        BY <1>1, <2>4 DEF WaitClock
      <4>2. QED
        BY <1>13, <2>4, <4>1 DEF TimePasses, Elapse, Tick, working
    <3>2. QED
      BY <1>2, <2>1, <2>4, <3>1 DEF PassLease, WaitLease, DownLease
  <2>5. QED
    BY <2>2, <2>3, <2>4
<1>14. CASE UNCHANGED allVars
  <2>1. UNCHANGED <<process, aborted, timer, hung, lateError, passTime, phase,
                    passed, waited, step, ttl, missed>>
    BY <1>14 DEF allVars, vars, clockVars, leaseVars, superVars
  <2>2. QED
    BY <1>2, <2>1 DEF PassLease, WaitLease, DownLease
<1>15. QED
  <2>1. CASE Kills
    BY <1>9, <1>10, <2>1
  <2>2. QED
    BY <1>3, <1>4, <1>5, <1>6, <1>7, <1>8, <1>9, <1>11, <1>12, <1>13, <1>14,
       <2>1 DEF SupervisedNext

(***************************************************************************)
(* For every unit and every lease that leaves room for it, a call that     *)
(* hangs for ever costs no registration.                                   *)
(***************************************************************************)
THEOREM HangsAreBridged == SupervisedSpec => []HangIsBridged
<1>1. SupervisedInit => ClockInv
  BY Numbers DEF SupervisedInit, Init, WaitInit, ClockInv, PassClock,
                 WaitClock, KilledOnlyInALongPass
<1>2. SupervisedInit => HangInv
  <2> SUFFICES ASSUME SupervisedInit PROVE HangInv
    OBVIOUS
  <2>1. /\ process = "up" /\ phase = "pass" /\ step = "done" /\ passed = 0
        /\ ttl = Expire /\ missed = 0 /\ ~hung /\ ~lateError
    BY DEF SupervisedInit, Init, WaitInit
  <2>2. QED
    BY <2>1, Numbers DEF HangInv, PassLease, WaitLease, DownLease, Since, up
<1>3. SupervisedTypeOK /\ ClockInv /\ HangInv => HangIsBridged
  <2> SUFFICES ASSUME SupervisedTypeOK, ClockInv, HangInv, Bridgeable, ~lateError
               PROVE  ttl > 0
    BY DEF HangIsBridged
  <2> USE Numbers DEF SupervisedTypeOK, TypeOK, WaitTypeOK, Since
  <2>1. /\ PassClock /\ WaitClock
        /\ PassLease /\ WaitLease /\ DownLease
        /\ PingAfter + RestartSec < Refresh
        /\ 2 * Refresh + 3 * MaxPass < Expire
        /\ Refresh + Dog + TimeoutSec + RestartSec + 2 * MaxPass < Expire
    BY DEF ClockInv, HangInv, Bridgeable
  <2>2. CASE ~up
    BY <2>1, <2>2 DEF DownLease
  <2>3. CASE up /\ phase = "pass"
    <3>1. passTime <= Dog + TimeoutSec
      BY <2>1, <2>3 DEF PassClock
    <3>2. QED
      BY <2>1, <2>3, <3>1 DEF PassLease
  <2>4. CASE up /\ phase = "wait"
    <3>1. /\ passTime <= Dog + TimeoutSec
          /\ ~aborted => passTime <= Dog
          /\ aborted => waited <= PingAfter
      BY <2>1, <2>4 DEF WaitClock
    <3>2. QED
      BY <2>1, <2>4, <3>1 DEF WaitLease
  <2>5. QED
    BY <2>2, <2>3, <2>4
<1>4. QED
  BY <1>1, <1>2, <1>3, SupervisedTypeCorrect, ClockStep, HangStep, PTL
     DEF SupervisedSpec
-----------------------------------------------------------------------------
(* Turns under supervision *)

(* Only a process that is in a pass hangs. *)
HungInv == hung => up /\ phase = "pass"

LEMMA HungStep == HungInv /\ [SupervisedNext]_allVars => HungInv'
BY DEF HungInv, SupervisedNext, allVars, superVars, vars, clockVars, leaseVars, up,
   working, Refreshes, Inspect, Publish, Miss, Hangs, Returns, FinishesPass,
   FinishPass, EndPass, BeginsPass, StartPass, BeginPass, refresh_timeout,
   StaysAlive, Alive, Ping, Stops, WatchdogExpires, Kills, Restarts, TimePasses,
   Elapse, Tick, OutsideTick

LEMMA SupervisedRotaStep ==
    ASSUME SupervisedTypeOK, HungInv, [SupervisedNext]_allVars
    PROVE  SupervisedRota!Next \/ UNCHANGED SupervisedRota!vars
<1> USE DEF leaseVars, clockVars, superVars, up
<1> DEFINE it == "it"
<1>1. ttl \in Nat /\ Expire > 0
  BY ExpireAssumption DEF SupervisedTypeOK, TypeOK
<1>2. CASE Refreshes
  <2>1. up /\ up'
    BY <1>2 DEF Refreshes, working
  <2>2. CASE Inspect
    <3>1. SupervisedRota!Inspect(it)
      BY <2>1, <2>2 DEF Inspect, SupervisedRota!Inspect
    <3>2. QED
      BY <3>1 DEF SupervisedRota!Next
  <2>3. CASE Publish
    <3>1. SupervisedRota!Publish(it)
      BY <1>1, <2>1, <2>3 DEF Publish, SupervisedRota!Publish
    <3>2. QED
      BY <3>1 DEF SupervisedRota!Next
  <2>4. CASE Miss
    <3>1. SupervisedRota!GoWithout(it)
      BY <2>1, <2>4 DEF Miss, SupervisedRota!GoWithout
    <3>2. QED
      BY <3>1 DEF SupervisedRota!Next
  <2>5. QED
    BY <1>2, <2>2, <2>3, <2>4 DEF Refreshes
<1>3. CASE Returns
  <2>1. phase = "pass" /\ up /\ up' /\ UNCHANGED <<phase, ttl>>
    BY <1>3 DEF Returns, HungInv
  <2>2. CASE step' = step
    BY <2>1, <2>2 DEF SupervisedRota!vars
  <2>3. CASE step # "done" /\ step' = "done"
    <3>1. SupervisedRota!GoWithout(it)
      BY <2>1, <2>3 DEF SupervisedRota!GoWithout
    <3>2. QED
      BY <3>1 DEF SupervisedRota!Next
  <2>4. QED
    BY <1>3, <2>2, <2>3 DEF Returns
<1>4. CASE FinishesPass
  <2>1. SupervisedRota!End
    BY <1>4
    DEF FinishesPass, working, FinishPass, EndPass, SupervisedRota!End,
        SupervisedRota!AllAre
  <2>2. QED
    BY <2>1 DEF SupervisedRota!Next
<1>5. CASE BeginsPass
  <2>1. SupervisedRota!Begin
    BY <1>5
    DEF BeginsPass, StartPass, BeginPass, refresh_timeout, SupervisedRota!Begin,
        SupervisedRota!AllAre
  <2>2. QED
    BY <2>1 DEF SupervisedRota!Next
<1>6. CASE Stops \/ Kills
  <2>1. up /\ ~up' /\ ttl' = ttl
    BY <1>6 DEF Stops, Kills, vars
  <2>2. SupervisedRota!Die
    BY <2>1 DEF SupervisedRota!Die, SupervisedRota!AllAre
  <2>3. QED
    BY <2>2 DEF SupervisedRota!Next
<1>7. CASE Restarts
  <2>1. SupervisedRota!Begin
    BY <1>7 DEF Restarts, SupervisedRota!Begin, SupervisedRota!AllAre
  <2>2. QED
    BY <2>1 DEF SupervisedRota!Next
<1>8. CASE TimePasses
  <2>1. /\ UNCHANGED <<phase, step, process>>
        /\ ttl' = IF ttl = 0 THEN 0 ELSE ttl - 1
    BY <1>8 DEF TimePasses, Elapse, Tick, OutsideTick
  <2>2. CASE ttl = 1
    <3>1. (ttl > 0) = TRUE /\ (ttl' > 0) = FALSE
      BY <2>1, <2>2
    <3>2. [n \in {it} |-> ttl' > 0] = [[n \in {it} |-> ttl > 0] EXCEPT ![it] = FALSE]
      BY <3>1
    <3>3. SupervisedRota!Lapse(it)
      BY <2>1, <3>1, <3>2 DEF SupervisedRota!Lapse
    <3>4. QED
      BY <3>3 DEF SupervisedRota!Next
  <2>3. CASE ttl # 1
    <3>1. (ttl' > 0) = (ttl > 0)
      BY <1>1, <2>1, <2>3
    <3>2. QED
      BY <2>1, <3>1 DEF SupervisedRota!vars
  <2>4. QED
    BY <2>2, <2>3
<1>9. CASE UNCHANGED allVars \/ Hangs \/ StaysAlive \/ WatchdogExpires
  BY <1>9
  DEF allVars, vars, Hangs, StaysAlive, Alive, Ping, WatchdogExpires,
      SupervisedRota!vars
<1>10. QED
  BY <1>2, <1>3, <1>4, <1>5, <1>6, <1>7, <1>8, <1>9 DEF SupervisedNext

(***************************************************************************)
(* For all periods: under the service manager the container's turns are    *)
(* still those of Turns.                                                   *)
(***************************************************************************)
THEOREM SupervisedIsATurn == SupervisedSpec => SupervisedTakesTurns
<1>1. SupervisedInit => HungInv /\ SupervisedRota!Init
  BY ExpireAssumption
  DEF SupervisedInit, Init, WaitInit, HungInv, up, SupervisedRota!Init,
      SupervisedRota!AllAre
<1>2. SupervisedTypeOK /\ HungInv /\ [SupervisedNext]_allVars
        => [SupervisedRota!Next]_(SupervisedRota!vars)
  BY SupervisedRotaStep
<1>3. QED
  BY <1>1, <1>2, SupervisedTypeCorrect, HungStep, PTL
  DEF SupervisedSpec, SupervisedTakesTurns, SupervisedRota!Spec
-----------------------------------------------------------------------------
(* Why there is always another pass *)

(* The supplies are what their names say: no deadline is overrun.          *)
SupplyInv ==
    /\ HungInv
    /\ up /\ ~aborted => heard <= Dog
    /\ up /\ aborted => timer <= TimeoutSec
    /\ ~up => aborted /\ timer <= RestartSec

LEMMA SupplyStep ==
    SupervisedTypeOK /\ SupplyInv /\ [SupervisedNext]_allVars => SupplyInv'
<1> SUFFICES ASSUME SupervisedTypeOK, SupplyInv, [SupervisedNext]_allVars
             PROVE  SupplyInv'
  OBVIOUS
<1>1. HungInv'
  BY HungStep DEF SupplyInv
<1> USE Numbers, SupervisionAssumption
        DEF SupplyInv, SupervisedTypeOK, TypeOK, WaitTypeOK, up, superVars
<1>2. CASE Refreshes \/ Hangs \/ Returns
  BY <1>1, <1>2 DEF Refreshes, Inspect, Publish, Miss, Hangs, Returns, clockVars
<1>3. CASE FinishesPass \/ BeginsPass \/ StaysAlive
  <2>1. /\ UNCHANGED <<process, aborted, timer>>
        /\ heard' \in {0, heard}
    BY <1>3
    DEF FinishesPass, FinishPass, EndPass, BeginsPass, StartPass, BeginPass,
        StaysAlive, Alive, Ping, notify_status, pingVars
  <2>2. QED
    BY <1>1, <2>1
<1>4. CASE Stops \/ WatchdogExpires \/ Kills
  BY <1>1, <1>4 DEF Stops, WatchdogExpires, Kills, vars, clockVars
<1>5. CASE Restarts
  BY <1>1, <1>5 DEF Restarts
<1>6. CASE TimePasses
  <2>1. /\ UNCHANGED <<process, aborted>>
        /\ timer' = IF aborted THEN timer + 1 ELSE timer
        /\ heard' \in {heard, heard + 1}
        /\ ~Due
    BY <1>6 DEF TimePasses, Elapse, Tick, OutsideTick
  <2>2. QED
    BY <1>1, <2>1 DEF Due
<1>7. CASE UNCHANGED allVars
  BY <1>1, <1>7 DEF allVars, vars, clockVars
<1>8. QED
  BY <1>2, <1>3, <1>4, <1>5, <1>6, <1>7 DEF SupervisedNext

(* How large the supplies are. *)
SuppliesBound ==
    /\ WaitLeft \in Nat /\ WaitLeft <= 2 * Refresh + 1
    /\ up => PatienceLeft \in Nat
    /\ TurnLeft \in Nat /\ TurnLeft <= 9
    /\ ~up => RestartSec - timer \in Nat

LEMMA Supplies == SupervisedTypeOK /\ SupplyInv => SuppliesBound
<1> SUFFICES ASSUME SupervisedTypeOK, SupplyInv PROVE SuppliesBound
  OBVIOUS
<1> USE DEF SupervisedTypeOK, TypeOK, WaitTypeOK
<1>1. WaitLeft \in Nat /\ WaitLeft <= 2 * Refresh + 1
  BY Numbers DEF WaitLeft
<1>2. up => PatienceLeft \in Nat
  BY Numbers DEF SupplyInv, PatienceLeft
<1>3. [todo |-> 6, inspected |-> 3, done |-> 0][step] \in {0, 3, 6}
  OBVIOUS
<1>4. TurnLeft \in Nat /\ TurnLeft <= 9
  BY <1>3 DEF TurnLeft
<1>5. ~up => RestartSec - timer \in Nat
  BY Numbers DEF SupplyInv
<1>6. QED
  BY <1>1, <1>2, <1>4, <1>5 DEF SuppliesBound

(* What they add up to. *)
AbortLeft == IF aborted THEN 0 ELSE 1

SuppliesAdd ==
    /\ ~up => StepsToPass = RestartSec - timer
    /\ up /\ phase = "wait" =>
          StepsToPass = RestartSec + 1 + WaitLeft + AbortLeft
    /\ up /\ phase = "pass" =>
          StepsToPass =
              RestartSec + 2 * Refresh + 4 + 10 * PatienceLeft + TurnLeft

LEMMA StepsAdd == SuppliesAdd
BY DEF SuppliesAdd, StepsToPass, AbortLeft

(* The arithmetic of a wait that gets shorter or begins.                   *)
LEMMA WaitSum ==
    ASSUME NEW r \in Nat, NEW v \in Nat, NEW a \in 0 .. 1
    PROVE  /\ \A w \in Nat : v < w =>
                  r + 1 + v + a \in 0 .. (r + 1 + w + a) - 1
           /\ \A f, p, t \in Nat : v <= 2 * f + 1 =>
                  r + 1 + v + a \in 0 .. (r + 2 * f + 4 + 10 * p + t) - 1
OBVIOUS

(***************************************************************************)
(* Every step uses up a supply.                                            *)
(***************************************************************************)
LEMMA SuppliesShrink ==
    ASSUME SupervisedTypeOK, SupplyInv, SupervisedNext, ~BeginsPass, ~Restarts
    PROVE  StepsToPass' \in 0 .. StepsToPass - 1
<1>1. SupervisedTypeOK' /\ SupplyInv'
  BY SupervisedTypeStep, SupplyStep
<1>2. SuppliesBound
  BY Supplies
<1>3. SuppliesBound'
  BY <1>1, Supplies, PTL
<1>4. SuppliesAdd /\ SuppliesAdd'
  BY StepsAdd, PTL
<1>a. /\ AbortLeft \in 0 .. 1 /\ AbortLeft' \in 0 .. 1
      /\ aborted' = aborted => AbortLeft' = AbortLeft
      /\ ~aborted /\ aborted' => AbortLeft' = AbortLeft - 1
  BY DEF AbortLeft
(* Within a pass, at one moment. *)
<1>5. ASSUME up, up', phase = "pass", phase' = "pass",
             PatienceLeft' = PatienceLeft, TurnLeft' < TurnLeft
      PROVE  StepsToPass' \in 0 .. StepsToPass - 1
  BY <1>2, <1>3, <1>4, <1>5, Numbers DEF SuppliesBound, SuppliesAdd
(* Within a pass, with time or ABRT. *)
<1>6. ASSUME up, up', phase = "pass", phase' = "pass",
             PatienceLeft' = PatienceLeft - 1, TurnLeft' = TurnLeft
      PROVE  StepsToPass' \in 0 .. StepsToPass - 1
  BY <1>2, <1>3, <1>4, <1>6, Numbers DEF SuppliesBound, SuppliesAdd
(* Within a wait. *)
<1>7. ASSUME up, up', phase = "wait", phase' = "wait",
             WaitLeft' < WaitLeft, aborted' = aborted
      PROVE  StepsToPass' \in 0 .. StepsToPass - 1
  <2>1. /\ StepsToPass = RestartSec + 1 + WaitLeft + AbortLeft
        /\ StepsToPass' = RestartSec + 1 + WaitLeft' + AbortLeft
    BY <1>4, <1>a, <1>7 DEF SuppliesAdd
  <2>2. WaitLeft \in Nat /\ WaitLeft' \in Nat /\ AbortLeft \in 0 .. 1
    BY <1>2, <1>3, <1>a DEF SuppliesBound
  <2>3. QED
    BY <1>7, <2>1, <2>2, WaitSum, Numbers
(* From a process to its end. *)
<1>8. ASSUME up, ~up', timer' = 0 PROVE StepsToPass' \in 0 .. StepsToPass - 1
  <2>1. phase \in {"pass", "wait"}
    BY DEF SupervisedTypeOK, TypeOK, WaitTypeOK
  <2>2. StepsToPass' = RestartSec
    BY <1>4, <1>8, Numbers DEF SuppliesAdd
  <2>3. QED
    BY <1>2, <1>4, <1>a, <1>8, <2>1, <2>2, Numbers DEF SuppliesBound, SuppliesAdd
<1> USE Numbers, SupervisionAssumption DEF SupervisedTypeOK, TypeOK, WaitTypeOK, superVars
<1>9. CASE Refreshes
  <2>1. /\ up /\ up' /\ phase = "pass" /\ phase' = "pass"
        /\ UNCHANGED <<aborted, timer, heard, hung>>
    BY <1>9 DEF Refreshes, Inspect, Publish, Miss, working, up, clockVars
  <2>2. TurnLeft' < TurnLeft
    BY <1>9, <2>1 DEF Refreshes, Inspect, Publish, Miss, TurnLeft
  <2>3. QED
    BY <1>5, <2>1, <2>2 DEF PatienceLeft
<1>10. CASE Hangs \/ Returns
  <2>1. /\ up /\ up' /\ phase = "pass" /\ phase' = "pass"
        /\ UNCHANGED <<aborted, timer, heard>>
    BY <1>10 DEF Hangs, Returns, working, up, clockVars, SupplyInv, HungInv
  <2>2. TurnLeft' < TurnLeft
    BY <1>10 DEF Hangs, Returns, TurnLeft, working
  <2>3. QED
    BY <1>5, <2>1, <2>2 DEF PatienceLeft
<1>11. CASE FinishesPass
  <2>1. up /\ up' /\ phase = "pass" /\ phase' = "wait"
    BY <1>11 DEF FinishesPass, FinishPass, EndPass, working, up
  <2>2. QED
    <3>1. /\ StepsToPass' = RestartSec + 1 + WaitLeft' + AbortLeft'
          /\ StepsToPass =
                RestartSec + 2 * Refresh + 4 + 10 * PatienceLeft + TurnLeft
      BY <1>4, <2>1 DEF SuppliesAdd
    <3>2. /\ WaitLeft' \in Nat /\ WaitLeft' <= 2 * Refresh + 1
          /\ AbortLeft' \in 0 .. 1
          /\ PatienceLeft \in Nat /\ TurnLeft \in Nat
      BY <1>2, <1>3, <1>a, <2>1 DEF SuppliesBound
    <3>3. QED
      BY <3>1, <3>2, WaitSum, Numbers
<1>12. CASE StaysAlive
  <2>1. /\ up /\ up' /\ phase = "wait" /\ phase' = "wait" /\ aborted' = aborted
        /\ WaitNext
    BY <1>12 DEF StaysAlive, Alive, Ping, watchdog_timeout, WaitNext, up
  <2>2. QED
    BY <1>2, <1>7, <2>1, WaitLeftStep DEF SuppliesBound
<1>13. CASE Stops \/ Kills
  BY <1>8, <1>13 DEF Stops, Kills, up
<1>14. CASE WatchdogExpires
  <2>1. /\ up /\ up' /\ ~aborted /\ aborted' /\ timer' = 0 /\ heard >= Dog
        /\ UNCHANGED <<vars, hung>>
    BY <1>14 DEF WatchdogExpires, up
  <2>2. CASE phase = "pass"
    <3>1. phase' = "pass" /\ TurnLeft' = TurnLeft
      BY <2>1, <2>2 DEF vars, clockVars, leaseVars, TurnLeft
    <3>2. PatienceLeft' = PatienceLeft - 1
      BY <2>1 DEF PatienceLeft, SupplyInv
    <3>3. QED
      BY <1>6, <2>1, <2>2, <3>1, <3>2
  <2>3. CASE phase = "wait"
    <3>1. phase' = "wait" /\ WaitLeft' = WaitLeft
      BY <2>1, <2>3 DEF vars, clockVars, WaitLeft, watchdog_timeout
    <3>2. QED
      BY <1>2, <1>4, <1>a, <2>1, <2>3, <3>1 DEF SuppliesBound, SuppliesAdd
  <2>4. QED
    BY <2>2, <2>3
<1>15. CASE TimePasses
  <2>1. /\ ~Due
        /\ UNCHANGED <<process, aborted, hung, phase, step, missed>>
        /\ timer' = IF aborted THEN timer + 1 ELSE timer
    BY <1>15 DEF TimePasses, Elapse, Tick, OutsideTick
  <2>2. CASE ~up
    BY <1>2, <1>3, <1>4, <2>1, <2>2 DEF SuppliesBound, SuppliesAdd, SupplyInv, up
  <2>3. CASE up /\ phase = "pass"
    <3>1. heard' = heard + 1
      BY <1>15, <2>3 DEF TimePasses, Elapse, Tick, OutsideTick
    <3>2. PatienceLeft' = PatienceLeft - 1
      BY <2>1, <2>3, <3>1 DEF PatienceLeft
    <3>3. TurnLeft' = TurnLeft
      BY <2>1 DEF TurnLeft
    <3>4. QED
      BY <1>6, <2>1, <2>3, <3>2, <3>3 DEF up
  <2>4. CASE up /\ phase = "wait"
    <3>1. working
      BY <2>4 DEF SupplyInv, HungInv, working
    <3>2. WaitNext
      BY <1>15, <3>1 DEF TimePasses, Elapse, WaitNext
    <3>3. QED
      BY <1>2, <1>7, <2>1, <2>4, <3>2, WaitLeftStep DEF SuppliesBound, up
  <2>5. QED
    BY <2>2, <2>3, <2>4
<1>16. QED
  BY <1>9, <1>10, <1>11, <1>12, <1>13, <1>14, <1>15 DEF SupervisedNext

(***************************************************************************)
(* NoCircles for all periods: from any state, however calls hang, pings    *)
(* get lost and ABRT arrives, only so many steps are left until a pass     *)
(* begins.                                                                 *)
(***************************************************************************)
THEOREM PassesComeNearer == SupervisedSpec => NoCircles
<1>1. SupervisedInit => SupplyInv
  BY Numbers DEF SupervisedInit, Init, WaitInit, SupplyInv, HungInv, up
<1>2. SupervisedTypeOK /\ SupplyInv /\ [SupervisedNext]_allVars =>
        [\/ BeginsPass \/ Restarts
         \/ StepsToPass' \in 0 .. StepsToPass - 1]_allVars
  BY SuppliesShrink
<1>3. QED
  BY <1>1, <1>2, SupervisedTypeCorrect, SupplyStep, PTL
  DEF SupervisedSpec, NoCircles
=============================================================================
