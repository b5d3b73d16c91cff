--------------------------- MODULE TimingProofs ----------------------------
(***************************************************************************)
(* Theorems about the clockwork (WaitLoop) and the lease of a container    *)
(* (Lease), for every refresh period, expiration, watchdog interval and    *)
(* bound on the length of a pass.                                          *)
(***************************************************************************)
EXTENDS Lease, TLAPS

(* Two pings fit into the service manager's patience. *)
LEMMA TwoPingsFit ==
    ASSUME Watchdog
    PROVE  PingAfter \in Nat /\ 2 * PingAfter < Dog
<1>1. Dog \in Nat /\ Dog >= 3
  BY TimingAssumption
<1>2. QED
  BY <1>1 DEF PingAfter

-----------------------------------------------------------------------------
(* The clockwork *)

LEMMA PingAfterType == PingAfter \in Nat
BY TimingAssumption DEF PingAfter

LEMMA WaitTypeStep == WaitTypeOK /\ [WaitNext]_clockVars => WaitTypeOK'
<1> SUFFICES ASSUME WaitTypeOK, [WaitNext]_clockVars PROVE WaitTypeOK'
  OBVIOUS
<1> USE TimingAssumption DEF WaitTypeOK, pingVars
<1>1. CASE BeginPass
  BY <1>1 DEF BeginPass, notify_status
<1>2. CASE EndPass
  BY <1>2 DEF EndPass, notify_status
<1>3. CASE Ping
  BY <1>3 DEF Ping, notify_status
<1>4. CASE Tick
  <2>1. phase = "wait" => waited < Refresh
    BY <1>4 DEF Tick, refresh_timeout
  <2>2. QED
    BY <1>4, <2>1 DEF Tick
<1>5. CASE UNCHANGED clockVars
  BY <1>5 DEF clockVars
<1>6. QED
  BY <1>1, <1>2, <1>3, <1>4, <1>5 DEF WaitNext

(***************************************************************************)
(* Why two chances suffice when a pass is no longer than the ping period:  *)
(* no two pings are further apart than that period, and what the service   *)
(* manager has heard is one of the last two.                               *)
(***************************************************************************)
PingInv ==
    (Watchdog /\ MaxPass <= PingAfter) =>
        /\ phase = "pass" => sincePing = passed
        /\ sincePing <= PingAfter
        /\ lost = 0 => heard = sincePing
        /\ lost = 1 => heard <= sincePing + PingAfter

LEMMA PingStep == WaitTypeOK /\ PingInv /\ [WaitNext]_clockVars => PingInv'
<1> SUFFICES ASSUME WaitTypeOK, PingInv, [WaitNext]_clockVars,
                    Watchdog, MaxPass <= PingAfter
             PROVE  PingInv'
  BY DEF PingInv
<1> USE TimingAssumption, PingAfterType DEF WaitTypeOK, PingInv, pingVars
<1>1. CASE BeginPass
  BY <1>1 DEF BeginPass, notify_status
<1>2. CASE EndPass
  BY <1>2 DEF EndPass, notify_status
<1>3. CASE Ping
  BY <1>3 DEF Ping, notify_status, watchdog_timeout
<1>4. CASE Tick
  <2>1. phase = "wait" => sincePing < PingAfter
    BY <1>4 DEF Tick, watchdog_timeout
  <2>2. phase = "pass" => passed < MaxPass /\ passed' = passed + 1
    BY <1>4 DEF Tick
  <2>3. /\ sincePing' = sincePing + 1 /\ heard' = heard + 1
        /\ phase' = phase /\ lost' = lost
    BY <1>4 DEF Tick
  <2>4. QED
    BY <2>1, <2>2, <2>3
<1>5. CASE UNCHANGED clockVars
  BY <1>5 DEF clockVars
<1>6. QED
  BY <1>1, <1>2, <1>3, <1>4, <1>5 DEF WaitNext

(***************************************************************************)
(* The clockwork is well typed: no wait outlasts the refresh period.       *)
(***************************************************************************)
THEOREM WaitTypeCorrect == WaitSpec => []WaitTypeOK
<1>1. WaitInit => WaitTypeOK
  BY TimingAssumption DEF WaitInit, WaitTypeOK
<1>2. QED
  BY <1>1, WaitTypeStep, PTL DEF WaitSpec

(***************************************************************************)
(* The service manager always hears of a process whose passes are no       *)
(* longer than the ping period, with every other ping lost.                *)
(***************************************************************************)
THEOREM TwoChancesGiven == WaitSpec => []TwoChances
<1>1. WaitInit => PingInv
  BY PingAfterType DEF WaitInit, PingInv
<1>2. WaitTypeOK /\ PingInv => TwoChances
  <2> SUFFICES ASSUME WaitTypeOK, PingInv, Watchdog, MaxPass <= PingAfter
               PROVE  heard < Dog
    BY DEF TwoChances, HeardInTime
  <2>1. heard <= 2 * PingAfter
    BY PingAfterType DEF WaitTypeOK, PingInv
  <2>2. QED
    BY <2>1, TwoPingsFit, TimingAssumption DEF WaitTypeOK
<1>3. QED
  BY <1>1, <1>2, WaitTypeCorrect, PingStep, PTL DEF WaitSpec

(* The ping period is at least a tick: who has just sent one has none due. *)
LEMMA PingsAreApart == Watchdog => PingAfter >= 1
<1> SUFFICES ASSUME Watchdog PROVE PingAfter >= 1
  OBVIOUS
<1>1. Dog \in Nat /\ Dog >= 3
  BY TimingAssumption
<1>2. QED
  BY <1>1 DEF PingAfter

LEMMA WaitLeftStep ==
    ASSUME WaitTypeOK, WaitNext, phase = "wait", phase' = "wait"
    PROVE  WaitLeft' \in 0 .. WaitLeft - 1
<1> USE TimingAssumption, PingAfterType DEF WaitTypeOK, WaitLeft, watchdog_timeout
<1>1. WaitTypeOK'
  BY WaitTypeStep
<1>2. CASE BeginPass \/ EndPass
  BY <1>2 DEF BeginPass, EndPass
<1>3. CASE Ping
  <2>1. Watchdog /\ sincePing >= PingAfter /\ sincePing' = 0 /\ waited' = waited
    BY <1>3 DEF Ping, notify_status
  <2>2. QED
    BY <1>1, <2>1, PingsAreApart
<1>4. CASE Tick
  <2>1. ~watchdog_timeout /\ waited' = waited + 1
    BY <1>4 DEF Tick
  <2>2. QED
    BY <1>1, <2>1
<1>5. QED
  BY <1>2, <1>3, <1>4 DEF WaitNext

(***************************************************************************)
(* WaitRunsOut for all periods: no ping, and no number of them, keeps a    *)
(* wait from coming to its end.                                            *)
(***************************************************************************)
THEOREM WaitsComeToAnEnd == WaitSpec => WaitRunsOut
<1>1. WaitTypeOK /\ [WaitNext]_clockVars =>
        [phase = "wait" /\ phase' = "wait" =>
            WaitLeft' \in 0 .. WaitLeft - 1]_clockVars
  BY WaitLeftStep
<1>2. QED
  BY <1>1, WaitTypeCorrect, PTL DEF WaitSpec, WaitRunsOut
-----------------------------------------------------------------------------
(* The lease *)

(* Every step of the lease is a step of the clockwork or leaves it alone.  *)
LEMMA LeaseClock == [Next]_vars => [WaitNext]_clockVars
<1> SUFFICES ASSUME [Next]_vars PROVE [WaitNext]_clockVars
  OBVIOUS
<1>1. CASE Inspect \/ Publish \/ Miss \/ SkipGone \/ ContainerGoes
  BY <1>1 DEF Inspect, Publish, Miss, SkipGone, ContainerGoes
<1>2. CASE StartPass \/ FinishPass \/ Alive \/ Elapse
  BY <1>2 DEF StartPass, FinishPass, Alive, Elapse, WaitNext
<1>3. CASE UNCHANGED vars
  BY <1>3 DEF vars
<1>4. QED
  BY <1>1, <1>2, <1>3 DEF Next

(***************************************************************************)
(* The lease keeps the clockwork's time: all that holds of the clockwork   *)
(* holds of it, such as that its pings have two chances and that its waits *)
(* come to an end.                                                         *)
(***************************************************************************)
THEOREM LeaseKeepsTime == Spec => WaitSpec
<1>1. Init => WaitInit
  BY DEF Init
<1>2. QED
  BY <1>1, LeaseClock, PTL DEF Spec, WaitSpec

COROLLARY LeaseInTime == Spec => []TwoChances /\ WaitRunsOut
BY LeaseKeepsTime, TwoChancesGiven, WaitsComeToAnEnd

LEMMA LeaseTypeStep == TypeOK /\ [Next]_vars => TypeOK'
<1> SUFFICES ASSUME TypeOK, [Next]_vars PROVE TypeOK'
  OBVIOUS
<1>1. WaitTypeOK'
  BY LeaseClock, WaitTypeStep DEF TypeOK
<1> USE <1>1, ExpireAssumption DEF TypeOK
<1>2. CASE Inspect \/ SkipGone \/ ContainerGoes
  BY <1>2 DEF Inspect, SkipGone, ContainerGoes
<1>3. CASE Publish
  BY <1>3 DEF Publish
<1>4. CASE Miss
  BY <1>4 DEF Miss
<1>5. CASE StartPass \/ FinishPass \/ Alive
  BY <1>5 DEF StartPass, FinishPass, Alive, leaseVars
<1>6. CASE Elapse
  BY <1>6 DEF Elapse
<1>7. CASE UNCHANGED vars
  BY <1>7 DEF vars, leaseVars
<1>8. QED
  BY <1>2, <1>3, <1>4, <1>5, <1>6, <1>7 DEF Next

(***************************************************************************)
(* How old the last renewal can be, by where the process is and whether    *)
(* the last pass missed.  A wait always follows a pass that is done with   *)
(* the container.                                                          *)
(***************************************************************************)
Age ==
    IF phase = "pass"
    THEN passed + (IF step = "done" THEN missed * (MaxPass + Refresh)
                   ELSE (missed + 1) * (MaxPass + Refresh))
    ELSE MaxPass + waited + missed * (MaxPass + Refresh)

LeaseInv ==
    ~gone => /\ phase = "wait" => step = "done"
             /\ ttl + Age >= Expire

(* What is left to live when the container has gone, and when its last     *)
(* publication may still come.                                             *)
GoneInv ==
    /\ phase = "wait" => step = "done"
    /\ ~gone => sinceGone = 0
    /\ (gone /\ step = "inspected") => sinceGone <= passed
    /\ (gone /\ ttl > 0) => sinceGone + ttl <= MaxPass + Expire

(* The four values Age can take. *)
LEMMA AgeCases ==
    ASSUME TypeOK
    PROVE  /\ (phase = "pass" /\ step = "done" /\ missed = 0) => Age = passed
           /\ (phase = "pass" /\ step = "done" /\ missed = 1)
                => Age = passed + MaxPass + Refresh
           /\ (phase = "pass" /\ step # "done" /\ missed = 0)
                => Age = passed + MaxPass + Refresh
           /\ (phase = "pass" /\ step # "done" /\ missed = 1)
                => Age = passed + 2 * MaxPass + 2 * Refresh
           /\ (phase = "wait" /\ missed = 0) => Age = MaxPass + waited
           /\ (phase = "wait" /\ missed = 1)
                => Age = 2 * MaxPass + Refresh + waited
BY TimingAssumption DEF TypeOK, WaitTypeOK, Age

LEMMA LeaseStep == TypeOK /\ LeaseInv /\ [Next]_vars => LeaseInv'
<1> SUFFICES ASSUME TypeOK, LeaseInv, [Next]_vars, ~gone' PROVE LeaseInv'
  BY DEF LeaseInv
<1>1. TypeOK'
  BY LeaseTypeStep
<1>2. ~gone
  BY DEF Next, vars, leaseVars, Inspect, Publish, Miss, SkipGone, StartPass,
         FinishPass, Alive, Elapse, ContainerGoes
<1> USE <1>1, <1>2, TimingAssumption, ExpireAssumption
        DEF TypeOK, WaitTypeOK, LeaseInv, Age, clockVars, leaseVars
<1>3. CASE Inspect
  BY <1>3 DEF Inspect
<1>4. CASE Publish
  BY <1>4 DEF Publish
<1>5. CASE Miss
  BY <1>5 DEF Miss
<1>6. CASE SkipGone \/ ContainerGoes
  BY <1>6 DEF SkipGone, ContainerGoes
<1>7. CASE StartPass
  BY <1>7 DEF StartPass, BeginPass, refresh_timeout
<1>8. CASE FinishPass
  BY <1>8 DEF FinishPass, EndPass
<1>9. CASE Alive
  BY <1>9 DEF Alive, Ping
<1>10. CASE Elapse
  <2>1. /\ phase' = phase /\ step' = step /\ missed' = missed
        /\ ttl' = IF ttl = 0 THEN 0 ELSE ttl - 1
    BY <1>10 DEF Elapse, Tick
  <2>2. Age' = Age + 1
    <3>1. CASE phase = "pass"
      BY <1>10, <2>1, <3>1, AgeCases DEF Elapse, Tick
    <3>2. CASE phase = "wait"
      BY <1>10, <2>1, <3>2, AgeCases DEF Elapse, Tick
    <3>3. QED
      BY <3>1, <3>2
  <2>3. Age \in Nat
    BY AgeCases
  <2>4. Expire \in Nat /\ ttl \in Nat /\ ttl + Age >= Expire
    OBVIOUS
  <2>5. (phase' = "wait" => step' = "done") /\ ttl' + Age' >= Expire
    <3> HIDE DEF Age
    <3>1. QED
      BY <2>1, <2>2, <2>3, <2>4
  <2>6. QED
    BY <2>5
<1>11. CASE UNCHANGED vars
  BY <1>11 DEF vars
<1>12. QED
  BY <1>3, <1>4, <1>5, <1>6, <1>7, <1>8, <1>9, <1>10, <1>11 DEF Next

LEMMA GoneStep == TypeOK /\ GoneInv /\ [Next]_vars => GoneInv'
<1> SUFFICES ASSUME TypeOK, GoneInv, [Next]_vars PROVE GoneInv'
  OBVIOUS
<1> USE TimingAssumption, ExpireAssumption
        DEF TypeOK, WaitTypeOK, GoneInv, clockVars, leaseVars
<1>1. CASE Inspect \/ Publish
  BY <1>1 DEF Inspect, Publish
<1>2. CASE Miss \/ SkipGone \/ ContainerGoes
  BY <1>2 DEF Miss, SkipGone, ContainerGoes
<1>3. CASE StartPass
  BY <1>3 DEF StartPass, BeginPass, refresh_timeout
<1>4. CASE FinishPass
  BY <1>4 DEF FinishPass, EndPass
<1>5. CASE Alive
  BY <1>5 DEF Alive, Ping
<1>6. CASE Elapse
  BY <1>6 DEF Elapse, Tick, MaxSinceGone
<1>7. CASE UNCHANGED vars
  BY <1>7 DEF vars
<1>8. QED
  BY <1>1, <1>2, <1>3, <1>4, <1>5, <1>6, <1>7 DEF Next

(***************************************************************************)
(* The lease is well typed.                                                *)
(***************************************************************************)
THEOREM LeaseTypeCorrect == Spec => []TypeOK
<1>1. Init => TypeOK
  <2> SUFFICES ASSUME Init PROVE TypeOK
    OBVIOUS
  <2>1. WaitTypeOK
    BY TimingAssumption DEF Init, WaitInit, WaitTypeOK
  <2>2. ttl \in 0..Expire
    BY ExpireAssumption DEF Init
  <2>3. missed \in 0..1 /\ sinceGone \in Nat
    BY DEF Init
  <2>4. step \in {"todo", "inspected", "done"} /\ gone \in BOOLEAN
    BY DEF Init
  <2>5. QED
    BY <2>1, <2>2, <2>3, <2>4 DEF TypeOK
<1>2. QED
  BY <1>1, LeaseTypeStep, PTL DEF Spec

(***************************************************************************)
(* A container that stays is never unregistered, with every other pass     *)
(* failing, whenever 2 * Refresh + 3 * MaxPass < Expire.                   *)
(***************************************************************************)
THEOREM LeaseNeverLapses == Spec => []LeaseHeld
<1>1. Init => LeaseInv
  BY ExpireAssumption, TimingAssumption DEF Init, WaitInit, LeaseInv, Age
<1>2. TypeOK /\ LeaseInv => LeaseHeld
  <2> SUFFICES ASSUME TypeOK, LeaseInv, ~gone, 2 * Refresh + 3 * MaxPass < Expire
               PROVE  ttl > 0
    BY DEF LeaseHeld
  <2>1. Age <= 2 * Refresh + 3 * MaxPass
    BY AgeCases, TimingAssumption DEF TypeOK, WaitTypeOK
  <2>2. Age \in Nat
    BY AgeCases, TimingAssumption DEF TypeOK, WaitTypeOK
  <2>3. QED
    BY <2>1, <2>2, TimingAssumption, ExpireAssumption DEF LeaseInv, TypeOK, WaitTypeOK
<1>3. QED
  BY <1>1, <1>2, LeaseTypeCorrect, LeaseStep, PTL DEF Spec

(***************************************************************************)
(* A container that has gone is out of redis after at most one pass and    *)
(* one expiration.                                                         *)
(***************************************************************************)
THEOREM GoneContainersExpire == Spec => []GoneInTime
<1>1. Init => GoneInv
  BY DEF Init, WaitInit, GoneInv
<1>2. TypeOK /\ GoneInv => GoneInTime
  BY TimingAssumption, ExpireAssumption DEF TypeOK, WaitTypeOK, GoneInv, GoneInTime
<1>3. QED
  BY <1>1, <1>2, LeaseTypeCorrect, GoneStep, PTL DEF Spec
-----------------------------------------------------------------------------
(* What the lease of one container has in common with everybody's turns.   *)

LEMMA LeaseRotaStep ==
    ASSUME TypeOK, [Next]_vars
    PROVE  Rota!Next \/ UNCHANGED Rota!vars
<1> USE DEF leaseVars, clockVars
<1> DEFINE it == "it"
<1>1. ttl \in Nat /\ Expire > 0
  BY ExpireAssumption DEF TypeOK
<1>2. CASE Inspect
  <2>1. Rota!Inspect(it)
    BY <1>2 DEF Inspect, Rota!Inspect
  <2>2. QED
    BY <2>1 DEF Rota!Next
<1>3. CASE Publish
  <2>1. Rota!Publish(it)
    BY <1>1, <1>3 DEF Publish, Rota!Publish
  <2>2. QED
    BY <2>1 DEF Rota!Next
<1>4. CASE Miss \/ SkipGone
  <2>1. Rota!GoWithout(it)
    BY <1>4 DEF Miss, SkipGone, Rota!GoWithout
  <2>2. QED
    BY <2>1 DEF Rota!Next
<1>5. CASE StartPass
  <2>1. Rota!Begin
    BY <1>5 DEF StartPass, BeginPass, refresh_timeout, Rota!Begin, Rota!AllAre
  <2>2. QED
    BY <2>1 DEF Rota!Next
<1>6. CASE FinishPass
  <2>1. Rota!End
    BY <1>6 DEF FinishPass, EndPass, Rota!End, Rota!AllAre
  <2>2. QED
    BY <2>1 DEF Rota!Next
<1>7. CASE Elapse
  <2>1. /\ UNCHANGED <<phase, step>>
        /\ ttl' = IF ttl = 0 THEN 0 ELSE ttl - 1
    BY <1>7 DEF Elapse, Tick
  <2>2. CASE ttl = 1
    <3>1. (ttl > 0) = TRUE /\ (ttl' > 0) = FALSE
      BY <2>1, <2>2
    <3>2. [n \in {it} |-> ttl' > 0] = [[n \in {it} |-> ttl > 0] EXCEPT ![it] = FALSE]
      BY <3>1
    <3>3. Rota!Lapse(it)
      BY <2>1, <3>1, <3>2 DEF Rota!Lapse
    <3>4. QED
      BY <3>3 DEF Rota!Next
  <2>3. CASE ttl # 1
    <3>1. (ttl' > 0) = (ttl > 0)
      BY <1>1, <2>1, <2>3
    <3>2. QED
      BY <2>1, <3>1 DEF Rota!vars
  <2>4. QED
    BY <2>2, <2>3
<1>8. CASE UNCHANGED vars \/ Alive \/ ContainerGoes
  BY <1>8 DEF vars, Alive, Ping, ContainerGoes, Rota!vars
<1>9. QED
  BY <1>2, <1>3, <1>4, <1>5, <1>6, <1>7, <1>8 DEF Next

(***************************************************************************)
(* The lease implements Turns, for all periods: what the timed models      *)
(* assume of a pass is what Companion keeps (ContainersTakeTurns).         *)
(***************************************************************************)
THEOREM LeaseIsATurn == Spec => LeaseTakesTurns
<1>1. Init => Rota!Init
  BY ExpireAssumption DEF Init, WaitInit, Rota!Init, Rota!AllAre
<1>2. TypeOK /\ [Next]_vars => [Rota!Next]_(Rota!vars)
  BY LeaseRotaStep
<1>3. QED
  BY <1>1, <1>2, LeaseTypeCorrect, PTL DEF Spec, LeaseTakesTurns, Rota!Spec
=============================================================================
