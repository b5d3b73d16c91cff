----------------------------- MODULE WaitLoop ------------------------------
(***************************************************************************)
(* The clockwork of the daemon (src/src/companion.rs: wait, notify_status, *)
(* deadline_to_alarm_clock): passes alternate with waits, a wait lasts     *)
(* until the refresh timer fires, and a watchdog timer interrupts it to    *)
(* send "alive" pings to the service manager.                              *)
(*                                                                         *)
(* Time is discrete, in ticks of any size.  The process wakes as soon as a *)
(* timer is due; a pass takes up to MaxPass ticks and sends no ping while  *)
(* it runs.  Termination is the subject of Companion, not of this module.  *)
(***************************************************************************)
EXTENDS Naturals

CONSTANTS
    Refresh,    \* refresh_seconds
    Watchdog,   \* watchdog_microseconds.is_some()
    Dog,        \* watchdog_microseconds: the service manager's patience
    MaxPass     \* the longest pass

ASSUME TimingAssumption ==
    /\ Refresh \in Nat \ {0}
    /\ Watchdog \in BOOLEAN
    /\ Dog \in Nat
    /\ Watchdog => Dog >= 3     \* so that 45% of it is not nothing
    /\ MaxPass \in Nat

(* Mutant: the officially suggested half. *)
PingAfter_half == (Dog * 50) \div 100

(* The official half of the interval, made 45%, rounded down. *)
PingAfter == (Dog * 45) \div 100

VARIABLES
    phase,      \* "pass" or "wait"
    passed,     \* how long the last pass has taken so far
    waited,     \* time since start_of_wait: the refresh timer
    sincePing,  \* time since the last ping was sent: the watchdog timer
    heard,      \* service manager: time since it last received a ping
    lost        \* pings lost since then

pingVars == <<sincePing, heard, lost>>
clockVars == <<phase, passed, waited, sincePing, heard, lost>>

WaitTypeOK ==
    /\ phase \in {"pass", "wait"}
    /\ passed \in 0..MaxPass
    /\ waited \in 0..Refresh
    /\ sincePing \in Nat
    /\ heard \in Nat
    /\ lost \in 0..1

(* The process has been declared ready and begins its first pass.          *)
WaitInit ==
    /\ phase = "pass"
    /\ passed = 0
    /\ waited = 0
    /\ sincePing = 0
    /\ heard = 0
    /\ lost = 0

(* The ping may get lost on the way to the service manager; two in a row   *)
(* are more than the companion prepares for.  The watchdog deadline moves  *)
(* on either way.                                                          *)
notify_status ==
    IF ~Watchdog THEN UNCHANGED pingVars
    ELSE /\ sincePing' = 0
         /\ \/ heard' = 0 /\ lost' = 0
            \/ lost = 0 /\ lost' = 1 /\ UNCHANGED heard

(* Mutant: one tick late. *)
refresh_timeout_late == phase = "wait" /\ waited > Refresh

refresh_timeout == phase = "wait" /\ waited >= Refresh

(* Mutant: a thread of its own sends the pings, whatever the loop does.    *)
watchdog_timeout_anytime == Watchdog /\ sincePing >= PingAfter

watchdog_timeout == phase = "wait" /\ Watchdog /\ sincePing >= PingAfter

(* Mutant: a pass begins without a ping. *)
BeginPass_quiet ==
    /\ refresh_timeout
    /\ phase' = "pass"
    /\ passed' = 0
    /\ UNCHANGED <<waited, pingVars>>

(* The select takes the refresh timer: errors are forgotten, and the next  *)
(* pass begins with a ping.                                                *)
BeginPass ==
    /\ refresh_timeout
    /\ phase' = "pass"
    /\ passed' = 0
    /\ notify_status
    /\ UNCHANGED waited

(* A pass ends with a ping; the refresh timer starts only then.            *)
EndPass ==
    /\ phase = "pass"
    /\ phase' = "wait"
    /\ waited' = 0
    /\ notify_status
    /\ UNCHANGED passed

(* Mutant: the refresh timer is made anew in every turn of the loop.       *)
Ping_restarts_refresh ==
    /\ watchdog_timeout
    /\ notify_status
    /\ waited' = 0
    /\ UNCHANGED <<phase, passed>>

(* The select takes the watchdog timer: the wait loop takes another turn   *)
(* with the same refresh timer.                                            *)
Ping ==
    /\ watchdog_timeout
    /\ notify_status
    /\ UNCHANGED <<phase, passed, waited>>

(* A tick passes unless the process has something to do at once.           *)
Tick ==
    /\ ~refresh_timeout /\ ~watchdog_timeout
    /\ IF phase = "pass"
       THEN passed < MaxPass /\ passed' = passed + 1 /\ UNCHANGED waited
       ELSE waited' = waited + 1 /\ UNCHANGED passed
    /\ IF Watchdog
       THEN sincePing' = sincePing + 1 /\ heard' = heard + 1
       ELSE UNCHANGED <<sincePing, heard>>
    /\ UNCHANGED <<phase, lost>>

WaitNext == BeginPass \/ EndPass \/ Ping \/ Tick

WaitSpec == WaitInit /\ [][WaitNext]_clockVars

-----------------------------------------------------------------------------
(* Properties *)

HeardInTime == heard < Dog

(***************************************************************************)
(* companion.rs:231 "we are guaranteed to get two chances at the alive     *)
(* ping": while a pass is no longer than the ping period, the service      *)
(* manager hears of the process in time even if every other ping is lost.  *)
(***************************************************************************)
TwoChances == (Watchdog /\ MaxPass <= PingAfter) => HeardInTime

(***************************************************************************)
(* However many pings a wait is interrupted by, it ends with a pass.  This *)
(* is what the strong fairness in Companion stands for.                    *)
(***************************************************************************)
WaitsEnd == (phase = "wait") ~> (phase = "pass")

(***************************************************************************)
(* How soon: whatever happens in a wait leaves less of it, two steps for   *)
(* every tick to go and one for a ping that is due.  A ping brings the     *)
(* refresh nearer as much as time does (companion.rs:116-121, 161-176).    *)
(***************************************************************************)
WaitLeft == 2 * (Refresh - waited) + (IF watchdog_timeout THEN 1 ELSE 0)

WaitRunsOut ==
    [][phase = "wait" /\ phase' = "wait" =>
        WaitLeft' \in 0 .. WaitLeft - 1]_clockVars
=============================================================================
