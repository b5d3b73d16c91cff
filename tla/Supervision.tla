---------------------------- MODULE Supervision ----------------------------
(***************************************************************************)
(* The companion under the service manager that its example unit           *)
(* (src/example-setup/beachhead-companion.service) asks for.  No call to   *)
(* docker or redis has a time-out, so that any of them may hang, and the   *)
(* process with it: it neither pings nor looks at its signals until the    *)
(* call returns.  The service manager is the only way out.  A process it   *)
(* has not heard of for WatchdogSec gets ABRT, which ends it as gently as  *)
(* TERM would if only it returns to its wait, or else KILL after           *)
(* TimeoutSec; after RestartSec a new process begins.                      *)
(*                                                                         *)
(* Lease supplies the process and one container that stays.  What a call   *)
(* takes beyond the MaxPass of a pass is a hang.                           *)
(***************************************************************************)
EXTENDS Lease

CONSTANTS
    TimeoutSec,     \* from ABRT to KILL
    RestartSec      \* from the end of a process to the next one

ASSUME SupervisionAssumption ==
    /\ Watchdog
    /\ TimeoutSec \in Nat \ {0}
    /\ RestartSec \in Nat

VARIABLES
    process,    \* "up", "stopped" (by itself) or "killed"
    aborted,    \* the service manager has sent ABRT
    timer,      \* time since then, or since the process ended
    hung,       \* a call does not return
    lateError,  \* history: since the last renewal a call hung and failed
    passTime    \* history: how long the pass has lasted, hangs included

superVars == <<process, aborted, timer, hung, lateError, passTime>>
allVars == <<vars, superVars>>

SupervisedTypeOK ==
    /\ TypeOK
    /\ process \in {"up", "stopped", "killed"}
    /\ aborted \in BOOLEAN
    /\ timer \in Nat
    /\ hung \in BOOLEAN
    /\ lateError \in BOOLEAN
    /\ passTime \in Nat

SupervisedInit ==
    /\ Init
    /\ process = "up"
    /\ aborted = FALSE
    /\ timer = 0
    /\ hung = FALSE
    /\ lateError = FALSE
    /\ passTime = 0

up == process = "up"
working == up /\ ~hung

-----------------------------------------------------------------------------
(* The process *)

Refreshes ==
    /\ working
    /\ Inspect \/ Publish \/ Miss
    /\ lateError' = (lateError /\ step' # "done")
    /\ UNCHANGED <<process, aborted, timer, hung, passTime>>

(* Only one thing goes wrong between two renewals: a miss or a hang.       *)
Hangs ==
    /\ working /\ phase = "pass" /\ missed = 0
    /\ hung' = TRUE
    /\ missed' = 1
    /\ UNCHANGED <<clockVars, step, ttl, gone, sinceGone,
                   process, aborted, timer, lateError, passTime>>

(* Mutant: a call that fails late is made again. *)
Returns_retries ==
    /\ up /\ hung
    /\ hung' = FALSE
    /\ \/ UNCHANGED <<step, lateError>>
       \/ step = "inspected" /\ step' = "todo" /\ lateError' = TRUE
    /\ UNCHANGED <<clockVars, ttl, missed, gone, sinceGone,
                   process, aborted, timer, passTime>>

(* The call succeeds late, or fails late and ends the container's turn.    *)
Returns ==
    /\ up /\ hung
    /\ hung' = FALSE
    /\ \/ UNCHANGED <<step, lateError>>
       \/ step # "done" /\ step' = "done" /\ lateError' = TRUE
    /\ UNCHANGED <<clockVars, ttl, missed, gone, sinceGone,
                   process, aborted, timer, passTime>>

FinishesPass == working /\ FinishPass /\ UNCHANGED superVars

(* The select may take the refresh timer though ABRT has arrived too.      *)
BeginsPass ==
    /\ up /\ StartPass
    /\ passTime' = 0
    /\ UNCHANGED <<process, aborted, timer, hung, lateError>>

StaysAlive == up /\ Alive /\ UNCHANGED superVars

(* The wait finds ABRT in the channel, and run returns.                    *)
Stops ==
    /\ up /\ aborted /\ phase = "wait"
    /\ process' = "stopped"
    /\ timer' = 0
    /\ UNCHANGED <<vars, aborted, hung, lateError, passTime>>

-----------------------------------------------------------------------------
(* The service manager *)

WatchdogExpires ==
    /\ up /\ ~aborted /\ heard >= Dog
    /\ aborted' = TRUE
    /\ timer' = 0
    /\ UNCHANGED <<vars, process, hung, lateError, passTime>>

Kills ==
    /\ up /\ aborted /\ timer >= TimeoutSec
    /\ process' = "killed"
    /\ timer' = 0
    /\ hung' = FALSE
    /\ UNCHANGED <<vars, aborted, lateError, passTime>>

(* Restart=on-failure: the end of an aborted process is a failure even if  *)
(* it stopped by itself.  The new process begins with a pass.              *)
Restarts ==
    /\ ~up /\ timer >= RestartSec
    /\ phase' = "pass"
    /\ passed' = 0 /\ waited' = 0
    /\ sincePing' = 0 /\ heard' = 0 /\ lost' = 0
    /\ step' = "todo"
    /\ process' = "up"
    /\ aborted' = FALSE
    /\ timer' = 0
    /\ passTime' = 0
    /\ UNCHANGED <<ttl, missed, gone, sinceGone, hung, lateError>>

-----------------------------------------------------------------------------
(* Time *)

(* Somebody has something to do at once.                                   *)
Due ==
    \/ up /\ ~aborted /\ heard >= Dog
    \/ up /\ aborted /\ (phase = "wait" \/ timer >= TimeoutSec)
    \/ ~up /\ timer >= RestartSec

(* The time that only redis and the service manager see.                   *)
OutsideTick ==
    /\ ttl' = IF ttl = 0 THEN 0 ELSE ttl - 1
    /\ IF up THEN sincePing' = sincePing + 1 /\ heard' = heard + 1
             ELSE UNCHANGED <<sincePing, heard>>
    /\ UNCHANGED <<phase, passed, waited, lost, step, missed, gone, sinceGone>>

(* As far as the history counts: no pass lasts longer.                     *)
MaxPassTime == Dog + TimeoutSec

TimePasses ==
    /\ ~Due
    /\ IF working THEN Elapse ELSE OutsideTick
    /\ timer' = IF aborted THEN timer + 1 ELSE timer
    /\ passTime' = IF up /\ phase = "pass" /\ passTime < MaxPassTime
                   THEN passTime + 1 ELSE passTime
    /\ UNCHANGED <<process, aborted, hung, lateError>>

SupervisedNext ==
    \/ Refreshes \/ Hangs \/ Returns
    \/ FinishesPass \/ BeginsPass \/ StaysAlive \/ Stops
    \/ WatchdogExpires \/ Kills \/ Restarts
    \/ TimePasses

SupervisedSpec ==
    /\ SupervisedInit
    /\ [][SupervisedNext]_allVars
    /\ WF_allVars(SupervisedNext)

-----------------------------------------------------------------------------
(* Properties *)

(***************************************************************************)
(* main.rs:264-268 "Abort is to support graceful shutdown when missing a   *)
(* systemd watchdog timeout": nothing but a pass that took at least this   *)
(* long is killed.  A pass is granted the whole watchdog interval, as the  *)
(* unit says, only if its first ping is not lost; 55% of it otherwise.     *)
(***************************************************************************)
KilledOnlyInALongPass ==
    PingAfter < Refresh /\ process = "killed" =>
        passTime >= Dog - PingAfter + TimeoutSec

(* With the example unit, 60 > 27 + 10 + 5 + 10 s and two passes.          *)
Bridgeable ==
    /\ MaxPass <= PingAfter
    /\ PingAfter + RestartSec < Refresh
    /\ 2 * Refresh + 3 * MaxPass < Expire
    /\ Refresh + Dog + TimeoutSec + RestartSec + 2 * MaxPass < Expire

(***************************************************************************)
(* A call that hangs for ever costs no registration that was there: from   *)
(* the last renewal through the wait, the hang, ABRT, KILL and the restart *)
(* to the next renewal, the entry stays, if the expiration allows for it.  *)
(* A call that fails late is worse: another wait follows it.               *)
(***************************************************************************)
HangIsBridged == Bridgeable /\ ~lateError => ttl > 0

(***************************************************************************)
(* Whatever hangs, for however long: there is always another pass.         *)
(***************************************************************************)
PassesGoOn == []<>(up /\ phase = "pass" /\ passTime = 0)

(***************************************************************************)
(* Why: the companion and the service manager never send each other in     *)
(* circles.  Every step but the beginning of a pass uses up one of the     *)
(* supplies from which the next pass must come: of a pass, the patience of *)
(* the service manager, and within a tick what its one container may go    *)
(* through; of a wait, the refresh timer; of a process that is down, the   *)
(* delay of the restart (beachhead-companion.service:20-30).               *)
(***************************************************************************)
PatienceLeft ==
    IF aborted THEN TimeoutSec - timer ELSE (Dog - heard) + 1 + TimeoutSec

TurnLeft ==
    [todo |-> 6, inspected |-> 3, done |-> 0][step]
    + 2 * (1 - missed) + (IF hung THEN 1 ELSE 0)

StepsToPass ==
    IF ~up THEN RestartSec - timer
    ELSE IF phase = "wait"
    THEN RestartSec + 1 + WaitLeft + (IF aborted THEN 0 ELSE 1)
    ELSE RestartSec + 2 * Refresh + 4 + 10 * PatienceLeft + TurnLeft

NoCircles ==
    [][\/ BeginsPass \/ Restarts
       \/ StepsToPass' \in 0 .. StepsToPass - 1]_allVars

(***************************************************************************)
(* Hangs, ABRT and KILL cost a container its turn, as a failure or the end *)
(* of the process does, and nothing else: what Turns says of one client    *)
(* still holds, with a process that is down until it is restarted.         *)
(***************************************************************************)
SupervisedRota == INSTANCE Turns WITH
    Clients <- {"it"},
    phase <- IF ~up THEN "down" ELSE IF phase = "pass" THEN "pass" ELSE "rest",
    step <- [n \in {"it"} |-> IF up THEN step ELSE "done"],
    held <- [n \in {"it"} |-> ttl > 0]

SupervisedTakesTurns == SupervisedRota!Spec
=============================================================================
