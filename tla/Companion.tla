----------------------------- MODULE Companion -----------------------------
(***************************************************************************)
(* The companion (src/src/companion.rs, fn run): a loop that enumerates    *)
(* containers, inspects each of them, publishes what it found to redis and *)
(* waits for the next refresh or for a termination signal.                 *)
(*                                                                         *)
(* Every action of the process makes at most one call to docker, redis or  *)
(* the signal channel; containers, outages, signals, expirations and       *)
(* crashes interleave between any two of them.  Time is left out: in the   *)
(* select the refresh timer or the watchdog timer may be ready whenever    *)
(* the process looks.  Notifications to the service manager only matter    *)
(* where their failure changes control, which is the initial READY.        *)
(***************************************************************************)
EXTENDS Inspector, Publisher, Refresh

CONSTANT MaxMoves   \* bound on container changes, outages and crashes

ASSUME MovesAssumption == MaxMoves \in Nat

VARIABLES
    config,     \* the configuration, fixed when the process is first started
    pc,         \* where the process is
    names,      \* this pass: container name |-> was it listed explicitly
    todo,       \* the names of this pass not yet taken up
    current,    \* the publication in hand between inspect and publish
    errors,     \* the errors of this pass
    log,        \* what refresh_container logged in this pass
    exit,       \* how run returned
    signal,     \* a termination signal is waiting in the channel
    systemdUp,  \* whether notifications to the service manager succeed
    moves,      \* how often the environment has moved
    late,       \* history: passes begun while a signal was waiting
    quiet       \* history: nothing outside has moved since the pass began

passVars == <<names, todo, current, errors, log>>
historyVars == <<late, quiet>>
processVars == <<config, pc, passVars, exit, signal, historyVars>>
vars == <<dockerVars, redisVars, processVars, systemdUp, moves>>

ProgramPoints ==
    {"start", "iterate", "refresh", "publish", "check", "select", "shutdown",
     "exited", "crashed"}

CompanionError ==
    [kind : {"Inspection", "Publishing", "EnvVarMissing", "Systemd"},
     name : Names \cup {NoName}]

LogRecord ==
    [level : {"Error", "Warn", "Info"},
     event : {"inspect failed", "envvar missing", "dry run", "updating",
              "publish failed"},
     name : Names]

Publication == [name : Names, host : Hosts, specs : SpecLists]
NoPublication == [name |-> NoName, host |-> NoAddress, specs |-> <<>>]

TypeOK ==
    /\ InspectorTypeOK
    /\ PublisherTypeOK
    /\ config \in Configs
    /\ pc \in ProgramPoints
    /\ DOMAIN names \subseteq Names
    /\ names \in [DOMAIN names -> BOOLEAN]
    /\ todo \subseteq DOMAIN names
    /\ current \in Publication \cup {NoPublication}
    /\ pc = "publish" <=> current # NoPublication
    /\ errors \subseteq CompanionError
    /\ log \subseteq LogRecord
    /\ exit \in {"none", "ok", "err"}
    /\ signal \in BOOLEAN
    /\ systemdUp \in BOOLEAN
    /\ moves \in 0..MaxMoves
    /\ late \in Nat
    /\ quiet \in BOOLEAN

NoNames == [n \in {} |-> FALSE]

Init ==
    /\ InspectorInit
    /\ PublisherInit
    /\ config \in Configs
    /\ pc = "start"
    /\ names = NoNames
    /\ todo = {}
    /\ current = NoPublication
    /\ errors = {}
    /\ log = {}
    /\ exit = "none"
    /\ signal = FALSE
    /\ systemdUp = TRUE
    /\ moves = 0
    /\ late = 0
    /\ quiet = FALSE

-----------------------------------------------------------------------------
(* The pass: start-up, enumeration, and one refresh_container per name *)

Err(kind, name) == [kind |-> kind, name |-> name]
Log(level, event, name) == [level |-> level, event |-> event, name |-> name]

NotifyReady ==
    /\ pc = "start"
    /\ config.systemd => systemdUp
    /\ pc' = "iterate"
    /\ UNCHANGED <<dockerVars, redisVars, config, passVars, exit, signal,
                   systemdUp, moves, historyVars>>

NotifyReadyFails ==
    /\ pc = "start"
    /\ config.systemd /\ ~systemdUp
    /\ pc' = "exited"
    /\ exit' = "err"
    /\ errors' = {Err("Systemd", NoName)}
    /\ UNCHANGED <<dockerVars, redisVars, config, names, todo, current, log,
                   signal, systemdUp, moves, historyVars>>

(* Mutant: the failure is forgotten, as if there were no containers.       *)
Enumerate_forgets ==
    /\ pc = "iterate"
    /\ names' = container_index(ExplicitNames,
                    IF config.enumerate /\ dockerUp THEN Listing ELSE {})
    /\ todo' = DOMAIN names'
    /\ errors' = {}
    /\ log' = {}
    /\ pc' = "refresh"
    /\ late' = IF signal THEN late + 1 ELSE late
    /\ quiet' = TRUE
    /\ UNCHANGED <<dockerVars, redisVars, config, current, exit, signal,
                   systemdUp, moves>>

(* The loop head and Context::enumerate.  When listing fails the pass goes *)
(* on with the explicit names; the failure is kept as an error.            *)
Enumerate ==
    /\ pc = "iterate"
    /\ names' = container_index(ExplicitNames,
                    IF config.enumerate /\ dockerUp THEN Listing ELSE {})
    /\ todo' = DOMAIN names'
    /\ errors' = IF config.enumerate /\ ~dockerUp
                 THEN {Err("Inspection", NoName)} ELSE {}
    /\ log' = {}
    /\ pc' = "refresh"
    /\ late' = IF signal THEN late + 1 ELSE late
    /\ quiet' = TRUE
    /\ UNCHANGED <<dockerVars, redisVars, config, current, exit, signal,
                   systemdUp, moves>>

(* Mutant: an error ends the pass instead of the refresh of one container. *)
Skip_rest(n, newErrors, record) ==
    /\ todo' = IF newErrors = {} THEN todo \ {n} ELSE {}
    /\ errors' = errors \cup newErrors
    /\ log' = log \cup {record}
    /\ UNCHANGED <<dockerVars, redisVars, config, pc, names, current, exit,
                   signal, systemdUp, moves, historyVars>>

(* refresh_container returns without publishing. *)
Skip(n, newErrors, record) ==
    /\ todo' = todo \ {n}
    /\ errors' = errors \cup newErrors
    /\ log' = log \cup {record}
    /\ UNCHANGED <<dockerVars, redisVars, config, pc, names, current, exit,
                   signal, systemdUp, moves, historyVars>>

InspectFails(n) ==
    /\ ~inspect(n, config.docker_network).ok
    /\ Skip(n, IF ConsiderError(config, names[n])
               THEN {Err("Inspection", n)} ELSE {},
            Log(InspectFailureLevel(config, names[n]), "inspect failed", n))

EnvVarMissing(n) ==
    LET i == inspect(n, config.docker_network)
    IN  /\ i.ok /\ ~i.envvar_present
        /\ IF EnvVarExpected(config, names[n])
           THEN Skip(n, {Err("EnvVarMissing", n)},
                     Log("Error", "envvar missing", n))
           ELSE Skip(n, {}, Log("Info", "envvar missing", n))

DryRun(n) ==
    LET i == inspect(n, config.docker_network)
    IN  /\ i.ok /\ i.envvar_present
        /\ config.dry_run
        /\ Skip(n, {}, Log("Info", "dry run", n))

(* The publication is made from this inspection, whatever becomes of the   *)
(* container before redis is called.                                       *)
Inspected(n) ==
    LET i == inspect(n, config.docker_network)
    IN  /\ i.ok /\ i.envvar_present
        /\ ~config.dry_run
        /\ current' = [name |-> n, host |-> i.host, specs |-> i.specs]
        /\ todo' = todo \ {n}
        /\ log' = log \cup {Log("Info", "updating", n)}
        /\ pc' = "publish"
        /\ UNCHANGED <<dockerVars, redisVars, config, names, errors, exit,
                       signal, systemdUp, moves, historyVars>>

(* The names come out of a HashMap, in any order. *)
RefreshContainer ==
    /\ pc = "refresh"
    /\ \E n \in todo :
        InspectFails(n) \/ EnvVarMissing(n) \/ DryRun(n) \/ Inspected(n)

(* Mutant: the publication stays in hand. *)
Published_kept ==
    /\ pc = "publish"
    /\ PublishOk(current.host, current.specs, config.expire)
    /\ pc' = "refresh"
    /\ UNCHANGED <<dockerVars, config, names, todo, current, errors, log, exit,
                   signal, systemdUp, moves, historyVars>>

Published ==
    /\ pc = "publish"
    /\ PublishOk(current.host, current.specs, config.expire)
    /\ pc' = "refresh"
    /\ current' = NoPublication
    /\ UNCHANGED <<dockerVars, config, names, todo, errors, log, exit, signal,
                   systemdUp, moves, historyVars>>

(* Mutant: a failed publication is tried again until it succeeds.          *)
PublishFails_retried ==
    /\ pc = "publish"
    /\ PublishErr(current.host, current.specs, config.expire)
    /\ UNCHANGED <<dockerVars, processVars, systemdUp, moves>>

PublishFails ==
    /\ pc = "publish"
    /\ PublishErr(current.host, current.specs, config.expire)
    /\ pc' = "refresh"
    /\ current' = NoPublication
    /\ errors' = errors \cup {Err("Publishing", current.name)}
    /\ log' = log \cup {Log("Error", "publish failed", current.name)}
    /\ UNCHANGED <<dockerVars, config, names, todo, exit, signal, systemdUp,
                   moves, historyVars>>

-----------------------------------------------------------------------------
(* Context::wait and the way out *)

Goto(point) ==
    /\ pc' = point
    /\ UNCHANGED <<dockerVars, redisVars, config, passVars, exit, systemdUp,
                   moves, historyVars>>

(* Mutant: a daemon gives up after a pass with errors. *)
EndPass_gives_up ==
    /\ pc = "refresh"
    /\ todo = {}
    /\ Goto(IF config.refresh /\ errors = {} THEN "check" ELSE "shutdown")
    /\ UNCHANGED signal

(* Mutant: no refresh interval taken for one of no length. *)
EndPass_always_waits ==
    /\ pc = "refresh"
    /\ todo = {}
    /\ Goto("check")
    /\ UNCHANGED signal

(* With no refresh interval wait returns false at once. *)
EndPass ==
    /\ pc = "refresh"
    /\ todo = {}
    /\ Goto(IF config.refresh THEN "check" ELSE "shutdown")
    /\ UNCHANGED signal

(* Mutant: straight into the select. *)
CheckSignal_skipped ==
    /\ pc = "check"
    /\ Goto("select")
    /\ UNCHANGED signal

(* The non-blocking look at the signal channel that begins every turn of   *)
(* the wait loop.                                                          *)
CheckSignal ==
    /\ pc = "check"
    /\ Goto(IF signal THEN "shutdown" ELSE "select")
    /\ signal' = FALSE

(* chan_select! takes an arbitrary one of the channels that are ready.     *)
SelectSignal ==
    /\ pc = "select"
    /\ signal
    /\ Goto("shutdown")
    /\ signal' = FALSE

SelectRefresh ==
    /\ pc = "select"
    /\ pc' = "iterate"
    /\ errors' = {}
    /\ UNCHANGED <<dockerVars, redisVars, config, names, todo, current, log,
                   exit, signal, systemdUp, moves, historyVars>>

SelectWatchdog ==
    /\ pc = "select"
    /\ config.watchdog
    /\ Goto("check")
    /\ UNCHANGED signal

(* Only a process that runs once reports the errors of its (last) pass.    *)
Shutdown ==
    /\ pc = "shutdown"
    /\ pc' = "exited"
    /\ exit' = IF errors = {} \/ config.refresh THEN "ok" ELSE "err"
    /\ UNCHANGED <<dockerVars, redisVars, config, passVars, signal, systemdUp,
                   moves, historyVars>>

Process ==
    \/ NotifyReady \/ NotifyReadyFails
    \/ Enumerate \/ RefreshContainer \/ Published \/ PublishFails \/ EndPass
    \/ CheckSignal \/ SelectSignal \/ SelectRefresh \/ SelectWatchdog
    \/ Shutdown
-----------------------------------------------------------------------------
(* The world around the process (external) *)

alive == pc \notin {"exited", "crashed"}

Move ==
    /\ moves < MaxMoves
    /\ moves' = moves + 1

(* What happens outside leaves the process alone. *)
Outside == UNCHANGED <<config, pc, passVars, exit, signal, late>>

DockerMoves ==
    /\ DockerChange \/ DockerOutage
    /\ Move /\ Outside /\ quiet' = FALSE
    /\ UNCHANGED <<redisVars, systemdUp>>

RedisMoves ==
    /\ RedisOutage
    /\ Move /\ Outside /\ quiet' = FALSE
    /\ UNCHANGED <<dockerVars, systemdUp>>

SystemdOutage ==
    /\ systemdUp /\ systemdUp' = FALSE
    /\ Move /\ Outside
    /\ UNCHANGED <<dockerVars, redisVars, quiet>>

DockerBack ==
    /\ DockerRecovers
    /\ Outside /\ quiet' = FALSE
    /\ UNCHANGED <<redisVars, systemdUp, moves>>

RedisBack ==
    /\ RedisRecovers
    /\ Outside /\ quiet' = FALSE
    /\ UNCHANGED <<dockerVars, systemdUp, moves>>

SystemdBack ==
    /\ ~systemdUp /\ systemdUp' = TRUE
    /\ Outside
    /\ UNCHANGED <<dockerVars, redisVars, moves, quiet>>

Expire(k) ==
    /\ EntryExpires(k)
    /\ Outside /\ quiet' = FALSE
    /\ UNCHANGED <<dockerVars, systemdUp, moves>>

DeliverSignal ==
    /\ alive
    /\ ~signal /\ signal' = TRUE
    /\ UNCHANGED <<dockerVars, redisVars, config, pc, passVars, exit,
                   systemdUp, moves, historyVars>>

(* A kill, a watchdog time-out or a panic: only redis remembers anything.  *)
Crash ==
    /\ alive
    /\ Move
    /\ pc' = "crashed"
    /\ current' = NoPublication
    /\ UNCHANGED <<dockerVars, redisVars, config, names, todo, errors, log,
                   exit, signal, systemdUp, historyVars>>

(* Restart=on-failure in example-setup/beachhead-companion.service. *)
Restart ==
    /\ config.systemd
    /\ pc = "crashed" \/ (pc = "exited" /\ exit = "err")
    /\ pc' = "start"
    /\ names' = NoNames /\ todo' = {} /\ errors' = {} /\ log' = {}
    /\ exit' = "none"
    /\ signal' = FALSE
    /\ late' = 0 /\ quiet' = FALSE
    /\ UNCHANGED <<dockerVars, redisVars, config, current, systemdUp, moves>>

(* The process is gone for good. *)
Terminated ==
    /\ ~alive
    /\ exit = "ok" \/ ~config.systemd
    /\ UNCHANGED vars

Environment ==
    \/ DockerMoves \/ RedisMoves \/ SystemdOutage
    \/ DockerBack \/ RedisBack \/ SystemdBack
    \/ \E k \in Keys : Expire(k)
    \/ DeliverSignal \/ Crash \/ Restart \/ Terminated

Next == Process \/ Environment

Spec == Init /\ [][Next]_vars

(***************************************************************************)
(* Fairness.  The process runs and its calls return.  The refresh timer    *)
(* fires, and a watchdog ping pushes the watchdog deadline back, so that   *)
(* pings cannot win every select: strong fairness for SelectRefresh.       *)
(* Outages end, systemd restarts what failed, redis expires what has a     *)
(* time to live.                                                           *)
(***************************************************************************)
Fairness ==
    /\ WF_vars(Process)
    /\ SF_vars(SelectRefresh)
    /\ WF_vars(DockerBack) /\ WF_vars(RedisBack) /\ WF_vars(SystemdBack)
    /\ WF_vars(Restart)
    /\ \A k \in Keys : WF_vars(Expire(k))

FairSpec == Spec /\ Fairness

-----------------------------------------------------------------------------
(* Properties *)

(* Of one pass. *)
InPass == pc \in {"refresh", "publish", "check", "select", "shutdown"}
PassDone == pc \in {"check", "select", "shutdown"}

Logged(n, event) == \E r \in log : r.name = n /\ r.event = event
Updated(n) == Logged(n, "updating") /\ ~Logged(n, "publish failed")

(* What the companion is asked to look after, as far as docker tells, and  *)
(* what it would publish for a name if it looked now.                      *)
Unlisted == config.enumerate /\ ~dockerUp
Scope ==
    ExplicitNames \cup (IF config.enumerate /\ ~Unlisted THEN Listing ELSE {})
Look(n) == inspect(n, config.docker_network)
Wanted(n) ==
    /\ Look(n).ok /\ Look(n).envvar_present
    /\ ~config.dry_run
    /\ accepts(Look(n).specs, config.expire)
KeyOf(n) == service_key(Look(n).host)
Expected(n) == EntryFor(Look(n).host, Look(n).specs, config.expire)

(* No other name in scope wants a different value under the same key.      *)
Unrivalled(n) ==
    \A m \in Scope :
        (Wanted(m) /\ KeyOf(m) = KeyOf(n)) => Expected(m) = Expected(n)

Registered(n) == redis[KeyOf(n)] = Expected(n)

(***************************************************************************)
(* A termination signal is honoured at the end of the pass that is running *)
(* or, when the select that saw the signal and the refresh timer ready     *)
(* takes the timer, at the end of one more pass: never later               *)
(* (companion.rs:128-150, "they take precedence over waiting").            *)
(***************************************************************************)
AtMostOnePassAfterSignal == late \leq 1

(***************************************************************************)
(* One container's failure costs no other container its turn, and neither  *)
(* does a failed enumeration: when a pass is over every explicit name and  *)
(* every enumerated one has been refreshed, skipped or failed, in the log  *)
(* (companion.rs:318-327, 365-436).                                        *)
(***************************************************************************)
EveryNameGetsItsTurn ==
    PassDone => /\ ExplicitNames \subseteq DOMAIN names
                /\ \A n \in DOMAIN names : \E r \in log : r.name = n

(***************************************************************************)
(* What is kept as an error of a container is what is logged above Info,   *)
(* and the other way round (companion.rs:359-364: "considered problematic" *)
(* errors are reported in the log and additionally returned).              *)
(***************************************************************************)
ErrorsAreTheLoudRecords ==
    InPass => {e.name : e \in errors} \ {NoName}
                = {r.name : r \in {r \in log : r.level # "Info"}}

(***************************************************************************)
(* The exit status of a run-once companion can be trusted: if run returns  *)
(* Ok, redis took the publication of every explicitly listed container,    *)
(* except that a dry run only looked, and that the user may have asked to  *)
(* ignore a missing environment variable (companion.rs:349-355).           *)
(***************************************************************************)
CleanExitMeansRegistered ==
    (exit = "ok" /\ ~config.refresh) =>
        \A n \in ExplicitNames :
            \/ Updated(n)
            \/ config.dry_run /\ Logged(n, "dry run")
            \/ config.missing_envvar = "Ignore" /\ Logged(n, "envvar missing")

(***************************************************************************)
(* A pass during which nothing outside moved, and redis answered, leaves   *)
(* under every key that is wanted the current entry of a container in      *)
(* scope that wants it, whole, and neither an old one nor none, whatever   *)
(* the order of the names and whatever failed for other names.  Names that *)
(* want different values under one key do each other no more harm than     *)
(* that: who wants a key alone is registered (companion.rs:421-429,        *)
(* redis.rs:83-97).                                                        *)
(***************************************************************************)
Served(n) ==
    \E m \in Scope : /\ Wanted(m) /\ KeyOf(m) = KeyOf(n)
                     /\ redis[KeyOf(n)] = Expected(m)

EveryKeyIsServed ==
    (quiet /\ redisUp /\ PassDone) => \A n \in Scope : Wanted(n) => Served(n)

(***************************************************************************)
(* Only containers without an address on the bridge can be rivals: after   *)
(* such a pass every wanted container in scope that has a host to itself,  *)
(* as every one has under --docker-network, is registered, because no two  *)
(* hosts share a key (redis.rs:81) and no two names share a host but those *)
(* of one container, or those whose address is empty (docker.rs:81-84).    *)
(***************************************************************************)
AddressedGetRegistered ==
    (quiet /\ redisUp /\ PassDone) =>
        \A n \in Scope : Wanted(n) /\ Look(n).host # NoAddress => Registered(n)

(***************************************************************************)
(* Nobody is blamed for another's failure, and nobody is let off: after a  *)
(* pass during which nothing outside moved, be it one long outage, the     *)
(* errors are that of the enumeration, if docker did not answer it, and    *)
(* those of the names in scope that cannot be inspected, lack the variable *)
(* or did not get what they offer into redis, each judged by the flags and *)
(* by whether the name is an explicit one, which it stays when it is       *)
(* enumerated too (companion.rs:76-110, 314-321, 372-436).  A publication  *)
(* of which only the reply was lost is an error like any other             *)
(* (redis.rs:72).                                                          *)
(***************************************************************************)
Deserved(e) ==
    \/ /\ e.kind = "Inspection" /\ ~Look(e.name).ok
       /\ e.name \in ExplicitNames \/ config.missing_container = "Report"
    \/ /\ e.kind = "EnvVarMissing" /\ Look(e.name).ok
       /\ ~Look(e.name).envvar_present
       /\ \/ config.missing_envvar = "Report"
          \/ config.missing_envvar = "Automatic" /\ e.name \in ExplicitNames
    \/ /\ e.kind = "Publishing" /\ Look(e.name).ok
       /\ Look(e.name).envvar_present /\ ~config.dry_run
       /\ ~redisUp \/ ~accepts(Look(e.name).specs, config.expire)

ListingErrors == {e \in {Err("Inspection", NoName)} : Unlisted}

QuietPassBlames ==
    (quiet /\ PassDone) =>
        errors = {e \in CompanionError : e.name \in Scope /\ Deserved(e)}
                    \cup ListingErrors

(***************************************************************************)
(* A signal, or having no refresh interval, ends the process, however many *)
(* containers fail and however often the watchdog asks for a ping.         *)
(***************************************************************************)
StopsWhenAsked == (alive /\ (signal \/ ~config.refresh)) ~> ~alive

(***************************************************************************)
(* How soon that is: nothing takes the asking back, and every step of the  *)
(* process brings it nearer its end, which is two calls for each name and  *)
(* five steps more at the most.  No outage, no container that comes to     *)
(* docker, no ping and no failure makes the way longer again.  Only a look *)
(* at the channel that finds it empty does (companion.rs:128-133).         *)
(***************************************************************************)
Asked == signal \/ ~config.refresh \/ pc = "shutdown"

StepsLeft ==
    [start |-> 5, select |-> 5, iterate |-> 4, publish |-> 4, refresh |-> 3,
     check |-> 2, shutdown |-> 1, exited |-> 0, crashed |-> 0][pc]
    + 2 * Cardinality(IF pc \in {"start", "select", "iterate"} THEN Names ELSE todo)

WindsDown ==
    [][alive =>
        /\ Asked => Asked' \/ ~alive'
        /\ IF Process THEN StepsLeft' < StepsLeft \/ (pc = "check" /\ ~Asked)
                      ELSE StepsLeft' <= StepsLeft]_vars

(***************************************************************************)
(* A supervised daemon that nobody stops keeps making passes: outages,     *)
(* failing containers, crashes and pings only delay the next one.          *)
(***************************************************************************)
KeepsRefreshing ==
    (config.refresh /\ config.systemd)
        => ([]<>(pc = "iterate") \/ <>signal)

(***************************************************************************)
(* README "a system that automatically converges": a name that is wanted   *)
(* from some time on is registered with its current data again and again,  *)
(* after any outage, crash, expiration or change of address.               *)
(***************************************************************************)
Converges ==
    \A n \in Names :
        (/\ config.refresh /\ config.systemd
         /\ <>[](n \in Scope /\ Wanted(n) /\ Unrivalled(n)))
            => ([]<>Registered(n) \/ <>signal)

(***************************************************************************)
(* README "published configuration will disappear unless continuously      *)
(* refreshed" and common.rs:100 "if it's not there, don't publish its      *)
(* configuration (let it expire)": eventually every entry is one that a    *)
(* running container wants.                                                *)
(***************************************************************************)
StaleEntriesVanish ==
    config.expire =>
        \A k \in Keys :
            <>[](\/ redis[k] = NoEntry
                 \/ \E n \in Names : /\ running(Target[n]) /\ Wanted(n)
                                     /\ KeyOf(n) = k /\ Registered(n))

-----------------------------------------------------------------------------
(* The contract with the consumers of redis *)

(* What an inspection of n would make the companion publish, the world of  *)
(* such offers, and the publication in hand as one of them.                *)
Offer(n) == [slot |-> KeyOf(n), entry |-> Expected(n)]
Offered(n) == Look(n).ok /\ Look(n).envvar_present /\ ~config.dry_run
World == {Offer(n) : n \in {n \in Names : Offered(n)}}
Hand ==
    IF pc = "publish"
    THEN {[slot |-> service_key(current.host),
           entry |-> EntryFor(current.host, current.specs, config.expire)]}
    ELSE {}

Contract == INSTANCE Registry WITH
    Slots <- Keys, Entries <- Entry, Mortal <- {e \in Entry : e.ttl},
    world <- World, registry <- redis, hand <- Hand

(***************************************************************************)
(* The companion implements the contract: whatever fails, moves, crashes   *)
(* or expires between its calls, redis changes only by one write of one    *)
(* present look at one container, or by expiring, and not at all in a dry  *)
(* run.                                                                    *)
(***************************************************************************)
KeepsContract == Contract!Spec

-----------------------------------------------------------------------------
(* What each container gets *)

Turn(n) ==
    IF pc \notin {"refresh", "publish"} THEN "done"
    ELSE IF n \in todo THEN "todo"
    ELSE IF n = current.name THEN "inspected" ELSE "done"

Rota == INSTANCE Turns WITH
    Clients <- ExplicitNames,
    phase <- IF ~alive THEN "down"
             ELSE IF pc \in {"refresh", "publish"} THEN "pass" ELSE "rest",
    step <- [n \in ExplicitNames |-> Turn(n)],
    held <- [n \in ExplicitNames |-> redis[service_key(n)] # NoEntry]

(***************************************************************************)
(* In a docker network, where a container's name is its host, the explicit *)
(* containers get their turns as Turns has it: one each in every pass that *)
(* is not cut short, publication after inspection, and no entry touched in *)
(* somebody else's turn, enumerated containers included.  This is what     *)
(* Lease and Supervision take for granted of a pass.                       *)
(***************************************************************************)
TakesTurns ==
    /\ config.docker_network => Rota!Init
    /\ [][config.docker_network => UNCHANGED Rota!vars \/ Rota!Next]_vars

-----------------------------------------------------------------------------
(* Statements of the documentation and the tests that the code departs     *)
(* from: each is refuted by a run of its own.                              *)

(***************************************************************************)
(* common.rs:105 "Ignore containers that cannot be inspected" and USAGE    *)
(* (main.rs:95-98), which has missing containers not be an error unless    *)
(* --error-missing-container is given.  The code (companion.rs:383-385)    *)
(* keeps the error of every explicit container.                            *)
(***************************************************************************)
MissingContainersIgnored ==
    config.missing_container = "Ignore" =>
        \A n \in Names : Err("Inspection", n) \notin errors

(***************************************************************************)
(* test_redis_publisher.rs:224 "top-level value stored in redis must be an *)
(* array".  Without an expiration the code stores a bare object.           *)
(***************************************************************************)
ValuesAreArrays == \A k \in Keys : redis[k].shape # "object"
=============================================================================
