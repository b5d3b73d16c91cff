------------------------------ MODULE Startup ------------------------------
(***************************************************************************)
(* From the command line to the exit status (src/src/main.rs): main        *)
(* completes the arguments, sets the log level, makes the configuration,   *)
(* asks systemd for the watchdog interval and runs the companion.          *)
(* Arguments that are only handed on (hosts, URLs, key prefix, the name of *)
(* the variable) are left out.  The companion itself is module Companion;  *)
(* here only the ways it can return matter.                                *)
(***************************************************************************)
EXTENDS Naturals

CONSTANTS
    ExpireArgs,     \* values of --expire
    RefreshArgs,    \* values of --refresh, when it is given
    DogIntervals,   \* what sd_watchdog_enabled can return, 0 for disabled
    None            \* the missing value of an Option

ASSUME ArgsAssumption ==
    /\ ExpireArgs \subseteq Nat
    /\ RefreshArgs \subseteq Nat
    /\ DogIntervals \subseteq Nat
    /\ None \notin Nat

VARIABLES
    pc,
    argv,       \* the arguments as they were given
    args,       \* and as main has completed them
    level,      \* the log level of the application
    config,     \* the configuration, None before there is one
    status      \* the exit status, None before there is one

vars == <<pc, argv, args, level, config, status>>

Args(refreshes) ==
    [containers : BOOLEAN,      \* whether any are listed
     enumerate : BOOLEAN, quiet : BOOLEAN, verbose : BOOLEAN,
     dry_run : BOOLEAN, systemd : BOOLEAN,
     error_missing_envvar : BOOLEAN, ignore_missing_envvar : BOOLEAN,
     error_missing_container : BOOLEAN,
     expire : ExpireArgs, refresh : refreshes]

ParsedArgs == Args(RefreshArgs \cup {None})

(* Both usage patterns ask for something to look after. *)
UsageAccepts(a) == a.containers \/ a.enumerate

(* An amount in the configuration is missing rather than 0.               *)
Amount == (Nat \ {0}) \cup {None}

Config ==
    [enumerate : BOOLEAN, dry_run : BOOLEAN, systemd : BOOLEAN,
     missing_envvar : {"Automatic", "Report", "Ignore"},
     missing_container : {"Report", "Ignore"},
     expire_seconds : Amount, refresh_seconds : Amount,
     watchdog_microseconds : Amount]

Levels == {"none", "Warn", "Info", "Debug"}

Init ==
    /\ pc = "args_transform"
    /\ argv \in {a \in ParsedArgs : UsageAccepts(a)}
    /\ args = argv
    /\ level = "none"
    /\ config = None
    /\ status = None

-----------------------------------------------------------------------------

(* Mutant: half of the expiration. *)
DefaultRefresh_half(expire) == (expire * 50) \div 100

(* 45% of the expiration, without the fraction. *)
DefaultRefresh(expire) == (expire * 45) \div 100

(* Mutant: a dry run as quiet as any. *)
args_transform_quiet ==
    /\ pc = "args_transform"
    /\ args' = [args EXCEPT !.quiet = @ /\ ~args.verbose,
                            !.verbose = @ /\ ~args.quiet,
                            !.refresh = IF @ = None
                                        THEN DefaultRefresh(args.expire) ELSE @]
    /\ pc' = "init_log"
    /\ UNCHANGED <<argv, level, config, status>>

(* quiet and verbose cancel each other out, and a dry run is not quiet.    *)
args_transform ==
    /\ pc = "args_transform"
    /\ args' = [args EXCEPT !.quiet = @ /\ ~args.verbose /\ ~args.dry_run,
                            !.verbose = @ /\ ~args.quiet,
                            !.refresh = IF @ = None
                                        THEN DefaultRefresh(args.expire) ELSE @]
    /\ pc' = "init_log"
    /\ UNCHANGED <<argv, level, config, status>>

(* This is the only logger of the process: setting it cannot fail.         *)
init_log ==
    /\ pc = "init_log"
    /\ level' = IF args.verbose THEN "Debug"
                ELSE IF args.quiet THEN "Warn" ELSE "Info"
    /\ pc' = "deconstruct"
    /\ UNCHANGED <<argv, args, config, status>>

(* Mutant: 0 seconds kept as an amount. *)
ZeroIsNone_kept(n) == n

ZeroIsNone(n) == IF n = 0 THEN None ELSE n

MissingEnvVar(error, ignore) ==
    IF error = ignore THEN "Automatic" ELSE IF error THEN "Report" ELSE "Ignore"

deconstruct ==
    /\ pc = "deconstruct"
    /\ config' =
        [enumerate |-> args.enumerate, dry_run |-> args.dry_run,
         systemd |-> args.systemd,
         missing_envvar |-> MissingEnvVar(args.error_missing_envvar,
                                          args.ignore_missing_envvar),
         missing_container |-> IF args.error_missing_container
                               THEN "Report" ELSE "Ignore",
         expire_seconds |-> ZeroIsNone(args.expire),
         refresh_seconds |-> ZeroIsNone(args.refresh),
         watchdog_microseconds |-> None]
    /\ pc' = "read_systemd_config"
    /\ UNCHANGED <<argv, args, level, status>>

read_systemd_config ==
    /\ pc = "read_systemd_config"
    /\ IF config.systemd
       THEN \E dog_us \in DogIntervals :
                config' = [config EXCEPT
                              !.watchdog_microseconds = ZeroIsNone(dog_us)]
       ELSE UNCHANGED config
    /\ pc' = "run"
    /\ UNCHANGED <<argv, args, level, status>>

(* sd_watchdog_enabled fails. *)
NoWatchdogAnswer ==
    /\ pc = "read_systemd_config"
    /\ config.systemd
    /\ pc' = "exited"
    /\ status' = 2
    /\ UNCHANGED <<argv, args, level, config>>

(* run returns Ok after a signal or a pass without errors. *)
RunOk ==
    /\ pc = "run"
    /\ pc' = "exited"
    /\ status' = 0
    /\ UNCHANGED <<argv, args, level, config>>

(* It returns Err if it cannot tell systemd that it is ready, or for the   *)
(* errors of its only pass.                                                *)
RunErr ==
    /\ pc = "run"
    /\ config.systemd \/ config.refresh_seconds = None
    /\ pc' = "exited"
    /\ status' = 100
    /\ UNCHANGED <<argv, args, level, config>>

Exited == pc = "exited" /\ UNCHANGED vars

Next ==
    \/ args_transform \/ init_log \/ deconstruct
    \/ read_systemd_config \/ NoWatchdogAnswer
    \/ RunOk \/ RunErr \/ Exited

Spec == Init /\ [][Next]_vars

-----------------------------------------------------------------------------
(* Properties *)

Unconfigured == pc \in {"args_transform", "init_log", "deconstruct"}

(* deconstruct unwraps the refresh period: by then there is one.           *)
TypeOK ==
    /\ pc \in {"args_transform", "init_log", "deconstruct",
               "read_systemd_config", "run", "exited"}
    /\ argv \in ParsedArgs
    /\ args \in Args(Nat \cup {None})
    /\ pc \in {"init_log", "deconstruct"} => args.refresh \in Nat
    /\ level \in Levels
    /\ IF Unconfigured THEN config = None ELSE config \in Config
    /\ status \in {None, 0, 2, 100}

Running == pc = "run"

(***************************************************************************)
(* With the default refresh one pass may fail and the next is still in     *)
(* time: two refresh periods are shorter than the expiration.  The period  *)
(* is at least a third of it (main.rs:377-397 asks this of one value).     *)
(***************************************************************************)
DefaultRefreshLeavesRoom ==
    (Running /\ argv.refresh = None /\ config.refresh_seconds # None) =>
        /\ config.expire_seconds # None
        /\ 2 * config.refresh_seconds < config.expire_seconds
        /\ config.refresh_seconds >= config.expire_seconds \div 3

(***************************************************************************)
(* A dry run tells what it would publish at level Info; whatever the       *)
(* combination of flags, the log lets that pass (USAGE: "Ignores --quiet").*)
(***************************************************************************)
DryRunIsHeard == (Running /\ argv.dry_run) => level \in {"Info", "Debug"}

(***************************************************************************)
(* USAGE, main.rs:74 on --refresh: "Defaults to 45% of the expiration      *)
(* time. At least 10 seconds."  The code has no minimum: an expiration     *)
(* below 23 s is renewed more often, and one of 1 or 2 s never.            *)
(***************************************************************************)
AtLeastTenSeconds ==
    (Running /\ argv.refresh = None /\ config.expire_seconds # None) =>
        config.refresh_seconds # None /\ config.refresh_seconds >= 10
=============================================================================
