--------------------------- MODULE StartupProofs ---------------------------
(***************************************************************************)
(* Theorems about Startup, for every number of seconds that --expire and   *)
(* --refresh can be given.                                                 *)
(***************************************************************************)
EXTENDS Startup, TLAPS

(* 45% of an expiration lies between a third and less than a half of it.   *)
LEMMA DefaultRefreshBounds ==
    ASSUME NEW expire \in Nat
    PROVE  /\ DefaultRefresh(expire) \in Nat
           /\ 2 * DefaultRefresh(expire) <= expire
           /\ expire > 0 => 2 * DefaultRefresh(expire) < expire
           /\ DefaultRefresh(expire) >= expire \div 3
BY DEF DefaultRefresh

(* No amount made by deconstruct is 0. *)
LEMMA ZeroIsNoneType == ASSUME NEW n \in Nat PROVE ZeroIsNone(n) \in Amount
BY DEF ZeroIsNone, Amount

LEMMA TransformType == ASSUME TypeOK, args_transform PROVE TypeOK'
<1> DEFINE quiet == args.quiet /\ ~args.verbose /\ ~args.dry_run
           verbose == args.verbose /\ ~args.quiet
           refresh == IF args.refresh = None
                      THEN DefaultRefresh(args.expire) ELSE args.refresh
<1>1. args \in Args(Nat \cup {None}) /\ argv \in ParsedArgs
  BY DEF TypeOK
<1>2. args.expire \in Nat /\ args.refresh \in Nat \cup {None}
  BY <1>1, ArgsAssumption DEF Args
<1>3. refresh \in Nat
  BY <1>2, DefaultRefreshBounds
<1>4. quiet \in BOOLEAN /\ verbose \in BOOLEAN
  OBVIOUS
<1>5. args' = [args EXCEPT !.quiet = quiet, !.verbose = verbose,
                           !.refresh = refresh]
  BY DEF args_transform
<1> HIDE DEF quiet, verbose, refresh
<1>6. args' \in Args(Nat \cup {None}) /\ args'.refresh \in Nat
  BY <1>1, <1>3, <1>4, <1>5 DEF Args
<1>7. QED
  BY <1>1, <1>6 DEF args_transform, TypeOK, Unconfigured

LEMMA StepType == TypeOK /\ [Next]_vars => TypeOK'
<1> SUFFICES ASSUME TypeOK, [Next]_vars PROVE TypeOK'
  OBVIOUS
<1> USE DEF Unconfigured
<1>1. CASE args_transform
  BY <1>1, TransformType
<1>2. CASE init_log
  BY <1>2 DEF init_log, TypeOK, Levels
<1>3. CASE deconstruct
  <2>1. args.expire \in Nat /\ args.refresh \in Nat
    BY <1>3, ArgsAssumption DEF deconstruct, TypeOK, Args
  <2>2. /\ ZeroIsNone(args.expire) \in Amount
        /\ ZeroIsNone(args.refresh) \in Amount
        /\ None \in Amount
    BY <2>1, ZeroIsNoneType DEF Amount
  <2>3. MissingEnvVar(args.error_missing_envvar, args.ignore_missing_envvar)
            \in {"Automatic", "Report", "Ignore"}
    BY DEF MissingEnvVar
  <2>4. config' \in Config
    BY <1>3, <2>2, <2>3 DEF deconstruct, TypeOK, Config, Args
  <2>5. QED
    BY <1>3, <2>4 DEF deconstruct, TypeOK
<1>4. CASE read_systemd_config
  <2>1. \A n \in DogIntervals : ZeroIsNone(n) \in Amount
    BY ArgsAssumption, ZeroIsNoneType
  <2>2. config' \in Config
    BY <1>4, <2>1 DEF read_systemd_config, TypeOK, Config
  <2>3. QED
    BY <1>4, <2>2 DEF read_systemd_config, TypeOK
<1>5. CASE NoWatchdogAnswer \/ RunOk \/ RunErr
  BY <1>5 DEF NoWatchdogAnswer, RunOk, RunErr, TypeOK
<1>6. CASE Exited \/ UNCHANGED vars
  BY <1>6 DEF Exited, vars, TypeOK
<1>7. QED
  BY <1>1, <1>2, <1>3, <1>4, <1>5, <1>6 DEF Next

-----------------------------------------------------------------------------

(***************************************************************************)
(* Start-up is well typed; in particular no amount in the configuration is *)
(* ever 0, so that refresh_seconds, where it is there, is a time to wait.  *)
(***************************************************************************)
THEOREM TypeCorrect == Spec => []TypeOK
<1>1. Init => TypeOK
  BY ArgsAssumption DEF Init, TypeOK, ParsedArgs, Args, Levels, Unconfigured
<1>2. QED
  BY <1>1, StepType, PTL DEF Spec

(***************************************************************************)
(* Where the two amounts of the configuration come from when no refresh    *)
(* period was given.                                                       *)
(***************************************************************************)
DefaultInv ==
    argv.refresh = None =>
        /\ args.expire = argv.expire
        /\ pc = "args_transform" => args.refresh = None
        /\ pc \in {"init_log", "deconstruct"}
            => args.refresh = DefaultRefresh(argv.expire)
        /\ pc \in {"read_systemd_config", "run"}
            => /\ config.expire_seconds = ZeroIsNone(argv.expire)
               /\ config.refresh_seconds
                    = ZeroIsNone(DefaultRefresh(argv.expire))

LEMMA DefaultStep == TypeOK /\ DefaultInv /\ [Next]_vars => DefaultInv'
<1> SUFFICES ASSUME TypeOK, DefaultInv, [Next]_vars, argv'.refresh = None
             PROVE  DefaultInv'
  BY DEF DefaultInv
<1>1. CASE args_transform
  <2>1. args'.refresh = DefaultRefresh(args.expire)
        /\ args'.expire = args.expire
    BY <1>1 DEF args_transform, DefaultInv, TypeOK, Args
  <2>2. QED
    BY <1>1, <2>1 DEF args_transform, DefaultInv
<1>2. CASE init_log
  BY <1>2 DEF init_log, DefaultInv
<1>3. CASE deconstruct
  BY <1>3 DEF deconstruct, DefaultInv
<1>4. CASE read_systemd_config
  <2>1. config'.expire_seconds = config.expire_seconds
        /\ config'.refresh_seconds = config.refresh_seconds
    <3>1. CASE UNCHANGED config
      BY <3>1
    <3>2. ASSUME NEW dog_us \in DogIntervals, config.systemd,
                 config' = [config EXCEPT
                            !.watchdog_microseconds = ZeroIsNone(dog_us)]
          PROVE  /\ config'.expire_seconds = config.expire_seconds
                 /\ config'.refresh_seconds = config.refresh_seconds
      BY <3>2
    <3>3. QED
      BY <1>4, <3>1, <3>2 DEF read_systemd_config
  <2>2. QED
    BY <1>4, <2>1 DEF read_systemd_config, DefaultInv
<1>5. CASE NoWatchdogAnswer \/ RunOk \/ RunErr
  BY <1>5 DEF NoWatchdogAnswer, RunOk, RunErr, DefaultInv
<1>6. CASE Exited \/ UNCHANGED vars
  BY <1>6 DEF Exited, vars, DefaultInv
<1>7. QED
  BY <1>1, <1>2, <1>3, <1>4, <1>5, <1>6 DEF Next

(***************************************************************************)
(* For every expiration: a default refresh period fits twice into it and   *)
(* is no less than a third of it.                                          *)
(***************************************************************************)
THEOREM DefaultsLeaveRoom == Spec => []DefaultRefreshLeavesRoom
<1>1. Init => DefaultInv
  BY DEF Init, DefaultInv
<1>2. TypeOK /\ DefaultInv => DefaultRefreshLeavesRoom
  <2> SUFFICES ASSUME TypeOK, DefaultInv, Running, argv.refresh = None,
                      config.refresh_seconds # None
               PROVE  /\ config.expire_seconds # None
                      /\ 2 * config.refresh_seconds < config.expire_seconds
                      /\ config.refresh_seconds >= config.expire_seconds \div 3
    BY DEF DefaultRefreshLeavesRoom
  <2>1. argv.expire \in Nat
    BY ArgsAssumption DEF TypeOK, ParsedArgs, Args
  <2> DEFINE r == DefaultRefresh(argv.expire)
  <2>2. config.expire_seconds = ZeroIsNone(argv.expire)
        /\ config.refresh_seconds = ZeroIsNone(r)
    BY DEF DefaultInv, Running
  <2>3. r \in Nat /\ 2 * r <= argv.expire /\ r >= argv.expire \div 3
        /\ (argv.expire > 0 => 2 * r < argv.expire)
    BY <2>1, DefaultRefreshBounds
  <2>4. r # 0 /\ config.refresh_seconds = r
    BY <2>2 DEF ZeroIsNone
  <2> HIDE DEF r
  <2>5. argv.expire > 0
    BY <2>1, <2>3, <2>4
  <2>6. config.expire_seconds = argv.expire /\ argv.expire # None
    BY <2>1, <2>2, <2>5, ArgsAssumption DEF ZeroIsNone
  <2>7. QED
    BY <2>1, <2>3, <2>4, <2>5, <2>6
<1>3. QED
  BY <1>1, <1>2, TypeCorrect, DefaultStep, PTL DEF Spec
-----------------------------------------------------------------------------
(***************************************************************************)
(* What the flags of a dry run become: quiet is gone before the log level  *)
(* is taken from it.                                                       *)
(***************************************************************************)
HeardInv ==
    argv.dry_run =>
        /\ args.dry_run
        /\ pc = "init_log" => ~args.quiet
        /\ pc \in {"deconstruct", "read_systemd_config", "run"}
            => level \in {"Info", "Debug"}

LEMMA HeardStep == TypeOK /\ HeardInv /\ [Next]_vars => HeardInv'
<1> SUFFICES ASSUME TypeOK, HeardInv, [Next]_vars, argv'.dry_run
             PROVE  HeardInv'
  BY DEF HeardInv
<1>1. CASE args_transform
  <2>1. args'.dry_run = args.dry_run
        /\ args'.quiet = (args.quiet /\ ~args.verbose /\ ~args.dry_run)
    BY <1>1 DEF args_transform, TypeOK, Args
  <2>2. QED
    BY <1>1, <2>1 DEF args_transform, HeardInv
<1>2. CASE init_log
  BY <1>2 DEF init_log, HeardInv
<1>3. CASE \/ deconstruct \/ read_systemd_config \/ NoWatchdogAnswer
           \/ RunOk \/ RunErr
  BY <1>3
  DEF deconstruct, read_systemd_config, NoWatchdogAnswer, RunOk, RunErr, HeardInv
<1>4. CASE Exited \/ UNCHANGED vars
  BY <1>4 DEF Exited, vars, HeardInv
<1>5. QED
  BY <1>1, <1>2, <1>3, <1>4 DEF Next

(***************************************************************************)
(* Whatever else is on the command line, what a dry run would publish is   *)
(* not filtered from its log.                                              *)
(***************************************************************************)
THEOREM DryRunsAreHeard == Spec => []DryRunIsHeard
<1>1. Init => HeardInv
  BY DEF Init, HeardInv
<1>2. HeardInv => DryRunIsHeard
  BY DEF HeardInv, DryRunIsHeard, Running
<1>3. QED
  BY <1>1, <1>2, TypeCorrect, HeardStep, PTL DEF Spec
=============================================================================
