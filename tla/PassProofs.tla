----------------------------- MODULE PassProofs -----------------------------
(***************************************************************************)
(* What a pass leaves behind, for all constants: every name dealt with, as *)
(* many problems kept as logged, and an exit status that can be trusted.   *)
(***************************************************************************)
EXTENDS CompanionProofs, FiniteSetTheorems

(* The record that refresh_container leaves of a name, and the verdict     *)
(* that a name got: an error, or one of the ways to go without one.        *)
Recorded(n) == \E r \in log : r.name = n
Judged(n) ==
    \/ \E e \in errors : e.name = n
    \/ Logged(n, "updating")
    \/ config.dry_run /\ Logged(n, "dry run")
    \/ config.missing_envvar = "Ignore" /\ Logged(n, "envvar missing")

(* A failed publication is among the errors. *)
FailuresKept ==
    \A n \in Names : Logged(n, "publish failed") => \E e \in errors : e.name = n

(* The common part of the three invariants below: how one name is done.    *)
LEMMA RefreshDoes ==
    ASSUME TypeOK, pc = "refresh", NEW n \in todo,
           InspectFails(n) \/ EnvVarMissing(n) \/ DryRun(n) \/ Inspected(n)
    PROVE  /\ pc' \in {"refresh", "publish"}
           /\ UNCHANGED <<config, names, exit>>
           /\ todo' = todo \ {n}
           /\ Recorded(n)'
           /\ names[n] => Judged(n)'
           /\ \E event \in {"inspect failed", "envvar missing", "dry run", "updating"} :
                \/ /\ log' = log \cup {Log("Info", event, n)}
                   /\ errors' = errors
                \/ \E level \in {"Error", "Warn"}, kind \in {"Inspection", "EnvVarMissing"} :
                     /\ log' = log \cup {Log(level, event, n)}
                     /\ errors' = errors \cup {Err(kind, n)}
<1> USE DEF dockerVars, redisVars, historyVars
<1>1. names[n] \in BOOLEAN /\ config \in Config
  BY DataAssumption DEF TypeOK
<1>2. \A level, event : Log(level, event, n).name = n /\ Log(level, event, n).event = event
  BY DEF Log
<1>3. \A kind : Err(kind, n).name = n
  BY DEF Err
<1>4. ASSUME NEW level, NEW event, log' = log \cup {Log(level, event, n)}
      PROVE  Logged(n, event)' /\ Recorded(n)'
  <2>1. Log(level, event, n) \in log'
    BY <1>4
  <2>2. QED
    BY <1>2, <2>1 DEF Logged, Recorded
<1>5. CASE InspectFails(n)
  <2>1. /\ todo' = todo \ {n} /\ pc' = pc /\ UNCHANGED <<config, names, exit>>
        /\ log' = log \cup {Log(InspectFailureLevel(config, names[n]), "inspect failed", n)}
        /\ errors' = errors \cup IF ConsiderError(config, names[n])
                                 THEN {Err("Inspection", n)} ELSE {}
    BY <1>5 DEF InspectFails, Skip
  <2>2. IF ConsiderError(config, names[n])
        THEN InspectFailureLevel(config, names[n]) \in {"Error", "Warn"}
        ELSE InspectFailureLevel(config, names[n]) = "Info"
    BY <1>1 DEF ConsiderError, InspectFailureLevel
  <2>3. names[n] => ConsiderError(config, names[n])
    BY DEF ConsiderError
  <2>4. CASE ConsiderError(config, names[n])
    <3>1. Judged(n)' /\ Recorded(n)'
      BY <1>3, <1>4, <2>1, <2>4 DEF Judged
    <3>2. QED
      BY <2>1, <2>2, <2>4, <3>1
  <2>5. CASE ~ConsiderError(config, names[n])
    <3>1. Recorded(n)'
      BY <1>4, <2>1
    <3>2. QED
      BY <2>1, <2>2, <2>3, <2>5, <3>1
  <2>6. QED
    BY <2>4, <2>5
<1>6. CASE EnvVarMissing(n)
  <2>1. CASE EnvVarExpected(config, names[n])
    <3>1. /\ todo' = todo \ {n} /\ pc' = pc /\ UNCHANGED <<config, names, exit>>
          /\ log' = log \cup {Log("Error", "envvar missing", n)}
          /\ errors' = errors \cup {Err("EnvVarMissing", n)}
      BY <1>6, <2>1 DEF EnvVarMissing, Skip
    <3>2. Judged(n)' /\ Recorded(n)'
      BY <1>3, <1>4, <3>1 DEF Judged
    <3>3. QED
      BY <3>1, <3>2
  <2>2. CASE ~EnvVarExpected(config, names[n])
    <3>1. /\ todo' = todo \ {n} /\ pc' = pc /\ UNCHANGED <<config, names, exit>>
          /\ log' = log \cup {Log("Info", "envvar missing", n)}
          /\ errors' = errors
      BY <1>6, <2>2 DEF EnvVarMissing, Skip
    <3>2. names[n] => config.missing_envvar = "Ignore"
      BY <1>1, <2>2 DEF EnvVarExpected, Config, MissingEnvVarHandling
    <3>3. Logged(n, "envvar missing")' /\ Recorded(n)'
      BY <1>4, <3>1
    <3>4. QED
      BY <3>1, <3>2, <3>3 DEF Judged
  <2>3. QED
    BY <2>1, <2>2
<1>7. CASE DryRun(n)
  <2>1. /\ todo' = todo \ {n} /\ pc' = pc /\ UNCHANGED <<config, names, exit>>
        /\ log' = log \cup {Log("Info", "dry run", n)}
        /\ errors' = errors /\ config.dry_run
    BY <1>7 DEF DryRun, Skip
  <2>2. Logged(n, "dry run")' /\ Recorded(n)'
    BY <1>4, <2>1
  <2>3. QED
    BY <2>1, <2>2 DEF Judged
<1>8. CASE Inspected(n)
  <2>1. /\ todo' = todo \ {n} /\ pc' = "publish" /\ UNCHANGED <<config, names, exit>>
        /\ log' = log \cup {Log("Info", "updating", n)}
        /\ errors' = errors
    BY <1>8 DEF Inspected
  <2>2. Logged(n, "updating")' /\ Recorded(n)'
    BY <1>4, <2>1
  <2>3. QED
    BY <2>1, <2>2 DEF Judged
<1>9. QED
  BY <1>5, <1>6, <1>7, <1>8

LEMMA PublishDoes ==
    ASSUME TypeOK, Published \/ PublishFails
    PROVE  /\ pc = "publish" /\ pc' = "refresh" /\ current.name \in Names
           /\ UNCHANGED <<config, names, todo, exit>>
           /\ \/ UNCHANGED <<log, errors>>
              \/ /\ log' = log \cup {Log("Error", "publish failed", current.name)}
                 /\ errors' = errors \cup {Err("Publishing", current.name)}
BY DEF Published, PublishFails, TypeOK, Publication, NoPublication

(* All other steps that stay within the pass or begin one. *)
LEMMA OtherDoes ==
    ASSUME TypeOK, [Next]_vars,
           ~RefreshContainer, ~Published, ~PublishFails, ~Enumerate
    PROVE  /\ InPass' => InPass /\ UNCHANGED <<names, todo, log, errors>>
           /\ PassDone' => PassDone \/ (pc = "refresh" /\ todo = {})
           /\ config' = config
<1> USE DEF dockerVars, redisVars, passVars, historyVars
<1>1. CASE UNCHANGED vars \/ Terminated
  BY <1>1 DEF vars, processVars, Terminated, InPass, PassDone
<1>2. CASE \/ NotifyReady \/ NotifyReadyFails \/ SelectRefresh \/ Shutdown
           \/ Crash \/ Restart
  BY <1>2
  DEF NotifyReady, NotifyReadyFails, SelectRefresh, Shutdown, Crash, Restart,
      InPass, PassDone
<1>3. CASE EndPass \/ CheckSignal \/ SelectSignal \/ SelectWatchdog
  BY <1>3
  DEF EndPass, CheckSignal, SelectSignal, SelectWatchdog, Goto, InPass, PassDone
<1>4. CASE \/ DockerMoves \/ RedisMoves \/ SystemdOutage
           \/ DockerBack \/ RedisBack \/ SystemdBack
           \/ (\E k \in Keys : Expire(k)) \/ DeliverSignal
  BY <1>4
  DEF DockerMoves, RedisMoves, SystemdOutage, DockerBack, RedisBack, SystemdBack,
      Expire, DeliverSignal, Outside, InPass, PassDone
<1>5. QED
  BY <1>1, <1>2, <1>3, <1>4 DEF Next, Process, Environment
-----------------------------------------------------------------------------
(***************************************************************************)
(* A name of the pass is still to do or has left a record; an explicit one *)
(* that is done has its verdict.                                           *)
(***************************************************************************)
TurnInv ==
    InPass =>
        /\ ExplicitNames \subseteq DOMAIN names
        /\ \A n \in DOMAIN names \ todo : Recorded(n)
        /\ \A n \in ExplicitNames : names[n]
        /\ \A n \in ExplicitNames \ todo : Judged(n)
        /\ FailuresKept
        /\ PassDone => todo = {}

LEMMA TurnStep == TypeOK /\ TurnInv /\ [Next]_vars => TurnInv'
<1> SUFFICES ASSUME TypeOK, TurnInv, [Next]_vars, InPass' PROVE TurnInv'
  BY DEF TurnInv
<1>1. CASE RefreshContainer
  <2>1. PICK n \in todo :
          InspectFails(n) \/ EnvVarMissing(n) \/ DryRun(n) \/ Inspected(n)
    BY <1>1 DEF RefreshContainer
  <2>2. pc = "refresh" /\ InPass /\ ~PassDone'
    BY <1>1, <2>1, RefreshDoes DEF RefreshContainer, InPass, PassDone
  <2>3. /\ UNCHANGED <<config, names>> /\ todo' = todo \ {n}
        /\ log \subseteq log' /\ errors \subseteq errors'
        /\ Recorded(n)' /\ (names[n] => Judged(n)')
    BY <2>1, <2>2, RefreshDoes
  <2>4. \A m : (Recorded(m) => Recorded(m)') /\ (Judged(m) => Judged(m)')
    BY <2>3 DEF Recorded, Judged, Logged
  <2>5. \A m : Logged(m, "publish failed")' => Logged(m, "publish failed")
    <3>1. PICK level \in {"Error", "Warn", "Info"},
               event \in {"inspect failed", "envvar missing", "dry run", "updating"} :
            log' = log \cup {Log(level, event, n)}
      BY <2>1, <2>2, RefreshDoes
    <3>2. Log(level, event, n).event # "publish failed"
      BY DEF Log
    <3>3. QED
      BY <3>1, <3>2 DEF Logged
  <2>6. FailuresKept'
    BY <2>2, <2>3, <2>5 DEF TurnInv, FailuresKept
  <2>7. QED
    BY <2>2, <2>3, <2>4, <2>6 DEF TurnInv
<1>2. CASE Published \/ PublishFails
  <2>1. /\ UNCHANGED <<config, names, todo>>
        /\ log \subseteq log' /\ errors \subseteq errors'
        /\ InPass /\ ~PassDone'
    BY <1>2, PublishDoes DEF InPass, PassDone
  <2>2. \A m : (Recorded(m) => Recorded(m)') /\ (Judged(m) => Judged(m)')
    BY <2>1 DEF Recorded, Judged, Logged
  <2>3. FailuresKept'
    <3>1. CASE UNCHANGED <<log, errors>>
      BY <2>1, <3>1 DEF TurnInv, FailuresKept, Logged
    <3>2. CASE /\ log' = log \cup {Log("Error", "publish failed", current.name)}
               /\ errors' = errors \cup {Err("Publishing", current.name)}
      <4>1. /\ Log("Error", "publish failed", current.name).name = current.name
            /\ Err("Publishing", current.name).name = current.name
        BY DEF Log, Err
      <4>2. \A m : Logged(m, "publish failed")' =>
                      Logged(m, "publish failed") \/ m = current.name
        BY <3>2, <4>1 DEF Logged
      <4>3. Err("Publishing", current.name) \in errors' /\ errors \subseteq errors'
        BY <3>2
      <4>4. QED
        BY <2>1, <4>1, <4>2, <4>3 DEF TurnInv, FailuresKept
    <3>3. QED
      BY <1>2, <3>1, <3>2, PublishDoes
  <2>4. QED
    BY <2>1, <2>2, <2>3 DEF TurnInv
<1>3. CASE Enumerate
  <2>1. PICK enumerated : names' = container_index(ExplicitNames, enumerated)
    BY <1>3 DEF Enumerate
  <2>2. todo' = DOMAIN names' /\ log' = {} /\ ~PassDone'
    BY <1>3 DEF Enumerate, PassDone
  <2>3. /\ ExplicitNames \subseteq DOMAIN names'
        /\ \A n \in ExplicitNames : names'[n]
    BY <2>1 DEF container_index
  <2>4. QED
    BY <2>2, <2>3 DEF TurnInv, FailuresKept, Logged
<1>4. CASE ~RefreshContainer /\ ~Published /\ ~PublishFails /\ ~Enumerate
  <2>1. InPass /\ UNCHANGED <<config, names, todo, log, errors>>
    BY <1>4, OtherDoes
  <2>2. PassDone' => todo' = {}
    BY <1>4, <2>1, OtherDoes DEF TurnInv
  <2>3. \A m : (Recorded(m)' <=> Recorded(m)) /\ (Judged(m)' <=> Judged(m))
    BY <2>1 DEF Recorded, Judged, Logged
  <2>4. FailuresKept' <=> FailuresKept
    BY <2>1 DEF FailuresKept, Logged
  <2>5. QED
    BY <2>1, <2>2, <2>3, <2>4 DEF TurnInv
<1>5. QED
  BY <1>1, <1>2, <1>3, <1>4

(***************************************************************************)
(* No failure costs another name its turn: when a pass is over, every      *)
(* explicit and every enumerated name has left a record.                   *)
(***************************************************************************)
THEOREM NobodyIsPassedOver == Spec => []EveryNameGetsItsTurn
<1>1. Init => TurnInv
  BY DEF Init, TurnInv, InPass
<1>2. TurnInv => EveryNameGetsItsTurn
  BY DEF TurnInv, EveryNameGetsItsTurn, InPass, PassDone, Recorded
<1>3. QED
  BY <1>1, <1>2, TurnStep, TypeCorrect, PTL DEF Spec
-----------------------------------------------------------------------------
(* Errors and log *)

LEMMA LoudStep ==
    TypeOK /\ ErrorsAreTheLoudRecords /\ [Next]_vars => ErrorsAreTheLoudRecords'
<1> SUFFICES ASSUME TypeOK, ErrorsAreTheLoudRecords, [Next]_vars, InPass'
             PROVE  ErrorsAreTheLoudRecords'
  BY DEF ErrorsAreTheLoudRecords
<1>1. ASSUME NEW n \in Names, NEW level \in {"Error", "Warn"}, NEW event, NEW kind,
             InPass,
             log' = log \cup {Log(level, event, n)},
             errors' = errors \cup {Err(kind, n)}
      PROVE  ErrorsAreTheLoudRecords'
  <2>1. n # NoName
    BY NamesAssumption
  <2>2. {e.name : e \in errors'} \ {NoName}
          = ({e.name : e \in errors} \ {NoName}) \cup {n}
    <3>1. Err(kind, n).name = n
      BY DEF Err
    <3>2. QED
      BY <1>1, <2>1, <3>1
  <2>3. {r.name : r \in {r \in log' : r.level # "Info"}}
          = {r.name : r \in {r \in log : r.level # "Info"}} \cup {n}
    <3>1. Log(level, event, n).name = n /\ Log(level, event, n).level # "Info"
      BY DEF Log
    <3>2. QED
      BY <1>1, <3>1
  <2>4. QED
    BY <1>1, <2>2, <2>3 DEF ErrorsAreTheLoudRecords
<1>2. ASSUME InPass, errors' = errors, NEW event, NEW n,
             log' = log \/ log' = log \cup {Log("Info", event, n)}
      PROVE  ErrorsAreTheLoudRecords'
  <2>1. {r \in log' : r.level # "Info"} = {r \in log : r.level # "Info"}
    BY <1>2 DEF Log
  <2>2. QED
    BY <1>2, <2>1 DEF ErrorsAreTheLoudRecords
<1>3. CASE RefreshContainer
  <2>1. PICK n \in todo :
          InspectFails(n) \/ EnvVarMissing(n) \/ DryRun(n) \/ Inspected(n)
    BY <1>3 DEF RefreshContainer
  <2>2. pc = "refresh" /\ InPass /\ n \in Names
    BY <1>3 DEF RefreshContainer, InPass, TypeOK
  <2>3. QED
    BY <1>1, <1>2, <2>1, <2>2, RefreshDoes
<1>4. CASE Published \/ PublishFails
  <2>1. InPass /\ current.name \in Names
    BY <1>4, PublishDoes DEF InPass
  <2>2. CASE UNCHANGED <<log, errors>>
    BY <1>2, <2>1, <2>2
  <2>3. CASE /\ log' = log \cup {Log("Error", "publish failed", current.name)}
             /\ errors' = errors \cup {Err("Publishing", current.name)}
    BY <1>1, <2>1, <2>3
  <2>4. QED
    BY <1>4, <2>2, <2>3, PublishDoes
<1>5. CASE Enumerate
  <2>1. log' = {} /\ \A e \in errors' : e.name = NoName
    BY <1>5 DEF Enumerate, Err
  <2>2. QED
    BY <2>1 DEF ErrorsAreTheLoudRecords
<1>6. CASE ~RefreshContainer /\ ~Published /\ ~PublishFails /\ ~Enumerate
  BY <1>2, <1>6, OtherDoes
<1>7. QED
  BY <1>3, <1>4, <1>5, <1>6

(***************************************************************************)
(* What is kept as an error of a container is exactly what was logged as a *)
(* problem.                                                                *)
(***************************************************************************)
THEOREM ProblemsAreKept == Spec => []ErrorsAreTheLoudRecords
<1>1. Init => ErrorsAreTheLoudRecords
  BY DEF Init, ErrorsAreTheLoudRecords, InPass
<1>2. QED
  BY <1>1, LoudStep, TypeCorrect, PTL DEF Spec
-----------------------------------------------------------------------------
(* The exit status *)

(* While run has not returned there is nothing to say of its result, and   *)
(* once it has, nothing changes but by a restart.                          *)
ExitInv == (exit # "none" => pc = "exited") /\ CleanExitMeansRegistered

LEMMA ExitStep == TypeOK /\ TurnInv /\ ExitInv /\ [Next]_vars => ExitInv'
<1> SUFFICES ASSUME TypeOK, TurnInv, ExitInv, [Next]_vars PROVE ExitInv'
  OBVIOUS
<1> USE DEF dockerVars, redisVars, passVars, historyVars
<1>1. ASSUME exit' = "none" PROVE ExitInv'
  BY <1>1 DEF ExitInv, CleanExitMeansRegistered
<1>2. ASSUME UNCHANGED <<config, pc, log, exit>> PROVE ExitInv'
  BY <1>2 DEF ExitInv, CleanExitMeansRegistered, Updated, Logged
<1>3. ASSUME pc \notin {"exited", "crashed"}, exit' = exit PROVE ExitInv'
  BY <1>1, <1>3 DEF ExitInv
<1>4. CASE UNCHANGED vars \/ Terminated
  BY <1>2, <1>4 DEF vars, processVars, Terminated
<1>5. CASE NotifyReadyFails
  BY <1>5 DEF NotifyReadyFails, ExitInv, CleanExitMeansRegistered
<1>6. CASE RefreshContainer
  BY <1>3, <1>6, RefreshDoes DEF RefreshContainer
<1>7. CASE Published \/ PublishFails
  BY <1>3, <1>7, PublishDoes
<1>8. CASE \/ NotifyReady \/ Enumerate \/ EndPass \/ CheckSignal \/ SelectSignal
           \/ SelectRefresh \/ SelectWatchdog
  BY <1>3, <1>8
  DEF NotifyReady, Enumerate, EndPass, CheckSignal, SelectSignal, SelectRefresh,
      SelectWatchdog, Goto
<1>9. CASE Shutdown
  <2>1. SUFFICES ASSUME exit' = "ok", ~config.refresh
                 PROVE  CleanExitMeansRegistered'
    BY <1>9 DEF Shutdown, ExitInv, CleanExitMeansRegistered
  <2>2. errors = {} /\ UNCHANGED <<config, log>>
    BY <1>9, <2>1 DEF Shutdown
  <2>3. /\ \A n \in ExplicitNames : Judged(n)
        /\ FailuresKept
    BY <1>9 DEF Shutdown, TurnInv, InPass, PassDone
  <2>4. ASSUME NEW n \in ExplicitNames
        PROVE  \/ Updated(n)
               \/ config.dry_run /\ Logged(n, "dry run")
               \/ config.missing_envvar = "Ignore" /\ Logged(n, "envvar missing")
    BY <2>2, <2>3, NamesAssumption DEF Judged, FailuresKept, Updated
  <2>5. QED
    BY <2>2, <2>4 DEF CleanExitMeansRegistered, Updated, Logged
<1>10. CASE \/ DockerMoves \/ RedisMoves \/ SystemdOutage
            \/ DockerBack \/ RedisBack \/ SystemdBack
            \/ \E k \in Keys : Expire(k)
  BY <1>2, <1>10
  DEF DockerMoves, RedisMoves, SystemdOutage, DockerBack, RedisBack, SystemdBack,
      Expire, Outside
<1>11. CASE DeliverSignal \/ Crash
  BY <1>3, <1>11 DEF DeliverSignal, Crash, alive
<1>12. CASE Restart
  BY <1>1, <1>12 DEF Restart
<1>13. QED
  BY <1>4, <1>5, <1>6, <1>7, <1>8, <1>9, <1>10, <1>11, <1>12
  DEF Next, Process, Environment

(***************************************************************************)
(* When run returns Ok in run-once mode, every explicit container is       *)
(* registered, but for a dry run and for missing variables to be ignored.  *)
(***************************************************************************)
THEOREM ExitStatusIsHonest == Spec => []CleanExitMeansRegistered
<1>1. Init => TurnInv /\ ExitInv
  BY DEF Init, TurnInv, InPass, ExitInv, CleanExitMeansRegistered
<1>2. ExitInv => CleanExitMeansRegistered
  BY DEF ExitInv
<1>3. QED
  BY <1>1, <1>2, TurnStep, ExitStep, TypeCorrect, PTL DEF Spec
-----------------------------------------------------------------------------
(***************************************************************************)
(* While nothing outside moves, the errors are that of the enumeration, if *)
(* it failed, and those that the names dealt with deserve, and a name of   *)
(* the pass is explicit if the user listed it.                             *)
(***************************************************************************)
DeservedOf(N) == {e \in CompanionError : e.name \in N /\ Deserved(e)}

BlameInv ==
    (quiet /\ InPass) =>
        /\ \A n \in DOMAIN names : names[n] <=> n \in ExplicitNames
        /\ errors = DeservedOf(DealtWith) \cup ListingErrors

(* What is deserved changes only with docker and redis. *)
LEMMA SameDeserts ==
    ASSUME UNCHANGED <<docker, dockerUp, redisUp, config>>
    PROVE  /\ \A N : DeservedOf(N)' = DeservedOf(N)
           /\ ListingErrors' = ListingErrors
<1>1. \A e : Deserved(e)' <=> Deserved(e)
  BY SameLook DEF Deserved
<1>2. QED
  BY <1>1 DEF DeservedOf, ListingErrors, Unlisted

(* A name that gets no publication gets what it deserves.                  *)
LEMMA SkipDeserves ==
    ASSUME TypeOK, BlameInv, quiet, pc = "refresh", NEW n \in todo,
           InspectFails(n) \/ EnvVarMissing(n) \/ DryRun(n)
    PROVE  errors' = errors \cup DeservedOf({n})
<1>1. n \in Names /\ n \in DOMAIN names /\ config \in Config
  BY DataAssumption DEF TypeOK
<1>2. names[n] <=> n \in ExplicitNames
  BY <1>1 DEF BlameInv, InPass
<1>3. \A kind \in {"Inspection", "EnvVarMissing", "Publishing"} :
        /\ Err(kind, n) \in CompanionError
        /\ Err(kind, n).kind = kind /\ Err(kind, n).name = n
  BY <1>1 DEF Err, CompanionError
<1>4. \A e \in CompanionError : e.name = n => e = Err(e.kind, n)
  BY DEF Err, CompanionError
<1>5. CASE InspectFails(n)
  <2>1. /\ ~Look(n).ok
        /\ errors' = errors \cup IF ConsiderError(config, names[n])
                                 THEN {Err("Inspection", n)} ELSE {}
    BY <1>5 DEF InspectFails, Skip, Look
  <2>2. \A e : e.name = n =>
          (Deserved(e) <=> e.kind = "Inspection" /\ ConsiderError(config, names[n]))
    BY <1>2, <2>1 DEF Deserved, ConsiderError
  <2>3. QED
    BY <1>3, <1>4, <2>1, <2>2 DEF DeservedOf
<1>6. CASE EnvVarMissing(n)
  <2>1. /\ Look(n).ok /\ ~Look(n).envvar_present
        /\ errors' = errors \cup IF EnvVarExpected(config, names[n])
                                 THEN {Err("EnvVarMissing", n)} ELSE {}
    BY <1>6 DEF EnvVarMissing, Skip, Look
  <2>2. \A e : e.name = n =>
          (Deserved(e) <=> e.kind = "EnvVarMissing" /\ EnvVarExpected(config, names[n]))
    BY <1>2, <2>1 DEF Deserved, EnvVarExpected
  <2>3. QED
    BY <1>3, <1>4, <2>1, <2>2 DEF DeservedOf
<1>7. CASE DryRun(n)
  <2>1. Look(n).ok /\ Look(n).envvar_present /\ config.dry_run /\ errors' = errors
    BY <1>7 DEF DryRun, Skip, Look
  <2>2. \A e : e.name = n => ~Deserved(e)
    BY <2>1 DEF Deserved
  <2>3. QED
    BY <2>1, <2>2 DEF DeservedOf
<1>8. QED
  BY <1>5, <1>6, <1>7

LEMMA BlameRefresh ==
    ASSUME TypeOK, BlameInv, pc = "refresh", NEW n \in todo,
           InspectFails(n) \/ EnvVarMissing(n) \/ DryRun(n) \/ Inspected(n)
    PROVE  BlameInv'
<1> USE DEF dockerVars, redisVars, historyVars
<1> SUFFICES ASSUME quiet' PROVE BlameInv'
  BY DEF BlameInv
<1>1. /\ UNCHANGED <<docker, dockerUp, redisUp, config, names, quiet>>
      /\ todo' = todo \ {n}
  <2>1. CASE InspectFails(n) \/ EnvVarMissing(n) \/ DryRun(n)
    BY <2>1 DEF InspectFails, EnvVarMissing, DryRun, Skip
  <2>2. CASE Inspected(n)
    BY <2>2 DEF Inspected
  <2>3. QED
    BY <2>1, <2>2
<1>2. n \in Names /\ n \in DOMAIN names
  BY DEF TypeOK
<1>3. current.name = NoName /\ n # NoName
  BY <1>2, NamesAssumption DEF TypeOK, NoPublication
<1>4. quiet /\ InPass
  BY <1>1 DEF InPass
<1>5. \A m \in DOMAIN names' : names'[m] <=> m \in ExplicitNames
  BY <1>1, <1>4 DEF BlameInv
<1>6. errors = DeservedOf(DealtWith) \cup ListingErrors
  BY <1>4 DEF BlameInv
<1>7. CASE Inspected(n)
  <2>1. current'.name = n /\ errors' = errors
    BY <1>7 DEF Inspected
  <2>2. DealtWith' = DealtWith
    BY <1>1, <1>2, <1>3, <2>1, NamesAssumption DEF DealtWith, TypeOK
  <2>3. QED
    BY <1>1, <1>5, <1>6, <2>1, <2>2, SameDeserts DEF BlameInv
<1>8. CASE InspectFails(n) \/ EnvVarMissing(n) \/ DryRun(n)
  <2>1. current' = current
    BY <1>8 DEF InspectFails, EnvVarMissing, DryRun, Skip
  <2>2. DealtWith' = DealtWith \cup {n}
    BY <1>1, <1>2, <1>3, <2>1 DEF DealtWith
  <2>3. errors' = errors \cup DeservedOf({n})
    BY <1>4, <1>8, SkipDeserves
  <2>4. errors' = DeservedOf(DealtWith') \cup ListingErrors
    BY <1>6, <2>2, <2>3 DEF DeservedOf
  <2>5. QED
    BY <1>1, <1>5, <2>4, SameDeserts DEF BlameInv
<1>9. QED
  BY <1>7, <1>8

(* What fails to be published is what redis refuses, or everything with    *)
(* the server down.                                                        *)
LEMMA BlamePublish ==
    ASSUME TypeOK, QuietInv, BlameInv, Published \/ PublishFails
    PROVE  BlameInv'
<1> USE DEF dockerVars, historyVars
<1> SUFFICES ASSUME quiet' PROVE BlameInv'
  BY DEF BlameInv
<1>1. /\ UNCHANGED <<docker, dockerUp, redisUp, config, names, todo, quiet>>
      /\ pc = "publish" /\ current' = NoPublication
  BY DEF Published, PublishFails, PublishOk, PublishErr
<1>2. InPass
  BY <1>1 DEF InPass
<1>3. PICK p \in DOMAIN names \ todo : InHand(p)
  BY <1>1, <1>2 DEF QuietInv
<1>4. /\ current.name = p /\ p \in Names
      /\ current.specs = Look(p).specs
      /\ Look(p).ok /\ Look(p).envvar_present /\ ~config.dry_run
  BY <1>3 DEF InHand, TypeOK
<1>5. DealtWith' = DealtWith \cup {p}
  BY <1>1, <1>3, <1>4, NamesAssumption DEF DealtWith, TypeOK, NoPublication
<1>6. \A e : e.name = p =>
        (Deserved(e) <=> /\ e.kind = "Publishing"
                         /\ ~redisUp \/ ~accepts(Look(p).specs, config.expire))
  BY <1>4 DEF Deserved
<1>7. errors' = errors \cup DeservedOf({p})
  <2>1. CASE Published
    BY <1>4, <1>6, <2>1 DEF Published, PublishOk, DeservedOf
  <2>2. CASE PublishFails
    <3>1. /\ ~redisUp \/ ~accepts(Look(p).specs, config.expire)
          /\ errors' = errors \cup {Err("Publishing", p)}
      BY <1>2, <1>4, <2>2 DEF PublishFails, PublishErr
    <3>2. DeservedOf({p}) = {Err("Publishing", p)}
      BY <1>4, <1>6, <3>1 DEF DeservedOf, Err, CompanionError
    <3>3. QED
      BY <3>1, <3>2
  <2>3. QED
    BY <2>1, <2>2
<1>8. errors' = DeservedOf(DealtWith') \cup ListingErrors
  BY <1>1, <1>2, <1>5, <1>7 DEF BlameInv, DeservedOf
<1>9. QED
  BY <1>1, <1>2, <1>8, SameDeserts DEF BlameInv

LEMMA BlameStep == TypeOK /\ QuietInv /\ BlameInv /\ [Next]_vars => BlameInv'
<1> SUFFICES ASSUME TypeOK, QuietInv, BlameInv, [Next]_vars, quiet', InPass'
             PROVE  BlameInv'
  BY DEF BlameInv
<1> USE DEF dockerVars, redisVars, passVars, historyVars
<1>1. CASE Enumerate
  <2>1. UNCHANGED <<docker, dockerUp, redisUp, config>> /\ errors' = ListingErrors
    BY <1>1 DEF Enumerate, ListingErrors, Unlisted
  <2>2. names' = container_index(ExplicitNames,
                     IF config.enumerate /\ dockerUp THEN Listing ELSE {})
    BY <1>1 DEF Enumerate
  <2>3. DealtWith' = {}
    BY <1>1 DEF Enumerate, DealtWith
  <2>4. QED
    BY <2>1, <2>2, <2>3, SameDeserts DEF BlameInv, DeservedOf, container_index
<1>2. CASE RefreshContainer
  BY <1>2, BlameRefresh DEF RefreshContainer
<1>3. CASE Published \/ PublishFails
  BY <1>3, BlamePublish
<1>4. CASE ~RefreshContainer /\ ~Published /\ ~PublishFails /\ ~Enumerate
  <2>1. InPass /\ UNCHANGED <<names, todo, log, errors, config>>
    BY <1>4, OtherDoes
  <2>2. UNCHANGED <<docker, dockerUp, redisUp, current, quiet>>
    <3>1. CASE UNCHANGED vars \/ Terminated
      BY <3>1 DEF vars, processVars, Terminated
    <3>2. CASE Process
      BY <1>4, <3>2
      DEF Process, NotifyReady, NotifyReadyFails, EndPass, CheckSignal,
          SelectSignal, SelectRefresh, SelectWatchdog, Shutdown, Goto
    <3>3. CASE Environment /\ ~Terminated
      BY <3>3
      DEF Environment, DockerMoves, RedisMoves, SystemdOutage, DockerBack,
          RedisBack, SystemdBack, Expire, EntryExpires, DeliverSignal, Crash,
          Restart, Outside, InPass
    <3>4. QED
      BY <3>1, <3>2, <3>3 DEF Next
  <2>3. DealtWith' = DealtWith
    BY <2>1, <2>2 DEF DealtWith
  <2>4. QED
    BY <2>1, <2>2, <2>3, SameDeserts DEF BlameInv
<1>5. QED
  BY <1>1, <1>2, <1>3, <1>4

(***************************************************************************)
(* QuietPassBlames for all constants: the errors of an undisturbed pass    *)
(* are exactly those that its names deserve.                               *)
(***************************************************************************)
THEOREM BlameIsDeserved == Spec => []QuietPassBlames
<1>1. Init => QuietInv /\ BlameInv
  BY DEF Init, QuietInv, BlameInv
<1>2. TypeOK /\ QuietInv /\ BlameInv => QuietPassBlames
  <2> SUFFICES ASSUME TypeOK, QuietInv, BlameInv, quiet, PassDone
               PROVE  errors = DeservedOf(Scope) \cup ListingErrors
    BY DEF QuietPassBlames, DeservedOf
  <2>1. InPass /\ pc # "publish"
    BY DEF InPass, PassDone
  <2>2. DOMAIN names = Scope /\ todo = {}
    BY <2>1 DEF QuietInv
  <2>3. DealtWith = Scope
    BY <2>1, <2>2, NamesAssumption DEF DealtWith, TypeOK, NoPublication
  <2>4. QED
    BY <2>1, <2>3 DEF BlameInv
<1>3. QED
  BY <1>1, <1>2, TypeCorrect, QuietStep, BlameStep, PTL DEF Spec
-----------------------------------------------------------------------------
(* The way to the end *)

(* Only a companion that refreshes ever waits. *)
WaitInv == pc \in {"check", "select"} => config.refresh

LEMMA WaitStep == WaitInv /\ [Next]_vars => WaitInv'
<1> SUFFICES ASSUME WaitInv, [Next]_vars PROVE WaitInv'
  OBVIOUS
<1> USE DEF WaitInv, vars, processVars
<1>1. CASE UNCHANGED vars \/ Environment
  BY <1>1
  DEF Environment, DockerMoves, RedisMoves, SystemdOutage, DockerBack, RedisBack,
      SystemdBack, Expire, DeliverSignal, Crash, Restart, Terminated, Outside
<1>2. CASE Process /\ ~RefreshContainer
  BY <1>2
  DEF Process, NotifyReady, NotifyReadyFails, Enumerate, Published, PublishFails,
      EndPass, CheckSignal, SelectSignal, SelectRefresh, SelectWatchdog, Shutdown, Goto
<1>3. CASE RefreshContainer
  BY <1>3
  DEF RefreshContainer, InspectFails, EnvVarMissing, DryRun, Inspected, Skip
<1>4. QED
  BY <1>1, <1>2, <1>3 DEF Next

(* A work list is finite, and its names are among all. *)
LEMMA Sizes ==
    ASSUME NEW N \in SUBSET Names
    PROVE  /\ IsFiniteSet(N)
           /\ Cardinality(N) \in Nat /\ Cardinality(Names) \in Nat
           /\ Cardinality(N) <= Cardinality(Names)
BY FiniteAssumption, FS_Subset, FS_CardinalityType

(* Enumeration takes names, however many there are by then. *)
LEMMA EnumerateFinite == ASSUME Enumerate PROVE todo' \subseteq Names
BY ListingType, NamesAssumption DEF Enumerate, container_index

(* A step of the process is one nearer the end, except for entering a wait *)
(* unasked.                                                                *)
LEMMA ProcessWinds ==
    ASSUME TypeOK, WaitInv, Process
    PROVE  /\ Asked => Asked' \/ ~alive'
           /\ StepsLeft' < StepsLeft \/ (pc = "check" /\ ~Asked)
<1>1. /\ todo \in SUBSET Names
      /\ Cardinality(Names) \in Nat /\ Cardinality(todo) \in Nat
      /\ Cardinality(todo) <= Cardinality(Names)
  <2>1. todo \in SUBSET Names
    BY DEF TypeOK
  <2>2. QED
    BY <2>1, Sizes
<1> USE <1>1 DEF StepsLeft, Asked, alive, passVars
<1>2. CASE NotifyReady \/ NotifyReadyFails
  BY <1>2 DEF NotifyReady, NotifyReadyFails
<1>3. CASE Enumerate
  <2>1. Cardinality(todo') \in Nat /\ Cardinality(todo') <= Cardinality(Names)
    BY <1>3, EnumerateFinite, Sizes
  <2>2. pc = "iterate" /\ pc' = "refresh" /\ UNCHANGED <<config, signal>>
    BY <1>3 DEF Enumerate
  <2>3. QED
    BY <2>1, <2>2
<1>4. CASE RefreshContainer
  <2>1. PICK n \in todo :
          InspectFails(n) \/ EnvVarMissing(n) \/ DryRun(n) \/ Inspected(n)
    BY <1>4 DEF RefreshContainer
  <2>2. pc = "refresh" /\ pc' \in {"refresh", "publish"} /\ todo' = todo \ {n}
    BY <1>4, <2>1, RefreshDoes DEF RefreshContainer
  <2>3. UNCHANGED <<config, signal>>
    BY <2>1 DEF InspectFails, EnvVarMissing, DryRun, Inspected, Skip
  <2>4. Cardinality(todo') = Cardinality(todo) - 1
    BY <2>2, Sizes, FS_RemoveElement
  <2>5. QED
    BY <2>2, <2>3, <2>4
<1>5. CASE Published \/ PublishFails
  <2>1. /\ pc = "publish" /\ pc' = "refresh" /\ todo' = todo
        /\ UNCHANGED <<config, signal>>
    BY <1>5 DEF Published, PublishFails
  <2>2. QED
    BY <2>1
<1>6. CASE EndPass
  BY <1>6 DEF EndPass, Goto
<1>7. CASE CheckSignal
  BY <1>7 DEF CheckSignal, Goto, WaitInv
<1>8. CASE SelectSignal \/ SelectWatchdog
  BY <1>8 DEF SelectSignal, SelectWatchdog, Goto
<1>9. CASE SelectRefresh \/ Shutdown
  BY <1>9 DEF SelectRefresh, Shutdown
<1>10. QED
  BY <1>2, <1>3, <1>4, <1>5, <1>6, <1>7, <1>8, <1>9 DEF Process

(* What happens outside takes nobody's place in the pass. *)
LEMMA OutsideWinds ==
    ASSUME TypeOK, alive, UNCHANGED vars \/ Environment
    PROVE  /\ Asked => Asked' \/ ~alive'
           /\ StepsLeft' <= StepsLeft
<1>1. /\ todo \in SUBSET Names
      /\ Cardinality(Names) \in Nat /\ Cardinality(todo) \in Nat
      /\ Cardinality(todo) <= Cardinality(Names)
  <2>1. todo \in SUBSET Names
    BY DEF TypeOK
  <2>2. QED
    BY <2>1, Sizes
<1>2. StepsLeft \in Nat
  BY <1>1 DEF StepsLeft, TypeOK, ProgramPoints
<1>3. CASE Crash
  <2>1. pc' = "crashed" /\ todo' = todo
    BY <1>3 DEF Crash
  <2>2. QED
    BY <1>1, <2>1 DEF StepsLeft, alive, TypeOK, ProgramPoints
<1>4. CASE ~Crash
  <2>1. UNCHANGED <<config, pc, todo>> /\ (signal => signal')
    <3>1. CASE UNCHANGED vars \/ Terminated \/ DeliverSignal
      BY <3>1 DEF vars, processVars, passVars, Terminated, DeliverSignal
    <3>2. CASE \/ DockerMoves \/ RedisMoves \/ SystemdOutage
               \/ DockerBack \/ RedisBack \/ SystemdBack
               \/ \E k \in Keys : Expire(k)
      BY <3>2
      DEF DockerMoves, RedisMoves, SystemdOutage, DockerBack, RedisBack,
          SystemdBack, Expire, Outside, passVars
    <3>3. CASE Restart
      BY <3>3 DEF Restart, alive
    <3>4. QED
      BY <1>4, <3>1, <3>2, <3>3 DEF Environment
  <2>2. StepsLeft' = StepsLeft
    BY <2>1 DEF StepsLeft
  <2>3. QED
    BY <1>2, <2>1, <2>2 DEF Asked
<1>5. QED
  BY <1>3, <1>4

(***************************************************************************)
(* WindsDown for any number of names: once it is asked to, the companion   *)
(* ends within two calls for each name and five steps more, whatever       *)
(* happens around it.                                                      *)
(***************************************************************************)
THEOREM TheEndComesNearer == Spec => WindsDown
<1> DEFINE A == alive =>
        /\ Asked => Asked' \/ ~alive'
        /\ IF Process THEN StepsLeft' < StepsLeft \/ (pc = "check" /\ ~Asked)
                      ELSE StepsLeft' <= StepsLeft
<1>1. Init => WaitInv
  BY DEF Init, WaitInv
<1>2. TypeOK /\ WaitInv /\ [Next]_vars => [A]_vars
  <2> SUFFICES ASSUME TypeOK, WaitInv, [Next]_vars, alive
               PROVE  /\ Asked => Asked' \/ ~alive'
                      /\ IF Process THEN StepsLeft' < StepsLeft \/ (pc = "check" /\ ~Asked)
                                    ELSE StepsLeft' <= StepsLeft
    OBVIOUS
  <2>1. CASE Process
    BY <2>1, ProcessWinds
  <2>2. CASE ~Process
    BY <2>2, OutsideWinds DEF Next
  <2>3. QED
    BY <2>1, <2>2
<1>3. QED
  BY <1>1, <1>2, TypeCorrect, WaitStep, PTL DEF Spec, WindsDown
=============================================================================
