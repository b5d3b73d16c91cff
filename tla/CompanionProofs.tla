-------------------------- MODULE CompanionProofs --------------------------
(***************************************************************************)
(* Theorems about Companion, for every set of containers, every            *)
(* configuration and every bound on the environment's moves.               *)
(***************************************************************************)
EXTENDS Companion, TLAPS

-----------------------------------------------------------------------------
(* What the two components return *)

(* Inspecting any name gives an inspection. *)
LEMMA InspectType ==
    ASSUME InspectorTypeOK, NEW n \in Names, NEW network \in BOOLEAN
    PROVE  inspect(n, network) \in Inspection
<1>1. docker[Target[n]] \in ContainerState
  BY NamesAssumption DEF InspectorTypeOK
<1>2. docker[Target[n]].env \in EnvVar /\ docker[Target[n]].IPAddress \in Hosts
  BY <1>1 DEF ContainerState, Hosts
<1>3. docker[Target[n]].env.specs \in SpecLists
  BY <1>2, DataAssumption DEF EnvVar
<1>4. (IF network THEN n ELSE docker[Target[n]].IPAddress) \in Hosts
  BY <1>2 DEF Hosts
<1>5. InspectionError \in Inspection
  BY DataAssumption DEF InspectionError, Inspection, Hosts
<1>6. QED
  BY <1>3, <1>4, <1>5 DEF inspect, Inspection

(* Docker lists names. *)
LEMMA ListingType == Listing \subseteq Names
BY NamesAssumption DEF Listing

(* Whatever is written into redis is an entry under a key. *)
LEMMA WriteType ==
    ASSUME PublisherTypeOK, NEW h \in Hosts, NEW s \in SpecLists,
           NEW e \in BOOLEAN, Write(h, s, e)
    PROVE  redis' \in [Keys -> Entry]
<1>1. service_key(h) \in Keys
  BY DEF Keys
<1>2. EntryFor(h, s, e) \in Entry
  BY DEF EntryFor, Entry
<1>3. QED
  BY <1>1, <1>2 DEF Write, PublisherTypeOK

(* Every docker event leaves docker well typed. *)
LEMMA DockerChangeType ==
    ASSUME InspectorTypeOK, DockerChange
    PROVE  InspectorTypeOK'
<1>1. PICK c \in Containers :
        \/ CreateContainer(c) \/ StartContainer(c)
        \/ StopContainer(c) \/ RemoveContainer(c)
  BY DEF DockerChange
<1>2. docker[c].env \in EnvVar
  BY DEF InspectorTypeOK, ContainerState
<1>3. FreeAddresses \subseteq Addresses \cup {NoAddress}
  BY DEF FreeAddresses
<1>4. Absent \in ContainerState
  BY DEF Absent, ContainerState, EnvVar
<1>5. CASE CreateContainer(c)
  BY <1>5, <1>3 DEF CreateContainer, InspectorTypeOK, ContainerState
<1>6. CASE StartContainer(c)
  BY <1>6, <1>2, <1>3 DEF StartContainer, InspectorTypeOK, ContainerState
<1>7. CASE StopContainer(c)
  BY <1>7, <1>2 DEF StopContainer, InspectorTypeOK, ContainerState
<1>8. CASE RemoveContainer(c)
  BY <1>8, <1>4 DEF RemoveContainer, InspectorTypeOK
<1>9. QED
  BY <1>1, <1>5, <1>6, <1>7, <1>8
-----------------------------------------------------------------------------
(* Type correctness *)

(* The parts of the type invariant that only the process can disturb.      *)
LEMMA ProcessTypeUnchanged ==
    ASSUME TypeOK,
           UNCHANGED <<config, pc, passVars, exit, signal, late>>
    PROVE  /\ config' \in Configs
           /\ pc' \in ProgramPoints
           /\ DOMAIN names' \subseteq Names
           /\ names' \in [DOMAIN names' -> BOOLEAN]
           /\ todo' \subseteq DOMAIN names'
           /\ current' \in Publication \cup {NoPublication}
           /\ pc' = "publish" <=> current' # NoPublication
           /\ errors' \subseteq CompanionError
           /\ log' \subseteq LogRecord
           /\ exit' \in {"none", "ok", "err"}
           /\ signal' \in BOOLEAN
           /\ late' \in Nat
BY DEF TypeOK, passVars

LEMMA InitType == Init => TypeOK
<1> SUFFICES ASSUME Init PROVE TypeOK
  OBVIOUS
<1>1. InspectorTypeOK
  BY DEF Init, InspectorInit, InspectorTypeOK
<1>2. NoEntry \in Entry
  BY DataAssumption DEF NoEntry, Entry, Hosts
<1>3. PublisherTypeOK
  BY <1>2 DEF Init, PublisherInit, PublisherTypeOK
<1>4. DOMAIN names = {} /\ names \in [DOMAIN names -> BOOLEAN]
  BY DEF Init, NoNames
<1>5. DOMAIN names \subseteq Names /\ todo \subseteq DOMAIN names
  BY <1>4 DEF Init
<1>6. moves \in 0..MaxMoves
  BY MovesAssumption DEF Init
<1>7. /\ config \in Configs /\ pc \in ProgramPoints
      /\ current \in Publication \cup {NoPublication}
      /\ pc = "publish" <=> current # NoPublication
      /\ errors \subseteq CompanionError /\ log \subseteq LogRecord
      /\ exit \in {"none", "ok", "err"} /\ signal \in BOOLEAN
      /\ systemdUp \in BOOLEAN /\ late \in Nat /\ quiet \in BOOLEAN
  BY DEF Init, ProgramPoints
<1>8. QED
  BY <1>1, <1>3, <1>4, <1>5, <1>6, <1>7 DEF TypeOK

LEMMA MoveType == ASSUME TypeOK, Move PROVE moves' \in 0..MaxMoves
BY MovesAssumption DEF TypeOK, Move

(* A step of refresh_container. *)
LEMMA RefreshType ==
    ASSUME TypeOK, NEW n \in todo, pc = "refresh",
           InspectFails(n) \/ EnvVarMissing(n) \/ DryRun(n) \/ Inspected(n)
    PROVE  TypeOK'
<1> USE DEF dockerVars, redisVars, passVars, historyVars
<1>1. n \in Names /\ names[n] \in BOOLEAN /\ config \in Config
  BY DataAssumption DEF TypeOK
<1>2. \A kind \in {"Inspection", "EnvVarMissing"} : Err(kind, n) \in CompanionError
  BY <1>1 DEF Err, CompanionError
<1>3. \A level \in {"Error", "Warn", "Info"} :
        \A event \in {"inspect failed", "envvar missing", "dry run", "updating"} :
            Log(level, event, n) \in LogRecord
  BY <1>1 DEF Log, LogRecord
<1>4. ASSUME NEW e \in SUBSET CompanionError, NEW r \in LogRecord, Skip(n, e, r)
      PROVE  TypeOK'
  BY <1>4 DEF Skip, TypeOK, InspectorTypeOK, PublisherTypeOK
<1>5. CASE InspectFails(n)
  <2>1. InspectFailureLevel(config, names[n]) \in {"Error", "Warn", "Info"}
    BY DEF InspectFailureLevel
  <2>2. QED
    BY <1>2, <1>3, <1>4, <1>5, <2>1 DEF InspectFails, ConsiderError
<1>6. CASE EnvVarMissing(n)
  BY <1>2, <1>3, <1>4, <1>6 DEF EnvVarMissing
<1>7. CASE DryRun(n)
  BY <1>3, <1>4, <1>7 DEF DryRun
<1>8. CASE Inspected(n)
  <2>1. inspect(n, config.docker_network) \in Inspection
    BY <1>1, InspectType DEF TypeOK, Config
  <2>2. current' \in Publication
    BY <1>1, <1>8, <2>1 DEF Inspected, Publication, Inspection
  <2>3. current' # NoPublication
    BY <2>2, NamesAssumption DEF Publication, NoPublication
  <2>4. QED
    BY <1>3, <1>8, <2>2, <2>3
    DEF Inspected, TypeOK, InspectorTypeOK, PublisherTypeOK, ProgramPoints
<1>9. QED
  BY <1>5, <1>6, <1>7, <1>8

(* A call to redis, successful or not. *)
LEMMA PublishType == ASSUME TypeOK, Published \/ PublishFails PROVE TypeOK'
<1> USE DEF dockerVars, redisVars, passVars, historyVars
<1>1. pc = "publish" /\ current \in Publication /\ config.expire \in BOOLEAN
  BY DataAssumption DEF Published, PublishFails, TypeOK, Config
<1>2. current.name \in Names /\ current.host \in Hosts /\ current.specs \in SpecLists
  BY <1>1 DEF Publication
<1>3. PublisherTypeOK'
  <2>1. CASE Write(current.host, current.specs, config.expire)
    BY <1>1, <1>2, <2>1, WriteType
    DEF TypeOK, PublisherTypeOK, Published, PublishFails, PublishOk, PublishErr
  <2>2. CASE UNCHANGED redis
    BY <2>2
    DEF TypeOK, PublisherTypeOK, Published, PublishFails, PublishOk, PublishErr
  <2>3. QED
    BY <2>1, <2>2 DEF Published, PublishFails, PublishOk, PublishErr
<1>4. CASE Published
  BY <1>3, <1>4 DEF Published, TypeOK, InspectorTypeOK, ProgramPoints
<1>5. CASE PublishFails
  <2>1. Err("Publishing", current.name) \in CompanionError
    BY <1>2 DEF Err, CompanionError
  <2>2. Log("Error", "publish failed", current.name) \in LogRecord
    BY <1>2 DEF Log, LogRecord
  <2>3. QED
    BY <1>3, <1>5, <2>1, <2>2 DEF PublishFails, TypeOK, InspectorTypeOK, ProgramPoints
<1>6. QED
  BY <1>4, <1>5

(* Enumeration makes a fresh work list of names. *)
LEMMA EnumerateType == ASSUME TypeOK, Enumerate PROVE TypeOK'
<1> USE DEF dockerVars, redisVars, passVars, historyVars
<1> DEFINE enumerated == IF config.enumerate /\ dockerUp THEN Listing ELSE {}
<1>1. enumerated \subseteq Names
  BY ListingType
<1>2. names' = container_index(ExplicitNames, enumerated)
  BY DEF Enumerate
<1> HIDE DEF enumerated
<1>3. /\ DOMAIN names' \subseteq Names
      /\ names' \in [DOMAIN names' -> BOOLEAN]
  BY <1>1, <1>2, NamesAssumption DEF container_index
<1>4. errors' \subseteq CompanionError
  BY DEF Enumerate, Err, CompanionError
<1>5. late' \in Nat /\ quiet' \in BOOLEAN
  BY DEF Enumerate, TypeOK, InspectorTypeOK, PublisherTypeOK
<1>6. QED
  BY <1>3, <1>4, <1>5
  DEF Enumerate, TypeOK, InspectorTypeOK, PublisherTypeOK, ProgramPoints
LEMMA StepType == TypeOK /\ [Next]_vars => TypeOK'
<1> SUFFICES ASSUME TypeOK, [Next]_vars PROVE TypeOK'
  OBVIOUS
<1> USE DEF dockerVars, redisVars, passVars, historyVars
<1>1. CASE UNCHANGED vars
  BY <1>1 DEF vars, processVars, TypeOK, InspectorTypeOK, PublisherTypeOK
<1>2. CASE NotifyReady
  BY <1>2 DEF NotifyReady, TypeOK, InspectorTypeOK, PublisherTypeOK, ProgramPoints
<1>3. CASE NotifyReadyFails
  <2>1. Err("Systemd", NoName) \in CompanionError
    BY DEF Err, CompanionError
  <2>2. QED
    BY <1>3, <2>1
    DEF NotifyReadyFails, TypeOK, InspectorTypeOK, PublisherTypeOK, ProgramPoints
<1>4. CASE Enumerate
  BY <1>4, EnumerateType
<1>5. CASE RefreshContainer
  BY <1>5, RefreshType DEF RefreshContainer
<1>6. CASE Published \/ PublishFails
  BY <1>6, PublishType
<1>7. CASE EndPass \/ CheckSignal \/ SelectSignal \/ SelectWatchdog
  BY <1>7
  DEF EndPass, CheckSignal, SelectSignal, SelectWatchdog, Goto,
      TypeOK, InspectorTypeOK, PublisherTypeOK, ProgramPoints
<1>8. CASE SelectRefresh \/ Shutdown
  BY <1>8
  DEF SelectRefresh, Shutdown, TypeOK, InspectorTypeOK, PublisherTypeOK,
      ProgramPoints
<1>9. CASE DockerMoves
  <2>1. InspectorTypeOK'
    BY <1>9, DockerChangeType DEF DockerMoves, DockerOutage, TypeOK, InspectorTypeOK
  <2>2. QED
    BY <1>9, <2>1, MoveType, ProcessTypeUnchanged
    DEF DockerMoves, Outside, TypeOK, PublisherTypeOK
<1>10. CASE RedisMoves \/ SystemdOutage
  BY <1>10, MoveType
  DEF RedisMoves, RedisOutage, SystemdOutage, Outside,
      TypeOK, InspectorTypeOK, PublisherTypeOK
<1>11. CASE DockerBack \/ RedisBack \/ SystemdBack
  BY <1>11
  DEF DockerBack, DockerRecovers, RedisBack, RedisRecovers, SystemdBack, Outside,
      TypeOK, InspectorTypeOK, PublisherTypeOK
<1>12. CASE \E k \in Keys : Expire(k)
  <2>1. NoEntry \in Entry
    BY DataAssumption DEF NoEntry, Entry, Hosts
  <2>2. QED
    BY <1>12, <2>1
    DEF Expire, EntryExpires, Outside, TypeOK, InspectorTypeOK, PublisherTypeOK
<1>13. CASE DeliverSignal
  BY <1>13 DEF DeliverSignal, TypeOK, InspectorTypeOK, PublisherTypeOK
<1>14. CASE Crash
  BY <1>14, MoveType DEF Crash, TypeOK, InspectorTypeOK, PublisherTypeOK, ProgramPoints
<1>15. CASE Restart
  <2>1. current = NoPublication
    BY <1>15 DEF Restart, TypeOK
  <2>2. QED
    BY <1>15, <2>1
    DEF Restart, NoNames, TypeOK, InspectorTypeOK, PublisherTypeOK, ProgramPoints
<1>16. CASE Terminated
  BY <1>16 DEF Terminated, vars, processVars, TypeOK, InspectorTypeOK, PublisherTypeOK
<1>17. QED
  BY <1>1, <1>2, <1>3, <1>4, <1>5, <1>6, <1>7, <1>8, <1>9, <1>10, <1>11, <1>12,
     <1>13, <1>14, <1>15, <1>16
  DEF Next, Process, Environment

(***************************************************************************)
(* Every reachable state is well typed: in particular the work list only   *)
(* ever holds names, and a publication is in hand exactly between inspect  *)
(* and publish.                                                            *)
(***************************************************************************)
THEOREM TypeCorrect == Spec => []TypeOK
BY InitType, StepType, PTL DEF Spec
-----------------------------------------------------------------------------
(* Termination signals *)

(***************************************************************************)
(* Why one late pass is the most there can be: the look at the channel     *)
(* that begins the wait loop lets the process into the select only when no *)
(* signal is waiting, so no pass is late where another one can begin.      *)
(***************************************************************************)
LateInv ==
    /\ late \in {0, 1}
    /\ pc \in {"start", "iterate", "select"} => late = 0
    /\ (late = 1 /\ pc \in {"refresh", "publish", "check"}) => signal

LEMMA LateStep == LateInv /\ [Next]_vars => LateInv'
<1> SUFFICES ASSUME LateInv, [Next]_vars PROVE LateInv'
  OBVIOUS
<1> USE DEF historyVars, LateInv
<1>1. CASE UNCHANGED vars \/ Terminated
  BY <1>1 DEF vars, processVars, Terminated
<1>2. CASE NotifyReady \/ NotifyReadyFails
  BY <1>2 DEF NotifyReady, NotifyReadyFails
<1>3. CASE Enumerate
  BY <1>3 DEF Enumerate
<1>4. CASE RefreshContainer
  <2>1. pc = "refresh" /\ pc' \in {"refresh", "publish"}
        /\ late' = late /\ signal' = signal
    <3>1. PICK n \in todo :
            InspectFails(n) \/ EnvVarMissing(n) \/ DryRun(n) \/ Inspected(n)
      BY <1>4 DEF RefreshContainer
    <3>2. CASE InspectFails(n)
      BY <1>4, <3>2 DEF RefreshContainer, InspectFails, Skip
    <3>3. CASE EnvVarMissing(n)
      BY <1>4, <3>3 DEF RefreshContainer, EnvVarMissing, Skip
    <3>4. CASE DryRun(n)
      BY <1>4, <3>4 DEF RefreshContainer, DryRun, Skip
    <3>5. CASE Inspected(n)
      BY <1>4, <3>5 DEF RefreshContainer, Inspected
    <3>6. QED
      BY <3>1, <3>2, <3>3, <3>4, <3>5
  <2>2. QED
    BY <2>1
<1>5. CASE Published \/ PublishFails
  BY <1>5 DEF Published, PublishFails
<1>6. CASE EndPass \/ CheckSignal \/ SelectSignal \/ SelectWatchdog
  BY <1>6 DEF EndPass, CheckSignal, SelectSignal, SelectWatchdog, Goto
<1>7. CASE SelectRefresh \/ Shutdown
  BY <1>7 DEF SelectRefresh, Shutdown
<1>8. CASE \/ DockerMoves \/ RedisMoves \/ SystemdOutage
           \/ DockerBack \/ RedisBack \/ SystemdBack
           \/ \E k \in Keys : Expire(k)
  BY <1>8
  DEF DockerMoves, RedisMoves, SystemdOutage, DockerBack, RedisBack, SystemdBack,
      Expire, Outside
<1>9. CASE DeliverSignal \/ Crash \/ Restart
  BY <1>9 DEF DeliverSignal, Crash, Restart
<1>10. QED
  BY <1>1, <1>2, <1>3, <1>4, <1>5, <1>6, <1>7, <1>8, <1>9
  DEF Next, Process, Environment

(***************************************************************************)
(* At most one pass begins while a signal is waiting, in every run of the  *)
(* companion.                                                              *)
(***************************************************************************)
THEOREM SignalsHonoured == Spec => []AtMostOnePassAfterSignal
<1>1. Init => LateInv
  BY DEF Init, LateInv
<1>2. LateInv => AtMostOnePassAfterSignal
  BY DEF LateInv, AtMostOnePassAfterSignal
<1>3. QED
  BY <1>1, <1>2, LateStep, PTL DEF Spec
-----------------------------------------------------------------------------
(* Quiet passes *)

(***************************************************************************)
(* While nothing outside moves, the work list is the scope, the            *)
(* publication in hand is what another look would give, and the key of     *)
(* every name already dealt with is served: a later publication of the     *)
(* same pass can only touch it for another name that wants it.             *)
(***************************************************************************)
InHand(n) ==
    /\ Look(n).ok /\ Look(n).envvar_present
    /\ ~config.dry_run
    /\ current = [name |-> n, host |-> Look(n).host, specs |-> Look(n).specs]

DealtWith == DOMAIN names \ (todo \cup {current.name})

QuietInv ==
    (quiet /\ InPass) =>
        /\ DOMAIN names = Scope
        /\ PassDone => todo = {}
        /\ pc = "publish" => \E n \in DOMAIN names \ todo : InHand(n)
        /\ redisUp => \A n \in DealtWith : Wanted(n) => Served(n)

(* What a look shows changes only with docker. *)
LEMMA SameLook ==
    ASSUME UNCHANGED <<docker, dockerUp, config>>
    PROVE  /\ Scope' = Scope
           /\ \A n : /\ Look(n)' = Look(n)
                     /\ Wanted(n)' <=> Wanted(n)
                     /\ KeyOf(n)' = KeyOf(n)
                     /\ Expected(n)' = Expected(n)
                     /\ UNCHANGED redis => (Served(n)' <=> Served(n))
<1>1. Scope' = Scope
  BY DEF Scope, Unlisted, Listing, running
<1>2. \A n : Look(n)' = Look(n)
  BY DEF Look, inspect
<1>3. \A n : Wanted(n)' <=> Wanted(n)
  BY <1>2 DEF Wanted
<1>4. \A n : KeyOf(n)' = KeyOf(n) /\ Expected(n)' = Expected(n)
  BY <1>2 DEF KeyOf, Expected
<1>5. \A n : UNCHANGED redis => (Served(n)' <=> Served(n))
  BY <1>1, <1>3, <1>4 DEF Served
<1>6. QED
  BY <1>1, <1>2, <1>3, <1>4, <1>5
(* Nothing the invariant speaks about moves, or the position moves on from *)
(* a finished work list.                                                   *)
LEMMA QuietStay ==
    ASSUME QuietInv,
           UNCHANGED <<docker, dockerUp, redis, redisUp, config, names, todo,
                       current, quiet>>,
           pc' = pc \/ (pc' \in {"check", "select", "shutdown"} /\ InPass
                            /\ pc # "publish" /\ todo = {})
    PROVE  QuietInv'
<1> SUFFICES ASSUME quiet', InPass' PROVE QuietInv'
  BY DEF QuietInv
<1>1. quiet /\ InPass
  BY DEF InPass
<1>2. DOMAIN names' = Scope' /\ DealtWith' = DealtWith
  BY <1>1, SameLook DEF QuietInv, DealtWith
<1>3. PassDone' => todo' = {}
  BY <1>1 DEF QuietInv, PassDone
<1>4. pc' = "publish" => \E n \in DOMAIN names' \ todo' : InHand(n)'
  BY <1>1, SameLook DEF QuietInv, InHand
<1>5. redisUp' => \A n \in DealtWith' : (Wanted(n) => Served(n))'
  BY <1>1, <1>2, SameLook DEF QuietInv
<1>6. QED
  BY <1>2, <1>3, <1>4, <1>5 DEF QuietInv
(* A new pass starts with nothing dealt with and the scope to do. *)
LEMMA QuietEnumerate == ASSUME TypeOK, Enumerate PROVE QuietInv'
<1> USE DEF dockerVars, redisVars
<1> SUFFICES ASSUME quiet' PROVE QuietInv'
  BY DEF QuietInv
<1>1. UNCHANGED <<docker, dockerUp, redisUp, config>>
  BY DEF Enumerate
<1>2. DOMAIN names' = Scope'
  <2>1. Scope' = Scope
    BY <1>1, SameLook
  <2>2. names' = container_index(ExplicitNames,
                    IF config.enumerate /\ dockerUp THEN Listing ELSE {})
    BY DEF Enumerate
  <2>3. QED
    BY <2>1, <2>2 DEF container_index, Scope, Unlisted
<1>3. DealtWith' = {} /\ pc' = "refresh"
  BY DEF Enumerate, DealtWith
<1>4. QED
  BY <1>1, <1>2, <1>3 DEF QuietInv, PassDone

(* Dealing with a name: one that is skipped is not wanted, one that is not *)
(* skipped is in hand.                                                     *)
LEMMA QuietRefresh ==
    ASSUME TypeOK, QuietInv, pc = "refresh", NEW n \in todo,
           InspectFails(n) \/ EnvVarMissing(n) \/ DryRun(n) \/ Inspected(n)
    PROVE  QuietInv'
<1> USE DEF dockerVars, redisVars, historyVars
<1> SUFFICES ASSUME quiet' PROVE QuietInv'
  BY DEF QuietInv
<1>1. /\ UNCHANGED <<docker, dockerUp, redis, redisUp, config, names, quiet>>
      /\ todo' = todo \ {n}
      /\ pc' \in {"refresh", "publish"}
  <2>1. CASE InspectFails(n)
    BY <2>1 DEF InspectFails, Skip
  <2>2. CASE EnvVarMissing(n)
    BY <2>2 DEF EnvVarMissing, Skip
  <2>3. CASE DryRun(n)
    BY <2>3 DEF DryRun, Skip
  <2>4. CASE Inspected(n)
    BY <2>4 DEF Inspected
  <2>5. QED
    BY <2>1, <2>2, <2>3, <2>4
<1>2. n \in Names /\ n \in DOMAIN names
  BY DEF TypeOK
<1>3. /\ DOMAIN names = Scope
      /\ redisUp => \A m \in DealtWith : Wanted(m) => Served(m)
  BY <1>1 DEF QuietInv, InPass
<1>4. current.name = NoName
  BY DEF TypeOK, NoPublication
<1>5. redisUp' = redisUp /\ DOMAIN names' = Scope'
  BY <1>1, <1>3, SameLook
<1>6. ~PassDone'
  BY <1>1 DEF PassDone
<1>7. redisUp => \A m \in DealtWith : (Wanted(m) => Served(m))'
  BY <1>1, <1>3, SameLook
<1>8. CASE Inspected(n)
  <2>1. InHand(n)' /\ current'.name = n
    BY <1>1, <1>8, SameLook DEF Inspected, InHand, Look
  <2>2. DealtWith' \subseteq DealtWith
    BY <1>1, <1>2, <1>4, <2>1, NamesAssumption DEF DealtWith, TypeOK
  <2>3. n \in DOMAIN names' \ todo'
    BY <1>1, <1>2
  <2>4. QED
    BY <1>5, <1>6, <1>7, <2>1, <2>2, <2>3 DEF QuietInv
<1>9. CASE InspectFails(n) \/ EnvVarMissing(n) \/ DryRun(n)
  <2>1. ~Wanted(n) /\ pc' = pc /\ current' = current
    <3>1. CASE InspectFails(n)
      BY <3>1 DEF InspectFails, Skip, Wanted, Look
    <3>2. CASE EnvVarMissing(n)
      BY <3>2 DEF EnvVarMissing, Skip, Wanted, Look
    <3>3. CASE DryRun(n)
      BY <3>3 DEF DryRun, Skip, Wanted
    <3>4. QED
      BY <1>9, <3>1, <3>2, <3>3
  <2>2. ~Wanted(n)'
    BY <1>1, <2>1, SameLook
  <2>3. DealtWith' \subseteq DealtWith \cup {n}
    BY <1>1, <2>1 DEF DealtWith
  <2>4. QED
    BY <1>5, <1>6, <1>7, <2>1, <2>2, <2>3 DEF QuietInv
<1>10. QED
  BY <1>8, <1>9

(* Calling redis: with the server up an error means that it refused, and a *)
(* write serves the key of the name in hand.  With the server down nothing *)
(* is claimed.                                                             *)
LEMMA QuietPublish ==
    ASSUME TypeOK, QuietInv, Published \/ PublishFails
    PROVE  QuietInv'
<1> USE DEF dockerVars, historyVars
<1> SUFFICES ASSUME quiet' PROVE QuietInv'
  BY DEF QuietInv
<1>1. /\ UNCHANGED <<docker, dockerUp, redisUp, config, names, todo, quiet>>
      /\ pc = "publish" /\ pc' = "refresh" /\ current' = NoPublication
  BY DEF Published, PublishFails, PublishOk, PublishErr
<1>2. /\ DOMAIN names = Scope
      /\ redisUp => \A n \in DealtWith : Wanted(n) => Served(n)
  BY <1>1 DEF QuietInv, InPass
<1>3. PICK p \in DOMAIN names \ todo : InHand(p)
  BY <1>1 DEF QuietInv, InPass
<1>4. current.name = p /\ current.host = Look(p).host /\ current.specs = Look(p).specs
  BY <1>3 DEF InHand
<1>5. \A n \in DealtWith' : n = p \/ n \in DealtWith
  BY <1>1, <1>4 DEF DealtWith
<1>6. ASSUME redisUp, NEW n \in DealtWith', Wanted(n)
      PROVE  \E m \in Scope : /\ Wanted(m) /\ KeyOf(m) = KeyOf(n)
                              /\ redis'[KeyOf(n)] = Expected(m)
  <2>1. n \in Names
    BY <1>1, <1>6 DEF DealtWith, TypeOK
  <2>2. KeyOf(n) \in Keys
    <3>1. Look(n) \in Inspection
      BY <2>1, InspectType, DataAssumption DEF Look, TypeOK, Config
    <3>2. QED
      BY <3>1 DEF KeyOf, Keys, Inspection
  <2>3. CASE Published
    <3>1. Wanted(p)
      BY <1>3, <1>4, <2>3 DEF Published, PublishOk, Wanted, InHand
    <3>2. redis' = [redis EXCEPT ![KeyOf(p)] = Expected(p)]
      BY <1>4, <2>3 DEF Published, PublishOk, Write, KeyOf, Expected
    <3>3. CASE KeyOf(n) = KeyOf(p)
      <4>1. p \in Scope
        BY <1>2, <1>3
      <4>2. redis'[KeyOf(n)] = Expected(p)
        BY <2>2, <3>2, <3>3 DEF TypeOK, PublisherTypeOK
      <4>3. QED
        BY <3>1, <3>3, <4>1, <4>2
    <3>4. CASE KeyOf(n) # KeyOf(p)
      <4>1. Served(n)
        BY <1>2, <1>5, <1>6, <3>4
      <4>2. redis'[KeyOf(n)] = redis[KeyOf(n)]
        BY <2>2, <3>2, <3>4 DEF TypeOK, PublisherTypeOK
      <4>3. QED
        BY <4>1, <4>2 DEF Served
    <3>5. QED
      BY <3>3, <3>4
  <2>4. CASE PublishFails
    <3>1. ~accepts(current.specs, config.expire) /\ redis' = redis
      BY <1>6, <2>4 DEF PublishFails, PublishErr
    <3>2. ~Wanted(p)
      BY <1>4, <3>1 DEF Wanted
    <3>3. QED
      BY <1>2, <1>5, <1>6, <3>1, <3>2 DEF Served
  <2>5. QED
    BY <2>3, <2>4
<1>7. redisUp => \A n \in DealtWith' : (Wanted(n) => Served(n))'
  <2>1. Scope' = Scope
    BY <1>1, SameLook
  <2>2. \A n : /\ Wanted(n)' <=> Wanted(n)
              /\ KeyOf(n)' = KeyOf(n)
              /\ Expected(n)' = Expected(n)
    BY <1>1, SameLook
  <2>3. QED
    BY <1>6, <2>1, <2>2 DEF Served
<1>8. redisUp' = redisUp /\ DOMAIN names' = Scope'
  BY <1>1, <1>2, SameLook
<1>9. QED
  BY <1>1, <1>7, <1>8 DEF QuietInv, PassDone

LEMMA QuietStep == TypeOK /\ QuietInv /\ [Next]_vars => QuietInv'
<1> SUFFICES ASSUME TypeOK, QuietInv, [Next]_vars PROVE QuietInv'
  OBVIOUS
<1> USE DEF dockerVars, redisVars, passVars, historyVars
<1>1. CASE UNCHANGED vars \/ Terminated
  BY <1>1, QuietStay DEF vars, processVars, Terminated
<1>2. CASE NotifyReady \/ NotifyReadyFails \/ SelectRefresh \/ Shutdown \/ Crash
  BY <1>2
  DEF NotifyReady, NotifyReadyFails, SelectRefresh, Shutdown, Crash, QuietInv, InPass
<1>3. CASE Enumerate
  BY <1>3, QuietEnumerate
<1>4. CASE RefreshContainer
  BY <1>4, QuietRefresh DEF RefreshContainer
<1>5. CASE Published \/ PublishFails
  BY <1>5, QuietPublish
<1>6. CASE EndPass
  BY <1>6, QuietStay DEF EndPass, Goto, InPass
<1>7. CASE CheckSignal \/ SelectSignal \/ SelectWatchdog
  <2>1. CASE ~quiet
    BY <1>7, <2>1 DEF CheckSignal, SelectSignal, SelectWatchdog, Goto, QuietInv
  <2>2. CASE quiet
    <3>1. todo = {}
      BY <1>7, <2>2
      DEF CheckSignal, SelectSignal, SelectWatchdog, QuietInv, InPass, PassDone
    <3>2. QED
      BY <1>7, <3>1, QuietStay
      DEF CheckSignal, SelectSignal, SelectWatchdog, Goto, InPass
  <2>3. QED
    BY <2>1, <2>2 DEF TypeOK
<1>8. CASE \/ DockerMoves \/ DockerBack \/ RedisMoves \/ RedisBack
           \/ (\E k \in Keys : Expire(k)) \/ Restart
  BY <1>8
  DEF DockerMoves, DockerBack, RedisMoves, RedisBack, Expire, Restart, QuietInv
<1>9. CASE SystemdOutage \/ SystemdBack \/ DeliverSignal
  BY <1>9, QuietStay DEF SystemdOutage, SystemdBack, DeliverSignal, Outside
<1>10. QED
  BY <1>1, <1>2, <1>3, <1>4, <1>5, <1>6, <1>7, <1>8, <1>9
  DEF Next, Process, Environment

(***************************************************************************)
(* A pass that nothing disturbs serves every key that is wanted, however   *)
(* many names want it, in whatever order, and whatever fails for others.   *)
(***************************************************************************)
THEOREM QuietPassesServe == Spec => []EveryKeyIsServed
<1>1. Init => QuietInv
  BY DEF Init, QuietInv
<1>2. TypeOK /\ QuietInv => EveryKeyIsServed
  <2> SUFFICES ASSUME TypeOK, QuietInv, quiet, redisUp, PassDone,
                      NEW n \in Scope, Wanted(n)
               PROVE  Served(n)
    BY DEF EveryKeyIsServed
  <2>1. InPass /\ pc # "publish"
    BY DEF InPass, PassDone
  <2>2. n \in DOMAIN names /\ todo = {}
    BY <2>1 DEF QuietInv
  <2>3. n # current.name
    BY <2>1, <2>2, NamesAssumption DEF TypeOK, NoPublication
  <2>4. QED
    BY <2>1, <2>2, <2>3 DEF QuietInv, DealtWith
<1>3. QED
  BY <1>1, <1>2, TypeCorrect, QuietStep, PTL DEF Spec

(***************************************************************************)
(* Whose key nobody else wants for something else is served its own entry: *)
(* such a pass registers every wanted, unrivalled name in scope.           *)
(***************************************************************************)
QuietPassRegisters ==
    (quiet /\ redisUp /\ PassDone) =>
        \A n \in Scope : Wanted(n) /\ Unrivalled(n) => Registered(n)

COROLLARY QuietPassesRegister == Spec => []QuietPassRegisters
<1>1. EveryKeyIsServed => QuietPassRegisters
  BY DEF EveryKeyIsServed, QuietPassRegisters, Served, Unrivalled, Registered
<1>2. QED
  BY <1>1, QuietPassesServe, PTL

(***************************************************************************)
(* Nothing stale is written while nothing outside moves, not even by a     *)
(* call to redis of which only the reply is lost: what a pass puts under a *)
(* key is what a name in scope wants there at that moment, and the name is *)
(* an explicit one or its container runs.  All other entries are left to   *)
(* expire (companion.rs:421-429; common.rs:100).                           *)
(***************************************************************************)
NothingStaleIsWritten ==
    [][quiet /\ quiet' =>
        \A k \in Keys :
            redis'[k] # redis[k] =>
                \E n \in Scope :
                    /\ n \in ExplicitNames \/ running(Target[n])
                    /\ Wanted(n) /\ KeyOf(n) = k /\ redis'[k] = Expected(n)]_vars

LEMMA WritesAreWanted ==
    ASSUME TypeOK, QuietInv, quiet, Published \/ PublishFails,
           NEW k \in Keys, redis'[k] # redis[k]
    PROVE  \E n \in Scope : Wanted(n) /\ KeyOf(n) = k /\ redis'[k] = Expected(n)
<1>1. pc = "publish" /\ DOMAIN names = Scope
  BY DEF Published, PublishFails, QuietInv, InPass
<1>2. PICK p \in Scope : InHand(p)
  BY <1>1 DEF QuietInv, InPass
<1>3. current.host = Look(p).host /\ current.specs = Look(p).specs
  BY <1>2 DEF InHand
<1>4. /\ accepts(current.specs, config.expire)
      /\ Write(current.host, current.specs, config.expire)
  <2>1. CASE Published
    BY <2>1 DEF Published, PublishOk
  <2>2. CASE PublishFails
    BY <2>2 DEF PublishFails, PublishErr
  <2>3. QED
    BY <2>1, <2>2
<1>5. Wanted(p)
  BY <1>2, <1>3, <1>4 DEF Wanted, InHand
<1>6. redis' = [redis EXCEPT ![KeyOf(p)] = Expected(p)]
  BY <1>3, <1>4 DEF Write, KeyOf, Expected
<1>7. QED
  BY <1>5, <1>6 DEF TypeOK, PublisherTypeOK

THEOREM QuietPassesTellTheTruth == Spec => NothingStaleIsWritten
<1> USE DEF dockerVars, redisVars, passVars, historyVars
<1>1. Init => QuietInv
  BY DEF Init, QuietInv
<1>2. ASSUME TypeOK, QuietInv, [Next]_vars, quiet, quiet',
             NEW k \in Keys, redis'[k] # redis[k]
      PROVE  \E n \in Scope :
                /\ n \in ExplicitNames \/ running(Target[n])
                /\ Wanted(n) /\ KeyOf(n) = k /\ redis'[k] = Expected(n)
  <2>1. Published \/ PublishFails
    <3>1. CASE UNCHANGED vars \/ Terminated
      BY <1>2, <3>1 DEF vars, Terminated
    <3>2. CASE Process
      BY <1>2, <3>2
      DEF Process, NotifyReady, NotifyReadyFails, Enumerate, EndPass, CheckSignal,
          SelectSignal, SelectRefresh, SelectWatchdog, Shutdown, Goto,
          RefreshContainer, InspectFails, EnvVarMissing, DryRun, Inspected, Skip
    <3>3. CASE Environment /\ ~Terminated
      BY <1>2, <3>3
      DEF Environment, DockerMoves, RedisMoves, SystemdOutage, DockerBack, RedisBack,
          SystemdBack, Expire, DeliverSignal, Crash, Restart, Outside,
          DockerRecovers, RedisRecovers
    <3>4. QED
      BY <1>2, <3>1, <3>2, <3>3 DEF Next
  <2>2. PICK n \in Scope : Wanted(n) /\ KeyOf(n) = k /\ redis'[k] = Expected(n)
    BY <1>2, <2>1, WritesAreWanted
  <2>3. n \in ExplicitNames \/ running(Target[n])
    BY NamesAssumption DEF Scope, Listing
  <2>4. QED
    BY <2>2, <2>3
<1>3. TypeOK /\ QuietInv /\ [Next]_vars =>
        [quiet /\ quiet' =>
            \A k \in Keys :
                redis'[k] # redis[k] =>
                    \E n \in Scope :
                        /\ n \in ExplicitNames \/ running(Target[n])
                        /\ Wanted(n) /\ KeyOf(n) = k /\ redis'[k] = Expected(n)]_vars
  BY <1>2
<1>4. QED
  BY <1>1, <1>3, TypeCorrect, QuietStep, PTL DEF Spec, NothingStaleIsWritten
-----------------------------------------------------------------------------
(* Names that share a key *)

(***************************************************************************)
(* No two containers have one address, and only running ones have any.     *)
(***************************************************************************)
AddressInv ==
    /\ \A c \in Containers : running(c) \/ docker[c].IPAddress = NoAddress
    /\ \A c, d \in Containers :
        c = d \/ docker[c].IPAddress # docker[d].IPAddress
              \/ docker[c].IPAddress = NoAddress

(* A container that gets a free address gets one that no other has.        *)
LEMMA FreshAddress ==
    ASSUME InspectorTypeOK, AddressInv, NEW c \in Containers,
           NEW new \in ContainerState,
           new.IPAddress = NoAddress \/ new.status = "running",
           new.IPAddress \in FreeAddresses,
           docker' = [docker EXCEPT ![c] = new]
    PROVE  AddressInv'
<1>1. /\ docker'[c] = new
      /\ \A d \in Containers : d # c => docker'[d] = docker[d]
  BY DEF InspectorTypeOK
<1>2. \A d \in Containers : d # c =>
        new.IPAddress = NoAddress \/ new.IPAddress # docker[d].IPAddress
  BY DEF AddressInv, FreeAddresses
<1>3. \A d \in Containers : running(d)' \/ docker'[d].IPAddress = NoAddress
  BY <1>1 DEF AddressInv, running
<1>4. \A d, e \in Containers :
        d = e \/ docker'[d].IPAddress # docker'[e].IPAddress
              \/ docker'[d].IPAddress = NoAddress
  BY <1>1, <1>2 DEF AddressInv
<1>5. QED
  BY <1>3, <1>4 DEF AddressInv

LEMMA AddressStep == TypeOK /\ AddressInv /\ [Next]_vars => AddressInv'
<1> SUFFICES ASSUME TypeOK, AddressInv, [Next]_vars PROVE AddressInv'
  OBVIOUS
<1> USE DEF dockerVars
<1>1. ASSUME UNCHANGED docker PROVE AddressInv'
  BY <1>1 DEF AddressInv, running
<1>2. ASSUME DockerChange PROVE AddressInv'
  <2>1. PICK c \in Containers :
          \/ CreateContainer(c) \/ StartContainer(c)
          \/ StopContainer(c) \/ RemoveContainer(c)
    BY <1>2 DEF DockerChange
  <2>2. /\ InspectorTypeOK /\ docker[c].env \in EnvVar
        /\ FreeAddresses \subseteq Addresses \cup {NoAddress}
        /\ NoAddress \in FreeAddresses
    BY DEF TypeOK, InspectorTypeOK, ContainerState, FreeAddresses
  <2>3. CASE CreateContainer(c) \/ StartContainer(c)
    <3>1. PICK a \in FreeAddresses, e \in EnvVar :
            docker' = [docker EXCEPT ![c] =
                          [status |-> "running", IPAddress |-> a, env |-> e]]
      BY <2>2, <2>3 DEF CreateContainer, StartContainer
    <3> DEFINE new == [status |-> "running", IPAddress |-> a, env |-> e]
    <3>2. /\ new \in ContainerState /\ new.status = "running"
          /\ new.IPAddress \in FreeAddresses
      BY <2>2 DEF ContainerState
    <3> HIDE DEF new
    <3>3. docker' = [docker EXCEPT ![c] = new]
      BY <3>1 DEF new
    <3>4. QED
      BY <2>2, <3>2, <3>3, FreshAddress
  <2>4. CASE StopContainer(c) \/ RemoveContainer(c)
    <3>1. PICK new \in ContainerState :
            new.IPAddress = NoAddress /\ docker' = [docker EXCEPT ![c] = new]
      <4>1. CASE StopContainer(c)
        <5> DEFINE new == [status |-> "stopped", IPAddress |-> NoAddress,
                           env |-> docker[c].env]
        <5>1. docker' = [docker EXCEPT ![c] = new] /\ new \in ContainerState
          BY <2>2, <4>1 DEF StopContainer, ContainerState
        <5>2. QED
          BY <5>1
      <4>2. CASE RemoveContainer(c)
        <5>1. Absent \in ContainerState /\ Absent.IPAddress = NoAddress
          BY DEF Absent, ContainerState, EnvVar
        <5>2. QED
          BY <4>2, <5>1 DEF RemoveContainer
      <4>3. QED
        BY <2>4, <4>1, <4>2
    <3>2. QED
      BY <2>2, <3>1, FreshAddress
  <2>5. QED
    BY <2>1, <2>3, <2>4
<1>3. CASE DockerMoves
  BY <1>1, <1>2, <1>3 DEF DockerMoves, DockerOutage
<1>4. CASE Process
  BY <1>1, <1>4
  DEF Process, NotifyReady, NotifyReadyFails, Enumerate, RefreshContainer, InspectFails,
      EnvVarMissing, DryRun, Inspected, Skip, Published, PublishFails, EndPass,
      CheckSignal, SelectSignal, SelectRefresh, SelectWatchdog, Shutdown, Goto
<1>5. CASE UNCHANGED vars \/ (Environment /\ ~DockerMoves)
  BY <1>1, <1>5
  DEF vars, Environment, RedisMoves, SystemdOutage, DockerBack, DockerRecovers,
      RedisBack, SystemdBack, Expire, DeliverSignal, Crash, Restart, Terminated
<1>6. QED
  BY <1>3, <1>4, <1>5 DEF Next

(***************************************************************************)
(* Who has a host has it to itself, and with it the key.                   *)
(***************************************************************************)
LEMMA AddressedIsUnrivalled ==
    ASSUME TypeOK, AddressInv, NEW n \in Scope, Wanted(n), Look(n).host # NoAddress
    PROVE  Unrivalled(n)
<1> SUFFICES ASSUME NEW m \in Scope, Wanted(m), KeyOf(m) = KeyOf(n)
             PROVE  Expected(m) = Expected(n)
  BY DEF Unrivalled
<1>1. m \in Names /\ n \in Names
  BY ListingType, NamesAssumption DEF Scope
<1>2. Look(m).host = Look(n).host
  BY DEF KeyOf, service_key
<1>3. /\ Target[m] \in Containers /\ Target[n] \in Containers
  BY <1>1, NamesAssumption
<1>4. CASE config.docker_network
  BY <1>2, <1>4 DEF Wanted, Look, inspect, InspectionError
<1>5. CASE ~config.docker_network
  <2>1. /\ Look(m).host = docker[Target[m]].IPAddress
        /\ Look(n).host = docker[Target[n]].IPAddress
    BY <1>5 DEF Wanted, Look, inspect, InspectionError
  <2>2. Target[m] = Target[n]
    BY <1>2, <1>3, <2>1 DEF AddressInv
  <2>3. Look(m) = Look(n)
    BY <1>5, <2>2 DEF Look, inspect
  <2>4. QED
    BY <2>3 DEF Expected
<1>6. QED
  BY <1>4, <1>5

(***************************************************************************)
(* AddressedGetRegistered for every number of containers: an undisturbed   *)
(* pass registers everybody who has a host, so in a docker network it      *)
(* registers everybody, and nobody displaces anybody.                      *)
(***************************************************************************)
THEOREM NobodyIsDisplaced == Spec => []AddressedGetRegistered
<1>1. Init => AddressInv
  BY DEF Init, InspectorInit, AddressInv, ContainerState, running, Absent
<1>2. TypeOK /\ AddressInv /\ QuietPassRegisters => AddressedGetRegistered
  BY AddressedIsUnrivalled DEF QuietPassRegisters, AddressedGetRegistered
<1>3. QED
  BY <1>1, <1>2, TypeCorrect, QuietPassesRegister, AddressStep, PTL DEF Spec
=============================================================================
