--------------------------- MODULE ContractProofs ---------------------------
(***************************************************************************)
(* The companion implements the contract of Registry, for all constants.   *)
(* The refinement mapping is the one of Companion: the world is what       *)
(* inspections would find, the hand is the publication between inspect and *)
(* publish.                                                                *)
(***************************************************************************)
EXTENDS CompanionProofs

(* Whatever docker holds, what it offers are entries for slots. *)
LEMMA WorldType == TypeOK => World \in SUBSET Contract!Offers
<1> SUFFICES ASSUME TypeOK, NEW n \in Names PROVE Offer(n) \in Contract!Offers
  BY DEF World
<1>1. config.docker_network \in BOOLEAN /\ config.expire \in BOOLEAN
  BY DataAssumption DEF TypeOK, Config
<1>2. Look(n) \in Inspection
  BY <1>1, InspectType DEF Look, TypeOK
<1>3. KeyOf(n) \in Keys /\ Expected(n) \in Entry
  BY <1>1, <1>2 DEF KeyOf, Keys, Expected, EntryFor, Entry, Inspection
<1>4. QED
  BY <1>3 DEF Offer, Contract!Offers

(* The world changes only with docker. *)
LEMMA SameWorld ==
    ASSUME UNCHANGED <<docker, dockerUp, config>>
    PROVE  World' = World
<1>1. \A n : Offer(n)' = Offer(n) /\ (Offered(n)' <=> Offered(n))
  BY SameLook DEF Offer, Offered
<1>2. QED
  BY <1>1 DEF World

(* A name that is refreshed is skipped, or looked at and taken in hand. *)
LEMMA RefreshKeepsContract ==
    ASSUME TypeOK, pc = "refresh", NEW n \in todo,
           InspectFails(n) \/ EnvVarMissing(n) \/ DryRun(n) \/ Inspected(n)
    PROVE  UNCHANGED Contract!vars \/ Contract!Look
<1> USE DEF dockerVars, redisVars, historyVars
<1>1. n \in Names
  BY DEF TypeOK
<1>2. UNCHANGED <<docker, dockerUp, config, redis>> /\ Hand = {}
  BY DEF InspectFails, EnvVarMissing, DryRun, Skip, Inspected, Hand
<1>3. World' = World
  BY <1>2, SameWorld
<1>4. CASE InspectFails(n) \/ EnvVarMissing(n) \/ DryRun(n)
  <2>1. Hand' = {}
    BY <1>4 DEF InspectFails, EnvVarMissing, DryRun, Skip, Hand
  <2>2. QED
    BY <1>2, <1>3, <2>1 DEF Contract!vars
<1>5. CASE Inspected(n)
  <2>1. Offer(n) \in World
    BY <1>1, <1>5 DEF World, Offered, Look, Inspected
  <2>2. Hand' = {Offer(n)}
    BY <1>2, <1>5 DEF Inspected, Hand, Offer, KeyOf, Expected, Look
  <2>3. QED
    BY <1>2, <1>3, <2>1, <2>2 DEF Contract!Look
<1>6. QED
  BY <1>4, <1>5

(* Calling redis puts what is in hand into its slot, or drops it. *)
LEMMA PublishKeepsContract ==
    ASSUME TypeOK, Published \/ PublishFails
    PROVE  Contract!Put \/ Contract!Drop
<1> USE DEF dockerVars, historyVars
<1> DEFINE offer == [slot |-> service_key(current.host),
                     entry |-> EntryFor(current.host, current.specs, config.expire)]
<1>1. /\ UNCHANGED <<docker, dockerUp, config>>
      /\ Hand = {offer} /\ Hand' = {}
  BY DEF Published, PublishFails, Hand
<1>2. World' = World
  BY <1>1, SameWorld
<1>3. \/ redis' = [redis EXCEPT ![offer.slot] = offer.entry]
      \/ redis' = redis
  BY DEF Published, PublishFails, PublishOk, PublishErr, Write
<1> HIDE DEF offer
<1>4. QED
  BY <1>1, <1>2, <1>3 DEF Contract!Put, Contract!Drop

(***************************************************************************)
(* Every step of the companion and of its surroundings is a step of the    *)
(* contract or none.                                                       *)
(***************************************************************************)
LEMMA ContractStep ==
    TypeOK /\ TypeOK' /\ [Next]_vars => [Contract!Next]_(Contract!vars)
<1> SUFFICES ASSUME TypeOK, TypeOK', [Next]_vars
             PROVE  Contract!Next \/ UNCHANGED Contract!vars
  OBVIOUS
<1> USE DEF dockerVars, redisVars, passVars, historyVars
<1>1. ASSUME UNCHANGED <<docker, dockerUp, config, redis>>, Hand' = Hand
      PROVE  UNCHANGED Contract!vars
  BY <1>1, SameWorld DEF Contract!vars
<1>2. CASE UNCHANGED vars \/ Terminated
  BY <1>1, <1>2 DEF vars, processVars, Terminated, Hand
<1>3. CASE \/ NotifyReady \/ NotifyReadyFails \/ Enumerate \/ EndPass
           \/ CheckSignal \/ SelectSignal \/ SelectRefresh \/ SelectWatchdog
           \/ Shutdown \/ Restart
  BY <1>1, <1>3
  DEF NotifyReady, NotifyReadyFails, Enumerate, EndPass, CheckSignal, SelectSignal,
      SelectRefresh, SelectWatchdog, Shutdown, Restart, Goto, Hand
<1>4. CASE RefreshContainer
  BY <1>4, RefreshKeepsContract DEF RefreshContainer, Contract!Next
<1>5. CASE Published \/ PublishFails
  BY <1>5, PublishKeepsContract DEF Contract!Next
<1>6. CASE DockerMoves \/ DockerBack
  <2>1. UNCHANGED <<redis, pc, current, config>>
    BY <1>6 DEF DockerMoves, DockerBack, Outside
  <2>2. World' \in SUBSET Contract!Offers
    <3>1. (TypeOK => World \in SUBSET Contract!Offers)'
      BY WorldType, PTL
    <3>2. QED
      BY <3>1
  <2>3. QED
    BY <2>1, <2>2 DEF Contract!Next, Contract!WorldMoves, Hand
<1>7. CASE RedisMoves \/ SystemdOutage \/ RedisBack \/ SystemdBack \/ DeliverSignal
  BY <1>1, <1>7
  DEF RedisMoves, RedisOutage, SystemdOutage, RedisBack, RedisRecovers, SystemdBack,
      DeliverSignal, Outside, Hand
<1>8. ASSUME NEW k \in Keys, Expire(k) PROVE Contract!Lapse
  <2>1. UNCHANGED <<docker, dockerUp, config, pc, current>> /\ EntryExpires(k)
    BY <1>8 DEF Expire, Outside
  <2>2. World' = World /\ Hand' = Hand
    BY <2>1, SameWorld DEF Hand
  <2>3. redis[k] \in Entry /\ redis[k].ttl
    BY <2>1 DEF EntryExpires, TypeOK, PublisherTypeOK
  <2>4. QED
    BY <2>1, <2>2, <2>3 DEF EntryExpires, Contract!Lapse
<1>9. CASE Crash
  <2>1. UNCHANGED <<docker, dockerUp, config, redis>> /\ Hand' = {}
    BY <1>9 DEF Crash, Hand
  <2>2. World' = World
    BY <2>1, SameWorld
  <2>3. QED
    BY <2>1, <2>2 DEF Contract!Next, Contract!Drop, Contract!vars
<1>10. QED
  BY <1>2, <1>3, <1>4, <1>5, <1>6, <1>7, <1>8, <1>9
  DEF Next, Process, Environment, Contract!Next

(***************************************************************************)
(* The companion keeps its contract with the consumers of redis.           *)
(***************************************************************************)
THEOREM CompanionKeepsContract == Spec => KeepsContract
<1>1. Init => Contract!Init
  <2> SUFFICES ASSUME Init PROVE Contract!Init
    OBVIOUS
  <2>1. World \in SUBSET Contract!Offers
    BY InitType, WorldType
  <2>2. QED
    BY <2>1 DEF Init, PublisherInit, Hand, Contract!Init
<1>2. QED
  BY <1>1, ContractStep, TypeCorrect, PTL DEF Spec, KeepsContract, Contract!Spec
-----------------------------------------------------------------------------
(* In a docker network the explicit containers take turns.                 *)

(***************************************************************************)
(* What is in hand is about the host that bears its name, whose turn has   *)
(* begun, and all explicit names are names of the pass.                    *)
(***************************************************************************)
OwnHostInv ==
    /\ (config.docker_network /\ pc = "publish") => current.host = current.name
    /\ pc = "publish" => current.name \notin todo
    /\ InPass => ExplicitNames \subseteq DOMAIN names

LEMMA OwnHostStep == TypeOK /\ OwnHostInv /\ [Next]_vars => OwnHostInv'
<1> SUFFICES ASSUME TypeOK, OwnHostInv, [Next]_vars PROVE OwnHostInv'
  OBVIOUS
<1> USE DEF dockerVars, redisVars, passVars, historyVars, OwnHostInv
<1>1. CASE UNCHANGED vars \/ Terminated
  BY <1>1 DEF vars, processVars, Terminated, InPass
<1>2. CASE NotifyReady \/ NotifyReadyFails \/ SelectRefresh \/ Shutdown
           \/ Crash \/ Restart
  BY <1>2
  DEF NotifyReady, NotifyReadyFails, SelectRefresh, Shutdown, Crash, Restart, InPass
<1>3. CASE EndPass \/ CheckSignal \/ SelectSignal \/ SelectWatchdog
  BY <1>3 DEF EndPass, CheckSignal, SelectSignal, SelectWatchdog, Goto, InPass
<1>4. CASE Enumerate
  BY <1>4 DEF Enumerate, container_index, InPass
<1>5. CASE RefreshContainer
  <2>1. PICK n \in todo :
          InspectFails(n) \/ EnvVarMissing(n) \/ DryRun(n) \/ Inspected(n)
    BY <1>5 DEF RefreshContainer
  <2>2. CASE InspectFails(n) \/ EnvVarMissing(n) \/ DryRun(n)
    BY <1>5, <2>2 DEF RefreshContainer, InspectFails, EnvVarMissing, DryRun, Skip, InPass
  <2>3. CASE Inspected(n)
    BY <1>5, <2>3 DEF RefreshContainer, Inspected, inspect, InspectionError, InPass
  <2>4. QED
    BY <2>1, <2>2, <2>3
<1>6. CASE Published \/ PublishFails
  BY <1>6 DEF Published, PublishFails, InPass
<1>7. CASE \/ DockerMoves \/ RedisMoves \/ SystemdOutage
           \/ DockerBack \/ RedisBack \/ SystemdBack
           \/ (\E k \in Keys : Expire(k)) \/ DeliverSignal
  BY <1>7
  DEF DockerMoves, RedisMoves, SystemdOutage, DockerBack, RedisBack, SystemdBack,
      Expire, DeliverSignal, Outside, InPass
<1>8. QED
  BY <1>1, <1>2, <1>3, <1>4, <1>5, <1>6, <1>7 DEF Next, Process, Environment

(* No two hosts share a key, and every name is a host. *)
LEMMA KeysDiffer ==
    /\ \A g, h : service_key(g) = service_key(h) => g = h
    /\ \A n \in Names : service_key(n) \in Keys
BY DEF service_key, Keys, Hosts

(* What the process does between passes and what happens outside leaves    *)
(* turns and entries alone.                                                *)
LEMMA NobodysTurn ==
    ASSUME UNCHANGED <<alive, redis>>,
           \/ UNCHANGED <<pc, todo, current>>
           \/ {pc, pc'} \cap {"refresh", "publish"} = {}
    PROVE  UNCHANGED Rota!vars
<1>1. \A n : Turn(n)' = Turn(n)
  BY DEF Turn
<1>2. pc' \in {"refresh", "publish"} <=> pc \in {"refresh", "publish"}
  OBVIOUS
<1>3. QED
  BY <1>1, <1>2 DEF Rota!vars

(* A name that is refreshed begins or ends its turn. *)
LEMMA RefreshTakesTurns ==
    ASSUME TypeOK, pc = "refresh", NEW n \in todo,
           InspectFails(n) \/ EnvVarMissing(n) \/ DryRun(n) \/ Inspected(n)
    PROVE  Rota!Next \/ UNCHANGED Rota!vars
<1> USE DEF dockerVars, redisVars, historyVars
<1>1. /\ pc' \in {"refresh", "publish"} /\ todo' = todo \ {n} /\ redis' = redis
      /\ \/ current' = current
         \/ pc' = "publish" /\ current'.name = n
  <2>1. CASE InspectFails(n)
    BY <2>1 DEF InspectFails, Skip
  <2>2. CASE EnvVarMissing(n)
    BY <2>2 DEF EnvVarMissing, Skip
  <2>3. CASE DryRun(n)
    BY <2>3 DEF DryRun, Skip
  <2>4. CASE Inspected(n)
    BY <2>4 DEF Inspected
  <2>5. QED
    BY <2>1, <2>2, <2>3, <2>4
<1>2. /\ current.name = NoName /\ n \in Names /\ NoName \notin Names
      /\ ExplicitNames \subseteq Names
  BY NamesAssumption DEF TypeOK, NoPublication
<1>3. \A m \in ExplicitNames : Turn(m) # "inspected" /\ (m # n => Turn(m)' = Turn(m))
  BY <1>1, <1>2 DEF Turn
<1>4. Turn(n) = "todo" /\ Turn(n)' \in {"inspected", "done"}
  BY <1>1, <1>2 DEF Turn
<1>5. alive /\ alive'
  BY <1>1 DEF alive
<1>6. CASE n \in ExplicitNames
  <2>1. [m \in ExplicitNames |-> Turn(m)]'
          = [[m \in ExplicitNames |-> Turn(m)] EXCEPT ![n] = Turn(n)']
    BY <1>3, <1>6
  <2>2. CASE Turn(n)' = "inspected"
    <3>1. Rota!Inspect(n)
      BY <1>1, <1>3, <1>4, <1>5, <1>6, <2>1, <2>2 DEF Rota!Inspect
    <3>2. QED
      BY <1>6, <3>1 DEF Rota!Next
  <2>3. CASE Turn(n)' = "done"
    <3>1. Rota!GoWithout(n)
      BY <1>1, <1>3, <1>4, <1>5, <1>6, <2>1, <2>3 DEF Rota!GoWithout
    <3>2. QED
      BY <1>6, <3>1 DEF Rota!Next
  <2>4. QED
    BY <1>4, <2>2, <2>3
<1>7. CASE n \notin ExplicitNames
  BY <1>1, <1>3, <1>5, <1>7 DEF Rota!vars
<1>8. QED
  BY <1>6, <1>7

(* A call of redis ends the turn of the name in hand, and writes its entry *)
(* or nothing.                                                             *)
LEMMA PublishTakesTurns ==
    ASSUME TypeOK, OwnHostInv, config.docker_network, Published \/ PublishFails
    PROVE  Rota!Next \/ UNCHANGED Rota!vars
<1> USE DEF dockerVars, historyVars
<1> DEFINE held(n) == redis[service_key(n)] # NoEntry
<1>1. /\ pc = "publish" /\ pc' = "refresh" /\ todo' = todo
      /\ current' = NoPublication
  BY DEF Published, PublishFails
<1>2. PICK p \in Names : p = current.name
  BY <1>1 DEF TypeOK, Publication, NoPublication
<1>3. NoName \notin Names /\ ExplicitNames \subseteq Names
  BY NamesAssumption
<1>4. /\ Turn(p) = "inspected" /\ Turn(p)' = "done"
      /\ \A m \in Names : m # p => Turn(m)' = Turn(m)
  BY <1>1, <1>2, <1>3 DEF Turn, OwnHostInv, NoPublication
<1>5. alive /\ alive'
  BY <1>1 DEF alive
<1>6. \/ redis' = redis
      \/ redis' = [redis EXCEPT ![service_key(p)] =
                      EntryFor(p, current.specs, config.expire)]
  BY <1>1, <1>2 DEF Published, PublishFails, PublishOk, PublishErr, Write, OwnHostInv
<1>7. EntryFor(p, current.specs, config.expire) # NoEntry
  BY DEF EntryFor, NoEntry
<1>8. /\ \A m \in Names : m # p => held(m)' = held(m)
      /\ redis' = redis \/ held(p)'
  BY <1>2, <1>6, <1>7, KeysDiffer DEF TypeOK, PublisherTypeOK
<1> HIDE DEF held
<1>9. CASE p \in ExplicitNames
  <2>1. [m \in ExplicitNames |-> Turn(m)]'
          = [[m \in ExplicitNames |-> Turn(m)] EXCEPT ![p] = "done"]
    BY <1>3, <1>4, <1>9
  <2>2. CASE redis' = redis
    <3>1. Rota!GoWithout(p)
      BY <1>1, <1>4, <1>5, <1>9, <2>1, <2>2 DEF Rota!GoWithout
    <3>2. QED
      BY <1>9, <3>1 DEF Rota!Next
  <2>3. CASE held(p)'
    <3>1. [m \in ExplicitNames |-> held(m)]'
            = [[m \in ExplicitNames |-> held(m)] EXCEPT ![p] = TRUE]
      BY <1>3, <1>8, <1>9, <2>3
    <3>2. Rota!Publish(p)
      BY <1>1, <1>4, <1>5, <1>9, <2>1, <3>1 DEF Rota!Publish, held
    <3>3. QED
      BY <1>9, <3>2 DEF Rota!Next
  <2>4. QED
    BY <1>8, <2>2, <2>3
<1>10. CASE p \notin ExplicitNames
  <2>1. \A m \in ExplicitNames : Turn(m)' = Turn(m) /\ held(m)' = held(m)
    BY <1>3, <1>4, <1>8, <1>10
  <2>2. QED
    BY <1>1, <1>5, <2>1 DEF Rota!vars, held
<1>11. QED
  BY <1>9, <1>10

LEMMA RotaStep ==
    ASSUME TypeOK, OwnHostInv, [Next]_vars, config.docker_network
    PROVE  Rota!Next \/ UNCHANGED Rota!vars
<1> USE DEF dockerVars, redisVars, passVars, historyVars
<1> DEFINE outOfPass == pc \notin {"refresh", "publish"}
<1>1. /\ outOfPass => \A n : Turn(n) = "done"
      /\ outOfPass' => \A n : Turn(n)' = "done"
  BY DEF Turn
<1>2. CASE UNCHANGED vars \/ Terminated
  BY <1>2, NobodysTurn DEF vars, processVars, Terminated, alive
<1>3. CASE NotifyReady \/ CheckSignal \/ SelectSignal \/ SelectRefresh \/ SelectWatchdog
  BY <1>3, NobodysTurn
  DEF NotifyReady, CheckSignal, SelectSignal, SelectRefresh, SelectWatchdog, Goto, alive
<1>4. CASE NotifyReadyFails \/ Shutdown \/ Crash
  <2>1. alive /\ ~alive' /\ outOfPass' /\ redis' = redis
    BY <1>4 DEF NotifyReadyFails, Shutdown, Crash, alive
  <2>2. Rota!Die
    BY <1>1, <2>1 DEF Rota!Die, Rota!AllAre
  <2>3. QED
    BY <2>2 DEF Rota!Next
<1>5. CASE Enumerate
  <2>1. /\ pc = "iterate" /\ pc' = "refresh" /\ redis' = redis
        /\ ExplicitNames \subseteq todo'
    BY <1>5 DEF Enumerate, container_index
  <2>2. \A n \in ExplicitNames : Turn(n)' = "todo"
    BY <2>1 DEF Turn
  <2>3. Rota!Begin
    BY <2>1, <2>2 DEF Rota!Begin, Rota!AllAre, alive
  <2>4. QED
    BY <2>3 DEF Rota!Next
<1>6. CASE RefreshContainer
  BY <1>6, RefreshTakesTurns DEF RefreshContainer
<1>7. CASE Published \/ PublishFails
  BY <1>7, PublishTakesTurns
<1>8. CASE EndPass
  <2>1. /\ pc = "refresh" /\ outOfPass' /\ todo = {} /\ redis' = redis
        /\ alive /\ alive'
    BY <1>8 DEF EndPass, Goto, alive
  <2>2. current.name = NoName
    BY <2>1 DEF TypeOK, NoPublication
  <2>3. \A n \in ExplicitNames : Turn(n) = "done"
    BY <2>1, <2>2, NamesAssumption DEF Turn
  <2>4. Rota!End
    BY <1>1, <2>1, <2>3 DEF Rota!End, Rota!AllAre
  <2>5. QED
    BY <2>4 DEF Rota!Next
<1>9. CASE Restart
  <2>1. /\ ~alive /\ alive' /\ outOfPass /\ outOfPass' /\ redis' = redis
    BY <1>9 DEF Restart, alive
  <2>2. Rota!Boot
    BY <1>1, <2>1 DEF Rota!Boot
  <2>3. QED
    BY <2>2 DEF Rota!Next
<1>10. ASSUME NEW k \in Keys, Expire(k) PROVE Rota!Next \/ UNCHANGED Rota!vars
  <2> DEFINE held(n) == redis[service_key(n)] # NoEntry
  <2>1. /\ UNCHANGED <<pc, todo, current>>
        /\ redis' = [redis EXCEPT ![k] = NoEntry] /\ redis[k].ttl
    BY <1>10 DEF Expire, EntryExpires, Outside
  <2>2. /\ \A n : Turn(n)' = Turn(n)
        /\ alive' = alive /\ redis[k] # NoEntry
    BY <2>1 DEF Turn, alive, NoEntry
  <2>3. \A n \in Names :
          /\ service_key(n) = k => held(n) /\ held(n)' = FALSE
          /\ service_key(n) # k => held(n)' = held(n)
    BY <2>1, <2>2, KeysDiffer DEF TypeOK, PublisherTypeOK
  <2> HIDE DEF held
  <2>4. CASE \E n \in ExplicitNames : service_key(n) = k
    <3>1. PICK n \in ExplicitNames : service_key(n) = k
      BY <2>4
    <3>2. \A m \in ExplicitNames : m # n => held(m)' = held(m)
      BY <2>3, <3>1, KeysDiffer, NamesAssumption
    <3>3. held(n) /\ held(n)' = FALSE
      BY <2>3, <3>1, NamesAssumption
    <3>4. [m \in ExplicitNames |-> held(m)]'
            = [[m \in ExplicitNames |-> held(m)] EXCEPT ![n] = FALSE]
      BY <3>1, <3>2, <3>3
    <3>5. Rota!Lapse(n)
      BY <2>1, <2>2, <3>1, <3>3, <3>4 DEF Rota!Lapse, held
    <3>6. QED
      BY <3>1, <3>5 DEF Rota!Next
  <2>5. CASE \A n \in ExplicitNames : service_key(n) # k
    <3>1. \A m \in ExplicitNames : held(m)' = held(m)
      BY <2>3, <2>5, NamesAssumption
    <3>2. QED
      BY <2>1, <2>2, <3>1 DEF Rota!vars, held
  <2>6. QED
    BY <2>4, <2>5
<1>11. CASE \/ DockerMoves \/ RedisMoves \/ SystemdOutage \/ DockerBack
            \/ RedisBack \/ SystemdBack \/ DeliverSignal
  BY <1>11, NobodysTurn
  DEF DockerMoves, RedisMoves, RedisOutage, SystemdOutage, DockerBack, RedisBack,
      RedisRecovers, SystemdBack, DeliverSignal, Outside, alive
<1>12. QED
  BY <1>2, <1>3, <1>4, <1>5, <1>6, <1>7, <1>8, <1>9, <1>10, <1>11
  DEF Next, Process, Environment

(***************************************************************************)
(* In a docker network the explicit containers take turns as Turns has it, *)
(* however many there are and whatever is enumerated besides.              *)
(***************************************************************************)
THEOREM ContainersTakeTurns == Spec => TakesTurns
<1>1. Init => OwnHostInv
  BY DEF Init, OwnHostInv, InPass
<1>2. Init => Rota!Init
  BY DEF Init, Rota!Init, Rota!AllAre, Turn, alive
<1>3. TypeOK /\ OwnHostInv /\ [Next]_vars
        => [config.docker_network => UNCHANGED Rota!vars \/ Rota!Next]_vars
  BY RotaStep
<1>4. QED
  BY <1>1, <1>2, <1>3, TypeCorrect, OwnHostStep, PTL DEF Spec, TakesTurns
=============================================================================
