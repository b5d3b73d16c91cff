----------------------------- MODULE Inspector -----------------------------
(***************************************************************************)
(* The inspector (src/src/inspector/docker.rs) and the docker daemon it    *)
(* asks.  The daemon is external: containers start, stop and are removed,  *)
(* and the daemon can be unreachable, independently of the companion.      *)
(* Listing and inspect are the two queries of the trait Inspect.           *)
(***************************************************************************)
EXTENDS Common

VARIABLES
    docker,     \* what docker knows of each container
    dockerUp    \* whether calls to the docker daemon succeed

dockerVars == <<docker, dockerUp>>

(***************************************************************************)
(* The environment variable of a container is missing, malformed (it does  *)
(* not parse, docker.rs:112) or valid, with the list it parses to.         *)
(***************************************************************************)
EnvVar ==
    [envvar : {"missing", "malformed"}, specs : {<<>>}]
        \cup [envvar : {"valid"}, specs : SpecLists]

ContainerState ==
    [status : {"absent", "stopped", "running"},
     IPAddress : Addresses \cup {NoAddress},
     env : EnvVar]

Absent == [status |-> "absent", IPAddress |-> NoAddress,
           env |-> [envvar |-> "missing", specs |-> <<>>]]

running(c) == docker[c].status = "running"

(* The bridge network never hands one address to two running containers;   *)
(* a container without a bridge endpoint (host networking, another docker  *)
(* network) has the empty address, and so has one that is not running.     *)
FreeAddresses ==
    {NoAddress} \cup {a \in Addresses :
        \A c \in Containers : running(c) => docker[c].IPAddress # a}

InspectorTypeOK ==
    /\ docker \in [Containers -> ContainerState]
    /\ dockerUp \in BOOLEAN

InspectorInit ==
    /\ docker \in [Containers -> ContainerState]
    /\ \A c \in Containers :
        /\ docker[c].status = "absent" => docker[c] = Absent
        /\ docker[c].status = "stopped" => docker[c].IPAddress = NoAddress
    /\ \A c, d \in Containers :
        (c # d /\ docker[c].IPAddress = docker[d].IPAddress)
            => docker[c].IPAddress = NoAddress
    /\ dockerUp = TRUE

-----------------------------------------------------------------------------
(* DockerInspector *)

(* What enumerate pushes: one name for every running container.            *)
Listing == {ListedName[c] : c \in {c \in Containers : running(c)}}

Inspection ==
    [ok : BOOLEAN, envvar_present : BOOLEAN, host : Hosts, specs : SpecLists]

InspectionError ==
    [ok |-> FALSE, envvar_present |-> FALSE, host |-> NoAddress, specs |-> <<>>]

(* The running state of the container is not looked at: a stopped          *)
(* container is inspected like a running one.                              *)
inspect(name, docker_network) ==
    LET c == docker[Target[name]]
    IN  IF \/ ~dockerUp
           \/ c.status = "absent"
           \/ c.env.envvar = "malformed"
        THEN InspectionError
        ELSE [ok |-> TRUE,
              envvar_present |-> c.env.envvar = "valid",
              host |-> IF docker_network THEN name ELSE c.IPAddress,
              specs |-> c.env.specs]

-----------------------------------------------------------------------------
(* The docker daemon (external) *)

CreateContainer(c) ==
    /\ dockerUp
    /\ docker[c].status = "absent"
    /\ \E a \in FreeAddresses, e \in EnvVar :
        docker' = [docker EXCEPT ![c] =
                      [status |-> "running", IPAddress |-> a, env |-> e]]
    /\ UNCHANGED dockerUp

(* A container's environment is fixed when it is created. *)
StartContainer(c) ==
    /\ dockerUp
    /\ docker[c].status = "stopped"
    /\ \E a \in FreeAddresses :
        docker' = [docker EXCEPT ![c] =
                      [status |-> "running", IPAddress |-> a, env |-> @.env]]
    /\ UNCHANGED dockerUp

StopContainer(c) ==
    /\ dockerUp
    /\ running(c)
    /\ docker' = [docker EXCEPT ![c] =
                     [status |-> "stopped", IPAddress |-> NoAddress,
                      env |-> @.env]]
    /\ UNCHANGED dockerUp

RemoveContainer(c) ==
    /\ dockerUp
    /\ docker[c].status = "stopped"
    /\ docker' = [docker EXCEPT ![c] = Absent]
    /\ UNCHANGED dockerUp

DockerChange ==
    \E c \in Containers :
        CreateContainer(c) \/ StartContainer(c) \/ StopContainer(c)
            \/ RemoveContainer(c)

DockerOutage == dockerUp /\ dockerUp' = FALSE /\ UNCHANGED docker
DockerRecovers == ~dockerUp /\ dockerUp' = TRUE /\ UNCHANGED docker
=============================================================================
