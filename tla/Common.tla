------------------------------- MODULE Common -------------------------------
(***************************************************************************)
(* Vocabulary shared by the modules of beachhead-companion: the names and  *)
(* containers it is asked to look after, the hosts and domain lists it     *)
(* publishes, and its configuration (src/src/common.rs, struct Config).    *)
(*                                                                         *)
(* Domain lists are sequences of opaque domains.  Numbers in the           *)
(* configuration appear here only as "is it set" flags: what the pass loop *)
(* does depends on refresh_seconds and expire_seconds being Some or None,  *)
(* never on their amounts.                                                 *)
(***************************************************************************)
EXTENDS Naturals, Sequences, FiniteSets

CONSTANTS
    Names,          \* strings that can denote a container: names and ids
    ExplicitNames,  \* the names listed on the command line
    Containers,     \* the containers docker may know of
    Target,         \* Target[n]: the container that docker resolves n to
    ListedName,     \* ListedName[c]: the name "list containers" reports for c
    NoName,         \* not a name: the subject of errors about no container
    Addresses,      \* bridge-network addresses docker can assign
    NoAddress,      \* the empty NetworkSettings.IPAddress
    Domains,        \* opaque domain specifications
    SpecLists,      \* the domain lists an environment variable can parse to
    KeyPrefix,      \* Config.key_prefix
    Configs         \* the configurations under consideration

MissingEnvVarHandling == {"Automatic", "Report", "Ignore"}
MissingContainerHandling == {"Report", "Ignore"}

(***************************************************************************)
(* refresh and expire stand for refresh_seconds.is_some() and              *)
(* expire_seconds.is_some(), watchdog for watchdog_microseconds.is_some(). *)
(***************************************************************************)
Config ==
    [enumerate : BOOLEAN, docker_network : BOOLEAN, dry_run : BOOLEAN,
     missing_envvar : MissingEnvVarHandling,
     missing_container : MissingContainerHandling,
     refresh : BOOLEAN, expire : BOOLEAN,
     systemd : BOOLEAN, watchdog : BOOLEAN]

Hosts == Names \cup Addresses \cup {NoAddress}

ASSUME NamesAssumption ==
    /\ ExplicitNames \subseteq Names
    /\ Target \in [Names -> Containers]
    /\ ListedName \in [Containers -> Names]
    /\ \A c \in Containers : Target[ListedName[c]] = c
    /\ NoName \notin Names

(* There are finitely many: docker's answer and the command line end.      *)
ASSUME FiniteAssumption == IsFiniteSet(Names)

ASSUME DataAssumption ==
    /\ SpecLists \subseteq Seq(Domains)
    /\ <<>> \in SpecLists
    /\ NoAddress \notin Addresses
    /\ Configs \subseteq Config
=============================================================================
