---------------------------- MODULE MCCompanion ----------------------------
(***************************************************************************)
(* Instances of Companion for TLC: two containers a and b, known to docker *)
(* by one name each, and the configurations each run is about.             *)
(***************************************************************************)
EXTENDS Companion

CONSTANTS a, b, ip1, d1, d2

MCTarget == [n \in Names |-> n]
MCListedName == [c \in Containers |-> c]

NoLists == {<<>>, <<d1>>}
OneOrTwo == {<<>>, <<d1>>, <<d1, d2>>}

(* A supervised daemon with the defaults of main.rs. *)
Daemon ==
    [enumerate |-> TRUE, docker_network |-> FALSE, dry_run |-> FALSE,
     missing_envvar |-> "Automatic", missing_container |-> "Ignore",
     refresh |-> TRUE, expire |-> TRUE, systemd |-> TRUE, watchdog |-> TRUE]

Daemons == {Daemon}
NetworkDaemons == {[Daemon EXCEPT !.docker_network = TRUE]}
EveryDaemon == {Daemon, [Daemon EXCEPT !.docker_network = TRUE]}

(* Run-once companions under every error-handling policy, and a dry run. *)
Policies ==
    {c \in Config :
        /\ ~c.refresh /\ ~c.systemd /\ ~c.watchdog
        /\ c.docker_network /\ c.expire
        /\ c.dry_run => /\ c.enumerate
                        /\ c.missing_envvar = "Automatic"
                        /\ c.missing_container = "Ignore"}

(* The same without an expiration, whose publications redis may refuse. *)
OneShotForGood ==
    [Daemon EXCEPT !.refresh = FALSE, !.systemd = FALSE, !.watchdog = FALSE,
                   !.expire = FALSE]

DaemonsAndPolicies == EveryDaemon \cup Policies \cup {OneShotForGood}

(* A daemon and a run-once companion, both supervised by systemd. *)
Services == {Daemon, [Daemon EXCEPT !.refresh = FALSE]}

OneShot == {[Daemon EXCEPT !.refresh = FALSE, !.systemd = FALSE,
                           !.watchdog = FALSE]}
NoExpire == {[Daemon EXCEPT !.expire = FALSE]}
=============================================================================
