------------------------------ MODULE Refresh ------------------------------
(***************************************************************************)
(* What the pass loop of src/src/companion.rs decides by itself, without   *)
(* asking anybody: which names a pass is about, and how it judges what an  *)
(* inspection returned.  The operators take everything as parameters, for  *)
(* the companion itself and for the bench on which its unit tests run it.  *)
(***************************************************************************)

(* Mutants: enumeration replaces the explicit names, or takes their flag.  *)
container_index_enumerated(explicit, enumerated) ==
    [n \in enumerated |-> n \in explicit]
container_index_overwritten(explicit, enumerated) ==
    [n \in explicit \cup enumerated |-> n \notin enumerated]

(* Every name once, with whether it was listed explicitly: an explicit     *)
(* name stays explicit when it is enumerated too.                          *)
container_index(explicit, enumerated) ==
    [n \in explicit \cup enumerated |-> n \in explicit]

InspectFailureLevel(config, was_explicit) ==
    IF config.missing_container = "Report" THEN "Error"
    ELSE IF was_explicit THEN "Warn" ELSE "Info"

(* Mutant: the explicit flag forgotten where the error is kept. *)
ConsiderError_reported(config, was_explicit) ==
    config.missing_container = "Report"

(* An explicit container that cannot be inspected is an error even when    *)
(* missing containers are to be ignored.                                   *)
ConsiderError(config, was_explicit) ==
    config.missing_container = "Report" \/ was_explicit

(* Mutant: a missing variable is always expected of an explicit container. *)
EnvVarExpected_explicit(config, was_explicit) ==
    config.missing_envvar = "Report" \/ was_explicit

EnvVarExpected(config, was_explicit) ==
    \/ config.missing_envvar = "Report"
    \/ config.missing_envvar = "Automatic" /\ was_explicit
=============================================================================
