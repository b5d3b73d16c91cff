------------------------------ MODULE Document ------------------------------
(***************************************************************************)
(* The JSON document about one container (src/src/publisher/               *)
(* json_serializer.rs).  An object is the function from its fields to      *)
(* their values; the encoding into text is rustc_serialize's and is left   *)
(* out.                                                                    *)
(***************************************************************************)
EXTENDS Sequences, Naturals

CONSTANTS
    NoPort,         \* the missing port of a specification
    IdOf            \* IdOf[d]: d with an underscore for all but word characters

Protocols == {"http", "https"}

Port(spec, protocol) ==
    IF protocol = "http" THEN spec.http_port ELSE spec.https_port

spec_id(spec) == IdOf[spec.domain_name]

backend_setup(host, port) == [host |-> host, port |-> port]

(* A protocol without a port has no field: svc_config leaves it out.       *)
domain_config(container_host, spec) ==
    [field \in {"id", "domain"} \cup {p \in Protocols : Port(spec, p) # NoPort} |->
        CASE field = "id" -> spec_id(spec)
          [] field = "domain" -> spec.domain_name
          [] OTHER -> backend_setup(container_host, Port(spec, field))]

domain_configs(container_host, specs) ==
    [i \in DOMAIN specs |-> domain_config(container_host, specs[i])]

-----------------------------------------------------------------------------
(* What a reader of the document learns from one of its objects.           *)

PortIn(config, protocol) ==
    IF protocol \in DOMAIN config THEN config[protocol].port ELSE NoPort

SpecIn(config) ==
    [domain_name |-> config["domain"],
     http_port |-> PortIn(config, "http"), https_port |-> PortIn(config, "https")]

HostsIn(config) == {config[p].host : p \in Protocols \cap DOMAIN config}
=============================================================================
