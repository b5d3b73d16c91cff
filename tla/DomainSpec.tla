---------------------------- MODULE DomainSpec -----------------------------
(***************************************************************************)
(* How a container's environment becomes its list of domains               *)
(* (src/src/domain_spec.rs, parse_all, and inspector/docker.rs,            *)
(* parse_container_env_vars): line by line, domain by domain, parameter by *)
(* parameter.                                                              *)
(*                                                                         *)
(* The text is taken as the pattern and the splits leave it: a line of the *)
(* right variable is a sequence of domain names with their parameters.     *)
(* What the pattern does not match is not there.                           *)
(***************************************************************************)
EXTENDS Naturals, SequencesExt, Document

CONSTANTS
    DomainNames,    \* domain names, without a dot at the end
    Fqdns,          \* names the pattern accepts with a dot at the end
    Undotted,       \* Undotted[f]: f without that dot
    Ports,          \* values that parse to a port
    BadPort,        \* a value that does not
    NoValue,        \* a parameter without "="
    Hosts,          \* where a container can be
    NoDomain,       \* the name of no specification
    Envs            \* the environments under consideration

Param ==
    [key : {"http", "https", "unknown"},
     value : Ports \cup {BadPort, NoValue}]
Capture == [domain_name : DomainNames \cup Fqdns, params : Seq(Param)]
Line == [envvar : BOOLEAN, captures : Seq(Capture)]
ParsedSpec ==
    [domain_name : DomainNames, http_port : Ports \cup {NoPort},
     https_port : Ports \cup {NoPort}]

u16 == 0 .. 65535

ASSUME PortsAssumption == {80, 443} \subseteq Ports /\ Ports \subseteq u16
ASSUME SentinelsAssumption == NoPort \notin Ports /\ NoDomain \notin DomainNames
(* The pattern has one dot at the end of a name at most. *)
ASSUME NamesAssumption ==
    DomainNames \cap Fqdns = {} /\ Undotted \in [Fqdns -> DomainNames]
ASSUME EnvsAssumption == Envs \subseteq Seq(Line)

NoSpec == [domain_name |-> NoDomain, http_port |-> NoPort, https_port |-> NoPort]

VARIABLES
    env,            \* the container's environment
    lines,          \* what is left of it
    captures,       \* what is left of the line
    params,         \* what is left of the domain's parameters
    spec,           \* the specification being put together
    specs,          \* the finished ones
    envvar_present, \* the variable has been seen
    result          \* "parsing", "ok" or "err"

vars == <<env, lines, captures, params, spec, specs, envvar_present, result>>

TypeOK ==
    /\ env \in Envs
    /\ lines \in Seq(Line)
    /\ captures \in Seq(Capture)
    /\ params \in Seq(Param)
    /\ spec \in ParsedSpec \cup {NoSpec}
    /\ specs \in Seq(ParsedSpec)
    /\ envvar_present \in BOOLEAN
    /\ result \in {"parsing", "ok", "err"}

Init ==
    /\ env \in Envs
    /\ lines = env
    /\ captures = <<>>
    /\ params = <<>>
    /\ spec = NoSpec
    /\ specs = <<>>
    /\ envvar_present = FALSE
    /\ result = "parsing"

-----------------------------------------------------------------------------

(* A line of another variable is passed over. *)
TakeLine ==
    /\ result = "parsing" /\ spec = NoSpec /\ captures = <<>> /\ lines # <<>>
    /\ lines' = Tail(lines)
    /\ IF Head(lines).envvar
       THEN envvar_present' = TRUE /\ captures' = Head(lines).captures
       ELSE UNCHANGED <<envvar_present, captures>>
    /\ UNCHANGED <<env, params, spec, specs, result>>

ChopDot(name) == IF name \in Fqdns THEN Undotted[name] ELSE name

(* Mutant: the name as it was written. *)
TakeCapture_dotted ==
    /\ result = "parsing" /\ spec = NoSpec /\ captures # <<>>
    /\ spec' = [NoSpec EXCEPT !.domain_name = Head(captures).domain_name]
    /\ params' = Head(captures).params
    /\ captures' = Tail(captures)
    /\ UNCHANGED <<env, lines, specs, envvar_present, result>>

TakeCapture ==
    /\ result = "parsing" /\ spec = NoSpec /\ captures # <<>>
    /\ spec' = [NoSpec EXCEPT !.domain_name = ChopDot(Head(captures).domain_name)]
    /\ params' = Head(captures).params
    /\ captures' = Tail(captures)
    /\ UNCHANGED <<env, lines, specs, envvar_present, result>>

AtParam(key) ==
    /\ result = "parsing" /\ spec # NoSpec /\ params # <<>>
    /\ Head(params).key = key

NextParam ==
    /\ params' = Tail(params)
    /\ UNCHANGED <<env, lines, captures, specs, envvar_present, result>>

PortOr(default) ==
    IF Head(params).value = NoValue THEN default ELSE Head(params).value

(* Mutant: "http" alone leaves the port open.                              *)
HttpParam_raw ==
    /\ AtParam("http") /\ Head(params).value # BadPort
    /\ spec' = [spec EXCEPT !.http_port = Head(params).value]
    /\ NextParam

HttpParam ==
    /\ AtParam("http") /\ Head(params).value # BadPort
    /\ spec' = [spec EXCEPT !.http_port = PortOr(80)]
    /\ NextParam

HttpsParam ==
    /\ AtParam("https") /\ Head(params).value # BadPort
    /\ spec' = [spec EXCEPT !.https_port = PortOr(443)]
    /\ NextParam

(* Unknown parameters are for the future, whatever their value.            *)
UnknownParam ==
    /\ AtParam("unknown")
    /\ NextParam
    /\ UNCHANGED spec

(* Mutant: a malformed port is taken for none. *)
BadParam_ignored ==
    /\ AtParam("http") \/ AtParam("https")
    /\ Head(params).value = BadPort
    /\ NextParam
    /\ UNCHANGED spec

BadParam ==
    /\ AtParam("http") \/ AtParam("https")
    /\ Head(params).value = BadPort
    /\ result' = "err"
    /\ UNCHANGED <<env, lines, captures, params, spec, specs, envvar_present>>

(* Mutant: each protocol has its default. *)
WithDefaults_each(s) ==
    [s EXCEPT !.http_port = IF @ = NoPort THEN 80 ELSE @,
              !.https_port = IF @ = NoPort THEN 443 ELSE @]

(* Mutant: no protocol is assumed. *)
WithDefaults_none(s) == s

(* Both are assumed if neither is specified.                               *)
WithDefaults(s) ==
    IF s.http_port = NoPort /\ s.https_port = NoPort
    THEN [s EXCEPT !.http_port = 80, !.https_port = 443] ELSE s

PushSpec ==
    /\ result = "parsing" /\ spec # NoSpec /\ params = <<>>
    /\ specs' = Append(specs, WithDefaults(spec))
    /\ spec' = NoSpec
    /\ UNCHANGED <<env, lines, captures, params, envvar_present, result>>

Finish ==
    /\ result = "parsing" /\ spec = NoSpec /\ captures = <<>> /\ lines = <<>>
    /\ result' = "ok"
    /\ UNCHANGED <<env, lines, captures, params, spec, specs, envvar_present>>

Parsed == result # "parsing" /\ UNCHANGED vars

Next ==
    \/ TakeLine \/ TakeCapture
    \/ HttpParam \/ HttpsParam \/ UnknownParam \/ BadParam
    \/ PushSpec \/ Finish \/ Parsed

Spec == Init /\ [][Next]_vars

-----------------------------------------------------------------------------
(* Properties: the rules of USAGE (main.rs:104-107), without the loop *)

(* All the domains of the variable, however many lines set it.             *)
CapturesOf(line) == IF line.envvar THEN line.captures ELSE <<>>
OfVariable == FlattenSeq([i \in DOMAIN env |-> CapturesOf(env[i])])

Mentions(ps, key) == {i \in DOMAIN ps : ps[i].key = key}

(* The port a capture gives a protocol: that of its last mention.          *)
PortOf(ps, key, default) ==
    LET mentions == Mentions(ps, key)
        neither == Mentions(ps, "http") \cup Mentions(ps, "https") = {}
        last == CHOOSE i \in mentions : \A j \in mentions : j <= i
    IN  IF mentions = {} THEN IF neither THEN default ELSE NoPort
        ELSE IF ps[last].value = NoValue THEN default ELSE ps[last].value

Meaning(capture) ==
    [domain_name |-> ChopDot(capture.domain_name),
     http_port |-> PortOf(capture.params, "http", 80),
     https_port |-> PortOf(capture.params, "https", 443)]

(***************************************************************************)
(* What is parsed is every domain in order, under its name without a dot   *)
(* at the end (domain_spec.rs:71-75), with the ports that USAGE gives it:  *)
(* default ports only for protocols mentioned without one, or for both     *)
(* when neither is mentioned; unknown parameters change nothing.           *)
(***************************************************************************)
ParsesAsDocumented ==
    result = "ok" =>
        /\ specs = [i \in DOMAIN OfVariable |-> Meaning(OfVariable[i])]
        /\ envvar_present <=> \E i \in DOMAIN env : env[i].envvar

(***************************************************************************)
(* One malformed port anywhere fails the inspection of the container, and  *)
(* nothing else does: not an unknown parameter, nor a variable not asked   *)
(* for.  This is the three-way outcome EnvVar of module Inspector.         *)
(***************************************************************************)
FailsIffMalformed ==
    result # "parsing" =>
        (result = "err" <=>
            \E i \in DOMAIN OfVariable :
                \E p \in DOMAIN OfVariable[i].params :
                    /\ OfVariable[i].params[p].key \in {"http", "https"}
                    /\ OfVariable[i].params[p].value = BadPort)

(***************************************************************************)
(* Whoever reads the document published for a container learns from every  *)
(* one of its objects the domain, both its ports and the host: parse_all   *)
(* never leaves a specification without a port, and only under a port does *)
(* domain_config say where the container is.                               *)
(***************************************************************************)
DocumentTellsAll ==
    result = "ok" =>
        \A host \in Hosts :
            LET document == domain_configs(host, specs)
            IN  /\ Len(document) = Len(OfVariable)
                /\ \A i \in DOMAIN document :
                    /\ SpecIn(document[i]) = specs[i]
                    /\ HostsIn(document[i]) = {host}
=============================================================================
