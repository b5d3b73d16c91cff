--------------------------- MODULE MCDomainSpec ----------------------------
(***************************************************************************)
(* One line of the variable with up to two domains of up to two parameters *)
(* each, or one domain of three; two short lines of which either may       *)
(* belong to another variable; and the three domains of the unit test      *)
(* complex, the first of them written with a dot at its end.               *)
(***************************************************************************)
EXTENDS DomainSpec

TestNames == {"example.org", "admin.example.org", "www.example.org"}

TestIds ==
    [d \in TestNames |->
        CASE d = "example.org" -> "example_org"
          [] d = "admin.example.org" -> "admin_example_org"
          [] d = "www.example.org" -> "www_example_org"]

(* The name that the unit test chop_off_fqdn_dot is about. *)
TestFqdns == {"example.org."}
TestUndotted == [f \in TestFqdns |-> "example.org"]

(* The defaults, 0, and the ports of the test complex. *)
SomePorts == {0, 80, 443, 8043, 9043}

Values == {0, BadPort, NoValue}
SomeParam == [key : {"http", "https", "unknown"}, value : Values]

Upto(S, n) == UNION {[1..k -> S] : k \in 0..n}

Domain(names, n) == [domain_name : names, params : Upto(SomeParam, n)]
EitherWay == {"example.org", "example.org."}

OneLine ==
    [1..1 -> [envvar : {TRUE}, captures : Upto(Domain({"example.org"}, 2), 2)]]
LongDomain ==
    [1..1 -> [envvar : {TRUE}, captures : [1..1 -> Domain(EitherWay, 3)]]]
TwoLines ==
    [1..2 -> [envvar : BOOLEAN, captures : Upto(Domain(EitherWay, 1), 1)]]

Complex ==
    LET http == [key |-> "http", value |-> NoValue]
        https(port) == [key |-> "https", value |-> port]
    IN  {<<[envvar |-> TRUE, captures |->
              <<[domain_name |-> "example.org.", params |-> <<http, https(8043)>>],
                [domain_name |-> "admin.example.org", params |-> <<https(9043)>>],
                [domain_name |-> "www.example.org", params |-> <<>>]>>]>>}

SmallEnvs == {<<>>} \cup OneLine \cup LongDomain \cup TwoLines \cup Complex
=============================================================================
