----------------------------- MODULE UnitTests -----------------------------
(***************************************************************************)
(* The unit tests of src/src/companion.rs, each as what it is given and    *)
(* what it asserts, under the name of its function; and, beyond them,      *)
(* every whole pass over two containers that the doubles can be set up     *)
(* for.                                                                    *)
(***************************************************************************)
EXTENDS TestBench, TLC

ASSUME {"alpha", "beta", "gamma", "delta"} \subseteq Names
ASSUME {"spec1", "spec2"} \subseteq Specs

(* Doubles and configuration as their Default makes them. *)
Given ==
    [config |-> DefaultConfig, calls |-> {}, explicit |-> {}, pending |-> <<>>,
     enumerate_result |-> [names |-> {}], inspect_results |-> <<>>,
     error_trigger |-> {}, signal |-> "none"]

Found(specs) == [envvar_present |-> TRUE, specs |-> specs]
Unconfigured == [envvar_present |-> FALSE, specs |-> <<>>]
Fake == [error |-> "FakeError"]

(* "domain": it is in the domain name of every specification of the tests. *)
AnyDomain == Specs

(* What a test may assert: what wait returns, what enumerate returns, which *)
(* errors are among those pushed (none at all when it lists none), and      *)
(* which hosts and specifications are published.                            *)
Holds(then) ==
    /\ "do_continue" \in DOMAIN then => do_continue = then.do_continue
    /\ "pendings" \in DOMAIN then => pendings = then.pendings
    /\ "errors" \in DOMAIN then =>
        LET pushed == {errors[i] : i \in DOMAIN errors}
        IN  then.errors \subseteq pushed /\ (then.errors = {} => pushed = {})
    /\ "hosts" \in DOMAIN then =>
        \A i \in DOMAIN publications : publications[i].host \in then.hosts
    /\ "specs" \in DOMAIN then =>
        \A spec \in then.specs :
            \E i \in DOMAIN publications :
                \E k \in DOMAIN publications[i].specs :
                    publications[i].specs[k] = spec

Nothing == [hosts |-> {}]
-----------------------------------------------------------------------------
(* wait *)

empty == [given |-> Given, then |-> <<>>]

Waits(refresh, signal) ==
    [Given EXCEPT !.calls = {"wait"}, !.config.refresh = refresh, !.signal = signal]

wait_oneshot ==
    [given |-> Waits(FALSE, "none"), then |-> [do_continue |-> FALSE]]

wait_terminate_int ==
    [given |-> Waits(TRUE, "INT"), then |-> [do_continue |-> FALSE]]

wait_terminate_term ==
    [given |-> Waits(TRUE, "TERM"), then |-> [do_continue |-> FALSE]]

wait_1_sec ==
    [given |-> Waits(TRUE, "none"), then |-> [do_continue |-> TRUE]]

-----------------------------------------------------------------------------
(* enumerate *)

Enumerates(enumerate_on, explicit, result) ==
    [Given EXCEPT !.calls = {"enumerate"}, !.config.enumerate = enumerate_on,
                  !.explicit = explicit, !.enumerate_result = result]

enumerate_explicit_only ==
    [given |-> Enumerates(FALSE, {"alpha", "beta"}, [names |-> {}]),
     then |-> [errors |-> {}, pendings |-> [n \in {"alpha", "beta"} |-> TRUE]]]

enumerate_implicit_only ==
    [given |-> Enumerates(TRUE, {}, [names |-> {"alpha", "beta"}]),
     then |-> [errors |-> {}, pendings |-> [n \in {"alpha", "beta"} |-> FALSE]]]

enumerate_and_explicit ==
    [given |-> Enumerates(TRUE, {"gamma", "delta"}, [names |-> {"alpha", "beta"}]),
     then |-> [errors |-> {},
               pendings |-> [n \in {"alpha", "beta", "gamma", "delta"} |->
                                n \in {"gamma", "delta"}]]]

enumerate_implicit_fail ==
    [given |-> Enumerates(TRUE, {"alpha", "beta"}, Fake),
     then |-> [errors |-> {Error("Inspection", "FakeError")},
               pendings |-> [n \in {"alpha", "beta"} |-> TRUE]]]

-----------------------------------------------------------------------------
(* refresh_container, called for beta *)

(* Alpha is there to be left alone. *)
Refreshes(explicit, answer) ==
    [Given EXCEPT !.calls = {"refresh"},
                  !.pending = [n \in {"beta"} |-> explicit],
                  !.inspect_results =
                    [n \in {"alpha", "beta"} |->
                        IF n = "beta" THEN answer ELSE Found(<<"spec2">>)]]

refresh_explicit_success ==
    [given |-> [Refreshes(TRUE, Found(<<"spec1", "spec2">>)) EXCEPT
                    !.inspect_results = [n \in {"beta"} |-> @["beta"]]],
     then |-> [errors |-> {}, hosts |-> {"beta.host"}, specs |-> {"spec1", "spec2"}]]

refresh_dry_run ==
    [given |-> [Refreshes(TRUE, Found(<<"spec1">>)) EXCEPT
                    !.config.dry_run = TRUE, !.error_trigger = AnyDomain],
     then |-> [errors |-> {}] @@ Nothing]

refresh_fail_publish ==
    [given |-> [Refreshes(TRUE, Found(<<"spec1">>)) EXCEPT
                    !.error_trigger = AnyDomain],
     then |-> [errors |-> {Error("Publishing", "MockError")}] @@ Nothing]

refresh_fail_envvar_automatic_explicit ==
    [given |-> [Refreshes(TRUE, Unconfigured) EXCEPT
                    !.config.missing_envvar = "Automatic"],
     then |-> [errors |-> {Error("EnvVarMissing", "")}] @@ Nothing]

refresh_fail_envvar_automatic_implicit ==
    [given |-> [Refreshes(FALSE, Unconfigured) EXCEPT
                    !.config.missing_envvar = "Automatic"],
     then |-> [errors |-> {}] @@ Nothing]

refresh_fail_envvar_ignore ==
    [given |-> [Refreshes(TRUE, Unconfigured) EXCEPT
                    !.config.missing_envvar = "Ignore"],
     then |-> [errors |-> {}] @@ Nothing]

refresh_fail_inspect_implicit_report ==
    [given |-> [Refreshes(FALSE, Fake) EXCEPT !.config.missing_container = "Report"],
     then |-> [errors |-> {Error("Inspection", "FakeError")}] @@ Nothing]

refresh_fail_inspect_implicit_ignore ==
    [given |-> [Refreshes(FALSE, Fake) EXCEPT !.config.missing_container = "Ignore"],
     then |-> [errors |-> {}] @@ Nothing]

-----------------------------------------------------------------------------
Tests ==
    {empty, wait_oneshot, wait_terminate_int, wait_terminate_term, wait_1_sec,
     enumerate_explicit_only, enumerate_implicit_only, enumerate_and_explicit,
     enumerate_implicit_fail, refresh_explicit_success, refresh_dry_run,
     refresh_fail_publish, refresh_fail_envvar_automatic_explicit,
     refresh_fail_envvar_automatic_implicit, refresh_fail_envvar_ignore,
     refresh_fail_inspect_implicit_report, refresh_fail_inspect_implicit_ignore}

(* Every whole pass, and the wait after it, over the names Pair.           *)
Passes(Pair) ==
    [config : [enumerate : BOOLEAN, dry_run : BOOLEAN, refresh : {TRUE},
               missing_envvar : {"Report", "Ignore", "Automatic"},
               missing_container : {"Report", "Ignore"}],
     calls : {Calls}, explicit : SUBSET Pair, pending : {<<>>},
     enumerate_result : [names : SUBSET Pair] \cup {Fake},
     inspect_results :
        UNION {[S -> {Found(<<"spec1">>), Found(<<"spec2", "spec1">>),
                      Unconfigured, Fake}] : S \in SUBSET Pair},
     error_trigger : {{}, {"spec2"}}, signal : {"none", "TERM"}]

(***************************************************************************)
(* The model passes the unit tests of the code: what each of them asserts  *)
(* of companion.rs with the doubles is so of the bench, whatever the order *)
(* of its steps.                                                           *)
(***************************************************************************)
TestsHold == Done => \A test \in Tests : given = test.given => Holds(test.then)
=============================================================================
