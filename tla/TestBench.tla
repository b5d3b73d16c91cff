----------------------------- MODULE TestBench -----------------------------
(***************************************************************************)
(* The bench on which the unit tests of src/src/companion.rs run it: a     *)
(* Context whose Inspect and Publish are the test doubles (mock_inspector, *)
(* mock_publisher) in place of docker and redis.  A test gives the doubles *)
(* their answers, makes one of the calls enumerate, refresh_container (for *)
(* each pending name, in any order) and wait, and looks at what came out;  *)
(* no test drives run, which is the subject of Companion.  A bench that    *)
(* makes all three calls has a whole pass before it.                       *)
(***************************************************************************)
EXTENDS Refresh, Naturals, Sequences, FiniteSets

CONSTANTS
    Names,      \* container names
    HostOf,     \* HostOf[n]: the host the mock inspector reports for n
    Specs,      \* domain specifications
    Fixtures    \* what a test can be given

(* Of the rest no call on the bench takes notice. *)
DefaultConfig ==
    [enumerate |-> FALSE, dry_run |-> FALSE, refresh |-> TRUE,
     missing_envvar |-> "Automatic", missing_container |-> "Ignore"]

(* What inspect_results holds for a name: one of the two kinds of failure, *)
(* the second for want of an entry, or an inspection.                      *)
Answers ==
    [error : {"FakeError", "InspectionNotMocked"}]
        \cup [envvar_present : BOOLEAN, specs : Seq(Specs)]

Failed(answer) == "error" \in DOMAIN answer

Calls == {"enumerate", "refresh", "wait"}

(* What the types of the code let a test set up.                           *)
IsFixture(f) ==
    /\ f.config \in
        [enumerate : BOOLEAN, dry_run : BOOLEAN, refresh : BOOLEAN,
         missing_envvar : {"Report", "Ignore", "Automatic"},
         missing_container : {"Report", "Ignore"}]
    /\ f.calls \subseteq Calls
    /\ f.explicit \subseteq Names
    /\ DOMAIN f.pending \subseteq Names
    /\ f.pending \in [DOMAIN f.pending -> BOOLEAN]
    /\ f.enumerate_result \in [names : SUBSET Names] \cup [error : {"FakeError"}]
    /\ DOMAIN f.inspect_results \subseteq Names
    /\ f.inspect_results \in [DOMAIN f.inspect_results -> Answers]

ASSUME NamesAssumption == IsFiniteSet(Names)
ASSUME FixturesAssumption == \A f \in Fixtures : IsFixture(f)

VARIABLES
    given,          \* the test's GIVEN
    calls,          \* the calls of its WHEN that are still to come
    pendings,       \* name |-> explicit: what enumerate returned
    todo,           \* the pending names to be refreshed
    errors,         \* the errors pushed, with the error each is wrapped around
    publications,   \* what the mock publisher has recorded
    do_continue     \* what wait returned

vars == <<given, calls, pendings, todo, errors, publications, do_continue>>

(* An error with what it is wrapped around.                                *)
CompanionError ==
    [kind : {"Inspection"}, inner : {"FakeError", "InspectionNotMocked"}]
        \cup [kind : {"Publishing"}, inner : {"MockError"}]
        \cup [kind : {"EnvVarMissing"}, inner : {""}]

TypeOK ==
    /\ given \in Fixtures
    /\ calls \subseteq Calls
    /\ pendings \in [DOMAIN pendings -> BOOLEAN]
    /\ todo \subseteq DOMAIN pendings /\ DOMAIN pendings \subseteq Names
    /\ errors \in Seq(CompanionError)
    /\ publications \in
        Seq([host : {HostOf[n] : n \in Names}, specs : Seq(Specs)])
    /\ do_continue \in BOOLEAN

Init ==
    /\ given \in Fixtures
    /\ calls = given.calls
    /\ pendings = given.pending
    /\ todo = DOMAIN given.pending
    /\ errors = <<>>
    /\ publications = <<>>
    /\ do_continue = FALSE

-----------------------------------------------------------------------------
(* The test doubles *)

mock_enumerate == given.enumerate_result

mock_inspect(n) ==
    IF n \in DOMAIN given.inspect_results THEN given.inspect_results[n]
    ELSE [error |-> "InspectionNotMocked"]

(* A publication with a domain that contains the trigger is refused, and   *)
(* then it is not recorded.                                                *)
mock_publish(publication) ==
    LET refused == \E i \in DOMAIN publication.specs :
                        publication.specs[i] \in given.error_trigger
    IN  [ok |-> ~refused,
         publications |-> IF refused THEN publications
                          ELSE Append(publications, publication)]

-----------------------------------------------------------------------------
(* The calls *)

(* Mutant: the error is wrapped without its cause. *)
Error_bare(kind, inner) == [kind |-> kind, inner |-> ""]

Error(kind, inner) == [kind |-> kind, inner |-> inner]

enumerate ==
    /\ "enumerate" \in calls
    /\ LET asked == given.config.enumerate
           failed == asked /\ Failed(mock_enumerate)
       IN  /\ pendings' = container_index(given.explicit,
                    IF asked /\ ~failed THEN mock_enumerate.names ELSE {})
           /\ errors' = IF failed THEN <<Error("Inspection", mock_enumerate.error)>>
                        ELSE <<>>
    /\ calls' = calls \ {"enumerate"}
    /\ todo' = IF "refresh" \in calls THEN DOMAIN pendings' ELSE {}
    /\ UNCHANGED <<given, publications, do_continue>>

(* Mutant: a failure of one container is the end of them all.              *)
push_error_and_stop(n, error) ==
    /\ errors' = Append(errors, error)
    /\ todo' = {}

push_error(n, error) ==
    /\ errors' = Append(errors, error)
    /\ todo' = todo \ {n}

InspectionFails(n) ==
    /\ Failed(mock_inspect(n))
    /\ IF ConsiderError(given.config, pendings[n])
       THEN push_error(n, Error("Inspection", mock_inspect(n).error))
       ELSE todo' = todo \ {n} /\ UNCHANGED errors
    /\ UNCHANGED publications

EnvVarMissing(n) ==
    /\ ~Failed(mock_inspect(n)) /\ ~mock_inspect(n).envvar_present
    /\ IF EnvVarExpected(given.config, pendings[n])
       THEN push_error(n, Error("EnvVarMissing", ""))
       ELSE todo' = todo \ {n} /\ UNCHANGED errors
    /\ UNCHANGED publications

DryRun(n) ==
    /\ ~Failed(mock_inspect(n)) /\ mock_inspect(n).envvar_present
    /\ given.config.dry_run
    /\ todo' = todo \ {n}
    /\ UNCHANGED <<errors, publications>>

Publishes(n) ==
    /\ ~Failed(mock_inspect(n)) /\ mock_inspect(n).envvar_present
    /\ ~given.config.dry_run
    /\ LET answer == mock_publish([host |-> HostOf[n],
                                   specs |-> mock_inspect(n).specs])
       IN  /\ publications' = answer.publications
           /\ IF answer.ok THEN todo' = todo \ {n} /\ UNCHANGED errors
              ELSE push_error(n, Error("Publishing", "MockError"))

refresh_container ==
    /\ "enumerate" \notin calls
    /\ \E n \in todo :
        InspectionFails(n) \/ EnvVarMissing(n) \/ DryRun(n) \/ Publishes(n)
    /\ UNCHANGED <<given, calls, pendings, do_continue>>

(* Mutant: the channel is not looked at before waiting. *)
wait_unasked ==
    /\ calls = {"wait"} /\ todo = {}
    /\ do_continue' = given.config.refresh
    /\ calls' = {}
    /\ UNCHANGED <<given, pendings, todo, errors, publications>>

(* A signal that is there already is seen before the timers are.           *)
wait ==
    /\ calls \ {"refresh"} = {"wait"} /\ todo = {}
    /\ do_continue' = (given.config.refresh /\ given.signal = "none")
    /\ calls' = {}
    /\ UNCHANGED <<given, pendings, todo, errors, publications>>

Done == calls \subseteq {"refresh"} /\ todo = {}

Finished == Done /\ UNCHANGED vars

Next == enumerate \/ refresh_container \/ wait \/ Finished

Spec == Init /\ [][Next]_vars

-----------------------------------------------------------------------------
(* Properties *)

Times(x, s) == Cardinality({i \in DOMAIN s : s[i] = x})

(* The outcome for one name, from what was given for it alone.             *)
Willing(n) ==
    /\ ~Failed(mock_inspect(n)) /\ mock_inspect(n).envvar_present
    /\ ~given.config.dry_run
Refused(n) ==
    /\ Willing(n)
    /\ \E i \in DOMAIN mock_inspect(n).specs :
        mock_inspect(n).specs[i] \in given.error_trigger
Unreachable(n) ==
    /\ Failed(mock_inspect(n))
    /\ n \in given.explicit \/ given.config.missing_container = "Report"
Unlabelled(n) ==
    /\ ~Failed(mock_inspect(n)) /\ ~mock_inspect(n).envvar_present
    /\ given.config.missing_envvar
        \in (IF n \in given.explicit THEN {"Report", "Automatic"} ELSE {"Report"})

Blames(e, n) ==
    \/ Unreachable(n) /\ e = Error("Inspection", mock_inspect(n).error)
    \/ Unlabelled(n) /\ e = Error("EnvVarMissing", "")
    \/ Refused(n) /\ e = Error("Publishing", "MockError")

Unlisted == given.config.enumerate /\ Failed(mock_enumerate)
Scope ==
    given.explicit \cup
        IF given.config.enumerate /\ ~Unlisted THEN mock_enumerate.names ELSE {}

Accepted(n) == Willing(n) /\ ~Refused(n)
PublicationOf(n) == [host |-> HostOf[n], specs |-> mock_inspect(n).specs]

(***************************************************************************)
(* A pass is the sum of its containers: whatever the order in which the    *)
(* HashMap yields them, and whatever happens to the others, each listed    *)
(* name adds its own publication, or its own error, exactly once, and an   *)
(* enumeration that fails adds one error and takes no explicit name away.  *)
(***************************************************************************)
PassIsSumOfItsContainers ==
    Done /\ given.calls = Calls =>
        LET accepted == {n \in Scope : Accepted(n)}
        IN  /\ Len(publications) = Cardinality(accepted)
            /\ \A n \in accepted :
                Times(PublicationOf(n), publications) =
                    Cardinality({m \in accepted : PublicationOf(m) = PublicationOf(n)})
            /\ \A e \in CompanionError :
                Times(e, errors) =
                    Cardinality({n \in Scope : Blames(e, n)})
                    + (IF Unlisted /\ e = Error("Inspection", mock_enumerate.error)
                       THEN 1 ELSE 0)
=============================================================================
