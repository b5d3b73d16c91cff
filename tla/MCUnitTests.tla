---------------------------- MODULE MCUnitTests ----------------------------
(* The names, hosts and specifications of the tests. *)
EXTENDS UnitTests

TestNames == {"alpha", "beta", "gamma", "delta"}
TestHostOf ==
    [n \in TestNames |->
        CASE n = "alpha" -> "alpha.host" [] n = "beta" -> "beta.host"
          [] n = "gamma" -> "gamma.host" [] n = "delta" -> "delta.host"]
TestFixtures == {test.given : test \in Tests} \cup Passes({"alpha", "beta"})
=============================================================================
