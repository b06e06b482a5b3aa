----------------------------- MODULE MCHarness -----------------------------
(* Instances of Harness for TLC. *)
EXTENDS Harness

MCSettings == {[max |-> 0, failFast |-> TRUE], [max |-> 2, failFast |-> TRUE],
               [max |-> 1, failFast |-> FALSE]}

MCPlans ==
  {[modules |-> <<>>, suiteAlias |-> "job"],
   [modules |-> <<"discovery", "discovery">>, suiteAlias |-> "job"],
   [modules |-> <<"full_flow">>, suiteAlias |-> "job"],
   [modules |-> <<"negative">>, suiteAlias |-> "suite"]}

\* One result that moduleFailed accepts, and one that it does not.
MCOutcomes == {"SKIPPED", "FAILED"}
=============================================================================
