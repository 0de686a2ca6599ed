-------------------------- MODULE MCRouteDispatch --------------------------
(* Instances of RouteDispatch for TLC.  The consumers are those of           *)
(* cli/examples/routing.rs with the Worklane consumer registered for          *)
(* worklane_job, one kind for each implementation and one kind without any;   *)
(* the rules are a subset of default_rules.                                   *)
EXTENDS RouteDispatch

CONSTANTS a, b, r1, r2

TwoRequests == (r1 :> <<a, b>>) @@ (r2 :> <<b>>)

MCRules ==
    << [intent |-> "decision", target |-> "agent"],
       [intent |-> "proposal", target |-> "github"],
       [intent |-> "task", target |-> "worklane_job"] >>

MCConsumerOf ==
    [human |-> "recording", agent |-> "none",
     github |-> "github", worklane_job |-> "worklane"]

\* A task, a proposal, and an intent that has no rule.
MCProjections ==
    {[intent |-> i, sure |-> TRUE] : i \in {"task", "proposal", "social"}}

\* A task with and without confidence, and a target without a consumer.
LoneProjections ==
    {[intent |-> "task", sure |-> TRUE], [intent |-> "task", sure |-> FALSE],
     [intent |-> "decision", sure |-> TRUE]}
=============================================================================
