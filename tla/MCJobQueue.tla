---------------------------- MODULE MCJobQueue ----------------------------
\* Invocations of the command line that agree, disagree and fail.
EXTENDS JobQueue

CONSTANT p1

Bare ==
  [flag |-> [strategy |-> Unset, provider |-> Unset, broker |-> Unset,
             queue_db |-> Unset, queue_url |-> Unset],
   env |-> [WORKLANE_URL |-> Unset, DATABASE_URL |-> Unset, REDIS_URL |-> Unset,
            space |-> Unset, max_deliveries |-> Unset],
   config |-> [strategy |-> Unset, provider |-> Unset, broker |-> Unset,
               queue_db |-> Unset, queue_url |-> Unset, space |-> Unset,
               max_deliveries |-> Unset, dead_letter_max_count |-> Unset]]

Deployed == [Bare EXCEPT !.config.broker = "postgres", !.env.DATABASE_URL = "db"]
Other ==
  [Bare EXCEPT !.flag.broker = "postgres", !.flag.queue_url = "db",
               !.env.WORKLANE_URL = "other", !.flag.strategy = "nope",
               !.config.provider = "ollama", !.env.max_deliveries = 1]

\* Two that meet in one database by different settings, with different projectors
\* and backstops, and one of them with an unknown strategy; one with the strategy that
\* derives nothing; three that fail.
MCInvocation ==
  { Deployed, Other,
    [Deployed EXCEPT !.flag.strategy = "empty"],
    [Deployed EXCEPT !.flag.broker = "redis"],
    [Bare EXCEPT !.env.max_deliveries = Malformed],
    [Bare EXCEPT !.config = Invalid] }

\* One worker is started in any way, the other always with the model.
MCShell == [p \in Process |-> IF p = p1 THEN MCInvocation ELSE {Other}]

MCStrategies == {"projection", "empty"}

=============================================================================
