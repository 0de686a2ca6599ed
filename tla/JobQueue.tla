------------------------------ MODULE JobQueue ------------------------------
(***************************************************************************)
(* The strategy-run queue of the command line: `submit` enqueues a job     *)
(* that names a strategy, `work` drains the lane and leaves (main.rs       *)
(* Command::Work, submission.rs StrategyRunJob), `dlq` requeues or purges  *)
(* what was dead-lettered (dead_letters.rs).  Every invocation resolves    *)
(* its own settings from flags, environment and configuration file, so     *)
(* submitter, workers and operator may disagree about the queue, about     *)
(* the redelivery backstop and about the projector.                        *)
(*                                                                         *)
(* What a run derives is DerivedOutput; here the workers share one         *)
(* database, its log does not change, and the cache is seen through one    *)
(* conversation of it: the versions that have a row.  External, as this    *)
(* code uses it: Worklane's leases, attempts, deliveries and dead letters. *)
(* A retry may wait for a delay, a requeued job starts afresh, and only    *)
(* the holder of a lease can report.                                       *)
(***************************************************************************)
EXTENDS Naturals, FiniteSets, FiniteSetsExt

CONSTANTS
  Job,                  \* ids of StrategyRunJob jobs
  Process,              \* `work` processes
  Invocation,           \* what the commands are called with: [flag, env, config]
  Shell,                \* process -> the invocations it may be started with
  Strategies,           \* the ids in the worker's StrategyRegistry
  DefaultMaxDeliveries, \* DEFAULT_MAX_DELIVERIES
  DefaultDeadLetterMax, \* DEFAULT_DEAD_LETTER_MAX_COUNT
  MaxAttempts,          \* Worklane: handler errors before the dead-letter store
  MaxRequeues,          \* bound: `dlq --action requeue`, over all jobs
  Unset, Malformed, Invalid, None

ASSUME JobQueueAssumption ==
  /\ {DefaultMaxDeliveries, DefaultDeadLetterMax, MaxAttempts, MaxRequeues} \subseteq Nat
  /\ MaxAttempts > 0 /\ Shell \in [Process -> SUBSET Invocation]
  /\ {Unset, Malformed} \cap Nat = {} /\ None \notin Process
  /\ \A c \in Invocation :
       /\ c.env.max_deliveries \in Nat \cup {Unset, Malformed}
       /\ c.config # Invalid => c.config.max_deliveries \in Nat \cup {Unset}

VARIABLES
  jobs,      \* job -> its envelope on the broker
  dead,      \* the dead-letter stores: job -> its place, the newest highest; 0 = in none
  proc,      \* process -> where its handler is
  published, \* the derivation versions with a row in the derived-output cache
  superseded, \* history: versions whose last row a run of another version reclaimed
  runs,      \* history: job -> handler starts since it was submitted or requeued
  requeues   \* history: how many jobs were requeued

cache == <<published, superseded>>
vars == <<jobs, dead, proc, cache, runs, requeues>>

-----------------------------------------------------------------------------
(* Settings.  A setting that was not given is Unset.                       *)

Or(first, second) == IF first # Unset THEN first ELSE second

Strategy(c) == Or(c.flag.strategy, Or(c.config.strategy, "projection"))
Provider(c) == Or(c.flag.provider, Or(c.config.provider, "mock"))

\* BrokerKind: the networked brokers have a URL variable of their own and a
\* space - a schema or a namespace - that isolates instances.
BrokerKind(c) == Or(c.flag.broker, Or(c.config.broker, "sqlite"))
FallbackVar == [postgres |-> "DATABASE_URL", redis |-> "REDIS_URL"]
DefaultSpace == [postgres |-> "public", redis |-> "worklane"]

ResolveUrl(c) ==
  Or(Or(c.flag.queue_url, c.config.queue_url),
     Or(c.env.WORKLANE_URL, c.env[FallbackVar[BrokerKind(c)]]))

Space(c) == Or(c.env.space, Or(c.config.space, DefaultSpace[BrokerKind(c)]))

\* connect: sqlite takes the queue file and ignores any URL; the others need one.
Queue(c) ==
  CASE BrokerKind(c) = "sqlite" ->
         <<"sqlite", Or(c.flag.queue_db, Or(c.config.queue_db, "mirrorlane-queue.db"))>>
    [] BrokerKind(c) # "sqlite" /\ ResolveUrl(c) = Unset -> None
    [] OTHER -> <<BrokerKind(c), ResolveUrl(c), Space(c)>>

\* Mutant: Worklane's own default, which bounds nothing.
MaxDeliveriesUnbounded(c) == Or(c.env.max_deliveries, Or(c.config.max_deliveries, 1000000))

MaxDeliveries(c) ==
  Or(c.env.max_deliveries, Or(c.config.max_deliveries, DefaultMaxDeliveries))

DeadLetterMax(c) == Or(c.config.dead_letter_max_count, DefaultDeadLetterMax)

\* The configuration file, when there is one, parses.
Parsed(c) == c.config # Invalid

\* The settings resolve: the file parses, numbers are numbers, a URL is there.
Usable(c) ==
  /\ Parsed(c)
  /\ c.env.max_deliveries # Malformed
  /\ Queue(c) # None

\* What `work` keeps of them.
Settings(c) ==
  [queue |-> Queue(c), provider |-> Provider(c), max_deliveries |-> MaxDeliveries(c),
   dead_letter_max |-> DeadLetterMax(c)]

-----------------------------------------------------------------------------

Absent == [state |-> "absent", queue |-> None, strategy |-> None, attempts |-> 0,
           deliveries |-> 0, holder |-> None, version |-> None]

Off == [pc |-> "off", settings |-> None, job |-> None]

Init ==
  /\ jobs = [j \in Job |-> Absent]
  /\ dead = [j \in Job |-> 0]
  /\ proc = [p \in Process |-> Off]
  /\ published = {} /\ superseded = {}
  /\ runs = [j \in Job |-> 0]
  /\ requeues = 0

Fresh(c) == [Absent EXCEPT !.state = "queued", !.queue = Queue(c), !.strategy = Strategy(c)]

\* submit: the strategy id goes into the request as it is.
Submit(c, j) ==
  /\ Usable(c) /\ jobs[j].state = "absent"
  /\ jobs' = [jobs EXCEPT ![j] = Fresh(c)]
  /\ UNCHANGED <<dead, proc, cache, runs, requeues>>

-----------------------------------------------------------------------------
(* The dead-letter store.                                                  *)

\* A job that is not live any more keeps what it was submitted with.
Settled(job, state) ==
  [job EXCEPT !.state = state, !.holder = None, !.attempts = 0, !.deliveries = 0]

\* The dead letters of a queue, and those that a surface of the command lists and counts.
DeadIn(queue) == {j \in Job : jobs[j].state = "dead" /\ jobs[j].queue = queue}
DeadLetters(c) == DeadIn(Queue(c))

\* A job is dead-lettered, through a handle that keeps the newest n of its store.
DeadLetter(j, n) ==
  LET place == [dead EXCEPT ![j] = 1 + Max({dead[i] : i \in Job})]
      store == DeadIn(jobs[j].queue) \cup {j}
      old == {i \in store : Cardinality({k \in store : place[k] > place[i]}) >= n}
  IN  /\ dead' = [i \in Job |-> IF i \in old THEN 0 ELSE place[i]]
      /\ jobs' = [i \in Job |-> IF i \in old THEN Settled(jobs[i], "dropped")
                                ELSE IF i = j THEN Settled(jobs[j], "dead")
                                ELSE jobs[i]]

\* DeadLetters::requeue.  It goes by the id alone: the surface's lane is not asked.
Requeue(c, j) ==
  /\ Usable(c) /\ j \in DeadLetters(c)
  /\ requeues < MaxRequeues
  /\ dead' = [dead EXCEPT ![j] = 0]
  /\ jobs' = [jobs EXCEPT ![j].state = "queued"]
  /\ requeues' = requeues + 1
  /\ runs' = [runs EXCEPT ![j] = 0]
  /\ UNCHANGED <<proc, cache>>

\* DeadLetters::purge, of the lane in this broker.
Purge(c) ==
  /\ Usable(c) /\ DeadLetters(c) # {}
  /\ dead' = [j \in Job |-> IF j \in DeadLetters(c) THEN 0 ELSE dead[j]]
  /\ jobs' = [j \in Job |-> IF j \in DeadLetters(c) THEN Settled(jobs[j], "dropped")
                            ELSE jobs[j]]
  /\ UNCHANGED <<proc, cache, runs, requeues>>

-----------------------------------------------------------------------------
(* work                                                                    *)

Start(p, c) ==
  /\ proc[p].pc = "off" /\ c \in Shell[p] /\ Usable(c)
  /\ proc' = [proc EXCEPT ![p] = [pc |-> "idle", settings |-> Settings(c), job |-> None]]
  /\ UNCHANGED <<jobs, dead, cache, runs, requeues>>

\* A job the worker may take now.
Reservable(p, j) ==
  /\ jobs[j].state = "queued" /\ jobs[j].queue = proc[p].settings.queue

\* reserve: a delivery more, or the redelivery backstop of this worker's broker.
Reserve(p, j) ==
  /\ proc[p].pc = "idle" /\ Reservable(p, j)
  /\ IF jobs[j].deliveries < proc[p].settings.max_deliveries
       THEN /\ jobs' = [jobs EXCEPT ![j].state = "leased", ![j].holder = p,
                                    ![j].deliveries = @ + 1]
            /\ proc' = [proc EXCEPT ![p].pc = "run", ![p].job = j]
            /\ runs' = [runs EXCEPT ![j] = @ + 1]
            /\ UNCHANGED dead
       ELSE /\ DeadLetter(j, proc[p].settings.dead_letter_max)
            /\ UNCHANGED <<proc, runs>>
  /\ UNCHANGED <<cache, requeues>>

\* The handler's error: another attempt after a delay, or the dead-letter store.
\* A worker whose lease is gone is refused.
Fail(p) ==
  LET j == proc[p].job
      n == jobs[j].attempts + 1
  IN  /\ proc' = [proc EXCEPT ![p].pc = "idle", ![p].job = None]
      /\ \/ jobs[j].holder # p /\ UNCHANGED <<jobs, dead>>
         \/ /\ jobs[j].holder = p /\ n < MaxAttempts
            /\ jobs' = [jobs EXCEPT ![j].state = "delayed", ![j].holder = None,
                                    ![j].attempts = n]
            /\ UNCHANGED dead
         \/ /\ jobs[j].holder = p /\ n >= MaxAttempts
            /\ DeadLetter(j, proc[p].settings.dead_letter_max)

Registered(p) == jobs[proc[p].job].strategy \in Strategies

\* registry.build(..)?: an id that is not registered fails the job.
Refuse(p) ==
  /\ proc[p].pc = "run" /\ ~Registered(p)
  /\ Fail(p)
  /\ UNCHANGED <<cache, runs, requeues>>

Derives(p) == jobs[proc[p].job].strategy # "empty"

\* A projection asks a model, in a synchronous request within the run: no await, no
\* read timeout.  The reference projector asks nobody.
CallModel(p) ==
  /\ proc[p].pc = "run" /\ Registered(p) /\ Derives(p)
  /\ proc[p].settings.provider # "mock"
  /\ proc' = [proc EXCEPT ![p].pc = "call"]
  /\ UNCHANGED <<jobs, dead, cache, runs, requeues>>

\* The model answers, or its failure is the projection's - if it ever does.
CallReturns(p) ==
  /\ proc[p].pc = "call"
  /\ proc' = [proc EXCEPT ![p].pc = "run"]
  /\ UNCHANGED <<jobs, dead, cache, runs, requeues>>

\* Mutant: the worker is built without a handler timeout.
TimeoutNever(p) == FALSE /\ proc[p].pc = "run" /\ UNCHANGED vars

\* The handler timeout ends the run at an await, never within a call: nothing is
\* published.
Timeout(p) ==
  /\ proc[p].pc = "run" /\ Registered(p)
  /\ Fail(p)
  /\ UNCHANGED <<cache, runs, requeues>>

\* derivation_version: the request's strategy, this worker's projector.
Version(p) == <<jobs[proc[p].job].strategy, proc[p].settings.provider>>

\* strategy.run(..).await returns and populate_cache, which has no await, writes the
\* row of this version - if the strategy derived anything.
Publish(p) ==
  /\ proc[p].pc = "run" /\ Registered(p)
  /\ IF Derives(p)
       THEN /\ published' = published \cup {Version(p)}
            /\ superseded' = superseded \ {Version(p)}
            /\ proc' = [proc EXCEPT ![p].pc = "reclaim"]
       ELSE /\ proc' = [proc EXCEPT ![p].pc = "report"]
            /\ UNCHANGED cache
  /\ UNCHANGED <<jobs, dead, runs, requeues>>

\* It goes on to delete every other version's row; an error of that statement is swallowed.
Reclaim(p) ==
  /\ proc[p].pc = "reclaim"
  /\ \/ /\ published' = published \cap {Version(p)}
        /\ superseded' = superseded \cup (published \ {Version(p)})
     \/ UNCHANGED cache
  /\ proc' = [proc EXCEPT ![p].pc = "report"]
  /\ UNCHANGED <<jobs, dead, runs, requeues>>

\* Mutant: the job is acknowledged before its output is published.
AckEarly(p) ==
  /\ proc[p].pc \in {"run", "report"}
  /\ LET j == proc[p].job
     IN  jobs' = IF jobs[j].holder # p THEN jobs
                 ELSE [jobs EXCEPT ![j] = [Settled(jobs[j], "acked") EXCEPT !.version = Version(p)]]
  /\ proc' = [proc EXCEPT ![p].pc = "idle", ![p].job = None]
  /\ UNCHANGED <<dead, cache, runs, requeues>>

\* Ok(()): the acknowledgement, by the holder of the lease.
Ack(p) ==
  /\ proc[p].pc = "report"
  /\ LET j == proc[p].job
     IN  jobs' = IF jobs[j].holder # p THEN jobs
                 ELSE [jobs EXCEPT ![j] = [Settled(jobs[j], "acked") EXCEPT !.version = Version(p)]]
  /\ proc' = [proc EXCEPT ![p].pc = "idle", ![p].job = None]
  /\ UNCHANGED <<dead, cache, runs, requeues>>

\* run_until_idle returns: nothing to take now, though a retry may be waiting.
Leave(p) ==
  /\ proc[p].pc = "idle" /\ \A j \in Job : ~Reservable(p, j)
  /\ proc' = [proc EXCEPT ![p] = Off]
  /\ UNCHANGED <<jobs, dead, cache, runs, requeues>>

Kill(p) ==
  /\ proc[p].pc # "off"
  /\ proc' = [proc EXCEPT ![p] = Off]
  /\ UNCHANGED <<jobs, dead, cache, runs, requeues>>

\* Worklane: a retry becomes due.
Due(j) ==
  /\ jobs[j].state = "delayed"
  /\ jobs' = [jobs EXCEPT ![j].state = "queued"]
  /\ UNCHANGED <<dead, proc, cache, runs, requeues>>

\* Worklane: the lease of a process that died, or whose keepalive failed, ends.
Expire(j) ==
  /\ jobs[j].state = "leased"
  /\ jobs' = [jobs EXCEPT ![j].state = "queued", ![j].holder = None]
  /\ UNCHANGED <<dead, proc, cache, runs, requeues>>

Step(p) == \/ Refuse(p) \/ Reclaim(p) \/ Ack(p)
           \/ Leave(p) \/ \E j \in Job : Reserve(p, j)

\* What a run does in its own time.
Run(p) == CallModel(p) \/ CallReturns(p) \/ Publish(p)

Next ==
  \/ \E c \in Invocation :
       \/ \E j \in Job : Submit(c, j) \/ Requeue(c, j)
       \/ Purge(c)
       \/ \E p \in Process : Start(p, c)
  \/ \E p \in Process : Step(p) \/ Run(p) \/ Timeout(p) \/ Kill(p)
  \/ \E j \in Job : Due(j) \/ Expire(j)

\* A process outside a run goes on.  A run need not return, nor a model call; a timer
\* that has gone off ends the run at one of its awaits, if it keeps coming to them.
Spec ==
  /\ Init /\ [][Next]_vars
  /\ \A p \in Process : WF_vars(Step(p)) /\ SF_vars(Timeout(p))

-----------------------------------------------------------------------------
(* Properties.                                                             *)

(* A job that is acknowledged named a registered strategy, and if that     *)
(* derives anything, its output is in the cache under the version that a   *)
(* reader with the worker's settings asks for (submission.rs:17-20 "a      *)
(* submitted run leaves consumable output a later read can serve"), or a   *)
(* run of another version has reclaimed it since it was last written -     *)
(* whatever timed out, was killed or was delivered again before.           *)
AckedIsServed ==
  \A j \in Job : jobs[j].state = "acked" =>
    /\ jobs[j].strategy \in Strategies
    /\ jobs[j].strategy # "empty" => jobs[j].version \in published \cup superseded

\* The backstops some invocation is configured with.
Configured ==
  ({DefaultMaxDeliveries} \cup {c.env.max_deliveries : c \in Invocation}
     \cup {c.config.max_deliveries : c \in {d \in Invocation : d.config # Invalid}})
  \ {Unset, Malformed}

(* A submission is run at most as often as the backstop of the workers of  *)
(* its queue allows, over all its workers, their crashes, timeouts and     *)
(* lost leases (main.rs:160-164: a job that keeps losing its lease         *)
(* eventually dead-letters), and as often again after each requeue.        *)
RunsBounded ==
  \A j \in Job : \E n \in Configured : runs[j] <= n

(* A worker whose model calls return comes to an end: run_until_idle       *)
(* returns although jobs fail, take forever, lose their lease and are      *)
(* retried, because the handler timeout ends a long run at an await        *)
(* (main.rs:630-637 "bound a hung run with a handler timeout") and         *)
(* attempts and deliveries run out.  A call that never returns is beyond   *)
(* the timeout.                                                            *)
WorkEnds ==
  \A p \in Process : []<>(proc[p].pc # "call") => []<>(proc[p].pc = "off")

=============================================================================
