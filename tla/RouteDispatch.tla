--------------------------- MODULE RouteDispatch ---------------------------
(***************************************************************************)
(* The routing edge (mirrorlane-worker, RouteJob and routed_work.rs): a    *)
(* request names messages; for each one that has a projection the job      *)
(* routes it, upserts the trace and the decision, and dispatches to the    *)
(* consumer registered for the target, which records a receipt, drafts a   *)
(* GitHub artifact, or enqueues a RoutedWork job under a key made of the   *)
(* message id.  Delivery of a request is at least once: a worker's lease   *)
(* may expire while its handler still runs, an acknowledgement may be      *)
(* lost, and a failed attempt is retried up to MaxAttempts.                *)
(*                                                                         *)
(* External, as this code relies on it: Worklane's leases, attempts,       *)
(* deliveries and dead-lettering, and enqueue_unique, which adds nothing   *)
(* while a live job holds the key.                                         *)
(***************************************************************************)
EXTENDS Naturals, Sequences, SequencesExt

CONSTANTS
    Message, Worker, None,
    Items,          \* request -> the sequence of message ids it names
    Projections,    \* the projections a message may get: [intent, sure]
    Rules,          \* the router's rule set: a sequence of [intent, target]
    DefaultTarget,
    ConsumerOf,     \* kind -> "recording", "github", "worklane" or "none"
    MaxAttempts,    \* Worklane: handler errors before the dead-letter store
    MaxDeliveries,  \* Worklane: reservations before the dead-letter store
    MaxProjections  \* bound: writes to the projection store

Request == DOMAIN Items
Kind == DOMAIN ConsumerOf

ASSUME RouteDispatchAssumption ==
    /\ Items \in [Request -> Seq(Message)]
    /\ ConsumerOf \in [Kind -> {"recording", "github", "worklane", "none"}]
    /\ DefaultTarget \in Kind /\ "human" \in Kind
    /\ Len(Rules) \in Nat /\ \A i \in 1 .. Len(Rules) : Rules[i].target \in Kind
    /\ \A k, l \in Kind :   \* drafts and live are the sinks of one consumer each
          ConsumerOf[k] = ConsumerOf[l] /\ ConsumerOf[k] \in {"github", "worklane"} => k = l
    /\ None \notin Projections /\ None \notin Worker /\ None \notin {"issue", "pull_request"}
    /\ {MaxAttempts, MaxDeliveries} \subseteq Nat \ {0}
    /\ MaxProjections \in Nat

VARIABLES
    projections,    \* the projection store: message -> projection or None
    decisions,      \* the routing store: message -> [target, escalated] or None
    traces,         \* the trace store: message -> evaluation steps or None
    receipts,       \* RecordingConsumer: the <<kind, message>> received
    drafts,         \* GitHubConsumer: message -> draft kind or None
    live,           \* the routed-work lane: message -> live jobs under its key
    req,            \* the routing lane: request -> its envelope
    run,            \* worker -> the run of its handler
    enqueued,       \* history: message -> RoutedWork jobs ever enqueued
    decided,        \* history: the <<kind, message>> ever decided
    overrun,        \* history: the requests whose lease ended before their handler
    projected       \* history: projection writes (bounded by MaxProjections)

stores == <<decisions, traces, decided>>
sinks == <<receipts, drafts, live, enqueued>>
history == <<overrun, projected>>
vars == <<projections, stores, sinks, req, run, history>>

Idle == [pc |-> "idle", req |-> None, at |-> 0, proj |-> None]

Init ==
    /\ projections = [m \in Message |-> None]
    /\ decisions = [m \in Message |-> None]
    /\ traces = [m \in Message |-> None]
    /\ receipts = {} /\ decided = {} /\ overrun = {} /\ projected = 0
    /\ drafts = [m \in Message |-> None]
    /\ live = [m \in Message |-> 0] /\ enqueued = [m \in Message |-> 0]
    /\ req = [r \in Request |->
                [state |-> "ready", attempts |-> 0, deliveries |-> 0, holder |-> None]]
    /\ run = [w \in Worker |-> Idle]

-----------------------------------------------------------------------------
(* The router. *)

\* The target of the first rule for the intent, or the default target.
TargetFor(intent) ==
    LET i == SelectInSeq(Rules, LAMBDA rule : rule.intent = intent)
    IN  IF i = 0 THEN DefaultTarget ELSE Rules[i].target

\* The decision and the evaluation steps that explain it.
Decision(p) ==
    [target |-> IF p.sure THEN TargetFor(p.intent) ELSE "human", escalated |-> ~p.sure]

Trace(p) ==
    IF p.sure
      THEN << [rule |-> "confidence_threshold", matched |-> FALSE, target |-> None],
              [rule |-> "intent_routing", matched |-> TRUE, target |-> TargetFor(p.intent)] >>
      ELSE << [rule |-> "confidence_threshold", matched |-> TRUE, target |-> "human"] >>

-----------------------------------------------------------------------------
(* The projection store, written by ProcessMessageJob of other runs. *)

Project(m, p) ==
    /\ projected < MaxProjections
    /\ projections' = [projections EXCEPT ![m] = p]
    /\ projected' = projected + 1
    /\ UNCHANGED <<stores, sinks, req, run, overrun>>

-----------------------------------------------------------------------------
(* RouteJob::run. *)

Current(w) == Items[run[w].req][run[w].at]
AtItem(w) == run[w].pc = "next" /\ run[w].at <= Len(Items[run[w].req])

\* The loop goes on with the next message.
Advance(w) == run' = [run EXCEPT ![w].pc = "next", ![w].at = @ + 1, ![w].proj = None]

\* Mutant of Skip: the job waits for the projection.
SkipWaits(w) ==
    /\ AtItem(w)
    /\ projections[Current(w)] = None
    /\ UNCHANGED vars

\* No stored projection: continue.
Skip(w) ==
    /\ AtItem(w)
    /\ projections[Current(w)] = None
    /\ Advance(w)
    /\ UNCHANGED <<projections, stores, sinks, req, history>>

\* projections.get and router.route
Route(w) ==
    /\ AtItem(w)
    /\ projections[Current(w)] # None
    /\ run' = [run EXCEPT ![w].pc = "trace", ![w].proj = projections[Current(w)]]
    /\ UNCHANGED <<projections, stores, sinks, req, history>>

UpsertTrace(w) ==
    /\ run[w].pc = "trace"
    /\ traces' = [traces EXCEPT ![Current(w)] = Trace(run[w].proj)]
    /\ run' = [run EXCEPT ![w].pc = "decision"]
    /\ UNCHANGED <<projections, decisions, decided, sinks, req, history>>

\* Mutant of UpsertDecision: the decision of whatever the store holds now.
UpsertDecisionReread(w) ==
    /\ run[w].pc = "decision"
    /\ LET d == Decision(projections[Current(w)])
       IN  /\ decisions' = [decisions EXCEPT ![Current(w)] = d]
           /\ decided' = decided \cup {<<d.target, Current(w)>>}
    /\ run' = [run EXCEPT ![w].pc = "dispatch"]
    /\ UNCHANGED <<projections, traces, sinks, req, history>>

UpsertDecision(w) ==
    /\ run[w].pc = "decision"
    /\ LET d == Decision(run[w].proj)
       IN  /\ decisions' = [decisions EXCEPT ![Current(w)] = d]
           /\ decided' = decided \cup {<<d.target, Current(w)>>}
    /\ run' = [run EXCEPT ![w].pc = "dispatch"]
    /\ UNCHANGED <<projections, traces, sinks, req, history>>

\* WorklaneJobConsumer: enqueue_unique under routed_work:<message id>.
EnqueueUnique(m) ==
    IF live[m] > 0
      THEN UNCHANGED <<live, enqueued>>
      ELSE /\ live' = [live EXCEPT ![m] = 1]
           /\ enqueued' = [enqueued EXCEPT ![m] = @ + 1]

\* draft_for: a proposal becomes a pull request.
DraftKind(p) == IF p.intent = "proposal" THEN "pull_request" ELSE "issue"

\* GitHubConsumer: one draft per message, replaced when it is routed again.
Draft(m, p) == drafts' = [drafts EXCEPT ![m] = DraftKind(p)]

\* RecordingConsumer.
Record(kind, m) == receipts' = receipts \cup {<<kind, m>>}

\* What the consumer of the target does with the message; no consumer, nothing.
Consume(kind, m, p) ==
    LET is(consumer) == ConsumerOf[kind] = consumer
    IN  \/ is("recording") /\ Record(kind, m) /\ UNCHANGED <<drafts, live, enqueued>>
        \/ is("github") /\ Draft(m, p) /\ UNCHANGED <<receipts, live, enqueued>>
        \/ is("worklane") /\ EnqueueUnique(m) /\ UNCHANGED <<receipts, drafts>>
        \/ is("none") /\ UNCHANGED sinks

\* Mutant of Dispatch: it routes the projection as it is now.
DispatchFresh(w) ==
    /\ run[w].pc = "dispatch"
    /\ LET p == projections[Current(w)] IN Consume(Decision(p).target, Current(w), p)
    /\ Advance(w)
    /\ UNCHANGED <<projections, stores, req, history>>

Dispatch(w) ==
    /\ run[w].pc = "dispatch"
    /\ Consume(Decision(run[w].proj).target, Current(w), run[w].proj)
    /\ Advance(w)
    /\ UNCHANGED <<projections, stores, req, history>>

\* The attempt of worker w ends in an error.  A stale holder's report is refused.
Settle(w, envelope) ==
    LET r == run[w].req
    IN  /\ req' = IF req[r].holder = w THEN [req EXCEPT ![r] = envelope] ELSE req
        /\ run' = [run EXCEPT ![w] = Idle]

\* Worklane: an attempt that failed is retried, or dead-lettered after the last.
Failed(envelope) ==
    LET n == envelope.attempts + 1
    IN  [envelope EXCEPT !.attempts = n, !.holder = None,
                         !.state = IF n < MaxAttempts THEN "ready" ELSE "dead"]

\* Mutant of DispatchFails: the error is swallowed and the loop goes on.
DispatchFailsSwallowed(w) ==
    /\ run[w].pc = "dispatch"
    /\ ConsumerOf[Decision(run[w].proj).target] = "worklane"
    /\ Advance(w)
    /\ UNCHANGED <<projections, stores, sinks, req, history>>

\* Mutant of DispatchFails: the consumer tries again within the delivery.
DispatchFailsRetriesInline(w) ==
    /\ run[w].pc = "dispatch"
    /\ ConsumerOf[Decision(run[w].proj).target] = "worklane"
    /\ EnqueueUnique(Current(w))
    /\ UNCHANGED <<receipts, drafts, projections, stores, req, run, history>>

\* The broker rejects the enqueue, or makes it and the answer is lost (an error,
\* or the handler's timeout at this await): `?` fails the job.
DispatchFails(w) ==
    /\ run[w].pc = "dispatch"
    /\ ConsumerOf[Decision(run[w].proj).target] = "worklane"
    /\ \/ UNCHANGED sinks
       \/ EnqueueUnique(Current(w)) /\ UNCHANGED <<receipts, drafts>>
    /\ Settle(w, Failed(req[run[w].req]))
    /\ UNCHANGED <<projections, stores, history>>

\* Ok(()): the request is acknowledged, or the acknowledgement is lost.
Finish(w) ==
    /\ run[w].pc = "next"
    /\ run[w].at > Len(Items[run[w].req])
    /\ \E s \in {"done", "ready"} :
            Settle(w, [req[run[w].req] EXCEPT !.state = s, !.holder = None])
    /\ UNCHANGED <<projections, stores, sinks, history>>

-----------------------------------------------------------------------------
(* Worklane, around the handlers. *)

Reserve(w, r) ==
    /\ run[w].pc = "idle"
    /\ req[r].state = "ready" /\ req[r].deliveries < MaxDeliveries
    /\ req' = [req EXCEPT ![r].state = "leased", ![r].holder = w, ![r].deliveries = @ + 1]
    /\ run' = [run EXCEPT ![w] = [pc |-> "next", req |-> r, at |-> 1, proj |-> None]]
    /\ UNCHANGED <<projections, stores, sinks, history>>

\* The redelivery backstop.
Abandon(r) ==
    /\ req[r].state = "ready" /\ req[r].deliveries = MaxDeliveries
    /\ req' = [req EXCEPT ![r].state = "dead"]
    /\ UNCHANGED <<projections, stores, sinks, run, history>>

\* A lease ends while its handler runs on.
Expire(r) ==
    /\ req[r].state = "leased"
    /\ req' = [req EXCEPT ![r].state = "ready", ![r].holder = None]
    /\ overrun' = overrun \cup {r}
    /\ UNCHANGED <<projections, stores, sinks, run, projected>>

\* A worker of the routed-work lane runs a job to its end; its key is free again.
RunRoutedWork(m) ==
    /\ live[m] > 0
    /\ live' = [live EXCEPT ![m] = @ - 1]
    /\ UNCHANGED <<projections, stores, receipts, drafts, enqueued, req, run, history>>

Step(w) ==
    \/ Skip(w) \/ Route(w) \/ UpsertTrace(w) \/ UpsertDecision(w)
    \/ Dispatch(w) \/ DispatchFails(w) \/ Finish(w)

Next ==
    \/ \E m \in Message, p \in Projections : Project(m, p)
    \/ \E w \in Worker : Step(w) \/ \E r \in Request : Reserve(w, r)
    \/ \E r \in Request : Abandon(r) \/ Expire(r)
    \/ \E m \in Message : RunRoutedWork(m)

Spec == Init /\ [][Next]_vars

\* Workers take the requests there are and handlers run to their end.
FairSpec ==
    /\ Spec
    /\ \A w \in Worker : WF_vars(Step(w)) /\ WF_vars(\E r \in Request : Reserve(w, r))
    /\ \A r \in Request : WF_vars(Abandon(r))

-----------------------------------------------------------------------------
(* Properties. *)

\* The requests that name a message.
Naming(m) == {r \in Request : m \in ToSet(Items[r])}

\* No run of a request naming m is under way or still to come, or was cut short.
Settled(m) ==
    /\ \A r \in Naming(m) : req[r].state = "done"
    /\ \A w \in Worker : run[w].pc = "idle" \/ run[w].req \notin Naming(m)

\* A message's sink for a kind has it.
Received(kind, m) ==
    CASE ConsumerOf[kind] = "recording" -> <<kind, m>> \in receipts
      [] ConsumerOf[kind] = "github" -> drafts[m] # None
      [] ConsumerOf[kind] = "worklane" -> enqueued[m] > 0
      [] OTHER -> TRUE

\* Once the requests that name a message are acknowledged and no handler works on
\* it, the consumer its stored decision names has received it, whatever was
\* retried, delivered twice or re-projected meanwhile, by other workers too (a
\* consumer failure fails the job instead of being swallowed).  Only a handler
\* that outlived its lease may leave a decision undelivered: it may decide and
\* then fail when another run of its request was already acknowledged.
DecidedIsDelivered ==
    \A m \in Message :
        (Settled(m) /\ Naming(m) \cap overrun = {} /\ decisions[m] # None)
            => Received(decisions[m].target, m)

\* A consumer holds a message only if some run decided that target for it: no
\* delivery without a decision in the routing store before it.
DeliveredWasDecided ==
    \A m \in Message, k \in Kind :
        ConsumerOf[k] # "none" /\ Received(k, m) => <<k, m>> \in decided

\* With one worker, the stored trace explains the stored decision of a message
\* no request is at work on: both come from one routing of one projection,
\* although the projection may change between the two upserts.
TraceExplainsDecision ==
    \A m \in Message :
        Settled(m) /\ decisions[m] # None => Last(traces[m]).target = decisions[m].target

\* The deliveries of the requests that name m.
DeliveriesOf(m) ==
    FoldFunctionOnSet(+, 0, [r \in Request |-> req[r].deliveries], Naming(m))

\* A message never becomes more routed-work jobs than its requests, each naming it
\* once, were delivered: the duplicates a drained lane lets through are bounded by
\* the redelivery backstop.
JobsWithinDeliveries ==
    \A m \in Message : enqueued[m] <= DeliveriesOf(m)

\* Every request is acknowledged or dead-lettered, and every handler ends.
Resolves ==
    <>(/\ \A r \in Request : req[r].state \in {"done", "dead"}
       /\ \A w \in Worker : run[w].pc = "idle")

=============================================================================
