------------------------- MODULE RouteDispatchProofs -------------------------
(***************************************************************************)
(* Theorems of RouteDispatch, for any number of requests, workers,         *)
(* messages and rules, and any registration of the consumers.              *)
(*                                                                         *)
(* The main one is that an acknowledged decision was delivered.  Its       *)
(* argument is that a stored decision is never without someone who owes    *)
(* the delivery: the consumer has it, or a run is about to dispatch it, or *)
(* a request that names the message has the message still ahead of it.     *)
(* The last one bounds the jobs a message becomes, by the deliveries left  *)
(* to those that may still make one.                                       *)
(***************************************************************************)
EXTENDS RouteDispatch, DataProofs

Busy == {"next", "trace", "decision", "dispatch"}

RunType ==
  [pc : Busy \cup {"idle"}, req : Request \cup {None}, at : Nat, proj : Projections \cup {None}]

EnvelopeType ==
  [state : {"ready", "leased", "done", "dead"}, attempts : Nat, deliveries : Nat,
   holder : Worker \cup {None}]

SinkTypes ==
  /\ receipts \subseteq Kind \X Message
  /\ drafts \in [Message -> {"issue", "pull_request", None}]
  /\ live \in [Message -> Nat]
  /\ enqueued \in [Message -> Nat]

TypeOK ==
  /\ SinkTypes
  /\ projections \in [Message -> Projections \cup {None}]
  /\ decisions \in [Message -> [target : Kind, escalated : BOOLEAN] \cup {None}]
  /\ traces \in [Message -> {Trace(p) : p \in Projections} \cup {None}]
  /\ req \in [Request -> EnvelopeType]
  /\ run \in [Worker -> RunType]
  /\ overrun \subseteq Request

\* A run between two statements has a request, a place in it, and the projection
\* that it routed.
Control(w) ==
  run[w].pc # "idle" =>
    /\ run[w].req \in Request
    /\ run[w].at \in 1 .. Len(Items[run[w].req]) + 1
    /\ run[w].pc # "next" =>
         /\ run[w].at <= Len(Items[run[w].req])
         /\ run[w].proj \in Projections
         /\ projections[Current(w)] # None

\* The holder of a lease runs the request, and unless a lease of it ended early
\* nobody else does.
Leases(r) ==
  /\ req[r].state = "leased" =>
       /\ req[r].holder \in Worker
       /\ run[req[r].holder].pc # "idle" /\ run[req[r].holder].req = r
  /\ req[r].state # "leased" => req[r].holder = None
  /\ r \notin overrun =>
       \A w \in Worker : run[w].pc # "idle" /\ run[w].req = r =>
                           req[r].state = "leased" /\ req[r].holder = w

\* What a consumer has was decided before it was dispatched.
Delivered ==
  /\ \A w \in Worker : run[w].pc = "dispatch" =>
       <<Decision(run[w].proj).target, Current(w)>> \in decided
  /\ DeliveredWasDecided

\* Worker w is about to dispatch the stored decision of m.
Dispatching(w, m) ==
  run[w].pc = "dispatch" /\ Current(w) = m /\ Decision(run[w].proj) = decisions[m]

\* Request r has yet to decide and dispatch m: at its next delivery, if there is
\* one, or later in the run that is under way.
Ahead(r, m) ==
  \/ req[r].state \in {"ready", "dead"}
  \/ /\ req[r].state = "leased"
     /\ \E i \in 1 .. Len(Items[r]) :
          /\ Items[r][i] = m
          /\ LET h == run[req[r].holder]
             IN  h.at < i \/ (h.at = i /\ h.pc \in {"next", "trace", "decision"})

Owed(m) ==
  decisions[m] # None =>
    /\ projections[m] # None
    /\ Naming(m) \cap overrun = {} =>
         \/ Received(decisions[m].target, m)
         \/ \E w \in Worker : Dispatching(w, m)
         \/ \E r \in Naming(m) : Ahead(r, m)

\* enqueue_unique, as this code uses it: one live job of a key.
OneLiveJob == \A m \in Message : live[m] <= 1

\* A live job was enqueued, and it is the only one of its message.
SinksOK ==
  /\ SinkTypes
  /\ OneLiveJob
  /\ \A m \in Message : live[m] > 0 => enqueued[m] > 0

IInv ==
  /\ TypeOK
  /\ \A w \in Worker : Control(w)
  /\ \A r \in Request : Leases(r)
  /\ SinksOK
  /\ Delivered
  /\ \A m \in Message : Owed(m)

\* With one worker: the stored trace and the stored decision are of one routing, but
\* between the two upserts.
Explained(m) ==
  /\ \A w \in Worker : run[w].pc = "decision" /\ Current(w) = m =>
                         traces[m] = Trace(run[w].proj)
  /\ decisions[m] # None =>
       \/ \E w \in Worker : run[w].pc = "decision" /\ Current(w) = m
       \/ Last(traces[m]).target = decisions[m].target

-----------------------------------------------------------------------------
(* The router. *)

\* Every decision is for a kind of consumer.
LEMMA DecisionsAreTyped ==
  \A p \in Projections : Decision(p) \in [target : Kind, escalated : BOOLEAN]
<1> SUFFICES ASSUME NEW p \in Projections
             PROVE  Decision(p) \in [target : Kind, escalated : BOOLEAN]
  OBVIOUS
<1>1. TargetFor(p.intent) \in Kind
  <2> DEFINE I == {i \in 1 .. Len(Rules) : Rules[i].intent = p.intent}
  <2>1. CASE I = {}
    BY <2>1, RouteDispatchAssumption DEF TargetFor, SelectInSeq
  <2>2. CASE I # {}
    <3>1. I \in SUBSET Nat
      BY RouteDispatchAssumption
    <3>2. Min(I) \in I
      BY <2>2, <3>1, MinIsLeast
    <3> HIDE DEF I
    <3>3. TargetFor(p.intent) = IF Min(I) = 0 THEN DefaultTarget ELSE Rules[Min(I)].target
      BY <2>2 DEF TargetFor, SelectInSeq, I
    <3> QED
      BY <3>2, <3>3, RouteDispatchAssumption DEF I
  <2> QED
    BY <2>1, <2>2
<1> QED
  BY <1>1, RouteDispatchAssumption DEF Decision

\* A trace ends in the step that gave the target of the decision.
LEMMA TraceEndsInDecision ==
  \A p \in Projections : Last(Trace(p)).target = Decision(p).target
BY DEF Trace, Decision, Last

-----------------------------------------------------------------------------
(* The consumers. *)

\* No consumer loses what it received.
Keeps == \A k \in Kind, m \in Message : Received(k, m) => Received(k, m)'

\* What is new at a consumer is message m, under a kind that it is registered for.
OnlyNew(kind, m) ==
  \A k \in Kind, n \in Message :
    ConsumerOf[k] # "none" /\ Received(k, n)' => Received(k, n) \/ (k = kind /\ n = m)

\* enqueue_unique leaves one live job of the message, its own or an earlier one.
LEMMA EnqueueEffect ==
  ASSUME SinksOK, NEW kind \in Kind, NEW m \in Message, ConsumerOf[kind] = "worklane",
         EnqueueUnique(m), UNCHANGED <<receipts, drafts>>
  PROVE  SinksOK' /\ Keeps /\ OnlyNew(kind, m) /\ Received(kind, m)'
<1>1. SinksOK'
  BY DEF SinksOK, SinkTypes, EnqueueUnique, OneLiveJob
<1>2. Keeps
  BY DEF SinksOK, SinkTypes, EnqueueUnique, Keeps, Received
<1>3. OnlyNew(kind, m)
  BY RouteDispatchAssumption DEF SinksOK, SinkTypes, EnqueueUnique, OnlyNew, Received
<1>4. Received(kind, m)'
  BY DEF SinksOK, SinkTypes, EnqueueUnique, Received
<1> QED
  BY <1>1, <1>2, <1>3, <1>4

LEMMA ConsumeEffect ==
  ASSUME SinksOK, NEW kind \in Kind, NEW m \in Message,
         NEW p \in Projections, Consume(kind, m, p)
  PROVE  SinksOK' /\ Keeps /\ OnlyNew(kind, m) /\ Received(kind, m)'
<1>1. CASE ConsumerOf[kind] = "recording" /\ Record(kind, m) /\ UNCHANGED <<drafts, live, enqueued>>
  <2>1. SinksOK'
    BY <1>1 DEF Record, SinksOK, SinkTypes, OneLiveJob
  <2> QED
    BY <1>1, <2>1 DEF Record, Keeps, OnlyNew, Received
<1>2. CASE ConsumerOf[kind] = "github" /\ Draft(m, p) /\ UNCHANGED <<receipts, live, enqueued>>
  <2>1. SinksOK'
    BY <1>2 DEF Draft, DraftKind, SinksOK, SinkTypes, OneLiveJob
  <2>2. drafts'[m] # None /\ \A n \in Message : n # m => drafts'[n] = drafts[n]
    BY <1>2, RouteDispatchAssumption DEF Draft, DraftKind, SinksOK, SinkTypes
  <2> QED
    BY <1>2, <2>1, <2>2, RouteDispatchAssumption DEF Keeps, OnlyNew, Received
<1>3. CASE ConsumerOf[kind] = "worklane" /\ EnqueueUnique(m) /\ UNCHANGED <<receipts, drafts>>
  BY <1>3, EnqueueEffect
<1>4. CASE ConsumerOf[kind] = "none" /\ UNCHANGED sinks
  BY <1>4 DEF sinks, SinksOK, SinkTypes, OneLiveJob, Keeps, OnlyNew, Received
<1> QED
  BY <1>1, <1>2, <1>3, <1>4 DEF Consume

\* A step that touches no consumer.
LEMMA SinksIdle ==
  ASSUME SinksOK, UNCHANGED sinks
  PROVE  SinksOK' /\ \A k \in Kind, m \in Message : Received(k, m)' <=> Received(k, m)
BY DEF sinks, SinksOK, SinkTypes, OneLiveJob, Received

-----------------------------------------------------------------------------
(* Types, and the runs of the handlers. *)

LEMMA InitIInv == Init => IInv
<1> SUFFICES ASSUME Init PROVE IInv
  OBVIOUS
<1>1. TypeOK
  BY RouteDispatchAssumption DEF Init, TypeOK, SinkTypes, EnvelopeType, RunType, Idle
<1>2. SinksOK
  BY <1>1 DEF Init, TypeOK, SinksOK, OneLiveJob
<1>3. \A w \in Worker : Control(w)
  BY DEF Init, Control, Idle
<1>4. \A r \in Request : Leases(r)
  BY DEF Init, Leases, Idle
<1>5. Delivered
  BY RouteDispatchAssumption DEF Init, Delivered, DeliveredWasDecided, Received, Idle
<1>6. \A m \in Message : Owed(m)
  BY DEF Init, Owed
<1> QED
  BY <1>1, <1>2, <1>3, <1>4, <1>5, <1>6 DEF IInv

\* The message at hand, in a request or in the middle of its routing.
LEMMA CurrentIsMessage ==
  ASSUME TypeOK, NEW w \in Worker, Control(w), AtItem(w) \/ run[w].pc \in Busy \ {"next"}
  PROVE  /\ run[w].req \in Request
         /\ run[w].at \in 1 .. Len(Items[run[w].req])
         /\ Len(Items[run[w].req]) \in Nat
         /\ Current(w) \in Message
<1>1. run[w].pc # "idle" /\ run[w].req \in Request
  BY DEF AtItem, Busy, Control
<1>2. Items[run[w].req] \in Seq(Message)
  BY <1>1, RouteDispatchAssumption
<1>3. run[w].at \in 1 .. Len(Items[run[w].req])
  BY <1>1, <1>2 DEF AtItem, Busy, Control
<1> QED
  BY <1>1, <1>2, <1>3 DEF Current

LEMMA AdvanceIsTyped ==
  ASSUME run \in [Worker -> RunType], NEW w \in Worker, Advance(w)
  PROVE  run' \in [Worker -> RunType]
<1> DEFINE r == run[w]
           moved == [r EXCEPT !.pc = "next", !.at = r.at + 1, !.proj = None]
<1>1. r \in RunType /\ r.at + 1 \in Nat
  BY DEF RunType
<1>2. moved \in RunType
  BY <1>1 DEF RunType, Busy
<1>3. run' = [run EXCEPT ![w] = moved]
  BY DEF Advance
<1> QED
  BY <1>2, <1>3

LEMMA StepKeepsTypes ==
  ASSUME TypeOK, SinksOK, NEW w \in Worker, Control(w), Step(w)
  PROVE  TypeOK' /\ SinksOK'
<1>0. run[w] \in RunType /\ (AtItem(w) \/ run[w].pc \in Busy \ {"next"} => Current(w) \in Message)
  BY CurrentIsMessage DEF TypeOK
<1>1. CASE Skip(w) \/ Route(w)
  <2>1. run' \in [Worker -> RunType]
    <3>1. CASE Skip(w)
      BY <3>1, AdvanceIsTyped DEF Skip, TypeOK
    <3>2. CASE Route(w)
      BY <1>0, <3>2 DEF Route, TypeOK, RunType, Busy
    <3> QED
      BY <1>1, <3>1, <3>2
  <2> QED
    BY <1>1, <2>1, SinksIdle DEF Skip, Route, stores, sinks, history, TypeOK, SinkTypes
<1>2. CASE UpsertTrace(w)
  <2>1. run' \in [Worker -> RunType]
    BY <1>0, <1>2 DEF UpsertTrace, TypeOK, RunType, Busy
  <2>2. run[w].proj \in Projections
    BY <1>2 DEF UpsertTrace, Control
  <2> QED
    BY <1>2, <2>1, <2>2, SinksIdle DEF UpsertTrace, sinks, history, TypeOK, SinkTypes
<1>3. CASE UpsertDecision(w)
  <2>1. run' \in [Worker -> RunType]
    BY <1>0, <1>3 DEF UpsertDecision, TypeOK, RunType, Busy
  <2>2. Decision(run[w].proj) \in [target : Kind, escalated : BOOLEAN]
    BY <1>3, DecisionsAreTyped DEF UpsertDecision, Control
  <2> QED
    BY <1>3, <2>1, <2>2, SinksIdle DEF UpsertDecision, sinks, history, TypeOK, SinkTypes
<1>4. CASE Dispatch(w)
  <2>1. run' \in [Worker -> RunType]
    BY <1>4, AdvanceIsTyped DEF Dispatch, TypeOK
  <2>2. SinksOK'
    BY <1>0, <1>4, DecisionsAreTyped, ConsumeEffect DEF Dispatch, Control, Busy
  <2> QED
    BY <1>4, <2>1, <2>2 DEF Dispatch, stores, history, TypeOK, SinksOK
<1>5. ASSUME NEW e \in EnvelopeType, Settle(w, e), run[w].req \in Request
      PROVE  run' \in [Worker -> RunType] /\ req' \in [Request -> EnvelopeType]
  BY <1>5 DEF Settle, TypeOK, RunType, Idle
<1>6. CASE DispatchFails(w)
  <2>1. run[w].req \in Request /\ run[w].proj \in Projections
    BY <1>6 DEF DispatchFails, Control
  <2>2. Failed(req[run[w].req]) \in EnvelopeType
    <3> DEFINE e == req[run[w].req]
    <3>1. e \in EnvelopeType /\ e.attempts + 1 \in Nat
      BY <2>1 DEF TypeOK, EnvelopeType
    <3>2. ASSUME NEW s \in {"ready", "dead"}
          PROVE  [e EXCEPT !.attempts = e.attempts + 1, !.holder = None, !.state = s] \in EnvelopeType
      BY <3>1 DEF EnvelopeType
    <3> HIDE DEF e
    <3> QED
      BY <3>2 DEF Failed, e
  <2>3. run' \in [Worker -> RunType] /\ req' \in [Request -> EnvelopeType]
    BY <1>5, <1>6, <2>1, <2>2 DEF DispatchFails
  <2>4. SinksOK'
    BY <1>0, <1>6, <2>1, DecisionsAreTyped, EnqueueEffect, SinksIdle DEF DispatchFails, Busy
  <2> QED
    BY <1>6, <2>3, <2>4 DEF DispatchFails, stores, history, TypeOK, SinksOK
<1>7. CASE Finish(w)
  <2>1. run[w].req \in Request
    BY <1>7 DEF Finish, Control
  <2>2. \A s \in {"done", "ready"} :
          [req[run[w].req] EXCEPT !.state = s, !.holder = None] \in EnvelopeType
    BY <2>1 DEF TypeOK, EnvelopeType
  <2>3. run' \in [Worker -> RunType] /\ req' \in [Request -> EnvelopeType]
    BY <1>5, <1>7, <2>1, <2>2 DEF Finish
  <2> QED
    BY <1>7, <2>3, SinksIdle DEF Finish, stores, sinks, history, TypeOK, SinkTypes
<1> QED
  BY <1>1, <1>2, <1>3, <1>4, <1>6, <1>7 DEF Step

-----------------------------------------------------------------------------
(* Runs move on, or end in a settlement. *)

\* The run of w goes on to its next statement.
Moves(w) ==
  /\ run[w].pc # "idle" /\ run'[w].pc # "idle"
  /\ run'[w].req = run[w].req
  /\ \A v \in Worker \ {w} : run'[v] = run[v]
  /\ UNCHANGED <<projections, req, overrun>>

\* The run of w ends: its request is in one of these states, unless w lost the lease.
Ends(w, states) ==
  /\ run[w].pc # "idle" /\ run'[w] = Idle
  /\ \A v \in Worker \ {w} : run'[v] = run[v]
  /\ \A r \in Request : r # run[w].req \/ req[r].holder # w => req'[r] = req[r]
  /\ req[run[w].req].holder = w =>
       req'[run[w].req].state \in states /\ req'[run[w].req].holder = None
  /\ UNCHANGED <<projections, overrun, decisions, traces, decided>>

LEMMA SettleEnds ==
  ASSUME TypeOK, NEW w \in Worker, run[w].pc # "idle", run[w].req \in Request, NEW e,
         NEW states, e.state \in states, e.holder = None, Settle(w, e),
         UNCHANGED <<projections, overrun, decisions, traces, decided>>
  PROVE  Ends(w, states)
BY DEF Settle, Ends, TypeOK, Idle

LEMMA StepMovesOrEnds ==
  ASSUME TypeOK, NEW w \in Worker, Control(w), Step(w)
  PROVE  \/ Moves(w) /\ Dispatch(w)
         \/ Moves(w) /\ UNCHANGED sinks /\ (Skip(w) \/ Route(w) \/ UpsertTrace(w) \/ UpsertDecision(w))
         \/ Ends(w, {"ready", "dead"}) /\ DispatchFails(w)
         \/ Ends(w, {"ready", "done"}) /\ Finish(w) /\ UNCHANGED sinks
<1>1. CASE Skip(w) \/ Route(w) \/ UpsertTrace(w) \/ UpsertDecision(w)
  <2>1. UNCHANGED <<sinks, projections, req, overrun>>
    BY <1>1 DEF Skip, Route, UpsertTrace, UpsertDecision, history, sinks
  <2>2. /\ run[w].pc # "idle" /\ run'[w].pc # "idle" /\ run'[w].req = run[w].req
        /\ \A v \in Worker \ {w} : run'[v] = run[v]
    BY <1>1 DEF Skip, Route, UpsertTrace, UpsertDecision, Advance, AtItem, TypeOK, RunType
  <2> QED
    BY <1>1, <2>1, <2>2 DEF Moves
<1>4. CASE Dispatch(w)
  <2>1. UNCHANGED <<projections, req, overrun>>
    BY <1>4 DEF Dispatch, history
  <2> QED
    BY <1>4, <2>1 DEF Dispatch, Advance, Moves, TypeOK, RunType
<1>2. CASE DispatchFails(w)
  <2>1. run[w].pc # "idle" /\ run[w].req \in Request
    BY <1>2 DEF DispatchFails, Control
  <2> DEFINE e == Failed(req[run[w].req])
  <2>2. e.state \in {"ready", "dead"} /\ e.holder = None
    <3>1. req[run[w].req] \in EnvelopeType
      BY <2>1 DEF TypeOK
    <3> QED
      BY <3>1 DEF Failed, EnvelopeType
  <2>3. Settle(w, e) /\ UNCHANGED <<projections, overrun, decisions, traces, decided>>
    BY <1>2 DEF DispatchFails, stores, history
  <2> HIDE DEF e
  <2> QED
    BY <1>2, <2>1, <2>2, <2>3, SettleEnds
<1>3. CASE Finish(w)
  <2>1. run[w].pc # "idle" /\ run[w].req \in Request
    BY <1>3 DEF Finish, Control
  <2>2. PICK s \in {"done", "ready"} :
          Settle(w, [req[run[w].req] EXCEPT !.state = s, !.holder = None])
    BY <1>3 DEF Finish
  <2> DEFINE e == [req[run[w].req] EXCEPT !.state = s, !.holder = None]
  <2>3. e.state \in {"ready", "done"} /\ e.holder = None
    BY <2>1 DEF TypeOK, EnvelopeType
  <2>4. UNCHANGED <<projections, overrun, decisions, traces, decided>>
    BY <1>3 DEF Finish, stores, history
  <2> HIDE DEF e
  <2>5. Settle(w, e)
    BY <2>2 DEF e
  <2>6. UNCHANGED sinks
    BY <1>3 DEF Finish, sinks
  <2> QED
    BY <1>3, <2>1, <2>3, <2>4, <2>5, <2>6, SettleEnds
<1> QED
  BY <1>1, <1>2, <1>3, <1>4 DEF Step

LEMMA StepKeepsControl ==
  ASSUME TypeOK, NEW w \in Worker, \A v \in Worker : Control(v), Step(w)
  PROVE  \A v \in Worker : Control(v)'
<1>1. \A v \in Worker \ {w} : run'[v] = run[v]
  BY StepMovesOrEnds DEF Moves, Ends
<1>2. projections' = projections
  BY StepMovesOrEnds DEF Moves, Ends
<1>3. \A v \in Worker \ {w} : Control(v)'
  BY <1>1, <1>2 DEF Control, Current
<1>4. Control(w)'
  <2>1. CASE Skip(w) \/ Dispatch(w)
    <3>1. run[w].at \in 1 .. Len(Items[run[w].req]) /\ Len(Items[run[w].req]) \in Nat
      BY <2>1, CurrentIsMessage DEF Skip, Dispatch, Busy
    <3>2. run'[w].pc = "next" /\ run'[w].at = run[w].at + 1 /\ run'[w].req = run[w].req
      BY <2>1 DEF Skip, Dispatch, Advance, TypeOK, RunType
    <3> QED
      BY <2>1, <3>1, <3>2 DEF Control, Skip, Dispatch, AtItem
  <2>2. CASE Route(w)
    <3>1. projections[Current(w)] \in Projections
      BY <2>2, CurrentIsMessage DEF Route, TypeOK
    <3>2. run'[w].pc = "trace" /\ run'[w].proj = projections[Current(w)]
          /\ run'[w].at = run[w].at /\ run'[w].req = run[w].req
      BY <2>2 DEF Route, TypeOK, RunType
    <3> QED
      BY <1>2, <2>2, <3>1, <3>2, CurrentIsMessage DEF Control, Route, AtItem, Current
  <2>3. CASE UpsertTrace(w) \/ UpsertDecision(w)
    <3>1. run[w].pc \in {"trace", "decision"} /\ run'[w].pc \in {"decision", "dispatch"}
          /\ run'[w].proj = run[w].proj /\ run'[w].at = run[w].at /\ run'[w].req = run[w].req
      BY <2>3 DEF UpsertTrace, UpsertDecision, TypeOK, RunType
    <3> QED
      BY <1>2, <3>1 DEF Control, Current
  <2>4. CASE \E states : Ends(w, states)
    BY <2>4 DEF Ends, Control, Idle
  <2> QED
    BY <2>1, <2>2, <2>3, <2>4, StepMovesOrEnds
<1> QED
  BY <1>3, <1>4

LEMMA StepKeepsLeases ==
  ASSUME TypeOK, NEW w \in Worker, Control(w), \A r \in Request : Leases(r), Step(w)
  PROVE  \A r \in Request : Leases(r)'
<1> SUFFICES ASSUME NEW r \in Request PROVE Leases(r)'
  OBVIOUS
<1>0. req[r] \in EnvelopeType
  BY DEF TypeOK
<1>1. CASE Moves(w)
  BY <1>0, <1>1 DEF Moves, Leases, EnvelopeType
<1>2. ASSUME NEW states, states \subseteq {"ready", "done", "dead"}, Ends(w, states) PROVE Leases(r)'
  <2>1. CASE r = run[w].req /\ req[r].holder = w
    BY <1>2, <2>1 DEF Ends, Leases, Idle
  <2>2. CASE ~(r = run[w].req /\ req[r].holder = w)
    BY <1>0, <1>2, <2>2 DEF Ends, Leases, Idle
  <2> QED
    BY <2>1, <2>2
<1> QED
  BY <1>1, <1>2, StepMovesOrEnds

-----------------------------------------------------------------------------
(* What a step of a handler delivers, and what it still owes. *)

LEMMA DispatchDelivers ==
  ASSUME TypeOK, SinksOK, NEW w \in Worker, Control(w), Dispatch(w),
         NEW kind, kind = Decision(run[w].proj).target, NEW m, m = Current(w)
  PROVE  kind \in Kind /\ m \in Message /\ Keeps /\ OnlyNew(kind, m) /\ Received(kind, m)'
<1>1. run[w].proj \in Projections /\ kind \in Kind /\ m \in Message
  BY DecisionsAreTyped, CurrentIsMessage DEF Dispatch, Control, Busy
<1>2. Consume(kind, m, run[w].proj)
  BY DEF Dispatch
<1> QED
  BY <1>1, <1>2, ConsumeEffect

LEMMA FailureKeeps ==
  ASSUME TypeOK, SinksOK, NEW w \in Worker, Control(w), DispatchFails(w),
         NEW kind, kind = Decision(run[w].proj).target, NEW m, m = Current(w)
  PROVE  kind \in Kind /\ m \in Message /\ Keeps /\ OnlyNew(kind, m)
<1>1. kind \in Kind /\ m \in Message
  BY DecisionsAreTyped, CurrentIsMessage DEF DispatchFails, Control, Busy
<1>2. CASE UNCHANGED sinks
  BY <1>1, <1>2, SinksIdle DEF Keeps, OnlyNew
<1>3. CASE EnqueueUnique(m) /\ UNCHANGED <<receipts, drafts>>
  BY <1>1, <1>3, EnqueueEffect DEF DispatchFails
<1> QED
  BY <1>1, <1>2, <1>3 DEF DispatchFails

LEMMA IdleSinksKeep ==
  ASSUME UNCHANGED sinks
  PROVE  Keeps /\ \A k \in Kind, m \in Message : Received(k, m)' => Received(k, m)
BY DEF sinks, Keeps, Received

LEMMA StepKeepsDelivered ==
  ASSUME TypeOK, SinksOK, \A v \in Worker : Control(v), Delivered, NEW w \in Worker, Step(w)
  PROVE  Delivered'
<1>1. decided \subseteq decided'
  BY DEF Step, Skip, Route, UpsertTrace, UpsertDecision, Dispatch, DispatchFails, Finish, stores
<1>2. ASSUME NEW v \in Worker, run'[v].pc = "dispatch"
      PROVE  <<Decision(run'[v].proj).target, Current(v)'>> \in decided'
  <2>1. CASE v # w
    <3>1. run'[v] = run[v]
      BY <2>1, StepMovesOrEnds DEF Moves, Ends
    <3> QED
      BY <1>1, <1>2, <3>1 DEF Delivered, Current
  <2>2. CASE v = w
    <3>1. UpsertDecision(w)
      <4>1. CASE Skip(w) \/ Dispatch(w)
        BY <1>2, <2>2, <4>1 DEF Skip, Dispatch, Advance, TypeOK, RunType
      <4>2. CASE Route(w) \/ UpsertTrace(w)
        BY <1>2, <2>2, <4>2 DEF Route, UpsertTrace, TypeOK, RunType
      <4>3. CASE DispatchFails(w) \/ Finish(w)
        BY <1>2, <2>2, <4>3 DEF DispatchFails, Finish, Settle, Idle, TypeOK
      <4> QED
        BY <4>1, <4>2, <4>3 DEF Step
    <3>2. run'[w].proj = run[w].proj /\ run'[w].req = run[w].req /\ run'[w].at = run[w].at
      BY <3>1 DEF UpsertDecision, TypeOK, RunType
    <3>3. <<Decision(run[w].proj).target, Current(w)>> \in decided'
      BY <3>1 DEF UpsertDecision
    <3> QED
      BY <2>2, <3>2, <3>3 DEF Current
  <2> QED
    BY <2>1, <2>2
<1>3. DeliveredWasDecided'
  <2> SUFFICES ASSUME NEW m \in Message, NEW k \in Kind, ConsumerOf[k] # "none", Received(k, m)'
               PROVE  <<k, m>> \in decided'
    BY DEF DeliveredWasDecided
  <2>1. CASE Received(k, m)
    BY <1>1, <2>1 DEF Delivered, DeliveredWasDecided
  <2>2. CASE ~Received(k, m)
    <3>1. k = Decision(run[w].proj).target /\ m = Current(w) /\ run[w].pc = "dispatch"
      <4>1. CASE Dispatch(w)
        BY <2>2, <4>1, DispatchDelivers DEF OnlyNew, Dispatch
      <4>2. CASE DispatchFails(w)
        BY <2>2, <4>2, FailureKeeps DEF OnlyNew, DispatchFails
      <4>3. ~ UNCHANGED sinks
        BY <2>2, IdleSinksKeep
      <4> QED
        BY <4>1, <4>2, <4>3, StepMovesOrEnds
    <3> QED
      BY <1>1, <3>1 DEF Delivered
  <2> QED
    BY <2>1, <2>2
<1> QED
  BY <1>2, <1>3 DEF Delivered

LEMMA StepKeepsOwed ==
  ASSUME TypeOK, SinksOK, \A v \in Worker : Control(v), \A r \in Request : Leases(r),
         NEW m \in Message, Owed(m), NEW w \in Worker, Step(w)
  PROVE  Owed(m)'
<1> SUFFICES ASSUME decisions'[m] # None
             PROVE  /\ projections'[m] # None
                    /\ Naming(m) \cap overrun' = {} =>
                         \/ Received(decisions[m].target, m)'
                         \/ \E v \in Worker : Dispatching(v, m)'
                         \/ \E r \in Naming(m) : Ahead(r, m)'
  BY DEF Owed, Naming
<1>0. UNCHANGED <<projections, overrun>>
  BY StepMovesOrEnds DEF Moves, Ends
<1>1. CASE UpsertDecision(w) /\ Current(w) = m
  <2>1. projections[m] # None
    BY <1>1 DEF UpsertDecision, Control
  <2>2. /\ run'[w].pc = "dispatch" /\ run'[w].proj = run[w].proj
        /\ run'[w].req = run[w].req /\ run'[w].at = run[w].at
        /\ decisions'[m] = Decision(run[w].proj)
    BY <1>1 DEF UpsertDecision, TypeOK, RunType
  <2>3. Dispatching(w, m)'
    BY <1>1, <2>2 DEF Dispatching, Current
  <2> QED
    BY <1>0, <2>1, <2>3
<1>2. CASE ~ (UpsertDecision(w) /\ Current(w) = m)
  <2>1. decisions'[m] = decisions[m]
    BY <1>2, CurrentIsMessage DEF Step, Skip, Route, UpsertTrace, UpsertDecision, Dispatch,
                                  DispatchFails, Finish, stores, TypeOK
  <2> SUFFICES ASSUME Naming(m) \cap overrun = {}
               PROVE  \/ Received(decisions[m].target, m)'
                      \/ \E v \in Worker : Dispatching(v, m)'
                      \/ \E r \in Naming(m) : Ahead(r, m)'
    BY <1>0, <2>1 DEF Owed
  <2>2. PICK k \in Kind : k = decisions[m].target
    BY <2>1 DEF TypeOK
  <2>3. CASE Received(k, m)
    <3>1. Keeps
      BY StepMovesOrEnds, DispatchDelivers, FailureKeeps, IdleSinksKeep
    <3>2. Received(k, m)'
      BY <2>3, <3>1 DEF Keeps
    <3> QED
      BY <2>1, <2>2, <3>2 DEF Received
  <2>4. ASSUME NEW v \in Worker, Dispatching(v, m), v # w
        PROVE  Dispatching(v, m)'
    BY <2>1, <2>4, StepMovesOrEnds DEF Dispatching, Current, Moves, Ends
  <2>5. CASE Dispatching(w, m)
    <3>1. CASE Dispatch(w)
      <4>1. Received(k, m)'
        BY <2>2, <2>5, <3>1, DispatchDelivers DEF Dispatching
      <4> QED
        BY <2>1, <2>2, <4>1 DEF Received
    <3>2. CASE DispatchFails(w)
      <4> DEFINE r == run[w].req
      <4>1. r \in Request /\ run[w].at \in 1 .. Len(Items[r]) /\ Items[r][run[w].at] = m
        BY <2>5, <3>2, CurrentIsMessage DEF Dispatching, DispatchFails, Busy, Current
      <4>2. r \in Naming(m)
        BY <4>1 DEF Naming, ToSet
      <4>3. req[r].holder = w
        BY <2>5, <4>1, <4>2 DEF Leases, Dispatching
      <4>4. Ends(w, {"ready", "dead"})
        BY <3>2, StepMovesOrEnds DEF Step, Dispatch, DispatchFails, Skip, Route, UpsertTrace,
                                     UpsertDecision, Finish, Moves, Settle, Idle, AtItem, TypeOK
      <4>5. req'[r].state \in {"ready", "dead"}
        BY <4>3, <4>4 DEF Ends
      <4> QED
        BY <4>2, <4>5 DEF Ahead
    <3> QED
      BY <2>5, <3>1, <3>2 DEF Dispatching, Step, Skip, Route, UpsertTrace, UpsertDecision,
                              Finish, AtItem
  <2>6. ASSUME NEW r \in Naming(m), req[r].state \in {"ready", "dead"}
        PROVE  Ahead(r, m)'
    <3>1. r \in Request /\ req[r].holder # w
      BY <2>6, RouteDispatchAssumption DEF Naming, Leases
    <3>2. req'[r] = req[r]
      BY <3>1, StepMovesOrEnds DEF Moves, Ends
    <3> QED
      BY <2>6, <3>2 DEF Ahead
  <2>7. ASSUME NEW r \in Naming(m), req[r].state = "leased", NEW i \in 1 .. Len(Items[r]),
               Items[r][i] = m, NEW h \in Worker, h = req[r].holder,
               run[h].at < i \/ (run[h].at = i /\ run[h].pc \in {"next", "trace", "decision"})
        PROVE  Ahead(r, m)'
    <3>0. r \in Request /\ run[h].pc # "idle" /\ run[h].req = r
      BY <2>7 DEF Naming, Leases
    <3>1. CASE h # w
      <4>1. req'[r] = req[r] /\ run'[h] = run[h]
        BY <2>7, <3>0, <3>1, StepMovesOrEnds DEF Moves, Ends
      <4> QED
        BY <2>7, <4>1 DEF Ahead
    <3>2. CASE h = w /\ Moves(w)
      <4>1. req'[r] = req[r]
        BY <3>2 DEF Moves
      <4>2. run'[w].at < i \/ (run'[w].at = i /\ run'[w].pc \in {"next", "trace", "decision"})
        <5>0. projections[m] # None /\ run[w].at \in Nat /\ i \in Nat
          BY <2>1 DEF Owed, TypeOK, RunType
        <5>1. CASE Skip(w) \/ Dispatch(w)
          <6>1. run[w].at # i
            BY <2>7, <3>0, <3>2, <5>0, <5>1 DEF Skip, Dispatch, Current
          <6>2. run'[w].pc = "next" /\ run'[w].at = run[w].at + 1
            BY <5>1 DEF Skip, Dispatch, Advance, TypeOK, RunType
          <6> QED
            BY <2>7, <3>2, <5>0, <6>1, <6>2
        <5>2. CASE Route(w) \/ UpsertTrace(w)
          <6>1. run'[w].pc \in {"trace", "decision"} /\ run'[w].at = run[w].at
            BY <5>2 DEF Route, UpsertTrace, TypeOK, RunType
          <6> QED
            BY <2>7, <3>2, <6>1
        <5>3. CASE UpsertDecision(w)
          <6>1. run[w].at # i
            BY <1>2, <2>7, <3>0, <3>2, <5>3 DEF Current
          <6>2. run'[w].at = run[w].at
            BY <5>3 DEF UpsertDecision, TypeOK, RunType
          <6> QED
            BY <2>7, <3>2, <6>1, <6>2
        <5>4. ~ DispatchFails(w) /\ ~ Finish(w)
          BY <3>2 DEF Moves, DispatchFails, Finish, Settle, Idle, TypeOK
        <5> QED
          BY <5>1, <5>2, <5>3, <5>4 DEF Step
      <4> QED
        BY <2>7, <3>2, <4>1, <4>2 DEF Ahead
    <3>3. CASE h = w /\ ~ Moves(w)
      <4>1. ~ Finish(w)
        <5>1. run[w].at <= i /\ run[w].at \in Nat /\ Len(Items[r]) \in Nat
          BY <2>7, <3>0, <3>3, RouteDispatchAssumption DEF TypeOK, RunType
        <5> QED
          BY <3>0, <3>3, <5>1 DEF Finish
      <4>2. Ends(w, {"ready", "dead"})
        BY <3>3, <4>1, StepMovesOrEnds
      <4>3. req'[r].state \in {"ready", "dead"}
        BY <2>7, <3>0, <3>3, <4>2 DEF Ends
      <4> QED
        BY <4>3 DEF Ahead
    <3> QED
      BY <3>1, <3>2, <3>3
  <2>8. ASSUME NEW r \in Naming(m), Ahead(r, m), req[r].state = "leased"
        PROVE  Ahead(r, m)'
    <3>1. req[r].holder \in Worker
      BY <2>8 DEF Naming, Leases
    <3> QED
      BY <2>7, <2>8, <3>1 DEF Ahead
  <2>9. ASSUME NEW r \in Naming(m), Ahead(r, m)
        PROVE  Ahead(r, m)'
    BY <2>6, <2>8, <2>9 DEF Ahead
  <2> QED
    BY <2>1, <2>2, <2>3, <2>4, <2>5, <2>9 DEF Owed
<1> QED
  BY <1>1, <1>2

LEMMA StepKeepsIInv ==
  ASSUME IInv, NEW w \in Worker, Step(w)
  PROVE  IInv'
<1>1. TypeOK' /\ SinksOK'
  BY StepKeepsTypes DEF IInv
<1>2. \A v \in Worker : Control(v)'
  BY StepKeepsControl DEF IInv
<1>3. \A r \in Request : Leases(r)'
  BY StepKeepsLeases DEF IInv
<1>4. Delivered'
  BY StepKeepsDelivered DEF IInv
<1>5. \A m \in Message : Owed(m)'
  BY StepKeepsOwed DEF IInv
<1> QED
  BY <1>1, <1>2, <1>3, <1>4, <1>5 DEF IInv

-----------------------------------------------------------------------------
(* The other steps: the projection store, Worklane, the routed-work lane. *)

\* A projection is replaced, never removed, and a routing in progress keeps its own.
LEMMA ProjectKeepsIInv ==
  ASSUME IInv, NEW m \in Message, NEW p \in Projections, Project(m, p)
  PROVE  IInv'
<1>1. TypeOK' /\ SinksOK'
  BY SinksIdle DEF IInv, TypeOK, SinkTypes, Project, stores, sinks
<1>2. \A n \in Message : projections[n] # None => projections'[n] # None
  BY RouteDispatchAssumption DEF IInv, TypeOK, Project
<1>3. \A w \in Worker : Control(w)'
  <2> SUFFICES ASSUME NEW w \in Worker, run[w].pc # "idle", run[w].pc # "next"
               PROVE  projections'[Current(w)] # None
    BY DEF IInv, Control, Project, Current
  <2>1. Current(w) \in Message
    BY CurrentIsMessage DEF IInv, TypeOK, RunType, Busy
  <2> QED
    BY <1>2, <2>1 DEF IInv, Control
<1>4. \A r \in Request : Leases(r)'
  BY DEF IInv, Leases, Project
<1>5. Delivered'
  BY DEF IInv, Delivered, DeliveredWasDecided, Received, Project, stores, sinks, Current
<1>6. \A n \in Message : Owed(n)'
  BY <1>2 DEF IInv, Owed, Received, Dispatching, Ahead, Current, Project, stores, sinks
<1> QED
  BY <1>1, <1>3, <1>4, <1>5, <1>6 DEF IInv

\* A delivery starts at the first message: everything the request names is ahead of it.
LEMMA ReserveKeepsIInv ==
  ASSUME IInv, NEW w \in Worker, NEW r \in Request, Reserve(w, r)
  PROVE  IInv'
<1>0. /\ req[r].state = "ready" /\ run[w].pc = "idle"
      /\ req'[r].state = "leased" /\ req'[r].holder = w
      /\ \A s \in Request \ {r} : req'[s] = req[s]
      /\ run'[w] = [pc |-> "next", req |-> r, at |-> 1, proj |-> None]
      /\ \A v \in Worker \ {w} : run'[v] = run[v]
      /\ UNCHANGED <<projections, stores, sinks, overrun>>
  BY DEF Reserve, IInv, TypeOK, EnvelopeType, history
<1>1. TypeOK' /\ SinksOK'
  <2>1. run' \in [Worker -> RunType]
    BY DEF Reserve, IInv, TypeOK, RunType, Busy
  <2>2. req' \in [Request -> EnvelopeType]
    BY DEF Reserve, IInv, TypeOK, EnvelopeType
  <2> QED
    BY <1>0, <2>1, <2>2, SinksIdle DEF IInv, TypeOK, SinkTypes, stores, sinks
<1>2. \A v \in Worker : Control(v)'
  <2>1. Len(Items[r]) \in Nat
    BY RouteDispatchAssumption
  <2> QED
    BY <1>0, <2>1 DEF IInv, Control, Current
<1>3. \A s \in Request : Leases(s)'
  <2> SUFFICES ASSUME NEW s \in Request PROVE Leases(s)'
    OBVIOUS
  <2>1. CASE s = r
    BY <1>0, <2>1 DEF IInv, Leases
  <2>2. CASE s # r
    BY <1>0, <2>2 DEF IInv, Leases
  <2> QED
    BY <2>1, <2>2
<1>4. Delivered'
  BY <1>0 DEF IInv, Delivered, DeliveredWasDecided, Received, stores, sinks, Current
<1>5. ASSUME NEW m \in Message PROVE Owed(m)'
  <2> SUFFICES ASSUME decisions[m] # None, Naming(m) \cap overrun = {}
               PROVE  \/ Received(decisions[m].target, m)'
                      \/ \E v \in Worker : Dispatching(v, m)'
                      \/ \E s \in Naming(m) : Ahead(s, m)'
    BY <1>0 DEF IInv, Owed, stores, Naming
  <2>1. CASE Received(decisions[m].target, m)
    BY <1>0, <2>1 DEF Received, stores, sinks
  <2>2. ASSUME NEW v \in Worker, Dispatching(v, m)
        PROVE  Dispatching(v, m)'
    BY <1>0, <2>2 DEF Dispatching, Current, stores
  <2>3. ASSUME NEW s \in Naming(m), Ahead(s, m)
        PROVE  Ahead(s, m)'
    <3>1. CASE s = r
      <4>1. PICK i \in 1 .. Len(Items[r]) : Items[r][i] = m
        BY <3>1 DEF Naming, ToSet
      <4>2. i = 1 \/ 1 < i
        BY <4>1, RouteDispatchAssumption
      <4> QED
        BY <1>0, <3>1, <4>1, <4>2 DEF Ahead
    <3>2. CASE s # r
      <4>1. s \in Request /\ req'[s] = req[s]
        BY <1>0, <3>2 DEF Naming
      <4>2. req[s].state = "leased" => req[s].holder \in Worker \ {w}
        BY <1>0, <4>1 DEF IInv, Leases
      <4> QED
        BY <1>0, <2>3, <4>1, <4>2 DEF Ahead
    <3> QED
      BY <3>1, <3>2
  <2> QED
    BY <2>1, <2>2, <2>3 DEF IInv, Owed
<1> QED
  BY <1>1, <1>2, <1>3, <1>4, <1>5 DEF IInv

\* A request that ends without its handler is dead or ready, and is not to be taken
\* as acknowledged; a lease that ends under its handler excuses what the request owes.
LEMMA WorklaneKeepsIInv ==
  ASSUME IInv, NEW r \in Request, Abandon(r) \/ Expire(r)
  PROVE  IInv'
<1>0. /\ req'[r].state \in {"ready", "dead"} /\ req'[r].holder = None
      /\ \A s \in Request \ {r} : req'[s] = req[s]
      /\ UNCHANGED <<projections, stores, sinks, run>>
      /\ overrun \subseteq overrun'
      /\ req[r].state = "leased" => r \in overrun'
  BY DEF Abandon, Expire, IInv, TypeOK, EnvelopeType, Leases, history
<1>1. TypeOK' /\ SinksOK'
  <2>1. req' \in [Request -> EnvelopeType]
    BY DEF Abandon, Expire, IInv, TypeOK, EnvelopeType
  <2>2. overrun' \subseteq Request
    BY DEF Abandon, Expire, IInv, TypeOK, history
  <2> QED
    BY <1>0, <2>1, <2>2, SinksIdle DEF IInv, TypeOK, SinkTypes, stores, sinks
<1>2. \A w \in Worker : Control(w)'
  BY <1>0 DEF IInv, Control, Current
<1>3. \A s \in Request : Leases(s)'
  <2> SUFFICES ASSUME NEW s \in Request PROVE Leases(s)'
    OBVIOUS
  <2>1. CASE s = r
    BY <1>0, <2>1 DEF IInv, Leases
  <2>2. CASE s # r
    BY <1>0, <2>2 DEF IInv, Leases
  <2> QED
    BY <2>1, <2>2
<1>4. Delivered'
  BY <1>0 DEF IInv, Delivered, DeliveredWasDecided, Received, stores, sinks, Current
<1>5. ASSUME NEW m \in Message PROVE Owed(m)'
  <2>1. \A k : Received(k, m)' <=> Received(k, m)
    BY <1>0 DEF Received, sinks
  <2>2. \A v \in Worker : Dispatching(v, m)' <=> Dispatching(v, m)
    BY <1>0 DEF Dispatching, Current, stores
  <2>3. \A s \in Naming(m) : Ahead(s, m) => Ahead(s, m)'
    BY <1>0 DEF Ahead, Naming
  <2> QED
    BY <1>0, <2>1, <2>2, <2>3 DEF IInv, Owed, stores, Naming, Received
<1> QED
  BY <1>1, <1>2, <1>3, <1>4, <1>5 DEF IInv

\* A routed-work job that ends leaves its message received.
LEMMA RunRoutedWorkKeepsIInv ==
  ASSUME IInv, NEW m \in Message, RunRoutedWork(m)
  PROVE  IInv'
<1>0. UNCHANGED <<projections, stores, receipts, drafts, enqueued, req, run, overrun>>
  BY DEF RunRoutedWork, history
<1>1. TypeOK' /\ SinksOK'
  BY <1>0 DEF RunRoutedWork, IInv, TypeOK, SinksOK, SinkTypes, OneLiveJob, stores
<1>2. \A w \in Worker : Control(w)'
  BY <1>0 DEF IInv, Control, Current
<1>3. \A r \in Request : Leases(r)'
  BY <1>0 DEF IInv, Leases
<1>4. Delivered'
  BY <1>0 DEF IInv, Delivered, DeliveredWasDecided, Received, stores, Current
<1>5. \A n \in Message : Owed(n)'
  BY <1>0 DEF IInv, Owed, Received, Dispatching, Ahead, Current, stores
<1> QED
  BY <1>1, <1>2, <1>3, <1>4, <1>5 DEF IInv

LEMMA StutterKeepsIInv == IInv /\ UNCHANGED vars => IInv'
<1> SUFFICES ASSUME IInv, UNCHANGED vars PROVE IInv'
  OBVIOUS
<1>1. TypeOK' /\ SinksOK'
  BY SinksIdle DEF IInv, TypeOK, SinkTypes, vars, stores, sinks, history
<1>2. (\A w \in Worker : Control(w)') /\ (\A r \in Request : Leases(r)')
  BY DEF IInv, Control, Current, Leases, vars, history
<1>3. Delivered'
  BY DEF IInv, Delivered, DeliveredWasDecided, Received, vars, stores, sinks, Current
<1>4. \A n \in Message : Owed(n)'
  BY DEF IInv, Owed, Received, Dispatching, Ahead, Current, vars, stores, sinks, history
<1> QED
  BY <1>1, <1>2, <1>3, <1>4 DEF IInv

LEMMA NextKeepsIInv == IInv /\ [Next]_vars => IInv'
BY StepKeepsIInv, ProjectKeepsIInv, ReserveKeepsIInv, WorklaneKeepsIInv,
   RunRoutedWorkKeepsIInv, StutterKeepsIInv DEF Next

\* The inductive invariant: a stored decision is delivered, or somebody owes it.
THEOREM Invariance == Spec => []IInv
BY InitIInv, NextKeepsIInv, PTL DEF Spec

\* The stores, the consumers, the lane and the handlers hold values of their types.
THEOREM TypeCorrect == Spec => []TypeOK
<1>1. IInv => TypeOK
  BY DEF IInv
<1> QED
  BY <1>1, Invariance, PTL

\* RouteJob upserts the decision before it dispatches: no consumer has a message that
\* was not decided for it.
THEOREM DeliveriesWereDecided == Spec => []DeliveredWasDecided
<1>1. IInv => DeliveredWasDecided
  BY DEF IInv, Delivered
<1> QED
  BY <1>1, Invariance, PTL

\* A consumer failure fails the job: once the requests that name a message are
\* acknowledged, and none of their leases ended under a handler, the consumer of the
\* stored decision has the message.
THEOREM DecisionsAreDelivered == Spec => []DecidedIsDelivered
<1>1. IInv => DecidedIsDelivered
  <2> SUFFICES ASSUME IInv, NEW m \in Message, Settled(m), Naming(m) \cap overrun = {},
                      decisions[m] # None
               PROVE  Received(decisions[m].target, m)
    BY DEF DecidedIsDelivered
  <2>1. \A r \in Naming(m) : ~ Ahead(r, m)
    BY DEF Settled, Ahead
  <2>2. ASSUME NEW w \in Worker, Dispatching(w, m) PROVE FALSE
    <3>1. run[w].req \in Request /\ run[w].at \in 1 .. Len(Items[run[w].req])
      BY <2>2, CurrentIsMessage DEF IInv, Dispatching, Busy
    <3>2. run[w].req \in Naming(m)
      BY <2>2, <3>1 DEF Dispatching, Current, Naming, ToSet
    <3> QED
      BY <2>2, <3>2 DEF Settled, Dispatching
  <2> QED
    BY <2>1, <2>2 DEF IInv, Owed
<1> QED
  BY <1>1, Invariance, PTL

-----------------------------------------------------------------------------
(* One worker: the trace that is stored explains the decision that is stored. *)

OneWorker == \A v, w \in Worker : v = w

LEMMA StepExplains ==
  ASSUME OneWorker, IInv, NEW w \in Worker, Step(w), \A m \in Message : Explained(m),
         NEW m \in Message
  PROVE  Explained(m)'
<1>0. /\ \A v \in Worker : v = w
      /\ run[w] \in RunType /\ Control(w)
      /\ AtItem(w) \/ run[w].pc \in Busy \ {"next"} => Current(w) \in Message
  BY CurrentIsMessage DEF OneWorker, IInv, TypeOK
<1>1. CASE UpsertTrace(w)
  <2>1. /\ run[w].pc = "trace" /\ run'[w].pc = "decision" /\ run'[w].proj = run[w].proj
        /\ Current(w)' = Current(w) /\ decisions' = decisions
    BY <1>1 DEF UpsertTrace, IInv, TypeOK, RunType, Current
  <2>2. CASE m = Current(w)
    <3>1. traces'[m] = Trace(run[w].proj)
      BY <1>1, <2>2 DEF UpsertTrace, IInv, TypeOK
    <3> QED
      BY <1>0, <2>1, <2>2, <3>1 DEF Explained
  <2>3. CASE m # Current(w)
    <3>1. traces'[m] = traces[m]
      BY <1>1, <2>3 DEF UpsertTrace, IInv, TypeOK
    <3> QED
      BY <1>0, <2>1, <2>3, <3>1 DEF Explained
  <2> QED
    BY <2>2, <2>3
<1>2. CASE UpsertDecision(w)
  <2>1. /\ run[w].pc = "decision" /\ run'[w].pc = "dispatch" /\ traces' = traces
    BY <1>2 DEF UpsertDecision, IInv, TypeOK, RunType
  <2>2. CASE m = Current(w)
    <3>1. run[w].proj \in Projections /\ traces[m] = Trace(run[w].proj)
      BY <2>1, <2>2, <1>0 DEF Explained, Control
    <3>2. decisions'[m] = Decision(run[w].proj)
      BY <1>2, <2>2 DEF UpsertDecision, IInv, TypeOK
    <3> QED
      BY <1>0, <2>1, <3>1, <3>2, TraceEndsInDecision DEF Explained
  <2>3. CASE m # Current(w)
    <3>1. decisions'[m] = decisions[m]
      BY <1>2, <2>3 DEF UpsertDecision, IInv, TypeOK
    <3> QED
      BY <1>0, <2>1, <2>3, <3>1 DEF Explained
  <2> QED
    BY <2>2, <2>3
<1>3. CASE ~ UpsertTrace(w) /\ ~ UpsertDecision(w)
  <2>1. run[w].pc # "decision" /\ UNCHANGED <<traces, decisions>>
    BY <1>3 DEF Step, Skip, Route, Dispatch, DispatchFails, Finish, AtItem, stores
  <2>2. run'[w].pc # "decision"
    BY <1>3 DEF Step, Skip, Route, Dispatch, DispatchFails, Finish, Advance, Settle, Idle,
                IInv, TypeOK, RunType
  <2> QED
    BY <1>0, <2>1, <2>2 DEF Explained
<1> QED
  BY <1>1, <1>2, <1>3

LEMMA NextExplains ==
  ASSUME OneWorker, IInv, [Next]_vars, \A m \in Message : Explained(m), NEW m \in Message
  PROVE  Explained(m)'
<1>1. CASE \E w \in Worker : Step(w)
  BY <1>1, StepExplains
<1>2. ASSUME NEW w \in Worker, NEW r \in Request, Reserve(w, r) PROVE Explained(m)'
  <2>1. run[w].pc = "idle" /\ run'[w].pc = "next" /\ UNCHANGED <<traces, decisions>>
    BY <1>2 DEF Reserve, IInv, TypeOK, stores
  <2>2. \A v \in Worker : v = w
    BY DEF OneWorker
  <2> QED
    BY <2>1, <2>2 DEF Explained
<1>3. CASE \E n \in Message, p \in Projections : Project(n, p)
  BY <1>3 DEF Project, Explained, Current, stores
<1>4. CASE \E r \in Request : Abandon(r) \/ Expire(r)
  BY <1>4 DEF Abandon, Expire, Explained, Current, stores
<1>5. CASE \E n \in Message : RunRoutedWork(n)
  BY <1>5 DEF RunRoutedWork, Explained, Current, stores
<1>6. CASE UNCHANGED vars
  BY <1>6 DEF vars, Explained, Current, stores
<1> QED
  BY <1>1, <1>2, <1>3, <1>4, <1>5, <1>6 DEF Next

\* One routing edge: once the requests that name a message are acknowledged, the stored
\* trace ends in the target of the stored decision, whatever the projection became
\* between the two upserts.
THEOREM TracesExplainDecisions ==
  ASSUME OneWorker
  PROVE  Spec => []TraceExplainsDecision
<1> DEFINE E == \A m \in Message : Explained(m)
<1>1. Init => E
  BY DEF Init, Explained, Idle
<1>2. IInv /\ E /\ [Next]_vars => E'
  BY NextExplains
<1>3. IInv /\ E => TraceExplainsDecision
  <2> SUFFICES ASSUME IInv, E, NEW m \in Message, Settled(m), decisions[m] # None
               PROVE  Last(traces[m]).target = decisions[m].target
    BY DEF TraceExplainsDecision
  <2>1. ASSUME NEW w \in Worker, run[w].pc = "decision", Current(w) = m PROVE FALSE
    <3>1. run[w].req \in Request /\ run[w].at \in 1 .. Len(Items[run[w].req])
      BY <2>1, CurrentIsMessage DEF IInv, Busy
    <3>2. run[w].req \in Naming(m)
      BY <2>1, <3>1 DEF Current, Naming, ToSet
    <3> QED
      BY <2>1, <3>2 DEF Settled
  <2> QED
    BY <2>1 DEF Explained
<1> QED
  BY <1>1, <1>2, <1>3, Invariance, PTL DEF Spec

-----------------------------------------------------------------------------
(* The jobs of a message are bounded by the deliveries of its requests.    *)

\* A request names a message once.
NamesOnce ==
  \A r \in Request : \A i, j \in 1 .. Len(Items[r]) : Items[r][i] = Items[r][j] => i = j

\* The runs that have m still ahead of them.
Coming(m) ==
  {w \in Worker : /\ run[w].pc # "idle"
                  /\ \E i \in 1 .. Len(Items[run[w].req]) :
                       run[w].at <= i /\ Items[run[w].req][i] = m}

\* The deliveries of the requests that name m, each on its own.
Granted(m) == Tickets([r \in Request |-> req[r].deliveries], Naming(m))

\* Every job of m used up a delivery, and every run that may make another has one left.
JInv ==
  /\ \A r \in Request : req[r].deliveries \in 0 .. MaxDeliveries
  /\ \A m \in Message : enqueued[m] + Cardinality(Coming(m)) <= Cardinality(Granted(m))

LEMMA JobSets ==
  ASSUME IsFiniteSet(Worker), IsFiniteSet(Request), NEW m,
         \A r \in Request : req[r].deliveries \in 0 .. MaxDeliveries
  PROVE  /\ IsFiniteSet(Coming(m)) /\ Cardinality(Coming(m)) \in Nat
         /\ IsFiniteSet(Granted(m)) /\ Cardinality(Granted(m)) \in Nat
         /\ DeliveriesOf(m) = Cardinality(Granted(m))
<1> DEFINE f == [r \in Request |-> req[r].deliveries]
<1>1. Coming(m) \in SUBSET Worker /\ Naming(m) \in SUBSET Request
  BY DEF Coming, Naming
<1>2. IsFiniteSet(Coming(m)) /\ IsFiniteSet(Naming(m))
  BY <1>1, FS_Subset
<1>3. Counts(f, Naming(m))
  BY <1>1, RouteDispatchAssumption DEF Counts
<1> HIDE DEF f
<1>4. /\ IsFiniteSet(Tickets(f, Naming(m))) /\ Cardinality(Tickets(f, Naming(m))) \in Nat
      /\ FoldFunctionOnSet(+, 0, f, Naming(m)) = Cardinality(Tickets(f, Naming(m)))
  BY <1>2, <1>3, TicketsAreFinite, SumIsTickets
<1> QED
  BY <1>2, <1>4, FS_CardinalityType DEF f, Granted, DeliveriesOf

\* A step that counts no delivery, and starts no run, adds at most one job of a message
\* and ends the way to it of the run that made it.
LEMMA JobStep ==
  ASSUME IsFiniteSet(Worker), IsFiniteSet(Request), JInv,
         \A r \in Request : req'[r].deliveries = req[r].deliveries,
         NEW m \in Message, enqueued[m] \in Nat, Coming(m)' \subseteq Coming(m),
         \/ enqueued'[m] = enqueued[m]
         \/ enqueued'[m] = enqueued[m] + 1 /\ \E w \in Coming(m) : w \notin Coming(m)'
  PROVE  enqueued'[m] + Cardinality(Coming(m)') <= Cardinality(Granted(m)')
<1>1. Granted(m)' = Granted(m)
  <2>1. [r \in Request |-> req[r].deliveries]' = [r \in Request |-> req[r].deliveries]
    OBVIOUS
  <2> QED
    BY <2>1 DEF Granted, Tickets, Naming
<1>2. PICK A, B : A = Coming(m) /\ B = Coming(m)'
  OBVIOUS
<1>3. IsFiniteSet(A) /\ Cardinality(A) \in Nat /\ Cardinality(Granted(m)) \in Nat
  BY <1>2, JobSets DEF JInv
<1>4. IsFiniteSet(B) /\ Cardinality(B) \in Nat /\ Cardinality(B) <= Cardinality(A)
      /\ (Cardinality(B) = Cardinality(A) => A = B)
  <2>1. B \in SUBSET A
    BY <1>2
  <2> QED
    BY <1>3, <2>1, FS_Subset, FS_CardinalityType
<1>5. enqueued[m] + Cardinality(A) <= Cardinality(Granted(m))
  BY <1>2 DEF JInv
<1>6. enqueued'[m] + Cardinality(B) <= Cardinality(Granted(m))
  BY <1>2, <1>3, <1>4, <1>5
<1> QED
  BY <1>1, <1>2, <1>6

\* A delivery adds a ticket for every message that it may make a job of.
LEMMA ReserveJob ==
  ASSUME IsFiniteSet(Worker), IsFiniteSet(Request), IInv, JInv,
         NEW w \in Worker, NEW r \in Request, Reserve(w, r), NEW m \in Message
  PROVE  enqueued'[m] + Cardinality(Coming(m)') <= Cardinality(Granted(m)')
<1> DEFINE d == req[r].deliveries
<1>1. /\ run[w].pc = "idle" /\ run'[w].req = r
      /\ \A v \in Worker \ {w} : run'[v] = run[v]
      /\ d < MaxDeliveries /\ req'[r].deliveries = d + 1 /\ d \in Nat
      /\ \A s \in Request \ {r} : req'[s] = req[s]
      /\ enqueued' = enqueued /\ enqueued[m] \in Nat
  BY DEF Reserve, IInv, TypeOK, SinkTypes, EnvelopeType, RunType, sinks
<1>2. Coming(m)' \subseteq Coming(m) \cup {w}
  BY <1>1 DEF Coming
<1>3. Granted(m) \subseteq Granted(m)'
  BY <1>1 DEF Granted, Tickets, Naming
<1>4. PICK A, B, C, D : A = Coming(m) /\ B = Coming(m)' /\ C = Granted(m) /\ D = Granted(m)'
  OBVIOUS
<1>5. \A s \in Request : req'[s].deliveries \in 0 .. MaxDeliveries
  BY <1>1, RouteDispatchAssumption DEF JInv
<1>6. /\ IsFiniteSet(A) /\ Cardinality(A) \in Nat /\ IsFiniteSet(C) /\ Cardinality(C) \in Nat
  BY <1>4, JobSets DEF JInv
<1>7. IsFiniteSet(D) /\ Cardinality(D) \in Nat
  <2>1. PICK g : g = [s \in Request |-> req'[s].deliveries]
    OBVIOUS
  <2>2. D = Tickets(g, Naming(m))
    BY <1>4, <2>1 DEF Granted, Naming, Tickets
  <2>3. Naming(m) \in SUBSET Request
    BY DEF Naming
  <2>4. IsFiniteSet(Naming(m))
    BY <2>3, FS_Subset
  <2>5. Counts(g, Naming(m))
    BY <1>5, <2>1, <2>3, RouteDispatchAssumption DEF Counts
  <2> QED
    BY <2>2, <2>4, <2>5, TicketsAreFinite
<1>8. enqueued[m] + Cardinality(A) <= Cardinality(C)
  BY <1>4 DEF JInv
<1>9. CASE r \in Naming(m)
  <2>1. <<r, d + 1>> \notin C /\ C \cup {<<r, d + 1>>} \in SUBSET D
    BY <1>1, <1>3, <1>4, <1>9 DEF Granted, Tickets, Naming
  <2>2. B \in SUBSET (A \cup {w})
    BY <1>2, <1>4
  <2> DEFINE E == C \cup {<<r, d + 1>>}
             F == A \cup {w}
  <2>3. IsFiniteSet(E) /\ Cardinality(E) = Cardinality(C) + 1
    BY <1>6, <2>1, FS_AddElement
  <2>4. IsFiniteSet(F) /\ Cardinality(F) <= Cardinality(A) + 1 /\ Cardinality(F) \in Nat
    <3>1. Cardinality(F) = IF w \in A THEN Cardinality(A) ELSE Cardinality(A) + 1
      BY <1>6, FS_AddElement
    <3> QED
      BY <1>6, <3>1, FS_AddElement
  <2> HIDE DEF E, F
  <2>5. Cardinality(E) <= Cardinality(D)
    BY <1>7, <2>1, FS_Subset DEF E
  <2>6. Cardinality(B) <= Cardinality(F) /\ Cardinality(B) \in Nat
    BY <2>2, <2>4, FS_Subset, FS_CardinalityType DEF F
  <2>7. enqueued[m] + Cardinality(B) <= Cardinality(D)
    BY <1>1, <1>6, <1>7, <1>8, <2>3, <2>4, <2>5, <2>6
  <2> QED
    BY <1>1, <1>4, <2>7
<1>10. CASE r \notin Naming(m)
  <2>1. w \notin B
    BY <1>1, <1>4, <1>10 DEF Coming, Naming, ToSet
  <2>2. B \in SUBSET A /\ C \in SUBSET D
    BY <1>2, <1>3, <1>4, <2>1
  <2>3. Cardinality(B) <= Cardinality(A) /\ Cardinality(B) \in Nat /\ Cardinality(C) <= Cardinality(D)
    BY <1>6, <1>7, <2>2, FS_Subset, FS_CardinalityType
  <2>4. enqueued[m] + Cardinality(B) <= Cardinality(D)
    BY <1>1, <1>6, <1>7, <1>8, <2>3
  <2> QED
    BY <1>1, <1>4, <2>4
<1> QED
  BY <1>9, <1>10

\* No step of a handler counts a delivery.
LEMMA StepDeliversNothing ==
  ASSUME TypeOK, NEW w \in Worker, Control(w), Step(w), NEW r \in Request
  PROVE  req'[r].deliveries = req[r].deliveries
<1>1. CASE Skip(w) \/ Route(w) \/ UpsertTrace(w) \/ UpsertDecision(w) \/ Dispatch(w)
  BY <1>1 DEF Skip, Route, UpsertTrace, UpsertDecision, Dispatch
<1>2. ASSUME NEW e, e.deliveries = req[run[w].req].deliveries, Settle(w, e)
      PROVE  req'[r].deliveries = req[r].deliveries
  BY <1>2 DEF Settle, TypeOK
<1>3. CASE DispatchFails(w)
  <2>1. run[w].req \in Request
    BY <1>3 DEF DispatchFails, Control
  <2>2. Failed(req[run[w].req]).deliveries = req[run[w].req].deliveries
    BY <2>1 DEF Failed, TypeOK, EnvelopeType
  <2>3. PICK e : e = Failed(req[run[w].req])
    OBVIOUS
  <2>4. Settle(w, e)
    BY <1>3, <2>3 DEF DispatchFails
  <2> QED
    BY <1>2, <2>2, <2>3, <2>4
<1>4. CASE Finish(w)
  <2>1. run[w].req \in Request
    BY <1>4 DEF Finish, Control
  <2>2. PICK s \in {"done", "ready"} :
          Settle(w, [req[run[w].req] EXCEPT !.state = s, !.holder = None])
    BY <1>4 DEF Finish
  <2>3. PICK e : e = [req[run[w].req] EXCEPT !.state = s, !.holder = None]
    OBVIOUS
  <2>4. e.deliveries = req[run[w].req].deliveries
    BY <2>1, <2>3 DEF TypeOK, EnvelopeType
  <2> QED
    BY <1>2, <2>2, <2>3, <2>4
<1> QED
  BY <1>1, <1>3, <1>4 DEF Step

\* A handler goes forward, or ends.
LEMMA StepComesCloser ==
  ASSUME TypeOK, NEW w \in Worker, Control(w), Step(w), NEW m
  PROVE  Coming(m)' \subseteq Coming(m)
<1>1. CASE Skip(w) \/ Route(w) \/ UpsertTrace(w) \/ UpsertDecision(w) \/ Dispatch(w)
  <2>1. /\ run[w].pc # "idle" /\ run'[w].req = run[w].req /\ run[w].at \in Nat
        /\ run'[w].at \in {run[w].at, run[w].at + 1}
        /\ \A v \in Worker \ {w} : run'[v] = run[v]
    BY <1>1 DEF Skip, Route, UpsertTrace, UpsertDecision, Dispatch, Advance, AtItem, TypeOK, RunType
  <2>2. \A i \in 1 .. Len(Items[run[w].req]) : run'[w].at <= i => run[w].at <= i
    BY <2>1
  <2> QED
    BY <2>1, <2>2 DEF Coming
<1>2. CASE DispatchFails(w) \/ Finish(w)
  <2>1. run'[w].pc = "idle" /\ \A v \in Worker \ {w} : run'[v] = run[v]
    BY <1>2 DEF DispatchFails, Finish, Settle, Idle, TypeOK
  <2> QED
    BY <2>1 DEF Coming
<1> QED
  BY <1>1, <1>2 DEF Step

\* A handler makes a job of the message at hand only, and has it behind it then.
LEMMA StepEnqueues ==
  ASSUME NamesOnce, TypeOK, NEW w \in Worker, Control(w), Step(w), NEW m \in Message
  PROVE  \/ enqueued'[m] = enqueued[m]
         \/ enqueued'[m] = enqueued[m] + 1 /\ \E v \in Coming(m) : v \notin Coming(m)'
<1>1. CASE Skip(w) \/ Route(w) \/ UpsertTrace(w) \/ UpsertDecision(w) \/ Finish(w)
  BY <1>1 DEF Skip, Route, UpsertTrace, UpsertDecision, Finish, sinks
<1>2. CASE Dispatch(w) \/ DispatchFails(w)
  <2>1. /\ run[w].pc = "dispatch" /\ run[w].req \in Request
        /\ run[w].at \in 1 .. Len(Items[run[w].req]) /\ Len(Items[run[w].req]) \in Nat
        /\ Current(w) \in Message
    BY <1>2, CurrentIsMessage DEF Dispatch, DispatchFails, Busy
  <2>2. enqueued' = enqueued \/ enqueued' = [enqueued EXCEPT ![Current(w)] = @ + 1]
    BY <1>2 DEF Dispatch, DispatchFails, Consume, EnqueueUnique, sinks
  <2>3. CASE enqueued'[m] # enqueued[m]
    <3>1. m = Current(w) /\ enqueued'[m] = enqueued[m] + 1
      BY <2>1, <2>2, <2>3 DEF TypeOK, SinkTypes
    <3>2. w \in Coming(m)
      <4>1. run[w].at <= run[w].at /\ Items[run[w].req][run[w].at] = m
        BY <2>1, <3>1 DEF Current
      <4>2. run[w].pc # "idle"
        BY <2>1
      <4> QED
        BY <2>1, <4>1, <4>2 DEF Coming
    <3>3. w \notin Coming(m)'
      <4>1. CASE Dispatch(w)
        <5>1. run'[w].at = run[w].at + 1 /\ run'[w].req = run[w].req
          BY <4>1 DEF Dispatch, Advance, TypeOK, RunType
        <5>2. \A i \in 1 .. Len(Items[run[w].req]) : Items[run[w].req][i] = m => i = run[w].at
          BY <2>1, <3>1 DEF NamesOnce, Current
        <5> QED
          BY <2>1, <5>1, <5>2 DEF Coming
      <4>2. CASE DispatchFails(w)
        <5>1. run'[w].pc = "idle"
          BY <4>2 DEF DispatchFails, Settle, Idle, TypeOK
        <5> QED
          BY <5>1 DEF Coming
      <4> QED
        BY <1>2, <4>1, <4>2
    <3> QED
      BY <3>1, <3>2, <3>3
  <2> QED
    BY <2>3
<1> QED
  BY <1>1, <1>2 DEF Step

LEMMA StepKeepsJInv ==
  ASSUME NamesOnce, IsFiniteSet(Worker), IsFiniteSet(Request)
  PROVE  IInv /\ JInv /\ [Next]_vars => JInv'
<1> SUFFICES ASSUME IInv, JInv, [Next]_vars PROVE JInv'
  OBVIOUS
<1>0. TypeOK /\ (\A w \in Worker : Control(w)) /\ \A m \in Message : enqueued[m] \in Nat
  BY DEF IInv, TypeOK, SinkTypes
<1>1. ASSUME NEW w \in Worker, Step(w)
      PROVE  JInv'
  <2>1. \A r \in Request : req'[r].deliveries = req[r].deliveries
    BY <1>0, <1>1, StepDeliversNothing
  <2>2. \A m \in Message : enqueued'[m] + Cardinality(Coming(m)') <= Cardinality(Granted(m)')
    BY <1>0, <1>1, <2>1, StepComesCloser, StepEnqueues, JobStep
  <2> QED
    BY <2>1, <2>2 DEF JInv
<1>2. ASSUME NEW w \in Worker, NEW r \in Request, Reserve(w, r)
      PROVE  JInv'
  <2>1. \A s \in Request : req'[s].deliveries \in 0 .. MaxDeliveries
    BY <1>0, <1>2, RouteDispatchAssumption DEF Reserve, JInv, TypeOK, EnvelopeType
  <2> QED
    BY <1>2, <2>1, ReserveJob DEF JInv
<1>3. CASE \/ UNCHANGED vars
           \/ \E m \in Message, p \in Projections : Project(m, p)
           \/ \E r \in Request : Abandon(r) \/ Expire(r)
           \/ \E m \in Message : RunRoutedWork(m)
  <2>1. /\ enqueued' = enqueued /\ run' = run
        /\ \A s \in Request : req'[s].deliveries = req[s].deliveries
    <3>1. enqueued' = enqueued /\ run' = run
      BY <1>3 DEF Project, Abandon, Expire, RunRoutedWork, vars, sinks
    <3>2. ASSUME NEW r \in Request, Abandon(r) \/ Expire(r), NEW s \in Request
          PROVE  req'[s].deliveries = req[s].deliveries
      BY <1>0, <3>2 DEF Abandon, Expire, TypeOK, EnvelopeType
    <3>3. (\A r \in Request : ~Abandon(r) /\ ~Expire(r)) => req' = req
      BY <1>3 DEF Project, RunRoutedWork, vars
    <3> QED
      BY <3>1, <3>2, <3>3
  <2>2. \A m \in Message : Coming(m)' \subseteq Coming(m)
    BY <2>1 DEF Coming
  <2>3. \A m \in Message : enqueued'[m] + Cardinality(Coming(m)') <= Cardinality(Granted(m)')
    BY <1>0, <2>1, <2>2, JobStep
  <2> QED
    BY <2>1, <2>3 DEF JInv
<1> QED
  BY <1>1, <1>2, <1>3 DEF Next

\* What a drained routed-work lane lets through twice is bounded by the redelivery
\* backstop: a message never becomes more jobs than its requests were delivered, when
\* a request names it once (routed_work.rs enqueue_unique; RouteJob does not look for
\* duplicates in the request it is given).
THEOREM JobsAreBoundedByDeliveries ==
  ASSUME NamesOnce, IsFiniteSet(Worker), IsFiniteSet(Request)
  PROVE  Spec => []JobsWithinDeliveries
<1>1. Init => JInv
  <2> SUFFICES ASSUME Init PROVE JInv
    OBVIOUS
  <2>1. \A r \in Request : req[r].deliveries \in 0 .. MaxDeliveries
    BY RouteDispatchAssumption DEF Init
  <2>2. ASSUME NEW m \in Message
        PROVE  enqueued[m] + Cardinality(Coming(m)) <= Cardinality(Granted(m))
    <3>1. Coming(m) = {} /\ enqueued[m] = 0
      BY DEF Init, Coming, Idle
    <3>2. Cardinality(Coming(m)) = 0 /\ Cardinality(Granted(m)) \in Nat
      BY <2>1, <3>1, JobSets, FS_EmptySet
    <3> QED
      BY <3>1, <3>2
  <2> QED
    BY <2>1, <2>2 DEF JInv
<1>2. IInv /\ JInv /\ [Next]_vars => JInv'
  BY StepKeepsJInv
<1>3. IInv /\ JInv => JobsWithinDeliveries
  <2> SUFFICES ASSUME IInv, JInv, NEW m \in Message PROVE enqueued[m] <= DeliveriesOf(m)
    BY DEF JobsWithinDeliveries
  <2>1. enqueued[m] \in Nat
    BY DEF IInv, TypeOK, SinkTypes
  <2>2. /\ Cardinality(Coming(m)) \in Nat /\ Cardinality(Granted(m)) \in Nat
        /\ DeliveriesOf(m) = Cardinality(Granted(m))
    BY JobSets DEF JInv
  <2>3. enqueued[m] + Cardinality(Coming(m)) <= Cardinality(Granted(m))
    BY DEF JInv
  <2> QED
    BY <2>1, <2>2, <2>3
<1> QED
  BY <1>1, <1>2, <1>3, Invariance, PTL DEF Spec

=============================================================================
