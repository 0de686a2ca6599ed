---------------------------- MODULE StrategyResult ----------------------------
(***************************************************************************)
(* What the reference strategy makes of a log (mirrorlane-worker,          *)
(* replay.rs; the ports of mirrorlane-core, projector.rs): every store of  *)
(* a run as a function of the logged messages and of those whose           *)
(* projection failed.                                                      *)
(*                                                                         *)
(* The ports are those of Providers; the projector is any function of the  *)
(* body, where it answers at all.                                          *)
(***************************************************************************)
EXTENDS Providers

CONSTANTS
  Message, Conversation, Author, Body,
  ConvOf,       \* ConvOf[m] is the conversation of message m
  AuthorOf,     \* AuthorOf[m] is its author
  ProjectionOf, \* ProjectionOf[b] is what the projector makes of body b
  MayFail,      \* the messages whose projection may fail
  None          \* nothing: no message, no projection, no snapshot

ASSUME StrategyRunAssumption ==
  /\ ConvOf \in [Message -> Conversation]
  /\ AuthorOf \in [Message -> Author]
  /\ Author \subseteq Nat
  /\ DOMAIN ProjectionOf = Body
  /\ MayFail \subseteq Message
  /\ None \notin Body
  /\ None \notin [Message -> Body \cup {None}]

\* Confidence::new clamps; the topics of a Projection are a Vec.
ASSUME ProjectorAssumption ==
  \A b \in Body : /\ ProjectionOf[b].confidence \in 0..10
                  /\ ProjectionOf[b].topics \in Seq(Nat)

Logged(l) == {m \in Message : l[m] # None}

\* group_by_conversation
In(l, c) == {m \in Logged(l) : ConvOf[m] = c}
Conversations(l) == {ConvOf[m] : m \in Logged(l)}

Derived(l, failed) ==
  LET Projected == Logged(l) \ failed
      Read(M)   == [m \in M \cap Projected |-> ProjectionOf[l[m]]]
      Skills    == Ownerships([m \in Projected |->
                     [author |-> AuthorOf[m], topics |-> ProjectionOf[l[m]].topics,
                      confidence |-> ProjectionOf[l[m]].confidence]])
      Owner(t)  == CHOOSE o \in Skills : o.topic = t
      TopicsOf(M) == UNION {ToSet(ProjectionOf[l[m]].topics) : m \in M \cap Projected}
  IN  [projections |-> Read(Projected),
       scopes      |-> [c \in Conversations(l) |-> ScopeOf(Read(In(l, c)))],
       warmups     |-> [c \in Conversations(l) |->
                          WarmupOf(ScopeOf(Read(In(l, c))).load, Read(In(l, c)))],
       skills      |-> [t \in TopicsOf(Projected) |-> Owner(t)],
       hints       |-> [m \in Projected |->
                          LET topics == ProjectionOf[l[m]].topics
                          IN  Hint([i \in DOMAIN topics |-> Owner(topics[i])])],
       developers  |-> [c \in Conversations(l) |->
                          Snapshot({AuthorOf[m] : m \in In(l, c)}, {Owner(t) : t \in TopicsOf(In(l, c))})]]

=============================================================================
