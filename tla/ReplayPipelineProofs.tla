------------------------- MODULE ReplayPipelineProofs -------------------------
(***************************************************************************)
(* A run of the reference strategy yields what its snapshot and its failed *)
(* projections determine, for every log, every set of ports and any number *)
(* of messages.                                                            *)
(*                                                                         *)
(* The argument: a store is empty before its stage, exactly what its       *)
(* handler makes of the stores before it after its stage, and in between   *)
(* that for every key no job in the queue answers for (Filled).  The       *)
(* stores a handler reads do not change any more when it runs, so a job    *)
(* delivered twice stores the same again.  What the skill and hint stages  *)
(* store is then a question about the ports: sums of confidences are       *)
(* numbers of tickets, and a ranking lists the authors in their order.     *)
(***************************************************************************)
EXTENDS ReplayPipeline, DataProofs

-----------------------------------------------------------------------------
(* What each store holds at the end of its stage, from the snapshot and    *)
(* the projections.                                                        *)

ScopesMade == [c \in Conversations(snap) |-> ScopeOf(Read(c))]
WarmupsMade == [c \in Conversations(snap) |-> WarmupOf(ScopeOf(Read(c)).load, Read(c))]

Built ==
  Ownerships([m \in Logged(snap) \cap DOMAIN projections |->
                [author |-> AuthorOf[m], topics |-> projections[m].topics,
                 confidence |-> projections[m].confidence]])
Owner(t) == CHOOSE o \in Built : o.topic = t

SkillsMade == [t \in {o.topic : o \in Built} |-> Owner(t)]
HintsMade ==
  [m \in Logged(snap) \cap DOMAIN projections |->
     Hint([i \in DOMAIN projections[m].topics |-> Owner(projections[m].topics[i])])]
DevelopersMade ==
  [c \in Conversations(snap) |->
     Snapshot(Participants(snap, c), {Owner(t) : t \in TopicsOf(In(snap, c))})]

\* The store map is the store full, but for keys in open that are still missing.
Filled(map, full, open) ==
  /\ map = [k \in DOMAIN map |-> full[k]]
  /\ DOMAIN map \subseteq DOMAIN full
  /\ DOMAIN full \ DOMAIN map \subseteq open

\* All keys of a store that one job makes.
Whole(full) == IF "global" \in queue THEN DOMAIN full ELSE {}

Logs == [Message -> Body \cup {None}]

TInv ==
  /\ log \in Logs
  /\ stage \in Stage
  /\ tries \in [Message -> Nat]
  /\ IF stage = "none" THEN snap = None ELSE snap \in Logs
  /\ queue \subseteq Payloads(stage)

\* The messages with no projection, and those of them that no job will project any more.
Failed == Logged(snap) \ DOMAIN projections
Lost == IF stage = "project" THEN Failed \ queue ELSE Failed

PInv ==
  /\ stage = "none" => projections = Empty
  /\ stage # "none" =>
       /\ projections = [m \in DOMAIN projections |-> ProjectionOf[snap[m]]]
       /\ DOMAIN projections \subseteq Logged(snap)
       /\ \A m \in Lost : m \in MayFail /\ tries[m] = MaxAttempts
  /\ stage \in {"none", "project"} => \A m \in Message :
       (stage = "none" \/ m \in queue) => tries[m] < MaxAttempts

ScopeInv ==
  /\ stage \in {"none", "project"} => scopes = Empty
  /\ stage = "scope" => Filled(scopes, ScopesMade, queue)
  /\ stage \in {"warmup", "skill", "hint", "developer", "done"} => scopes = ScopesMade

WarmupInv ==
  /\ stage \in {"none", "project", "scope"} => warmups = Empty
  /\ stage = "warmup" => Filled(warmups, WarmupsMade, queue)
  /\ stage \in {"skill", "hint", "developer", "done"} => warmups = WarmupsMade

SkillInv ==
  /\ stage \in {"none", "project", "scope", "warmup"} => skills = Empty
  /\ stage = "skill" => Filled(skills, SkillsMade, Whole(SkillsMade))
  /\ stage \in {"hint", "developer", "done"} => skills = SkillsMade

HintInv ==
  /\ stage \in {"none", "project", "scope", "warmup", "skill"} => hints = Empty
  /\ stage = "hint" => Filled(hints, HintsMade, Whole(HintsMade))
  /\ stage \in {"developer", "done"} => hints = HintsMade

DeveloperInv ==
  /\ stage \in {"none", "project", "scope", "warmup", "skill", "hint"} => developers = Empty
  /\ stage = "developer" => Filled(developers, DevelopersMade, queue)
  /\ stage = "done" => developers = DevelopersMade

StoresInv == ScopeInv /\ WarmupInv /\ SkillInv /\ HintInv /\ DeveloperInv
IInv == TInv /\ PInv /\ StoresInv

-----------------------------------------------------------------------------
(* What the stages make does not change while the snapshot and the         *)
(* projections stay.                                                       *)

LEMMA MadeStays ==
  ASSUME UNCHANGED <<snap, projections>>
  PROVE  /\ ScopesMade' = ScopesMade
         /\ WarmupsMade' = WarmupsMade
         /\ SkillsMade' = SkillsMade
         /\ HintsMade' = HintsMade
         /\ DevelopersMade' = DevelopersMade
BY DEF ScopesMade, WarmupsMade, SkillsMade, HintsMade, DevelopersMade, Built, Owner,
       Read, TopicsOf, Participants, In, Conversations, Logged

LEMMA MadeDomains ==
  /\ DOMAIN ScopesMade = Conversations(snap)
  /\ DOMAIN WarmupsMade = Conversations(snap)
  /\ DOMAIN DevelopersMade = Conversations(snap)
  /\ ScopesMade = [k \in DOMAIN ScopesMade |-> ScopesMade[k]]
  /\ WarmupsMade = [k \in DOMAIN WarmupsMade |-> WarmupsMade[k]]
  /\ SkillsMade = [k \in DOMAIN SkillsMade |-> SkillsMade[k]]
  /\ HintsMade = [k \in DOMAIN HintsMade |-> HintsMade[k]]
  /\ DevelopersMade = [k \in DOMAIN DevelopersMade |-> DevelopersMade[k]]
BY DEF ScopesMade, WarmupsMade, SkillsMade, HintsMade, DevelopersMade

-----------------------------------------------------------------------------
(* Filling a store.                                                        *)

LEMMA EmptyIsFilled ==
  ASSUME NEW full, NEW open, DOMAIN full \subseteq open
  PROVE  Filled(Empty, full, open)
BY DEF Filled, Empty

LEMMA FilledIsFull ==
  ASSUME NEW map, NEW full, Filled(map, full, {}), full = [k \in DOMAIN full |-> full[k]]
  PROVE  map = full
<1>1. DOMAIN map = DOMAIN full
  BY DEF Filled
<1> QED
  BY <1>1 DEF Filled

\* One job stores what belongs to its key.
LEMMA UpsertFills ==
  ASSUME NEW map, NEW full, NEW open, NEW k \in DOMAIN full, NEW rest,
         Filled(map, full, open), open \ {k} \subseteq rest
  PROVE  Filled(Upsert(map, k, full[k]), full, rest)
<1> DEFINE u == Upsert(map, k, full[k])
<1>1. u = [x \in DOMAIN map \cup {k} |-> IF x \in {k} THEN full[k] ELSE map[x]]
  BY DEF Upsert, UpsertAll
<1>2. \A x \in DOMAIN map : map[x] = full[x]
  BY DEF Filled
<1>3. DOMAIN u = DOMAIN map \cup {k} /\ u = [x \in DOMAIN u |-> full[x]]
  BY <1>1, <1>2
<1>4. DOMAIN map \subseteq DOMAIN full /\ DOMAIN full \ DOMAIN map \subseteq open
  BY DEF Filled
<1> HIDE DEF u
<1>5. Filled(u, full, rest)
  BY <1>3, <1>4 DEF Filled
<1> QED
  BY <1>5 DEF u

\* One job stores all the keys there are.
LEMMA UpsertAllFills ==
  ASSUME NEW map, NEW full, NEW open, NEW rest,
         Filled(map, full, open), full = [k \in DOMAIN full |-> full[k]]
  PROVE  Filled(UpsertAll(map, full), full, rest)
<1> DEFINE u == UpsertAll(map, full)
<1>1. u = [x \in DOMAIN map \cup DOMAIN full |-> IF x \in DOMAIN full THEN full[x] ELSE map[x]]
  BY DEF UpsertAll
<1>2. DOMAIN u = DOMAIN full /\ u = [x \in DOMAIN u |-> full[x]]
  BY <1>1 DEF Filled
<1> HIDE DEF u
<1>3. Filled(u, full, rest)
  BY <1>2 DEF Filled
<1> QED
  BY <1>3 DEF u

\* A store is filled no less when more may be missing.
LEMMA FilledGrows ==
  ASSUME NEW map, NEW full, NEW open, NEW more, Filled(map, full, open), open \subseteq more
  PROVE  Filled(map, full, more)
BY DEF Filled

-----------------------------------------------------------------------------
(* What a handler reads.                                                   *)

\* There is one ownership for each topic that is listed.
LEMMA OwnershipTopics ==
  ASSUME NEW contributions
  PROVE  {o.topic : o \in Ownerships(contributions)}
           = UNION {ToSet(contributions[c].topics) : c \in DOMAIN contributions}
<1> DEFINE listed == UNION {ToSet(contributions[c].topics) : c \in DOMAIN contributions}
           Authors(t) == {contributions[c].author :
                            c \in {d \in DOMAIN contributions : t \in ToSet(contributions[d].topics)}}
           Tally(a, t) == [author |-> a, tally |-> Fraction(Involvement(contributions, a, t), 1)]
           ranks == [t \in listed |-> Ranked({Tally(a, t) : a \in Authors(t)})]
           made == {[topic |-> t, candidates |-> ranks[t]] : t \in listed}
<1>1. Ownerships(contributions) = made
  BY DEF Ownerships
<1>2. {o.topic : o \in made} = listed
  <2> HIDE DEF listed, ranks
  <2>1. \A o \in made : o.topic \in listed
    OBVIOUS
  <2>2. \A t \in listed : [topic |-> t, candidates |-> ranks[t]] \in made
    OBVIOUS
  <2>3. \A t \in listed : \E o \in made : o.topic = t
    BY <2>2
  <2> HIDE DEF made
  <2> QED
    BY <2>1, <2>3
<1> QED
  BY <1>1, <1>2

\* Every topic of a projection has an owner.
LEMMA OwnedTopics ==
  ASSUME DOMAIN projections \subseteq Logged(snap)
  PROVE  DOMAIN SkillsMade = TopicsOf(Message)
<1> DEFINE contributions == [m \in Logged(snap) \cap DOMAIN projections |->
                [author |-> AuthorOf[m], topics |-> projections[m].topics,
                 confidence |-> projections[m].confidence]]
<1>1. {o.topic : o \in Built} = UNION {ToSet(contributions[m].topics) : m \in DOMAIN contributions}
  BY OwnershipTopics DEF Built
<1>2. DOMAIN contributions = Message \cap DOMAIN projections
  BY DEF Logged
<1>3. \A m \in DOMAIN contributions : contributions[m].topics = projections[m].topics
  OBVIOUS
<1>4. {o.topic : o \in Built} = UNION {ToSet(projections[m].topics) : m \in Message \cap DOMAIN projections}
  <2> HIDE DEF contributions
  <2> QED
    BY <1>1, <1>2, <1>3
<1> QED
  BY <1>4 DEF SkillsMade, TopicsOf

\* A topic that a stored projection lists.
LEMMA ListedTopic ==
  ASSUME NEW m \in Message \cap DOMAIN projections, NEW i \in DOMAIN projections[m].topics
  PROVE  projections[m].topics[i] \in TopicsOf(Message)
<1>1. projections[m].topics[i] \in ToSet(projections[m].topics)
  BY DEF ToSet
<1> QED
  BY <1>1 DEF TopicsOf

\* The hint handler finds the owner of every topic.
LEMMA HintsRead ==
  ASSUME DOMAIN projections \subseteq Logged(snap), skills = SkillsMade,
         NEW m \in DOMAIN projections
  PROVE  OwnershipsOf(projections[m].topics)
           = [i \in DOMAIN projections[m].topics |-> Owner(projections[m].topics[i])]
<1> DEFINE topics == projections[m].topics
<1>1. m \in Message \cap DOMAIN projections
  BY DEF Logged
<1>2. \A i \in DOMAIN topics : topics[i] \in DOMAIN skills
  BY <1>1, ListedTopic, OwnedTopics
<1>3. \A t \in DOMAIN skills : skills[t] = Owner(t)
  BY DEF SkillsMade
<1> QED
  BY <1>2, <1>3 DEF OwnershipsOf

\* The developer handler finds the owner of every topic of its session.
LEMMA ExpertiseRead ==
  ASSUME DOMAIN projections \subseteq Logged(snap), skills = SkillsMade, NEW M, M \subseteq Message
  PROVE  Expertise(M) = {Owner(t) : t \in TopicsOf(M)}
<1>1. TopicsOf(M) \subseteq DOMAIN skills
  BY OwnedTopics DEF TopicsOf
<1>2. \A t \in DOMAIN skills : skills[t] = Owner(t)
  BY DEF SkillsMade
<1> QED
  BY <1>1, <1>2 DEF Expertise

-----------------------------------------------------------------------------
(* Steps that run no job.                                                  *)

LEMMA InitInv == Init => IInv
<1> SUFFICES ASSUME Init PROVE IInv
  OBVIOUS
<1>1. TInv
  BY DEF Init, TInv, Logs, Stage, Payloads
<1>2. PInv
  BY MaxAttemptsAssumption DEF Init, PInv
<1>3. StoresInv
  BY DEF Init, StoresInv, ScopeInv, WarmupInv, SkillInv, HintInv, DeveloperInv
<1> QED
  BY <1>1, <1>2, <1>3 DEF IInv

\* The stores are as they should be when nothing they are made of changes.
LEMMA StoresStay ==
  ASSUME StoresInv, UNCHANGED <<snap, stage, queue, stores>>
  PROVE  StoresInv'
<1> USE DEF stores
<1>1. Whole(SkillsMade)' = Whole(SkillsMade) /\ Whole(HintsMade)' = Whole(HintsMade)
  BY MadeStays DEF Whole
<1>2. ScopeInv' /\ WarmupInv'
  BY MadeStays DEF StoresInv, ScopeInv, WarmupInv, Filled
<1>3. SkillInv' /\ HintInv'
  BY <1>1, MadeStays DEF StoresInv, SkillInv, HintInv, Filled
<1>4. DeveloperInv'
  BY MadeStays DEF StoresInv, DeveloperInv, Filled
<1> QED
  BY <1>2, <1>3, <1>4 DEF StoresInv

LEMMA IngestKeeps ==
  ASSUME IInv, NEW m \in Message, NEW b \in Body, Ingest(m, b)
  PROVE  IInv'
<1>1. TInv'
  BY DEF IInv, TInv, Logs, Ingest, Payloads, Logged, Conversations
<1>2. PInv'
  BY DEF IInv, PInv, Ingest, stores, Lost, Failed, Logged
<1>3. StoresInv'
  BY StoresStay DEF IInv, Ingest
<1> QED
  BY <1>1, <1>2, <1>3 DEF IInv

LEMMA StartKeeps ==
  ASSUME IInv, Start
  PROVE  IInv'
<1>1. stage = "none" /\ stage' = "project" /\ snap' = log /\ log \in Logs
  BY StrategyRunAssumption DEF IInv, TInv, Start, Logs
<1>2. TInv'
  BY <1>1 DEF IInv, TInv, Start, Stage, Payloads, Logged
<1>3. PInv'
  <2>1. projections' = Empty /\ tries' = tries
    BY <1>1 DEF IInv, PInv, Start, stores
  <2>2. Lost' = {}
    BY <1>1 DEF Lost, Failed, Start, Logged
  <2>3. DOMAIN Empty = {} /\ Empty = [m \in {} |-> ProjectionOf[log[m]]]
    BY DEF Empty
  <2> QED
    BY <1>1, <2>1, <2>2, <2>3 DEF IInv, PInv
<1>4. StoresInv'
  BY <1>1 DEF IInv, StoresInv, ScopeInv, WarmupInv, SkillInv, HintInv, DeveloperInv, Start, stores
<1> QED
  BY <1>2, <1>3, <1>4 DEF IInv

LEMMA NextStageKeeps ==
  ASSUME IInv, NextStage
  PROVE  IInv'
<1>1. /\ queue = {} /\ stage \in DOMAIN Successor
      /\ stage' = Successor[stage] /\ queue' = Payloads(stage')
      /\ UNCHANGED <<log, snap, tries, projections, scopes, warmups, skills, hints, developers>>
  BY DEF NextStage, stores
<1>2. \/ stage = "project" /\ stage' = "scope"
      \/ stage = "scope" /\ stage' = "warmup"
      \/ stage = "warmup" /\ stage' = "skill"
      \/ stage = "skill" /\ stage' = "hint"
      \/ stage = "hint" /\ stage' = "developer"
      \/ stage = "developer" /\ stage' = "done"
  BY <1>1 DEF Successor
<1>3. TInv'
  BY <1>1, <1>2 DEF IInv, TInv, Stage, Payloads, Logged, Conversations
<1>4. PInv'
  <2>1. Lost' = Lost
    BY <1>1, <1>2 DEF Lost, Failed, Logged
  <2> QED
    BY <1>1, <1>2, <2>1 DEF IInv, PInv
<1>5. /\ stage' \in {"scope", "warmup", "developer"} => queue' = Conversations(snap)
      /\ stage' \in {"skill", "hint"} => queue' = {"global"}
  BY <1>1, <1>2 DEF Payloads, Conversations, Logged
<1>6. ScopeInv'
  <2>1. CASE stage' = "scope"
    <3>1. scopes = Empty
      BY <1>2, <2>1 DEF IInv, StoresInv, ScopeInv
    <3>2. Filled(scopes, ScopesMade, queue')
      BY <1>5, <2>1, <3>1, MadeDomains, EmptyIsFilled
    <3> QED
      BY <1>1, <2>1, <3>2, MadeStays DEF ScopeInv, Filled
  <2>2. CASE stage' = "warmup"
    <3>1. Filled(scopes, ScopesMade, {})
      BY <1>1, <1>2, <2>2 DEF IInv, StoresInv, ScopeInv
    <3>2. scopes = ScopesMade
      BY <3>1, FilledIsFull, MadeDomains
    <3> QED
      BY <1>1, <2>2, <3>2, MadeStays DEF ScopeInv
  <2>3. CASE stage' \notin {"scope", "warmup"}
    BY <1>1, <1>2, <2>3, MadeStays DEF IInv, StoresInv, ScopeInv
  <2> QED
    BY <2>1, <2>2, <2>3
<1>7. WarmupInv'
  <2>1. CASE stage' = "warmup"
    <3>1. warmups = Empty
      BY <1>2, <2>1 DEF IInv, StoresInv, WarmupInv
    <3>2. Filled(warmups, WarmupsMade, queue')
      BY <1>5, <2>1, <3>1, MadeDomains, EmptyIsFilled
    <3> QED
      BY <1>1, <2>1, <3>2, MadeStays DEF WarmupInv, Filled
  <2>2. CASE stage' = "skill"
    <3>1. Filled(warmups, WarmupsMade, {})
      BY <1>1, <1>2, <2>2 DEF IInv, StoresInv, WarmupInv
    <3>2. warmups = WarmupsMade
      BY <3>1, FilledIsFull, MadeDomains
    <3> QED
      BY <1>1, <2>2, <3>2, MadeStays DEF WarmupInv
  <2>3. CASE stage' \notin {"warmup", "skill"}
    BY <1>1, <1>2, <2>3, MadeStays DEF IInv, StoresInv, WarmupInv
  <2> QED
    BY <2>1, <2>2, <2>3
<1>8. SkillInv'
  <2>1. CASE stage' = "skill"
    <3>1. skills = Empty
      BY <1>2, <2>1 DEF IInv, StoresInv, SkillInv
    <3>2. Whole(SkillsMade)' = DOMAIN SkillsMade
      BY <1>1, <1>5, <2>1, MadeStays DEF Whole
    <3>3. Filled(skills, SkillsMade, DOMAIN SkillsMade)
      BY <3>1, EmptyIsFilled
    <3> QED
      BY <1>1, <2>1, <3>2, <3>3, MadeStays DEF SkillInv, Filled
  <2>2. CASE stage' = "hint"
    <3>1. Filled(skills, SkillsMade, {})
      BY <1>1, <1>2, <2>2 DEF IInv, StoresInv, SkillInv, Whole
    <3>2. skills = SkillsMade
      BY <3>1, FilledIsFull, MadeDomains
    <3> QED
      BY <1>1, <2>2, <3>2, MadeStays DEF SkillInv
  <2>3. CASE stage' \notin {"skill", "hint"}
    BY <1>1, <1>2, <2>3, MadeStays DEF IInv, StoresInv, SkillInv
  <2> QED
    BY <2>1, <2>2, <2>3
<1>9. HintInv'
  <2>1. CASE stage' = "hint"
    <3>1. hints = Empty
      BY <1>2, <2>1 DEF IInv, StoresInv, HintInv
    <3>2. Whole(HintsMade)' = DOMAIN HintsMade
      BY <1>1, <1>5, <2>1, MadeStays DEF Whole
    <3>3. Filled(hints, HintsMade, DOMAIN HintsMade)
      BY <3>1, EmptyIsFilled
    <3> QED
      BY <1>1, <2>1, <3>2, <3>3, MadeStays DEF HintInv, Filled
  <2>2. CASE stage' = "developer"
    <3>1. Filled(hints, HintsMade, {})
      BY <1>1, <1>2, <2>2 DEF IInv, StoresInv, HintInv, Whole
    <3>2. hints = HintsMade
      BY <3>1, FilledIsFull, MadeDomains
    <3> QED
      BY <1>1, <2>2, <3>2, MadeStays DEF HintInv
  <2>3. CASE stage' \notin {"hint", "developer"}
    BY <1>1, <1>2, <2>3, MadeStays DEF IInv, StoresInv, HintInv
  <2> QED
    BY <2>1, <2>2, <2>3
<1>10. DeveloperInv'
  <2>1. CASE stage' = "developer"
    <3>1. developers = Empty
      BY <1>2, <2>1 DEF IInv, StoresInv, DeveloperInv
    <3>2. Filled(developers, DevelopersMade, queue')
      BY <1>5, <2>1, <3>1, MadeDomains, EmptyIsFilled
    <3> QED
      BY <1>1, <2>1, <3>2, MadeStays DEF DeveloperInv, Filled
  <2>2. CASE stage' = "done"
    <3>1. Filled(developers, DevelopersMade, {})
      BY <1>1, <1>2, <2>2 DEF IInv, StoresInv, DeveloperInv
    <3>2. developers = DevelopersMade
      BY <3>1, FilledIsFull, MadeDomains
    <3> QED
      BY <1>1, <2>2, <3>2, MadeStays DEF DeveloperInv
  <2>3. CASE stage' \notin {"developer", "done"}
    BY <1>1, <1>2, <2>3, MadeStays DEF IInv, StoresInv, DeveloperInv
  <2> QED
    BY <2>1, <2>2, <2>3
<1> QED
  BY <1>3, <1>4, <1>6, <1>7, <1>8, <1>9, <1>10 DEF IInv, StoresInv

-----------------------------------------------------------------------------
(* The project stage.                                                      *)

\* Only the first stage writes projections, and nothing else is made yet.
LEMMA ProjectStageStores ==
  ASSUME StoresInv, stage = "project", stage' = stage,
         UNCHANGED <<scopes, warmups, skills, hints, developers>>
  PROVE  StoresInv'
BY DEF StoresInv, ScopeInv, WarmupInv, SkillInv, HintInv, DeveloperInv

LEMMA ProjectKeeps ==
  ASSUME IInv, NEW m \in Message, Project(m)
  PROVE  IInv'
<1>1. /\ stage = "project" /\ stage' = stage /\ m \in queue
      /\ queue' \subseteq queue /\ queue \ queue' \subseteq {m}
      /\ UNCHANGED <<log, snap, tries, scopes, warmups, skills, hints, developers>>
      /\ projections' = Upsert(projections, m, ProjectionOf[snap[m]])
  BY DEF Project, Deliver
<1>2. TInv'
  BY <1>1 DEF IInv, TInv, Payloads, Logged
<1>3. m \in Logged(snap)
  BY <1>1 DEF IInv, TInv, Payloads
<1>4. PInv'
  <2>1. projections' = [x \in DOMAIN projections \cup {m} |->
                          IF x \in {m} THEN ProjectionOf[snap[m]] ELSE projections[x]]
    BY <1>1 DEF Upsert, UpsertAll
  <2>2. \A x \in DOMAIN projections : projections[x] = ProjectionOf[snap[x]]
    BY <1>1 DEF IInv, PInv
  <2>3. DOMAIN projections' = DOMAIN projections \cup {m}
    BY <2>1
  <2>4. projections' = [x \in DOMAIN projections' |-> ProjectionOf[snap[x]]]
    BY <2>1, <2>2, <2>3
  <2>5. Lost' \subseteq Lost
    BY <1>1, <2>3 DEF Lost, Failed, Logged
  <2>6. DOMAIN projections' \subseteq Logged(snap')
    BY <1>1, <1>3, <2>3 DEF IInv, PInv
  <2> QED
    BY <1>1, <2>4, <2>5, <2>6 DEF IInv, PInv
<1>5. StoresInv'
  BY <1>1, ProjectStageStores DEF IInv
<1> QED
  BY <1>2, <1>4, <1>5 DEF IInv

LEMMA ProjectFailsKeeps ==
  ASSUME IInv, NEW m \in Message, ProjectFails(m)
  PROVE  IInv'
<1>1. /\ stage = "project" /\ stage' = stage /\ m \in queue /\ m \in MayFail
      /\ tries' = [tries EXCEPT ![m] = tries[m] + 1]
      /\ queue' = IF tries[m] + 1 = MaxAttempts THEN queue \ {m} ELSE queue
      /\ UNCHANGED <<log, snap, projections, scopes, warmups, skills, hints, developers>>
  BY DEF ProjectFails, stores
<1>2. tries \in [Message -> Nat] /\ tries[m] < MaxAttempts
  BY <1>1 DEF IInv, TInv, PInv
<1>3. TInv'
  BY <1>1, <1>2 DEF IInv, TInv, Payloads, Logged
<1>4. PInv'
  <2>1. Lost' \subseteq Lost \cup (IF tries[m] + 1 = MaxAttempts THEN {m} ELSE {})
    BY <1>1 DEF Lost, Failed, Logged
  <2>2. \A x \in Lost' : x \in MayFail /\ tries'[x] = MaxAttempts
    <3> SUFFICES ASSUME NEW x \in Lost' PROVE x \in MayFail /\ tries'[x] = MaxAttempts
      OBVIOUS
    <3>1. CASE x = m
      <4>1. tries[m] + 1 = MaxAttempts
        BY <1>1, <3>1 DEF Lost, Failed, Logged, IInv, PInv
      <4> QED
        BY <1>1, <1>2, <3>1, <4>1
    <3>2. CASE x # m
      BY <1>1, <1>2, <2>1, <3>2 DEF IInv, PInv, Lost, Failed, Logged
    <3> QED
      BY <3>1, <3>2
  <2>3. \A x \in Message : x \in queue' => tries'[x] < MaxAttempts
    BY <1>1, <1>2, MaxAttemptsAssumption DEF IInv, PInv
  <2> QED
    BY <1>1, <2>2, <2>3 DEF IInv, PInv
<1>5. StoresInv'
  BY <1>1, ProjectStageStores DEF IInv
<1> QED
  BY <1>3, <1>4, <1>5 DEF IInv

-----------------------------------------------------------------------------
(* The stages that read projections.                                       *)

\* A handler of a later stage leaves the snapshot, the projections and the tries alone.
Later == stage \in {"scope", "warmup", "skill", "hint", "developer"}

LEMMA LaterKeepsBase ==
  ASSUME IInv, Later, queue' \subseteq queue,
         UNCHANGED <<log, snap, stage, tries, projections>>
  PROVE  TInv' /\ PInv'
<1>1. TInv'
  BY DEF IInv, TInv, Payloads, Logged, Conversations
<1>2. Lost' = Lost
  BY DEF Later, Lost, Failed, Logged
<1>3. PInv'
  BY <1>2 DEF IInv, PInv, Later
<1> QED
  BY <1>1, <1>3

LEMMA LaterProjections ==
  ASSUME IInv, Later
  PROVE  DOMAIN projections \subseteq Logged(snap)
BY DEF IInv, PInv, Later

LEMMA BuildScopeKeeps ==
  ASSUME IInv, NEW c \in Conversation, BuildScope(c)
  PROVE  IInv'
<1>1. /\ stage = "scope" /\ stage' = stage /\ c \in queue /\ queue \ {c} \subseteq queue'
      /\ queue' \subseteq queue
      /\ UNCHANGED <<log, snap, tries, projections, warmups, skills, hints, developers>>
      /\ scopes' = Upsert(scopes, c, ScopeOf(Read(c)))
  BY DEF BuildScope, Deliver
<1>2. c \in DOMAIN ScopesMade /\ ScopesMade[c] = ScopeOf(Read(c))
  BY <1>1 DEF IInv, TInv, Payloads, ScopesMade
<1>3. Filled(scopes', ScopesMade, queue')
  BY <1>1, <1>2, UpsertFills DEF IInv, StoresInv, ScopeInv
<1>4. StoresInv'
  BY <1>1, <1>3, MadeStays
     DEF IInv, StoresInv, ScopeInv, WarmupInv, SkillInv, HintInv, DeveloperInv, Filled
<1> QED
  BY <1>1, <1>4, LaterKeepsBase DEF IInv, Later

LEMMA BuildWarmupKeeps ==
  ASSUME IInv, NEW c \in Conversation, BuildWarmup(c)
  PROVE  IInv'
<1>1. /\ stage = "warmup" /\ stage' = stage /\ c \in queue /\ queue \ {c} \subseteq queue'
      /\ queue' \subseteq queue
      /\ UNCHANGED <<log, snap, tries, projections, scopes, skills, hints, developers>>
      /\ warmups' = Upsert(warmups, c,
           WarmupOf(IF c \in DOMAIN scopes THEN scopes[c].load ELSE {}, Read(c)))
  BY DEF BuildWarmup, Deliver
<1>2. c \in Conversations(snap)
  BY <1>1 DEF IInv, TInv, Payloads
<1>3. c \in DOMAIN scopes /\ scopes[c] = ScopeOf(Read(c))
  BY <1>1, <1>2 DEF IInv, StoresInv, ScopeInv, ScopesMade
<1>4. c \in DOMAIN WarmupsMade /\ warmups' = Upsert(warmups, c, WarmupsMade[c])
  BY <1>1, <1>2, <1>3 DEF WarmupsMade
<1>5. Filled(warmups', WarmupsMade, queue')
  BY <1>1, <1>4, UpsertFills DEF IInv, StoresInv, WarmupInv
<1>6. StoresInv'
  BY <1>1, <1>5, MadeStays
     DEF IInv, StoresInv, ScopeInv, WarmupInv, SkillInv, HintInv, DeveloperInv, Filled
<1> QED
  BY <1>1, <1>6, LaterKeepsBase DEF IInv, Later

LEMMA BuildSkillKeeps ==
  ASSUME IInv, BuildSkill
  PROVE  IInv'
<1>1. /\ stage = "skill" /\ stage' = stage /\ queue' \subseteq queue
      /\ UNCHANGED <<log, snap, tries, projections, scopes, warmups, hints, developers>>
      /\ skills' = UpsertAll(skills, SkillsMade)
  BY DEF BuildSkill, Deliver, SkillsMade, Owner, Built
<1>2. Filled(skills', SkillsMade, Whole(SkillsMade)')
  BY <1>1, UpsertAllFills, MadeDomains DEF IInv, StoresInv, SkillInv
<1>3. StoresInv'
  BY <1>1, <1>2, MadeStays
     DEF IInv, StoresInv, ScopeInv, WarmupInv, SkillInv, HintInv, DeveloperInv, Filled
<1> QED
  BY <1>1, <1>3, LaterKeepsBase DEF IInv, Later

LEMMA BuildHintKeeps ==
  ASSUME IInv, BuildHint
  PROVE  IInv'
<1>1. /\ stage = "hint" /\ stage' = stage /\ queue' \subseteq queue
      /\ UNCHANGED <<log, snap, tries, projections, scopes, warmups, skills, developers>>
      /\ hints' = UpsertAll(hints, [m \in Logged(snap) \cap DOMAIN projections |->
                                     Hint(OwnershipsOf(projections[m].topics))])
  BY DEF BuildHint, Deliver
<1>2. skills = SkillsMade
  BY <1>1 DEF IInv, StoresInv, SkillInv
<1>3. \A m \in Logged(snap) \cap DOMAIN projections :
        OwnershipsOf(projections[m].topics)
          = [i \in DOMAIN projections[m].topics |-> Owner(projections[m].topics[i])]
  BY <1>1, <1>2, LaterProjections, HintsRead DEF Later
<1>4. hints' = UpsertAll(hints, HintsMade)
  BY <1>1, <1>3 DEF HintsMade
<1>5. Filled(hints', HintsMade, Whole(HintsMade)')
  BY <1>1, <1>4, UpsertAllFills, MadeDomains DEF IInv, StoresInv, HintInv
<1>6. StoresInv'
  BY <1>1, <1>5, MadeStays
     DEF IInv, StoresInv, ScopeInv, WarmupInv, SkillInv, HintInv, DeveloperInv, Filled
<1> QED
  BY <1>1, <1>6, LaterKeepsBase DEF IInv, Later

LEMMA BuildDeveloperKeeps ==
  ASSUME IInv, NEW c \in Conversation, BuildDeveloper(c)
  PROVE  IInv'
<1>1. /\ stage = "developer" /\ stage' = stage /\ c \in queue /\ queue \ {c} \subseteq queue'
      /\ queue' \subseteq queue
      /\ UNCHANGED <<log, snap, tries, projections, scopes, warmups, skills, hints>>
      /\ developers' = Upsert(developers, c,
           Snapshot(Participants(snap, c), Expertise(In(snap, c))))
  BY DEF BuildDeveloper, Deliver
<1>2. Expertise(In(snap, c)) = {Owner(t) : t \in TopicsOf(In(snap, c))}
  <2>1. skills = SkillsMade
    BY <1>1 DEF IInv, StoresInv, SkillInv
  <2>2. In(snap, c) \subseteq Message
    BY DEF In, Logged
  <2> QED
    BY <1>1, <2>1, <2>2, LaterProjections, ExpertiseRead DEF Later
<1>3. c \in DOMAIN DevelopersMade /\ developers' = Upsert(developers, c, DevelopersMade[c])
  BY <1>1, <1>2 DEF IInv, TInv, Payloads, DevelopersMade
<1>4. Filled(developers', DevelopersMade, queue')
  BY <1>1, <1>3, UpsertFills DEF IInv, StoresInv, DeveloperInv
<1>5. StoresInv'
  BY <1>1, <1>4, MadeStays
     DEF IInv, StoresInv, ScopeInv, WarmupInv, SkillInv, HintInv, DeveloperInv, Filled
<1> QED
  BY <1>1, <1>5, LaterKeepsBase DEF IInv, Later

(* The stores hold what their handlers make of a snapshot, in any order of *)
(* the jobs and however often they are delivered (composition.rs           *)
(* run_stage, lib.rs).                                                     *)
THEOREM Invariance == Spec => []IInv
<1>1. IInv /\ [Next]_vars => IInv'
  <2> SUFFICES ASSUME IInv, [Next]_vars PROVE IInv'
    OBVIOUS
  <2>1. CASE \E m \in Message, b \in Body : Ingest(m, b)
    BY <2>1, IngestKeeps
  <2>2. CASE Start
    BY <2>2, StartKeeps
  <2>3. CASE NextStage
    BY <2>3, NextStageKeeps
  <2>4. CASE RunJob
    BY <2>4, ProjectKeeps, ProjectFailsKeeps, BuildScopeKeeps, BuildWarmupKeeps, BuildSkillKeeps,
       BuildHintKeeps, BuildDeveloperKeeps DEF RunJob
  <2>5. CASE UNCHANGED vars
    <3>1. UNCHANGED <<log, snap, stage, queue, tries, stores, projections>>
      BY <2>5 DEF vars, stores
    <3>2. TInv'
      BY <3>1 DEF IInv, TInv, Payloads, Logged, Conversations
    <3>3. PInv'
      BY <3>1 DEF IInv, PInv, Lost, Failed, Logged
    <3> QED
      BY <3>1, <3>2, <3>3, StoresStay DEF IInv
  <2> QED
    BY <2>1, <2>2, <2>3, <2>4, <2>5 DEF Next
<1> QED
  BY <1>1, InitInv, PTL DEF Spec

(* A message is left without a projection only after every attempt at it   *)
(* failed (spec.md "Failures panic at the boundary").                      *)
THEOREM GapsAreRetried == Spec => []GapsWereRetried
<1>1. IInv => GapsWereRetried
  BY DEF IInv, PInv, GapsWereRetried, Lost, Failed
<1> QED
  BY <1>1, Invariance, PTL

-----------------------------------------------------------------------------
(* The run implements its promise.                                         *)

\* At the end the stores are what the snapshot and the failed projections determine.
LEMMA OutIsDerived ==
  ASSUME IInv, stage = "developer", stage' = "done", IInv', UNCHANGED <<snap, stores>>
  PROVE  Out' = Derived(snap, Failed)
<1> DEFINE l == snap
           Projected == Logged(l) \ Failed
           ReadOf(M) == [m \in M \cap Projected |-> ProjectionOf[l[m]]]
           Listed(M) == UNION {ToSet(ProjectionOf[l[m]].topics) : m \in M \cap Projected}
<1>1. Projected = DOMAIN projections /\ Logged(l) \cap DOMAIN projections = Projected
  BY DEF IInv, PInv, Failed
<1>2. \A m \in Projected : projections[m] = ProjectionOf[l[m]]
  BY <1>1 DEF IInv, PInv
<1>3. projections = ReadOf(Projected)
  BY <1>1, <1>2 DEF IInv, PInv
<1>4. \A c : Read(c) = ReadOf(In(l, c))
  BY <1>1, <1>2 DEF Read, Restrict
<1>5. \A M : TopicsOf(M) = Listed(M)
  BY <1>1, <1>2 DEF TopicsOf
<1>6. Built = Ownerships([m \in Projected |->
                [author |-> AuthorOf[m], topics |-> ProjectionOf[l[m]].topics,
                 confidence |-> ProjectionOf[l[m]].confidence]])
  BY <1>1, <1>2 DEF Built
<1>7. DOMAIN SkillsMade = Listed(Projected)
  <2>1. Message \cap Projected = Projected
    BY DEF Logged
  <2>2. DOMAIN SkillsMade = TopicsOf(Message)
    BY OwnedTopics DEF IInv, PInv
  <2>3. TopicsOf(Message) = Listed(Message)
    BY <1>5
  <2> QED
    BY <2>1, <2>2, <2>3
<1>8. /\ scopes' = ScopesMade /\ warmups' = WarmupsMade /\ skills' = SkillsMade
      /\ hints' = HintsMade /\ developers' = DevelopersMade
  BY MadeStays DEF IInv, StoresInv, ScopeInv, WarmupInv, SkillInv, HintInv, DeveloperInv, stores
<1>9. ScopesMade = [c \in Conversations(l) |-> ScopeOf(ReadOf(In(l, c)))]
  BY <1>4 DEF ScopesMade
<1>10. WarmupsMade = [c \in Conversations(l) |->
                        WarmupOf(ScopeOf(ReadOf(In(l, c))).load, ReadOf(In(l, c)))]
  BY <1>4 DEF WarmupsMade
<1> DEFINE Own(t) == CHOOSE o \in Ownerships([m \in Projected |->
                [author |-> AuthorOf[m], topics |-> ProjectionOf[l[m]].topics,
                 confidence |-> ProjectionOf[l[m]].confidence]]) : o.topic = t
<1>11. \A t : Owner(t) = Own(t)
  BY <1>6 DEF Owner
<1>12. SkillsMade = [t \in Listed(Projected) |-> Own(t)]
  <2> HIDE DEF Own
  <2> QED
    BY <1>7, <1>11 DEF SkillsMade
<1>13. HintsMade = [m \in Projected |->
                      Hint([i \in DOMAIN ProjectionOf[l[m]].topics |-> Own(ProjectionOf[l[m]].topics[i])])]
  <2> HIDE DEF Own
  <2> QED
    BY <1>1, <1>2, <1>11 DEF HintsMade
<1>14. DevelopersMade = [c \in Conversations(l) |->
          Snapshot({AuthorOf[m] : m \in In(l, c)}, {Own(t) : t \in Listed(In(l, c))})]
  <2> HIDE DEF Own
  <2> QED
    BY <1>5, <1>11 DEF DevelopersMade, Participants
<1>15. Out' = [projections |-> projections, scopes |-> ScopesMade, warmups |-> WarmupsMade,
               skills |-> SkillsMade, hints |-> HintsMade, developers |-> DevelopersMade]
  BY <1>8 DEF Out, stores
<1> QED
  BY <1>3, <1>9, <1>10, <1>12, <1>13, <1>14, <1>15 DEF Derived

LEMMA StepRefines ==
  ASSUME IInv, IInv', [Next]_vars
  PROVE  [Run!Next]_(Run!vars)
<1>1. CASE \E m \in Message, b \in Body : Ingest(m, b)
  BY <1>1 DEF Ingest, stores, Out, Run!Next, Run!Ingest
<1>2. CASE Start
  <2>1. stage = "none" /\ stage' = "project"
    BY <1>2, StrategyRunAssumption DEF IInv, TInv, Start, Logs
  <2> QED
    BY <1>2, <2>1 DEF Start, Run!Next, Run!Begin
<1>3. CASE NextStage /\ stage' # "done"
  BY <1>3 DEF NextStage, Successor, Run!vars
<1>4. CASE NextStage /\ stage' = "done"
  <2>1. stage = "developer" /\ UNCHANGED <<log, snap, stores>>
    <3>1. /\ stage \in {"project", "scope", "warmup", "skill", "hint", "developer"}
          /\ stage' = Successor[stage]
      BY <1>4 DEF NextStage, Successor
    <3>2. stage = "developer"
      BY <1>4, <3>1 DEF Successor
    <3> QED
      BY <1>4, <3>2 DEF NextStage
  <2>2. Out' = Derived(snap, Failed)
    BY <1>4, <2>1, OutIsDerived
  <2>3. Failed \in SUBSET (MayFail \cap Run!Logged(snap))
    BY <2>1 DEF IInv, PInv, Lost, Failed, Logged, Run!Logged
  <2>4. snap # None
    BY <2>1, StrategyRunAssumption DEF IInv, TInv, Logs
  <2>5. Run!End(Failed)
    BY <1>4, <2>1, <2>2, <2>4 DEF Run!End
  <2> QED
    BY <2>3, <2>4, <2>5 DEF Run!Next
<1>5. CASE RunJob
  <2>1. stage # "done" /\ UNCHANGED <<log, snap, stage>>
    BY <1>5 DEF RunJob, Project, ProjectFails, BuildScope, BuildWarmup, BuildSkill, BuildHint,
                BuildDeveloper, Deliver
  <2> QED
    BY <2>1 DEF Run!vars
<1>6. CASE UNCHANGED vars
  BY <1>6 DEF vars, stores, Out, Run!vars
<1> QED
  BY <1>1, <1>2, <1>3, <1>4, <1>5, <1>6 DEF Next

(* A run yields what its snapshot and its failed projections determine,    *)
(* "replaying the same log always yields the same result" (replay.rs:5-7), *)
(* for every log, every projector and every bound on the attempts: job     *)
(* order, redelivery, retries and ingests leave no trace.                  *)
THEOREM StagesImplementRun == Spec => ImplementsRun
<1>1. Init => Run!Init
  BY DEF Init, Run!Init
<1>2. IInv /\ IInv' /\ [Next]_vars => [Run!Next]_(Run!vars)
  BY StepRefines
<1> QED
  BY <1>1, <1>2, Invariance, PTL DEF Spec, ImplementsRun, Run!Spec

-----------------------------------------------------------------------------
(* Fractions (Providers): a fraction in lowest terms is known by its value.*)

\* In lowest terms.
Lowest(p) ==
  /\ p \in [num : Nat, den : Nat \ {0}]
  /\ \A k, a, b \in Nat : p.num = k * a /\ p.den = k * b => k = 1

LEMMA Dividing ==
  ASSUME NEW k \in Nat \ {0}, NEW n \in Nat
  PROVE  /\ n \div k \in Nat /\ n % k \in 0..k-1 /\ n = k * (n \div k) + (n % k)
         /\ \A a \in Nat : n = k * a => n % k = 0
<1>1. n \div k \in Nat /\ n % k \in 0..k-1 /\ n = k * (n \div k) + (n % k)
  OBVIOUS
<1>2. ASSUME NEW a \in Nat, n = k * a PROVE n % k = 0
  <2>1. (k * a) % k = 0
    OBVIOUS
  <2> QED
    BY <1>2, <2>1
<1> QED
  BY <1>1, <1>2

\* Fraction(n, d) is n/d in lowest terms.
LEMMA FractionIs ==
  ASSUME NEW n \in Nat, NEW d \in Nat \ {0}
  PROVE  Lowest(Fraction(n, d)) /\ Fraction(n, d).num * d = n * Fraction(n, d).den
<1>1. CASE n = 0
  <2>1. Fraction(n, d) = [num |-> 0, den |-> 1]
    BY <1>1 DEF Fraction
  <2>2. \A k, b \in Nat : 1 = k * b => k = 1
    OBVIOUS
  <2> QED
    BY <1>1, <2>1, <2>2 DEF Lowest
<1>2. CASE n # 0
  <2> DEFINE D == Divisors(n) \cap Divisors(d)
             g == Max(D)
  <2>1. \A k \in Nat : k \in D <=> k \in 1..n /\ k \in 1..d /\ n % k = 0 /\ d % k = 0
    BY DEF Divisors
  <2>2. D \in SUBSET Nat /\ \A k \in D : k <= d
    BY DEF Divisors
  <2>3. 1 \in D
    BY <1>2, <2>1
  <2> HIDE DEF D
  <2>4. g \in D /\ \A k \in D : k <= g
    BY <2>2, <2>3, MaxIsGreatest
  <2>5. g \in Nat \ {0} /\ n % g = 0 /\ d % g = 0
    <3>1. g \in Nat
      BY <2>2, <2>4
    <3>2. g \in 1..n /\ n % g = 0 /\ d % g = 0
      BY <2>1, <2>4, <3>1
    <3> QED
      BY <3>1, <3>2
  <2>6. Fraction(n, d) = [num |-> n \div g, den |-> d \div g]
    BY <1>2 DEF Fraction, D
  <2> HIDE DEF g
  <2>7. PICK a \in Nat, b \in Nat : a = n \div g /\ b = d \div g /\ n = g * a /\ d = g * b
    <3>1. /\ n \div g \in Nat /\ n = g * (n \div g) + (n % g)
          /\ d \div g \in Nat /\ d = g * (d \div g) + (d % g)
      BY <2>5, Dividing
    <3>2. \A z \in Nat : g * z + 0 = g * z
      BY <2>5
    <3> QED
      BY <2>5, <3>1, <3>2
  <2>8. b # 0
    BY <2>5, <2>7
  <2>9. a * d = n * b
    <3>1. a * (g * b) = (g * a) * b
      BY <2>5
    <3> QED
      BY <2>7, <3>1
  <2>10. ASSUME NEW k \in Nat, NEW x \in Nat, NEW y \in Nat, a = k * x, b = k * y
         PROVE  k = 1
    <3>1. n = (g * k) * x /\ d = (g * k) * y /\ g * k \in Nat
      <4>1. g * (k * x) = (g * k) * x /\ g * (k * y) = (g * k) * y /\ g * k \in Nat
        BY <2>5
      <4> QED
        BY <2>7, <2>10, <4>1
    <3>2. x # 0 /\ y # 0 /\ k # 0
      <4>1. a # 0 /\ b # 0
        BY <1>2, <2>5, <2>7, <2>8
      <4> QED
        BY <2>10, <4>1
    <3>3. PICK h \in Nat : h = g * k
      BY <3>1
    <3>4. h # 0
      BY <2>5, <3>2, <3>3
    <3>5. h <= h * x /\ h <= h * y
      BY <3>2
    <3>6. n % h = 0 /\ d % h = 0
      BY <3>1, <3>3, <3>4, Dividing
    <3>7. h \in D
      BY <2>1, <3>1, <3>3, <3>4, <3>5, <3>6
    <3>8. g * k <= g
      BY <2>4, <3>3, <3>7
    <3> QED
      BY <2>5, <3>2, <3>8
  <2>11. Lowest([num |-> a, den |-> b])
    BY <2>8, <2>10 DEF Lowest
  <2> QED
    BY <2>6, <2>7, <2>9, <2>11
<1> QED
  BY <1>1, <1>2

\* A fraction in lowest terms is a multiple of no other fraction of its value.
LEMMA LeastDenominator ==
  ASSUME NEW p, Lowest(p), NEW a \in Nat, NEW b \in Nat \ {0}, a * p.den = p.num * b,
         \A c \in Nat, e \in Nat \ {0} : c * p.den = p.num * e => b <= e
  PROVE  p.num = a /\ p.den = b
<1>1. PICK n \in Nat, d \in Nat \ {0} : n = p.num /\ d = p.den
  BY DEF Lowest
<1>2. PICK q \in Nat, r \in 0..b-1 : d = b * q + r
  <2>1. d \div b \in Nat /\ d % b \in 0..b-1 /\ d = b * (d \div b) + (d % b)
    BY Dividing
  <2> QED
    BY <2>1
<1>3. n * r = (n - q * a) * d
  <2>1. n * (b * q + r) = q * (n * b) + n * r /\ (n - q * a) * d = n * d - q * (a * d)
    BY <1>1
  <2>2. a * d = n * b
    BY <1>1
  <2> QED
    BY <1>2, <2>1, <2>2
<1>4. n - q * a \in Nat
  <2>1. n - q * a \in Int /\ n * r >= 0
    BY <1>1
  <2>2. \A z \in Int : z * d >= 0 => z >= 0
    BY <1>1
  <2> QED
    BY <1>3, <2>1, <2>2
<1>5. r = 0
  <2> SUFFICES ASSUME r # 0 PROVE FALSE
    OBVIOUS
  <2>1. (n - q * a) * p.den = p.num * r /\ r \in Nat \ {0}
    BY <1>1, <1>3
  <2>2. b <= r
    BY <1>4, <2>1
  <2> QED
    BY <1>2, <2>2
<1>6. n = q * a /\ d = q * b
  <2>1. \A z \in Int : z * d = 0 => z = 0
    BY <1>1
  <2>2. (n - q * a) * d = 0 /\ n - q * a \in Int
    BY <1>1, <1>3, <1>5
  <2>3. n - q * a = 0
    BY <2>1, <2>2
  <2>4. q * a \in Nat /\ b * q = q * b
    OBVIOUS
  <2> QED
    BY <1>2, <1>5, <2>3, <2>4
<1>7. q = 1
  BY <1>1, <1>6 DEF Lowest
<1> QED
  BY <1>1, <1>6, <1>7

\* So two of them that have the same value are the same.
LEMMA SameValue ==
  ASSUME NEW p, NEW q, Lowest(p), Lowest(q), p.num * q.den = q.num * p.den
  PROVE  p = q
<1>1. PICK n \in Nat, d \in Nat \ {0} : n = p.num /\ d = p.den
  BY DEF Lowest
<1>2. PICK m \in Nat, e \in Nat \ {0} : m = q.num /\ e = q.den
  BY DEF Lowest
<1>3. n * e = m * d
  BY <1>1, <1>2
<1> DEFINE Dens == {b \in Nat \ {0} : \E a \in Nat : a * d = n * b}
<1>4. Dens \in SUBSET Nat /\ d \in Dens
  BY <1>1
<1>5. PICK b : b \in Dens /\ \A x \in Dens : b <= x
  <2> HIDE DEF Dens
  <2> QED
    BY <1>4, MinIsLeast
<1>6. PICK a \in Nat : a * d = n * b
  BY <1>5
<1>7. b \in Nat \ {0}
  BY <1>5
<1>8. p.num = a /\ p.den = b
  <2>1. \A c \in Nat, x \in Nat \ {0} : c * p.den = p.num * x => b <= x
    BY <1>1, <1>5
  <2>2. a * p.den = p.num * b
    BY <1>1, <1>6
  <2> HIDE DEF Dens
  <2> QED
    BY <1>7, <2>1, <2>2, LeastDenominator
<1>9. q.num = a /\ q.den = b
  <2>1. ASSUME NEW c \in Nat, NEW x \in Nat \ {0} PROVE c * e = m * x <=> c * d = n * x
    <3>1. (c * e) * d = (c * d) * e
      OBVIOUS
    <3>2. (m * x) * d = (n * x) * e
      <4>1. (m * x) * d = (m * d) * x /\ (n * x) * e = (n * e) * x
        OBVIOUS
      <4> QED
        BY <1>3, <4>1
    <3>3. \A u, v \in Nat : /\ u * d = v * d => u = v
                            /\ u * e = v * e => u = v
      OBVIOUS
    <3>4. PICK u \in Nat, v \in Nat, y \in Nat, z \in Nat :
            u = c * e /\ v = m * x /\ y = c * d /\ z = n * x
      OBVIOUS
    <3>5. u * d = y * e /\ v * d = z * e
      BY <3>1, <3>2, <3>4
    <3>6. u = v <=> y = z
      BY <3>3, <3>5
    <3> QED
      BY <3>4, <3>6
  <2>2. \A c \in Nat, x \in Nat \ {0} : c * q.den = q.num * x => b <= x
    BY <1>2, <1>5, <2>1
  <2>3. a * q.den = q.num * b
    BY <1>2, <1>6, <1>7, <2>1
  <2> HIDE DEF Dens
  <2> QED
    BY <1>7, <2>2, <2>3, LeastDenominator
<1>10. p = [num |-> a, den |-> b] /\ q = [num |-> a, den |-> b]
  BY <1>8, <1>9 DEF Lowest
<1> QED
  BY <1>10

-----------------------------------------------------------------------------
(* Rankings.                                                               *)

Fractions == {p \in [num : Nat, den : Nat \ {0}] : Lowest(p)}

LEMMA FractionsAre ==
  ASSUME NEW p \in Fractions
  PROVE  p.num \in Nat /\ p.den \in Nat \ {0} /\ Lowest(p) /\ p = [num |-> p.num, den |-> p.den]
BY DEF Fractions

LEMMA LessIsTransitive ==
  ASSUME NEW p \in Fractions, NEW q \in Fractions, NEW r \in Fractions, Less(p, q), Less(q, r)
  PROVE  Less(p, r)
<1>1. PICK a \in Nat, b \in Nat \ {0} : a = p.num /\ b = p.den
  BY DEF Fractions
<1>2. PICK c \in Nat, d \in Nat \ {0} : c = q.num /\ d = q.den
  BY DEF Fractions
<1>3. PICK e \in Nat, f \in Nat \ {0} : e = r.num /\ f = r.den
  BY DEF Fractions
<1>4. a * d < c * b /\ c * f < e * d
  BY <1>1, <1>2, <1>3 DEF Less
<1>5. (a * d) * f < (c * b) * f
  BY <1>4
<1>6. (c * f) * b < (e * d) * b
  BY <1>4
<1>7. (a * f) * d < (e * b) * d
  <2>1. /\ (a * d) * f = (a * f) * d /\ (c * b) * f = (c * f) * b
        /\ (e * d) * b = (e * b) * d
    OBVIOUS
  <2>2. a * d * f \in Nat /\ c * b * f \in Nat /\ e * d * b \in Nat
    OBVIOUS
  <2> QED
    BY <1>5, <1>6, <2>1, <2>2
<1>8. \A x, y \in Nat : x * d < y * d => x < y
  OBVIOUS
<1>9. a * f < e * b
  BY <1>7, <1>8
<1> QED
  BY <1>1, <1>3, <1>9 DEF Less

LEMMA LessIsTotal ==
  ASSUME NEW p \in Fractions, NEW q \in Fractions
  PROVE  /\ p = q \/ Less(p, q) \/ Less(q, p)
         /\ Less(p, q) => ~Less(q, p) /\ p # q
<1>1. PICK a \in Nat, b \in Nat \ {0} : a = p.num /\ b = p.den
  BY DEF Fractions
<1>2. PICK c \in Nat, d \in Nat \ {0} : c = q.num /\ d = q.den
  BY DEF Fractions
<1>3. a * d \in Nat /\ c * b \in Nat
  OBVIOUS
<1>4. a * d = c * b => p = q
  BY <1>1, <1>2, SameValue DEF Fractions
<1> QED
  BY <1>1, <1>2, <1>3, <1>4 DEF Less

\* A finite set of authors with a score each.
Scores(S) ==
  /\ IsFiniteSet(S)
  /\ \A r \in S : r \in [author : Nat, score : Fractions]
  /\ \A r, s \in S : r.author = s.author => r = s

LEMMA BetterOrders ==
  ASSUME NEW S, Scores(S)
  PROVE  Orders({p \in S \X S : Better(p[1], p[2])}, S)
<1> DEFINE R == {p \in S \X S : Better(p[1], p[2])}
<1>1. \A r \in S : r.author \in Nat /\ r.score \in Fractions
  BY DEF Scores
<1>2. \A x, y \in S : <<x, y>> \in R <=> Better(x, y)
  OBVIOUS
<1> HIDE DEF R
<1>3. ASSUME NEW x \in S, NEW y \in S, x # y PROVE Better(x, y) \/ Better(y, x)
  <2>1. x.author # y.author
    BY <1>3 DEF Scores
  <2> QED
    BY <1>1, <2>1, LessIsTotal DEF Better
<1>4. ASSUME NEW x \in S, NEW y \in S, Better(x, y) PROVE ~Better(y, x)
  <2>1. Less(x.score, y.score) => ~Less(y.score, x.score) /\ x.score # y.score
    BY <1>1, LessIsTotal
  <2>2. Less(y.score, x.score) => ~Less(x.score, y.score) /\ x.score # y.score
    BY <1>1, LessIsTotal
  <2> QED
    BY <1>1, <1>4, <2>1, <2>2 DEF Better
<1>5. ASSUME NEW x \in S, NEW y \in S, NEW z \in S, Better(x, y), Better(y, z)
      PROVE  Better(x, z)
  <2>1. Less(z.score, y.score) /\ Less(y.score, x.score) => Less(z.score, x.score)
    BY <1>1, LessIsTransitive
  <2> QED
    BY <1>1, <1>5, <2>1 DEF Better
<1>6. Orders(R, S)
  BY <1>2, <1>3, <1>4, <1>5 DEF Orders
<1> QED
  BY <1>6 DEF R

\* c lists the n members of S, each once, better ones first.
Ranks(c, S, n) ==
  /\ c \in [1..n -> S]
  /\ \A x \in S : \E i \in 1..n : c[i] = x
  /\ \A i, j \in 1..n : i < j => Better(c[i], c[j])

LEMMA SortedRanks ==
  ASSUME NEW S, Scores(S)
  PROVE  \E n \in Nat : Ranks(Sorted(S, Better), S, n)
<1> DEFINE R == {p \in S \X S : Better(p[1], p[2])}
           Good(s) == s \in SetToSeqs(S) /\ \A i, j \in DOMAIN s : i < j => ~Better(s[j], s[i])
           n == Cardinality(S)
<1>1. Orders(R, S) /\ IsFiniteSet(S)
  BY BetterOrders DEF Scores
<1>2. n \in Nat /\ \E w : InOrder(w, S, R, n)
  <2> HIDE DEF R
  <2> QED
    BY <1>1, OrderExists
<1>3. PICK w : InOrder(w, S, R, n)
  BY <1>2
<1>4. ASSUME NEW s PROVE Good(s) <=> Sorts(s, S, R)
  <2>1. s \in SetToSeqs(S) => \A i \in DOMAIN s : s[i] \in S
    BY DEF SetToSeqs
  <2> QED
    BY <2>1 DEF Sorts
<1>5. Good(w) /\ \A s : Good(s) => s = w
  <2> HIDE DEF R, Good, n
  <2> QED
    BY <1>2, <1>3, <1>4, OrderIsUnique
<1>6. Sorted(S, Better) = CHOOSE s : Good(s)
  BY DEF Sorted
<1>7. Sorted(S, Better) = w
  <2> HIDE DEF Good
  <2> QED
    BY <1>5, <1>6
<1>8. Ranks(w, S, n)
  <2> HIDE DEF n
  <2> QED
    BY <1>3 DEF InOrder, Ranks
<1> QED
  BY <1>2, <1>7, <1>8

\* A finite set of authors with a tally each.
Tallies(T) ==
  /\ IsFiniteSet(T)
  /\ \A r \in T : r \in [author : Nat, tally : Fractions]
  /\ \A r, s \in T : r.author = s.author => r = s

\* The tally p as a score, where q is the strongest.
Norm(p, q) ==
  IF q.num = 0 THEN Fraction(0, 1) ELSE ClampScore(Fraction(p.num * q.den, p.den * q.num))
Normed(T, q) == {[author |-> r.author, score |-> Norm(r.tally, q)] : r \in T}

\* Scores are what is left of the tallies when the strongest is 1: no score needs to be
\* clamped.
LEMMA NormIs ==
  ASSUME NEW p \in Fractions, NEW q \in Fractions, ~Less(q, p)
  PROVE  /\ Norm(p, q) \in Fractions
         /\ q.num = 0 => p.num = 0 /\ Norm(p, q) = Fraction(0, 1)
         /\ q.num # 0 => /\ Norm(p, q).num * (p.den * q.num) = (p.num * q.den) * Norm(p, q).den
                         /\ Norm(p, q).num <= Norm(p, q).den
<1>1. PICK a \in Nat, b \in Nat \ {0} : a = p.num /\ b = p.den
  BY DEF Fractions
<1>2. PICK c \in Nat, d \in Nat \ {0} : c = q.num /\ d = q.den
  BY DEF Fractions
<1>3. a * d <= c * b
  <2>1. ~(c * b < a * d)
    BY <1>1, <1>2 DEF Less
  <2>2. a * d \in Nat /\ c * b \in Nat
    OBVIOUS
  <2> QED
    BY <2>1, <2>2
<1>4. CASE c = 0
  <2>1. a * d <= 0 /\ a * d \in Nat
    BY <1>3, <1>4
  <2>2. \A z \in Nat : z * d = 0 => z = 0
    OBVIOUS
  <2>3. a = 0
    BY <2>1, <2>2
  <2>4. 1 \in Nat \ {0} /\ 0 \in Nat
    OBVIOUS
  <2>5. Fraction(0, 1) \in Fractions
    <3>1. Lowest(Fraction(0, 1))
      BY <2>4, FractionIs
    <3> QED
      BY <3>1 DEF Fractions, Lowest
  <2> QED
    BY <1>1, <1>2, <1>4, <2>3, <2>5 DEF Norm
<1>5. CASE c # 0
  <2>1. a * d \in Nat /\ b * c \in Nat \ {0}
    <3>1. \A z \in Nat : b * z = 0 => z = 0
      OBVIOUS
    <3> QED
      BY <1>5, <3>1
  <2>2. PICK x \in Nat, y \in Nat \ {0} : x = a * d /\ y = b * c
    BY <2>1
  <2>3. PICK f : f = Fraction(x, y)
    OBVIOUS
  <2>4. Lowest(f) /\ f.num * y = x * f.den
    BY <2>3, FractionIs
  <2>5. f \in Fractions
    BY <2>4 DEF Fractions, Lowest
  <2>6. PICK n \in Nat, m \in Nat \ {0} : n = f.num /\ m = f.den
    BY <2>5 DEF Fractions
  <2>7. x <= y
    <3>1. b * c = c * b
      OBVIOUS
    <3> QED
      BY <1>3, <2>2, <3>1
  <2>8. n <= m
    <3>1. n * y = x * m
      BY <2>4, <2>6
    <3>2. x * m <= m * y
      BY <2>7
    <3>3. \A u, v \in Nat : v < u => v * y < u * y
      OBVIOUS
    <3>4. n * y \in Nat /\ m * y \in Nat
      OBVIOUS
    <3> QED
      BY <3>1, <3>2, <3>3, <3>4
  <2>9. ClampScore(f) = f
    BY <2>6, <2>8 DEF ClampScore
  <2>10. Norm(p, q) = f
    BY <1>1, <1>2, <1>5, <2>2, <2>3, <2>9 DEF Norm
  <2>11. f.num * (p.den * q.num) = (p.num * q.den) * f.den
    BY <1>1, <1>2, <2>2, <2>4
  <2> QED
    BY <1>2, <1>5, <2>5, <2>6, <2>8, <2>10, <2>11
<1> QED
  BY <1>4, <1>5

LEMMA NormedScores ==
  ASSUME NEW T, Tallies(T), NEW q \in Fractions, \A s \in T : ~Less(q, s.tally)
  PROVE  Scores(Normed(T, q))
<1>1. \A r \in T : r.author \in Nat /\ r.tally \in Fractions /\ Norm(r.tally, q) \in Fractions
  BY NormIs DEF Tallies
<1> DEFINE f == [r \in T |-> [author |-> r.author, score |-> Norm(r.tally, q)]]
<1>2. Normed(T, q) = {f[r] : r \in T}
  BY DEF Normed
<1>3. IsFiniteSet(Normed(T, q))
  <2> HIDE DEF f
  <2> QED
    BY <1>2, ImageIsFinite DEF Tallies
<1>4. \A r \in T : f[r].author = r.author /\ f[r] \in [author : Nat, score : Fractions]
  BY <1>1
<1> HIDE DEF f
<1>5. \A x, y \in Normed(T, q) : x.author = y.author => x = y
  BY <1>2, <1>4 DEF Tallies
<1>6. \A x \in Normed(T, q) : x \in [author : Nat, score : Fractions]
  BY <1>2, <1>4
<1> QED
  BY <1>3, <1>5, <1>6 DEF Scores

\* What a ranking sorts: there is a strongest tally, and the others are measured by it.
LEMMA RankedIs ==
  ASSUME NEW T, Tallies(T), T # {}
  PROVE  \E top \in T : /\ \A s \in T : ~Less(top.tally, s.tally)
                        /\ Ranked(T) = Sorted(Normed(T, top.tally), Better)
<1> DEFINE Top(r) == \A s \in T : ~Less(r.tally, s.tally)
           f == [r \in T |-> [author |-> r.author, score |-> r.tally]]
           S == {f[r] : r \in T}
<1>1. \A r \in T : /\ f[r].author = r.author /\ f[r].score = r.tally
                   /\ f[r] \in [author : Nat, score : Fractions]
  BY DEF Tallies
<1>2. Scores(S)
  <2>1. IsFiniteSet(S)
    <3> HIDE DEF f
    <3> QED
      BY ImageIsFinite DEF Tallies
  <2> HIDE DEF f
  <2>2. \A x, y \in S : x.author = y.author => x = y
    BY <1>1 DEF Tallies
  <2>3. \A x \in S : x \in [author : Nat, score : Fractions]
    BY <1>1
  <2> HIDE DEF S
  <2> QED
    BY <2>1, <2>2, <2>3 DEF Scores
<1>3. \E r \in T : Top(r)
  <2>1. PICK n \in Nat : Ranks(Sorted(S, Better), S, n)
    <3> HIDE DEF S
    <3> QED
      BY <1>2, SortedRanks
  <2>2. PICK c : Ranks(c, S, n)
    BY <2>1
  <2>3. n # 0
    <3>1. S # {}
      OBVIOUS
    <3>2. PICK x \in S : TRUE
      BY <3>1
    <3> HIDE DEF S
    <3>3. \E i \in 1..n : c[i] = x
      BY <2>2 DEF Ranks
    <3> QED
      BY <3>3
  <2>4. 1 \in 1..n
    BY <2>3
  <2>5. c[1] \in S
    <3> HIDE DEF S
    <3> QED
      BY <2>2, <2>4 DEF Ranks
  <2>6. PICK r \in T : f[r] = c[1]
    BY <2>5
  <2> HIDE DEF f
  <2>7. ASSUME NEW s \in T PROVE ~Less(r.tally, s.tally)
    <3>1. f[s] \in S
      OBVIOUS
    <3>2. PICK i \in 1..n : c[i] = f[s]
      BY <2>2, <3>1 DEF Ranks
    <3>3. r.tally \in Fractions /\ s.tally \in Fractions
      BY DEF Tallies
    <3>4. CASE i = 1
      <4>1. s.tally = r.tally
        BY <1>1, <2>6, <3>2, <3>4
      <4> QED
        BY <3>3, <4>1, LessIsTotal
    <3>5. CASE i # 1
      <4>1. Better(c[1], c[i])
        BY <2>2, <2>4, <3>5 DEF Ranks
      <4>2. Less(s.tally, r.tally) \/ s.tally = r.tally
        BY <1>1, <2>6, <3>2, <4>1 DEF Better
      <4> QED
        BY <3>3, <4>2, LessIsTotal
    <3> QED
      BY <3>4, <3>5
  <2> QED
    BY <2>7
<1>4. PICK top \in T : top = (CHOOSE r \in T : Top(r)) /\ Top(top)
  BY <1>3
<1>5. Ranked(T) = Sorted(Normed(T, top.tally), Better)
  BY <1>4 DEF Ranked, Normed, Norm
<1> QED
  BY <1>4, <1>5

-----------------------------------------------------------------------------
(* A hint about one topic.                                                 *)

LEMMA Cancelled ==
  ASSUME NEW a \in Nat, NEW b \in Nat, NEW c \in Nat \ {0}, a * c = b * c
  PROVE  a = b
OBVIOUS

\* Fraction(n, d) is the only fraction of that value.
LEMMA FractionIsThe ==
  ASSUME NEW p \in Fractions, NEW n \in Nat, NEW d \in Nat \ {0}, p.num * d = n * p.den
  PROVE  p = Fraction(n, d)
<1>1. PICK q : q = Fraction(n, d)
  OBVIOUS
<1>2. Lowest(q) /\ q.num * d = n * q.den
  BY <1>1, FractionIs
<1>3. PICK a \in Nat, b \in Nat \ {0} : a = p.num /\ b = p.den
  BY DEF Fractions
<1>4. PICK x \in Nat, y \in Nat \ {0} : x = q.num /\ y = q.den
  BY <1>2 DEF Lowest
<1>5. a * d = n * b /\ x * d = n * y
  BY <1>2, <1>3, <1>4
<1>6. (a * y) * d = (x * b) * d
  <2>1. /\ (a * y) * d = (a * d) * y /\ (n * b) * y = (n * y) * b
        /\ (x * b) * d = (x * d) * b
    OBVIOUS
  <2> QED
    BY <1>5, <2>1
<1>7. a * y = x * b
  <2>1. a * y \in Nat /\ x * b \in Nat
    OBVIOUS
  <2> QED
    BY <1>6, <2>1, Cancelled
<1>8. p = q
  BY <1>2, <1>3, <1>4, <1>7, SameValue DEF Fractions
<1> QED
  BY <1>1, <1>8

LEMMA FractionIn ==
  ASSUME NEW n \in Nat, NEW d \in Nat \ {0}
  PROVE  Fraction(n, d) \in Fractions
BY FractionIs DEF Fractions, Lowest

\* Adding a fraction once more.
LEMMA PlusOneMore ==
  ASSUME NEW p \in Fractions, NEW j \in Nat
  PROVE  Plus(Fraction(j * p.num, p.den), p) = Fraction((j + 1) * p.num, p.den)
<1>1. PICK n \in Nat, d \in Nat \ {0} : n = p.num /\ d = p.den
  BY DEF Fractions
<1>2. j * n \in Nat /\ (j + 1) * n \in Nat
  OBVIOUS
<1>3. PICK f : f = Fraction(j * n, d)
  OBVIOUS
<1>4. f \in Fractions /\ f.num * d = (j * n) * f.den
  BY <1>2, <1>3, FractionIn, FractionIs
<1>5. PICK a \in Nat, b \in Nat \ {0} : a = f.num /\ b = f.den
  BY <1>4 DEF Fractions
<1>6. a * d = (j * n) * b
  BY <1>4, <1>5
<1>7. a * d + n * b \in Nat /\ b * d \in Nat \ {0}
  <2>1. \A z \in Nat : b * z = 0 => z = 0
    OBVIOUS
  <2> QED
    BY <2>1
<1>8. PICK l : l = Fraction(a * d + n * b, b * d)
  OBVIOUS
<1>9. l \in Fractions /\ l.num * (b * d) = (a * d + n * b) * l.den
  BY <1>7, <1>8, FractionIn, FractionIs
<1>10. PICK x \in Nat, y \in Nat \ {0} : x = l.num /\ y = l.den
  BY <1>9 DEF Fractions
<1>11. (x * d) * b = (((j + 1) * n) * y) * b
  <2>1. x * (b * d) = (a * d + n * b) * y
    BY <1>9, <1>10
  <2>2. a * d + n * b = ((j + 1) * n) * b
    <3>1. (j * n) * b + n * b = ((j + 1) * n) * b
      OBVIOUS
    <3> QED
      BY <1>6, <3>1
  <2>3. x * (b * d) = (x * d) * b
    OBVIOUS
  <2>4. PICK m \in Nat : m = (j + 1) * n
    BY <1>2
  <2>5. (m * b) * y = (m * y) * b
    OBVIOUS
  <2> QED
    BY <2>1, <2>2, <2>3, <2>4, <2>5
<1>12. x * d = ((j + 1) * n) * y
  <2>1. x * d \in Nat /\ ((j + 1) * n) * y \in Nat
    BY <1>2
  <2> QED
    BY <1>11, <2>1, Cancelled
<1>13. l = Fraction((j + 1) * n, d)
  BY <1>2, <1>9, <1>10, <1>12, FractionIsThe
<1>14. Plus(f, p) = l
  BY <1>1, <1>5, <1>8 DEF Plus
<1> QED
  BY <1>1, <1>3, <1>13, <1>14

\* The sum of the scores an author has in an ownership that is listed k times.
LEMMA SumOfSame ==
  ASSUME NEW o, NEW k \in Nat, NEW a, Candidate(o, a) # {}, ScoreIn(o, a) \in Fractions
  PROVE  FoldFunction(LAMBDA x, sum : IF Candidate(x, a) = {} THEN sum ELSE Plus(sum, ScoreIn(x, a)),
                      Fraction(0, 1), [i \in 1..k |-> o])
           = Fraction(k * ScoreIn(o, a).num, ScoreIn(o, a).den)
<1> DEFINE Pick(s) == CHOOSE x \in s : TRUE
           p == ScoreIn(o, a)
           os == [i \in 1..k |-> o]
           Step(sum, i) == IF Candidate(os[i], a) = {} THEN sum ELSE Plus(sum, ScoreIn(os[i], a))
           Solves(g) == g = [s \in SUBSET (1..k) |->
                               IF s = {} THEN Fraction(0, 1) ELSE Step(g[s \ {Pick(s)}], Pick(s))]
           h == [s \in SUBSET (1..k) |-> Fraction(Cardinality(s) * p.num, p.den)]
           iter == CHOOSE g : Solves(g)
<1>1. FoldFunction(LAMBDA x, sum : IF Candidate(x, a) = {} THEN sum ELSE Plus(sum, ScoreIn(x, a)),
                   Fraction(0, 1), os) = iter[1..k]
  <2>1. DOMAIN os = 1..k
    OBVIOUS
  <2> HIDE DEF os
  <2> QED
    BY <2>1 DEF FoldFunction, FoldFunctionOnSet, MapThenFoldSet
<1>2. PICK n \in Nat, d \in Nat \ {0} : n = p.num /\ d = p.den
  BY DEF Fractions
<1>3. \A i \in 1..k : \A sum : Step(sum, i) = Plus(sum, p)
  OBVIOUS
<1>4. ASSUME NEW s \in SUBSET (1..k), s # {}
      PROVE  /\ Pick(s) \in s /\ s \ {Pick(s)} \in SUBSET (1..k)
             /\ h[s] = Step(h[s \ {Pick(s)}], Pick(s))
  <2>1. Pick(s) \in s
    BY <1>4
  <2> HIDE DEF Pick
  <2>2. IsFiniteSet(s)
    BY UpTo, FS_Subset
  <2>3. PICK j \in Nat : j = Cardinality(s \ {Pick(s)}) /\ Cardinality(s) = j + 1
    <3>1. /\ IsFiniteSet(s \ {Pick(s)})
          /\ Cardinality(s \ {Pick(s)}) = IF Pick(s) \in s THEN Cardinality(s) - 1 ELSE Cardinality(s)
      BY <2>2, FS_RemoveElement
    <3>2. Cardinality(s) \in Nat /\ Cardinality(s \ {Pick(s)}) \in Nat
      BY <2>2, <3>1, FS_CardinalityType
    <3> QED
      BY <2>1, <3>1, <3>2
  <2>4. h[s] = Fraction((j + 1) * p.num, p.den)
    BY <2>3
  <2>5. h[s \ {Pick(s)}] = Fraction(j * p.num, p.den)
    BY <2>1, <2>3
  <2> HIDE DEF h, p, Step
  <2>6. Plus(h[s \ {Pick(s)}], p) = h[s]
    BY <2>4, <2>5, PlusOneMore DEF p
  <2> QED
    BY <1>3, <2>1, <2>6
<1>5. h[{}] = Fraction(0, 1)
  <2>1. 0 * p.num = 0
    BY <1>2
  <2>2. Cardinality({}) = 0
    BY FS_EmptySet
  <2> QED
    BY <2>1, <2>2 DEF Fraction
<1> DEFINE all == SUBSET (1..k)
<1>6. Solves(h)
  <2>1. h = [s \in all |-> h[s]]
    OBVIOUS
  <2> HIDE DEF h, Step, Pick
  <2>2. \A s \in all : h[s] = IF s = {} THEN Fraction(0, 1) ELSE Step(h[s \ {Pick(s)}], Pick(s))
    BY <1>4, <1>5
  <2> QED
    BY <2>1, <2>2
<1>7. Solves(iter)
  <2> HIDE DEF h, Solves
  <2> QED
    BY <1>6
<1>8. iter[1..k] = h[1..k]
  <2> DEFINE Wrong == {s \in SUBSET (1..k) : iter[s] # h[s]}
  <2> SUFFICES ASSUME Wrong # {} PROVE FALSE
    OBVIOUS
  <2>1. PICK s \in Wrong : \A x \in s : s \ {x} \notin Wrong
    <3>1. Wrong \in SUBSET (SUBSET (1..k)) /\ IsFiniteSet(1..k)
      BY UpTo
    <3> HIDE DEF Wrong
    <3> QED
      BY <3>1, SmallestBad
  <2> HIDE DEF iter, h, Pick, Step
  <2>2. s # {}
    BY <1>5, <1>7
  <2>3. Pick(s) \in s /\ s \ {Pick(s)} \in SUBSET (1..k)
    BY <1>4, <2>2
  <2>4. iter[s \ {Pick(s)}] = h[s \ {Pick(s)}]
    BY <2>1, <2>3
  <2> QED
    BY <1>4, <1>7, <2>2, <2>4
<1>9. h[1..k] = Fraction(k * p.num, p.den)
  BY UpTo
<1> QED
  BY <1>1, <1>8, <1>9

LEMMA TotalsOfSame ==
  ASSUME NEW o, NEW k \in Nat \ {0}, NEW A, A = {x.author : x \in ToSet(o.candidates)},
         \A a \in A : Candidate(o, a) # {} /\ ScoreIn(o, a) \in Fractions
  PROVE  Totals([i \in 1..k |-> o])
           = {[author |-> a, tally |-> Fraction(k * ScoreIn(o, a).num, ScoreIn(o, a).den)] : a \in A}
<1> DEFINE os == [i \in 1..k |-> o]
           Sum(a) == FoldFunction(LAMBDA x, sum : IF Candidate(x, a) = {} THEN sum
                                                  ELSE Plus(sum, ScoreIn(x, a)), Fraction(0, 1), os)
<1>1. Totals(os) = {[author |-> a, tally |-> Sum(a)] :
                      a \in UNION {{x.author : x \in ToSet(q.candidates)} : q \in Range(os)}}
  BY DEF Totals
<1>2. Range(os) = {o}
  BY DEF Range
<1>3. UNION {{x.author : x \in ToSet(q.candidates)} : q \in Range(os)} = A
  BY <1>2
<1>4. ASSUME NEW a \in A PROVE Sum(a) = Fraction(k * ScoreIn(o, a).num, ScoreIn(o, a).den)
  BY <1>4, SumOfSame
<1> HIDE DEF Sum
<1> QED
  BY <1>1, <1>3, <1>4

\* A hint that adds up one ranking, however often, is that ranking: its first score is 1
\* unless all are 0, so the sums are the scores again when the strongest is made 1.
LEMMA HintOfOne ==
  ASSUME NEW T, Tallies(T), T # {}, NEW o, o.candidates = Ranked(T), NEW k \in Nat \ {0}
  PROVE  Hint([i \in 1..k |-> o]) = Ranked(T)
<1>1. PICK top \in T : /\ \A s \in T : ~Less(top.tally, s.tally)
                       /\ Ranked(T) = Sorted(Normed(T, top.tally), Better)
  BY RankedIs
<1> DEFINE q == top.tally
           S == Normed(T, q)
           c == Ranked(T)
<1>2. q \in Fractions /\ \A r \in T : r.tally \in Fractions /\ ~Less(q, r.tally)
  BY <1>1 DEF Tallies
<1>3. Scores(S)
  BY <1>1, <1>2, NormedScores
<1>4. PICK n \in Nat : Ranks(c, S, n)
  <2> HIDE DEF S
  <2> QED
    BY <1>1, <1>3, SortedRanks DEF S
\* The scores: all 0, or none above 1 and one of them 1.
<1>5. \A x \in S : x.author \in Nat /\ x.score \in Fractions /\ x = [author |-> x.author, score |-> x.score]
  <2> HIDE DEF S
  <2> QED
    BY <1>3 DEF Scores
<1>6. \A x \in S : \E r \in T : x = [author |-> r.author, score |-> Norm(r.tally, q)]
  BY DEF Normed
<1>7. q.num = 0 => \A x \in S : x.score = Fraction(0, 1)
  <2> SUFFICES ASSUME q.num = 0, NEW x \in S PROVE x.score = Fraction(0, 1)
    OBVIOUS
  <2>1. PICK r \in T : x = [author |-> r.author, score |-> Norm(r.tally, q)]
    BY <1>6
  <2> HIDE DEF S, q
  <2> QED
    BY <1>2, <2>1, NormIs
<1>8. q.num # 0 => /\ \A x \in S : x.score.num <= x.score.den
                   /\ \E x \in S : x.score.num = x.score.den
  <2> SUFFICES ASSUME q.num # 0
               PROVE  /\ \A x \in S : x.score.num <= x.score.den
                      /\ \E x \in S : x.score.num = x.score.den
    OBVIOUS
  <2>1. ASSUME NEW x \in S PROVE x.score.num <= x.score.den
    <3>1. PICK r \in T : x = [author |-> r.author, score |-> Norm(r.tally, q)]
      BY <1>6
    <3> HIDE DEF S, q
    <3> QED
      BY <1>2, <3>1, NormIs
  <2>2. [author |-> top.author, score |-> Norm(top.tally, q)] \in S
    BY DEF Normed
  <2>3. PICK a \in Nat \ {0}, d \in Nat \ {0} : a = q.num /\ d = q.den
    BY <1>2 DEF Fractions
  <2>4. Norm(q, q) \in Fractions /\ Norm(q, q).num * (d * a) = (a * d) * Norm(q, q).den
    <3> HIDE DEF q
    <3> QED
      BY <1>2, <2>3, NormIs, LessIsTotal
  <2>5. PICK x \in Nat, y \in Nat : x = Norm(q, q).num /\ y = Norm(q, q).den
    BY <2>4 DEF Fractions
  <2>6. x = y
    <3>1. d * a \in Nat \ {0} /\ (a * d) * y = y * (d * a)
      <4>1. \A z \in Nat : d * z = 0 => z = 0
        OBVIOUS
      <4> QED
        BY <4>1
    <3>2. x * (d * a) = y * (d * a)
      BY <2>4, <2>5, <3>1
    <3> QED
      BY <3>1, <3>2, Cancelled
  <2> QED
    BY <2>1, <2>2, <2>5, <2>6
\* What the hint reads from the ownership.
<1>9. DOMAIN c = 1..n /\ \A i \in 1..n : c[i] \in S
  BY <1>4 DEF Ranks
<1>10. ASSUME NEW x \in S
       PROVE  /\ x.author \in {y.author : y \in ToSet(c)}
              /\ Candidate(o, x.author) # {} /\ ScoreIn(o, x.author) = x.score
  <2> HIDE DEF S
  <2>1. PICK i \in 1..n : c[i] = x
    BY <1>4, <1>10 DEF Ranks
  <2>2. i \in Candidate(o, x.author)
    BY <1>9, <2>1 DEF Candidate
  <2>3. PICK j \in Candidate(o, x.author) : ScoreIn(o, x.author) = c[j].score
    BY <2>2 DEF ScoreIn
  <2>4. c[j] \in S /\ c[j].author = x.author
    BY <1>9, <2>3 DEF Candidate
  <2>5. c[j] = x
    BY <1>3, <1>10, <2>4 DEF Scores
  <2> QED
    BY <1>9, <2>1, <2>2, <2>3, <2>5 DEF ToSet
<1> DEFINE A == {x.author : x \in ToSet(o.candidates)}
           sum == [x \in S |-> Fraction(k * x.score.num, x.score.den)]
           U == {[author |-> x.author, tally |-> sum[x]] : x \in S}
<1>11. \A a \in A : \E x \in S : a = x.author
  <2> HIDE DEF S
  <2> QED
    BY <1>9 DEF ToSet
<1>12. Totals([i \in 1..k |-> o]) = U
  <2>1. \A a \in A : Candidate(o, a) # {} /\ ScoreIn(o, a) \in Fractions
    <3> HIDE DEF S, A
    <3> QED
      BY <1>5, <1>10, <1>11
  <2>2. Totals([i \in 1..k |-> o])
          = {[author |-> a, tally |-> Fraction(k * ScoreIn(o, a).num, ScoreIn(o, a).den)] : a \in A}
    <3> DEFINE A2 == A
    <3>1. A2 = {x.author : x \in ToSet(o.candidates)}
      OBVIOUS
    <3> HIDE DEF A2
    <3>2. \A a \in A2 : Candidate(o, a) # {} /\ ScoreIn(o, a) \in Fractions
      BY <2>1 DEF A2
    <3>3. Totals([i \in 1..k |-> o])
            = {[author |-> a, tally |-> Fraction(k * ScoreIn(o, a).num, ScoreIn(o, a).den)] : a \in A2}
      BY <3>1, <3>2, TotalsOfSame
    <3> QED
      BY <3>3 DEF A2
  <2>3. \A x \in S : x.author \in A
    BY <1>10
  <2>4. \A x \in S : sum[x] = Fraction(k * ScoreIn(o, x.author).num, ScoreIn(o, x.author).den)
    <3> HIDE DEF S
    <3> QED
      BY <1>10
  <2> HIDE DEF S, A, sum
  <2> QED
    BY <1>11, <2>2, <2>3, <2>4
<1>13. ASSUME NEW x \in S
       PROVE  /\ sum[x] \in Fractions
              /\ sum[x].num * x.score.den = (k * x.score.num) * sum[x].den
  <2>1. PICK a \in Nat, d \in Nat \ {0} : a = x.score.num /\ d = x.score.den
    BY <1>5, <1>13 DEF Fractions
  <2>2. k * a \in Nat
    OBVIOUS
  <2>3. sum[x] = Fraction(k * a, d)
    BY <1>13, <2>1
  <2> HIDE DEF sum, S
  <2> QED
    BY <2>1, <2>2, <2>3, FractionIs, FractionIn
<1>14. Tallies(U) /\ U # {}
  <2> DEFINE f == [x \in S |-> [author |-> x.author, tally |-> sum[x]]]
  <2>1. U = {f[x] : x \in S}
    OBVIOUS
  <2>2. IsFiniteSet(U)
    <3>1. IsFiniteSet(S)
      <4> HIDE DEF S
      <4> QED
        BY <1>3 DEF Scores
    <3> HIDE DEF f, S, U
    <3> QED
      BY <2>1, <3>1, ImageIsFinite
  <2>3. \A u \in U : u \in [author : Nat, tally : Fractions]
    <3> HIDE DEF S, sum
    <3> QED
      BY <1>5, <1>13
  <2>4. \A u, v \in U : u.author = v.author => u = v
    <3> HIDE DEF S, sum
    <3> QED
      BY <1>3 DEF Scores
  <2>5. U # {}
    <3>1. S # {}
      BY DEF Normed
    <3> HIDE DEF S, sum
    <3> QED
      BY <3>1
  <2> HIDE DEF U
  <2> QED
    BY <2>2, <2>3, <2>4, <2>5 DEF Tallies
<1>15. PICK best \in U : /\ \A s \in U : ~Less(best.tally, s.tally)
                         /\ Ranked(U) = Sorted(Normed(U, best.tally), Better)
  <2> HIDE DEF U
  <2> QED
    BY <1>14, RankedIs
<1>16. PICK w \in S : best = [author |-> w.author, tally |-> sum[w]]
  BY <1>15
<1>17. ASSUME NEW x \in S PROVE Norm(sum[x], sum[w]) = x.score
  <2>0. sum[w] \in Fractions /\ sum[x] \in Fractions /\ ~Less(sum[w], sum[x])
    <3>1. [author |-> x.author, tally |-> sum[x]] \in U
      BY <1>17
    <3> HIDE DEF U, S, sum
    <3> QED
      BY <1>13, <1>15, <1>16, <1>17, <3>1
  <2>1. CASE q.num = 0
    <3>1. w.score = Fraction(0, 1) /\ x.score = Fraction(0, 1)
      BY <1>7, <1>17, <2>1
    <3>2. w.score.num = 0 /\ w.score.den = 1 /\ k * 0 = 0
      BY <3>1 DEF Fraction
    <3>3. sum[w] = [num |-> 0, den |-> 1]
      BY <3>2 DEF Fraction
    <3> HIDE DEF sum, S
    <3> QED
      BY <3>1, <3>3 DEF Norm
  <2>2. CASE q.num # 0
    <3> HIDE DEF U, S, sum, q
    <3>1. PICK u \in S : u.score.num = u.score.den
      BY <1>8, <2>2
    <3>2. PICK m \in Nat, e \in Nat \ {0} : m = w.score.num /\ e = w.score.den /\ m <= e
      BY <1>5, <1>8, <2>2 DEF Fractions
    <3>3. PICK a \in Nat, d \in Nat \ {0} : a = x.score.num /\ d = x.score.den
      BY <1>5, <1>17 DEF Fractions
    <3>4. PICK v \in Nat \ {0} : v = u.score.num /\ v = u.score.den
      BY <1>5, <3>1 DEF Fractions
    <3>5. PICK tn \in Nat, td \in Nat \ {0} :
            tn = sum[w].num /\ td = sum[w].den /\ tn * e = (k * m) * td
      BY <1>13, <3>2 DEF Fractions
    <3>6. PICK un \in Nat, ud \in Nat \ {0} :
            un = sum[u].num /\ ud = sum[u].den /\ un * v = (k * v) * ud
      <4>1. sum[u] \in Fractions /\ sum[u].num * v = (k * v) * sum[u].den
        BY <1>13, <3>1, <3>4
      <4> QED
        BY <4>1 DEF Fractions
    <3>7. PICK xn \in Nat, xd \in Nat \ {0} :
            xn = sum[x].num /\ xd = sum[x].den /\ xn * d = (k * a) * xd
      BY <1>13, <1>17, <3>3 DEF Fractions
    <3>8. un = k * ud
      <4>1. (k * v) * ud = (k * ud) * v /\ k * ud \in Nat
        OBVIOUS
      <4> QED
        BY <3>6, <4>1, Cancelled
    <3>9. ~Less(sum[w], sum[u])
      <4>1. [author |-> u.author, tally |-> sum[u]] \in U
        BY DEF U
      <4> QED
        BY <1>15, <1>16, <4>1
    <3>10. k * td <= tn
      <4>1. un * td <= tn * ud
        <5>1. ~(tn * ud < un * td)
          BY <3>5, <3>6, <3>9 DEF Less
        <5>2. tn * ud \in Nat /\ un * td \in Nat
          OBVIOUS
        <5> QED
          BY <5>1, <5>2
      <4>2. (k * ud) * td = (k * td) * ud /\ k * td \in Nat
        OBVIOUS
      <4>3. PICK y \in Nat : y = k * td
        BY <4>2
      <4>4. y * ud <= tn * ud
        BY <3>8, <4>1, <4>2, <4>3
      <4>5. \A z \in Nat : z < y => z * ud < y * ud
        OBVIOUS
      <4>6. tn * ud \in Nat /\ y * ud \in Nat
        OBVIOUS
      <4> QED
        BY <4>3, <4>4, <4>5, <4>6
    <3>11. tn <= k * td
      <4>1. PICK y \in Nat : y = k * td
        OBVIOUS
      <4>2. tn * e = y * m
        <5>1. (k * m) * td = (k * td) * m
          OBVIOUS
        <5> QED
          BY <3>5, <4>1, <5>1
      <4>3. y * m <= y * e
        BY <3>2
      <4>4. \A z \in Nat : y < z => y * e < z * e
        OBVIOUS
      <4>5. tn * e \in Nat /\ y * e \in Nat /\ y * m \in Nat
        OBVIOUS
      <4> QED
        BY <4>1, <4>2, <4>3, <4>4, <4>5
    <3>12. tn = k * td /\ tn # 0
      <4>1. k * td \in Nat \ {0}
        <5>1. \A z \in Nat : k * z = 0 => z = 0
          OBVIOUS
        <5> QED
          BY <5>1
      <4> QED
        BY <3>10, <3>11, <4>1
    <3>13. PICK f : f = Norm(sum[x], sum[w])
      OBVIOUS
    <3>14. f \in Fractions /\ f.num * (xd * tn) = (xn * td) * f.den
      <4>1. PICK g, h : g = sum[x] /\ h = sum[w]
        OBVIOUS
      <4>2. /\ Norm(g, h) \in Fractions
            /\ h.num # 0 => Norm(g, h).num * (g.den * h.num) = (g.num * h.den) * Norm(g, h).den
        BY <2>0, <4>1, NormIs
      <4> QED
        BY <3>5, <3>7, <3>12, <3>13, <4>1, <4>2
    <3>15. PICK y \in Nat, z \in Nat \ {0} : y = f.num /\ z = f.den
      BY <3>14 DEF Fractions
    <3>16. y * d = a * z
      <4>1. PICK g \in Nat \ {0} : g = xd * tn
        <5>1. \A b \in Nat : xd * b = 0 => b = 0
          OBVIOUS
        <5> QED
          BY <3>12, <5>1
      <4>2. (y * g) * d = ((xn * td) * z) * d
        BY <3>14, <3>15, <4>1
      <4>3. (y * g) * d = (y * d) * g
        OBVIOUS
      <4>4. ((xn * td) * z) * d = (xn * d) * (td * z)
        OBVIOUS
      <4>5. (xn * d) * (td * z) = ((k * a) * xd) * (td * z)
        BY <3>7
      <4>6. ((k * a) * xd) * (td * z) = (a * z) * (xd * (k * td))
        OBVIOUS
      <4>7. (y * d) * g = (a * z) * g
        BY <3>12, <4>1, <4>2, <4>3, <4>4, <4>5, <4>6
      <4>8. y * d \in Nat /\ a * z \in Nat
        OBVIOUS
      <4> QED
        BY <4>7, <4>8, Cancelled
    <3>17. f = x.score
      <4>1. x.score \in Fractions
        BY <1>5, <1>17
      <4> QED
        BY <3>3, <3>14, <3>15, <3>16, <4>1, SameValue DEF Fractions
    <3> QED
      BY <3>13, <3>17
  <2> QED
    BY <2>1, <2>2
<1>18. Normed(U, best.tally) = S
  <2>1. Normed(U, best.tally) = {[author |-> u.author, score |-> Norm(u.tally, best.tally)] : u \in U}
    BY DEF Normed
  <2>2. best.tally = sum[w]
    BY <1>16
  <2> HIDE DEF S, sum
  <2>3. \A u \in U : \E x \in S : u = [author |-> x.author, tally |-> sum[x]]
    OBVIOUS
  <2>4. \A x \in S : [author |-> x.author, tally |-> sum[x]] \in U
    OBVIOUS
  <2> HIDE DEF U
  <2>5. \A u \in U : [author |-> u.author, score |-> Norm(u.tally, best.tally)] \in S
    BY <1>5, <1>17, <2>2, <2>3
  <2>6. ASSUME NEW x \in S
        PROVE  \E u \in U : x = [author |-> u.author, score |-> Norm(u.tally, best.tally)]
    <3>1. PICK u \in U : u = [author |-> x.author, tally |-> sum[x]]
      BY <2>4
    <3> QED
      BY <1>5, <1>17, <2>2, <3>1
  <2> QED
    BY <2>1, <2>5, <2>6
<1> HIDE DEF U
<1> QED
  BY <1>1, <1>12, <1>15, <1>18 DEF Hint

-----------------------------------------------------------------------------
(* How strongly an author is involved in a topic, as a number of tickets:  *)
(* one for each unit of confidence of each mention.                        *)

\* Finitely many contributions, as projections of messages yield them.
Contributions(C) ==
  /\ IsFiniteSet(DOMAIN C)
  /\ \A c \in DOMAIN C :
       C[c].author \in Nat /\ C[c].confidence \in Nat /\ C[c].topics \in Seq(Nat)

Weights(C, t) == [c \in DOMAIN C |-> C[c].confidence * Occurrences(C[c].topics, t)]
Of(C, a) == {c \in DOMAIN C : C[c].author = a}

LEMMA OccurrencesAre ==
  ASSUME NEW s \in Seq(Nat), NEW x
  PROVE  /\ IsFiniteSet({i \in DOMAIN s : s[i] = x})
         /\ Occurrences(s, x) = Cardinality({i \in DOMAIN s : s[i] = x})
         /\ Occurrences(s, x) \in Nat
<1>1. Len(s) \in Nat /\ DOMAIN s = 1..Len(s)
  OBVIOUS
<1>2. IsFiniteSet(DOMAIN s)
  BY <1>1, UpTo
<1>3. IsFiniteSet({i \in DOMAIN s : s[i] = x})
  BY <1>2, FS_Subset
<1> QED
  BY <1>3, FS_CardinalityType DEF Occurrences

LEMMA InvolvementIs ==
  ASSUME NEW C, Contributions(C), NEW a, NEW t
  PROVE  /\ IsFiniteSet(Of(C, a)) /\ Counts(Weights(C, t), Of(C, a))
         /\ Involvement(C, a, t) = Cardinality(Tickets(Weights(C, t), Of(C, a)))
         /\ Involvement(C, a, t) \in Nat
<1> DEFINE S == {c \in DOMAIN C : C[c].author = a}
           W == Weights(C, t)
           Pick(s) == CHOOSE x \in s : TRUE
           Solves(g) == g = [s \in SUBSET S |-> IF s = {} THEN 0
                               ELSE C[Pick(s)].confidence * Occurrences(C[Pick(s)].topics, t)
                                      + g[s \ {Pick(s)}]]
           iter == CHOOSE g : Solves(g)
<1>1. Involvement(C, a, t) = iter[S]
  BY DEF Involvement, MapThenSumSet, MapThenFoldSet
<1>2. \A c \in DOMAIN C : W[c] = C[c].confidence * Occurrences(C[c].topics, t)
  BY DEF Weights
<1>3. Counts(W, S)
  <2>1. ASSUME NEW c \in DOMAIN C PROVE W[c] \in Nat
    <3>1. C[c].confidence \in Nat /\ C[c].topics \in Seq(Nat)
      BY DEF Contributions
    <3>2. Occurrences(C[c].topics, t) \in Nat
      BY <3>1, OccurrencesAre
    <3>3. \A x, y \in Nat : x * y \in Nat
      OBVIOUS
    <3> HIDE DEF W
    <3> QED
      BY <1>2, <3>1, <3>2, <3>3
  <2> HIDE DEF W
  <2> QED
    BY <2>1 DEF Counts
<1>4. IsFiniteSet(S)
  BY FS_Subset DEF Contributions
<1>5. \A s \in SUBSET S : s # {} => Pick(s) \in DOMAIN C
  OBVIOUS
<1> HIDE DEF W
<1>6. \A s \in SUBSET S : s # {} =>
        C[Pick(s)].confidence * Occurrences(C[Pick(s)].topics, t) = W[Pick(s)]
  BY <1>2, <1>5
<1>7. \A g : Solves(g) <=> Sums(g, W, S)
  <2> SUFFICES ASSUME NEW g PROVE Solves(g) <=> Sums(g, W, S)
    OBVIOUS
  <2>1. [s \in SUBSET S |-> IF s = {} THEN 0
                               ELSE C[Pick(s)].confidence * Occurrences(C[Pick(s)].topics, t)
                                      + g[s \ {Pick(s)}]]
          = [s \in SUBSET S |-> IF s = {} THEN 0 ELSE W[Pick(s)] + g[s \ {Pick(s)}]]
    <3> HIDE DEF Pick, S
    <3> QED
      BY <1>6
  <2> QED
    BY <2>1 DEF Sums
<1>8. Solves(iter)
  <2>1. \E g : Solves(g)
    <3> HIDE DEF Solves, S
    <3> QED
      BY <1>3, <1>4, <1>7, SumsCountTickets
  <2> HIDE DEF Solves
  <2> QED
    BY <2>1
<1>9. iter[S] = Cardinality(Tickets(W, S))
  <2> HIDE DEF Solves, iter, S
  <2> QED
    BY <1>3, <1>4, <1>7, <1>8, SumsCountTickets
<1>10. Cardinality(Tickets(W, S)) \in Nat
  <2> HIDE DEF S
  <2> QED
    BY <1>3, <1>4, TicketsAreFinite
<1> QED
  BY <1>1, <1>3, <1>4, <1>9, <1>10 DEF Of, W

\* What the ownership of a topic ranks.
AuthorsOn(C, t) == {C[c].author : c \in {d \in DOMAIN C : t \in ToSet(C[d].topics)}}
TallyOn(C, a, t) == [author |-> a, tally |-> Fraction(Involvement(C, a, t), 1)]
TalliesOn(C, t) == {TallyOn(C, a, t) : a \in AuthorsOn(C, t)}
Listed(C) == UNION {ToSet(C[c].topics) : c \in DOMAIN C}

LEMMA TalliesOfTopic ==
  ASSUME NEW C, Contributions(C), NEW t \in Listed(C)
  PROVE  Tallies(TalliesOn(C, t)) /\ TalliesOn(C, t) # {}
<1> DEFINE A == AuthorsOn(C, t)
           M == {d \in DOMAIN C : t \in ToSet(C[d].topics)}
           author == [c \in M |-> C[c].author]
           tally == [a \in A |-> TallyOn(C, a, t)]
<1>1. A \in SUBSET Nat /\ A # {}
  BY DEF Contributions, AuthorsOn, Listed
<1>2. IsFiniteSet(A)
  <2>1. IsFiniteSet(M)
    BY FS_Subset DEF Contributions
  <2>2. A = {author[c] : c \in M}
    BY DEF AuthorsOn
  <2> HIDE DEF A, M, author
  <2> QED
    BY <2>1, <2>2, ImageIsFinite
<1>3. TalliesOn(C, t) = {tally[a] : a \in A}
  BY DEF TalliesOn
<1>4. \A a \in A : tally[a] \in [author : Nat, tally : Fractions] /\ tally[a].author = a
  <2> SUFFICES ASSUME NEW a \in A
               PROVE  tally[a] \in [author : Nat, tally : Fractions] /\ tally[a].author = a
    OBVIOUS
  <2>1. Fraction(Involvement(C, a, t), 1) \in Fractions
    <3>1. Involvement(C, a, t) \in Nat
      BY InvolvementIs
    <3> QED
      BY <3>1, FractionIn
  <2> HIDE DEF A
  <2> QED
    BY <1>1, <2>1 DEF TallyOn
<1> HIDE DEF tally, A
<1>5. IsFiniteSet(TalliesOn(C, t))
  BY <1>2, <1>3, ImageIsFinite
<1>6. \A r, s \in TalliesOn(C, t) : r.author = s.author => r = s
  BY <1>3, <1>4
<1>7. \A r \in TalliesOn(C, t) : r \in [author : Nat, tally : Fractions]
  BY <1>3, <1>4
<1>8. TalliesOn(C, t) # {}
  BY <1>1, <1>3
<1> QED
  BY <1>5, <1>6, <1>7, <1>8 DEF Tallies

LEMMA OwnershipIs ==
  ASSUME NEW C, NEW t \in Listed(C)
  PROVE  (CHOOSE p \in Ownerships(C) : p.topic = t).candidates = Ranked(TalliesOn(C, t))
<1> DEFINE ranks == [x \in Listed(C) |-> Ranked(TalliesOn(C, x))]
           made == {[topic |-> x, candidates |-> ranks[x]] : x \in Listed(C)}
<1>1. Ownerships(C) = made
  BY DEF Ownerships, Listed, TalliesOn, TallyOn, AuthorsOn
<1> HIDE DEF ranks
<1>2. \A p \in made : p.topic = t => p.candidates = ranks[t]
  OBVIOUS
<1>3. \E p \in made : p.topic = t
  <2>1. [topic |-> t, candidates |-> ranks[t]] \in made
    OBVIOUS
  <2> QED
    BY <2>1
<1> HIDE DEF made
<1>4. (CHOOSE p \in made : p.topic = t).candidates = ranks[t]
  BY <1>2, <1>3
<1> QED
  BY <1>1, <1>4 DEF ranks

\* The places at which the contributions s mention topic t.
Places(C, t, s) == UNION {{c} \X {i \in DOMAIN C[c].topics : C[c].topics[i] = t} : c \in s}
Pairs(D) == D \X Nat
Confidences(C) == [n \in Pairs(DOMAIN C) |-> C[n[1]].confidence]

LEMMA InPairs ==
  ASSUME NEW D, NEW c \in D, NEW p \in {c} \X Nat
  PROVE  p \in Pairs(D) /\ p[1] = c
BY DEF Pairs

LEMMA ConfidenceAt ==
  ASSUME NEW C, NEW c \in DOMAIN C, NEW p \in {c} \X Nat
  PROVE  Confidences(C)[p] = C[c].confidence
<1>1. p \in Pairs(DOMAIN C) /\ p[1] = c
  BY InPairs
<1> QED
  BY <1>1 DEF Confidences

LEMMA PlacesOfOne ==
  ASSUME NEW C, Contributions(C), NEW c \in DOMAIN C, NEW t
  PROVE  /\ IsFiniteSet(Places(C, t, {c})) /\ Places(C, t, {c}) \subseteq {c} \X Nat
         /\ IsFiniteSet(Tickets(Confidences(C), Places(C, t, {c})))
         /\ Cardinality(Tickets(Confidences(C), Places(C, t, {c}))) = Weights(C, t)[c]
<1> DEFINE I == {i \in DOMAIN C[c].topics : C[c].topics[i] = t}
           k == C[c].confidence
           V == Confidences(C)
<1>1. C[c].topics \in Seq(Nat) /\ k \in Nat
  BY DEF Contributions
<1>2. PICK n \in Nat : n = Cardinality(I) /\ n = Occurrences(C[c].topics, t)
  BY <1>1, OccurrencesAre
<1>3. IsFiniteSet(I) /\ I \subseteq Nat
  <2>1. DOMAIN C[c].topics \subseteq Nat
    BY <1>1
  <2> QED
    BY <1>1, <2>1, OccurrencesAre
<1>4. Places(C, t, {c}) = {c} \X I
  BY DEF Places
<1>5. Weights(C, t)[c] = k * n
  BY <1>2 DEF Weights
<1>6. \A p \in {c} \X I : V[p] = k
  BY <1>3, ConfidenceAt
<1> HIDE DEF I, V, k
<1>7. IsFiniteSet({c}) /\ Cardinality({c}) = 1
  BY FS_Singleton
<1>8. IsFiniteSet({c} \X I) /\ Cardinality({c} \X I) = n
  <2>1. IsFiniteSet({c} \X I) /\ Cardinality({c} \X I) = Cardinality({c}) * Cardinality(I)
    BY <1>3, <1>7, FS_Product
  <2> QED
    BY <1>2, <1>7, <2>1
<1>9. IsFiniteSet(1..k) /\ Cardinality(1..k) = k
  BY <1>1, UpTo
<1>10. /\ IsFiniteSet(({c} \X I) \X (1..k))
       /\ Cardinality(({c} \X I) \X (1..k)) = n * k
  BY <1>8, <1>9, FS_Product
<1>11. Tickets(V, {c} \X I) = ({c} \X I) \X (1..k)
  BY <1>1, <1>6 DEF Tickets
<1>12. n * k = k * n
  BY <1>1
<1> QED
  BY <1>3, <1>4, <1>5, <1>8, <1>10, <1>11, <1>12 DEF V

\* Weighing each mention by itself comes to the same as weighing each contribution by its
\* mentions.
LEMMA PlacesWeigh ==
  ASSUME NEW C, Contributions(C), NEW t, NEW S \in SUBSET DOMAIN C
  PROVE  /\ IsFiniteSet(Places(C, t, S)) /\ Counts(Confidences(C), Places(C, t, S))
         /\ Cardinality(Tickets(Confidences(C), Places(C, t, S))) = Cardinality(Tickets(Weights(C, t), S))
<1> DEFINE V == Confidences(C)
           W == Weights(C, t)
           Right(s) == /\ IsFiniteSet(Places(C, t, s)) /\ IsFiniteSet(Tickets(V, Places(C, t, s)))
                       /\ Cardinality(Tickets(V, Places(C, t, s))) = Cardinality(Tickets(W, s))
           Bad == {s \in SUBSET S : ~Right(s)}
<1>1. IsFiniteSet(S)
  BY FS_Subset DEF Contributions
<1>2. Counts(W, S)
  <2>1. ASSUME NEW c \in S PROVE W[c] \in Nat
    <3>1. W[c] = C[c].confidence * Occurrences(C[c].topics, t)
      BY DEF Weights
    <3>2. C[c].confidence \in Nat /\ Occurrences(C[c].topics, t) \in Nat
      BY OccurrencesAre DEF Contributions
    <3>3. \A x, y \in Nat : x * y \in Nat
      OBVIOUS
    <3> HIDE DEF W
    <3> QED
      BY <3>1, <3>2, <3>3
  <2> HIDE DEF W
  <2> QED
    BY <2>1 DEF Counts
<1>3. Right({})
  <2>1. Places(C, t, {}) = {}
    BY DEF Places
  <2>2. Tickets(V, {}) = {} /\ Tickets(W, {}) = {}
    BY DEF Tickets
  <2> QED
    BY <2>1, <2>2, FS_EmptySet
<1>4. ASSUME NEW s \in SUBSET S, NEW c \in s, Right(s \ {c})
      PROVE  Right(s)
  <2> DEFINE one == Places(C, t, {c})
             rest == Places(C, t, s \ {c})
  <2>1. Places(C, t, s) = one \cup rest /\ one \cap rest = {}
    BY DEF Places
  <2>2. /\ IsFiniteSet(one) /\ IsFiniteSet(Tickets(V, one))
        /\ Cardinality(Tickets(V, one)) = W[c]
    <3> HIDE DEF V, W
    <3> QED
      BY PlacesOfOne DEF V, W
  <2>3. /\ IsFiniteSet(rest) /\ IsFiniteSet(Tickets(V, rest))
        /\ Cardinality(Tickets(V, rest)) = Cardinality(Tickets(W, s \ {c}))
    BY <1>4
  <2> HIDE DEF one, rest, V, W
  <2>4. IsFiniteSet(one \cup rest)
    BY <2>2, <2>3, FS_Union
  <2>5. /\ IsFiniteSet(Tickets(V, one \cup rest))
        /\ Cardinality(Tickets(V, one \cup rest)) = Cardinality(Tickets(V, one)) + Cardinality(Tickets(V, rest))
    BY <2>1, <2>2, <2>3, TicketsOfBoth
  <2>6. Cardinality(Tickets(W, s)) = W[c] + Cardinality(Tickets(W, s \ {c}))
    <3>1. IsFiniteSet(s) /\ Counts(W, s)
      BY <1>1, <1>2, FS_Subset DEF Counts
    <3> QED
      BY <3>1, TicketsAddUp
  <2> QED
    BY <2>1, <2>2, <2>3, <2>4, <2>5, <2>6
<1>5. Right(S)
  <2> SUFFICES ASSUME ~Right(S) PROVE FALSE
    OBVIOUS
  <2> HIDE DEF Right
  <2>1. Bad \in SUBSET (SUBSET S) /\ Bad # {}
    OBVIOUS
  <2>2. PICK s \in Bad : \A x \in s : s \ {x} \notin Bad
    <3> HIDE DEF Bad
    <3> QED
      BY <1>1, <2>1, SmallestBad
  <2>3. PICK c \in s : TRUE
    BY <1>3, <2>2
  <2>4. s \in SUBSET S /\ ~Right(s) /\ Right(s \ {c})
    BY <2>2, <2>3
  <2> QED
    BY <1>4, <2>4
<1>6. Counts(V, Places(C, t, S))
  <2>1. ASSUME NEW p \in Places(C, t, S) PROVE V[p] \in Nat
    <3>1. PICK c \in S : p \in Places(C, t, {c})
      BY DEF Places
    <3>2. p \in {c} \X Nat
      BY <3>1, PlacesOfOne
    <3>3. V[p] = C[c].confidence
      BY <3>2, ConfidenceAt
    <3> QED
      BY <3>3 DEF Contributions
  <2> HIDE DEF V
  <2> QED
    BY <2>1 DEF Counts
<1> QED
  BY <1>5, <1>6

-----------------------------------------------------------------------------
(* What a ranking of whole numbers says.                                   *)

LEMMA WholeFraction ==
  ASSUME NEW x \in Nat
  PROVE  Fraction(x, 1) \in Fractions /\ Fraction(x, 1).num = x /\ Fraction(x, 1).den = 1
<1>1. PICK p : p = Fraction(x, 1)
  OBVIOUS
<1>2. p \in Fractions /\ Lowest(p) /\ p.num * 1 = x * p.den
  BY <1>1, FractionIs, FractionIn
<1>3. PICK n \in Nat, d \in Nat \ {0} : n = p.num /\ d = p.den
  BY <1>2 DEF Fractions
<1>4. n = d * x /\ d = d * 1
  BY <1>2, <1>3
<1>5. d = 1
  BY <1>2, <1>3, <1>4 DEF Lowest
<1>6. n = x
  BY <1>4, <1>5
<1> QED
  BY <1>1, <1>2, <1>3, <1>5, <1>6

\* c lists the authors A, each at one place, by the numbers of f, ties by id, with scores that
\* are to 1 what the numbers are to the first.
RanksBy(c, A, f) ==
  /\ \E n \in Nat : DOMAIN c = 1..n
  /\ {x.author : x \in ToSet(c)} = A
  /\ \A i, j \in DOMAIN c : i < j =>
       \/ f[c[i].author] > f[c[j].author]
       \/ f[c[i].author] = f[c[j].author] /\ c[i].author < c[j].author
  /\ \A i \in DOMAIN c :
       IF f[c[1].author] = 0 THEN c[i].score.num = 0
       ELSE c[i].score.num * f[c[1].author] = f[c[i].author] * c[i].score.den

\* Scores to which 1 is as m is to x and y compare as x and y do.
LEMMA ScoresCompare ==
  ASSUME NEW p \in Fractions, NEW q \in Fractions, NEW x \in Nat, NEW y \in Nat, NEW m \in Nat \ {0},
         p.num * m = x * p.den, q.num * m = y * q.den
  PROVE  /\ Less(p, q) => x < y
         /\ p = q => x = y
<1>1. PICK a \in Nat, b \in Nat \ {0} : a = p.num /\ b = p.den
  BY DEF Fractions
<1>2. PICK c \in Nat, d \in Nat \ {0} : c = q.num /\ d = q.den
  BY DEF Fractions
<1>3. a * m = x * b /\ c * m = y * d
  BY <1>1, <1>2
<1>4. ASSUME Less(p, q) PROVE x < y
  <2>1. a * d < c * b
    BY <1>1, <1>2, <1>4 DEF Less
  <2>2. PICK u \in Nat, v \in Nat : u = a * d /\ v = c * b
    OBVIOUS
  <2>3. u * m < v * m
    BY <2>1, <2>2
  <2>4. u * m = (x * b) * d
    <3>1. (a * d) * m = (a * m) * d
      OBVIOUS
    <3> QED
      BY <1>3, <2>2, <3>1
  <2>5. v * m = (y * d) * b
    <3>1. (c * b) * m = (c * m) * b
      OBVIOUS
    <3> QED
      BY <1>3, <2>2, <3>1
  <2>6. PICK g \in Nat \ {0} : g = b * d
    <3>1. \A z \in Nat : b * z = 0 => z = 0
      OBVIOUS
    <3> QED
      BY <3>1
  <2>7. x * g < y * g
    <3>1. (x * b) * d = x * (b * d) /\ (y * d) * b = y * (b * d)
      OBVIOUS
    <3> QED
      BY <2>3, <2>4, <2>5, <2>6, <3>1
  <2>8. \A z, w \in Nat : z * g < w * g => z < w
    OBVIOUS
  <2> QED
    BY <2>7, <2>8
<1>5. ASSUME p = q PROVE x = y
  <2>1. x * b = y * b
    BY <1>1, <1>2, <1>3, <1>5
  <2> QED
    BY <2>1, Cancelled
<1> QED
  BY <1>4, <1>5

LEMMA RankedBy ==
  ASSUME NEW A \in SUBSET Nat, NEW f \in [A -> Nat], NEW T,
         T = {[author |-> a, tally |-> Fraction(f[a], 1)] : a \in A}, Tallies(T), T # {}
  PROVE  RanksBy(Ranked(T), A, f)
<1>1. PICK top \in T : /\ \A s \in T : ~Less(top.tally, s.tally)
                       /\ Ranked(T) = Sorted(Normed(T, top.tally), Better)
  BY RankedIs
<1>2. PICK b \in A : top = [author |-> b, tally |-> Fraction(f[b], 1)]
  BY <1>1
<1> DEFINE q == Fraction(f[b], 1)
           m == f[b]
           S == Normed(T, q)
           c == Ranked(T)
           score(a) == Norm(Fraction(f[a], 1), q)
<1>3. m \in Nat /\ q \in Fractions /\ q.num = m /\ q.den = 1 /\ q = top.tally
  BY <1>2, WholeFraction
<1>4. \A a \in A : Fraction(f[a], 1) \in Fractions /\ Fraction(f[a], 1).num = f[a] /\ Fraction(f[a], 1).den = 1
  BY WholeFraction
<1> HIDE DEF q
<1>5. ASSUME NEW a \in A
      PROVE  /\ f[a] \in Nat /\ f[a] <= m /\ score(a) \in Fractions
             /\ m = 0 => score(a).num = 0
             /\ m # 0 => score(a).num * m = f[a] * score(a).den
  <2>1. f[a] \in Nat /\ ~Less(q, Fraction(f[a], 1))
    <3>1. [author |-> a, tally |-> Fraction(f[a], 1)] \in T
      OBVIOUS
    <3>2. ~Less(q, [author |-> a, tally |-> Fraction(f[a], 1)].tally)
      BY <1>1, <1>3, <3>1
    <3> QED
      BY <3>2
  <2>2. f[a] <= m
    <3>1. ~(m * 1 < f[a] * 1)
      BY <1>3, <1>4, <2>1 DEF Less
    <3> QED
      BY <1>3, <2>1, <3>1
  <2>3. PICK x \in Nat : x = f[a]
    BY <2>1
  <2> DEFINE z == score(a)
  <2>4. /\ z \in Fractions
        /\ q.num = 0 => z = Fraction(0, 1)
        /\ q.num # 0 => z.num * (1 * m) = (x * 1) * z.den
    BY <1>3, <1>4, <2>1, <2>3, NormIs
  <2>5. m = 0 => z.num = 0
    BY <1>3, <2>4, WholeFraction
  <2>6. m # 0 => z.num * m = x * z.den
    <3>1. 1 * m = m /\ x * 1 = x
      BY <1>3
    <3> QED
      BY <1>3, <2>4, <3>1
  <2> HIDE DEF score, m
  <2> QED
    BY <2>1, <2>2, <2>3, <2>4, <2>5, <2>6 DEF z
<1>6. \A x \in S : \E a \in A : x = [author |-> a, score |-> score(a)]
  BY DEF Normed
<1>7. \A a \in A : [author |-> a, score |-> score(a)] \in S
  <2>1. \A a \in A : [author |-> a, tally |-> Fraction(f[a], 1)] \in T
    OBVIOUS
  <2>2. \A r \in T : [author |-> r.author, score |-> Norm(r.tally, q)] \in S
    BY DEF Normed
  <2> QED
    BY <2>1, <2>2
<1>8. \E n \in Nat : Ranks(c, S, n)
  <2>1. Scores(S)
    <3>1. \A s \in T : ~Less(q, s.tally)
      BY <1>1, <1>3
    <3> QED
      BY <1>3, <3>1, NormedScores
  <2> HIDE DEF S
  <2> QED
    BY <1>1, <1>3, <2>1, SortedRanks DEF S
<1>9. PICK n \in Nat : Ranks(c, S, n)
  BY <1>8
<1> HIDE DEF S, score, c
<1>10. ASSUME NEW i \in 1..n
       PROVE  c[i].author \in A /\ c[i].score = score(c[i].author)
  <2>1. c[i] \in S
    BY <1>9 DEF Ranks
  <2>2. PICK a \in A : c[i] = [author |-> a, score |-> score(a)]
    BY <1>6, <2>1
  <2> QED
    BY <2>2
<1>11. DOMAIN c = 1..n
  BY <1>9 DEF Ranks
<1>12. {x.author : x \in ToSet(c)} = A
  <2>1. \A x \in ToSet(c) : x.author \in A
    BY <1>10, <1>11 DEF ToSet
  <2>2. ASSUME NEW a \in A PROVE \E x \in ToSet(c) : x.author = a
    <3>1. PICK i \in 1..n : c[i] = [author |-> a, score |-> score(a)]
      BY <1>7, <1>9, <2>2 DEF Ranks
    <3> QED
      BY <1>11, <3>1 DEF ToSet
  <2> QED
    BY <2>1, <2>2
<1>13. ASSUME NEW i \in 1..n, NEW j \in 1..n, i < j
       PROVE  \/ f[c[i].author] > f[c[j].author]
              \/ f[c[i].author] = f[c[j].author] /\ c[i].author < c[j].author
  <2>1. PICK a \in A, d \in A : a = c[i].author /\ d = c[j].author
    BY <1>10, <1>13
  <2>2. Less(score(d), score(a)) \/ (score(a) = score(d) /\ a < d)
    <3>1. Better(c[i], c[j])
      BY <1>9, <1>13 DEF Ranks
    <3> QED
      BY <1>10, <1>13, <2>1, <3>1 DEF Better
  <2>3. PICK x \in Nat, y \in Nat : x = f[a] /\ y = f[d]
    BY <1>5
  <2>4. PICK u \in Fractions, v \in Fractions : u = score(a) /\ v = score(d)
    BY <1>5
  <2>5. CASE m = 0
    <3>1. x = 0 /\ y = 0
      BY <1>5, <2>3, <2>5
    <3>2. u.num = 0 /\ v.num = 0 /\ u.den \in Nat /\ v.den \in Nat
      BY <1>5, <2>4, <2>5 DEF Fractions
    <3>3. ~Less(v, u)
      BY <3>2 DEF Less
    <3> QED
      BY <2>1, <2>2, <2>3, <2>4, <3>1, <3>3
  <2>6. CASE m # 0
    <3>1. u.num * m = x * u.den /\ v.num * m = y * v.den
      BY <1>5, <2>3, <2>4, <2>6
    <3>2. m \in Nat \ {0}
      BY <1>3, <2>6
    <3> HIDE DEF m
    <3>3. /\ Less(v, u) => y < x
          /\ v = u => y = x
      BY <3>1, <3>2, ScoresCompare
    <3> QED
      BY <2>1, <2>2, <2>3, <2>4, <3>3
  <2> QED
    BY <2>5, <2>6
<1>14. n # 0 /\ f[c[1].author] = m
  <2>1. PICK i \in 1..n : c[i].author = b
    <3>1. [author |-> b, score |-> score(b)] \in S
      BY <1>7
    <3>2. PICK i \in 1..n : c[i] = [author |-> b, score |-> score(b)]
      BY <1>9, <3>1 DEF Ranks
    <3> QED
      BY <3>2
  <2>2. n # 0 /\ 1 \in 1..n
    BY <2>1
  <2>3. f[c[1].author] \in Nat /\ f[c[1].author] <= m
    BY <1>5, <1>10, <2>2
  <2>4. i = 1 \/ f[c[1].author] >= m
    <3>1. CASE i # 1
      <4>1. f[c[1].author] > f[c[i].author] \/ f[c[1].author] = f[c[i].author]
        BY <1>13, <2>1, <2>2, <3>1
      <4> QED
        BY <1>3, <2>1, <2>3, <4>1
    <3> QED
      BY <3>1
  <2> QED
    BY <1>3, <2>1, <2>2, <2>3, <2>4
<1>15. ASSUME NEW i \in 1..n
       PROVE  IF m = 0 THEN c[i].score.num = 0 ELSE c[i].score.num * m = f[c[i].author] * c[i].score.den
  BY <1>5, <1>10
<1>16. RanksBy(c, A, f)
  <2> HIDE DEF m
  <2> QED
    BY <1>11, <1>12, <1>13, <1>14, <1>15 DEF RanksBy
<1> QED
  BY <1>16 DEF c

-----------------------------------------------------------------------------
(* The contributions of a run.                                             *)

\* A log is finite: it starts empty, and messages are appended one at a time.
FiniteLogs == IsFiniteSet(Logged(log)) /\ (snap # None => IsFiniteSet(Logged(snap)))

LEMMA LogsAreFinite == Spec => []FiniteLogs
<1>1. Init => FiniteLogs
  <2> SUFFICES ASSUME Init PROVE FiniteLogs
    OBVIOUS
  <2>1. Logged(log) = {} /\ snap = None
    BY DEF Init, Logged
  <2> QED
    BY <2>1, FS_EmptySet DEF FiniteLogs
<1>2. TInv /\ FiniteLogs /\ [Next]_vars => FiniteLogs'
  <2> SUFFICES ASSUME TInv, FiniteLogs, [Next]_vars PROVE FiniteLogs'
    OBVIOUS
  <2>1. CASE \E m \in Message, b \in Body : Ingest(m, b)
    <3>1. PICK m \in Message, b \in Body : Ingest(m, b)
      BY <2>1
    <3>2. Logged(log') \subseteq Logged(log) \cup {m}
      BY <3>1 DEF Ingest, Logged, TInv, Logs
    <3>3. IsFiniteSet(Logged(log) \cup {m})
      BY FS_AddElement DEF FiniteLogs
    <3>4. IsFiniteSet(Logged(log'))
      BY <3>2, <3>3, FS_Subset
    <3>5. Logged(log)' = Logged(log') /\ snap' = snap
      BY <3>1 DEF Ingest, Logged
    <3>6. Logged(snap)' = Logged(snap)
      BY <3>5 DEF Logged
    <3> QED
      BY <3>4, <3>5, <3>6 DEF FiniteLogs
  <2>2. CASE Start
    <3>1. log' = log /\ snap' = log
      BY <2>2 DEF Start
    <3>2. Logged(log)' = Logged(log) /\ Logged(snap)' = Logged(log)
      BY <3>1 DEF Logged
    <3> QED
      BY <3>2 DEF FiniteLogs
  <2>3. CASE NextStage \/ RunJob \/ UNCHANGED vars
    <3>1. log' = log /\ snap' = snap
      BY <2>3 DEF NextStage, RunJob, vars, Project, ProjectFails, BuildScope, BuildWarmup,
         BuildSkill, BuildHint, BuildDeveloper, Deliver
    <3>2. Logged(log)' = Logged(log) /\ Logged(snap)' = Logged(snap)
      BY <3>1 DEF Logged
    <3> QED
      BY <3>1, <3>2 DEF FiniteLogs
  <2> QED
    BY <2>1, <2>2, <2>3 DEF Next
<1>3. IInv => TInv
  BY DEF IInv
<1> QED
  BY <1>1, <1>2, <1>3, Invariance, PTL DEF Spec

Contributed ==
  [m \in Logged(snap) \cap DOMAIN projections |->
     [author |-> AuthorOf[m], topics |-> projections[m].topics,
      confidence |-> projections[m].confidence]]

LEMMA ContributedAre ==
  ASSUME IInv, FiniteLogs, stage # "none"
  PROVE  /\ DOMAIN Contributed = DOMAIN projections
         /\ Contributions(Contributed)
         /\ Built = Ownerships(Contributed)
         /\ Listed(Contributed) = TopicsOf(Message)
<1>1. snap \in Logs /\ snap # None
  <2>1. snap \in Logs
    BY DEF IInv, TInv
  <2> QED
    BY <2>1, StrategyRunAssumption DEF Logs
<1>2. DOMAIN projections \subseteq Logged(snap)
  BY DEF IInv, PInv
<1>3. DOMAIN Contributed = DOMAIN projections
  BY <1>2 DEF Contributed
<1>4. IsFiniteSet(DOMAIN projections)
  BY <1>1, <1>2, FS_Subset DEF FiniteLogs
<1>5. ASSUME NEW m \in DOMAIN projections
      PROVE  /\ Contributed[m].author = AuthorOf[m] /\ Contributed[m].topics = projections[m].topics
             /\ Contributed[m].confidence = projections[m].confidence
             /\ AuthorOf[m] \in Nat /\ projections[m].confidence \in Nat
             /\ projections[m].topics \in Seq(Nat)
  <2>1. m \in Message /\ snap[m] \in Body
    BY <1>1, <1>2 DEF Logged, Logs
  <2>2. projections[m] = ProjectionOf[snap[m]]
    BY DEF IInv, PInv
  <2>3. projections[m].confidence \in Nat /\ projections[m].topics \in Seq(Nat)
    <3>1. PICK p : p = ProjectionOf[snap[m]]
      OBVIOUS
    <3>2. p.confidence \in 0..10 /\ p.topics \in Seq(Nat)
      BY <2>1, <3>1, ProjectorAssumption
    <3>3. 0..10 \subseteq Nat
      OBVIOUS
    <3> QED
      BY <2>2, <3>1, <3>2, <3>3
  <2>4. AuthorOf[m] \in Nat
    BY <2>1, StrategyRunAssumption
  <2>5. m \in Logged(snap) \cap DOMAIN projections
    BY <1>2
  <2>6. Contributed[m] = [author |-> AuthorOf[m], topics |-> projections[m].topics,
                          confidence |-> projections[m].confidence]
    BY <2>5 DEF Contributed
  <2> QED
    BY <2>3, <2>4, <2>6
<1>6. Contributions(Contributed)
  BY <1>3, <1>4, <1>5 DEF Contributions
<1>7. Built = Ownerships(Contributed)
  BY DEF Built, Contributed
<1>8. Listed(Contributed) = TopicsOf(Message)
  <2>1. Message \cap DOMAIN projections = DOMAIN projections
    BY <1>2 DEF Logged
  <2> QED
    BY <1>3, <1>5, <2>1 DEF Listed, TopicsOf
<1> QED
  BY <1>3, <1>6, <1>7, <1>8

(* The hint of a projection about one topic names the owners of that topic *)
(* with their scores (hint.rs:7-9), for every projector, every log and     *)
(* however often the projection lists the topic.                           *)
THEOREM HintsNameOwners == Spec => []HintsAgree
<1>1. IInv /\ FiniteLogs => HintsAgree
  <2> SUFFICES ASSUME IInv, FiniteLogs, NEW m \in DOMAIN hints, NEW t \in TopicsOf({m}),
                      TopicsOf({m}) = {t}
               PROVE  hints[m] = skills[t].candidates
    BY DEF HintsAgree
  <2>1. stage \in {"hint", "developer", "done"} /\ hints[m] = HintsMade[m] /\ m \in DOMAIN HintsMade
    <3>1. stage \notin {"none", "project", "scope", "warmup", "skill"}
      BY DEF IInv, StoresInv, HintInv, Empty
    <3>2. stage \in {"hint", "developer", "done"}
      BY <3>1 DEF IInv, TInv, Stage
    <3> QED
      BY <3>2 DEF IInv, StoresInv, HintInv, Filled
  <2>2. skills = SkillsMade
    BY <2>1 DEF IInv, StoresInv, SkillInv
  <2>3. /\ DOMAIN Contributed = DOMAIN projections
        /\ Contributions(Contributed)
        /\ Built = Ownerships(Contributed)
        /\ Listed(Contributed) = TopicsOf(Message)
    BY <2>1, ContributedAre
  <2>4. m \in DOMAIN projections /\ DOMAIN projections \subseteq Message
    <3>1. DOMAIN projections \subseteq Logged(snap)
      BY <2>1 DEF IInv, PInv
    <3> QED
      BY <2>1, <3>1 DEF HintsMade, Logged
  <2>5. t \in TopicsOf(Message)
    BY <2>4 DEF TopicsOf
  <2>6. skills[t] = Owner(t)
    <3>1. DOMAIN SkillsMade = TopicsOf(Message)
      BY <2>1, OwnedTopics DEF IInv, PInv
    <3> QED
      BY <2>2, <2>5, <3>1 DEF SkillsMade
  <2>7. PICK T : T = TalliesOn(Contributed, t)
    OBVIOUS
  <2>8. Owner(t).candidates = Ranked(T)
    <3>1. Owner(t) = CHOOSE p \in Ownerships(Contributed) : p.topic = t
      BY <2>3 DEF Owner
    <3> QED
      BY <2>5, <2>3, <2>7, <3>1, OwnershipIs
  <2>9. Tallies(T) /\ T # {}
    BY <2>3, <2>5, <2>7, TalliesOfTopic
  <2> DEFINE topics == projections[m].topics
  <2>10. topics \in Seq(Nat) /\ ToSet(topics) = {t}
    <3>1. Contributed[m].topics = topics
      <4>1. m \in Logged(snap) \cap DOMAIN projections
        BY <2>3, <2>4 DEF Contributed
      <4> QED
        BY <4>1 DEF Contributed
    <3>2. TopicsOf({m}) = ToSet(topics)
      BY <2>4 DEF TopicsOf
    <3> QED
      BY <2>3, <2>4, <3>1, <3>2 DEF Contributions
  <2>11. PICK k \in Nat \ {0} : DOMAIN topics = 1..k /\ \A i \in 1..k : topics[i] = t
    <3>1. DOMAIN topics = 1..Len(topics) /\ Len(topics) \in Nat
      BY <2>10
    <3>2. \A i \in DOMAIN topics : topics[i] \in ToSet(topics)
      BY DEF ToSet
    <3>3. DOMAIN topics # {}
      BY <2>10 DEF ToSet
    <3> HIDE DEF topics
    <3>4. Len(topics) # 0
      BY <3>1, <3>3
    <3> QED
      BY <2>10, <3>1, <3>2, <3>4
  <2>12. HintsMade[m] = Hint([i \in DOMAIN topics |-> Owner(topics[i])])
    BY <2>1 DEF HintsMade
  <2>13. [i \in DOMAIN topics |-> Owner(topics[i])] = [i \in 1..k |-> Owner(t)]
    <3> HIDE DEF topics
    <3> QED
      BY <2>11
  <2>14. Hint([i \in 1..k |-> Owner(t)]) = Ranked(T)
    BY <2>8, <2>9, HintOfOne
  <2> QED
    BY <2>1, <2>6, <2>8, <2>12, <2>13, <2>14
<1> QED
  BY <1>1, Invariance, LogsAreFinite, PTL

-----------------------------------------------------------------------------
(* Rankings of a run.                                                      *)

LEMMA StrengthIs ==
  ASSUME IInv, FiniteLogs, stage # "none", NEW a, NEW t
  PROVE  Strength(a, t) = Involvement(Contributed, a, t)
<1> DEFINE C == Contributed
           V == Confidences(C)
           M == Mentions(a, t)
           Pick(s) == CHOOSE x \in s : TRUE
           Solves(g) == g = [s \in SUBSET M |-> IF s = {} THEN 0
                               ELSE projections[Pick(s)[1]].confidence + g[s \ {Pick(s)}]]
           iter == CHOOSE g : Solves(g)
<1>1. Strength(a, t) = iter[M]
  BY DEF Strength, MapThenSumSet, MapThenFoldSet
<1>2. DOMAIN C = DOMAIN projections /\ Contributions(C)
  BY ContributedAre
<1>3. ASSUME NEW m \in DOMAIN projections
      PROVE  /\ C[m].author = AuthorOf[m] /\ C[m].topics = projections[m].topics
             /\ C[m].confidence = projections[m].confidence
  <2>1. m \in Logged(snap) \cap DOMAIN projections
    BY DEF IInv, PInv
  <2> QED
    BY <2>1 DEF Contributed
<1> HIDE DEF C
<1>4. Of(C, a) = {m \in DOMAIN projections : AuthorOf[m] = a}
  BY <1>2, <1>3 DEF Of
<1>5. M = Places(C, t, Of(C, a))
  <2>1. \A m \in Of(C, a) : {i \in DOMAIN C[m].topics : C[m].topics[i] = t}
                              = {i \in DOMAIN projections[m].topics : projections[m].topics[i] = t}
    BY <1>3, <1>4
  <2> QED
    BY <1>4, <2>1 DEF Mentions, Places
<1>6. /\ IsFiniteSet(M) /\ Counts(V, M)
      /\ Cardinality(Tickets(V, M)) = Cardinality(Tickets(Weights(C, t), Of(C, a)))
  <2>1. Of(C, a) \in SUBSET DOMAIN C
    BY DEF Of
  <2> HIDE DEF M
  <2> QED
    BY <1>2, <1>5, <2>1, PlacesWeigh
<1>7. ASSUME NEW n \in M PROVE V[n] = projections[n[1]].confidence
  <2>1. PICK m \in Of(C, a) : n \in Places(C, t, {m})
    BY <1>5 DEF Places
  <2>2. m \in DOMAIN C /\ m \in DOMAIN projections
    BY <1>2, <1>4
  <2>3. n \in {m} \X Nat
    BY <1>2, <2>1, <2>2, PlacesOfOne
  <2>4. V[n] = C[m].confidence
    BY <2>2, <2>3, ConfidenceAt
  <2>5. n[1] = m
    BY <2>3
  <2> QED
    BY <1>3, <2>2, <2>4, <2>5
<1>8. \A s \in SUBSET M : s # {} => projections[Pick(s)[1]].confidence = V[Pick(s)]
  <2>1. \A s \in SUBSET M : s # {} => Pick(s) \in M
    OBVIOUS
  <2> HIDE DEF M, V, Pick
  <2> QED
    BY <1>7, <2>1
<1>9. \A g : Solves(g) <=> Sums(g, V, M)
  <2> SUFFICES ASSUME NEW g PROVE Solves(g) <=> Sums(g, V, M)
    OBVIOUS
  <2>1. [s \in SUBSET M |-> IF s = {} THEN 0
                               ELSE projections[Pick(s)[1]].confidence + g[s \ {Pick(s)}]]
          = [s \in SUBSET M |-> IF s = {} THEN 0 ELSE V[Pick(s)] + g[s \ {Pick(s)}]]
    <3> HIDE DEF Pick, M, V
    <3> QED
      BY <1>8
  <2> QED
    BY <2>1 DEF Sums
<1> HIDE DEF M, V
<1>10. Solves(iter)
  <2>1. \E g : Solves(g)
    <3> HIDE DEF Solves
    <3> QED
      BY <1>6, <1>9, SumsCountTickets
  <2> HIDE DEF Solves
  <2> QED
    BY <2>1
<1>11. iter[M] = Cardinality(Tickets(V, M))
  <2> HIDE DEF Solves, iter
  <2> QED
    BY <1>6, <1>9, <1>10, SumsCountTickets
<1>12. Involvement(C, a, t) = Cardinality(Tickets(Weights(C, t), Of(C, a)))
  BY <1>2, InvolvementIs
<1> QED
  BY <1>1, <1>6, <1>11, <1>12 DEF C

(* The ownership of a topic ranks everyone whose projected message         *)
(* mentions it, each once, by how strongly, ties by author id, and gives   *)
(* the strongest 1 unless nobody has any confidence (skill.rs:4-8), for    *)
(* every projector and every log.                                          *)
THEOREM OwnersAreRanked == Spec => []RankedByInvolvement
<1>1. IInv /\ FiniteLogs => RankedByInvolvement
  <2> SUFFICES ASSUME IInv, FiniteLogs, stage \in {"hint", "developer", "done"},
                      NEW t \in TopicsOf(Message), NEW c, c = skills[t].candidates
               PROVE  /\ {x.author : x \in ToSet(c)}
                           = {AuthorOf[m] : m \in {n \in DOMAIN projections : t \in TopicsOf({n})}}
                      /\ \A i, j \in DOMAIN c : i < j =>
                           \/ Strength(c[i].author, t) > Strength(c[j].author, t)
                           \/ Strength(c[i].author, t) = Strength(c[j].author, t) /\ c[i].author < c[j].author
                      /\ \A i \in DOMAIN c :
                           IF Strength(c[1].author, t) = 0 THEN c[i].score.num = 0
                           ELSE c[i].score.num * Strength(c[1].author, t)
                                  = Strength(c[i].author, t) * c[i].score.den
    BY DEF RankedByInvolvement
  <2> DEFINE C == Contributed
             A == AuthorsOn(C, t)
             f == [a \in A |-> Involvement(C, a, t)]
             T == TalliesOn(C, t)
  <2>1. /\ DOMAIN C = DOMAIN projections /\ Contributions(C)
        /\ Built = Ownerships(C) /\ Listed(C) = TopicsOf(Message)
    BY ContributedAre
  <2>2. skills[t] = Owner(t)
    <3>1. DOMAIN SkillsMade = TopicsOf(Message)
      BY OwnedTopics DEF IInv, PInv
    <3>2. skills = SkillsMade
      BY DEF IInv, StoresInv, SkillInv
    <3> QED
      BY <3>1, <3>2 DEF SkillsMade
  <2>3. ASSUME NEW m \in DOMAIN projections
        PROVE  C[m].author = AuthorOf[m] /\ ToSet(C[m].topics) = TopicsOf({m})
    <3>1. m \in Logged(snap) \cap DOMAIN projections
      BY DEF IInv, PInv
    <3>2. TopicsOf({m}) = ToSet(projections[m].topics)
      BY <2>3 DEF TopicsOf
    <3> QED
      BY <3>1, <3>2 DEF Contributed
  <2> HIDE DEF C
  <2>4. c = Ranked(T)
    <3>1. Owner(t) = CHOOSE p \in Ownerships(C) : p.topic = t
      BY <2>1 DEF Owner
    <3> QED
      BY <2>1, <2>2, <3>1, OwnershipIs
  <2>5. Tallies(T) /\ T # {}
    BY <2>1, TalliesOfTopic
  <2>6. A \in SUBSET Nat /\ f \in [A -> Nat]
    <3>1. A \in SUBSET Nat
      BY <2>1 DEF AuthorsOn, Contributions
    <3>2. \A a \in A : Involvement(C, a, t) \in Nat
      BY <2>1, InvolvementIs
    <3> HIDE DEF A
    <3> QED
      BY <3>1, <3>2
  <2>7. T = {[author |-> a, tally |-> Fraction(f[a], 1)] : a \in A}
    BY DEF TalliesOn, TallyOn
  <2>8. RanksBy(c, A, f)
    <3> HIDE DEF T, f, A
    <3> QED
      BY <2>4, <2>5, <2>6, <2>7, RankedBy
  <2>9. A = {AuthorOf[m] : m \in {n \in DOMAIN projections : t \in TopicsOf({n})}}
    BY <2>1, <2>3 DEF AuthorsOn
  <2>10. \A a \in A : f[a] = Strength(a, t)
    BY StrengthIs DEF C
  <2>11. \A i \in DOMAIN c : c[i].author \in A
    BY <2>8 DEF RanksBy, ToSet
  <2>12. 1 \in DOMAIN c
    <3>1. A # {}
      <4> HIDE DEF A, f
      <4> QED
        BY <2>5, <2>7
    <3>2. DOMAIN c # {}
      <4> HIDE DEF A, f
      <4> QED
        BY <2>8, <3>1 DEF RanksBy, ToSet
    <3>3. PICK n \in Nat : DOMAIN c = 1..n
      BY <2>8 DEF RanksBy
    <3>4. n # 0
      BY <3>2, <3>3
    <3> QED
      BY <3>3, <3>4
  <2> HIDE DEF A, f
  <2>13. {x.author : x \in ToSet(c)}
           = {AuthorOf[m] : m \in {n \in DOMAIN projections : t \in TopicsOf({n})}}
    BY <2>8, <2>9 DEF RanksBy
  <2>14. \A i \in DOMAIN c : f[c[i].author] = Strength(c[i].author, t)
    BY <2>10, <2>11
  <2>15. ASSUME NEW i \in DOMAIN c, NEW j \in DOMAIN c, i < j
         PROVE  \/ Strength(c[i].author, t) > Strength(c[j].author, t)
                \/ Strength(c[i].author, t) = Strength(c[j].author, t) /\ c[i].author < c[j].author
    BY <2>8, <2>14, <2>15 DEF RanksBy
  <2>16. ASSUME NEW i \in DOMAIN c
         PROVE  IF Strength(c[1].author, t) = 0 THEN c[i].score.num = 0
                ELSE c[i].score.num * Strength(c[1].author, t)
                       = Strength(c[i].author, t) * c[i].score.den
    BY <2>8, <2>12, <2>14 DEF RanksBy
  <2> QED
    BY <2>13, <2>15, <2>16
<1> QED
  BY <1>1, Invariance, LogsAreFinite, PTL

=============================================================================
