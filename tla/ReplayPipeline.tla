---------------------------- MODULE ReplayPipeline ----------------------------
(***************************************************************************)
(* A run of the reference strategy, job by job (mirrorlane-worker,         *)
(* replay.rs run_phases, composition.rs run_stage, lib.rs).                *)
(*                                                                         *)
(* Six stages run one after the other.  Each has a broker and a worker of  *)
(* its own: its jobs are enqueued, and delivered at least once, in any     *)
(* order, until none is left; then the broker is dropped with its dead     *)
(* letters, and the next stage reads what the stores hold.  Only the       *)
(* projector fails: a real one panics at the boundary, Worklane contains   *)
(* the panic, retries the job and dead-letters it after its last attempt.  *)
(* The log may be written while the run works on its snapshot.             *)
(***************************************************************************)
EXTENDS StrategyResult

CONSTANT MaxAttempts   \* the attempts Worklane gives a job

ASSUME MaxAttemptsAssumption == MaxAttempts \in Nat \ {0}

VARIABLES
  log,          \* the message log
  snap,         \* run_phases: `log`, the snapshot
  stage,        \* the stage that runs
  queue,        \* its jobs that are not acknowledged yet, by payload
  tries,        \* the attempts the projection of each message has failed
  \* The stores: functions on the keys they hold.
  projections, scopes, warmups, skills, hints, developers

stores == <<projections, scopes, warmups, skills, hints, developers>>
vars == <<log, snap, stage, queue, tries, stores>>

Stage == {"none", "project", "scope", "warmup", "skill", "hint", "developer", "done"}

Successor ==
  [project |-> "scope", scope |-> "warmup", warmup |-> "skill", skill |-> "hint",
   hint |-> "developer", developer |-> "done"]

\* The map with no key, and the map that upserts of the keys of new leave.
Empty == [k \in {} |-> None]
UpsertAll(map, new) ==
  [k \in DOMAIN map \cup DOMAIN new |-> IF k \in DOMAIN new THEN new[k] ELSE map[k]]
Upsert(map, k, v) == UpsertAll(map, [x \in {k} |-> v])

\* participants_by_conversation
Participants(l, c) == {AuthorOf[m] : m \in In(l, c)}

\* per_message, per_conversation and global: the payloads of a stage.
Payloads(s) ==
  CASE s = "project" -> Logged(snap)
    [] s \in {"scope", "warmup", "developer"} -> Conversations(snap)
    [] s \in {"skill", "hint"} -> {"global"}
    [] OTHER -> {}

Init ==
  /\ log = [m \in Message |-> None]
  /\ snap = None
  /\ stage = "none"
  /\ queue = {}
  /\ tries = [m \in Message |-> 0]
  /\ projections = Empty /\ scopes = Empty /\ warmups = Empty
  /\ skills = Empty /\ hints = Empty /\ developers = Empty

-----------------------------------------------------------------------------

\* append, by another process.
Ingest(m, b) ==
  /\ log' = [log EXCEPT ![m] = b]
  /\ UNCHANGED <<snap, stage, queue, tries, stores>>

\* run: messages.all(), and the first stage's jobs.
Start ==
  /\ snap = None
  /\ snap' = log
  /\ stage' = "project"
  /\ queue' = Logged(log)
  /\ UNCHANGED <<log, tries, stores>>

\* Mutant: a stage that left a message without a projection ends the run.
NextStageStrict ==
  /\ queue = {}
  /\ stage \in DOMAIN Successor
  /\ Logged(snap) \subseteq DOMAIN projections
  /\ stage' = Successor[stage]
  /\ queue' = Payloads(stage')
  /\ UNCHANGED <<log, snap, tries, stores>>

\* run_stage returns: its broker is idle, and the next stage is enqueued.
NextStage ==
  /\ queue = {}
  /\ stage \in DOMAIN Successor
  /\ stage' = Successor[stage]
  /\ queue' = Payloads(stage')
  /\ UNCHANGED <<log, snap, tries, stores>>

\* A job is delivered and its handler returns: it is acknowledged, or the
\* acknowledgement comes too late and the job will be delivered again.
Deliver(s, job) ==
  /\ stage = s
  /\ job \in queue
  /\ queue' \in {queue \ {job}, queue}
  /\ UNCHANGED <<log, snap, stage>>

\* ProcessMessageJob::run
Project(m) ==
  /\ Deliver("project", m)
  /\ projections' = Upsert(projections, m, ProjectionOf[snap[m]])
  /\ UNCHANGED <<tries, scopes, warmups, skills, hints, developers>>

\* Mutant: a failed job is not retried.
ProjectGivesUp(m) ==
  /\ stage = "project" /\ m \in queue \cap MayFail
  /\ tries' = [tries EXCEPT ![m] = @ + 1]
  /\ queue' = queue \ {m}
  /\ UNCHANGED <<log, snap, stage, stores>>

\* The projector panics: the job is retried, and dead-lettered in the end.
ProjectFails(m) ==
  /\ stage = "project" /\ m \in queue \cap MayFail
  /\ tries' = [tries EXCEPT ![m] = @ + 1]
  /\ queue' = IF tries[m] + 1 = MaxAttempts THEN queue \ {m} ELSE queue
  /\ UNCHANGED <<log, snap, stage, stores>>

\* The stored projections of a conversation: an id without one is skipped.
Read(c) == Restrict(projections, In(snap, c) \cap DOMAIN projections)

\* BuildScopeJob::run
BuildScope(c) ==
  /\ Deliver("scope", c)
  /\ scopes' = Upsert(scopes, c, ScopeOf(Read(c)))
  /\ UNCHANGED <<tries, projections, warmups, skills, hints, developers>>

\* BuildWarmupJob::run
BuildWarmup(c) ==
  /\ Deliver("warmup", c)
  /\ warmups' = Upsert(warmups, c,
       WarmupOf(IF c \in DOMAIN scopes THEN scopes[c].load ELSE {}, Read(c)))
  /\ UNCHANGED <<tries, projections, scopes, skills, hints, developers>>

TopicsOf(M) == UNION {ToSet(projections[m].topics) : m \in M \cap DOMAIN projections}

\* BuildSkillJob::run: every stored projection is a contribution of its author.
BuildSkill ==
  /\ Deliver("skill", "global")
  /\ LET built == Ownerships([m \in Logged(snap) \cap DOMAIN projections |->
                    [author |-> AuthorOf[m], topics |-> projections[m].topics,
                     confidence |-> projections[m].confidence]])
     IN  skills' = UpsertAll(skills, [t \in {o.topic : o \in built} |->
                                        CHOOSE o \in built : o.topic = t])
  /\ UNCHANGED <<tries, projections, scopes, warmups, hints, developers>>

\* skills.get of each topic as it is listed; a topic with no ownership is skipped.
OwnershipsOf(topics) ==
  [i \in {j \in DOMAIN topics : topics[j] \in DOMAIN skills} |-> skills[topics[i]]]

\* BuildRoutingHintJob::run
BuildHint ==
  /\ Deliver("hint", "global")
  /\ hints' = UpsertAll(hints, [m \in Logged(snap) \cap DOMAIN projections |->
                                 Hint(OwnershipsOf(projections[m].topics))])
  /\ UNCHANGED <<tries, projections, scopes, warmups, skills, developers>>

\* skills.get of each distinct topic of the session.
Expertise(M) == {skills[t] : t \in TopicsOf(M) \cap DOMAIN skills}

\* Mutant: the participants are those whose message was projected.
BuildDeveloperProjected(c) ==
  /\ Deliver("developer", c)
  /\ developers' = Upsert(developers, c,
       Snapshot({AuthorOf[m] : m \in In(snap, c) \cap DOMAIN projections},
                Expertise(In(snap, c))))
  /\ UNCHANGED <<tries, projections, scopes, warmups, skills, hints>>

\* BuildDeveloperSnapshotJob::run
BuildDeveloper(c) ==
  /\ Deliver("developer", c)
  /\ developers' = Upsert(developers, c,
       Snapshot(Participants(snap, c), Expertise(In(snap, c))))
  /\ UNCHANGED <<tries, projections, scopes, warmups, skills, hints>>

RunJob ==
  \/ \E m \in Message : Project(m) \/ ProjectFails(m)
  \/ \E c \in Conversation : BuildScope(c) \/ BuildWarmup(c) \/ BuildDeveloper(c)
  \/ BuildSkill
  \/ BuildHint

Next ==
  \/ \E m \in Message, b \in Body : Ingest(m, b)
  \/ Start
  \/ NextStage
  \/ RunJob

Spec == Init /\ [][Next]_vars

(* The command drives the run to its end: it starts, run_until_idle keeps  *)
(* delivering while jobs are left, a job in the queue is acknowledged in   *)
(* the end (it fails at most MaxAttempts times), and each stage that       *)
(* returns is followed by the next.                                        *)
Resolves(job) == job \in queue /\ queue' = queue \ {job}

Fairness ==
  /\ WF_vars(Start)
  /\ WF_vars(NextStage)
  /\ \A job \in Message \cup Conversation \cup {"global"} : WF_queue(Resolves(job))

FairSpec == Spec /\ Fairness

-----------------------------------------------------------------------------
(* Properties.                                                             *)

Out ==
  [projections |-> projections, scopes |-> scopes, warmups |-> warmups,
   skills |-> skills, hints |-> hints, developers |-> developers]

Run == INSTANCE StrategyRun WITH out <- IF stage = "done" THEN <<Out>> ELSE << >>

(* A run yields what its snapshot and its failed projections determine,    *)
(* "replaying the same log always yields the same result" (replay.rs:5-7): *)
(* job order, redelivery, retries and ingests leave no trace, and every    *)
(* stage sees all the stage before it made.                                *)
ImplementsRun == Run!Spec

(* A message is left without a projection only after every attempt at it   *)
(* failed (spec.md "Failures panic at the boundary").                      *)
GapsWereRetried ==
  \A m \in Message :
    (stage \notin {"none", "project"} /\ m \in Logged(snap) \ DOMAIN projections)
      => tries[m] = MaxAttempts

\* How strongly author a is involved in topic t: the confidence of every mention of t
\* in a projection of a message of a.
Mentions(a, t) ==
  UNION {{m} \X {i \in DOMAIN projections[m].topics : projections[m].topics[i] = t} :
           m \in {n \in DOMAIN projections : AuthorOf[n] = a}}
Strength(a, t) == MapThenSumSet(LAMBDA n : projections[n[1]].confidence, Mentions(a, t))

(* The ownership of a topic ranks everyone whose projected message         *)
(* mentions it, each once, by how strongly, ties by author id, and gives   *)
(* the strongest 1 unless nobody has any confidence (skill.rs:4-8) - over  *)
(* all conversations, whatever failed or was redelivered before.           *)
RankedByInvolvement ==
  stage \in {"hint", "developer", "done"} =>
    \A t \in TopicsOf(Message) :
      LET o == skills[t].candidates
          best == Strength(o[1].author, t)
      IN  /\ {c.author : c \in ToSet(o)} = {AuthorOf[m] : m \in {n \in DOMAIN projections : t \in TopicsOf({n})}}
          /\ \A i, j \in DOMAIN o : i < j =>
               LET a == o[i].author
                   b == o[j].author
               IN  \/ Strength(a, t) > Strength(b, t)
                   \/ Strength(a, t) = Strength(b, t) /\ a < b
          /\ \A i \in DOMAIN o :
               IF best = 0 THEN o[i].score.num = 0
               ELSE o[i].score.num * best = Strength(o[i].author, t) * o[i].score.den

(* The hint of a projection about one topic, however often it lists it,    *)
(* names the owners of that topic with their scores (hint.rs:7-9 "the same *)
(* rules MessageSkillBuilder uses, so the two never disagree").            *)
HintsAgree ==
  \A m \in DOMAIN hints : \A t \in TopicsOf({m}) :
    TopicsOf({m}) = {t} => hints[m] = skills[t].candidates

(* A run that started ends, also when the projector keeps failing          *)
(* (composition.rs run_stage, run_until_idle).                             *)
Terminates == (stage = "project") ~> (stage = "done")

=============================================================================
