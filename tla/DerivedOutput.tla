---------------------------- MODULE DerivedOutput ----------------------------
(***************************************************************************)
(* Delivery: how mirrorlane's commands turn the message log into derived   *)
(* output, keep it in the derived-output cache and serve it.               *)
(*                                                                         *)
(* Several mirrorlane processes share one database file.  A process runs   *)
(* one command: replay, warmup or verify (cli commands.rs), or the handler *)
(* of a submitted strategy run, work (worker submission.rs).  Every read   *)
(* of the log and every statement on the cache is a step of its own, so    *)
(* another process, or an ingest, can come between any two of them; a      *)
(* process can be killed at any point, and then only the log and the cache *)
(* survive.                                                                *)
(*                                                                         *)
(* Data.  A message's body decides its projection, so a projection is the  *)
(* body it was made from, and the projection of a body is fixed: that is   *)
(* the semantic cache's work (module ProjectionCache).  The order of the   *)
(* log is left out: a logged message never moves (module MessageLog), so   *)
(* in one file the id and body of the present messages decide the          *)
(* sequence content_hash_of hashes, and a content hash is the conversation's *)
(* part of the log without its authors.  Ingesting a message again         *)
(* replaces its whole envelope: the conversation, the author and the body. *)
(***************************************************************************)
EXTENDS Naturals, FiniteSets

CONSTANTS
  Process,       \* mirrorlane processes
  Version,       \* derivation versions: schema, strategy and projector
  EmptyVersion,  \* the versions of the strategy `empty`, which derives nothing
  Message,       \* message ids
  Conversation,  \* conversation ids
  Author,        \* author ids
  Body,          \* bodies, and the projections made from them
  Inputs,        \* the ids and envelopes that are ingested
  Topic,         \* topics
  Topics,        \* Topics[b] is the set of topics of the projection of b
  Command,       \* the commands that are run
  MayFail,       \* the messages whose projection may fail: {} for the mock provider
  QuietIngest,   \* TRUE when the log is only written while no command runs
  None           \* nothing: no message, no projection, no conversation

\* MessageEnvelope, but for its id.
Envelope == [conversation : Conversation, author : Author, body : Body]

ASSUME DerivedOutputAssumption ==
  /\ EmptyVersion \subseteq Version
  /\ Inputs \subseteq Message \X Envelope
  /\ Topics \in [Body -> SUBSET Topic]
  /\ Command \subseteq {"replay", "warmup", "verify", "work"}
  /\ MayFail \subseteq Message
  /\ QuietIngest \in BOOLEAN
  /\ None \notin Body
  /\ None \notin Envelope
  /\ None \notin Conversation
  /\ None \notin Version

VARIABLES
  log,           \* the message log: log[m] is the envelope, None before m is ingested
  rows,          \* the derived_output_cache table
  pc,            \* what each process does next
  command,       \* its command
  version,       \* its derivation version
  target,        \* warmup: the conversation asked for
  content,       \* the content hash it computed last
  stores,        \* ReplayStores: what its strategy run produced
  groups,        \* populate_cache: the log it re-read and grouped
  todo,          \* populate_cache, verify: the conversations still to do
  current,       \* populate_cache, verify: the conversation at hand
  served,        \* the derivations it delivers
  unprojected,   \* the messages it reports as having no projection
  verdict        \* verify: the outcome reported for each conversation

(* History.  leaked[c]: a reclaim of conversation c failed, or its writer  *)
(* was killed before it, and no reclaim of c succeeded since.  moved[p]:   *)
(* the messages that an ingest took to another conversation while the      *)
(* process p ran its command.  The field `from` of a row, and of what is   *)
(* served, is history too: the strategy run it was made from.              *)
VARIABLES leaked, moved

results == <<served, unprojected, verdict>>
procVars == <<pc, command, version, target, content, stores, groups, todo, current, results>>
vars == <<log, rows, leaked, moved, procVars>>

Logs == [Message -> Envelope \cup {None}]

\* The bodies of some messages, or their projections.
Bodies == [Message -> Body \cup {None}]

Nothing == [m \in Message |-> None]

Logged(l) == {m \in Message : l[m] # None}

\* messages_in, messages_for: the messages of a conversation.
In(l, c) == {m \in Logged(l) : l[m].conversation = c}

\* conversations, group_by_conversation: the conversations of a log.
Conversations(l) == {l[m].conversation : m \in Logged(l)}

\* Mutant: the content hash covers the ids but not the bodies.
ContentOfIds(l, c) ==
  [m \in Message |-> IF m \in In(l, c) THEN CHOOSE b \in Body : TRUE ELSE None]

\* content_hash_of(messages_for(c)): the ids and bodies of a conversation, not
\* its authors.
Content(l, c) == [m \in Message |-> IF m \in In(l, c) THEN l[m].body ELSE None]

-----------------------------------------------------------------------------
(* Strategy runs.                                                          *)

\* ProjectionStrategy::run_phases over a log, when the projections of `failed`
\* failed: every conversation of the log gets a scope and a warm-up, every
\* other message a projection.
Derived(l, failed) ==
  [logged |-> l,
   projected |-> [m \in Message |->
                    IF l[m] = None \/ m \in failed THEN None ELSE l[m].body]]

\* EmptyStrategy::run: fresh, empty stores.
NoStores == [logged |-> Nothing, projected |-> Nothing]

\* A warm-up is built from the projections of the conversation's own messages.
Warmup(s, c) == [m \in Message |-> IF m \in In(s.logged, c) THEN s.projected[m] ELSE None]

\* participants_by_conversation: who wrote in the conversation.
Participants(s, c) == {s.logged[m].author : m \in In(s.logged, c)}

\* SkillIndexHandler: what the ownership of a topic is built from, the
\* projections about it and their authors, over all conversations.
Owners(s, t) ==
  {<<m, s.logged[m].author, s.projected[m]>> :
     m \in {n \in Logged(s.projected) : t \in Topics[s.projected[n]]}}

\* The hints of the messages listed in g and the developers of the
\* conversation: the owners of their topics.
Ownership(s, g, c) ==
  LET own    == {m \in Logged(s.projected) : m \in In(g, c) \cup In(s.logged, c)}
      topics == UNION {Topics[s.projected[m]] : m \in own}
  IN  UNION {{t} \X Owners(s, t) : t \in topics}

\* Mutant: the projections vector is indexed by the listed messages only.
DerivationOfListed(s, g, c) ==
  [projections  |-> [m \in In(g, c) |-> s.projected[m]],
   warmup       |-> Warmup(s, c),
   participants |-> Participants(s, c),
   ownership    |-> Ownership(s, g, c)]

\* derivation_from_messages, derivation_for: the projections and hints of the
\* messages listed in g; scope, warm-up and developers as the run built them.
Derivation(s, g, c) ==
  [projections  |-> [m \in Message |-> IF m \in In(g, c) THEN s.projected[m] ELSE None],
   warmup       |-> Warmup(s, c),
   participants |-> Participants(s, c),
   ownership    |-> Ownership(s, g, c)]

\* stores.warmups.get(c) is Some.
HasWarmup(s, c) == In(s.logged, c) # {}

\* What replaying the log l derives for c, when the projections of `failed` fail.
Replayed(l, failed, c) == Derivation(Derived(l, failed), l, c)

CurrentDerivation(c) == Replayed(log, {}, c)

-----------------------------------------------------------------------------
(* Types.                                                                  *)

StoresType == [logged : Logs, projected : Bodies]

ValueType ==
  [projections : Bodies, warmup : Bodies, participants : SUBSET Author,
   ownership : SUBSET (Topic \X (Message \X Author \X Body))]

RowType ==
  [version : Version, conversation : Conversation, content : Bodies, value : ValueType,
   from : StoresType]

ServedType ==
  [conversation : Conversation, value : ValueType, from : StoresType, hit : BOOLEAN]

Outcome == {"none", "not_cached", "verified", "diverged"}

PC == {"idle", "hash", "get", "hit", "run", "populate", "write", "reclaim",
       "assemble", "report", "check", "compare", "done"}

TypeOK ==
  /\ log \in Logs
  /\ rows \subseteq RowType
  /\ leaked \in [Conversation -> BOOLEAN]
  /\ moved \in [Process -> SUBSET Message]
  /\ pc \in [Process -> PC]
  /\ command \in [Process -> Command \cup {None}]
  /\ version \in [Process -> Version \cup {None}]
  /\ target \in [Process -> Conversation \cup {None}]
  /\ content \in [Process -> Bodies]
  /\ stores \in [Process -> StoresType]
  /\ groups \in [Process -> Logs]
  /\ todo \in [Process -> SUBSET Conversation]
  /\ current \in [Process -> Conversation \cup {None}]
  /\ served \in [Process -> SUBSET ServedType]
  /\ unprojected \in [Process -> SUBSET Message]
  /\ verdict \in [Process -> [Conversation -> Outcome]]

Init ==
  /\ log = Nothing
  /\ rows = {}
  /\ leaked = [c \in Conversation |-> FALSE]
  /\ moved = [p \in Process |-> {}]
  /\ pc = [p \in Process |-> "idle"]
  /\ command = [p \in Process |-> None]
  /\ version = [p \in Process |-> None]
  /\ target = [p \in Process |-> None]
  /\ content = [p \in Process |-> Nothing]
  /\ stores = [p \in Process |-> NoStores]
  /\ groups = [p \in Process |-> Nothing]
  /\ todo = [p \in Process |-> {}]
  /\ current = [p \in Process |-> None]
  /\ served = [p \in Process |-> {}]
  /\ unprojected = [p \in Process |-> {}]
  /\ verdict = [p \in Process |-> [c \in Conversation |-> "none"]]

-----------------------------------------------------------------------------
(* The log and the cache table.                                            *)

\* ingest: append a message, or replace its envelope in place.
Ingest(m, e) ==
  /\ QuietIngest => \A p \in Process : pc[p] = "idle"
  /\ log' = [log EXCEPT ![m] = e]
  /\ moved' = IF m \in Logged(log) /\ log[m].conversation # e.conversation
              THEN [p \in Process |-> IF pc[p] = "idle" THEN moved[p] ELSE moved[p] \cup {m}]
              ELSE moved
  /\ UNCHANGED <<rows, leaked, procVars>>

\* Mutant: the content is missing from the WHERE clause.
LookupAnyContent(v, c, h) == {r \in rows : r.version = v /\ r.conversation = c}

\* get: SELECT payload WHERE version, conversation and content match.
Lookup(v, c, h) ==
  {r \in rows : r.version = v /\ r.conversation = c /\ r.content = h}

Row(v, c, h, s, value) ==
  [version |-> v, conversation |-> c, content |-> h, value |-> value, from |-> s]

\* Mutant: no primary key, a second put inserts a second row.
InsertDuplicate(v, c, h, s, value) == rows' = rows \cup {Row(v, c, h, s, value)}

\* put: INSERT ... ON CONFLICT(version, conversation, content) DO UPDATE.
Upsert(v, c, h, s, value) == rows' = (rows \ Lookup(v, c, h)) \cup {Row(v, c, h, s, value)}

\* Mutant: only the rows of other versions are superseded.
DeleteOtherVersions(v, c, h) ==
  rows' = {r \in rows : r.conversation = c => r.version = v}

\* Mutant: the DELETE is not restricted to the conversation.
DeleteEverywhere(v, c, h) ==
  rows' = {r \in rows : r.version = v /\ r.content = h}

\* Mutant: the DELETE drops the row it should keep.
DeleteCurrent(v, c, h) ==
  rows' = {r \in rows : r.conversation = c => r.content # h}

\* prune_superseded: DELETE the conversation's rows under any other key.
DeleteSuperseded(v, c, h) ==
  rows' = {r \in rows : r.conversation = c => (r.version = v /\ r.content = h)}

Goto(p, from, to) ==
  /\ pc[p] = from
  /\ pc' = [pc EXCEPT ![p] = to]

-----------------------------------------------------------------------------
(* The commands.                                                           *)

\* replay, verify, and the handler of a submitted run.
Begin(p, cmd, v) ==
  /\ cmd # "warmup"
  /\ Goto(p, "idle", "run")
  /\ command' = [command EXCEPT ![p] = cmd]
  /\ version' = [version EXCEPT ![p] = v]
  /\ UNCHANGED <<log, rows, leaked, moved, target, content, stores, groups, todo, current,
                 results>>

BeginWarmup(p, v, c) ==
  /\ "warmup" \in Command
  /\ Goto(p, "idle", "hash")
  /\ command' = [command EXCEPT ![p] = "warmup"]
  /\ version' = [version EXCEPT ![p] = v]
  /\ target' = [target EXCEPT ![p] = c]
  /\ UNCHANGED <<log, rows, leaked, moved, content, stores, groups, todo, current, results>>

\* warmup: content_hash_of(messages_for(conversation)).
WarmupHash(p) ==
  /\ Goto(p, "hash", "get")
  /\ content' = [content EXCEPT ![p] = Content(log, target[p])]
  /\ UNCHANGED <<log, rows, leaked, moved, command, version, target, stores, groups, todo,
                 current, results>>

\* warmup, the cache hit: serve the row, run nothing ...
WarmupHit(p) ==
  /\ Goto(p, "get", "hit")
  /\ \E r \in Lookup(version[p], target[p], content[p]) :
       served' = [served EXCEPT ![p] =
         {[conversation |-> target[p], value |-> r.value, from |-> r.from, hit |-> TRUE]}]
  /\ UNCHANGED <<log, rows, leaked, moved, command, version, target, content, stores,
                 groups, todo, current, unprojected, verdict>>

\* ... and report the messages logged by now that it has no projection of.
ReportHit(p) ==
  /\ Goto(p, "hit", "done")
  /\ unprojected' = [unprojected EXCEPT ![p] =
       {m \in In(log, target[p]) : \A s \in served[p] : s.value.projections[m] = None}]
  /\ UNCHANGED <<log, rows, leaked, moved, command, version, target, content, stores,
                 groups, todo, current, served, verdict>>

\* warmup, the miss.
WarmupMiss(p) ==
  /\ Goto(p, "get", "run")
  /\ Lookup(version[p], target[p], content[p]) = {}
  /\ UNCHANGED <<log, rows, leaked, moved, command, version, target, content, stores,
                 groups, todo, current, results>>

\* strategy.run(store): one snapshot of the log, messages.all(); the projections
\* of some messages may fail.
RunStrategy(p, failed) ==
  /\ Goto(p, "run", "populate")
  /\ stores' = [stores EXCEPT ![p] =
       IF version[p] \in EmptyVersion THEN NoStores ELSE Derived(log, failed)]
  /\ UNCHANGED <<log, rows, leaked, moved, command, version, target, content, groups, todo,
                 current, results>>

\* populate_cache: read and group the log again; verify does so into a scratch cache.
Regroup(p) ==
  /\ Goto(p, "populate", IF command[p] = "verify" THEN "check" ELSE "write")
  /\ groups' = [groups EXCEPT ![p] = log]
  /\ todo' = [todo EXCEPT ![p] = {c \in Conversations(log) : HasWarmup(stores[p], c)}]
  /\ UNCHANGED <<log, rows, leaked, moved, command, version, target, content, stores,
                 current, results>>

\* populate_cache, one conversation: put the derivation under the current key.
Put(p, c) ==
  /\ Goto(p, "write", "reclaim")
  /\ c \in todo[p]
  /\ LET value == Derivation(stores[p], groups[p], c) IN
       /\ Upsert(version[p], c, Content(groups[p], c), stores[p], value)
       /\ served' = IF command[p] = "replay"
                    THEN [served EXCEPT ![p] =
                           @ \cup {[conversation |-> c, value |-> value, from |-> stores[p],
                    hit |-> FALSE]}]
                    ELSE served
  /\ current' = [current EXCEPT ![p] = c]
  /\ UNCHANGED <<log, leaked, moved, command, version, target, content, stores, groups,
                 todo, unprojected, verdict>>

\* reclaim_superseded: prune the conversation; an SQL error is swallowed.
Reclaim(p) ==
  /\ Goto(p, "reclaim", "write")
  /\ \/ /\ DeleteSuperseded(version[p], current[p], Content(groups[p], current[p]))
        /\ leaked' = [leaked EXCEPT ![current[p]] = FALSE]
     \/ /\ UNCHANGED rows
        /\ leaked' = [leaked EXCEPT ![current[p]] = TRUE]
  /\ todo' = [todo EXCEPT ![p] = @ \ {current[p]}]
  /\ current' = [current EXCEPT ![p] = None]
  /\ UNCHANGED <<log, moved, command, version, target, content, stores, groups, results>>

\* populate_cache returns; the handler of a submitted run reports nothing.
EndPopulate(p) ==
  /\ Goto(p, "write", CASE command[p] = "replay" -> "report"
                        [] command[p] = "warmup" -> "assemble"
                        [] OTHER -> "done")
  /\ todo[p] = {}
  /\ UNCHANGED <<log, rows, leaked, moved, command, version, target, content, stores,
                 groups, todo, current, results>>

\* warmup after a miss: derivation_for lists the conversation's messages anew.
WarmupAssemble(p) ==
  /\ Goto(p, "assemble", "report")
  /\ served' = [served EXCEPT ![p] =
       IF HasWarmup(stores[p], target[p])
       THEN {[conversation |-> target[p], hit |-> FALSE, from |-> stores[p],
              value |-> Derivation(stores[p], log, target[p])]}
       ELSE {}]
  /\ UNCHANGED <<log, rows, leaked, moved, command, version, target, content, stores,
                 groups, todo, current, unprojected, verdict>>

\* Mutant: only the messages of the run's own snapshot are asked about.
ReportSnapshot(p) ==
  /\ Goto(p, "report", "done")
  /\ LET asked == IF command[p] = "warmup" THEN In(stores[p].logged, target[p])
                  ELSE Logged(stores[p].logged)
     IN  unprojected' = [unprojected EXCEPT ![p] =
           {m \in asked : stores[p].projected[m] = None}]
  /\ UNCHANGED <<log, rows, leaked, moved, command, version, target, content, stores,
                 groups, todo, current, served, verdict>>

\* unprojected: the messages logged by now that the run has no projection of.
Report(p) ==
  /\ Goto(p, "report", "done")
  /\ LET asked == IF command[p] = "warmup" THEN In(log, target[p]) ELSE Logged(log)
     IN  unprojected' = [unprojected EXCEPT ![p] =
           {m \in asked : stores[p].projected[m] = None}]
  /\ UNCHANGED <<log, rows, leaked, moved, command, version, target, content, stores,
                 groups, todo, current, served, verdict>>

\* verify, one conversation: hash its messages, read anew ...
VerifyHash(p, c) ==
  /\ Goto(p, "check", "compare")
  /\ c \in todo[p]
  /\ current' = [current EXCEPT ![p] = c]
  /\ content' = [content EXCEPT ![p] = Content(log, c)]
  /\ UNCHANGED <<log, rows, leaked, moved, command, version, target, stores, groups, todo,
                 results>>

\* ... and compare the durable row, if any, with the fresh derivation.
VerifyCompare(p) ==
  /\ Goto(p, "compare", "check")
  /\ LET stored == Lookup(version[p], current[p], content[p])
         fresh  == Derivation(stores[p], groups[p], current[p])
     IN  verdict' = [verdict EXCEPT ![p][current[p]] =
           CASE stored = {} -> "not_cached"
             [] \E r \in stored : r.value = fresh -> "verified"
             [] OTHER -> "diverged"]
  /\ todo' = [todo EXCEPT ![p] = @ \ {current[p]}]
  /\ current' = [current EXCEPT ![p] = None]
  /\ UNCHANGED <<log, rows, leaked, moved, command, version, target, content, stores,
                 groups, served, unprojected>>

VerifyEnd(p) ==
  /\ Goto(p, "check", "done")
  /\ todo[p] = {}
  /\ UNCHANGED <<log, rows, leaked, moved, command, version, target, content, stores,
                 groups, todo, current, results>>

\* The process ends, or is killed at any point: its memory is gone.
Exit(p) ==
  /\ pc[p] # "idle"
  /\ pc' = [pc EXCEPT ![p] = "idle"]
  /\ command' = [command EXCEPT ![p] = None]
  /\ version' = [version EXCEPT ![p] = None]
  /\ target' = [target EXCEPT ![p] = None]
  /\ content' = [content EXCEPT ![p] = Nothing]
  /\ moved' = [moved EXCEPT ![p] = {}]
  /\ stores' = [stores EXCEPT ![p] = NoStores]
  /\ groups' = [groups EXCEPT ![p] = Nothing]
  /\ todo' = [todo EXCEPT ![p] = {}]
  /\ current' = [current EXCEPT ![p] = None]
  /\ served' = [served EXCEPT ![p] = {}]
  /\ unprojected' = [unprojected EXCEPT ![p] = {}]
  /\ verdict' = [verdict EXCEPT ![p] = [c \in Conversation |-> "none"]]
  /\ leaked' = IF pc[p] = "reclaim" THEN [leaked EXCEPT ![current[p]] = TRUE] ELSE leaked
  /\ UNCHANGED <<log, rows>>

Next ==
  \/ \E i \in Inputs : Ingest(i[1], i[2])
  \/ \E p \in Process :
       \/ \E cmd \in Command, v \in Version : Begin(p, cmd, v)
       \/ \E v \in Version, c \in Conversation : BeginWarmup(p, v, c)
       \/ WarmupHash(p) \/ WarmupHit(p) \/ ReportHit(p) \/ WarmupMiss(p)
       \/ \E failed \in SUBSET (MayFail \cap Logged(log)) : RunStrategy(p, failed)
       \/ Regroup(p)
       \/ \E c \in Conversation : Put(p, c) \/ VerifyHash(p, c)
       \/ Reclaim(p) \/ EndPopulate(p)
       \/ WarmupAssemble(p) \/ Report(p)
       \/ VerifyCompare(p) \/ VerifyEnd(p)
       \/ Exit(p)

Spec == Init /\ [][Next]_vars

-----------------------------------------------------------------------------
(* Properties of every interleaving.                                       *)

(* derived_output_cache's primary key holds one row, and no projection is  *)
(* served for a message that is not part of the content the row was keyed  *)
(* by, although the run and the keys come from two reads of the log.       *)
RowsWellKeyed ==
  /\ \A r, s \in rows :
       (r.version = s.version /\ r.conversation = s.conversation /\ r.content = s.content)
         => r = s
  /\ \A r \in rows : Logged(r.value.projections) \subseteq Logged(r.content)

RowsOf(c) == {r \in rows : r.conversation = c}

\* The processes that wrote a row of c and have not reclaimed yet.
Writers(c) == {p \in Process : pc[p] = "reclaim" /\ current[p] = c}

(* The cache holds "roughly one row per conversation" (architecture.md     *)
(* "Cache reclamation"): one, and one more for each process that is        *)
(* between its put and its reclaim, unless a reclaim failed or was lost    *)
(* with its process since the last one that succeeded.                     *)
RowBound ==
  \A c \in Conversation :
    ~leaked[c] => Cardinality(RowsOf(c)) <= 1 + Cardinality(Writers(c))

\* Whatever p has shown of message m.
Shown(p, m) == \E s \in served[p] : s.value.projections[m] # None

(* A projection failure is surfaced, never a silent gap (spec.md           *)
(* "Projection failure is surfaced"): of every message that replay or      *)
(* warmup covers, also one logged while the command ran, it either shows   *)
(* the projection or reports that there is none, and never both.  A        *)
(* message that changed its conversation meanwhile is exempt: the reads    *)
(* of the one command place it in two conversations.                       *)
NoSilentGap ==
  \A p \in Process :
    pc[p] = "done" =>
      LET covered ==
            CASE command[p] = "replay" -> Logged(groups[p])
              [] command[p] = "warmup" -> In(groups[p], target[p]) \cup Logged(content[p])
              [] OTHER -> {}
      IN  \A m \in covered \ moved[p] : Shown(p, m) <=> m \notin unprojected[p]

-----------------------------------------------------------------------------
(* Properties of a log that is quiet while a command runs.                 *)

(* spec.md "Cached delivery": what is served from the cache equals what a  *)
(* fresh replay would produce.                                             *)
ServedEqualsReplay ==
  \A p \in Process : \A s \in served[p] :
    s.hit => s.value = CurrentDerivation(s.conversation)

\* Who wrote the messages of c that a run saw.
Authors(s, c) == [m \in In(s.logged, c) |-> s.logged[m].author]

\* The messages of other conversations that own a topic of c in a run.
Outside(s, c) ==
  {w \in Ownership(s, s.logged, c) : s.logged[w[2][1]].conversation # c}

\* What the derivation of c is made from in a run, and its cache key leaves out.
Unkeyed(s, c) == <<Authors(s, c), Outside(s, c)>>

\* The messages a run saw and has no projection of.
Failed(s) == {m \in Logged(s.logged) : s.projected[m] = None}

(* The part of it that the key of the cache keeps.  Say the same messages  *)
(* fail as in the run a hit comes from: then it serves the projections and *)
(* the warm-up a replay would now produce, and the developers and hints    *)
(* too, unless the authors of the conversation's messages, or what other   *)
(* conversations contributed to its topics, changed since that run.        *)
HitsStaleOnlyInExpertise ==
  \A p \in Process : \A s \in served[p] :
    LET c   == s.conversation
        now == Replayed(log, Failed(s.from), c)
    IN  s.hit =>
          /\ s.value.projections = now.projections
          /\ s.value.warmup = now.warmup
          /\ Unkeyed(s.from, c) = Unkeyed(Derived(log, Failed(s.from)), c) => s.value = now

(* spec.md "A faithful cache verifies".  verify reports a divergence only  *)
(* where, between the run of the stored row and its own, an author of the  *)
(* conversation's messages changed, or what other conversations contribute *)
(* to its topics, or a projection of the conversation failed in one of the *)
(* two: never because of an edited, added or removed message.              *)
DivergenceHasCause ==
  [][ \A p \in Process, c \in Conversation :
        (verdict'[p][c] = "diverged" /\ verdict[p][c] # "diverged") =>
          \E r \in rows :
            /\ r.version = version[p] /\ r.conversation = c /\ r.content = Content(log, c)
            /\ \/ Unkeyed(r.from, c) # Unkeyed(stores[p], c)
               \/ Failed(r.from) \cap In(log, c) # Failed(stores[p]) \cap In(log, c) ]_vars

(* A finished replay, strategy run or missed warm-up leaves the current    *)
(* derivation of every conversation in the cache, so the next warmup of    *)
(* any of them hits (commands.rs:348-349).                                 *)
RunRefreshes ==
  \A p \in Process :
    (pc[p] = "done" /\ stores[p] = Derived(log, {}) /\ command[p] # "verify") =>
      \A c \in Conversations(log) :
        \E r \in Lookup(version[p], c, Content(log, c)) : r.value = CurrentDerivation(c)

(* derivation.rs:86-87 and spec.md: pruning never removes a row a later    *)
(* read could hit: a row that leaves the table was not under the current   *)
(* content of its conversation.  It holds while one version writes.        *)
PruneOnlyDead ==
  [][ \A r \in rows :
        r.content = Content(log, r.conversation)
          => \E s \in rows' : s.version = r.version /\ s.conversation = r.conversation
                              /\ s.content = r.content ]_vars

(* main.rs fail_if_unprojected: "Successful projections are cached durably, *)
(* so re-running retries only the messages that still failed": a warm-up   *)
(* that reports a gap has run the strategy.                                *)
RetriesFailed ==
  \A p \in Process :
    (pc[p] = "done" /\ command[p] = "warmup" /\ unprojected[p] # {})
      => \A s \in served[p] : ~s.hit

=============================================================================
