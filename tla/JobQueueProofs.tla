--------------------------- MODULE JobQueueProofs ---------------------------
(***************************************************************************)
(* Theorems of JobQueue, for any number of jobs, worker processes and ways *)
(* to call the commands, whatever their settings are.                      *)
(***************************************************************************)
EXTENDS JobQueue, TLAPS

Ids == {Strategy(c) : c \in Invocation}

Queues == {Queue(c) : c \in Invocation} \cup {None}
Versions == {<<s, Provider(c)>> : s \in Ids \cup {None}, c \in Invocation} \cup {None}
States == {"absent", "queued", "leased", "delayed", "acked", "dead", "dropped"}

EnvelopeType ==
  [state : States, queue : Queues, strategy : Ids \cup {None}, attempts : Nat,
   deliveries : Nat, holder : Process \cup {None}, version : Versions]

ProcType ==
  [pc : {"off", "idle", "run", "call", "reclaim", "report"},
   settings : {Settings(c) : c \in Invocation} \cup {None},
   job : Job \cup {None}]

TypeOK ==
  /\ jobs \in [Job -> EnvelopeType]
  /\ proc \in [Process -> ProcType]
  /\ runs \in [Job -> Nat]
  /\ requeues \in Nat

\* The versions that a run wrote and only a run of another version took away.
Written == published \cup superseded

\* A process that runs has usable settings, and a handler has a job that was submitted.
\* It goes on for a registered strategy, and reports after it wrote what this derived.
Handling(p) ==
  /\ proc[p].pc # "off" =>
       \E c \in Invocation : Usable(c) /\ proc[p].settings = Settings(c)
  /\ proc[p].pc \in {"run", "call", "reclaim", "report"} =>
       proc[p].job \in Job /\ jobs[proc[p].job].state # "absent"
  /\ proc[p].pc \in {"call", "reclaim", "report"} => Registered(p)
  /\ proc[p].pc = "reclaim" => Version(p) \in Written
  /\ proc[p].pc = "report" /\ Derives(p) => Version(p) \in Written

\* A lease alone has a holder.  A live job was run once for each delivery; the count
\* of the deliveries starts afresh when it stops being live, that of the runs when an
\* operator requeues it.
Accounted(j) ==
  /\ jobs[j].state # "leased" => jobs[j].holder = None
  /\ jobs[j].state \in {"absent", "queued", "leased", "delayed"} =>
       runs[j] = jobs[j].deliveries
  /\ jobs[j].state \in {"absent", "dead"} => jobs[j].deliveries = 0
  /\ \E n \in Configured : runs[j] <= n

IInv ==
  /\ TypeOK
  /\ \A p \in Process : Handling(p)
  /\ \A j \in Job : Accounted(j)
  /\ AckedIsServed

-----------------------------------------------------------------------------

\* Somebody's backstop is what a worker with these settings goes by.
LEMMA BackstopIsConfigured ==
  /\ Configured \subseteq Nat
  /\ DefaultMaxDeliveries \in Configured
  /\ \A c \in Invocation : Usable(c) => MaxDeliveries(c) \in Configured
<1>1. DefaultMaxDeliveries \in Configured
  BY JobQueueAssumption DEF Configured
<1>2. Configured \subseteq Nat
  BY JobQueueAssumption DEF Configured
<1>3. ASSUME NEW c \in Invocation, Usable(c) PROVE MaxDeliveries(c) \in Configured
  <2>1. c.env.max_deliveries # Malformed /\ c.config # Invalid
    BY <1>3 DEF Usable, Parsed
  <2>2. c.env.max_deliveries # Unset => c.env.max_deliveries \in Configured
    BY <2>1 DEF Configured
  <2>3. c.config.max_deliveries # Unset => c.config.max_deliveries \in Configured
    <3>1. c.config.max_deliveries # Unset => c.config.max_deliveries # Malformed
      BY <2>1, JobQueueAssumption
    <3> QED
      BY <2>1, <3>1 DEF Configured
  <2> QED
    BY <1>1, <2>2, <2>3 DEF MaxDeliveries, Or
<1> QED
  BY <1>1, <1>2, <1>3

LEMMA SettledIsTyped ==
  ASSUME NEW e \in EnvelopeType, NEW s \in {"acked", "dead", "dropped"}
  PROVE  /\ Settled(e, s) \in EnvelopeType
         /\ Settled(e, s).state = s /\ Settled(e, s).strategy = e.strategy
         /\ Settled(e, s).version = e.version /\ Settled(e, s).holder = None
         /\ Settled(e, s).deliveries = 0
BY DEF Settled, EnvelopeType, States

LEMMA InitIInv == Init => IInv
<1> SUFFICES ASSUME Init PROVE IInv
  OBVIOUS
<1>1. TypeOK
  BY DEF Init, TypeOK, EnvelopeType, States, Queues, Versions, ProcType, Absent, Off
<1>2. \A j \in Job : Accounted(j)
  BY BackstopIsConfigured DEF Init, Accounted, Absent
<1>3. (\A p \in Process : Handling(p)) /\ AckedIsServed
  BY DEF Init, Handling, AckedIsServed, Absent, Off
<1> QED
  BY <1>1, <1>2, <1>3 DEF IInv

-----------------------------------------------------------------------------
(* What the steps do to a job.                                             *)

\* Job j is as it was, or is taken out of its queue or its store.
Buried(j) ==
  \/ jobs'[j] = jobs[j]
  \/ /\ jobs[j].state \notin {"absent", "acked"}
     /\ \E s \in {"dead", "dropped"} : jobs'[j] = Settled(jobs[j], s)

LEMMA DeadLetterBuries ==
  ASSUME TypeOK, NEW j \in Job, NEW n, jobs[j].state \notin {"absent", "acked"}, DeadLetter(j, n)
  PROVE  jobs' \in [Job -> EnvelopeType] /\ \A i \in Job : Buried(i)
<1>1. PICK old : /\ \A i \in old : i = j \/ jobs[i].state = "dead"
                 /\ jobs' = [i \in Job |-> IF i \in old THEN Settled(jobs[i], "dropped")
                                           ELSE IF i = j THEN Settled(jobs[j], "dead")
                                           ELSE jobs[i]]
  BY Zenon DEF DeadLetter, DeadIn
<1>2. \A i \in Job : Buried(i)
  BY <1>1 DEF Buried
<1>3. \A i \in Job : jobs'[i] \in EnvelopeType
  BY <1>1, SettledIsTyped DEF TypeOK
<1> QED
  BY <1>1, <1>2, <1>3

\* What a step may do to the other processes' work: no job is forgotten or renamed, and
\* none becomes acknowledged.
Stays(j) ==
  /\ jobs[j].state # "absent" =>
       jobs'[j].state # "absent" /\ jobs'[j].strategy = jobs[j].strategy
  /\ jobs'[j].state = "acked" =>
       jobs[j].state = "acked" /\ jobs'[j].version = jobs[j].version

LEMMA BuriedIsAccounted ==
  ASSUME TypeOK, NEW j \in Job, Accounted(j), Buried(j), runs'[j] = runs[j]
  PROVE  Accounted(j)' /\ Stays(j)
<1>1. CASE jobs'[j] = jobs[j]
  BY <1>1 DEF Accounted, Stays, Configured
<1>2. ASSUME NEW s \in {"dead", "dropped"}, jobs'[j] = Settled(jobs[j], s),
             jobs[j].state \notin {"absent", "acked"}
      PROVE  Accounted(j)' /\ Stays(j)
  <2>1. jobs'[j].state = s /\ jobs'[j].strategy = jobs[j].strategy
        /\ jobs'[j].holder = None /\ jobs'[j].deliveries = 0
    BY <1>2, SettledIsTyped DEF TypeOK
  <2> QED
    BY <1>2, <2>1 DEF Accounted, Stays, Configured
<1> QED
  BY <1>1, <1>2 DEF Buried

\* A handler whose step leaves its job and its settings alone goes on handling it.
LEMMA OthersHandle ==
  ASSUME TypeOK, NEW p \in Process, Handling(p), proc'[p] = proc[p],
         \A j \in Job : Stays(j), Written \subseteq Written'
  PROVE  Handling(p)'
BY DEF Handling, Stays, Registered, Derives, Version

LEMMA StaysServed ==
  ASSUME TypeOK, AckedIsServed, \A j \in Job : Stays(j), Written \subseteq Written'
  PROVE  AckedIsServed'
BY DEF AckedIsServed, Stays, Written

\* The parts of a step, put together.
LEMMA KeepsIInv ==
  ASSUME IInv, TypeOK', \A j \in Job : Stays(j) /\ Accounted(j)',
         UNCHANGED cache \/ Written \subseteq Written',
         \A p \in Process : proc'[p] = proc[p] \/ Handling(p)'
  PROVE  IInv'
<1>1. Written \subseteq Written'
  BY DEF cache, Written
<1> QED
  BY <1>1, OthersHandle, StaysServed DEF IInv

LEMMA IdleJobs ==
  ASSUME IInv, UNCHANGED <<jobs, runs>>
  PROVE  \A j \in Job : Stays(j) /\ Accounted(j)'
BY DEF IInv, Stays, Accounted, Configured

-----------------------------------------------------------------------------
(* The commands.                                                           *)

LEMMA SubmitKeepsIInv ==
  ASSUME IInv, NEW c \in Invocation, NEW j \in Job, Submit(c, j)
  PROVE  IInv'
<1>1. Fresh(c) \in EnvelopeType /\ Fresh(c).state = "queued" /\ Fresh(c).holder = None
      /\ Fresh(c).deliveries = 0
  <2>1. Queue(c) \in Queues /\ Strategy(c) \in Ids /\ None \in Queues \cap Versions
    BY DEF Queues, Ids, Versions
  <2>2. Absent \in EnvelopeType
    BY <2>1 DEF Absent, EnvelopeType, States
  <2> QED
    BY <2>1, <2>2 DEF Fresh, Absent, EnvelopeType, States
<1>2. jobs[j].state = "absent" /\ jobs' = [jobs EXCEPT ![j] = Fresh(c)]
      /\ UNCHANGED <<proc, cache, runs, requeues>>
  BY DEF Submit
<1>3. TypeOK'
  BY <1>1, <1>2 DEF IInv, TypeOK
<1>4. ASSUME NEW i \in Job PROVE Stays(i) /\ Accounted(i)'
  <2>1. CASE i = j
    BY <1>1, <1>2, <2>1 DEF IInv, TypeOK, Stays, Accounted, Configured
  <2>2. CASE i # j
    BY <1>2, <2>2 DEF IInv, TypeOK, Stays, Accounted, Configured
  <2> QED
    BY <2>1, <2>2
<1> QED
  BY <1>2, <1>3, <1>4, KeepsIInv

LEMMA RequeueKeepsIInv ==
  ASSUME IInv, NEW c \in Invocation, NEW j \in Job, Requeue(c, j)
  PROVE  IInv'
<1>1. jobs[j].state = "dead" /\ jobs' = [jobs EXCEPT ![j].state = "queued"]
      /\ runs' = [runs EXCEPT ![j] = 0] /\ requeues' = requeues + 1
      /\ UNCHANGED <<proc, cache>>
  BY DEF Requeue, DeadLetters, DeadIn
<1>2. TypeOK'
  BY <1>1 DEF IInv, TypeOK, EnvelopeType, States
<1>3. ASSUME NEW i \in Job PROVE Stays(i) /\ Accounted(i)'
  <2>1. CASE i = j
    <3>1. jobs'[j].state = "queued" /\ jobs'[j].strategy = jobs[j].strategy
          /\ jobs'[j].holder = None /\ jobs'[j].deliveries = 0 /\ runs'[j] = 0
      BY <1>1 DEF IInv, TypeOK, EnvelopeType, Accounted
    <3>2. \E n \in Configured : runs'[j] <= n
      BY <3>1, BackstopIsConfigured
    <3> QED
      BY <1>1, <2>1, <3>1, <3>2 DEF Stays, Accounted, Configured
  <2>2. CASE i # j
    BY <1>1, <2>2 DEF IInv, TypeOK, Stays, Accounted, Configured
  <2> QED
    BY <2>1, <2>2
<1> QED
  BY <1>1, <1>2, <1>3, KeepsIInv

LEMMA PurgeKeepsIInv ==
  ASSUME IInv, NEW c \in Invocation, Purge(c)
  PROVE  IInv'
<1>1. UNCHANGED <<proc, cache, runs, requeues>>
  BY DEF Purge
<1>2. \A i \in Job : jobs'[i] \in EnvelopeType /\ Buried(i)
  BY SettledIsTyped DEF Purge, Buried, DeadLetters, DeadIn, IInv, TypeOK
<1>3. TypeOK'
  BY <1>1, <1>2 DEF Purge, IInv, TypeOK
<1> QED
  BY <1>1, <1>2, <1>3, BuriedIsAccounted, KeepsIInv DEF IInv

LEMMA StartKeepsIInv ==
  ASSUME IInv, NEW p \in Process, NEW c \in Invocation, Start(p, c)
  PROVE  IInv'
<1>1. TypeOK'
  BY DEF Start, IInv, TypeOK, ProcType
<1>2. Handling(p)'
  BY DEF Start, IInv, TypeOK, Handling, Usable, Parsed, Queue
<1> QED
  BY <1>1, <1>2, IdleJobs, KeepsIInv DEF Start, IInv, TypeOK

-----------------------------------------------------------------------------
(* The workers.                                                            *)

LEMMA ReserveKeepsIInv ==
  ASSUME IInv, NEW p \in Process, NEW j \in Job, Reserve(p, j)
  PROVE  IInv'
<1> DEFINE n == proc[p].settings.max_deliveries
<1>0. /\ proc[p].pc = "idle" /\ jobs[j].state = "queued" /\ UNCHANGED <<cache, requeues>>
      /\ n \in Configured /\ jobs[j] \in EnvelopeType /\ runs[j] = jobs[j].deliveries
  <2>1. \E c \in Invocation : Usable(c) /\ proc[p].settings = Settings(c)
    BY DEF Reserve, IInv, Handling
  <2>2. n \in Configured
    BY <2>1, BackstopIsConfigured DEF Settings
  <2> QED
    BY <2>2 DEF Reserve, Reservable, IInv, Accounted, TypeOK
<1>1. CASE jobs[j].deliveries < n
  <2>1. /\ jobs' = [jobs EXCEPT ![j].state = "leased", ![j].holder = p, ![j].deliveries = @ + 1]
        /\ proc' = [proc EXCEPT ![p].pc = "run", ![p].job = j]
        /\ runs' = [runs EXCEPT ![j] = @ + 1]
    BY <1>1 DEF Reserve
  <2>2. /\ jobs'[j] = [jobs[j] EXCEPT !.state = "leased", !.holder = p,
                                      !.deliveries = jobs[j].deliveries + 1]
        /\ \A i \in Job \ {j} : jobs'[i] = jobs[i] /\ runs'[i] = runs[i]
        /\ runs'[j] = runs[j] + 1
    BY <2>1 DEF IInv, TypeOK
  <2>3. jobs[j].deliveries \in Nat /\ jobs'[j] \in EnvelopeType
    <3>1. jobs[j].deliveries \in Nat /\ jobs[j].deliveries + 1 \in Nat
      BY <1>0 DEF EnvelopeType
    <3> QED
      BY <1>0, <2>2, <3>1 DEF EnvelopeType, States
  <2>4. TypeOK'
    <3>1. jobs' \in [Job -> EnvelopeType]
      BY <2>1, <2>2, <2>3 DEF IInv, TypeOK
    <3>2. proc' \in [Process -> ProcType]
      BY <2>1 DEF IInv, TypeOK, ProcType
    <3>3. runs' \in [Job -> Nat]
      BY <2>1 DEF IInv, TypeOK
    <3> QED
      BY <1>0, <3>1, <3>2, <3>3 DEF IInv, TypeOK
  <2>5. ASSUME NEW i \in Job PROVE Stays(i) /\ Accounted(i)'
    <3>1. CASE i = j
      <4>1. /\ jobs'[j].state = "leased" /\ jobs'[j].strategy = jobs[j].strategy
            /\ jobs'[j].deliveries = jobs[j].deliveries + 1
        BY <1>0, <2>2 DEF EnvelopeType
      <4>2. runs'[j] = jobs'[j].deliveries /\ runs'[j] <= n
        BY <1>0, <1>1, <2>2, <2>3, <4>1, BackstopIsConfigured
      <4> QED
        BY <1>0, <3>1, <4>1, <4>2 DEF Stays, Accounted, Configured
    <3>2. CASE i # j
      BY <2>2, <3>2 DEF IInv, Stays, Accounted, Configured
    <3> QED
      BY <3>1, <3>2
  <2>6. Handling(p)'
    <3>1. proc'[p].pc = "run" /\ proc'[p].job = j /\ proc'[p].settings = proc[p].settings
      BY <2>1 DEF IInv, TypeOK, ProcType
    <3>2. jobs'[j].state # "absent"
      BY <1>0, <2>2 DEF EnvelopeType
    <3> QED
      BY <1>0, <3>1, <3>2 DEF IInv, Handling
  <2> QED
    BY <1>0, <2>1, <2>4, <2>5, <2>6, KeepsIInv DEF IInv, TypeOK
<1>2. CASE ~ (jobs[j].deliveries < n)
  <2>1. DeadLetter(j, proc[p].settings.dead_letter_max) /\ UNCHANGED <<proc, runs>>
    BY <1>2 DEF Reserve
  <2>2. jobs' \in [Job -> EnvelopeType] /\ \A i \in Job : Buried(i)
    BY <1>0, <2>1, DeadLetterBuries DEF IInv
  <2>3. TypeOK'
    BY <1>0, <2>1, <2>2 DEF IInv, TypeOK
  <2> QED
    BY <1>0, <2>1, <2>2, <2>3, BuriedIsAccounted, KeepsIInv DEF IInv
<1> QED
  BY <1>1, <1>2

\* A run that fails: its process is idle again, its job is delayed or dead-lettered.
LEMMA FailKeepsIInv ==
  ASSUME IInv, NEW p \in Process, proc[p].pc = "run", Fail(p),
         UNCHANGED <<cache, runs, requeues>>
  PROVE  IInv'
<1> DEFINE j == proc[p].job
           n == jobs[j].attempts + 1
<1>0. j \in Job /\ proc' = [proc EXCEPT ![p].pc = "idle", ![p].job = None]
      /\ jobs[j] \in EnvelopeType /\ proc[p] \in ProcType
  BY DEF Fail, IInv, Handling, TypeOK
<1>1. proc' \in [Process -> ProcType] /\ Handling(p)'
      /\ \A q \in Process \ {p} : proc'[q] = proc[q]
  BY <1>0 DEF IInv, TypeOK, ProcType, Handling
<1>2. CASE UNCHANGED jobs
  BY <1>1, <1>2, IdleJobs, KeepsIInv DEF IInv, TypeOK
<1>3. CASE jobs[j].holder = p /\ jobs' = [jobs EXCEPT ![j].state = "delayed", ![j].holder = None,
                                                      ![j].attempts = n]
  <2>1. jobs'[j] = [jobs[j] EXCEPT !.state = "delayed", !.holder = None, !.attempts = n]
        /\ \A i \in Job \ {j} : jobs'[i] = jobs[i]
    BY <1>0, <1>3 DEF IInv, TypeOK
  <2>2. jobs[j].state = "leased"
    BY <1>0, <1>3, JobQueueAssumption DEF IInv, Accounted
  <2>3. n \in Nat /\ jobs'[j] \in EnvelopeType
    <3>1. n \in Nat
      BY <1>0 DEF EnvelopeType
    <3> HIDE DEF n
    <3> QED
      BY <1>0, <2>1, <3>1 DEF EnvelopeType, States
  <2>4. TypeOK'
    BY <1>0, <1>1, <1>3, <2>1, <2>3 DEF IInv, TypeOK
  <2>5. ASSUME NEW i \in Job PROVE Stays(i) /\ Accounted(i)'
    <3>1. CASE i = j
      <4>1. jobs'[j].state = "delayed" /\ jobs'[j].holder = None
            /\ jobs'[j].strategy = jobs[j].strategy /\ jobs'[j].deliveries = jobs[j].deliveries
        BY <1>0, <2>1 DEF EnvelopeType
      <4> QED
        BY <2>2, <3>1, <4>1 DEF IInv, Stays, Accounted, Configured
    <3>2. CASE i # j
      BY <2>1, <3>2 DEF IInv, Stays, Accounted, Configured
    <3> QED
      BY <3>1, <3>2
  <2> QED
    BY <1>1, <2>4, <2>5, KeepsIInv
<1>4. CASE jobs[j].holder = p /\ DeadLetter(j, proc[p].settings.dead_letter_max)
  <2>1. jobs[j].state = "leased"
    BY <1>0, <1>4, JobQueueAssumption DEF IInv, Accounted
  <2>2. jobs' \in [Job -> EnvelopeType] /\ \A i \in Job : Buried(i)
    BY <1>0, <1>4, <2>1, DeadLetterBuries DEF IInv
  <2>3. TypeOK'
    BY <1>1, <2>2 DEF IInv, TypeOK
  <2> QED
    BY <1>1, <2>2, <2>3, BuriedIsAccounted, KeepsIInv DEF IInv
<1> QED
  BY <1>2, <1>3, <1>4 DEF Fail

\* A model is asked, and answers.
LEMMA CallKeepsIInv ==
  ASSUME IInv, NEW p \in Process, CallModel(p) \/ CallReturns(p)
  PROVE  IInv'
<1>1. PICK pc \in {"run", "call"} : proc' = [proc EXCEPT ![p].pc = pc]
  BY DEF CallModel, CallReturns
<1>2. /\ Registered(p) /\ proc[p] \in ProcType /\ proc[p].pc \in {"run", "call"}
      /\ UNCHANGED <<jobs, cache, runs, requeues>>
  BY DEF CallModel, CallReturns, IInv, TypeOK, Handling
<1>3. /\ proc'[p].pc = pc /\ proc'[p].job = proc[p].job /\ proc'[p].settings = proc[p].settings
      /\ \A q \in Process \ {p} : proc'[q] = proc[q]
  BY <1>1 DEF IInv, TypeOK, ProcType
<1>4. TypeOK'
  BY <1>1, <1>2 DEF IInv, TypeOK, ProcType
<1>5. Handling(p)'
  BY <1>1, <1>2, <1>3 DEF IInv, Handling, Registered
<1> QED
  BY <1>2, <1>3, <1>4, <1>5, IdleJobs, KeepsIInv

\* The run returns: what it derived has a row from here on.
LEMMA PublishKeepsIInv ==
  ASSUME IInv, NEW p \in Process, Publish(p)
  PROVE  IInv'
<1>1. /\ proc' = [proc EXCEPT ![p].pc = IF Derives(p) THEN "reclaim" ELSE "report"]
      /\ proc[p].pc = "run" /\ Registered(p) /\ UNCHANGED <<jobs, runs, requeues>>
      /\ proc[p] \in ProcType
  BY DEF Publish, IInv, TypeOK
<1>2. /\ proc'[p].pc = IF Derives(p) THEN "reclaim" ELSE "report"
      /\ proc'[p].job = proc[p].job /\ proc'[p].settings = proc[p].settings
      /\ \A q \in Process \ {p} : proc'[q] = proc[q]
  BY <1>1 DEF IInv, TypeOK, ProcType
<1>3. TypeOK'
  BY <1>1 DEF IInv, TypeOK, ProcType
<1>4. Written \subseteq Written' /\ (Derives(p) => Version(p) \in Written')
  BY DEF Publish, Written, cache
<1>5. Handling(p)'
  <2>1. /\ Version(p)' = Version(p) /\ (Registered(p)' <=> Registered(p))
        /\ (Derives(p)' <=> Derives(p))
    BY <1>1, <1>2 DEF Version, Registered, Derives
  <2> QED
    BY <1>1, <1>2, <1>4, <2>1 DEF IInv, Handling
<1> QED
  BY <1>1, <1>2, <1>3, <1>4, <1>5, IdleJobs, KeepsIInv

\* The reclaim of a version leaves its own row, and says whose rows it took.
LEMMA ReclaimKeepsIInv ==
  ASSUME IInv, NEW p \in Process, Reclaim(p)
  PROVE  IInv'
<1>1. /\ proc' = [proc EXCEPT ![p].pc = "report"] /\ proc[p].pc = "reclaim"
      /\ UNCHANGED <<jobs, runs, requeues>> /\ proc[p] \in ProcType
  BY DEF Reclaim, IInv, TypeOK
<1>2. /\ proc'[p].pc = "report" /\ proc'[p].job = proc[p].job
      /\ proc'[p].settings = proc[p].settings
      /\ \A q \in Process \ {p} : proc'[q] = proc[q]
  BY <1>1 DEF IInv, TypeOK, ProcType
<1>3. TypeOK'
  BY <1>1 DEF IInv, TypeOK, ProcType
<1>4. Written \subseteq Written'
  BY DEF Reclaim, Written, cache
<1>5. Handling(p)'
  <2>1. Version(p)' = Version(p) /\ (Registered(p)' <=> Registered(p))
    BY <1>1, <1>2 DEF Version, Registered
  <2> QED
    BY <1>1, <1>2, <1>4, <2>1 DEF IInv, Handling
<1> QED
  BY <1>1, <1>2, <1>3, <1>4, <1>5, IdleJobs, KeepsIInv

\* The acknowledgement, refused when the lease is gone.
LEMMA AckKeepsIInv ==
  ASSUME IInv, NEW p \in Process, Ack(p)
  PROVE  IInv'
<1> DEFINE j == proc[p].job
<1>0. /\ j \in Job /\ proc' = [proc EXCEPT ![p].pc = "idle", ![p].job = None]
      /\ jobs[j] \in EnvelopeType /\ proc[p] \in ProcType
      /\ Registered(p) /\ (Derives(p) => Version(p) \in Written)
      /\ UNCHANGED <<cache, runs, requeues>>
  BY DEF Ack, IInv, Handling, TypeOK
<1>1. proc' \in [Process -> ProcType] /\ Handling(p)'
      /\ \A q \in Process \ {p} : proc'[q] = proc[q]
  <2>1. proc'[p].pc = "idle" /\ proc'[p].settings = proc[p].settings /\ proc[p].pc = "report"
    BY <1>0 DEF Ack, IInv, TypeOK, ProcType
  <2> QED
    BY <1>0, <2>1 DEF IInv, TypeOK, ProcType, Handling
<1>2. CASE jobs[j].holder # p
  BY <1>0, <1>1, <1>2, IdleJobs, KeepsIInv DEF Ack, IInv, TypeOK
<1>3. CASE jobs[j].holder = p
  <2> DEFINE e == Settled(jobs[j], "acked")
  <2>1. jobs[j].state = "leased"
    BY <1>0, <1>3, JobQueueAssumption DEF IInv, Accounted
  <2>2. jobs'[j] = [e EXCEPT !.version = Version(p)] /\ jobs' = [jobs EXCEPT ![j] = jobs'[j]]
        /\ \A i \in Job \ {j} : jobs'[i] = jobs[i]
    BY <1>0, <1>3 DEF Ack, IInv, TypeOK
  <2>3. e \in EnvelopeType /\ e.state = "acked" /\ e.strategy = jobs[j].strategy
        /\ e.holder = None /\ e.deliveries = 0
    BY <1>0, SettledIsTyped
  <2>4. Version(p) \in Versions
    <3>1. \E c \in Invocation : proc[p].settings.provider = Provider(c)
      <4>1. PICK c \in Invocation : proc[p].settings = Settings(c)
        BY <1>0 DEF Ack, IInv, Handling
      <4> QED
        BY <4>1 DEF Settings
    <3>2. jobs[j].strategy \in Ids \cup {None}
      BY <1>0 DEF EnvelopeType
    <3> QED
      BY <3>1, <3>2 DEF Version, Versions
  <2> HIDE DEF e
  <2>5. /\ jobs'[j] \in EnvelopeType /\ jobs'[j].state = "acked"
        /\ jobs'[j].strategy = jobs[j].strategy /\ jobs'[j].version = Version(p)
        /\ jobs'[j].holder = None
    BY <2>2, <2>3, <2>4 DEF EnvelopeType
  <2>6. TypeOK'
    BY <1>0, <1>1, <2>2, <2>5 DEF IInv, TypeOK
  <2>7. ASSUME NEW i \in Job PROVE Accounted(i)'
    <3>1. Accounted(i) /\ runs' = runs
      BY <1>0 DEF IInv
    <3>2. CASE i = j
      BY <2>5, <3>1, <3>2 DEF Accounted
    <3>3. CASE i # j
      BY <2>2, <3>1, <3>3 DEF Accounted
    <3> QED
      BY <3>2, <3>3
  <2>8. AckedIsServed'
    BY <1>0, <2>2, <2>5 DEF IInv, AckedIsServed, Registered, Derives, Written, cache
  <2>9. ASSUME NEW q \in Process, q # p PROVE Handling(q)'
    <3>1. /\ proc'[q] = proc[q]
          /\ \A i \in Job : jobs'[i].strategy = jobs[i].strategy
                            /\ (jobs[i].state # "absent" => jobs'[i].state # "absent")
      BY <1>1, <2>2, <2>5, <2>9
    <3>2. proc[q].job \in Job =>
            /\ Version(q)' = Version(q)
            /\ (Registered(q)' <=> Registered(q)) /\ (Derives(q)' <=> Derives(q))
      BY <3>1 DEF Version, Registered, Derives
    <3>3. Written' = Written /\ Handling(q)
      BY <1>0 DEF Written, cache, IInv
    <3> QED
      BY <3>1, <3>2, <3>3 DEF Handling
  <2> QED
    BY <1>1, <2>6, <2>7, <2>8, <2>9 DEF IInv
<1> QED
  BY <1>2, <1>3

LEMMA LeaveKeepsIInv ==
  ASSUME IInv, NEW p \in Process, Leave(p) \/ Kill(p)
  PROVE  IInv'
<1>1. proc' = [proc EXCEPT ![p] = Off] /\ UNCHANGED <<jobs, cache, runs, requeues>>
  BY DEF Leave, Kill
<1>2. TypeOK'
  BY <1>1 DEF IInv, TypeOK, ProcType, Off
<1>3. Handling(p)' /\ \A q \in Process \ {p} : proc'[q] = proc[q]
  BY <1>1 DEF IInv, TypeOK, Handling, Off
<1> QED
  BY <1>1, <1>2, <1>3, IdleJobs, KeepsIInv

\* A retry becomes due, or a lease ends.
LEMMA LaneKeepsIInv ==
  ASSUME IInv, NEW j \in Job, Due(j) \/ Expire(j)
  PROVE  IInv'
<1>1. /\ jobs[j].state \in {"delayed", "leased"} /\ jobs[j] \in EnvelopeType
      /\ UNCHANGED <<proc, cache, runs, requeues>>
  BY DEF Due, Expire, IInv, TypeOK
<1>2. /\ jobs'[j] \in EnvelopeType /\ jobs'[j].state = "queued" /\ jobs'[j].holder = None
      /\ jobs'[j].strategy = jobs[j].strategy /\ jobs'[j].deliveries = jobs[j].deliveries
      /\ jobs' = [jobs EXCEPT ![j] = jobs'[j]]
  <2>1. CASE Due(j)
    <3>1. jobs[j].holder = None
      BY <2>1 DEF Due, IInv, Accounted
    <3> QED
      BY <1>1, <2>1, <3>1 DEF Due, IInv, TypeOK, EnvelopeType, States
  <2>2. CASE Expire(j)
    BY <1>1, <2>2 DEF Expire, IInv, TypeOK, EnvelopeType, States
  <2> QED
    BY <2>1, <2>2
<1>3. TypeOK'
  BY <1>1, <1>2 DEF IInv, TypeOK
<1>4. ASSUME NEW i \in Job PROVE Stays(i) /\ Accounted(i)'
  <2>1. CASE i = j
    BY <1>1, <1>2, <2>1 DEF IInv, Stays, Accounted, Configured
  <2>2. CASE i # j
    <3>1. jobs'[i] = jobs[i] /\ runs'[i] = runs[i]
      BY <1>1, <1>2, <2>2 DEF IInv, TypeOK
    <3> QED
      BY <3>1 DEF IInv, Stays, Accounted, Configured
  <2> QED
    BY <2>1, <2>2
<1> QED
  BY <1>1, <1>3, <1>4, KeepsIInv

LEMMA NextKeepsIInv == IInv /\ [Next]_vars => IInv'
<1> SUFFICES ASSUME IInv, [Next]_vars PROVE IInv'
  OBVIOUS
<1>1. CASE \E c \in Invocation : \/ \E j \in Job : Submit(c, j) \/ Requeue(c, j)
                                 \/ Purge(c)
                                 \/ \E p \in Process : Start(p, c)
  BY <1>1, SubmitKeepsIInv, RequeueKeepsIInv, PurgeKeepsIInv, StartKeepsIInv
<1>2. CASE \E p \in Process : Step(p) \/ Run(p) \/ Timeout(p) \/ Kill(p)
  BY <1>2, ReserveKeepsIInv, FailKeepsIInv, CallKeepsIInv, PublishKeepsIInv,
     ReclaimKeepsIInv, AckKeepsIInv, LeaveKeepsIInv DEF Step, Run, Refuse, Timeout
<1>3. CASE \E j \in Job : Due(j) \/ Expire(j)
  BY <1>3, LaneKeepsIInv
<1>4. CASE UNCHANGED vars
  <2>1. TypeOK'
    BY <1>4 DEF vars, IInv, TypeOK
  <2> QED
    BY <1>4, <2>1, IdleJobs, KeepsIInv DEF vars
<1> QED
  BY <1>1, <1>2, <1>3, <1>4 DEF Next

THEOREM Invariance == Spec => []IInv
BY InitIInv, NextKeepsIInv, PTL DEF Spec

\* The broker's envelopes and the processes' handlers are well typed.
THEOREM TypeCorrect == Spec => []TypeOK
<1>1. IInv => TypeOK
  BY DEF IInv
<1> QED
  BY <1>1, Invariance, PTL

\* StrategyRunJob publishes before it reports: an acknowledged job named a registered
\* strategy, and what that derived is in the cache under its worker's derivation
\* version, until a run of another version reclaims it.
THEOREM AcknowledgedIsServed == Spec => []AckedIsServed
<1>1. IInv => AckedIsServed
  BY DEF IInv
<1> QED
  BY <1>1, Invariance, PTL

\* The redelivery backstop: a submission is run no more often than some invocation's
\* backstop allows, through crashes, timeouts and lost leases.
THEOREM RunsAreBounded == Spec => []RunsBounded
<1>1. IInv => RunsBounded
  BY DEF IInv, Accounted, RunsBounded
<1> QED
  BY <1>1, Invariance, PTL

=============================================================================
