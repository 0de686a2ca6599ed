------------------------------ MODULE Providers ------------------------------
(***************************************************************************)
(* The deterministic ports of the reference strategy (mirrorlane-provider: *)
(* skill.rs, hint.rs, developer.rs, scope.rs, warmup.rs, mock.rs) and the  *)
(* parser in front of a real model (mirrorlane-llm parse_projection).      *)
(*                                                                         *)
(* Identifiers are natural numbers where the code orders them: authors and *)
(* topics.  Confidence is counted in tenths, a score is an exact fraction  *)
(* in lowest terms (the code divides f64s, whose rounding may separate     *)
(* authors who tie exactly).  Display names, the wording of reasons and    *)
(* summaries, and the profiles that BuildSkillJob drops are left out; the  *)
(* lists of a warm-up are sets, as their order is that of the log.         *)
(***************************************************************************)
EXTENDS Integers, FiniteSets, Sequences, SequencesExt, Sorting

CONSTANTS
  TopicKeywords,   \* mock.rs TOPIC_KEYWORDS, a sequence of topics
  EntityKeywords,  \* mock.rs ENTITY_KEYWORDS, a sequence of entities
  Cues,            \* detect_intent: [intent, words], in the order it asks
  Catalog,         \* scope.rs CATALOG, a set of components
  ComponentFor     \* component_for: keyword -> component, where there is one

-----------------------------------------------------------------------------
(* Fractions.                                                              *)

\* Confidence::new, in tenths.
Clamp(tenths) == IF tenths < 0 THEN 0 ELSE IF tenths > 10 THEN 10 ELSE tenths

Divisors(n) == {k \in 1..n : n % k = 0}

Fraction(n, d) ==
  IF n = 0 THEN [num |-> 0, den |-> 1]
  ELSE LET g == Max(Divisors(n) \cap Divisors(d)) IN [num |-> n \div g, den |-> d \div g]

Plus(p, q)  == Fraction(p.num * q.den + q.num * p.den, p.den * q.den)
Less(p, q)  == p.num * q.den < q.num * p.den

\* SkillScore::new
ClampScore(p) == IF p.num > p.den THEN Fraction(1, 1) ELSE p

-----------------------------------------------------------------------------
(* Projections.  A body is the set of listed words that occur in it.       *)

DetectIntent(body) ==
  LET hit == {i \in DOMAIN Cues : Cues[i].words \cap body # {}}
  IN  IF hit = {} THEN "social" ELSE Cues[Min(hit)].intent

\* MockProjector::run
MockProjection(body) ==
  LET topics   == SelectSeq(TopicKeywords, LAMBDA k : k \in body)
      entities == SelectSeq(EntityKeywords, LAMBDA k : k \in body)
  IN  [intent |-> DetectIntent(body), topics |-> topics, entities |-> entities,
       confidence |-> Clamp(5 + Len(topics) + Len(entities))]

\* parse_projection, of a response in the documented shape; any other panics.
ParseProjection(dto) == [dto EXCEPT !.confidence = Clamp(@)]

-----------------------------------------------------------------------------
(* Rankings.                                                               *)

Better(r, s) == \/ Less(s.score, r.score)
                \/ r.score = s.score /\ r.author < s.author

\* The strongest scores 1, best first, ties by ascending author id.
Ranked(tallies) ==
  LET top == (CHOOSE r \in tallies : \A s \in tallies : ~Less(r.tally, s.tally)).tally
      Score(p) == IF top.num = 0 THEN Fraction(0, 1)
                  ELSE ClampScore(Fraction(p.num * top.den, p.den * top.num))
  IN  Sorted({[author |-> r.author, score |-> Score(r.tally)] : r \in tallies}, Better)

Occurrences(s, x) == Cardinality({i \in DOMAIN s : s[i] = x})

\* Mutant: a topic a projection lists twice counts once.
InvolvementOnce(contributions, a, t) ==
  MapThenSumSet(LAMBDA c : contributions[c].confidence,
    {c \in DOMAIN contributions :
       contributions[c].author = a /\ t \in ToSet(contributions[c].topics)})

\* The weight of an author on a topic: the confidence of each mention.
Involvement(contributions, a, t) ==
  MapThenSumSet(LAMBDA c : contributions[c].confidence * Occurrences(contributions[c].topics, t),
    {c \in DOMAIN contributions : contributions[c].author = a})

\* MessageSkillBuilder::build: the ownership of each topic.
Ownerships(contributions) ==
  LET Authors(t) == {contributions[c].author :
                       c \in {d \in DOMAIN contributions : t \in ToSet(contributions[d].topics)}}
      Tally(a, t) == [author |-> a, tally |-> Fraction(Involvement(contributions, a, t), 1)]
  IN  {[topic |-> t, candidates |-> Ranked({Tally(a, t) : a \in Authors(t)})] :
         t \in UNION {ToSet(contributions[c].topics) : c \in DOMAIN contributions}}

Candidate(o, a) == {i \in DOMAIN o.candidates : o.candidates[i].author = a}
ScoreIn(o, a) == o.candidates[CHOOSE i \in Candidate(o, a) : TRUE].score

\* The authors a list of ownerships names, each with the sum of its scores.
Totals(ownerships) ==
  LET Add(o, sum, a) == IF Candidate(o, a) = {} THEN sum ELSE Plus(sum, ScoreIn(o, a))
      Sum(a) == FoldFunction(LAMBDA o, sum : Add(o, sum, a), Fraction(0, 1), ownerships)
  IN  {[author |-> a, tally |-> Sum(a)] :
         a \in UNION {{c.author : c \in ToSet(o.candidates)} : o \in Range(ownerships)}}

\* Mutant: the summed scores are only clamped, not normalized.
HintUnnormalised(ownerships) ==
  Sorted({[author |-> r.author, score |-> ClampScore(r.tally)] : r \in Totals(ownerships)}, Better)

\* SkillRoutingHinter::hint, of the ownerships of a projection's topics, each at the place
\* its topic is listed at: the reviewers.
\* The human hint is the first of them.
Hint(ownerships) == Ranked(Totals(ownerships))

\* SkillDeveloperSnapshotter::build: participants by id, each with the topics they are a
\* candidate on, strongest first.
Snapshot(participants, ownerships) ==
  LET Owned(a) == {[topic |-> o.topic, weight |-> ScoreIn(o, a)] :
                     o \in {p \in ownerships : Candidate(p, a) # {}}}
      Stronger(s, t) == \/ Less(t.weight, s.weight)
                        \/ s.weight = t.weight /\ s.topic < t.topic
  IN  Sorted({[author |-> a, topics |-> Sorted(Owned(a), Stronger)] : a \in participants},
             LAMBDA p, q : p.author < q.author)

-----------------------------------------------------------------------------
(* Scope and warm-up.                                                      *)

\* MockScopeProjector::scope
ScopeOf(projections) ==
  LET words == UNION {ToSet(projections[m].topics) \cup ToSet(projections[m].entities) :
                        m \in DOMAIN projections}
      load  == {ComponentFor[w] : w \in words \cap DOMAIN ComponentFor}
      sum   == MapThenSumSet(LAMBDA m : projections[m].confidence, DOMAIN projections)
  IN  [load |-> load, ignore |-> Catalog \ load,
       confidence |-> IF DOMAIN projections = {} THEN Fraction(0, 1)
                      ELSE Fraction(sum, 10 * Cardinality(DOMAIN projections))]

\* MockWarmupBuilder::build
WarmupOf(focus, projections) ==
  LET Having(intent) == {m \in DOMAIN projections : projections[m].intent = intent}
  IN  [focus |-> focus, decisions |-> Having("decision"),
       open_questions |-> Having("question"), tasks |-> Having("task")]

=============================================================================
