-------------------------- MODULE SuggestionRanking --------------------------
(***************************************************************************)
(* The scores and the order of the suggestions of a planning run, those of *)
(* the deterministic provider (planning/generator.go) and those a model    *)
(* returns (planning/openai_compatible_provider.go).  What the project     *)
(* looks like when the run is made decides the scores; `situation` keeps   *)
(* what they depend on.                                                    *)
(*                                                                         *)
(* Factors are integers in hundredths, scores in tenths of a point.        *)
(***************************************************************************)
EXTENDS Integers, FiniteSets

CONSTANTS RankingProviders,    \* "deterministic" and "openai-compatible"
          RankedRequirements,  \* what the scores take from the requirement
          MaxDuplicates,       \* bound on the spellings of one title among open tasks
          FailureSample,       \* planningFailureSampleLimit
          ActivitySample       \* planningEvidenceSampleLimit, for completed agent runs

Kinds == {"implementation", "integration", "validation"}

Orders == {o \in [Kinds -> 1 .. 3] : \A k, l \in Kinds : o[k] = o[l] => k = l}

\* lines: of evidence.  keywords: how many of the ten urgent words it has.
\* title: the kinds in the order of the titles made for it.
ASSUME SuggestionRankingAssumption ==
  /\ RankedRequirements \subseteq [lines : 1 .. 2, keywords : 0 .. 10, title : Orders]
  /\ MaxDuplicates \in Nat
  /\ FailureSample \in Nat \ {0} /\ ActivitySample \in Nat \ {0}

VARIABLES situation,
          drafts      \* drafts[k]: seed, scores and rank of suggestion k

rankingVars == <<situation, drafts>>

\* tasks, related, stale: whether there are open tasks, documents near the
\* requirement and stale ones among the sample.  failures, activity: the different
\* lines that the newest failed, and completed, agent runs in the context make.
Situation ==
  [provider : RankingProviders, requirement : RankedRequirements,
   tasks : BOOLEAN, dups : [Kinds -> 0 .. MaxDuplicates], related : BOOLEAN,
   stale : BOOLEAN, drift : {"none", "low", "high"},
   sync : {"none", "completed", "failed"}, failures : 0 .. FailureSample,
   activity : 0 .. ActivitySample]

Quiet(p, q) ==
  [provider |-> p, requirement |-> q, tasks |-> FALSE, dups |-> [k \in Kinds |-> 0],
   related |-> FALSE, stale |-> FALSE, drift |-> "none", sync |-> "none",
   failures |-> 0, activity |-> 0]

Lower(a, b) == IF a < b THEN a ELSE b
Clamp(v, top) == IF v < 0 THEN 0 ELSE Lower(v, top)
Unit(v) == Clamp(v, 100)
One(b) == IF b THEN 1 ELSE 0
When(b, n) == IF b THEN n ELSE 0

-----------------------------------------------------------------------------
(* Evidence: the number of distinct lines                                  *)

EvidenceCount(x, k) ==
  CASE k = "implementation" ->
         x.requirement.lines + One(x.dups[k] > 0) + One(x.related) + x.activity
    [] k = "integration" ->
         x.requirement.lines + 1 + One(x.related) + One(x.sync # "none")
    [] k = "validation" ->
         x.requirement.lines + 1 + One(x.stale) + One(x.drift # "none")
           + One(x.sync # "none") + x.failures

-----------------------------------------------------------------------------
(* Factors                                                                 *)

SyncFailed(x) == x.sync = "failed"
Unstable(x) == SyncFailed(x) \/ x.failures > 0
Drifting(x) == x.drift = "high" \/ x.stale

RequirementUrgency(x) == Unit(58 + 12 * x.requirement.keywords)

\* What each provider starts from.  The candidates a model returns are
\* taken to be one of each kind, in the usual order; earlier ones get a bonus.
Base(x, k) ==
  LET u == RequirementUrgency(x) IN
  IF x.provider = "deterministic"
  THEN CASE k = "implementation" ->
              [impact |-> 92, urgency |-> u, unlock |-> 62, risk |-> 44, effort |-> 52,
               confidence |-> 73]
         [] k = "integration" ->
              [impact |-> 74, urgency |-> Unit(u - 4), unlock |-> 81, risk |-> 57,
               effort |-> 46, confidence |-> 68]
         [] k = "validation" ->
              [impact |-> 61, urgency |-> Unit(u - 8), unlock |-> 48, risk |-> 84,
               effort |-> 38, confidence |-> 65]
  ELSE CASE k = "implementation" ->
              [impact |-> 91, urgency |-> u, unlock |-> 60, risk |-> 46, effort |-> 54,
               confidence |-> 75]
         [] k = "integration" ->
              [impact |-> 78, urgency |-> Unit(u + 2), unlock |-> 79, risk |-> 57,
               effort |-> 48, confidence |-> 71]
         [] k = "validation" ->
              [impact |-> 64, urgency |-> Unit(u - 3), unlock |-> 46, risk |-> 76,
               effort |-> 39, confidence |-> 66]

\* What the deterministic provider makes of the situation.  Urgency is clamped
\* after every addition.
AdjustedByRules(x, k) ==
  LET alarmed == x.drift = "high" \/ Unstable(x)
      v1(v) == Unit(v + When(Unstable(x), 10))
      v2(v) == Unit(v1(v) + When(Drifting(x), 8))
      v3(v) == Unit(v2(v) + When(alarmed, 4))
  IN
  CASE k = "implementation" ->
         [Base(x, k) EXCEPT !.risk = @ + When(x.related, 6),
                            !.confidence = @ + When(x.related, 4)]
    [] k = "integration" ->
         [Base(x, k) EXCEPT !.urgency = Unit(@ + When(Unstable(x), 6)),
                            !.risk = @ + When(x.related, 5),
                            !.confidence = @ + When(x.related, 7) - When(SyncFailed(x), 2)]
    [] k = "validation" ->
         [Base(x, k) EXCEPT
            !.urgency = Unit(v3(@) + When(x.stale, 3)),
            !.risk = Unit(Unit(@ + When(alarmed, 14)) + When(x.stale, 5)),
            !.confidence = @ + When(x.stale \/ x.drift # "none", 10)
                             + When(SyncFailed(x), 8) + When(x.failures > 0, 6)]

\* ... and for the candidates of a model.
AdjustedForModel(x, k) ==
  CASE k = "implementation" ->
         [Base(x, k) EXCEPT !.risk = @ + When(x.related, 5),
                            !.confidence = @ + When(x.related, 4)]
    [] k = "integration" -> Base(x, k)
    [] k = "validation" ->
         [Base(x, k) EXCEPT
            !.urgency = Unit(Unit(@ + When(Unstable(x), 12)) + When(Drifting(x), 8)),
            !.risk = Unit(@ + When(Unstable(x), 12) + When(Drifting(x), 8)),
            !.confidence = Unit(@ + When(Unstable(x), 8) + When(Drifting(x), 6))]

\* Mutant: stale documents lower the urgency of the validation.
Adjusted_StaleLowers(x, k) ==
  [Base(x, k) EXCEPT !.urgency = Unit(@ - When(k = "validation" /\ x.stale, 20)),
                     !.confidence = @ + When(x.stale, 10)]

Adjusted(x, k) ==
  IF x.provider = "deterministic" THEN AdjustedByRules(x, k) ELSE AdjustedForModel(x, k)

DependencyUnlock(x, k) ==
  LET documents == IF k = "validation" THEN x.stale ELSE x.related
  IN  Unit(Base(x, k).unlock + When(x.tasks, 4) + When(documents, 6)
             - When(SyncFailed(x), 3))

DuplicatePenalty(n) == IF n = 0 THEN 0 ELSE Unit(10 + 3 * (n - 1))

-----------------------------------------------------------------------------
(* Scores                                                                  *)

\* In twentieths of a point: weights 30, 25, 20, 15, 10 and -15 percent.
WeightedScore(x, k) ==
  LET f == Adjusted(x, k) IN
  6 * f.impact + 5 * f.urgency + 4 * DependencyUnlock(x, k) + 3 * f.risk
    + 2 * Unit(f.confidence - DuplicatePenalty(x.dups[k])) - 3 * f.effort

\* A score halfway between two tenths goes either way: it is the sum of six
\* inexact products.
RoundTenth(v) == {v \div 2, (v + 1) \div 2}

\* Mutant: duplicates are only shown.
PriorityScore_Undiminished(x, k, seed) ==
  Clamp(seed + Lower(18 * EvidenceCount(x, k), 60), 1000)

PriorityScore(x, k, seed) ==
  Clamp(seed + Lower(18 * EvidenceCount(x, k), 60) - 65 * x.dups[k], 1000)

Confidence(x, k) ==
  Clamp(10 * Unit(Adjusted(x, k).confidence) + Lower(25 * EvidenceCount(x, k), 100)
          - 90 * x.dups[k], 1000)

\* By score, then by title.
Before(x, score, a, b) ==
  score[a] > score[b] \/ (score[a] = score[b] /\ x.requirement.title[a] < x.requirement.title[b])

Rank(x, score, k) == 1 + Cardinality({l \in Kinds : Before(x, score, l, k)})

PerKind(a, b, c) == [implementation |-> a, integration |-> b, validation |-> c]

\* What Generate may return.
Generated(x) ==
  LET confidence == PerKind(Confidence(x, "implementation"), Confidence(x, "integration"),
                            Confidence(x, "validation"))
  IN  {LET score == PerKind(PriorityScore(x, "implementation", seed["implementation"]),
                            PriorityScore(x, "integration", seed["integration"]),
                            PriorityScore(x, "validation", seed["validation"]))
       IN  [k \in Kinds |-> [seed |-> seed[k], priority |-> score[k],
                             confidence |-> confidence[k], rank |-> Rank(x, score, k)]] :
         seed \in {PerKind(a, b, c) :
                    a \in RoundTenth(WeightedScore(x, "implementation")),
                    b \in RoundTenth(WeightedScore(x, "integration")),
                    c \in RoundTenth(WeightedScore(x, "validation"))}}

-----------------------------------------------------------------------------
(* Something happens in the project, and a new run is made for the same    *)
(* requirement                                                             *)

RankingInit ==
  \E p \in RankingProviders, q \in RankedRequirements :
    situation = Quiet(p, q) /\ drafts \in Generated(Quiet(p, q))

\* What the sum of suggestion k is made from.
Inputs(x, k) == [x EXCEPT !.dups = x.dups[k]]

\* The same sum is rounded the same way again.
Becomes(x) ==
  /\ situation' = x
  /\ drafts' \in {d \in Generated(x) :
                  \A k \in Kinds : Inputs(x, k) = Inputs(situation, k)
                                     => d[k].seed = drafts[k].seed}

\* An open task has the title of suggestion k, in one more spelling.
DuplicateAppears(k) ==
  /\ situation.dups[k] < MaxDuplicates
  /\ situation.tasks
  /\ Becomes([situation EXCEPT !.dups[k] = @ + 1])

TasksOpen == ~ situation.tasks /\ Becomes([situation EXCEPT !.tasks = TRUE])

DocumentsMatch == Becomes([situation EXCEPT !.related = ~ @])

DocumentGoesStale ==
  ~ situation.stale /\ Becomes([situation EXCEPT !.stale = TRUE])

DriftOpens ==
  \/ situation.drift = "none" /\ Becomes([situation EXCEPT !.drift = "low"])
  \/ situation.drift # "high" /\ Becomes([situation EXCEPT !.drift = "high"])

SyncEnds(status) ==
  situation.sync # status /\ Becomes([situation EXCEPT !.sync = status])

\* The sample is cut to its size before equal lines are merged: one run that comes
\* or goes may add a line, push one out, or do neither.
Resampled(n, size) == {m \in 0 .. size : m <= n + 1 /\ n <= m + 1}

\* The context holds the newest few agent runs.
AgentRunStarts ==
  \/ situation.failures > 0 /\ Becomes([situation EXCEPT !.failures = @ - 1])
  \/ situation.activity > 0 /\ Becomes([situation EXCEPT !.activity = @ - 1])

\* A run of the context, or a run of the planner, which enters it only when it
\* ends; one that had completed is corrected in the same way.
AgentRunFails ==
  \E f \in Resampled(situation.failures, FailureSample) \ {0},
     a \in Resampled(situation.activity, ActivitySample) :
    Becomes([situation EXCEPT !.failures = f, !.activity = a])

AgentRunCompletes ==
  \E f \in Resampled(situation.failures, FailureSample),
     a \in Resampled(situation.activity, ActivitySample) \ {0} :
    Becomes([situation EXCEPT !.failures = f, !.activity = a])

\* Everything has been dealt with.
CleanUp == Becomes(Quiet(situation.provider, situation.requirement))

RankingNext ==
  \/ \E k \in Kinds : DuplicateAppears(k)
  \/ TasksOpen
  \/ DocumentsMatch
  \/ DocumentGoesStale
  \/ DriftOpens
  \/ \E status \in {"completed", "failed"} : SyncEnds(status)
  \/ AgentRunStarts
  \/ AgentRunFails
  \/ AgentRunCompletes
  \/ CleanUp

RankingSpec == RankingInit /\ [][RankingNext]_rankingVars

-----------------------------------------------------------------------------
\* "Exact-title overlap with open work reduced ranking confidence": although the
\* overlap is a line of evidence, which is worth points, a further duplicate
\* never lets a suggestion climb or keep its confidence.
DuplicatesNeverHelp ==
  [][\A k \in Kinds :
       situation' = [situation EXCEPT !.dups[k] = @ + 1]
         => /\ drafts'[k].rank >= drafts[k].rank
            /\ drafts'[k].priority < drafts[k].priority \/ drafts'[k].priority = 0
            /\ drafts'[k].confidence < drafts[k].confidence \/ drafts'[k].confidence = 0]_rankingVars

\* A situation that differs by one thing for the worse.
Trouble(x, y) ==
  \/ y = [x EXCEPT !.stale = TRUE]
  \/ y = [x EXCEPT !.drift = y.drift] /\ (x.drift = "none" \/ y.drift = "high")
  \/ y = [x EXCEPT !.sync = "failed"]
  \/ y = [x EXCEPT !.failures = y.failures] /\ y.failures > 0

\* A failure like the one before it pushes another out of the sample: one line of
\* evidence fewer.
LosesLine(x, y) == y.failures < x.failures

\* "Recent agent failures increase the value of validation", "Stale documentation
\* increases validation and reconciliation priority": stale documents, drift,
\* failed scans and failed runs never lower the deterministic provider's score of
\* the validation (by more than the tenth of a rounding), however the caps and
\* the opposite effects of a failed scan combine.  A repeated failure may: it costs
\* the points of the one line it pushes out, and no more.  (For the candidates of a
\* model a failed scan on top of a failed run costs it six tenths.)
TroubleRaisesValidation ==
  [][situation.provider = "deterministic" /\ situation # situation'
        /\ Trouble(situation, situation')
       => LET line(points) == When(LosesLine(situation, situation'), points) IN
          /\ drafts'["validation"].priority + 1 + line(18) >= drafts["validation"].priority
          /\ drafts'["validation"].confidence + line(25) >= drafts["validation"].confidence]_rankingVars
=============================================================================
