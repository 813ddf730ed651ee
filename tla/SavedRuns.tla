------------------------------ MODULE SavedRuns ------------------------------
(***************************************************************************)
(* What score_saved.py makes of the files a batch left behind: it replays  *)
(* the native journal of every guarded episode, evaluates the saved        *)
(* trajectory again, and accounts for every planned episode.  It runs      *)
(* after the batch has returned and its report has been written, over      *)
(* files nobody changes any more, with the policy binary of the run.       *)
(* The upstream evaluator is external: its reward is a function of the     *)
(* kept calls, and nothing for an episode that ended prematurely.          *)
(***************************************************************************)
EXTENDS Experiment, RunPlan

\* report.json and the result.json files.
InReport == {results[i] : i \in DOMAIN results}
ResultFiles == {j \in Jobs : At(j, "done")}
Unstarted == Len(Modes) - Len(results)

HasError(j) == episode[j].error # "none"

\* aggregate: an episode with a score, and one without, of an arm.
ScoredOf(arm) == {j \in InReport : Modes[j] = arm /\ episode[j].scored}

\* replay_journal: a baseline has none; a guarded episode that failed early may have
\* none; a journal must name this binary, which one without identity does not.
NativeReplay(j) ==
  IF Modes[j] = "baseline" THEN "baseline_unenforced"
  ELSE CASE episode[j].journal = "none"     -> IF HasError(j)
                                               THEN "unavailable_after_episode_error"
                                               ELSE "refused"
         [] episode[j].journal = "unpinned" -> "refused"
         [] OTHER                           -> "all_responses_match"

\* score_episode: what the row's reward rests on.
InvalidLiveScore_Credited(j) == FALSE
InvalidLiveScore(j) == HasError(j) /\ ~episode[j].scored

ScoringSource(j) ==
  CASE episode[j].trajectory = "none" -> IF HasError(j) THEN "premature_termination" ELSE "refused"
    [] episode[j].trajectory = "torn" -> "refused"
    [] OTHER -> IF InvalidLiveScore(j) THEN "invalid_live_scoring_zero" ELSE "saved_trajectory"

Refused(j) == NativeReplay(j) = "refused" \/ ScoringSource(j) = "refused"

\* Rows whose reward is the evaluator's; the reward of all others is 0.
Credited(j) == ScoringSource(j) = "saved_trajectory"

\* score_directory: the report against the manifest and the files.
Accounts ==
  /\ Len(results) = Cardinality(InReport)
  /\ InReport \subseteq Jobs
  /\ Len(Modes) - Cardinality(InReport) = Unstarted
  /\ ResultFiles = InReport

CreditedOf(arm) == {j \in InReport : Modes[j] = arm /\ Credited(j)}

-------------------------------------------------------------------------------
\* Bounds of the plans compared: domains, their sizes, arms.
Sizes == UNION {[1..n -> 1..4] : n \in 1..3}
Counts == UNION {[1..n -> 0..3] : n \in 1..3}

\* Every allocation gives each domain what it has, and the total asked for; the
\* scorer plans the episodes in the order of the runner.
PlansAgree ==
  /\ \A sizes \in Sizes : \A total \in 1..Total(sizes) :
       LET counts == Allocation(sizes, total)
       IN  /\ Total(counts) = total
           /\ \A d \in DOMAIN sizes : counts[d] \in 0..sizes[d]
  /\ \A counts \in Counts, arms \in 1..2 : Planned(counts, arms) = Expected(counts, arms)

\* Scoring the saved files of a batch that returned agrees with what ran: the plans
\* match, every planned episode is accounted for, and the scorer is stopped only by
\* a file some failure left half written.  An episode counts in the saved scores
\* exactly if it was scored live, so that what is evaluated again is what ran
\* (score_saved.py:52-234, benchmark.py:71-89, 735-743, 901-927).
SavedScoresAreLive ==
  coordinator = "returned" =>
    /\ PlansAgree
    /\ Accounts
    /\ \A j \in InReport :
         Refused(j) => \/ episode[j].journal = "unpinned"
                       \/ episode[j].trajectory = "torn"
    /\ \A j \in InReport : Credited(j) => Kept(episode[j]) = Ran(episode[j])
    /\ \A arm \in {"baseline", "guarded"} :
         (\A j \in InReport : ~Refused(j)) => CreditedOf(arm) = ScoredOf(arm)
===============================================================================
