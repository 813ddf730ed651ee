------------------------------- MODULE RunPlan -------------------------------
(***************************************************************************)
(* The plan of a benchmark: how many tasks each domain contributes, and    *)
(* the order in which episodes are planned, once by the runner, main of    *)
(* benchmark.py, and once by score_saved.py, which reads the manifest and  *)
(* refuses it when the digests of the two orders differ.                   *)
(* Domains and arms are numbered in their order; a task is its index.      *)
(***************************************************************************)
EXTENDS Naturals, Sequences, FiniteSets, SequencesExt

Total(s) == SumFunctionOnSet(s, DOMAIN s)

\* select_tasks with total_tasks: the floor of each share, and one more for the
\* largest remainders; sorted is stable.
Allocation(sizes, total) ==
  LET available == Total(sizes)
      share == [d \in DOMAIN sizes |-> (total * sizes[d]) \div available]
      left == [d \in DOMAIN sizes |-> (total * sizes[d]) % available]
      before(d) == {c \in DOMAIN sizes : left[c] > left[d] \/ (left[c] = left[d] /\ c < d)}
      extra == total - Total(share)
  IN  [d \in DOMAIN sizes |-> share[d] + IF Cardinality(before(d)) < extra THEN 1 ELSE 0]

PlannedEpisode(d, i, a) == [domain |-> d, index |-> i, arm |-> a]

\* Jobs are listed domain by domain, then sorted by index and domain.
Listed(counts, arms) ==
  FlattenSeq([d \in DOMAIN counts |->
    FlattenSeq([i \in 1..counts[d] |-> [a \in 1..arms |-> PlannedEpisode(d, i, a)]])])

MaxCount(counts) == CHOOSE n \in {0} \cup {counts[d] : d \in DOMAIN counts} :
                      \A d \in DOMAIN counts : counts[d] <= n

\* The jobs of one index and one domain, in their order.
Having(jobs, i, d) ==
  FlattenSeq([k \in DOMAIN jobs |->
    IF jobs[k].index = i /\ jobs[k].domain = d THEN <<jobs[k]>> ELSE << >>])

ByIndexAndDomain(jobs, counts) ==
  FlattenSeq([i \in 1..MaxCount(counts) |->
    FlattenSeq([d \in DOMAIN counts |-> Having(jobs, i, d)])])

Planned(counts, arms) == ByIndexAndDomain(Listed(counts, arms), counts)

\* expected_episodes.
Expected(counts, arms) ==
  FlattenSeq([i \in 1..MaxCount(counts) |->
    FlattenSeq([d \in DOMAIN counts |->
      IF i <= counts[d] THEN [a \in 1..arms |-> PlannedEpisode(d, i, a)] ELSE << >>])])
===============================================================================
