---------------------------- MODULE TrajectoryData ----------------------------
(***************************************************************************)
(* Which rows of the published datasets become conversations to audit:     *)
(* normalize_datasets of scripts/experiments/trajectory_data.py.  Training *)
(* rows repeat a conversation up to some turn, each time with new call     *)
(* ids; one row per conversation is enough, unless they branch.            *)
(* The rows of one dialogue, or of one task and trial, are read one by one.*)
(***************************************************************************)
EXTENDS Naturals, Sequences, SequencesExt

CONSTANTS
  Turns,         \* what a message says and asks for, without its call id
  CallIds,       \* ids, generated anew for each row
  MaxTurns, MaxRows   \* bounds: messages of a row, rows

Rows == [turns : UNION {[1..n -> Turns] : n \in 0..MaxTurns}, ids : CallIds]

VARIABLES
  rollout,       \* the full rollout of the task and trial, if the first file has one
  branches,      \* of a dialogue: the rows kept
  additional,    \* rows kept besides the full rollout
  rows           \* history variable: the training rows read

dataVars == <<rollout, branches, additional, rows>>

\* signature compares messages without their ids.
Signature_WithIds(row) == [i \in DOMAIN row.turns |-> <<row.turns[i], row.ids>>]
Signature(row) == row.turns

Covers(longer, row) == IsPrefix(Signature(row), Signature(longer))

\* A dialogue of the second dataset: a later, longer row replaces those it contains.
Kept(row) ==
  IF \E b \in branches : Covers(b, row) THEN branches
  ELSE {b \in branches : ~Covers(row, b)} \cup {row}

\* A task and trial of the first: the rollout covers its training rows.
Added(row) ==
  IF rollout # << >> /\ Covers(rollout[1], row) THEN additional ELSE Append(additional, row)

ReadRow ==
  /\ Len(rows) < MaxRows
  /\ \E row \in Rows :
       /\ rows' = Append(rows, row)
       /\ branches' = Kept(row)
       /\ additional' = Added(row)
  /\ UNCHANGED rollout

DataInit ==
  /\ rollout \in {<< >>} \cup {<<row>> : row \in Rows}
  /\ branches = {} /\ additional = << >> /\ rows = << >>

DataSpec == DataInit /\ [][ReadRow]_dataVars

\* Whatever the ids: one conversation is the beginning of the other.
Begins(row, longer) == IsPrefix(row.turns, longer.turns)

\* No training row is dropped: each is the beginning of a conversation that is kept,
\* branches of a dialogue included.  In whatever order a dialogue's rows come, each of
\* its longest conversations is kept once.  Branches still share their beginnings, and
\* the rows kept besides a rollout are appended even if one begins another, so calls
\* may be replayed more than once (trajectory_data.py:82-93, 164-189, 195-237).
LongestRowsAreKept ==
  /\ \A i \in DOMAIN rows :
       /\ \E b \in branches : Begins(rows[i], b)
       /\ \E k \in DOMAIN (rollout \o additional) : Begins(rows[i], (rollout \o additional)[k])
  /\ \A b, c \in branches : Begins(b, c) => b = c
===============================================================================
