----------------------------- MODULE MCExperiment -----------------------------
(***************************************************************************)
(* Small instances of SavedRuns for TLC.  One run  checks several: the     *)
(* initial state picks one, and its record bounds, per job, the            *)
(* generations, and whether the first job proposes writes.                 *)
(***************************************************************************)
EXTENDS SavedRuns

VARIABLE instance

OneArmEach == <<"guarded", "baseline", "guarded">>

\* Three episodes around a halt.
Batch == [turns |-> <<1, 1, 1>>, write |-> FALSE]

\* A long guarded episode, next to one that can cause the halt.
Episode == [turns |-> <<2, 0, 0>>, write |-> TRUE]

Within ==
  \A j \in Jobs :
    /\ episode[j].pc \in {"generating", "replying"} => episode[j].turns < instance.turns[j]
    /\ episode[j].write => instance.write

MCInit == Init /\ instance \in {Batch, Episode}
MCNext == UNCHANGED instance /\ Next /\ Within'
MCSpec == MCInit /\ [][MCNext]_<<vars, instance>>
===============================================================================
