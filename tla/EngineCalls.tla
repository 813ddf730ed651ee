------------------------------ MODULE EngineCalls ------------------------------
(***************************************************************************)
(* What a host may assume of its engine: an object that answers one        *)
(* request at a time, in order, from the state its earlier answers left,   *)
(* until it is lost for good.                                              *)
(***************************************************************************)
EXTENDS Naturals, Sequences, FiniteSets

CONSTANTS Commands, Mutating

VARIABLES
  answers,       \* the answered commands with the version each answer gave
  lost           \* the engine answers no more

vars == <<answers, lost>>

Count(s) == Cardinality({i \in DOMAIN s : s[i].command \in Mutating})

Init == answers = << >> /\ lost = FALSE

Answer ==
  /\ ~lost
  /\ \E c \in Commands :
       answers' = Append(answers, [command |-> c,
                    version |-> Count(answers) + (IF c \in Mutating THEN 1 ELSE 0)])
  /\ UNCHANGED lost

Lose == ~lost /\ lost' = TRUE /\ UNCHANGED answers

Next == Answer \/ Lose

Spec == Init /\ [][Next]_vars
===============================================================================
