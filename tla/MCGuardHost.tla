----------------------------- MODULE MCGuardHost ------------------------------
(***************************************************************************)
(* Small instances of GuardHost for TLC.                                   *)
(***************************************************************************)
EXTENDS GuardHost, TLC

CONSTANTS h1, c1, c2

OneHost == [c \in Callers |-> h1]   \* threads of one host
===============================================================================
