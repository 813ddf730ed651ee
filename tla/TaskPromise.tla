----------------------------- MODULE TaskPromise -----------------------------
(***************************************************************************)
(* What the A2A client promises about remote work, without coroutines,     *)
(* frames or a journal: a call is dispatched at most once and settled at   *)
(* most once; at most one send per lane, a peer and a resource, is         *)
(* unsettled; no message is sent twice, whatever became of the first; a    *)
(* task that has ended stays as it ended; an answered call is not          *)
(* reconciled.                                                             *)
(***************************************************************************)
CONSTANTS Calls, Tasks, Lanes, Messages, Phases, Final, NoPhase, None

VARIABLES
  calls,         \* "new", "open", "answered", "uncertain" or "reconciled"
  lane,          \* the lane a send took
  sent,          \* the messages that were dispatched
  phase          \* the last phase reported of a task

vars == <<calls, lane, sent, phase>>

Init ==
  /\ calls = [c \in Calls |-> "new"]
  /\ lane = [c \in Calls |-> None]
  /\ sent = {}
  /\ phase = [t \in Tasks |-> NoPhase]

Busy(l) == \E c \in Calls : lane[c] = l /\ calls[c] \in {"open", "uncertain"}

\* Only sends take a lane and carry a message.
Dispatch(c) ==
  /\ calls[c] = "new"
  /\ calls' = [calls EXCEPT ![c] = "open"]
  /\ \/ UNCHANGED <<lane, sent>>
     \/ \E l \in Lanes, m \in Messages \ sent :
          /\ ~Busy(l)
          /\ lane' = [lane EXCEPT ![c] = l]
          /\ sent' = sent \cup {m}
  /\ UNCHANGED phase

Reported ==
  \E t \in Tasks, p \in Phases :
    /\ phase[t] \notin Final \/ phase[t] = p
    /\ phase' = [phase EXCEPT ![t] = p]

Report == Reported /\ (\E c \in Calls : calls[c] # "new") /\ UNCHANGED <<calls, lane, sent>>

Settle(c) ==
  /\ calls[c] = "open"
  /\ \E how \in {"answered", "uncertain"} : calls' = [calls EXCEPT ![c] = how]
  /\ UNCHANGED <<lane, sent, phase>>

Reconcile(c) ==
  /\ calls[c] \in {"open", "uncertain"}
  /\ calls' = [calls EXCEPT ![c] = "reconciled"]
  /\ Reported \/ UNCHANGED phase
  /\ UNCHANGED <<lane, sent>>

Next ==
  \/ \E c \in Calls : Dispatch(c) \/ Settle(c) \/ Reconcile(c)
  \/ Report

Spec == Init /\ [][Next]_vars
===============================================================================
