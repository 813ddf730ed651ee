----------------------------- MODULE MCDelegation -----------------------------
(***************************************************************************)
(* Small instances of Delegation for TLC, which one run checks: the        *)
(* initial state picks one.                                                *)
(***************************************************************************)
EXTENDS Delegation

CONSTANTS a1, a2, t1, t2

VARIABLE instance

Limit(scope, calls, amount, expires, depth) ==
  [scope |-> scope, calls |-> calls, amount |-> amount, expires |-> expires,
   depth |-> depth]

\* Any of them may be a root.  The second runs out of amount before it runs out
\* of calls, the third the other way around, and it expires first.
NestedOffers == {Limit({t1, t2}, 2, 2, 1, 2), Limit({t1}, 2, 1, 1, 1), Limit({t1}, 1, 2, 0, 0)}

\* Siblings spend one budget.
Budgets == [actors |-> {a1}, targets |-> {t1}, times |-> {0}, grants |-> 3, commands |-> 7,
            faults |-> 0, plain |-> FALSE]

\* Chains of grants are issued, used, revoked and expire.
Lifecycle == [actors |-> {a1, a2}, targets |-> {t1, t2}, times |-> {0, 1}, grants |-> 3,
              commands |-> 6, faults |-> 0, plain |-> FALSE]

\* Crashes, failures, and a plain host on the same journal.
Restarts == [actors |-> {a1}, targets |-> {t1, t2}, times |-> {0}, grants |-> 2,
             commands |-> 5, faults |-> 2, plain |-> TRUE]

FitsInstance(e) ==
  /\ e.body = NoBody \/ e.body.actor \in instance.actors
  /\ e.target \in instance.targets \cup {NoTarget}
  /\ e.time \in instance.times
  /\ e.kind \in {"admit", "user_action"} => instance.plain \/ e.actor # NoActor

Within ==
  /\ faults <= instance.faults
  /\ journal # << >> => FitsInstance(journal[Len(journal)])
  /\ Cardinality(Issued(ledger)) <= instance.grants
  /\ host = "plain" => instance.plain

MCInit == Init /\ instance \in {Budgets, Lifecycle, Restarts}

MCNext ==
  /\ UNCHANGED instance
  /\ Silently \/ (commands < instance.commands /\ Recording)
  /\ Within'

MCSpec == MCInit /\ [][MCNext]_<<vars, instance>>
===============================================================================
