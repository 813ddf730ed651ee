------------------------------ MODULE MCMonitor -------------------------------
(***************************************************************************)
(* Small instances of Trace for TLC.  The commands are those the host can  *)
(* send: an approval or a refusal is about a proposed write, a read comes  *)
(* without a proposal, and the other observations carry no binding.        *)
(*                                                                         *)
(* One run checks several instances: the initial state picks one, and its  *)
(* record bounds the journal.  The bound on tokens counts those in use,    *)
(* which keeps them interchangeable.                                       *)
(***************************************************************************)
EXTENDS Trace, TLC

CONSTANTS s1, r1

VARIABLE instance

Instance(kinds, sessions, resources, tokens, times, length) ==
  [kinds |-> kinds, sessions |-> sessions, resources |-> resources, tokens |-> tokens,
   times |-> times, length |-> length]

\* Every order of reads, writes, approvals, refusals and outcomes.
Approval == Instance({"confirmed", "revoked", "success", "failure", "unknown"},
                     {s1}, {r1}, 1, {0}, 7)

\* Two conversations and two resources.
Flights == Instance({"identity", "success", "failure", "unknown"}, Sessions, Resources, 0, {0}, 5)

\* Confirmed writes around the edges of the quota's window, and a clock that is
\* free to jump back: nothing is asked for without need.
Quotas == Instance({"confirmed", "success"}, {s1}, {r1}, 2, {0, 2, 3}, 7)

Used(e) == ({journal[i].binding : i \in DOMAIN journal} \cup {e.binding}) \ {NoToken}

\* A token is approved once, a write comes after its approval, a read first.
Needed(e) ==
  CASE e.kind = "confirmed" -> e.binding \notin {journal[i].binding : i \in DOMAIN journal}
    [] e.kind = "admit" /\ e.call.action = "write" ->
         \E i \in DOMAIN journal : journal[i].kind = "confirmed" /\ journal[i].binding = e.binding
    [] e.kind = "admit" /\ e.call.action # "write" -> journal = << >>
    [] OTHER -> TRUE

Fits(e) ==
  /\ Len(journal) < instance.length
  /\ e.time \in instance.times
  /\ e.session \in instance.sessions
  /\ e.call.resource \in instance.resources
  /\ Cardinality(Used(e)) <= instance.tokens
  /\ instance = Quotas => Needed(e)

MCAdmissions ==
  {e \in Admissions : (e.call.action = "read") <=> (e.binding = NoToken)}

MCObservations ==
  {e \in Observations :
     IF e.kind \in {"confirmed", "revoked"}
       THEN e.binding # NoToken /\ e.call.action = "write"
       ELSE e.binding = NoToken /\ e.call.action = "user"}

MCInit == Init /\ instance \in {Approval, Flights, Quotas}

MCNext ==
  /\ UNCHANGED instance
  /\ \/ \E e \in MCAdmissions : Fits(e) /\ Record(e)
     \/ \E e \in MCObservations : e.kind \in instance.kinds /\ Fits(e) /\ Record(e)
     \/ \E i \in DOMAIN journal, k \in OutcomeKinds, t \in Times :
          /\ k \in instance.kinds /\ IsDispatch(journal[i])
          /\ LET e == Outcome(journal[i], k, t) IN Fits(e) /\ Record(e)
     \/ Run

MCSpec == MCInit /\ [][MCNext]_<<vars, instance>>

Symmetry == Permutations(Ids) \cup Permutations(Tokens)
===============================================================================
