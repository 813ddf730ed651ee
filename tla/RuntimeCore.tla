----------------------------- MODULE RuntimeCore ------------------------------
(***************************************************************************)
(* The command handler of LeanGuard/RuntimeCore.lean (handleWith), for the *)
(* commands a single-agent host sends: admit and observe.  A command is an *)
(* entry whose allow field is FALSE; Answer fills the field in, and the    *)
(* engine's next history is Append(h, Answer(h, e)) when Accepts(h, e).    *)
(* The engine's version is Len(h): each accepted command adds one.         *)
(***************************************************************************)
EXTENDS Policy

Commands == {e \in Entries : ~e.allow}

\* validateEvent: identities are never empty here, and time never goes back.
ValidEvent(h, e) == h # << >> => h[Len(h)].time <= e.time

\* validateOutcome: an outcome names a dispatch, repeats its fields, and is
\* the first outcome recorded for it.
MatchesDispatch(d, e) ==
  /\ d.session = e.session
  /\ d.call = e.call
  /\ d.binding = e.binding

ValidOutcome(h, e) ==
  /\ \E i \in DOMAIN h :
       IsDispatch(h[i]) /\ h[i].id = e.id /\ MatchesDispatch(h[i], e)
  /\ \A j \in DOMAIN h : ~(h[j].id = e.id /\ h[j].kind \in OutcomeKinds)

\* Ids of trusted observations are fresh UUIDs, represented by NoId.
UnusedId_NoCheck(h, e) == TRUE
UnusedId(h, e) == e.id # NoId /\ \A j \in DOMAIN h : h[j].id # e.id

Accepts(h, e) ==
  /\ ValidEvent(h, e)
  /\ \/ e.kind \in OutcomeKinds /\ ValidOutcome(h, e)
     \/ e.kind \in TrustedKinds /\ e.id = NoId
     \/ e.kind = "admit" /\ UnusedId(h, e)

\* reserve: the dispatch is recorded with the decision that allows it.
Answer(h, e) == [e EXCEPT !.allow = (e.kind = "admit" /\ Decide(h, e))]

\* What a replay of a stored sequence of entries must find: the handler
\* accepts every stored command again and gives the stored answer.
Replays(j) ==
  \A i \in DOMAIN j :
    LET prefix == SubSeq(j, 1, i - 1)
        command == [j[i] EXCEPT !.allow = FALSE]
    IN  Accepts(prefix, command) /\ Answer(prefix, command) = j[i]
===============================================================================
