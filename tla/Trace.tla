--------------------------------- MODULE Trace ---------------------------------
(***************************************************************************)
(* The trace a host exports and its audit.  GuardHost.events rebuilds the  *)
(* engine's events from the journal's rows; replay.py judges each request  *)
(* of such a trace again, from the events before it, through the engine's  *)
(* audit command.  Nothing of the live engine's state takes part in that.  *)
(***************************************************************************)
EXTENDS Monitor, SequencesExt

EventKinds == {"request", "dispatch"} \cup OutcomeKinds \cup TrustedKinds

Event(e, kind) ==
  [kind |-> kind, id |-> e.id, session |-> e.session, call |-> e.call,
   binding |-> e.binding, time |-> e.time]

\* A row of the journal is a command and its response: an admission gives the
\* request and, if it was allowed, the dispatch.
EventsOf_DispatchFirst(e) ==
  IF e.kind # "admit" THEN <<Event(e, e.kind)>>
  ELSE IF e.allow THEN <<Event(e, "dispatch"), Event(e, "request")>>
  ELSE <<Event(e, "request")>>

EventsOf(e) ==
  IF e.kind # "admit" THEN <<Event(e, e.kind)>>
  ELSE IF e.allow THEN <<Event(e, "request"), Event(e, "dispatch")>>
  ELSE <<Event(e, "request")>>

\* events: an outcome takes the facts of its dispatch, which must be there.
Readable(j) ==
  \A i \in DOMAIN j : j[i].kind \in OutcomeKinds =>
    \E k \in 1..(i - 1) : IsDispatch(j[k]) /\ j[k].id = j[i].id

HostEvents(j) == FlattenSeq([i \in DOMAIN j |-> EventsOf(j[i])])

\* _validate and audit: what the engine is given must be a trace in its order.
Auditable(trace) ==
  /\ \A i \in DOMAIN trace : trace[i].kind \in EventKinds
  /\ \A i \in 1..(Len(trace) - 1) : trace[i].time <= trace[i + 1].time

\* The policy reads a history of entries; a request and a dispatch event count as
\* one each.
EntryOf(event) ==
  [kind |-> IF event.kind \in {"request", "dispatch"} THEN "admit" ELSE event.kind,
   id |-> event.id, session |-> event.session, call |-> event.call,
   binding |-> event.binding, time |-> event.time, allow |-> event.kind = "dispatch"]

\* The audit command of RuntimeCore.lean: the policy alone, over the given events.
Audited(trace, i) ==
  Decide([k \in 1..(i - 1) |-> EntryOf(trace[k])], EntryOf(trace[i]))

\* replay: an audit for each request.
Requests(trace) == {i \in DOMAIN trace : trace[i].kind = "request"}

\* The live decision.
Dispatched(id) == \E k \in DOMAIN journal : IsDispatch(journal[k]) /\ journal[k].id = id

\* The exported trace tells the whole story: it can always be read and audited, and
\* auditing it finds for every request what the live engine decided, though the
\* engine judged from its memory and a rebuilt one from the journal
\* (host.py:168-215, replay.py:49-133, RuntimeCore.lean:84-101).
AuditFindsLiveDecisions ==
  LET trace == HostEvents(journal)
  IN  /\ Readable(journal)
      /\ Auditable(trace)
      /\ \A i \in Requests(trace) : Audited(trace, i) <=> Dispatched(trace[i].id)
===============================================================================
