------------------------------- MODULE Monitor --------------------------------
(***************************************************************************)
(* What a guarded journal promises, without saying how: a sequential       *)
(* reference monitor.  It has a journal of answered commands and the list  *)
(* of tool invocations made so far.  A step either appends the answer to   *)
(* one accepted command, or runs the tool of the dispatch that was         *)
(* recorded last.  GuardHost implements this specification.                *)
(***************************************************************************)
EXTENDS RuntimeCore

CONSTANT Times    \* clock readings

ASSUME MonitorAssumption == Times \subseteq Nat

VARIABLES
  journal,      \* the answered commands, oldest first
  ran           \* the tool invocations, oldest first

vars == <<journal, ran>>

\* A tool invocation, with the position of the dispatch it was made for.
Runs == [at: Nat, id: Ids, call: Calls, binding: Tokens \cup {NoToken}]

RunOf(i) ==
  [at |-> i, id |-> journal[i].id, call |-> journal[i].call, binding |-> journal[i].binding]

HasRun(id) == \E k \in DOMAIN ran : ran[k].id = id

Init == journal = << >> /\ ran = << >>

\* An outcome is only ever reported for a tool that was invoked.
Reported(e) == e.kind \in OutcomeKinds => HasRun(e.id)

\* The stored row: the command, and the engine's answer to it.
Row(e) == Answer(journal, e)

Record(e) ==
  /\ Accepts(journal, e)
  /\ Reported(e)
  /\ journal' = Append(journal, Row(e))
  /\ UNCHANGED ran

\* The tool runs right after its dispatch is recorded, and once for it.
MayRun(i) ==
  i = Len(journal) /\ IsDispatch(journal[i]) /\ \A k \in DOMAIN ran : ran[k].at # i

Run ==
  /\ \E i \in DOMAIN journal : MayRun(i) /\ ran' = Append(ran, RunOf(i))
  /\ UNCHANGED journal

Admissions ==
  [kind: {"admit"}, id: Ids, session: Sessions, call: Calls,
   binding: Tokens \cup {NoToken}, time: Times, allow: {FALSE}]

Observations ==
  [kind: TrustedKinds, id: {NoId}, session: Sessions, call: Subjects,
   binding: Tokens \cup {NoToken}, time: Times, allow: {FALSE}]

\* The report of what became of a dispatch.
Outcome(d, k, t) == [d EXCEPT !.kind = k, !.time = t, !.allow = FALSE]

Next ==
  \/ \E e \in Admissions : Record(e)
  \/ \E e \in Observations : Record(e)
  \/ \E i \in DOMAIN journal, k \in OutcomeKinds, t \in Times :
       IsDispatch(journal[i]) /\ Record(Outcome(journal[i], k, t))
  \/ Run

Spec == Init /\ [][Next]_vars

-------------------------------------------------------------------------------
\* Invariants

TypeOK == journal \in Seq(Entries) /\ ran \in Seq(Runs)

\* Every tool invocation was admitted, with the same arguments and the same
\* approval, by an entry already in the journal.  This holds by the shape of Run
\* and is a part of the inductive invariant; that a host admits and commits
\* (host.py:387-397) before it runs the tool (host.py:399) is what
\* GuardHost!RefinesMonitor says.
EffectsAreReserved ==
  \A k \in DOMAIN ran :
    LET i == ran[k].at
    IN  i \in DOMAIN journal /\ IsDispatch(journal[i]) /\ ran[k] = RunOf(i)

\* A request id reaches the tool at most once, however often it is retried:
\* the engine refuses a request id it has seen (RuntimeCore.lean:178).
RunOnce == \A k, m \in DOMAIN ran : ran[k].id = ran[m].id => k = m

\* An approval is spent by one dispatch, whatever became of the call: no write
\* is dispatched on an approval that an earlier dispatch of its conversation
\* carries (Policy.lean:82-88).
ApprovalSpentOnce ==
  \A i, j \in DOMAIN journal :
    /\ IsDispatch(journal[i]) /\ IsDispatch(journal[j])
    /\ journal[j].call.action = "write"
    /\ journal[i].session = journal[j].session
    /\ journal[i].binding = journal[j].binding
    => j <= i

\* Every dispatched write was confirmed for its action and resource, in its
\* conversation, and the user's last word on that proposal was yes.
LastWordWasYes ==
  \A i \in DOMAIN journal :
    IsDispatch(journal[i]) /\ journal[i].call.action = "write" =>
      \E c \in 1..(i - 1) :
        /\ ConfirmedEvent(journal[i], journal[c])
        /\ \A m \in (c + 1)..(i - 1) : ~RevokedEvent(journal[i], journal[m])

\* Between two dispatches of one conversation or one resource, the first was
\* settled by a success or a failure; an unknown outcome, or none because the
\* process died, blocks every follow-up (Policy.lean:117-121).
OneInFlight ==
  \A i, j \in DOMAIN journal :
    /\ i < j
    /\ IsDispatch(journal[i]) /\ IsDispatch(journal[j])
    /\ SameConversation(journal[i], journal[j]) \/ SameResource(journal[i], journal[j])
    => \E m \in (i + 1)..(j - 1) :
         journal[m].id = journal[i].id /\ journal[m].kind \in {"success", "failure"}

\* At most one outcome is recorded for a dispatch, so a late or repeated
\* report never overwrites what was known (RuntimeCore.lean:65-66).
OneOutcome ==
  \A i, j \in DOMAIN journal :
    /\ journal[i].kind \in OutcomeKinds /\ journal[j].kind \in OutcomeKinds
    /\ journal[i].id = journal[j].id
    => i = j

\* The journal never reports the outcome of a tool that was not invoked.
OutcomesWereRun ==
  \A i \in DOMAIN journal : journal[i].kind \in OutcomeKinds => HasRun(journal[i].id)

\* Tools are invoked in the order in which their calls were admitted.
RunsFollowJournal == \A k, m \in DOMAIN ran : k < m => ran[k].at < ran[m].at

\* Whatever window of QuotaWindow seconds one looks at, the writes dispatched
\* in it respect both limits (Policy.lean:108-115; the check itself only looks
\* back from each admission).
WritesWithin(a) ==
  {i \in DOMAIN journal : /\ IsDispatch(journal[i])
                          /\ journal[i].call.action = "write"
                          /\ journal[i].time \in a..(a + QuotaWindow)}

QuotaHoldsInEveryWindow ==
  \A a \in {journal[i].time : i \in DOMAIN journal} :
    /\ Cardinality(WritesWithin(a)) <= QuotaCalls
    /\ TotalAmount(journal, WritesWithin(a)) <= QuotaAmount

\* Entry times never decrease, so `at or before in the journal` and `not later
\* on the clock` agree (RuntimeCore.lean:53).
TimeMovesForward ==
  \A i, j \in DOMAIN journal : i < j => journal[i].time <= journal[j].time

\* The answer to a command depends on the entries before it and on nothing else,
\* so the journal replays.  This holds of the monitor by the shape of Row and is
\* a part of its inductive invariant; what a host has to do for it, with an engine
\* that dies and is brought up again, is GuardHost!RestartsFindTheJournal.
JournalReplays == Replays(journal)
===============================================================================
