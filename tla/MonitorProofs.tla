---------------------------- MODULE MonitorProofs -----------------------------
(***************************************************************************)
(* What the reference monitor guarantees for every number of conversations, *)
(* resources, request ids and proposals, every limit of the quota and       *)
(* journals of every length.                                                *)
(*                                                                          *)
(* Each invariant is shown to hold after Record and after Run.  The lemmas  *)
(* of the first section reduce Next to these two and say what an appended   *)
(* entry leaves of the older ones.                                          *)
(***************************************************************************)
EXTENDS Trace, DataLemmas, SequenceTheorems

-------------------------------------------------------------------------------
\* Appending

\* An appended element comes last and moves nothing.
LEMMA AppendElements ==
  ASSUME NEW S, NEW s \in Seq(S), NEW x \in S
  PROVE  /\ Append(s, x) \in Seq(S)
         /\ DOMAIN s = 1..Len(s)
         /\ DOMAIN Append(s, x) = 1..(Len(s) + 1)
         /\ Len(s) \in Nat /\ Len(Append(s, x)) = Len(s) + 1
         /\ \A i \in DOMAIN s : Append(s, x)[i] = s[i] /\ i # Len(s) + 1
         /\ Append(s, x)[Len(s) + 1] = x
BY AppendProperties, LenProperties

\* Commands and entries differ in the answer only.
LEMMA AnswerKeepsCommand ==
  ASSUME NEW h, NEW e \in Commands
  PROVE  /\ Answer(h, e) \in Entries
         /\ Answer(h, e).kind = e.kind /\ Answer(h, e).id = e.id
         /\ Answer(h, e).session = e.session /\ Answer(h, e).call = e.call
         /\ Answer(h, e).binding = e.binding /\ Answer(h, e).time = e.time
         /\ Answer(h, e).allow = (e.kind = "admit" /\ Decide(h, e))
BY DEF Answer, Commands, Entries

\* What is sent to be recorded: a command, and an admission has an id and a call.
Sendable == {e \in Commands : e.kind = "admit" => e.id \in Ids /\ e.call \in Calls}

\* Every command of Next is such a request.
LEMMA CommandsOfNext ==
  ASSUME TypeOK
  PROVE  /\ Admissions \subseteq Sendable
         /\ Observations \subseteq Sendable
         /\ \A i \in DOMAIN journal, k \in OutcomeKinds, t \in Times :
              Outcome(journal[i], k, t) \in Sendable
<1>1. Admissions \subseteq Sendable
  BY MonitorAssumption DEF Admissions, Sendable, Commands, Entries
<1>2. Observations \subseteq Sendable
  BY MonitorAssumption DEF Observations, Sendable, Commands, Entries, TrustedKinds
<1>3. ASSUME NEW i \in DOMAIN journal, NEW k \in OutcomeKinds, NEW t \in Times
      PROVE  Outcome(journal[i], k, t) \in Sendable
  <2>1. journal[i] \in Entries
    BY ElementOfSeq, LenProperties DEF TypeOK
  <2> QED
    BY <2>1, MonitorAssumption DEF Outcome, Sendable, Commands, Entries, OutcomeKinds
<1> QED
  BY <1>1, <1>2, <1>3

\* A step records one command, runs one tool, or changes nothing.
LEMMA Steps ==
  ASSUME TypeOK, [Next]_vars
  PROVE  \/ \E e \in Sendable : Record(e)
         \/ Run
         \/ UNCHANGED vars
BY CommandsOfNext DEF Next

\* The journal after a command is recorded.
LEMMA RecordedJournal ==
  ASSUME TypeOK, NEW e \in Sendable, Record(e)
  PROVE  /\ Row(e) \in Entries
         /\ journal' = Append(journal, Row(e))
         /\ journal' \in Seq(Entries)
         /\ Len(journal) \in Nat
         /\ DOMAIN journal = 1..Len(journal)
         /\ DOMAIN journal' = 1..(Len(journal) + 1)
         /\ \A i \in DOMAIN journal : journal'[i] = journal[i] /\ journal[i] \in Entries
         /\ journal'[Len(journal) + 1] = Row(e)
         /\ ran' = ran
<1>1. Row(e) \in Entries
  BY AnswerKeepsCommand DEF Row, Sendable
<1>2. journal' = Append(journal, Row(e)) /\ ran' = ran
  BY DEF Record
<1>3. journal \in Seq(Entries)
  BY DEF TypeOK
<1> QED
  BY <1>1, <1>2, <1>3, AppendElements, ElementOfSeq

-------------------------------------------------------------------------------
\* The inductive invariant

\* An admission has an id and a complete call.
AdmissionsAreCalls ==
  \A i \in DOMAIN journal :
    journal[i].kind = "admit" => journal[i].id \in Ids /\ journal[i].call \in Calls

\* An id is admitted once, and its outcome comes later.
IdsAreAdmittedFirst ==
  \A i, j \in DOMAIN journal :
    journal[j].kind = "admit" /\ journal[i].id = journal[j].id => j <= i

IInv ==
  /\ TypeOK
  /\ AdmissionsAreCalls
  /\ IdsAreAdmittedFirst
  /\ EffectsAreReserved
  /\ RunsFollowJournal

\* The invocations after a tool was run.
LEMMA RunInvocations ==
  ASSUME TypeOK, AdmissionsAreCalls, Run
  PROVE  /\ journal' = journal
         /\ Len(journal) \in DOMAIN journal
         /\ MayRun(Len(journal))
         /\ RunOf(Len(journal)) \in Runs
         /\ ran' \in Seq(Runs)
         /\ Len(ran) \in Nat
         /\ DOMAIN ran = 1..Len(ran)
         /\ DOMAIN ran' = 1..(Len(ran) + 1)
         /\ \A k \in DOMAIN ran : ran'[k] = ran[k] /\ ran[k] \in Runs
         /\ ran'[Len(ran) + 1] = RunOf(Len(journal))
<1>1. PICK i \in DOMAIN journal : MayRun(i) /\ ran' = Append(ran, RunOf(i))
  BY DEF Run
<1>2. i = Len(journal) /\ IsDispatch(journal[i])
  BY <1>1 DEF MayRun
<1>3. journal' = journal
  BY DEF Run
<1>4. journal[i] \in Entries /\ i \in Nat
  BY ElementOfSeq, LenProperties DEF TypeOK
<1>5. RunOf(i) \in Runs
  BY <1>2, <1>4 DEF AdmissionsAreCalls, RunOf, Runs, IsDispatch, Entries
<1>6. ran \in Seq(Runs)
  BY DEF TypeOK
<1> QED
  BY <1>1, <1>2, <1>3, <1>5, <1>6, AppendElements, ElementOfSeq

LEMMA InitIInv == Init => IInv
BY EmptySeq DEF Init, IInv, TypeOK, AdmissionsAreCalls, IdsAreAdmittedFirst,
                EffectsAreReserved, RunsFollowJournal

LEMMA RecordKeepsIInv ==
  ASSUME IInv, NEW e \in Sendable, Record(e)
  PROVE  IInv'
<1> DEFINE n == Len(journal) + 1
<1> USE DEF IInv
<1>1. /\ Row(e) \in Entries
      /\ journal' \in Seq(Entries)
      /\ Len(journal) \in Nat
      /\ DOMAIN journal = 1..Len(journal)
      /\ DOMAIN journal' = 1..n
      /\ \A i \in DOMAIN journal : journal'[i] = journal[i] /\ journal[i] \in Entries
      /\ journal'[n] = Row(e)
      /\ ran' = ran
  BY RecordedJournal
<1>2. Row(e).kind = e.kind /\ Row(e).id = e.id /\ Row(e).call = e.call
  BY AnswerKeepsCommand DEF Row, Sendable
<1>3. \A i \in DOMAIN journal' : i \in DOMAIN journal \/ i = n
  BY <1>1
<1>4. TypeOK'
  BY <1>1 DEF TypeOK
<1>5. AdmissionsAreCalls'
  BY <1>1, <1>2, <1>3 DEF AdmissionsAreCalls, Sendable
<1>6. IdsAreAdmittedFirst'
  <2> SUFFICES ASSUME NEW i \in DOMAIN journal', NEW j \in DOMAIN journal',
                      journal'[j].kind = "admit", journal'[i].id = journal'[j].id
               PROVE  j <= i
    BY DEF IdsAreAdmittedFirst
  <2>1. CASE i = n
    BY <2>1, <1>1
  <2>2. CASE i # n /\ j # n
    BY <2>2, <1>1, <1>3 DEF IdsAreAdmittedFirst
  <2>3. CASE i # n /\ j = n
    <3>1. e.kind = "admit" /\ Accepts(journal, e)
      BY <2>3, <1>1, <1>2 DEF Record
    <3>2. UnusedId(journal, e)
      BY <3>1 DEF Accepts, OutcomeKinds, TrustedKinds
    <3> QED
      BY <2>3, <3>2, <1>1, <1>2, <1>3 DEF UnusedId
  <2> QED
    BY <2>1, <2>2, <2>3
<1>7. EffectsAreReserved'
  <2> SUFFICES ASSUME NEW k \in DOMAIN ran
               PROVE  /\ ran[k].at \in DOMAIN journal'
                      /\ IsDispatch(journal'[ran[k].at])
                      /\ ran[k] = RunOf(ran[k].at)'
    BY <1>1 DEF EffectsAreReserved, RunOf
  <2>1. /\ ran[k].at \in DOMAIN journal
        /\ IsDispatch(journal[ran[k].at])
        /\ ran[k] = RunOf(ran[k].at)
    BY DEF EffectsAreReserved
  <2> QED
    BY <2>1, <1>1 DEF RunOf
<1>8. RunsFollowJournal'
  BY <1>1 DEF RunsFollowJournal
<1> QED
  BY <1>4, <1>5, <1>6, <1>7, <1>8

LEMMA RunKeepsIInv ==
  ASSUME IInv, Run
  PROVE  IInv'
<1> DEFINE n == Len(ran) + 1
           l == Len(journal)
<1> USE DEF IInv
<1>1. /\ journal' = journal
      /\ l \in DOMAIN journal
      /\ MayRun(l)
      /\ RunOf(l) \in Runs
      /\ ran' \in Seq(Runs)
      /\ Len(ran) \in Nat
      /\ DOMAIN ran = 1..Len(ran)
      /\ DOMAIN ran' = 1..n
      /\ \A k \in DOMAIN ran : ran'[k] = ran[k] /\ ran[k] \in Runs
      /\ ran'[n] = RunOf(l)
  BY RunInvocations
<1>2. DOMAIN journal = 1..l /\ l \in Nat
  BY LenProperties DEF TypeOK
<1>3. \A k \in DOMAIN ran' : k \in DOMAIN ran \/ k = n
  BY <1>1
<1>4. TypeOK'
  BY <1>1 DEF TypeOK
<1>5. AdmissionsAreCalls' /\ IdsAreAdmittedFirst'
  BY <1>1 DEF AdmissionsAreCalls, IdsAreAdmittedFirst
<1>6. EffectsAreReserved'
  <2> SUFFICES ASSUME NEW k \in DOMAIN ran'
               PROVE  /\ ran'[k].at \in DOMAIN journal
                      /\ IsDispatch(journal[ran'[k].at])
                      /\ ran'[k] = RunOf(ran'[k].at)
    BY <1>1 DEF EffectsAreReserved, RunOf
  <2>1. CASE k \in DOMAIN ran
    BY <2>1, <1>1 DEF EffectsAreReserved, RunOf
  <2>2. CASE k = n
    BY <2>2, <1>1 DEF MayRun, RunOf
  <2> QED
    BY <2>1, <2>2, <1>3
<1>7. RunsFollowJournal'
  <2> SUFFICES ASSUME NEW k \in DOMAIN ran', NEW m \in DOMAIN ran', k < m
               PROVE  ran'[k].at < ran'[m].at
    BY DEF RunsFollowJournal
  <2>1. k \in DOMAIN ran
    BY <1>1, <1>3
  <2>2. CASE m \in DOMAIN ran
    BY <2>1, <2>2, <1>1 DEF RunsFollowJournal
  <2>3. CASE m = n
    <3>1. ran[k].at \in DOMAIN journal /\ ran[k].at # l
      BY <2>1, <1>1 DEF EffectsAreReserved, MayRun
    <3> QED
      BY <3>1, <2>1, <2>3, <1>1, <1>2 DEF RunOf
  <2> QED
    BY <2>2, <2>3, <1>3
<1> QED
  BY <1>4, <1>5, <1>6, <1>7

LEMMA StepKeepsIInv == IInv /\ [Next]_vars => IInv'
<1> SUFFICES ASSUME IInv, [Next]_vars PROVE IInv'
  OBVIOUS
<1>1. ASSUME NEW e \in Sendable, Record(e) PROVE IInv'
  BY <1>1, RecordKeepsIInv
<1>2. CASE Run
  BY <1>2, RunKeepsIInv
<1>3. CASE UNCHANGED vars
  BY <1>3 DEF vars, IInv, TypeOK, AdmissionsAreCalls, IdsAreAdmittedFirst,
              EffectsAreReserved, RunsFollowJournal, RunOf
<1> QED
  BY <1>1, <1>2, <1>3, Steps DEF IInv

\* The inductive invariant behind the theorems about tool invocations.
THEOREM Invariance == Spec => []IInv
BY InitIInv, StepKeepsIInv, PTL DEF Spec

-------------------------------------------------------------------------------
\* Theorems about the tool invocations

\* The journal and the list of tool invocations have the shapes that the Python
\* and Lean records have, after any number of commands.
THEOREM TypeCorrect == Spec => []TypeOK
<1>1. IInv => TypeOK
  BY DEF IInv
<1> QED
  BY <1>1, Invariance, PTL

\* Tools run in the order of their admissions (host.py:387-399 under one lock).
THEOREM RunsInOrder == Spec => []RunsFollowJournal
<1>1. IInv => RunsFollowJournal
  BY DEF IInv
<1> QED
  BY <1>1, Invariance, PTL

\* However often a request id is sent, its tool runs at most once: the engine
\* refuses an id it has seen (RuntimeCore.lean:178), so two invocations of one id
\* would share a dispatch, and a dispatch is run once.
THEOREM ToolsRunOnce == Spec => []RunOnce
<1>1. IInv => RunOnce
  <2> SUFFICES ASSUME IInv, NEW k \in DOMAIN ran, NEW m \in DOMAIN ran, ran[k].id = ran[m].id
               PROVE  k = m
    BY DEF RunOnce
  <2> DEFINE i == ran[k].at
             j == ran[m].at
  <2>1. /\ i \in DOMAIN journal /\ IsDispatch(journal[i]) /\ ran[k] = RunOf(i)
        /\ j \in DOMAIN journal /\ IsDispatch(journal[j]) /\ ran[m] = RunOf(j)
    BY DEF IInv, EffectsAreReserved
  <2>2. DOMAIN journal \subseteq Nat /\ DOMAIN ran \subseteq Nat
    BY LenProperties DEF IInv, TypeOK
  <2>3. journal[i].id = journal[j].id
    BY <2>1 DEF RunOf
  <2>4. j <= i /\ i <= j
    BY <2>1, <2>3 DEF IInv, IdsAreAdmittedFirst, IsDispatch
  <2>5. ~(k < m) /\ ~(m < k)
    BY <2>1, <2>2, <2>4 DEF IInv, RunsFollowJournal
  <2> QED
    BY <2>2, <2>5
<1> QED
  BY <1>1, Invariance, PTL

-------------------------------------------------------------------------------
\* What recording one more command keeps.  Each lemma compares the new entry, at
\* position n, with the older ones.

\* The facts about Record that the lemmas share.
LEMMA NewEntry ==
  ASSUME TypeOK, NEW e \in Sendable, Record(e)
  PROVE  LET n == Len(journal) + 1
         IN  /\ n \in Nat \ {0}
             /\ DOMAIN journal = 1..(n - 1)
             /\ DOMAIN journal' = 1..n
             /\ \A i \in DOMAIN journal' : i \in DOMAIN journal \/ i = n
             /\ \A i \in DOMAIN journal : journal'[i] = journal[i] /\ journal[i] \in Entries
             /\ journal'[n] \in Entries
             /\ journal'[n].kind = e.kind /\ journal'[n].id = e.id
             /\ journal'[n].session = e.session /\ journal'[n].call = e.call
             /\ journal'[n].binding = e.binding /\ journal'[n].time = e.time
             /\ journal'[n].allow = (e.kind = "admit" /\ Decide(journal, e))
             /\ ran' = ran
<1>1. /\ Row(e) \in Entries
      /\ Len(journal) \in Nat
      /\ DOMAIN journal = 1..Len(journal)
      /\ DOMAIN journal' = 1..(Len(journal) + 1)
      /\ \A i \in DOMAIN journal : journal'[i] = journal[i] /\ journal[i] \in Entries
      /\ journal'[Len(journal) + 1] = Row(e)
      /\ ran' = ran
  BY RecordedJournal
<1>2. /\ Row(e).kind = e.kind /\ Row(e).id = e.id
      /\ Row(e).session = e.session /\ Row(e).call = e.call
      /\ Row(e).binding = e.binding /\ Row(e).time = e.time
      /\ Row(e).allow = (e.kind = "admit" /\ Decide(journal, e))
  BY AnswerKeepsCommand DEF Row, Sendable
<1> QED
  BY <1>1, <1>2

LEMMA RecordKeepsOneOutcome ==
  ASSUME TypeOK, OneOutcome, NEW e \in Sendable, Record(e)
  PROVE  OneOutcome'
<1> DEFINE n == Len(journal) + 1
<1>1. e.kind \in OutcomeKinds =>
        \A i \in DOMAIN journal : ~(journal[i].id = e.id /\ journal[i].kind \in OutcomeKinds)
  BY DEF Record, Accepts, ValidOutcome, OutcomeKinds, TrustedKinds
<1> SUFFICES ASSUME NEW i \in DOMAIN journal', NEW j \in DOMAIN journal',
                    journal'[i].kind \in OutcomeKinds, journal'[j].kind \in OutcomeKinds,
                    journal'[i].id = journal'[j].id
             PROVE  i = j
  BY DEF OneOutcome
<1>2. CASE i # n /\ j # n
  BY <1>2, NewEntry DEF OneOutcome
<1>3. CASE i = n \/ j = n
  BY <1>1, <1>3, NewEntry
<1> QED
  BY <1>2, <1>3

LEMMA RecordKeepsOutcomesWereRun ==
  ASSUME TypeOK, OutcomesWereRun, NEW e \in Sendable, Record(e)
  PROVE  OutcomesWereRun'
BY NewEntry DEF OutcomesWereRun, HasRun, Record, Reported

LEMMA RecordKeepsTime ==
  ASSUME TypeOK, TimeMovesForward, NEW e \in Sendable, Record(e)
  PROVE  TimeMovesForward'
<1> DEFINE n == Len(journal) + 1
<1>1. \A i \in DOMAIN journal : journal[i].time <= e.time
  <2>1. CASE journal = << >>
    BY <2>1
  <2>2. CASE journal # << >>
    <3>1. journal[Len(journal)].time <= e.time
      BY <2>2 DEF Record, Accepts, ValidEvent
    <3>2. \A i \in DOMAIN journal : journal[i].time <= journal[Len(journal)].time
      BY <2>2, NewEntry DEF TimeMovesForward, Entries
    <3>3. e.time \in Nat /\ \A i \in DOMAIN journal : journal[i].time \in Nat
      BY NewEntry DEF Entries, Sendable, Commands
    <3>4. Len(journal) \in DOMAIN journal
      BY <2>2, EmptySeq, NewEntry DEF TypeOK
    <3> QED
      BY <3>1, <3>2, <3>3, <3>4
  <2> QED
    BY <2>1, <2>2
<1> SUFFICES ASSUME NEW i \in DOMAIN journal', NEW j \in DOMAIN journal', i < j
             PROVE  journal'[i].time <= journal'[j].time
  BY DEF TimeMovesForward
<1>2. i \in DOMAIN journal
  BY NewEntry
<1>3. CASE j = n
  BY <1>1, <1>2, <1>3, NewEntry
<1>4. CASE j # n
  BY <1>2, <1>4, NewEntry DEF TimeMovesForward
<1> QED
  BY <1>3, <1>4

LEMMA RecordKeepsApproval ==
  ASSUME TypeOK, ApprovalSpentOnce, NEW e \in Sendable, Record(e)
  PROVE  ApprovalSpentOnce'
<1> DEFINE n == Len(journal) + 1
<1> SUFFICES ASSUME NEW i \in DOMAIN journal', NEW j \in DOMAIN journal',
                    IsDispatch(journal'[i]), IsDispatch(journal'[j]),
                    journal'[j].call.action = "write",
                    journal'[i].session = journal'[j].session,
                    journal'[i].binding = journal'[j].binding
             PROVE  j <= i
  BY DEF ApprovalSpentOnce
<1>1. CASE i = n
  BY <1>1, NewEntry
<1>2. CASE i # n /\ j # n
  BY <1>2, NewEntry DEF ApprovalSpentOnce
<1>3. CASE i # n /\ j = n
  <2>1. Decide(journal, e) /\ e.call.action = "write"
    BY <1>3, NewEntry DEF IsDispatch
  <2>2. i \in DOMAIN journal /\ ~UsedConfirmation(e, journal[i])
    BY <1>3, <2>1, NewEntry DEF Decide, Confirmed
  <2> QED
    BY <1>3, <2>2, NewEntry DEF UsedConfirmation, SameConversation
<1> QED
  BY <1>1, <1>2, <1>3

LEMMA RecordKeepsLastWord ==
  ASSUME TypeOK, LastWordWasYes, NEW e \in Sendable, Record(e)
  PROVE  LastWordWasYes'
<1> DEFINE n == Len(journal) + 1
<1> SUFFICES ASSUME NEW i \in DOMAIN journal',
                    IsDispatch(journal'[i]), journal'[i].call.action = "write"
             PROVE  \E c \in 1..(i - 1) :
                      /\ ConfirmedEvent(journal'[i], journal'[c])
                      /\ \A m \in (c + 1)..(i - 1) : ~RevokedEvent(journal'[i], journal'[m])
  BY DEF LastWordWasYes
<1>1. i \in Nat /\ \A m \in 1..(i - 1) : m \in DOMAIN journal /\ journal'[m] = journal[m]
  BY NewEntry
<1>2. CASE i # n
  <2>1. i \in DOMAIN journal /\ journal'[i] = journal[i]
    BY <1>2, NewEntry
  <2>2. PICK c \in 1..(i - 1) :
          /\ ConfirmedEvent(journal[i], journal[c])
          /\ \A m \in (c + 1)..(i - 1) : ~RevokedEvent(journal[i], journal[m])
    BY <2>1 DEF LastWordWasYes
  <2> QED
    BY <1>1, <2>1, <2>2
<1>3. CASE i = n
  <2>1. Decide(journal, e) /\ e.call.action = "write"
    BY <1>3, NewEntry DEF IsDispatch
  <2>2. PICK c \in DOMAIN journal :
          /\ ConfirmedEvent(e, journal[c])
          /\ \A m \in (c + 1)..Len(journal) : ~RevokedEvent(e, journal[m])
    BY <2>1 DEF Decide, Confirmed
  <2>3. c \in 1..(i - 1) /\ Len(journal) = i - 1
    BY <1>3, NewEntry
  <2>4. \A m \in 1..(i - 1) : /\ ConfirmedEvent(e, journal[m]) <=> ConfirmedEvent(journal'[i], journal'[m])
                              /\ RevokedEvent(e, journal[m]) <=> RevokedEvent(journal'[i], journal'[m])
    BY <1>1, <1>3, NewEntry DEF ConfirmedEvent, RevokedEvent, SameConversation, SameResource
  <2> QED
    BY <2>2, <2>3, <2>4
<1> QED
  BY <1>2, <1>3

\* A flight is released by an outcome that stands after its dispatch, for the id
\* was unused when it was dispatched.
LEMMA RecordKeepsOneInFlight ==
  ASSUME TypeOK, IdsAreAdmittedFirst, OneInFlight, NEW e \in Sendable, Record(e)
  PROVE  OneInFlight'
<1> DEFINE n == Len(journal) + 1
<1> SUFFICES ASSUME NEW i \in DOMAIN journal', NEW j \in DOMAIN journal', i < j,
                    IsDispatch(journal'[i]), IsDispatch(journal'[j]),
                    \/ SameConversation(journal'[i], journal'[j])
                    \/ SameResource(journal'[i], journal'[j])
             PROVE  \E m \in (i + 1)..(j - 1) :
                      /\ journal'[m].id = journal'[i].id
                      /\ journal'[m].kind \in {"success", "failure"}
  BY DEF OneInFlight
<1>1. i \in DOMAIN journal /\ journal'[i] = journal[i] /\ i \in Nat
  BY NewEntry
<1>2. CASE j # n
  <2>1. j \in DOMAIN journal /\ journal'[j] = journal[j] /\ j \in Nat
    BY <1>2, NewEntry
  <2>2. PICK m \in (i + 1)..(j - 1) :
          journal[m].id = journal[i].id /\ journal[m].kind \in {"success", "failure"}
    BY <1>1, <2>1 DEF OneInFlight
  <2>3. journal'[m] = journal[m]
    BY <1>1, <2>1, NewEntry
  <2> QED
    BY <1>1, <2>2, <2>3
<1>3. CASE j = n
  <2>1. Decide(journal, e) /\ (SameConversation(e, journal[i]) \/ SameResource(e, journal[i]))
    BY <1>1, <1>3, NewEntry DEF IsDispatch, SameConversation, SameResource
  <2>2. Released(journal, i)
    BY <1>1, <2>1 DEF Decide, SingleFlight
  <2>3. PICK m \in DOMAIN journal :
          journal[m].id = journal[i].id /\ journal[m].kind \in {"success", "failure"}
    BY <2>2 DEF Released
  <2>4. i <= m /\ i # m
    BY <1>1, <2>3 DEF IdsAreAdmittedFirst, IsDispatch
  <2>5. m \in (i + 1)..(j - 1) /\ journal'[m] = journal[m]
    BY <1>1, <1>3, <2>4, NewEntry
  <2> QED
    BY <1>1, <2>3, <2>5
<1> QED
  BY <1>2, <1>3

\* An appended element leaves the prefixes as they were.
LEMMA AppendPrefixes ==
  ASSUME NEW S, NEW s \in Seq(S), NEW x \in S, NEW i \in 0..Len(s)
  PROVE  SubSeq(Append(s, x), 1, i) = SubSeq(s, 1, i)
BY AppendProperties, LenProperties, SubSeqProperties

\* A stored row without its answer is the command that was sent.
LEMMA CommandOfRow ==
  ASSUME NEW h, NEW e \in Commands
  PROVE  [Answer(h, e) EXCEPT !.allow = FALSE] = e
BY DEF Answer, Commands, Entries

LEMMA RecordKeepsReplay ==
  ASSUME TypeOK, JournalReplays, NEW e \in Sendable, Record(e)
  PROVE  JournalReplays'
<1> DEFINE n == Len(journal) + 1
           Good(p, x) == LET command == [x EXCEPT !.allow = FALSE]
                         IN  Accepts(p, command) /\ Answer(p, command) = x
<1> SUFFICES ASSUME NEW i \in DOMAIN journal'
             PROVE  Good(SubSeq(journal', 1, i - 1), journal'[i])
  BY DEF JournalReplays, Replays
<1>1. SubSeq(journal', 1, i - 1) = SubSeq(journal, 1, i - 1)
  <2>1. i - 1 \in 0..Len(journal)
    BY RecordedJournal
  <2> QED
    BY <2>1, RecordedJournal, AppendPrefixes DEF TypeOK
<1>2. CASE i = n
  <2>1. SubSeq(journal, 1, i - 1) = journal
    BY <1>2, SubSeqFull, RecordedJournal DEF TypeOK
  <2>2. journal'[i] = Answer(journal, e)
    BY <1>2, RecordedJournal DEF Row
  <2>3. [Answer(journal, e) EXCEPT !.allow = FALSE] = e
    BY CommandOfRow DEF Sendable
  <2>4. Accepts(journal, e)
    BY DEF Record
  <2> QED
    BY <1>1, <2>1, <2>2, <2>3, <2>4
<1>3. CASE i # n
  <2>1. i \in DOMAIN journal /\ journal'[i] = journal[i]
    BY <1>3, RecordedJournal
  <2>2. Good(SubSeq(journal, 1, i - 1), journal[i])
    BY <2>1 DEF JournalReplays, Replays
  <2> QED
    BY <1>1, <2>1, <2>2
<1> QED
  BY <1>2, <1>3

-------------------------------------------------------------------------------
\* The quota.  Each admission looks back from its own time; the bound of every other
\* window follows because times never decrease.

QuotaHolds ==
  \A a \in Nat :
    /\ Cardinality(WritesWithin(a)) <= QuotaCalls
    /\ TotalAmount(journal, WritesWithin(a)) <= QuotaAmount

LEMMA CallAmounts == \A c \in Calls \cup Subjects : c.amount \in Nat
<1>1. \A c \in Reads : c.amount = 0
  BY DEF Reads
<1>2. \A c \in Writes : c.amount \in Amounts
  BY DEF Writes
<1>3. \A c \in Subjects : c.amount = 0
  BY DEF Subjects
<1>4. \A x \in Amounts : x \in Nat
  BY PolicyAssumption
<1>5. \A c \in Calls : c \in Reads \/ c \in Writes
  BY DEF Calls
<1> QED
  BY <1>1, <1>2, <1>3, <1>4, <1>5

LEMMA AmountsAreNat ==
  ASSUME NEW h, h \in Seq(Entries), NEW S \in SUBSET DOMAIN h
  PROVE  /\ IsFiniteSet(S) /\ Cardinality(S) \in Nat
         /\ \A i \in S : h[i].call.amount \in Nat
         /\ TotalAmount(h, S) \in Nat
<1>1. IsFiniteSet(S)
  <2>1. DOMAIN h = 1..Len(h) /\ Len(h) \in Nat
    BY LenProperties
  <2>2. IsFiniteSet(DOMAIN h)
    BY <2>1, FS_Interval
  <2> QED
    BY <2>2, FS_Subset
<1>2. ASSUME NEW i \in DOMAIN h PROVE h[i].call.amount \in Nat
  <2>1. h[i] \in Entries
    BY ElementOfSeq, LenProperties
  <2>2. h[i].call \in Calls \cup Subjects
    BY <2>1 DEF Entries
  <2> QED
    BY <2>2, CallAmounts
<1>3. TotalAmount(h, S) \in Nat
  <2>1. \A i \in S : [m \in DOMAIN h |-> h[m].call.amount][i] \in Nat
    BY <1>2
  <2> QED
    BY <1>1, <2>1, SumType DEF TotalAmount
<1> QED
  BY <1>1, <1>2, <1>3, FS_CardinalityType

\* An entry more counts its amount, and leaves that of the others.
LEMMA TotalsOfRecord ==
  ASSUME TypeOK, NEW e \in Sendable, Record(e), NEW S \in SUBSET DOMAIN journal
  PROVE  LET n == Len(journal) + 1
         IN  /\ TotalAmount(journal', S) = TotalAmount(journal, S)
             /\ Cardinality(S \cup {n}) = Cardinality(S) + 1
             /\ TotalAmount(journal', S \cup {n}) = TotalAmount(journal, S) + e.call.amount
<1> DEFINE v == [m \in DOMAIN journal |-> journal[m].call.amount]
           w == [m \in DOMAIN journal' |-> journal'[m].call.amount]
<1>1. PICK n : n = Len(journal) + 1
  OBVIOUS
<1>2. /\ n \notin DOMAIN journal /\ n \in DOMAIN journal'
      /\ \A i \in DOMAIN journal : i \in DOMAIN journal' /\ journal'[i] = journal[i]
      /\ journal'[n].call = e.call
  BY <1>1, NewEntry
<1>3. journal \in Seq(Entries) /\ journal' \in Seq(Entries)
  BY RecordedJournal DEF TypeOK
<1>4. IsFiniteSet(S) /\ \A i \in S : journal[i].call.amount \in Nat
  BY <1>3, AmountsAreNat
<1>5. w[n] = e.call.amount /\ w[n] \in Nat
  <2>1. n \in {n} /\ {n} \in SUBSET DOMAIN journal'
    BY <1>2
  <2>2. journal'[n].call.amount \in Nat
    BY <1>3, <2>1, AmountsAreNat
  <2> QED
    BY <1>2, <2>2
<1>6. \A i \in S : w[i] = v[i] /\ w[i] \in Nat
  BY <1>2, <1>4
<1> HIDE DEF v, w
<1>7. SumFunctionOnSet(w, S) = SumFunctionOnSet(v, S)
  BY <1>4, <1>6, SumAgrees
<1>8. n \notin S
  BY <1>2
<1>9. Cardinality(S \cup {n}) = Cardinality(S) + 1
  BY <1>4, <1>8, FS_AddElement
<1>10. SumFunctionOnSet(w, S \cup {n}) = SumFunctionOnSet(w, S) + w[n]
  BY <1>4, <1>5, <1>6, <1>8, SumAdds
<1> QED
  BY <1>1, <1>5, <1>7, <1>9, <1>10 DEF TotalAmount, v, w

LEMMA RecordKeepsQuota ==
  ASSUME TypeOK, TimeMovesForward', QuotaHolds, NEW e \in Sendable, Record(e)
  PROVE  QuotaHolds'
<1> SUFFICES ASSUME NEW a \in Nat
             PROVE  /\ Cardinality(WritesWithin(a)') <= QuotaCalls
                    /\ TotalAmount(journal', WritesWithin(a)') <= QuotaAmount
  BY DEF QuotaHolds
<1>1. PICK n : n = Len(journal) + 1
  OBVIOUS
<1>2. /\ n \in Nat /\ n \notin DOMAIN journal /\ DOMAIN journal' = DOMAIN journal \cup {n}
      /\ \A i \in DOMAIN journal : i < n /\ journal'[i] = journal[i] /\ journal[i] \in Entries
      /\ journal'[n].kind = e.kind /\ journal'[n].call = e.call /\ journal'[n].time = e.time
      /\ journal'[n].allow = (e.kind = "admit" /\ Decide(journal, e))
  <2>1. /\ n \in Nat \ {0} /\ DOMAIN journal = 1..(n - 1) /\ DOMAIN journal' = 1..n
        /\ \A i \in DOMAIN journal : journal'[i] = journal[i] /\ journal[i] \in Entries
    BY <1>1, NewEntry
  <2>2. /\ journal'[n].kind = e.kind /\ journal'[n].call = e.call /\ journal'[n].time = e.time
        /\ journal'[n].allow = (e.kind = "admit" /\ Decide(journal, e))
    BY <1>1, NewEntry
  <2>3. n \notin DOMAIN journal /\ DOMAIN journal' = DOMAIN journal \cup {n}
        /\ \A i \in DOMAIN journal : i < n
    BY <2>1
  <2> QED
    BY <2>1, <2>2, <2>3
<1>3. PICK W : W = WritesWithin(a)
  OBVIOUS
<1>4. /\ W \in SUBSET DOMAIN journal
      /\ Cardinality(W) <= QuotaCalls /\ TotalAmount(journal, W) <= QuotaAmount
  BY <1>3 DEF WritesWithin, QuotaHolds
<1>5. /\ TotalAmount(journal', W) = TotalAmount(journal, W)
      /\ Cardinality(W \cup {n}) = Cardinality(W) + 1
      /\ TotalAmount(journal', W \cup {n}) = TotalAmount(journal, W) + e.call.amount
  BY <1>1, <1>4, TotalsOfRecord
<1> DEFINE Counts == /\ IsDispatch(journal'[n]) /\ e.call.action = "write"
                     /\ e.time \in a..(a + QuotaWindow)
<1>6. CASE ~Counts
  <2>1. WritesWithin(a)' = W
    BY <1>2, <1>3, <1>6 DEF WritesWithin
  <2> QED
    BY <1>4, <1>5, <2>1
<1>7. CASE Counts
  <2>1. WritesWithin(a)' = W \cup {n}
    BY <1>2, <1>3, <1>7 DEF WritesWithin
  <2>2. Quota(journal, e)
    BY <1>2, <1>7 DEF IsDispatch, Decide
  <2>3. PICK M : M = Matching(journal, e)
    OBVIOUS
  <2>4. M \in SUBSET DOMAIN journal
    BY <2>3 DEF Matching
  <2>5. W \subseteq M
    <3> SUFFICES ASSUME NEW i \in W PROVE i \in M
      OBVIOUS
    <3>1. /\ i \in DOMAIN journal /\ IsDispatch(journal[i])
          /\ journal[i].time \in a..(a + QuotaWindow)
      BY <1>3 DEF WritesWithin
    <3>2. journal[i].time <= e.time
      BY <1>2, <3>1 DEF TimeMovesForward
    <3>3. journal[i].time \in Nat /\ e.time \in a..(a + QuotaWindow)
      BY <1>2, <1>7, <3>1 DEF Entries
    <3>4. e.time - journal[i].time <= QuotaWindow
      BY <3>1, <3>2, <3>3, PolicyAssumption
    <3> QED
      BY <2>3, <3>1, <3>2, <3>4 DEF Matching, InQuotaWindow
  <2>6. /\ Cardinality(M) < QuotaCalls
        /\ TotalAmount(journal, M) + e.call.amount <= QuotaAmount
    BY <2>2, <2>3 DEF Quota
  <2>7. journal \in Seq(Entries)
    BY DEF TypeOK
  <2>8. /\ IsFiniteSet(M) /\ Cardinality(M) \in Nat /\ TotalAmount(journal, M) \in Nat
        /\ \A i \in M : journal[i].call.amount \in Nat
        /\ Cardinality(W) \in Nat /\ TotalAmount(journal, W) \in Nat
    BY <1>4, <2>4, <2>7, AmountsAreNat
  <2>9. Cardinality(W) <= Cardinality(M)
    BY <2>5, <2>8, FS_Subset
  <2>10. TotalAmount(journal, W) <= TotalAmount(journal, M)
    <3> DEFINE v == [m \in DOMAIN journal |-> journal[m].call.amount]
    <3>1. \A i \in M : v[i] \in Nat
      BY <2>4, <2>8
    <3> HIDE DEF v
    <3>2. SumFunctionOnSet(v, W) <= SumFunctionOnSet(v, M)
      BY <2>5, <2>8, <3>1, SumMonotone
    <3> QED
      BY <3>2 DEF TotalAmount, v
  <2>11. e.call.amount \in Nat
    <3>1. e.call \in Calls \cup Subjects
      BY DEF Sendable, Commands, Entries
    <3> QED
      BY <3>1, CallAmounts
  <2> QED
    BY <1>5, <2>1, <2>6, <2>8, <2>9, <2>10, <2>11, PolicyAssumption
<1> QED
  BY <1>6, <1>7

-------------------------------------------------------------------------------
\* Theorems about the journal

JournalInv ==
  /\ OneOutcome
  /\ OutcomesWereRun
  /\ TimeMovesForward
  /\ ApprovalSpentOnce
  /\ LastWordWasYes
  /\ OneInFlight
  /\ JournalReplays
  /\ QuotaHolds

LEMMA InitJournalInv == Init => JournalInv
<1>1. Init => QuotaHolds
  <2> SUFFICES ASSUME Init, NEW a \in Nat
               PROVE  /\ Cardinality(WritesWithin(a)) <= QuotaCalls
                      /\ TotalAmount(journal, WritesWithin(a)) <= QuotaAmount
    BY DEF QuotaHolds
  <2>1. WritesWithin(a) = {}
    BY DEF Init, WritesWithin
  <2>2. Cardinality({}) = 0 /\ TotalAmount(journal, {}) = 0
    BY FS_EmptySet, SumOfNone DEF TotalAmount
  <2> QED
    BY <2>1, <2>2, PolicyAssumption
<1> QED
  BY <1>1 DEF Init, JournalInv, OneOutcome, OutcomesWereRun, TimeMovesForward,
              ApprovalSpentOnce, LastWordWasYes, OneInFlight, JournalReplays, Replays

LEMMA StepKeepsJournalInv == IInv /\ JournalInv /\ [Next]_vars => JournalInv'
<1> SUFFICES ASSUME IInv, JournalInv, [Next]_vars PROVE JournalInv'
  OBVIOUS
<1>1. ASSUME NEW e \in Sendable, Record(e) PROVE JournalInv'
  BY <1>1, RecordKeepsOneOutcome, RecordKeepsOutcomesWereRun, RecordKeepsTime,
     RecordKeepsApproval, RecordKeepsLastWord, RecordKeepsOneInFlight, RecordKeepsReplay,
     RecordKeepsQuota
     DEF JournalInv, IInv
<1>2. ASSUME journal' = journal, \A id : HasRun(id) => HasRun(id)' PROVE JournalInv'
  BY <1>2 DEF JournalInv, OneOutcome, OutcomesWereRun, TimeMovesForward, ApprovalSpentOnce,
              LastWordWasYes, OneInFlight, JournalReplays, QuotaHolds, WritesWithin
<1>3. CASE Run
  BY <1>2, <1>3, RunInvocations DEF IInv, HasRun
<1>4. CASE UNCHANGED vars
  BY <1>2, <1>4 DEF vars, HasRun
<1> QED
  BY <1>1, <1>3, <1>4, Steps DEF IInv

LEMMA JournalInvariance == Spec => []JournalInv
BY Invariance, InitJournalInv, StepKeepsJournalInv, PTL DEF Spec

\* A dispatch has at most one outcome in the journal, whichever reports arrive and
\* however often (RuntimeCore.lean:65-66).
THEOREM OutcomesAreFinal == Spec => []OneOutcome
<1>1. JournalInv => OneOutcome
  BY DEF JournalInv
<1> QED
  BY <1>1, JournalInvariance, PTL

\* The journal never tells of a tool that did not run (host.py:399-427).
THEOREM OutcomesAreReal == Spec => []OutcomesWereRun
<1>1. JournalInv => OutcomesWereRun
  BY DEF JournalInv
<1> QED
  BY <1>1, JournalInvariance, PTL

\* The journal is ordered by its clock, which is what lets the policy read `later in
\* the history` as `later in time` (RuntimeCore.lean:53).
THEOREM JournalIsChronological == Spec => []TimeMovesForward
<1>1. JournalInv => TimeMovesForward
  BY DEF JournalInv
<1> QED
  BY <1>1, JournalInvariance, PTL

\* No write is dispatched on an approval that was spent before (Policy.lean:82-88).
THEOREM ApprovalsAreSpentOnce == Spec => []ApprovalSpentOnce
<1>1. JournalInv => ApprovalSpentOnce
  BY DEF JournalInv
<1> QED
  BY <1>1, JournalInvariance, PTL

\* Behind every dispatched write stands the user's last word on it, and it was yes
\* (Policy.lean:64-88).
THEOREM WritesWereApproved == Spec => []LastWordWasYes
<1>1. JournalInv => LastWordWasYes
  BY DEF JournalInv
<1> QED
  BY <1>1, JournalInvariance, PTL

\* Of two dispatches in one conversation or on one resource, the first was settled
\* before the second was made (Policy.lean:117-121).
THEOREM FlightsDoNotOverlap == Spec => []OneInFlight
<1>1. JournalInv => OneInFlight
  BY DEF JournalInv
<1> QED
  BY <1>1, JournalInvariance, PTL

\* The monitor's journal replays.  It does by the shape of Row; the lemma is what the
\* host's restarts rest on, through the refinement (GuardHostProofs,
\* JournalOfHostReplays).
LEMMA RestartsSucceed == Spec => []JournalReplays
<1>1. JournalInv => JournalReplays
  BY DEF JournalInv
<1> QED
  BY <1>1, JournalInvariance, PTL

\* Whatever window one looks at, the writes dispatched in it respect both limits of
\* the quota, although each was only checked against the past (Policy.lean:108-115).
THEOREM QuotaAlwaysHolds == Spec => []QuotaHoldsInEveryWindow
<1>1. IInv /\ JournalInv => QuotaHoldsInEveryWindow
  <2> SUFFICES ASSUME IInv, JournalInv, NEW i \in DOMAIN journal
               PROVE  /\ Cardinality(WritesWithin(journal[i].time)) <= QuotaCalls
                      /\ TotalAmount(journal, WritesWithin(journal[i].time)) <= QuotaAmount
    BY DEF QuotaHoldsInEveryWindow
  <2>1. journal[i] \in Entries
    BY ElementOfSeq, LenProperties DEF IInv, TypeOK
  <2>2. journal[i].time \in Nat
    BY <2>1 DEF Entries
  <2> QED
    BY <2>2 DEF JournalInv, QuotaHolds
<1> QED
  BY <1>1, Invariance, JournalInvariance, PTL

-------------------------------------------------------------------------------
(***************************************************************************)
(* The exported trace.  The events of a journal are its entries, with the  *)
(* request of every dispatch before it.  No check of the policy looks at a *)
(* request, so an audit decides on the events what the engine decided on   *)
(* the entries.                                                            *)
(***************************************************************************)

\* The entries h stand in g, in their order, at the positions at; what else stands in
\* g are requests.
Stands(at, h, g) ==
  /\ \A i \in DOMAIN h : at[i] \in DOMAIN g /\ g[at[i]] = h[i]
  /\ \A i, k \in DOMAIN h : i < k => at[i] < at[k]
  /\ \A m \in DOMAIN g : (\E i \in DOMAIN h : m = at[i]) \/ (g[m].kind = "admit" /\ ~g[m].allow)

LEMMA StandsApart ==
  ASSUME NEW h \in Seq(Entries), NEW g \in Seq(Entries), NEW at, Stands(at, h, g)
  PROVE  /\ DOMAIN h = 1..Len(h) /\ Len(h) \in Nat
         /\ DOMAIN g = 1..Len(g) /\ Len(g) \in Nat
         /\ \A i, k \in DOMAIN h : at[i] = at[k] => i = k
         /\ \A i, k \in DOMAIN h : at[i] < at[k] => i < k
<1>1. /\ DOMAIN h = 1..Len(h) /\ Len(h) \in Nat
      /\ DOMAIN g = 1..Len(g) /\ Len(g) \in Nat
  BY LenProperties
<1>2. ASSUME NEW i \in DOMAIN h, NEW k \in DOMAIN h
      PROVE  (at[i] = at[k] => i = k) /\ (at[i] < at[k] => i < k)
  <2>1. at[i] \in Nat /\ at[k] \in Nat /\ i \in Nat /\ k \in Nat
    BY <1>1 DEF Stands
  <2>2. (i < k => at[i] < at[k]) /\ (k < i => at[k] < at[i])
    BY DEF Stands
  <2>3. i < k \/ k < i \/ i = k
    BY <2>1
  <2> QED
    BY <2>1, <2>2, <2>3
<1> QED
  BY <1>1, <1>2

LEMMA ConfirmedThere ==
  ASSUME NEW h \in Seq(Entries), NEW g \in Seq(Entries), NEW at, Stands(at, h, g), NEW r
  PROVE  Confirmed(g, r) <=> Confirmed(h, r)
<1>1. /\ DOMAIN h = 1..Len(h) /\ Len(h) \in Nat
      /\ DOMAIN g = 1..Len(g) /\ Len(g) \in Nat
      /\ \A i, k \in DOMAIN h : at[i] < at[k] => i < k
  BY StandsApart
<1> DEFINE Fits(p, i) == /\ ConfirmedEvent(r, p[i])
                         /\ \A j \in (i + 1)..Len(p) : ~RevokedEvent(r, p[j])
<1>2. (\A j \in DOMAIN g : ~UsedConfirmation(r, g[j]))
        <=> \A j \in DOMAIN h : ~UsedConfirmation(r, h[j])
  <2>1. ASSUME NEW j \in DOMAIN h, \A m \in DOMAIN g : ~UsedConfirmation(r, g[m])
        PROVE  ~UsedConfirmation(r, h[j])
    BY <2>1 DEF Stands
  <2>2. ASSUME NEW m \in DOMAIN g, \A j \in DOMAIN h : ~UsedConfirmation(r, h[j])
        PROVE  ~UsedConfirmation(r, g[m])
    <3>1. CASE \E i \in DOMAIN h : m = at[i]
      BY <2>2, <3>1 DEF Stands
    <3>2. CASE g[m].kind = "admit" /\ ~g[m].allow
      BY <3>2 DEF UsedConfirmation, IsDispatch
    <3> QED
      BY <3>1, <3>2 DEF Stands
  <2> QED
    BY <2>1, <2>2
<1>3. ASSUME NEW i \in DOMAIN h, Fits(h, i) PROVE \E m \in DOMAIN g : Fits(g, m)
  <2>1. at[i] \in DOMAIN g /\ g[at[i]] = h[i]
    BY DEF Stands
  <2>2. ASSUME NEW j \in (at[i] + 1)..Len(g) PROVE ~RevokedEvent(r, g[j])
    <3>1. j \in DOMAIN g /\ at[i] < j /\ at[i] \in Nat
      BY <1>1, <2>1
    <3>2. CASE g[j].kind = "admit"
      BY <3>2 DEF RevokedEvent
    <3>3. CASE \E k \in DOMAIN h : j = at[k]
      <4>1. PICK k \in DOMAIN h : j = at[k]
        BY <3>3
      <4>2. i < k /\ g[j] = h[k]
        BY <1>1, <3>1, <4>1 DEF Stands
      <4>3. k \in (i + 1)..Len(h)
        BY <1>1, <4>1, <4>2
      <4> QED
        BY <1>3, <4>2, <4>3
    <3> QED
      BY <3>1, <3>2, <3>3 DEF Stands
  <2> QED
    BY <1>3, <2>1, <2>2
<1>4. ASSUME NEW m \in DOMAIN g, Fits(g, m) PROVE \E i \in DOMAIN h : Fits(h, i)
  <2>1. g[m].kind # "admit"
    BY <1>4 DEF ConfirmedEvent
  <2>2. PICK i \in DOMAIN h : m = at[i]
    BY <2>1 DEF Stands
  <2>3. g[m] = h[i]
    BY <2>2 DEF Stands
  <2>4. ASSUME NEW k \in (i + 1)..Len(h) PROVE ~RevokedEvent(r, h[k])
    <3>1. k \in DOMAIN h /\ i < k
      BY <1>1
    <3>2. at[k] \in DOMAIN g /\ g[at[k]] = h[k] /\ m < at[k]
      BY <2>2, <3>1 DEF Stands
    <3>3. at[k] \in (m + 1)..Len(g)
      BY <1>1, <3>2
    <3> QED
      BY <1>4, <3>2, <3>3
  <2> QED
    BY <1>4, <2>3, <2>4
<1>5. (\E i \in DOMAIN g : Fits(g, i)) <=> \E i \in DOMAIN h : Fits(h, i)
  BY <1>3, <1>4
<1> QED
  BY <1>2, <1>5 DEF Confirmed

LEMMA ObservedThere ==
  ASSUME NEW h, NEW g, NEW at, Stands(at, h, g), NEW r
  PROVE  /\ Observed(g, r) <=> Observed(h, r)
         /\ SingleFlight(g, r) <=> SingleFlight(h, r)
<1>1. Observed(g, r) <=> Observed(h, r)
  BY DEF Stands, Observed
<1>2. \A i \in DOMAIN h : Released(g, at[i]) <=> Released(h, i)
  BY DEF Stands, Released
<1>3. SingleFlight(g, r) <=> SingleFlight(h, r)
  BY <1>2 DEF Stands, SingleFlight, IsDispatch
<1> QED
  BY <1>1, <1>3

LEMMA QuotaThere ==
  ASSUME NEW h \in Seq(Entries), NEW g \in Seq(Entries), NEW at, Stands(at, h, g), NEW r
  PROVE  Quota(g, r) <=> Quota(h, r)
<1> DEFINE v == [i \in DOMAIN h |-> h[i].call.amount]
           w == [m \in DOMAIN g |-> g[m].call.amount]
<1>1. PICK M : M = Matching(h, r)
  OBVIOUS
<1>2. M \in SUBSET DOMAIN h
  BY <1>1 DEF Matching
<1>3. Matching(g, r) = {at[i] : i \in M}
  BY <1>1 DEF Stands, Matching, InQuotaWindow, IsDispatch
<1>4. IsFiniteSet(M) /\ \A i \in M : h[i].call.amount \in Nat
  BY <1>2, AmountsAreNat
<1>5. \A i \in M : w[at[i]] = v[i] /\ v[i] \in Nat
  BY <1>2, <1>4 DEF Stands
<1>6. \A i, k \in M : at[i] = at[k] => i = k
  BY <1>2, StandsApart
<1> HIDE DEF v, w
<1>7. PICK T : T = {at[i] : i \in M}
  OBVIOUS
<1>8. Cardinality(T) = Cardinality(M) /\ SumFunctionOnSet(w, T) = SumFunctionOnSet(v, M)
  <2>1. IsFiniteSet(M)
    BY <1>4
  <2>2. /\ Cardinality({at[i] : i \in M}) = Cardinality(M)
        /\ SumFunctionOnSet(w, {at[i] : i \in M}) = SumFunctionOnSet(v, M)
    BY <1>5, <1>6, <2>1, SumOfImage
  <2> QED
    BY <1>7, <2>2
<1>9. TotalAmount(g, T) = TotalAmount(h, M)
  BY <1>8 DEF TotalAmount, v, w
<1> QED
  BY <1>1, <1>3, <1>7, <1>8, <1>9 DEF Quota

\* A decision is the same on the events as on the entries.
LEMMA DecidedThere ==
  ASSUME NEW h \in Seq(Entries), NEW g \in Seq(Entries), NEW at, Stands(at, h, g), NEW r
  PROVE  Decide(g, r) <=> Decide(h, r)
BY ConfirmedThere, ObservedThere, QuotaThere DEF Decide

TraceEvents ==
  [kind: EventKinds, id: Ids \cup {NoId}, session: Sessions, call: Calls \cup Subjects,
   binding: Tokens \cup {NoToken}, time: Nat]

EntriesOf(trace) == [k \in 1..Len(trace) |-> EntryOf(trace[k])]

\* A row gives events of its own time and id; the last one stands for it.
LEMMA EventsOfRow ==
  ASSUME NEW x \in Entries, x.allow => x.kind = "admit"
  PROVE  /\ EventsOf(x) \in Seq(TraceEvents)
         /\ Len(EventsOf(x)) \in {1, 2}
         /\ \A m \in 1..Len(EventsOf(x)) :
              /\ EventsOf(x)[m].time = x.time
              /\ EventsOf(x)[m].kind = "request" => x.kind = "admit" /\ m = 1
         /\ x.kind = "admit" => EventsOf(x)[1] = Event(x, "request")
         /\ EntryOf(EventsOf(x)[Len(EventsOf(x))]) = x
         /\ Len(EventsOf(x)) = 2 => EventsOf(x)[1].kind = "request"
<1> DEFINE Back(k) == EntryOf(Event(x, k))
<1>1. \A k \in EventKinds : Event(x, k) \in TraceEvents
  BY DEF Event, TraceEvents, Entries
<1>2. x = [kind |-> x.kind, id |-> x.id, session |-> x.session, call |-> x.call,
           binding |-> x.binding, time |-> x.time, allow |-> x.allow]
  BY DEF Entries
<1>3. /\ x.kind = "admit" /\ x.allow => EntryOf(Event(x, "dispatch")) = x
      /\ x.kind = "admit" /\ ~x.allow => EntryOf(Event(x, "request")) = x
      /\ x.kind # "admit" => EntryOf(Event(x, x.kind)) = x
  <2>1. x.allow \in BOOLEAN /\ x.kind \in {"admit"} \cup OutcomeKinds \cup TrustedKinds
    BY DEF Entries
  <2>2. \A k : EntryOf(Event(x, k)) =
          [kind |-> IF k \in {"request", "dispatch"} THEN "admit" ELSE k,
           id |-> x.id, session |-> x.session, call |-> x.call,
           binding |-> x.binding, time |-> x.time, allow |-> k = "dispatch"]
    BY DEF EntryOf, Event
  <2>3. x.kind # "admit" => x.kind \notin {"request", "dispatch"}
    BY <2>1 DEF OutcomeKinds, TrustedKinds
  <2>4. ASSUME x.kind = "admit", x.allow PROVE EntryOf(Event(x, "dispatch")) = x
    BY <1>2, <2>1, <2>2, <2>4
  <2>5. ASSUME x.kind = "admit", ~x.allow PROVE EntryOf(Event(x, "request")) = x
    BY <1>2, <2>1, <2>2, <2>5
  <2>6. ASSUME x.kind # "admit" PROVE EntryOf(Event(x, x.kind)) = x
    BY <1>2, <2>1, <2>2, <2>3, <2>6
  <2> QED
    BY <2>4, <2>5, <2>6
<1>4. \A k : Event(x, k).time = x.time /\ Event(x, k).kind = k
  BY DEF Event
<1>5. CASE x.kind # "admit"
  <2>1. EventsOf(x) = <<Event(x, x.kind)>>
    BY <1>5 DEF EventsOf
  <2>2. x.kind \in EventKinds /\ x.kind # "request"
    BY <1>5 DEF Entries, EventKinds, OutcomeKinds, TrustedKinds
  <2> QED
    BY <1>1, <1>3, <1>4, <1>5, <2>1, <2>2
<1>6. CASE x.kind = "admit" /\ x.allow
  <2>1. EventsOf(x) = <<Event(x, "request"), Event(x, "dispatch")>>
    BY <1>6 DEF EventsOf
  <2>2. {"request", "dispatch"} \subseteq EventKinds
    BY DEF EventKinds
  <2> QED
    BY <1>1, <1>3, <1>4, <1>6, <2>1, <2>2
<1>7. CASE x.kind = "admit" /\ ~x.allow
  <2>1. EventsOf(x) = <<Event(x, "request")>>
    BY <1>7 DEF EventsOf
  <2>2. "request" \in EventKinds
    BY DEF EventKinds
  <2> QED
    BY <1>1, <1>3, <1>4, <1>7, <2>1, <2>2
<1> QED
  BY <1>5, <1>6, <1>7

LEMMA HostEventsType ==
  ASSUME NEW j \in Seq(Entries), \A i \in DOMAIN j : j[i].allow => j[i].kind = "admit",
         NEW ss, ss = [i \in DOMAIN j |-> EventsOf(j[i])]
  PROVE  /\ ss \in Seq(Seq(TraceEvents)) /\ Len(ss) = Len(j)
         /\ HostEvents(j) = FlattenSeq(ss) /\ HostEvents(j) \in Seq(TraceEvents)
         /\ Len(j) = 0 => HostEvents(j) = << >>
<1>1. DOMAIN j = 1..Len(j) /\ Len(j) \in Nat /\ \A i \in DOMAIN j : j[i] \in Entries
  BY LenProperties, ElementOfSeq
<1>2. \A i \in DOMAIN j : EventsOf(j[i]) \in Seq(TraceEvents)
  BY <1>1, EventsOfRow
<1>3. ss \in Seq(Seq(TraceEvents)) /\ Len(ss) = Len(j)
  <2>1. ss \in [1..Len(j) -> Seq(TraceEvents)]
    BY <1>1, <1>2
  <2> QED
    BY <1>1, <2>1, LenProperties, IsASeq
<1>4. FlattenSeq(ss) \in Seq(TraceEvents) /\ (Len(ss) = 0 => FlattenSeq(ss) = << >>)
  BY <1>3, FlattenType
<1> QED
  BY <1>3, <1>4 DEF HostEvents

\* One row more adds its events at the end.
LEMMA HostEventsGrow ==
  ASSUME NEW j \in Seq(Entries), NEW x \in Entries,
         \A i \in DOMAIN j : j[i].allow => j[i].kind = "admit",
         x.allow => x.kind = "admit"
  PROVE  HostEvents(Append(j, x)) = HostEvents(j) \o EventsOf(x)
<1> DEFINE tt == [i \in DOMAIN Append(j, x) |-> EventsOf(Append(j, x)[i])]
<1>1. DOMAIN j = 1..Len(j) /\ Len(j) \in Nat
  BY LenProperties
<1>2. PICK ss : ss = [i \in DOMAIN j |-> EventsOf(j[i])]
  OBVIOUS
<1>3. ss \in Seq(Seq(TraceEvents)) /\ Len(ss) = Len(j) /\ HostEvents(j) = FlattenSeq(ss)
  BY <1>2, HostEventsType
<1>4. EventsOf(x) \in Seq(TraceEvents)
  BY EventsOfRow
<1>5. tt = Append(ss, EventsOf(x))
  <2>1. /\ DOMAIN Append(j, x) = 1..(Len(j) + 1) /\ Append(j, x)[Len(j) + 1] = x
        /\ \A i \in 1..Len(j) : Append(j, x)[i] = j[i]
    BY <1>1, AppendElements
  <2>2. PICK y : y = EventsOf(x)
    OBVIOUS
  <2>3. PICK a : a = Append(ss, y)
    OBVIOUS
  <2>4. /\ a \in Seq(Seq(TraceEvents)) /\ DOMAIN a = 1..(Len(j) + 1) /\ a[Len(j) + 1] = y
        /\ \A i \in 1..Len(j) : a[i] = ss[i]
    BY <1>3, <1>4, <2>2, <2>3, AppendElements
  <2>5. a = [i \in 1..(Len(j) + 1) |-> a[i]]
    BY <2>4, LenProperties
  <2>6. ASSUME NEW i \in 1..(Len(j) + 1) PROVE tt[i] = a[i]
    <3>1. tt[i] = EventsOf(Append(j, x)[i])
      BY <2>1
    <3>2. CASE i \in 1..Len(j)
      <4>1. ss[i] = EventsOf(j[i])
        BY <1>1, <1>2, <3>2
      <4> QED
        BY <2>1, <2>4, <3>1, <3>2, <4>1
    <3>3. CASE i = Len(j) + 1
      BY <2>1, <2>2, <2>4, <3>1, <3>3
    <3> QED
      BY <1>1, <3>2, <3>3
  <2>7. tt = [i \in 1..(Len(j) + 1) |-> tt[i]]
    BY <2>1
  <2> HIDE DEF tt
  <2>8. tt = a
    BY <2>5, <2>6, <2>7
  <2> QED
    BY <2>2, <2>3, <2>8
<1> HIDE DEF tt
<1>6. FlattenSeq(Append(ss, EventsOf(x))) = FlattenSeq(ss) \o EventsOf(x)
  BY <1>3, <1>4, FlattenAppend
<1> QED
  BY <1>3, <1>5, <1>6 DEF HostEvents, tt

TraceInv ==
  /\ \A i \in DOMAIN journal : journal[i].allow => journal[i].kind = "admit"
  /\ Readable(journal)
  /\ LET trace == HostEvents(journal)
     IN  /\ \E at : Stands(at, journal, EntriesOf(trace))
         /\ \A m \in DOMAIN trace : \E i \in DOMAIN journal : trace[m].time = journal[i].time
         /\ \A m, k \in DOMAIN trace : m < k => trace[m].time <= trace[k].time
         /\ \A m \in Requests(trace) :
              /\ \E i \in DOMAIN journal : journal[i].id = trace[m].id
              /\ Audited(trace, m) <=> Dispatched(trace[m].id)

LEMMA EntriesOfTrace ==
  ASSUME NEW t \in Seq(TraceEvents)
  PROVE  /\ EntriesOf(t) \in Seq(Entries)
         /\ Len(t) \in Nat /\ DOMAIN t = 1..Len(t)
         /\ DOMAIN EntriesOf(t) = 1..Len(t)
         /\ \A m \in 1..Len(t) : EntriesOf(t)[m] = EntryOf(t[m])
<1>1. Len(t) \in Nat /\ DOMAIN t = 1..Len(t) /\ \A m \in 1..Len(t) : t[m] \in TraceEvents
  BY LenProperties, ElementOfSeq
<1>2. ASSUME NEW v \in TraceEvents PROVE EntryOf(v) \in Entries
  BY DEF EntryOf, TraceEvents, Entries, EventKinds
<1>3. EntriesOf(t) \in [1..Len(t) -> Entries]
  BY <1>1, <1>2 DEF EntriesOf
<1>4. EntriesOf(t) \in Seq(Entries)
  BY <1>1, <1>3, IsASeq
<1> QED
  BY <1>1, <1>4 DEF EntriesOf

\* The trace after a command is recorded.
LEMMA TraceGrows ==
  ASSUME TypeOK, TraceInv, NEW e \in Sendable, Record(e),
         NEW t, t = HostEvents(journal), NEW u, u = EventsOf(Row(e))
  PROVE  /\ t \in Seq(TraceEvents) /\ u \in Seq(TraceEvents)
         /\ HostEvents(journal') \in Seq(TraceEvents)
         /\ Len(t) \in Nat /\ Len(u) \in {1, 2} /\ DOMAIN t = 1..Len(t)
         /\ DOMAIN HostEvents(journal') = 1..(Len(t) + Len(u))
         /\ Len(HostEvents(journal')) = Len(t) + Len(u)
         /\ \A m \in 1..Len(t) : HostEvents(journal')[m] = t[m]
         /\ \A m \in 1..Len(u) : HostEvents(journal')[Len(t) + m] = u[m]
<1>1. /\ Row(e) \in Entries /\ journal' = Append(journal, Row(e)) /\ journal \in Seq(Entries)
  BY RecordedJournal DEF TypeOK
<1>2. Row(e).allow => Row(e).kind = "admit"
  BY AnswerKeepsCommand DEF Row, Sendable
<1>3. t \in Seq(TraceEvents) /\ HostEvents(journal') = t \o u
  <2>1. \A i \in DOMAIN journal : journal[i].allow => journal[i].kind = "admit"
    BY DEF TraceInv
  <2>2. HostEvents(Append(journal, Row(e))) = t \o u
    BY <1>1, <1>2, <2>1, HostEventsGrow
  <2> QED
    BY <1>1, <2>1, <2>2, HostEventsType
<1>4. u \in Seq(TraceEvents) /\ Len(u) \in {1, 2}
  BY <1>1, <1>2, EventsOfRow
<1>5. PICK c : c = HostEvents(journal')
  OBVIOUS
<1>6. /\ c \in Seq(TraceEvents) /\ Len(c) = Len(t) + Len(u)
      /\ \A m \in 1..Len(t) : c[m] = t[m]
      /\ \A m \in 1..Len(u) : c[Len(t) + m] = u[m]
  <2>1. c = t \o u
    BY <1>3, <1>5
  <2>2. /\ t \o u \in Seq(TraceEvents) /\ Len(t \o u) = Len(t) + Len(u)
        /\ \A i \in 1..(Len(t) + Len(u)) : (t \o u)[i] = IF i <= Len(t) THEN t[i]
                                                         ELSE u[i - Len(t)]
    BY <1>3, <1>4, ConcatProperties
  <2>3. Len(t) \in Nat /\ Len(u) \in Nat
    BY <1>3, <1>4, LenProperties
  <2>4. \A i \in 1..(Len(t) + Len(u)) : c[i] = IF i <= Len(t) THEN t[i] ELSE u[i - Len(t)]
    BY <2>1, <2>2
  <2>5. ASSUME NEW m \in 1..Len(u) PROVE c[Len(t) + m] = u[m]
    <3>1. Len(t) + m \in 1..(Len(t) + Len(u)) /\ ~(Len(t) + m <= Len(t))
          /\ (Len(t) + m) - Len(t) = m
      BY <2>3
    <3> QED
      BY <2>4, <3>1
  <2>6. ASSUME NEW m \in 1..Len(t) PROVE c[m] = t[m]
    BY <2>3, <2>4
  <2> QED
    BY <2>1, <2>2, <2>5, <2>6
<1>7. DOMAIN c = 1..(Len(t) + Len(u)) /\ DOMAIN t = 1..Len(t) /\ Len(t) \in Nat
  BY <1>3, <1>6, LenProperties
<1> QED
  BY <1>3, <1>4, <1>5, <1>6, <1>7

\* The entries still stand in the trace.
LEMMA RecordKeepsStanding ==
  ASSUME TypeOK, TraceInv, NEW e \in Sendable, Record(e)
  PROVE  \E at : Stands(at, journal', EntriesOf(HostEvents(journal')))
<1>1. PICK t : t = HostEvents(journal)
  OBVIOUS
<1>2. PICK u : u = EventsOf(Row(e))
  OBVIOUS
<1>3. PICK c : c = HostEvents(journal')
  OBVIOUS
<1>4. PICK n : n = Len(journal) + 1
  OBVIOUS
<1>5. /\ t \in Seq(TraceEvents) /\ c \in Seq(TraceEvents)
      /\ Len(t) \in Nat /\ Len(u) \in {1, 2}
      /\ DOMAIN c = 1..(Len(t) + Len(u)) /\ Len(c) = Len(t) + Len(u)
      /\ \A m \in 1..Len(t) : c[m] = t[m]
      /\ \A m \in 1..Len(u) : c[Len(t) + m] = u[m]
  BY <1>1, <1>2, <1>3, TraceGrows
<1>6. /\ n \in Nat \ {0} /\ DOMAIN journal = 1..(n - 1) /\ DOMAIN journal' = 1..n
      /\ \A i \in DOMAIN journal : journal'[i] = journal[i]
      /\ journal'[n] = Row(e) /\ Row(e) \in Entries
  BY <1>4, RecordedJournal
<1>7. /\ EntryOf(u[Len(u)]) = Row(e)
      /\ Len(u) = 2 => u[1].kind = "request"
  <2>1. Row(e).allow => Row(e).kind = "admit"
    BY AnswerKeepsCommand DEF Row, Sendable
  <2> QED
    BY <1>2, <1>6, <2>1, EventsOfRow
<1>8. PICK g : g = EntriesOf(t)
  OBVIOUS
<1>9. PICK f : f = EntriesOf(c)
  OBVIOUS
<1>10. /\ DOMAIN g = 1..Len(t) /\ \A m \in 1..Len(t) : g[m] = EntryOf(t[m])
       /\ DOMAIN f = 1..(Len(t) + Len(u))
       /\ \A m \in 1..(Len(t) + Len(u)) : f[m] = EntryOf(c[m])
  BY <1>5, <1>8, <1>9, EntriesOfTrace
<1>11. PICK at : Stands(at, journal, g)
  BY <1>1, <1>8 DEF TraceInv
<1>12. PICK p \in Nat : p = Len(t)
  BY <1>5
<1>13. PICK q \in {1, 2} : q = Len(u)
  BY <1>5
<1>14. PICK l : l = p + q
  OBVIOUS
<1>15. PICK to : to = [i \in DOMAIN journal' |-> IF i = n THEN l ELSE at[i]]
  OBVIOUS
<1>16. /\ l \in Nat /\ l > p /\ l \in DOMAIN f
       /\ \A m \in DOMAIN g : m \in DOMAIN f /\ m < l /\ f[m] = g[m]
       /\ \A m \in DOMAIN f : m \in DOMAIN g \/ m = l \/ (m = p + 1 /\ q = 2)
       /\ f[l] = Row(e)
       /\ q = 2 => f[p + 1] = EntryOf(u[1])
  <2>1. DOMAIN g = 1..p /\ DOMAIN f = 1..l
    BY <1>10, <1>12, <1>13, <1>14
  <2>2. /\ l \in Nat /\ l > p /\ l \in 1..l
        /\ \A m \in 1..l : m \in 1..p \/ m = l \/ (m = p + 1 /\ q = 2)
        /\ \A m \in 1..p : m \in 1..l /\ m < l
        /\ q \in 1..q /\ (q = 2 => 1 \in 1..q /\ p + 1 \in 1..l)
    BY <1>14
  <2>3. \A m \in 1..p : f[m] = g[m]
    BY <1>5, <1>10, <1>12, <2>1, <2>2
  <2>4. \A m \in 1..q : c[p + m] = u[m]
    BY <1>5, <1>12, <1>13
  <2>5. \A m \in 1..l : f[m] = EntryOf(c[m])
    BY <1>10, <2>1
  <2>6. f[l] = Row(e)
    BY <1>7, <1>13, <1>14, <2>2, <2>4, <2>5
  <2>7. q = 2 => f[p + 1] = EntryOf(u[1])
    BY <2>2, <2>4, <2>5
  <2> QED
    BY <2>1, <2>2, <2>3, <2>6, <2>7
<1>17. \A i \in DOMAIN journal' : i \in DOMAIN journal \/ i = n
  BY <1>6
<1>18. \A i \in DOMAIN journal : i \in DOMAIN journal' /\ i < n /\ to[i] = at[i]
         /\ at[i] \in DOMAIN g /\ g[at[i]] = journal[i]
  BY <1>6, <1>11, <1>15 DEF Stands
<1>19. to[n] = l
  BY <1>6, <1>15
<1>20. \A i \in DOMAIN journal' : to[i] \in DOMAIN f /\ f[to[i]] = journal'[i]
  BY <1>6, <1>16, <1>17, <1>18, <1>19
<1>21. ASSUME NEW i \in DOMAIN journal', NEW k \in DOMAIN journal', i < k PROVE to[i] < to[k]
  <2>1. i \in DOMAIN journal
    BY <1>6, <1>21
  <2>2. CASE k = n
    BY <1>16, <1>18, <1>19, <2>1, <2>2
  <2>3. CASE k # n
    BY <1>11, <1>17, <1>18, <1>21, <2>1, <2>3 DEF Stands
  <2> QED
    BY <2>2, <2>3
<1>22. ASSUME NEW m \in DOMAIN f
       PROVE  (\E i \in DOMAIN journal' : m = to[i]) \/ (f[m].kind = "admit" /\ ~f[m].allow)
  <2>1. CASE m \in DOMAIN g
    <3>1. (\E i \in DOMAIN journal : m = at[i]) \/ (g[m].kind = "admit" /\ ~g[m].allow)
      BY <1>11, <2>1 DEF Stands
    <3> QED
      BY <1>16, <1>18, <2>1, <3>1
  <2>2. CASE m = l
    <3>1. n \in DOMAIN journal' /\ m = to[n]
      BY <1>6, <1>19, <2>2
    <3> QED
      BY <3>1
  <2>3. CASE m = p + 1 /\ q = 2
    <3>1. f[m] = EntryOf(u[1]) /\ u[1].kind = "request"
      BY <1>7, <1>13, <1>16, <2>3
    <3>2. \A v : v.kind = "request" => EntryOf(v).kind = "admit" /\ ~EntryOf(v).allow
      BY DEF EntryOf
    <3> QED
      BY <3>1, <3>2
  <2> QED
    BY <1>16, <2>1, <2>2, <2>3
<1>23. Stands(to, journal', f)
  BY <1>20, <1>21, <1>22 DEF Stands
<1> QED
  BY <1>3, <1>9, <1>23

\* What the audit finds of the requests so far, and of the new one.
LEMMA RecordKeepsAudit ==
  ASSUME TypeOK, TraceInv, NEW e \in Sendable, Record(e),
         NEW c, c = HostEvents(journal'), NEW m \in Requests(c)
  PROVE  /\ \E i \in DOMAIN journal' : journal'[i].id = c[m].id
         /\ Audited(c, m) <=> Dispatched(c[m].id)'
<1>1. PICK t : t = HostEvents(journal)
  OBVIOUS
<1>2. PICK u : u = EventsOf(Row(e))
  OBVIOUS
<1>3. /\ t \in Seq(TraceEvents) /\ Len(t) \in Nat /\ Len(u) \in {1, 2} /\ DOMAIN t = 1..Len(t)
      /\ DOMAIN c = 1..(Len(t) + Len(u))
      /\ \A k \in 1..Len(t) : c[k] = t[k]
      /\ \A k \in 1..Len(u) : c[Len(t) + k] = u[k]
  BY <1>1, <1>2, TraceGrows
<1>4. PICK n : n = Len(journal) + 1
  OBVIOUS
<1>5. /\ n \in Nat /\ n \notin DOMAIN journal /\ DOMAIN journal' = DOMAIN journal \cup {n}
      /\ \A i \in DOMAIN journal : journal'[i] = journal[i]
      /\ journal'[n] = Row(e) /\ Row(e) \in Entries /\ journal \in Seq(Entries)
  <2>1. /\ n \in Nat /\ DOMAIN journal = 1..(n - 1) /\ DOMAIN journal' = 1..n
        /\ \A i \in DOMAIN journal : journal'[i] = journal[i]
        /\ journal'[n] = Row(e) /\ Row(e) \in Entries
    BY <1>4, RecordedJournal
  <2>2. n \notin 1..(n - 1) /\ 1..n = 1..(n - 1) \cup {n}
    BY <1>4, RecordedJournal
  <2> QED
    BY <2>1, <2>2 DEF TypeOK
<1>6. /\ Row(e).kind = e.kind /\ Row(e).id = e.id
      /\ Row(e).allow = (e.kind = "admit" /\ Decide(journal, e))
  BY AnswerKeepsCommand DEF Row, Sendable
<1>7. CASE m \in DOMAIN t
  <2>1. c[m] = t[m] /\ m \in Requests(t) /\ m \in 1..Len(t)
    BY <1>3, <1>7 DEF Requests
  <2>2. /\ \E i \in DOMAIN journal : journal[i].id = t[m].id
        /\ Audited(t, m) <=> Dispatched(t[m].id)
    BY <1>1, <2>1 DEF TraceInv
  <2>3. Audited(c, m) = Audited(t, m)
    <3>1. \A k \in 1..(m - 1) : c[k] = t[k]
      BY <1>3, <2>1
    <3>2. [k \in 1..(m - 1) |-> EntryOf(c[k])] = [k \in 1..(m - 1) |-> EntryOf(t[k])]
      BY <3>1
    <3> QED
      BY <2>1, <3>2 DEF Audited
  <2>4. IsDispatch(Row(e)) => Row(e).id # t[m].id
    <3> SUFFICES ASSUME IsDispatch(Row(e)) PROVE e.id # t[m].id
      BY <1>6
    <3>1. UnusedId(journal, e)
      BY <1>6 DEF Record, Accepts, IsDispatch, OutcomeKinds, TrustedKinds
    <3> QED
      BY <2>2, <3>1 DEF UnusedId
  <2>5. Dispatched(t[m].id)' <=> Dispatched(t[m].id)
    <3>1. PICK id : id = t[m].id
      OBVIOUS
    <3>2. (\E k \in DOMAIN journal' : IsDispatch(journal'[k]) /\ journal'[k].id = id)
            <=> \E k \in DOMAIN journal : IsDispatch(journal[k]) /\ journal[k].id = id
      BY <1>5, <2>4, <3>1
    <3> QED
      BY <2>1, <3>1, <3>2 DEF Dispatched
  <2> QED
    BY <1>5, <2>1, <2>2, <2>3, <2>5
<1>8. CASE m \notin DOMAIN t
  <2>1. PICK k \in 1..Len(u) : m = Len(t) + k
    <3>1. m - Len(t) \in 1..Len(u) /\ m = Len(t) + (m - Len(t))
      BY <1>3, <1>8 DEF Requests
    <3> QED
      BY <3>1
  <2>2. c[m] = u[k] /\ c[m].kind = "request"
    BY <1>3, <2>1 DEF Requests
  <2>3. Row(e).kind = "admit" /\ k = 1 /\ u[1] = Event(Row(e), "request")
    <3>1. Row(e).allow => Row(e).kind = "admit"
      BY <1>6
    <3> QED
      BY <1>2, <1>5, <2>2, <3>1, EventsOfRow
  <2>4. m - 1 = Len(t) /\ c[m] = Event(Row(e), "request") /\ e.kind = "admit"
    BY <1>3, <1>6, <2>1, <2>2, <2>3
  <2>5. EntryOf(c[m]) = e
    <3>1. e \in Entries /\ e.allow = FALSE
      BY DEF Sendable, Commands, Entries
    <3>2. e = [kind |-> "admit", id |-> e.id, session |-> e.session, call |-> e.call,
               binding |-> e.binding, time |-> e.time, allow |-> FALSE]
      BY <2>4, <3>1 DEF Entries
    <3>3. /\ Row(e).session = e.session /\ Row(e).call = e.call
          /\ Row(e).binding = e.binding /\ Row(e).time = e.time
      BY AnswerKeepsCommand DEF Row, Sendable
    <3>4. EntryOf(Event(Row(e), "request")) =
            [kind |-> "admit", id |-> e.id, session |-> e.session, call |-> e.call,
             binding |-> e.binding, time |-> e.time, allow |-> FALSE]
      BY <1>6, <3>3 DEF EntryOf, Event
    <3> QED
      BY <2>4, <3>2, <3>4
  <2>6. PICK g : g = EntriesOf(t)
    OBVIOUS
  <2>7. [i \in 1..(m - 1) |-> EntryOf(c[i])] = g
    <3>1. \A i \in 1..Len(t) : EntryOf(c[i]) = EntryOf(t[i])
      BY <1>3
    <3> QED
      BY <2>4, <2>6, <3>1 DEF EntriesOf
  <2>8. Audited(c, m) <=> Decide(journal, e)
    <3>1. PICK at : Stands(at, journal, g)
      BY <1>1, <2>6 DEF TraceInv
    <3>2. g \in Seq(Entries)
      BY <1>3, <2>6, EntriesOfTrace
    <3>3. Decide(g, e) <=> Decide(journal, e)
      BY <1>5, <3>1, <3>2, DecidedThere
    <3> QED
      BY <2>5, <2>7, <3>3 DEF Audited
  <2>9. c[m].id = e.id
    BY <1>6, <2>4 DEF Event
  <2>10. Dispatched(c[m].id)' <=> IsDispatch(Row(e))
    <3>1. UnusedId(journal, e)
      BY <2>4 DEF Record, Accepts, OutcomeKinds, TrustedKinds
    <3>2. PICK id : id = e.id
      OBVIOUS
    <3>3. (\E i \in DOMAIN journal' : IsDispatch(journal'[i]) /\ journal'[i].id = id)
            <=> IsDispatch(Row(e))
      BY <1>5, <1>6, <3>1, <3>2 DEF UnusedId
    <3> QED
      BY <2>9, <3>2, <3>3 DEF Dispatched
  <2> QED
    BY <1>5, <1>6, <2>4, <2>8, <2>9, <2>10 DEF IsDispatch
<1> QED
  BY <1>7, <1>8

LEMMA RecordKeepsTrace ==
  ASSUME TypeOK, TraceInv, TimeMovesForward', NEW e \in Sendable, Record(e)
  PROVE  TraceInv'
<1>1. PICK t : t = HostEvents(journal)
  OBVIOUS
<1>2. PICK u : u = EventsOf(Row(e))
  OBVIOUS
<1>3. PICK c : c = HostEvents(journal')
  OBVIOUS
<1>4. PICK n : n = Len(journal) + 1
  OBVIOUS
<1>5. /\ n \in Nat /\ n \notin DOMAIN journal /\ DOMAIN journal' = DOMAIN journal \cup {n}
      /\ \A i \in DOMAIN journal : /\ journal'[i] = journal[i] /\ i \in 1..(n - 1)
                                   /\ journal[i] \in Entries
      /\ journal'[n] = Row(e) /\ Row(e) \in Entries
  <2>1. /\ n \in Nat \ {0} /\ DOMAIN journal = 1..(n - 1) /\ DOMAIN journal' = 1..n
        /\ \A i \in DOMAIN journal : journal'[i] = journal[i] /\ journal[i] \in Entries
        /\ journal'[n] = Row(e) /\ Row(e) \in Entries
    BY <1>4, RecordedJournal
  <2>2. n \notin 1..(n - 1) /\ 1..n = 1..(n - 1) \cup {n}
    BY <2>1
  <2> QED
    BY <2>1, <2>2
<1>6. /\ Row(e).kind = e.kind /\ Row(e).id = e.id
      /\ Row(e).allow = (e.kind = "admit" /\ Decide(journal, e))
      /\ Row(e).time \in Nat
  BY <1>5, AnswerKeepsCommand DEF Row, Sendable, Entries
<1>7. PICK p \in Nat : p = Len(t)
  BY <1>1, <1>2, TraceGrows
<1>8. PICK q \in {1, 2} : q = Len(u)
  BY <1>1, <1>2, TraceGrows
<1>9. /\ DOMAIN t = 1..p /\ DOMAIN c = 1..(p + q)
      /\ \A m \in 1..p : c[m] = t[m]
      /\ \A m \in 1..q : c[p + m] = u[m]
  BY <1>1, <1>2, <1>3, <1>7, <1>8, TraceGrows
<1>10. \A m \in 1..(p + q) : m \in 1..p \/ (m > p /\ c[m].time = Row(e).time)
  <2>1. \A m \in 1..q : u[m].time = Row(e).time
    <3>1. Row(e) \in Entries /\ (Row(e).allow => Row(e).kind = "admit")
      BY <1>5, <1>6
    <3>2. \A m \in 1..Len(EventsOf(Row(e))) : EventsOf(Row(e))[m].time = Row(e).time
      BY <3>1, EventsOfRow
    <3> QED
      BY <1>2, <1>8, <3>2
  <2>2. ASSUME NEW m \in 1..(p + q), m \notin 1..p PROVE m > p /\ c[m].time = Row(e).time
    <3>1. PICK k \in 1..q : p + k = m
      <4>1. m - p \in 1..q /\ p + (m - p) = m
        BY <2>2
      <4> QED
        BY <4>1
    <3>2. c[m] = u[k] /\ u[k].time = Row(e).time
      BY <1>9, <2>1, <3>1
    <3> QED
      BY <2>2, <3>2
  <2> QED
    BY <2>2
<1>11. /\ \A m \in DOMAIN t : \E i \in DOMAIN journal : t[m].time = journal[i].time
       /\ \A m, k \in DOMAIN t : m < k => t[m].time <= t[k].time
  BY <1>1 DEF TraceInv
<1>12. \A i \in DOMAIN journal' : journal'[i].allow => journal'[i].kind = "admit"
  BY <1>5, <1>6 DEF TraceInv
<1>13. Readable(journal')
  <2> SUFFICES ASSUME NEW i \in DOMAIN journal', journal'[i].kind \in OutcomeKinds
               PROVE  \E k \in 1..(i - 1) : IsDispatch(journal'[k]) /\ journal'[k].id = journal'[i].id
    BY DEF Readable
  <2>1. CASE i \in DOMAIN journal
    <3>1. PICK k \in 1..(i - 1) : IsDispatch(journal[k]) /\ journal[k].id = journal[i].id
      BY <1>5, <2>1 DEF TraceInv, Readable
    <3>2. k \in DOMAIN journal
      <4>1. DOMAIN journal = 1..(n - 1)
        BY <1>4, RecordedJournal
      <4> QED
        BY <1>5, <2>1, <4>1
    <3> QED
      BY <1>5, <2>1, <3>1, <3>2
  <2>2. CASE i = n
    <3>1. e.kind \in OutcomeKinds
      BY <1>5, <1>6, <2>2
    <3>2. ValidOutcome(journal, e)
      BY <3>1 DEF Record, Accepts, OutcomeKinds, TrustedKinds
    <3>3. PICK k \in DOMAIN journal : IsDispatch(journal[k]) /\ journal[k].id = e.id
      BY <3>2 DEF ValidOutcome
    <3> QED
      BY <1>5, <1>6, <2>2, <3>3
  <2> QED
    BY <1>5, <2>1, <2>2
<1>14. \E at : Stands(at, journal', EntriesOf(c))
  BY <1>3, RecordKeepsStanding
<1>15. ASSUME NEW m \in DOMAIN c PROVE \E i \in DOMAIN journal' : c[m].time = journal'[i].time
  <2>1. CASE m \in 1..p
    BY <1>5, <1>9, <1>11, <2>1
  <2>2. CASE m \notin 1..p
    BY <1>5, <1>9, <1>10, <2>2
  <2> QED
    BY <2>1, <2>2
<1>16. ASSUME NEW m \in DOMAIN c, NEW k \in DOMAIN c, m < k PROVE c[m].time <= c[k].time
  <2>1. CASE k \in 1..p
    <3>1. m \in 1..p
      BY <1>9, <1>16, <2>1
    <3> QED
      BY <1>9, <1>11, <1>16, <2>1, <3>1
  <2>2. CASE k \notin 1..p /\ m \in 1..p
    <3>1. PICK i \in DOMAIN journal : c[m].time = journal[i].time
      BY <1>9, <1>11, <2>2
    <3>2. journal'[i].time <= journal'[n].time
      BY <1>5 DEF TimeMovesForward
    <3> QED
      BY <1>5, <1>9, <1>10, <2>2, <3>1, <3>2
  <2>3. CASE k \notin 1..p /\ m \notin 1..p
    <3>1. c[k].time = Row(e).time /\ c[m].time = Row(e).time
      BY <1>9, <1>10, <2>3
    <3> QED
      BY <1>6, <3>1
  <2> QED
    BY <2>1, <2>2, <2>3
<1>17. \A m \in Requests(c) : /\ \E i \in DOMAIN journal' : journal'[i].id = c[m].id
                              /\ Audited(c, m) <=> Dispatched(c[m].id)'
  BY <1>3, RecordKeepsAudit
<1> QED
  BY <1>3, <1>12, <1>13, <1>14, <1>15, <1>16, <1>17 DEF TraceInv

LEMMA InitTraceInv == Init => TraceInv
<1> SUFFICES ASSUME Init PROVE TraceInv
  OBVIOUS
<1>1. journal = << >> /\ DOMAIN journal = {} /\ Len(journal) = 0
  BY EmptySeq DEF Init
<1>2. HostEvents(journal) = << >>
  BY <1>1 DEF HostEvents, FlattenSeq
<1>3. DOMAIN << >> = {} /\ Len(<< >>) = 0
  BY EmptySeq
<1>4. Stands(<< >>, journal, EntriesOf(<< >>))
  <2>1. DOMAIN EntriesOf(<< >>) = {}
    BY <1>3 DEF EntriesOf
  <2> QED
    BY <1>1, <2>1 DEF Stands
<1> QED
  BY <1>1, <1>2, <1>3, <1>4 DEF TraceInv, Readable, Requests

LEMMA TraceInvariance == Spec => []TraceInv
<1>1. IInv /\ TraceInv /\ JournalInv' /\ [Next]_vars => TraceInv'
  <2> SUFFICES ASSUME IInv, TraceInv, JournalInv', [Next]_vars PROVE TraceInv'
    OBVIOUS
  <2>1. TypeOK /\ TimeMovesForward'
    BY DEF IInv, JournalInv
  <2>2. ASSUME NEW e \in Sendable, Record(e) PROVE TraceInv'
    BY <2>1, <2>2, RecordKeepsTrace
  <2>3. ASSUME journal' = journal PROVE TraceInv'
    BY <2>3 DEF TraceInv, Dispatched
  <2> QED
    BY <2>1, <2>2, <2>3, Steps DEF Run, vars
<1> QED
  BY <1>1, InitTraceInv, Invariance, JournalInvariance, PTL DEF Spec

\* Whatever a host recorded, its trace can be read and audited, and for every request the
\* audit finds what the live engine decided (host.py:168-215, replay.py:49-133,
\* RuntimeCore.lean:84-101).
THEOREM AuditsAgreeWithEngine == Spec => []AuditFindsLiveDecisions
<1>1. IInv /\ TraceInv => AuditFindsLiveDecisions
  <2> SUFFICES ASSUME IInv, TraceInv PROVE AuditFindsLiveDecisions
    OBVIOUS
  <2>1. PICK t : t = HostEvents(journal)
    OBVIOUS
  <2>2. t \in Seq(TraceEvents)
    BY <2>1, HostEventsType DEF TraceInv, IInv, TypeOK
  <2>3. Len(t) \in Nat /\ DOMAIN t = 1..Len(t) /\ \A m \in DOMAIN t : t[m].kind \in EventKinds
    <3>1. Len(t) \in Nat /\ DOMAIN t = 1..Len(t) /\ \A m \in DOMAIN t : t[m] \in TraceEvents
      BY <2>2, LenProperties, ElementOfSeq
    <3> QED
      BY <3>1 DEF TraceEvents
  <2>4. Auditable(t)
    <3>1. \A m \in 1..(Len(t) - 1) : m \in DOMAIN t /\ m + 1 \in DOMAIN t /\ m < m + 1
      BY <2>3
    <3> QED
      BY <2>1, <2>3, <3>1 DEF TraceInv, Auditable
  <2> QED
    BY <2>1, <2>4 DEF AuditFindsLiveDecisions, TraceInv
<1> QED
  BY <1>1, Invariance, TraceInvariance, PTL
===============================================================================
