--------------------------- MODULE GuardHostProofs ----------------------------
(***************************************************************************)
(* What holds of the host for every number of threads, hosts and faults.   *)
(*                                                                         *)
(* The inductive invariant HInv is the type invariant together with the    *)
(* facts that tie a thread's position to the locks it holds, to the phase  *)
(* of its host and to the command it is about to record.                   *)
(* RInv adds how the engine's memory follows the journal, and with it the  *)
(* host implements Monitor and inherits its theorems.  SInv adds what a    *)
(* thread on its way to a tool may rely on.                                *)
(***************************************************************************)
EXTENDS GuardHost, TLAPS, SequenceTheorems

\* A thread past the acquisition of the host's lock owns it.
LockHeld == \A c \in Callers : pc[c] \in HostHeld => hostLock[HostOf[c]] = c

\* Threads are in calls of open hosts only.
CallsAreInside == \A c \in Callers : pc[c] # "idle" => phase[HostOf[c]] = "open"

\* A host that is being opened, or is open, has its conversation.
OpenedHasSession == \A h \in Hosts : phase[h] # "closed" => session[h] \in Sessions

\* While metadata is inserted, a row of it is missing.
PinMissesRows == \A h \in Hosts : phase[h] = "pin" => pin.rows < PinRows

\* What a thread carries from the start of its call.
ContextFits ==
  \A c \in Callers :
    pc[c] # "idle" =>
      /\ ctx[c].op \in Ops
      /\ ctx[c].op = "prepare" => ctx[c].call \in Calls /\ ctx[c].token \in Tokens
      /\ ctx[c].op = "observe" => ctx[c].call \in Subjects
      /\ ctx[c].op = "user" => ctx[c].call \in UserCalls
      /\ ctx[c].op = "execute" => ctx[c].call \in Calls /\ ctx[c].id \in Ids
      /\ ctx[c].op # "execute" => ctx[c].id = NoId

\* The command a thread is recording, or the dispatch whose tool it is to run.
EntryFits ==
  \A c \in Callers :
    /\ pc[c] \in {"begin", "engine", "commit", "tool"} =>
         /\ entry[c] \in Entries
         /\ entry[c].kind = "admit" => entry[c].id \in Ids /\ entry[c].call \in Calls
    /\ pc[c] = "tool" => IsDispatch(entry[c])

HInv ==
  /\ TypeOK
  /\ LockHeld
  /\ CallsAreInside
  /\ OpenedHasSession
  /\ SingleWriter
  /\ PinMissesRows
  /\ ContextFits
  /\ EntryFits

USE DEF PCs, HostHeld, Ops, PinRows

LEMMA InitHInv == Init => HInv
BY HostAssumption, EmptySeq
   DEF Init, HInv, TypeOK, LockHeld, CallsAreInside, OpenedHasSession, SingleWriter, PinMissesRows,
       ContextFits, EntryFits, Contexts, NoContext, Context

-------------------------------------------------------------------------------
\* Facts about the values that actions build

LEMMA ContextTypes ==
  ASSUME NEW op \in Ops, NEW call \in Calls \cup Subjects \cup UserCalls \cup {NoCall},
         NEW t \in Tokens \cup {NoToken}, NEW i \in Ids \cup {NoId}
  PROVE  Context(op, call, t, i) \in Contexts
BY DEF Context, Contexts

LEMMA SubjectTypes ==
  ASSUME NEW call \in Calls \cup UserCalls
  PROVE  Subject(call) \in Subjects
BY DEF Subject, Subjects, Calls, Reads, Writes, UserCalls

LEMMA CommandTypes ==
  ASSUME HInv, NEW c \in Callers, pc[c] # "idle",
         NEW kind \in {"admit"} \cup TrustedKinds, NEW call \in Calls \cup Subjects, NEW tm \in Times
  PROVE  Command(c, kind, call, tm) \in Entries
BY HostAssumption
   DEF HInv, TypeOK, CallsAreInside, OpenedHasSession, Command, Entries, Contexts

\* An answered command is an entry, with the fields of the command.
LEMMA AnswerTypes ==
  ASSUME NEW h, NEW e \in Entries
  PROVE  /\ Answer(h, e) \in Entries
         /\ Answer(h, e).kind = e.kind /\ Answer(h, e).id = e.id /\ Answer(h, e).call = e.call
BY DEF Answer, Entries

\* A tool leaves the backend with a content.
LEMMA EffectTypes ==
  ASSUME content \in Values, NEW call \in Calls
  PROVE  Effect(call) \in Values
BY DEF Effect, Calls, Reads, Writes

-------------------------------------------------------------------------------
LEMMA StartKeepsHInv ==
  ASSUME HInv, NEW c \in Callers, Begins(c)
  PROVE  HInv'
<1> DEFINE Fits(x) == /\ x \in Contexts /\ x.op \in Ops
                      /\ x.op = "prepare" => x.call \in Calls /\ x.token \in Tokens
                      /\ x.op = "observe" => x.call \in Subjects
                      /\ x.op = "user" => x.call \in UserCalls
                      /\ x.op = "execute" => x.call \in Calls /\ x.id \in Ids
                      /\ x.op # "execute" => x.id = NoId
<1>1. PICK x : Start(c, x) /\ Fits(x)
  <2>1. ASSUME StartPrepare(c) PROVE \E x : Start(c, x) /\ Fits(x)
    BY <2>1 DEF StartPrepare, Context, Contexts
  <2>2. ASSUME StartConfirm(c) PROVE \E x : Start(c, x) /\ Fits(x)
    BY <2>2 DEF StartConfirm, Context, Contexts
  <2>3. ASSUME StartObserve(c) PROVE \E x : Start(c, x) /\ Fits(x)
    BY <2>3 DEF StartObserve, Context, Contexts
  <2>4. ASSUME StartUserAction(c) PROVE \E x : Start(c, x) /\ Fits(x)
    BY <2>4 DEF StartUserAction, Context, Contexts
  <2>5. ASSUME StartExecute(c) PROVE \E x : Start(c, x) /\ Fits(x)
    BY <2>5 DEF StartExecute, Context, Contexts
  <2>6. ASSUME StartClose(c) PROVE \E x : Start(c, x) /\ Fits(x)
    BY <2>6 DEF StartClose, Context, Contexts
  <2> QED
    BY <2>1, <2>2, <2>3, <2>4, <2>5, <2>6 DEF Begins
<1>2. /\ pc[c] = "idle" /\ phase[HostOf[c]] = "open"
      /\ pc' = [pc EXCEPT ![c] = "host"]
      /\ ctx' = [ctx EXCEPT ![c] = x]
      /\ starts' = starts + 1 /\ starts < MaxStarts
      /\ UNCHANGED <<journal, proposals, pin, flock, installed, up, running, log, phase, session,
                     txn, unsaved, hostLock, entry, adapterLock, content, ran, ranOn, faults, writes>>
  BY <1>1 DEF Start, At, Goto, disk, engine, object, backend
<1>3. TypeOK'
  BY <1>1, <1>2, HostAssumption DEF HInv, TypeOK
<1>4. LockHeld' /\ CallsAreInside' /\ OpenedHasSession' /\ SingleWriter' /\ PinMissesRows'
  BY <1>2 DEF HInv, TypeOK, LockHeld, CallsAreInside, OpenedHasSession, SingleWriter, PinMissesRows
<1>5. ContextFits'
  BY <1>1, <1>2 DEF HInv, TypeOK, ContextFits
<1>6. EntryFits'
  BY <1>2 DEF HInv, TypeOK, EntryFits
<1> QED
  BY <1>3, <1>4, <1>5, <1>6 DEF HInv

LEMMA EnterKeepsHInv ==
  ASSUME HInv, NEW c \in Callers, AcquireHost(c) \/ AcquireAdapter(c) \/ Leave(c)
  PROVE  HInv'
<1> USE DEF disk, engine, object, calls, backend, bounds, At, Goto
<1>1. CASE AcquireHost(c)
  <2>1. TypeOK'
    <3>1. pc' \in [Callers -> PCs]
      BY <1>1 DEF AcquireHost, NeedsAdapter, HInv, TypeOK
    <3>2. hostLock' \in [Hosts -> Callers \cup {NoCaller}]
      BY <1>1 DEF AcquireHost, HInv, TypeOK
    <3> QED
      BY <1>1, <3>1, <3>2 DEF AcquireHost, NeedsAdapter, HInv, TypeOK
  <2>2. LockHeld'
    <3> SUFFICES ASSUME NEW d \in Callers, pc'[d] \in HostHeld
                 PROVE  hostLock'[HostOf[d]] = d
      BY DEF LockHeld
    <3>1. CASE d = c
      BY <1>1, <3>1, HostAssumption DEF AcquireHost, HInv, TypeOK
    <3>2. CASE d # c
      <4>1. pc[d] \in HostHeld /\ hostLock[HostOf[d]] = d
        BY <1>1, <3>2 DEF AcquireHost, NeedsAdapter, HInv, TypeOK, LockHeld
      <4>2. HostOf[d] # HostOf[c]
        BY <1>1, <4>1, HostAssumption DEF AcquireHost, HostFree
      <4> QED
        BY <1>1, <4>1, <4>2, HostAssumption DEF AcquireHost, HInv, TypeOK
    <3> QED
      BY <3>1, <3>2
  <2>4. CallsAreInside'
    BY <1>1 DEF AcquireHost, NeedsAdapter, HInv, TypeOK, CallsAreInside
  <2>3. OpenedHasSession' /\ SingleWriter' /\ PinMissesRows' /\ ContextFits' /\ EntryFits'
    BY <1>1 DEF AcquireHost, HInv, TypeOK, OpenedHasSession, SingleWriter, PinMissesRows,
                ContextFits, EntryFits
  <2> QED
    BY <2>1, <2>2, <2>3, <2>4 DEF HInv
<1>2. CASE AcquireAdapter(c)
  <2>1. TypeOK'
    BY <1>2 DEF AcquireAdapter, HInv, TypeOK
  <2>2. LockHeld' /\ CallsAreInside'
    BY <1>2 DEF AcquireAdapter, HInv, TypeOK, LockHeld, CallsAreInside
  <2>3. OpenedHasSession' /\ SingleWriter' /\ PinMissesRows' /\ ContextFits' /\ EntryFits'
    BY <1>2 DEF AcquireAdapter, HInv, TypeOK, OpenedHasSession, SingleWriter, PinMissesRows,
                ContextFits, EntryFits
  <2> QED
    BY <2>1, <2>2, <2>3 DEF HInv
<1>3. CASE Leave(c)
  <2>1. TypeOK'
    BY <1>3, HostAssumption DEF Leave, AdapterAfter, NoContext, Context, Contexts, HInv, TypeOK
  <2>2. LockHeld' /\ CallsAreInside'
    BY <1>3, HostAssumption DEF Leave, HInv, TypeOK, LockHeld, CallsAreInside
  <2>3. OpenedHasSession' /\ SingleWriter' /\ PinMissesRows' /\ ContextFits' /\ EntryFits'
    BY <1>3 DEF Leave, HInv, TypeOK, OpenedHasSession, SingleWriter, PinMissesRows,
                ContextFits, EntryFits
  <2> QED
    BY <2>1, <2>2, <2>3 DEF HInv
<1> QED
  BY <1>1, <1>2, <1>3

-------------------------------------------------------------------------------
\* A thread that holds its lock moves on, and changes no more than its position and
\* its command in the state that the invariant's other conjuncts speak of.

Carries(l, x) ==
  /\ l \in {"begin", "engine", "commit", "tool"} =>
       /\ x \in Entries
       /\ x.kind = "admit" => x.id \in Ids /\ x.call \in Calls
  /\ l = "tool" => IsDispatch(x)

LEMMA MoveKeepsHInv ==
  ASSUME HInv, TypeOK', NEW c \in Callers, NEW l \in HostHeld,
         NEW x \in Entries \cup {NoEntry},
         pc[c] \in HostHeld, pc' = [pc EXCEPT ![c] = l],
         entry' = [entry EXCEPT ![c] = x], Carries(l, x),
         UNCHANGED <<pin, flock, phase, session, hostLock, ctx>>
  PROVE  HInv'
<1>1. LockHeld' /\ CallsAreInside'
  BY DEF HInv, TypeOK, LockHeld, CallsAreInside
<1>2. OpenedHasSession' /\ SingleWriter' /\ PinMissesRows'
  BY DEF HInv, OpenedHasSession, SingleWriter, PinMissesRows
<1>3. ContextFits'
  BY DEF HInv, TypeOK, ContextFits
<1>4. EntryFits'
  BY DEF HInv, TypeOK, EntryFits, Carries
<1> QED
  BY <1>1, <1>2, <1>3, <1>4 DEF HInv

\* The command stays as it is.
LEMMA MoveOnlyKeepsHInv ==
  ASSUME HInv, TypeOK', NEW c \in Callers, NEW l \in HostHeld,
         pc[c] \in HostHeld, pc' = [pc EXCEPT ![c] = l],
         l \in {"begin", "engine", "commit", "tool"} =>
           pc[c] \in {"begin", "engine", "commit", "tool"},
         l = "tool" => pc[c] = "tool" \/ IsDispatch(entry[c]),
         UNCHANGED <<entry, pin, flock, phase, session, hostLock, ctx>>
  PROVE  HInv'
<1>1. entry' = [entry EXCEPT ![c] = entry[c]]
  BY DEF HInv, TypeOK
<1>2. Carries(l, entry[c])
  BY DEF Carries, HInv, EntryFits
<1>3. entry[c] \in Entries \cup {NoEntry}
  BY DEF HInv, TypeOK
<1> QED
  BY <1>1, <1>2, <1>3, MoveKeepsHInv

LEMMA CheckKeepsHInv ==
  ASSUME HInv, NEW c \in Callers,
         Prepare(c) \/ Confirm(c) \/ Observe(c) \/ UserAction(c) \/ Execute(c)
  PROVE  HInv'
<1> USE DEF disk, engine, object, calls, backend, bounds, At, Goto
<1> DEFINE token == ctx[c].token
           h == HostOf[c]
<1>1. CASE Prepare(c)
  <2>1. /\ token \in Tokens /\ ctx[c].call \in Calls /\ session[h] \in Sessions
        /\ unsaved[h] \in SUBSET Tokens
    BY <1>1, HostAssumption DEF Prepare, HInv, TypeOK, ContextFits, OpenedHasSession
  <2>2. [call |-> ctx[c].call, revision |-> content, session |-> session[h]] \in Proposals
    BY <2>1 DEF Proposals, HInv, TypeOK
  <2>3. proposals' \in [Tokens -> Proposals \cup {NoProposal}]
    BY <1>1, <2>2 DEF Prepare, HInv, TypeOK
  <2>4. unsaved' \in [Hosts -> SUBSET Tokens]
    BY <1>1, <2>1 DEF Prepare, HInv, TypeOK
  <2>5. TypeOK'
    BY <1>1, <2>3, <2>4 DEF Prepare, HInv, TypeOK
  <2> QED
    BY <1>1, <2>5, MoveOnlyKeepsHInv DEF Prepare
<1>2. ASSUME NEW kind \in {"admit"} \cup TrustedKinds, NEW call \in Calls \cup Subjects,
             kind = "admit" => ctx[c].op = "execute" /\ call \in Calls,
             RecordNext(c, kind, call), pc[c] = "check",
             UNCHANGED <<disk, installed, engine, object, ctx, adapterLock, ran, ranOn, bounds>>,
             content' \in Values
      PROVE  HInv'
  <2>1. PICK tm \in Times : entry' = [entry EXCEPT ![c] = Command(c, kind, call, tm)]
    BY <1>2 DEF RecordNext
  <2>2. Command(c, kind, call, tm) \in Entries
    BY <1>2, CommandTypes
  <2>3. Carries("begin", Command(c, kind, call, tm))
    BY <1>2, <2>2 DEF Carries, Command, HInv, ContextFits
  <2>4. TypeOK'
    <3>1. entry' \in [Callers -> Entries \cup {NoEntry}] /\ pc' \in [Callers -> PCs]
      BY <1>2, <2>1, <2>2 DEF RecordNext, HInv, TypeOK
    <3> QED
      BY <1>2, <3>1 DEF HInv, TypeOK
  <2> QED
    BY <1>2, <2>1, <2>2, <2>3, <2>4, MoveKeepsHInv DEF RecordNext
<1>3. ASSUME NEW l \in {"return", "raise"}, Goto(c, l), pc[c] = "check",
             UNCHANGED <<disk, installed, engine, object, ctx, entry, adapterLock, ran, ranOn, bounds>>,
             content' \in Values
      PROVE  HInv'
  <2>1. TypeOK'
    BY <1>3 DEF HInv, TypeOK
  <2> QED
    BY <1>3, <2>1, MoveOnlyKeepsHInv
<1>4. CASE Confirm(c)
  <2>1. CASE Known(c) /\ Fresh(c)
    <3>1. proposals[token] \in Proposals
      BY <2>1, <1>4 DEF Known, Confirm, HInv, TypeOK, Contexts
    <3>2. Subject(proposals[token].call) \in Subjects
      BY <3>1, SubjectTypes DEF Proposals
    <3> QED
      BY <1>2, <1>4, <2>1, <3>2 DEF Confirm, TrustedKinds, HInv, TypeOK
  <2>2. CASE ~(Known(c) /\ Fresh(c))
    BY <1>3, <1>4, <2>2 DEF Confirm, HInv, TypeOK
  <2> QED
    BY <2>1, <2>2
<1>5. CASE Observe(c)
  <2>1. ctx[c].call \in Subjects
    BY <1>5 DEF Observe, HInv, ContextFits
  <2> QED
    BY <1>2, <1>5, <2>1 DEF Observe, TrustedKinds, HInv, TypeOK
<1>6. CASE UserAction(c)
  <2>1. ctx[c].call \in UserCalls
    BY <1>6 DEF UserAction, HInv, ContextFits
  <2>2. Subject(ctx[c].call) \in Subjects /\ ctx[c].call.value \in Values
    BY <2>1, SubjectTypes DEF UserCalls
  <2>3. content' \in Values
    BY <1>6, <2>2 DEF UserAction, HInv, TypeOK
  <2> QED
    BY <1>2, <1>3, <1>6, <2>2, <2>3 DEF UserAction, TrustedKinds
<1>7. CASE Execute(c)
  <2>1. ctx[c].call \in Calls
    BY <1>7 DEF Execute, HInv, ContextFits
  <2> QED
    BY <1>2, <1>3, <1>7, <2>1 DEF Execute, HInv, TypeOK
<1> QED
  BY <1>1, <1>4, <1>5, <1>6, <1>7

LEMMA RecordKeepsHInv ==
  ASSUME HInv, NEW c \in Callers,
         \/ Begin(c) \/ EngineAnswers(c) \/ EngineFails(c)
         \/ Commit(c) \/ CommitFails(c) \/ CommitInterrupted(c)
         \/ Rollback(c) \/ Recover(c)
  PROVE  HInv'
<1> USE DEF disk, engine, object, calls, backend, bounds, At, Goto
<1> DEFINE h == HostOf[c]
<1>1. h \in Hosts /\ faults \in 0..MaxFaults /\ MaxFaults \in Nat
  BY HostAssumption DEF HInv, TypeOK
<1>2. CASE Begin(c)
  <2>1. txn' \in [Hosts -> BOOLEAN] /\ pc' \in [Callers -> PCs]
    BY <1>1, <1>2 DEF Begin, HInv, TypeOK
  <2>2. faults' \in 0..MaxFaults
    BY <1>1, <1>2 DEF Begin, FaultHappens
  <2>3. TypeOK'
    BY <1>2, <2>1, <2>2 DEF Begin, HInv, TypeOK
  <2> QED
    BY <1>2, <2>3, MoveOnlyKeepsHInv DEF Begin
<1>3. CASE EngineAnswers(c)
  <2> DEFINE answer == Answer(log[h], entry[c])
  <2>1. /\ entry[c] \in Entries
        /\ entry[c].kind = "admit" => entry[c].id \in Ids /\ entry[c].call \in Calls
    BY <1>3 DEF EngineAnswers, HInv, EntryFits
  <2>2. answer \in Entries /\ Carries("commit", answer)
    BY <2>1, AnswerTypes DEF Carries
  <2>3. log' = [log EXCEPT ![h] = Append(@, answer)] /\ log[h] \in Seq(Entries)
    BY <1>1, <1>3 DEF EngineAnswers, HInv, TypeOK
  <2>4. log' \in [Hosts -> Seq(Entries)]
    BY <2>2, <2>3, AppendProperties DEF HInv, TypeOK
  <2>5. entry' = [entry EXCEPT ![c] = answer]
    BY <1>3 DEF EngineAnswers
  <2>6. TypeOK'
    BY <1>3, <2>2, <2>4, <2>5 DEF EngineAnswers, HInv, TypeOK
  <2> QED
    BY <1>3, <2>2, <2>5, <2>6, MoveKeepsHInv DEF EngineAnswers
<1>4. CASE EngineFails(c)
  <2>1. up' \in [Hosts -> BOOLEAN] /\ running' \in [Hosts -> Binaries \cup {NoBinary}]
        /\ log' \in [Hosts -> Seq(Entries)]
    BY <1>4, EmptySeq DEF EngineFails, Stop, HInv, TypeOK
  <2>2. faults' \in 0..MaxFaults
    BY <1>1, <1>4 DEF EngineFails, FaultHappens
  <2>3. TypeOK'
    BY <1>4, <2>1, <2>2 DEF EngineFails, HInv, TypeOK
  <2> QED
    BY <1>4, <2>3, MoveOnlyKeepsHInv DEF EngineFails
<1>5. CASE Commit(c)
  <2>1. entry[c] \in Entries
    BY <1>5 DEF Commit, HInv, EntryFits
  <2>2. journal' \in Seq(Entries)
    BY <1>5, <2>1, AppendProperties DEF Commit, HInv, TypeOK
  <2>3. PICK l \in {"tool", "return"} :
          pc' = [pc EXCEPT ![c] = l] /\ (l = "tool" => IsDispatch(entry[c]))
    BY <1>5 DEF Commit, AfterCommit
  <2>4. TypeOK'
    <3>1. pc' \in [Callers -> PCs]
      BY <2>3 DEF HInv, TypeOK
    <3>2. txn' \in [Hosts -> BOOLEAN]
      BY <1>1, <1>5 DEF Commit, HInv, TypeOK
    <3> QED
      BY <1>5, <2>2, <3>1, <3>2 DEF Commit, HInv, TypeOK
  <2> QED
    BY <1>5, <2>3, <2>4, MoveOnlyKeepsHInv DEF Commit
<1>6. CASE CommitFails(c)
  <2>1. TypeOK'
    BY <1>1, <1>6 DEF CommitFails, FaultHappens, HInv, TypeOK
  <2> QED
    BY <1>6, <2>1, MoveOnlyKeepsHInv DEF CommitFails
<1>7. CASE CommitInterrupted(c)
  <2>1. entry[c] \in Entries
    BY <1>7 DEF CommitInterrupted, HInv, EntryFits
  <2>2. journal' \in Seq(Entries) /\ faults' \in 0..MaxFaults
    BY <1>1, <1>7, <2>1, AppendProperties DEF CommitInterrupted, FaultHappens, HInv, TypeOK
  <2>3. TypeOK'
    BY <1>7, <2>2 DEF CommitInterrupted, HInv, TypeOK
  <2> QED
    BY <1>7, <2>3, MoveOnlyKeepsHInv DEF CommitInterrupted
<1>8. CASE Rollback(c)
  <2>1. up' \in [Hosts -> BOOLEAN] /\ running' \in [Hosts -> Binaries \cup {NoBinary}]
        /\ log' \in [Hosts -> Seq(Entries)]
    BY <1>8, EmptySeq DEF Rollback, CloseSpeculative, Stop, HInv, TypeOK
  <2>2. faults' \in 0..MaxFaults
    BY <1>1, <1>8 DEF Rollback, FaultHappens
  <2>3. PICK l \in {"recover", "raise"} : pc' = [pc EXCEPT ![c] = l]
    BY <1>8 DEF Rollback, AfterRollback
  <2>4. TypeOK'
    BY <1>8, <2>1, <2>2, <2>3 DEF Rollback, HInv, TypeOK
  <2> QED
    BY <1>8, <2>3, <2>4, MoveOnlyKeepsHInv DEF Rollback
<1>9. CASE Recover(c)
  <2>1. up' \in [Hosts -> BOOLEAN] /\ running' \in [Hosts -> Binaries \cup {NoBinary}]
        /\ log' \in [Hosts -> Seq(Entries)]
    <3>1. CASE Launch(h) /\ log' = [log EXCEPT ![h] = journal]
      BY <3>1 DEF Launch, HInv, TypeOK
    <3>2. CASE Stop(h)
      BY <3>2, EmptySeq DEF Stop, HInv, TypeOK
    <3> QED
      BY <1>9, <3>1, <3>2 DEF Recover, Replayed
  <2>2. faults' \in 0..MaxFaults
    BY <1>1, <1>9 DEF Recover, FaultHappens
  <2>3. TypeOK'
    BY <1>9, <2>1, <2>2 DEF Recover, HInv, TypeOK
  <2> QED
    BY <1>9, <2>3, MoveOnlyKeepsHInv DEF Recover
<1> QED
  BY <1>2, <1>3, <1>4, <1>5, <1>6, <1>7, <1>8, <1>9

LEMMA ToolKeepsHInv ==
  ASSUME HInv, NEW c \in Callers, Tool(c)
  PROVE  HInv'
<1> USE DEF disk, engine, object, calls, backend, bounds, At, Goto
<1>1. /\ entry[c] \in Entries /\ entry[c].id \in Ids /\ entry[c].call \in Calls
      /\ pc[c] = "tool" /\ content \in Values /\ Len(journal) \in Nat
  BY LenProperties DEF Tool, HInv, TypeOK, EntryFits, IsDispatch
<1>2. PICK kind \in OutcomeKinds, tm \in Times :
        /\ entry' = [entry EXCEPT ![c] = [@ EXCEPT !.kind = kind, !.time = tm, !.allow = FALSE]]
        /\ CASE kind = "success" -> content' = Effect(entry[c].call)
             [] kind = "failure" -> content' = content
             [] kind = "unknown" -> content' \in {content, Effect(entry[c].call)}
  BY DEF Tool
<1> DEFINE x == [entry[c] EXCEPT !.kind = kind, !.time = tm, !.allow = FALSE]
           r == [at |-> Len(journal), id |-> entry[c].id,
                 call |-> entry[c].call, binding |-> entry[c].binding]
<1>3. entry' = [entry EXCEPT ![c] = x]
  BY <1>2 DEF HInv, TypeOK
<1>4. x \in Entries /\ Carries("begin", x)
  BY <1>1, HostAssumption DEF Carries, Entries, OutcomeKinds
<1>5. content' \in Values
  BY <1>1, <1>2, EffectTypes DEF OutcomeKinds
<1>6. r \in [at: Nat, id: Ids, call: Calls, binding: Tokens \cup {NoToken}]
  BY <1>1 DEF Entries
<1>7. ran' \in Seq([at: Nat, id: Ids, call: Calls, binding: Tokens \cup {NoToken}])
  BY <1>6, AppendProperties DEF Tool, HInv, TypeOK
<1>8. ranOn' \in Seq(Values)
  BY <1>1, AppendProperties DEF Tool, HInv, TypeOK
<1>9. TypeOK'
  BY <1>3, <1>4, <1>5, <1>7, <1>8 DEF Tool, HInv, TypeOK
<1> QED
  BY <1>1, <1>3, <1>4, <1>9, MoveKeepsHInv DEF Tool

-------------------------------------------------------------------------------
\* Hosts open and end, and the environment acts.

\* The end of a host leaves none of its threads in a call.
LEMMA EndKeepsHInv ==
  ASSUME HInv, NEW h \in Hosts, EndHost(h), faults' \in 0..MaxFaults
  PROVE  HInv'
<1> USE DEF disk, engine, object, calls, backend, bounds
<1>1. /\ up' \in [Hosts -> BOOLEAN] /\ running' \in [Hosts -> Binaries \cup {NoBinary}]
      /\ log' \in [Hosts -> Seq(Entries)]
  BY EmptySeq DEF EndHost, Stop, HInv, TypeOK
<1>2. /\ pc' \in [Callers -> PCs] /\ ctx' \in [Callers -> Contexts]
      /\ entry' \in [Callers -> Entries \cup {NoEntry}]
  BY DEF EndHost, HInv, TypeOK, NoContext, Context, Contexts
<1>3. /\ proposals' \in [Tokens -> Proposals \cup {NoProposal}]
      /\ unsaved' \in [Hosts -> SUBSET Tokens]
      /\ txn' \in [Hosts -> BOOLEAN]
  BY DEF EndHost, HInv, TypeOK
<1>4. TypeOK'
  BY <1>1, <1>2, <1>3 DEF EndHost, HInv, TypeOK
<1>5. LockHeld'
  BY HostAssumption DEF EndHost, HInv, TypeOK, LockHeld
<1>6. CallsAreInside'
  BY HostAssumption DEF EndHost, HInv, TypeOK, CallsAreInside
<1>7. OpenedHasSession'
  BY DEF EndHost, HInv, TypeOK, OpenedHasSession
<1>8. SingleWriter'
  BY HostAssumption DEF EndHost, HInv, TypeOK, SingleWriter
<1>9. PinMissesRows'
  BY DEF EndHost, HInv, TypeOK, PinMissesRows
<1>10. ContextFits'
  BY DEF EndHost, HInv, TypeOK, ContextFits
<1>11. EntryFits'
  BY DEF EndHost, HInv, TypeOK, EntryFits
<1> QED
  BY <1>4, <1>5, <1>6, <1>7, <1>8, <1>9, <1>10, <1>11 DEF HInv

LEMMA EndingsKeepHInv ==
  ASSUME HInv, \/ \E c \in Callers : Close(c)
               \/ \E h \in Hosts : Crash(h) \/ OpenFails(h)
  PROVE  HInv'
<1>1. ASSUME NEW c \in Callers, Close(c) PROVE HInv'
  <2>1. HostOf[c] \in Hosts /\ EndHost(HostOf[c]) /\ faults' \in 0..MaxFaults
    BY <1>1, HostAssumption DEF Close, HInv, TypeOK
  <2> QED
    BY <2>1, EndKeepsHInv
<1>2. ASSUME NEW h \in Hosts, Crash(h) \/ OpenFails(h) PROVE HInv'
  <2>1. EndHost(h) /\ faults' \in 0..MaxFaults
    BY <1>2, HostAssumption DEF Crash, OpenFails, FaultHappens, HInv, TypeOK
  <2> QED
    BY <2>1, EndKeepsHInv
<1> QED
  BY <1>1, <1>2

\* A step of __init__: only the phase of host h, its session, its lock file, its engine
\* and the metadata move.
LEMMA OpenKeepsHInv ==
  ASSUME HInv, NEW h \in Hosts,
         OpenLock(h) \/ OpenEngine(h) \/ CheckIdentity(h) \/ PinRow(h) \/ ReplayJournal(h)
  PROVE  HInv'
<1> USE DEF disk, engine, object, calls, backend, bounds, SetPhase
<1>1. UNCHANGED <<journal, proposals, installed, txn, unsaved, hostLock, pc, ctx, entry,
                  adapterLock, content, ran, ranOn, starts, faults, writes>>
  BY DEF OpenLock, OpenEngine, CheckIdentity, PinRow, ReplayJournal
<1>2. PICK p \in {"locked", "identity", "pin", "replay", "open"} :
        phase' = [phase EXCEPT ![h] = p]
  BY DEF OpenLock, OpenEngine, CheckIdentity, PinRow, ReplayJournal
<1>3. phase[h] # "open" /\ flock' = h /\ session'[h] \in Sessions
  BY DEF OpenLock, OpenEngine, CheckIdentity, PinRow, ReplayJournal, HInv, TypeOK,
         OpenedHasSession, SingleWriter
<1>4. \A g \in Hosts \ {h} : phase[g] = "closed" /\ session'[g] = session[g]
  BY HostAssumption DEF OpenLock, Free, OpenEngine, CheckIdentity, PinRow, ReplayJournal,
                        HInv, TypeOK, SingleWriter
<1>5. /\ up' \in [Hosts -> BOOLEAN] /\ running' \in [Hosts -> Binaries \cup {NoBinary}]
      /\ log' \in [Hosts -> Seq(Entries)]
  <2>1. CASE OpenEngine(h)
    BY <2>1, EmptySeq DEF OpenEngine, Launch, HInv, TypeOK
  <2>2. CASE ReplayJournal(h)
    BY <2>2 DEF ReplayJournal, Replayed, HInv, TypeOK
  <2>3. CASE OpenLock(h) \/ CheckIdentity(h) \/ PinRow(h)
    BY <2>3 DEF OpenLock, CheckIdentity, PinRow, HInv, TypeOK
  <2> QED
    BY <2>1, <2>2, <2>3
<1>6. pin' \in [rows: 0..PinRows, engine: Binaries \cup {NoBinary}]
  BY DEF OpenLock, OpenEngine, CheckIdentity, PinRow, ReplayJournal, HInv, TypeOK, PinMissesRows
<1>7. session' \in [Hosts -> Sessions \cup {NoSession}]
  BY DEF OpenLock, OpenEngine, CheckIdentity, PinRow, ReplayJournal, HInv, TypeOK
<1>8. TypeOK'
  BY <1>1, <1>2, <1>3, <1>5, <1>6, <1>7 DEF HInv, TypeOK
<1>9. LockHeld' /\ CallsAreInside' /\ ContextFits' /\ EntryFits'
  BY <1>1, <1>2, <1>3 DEF HInv, TypeOK, LockHeld, CallsAreInside, ContextFits, EntryFits
<1>10. OpenedHasSession' /\ SingleWriter'
  BY <1>2, <1>3, <1>4 DEF HInv, TypeOK, OpenedHasSession, SingleWriter
<1>11. p = "pin" => pin'.rows < PinRows
  <2>1. phase'[h] = p
    BY <1>2 DEF HInv, TypeOK
  <2>2. CASE PinRow(h)
    BY <2>1, <2>2 DEF PinRow, HInv, TypeOK, PinMissesRows
  <2>3. CASE CheckIdentity(h)
    BY <2>1, <2>3 DEF CheckIdentity, HInv, TypeOK
  <2>4. CASE OpenLock(h) \/ OpenEngine(h) \/ ReplayJournal(h)
    BY <2>1, <2>4 DEF OpenLock, OpenEngine, ReplayJournal, HInv, TypeOK
  <2> QED
    BY <2>2, <2>3, <2>4
<1>12. PinMissesRows'
  BY <1>2, <1>4, <1>11 DEF HInv, TypeOK, PinMissesRows
<1> QED
  BY <1>8, <1>9, <1>10, <1>12 DEF HInv

LEMMA EnvironmentKeepsHInv ==
  ASSUME HInv, WriterEnters \/ WriterLeaves \/ ReplaceBinary \/ UNCHANGED vars
  PROVE  HInv'
<1> USE DEF disk, engine, object, calls, backend, bounds
<1>1. TypeOK'
  BY HostAssumption DEF WriterEnters, WriterLeaves, ReplaceBinary, FaultHappens, vars, HInv, TypeOK
<1>2. UNCHANGED <<pin, flock, phase, session, hostLock, pc, ctx, entry>>
  BY DEF WriterEnters, WriterLeaves, ReplaceBinary, vars
<1> QED
  BY <1>1, <1>2 DEF HInv, LockHeld, CallsAreInside, OpenedHasSession, SingleWriter, PinMissesRows,
                    ContextFits, EntryFits

-------------------------------------------------------------------------------
LEMMA StepKeepsHInv == HInv /\ [Next]_vars => HInv'
<1> SUFFICES ASSUME HInv, [Next]_vars PROVE HInv'
  OBVIOUS
<1>1. ASSUME NEW c \in Callers, Begins(c) PROVE HInv'
  BY <1>1, StartKeepsHInv
<1>2. ASSUME NEW c \in Callers, Steps(c) PROVE HInv'
  BY <1>2, EnterKeepsHInv, CheckKeepsHInv, RecordKeepsHInv, ToolKeepsHInv, EndingsKeepHInv DEF Steps
<1>3. ASSUME NEW h \in Hosts, Opens(h) \/ Crash(h) PROVE HInv'
  BY <1>3, OpenKeepsHInv, EndingsKeepHInv DEF Opens
<1>4. CASE WriterEnters \/ WriterLeaves \/ ReplaceBinary \/ Finished \/ UNCHANGED vars
  BY <1>4, EnvironmentKeepsHInv DEF Finished
<1> QED
  BY <1>1, <1>2, <1>3, <1>4 DEF Next

\* The inductive invariant: positions of threads, locks, phases and commands fit together.
THEOREM HostInvariance == Spec => []HInv
BY InitHInv, StepKeepsHInv, PTL DEF Spec

\* Every variable of the host keeps its type, and the bounds of the counters hold.
THEOREM HostTypeCorrect == Spec => []TypeOK
<1>1. HInv => TypeOK
  BY DEF HInv
<1> QED
  BY <1>1, HostInvariance, PTL

\* Of any number of hosts at most one is opening or has opened the journal, also across
\* crashes and failed openings (host.py:99-105).
THEOREM OneWriter == Spec => []SingleWriter
<1>1. HInv => SingleWriter
  BY DEF HInv
<1> QED
  BY <1>1, HostInvariance, PTL

\* close() cannot overtake a call that has got past the host's lock, so the lock file is
\* not given away before the outcome of a running tool was recorded (host.py:430-438).
THEOREM CloseWaits == Spec => ShutdownWaits
<1> DEFINE Waits ==
      \A h \in Hosts :
        phase[h] = "open" /\ phase'[h] = "closed" /\ faults' = faults =>
          \A c \in Callers :
            HostOf[c] = h => pc[c] \in {"idle", "host"} \/ ctx[c].op = "close"
<1>1. HInv /\ [Next]_vars => [Waits]_vars
  <2> SUFFICES ASSUME HInv, [Next]_vars,
                      NEW h \in Hosts, phase[h] = "open", phase'[h] = "closed", faults' = faults,
                      NEW c \in Callers, HostOf[c] = h, pc[c] \notin {"idle", "host"}
               PROVE  ctx[c].op = "close"
    OBVIOUS
  <2>1. pc[c] \in HostHeld
    BY DEF HInv, TypeOK
  <2>2. PICK d \in Callers : Close(d) /\ HostOf[d] = h
    <3> USE DEF disk, engine, object, calls, backend, bounds, At, SetPhase
    <3>1. ASSUME NEW d \in Callers, Begins(d) PROVE FALSE
      BY <3>1 DEF Begins, StartPrepare, StartConfirm, StartObserve, StartUserAction, StartExecute,
                  StartClose, Start
    <3>2. ASSUME NEW d \in Callers, Steps(d) PROVE Close(d)
      BY <3>2 DEF Steps, AcquireHost, AcquireAdapter, Prepare, Confirm, Observe, UserAction,
                  Execute, Begin, EngineAnswers, EngineFails, Commit, CommitFails,
                  CommitInterrupted, Rollback, Recover, Tool, Leave
    <3>3. ASSUME NEW d \in Callers, Close(d) PROVE HostOf[d] = h
      BY <3>3 DEF Close, EndHost, HInv, TypeOK
    <3>4. ASSUME NEW g \in Hosts, Crash(g) PROVE FALSE
      BY <3>4 DEF Crash, FaultHappens, HInv, TypeOK
    <3>5. ASSUME NEW g \in Hosts, Opens(g) PROVE FALSE
      BY <3>5 DEF Opens, OpenLock, OpenEngine, CheckIdentity, PinRow, ReplayJournal, OpenFails,
                  EndHost, HInv, TypeOK
    <3>6. ~(WriterEnters \/ WriterLeaves \/ ReplaceBinary \/ Finished \/ UNCHANGED vars)
      BY DEF WriterEnters, WriterLeaves, ReplaceBinary, Finished, vars
    <3> QED
      BY <3>1, <3>2, <3>3, <3>4, <3>5, <3>6 DEF Next
  <2>3. pc[d] \in HostHeld
    BY <2>2 DEF Close, At
  <2>4. c = d
    BY <2>1, <2>2, <2>3 DEF HInv, LockHeld
  <2> QED
    BY <2>2, <2>4 DEF Close
<1> QED
  BY <1>1, HostInvariance, PTL DEF Spec, ShutdownWaits

-------------------------------------------------------------------------------
\* The pinned engine

\* From its replay on, a host has complete metadata, and its process was started from
\* the executable that they name.
PinHolds ==
  \A h \in Hosts :
    /\ phase[h] \in {"replay", "open"} => pin.rows = PinRows
    /\ phase[h] = "replay" \/ (phase[h] = "open" /\ up[h]) => running[h] = pin.engine

PinInv == HInv /\ PinHolds /\ HalfPinnedIsEmpty

LEMMA InitPinInv == Init => PinInv
BY InitHInv DEF Init, PinInv, PinHolds, HalfPinnedIsEmpty

\* Threads do not touch the metadata; they write with the host open; and they start an
\* engine in _recover only.
LEMMA ThreadKeepsPinInv ==
  ASSUME PinInv, HInv', NEW c \in Callers, Begins(c) \/ Steps(c), ~Close(c)
  PROVE  PinInv'
<1> USE DEF disk, engine, object, calls, backend, bounds, At, Goto
<1>1. UNCHANGED <<pin, phase>>
  BY DEF Begins, StartPrepare, StartConfirm, StartObserve, StartUserAction, StartExecute,
         StartClose, Start, Steps, AcquireHost, AcquireAdapter, Prepare, Confirm, Observe,
         UserAction, Execute, Begin, EngineAnswers, EngineFails, Commit, CommitFails,
         CommitInterrupted, Rollback, Recover, Tool, Leave
<1>2. UNCHANGED <<journal, ran>> \/ phase[HostOf[c]] = "open"
  BY DEF Begins, StartPrepare, StartConfirm, StartObserve, StartUserAction, StartExecute,
         StartClose, Start, Steps, AcquireHost, AcquireAdapter, Prepare, Confirm, Observe,
         UserAction, Execute, Begin, EngineAnswers, EngineFails, Commit, CommitFails,
         CommitInterrupted, Rollback, Recover, Tool, Leave
<1>3. HalfPinnedIsEmpty'
  BY <1>1, <1>2, HostAssumption DEF PinInv, PinHolds, HalfPinnedIsEmpty
<1>4. \/ UNCHANGED <<up, running>>
      \/ Stop(HostOf[c]) /\ phase[HostOf[c]] = "open"
      \/ Launch(HostOf[c]) /\ installed = pin.engine
  BY DEF Begins, StartPrepare, StartConfirm, StartObserve, StartUserAction, StartExecute,
         StartClose, Start, Steps, AcquireHost, AcquireAdapter, Prepare, Confirm, Observe,
         UserAction, Execute, Begin, EngineAnswers, EngineFails, Commit, CommitFails,
         CommitInterrupted, Rollback, CloseSpeculative, Recover, SamePolicy, Tool, Leave
<1>5. PinHolds'
  <2>1. CASE UNCHANGED <<up, running>>
    BY <1>1, <2>1 DEF PinInv, PinHolds
  <2>2. CASE Stop(HostOf[c]) /\ phase[HostOf[c]] = "open"
    BY <1>1, <2>2, HostAssumption DEF Stop, PinInv, PinHolds, HInv, TypeOK
  <2>3. CASE Launch(HostOf[c]) /\ installed = pin.engine
    <3>1. \A g \in Hosts : g = HostOf[c] => running'[g] = pin.engine
      BY <2>3 DEF Launch, PinInv, HInv, TypeOK
    <3>2. \A g \in Hosts : g # HostOf[c] => running'[g] = running[g] /\ up'[g] = up[g]
      BY <2>3 DEF Launch, PinInv, HInv, TypeOK
    <3> QED
      BY <1>1, <3>1, <3>2 DEF PinInv, PinHolds
  <2> QED
    BY <1>4, <2>1, <2>2, <2>3
<1> QED
  BY <1>3, <1>5 DEF PinInv

LEMMA EndKeepsPinInv ==
  ASSUME PinInv, HInv', NEW h \in Hosts, EndHost(h)
  PROVE  PinInv'
<1>1. UNCHANGED <<pin, journal, ran>>
  BY DEF EndHost, backend
<1>2. PinHolds'
  BY <1>1 DEF EndHost, Stop, PinInv, PinHolds, HInv, TypeOK
<1> QED
  BY <1>1, <1>2 DEF PinInv, HalfPinnedIsEmpty

LEMMA OpenKeepsPinInv ==
  ASSUME PinInv, HInv', NEW h \in Hosts,
         OpenLock(h) \/ OpenEngine(h) \/ CheckIdentity(h) \/ PinRow(h) \/ ReplayJournal(h)
  PROVE  PinInv'
<1> USE DEF disk, engine, object, calls, backend, bounds, SetPhase
<1>1. UNCHANGED <<journal, ran>>
  BY DEF OpenLock, OpenEngine, CheckIdentity, PinRow, ReplayJournal
<1>2. \A g \in Hosts \ {h} : phase'[g] = "closed"
  <2>1. \A g \in Hosts \ {h} : phase[g] = "closed"
    BY HostAssumption DEF OpenLock, Free, OpenEngine, CheckIdentity, PinRow, ReplayJournal,
                          PinInv, HInv, SingleWriter
  <2>2. PICK p \in {"locked", "identity", "pin", "replay", "open"} :
          phase' = [phase EXCEPT ![h] = p]
    BY DEF OpenLock, OpenEngine, CheckIdentity, PinRow, ReplayJournal
  <2> QED
    BY <2>1, <2>2 DEF PinInv, HInv, TypeOK
<1>3. CASE PinRow(h)
  <2>1. /\ pin'.rows = pin.rows + 1 /\ pin.rows \in 0..(PinRows - 1) /\ running' = running
        /\ pin'.rows = PinRows => pin'.engine = running[h]
        /\ phase'[h] = IF pin'.rows = PinRows THEN "replay" ELSE "pin"
    BY <1>3 DEF PinRow, PinInv, HInv, TypeOK, PinMissesRows
  <2>2. PinHolds'
    BY <1>2, <2>1 DEF PinHolds
  <2>3. HalfPinnedIsEmpty'
    BY <1>1, <2>1 DEF PinInv, HalfPinnedIsEmpty
  <2> QED
    BY <2>2, <2>3 DEF PinInv
<1>4. CASE ~PinRow(h)
  <2>1. UNCHANGED pin
    BY <1>4 DEF OpenLock, OpenEngine, CheckIdentity, ReplayJournal
  <2>2. /\ phase'[h] \in {"replay", "open"} => pin.rows = PinRows /\ running[h] = pin.engine
        /\ phase'[h] \in {"replay", "open"} => running'[h] = running[h]
    BY <1>4 DEF OpenLock, OpenEngine, CheckIdentity, Identified, ReplayJournal, PinInv, PinHolds,
                HInv, TypeOK
  <2>3. PinHolds'
    BY <1>2, <2>1, <2>2 DEF PinHolds
  <2> QED
    BY <1>1, <2>1, <2>3 DEF PinInv, HalfPinnedIsEmpty
<1> QED
  BY <1>3, <1>4

LEMMA StepKeepsPinInv == PinInv /\ [Next]_vars => PinInv'
<1> SUFFICES ASSUME PinInv, [Next]_vars PROVE PinInv'
  OBVIOUS
<1>1. HInv'
  BY StepKeepsHInv DEF PinInv
<1>2. ASSUME NEW c \in Callers, Begins(c) \/ Steps(c) PROVE PinInv'
  <2>1. CASE Close(c)
    BY <1>1, <2>1, HostAssumption, EndKeepsPinInv DEF Close
  <2> QED
    BY <1>1, <1>2, <2>1, ThreadKeepsPinInv
<1>3. ASSUME NEW h \in Hosts, Opens(h) \/ Crash(h) PROVE PinInv'
  BY <1>1, <1>3, EndKeepsPinInv, OpenKeepsPinInv DEF Opens, OpenFails, Crash
<1>4. CASE WriterEnters \/ WriterLeaves \/ ReplaceBinary \/ Finished \/ UNCHANGED vars
  <2>1. UNCHANGED <<pin, phase, up, running, journal, ran>>
    BY <1>4 DEF WriterEnters, WriterLeaves, ReplaceBinary, Finished, vars, disk, engine, object,
                backend
  <2> QED
    BY <1>1, <2>1 DEF PinInv, PinHolds, HalfPinnedIsEmpty
<1> QED
  BY <1>2, <1>3, <1>4 DEF Next

LEMMA PinInvariance == Spec => []PinInv
BY InitPinInv, StepKeepsPinInv, PTL DEF Spec

\* No decision is asked of an engine other than the pinned one, whenever the executable
\* on disk is replaced (host.py:117-120, 136-148).
THEOREM PinnedEngineDecides == Spec => []PinnedEngine
<1>1. PinInv => PinnedEngine
  BY DEF PinInv, PinHolds, PinnedEngine
<1> QED
  BY <1>1, PinInvariance, PTL

\* Nothing was ever recorded or run on a journal whose pinning was cut off by a crash, so
\* refusing it for ever loses nothing (host.py:117-122).
THEOREM HalfPinnedIsHarmless == Spec => []HalfPinnedIsEmpty
<1>1. PinInv => HalfPinnedIsEmpty
  BY DEF PinInv
<1> QED
  BY <1>1, PinInvariance, PTL

-------------------------------------------------------------------------------
(***************************************************************************)
(* GuardHost implements Monitor, for every number of hosts, threads,       *)
(* crashes and failures.                                                   *)
(*                                                                         *)
(* The mapping is the identity on journal and ran.  Commit and             *)
(* CommitInterrupted are Record steps of the monitor, Tool is its Run      *)
(* step, and every other step leaves both variables alone.  What has to be *)
(* carried from the first check of a call to its commit is that the        *)
(* command is one the monitor may record, and that the engine answers on   *)
(* the committed journal and on nothing else.                              *)
(***************************************************************************)

\* A command that the monitor may record.
Promised(e) ==
  \/ e \in Promise!Admissions
  \/ e \in Promise!Observations
  \/ \E i \in DOMAIN journal, k \in OutcomeKinds, t \in Times :
       /\ IsDispatch(journal[i])
       /\ e = Promise!Outcome(journal[i], k, t)
       /\ Promise!HasRun(journal[i].id)

\* What a thread at l carries in x: a command, its answer, or the dispatch that
\* was committed last and whose tool did not run.
Carried(l, x) ==
  /\ l \in {"begin", "engine"} => Promised(x)
  /\ l = "commit" =>
       \E e : Promised(e) /\ Accepts(journal, e) /\ x = Answer(journal, e)
  /\ l = "tool" =>
       /\ Len(journal) \in DOMAIN journal
       /\ x = journal[Len(journal)]
       /\ \A k \in DOMAIN ran : ran[k].at # Len(journal)

CarriedByAll == \A c \in Callers : Carried(pc[c], entry[c])

\* A live engine has the committed journal, and between its answer and the commit
\* the answer on top of it.
EngineLog ==
  \A c \in Callers :
    LET h == HostOf[c]
    IN  pc[c] = "commit" => log[h] = Append(journal, entry[c])

RunsOfJournal == \A k \in DOMAIN ran : ran[k].at \in DOMAIN journal

RInv == HInv /\ EngineAgrees /\ EngineLog /\ CarriedByAll /\ RunsOfJournal

USE DEF PCs, HostHeld, Ops

-------------------------------------------------------------------------------
\* The monitor's policy, seen through INSTANCE, is the engine's.

LEMMA SameSets ==
  /\ Promise!Calls = Calls
  /\ Promise!Subjects = Subjects
  /\ Promise!TrustedKinds = TrustedKinds
  /\ Promise!OutcomeKinds = OutcomeKinds
BY DEF Promise!Calls, Calls, Promise!Reads, Reads, Promise!Writes, Writes,
       Promise!Subjects, Subjects, Promise!TrustedKinds, TrustedKinds,
       Promise!OutcomeKinds, OutcomeKinds

LEMMA SameDispatch == ASSUME NEW e PROVE Promise!IsDispatch(e) = IsDispatch(e)
BY DEF Promise!IsDispatch, IsDispatch

LEMMA SameQuota == ASSUME NEW h, NEW r PROVE Promise!Quota(h, r) = Quota(h, r)
<1>1. Promise!Matching(h, r) = Matching(h, r)
  BY DEF Promise!Matching, Matching, Promise!InQuotaWindow, InQuotaWindow,
         Promise!IsDispatch, IsDispatch
<1>2. \A S : Promise!Cardinality(S) = Cardinality(S)
  BY DEF Promise!Cardinality, Cardinality
<1>3. \A S : Promise!TotalAmount(h, S) = TotalAmount(h, S)
  BY DEF Promise!TotalAmount, TotalAmount, Promise!SumFunctionOnSet, SumFunctionOnSet,
         Promise!FoldFunctionOnSet, FoldFunctionOnSet, Promise!MapThenFoldSet, MapThenFoldSet
<1> QED
  BY <1>1, <1>2, <1>3 DEF Promise!Quota, Quota

LEMMA SameDecision == ASSUME NEW h, NEW r PROVE Promise!Decide(h, r) = Decide(h, r)
<1> USE DEF Promise!IsDispatch, IsDispatch, Promise!SameConversation, SameConversation,
            Promise!SameResource, SameResource
<1>1. Promise!Confirmed(h, r) = Confirmed(h, r)
  BY DEF Promise!Confirmed, Confirmed, Promise!ConfirmedEvent, ConfirmedEvent,
         Promise!RevokedEvent, RevokedEvent, Promise!UsedConfirmation, UsedConfirmation
<1>2. Promise!Observed(h, r) = Observed(h, r)
  BY DEF Promise!Observed, Observed
<1>3. Promise!SingleFlight(h, r) = SingleFlight(h, r)
  BY DEF Promise!SingleFlight, SingleFlight, Promise!Released, Released
<1> QED
  BY <1>1, <1>2, <1>3, SameQuota DEF Promise!Decide, Decide

LEMMA SameAnswers ==
  ASSUME NEW h, NEW e
  PROVE  Promise!Answer(h, e) = Answer(h, e) /\ Promise!Accepts(h, e) = Accepts(h, e)
<1>1. Promise!Answer(h, e) = Answer(h, e)
  BY SameDecision DEF Promise!Answer, Answer
<1>2. Promise!ValidEvent(h, e) = ValidEvent(h, e)
  BY DEF Promise!ValidEvent, ValidEvent
<1>3. Promise!ValidOutcome(h, e) = ValidOutcome(h, e)
  BY SameSets, SameDispatch DEF Promise!ValidOutcome, ValidOutcome, Promise!MatchesDispatch, MatchesDispatch
<1>4. Promise!UnusedId(h, e) = UnusedId(h, e)
  BY DEF Promise!UnusedId, UnusedId
<1>5. Promise!Accepts(h, e) = Accepts(h, e)
  BY <1>2, <1>3, <1>4, SameSets DEF Promise!Accepts, Accepts
<1> QED
  BY <1>1, <1>5

-------------------------------------------------------------------------------
\* One thread at a time is past the host's lock, over all hosts: a host with threads
\* in calls is open, and holds the lock file.
LEMMA OneInside ==
  ASSUME HInv, NEW c \in Callers, NEW d \in Callers, pc[c] \in HostHeld, pc[d] \in HostHeld
  PROVE  c = d
<1>1. pc[c] # "idle" /\ pc[d] # "idle"
  OBVIOUS
<1>2. phase[HostOf[c]] = "open" /\ phase[HostOf[d]] = "open"
  BY <1>1 DEF HInv, CallsAreInside
<1>3. HostOf[c] = HostOf[d]
  BY <1>2, HostAssumption DEF HInv, SingleWriter
<1> QED
  BY <1>3 DEF HInv, LockHeld

\* Only the open host has an engine that counts.
LEMMA OneOpen ==
  ASSUME HInv, NEW g \in Hosts, NEW h \in Hosts, phase[g] = "open", phase[h] = "open"
  PROVE  g = h
BY DEF HInv, SingleWriter

LEMMA InitRInv == Init => RInv
<1> SUFFICES ASSUME Init PROVE RInv
  OBVIOUS
<1>1. HInv
  BY InitHInv
<1>2. EngineAgrees /\ EngineLog /\ CarriedByAll /\ RunsOfJournal
  BY HostAssumption DEF Init, EngineAgrees, EngineLog, CarriedByAll, Carried, RunsOfJournal
<1> QED
  BY <1>1, <1>2 DEF RInv

\* A quiet step: no thread gets to a command or on with one, and no engine changes
\* but by going down.
LEMMA QuietKeepsRInv ==
  ASSUME RInv, HInv',
         UNCHANGED <<journal, ran>>,
         \A c \in Callers :
           pc'[c] \in {"begin", "engine", "commit", "tool", "abort"} =>
             pc'[c] = pc[c] /\ entry'[c] = entry[c],
         \A c \in Callers :
           pc[c] \in {"commit", "abort"} => pc'[c] = pc[c] \/ phase'[HostOf[c]] # "open",
         \A h \in Hosts :
           phase'[h] = "open" => phase[h] = "open" /\ up'[h] = up[h] /\ log'[h] = log[h]
  PROVE  RInv'
<1>1. EngineAgrees'
  BY HostAssumption DEF RInv, EngineAgrees, InRecord
<1>2. EngineLog'
  <2> SUFFICES ASSUME NEW c \in Callers, pc'[c] = "commit"
               PROVE  log'[HostOf[c]] = Append(journal', entry'[c])
    BY DEF EngineLog
  <2>1. phase'[HostOf[c]] = "open" /\ HostOf[c] \in Hosts
    BY HostAssumption DEF HInv, CallsAreInside
  <2> QED
    BY <2>1 DEF RInv, EngineLog
<1>3. CarriedByAll'
  BY DEF RInv, CarriedByAll, Carried, Promised, Promise!HasRun
<1>4. RunsOfJournal'
  BY DEF RInv, RunsOfJournal
<1> QED
  BY <1>1, <1>2, <1>3, <1>4 DEF RInv

\* A step of the thread inside, to l with x.
LEMMA InsideKeepsRInv ==
  ASSUME RInv, HInv', NEW c \in Callers, NEW l \in HostHeld,
         NEW x \in Entries \cup {NoEntry},
         pc[c] \in HostHeld, pc' = [pc EXCEPT ![c] = l], entry' = [entry EXCEPT ![c] = x],
         EngineAgrees', l = "commit" => log'[HostOf[c]] = Append(journal', x),
         Carried(l, x)', RunsOfJournal'
  PROVE  RInv'
<1>1. \A d \in Callers \ {c} : pc[d] \in {"idle", "host"} /\ pc'[d] = pc[d]
  BY OneInside DEF RInv, HInv, TypeOK
<1>2. pc'[c] = l /\ entry'[c] = x
  BY DEF RInv, HInv, TypeOK
<1>3. EngineLog'
  BY <1>1, <1>2 DEF EngineLog
<1>4. CarriedByAll'
  BY <1>1, <1>2 DEF CarriedByAll, Carried
<1> QED
  BY <1>3, <1>4 DEF RInv

\* The usual step of the thread inside: journal and tool invocations stay, and so
\* does the engine, unless it goes down or the thread is on its way to a recovery.
LEMMA MoveKeepsRInv ==
  ASSUME RInv, HInv', NEW c \in Callers, NEW l \in HostHeld \ {"commit"},
         NEW x \in Entries \cup {NoEntry},
         pc[c] \in HostHeld, pc' = [pc EXCEPT ![c] = l], entry' = [entry EXCEPT ![c] = x],
         EngineAgrees', UNCHANGED <<journal, ran>>,
         l \in {"begin", "engine"} => Promised(x),
         l # "tool"
  PROVE  RInv'
<1>1. Promised(x) => Promised(x)'
  BY DEF Promised, Promise!HasRun
<1>2. Carried(l, x)'
  BY <1>1 DEF Carried
<1>3. RunsOfJournal'
  BY DEF RInv, RunsOfJournal
<1> QED
  BY <1>2, <1>3, InsideKeepsRInv

\* Commands built by _event are the monitor's.
LEMMA CommandsArePromised ==
  ASSUME HInv, NEW c \in Callers, pc[c] # "idle", NEW tm \in Times
  PROVE  /\ \A kind \in TrustedKinds, call \in Subjects :
              ctx[c].op # "execute" => Promised(Command(c, kind, call, tm))
         /\ ctx[c].op = "execute" => Promised(Command(c, "admit", ctx[c].call, tm))
<1>1. /\ ctx[c].token \in Tokens \cup {NoToken} /\ session[HostOf[c]] \in Sessions
      /\ ctx[c].op = "execute" => ctx[c].call \in Calls /\ ctx[c].id \in Ids
      /\ ctx[c].op # "execute" => ctx[c].id = NoId
  BY HostAssumption DEF HInv, TypeOK, Contexts, ContextFits, CallsAreInside, OpenedHasSession
<1>2. \A kind \in TrustedKinds, call \in Subjects :
        ctx[c].op # "execute" => Command(c, kind, call, tm) \in Promise!Observations
  BY <1>1, SameSets DEF Command, Promise!Observations
<1>3. ctx[c].op = "execute" => Command(c, "admit", ctx[c].call, tm) \in Promise!Admissions
  BY <1>1, SameSets DEF Command, Promise!Admissions
<1> QED
  BY <1>2, <1>3 DEF Promised

LEMMA CheckKeepsRInv ==
  ASSUME RInv, HInv', NEW c \in Callers,
         Prepare(c) \/ Confirm(c) \/ Observe(c) \/ UserAction(c) \/ Execute(c)
  PROVE  RInv'
<1> USE DEF disk, engine, object, calls, backend, bounds, At, Goto
<1>1. /\ UNCHANGED <<journal, ran, up, log, phase>> /\ pc[c] = "check" /\ pc[c] # "idle"
      /\ HInv
  BY DEF Prepare, Confirm, Observe, UserAction, Execute, RInv
<1>2. ASSUME NEW kind, NEW call, RecordNext(c, kind, call),
             \/ kind \in TrustedKinds /\ call \in Subjects /\ ctx[c].op # "execute"
             \/ kind = "admit" /\ call = ctx[c].call /\ ctx[c].op = "execute"
      PROVE  RInv'
  <2>1. PICK tm \in Times : /\ entry' = [entry EXCEPT ![c] = Command(c, kind, call, tm)]
                            /\ pc' = [pc EXCEPT ![c] = "begin"]
    BY <1>2 DEF RecordNext
  <2> DEFINE x == Command(c, kind, call, tm)
  <2>2. Promised(x)
    BY <1>1, <1>2, CommandsArePromised
  <2>3. entry'[c] = x /\ x \in Entries \cup {NoEntry}
    BY <2>1 DEF HInv, TypeOK
  <2>4. EngineAgrees'
    BY <1>1, <2>1 DEF RInv, HInv, TypeOK, EngineAgrees, InRecord
  <2> HIDE DEF x
  <2> QED
    BY <1>1, <2>1, <2>2, <2>3, <2>4, MoveKeepsRInv DEF x
<1>3. ASSUME NEW l \in {"return", "raise"}, pc' = [pc EXCEPT ![c] = l], entry' = entry
      PROVE  RInv'
  BY <1>1, <1>3, QuietKeepsRInv DEF HInv, TypeOK
<1>4. CASE Prepare(c)
  BY <1>3, <1>4 DEF Prepare
<1>5. CASE Confirm(c)
  <2>1. CASE Known(c) /\ Fresh(c)
    <3>1. proposals[ctx[c].token] \in Proposals
      BY <1>5, <2>1 DEF Known, Confirm, RInv, HInv, TypeOK, Contexts
    <3>2. Subject(proposals[ctx[c].token].call) \in Subjects
      BY <3>1, SubjectTypes DEF Proposals
    <3> QED
      BY <1>2, <1>5, <2>1, <3>2 DEF Confirm, TrustedKinds
  <2>2. CASE ~(Known(c) /\ Fresh(c))
    BY <1>3, <1>5, <2>2 DEF Confirm
  <2> QED
    BY <2>1, <2>2
<1>6. CASE Observe(c)
  <2>1. ctx[c].call \in Subjects
    BY <1>6 DEF Observe, RInv, HInv, ContextFits
  <2> QED
    BY <1>2, <1>6, <2>1 DEF Observe, TrustedKinds
<1>7. CASE UserAction(c)
  <2>1. ctx[c].call \in UserCalls
    BY <1>7 DEF UserAction, RInv, HInv, ContextFits
  <2>2. Subject(ctx[c].call) \in Subjects
    BY <2>1, SubjectTypes
  <2> QED
    BY <1>2, <1>3, <1>7, <2>2 DEF UserAction, TrustedKinds
<1>8. CASE Execute(c)
  BY <1>2, <1>3, <1>8 DEF Execute
<1> QED
  BY <1>4, <1>5, <1>6, <1>7, <1>8

\* The engine of a thread's host, once that thread is alone inside.
LEMMA InsideAgreement ==
  ASSUME RInv, HInv', NEW c \in Callers, NEW l \in HostHeld,
         pc[c] \in HostHeld, pc' = [pc EXCEPT ![c] = l], UNCHANGED phase,
         l \in {"commit", "abort"} \/ ~up'[HostOf[c]] \/ log'[HostOf[c]] = journal'
  PROVE  EngineAgrees'
<1> SUFFICES ASSUME NEW h \in Hosts, phase'[h] = "open", up'[h], ~InRecord(h)'
             PROVE  log'[h] = journal'
  BY DEF EngineAgrees
<1>1. pc[c] # "idle"
  OBVIOUS
<1>2. phase[HostOf[c]] = "open" /\ HostOf[c] \in Hosts
  BY <1>1, HostAssumption DEF RInv, HInv, CallsAreInside
<1>3. h = HostOf[c]
  BY <1>2, OneOpen DEF RInv
<1>4. pc'[c] = l
  BY DEF RInv, HInv, TypeOK
<1>5. l \notin {"commit", "abort"}
  BY <1>3, <1>4 DEF InRecord
<1> QED
  BY <1>3, <1>5

LEMMA RecordKeepsRInv ==
  ASSUME RInv, HInv', NEW c \in Callers,
         \/ Begin(c) \/ EngineAnswers(c) \/ EngineFails(c)
         \/ Commit(c) \/ CommitFails(c) \/ CommitInterrupted(c)
         \/ Rollback(c) \/ Recover(c)
  PROVE  RInv'
<1> USE DEF disk, engine, object, calls, backend, bounds, At, Goto
<1> DEFINE h == HostOf[c]
<1>1. /\ h \in Hosts /\ HInv
      /\ entry[c] \in Entries \cup {NoEntry} /\ entry = [entry EXCEPT ![c] = entry[c]]
  BY HostAssumption DEF RInv, HInv, TypeOK
<1>0. phase' = phase
  BY DEF Begin, EngineAnswers, EngineFails, Commit, CommitFails, CommitInterrupted, Rollback, Recover
<1>2. ASSUME pc[c] \in {"begin", "engine"}, phase[h] = "open", up[h]
      PROVE  log[h] = journal
  <2>1. ~InRecord(h)
    BY <1>2, <1>1, OneInside DEF InRecord
  <2> QED
    BY <1>1, <1>2, <2>1 DEF RInv, EngineAgrees
<1>3. Carried(pc[c], entry[c])
  BY DEF RInv, CarriedByAll
<1>4. CASE Begin(c)
  <2>1. PICK l \in {"engine", "raise"} : pc' = [pc EXCEPT ![c] = l]
    BY <1>4 DEF Begin
  <2>2. UNCHANGED <<journal, ran, up, log, entry>> /\ pc[c] = "begin" /\ phase[h] = "open"
    BY <1>4 DEF Begin
  <2>3. EngineAgrees'
    BY <1>0, <1>1, <1>2, <2>1, <2>2, InsideAgreement
  <2>4. Promised(entry[c])
    BY <1>3, <2>2 DEF Carried
  <2> QED
    BY <1>1, <2>1, <2>2, <2>3, <2>4, MoveKeepsRInv
<1>5. CASE EngineAnswers(c)
  <2>1. /\ pc[c] = "engine" /\ log[h] = journal /\ Accepts(journal, entry[c])
        /\ UNCHANGED <<journal, ran>> /\ pc' = [pc EXCEPT ![c] = "commit"]
        /\ entry' = [entry EXCEPT ![c] = Answer(journal, entry[c])]
        /\ log' = [log EXCEPT ![h] = Append(@, Answer(journal, entry[c]))]
    BY <1>2, <1>5 DEF EngineAnswers
  <2>2. PICK e \in Entries : e = entry[c]
    BY <1>1, <2>1 DEF HInv, EntryFits
  <2>3. PICK x \in Entries : x = Answer(journal, e)
    BY AnswerTypes
  <2>4. log'[h] = Append(journal', x)
    BY <1>1, <2>1, <2>2, <2>3 DEF HInv, TypeOK
  <2>5. EngineAgrees'
    BY <1>0, <1>1, <2>1, InsideAgreement
  <2>6. Promised(e)
    BY <1>3, <2>1, <2>2 DEF Carried
  <2>7. Promised(e)' /\ Accepts(journal', e) /\ x = Answer(journal', e)
    BY <2>1, <2>2, <2>3, <2>6 DEF Promised, Promise!HasRun
  <2>8. Carried("commit", x)'
    BY <2>7 DEF Carried
  <2>9. RunsOfJournal'
    BY <2>1 DEF RInv, RunsOfJournal
  <2> QED
    BY <2>1, <2>2, <2>3, <2>4, <2>5, <2>8, <2>9, InsideKeepsRInv
<1>6. CASE EngineFails(c) \/ CommitFails(c) \/ Rollback(c) \/ Recover(c)
  <2>1. PICK l \in {"abort", "recover", "raise"} : pc' = [pc EXCEPT ![c] = l]
    BY <1>6 DEF EngineFails, CommitFails, Rollback, Recover, AfterRollback
  <2>2. UNCHANGED <<journal, ran, entry>> /\ pc[c] \in HostHeld
    BY <1>6 DEF EngineFails, CommitFails, Rollback, Recover
  <2>3. l = "abort" \/ ~up'[h] \/ log'[h] = journal'
    <3>1. CASE EngineFails(c)
      BY <1>1, <3>1 DEF EngineFails, Stop, HInv, TypeOK
    <3>2. CASE CommitFails(c)
      BY <1>1, <2>1, <3>2 DEF CommitFails, HInv, TypeOK
    <3>3. CASE Rollback(c)
      BY <1>1, <3>3 DEF Rollback, CloseSpeculative, Stop, HInv, TypeOK
    <3>4. CASE Recover(c)
      BY <1>1, <3>4 DEF Recover, Replayed, Stop, HInv, TypeOK
    <3> QED
      BY <1>6, <3>1, <3>2, <3>3, <3>4
  <2>4. EngineAgrees'
    BY <1>0, <1>1, <2>1, <2>2, <2>3, InsideAgreement
  <2> QED
    BY <1>1, <2>1, <2>2, <2>4, MoveKeepsRInv
<1>7. CASE Commit(c) \/ CommitInterrupted(c)
  <2>1. PICK l \in {"tool", "return", "abort"} : pc' = [pc EXCEPT ![c] = l]
    BY <1>7 DEF Commit, CommitInterrupted, AfterCommit
  <2>2. /\ pc[c] = "commit" /\ journal' = Append(journal, entry[c])
        /\ UNCHANGED <<ran, log, entry>>
    BY <1>7 DEF Commit, CommitInterrupted
  <2>3. PICK x \in Entries : x = entry[c]
    BY <1>1, <2>2 DEF HInv, EntryFits
  <2>4. /\ DOMAIN journal = 1..Len(journal) /\ DOMAIN journal' = 1..(Len(journal) + 1)
        /\ Len(journal) \in Nat /\ Len(journal') = Len(journal) + 1
        /\ journal'[Len(journal')] = x
    BY <1>1, <2>2, <2>3, AppendProperties, LenProperties DEF HInv, TypeOK
  <2>5. log'[h] = journal'
    BY <2>2 DEF RInv, EngineLog
  <2>6. EngineAgrees'
    BY <1>0, <1>1, <2>1, <2>2, <2>5, InsideAgreement
  <2>7. Carried(l, x)'
    BY <2>1, <2>2, <2>4 DEF Carried, RInv, RunsOfJournal
  <2>8. RunsOfJournal'
    BY <2>2, <2>4 DEF RInv, RunsOfJournal
  <2>9. entry' = [entry EXCEPT ![c] = x] /\ l \in HostHeld /\ l # "commit" /\ pc[c] \in HostHeld
    BY <1>1, <2>1, <2>2, <2>3
  <2> QED
    BY <2>1, <2>6, <2>7, <2>8, <2>9, InsideKeepsRInv
<1> QED
  BY <1>4, <1>5, <1>6, <1>7

LEMMA ToolKeepsRInv ==
  ASSUME RInv, HInv', NEW c \in Callers, Tool(c)
  PROVE  RInv'
<1> USE DEF disk, engine, object, calls, backend, bounds, At, Goto
<1> DEFINE h == HostOf[c]
           n == Len(journal)
<1>1. /\ pc[c] = "tool" /\ phase[h] = "open" /\ h \in Hosts
      /\ UNCHANGED <<journal, up, log, phase>> /\ pc' = [pc EXCEPT ![c] = "begin"]
      /\ HInv
  BY HostAssumption DEF Tool, RInv
<1>2. n \in DOMAIN journal /\ entry[c] = journal[n] /\ IsDispatch(journal[n])
  BY <1>1 DEF RInv, CarriedByAll, Carried, HInv, EntryFits
<1>3. PICK kind \in OutcomeKinds, tm \in Times :
        entry' = [entry EXCEPT ![c] = [@ EXCEPT !.kind = kind, !.time = tm, !.allow = FALSE]]
  BY DEF Tool
<1>4. entry'[c] = Promise!Outcome(journal[n], kind, tm)
  BY <1>1, <1>2, <1>3 DEF HInv, TypeOK, Promise!Outcome
<1>5. PICK x \in Entries : x = entry'[c]
  BY <1>1 DEF HInv, TypeOK, EntryFits
<1>6. entry' = [entry EXCEPT ![c] = x]
  BY <1>1, <1>3, <1>5 DEF HInv, TypeOK
<1>7. PICK r \in [at: Nat, id: Ids, call: Calls, binding: Tokens \cup {NoToken}] :
        r.at = n /\ r.id = journal[n].id /\ ran' = Append(ran, r)
  <2> DEFINE r0 == [at |-> n, id |-> entry[c].id, call |-> entry[c].call, binding |-> entry[c].binding]
  <2>1. ran' = Append(ran, r0)
    BY DEF Tool
  <2>2. r0 \in [at: Nat, id: Ids, call: Calls, binding: Tokens \cup {NoToken}]
    BY <1>1, <1>2, LenProperties DEF HInv, TypeOK, EntryFits, IsDispatch, Entries
  <2>3. r0.at = n /\ r0.id = journal[n].id
    BY <1>2
  <2> HIDE DEF r0
  <2> QED
    BY <2>1, <2>2, <2>3
<1>8. /\ Len(ran') = Len(ran) + 1 /\ Len(ran) \in Nat /\ DOMAIN ran' = 1..Len(ran')
      /\ ran'[Len(ran')] = r /\ \A k \in DOMAIN ran : ran'[k] = ran[k]
      /\ DOMAIN ran = 1..Len(ran)
  <2> DEFINE R == [at: Nat, id: Ids, call: Calls, binding: Tokens \cup {NoToken}]
  <2>1. ran \in Seq(R) /\ r \in R
    BY <1>1 DEF HInv, TypeOK
  <2> HIDE DEF R
  <2> QED
    BY <1>7, <2>1, AppendProperties, LenProperties
<1>9. Promised(x)'
  BY <1>1, <1>2, <1>4, <1>5, <1>7, <1>8 DEF Promised, Promise!HasRun
<1>10. RunsOfJournal'
  BY <1>1, <1>2, <1>7, <1>8 DEF RInv, RunsOfJournal
<1>11. up[h] => log[h] = journal
  <2>1. ~InRecord(h)
    BY <1>1, OneInside DEF InRecord
  <2> QED
    BY <1>1, <2>1 DEF RInv, EngineAgrees
<1>12. EngineAgrees'
  BY <1>1, <1>11, InsideAgreement
<1>13. Carried("begin", x)'
  BY <1>9 DEF Carried
<1> QED
  BY <1>1, <1>6, <1>10, <1>12, <1>13, InsideKeepsRInv

-------------------------------------------------------------------------------
\* The remaining steps do nothing to a command that is being recorded.

LEMMA EnterKeepsRInv ==
  ASSUME RInv, HInv', NEW c \in Callers,
         Begins(c) \/ AcquireHost(c) \/ AcquireAdapter(c) \/ Leave(c)
  PROVE  RInv'
<1> USE DEF disk, engine, object, calls, backend, bounds, At, Goto
<1>1. ASSUME NEW x, Start(c, x) PROVE RInv'
  BY <1>1, QuietKeepsRInv DEF Start, RInv, HInv, TypeOK
<1>2. CASE Begins(c)
  BY <1>1, <1>2 DEF Begins, StartPrepare, StartConfirm, StartObserve, StartUserAction,
                    StartExecute, StartClose
<1>3. CASE AcquireHost(c)
  BY <1>3, QuietKeepsRInv DEF AcquireHost, NeedsAdapter, RInv, HInv, TypeOK
<1>4. CASE AcquireAdapter(c)
  BY <1>4, QuietKeepsRInv DEF AcquireAdapter, RInv, HInv, TypeOK
<1>5. CASE Leave(c)
  BY <1>5, QuietKeepsRInv DEF Leave, RInv, HInv, TypeOK
<1> QED
  BY <1>2, <1>3, <1>4, <1>5

LEMMA EndingsKeepRInv ==
  ASSUME RInv, HInv', NEW h \in Hosts, EndHost(h)
  PROVE  RInv'
<1>1. UNCHANGED <<journal, ran>>
  BY DEF EndHost, backend
<1>2. \A c \in Callers :
        /\ HostOf[c] = h => pc'[c] = "idle" /\ phase'[HostOf[c]] # "open"
        /\ HostOf[c] # h => pc'[c] = pc[c] /\ entry'[c] = entry[c]
  BY DEF EndHost, RInv, HInv, TypeOK
<1>3. \A g \in Hosts :
        phase'[g] = "open" => phase[g] = "open" /\ up'[g] = up[g] /\ log'[g] = log[g]
  BY DEF EndHost, Stop, RInv, HInv, TypeOK
<1>4. \A c \in Callers :
        pc'[c] \in {"begin", "engine", "commit", "tool", "abort"} =>
          pc'[c] = pc[c] /\ entry'[c] = entry[c]
  BY <1>2
<1>5. \A c \in Callers :
        pc[c] \in {"commit", "abort"} => pc'[c] = pc[c] \/ phase'[HostOf[c]] # "open"
  BY <1>2
<1> QED
  BY <1>1, <1>3, <1>4, <1>5, QuietKeepsRInv

LEMMA OpenKeepsRInv ==
  ASSUME RInv, HInv', NEW h \in Hosts,
         OpenLock(h) \/ OpenEngine(h) \/ CheckIdentity(h) \/ PinRow(h) \/ ReplayJournal(h)
  PROVE  RInv'
<1> USE DEF disk, engine, object, calls, backend, bounds, SetPhase
<1>1. UNCHANGED <<journal, ran, pc, entry>>
  BY DEF OpenLock, OpenEngine, CheckIdentity, PinRow, ReplayJournal
<1>2. phase[h] # "open" /\ \A g \in Hosts \ {h} :
        phase'[g] = phase[g] /\ up'[g] = up[g] /\ log'[g] = log[g]
  <2>1. phase[h] # "open"
    BY DEF OpenLock, OpenEngine, CheckIdentity, PinRow, ReplayJournal
  <2>2. \A g \in Hosts \ {h} : phase'[g] = phase[g]
    <3>1. PICK p \in {"locked", "identity", "pin", "replay", "open"} :
            phase' = [phase EXCEPT ![h] = p]
      BY DEF OpenLock, OpenEngine, CheckIdentity, PinRow, ReplayJournal
    <3> QED
      BY <3>1 DEF RInv, HInv, TypeOK
  <2>3. \A g \in Hosts \ {h} : up'[g] = up[g]
    BY DEF OpenLock, OpenEngine, Launch, CheckIdentity, PinRow, ReplayJournal, RInv, HInv, TypeOK
  <2>4. \A g \in Hosts \ {h} : log'[g] = log[g]
    <3>1. CASE OpenEngine(h)
      BY <3>1 DEF OpenEngine, RInv, HInv, TypeOK
    <3>2. CASE ReplayJournal(h)
      BY <3>2 DEF ReplayJournal, RInv, HInv, TypeOK
    <3>3. CASE OpenLock(h) \/ CheckIdentity(h) \/ PinRow(h)
      BY <3>3 DEF OpenLock, CheckIdentity, PinRow
    <3> QED
      BY <3>1, <3>2, <3>3
  <2> QED
    BY <2>1, <2>2, <2>3, <2>4
<1>3. CASE ReplayJournal(h)
  <2>1. log'[h] = journal'
    BY <1>1, <1>3 DEF ReplayJournal, Replayed, RInv, HInv, TypeOK
  <2>2. EngineAgrees'
    BY <1>1, <1>2, <2>1 DEF RInv, EngineAgrees, InRecord
  <2>3. \A c \in Callers : HostOf[c] = h => pc[c] = "idle"
    BY <1>2 DEF RInv, HInv, CallsAreInside
  <2>4. EngineLog'
    BY <1>1, <1>2, <2>3, HostAssumption DEF RInv, EngineLog
  <2>5. CarriedByAll' /\ RunsOfJournal'
    BY <1>1 DEF RInv, CarriedByAll, Carried, Promised, Promise!HasRun, RunsOfJournal
  <2> QED
    BY <2>2, <2>4, <2>5 DEF RInv
<1>4. CASE OpenLock(h) \/ OpenEngine(h) \/ CheckIdentity(h) \/ PinRow(h)
  <2>1. phase'[h] # "open"
    BY <1>4 DEF OpenLock, OpenEngine, CheckIdentity, PinRow, RInv, HInv, TypeOK
  <2> QED
    BY <1>1, <1>2, <2>1, QuietKeepsRInv
<1> QED
  BY <1>3, <1>4

LEMMA EnvironmentKeepsRInv ==
  ASSUME RInv, HInv', WriterEnters \/ WriterLeaves \/ ReplaceBinary \/ UNCHANGED vars
  PROVE  RInv'
<1> USE DEF disk, engine, object, calls, backend, bounds
<1>1. UNCHANGED <<journal, ran, up, log, phase, pc, entry>>
  BY DEF WriterEnters, WriterLeaves, ReplaceBinary, vars
<1> QED
  BY <1>1, QuietKeepsRInv

LEMMA StepKeepsRInv == RInv /\ [Next]_vars => RInv'
<1> SUFFICES ASSUME RInv, [Next]_vars PROVE RInv'
  OBVIOUS
<1>1. HInv'
  BY StepKeepsHInv DEF RInv
<1>2. ASSUME NEW c \in Callers, Begins(c) PROVE RInv'
  BY <1>1, <1>2, EnterKeepsRInv
<1>3. ASSUME NEW c \in Callers, Steps(c) PROVE RInv'
  <2>1. CASE Close(c)
    BY <1>1, <2>1, HostAssumption, EndingsKeepRInv DEF Close
  <2>2. CASE ~Close(c)
    BY <1>1, <1>3, <2>2, EnterKeepsRInv, CheckKeepsRInv, RecordKeepsRInv, ToolKeepsRInv DEF Steps
  <2> QED
    BY <2>1, <2>2
<1>4. ASSUME NEW h \in Hosts, Opens(h) \/ Crash(h) PROVE RInv'
  <2>1. CASE OpenFails(h) \/ Crash(h)
    BY <1>1, <2>1, EndingsKeepRInv DEF OpenFails, Crash
  <2>2. CASE Opens(h) /\ ~OpenFails(h)
    BY <1>1, <2>2, OpenKeepsRInv DEF Opens
  <2> QED
    BY <1>4, <2>1, <2>2
<1>5. CASE WriterEnters \/ WriterLeaves \/ ReplaceBinary \/ Finished \/ UNCHANGED vars
  BY <1>1, <1>5, EnvironmentKeepsRInv DEF Finished
<1> QED
  BY <1>2, <1>3, <1>4, <1>5 DEF Next

\* The invariant behind the refinement: engine and journal agree outside _record, and
\* inside it the engine is exactly the uncommitted row ahead.
THEOREM RefinementInvariance == Spec => []RInv
BY InitRInv, StepKeepsRInv, PTL DEF Spec

\* A live engine answers on the committed journal: no rollback, interrupted commit,
\* recovery or restart leaves a row in it that the journal does not have (host.py:161-166).
THEOREM EngineAgreement == Spec => []EngineAgrees
<1>1. RInv => EngineAgrees
  BY DEF RInv
<1> QED
  BY <1>1, RefinementInvariance, PTL

-------------------------------------------------------------------------------
\* The simulation, step by step

LEMMA RecordsArePromised ==
  ASSUME RInv, HInv', NEW c \in Callers, Commit(c) \/ CommitInterrupted(c)
  PROVE  Promise!Next
<1> USE DEF disk, engine, object, calls, backend, bounds, At, Goto
<1>1. pc[c] = "commit" /\ journal' = Append(journal, entry[c]) /\ UNCHANGED ran
  BY DEF Commit, CommitInterrupted
<1>2. PICK e : Promised(e) /\ Accepts(journal, e) /\ entry[c] = Answer(journal, e)
  BY <1>1 DEF RInv, CarriedByAll, Carried
<1>3. Promise!Accepts(journal, e) /\ journal' = Append(journal, Promise!Row(e))
  BY <1>1, <1>2, SameAnswers DEF Promise!Row
<1>4. CASE e \in Promise!Admissions
  BY <1>1, <1>3, <1>4, SameSets
     DEF Promise!Next, Promise!Record, Promise!Reported, Promise!Admissions, OutcomeKinds
<1>5. CASE e \in Promise!Observations
  BY <1>1, <1>3, <1>5, SameSets
     DEF Promise!Next, Promise!Record, Promise!Reported, Promise!Observations, OutcomeKinds,
         TrustedKinds
<1>6. ASSUME NEW i \in DOMAIN journal, NEW k \in OutcomeKinds, NEW t \in Times,
             IsDispatch(journal[i]), e = Promise!Outcome(journal[i], k, t),
             Promise!HasRun(journal[i].id)
      PROVE  Promise!Next
  <2>1. e.id = journal[i].id
    BY <1>6 DEF Promise!Outcome
  <2>2. Promise!Record(e)
    BY <1>1, <1>3, <1>6, <2>1 DEF Promise!Record, Promise!Reported
  <2> QED
    BY <1>6, <2>2, SameSets, SameDispatch DEF Promise!Next
<1> QED
  BY <1>2, <1>4, <1>5, <1>6 DEF Promised

LEMMA RunsArePromised ==
  ASSUME RInv, NEW c \in Callers, Tool(c)
  PROVE  Promise!Next
<1> USE DEF disk, engine, object, calls, backend, bounds, At, Goto
<1> DEFINE n == Len(journal)
<1>1. pc[c] = "tool" /\ UNCHANGED journal
  BY DEF Tool
<1>2. /\ n \in DOMAIN journal /\ entry[c] = journal[n] /\ IsDispatch(journal[n])
      /\ \A k \in DOMAIN ran : ran[k].at # n
  BY <1>1 DEF RInv, CarriedByAll, Carried, HInv, EntryFits
<1>3. ran' = Append(ran, Promise!RunOf(n))
  BY <1>2 DEF Tool, Promise!RunOf
<1>4. Promise!MayRun(n)
  BY <1>2, SameDispatch DEF Promise!MayRun
<1> QED
  BY <1>1, <1>2, <1>3, <1>4 DEF Promise!Next, Promise!Run

LEMMA StepIsPromised == RInv /\ [Next]_vars => [Promise!Next]_(Promise!vars)
<1> SUFFICES ASSUME RInv, [Next]_vars PROVE Promise!Next \/ UNCHANGED <<journal, ran>>
  BY DEF Promise!vars
<1> USE DEF disk, engine, object, calls, backend, bounds, At, Goto
<1>1. HInv'
  BY StepKeepsHInv DEF RInv
<1>2. ASSUME NEW c \in Callers, Begins(c) PROVE UNCHANGED <<journal, ran>>
  BY <1>2 DEF Begins, StartPrepare, StartConfirm, StartObserve, StartUserAction, StartExecute,
              StartClose, Start
<1>3. ASSUME NEW c \in Callers, Steps(c) PROVE Promise!Next \/ UNCHANGED <<journal, ran>>
  <2>1. CASE Commit(c) \/ CommitInterrupted(c)
    BY <1>1, <2>1, RecordsArePromised
  <2>2. CASE Tool(c)
    BY <2>2, RunsArePromised
  <2>3. CASE ~(Commit(c) \/ CommitInterrupted(c) \/ Tool(c))
    BY <1>3, <2>3 DEF Steps, AcquireHost, AcquireAdapter, Prepare, Confirm, Observe, UserAction,
                      Execute, Begin, EngineAnswers, EngineFails, CommitFails, Rollback, Recover,
                      Close, EndHost, Leave
  <2> QED
    BY <2>1, <2>2, <2>3
<1>4. ASSUME NEW h \in Hosts, Opens(h) \/ Crash(h) PROVE UNCHANGED <<journal, ran>>
  BY <1>4 DEF Opens, OpenLock, OpenEngine, CheckIdentity, PinRow, ReplayJournal, OpenFails,
              Crash, EndHost
<1>5. CASE WriterEnters \/ WriterLeaves \/ ReplaceBinary \/ Finished \/ UNCHANGED vars
  BY <1>5 DEF WriterEnters, WriterLeaves, ReplaceBinary, Finished, vars
<1> QED
  BY <1>2, <1>3, <1>4, <1>5 DEF Next

\* The host is the monitor it promises to be: whatever threads, hosts, crashes, failures of
\* the engine, SQLite and the tools, and restarts do, every committed row is the answer of
\* the reference monitor to a command it accepts, and a tool runs once, right after its
\* dispatch was committed (host.py:150-167, 352-428).
THEOREM Refinement == Spec => RefinesMonitor
<1>1. Init => Promise!Init
  BY DEF Init, Promise!Init
<1> QED
  BY <1>1, StepIsPromised, RefinementInvariance, PTL DEF Spec, RefinesMonitor, Promise!Spec

-------------------------------------------------------------------------------
(***************************************************************************)
(* What the host guarantees because it implements the monitor.             *)
(* MonitorProofs shows what every behaviour of the monitor satisfies; each *)
(* theorem below holds of any number of hosts and threads, and across      *)
(* crashes, failures, recoveries and restarts.                             *)
(***************************************************************************)

Kept == INSTANCE MonitorProofs

-------------------------------------------------------------------------------
\* Both instances of the monitor are the same specification.

LEMMA SameCommands ==
  /\ \A h, e : Promise!Accepts(h, e) = Kept!Accepts(h, e)
  /\ \A h, e : Promise!Answer(h, e) = Kept!Answer(h, e)
<1>1. \A h, e : Promise!Accepts(h, e) = Kept!Accepts(h, e)
  BY DEF Promise!Accepts, Kept!Accepts, Promise!ValidEvent, Kept!ValidEvent,
         Promise!ValidOutcome, Kept!ValidOutcome, Promise!MatchesDispatch, Kept!MatchesDispatch,
         Promise!UnusedId, Kept!UnusedId, Promise!IsDispatch, Kept!IsDispatch,
         Promise!Calls, Kept!Calls, Promise!Reads, Kept!Reads, Promise!Writes, Kept!Writes,
         Promise!Subjects, Kept!Subjects, Promise!TrustedKinds, Kept!TrustedKinds,
         Promise!OutcomeKinds, Kept!OutcomeKinds
<1>2. \A h, e : Promise!Answer(h, e) = Kept!Answer(h, e)
  BY DEF Promise!Answer, Kept!Answer, Promise!Decide, Kept!Decide, Promise!Quota, Kept!Quota,
         Promise!Matching, Kept!Matching, Promise!InQuotaWindow, Kept!InQuotaWindow,
         Promise!Confirmed, Kept!Confirmed, Promise!ConfirmedEvent, Kept!ConfirmedEvent,
         Promise!RevokedEvent, Kept!RevokedEvent, Promise!UsedConfirmation, Kept!UsedConfirmation,
         Promise!Observed, Kept!Observed, Promise!SingleFlight, Kept!SingleFlight,
         Promise!Released, Kept!Released, Promise!SameConversation, Kept!SameConversation,
         Promise!SameResource, Kept!SameResource, Promise!IsDispatch, Kept!IsDispatch,
         Promise!Cardinality, Kept!Cardinality, Promise!TotalAmount, Kept!TotalAmount,
         Promise!SumFunctionOnSet, Kept!SumFunctionOnSet,
         Promise!FoldFunctionOnSet, Kept!FoldFunctionOnSet,
         Promise!MapThenFoldSet, Kept!MapThenFoldSet
<1> QED
  BY <1>1, <1>2

LEMMA SameNext == Promise!Next = Kept!Next
<1>3. \A e : Promise!Record(e) = Kept!Record(e)
  BY SameCommands DEF Promise!Record, Kept!Record, Promise!Reported, Kept!Reported,
                    Promise!Row, Kept!Row, Promise!HasRun, Kept!HasRun,
                    Promise!OutcomeKinds, Kept!OutcomeKinds
<1>4. Promise!Run = Kept!Run
  BY DEF Promise!Run, Kept!Run, Promise!MayRun, Kept!MayRun, Promise!RunOf, Kept!RunOf,
         Promise!IsDispatch, Kept!IsDispatch
<1> QED
  BY <1>3, <1>4
     DEF Promise!Next, Kept!Next, Promise!Admissions, Kept!Admissions, Promise!Observations,
         Kept!Observations, Promise!Outcome, Kept!Outcome, Promise!IsDispatch, Kept!IsDispatch,
         Promise!OutcomeKinds, Kept!OutcomeKinds, Promise!TrustedKinds, Kept!TrustedKinds,
         Promise!Calls, Kept!Calls, Promise!Reads, Kept!Reads, Promise!Writes, Kept!Writes,
         Promise!Subjects, Kept!Subjects

LEMMA BehavesLikeTheMonitor == Spec => Kept!Spec
<1>1. Promise!Init => Kept!Init
  BY DEF Promise!Init, Kept!Init
<1>2. [Promise!Next]_(Promise!vars) => [Kept!Next]_(Kept!vars)
  BY SameNext DEF Promise!vars, Kept!vars
<1> QED
  BY <1>1, <1>2, Refinement, PTL DEF RefinesMonitor, Promise!Spec, Kept!Spec

LEMMA MonitorsAssumptions == Kept!MonitorAssumption /\ Kept!PolicyAssumption
BY HostAssumption, PolicyAssumption DEF Kept!MonitorAssumption, Kept!PolicyAssumption

-------------------------------------------------------------------------------
\* A request id reaches a tool at most once, whichever threads retry it, before or after
\* a crash, on this host or on the next one to open the journal (host.py:363-399).
THEOREM HostRunsOnce == Spec => []Kept!RunOnce
<1>1. Kept!Spec => []Kept!RunOnce
  BY Kept!ToolsRunOnce, MonitorsAssumptions
<1> QED
  BY <1>1, BehavesLikeTheMonitor, PTL

\* Two threads that hold the same approval, or a retry after a crash, cannot spend it
\* twice on writes (host.py:352-397).
THEOREM HostSpendsApprovalsOnce == Spec => []Kept!ApprovalSpentOnce
<1>1. Kept!Spec => []Kept!ApprovalSpentOnce
  BY Kept!ApprovalsAreSpentOnce, MonitorsAssumptions
<1> QED
  BY <1>1, BehavesLikeTheMonitor, PTL

\* Every dispatched write was confirmed in its conversation, and not refused since, in
\* the order in which the journal has the user's answers (host.py:300-325).
THEOREM HostAsksTheUser == Spec => []Kept!LastWordWasYes
<1>1. Kept!Spec => []Kept!LastWordWasYes
  BY Kept!WritesWereApproved, MonitorsAssumptions
<1> QED
  BY <1>1, BehavesLikeTheMonitor, PTL

\* Between two dispatches for one conversation or resource the first was settled: a
\* process that dies while its tool runs leaves the resource blocked (host.py:397-428).
THEOREM HostKeepsFlightsApart == Spec => []Kept!OneInFlight
<1>1. Kept!Spec => []Kept!OneInFlight
  BY Kept!FlightsDoNotOverlap, MonitorsAssumptions
<1> QED
  BY <1>1, BehavesLikeTheMonitor, PTL

\* The journal reports an outcome only of a tool that was invoked, and one at most
\* (host.py:399-428).
THEOREM HostReportsOnce == Spec => [](Kept!OneOutcome /\ Kept!OutcomesWereRun)
<1>1. Kept!Spec => []Kept!OneOutcome
  BY Kept!OutcomesAreFinal, MonitorsAssumptions
<1>2. Kept!Spec => []Kept!OutcomesWereRun
  BY Kept!OutcomesAreReal, MonitorsAssumptions
<1> QED
  BY <1>1, <1>2, BehavesLikeTheMonitor, PTL

\* What the monitor's engine accepts and answers, this one does.
LEMMA SameReplay == Kept!JournalReplays => RestartsFindTheJournal
<1>1. \A h, e : Kept!Accepts(h, e) = Accepts(h, e) /\ Kept!Answer(h, e) = Answer(h, e)
  BY SameCommands, SameAnswers
<1> QED
  BY <1>1 DEF Kept!JournalReplays, Kept!Replays, RestartsFindTheJournal, Replays

\* A journal that hosts wrote never fails to replay, although each row was answered by
\* whatever engine was up at the time, one that outlived a rollback, or one that was
\* rebuilt after a failure or in a new process: of all the ways to raise in __init__
\* and _recover, a diverging replay is not one (host.py:128-148).
THEOREM JournalOfHostReplays == Spec => []RestartsFindTheJournal
<1>1. Kept!Spec => []Kept!JournalReplays
  BY Kept!RestartsSucceed, MonitorsAssumptions
<1> QED
  BY <1>1, SameReplay, BehavesLikeTheMonitor, PTL

\* In no window do the writes that hosts dispatch exceed the quota, though threads and
\* hosts take turns in asking and an engine is rebuilt in between (host.py:363-397).
THEOREM HostKeepsQuota == Spec => []Kept!QuotaHoldsInEveryWindow
<1>1. Kept!Spec => []Kept!QuotaHoldsInEveryWindow
  BY Kept!QuotaAlwaysHolds, MonitorsAssumptions
<1> QED
  BY <1>1, BehavesLikeTheMonitor, PTL

\* The trace a host exports, whatever threads, failures and restarts there were, is a
\* trace the audit accepts, and the audit finds of every request what an engine once
\* answered (host.py:168-215, replay.py:49-133).
THEOREM HostTracesAudit == Spec => []Kept!AuditFindsLiveDecisions
<1>1. Kept!Spec => []Kept!AuditFindsLiveDecisions
  BY Kept!AuditsAgreeWithEngine, MonitorsAssumptions
<1> QED
  BY <1>1, BehavesLikeTheMonitor, PTL

-------------------------------------------------------------------------------
(***************************************************************************)
(* A tool that runs under a proposal does what the proposal showed.        *)
(*                                                                         *)
(* Two ways to break this are beyond HInv: the backend moves between the   *)
(* check of the revision and the tool, which the adapter's lock prevents;  *)
(* and the row of the proposal goes away or is another one, which is why   *)
(* the rows that a rollback takes are followed here.                       *)
(***************************************************************************)

\* A call that takes the adapter's lock holds it from its first check on.
AdapterOwned == \A c \in Callers : pc[c] \in AdapterHeld /\ NeedsAdapter(c) => adapterLock = c

\* Proposals that a rollback would take away were made in a transaction that a failed
\* ROLLBACK left open, and no command is recorded while there are any.
UnsavedIsOpen == \A h \in Hosts : unsaved[h] # {} => txn[h] /\ phase[h] = "open"

RecordsAreSaved ==
  \A c \in Callers : pc[c] \in {"engine", "commit", "abort", "tool"} => unsaved[HostOf[c]] = {}

\* The token of a proposal that is being prepared is nobody else's.
TokensAreFresh ==
  \A c \in Callers :
    ctx[c].op = "prepare" =>
      /\ pc[c] \in {"host", "adapter", "check"} => proposals[ctx[c].token] = NoProposal
      /\ \A d \in Callers \ {c} : ctx[d].op = "prepare" => ctx[d].token # ctx[c].token

\* A thread on its way to a tool has the proposal it was admitted under, on the backend
\* it was shown for.
Shows(e) ==
  e.binding # NoToken =>
    /\ proposals[e.binding] # NoProposal
    /\ proposals[e.binding].call = e.call /\ proposals[e.binding].revision = content

CarriesApproval ==
  \A c \in Callers :
    pc[c] \in {"begin", "engine", "commit", "tool"} /\ entry[c].kind = "admit" =>
      ctx[c].op = "execute" /\ Shows(entry[c])

\* What tools ran under stays on disk.
RanUnderSaved ==
  /\ Len(ran) = Len(ranOn)
  /\ \A k \in DOMAIN ran : \A h \in Hosts : ran[k].binding \notin unsaved[h]

SInv ==
  /\ HInv
  /\ AdapterOwned
  /\ UnsavedIsOpen
  /\ RecordsAreSaved
  /\ TokensAreFresh
  /\ CarriesApproval
  /\ RanUnderSaved
  /\ ApprovedAsShown

\* What tools ran under stays as it is while proposals and their rows do.
LEMMA RunsStayShown ==
  ASSUME SInv, UNCHANGED <<proposals, unsaved, ran, ranOn>>
  PROVE  RanUnderSaved' /\ ApprovedAsShown'
BY DEF SInv, RanUnderSaved, ApprovedAsShown

LEMMA InitSInv == Init => SInv
<1> SUFFICES ASSUME Init PROVE SInv
  OBVIOUS
<1>1. HInv
  BY InitHInv
<1>2. AdapterOwned /\ UnsavedIsOpen /\ RecordsAreSaved /\ CarriesApproval
  BY DEF Init, AdapterOwned, AdapterHeld, UnsavedIsOpen, RecordsAreSaved, CarriesApproval
<1>3. TokensAreFresh
  BY DEF Init, TokensAreFresh, NoContext, Context
<1>4. RanUnderSaved /\ ApprovedAsShown
  BY DEF Init, RanUnderSaved, ApprovedAsShown
<1> QED
  BY <1>1, <1>2, <1>3, <1>4 DEF SInv

\* A step of the thread inside a call, past its locks: nobody else is on the way to a tool.
LEMMA InsideKeepsSInv ==
  ASSUME SInv, HInv', NEW c \in Callers, NEW l \in AdapterHeld \ {"check"},
         NEW x \in Entries \cup {NoEntry},
         pc[c] \in AdapterHeld, pc' = [pc EXCEPT ![c] = l], entry' = [entry EXCEPT ![c] = x],
         UNCHANGED <<proposals, unsaved, phase, ctx, adapterLock>>,
         \A h \in Hosts : unsaved[h] # {} => txn'[h],
         l \in {"engine", "commit", "abort", "tool"} => unsaved[HostOf[c]] = {},
         l \in {"begin", "engine", "commit", "tool"} /\ x.kind = "admit" =>
           ctx[c].op = "execute" /\ Shows(x)',
         RanUnderSaved', ApprovedAsShown'
  PROVE  SInv'
<1>1. /\ pc'[c] = l /\ entry'[c] = x
      /\ \A d \in Callers \ {c} : pc'[d] = pc[d] /\ entry'[d] = entry[d]
  BY DEF SInv, HInv, TypeOK
<1>2. \A d \in Callers \ {c} : pc[d] \in {"idle", "host"}
  BY OneInside DEF SInv, HInv, TypeOK, AdapterHeld
<1>3. AdapterOwned'
  BY <1>1, <1>2 DEF SInv, AdapterOwned, AdapterHeld, NeedsAdapter
<1>4. UnsavedIsOpen'
  BY DEF SInv, UnsavedIsOpen
<1>5. RecordsAreSaved'
  BY <1>1, <1>2 DEF SInv, RecordsAreSaved
<1>6. TokensAreFresh'
  BY <1>1, <1>2 DEF SInv, TokensAreFresh, AdapterHeld
<1>7. CarriesApproval'
  BY <1>1, <1>2 DEF SInv, CarriesApproval
<1> QED
  BY <1>3, <1>4, <1>5, <1>6, <1>7 DEF SInv

\* The usual step: the backend stays too, and the command is the one it was.
LEMMA SameCommandKeepsSInv ==
  ASSUME SInv, HInv', NEW c \in Callers, NEW l \in AdapterHeld \ {"check"},
         pc[c] \in AdapterHeld, pc' = [pc EXCEPT ![c] = l],
         UNCHANGED <<entry, proposals, unsaved, phase, ctx, adapterLock, content, ran, ranOn>>,
         \A h \in Hosts : unsaved[h] # {} => txn'[h],
         l \in {"engine", "commit", "abort", "tool"} => unsaved[HostOf[c]] = {},
         l \in {"begin", "engine", "commit", "tool"} =>
           pc[c] \in {"begin", "engine", "commit", "tool"}
  PROVE  SInv'
<1>1. entry' = [entry EXCEPT ![c] = entry[c]] /\ entry[c] \in Entries \cup {NoEntry}
  BY DEF SInv, HInv, TypeOK
<1>2. l \in {"begin", "engine", "commit", "tool"} /\ entry[c].kind = "admit" =>
        ctx[c].op = "execute" /\ Shows(entry[c])
  BY DEF SInv, CarriesApproval
<1>3. Shows(entry[c]) => Shows(entry[c])'
  BY DEF Shows
<1>4. RanUnderSaved' /\ ApprovedAsShown'
  BY RunsStayShown
<1> HIDE DEF AdapterHeld
<1> QED
  BY <1>1, <1>2, <1>3, <1>4, InsideKeepsSInv

LEMMA CheckKeepsSInv ==
  ASSUME SInv, NEW c \in Callers,
         Confirm(c) \/ Observe(c) \/ UserAction(c) \/ Execute(c)
  PROVE  SInv'
<1> USE DEF disk, engine, object, calls, backend, bounds, At, Goto
<1>0. HInv' /\ pc[c] = "check" /\ pc[c] \in AdapterHeld
  BY CheckKeepsHInv DEF SInv, Confirm, Observe, UserAction, Execute, AdapterHeld
<1>1. UNCHANGED <<proposals, unsaved, phase, txn, ctx, adapterLock, ran, ranOn>>
  BY DEF Confirm, Observe, UserAction, Execute
<1>2. /\ \A h \in Hosts : unsaved[h] # {} => txn'[h]
      /\ RanUnderSaved' /\ ApprovedAsShown'
  BY <1>1, RunsStayShown DEF SInv, UnsavedIsOpen
<1>3. ASSUME NEW l \in {"return", "raise"}, Goto(c, l), UNCHANGED entry
      PROVE  SInv'
  <2>1. entry' = [entry EXCEPT ![c] = entry[c]] /\ entry[c] \in Entries \cup {NoEntry}
    BY <1>3 DEF SInv, HInv, TypeOK
  <2>2. l \in AdapterHeld \ {"check"}
    BY DEF AdapterHeld
  <2> HIDE DEF AdapterHeld
  <2> QED
    BY <1>0, <1>1, <1>2, <1>3, <2>1, <2>2, InsideKeepsSInv
<1>4. ASSUME NEW kind \in {"admit"} \cup TrustedKinds, NEW call \in Calls \cup Subjects,
             RecordNext(c, kind, call),
             kind = "admit" => /\ ctx[c].op = "execute" /\ call = ctx[c].call /\ content' = content
                               /\ ctx[c].token = NoToken \/ (Known(c) /\ Matches(c))
      PROVE  SInv'
  <2>1. PICK tm \in Times : entry' = [entry EXCEPT ![c] = Command(c, kind, call, tm)]
    BY <1>4 DEF RecordNext
  <2>2. PICK x \in Entries : x = Command(c, kind, call, tm)
    BY <1>0, CommandTypes DEF SInv
  <2>3. x.kind = kind /\ x.call = call /\ x.binding = ctx[c].token
    BY <2>2 DEF Command
  <2>4. x.kind = "admit" => ctx[c].op = "execute" /\ Shows(x)'
    BY <1>1, <1>4, <2>3 DEF Shows, Known, Matches, Fresh
  <2>5. "begin" \in AdapterHeld \ {"check"} /\ pc' = [pc EXCEPT ![c] = "begin"]
    BY <1>4 DEF AdapterHeld, RecordNext
  <2>6. entry' = [entry EXCEPT ![c] = x]
    BY <2>1, <2>2
  <2> HIDE DEF AdapterHeld
  <2> QED
    BY <1>0, <1>1, <1>2, <2>4, <2>5, <2>6, InsideKeepsSInv
<1>5. CASE Confirm(c)
  <2>1. CASE Known(c) /\ Fresh(c)
    <3>1. proposals[ctx[c].token] \in Proposals
      BY <2>1 DEF Known, SInv, HInv, TypeOK, Contexts
    <3>2. Subject(proposals[ctx[c].token].call) \in Subjects
      BY <3>1, SubjectTypes DEF Proposals
    <3> QED
      BY <1>4, <1>5, <2>1, <3>2 DEF Confirm, TrustedKinds
  <2>2. CASE ~(Known(c) /\ Fresh(c))
    BY <1>3, <1>5, <2>2 DEF Confirm
  <2> QED
    BY <2>1, <2>2
<1>6. CASE Observe(c)
  <2>1. ctx[c].call \in Subjects
    BY <1>6 DEF Observe, SInv, HInv, ContextFits
  <2> QED
    BY <1>4, <1>6, <2>1 DEF Observe, TrustedKinds
<1>7. CASE UserAction(c)
  <2>1. Subject(ctx[c].call) \in Subjects
    BY <1>7, SubjectTypes DEF UserAction, SInv, HInv, ContextFits
  <2> QED
    BY <1>3, <1>4, <1>7, <2>1 DEF UserAction, TrustedKinds
<1>8. CASE Execute(c)
  <2>1. ctx[c].call \in Calls
    BY <1>8 DEF Execute, SInv, HInv, ContextFits
  <2> QED
    BY <1>3, <1>4, <1>8, <2>1 DEF Execute
<1> QED
  BY <1>5, <1>6, <1>7, <1>8

\* A new proposal takes a row that nothing refers to.
LEMMA PrepareKeepsSInv ==
  ASSUME SInv, NEW c \in Callers, Prepare(c)
  PROVE  SInv'
<1> USE DEF disk, engine, object, calls, backend, bounds, At, Goto
<1> DEFINE t == ctx[c].token
           h == HostOf[c]
<1>1. /\ pc[c] = "check" /\ ctx[c].op = "prepare" /\ proposals[t] = NoProposal
      /\ t \in Tokens /\ h \in Hosts /\ phase[h] = "open"
  BY HostAssumption DEF Prepare, SInv, HInv, ContextFits, TokensAreFresh
<1>2. /\ pc' = [pc EXCEPT ![c] = "return"]
      /\ UNCHANGED <<phase, txn, ctx, entry, adapterLock, content, ran, ranOn>>
      /\ \A u \in Tokens \ {t} : proposals'[u] = proposals[u]
      /\ \A g \in Hosts \ {h} : unsaved'[g] = unsaved[g]
      /\ unsaved'[h] = IF txn[h] THEN unsaved[h] \cup {t} ELSE unsaved[h]
  BY <1>1 DEF Prepare, SInv, HInv, TypeOK
<1>3. HInv' /\ HInv
  BY CheckKeepsHInv DEF SInv
<1>4. \A d \in Callers \ {c} : pc[d] \in {"idle", "host"} /\ pc'[d] = pc[d]
  BY <1>1, <1>2, <1>3, OneInside DEF HInv, TypeOK
<1>5. pc'[c] = "return"
  BY <1>2, <1>3 DEF HInv, TypeOK
<1>6. AdapterOwned' /\ RecordsAreSaved' /\ CarriesApproval'
  BY <1>1, <1>2, <1>4, <1>5
     DEF SInv, AdapterOwned, AdapterHeld, NeedsAdapter, RecordsAreSaved, CarriesApproval
<1>7. UnsavedIsOpen'
  BY <1>1, <1>2 DEF SInv, UnsavedIsOpen
<1>8. TokensAreFresh'
  <2>1. \A d \in Callers \ {c} : ctx[d].op = "prepare" /\ pc[d] = "host" =>
          ctx[d].token \in Tokens /\ ctx[d].token # t
    BY <1>1, <1>3 DEF SInv, TokensAreFresh, HInv, ContextFits
  <2> QED
    BY <1>2, <1>4, <1>5, <2>1 DEF SInv, TokensAreFresh
<1>9. \A k \in DOMAIN ran : ran[k].binding # t
  BY <1>1, PolicyAssumption DEF SInv, ApprovedAsShown
<1>10. \A k \in DOMAIN ran : ran[k].binding # NoToken => ran[k].binding \in Tokens
  <2>1. ran \in [1..Len(ran) -> [at: Nat, id: Ids, call: Calls, binding: Tokens \cup {NoToken}]]
    BY <1>3, LenProperties DEF HInv, TypeOK
  <2> QED
    BY <2>1
<1>11. RanUnderSaved'
  BY <1>2, <1>9 DEF SInv, RanUnderSaved
<1>12. ApprovedAsShown'
  BY <1>2, <1>9, <1>10 DEF SInv, ApprovedAsShown
<1> QED
  BY <1>3, <1>6, <1>7, <1>8, <1>11, <1>12 DEF SInv

\* BEGIN succeeds with no transaction open, so that nothing is unsaved while a command
\* is recorded.
LEMMA RecordKeepsSInv ==
  ASSUME SInv, NEW c \in Callers,
         \/ Begin(c) \/ EngineAnswers(c) \/ EngineFails(c)
         \/ Commit(c) \/ CommitFails(c) \/ CommitInterrupted(c)
         \/ Rollback(c) \/ Recover(c)
  PROVE  SInv'
<1> USE DEF disk, engine, object, calls, backend, bounds, At, Goto
<1> DEFINE h == HostOf[c]
<1>1. HInv' /\ h \in Hosts
  BY RecordKeepsHInv, HostAssumption DEF SInv
<1>2. UNCHANGED <<proposals, unsaved, phase, ctx, adapterLock, content, ran, ranOn>>
  BY DEF Begin, EngineAnswers, EngineFails, Commit, CommitFails, CommitInterrupted, Rollback, Recover
<1>3. pc[c] \in {"begin", "engine", "commit", "abort", "recover"} /\ pc[c] \in AdapterHeld
  BY DEF Begin, EngineAnswers, EngineFails, Commit, CommitFails, CommitInterrupted, Rollback, Recover,
         AdapterHeld
<1>4. pc[c] \in {"engine", "commit", "abort"} => unsaved[h] = {}
  BY DEF SInv, RecordsAreSaved
<1>5. ~txn[h] => unsaved[h] = {}
  BY <1>1 DEF SInv, UnsavedIsOpen
<1>6. \A g \in Hosts : unsaved[g] # {} => txn'[g]
  <2>1. \A g \in Hosts \ {h} : txn'[g] = txn[g]
    BY DEF Begin, EngineAnswers, EngineFails, Commit, CommitFails, CommitInterrupted, Rollback,
           Recover, SInv, HInv, TypeOK
  <2>2. txn'[h] \/ txn'[h] = txn[h] \/ unsaved[h] = {}
    BY <1>4 DEF Begin, EngineAnswers, EngineFails, Commit, CommitFails, CommitInterrupted, Rollback,
                Recover, SInv, HInv, TypeOK
  <2> QED
    BY <2>1, <2>2 DEF SInv, UnsavedIsOpen
<1>7. CASE EngineAnswers(c)
  <2>1. entry[c] \in Entries /\ pc[c] = "engine"
    BY <1>7 DEF EngineAnswers, SInv, HInv, EntryFits
  <2>2. PICK x \in Entries : x = Answer(log[h], entry[c])
    BY <2>1, AnswerTypes
  <2>3. x.kind = entry[c].kind /\ x.call = entry[c].call /\ x.binding = entry[c].binding
    BY <2>1, <2>2 DEF Answer, Entries
  <2>4. x.kind = "admit" => ctx[c].op = "execute" /\ Shows(x)'
    BY <1>2, <2>1, <2>3 DEF SInv, CarriesApproval, Shows
  <2>5. entry' = [entry EXCEPT ![c] = x] /\ pc' = [pc EXCEPT ![c] = "commit"]
    BY <1>7, <2>2 DEF EngineAnswers
  <2>6. "commit" \in AdapterHeld \ {"check"} /\ unsaved[h] = {}
    BY <1>4, <2>1 DEF AdapterHeld
  <2>7. RanUnderSaved' /\ ApprovedAsShown'
    BY <1>2, RunsStayShown
  <2> HIDE DEF AdapterHeld
  <2> QED
    BY <1>1, <1>2, <1>3, <1>6, <2>4, <2>5, <2>6, <2>7, InsideKeepsSInv
<1>8. CASE ~EngineAnswers(c)
  <2>1. UNCHANGED entry
    BY <1>8 DEF Begin, EngineFails, Commit, CommitFails, CommitInterrupted, Rollback, Recover
  <2>2. PICK l \in AdapterHeld \ {"check"} :
          /\ pc' = [pc EXCEPT ![c] = l]
          /\ l \in {"engine", "commit", "abort", "tool"} =>
               pc[c] \in {"engine", "commit", "abort"} \/ ~txn[h]
          /\ l \in {"begin", "engine", "commit", "tool"} =>
               pc[c] \in {"begin", "engine", "commit", "tool"}
    BY <1>8 DEF Begin, EngineFails, Commit, AfterCommit, CommitFails, CommitInterrupted, Rollback,
                AfterRollback, Recover, AdapterHeld
  <2> HIDE DEF AdapterHeld
  <2> QED
    BY <1>1, <1>2, <1>3, <1>4, <1>5, <1>6, <2>1, <2>2, SameCommandKeepsSInv
<1> QED
  BY <1>7, <1>8

\* The tool runs on the backend that the proposal showed, and with the same call.
LEMMA ToolKeepsSInv ==
  ASSUME SInv, NEW c \in Callers, Tool(c)
  PROVE  SInv'
<1> USE DEF disk, engine, object, calls, backend, bounds, At, Goto
<1> DEFINE r == [at |-> Len(journal), id |-> entry[c].id,
                 call |-> entry[c].call, binding |-> entry[c].binding]
<1>1. /\ pc[c] = "tool" /\ entry[c] \in Entries /\ entry[c].kind = "admit"
      /\ pc[c] \in AdapterHeld /\ HostOf[c] \in Hosts
  BY HostAssumption DEF Tool, SInv, HInv, EntryFits, IsDispatch, AdapterHeld
<1>2. HInv' /\ Shows(entry[c]) /\ unsaved[HostOf[c]] = {} /\ phase[HostOf[c]] = "open"
  BY <1>1, ToolKeepsHInv DEF SInv, CarriesApproval, RecordsAreSaved, Tool
<1>3. /\ pc' = [pc EXCEPT ![c] = "begin"]
      /\ UNCHANGED <<proposals, unsaved, txn, phase, ctx, adapterLock>>
      /\ ran' = Append(ran, r) /\ ranOn' = Append(ranOn, content)
  BY DEF Tool
<1>4. /\ Len(ran) \in Nat /\ Len(ran) = Len(ranOn)
      /\ Len(ran') = Len(ran) + 1 /\ Len(ranOn') = Len(ran) + 1
      /\ \A k \in 1..Len(ran) : ran'[k] = ran[k] /\ ranOn'[k] = ranOn[k]
      /\ ran'[Len(ran) + 1] = r /\ ranOn'[Len(ran) + 1] = content
      /\ DOMAIN ran = 1..Len(ran) /\ DOMAIN ran' = 1..(Len(ran) + 1)
  <2>1. ran \in Seq([at: Nat, id: Ids, call: Calls, binding: Tokens \cup {NoToken}])
        /\ ranOn \in Seq(Values) /\ content \in Values /\ Len(ran) = Len(ranOn)
    BY DEF SInv, HInv, TypeOK, RanUnderSaved
  <2>2. r \in [at: Nat, id: Ids, call: Calls, binding: Tokens \cup {NoToken}]
    BY <1>1, LenProperties DEF SInv, HInv, TypeOK, EntryFits, Entries
  <2> HIDE DEF r
  <2>3. /\ Append(ran, r) \in Seq([at: Nat, id: Ids, call: Calls, binding: Tokens \cup {NoToken}])
        /\ Append(ranOn, content) \in Seq(Values)
    BY <2>1, <2>2, AppendProperties
  <2> QED
    BY <1>3, <2>1, <2>2, <2>3, AppendProperties, LenProperties
<1>5. \A h \in Hosts : unsaved[h] = {}
  BY <1>1, <1>2, OneOpen DEF SInv, UnsavedIsOpen
<1>6. RanUnderSaved'
  BY <1>3, <1>4, <1>5 DEF RanUnderSaved
<1>7. ApprovedAsShown'
  <2> SUFFICES ASSUME NEW k \in 1..(Len(ran) + 1), ran'[k].binding # NoToken
               PROVE  LET p == proposals[ran'[k].binding]
                      IN  p # NoProposal /\ p.call = ran'[k].call /\ p.revision = ranOn'[k]
    BY <1>3, <1>4 DEF ApprovedAsShown
  <2>1. CASE k = Len(ran) + 1
    BY <1>2, <1>4, <2>1 DEF Shows
  <2>2. CASE k # Len(ran) + 1
    BY <1>4, <2>2 DEF SInv, ApprovedAsShown
  <2> QED
    BY <2>1, <2>2
<1>8. PICK kind \in OutcomeKinds, tm \in Times :
        entry' = [entry EXCEPT ![c] = [@ EXCEPT !.kind = kind, !.time = tm, !.allow = FALSE]]
  BY DEF Tool
<1>9. PICK x : x = [entry[c] EXCEPT !.kind = kind, !.time = tm, !.allow = FALSE]
  OBVIOUS
<1>10. entry' = [entry EXCEPT ![c] = x]
  BY <1>8, <1>9 DEF SInv, HInv, TypeOK
<1>11. x \in Entries /\ x.kind # "admit"
  BY <1>1, <1>9, HostAssumption DEF Entries, OutcomeKinds
<1>12. "begin" \in AdapterHeld \ {"check"}
  BY DEF AdapterHeld
<1>13. \A h \in Hosts : unsaved[h] # {} => txn'[h]
  BY <1>5
<1> HIDE DEF AdapterHeld
<1> QED
  BY <1>1, <1>2, <1>3, <1>6, <1>7, <1>10, <1>11, <1>12, <1>13, InsideKeepsSInv

-------------------------------------------------------------------------------
\* A call that starts brings a token of its own, and nothing else.
LEMMA StartKeepsSInv ==
  ASSUME SInv, NEW c \in Callers, Begins(c)
  PROVE  SInv'
<1>1. PICK x : Start(c, x) /\ (x.op = "prepare" => x.token \in Tokens /\ FreshToken(x.token))
  <2>1. ASSUME StartPrepare(c)
        PROVE  \E x : Start(c, x) /\ (x.op = "prepare" => x.token \in Tokens /\ FreshToken(x.token))
    BY <2>1 DEF StartPrepare, Context
  <2>2. ASSUME \E x : Start(c, x) /\ x.op # "prepare"
        PROVE  \E x : Start(c, x) /\ (x.op = "prepare" => x.token \in Tokens /\ FreshToken(x.token))
    BY <2>2
  <2>3. ASSUME StartConfirm(c) PROVE \E x : Start(c, x) /\ x.op # "prepare"
    BY <2>3 DEF StartConfirm, Context
  <2>4. ASSUME StartObserve(c) PROVE \E x : Start(c, x) /\ x.op # "prepare"
    BY <2>4 DEF StartObserve, Context
  <2>5. ASSUME StartUserAction(c) PROVE \E x : Start(c, x) /\ x.op # "prepare"
    BY <2>5 DEF StartUserAction, Context
  <2>6. ASSUME StartExecute(c) PROVE \E x : Start(c, x) /\ x.op # "prepare"
    BY <2>6 DEF StartExecute, Context
  <2>7. ASSUME StartClose(c) PROVE \E x : Start(c, x) /\ x.op # "prepare"
    BY <2>7 DEF StartClose, Context
  <2> QED
    BY <2>1, <2>2, <2>3, <2>4, <2>5, <2>6, <2>7 DEF Begins
<1>2. HInv /\ HInv'
  BY StartKeepsHInv DEF SInv
<1>3. /\ pc'[c] = "host" /\ ctx'[c] = x
      /\ \A d \in Callers \ {c} : pc'[d] = pc[d] /\ ctx'[d] = ctx[d]
      /\ UNCHANGED <<proposals, txn, phase, unsaved, entry, adapterLock, content, ran, ranOn>>
  BY <1>1, <1>2 DEF Start, Goto, disk, object, backend, HInv, TypeOK
<1>4. AdapterOwned' /\ RecordsAreSaved' /\ CarriesApproval'
  BY <1>3 DEF SInv, AdapterOwned, AdapterHeld, NeedsAdapter, RecordsAreSaved, CarriesApproval, Shows
<1>5. TokensAreFresh'
  BY <1>1, <1>3 DEF SInv, TokensAreFresh, FreshToken
<1>6. UnsavedIsOpen'
  BY <1>3 DEF SInv, UnsavedIsOpen
<1> QED
  BY <1>2, <1>3, <1>4, <1>5, <1>6, RunsStayShown DEF SInv

LEMMA EnterKeepsSInv ==
  ASSUME SInv, NEW c \in Callers, AcquireHost(c) \/ AcquireAdapter(c) \/ Leave(c)
  PROVE  SInv'
<1> USE DEF disk, engine, object, calls, backend, bounds, At, Goto
<1>1. HInv /\ HInv'
  BY EnterKeepsHInv DEF SInv
<1>2. /\ UNCHANGED <<proposals, txn, phase, unsaved, content, ran, ranOn>>
      /\ \A d \in Callers \ {c} : pc'[d] = pc[d] /\ ctx'[d] = ctx[d] /\ entry'[d] = entry[d]
      /\ pc'[c] \in {"adapter", "check", "idle"} /\ (pc'[c] \in {"adapter", "check"} => ctx'[c] = ctx[c])
      /\ ctx'[c] = ctx[c] \/ ctx'[c].op = "none"
      /\ pc'[c] \in {"adapter", "check"} => pc[c] \in {"host", "adapter"}
  BY <1>1 DEF AcquireHost, AcquireAdapter, Leave, NoContext, Context, HInv, TypeOK
<1>3. AdapterOwned'
  <2>1. pc'[c] = "check" /\ ctx'[c].op \notin {"observe", "close"} => adapterLock' = c
    BY <1>1 DEF AcquireHost, AcquireAdapter, Leave, NeedsAdapter, HInv, TypeOK
  <2>2. adapterLock' # adapterLock => adapterLock \in {c, NoCaller}
    BY DEF AcquireHost, AcquireAdapter, Leave, AdapterAfter
  <2>3. \A d \in Callers \ {c} : pc[d] \in AdapterHeld /\ NeedsAdapter(d) => adapterLock' = d
    BY <2>2, HostAssumption DEF SInv, AdapterOwned
  <2> QED
    BY <1>2, <2>1, <2>3 DEF AdapterOwned, AdapterHeld, NeedsAdapter
<1>4. UnsavedIsOpen' /\ RecordsAreSaved'
  BY <1>2 DEF SInv, UnsavedIsOpen, RecordsAreSaved
<1>5. TokensAreFresh'
  BY <1>2 DEF SInv, TokensAreFresh
<1>6. CarriesApproval'
  BY <1>2 DEF SInv, CarriesApproval, Shows
<1> QED
  BY <1>1, <1>2, <1>3, <1>4, <1>5, <1>6, RunsStayShown DEF SInv

\* The end of a host takes away unsaved proposals only, and no other thread was on the
\* way to a tool.
LEMMA EndKeepsSInv ==
  ASSUME SInv, HInv', NEW h \in Hosts, EndHost(h)
  PROVE  SInv'
<1> USE DEF disk, engine, object, calls, backend, bounds
<1>1. /\ UNCHANGED <<content, ran, ranOn>>
      /\ \A d \in Callers : HostOf[d] = h => pc'[d] = "idle" /\ ctx'[d].op = "none"
      /\ \A d \in Callers : HostOf[d] # h =>
           pc'[d] = pc[d] /\ ctx'[d] = ctx[d] /\ entry'[d] = entry[d]
      /\ \A g \in Hosts \ {h} : unsaved'[g] = unsaved[g] /\ txn'[g] = txn[g] /\ phase'[g] = phase[g]
      /\ unsaved'[h] = {}
      /\ \A t \in Tokens : proposals'[t] = IF t \in unsaved[h] THEN NoProposal ELSE proposals[t]
      /\ adapterLock' = IF adapterLock \in {c \in Callers : HostOf[c] = h} THEN NoCaller
                        ELSE adapterLock
  BY DEF EndHost, NoContext, Context, SInv, HInv, TypeOK
<1>2. AdapterOwned'
  BY <1>1 DEF SInv, AdapterOwned, AdapterHeld, NeedsAdapter
<1>3. UnsavedIsOpen' /\ RecordsAreSaved'
  BY <1>1, HostAssumption DEF SInv, UnsavedIsOpen, RecordsAreSaved
<1>4. TokensAreFresh'
  <2> SUFFICES ASSUME NEW c \in Callers, ctx'[c].op = "prepare"
               PROVE  /\ pc'[c] \in {"host", "adapter", "check"} => proposals'[ctx'[c].token] = NoProposal
                      /\ \A d \in Callers \ {c} : ctx'[d].op = "prepare" => ctx'[d].token # ctx'[c].token
    BY DEF TokensAreFresh
  <2>1. HostOf[c] # h
    BY <1>1
  <2>2. pc[c] \in {"host", "adapter", "check"} => ctx[c].token \in Tokens
    BY <1>1, <2>1 DEF SInv, HInv, ContextFits
  <2> QED
    BY <1>1, <2>1, <2>2 DEF SInv, TokensAreFresh
<1>5. CarriesApproval'
  <2> SUFFICES ASSUME NEW c \in Callers, pc'[c] \in {"begin", "engine", "commit", "tool"},
                      entry'[c].kind = "admit"
               PROVE  (ctx[c].op = "execute" /\ Shows(entry[c]))'
    BY DEF CarriesApproval
  <2>1. HostOf[c] # h /\ pc[c] = pc'[c] /\ entry[c] = entry'[c] /\ ctx[c] = ctx'[c]
    BY <1>1
  <2>2. ctx[c].op = "execute" /\ Shows(entry[c]) /\ phase[HostOf[c]] = "open" /\ HostOf[c] \in Hosts
        /\ entry[c] \in Entries
    BY <2>1, HostAssumption DEF SInv, CarriesApproval, HInv, CallsAreInside, EntryFits
  <2>3. unsaved[h] = {}
    BY <2>1, <2>2, OneOpen DEF SInv, UnsavedIsOpen
  <2>4. entry[c].binding # NoToken => proposals'[entry[c].binding] = proposals[entry[c].binding]
    BY <1>1, <2>2, <2>3 DEF Entries
  <2> QED
    BY <1>1, <2>1, <2>2, <2>4 DEF Shows
<1>6. RanUnderSaved'
  BY <1>1 DEF SInv, RanUnderSaved
<1>7. ApprovedAsShown'
  <2>1. ran \in [1..Len(ran) -> [at: Nat, id: Ids, call: Calls, binding: Tokens \cup {NoToken}]]
    BY LenProperties DEF SInv, HInv, TypeOK
  <2>2. \A k \in DOMAIN ran : ran[k].binding # NoToken =>
          proposals'[ran[k].binding] = proposals[ran[k].binding]
    BY <1>1, <2>1 DEF SInv, RanUnderSaved
  <2> QED
    BY <1>1, <2>2 DEF SInv, ApprovedAsShown
<1> QED
  BY <1>2, <1>3, <1>4, <1>5, <1>6, <1>7 DEF SInv

LEMMA EndingsKeepSInv ==
  ASSUME SInv, \/ \E c \in Callers : Close(c)
               \/ \E h \in Hosts : Crash(h) \/ OpenFails(h)
  PROVE  SInv'
<1>1. HInv'
  BY EndingsKeepHInv DEF SInv
<1>2. PICK h \in Hosts : EndHost(h)
  BY HostAssumption DEF Close, Crash, OpenFails
<1> QED
  BY <1>1, <1>2, EndKeepsSInv

LEMMA OpenKeepsSInv ==
  ASSUME SInv, NEW h \in Hosts,
         OpenLock(h) \/ OpenEngine(h) \/ CheckIdentity(h) \/ PinRow(h) \/ ReplayJournal(h)
  PROVE  SInv'
<1> USE DEF disk, engine, object, calls, backend, bounds, SetPhase
<1>1. UNCHANGED <<proposals, txn, unsaved, pc, ctx, entry, adapterLock, content, ran, ranOn>>
      /\ phase[h] # "open" /\ \A g \in Hosts \ {h} : phase'[g] = phase[g]
  BY DEF OpenLock, OpenEngine, CheckIdentity, PinRow, ReplayJournal, SInv, HInv, TypeOK
<1>2. HInv'
  BY OpenKeepsHInv DEF SInv
<1>3. AdapterOwned' /\ UnsavedIsOpen' /\ RecordsAreSaved' /\ TokensAreFresh' /\ CarriesApproval'
  BY <1>1 DEF SInv, AdapterOwned, NeedsAdapter, UnsavedIsOpen, RecordsAreSaved, TokensAreFresh,
              CarriesApproval, Shows
<1> QED
  BY <1>1, <1>2, <1>3, RunsStayShown DEF SInv

\* Another program writes to the backend under the adapter's lock only.
LEMMA EnvironmentKeepsSInv ==
  ASSUME SInv, WriterEnters \/ WriterLeaves \/ ReplaceBinary \/ UNCHANGED vars
  PROVE  SInv'
<1> USE DEF disk, engine, object, calls, backend, bounds
<1>1. UNCHANGED <<proposals, txn, phase, unsaved, pc, ctx, entry, ran, ranOn>>
      /\ (adapterLock' # adapterLock => adapterLock \in {NoCaller, Writer})
      /\ (content' # content => adapterLock = Writer)
  BY DEF WriterEnters, WriterLocks, WriterLeaves, ReplaceBinary, vars
<1>2. HInv'
  BY EnvironmentKeepsHInv DEF SInv
<1>3. AdapterOwned'
  BY <1>1, HostAssumption DEF SInv, AdapterOwned, NeedsAdapter
<1>4. UnsavedIsOpen' /\ RecordsAreSaved' /\ TokensAreFresh'
  BY <1>1 DEF SInv, UnsavedIsOpen, RecordsAreSaved, TokensAreFresh
<1>5. CarriesApproval'
  <2> SUFFICES ASSUME NEW c \in Callers, pc[c] \in {"begin", "engine", "commit", "tool"},
                      entry[c].kind = "admit"
               PROVE  ctx[c].op = "execute" /\ Shows(entry[c])'
    BY <1>1 DEF CarriesApproval, Shows
  <2>1. ctx[c].op = "execute" /\ Shows(entry[c]) /\ adapterLock = c
    BY DEF SInv, CarriesApproval, AdapterOwned, AdapterHeld, NeedsAdapter
  <2> QED
    BY <1>1, <2>1, HostAssumption DEF Shows
<1> QED
  BY <1>1, <1>2, <1>3, <1>4, <1>5, RunsStayShown DEF SInv

LEMMA StepKeepsSInv == SInv /\ [Next]_vars => SInv'
<1> SUFFICES ASSUME SInv, [Next]_vars PROVE SInv'
  OBVIOUS
<1>1. ASSUME NEW c \in Callers, Begins(c) PROVE SInv'
  BY <1>1, StartKeepsSInv
<1>2. ASSUME NEW c \in Callers, Steps(c) PROVE SInv'
  BY <1>2, EnterKeepsSInv, PrepareKeepsSInv, CheckKeepsSInv, RecordKeepsSInv, ToolKeepsSInv,
     EndingsKeepSInv DEF Steps
<1>3. ASSUME NEW h \in Hosts, Opens(h) \/ Crash(h) PROVE SInv'
  BY <1>3, OpenKeepsSInv, EndingsKeepSInv DEF Opens
<1>4. CASE WriterEnters \/ WriterLeaves \/ ReplaceBinary \/ Finished \/ UNCHANGED vars
  BY <1>4, EnvironmentKeepsSInv DEF Finished
<1> QED
  BY <1>1, <1>2, <1>3, <1>4 DEF Next

\* A tool that runs under a proposal gets the arguments that were shown, on the backend
\* they were shown for, and the proposal stays on record, also through failed rollbacks,
\* crashes and restarts (host.py:363-382).
THEOREM ToolsRunAsShown == Spec => []ApprovedAsShown
<1>1. SInv => ApprovedAsShown
  BY DEF SInv
<1> QED
  BY <1>1, InitSInv, StepKeepsSInv, PTL DEF Spec
===============================================================================
