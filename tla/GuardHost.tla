------------------------------ MODULE GuardHost -------------------------------
(***************************************************************************)
(* GuardHost of python/leanguard/host.py: the writer of a journal.  Caller *)
(* threads enter execute, prepare, confirm, observe_trusted, close and     *)
(* TauAdapter.user_action; each call holds the host's lock, and most hold  *)
(* the adapter's lock too, from its first read of the backend to its last  *)
(* journal write.  An action is one step of a call between two points      *)
(* where the process can die or an operation can fail.                     *)
(*                                                                         *)
(* Several hosts, in one process or in several, may try to open the same   *)
(* database.  Any process can crash at any step; the engine, SQLite and    *)
(* the tool can fail at each use; the binary of the engine can be replaced *)
(* on disk; other programs write to the backend under the adapter's lock;  *)
(* and the clock may jump either way.                                      *)
(***************************************************************************)
EXTENDS RuntimeCore

CONSTANTS
  Hosts,         \* GuardHost objects, one after or beside another
  Callers,       \* threads that call a host
  HostOf,        \* the host a thread calls
  Binaries,      \* fingerprints of engine executables
  Times,         \* clock readings
  Writer,        \* any program but a host that writes to the backend
  NoHost, NoCaller, NoSession, NoBinary, NoProposal, NoEntry, NoCall,
  Menu,          \* bound: the operations that callers use
  MaxStarts,     \* bound: calls started
  MaxFaults,     \* bound: crashes and failures of the engine, SQLite, the binary
  MaxWrites      \* bound: writes by other programs

Ops == {"prepare", "confirm", "refuse", "observe", "user", "execute", "close"}

ASSUME HostAssumption ==
  /\ Menu \subseteq Ops
  /\ HostOf \in [Callers -> Hosts]
  /\ NoHost \notin Hosts
  /\ NoCaller \notin Callers /\ Writer \notin Callers /\ Writer # NoCaller
  /\ NoSession \notin Sessions /\ NoBinary \notin Binaries
  /\ Times \subseteq Nat
  /\ MaxStarts \in Nat /\ MaxFaults \in Nat /\ MaxWrites \in Nat

VARIABLES
  \* on disk
  journal,       \* rows of table journal, as answered entries
  proposals,     \* rows of table proposals
  pin,           \* table metadata: how many of its rows, and the pinned engine
  flock,         \* who holds the lock file
  installed,     \* the engine executable on disk
  \* per host object
  phase,         \* how far __init__ has come
  session,       \* the conversation it was opened for
  txn,           \* a SQLite transaction is open on its connection
  unsaved,       \* proposals inserted inside that transaction
  up,            \* its engine process runs
  running,       \* the executable that process was started from
  log,           \* the history in that process
  hostLock,      \* owner of _lock
  \* per caller
  pc, ctx,       \* where the thread is, and in which call
  entry,         \* the command it is recording
  \* the adapter and its backend
  adapterLock,   \* owner of adapter.lock
  content,       \* the backend's state; revision is its digest
  ran,           \* history variable: the tool invocations, oldest first
  ranOn,         \* history variable: the content each of them started from
  \* the bounded counters
  starts, faults, writes

disk == <<journal, proposals, pin, flock>>
engine == <<up, running, log>>
object == <<phase, session, txn, unsaved, hostLock>>
calls == <<pc, ctx, entry>>
backend == <<content, ran, ranOn>>
bounds == <<starts, faults, writes>>
vars == <<disk, installed, engine, object, calls, adapterLock, backend, bounds>>

-------------------------------------------------------------------------------
\* Calls in progress

UserCalls == [action: {"user"}, resource: Resources, value: Values, amount: {0}]

Contexts == [op: Ops \cup {"none"},
             call: Calls \cup Subjects \cup UserCalls \cup {NoCall},
             token: Tokens \cup {NoToken},
             id: Ids \cup {NoId}]

Context(op, call, token, id) == [op |-> op, call |-> call, token |-> token, id |-> id]

NoContext == Context("none", NoCall, NoToken, NoId)

Proposals == [call: Calls, revision: Values, session: Sessions]

\* observe_trusted and close take the host's lock only.
NeedsAdapter(c) == ctx[c].op \notin {"observe", "close"}

HostHeld == {"adapter", "check", "begin", "engine", "commit", "abort", "recover",
             "tool", "return", "raise"}
AdapterHeld == HostHeld \ {"adapter"}
PCs == {"idle", "host"} \cup HostHeld

Goto(c, l) == pc' = [pc EXCEPT ![c] = l]

At(c, l) == pc[c] = l /\ phase[HostOf[c]] = "open"

FaultHappens == faults < MaxFaults /\ faults' = faults + 1

-------------------------------------------------------------------------------
\* Entering a call

Start(c, x) ==
  /\ At(c, "idle")
  /\ x.op \in Menu
  /\ starts < MaxStarts
  /\ starts' = starts + 1
  /\ ctx' = [ctx EXCEPT ![c] = x]
  /\ Goto(c, "host")
  /\ UNCHANGED <<disk, installed, engine, object, entry, adapterLock, backend,
                 faults, writes>>

\* The token of a proposal is a fresh UUID.
FreshToken(t) ==
  proposals[t] = NoProposal /\ \A d \in Callers : ctx[d].op = "prepare" => ctx[d].token # t

StartPrepare(c) ==
  \E call \in Calls, t \in Tokens :
    FreshToken(t) /\ Start(c, Context("prepare", call, t, NoId))

StartConfirm(c) ==
  \E t \in Tokens, op \in {"confirm", "refuse"} : Start(c, Context(op, NoCall, t, NoId))

StartObserve(c) ==
  \E s \in Subjects : s.action = "user" /\ Start(c, Context("observe", s, NoToken, NoId))

StartUserAction(c) ==
  \E call \in UserCalls : Start(c, Context("user", call, NoToken, NoId))

StartExecute(c) ==
  \E call \in Calls, t \in Tokens \cup {NoToken}, id \in Ids :
    Start(c, Context("execute", call, t, id))

StartClose(c) == Start(c, Context("close", NoCall, NoToken, NoId))

HostFree_CloseBarges(c) == ctx[c].op = "close" \/ hostLock[HostOf[c]] = NoCaller
HostFree(c) == hostLock[HostOf[c]] = NoCaller

AcquireHost(c) ==
  /\ At(c, "host")
  /\ HostFree(c)
  /\ hostLock' = [hostLock EXCEPT ![HostOf[c]] = c]
  /\ Goto(c, IF NeedsAdapter(c) THEN "adapter" ELSE "check")
  /\ UNCHANGED <<disk, installed, engine, phase, session, txn, unsaved, ctx, entry,
                 adapterLock, backend, bounds>>

AcquireAdapter(c) ==
  /\ At(c, "adapter")
  /\ adapterLock = NoCaller
  /\ adapterLock' = c
  /\ Goto(c, "check")
  /\ UNCHANGED <<disk, installed, engine, object, ctx, entry, backend, bounds>>

AdapterAfter_KeptOnRaise(c) ==
  IF adapterLock = c /\ pc[c] = "return" THEN NoCaller ELSE adapterLock
AdapterAfter(c) == IF adapterLock = c THEN NoCaller ELSE adapterLock

\* Leaving the `with` block, by a return or by an exception.
Leave(c) ==
  /\ pc[c] \in {"return", "raise"}
  /\ hostLock' = [hostLock EXCEPT ![HostOf[c]] = NoCaller]
  /\ adapterLock' = AdapterAfter(c)
  /\ Goto(c, "idle")
  /\ ctx' = [ctx EXCEPT ![c] = NoContext]
  /\ entry' = [entry EXCEPT ![c] = NoEntry]
  /\ UNCHANGED <<disk, installed, engine, phase, session, txn, unsaved, backend, bounds>>

-------------------------------------------------------------------------------
\* Checks made under the locks, before anything is recorded

Subject(call) ==
  [action |-> call.action, resource |-> call.resource, value |-> NoValue, amount |-> 0]

\* _event: the command to record, stamped with the host's session and clock.
Command(c, kind, call, tm) ==
  [kind |-> kind, id |-> ctx[c].id, session |-> session[HostOf[c]], call |-> call,
   binding |-> ctx[c].token, time |-> tm, allow |-> FALSE]

\* The next step of the call is _record of a new command.
RecordNext(c, kind, call) ==
  /\ \E tm \in Times : entry' = [entry EXCEPT ![c] = Command(c, kind, call, tm)]
  /\ Goto(c, "begin")

\* The proposal is stored inside the transaction when an earlier rollback failed.
Prepare(c) ==
  /\ At(c, "check") /\ ctx[c].op = "prepare"
  /\ proposals' = [proposals EXCEPT ![ctx[c].token] =
                     [call |-> ctx[c].call, revision |-> content,
                      session |-> session[HostOf[c]]]]
  /\ unsaved' = [unsaved EXCEPT ![HostOf[c]] =
                   IF txn[HostOf[c]] THEN @ \cup {ctx[c].token} ELSE @]
  /\ Goto(c, "return")
  /\ UNCHANGED <<journal, pin, flock, installed, engine, phase, session, txn, hostLock,
                 ctx, entry, adapterLock, backend, bounds>>

\* _proposal: the token is known, to this conversation.
Known(c) ==
  /\ ctx[c].token # NoToken
  /\ proposals[ctx[c].token] # NoProposal
  /\ proposals[ctx[c].token].session = session[HostOf[c]]

Fresh_AnyRevision(c) == TRUE
Fresh(c) == proposals[ctx[c].token].revision = content

Confirm(c) ==
  /\ At(c, "check") /\ ctx[c].op \in {"confirm", "refuse"}
  /\ IF Known(c) /\ Fresh(c)
       THEN RecordNext(c, IF ctx[c].op = "confirm" THEN "confirmed" ELSE "revoked",
                       Subject(proposals[ctx[c].token].call))
       ELSE Goto(c, "raise") /\ UNCHANGED entry
  /\ UNCHANGED <<disk, installed, engine, object, ctx, adapterLock, backend, bounds>>

Observe(c) ==
  /\ At(c, "check") /\ ctx[c].op = "observe"
  /\ RecordNext(c, "identity", ctx[c].call)
  /\ UNCHANGED <<disk, installed, engine, object, ctx, adapterLock, backend, bounds>>

Matches(c) == proposals[ctx[c].token].call = ctx[c].call /\ Fresh(c)

\* A call without a proposal goes to the policy as it is; one with a proposal
\* must know it (ValueError) and match it (an unrecorded denial).
Execute(c) ==
  /\ At(c, "check") /\ ctx[c].op = "execute"
  /\ \/ /\ ctx[c].token = NoToken \/ (Known(c) /\ Matches(c))
        /\ RecordNext(c, "admit", ctx[c].call)
     \/ /\ ctx[c].token # NoToken /\ Known(c) /\ ~Matches(c)
        /\ Goto(c, "return") /\ UNCHANGED entry
     \/ /\ ctx[c].token # NoToken /\ ~Known(c)
        /\ Goto(c, "raise") /\ UNCHANGED entry
  /\ UNCHANGED <<disk, installed, engine, object, ctx, adapterLock, backend, bounds>>

\* TauAdapter.user_action: the user's tool runs first and is recorded after; an
\* exception of the tool leaves it unrecorded, with or without its effect.
UserAction(c) ==
  /\ At(c, "check") /\ ctx[c].op = "user"
  /\ \/ content' = ctx[c].call.value /\ RecordNext(c, "user_action", Subject(ctx[c].call))
     \/ content' \in {content, ctx[c].call.value} /\ Goto(c, "raise") /\ UNCHANGED entry
  /\ UNCHANGED <<disk, installed, engine, object, ctx, adapterLock, ran, ranOn, bounds>>

-------------------------------------------------------------------------------
\* _record: one command, from BEGIN IMMEDIATE to COMMIT

\* BEGIN is outside the try block.  It fails inside an open transaction, which
\* an earlier failed ROLLBACK leaves behind, and when SQLite cannot take its lock.
Begin(c) ==
  /\ At(c, "begin")
  /\ \/ ~txn[HostOf[c]] /\ txn' = [txn EXCEPT ![HostOf[c]] = TRUE]
        /\ Goto(c, "engine") /\ UNCHANGED faults
     \/ txn[HostOf[c]] /\ Goto(c, "raise") /\ UNCHANGED <<txn, faults>>
     \/ FaultHappens /\ Goto(c, "raise") /\ UNCHANGED txn
  /\ UNCHANGED <<disk, installed, engine, phase, session, unsaved, hostLock, ctx, entry,
                 adapterLock, backend, starts, writes>>

Stop(h) ==
  /\ up' = [up EXCEPT ![h] = FALSE]
  /\ running' = [running EXCEPT ![h] = NoBinary]
  /\ log' = [log EXCEPT ![h] = << >>]

EngineAnswers(c) ==
  LET h == HostOf[c]
      answer == Answer(log[h], entry[c])
  IN  /\ At(c, "engine") /\ up[h] /\ Accepts(log[h], entry[c])
      /\ log' = [log EXCEPT ![h] = Append(@, answer)]
      /\ entry' = [entry EXCEPT ![c] = answer]
      /\ Goto(c, "commit")
      /\ UNCHANGED <<disk, installed, up, running, object, ctx, adapterLock, backend, bounds>>

\* The engine is not running, or refuses the command, or the exchange fails or
\* times out; Engine.request closes the channel in every case but the first.
EngineFails(c) ==
  LET h == HostOf[c]
  IN  /\ At(c, "engine")
      /\ \/ ~(up[h] /\ Accepts(log[h], entry[c])) /\ UNCHANGED faults
         \/ FaultHappens
      /\ Stop(h)
      /\ Goto(c, "abort")
      /\ UNCHANGED <<disk, installed, object, ctx, entry, adapterLock, backend, starts, writes>>

\* After an admission the caller runs the tool if it is allowed; after anything
\* else it returns.
AfterCommit_RunsDenied(e) == IF e.kind = "admit" THEN "tool" ELSE "return"
AfterCommit(e) == IF IsDispatch(e) THEN "tool" ELSE "return"

\* INSERT INTO journal and COMMIT.
Commit(c) ==
  /\ At(c, "commit")
  /\ journal' = Append(journal, entry[c])
  /\ txn' = [txn EXCEPT ![HostOf[c]] = FALSE]
  /\ Goto(c, AfterCommit(entry[c]))
  /\ UNCHANGED <<proposals, pin, flock, installed, engine, phase, session, unsaved, hostLock,
                 ctx, entry, adapterLock, backend, bounds>>

CommitFails(c) ==
  /\ At(c, "commit")
  /\ FaultHappens
  /\ Goto(c, "abort")
  /\ UNCHANGED <<disk, installed, engine, object, ctx, entry, adapterLock, backend,
                 starts, writes>>

\* An exception that arrives after COMMIT took effect and before the return, such
\* as a KeyboardInterrupt, also enters the handler.
CommitInterrupted(c) ==
  /\ At(c, "commit")
  /\ FaultHappens
  /\ journal' = Append(journal, entry[c])
  /\ txn' = [txn EXCEPT ![HostOf[c]] = FALSE]
  /\ Goto(c, "abort")
  /\ UNCHANGED <<proposals, pin, flock, installed, engine, phase, session, unsaved, hostLock,
                 ctx, entry, adapterLock, backend, starts, writes>>

\* The handler closes the engine, then rolls back.  ROLLBACK raises when there is
\* no transaction any more, and when SQLite fails: then nothing is recovered.
CloseSpeculative_KeepsEngine(h) == UNCHANGED engine
CloseSpeculative(h) == Stop(h)

AfterRollback_GivesUp == "raise"
AfterRollback == "recover"

Rollback(c) ==
  LET h == HostOf[c]
  IN  /\ At(c, "abort")
      /\ CloseSpeculative(h)
      /\ \/ txn[h] /\ txn' = [txn EXCEPT ![h] = FALSE]
            /\ Goto(c, AfterRollback) /\ UNCHANGED faults
         \/ ~txn[h] /\ Goto(c, "raise") /\ UNCHANGED <<txn, faults>>
         \/ FaultHappens /\ Goto(c, "raise") /\ UNCHANGED txn
      /\ UNCHANGED <<disk, installed, phase, session, unsaved, hostLock, ctx, entry,
                     adapterLock, backend, starts, writes>>

Launch(h) ==
  /\ up' = [up EXCEPT ![h] = TRUE]
  /\ running' = [running EXCEPT ![h] = installed]

SamePolicy_Unchecked == TRUE
SamePolicy == installed = pin.engine

\* The rows a new engine is given, in order, before it answers anything else.
Replayed_Nothing == << >>
Replayed == journal

\* _recover: a new engine of the pinned binary, brought up by a full replay, or
\* no engine at all.  The original exception, or the new one, propagates.
Recover(c) ==
  LET h == HostOf[c]
  IN  /\ At(c, "recover")
      /\ \/ /\ SamePolicy /\ Replays(journal)
            /\ Launch(h)
            /\ log' = [log EXCEPT ![h] = Replayed]
            /\ UNCHANGED faults
         \/ ~(SamePolicy /\ Replays(journal)) /\ Stop(h) /\ UNCHANGED faults
         \/ FaultHappens /\ Stop(h)
      /\ Goto(c, "raise")
      /\ UNCHANGED <<disk, installed, object, ctx, entry, adapterLock, backend, starts, writes>>

-------------------------------------------------------------------------------
\* adapter.execute and its outcome

Effect(call) == IF call.action = "write" THEN call.value ELSE content

\* A tool that raises ReadOnlyToolError changed nothing; after any other exception
\* it may have.  The outcome becomes the next command of the call.
Tool(c) ==
  /\ At(c, "tool")
  /\ \E kind \in OutcomeKinds, tm \in Times :
       /\ entry' = [entry EXCEPT ![c] = [@ EXCEPT !.kind = kind, !.time = tm, !.allow = FALSE]]
       /\ CASE kind = "success" -> content' = Effect(entry[c].call)
            [] kind = "failure" -> content' = content
            [] kind = "unknown" -> content' \in {content, Effect(entry[c].call)}
  /\ ran' = Append(ran, [at |-> Len(journal), id |-> entry[c].id,
                         call |-> entry[c].call, binding |-> entry[c].binding])
  /\ ranOn' = Append(ranOn, content)
  /\ Goto(c, "begin")
  /\ UNCHANGED <<disk, installed, engine, object, ctx, adapterLock, bounds>>

-------------------------------------------------------------------------------
\* Closing, crashing, opening

\* What the end of host h leaves behind: its lock file is free, its engine is
\* gone, its open transaction is rolled back and its callers run no more.
EndHost(h) ==
  LET gone == {c \in Callers : HostOf[c] = h}
  IN  /\ phase' = [phase EXCEPT ![h] = "closed"]
      /\ flock' = IF flock = h THEN NoHost ELSE flock
      /\ Stop(h)
      /\ txn' = [txn EXCEPT ![h] = FALSE]
      /\ unsaved' = [unsaved EXCEPT ![h] = {}]
      /\ proposals' = [t \in Tokens |-> IF t \in unsaved[h] THEN NoProposal ELSE proposals[t]]
      /\ hostLock' = [hostLock EXCEPT ![h] = NoCaller]
      /\ adapterLock' = IF adapterLock \in gone THEN NoCaller ELSE adapterLock
      /\ pc' = [c \in Callers |-> IF c \in gone THEN "idle" ELSE pc[c]]
      /\ ctx' = [c \in Callers |-> IF c \in gone THEN NoContext ELSE ctx[c]]
      /\ entry' = [c \in Callers |-> IF c \in gone THEN NoEntry ELSE entry[c]]
      /\ session' = [session EXCEPT ![h] = NoSession]
      /\ UNCHANGED <<journal, pin, installed, backend, starts, writes>>

\* close() holds the host's lock, so no call is past its acquisition; threads
\* that still wait for it fail at their first use of the closed database.
Close(c) ==
  /\ At(c, "check") /\ ctx[c].op = "close"
  /\ EndHost(HostOf[c])
  /\ UNCHANGED faults

Crash(h) == phase[h] # "closed" /\ FaultHappens /\ EndHost(h)

PinRows == 3   \* domain, principal, engine: one autocommitted INSERT each

SetPhase(h, p) == phase' = [phase EXCEPT ![h] = p]

\* flock(LOCK_EX | LOCK_NB): a second host gets RuntimeError and changes nothing.
Free_Ignored(h) == TRUE
Free(h) == flock = NoHost

OpenLock(h) ==
  /\ phase[h] = "closed" /\ Free(h)
  /\ flock' = h
  /\ SetPhase(h, "locked")
  /\ \E s \in Sessions : session' = [session EXCEPT ![h] = s]
  /\ UNCHANGED <<journal, proposals, pin, installed, engine, txn, unsaved, hostLock, calls,
                 adapterLock, backend, bounds>>

OpenEngine(h) ==
  /\ phase[h] = "locked"
  /\ Launch(h)
  /\ log' = [log EXCEPT ![h] = << >>]
  /\ SetPhase(h, "identity")
  /\ UNCHANGED <<disk, installed, session, txn, unsaved, hostLock, calls, adapterLock,
                 backend, bounds>>

\* `existing and existing != expected`: a journal with some metadata must have
\* all of it, and the same.
Identified(h) == pin.rows = PinRows /\ pin.engine = running[h]

CheckIdentity(h) ==
  /\ phase[h] = "identity"
  /\ \/ pin.rows = 0 /\ SetPhase(h, "pin")
     \/ Identified(h) /\ SetPhase(h, "replay")
  /\ UNCHANGED <<disk, installed, engine, session, txn, unsaved, hostLock, calls,
                 adapterLock, backend, bounds>>

PinRow(h) ==
  /\ phase[h] = "pin"
  /\ pin' = [rows |-> pin.rows + 1,
             engine |-> IF pin.rows + 1 = PinRows THEN running[h] ELSE NoBinary]
  /\ SetPhase(h, IF pin.rows + 1 = PinRows THEN "replay" ELSE "pin")
  /\ UNCHANGED <<journal, proposals, flock, installed, engine, session, txn, unsaved,
                 hostLock, calls, adapterLock, backend, bounds>>

ReplayJournal(h) ==
  /\ phase[h] = "replay"
  /\ Replays(journal)
  /\ log' = [log EXCEPT ![h] = Replayed]
  /\ SetPhase(h, "open")
  /\ UNCHANGED <<disk, installed, up, running, session, txn, unsaved, hostLock, calls,
                 adapterLock, backend, bounds>>

\* __init__ closes what it opened and raises: the metadata disagrees, the replay
\* diverges, or the engine fails.
OpenFails(h) ==
  /\ \/ phase[h] = "identity" /\ pin.rows # 0 /\ ~Identified(h) /\ UNCHANGED faults
     \/ phase[h] = "replay" /\ ~Replays(journal) /\ UNCHANGED faults
     \/ phase[h] \in {"locked", "identity", "pin", "replay"} /\ FaultHappens
  /\ EndHost(h)

-------------------------------------------------------------------------------
\* The environment

\* A program other than the host takes adapter.lock, writes to the backend, and
\* lets the lock go.
WriterLocks == adapterLock = NoCaller

WriterEnters ==
  /\ WriterLocks
  /\ writes < MaxWrites /\ writes' = writes + 1
  /\ adapterLock' = Writer
  /\ UNCHANGED <<disk, installed, engine, object, calls, backend, starts, faults>>

WriterLeaves ==
  /\ adapterLock = Writer
  /\ adapterLock' = NoCaller
  /\ content' \in Values
  /\ UNCHANGED <<disk, installed, engine, object, calls, ran, ranOn, bounds>>

ReplaceBinary ==
  /\ FaultHappens
  /\ installed' \in Binaries \ {installed}
  /\ UNCHANGED <<disk, engine, object, calls, adapterLock, backend, starts, writes>>

\* Every caller has made its calls: the bound, not the system, ends the behaviour.
Finished ==
  /\ starts = MaxStarts
  /\ \A c \in Callers : pc[c] = "idle"
  /\ adapterLock = NoCaller
  /\ UNCHANGED vars

-------------------------------------------------------------------------------
Init ==
  /\ journal = << >>
  /\ proposals = [t \in Tokens |-> NoProposal]
  /\ pin = [rows |-> 0, engine |-> NoBinary]
  /\ flock = NoHost
  /\ installed \in Binaries
  /\ phase = [h \in Hosts |-> "closed"]
  /\ session = [h \in Hosts |-> NoSession]
  /\ txn = [h \in Hosts |-> FALSE]
  /\ unsaved = [h \in Hosts |-> {}]
  /\ up = [h \in Hosts |-> FALSE]
  /\ running = [h \in Hosts |-> NoBinary]
  /\ log = [h \in Hosts |-> << >>]
  /\ hostLock = [h \in Hosts |-> NoCaller]
  /\ pc = [c \in Callers |-> "idle"]
  /\ ctx = [c \in Callers |-> NoContext]
  /\ entry = [c \in Callers |-> NoEntry]
  /\ adapterLock = NoCaller
  /\ content \in Values
  /\ ran = << >> /\ ranOn = << >>
  /\ starts = 0 /\ faults = 0 /\ writes = 0

Begins(c) ==
  \/ StartPrepare(c) \/ StartConfirm(c) \/ StartObserve(c)
  \/ StartUserAction(c) \/ StartExecute(c) \/ StartClose(c)

\* Steps a thread takes once it is in a call.
Steps(c) ==
  \/ AcquireHost(c) \/ AcquireAdapter(c)
  \/ Prepare(c) \/ Confirm(c) \/ Observe(c) \/ UserAction(c) \/ Execute(c)
  \/ Begin(c) \/ EngineAnswers(c) \/ EngineFails(c)
  \/ Commit(c) \/ CommitFails(c) \/ CommitInterrupted(c)
  \/ Rollback(c) \/ Recover(c) \/ Tool(c) \/ Close(c) \/ Leave(c)

Opens(h) ==
  OpenLock(h) \/ OpenEngine(h) \/ CheckIdentity(h) \/ PinRow(h) \/ ReplayJournal(h)
    \/ OpenFails(h)

Next ==
  \/ \E c \in Callers : Begins(c) \/ Steps(c)
  \/ \E h \in Hosts : Opens(h) \/ Crash(h)
  \/ WriterEnters \/ WriterLeaves
  \/ ReplaceBinary
  \/ Finished

Spec == Init /\ [][Next]_vars

\* A thread in a call keeps running: tools and the engine answer or fail, and a
\* writer to the backend lets the adapter's lock go.  Locks are granted to a
\* thread that asks again and again while they come free.
Fairness ==
  /\ \A c \in Callers :
       /\ WF_vars(Steps(c))
       /\ SF_vars(AcquireHost(c)) /\ SF_vars(AcquireAdapter(c))
  /\ WF_vars(WriterLeaves)

FairSpec == Spec /\ Fairness

-------------------------------------------------------------------------------
\* Properties

TypeOK ==
  /\ journal \in Seq(Entries)
  /\ proposals \in [Tokens -> Proposals \cup {NoProposal}]
  /\ pin \in [rows: 0..PinRows, engine: Binaries \cup {NoBinary}]
  /\ flock \in Hosts \cup {NoHost}
  /\ installed \in Binaries
  /\ phase \in [Hosts -> {"closed", "locked", "identity", "pin", "replay", "open"}]
  /\ session \in [Hosts -> Sessions \cup {NoSession}]
  /\ txn \in [Hosts -> BOOLEAN]
  /\ unsaved \in [Hosts -> SUBSET Tokens]
  /\ up \in [Hosts -> BOOLEAN]
  /\ running \in [Hosts -> Binaries \cup {NoBinary}]
  /\ log \in [Hosts -> Seq(Entries)]
  /\ hostLock \in [Hosts -> Callers \cup {NoCaller}]
  /\ pc \in [Callers -> PCs]
  /\ ctx \in [Callers -> Contexts]
  /\ entry \in [Callers -> Entries \cup {NoEntry}]
  /\ adapterLock \in Callers \cup {NoCaller, Writer}
  /\ content \in Values
  /\ ran \in Seq([at: Nat, id: Ids, call: Calls, binding: Tokens \cup {NoToken}])
  /\ ranOn \in Seq(Values)
  /\ starts \in 0..MaxStarts /\ faults \in 0..MaxFaults /\ writes \in 0..MaxWrites

\* The host implements the reference monitor: however calls, crashes, failures
\* and restarts interleave, the journal grows by answers the monitor would give
\* and a tool runs only right after its dispatch was committed.
Promise == INSTANCE Monitor
RefinesMonitor == Promise!Spec

\* Outside _record, a live engine holds exactly the committed journal: nothing
\* it accepted for a row that was rolled back stays in it (host.py:161-166).
InRecord(h) == \E c \in Callers : HostOf[c] = h /\ pc[c] \in {"commit", "abort"}

EngineAgrees ==
  \A h \in Hosts : phase[h] = "open" /\ up[h] /\ ~InRecord(h) => log[h] = journal

\* No restart finds its journal refused: whatever failed and was brought up again
\* in between, a new engine that is given the committed rows accepts every one and
\* answers as stored, so neither __init__ nor _recover ever raises `journal replay
\* diverged` (host.py:128-148).
RestartsFindTheJournal == Replays(journal)

\* At most one host has a journal open, whatever state its opening is in
\* (host.py:99-105), and the lock file says which.
SingleWriter == \A h \in Hosts : phase[h] # "closed" => flock = h

\* Decisions come from the engine the journal is pinned to, also after a recovery
\* while the executable on disk was replaced (host.py:117-120, 139-144).
PinnedEngine ==
  \A h \in Hosts :
    phase[h] = "open" /\ up[h] => pin.rows = PinRows /\ running[h] = pin.engine

\* A crash between two of the inserts that pin the journal leaves metadata no
\* host will accept, and then no row was ever written (host.py:117-122).
HalfPinnedIsEmpty == pin.rows # PinRows => journal = << >> /\ ran = << >>

\* A tool invoked under a proposal gets the arguments that were shown, on the
\* backend state they were shown for: no write came in between (host.py:363-382).
ApprovedAsShown ==
  \A k \in DOMAIN ran :
    ran[k].binding # NoToken =>
      LET p == proposals[ran[k].binding]
      IN  p # NoProposal /\ p.call = ran[k].call /\ p.revision = ranOn[k]

\* close() gives the lock file back only when no call of the host is between its
\* first check and its outcome (host.py:430-438).
ShutdownWaits ==
  [][\A h \in Hosts :
       phase[h] = "open" /\ phase'[h] = "closed" /\ faults' = faults =>
         \A c \in Callers :
           HostOf[c] = h => pc[c] \in {"idle", "host"} \/ ctx[c].op = "close"]_vars

\* README.md:121-122: an exception of execute means that nothing was dispatched.
RaisedMeansNotDispatched ==
  \A c \in Callers :
    pc[c] = "raise" /\ ctx[c].op = "execute" /\ entry[c] # NoEntry
      => entry[c].kind \notin OutcomeKinds

\* Every call comes back, whatever fails on the way: no thread keeps a lock for
\* ever and no order of acquisition deadlocks.
CallsReturn == \A c \in Callers : pc[c] # "idle" ~> pc[c] = "idle"

\* Once failures stop, a call that finds the engine dead brings it up again, so
\* that at most that call is lost (host.py:161-166).
CallRevivesEngine ==
  \A h \in Hosts, c \in Callers :
    (/\ HostOf[c] = h /\ phase[h] = "open" /\ pc[c] = "begin"
     /\ ~up[h] /\ ~txn[h] /\ installed = pin.engine /\ faults = MaxFaults)
      ~> (up[h] \/ phase[h] # "open")
===============================================================================
