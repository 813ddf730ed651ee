------------------------------ MODULE A2AClient ------------------------------
(***************************************************************************)
(* A2AClient of python/leanguard/a2a.py over the interaction methods of    *)
(* MultiAgentHost (python/leanguard/multiagent.py).  Each call is a        *)
(* coroutine: _call for one reply, _stream for a generator of them.  It    *)
(* runs from one await, or one use of the host's lock, to the next in one  *)
(* step; other calls, reconcile, close and a crash come between.           *)
(*                                                                         *)
(* Of what a stream remembers, first is the negation of settled whenever   *)
(* it waits for a frame, and message_only the kind of the first response.  *)
(***************************************************************************)
EXTENDS A2ATasks

CONSTANTS
  Menu,          \* bound: the requests that agents make
  MaxFrames,     \* bound: replies and frames that arrive
  MaxFaults      \* bound: crashes and journal failures

ASSUME ClientAssumption ==
  /\ Menu \subseteq {r \in Requests : r.op = "a2a.send" => r.message # NoMessage}
  /\ MaxFrames \in Nat /\ MaxFaults \in Nat

VARIABLES
  journal,       \* on disk
  state,         \* tasks, contexts and responses, as a replay of the journal gives them
  hostUp,        \* the MultiAgentHost is open
  store,         \* its engine runs; or not; or its database is in a transaction for good
  pending,       \* its _pending_interactions
  pc,            \* where each coroutine stands
  settled,       \* those that know their call is answered
  wire,          \* calls whose request or stream is open on the transport
  frames, faults \* the bounded counters

log == <<journal, state, store>>
vars == <<log, hostUp, pending, pc, settled, wire, frames, faults>>

PCs == {"new", "wire", "finish", "yielded", "fail", "close", "closeThenTell", "tell",
        "release", "done"}
Finished == {"new", "done"}

Goto(c, l) == pc' = [pc EXCEPT ![c] = l]

Request(c) == RequestOf(journal, c)
Answered(c) == Has(journal, c, {"success"})
MessageOnly(c) == c \in DOMAIN state.responses /\ state.responses[c].task = NoTask

FaultHappens == faults < MaxFaults /\ faults' = faults + 1

-------------------------------------------------------------------------------
\* _record of an event about a dispatch (GuardHost.tla opens it up)

Event(kind, c, f) == [kind |-> kind, id |-> c, request |-> NoRequest, frame |-> f]

Row(e) == journal' = Append(journal, e) /\ state' = Apply(journal, state, e)

Record(e) ==
  /\ store = "up" /\ Accepts(journal, state, e)
  /\ Row(e)
  /\ UNCHANGED <<store, faults>>

\* A command that a dead engine cannot take, or a live one refuses, is rolled back,
\* and the engine recovered; the command is not tried again.  BEGIN raises inside a
\* transaction that an earlier ROLLBACK left open.
NotTaken(accepted) ==
  /\ \/ store = "down" /\ store' = "up"
     \/ store = "up" /\ ~accepted /\ UNCHANGED store
     \/ store = "stuck" /\ UNCHANGED store
  /\ UNCHANGED <<journal, state, faults>>

\* The engine or SQLite fails, and perhaps the recovery or the ROLLBACK too.
Fails ==
  /\ FaultHappens
  /\ store # "stuck" /\ store' \in {"up", "down", "stuck"}
  /\ UNCHANGED <<journal, state>>

\* An exception between COMMIT and the return: the row stays, and the ROLLBACK that
\* finds no transaction keeps the closed engine from being recovered.
Interrupted == store = "up" /\ FaultHappens /\ store' = "down"

CommitInterrupted(e) == Interrupted /\ Accepts(journal, state, e) /\ Row(e)

Raises(e) == NotTaken(Accepts(journal, state, e)) \/ Fails \/ CommitInterrupted(e)

-------------------------------------------------------------------------------
\* _begin and _begin_interaction: admission, and the fence around close().

Pend_Never(c) == pending
Pend(c) == pending \cup {c}

\* A new coroutine.  Which request id it gets makes no difference.
Fresh(c) == pc[c] = "new" /\ c = CHOOSE d \in Calls : pc[d] = "new"

Dispatch(c, r) ==
  /\ journal' = Append(journal, [kind |-> "dispatch", id |-> c, request |-> r,
                                 frame |-> NoFrame])
  /\ UNCHANGED state

Begin(c, r) ==
  /\ hostUp /\ Fresh(c) /\ store = "up"
  /\ IF Decide(journal, state, r)
     THEN /\ Dispatch(c, r)
          /\ pending' = Pend(c)
          /\ \/ Goto(c, "wire") /\ wire' = wire \cup {c}
             \/ Goto(c, "fail") /\ UNCHANGED wire   \* the transport raised at once
     ELSE Goto(c, "done") /\ UNCHANGED <<journal, state, pending, wire>>
  /\ UNCHANGED <<store, hostUp, settled, frames, faults>>

BeginFails(c) ==
  /\ hostUp /\ Fresh(c)
  /\ NotTaken(TRUE) \/ Fails
  /\ Goto(c, "done")
  /\ UNCHANGED <<hostUp, pending, settled, wire, frames>>

\* Interrupted, the admission leaves a dispatch that nobody sent and that is not
\* pending.
BeginInterrupted(c, r) ==
  /\ hostUp /\ Fresh(c)
  /\ Interrupted /\ Decide(journal, state, r) /\ Dispatch(c, r)
  /\ Goto(c, "done")
  /\ UNCHANGED <<hostUp, pending, settled, wire, frames>>

\* Which frame a stream may deliver next.
InOrder(c, f) ==
  IF c \notin settled
  THEN /\ f.kind \in {"task", "message"}
       /\ Request(c).op = "a2a.subscribe" => f.kind = "task"
  ELSE ~MessageOnly(c) /\ f.kind \in {"statusUpdate", "artifactUpdate"}

\* A reply, or a stream's next frame, through _receive.  The reply of a single
\* request ends the use of the transport.
Arrives(c) ==
  /\ pc[c] = "wire" /\ frames < MaxFrames
  /\ frames' = frames + 1
  /\ wire' = IF Request(c).stream THEN wire ELSE wire \ {c}

Receive(c, f) ==
  /\ Arrives(c)
  /\ LET e == Event("task_update", c, f)
         after == IF c \in settled THEN "yielded" ELSE "finish"
     IN  IF Request(c).stream => InOrder(c, f)
         THEN \/ Record(e) /\ Goto(c, after)
              \/ NotTaken(Accepts(journal, state, e)) /\ Goto(c, "fail")
              \/ CommitInterrupted(e) /\ Goto(c, "fail")
         ELSE Goto(c, "fail") /\ UNCHANGED <<log, faults>>
  /\ UNCHANGED <<hostUp, pending, settled>>

ReceiveFails(c) ==
  /\ Arrives(c)
  /\ Fails /\ Goto(c, "fail")
  /\ UNCHANGED <<hostUp, pending, settled>>

\* The transport raises, times out, or delivers what is no frame, or the
\* coroutine is cancelled while it waits.
WireFails(c) ==
  /\ pc[c] = "wire"
  /\ wire' = IF Request(c).stream THEN wire ELSE wire \ {c}
  /\ Goto(c, "fail")
  /\ UNCHANGED <<log, hostUp, pending, settled, frames, faults>>

\* The peer ends the stream.
StreamEnds(c) ==
  /\ pc[c] = "wire" /\ Request(c).stream
  /\ Goto(c, IF c \in settled THEN "close" ELSE "fail")
  /\ UNCHANGED <<log, hostUp, pending, settled, wire, frames, faults>>

\* _finish_interaction(event, frame)
Finish(c) ==
  /\ pc[c] = "finish"
  /\ LET e == Event("success", c, NoFrame)
     IN  \/ /\ Record(e)
            /\ settled' = settled \cup {c}
            /\ Goto(c, IF Request(c).stream THEN "yielded" ELSE "release")
         \/ Raises(e) /\ UNCHANGED settled /\ Goto(c, "fail")
  /\ UNCHANGED <<hostUp, pending, wire, frames>>

\* The except clause.  A caller's cancellation is raised again; any other error
\* is told to the caller of a stream in a last item, once the stream is closed.
FailKind_Restated(c) == "unknown"
FailKind(c) == IF c \in settled THEN "stream_error" ELSE "unknown"

Fail(c) ==
  /\ pc[c] = "fail"
  /\ LET e == Event(FailKind(c), c, NoFrame)
     IN  \/ /\ Record(e)
            /\ IF Request(c).stream
               THEN \E l \in {"close", "closeThenTell"} : Goto(c, l)
               ELSE Goto(c, "release")
         \/ /\ Raises(e)
            /\ Goto(c, IF Request(c).stream THEN "close" ELSE "release")
  /\ UNCHANGED <<hostUp, pending, settled, wire, frames>>

\* The consumer asks for the next item, closes the generator, or is cancelled.
Resume(c) ==
  /\ pc[c] = "yielded"
  /\ Goto(c, "wire")
  /\ UNCHANGED <<log, hostUp, pending, settled, wire, frames, faults>>

Abandon(c) ==
  /\ pc[c] = "yielded"
  /\ Goto(c, "fail")
  /\ UNCHANGED <<log, hostUp, pending, settled, wire, frames, faults>>

\* close_stream: the stream is owned by nobody from here on, even if its
\* aclose raises or is cancelled.
CloseStream_RaisesOut(c) ==
  /\ pc[c] \in {"close", "closeThenTell"}
  /\ wire' = wire \ {c}
  /\ Goto(c, "done")
  /\ UNCHANGED <<log, hostUp, pending, settled, frames, faults>>

CloseStream(c) ==
  /\ pc[c] \in {"close", "closeThenTell"}
  /\ wire' = wire \ {c}
  /\ \/ Goto(c, "release")
     \/ pc[c] = "closeThenTell" /\ Goto(c, "tell")
  /\ UNCHANGED <<log, hostUp, pending, settled, frames, faults>>

Told(c) ==
  /\ pc[c] = "tell"
  /\ Goto(c, "release")
  /\ UNCHANGED <<log, hostUp, pending, settled, wire, frames, faults>>

\* The finally clause.
Release(c) ==
  /\ pc[c] = "release"
  /\ pending' = pending \ {c}
  /\ Goto(c, "done")
  /\ UNCHANGED <<log, hostUp, settled, wire, frames, faults>>

-------------------------------------------------------------------------------
\* The host's other methods

\* reconcile: an authenticated receipt, for a call that is not in progress.
MayReconcile_AnyTime(c) == hostUp /\ Dispatched(journal, c)
MayReconcile(c) == hostUp /\ c \notin pending /\ Dispatched(journal, c)

Reconcile(c, f) ==
  /\ MayReconcile(c)
  /\ LET e == Event("reconciled", c, f) IN Record(e) \/ CommitInterrupted(e)
  /\ UNCHANGED <<hostUp, pending, pc, settled, wire, frames>>

\* reconcile, grant and revoke raise: nothing is recorded, but the engine may be lost
\* or come back.
RecordFails ==
  /\ hostUp
  /\ NotTaken(TRUE) \/ Fails
  /\ UNCHANGED <<hostUp, pending, pc, settled, wire, frames>>

\* task and bind ask the engine outside _record: an exchange that fails closes it,
\* and nothing recovers it.
StatusFails ==
  /\ hostUp /\ store = "up" /\ FaultHappens
  /\ store' = "down"
  /\ UNCHANGED <<journal, state, hostUp, pending, pc, settled, wire, frames>>

\* close raises while an operation is pending.
Close ==
  /\ hostUp /\ pending = {}
  /\ hostUp' = FALSE /\ store' = "down"
  /\ UNCHANGED <<journal, state, pending, pc, settled, wire, frames, faults>>

\* The process dies with its coroutines, streams and pending set.  Calls that
\* had not begun can be made in the next process.
Crash ==
  /\ FaultHappens
  /\ hostUp' = FALSE /\ store' = "down" /\ pending' = {} /\ wire' = {}
  /\ pc' = [c \in Calls |-> IF pc[c] = "new" THEN "new" ELSE "done"]
  /\ UNCHANGED <<journal, state, settled, frames>>

\* A new process replays the journal into a new engine.
Open ==
  /\ ~hostUp
  /\ hostUp' = TRUE /\ store' = "up"
  /\ UNCHANGED <<journal, state, pending, pc, settled, wire, frames, faults>>

-------------------------------------------------------------------------------
Init ==
  /\ journal = << >>
  /\ state = NoState
  /\ hostUp = TRUE /\ store = "up"
  /\ pending = {} /\ wire = {} /\ settled = {}
  /\ pc = [c \in Calls |-> "new"]
  /\ frames = 0 /\ faults = 0

\* The steps a coroutine takes by itself, or because its consumer, which owns
\* the generator, reads it to the end or closes it.
Advance(c) ==
  \/ WireFails(c) \/ StreamEnds(c)
  \/ Finish(c) \/ Fail(c) \/ Abandon(c) \/ CloseStream(c) \/ Told(c) \/ Release(c)
  \/ ReceiveFails(c) \/ \E f \in Frames : Receive(c, f)

Next ==
  \/ \E c \in Calls : \/ \E r \in Menu : Begin(c, r) \/ BeginInterrupted(c, r)
                      \/ BeginFails(c) \/ Advance(c) \/ Resume(c)
                      \/ \E f \in Frames : Reconcile(c, f)
  \/ RecordFails \/ StatusFails \/ Close \/ Crash \/ Open

Spec == Init /\ [][Next]_vars

\* Transports time out or end, event loops run what is ready, and consumers
\* finish with their generators, as A2AStream asks.
Fairness ==
  \A c \in Calls : WF_vars(pc[c] \in {"wire", "finish", "yielded", "fail", "close",
                                      "closeThenTell", "tell", "release"} /\ Advance(c))

FairSpec == Spec /\ Fairness

-------------------------------------------------------------------------------
\* Properties

TypeOK ==
  /\ journal \in Seq(Entries)
  /\ DOMAIN state.tasks \subseteq Peers \X TaskIds
  /\ state.tasks \in [DOMAIN state.tasks -> Tasks]
  /\ DOMAIN state.contexts \subseteq Peers \X ContextIds
  /\ state.contexts \in [DOMAIN state.contexts -> Owned]
  /\ DOMAIN state.responses \subseteq Calls
  /\ state.responses \in [DOMAIN state.responses -> Targets]
  /\ hostUp \in BOOLEAN /\ store \in {"up", "down", "stuck"}
  /\ pending \subseteq Calls /\ wire \subseteq Calls /\ settled \subseteq Calls
  /\ pc \in [Calls -> PCs]
  /\ frames \in 0..MaxFrames /\ faults \in 0..MaxFaults

\* A host is closed only when no coroutine of it is in progress and no request
\* or stream is open on a transport: nothing can arrive for a journal that
\* another process may already hold (multiagent.py:281-285, a2a.py:589-593).
CloseFindsNothingOpen ==
  ~hostUp => wire = {} /\ \A c \in Calls : pc[c] \in Finished

\* A receipt is the last word: once a call is reconciled its coroutine records
\* nothing more about it, no update, outcome or error (multiagent.py:239-240).
ReceiptIsTheLastWord ==
  \A i, j \in DOMAIN journal :
    journal[i].kind = "reconciled" /\ journal[j].id = journal[i].id => j <= i

\* A peer that names another agent's task in its reply changes nothing of it:
\* all updates of a task come from calls of one owner (A2A.lean:131-135).
OneOwnerPerTask ==
  \A i, j \in DOMAIN journal :
    LET moves(k) == /\ journal[k].kind \in {"task_update", "reconciled"}
                    /\ journal[k].frame.kind # "message"
    IN  /\ moves(i) /\ moves(j)
        /\ Request(journal[i].id).peer = Request(journal[j].id).peer
        /\ journal[i].frame.task = journal[j].frame.task
        => Request(journal[i].id).owner = Request(journal[j].id).owner

\* No send or subscription is dispatched to a task that has been reported ended,
\* by this call's owner or any other, over a stream, a poll or a receipt
\* (A2A.lean:53-76; both the task table and the history rule forbid it).
NothingSentToEndedTasks ==
  \A i, j \in DOMAIN journal :
    /\ i < j
    /\ journal[j].kind = "dispatch"
    /\ journal[j].request.op \in {"a2a.send", "a2a.subscribe"}
    /\ journal[j].request.task # NoTask
    /\ journal[i].kind \in {"task_update", "reconciled"}
    /\ journal[i].frame.task = journal[j].request.task
    /\ Request(journal[i].id).peer = journal[j].request.peer
    => journal[i].frame.state \notin {"completed", "canceled", "rejected", "failed"}

\* Whatever breaks a call, a live engine accepts what the except clause records: a
\* failure before the answer as its outcome, one after it as a stream error that
\* leaves the answer alone, never one after a receipt.  There are two ways to lose it
\* without another failure: the engine was already dead, or the database stuck; or
\* the answer was committed although recording it raised, so that the outcome is
\* known and the coroutine is not told (a2a.py:469-475, 573-583, host.py:150-166).
FailuresAreRecorded ==
  [][\A c \in Calls :
       pc[c] = "fail" /\ pc'[c] # "fail" =>
         \/ Len(journal') > Len(journal)
         \/ faults' # faults
         \/ store # "up"
         \/ Answered(c) /\ c \notin settled]_vars

\* The close fence comes down: every pending entry is released, if transports
\* end and consumers finish with their generators (a2a.py:477, 593).
FenceComesDown == \A c \in Calls : (c \in pending) ~> (c \notin pending)

-------------------------------------------------------------------------------
\* The refinement of TaskPromise

CallStatus(c) ==
  IF ~Dispatched(journal, c) THEN "new"
  ELSE IF Has(journal, c, {"reconciled"}) THEN "reconciled"
  ELSE IF Answered(c) THEN "answered"
  ELSE IF Has(journal, c, {"unknown"}) THEN "uncertain"
  ELSE "open"

Promise == INSTANCE TaskPromise WITH
  Tasks <- Peers \X TaskIds,
  Lanes <- Peers \X Resources,
  Messages <- Peers \X MessageIds,
  Final <- {"completed", "canceled", "rejected", "failed"},
  None <- NoTask,
  calls <- [c \in Calls |-> CallStatus(c)],
  lane <- [c \in Calls |->
             IF Dispatched(journal, c) /\ Request(c).op = "a2a.send"
             THEN <<Request(c).peer, Request(c).resource>> ELSE NoTask],
  sent <- {<<Request(c).peer, Request(c).message>> :
             c \in {d \in Calls : Dispatched(journal, d) /\ Request(d).op = "a2a.send"}},
  phase <- [k \in Peers \X TaskIds |->
              IF k \in DOMAIN state.tasks THEN state.tasks[k].state ELSE NoPhase]

\* Coroutines, frames, crashes and receipts together keep the promise.
KeepsPromise == Promise!Spec
===============================================================================
