# A TLA+ development of LeanGuard

LeanGuard puts a policy engine, written in Lean, between an agent and its tools. A Python
host keeps a durable journal of everything the engine decided, runs a tool only after the
engine admitted the call, and rebuilds the engine from the journal after a failure. Around
that core the repository has delegation between agents, a client for remote agents (A2A), and
the scripts that run, score and audit experiments.

This directory models that machinery in TLA+, checks it with TLC on small instances, and
proves its main promises with TLAPS for instances of every size. The sections are: the
system's components, the modules, the checks, the proofs, and what is left out and why.
Line numbers refer to the files of the repository.

## 1. The system

| component | source | state it keeps | operations | what makes it correct |
|---|---|---|---|---|
| Policy checks | `LeanGuard/Policy.lean`, `Builtins.lean` | none; they read a history | `confirmed`, `observed`, `quota`, `singleFlight`, rules combined by `decidePolicy` | approvals are used once and can be taken back; limits hold in every window; one call in flight |
| Formula evaluator and queries | `Core.lean`, `Temporal.lean`, `Query.lean` | none | `evaluate` of past-time formulas, windows and scopes | agrees with the declarative `Holds` |
| Command handler | `RuntimeCore.lean`, `Server.lean` | history, version, agents' state | load, status, observe, admit, audit, `agents_*` | refuses repeated ids, second outcomes and time that goes back; its answer is a function of the history |
| Engine client | `python/leanguard/engine.py` | child process, pipes, version | start, `request` with a deadline, `close` | a late or foreign reply is never taken for the answer; no child outlives it |
| GuardHost | `python/leanguard/host.py` | lock file, SQLite database (metadata, journal, proposals), engine, two locks | open, `prepare`, `confirm`, `observe_trusted`, `execute`, `close`, recovery, `events` | no effect without a committed reservation; engine and journal agree; one writer |
| Tool adapters | `demo.py`, `tau.py` | the backend | `snapshot`, `execute`, `user_action` | the tool runs on the state that was approved |
| Multi-agent host and ledger | `MultiAgent.lean`, `multiagent.py` | grants, usages, revocations, handles | grant, delegate, revoke, bind, admit, close | children's budgets stay inside their ancestors'; revocation reaches descendants |
| A2A tasks and client | `A2A.lean`, `a2a.py`, `multiagent.py:189-319` | remote tasks and contexts, pending interactions, coroutines and streams | send, get, cancel, subscribe, receive, reconcile | a finished task stays finished; each call is settled once; every stream is closed |
| Event stream | `a2a.py:130-189` | bytes of no line yet, lines of no frame yet | one chunk at a time | chunk boundaries do not matter |
| Batch and episodes | `scripts/experiments/batch.py`, `benchmark.py`, `rollout.py` | running jobs, stop flag, one episode per worker | `run_batch`, `run_episode`, the guarded call, the score | stops once and for good; what is scored is what ran; a return accounts for all |
| Scoring of saved runs | `score_saved.py` | none; it reads files | plan, native replay, evaluation | agrees with the live scores |
| Audit of trajectories | `trajectory_replay.py` | cached facts, customer, history | pairing, `facts`, `ingest`, invalidation | no verdict from a stale fact or a wrong pair |
| Replay | `replay.py`, `host.py:168-215` | none | export, `audit`, `replay` | an exported journal audits to the same decisions |
| Published datasets | `trajectory_data.py` | conversations kept | normalize | no branch of a conversation is lost, no shorter copy kept beside it |
| MCP server, domain packs, schemas, examples, generated code | see `PROJECT.json` | | | section 5 |

How they meet. A caller thread enters a method of the host and takes the host's lock, then
the adapter's. The host sends one JSON command at a time through the engine's pipes and
stores command and answer in one SQLite transaction. The engine keeps the history in memory
only; on opening, and after any failed command, the host starts an engine and feeds it the
whole journal again. The adapter's lock is shared with whoever else uses the backend; its
snapshot carries a revision, the digest of the backend's state. A `MultiAgentHost` is a
`GuardHost` whose commands carry a grant; an A2A call is a dispatch of it whose outcome arrives
from the network, frame by frame, into a coroutine. A benchmark batch runs episodes in worker
threads; a guarded episode has a host of its own, and everything that is reported later, by
the score, by `score_saved.py` and by an audit, is read from what the host wrote.

What is hard. Calls overlap and wait for two locks; the process can die between the commit
of an admission, the effect of the tool and the commit of the outcome; the engine can accept
a command whose row is then rolled back; ROLLBACK itself can fail; the engine's executable
can be replaced between two starts; an answer can come after its deadline; another program can
write to the backend between an approval and its use; clocks jump; callers retry ids; sibling
grants draw on one budget; frames come late, twice, out of order or name another agent's task;
a consumer abandons a stream at any await; a receipt overtakes a coroutine; several episodes
fail at once while others are about to call a model; recorded results are missing or nameless.
`PROJECT.json` lists these hazards with their lines and the properties that watch over them.

## 2. The modules

| module | models | about |
|---|---|---|
| `Policy` | `Policy.lean`, `Builtins.lean` | histories; the checks of the example pack in closed form; `Decide` |
| `RuntimeCore` | `RuntimeCore.lean` | which commands the engine accepts, and what it answers; replay |
| `Monitor` | the contract of `host.py` | abstract: a sequential reference monitor |
| `GuardHost` | `host.py`, `tau.py`, `demo.py` | threads, locks, disk, engine, backend and faults; implements `Monitor` |
| `EngineCalls` | the contract of `engine.py` | abstract: an engine that answers in order until it is lost |
| `EngineProcess` | `engine.py`, `Server.lean` | pipes, pieces of lines, deadlines, deaths, the executable file; implements `EngineCalls` |
| `Delegation` | `MultiAgent.lean`, `multiagent.py`, `RuntimeCore.lean` | grants, budgets, revocation, handles, restarts |
| `A2ATasks` | `A2A.lean` | the task table, which call may touch it, which reply may change it |
| `TaskPromise` | the contract of the A2A client | abstract: calls, lanes, messages and phases |
| `A2AClient` | `a2a.py`, `multiagent.py` | coroutines, streams, receipts, the close fence, crashes; implements `TaskPromise` |
| `EventStream` | `a2a.py:130-189` | chunks, lines, frames and limits |
| `Experiment` | `batch.py`, `benchmark.py`, `rollout.py` | the coordinator and the workers' episodes |
| `RunPlan`, `SavedRuns` | `benchmark.py`, `score_saved.py` | the plan of a run; scoring its files later |
| `Trace` | `host.py:168-215`, `replay.py` | export of a journal and its audit |
| `Audit` | `trajectory_replay.py` | the audit of a recorded conversation |
| `TrajectoryData` | `trajectory_data.py` | which rows become conversations |
| `MonitorProofs`, `GuardHostProofs`, `TransportProofs`, `DelegationProofs`, `A2AProofs`, `ExperimentProofs`, `AuditProofs` | | the theorems, section 4 |
| `DataLemmas` | | induction over numbers, finite sets and sequences; sums; flattened lists |
| `MC*` | | instances for TLC |

How they compose. `RuntimeCore` extends `Policy`; `Monitor` and `GuardHost` extend
`RuntimeCore`; `Trace` extends `Monitor`. `A2AClient` extends `A2ATasks`; `SavedRuns` extends
`Experiment` and `RunPlan`. Three pairs are refinements: `GuardHost` of `Monitor`,
`EngineProcess` of `EngineCalls`, `A2AClient` of `TaskPromise`. `GuardHost` uses an engine that
answers or fails in one step, which is what `EngineCalls` promises of the real one;
`Experiment` uses a host whose writes run under a yes and whose journal tells what ran, which
is what `Monitor` promises.

### Histories (Policy, RuntimeCore)

The engine's history is a list with the newest event first; a history here is a sequence with
the oldest entry first and **one entry per accepted command**. An admission adds a `request`
event and, if allowed, a `dispatch` event with the same fields, so one entry of kind `admit`
with a field `allow` stands for both. The checks are translated into their closed forms on
such a history: `previous` skips the request itself, `once` and `since` become quantifiers
over the older entries. The principal is left out, because a journal is pinned to one
(`host.py:117-120`). The binding of an event is a digest over a proposal's token, so the token
stands for it.

`Accepts(h, e)` is the validation of `handleWith`, `Answer(h, e)` its answer, and the next
history is `Append(h, Answer(h, e))`. The engine's version is the length of the history.

### The promise (Monitor)

Two variables: `journal`, and `ran`, the list of tool invocations with the position of the
dispatch each was made for. A step either records the answer to one accepted command, or runs
the tool of the dispatch that was recorded last, once. There are no threads, faults or
engines. What a user of the journal relies on is stated here.

### The host (GuardHost)

An action is one step of a call between two points at which the process can die or an
operation can fail; a thread's position is `pc[c]`:

    idle -> host -> adapter -> check -> begin -> engine -> commit -> tool -> begin -> ... -> return
                                          |        |          |
                                        raise    abort  <-----+
                                                   |-> recover -> raise

| actions | code |
|---|---|
| `StartX`, `AcquireHost`, `AcquireAdapter`, `Leave` | `with self._lock, self.adapter.lock` (for `observe_trusted` and `close` only the first) |
| `Prepare`, `Confirm`, `Observe`, `Execute` | the body of each method up to its first `_record` |
| `UserAction` | `TauAdapter.user_action`: the user's tool first, its observation after |
| `Begin`, `EngineAnswers`, `EngineFails`, `Commit`, `CommitFails`, `CommitInterrupted`, `Rollback`, `Recover` | `_record` and `_recover`, `host.py:136-167` |
| `Tool` | `adapter.execute` and the three ways it ends, `host.py:398-427` |
| `OpenLock` ... `ReplayJournal`, `OpenFails` | `__init__`, with one autocommitted INSERT per row of metadata |
| `Close`, `Crash` | `close`, and the end of the process at any moment |
| `WriterEnters`, `WriterLeaves`, `ReplaceBinary` | other programs: writes to the backend under `adapter.lock`; a new executable |

On disk and so kept by a crash: `journal`, `proposals`, `pin` (the metadata), `installed`.
`flock` is released by the operating system. `ranOn` and `ran` are history variables. A write
sets the backend's `content`, and `content` is also its revision.

Faults are counted (`MaxFaults`): a fault is a crash, a failed exchange with the engine, a
failure of BEGIN, INSERT/COMMIT or ROLLBACK, an exception that arrives after COMMIT took
effect, or a replaced executable. An engine that refuses a command (the clock went back, the
id was used) is not a fault and happens whenever the code lets it.

Abstractions that matter for reading the results:

- The fingerprint of the executable and the start of the process are one step; the code reads
  the file first and starts it after (`engine.py:41-50`). `EngineProcess` takes the two apart,
  and finding `engine_pinned` says what lies between them.
- A row that was inserted and not committed is not visible to anyone, so INSERT and COMMIT are
  one step that happens or fails. The same holds for a proposal inserted inside a transaction
  that a failed ROLLBACK left open: it is in `proposals`, noted in `unsaved`, and lost when
  the host ends.
- Replaying the journal is one step.
- A snapshot that raises ends the call before anything was read or written, so such a call is
  a call that was not made.
- The host's lock is re-entrant in the code; the one nested use, `user_action` calling
  `observe_trusted`, is one call here.
- Arguments of a call are its value and amount, a resource is a name, facts and outputs are
  left out.

### The engine client (EngineProcess)

`Hash`, `Popen`, `Load` and `LoadFails` are `Engine.__init__`, whose load is then a request like
any other; `Request`, `Write`, `Read`, `Return` and `GiveUp` are `request`; `Close`, `Kill` and
`ClosePipes` are `close`, in which the child still lives for a while; `Serve` and `Die` are the
child. A start that fails after `Popen` has a live child, idle or in the middle of the load. A
line is `Pieces` pieces, since the code writes and reads what the pipe takes. `GiveUp` may come at
any point of a request: the deadline, a closed pipe or an interrupt. The answer to a refused
command closes the client, as in the code.

### Grants (Delegation)

`Decide` is `decideAdmission` with the ledger (`Authorized`) and the history rule
(`HistoryActive`) both in it; `Charge` walks the lineage. The host's side has `_record` with
commit, roll-back and recovery, `_status` outside it (`StatusFails`), handles that survive a
recovery, and plain `GuardHost` calls on the same journal. Grant ids are UUIDs: `FreshId` is any
id the journal does not have. Interactions are `A2AClient`'s.

### Remote tasks (A2ATasks, A2AClient)

One action per step between two awaits of `_call` and `_stream`; `pc[c]` is the place:

    new -> wire -> finish -> (yielded -> wire ...) -> release -> done
             |        |           |                      ^
             +------- fail -------+--> close -> tell ----+

`settled` is the set of the coroutines that know their call is answered; of the other local
variables, `first` is its negation wherever a stream waits for a frame, and `message_only` is the
kind of the first response. `Fail` is the except clause with its two kinds of event, `CloseStream`
and `Release` the finally clause. `Reconcile` is allowed only for calls that are not pending. A
transport error, a timeout, a cancellation and a reply that cannot be read or checked are all
`WireFails` or `ReceiveFails`.

Recording is `host.py:150-166` with its outcome in `store`: the engine runs (`up`), is dead or
closed (`down`), or the database sits in a transaction that ROLLBACK did not end (`stuck`). A
command that finds a dead engine is rolled back, the engine is recovered and the command is not
tried again (`NotTaken`); a failure may leave any of the three behind (`Fails`, `StatusFails`,
`RecordFails` of a grant); and an exception between COMMIT and the return leaves the row and a
dead engine (`CommitInterrupted`, `BeginInterrupted`), so that a call may be answered in the
journal while its coroutine does not know.

Left out: time, denied admissions' request rows, the grant's part of the decision (`Delegation`
has it), protobuf conversion and the gRPC channel.

### The event stream (EventStream)

`Arrive` is one chunk; `TakeLine` one turn of the loop of `_sse_lines`, with the carriage return
that may end a chunk (`skip_lf`), and `Assemble` the loop of `stream`. Symbols have size one; a
document is a single symbol. Chunks of httpx are never empty, and the model relies on that:
`Head(chunk)` is the code's `chunk[0]`.

### Experiments (Experiment, RunPlan, SavedRuns)

The coordinator is `run_batch` with its four places; a worker is one record, `episode[j]`, with
the place in `run_episode`. A checkpoint and what it guards are two steps, because another
worker's halt may come between them. A guarded call keeps, besides what `RecordingGuard` wrote
down, the history fields `ran` and `said`. The failure branches include the awkward one:
`events()` itself fails after an exception, and the record looked at belongs to an earlier call,
or there is none and an `IndexError` ends the episode. Things a reader might not expect, and
which the model has as the code has them: the generations of the confirmation, the dispatch
after it and the natural-language judge are not guarded by `stop_check`; `late` counts them like
the guarded steps, and run `experiment_late` compares the count with what `batch.py:53-54` says;
the failure of that judge is contained in `score_run`.
The upstream evaluator and orchestrator (tau2) are external; the comparison of state hashes is
"the writes that were kept are the writes that ran".

`SavedRuns` reads the files of a batch that has returned. Scoring is refused for the whole
directory when one host failed before its journal had an identity, or one trajectory file is
torn, although `score_saved.py:1` speaks of "all saved benchmark attempts"; the property says
which episodes can cause a refusal and that otherwise live and saved scores agree. The model's
tools are deterministic: `score_saved.py` replays with `strict_replay`, the live score does not,
and a replay that differs from its recording is outside the model.

### Histories again (Trace, Audit, TrajectoryData)

`Trace` exports a journal and audits each request from the events before it, by the policy
alone. It has the single-agent rows of `events()`; `agents_*` rows and `customer()` are left out,
and so are the labels for missing evidence.

`Audit` reads messages of calls and results. What a cached result still says of the recorded
world is the history variable `current`: a write, unknown code or the customer may change
certain cells, and so may the charge of a telecom write its bills; the footprint is taken from
what the domains' tools do (external). `invalidate` does not follow all of it: of a user a write
names it drops the payment methods and bill ids and keeps the rest, and bills the write does not
name stay. The variable `overlooked` holds these cells until they are seen again.
`NoStaleFacts` is about everything else, and `WritesInvalidateUsers`, which run `audit_kept`
violates, about the users. `paired_responses` gives one response to the first of two calls with
the same id; `HistoryIsEvidence` says what this pairing does guarantee. The classification of
verdicts and engine failures are left out.

`TrajectoryData` reads the rows of one dialogue in any order; ids are generated anew per row. Its
property is about the branches; rows appended beside a full rollout are outside the model.

## 3. What TLC checks

Each run asks one question, or one set of questions about one component. Where the questions
need different bounds, a run has several **instances**: the initial state picks one (or, for
the host, a step is explored if some instance admits it), and the instance's record bounds who
acts, how often, and what fails. The constants of a configuration are the union over its
instances. A property that is listed with a run has a mutant in `PROJECT.json`: a plausible bug
in the translated code under which the same run fails.

| run | question | bounds |
|---|---|---|
| `monitor` | Can a write run without a live, unspent approval, or twice? Do calls overlap? Does the look-back check bound every window? Does the audit of an export agree? | three instances: one conversation, one proposal, 7 rows, all kinds of rows; two conversations and resources, 5 rows; confirmed writes at clock readings 0, 2, 3 against a window of 1, two calls, amount 3 against writes of 2, 7 rows |
| `host_safety` | Does a live engine hold the committed journal, under the pinned executable? Does a tool run on what was shown? One writer? Can `close` overtake a call? Does the journal replay after any failure? | four instances: every operation with 2 faults and 3 calls; 2 threads, 4 calls, a rival writer, 2 contents; 2 hosts, 3 calls, 2 faults; 2 threads, 3 calls, 1 fault around `close` |
| `host_liveness` | Does every call come back? Does a call revive a dead engine? Does the host implement `Monitor`? | 2 threads, all lock patterns, 3 calls, 1 fault, 1 outside writer, a clock that stands still; no symmetry |
| `host_readme` | (fails) Does an exception of `execute` mean that nothing was dispatched? | 1 thread, 2 calls, 1 fault |
| `transports` | Is an answer ever somebody else's? Does a request return? Is a child left behind? Do chunk boundaries matter? | lines of 2 pieces, 2 sorts of load and 4 requests of three sorts, 1 replaced file, deaths and deadlines at every point; every text of 6 symbols in every cut, texts of 8 without the byte order mark in chunks of up to 2, limit 4 |
| `engine_pinned` | (fails) Is the fingerprint that of the running engine? | 1 request, 1 replacement of the file |
| `delegation` | Do siblings overspend an ancestor? Is every dispatch covered by its whole chain? Does delegation widen? Does the ledger agree with the journal after any restart? | three instances: 7 commands of siblings on one budget; 6 commands with two actors, targets and times; 5 commands with 2 faults, plain and multi-agent hosts |
| `a2a` | Do owners stay apart? Is an ended task left alone? Is a receipt the last word, a failure recorded, a closed host quiet? Does the client implement `TaskPromise`? Does the close fence come down? | three instances: two owners of one task, 2 calls, 2 frames; polls and continuations, 3 calls, 2 frames; streams, 2 calls of 4 sorts, 2 frames, 1 fault |
| `experiment` | Does a batch stop once and for good, account for all, and score what ran, live and from its files? | 3 jobs of both arms, 2 workers, limit 1; short episodes with 2 failures anywhere, or a longer guarded one with writes; all plans of up to 3 domains of up to 4 tasks |
| `experiment_late` | (fails) Does a worker begin at most one step of its conversation after the stop? | 2 jobs, one of each arm, 2 workers, 1 failure |
| `audit` | Does a verdict rest on a stale fact or a result on a wrong call? Are branches lost, or kept beside a longer one? | two calls of a message with any results with or without ids and names; 3 calls of agent and customer one at a time in each domain; 3 dataset rows of up to 2 messages |
| `audit_kept` | (fails) Does a write invalidate what is cached of its customer? | the bounds of `audit` |

Why the bounds are enough to be telling. The smallest illegal journals need a read, a success,
a confirmation, a write, a second write or an outcome: six or seven rows. The smallest illegal
interleavings of the host need two calls and one fault, or three calls; the failed ROLLBACK
followed by a further command and a restart needs two faults and two calls. Two siblings that
overspend their parent need an enabling command, three grants and three admissions: seven. A
stream that breaks after its answer while another call of the same lane waits needs two calls,
and a failure at any await. A frame that two chunks cut inside a line ending
needs six symbols. A batch that is halted by two episodes at once, with a third not started,
needs three jobs. The mutants show that every property can be broken inside the bounds of its
run. Larger numbers of threads, requests, calls, jobs and frames are the proofs' part.

Deadlock is checked on the host's runs and on `experiment`, where `Finished` is the one place
in which the system may stop. The batch's own liveness is that check: every step of it takes
an episode, the coordinator or a counter forward, so that a graph without a stuck state is a
batch that ends. Other runs stop when their bounds are used up, so there the check is off.

**Fairness.** Of the host: `WF_vars(Steps(c))`, a thread that is inside a call keeps running.
The operating system schedules it, a request to the engine has a deadline (`engine.py:94-113`),
and a tool is assumed to return or raise, which is what the host assumes when it calls it under
its lock. `SF_vars` of the two lock acquisitions: Python's locks promise no order, but a waiting
thread is one of those woken each time, and is not passed over for ever. `WF_vars(WriterLeaves)`:
other users of the backend give `adapter.lock` back. Of the engine client: its own next step is
taken, because a request waits with a deadline and `close` kills a child that has not ended after
two seconds; nothing is assumed of the child. Of the A2A
client: a coroutine that stands somewhere goes on, because transports time out or end, the event
loop runs what is ready, and a consumer finishes or closes its generator, as the comment on
`A2AStream` asks; without that the fence of an abandoned stream stays up. Nothing is assumed
about crashes, faults, opening a host, peers answering, or callers starting calls.

**Disagreements found.**

- `README.md:121-122` says that errors in the host or transport are raised as exceptions "and
  nothing has been dispatched when that happens". The tool runs at `host.py:399` and its outcome
  is recorded at `host.py:421`; when that record fails, because the engine times out, SQLite
  fails or the clock went back, `execute` raises after the tool ran. The journal is right: the
  dispatch stays without an outcome and blocks follow-ups (`OneInFlight`). The sentence is not:
  run `host_readme`.
- `engine.py:41` hashes the executable and `engine.py:50` starts it by name. A replacement in
  between runs the new engine under the old fingerprint, and the comparison of `host.py:143-144`
  ("replay requires the pinned binary") passes: run `engine_pinned`. `GuardHost` takes the two
  as one step, so `PinnedEngine` holds of everything but this window.
- `batch.py:53-54` says that workers "must check it at generation/dispatch boundaries". The
  confirmation asks for up to two generations (`benchmark.py:287-290`) and the confirmed write is
  dispatched after them, with no look at the flag: run `experiment_late`. What does hold is a
  bound, two steps for a bare worker and four for a guarded one (`HaltIsFinal`).
- `scripts/experiments/README.md:185-187` says that a write "invalidates any state it might have
  changed, even when it returned an error". `trajectory_replay.py:253-263` keeps the record of the
  user it names but for payment methods and bill ids, so a verdict after a failed write can rest
  on that record as it was before: run `audit_kept`.

Two more are visible in the code and are stated here without a run of their own. The docstring
at `trajectory_replay.py:88-89` and `scripts/experiments/README.md:178-180` leave ambiguous
results unpaired, while of two calls with one id and one response the first is given it
(`trajectory_replay.py:93-102`); the comment of `HistoryIsEvidence` says so.
`scripts/experiments/README.md:164-168` promises the longest version of each conversation once,
while training rows that no full rollout begins with (`trajectory_data.py:174-189`) are each
appended, also when one of them begins another; `LongestRowsAreKept` is about the other dataset,
whose branches are compared. Diverging branches are both kept, as documented, and so the calls of
their common prefix are counted with each.

## 4. What TLAPS proves

Every theorem holds for all values of the constants that satisfy the named assumptions. Those
say that null values are none of the ids, that limits and clock readings are natural numbers,
and little more; TLC evaluates each on a run whose module extends it.

**Induction over data** (`DataLemmas`). The induction theorems of the proof library take the
predicate as an operator parameter, which the provers cannot instantiate. Here the predicate is
given as the *set* of the values that satisfy it: `Induction` says that a set with 0, and with
n + 1 for each n in it, has every natural; it follows from the library's well-foundedness of the
naturals. `FiniteInduction` and `SequenceInduction` follow, and from them what a sum over a
finite set is (`SumLinear`, `SumCompare`, `SumCounts`, ...) and what flattening a list of lists
keeps. The proofs below that count, add or fold rest on these.

**The monitor** (`MonitorProofs`, from `PolicyAssumption`, `MonitorAssumption`). For journals of
any length: types and ten properties, among them `RunOnce`, `ApprovalSpentOnce`,
`LastWordWasYes`, `OneInFlight` and `QuotaHoldsInEveryWindow`. `IInv` is the inductive invariant.
Two of its parts hold by the shape of the monitor and are of interest only for what implements
it: that a tool runs under a dispatch (`EffectsAreReserved`), and that the journal replays, which
is proved of the host below. Types alone are not inductive: the tool invocation takes its id and call
from the journal, so `AdmissionsAreCalls` says that an admission has both. `RunOnce` is not
inductive either: that ids differ says nothing of the next tool invocation, which copies an id
from the journal. What is kept is that an id is admitted once and before anything else bears it
(`IdsAreAdmittedFirst`), that invocations copy their dispatch, and that they follow the
journal's order; two invocations of one id then come from one entry, and so are one.
`OneInFlight` needs `IdsAreAdmittedFirst` as well: the outcome that releases a flight must
stand after its dispatch, while the check in `Policy.lean:117-121` looks for it anywhere.
`QuotaHoldsInEveryWindow` speaks of every window of the quota's length, while the engine looks
only at the one that ends with the call it admits. That suffices because times never decrease:
the calls of any window lie in the window that ends with its last one.

`AuditFindsLiveDecisions` says that `replay.py` finds in the export of a journal the decisions
that were made live. The export interleaves two events per admission with the outcomes, and the
audit decides each request on the entries it reads back from the events before it. `TraceInv`
describes the export without its order of construction: the journal's entries stand in it in
their order and with their times (`Stands`), whatever stands between them is a request event, at
which no check of the policy looks, and a request is audited as allowed exactly if its id was
dispatched. It is kept because a decision is a function of the entries alone, so that two
histories in which the same entries stand are decided alike.

**The host** (`GuardHostProofs`, with `HostAssumption`). For any number of hosts, threads, calls
and faults: types, `SingleWriter`, `ShutdownWaits`, `PinnedEngine`, `HalfPinnedIsEmpty`,
`EngineAgrees`, `ApprovedAsShown`, and that the host implements `Monitor`. `HInv` ties the
position of a thread to the rest of the state: that a host's session is a session when it stamps
a command needs `CallsAreInside` and `OpenedHasSession`; that two calls do not meet in `_record`
needs `LockHeld`; that a command is an entry needs `ContextFits` and `EntryFits`; that no fourth
row of metadata is written needs `PinMissesRows`. `PinInv` adds that from its replay on a host
runs the executable its metadata names. The refinement maps `journal` and `ran` to themselves:
`Commit` and `CommitInterrupted` are `Record`, `Tool` is `Run`, every other step stutters. The
host decides on the engine's memory and the monitor on the journal, so `RInv` carries that they
agree outside a transaction, that inside one the engine is one row ahead (`EngineLog`), and what
each thread carries in its hands (`CarriedByAll`). The monitor's theorems then hold of the host,
up to the quota and the audit of its journal. `RestartsFindTheJournal` comes the same way: the
host commits what an engine answered that had been replayed, rolled back or restarted before, and
the refinement says that each row is nevertheless the answer to the rows on disk. `PinnedEngine`
is proved of a start in one step, see the abstractions above.

`ApprovedAsShown`, that a tool which runs under a proposal does what the user was shown, on the
backend it was shown for, says nothing of runs without a token, nor of the approval being in force,
which is `LastWordWasYes`. It can fail in two ways, and `SInv` follows both. The backend could move
between the check of the revision and the tool: `AdapterOwned` says that a call on this way
holds the adapter's lock, which is what the other writers take. The proposal could go away or be
replaced: a row is on disk when `INSERT` returns, but in a transaction that a failed `ROLLBACK`
left open, a later rollback takes it back. `UnsavedIsOpen` and `RecordsAreSaved` say that nothing
is recorded while there are such rows, and `RanUnderSaved` that no tool ever ran under one;
`TokensAreFresh` says that two calls never prepare the same token.

**The engine client** (`TransportProofs`, with `EngineAssumption`). For lines of any number
of pieces and any requests: types, `NoChildOutlivesClient`, `IdleIsInStep`, and `AnswersInOrder`,
the refinement of `EngineCalls`, through starts that fail at any point of the load. `PInv` says, for each place of a request, what the two pipes
hold: a prefix of the command's line while writing; while reading, either the whole line and
silence, or what is left of one reply. That there is never a second reply under way is the
point: it is why a late answer cannot be taken for the next one, and it depends on the client
closing itself on every failure.

**The event stream** (`TransportProofs`, with `EventStreamAssumption`). For texts and chunks of
any length and any limit: `ChunksDoNotMatter`. The property compares a parser that sees one chunk
at a time with definitions that cut the whole text at once, so the proof needs to know how these
definitions change as one reads on. `StreamInv` says that there is an end of a line `c` (or none
yet) up to which the parser knows the text (`TakenUpTo`): the data lines and the size it holds are
those of the frame open at `c`, the frames it gave out are those complete at `c`, none of the
text's faults is at or before `c`, and what is pending is exactly the text after `c`, without the
LF of a CRLF; `skip_lf` remembers that `c` is a CR and the last symbol that came. A chunk makes
the text longer and leaves `c` where it is: what is known of a text does not change when it grows
(`SameState`), although the very symbol after `c` may turn out to be an LF that has to be left
out. A line moves `c` to the next end (`LineTaken`), and the meaning from one end to the next is
what `Assemble` does (`NextLine`, `NextSize`, `NextData`, `NextWhole`). A line longer than the
limit is refused before it is assembled; that this is no extra error, but one the text has, is the
last step of the proof (`TakeLineKeeps`). The argument uses of a document only that the same data
lines are always the same document, or none.

**The A2A client** (`A2AProofs`, with `TaskAssumption`, `ClientAssumption`). For any peers,
owners, tasks, requests, frames and faults: types, `CloseFindsNothingOpen`,
`ReceiptIsTheLastWord`, `OneOwnerPerTask`, `NothingSentToEndedTasks`, `FailuresAreRecorded`, and
that the client implements `TaskPromise`. `AInv` joins three things: the journal's shape (each
entry belongs to a call with exactly one dispatch, and updates and receipts carry frames), what
each place of a coroutine implies (`CallOK`: one in progress is pending, one that may still
record has no receipt and no uncertain outcome), and that the task table
knows every update of the journal (`TableKnows`). The last makes the ownership of a task a fact
about the journal. For the refinement, a step leaves journal and table alone or appends one
entry that the engine accepted (`StepEntry`); each kind of entry is one step of the promise.
`FailuresAreRecorded` has the exceptions that the code has: the engine was found dead, the
database stuck, or the answer was committed by a record that raised.

**Delegation** (`DelegationProofs`, with `DelegationAssumption`). For any set of grants, depth of
delegation, number of dispatches, crashes and failures: `BudgetsHold`, `DispatchesAreCovered`,
`NoEscalation` and `LedgerAgreesWithHistory`. The engine's ledger is what
replaying the journal gives, so `DInv` says of the journal that it and its replay hang together
(`Agreed`): each row of the ledger stands for one entry, a grant narrows its parent, a grant is
revoked if an entry says so, and what a grant has spent is the sum over the dispatches of the
grants derived from it. `ReplayOfAppend` makes the replay of one more entry one step of the
ledger. Two facts carry most of the proof. `MultiAgent.lean` walks from a grant to its root with
as much fuel as there are grants; that the fuel is enough, so that the walk finds *all*
ancestors, is shown by comparing it with the least set closed under parents (`Up`). And a
dispatch adds one call and its amount to what each ancestor of its grant has spent, which the
engine checks for all of them at once; here the sums are over sets of dispatches that grow by one
element.

**Experiments** (`ExperimentProofs`, with `ExperimentAssumption`). For any number of jobs,
workers, turns and failures: types, `WritesHadAYes`, `ScoredAsRun`, `HaltIsFinal`,
`ReturnAccountsForAll` and `SavedScoresAreLive`. `XInv` says of each episode what its place
implies and that what was written down about a call is true of it (`Truthful`), of the flag that
halts are told once, and of a worker how many steps it has begun since the stop at each place:
one if it had looked before, then those of the confirmation and the judge, which nobody checks.
`YInv` adds that every submitted job is in exactly one of `pending`, `arrived` and `results`,
once (`Accounted`). `ZInv` adds what scoring later finds on disk (`SavedOK`): a scored episode
has a whole trajectory, one that ended without an error is scored, and a guarded one has a
journal. Of the plan of a run, for any domains, tasks and fractions: `AllocationIsExact` (the
numbers of tasks per domain add up to what was asked for, and none exceeds its domain: the floors
leave less than one per domain, and the ranks of the remainders are a bijection, so that exactly
as many domains get one more as are missing), and `OrdersAgree` (the runner, which sorts, and the
scorer, which selects by index and domain, list the same episodes in the same order).

**The audit and the datasets** (`AuditProofs`, with `AuditAssumption`). For any recorded
conversation: `NoStaleFacts` and `HistoryIsEvidence`. `AuditInv` says that a cached fact is
current unless it is among those `invalidate` overlooks; that no two calls of a message take the
same response, and of those with one id at most one takes one by it (`TodoPaired`, by induction
over the message; `OneOfAnId`); and that each
outcome in the history stands on its dispatch and that on its request, wherever the events put in
front of them shift them (`FrontKeepsEvidence`). For rows in any order: `LongestRowsAreKept`; to
begin another row is a partial order, and the kept branches are the maximal rows.

**Only model-checked.** Liveness (`CallsReturn`, `CallRevivesEngine`, `RequestsReturn`,
`FenceComesDown`) is beyond the prover: it rests on fairness and on which steps are enabled. The
four disagreements of section 3 that have a run are violations, which TLC exhibits. Every other
property that a run checks is stated by a theorem.

## 5. What is not modelled, and why

- **Formula evaluator and queries** (`Core.lean`, `Temporal.lean`, `Query.lean`), **reservations
  and task contracts** (`Reservations.lean`, `TaskContracts.lean`): pure functions for which the
  repository has Lean theorems of its own. `Policy` states the closed forms in which the example
  pack uses them.
- **Domain packs and the Dogwood examples**: rules over facts without state; what they have of
  history are the checks of `Policy`.
- **MCP server**: each tool is one call of `GuardHost`, and the three-call flow of proposal,
  confirmation and execution is in `host_safety`.
- **Schemas and the command line**: validation and argument parsing.
- **Generated gRPC bindings, Lean tactics**: generated code, and proof search at compile time.
- Of modelled components: the tau adapter's conversion of units and collection of facts;
  `agents_*` rows and `customer()` of `events()`; the labels of missing evidence in `replay.py`;
  classification and report of the trajectory audit, and its engine failures; downloads and
  decoding of datasets, and `trajectory_verify.py`, a single pass over finished reports; usage
  statistics of a batch; the gRPC channel and protobuf conversion of the A2A client, and the
  HTTP request before its stream begins.

What could follow: the temporal evaluator against `Policy`'s closed
forms over small histories; a `MultiAgentHost` that composes `Delegation` with `A2AClient`, so
that a grant is revoked while a stream is open.
