------------------------------ MODULE Experiment ------------------------------
(***************************************************************************)
(* A benchmark batch: run_batch of scripts/experiments/batch.py, which     *)
(* keeps a few workers busy and halts them all after repeated integration  *)
(* errors, and run_episode of benchmark.py, which each worker runs: agent  *)
(* and customer take turns, tools run behind the guard or bare, and what   *)
(* was executed is scored.  Jobs are numbered in their order.              *)
(*                                                                         *)
(* The coordinator and the workers share one flag, stopped.  A worker      *)
(* reads it before each turn and each tool call, in a step of its own: the *)
(* halt may come between the check and what it checked for.  It does not   *)
(* read it before it asks the customer's model to confirm a write, before  *)
(* the write then dispatched, or before a judge's model reads the end.     *)
(* Request ids are fresh: a call is its position among the episode's.      *)
(***************************************************************************)
EXTENDS Naturals, Sequences, FiniteSets

CONSTANTS
  Modes,         \* per job "baseline" or "guarded": the arm its tools run in
  Concurrency, MaxErrors,
  Retries,       \* protocol_retries of the agent
  MaxBurst,      \* max_tool_burst of the customer
  MaxTurns,      \* bound: generations of an episode, within the orchestrator's max_steps
  MaxFaults      \* bound: files, callbacks, services and hosts that fail

ASSUME ExperimentAssumption ==
  /\ Modes \in Seq({"baseline", "guarded"})
  /\ Concurrency \in Nat \ {0} /\ MaxErrors \in Nat \ {0}
  /\ Retries \in Nat /\ MaxBurst \in Nat /\ MaxTurns \in Nat /\ MaxFaults \in Nat

Jobs == DOMAIN Modes

VARIABLES
  stopped,       \* the Event shared with the workers
  coordinator,   \* where run_batch stands
  submitted,     \* how many jobs it took from the iterator
  pending,       \* futures it waits for
  arrived,       \* futures the last wait returned and it has not looked at
  results,       \* jobs in the order their results came
  halted,        \* it recorded a halt
  halts,         \* history variable: calls of on_halt
  episode,       \* per job: the worker's local state
  late,          \* history variable: per job, the requests to a model, tool calls and
                 \* device actions its worker began after the stop
  faults

vars == <<stopped, coordinator, submitted, pending, arrived, results, halted, halts,
          episode, late, faults>>

batch == <<stopped, coordinator, submitted, pending, arrived, results, halted, halts>>

-------------------------------------------------------------------------------
\* An episode

\* What a guarded tool call came to: dispatched and raised are what RecordingGuard
\* wrote down, if it did; ran and said, what the customer last answered, are history
\* variables.
CallRecords == [write: BOOLEAN, recorded: BOOLEAN, dispatched: BOOLEAN, raised: BOOLEAN,
                ran: BOOLEAN, said: {"nothing", "yes", "no"}]

ErrorKinds == {"none", "halted", "protocol", "listed", "replay", "other"}

Checkpoints == {"agent", "customer", "tool", "device"}
Places == Checkpoints \cup {"new", "queued", "generating", "replying", "calling", "acting",
                            "confirming", "executing", "scoring", "finally", "done", "raised"}

NewEpisode ==
  [pc |-> "new", attempt |-> 0, turns |-> 0, burst |-> 0, handoff |-> FALSE,
   write |-> FALSE, tries |-> 0, approved |-> FALSE, said |-> "nothing",
   host |-> "none", error |-> "none", calls |-> << >>, scored |-> FALSE,
   journal |-> "none", trajectory |-> "none"]

At(j, l) == episode[j].pc = l
Ended(j) == episode[j].pc \in {"done", "raised"}

Becomes(j, e) == episode' = [episode EXCEPT ![j] = e]
Goto(j, l) == Becomes(j, [episode[j] EXCEPT !.pc = l])

\* An exception reaches the except clause of run_episode.
Raise(e, kind) == [e EXCEPT !.pc = "finally", !.error = kind]

FaultHappens == faults < MaxFaults /\ faults' = faults + 1

\* The directory exists already, or cannot be made: outside the try block.
MkdirFails(j) ==
  /\ At(j, "queued") /\ FaultHappens
  /\ Goto(j, "raised")
  /\ UNCHANGED <<batch, late>>

\* What a guarded arm's host and its journal may be: a constructor that fails leaves
\* no host, and a journal that is absent, has no identity yet, or is whole.
Opened == [host |-> "open", journal |-> "pinned"]
NotOpened == {[host |-> "none", journal |-> f] : f \in {"none", "unpinned", "pinned"}}

\* The environment, the agent and the customer, and in a guarded arm the host.
Initialize(j) ==
  /\ At(j, "queued")
  /\ LET e == episode[j]
         guarded == Modes[j] = "guarded"
         with(h) == [e EXCEPT !.host = h.host, !.journal = h.journal]
         ready == IF guarded THEN with(Opened) ELSE e
     IN  IF stopped THEN Becomes(j, Raise(e, "halted")) /\ UNCHANGED faults
         ELSE \/ Becomes(j, [ready EXCEPT !.pc = "agent"]) /\ UNCHANGED faults
              \/ /\ FaultHappens
                 /\ \E kind \in {"listed", "other"} :
                      \/ Becomes(j, Raise(ready, kind))
                      \/ guarded /\ \E h \in NotOpened : Becomes(j, Raise(with(h), kind))
  /\ UNCHANGED <<batch, late>>

\* stop_check, before a generation, a tool call or a device action.
After == [agent |-> "generating", customer |-> "replying", tool |-> "calling",
          device |-> "acting"]

StopCheck(j) ==
  /\ episode[j].pc \in Checkpoints
  /\ episode[j].pc \in {"agent", "customer"} => episode[j].turns < MaxTurns
  /\ IF stopped THEN Becomes(j, Raise(episode[j], "halted"))
     ELSE Goto(j, After[episode[j].pc])
  /\ UNCHANGED <<batch, late, faults>>

Begins(j) == late' = [late EXCEPT ![j] = IF stopped THEN @ + 1 ELSE @]

\* What the agent's model may answer.
Messages == [text: BOOLEAN, calls: 0..2]

\* protocol_problem: empty, both text and tools, or two tools.
Problem(m) ==
  \/ ~m.text /\ m.calls = 0
  \/ m.text /\ m.calls > 0
  \/ m.calls > 1

\* A generation with a problem is asked for again, after another look at the flag.
Generate(j) ==
  LET e == episode[j]
      usable(m) == [e EXCEPT !.pc = IF m.calls = 1 THEN "tool" ELSE "customer",
                             !.attempt = 0, !.turns = @ + 1, !.burst = 0]
      unusable == IF e.attempt < Retries THEN [e EXCEPT !.pc = "agent", !.attempt = @ + 1]
                  ELSE Raise(e, "protocol")
  IN  /\ At(j, "generating")
      /\ \/ /\ \E m \in Messages : Becomes(j, IF Problem(m) THEN unusable ELSE usable(m))
            /\ UNCHANGED faults
         \/ /\ FaultHappens
            /\ \E kind \in {"listed", "other"} : Becomes(j, Raise(e, kind))
      /\ Begins(j)
      /\ UNCHANGED batch

\* After a handoff, or a burst of device actions, the customer's line is fixed;
\* otherwise a model speaks.  In a guarded arm the host then records what was said.
Reply(j) ==
  LET e == episode[j]
      speaks == ~e.handoff /\ e.burst < MaxBurst
      goes == IF speaks THEN {"agent", "device", "scoring"}
              ELSE IF e.handoff THEN {"scoring"} ELSE {"agent"}
  IN  /\ At(j, "replying")
      /\ \/ /\ \E next \in goes :
                 Becomes(j, [e EXCEPT !.pc = next, !.turns = IF speaks THEN @ + 1 ELSE @])
            /\ UNCHANGED faults
         \/ /\ speaks \/ Modes[j] = "guarded"
            /\ FaultHappens
            /\ \E kind \in {"listed", "other"} : Becomes(j, Raise(e, kind))
      /\ IF speaks THEN Begins(j) ELSE UNCHANGED late
      /\ UNCHANGED batch

\* The customer's own tools; what they raise is an answer.
Act(j) ==
  /\ At(j, "acting")
  /\ Becomes(j, [episode[j] EXCEPT !.pc = "customer", !.burst = @ + 1])
  /\ Begins(j)
  /\ UNCHANGED <<batch, faults>>

\* The orchestrator stops at its limit of steps, errors or time.
RunEnds(j) ==
  /\ episode[j].pc \in {"agent", "customer"} /\ episode[j].attempt = 0
  /\ Goto(j, "scoring")
  /\ UNCHANGED <<batch, late, faults>>

-------------------------------------------------------------------------------
\* A tool call

\* A write is proposed to the customer first.
Proposed(e, write) ==
  [e EXCEPT !.pc = IF write THEN "confirming" ELSE "executing", !.write = write,
            !.tries = 0, !.approved = FALSE, !.said = "nothing"]

\* A bare tool runs at once; a guarded one is looked at first.
Call(j) ==
  LET e == episode[j]
  IN  /\ At(j, "calling")
      /\ IF Modes[j] = "baseline"
         THEN /\ \E over \in BOOLEAN :
                   Becomes(j, [e EXCEPT !.pc = "agent", !.handoff = @ \/ over])
              /\ Begins(j)
         ELSE /\ \E write \in BOOLEAN : Becomes(j, Proposed(e, write))
              /\ UNCHANGED late
      /\ UNCHANGED <<batch, faults>>

\* SimulatedConfirmation: up to two generations, the second only after a truncated or
\* a late answer, and neither with a look at the flag.
Unusable_KeepsAsking(e) == [e EXCEPT !.pc = "executing", !.approved = e.said # "no"]
Unusable(e) == [e EXCEPT !.pc = "executing"]

Confirm(j) ==
  LET e == episode[j]
  IN  /\ At(j, "confirming")
      /\ \/ \E yes \in BOOLEAN :
              Becomes(j, [e EXCEPT !.pc = "executing", !.approved = yes,
                                   !.said = IF yes THEN "yes" ELSE "no"])
         \/ Becomes(j, Unusable(e))
         \/ e.tries = 0 /\ Becomes(j, [e EXCEPT !.tries = 1])
      /\ Begins(j)
      /\ UNCHANGED <<batch, faults>>

\* After an exception the host's events tell whether the call was dispatched.
WroteDown_NothingRan(inJournal) == FALSE
WroteDown(inJournal) == inJournal

\* A denial and an exception are the tool's answer to the agent.
Called(e, call) == [e EXCEPT !.pc = "agent", !.calls = Append(@, call)]

Recorded(e, dispatched, raised, ran) ==
  Called(e, [write |-> e.write, recorded |-> TRUE, dispatched |-> dispatched,
              raised |-> raised, ran |-> ran, said |-> e.said])

\* The events could not be read either; without an earlier record to look at, the
\* recording of the tool traffic fails too.
Unrecorded(e, ran) ==
  LET after == Called(e, [write |-> e.write, recorded |-> FALSE, dispatched |-> FALSE,
                          raised |-> FALSE, ran |-> ran, said |-> e.said])
  IN  IF \E i \in DOMAIN e.calls : e.calls[i].recorded THEN after ELSE Raise(after, "other")

\* GuardHost.execute, through the wrappers that turn denials and exceptions into
\* the tool's answer.  A checkpoint that cannot be written ends the episode.
Execute(j) ==
  LET e == episode[j]
      denied == Recorded(e, FALSE, FALSE, FALSE)
      mayRun == e.write => e.approved
  IN  /\ At(j, "executing")
      /\ \/ Becomes(j, denied) /\ UNCHANGED faults
         \/ FaultHappens /\ Becomes(j, Raise(denied, "other"))
         \/ FaultHappens /\ Becomes(j, Recorded(e, WroteDown(FALSE), TRUE, FALSE))
         \/ /\ mayRun
            /\ \E over \in BOOLEAN :
                 Becomes(j, [Recorded(e, TRUE, FALSE, TRUE) EXCEPT !.handoff = @ \/ over])
            /\ UNCHANGED faults
         \/ mayRun /\ FaultHappens /\ Becomes(j, Recorded(e, WroteDown(TRUE), TRUE, TRUE))
         \/ /\ FaultHappens
            /\ \E ran \in BOOLEAN : (ran => mayRun) /\ Becomes(j, Unrecorded(e, ran))
      /\ Begins(j)
      /\ UNCHANGED batch

-------------------------------------------------------------------------------
\* The end of an episode

\* executed_trajectory keeps what the guard did not block.
Blocked(e) == {i \in DOMAIN e.calls : e.calls[i].recorded /\ ~e.calls[i].dispatched}
Writes(e) == {i \in DOMAIN e.calls : e.calls[i].write}
Kept(e) == Writes(e) \ Blocked(e)
Ran(e) == {i \in Writes(e) : e.calls[i].ran}

\* The trajectory is saved; then score_run: the kept calls are run again, from the
\* start, and must lead to the same state.  A task with assertions about the
\* conversation then has a model judge it, whether or not the batch has stopped.
Score(j) ==
  LET e == episode[j]
      saved == [e EXCEPT !.trajectory = "whole"]
  IN  /\ At(j, "scoring")
      /\ \/ /\ Kept(e) = Ran(e)
            /\ Becomes(j, [saved EXCEPT !.pc = "finally", !.scored = TRUE])
            /\ Begins(j) \/ UNCHANGED late
            /\ UNCHANGED faults
         \/ /\ Kept(e) # Ran(e)
            /\ Becomes(j, Raise(saved, "replay"))
            /\ UNCHANGED <<late, faults>>
         \/ /\ FaultHappens
            /\ \E f \in {"none", "torn", "whole"} :
                 Becomes(j, Raise([e EXCEPT !.trajectory = f], "other"))
            /\ UNCHANGED late
      /\ UNCHANGED batch

Closed(e) == IF e.host = "open" THEN "closed" ELSE e.host

Finish_KeepsHost(j) ==
  /\ At(j, "finally")
  /\ Goto(j, "done")
  /\ UNCHANGED <<batch, late, faults>>

\* The artifacts, then the host, then result.json.
Finish(j) ==
  /\ At(j, "finally")
  /\ Becomes(j, [episode[j] EXCEPT !.pc = "done",
                                          !.host = Closed(episode[j])])
  /\ UNCHANGED <<batch, late, faults>>

\* A file cannot be written: the exception replaces the result.
FinishFails(j) ==
  /\ At(j, "finally") /\ FaultHappens
  /\ \E h \in {episode[j].host, Closed(episode[j])} :
       Becomes(j, [episode[j] EXCEPT !.pc = "raised", !.host = h])
  /\ UNCHANGED <<batch, late>>

-------------------------------------------------------------------------------
\* run_batch

\* Only some failures count against the batch.
IntegrationError(e) ==
  /\ e.error \notin {"none", "halted", "protocol"}
  /\ \/ e.error \in {"listed", "replay"}
     \/ \E i \in DOMAIN e.calls : e.calls[i].raised

Errors(s) == Cardinality({i \in DOMAIN s : IntegrationError(episode[s[i]])})

MayFill_IgnoresHalt == TRUE
MayFill == ~stopped

Room == {n \in Jobs : submitted < n /\ n <= submitted + Concurrency - Cardinality(pending)}

Fill ==
  /\ coordinator = "fill"
  /\ LET taken == IF MayFill THEN Room ELSE {}
     IN  /\ submitted' = submitted + Cardinality(taken)
         /\ pending' = pending \cup taken
         /\ episode' = [j \in Jobs |-> IF j \in taken THEN [NewEpisode EXCEPT !.pc = "queued"]
                                       ELSE episode[j]]
  /\ coordinator' = "wait"
  /\ UNCHANGED <<stopped, arrived, results, halted, halts, late, faults>>

Wait ==
  LET finished == {j \in pending : Ended(j)}
  IN  /\ coordinator = "wait" /\ finished # {}
      /\ arrived' = finished
      /\ pending' = pending \ finished
      /\ coordinator' = "collect"
      /\ UNCHANGED <<stopped, submitted, results, halted, halts, episode, late, faults>>

\* The except clause: stop the workers, say so once, and leave through the pool,
\* which waits for them.
Unwinds(said) ==
  /\ stopped' = TRUE
  /\ halts' = IF said THEN halts ELSE halts + 1
  /\ coordinator' = "unwind"

HaltsNow(s) == Errors(s) >= MaxErrors /\ ~halted

\* record_halt and record_result write files.
CallbackFails == FaultHappens

\* One future of those that arrived: its result, the halt it may cause, and the
\* callbacks.
Collect(j) ==
  /\ coordinator = "collect" /\ j \in arrived
  /\ arrived' = arrived \ {j}
  /\ IF At(j, "raised")
     THEN Unwinds(halted) /\ UNCHANGED <<results, halted, faults>>
     ELSE /\ results' = Append(results, j)
          /\ halted' = (halted \/ HaltsNow(results'))
          /\ \/ /\ IF HaltsNow(results') THEN stopped' = TRUE /\ halts' = halts + 1
                   ELSE UNCHANGED <<stopped, halts>>
                /\ coordinator' = IF arrived' = {} THEN "fill" ELSE "collect"
                /\ UNCHANGED faults
             \/ /\ CallbackFails
                /\ stopped' = TRUE /\ coordinator' = "unwind"
                /\ halts' = IF HaltsNow(results') \/ ~halted THEN halts + 1 ELSE halts
  /\ UNCHANGED <<submitted, pending, episode, late>>

Return ==
  /\ coordinator = "wait" /\ pending = {}
  /\ coordinator' = "returned"
  /\ UNCHANGED <<stopped, submitted, pending, arrived, results, halted, halts, episode,
                 late, faults>>

PoolExits ==
  /\ coordinator = "unwind"
  /\ \A j \in 1..submitted : Ended(j)
  /\ coordinator' = "raised"
  /\ UNCHANGED <<stopped, submitted, pending, arrived, results, halted, halts, episode,
                 late, faults>>

Finished == coordinator \in {"returned", "raised"} /\ UNCHANGED vars

-------------------------------------------------------------------------------
Init ==
  /\ stopped = FALSE
  /\ coordinator = "fill"
  /\ submitted = 0
  /\ pending = {} /\ arrived = {}
  /\ results = << >>
  /\ halted = FALSE /\ halts = 0
  /\ episode = [j \in Jobs |-> NewEpisode]
  /\ late = [j \in Jobs |-> 0]
  /\ faults = 0

Works(j) ==
  \/ MkdirFails(j) \/ Initialize(j) \/ StopCheck(j) \/ Generate(j) \/ Reply(j) \/ Act(j)
  \/ RunEnds(j) \/ Call(j) \/ Confirm(j) \/ Execute(j)
  \/ Score(j) \/ Finish(j) \/ FinishFails(j)

Coordinates == Fill \/ Wait \/ (\E j \in Jobs : Collect(j)) \/ Return \/ PoolExits

Next == (\E j \in Jobs : Works(j)) \/ Coordinates \/ Finished

Spec == Init /\ [][Next]_vars

-------------------------------------------------------------------------------
\* Properties

TypeOK ==
  /\ stopped \in BOOLEAN /\ halted \in BOOLEAN
  /\ coordinator \in {"fill", "wait", "collect", "unwind", "returned", "raised"}
  /\ submitted \in 0..Len(Modes)
  /\ pending \subseteq 1..submitted /\ arrived \subseteq 1..submitted
  /\ results \in Seq(Jobs)
  /\ halts \in Nat
  /\ \A j \in Jobs :
       /\ episode[j].pc \in Places
       /\ episode[j].error \in ErrorKinds
       /\ episode[j].host \in {"none", "open", "closed"}
       /\ episode[j].journal \in {"none", "unpinned", "pinned"}
       /\ episode[j].trajectory \in {"none", "torn", "whole"}
       /\ episode[j].calls \in Seq(CallRecords)
  /\ late \in [Jobs -> Nat]
  /\ faults \in 0..MaxFaults

\* A batch stops for good: once the flag is set no job is submitted, however
\* results arrive together, and a halt is told once.  What the workers still begin is
\* bounded, by more than the one step they had checked for: a bare worker begins that
\* step and the judge's, a guarded one two requests for a confirmation, the write they
\* were for and the judge's (batch.py:50-98, benchmark.py:287-290, 481-485).
StepsAfterStop == [baseline |-> 2, guarded |-> 4]

HaltIsFinal ==
  [][/\ stopped => submitted' = submitted
     /\ halts' <= 1
     /\ \A j \in Jobs : late'[j] <= StepsAfterStop[Modes[j]]]_vars

\* batch.py:53-54: workers look at the flag at generation and dispatch boundaries.  So
\* after the stop a worker in a conversation begins at most the one step it had looked
\* for before.
OneStepAfterStop == \A j \in Jobs : ~Ended(j) /\ ~At(j, "finally") => late[j] <= 1

\* A batch that returns accounts for every episode: each submitted job has one
\* result, the others were never started, which happens only after a halt, and no
\* host keeps its journal open (batch.py:61-98, benchmark.py:720-725).
ReturnAccountsForAll ==
  coordinator = "returned" =>
    /\ \A j \in 1..submitted :
         /\ Cardinality({i \in DOMAIN results : results[i] = j}) = 1
         /\ episode[j].host # "open"
    /\ Len(results) = submitted
    /\ halted <=> Errors(results) >= MaxErrors
    /\ submitted < Len(Modes) => halted

\* An episode is scored on the writes that ran: none that was denied or failed before
\* its dispatch is run again for the score, and every one that ran is, also when
\* recording its outcome failed.  The score is refused for a difference only if the
\* events of some failed call could not be read (benchmark.py:112-136, 344-359, 633).
ScoredAsRun ==
  \A j \in Jobs :
    LET e == episode[j]
    IN  /\ e.scored => Kept(e) = Ran(e)
        /\ e.error = "replay" => \E i \in DOMAIN e.calls : ~e.calls[i].recorded

\* A guarded write ran only after the customer's model answered yes to this very
\* proposal; a truncated, late or unusable answer is a no (benchmark.py:272-312).
WritesHadAYes ==
  \A j \in Jobs : \A i \in DOMAIN episode[j].calls :
    LET call == episode[j].calls[i] IN call.ran /\ call.write => call.said = "yes"
===============================================================================
