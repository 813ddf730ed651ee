----------------------------- MODULE EngineProcess -----------------------------
(***************************************************************************)
(* Engine of python/leanguard/engine.py: the client of one child process   *)
(* that reads a line and writes a line.  Its lock makes requests take      *)
(* turns; within one, the pipes pass pieces, the deadline may pass at any  *)
(* point, the child may die, and the file it was started from may be       *)
(* replaced by an installation.                                            *)
(*                                                                         *)
(* A line is Pieces pieces; only the last one carries the newline.         *)
(***************************************************************************)
EXTENDS Naturals, Sequences, FiniteSets

CONSTANTS
  Binaries,      \* contents of the executable file
  NoBinary,
  Commands,      \* requests by what the engine does with them
  Mutating,      \* those that add one to the engine's version
  Rejected,      \* those it answers with ok = false
  Loads,         \* those of __init__, which load the policy pack
  NoCommand,
  Pieces,        \* reads or writes a line takes
  MaxRequests,   \* bound: requests
  MaxInstalls    \* bound: replacements of the file

ASSUME EngineAssumption ==
  /\ NoBinary \notin Binaries /\ NoCommand \notin Commands
  /\ Mutating \subseteq Commands /\ Rejected \subseteq Commands
  /\ Loads \subseteq Commands
  /\ Mutating \cap Rejected = {} /\ Mutating \cap Loads = {}
  /\ Pieces \in Nat \ {0} /\ MaxRequests \in Nat /\ MaxInstalls \in Nat

VARIABLES
  installed,     \* the file on disk
  \* the client
  stage,         \* where __init__ or request stands
  fingerprint,   \* digest of the file as read
  command,       \* the request in progress
  offset,        \* pieces written of it
  buffer,        \* pieces read and not consumed
  version,       \* as the last answer gave it
  \* the child and its pipes
  child,         \* the file it was started from, while it runs
  stdin, stdout, \* pieces under way
  served,        \* the child's own version
  \* history and bounds
  answers, requests, installs

vars == <<installed, stage, fingerprint, command, offset, buffer, version, child,
          stdin, stdout, served, answers, requests, installs>>

Stages == {"new", "hashed", "started", "idle", "writing", "reading", "closing", "closed"}

pipes == <<stdin, stdout, served>>

Replies == [command: Commands, ok: BOOLEAN, version: Nat]

\* The pieces of a line: who it belongs to, and which piece it is.
Line(x) == [i \in 1..Pieces |-> [of |-> x, last |-> i = Pieces]]

-------------------------------------------------------------------------------
\* __init__

Hash ==
  /\ stage = "new"
  /\ fingerprint' = installed
  /\ stage' = "hashed"
  /\ UNCHANGED <<installed, command, offset, buffer, version, child, pipes,
                 answers, requests, installs>>

\* Popen; when it raises there is no child.
Popen ==
  /\ stage = "hashed"
  /\ \/ stage' = "started" /\ child' = installed
     \/ stage' = "closed" /\ UNCHANGED child
  /\ UNCHANGED <<installed, fingerprint, command, offset, buffer, version, pipes,
                 answers, requests, installs>>

\* The load goes the way of every request.
Load ==
  /\ stage = "started" /\ child # NoBinary
  /\ stage' = "writing" /\ offset' = 0
  /\ \E c \in Loads : command' = c
  /\ UNCHANGED <<installed, fingerprint, buffer, version, child, pipes, answers,
                 requests, installs>>

Install ==
  /\ installs < MaxInstalls
  /\ installs' = installs + 1
  /\ \E b \in Binaries : b # installed /\ installed' = b
  /\ UNCHANGED <<stage, fingerprint, command, offset, buffer, version, child, pipes,
                 answers, requests>>

-------------------------------------------------------------------------------
\* close: terminate, kill what does not end within two seconds, wait for its
\* end, and close the pipes.

Shut == stage' = "closing" /\ UNCHANGED <<child, stdin, stdout>>

Kill ==
  /\ stage = "closing" /\ child # NoBinary
  /\ child' = NoBinary
  /\ UNCHANGED <<installed, stage, fingerprint, command, offset, buffer, version,
                 stdin, stdout, served, answers, requests, installs>>

ClosePipes ==
  /\ stage = "closing" /\ child = NoBinary
  /\ stage' = "closed" /\ stdin' = << >> /\ stdout' = << >>
  /\ UNCHANGED <<installed, fingerprint, command, offset, buffer, version, child,
                 served, answers, requests, installs>>

Close ==
  /\ stage = "idle"
  /\ Shut
  /\ UNCHANGED <<installed, fingerprint, command, offset, buffer, version, served,
                 answers, requests, installs>>

\* __init__ fails before the load is sent: the pipe cannot be unblocked, or the
\* child has died already.

LoadFails_LeavesChild ==
  /\ stage = "started"
  /\ stage' = "closed"
  /\ UNCHANGED <<installed, fingerprint, command, offset, buffer, version, child, pipes,
                 answers, requests, installs>>

LoadFails ==
  /\ stage = "started"
  /\ Shut
  /\ UNCHANGED <<installed, fingerprint, command, offset, buffer, version, served,
                 answers, requests, installs>>

-------------------------------------------------------------------------------
\* request, one at a time under the lock

Request(c) ==
  /\ stage = "idle" /\ requests < MaxRequests
  /\ requests' = requests + 1
  /\ IF child = NoBinary
     THEN UNCHANGED <<stage, command, offset>>       \* "Lean engine is unavailable"
     ELSE stage' = "writing" /\ command' = c /\ offset' = 0
  /\ UNCHANGED <<installed, fingerprint, buffer, version, child, pipes, answers, installs>>

Write ==
  /\ stage = "writing" /\ offset < Pieces /\ child # NoBinary
  /\ offset' = offset + 1
  /\ stdin' = Append(stdin, Line(command)[offset + 1])
  /\ stage' = IF offset' = Pieces THEN "reading" ELSE "writing"
  /\ UNCHANGED <<installed, fingerprint, command, buffer, version, child, stdout,
                 served, answers, requests, installs>>

HasLine == \E i \in DOMAIN buffer : buffer[i].last

Read ==
  /\ stage = "reading" /\ ~HasLine /\ stdout # << >>
  /\ buffer' = Append(buffer, Head(stdout))
  /\ stdout' = Tail(stdout)
  /\ UNCHANGED <<installed, stage, fingerprint, command, offset, version, child,
                 stdin, served, answers, requests, installs>>

\* The line is complete: the answer is returned, or the engine refused the
\* request and the client closes itself.
Return ==
  /\ stage = "reading" /\ HasLine
  /\ LET reply == Head(buffer).of
     IN  /\ buffer' = SubSeq(buffer, Pieces + 1, Len(buffer))
         /\ IF reply.ok
            THEN /\ version' = reply.version
                 /\ answers' = Append(answers, [command |-> command, version |-> reply.version])
                 /\ stage' = "idle"
                 /\ UNCHANGED <<child, stdin, stdout>>
            ELSE Shut /\ UNCHANGED <<version, answers>>
  /\ UNCHANGED <<installed, fingerprint, command, offset, served, requests, installs>>

\* The deadline passes, a pipe is closed, or the caller is interrupted.

GiveUp_WhileReading ==
  /\ stage = "reading"
  /\ Shut
  /\ UNCHANGED <<installed, fingerprint, command, offset, buffer, version, served,
                 answers, requests, installs>>

GiveUp ==
  /\ stage \in {"writing", "reading"}
  /\ Shut
  /\ UNCHANGED <<installed, fingerprint, command, offset, buffer, version, served,
                 answers, requests, installs>>

-------------------------------------------------------------------------------
\* The child: it takes whole lines, and answers each in full.

Reply_CountsAll(c) == [command |-> c, ok |-> c \notin Rejected, version |-> served + 1]

Reply(c) == LET next == served + (IF c \in Mutating THEN 1 ELSE 0)
            IN  [command |-> c, ok |-> c \notin Rejected, version |-> next]

Serve ==
  /\ child # NoBinary
  /\ Len(stdin) >= Pieces
  /\ LET reply == Reply(Head(stdin).of)
     IN  stdout' = stdout \o Line(reply) /\ served' = reply.version
  /\ stdin' = SubSeq(stdin, Pieces + 1, Len(stdin))
  /\ UNCHANGED <<installed, stage, fingerprint, command, offset, buffer, version,
                 child, answers, requests, installs>>

\* It dies; what it wrote stays readable.
Die ==
  /\ child # NoBinary
  /\ child' = NoBinary
  /\ stdin' = << >>
  /\ UNCHANGED <<installed, stage, fingerprint, command, offset, buffer, version,
                 stdout, served, answers, requests, installs>>

-------------------------------------------------------------------------------
Init ==
  /\ installed \in Binaries
  /\ stage = "new"
  /\ fingerprint = NoBinary /\ child = NoBinary
  /\ command = NoCommand /\ offset = 0
  /\ buffer = << >> /\ stdin = << >> /\ stdout = << >>
  /\ version = 0 /\ served = 0
  /\ answers = << >> /\ requests = 0 /\ installs = 0

Next ==
  \/ Hash \/ Popen \/ Load \/ LoadFails \/ Install
  \/ Close \/ Kill \/ ClosePipes
  \/ \E c \in Commands \ Loads : Request(c)
  \/ Write \/ Read \/ Return \/ GiveUp
  \/ Serve \/ Die

Spec == Init /\ [][Next]_vars

\* What the client's thread does next when it waits for nobody: a request has a
\* deadline, and so has the wait for the child's end.
ClientStep ==
  Load \/ LoadFails \/ Write \/ Read \/ Return \/ GiveUp \/ Kill \/ ClosePipes

Deadlines == WF_vars(ClientStep)

FairSpec == Spec /\ Deadlines

-------------------------------------------------------------------------------
\* Properties

TypeOK ==
  /\ installed \in Binaries
  /\ stage \in Stages
  /\ fingerprint \in Binaries \cup {NoBinary} /\ child \in Binaries \cup {NoBinary}
  /\ command \in Commands \cup {NoCommand} /\ offset \in 0..Pieces
  /\ stdin \in Seq([of: Commands, last: BOOLEAN])
  /\ stdout \in Seq([of: Replies, last: BOOLEAN])
  /\ buffer \in Seq([of: Replies, last: BOOLEAN])
  /\ version \in Nat /\ served \in Nat
  /\ answers \in Seq([command: Commands, version: Nat])
  /\ requests \in 0..MaxRequests /\ installs \in 0..MaxInstalls

\* Between requests the client's version is the engine's, and no piece of an
\* old answer is left to be read: the next command is never refused as stale
\* and never answered by somebody else's reply (engine.py:66, 101-112).
IdleIsInStep ==
  stage = "idle" /\ child # NoBinary =>
    /\ version = served
    /\ stdin = << >> /\ stdout = << >> /\ buffer = << >>

\* A constructor or a request that has failed, or a close that has returned, has
\* left no child behind, whether it was spawned and never loaded, answered half a
\* line, or would not end when told to (engine.py:50-64, 116-117, 122-133).
NoChildOutlivesClient == stage = "closed" => child = NoBinary

\* Every start and every request comes back: with an answer, or with the engine
\* closed (engine.py:57-64, 76-99, 122-133).
RequestsReturn ==
  (stage \in {"started", "writing", "reading", "closing"}) ~> (stage \in {"idle", "closed"})

\* The fingerprint a journal is pinned to is that of the engine that decides
\* (host.py:143-144: "replay requires the pinned binary").
FingerprintIsOfChild == child # NoBinary => child = fingerprint

Calls == INSTANCE EngineCalls WITH lost <- stage \in {"closing", "closed"}

\* The pipes, pieces, deadlines and deaths look like an engine that answers in
\* order until it is lost (engine.py:66-120).
AnswersInOrder == Calls!Spec
===============================================================================
