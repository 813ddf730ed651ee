---------------------------- MODULE TransportProofs ----------------------------
(***************************************************************************)
(* The two ends at which answers come in as bytes.                         *)
(*                                                                         *)
(* The engine's client process, for lines of any length: it leaves no      *)
(* child behind, and implements EngineCalls, the engine that answers in    *)
(* order.  The inductive invariant says what is in the pipes at each       *)
(* stage.  In the reading stage either the whole request, or the whole     *)
(* answer, part of which the client may have read already, is under way.   *)
(*                                                                         *)
(* The event stream of the HTTP transport, for texts and chunks of any     *)
(* length: how the chunks were cut does not matter.  The inductive         *)
(* invariant says that the parser stands at the end of some line of the    *)
(* text: it knows what the text means up to there, and holds the rest.     *)
(***************************************************************************)
EXTENDS EngineProcess, EventStream, DataLemmas, TLAPS, SequenceTheorems, FiniteSetTheorems


InPieces == [of: Commands, last: BOOLEAN]
OutPieces == [of: Replies, last: BOOLEAN]

\* The answer that the engine, having served it, gave to c.
AnswerTo(c) == [command |-> c, ok |-> c \notin Rejected, version |-> served]

Silent == stdout = << >> /\ buffer = << >>

\* The child, if it lives, has been sent the first n pieces of the command.
Sent(n) ==
  child # NoBinary =>
    /\ Len(stdin) = n
    /\ \A i \in 1..n : stdin[i] = [of |-> command, last |-> i = Pieces]

Unanswered == Silent /\ version = served

Answered ==
  /\ stdin = << >>
  /\ served = version + (IF command \in Mutating THEN 1 ELSE 0)
  /\ Len(buffer) + Len(stdout) = Pieces
  /\ \A i \in 1..Len(buffer) : buffer[i] = [of |-> AnswerTo(command), last |-> i = Pieces]
  /\ \A i \in 1..Len(stdout) :
       stdout[i] = [of |-> AnswerTo(command), last |-> Len(buffer) + i = Pieces]

ChildStarts == stage \in {"new", "hashed"} => child = NoBinary /\ stdin = << >> /\ Unanswered

Started == stage = "started" => stdin = << >> /\ Unanswered

Writing ==
  stage = "writing" => command \in Commands /\ offset < Pieces /\ Unanswered /\ Sent(offset)

Reading ==
  stage = "reading" => command \in Commands /\ ((Unanswered /\ Sent(Pieces)) \/ Answered)

PInv ==
  /\ TypeOK
  /\ ChildStarts /\ Started /\ IdleIsInStep /\ Writing /\ Reading
  /\ NoChildOutlivesClient

-------------------------------------------------------------------------------
\* Lines

LEMMA MappingIsSeq ==
  ASSUME NEW S, NEW n \in Nat, NEW f \in [1..n -> S]
  PROVE  f \in Seq(S) /\ Len(f) = n
<1>1. f \in Seq(S)
  BY SeqDef
<1> QED
  BY <1>1, LenProperties

LEMMA LineOfPieces ==
  ASSUME NEW X, NEW x \in X
  PROVE  /\ Line(x) \in Seq([of: X, last: BOOLEAN])
         /\ Len(Line(x)) = Pieces
         /\ \A i \in 1..Pieces : Line(x)[i] = [of |-> x, last |-> i = Pieces]
<1>1. Line(x) \in [1..Pieces -> [of: X, last: BOOLEAN]]
  BY DEF Line
<1>2. Pieces \in Nat
  BY EngineAssumption
<1>3. Line(x) \in Seq([of: X, last: BOOLEAN]) /\ Len(Line(x)) = Pieces
  BY <1>1, <1>2, MappingIsSeq
<1> QED
  BY <1>3 DEF Line

\* What the child answers is typed, and the version it counts.
LEMMA ReplyTyped ==
  ASSUME NEW c \in Commands, served \in Nat
  PROVE  /\ Reply(c) \in Replies
         /\ Reply(c).version = served + (IF c \in Mutating THEN 1 ELSE 0)
         /\ Reply(c).version \in Nat
BY DEF Reply, Replies

-------------------------------------------------------------------------------
\* The type invariant

LEMMA InitHolds == Init => PInv
<1> SUFFICES ASSUME Init PROVE PInv
  OBVIOUS
<1>1. TypeOK
  BY EngineAssumption, EmptySeq DEF Init, TypeOK, Stages
<1>2. ChildStarts
  BY DEF Init, ChildStarts, Unanswered, Silent
<1> QED
  BY <1>1, <1>2 DEF Init, PInv, Started, IdleIsInStep, Writing, Reading, NoChildOutlivesClient

\* Steps of the client that touch no pipe.
LEMMA HashStep == PInv /\ Hash => PInv'
<1> SUFFICES ASSUME PInv, Hash PROVE PInv'
  OBVIOUS
<1>1. TypeOK'
  BY DEF PInv, Hash, TypeOK, pipes, Stages
<1> QED
  BY <1>1 DEF PInv, Hash, pipes, ChildStarts, Started, IdleIsInStep, Writing, Reading, Unanswered,
              Silent, NoChildOutlivesClient

LEMMA PopenStep == PInv /\ Popen => PInv'
<1> SUFFICES ASSUME PInv, Popen PROVE PInv'
  OBVIOUS
<1>1. TypeOK'
  BY DEF PInv, Popen, TypeOK, pipes, Stages
<1> QED
  BY <1>1 DEF PInv, Popen, pipes, ChildStarts, Started, IdleIsInStep, Writing, Reading,
              Unanswered, Silent, NoChildOutlivesClient

LEMMA LoadStep == PInv /\ Load => PInv'
<1> SUFFICES ASSUME PInv, Load PROVE PInv'
  OBVIOUS
<1>1. PICK c \in Loads : command' = c
  BY DEF Load
<1>2. /\ stage = "started" /\ stage' = "writing" /\ command' \in Commands /\ offset' = 0
      /\ UNCHANGED <<installed, fingerprint, child, buffer, version, stdin, stdout, served,
                     answers, requests, installs>>
      /\ stdin = << >> /\ Unanswered
  BY <1>1, EngineAssumption DEF PInv, Load, pipes, Started
<1>3. TypeOK'
  BY <1>2, EngineAssumption DEF PInv, TypeOK, Stages
<1>4. Writing'
  BY <1>2, EngineAssumption DEF Writing, Unanswered, Silent, Sent
<1> QED
  BY <1>2, <1>3, <1>4 DEF PInv, ChildStarts, Started, IdleIsInStep, Reading,
                          NoChildOutlivesClient

LEMMA InstallStep == PInv /\ Install => PInv'
<1> SUFFICES ASSUME PInv, Install PROVE PInv'
  OBVIOUS
<1>1. TypeOK'
  BY EngineAssumption DEF PInv, Install, TypeOK, pipes, Stages
<1>2. UNCHANGED <<stage, child, pipes, buffer, version, command, offset>>
  BY DEF Install
<1>3. Sent(offset)' = Sent(offset) /\ Sent(Pieces)' = Sent(Pieces) /\ Answered' = Answered
  BY <1>2 DEF pipes, Sent, Answered, AnswerTo
<1> QED
  BY <1>1, <1>2, <1>3 DEF PInv, pipes, ChildStarts, Started, IdleIsInStep, Writing, Reading,
                          Unanswered, Silent, NoChildOutlivesClient

\* Whatever closes the client leaves the child to Kill; nothing is asked of the
\* pipes from then on.
LEMMA ShutStep ==
  ASSUME PInv, Shut, buffer' \in Seq(OutPieces),
         UNCHANGED <<installed, fingerprint, command, offset, version, served,
                     answers, requests, installs>>
  PROVE  PInv'
<1>1. TypeOK'
  BY DEF PInv, Shut, TypeOK, Stages, OutPieces
<1> QED
  BY <1>1 DEF PInv, Shut, ChildStarts, Started, IdleIsInStep, Writing, Reading,
              NoChildOutlivesClient

LEMMA KillStep == PInv /\ Kill => PInv'
<1> SUFFICES ASSUME PInv, Kill PROVE PInv'
  OBVIOUS
<1>1. TypeOK'
  BY DEF PInv, Kill, TypeOK, Stages
<1> QED
  BY <1>1 DEF PInv, Kill, ChildStarts, Started, IdleIsInStep, Writing, Reading,
              NoChildOutlivesClient

LEMMA ClosePipesStep == PInv /\ ClosePipes => PInv'
<1> SUFFICES ASSUME PInv, ClosePipes PROVE PInv'
  OBVIOUS
<1>1. TypeOK'
  BY EmptySeq DEF PInv, ClosePipes, TypeOK, Stages
<1> QED
  BY <1>1 DEF PInv, ClosePipes, ChildStarts, Started, IdleIsInStep, Writing, Reading,
              NoChildOutlivesClient

LEMMA RequestStep ==
  ASSUME PInv, NEW c \in Commands \ Loads, Request(c)
  PROVE  PInv'
<1>1. TypeOK'
  BY EngineAssumption DEF PInv, Request, TypeOK, pipes, Stages
<1>2. CASE child = NoBinary
  BY <1>1, <1>2 DEF PInv, Request, pipes, ChildStarts, Started, IdleIsInStep, Writing, Reading,
                    Unanswered, Silent, NoChildOutlivesClient
<1>3. CASE child # NoBinary
  <2>1. /\ stage = "idle" /\ stage' = "writing" /\ command' = c /\ offset' = 0
        /\ UNCHANGED <<child, buffer, version, stdin, stdout, served>>
        /\ stdin = << >> /\ Unanswered
    BY <1>3 DEF PInv, Request, pipes, IdleIsInStep, Unanswered, Silent
  <2>2. Writing'
    BY <2>1, EngineAssumption DEF Writing, Unanswered, Silent, Sent
  <2> QED
    BY <1>1, <2>1, <2>2 DEF PInv, ChildStarts, Started, IdleIsInStep, Reading, NoChildOutlivesClient
<1> QED
  BY <1>2, <1>3

LEMMA DieStep == PInv /\ Die => PInv'
<1> SUFFICES ASSUME PInv, Die PROVE PInv'
  OBVIOUS
<1>1. TypeOK'
  BY EmptySeq DEF PInv, Die, TypeOK, pipes, Stages
<1>2. Sent(offset)' /\ Sent(Pieces)' /\ (Answered => Answered') /\ (Unanswered => Unanswered')
  BY DEF Die, Sent, Answered, AnswerTo, Unanswered, Silent
<1> QED
  BY <1>1, <1>2 DEF PInv, Die, ChildStarts, Started, IdleIsInStep, Writing, Reading,
                    NoChildOutlivesClient

\* The client writes the next piece of its line.
LEMMA WriteStep == PInv /\ Write => PInv'
<1> SUFFICES ASSUME PInv, Write PROVE PInv'
  OBVIOUS
<1> DEFINE piece == [of |-> command, last |-> offset + 1 = Pieces]
<1>1. /\ stage = "writing" /\ offset \in Nat /\ offset < Pieces /\ child # NoBinary
      /\ command \in Commands /\ Unanswered /\ Sent(offset)
      /\ stdin \in Seq(InPieces) /\ Pieces \in Nat
  BY EngineAssumption DEF PInv, Write, Writing, TypeOK, InPieces
<1>2. Line(command)[offset + 1] = piece
  <2>1. offset + 1 \in 1..Pieces
    BY <1>1
  <2> QED
    BY <1>1, <2>1, LineOfPieces
<1>3. piece \in InPieces
  BY <1>1 DEF InPieces
<1>4. /\ stdin' = Append(stdin, piece) /\ stdin' \in Seq(InPieces)
      /\ Len(stdin') = offset + 1
      /\ \A i \in 1..offset : stdin'[i] = stdin[i]
      /\ stdin'[offset + 1] = piece
  <2>1. stdin' = Append(stdin, piece) /\ Len(stdin) = offset
    BY <1>1, <1>2 DEF Write, Sent
  <2> HIDE DEF piece
  <2> QED
    BY <2>1, <1>1, <1>3, AppendProperties
<1>5. Sent(offset)'
  <2>1. offset' = offset + 1 /\ command' = command
    BY DEF Write
  <2>2. \A i \in 1..offset' : stdin'[i] = [of |-> command, last |-> i = Pieces]
    <3> TAKE i \in 1..offset'
    <3>1. CASE i = offset + 1
      BY <1>4, <3>1
    <3>2. CASE i # offset + 1
      <4>1. i \in 1..offset
        BY <1>1, <2>1, <3>2
      <4> QED
        BY <1>1, <1>4, <4>1 DEF Sent
    <3> QED
      BY <3>1, <3>2
  <2> QED
    BY <1>4, <2>1, <2>2 DEF Sent
<1>6. TypeOK'
  <2>1. offset' \in 0..Pieces
    BY <1>1 DEF Write
  <2>2. stage' \in Stages
    BY DEF Write, Stages
  <2> QED
    BY <1>4, <2>1, <2>2 DEF PInv, TypeOK, Write, InPieces
<1>7. Unanswered'
  BY <1>1 DEF Write, Unanswered, Silent
<1>8. CASE offset' = Pieces
  <2>1. stage' = "reading" /\ offset + 1 = Pieces /\ command' = command
    BY <1>8 DEF Write
  <2>2. Sent(Pieces)'
    BY <1>5, <1>8 DEF Sent
  <2> QED
    BY <1>1, <1>6, <1>7, <2>1, <2>2 DEF PInv, ChildStarts, Started, IdleIsInStep, Writing, Reading,
                                        NoChildOutlivesClient
<1>9. CASE offset' # Pieces
  <2>1. stage' = "writing" /\ offset' = offset + 1 /\ command' = command /\ offset' < Pieces
    BY <1>1, <1>9 DEF Write
  <2>2. Sent(offset)'
    BY <1>5, <2>1 DEF Sent
  <2> QED
    BY <1>1, <1>6, <1>7, <2>1, <2>2 DEF PInv, ChildStarts, Started, IdleIsInStep, Writing, Reading,
                                        NoChildOutlivesClient
<1> QED
  BY <1>8, <1>9

\* A client that is closing asks nothing of what its child still answers.
LEMMA ServeWhileClosing ==
  ASSUME PInv, Serve, stage = "closing"
  PROVE  PInv'
<1> DEFINE command1 == Head(stdin).of
           reply == Reply(command1)
<1>1. /\ Pieces \in Nat \ {0} /\ Len(stdin) >= Pieces /\ served \in Nat
      /\ stdin \in Seq(InPieces) /\ Len(stdin) \in Nat /\ stdout \in Seq(OutPieces)
  BY EngineAssumption, LenProperties DEF PInv, TypeOK, Serve, InPieces, OutPieces
<1>2. stdin # << >> /\ Head(stdin) \in InPieces
  BY <1>1, EmptySeq
<1>3. command1 \in Commands
  BY <1>2 DEF InPieces
<1>4. reply \in Replies /\ reply.version \in Nat
  BY <1>1, <1>3, ReplyTyped
<1>5. Line(reply) \in Seq(OutPieces)
  BY <1>4, LineOfPieces DEF OutPieces
<1>6. stdout' = stdout \o Line(reply) /\ served' = reply.version
      /\ stdin' = SubSeq(stdin, Pieces + 1, Len(stdin))
  BY DEF Serve
<1> HIDE DEF reply
<1>7. stdout' \in Seq(OutPieces)
  BY <1>1, <1>5, <1>6, ConcatProperties
<1>8. stdin' \in Seq(InPieces)
  <2>1. \A i \in Pieces + 1 .. Len(stdin) : stdin[i] \in InPieces
    BY <1>1, ElementOfSeq
  <2>2. Pieces + 1 \in Int /\ Len(stdin) \in Int
    BY <1>1
  <2> QED
    BY <1>6, <2>1, <2>2, SubSeqProperties
<1>9. TypeOK'
  BY <1>4, <1>6, <1>7, <1>8 DEF PInv, TypeOK, Serve, InPieces, OutPieces
<1> QED
  BY <1>9 DEF PInv, Serve, ChildStarts, Started, IdleIsInStep, Writing, Reading,
              NoChildOutlivesClient

\* The child takes a whole line only from a client that waits for the answer.
LEMMA ServeStep == PInv /\ Serve => PInv'
<1> SUFFICES ASSUME PInv, Serve, stage # "closing" PROVE PInv'
  BY ServeWhileClosing
<1> DEFINE reply == Reply(command)
<1>1. /\ Pieces \in Nat \ {0} /\ child # NoBinary /\ Len(stdin) >= Pieces
      /\ stdin \in Seq(InPieces) /\ Len(stdin) \in Nat
      /\ served \in Nat
  BY EngineAssumption, LenProperties DEF PInv, TypeOK, Serve, InPieces
<1>2. stdin # << >>
  BY <1>1, EmptySeq
<1>3. stage = "reading"
  <2>1. stage \notin {"new", "hashed", "started", "idle", "closed"}
    BY <1>1, <1>2 DEF PInv, ChildStarts, Started, IdleIsInStep, NoChildOutlivesClient
  <2>2. stage # "writing"
    BY <1>1 DEF PInv, Writing, Sent, TypeOK
  <2> QED
    BY <2>1, <2>2 DEF PInv, TypeOK, Stages
<1>4. /\ command \in Commands /\ Unanswered /\ Len(stdin) = Pieces
      /\ stdin[1] = [of |-> command, last |-> 1 = Pieces]
  BY <1>1, <1>2, <1>3 DEF PInv, Reading, Answered, Sent
<1>5. /\ reply \in Replies /\ reply.version \in Nat
      /\ reply.version = served + (IF command \in Mutating THEN 1 ELSE 0)
  BY <1>1, <1>4, ReplyTyped
<1>6. Head(stdin).of = command
  BY <1>1, <1>2, <1>4
<1>7. stdout' = << >> \o Line(reply) /\ served' = reply.version
      /\ stdin' = SubSeq(stdin, Pieces + 1, Len(stdin))
  BY <1>4, <1>6 DEF Serve, Unanswered, Silent
<1>8. /\ stdout' = Line(reply) /\ stdout' \in Seq(OutPieces) /\ Len(stdout') = Pieces
      /\ \A i \in 1..Pieces : stdout'[i] = [of |-> reply, last |-> i = Pieces]
  <2>1. Line(reply) \in Seq(OutPieces) /\ Len(Line(reply)) = Pieces
    BY <1>5, LineOfPieces DEF OutPieces
  <2>2. \A i \in 1..Pieces : Line(reply)[i] = [of |-> reply, last |-> i = Pieces]
    BY <1>5, LineOfPieces
  <2> HIDE DEF reply
  <2>3. stdout' = Line(reply)
    BY <1>7, <2>1, ConcatEmptySeq
  <2> QED
    BY <2>1, <2>2, <2>3
<1>9. stdin' = << >>
  BY <1>1, <1>4, <1>7, SubSeqEmpty
<1>10. AnswerTo(command)' = reply
  BY <1>5, <1>7 DEF Serve, AnswerTo, Reply
<1>11. Answered'
  <2>1. buffer' = << >> /\ Len(buffer') = 0 /\ command' = command /\ version' = served
    BY <1>4 DEF Serve, Unanswered, Silent
  <2> HIDE DEF reply
  <2> QED
    BY <1>1, <1>5, <1>7, <1>8, <1>9, <1>10, <2>1 DEF Answered
<1>12. TypeOK'
  <2> HIDE DEF reply
  <2> QED
    BY <1>5, <1>7, <1>8, <1>9, EmptySeq DEF PInv, TypeOK, Serve, OutPieces
<1> QED
  BY <1>3, <1>4, <1>11, <1>12 DEF PInv, Serve, ChildStarts, Started, IdleIsInStep, Writing, Reading,
                                  NoChildOutlivesClient

LEMMA ReadStep == PInv /\ Read => PInv'
<1> SUFFICES ASSUME PInv, Read PROVE PInv'
  OBVIOUS
<1>1. /\ stage = "reading" /\ stdout # << >> /\ stdout \in Seq(OutPieces)
      /\ buffer \in Seq(OutPieces) /\ Pieces \in Nat
  BY EngineAssumption DEF PInv, TypeOK, Read, OutPieces
<1>2. command \in Commands /\ Answered
  BY <1>1 DEF PInv, Reading, Unanswered, Silent
<1>3. /\ Len(stdout) \in Nat \ {0} /\ Len(buffer) \in Nat
      /\ Head(stdout) = stdout[1] /\ Head(stdout) \in OutPieces
      /\ Tail(stdout) \in Seq(OutPieces) /\ Len(Tail(stdout)) = Len(stdout) - 1
      /\ \A i \in 1..(Len(stdout) - 1) : Tail(stdout)[i] = stdout[i + 1]
  BY <1>1, HeadTailProperties, EmptySeq, LenProperties
<1>4. /\ buffer' \in Seq(OutPieces) /\ Len(buffer') = Len(buffer) + 1
      /\ \A i \in 1..Len(buffer) : buffer'[i] = buffer[i]
      /\ buffer'[Len(buffer) + 1] = stdout[1]
      /\ stdout' = Tail(stdout)
  BY <1>1, <1>3, AppendProperties DEF Read
<1>5. AnswerTo(command)' = AnswerTo(command)
  BY DEF AnswerTo, Read
<1>6. stdout[1] = [of |-> AnswerTo(command), last |-> Len(buffer) + 1 = Pieces]
  BY <1>2, <1>3 DEF Answered
<1>7. \A i \in 1..Len(buffer') :
        buffer'[i] = [of |-> AnswerTo(command), last |-> i = Pieces]
  <2> TAKE i \in 1..Len(buffer')
  <2>1. CASE i = Len(buffer) + 1
    BY <1>4, <1>6, <2>1
  <2>2. CASE i # Len(buffer) + 1
    <3>1. i \in 1..Len(buffer)
      BY <1>3, <1>4, <2>2
    <3> QED
      BY <1>2, <1>4, <3>1 DEF Answered
  <2> QED
    BY <2>1, <2>2
<1>8. \A i \in 1..Len(stdout') :
        stdout'[i] = [of |-> AnswerTo(command), last |-> Len(buffer') + i = Pieces]
  <2> TAKE i \in 1..Len(stdout')
  <2>1. i \in 1..(Len(stdout) - 1) /\ i + 1 \in 1..Len(stdout)
    BY <1>3, <1>4
  <2>2. stdout'[i] = stdout[i + 1]
    BY <1>3, <1>4, <2>1
  <2>3. stdout[i + 1] = [of |-> AnswerTo(command), last |-> Len(buffer) + (i + 1) = Pieces]
    BY <1>2, <2>1 DEF Answered
  <2>4. Len(buffer) + (i + 1) = Len(buffer') + i
    BY <1>3, <1>4, <2>1
  <2> QED
    BY <2>2, <2>3, <2>4
<1>9. Answered'
  <2>1. stdin' = stdin /\ served' = served /\ version' = version /\ command' = command
    BY DEF Read
  <2>2. Len(buffer') + Len(stdout') = Pieces
    <3>1. Len(stdout') = Len(stdout) - 1 /\ Len(buffer') = Len(buffer) + 1
      BY <1>3, <1>4
    <3>2. Len(buffer) + Len(stdout) = Pieces
      BY <1>2 DEF Answered
    <3> QED
      BY <1>3, <3>1, <3>2
  <2> QED
    BY <1>2, <1>5, <1>7, <1>8, <2>1, <2>2 DEF Answered
<1>10. TypeOK'
  BY <1>3, <1>4 DEF PInv, TypeOK, Read, OutPieces
<1> QED
  BY <1>1, <1>2, <1>9, <1>10 DEF PInv, Read, ChildStarts, Started, IdleIsInStep, Writing, Reading,
                                 NoChildOutlivesClient
\* An answer is complete once its last piece was read: nothing is left behind.
LEMMA ReturnStep == PInv /\ Return => PInv'
<1> SUFFICES ASSUME PInv, Return PROVE PInv'
  OBVIOUS
<1>1. /\ stage = "reading" /\ HasLine /\ buffer \in Seq(OutPieces) /\ Len(buffer) \in Nat
      /\ stdout \in Seq(OutPieces) /\ Len(stdout) \in Nat
      /\ Pieces \in Nat \ {0}
      /\ DOMAIN buffer = 1..Len(buffer)
  BY EngineAssumption, LenProperties DEF PInv, TypeOK, Return, OutPieces
<1>2. command \in Commands /\ Answered
  BY <1>1, EmptySeq DEF PInv, Reading, Unanswered, Silent, HasLine
<1>3. Len(buffer) = Pieces /\ Len(stdout) = 0
  <2>1. PICK i \in 1..Len(buffer) : buffer[i].last
    BY <1>1 DEF HasLine
  <2>2. buffer[i] = [of |-> AnswerTo(command), last |-> i = Pieces]
    BY <1>2, <2>1 DEF Answered
  <2>3. i = Pieces
    <3>1. CASE i # Pieces
      <4>1. buffer[i] = [of |-> AnswerTo(command), last |-> FALSE]
        BY <2>2, <3>1
      <4> QED
        BY <2>1, <4>1
    <3> QED
      BY <3>1
  <2>4. Len(buffer) + Len(stdout) = Pieces
    BY <1>2 DEF Answered
  <2>5. Pieces <= Len(buffer)
    BY <2>1, <2>3
  <2>6. Len(buffer) \in Nat /\ Len(stdout) \in Nat /\ Pieces \in Nat
    BY <1>1
  <2> QED
    BY <2>4, <2>5, <2>6
<1>4. Head(buffer).of = AnswerTo(command)
  <2>1. 1 \in 1..Len(buffer) /\ buffer # << >> /\ Head(buffer) = buffer[1]
    BY <1>1, <1>3, EmptySeq
  <2>2. buffer[1] = [of |-> AnswerTo(command), last |-> 1 = Pieces]
    BY <1>2, <2>1 DEF Answered
  <2> QED
    BY <2>1, <2>2
<1>5. CASE AnswerTo(command).ok
  <2>1. /\ buffer' = SubSeq(buffer, Pieces + 1, Len(buffer))
        /\ version' = served
        /\ answers' = Append(answers, [command |-> command, version |-> served])
        /\ stage' = "idle"
        /\ UNCHANGED <<installed, fingerprint, child, stdin, stdout, command, offset, served,
                       requests, installs>>
    BY <1>4, <1>5 DEF Return, AnswerTo
  <2>2. buffer' = << >>
    BY <1>1, <1>3, <2>1, SubSeqEmpty
  <2>3. stdin = << >> /\ stdout = << >>
    BY <1>1, <1>2, <1>3, EmptySeq DEF Answered
  <2>4. answers' \in Seq([command: Commands, version: Nat])
    <3>1. [command |-> command, version |-> served] \in [command: Commands, version: Nat]
      BY <1>2 DEF PInv, TypeOK
    <3> QED
      BY <2>1, <3>1, AppendProperties DEF PInv, TypeOK
  <2>5. TypeOK'
    BY <2>1, <2>2, <2>4, EmptySeq DEF PInv, TypeOK, Stages
  <2> QED
    BY <2>1, <2>2, <2>3, <2>5 DEF PInv, ChildStarts, Started, IdleIsInStep, Writing, Reading,
                                  NoChildOutlivesClient
<1>6. CASE ~AnswerTo(command).ok
  <2>1. Shut /\ UNCHANGED <<installed, fingerprint, command, offset, version, served,
                            answers, requests, installs>>
        /\ buffer' = SubSeq(buffer, Pieces + 1, Len(buffer))
    BY <1>4, <1>6 DEF Return
  <2>2. buffer' = << >>
    BY <1>1, <1>3, <2>1, SubSeqEmpty
  <2>3. buffer' \in Seq(OutPieces)
    BY <2>2, EmptySeq
  <2> QED
    BY <2>1, <2>3, ShutStep
<1> QED
  BY <1>5, <1>6
-------------------------------------------------------------------------------
\* Theorems

LEMMA Inductive == PInv /\ [Next]_vars => PInv'
<1> SUFFICES ASSUME PInv, [Next]_vars PROVE PInv'
  OBVIOUS
<1>1. CASE Hash
  BY <1>1, HashStep
<1>2. CASE Popen
  BY <1>2, PopenStep
<1>3. CASE Install
  BY <1>3, InstallStep
<1>4. CASE Close
  BY <1>4, ShutStep DEF Close, PInv, TypeOK, OutPieces
<1>5. ASSUME NEW c \in Commands \ Loads, Request(c)
      PROVE  PInv'
  BY <1>5, RequestStep
<1>6. CASE Write
  BY <1>6, WriteStep
<1>7. CASE Read
  BY <1>7, ReadStep
<1>8. CASE Return
  BY <1>8, ReturnStep
<1>9. CASE GiveUp
  BY <1>9, ShutStep DEF GiveUp, PInv, TypeOK, OutPieces
<1>10. CASE Serve
  BY <1>10, ServeStep
<1>11. CASE Die
  BY <1>11, DieStep
<1>13. CASE Load
  BY <1>13, LoadStep
<1>14. CASE LoadFails
  BY <1>14, ShutStep DEF LoadFails, PInv, TypeOK, OutPieces
<1>15. CASE Kill
  BY <1>15, KillStep
<1>16. CASE ClosePipes
  BY <1>16, ClosePipesStep
<1>12. CASE UNCHANGED vars
  BY <1>12 DEF vars, PInv, TypeOK, ChildStarts, Started, IdleIsInStep, Writing, Reading, Unanswered,
               Silent, Sent, Answered, AnswerTo, NoChildOutlivesClient
<1> QED
  BY <1>1, <1>2, <1>3, <1>4, <1>5, <1>6, <1>7, <1>8, <1>9, <1>10, <1>11, <1>12, <1>13,
     <1>14, <1>15, <1>16 DEF Next

LEMMA PipesInvariant == Spec => []PInv
BY InitHolds, Inductive, PTL DEF Spec

\* Client, pipes and child keep their types for lines of any length
\* (engine.py:38-133).
THEOREM ClientTypeCorrect == Spec => []TypeOK
<1>1. PInv => TypeOK
  BY DEF PInv
<1> QED
  BY <1>1, PipesInvariant, PTL

\* A constructor or a request that has failed, or a close that has returned, has left
\* no child behind, wherever the start or the request stood and whatever the child did
\* (engine.py:50-64, 116-117, 122-133).
THEOREM ClosedLeavesNoChild == Spec => []NoChildOutlivesClient
<1>1. PInv => NoChildOutlivesClient
  BY DEF PInv
<1> QED
  BY <1>1, PipesInvariant, PTL

\* Between requests no piece of an old answer is under way, and the client's version
\* is the engine's: the next command is never refused as stale and never answered by
\* somebody else's reply (engine.py:66, 101-112).
THEOREM IdlePipesAreEmpty == Spec => []IdleIsInStep
<1>1. PInv => IdleIsInStep
  BY DEF PInv
<1> QED
  BY <1>1, PipesInvariant, PTL

-------------------------------------------------------------------------------
\* The refinement of EngineCalls

AnswerRows == [command: Commands, version: Nat]

Lost == stage \in {"closing", "closed"}

\* The version counts the mutating commands that were answered.
VersionCounts == version = Calls!Count(answers)

\* The specification of the calls counts with the same cardinality as this module.
LEMMA SameCardinality == \A S : Calls!Cardinality(S) = Cardinality(S)
  BY Zenon DEF Calls!Cardinality, Cardinality

LEMMA CountOfAppend ==
  ASSUME NEW s \in Seq(AnswerRows), NEW x \in AnswerRows
  PROVE  Calls!Count(Append(s, x)) =
           Calls!Count(s) + (IF x.command \in Mutating THEN 1 ELSE 0)
<1> DEFINE n == Len(s)
           t == Append(s, x)
           M == {i \in DOMAIN s : s[i].command \in Mutating}
<1>1. /\ n \in Nat /\ DOMAIN s = 1..n /\ DOMAIN t = 1..(n + 1)
      /\ \A i \in 1..n : t[i] = s[i]
      /\ t[n + 1] = x
  BY AppendProperties, LenProperties
<1>2. IsFiniteSet(M) /\ Cardinality(M) \in Nat /\ n + 1 \notin M
  <2>1. IsFiniteSet(1..n)
    BY <1>1, FS_Interval
  <2>2. M \subseteq 1..n
    BY <1>1
  <2> QED
    BY <1>1, <2>1, <2>2, FS_Subset, FS_CardinalityType
<1>3. {i \in DOMAIN t : t[i].command \in Mutating} =
        IF x.command \in Mutating THEN M \cup {n + 1} ELSE M
  <2>1. \A i \in 1..(n + 1) : i \in 1..n \/ i = n + 1
    BY <1>1
  <2>2. \A i \in 1..n : i \in 1..(n + 1)
    BY <1>1
  <2> HIDE DEF t
  <2> QED
    BY <1>1, <2>1, <2>2
<1>4. Cardinality(M \cup {n + 1}) = Cardinality(M) + 1
  <2> HIDE DEF M
  <2> QED
    BY <1>2, FS_AddElement
<1>5. Calls!Count(s) = Cardinality(M)
  BY SameCardinality DEF Calls!Count
<1>6. Calls!Count(t) = Cardinality({i \in DOMAIN t : t[i].command \in Mutating})
  BY SameCardinality DEF Calls!Count
<1> HIDE DEF M, t
<1>7. CASE x.command \in Mutating
  BY <1>3, <1>4, <1>5, <1>6, <1>7 DEF t
<1>8. CASE x.command \notin Mutating
  <2>1. {i \in DOMAIN t : t[i].command \in Mutating} = M
    BY <1>3, <1>8
  <2>2. Calls!Count(t) = Calls!Count(s)
    BY <1>5, <1>6, <2>1
  <2>3. Calls!Count(s) \in Nat
    BY <1>2, <1>5
  <2> QED
    BY <1>8, <2>2, <2>3 DEF t
<1> QED
  BY <1>7, <1>8

LEMMA CountOfNone == Calls!Count(<< >>) = 0
<1>1. {i \in DOMAIN << >> : << >>[i].command \in Mutating} = {}
  OBVIOUS
<1> QED
  BY <1>1, FS_EmptySet, SameCardinality DEF Calls!Count

\* What Return adds to the answers, when it does not close the client.
LEMMA ReturnedAnswer ==
  ASSUME PInv, VersionCounts, Return, ~Lost'
  PROVE  /\ command \in Commands /\ stage = "reading" /\ stage' = "idle"
         /\ answers' = Append(answers, [command |-> command, version |-> version'])
         /\ version' = Calls!Count(answers) + (IF command \in Mutating THEN 1 ELSE 0)
         /\ VersionCounts'
<1>1. /\ stage = "reading" /\ HasLine /\ stage' = "idle"
      /\ version' = Head(buffer).of.version
      /\ answers' = Append(answers, [command |-> command, version |-> Head(buffer).of.version])
  BY DEF Return, Shut, Lost
<1>2. command \in Commands /\ Answered
  BY <1>1, EmptySeq DEF PInv, Reading, Unanswered, Silent, HasLine
<1>3. Head(buffer).of = AnswerTo(command)
  <2>1. buffer \in Seq(OutPieces) /\ Len(buffer) \in Nat /\ DOMAIN buffer = 1..Len(buffer)
    BY LenProperties DEF PInv, TypeOK, OutPieces
  <2>2. 1 \in 1..Len(buffer) /\ Head(buffer) = buffer[1]
    BY <1>1, <2>1 DEF HasLine
  <2>3. buffer[1] = [of |-> AnswerTo(command), last |-> 1 = Pieces]
    BY <1>2, <2>1, <2>2 DEF Answered
  <2> QED
    BY <2>2, <2>3
<1>4. version' = served /\ served = version + (IF command \in Mutating THEN 1 ELSE 0)
  BY <1>1, <1>2, <1>3 DEF AnswerTo, Answered
<1>5. version' = Calls!Count(answers) + (IF command \in Mutating THEN 1 ELSE 0)
  BY <1>4 DEF VersionCounts
<1>6. VersionCounts'
  <2> DEFINE row == [command |-> command, version |-> version']
  <2>1. answers \in Seq(AnswerRows) /\ row \in AnswerRows /\ row.command = command
    BY <1>2, <1>4 DEF PInv, TypeOK, AnswerRows
  <2>2. answers' = Append(answers, row)
    BY <1>1
  <2> HIDE DEF row
  <2>3. Calls!Count(answers') = Calls!Count(answers) + (IF command \in Mutating THEN 1 ELSE 0)
    BY <2>1, <2>2, CountOfAppend
  <2> QED
    BY <1>5, <2>3 DEF VersionCounts
<1> QED
  BY <1>1, <1>2, <1>5, <1>6

\* Every other step leaves the answers and the version alone.
LEMMA AnswersChangeOnReturn ==
  ASSUME [Next]_vars, ~(Return /\ ~Lost')
  PROVE  UNCHANGED <<answers, version>>
BY DEF Next, Hash, Popen, Load, LoadFails, Install, Close, Kill, ClosePipes, Shut, Request, Write,
       Read, Return, GiveUp, Serve, Die, vars, pipes, Lost

\* The client is lost once.
LEMMA LostStaysLost ==
  ASSUME [Next]_vars, Lost
  PROVE  Lost'
BY DEF Next, Hash, Popen, Load, LoadFails, Install, Close, Kill, ClosePipes, Shut, Request, Write,
       Read, Return, GiveUp, Serve, Die, vars, pipes, Lost

LEMMA VersionCountsInit == Init => VersionCounts
BY CountOfNone DEF Init, VersionCounts

LEMMA VersionCountsStep == PInv /\ VersionCounts /\ [Next]_vars => VersionCounts'
<1> SUFFICES ASSUME PInv, VersionCounts, [Next]_vars PROVE VersionCounts'
  OBVIOUS
<1>1. CASE Return /\ ~Lost'
  BY <1>1, ReturnedAnswer
<1>2. CASE ~(Return /\ ~Lost')
  BY <1>2, AnswersChangeOnReturn DEF VersionCounts
<1> QED
  BY <1>1, <1>2

LEMMA InitIsAbstract == Init => Calls!Init
BY DEF Init, Calls!Init, Lost

LEMMA StepIsAbstract == PInv /\ VersionCounts /\ [Next]_vars => [Calls!Next]_(Calls!vars)
<1> SUFFICES ASSUME PInv, VersionCounts, [Next]_vars
             PROVE  Calls!Next \/ UNCHANGED Calls!vars
  OBVIOUS
<1>1. CASE Return /\ ~Lost'
  <2>1. Calls!Answer
    BY <1>1, ReturnedAnswer DEF Calls!Answer, Lost
  <2> QED
    BY <2>1 DEF Calls!Next
<1>2. CASE ~(Return /\ ~Lost') /\ ~Lost /\ Lost'
  <2>1. Calls!Lose
    BY <1>2, AnswersChangeOnReturn DEF Calls!Lose, Lost
  <2> QED
    BY <2>1 DEF Calls!Next
<1>3. CASE ~(Return /\ ~Lost') /\ ~(~Lost /\ Lost')
  BY <1>3, AnswersChangeOnReturn, LostStaysLost DEF Calls!vars, Lost
<1> QED
  BY <1>1, <1>2, <1>3

\* The pipes, pieces, deadlines and deaths look like an engine that answers in order
\* until it is lost (engine.py:66-120).
THEOREM ClientAnswersInOrder == Spec => AnswersInOrder
<1>1. Spec => [](PInv /\ VersionCounts)
  <2>1. Spec => []VersionCounts
    BY VersionCountsInit, VersionCountsStep, PipesInvariant, PTL DEF Spec
  <2> QED
    BY <2>1, PipesInvariant, PTL
<1> QED
  BY <1>1, InitIsAbstract, StepIsAbstract, PTL DEF Spec, AnswersInOrder, Calls!Spec

-------------------------------------------------------------------------------
(***************************************************************************)
(* The event stream.  What a text means is read off its ends; the lemmas   *)
(* say how that changes from one end to the next, and that it does not     *)
(* change when the text grows.                                             *)
(***************************************************************************)
\* Numbers in their order

LEMMA AscendingNone == Ascending({}) = << >>
BY FS_EmptySet DEF Ascending

\* The list of a set is as long as the set, and its n-th member is the one that ends
\* the first n.
LEMMA AscendingSeq ==
  ASSUME NEW S, IsFiniteSet(S)
  PROVE  /\ Cardinality(S) \in Nat
         /\ DOMAIN Ascending(S) = 1..Cardinality(S)
         /\ Len(Ascending(S)) = Cardinality(S)
         /\ \E T : Ascending(S) \in Seq(T)
<1>1. Cardinality(S) \in Nat
  BY FS_CardinalityType
<1>2. PICK N \in Nat : N = Cardinality(S)
  BY <1>1
<1>3. PICK o : o = Ascending(S)
  OBVIOUS
<1>4. DOMAIN o = 1..N /\ o = [n \in 1..N |-> o[n]]
  BY <1>2, <1>3 DEF Ascending
<1> DEFINE T == {o[n] : n \in 1..N}
<1>5. o \in [1..N -> T]
  BY <1>4
<1>6. o \in Seq(T)
  BY <1>5, SeqDef
<1>7. Len(o) = N
  BY <1>4, <1>6, LenProperties
<1> QED
  BY <1>1, <1>2, <1>3, <1>4, <1>6, <1>7

\* A number greater than all others comes last.
LEMMA AscendingAppend ==
  ASSUME NEW S \in SUBSET Nat, IsFiniteSet(S), NEW i \in Nat, \A k \in S : k < i
  PROVE  Ascending(S \cup {i}) = Append(Ascending(S), i)
<1> DEFINE U == S \cup {i}
<1>1. PICK N \in Nat : N = Cardinality(S)
  BY FS_CardinalityType
<1>2. IsFiniteSet(U) /\ Cardinality(U) = N + 1 /\ i \notin S
  BY <1>1, FS_AddElement
<1>3. ASSUME NEW k \in S PROVE {m \in U : m <= k} = {m \in S : m <= k}
  BY <1>3
<1>4. {m \in U : m <= i} = U
  <2>1. \A m \in U : m <= i
    OBVIOUS
  <2> QED
    BY <2>1
<1>5. ASSUME NEW k \in S PROVE /\ Cardinality({m \in S : m <= k}) \in Nat
                               /\ Cardinality({m \in S : m <= k}) <= N
  BY <1>1, <1>5, FS_Subset, FS_CardinalityType
<1>6. ASSUME NEW n \in 1..N PROVE Nth(U, n) = Nth(S, n)
  <2>1. Cardinality({m \in U : m <= i}) # n
    BY <1>2, <1>4, <1>6
  <2>2. \A k \in S : Cardinality({m \in U : m <= k}) = Cardinality({m \in S : m <= k})
    BY <1>3
  <2> QED
    BY <2>1, <2>2 DEF Nth
<1>7. Nth(U, N + 1) = {i}
  <2>1. Cardinality({m \in U : m <= i}) = N + 1
    BY <1>2, <1>4
  <2>2. \A k \in S : Cardinality({m \in U : m <= k}) # N + 1
    BY <1>1, <1>3, <1>5
  <2> QED
    BY <2>1, <2>2 DEF Nth
<1>8. Ascending(U) = [n \in 1..(N + 1) |-> CHOOSE k \in Nth(U, n) : TRUE]
  BY <1>2 DEF Ascending
<1>9. Ascending(S) = [n \in 1..N |-> CHOOSE k \in Nth(S, n) : TRUE]
  BY <1>1 DEF Ascending
<1>10. PICK o : o = Ascending(S)
  OBVIOUS
<1>11. PICK T : o \in Seq(T) /\ Len(o) = N
  BY <1>1, <1>10, AscendingSeq
<1>12. o \in Seq(T \cup {i})
  BY <1>11, SeqMonotonic
<1>13. PICK p : p = Append(o, i)
  OBVIOUS
<1>14. /\ p \in Seq(T \cup {i}) /\ Len(p) = N + 1
       /\ \A n \in 1..N : p[n] = o[n]
       /\ p[N + 1] = i
  BY <1>11, <1>12, <1>13, AppendProperties
<1>15. DOMAIN p = 1..(N + 1) /\ p = [n \in 1..(N + 1) |-> p[n]]
  BY <1>14, LenProperties
<1>16. \A n \in 1..N : p[n] = (CHOOSE k \in Nth(U, n) : TRUE)
  <2> SUFFICES ASSUME NEW n \in 1..N PROVE p[n] = (CHOOSE k \in Nth(U, n) : TRUE)
    OBVIOUS
  <2>1. p[n] = (CHOOSE k \in Nth(S, n) : TRUE)
    BY <1>9, <1>10, <1>14
  <2> QED
    BY <1>6, <2>1
<1>17. (CHOOSE k \in Nth(U, N + 1) : TRUE) = i
  BY <1>7
<1>18. \A n \in 1..(N + 1) : p[n] = (CHOOSE k \in Nth(U, n) : TRUE)
  <2>1. p[N + 1] = (CHOOSE k \in Nth(U, N + 1) : TRUE)
    BY <1>14, <1>17
  <2>2. \A n \in 1..(N + 1) : n \in 1..N \/ n = N + 1
    OBVIOUS
  <2> HIDE DEF U
  <2> QED
    BY <1>16, <2>1, <2>2
<1> QED
  BY <1>8, <1>10, <1>13, <1>15, <1>18

\* The list holds members of the set only.
LEMMA AscendingIn ==
  ASSUME NEW L \in Nat, NEW S \in SUBSET (1..L)
  PROVE  /\ IsFiniteSet(S)
         /\ \A n \in DOMAIN Ascending(S) : Ascending(S)[n] \in S
<1> DEFINE Good(U) == \A n \in DOMAIN Ascending(U) : Ascending(U)[n] \in U
           A == {n \in Nat : \A U \in SUBSET (1..n) : Good(U)}
<1>1. 0 \in A
  <2>1. \A U \in SUBSET (1..0) : U = {}
    OBVIOUS
  <2>2. Good({})
    BY AscendingNone
  <2> QED
    BY <2>1, <2>2
<1>2. ASSUME NEW n \in Nat, n \in A PROVE n + 1 \in A
  <2> SUFFICES ASSUME NEW U \in SUBSET (1..(n + 1)) PROVE Good(U)
    OBVIOUS
  <2>1. CASE n + 1 \notin U
    <3>1. U \in SUBSET (1..n)
      BY <2>1
    <3> QED
      BY <1>2, <3>1
  <2>2. CASE n + 1 \in U
    <3>1. PICK V : V = U \ {n + 1}
      OBVIOUS
    <3>2. V \in SUBSET (1..n) /\ U = V \cup {n + 1}
      BY <2>2, <3>1
    <3>3. IsFiniteSet(V)
      <4>1. IsFiniteSet(1..n)
        BY FS_Interval
      <4> QED
        BY <3>2, <4>1, FS_Subset
    <3>4. Good(V)
      BY <1>2, <3>2
    <3>5. Ascending(U) = Append(Ascending(V), n + 1)
      BY <3>2, <3>3, AscendingAppend
    <3>6. PICK o : o = Ascending(V)
      OBVIOUS
    <3>7. PICK N \in Nat : N = Cardinality(V) /\ DOMAIN o = 1..N /\ Len(o) = N
      BY <3>3, <3>6, AscendingSeq
    <3>8. PICK T : o \in Seq(T)
      BY <3>3, <3>6, AscendingSeq
    <3>9. o \in Seq(T \cup {n + 1})
      BY <3>8, SeqMonotonic
    <3>10. PICK p : p = Append(o, n + 1)
      OBVIOUS
    <3>11. /\ p \in Seq(T \cup {n + 1}) /\ Len(p) = N + 1
           /\ \A k \in 1..N : p[k] = o[k]
           /\ p[N + 1] = n + 1
      BY <3>7, <3>9, <3>10, AppendProperties
    <3>12. DOMAIN p = 1..(N + 1)
      BY <3>11, LenProperties
    <3>13. \A k \in 1..(N + 1) : p[k] \in U
      BY <3>2, <3>4, <3>6, <3>7, <3>11
    <3> QED
      BY <3>5, <3>6, <3>10, <3>12, <3>13
  <2> QED
    BY <2>1, <2>2
<1> HIDE DEF A
<1>3. L \in A
  BY <1>1, <1>2, Induction
<1>4. IsFiniteSet(1..L)
  BY FS_Interval
<1> QED
  BY <1>3, <1>4, FS_Subset DEF A

-------------------------------------------------------------------------------
\* A text, and a longer one that begins with it

\* The ends and the skipped symbols of a text are among its positions.
LEMMA TextFacts ==
  ASSUME NEW t \in Seq(Symbols)
  PROVE  /\ Len(t) \in Nat /\ DOMAIN t = 1..Len(t)
         /\ \A k \in 1..Len(t) : t[k] \in Symbols
         /\ Ends(t) \subseteq 1..Len(t) /\ IsFiniteSet(Ends(t))
         /\ Skipped(t) \subseteq 2..Len(t)
         /\ Blanks(t) \subseteq Ends(t)
         /\ \A i \in Ends(t) : t[i] \in {CR, LF} /\ i \notin Skipped(t)
<1>1. Len(t) \in Nat /\ DOMAIN t = 1..Len(t) /\ \A k \in 1..Len(t) : t[k] \in Symbols
  BY LenProperties, ElementOfSeq
<1>2. Ends(t) \subseteq 1..Len(t)
  BY <1>1 DEF Ends
<1>3. IsFiniteSet(1..Len(t))
  BY <1>1, FS_Interval
<1> QED
  BY <1>1, <1>2, <1>3, FS_Subset DEF Ends, Skipped, Blanks

Starts(u, t) ==
  /\ t \in Seq(Symbols) /\ u \in Seq(Symbols)
  /\ Len(t) <= Len(u)
  /\ \A k \in 1..Len(t) : u[k] = t[k]

\* A longer text has the same ends up to there,
LEMMA SameEnds ==
  ASSUME NEW t, NEW u, Starts(u, t)
  PROVE  /\ \A k \in 1..Len(t) : k \in Skipped(u) <=> k \in Skipped(t)
         /\ \A k \in 1..Len(t) : k \in Ends(u) <=> k \in Ends(t)
<1>1. /\ Len(t) \in Nat /\ Len(u) \in Nat /\ Len(t) <= Len(u)
      /\ DOMAIN t = 1..Len(t) /\ DOMAIN u = 1..Len(u)
      /\ \A k \in 1..Len(t) : u[k] = t[k]
  BY TextFacts DEF Starts
<1>2. \A k \in 1..Len(t) : k \in Skipped(u) <=> k \in Skipped(t)
  BY <1>1 DEF Skipped
<1> QED
  BY <1>1, <1>2 DEF Ends

\* The line that ends at i is a part of the text before i.
LineSet(t, i) ==
  {k \in 1..(i - 1) : k \notin Skipped(t) /\ \A e \in {e \in Ends(t) : e < i} : e < k}
TextOf(t, i, n) == [k \in 1..n |-> t[i - n + k - 1]]

\* The line, with its length named.
LEMMA LineUnfolds ==
  ASSUME NEW t, NEW i
  PROVE  LineAt(t, i) = IF {e \in Ends(t) : e < i} = {}
                        THEN WithoutMark(TextOf(t, i, Cardinality(LineSet(t, i))))
                        ELSE TextOf(t, i, Cardinality(LineSet(t, i)))
BY DEF LineAt, LineSet, TextOf

\* A line is not longer than the text before its end.
LEMMA LineLength ==
  ASSUME NEW t, NEW i \in Nat \ {0}
  PROVE  Cardinality(LineSet(t, i)) \in 0..(i - 1)
<1>1. IsFiniteSet(1..(i - 1)) /\ Cardinality(1..(i - 1)) = i - 1
  BY FS_Interval
<1>2. LineSet(t, i) \in SUBSET (1..(i - 1))
  BY DEF LineSet
<1> QED
  BY <1>1, <1>2, FS_Subset, FS_CardinalityType

\* and the same lines,
LEMMA SameLine ==
  ASSUME NEW t, NEW u, Starts(u, t), NEW i \in 1..Len(t)
  PROVE  LineAt(u, i) = LineAt(t, i)
<1>1. /\ Len(t) \in Nat /\ Len(u) \in Nat /\ Len(t) <= Len(u)
      /\ Ends(t) \subseteq 1..Len(t) /\ Ends(u) \subseteq 1..Len(u)
      /\ \A k \in 1..Len(t) : u[k] = t[k]
  BY TextFacts DEF Starts
<1>2. {e \in Ends(u) : e < i} = {e \in Ends(t) : e < i}
  BY <1>1, SameEnds
<1>3. LineSet(u, i) = LineSet(t, i)
  BY <1>1, <1>2, SameEnds DEF LineSet
<1>4. PICK n : n = Cardinality(LineSet(t, i))
  OBVIOUS
<1>5. n \in 0..(i - 1)
  BY <1>1, <1>4, LineLength
<1>6. TextOf(u, i, n) = TextOf(t, i, n)
  <2>1. \A k \in 1..n : i - n + k - 1 \in 1..Len(t)
    BY <1>1, <1>5
  <2> QED
    BY <1>1, <2>1 DEF TextOf
<1> QED
  BY <1>2, <1>3, <1>4, <1>6, LineUnfolds

\* and the same frames and faults.
LEMMA SameFrame ==
  ASSUME NEW t, NEW u, Starts(u, t), NEW i \in 1..Len(t)
  PROVE  /\ i \in Blanks(u) <=> i \in Blanks(t)
         /\ FrameLines(u, i) = FrameLines(t, i)
         /\ DataLines(u, i) = DataLines(t, i)
         /\ FrameSize(u, i) = FrameSize(t, i)
         /\ i \in Faults(u) <=> i \in Faults(t)
<1>1. /\ Len(t) \in Nat /\ Len(u) \in Nat /\ Len(t) <= Len(u)
      /\ Ends(t) \subseteq 1..Len(t) /\ Ends(u) \subseteq 1..Len(u)
  BY TextFacts DEF Starts
<1>2. \A k \in 1..Len(t) : LineAt(u, k) = LineAt(t, k)
  BY SameLine
<1>3. \A k \in 1..Len(t) : k \in Ends(u) <=> k \in Ends(t)
  BY SameEnds
<1>4. \A k \in 1..Len(t) : k \in Blanks(u) <=> k \in Blanks(t)
  BY <1>2, <1>3 DEF Blanks
<1>5. {b \in Blanks(u) : b < i} = {b \in Blanks(t) : b < i}
  BY <1>1, <1>4 DEF Blanks
<1>6. FrameLines(u, i) = FrameLines(t, i)
  BY <1>1, <1>3, <1>5 DEF FrameLines
<1>7. \A k \in FrameLines(t, i) : k \in 1..Len(t) /\ LineAt(u, k) = LineAt(t, k)
  BY <1>1, <1>2 DEF FrameLines
<1>8. DataLines(u, i) = DataLines(t, i)
  <2> DEFINE D == {k \in FrameLines(t, i) : IsData(t, k)}
  <2>1. {k \in FrameLines(u, i) : IsData(u, k)} = D
    BY <1>6, <1>7 DEF IsData
  <2>2. D \in SUBSET (1..Len(t))
    BY <1>7
  <2>3. \A n \in DOMAIN Ascending(D) : LineAt(u, Ascending(D)[n]) = LineAt(t, Ascending(D)[n])
    BY <1>1, <1>7, <2>2, AscendingIn
  <2> HIDE DEF D
  <2>4. DataLines(t, i) = [n \in DOMAIN Ascending(D) |-> Tail(LineAt(t, Ascending(D)[n]))]
    BY DEF DataLines, D
  <2>5. DataLines(u, i) = [n \in DOMAIN Ascending(D) |-> Tail(LineAt(u, Ascending(D)[n]))]
    BY <2>1 DEF DataLines
  <2> QED
    BY <2>3, <2>4, <2>5
<1>9. FrameSize(u, i) = FrameSize(t, i)
  BY <1>6, <1>7 DEF FrameSize
<1>10. i \in Faults(u) <=> i \in Faults(t)
  BY <1>3, <1>4, <1>8, <1>9 DEF Faults
<1> QED
  BY <1>4, <1>6, <1>8, <1>9, <1>10
-------------------------------------------------------------------------------
\* One line after the other.  c is the end of the last line that was taken, or 0,
\* and i the end of the next one.

LineStart(t, c) == IF c + 1 \in Skipped(t) THEN c + 2 ELSE c + 1

OpenData(t, c) == IF c = 0 \/ c \in Blanks(t) THEN << >> ELSE DataLines(t, c)
OpenSize(t, c) == IF c = 0 \/ c \in Blanks(t) THEN 0 ELSE FrameSize(t, c)
Wholes(t, c) == {b \in Blanks(t) : b <= c /\ DataLines(t, b) # << >>}
InFrames(t, S) == LET order == Ascending(S) IN [n \in DOMAIN order |-> DataLines(t, order[n])]

EndOrNone(t, c) == t \in Seq(Symbols) /\ c \in {0} \cup Ends(t)

Follows(t, c, i) ==
  /\ EndOrNone(t, c)
  /\ i \in Ends(t) /\ c < i
  /\ \A e \in Ends(t) : e <= c \/ i <= e

\* A line starts after the end before it, or one symbol later, after the LF of a CRLF.
LEMMA StartFacts ==
  ASSUME NEW t, NEW c, EndOrNone(t, c)
  PROVE  /\ Len(t) \in Nat /\ c \in 0..Len(t)
         /\ LineStart(t, c) \in (c + 1)..(Len(t) + 1)
         /\ LineStart(t, c) # c + 1 => LineStart(t, c) = c + 2
         /\ \A k \in (c + 1)..(LineStart(t, c) - 1) : k = c + 1 /\ k \in Skipped(t)
BY TextFacts DEF EndOrNone, LineStart

\* Nothing that stands between two ends, and is not skipped, is an LF after a CR.
LEMMA NoSkips ==
  ASSUME NEW t, NEW c, EndOrNone(t, c), NEW n \in 0..Len(t),
         \A e \in Ends(t) : e <= c \/ n < e
  PROVE  \A k \in LineStart(t, c)..n : k \notin Skipped(t) /\ k \notin Ends(t) /\ k \in 1..Len(t)
<1>1. /\ Len(t) \in Nat /\ c \in 0..Len(t) /\ DOMAIN t = 1..Len(t)
      /\ LineStart(t, c) \in (c + 1)..(Len(t) + 1)
  BY StartFacts, TextFacts DEF EndOrNone
<1> SUFFICES ASSUME NEW k \in LineStart(t, c)..n
             PROVE  k \notin Skipped(t) /\ k \notin Ends(t) /\ k \in 1..Len(t)
  OBVIOUS
<1>2. k \in 1..Len(t) /\ c < k /\ k <= n
  BY <1>1
<1>3. k \notin Ends(t)
  BY <1>2, TextFacts DEF EndOrNone
<1>4. ASSUME k \in Skipped(t) PROVE FALSE
  <2>1. t[k] = LF /\ t[k - 1] = CR /\ k - 1 \in 1..Len(t)
    BY <1>1, <1>4 DEF Skipped
  <2>2. k # c + 1
    BY <1>1, <1>4 DEF LineStart
  <2>3. k - 1 \notin Skipped(t)
    BY <2>1 DEF Skipped, CR, LF
  <2>4. k - 1 \in Ends(t)
    BY <1>1, <2>1, <2>3 DEF Ends
  <2> QED
    BY <1>1, <1>2, <2>2, <2>4, TextFacts DEF EndOrNone
<1> QED
  BY <1>2, <1>3, <1>4

\* A byte order mark is one symbol.
LEMMA UnmarkedSeq ==
  ASSUME NEW s \in Seq(Symbols)
  PROVE  /\ WithoutMark(s) \in Seq(Symbols)
         /\ Len(WithoutMark(s)) \in Nat /\ Len(WithoutMark(s)) + 1 >= Len(s)
BY HeadTailProperties, LenProperties DEF WithoutMark

\* The next line is all that stands between its start and its end, and a mark is
\* taken off the first one only.
LEMMA NextLine ==
  ASSUME NEW t, NEW c, NEW i, Follows(t, c, i)
  PROVE  /\ LineStart(t, c) <= i
         /\ LineAt(t, i) = IF c = 0 THEN WithoutMark(SubSeq(t, LineStart(t, c), i - 1))
                           ELSE SubSeq(t, LineStart(t, c), i - 1)
         /\ SubSeq(t, LineStart(t, c), i - 1) \in Seq(Symbols)
         /\ Len(SubSeq(t, LineStart(t, c), i - 1)) = i - LineStart(t, c)
         /\ LineAt(t, i) \in Seq(Symbols)
         /\ Len(LineAt(t, i)) \in Nat /\ Len(LineAt(t, i)) + 1 >= i - LineStart(t, c)
<1>1. /\ EndOrNone(t, c) /\ i \in Ends(t) /\ c < i
      /\ \A e \in Ends(t) : e <= c \/ i <= e
  BY DEF Follows
<1>2. /\ Len(t) \in Nat /\ c \in 0..Len(t) /\ i \in 1..Len(t)
      /\ i \notin Skipped(t) /\ Ends(t) \subseteq 1..Len(t)
      /\ \A k \in 1..Len(t) : t[k] \in Symbols
  BY <1>1, StartFacts, TextFacts DEF EndOrNone
<1>3. PICK m : m = LineStart(t, c)
  OBVIOUS
<1>4. m \in (c + 1)..i
  BY <1>1, <1>2, <1>3 DEF LineStart
<1>5. \A k \in m..(i - 1) : k \notin Skipped(t)
  <2>1. \A e \in Ends(t) : e <= c \/ i - 1 < e
    BY <1>1, <1>2
  <2> QED
    BY <1>1, <1>2, <1>3, <2>1, NoSkips
<1>6. {e \in Ends(t) : e < i} = {} <=> c = 0
  BY <1>1, <1>2 DEF EndOrNone
<1>7. LineSet(t, i) = m..(i - 1)
  <2>1. ASSUME NEW k \in LineSet(t, i) PROVE k \in m..(i - 1)
    <3>1. k \in 1..(i - 1) /\ k \notin Skipped(t) /\ \A e \in Ends(t) : e < i => e < k
      BY DEF LineSet
    <3>2. c < k
      BY <1>1, <1>2, <3>1 DEF EndOrNone
    <3>3. k # c + 1 \/ m = c + 1
      BY <1>3, <3>1 DEF LineStart
    <3> QED
      BY <1>1, <1>2, <1>3, <3>1, <3>2, <3>3, StartFacts
  <2>2. ASSUME NEW k \in m..(i - 1) PROVE k \in LineSet(t, i)
    BY <1>1, <1>2, <1>4, <1>5 DEF LineSet
  <2> QED
    BY <2>1, <2>2
<1>8. Cardinality(LineSet(t, i)) = i - m
  <2>1. m \in Int /\ i - 1 \in Int /\ m <= i
    BY <1>2, <1>4
  <2>2. Cardinality(m..(i - 1)) = IF m > i - 1 THEN 0 ELSE i - 1 - m + 1
    BY <2>1, FS_Interval
  <2> QED
    BY <1>2, <1>7, <2>1, <2>2
<1>9. PICK s : s = SubSeq(t, m, i - 1)
  OBVIOUS
<1>10. s \in Seq(Symbols) /\ Len(s) = i - m /\ \A k \in 1..(i - m) : s[k] = t[m + k - 1]
  BY <1>2, <1>4, <1>9, SubSeqProperties
<1>11. TextOf(t, i, i - m) = s
  <2>1. DOMAIN s = 1..(i - m) /\ s = [k \in 1..(i - m) |-> s[k]]
    BY <1>10, LenProperties
  <2>2. \A k \in 1..(i - m) : i - (i - m) + k - 1 = m + k - 1
    BY <1>2, <1>4
  <2> QED
    BY <1>10, <2>1, <2>2 DEF TextOf
<1>12. LineAt(t, i) = IF c = 0 THEN WithoutMark(s) ELSE s
  BY <1>6, <1>8, <1>11, LineUnfolds
<1>13. /\ LineAt(t, i) \in Seq(Symbols) /\ Len(LineAt(t, i)) \in Nat
       /\ Len(LineAt(t, i)) + 1 >= i - m
  BY <1>2, <1>4, <1>10, <1>12, UnmarkedSeq
<1> QED
  BY <1>2, <1>3, <1>4, <1>9, <1>10, <1>12, <1>13

\* Every end follows another one, or is the first.
LEMMA FollowsOne ==
  ASSUME NEW t \in Seq(Symbols), NEW i \in Ends(t)
  PROVE  \E c : Follows(t, c, i)
<1>1. Len(t) \in Nat /\ Ends(t) \subseteq 1..Len(t)
  BY TextFacts
<1> DEFINE T == {d \in Nat : \E e \in {0} \cup Ends(t) : e < i /\ d = i - e}
<1>2. i \in T
  BY <1>1
<1>3. PICK d \in T : \A k \in T : d <= k
  BY <1>2, LeastNatural
<1>4. PICK c \in {0} \cup Ends(t) : c < i /\ d = i - c
  BY <1>3
<1>5. ASSUME NEW e \in Ends(t), e < i PROVE e <= c
  <2>1. i - e \in T
    BY <1>1, <1>5
  <2> QED
    BY <1>1, <1>3, <1>4, <1>5, <2>1
<1> QED
  BY <1>1, <1>4, <1>5 DEF Follows, EndOrNone

\* A line is a text.
LEMMA LineType ==
  ASSUME NEW t \in Seq(Symbols), NEW i \in Ends(t)
  PROVE  LineAt(t, i) \in Seq(Symbols) /\ Len(LineAt(t, i)) \in Nat
BY FollowsOne, NextLine

\* A line after a blank one, or the first, begins a frame; any other extends it.
LEMMA NextFrame ==
  ASSUME NEW t, NEW c, NEW i, Follows(t, c, i)
  PROVE  /\ c = 0 \/ c \in Blanks(t) => FrameLines(t, i) = {i}
         /\ ~(c = 0 \/ c \in Blanks(t)) => /\ FrameLines(t, i) = FrameLines(t, c) \cup {i}
                                           /\ \A k \in FrameLines(t, c) : k < i
<1>1. /\ EndOrNone(t, c) /\ i \in Ends(t) /\ c < i
      /\ \A e \in Ends(t) : e <= c \/ i <= e
  BY DEF Follows
<1>2. /\ Len(t) \in Nat /\ Ends(t) \subseteq 1..Len(t) /\ Blanks(t) \subseteq Ends(t)
      /\ c \in 0..Len(t) /\ i \in 1..Len(t) /\ (c = 0 \/ c \in Ends(t))
  BY <1>1, TextFacts, StartFacts DEF EndOrNone
<1>3. \A k \in Ends(t) : k <= i => k <= c \/ k = i
  BY <1>1, <1>2
<1>4. i \in FrameLines(t, i)
  BY <1>1, <1>2 DEF FrameLines
<1>5. CASE c = 0
  BY <1>1, <1>2, <1>3, <1>4, <1>5 DEF FrameLines
<1>6. CASE c \in Blanks(t)
  <2>1. \A k \in FrameLines(t, i) : c < k /\ k \in Ends(t) /\ k <= i
    BY <1>1, <1>6 DEF FrameLines
  <2> QED
    BY <1>1, <1>2, <1>3, <1>4, <1>6, <2>1
<1>7. CASE c # 0 /\ c \notin Blanks(t)
  <2>1. \A b \in Blanks(t) : b < i <=> b < c
    BY <1>1, <1>2, <1>7
  <2>2. {b \in Blanks(t) : b < i} = {b \in Blanks(t) : b < c}
    BY <2>1
  <2>3. \A k \in FrameLines(t, c) : k < i
    BY <1>1, <1>2 DEF FrameLines
  <2>4. ASSUME NEW k PROVE k \in FrameLines(t, i) <=> k \in FrameLines(t, c) \cup {i}
    BY <1>1, <1>2, <1>3, <1>4, <2>2 DEF FrameLines
  <2> QED
    BY <1>7, <2>3, <2>4
<1> QED
  BY <1>5, <1>6, <1>7

FrameFinite(t, i) == IsFiniteSet(FrameLines(t, i)) /\ FrameLines(t, i) \subseteq Ends(t)

\* A frame has finitely many lines.
LEMMA FramesAreFinite ==
  ASSUME NEW t \in Seq(Symbols), NEW i
  PROVE  FrameFinite(t, i)
BY TextFacts, FS_Subset DEF FrameFinite, FrameLines

\* The size of a frame is a number.
LEMMA FrameSizes ==
  ASSUME NEW t \in Seq(Symbols), NEW i
  PROVE  FrameSize(t, i) \in Nat
<1> DEFINE w == [k \in FrameLines(t, i) |-> Len(LineAt(t, k)) + 1]
<1>1. IsFiniteSet(FrameLines(t, i)) /\ \A k \in FrameLines(t, i) : w[k] \in Nat
  BY FramesAreFinite, LineType DEF FrameFinite
<1> HIDE DEF w
<1>2. SumFunctionOnSet(w, FrameLines(t, i)) \in Nat
  BY <1>1, SumType
<1> QED
  BY <1>2 DEF FrameSize, w

\* A line adds its length, and one for its end, to the frame that is open.
LEMMA NextSize ==
  ASSUME NEW t, NEW c, NEW i, Follows(t, c, i)
  PROVE  /\ OpenSize(t, c) \in Nat
         /\ FrameSize(t, i) = OpenSize(t, c) + Len(LineAt(t, i)) + 1
<1>1. t \in Seq(Symbols) /\ i \in Ends(t)
  BY DEF Follows, EndOrNone
<1>2. OpenSize(t, c) \in Nat
  BY <1>1, FrameSizes DEF OpenSize
<1>3. PICK n \in Nat : n = Len(LineAt(t, i))
  BY NextLine
<1> DEFINE fresh == c = 0 \/ c \in Blanks(t)
<1>4. PICK S : S = IF fresh THEN {} ELSE FrameLines(t, c)
  OBVIOUS
<1>5. /\ IsFiniteSet(S) /\ S \subseteq Ends(t) /\ i \notin S
      /\ FrameLines(t, i) = S \cup {i}
  BY <1>1, <1>4, NextFrame, FramesAreFinite, FS_EmptySet, TextFacts DEF FrameFinite, Follows
<1>6. PICK w : w = [k \in S \cup {i} |-> Len(LineAt(t, k)) + 1]
  OBVIOUS
<1>7. PICK v : v = [k \in S |-> Len(LineAt(t, k)) + 1]
  OBVIOUS
<1>8. /\ \A k \in S : w[k] \in Nat /\ w[k] = v[k]
      /\ w[i] = n + 1
  BY <1>1, <1>3, <1>5, <1>6, <1>7, LineType
<1>9. FrameSize(t, i) = SumFunctionOnSet(w, S \cup {i})
  BY <1>5, <1>6 DEF FrameSize
<1>10. SumFunctionOnSet(w, S \cup {i}) = SumFunctionOnSet(w, S) + (n + 1)
  BY <1>3, <1>5, <1>8, SumAdds
<1>11. SumFunctionOnSet(w, S) = SumFunctionOnSet(v, S)
  BY <1>5, <1>8, SumAgrees
<1>12. SumFunctionOnSet(v, S) = OpenSize(t, c)
  <2>1. CASE fresh
    BY <1>4, <2>1, SumOfNone DEF OpenSize
  <2>2. CASE ~fresh
    BY <1>4, <1>7, <2>2 DEF OpenSize, FrameSize
  <2> QED
    BY <2>1, <2>2
<1> QED
  BY <1>2, <1>3, <1>9, <1>10, <1>11, <1>12

\* The ends of the data lines of a frame.
DataEnds(t, i) == {k \in FrameLines(t, i) : IsData(t, k)}

\* What stands at the numbers of a set, in their order, grows with the set.
LEMMA ListAppend ==
  ASSUME NEW S \in SUBSET Nat, IsFiniteSet(S), NEW i \in Nat, \A k \in S : k < i, NEW f
  PROVE  [n \in DOMAIN Ascending(S \cup {i}) |-> f[Ascending(S \cup {i})[n]]]
           = Append([n \in DOMAIN Ascending(S) |-> f[Ascending(S)[n]]], f[i])
<1>1. PICK o, p : o = Ascending(S) /\ p = Ascending(S \cup {i}) /\ p = Append(o, i)
  BY AscendingAppend
<1>2. PICK N \in Nat : N = Cardinality(S) /\ DOMAIN o = 1..N /\ Len(o) = N
  BY <1>1, AscendingSeq
<1>3. PICK T : o \in Seq(T)
  BY <1>1, AscendingSeq
<1>4. PICK W : o \in Seq(W) /\ i \in W
  <2>1. o \in Seq(T \cup {i}) /\ i \in T \cup {i}
    BY <1>3, SeqMonotonic
  <2> QED
    BY <2>1
<1>5. /\ p \in Seq(W) /\ Len(p) = N + 1
      /\ \A n \in 1..N : p[n] = o[n]
      /\ p[N + 1] = i
  <2>1. p = Append(o, i)
    BY <1>1
  <2>2. /\ p \in Seq(W) /\ Len(p) = Len(o) + 1
        /\ \A n \in 1..Len(o) : p[n] = o[n]
        /\ p[Len(o) + 1] = i
    BY <1>4, <2>1, AppendProperties
  <2> QED
    BY <1>2, <2>2
<1>6. DOMAIN p = 1..(N + 1)
  BY <1>5, LenProperties
<1> DEFINE a == [n \in 1..N |-> f[o[n]]]
           b == [n \in 1..(N + 1) |-> f[p[n]]]
           V == {f[k] : k \in Range(o)} \cup {f[i]}
<1>7. \A n \in 1..N : f[o[n]] \in V
  BY <1>2 DEF Range
<1>8. a \in [1..N -> V] /\ f[i] \in V
  BY <1>7
<1>9. a \in Seq(V) /\ Len(a) = N
  BY <1>8, SeqDef, LenProperties
<1>10. PICK q : q = Append(a, f[i])
  OBVIOUS
<1> HIDE DEF V
<1>11. /\ q \in Seq(V) /\ Len(q) = N + 1
       /\ \A n \in 1..N : q[n] = f[o[n]]
       /\ q[N + 1] = f[i]
  BY <1>8, <1>9, <1>10, AppendProperties
<1>12. DOMAIN q = 1..(N + 1) /\ q = [n \in 1..(N + 1) |-> q[n]]
  BY <1>11, LenProperties
<1>13. \A n \in 1..(N + 1) : q[n] = f[p[n]]
  <2>1. \A n \in 1..(N + 1) : n \in 1..N \/ n = N + 1
    OBVIOUS
  <2> QED
    BY <1>5, <1>11, <2>1
<1>14. q = b
  BY <1>12, <1>13
<1> QED
  BY <1>1, <1>2, <1>6, <1>10, <1>14

\* A data line is added to the frame that is open, any other line leaves it.
LEMMA NextData ==
  ASSUME NEW t, NEW c, NEW i, Follows(t, c, i)
  PROVE  DataLines(t, i) = IF IsData(t, i) THEN Append(OpenData(t, c), Tail(LineAt(t, i)))
                           ELSE OpenData(t, c)
<1>1. t \in Seq(Symbols) /\ i \in Ends(t) /\ Len(t) \in Nat /\ Ends(t) \subseteq 1..Len(t)
  BY TextFacts DEF Follows, EndOrNone
<1> DEFINE fresh == c = 0 \/ c \in Blanks(t)
<1>2. PICK S : S = IF fresh THEN {} ELSE DataEnds(t, c)
  OBVIOUS
<1>3. /\ IsFiniteSet(S) /\ S \subseteq 1..Len(t) /\ \A k \in S : k < i
      /\ DataEnds(t, i) = IF IsData(t, i) THEN S \cup {i} ELSE S
  <2>1. CASE fresh
    BY <1>1, <1>2, <2>1, NextFrame, FS_EmptySet DEF DataEnds
  <2>2. CASE ~fresh
    <3>1. IsFiniteSet(S)
      BY <1>1, <1>2, <2>2, FramesAreFinite, FS_Subset DEF DataEnds, FrameFinite
    <3>2. FrameLines(t, c) \subseteq 1..Len(t)
      BY <1>1, FramesAreFinite DEF FrameFinite
    <3> QED
      BY <1>2, <2>2, <3>1, <3>2, NextFrame DEF DataEnds
  <2> QED
    BY <2>1, <2>2
<1>4. PICK f : f = [k \in 1..Len(t) |-> Tail(LineAt(t, k))]
  OBVIOUS
<1>5. ASSUME NEW U \in SUBSET (1..Len(t))
      PROVE  [n \in DOMAIN Ascending(U) |-> Tail(LineAt(t, Ascending(U)[n]))]
               = [n \in DOMAIN Ascending(U) |-> f[Ascending(U)[n]]]
  BY <1>1, <1>4, AscendingIn
<1>6. PICK L : L = [U \in SUBSET (1..Len(t)) |-> [n \in DOMAIN Ascending(U) |-> f[Ascending(U)[n]]]]
  OBVIOUS
<1>7. DataLines(t, i) = L[DataEnds(t, i)]
  <2>1. DataEnds(t, i) \in SUBSET (1..Len(t))
    BY <1>1, FramesAreFinite DEF DataEnds, FrameFinite
  <2> QED
    BY <1>5, <1>6, <2>1 DEF DataLines, DataEnds
<1>8. OpenData(t, c) = L[S]
  <2>1. CASE fresh
    BY <1>2, <1>3, <1>6, <2>1, AscendingNone DEF OpenData
  <2>2. CASE ~fresh
    <3>1. S = DataEnds(t, c) /\ S \in SUBSET (1..Len(t))
      BY <1>2, <1>3, <2>2
    <3>2. OpenData(t, c) = [n \in DOMAIN Ascending(S) |-> Tail(LineAt(t, Ascending(S)[n]))]
      BY <2>2, <3>1 DEF OpenData, DataLines, DataEnds
    <3> QED
      BY <1>5, <1>6, <3>1, <3>2
  <2> QED
    BY <2>1, <2>2
<1>9. L[S \cup {i}] = Append(L[S], f[i])
  <2>1. S \in SUBSET Nat /\ i \in Nat
    BY <1>1, <1>3
  <2>2. [n \in DOMAIN Ascending(S \cup {i}) |-> f[Ascending(S \cup {i})[n]]]
           = Append([n \in DOMAIN Ascending(S) |-> f[Ascending(S)[n]]], f[i])
    BY <1>3, <2>1, ListAppend
  <2> QED
    BY <1>1, <1>3, <1>6, <2>2
<1> QED
  BY <1>1, <1>3, <1>4, <1>7, <1>8, <1>9

\* A blank line completes the frame that is open, if it has data.
LEMMA NextWhole ==
  ASSUME NEW t, NEW c, NEW i, Follows(t, c, i)
  PROVE  InFrames(t, Wholes(t, i))
           = IF i \in Blanks(t) /\ OpenData(t, c) # << >>
             THEN Append(InFrames(t, Wholes(t, c)), OpenData(t, c))
             ELSE InFrames(t, Wholes(t, c))
<1>1. /\ t \in Seq(Symbols) /\ i \in Ends(t) /\ Len(t) \in Nat /\ Ends(t) \subseteq 1..Len(t)
      /\ Blanks(t) \subseteq Ends(t) /\ c < i /\ \A e \in Ends(t) : e <= c \/ i <= e
      /\ c \in 0..Len(t)
  BY TextFacts, StartFacts DEF Follows, EndOrNone
<1>2. i \in Blanks(t) => DataLines(t, i) = OpenData(t, c)
  BY NextData DEF Blanks, IsData
<1>3. PICK S : S = Wholes(t, c)
  OBVIOUS
<1>4. S \in SUBSET (1..Len(t)) /\ IsFiniteSet(S) /\ \A k \in S : k < i
  <2>1. S \in SUBSET (1..Len(t)) /\ \A k \in S : k < i
    BY <1>1, <1>3 DEF Wholes
  <2> QED
    BY <1>1, <2>1, AscendingIn
<1>5. Wholes(t, i) = IF i \in Blanks(t) /\ OpenData(t, c) # << >> THEN S \cup {i} ELSE S
  <2>1. \A b \in Blanks(t) : b <= i <=> b <= c \/ b = i
    BY <1>1
  <2> QED
    BY <1>2, <1>3, <2>1 DEF Wholes
<1>6. PICK f : f = [k \in 1..Len(t) |-> DataLines(t, k)]
  OBVIOUS
<1>7. PICK L : L = [U \in SUBSET (1..Len(t)) |-> [n \in DOMAIN Ascending(U) |-> f[Ascending(U)[n]]]]
  OBVIOUS
<1>8. ASSUME NEW U \in SUBSET (1..Len(t)) PROVE InFrames(t, U) = L[U]
  BY <1>1, <1>6, <1>7, AscendingIn DEF InFrames
<1>9. L[S \cup {i}] = Append(L[S], f[i])
  <2>1. S \in SUBSET Nat /\ i \in Nat
    BY <1>1, <1>4
  <2>2. [n \in DOMAIN Ascending(S \cup {i}) |-> f[Ascending(S \cup {i})[n]]]
           = Append([n \in DOMAIN Ascending(S) |-> f[Ascending(S)[n]]], f[i])
    BY <1>4, <2>1, ListAppend
  <2> QED
    BY <1>1, <1>4, <1>7, <2>2
<1>10. f[i] = DataLines(t, i)
  BY <1>1, <1>6
<1>11. S \cup {i} \in SUBSET (1..Len(t))
  BY <1>1, <1>4
<1>12. InFrames(t, S) = L[S] /\ InFrames(t, S \cup {i}) = L[S \cup {i}]
  BY <1>4, <1>8, <1>11
<1> QED
  BY <1>2, <1>3, <1>5, <1>9, <1>10, <1>12

\* What is known of a text does not change when it grows.
LEMMA SameState ==
  ASSUME NEW t, NEW u, Starts(u, t), NEW c, EndOrNone(t, c)
  PROVE  /\ EndOrNone(u, c)
         /\ OpenData(u, c) = OpenData(t, c)
         /\ OpenSize(u, c) = OpenSize(t, c)
         /\ InFrames(u, Wholes(u, c)) = InFrames(t, Wholes(t, c))
         /\ (\A f \in Faults(u) : f > c) <=> (\A f \in Faults(t) : f > c)
<1>1. /\ Len(t) \in Nat /\ Len(u) \in Nat /\ Len(t) <= Len(u) /\ c \in 0..Len(t)
      /\ Blanks(t) \subseteq 1..Len(t) /\ Blanks(u) \subseteq 1..Len(u)
      /\ Faults(t) \subseteq 1..Len(t) /\ Faults(u) \subseteq 1..Len(u)
  BY TextFacts, StartFacts DEF Starts, Faults
<1>2. EndOrNone(u, c)
  BY <1>1, SameEnds DEF EndOrNone, Starts
<1>3. OpenData(u, c) = OpenData(t, c) /\ OpenSize(u, c) = OpenSize(t, c)
  BY <1>1, SameFrame DEF OpenData, OpenSize
<1>4. Wholes(u, c) = Wholes(t, c)
  <2>1. \A b \in 1..Len(t) : /\ b \in Blanks(u) <=> b \in Blanks(t)
                            /\ DataLines(u, b) = DataLines(t, b)
    BY SameFrame
  <2>2. \A b \in 1..Len(u) : b <= c => b \in 1..Len(t)
    BY <1>1
  <2> QED
    BY <1>1, <2>1, <2>2 DEF Wholes
<1>5. PICK S : S = Wholes(t, c)
  OBVIOUS
<1>6. S \in SUBSET (1..Len(t))
  BY <1>1, <1>5 DEF Wholes
<1>7. \A n \in DOMAIN Ascending(S) : DataLines(u, Ascending(S)[n]) = DataLines(t, Ascending(S)[n])
  BY <1>1, <1>6, AscendingIn, SameFrame
<1>8. InFrames(u, S) = InFrames(t, S)
  BY <1>7 DEF InFrames
<1>9. (\A f \in Faults(u) : f > c) <=> (\A f \in Faults(t) : f > c)
  <2>1. \A f \in 1..Len(t) : f \in Faults(u) <=> f \in Faults(t)
    BY SameFrame
  <2>2. \A f \in 1..Len(u) : f > c \/ f \in 1..Len(t)
    BY <1>1
  <2> QED
    BY <1>1, <2>1, <2>2
<1> QED
  BY <1>2, <1>3, <1>4, <1>5, <1>8, <1>9

\* What is open after the last end.
LEMMA OpenAtEnd ==
  ASSUME NEW t, NEW c, EndOrNone(t, c), \A e \in Ends(t) : e <= c
  PROVE  /\ SubSeq(t, LineStart(t, c), Len(t)) \in Seq(Symbols)
         /\ Len(SubSeq(t, LineStart(t, c), Len(t))) = Cardinality(OpenLine(t))
         /\ Cardinality(OpenLine(t)) \in Nat
         /\ OpenLine(t) = {} <=> SubSeq(t, LineStart(t, c), Len(t)) = << >>
         /\ OpenFrame(t) = {} <=> OpenData(t, c) = << >>
<1>1. /\ t \in Seq(Symbols) /\ Len(t) \in Nat /\ DOMAIN t = 1..Len(t)
      /\ \A k \in 1..Len(t) : t[k] \in Symbols
      /\ Ends(t) \subseteq 1..Len(t) /\ Blanks(t) \subseteq Ends(t)
      /\ c \in 0..Len(t) /\ (c = 0 \/ c \in Ends(t))
  BY TextFacts, StartFacts DEF EndOrNone
<1>2. PICK m \in (c + 1)..(Len(t) + 1) : m = LineStart(t, c)
  BY StartFacts
<1>3. OpenLine(t) = m..Len(t)
  <2>1. \A k \in m..Len(t) : k \notin Skipped(t)
    BY <1>1, <1>2, NoSkips
  <2>2. \A k \in (c + 1)..(m - 1) : k \in Skipped(t)
    BY <1>2, StartFacts
  <2>3. \A k \in 1..Len(t) : (\A e \in Ends(t) : e < k) <=> c < k
    BY <1>1
  <2>4. \A k \in 1..Len(t) : k \in OpenLine(t) <=> c < k /\ k \notin Skipped(t)
    BY <1>1, <2>3 DEF OpenLine
  <2>5. OpenLine(t) \subseteq 1..Len(t)
    BY <1>1 DEF OpenLine
  <2>6. \A k \in 1..Len(t) : k \in OpenLine(t) <=> m <= k
    BY <1>1, <1>2, <2>1, <2>2, <2>4
  <2>7. m..Len(t) \subseteq 1..Len(t) /\ \A k \in 1..Len(t) : k \in m..Len(t) <=> m <= k
    BY <1>1, <1>2
  <2> QED
    BY <2>5, <2>6, <2>7
<1>4. PICK s : s = SubSeq(t, m, Len(t))
  OBVIOUS
<1>5. s \in Seq(Symbols) /\ Len(s) = IF m <= Len(t) THEN Len(t) - m + 1 ELSE 0
  BY <1>1, <1>2, <1>4, SubSeqProperties
<1>6. Len(s) = Cardinality(OpenLine(t)) /\ Cardinality(OpenLine(t)) \in Nat
  <2>1. m \in Int /\ Len(t) \in Int
    BY <1>1, <1>2
  <2>2. Cardinality(m..Len(t)) = IF m > Len(t) THEN 0 ELSE Len(t) - m + 1
    BY <2>1, FS_Interval
  <2> QED
    BY <1>1, <1>2, <1>3, <1>5, <2>2
<1>7. OpenLine(t) = {} <=> s = << >>
  BY <1>1, <1>2, <1>3, <1>5, EmptySeq
<1>8. OpenFrame(t) = {} <=> OpenData(t, c) = << >>
  <2>1. CASE c = 0
    BY <1>1, <2>1 DEF OpenFrame, OpenData
  <2>2. CASE c \in Blanks(t)
    BY <1>1, <2>2 DEF OpenFrame, OpenData
  <2>3. CASE c # 0 /\ c \notin Blanks(t)
    <3>1. \A b \in Blanks(t) : b < c
      BY <1>1, <2>3
    <3>2. OpenFrame(t) = DataEnds(t, c)
      BY <1>1, <3>1 DEF OpenFrame, DataEnds, FrameLines
    <3>3. IsFiniteSet(DataEnds(t, c))
      BY <1>1, FramesAreFinite, FS_Subset DEF DataEnds, FrameFinite
    <3>4. PICK D, N : D = DataEnds(t, c) /\ N = Cardinality(D)
      OBVIOUS
    <3> PICK o : o = Ascending(D)
      OBVIOUS
    <3>5. N \in Nat /\ DOMAIN o = 1..N
      BY <3>3, <3>4, AscendingSeq
    <3>6. OpenData(t, c) = [n \in 1..N |-> Tail(LineAt(t, o[n]))]
      BY <2>3, <3>4, <3>5 DEF OpenData, DataLines, DataEnds
    <3>7. N = 0 <=> DataEnds(t, c) = {}
      BY <3>3, <3>4, FS_EmptySet
    <3>8. OpenData(t, c) = << >> <=> N = 0
      <4>1. PICK d, V : d = OpenData(t, c) /\ V = {Tail(LineAt(t, o[n])) : n \in 1..N}
        OBVIOUS
      <4>2. d = [n \in 1..N |-> Tail(LineAt(t, o[n]))]
        BY <3>6, <4>1
      <4>3. d \in [1..N -> V]
        BY <4>1, <4>2
      <4>4. d \in Seq(V) /\ Len(d) = N
        BY <3>5, <4>3, SeqDef, LenProperties
      <4> QED
        BY <4>1, <4>4, EmptySeq
    <3> QED
      BY <3>2, <3>7, <3>8
  <2> QED
    BY <2>1, <2>2, <2>3
<1> QED
  BY <1>2, <1>4, <1>5, <1>6, <1>7, <1>8

-------------------------------------------------------------------------------
\* The lines that were taken, and what is pending

Rest(t, c) == SubSeq(t, LineStart(t, c), Len(t))
Breaks == {CR, LF}

\* The rest is the text from the start of the next line on.
LEMMA RestFacts ==
  ASSUME NEW t, NEW c, EndOrNone(t, c)
  PROVE  /\ Rest(t, c) \in Seq(Symbols)
         /\ Len(Rest(t, c)) = Len(t) - LineStart(t, c) + 1
         /\ DOMAIN Rest(t, c) = 1..Len(Rest(t, c))
         /\ \A j \in 1..Len(Rest(t, c)) : Rest(t, c)[j] = t[LineStart(t, c) + j - 1]
<1>1. PICK m : m = LineStart(t, c)
  OBVIOUS
<1>2. Len(t) \in Nat /\ m \in (c + 1)..(Len(t) + 1) /\ c \in 0..Len(t)
  BY <1>1, StartFacts
<1>3. \A k \in m..Len(t) : t[k] \in Symbols
  BY <1>2, TextFacts DEF EndOrNone
<1>4. PICK p : p = SubSeq(t, m, Len(t))
  OBVIOUS
<1>5. /\ p \in Seq(Symbols) /\ Len(p) = IF m <= Len(t) THEN Len(t) - m + 1 ELSE 0
      /\ \A j \in 1..(Len(t) - m + 1) : p[j] = t[m + j - 1]
  BY <1>2, <1>3, <1>4, SubSeqProperties
<1>6. Len(p) = Len(t) - m + 1
  BY <1>2, <1>5
<1> QED
  BY <1>1, <1>4, <1>5, <1>6, LenProperties DEF Rest

\* The first break of the rest is the next end of the text.
LEMMA NextEnding ==
  ASSUME NEW t, NEW c, EndOrNone(t, c),
         NEW j \in 1..Len(Rest(t, c)), Rest(t, c)[j] \in Breaks,
         \A k \in 1..(j - 1) : Rest(t, c)[k] \notin Breaks
  PROVE  Follows(t, c, LineStart(t, c) + j - 1)
<1>1. PICK m : m = LineStart(t, c)
  OBVIOUS
<1>2. /\ Len(t) \in Nat /\ m \in (c + 1)..(Len(t) + 1) /\ c \in 0..Len(t)
      /\ Len(Rest(t, c)) = Len(t) - m + 1 /\ DOMAIN t = 1..Len(t)
      /\ \A k \in (c + 1)..(m - 1) : k = c + 1 /\ k \in Skipped(t)
  BY <1>1, RestFacts, StartFacts, TextFacts DEF EndOrNone
<1>3. PICK i : i = m + j - 1
  OBVIOUS
<1> PICK p : p = Rest(t, c)
  OBVIOUS
<1>4. \A k \in 1..Len(p) : p[k] = t[m + k - 1]
  BY <1>1, RestFacts
<1>5. i \in m..Len(t) /\ t[i] \in Breaks
  <2>1. i \in m..Len(t) /\ j \in 1..Len(p)
    BY <1>2, <1>3
  <2>2. p[j] = t[i]
    BY <1>3, <1>4, <2>1
  <2>3. p[j] \in Breaks
    OBVIOUS
  <2> QED
    BY <2>1, <2>2, <2>3
<1>6. \A k \in m..(i - 1) : t[k] \notin Breaks
  <2> SUFFICES ASSUME NEW k \in m..(i - 1) PROVE t[k] \notin Breaks
    OBVIOUS
  <2>1. PICK n \in 1..(j - 1) : n = k - m + 1
    BY <1>2, <1>3
  <2>2. m + n - 1 = k /\ n \in 1..Len(p)
    BY <1>2, <2>1
  <2>3. p[n] = t[k]
    BY <1>4, <2>2
  <2> QED
    BY <2>1, <2>3
<1>7. i \notin Skipped(t)
  <2> SUFFICES ASSUME i \in Skipped(t) PROVE FALSE
    OBVIOUS
  <2>1. t[i] = LF /\ t[i - 1] = CR
    BY DEF Skipped
  <2>2. i = m
    BY <1>2, <1>5, <1>6, <2>1 DEF Breaks
  <2>3. CASE m = c + 1
    <3>1. c + 1 \in Skipped(t)
      BY <2>2, <2>3
    <3>2. m = c + 2
      BY <1>1, <3>1 DEF LineStart
    <3> QED
      BY <1>2, <2>3, <3>2
  <2>4. CASE m # c + 1
    <3>1. c + 1 \in Skipped(t) /\ m = c + 2
      BY <1>1, <1>2, <2>4, StartFacts DEF LineStart
    <3>2. t[c + 1] = LF /\ i - 1 = c + 1
      BY <1>2, <2>2, <3>1 DEF Skipped
    <3> QED
      BY <2>1, <3>2 DEF CR, LF
  <2> QED
    BY <2>3, <2>4
<1>8. i \in Ends(t)
  BY <1>2, <1>5, <1>7 DEF Ends, Breaks
<1>9. ASSUME NEW e \in Ends(t), c < e, e < i PROVE FALSE
  <2>1. e \in 1..Len(t) /\ t[e] \in Breaks /\ e \notin Skipped(t)
    BY <1>2 DEF Ends, Breaks
  <2>2. e \notin (c + 1)..(m - 1) /\ e \notin m..(i - 1)
    BY <1>2, <1>6, <2>1
  <2> QED
    BY <1>2, <1>5, <1>9, <2>1, <2>2
<1>10. \A e \in Ends(t) : e <= c \/ i <= e
  <2>1. \A e \in Ends(t) : e \in Nat
    BY <1>2 DEF Ends
  <2> QED
    BY <1>2, <1>5, <1>9, <2>1
<1> QED
  BY <1>1, <1>2, <1>3, <1>5, <1>8, <1>10 DEF Follows

\* A rest without a break has no end of a line.
LEMMA NoEnding ==
  ASSUME NEW t, NEW c, EndOrNone(t, c), \A j \in 1..Len(Rest(t, c)) : Rest(t, c)[j] \notin Breaks
  PROVE  \A e \in Ends(t) : e <= c
<1>1. PICK m : m = LineStart(t, c)
  OBVIOUS
<1>2. /\ Len(t) \in Nat /\ m \in (c + 1)..(Len(t) + 1) /\ c \in 0..Len(t)
      /\ Len(Rest(t, c)) = Len(t) - m + 1 /\ DOMAIN t = 1..Len(t)
      /\ \A k \in (c + 1)..(m - 1) : k = c + 1 /\ k \in Skipped(t)
  BY <1>1, RestFacts, StartFacts, TextFacts DEF EndOrNone
<1> SUFFICES ASSUME NEW e \in Ends(t), ~(e <= c) PROVE FALSE
  OBVIOUS
<1>3. e \in 1..Len(t) /\ t[e] \in Breaks /\ e \notin Skipped(t)
  BY <1>2 DEF Ends, Breaks
<1> PICK p : p = Rest(t, c)
  OBVIOUS
<1>4. \A k \in 1..Len(p) : p[k] = t[m + k - 1]
  BY <1>1, RestFacts
<1>5. PICK n \in 1..Len(p) : m + n - 1 = e
  <2>1. e - m + 1 \in 1..Len(p) /\ m + (e - m + 1) - 1 = e
    BY <1>2, <1>3
  <2> QED
    BY <2>1
<1>6. p[n] = t[e]
  BY <1>4, <1>5
<1> QED
  BY <1>3, <1>6

\* A text whose first fault, if it has one, comes after c.
Blameless(t, c) == EndOrNone(t, c) /\ \A f \in Faults(t) : f > c

\* Up to a fault, a text holds the frames that are complete before it.
LEMMA FramesOfFaulty ==
  ASSUME NEW t, NEW c, NEW i, Follows(t, c, i), Blameless(t, c), i \in Faults(t)
  PROVE  Frames(t) = InFrames(t, Wholes(t, c)) /\ ~Sound(t)
<1>1. /\ Blanks(t) \subseteq Ends(t) /\ Ends(t) \subseteq 1..Len(t) /\ Len(t) \in Nat
      /\ c \in 0..Len(t)
      /\ \A e \in Ends(t) : e <= c \/ i <= e
  BY TextFacts, StartFacts DEF Follows, EndOrNone
<1>2. \A f \in Faults(t) : f \in Ends(t) /\ f > c
  BY DEF Blameless, Faults
<1>3. \A b \in Blanks(t) : (\A f \in Faults(t) : b < f) <=> b <= c
  BY <1>1, <1>2 DEF Follows
<1>4. {b \in Blanks(t) : DataLines(t, b) # << >> /\ \A f \in Faults(t) : b < f} = Wholes(t, c)
  BY <1>3 DEF Wholes
<1> QED
  BY <1>4 DEF Frames, InFrames, Sound

\* A text whose last end is c, and is blameless, is wrong by its open line only.
LEMMA FramesOfSound ==
  ASSUME NEW t, NEW c, Blameless(t, c), \A e \in Ends(t) : e <= c
  PROVE  /\ Frames(t) = InFrames(t, Wholes(t, c))
         /\ Sound(t) <=> Len(Rest(t, c)) <= Limit
         /\ OpenLine(t) = {} <=> Rest(t, c) = << >>
         /\ OpenFrame(t) = {} <=> OpenData(t, c) = << >>
<1>1. /\ Blanks(t) \subseteq Ends(t) /\ Ends(t) \subseteq 1..Len(t) /\ Len(t) \in Nat
      /\ c \in 0..Len(t) /\ EndOrNone(t, c)
  BY TextFacts, StartFacts DEF Blameless, EndOrNone
<1>2. Faults(t) = {}
  BY <1>1 DEF Blameless, Faults
<1>3. {b \in Blanks(t) : DataLines(t, b) # << >> /\ \A f \in Faults(t) : b < f} = Wholes(t, c)
  BY <1>1, <1>2 DEF Wholes
<1>4. Len(Rest(t, c)) = Cardinality(OpenLine(t))
  BY <1>1, OpenAtEnd DEF Rest
<1> QED
  BY <1>1, <1>2, <1>3, <1>4, OpenAtEnd DEF Frames, InFrames, Sound, Rest

-------------------------------------------------------------------------------
(***************************************************************************)
(* The parser.  Between two lines it knows of the text up to some end c    *)
(* what the text means so far, and holds the rest.                         *)
(***************************************************************************)

TakenUpTo(c) ==
  /\ Blameless(read, c)
  /\ pending = Rest(read, c)
  /\ first <=> c = 0
  /\ skip_lf <=> c # 0 /\ c = Len(read) /\ read[c] = CR
  /\ data = OpenData(read, c) /\ size = OpenSize(read, c)
  /\ frames = InFrames(read, Wholes(read, c))

StreamInv ==
  /\ status \in {"connecting", "waiting", "splitting", "raised", "ended"}
  /\ read \in Seq(Symbols)
  /\ status = "connecting" => read = << >>
  /\ status \in {"connecting", "waiting", "splitting"} => \E c : TakenUpTo(c)
  /\ status \in {"connecting", "waiting"} => Endings = {} /\ Len(pending) <= Limit
  /\ ChunksDoNotMatter

\* What the parser holds is a text, and all ends are behind it if no break is pending.
LEMMA TakenFacts ==
  ASSUME NEW c, TakenUpTo(c)
  PROVE  /\ EndOrNone(read, c)
         /\ read \in Seq(Symbols) /\ Len(read) \in Nat /\ c \in 0..Len(read)
         /\ pending \in Seq(Symbols) /\ Len(pending) \in Nat /\ DOMAIN pending = 1..Len(pending)
         /\ Endings = {} => \A e \in Ends(read) : e <= c
<1>1. EndOrNone(read, c) /\ pending = Rest(read, c)
  BY DEF TakenUpTo, Blameless
<1>2. pending \in Seq(Symbols) /\ Len(pending) \in Nat /\ DOMAIN pending = 1..Len(pending)
  BY <1>1, RestFacts, LenProperties
<1>3. Endings = {} => \A j \in 1..Len(pending) : pending[j] \notin Breaks
  BY <1>2 DEF Endings, Breaks
<1> QED
  BY <1>1, <1>2, <1>3, NoEnding, StartFacts DEF EndOrNone

\* Once all lines were taken, the parser has what the text means.
LEMMA AllTaken ==
  ASSUME NEW c, TakenUpTo(c), Endings = {}
  PROVE  /\ frames = Frames(read)
         /\ Sound(read) <=> Len(pending) <= Limit
         /\ OpenLine(read) = {} <=> pending = << >>
         /\ OpenFrame(read) = {} <=> data = << >>
<1>1. \A e \in Ends(read) : e <= c
  BY TakenFacts
<1> QED
  BY <1>1, FramesOfSound DEF TakenUpTo

\* Before the stream begins, nothing is known and nothing is open.
LEMMA InitStreamInv == StreamInit => StreamInv
<1> SUFFICES ASSUME StreamInit PROVE StreamInv
  OBVIOUS
<1>1. /\ status = "connecting" /\ pending = << >> /\ first = TRUE /\ skip_lf = FALSE
      /\ data = << >> /\ size = 0 /\ frames = << >> /\ read = << >>
  BY DEF StreamInit
<1>2. read \in Seq(Symbols) /\ Len(read) = 0
  BY <1>1, EmptySeq
<1>3. Skipped(read) = {} /\ Ends(read) = {}
  <2>1. Ends(read) \subseteq 1..0 /\ Skipped(read) \subseteq 2..0
    BY <1>2, TextFacts
  <2> QED
    BY <2>1
<1>4. Blanks(read) = {} /\ Faults(read) = {}
  BY <1>3 DEF Blanks, Faults
<1>5. Blameless(read, 0)
  BY <1>2, <1>4 DEF Blameless, EndOrNone
<1>6. Rest(read, 0) = << >>
  BY <1>2, <1>5, RestFacts, StartFacts, EmptySeq DEF Blameless
<1>7. Wholes(read, 0) = {} /\ InFrames(read, {}) = << >>
  BY <1>4, AscendingNone DEF Wholes, InFrames
<1>8. TakenUpTo(0)
  BY <1>1, <1>5, <1>6, <1>7 DEF TakenUpTo, OpenData, OpenSize
<1>9. Endings = {} /\ Len(pending) <= Limit
  BY <1>1, EmptySeq, EventStreamAssumption DEF Endings
<1> QED
  BY <1>1, <1>2, <1>8, <1>9 DEF StreamInv, ChunksDoNotMatter

\* A connection alone yields no frame.
LEMMA ConnectKeeps == ASSUME StreamInv, Connect PROVE StreamInv'
<1>1. /\ status = "connecting" /\ status' \in {"waiting", "raised"}
      /\ UNCHANGED <<pending, first, skip_lf, data, size, frames, read>>
  BY DEF Connect
<1>2. PICK c : TakenUpTo(c)
  BY <1>1 DEF StreamInv
<1>3. read = << >> /\ read \in Seq(Symbols) /\ Endings = {} /\ Len(pending) <= Limit
  BY <1>1 DEF StreamInv
<1>4. frames = Frames(read) /\ Sound(read)
  BY <1>2, <1>3, AllTaken
<1>5. TakenUpTo(c)' /\ (Endings = {})'
  BY <1>1, <1>2, <1>3 DEF TakenUpTo, Endings
<1>6. ChunksDoNotMatter'
  BY <1>1, <1>3, <1>4 DEF ChunksDoNotMatter
<1> QED
  BY <1>1, <1>3, <1>5, <1>6 DEF StreamInv

\* The parser asks for more once no break is pending, or raises for a long line.
LEMMA LinesTakenKeeps == ASSUME StreamInv, LinesTaken PROVE StreamInv'
<1>1. /\ status = "splitting" /\ Endings = {}
      /\ status' = IF Len(pending) > Limit THEN "raised" ELSE "waiting"
      /\ UNCHANGED <<pending, first, skip_lf, data, size, frames, read>>
  BY DEF LinesTaken
<1>2. PICK c : TakenUpTo(c)
  BY <1>1 DEF StreamInv
<1>3. /\ frames = Frames(read)
      /\ Sound(read) <=> Len(pending) <= Limit
  BY <1>1, <1>2, AllTaken
<1>4. read \in Seq(Symbols) /\ Len(pending) \in Nat /\ Limit \in Nat
  BY <1>2, TakenFacts, EventStreamAssumption
<1>5. TakenUpTo(c)' /\ (Endings = {})'
  BY <1>1, <1>2 DEF TakenUpTo, Endings
<1>6. ChunksDoNotMatter'
  BY <1>1, <1>3, <1>4 DEF ChunksDoNotMatter
<1> QED
  BY <1>1, <1>4, <1>5, <1>6 DEF StreamInv

\* The end of the stream is quiet only between two frames.
LEMMA EndKeeps == ASSUME StreamInv, End PROVE StreamInv'
<1>1. /\ status = "waiting"
      /\ status' = IF pending # << >> \/ data # << >> THEN "raised" ELSE "ended"
      /\ UNCHANGED <<pending, first, skip_lf, data, size, frames, read>>
  BY DEF End
<1>2. PICK c : TakenUpTo(c)
  BY <1>1 DEF StreamInv
<1>3. read \in Seq(Symbols) /\ Endings = {} /\ Len(pending) <= Limit
  BY <1>1 DEF StreamInv
<1>4. /\ frames = Frames(read) /\ Sound(read)
      /\ OpenLine(read) = {} <=> pending = << >>
      /\ OpenFrame(read) = {} <=> data = << >>
  BY <1>2, <1>3, AllTaken
<1>5. ChunksDoNotMatter'
  BY <1>1, <1>4 DEF ChunksDoNotMatter
<1> QED
  BY <1>1, <1>3, <1>5 DEF StreamInv

\* A chunk makes the text longer; an LF is left out if the text before ends with the CR
\* of a line that was taken.
LEMMA ArriveKeeps ==
  ASSUME StreamInv, NEW n \in Nat \ {0}, NEW chunk \in [1..n -> Symbols], Arrive(chunk)
  PROVE  StreamInv'
<1>1. /\ status = "waiting" /\ status' = "splitting" /\ pending' = pending \o Trimmed(chunk)
      /\ skip_lf' = FALSE /\ read' = read \o chunk
      /\ UNCHANGED <<first, data, size, frames>>
  BY DEF Arrive
<1>2. PICK c : TakenUpTo(c)
  BY <1>1 DEF StreamInv
<1>3. PICK t, u : t = read /\ u = read'
  OBVIOUS
<1>4. chunk \in Seq(Symbols) /\ Len(chunk) = n /\ chunk # << >>
  BY SeqDef, LenProperties, EmptySeq
<1>5. /\ EndOrNone(t, c) /\ t \in Seq(Symbols) /\ c \in 0..Len(t) /\ DOMAIN t = 1..Len(t)
      /\ Len(t) \in Nat
  BY <1>2, <1>3, TakenFacts, TextFacts
<1>6. /\ u \in Seq(Symbols) /\ Len(u) = Len(t) + n /\ DOMAIN u = 1..Len(u)
      /\ \A k \in 1..Len(t) : u[k] = t[k]
      /\ \A k \in 1..n : u[Len(t) + k] = chunk[k]
  <2>1. u = t \o chunk
    BY <1>1, <1>3
  <2>2. u \in Seq(Symbols) /\ Len(u) = Len(t) + n
    BY <1>4, <1>5, <2>1, ConcatProperties
  <2>3. \A k \in 1..(Len(t) + n) : u[k] = IF k <= Len(t) THEN t[k] ELSE chunk[k - Len(t)]
    BY <1>4, <1>5, <2>1, ConcatProperties
  <2>4. \A k \in 1..n : u[Len(t) + k] = chunk[k]
    <3> SUFFICES ASSUME NEW k \in 1..n PROVE u[Len(t) + k] = chunk[k]
      OBVIOUS
    <3>1. PICK l \in 1..(Len(t) + n) : l = Len(t) + k
      BY <1>5
    <3>2. ~(l <= Len(t)) /\ l - Len(t) = k
      BY <1>5, <3>1
    <3> QED
      BY <2>3, <3>1, <3>2
  <2> QED
    BY <1>5, <2>2, <2>3, <2>4, TextFacts
<1>7. Starts(u, t)
  BY <1>5, <1>6 DEF Starts
<1>8. /\ Blameless(u, c) /\ EndOrNone(u, c)
      /\ OpenData(u, c) = OpenData(t, c) /\ OpenSize(u, c) = OpenSize(t, c)
      /\ InFrames(u, Wholes(u, c)) = InFrames(t, Wholes(t, c))
  <2>1. Blameless(t, c)
    BY <1>2, <1>3 DEF TakenUpTo
  <2> QED
    BY <1>5, <1>7, <2>1, SameState DEF Blameless
<1>9. Head(chunk) = chunk[1] /\ u[Len(t) + 1] = chunk[1]
  BY <1>4, <1>5, <1>6
<1>10. pending' = Rest(u, c)
  <2>1. PICK m : m = LineStart(t, c)
    OBVIOUS
  <2>2. PICK p : p = pending
    OBVIOUS
  <2>3. /\ m \in (c + 1)..(Len(t) + 1) /\ p \in Seq(Symbols) /\ Len(p) = Len(t) - m + 1
        /\ \A j \in 1..Len(p) : p[j] = t[m + j - 1]
    <3>1. p = Rest(t, c)
      BY <1>2, <1>3, <2>2 DEF TakenUpTo
    <3>2. m \in (c + 1)..(Len(t) + 1)
      BY <1>5, <2>1, StartFacts
    <3>3. /\ p \in Seq(Symbols) /\ Len(p) = Len(t) - m + 1
          /\ \A j \in 1..Len(p) : p[j] = t[m + j - 1]
      BY <1>5, <2>1, <3>1, RestFacts
    <3> QED
      BY <3>2, <3>3
  <2>4. PICK r : r = Rest(u, c)
    OBVIOUS
  <2>5. PICK l : l = LineStart(u, c)
    OBVIOUS
  <2>6. /\ l \in (c + 1)..(Len(u) + 1) /\ r \in Seq(Symbols) /\ Len(r) = Len(u) - l + 1
        /\ \A j \in 1..Len(r) : r[j] = u[l + j - 1]
    BY <1>8, <2>4, <2>5, RestFacts, StartFacts
  <2>7. CASE skip_lf /\ Head(chunk) = LF
    <3>1. c # 0 /\ c = Len(t) /\ t[c] = CR
      BY <1>2, <1>3, <2>7 DEF TakenUpTo
    <3>2. c + 1 \in Skipped(u)
      BY <1>5, <1>6, <1>9, <2>7, <3>1 DEF Skipped
    <3>3. l = c + 2
      BY <2>5, <3>2 DEF LineStart
    <3>4. p = << >>
      BY <1>5, <2>3, <3>1, EmptySeq
    <3>5. PICK s : s = Tail(chunk)
      OBVIOUS
    <3>6. s \in Seq(Symbols) /\ Len(s) = n - 1 /\ \A j \in 1..Len(s) : s[j] = chunk[j + 1]
      BY <1>4, <3>5, HeadTailProperties
    <3>7. pending' = s
      BY <1>1, <2>2, <2>7, <3>4, <3>5, <3>6 DEF Trimmed
    <3>8. Len(r) = n - 1
      BY <1>5, <1>6, <2>6, <3>1, <3>3
    <3>9. \A j \in 1..(n - 1) : s[j] = r[j]
      <4> SUFFICES ASSUME NEW j \in 1..(n - 1) PROVE s[j] = r[j]
        OBVIOUS
      <4>1. PICK k \in 1..n : k = j + 1
        OBVIOUS
      <4>2. u[Len(t) + k] = chunk[k] /\ s[j] = chunk[k]
        BY <1>6, <3>6, <4>1
      <4>3. l + j - 1 = Len(t) + k
        BY <1>5, <3>1, <3>3, <4>1
      <4>4. r[j] = u[l + j - 1]
        BY <2>6, <3>8
      <4> QED
        BY <4>2, <4>3, <4>4
    <3>10. s = r
      BY <2>6, <3>6, <3>8, <3>9, SeqEqual
    <3> QED
      BY <2>4, <3>7, <3>10
  <2>8. CASE ~(skip_lf /\ Head(chunk) = LF)
    <3>1. c + 1 \in Skipped(u) <=> c + 1 \in Skipped(t)
      <4>1. CASE c + 1 <= Len(t)
        BY <1>5, <1>7, <4>1, SameEnds
      <4>2. CASE c = Len(t)
        <5>1. c + 1 \notin Skipped(t)
          BY <1>5, <4>2 DEF Skipped
        <5>2. ASSUME c + 1 \in Skipped(u) PROVE FALSE
          <6>1. u[c + 1] = LF /\ u[c] = CR /\ c # 0
            BY <1>5, <5>2 DEF Skipped
          <6>2. t[c] = CR /\ Head(chunk) = LF
            BY <1>5, <1>6, <1>9, <4>2, <6>1
          <6>3. skip_lf
            BY <1>2, <1>3, <4>2, <6>1, <6>2 DEF TakenUpTo
          <6> QED
            BY <2>8, <6>2, <6>3
        <5> QED
          BY <5>1, <5>2
      <4>3. c + 1 <= Len(t) \/ c = Len(t)
        <5>1. PICK N \in Nat : N = Len(t)
          BY <1>5
        <5>2. c \in 0..N
          BY <1>5, <5>1
        <5>3. c + 1 <= N \/ c = N
          BY <5>2
        <5> QED
          BY <5>1, <5>3
      <4> QED
        BY <4>1, <4>2, <4>3
    <3>2. l = m
      BY <2>1, <2>5, <3>1 DEF LineStart
    <3>3. PICK q : q = pending'
      OBVIOUS
    <3>4. q = p \o chunk
      BY <1>1, <2>2, <2>8, <3>3 DEF Trimmed
    <3>5. /\ q \in Seq(Symbols) /\ Len(q) = Len(p) + n
          /\ \A j \in 1..(Len(p) + n) : q[j] = IF j <= Len(p) THEN p[j] ELSE chunk[j - Len(p)]
      <4>1. p \in Seq(Symbols) /\ chunk \in Seq(Symbols)
        BY <1>4, <2>3
      <4>2. /\ q \in Seq(Symbols) /\ Len(q) = Len(p) + Len(chunk)
            /\ \A j \in 1..(Len(p) + Len(chunk)) :
                 q[j] = IF j <= Len(p) THEN p[j] ELSE chunk[j - Len(p)]
        BY <3>4, <4>1, ConcatProperties
      <4> QED
        BY <1>4, <4>2
    <3>6. Len(r) = Len(q)
      BY <1>5, <1>6, <2>3, <2>6, <3>2, <3>5
    <3>7. \A j \in 1..Len(q) : q[j] = r[j]
      <4> SUFFICES ASSUME NEW j \in 1..Len(q) PROVE q[j] = r[j]
        OBVIOUS
      <4>1. PICK k : k = m + j - 1
        OBVIOUS
      <4>2. r[j] = u[k]
        BY <2>6, <3>2, <3>6, <4>1
      <4>3. CASE j <= Len(p)
        <5>1. k \in 1..Len(t) /\ q[j] = p[j] /\ p[j] = t[k]
          BY <1>5, <2>3, <3>5, <4>1, <4>3
        <5> QED
          BY <1>6, <4>2, <5>1
      <4>4. CASE ~(j <= Len(p))
        <5>1. PICK i \in 1..n : i = j - Len(p)
          <6>1. j \in Nat /\ Len(p) \in Nat /\ j <= Len(p) + n /\ Len(p) < j
            BY <1>5, <2>3, <3>5, <4>4
          <6>2. j - Len(p) \in 1..n
            BY <6>1
          <6> QED
            BY <6>2
        <5>2. q[j] = chunk[i] /\ u[Len(t) + i] = chunk[i]
          BY <1>6, <3>5, <4>4, <5>1
        <5>3. Len(t) + i = k
          <6>1. PICK T \in Nat, P \in Nat : T = Len(t) /\ P = Len(p)
            BY <1>5, <2>3, LenProperties
          <6>2. P = T - m + 1 /\ m \in Nat /\ j \in Nat /\ i = j - P
            BY <1>5, <2>3, <3>5, <5>1, <6>1
          <6>3. T + i = k
            BY <4>1, <6>1, <6>2
          <6> QED
            BY <6>1, <6>3
        <5> QED
          BY <4>2, <5>2, <5>3
      <4> QED
        BY <4>3, <4>4
    <3>8. q = r
      BY <2>6, <3>5, <3>6, <3>7, SeqEqual
    <3> QED
      BY <2>4, <3>3, <3>8
  <2> QED
    BY <2>7, <2>8
<1>11. c # Len(u)
  BY <1>5, <1>6
<1>12. TakenUpTo(c)'
  BY <1>1, <1>2, <1>3, <1>8, <1>10, <1>11 DEF TakenUpTo
<1>13. ChunksDoNotMatter'
  BY <1>1 DEF ChunksDoNotMatter
<1> QED
  BY <1>1, <1>3, <1>6, <1>12, <1>13 DEF StreamInv

\* The raising of an error, while the text is looked at.
LEMMA RaiseKeeps ==
  ASSUME StreamInv, NEW c, NEW i, TakenUpTo(c), Follows(read, c, i), i \in Faults(read),
         Raise, UNCHANGED read
  PROVE  StreamInv'
<1>1. frames = Frames(read) /\ ~Sound(read)
  BY FramesOfFaulty DEF TakenUpTo
<1>2. status' = "raised" /\ frames' = frames /\ read' = read
  BY DEF Raise
<1>3. ChunksDoNotMatter'
  BY <1>1, <1>2 DEF ChunksDoNotMatter
<1> QED
  BY <1>2, <1>3 DEF StreamInv

\* The next line is in the text, and what is pending after it.
LEMMA LineTaken ==
  ASSUME NEW c, TakenUpTo(c), status = "splitting", Endings # {}
  PROVE  \E i : LET line == SubSeq(pending, 1, Ending - 1)
                    last == Ending + Width - 1
                    rest == SubSeq(pending, last + 1, Len(pending))
                IN  /\ Follows(read, c, i)
                    /\ LineAt(read, i) = IF first THEN WithoutMark(line) ELSE line
                    /\ Ending \in Nat /\ Len(LineAt(read, i)) + 1 >= Ending - 1
                    /\ rest = Rest(read, i)
                    /\ (pending[last] = CR /\ last = Len(pending))
                         <=> (i # 0 /\ i = Len(read) /\ read[i] = CR)
<1>1. PICK t, p : t = read /\ p = pending
  OBVIOUS
<1>2. PICK m : m = LineStart(t, c)
  OBVIOUS
<1>3. /\ EndOrNone(t, c) /\ t \in Seq(Symbols) /\ c \in 0..Len(t) /\ DOMAIN t = 1..Len(t)
      /\ Len(t) \in Nat /\ p = Rest(t, c)
      /\ p \in Seq(Symbols) /\ Len(p) = Len(t) - m + 1 /\ DOMAIN p = 1..Len(p)
      /\ m \in (c + 1)..(Len(t) + 1)
      /\ first <=> c = 0
  BY <1>1, <1>2, TakenFacts, TextFacts, StartFacts, RestFacts DEF TakenUpTo
<1>4. \A k \in 1..Len(p) : p[k] = t[m + k - 1]
  BY <1>2, <1>3, RestFacts
<1>5. Endings = {k \in 1..Len(p) : p[k] \in Breaks}
  BY <1>1, <1>3 DEF Endings, Breaks
<1>6. PICK j : j = Ending
  OBVIOUS
<1>7. j \in Endings /\ \A k \in Endings : j <= k
  <2>1. Endings \in SUBSET Nat
    BY <1>5
  <2>2. \E e \in Endings : \A k \in Endings : e <= k
    BY <2>1, LeastNatural
  <2> QED
    BY <1>6, <2>2, Zenon DEF Ending
<1>8. j \in 1..Len(p) /\ p[j] \in Breaks /\ \A k \in 1..(j - 1) : p[k] \notin Breaks
  BY <1>5, <1>7
<1>9. PICK i : i = m + j - 1
  OBVIOUS
<1>10. Follows(t, c, i)
  BY <1>2, <1>3, <1>8, <1>9, NextEnding
<1>11. i \in m..Len(t) /\ i \in 1..Len(t) /\ p[j] = t[i] /\ EndOrNone(t, i)
  <2>1. i \in m..Len(t) /\ i \in 1..Len(t)
    BY <1>3, <1>8, <1>9
  <2>2. p[j] = t[i]
    BY <1>4, <1>8, <1>9
  <2> QED
    BY <1>10, <2>1, <2>2 DEF Follows, EndOrNone
<1>12. PICK line : line = SubSeq(p, 1, j - 1)
  OBVIOUS
<1>13. line = SubSeq(t, m, i - 1)
  <2>1. PICK s : s = SubSeq(t, m, i - 1)
    OBVIOUS
  <2>2. \A k \in 1..(j - 1) : p[k] \in Symbols
    BY <1>3, <1>8, TextFacts
  <2>3. /\ line \in Seq(Symbols) /\ Len(line) = j - 1
        /\ \A k \in 1..(j - 1) : line[k] = p[k]
    <3>1. /\ line \in Seq(Symbols) /\ Len(line) = IF 1 <= j - 1 THEN j - 1 - 1 + 1 ELSE 0
          /\ \A k \in 1..(j - 1 - 1 + 1) : line[k] = p[1 + k - 1]
      BY <1>3, <1>8, <1>12, <2>2, SubSeqProperties
    <3> QED
      BY <1>8, <3>1
  <2>4. /\ \A k \in m..(i - 1) : t[k] \in Symbols
        /\ m \in Int /\ i - 1 \in Int /\ (i - 1) - m + 1 = j - 1
    <3>1. m \in Nat /\ i \in Nat /\ j \in Nat
      BY <1>3, <1>8, <1>11
    <3>2. \A k \in m..(i - 1) : k \in 1..Len(t)
      BY <1>3, <1>11, <3>1
    <3> QED
      BY <1>3, <1>9, <3>1, <3>2, TextFacts
  <2>5. /\ s \in Seq(Symbols) /\ Len(s) = j - 1
        /\ \A k \in 1..(j - 1) : s[k] = t[m + k - 1]
    <3>1. /\ s \in Seq(Symbols) /\ Len(s) = IF m <= i - 1 THEN (i - 1) - m + 1 ELSE 0
          /\ \A k \in 1..((i - 1) - m + 1) : s[k] = t[m + k - 1]
      BY <2>1, <2>4, SubSeqProperties
    <3> QED
      BY <1>3, <1>8, <1>9, <2>4, <3>1
  <2>6. \A k \in 1..(j - 1) : line[k] = s[k]
    <3>1. \A k \in 1..(j - 1) : k \in 1..Len(p)
      <4>1. PICK N \in Nat : N = Len(p)
        BY <1>3, LenProperties
      <4>2. j \in 1..N
        BY <1>8, <4>1
      <4> QED
        BY <4>1, <4>2
    <3>2. \A k \in 1..(j - 1) : p[k] = t[m + k - 1]
      BY <1>4, <3>1
    <3> QED
      BY <2>3, <2>5, <3>2
  <2> QED
    BY <2>1, <2>3, <2>5, <2>6, SeqEqual
<1>14. LineAt(t, i) = IF first THEN WithoutMark(line) ELSE line
  BY <1>2, <1>3, <1>10, <1>13, NextLine
<1>15. j \in Nat /\ Len(LineAt(t, i)) + 1 >= j - 1
  <2>1. PICK n : n = Len(LineAt(t, i))
    OBVIOUS
  <2>2. n \in Nat /\ n + 1 >= i - m
    BY <1>2, <1>10, <2>1, NextLine
  <2>3. m \in Nat /\ j \in Nat
    BY <1>3, <1>8
  <2> QED
    BY <1>9, <2>1, <2>2, <2>3
<1>16. PICK w : w = Width
  OBVIOUS
<1>17. w = IF p[j] = CR /\ j < Len(p) /\ p[j + 1] = LF THEN 2 ELSE 1
  BY <1>1, <1>6, <1>16 DEF Width
<1>18. PICK last : last = j + w - 1
  OBVIOUS
<1>19. /\ p[j] = CR /\ j < Len(p) /\ p[j + 1] = LF <=> i + 1 \in Skipped(t)
       /\ j < Len(p) <=> i < Len(t)
  <2>1. j < Len(p) <=> i < Len(t)
    BY <1>3, <1>8, <1>9
  <2>2. ASSUME j < Len(p) PROVE p[j + 1] = t[i + 1]
    <3>1. PICK k \in 1..Len(p) : k = j + 1
      BY <1>3, <1>8, <2>2
    <3>2. m + k - 1 = i + 1
      <4>1. m \in Nat /\ j \in Nat
        BY <1>3, <1>8
      <4> QED
        BY <1>9, <3>1, <4>1
    <3> QED
      BY <1>4, <3>1, <3>2
  <2>3. i + 1 \in Skipped(t) <=> i < Len(t) /\ t[i] = CR /\ t[i + 1] = LF
    BY <1>3, <1>11 DEF Skipped
  <2> QED
    BY <1>11, <2>1, <2>2, <2>3
<1>20. LineStart(t, i) = m + last
  <2>1. CASE i + 1 \in Skipped(t)
    BY <1>3, <1>8, <1>9, <1>17, <1>18, <1>19, <2>1 DEF LineStart
  <2>2. CASE i + 1 \notin Skipped(t)
    BY <1>3, <1>8, <1>9, <1>17, <1>18, <1>19, <2>2 DEF LineStart
  <2> QED
    BY <2>1, <2>2
<1>21. last \in 1..Len(p)
  BY <1>3, <1>8, <1>17, <1>18
<1>22. SubSeq(p, last + 1, Len(p)) = Rest(t, i)
  <2>1. PICK q, r : q = SubSeq(p, last + 1, Len(p)) /\ r = Rest(t, i)
    OBVIOUS
  <2>2. PICK N \in Nat, T \in Nat : N = Len(p) /\ T = Len(t)
    BY <1>3, LenProperties
  <2>3. PICK n \in Nat : n = N - last
    <3>1. N - last \in Nat
      BY <1>21, <2>2
    <3> QED
      BY <3>1
  <2>4. T - (m + last) + 1 = n /\ m \in Nat /\ last \in 1..N
    <3>1. m \in Nat /\ last \in 1..N /\ N = T - m + 1
      BY <1>3, <1>21, <2>2
    <3> QED
      BY <2>3, <3>1
  <2>5. /\ \A k \in (last + 1)..Len(p) : p[k] \in Symbols
        /\ last + 1 \in Int /\ Len(p) \in Int /\ Len(p) - (last + 1) + 1 = n
    <3>1. \A k \in (last + 1)..N : k \in 1..N
      BY <1>21, <2>2
    <3>2. \A k \in 1..N : p[k] \in Symbols
      BY <1>3, <2>2, TextFacts
    <3> QED
      BY <1>21, <2>2, <2>3, <3>1, <3>2
  <2>6. /\ q \in Seq(Symbols) /\ Len(q) = n
        /\ \A k \in 1..n : q[k] = p[last + k]
    <3>1. /\ q \in Seq(Symbols)
          /\ Len(q) = IF last + 1 <= Len(p) THEN Len(p) - (last + 1) + 1 ELSE 0
          /\ \A k \in 1..(Len(p) - (last + 1) + 1) : q[k] = p[(last + 1) + k - 1]
      BY <2>1, <2>5, SubSeqProperties
    <3>2. \A k \in 1..n : (last + 1) + k - 1 = last + k
      BY <1>21, <2>3
    <3>3. Len(q) = n
      BY <1>21, <2>2, <2>3, <3>1
    <3>4. \A k \in 1..n : q[k] = p[(last + 1) + k - 1]
      BY <2>5, <3>1
    <3> QED
      BY <3>1, <3>2, <3>3, <3>4
  <2>7. /\ r \in Seq(Symbols) /\ Len(r) = n
        /\ \A k \in 1..n : r[k] = t[m + last + k - 1]
    <3>1. /\ r \in Seq(Symbols) /\ Len(r) = Len(t) - (m + last) + 1
          /\ \A k \in 1..Len(r) : r[k] = t[m + last + k - 1]
      <4>1. PICK x : x = LineStart(t, i)
        OBVIOUS
      <4>2. /\ r \in Seq(Symbols) /\ Len(r) = Len(t) - x + 1
            /\ \A k \in 1..Len(r) : r[k] = t[x + k - 1]
        BY <1>11, <2>1, <4>1, RestFacts
      <4> QED
        BY <1>20, <4>1, <4>2
    <3>2. Len(r) = n
      BY <2>2, <2>4, <3>1
    <3> QED
      BY <3>1, <3>2
  <2>8. \A k \in 1..n : q[k] = r[k]
    <3> SUFFICES ASSUME NEW k \in 1..n PROVE q[k] = r[k]
      OBVIOUS
    <3>1. PICK l \in 1..Len(p) : l = last + k
      <4>1. last + k \in 1..Len(p)
        BY <2>2, <2>3, <2>4
      <4> QED
        BY <4>1
    <3>2. m + l - 1 = m + last + k - 1
      BY <2>4, <3>1
    <3>3. p[l] = t[m + l - 1]
      BY <1>4
    <3> QED
      BY <2>6, <2>7, <3>1, <3>2, <3>3
  <2> QED
    BY <2>1, <2>6, <2>7, <2>8, SeqEqual
<1>23. (p[last] = CR /\ last = Len(p)) <=> (i # 0 /\ i = Len(t) /\ t[i] = CR)
  <2>1. CASE i + 1 \in Skipped(t)
    <3>1. last = j + 1 /\ p[last] = LF /\ i < Len(t)
      BY <1>8, <1>17, <1>18, <1>19, <2>1
    <3>2. PICK T \in Nat : T = Len(t)
      BY <1>3
    <3>3. i \in Nat /\ i < T
      BY <1>11, <3>1, <3>2
    <3>4. i # Len(t)
      BY <3>2, <3>3
    <3> QED
      BY <3>1, <3>4 DEF CR, LF
  <2>2. CASE i + 1 \notin Skipped(t)
    <3>1. last = j /\ p[last] = t[i]
      BY <1>8, <1>11, <1>17, <1>18, <1>19, <2>2
    <3>2. last = Len(p) <=> i = Len(t)
      BY <1>3, <1>8, <1>9, <3>1
    <3> QED
      BY <1>11, <3>1, <3>2
  <2> QED
    BY <2>1, <2>2
<1> QED
  BY <1>1, <1>6, <1>10, <1>12, <1>14, <1>15, <1>16, <1>18, <1>22, <1>23

\* A whole line is one step of the meaning: a text goes wrong at its end if and only if
\* the parser raises there.
LEMMA LineKeeps ==
  ASSUME NEW c, NEW i, NEW line, TakenUpTo(c), Follows(read, c, i), line = LineAt(read, i),
         status = "splitting", Assemble(line), read' = read,
         pending' = Rest(read, i), first' = FALSE,
         skip_lf' <=> i # 0 /\ i = Len(read) /\ read[i] = CR
  PROVE  (i \in Faults(read) /\ Raise) \/ (TakenUpTo(i)' /\ status' = status)
<1>1. PICK t : t = read
  OBVIOUS
<1>2. PICK n : n = Len(line)
  OBVIOUS
<1>3. PICK D : D = DataLines(t, i)
  OBVIOUS
<1>4. /\ EndOrNone(t, c) /\ i \in Ends(t) /\ c < i /\ i \in Nat /\ i # 0
      /\ \A e \in Ends(t) : e <= c \/ i <= e
      /\ EndOrNone(t, i) /\ n \in Nat /\ Ends(t) \subseteq Nat /\ c \in Nat
  <2>1. Follows(t, c, i) /\ EndOrNone(t, c) /\ t \in Seq(Symbols)
    BY <1>1 DEF Follows, EndOrNone
  <2>2. Len(t) \in Nat /\ Ends(t) \subseteq 1..Len(t) /\ c \in 0..Len(t)
    BY <2>1, TextFacts, StartFacts
  <2> QED
    BY <1>1, <1>2, <2>1, <2>2, LineType DEF Follows, EndOrNone
<1>5. /\ data = OpenData(t, c) /\ size = OpenSize(t, c) /\ size \in Nat
      /\ frames = InFrames(t, Wholes(t, c))
      /\ \A f \in Faults(t) : f > c
  BY <1>1, NextSize DEF TakenUpTo, Blameless
<1>6. FrameSize(t, i) = size + n + 1
  BY <1>1, <1>2, <1>5, NextSize
<1>7. D = IF IsData(t, i) THEN Append(data, Tail(line)) ELSE data
  BY <1>1, <1>3, <1>5, NextData
<1>8. i \in Blanks(t) <=> line = << >>
  BY <1>1, <1>4 DEF Blanks
<1>9. /\ i \in Faults(t) <=> \/ size + n + 1 > Limit
                             \/ line = << >> /\ data # << >> /\ ~IsDocument(data)
      /\ line = << >> => D = data
  <2>1. line = << >> => D = data
    BY <1>1, <1>7 DEF IsData
  <2> QED
    BY <1>3, <1>4, <1>6, <1>8, <2>1 DEF Faults
<1>10. ASSUME i \notin Faults(t) PROVE Blameless(t, i)
  <2>1. \A f \in Faults(t) : f \in Ends(t) /\ f > c /\ f # i
    BY <1>5, <1>10 DEF Faults
  <2> QED
    BY <1>4, <2>1 DEF Blameless
<1>11. InFrames(t, Wholes(t, i)) = IF line = << >> /\ data # << >> THEN Append(frames, data)
                                   ELSE frames
  BY <1>1, <1>5, <1>8, NextWhole
<1>12. CASE size + n + 1 > Limit
  <2>1. Raise
    BY <1>2, <1>12, Zenon DEF Assemble
  <2> QED
    BY <1>1, <1>9, <1>12, <2>1
<1>13. CASE ~(size + n + 1 > Limit) /\ line = << >> /\ data # << >> /\ ~IsDocument(data)
  <2>1. Raise
    BY <1>2, <1>13, Zenon DEF Assemble
  <2> QED
    BY <1>1, <1>9, <1>13, <2>1
<1>14. CASE ~(size + n + 1 > Limit) /\ line = << >> /\ ~(data # << >> /\ ~IsDocument(data))
  <2>1. /\ frames' = IF data = << >> THEN frames ELSE Append(frames, data)
        /\ data' = << >> /\ size' = 0 /\ status' = status
    BY <1>2, <1>14 DEF Assemble
  <2>2. OpenData(t, i) = << >> /\ OpenSize(t, i) = 0
    BY <1>8, <1>14 DEF OpenData, OpenSize
  <2>3. frames' = InFrames(t, Wholes(t, i))
    BY <1>11, <1>14, <2>1
  <2>4. Blameless(t, i)
    BY <1>9, <1>10, <1>14
  <2> QED
    BY <1>1, <1>4, <2>1, <2>2, <2>3, <2>4 DEF TakenUpTo
<1>15. CASE ~(size + n + 1 > Limit) /\ line # << >>
  <2>1. /\ data' = IF Head(line) = Data THEN Append(data, Tail(line)) ELSE data
        /\ size' = size + n + 1 /\ frames' = frames /\ status' = status
    BY <1>2, <1>15 DEF Assemble
  <2>2. OpenData(t, i) = D /\ OpenSize(t, i) = FrameSize(t, i)
    BY <1>3, <1>4, <1>8, <1>15 DEF OpenData, OpenSize
  <2>3. data' = D
    BY <1>1, <1>7, <1>15, <2>1 DEF IsData
  <2>4. frames' = InFrames(t, Wholes(t, i))
    BY <1>11, <1>15, <2>1
  <2>5. Blameless(t, i)
    BY <1>9, <1>10, <1>15
  <2> QED
    BY <1>1, <1>4, <1>6, <2>1, <2>2, <2>3, <2>4, <2>5 DEF TakenUpTo
<1> QED
  BY <1>12, <1>13, <1>14, <1>15

\* The line taken from what is pending is the next line of the text.
LEMMA TakeLineKeeps == ASSUME StreamInv, TakeLine PROVE StreamInv'
<1>1. status = "splitting" /\ Endings # {} /\ read' = read
  BY DEF TakeLine
<1>2. PICK c : TakenUpTo(c)
  BY <1>1 DEF StreamInv
<1>3. PICK line, last, rest : /\ line = SubSeq(pending, 1, Ending - 1)
                              /\ last = Ending + Width - 1
                              /\ rest = SubSeq(pending, last + 1, Len(pending))
  OBVIOUS
<1>4. PICK i : /\ Follows(read, c, i)
               /\ LineAt(read, i) = IF first THEN WithoutMark(line) ELSE line
               /\ Ending \in Nat /\ Len(LineAt(read, i)) + 1 >= Ending - 1
               /\ rest = Rest(read, i)
               /\ (pending[last] = CR /\ last = Len(pending))
                    <=> (i # 0 /\ i = Len(read) /\ read[i] = CR)
  BY <1>1, <1>2, <1>3, LineTaken
<1>5. PICK A : A = LineAt(read, i)
  OBVIOUS
<1>6. CASE Ending - 1 > Limit
  <2>1. Raise
    BY <1>3, <1>6 DEF TakeLine
  <2>2. PICK n : n = Len(A)
    OBVIOUS
  <2>3. n \in Nat /\ Limit \in Nat /\ n + 1 >= Ending - 1
    BY <1>4, <1>5, <2>2, LineType, EventStreamAssumption DEF Follows, EndOrNone
  <2>4. OpenSize(read, c) \in Nat /\ FrameSize(read, i) = OpenSize(read, c) + n + 1
    BY <1>4, <1>5, <2>2, NextSize
  <2>5. FrameSize(read, i) > Limit
    BY <1>4, <1>6, <2>3, <2>4
  <2>6. i \in Faults(read)
    BY <1>4, <2>5 DEF Faults, Follows
  <2> QED
    BY <1>1, <1>2, <1>4, <2>1, <2>6, RaiseKeeps
<1>7. CASE ~(Ending - 1 > Limit)
  <2>1. /\ pending' = rest /\ first' = FALSE
        /\ skip_lf' = (pending[last] = CR /\ last = Len(pending))
        /\ Assemble(A)
    BY <1>3, <1>4, <1>5, <1>7, Zenon DEF TakeLine
  <2>2. (i \in Faults(read) /\ Raise) \/ (TakenUpTo(i)' /\ status' = status)
    BY <1>1, <1>2, <1>4, <1>5, <2>1, LineKeeps
  <2>3. CASE i \in Faults(read) /\ Raise
    BY <1>1, <1>2, <1>4, <2>3, RaiseKeeps
  <2>4. CASE TakenUpTo(i)' /\ status' = status
    <3>1. read' \in Seq(Symbols)
      BY <1>1 DEF StreamInv
    <3>2. status' = "splitting"
      BY <1>1, <2>4
    <3> QED
      BY <2>4, <3>1, <3>2 DEF StreamInv, ChunksDoNotMatter
  <2> QED
    BY <2>2, <2>3, <2>4
<1> QED
  BY <1>6, <1>7

\* A step that changes nothing of the parser.
LEMMA StreamStutters == ASSUME StreamInv, UNCHANGED streamVars PROVE StreamInv'
<1>1. /\ status' = status /\ read' = read /\ frames' = frames /\ Endings' = Endings
      /\ pending' = pending /\ \A c : TakenUpTo(c) => TakenUpTo(c)'
  BY DEF streamVars, TakenUpTo, Endings
<1> QED
  BY <1>1 DEF StreamInv, ChunksDoNotMatter

\* Every step of the parser keeps the invariant.
LEMMA StreamStep == StreamInv /\ [StreamNext]_streamVars => StreamInv'
<1> SUFFICES ASSUME StreamInv, [StreamNext]_streamVars PROVE StreamInv'
  OBVIOUS
<1>1. CASE Connect
  BY <1>1, ConnectKeeps
<1>2. CASE TakeLine
  BY <1>2, TakeLineKeeps
<1>3. CASE LinesTaken
  BY <1>3, LinesTakenKeeps
<1>4. CASE End
  BY <1>4, EndKeeps
<1>5. ASSUME NEW n \in 1..(MaxLength - Len(read)), NEW chunk \in [1..n -> Symbols],
             Arrive(chunk)
      PROVE  StreamInv'
  <2>1. n \in Nat \ {0}
    <3>1. read \in Seq(Symbols)
      BY DEF StreamInv
    <3> QED
      BY <3>1, LenProperties, EventStreamAssumption
  <2> QED
    BY <1>5, <2>1, ArriveKeeps
<1>6. CASE UNCHANGED streamVars
  BY <1>6, StreamStutters
<1> QED
  BY <1>1, <1>2, <1>3, <1>4, <1>5, <1>6 DEF StreamNext, Splits

\* However the chunks were cut, the parser of an open stream knows of the text that came
\* what that text means up to the end of some line, and holds the rest of it
\* (a2a.py:147-189).
THEOREM StreamInvariant == StreamSpec => []StreamInv
<1>1. StreamInit => StreamInv
  BY InitStreamInv
<1>2. StreamInv /\ [StreamNext]_streamVars => StreamInv'
  BY StreamStep
<1> QED
  BY <1>1, <1>2, PTL DEF StreamSpec

\* For every limit and every text: the client gets exactly the frames the text holds, an
\* error if and only if the text has one, and a quiet end only between two frames
\* (a2a.py:147-189).
THEOREM ChunksNeverMatter == StreamSpec => []ChunksDoNotMatter
<1>1. StreamInv => ChunksDoNotMatter
  BY DEF StreamInv
<1> QED
  BY <1>1, StreamInvariant, PTL
===============================================================================
