------------------------------ MODULE EventStream ------------------------------
(***************************************************************************)
(* The event stream of A2AHTTPTransport.stream (a2a.py): bytes come in     *)
(* chunks cut anywhere, _sse_lines splits them into lines and stream       *)
(* assembles the data lines between blank lines into frames.               *)
(*                                                                         *)
(* A text is a sequence of symbols: the line endings, the byte order mark, *)
(* the prefix "data:", and a JSON document.  Each counts one against the   *)
(* limit.  The chunks of httpx are never empty.                            *)
(***************************************************************************)
EXTENDS Naturals, Sequences, FiniteSets, SequencesExt

CONSTANTS
  Limit,         \* 8 MiB
  MaxLength      \* bound: symbols the peer sends

ASSUME EventStreamAssumption == Limit \in Nat /\ MaxLength \in Nat

CR == "CR"
LF == "LF"
BOM == "BOM"
Data == "data:"
Json == "json"

Symbols == {CR, LF, BOM, Data, Json}

VARIABLES
  status,        \* connecting, waiting for a chunk, splitting it, raised or ended
  pending,       \* bytes of no complete line yet
  first,         \* no line was taken
  skip_lf,       \* the last line ended with a CR, the last byte there was
  data,          \* data lines of the frame being assembled
  size,          \* of that frame, with the lines that are no data
  frames,        \* given to the client
  read           \* history variable: every symbol that came

streamVars == <<status, pending, first, skip_lf, data, size, frames, read>>

-------------------------------------------------------------------------------
Raise == status' = "raised" /\ UNCHANGED <<data, size, frames>>

\* The status, the redirect or the content type is wrong, or the stream begins.
Connect ==
  /\ status = "connecting"
  /\ status' \in {"waiting", "raised"}
  /\ UNCHANGED <<pending, first, skip_lf, data, size, frames, read>>

Trimmed_Never(chunk) == chunk
Trimmed(chunk) == IF skip_lf /\ Head(chunk) = LF THEN Tail(chunk) ELSE chunk

Arrive(chunk) ==
  /\ status = "waiting"
  /\ status' = "splitting"
  /\ pending' = pending \o Trimmed(chunk)
  /\ skip_lf' = FALSE
  /\ read' = read \o chunk
  /\ UNCHANGED <<first, data, size, frames>>

Endings == {i \in DOMAIN pending : pending[i] \in {CR, LF}}
Ending == CHOOSE i \in Endings : \A k \in Endings : i <= k
Width == IF pending[Ending] = CR /\ Ending < Len(pending) /\ pending[Ending + 1] = LF
         THEN 2 ELSE 1

WithoutMark(s) == IF s # << >> /\ Head(s) = BOM THEN Tail(s) ELSE s

\* The data lines, joined, are one document; json.loads drops a leading mark.
IsDocument(lines) ==
  LET text == WithoutMark(FoldLeft(LAMBDA all, l : all \o <<LF>> \o l, Head(lines), Tail(lines)))
  IN  SelectSeq(text, LAMBDA s : s # LF) = <<Json>>

\* One line of a frame.
Assemble(line) ==
  LET total == size + Len(line) + 1
  IN  IF total > Limit THEN Raise
      ELSE IF line = << >>
      THEN IF data # << >> /\ ~IsDocument(data) THEN Raise
           ELSE /\ frames' = IF data = << >> THEN frames ELSE Append(frames, data)
                /\ data' = << >> /\ size' = 0
                /\ UNCHANGED status
      ELSE /\ data' = IF Head(line) = Data THEN Append(data, Tail(line)) ELSE data
           /\ size' = total
           /\ UNCHANGED <<frames, status>>

\* A CR ends a line at once; an LF that follows in the next chunk is skipped.
TakeLine ==
  /\ status = "splitting" /\ Endings # {}
  /\ LET line == SubSeq(pending, 1, Ending - 1)
         last == Ending + Width - 1
     IN  IF Ending - 1 > Limit
         THEN Raise /\ UNCHANGED <<pending, first, skip_lf>>
         ELSE /\ pending' = SubSeq(pending, last + 1, Len(pending))
              /\ skip_lf' = (pending[last] = CR /\ last = Len(pending))
              /\ first' = FALSE
              /\ Assemble(IF first THEN WithoutMark(line) ELSE line)
  /\ UNCHANGED read

LinesTaken ==
  /\ status = "splitting" /\ Endings = {}
  /\ status' = IF Len(pending) > Limit THEN "raised" ELSE "waiting"
  /\ UNCHANGED <<pending, first, skip_lf, data, size, frames, read>>

End ==
  /\ status = "waiting"
  /\ status' = IF pending # << >> \/ data # << >> THEN "raised" ELSE "ended"
  /\ UNCHANGED <<pending, first, skip_lf, data, size, frames, read>>

StreamInit ==
  /\ status = "connecting"
  /\ pending = << >> /\ first = TRUE /\ skip_lf = FALSE
  /\ data = << >> /\ size = 0 /\ frames = << >>
  /\ read = << >>

Splits == Connect \/ TakeLine \/ LinesTaken \/ End

StreamNext ==
  \/ Splits
  \/ \E n \in 1..(MaxLength - Len(read)) : \E chunk \in [1..n -> Symbols] : Arrive(chunk)

StreamSpec == StreamInit /\ [][StreamNext]_streamVars

-------------------------------------------------------------------------------
\* What a text means, however it was cut

\* Ends(t) are the symbols that end a line, Skipped(t) the LF of a CRLF.
Skipped(t) == {i \in 2..Len(t) : t[i] = LF /\ t[i - 1] = CR}
Ends(t) == {i \in DOMAIN t : t[i] \in {CR, LF}} \ Skipped(t)

\* What stands between an end and the one before it.
LineAt(t, i) ==
  LET before == {e \in Ends(t) : e < i}
      line == {k \in 1..(i - 1) : k \notin Skipped(t) /\ \A e \in before : e < k}
      length == Cardinality(line)
      text == [k \in 1..length |-> t[i - length + k - 1]]
  IN  IF before = {} THEN WithoutMark(text) ELSE text

Blanks(t) == {i \in Ends(t) : LineAt(t, i) = << >>}

\* The ends of the lines of the frame that holds the line ended by i, up to it.
FrameLines(t, i) ==
  LET before == {b \in Blanks(t) : b < i}
  IN  {k \in Ends(t) : k <= i /\ \A b \in before : b < k}

\* A set of numbers as a list, the least first.
Nth(S, n) == {k \in S : Cardinality({m \in S : m <= k}) = n}
Ascending(S) == [n \in 1..Cardinality(S) |-> CHOOSE k \in Nth(S, n) : TRUE]

IsData(t, k) == LineAt(t, k) # << >> /\ Head(LineAt(t, k)) = Data

DataLines(t, i) ==
  LET lines == Ascending({k \in FrameLines(t, i) : IsData(t, k)})
  IN  [n \in DOMAIN lines |-> Tail(LineAt(t, lines[n]))]

FrameSize(t, i) ==
  LET lines == FrameLines(t, i)
  IN  SumFunctionOnSet([k \in lines |-> Len(LineAt(t, k)) + 1], lines)

\* Where a text goes wrong.
Faults(t) ==
  {i \in Ends(t) :
     \/ FrameSize(t, i) > Limit
     \/ i \in Blanks(t) /\ DataLines(t, i) # << >> /\ ~IsDocument(DataLines(t, i))}

Frames(t) ==
  LET faults == Faults(t)
      whole == {b \in Blanks(t) : DataLines(t, b) # << >> /\ \A f \in faults : b < f}
      order == Ascending(whole)
  IN  [n \in DOMAIN order |-> DataLines(t, order[n])]

\* The line and the frame that are still open at the end of a text.
OpenLine(t) ==
  {k \in DOMAIN t : k \notin Skipped(t) /\ \A e \in Ends(t) : e < k}
OpenFrame(t) ==
  {e \in Ends(t) : IsData(t, e) /\ \A b \in Blanks(t) : b < e}
Sound(t) == Faults(t) = {} /\ Cardinality(OpenLine(t)) <= Limit

\* However the bytes of a stream are cut into chunks, the client gets exactly the
\* frames its text holds, each as soon as its blank line came; it is told of an
\* error if and only if the text has one, and a stream ends quietly only between
\* two frames (a2a.py:147-189).
ChunksDoNotMatter ==
  /\ status \in {"waiting", "raised", "ended"} => frames = Frames(read)
  /\ status \in {"waiting", "ended"} => Sound(read)
  /\ status = "ended" => OpenLine(read) = {} /\ OpenFrame(read) = {}
  /\ status = "raised" /\ read # << >> =>
       ~Sound(read) \/ OpenLine(read) # {} \/ OpenFrame(read) # {}
===============================================================================
