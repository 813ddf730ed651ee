------------------------------- MODULE A2AProofs -------------------------------
(***************************************************************************)
(* Proofs about A2AClient, for any calls, peers, tasks and requests and    *)
(* any number of frames, crashes and failures of the journal: the close    *)
(* fence, the finality of receipts, one owner per task, nothing sent to a  *)
(* task that ended, and the recording of failures.                         *)
(*                                                                         *)
(* A step appends at most one entry to the journal.  The invariant relates *)
(* the journal to where the coroutines stand and to the engine's tasks.    *)
(***************************************************************************)
EXTENDS A2AClient, TLAPS, SequenceTheorems

\* A call has one dispatch, and every entry belongs to a call that has one.
Once(h) ==
  \A i, j \in DOMAIN h :
    h[i].kind = "dispatch" /\ h[j].kind = "dispatch" /\ h[i].id = h[j].id => i = j

Rooted(h) == \A i \in DOMAIN h : Dispatched(h, h[i].id)

Carried(h) ==
  \A i \in DOMAIN h :
    /\ h[i].kind = "dispatch" => h[i].request \in Requests
    /\ h[i].kind \in {"task_update", "reconciled"} => h[i].frame \in Frames
    /\ h[i].kind # "failure"

JournalOK ==
  /\ journal \in Seq(Entries)
  /\ Once(journal) /\ Rooted(journal) /\ Carried(journal)

StateOK ==
  /\ DOMAIN state.tasks \subseteq Peers \X TaskIds
  /\ state.tasks \in [DOMAIN state.tasks -> Tasks]
  /\ DOMAIN state.contexts \subseteq Peers \X ContextIds
  /\ state.contexts \in [DOMAIN state.contexts -> Owned]
  /\ DOMAIN state.responses \subseteq Calls
  /\ state.responses \in [DOMAIN state.responses -> Targets]

\* Coroutines that have not answered for their call yet.
Live == {"wire", "finish", "yielded", "fail"}

Stores == {"up", "down", "stuck"}

HostOK ==
  /\ hostUp \in BOOLEAN /\ store \in Stores
  /\ pending \subseteq Calls /\ wire \subseteq Calls /\ settled \subseteq Calls
  /\ pc \in [Calls -> PCs]
  /\ frames \in 0..MaxFrames /\ faults \in 0..MaxFaults
  /\ ~hostUp => pending = {}

CallOK(c) ==
  /\ pc[c] \notin Finished => c \in pending /\ Dispatched(journal, c)
  /\ pc[c] = "new" => ~Dispatched(journal, c)
  /\ c \in wire => /\ pc[c] \in Live \cup {"close", "closeThenTell"}
                   /\ pc[c] # "wire" => Request(c).stream
  /\ pc[c] \in Live => ~Has(journal, c, {"unknown", "reconciled"})
  /\ Has(journal, c, {"reconciled"}) => pc[c] = "done"

Moves(x) == x.kind \in {"task_update", "reconciled"} /\ x.frame.kind # "message"

\* The engine's table knows every task that moved, with the owner that moved it.
TableKnows ==
  \A i \in DOMAIN journal :
    LET k == <<Request(journal[i].id).peer, journal[i].frame.task>>
    IN  Moves(journal[i]) => /\ k \in DOMAIN state.tasks
                             /\ state.tasks[k].owner = Request(journal[i].id).owner

AInv ==
  /\ JournalOK /\ StateOK /\ HostOK
  /\ \A c \in Calls : CallOK(c)
  /\ TableKnows
  /\ ReceiptIsTheLastWord
  /\ NothingSentToEndedTasks

-------------------------------------------------------------------------------
\* Frames and entries.
LEMMA FrameFacts ==
  ASSUME NEW f \in Frames
  PROVE  /\ f.kind \in {"task", "statusUpdate", "artifactUpdate", "message"}
         /\ f.kind = "message" => f.task = NoTask /\ f.state = NoPhase
         /\ f.kind # "message" => f.task \in TaskIds /\ f.context \in ContextIds
         /\ f.kind = "artifactUpdate" => f.state = NoPhase
         /\ f.kind \in {"task", "statusUpdate"} => f.state \in Phases
         /\ f.task \in TaskIds \cup {NoTask} /\ f.context \in ContextIds \cup {NoContext}
  BY DEF Frames

LEMMA RequestFacts ==
  ASSUME NEW r \in Requests
  PROVE  /\ r.op \in Operations /\ r.stream \in BOOLEAN /\ r.owner \in Owners
         /\ r.peer \in Peers /\ r.resource \in Resources
         /\ r.task \in TaskIds \cup {NoTask} /\ r.context \in ContextIds \cup {NoContext}
  BY DEF Requests

\* One dispatch per call: the request is found at it.
LEMMA RequestIs ==
  ASSUME NEW h, Once(h), NEW i \in DOMAIN h, h[i].kind = "dispatch"
  PROVE  RequestOf(h, h[i].id) = h[i].request /\ Dispatched(h, h[i].id)
  BY DEF Once, RequestOf, DispatchOf, Dispatched

LEMMA RequestTyped ==
  ASSUME NEW h, Once(h), Carried(h), NEW c, Dispatched(h, c)
  PROVE  RequestOf(h, c) \in Requests
<1>1. PICK i \in DOMAIN h : h[i].kind = "dispatch" /\ h[i].id = c
  BY DEF Dispatched
<1> QED
  BY <1>1, RequestIs DEF Carried

\* What an entry at the end leaves as it was.
LEMMA AppendFacts ==
  ASSUME NEW h \in Seq(Entries), NEW x \in Entries
  PROVE  /\ Append(h, x) \in Seq(Entries) /\ Len(h) \in Nat
         /\ DOMAIN Append(h, x) = DOMAIN h \cup {Len(h) + 1}
         /\ Len(h) + 1 \notin DOMAIN h
         /\ Append(h, x)[Len(h) + 1] = x
         /\ \A i \in DOMAIN h : Append(h, x)[i] = h[i] /\ i < Len(h) + 1 /\ i \in Nat
<1>1. DOMAIN h = 1..Len(h) /\ Len(h) \in Nat
  BY LenProperties
<1>2. DOMAIN Append(h, x) = 1..(Len(h) + 1)
  BY <1>1, AppendProperties, LenProperties
<1>3. 1..(Len(h) + 1) = 1..Len(h) \cup {Len(h) + 1} /\ Len(h) + 1 \notin 1..Len(h)
  BY <1>1
<1> QED
  BY <1>1, <1>2, <1>3, AppendProperties

LEMMA HasAfter ==
  ASSUME NEW h \in Seq(Entries), NEW x \in Entries, NEW c, NEW K
  PROVE  Has(Append(h, x), c, K) <=> Has(h, c, K) \/ (x.id = c /\ x.kind \in K)
<1> DEFINE t == Append(h, x)
<1>1. /\ DOMAIN t = DOMAIN h \cup {Len(h) + 1} /\ t[Len(h) + 1] = x
      /\ \A i \in DOMAIN h : t[i] = h[i]
  BY AppendFacts
<1> HIDE DEF t
<1>2. Has(t, c, K) <=> Has(h, c, K) \/ (x.id = c /\ x.kind \in K)
  BY <1>1 DEF Has
<1> QED
  BY <1>2 DEF t

LEMMA DispatchedAfter ==
  ASSUME NEW h \in Seq(Entries), NEW x \in Entries, NEW c
  PROVE  Dispatched(Append(h, x), c) <=> Dispatched(h, c) \/ (x.id = c /\ x.kind = "dispatch")
<1> DEFINE t == Append(h, x)
<1>1. /\ DOMAIN t = DOMAIN h \cup {Len(h) + 1} /\ t[Len(h) + 1] = x
      /\ \A i \in DOMAIN h : t[i] = h[i]
  BY AppendFacts
<1> HIDE DEF t
<1>2. Dispatched(t, c) <=> Dispatched(h, c) \/ (x.id = c /\ x.kind = "dispatch")
  BY <1>1 DEF Dispatched
<1> QED
  BY <1>2 DEF t

\* An entry keeps the journal well formed if it dispatches a call that has no entry, or
\* is about one that was dispatched; the requests of earlier calls stay.
LEMMA JournalGrows ==
  ASSUME NEW h \in Seq(Entries), Once(h), Rooted(h), Carried(h), NEW x \in Entries,
         x.kind = "dispatch" => ~Dispatched(h, x.id) /\ x.request \in Requests,
         x.kind # "dispatch" => Dispatched(h, x.id),
         x.kind \in {"task_update", "reconciled"} => x.frame \in Frames,
         x.kind # "failure"
  PROVE  LET t == Append(h, x)
         IN  /\ t \in Seq(Entries) /\ Once(t) /\ Rooted(t) /\ Carried(t)
             /\ \A c : Dispatched(h, c) => RequestOf(t, c) = RequestOf(h, c)
             /\ x.kind = "dispatch" => RequestOf(t, x.id) = x.request
<1> DEFINE t == Append(h, x)
           n == Len(h) + 1
<1>1. /\ t \in Seq(Entries)
      /\ DOMAIN t = DOMAIN h \cup {n} /\ t[n] = x /\ n \notin DOMAIN h
      /\ \A i \in DOMAIN h : t[i] = h[i]
  BY AppendFacts
<1>2. \A c : Dispatched(t, c) <=> Dispatched(h, c) \/ (x.id = c /\ x.kind = "dispatch")
  BY DispatchedAfter
<1> HIDE DEF t, n
<1>3. Once(t)
  <2>1. \A i \in DOMAIN h : h[i].kind = "dispatch" => Dispatched(h, h[i].id)
    BY DEF Dispatched
  <2>2. ASSUME NEW i \in DOMAIN t, NEW j \in DOMAIN t,
               t[i].kind = "dispatch", t[j].kind = "dispatch", t[i].id = t[j].id
        PROVE  i = j
    <3>1. CASE i \in DOMAIN h /\ j \in DOMAIN h
      BY <1>1, <2>2, <3>1 DEF Once
    <3>2. CASE i = n /\ j \in DOMAIN h
      BY <1>1, <2>1, <2>2, <3>2
    <3>3. CASE j = n /\ i \in DOMAIN h
      BY <1>1, <2>1, <2>2, <3>3
    <3> QED
      BY <1>1, <3>1, <3>2, <3>3
  <2> QED
    BY <2>2 DEF Once
<1>4. Rooted(t)
  <2>1. \A i \in DOMAIN h : Dispatched(t, t[i].id)
    BY <1>1, <1>2 DEF Rooted
  <2>2. Dispatched(t, x.id)
    BY <1>2
  <2> QED
    BY <1>1, <2>1, <2>2 DEF Rooted
<1>5. Carried(t)
  BY <1>1 DEF Carried
<1>6. ASSUME NEW c, Dispatched(h, c) PROVE RequestOf(t, c) = RequestOf(h, c)
  <2>1. PICK i \in DOMAIN h : h[i].kind = "dispatch" /\ h[i].id = c
    BY <1>6 DEF Dispatched
  <2>2. RequestOf(h, c) = h[i].request
    BY <2>1, RequestIs
  <2>3. i \in DOMAIN t /\ t[i] = h[i]
    BY <1>1
  <2>4. RequestOf(t, c) = t[i].request
    BY <1>3, <2>1, <2>3, RequestIs
  <2> QED
    BY <2>2, <2>3, <2>4
<1>7. x.kind = "dispatch" => RequestOf(t, x.id) = x.request
  BY <1>1, <1>3, RequestIs
<1> QED
  BY <1>1, <1>3, <1>4, <1>5, <1>6, <1>7 DEF t

-------------------------------------------------------------------------------
\* The engine's table.
LEMMA ExtendTyped ==
  ASSUME NEW f, NEW k, NEW v, NEW S, NEW K, f \in [DOMAIN f -> S], v \in S,
         DOMAIN f \subseteq K, k \in K
  PROVE  /\ DOMAIN Extend(f, k, v) \subseteq K
         /\ Extend(f, k, v) \in [DOMAIN Extend(f, k, v) -> S]
  BY DEF Extend

LEMMA UpdateTyped ==
  ASSUME StateOK, NEW c \in Calls, NEW r \in Requests, NEW f \in Frames,
         state' = UpdateTask(state, c, r, f)
  PROVE  StateOK'
<1> DEFINE k == <<r.peer, f.task>>
           v == [owner |-> r.owner, resource |-> r.resource,
                 context |-> f.context, state |-> f.state]
           x == <<r.peer, f.context>>
           o == [owner |-> r.owner, resource |-> r.resource]
<1>1. /\ state'.tasks = IF f.kind \in {"task", "statusUpdate"} THEN Extend(state.tasks, k, v)
                        ELSE state.tasks
      /\ state'.contexts = IF f.context # NoContext /\ x \notin DOMAIN state.contexts
                           THEN Extend(state.contexts, x, o) ELSE state.contexts
      /\ state'.responses = IF c \in DOMAIN state.responses THEN state.responses
                            ELSE Extend(state.responses, c, TargetOf(f))
  BY DEF UpdateTask
<1>2. f.kind \in {"task", "statusUpdate"} => v \in Tasks /\ k \in Peers \X TaskIds
  BY FrameFacts, RequestFacts DEF Tasks
<1>3. f.context # NoContext => x \in Peers \X ContextIds
  BY FrameFacts, RequestFacts
<1>4. o \in Owned
  BY RequestFacts DEF Owned
<1>5. TargetOf(f) \in Targets
  BY FrameFacts DEF TargetOf, Targets
<1> HIDE DEF k, v, x, o
<1>6. /\ DOMAIN state'.tasks \subseteq Peers \X TaskIds
      /\ state'.tasks \in [DOMAIN state'.tasks -> Tasks]
  <2>1. CASE f.kind \in {"task", "statusUpdate"}
    <3>1. /\ DOMAIN Extend(state.tasks, k, v) \subseteq Peers \X TaskIds
          /\ Extend(state.tasks, k, v) \in [DOMAIN Extend(state.tasks, k, v) -> Tasks]
      BY <1>2, <2>1, ExtendTyped, Zenon DEF StateOK
    <3> QED
      BY <1>1, <2>1, <3>1
  <2>2. CASE f.kind \notin {"task", "statusUpdate"}
    BY <1>1, <2>2 DEF StateOK
  <2> QED
    BY <2>1, <2>2
<1>7. /\ DOMAIN state'.contexts \subseteq Peers \X ContextIds
      /\ state'.contexts \in [DOMAIN state'.contexts -> Owned]
  <2>1. CASE f.context # NoContext /\ x \notin DOMAIN state.contexts
    <3>1. /\ DOMAIN Extend(state.contexts, x, o) \subseteq Peers \X ContextIds
          /\ Extend(state.contexts, x, o) \in [DOMAIN Extend(state.contexts, x, o) -> Owned]
      BY <1>3, <1>4, <2>1, ExtendTyped, Zenon DEF StateOK
    <3> QED
      BY <1>1, <2>1, <3>1
  <2>2. CASE ~(f.context # NoContext /\ x \notin DOMAIN state.contexts)
    BY <1>1, <2>2 DEF StateOK
  <2> QED
    BY <2>1, <2>2
<1>8. /\ DOMAIN state'.responses \subseteq Calls
      /\ state'.responses \in [DOMAIN state'.responses -> Targets]
  BY <1>1, <1>5, ExtendTyped DEF StateOK
<1> QED
  BY <1>6, <1>7, <1>8 DEF StateOK

\* An accepted update keeps the owner of every task in the table, and puts the task it
\* moves under the owner of its call.
LEMMA UpdateOwner ==
  ASSUME NEW c, NEW r, NEW f \in Frames, MayUpdate(state, c, r, f),
         state' = UpdateTask(state, c, r, f)
  PROVE  /\ \A k \in DOMAIN state.tasks : /\ k \in DOMAIN state'.tasks
                                          /\ state'.tasks[k].owner = state.tasks[k].owner
         /\ f.kind # "message" => /\ <<r.peer, f.task>> \in DOMAIN state'.tasks
                                  /\ state'.tasks[<<r.peer, f.task>>].owner = r.owner
<1> DEFINE k == <<r.peer, f.task>>
           v == [owner |-> r.owner, resource |-> r.resource,
                 context |-> f.context, state |-> f.state]
<1>1. state'.tasks = IF f.kind \in {"task", "statusUpdate"} THEN Extend(state.tasks, k, v)
                     ELSE state.tasks
  BY DEF UpdateTask
<1>0. k = <<r.peer, f.task>>
  OBVIOUS
<1>2. f.kind # "message" => IF k \in DOMAIN state.tasks THEN state.tasks[k].owner = r.owner
                            ELSE f.kind = "task"
  BY DEF MayUpdate, OwnsTask, OwnedBy
<1>3. v.owner = r.owner /\ f.kind \in {"task", "statusUpdate", "artifactUpdate", "message"}
  BY FrameFacts
<1> HIDE DEF k, v
<1>4. CASE f.kind \in {"task", "statusUpdate"}
  <2> DEFINE t == Extend(state.tasks, k, v)
  <2>1. /\ state'.tasks = t /\ DOMAIN t = DOMAIN state.tasks \cup {k} /\ t[k] = v
        /\ \A y \in DOMAIN state.tasks : y # k => t[y] = state.tasks[y]
    <3>1. /\ DOMAIN t = DOMAIN state.tasks \cup {k} /\ t[k] = v
          /\ \A y \in DOMAIN state.tasks : y # k => t[y] = state.tasks[y]
      BY DEF Extend
    <3> QED
      BY <1>1, <1>4, <3>1
  <2>2. k \in DOMAIN state.tasks => state.tasks[k].owner = r.owner
    BY <1>2, <1>3, <1>4
  <2> HIDE DEF t
  <2> QED
    BY <1>0, <1>3, <2>1, <2>2
<1>5. CASE f.kind \notin {"task", "statusUpdate"}
  BY <1>0, <1>1, <1>2, <1>3, <1>5
<1> QED
  BY <1>4, <1>5

\* An entry that keeps all that concerns the journal and the table.
GoodEntry(x) ==
  /\ x \in Entries /\ x.kind # "failure"
  /\ journal' = Append(journal, x)
  /\ ~Has(journal, x.id, {"reconciled"})
  /\ IF x.kind = "dispatch"
     THEN /\ ~Dispatched(journal, x.id) /\ x.request \in Requests
          /\ Decide(journal, state, x.request)
          /\ state' = state
     ELSE /\ Accepts(journal, state, x)
          /\ state' = Apply(journal, state, x)
          /\ x.kind \in {"task_update", "reconciled"} => x.frame \in Frames

LEMMA EntryJournal ==
  ASSUME AInv, NEW x, GoodEntry(x)
  PROVE  /\ JournalOK'
         /\ \A c : Dispatched(journal, c) => Request(c)' = Request(c) /\ Request(c) \in Requests
         /\ x.kind = "dispatch" => Request(x.id)' = x.request
         /\ \A i \in DOMAIN journal : Dispatched(journal, journal[i].id)
<1>1. /\ x \in Entries /\ journal \in Seq(Entries) /\ Once(journal) /\ Rooted(journal)
      /\ Carried(journal) /\ journal' = Append(journal, x)
  BY DEF AInv, JournalOK, GoodEntry
<1>2. /\ x.kind = "dispatch" => ~Dispatched(journal, x.id) /\ x.request \in Requests
      /\ x.kind # "dispatch" => Dispatched(journal, x.id)
      /\ x.kind \in {"task_update", "reconciled"} => x.frame \in Frames
      /\ x.kind # "failure"
  BY DEF GoodEntry, Accepts
<1>3. /\ journal' \in Seq(Entries) /\ Once(journal') /\ Rooted(journal') /\ Carried(journal')
      /\ \A c : Dispatched(journal, c) => RequestOf(journal', c) = RequestOf(journal, c)
      /\ x.kind = "dispatch" => RequestOf(journal', x.id) = x.request
  BY <1>1, <1>2, JournalGrows
<1>4. \A c : Dispatched(journal, c) => RequestOf(journal, c) \in Requests
  BY <1>1, RequestTyped
<1> QED
  BY <1>1, <1>3, <1>4 DEF JournalOK, Request, Rooted

LEMMA EntryState == ASSUME AInv, NEW x, GoodEntry(x) PROVE StateOK' /\ TableKnows'
<1> DEFINE n == Len(journal) + 1
           f == x.frame
           r == Request(x.id)
<1>1. /\ DOMAIN journal' = DOMAIN journal \cup {n} /\ journal'[n] = x
      /\ \A i \in DOMAIN journal : journal'[i] = journal[i]
  BY AppendFacts DEF AInv, JournalOK, GoodEntry
<1>2. /\ \A i \in DOMAIN journal : Request(journal[i].id)' = Request(journal[i].id)
      /\ \A c : Dispatched(journal, c) => Request(c)' = Request(c) /\ Request(c) \in Requests
  BY <1>1, EntryJournal
<1> HIDE DEF n
<1>3. StateOK /\ TableKnows /\ x.id \in Calls
  BY DEF AInv, GoodEntry, Entries
<1>4. CASE x.kind \notin {"task_update", "reconciled"}
  <2>1. state' = state
    BY <1>4 DEF GoodEntry, Apply
  <2>2. StateOK'
    BY <1>3, <2>1 DEF StateOK
  <2>3. TableKnows'
    BY <1>1, <1>2, <1>3, <1>4, <2>1 DEF TableKnows, Moves
  <2> QED
    BY <2>2, <2>3
<1>5. CASE x.kind \in {"task_update", "reconciled"}
  <2>1. /\ f \in Frames /\ MayUpdate(state, x.id, r, f) /\ Dispatched(journal, x.id)
        /\ state' = UpdateTask(state, x.id, r, f)
    BY <1>5 DEF GoodEntry, Accepts, Apply, Request
  <2>2. r \in Requests /\ Request(x.id)' = r
    BY <1>2, <2>1
  <2> HIDE DEF f, r
  <2>3. StateOK'
    BY <1>3, <2>1, <2>2, UpdateTyped
  <2>4. /\ \A k \in DOMAIN state.tasks : /\ k \in DOMAIN state'.tasks
                                         /\ state'.tasks[k].owner = state.tasks[k].owner
        /\ f.kind # "message" => /\ <<r.peer, f.task>> \in DOMAIN state'.tasks
                                 /\ state'.tasks[<<r.peer, f.task>>].owner = r.owner
    BY <2>1, UpdateOwner
  <2>5. \A i \in DOMAIN journal :
          LET k == <<Request(journal[i].id)'.peer, journal'[i].frame.task>>
          IN  Moves(journal'[i]) => /\ k \in DOMAIN state'.tasks
                                    /\ state'.tasks[k].owner = Request(journal[i].id)'.owner
    BY <1>1, <1>2, <1>3, <2>4 DEF TableKnows
  <2>6. LET k == <<Request(x.id)'.peer, x.frame.task>>
        IN  Moves(x) => /\ k \in DOMAIN state'.tasks
                        /\ state'.tasks[k].owner = Request(x.id)'.owner
    BY <2>2, <2>4 DEF Moves, f
  <2>7. TableKnows'
    BY <1>1, <2>5, <2>6 DEF TableKnows, Moves
  <2> QED
    BY <2>3, <2>7
<1> QED
  BY <1>4, <1>5

LEMMA EntryLast == ASSUME AInv, NEW x, GoodEntry(x) PROVE ReceiptIsTheLastWord'
<1> DEFINE n == Len(journal) + 1
<1>1. /\ DOMAIN journal' = DOMAIN journal \cup {n} /\ journal'[n] = x /\ n \in Nat
      /\ \A i \in DOMAIN journal : journal'[i] = journal[i] /\ i < n /\ i \in Nat
  BY AppendFacts DEF AInv, JournalOK, GoodEntry
<1> HIDE DEF n
<1>2. \A i \in DOMAIN journal : journal[i].kind = "reconciled" => journal[i].id # x.id
  BY DEF GoodEntry, Has
<1>3. ReceiptIsTheLastWord
  BY DEF AInv
<1>4. ASSUME NEW i \in DOMAIN journal', NEW j \in DOMAIN journal',
             journal'[i].kind = "reconciled", journal'[j].id = journal'[i].id
      PROVE  j <= i
  <2>1. CASE i = n
    BY <1>1, <2>1
  <2>2. CASE i \in DOMAIN journal /\ j = n
    BY <1>1, <1>2, <1>4, <2>2
  <2>3. CASE i \in DOMAIN journal /\ j \in DOMAIN journal
    BY <1>1, <1>3, <1>4, <2>3 DEF ReceiptIsTheLastWord
  <2> QED
    BY <1>1, <2>1, <2>2, <2>3
<1> QED
  BY <1>4 DEF ReceiptIsTheLastWord

LEMMA EntrySent == ASSUME AInv, NEW x, GoodEntry(x) PROVE NothingSentToEndedTasks'
<1> DEFINE n == Len(journal) + 1
           ended == {"completed", "canceled", "rejected", "failed"}
<1>1. /\ DOMAIN journal' = DOMAIN journal \cup {n} /\ journal'[n] = x /\ n \in Nat
      /\ \A i \in DOMAIN journal : journal'[i] = journal[i] /\ i < n /\ i \in Nat
  BY AppendFacts DEF AInv, JournalOK, GoodEntry
<1>2. /\ \A i \in DOMAIN journal : Request(journal[i].id)' = Request(journal[i].id)
      /\ x.kind = "dispatch" => Request(x.id)' = x.request
  BY <1>1, EntryJournal
<1> HIDE DEF n
<1>3. NothingSentToEndedTasks /\ Carried(journal)
  BY DEF AInv, JournalOK
<1>4. SUFFICES ASSUME NEW i \in DOMAIN journal', NEW j \in DOMAIN journal',
               i < j,
               journal'[j].kind = "dispatch",
               journal'[j].request.op \in {"a2a.send", "a2a.subscribe"},
               journal'[j].request.task # NoTask,
               journal'[i].kind \in {"task_update", "reconciled"},
               journal'[i].frame.task = journal'[j].request.task,
               RequestOf(journal', journal'[i].id).peer = journal'[j].request.peer
        PROVE  journal'[i].frame.state \notin ended
  BY DEF NothingSentToEndedTasks, Request
<1>5. i \in DOMAIN journal
  BY <1>1, <1>4
<1>6. CASE j \in DOMAIN journal
  <2>1. journal'[i] = journal[i] /\ journal'[j] = journal[j]
    BY <1>1, <1>5, <1>6
  <2>2. RequestOf(journal', journal[i].id) = Request(journal[i].id)
    BY <1>2, <1>5, <2>1 DEF Request
  <2> QED
    BY <1>3, <1>4, <1>5, <1>6, <2>1, <2>2 DEF NothingSentToEndedTasks
<1>7. CASE j = n
  <2>1. x.kind = "dispatch" /\ x.request.op \in {"a2a.send", "a2a.subscribe"}
        /\ x.request.task # NoTask
    BY <1>1, <1>4, <1>7
  <2>2. TaskOpen(journal, x.request)
    BY <2>1 DEF GoodEntry, Decide
  <2>3. ~TaskTerminalEvent(journal, i, x.request.peer, x.request.task)
    BY <1>5, <2>1, <2>2 DEF TaskOpen
  <2>4. journal[i].frame \in Frames /\ journal[i].kind \in {"task_update", "reconciled"}
    BY <1>1, <1>3, <1>4, <1>5 DEF Carried
  <2>5. /\ RequestOf(journal, journal[i].id).peer = x.request.peer
        /\ journal[i].frame.task = x.request.task
    BY <1>1, <1>2, <1>4, <1>5, <1>7 DEF Request
  <2>6. journal[i].frame.kind \in {"task", "statusUpdate"} =>
          ~Terminal(journal[i].frame.state)
    BY <2>3, <2>4, <2>5 DEF TaskTerminalEvent
  <2>7. journal[i].frame.state \in ended => journal[i].frame.kind \in {"task", "statusUpdate"}
    BY <2>4, FrameFacts, TaskAssumption DEF AllPhases
  <2> QED
    BY <1>1, <1>5, <2>6, <2>7 DEF Terminal
<1> QED
  BY <1>1, <1>6, <1>7

\* Coroutines that a step leaves alone.
LEMMA OthersOK ==
  ASSUME AInv, NEW c \in Calls,
         journal' = journal \/ \E x : GoodEntry(x) /\ x.id # c,
         pc'[c] = pc[c], c \in pending' <=> c \in pending, c \in wire' => c \in wire
  PROVE  CallOK(c)'
<1>1. CallOK(c)
  BY DEF AInv
<1>2. CASE journal' = journal
  BY <1>1, <1>2 DEF CallOK, Request
<1>3. CASE \E x : GoodEntry(x) /\ x.id # c
  <2>1. PICK x : GoodEntry(x) /\ x.id # c
    BY <1>3
  <2>2. /\ Dispatched(journal, c)' <=> Dispatched(journal, c)
        /\ \A K : Has(journal', c, K) <=> Has(journal, c, K)
    BY <2>1, HasAfter, DispatchedAfter DEF GoodEntry, AInv, JournalOK
  <2>3. Dispatched(journal, c) => Request(c)' = Request(c)
    BY <2>1, EntryJournal
  <2>4. c \in wire => pc[c] \notin Finished
    BY <1>1 DEF CallOK, Live, Finished
  <2> QED
    BY <1>1, <2>2, <2>3, <2>4 DEF CallOK
<1> QED
  BY <1>2, <1>3

\* A step of one coroutine or of the host.
LEMMA StepOK ==
  ASSUME AInv, NEW c \in Calls,
         \/ journal' = journal /\ state' = state
         \/ \E x : GoodEntry(x) /\ x.id = c,
         HostOK', CallOK(c)',
         \A d \in Calls : d # c => /\ pc'[d] = pc[d]
                                   /\ d \in pending' <=> d \in pending
                                   /\ d \in wire' => d \in wire
  PROVE  AInv'
<1>1. \A d \in Calls : CallOK(d)'
  <2>1. ASSUME NEW d \in Calls, d # c PROVE CallOK(d)'
    BY <2>1, OthersOK
  <2> QED
    BY <2>1
<1>2. CASE journal' = journal /\ state' = state
  <2>1. JournalOK' /\ StateOK' /\ TableKnows'
    BY <1>2 DEF AInv, JournalOK, StateOK, TableKnows, Request
  <2>2. ReceiptIsTheLastWord' /\ NothingSentToEndedTasks'
    BY <1>2 DEF AInv, ReceiptIsTheLastWord, NothingSentToEndedTasks, Request
  <2> QED
    BY <1>1, <2>1, <2>2 DEF AInv
<1>3. CASE \E x : GoodEntry(x) /\ x.id = c
  <2>1. PICK x : GoodEntry(x)
    BY <1>3
  <2> QED
    BY <1>1, <2>1, EntryJournal, EntryState, EntryLast, EntrySent DEF AInv
<1> QED
  BY <1>2, <1>3

-------------------------------------------------------------------------------
\* What a coroutine in progress records about its call.
CoroutineKinds == {"task_update", "success", "unknown", "stream_error"}

LEMMA EventEntry ==
  ASSUME NEW kind \in CoroutineKinds, NEW c \in Calls, NEW f \in Frames \cup {NoFrame}
  PROVE  /\ Event(kind, c, f) \in Entries /\ Event(kind, c, f).id = c
         /\ Event(kind, c, f).kind = kind /\ Event(kind, c, f).frame = f
  BY DEF Event, Entries, CoroutineKinds, OutcomeKinds

\* The engine accepted the event, and its row is committed.
Written(e) == Accepts(journal, state, e) /\ Row(e)

LEMMA EventGood ==
  ASSUME AInv, NEW c \in Calls, pc[c] \notin Finished,
         NEW kind \in CoroutineKinds, NEW f \in Frames \cup {NoFrame},
         kind = "task_update" => f \in Frames,
         Written(Event(kind, c, f))
  PROVE  /\ GoodEntry(Event(kind, c, f))
         /\ Dispatched(journal, c)' /\ Request(c)' = Request(c)
         /\ \A K : Has(journal', c, K) <=> Has(journal, c, K) \/ kind \in K
<1> DEFINE e == Event(kind, c, f)
<1>1. e \in Entries /\ e.id = c /\ e.kind = kind /\ e.frame = f
  BY EventEntry
<1>2. /\ Accepts(journal, state, e) /\ journal' = Append(journal, e)
      /\ state' = Apply(journal, state, e)
  BY DEF Written, Row
<1> HIDE DEF e
<1>3. ~Has(journal, c, {"reconciled"}) /\ Dispatched(journal, c) /\ journal \in Seq(Entries)
  BY DEF AInv, CallOK, Finished, JournalOK
<1>4. kind # "dispatch" /\ kind # "failure" /\ kind # "reconciled"
  BY DEF CoroutineKinds
<1>5. GoodEntry(e)
  BY <1>1, <1>2, <1>3, <1>4 DEF GoodEntry
<1>6. Dispatched(journal, c)' /\ \A K : Has(journal', c, K) <=> Has(journal, c, K) \/ kind \in K
  BY <1>1, <1>2, <1>3, HasAfter, DispatchedAfter
<1>7. Request(c)' = Request(c)
  BY <1>3, <1>5, EntryJournal
<1> QED
  BY <1>5, <1>6, <1>7 DEF e

\* What recording, or failing to, leaves of the host.
Bounded ==
  /\ faults' \in 0..MaxFaults /\ frames' \in 0..MaxFrames
  /\ store' \in Stores /\ settled' \subseteq Calls

LEMMA Counts ==
  ASSUME AInv, UNCHANGED frames \/ (frames < MaxFrames /\ frames' = frames + 1),
         settled' \subseteq Calls, store' \in Stores, UNCHANGED faults \/ FaultHappens
  PROVE  Bounded
  BY ClientAssumption DEF AInv, HostOK, FaultHappens, Bounded

\* An attempt to record writes the row or leaves journal and table alone.
LEMMA Attempt ==
  ASSUME AInv, NEW e, NEW accepted,
         Record(e) \/ NotTaken(accepted) \/ Fails \/ CommitInterrupted(e)
  PROVE  /\ Written(e) \/ UNCHANGED <<journal, state>>
         /\ store' \in Stores /\ (UNCHANGED faults \/ FaultHappens)
<1>1. store \in Stores
  BY DEF AInv, HostOK
<1>2. CASE Record(e)
  BY <1>1, <1>2 DEF Record, Written
<1>3. CASE NotTaken(accepted)
  BY <1>1, <1>3 DEF NotTaken, Stores
<1>4. CASE Fails
  BY <1>4 DEF Fails, Stores
<1>5. CASE CommitInterrupted(e)
  BY <1>5 DEF CommitInterrupted, Interrupted, Written, Stores
<1> QED
  BY <1>2, <1>3, <1>4, <1>5

\* The coroutine's place and the transport's calls change, nothing else of the host.
LEMMA PlaceOK ==
  ASSUME AInv, NEW c \in Calls, NEW l \in PCs, Goto(c, l),
         wire' = wire \/ wire' = wire \ {c},
         UNCHANGED <<hostUp, pending>>, Bounded
  PROVE  /\ HostOK' /\ pc'[c] = l
         /\ \A d \in Calls : d # c => /\ pc'[d] = pc[d]
                                      /\ d \in pending' <=> d \in pending
                                      /\ d \in wire' => d \in wire
  BY DEF AInv, HostOK, Goto, Bounded

\* A step that only moves the coroutine keeps the bounds.
LEMMA BoundsStay ==
  ASSUME AInv, UNCHANGED <<store, settled, frames, faults>>
  PROVE  Bounded
  BY DEF AInv, HostOK, Bounded

LEMMA ReceiveStep ==
  ASSUME AInv, NEW c \in Calls, ReceiveFails(c) \/ \E f \in Frames : Receive(c, f) PROVE AInv'
<1>1. /\ pc[c] = "wire" /\ UNCHANGED <<hostUp, pending>>
      /\ frames < MaxFrames /\ frames' = frames + 1 /\ UNCHANGED settled
      /\ wire' = IF Request(c).stream THEN wire ELSE wire \ {c}
  BY DEF Receive, ReceiveFails, Arrives
<1>2. pc[c] \notin Finished /\ CallOK(c) /\ "task_update" \in CoroutineKinds
      /\ settled' \subseteq Calls
  BY <1>1 DEF Finished, AInv, CoroutineKinds, HostOK
<1>3. PICK l \in {"yielded", "finish", "fail"}, f \in Frames \cup {NoFrame} :
        /\ Goto(c, l)
        /\ \/ f \in Frames /\ Written(Event("task_update", c, f))
           \/ UNCHANGED <<journal, state>>
        /\ store' \in Stores /\ (UNCHANGED faults \/ FaultHappens)
  <2>1. CASE ReceiveFails(c)
    <3>1. Fails /\ Goto(c, "fail")
      BY <2>1 DEF ReceiveFails
    <3> QED
      BY <3>1 DEF Fails, Stores
  <2>2. CASE \E f \in Frames : Receive(c, f)
    <3>1. PICK f \in Frames : Receive(c, f)
      BY <2>2
    <3> DEFINE e == Event("task_update", c, f)
               after == IF c \in settled THEN "yielded" ELSE "finish"
    <3>2. CASE Request(c).stream => InOrder(c, f)
      <4>1. \/ Record(e) /\ Goto(c, after)
            \/ NotTaken(Accepts(journal, state, e)) /\ Goto(c, "fail")
            \/ CommitInterrupted(e) /\ Goto(c, "fail")
        BY <3>1, <3>2 DEF Receive
      <4>2. after \in {"yielded", "finish"}
        OBVIOUS
      <4> HIDE DEF e, after
      <4>3. /\ Written(e) \/ UNCHANGED <<journal, state>>
            /\ store' \in Stores /\ (UNCHANGED faults \/ FaultHappens)
        BY <4>1, Attempt
      <4> QED
        BY <4>1, <4>2, <4>3 DEF e
    <3>3. CASE ~(Request(c).stream => InOrder(c, f))
      <4>1. Goto(c, "fail") /\ UNCHANGED <<log, faults>>
        BY <3>1, <3>3 DEF Receive
      <4> QED
        BY <4>1 DEF log, AInv, HostOK
    <3> QED
      BY <3>2, <3>3
  <2> QED
    BY <2>1, <2>2
<1>4. /\ HostOK' /\ pc'[c] = l
      /\ \A d \in Calls : d # c => /\ pc'[d] = pc[d]
                                   /\ d \in pending' <=> d \in pending
                                   /\ d \in wire' => d \in wire
  <2>1. Bounded
    BY <1>1, <1>2, <1>3, Counts
  <2> QED
    BY <1>1, <1>3, <2>1, PlaceOK DEF PCs
<1>5. CASE f \in Frames /\ Written(Event("task_update", c, f))
  <2>1. /\ GoodEntry(Event("task_update", c, f)) /\ Event("task_update", c, f).id = c
        /\ Dispatched(journal, c)' /\ Request(c)' = Request(c)
        /\ \A K : Has(journal', c, K) <=> Has(journal, c, K) \/ "task_update" \in K
    BY <1>2, <1>5, EventGood, EventEntry
  <2>2. CallOK(c)'
    BY <1>1, <1>2, <1>3, <1>4, <2>1 DEF CallOK, Live, Finished
  <2> QED
    BY <1>4, <2>1, <2>2, StepOK
<1>6. CASE UNCHANGED <<journal, state>>
  <2>1. CallOK(c)'
    BY <1>1, <1>2, <1>3, <1>4, <1>6 DEF CallOK, Live, Finished, Request
  <2> QED
    BY <1>4, <1>6, <2>1, StepOK
<1> QED
  BY <1>3, <1>5, <1>6

LEMMA WireStep ==
  ASSUME AInv, NEW c \in Calls, WireFails(c) \/ StreamEnds(c) PROVE AInv'
<1>1. /\ pc[c] = "wire"
      /\ UNCHANGED <<journal, state, store, settled, hostUp, pending, frames, faults>>
      /\ wire' = wire \/ wire' = wire \ {c}
      /\ c \in wire' => Request(c).stream
  BY DEF WireFails, StreamEnds, log
<1>2. PICK l \in {"fail", "close"} : Goto(c, l)
  BY DEF WireFails, StreamEnds
<1>3. Bounded /\ CallOK(c)
  BY <1>1, BoundsStay DEF AInv
<1>4. /\ HostOK' /\ pc'[c] = l
      /\ \A d \in Calls : d # c => /\ pc'[d] = pc[d]
                                   /\ d \in pending' <=> d \in pending
                                   /\ d \in wire' => d \in wire
  BY <1>1, <1>2, <1>3, PlaceOK DEF PCs
<1>5. CallOK(c)'
  BY <1>1, <1>3, <1>4 DEF CallOK, Live, Finished, Request
<1> QED
  BY <1>1, <1>4, <1>5, StepOK

\* Finish and Fail: an outcome is recorded, or it is not.
LEMMA FinishStep == ASSUME AInv, NEW c \in Calls, Finish(c) PROVE AInv'
<1> DEFINE e == Event("success", c, NoFrame)
<1>1. /\ pc[c] = "finish" /\ UNCHANGED <<hostUp, pending, wire, frames>>
      /\ settled' \subseteq Calls
  BY DEF Finish, AInv, HostOK
<1>2. pc[c] \notin Finished /\ CallOK(c) /\ "success" \in CoroutineKinds
  BY <1>1 DEF Finished, AInv, CoroutineKinds
<1>3. PICK l \in {"yielded", "release", "fail"} :
        /\ Goto(c, l) /\ (l = "release" => ~Request(c).stream)
        /\ Record(e) \/ Raises(e)
  BY DEF Finish
<1>4. /\ Written(e) \/ UNCHANGED <<journal, state>>
      /\ store' \in Stores /\ (UNCHANGED faults \/ FaultHappens)
  <2> HIDE DEF e
  <2> QED
    BY <1>3, Attempt DEF Raises
<1>5. /\ HostOK' /\ pc'[c] = l
      /\ \A d \in Calls : d # c => /\ pc'[d] = pc[d]
                                   /\ d \in pending' <=> d \in pending
                                   /\ d \in wire' => d \in wire
  <2>1. Bounded
    BY <1>1, <1>4, Counts
  <2> QED
    BY <1>1, <1>3, <2>1, PlaceOK DEF PCs
<1>6. CASE Written(e)
  <2>1. /\ GoodEntry(e) /\ e.id = c
        /\ Dispatched(journal, c)' /\ Request(c)' = Request(c)
        /\ \A K : Has(journal', c, K) <=> Has(journal, c, K) \/ "success" \in K
    BY <1>2, <1>6, EventGood, EventEntry
  <2>2. CallOK(c)'
    BY <1>1, <1>2, <1>3, <1>5, <2>1 DEF CallOK, Live, Finished
  <2> QED
    BY <1>5, <2>1, <2>2, StepOK
<1>7. CASE UNCHANGED <<journal, state>>
  <2>1. CallOK(c)'
    BY <1>1, <1>2, <1>3, <1>5, <1>7 DEF CallOK, Live, Finished, Request
  <2> QED
    BY <1>5, <1>7, <2>1, StepOK
<1> QED
  BY <1>4, <1>6, <1>7

LEMMA FailStep == ASSUME AInv, NEW c \in Calls, Fail(c) PROVE AInv'
<1> DEFINE e == Event(FailKind(c), c, NoFrame)
<1>1. /\ pc[c] = "fail" /\ UNCHANGED <<hostUp, pending, settled, wire, frames>>
      /\ settled' \subseteq Calls
  BY DEF Fail, AInv, HostOK
<1>2. pc[c] \notin Finished /\ CallOK(c) /\ FailKind(c) \in CoroutineKinds
      /\ FailKind(c) \notin {"task_update", "reconciled"}
  BY <1>1 DEF Finished, AInv, CoroutineKinds, FailKind
<1>3. PICK l \in {"close", "closeThenTell", "release"} :
        /\ Goto(c, l) /\ (l = "release" <=> ~Request(c).stream)
        /\ Record(e) \/ Raises(e)
  BY DEF Fail
<1>4. /\ Written(e) \/ UNCHANGED <<journal, state>>
      /\ store' \in Stores /\ (UNCHANGED faults \/ FaultHappens)
  <2> HIDE DEF e
  <2> QED
    BY <1>3, Attempt DEF Raises
<1>5. /\ HostOK' /\ pc'[c] = l
      /\ \A d \in Calls : d # c => /\ pc'[d] = pc[d]
                                   /\ d \in pending' <=> d \in pending
                                   /\ d \in wire' => d \in wire
  <2>1. Bounded
    BY <1>1, <1>4, Counts
  <2> QED
    BY <1>1, <1>3, <2>1, PlaceOK DEF PCs
<1>6. CASE Written(e)
  <2>1. /\ GoodEntry(e) /\ e.id = c
        /\ Dispatched(journal, c)' /\ Request(c)' = Request(c)
        /\ \A K : Has(journal', c, K) <=> Has(journal, c, K) \/ FailKind(c) \in K
    BY <1>2, <1>6, EventGood, EventEntry
  <2>2. ~Has(journal', c, {"reconciled"})
    BY <1>1, <1>2, <2>1 DEF CallOK
  <2>3. CallOK(c)'
    BY <1>1, <1>2, <1>3, <1>5, <2>1, <2>2 DEF CallOK, Live, Finished
  <2> QED
    BY <1>5, <2>1, <2>3, StepOK
<1>7. CASE UNCHANGED <<journal, state>>
  <2>1. CallOK(c)'
    BY <1>1, <1>2, <1>3, <1>5, <1>7 DEF CallOK, Live, Finished, Request
  <2> QED
    BY <1>5, <1>7, <2>1, StepOK
<1> QED
  BY <1>4, <1>6, <1>7

\* The steps that only move the coroutine.
LEMMA MoveStep ==
  ASSUME AInv, NEW c \in Calls,
         Resume(c) \/ Abandon(c) \/ CloseStream(c) \/ Told(c)
  PROVE  AInv'
<1>1. /\ UNCHANGED <<journal, state, store, settled, hostUp, pending, frames, faults>>
      /\ wire' = wire \/ wire' = wire \ {c}
      /\ CallOK(c) /\ journal' = journal /\ wire' \subseteq wire
  BY DEF Resume, Abandon, CloseStream, Told, AInv, log
<1>0. Bounded
  BY <1>1, BoundsStay
<1>2. PICK l \in PCs :
        /\ Goto(c, l) /\ l \notin Finished /\ pc[c] \notin Finished
        /\ c \in wire' => l = "wire" \/ (l = "fail" /\ pc[c] = "yielded") \/ pc[c] = "tell"
        /\ l \in Live => pc[c] = "yielded"
  BY DEF Resume, Abandon, CloseStream, Told, PCs, Finished, Live
<1>3. /\ HostOK' /\ pc'[c] = l
      /\ \A d \in Calls : d # c => /\ pc'[d] = pc[d]
                                   /\ d \in pending' <=> d \in pending
                                   /\ d \in wire' => d \in wire
  BY <1>0, <1>1, <1>2, PlaceOK
<1>4. CallOK(c)'
  BY <1>1, <1>2, <1>3 DEF CallOK, Live, Finished, Request
<1> QED
  BY <1>1, <1>3, <1>4, StepOK

LEMMA ReleaseStep == ASSUME AInv, NEW c \in Calls, Release(c) PROVE AInv'
<1>1. /\ pc[c] = "release" /\ pending' = pending \ {c} /\ Goto(c, "done")
      /\ UNCHANGED <<journal, state, store, settled, hostUp, wire, frames, faults>>
      /\ CallOK(c)
  BY DEF Release, AInv, log
<1>2. HostOK' /\ pc'[c] = "done"
  BY <1>1 DEF AInv, HostOK, Goto, PCs
<1>3. CallOK(c)'
  BY <1>1, <1>2 DEF CallOK, Live, Finished
<1>4. \A d \in Calls : d # c => /\ pc'[d] = pc[d]
                                /\ d \in pending' <=> d \in pending
                                /\ d \in wire' => d \in wire
  BY <1>1 DEF AInv, HostOK, Goto
<1> QED
  BY <1>1, <1>2, <1>3, <1>4, StepOK

LEMMA BeginStep == ASSUME AInv, NEW c \in Calls, NEW r \in Menu, Begin(c, r) PROVE AInv'
<1> DEFINE x == [kind |-> "dispatch", id |-> c, request |-> r, frame |-> NoFrame]
<1>1. /\ hostUp /\ pc[c] = "new"
      /\ UNCHANGED <<state, store, settled, hostUp, frames, faults>>
      /\ CallOK(c) /\ r \in Requests
  BY ClientAssumption DEF Begin, Fresh, Dispatch, AInv
<1>2. ~Dispatched(journal, c) /\ c \notin wire /\ ~Has(journal, c, {"reconciled"})
  BY <1>1 DEF CallOK, Live
<1>3. CASE Decide(journal, state, r)
  <2>1. /\ journal' = Append(journal, x) /\ pending' = pending \cup {c}
        /\ \/ Goto(c, "wire") /\ wire' = wire \cup {c}
           \/ Goto(c, "fail") /\ UNCHANGED wire
    BY <1>3 DEF Begin, Dispatch, Pend
  <2>2. GoodEntry(x) /\ x.id = c
    BY <1>1, <1>2, <1>3, <2>1 DEF GoodEntry, Entries
  <2>3. /\ Dispatched(journal, c)'
        /\ \A K : Has(journal', c, K) <=> Has(journal, c, K) \/ "dispatch" \in K
    BY <2>1, <2>2, HasAfter, DispatchedAfter DEF GoodEntry, AInv, JournalOK
  <2>4. ~Has(journal, c, {"unknown"})
    <3>1. \A i \in DOMAIN journal : journal[i].id # c
      BY <1>2 DEF AInv, JournalOK, Rooted
    <3> QED
      BY <3>1 DEF Has
  <2>5. ~Has(journal', c, {"unknown", "reconciled"}) /\ ~Has(journal', c, {"reconciled"})
    BY <1>2, <2>3, <2>4 DEF Has
  <2>6. /\ pc'[c] \in {"wire", "fail"} /\ (pc'[c] = "fail" => c \notin wire')
        /\ HostOK'
        /\ \A d \in Calls : d # c => /\ pc'[d] = pc[d]
                                     /\ d \in pending' <=> d \in pending
                                     /\ d \in wire' => d \in wire
    BY <1>1, <1>2, <2>1 DEF AInv, HostOK, Goto, PCs
  <2>7. CallOK(c)'
    BY <2>1, <2>3, <2>5, <2>6 DEF CallOK, Live, Finished
  <2> QED
    BY <2>2, <2>6, <2>7, StepOK
<1>4. CASE ~Decide(journal, state, r)
  <2>1. Goto(c, "done") /\ UNCHANGED <<journal, pending, wire>>
    BY <1>4 DEF Begin
  <2>2. /\ HostOK' /\ pc'[c] = "done"
        /\ \A d \in Calls : d # c => /\ pc'[d] = pc[d]
                                     /\ d \in pending' <=> d \in pending
                                     /\ d \in wire' => d \in wire
    BY <1>1, <2>1 DEF AInv, HostOK, Goto, PCs
  <2>3. CallOK(c)'
    BY <1>1, <1>2, <2>1, <2>2 DEF CallOK, Live, Finished
  <2> QED
    BY <1>1, <2>1, <2>2, <2>3, StepOK
<1> QED
  BY <1>3, <1>4

LEMMA BeginFailsStep == ASSUME AInv, NEW c \in Calls, BeginFails(c) PROVE AInv'
<1>1. /\ pc[c] = "new" /\ Goto(c, "done") /\ CallOK(c)
      /\ UNCHANGED <<journal, state, hostUp, pending, settled, wire, frames>>
      /\ store' \in Stores /\ (UNCHANGED faults \/ FaultHappens)
  BY DEF BeginFails, NotTaken, Fails, Fresh, AInv, HostOK, Stores
<1>2. Bounded
  BY <1>1, Counts DEF AInv, HostOK
<1>3. /\ HostOK' /\ pc'[c] = "done"
      /\ \A d \in Calls : d # c => /\ pc'[d] = pc[d]
                                   /\ d \in pending' <=> d \in pending
                                   /\ d \in wire' => d \in wire
  BY <1>1, <1>2, PlaceOK DEF PCs
<1>4. CallOK(c)'
  BY <1>1, <1>3 DEF CallOK, Live, Finished
<1> QED
  BY <1>1, <1>3, <1>4, StepOK

\* A dispatch that nobody sent: it is in the journal, its coroutine is done.
LEMMA BeginInterruptedStep ==
  ASSUME AInv, NEW c \in Calls, NEW r \in Menu, BeginInterrupted(c, r) PROVE AInv'
<1> DEFINE x == [kind |-> "dispatch", id |-> c, request |-> r, frame |-> NoFrame]
<1>1. /\ pc[c] = "new" /\ Goto(c, "done") /\ CallOK(c) /\ r \in Requests
      /\ UNCHANGED <<state, hostUp, pending, settled, wire, frames>>
      /\ Decide(journal, state, r) /\ journal' = Append(journal, x)
      /\ store' \in Stores /\ FaultHappens
  BY ClientAssumption DEF BeginInterrupted, Interrupted, Dispatch, Fresh, AInv, Stores
<1>2. ~Dispatched(journal, c) /\ c \notin wire /\ ~Has(journal, c, {"reconciled"})
  BY <1>1 DEF CallOK, Live
<1>3. GoodEntry(x) /\ x.id = c
  BY <1>1, <1>2 DEF GoodEntry, Entries
<1>4. Bounded
  BY <1>1, Counts DEF AInv, HostOK
<1>5. /\ HostOK' /\ pc'[c] = "done"
      /\ \A d \in Calls : d # c => /\ pc'[d] = pc[d]
                                   /\ d \in pending' <=> d \in pending
                                   /\ d \in wire' => d \in wire
  BY <1>1, <1>4, PlaceOK DEF PCs
<1>6. CallOK(c)'
  BY <1>1, <1>2, <1>5 DEF CallOK, Live, Finished
<1> QED
  BY <1>3, <1>5, <1>6, StepOK

LEMMA ReconcileStep ==
  ASSUME AInv, NEW c \in Calls, NEW f \in Frames, Reconcile(c, f) PROVE AInv'
<1> DEFINE e == Event("reconciled", c, f)
<1>1. /\ c \notin pending /\ Dispatched(journal, c) /\ CallOK(c)
      /\ Accepts(journal, state, e) /\ journal' = Append(journal, e)
      /\ state' = Apply(journal, state, e)
      /\ UNCHANGED <<hostUp, pending, pc, settled, wire, frames>>
      /\ store' \in Stores /\ (UNCHANGED faults \/ FaultHappens)
  BY DEF Reconcile, MayReconcile, Record, CommitInterrupted, Interrupted, Row, AInv, HostOK,
         Stores
<1>2. e \in Entries /\ e.id = c /\ e.kind = "reconciled" /\ e.frame = f
  BY DEF Event, Entries
<1> HIDE DEF e
<1>3. ~Has(journal, c, {"reconciled"})
  BY <1>1, <1>2 DEF Accepts, Has, SettledKinds
<1>4. GoodEntry(e)
  BY <1>1, <1>2, <1>3 DEF GoodEntry
<1>5. pc[c] = "done"
  <2>1. pc[c] \in Finished /\ pc[c] # "new"
    BY <1>1 DEF CallOK
  <2> QED
    BY <2>1 DEF Finished
<1>6. Dispatched(journal, c)'
  BY <1>1, <1>4, DispatchedAfter DEF GoodEntry, AInv, JournalOK
<1>7. CallOK(c)'
  BY <1>1, <1>5, <1>6 DEF CallOK, Live, Finished
<1>8. HostOK'
  <2>1. Bounded
    BY <1>1, Counts DEF AInv, HostOK
  <2> QED
    BY <1>1, <2>1 DEF AInv, HostOK, Bounded
<1> QED
  BY <1>1, <1>2, <1>4, <1>7, <1>8, StepOK

\* Close, a crash, the next process and an engine that is lost or comes back touch no
\* journal and no table.
LEMMA HostStep ==
  ASSUME AInv, UNCHANGED <<journal, state>>, HostOK', \A c \in Calls : CallOK(c)'
  PROVE  AInv'
<1>1. JournalOK' /\ StateOK' /\ TableKnows'
  BY DEF AInv, JournalOK, StateOK, TableKnows, Request
<1>2. ReceiptIsTheLastWord' /\ NothingSentToEndedTasks'
  BY DEF AInv, ReceiptIsTheLastWord, NothingSentToEndedTasks, Request
<1> QED
  BY <1>1, <1>2 DEF AInv

LEMMA StoreStep == ASSUME AInv, RecordFails \/ StatusFails PROVE AInv'
<1>1. /\ UNCHANGED <<journal, state, hostUp, pending, pc, settled, wire, frames>>
      /\ store' \in Stores /\ (UNCHANGED faults \/ FaultHappens)
  BY DEF RecordFails, StatusFails, NotTaken, Fails, AInv, HostOK, Stores
<1>2. HostOK'
  <2>1. Bounded
    BY <1>1, Counts DEF AInv, HostOK
  <2> QED
    BY <1>1, <2>1 DEF AInv, HostOK, Bounded
<1>3. \A c \in Calls : CallOK(c)'
  BY <1>1 DEF AInv, CallOK, Request
<1> QED
  BY <1>1, <1>2, <1>3, HostStep

LEMMA CloseStep == ASSUME AInv, Close PROVE AInv'
<1>1. /\ UNCHANGED <<journal, state, pending, pc, settled, wire, frames, faults>>
      /\ hostUp' = FALSE /\ pending = {} /\ store' = "down"
  BY DEF Close
<1>2. HostOK'
  BY <1>1 DEF AInv, HostOK, Stores
<1>3. \A c \in Calls : CallOK(c)'
  BY <1>1 DEF AInv, CallOK, Request
<1> QED
  BY <1>1, <1>2, <1>3, HostStep

LEMMA OpenStep == ASSUME AInv, Open PROVE AInv'
<1>1. /\ UNCHANGED <<journal, state, pending, pc, settled, wire, frames, faults>>
      /\ hostUp' = TRUE /\ store' = "up"
  BY DEF Open
<1>2. HostOK'
  BY <1>1 DEF AInv, HostOK, Stores
<1>3. \A c \in Calls : CallOK(c)'
  BY <1>1 DEF AInv, CallOK, Request
<1> QED
  BY <1>1, <1>2, <1>3, HostStep

LEMMA CrashStep == ASSUME AInv, Crash PROVE AInv'
<1>1. /\ UNCHANGED <<journal, state, settled, frames>> /\ FaultHappens
      /\ hostUp' = FALSE /\ store' = "down" /\ pending' = {} /\ wire' = {}
      /\ pc' = [c \in Calls |-> IF pc[c] = "new" THEN "new" ELSE "done"]
  BY DEF Crash
<1>2. HostOK'
  <2>1. Bounded
    BY <1>1, Counts DEF AInv, HostOK, Stores
  <2> QED
    BY <1>1, <2>1 DEF AInv, HostOK, PCs, Bounded
<1>3. ASSUME NEW c \in Calls PROVE CallOK(c)'
  <2>1. CallOK(c) /\ pc'[c] = IF pc[c] = "new" THEN "new" ELSE "done"
    BY <1>1 DEF AInv
  <2> QED
    BY <1>1, <2>1 DEF CallOK, Live, Finished
<1> QED
  BY <1>1, <1>2, <1>3, HostStep

-------------------------------------------------------------------------------
LEMMA AInit == Init => AInv
<1> SUFFICES ASSUME Init PROVE AInv
  OBVIOUS
<1>1. journal = << >> /\ << >> \in Seq(Entries) /\ DOMAIN journal = {}
  BY EmptySeq DEF Init
<1>2. JournalOK /\ TableKnows /\ ReceiptIsTheLastWord /\ NothingSentToEndedTasks
  BY <1>1 DEF JournalOK, Once, Rooted, Carried, TableKnows, ReceiptIsTheLastWord,
              NothingSentToEndedTasks
<1>3. StateOK
  <2>1. DOMAIN state.tasks = {} /\ DOMAIN state.contexts = {} /\ DOMAIN state.responses = {}
    BY DEF Init, NoState
  <2>2. /\ state.tasks = [k \in {} |-> NoTask] /\ state.contexts = [k \in {} |-> NoContext]
        /\ state.responses = [c \in {} |-> NoTask]
    BY DEF Init, NoState
  <2> QED
    BY <2>1, <2>2 DEF StateOK
<1>4. HostOK
  BY ClientAssumption DEF Init, HostOK, PCs, Stores
<1>5. \A c \in Calls : CallOK(c)
  BY <1>1 DEF Init, CallOK, Finished, Live, Dispatched, Has
<1> QED
  BY <1>2, <1>3, <1>4, <1>5 DEF AInv

LEMMA AdvanceStep == ASSUME AInv, NEW c \in Calls, Advance(c) PROVE AInv'
  BY ReceiveStep, WireStep, FinishStep, FailStep, MoveStep, ReleaseStep DEF Advance

LEMMA ANext == AInv /\ [Next]_vars => AInv'
<1>1. ASSUME AInv, UNCHANGED vars PROVE AInv'
  <2>1. HostOK' /\ \A c \in Calls : CallOK(c)'
    BY <1>1 DEF vars, log, AInv, HostOK, CallOK, Request
  <2> QED
    BY <1>1, <2>1, HostStep DEF vars, log
<1> QED
  BY <1>1, AdvanceStep, MoveStep, BeginStep, BeginFailsStep, BeginInterruptedStep, ReconcileStep,
     StoreStep, CloseStep, OpenStep, CrashStep DEF Next

LEMMA AHolds == Spec => []AInv
  BY AInit, ANext, PTL DEF Spec

-------------------------------------------------------------------------------
\* Journal, engine and host keep their types, for any peers, tasks and frames
\* (a2a.py:424-593, multiagent.py:189-285, A2A.lean:90-175).
THEOREM ClientTypesHold == Spec => []TypeOK
<1>1. AInv => TypeOK
  BY DEF AInv, JournalOK, StateOK, HostOK, TypeOK, Stores
<1> QED
  BY <1>1, AHolds, PTL

\* A host that closed, or crashed, leaves no coroutine in progress and nothing open on
\* a transport (multiagent.py:281-285, a2a.py:589-593).
THEOREM CloseIsQuiet == Spec => []CloseFindsNothingOpen
<1>1. AInv => CloseFindsNothingOpen
  <2> SUFFICES ASSUME AInv, ~hostUp PROVE wire = {} /\ \A c \in Calls : pc[c] \in Finished
    BY DEF CloseFindsNothingOpen
  <2>1. \A c \in Calls : pc[c] \in Finished
    BY DEF AInv, HostOK, CallOK
  <2>2. \A c \in Calls : c \notin wire
    BY <2>1 DEF AInv, CallOK, Live, Finished
  <2> QED
    BY <2>1, <2>2 DEF AInv, HostOK
<1> QED
  BY <1>1, AHolds, PTL

\* Once a call is reconciled nothing more is recorded about it (multiagent.py:239-240).
THEOREM ReceiptsAreFinal == Spec => []ReceiptIsTheLastWord
<1>1. AInv => ReceiptIsTheLastWord
  BY DEF AInv
<1> QED
  BY <1>1, AHolds, PTL

\* Whatever peers answer, a task is moved by the calls of one owner
\* (A2A.lean:131-135).
THEOREM TasksHaveOneOwner == Spec => []OneOwnerPerTask
<1>1. AInv => OneOwnerPerTask
  BY DEF AInv, TableKnows, Moves, OneOwnerPerTask
<1> QED
  BY <1>1, AHolds, PTL

\* Nothing is sent or subscribed to a task that was reported ended (A2A.lean:53-76).
THEOREM EndedTasksStayAlone == Spec => []NothingSentToEndedTasks
<1>1. AInv => NothingSentToEndedTasks
  BY DEF AInv
<1> QED
  BY <1>1, AHolds, PTL

\* A live engine accepts what the except clause records.  A coroutine leaves it without
\* an entry only if recording failed or the process died, or if the engine was dead or
\* the database stuck before, or if its answer was committed although recording that
\* raised (a2a.py:469-475, 573-583, host.py:150-166).
THEOREM FailuresLeaveARecord == Spec => FailuresAreRecorded
<1>1. ASSUME AInv, [Next]_vars, NEW c \in Calls, pc[c] = "fail", pc'[c] # "fail"
      PROVE  \/ Len(journal') > Len(journal) \/ faults' # faults \/ store # "up"
             \/ Answered(c) /\ c \notin settled
  <2>1. ASSUME FaultHappens PROVE faults' # faults
    BY <1>1, <2>1 DEF FaultHappens, AInv, HostOK
  <2>2. CASE Fail(c)
    <3> DEFINE e == Event(FailKind(c), c, NoFrame)
    <3>1. Record(e) \/ NotTaken(Accepts(journal, state, e)) \/ Fails \/ CommitInterrupted(e)
      BY <2>2 DEF Fail, Raises
    <3>2. CASE Record(e)
      <4>1. journal \in Seq(Entries) /\ e \in Entries
        BY <1>1, EventEntry DEF AInv, JournalOK, CoroutineKinds, FailKind
      <4>2. journal' = Append(journal, e)
        BY <3>2 DEF Record, Row
      <4> QED
        BY <1>1, <4>1, <4>2, AppendProperties, LenProperties
    <3>3. CASE NotTaken(Accepts(journal, state, e)) /\ store = "up" /\ (c \in settled \/ ~Answered(c))
      <4>1. e.id = c /\ e.kind = FailKind(c)
        BY DEF Event
      <4>2. Dispatched(journal, c) /\ ~Has(journal, c, {"unknown", "reconciled"})
        BY <1>1 DEF AInv, CallOK, Live, Finished
      <4>3. ~Has(journal, c, {"failure"})
        BY <1>1 DEF AInv, JournalOK, Carried, Has
      <4>4. FailKind(c) = "stream_error" \/ (FailKind(c) = "unknown" /\ ~Has(journal, c, {"success"}))
        BY <3>3 DEF FailKind, Answered
      <4> HIDE DEF e
      <4>5. Accepts(journal, state, e)
        BY <4>1, <4>2, <4>3, <4>4 DEF Accepts, Has, OutcomeKinds
      <4> QED
        BY <3>3, <4>5 DEF NotTaken
    <3> QED
      BY <2>1, <3>1, <3>2, <3>3 DEF Fails, CommitInterrupted, Interrupted
  <2>3. CASE Crash
    BY <2>1, <2>3 DEF Crash
  <2>4. CASE ~Fail(c) /\ ~Crash
    <3>1. pc[c] = "fail" /\ pc'[c] # "fail" /\ pc \in [Calls -> PCs]
      BY <1>1 DEF AInv, HostOK
    <3>2. \A d \in Calls, l \in PCs : Goto(d, l) => d = c
      BY <3>1 DEF Goto
    <3>3. ASSUME NEW d \in Calls, NEW l \in PCs, Goto(d, l), pc[d] # "fail" PROVE FALSE
      BY <3>1, <3>2, <3>3
    <3>4. ~UNCHANGED pc
      BY <3>1
    <3>5. \A d \in Calls : ~Fail(d)
      <4>1. ASSUME NEW d \in Calls, Fail(d) PROVE d = c
        BY <3>2, <4>1 DEF Fail, PCs
      <4> QED
        BY <2>4, <4>1
    <3>6. \A d \in Calls : \A r \in Menu : ~Begin(d, r) /\ ~BeginInterrupted(d, r)
      BY <3>3 DEF Begin, BeginInterrupted, Fresh, PCs
    <3>7. \A d \in Calls : ~BeginFails(d)
      BY <3>3 DEF BeginFails, Fresh, PCs
    <3>8. \A d \in Calls : ~ReceiveFails(d) /\ \A f \in Frames : ~Receive(d, f)
      BY <3>3 DEF Receive, ReceiveFails, Arrives, PCs
    <3>9. \A d \in Calls : ~WireFails(d) /\ ~StreamEnds(d)
      BY <3>3 DEF WireFails, StreamEnds, PCs
    <3>10. \A d \in Calls : ~Finish(d)
      BY <3>3 DEF Finish, PCs
    <3>11. \A d \in Calls : ~Resume(d) /\ ~Abandon(d) /\ ~CloseStream(d) /\ ~Told(d) /\ ~Release(d)
      BY <3>3 DEF Resume, Abandon, CloseStream, Told, Release, PCs
    <3>12. \A d \in Calls : \A f \in Frames : ~Reconcile(d, f)
      BY <3>4 DEF Reconcile
    <3>13. ~RecordFails /\ ~StatusFails /\ ~Close /\ ~Open /\ ~UNCHANGED vars
      BY <3>4 DEF RecordFails, StatusFails, Close, Open, vars
    <3> QED
      BY <1>1, <2>4, <3>5, <3>6, <3>7, <3>8, <3>9, <3>10, <3>11, <3>12, <3>13
         DEF Next, Advance
  <2> QED
    BY <2>2, <2>3, <2>4
<1>2. AInv /\ [Next]_vars =>
        [\A c \in Calls :
           pc[c] = "fail" /\ pc'[c] # "fail" =>
             \/ Len(journal') > Len(journal)
             \/ faults' # faults
             \/ store # "up"
             \/ Answered(c) /\ c \notin settled]_vars
  BY <1>1
<1> QED
  BY <1>2, AHolds, PTL DEF Spec, FailuresAreRecorded

-------------------------------------------------------------------------------
(***************************************************************************)
(* The A2A client, its journal and the engine's tables implement           *)
(* TaskPromise, for any calls, peers, tasks and requests: every step is a  *)
(* step of the promise or changes none of what it speaks of.               *)
(***************************************************************************)

\* The mapped variables, one call and one task at a time.
LaneOf(c) == IF Dispatched(journal, c) /\ Request(c).op = "a2a.send"
             THEN <<Request(c).peer, Request(c).resource>> ELSE NoTask

SendersOf == {d \in Calls : Dispatched(journal, d) /\ Request(d).op = "a2a.send"}
MessageOf(c) == <<Request(c).peer, Request(c).message>>
SentOf == {MessageOf(c) : c \in SendersOf}

PhaseOf(k) == IF k \in DOMAIN state.tasks THEN state.tasks[k].state ELSE NoPhase

Ends == {"completed", "canceled", "rejected", "failed"}

-------------------------------------------------------------------------------
\* A step leaves journal and table alone, or appends one good entry.
LEMMA StepEntry ==
  ASSUME AInv, Next
  PROVE  \/ UNCHANGED <<journal, state>>
         \/ \E x : GoodEntry(x) /\ (x.kind = "dispatch" => x.request \in Menu)
<1>1. ASSUME NEW c \in Calls, NEW r \in Menu, Begin(c, r) \/ BeginInterrupted(c, r)
      PROVE  \/ UNCHANGED <<journal, state>>
             \/ \E x : GoodEntry(x) /\ (x.kind = "dispatch" => x.request \in Menu)
  <2> DEFINE x == [kind |-> "dispatch", id |-> c, request |-> r, frame |-> NoFrame]
  <2>1. CASE Decide(journal, state, r)
    <3>1. /\ pc[c] = "new" /\ state' = state /\ journal' = Append(journal, x)
          /\ r \in Requests /\ CallOK(c)
      BY <1>1, <2>1, ClientAssumption DEF Begin, BeginInterrupted, Dispatch, Fresh, AInv
    <3>2. ~Dispatched(journal, c) /\ ~Has(journal, c, {"reconciled"})
      BY <3>1 DEF CallOK
    <3>3. GoodEntry(x) /\ x.request \in Menu
      BY <2>1, <3>1, <3>2 DEF GoodEntry, Entries
    <3> QED
      BY <3>3
  <2>2. CASE ~Decide(journal, state, r)
    BY <1>1, <2>2 DEF Begin, BeginInterrupted
  <2> QED
    BY <2>1, <2>2
<1>2. ASSUME NEW c \in Calls, pc[c] \notin Finished, NEW kind \in CoroutineKinds,
             NEW f \in Frames \cup {NoFrame}, kind = "task_update" => f \in Frames,
             Written(Event(kind, c, f))
      PROVE  \E x : GoodEntry(x) /\ (x.kind = "dispatch" => x.request \in Menu)
  BY <1>2, EventGood, EventEntry DEF CoroutineKinds
<1>3. ASSUME NEW c \in Calls, NEW f \in Frames, Receive(c, f)
      PROVE  \/ UNCHANGED <<journal, state>>
             \/ \E x : GoodEntry(x) /\ (x.kind = "dispatch" => x.request \in Menu)
  <2> DEFINE e == Event("task_update", c, f)
  <2>1. pc[c] \notin Finished /\ "task_update" \in CoroutineKinds
    BY <1>3 DEF Receive, Arrives, Finished, CoroutineKinds
  <2>2. \/ Record(e) \/ NotTaken(Accepts(journal, state, e)) \/ CommitInterrupted(e)
        \/ UNCHANGED <<journal, state>>
    BY <1>3 DEF Receive, log
  <2>3. Written(e) \/ UNCHANGED <<journal, state>>
    <3> HIDE DEF e
    <3> QED
      BY <2>2, Attempt
  <2> QED
    BY <1>2, <2>1, <2>3
<1>4. ASSUME NEW c \in Calls, Finish(c)
      PROVE  \/ UNCHANGED <<journal, state>>
             \/ \E x : GoodEntry(x) /\ (x.kind = "dispatch" => x.request \in Menu)
  <2> DEFINE e == Event("success", c, NoFrame)
  <2>1. pc[c] \notin Finished /\ "success" \in CoroutineKinds /\ (Record(e) \/ Raises(e))
    BY <1>4 DEF Finish, Finished, CoroutineKinds
  <2>2. Written(e) \/ UNCHANGED <<journal, state>>
    <3> HIDE DEF e
    <3> QED
      BY <2>1, Attempt DEF Raises
  <2> QED
    BY <1>2, <2>1, <2>2
<1>5. ASSUME NEW c \in Calls, Fail(c)
      PROVE  \/ UNCHANGED <<journal, state>>
             \/ \E x : GoodEntry(x) /\ (x.kind = "dispatch" => x.request \in Menu)
  <2> DEFINE e == Event(FailKind(c), c, NoFrame)
  <2>1. /\ pc[c] \notin Finished /\ FailKind(c) \in CoroutineKinds /\ FailKind(c) # "task_update"
        /\ Record(e) \/ Raises(e)
    BY <1>5 DEF Fail, Finished, CoroutineKinds, FailKind
  <2>2. Written(e) \/ UNCHANGED <<journal, state>>
    <3> HIDE DEF e
    <3> QED
      BY <2>1, Attempt DEF Raises
  <2> QED
    BY <1>2, <2>1, <2>2
<1>6. ASSUME NEW c \in Calls, NEW f \in Frames, Reconcile(c, f)
      PROVE  \E x : GoodEntry(x) /\ (x.kind = "dispatch" => x.request \in Menu)
  <2> DEFINE e == Event("reconciled", c, f)
  <2>1. /\ Accepts(journal, state, e) /\ journal' = Append(journal, e)
        /\ state' = Apply(journal, state, e)
    BY <1>6 DEF Reconcile, Record, CommitInterrupted, Row
  <2>2. e \in Entries /\ e.id = c /\ e.kind = "reconciled" /\ e.frame = f
    BY DEF Event, Entries
  <2> HIDE DEF e
  <2>3. ~Has(journal, c, {"reconciled"})
    BY <2>1, <2>2 DEF Accepts, Has, SettledKinds
  <2> QED
    BY <2>1, <2>2, <2>3 DEF GoodEntry
<1>7. ASSUME NEW c \in Calls,
             BeginFails(c) \/ ReceiveFails(c) \/ WireFails(c) \/ StreamEnds(c) \/ Abandon(c)
             \/ CloseStream(c) \/ Told(c) \/ Release(c) \/ Resume(c)
      PROVE  UNCHANGED <<journal, state>>
  BY <1>7 DEF BeginFails, ReceiveFails, NotTaken, Fails, WireFails, StreamEnds, Abandon,
              CloseStream, Told, Release, Resume, log
<1>8. RecordFails \/ StatusFails \/ Close \/ Crash \/ Open => UNCHANGED <<journal, state>>
  BY DEF RecordFails, StatusFails, NotTaken, Fails, Close, Crash, Open
<1> QED
  BY <1>1, <1>3, <1>4, <1>5, <1>6, <1>7, <1>8 DEF Next, Advance

\* What a new entry about a call changes for each call.
LEMMA EntryFacts ==
  ASSUME AInv, NEW x, GoodEntry(x)
  PROVE  /\ x.id \in Calls
         /\ \A d, K : Has(journal', d, K) <=> Has(journal, d, K) \/ (x.id = d /\ x.kind \in K)
         /\ \A d : Dispatched(journal', d) <=> Dispatched(journal, d)
                                                \/ (x.id = d /\ x.kind = "dispatch")
         /\ \A d : Dispatched(journal, d) => Request(d)' = Request(d)
<1>1. x \in Entries /\ journal \in Seq(Entries) /\ journal' = Append(journal, x)
  BY DEF AInv, JournalOK, GoodEntry
<1> QED
  BY <1>1, HasAfter, DispatchedAfter, EntryJournal DEF Entries

LEMMA OthersKeepStatus ==
  ASSUME AInv, NEW x, GoodEntry(x), NEW d, d # x.id
  PROVE  CallStatus(d)' = CallStatus(d)
  BY EntryFacts DEF CallStatus, Answered

\* Entries about dispatched calls take no lane and send nothing.
LEMMA LanesStay ==
  ASSUME AInv, NEW x, GoodEntry(x), x.kind # "dispatch"
  PROVE  /\ \A d \in Calls : LaneOf(d)' = LaneOf(d)
         /\ SentOf' = SentOf
<1>1. \A d \in Calls : Dispatched(journal', d) <=> Dispatched(journal, d)
  BY EntryFacts
<1>2. \A d \in Calls : Dispatched(journal, d) => Request(d)' = Request(d)
  BY EntryFacts
<1>3. \A d \in Calls : LaneOf(d)' = LaneOf(d)
  BY <1>1, <1>2 DEF LaneOf
<1>4. SendersOf' = SendersOf /\ \A d \in SendersOf : MessageOf(d)' = MessageOf(d)
  BY <1>1, <1>2 DEF SendersOf, MessageOf
<1> QED
  BY <1>3, <1>4 DEF SentOf

-------------------------------------------------------------------------------
\* The steps of the promise, over the mapped variables.
Keys == Peers \X TaskIds

Reports ==
  \E k \in Keys, p \in Phases :
    /\ PhaseOf(k) \notin Ends \/ PhaseOf(k) = p
    /\ \A t \in Keys : PhaseOf(t)' = IF t = k THEN p ELSE PhaseOf(t)

PhasesStay == \A t \in Keys : PhaseOf(t)' = PhaseOf(t)
StatusStays == \A d \in Calls : CallStatus(d)' = CallStatus(d)
LanesAndSent == (\A d \in Calls : LaneOf(d)' = LaneOf(d)) /\ SentOf' = SentOf

StatusBecomes(c, s) ==
  \A d \in Calls : CallStatus(d)' = IF d = c THEN s ELSE CallStatus(d)

\* An accepted update reports a phase of one task, or none.
LEMMA UpdateReports ==
  ASSUME AInv, NEW c, NEW r \in Requests, NEW f \in Frames, MayUpdate(state, c, r, f),
         state' = UpdateTask(state, c, r, f)
  PROVE  Reports \/ PhasesStay
<1> DEFINE k == <<r.peer, f.task>>
           v == [owner |-> r.owner, resource |-> r.resource,
                 context |-> f.context, state |-> f.state]
<1>1. state'.tasks = IF f.kind \in {"task", "statusUpdate"} THEN Extend(state.tasks, k, v)
                     ELSE state.tasks
  BY DEF UpdateTask
<1>2. CASE f.kind \in {"task", "statusUpdate"}
  <2>1. k \in Keys /\ f.state \in Phases
    BY <1>2, FrameFacts, RequestFacts DEF Keys
  <2>2. PhaseOf(k) \notin Ends \/ PhaseOf(k) = f.state
    <3>1. CASE k \in DOMAIN state.tasks
      BY <1>2, <3>1 DEF PhaseOf, MayUpdate, MovesTask, TaskTransition, Terminal, Ends
    <3>2. CASE k \notin DOMAIN state.tasks
      <4>1. NoPhase \notin Ends
        BY TaskAssumption DEF AllPhases, Ends
      <4> QED
        BY <3>2, <4>1 DEF PhaseOf
    <3> QED
      BY <3>1, <3>2
  <2>3. v.state = f.state
    OBVIOUS
  <2> HIDE DEF k, v
  <2>4. \A t : t \in DOMAIN state'.tasks <=> t \in DOMAIN state.tasks \/ t = k
    BY <1>1, <1>2 DEF Extend
  <2>5. \A t \in DOMAIN state'.tasks : state'.tasks[t] = IF t = k THEN v ELSE state.tasks[t]
    BY <1>1, <1>2 DEF Extend
  <2>6. \A t \in Keys : PhaseOf(t)' = IF t = k THEN f.state ELSE PhaseOf(t)
    BY <2>3, <2>4, <2>5 DEF PhaseOf
  <2> QED
    BY <2>1, <2>2, <2>6 DEF Reports
<1>3. CASE f.kind \notin {"task", "statusUpdate"}
  BY <1>1, <1>3 DEF PhasesStay, PhaseOf
<1> QED
  BY <1>2, <1>3

\* A dispatch: its call is new, its lane is free, and its message was not sent.
LEMMA DispatchMapped ==
  ASSUME AInv, NEW x, GoodEntry(x), x.kind = "dispatch", x.request \in Menu
  PROVE  LET c == x.id
         IN  /\ CallStatus(c) = "new" /\ StatusBecomes(c, "open") /\ PhasesStay
             /\ \/ LanesAndSent
                \/ \E l \in Peers \X Resources, m \in (Peers \X MessageIds) \ SentOf :
                     /\ ~ \E d \in Calls : LaneOf(d) = l /\ CallStatus(d) \in {"open", "uncertain"}
                     /\ \A d \in Calls : LaneOf(d)' = IF d = c THEN l ELSE LaneOf(d)
                     /\ SentOf' = SentOf \cup {m}
<1> DEFINE c == x.id
           r == x.request
           l == <<r.peer, r.resource>>
           m == <<r.peer, r.message>>
<1>1. /\ c \in Calls /\ ~Dispatched(journal, c) /\ r \in Requests /\ state' = state
      /\ Decide(journal, state, r) /\ Rooted(journal) /\ Carried(journal) /\ Once(journal)
      /\ (r.op = "a2a.send" => r.message \in MessageIds)
  BY EntryFacts, ClientAssumption DEF GoodEntry, AInv, JournalOK, Requests
<1>2. /\ \A d, K : Has(journal', d, K) <=> Has(journal, d, K) \/ (c = d /\ x.kind \in K)
      /\ \A d : Dispatched(journal', d) <=> Dispatched(journal, d) \/ c = d
      /\ \A d : Dispatched(journal, d) => Request(d)' = Request(d)
      /\ Request(c)' = r
  BY EntryFacts, EntryJournal
<1>3. \A K : ~Has(journal, c, K)
  BY <1>1 DEF Has, Rooted
<1>4. CallStatus(c) = "new"
  BY <1>1 DEF CallStatus
<1>5. CallStatus(c)' = "open"
  BY <1>2, <1>3 DEF CallStatus, Answered
<1>6. StatusBecomes(c, "open")
  BY <1>5, OthersKeepStatus DEF StatusBecomes
<1>7. PhasesStay
  BY <1>1 DEF PhasesStay, PhaseOf
<1>8. CASE r.op # "a2a.send"
  <2>1. \A d \in Calls : LaneOf(d)' = LaneOf(d)
    BY <1>1, <1>2, <1>8 DEF LaneOf
  <2>2. SendersOf' = SendersOf /\ \A d \in SendersOf : MessageOf(d)' = MessageOf(d)
    BY <1>1, <1>2, <1>8 DEF SendersOf, MessageOf
  <2>3. SentOf' = SentOf
    BY <2>2 DEF SentOf
  <2> QED
    BY <1>4, <1>6, <1>7, <2>1, <2>3 DEF LanesAndSent
<1>9. CASE r.op = "a2a.send"
  <2>1. NoUnresolvedSend(journal, r) /\ NoMessageReplay(journal, r)
    BY <1>1, <1>9 DEF Decide
  <2>2. l \in Peers \X Resources /\ m \in Peers \X MessageIds /\ l # NoTask
    BY <1>1, <1>9, RequestFacts, TaskAssumption
  <2>3. ASSUME NEW d \in Calls, Dispatched(journal, d), Request(d).op = "a2a.send"
        PROVE  /\ Request(d).peer = r.peer /\ Request(d).resource = r.resource
                    => Has(journal, d, SettledKinds)
               /\ Request(d).peer = r.peer => Request(d).message # r.message
    <3>1. PICK i \in DOMAIN journal : journal[i].kind = "dispatch" /\ journal[i].id = d
      BY <2>3 DEF Dispatched
    <3>2. Request(d) = journal[i].request
      BY <1>1, <3>1, RequestIs DEF Request
    <3> QED
      BY <2>1, <2>3, <3>1, <3>2 DEF NoUnresolvedSend, NoMessageReplay
  <2>4. ASSUME NEW d \in Calls, LaneOf(d) = l, CallStatus(d) \in {"open", "uncertain"}
        PROVE  FALSE
    <3>1. /\ Dispatched(journal, d) /\ Request(d).op = "a2a.send"
          /\ Request(d).peer = r.peer /\ Request(d).resource = r.resource
      BY <2>2, <2>4 DEF LaneOf
    <3>2. ~Has(journal, d, {"reconciled"}) /\ ~Has(journal, d, {"success"})
      BY <2>4, <3>1 DEF CallStatus, Answered
    <3>3. ~Has(journal, d, {"failure"})
      BY <1>1 DEF Carried, Has
    <3> QED
      BY <2>3, <3>1, <3>2, <3>3 DEF Has, SettledKinds
  <2>5. \A d \in Calls : LaneOf(d)' = IF d = c THEN l ELSE LaneOf(d)
    BY <1>1, <1>2, <1>9 DEF LaneOf
  <2>6. SendersOf' = SendersOf \cup {c} /\ \A d \in SendersOf : MessageOf(d)' = MessageOf(d)
    BY <1>1, <1>2, <1>9 DEF SendersOf, MessageOf
  <2>7. MessageOf(c)' = m
    BY <1>2 DEF MessageOf
  <2>8. SentOf' = SentOf \cup {m}
    <3> HIDE DEF m, c
    <3> QED
      BY <2>6, <2>7 DEF SentOf
  <2>9. m \notin SentOf
    BY <2>3 DEF SentOf, SendersOf, MessageOf
  <2> HIDE DEF l, m, c
  <2> QED
    BY <1>4, <1>6, <1>7, <2>2, <2>4, <2>5, <2>8, <2>9 DEF c
<1> QED
  BY <1>8, <1>9

\* An outcome settles an open call; a receipt, one that is open or uncertain; updates
\* and stream errors leave the statuses alone.
LEMMA EventMapped ==
  ASSUME AInv, NEW x, GoodEntry(x), x.kind # "dispatch"
  PROVE  LET c == x.id
         IN  /\ LanesAndSent /\ CallStatus(c) # "new"
             /\ \/ StatusStays /\ (Reports \/ PhasesStay)
                \/ /\ CallStatus(c) = "open" /\ PhasesStay
                   /\ \E how \in {"answered", "uncertain"} : StatusBecomes(c, how)
                \/ /\ CallStatus(c) \in {"open", "uncertain"} /\ StatusBecomes(c, "reconciled")
                   /\ Reports \/ PhasesStay
<1> DEFINE c == x.id
<1>1. /\ c \in Calls /\ Dispatched(journal, c) /\ Dispatched(journal', c)
      /\ Accepts(journal, state, x) /\ state' = Apply(journal, state, x)
      /\ \A K : Has(journal', c, K) <=> Has(journal, c, K) \/ x.kind \in K
      /\ x.kind \in {"task_update", "reconciled"} => x.frame \in Frames
  BY EntryFacts DEF GoodEntry, Accepts
<1>2. /\ x.kind \in {"task_update", "reconciled", "stream_error", "success", "unknown"}
      /\ ~Has(journal, c, {"reconciled"}) /\ ~Has(journal, c, {"failure"})
  BY DEF GoodEntry, Entries, OutcomeKinds, AInv, JournalOK, Carried, Has
<1>3. LanesAndSent /\ CallStatus(c) # "new"
  BY <1>1, LanesStay DEF LanesAndSent, CallStatus
<1>4. \A d : d # c => CallStatus(d)' = CallStatus(d)
  BY OthersKeepStatus
<1>5. x.kind \in {"task_update", "reconciled"} => Reports \/ PhasesStay
  <2>1. SUFFICES ASSUME x.kind \in {"task_update", "reconciled"} PROVE Reports \/ PhasesStay
    OBVIOUS
  <2>2. /\ RequestOf(journal, c) \in Requests
        /\ MayUpdate(state, c, RequestOf(journal, c), x.frame)
        /\ state' = UpdateTask(state, c, RequestOf(journal, c), x.frame)
    BY <1>1, <2>1, RequestTyped DEF Accepts, Apply, AInv, JournalOK
  <2> QED
    BY <1>1, <2>1, <2>2, UpdateReports
<1>6. x.kind \notin {"task_update", "reconciled"} => PhasesStay
  BY <1>1 DEF Apply, PhasesStay, PhaseOf
<1> HIDE DEF c
<1>7. CASE x.kind \in {"task_update", "stream_error"}
  <2>1. CallStatus(c)' = CallStatus(c)
    BY <1>1, <1>7 DEF CallStatus, Answered
  <2>2. StatusStays
    BY <1>4, <2>1 DEF StatusStays
  <2> QED
    BY <1>3, <1>5, <1>6, <1>7, <2>2 DEF c
<1>8. CASE x.kind \in {"success", "unknown"}
  <2>1. ~Has(journal, c, {"success", "unknown"})
    BY <1>1, <1>8 DEF Accepts, OutcomeKinds, Has, c
  <2>2. CallStatus(c) = "open"
    BY <1>1, <1>2, <2>1 DEF CallStatus, Answered, Has
  <2>3. CallStatus(c)' = IF x.kind = "success" THEN "answered" ELSE "uncertain"
    <3>1. ~Has(journal', c, {"reconciled"})
      BY <1>1, <1>2, <1>8
    <3>2. Has(journal', c, {"success"}) <=> x.kind = "success"
      BY <1>1, <1>8, <2>1 DEF Has
    <3>3. Has(journal', c, {"unknown"}) <=> x.kind = "unknown"
      BY <1>1, <1>8, <2>1 DEF Has
    <3> QED
      BY <1>1, <1>8, <3>1, <3>2, <3>3 DEF CallStatus, Answered
  <2>4. \E how \in {"answered", "uncertain"} : StatusBecomes(c, how)
    BY <1>4, <2>3 DEF StatusBecomes
  <2> QED
    BY <1>3, <1>6, <1>8, <2>2, <2>4 DEF c
<1>9. CASE x.kind = "reconciled"
  <2>1. ~Has(journal, c, SettledKinds)
    BY <1>1, <1>9 DEF Accepts, c
  <2>2. CallStatus(c) \in {"open", "uncertain"}
    BY <1>1, <2>1 DEF CallStatus, Answered, Has, SettledKinds
  <2>3. CallStatus(c)' = "reconciled"
    BY <1>1, <1>9 DEF CallStatus
  <2>4. StatusBecomes(c, "reconciled")
    BY <1>4, <2>3 DEF StatusBecomes
  <2> QED
    BY <1>3, <1>5, <1>9, <2>2, <2>4 DEF c
<1> QED
  BY <1>2, <1>7, <1>8, <1>9

-------------------------------------------------------------------------------
\* The functions that the promise speaks of.
CallsMap == [c \in Calls |-> CallStatus(c)]
LaneMap == [c \in Calls |-> IF Dispatched(journal, c) /\ Request(c).op = "a2a.send"
                            THEN <<Request(c).peer, Request(c).resource>> ELSE NoTask]
SentSet == {<<Request(c).peer, Request(c).message>> :
              c \in {d \in Calls : Dispatched(journal, d) /\ Request(d).op = "a2a.send"}}
PhaseMap == [k \in Peers \X TaskIds |->
               IF k \in DOMAIN state.tasks THEN state.tasks[k].state ELSE NoPhase]

LEMMA MapsAre ==
  /\ LaneMap = [c \in Calls |-> LaneOf(c)] /\ SentSet = SentOf
  /\ PhaseMap = [k \in Keys |-> PhaseOf(k)]
  BY DEF LaneMap, LaneOf, SentSet, SentOf, SendersOf, MessageOf, PhaseMap, PhaseOf, Keys

LEMMA MapsStay ==
  /\ StatusStays => CallsMap' = CallsMap
  /\ LanesAndSent => LaneMap' = LaneMap /\ SentSet' = SentSet
  /\ PhasesStay => PhaseMap' = PhaseMap
<1>1. StatusStays => CallsMap' = CallsMap
  BY DEF StatusStays, CallsMap
<1>2. LanesAndSent => LaneMap' = LaneMap /\ SentSet' = SentSet
  <2>1. LaneMap = [c \in Calls |-> LaneOf(c)] /\ LaneMap' = [c \in Calls |-> LaneOf(c)']
    BY DEF LaneMap, LaneOf
  <2>2. SentSet = SentOf /\ SentSet' = SentOf'
    BY DEF SentSet, SentOf, SendersOf, MessageOf
  <2> QED
    BY <2>1, <2>2 DEF LanesAndSent
<1>3. PhasesStay => PhaseMap' = PhaseMap
  <2>1. PhaseMap = [k \in Keys |-> PhaseOf(k)] /\ PhaseMap' = [k \in Keys |-> PhaseOf(k)']
    BY DEF PhaseMap, PhaseOf, Keys
  <2> QED
    BY <2>1 DEF PhasesStay
<1> QED
  BY <1>1, <1>2, <1>3

LEMMA StatusMap ==
  ASSUME NEW c \in Calls, NEW s, StatusBecomes(c, s)
  PROVE  CallsMap' = [CallsMap EXCEPT ![c] = s]
  BY DEF StatusBecomes, CallsMap

LEMMA ReportMap == ASSUME Reports PROVE Promise!Reported
<1>1. PICK k \in Keys, p \in Phases :
        /\ PhaseOf(k) \notin Ends \/ PhaseOf(k) = p
        /\ \A t \in Keys : PhaseOf(t)' = IF t = k THEN p ELSE PhaseOf(t)
  BY DEF Reports
<1>2. PhaseMap = [t \in Keys |-> PhaseOf(t)] /\ PhaseMap' = [t \in Keys |-> PhaseOf(t)']
  BY DEF PhaseMap, PhaseOf, Keys
<1>3. PhaseMap' = [PhaseMap EXCEPT ![k] = p] /\ PhaseMap[k] = PhaseOf(k)
  BY <1>1, <1>2
<1>4. k \in Peers \X TaskIds /\ p \in Phases /\ (PhaseMap[k] \notin Ends \/ PhaseMap[k] = p)
  BY <1>1, <1>3 DEF Keys
<1>5. \E t \in Peers \X TaskIds, q \in Phases :
        /\ PhaseMap[t] \notin Ends \/ PhaseMap[t] = q
        /\ PhaseMap' = [PhaseMap EXCEPT ![t] = q]
  BY <1>3, <1>4
<1> QED
  BY <1>5 DEF Promise!Reported, PhaseMap, Ends

-------------------------------------------------------------------------------
LEMMA PromiseInit == ASSUME Init PROVE Promise!Init
<1>1. journal = << >> /\ state.tasks = [t \in {} |-> t]
  BY DEF Init, NoState
<1>2. \A c \in Calls : ~Dispatched(journal, c)
  BY <1>1 DEF Dispatched
<1>3. CallsMap = [c \in Calls |-> "new"]
  BY <1>2 DEF CallsMap, CallStatus
<1>4. LaneMap = [c \in Calls |-> NoTask]
  BY <1>2 DEF LaneMap
<1>5. SentSet = {}
  BY <1>2 DEF SentSet
<1>6. PhaseMap = [k \in Peers \X TaskIds |-> NoPhase]
  BY <1>1 DEF PhaseMap
<1> QED
  BY <1>3, <1>4, <1>5, <1>6 DEF Promise!Init, CallsMap, LaneMap, SentSet, PhaseMap

LEMMA PromiseNext ==
  ASSUME AInv, [Next]_vars
  PROVE  [Promise!Next]_(Promise!vars)
<1>1. CASE UNCHANGED <<journal, state>>
  <2>1. CallsMap' = CallsMap /\ LaneMap' = LaneMap /\ SentSet' = SentSet /\ PhaseMap' = PhaseMap
    BY <1>1 DEF CallsMap, LaneMap, SentSet, PhaseMap, CallStatus, Answered, Request
  <2> QED
    BY <2>1 DEF Promise!vars, CallsMap, LaneMap, SentSet, PhaseMap
<1>2. ASSUME NEW x, GoodEntry(x), x.kind = "dispatch" => x.request \in Menu
      PROVE  [Promise!Next]_(Promise!vars)
  <2> DEFINE c == x.id
  <2>1. c \in Calls
    BY <1>2, EntryFacts
  <2>2. CASE x.kind = "dispatch"
    <3>1. /\ CallStatus(c) = "new" /\ StatusBecomes(c, "open") /\ PhasesStay
          /\ \/ LanesAndSent
             \/ \E l \in Peers \X Resources, m \in (Peers \X MessageIds) \ SentOf :
                  /\ ~ \E d \in Calls : LaneOf(d) = l /\ CallStatus(d) \in {"open", "uncertain"}
                  /\ \A d \in Calls : LaneOf(d)' = IF d = c THEN l ELSE LaneOf(d)
                  /\ SentOf' = SentOf \cup {m}
      BY <1>2, <2>2, DispatchMapped
    <3> HIDE DEF c
    <3>2. CallsMap[c] = "new" /\ CallsMap' = [CallsMap EXCEPT ![c] = "open"]
      BY <2>1, <3>1, StatusMap DEF CallsMap
    <3>3. PhaseMap' = PhaseMap
      BY <3>1, MapsStay
    <3>4. CASE LanesAndSent
      <4>1. LaneMap' = LaneMap /\ SentSet' = SentSet
        BY <3>4, MapsStay
      <4>2. Promise!Dispatch(c)
        BY <3>2, <3>3, <4>1 DEF Promise!Dispatch, CallsMap, LaneMap, SentSet, PhaseMap
      <4> QED
        BY <2>1, <4>2 DEF Promise!Next
    <3>5. CASE \E l \in Peers \X Resources, m \in (Peers \X MessageIds) \ SentOf :
                 /\ ~ \E d \in Calls : LaneOf(d) = l /\ CallStatus(d) \in {"open", "uncertain"}
                 /\ \A d \in Calls : LaneOf(d)' = IF d = c THEN l ELSE LaneOf(d)
                 /\ SentOf' = SentOf \cup {m}
      <4>1. PICK l \in Peers \X Resources, m \in (Peers \X MessageIds) \ SentOf :
              /\ ~ \E d \in Calls : LaneOf(d) = l /\ CallStatus(d) \in {"open", "uncertain"}
              /\ \A d \in Calls : LaneOf(d)' = IF d = c THEN l ELSE LaneOf(d)
              /\ SentOf' = SentOf \cup {m}
        BY <3>5
      <4>2. LaneMap = [d \in Calls |-> LaneOf(d)] /\ LaneMap' = [d \in Calls |-> LaneOf(d)']
        BY DEF LaneMap, LaneOf
      <4>3. LaneMap' = [LaneMap EXCEPT ![c] = l]
        BY <4>1, <4>2
      <4>4. SentSet = SentOf /\ SentSet' = SentOf'
        BY DEF SentSet, SentOf, SendersOf, MessageOf
      <4>5. SentSet' = SentSet \cup {m} /\ m \in (Peers \X MessageIds) \ SentSet
        BY <4>1, <4>4
      <4>6. ~ \E d \in Calls : LaneMap[d] = l /\ CallsMap[d] \in {"open", "uncertain"}
        BY <4>1, <4>2 DEF CallsMap
      <4>7. ~Promise!Busy(l)
        BY <4>6 DEF Promise!Busy, CallsMap, LaneMap
      <4>8. Promise!Dispatch(c)
        BY <3>2, <3>3, <4>3, <4>5, <4>7
        DEF Promise!Dispatch, CallsMap, LaneMap, SentSet, PhaseMap
      <4> QED
        BY <2>1, <4>8 DEF Promise!Next
    <3> QED
      BY <3>1, <3>4, <3>5
  <2>3. CASE x.kind # "dispatch"
    <3>1. /\ LanesAndSent /\ CallStatus(c) # "new"
          /\ \/ StatusStays /\ (Reports \/ PhasesStay)
             \/ /\ CallStatus(c) = "open" /\ PhasesStay
                /\ \E how \in {"answered", "uncertain"} : StatusBecomes(c, how)
             \/ /\ CallStatus(c) \in {"open", "uncertain"} /\ StatusBecomes(c, "reconciled")
                /\ Reports \/ PhasesStay
      BY <1>2, <2>3, EventMapped
    <3> HIDE DEF c
    <3>2. LaneMap' = LaneMap /\ SentSet' = SentSet
      BY <3>1, MapsStay
    <3>3. CallsMap[c] = CallStatus(c)
      BY <2>1 DEF CallsMap
    <3>4. CASE StatusStays /\ Reports
      <4>1. CallsMap' = CallsMap /\ \E d \in Calls : CallsMap[d] # "new"
        BY <2>1, <3>1, <3>3, <3>4, MapsStay
      <4>2. Promise!Reported
        BY <3>4, ReportMap
      <4>3. Promise!Report
        BY <3>2, <4>1, <4>2 DEF Promise!Report, CallsMap, LaneMap, SentSet
      <4> QED
        BY <4>3 DEF Promise!Next
    <3>5. CASE StatusStays /\ PhasesStay
      <4>1. CallsMap' = CallsMap /\ PhaseMap' = PhaseMap
        BY <3>5, MapsStay
      <4> QED
        BY <3>2, <4>1 DEF Promise!vars, CallsMap, LaneMap, SentSet, PhaseMap
    <3>6. ASSUME CallStatus(c) = "open", PhasesStay,
                 NEW how \in {"answered", "uncertain"}, StatusBecomes(c, how)
          PROVE  Promise!Next
      <4>1. CallsMap' = [CallsMap EXCEPT ![c] = how]
        BY <2>1, <3>6, StatusMap
      <4>2. PhaseMap' = PhaseMap
        BY <3>6, MapsStay
      <4>3. Promise!Settle(c)
        BY <3>2, <3>3, <3>6, <4>1, <4>2
        DEF Promise!Settle, CallsMap, LaneMap, SentSet, PhaseMap
      <4> QED
        BY <2>1, <4>3 DEF Promise!Next
    <3>7. CASE /\ CallStatus(c) \in {"open", "uncertain"} /\ StatusBecomes(c, "reconciled")
               /\ Reports \/ PhasesStay
      <4>1. CallsMap' = [CallsMap EXCEPT ![c] = "reconciled"]
        BY <2>1, <3>7, StatusMap
      <4>2. Promise!Reported \/ PhaseMap' = PhaseMap
        BY <3>7, ReportMap, MapsStay
      <4>3. Promise!Reconcile(c)
        BY <3>2, <3>3, <3>7, <4>1, <4>2
        DEF Promise!Reconcile, CallsMap, LaneMap, SentSet, PhaseMap
      <4> QED
        BY <2>1, <4>3 DEF Promise!Next
    <3> QED
      BY <3>1, <3>4, <3>5, <3>6, <3>7
  <2> QED
    BY <2>2, <2>3
<1> QED
  BY <1>1, <1>2, StepEntry DEF vars, log

\* Coroutines, frames, crashes and receipts together keep the promise: a call is
\* dispatched and settled at most once, one send per lane is unsettled, no message
\* is sent twice and ended tasks stay ended (a2a.py:424-593, multiagent.py:189-285,
\* A2A.lean:53-175).
THEOREM ClientKeepsPromise == Spec => KeepsPromise
<1>1. AInv /\ [Next]_vars => [Promise!Next]_(Promise!vars)
  BY PromiseNext
<1>2. Init => Promise!Init
  BY PromiseInit
<1> QED
  BY <1>1, <1>2, AHolds, PTL DEF Spec, KeepsPromise, Promise!Spec
===============================================================================
