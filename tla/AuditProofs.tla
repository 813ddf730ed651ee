-------------------------------- MODULE AuditProofs --------------------------------
(***************************************************************************)
(* What holds of the offline audit for every recorded conversation, and of *)
(* the datasets for every order of their rows.                             *)
(***************************************************************************)
EXTENDS Audit, TrajectoryData, DataLemmas, SequenceTheorems

-------------------------------------------------------------------------------
(***************************************************************************)
(* The datasets.  Begins orders the rows, and the kept branches are the    *)
(* maximal ones of the rows read.                                          *)
(***************************************************************************)

DataTypeOK ==
  /\ rollout \in Seq(Rows) /\ additional \in Seq(Rows) /\ rows \in Seq(Rows)
  /\ branches \subseteq Rows

BranchesCover == \A i \in DOMAIN rows : \E b \in branches : Begins(rows[i], b)

RestCovers ==
  \A i \in DOMAIN rows : \/ \E k \in DOMAIN rollout : Begins(rows[i], rollout[k])
                         \/ \E k \in DOMAIN additional : Begins(rows[i], additional[k])

BranchesDiffer == \A b, c \in branches : Begins(b, c) => b = c

DataInv ==
  /\ DataTypeOK
  /\ BranchesCover
  /\ RestCovers
  /\ BranchesDiffer

\* One row begins another if it is no longer, and agrees as far as it goes.
LEMMA BeginsPointwise ==
  ASSUME NEW r \in Rows, NEW s \in Rows
  PROVE  Begins(r, s) <=>
           /\ Len(r.turns) <= Len(s.turns)
           /\ \A i \in 1..Len(r.turns) : r.turns[i] = s.turns[i]
<1> DEFINE a == r.turns
           b == s.turns
<1>1. a \in Seq(Turns) /\ b \in Seq(Turns) /\ Len(a) \in Nat /\ Len(b) \in Nat
  BY SeqDef, LenProperties DEF Rows
<1>2. Begins(r, s) <=> Len(a) <= Len(b) /\ SubSeq(a, 1, Len(a)) = SubSeq(b, 1, Len(a))
  BY DEF Begins, IsPrefix
<1> HIDE DEF a, b
<1>3. ASSUME Len(a) <= Len(b)
      PROVE  (SubSeq(a, 1, Len(a)) = SubSeq(b, 1, Len(a))) <=> (\A i \in 1..Len(a) : a[i] = b[i])
  <2>1. SubSeq(a, 1, Len(a)) = [i \in 1..Len(a) |-> a[i]]
    BY <1>1, SubSeqProperties
  <2>2. SubSeq(b, 1, Len(a)) = [i \in 1..Len(a) |-> b[i]]
    BY <1>1, <1>3, SubSeqProperties
  <2> QED
    BY <2>1, <2>2
<1> QED
  BY <1>2, <1>3 DEF a, b

LEMMA BeginsOrder ==
  /\ \A r \in Rows : Begins(r, r)
  /\ \A r, s, t \in Rows : Begins(r, s) /\ Begins(s, t) => Begins(r, t)
<1>1. \A r \in Rows : Len(r.turns) \in Nat
  BY SeqDef, LenProperties DEF Rows
<1> QED
  BY <1>1, BeginsPointwise

LEMMA InitDataInv == DataInit => DataInv
<1> SUFFICES ASSUME DataInit PROVE DataInv
  OBVIOUS
<1>1. rollout \in Seq(Rows)
  <2>1. CASE rollout = << >>
    BY <2>1, EmptySeq
  <2>2. ASSUME NEW row \in Rows, rollout = <<row>> PROVE rollout \in Seq(Rows)
    BY <2>2
  <2> QED
    BY <2>1, <2>2 DEF DataInit
<1> QED
  BY <1>1, EmptySeq
     DEF DataInit, DataInv, DataTypeOK, BranchesCover, RestCovers, BranchesDiffer

LEMMA ReadKeepsDataInv ==
  ASSUME DataInv, ReadRow
  PROVE  DataInv'
<1>1. PICK row \in Rows : /\ rows' = Append(rows, row)
                          /\ branches' = Kept(row)
                          /\ additional' = Added(row)
  BY DEF ReadRow
<1>2. UNCHANGED rollout
  BY DEF ReadRow
<1>3. \A r, s \in Rows : Covers(s, r) <=> Begins(r, s)
  BY DEF Covers, Signature, Begins
<1>4. /\ rows \in Seq(Rows) /\ rows' \in Seq(Rows) /\ Len(rows) \in Nat
      /\ DOMAIN rows = 1..Len(rows) /\ DOMAIN rows' = 1..(Len(rows) + 1)
      /\ rows'[Len(rows) + 1] = row /\ \A i \in 1..Len(rows) : rows'[i] = rows[i] /\ rows[i] \in Rows
  BY <1>1, AppendProperties, LenProperties DEF DataInv, DataTypeOK
<1>5. branches' \subseteq Rows /\ branches \subseteq Rows
  BY <1>1 DEF Kept, DataInv, DataTypeOK
<1>6. /\ \E b \in branches' : Begins(row, b)
      /\ \A b \in branches : \E c \in branches' : Begins(b, c)
  <2>1. CASE \E b \in branches : Covers(b, row)
    BY <1>1, <1>3, <1>5, <2>1, BeginsOrder DEF Kept
  <2>2. CASE ~\E b \in branches : Covers(b, row)
    <3>1. branches' = {b \in branches : ~Begins(b, row)} \cup {row}
      BY <1>1, <1>3, <1>5, <2>2 DEF Kept
    <3> QED
      BY <1>5, <3>1, BeginsOrder
  <2> QED
    BY <2>1, <2>2
<1>7. BranchesCover'
  <2> SUFFICES ASSUME NEW i \in 1..(Len(rows) + 1) PROVE \E b \in branches' : Begins(rows'[i], b)
    BY <1>4 DEF BranchesCover, Begins
  <2>1. CASE i = Len(rows) + 1
    BY <1>4, <1>6, <2>1
  <2>2. CASE i # Len(rows) + 1
    <3>1. i \in 1..Len(rows)
      BY <1>4, <2>2
    <3>2. PICK b \in branches : Begins(rows[i], b)
      BY <1>4, <3>1 DEF DataInv, BranchesCover
    <3>3. PICK c \in branches' : Begins(b, c)
      BY <1>6
    <3> QED
      BY <1>4, <1>5, <3>1, <3>2, <3>3, BeginsOrder
  <2> QED
    BY <2>1, <2>2
<1>8. BranchesDiffer'
  <2>1. CASE \E b \in branches : Covers(b, row)
    BY <1>1, <2>1 DEF Kept, DataInv, BranchesDiffer, Begins
  <2>2. CASE ~\E b \in branches : Covers(b, row)
    <3>1. branches' = {b \in branches : ~Begins(b, row)} \cup {row}
      BY <1>1, <1>3, <1>5, <2>2 DEF Kept
    <3>2. \A b \in branches : ~Begins(row, b)
      BY <1>3, <1>5, <2>2
    <3>3. \A b, c \in branches' : Begins(b, c) => b = c
      BY <3>1, <3>2 DEF DataInv, BranchesDiffer
    <3> QED
      BY <3>3 DEF BranchesDiffer, Begins
  <2> QED
    BY <2>1, <2>2
<1>9. additional' \in Seq(Rows) /\ RestCovers'
  <2>1. rollout # << >> => 1 \in DOMAIN rollout /\ rollout[1] \in Rows
    BY LenProperties, EmptySeq DEF DataInv, DataTypeOK
  <2>2. CASE rollout # << >> /\ Covers(rollout[1], row)
    <3>1. additional' = additional /\ Begins(row, rollout[1])
      BY <1>1, <1>3, <2>1, <2>2 DEF Added
    <3>2. \A i \in DOMAIN rows' : \/ \E k \in DOMAIN rollout : Begins(rows'[i], rollout[k])
                                  \/ \E k \in DOMAIN additional : Begins(rows'[i], additional[k])
      BY <1>4, <2>1, <2>2, <3>1 DEF DataInv, RestCovers
    <3> QED
      BY <1>2, <3>1, <3>2 DEF DataInv, DataTypeOK, RestCovers, Begins
  <2>3. CASE ~(rollout # << >> /\ Covers(rollout[1], row))
    <3>1. additional' = Append(additional, row)
      BY <1>1, <2>3 DEF Added
    <3>2. /\ additional' \in Seq(Rows) /\ Len(additional) + 1 \in DOMAIN additional'
          /\ additional'[Len(additional) + 1] = row
          /\ \A k \in DOMAIN additional : k \in DOMAIN additional' /\ additional'[k] = additional[k]
      BY <3>1, AppendProperties, LenProperties DEF DataInv, DataTypeOK
    <3>3. Begins(row, row)
      BY BeginsOrder
    <3>4. \A i \in DOMAIN rows' : \/ \E k \in DOMAIN rollout : Begins(rows'[i], rollout[k])
                                  \/ \E k \in DOMAIN additional' : Begins(rows'[i], additional'[k])
      BY <1>4, <3>2, <3>3 DEF DataInv, RestCovers
    <3> QED
      BY <1>2, <3>2, <3>4 DEF RestCovers, Begins
  <2> QED
    BY <2>2, <2>3
<1> QED
  BY <1>2, <1>4, <1>5, <1>7, <1>8, <1>9 DEF DataInv, DataTypeOK

\* No training row is dropped, whatever the order of the rows, and of a dialogue only
\* its longest conversations are kept, each once (trajectory_data.py:82-93, 164-189,
\* 195-237).
THEOREM RowsAreKept == DataSpec => []LongestRowsAreKept
<1>1. DataInv /\ [ReadRow]_dataVars => DataInv'
  <2>1. DataInv /\ UNCHANGED dataVars => DataInv'
    BY DEF dataVars, DataInv, DataTypeOK, BranchesCover, RestCovers, BranchesDiffer, Begins
  <2> QED
    BY <2>1, ReadKeepsDataInv
<1>2. DataInv => LongestRowsAreKept
  <2> SUFFICES ASSUME DataInv PROVE LongestRowsAreKept
    OBVIOUS
  <2> DEFINE rest == rollout \o additional
  <2>1. /\ \A k \in DOMAIN rollout : k \in DOMAIN rest /\ rest[k] = rollout[k]
        /\ \A k \in DOMAIN additional :
             Len(rollout) + k \in DOMAIN rest /\ rest[Len(rollout) + k] = additional[k]
    BY LenProperties, ConcatProperties DEF DataInv, DataTypeOK
  <2>2. \A i \in DOMAIN rows : \E k \in DOMAIN rest : Begins(rows[i], rest[k])
    BY <2>1 DEF DataInv, RestCovers
  <2> QED
    BY <2>2 DEF LongestRowsAreKept, DataInv, BranchesCover, BranchesDiffer
<1> QED
  BY <1>1, <1>2, InitDataInv, PTL DEF DataSpec

-------------------------------------------------------------------------------
(***************************************************************************)
(* Pairing.  ById is a recursive function; what it computes is shown by    *)
(* induction on the number of calls.                                       *)
(***************************************************************************)

\* The responses left for call i, given the pairs p of the calls before it.
LeftFor(p, i, calls, responses) ==
  {j \in DOMAIN responses : /\ \A k \in 1..(i - 1) : p[k] # j
                            /\ calls[i].id # NoId
                            /\ responses[j].id = calls[i].id}

Only(S) == IF Cardinality(S) = 1 THEN CHOOSE j \in S : TRUE ELSE 0

Pairs(p, D, calls, responses) == p = [i \in D |-> Only(LeftFor(p, i, calls, responses))]

LEMMA ByIdUnfolds ==
  ASSUME NEW calls, NEW responses
  PROVE  ById(calls, responses) = CHOOSE p : Pairs(p, DOMAIN calls, calls, responses)
BY Zenon DEF ById, Pairs, Only, LeftFor

LEMMA PairsExist ==
  ASSUME NEW calls, NEW responses, NEW n \in Nat
  PROVE  \E p : Pairs(p, 1..n, calls, responses)
<1> DEFINE A == {m \in Nat : \E p : Pairs(p, 1..m, calls, responses)}
<1>1. 0 \in A
  <2>1. Pairs([i \in 1..0 |-> 0], 1..0, calls, responses)
    BY DEF Pairs
  <2> QED
    BY <2>1
<1>2. ASSUME NEW m \in Nat, m \in A PROVE m + 1 \in A
  <2>1. PICK p : Pairs(p, 1..m, calls, responses)
    BY <1>2
  <2>2. PICK q : q = [i \in 1..(m + 1) |-> IF i <= m THEN p[i]
                                            ELSE Only(LeftFor(p, i, calls, responses))]
    OBVIOUS
  <2>3. ASSUME NEW i \in 1..(m + 1) PROVE q[i] = Only(LeftFor(q, i, calls, responses))
    <3>1. \A k \in 1..(i - 1) : q[k] = p[k]
      BY <2>2
    <3>2. LeftFor(q, i, calls, responses) = LeftFor(p, i, calls, responses)
      BY <3>1 DEF LeftFor
    <3>3. q[i] = Only(LeftFor(p, i, calls, responses))
      BY <2>1, <2>2 DEF Pairs
    <3> QED
      BY <3>2, <3>3
  <2>4. Pairs(q, 1..(m + 1), calls, responses)
    BY <2>2, <2>3 DEF Pairs
  <2> QED
    BY <2>4
<1> HIDE DEF A
<1>3. \A m \in Nat : m \in A
  BY <1>1, <1>2, Induction
<1> QED
  BY <1>3 DEF A

LEMMA OnlyOne ==
  ASSUME NEW S, Only(S) # 0
  PROVE  Only(S) \in S
<1>1. Cardinality(S) = 1
  BY DEF Only
<1>2. S # {}
  BY <1>1, FS_EmptySet
<1> QED
  BY <1>2 DEF Only

\* A response found by id has the id of its call, no earlier call has it, and no
\* earlier call of the same id has another.
LEMMA ByIdPairs ==
  ASSUME NEW calls, NEW n \in Nat, DOMAIN calls = 1..n,
         NEW responses, NEW m \in Nat, DOMAIN responses = 1..m
  PROVE  LET p == ById(calls, responses)
         IN  /\ DOMAIN p = 1..n
             /\ \A i \in 1..n : p[i] # 0 =>
                  /\ p[i] \in DOMAIN responses
                  /\ calls[i].id # NoId /\ responses[p[i]].id = calls[i].id
                  /\ \A k \in 1..(i - 1) : p[k] # p[i]
                  /\ \A k \in 1..(i - 1) : p[k] # 0 => calls[k].id # calls[i].id
<1>1. PICK p : p = ById(calls, responses) /\ Pairs(p, 1..n, calls, responses)
  BY PairsExist, ByIdUnfolds
<1>2. ASSUME NEW i \in 1..n, p[i] # 0 PROVE p[i] \in LeftFor(p, i, calls, responses)
  <2>1. p[i] = Only(LeftFor(p, i, calls, responses))
    BY <1>1 DEF Pairs
  <2> QED
    BY <1>2, <2>1, OnlyOne
<1>3. ASSUME NEW i \in 1..n, NEW k \in 1..(i - 1), p[i] # 0, p[k] # 0
      PROVE  calls[k].id # calls[i].id
  <2>1. k \in 1..n /\ p[i] \in LeftFor(p, i, calls, responses)
    BY <1>2, <1>3
  <2>2. Cardinality(LeftFor(p, k, calls, responses)) = 1
    <3>1. p[k] = Only(LeftFor(p, k, calls, responses))
      BY <1>1, <2>1 DEF Pairs
    <3> QED
      BY <1>3, <3>1 DEF Only
  <2>3. PICK x : LeftFor(p, k, calls, responses) = {x}
    <3>1. IsFiniteSet(1..m) /\ LeftFor(p, k, calls, responses) \subseteq 1..m
      BY FS_Interval DEF LeftFor
    <3>2. IsFiniteSet(LeftFor(p, k, calls, responses))
      BY <3>1, FS_Subset
    <3> QED
      BY <2>2, <3>2, FS_Singleton
  <2>4. p[k] = x
    BY <1>2, <1>3, <2>1, <2>3
  <2>5. p[i] # p[k] /\ \A l \in 1..(k - 1) : l \in 1..(i - 1)
    BY <1>3, <2>1 DEF LeftFor
  <2>6. calls[k].id = calls[i].id => p[i] \in LeftFor(p, k, calls, responses)
    BY <2>1, <2>5 DEF LeftFor
  <2> QED
    BY <2>3, <2>4, <2>5, <2>6
<1> QED
  BY <1>1, <1>2, <1>3 DEF LeftFor, Pairs

\* No response is given to two calls; it has its call's id or its place; and of the
\* calls that share an id one has a response by it.
LEMMA PairedFits ==
  ASSUME NEW calls, NEW n \in Nat, DOMAIN calls = 1..n, Len(calls) = n,
         NEW responses, NEW m \in Nat, DOMAIN responses = 1..m, Len(responses) = m
  PROVE  LET p == Paired(calls, responses)
         IN  /\ DOMAIN p = 1..n
             /\ \A i \in 1..n : p[i] # 0 =>
                  /\ p[i] \in 1..m
                  /\ \A k \in (1..n) \ {i} : p[k] # p[i]
                  /\ \/ calls[i].id # NoId /\ responses[p[i]].id = calls[i].id
                     \/ p[i] = i /\ n = m /\ InPlace(calls[i], responses[i])
                  /\ \A k \in (1..n) \ {i} : p[k] # 0 /\ responses[p[i]].id # NoId
                       => responses[p[i]].id # responses[p[k]].id
<1>1. PICK b : b = ById(calls, responses)
  OBVIOUS
<1>2. PICK p : p = Paired(calls, responses)
  OBVIOUS
<1>3. DOMAIN b = 1..n /\ \A i \in 1..n : b[i] # 0 =>
        /\ b[i] \in 1..m /\ calls[i].id # NoId /\ responses[b[i]].id = calls[i].id
        /\ \A k \in 1..(i - 1) : b[k] # b[i]
        /\ \A k \in 1..(i - 1) : b[k] # 0 => calls[k].id # calls[i].id
  BY <1>1, ByIdPairs
<1>4. p = [i \in 1..n |-> IF /\ b[i] = 0 /\ n = m /\ i \notin {b[k] : k \in 1..n}
                             /\ InPlace(calls[i], responses[i])
                          THEN i ELSE b[i]]
  BY <1>1, <1>2, <1>3 DEF Paired
<1>5. ASSUME NEW i \in 1..n, NEW k \in 1..n, i # k, b[i] # 0 PROVE b[i] # b[k]
  <2>1. k \in 1..(i - 1) \/ i \in 1..(k - 1)
    BY <1>5
  <2> QED
    BY <1>3, <1>5, <2>1
<1>6. ASSUME NEW i \in 1..n, NEW k \in 1..n, i # k, p[i] # 0, p[k] # 0,
             responses[p[i]].id # NoId
      PROVE  responses[p[i]].id # responses[p[k]].id
  <2>1. ASSUME NEW j \in 1..n, p[j] # 0, responses[p[j]].id # NoId PROVE b[j] # 0 /\ p[j] = b[j]
    BY <1>4, <2>1 DEF InPlace
  <2>2. CASE responses[p[k]].id = NoId
    BY <1>6, <2>2
  <2>3. CASE responses[p[k]].id # NoId
    <3>1. b[i] # 0 /\ p[i] = b[i] /\ b[k] # 0 /\ p[k] = b[k]
      BY <1>6, <2>1, <2>3
    <3>2. k \in 1..(i - 1) \/ i \in 1..(k - 1)
      BY <1>6
    <3>3. calls[k].id # calls[i].id
      BY <1>3, <3>1, <3>2
    <3> QED
      BY <1>3, <3>1, <3>3
  <2> QED
    BY <2>2, <2>3
<1> QED
  BY <1>2, <1>3, <1>4, <1>5, <1>6

-------------------------------------------------------------------------------
(***************************************************************************)
(* The audit.  What is cached was current when it was cached, and whatever *)
(* may change it later forgets it; the events are in their places when     *)
(* they are written, and only grow older.                                  *)
(***************************************************************************)

StepRecords ==
  [call : Calls, place : Nat, of : Nat, from : Nat, at : Nat, result : Responses]

EventRecords ==
  [kind : {"identity", "user_action", "request", "dispatch", "success", "failure"},
   resource : Objects \cup {NoUser, "public"}, number : Nat]

AuditTypeOK ==
  /\ domain \in {"airline", "retail", "telecom"}
  /\ todo \in Seq(StepRecords) /\ agents \in BOOLEAN
  /\ lookups \subseteq Objects /\ customer \in Objects \cup {NoUser} /\ supplied \subseteq Users
  /\ history \in Seq(EventRecords) /\ count \in Nat

\* The calls of a message are the kind its author can make.
TodoFits ==
  \A i \in DOMAIN todo : Offered(domain, todo[i].call) /\ (ByAgent(todo[i].call) <=> agents)

\* The cache holds nothing that may be out of date, but for what a write overlooked.
CacheIsCurrent == known \ overlooked \subseteq current

\* One event of a history, and the two that an outcome needs before it.
Evidence(h, i, named) ==
  /\ h[i].kind = "identity" => h[i].resource \in named
  /\ h[i].kind \in {"success", "failure"} =>
       /\ i + 2 <= Len(h)
       /\ h[i + 1] = Event("dispatch", h[i].resource, h[i].number)
       /\ h[i + 2] = Event("request", h[i].resource, h[i].number)

HistoryFits == \A i \in 1..Len(history) : Evidence(history, i, supplied)

\* Of two calls with results, one result at most has an id and it is the other's too.
OneOfAnId(step, other, i, k) ==
  step.at # 0 /\ other.at # 0 /\ i # k /\ step.result.id # NoId => step.result.id # other.result.id

TodoPaired ==
  \A i, k \in DOMAIN todo :
    /\ todo[i].at # 0 /\ i # k => todo[i].at # todo[k].at
    /\ todo[i].at # 0 => Answers(todo[i])
    /\ OneOfAnId(todo[i], todo[k], i, k)

AuditInv ==
  /\ AuditTypeOK
  /\ TodoFits
  /\ CacheIsCurrent
  /\ NoStaleFacts
  /\ HistoryFits
  /\ TodoPaired

LEMMA InitAuditInv == Init => AuditInv
BY EmptySeq DEF Init, AuditInv, AuditTypeOK, TodoFits, CacheIsCurrent, NoStaleFacts, HistoryFits,
                TodoPaired

\* An event at the front leaves the others in their places.
LEMMA FrontKeepsEvidence ==
  ASSUME NEW h \in Seq(EventRecords), NEW named, \A i \in 1..Len(h) : Evidence(h, i, named),
         NEW e \in EventRecords, Evidence(<<e>> \o h, 1, named)
  PROVE  /\ <<e>> \o h \in Seq(EventRecords)
         /\ Len(<<e>> \o h) = Len(h) + 1
         /\ (<<e>> \o h)[1] = e /\ \A i \in 1..Len(h) : (<<e>> \o h)[i + 1] = h[i]
         /\ \A i \in 1..Len(<<e>> \o h) : Evidence(<<e>> \o h, i, named)
<1>1. PICK g : g = <<e>> \o h
  OBVIOUS
<1>2. <<e>> \in Seq(EventRecords) /\ Len(<<e>>) = 1 /\ <<e>>[1] = e
  OBVIOUS
<1>3. /\ g \in Seq(EventRecords) /\ Len(g) = Len(h) + 1 /\ g[1] = e
      /\ \A i \in 1..Len(h) : g[i + 1] = h[i]
  BY <1>1, <1>2, ConcatProperties, LenProperties
<1>4. ASSUME NEW i \in 1..Len(g) PROVE Evidence(g, i, named)
  <2>1. CASE i = 1
    BY <1>1, <2>1
  <2>2. CASE i # 1
    <3>1. PICK k \in 1..Len(h) : i = k + 1
      BY <1>3, <2>2, LenProperties
    <3>2. Evidence(h, k, named) /\ g[i] = h[k]
      BY <1>3, <3>1
    <3>3. k + 2 <= Len(h) => g[i + 1] = h[k + 1] /\ g[i + 2] = h[k + 2]
      <4>1. ASSUME k + 2 <= Len(h)
            PROVE  k + 1 \in 1..Len(h) /\ k + 2 \in 1..Len(h) /\ i + 1 = (k + 1) + 1
                   /\ i + 2 = (k + 2) + 1
        BY <3>1, <4>1, LenProperties
      <4> QED
        BY <1>3, <4>1
    <3> QED
      BY <1>3, <3>1, <3>2, <3>3, LenProperties DEF Evidence
  <2> QED
    BY <2>1, <2>2
<1> QED
  BY <1>1, <1>3, <1>4

LEMMA MoreNamesKeepEvidence ==
  ASSUME NEW h, NEW i, NEW named, NEW more, named \subseteq more, Evidence(h, i, named)
  PROVE  Evidence(h, i, more)
BY DEF Evidence

\* The rest of the message's calls.
LEMMA TailFits ==
  ASSUME AuditInv, todo # << >>, todo' = Tail(todo), UNCHANGED <<domain, agents>>
  PROVE  todo' \in Seq(StepRecords) /\ TodoFits' /\ TodoPaired'
<1>1. /\ todo \in Seq(StepRecords) /\ todo' \in Seq(StepRecords) /\ Len(todo) \in Nat
      /\ Len(todo') = Len(todo) - 1 /\ \A i \in 1..Len(todo') : todo'[i] = todo[i + 1]
      /\ DOMAIN todo = 1..Len(todo) /\ DOMAIN todo' = 1..Len(todo')
  BY HeadTailProperties, LenProperties DEF AuditInv, AuditTypeOK
<1>2. \A i \in 1..Len(todo') : i + 1 \in 1..Len(todo)
  BY <1>1, LenProperties
<1>3. TodoFits'
  BY <1>1, <1>2 DEF AuditInv, TodoFits, Offered, ByAgent
<1>4. TodoPaired'
  <2> SUFFICES ASSUME NEW i \in 1..Len(todo'), NEW k \in 1..Len(todo')
               PROVE  /\ todo'[i].at # 0 /\ i # k => todo'[i].at # todo'[k].at
                      /\ todo'[i].at # 0 => Answers(todo'[i])
                      /\ OneOfAnId(todo'[i], todo'[k], i, k)
    <3>1. DOMAIN todo' = 1..Len(todo')
      BY <1>1
    <3> QED
      BY <3>1 DEF TodoPaired, OneOfAnId
  <2>1. todo'[i] = todo[i + 1] /\ todo'[k] = todo[k + 1] /\ (i # k => i + 1 # k + 1)
        /\ i + 1 \in DOMAIN todo /\ k + 1 \in DOMAIN todo
    BY <1>1, <1>2
  <2> QED
    BY <2>1 DEF AuditInv, TodoPaired, OneOfAnId
<1> QED
  BY <1>1, <1>3, <1>4

LEMMA ReadKeepsAuditInv ==
  ASSUME AuditInv, NEW mine \in BOOLEAN, NEW n \in Nat, NEW m \in Nat,
         NEW calls \in [1..n -> {c \in Calls : Offered(domain, c) /\ ByAgent(c) = mine}],
         NEW responses \in [1..m -> Responses], ReadMessage(mine, calls, responses)
  PROVE  AuditInv'
<1>1. PICK p : p = Paired(calls, responses)
  OBVIOUS
<1>2. Len(calls) = n /\ DOMAIN calls = 1..n /\ Len(responses) = m /\ DOMAIN responses = 1..m
  BY LenProperties, SeqDef
<1>3. /\ DOMAIN p = 1..n
      /\ \A i \in 1..n : p[i] # 0 =>
           /\ p[i] \in 1..m
           /\ \A k \in (1..n) \ {i} : p[k] # p[i]
           /\ \/ calls[i].id # NoId /\ responses[p[i]].id = calls[i].id
              \/ p[i] = i /\ n = m /\ InPlace(calls[i], responses[i])
           /\ \A k \in (1..n) \ {i} : p[k] # 0 /\ responses[p[i]].id # NoId
                => responses[p[i]].id # responses[p[k]].id
  BY <1>1, <1>2, PairedFits
<1> DEFINE step(i) == [call |-> calls[i], place |-> i, of |-> n, from |-> m, at |-> p[i],
                       result |-> IF p[i] = 0 THEN NoResponse ELSE responses[p[i]]]
<1>4. todo' = [i \in 1..n |-> step(i)] /\ agents' = mine
  BY <1>1, <1>2 DEF ReadMessage
<1>5. UNCHANGED <<domain, known, lookups, customer, supplied, history, count, current, overlooked,
                 verdict>>
  BY DEF ReadMessage
<1>6. NoResponse \in Responses
  BY DEF NoResponse, Responses
<1>7. ASSUME NEW i \in 1..n PROVE step(i) \in StepRecords
  <2>1. (IF p[i] = 0 THEN NoResponse ELSE responses[p[i]]) \in Responses
    BY <1>3, <1>6
  <2>2. calls[i] \in Calls /\ p[i] \in Nat
    BY <1>3
  <2> QED
    BY <2>1, <2>2 DEF StepRecords
<1>8. AuditTypeOK'
  <2>1. todo' \in [1..n -> StepRecords]
    BY <1>4, <1>7
  <2>2. todo' \in Seq(StepRecords)
    BY <2>1, SeqDef
  <2> QED
    BY <1>4, <1>5, <2>2 DEF AuditInv, AuditTypeOK
<1>9. DOMAIN todo' = 1..n /\ \A i \in 1..n : todo'[i] = step(i)
  BY <1>4
<1>10. TodoFits'
  BY <1>4, <1>5, <1>9 DEF TodoFits, Offered, ByAgent
<1>11. TodoPaired'
  <2> SUFFICES ASSUME NEW i \in 1..n, NEW k \in 1..n
               PROVE  /\ todo'[i].at # 0 /\ i # k => todo'[i].at # todo'[k].at
                      /\ todo'[i].at # 0 => Answers(todo'[i])
                      /\ OneOfAnId(todo'[i], todo'[k], i, k)
    BY <1>9 DEF TodoPaired, Answers, OneOfAnId
  <2>1. todo'[i].at = p[i] /\ todo'[k].at = p[k]
    BY <1>9
  <2>2. p[i] # 0 => Answers(step(i))
    BY <1>3 DEF Answers, InPlace
  <2>3. OneOfAnId(step(i), step(k), i, k)
    BY <1>3 DEF OneOfAnId
  <2> QED
    BY <1>3, <1>9, <2>1, <2>2, <2>3
<1>12. CacheIsCurrent' /\ NoStaleFacts' /\ HistoryFits'
  BY <1>5 DEF AuditInv, CacheIsCurrent, NoStaleFacts, HistoryFits, Evidence
<1> QED
  BY <1>8, <1>10, <1>11, <1>12 DEF AuditInv

LEMMA SpeakKeepsAuditInv ==
  ASSUME AuditInv, NEW names \in SUBSET Users, UserSpeaks(names)
  PROVE  AuditInv'
<1>1. customer' \in Objects \cup {NoUser} /\ supplied' \subseteq Users
  <2>1. Cardinality(names) = 1 => names # {}
    BY FS_EmptySet
  <2>2. Cardinality(names) = 1 => (CHOOSE u \in names : TRUE) \in names
    BY <2>1
  <2> QED
    BY <2>2 DEF UserSpeaks, AuditInv, AuditTypeOK, Users, In
<1>2. UNCHANGED <<domain, todo, agents, known, lookups, history, count, current, overlooked, verdict>>
      /\ supplied \subseteq supplied'
  BY DEF UserSpeaks
<1>3. HistoryFits'
  BY <1>2, MoreNamesKeepEvidence DEF AuditInv, HistoryFits
<1>4. TodoFits' /\ CacheIsCurrent' /\ NoStaleFacts'
  BY <1>2 DEF AuditInv, TodoFits, Offered, ByAgent, CacheIsCurrent, NoStaleFacts
<1>5. TodoPaired'
  BY <1>2 DEF AuditInv, TodoPaired, OneOfAnId
<1> QED
  BY <1>1, <1>2, <1>3, <1>4, <1>5 DEF AuditInv, AuditTypeOK

-------------------------------------------------------------------------------
\* The customer's tools act on the world, and everything they may change is forgotten.
LEMMA CustomersChangesAreForgotten ==
  ASSUME AuditInv, UserCall
  PROVE  CacheIsCurrent' /\ NoStaleFacts'
<1> DEFINE call == Head(todo).call
           paid == IF call.tool = "make_payment" THEN Bills ELSE {}
<1>1. /\ known' = known \ (VolatileOf("lines") \cup paid)
      /\ current' = current \ MayChange(call)
      /\ UNCHANGED <<verdict, overlooked>> /\ todo # << >> /\ ~agents
  BY DEF UserCall
<1>2. call.tool \in {"device", "make_payment"}
  <2>1. Head(todo) = todo[1] /\ 1 \in DOMAIN todo
    BY <1>1, LenProperties, EmptySeq DEF AuditInv, AuditTypeOK
  <2> QED
    BY <1>1, <2>1 DEF AuditInv, TodoFits, ByAgent
<1>3. MayChange(call) = VolatileOf("lines") \cup paid
  BY <1>2, Zenon DEF MayChange
<1>4. CacheIsCurrent'
  BY <1>1, <1>3 DEF AuditInv, CacheIsCurrent
<1> QED
  BY <1>1, <1>4 DEF AuditInv, NoStaleFacts

\* The same for the agent's calls: what a call may have changed is forgotten before its
\* result is cached, and the verdict was given before that.
LEMMA AgentsChangesAreForgotten ==
  ASSUME AuditInv, AgentCall
  PROVE  CacheIsCurrent' /\ NoStaleFacts'
<1> DEFINE call == Head(todo).call
           result == Head(todo).result
<1>1. PICK shown : /\ known' = (known \ Forgotten(call, result)) \cup shown
                   /\ current' = (current \ MayChange(call)) \cup shown
                   /\ overlooked' = (overlooked \cup Overlooked(call)) \ shown
                   /\ verdict' = [facts |-> Facts(call), current |-> current,
                                  overlooked |-> overlooked]
                   /\ todo # << >> /\ agents
  <2> DEFINE ingests == /\ Head(todo).at # 0 /\ ~result.failed
                        /\ call.tool # "unknown" /\ call.valid
  <2> WITNESS IF ingests THEN Shown(call) ELSE {}
  <2> QED
    BY DEF AgentCall
<1>2. Offered(domain, call) /\ ByAgent(call) /\ call \in Calls
  <2>1. Head(todo) = todo[1] /\ 1 \in DOMAIN todo /\ Head(todo) \in StepRecords
    BY <1>1, LenProperties, EmptySeq, HeadTailProperties DEF AuditInv, AuditTypeOK
  <2> QED
    BY <1>1, <2>1 DEF AuditInv, TodoFits, StepRecords
<1>3. NoStaleFacts'
  <2>1. Facts(call) \subseteq known
    BY DEF Facts
  <2> QED
    BY <1>1, <2>1 DEF AuditInv, CacheIsCurrent, NoStaleFacts
<1>4. MayChange(call) \subseteq Forgotten(call, result) \cup Overlooked(call)
  <2>1. CASE call.tool = "unknown"
    BY <2>1 DEF MayChange, Forgotten
  <2>2. CASE call.tool = "write"
    <3> DEFINE volatile == VolatileOf("users") \cup VolatileOf("flights")
    <3>1. MayChange(call) = (IF call.object = NoObject THEN {} ELSE Whole(call.object))
                            \cup volatile \cup Bills
      BY <2>2 DEF MayChange
    <3>2. Forgotten(call, result) =
            (IF call.object \in Objects \ (Users \cup In("flights")) THEN Whole(call.object) ELSE {})
              \cup volatile
      BY <2>2 DEF Forgotten
    <3>5. \A b \in In("bills") : Whole(b) = {Cell(b, "fixed")} /\ b \notin Users \cup In("flights")
      BY DEF Whole, In, Users
    <3>6. Bills \subseteq Overlooked(call) \cup Forgotten(call, result)
      <4> SUFFICES ASSUME NEW b \in In("bills")
                   PROVE  Whole(b) \subseteq Overlooked(call) \cup Forgotten(call, result)
        BY DEF Bills
      <4>1. CASE b = call.object
        BY <3>2, <3>5, <4>1 DEF In
      <4>2. CASE b # call.object
        <5>1. Cell(b, "fixed") \in Cells /\ Cell(b, "fixed") \in Bills /\ Cell(b, "fixed").object = b
          BY <3>5 DEF Cells, Bills, Cell, In
        <5> QED
          BY <2>2, <3>5, <4>2, <5>1 DEF Overlooked
      <4> QED
        BY <4>1, <4>2
    <3>3. CASE call.object = NoObject
      BY <3>1, <3>2, <3>3, <3>6
    <3>4. CASE call.object # NoObject
      <4>1. call.object \in Objects /\ call.object \notin In("flights")
        BY <1>2, <2>2, <3>4 DEF Calls, Offered, In
      <4>2. CASE call.object \in Users
        <5>1. Whole(call.object) = {Cell(call.object, "fixed"), Cell(call.object, "volatile")}
              /\ Cell(call.object, "volatile") \in VolatileOf("users")
          BY <4>2 DEF Whole, VolatileOf, Users, In
        <5>2. Cell(call.object, "fixed") \in Overlooked(call)
          BY <2>2, <4>1, <4>2, <5>1 DEF Overlooked, Cells, Cell
        <5> QED
          BY <3>1, <3>2, <3>4, <3>6, <5>1, <5>2
      <4>3. CASE call.object \notin Users
        BY <3>1, <3>2, <3>4, <3>6, <4>1, <4>3
      <4> QED
        BY <4>2, <4>3
    <3> QED
      BY <3>3, <3>4
  <2>3. CASE call.tool \notin {"unknown", "write"}
    <3>1. MayChange(call) = {}
      BY <1>2, <2>3, Zenon DEF MayChange, ByAgent
    <3> QED
      BY <3>1
  <2> QED
    BY <2>1, <2>2, <2>3
<1> HIDE DEF call, result
<1>5. CacheIsCurrent'
  BY <1>1, <1>4 DEF AuditInv, CacheIsCurrent
<1> QED
  BY <1>3, <1>5

LEMMA UserCallKeepsAuditInv ==
  ASSUME AuditInv, UserCall
  PROVE  AuditInv'
<1>1. CacheIsCurrent' /\ NoStaleFacts'
  BY CustomersChangesAreForgotten
<1>2. /\ todo # << >> /\ todo' = Tail(todo) /\ count' = count + 1
      /\ UNCHANGED <<domain, agents, lookups, customer, supplied, overlooked, verdict>>
  BY DEF UserCall
<1>3. todo' \in Seq(StepRecords) /\ TodoFits' /\ TodoPaired'
  BY <1>2, TailFits
<1>4. PICK e \in EventRecords : history' = <<e>> \o history /\ e.kind = "user_action"
  <2>1. Event("user_action", IF customer = NoUser THEN "public" ELSE customer, count) \in EventRecords
    BY DEF Event, EventRecords, AuditInv, AuditTypeOK
  <2>2. Event("user_action", IF customer = NoUser THEN "public" ELSE customer, count).kind
          = "user_action"
    BY DEF Event
  <2> QED
    BY <2>1, <2>2 DEF UserCall
<1>5. Evidence(<<e>> \o history, 1, supplied)
  <2>1. (<<e>> \o history)[1] = e
    BY LenProperties, ConcatProperties DEF AuditInv, AuditTypeOK
  <2> QED
    BY <1>4, <2>1 DEF Evidence
<1>6. history' \in Seq(EventRecords) /\ \A i \in 1..Len(history') : Evidence(history', i, supplied)
  BY <1>4, <1>5, FrontKeepsEvidence DEF AuditInv, AuditTypeOK, HistoryFits
<1>7. HistoryFits'
  BY <1>2, <1>6 DEF HistoryFits, Evidence
<1> QED
  BY <1>1, <1>2, <1>3, <1>6, <1>7 DEF AuditInv, AuditTypeOK

-------------------------------------------------------------------------------
\* The customer that a call is about, and its resource.
LEMMA CustomerTypes ==
  ASSUME AuditInv, NEW call \in Calls
  PROVE  /\ Customer(call) \in Objects \cup {NoUser}
         /\ Resource(call) \in Objects \cup {NoUser, "public"}
         /\ Identity(call) => Customer(call) \in supplied
<1>1. Candidate(call) \in Objects \cup {NoUser}
  <2>1. CASE Named(call, "users")
    BY <2>1 DEF Candidate, Named, Calls
  <2>2. CASE ~Named(call, "users") /\ Named(call, "reservations")
    <3>1. call.object \in Objects /\ Collection[call.object] = "reservations"
      BY <2>2 DEF Named, Calls
    <3>2. Owner[call.object] \in Objects
      BY <3>1, AuditAssumption
    <3> QED
      BY <2>2, <3>2 DEF Candidate
  <2>3. CASE ~Named(call, "users") /\ ~Named(call, "reservations")
    BY <2>3 DEF Candidate
  <2> QED
    BY <2>1, <2>2, <2>3
<1>2. Customer(call) \in Objects \cup {NoUser}
  BY <1>1 DEF Customer, AuditInv, AuditTypeOK
<1>3. Resource(call) \in Objects \cup {NoUser, "public"}
  BY <1>2 DEF Resource, Answered, Calls, AuditInv, AuditTypeOK
<1>4. Identity(call) => Customer(call) \in supplied
  BY DEF Identity, Supplied
<1> QED
  BY <1>2, <1>3, <1>4

\* A dispatch and its request at the front, and an outcome before them.
LEMMA CallKeepsEvidence ==
  ASSUME NEW h \in Seq(EventRecords), NEW named, \A i \in 1..Len(h) : Evidence(h, i, named),
         NEW r \in Objects \cup {NoUser, "public"}, NEW n \in Nat
  PROVE  LET ran == <<Event("dispatch", r, n), Event("request", r, n)>> \o h
         IN  /\ ran \in Seq(EventRecords) /\ \A i \in 1..Len(ran) : Evidence(ran, i, named)
             /\ \A kind \in {"success", "failure"} :
                  LET all == <<Event(kind, r, n)>> \o ran
                  IN  all \in Seq(EventRecords) /\ \A i \in 1..Len(all) : Evidence(all, i, named)
<1>1. PICK d : d = Event("dispatch", r, n)
  OBVIOUS
<1>2. PICK q : q = Event("request", r, n)
  OBVIOUS
<1>3. d \in EventRecords /\ q \in EventRecords /\ d.kind = "dispatch" /\ q.kind = "request"
  BY <1>1, <1>2 DEF Event, EventRecords
<1>4. PICK g : g = <<q>> \o h
  OBVIOUS
<1>5. g[1] = q
  BY <1>3, <1>4, ConcatProperties, LenProperties
<1>6. g \in Seq(EventRecords) /\ Len(g) = Len(h) + 1 /\ \A i \in 1..Len(g) : Evidence(g, i, named)
  <2>1. Evidence(g, 1, named)
    BY <1>3, <1>5 DEF Evidence
  <2> QED
    BY <1>3, <1>4, <2>1, FrontKeepsEvidence
<1>7. PICK ran : ran = <<d>> \o g
  OBVIOUS
<1>8. ran[1] = d
  BY <1>3, <1>6, <1>7, ConcatProperties, LenProperties
<1>9. /\ ran \in Seq(EventRecords) /\ Len(ran) = Len(g) + 1 /\ ran[2] = q
      /\ \A i \in 1..Len(ran) : Evidence(ran, i, named)
  <2>1. Evidence(ran, 1, named)
    BY <1>3, <1>8 DEF Evidence
  <2>2. 1 \in 1..Len(g) /\ 1 + 1 = 2
    BY <1>6, LenProperties
  <2>3. /\ ran \in Seq(EventRecords) /\ Len(ran) = Len(g) + 1
        /\ \A i \in 1..Len(g) : ran[i + 1] = g[i]
        /\ \A i \in 1..Len(ran) : Evidence(ran, i, named)
    BY <1>3, <1>6, <1>7, <2>1, FrontKeepsEvidence
  <2>4. ran[2] = g[1]
    BY <2>2, <2>3
  <2> QED
    BY <1>5, <2>3, <2>4
<1>10. <<Event("dispatch", r, n), Event("request", r, n)>> \o h = ran
  <2>1. <<d, q>> \o h = <<d>> \o (<<q>> \o h)
    BY <1>3
  <2> QED
    BY <1>1, <1>2, <1>4, <1>7, <2>1
<1>11. ASSUME NEW kind \in {"success", "failure"}
       PROVE  /\ <<Event(kind, r, n)>> \o ran \in Seq(EventRecords)
              /\ \A i \in 1..Len(<<Event(kind, r, n)>> \o ran) :
                   Evidence(<<Event(kind, r, n)>> \o ran, i, named)
  <2>1. PICK e : e = Event(kind, r, n)
    OBVIOUS
  <2>2. e \in EventRecords /\ e.kind = kind /\ e.resource = r /\ e.number = n
    BY <2>1 DEF Event, EventRecords
  <2>3. PICK all : all = <<e>> \o ran
    OBVIOUS
  <2>4. /\ Len(all) = Len(ran) + 1 /\ all[1] = e /\ all[2] = ran[1] /\ all[3] = ran[2]
        /\ Len(ran) \in Nat /\ Len(ran) >= 2
    <3>1. Len(ran) \in Nat /\ Len(ran) >= 2
      BY <1>6, <1>9, LenProperties
    <3> QED
      BY <1>9, <2>2, <2>3, <3>1, ConcatProperties, LenProperties
  <2>5. Evidence(all, 1, named)
    BY <1>1, <1>2, <1>8, <1>9, <2>2, <2>4 DEF Evidence
  <2> QED
    BY <1>9, <2>1, <2>2, <2>3, <2>5, FrontKeepsEvidence
<1> QED
  BY <1>9, <1>10, <1>11

\* Renamed gives both of them the other resource.
LEMMA RenamedCall ==
  ASSUME NEW h \in Seq(EventRecords), NEW n \in Nat,
         NEW r \in Objects \cup {NoUser, "public"}, NEW q \in Objects \cup {NoUser, "public"}
  PROVE  Renamed(<<Event("dispatch", r, n), Event("request", r, n)>> \o h, q)
           = <<Event("dispatch", q, n), Event("request", q, n)>> \o h
<1>1. PICK a : a = <<Event("dispatch", r, n), Event("request", r, n)>>
  OBVIOUS
<1>2. PICK b : b = <<Event("dispatch", q, n), Event("request", q, n)>>
  OBVIOUS
<1>3. /\ a \in Seq(EventRecords) /\ Len(a) = 2 /\ a[1] = Event("dispatch", r, n)
      /\ a[2] = Event("request", r, n)
  BY <1>1 DEF Event, EventRecords
<1>4. /\ b \in Seq(EventRecords) /\ Len(b) = 2 /\ b[1] = Event("dispatch", q, n)
      /\ b[2] = Event("request", q, n)
  BY <1>2 DEF Event, EventRecords
<1>5. PICK s : s = a \o h
  OBVIOUS
<1>6. PICK t : t = b \o h
  OBVIOUS
<1>7. /\ s \in Seq(EventRecords) /\ t \in Seq(EventRecords) /\ Len(h) \in Nat
      /\ Len(s) = Len(h) + 2 /\ Len(t) = Len(h) + 2
      /\ s[1] = a[1] /\ s[2] = a[2] /\ t[1] = b[1] /\ t[2] = b[2]
      /\ \A i \in 3..(Len(h) + 2) : s[i] = t[i]
  <2>1. Len(h) \in Nat
    BY LenProperties
  <2>2. /\ s \in Seq(EventRecords) /\ Len(s) = 2 + Len(h)
        /\ \A i \in 1..(2 + Len(h)) : s[i] = IF i <= 2 THEN a[i] ELSE h[i - 2]
    <3>1. /\ a \o h \in Seq(EventRecords) /\ Len(a \o h) = Len(a) + Len(h)
          /\ \A i \in 1..Len(a) + Len(h) : (a \o h)[i] = IF i <= Len(a) THEN a[i] ELSE h[i - Len(a)]
      <4>1. a \in Seq(EventRecords)
        BY <1>3
      <4> QED
        BY <4>1, ConcatProperties
    <3> QED
      BY <1>3, <1>5, <2>1, <3>1
  <2>3. /\ t \in Seq(EventRecords) /\ Len(t) = 2 + Len(h)
        /\ \A i \in 1..(2 + Len(h)) : t[i] = IF i <= 2 THEN b[i] ELSE h[i - 2]
    <3>1. /\ b \o h \in Seq(EventRecords) /\ Len(b \o h) = Len(b) + Len(h)
          /\ \A i \in 1..Len(b) + Len(h) : (b \o h)[i] = IF i <= Len(b) THEN b[i] ELSE h[i - Len(b)]
      <4>1. b \in Seq(EventRecords)
        BY <1>4
      <4> QED
        BY <4>1, ConcatProperties
    <3> QED
      BY <1>4, <1>6, <2>1, <3>1
  <2> QED
    BY <2>1, <2>2, <2>3
<1>8. PICK w : w = Renamed(s, q)
  OBVIOUS
<1>9. DOMAIN s = 1..(Len(h) + 2) /\ DOMAIN t = 1..(Len(h) + 2)
  BY <1>7, LenProperties
<1>10. w = [s EXCEPT ![1] = [s[1] EXCEPT !.resource = q], ![2] = [s[2] EXCEPT !.resource = q]]
  BY <1>7, <1>8, <1>9 DEF Renamed
<1>11. [s[1] EXCEPT !.resource = q] = t[1] /\ [s[2] EXCEPT !.resource = q] = t[2]
  BY <1>3, <1>4, <1>7 DEF Event
<1>12. w = [i \in 1..(Len(h) + 2) |-> t[i]]
  <2>1. DOMAIN w = 1..(Len(h) + 2) /\ w = [i \in DOMAIN w |-> w[i]]
    BY <1>9, <1>10
  <2>2. 1 \in DOMAIN s /\ 2 \in DOMAIN s
    BY <1>7, <1>9
  <2>3. w[1] = t[1] /\ w[2] = t[2] /\ \A i \in DOMAIN s \ {1, 2} : w[i] = s[i]
    BY <1>10, <1>11, <2>2
  <2>4. \A i \in 1..(Len(h) + 2) : i \in DOMAIN s /\ (i \notin {1, 2} => i \in 3..(Len(h) + 2))
    BY <1>7, <1>9
  <2>5. \A i \in 1..(Len(h) + 2) : w[i] = t[i]
    BY <1>7, <2>3, <2>4
  <2> QED
    BY <2>1, <2>5
<1>13. t = [i \in 1..(Len(h) + 2) |-> t[i]]
  BY <1>7, <1>9
<1> QED
  BY <1>1, <1>2, <1>5, <1>6, <1>8, <1>12, <1>13

LEMMA AgentCallKeepsAuditInv ==
  ASSUME AuditInv, AgentCall
  PROVE  AuditInv'
<1> DEFINE step == Head(todo)
           call == step.call
           result == step.result
           who == Customer(call)
           resource == Resource(call)
           first == ~\E i \in DOMAIN history : history[i].kind = "identity" /\ history[i].resource = who
           told == (IF Identity(call) /\ first THEN <<Event("identity", who, count)>> ELSE << >>)
                   \o history
           ran(r) == <<Event("dispatch", r, count), Event("request", r, count)>> \o told
           ingests == /\ step.at # 0 /\ ~result.failed
                      /\ call.tool # "unknown" /\ call.valid
           answers == ingests /\ call.tool = "lookup" /\ call.object # NoObject
           named == IF answers THEN call.object ELSE resource
<1>1. /\ todo # << >> /\ todo' = Tail(todo) /\ count' = count + 1
      /\ UNCHANGED <<domain, agents, supplied>>
      /\ lookups' = (IF call.tool = "unknown" THEN {} ELSE lookups)
                    \cup (IF answers THEN {call.object} ELSE {})
      /\ customer' = IF answers /\ who = NoUser THEN call.object ELSE who
      /\ history' = IF step.at = 0 THEN ran(resource)
                    ELSE <<Event(OutcomeOf(result), named, count)>> \o
                         (IF named = resource THEN ran(resource) ELSE Renamed(ran(resource), named))
  BY DEF AgentCall
<1>2. step \in StepRecords /\ call \in Calls
  <2>1. Head(todo) \in StepRecords
    BY <1>1, HeadTailProperties DEF AuditInv, AuditTypeOK
  <2> QED
    BY <2>1 DEF StepRecords
<1>3. /\ who \in Objects \cup {NoUser} /\ resource \in Objects \cup {NoUser, "public"}
      /\ Identity(call) => who \in supplied
  BY <1>2, CustomerTypes
<1>4. answers => call.object \in Objects
  BY <1>2 DEF Calls
<1>5. named \in Objects \cup {NoUser, "public"} /\ count \in Nat
  BY <1>3, <1>4 DEF AuditInv, AuditTypeOK
<1> HIDE DEF named, resource
<1>6. told \in Seq(EventRecords) /\ \A i \in 1..Len(told) : Evidence(told, i, supplied)
  <2>1. CASE Identity(call) /\ first
    <3>1. PICK e : e = Event("identity", who, count)
      OBVIOUS
    <3>2. e \in EventRecords /\ e.kind = "identity" /\ e.resource = who /\ who \in supplied
      BY <1>3, <1>5, <2>1, <3>1 DEF Event, EventRecords
    <3>3. (<<e>> \o history)[1] = e
      BY <3>2, LenProperties, ConcatProperties DEF AuditInv, AuditTypeOK
    <3>4. Evidence(<<e>> \o history, 1, supplied)
      BY <3>2, <3>3 DEF Evidence
    <3>5. told = <<e>> \o history
      BY <2>1, <3>1
    <3> QED
      BY <3>2, <3>4, <3>5, FrontKeepsEvidence DEF AuditInv, AuditTypeOK, HistoryFits
  <2>2. CASE ~(Identity(call) /\ first)
    <3>1. told = << >> \o history
      BY <2>2
    <3>2. << >> \o history = history
      BY DEF AuditInv, AuditTypeOK
    <3> QED
      BY <3>1, <3>2 DEF AuditInv, AuditTypeOK, HistoryFits
  <2> QED
    BY <2>1, <2>2
<1> HIDE DEF told
<1>7. Renamed(ran(resource), named) = ran(named)
  BY <1>3, <1>5, <1>6, RenamedCall
<1>8. history' = IF step.at = 0 THEN ran(resource)
                 ELSE <<Event(OutcomeOf(result), named, count)>> \o ran(named)
  BY <1>1, <1>7
<1>9. OutcomeOf(result) \in {"success", "failure"}
  BY DEF OutcomeOf
<1>10. history' \in Seq(EventRecords) /\ \A i \in 1..Len(history') : Evidence(history', i, supplied)
  BY <1>3, <1>5, <1>6, <1>8, <1>9, CallKeepsEvidence
<1>11. HistoryFits'
  BY <1>1, <1>10 DEF HistoryFits, Evidence
<1>12. todo' \in Seq(StepRecords) /\ TodoFits' /\ TodoPaired'
  BY <1>1, TailFits
<1>13. AuditTypeOK'
  BY <1>1, <1>3, <1>4, <1>5, <1>10, <1>12 DEF AuditInv, AuditTypeOK
<1> QED
  BY <1>11, <1>12, <1>13, AgentsChangesAreForgotten DEF AuditInv

-------------------------------------------------------------------------------
LEMMA StepKeepsAuditInv == AuditInv /\ [Next]_vars => AuditInv'
<1> SUFFICES ASSUME AuditInv, [Next]_vars PROVE AuditInv'
  OBVIOUS
<1>1. ASSUME NEW mine \in BOOLEAN, NEW n \in 1..MaxCalls, NEW m \in 0..MaxCalls,
             NEW calls \in [1..n -> {c \in Calls : Offered(domain, c) /\ ByAgent(c) = mine}],
             NEW responses \in [1..m -> Responses], ReadMessage(mine, calls, responses)
      PROVE  AuditInv'
  <2>1. MaxCalls \in Nat
    BY AuditAssumption
  <2>2. n \in Nat /\ m \in Nat
    BY <2>1
  <2> QED
    BY <1>1, <2>2, ReadKeepsAuditInv
<1>2. CASE UNCHANGED vars
  BY <1>2 DEF vars, AuditInv, AuditTypeOK, TodoFits, Offered, ByAgent, CacheIsCurrent, NoStaleFacts,
              HistoryFits, Evidence, TodoPaired, OneOfAnId
<1> QED
  BY <1>1, <1>2, UserCallKeepsAuditInv, AgentCallKeepsAuditInv, SpeakKeepsAuditInv DEF Next

THEOREM AuditInvariance == Spec => []AuditInv
BY InitAuditInv, StepKeepsAuditInv, PTL DEF Spec

\* No verdict rests on a fact that a write, unknown code or the customer may have
\* changed since, but for the user's record and the bills that invalidate overlooks
\* at a write (trajectory_replay.py:170-267, 480-615).
THEOREM VerdictsRestOnCurrentFacts == Spec => []NoStaleFacts
<1>1. AuditInv => NoStaleFacts
  BY DEF AuditInv
<1> QED
  BY <1>1, AuditInvariance, PTL

\* Customers are identified by their own words, outcomes follow what they are outcomes
\* of, no result is given to two calls or against its id or place, and of the calls
\* that share an id one at most has a result by it (trajectory_replay.py:85-112,
\* 480-615).
THEOREM HistoryRestsOnEvidence == Spec => []HistoryIsEvidence
<1>1. AuditInv => HistoryIsEvidence
  <2> SUFFICES ASSUME AuditInv PROVE HistoryIsEvidence
    OBVIOUS
  <2>1. DOMAIN history = 1..Len(history)
    BY LenProperties DEF AuditInv, AuditTypeOK
  <2> QED
    BY <2>1 DEF AuditInv, HistoryFits, Evidence, TodoPaired, OneOfAnId, HistoryIsEvidence
<1> QED
  BY <1>1, AuditInvariance, PTL
===============================================================================
