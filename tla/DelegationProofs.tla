--------------------------- MODULE DelegationProofs ---------------------------
(***************************************************************************)
(* The promises of Delegation, for every set of grants, every depth of     *)
(* delegation and every number of commands, crashes and failures.          *)
(*                                                                         *)
(* A journal is described by the ledger that replaying it gives: Agreed    *)
(* says how the two hang together, and it is kept by every command the     *)
(* engine accepts.  The lineage that the engine computes with fuel is the  *)
(* set of the grants a grant was derived from.                             *)
(***************************************************************************)
EXTENDS Delegation, DataLemmas, SequenceTheorems

-------------------------------------------------------------------------------
\* The grants that a grant was derived from, in a table of grants

Closed(G, S) == \A x \in S : G[x].parent \in S \cup {NoGrant}
Up(G, g) == {a \in DOMAIN G : \A S \in SUBSET DOMAIN G : g \in S /\ Closed(G, S) => a \in S}

\* A table whose parents are in it.
Tree(G) ==
  /\ DOMAIN G \subseteq GrantIds
  /\ G \in [DOMAIN G -> Grants]
  /\ Closed(G, DOMAIN G)

LEMMA UpIsLeast ==
  ASSUME NEW G, Tree(G), NEW g \in DOMAIN G
  PROVE  /\ g \in Up(G, g)
         /\ Up(G, g) \subseteq DOMAIN G
         /\ Closed(G, Up(G, g))
         /\ \A S \in SUBSET DOMAIN G : g \in S /\ Closed(G, S) => Up(G, g) \subseteq S
         /\ IsFiniteSet(Up(G, g))
<1>1. g \in Up(G, g) /\ Up(G, g) \subseteq DOMAIN G
  BY DEF Up
<1>2. Closed(G, Up(G, g))
  <2> SUFFICES ASSUME NEW x \in Up(G, g), G[x].parent # NoGrant
               PROVE  G[x].parent \in Up(G, g)
    BY DEF Closed
  <2>1. G[x].parent \in DOMAIN G
    BY <1>1 DEF Tree, Closed
  <2>2. ASSUME NEW S \in SUBSET DOMAIN G, g \in S, Closed(G, S)
        PROVE  G[x].parent \in S
    BY <2>2 DEF Up, Closed
  <2> QED
    BY <2>1, <2>2 DEF Up
<1>3. \A S \in SUBSET DOMAIN G : g \in S /\ Closed(G, S) => Up(G, g) \subseteq S
  BY DEF Up
<1>4. IsFiniteSet(Up(G, g))
  BY <1>1, DelegationAssumption, FS_Subset DEF Tree
<1> QED
  BY <1>1, <1>2, <1>3, <1>4

LEMMA UpOfRoot ==
  ASSUME NEW G, Tree(G), NEW g \in DOMAIN G, G[g].parent = NoGrant
  PROVE  Up(G, g) = {g}
<1>1. Closed(G, {g})
  BY DEF Closed
<1> QED
  BY <1>1, UpIsLeast

LEMMA UpOfChild ==
  ASSUME NEW G, Tree(G), NEW g \in DOMAIN G, G[g].parent # NoGrant
  PROVE  /\ G[g].parent \in DOMAIN G
         /\ Up(G, g) = {g} \cup Up(G, G[g].parent)
<1>1. PICK p : p = G[g].parent
  OBVIOUS
<1>2. p \in DOMAIN G
  BY <1>1 DEF Tree, Closed
<1>3. Closed(G, {g} \cup Up(G, p))
  BY <1>1, <1>2, UpIsLeast DEF Closed
<1>4. Up(G, g) \subseteq {g} \cup Up(G, p)
  BY <1>2, <1>3, UpIsLeast
<1>5. p \in Up(G, g)
  BY <1>1, UpIsLeast DEF Closed
<1>6. Up(G, p) \subseteq Up(G, g)
  BY <1>2, <1>5, UpIsLeast
<1> QED
  BY <1>1, <1>2, <1>4, <1>6, UpIsLeast

\* A new grant changes nothing for the older ones.
LEMMA UpIsStable ==
  ASSUME NEW G, Tree(G), NEW H, Tree(H), DOMAIN G \subseteq DOMAIN H,
         \A x \in DOMAIN G : H[x] = G[x], NEW g \in DOMAIN G
  PROVE  Up(H, g) = Up(G, g)
<1>1. Closed(H, Up(G, g))
  BY UpIsLeast DEF Closed
<1>2. Up(H, g) \subseteq Up(G, g)
  BY <1>1, UpIsLeast
<1>3. Closed(G, Up(H, g))
  <2>1. Closed(H, Up(H, g))
    BY UpIsLeast
  <2>2. \A x \in Up(H, g) : x \in DOMAIN G
    BY <1>2, UpIsLeast
  <2> QED
    BY <2>1, <2>2 DEF Closed
<1>4. Up(G, g) \subseteq Up(H, g)
  <2>1. g \in Up(H, g) /\ Up(H, g) \in SUBSET DOMAIN G
    BY <1>2, UpIsLeast
  <2> QED
    BY <1>3, <2>1, UpIsLeast
<1> QED
  BY <1>2, <1>4

-------------------------------------------------------------------------------
\* The engine's lineage: the fuel is enough

Climb(G, S) == S \cup ({G[x].parent : x \in S} \ {NoGrant})

ClimbsTo(c, G, g, m) ==
  c = [n \in 0..m |-> IF n = 0 THEN {g} ELSE Climb(G, c[n - 1])]

LEMMA LineageUnfolds ==
  ASSUME NEW l, NEW g
  PROVE  Lineage(l, g) = (CHOOSE c : ClimbsTo(c, l.grants, g, Cardinality(GrantIds)))
                           [Cardinality(GrantIds)]
  BY Zenon DEF Lineage, ClimbsTo, Climb

LEMMA ClimbExists ==
  ASSUME NEW G, NEW g, NEW K \in Nat
  PROVE  \E c : ClimbsTo(c, G, g, K)
<1> DEFINE A == {m \in Nat : \E c : ClimbsTo(c, G, g, m)}
<1>1. 0 \in A
  <2>1. ClimbsTo([n \in 0..0 |-> {g}], G, g, 0)
    BY DEF ClimbsTo
  <2> QED
    BY <2>1
<1>2. ASSUME NEW m \in Nat, m \in A PROVE m + 1 \in A
  <2>1. PICK c : ClimbsTo(c, G, g, m)
    BY <1>2
  <2> DEFINE d == [n \in 0..(m + 1) |-> IF n = m + 1 THEN Climb(G, c[m]) ELSE c[n]]
  <2>2. ASSUME NEW n \in 0..(m + 1)
        PROVE  d[n] = IF n = 0 THEN {g} ELSE Climb(G, d[n - 1])
    <3>1. CASE n = 0
      BY <2>1, <3>1 DEF ClimbsTo
    <3>2. CASE n = m + 1
      BY <3>2
    <3>3. CASE n # 0 /\ n # m + 1
      <4>1. n \in 0..m /\ n - 1 \in 0..(m + 1) /\ n - 1 # m + 1
        BY <3>3
      <4> QED
        BY <2>1, <3>3, <4>1 DEF ClimbsTo
    <3> QED
      BY <3>1, <3>2, <3>3
  <2>3. ClimbsTo(d, G, g, m + 1)
    BY <2>2 DEF ClimbsTo
  <2> QED
    BY <2>3
<1>3. K \in A
  <2> HIDE DEF A
  <2> QED
    BY <1>1, <1>2, Induction
<1> QED
  BY <1>3

\* A chain of grants is never longer than the number of grants, so the lineage
\* is everything the grant was derived from.
LEMMA LineageIsUp ==
  ASSUME NEW l, Tree(l.grants), NEW g \in DOMAIN l.grants
  PROVE  Lineage(l, g) = Up(l.grants, g)
<1>1. PICK G : G = l.grants
  OBVIOUS
<1>2. PICK K : K = Cardinality(GrantIds)
  OBVIOUS
<1>3. K \in Nat /\ IsFiniteSet(GrantIds)
  BY <1>2, DelegationAssumption, FS_CardinalityType
<1>4. PICK c : c = (CHOOSE d : ClimbsTo(d, G, g, K)) /\ ClimbsTo(c, G, g, K)
  BY <1>3, ClimbExists, Zenon
<1>5. Lineage(l, g) = c[K]
  BY <1>1, <1>2, <1>4, LineageUnfolds
<1>6. /\ c[0] = {g}
      /\ \A n \in Nat : n + 1 <= K => c[n + 1] = Climb(G, c[n])
  <2>1. \A n \in 0..K : c[n] = IF n = 0 THEN {g} ELSE Climb(G, c[n - 1])
    BY <1>4 DEF ClimbsTo
  <2>2. ASSUME NEW n \in Nat, n + 1 <= K PROVE c[n + 1] = Climb(G, c[n])
    <3>1. n + 1 \in 0..K /\ n + 1 # 0 /\ (n + 1) - 1 = n
      BY <1>3, <2>2
    <3> QED
      BY <2>1, <3>1
  <2> QED
    BY <1>3, <2>1, <2>2
<1>7. Tree(G) /\ g \in DOMAIN G
  BY <1>1
<1> DEFINE A == {n \in Nat : n <= K =>
                   /\ g \in c[n]
                   /\ c[n] \subseteq Up(G, g)
                   /\ Closed(G, c[n]) \/ n + 1 <= Cardinality(c[n])}
<1>8. ASSUME NEW S, S \subseteq Up(G, g)
      PROVE  Climb(G, S) \subseteq Up(G, g) /\ IsFiniteSet(Climb(G, S)) /\ IsFiniteSet(S)
  <2>1. Climb(G, S) \subseteq Up(G, g)
    BY <1>7, <1>8, UpIsLeast DEF Climb, Closed
  <2> QED
    BY <1>7, <1>8, <2>1, UpIsLeast, FS_Subset
<1>9. 0 \in A
  <2>1. Cardinality({g}) = 1
    BY FS_Singleton
  <2>2. g \in c[0] /\ c[0] \subseteq Up(G, g) /\ 0 + 1 <= Cardinality(c[0])
    BY <1>6, <1>7, <2>1, UpIsLeast
  <2> QED
    BY <2>2
<1>10. ASSUME NEW n \in Nat, n \in A PROVE n + 1 \in A
  <2> SUFFICES ASSUME n + 1 <= K
               PROVE  /\ g \in c[n + 1]
                      /\ c[n + 1] \subseteq Up(G, g)
                      /\ Closed(G, c[n + 1]) \/ (n + 1) + 1 <= Cardinality(c[n + 1])
    OBVIOUS
  <2>1. PICK S : S = c[n] /\ c[n + 1] = Climb(G, S)
    BY <1>3, <1>6
  <2>2. g \in S /\ S \subseteq Up(G, g) /\ (Closed(G, S) \/ n + 1 <= Cardinality(S))
    BY <1>3, <1>10, <2>1
  <2>3. g \in Climb(G, S)
    BY <2>2 DEF Climb
  <2>4. Climb(G, S) \subseteq Up(G, g) /\ IsFiniteSet(Climb(G, S)) /\ IsFiniteSet(S)
    BY <1>8, <2>2
  <2>5. CASE Closed(G, S)
    <3>1. Climb(G, S) = S
      BY <2>5 DEF Closed, Climb
    <3> QED
      BY <2>1, <2>2, <2>5, <3>1
  <2>6. CASE ~Closed(G, S)
    <3>1. S \subseteq Climb(G, S) /\ S # Climb(G, S)
      BY <2>6 DEF Closed, Climb
    <3>2. Cardinality(S) <= Cardinality(Climb(G, S)) /\ Cardinality(S) # Cardinality(Climb(G, S))
      BY <2>4, <3>1, FS_Subset
    <3>3. Cardinality(S) \in Nat /\ Cardinality(Climb(G, S)) \in Nat
      BY <2>4, FS_CardinalityType
    <3> QED
      BY <2>1, <2>2, <2>3, <2>4, <2>6, <3>2, <3>3
  <2> QED
    BY <2>5, <2>6
<1>11. K \in A
  <2> HIDE DEF A
  <2> QED
    BY <1>3, <1>9, <1>10, Induction
<1>12. c[K] \subseteq GrantIds
  BY <1>3, <1>7, <1>11, UpIsLeast DEF Tree
<1>13. Cardinality(c[K]) <= K
  BY <1>2, <1>3, <1>12, FS_Subset
<1>14. Cardinality(c[K]) \in Nat
  BY <1>3, <1>12, FS_Subset, FS_CardinalityType
<1>15. g \in c[K] /\ c[K] \subseteq Up(G, g) /\ Closed(G, c[K])
  BY <1>3, <1>11, <1>13, <1>14
<1>16. Up(G, g) \subseteq c[K]
  BY <1>7, <1>15, UpIsLeast
<1> QED
  BY <1>1, <1>5, <1>15, <1>16

-------------------------------------------------------------------------------
\* Replaying a journal

Folds(it, h, D) ==
  it = [s \in SUBSET D |-> IF s = {} THEN NoLedger
                           ELSE Apply(it[s \ {Max(s)}], h[Max(s)])]

LEMMA ReplayUnfolds ==
  ASSUME NEW h
  PROVE  Replay(h) = (CHOOSE it : Folds(it, h, DOMAIN h))[DOMAIN h]
  BY Zenon DEF Replay, FoldLeft, MapThenFoldSet, Folds

LEMMA MaxOfPrefix ==
  ASSUME NEW n \in Nat, NEW s \in SUBSET (1..(n + 1)), n + 1 \in s
  PROVE  Max(s) = n + 1
<1>1. n + 1 \in s /\ \A y \in s : n + 1 >= y
  OBVIOUS
<1>2. \A x \in s : (\A y \in s : x >= y) => x = n + 1
  BY <1>1
<1>3. Max(s) \in s /\ \A y \in s : Max(s) >= y
  BY <1>1 DEF Max
<1> QED
  BY <1>2, <1>3

LEMMA FoldsExists ==
  ASSUME NEW h, NEW N \in Nat
  PROVE  \E it : Folds(it, h, 1..N)
<1> DEFINE A == {n \in Nat : \E it : Folds(it, h, 1..n)}
<1>1. 0 \in A
  <2>1. SUBSET (1..0) = {{}}
    OBVIOUS
  <2>2. Folds([s \in SUBSET (1..0) |-> NoLedger], h, 1..0)
    BY <2>1 DEF Folds
  <2> QED
    BY <2>2
<1>2. ASSUME NEW n \in Nat, n \in A PROVE n + 1 \in A
  <2>1. PICK it : Folds(it, h, 1..n)
    BY <1>2
  <2> DEFINE next == [s \in SUBSET (1..(n + 1)) |->
                        IF n + 1 \in s THEN Apply(it[s \ {n + 1}], h[n + 1]) ELSE it[s]]
  <2> DEFINE val(s) == IF s = {} THEN NoLedger ELSE Apply(next[s \ {Max(s)}], h[Max(s)])
  <2>2. \A s \in SUBSET (1..(n + 1)) : n + 1 \notin s => s \in SUBSET (1..n) /\ next[s] = it[s]
    OBVIOUS
  <2>3. ASSUME NEW s \in SUBSET (1..(n + 1)) PROVE next[s] = val(s)
    <3>1. CASE n + 1 \in s
      <4>1. Max(s) = n + 1
        BY <3>1, MaxOfPrefix
      <4>2. next[s \ {n + 1}] = it[s \ {n + 1}]
        BY <2>2
      <4>3. next[s] = Apply(it[s \ {n + 1}], h[n + 1])
        BY <3>1
      <4> QED
        BY <3>1, <4>1, <4>2, <4>3
    <3>2. CASE n + 1 \notin s
      <4>1. s \in SUBSET (1..n) /\ next[s] = it[s]
        BY <2>2, <3>2
      <4>2. CASE s = {}
        BY <2>1, <4>1, <4>2 DEF Folds
      <4>3. CASE s # {}
        <5>1. it[s] = Apply(it[s \ {Max(s)}], h[Max(s)])
          BY <2>1, <4>1, <4>3 DEF Folds
        <5>2. n + 1 \notin s \ {Max(s)} /\ s \ {Max(s)} \in SUBSET (1..(n + 1))
          BY <3>2
        <5>3. next[s \ {Max(s)}] = it[s \ {Max(s)}]
          BY <2>2, <5>2
        <5> QED
          BY <4>1, <4>3, <5>1, <5>3
      <4> QED
        BY <4>2, <4>3
    <3> QED
      BY <3>1, <3>2
  <2>4. Folds(next, h, 1..(n + 1))
    <3>1. next = [s \in SUBSET (1..(n + 1)) |-> val(s)]
      BY <2>3
    <3> QED
      BY <3>1, Zenon DEF Folds
  <2> QED
    BY <2>4
<1>3. N \in A
  <2> HIDE DEF A
  <2> QED
    BY <1>1, <1>2, Induction
<1> QED
  BY <1>3

\* A solution read on the prefixes of the journal.
LEMMA FoldsOnPrefix ==
  ASSUME NEW h, NEW N \in Nat, NEW it, Folds(it, h, 1..N)
  PROVE  /\ it[1..0] = NoLedger
         /\ \A n \in Nat : n + 1 <= N => it[1..(n + 1)] = Apply(it[1..n], h[n + 1])
<1>1. it[1..0] = NoLedger
  <2>1. 1..0 = {} /\ 1..0 \in SUBSET (1..N)
    OBVIOUS
  <2> QED
    BY <2>1 DEF Folds
<1>2. ASSUME NEW n \in Nat, n + 1 <= N
      PROVE  it[1..(n + 1)] = Apply(it[1..n], h[n + 1])
  <2>1. 1..(n + 1) \in SUBSET (1..N) /\ 1..(n + 1) # {}
    BY <1>2
  <2>2. Max(1..(n + 1)) = n + 1
    BY MaxOfPrefix
  <2>3. (1..(n + 1)) \ {n + 1} = 1..n
    OBVIOUS
  <2>4. it[1..(n + 1)] = Apply(it[(1..(n + 1)) \ {Max(1..(n + 1))}], h[Max(1..(n + 1))])
    BY <2>1 DEF Folds
  <2> QED
    BY <2>2, <2>3, <2>4
<1> QED
  BY <1>1, <1>2

LEMMA ReplayOfNothing == Replay(<< >>) = NoLedger
<1>1. PICK it : it = (CHOOSE f : Folds(f, << >>, 1..0)) /\ Folds(it, << >>, 1..0)
  BY FoldsExists, Zenon
<1>2. DOMAIN << >> = 1..0
  OBVIOUS
<1> QED
  BY <1>1, <1>2, FoldsOnPrefix, ReplayUnfolds

\* One command more: replay goes on where it was.
LEMMA ReplayOfAppend ==
  ASSUME NEW S, NEW h \in Seq(S), NEW e \in S
  PROVE  Replay(Append(h, e)) = Apply(Replay(h), e)
<1>1. PICK N \in Nat : N = Len(h)
  OBVIOUS
<1>2. PICK k : k = Append(h, e)
  OBVIOUS
<1>3. DOMAIN h = 1..N /\ DOMAIN k = 1..(N + 1) /\ k[N + 1] = e
      /\ \A n \in 1..N : k[n] = h[n]
  BY <1>1, <1>2
<1>4. PICK f : f = (CHOOSE it : Folds(it, h, 1..N)) /\ Folds(f, h, 1..N)
  BY <1>1, FoldsExists, Zenon
<1>5. PICK g : g = (CHOOSE it : Folds(it, k, 1..(N + 1))) /\ Folds(g, k, 1..(N + 1))
  <2>1. N + 1 \in Nat
    BY <1>1
  <2> QED
    BY <2>1, FoldsExists, Zenon
<1>6. /\ f[1..0] = NoLedger
      /\ \A n \in Nat : n + 1 <= N => f[1..(n + 1)] = Apply(f[1..n], h[n + 1])
  BY <1>1, <1>4, FoldsOnPrefix
<1>7. /\ g[1..0] = NoLedger
      /\ \A n \in Nat : n + 1 <= N + 1 => g[1..(n + 1)] = Apply(g[1..n], k[n + 1])
  <2>1. N + 1 \in Nat
    BY <1>1
  <2> QED
    BY <1>5, <2>1, FoldsOnPrefix
<1> DEFINE A == {n \in Nat : n <= N => f[1..n] = g[1..n]}
<1>8. 0 \in A
  BY <1>6, <1>7
<1>9. ASSUME NEW n \in Nat, n \in A PROVE n + 1 \in A
  <2> SUFFICES ASSUME n + 1 <= N PROVE f[1..(n + 1)] = g[1..(n + 1)]
    OBVIOUS
  <2>1. f[1..n] = g[1..n] /\ k[n + 1] = h[n + 1] /\ n + 1 <= N + 1
    BY <1>1, <1>3, <1>9
  <2> QED
    BY <1>6, <1>7, <2>1
<1>10. f[1..N] = g[1..N]
  <2>1. N \in A
    <3> HIDE DEF A
    <3> QED
      BY <1>1, <1>8, <1>9, Induction
  <2> QED
    BY <1>1, <2>1
<1>11. g[1..(N + 1)] = Apply(g[1..N], e)
  BY <1>1, <1>3, <1>7
<1>12. Replay(h) = f[1..N] /\ Replay(k) = g[1..(N + 1)]
  BY <1>3, <1>4, <1>5, ReplayUnfolds
<1> QED
  BY <1>2, <1>10, <1>11, <1>12

-------------------------------------------------------------------------------
\* What a ledger has in common with the journal it was replayed from

IsGrant(e) == e.kind = "agent_grant"
IsRevoke(e) == e.kind = "agent_revoke"

IssuedBefore(h, g, i) ==
  \E j \in DOMAIN h : j < i /\ IsGrant(h[j]) /\ h[j].grant = g

RevokedBy(h, g, i) ==
  \E j \in DOMAIN h : j <= i /\ IsRevoke(h[j]) /\ h[j].grant = g

LedgerType(l) ==
  /\ l = [enabled |-> l.enabled, grants |-> l.grants, usage |-> l.usage,
          revoked |-> l.revoked]
  /\ l.enabled \in BOOLEAN
  /\ Tree(l.grants)
  /\ l.usage \in [DOMAIN l.grants -> [calls: Nat, amount: Nat]]
  /\ l.revoked \subseteq DOMAIN l.grants

EnabledAgrees(h, l) == l.enabled <=> \E i \in DOMAIN h : h[i].kind = "agent_enable"

GrantsAgree(h, l) ==
  /\ \A i \in DOMAIN h : IsGrant(h[i]) =>
       /\ h[i].grant \in DOMAIN l.grants
       /\ l.grants[h[i].grant] = h[i].body
       /\ h[i].actor = h[i].body.actor /\ h[i].workflow = h[i].body.workflow
  /\ \A g \in DOMAIN l.grants : \E i \in DOMAIN h : IsGrant(h[i]) /\ h[i].grant = g
  /\ \A i, j \in DOMAIN h : IsGrant(h[i]) /\ IsGrant(h[j]) /\ h[i].grant = h[j].grant => i = j

RevocationsAgree(h, l) ==
  /\ \A i \in DOMAIN h : IsRevoke(h[i]) =>
       /\ h[i].grant \in l.revoked
       /\ h[i].workflow = l.grants[h[i].grant].workflow
       /\ IssuedBefore(h, h[i].grant, i)
  /\ \A g \in l.revoked : \E i \in DOMAIN h : IsRevoke(h[i]) /\ h[i].grant = g

NoWider(child, parent) ==
  /\ child.limits.scope \subseteq parent.limits.scope
  /\ child.limits.calls <= parent.limits.calls
  /\ child.limits.amount <= parent.limits.amount
  /\ child.limits.expires <= parent.limits.expires

\* The rest of the depth that a root allows is in the grant itself.
Narrows(G) ==
  \A g \in DOMAIN G : \A a \in Up(G, g) :
    /\ NoWider(G[g], G[a])
    /\ G[a].parent = NoGrant =>
         Cardinality(Up(G, g)) + G[g].limits.depth <= G[a].limits.depth + 1

Spends(G, e, g) == IsDispatch(e) /\ e.grant # NoGrant /\ g \in Up(G, e.grant)

SpentIn(h, G, g) == {i \in DOMAIN h : Spends(G, h[i], g)}

AmountsOf(h) == [i \in DOMAIN h |-> h[i].amount]

SpendingAgrees(h, l) ==
  \A g \in DOMAIN l.grants :
    /\ l.usage[g] = [calls |-> Cardinality(SpentIn(h, l.grants, g)),
                     amount |-> SumFunctionOnSet(AmountsOf(h), SpentIn(h, l.grants, g))]
    /\ l.usage[g].calls <= l.grants[g].limits.calls
    /\ l.usage[g].amount <= l.grants[g].limits.amount

CoveredAt(h, G, i) ==
  /\ h[i].grant \in DOMAIN G
  /\ h[i].actor = G[h[i].grant].actor
  /\ \A g \in Up(G, h[i].grant) :
       /\ IssuedBefore(h, g, i)
       /\ h[i].time <= G[g].limits.expires
       /\ h[i].target \in G[g].limits.scope
       /\ ~RevokedBy(h, g, i)

\* A dispatch outside of every grant was made before there were any.
DispatchesAgree(h, l) ==
  \A i \in DOMAIN h : IsDispatch(h[i]) =>
    (h[i].grant = NoGrant /\ ~l.enabled) \/ CoveredAt(h, l.grants, i)

Agreed(h, l) ==
  /\ LedgerType(l)
  /\ EnabledAgrees(h, l)
  /\ GrantsAgree(h, l)
  /\ RevocationsAgree(h, l)
  /\ Narrows(l.grants)
  /\ SpendingAgrees(h, l)
  /\ DispatchesAgree(h, l)

-------------------------------------------------------------------------------
\* One row more in the journal

RowAdded(h, e, k) == h \in Seq(Entries) /\ e \in Entries /\ k = Append(h, e)

LEMMA RowAppended ==
  ASSUME NEW h, NEW e, NEW k, RowAdded(h, e, k)
  PROVE  /\ k \in Seq(Entries)
         /\ Len(k) = Len(h) + 1 /\ Len(h) \in Nat
         /\ DOMAIN h = 1..Len(h)
         /\ DOMAIN k = 1..(Len(h) + 1)
         /\ DOMAIN k = DOMAIN h \cup {Len(h) + 1} /\ Len(h) + 1 \notin DOMAIN h
         /\ k[Len(h) + 1] = e
         /\ \A i \in DOMAIN h : k[i] = h[i]
  BY DEF RowAdded

LEMMA RowsBefore ==
  ASSUME NEW h, NEW e, NEW k, RowAdded(h, e, k), NEW g
  PROVE  /\ \A i \in DOMAIN h : IssuedBefore(k, g, i) <=> IssuedBefore(h, g, i)
         /\ \A i \in DOMAIN h : RevokedBy(k, g, i) <=> RevokedBy(h, g, i)
         /\ (\E i \in DOMAIN h : IsGrant(h[i]) /\ h[i].grant = g)
              => IssuedBefore(k, g, Len(h) + 1)
<1>1. /\ DOMAIN k = DOMAIN h \cup {Len(h) + 1} /\ Len(h) \in Nat /\ DOMAIN h = 1..Len(h)
      /\ \A i \in DOMAIN h : k[i] = h[i]
  BY RowAppended DEF RowAdded
<1>2. \A i, j \in DOMAIN k : i \in DOMAIN h /\ j <= i => j \in DOMAIN h
  BY <1>1
<1>3. \A i \in DOMAIN h : IssuedBefore(k, g, i) <=> IssuedBefore(h, g, i)
  BY <1>1, <1>2 DEF IssuedBefore
<1>4. \A i \in DOMAIN h : RevokedBy(k, g, i) <=> RevokedBy(h, g, i)
  BY <1>1, <1>2 DEF RevokedBy
<1>5. (\E i \in DOMAIN h : IsGrant(h[i]) /\ h[i].grant = g) => IssuedBefore(k, g, Len(h) + 1)
  BY <1>1 DEF IssuedBefore
<1> QED
  BY <1>3, <1>4, <1>5

LEMMA AmountsAreNat ==
  ASSUME NEW h \in Seq(Entries), NEW S \in SUBSET DOMAIN h
  PROVE  /\ IsFiniteSet(S)
         /\ \A i \in S : AmountsOf(h)[i] \in Nat
         /\ Cardinality(S) \in Nat
         /\ SumFunctionOnSet(AmountsOf(h), S) \in Nat
<1>1. IsFiniteSet(S)
  <2>1. DOMAIN h = 1..Len(h) /\ Len(h) \in Nat
    OBVIOUS
  <2>2. IsFiniteSet(DOMAIN h)
    BY <2>1, FS_Interval
  <2> QED
    BY <2>2, FS_Subset
<1>2. \A i \in DOMAIN h : h[i].amount \in Nat
  <2>1. \A e \in Entries : e.amount \in Nat
    BY DEF Entries
  <2>2. \A i \in DOMAIN h : h[i] \in Entries
    OBVIOUS
  <2> QED
    BY <2>1, <2>2
<1>3. \A i \in S : AmountsOf(h)[i] \in Nat
  BY <1>2 DEF AmountsOf
<1> QED
  BY <1>1, <1>3, FS_CardinalityType, SumType

\* A row that is no dispatch under g, or one that is.
LEMMA SpentAppended ==
  ASSUME NEW h, NEW e, NEW k, RowAdded(h, e, k), NEW G, NEW g
  PROVE  /\ ~Spends(G, e, g) =>
              /\ Cardinality(SpentIn(k, G, g)) = Cardinality(SpentIn(h, G, g))
              /\ SumFunctionOnSet(AmountsOf(k), SpentIn(k, G, g))
                   = SumFunctionOnSet(AmountsOf(h), SpentIn(h, G, g))
         /\ Spends(G, e, g) =>
              /\ Cardinality(SpentIn(k, G, g)) = Cardinality(SpentIn(h, G, g)) + 1
              /\ SumFunctionOnSet(AmountsOf(k), SpentIn(k, G, g))
                   = SumFunctionOnSet(AmountsOf(h), SpentIn(h, G, g)) + e.amount
<1> DEFINE S == SpentIn(h, G, g)
           T == SpentIn(k, G, g)
           n == Len(h) + 1
<1>1. /\ k \in Seq(Entries) /\ DOMAIN k = DOMAIN h \cup {n} /\ n \notin DOMAIN h
      /\ k[n] = e /\ \A i \in DOMAIN h : k[i] = h[i]
      /\ h \in Seq(Entries) /\ e \in Entries
  BY RowAppended DEF RowAdded
<1>2. S \subseteq DOMAIN h /\ T \subseteq DOMAIN k
  BY DEF SpentIn
<1>3. IsFiniteSet(S) /\ n \notin S
  BY <1>1, <1>2, AmountsAreNat
<1>4. SumFunctionOnSet(AmountsOf(k), S) = SumFunctionOnSet(AmountsOf(h), S)
  <2>1. \A i \in S : AmountsOf(k)[i] = AmountsOf(h)[i]
    BY <1>1, <1>2 DEF AmountsOf
  <2> HIDE DEF S
  <2> QED
    BY <1>3, <2>1, SumAgrees
<1>5. CASE ~Spends(G, e, g)
  <2>1. T = S
    BY <1>1, <1>5 DEF SpentIn
  <2> QED
    BY <1>4, <1>5, <2>1
<1>6. CASE Spends(G, e, g)
  <2>1. T = S \cup {n}
    BY <1>1, <1>6 DEF SpentIn
  <2>2. Cardinality(S \cup {n}) = Cardinality(S) + 1
    BY <1>3, FS_AddElement
  <2>3. AmountsOf(k)[n] = e.amount
    BY <1>1 DEF AmountsOf
  <2>4. /\ \A i \in S : AmountsOf(k)[i] \in Nat
        /\ AmountsOf(k)[n] \in Nat
    BY <1>1, <1>2, AmountsAreNat
  <2>5. SumFunctionOnSet(AmountsOf(k), S \cup {n}) = SumFunctionOnSet(AmountsOf(k), S) + e.amount
    <3> HIDE DEF S, n
    <3> QED
      BY <1>3, <2>3, <2>4, SumAdds
  <2> QED
    BY <1>4, <1>6, <2>1, <2>2, <2>5
<1> QED
  BY <1>5, <1>6

\* A row that changes no table and no total.
LEMMA NeutralRow ==
  ASSUME NEW h \in Seq(Entries), NEW e \in Entries, NEW l, Agreed(h, l),
         e.kind \in {"admit", "user_action"},
         IsDispatch(e) => e.grant = NoGrant /\ ~l.enabled
  PROVE  Agreed(Append(h, e), l)
<1>1. PICK k : k = Append(h, e) /\ RowAdded(h, e, k)
  BY DEF RowAdded
<1>2. /\ k \in Seq(Entries) /\ DOMAIN k = DOMAIN h \cup {Len(h) + 1}
      /\ k[Len(h) + 1] = e /\ \A i \in DOMAIN h : k[i] = h[i]
  BY <1>1, RowAppended
<1>3. ~IsGrant(e) /\ ~IsRevoke(e) /\ e.kind # "agent_enable"
  BY DEF IsGrant, IsRevoke
<1>4. EnabledAgrees(k, l)
  BY <1>2, <1>3 DEF Agreed, EnabledAgrees
<1>5. GrantsAgree(k, l)
  BY <1>2, <1>3 DEF Agreed, GrantsAgree
<1>6. RevocationsAgree(k, l)
  <2>1. RevocationsAgree(h, l)
    BY DEF Agreed
  <2>2. ASSUME NEW i \in DOMAIN k, IsRevoke(k[i])
        PROVE  /\ k[i].grant \in l.revoked
               /\ k[i].workflow = l.grants[k[i].grant].workflow
               /\ IssuedBefore(k, k[i].grant, i)
    <3>1. i \in DOMAIN h
      BY <1>2, <1>3, <2>2
    <3> QED
      BY <1>1, <1>2, <2>1, <2>2, <3>1, RowsBefore DEF RevocationsAgree
  <2>3. \A g \in l.revoked : \E i \in DOMAIN k : IsRevoke(k[i]) /\ k[i].grant = g
    BY <1>2, <2>1 DEF RevocationsAgree
  <2> QED
    BY <2>2, <2>3 DEF RevocationsAgree
<1>7. SpendingAgrees(k, l)
  <2> SUFFICES ASSUME NEW g \in DOMAIN l.grants
               PROVE  /\ Cardinality(SpentIn(k, l.grants, g)) = Cardinality(SpentIn(h, l.grants, g))
                      /\ SumFunctionOnSet(AmountsOf(k), SpentIn(k, l.grants, g))
                           = SumFunctionOnSet(AmountsOf(h), SpentIn(h, l.grants, g))
    BY DEF Agreed, SpendingAgrees
  <2>1. ~Spends(l.grants, e, g)
    BY DEF Spends
  <2> QED
    BY <1>1, <2>1, SpentAppended
<1>8. DispatchesAgree(k, l)
  <2> SUFFICES ASSUME NEW i \in DOMAIN k, IsDispatch(k[i])
               PROVE  (k[i].grant = NoGrant /\ ~l.enabled) \/ CoveredAt(k, l.grants, i)
    BY DEF DispatchesAgree
  <2>1. CASE i = Len(h) + 1
    BY <1>2, <2>1
  <2>2. CASE i \in DOMAIN h
    <3>1. (h[i].grant = NoGrant /\ ~l.enabled) \/ CoveredAt(h, l.grants, i)
      BY <1>2, <2>2 DEF Agreed, DispatchesAgree
    <3> QED
      BY <1>1, <1>2, <2>2, <3>1, RowsBefore DEF CoveredAt
  <2> QED
    BY <1>2, <2>1, <2>2
<1> QED
  BY <1>1, <1>4, <1>5, <1>6, <1>7, <1>8 DEF Agreed

\* The tables of the ledger after a row of each kind.
LEMMA ApplyTables ==
  ASSUME NEW l, LedgerType(l), NEW e, NEW m, m = Apply(l, e)
  PROVE  /\ e.kind = "agent_enable" =>
              m = [enabled |-> TRUE, grants |-> l.grants, usage |-> l.usage,
                   revoked |-> l.revoked]
         /\ e.kind = "agent_grant" =>
              m = [enabled |-> l.enabled,
                   grants |-> [g \in DOMAIN l.grants \cup {e.grant} |->
                                 IF g = e.grant THEN e.body ELSE l.grants[g]],
                   usage |-> [g \in DOMAIN l.grants \cup {e.grant} |->
                                IF g = e.grant THEN [calls |-> 0, amount |-> 0]
                                ELSE l.usage[g]],
                   revoked |-> l.revoked]
         /\ e.kind = "agent_revoke" =>
              m = [enabled |-> l.enabled, grants |-> l.grants, usage |-> l.usage,
                   revoked |-> l.revoked \cup {e.grant}]
         /\ e.kind = "admit" /\ e.allow /\ e.grant # NoGrant =>
              m = [enabled |-> l.enabled, grants |-> l.grants,
                   usage |-> [g \in DOMAIN l.grants |->
                                IF g \in Lineage(l, e.grant)
                                THEN [calls |-> l.usage[g].calls + 1,
                                      amount |-> l.usage[g].amount + e.amount]
                                ELSE l.usage[g]],
                   revoked |-> l.revoked]
         /\ e.kind = "admit" /\ ~(e.allow /\ e.grant # NoGrant) => m = l
         /\ e.kind = "user_action" => m = l
<1>1. l = [enabled |-> l.enabled, grants |-> l.grants, usage |-> l.usage,
           revoked |-> l.revoked]
  BY DEF LedgerType
<1>2. CASE e.kind = "agent_enable"
  BY <1>1, <1>2 DEF Apply
<1>3. CASE e.kind = "agent_grant"
  BY <1>1, <1>3 DEF Apply, Issued
<1>4. CASE e.kind = "agent_revoke"
  BY <1>1, <1>4 DEF Apply
<1>5. CASE e.kind = "admit" /\ e.allow /\ e.grant # NoGrant
  BY <1>1, <1>5 DEF Apply, Charge, Issued
<1>6. CASE e.kind = "admit" /\ ~(e.allow /\ e.grant # NoGrant)
  BY <1>6 DEF Apply
<1>7. CASE e.kind = "user_action"
  BY <1>7 DEF Apply
<1>8. CASE e.kind \notin {"agent_enable", "agent_grant", "agent_revoke", "admit", "user_action"}
  BY <1>8
<1> QED
  BY <1>2, <1>3, <1>4, <1>5, <1>6, <1>7, <1>8

LEMMA EnableRow ==
  ASSUME NEW e, NEW k, RowAdded(<< >>, e, k), e.kind = "agent_enable",
         NEW l, Agreed(<< >>, l), NEW m, m = Apply(l, e)
  PROVE  Agreed(k, m)
<1>1. DOMAIN k = {1} /\ k[1] = e
  BY DEF RowAdded
<1>2. LedgerType(l) /\ DOMAIN l.grants = {} /\ l.revoked = {}
  BY DEF Agreed, GrantsAgree, LedgerType
<1>3. m = [enabled |-> TRUE, grants |-> l.grants, usage |-> l.usage, revoked |-> l.revoked]
  BY <1>2, ApplyTables
<1>4. ~IsGrant(e) /\ ~IsRevoke(e) /\ ~IsDispatch(e)
  BY DEF IsGrant, IsRevoke, IsDispatch
<1>5. LedgerType(m)
  <2>1. /\ m.enabled = TRUE /\ m.grants = l.grants /\ m.usage = l.usage
        /\ m.revoked = l.revoked
    BY <1>3
  <2> QED
    BY <1>2, <1>3, <2>1 DEF LedgerType
<1>6. EnabledAgrees(k, m) /\ GrantsAgree(k, m) /\ RevocationsAgree(k, m)
  BY <1>1, <1>2, <1>3, <1>4 DEF EnabledAgrees, GrantsAgree, RevocationsAgree
<1>7. Narrows(m.grants) /\ SpendingAgrees(k, m) /\ DispatchesAgree(k, m)
  BY <1>1, <1>2, <1>3, <1>4 DEF Narrows, SpendingAgrees, DispatchesAgree
<1> QED
  BY <1>5, <1>6, <1>7 DEF Agreed

LEMMA RevokeRow ==
  ASSUME NEW h, NEW e, NEW k, RowAdded(h, e, k), e.kind = "agent_revoke",
         NEW l, Agreed(h, l), NEW m, m = Apply(l, e),
         e.grant \in DOMAIN l.grants, e.workflow = l.grants[e.grant].workflow
  PROVE  Agreed(k, m)
<1>1. /\ DOMAIN k = DOMAIN h \cup {Len(h) + 1} /\ Len(h) + 1 \notin DOMAIN h
      /\ k[Len(h) + 1] = e /\ \A i \in DOMAIN h : k[i] = h[i]
  BY RowAppended DEF RowAdded
<1>2. LedgerType(l) /\ GrantsAgree(h, l) /\ RevocationsAgree(h, l)
  BY DEF Agreed
<1>3. m = [enabled |-> l.enabled, grants |-> l.grants, usage |-> l.usage,
           revoked |-> l.revoked \cup {e.grant}]
  BY <1>2, ApplyTables
<1>4. ~IsGrant(e) /\ IsRevoke(e) /\ ~IsDispatch(e) /\ e.kind # "agent_enable"
  BY DEF IsGrant, IsRevoke, IsDispatch
<1>5. LedgerType(m)
  BY <1>2, <1>3 DEF LedgerType
<1>6. EnabledAgrees(k, m)
  BY <1>1, <1>3, <1>4 DEF Agreed, EnabledAgrees
<1>7. GrantsAgree(k, m)
  BY <1>1, <1>2, <1>3, <1>4 DEF GrantsAgree
<1>8. RevocationsAgree(k, m)
  <2>1. ASSUME NEW i \in DOMAIN k, IsRevoke(k[i])
        PROVE  /\ k[i].grant \in m.revoked
               /\ k[i].workflow = m.grants[k[i].grant].workflow
               /\ IssuedBefore(k, k[i].grant, i)
    <3>1. CASE i \in DOMAIN h
      <4>1. /\ h[i].grant \in l.revoked
            /\ h[i].workflow = l.grants[h[i].grant].workflow
            /\ IssuedBefore(h, h[i].grant, i)
        BY <1>1, <1>2, <2>1, <3>1 DEF RevocationsAgree
      <4>2. IssuedBefore(k, h[i].grant, i)
        BY <3>1, <4>1, RowsBefore
      <4> QED
        BY <1>1, <1>3, <3>1, <4>1, <4>2
    <3>2. CASE i = Len(h) + 1
      <4>1. \E j \in DOMAIN h : IsGrant(h[j]) /\ h[j].grant = e.grant
        BY <1>2 DEF GrantsAgree
      <4>2. IssuedBefore(k, e.grant, Len(h) + 1)
        BY <4>1, RowsBefore
      <4> QED
        BY <1>1, <1>3, <3>2, <4>2
    <3> QED
      BY <1>1, <3>1, <3>2
  <2>2. \A g \in m.revoked : \E i \in DOMAIN k : IsRevoke(k[i]) /\ k[i].grant = g
    BY <1>1, <1>2, <1>3, <1>4 DEF RevocationsAgree
  <2> QED
    BY <2>1, <2>2 DEF RevocationsAgree
<1>9. SpendingAgrees(k, m)
  <2> SUFFICES ASSUME NEW g \in DOMAIN l.grants
               PROVE  /\ Cardinality(SpentIn(k, l.grants, g)) = Cardinality(SpentIn(h, l.grants, g))
                      /\ SumFunctionOnSet(AmountsOf(k), SpentIn(k, l.grants, g))
                           = SumFunctionOnSet(AmountsOf(h), SpentIn(h, l.grants, g))
    BY <1>3 DEF Agreed, SpendingAgrees
  <2>1. ~Spends(l.grants, e, g)
    BY <1>4 DEF Spends
  <2> QED
    BY <2>1, SpentAppended
<1>10. DispatchesAgree(k, m)
  <2> SUFFICES ASSUME NEW i \in DOMAIN k, IsDispatch(k[i])
               PROVE  (k[i].grant = NoGrant /\ ~m.enabled) \/ CoveredAt(k, m.grants, i)
    BY DEF DispatchesAgree
  <2>1. i \in DOMAIN h
    BY <1>1, <1>4
  <2>2. (h[i].grant = NoGrant /\ ~l.enabled) \/ CoveredAt(h, l.grants, i)
    BY <1>1, <2>1 DEF Agreed, DispatchesAgree
  <2> QED
    BY <1>1, <1>3, <2>1, <2>2, RowsBefore DEF CoveredAt
<1>11. Narrows(m.grants)
  BY <1>3 DEF Agreed
<1> QED
  BY <1>5, <1>6, <1>7, <1>8, <1>9, <1>10, <1>11 DEF Agreed

\* A dispatch under a grant: every grant above it pays, and each could.
LEMMA ChargeRow ==
  ASSUME NEW h, NEW e, NEW k, RowAdded(h, e, k), e.kind = "admit", e.allow,
         NEW l, Agreed(h, l), NEW m, m = Apply(l, e), l.enabled,
         Authorized(l, e), e.grant # NoGrant
  PROVE  Agreed(k, m)
<1>1. /\ DOMAIN k = DOMAIN h \cup {Len(h) + 1} /\ Len(h) + 1 \notin DOMAIN h
      /\ k[Len(h) + 1] = e /\ \A i \in DOMAIN h : k[i] = h[i]
  BY RowAppended DEF RowAdded
<1>2. LedgerType(l) /\ GrantsAgree(h, l) /\ RevocationsAgree(h, l) /\ Tree(l.grants)
  BY DEF Agreed, LedgerType
<1>3. PICK G : G = l.grants
  OBVIOUS
<1>4. e.grant \in DOMAIN G /\ Tree(G)
  BY <1>2, <1>3 DEF Authorized, Issued
<1>5. PICK U : U = Up(G, e.grant)
  OBVIOUS
<1>6. U \subseteq DOMAIN G /\ Lineage(l, e.grant) = U
  BY <1>2, <1>3, <1>4, <1>5, UpIsLeast, LineageIsUp
<1>7. m = [enabled |-> l.enabled, grants |-> l.grants,
           usage |-> [g \in DOMAIN l.grants |->
                        IF g \in U
                        THEN [calls |-> l.usage[g].calls + 1,
                              amount |-> l.usage[g].amount + e.amount]
                        ELSE l.usage[g]],
           revoked |-> l.revoked]
  BY <1>2, <1>6, ApplyTables
<1>8. /\ m.enabled = l.enabled /\ m.grants = G /\ m.revoked = l.revoked
      /\ \A g \in DOMAIN G :
           m.usage[g] = IF g \in U THEN [calls |-> l.usage[g].calls + 1,
                                         amount |-> l.usage[g].amount + e.amount]
                        ELSE l.usage[g]
      /\ DOMAIN m.usage = DOMAIN G
  BY <1>3, <1>7
<1>9. \A g \in U : WithinGrant(l, e, g)
  BY <1>6 DEF Authorized
<1>10. ~IsGrant(e) /\ ~IsRevoke(e) /\ IsDispatch(e) /\ e.kind # "agent_enable"
  BY DEF IsGrant, IsRevoke, IsDispatch
<1>11. e.amount \in Nat
  BY DEF RowAdded, Entries
<1>12. l.usage \in [DOMAIN G -> [calls: Nat, amount: Nat]]
  BY <1>2, <1>3 DEF LedgerType
<1>13. LedgerType(m)
  <2>1. ASSUME NEW g \in DOMAIN G PROVE m.usage[g] \in [calls: Nat, amount: Nat]
    <3>1. l.usage[g] \in [calls: Nat, amount: Nat]
      BY <1>12
    <3>2. l.usage[g].calls + 1 \in Nat /\ l.usage[g].amount + e.amount \in Nat
      BY <1>11, <3>1
    <3>3. m.usage[g] = IF g \in U THEN [calls |-> l.usage[g].calls + 1,
                                        amount |-> l.usage[g].amount + e.amount]
                       ELSE l.usage[g]
      BY <1>8
    <3> QED
      BY <3>1, <3>2, <3>3
  <2>2. m.usage \in [DOMAIN G -> [calls: Nat, amount: Nat]]
    <3>1. m.usage = [g \in DOMAIN G |-> m.usage[g]]
      BY <1>3, <1>7
    <3> QED
      BY <2>1, <3>1
  <2>3. m = [enabled |-> m.enabled, grants |-> m.grants, usage |-> m.usage,
             revoked |-> m.revoked]
    BY <1>7
  <2> QED
    BY <1>2, <1>3, <1>8, <2>2, <2>3 DEF LedgerType
<1>14. EnabledAgrees(k, m)
  BY <1>1, <1>8, <1>10 DEF Agreed, EnabledAgrees
<1>15. GrantsAgree(k, m)
  BY <1>1, <1>2, <1>3, <1>8, <1>10 DEF GrantsAgree
<1>16. RevocationsAgree(k, m)
  <2>1. ASSUME NEW i \in DOMAIN k, IsRevoke(k[i])
        PROVE  /\ k[i].grant \in m.revoked
               /\ k[i].workflow = m.grants[k[i].grant].workflow
               /\ IssuedBefore(k, k[i].grant, i)
    <3>1. i \in DOMAIN h
      BY <1>1, <1>10, <2>1
    <3>2. /\ h[i].grant \in l.revoked
          /\ h[i].workflow = l.grants[h[i].grant].workflow
          /\ IssuedBefore(h, h[i].grant, i)
      BY <1>1, <1>2, <2>1, <3>1 DEF RevocationsAgree
    <3>3. IssuedBefore(k, h[i].grant, i)
      BY <3>1, <3>2, RowsBefore
    <3> QED
      BY <1>1, <1>3, <1>8, <3>1, <3>2, <3>3
  <2>2. \A g \in m.revoked : \E i \in DOMAIN k : IsRevoke(k[i]) /\ k[i].grant = g
    BY <1>1, <1>2, <1>8 DEF RevocationsAgree
  <2> QED
    BY <2>1, <2>2 DEF RevocationsAgree
<1>17. SpendingAgrees(k, m)
  <2> SUFFICES ASSUME NEW g \in DOMAIN G
               PROVE  /\ m.usage[g] = [calls |-> Cardinality(SpentIn(k, G, g)),
                                       amount |-> SumFunctionOnSet(AmountsOf(k), SpentIn(k, G, g))]
                      /\ m.usage[g].calls <= G[g].limits.calls
                      /\ m.usage[g].amount <= G[g].limits.amount
    BY <1>8 DEF SpendingAgrees
  <2>1. /\ l.usage[g] = [calls |-> Cardinality(SpentIn(h, G, g)),
                         amount |-> SumFunctionOnSet(AmountsOf(h), SpentIn(h, G, g))]
        /\ l.usage[g].calls <= G[g].limits.calls
        /\ l.usage[g].amount <= G[g].limits.amount
    BY <1>3 DEF Agreed, SpendingAgrees
  <2>2. Spends(G, e, g) <=> g \in U
    BY <1>5, <1>10 DEF Spends
  <2>3. CASE g \notin U
    <3>1. /\ Cardinality(SpentIn(k, G, g)) = Cardinality(SpentIn(h, G, g))
          /\ SumFunctionOnSet(AmountsOf(k), SpentIn(k, G, g))
               = SumFunctionOnSet(AmountsOf(h), SpentIn(h, G, g))
      BY <2>2, <2>3, SpentAppended
    <3> QED
      BY <1>8, <2>1, <2>3, <3>1
  <2>4. CASE g \in U
    <3>1. /\ Cardinality(SpentIn(k, G, g)) = Cardinality(SpentIn(h, G, g)) + 1
          /\ SumFunctionOnSet(AmountsOf(k), SpentIn(k, G, g))
               = SumFunctionOnSet(AmountsOf(h), SpentIn(h, G, g)) + e.amount
      BY <2>2, <2>4, SpentAppended
    <3>2. m.usage[g] = [calls |-> l.usage[g].calls + 1, amount |-> l.usage[g].amount + e.amount]
      BY <1>8, <2>4
    <3>3. l.usage[g].calls < G[g].limits.calls /\ l.usage[g].amount + e.amount <= G[g].limits.amount
      BY <1>3, <1>9, <2>4 DEF WithinGrant, Fits
    <3>4. l.usage[g].calls \in Nat /\ G[g].limits.calls \in Nat
      BY <1>4, <1>12 DEF Tree, Grants, Limits
    <3>5. m.usage[g].calls <= G[g].limits.calls
      BY <3>2, <3>3, <3>4
    <3>6. m.usage[g].amount <= G[g].limits.amount
      BY <3>2, <3>3
    <3> QED
      BY <2>1, <3>1, <3>2, <3>5, <3>6
  <2> QED
    BY <2>3, <2>4
<1>18. DispatchesAgree(k, m)
  <2> SUFFICES ASSUME NEW i \in DOMAIN k, IsDispatch(k[i])
               PROVE  (k[i].grant = NoGrant /\ ~m.enabled) \/ CoveredAt(k, G, i)
    BY <1>8 DEF DispatchesAgree
  <2>1. CASE i \in DOMAIN h
    <3>1. (h[i].grant = NoGrant /\ ~l.enabled) \/ CoveredAt(h, G, i)
      BY <1>1, <1>3, <2>1 DEF Agreed, DispatchesAgree
    <3> QED
      BY <1>1, <1>8, <2>1, <3>1, RowsBefore DEF CoveredAt
  <2>2. CASE i = Len(h) + 1
    <3>1. k[i].grant \in DOMAIN G /\ k[i].actor = G[k[i].grant].actor
      BY <1>1, <1>3, <1>4, <2>2 DEF Authorized
    <3>2. ASSUME NEW g \in U
          PROVE  /\ IssuedBefore(k, g, i)
                 /\ k[i].time <= G[g].limits.expires
                 /\ k[i].target \in G[g].limits.scope
                 /\ ~RevokedBy(k, g, i)
      <4>1. g \in DOMAIN G
        BY <1>6
      <4>2. IssuedBefore(k, g, i)
        <5>1. \E j \in DOMAIN h : IsGrant(h[j]) /\ h[j].grant = g
          BY <1>2, <1>3, <4>1 DEF GrantsAgree
        <5> QED
          BY <2>2, <5>1, RowsBefore
      <4>3. g \notin l.revoked /\ e.time <= G[g].limits.expires /\ e.target \in G[g].limits.scope
        BY <1>3, <1>9 DEF WithinGrant
      <4>4. ~RevokedBy(k, g, i)
        BY <1>1, <1>2, <1>10, <4>3 DEF RevokedBy, RevocationsAgree
      <4> QED
        BY <1>1, <2>2, <4>2, <4>3, <4>4
    <3> QED
      BY <1>1, <1>5, <2>2, <3>1, <3>2 DEF CoveredAt
  <2> QED
    BY <1>1, <2>1, <2>2
<1>19. Narrows(m.grants)
  BY <1>3, <1>8 DEF Agreed
<1> QED
  BY <1>13, <1>14, <1>15, <1>16, <1>17, <1>18, <1>19 DEF Agreed

\* A table with one grant more, a root or a child of an active grant that it
\* attenuates, narrows as the table did.
LEMMA NarrowsMore ==
  ASSUME NEW G, Tree(G), Narrows(G), NEW H, Tree(H), NEW x, x \notin DOMAIN G,
         DOMAIN H = DOMAIN G \cup {x}, \A g \in DOMAIN G : H[g] = G[g],
         H[x].parent # NoGrant => /\ H[x].parent \in DOMAIN G
                                  /\ Attenuates(H[x], G[H[x].parent])
  PROVE  Narrows(H)
<1> SUFFICES ASSUME NEW g \in DOMAIN H, NEW a \in Up(H, g)
             PROVE  /\ NoWider(H[g], H[a])
                    /\ H[a].parent = NoGrant =>
                         Cardinality(Up(H, g)) + H[g].limits.depth <= H[a].limits.depth + 1
  BY DEF Narrows
<1>1. \A y \in DOMAIN H : H[y].limits \in Limits
  BY DEF Tree, Grants
<1>2. \A y \in DOMAIN H : /\ H[y].limits.calls \in Nat /\ H[y].limits.amount \in Nat
                          /\ H[y].limits.expires \in Nat /\ H[y].limits.depth \in Nat
  BY <1>1 DEF Limits
<1>3. CASE g \in DOMAIN G
  <2>1. Up(H, g) = Up(G, g)
    BY <1>3, UpIsStable
  <2>2. a \in DOMAIN G
    BY <1>3, <2>1, UpIsLeast
  <2> QED
    BY <1>3, <2>1, <2>2 DEF Narrows
<1>4. CASE g = x /\ H[x].parent = NoGrant
  <2>1. Up(H, g) = {g}
    BY <1>4, UpOfRoot
  <2>2. a = g /\ Cardinality({g}) = 1
    BY <2>1, FS_Singleton
  <2> QED
    BY <1>2, <2>1, <2>2 DEF NoWider
<1>5. CASE g = x /\ H[x].parent # NoGrant
  <2>1. PICK p : p = H[x].parent
    OBVIOUS
  <2>2. p \in DOMAIN H /\ Up(H, g) = {g} \cup Up(H, p)
    BY <1>5, <2>1, UpOfChild
  <2>4. p \in DOMAIN G /\ H[p] = G[p] /\ Attenuates(H[x], G[p])
    BY <1>5, <2>1
  <2>3. Up(H, p) = Up(G, p)
    BY <2>4, UpIsStable
  <2>6. Up(G, p) \subseteq DOMAIN G /\ IsFiniteSet(Up(G, p))
    BY <2>4, UpIsLeast
  <2>7. Cardinality(Up(H, g)) = Cardinality(Up(G, p)) + 1
    <3>1. x \notin Up(G, p)
      BY <2>6
    <3>2. Cardinality(Up(G, p) \cup {x}) = Cardinality(Up(G, p)) + 1
      BY <2>6, <3>1, FS_AddElement
    <3>3. Up(H, g) = Up(G, p) \cup {x}
      BY <1>5, <2>2, <2>3
    <3> QED
      BY <3>2, <3>3
  <2>8. Cardinality(Up(G, p)) \in Nat
    BY <2>6, FS_CardinalityType
  <2>9. CASE a = g
    BY <1>2, <1>5, <2>9 DEF NoWider
  <2>10. CASE a # g
    <3>1. a \in Up(G, p) /\ a \in DOMAIN G /\ H[a] = G[a] /\ a \in DOMAIN H
      BY <2>2, <2>3, <2>6, <2>10
    <3>2. /\ NoWider(G[p], G[a])
          /\ G[a].parent = NoGrant =>
               Cardinality(Up(G, p)) + G[p].limits.depth <= G[a].limits.depth + 1
      BY <2>4, <3>1 DEF Narrows
    <3>3. NoWider(H[x], H[a])
      <4>1. /\ H[x].limits.scope \subseteq H[p].limits.scope
            /\ H[p].limits.scope \subseteq H[a].limits.scope
        BY <2>4, <3>1, <3>2 DEF NoWider, Attenuates
      <4>2. /\ H[x].limits.calls <= H[p].limits.calls
            /\ H[x].limits.amount <= H[p].limits.amount
            /\ H[x].limits.expires <= H[p].limits.expires
        BY <2>4 DEF Attenuates
      <4>3. /\ H[p].limits.calls <= H[a].limits.calls
            /\ H[p].limits.amount <= H[a].limits.amount
            /\ H[p].limits.expires <= H[a].limits.expires
        BY <2>4, <3>1, <3>2 DEF NoWider
      <4>4. x \in DOMAIN H
        OBVIOUS
      <4>5. /\ H[x].limits.calls <= H[a].limits.calls
            /\ H[x].limits.amount <= H[a].limits.amount
            /\ H[x].limits.expires <= H[a].limits.expires
        BY <1>2, <2>2, <3>1, <4>2, <4>3, <4>4
      <4> QED
        BY <4>1, <4>5 DEF NoWider
    <3>4. ASSUME H[a].parent = NoGrant
          PROVE  Cardinality(Up(H, g)) + H[g].limits.depth <= H[a].limits.depth + 1
      <4>1. Cardinality(Up(G, p)) + H[p].limits.depth <= H[a].limits.depth + 1
        BY <2>4, <3>1, <3>2, <3>4
      <4>2. H[x].limits.depth < H[p].limits.depth
        BY <2>4 DEF Attenuates
      <4>3. x \in DOMAIN H /\ g = x
        BY <1>5
      <4>4. H[x].limits.depth \in Nat /\ H[p].limits.depth \in Nat /\ H[a].limits.depth \in Nat
        BY <1>2, <2>2, <3>1, <4>3
      <4> QED
        BY <2>7, <2>8, <4>1, <4>2, <4>3, <4>4
    <3> QED
      BY <1>5, <3>3, <3>4
  <2> QED
    BY <2>9, <2>10
<1> QED
  BY <1>3, <1>4, <1>5

LEMMA GrantRow ==
  ASSUME NEW h, NEW e, NEW k, RowAdded(h, e, k), e.kind = "agent_grant",
         NEW l, Agreed(h, l), NEW m, m = Apply(l, e), MayIssue(l, e),
         e.grant \in GrantIds, e.body \in Grants,
         e.actor = e.body.actor, e.workflow = e.body.workflow
  PROVE  Agreed(k, m)
<1>1. /\ DOMAIN k = DOMAIN h \cup {Len(h) + 1} /\ Len(h) + 1 \notin DOMAIN h
      /\ k[Len(h) + 1] = e /\ \A i \in DOMAIN h : k[i] = h[i]
  BY RowAppended DEF RowAdded
<1>2. LedgerType(l) /\ GrantsAgree(h, l) /\ RevocationsAgree(h, l) /\ Narrows(l.grants)
  BY DEF Agreed
<1>3. PICK G, x : G = l.grants /\ x = e.grant
  OBVIOUS
<1>4. Tree(G) /\ DOMAIN G \subseteq GrantIds /\ \A g \in DOMAIN G : G[g] \in Grants
  BY <1>2, <1>3 DEF LedgerType, Tree
<1>5. x \notin DOMAIN G /\ x \in GrantIds
  BY <1>3 DEF MayIssue, Issued
<1>6. m = [enabled |-> l.enabled,
           grants |-> [g \in DOMAIN l.grants \cup {e.grant} |->
                         IF g = e.grant THEN e.body ELSE l.grants[g]],
           usage |-> [g \in DOMAIN l.grants \cup {e.grant} |->
                        IF g = e.grant THEN [calls |-> 0, amount |-> 0] ELSE l.usage[g]],
           revoked |-> l.revoked]
  BY <1>2, ApplyTables
<1>7. PICK H : H = m.grants
  OBVIOUS
<1>8. /\ H = [g \in DOMAIN G \cup {x} |-> IF g = x THEN e.body ELSE G[g]]
      /\ m.enabled = l.enabled /\ m.revoked = l.revoked
      /\ m.usage = [g \in DOMAIN G \cup {x} |->
                      IF g = x THEN [calls |-> 0, amount |-> 0] ELSE l.usage[g]]
  BY <1>3, <1>6, <1>7
<1>9. DOMAIN H = DOMAIN G \cup {x} /\ H[x] = e.body /\ \A g \in DOMAIN G : H[g] = G[g]
  BY <1>5, <1>8
<1>10. e.body.parent # NoGrant => e.body.parent \in DOMAIN G
                                  /\ Attenuates(e.body, G[e.body.parent])
  BY <1>3 DEF MayIssue, Active, Issued
<1>11. Tree(H)
  <2>1. H \in [DOMAIN H -> Grants] /\ DOMAIN H \subseteq GrantIds
    BY <1>4, <1>5, <1>8, <1>9
  <2>2. Closed(H, DOMAIN H)
    BY <1>4, <1>9, <1>10 DEF Closed, Tree
  <2> QED
    BY <2>1, <2>2 DEF Tree
<1>12. IsGrant(e) /\ ~IsRevoke(e) /\ ~IsDispatch(e) /\ e.kind # "agent_enable"
  BY DEF IsGrant, IsRevoke, IsDispatch
<1>13. l.usage \in [DOMAIN G -> [calls: Nat, amount: Nat]] /\ l.revoked \subseteq DOMAIN G
  BY <1>2, <1>3 DEF LedgerType
<1>14. LedgerType(m)
  <2>1. m.usage \in [DOMAIN H -> [calls: Nat, amount: Nat]]
    BY <1>8, <1>9, <1>13
  <2>2. m = [enabled |-> m.enabled, grants |-> m.grants, usage |-> m.usage,
             revoked |-> m.revoked]
    BY <1>6
  <2> QED
    BY <1>2, <1>7, <1>8, <1>9, <1>11, <1>13, <2>1, <2>2 DEF LedgerType
<1>15. EnabledAgrees(k, m)
  BY <1>1, <1>8, <1>12 DEF Agreed, EnabledAgrees
<1>16. GrantsAgree(k, m)
  <2>1. \A i \in DOMAIN h : IsGrant(h[i]) => h[i].grant \in DOMAIN G
    BY <1>2, <1>3 DEF GrantsAgree
  <2>2. ASSUME NEW i \in DOMAIN k, IsGrant(k[i])
        PROVE  /\ k[i].grant \in DOMAIN H
               /\ H[k[i].grant] = k[i].body
               /\ k[i].actor = k[i].body.actor /\ k[i].workflow = k[i].body.workflow
    <3>1. CASE i \in DOMAIN h
      BY <1>1, <1>2, <1>3, <1>9, <2>2, <3>1 DEF GrantsAgree
    <3>2. CASE i = Len(h) + 1
      BY <1>1, <1>3, <1>9, <3>2
    <3> QED
      BY <1>1, <3>1, <3>2
  <2>3. ASSUME NEW g \in DOMAIN H
        PROVE  \E i \in DOMAIN k : IsGrant(k[i]) /\ k[i].grant = g
    <3>1. CASE g \in DOMAIN G
      BY <1>1, <1>2, <1>3, <3>1 DEF GrantsAgree
    <3>2. CASE g = x
      BY <1>1, <1>3, <1>12, <3>2
    <3> QED
      BY <1>9, <3>1, <3>2
  <2>4. ASSUME NEW i \in DOMAIN k, NEW j \in DOMAIN k, IsGrant(k[i]), IsGrant(k[j]),
               k[i].grant = k[j].grant
        PROVE  i = j
    <3>1. CASE i \in DOMAIN h /\ j \in DOMAIN h
      BY <1>1, <1>2, <2>4, <3>1 DEF GrantsAgree
    <3>2. CASE i = Len(h) + 1 \/ j = Len(h) + 1
      BY <1>1, <1>3, <1>5, <2>1, <2>4, <3>2
    <3> QED
      BY <1>1, <3>1, <3>2
  <2> QED
    BY <1>7, <2>2, <2>3, <2>4 DEF GrantsAgree
<1>17. RevocationsAgree(k, m)
  <2>1. ASSUME NEW i \in DOMAIN k, IsRevoke(k[i])
        PROVE  /\ k[i].grant \in m.revoked
               /\ k[i].workflow = H[k[i].grant].workflow
               /\ IssuedBefore(k, k[i].grant, i)
    <3>1. i \in DOMAIN h
      BY <1>1, <1>12, <2>1
    <3>2. /\ h[i].grant \in l.revoked
          /\ h[i].workflow = G[h[i].grant].workflow
          /\ IssuedBefore(h, h[i].grant, i)
      BY <1>1, <1>2, <1>3, <2>1, <3>1 DEF RevocationsAgree
    <3>3. IssuedBefore(k, h[i].grant, i)
      BY <3>1, <3>2, RowsBefore
    <3> QED
      BY <1>1, <1>8, <1>9, <1>13, <3>1, <3>2, <3>3
  <2>2. \A g \in m.revoked : \E i \in DOMAIN k : IsRevoke(k[i]) /\ k[i].grant = g
    BY <1>1, <1>2, <1>8 DEF RevocationsAgree
  <2> QED
    BY <1>7, <2>1, <2>2 DEF RevocationsAgree
<1>18. Narrows(H)
  BY <1>2, <1>3, <1>4, <1>5, <1>9, <1>10, <1>11, NarrowsMore
<1>19. \A i \in DOMAIN h : IsDispatch(h[i]) /\ h[i].grant # NoGrant => h[i].grant \in DOMAIN G
  BY <1>3 DEF Agreed, DispatchesAgree, CoveredAt
<1>20. SpendingAgrees(k, m)
  <2> SUFFICES ASSUME NEW g \in DOMAIN H
               PROVE  /\ m.usage[g] = [calls |-> Cardinality(SpentIn(k, H, g)),
                                       amount |-> SumFunctionOnSet(AmountsOf(k), SpentIn(k, H, g))]
                      /\ m.usage[g].calls <= H[g].limits.calls
                      /\ m.usage[g].amount <= H[g].limits.amount
    BY <1>7 DEF SpendingAgrees
  <2>1. /\ Cardinality(SpentIn(k, H, g)) = Cardinality(SpentIn(h, H, g))
        /\ SumFunctionOnSet(AmountsOf(k), SpentIn(k, H, g))
             = SumFunctionOnSet(AmountsOf(h), SpentIn(h, H, g))
    <3>1. ~Spends(H, e, g)
      BY <1>12 DEF Spends
    <3> QED
      BY <3>1, SpentAppended
  <2>2. \A i \in DOMAIN h : IsDispatch(h[i]) /\ h[i].grant # NoGrant =>
          Up(H, h[i].grant) = Up(G, h[i].grant) /\ Up(G, h[i].grant) \subseteq DOMAIN G
    <3>1. \A y \in DOMAIN G : Up(H, y) = Up(G, y) /\ Up(G, y) \subseteq DOMAIN G
      BY <1>4, <1>9, <1>11, UpIsStable, UpIsLeast
    <3> QED
      BY <1>19, <3>1
  <2>3. CASE g \in DOMAIN G
    <3>1. SpentIn(h, H, g) = SpentIn(h, G, g)
      BY <2>2 DEF SpentIn, Spends
    <3>2. /\ l.usage[g] = [calls |-> Cardinality(SpentIn(h, G, g)),
                           amount |-> SumFunctionOnSet(AmountsOf(h), SpentIn(h, G, g))]
          /\ l.usage[g].calls <= G[g].limits.calls
          /\ l.usage[g].amount <= G[g].limits.amount
      BY <1>3, <2>3 DEF Agreed, SpendingAgrees
    <3>3. m.usage[g] = l.usage[g] /\ H[g] = G[g]
      BY <1>5, <1>8, <1>9, <2>3
    <3> QED
      BY <2>1, <3>1, <3>2, <3>3
  <2>4. CASE g = x
    <3>1. SpentIn(h, H, g) = {}
      BY <1>5, <2>2, <2>4 DEF SpentIn, Spends
    <3>2. Cardinality({}) = 0 /\ SumFunctionOnSet(AmountsOf(h), {}) = 0
      BY FS_EmptySet, SumOfNone
    <3>3. m.usage[g] = [calls |-> 0, amount |-> 0]
      BY <1>8, <2>4
    <3>4. H[g].limits.calls \in Nat /\ H[g].limits.amount \in Nat
      BY <1>9, <2>4 DEF Grants, Limits
    <3> QED
      BY <2>1, <3>1, <3>2, <3>3, <3>4
  <2> QED
    BY <1>9, <2>3, <2>4
<1>21. DispatchesAgree(k, m)
  <2> SUFFICES ASSUME NEW i \in DOMAIN k, IsDispatch(k[i])
               PROVE  (k[i].grant = NoGrant /\ ~m.enabled) \/ CoveredAt(k, H, i)
    BY <1>7 DEF DispatchesAgree
  <2>1. i \in DOMAIN h
    BY <1>1, <1>12
  <2>2. (h[i].grant = NoGrant /\ ~l.enabled) \/ CoveredAt(h, G, i)
    BY <1>1, <1>3, <2>1 DEF Agreed, DispatchesAgree
  <2>3. ASSUME CoveredAt(h, G, i) PROVE CoveredAt(k, H, i)
    <3>1. h[i].grant \in DOMAIN G
      BY <2>3 DEF CoveredAt
    <3>2. Up(H, h[i].grant) = Up(G, h[i].grant) /\ Up(G, h[i].grant) \subseteq DOMAIN G
      BY <1>4, <1>9, <1>11, <3>1, UpIsStable, UpIsLeast
    <3> QED
      BY <1>1, <1>9, <2>1, <2>3, <3>1, <3>2, RowsBefore DEF CoveredAt
  <2> QED
    BY <1>1, <1>8, <2>1, <2>2, <2>3
<1> QED
  BY <1>7, <1>14, <1>15, <1>16, <1>17, <1>18, <1>20, <1>21 DEF Agreed

-------------------------------------------------------------------------------
\* Every command that is accepted keeps the journal and the ledger agreed

Sendable(c) ==
  /\ c \in Entries
  /\ IsGrant(c) => /\ c.grant \in GrantIds
                   /\ c.body \in Grants
                   /\ c.actor = c.body.actor /\ c.workflow = c.body.workflow

LEMMA AcceptedIsAgreed ==
  ASSUME NEW h \in Seq(Entries), NEW l, Agreed(h, l), NEW c, Sendable(c), Accepts(h, l, c),
         NEW a, a = Answer(h, l, c)
  PROVE  a \in Entries /\ Agreed(Append(h, a), Apply(l, a))
<1>1. /\ c \in Entries
      /\ c.kind \in {"agent_enable", "agent_grant", "agent_revoke", "admit", "user_action"}
  BY DEF Sendable, Entries
<1>2. LedgerType(l)
  BY DEF Agreed
<1>3. CASE c.kind = "agent_enable"
  <2>1. a = c /\ h = << >>
    BY <1>3 DEF Answer, Accepts, MayEnable
  <2>2. RowAdded(<< >>, c, Append(h, a))
    BY <1>1, <2>1 DEF RowAdded
  <2> QED
    BY <1>1, <1>3, <2>1, <2>2, EnableRow
<1>4. CASE c.kind = "agent_grant"
  <2>1. a = c /\ MayIssue(l, c)
    BY <1>4 DEF Answer, Accepts
  <2>2. RowAdded(h, c, Append(h, a))
    BY <1>1, <2>1 DEF RowAdded
  <2>3. /\ c.grant \in GrantIds /\ c.body \in Grants
        /\ c.actor = c.body.actor /\ c.workflow = c.body.workflow
    BY <1>4 DEF Sendable, IsGrant
  <2> QED
    BY <1>1, <1>4, <2>1, <2>2, <2>3, GrantRow
<1>5. CASE c.kind = "agent_revoke"
  <2>1. /\ c.grant \in DOMAIN l.grants
        /\ a = [c EXCEPT !.actor = l.grants[c.grant].actor,
                         !.workflow = l.grants[c.grant].workflow]
    BY <1>5 DEF Answer, Accepts, Issued
  <2>2. l.grants[c.grant].actor \in Actors /\ l.grants[c.grant].workflow \in Workflows
    BY <1>2, <2>1 DEF LedgerType, Tree, Grants
  <2>3. /\ a \in Entries /\ a.kind = "agent_revoke" /\ a.grant = c.grant
        /\ a.workflow = l.grants[c.grant].workflow
    BY <1>1, <1>5, <2>1, <2>2 DEF Entries
  <2>4. RowAdded(h, a, Append(h, a))
    BY <2>3 DEF RowAdded
  <2> QED
    BY <2>1, <2>3, <2>4, RevokeRow
<1>6. CASE c.kind = "admit"
  <2>1. a = [c EXCEPT !.allow = Decide(h, l, c)]
    BY <1>6 DEF Answer
  <2>2. Decide(h, l, c) \in BOOLEAN
    BY DEF Decide
  <2>3. /\ a \in Entries /\ a.kind = "admit" /\ a.grant = c.grant /\ a.amount = c.amount
        /\ a.actor = c.actor /\ a.workflow = c.workflow /\ a.target = c.target
        /\ a.time = c.time /\ a.allow = Decide(h, l, c)
    BY <1>1, <1>6, <2>1, <2>2 DEF Entries
  <2>4. RowAdded(h, a, Append(h, a))
    BY <2>3 DEF RowAdded
  <2>5. CASE a.allow /\ a.grant # NoGrant
    <3>1. l.enabled /\ Authorized(l, c)
      BY <2>3, <2>5 DEF Decide
    <3>2. Authorized(l, a)
      BY <2>3, <3>1 DEF Authorized, WithinGrant
    <3> QED
      BY <2>3, <2>4, <2>5, <3>1, <3>2, ChargeRow
  <2>6. CASE ~(a.allow /\ a.grant # NoGrant)
    <3>1. Apply(l, a) = l
      BY <1>2, <2>3, <2>6, ApplyTables
    <3>2. IsDispatch(a) => a.grant = NoGrant /\ ~l.enabled
      <4>1. NoGrant \notin DOMAIN l.grants
        BY <1>2, DelegationAssumption DEF LedgerType, Tree
      <4> QED
        BY <2>3, <2>6, <4>1 DEF IsDispatch, Decide, Authorized, Issued
    <3> QED
      BY <2>3, <3>1, <3>2, NeutralRow
  <2> QED
    BY <2>5, <2>6
<1>7. CASE c.kind = "user_action"
  <2>1. a = c
    BY <1>7 DEF Answer
  <2>2. Apply(l, a) = l
    BY <1>2, <1>7, <2>1, ApplyTables
  <2>3. ~IsDispatch(a)
    BY <1>7, <2>1 DEF IsDispatch
  <2> QED
    BY <1>1, <1>7, <2>1, <2>2, <2>3, NeutralRow
<1> QED
  BY <1>1, <1>3, <1>4, <1>5, <1>6, <1>7

-------------------------------------------------------------------------------
\* The inductive invariant

DInv ==
  /\ journal \in Seq(Entries)
  /\ Agreed(journal, Replay(journal))
  /\ up => ledger = Replay(journal)
  /\ handles \subseteq [actor: Actors, workflow: Workflows, delegation: GrantIds]
  /\ commands \in Nat /\ faults \in Nat

LEMMA InitAgrees == Init => DInv
<1> SUFFICES ASSUME Init PROVE DInv
  OBVIOUS
<1>1. journal = << >> /\ up = FALSE /\ handles = {} /\ commands = 0 /\ faults = 0
  BY DEF Init
<1>2. Replay(journal) = NoLedger
  BY <1>1, ReplayOfNothing
<1>3. PICK l : l = NoLedger
  OBVIOUS
<1>4. /\ l.enabled = FALSE /\ DOMAIN l.grants = {} /\ DOMAIN l.usage = {} /\ l.revoked = {}
      /\ l = [enabled |-> l.enabled, grants |-> l.grants, usage |-> l.usage,
              revoked |-> l.revoked]
      /\ l.grants = [g \in {} |-> NoBody] /\ l.usage = [g \in {} |-> NoBody]
  BY <1>3 DEF NoLedger
<1>5. LedgerType(l)
  BY <1>4 DEF LedgerType, Tree, Closed
<1>6. EnabledAgrees(<< >>, l) /\ GrantsAgree(<< >>, l) /\ RevocationsAgree(<< >>, l)
  BY <1>4 DEF EnabledAgrees, GrantsAgree, RevocationsAgree
<1>7. Narrows(l.grants) /\ SpendingAgrees(<< >>, l) /\ DispatchesAgree(<< >>, l)
  BY <1>4 DEF Narrows, SpendingAgrees, DispatchesAgree
<1>8. Agreed(<< >>, l)
  BY <1>5, <1>6, <1>7 DEF Agreed
<1> QED
  BY <1>1, <1>2, <1>3, <1>8 DEF DInv

\* A command the engine takes, and the row it leaves.
LEMMA CommandAgrees ==
  ASSUME DInv, NEW l, l = Replay(journal), NEW c, Sendable(c), Accepts(journal, l, c),
         NEW a, a = Answer(journal, l, c), journal' = Append(journal, a)
  PROVE  /\ journal' \in Seq(Entries)
         /\ Agreed(journal', Replay(journal'))
         /\ Apply(l, a) = Replay(journal')
<1>1. journal \in Seq(Entries) /\ Agreed(journal, l)
  BY DEF DInv
<1>2. a \in Entries /\ Agreed(Append(journal, a), Apply(l, a))
  BY <1>1, AcceptedIsAgreed
<1>3. Replay(Append(journal, a)) = Apply(l, a)
  BY <1>1, <1>2, ReplayOfAppend
<1> QED
  BY <1>1, <1>2, <1>3

\* Committed, refused and rolled back, or cut off.
LEMMA RecordKeeps ==
  ASSUME DInv, NEW c, Sendable(c), Commit(c) \/ NoReply(c)
  PROVE  /\ journal' \in Seq(Entries)
         /\ Agreed(journal', Replay(journal'))
         /\ up' => ledger' = Replay(journal')
         /\ faults' \in Nat
<1>1. /\ journal \in Seq(Entries) /\ Agreed(journal, Replay(journal)) /\ faults \in Nat
      /\ up => ledger = Replay(journal)
  BY DEF DInv
<1>2. CASE Commit(c)
  <2>1. PICK a : a = Answer(journal, ledger, c)
    OBVIOUS
  <2>2. /\ up /\ Accepts(journal, ledger, c)
        /\ journal' = Append(journal, a) /\ ledger' = Apply(ledger, a)
        /\ faults' = faults
    BY <1>2, <2>1 DEF Commit
  <2>3. ledger = Replay(journal)
    BY <1>1, <2>2
  <2> QED
    BY <1>1, <2>1, <2>2, <2>3, CommandAgrees
<1>3. CASE RollBack(c)
  BY <1>1, <1>3 DEF RollBack, Recover, FaultHappens
<1>4. CASE Interrupted
  BY <1>1, <1>4 DEF Interrupted, FaultHappens
<1> QED
  BY <1>2, <1>3, <1>4 DEF NoReply

\* The commands that the host sends.
LEMMA PlainIsSendable ==
  ASSUME NEW now \in Times, NEW g \in GrantIds \cup {NoGrant},
         NEW kind \in {"agent_enable", "agent_revoke", "admit", "user_action"},
         NEW actor \in Actors \cup {NoActor}, NEW workflow \in Workflows \cup {NoWorkflow},
         NEW target \in Targets \cup {NoTarget}, NEW amount \in Amounts \cup {0}, NEW c,
         c = [kind |-> kind, grant |-> g, body |-> NoBody, issuer |-> NoActor,
              actor |-> actor, workflow |-> workflow, target |-> target,
              amount |-> amount, time |-> now, allow |-> FALSE]
  PROVE  Sendable(c)
<1>1. now \in Nat /\ amount \in Nat
  BY DelegationAssumption
<1>2. c \in Entries
  BY <1>1 DEF Entries
<1>3. c.kind # "agent_grant"
  OBVIOUS
<1> QED
  BY <1>2, <1>3 DEF Sendable, IsGrant

LEMMA GrantIsSendable ==
  ASSUME Unused # {}, NEW now \in Times, NEW issuer \in Actors \cup {NoActor},
         NEW parent \in GrantIds \cup {NoGrant}, NEW actor \in Actors,
         NEW workflow \in Workflows, NEW limits \in Offers, NEW body,
         body = [parent |-> parent, actor |-> actor, workflow |-> workflow, limits |-> limits],
         NEW c,
         c = [kind |-> "agent_grant", grant |-> FreshId, body |-> body, issuer |-> issuer,
              actor |-> actor, workflow |-> workflow, target |-> NoTarget, amount |-> 0,
              time |-> now, allow |-> FALSE]
  PROVE  /\ Sendable(c)
         /\ Agent(c.grant, c.body) \in [actor: Actors, workflow: Workflows, delegation: GrantIds]
<1>1. FreshId \in GrantIds
  BY DEF FreshId, Unused
<1>2. body \in Grants /\ now \in Nat
  BY DelegationAssumption DEF Grants
<1>3. c \in Entries
  BY <1>1, <1>2 DEF Entries
<1> QED
  BY <1>1, <1>2, <1>3 DEF Sendable, IsGrant, Agent

\* A step of _grant, whoever asked for the grant.
LEMMA GrantKeeps ==
  ASSUME DInv, NEW c, Sendable(c), Grant(c),
         Agent(c.grant, c.body) \in [actor: Actors, workflow: Workflows, delegation: GrantIds]
  PROVE  DInv'
<1>1. /\ commands' \in Nat
      /\ handles' \subseteq [actor: Actors, workflow: Workflows, delegation: GrantIds]
      /\ Commit(c) \/ NoReply(c)
  BY DEF Grant, Attempt, DInv
<1> QED
  BY <1>1, RecordKeeps DEF DInv

\* A step that records at most one command and gives out no handle.
LEMMA CallKeeps ==
  ASSUME DInv, NEW c, Sendable(c), Commit(c) \/ NoReply(c), Attempt, UNCHANGED handles
  PROVE  DInv'
<1>1. commands' \in Nat
  BY DEF Attempt, DInv
<1> QED
  BY <1>1, RecordKeeps DEF DInv

LEMMA StepAgrees == DInv /\ [Next]_vars => DInv'
<1> SUFFICES ASSUME DInv, [Next]_vars PROVE DInv'
  OBVIOUS
<1> DEFINE Handles == [actor: Actors, workflow: Workflows, delegation: GrantIds]
<1>0. handles \subseteq Handles
  BY DEF DInv
<1>1. CASE OpenPlain
  BY <1>1 DEF OpenPlain, DInv
<1>2. CASE Close \/ Crash
  <2>1. /\ UNCHANGED journal /\ up' = FALSE /\ handles' = {} /\ UNCHANGED commands
        /\ faults' \in Nat
    BY <1>2 DEF Close, Crash, Stop, FaultHappens, DInv
  <2> QED
    BY <2>1 DEF DInv
<1>3. CASE StatusFails
  BY <1>3 DEF StatusFails, FaultHappens, DInv
<1>4. ASSUME NEW g \in GrantIds, Bind(g) PROVE DInv'
  <2>1. ledger = Replay(journal) /\ LedgerType(ledger)
    BY <1>4 DEF Bind, DInv, Agreed
  <2>2. ledger.grants[g] \in Grants
    BY <1>4, <2>1 DEF Bind, Issued, LedgerType, Tree
  <2>3. Agent(g, ledger.grants[g]) \in Handles
    BY <2>2 DEF Agent, Grants
  <2> QED
    BY <1>4, <2>3 DEF Bind, DInv
<1>5. ASSUME NEW now \in Times, OpenAgents(now) PROVE DInv'
  <2>1. PICK l, c : l = Replay(journal) /\ c = Command("agent_enable", NoGrant, now)
    OBVIOUS
  <2>2. commands' \in Nat /\ UNCHANGED <<handles, faults>>
    BY <1>5 DEF OpenAgents, Attempt, DInv
  <2>3. CASE l.enabled \/ ~Accepts(journal, l, c)
    <3>1. UNCHANGED journal /\ (up' => ledger' = Replay(journal))
      BY <1>5, <2>1, <2>3 DEF OpenAgents, DInv
    <3> QED
      BY <2>2, <3>1 DEF DInv
  <2>4. CASE ~l.enabled /\ Accepts(journal, l, c)
    <3>1. journal' = Append(journal, c) /\ ledger' = Apply(l, c)
      BY <1>5, <2>1, <2>4 DEF OpenAgents
    <3>2. Sendable(c)
      <4>1. c = [kind |-> "agent_enable", grant |-> NoGrant, body |-> NoBody,
                 issuer |-> NoActor, actor |-> NoActor, workflow |-> NoWorkflow,
                 target |-> NoTarget, amount |-> 0, time |-> now, allow |-> FALSE]
        BY <2>1 DEF Command
      <4> QED
        BY <4>1, PlainIsSendable
    <3>3. c = Answer(journal, l, c)
      BY <2>1 DEF Answer, Command
    <3>4. /\ journal' \in Seq(Entries) /\ Agreed(journal', Replay(journal'))
          /\ ledger' = Replay(journal')
      BY <2>1, <2>4, <3>1, <3>2, <3>3, CommandAgrees
    <3> QED
      BY <2>2, <3>4 DEF DInv
  <2> QED
    BY <2>3, <2>4
<1>6. ASSUME NEW now \in Times, PlainObserve(now) PROVE DInv'
  <2>1. PICK c : /\ c = Command("user_action", NoGrant, now)
                 /\ Commit(c) \/ NoReply(c)
    BY <1>6 DEF PlainObserve
  <2>2. Sendable(c)
    <3>1. c = [kind |-> "user_action", grant |-> NoGrant, body |-> NoBody,
               issuer |-> NoActor, actor |-> NoActor, workflow |-> NoWorkflow,
               target |-> NoTarget, amount |-> 0, time |-> now, allow |-> FALSE]
      BY <2>1 DEF Command
    <3> QED
      BY <3>1, PlainIsSendable
  <2> QED
    BY <1>6, <2>1, <2>2, CallKeeps DEF PlainObserve
<1>7. ASSUME NEW t \in Targets, NEW amount \in Amounts, NEW now \in Times,
             PlainExecute(t, amount, now)
      PROVE  DInv'
  <2>1. PICK c : /\ c = [Command("admit", NoGrant, now) EXCEPT !.target = t, !.amount = amount]
                 /\ Commit(c) \/ NoReply(c)
    BY <1>7 DEF PlainExecute
  <2>2. Sendable(c)
    <3>1. c = [kind |-> "admit", grant |-> NoGrant, body |-> NoBody,
               issuer |-> NoActor, actor |-> NoActor, workflow |-> NoWorkflow,
               target |-> t, amount |-> amount, time |-> now, allow |-> FALSE]
      BY <2>1 DEF Command
    <3> QED
      BY <3>1, PlainIsSendable
  <2> QED
    BY <1>7, <2>1, <2>2, CallKeeps DEF PlainExecute
<1>8. ASSUME NEW a \in handles, NEW t \in Targets, NEW amount \in Amounts, NEW now \in Times,
             Admit(a, t, amount, now)
      PROVE  DInv'
  <2>1. PICK c : /\ c = [Command("admit", a.delegation, now) EXCEPT
                           !.actor = a.actor, !.workflow = a.workflow,
                           !.target = t, !.amount = amount]
                 /\ Commit(c) \/ NoReply(c)
    BY <1>8 DEF Admit
  <2>2. a.actor \in Actors /\ a.workflow \in Workflows /\ a.delegation \in GrantIds
    BY <1>0
  <2>3. Sendable(c)
    <3>1. c = [kind |-> "admit", grant |-> a.delegation, body |-> NoBody,
               issuer |-> NoActor, actor |-> a.actor, workflow |-> a.workflow,
               target |-> t, amount |-> amount, time |-> now, allow |-> FALSE]
      BY <2>1 DEF Command
    <3> QED
      BY <2>2, <3>1, PlainIsSendable
  <2> QED
    BY <1>8, <2>1, <2>3, CallKeeps DEF Admit
<1>9. ASSUME NEW g \in GrantIds, NEW now \in Times, Revoke(g, now) PROVE DInv'
  <2>1. PICK c : /\ c = Command("agent_revoke", g, now)
                 /\ Commit(c) \/ NoReply(c)
    BY <1>9 DEF Revoke
  <2>2. Sendable(c)
    <3>1. c = [kind |-> "agent_revoke", grant |-> g, body |-> NoBody,
               issuer |-> NoActor, actor |-> NoActor, workflow |-> NoWorkflow,
               target |-> NoTarget, amount |-> 0, time |-> now, allow |-> FALSE]
      BY <2>1 DEF Command
    <3> QED
      BY <3>1, PlainIsSendable
  <2> QED
    BY <1>9, <2>1, <2>2, CallKeeps DEF Revoke
<1>10. ASSUME NEW actor \in Actors, NEW w \in Workflows, NEW o \in Offers, NEW now \in Times,
              IssueRoot(actor, w, o, now)
       PROVE  DInv'
  <2>1. PICK b : b = [parent |-> NoGrant, actor |-> actor, workflow |-> w, limits |-> o]
    OBVIOUS
  <2>2. PICK c : c = [Command("agent_grant", FreshId, now) EXCEPT
                        !.actor = actor, !.workflow = w, !.body = b]
    OBVIOUS
  <2>3. Unused # {} /\ Grant(c)
    BY <1>10, <2>1, <2>2 DEF IssueRoot
  <2>4. c = [kind |-> "agent_grant", grant |-> FreshId, body |-> b,
             issuer |-> NoActor, actor |-> actor, workflow |-> w,
             target |-> NoTarget, amount |-> 0, time |-> now, allow |-> FALSE]
    BY <2>2 DEF Command
  <2>5. /\ Sendable(c)
        /\ Agent(c.grant, c.body) \in Handles
    BY <2>1, <2>3, <2>4, GrantIsSendable
  <2> QED
    BY <2>3, <2>5, GrantKeeps
<1>11. ASSUME NEW a \in handles, NEW actor \in Actors, NEW o \in Offers, NEW now \in Times,
              Delegate(a, actor, o, now)
       PROVE  DInv'
  <2>1. PICK b : b = [parent |-> a.delegation, actor |-> actor, workflow |-> a.workflow,
                      limits |-> o]
    OBVIOUS
  <2>2. PICK c : c = [Command("agent_grant", FreshId, now) EXCEPT
                        !.actor = actor, !.workflow = a.workflow, !.issuer = a.actor,
                        !.body = b]
    OBVIOUS
  <2>3. Unused # {} /\ Grant(c)
    BY <1>11, <2>1, <2>2 DEF Delegate
  <2>4. c = [kind |-> "agent_grant", grant |-> FreshId, body |-> b,
             issuer |-> a.actor, actor |-> actor, workflow |-> a.workflow,
             target |-> NoTarget, amount |-> 0, time |-> now, allow |-> FALSE]
    BY <2>2 DEF Command
  <2>5. a.actor \in Actors /\ a.workflow \in Workflows /\ a.delegation \in GrantIds
    BY <1>0
  <2>6. /\ Sendable(c)
        /\ Agent(c.grant, c.body) \in Handles
    BY <2>1, <2>3, <2>4, <2>5, GrantIsSendable
  <2> QED
    BY <2>3, <2>6, GrantKeeps
<1>12. CASE UNCHANGED vars
  BY <1>12 DEF vars, DInv
<1>13. CASE Silently
  BY <1>1, <1>2, <1>3, <1>4, <1>13 DEF Silently
<1>14. CASE Recording
  BY <1>5, <1>6, <1>7, <1>8, <1>9, <1>10, <1>11, <1>14 DEF Recording
<1> QED
  BY <1>12, <1>13, <1>14 DEF Next

\* Whatever agents and plain callers do, in whatever order commands are taken,
\* refused, cut off and replayed, the journal and the ledger that it replays to
\* agree, and a live engine has exactly that ledger.
THEOREM AlwaysAgrees == Spec => []DInv
  BY InitAgrees, StepAgrees, PTL DEF Spec

-------------------------------------------------------------------------------
\* What the properties read in the journal is what the replayed ledger has

LEMMA JournalRead ==
  ASSUME DInv, NEW G, G = Replay(journal).grants
  PROVE  /\ Tree(G)
         /\ Granted = DOMAIN G
         /\ \A g \in Granted : /\ GrantedAt(g) \in DOMAIN journal
                               /\ IsGrant(journal[GrantedAt(g)])
                               /\ journal[GrantedAt(g)].grant = g
                               /\ Body(g) = G[g]
         /\ \A i \in DOMAIN journal :
              IsGrant(journal[i]) => GrantedAt(journal[i].grant) = i
         /\ \A x : Above(x) = Up(G, x)
         /\ \A x : /\ SpentOn(x) = SpentIn(journal, G, x)
                   /\ SpentAmount(x) = SumFunctionOnSet(AmountsOf(journal),
                                                        SpentIn(journal, G, x))
<1>1. PICK l : l = Replay(journal) /\ G = l.grants /\ LedgerType(l) /\ GrantsAgree(journal, l)
  BY DEF DInv, Agreed
<1>2. Granted = DOMAIN G
  <2>1. \A i \in DOMAIN journal : IsGrant(journal[i]) => journal[i].grant \in DOMAIN G
    BY <1>1 DEF GrantsAgree
  <2>2. \A g \in DOMAIN G : \E i \in DOMAIN journal : IsGrant(journal[i]) /\ journal[i].grant = g
    BY <1>1 DEF GrantsAgree
  <2> QED
    BY <2>1, <2>2 DEF Granted, IsGrant
<1>3. ASSUME NEW g \in Granted
      PROVE  /\ GrantedAt(g) \in DOMAIN journal
             /\ IsGrant(journal[GrantedAt(g)])
             /\ journal[GrantedAt(g)].grant = g
  <2>1. \E i \in DOMAIN journal : journal[i].kind = "agent_grant" /\ journal[i].grant = g
    BY DEF Granted
  <2> QED
    BY <2>1 DEF GrantedAt, IsGrant
<1>4. ASSUME NEW g \in Granted PROVE Body(g) = G[g]
  BY <1>1, <1>3 DEF Body, GrantsAgree
<1>5. ASSUME NEW i \in DOMAIN journal, IsGrant(journal[i])
      PROVE  GrantedAt(journal[i].grant) = i
  <2>1. journal[i].grant \in Granted
    BY <1>5 DEF Granted, IsGrant
  <2> QED
    BY <1>1, <1>3, <1>5, <2>1 DEF GrantsAgree
<1>6. \A S \in SUBSET Granted : DerivedFrom(S) <=> Closed(G, S)
  BY <1>4 DEF DerivedFrom, Closed
<1>7. ASSUME NEW x PROVE Above(x) = Up(G, x)
  BY <1>2, <1>6 DEF Above, Up
<1>8. ASSUME NEW x
      PROVE  /\ SpentOn(x) = SpentIn(journal, G, x)
             /\ SpentAmount(x) = SumFunctionOnSet(AmountsOf(journal), SpentIn(journal, G, x))
  <2>1. SpentOn(x) = SpentIn(journal, G, x)
    BY <1>7 DEF SpentOn, SpentIn, Spends
  <2> QED
    BY <2>1 DEF SpentAmount, AmountsOf
<1>9. Tree(G)
  BY <1>1 DEF LedgerType
<1> QED
  BY <1>2, <1>3, <1>4, <1>5, <1>7, <1>8, <1>9

LEMMA BudgetsHoldNow == DInv => BudgetsHold
<1> SUFFICES ASSUME DInv, NEW g \in Granted
             PROVE  /\ Cardinality(SpentOn(g)) <= Body(g).limits.calls
                    /\ SpentAmount(g) <= Body(g).limits.amount
  BY DEF BudgetsHold
<1>1. PICK l, G : l = Replay(journal) /\ G = l.grants /\ SpendingAgrees(journal, l)
  BY DEF DInv, Agreed
<1>2. /\ g \in DOMAIN G /\ Body(g) = G[g]
      /\ SpentOn(g) = SpentIn(journal, G, g)
      /\ SpentAmount(g) = SumFunctionOnSet(AmountsOf(journal), SpentIn(journal, G, g))
  BY <1>1, JournalRead
<1>3. /\ l.usage[g] = [calls |-> Cardinality(SpentIn(journal, G, g)),
                       amount |-> SumFunctionOnSet(AmountsOf(journal), SpentIn(journal, G, g))]
      /\ l.usage[g].calls <= G[g].limits.calls
      /\ l.usage[g].amount <= G[g].limits.amount
  BY <1>1, <1>2 DEF SpendingAgrees
<1>4. /\ l.usage[g].calls = Cardinality(SpentOn(g))
      /\ l.usage[g].amount = SpentAmount(g)
  BY <1>2, <1>3
<1> QED
  BY <1>2, <1>3, <1>4

LEMMA DispatchesAreCoveredNow == DInv => DispatchesAreCovered
<1> SUFFICES ASSUME DInv, NEW i \in DOMAIN journal, IsDispatch(journal[i]),
                    \E k \in DOMAIN journal : journal[k].kind = "agent_enable"
             PROVE  /\ journal[i].grant \in Granted
                    /\ journal[i].actor = Body(journal[i].grant).actor
                    /\ \A g \in Above(journal[i].grant) :
                         /\ GrantedAt(g) < i
                         /\ journal[i].time <= Body(g).limits.expires
                         /\ journal[i].target \in Body(g).limits.scope
                         /\ \A k \in 1..i : ~(/\ journal[k].kind = "agent_revoke"
                                              /\ journal[k].grant = g)
  BY DEF DispatchesAreCovered
<1>1. PICK l, G : /\ l = Replay(journal) /\ G = l.grants /\ EnabledAgrees(journal, l)
                  /\ DispatchesAgree(journal, l)
  BY DEF DInv, Agreed
<1>2. CoveredAt(journal, G, i)
  BY <1>1 DEF EnabledAgrees, DispatchesAgree
<1>3. journal[i].grant \in Granted /\ journal[i].actor = Body(journal[i].grant).actor
  BY <1>1, <1>2, JournalRead DEF CoveredAt
<1>4. ASSUME NEW g \in Above(journal[i].grant)
      PROVE  /\ GrantedAt(g) < i
             /\ journal[i].time <= Body(g).limits.expires
             /\ journal[i].target \in Body(g).limits.scope
             /\ \A k \in 1..i : ~(/\ journal[k].kind = "agent_revoke"
                                  /\ journal[k].grant = g)
  <2>1. g \in Up(G, journal[i].grant) /\ g \in Granted /\ Body(g) = G[g]
    <3>1. g \in Granted
      BY DEF Above
    <3> QED
      BY <1>1, <1>4, <3>1, JournalRead
  <2>2. /\ IssuedBefore(journal, g, i)
        /\ journal[i].time <= G[g].limits.expires
        /\ journal[i].target \in G[g].limits.scope
        /\ ~RevokedBy(journal, g, i)
    BY <1>2, <2>1 DEF CoveredAt
  <2>3. GrantedAt(g) < i
    <3>1. PICK j \in DOMAIN journal : j < i /\ IsGrant(journal[j]) /\ journal[j].grant = g
      BY <2>2 DEF IssuedBefore
    <3>2. GrantedAt(g) = j
      BY <1>1, <3>1, JournalRead
    <3> QED
      BY <3>1, <3>2
  <2>4. \A k \in 1..i : k \in DOMAIN journal /\ k <= i
    <3>1. journal \in Seq(Entries)
      BY DEF DInv
    <3> QED
      BY <3>1
  <2>5. \A k \in 1..i : ~(journal[k].kind = "agent_revoke" /\ journal[k].grant = g)
    BY <2>2, <2>4 DEF RevokedBy, IsRevoke
  <2> QED
    BY <2>1, <2>2, <2>3, <2>5
<1> QED
  BY <1>3, <1>4

LEMMA NoEscalationNow == DInv => NoEscalation
<1> SUFFICES ASSUME DInv, NEW g \in Granted, NEW a \in Above(g)
             PROVE  /\ Body(g).limits.scope \subseteq Body(a).limits.scope
                    /\ Body(g).limits.calls <= Body(a).limits.calls
                    /\ Body(g).limits.amount <= Body(a).limits.amount
                    /\ Body(g).limits.expires <= Body(a).limits.expires
                    /\ Body(a).parent = NoGrant =>
                         Cardinality(Above(g)) <= Body(a).limits.depth + 1
  BY DEF NoEscalation
<1>1. PICK G : G = Replay(journal).grants /\ Narrows(G)
  BY DEF DInv, Agreed
<1>2. a \in Granted
  BY DEF Above
<1>3. /\ Tree(G) /\ g \in DOMAIN G /\ a \in DOMAIN G /\ a \in Up(G, g)
      /\ Body(g) = G[g] /\ Body(a) = G[a] /\ Above(g) = Up(G, g)
  BY <1>1, <1>2, JournalRead
<1>4. /\ NoWider(G[g], G[a])
      /\ G[a].parent = NoGrant =>
           Cardinality(Up(G, g)) + G[g].limits.depth <= G[a].limits.depth + 1
  BY <1>1, <1>3 DEF Narrows
<1>5. Cardinality(Up(G, g)) \in Nat /\ G[g].limits.depth \in Nat /\ G[a].limits.depth \in Nat
  <2>1. Cardinality(Up(G, g)) \in Nat
    BY <1>3, UpIsLeast, FS_CardinalityType
  <2>2. G[g].limits \in Limits /\ G[a].limits \in Limits
    BY <1>3 DEF Tree, Grants
  <2> QED
    BY <2>1, <2>2 DEF Limits
<1>6. G[a].parent = NoGrant => Cardinality(Up(G, g)) <= G[a].limits.depth + 1
  BY <1>4, <1>5
<1> QED
  BY <1>3, <1>4, <1>6 DEF NoWider

\* The history rule finds a grant active while no command has revoked it.
LEMMA HistoryFindsRevocations ==
  ASSUME NEW h, NEW l, Agreed(h, l), DOMAIN h \subseteq Nat, NEW g \in DOMAIN l.grants
  PROVE  g \in l.revoked <=> ~HistoryActive(h, l, g)
<1>1. GrantsAgree(h, l) /\ RevocationsAgree(h, l)
  BY DEF Agreed
<1>2. HistoryActive(h, l, g) <=>
        \E i \in DOMAIN h :
          /\ h[i].workflow = l.grants[g].workflow
          /\ IsGrant(h[i]) /\ h[i].grant = g /\ h[i].actor = l.grants[g].actor
          /\ \A j \in DOMAIN h :
               h[j].workflow = l.grants[g].workflow /\ i < j => ~(IsRevoke(h[j]) /\ h[j].grant = g)
  BY DEF HistoryActive, IsGrant, IsRevoke
<1>3. CASE g \in l.revoked
  <2>1. PICK j \in DOMAIN h : IsRevoke(h[j]) /\ h[j].grant = g
    BY <1>1, <1>3 DEF RevocationsAgree
  <2>2. h[j].workflow = l.grants[g].workflow /\ IssuedBefore(h, g, j)
    BY <1>1, <2>1 DEF RevocationsAgree
  <2>3. \A i \in DOMAIN h : IsGrant(h[i]) /\ h[i].grant = g => i < j
    BY <1>1, <2>2 DEF IssuedBefore, GrantsAgree
  <2> QED
    BY <1>2, <1>3, <2>1, <2>2, <2>3
<1>4. CASE g \notin l.revoked
  <2>1. PICK i \in DOMAIN h : IsGrant(h[i]) /\ h[i].grant = g
    BY <1>1 DEF GrantsAgree
  <2>2. h[i].actor = l.grants[g].actor /\ h[i].workflow = l.grants[g].workflow
    BY <1>1, <2>1 DEF GrantsAgree
  <2>3. \A j \in DOMAIN h : ~(IsRevoke(h[j]) /\ h[j].grant = g)
    BY <1>1, <1>4 DEF RevocationsAgree
  <2> QED
    BY <1>2, <1>4, <2>1, <2>2, <2>3
<1> QED
  BY <1>3, <1>4

LEMMA LedgerAgreesNow == DInv => LedgerAgreesWithHistory
<1> SUFFICES ASSUME DInv, up
             PROVE  /\ Issued(ledger) = Granted
                    /\ \A g \in Granted :
                         /\ ledger.usage[g] = [calls |-> Cardinality(SpentOn(g)),
                                               amount |-> SpentAmount(g)]
                         /\ g \in ledger.revoked <=> ~HistoryActive(journal, ledger, g)
  BY DEF LedgerAgreesWithHistory
<1>1. PICK G : G = ledger.grants
  OBVIOUS
<1>2. /\ ledger = Replay(journal) /\ Agreed(journal, ledger) /\ SpendingAgrees(journal, ledger)
      /\ DOMAIN journal \subseteq Nat
  BY DEF DInv, Agreed
<1>3. Granted = DOMAIN G
  BY <1>1, <1>2, JournalRead
<1>4. ASSUME NEW g \in Granted
      PROVE  ledger.usage[g] = [calls |-> Cardinality(SpentOn(g)), amount |-> SpentAmount(g)]
  <2>1. /\ SpentOn(g) = SpentIn(journal, G, g)
        /\ SpentAmount(g) = SumFunctionOnSet(AmountsOf(journal), SpentIn(journal, G, g))
    BY <1>1, <1>2, JournalRead
  <2> QED
    BY <1>1, <1>2, <1>3, <2>1 DEF SpendingAgrees
<1>5. ASSUME NEW g \in Granted
      PROVE  g \in ledger.revoked <=> ~HistoryActive(journal, ledger, g)
  BY <1>1, <1>2, <1>3, HistoryFindsRevocations
<1> QED
  BY <1>1, <1>3, <1>4, <1>5 DEF Issued

\* No grant's descendants together dispatch more than the grant allows.
THEOREM BudgetsAlwaysHold == Spec => []BudgetsHold
  BY AlwaysAgrees, BudgetsHoldNow, PTL

\* Every dispatch was covered by each grant up to the root when it was made.
THEOREM DispatchesAlwaysCovered == Spec => []DispatchesAreCovered
  BY AlwaysAgrees, DispatchesAreCoveredNow, PTL

\* Delegation never widens a grant, nor outgrows the depth its root allows.
THEOREM NeverEscalates == Spec => []NoEscalation
  BY AlwaysAgrees, NoEscalationNow, PTL

\* The totals and revocations of a live engine are those of the journal.
THEOREM LedgerAlwaysAgrees == Spec => []LedgerAgreesWithHistory
  BY AlwaysAgrees, LedgerAgreesNow, PTL

===============================================================================
