------------------------------ MODULE Delegation ------------------------------
(***************************************************************************)
(* Delegated grants and their budgets: the ledger of LeanGuard/MultiAgent  *)
(* .lean, the commands of RuntimeCore.lean that change it, and the host of *)
(* python/leanguard/multiagent.py that sends them.                         *)
(*                                                                         *)
(* The engine keeps the ledger in memory and decides from it; the journal  *)
(* on disk is what a restarted engine rebuilds it from.  Every call of the *)
(* host holds its lock from start to end, so a call is one step here: the  *)
(* command is journalled, or it is rolled back and the engine rebuilt.     *)
(* GuardHost.tla opens that step up; this module relies on what it shows.  *)
(*                                                                         *)
(* A target stands for an (action, resource, peer) triple.  A grant names  *)
(* a product of three lists, and inclusion of the lists is inclusion of    *)
(* the products, so its scope is the set of its targets.                   *)
(***************************************************************************)
EXTENDS Integers, Sequences, FiniteSets, FiniteSetsExt, SequencesExt

CONSTANTS
  GrantIds,      \* UUIDs of grants
  Actors,        \* identities the host binds to handles
  Workflows,
  Targets,       \* what a call may ask for
  Permitted,     \* the targets the tool policy permits
  Amounts,       \* charges of calls
  Offers,        \* bound: the scopes and limits that callers ask for
  Times,         \* clock readings
  NoGrant, NoActor, NoWorkflow, NoTarget, NoBody,
  PlainCalls,    \* bound: whether callers also use the host without a handle
  MaxCommands,   \* bound: recorded commands attempted
  MaxFaults      \* bound: crashes and failures

Limits == [scope: SUBSET Targets \ {{}}, calls: Nat, amount: Nat, expires: Nat, depth: Nat]

ASSUME DelegationAssumption ==
  /\ NoGrant \notin GrantIds /\ NoActor \notin Actors /\ NoWorkflow \notin Workflows
  /\ Permitted \subseteq Targets /\ NoTarget \notin Targets
  /\ Amounts \subseteq Nat /\ Times \subseteq Nat
  /\ Offers \subseteq Limits
  /\ IsFiniteSet(GrantIds)
  /\ PlainCalls \in BOOLEAN /\ MaxCommands \in Nat /\ MaxFaults \in Nat

\* A grant, and an entry of the journal.
Grants == [parent: GrantIds \cup {NoGrant}, actor: Actors, workflow: Workflows,
           limits: Limits]

Entries == [kind: {"agent_enable", "agent_grant", "agent_revoke", "admit", "user_action"},
            grant: GrantIds \cup {NoGrant},
            body: Grants \cup {NoBody},
            issuer: Actors \cup {NoActor},
            actor: Actors \cup {NoActor},
            workflow: Workflows \cup {NoWorkflow},
            target: Targets \cup {NoTarget},
            amount: Nat,
            time: Nat,
            allow: BOOLEAN]

VARIABLES
  journal,       \* on disk: the accepted commands, oldest first
  ledger,        \* in the engine: State of MultiAgent.lean
  up,            \* the engine process runs
  host,          \* what holds the journal: nothing, a GuardHost, a MultiAgentHost
  handles,       \* Agent objects that coordinators hold
  commands, faults   \* the bounded counters

vars == <<journal, ledger, up, host, handles, commands, faults>>

-------------------------------------------------------------------------------
\* The ledger

NoLedger == [enabled |-> FALSE, grants |-> [g \in {} |-> NoBody],
             usage |-> [g \in {} |-> NoBody], revoked |-> {}]

Issued(l) == DOMAIN l.grants

\* The chain from a grant up to its root, as a set.
Lineage_LeafOnly(l, g) == {g}

Lineage(l, g) ==
  LET chain[n \in 0..Cardinality(GrantIds)] ==
        IF n = 0 THEN {g}
        ELSE LET below == chain[n - 1]
             IN  below \cup ({l.grants[x].parent : x \in below} \ {NoGrant})
  IN  chain[Cardinality(GrantIds)]

Active(l, g, now) ==
  /\ g \in Issued(l)
  /\ \A a \in Lineage(l, g) : a \notin l.revoked /\ now <= l.grants[a].limits.expires

Attenuates_SameDepth(child, parent) ==
  /\ child.workflow = parent.workflow
  /\ child.limits.scope \subseteq parent.limits.scope
  /\ child.limits.calls <= parent.limits.calls
  /\ child.limits.amount <= parent.limits.amount
  /\ child.limits.expires <= parent.limits.expires
  /\ child.limits.depth <= parent.limits.depth

Attenuates(child, parent) ==
  /\ child.workflow = parent.workflow
  /\ child.limits.scope \subseteq parent.limits.scope
  /\ child.limits.calls <= parent.limits.calls
  /\ child.limits.amount <= parent.limits.amount
  /\ child.limits.expires <= parent.limits.expires
  /\ child.limits.depth < parent.limits.depth

MayIssue(l, e) ==
  /\ l.enabled
  /\ e.body.limits.expires >= e.time
  /\ e.grant \notin Issued(l)
  /\ IF e.body.parent # NoGrant
     THEN /\ Active(l, e.body.parent, e.time)
          /\ e.issuer = l.grants[e.body.parent].actor
          /\ Attenuates(e.body, l.grants[e.body.parent])
     ELSE /\ e.issuer = NoActor
          /\ \A g \in Issued(l) : ~(/\ l.grants[g].parent = NoGrant
                                    /\ l.grants[g].workflow = e.body.workflow)

Fits(u, g, amount) ==
  u.calls < g.limits.calls /\ u.amount + amount <= g.limits.amount

WithinGrant_IgnoresSpending(l, e, g) ==
  /\ l.grants[g].workflow = e.workflow
  /\ e.target \in l.grants[g].limits.scope
  /\ g \notin l.revoked
  /\ e.time <= l.grants[g].limits.expires
  /\ Fits([calls |-> 0, amount |-> 0], l.grants[g], e.amount)

WithinGrant(l, e, g) ==
  /\ l.grants[g].workflow = e.workflow
  /\ e.target \in l.grants[g].limits.scope
  /\ g \notin l.revoked
  /\ e.time <= l.grants[g].limits.expires
  /\ Fits(l.usage[g], l.grants[g], e.amount)

Authorized(l, e) ==
  /\ e.grant \in Issued(l)
  /\ l.grants[e.grant].actor = e.actor
  /\ \A g \in Lineage(l, e.grant) : WithinGrant(l, e, g)

Charge_LeafOnly(l, e) ==
  [l EXCEPT !.usage[e.grant] = [calls |-> @.calls + 1, amount |-> @.amount + e.amount]]

Charge(l, e) ==
  [l EXCEPT !.usage = [g \in Issued(l) |->
     IF g \in Lineage(l, e.grant)
     THEN [calls |-> @[g].calls + 1, amount |-> @[g].amount + e.amount]
     ELSE @[g]]]

\* activeGrant: within the events of the request's workflow, the grant was
\* issued to this actor and has not been revoked since.
HistoryActive(h, l, g) ==
  LET workflow == {i \in DOMAIN h : h[i].workflow = l.grants[g].workflow}
      issued(e) == e.kind = "agent_grant" /\ e.grant = g /\ e.actor = l.grants[g].actor
      revokes(e) == e.kind = "agent_revoke" /\ e.grant = g
  IN  \E i \in workflow :
        /\ issued(h[i])
        /\ \A j \in workflow : i < j => ~revokes(h[j])

\* decideAdmission: policy, ledger and history rules must all allow the call.
\* Without agents, only a call that names none of them is left to the policy.
Decide(h, l, e) ==
  /\ e.target \in Permitted
  /\ IF l.enabled
     THEN Authorized(l, e) /\ \A g \in Lineage(l, e.grant) : HistoryActive(h, l, g)
     ELSE e.grant = NoGrant /\ e.actor = NoActor /\ e.workflow = NoWorkflow

-------------------------------------------------------------------------------
\* The command handler

MayEnable(h, l) == ~l.enabled /\ h = << >>

Accepts(h, l, e) ==
  /\ h # << >> => h[Len(h)].time <= e.time
  /\ CASE e.kind = "agent_enable" -> MayEnable(h, l)
       [] e.kind = "agent_grant" -> MayIssue(l, e)
       [] e.kind = "agent_revoke" -> e.grant \in Issued(l)
       [] OTHER -> TRUE

\* The event the engine records: it fills in the grant's own scope and the
\* decision.
Answer(h, l, e) ==
  CASE e.kind = "agent_revoke" ->
         [e EXCEPT !.actor = l.grants[e.grant].actor,
                   !.workflow = l.grants[e.grant].workflow]
    [] e.kind = "admit" -> [e EXCEPT !.allow = Decide(h, l, e)]
    [] OTHER -> e

Apply(l, e) ==
  CASE e.kind = "agent_enable" -> [l EXCEPT !.enabled = TRUE]
    [] e.kind = "agent_grant" ->
         [l EXCEPT !.grants = [g \in Issued(l) \cup {e.grant} |->
                                 IF g = e.grant THEN e.body ELSE @[g]],
                   !.usage = [g \in Issued(l) \cup {e.grant} |->
                                IF g = e.grant THEN [calls |-> 0, amount |-> 0] ELSE @[g]]]
    [] e.kind = "agent_revoke" -> [l EXCEPT !.revoked = @ \cup {e.grant}]
    [] e.kind = "admit" /\ e.allow /\ e.grant # NoGrant -> Charge(l, e)
    [] OTHER -> l

Replay(h) == FoldLeft(Apply, NoLedger, h)

-------------------------------------------------------------------------------
\* The host

FaultHappens == faults < MaxFaults /\ faults' = faults + 1

\* _record: commit, or roll back and rebuild the engine from the journal.
Commit(e) ==
  /\ up /\ Accepts(journal, ledger, e)
  /\ LET answer == Answer(journal, ledger, e)
     IN  journal' = Append(journal, answer) /\ ledger' = Apply(ledger, answer)
  /\ UNCHANGED <<up, faults>>

Recover ==
  \/ ledger' = Replay(journal) /\ up' = TRUE /\ UNCHANGED faults
  \/ FaultHappens /\ up' = FALSE /\ UNCHANGED ledger

RollBack(e) ==
  /\ ~(up /\ Accepts(journal, ledger, e))
  /\ Recover
  /\ UNCHANGED journal

\* The engine or SQLite fails inside the command; the recovery after it works.
Interrupted ==
  /\ up /\ FaultHappens
  /\ ledger' = Replay(journal)
  /\ UNCHANGED <<journal, up>>

NoReply(e) == RollBack(e) \/ Interrupted

Attempt == commands < MaxCommands /\ commands' = commands + 1

Command(kind, grant, now) ==
  [kind |-> kind, grant |-> grant, body |-> NoBody, issuer |-> NoActor, actor |-> NoActor,
   workflow |-> NoWorkflow, target |-> NoTarget, amount |-> 0, time |-> now, allow |-> FALSE]

Agent(g, body) == [actor |-> body.actor, workflow |-> body.workflow, delegation |-> g]

\* A UUID no journalled grant has.  Which one makes no difference.
Unused == GrantIds \ {journal[i].grant : i \in DOMAIN journal}
FreshId == CHOOSE g \in Unused : TRUE

\* grant and Agent.delegate through _grant: a fresh id, and a handle for it.
Grant(e) ==
  /\ host = "agents" /\ Attempt
  /\ \/ Commit(e) /\ handles' = handles \cup {Agent(e.grant, e.body)}
     \/ NoReply(e) /\ UNCHANGED handles
  /\ UNCHANGED host

IssueRoot(actor, workflow, limits, now) ==
  Unused # {} /\
  Grant([Command("agent_grant", FreshId, now) EXCEPT
           !.actor = actor, !.workflow = workflow,
           !.body = [parent |-> NoGrant, actor |-> actor, workflow |-> workflow,
                     limits |-> limits]])

Delegate(a, actor, limits, now) ==
  /\ a \in handles
  /\ Unused # {}
  /\ Grant([Command("agent_grant", FreshId, now) EXCEPT
              !.actor = actor, !.workflow = a.workflow, !.issuer = a.actor,
              !.body = [parent |-> a.delegation, actor |-> actor,
                        workflow |-> a.workflow, limits |-> limits]])

\* bind reads the engine's state: the grant's own actor and workflow.
Bind(g) ==
  /\ host = "agents" /\ up
  /\ g \in Issued(ledger)
  /\ handles' = handles \cup {Agent(g, ledger.grants[g])}
  /\ UNCHANGED <<journal, ledger, up, host, commands, faults>>

\* _status asks the engine directly: when that fails the engine has closed
\* itself, and nothing starts another.
StatusFails ==
  /\ host = "agents" /\ up /\ FaultHappens
  /\ up' = FALSE
  /\ UNCHANGED <<journal, ledger, host, handles, commands>>

Revoke(g, now) ==
  /\ host = "agents" /\ Attempt
  /\ LET e == Command("agent_revoke", g, now) IN Commit(e) \/ NoReply(e)
  /\ UNCHANGED <<host, handles>>

\* Agent.execute and _begin_interaction: the handle's scope goes into the event.
Admit(a, target, amount, now) ==
  /\ host = "agents" /\ Attempt
  /\ a \in handles
  /\ LET e == [Command("admit", a.delegation, now) EXCEPT
                 !.actor = a.actor, !.workflow = a.workflow,
                 !.target = target, !.amount = amount]
     IN  Commit(e) \/ NoReply(e)
  /\ UNCHANGED <<host, handles>>

\* The methods inherited from GuardHost, which carry no scope: execute and
\* observe_trusted, on this host or on a plain GuardHost over the journal.
PlainExecute(target, amount, now) ==
  /\ PlainCalls /\ host # "closed" /\ Attempt
  /\ LET e == [Command("admit", NoGrant, now) EXCEPT !.target = target, !.amount = amount]
     IN  Commit(e) \/ NoReply(e)
  /\ UNCHANGED <<host, handles>>

PlainObserve(now) ==
  /\ PlainCalls /\ host # "closed" /\ Attempt
  /\ LET e == Command("user_action", NoGrant, now) IN Commit(e) \/ NoReply(e)
  /\ UNCHANGED <<host, handles>>

\* __init__: replay, and agents_enable unless the replayed ledger has it.  Any
\* failure closes the host again.
OpenAgents(now) ==
  /\ host = "closed" /\ Attempt
  /\ LET e == Command("agent_enable", NoGrant, now)
         l == Replay(journal)
     IN  IF l.enabled
         THEN /\ ledger' = l /\ up' = TRUE /\ host' = "agents"
              /\ UNCHANGED journal
         ELSE IF Accepts(journal, l, e)
         THEN /\ journal' = Append(journal, e)
              /\ ledger' = Apply(l, e) /\ up' = TRUE /\ host' = "agents"
         ELSE UNCHANGED <<journal, ledger, up, host>>
  /\ UNCHANGED <<handles, faults>>

OpenPlain ==
  /\ PlainCalls /\ host = "closed"
  /\ ledger' = Replay(journal) /\ up' = TRUE /\ host' = "plain"
  /\ UNCHANGED <<journal, handles, commands, faults>>

Stop ==
  /\ host # "closed"
  /\ host' = "closed" /\ up' = FALSE /\ ledger' = NoLedger /\ handles' = {}

Close == Stop /\ UNCHANGED <<journal, commands, faults>>
Crash == Stop /\ FaultHappens /\ UNCHANGED <<journal, commands>>

-------------------------------------------------------------------------------
Init ==
  /\ journal = << >>
  /\ ledger = NoLedger
  /\ up = FALSE
  /\ host = "closed"
  /\ handles = {}
  /\ commands = 0 /\ faults = 0

\* Steps that record nothing, and those that try to.
Silently ==
  \/ OpenPlain \/ Close \/ Crash \/ StatusFails
  \/ \E g \in GrantIds : Bind(g)

Recording ==
  \/ \E now \in Times : OpenAgents(now) \/ PlainObserve(now)
  \/ \E actor \in Actors, w \in Workflows, o \in Offers, now \in Times :
       IssueRoot(actor, w, o, now)
  \/ \E a \in handles, actor \in Actors, o \in Offers, now \in Times :
       Delegate(a, actor, o, now)
  \/ \E g \in GrantIds, now \in Times : Revoke(g, now)
  \/ \E a \in handles, t \in Targets, amount \in Amounts, now \in Times :
       Admit(a, t, amount, now)
  \/ \E t \in Targets, amount \in Amounts, now \in Times : PlainExecute(t, amount, now)

Next == Silently \/ Recording

Spec == Init /\ [][Next]_vars

-------------------------------------------------------------------------------
\* What the journal says of grants, read without the ledger's own operators

IsDispatch(e) == e.kind = "admit" /\ e.allow

Granted == {journal[i].grant : i \in {j \in DOMAIN journal : journal[j].kind = "agent_grant"}}

GrantedAt(g) == CHOOSE i \in DOMAIN journal :
                  journal[i].kind = "agent_grant" /\ journal[i].grant = g
Body(g) == journal[GrantedAt(g)].body

\* A grant and everything it was derived from: the smallest set that has it, and
\* the parent of each member that has one.
DerivedFrom(S) == \A x \in S : Body(x).parent \in S \cup {NoGrant}
Above(g) == {a \in Granted : \A S \in SUBSET Granted : g \in S /\ DerivedFrom(S) => a \in S}

SpentOn(g) == {i \in DOMAIN journal :
                 /\ IsDispatch(journal[i]) /\ journal[i].grant # NoGrant
                 /\ g \in Above(journal[i].grant)}
SpentAmount(g) == SumFunctionOnSet([i \in DOMAIN journal |-> journal[i].amount], SpentOn(g))

\* Whatever agents and their subagents do through however many sibling grants,
\* no grant's descendants together dispatch more calls or more amount than the
\* grant allows (MultiAgent.lean:221-238, "shared budget").
BudgetsHold ==
  \A g \in Granted :
    /\ Cardinality(SpentOn(g)) <= Body(g).limits.calls
    /\ SpentAmount(g) <= Body(g).limits.amount

\* Every dispatch in a journal that has agents was covered, when it was made, by
\* each grant from the caller's up to the root: issued before, unexpired, not
\* revoked yet, with the target in its scope.  None was recorded before
\* authority was required (MultiAgent.lean:181-219, RuntimeCore.lean:104-105).
DispatchesAreCovered ==
  \A i \in DOMAIN journal :
    IsDispatch(journal[i]) /\ (\E k \in DOMAIN journal : journal[k].kind = "agent_enable") =>
      /\ journal[i].grant \in Granted
      /\ journal[i].actor = Body(journal[i].grant).actor
      /\ \A g \in Above(journal[i].grant) :
           /\ GrantedAt(g) < i
           /\ journal[i].time <= Body(g).limits.expires
           /\ journal[i].target \in Body(g).limits.scope
           /\ \A k \in 1..i : ~(journal[k].kind = "agent_revoke" /\ journal[k].grant = g)

\* Delegating never widens: a grant is within every grant above it, and a chain
\* is never longer than the root's depth admits (MultiAgent.lean:46-50).
NoEscalation ==
  \A g \in Granted : \A a \in Above(g) :
    /\ Body(g).limits.scope \subseteq Body(a).limits.scope
    /\ Body(g).limits.calls <= Body(a).limits.calls
    /\ Body(g).limits.amount <= Body(a).limits.amount
    /\ Body(g).limits.expires <= Body(a).limits.expires
    /\ Body(a).parent = NoGrant =>
         Cardinality(Above(g)) <= Body(a).limits.depth + 1

\* The ledger of a live engine, one that decided the journal's commands or one
\* rebuilt by replay, is what the journal says: its totals are what the
\* dispatches add up to, and a grant is revoked in it exactly when the history
\* rule no longer finds it active (MultiAgent.lean:225, 255-270, host.py:140).
LedgerAgreesWithHistory ==
  up => /\ Issued(ledger) = Granted
        /\ \A g \in Granted :
             /\ ledger.usage[g] = [calls |-> Cardinality(SpentOn(g)),
                                   amount |-> SpentAmount(g)]
             /\ g \in ledger.revoked <=> ~HistoryActive(journal, ledger, g)
===============================================================================
