------------------------------- MODULE A2ATasks -------------------------------
(***************************************************************************)
(* Remote A2A tasks as LeanGuard/A2A.lean keeps them: which call may touch *)
(* a task (taskAccess and the agents.* rules) and which reply may change   *)
(* it (updateTask).  Replies come from an untrusted peer: late, repeated,  *)
(* out of order, or naming somebody else's task.                           *)
(*                                                                         *)
(* An owner stands for the actor, workflow and delegation of a handle; the *)
(* principal is the journal's.  A history entry is a dispatch with its     *)
(* request, or an event about that dispatch with the frame it carries.     *)
(***************************************************************************)
EXTENDS Integers, Sequences, FiniteSets

CONSTANTS
  Calls,         \* operations; a call is its request id
  Owners, Peers, Resources,
  TaskIds, ContextIds, MessageIds,
  Phases,        \* the phases that peers report in this instance
  NoTask, NoContext, NoMessage, NoPhase, NoRequest, NoFrame

AllPhases == {"submitted", "working", "input_required", "auth_required",
              "completed", "canceled", "rejected", "failed"}

ASSUME TaskAssumption ==
  /\ Phases \subseteq AllPhases
  /\ NoTask \notin TaskIds /\ NoContext \notin ContextIds /\ NoMessage \notin MessageIds
  /\ NoPhase \notin AllPhases
  /\ NoTask \notin Peers \X Resources

Operations == {"a2a.send", "a2a.get", "a2a.cancel", "a2a.subscribe"}

Requests == [op: Operations, stream: BOOLEAN, owner: Owners, peer: Peers,
             resource: Resources, task: TaskIds \cup {NoTask},
             context: ContextIds \cup {NoContext}, message: MessageIds \cup {NoMessage}]

\* One payload, by the key it came under.  A task and a context are named in
\* all but messages, a phase in tasks and status updates.
Frames ==
  [kind: {"task", "statusUpdate"}, task: TaskIds, context: ContextIds, state: Phases]
  \cup [kind: {"artifactUpdate"}, task: TaskIds, context: ContextIds, state: {NoPhase}]
  \cup [kind: {"message"}, task: {NoTask}, context: ContextIds \cup {NoContext},
        state: {NoPhase}]

SettledKinds == {"success", "failure", "reconciled"}
OutcomeKinds == {"success", "failure", "unknown"}

Entries == [kind: {"dispatch", "task_update", "stream_error"} \cup OutcomeKinds
                    \cup {"reconciled"},
            id: Calls, request: Requests \cup {NoRequest}, frame: Frames \cup {NoFrame}]

-------------------------------------------------------------------------------
Terminal_ButRejected(p) == p \in {"completed", "canceled", "failed"}
Terminal(p) == p \in {"completed", "canceled", "rejected", "failed"}

TaskTransition(old, next) == ~Terminal(old) \/ old = next

Tasks == [owner: Owners, resource: Resources, context: ContextIds, state: Phases]
Owned == [owner: Owners, resource: Resources]
Targets == [task: TaskIds \cup {NoTask}, context: ContextIds \cup {NoContext}]

\* tasks and contexts are keyed by the peer and the peer's own identifier.
NoState == [tasks |-> [k \in {} |-> NoTask], contexts |-> [k \in {} |-> NoContext],
            responses |-> [c \in {} |-> NoTask]]

Extend(f, k, v) == [x \in DOMAIN f \cup {k} |-> IF x = k THEN v ELSE f[x]]

OwnedBy_AnyOwner(t, r) == t.resource = r.resource
OwnedBy(t, r) == t.owner = r.owner /\ t.resource = r.resource

-------------------------------------------------------------------------------
\* What a call may touch

TaskAccess(s, r) ==
  IF r.task = NoTask
  THEN /\ r.op = "a2a.send"
       /\ \/ r.context = NoContext
          \/ /\ <<r.peer, r.context>> \in DOMAIN s.contexts
             /\ OwnedBy(s.contexts[<<r.peer, r.context>>], r)
  ELSE /\ <<r.peer, r.task>> \in DOMAIN s.tasks
       /\ LET t == s.tasks[<<r.peer, r.task>>]
          IN  /\ OwnedBy(t, r)
              /\ r.context \in {NoContext, t.context}
              /\ r.op \in {"a2a.send", "a2a.subscribe"} => ~Terminal(t.state)

DispatchOf(h, c) == CHOOSE i \in DOMAIN h : h[i].kind = "dispatch" /\ h[i].id = c
Dispatched(h, c) == \E i \in DOMAIN h : h[i].kind = "dispatch" /\ h[i].id = c
RequestOf(h, c) == h[DispatchOf(h, c)].request

Has(h, c, kinds) == \E i \in DOMAIN h : h[i].id = c /\ h[i].kind \in kinds

TaskTerminalEvent(h, i, peer, task) ==
  /\ h[i].kind \in {"task_update", "reconciled"}
  /\ RequestOf(h, h[i].id).peer = peer
  /\ h[i].frame.kind \in {"task", "statusUpdate"}
  /\ h[i].frame.task = task
  /\ Terminal(h[i].frame.state)

TaskOpen(h, r) ==
  r.task = NoTask \/ \A i \in DOMAIN h : ~TaskTerminalEvent(h, i, r.peer, r.task)

NoUnresolvedSend_UnknownSettles(h, r) ==
  \A i \in DOMAIN h :
    /\ h[i].kind = "dispatch" /\ h[i].request.op = "a2a.send"
    /\ h[i].request.peer = r.peer /\ h[i].request.resource = r.resource
    => Has(h, h[i].id, SettledKinds \cup {"unknown"})

NoUnresolvedSend(h, r) ==
  \A i \in DOMAIN h :
    /\ h[i].kind = "dispatch" /\ h[i].request.op = "a2a.send"
    /\ h[i].request.peer = r.peer /\ h[i].request.resource = r.resource
    => Has(h, h[i].id, SettledKinds)

NoMessageReplay(h, r) ==
  \A i \in DOMAIN h :
    /\ h[i].kind = "dispatch" /\ h[i].request.op = "a2a.send"
    /\ h[i].request.peer = r.peer
    => h[i].request.message # r.message

\* The grant's own part of the decision is Delegation.tla's.
Decide(h, s, r) ==
  /\ TaskAccess(s, r)
  /\ r.op \in {"a2a.send", "a2a.subscribe"} => TaskOpen(h, r)
  /\ r.op = "a2a.send" => NoUnresolvedSend(h, r) /\ NoMessageReplay(h, r)

-------------------------------------------------------------------------------
\* What a reply may change

TargetOf(f) == [task |-> f.task, context |-> f.context]

\* The first accepted response of an operation fixes what it refers to.
Binds(s, c, f) == c \in DOMAIN s.responses => s.responses[c] = TargetOf(f)

OwnsTask(s, r, f) ==
  LET k == <<r.peer, f.task>>
  IN  IF k \in DOMAIN s.tasks
      THEN OwnedBy(s.tasks[k], r) /\ s.tasks[k].context = f.context
      ELSE f.kind = "task" /\ r.op = "a2a.send"

OwnsContext(s, r, f) ==
  LET k == <<r.peer, f.context>>
  IN  f.context # NoContext /\ k \in DOMAIN s.contexts => OwnedBy(s.contexts[k], r)

MovesTask(s, r, f) ==
  LET k == <<r.peer, f.task>>
  IN  k \in DOMAIN s.tasks =>
        IF f.kind = "artifactUpdate" THEN ~Terminal(s.tasks[k].state)
        ELSE TaskTransition(s.tasks[k].state, f.state)

MayUpdate(s, c, r, f) ==
  /\ f.kind = "message" => r.task = NoTask /\ r.op = "a2a.send"
  /\ r.context \in {NoContext, f.context}
  /\ r.task \in {NoTask, f.task}
  /\ Binds(s, c, f)
  /\ OwnsContext(s, r, f)
  /\ f.kind # "message" => OwnsTask(s, r, f) /\ MovesTask(s, r, f)

UpdateTask(s, c, r, f) ==
  [tasks |-> IF f.kind \in {"task", "statusUpdate"}
             THEN Extend(s.tasks, <<r.peer, f.task>>,
                         [owner |-> r.owner, resource |-> r.resource,
                          context |-> f.context, state |-> f.state])
             ELSE s.tasks,
   contexts |-> IF f.context # NoContext /\ <<r.peer, f.context>> \notin DOMAIN s.contexts
                THEN Extend(s.contexts, <<r.peer, f.context>>,
                            [owner |-> r.owner, resource |-> r.resource])
                ELSE s.contexts,
   responses |-> IF c \in DOMAIN s.responses THEN s.responses
                 ELSE Extend(s.responses, c, TargetOf(f))]

\* The handler's commands about a dispatch (RuntimeCore.lean), by the kind of
\* event they leave.
Accepts(h, s, e) ==
  /\ Dispatched(h, e.id)
  /\ e.kind \in {"task_update", "reconciled"} => MayUpdate(s, e.id, RequestOf(h, e.id), e.frame)
  /\ e.kind = "reconciled" => ~Has(h, e.id, SettledKinds)
  /\ e.kind \in OutcomeKinds => ~Has(h, e.id, OutcomeKinds \cup {"reconciled"})

Apply(h, s, e) ==
  IF e.kind \in {"task_update", "reconciled"}
  THEN UpdateTask(s, e.id, RequestOf(h, e.id), e.frame)
  ELSE s
===============================================================================
