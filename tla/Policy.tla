-------------------------------- MODULE Policy --------------------------------
(***************************************************************************)
(* The policy predicates of LeanGuard/Policy.lean and the built-in         *)
(* "example" pack of LeanGuard/Builtins.lean, as operators on a history.   *)
(*                                                                         *)
(* The engine keeps its history as a list of events, newest first.  Here a *)
(* history is a sequence of entries, oldest first, with one entry for each *)
(* command the engine accepted.  An admission adds a request event and,    *)
(* when it is allowed, a dispatch event with the same fields right after   *)
(* it, so one entry of kind "admit" stands for both: its field allow says  *)
(* whether the dispatch is there.  Every other command adds one event.     *)
(*                                                                         *)
(* The principal is left out: a journal is pinned to one (host.py:117-120),*)
(* so samePrincipal always holds within a history.                         *)
(***************************************************************************)
EXTENDS Integers, Sequences, FiniteSets, Functions

CONSTANTS
  Sessions,      \* conversations of the one principal
  Resources,     \* resources an adapter's snapshot may name
  Values,        \* contents of the backend
  Amounts,       \* amounts a write may carry
  Ids,           \* request ids, chosen by the caller or fresh
  Tokens,        \* proposal tokens; the binding digest covers the token,
                 \* so the token stands for the binding
  NoId, NoToken, NoValue,
  QuotaCalls, QuotaAmount, QuotaWindow   \* the three arguments of quota

ASSUME PolicyAssumption ==
  /\ NoId \notin Ids
  /\ NoToken \notin Tokens
  /\ NoValue \notin Values
  /\ Amounts \subseteq Nat
  /\ QuotaCalls \in Nat /\ QuotaAmount \in Nat /\ QuotaWindow \in Nat

-------------------------------------------------------------------------------
\* Calls and history entries

Reads  == [action: {"read"},  resource: Resources, value: {NoValue}, amount: {0}]
Writes == [action: {"write"}, resource: Resources, value: Values, amount: Amounts]
Calls  == Reads \cup Writes

\* What a confirmation or a trusted observation says of a call: the action
\* and the resource, and none of the arguments.
Subjects == [action: {"read", "write", "user"}, resource: Resources,
             value: {NoValue}, amount: {0}]

OutcomeKinds == {"success", "failure", "unknown"}
TrustedKinds == {"confirmed", "revoked", "identity", "user_action"}

Entries == [kind: {"admit"} \cup OutcomeKinds \cup TrustedKinds,
            id: Ids \cup {NoId},
            session: Sessions,
            call: Calls \cup Subjects,
            binding: Tokens \cup {NoToken},
            time: Nat,
            allow: BOOLEAN]

IsDispatch(e) == e.kind = "admit" /\ e.allow

-------------------------------------------------------------------------------
\* Correlation between the request r under decision and an earlier entry e

SameConversation(r, e) == r.session = e.session
SameResource(r, e) == r.call.resource = e.call.resource

ConfirmedEvent(r, e) ==
  /\ SameConversation(r, e)
  /\ e.kind = "confirmed"
  /\ e.call.action = r.call.action
  /\ SameResource(r, e)
  /\ e.binding = r.binding
  /\ r.binding # NoToken

RevokedEvent(r, e) ==
  SameConversation(r, e) /\ e.kind = "revoked" /\ e.binding = r.binding

UsedConfirmation(r, e) ==
  SameConversation(r, e) /\ IsDispatch(e) /\ e.binding = r.binding

-------------------------------------------------------------------------------
\* The temporal checks of the pack.  Each is the closed form of its formula on
\* the history h that precedes the request: `previous` steps past the request,
\* `once` and `since` range over the older entries, and the "not in the future"
\* half of inWindow holds because entry times never decrease.

Confirmed_IgnoresRevocation(h, r) ==
  /\ \E i \in DOMAIN h : ConfirmedEvent(r, h[i])
  /\ \A j \in DOMAIN h : ~UsedConfirmation(r, h[j])

Confirmed_Reusable(h, r) ==
  \E i \in DOMAIN h :
    /\ ConfirmedEvent(r, h[i])
    /\ \A j \in (i + 1)..Len(h) : ~RevokedEvent(r, h[j])

Confirmed(h, r) ==
  /\ \E i \in DOMAIN h :
       /\ ConfirmedEvent(r, h[i])
       /\ \A j \in (i + 1)..Len(h) : ~RevokedEvent(r, h[j])
  /\ \A j \in DOMAIN h : ~UsedConfirmation(r, h[j])

Observed(h, r) ==
  \E i \in DOMAIN h :
    /\ SameResource(r, h[i])
    /\ SameConversation(r, h[i])
    /\ h[i].kind = "success"
    /\ h[i].call.action = "read"

InQuotaWindow(r, e) ==
  IsDispatch(e) /\ e.time <= r.time /\ r.time - e.time <= QuotaWindow

Matching(h, r) == {i \in DOMAIN h : InQuotaWindow(r, h[i])}
TotalAmount(h, S) == SumFunctionOnSet([i \in DOMAIN h |-> h[i].call.amount], S)

Quota_ForgetsRequest(h, r) ==
  /\ Cardinality(Matching(h, r)) < QuotaCalls
  /\ TotalAmount(h, Matching(h, r)) <= QuotaAmount

Quota(h, r) ==
  /\ Cardinality(Matching(h, r)) < QuotaCalls
  /\ TotalAmount(h, Matching(h, r)) + r.call.amount <= QuotaAmount

\* Any outcome but "unknown" releases the flight.

Released(h, i) ==
  \E j \in DOMAIN h : h[j].id = h[i].id /\ h[j].kind \in {"success", "failure"}

SingleFlight_ConversationOnly(h, r) ==
  \A i \in DOMAIN h :
    IsDispatch(h[i]) /\ SameConversation(r, h[i]) => Released(h, i)

SingleFlight(h, r) ==
  \A i \in DOMAIN h :
    /\ IsDispatch(h[i])
    /\ SameConversation(r, h[i]) \/ SameResource(r, h[i])
    => Released(h, i)

\* decidePolicy on the example pack: both actions are permitted, a write has
\* three requirements of its own, and no rule forbids.
Decide(h, r) ==
  /\ r.call.action \in {"read", "write"}
  /\ r.call.action = "write" => /\ Confirmed(h, r)
                                /\ Observed(h, r)
                                /\ Quota(h, r)
  /\ SingleFlight(h, r)
===============================================================================
