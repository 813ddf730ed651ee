--------------------------------- MODULE Audit ---------------------------------
(***************************************************************************)
(* The offline audit of a recorded conversation: replay of                 *)
(* scripts/experiments/trajectory_replay.py.  Messages are read in order,  *)
(* recorded results are paired with their calls, and each call of the      *)
(* agent is judged from what earlier results showed.  No tool is run: the  *)
(* recorded world is only known through results, so what a cached result   *)
(* still says of it is a history variable.                                 *)
(*                                                                         *)
(* Values are abstract: a cell is one object, its fields that any change   *)
(* elsewhere may touch apart (payment methods and bill ids of a user,      *)
(* seats and prices of a flight, data used on a line).                     *)
(***************************************************************************)
EXTENDS Naturals, Sequences, FiniteSets

CONSTANTS
  Objects,       \* ids
  Collection,    \* their collections
  Owner,         \* of each reservation
  Ids, NoId,     \* call and response ids
  MaxCalls       \* bound: calls of a conversation

Collections == {"orders", "reservations", "lines", "bills", "users", "flights"}

ASSUME AuditAssumption ==
  /\ Collection \in [Objects -> Collections]
  /\ NoId \notin Ids /\ "" \notin Objects /\ "public" \notin Objects
  /\ Owner \in [{o \in Objects : Collection[o] = "reservations"} ->
                {o \in Objects : Collection[o] = "users"}]
  /\ MaxCalls \in Nat

In(collection) == {o \in Objects : Collection[o] = collection}
Users == In("users")
NoUser == ""

Cell(o, part) == [object |-> o, part |-> part]
Whole(o) == {Cell(o, "fixed")} \cup
            (IF Collection[o] \in {"users", "lines", "flights"} THEN {Cell(o, "volatile")} ELSE {})
Cells == UNION {Whole(o) : o \in Objects}
VolatileOf(collection) == {Cell(o, "volatile") : o \in In(collection)}

\* The agent reads or writes an object, looks a user up, or runs code; the
\* customer acts on the device, or pays.
Tools == {"read", "write", "lookup", "usage", "unknown", "device", "make_payment"}
NoObject == ""
Calls == [tool : Tools, object : Objects \cup {NoObject}, id : Ids \cup {NoId}, valid : BOOLEAN]
Responses == [name : Tools \cup {""}, id : Ids \cup {NoId}, failed : BOOLEAN]
NoResponse == [name |-> "", id |-> NoId, failed |-> TRUE]

VARIABLES
  domain,
  todo,          \* calls of the message under way, with their results
  agents,        \* that message is the agent's
  known,         \* cached cells
  lookups,       \* users whose lookup was answered
  customer,
  supplied,      \* users the customer's text names
  history,       \* newest first
  count,         \* calls seen
  current,       \* history variable: cells seen since the last call that may change them
  overlooked,    \* history variable: cells that a write may change and invalidate leaves cached
  verdict        \* history variable: what the last verdict was told, and what was so

vars == <<domain, todo, agents, known, lookups, customer, supplied, history, count,
          current, overlooked, verdict>>

-------------------------------------------------------------------------------
\* Pairing calls with results: paired_responses

\* The response of each call, or 0: the only one left with the call's id.
ById(calls, responses) ==
  LET pair[i \in DOMAIN calls] ==
        LET matches == {j \in DOMAIN responses : /\ \A k \in 1..(i - 1) : pair[k] # j
                                                 /\ calls[i].id # NoId
                                                 /\ responses[j].id = calls[i].id}
        IN  IF Cardinality(matches) = 1 THEN CHOOSE j \in matches : TRUE ELSE 0
  IN  pair

InPlace_AnyId(call, response) == response.name \in {"", call.tool}
InPlace(call, response) == response.id = NoId /\ response.name \in {"", call.tool}

Paired(calls, responses) ==
  LET byId == ById(calls, responses)
      used == {byId[i] : i \in DOMAIN byId}
  IN  [i \in DOMAIN calls |->
         IF byId[i] = 0 /\ Len(calls) = Len(responses) /\ i \notin used
            /\ InPlace(calls[i], responses[i])
         THEN i ELSE byId[i]]

\* A message with calls, and the tool messages that follow it.
ReadMessage(mine, calls, responses) ==
  LET pairs == Paired(calls, responses)
  IN  /\ todo = << >> /\ count + Len(calls) <= MaxCalls
      /\ todo' = [i \in DOMAIN calls |->
                    [call |-> calls[i], place |-> i, of |-> Len(calls), from |-> Len(responses),
                     at |-> pairs[i],
                     result |-> IF pairs[i] = 0 THEN NoResponse ELSE responses[pairs[i]]]]
      /\ agents' = mine
      /\ UNCHANGED <<domain, known, lookups, customer, supplied, history, count, current,
                     overlooked, verdict>>

-------------------------------------------------------------------------------
\* What the audit knows

\* user_message: in an airline conversation the text may say who the customer is.
UserSpeaks(names) ==
  /\ todo = << >>
  /\ supplied' = supplied \cup names
  /\ customer' = IF domain = "airline" /\ customer = NoUser /\ Cardinality(names) = 1
                 THEN CHOOSE u \in names : TRUE ELSE customer
  /\ UNCHANGED <<domain, todo, agents, known, lookups, history, count, current, overlooked, verdict>>

Supplied_Any(u) == u # NoUser
Supplied(u) == u \in supplied

Named(call, collection) == call.object # NoObject /\ Collection[call.object] = collection

\* facts decides who the customer is, and whether that came from the customer.
Candidate(call) ==
  IF Named(call, "users") THEN call.object
  ELSE IF Named(call, "reservations") /\ Cell(call.object, "fixed") \in known
  THEN Owner[call.object] ELSE NoUser

\* An id in the arguments takes the place of a missing customer; so does, without
\* one, the owner of an observed reservation.
Customer(call) ==
  IF domain = "airline" /\ customer = NoUser /\ call.tool # "lookup" /\ Supplied(Candidate(call))
  THEN Candidate(call) ELSE customer

Identity(call) ==
  /\ domain = "airline"
  /\ IF Named(call, "users") /\ Supplied(call.object)
     THEN Customer(call) = call.object
     ELSE Supplied(Customer(call))

Answered(call) == call.tool = "lookup" /\ call.object \in lookups

\* A lookup goes by another key, and is about a user only once it was answered.
Resource(call) ==
  IF call.tool = "lookup" THEN IF Answered(call) THEN call.object
                               ELSE IF customer = NoUser THEN "public" ELSE customer
  ELSE IF call.object # NoObject THEN call.object
  ELSE IF Customer(call) # NoUser THEN Customer(call) ELSE "public"

\* Everything of a collection that the customer's record lists, or nothing.
Listed(call, part, collection) ==
  IF /\ Customer(call) # NoUser /\ Cell(Customer(call), part) \in known
     /\ \A o \in In(collection) : Cell(o, "fixed") \in known
  THEN UNION {Whole(o) : o \in In(collection)} ELSE {}

\* The cells among the facts of a verdict.
Facts(call) ==
  LET mine == IF Customer(call) = NoUser THEN {} ELSE Whole(Customer(call))
      other == CASE domain = "airline" ->
                      UNION {Whole(f) : f \in In("flights")} \cup
                      (IF Named(call, "reservations") THEN Whole(call.object) ELSE {})
                 [] domain = "retail" ->
                      IF Named(call, "orders") THEN Whole(call.object) ELSE {}
                 [] domain = "telecom" ->
                      (IF Named(call, "lines") \/ Named(call, "bills")
                         THEN Whole(call.object) ELSE {}) \cup
                      Listed(call, "volatile", "bills") \cup Listed(call, "fixed", "lines")
  IN  known \cap (mine \cup other)

\* A failed write may have written in part, and unknown code anything.
Forgotten_IfDone(call, result) ==
  IF call.tool = "unknown" THEN Cells
  ELSE IF call.tool = "write" /\ ~result.failed
  THEN (IF call.object \in Objects \ (Users \cup In("flights")) THEN Whole(call.object) ELSE {})
       \cup VolatileOf("users") \cup VolatileOf("flights")
  ELSE {}

Forgotten(call, result) ==
  IF call.tool = "unknown" THEN Cells
  ELSE IF call.tool = "write"
  THEN (IF call.object \in Objects \ (Users \cup In("flights")) THEN Whole(call.object) ELSE {})
       \cup VolatileOf("users") \cup VolatileOf("flights")
  ELSE {}

\* What a result shows: the object read or written, all of its fields (of a user,
\* only retail has a write that returns the record); the usage of a line only goes
\* into a line that is known.
Shown(call) ==
  CASE call.tool = "read" /\ call.object # NoObject -> Whole(call.object)
    [] call.tool = "write" /\ call.object # NoObject
       /\ (Named(call, "users") => domain = "retail") -> Whole(call.object)
    [] call.tool = "usage" /\ Named(call, "lines") /\ Cell(call.object, "fixed") \in known ->
         {Cell(call.object, "volatile")}
    [] call.tool = "lookup" /\ domain = "telecom" /\ call.object # NoObject -> Whole(call.object)
    [] OTHER -> {}

Bills == UNION {Whole(b) : b \in In("bills")}

\* In the recorded world: a write changes its object, the money, the seats and,
\* when it is charged, a bill; a customer's own action the usage, or the bills.
MayChange(call) ==
  CASE call.tool = "unknown" -> Cells
    [] call.tool = "write" ->
         (IF call.object = NoObject THEN {} ELSE Whole(call.object))
         \cup VolatileOf("users") \cup VolatileOf("flights") \cup Bills
    [] call.tool = "device" -> VolatileOf("lines")
    [] call.tool = "make_payment" -> VolatileOf("lines") \cup Bills
    [] OTHER -> {}

\* Of that, what invalidate leaves in the cache: the record of a user that the
\* write names, and the bills that it does not name.
Overlooked(call) ==
  IF call.tool = "write"
  THEN {c \in Cells : \/ c.object = call.object /\ c.object \in Users /\ c.part = "fixed"
                      \/ c.object # call.object /\ c \in Bills}
  ELSE {}

-------------------------------------------------------------------------------
\* One call

Event(kind, resource, number) == [kind |-> kind, resource |-> resource, number |-> number]

\* The customer's tools act on the world, and are no evidence of it.
UserCall ==
  /\ todo # << >> /\ ~agents
  /\ LET call == Head(todo).call
         paid == IF call.tool = "make_payment" THEN Bills ELSE {}
     IN  /\ known' = known \ (VolatileOf("lines") \cup paid)
         /\ current' = current \ MayChange(call)
         /\ history' = <<Event("user_action", IF customer = NoUser THEN "public" ELSE customer,
                               count)>> \o history
  /\ todo' = Tail(todo) /\ count' = count + 1
  /\ UNCHANGED <<domain, agents, lookups, customer, supplied, overlooked, verdict>>

OutcomeOf(result) == IF result.failed THEN "failure" ELSE "success"

\* A lookup's resource is known at its outcome: the request and the dispatch, the
\* two newest events, get it too.
Renamed_DispatchOnly(events, resource) == [events EXCEPT ![1].resource = resource]
Renamed(events, resource) ==
  [events EXCEPT ![1].resource = resource, ![2].resource = resource]

\* The facts and the verdict, the dispatch, what it may have changed, the outcome.
AgentCall ==
  /\ todo # << >> /\ agents
  /\ LET step == Head(todo)
         call == step.call
         result == step.result
         who == Customer(call)
         resource == Resource(call)
         first == ~\E i \in DOMAIN history : history[i].kind = "identity" /\ history[i].resource = who
         told == (IF Identity(call) /\ first THEN <<Event("identity", who, count)>> ELSE << >>)
                 \o history
         ran == <<Event("dispatch", resource, count), Event("request", resource, count)>> \o told
         ingests == /\ step.at # 0 /\ ~result.failed
                    /\ call.tool # "unknown" /\ call.valid
         answers == ingests /\ call.tool = "lookup" /\ call.object # NoObject
         named == IF answers THEN call.object ELSE resource
         kept == known \ Forgotten(call, result)
         shown == IF ingests THEN Shown(call) ELSE {}
     IN  /\ verdict' = [facts |-> Facts(call), current |-> current, overlooked |-> overlooked]
         /\ known' = kept \cup shown
         /\ current' = (current \ MayChange(call)) \cup shown
         /\ overlooked' = (overlooked \cup Overlooked(call)) \ shown
         /\ lookups' = (IF call.tool = "unknown" THEN {} ELSE lookups)
                       \cup (IF answers THEN {call.object} ELSE {})
         /\ customer' = IF answers /\ who = NoUser THEN call.object ELSE who
         /\ history' = IF step.at = 0 THEN ran
                       ELSE <<Event(OutcomeOf(result), named, count)>> \o
                            (IF named = resource THEN ran ELSE Renamed(ran, named))
  /\ todo' = Tail(todo) /\ count' = count + 1
  /\ UNCHANGED <<domain, agents, supplied>>

Init ==
  /\ domain \in {"airline", "retail", "telecom"}
  /\ todo = << >> /\ agents = TRUE
  /\ known = {} /\ lookups = {} /\ customer = NoUser /\ supplied = {}
  /\ history = << >> /\ count = 0
  /\ current = {} /\ overlooked = {}
  /\ verdict = [facts |-> {}, current |-> {}, overlooked |-> {}]

\* Who offers which tools for what.
Served == [airline |-> {"reservations", "users", "flights"}, retail |-> {"orders", "users"},
           telecom |-> {"lines", "bills", "users"}]

Offered(d, call) ==
  /\ call.object # NoObject => Collection[call.object] \in Served[d]
  /\ call.tool = "write" /\ call.object # NoObject =>
       /\ Collection[call.object] # "flights"
       /\ Collection[call.object] = "users" => d # "telecom"
  /\ call.tool = "lookup" => d # "airline" /\ call.object \in Users \cup {NoObject}
  /\ call.tool \in {"usage", "device", "make_payment"} => d = "telecom"

ByAgent(call) == call.tool \notin {"device", "make_payment"}

Next ==
  \/ UserCall \/ AgentCall
  \/ \E names \in SUBSET Users : UserSpeaks(names)
  \/ \E mine \in BOOLEAN, n \in 1..MaxCalls, m \in 0..MaxCalls :
       \E calls \in [1..n -> {c \in Calls : Offered(domain, c) /\ ByAgent(c) = mine}] :
         \E responses \in [1..m -> Responses] : ReadMessage(mine, calls, responses)

Spec == Init /\ [][Next]_vars

-------------------------------------------------------------------------------
\* Properties

\* No verdict rests on a fact that may be out of date: whatever a write, unknown
\* code or the customer may have changed since it was recorded was forgotten, also
\* when the result failed or is missing.  What Overlooked names is the exception,
\* until it is seen again (trajectory_replay.py:170-267, 480-615).
NoStaleFacts == verdict.facts \ verdict.overlooked \subseteq verdict.current

\* A write invalidates what it may have changed, the customer's own record too, even
\* when it returned an error (scripts/experiments/README.md:185-187); it is kept
\* but for its payment methods and bills (trajectory_replay.py:253-263).
WritesInvalidateUsers ==
  verdict.facts \cap UNION {Whole(u) : u \in Users} \subseteq verdict.current

\* A pair is either the one with the call's id or, in a complete batch, the one in
\* its place that has no id and no other name.
Answers(step) ==
  \/ step.call.id # NoId /\ step.result.id = step.call.id
  \/ /\ step.at = step.place /\ step.of = step.from
     /\ step.result.id = NoId /\ step.result.name \in {"", step.call.tool}

\* The history the engine judges by is evidence: a customer is identified only by
\* an id that their own text gave, and each outcome follows its dispatch and request
\* and is about the same resource as they.  No recorded result is given to two calls;
\* it has its call's id, or no id and its place in a complete batch; and of the calls
\* that share an id one at most is given a result by it.  When such calls have one
\* result the first takes it: it is not left unpaired as ambiguous
\* (trajectory_replay.py:85-112, 480-615).
HistoryIsEvidence ==
  /\ \A i \in DOMAIN history :
       /\ history[i].kind = "identity" => history[i].resource \in supplied
       /\ history[i].kind \in {"success", "failure"} =>
            /\ history[i + 1] = Event("dispatch", history[i].resource, history[i].number)
            /\ history[i + 2] = Event("request", history[i].resource, history[i].number)
  /\ \A i, k \in DOMAIN todo :
       /\ todo[i].at # 0 /\ i # k => todo[i].at # todo[k].at
       /\ todo[i].at # 0 => Answers(todo[i])
       /\ todo[i].at # 0 /\ todo[k].at # 0 /\ i # k /\ todo[i].result.id # NoId
            => todo[i].result.id # todo[k].result.id
===============================================================================
