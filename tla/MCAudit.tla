-------------------------------- MODULE MCAudit -------------------------------
(***************************************************************************)
(* Short conversations for TLC.  The initial state picks messages with two *)
(* calls and any results, or longer conversations of one call at a time,   *)
(* about the objects of one domain, or the rows of a dataset.              *)
(***************************************************************************)
EXTENDS Audit, TrajectoryData

CONSTANTS o1, r1, l1, b1, u1, u2, f1, id1

VARIABLE instance

Kinds == [o \in {o1, r1, l1, b1, u1, u2, f1} |->
            CASE o = o1 -> "orders" [] o = r1 -> "reservations" [] o = l1 -> "lines"
              [] o = b1 -> "bills" [] o = f1 -> "flights" [] OTHER -> "users"]
Owners == [r \in {r1} |-> u1]

\* What the messages hold: the calls by domain and role, and the results.
InPairs(c) == c.valid /\ c.tool \in {"read", "write"} /\ c.object = o1
Alone(c) == /\ c.id = id1 /\ (c.valid \/ c.tool = "write")
            /\ c.tool \in {"unknown", "device", "make_payment"} => c.object = NoObject

Of(d, Fits(_)) ==
  [agent |-> {c \in Calls : Fits(c) /\ Offered(d, c) /\ ByAgent(c)},
   customer |-> {c \in Calls : Fits(c) /\ Offered(d, c) /\ ~ByAgent(c)}]

Table(Fits(_)) ==
  [airline |-> Of("airline", Fits), retail |-> Of("retail", Fits), telecom |-> Of("telecom", Fits)]

Pairs == [sizes |-> {2}, calls |-> Table(InPairs), most |-> 2,
          results |-> {r \in Responses : r.name \in {"", "read", "write"} /\ ~r.failed}]
Alternation == [sizes |-> {1}, calls |-> Table(Alone), most |-> 1,
                results |-> {r \in Responses : r.id = id1 /\ r.name = ""}]
Instances == [pairs |-> Pairs, alternation |-> Alternation]

MCInit ==
  /\ Init
  /\ \/ /\ instance \in DOMAIN Instances
        /\ rollout = << >> /\ branches = {} /\ additional = << >> /\ rows = << >>
     \/ instance = "rows" /\ domain = "retail" /\ DataInit

Reads(role, n, m) ==
  /\ todo = << >> /\ count + n <= MaxCalls
  /\ \E calls \in [1..n -> Instances[instance].calls[domain][role]],
        responses \in [1..m -> Instances[instance].results] :
          ReadMessage(role = "agent", calls, responses)

Converses ==
  \/ UserCall \/ AgentCall
  \/ /\ instance = "alternation"
     /\ \E names \in {{u1}, {u2}, {u1, u2}} : UserSpeaks(names)
  \/ \E role \in {"agent", "customer"}, n \in Instances[instance].sizes,
        m \in 0..Instances[instance].most : Reads(role, n, m)

MCNext ==
  /\ UNCHANGED instance
  /\ IF instance = "rows" THEN ReadRow /\ UNCHANGED vars ELSE Converses /\ UNCHANGED dataVars

MCSpec == MCInit /\ [][MCNext]_<<vars, dataVars, instance>>
===============================================================================
