--------------------------- MODULE MCHostInstances ----------------------------
(***************************************************************************)
(* Small instances of GuardHost for TLC.  One run checks several of them:  *)
(* a state is explored further if it is within one of the records below,   *)
(* which bound what is called, who calls, and what fails.  Bounds on       *)
(* threads and contents count those in use, which keeps them               *)
(* interchangeable.                                                        *)
(***************************************************************************)
EXTENDS GuardHost, FiniteSets, TLC

CONSTANTS h1, h2, c1, c2, c3, s1, s2

TwoHosts == [c \in Callers |-> IF c = c3 THEN h2 ELSE h1]

\* One thread, every operation and two failures anywhere.
Faults == [ops |-> Ops, threads |-> 1, hosts |-> {h1}, values |-> 1,
           starts |-> 3, faults |-> 2, writes |-> 0, installs |-> TRUE]

\* Two threads and a writer to the backend.
Approval == [ops |-> {"prepare", "confirm", "execute"}, threads |-> 2, hosts |-> {h1},
             values |-> 2, starts |-> 4, faults |-> 0, writes |-> 1,
             installs |-> FALSE]

\* Two hosts race to open, close and crash on one database.
Rivals == [ops |-> {"execute", "observe", "close"}, threads |-> 1, hosts |-> {h1, h2},
           values |-> 1, starts |-> 3, faults |-> 2, writes |-> 0,
           installs |-> FALSE]

\* A host closes while its threads run tools.
Shutdown == [ops |-> {"execute", "close", "observe"}, threads |-> 2, hosts |-> {h1},
             values |-> 1, starts |-> 3, faults |-> 1, writes |-> 0,
             installs |-> FALSE]

Threads == {c \in {c1, c2} : pc[c] # "idle"}
InUse == {content} \cup {ctx[c].call.value : c \in {d \in Callers : ctx[d].call # NoCall}}

BinariesInUse == ({installed, pin.engine} \cup {running[h] : h \in Hosts}) \ {NoBinary}

Within(instance) ==
  /\ Cardinality(Threads) <= instance.threads
  /\ \A c \in Callers : ctx[c].op \in instance.ops \cup {"none"}
  /\ "prepare" \in instance.ops \/ \A t \in Tokens : proposals[t] = NoProposal
  /\ "prepare" \in instance.ops \/ \A c \in Callers : ctx[c].token = NoToken
  /\ "user" \in instance.ops \/ \A i \in DOMAIN journal : journal[i].kind # "user_action"
  /\ \A h \in Hosts : phase[h] # "closed" => h \in instance.hosts
  /\ session[h1] = s2 => h2 \in instance.hosts
  /\ Cardinality(InUse \cap Values) <= instance.values
  /\ starts <= instance.starts /\ faults <= instance.faults /\ writes <= instance.writes
  /\ instance.installs \/ Cardinality(BinariesInUse) = 1

Fits == \E instance \in {Faults, Approval, Rivals, Shutdown} : Within(instance)

FitsNext == Fits'

Symmetry == Permutations(Ids) \cup Permutations(Tokens) \cup Permutations(Values)
              \cup Permutations(Binaries) \cup Permutations({c1, c2})
===============================================================================
