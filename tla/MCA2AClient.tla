------------------------------ MODULE MCA2AClient ------------------------------
(***************************************************************************)
(* Several small instances of A2AClient, which one run checks: the initial *)
(* state picks one, and its record bounds requests, frames and failures.   *)
(***************************************************************************)
EXTENDS A2AClient

CONSTANTS o1, o2, p1, r1, k1, x1, x2, m1, m2

VARIABLE instance

Ask(op, stream, owner, task, message) ==
  [op |-> op, stream |-> stream, owner |-> owner, peer |-> p1, resource |-> r1,
   task |-> task, context |-> NoContext, message |-> message]

\* Two owners open tasks with one peer, which may name either in its replies.
Rivals ==
  [menu |-> {Ask("a2a.send", FALSE, o1, NoTask, m1), Ask("a2a.send", FALSE, o2, NoTask, m2),
             Ask("a2a.get", FALSE, o1, k1, NoMessage)},
   calls |-> 2, contexts |-> {x1, x2}, phases |-> {"working"}, frames |-> 2, faults |-> 0]

\* A task that is polled and continued.
Polls ==
  [menu |-> {Ask("a2a.send", FALSE, o1, NoTask, m1), Ask("a2a.get", FALSE, o1, k1, NoMessage),
             Ask("a2a.send", FALSE, o1, k1, m2)},
   calls |-> 3, contexts |-> {x1}, phases |-> {"working", "rejected"}, frames |-> 2,
   faults |-> 0]

\* A task followed by a stream, a poll or a continuation, while something fails.
Streams ==
  [menu |-> {Ask("a2a.send", TRUE, o1, NoTask, m1), Ask("a2a.subscribe", TRUE, o1, k1, NoMessage),
             Ask("a2a.get", FALSE, o1, k1, NoMessage), Ask("a2a.send", FALSE, o1, k1, m2)},
   calls |-> 2, contexts |-> {x1}, phases |-> {"working", "rejected"}, frames |-> 2,
   faults |-> 1]

AllMenus == UNION {i.menu : i \in {Rivals, Polls, Streams}}

FitsInstance(e) ==
  /\ e.kind = "dispatch" => e.request \in instance.menu
  /\ e.frame # NoFrame => /\ e.frame.context \in instance.contexts \cup {NoContext}
                          /\ e.frame.state \in instance.phases \cup {NoPhase}

Within ==
  /\ journal # << >> => FitsInstance(journal[Len(journal)])
  /\ Cardinality({c \in Calls : pc[c] # "new"}) <= instance.calls
  /\ frames <= instance.frames /\ faults <= instance.faults

MCInit == Init /\ instance \in {Rivals, Polls, Streams}

MCNext == UNCHANGED instance /\ Next /\ Within'

MCSpec == MCInit /\ [][MCNext]_<<vars, instance>> /\ Fairness
===============================================================================
