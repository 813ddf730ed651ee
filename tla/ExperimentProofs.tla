---------------------------- MODULE ExperimentProofs ----------------------------
(***************************************************************************)
(* Proofs about Experiment, for any number of jobs and workers and any     *)
(* bounds: types, approval of writes, what is scored, and that a halt is   *)
(* final.  A worker's step touches the local state of one episode, so the  *)
(* invariant has a part about one episode and a part about the batch.      *)
(***************************************************************************)
EXTENDS SavedRuns, DataLemmas, TLAPS, SequenceTheorems, FiniteSetTheorems

Episodes ==
  [pc: Places, attempt: Nat, turns: Nat, burst: Nat, handoff: BOOLEAN, write: BOOLEAN,
   tries: {0, 1}, approved: BOOLEAN, said: {"nothing", "yes", "no"},
   host: {"none", "open", "closed"}, error: ErrorKinds, calls: Seq(CallRecords),
   scored: BOOLEAN, journal: {"none", "unpinned", "pinned"},
   trajectory: {"none", "torn", "whole"}]

EndPlaces == {"finally", "done", "raised"}

\* What is written down of a call is true, and a write that ran had its yes.
Truthful(call) ==
  /\ call.recorded => (call.dispatched <=> call.ran)
  /\ call.ran /\ call.write => call.said = "yes"

\* A verdict on the score stands at the end of an episode and rests on its calls.
Judged(e) ==
  /\ e.scored => e.pc \in EndPlaces /\ Kept(e) = Ran(e)
  /\ e.error = "replay" => /\ e.pc \in EndPlaces
                           /\ \E i \in DOMAIN e.calls : ~e.calls[i].recorded

EpisodeOK(e) ==
  /\ e \in Episodes
  /\ e.approved => e.said = "yes"
  /\ \A i \in DOMAIN e.calls : Truthful(e.calls[i])
  /\ Judged(e)
  /\ e.pc = "done" => e.host # "open"

\* Where a worker stands between two steps, and where it has begun one it looked for.
Begun == {"generating", "replying", "calling", "acting"}
Quiet == {"new", "queued", "agent", "customer", "tool", "device", "scoring"} \cup EndPlaces

\* How many steps a worker that stands here may have begun after the stop.  A worker
\* that has looked at the flag and not yet begun saw it down; a guarded one then may
\* ask twice for a confirmation before it dispatches; and all end with a judge.
AfterTurn(j) == IF Modes[j] = "guarded" THEN 3 ELSE 1

Allowed(j, e) ==
  IF e.pc \in Begun THEN 0
  ELSE IF e.pc = "confirming" THEN e.tries
  ELSE IF e.pc = "executing" THEN 2
  ELSE IF e.pc \in EndPlaces THEN AfterTurn(j) + 1
  ELSE AfterTurn(j)

LateOK ==
  \A j \in Jobs :
    /\ late[j] > 0 => stopped
    /\ late[j] <= Allowed(j, episode[j])
    /\ episode[j].pc \in {"confirming", "executing"} => Modes[j] = "guarded"

\* One halt at most, and the flag is set exactly by it.
HaltOK ==
  /\ halts \in {0, 1}
  /\ stopped <=> halts = 1
  /\ coordinator \notin {"unwind", "raised"} => (halted <=> halts = 1)

BatchTypeOK ==
  /\ stopped \in BOOLEAN /\ halted \in BOOLEAN
  /\ coordinator \in {"fill", "wait", "collect", "unwind", "returned", "raised"}
  /\ submitted \in 0..Len(Modes)
  /\ pending \subseteq 1..submitted /\ arrived \subseteq 1..submitted
  /\ results \in Seq(Jobs)
  /\ faults \in 0..MaxFaults
  /\ DOMAIN episode = Jobs
  /\ late \in [Jobs -> Nat]

XInv ==
  /\ BatchTypeOK
  /\ HaltOK
  /\ LateOK
  /\ \A j \in Jobs : EpisodeOK(episode[j])

-------------------------------------------------------------------------------
\* The jobs are the numbers up to the length of the plan.
LEMMA JobNumbers == Len(Modes) \in Nat /\ Jobs = 1..Len(Modes)
  BY ExperimentAssumption, LenProperties DEF Jobs

LEMMA NewEpisodeOK == EpisodeOK(NewEpisode) /\ EpisodeOK([NewEpisode EXCEPT !.pc = "queued"])
<1>1. << >> \in Seq(CallRecords) /\ DOMAIN << >> = {}
  BY EmptySeq
<1>2. NewEpisode \in Episodes /\ [NewEpisode EXCEPT !.pc = "queued"] \in Episodes
  BY <1>1 DEF NewEpisode, Episodes, Places, Checkpoints, ErrorKinds
<1> QED
  BY <1>1, <1>2 DEF EpisodeOK, Judged, NewEpisode

\* A step that leaves the calls alone and passes no verdict.
LEMMA SameCalls ==
  ASSUME NEW e, EpisodeOK(e), e.pc \notin EndPlaces, NEW f \in Episodes,
         f.calls = e.calls, f.scored = e.scored, f.error # "replay",
         f.approved => f.said = "yes", f.pc # "done"
  PROVE  EpisodeOK(f)
  BY DEF EpisodeOK, Judged, Episodes

\* One more call, truthfully recorded.
LEMMA OneMoreCall ==
  ASSUME NEW e, EpisodeOK(e), e.pc \notin EndPlaces, NEW f \in Episodes,
         NEW call \in CallRecords, Truthful(call),
         f.calls = Append(e.calls, call), f.scored = e.scored, f.error # "replay",
         f.approved => f.said = "yes", f.pc # "done"
  PROVE  EpisodeOK(f)
<1>1. e.calls \in Seq(CallRecords) /\ ~e.scored
  BY DEF EpisodeOK, Judged, Episodes
<1>2. \A i \in DOMAIN f.calls : f.calls[i] = call \/ (i \in DOMAIN e.calls /\ f.calls[i] = e.calls[i])
  BY <1>1, AppendProperties, LenProperties
<1>3. \A i \in DOMAIN f.calls : Truthful(f.calls[i])
  BY <1>2 DEF EpisodeOK
<1> QED
  BY <1>1, <1>3 DEF EpisodeOK, Judged

\* A verdict, or a place among the last ones, with the calls as they were.
LEMMA SameVerdict ==
  ASSUME NEW e, EpisodeOK(e), e.pc \in EndPlaces, NEW f \in Episodes, f.pc \in EndPlaces,
         f.calls = e.calls, f.scored = e.scored, f.error = e.error,
         f.approved = e.approved, f.said = e.said, f.pc = "done" => f.host # "open"
  PROVE  EpisodeOK(f)
  BY DEF EpisodeOK, Judged, Kept, Ran, Writes, Blocked

-------------------------------------------------------------------------------
\* What a worker's step must show: a good local state, and no more late steps than the
\* place it comes to allows.
LEMMA WorkerStep ==
  ASSUME XInv, NEW j \in Jobs, NEW f, EpisodeOK(f), Becomes(j, f), UNCHANGED batch,
         faults' \in 0..MaxFaults,
         f.pc \in {"confirming", "executing"} => Modes[j] = "guarded",
         \/ late' = late /\ (stopped => Allowed(j, episode[j]) <= Allowed(j, f))
         \/ Begins(j) /\ Allowed(j, episode[j]) + 1 <= Allowed(j, f)
  PROVE  XInv'
<1>1. /\ DOMAIN episode' = Jobs /\ episode'[j] = f
      /\ \A i \in Jobs : i # j => episode'[i] = episode[i]
  BY DEF XInv, BatchTypeOK, Becomes
<1>2. HaltOK'
  BY DEF XInv, HaltOK, batch
<1>3. Allowed(j, episode[j]) \in Nat /\ Allowed(j, f) \in Nat
  <2>1. episode[j].tries \in {0, 1} /\ f.tries \in {0, 1}
    BY DEF XInv, EpisodeOK, Episodes
  <2> QED
    BY <2>1 DEF Allowed, AfterTurn
<1>4. late' \in [Jobs -> Nat] /\ LateOK'
  <2>1. /\ late \in [Jobs -> Nat] /\ stopped' = stopped
        /\ \A i \in Jobs :
             /\ late[i] > 0 => stopped
             /\ late[i] <= Allowed(i, episode[i])
             /\ episode[i].pc \in {"confirming", "executing"} => Modes[i] = "guarded"
    BY DEF XInv, BatchTypeOK, LateOK, batch
  <2>2. /\ late' \in [Jobs -> Nat]
        /\ \A i \in Jobs : i # j => late'[i] = late[i]
        /\ late'[j] > 0 => stopped
        /\ late'[j] <= Allowed(j, f)
    <3> DEFINE m == Allowed(j, episode[j])
               n == Allowed(j, f)
    <3>0. /\ m \in Nat /\ n \in Nat /\ late[j] \in Nat
          /\ late[j] <= m /\ (late[j] > 0 => stopped)
      BY <1>3, <2>1
    <3> HIDE DEF m, n
    <3>1. CASE late' = late /\ (stopped => m <= n)
      <4>1. CASE stopped
        BY <2>1, <3>0, <3>1, <4>1 DEF n
      <4>2. CASE ~stopped
        <5>1. late[j] = 0
          BY <3>0, <4>2
        <5> QED
          BY <2>1, <3>0, <3>1, <4>2, <5>1 DEF n
      <4> QED
        BY <4>1, <4>2
    <3>2. CASE Begins(j) /\ m + 1 <= n
      <4>1. CASE stopped
        <5>1. late' = [late EXCEPT ![j] = late[j] + 1]
          BY <3>2, <4>1 DEF Begins
        <5>2. late[j] + 1 \in Nat /\ late[j] + 1 <= n
          BY <3>0, <3>2
        <5> QED
          BY <2>1, <4>1, <5>1, <5>2 DEF n
      <4>2. CASE ~stopped
        <5>1. late' = [late EXCEPT ![j] = late[j]] /\ late[j] = 0
          BY <3>0, <3>2, <4>2 DEF Begins
        <5> QED
          BY <2>1, <3>0, <4>2, <5>1 DEF n
      <4> QED
        BY <4>1, <4>2
    <3> QED
      BY <3>1, <3>2 DEF m, n
  <2>3. ASSUME NEW i \in Jobs
        PROVE  /\ late'[i] > 0 => stopped'
               /\ late'[i] <= Allowed(i, episode'[i])
               /\ episode'[i].pc \in {"confirming", "executing"} => Modes[i] = "guarded"
    <3>1. CASE i = j
      BY <1>1, <2>1, <2>2, <3>1
    <3>2. CASE i # j
      <4>1. episode'[i] = episode[i] /\ late'[i] = late[i] /\ stopped' = stopped
        BY <1>1, <2>1, <2>2, <3>2
      <4> QED
        BY <2>1, <4>1
    <3> QED
      BY <3>1, <3>2
  <2>4. \A i \in Jobs : Allowed(i, episode[i])' = Allowed(i, episode'[i])
    BY DEF Allowed, AfterTurn
  <2> QED
    BY <2>2, <2>3, <2>4 DEF LateOK
<1>5. BatchTypeOK'
  BY <1>1, <1>4 DEF XInv, BatchTypeOK, batch
<1>6. \A i \in Jobs : EpisodeOK(episode'[i])
  BY <1>1 DEF XInv
<1> QED
  BY <1>2, <1>4, <1>5, <1>6 DEF XInv

\* A step to a place between two steps: begun where it was looked for, or where a
\* confirmed call is dispatched, or the judge's.
LEMMA WorkerQuiet ==
  ASSUME XInv, NEW j \in Jobs, NEW f, EpisodeOK(f), Becomes(j, f), UNCHANGED batch,
         faults' \in 0..MaxFaults, f.pc \in Quiet,
         episode[j].pc \in EndPlaces => f.pc \in EndPlaces,
         \/ late' = late /\ episode[j].pc \in Begun \cup Quiet
         \/ Begins(j) /\ episode[j].pc \in Begun \cup {"executing"}
         \/ Begins(j) /\ episode[j].pc = "scoring" /\ f.pc = "finally"
  PROVE  XInv'
<1>1. episode[j].pc = "executing" => Modes[j] = "guarded"
  BY DEF XInv, LateOK
<1>2. f.pc \notin {"confirming", "executing"} /\ f.pc \notin Begun
  BY DEF Quiet, EndPlaces, Begun
<1>3. \/ late' = late /\ (stopped => Allowed(j, episode[j]) <= Allowed(j, f))
      \/ Begins(j) /\ Allowed(j, episode[j]) + 1 <= Allowed(j, f)
  BY <1>1, <1>2 DEF Allowed, AfterTurn, Begun, Quiet, EndPlaces
<1> QED
  BY <1>2, <1>3, WorkerStep

\* A fault is counted within its bound.
LEMMA FaultCounts == XInv /\ (FaultHappens \/ UNCHANGED faults) => faults' \in 0..MaxFaults
  BY ExperimentAssumption DEF XInv, BatchTypeOK, FaultHappens

LEMMA HasEpisode == XInv => \A j \in Jobs : EpisodeOK(episode[j]) /\ episode[j] \in Episodes
  BY DEF XInv, EpisodeOK

LEMMA RaiseOK ==
  ASSUME NEW e, EpisodeOK(e), e.pc \notin EndPlaces,
         NEW kind \in ErrorKinds \ {"replay"}
  PROVE  EpisodeOK(Raise(e, kind)) /\ Raise(e, kind).pc \in Quiet
<1>1. e \in Episodes /\ "finally" \in Places
  BY DEF EpisodeOK, Places
<1>2. Raise(e, kind) \in Episodes
  BY <1>1 DEF Raise, Episodes
<1> QED
  <2> DEFINE f == Raise(e, kind)
  <2>1. /\ f.calls = e.calls /\ f.scored = e.scored /\ f.error = kind
        /\ f.approved = e.approved /\ f.said = e.said /\ f.pc = "finally"
    BY <1>1 DEF Raise, Episodes
  <2>2. e.approved => e.said = "yes"
    BY DEF EpisodeOK
  <2> HIDE DEF f
  <2>3. EpisodeOK(f)
    BY <1>2, <2>1, <2>2, SameCalls DEF f
  <2> QED
    BY <2>1, <2>3 DEF f, Quiet, EndPlaces

LEMMA MkdirFailsStep == ASSUME XInv, NEW j \in Jobs, MkdirFails(j) PROVE XInv'
<1> DEFINE f == [episode[j] EXCEPT !.pc = "raised"]
<1>1. f \in Episodes /\ EpisodeOK(episode[j]) /\ episode[j].pc = "queued"
  BY HasEpisode DEF MkdirFails, At, Episodes, Places
<1>2. EpisodeOK(f)
  BY <1>1, SameCalls DEF Episodes, EpisodeOK, Judged, EndPlaces
<1>3. Becomes(j, f) /\ f.pc \in Quiet /\ f.pc \in EndPlaces
  BY <1>1 DEF MkdirFails, Goto, Episodes, Quiet, EndPlaces
<1>4. episode[j].pc \in Quiet /\ late' = late /\ UNCHANGED batch /\ faults' \in 0..MaxFaults
  BY <1>1, FaultCounts DEF MkdirFails, Quiet
<1> QED
  BY <1>2, <1>3, <1>4, WorkerQuiet

LEMMA InitializeStep == ASSUME XInv, NEW j \in Jobs, Initialize(j) PROVE XInv'
<1> DEFINE e == episode[j]
           with(h) == [e EXCEPT !.host = h.host, !.journal = h.journal]
<1>1. e \in Episodes /\ EpisodeOK(e) /\ e.pc = "queued" /\ e.pc \notin EndPlaces
  BY HasEpisode DEF Initialize, At, EndPlaces
<1> HIDE DEF e
<1>2. ASSUME NEW h \in {Opened} \cup NotOpened
      PROVE  EpisodeOK(with(h)) /\ with(h).pc = "queued"
  <2>1. h.host \in {"none", "open"} /\ h.journal \in {"none", "unpinned", "pinned"}
    BY DEF Opened, NotOpened
  <2>2. with(h) \in Episodes /\ with(h).pc = "queued"
    BY <1>1, <2>1 DEF Episodes
  <2> QED
    BY <1>1, <2>2, SameCalls DEF Episodes, EpisodeOK, Judged
<1> DEFINE ready == IF Modes[j] = "guarded" THEN with(Opened) ELSE e
<1>3. EpisodeOK(ready) /\ ready.pc = "queued" /\ ready \in Episodes
  BY <1>1, <1>2 DEF EpisodeOK
<1> HIDE DEF ready
<1>4. EpisodeOK([ready EXCEPT !.pc = "agent"])
  <2>1. [ready EXCEPT !.pc = "agent"] \in Episodes
    BY <1>3 DEF Episodes, Places, Checkpoints
  <2> QED
    BY <1>3, <2>1, SameCalls DEF Episodes, EpisodeOK, Judged, EndPlaces
<1>5. \E f : EpisodeOK(f) /\ Becomes(j, f) /\ f.pc \in Quiet
  <2>1. CASE stopped
    BY <1>1, <2>1, RaiseOK DEF Initialize, ErrorKinds, e
  <2>2. CASE Becomes(j, [ready EXCEPT !.pc = "agent"])
    BY <1>3, <1>4, <2>2 DEF Begun, Quiet, Episodes
  <2>3. CASE \E kind \in {"listed", "other"} : Becomes(j, Raise(ready, kind))
    BY <1>3, <2>3, RaiseOK DEF ErrorKinds, EndPlaces
  <2>4. CASE \E kind \in {"listed", "other"} : \E h \in NotOpened :
               Becomes(j, Raise(with(h), kind))
    BY <1>2, <2>4, RaiseOK DEF ErrorKinds, EndPlaces
  <2> QED
    BY <2>1, <2>2, <2>3, <2>4 DEF Initialize, ready, e
<1>6. episode[j].pc \in Quiet /\ episode[j].pc \notin EndPlaces
  BY <1>1 DEF Quiet, e
<1>7. late' = late /\ UNCHANGED batch /\ faults' \in 0..MaxFaults
  BY FaultCounts DEF Initialize
<1> QED
  BY <1>5, <1>6, <1>7, WorkerQuiet

LEMMA StopCheckStep == ASSUME XInv, NEW j \in Jobs, StopCheck(j) PROVE XInv'
<1> DEFINE e == episode[j]
           f == [e EXCEPT !.pc = After[e.pc]]
<1>1. /\ e \in Episodes /\ EpisodeOK(e) /\ e.pc \in Checkpoints /\ e.pc \notin EndPlaces
  BY HasEpisode DEF StopCheck, Checkpoints, EndPlaces
<1>2. f \in Episodes /\ f.pc # "done"
  BY <1>1 DEF Checkpoints, After, Episodes, Places
<1>3. EpisodeOK(f)
  BY <1>1, <1>2, SameCalls DEF Episodes, EpisodeOK, Judged
<1>4. CASE stopped
  BY <1>1, <1>4, RaiseOK, FaultCounts, WorkerQuiet DEF StopCheck, ErrorKinds, Checkpoints, Quiet,
         Raise, EndPlaces
<1>5. CASE ~stopped
  <2>1. f.pc \notin {"confirming", "executing"}
    BY <1>1 DEF Checkpoints, After, Episodes
  <2> QED
    BY <1>3, <1>5, <2>1, FaultCounts, WorkerStep DEF StopCheck, Goto
<1> QED
  BY <1>4, <1>5

LEMMA GenerateStep == ASSUME XInv, NEW j \in Jobs, Generate(j) PROVE XInv'
<1> DEFINE e == episode[j]
           usable(m) == [e EXCEPT !.pc = IF m.calls = 1 THEN "tool" ELSE "customer",
                                  !.attempt = 0, !.turns = @ + 1, !.burst = 0]
           again == [e EXCEPT !.pc = "agent", !.attempt = @ + 1]
<1>1. /\ e \in Episodes /\ EpisodeOK(e) /\ e.pc = "generating" /\ e.pc \notin EndPlaces
      /\ e.pc \in Begun
  BY HasEpisode DEF Generate, At, EndPlaces, Begun, Quiet
<1>2. Begins(j) /\ UNCHANGED batch /\ (FaultHappens \/ UNCHANGED faults)
  BY DEF Generate
<1>3. \E f : EpisodeOK(f) /\ Becomes(j, f) /\ f.pc \in Quiet
  <2>1. ASSUME NEW m \in Messages
        PROVE  EpisodeOK(usable(m)) /\ usable(m).pc \in Quiet
    <3>1. usable(m) \in Episodes
      <4>1. \A n \in Nat : \A q \in {"tool", "customer"} :
              [e EXCEPT !.pc = q, !.attempt = 0, !.turns = n, !.burst = 0] \in Episodes
        BY <1>1 DEF Episodes, Places, Checkpoints
      <4>2. e.turns + 1 \in Nat
        BY <1>1 DEF Episodes
      <4> HIDE DEF e
      <4> QED
        BY <4>1, <4>2
    <3>2. /\ usable(m).calls = e.calls /\ usable(m).scored = e.scored /\ usable(m).error = e.error
          /\ usable(m).approved = e.approved /\ usable(m).said = e.said
          /\ usable(m).pc \in Quiet \ {"done"}
      BY <1>1 DEF Episodes, Begun, Quiet
    <3>3. e.error # "replay" /\ (e.approved => e.said = "yes")
      BY <1>1 DEF EpisodeOK, Judged
    <3> HIDE DEF usable, again, e
    <3> QED
      BY <1>1, <3>1, <3>2, <3>3, SameCalls
  <2>2. EpisodeOK(again) /\ again.pc \in Quiet
    <3>1. again \in Episodes
      <4>1. \A n \in Nat : [e EXCEPT !.pc = "agent", !.attempt = n] \in Episodes
        BY <1>1 DEF Episodes, Places, Checkpoints
      <4>2. e.attempt + 1 \in Nat
        BY <1>1 DEF Episodes
      <4> HIDE DEF e
      <4> QED
        BY <4>1, <4>2
    <3>2. /\ again.calls = e.calls /\ again.scored = e.scored /\ again.error = e.error
          /\ again.approved = e.approved /\ again.said = e.said
          /\ again.pc \in Quiet \ {"done"}
      BY <1>1 DEF Episodes, Begun, Quiet
    <3>3. e.error # "replay" /\ (e.approved => e.said = "yes")
      BY <1>1 DEF EpisodeOK, Judged
    <3> HIDE DEF usable, again, e
    <3> QED
      BY <1>1, <3>1, <3>2, <3>3, SameCalls
  <2>3. \A kind \in {"listed", "other", "protocol"} :
          EpisodeOK(Raise(e, kind)) /\ Raise(e, kind).pc \in Quiet
    BY <1>1, RaiseOK DEF ErrorKinds
  <2>4. \/ \E m \in Messages : Becomes(j, usable(m))
        \/ Becomes(j, again)
        \/ \E kind \in {"listed", "other", "protocol"} : Becomes(j, Raise(e, kind))
    BY DEF Generate
  <2> HIDE DEF e, usable, again
  <2> QED
    BY <2>1, <2>2, <2>3, <2>4
<1> QED
  BY <1>1, <1>2, <1>3, FaultCounts, WorkerQuiet

LEMMA ReplyStep == ASSUME XInv, NEW j \in Jobs, Reply(j) PROVE XInv'
<1> DEFINE e == episode[j]
           speaks == ~e.handoff /\ e.burst < MaxBurst
           goes(p) == [e EXCEPT !.pc = p, !.turns = IF speaks THEN @ + 1 ELSE @]
<1>1. /\ e \in Episodes /\ EpisodeOK(e) /\ e.pc = "replying" /\ e.pc \notin EndPlaces
      /\ e.pc \in Begun
  BY HasEpisode DEF Reply, At, EndPlaces, Begun, Quiet
<1>2. UNCHANGED batch /\ (FaultHappens \/ UNCHANGED faults) /\ (Begins(j) \/ UNCHANGED late)
  BY DEF Reply
<1>3. \E f : EpisodeOK(f) /\ Becomes(j, f) /\ f.pc \in Quiet
  <2>1. ASSUME NEW p \in {"agent", "device", "scoring"}
        PROVE  EpisodeOK(goes(p)) /\ goes(p).pc \in Quiet
    <3>1. goes(p) \in Episodes
      <4>1. \A n \in Nat : [e EXCEPT !.pc = p, !.turns = n] \in Episodes
        BY <1>1 DEF Episodes, Places, Checkpoints
      <4>2. e.turns + 1 \in Nat /\ e.turns \in Nat
        BY <1>1 DEF Episodes
      <4> HIDE DEF e
      <4> QED
        BY <4>1, <4>2
    <3>2. /\ goes(p).calls = e.calls /\ goes(p).scored = e.scored /\ goes(p).error = e.error
          /\ goes(p).approved = e.approved /\ goes(p).said = e.said
          /\ goes(p).pc \in Quiet \ {"done"}
      BY <1>1 DEF Episodes, Begun, Quiet
    <3>3. e.error # "replay" /\ (e.approved => e.said = "yes")
      BY <1>1 DEF EpisodeOK, Judged
    <3> HIDE DEF goes, e
    <3> QED
      BY <1>1, <3>1, <3>2, <3>3, SameCalls
  <2>2. \A kind \in {"listed", "other"} :
          EpisodeOK(Raise(e, kind)) /\ Raise(e, kind).pc \in Quiet
    BY <1>1, RaiseOK DEF ErrorKinds
  <2>3. \/ \E p \in {"agent", "device", "scoring"} : Becomes(j, goes(p))
        \/ \E kind \in {"listed", "other"} : Becomes(j, Raise(e, kind))
    BY DEF Reply
  <2> HIDE DEF e, goes
  <2> QED
    BY <2>1, <2>2, <2>3
<1> QED
  BY <1>1, <1>2, <1>3, FaultCounts, WorkerQuiet

LEMMA ActStep == ASSUME XInv, NEW j \in Jobs, Act(j) PROVE XInv'
<1> DEFINE e == episode[j]
           f == [e EXCEPT !.pc = "customer", !.burst = @ + 1]
<1>1. /\ e \in Episodes /\ EpisodeOK(e) /\ e.pc = "acting" /\ e.pc \notin EndPlaces
      /\ e.pc \in Begun
  BY HasEpisode DEF Act, At, EndPlaces, Begun, Quiet
<1>2. f \in Episodes /\ f.pc \in Quiet
  <2>1. \A n \in Nat : [e EXCEPT !.pc = "customer", !.burst = n] \in Episodes
    BY <1>1 DEF Episodes, Places, Checkpoints
  <2>2. e.burst + 1 \in Nat
    BY <1>1 DEF Episodes
  <2>3. f \in Episodes
    <3> HIDE DEF e
    <3> QED
      BY <2>1, <2>2
  <2> QED
    BY <1>1, <2>3 DEF Episodes, Begun, Quiet
<1>3. EpisodeOK(f)
  BY <1>1, <1>2, SameCalls DEF Episodes, EpisodeOK, Judged
<1> QED
  BY <1>1, <1>2, <1>3, FaultCounts, WorkerQuiet DEF Act

LEMMA RunEndsStep == ASSUME XInv, NEW j \in Jobs, RunEnds(j) PROVE XInv'
<1> DEFINE e == episode[j]
           f == [e EXCEPT !.pc = "scoring"]
<1>1. e \in Episodes /\ EpisodeOK(e) /\ e.pc \in {"agent", "customer"} /\ e.pc \notin EndPlaces
  BY HasEpisode DEF RunEnds, EndPlaces
<1>2. f \in Episodes /\ f.pc \in Quiet \ {"done"}
  BY <1>1 DEF Episodes, Places, Begun, Quiet
<1>3. EpisodeOK(f)
  BY <1>1, <1>2, SameCalls DEF Episodes, EpisodeOK, Judged
<1> QED
  BY <1>1, <1>2, <1>3, FaultCounts, WorkerQuiet DEF RunEnds, Goto, Quiet

LEMMA CallStep == ASSUME XInv, NEW j \in Jobs, Call(j) PROVE XInv'
<1> DEFINE e == episode[j]
           bare(over) == [e EXCEPT !.pc = "agent", !.handoff = @ \/ over]
<1>1. /\ e \in Episodes /\ EpisodeOK(e) /\ e.pc = "calling" /\ e.pc \notin EndPlaces
      /\ e.pc \in Begun
  BY HasEpisode DEF Call, At, EndPlaces, Begun, Quiet
<1>2. UNCHANGED <<batch, faults>>
  BY DEF Call
<1>3. e.error # "replay" /\ (e.approved => e.said = "yes")
  BY <1>1 DEF EpisodeOK, Judged
<1>4. ASSUME NEW over \in BOOLEAN PROVE EpisodeOK(bare(over)) /\ bare(over).pc \in Quiet
  <2>1. bare(over) \in Episodes
    BY <1>1 DEF Episodes, Places, Checkpoints
  <2>2. /\ bare(over).calls = e.calls /\ bare(over).scored = e.scored
        /\ bare(over).error = e.error /\ bare(over).approved = e.approved
        /\ bare(over).said = e.said /\ bare(over).pc \in Quiet \ {"done"}
    BY <1>1 DEF Episodes, Begun, Quiet
  <2> HIDE DEF bare, e
  <2> QED
    BY <1>1, <1>3, <2>1, <2>2, SameCalls
<1>5. ASSUME NEW write \in BOOLEAN
      PROVE  /\ EpisodeOK(Proposed(e, write))
             /\ Proposed(e, write).pc \in {"confirming", "executing"}
  <2>1. Proposed(e, write) \in Episodes
    BY <1>1 DEF Proposed, Episodes, Places
  <2>2. /\ Proposed(e, write).calls = e.calls /\ Proposed(e, write).scored = e.scored
        /\ Proposed(e, write).error = e.error /\ Proposed(e, write).approved = FALSE
        /\ Proposed(e, write).pc \in {"confirming", "executing"}
    BY <1>1 DEF Proposed, Episodes
  <2> HIDE DEF e
  <2> QED
    BY <1>1, <1>3, <2>1, <2>2, SameCalls
<1>6. \/ Begins(j) /\ \E over \in BOOLEAN : Becomes(j, bare(over))
      \/ /\ Modes[j] = "guarded" /\ late' = late
         /\ \E write \in BOOLEAN : Becomes(j, Proposed(e, write))
  <2>1. Modes[j] \in {"baseline", "guarded"}
    BY ExperimentAssumption, ElementOfSeq DEF Jobs
  <2> QED
    BY <2>1 DEF Call
<1> HIDE DEF bare
<1>7. CASE Begins(j) /\ \E over \in BOOLEAN : Becomes(j, bare(over))
  BY <1>1, <1>2, <1>4, <1>7, FaultCounts, WorkerQuiet
<1>8. CASE /\ Modes[j] = "guarded" /\ late' = late
           /\ \E write \in BOOLEAN : Becomes(j, Proposed(e, write))
  <2>1. PICK write \in BOOLEAN : Becomes(j, Proposed(e, write))
    BY <1>8
  <2>2. EpisodeOK(Proposed(e, write)) /\ Proposed(e, write).pc \in {"confirming", "executing"}
    BY <1>5
  <2>3. Proposed(e, write).tries \in {0, 1}
    BY <2>2 DEF EpisodeOK, Episodes
  <2>4. Allowed(j, e) <= Allowed(j, Proposed(e, write))
    BY <1>1, <2>2, <2>3 DEF Allowed, Begun, EndPlaces
  <2> QED
    BY <1>2, <1>8, <2>1, <2>2, <2>4, FaultCounts, WorkerStep
<1> QED
  BY <1>6, <1>7, <1>8

LEMMA ConfirmStep == ASSUME XInv, NEW j \in Jobs, Confirm(j) PROVE XInv'
<1> DEFINE e == episode[j]
           answered(yes) == [e EXCEPT !.pc = "executing", !.approved = yes,
                                      !.said = IF yes THEN "yes" ELSE "no"]
           again == [e EXCEPT !.tries = 1]
<1>1. /\ e \in Episodes /\ EpisodeOK(e) /\ e.pc = "confirming" /\ e.pc \notin EndPlaces
  BY HasEpisode DEF Confirm, At, EndPlaces
<1>2. e.error # "replay" /\ (e.approved => e.said = "yes")
  BY <1>1 DEF EpisodeOK, Judged
<1>3. ASSUME NEW yes \in BOOLEAN
      PROVE  EpisodeOK(answered(yes)) /\ answered(yes).pc = "executing"
  <2>1. answered(yes) \in Episodes
    BY <1>1 DEF Episodes, Places
  <2>2. /\ answered(yes).calls = e.calls /\ answered(yes).scored = e.scored
        /\ answered(yes).error = e.error
        /\ answered(yes).approved => answered(yes).said = "yes"
        /\ answered(yes).pc = "executing"
    BY <1>1 DEF Episodes, Begun, Quiet
  <2> HIDE DEF answered, e
  <2> QED
    BY <1>1, <1>2, <2>1, <2>2, SameCalls
<1>4. EpisodeOK(Unusable(e)) /\ Unusable(e).pc = "executing"
  <2>1. Unusable(e) \in Episodes
    BY <1>1 DEF Unusable, Episodes, Places
  <2>2. /\ Unusable(e).calls = e.calls /\ Unusable(e).scored = e.scored
        /\ Unusable(e).error = e.error /\ Unusable(e).approved = e.approved
        /\ Unusable(e).said = e.said /\ Unusable(e).pc = "executing"
    BY <1>1 DEF Unusable, Episodes, Begun, Quiet
  <2> HIDE DEF e
  <2> QED
    BY <1>1, <1>2, <2>1, <2>2, SameCalls
<1>5. EpisodeOK(again) /\ again.pc = "confirming" /\ again.tries = 1
  <2>1. again \in Episodes
    BY <1>1 DEF Episodes
  <2>2. /\ again.calls = e.calls /\ again.scored = e.scored
        /\ again.error = e.error /\ again.approved = e.approved
        /\ again.said = e.said /\ again.pc = "confirming" /\ again.tries = 1
    BY <1>1 DEF Episodes, Begun, Quiet
  <2> HIDE DEF again, e
  <2> QED
    BY <1>1, <1>2, <2>1, <2>2, SameCalls
<1>6. \/ \E yes \in BOOLEAN : Becomes(j, answered(yes))
      \/ Becomes(j, Unusable(e))
      \/ e.tries = 0 /\ Becomes(j, again)
  BY DEF Confirm
<1>7. Begins(j) /\ UNCHANGED <<batch, faults>>
  BY DEF Confirm
<1>8. e.tries \in {0, 1} /\ Modes[j] = "guarded"
  BY <1>1 DEF Episodes, XInv, LateOK
<1>9. ASSUME NEW f, f.pc = "executing" \/ (f.pc = "confirming" /\ f.tries = 1 /\ e.tries = 0)
      PROVE  Allowed(j, e) + 1 <= Allowed(j, f)
  BY <1>1, <1>8, <1>9 DEF Allowed, Begun
<1> HIDE DEF e, answered, again
<1> QED
  <2>1. \E f : /\ EpisodeOK(f) /\ Becomes(j, f)
               /\ f.pc = "executing" \/ (f.pc = "confirming" /\ f.tries = 1 /\ e.tries = 0)
    BY <1>3, <1>4, <1>5, <1>6
  <2> QED
    BY <1>7, <1>8, <1>9, <2>1, FaultCounts, WorkerStep DEF e

\* A call that was recorded truthfully, before or after its tool.
LEMMA RecordedOK ==
  ASSUME NEW e, EpisodeOK(e), e.pc = "executing", NEW dispatched \in BOOLEAN,
         NEW raised \in BOOLEAN, NEW ran \in BOOLEAN,
         dispatched <=> ran, ran /\ e.write => e.approved
  PROVE  LET f == Recorded(e, dispatched, raised, ran)
         IN  EpisodeOK(f) /\ f.pc = "agent" /\ f \in Episodes
<1> DEFINE call == [write |-> e.write, recorded |-> TRUE, dispatched |-> dispatched,
                    raised |-> raised, ran |-> ran, said |-> e.said]
           f == Called(e, call)
<1>1. e \in Episodes /\ e.pc \notin EndPlaces /\ e.error # "replay"
      /\ (e.approved => e.said = "yes")
  BY DEF EpisodeOK, Judged, EndPlaces
<1>2. call \in CallRecords
  BY <1>1 DEF Episodes, CallRecords
<1>3. Truthful(call)
  BY <1>1 DEF Truthful
<1> HIDE DEF call
<1>4. Append(e.calls, call) \in Seq(CallRecords)
  BY <1>1, <1>2, AppendProperties DEF Episodes
<1>5. f \in Episodes
  BY <1>1, <1>4 DEF Called, Episodes, Places, Checkpoints
<1>6. /\ f.calls = Append(e.calls, call) /\ f.scored = e.scored /\ f.error = e.error
      /\ f.approved = e.approved /\ f.said = e.said /\ f.pc = "agent"
  BY <1>1 DEF Called, Episodes
<1>7. EpisodeOK(f)
  <2> HIDE DEF f
  <2> QED
    BY <1>1, <1>2, <1>3, <1>5, <1>6, OneMoreCall
<1> QED
  BY <1>5, <1>6, <1>7 DEF Recorded, call

\* A call whose events could not be read.
LEMMA UnrecordedOK ==
  ASSUME NEW e, EpisodeOK(e), e.pc = "executing", NEW ran \in BOOLEAN,
         ran /\ e.write => e.approved
  PROVE  EpisodeOK(Unrecorded(e, ran)) /\ Unrecorded(e, ran).pc \in Quiet
<1> DEFINE call == [write |-> e.write, recorded |-> FALSE, dispatched |-> FALSE,
                    raised |-> FALSE, ran |-> ran, said |-> e.said]
           f == Called(e, call)
<1>1. e \in Episodes /\ e.pc \notin EndPlaces /\ e.error # "replay"
      /\ (e.approved => e.said = "yes")
  BY DEF EpisodeOK, Judged, EndPlaces
<1>2. call \in CallRecords
  BY <1>1 DEF Episodes, CallRecords
<1>3. Truthful(call)
  BY <1>1 DEF Truthful
<1> HIDE DEF call
<1>4. Append(e.calls, call) \in Seq(CallRecords)
  BY <1>1, <1>2, AppendProperties DEF Episodes
<1>5. f \in Episodes
  BY <1>1, <1>4 DEF Called, Episodes, Places, Checkpoints
<1>6. /\ f.calls = Append(e.calls, call) /\ f.scored = e.scored /\ f.error = e.error
      /\ f.approved = e.approved /\ f.said = e.said /\ f.pc = "agent"
  BY <1>1 DEF Called, Episodes
<1>7. EpisodeOK(f) /\ f.pc \notin EndPlaces /\ f.pc \in Quiet
  <2> HIDE DEF f
  <2> QED
    BY <1>1, <1>2, <1>3, <1>5, <1>6, OneMoreCall DEF EndPlaces, Begun, Quiet
<1>8. EpisodeOK(Raise(f, "other")) /\ Raise(f, "other").pc \in Quiet
  BY <1>7, RaiseOK DEF ErrorKinds
<1> QED
  BY <1>7, <1>8 DEF Unrecorded, call

LEMMA ExecuteStep == ASSUME XInv, NEW j \in Jobs, Execute(j) PROVE XInv'
<1> DEFINE e == episode[j]
           mayRun == e.write => e.approved
           done(over) == [Recorded(e, TRUE, FALSE, TRUE) EXCEPT !.handoff = @ \/ over]
<1>1. e \in Episodes /\ EpisodeOK(e) /\ e.pc = "executing"
  BY HasEpisode DEF Execute, At
<1>2. UNCHANGED batch /\ Begins(j) /\ (FaultHappens \/ UNCHANGED faults)
  BY DEF Execute
<1>3. /\ EpisodeOK(Recorded(e, FALSE, FALSE, FALSE))
      /\ Recorded(e, FALSE, FALSE, FALSE).pc = "agent"
      /\ EpisodeOK(Recorded(e, FALSE, TRUE, FALSE))
      /\ Recorded(e, FALSE, TRUE, FALSE).pc = "agent"
  BY <1>1, RecordedOK
<1>4. /\ EpisodeOK(Raise(Recorded(e, FALSE, FALSE, FALSE), "other"))
      /\ Raise(Recorded(e, FALSE, FALSE, FALSE), "other").pc \in Quiet
  BY <1>3, RaiseOK DEF ErrorKinds, EndPlaces
<1>5. ASSUME mayRun
      PROVE  /\ EpisodeOK(Recorded(e, TRUE, TRUE, TRUE))
             /\ Recorded(e, TRUE, TRUE, TRUE).pc = "agent"
             /\ EpisodeOK(Recorded(e, TRUE, FALSE, TRUE))
             /\ Recorded(e, TRUE, FALSE, TRUE).pc = "agent"
             /\ Recorded(e, TRUE, FALSE, TRUE) \in Episodes
  BY <1>1, <1>5, RecordedOK
<1>6. ASSUME mayRun, NEW over \in BOOLEAN
      PROVE  EpisodeOK(done(over)) /\ done(over).pc \in Quiet
  <2> DEFINE r == Recorded(e, TRUE, FALSE, TRUE)
  <2>1. EpisodeOK(r) /\ r.pc = "agent" /\ r \in Episodes
    BY <1>5, <1>6
  <2> HIDE DEF r
  <2> DEFINE g == [r EXCEPT !.handoff = @ \/ over]
  <2>2. g \in Episodes
    BY <2>1 DEF Episodes
  <2>3. /\ g.calls = r.calls /\ g.scored = r.scored /\ g.error = r.error
        /\ g.approved = r.approved /\ g.said = r.said /\ g.pc = r.pc
    BY <2>1 DEF Episodes
  <2>4. /\ r.error # "replay" /\ r.pc \notin EndPlaces /\ r.pc \in Quiet
        /\ (r.approved => r.said = "yes")
    BY <2>1 DEF EpisodeOK, Judged, EndPlaces, Begun, Quiet
  <2>5. EpisodeOK(g) /\ g.pc \in Quiet
    <3> HIDE DEF g
    <3> QED
      BY <2>1, <2>2, <2>3, <2>4, SameCalls
  <2> QED
    BY <2>5 DEF r
<1>7. ASSUME NEW ran \in BOOLEAN, ran => mayRun
      PROVE  EpisodeOK(Unrecorded(e, ran)) /\ Unrecorded(e, ran).pc \in Quiet
  BY <1>1, <1>7, UnrecordedOK
<1>8. \/ Becomes(j, Recorded(e, FALSE, FALSE, FALSE))
      \/ Becomes(j, Raise(Recorded(e, FALSE, FALSE, FALSE), "other"))
      \/ Becomes(j, Recorded(e, FALSE, TRUE, FALSE))
      \/ mayRun /\ \E over \in BOOLEAN : Becomes(j, done(over))
      \/ mayRun /\ Becomes(j, Recorded(e, TRUE, TRUE, TRUE))
      \/ \E ran \in BOOLEAN : (ran => mayRun) /\ Becomes(j, Unrecorded(e, ran))
  BY DEF Execute, WroteDown
<1> HIDE DEF e, mayRun, done
<1>9. \E f : EpisodeOK(f) /\ Becomes(j, f) /\ f.pc \in Quiet
  <2>1. "agent" \in Quiet
    BY DEF Begun, Quiet
  <2>2. CASE \/ Becomes(j, Recorded(e, FALSE, FALSE, FALSE))
             \/ Becomes(j, Raise(Recorded(e, FALSE, FALSE, FALSE), "other"))
             \/ Becomes(j, Recorded(e, FALSE, TRUE, FALSE))
    BY <1>3, <1>4, <2>1, <2>2
  <2>3. CASE mayRun /\ \E over \in BOOLEAN : Becomes(j, done(over))
    BY <1>6, <2>3
  <2>4. CASE mayRun /\ Becomes(j, Recorded(e, TRUE, TRUE, TRUE))
    BY <1>5, <2>1, <2>4
  <2>5. CASE \E ran \in BOOLEAN : (ran => mayRun) /\ Becomes(j, Unrecorded(e, ran))
    BY <1>7, <2>5
  <2> QED
    BY <1>8, <2>2, <2>3, <2>4, <2>5
<1> QED
  BY <1>1, <1>2, <1>9, FaultCounts, WorkerQuiet DEF e, EndPlaces

\* When every record could be read, what is kept for the score is what ran.
LEMMA KeptRan ==
  ASSUME NEW e, EpisodeOK(e), \A i \in DOMAIN e.calls : e.calls[i].recorded
  PROVE  Kept(e) = Ran(e)
<1>1. \A i \in DOMAIN e.calls : e.calls[i] \in CallRecords
  BY ElementOfSeq, LenProperties DEF EpisodeOK, Episodes
<1>2. \A i \in Writes(e) : i \in Kept(e) <=> i \in Ran(e)
  BY <1>1 DEF Kept, Ran, Writes, Blocked, EpisodeOK, Truthful, CallRecords
<1> QED
  BY <1>2 DEF Kept, Ran

LEMMA ScoreStep == ASSUME XInv, NEW j \in Jobs, Score(j) PROVE XInv'
<1> DEFINE e == episode[j]
           saved == [e EXCEPT !.trajectory = "whole"]
           good == [saved EXCEPT !.pc = "finally", !.scored = TRUE]
           cut(t) == [e EXCEPT !.trajectory = t]
<1>1. e \in Episodes /\ EpisodeOK(e) /\ e.pc = "scoring" /\ e.pc \notin EndPlaces
  BY HasEpisode DEF Score, At, EndPlaces
<1>2. UNCHANGED batch /\ (FaultHappens \/ UNCHANGED faults)
  BY DEF Score
<1>3. e.error # "replay" /\ (e.approved => e.said = "yes")
  BY <1>1 DEF EpisodeOK, Judged
<1>4. \/ Kept(e) = Ran(e) /\ Becomes(j, good) /\ (Begins(j) \/ UNCHANGED late)
      \/ Kept(e) # Ran(e) /\ Becomes(j, Raise(saved, "replay")) /\ UNCHANGED late
      \/ /\ \E t \in {"none", "torn", "whole"} : Becomes(j, Raise(cut(t), "other"))
         /\ UNCHANGED late
  BY DEF Score
<1> HIDE DEF e
<1>5. CASE Kept(e) = Ran(e) /\ Becomes(j, good) /\ (Begins(j) \/ UNCHANGED late)
  <2>1. good \in Episodes /\ good.pc = "finally"
    BY <1>1 DEF Episodes, Places
  <2>2. /\ good.calls = e.calls /\ good.error = e.error
        /\ good.approved = e.approved /\ good.said = e.said
    BY <1>1 DEF Episodes
  <2> HIDE DEF good
  <2>3. Kept(good) = Ran(good)
    BY <1>5, <2>2 DEF Kept, Ran, Writes, Blocked
  <2>4. EpisodeOK(good)
    BY <1>1, <1>3, <2>1, <2>2, <2>3 DEF EpisodeOK, Judged, EndPlaces
  <2> QED
    BY <1>1, <1>2, <1>5, <2>1, <2>4, FaultCounts, WorkerQuiet DEF Quiet, EndPlaces, e
<1>6. CASE Kept(e) # Ran(e) /\ Becomes(j, Raise(saved, "replay")) /\ UNCHANGED late
  <2> DEFINE f == Raise(saved, "replay")
  <2>1. PICK i \in DOMAIN e.calls : ~e.calls[i].recorded
    BY <1>1, <1>6, KeptRan
  <2>2. f \in Episodes /\ f.pc = "finally"
    BY <1>1 DEF Raise, Episodes, Places, ErrorKinds
  <2>3. /\ f.calls = e.calls /\ f.error = "replay" /\ f.scored = e.scored
        /\ f.approved = e.approved /\ f.said = e.said
    BY <1>1 DEF Raise, Episodes
  <2> HIDE DEF f
  <2>4. EpisodeOK(f)
    BY <1>1, <1>3, <2>1, <2>2, <2>3 DEF EpisodeOK, Judged, EndPlaces
  <2> QED
    BY <1>1, <1>2, <1>6, <2>2, <2>4, FaultCounts, WorkerQuiet DEF Quiet, EndPlaces, f, e
<1>7. CASE /\ \E t \in {"none", "torn", "whole"} : Becomes(j, Raise(cut(t), "other"))
           /\ UNCHANGED late
  <2>1. PICK t \in {"none", "torn", "whole"} : Becomes(j, Raise(cut(t), "other"))
    BY <1>7
  <2>2. cut(t) \in Episodes
    BY <1>1 DEF Episodes
  <2>3. /\ cut(t).calls = e.calls /\ cut(t).scored = e.scored /\ cut(t).error = e.error
        /\ cut(t).approved = e.approved /\ cut(t).said = e.said /\ cut(t).pc = e.pc
    BY <1>1 DEF Episodes
  <2> HIDE DEF cut
  <2>4. EpisodeOK(cut(t)) /\ cut(t).pc \notin EndPlaces
    BY <1>1, <1>3, <2>2, <2>3, SameCalls
  <2>5. EpisodeOK(Raise(cut(t), "other")) /\ Raise(cut(t), "other").pc \in Quiet
    BY <2>4, RaiseOK DEF ErrorKinds
  <2> QED
    BY <1>1, <1>2, <1>7, <2>1, <2>5, FaultCounts, WorkerQuiet DEF Quiet, e
<1> QED
  BY <1>4, <1>5, <1>6, <1>7

\* The end of an episode: only the place and the host change.
LEMMA EndingOK ==
  ASSUME NEW e, EpisodeOK(e), e.pc = "finally", NEW p \in {"done", "raised"},
         NEW h \in {e.host, Closed(e)}, p = "done" => h = Closed(e)
  PROVE  /\ EpisodeOK([e EXCEPT !.pc = p, !.host = h])
         /\ [e EXCEPT !.pc = p, !.host = h].pc \in Quiet
<1> DEFINE f == [e EXCEPT !.pc = p, !.host = h]
<1>1. e \in Episodes /\ h \in {"none", "open", "closed"}
  BY DEF EpisodeOK, Episodes, Closed
<1>2. f \in Episodes
  BY <1>1 DEF Episodes, Places
<1>3. /\ f.calls = e.calls /\ f.scored = e.scored /\ f.error = e.error
      /\ f.approved = e.approved /\ f.said = e.said /\ f.pc = p
      /\ f.pc = "done" => f.host # "open"
  BY <1>1 DEF Episodes, Closed
<1> HIDE DEF f
<1>4. EpisodeOK(f) /\ f.pc \in Quiet
  BY <1>1, <1>2, <1>3, SameVerdict DEF EndPlaces, Begun, Quiet
<1> QED
  BY <1>4 DEF f

LEMMA FinishStep == ASSUME XInv, NEW j \in Jobs, Finish(j) \/ FinishFails(j) PROVE XInv'
<1>1. EpisodeOK(episode[j]) /\ episode[j].pc = "finally"
  BY HasEpisode DEF Finish, FinishFails, At
<1>2. UNCHANGED <<batch, late>> /\ (FaultHappens \/ UNCHANGED faults)
  BY DEF Finish, FinishFails
<1>3. PICK p \in {"done", "raised"}, h \in {episode[j].host, Closed(episode[j])} :
        /\ Becomes(j, [episode[j] EXCEPT !.pc = p, !.host = h])
        /\ p = "done" => h = Closed(episode[j])
  BY DEF Finish, FinishFails
<1> DEFINE f == [episode[j] EXCEPT !.pc = p, !.host = h]
<1>4. EpisodeOK(f) /\ f.pc \in Quiet
  BY <1>1, <1>3, EndingOK
<1>5. f.pc \in EndPlaces /\ episode[j].pc \in Quiet
  BY <1>1, HasEpisode DEF EndPlaces, Quiet, Episodes
<1>6. faults' \in 0..MaxFaults
  BY <1>2, FaultCounts
<1> HIDE DEF f
<1>7. Becomes(j, f)
  BY <1>3 DEF f
<1> QED
  BY <1>2, <1>4, <1>5, <1>6, <1>7, WorkerQuiet

LEMMA WorksStep == ASSUME XInv, NEW j \in Jobs, Works(j) PROVE XInv'
  BY MkdirFailsStep, InitializeStep, StopCheckStep, GenerateStep, ReplyStep, ActStep,
     RunEndsStep, CallStep, ConfirmStep, ExecuteStep, ScoreStep, FinishStep DEF Works

-------------------------------------------------------------------------------
\* The coordinator's part.

\* A worker steps only before its end, and touches no other episode.
LEMMA WorkFrame ==
  ASSUME XInv, NEW j \in Jobs, Works(j)
  PROVE  /\ ~Ended(j) /\ UNCHANGED batch
         /\ \A i \in Jobs : i # j => episode'[i] = episode[i]
<1>1. ~Ended(j)
  BY DEF Works, MkdirFails, Initialize, StopCheck, Generate, Reply, Act, RunEnds, Call,
         Confirm, Execute, Score, Finish, FinishFails, At, Ended, Checkpoints
<1>2. UNCHANGED batch
  BY DEF Works, MkdirFails, Initialize, StopCheck, Generate, Reply, Act, RunEnds, Call,
         Confirm, Execute, Score, Finish, FinishFails
<1>3. \E f : Becomes(j, f)
  <2>1. CASE MkdirFails(j) \/ RunEnds(j) \/ Act(j)
    BY <2>1 DEF MkdirFails, RunEnds, Act, Goto
  <2>2. CASE Initialize(j)
    BY <2>2 DEF Initialize
  <2>3. CASE StopCheck(j)
    BY <2>3 DEF StopCheck, Goto
  <2>4. CASE Generate(j) \/ Reply(j)
    BY <2>4 DEF Generate, Reply
  <2>5. CASE Call(j) \/ Confirm(j)
    BY <2>5 DEF Call, Confirm
  <2>6. CASE Execute(j)
    BY <2>6 DEF Execute
  <2>7. CASE Score(j) \/ Finish(j) \/ FinishFails(j)
    BY <2>7 DEF Score, Finish, FinishFails
  <2> QED
    BY <2>1, <2>2, <2>3, <2>4, <2>5, <2>6, <2>7 DEF Works
<1> QED
  BY <1>1, <1>2, <1>3 DEF Becomes, XInv, BatchTypeOK

\* What Fill takes are the next jobs of the plan, and some of them if any worker is
\* free and the batch was not stopped.
LEMMA FillTakes ==
  ASSUME XInv
  PROVE  LET taken == IF MayFill THEN Room ELSE {}
             upto == submitted + Cardinality(taken)
         IN  /\ Cardinality(taken) \in Nat /\ upto \in 0..Len(Modes)
             /\ taken = (submitted + 1)..upto
             /\ stopped => taken = {} /\ upto = submitted
             /\ ~stopped /\ pending = {} /\ submitted # Len(Modes) => taken # {}
<1> DEFINE taken == IF MayFill THEN Room ELSE {}
           upto == submitted + Cardinality(taken)
<1>1. /\ submitted \in Nat /\ Len(Modes) \in Nat /\ submitted <= Len(Modes)
      /\ Jobs = 1..Len(Modes) /\ Concurrency \in Nat /\ Concurrency > 0
  BY JobNumbers, ExperimentAssumption DEF XInv, BatchTypeOK
<1>2. IsFiniteSet(pending) /\ Cardinality(pending) \in Nat
  <2>1. IsFiniteSet(1..submitted)
    BY <1>1, FS_Interval
  <2>2. pending \in SUBSET (1..submitted)
    BY DEF XInv, BatchTypeOK
  <2> QED
    BY <2>1, <2>2, FS_Subset, FS_CardinalityType
<1>3. Cardinality({}) = 0
  BY FS_EmptySet
<1>4. CASE taken = {}
  <2>1. upto = submitted /\ taken = (submitted + 1)..upto /\ Cardinality(taken) \in Nat
    <3> HIDE DEF taken
    <3>1. Cardinality(taken) = 0
      BY <1>3, <1>4
    <3>2. upto = submitted
      BY <1>1, <3>1
    <3>3. (submitted + 1)..submitted = {}
      BY <1>1
    <3> HIDE DEF upto
    <3> QED
      BY <1>4, <3>1, <3>2, <3>3
  <2>2. ~stopped /\ pending = {} /\ submitted # Len(Modes) => FALSE
    <3> SUFFICES ASSUME ~stopped, pending = {}, submitted # Len(Modes) PROVE FALSE
      OBVIOUS
    <3>1. Cardinality(pending) = 0
      BY <1>3
    <3> HIDE DEF taken
    <3>2. submitted + 1 \in Room
      BY <1>1, <3>1 DEF Room
    <3> QED
      BY <1>4, <3>2 DEF MayFill, taken
  <2>3. submitted \in 0..Len(Modes)
    BY <1>1
  <2> HIDE DEF taken, upto
  <2> QED
    BY <1>4, <2>1, <2>2, <2>3 DEF taken, upto
<1>5. CASE taken # {}
  <2>1. MayFill /\ taken = Room
    BY <1>5
  <2> DEFINE free == Concurrency - Cardinality(pending)
             last == IF submitted + free <= Len(Modes) THEN submitted + free ELSE Len(Modes)
  <2>2. free \in Int
    BY <1>1, <1>2
  <2>3. Room = (submitted + 1)..last
    <3>1. Room = {n \in Jobs : submitted < n /\ n <= submitted + free}
      BY <1>1, <1>2 DEF Room
    <3> HIDE DEF free
    <3> QED
      BY <1>1, <2>2, <3>1
  <2>4. last \in Int
    <3> HIDE DEF free
    <3> QED
      BY <1>1, <2>2
  <2>5. last >= submitted + 1 /\ last <= Len(Modes)
    <3> HIDE DEF free
    <3> QED
      BY <1>1, <1>5, <2>1, <2>2, <2>3
  <2> HIDE DEF last
  <2>6. Cardinality(Room) = last - submitted
    BY <1>1, <2>3, <2>4, <2>5, FS_Interval
  <2>7. upto = last /\ Cardinality(taken) \in Nat
    BY <1>1, <2>1, <2>4, <2>5, <2>6
  <2> HIDE DEF taken, upto
  <2> QED
    BY <1>1, <1>5, <2>1, <2>3, <2>4, <2>5, <2>7 DEF MayFill, taken, upto
<1> QED
  BY <1>4, <1>5

LEMMA FillStep == ASSUME XInv, Fill PROVE XInv'
<1> DEFINE taken == IF MayFill THEN Room ELSE {}
           upto == submitted + Cardinality(taken)
<1>1. /\ Cardinality(taken) \in Nat /\ upto \in 0..Len(Modes)
      /\ taken = (submitted + 1)..upto
  BY FillTakes
<1>2. /\ coordinator = "fill" /\ coordinator' = "wait"
      /\ submitted' = upto /\ pending' = pending \cup taken
      /\ episode' = [j \in Jobs |-> IF j \in taken THEN [NewEpisode EXCEPT !.pc = "queued"]
                                    ELSE episode[j]]
      /\ UNCHANGED <<stopped, arrived, results, halted, halts, late, faults>>
  BY DEF Fill
<1>3. /\ submitted \in Nat /\ Len(Modes) \in Nat
      /\ taken # {} => ~stopped
  BY JobNumbers DEF XInv, BatchTypeOK, MayFill
<1> HIDE DEF taken
<1>4. submitted <= upto /\ upto \in Nat
  BY <1>1, <1>3
<1> HIDE DEF upto
<1>5. pending' \subseteq 1..submitted' /\ arrived' \subseteq 1..submitted'
  BY <1>1, <1>2, <1>3, <1>4 DEF XInv, BatchTypeOK
<1>6. BatchTypeOK'
  BY <1>1, <1>2, <1>5 DEF XInv, BatchTypeOK
<1>7. HaltOK'
  BY <1>2 DEF XInv, HaltOK
<1>8. \A j \in Jobs : EpisodeOK(episode'[j])
  <2>2. ASSUME NEW j \in Jobs
        PROVE  \/ episode'[j] = [NewEpisode EXCEPT !.pc = "queued"]
               \/ episode'[j] = episode[j]
    BY <1>2
  <2> QED
    BY <2>2, NewEpisodeOK DEF XInv
<1>9. LateOK'
  <2> DEFINE q == [NewEpisode EXCEPT !.pc = "queued"]
  <2>1. q.pc = "queued" /\ \A j \in Jobs : 0 <= Allowed(j, q)
    BY DEF NewEpisode, Allowed, AfterTurn, Begun, EndPlaces
  <2> HIDE DEF q
  <2>2. ASSUME NEW j \in Jobs
        PROVE  /\ late[j] > 0 => stopped
               /\ late[j] <= Allowed(j, episode'[j])
               /\ episode'[j].pc \in {"confirming", "executing"} => Modes[j] = "guarded"
    <3>1. /\ late[j] > 0 => stopped
          /\ late[j] <= Allowed(j, episode[j])
          /\ episode[j].pc \in {"confirming", "executing"} => Modes[j] = "guarded"
          /\ late[j] \in Nat
      BY DEF XInv, LateOK, BatchTypeOK
    <3>2. CASE j \in taken
      <4>1. late[j] = 0
        BY <1>3, <3>1, <3>2
      <4>2. episode'[j] = q
        BY <1>2, <3>2 DEF q
      <4> QED
        BY <2>1, <3>1, <4>1, <4>2
    <3>3. CASE j \notin taken
      BY <1>2, <3>1, <3>3
    <3> QED
      BY <3>2, <3>3
  <2>3. \A j \in Jobs : Allowed(j, episode[j])' = Allowed(j, episode'[j])
    BY DEF Allowed, AfterTurn
  <2> QED
    BY <1>2, <2>2, <2>3 DEF LateOK
<1> QED
  BY <1>6, <1>7, <1>8, <1>9 DEF XInv

LEMMA WaitStep == ASSUME XInv, Wait PROVE XInv'
<1>1. /\ UNCHANGED <<stopped, submitted, results, halted, halts, episode, late, faults>>
      /\ coordinator = "wait" /\ coordinator' = "collect"
      /\ arrived' \subseteq pending /\ pending' \subseteq pending
  BY DEF Wait
<1> QED
  BY <1>1 DEF XInv, BatchTypeOK, HaltOK, LateOK

LEMMA CollectStep == ASSUME XInv, NEW j \in Jobs, Collect(j) PROVE XInv'
<1>1. /\ UNCHANGED <<submitted, pending, episode, late>>
      /\ coordinator = "collect" /\ arrived' \subseteq arrived
  BY DEF Collect
<1>2. halted <=> halts = 1
  BY <1>1 DEF XInv, HaltOK
<1>3. /\ results' \in Seq(Jobs) /\ halted' \in BOOLEAN /\ stopped' \in BOOLEAN
      /\ coordinator' \in {"fill", "collect", "unwind"}
  <2>1. results \in Seq(Jobs) /\ halted \in BOOLEAN /\ stopped \in BOOLEAN
    BY DEF XInv, BatchTypeOK
  <2>2. results' = results \/ results' = Append(results, j)
    BY DEF Collect
  <2>3. results' \in Seq(Jobs)
    BY <2>1, <2>2, AppendProperties
  <2>4. halted' = halted \/ halted' = (halted \/ HaltsNow(results'))
    BY DEF Collect
  <2>5. halted' \in BOOLEAN
    BY <2>1, <2>4
  <2>6. stopped' = stopped \/ stopped' = TRUE
    BY DEF Collect, Unwinds
  <2>7. coordinator' \in {"fill", "collect", "unwind"}
    BY DEF Collect, Unwinds
  <2> QED
    BY <2>1, <2>3, <2>5, <2>6, <2>7
<1>4. faults' \in 0..MaxFaults
  BY FaultCounts DEF Collect, CallbackFails, XInv, BatchTypeOK
<1>5. HaltOK' /\ (stopped => stopped')
  <2>1. CASE coordinator' = "unwind"
    BY <1>1, <1>2, <2>1 DEF Collect, Unwinds, HaltsNow, XInv, HaltOK
  <2>2. CASE coordinator' # "unwind"
    <3>1. /\ ~At(j, "raised")
          /\ halted' = (halted \/ HaltsNow(results'))
          /\ IF HaltsNow(results') THEN stopped' = TRUE /\ halts' = halts + 1
             ELSE UNCHANGED <<stopped, halts>>
      BY <2>2 DEF Collect, Unwinds
    <3> QED
      BY <1>1, <1>2, <1>3, <2>2, <3>1 DEF HaltsNow, XInv, HaltOK, BatchTypeOK
  <2> QED
    BY <2>1, <2>2
<1>6. LateOK'
  BY <1>1, <1>5 DEF XInv, LateOK
<1>7. BatchTypeOK'
  BY <1>1, <1>3, <1>4 DEF XInv, BatchTypeOK
<1> QED
  BY <1>1, <1>5, <1>6, <1>7 DEF XInv

LEMMA LeaveStep == ASSUME XInv, Return \/ PoolExits PROVE XInv'
<1>1. /\ UNCHANGED <<stopped, submitted, pending, arrived, results, halted, halts, episode,
                      late, faults>>
      /\ \/ coordinator = "wait" /\ coordinator' = "returned"
         \/ coordinator = "unwind" /\ coordinator' = "raised"
  BY DEF Return, PoolExits
<1>2. BatchTypeOK'
  BY <1>1 DEF XInv, BatchTypeOK
<1>3. HaltOK'
  BY <1>1 DEF XInv, HaltOK
<1>4. LateOK' /\ \A j \in Jobs : EpisodeOK(episode'[j])
  BY <1>1 DEF XInv, LateOK
<1> QED
  BY <1>2, <1>3, <1>4 DEF XInv

LEMMA XInit == Init => XInv
<1> SUFFICES ASSUME Init PROVE XInv
  OBVIOUS
<1>1. << >> \in Seq(Jobs) /\ Len(Modes) \in Nat /\ MaxFaults \in Nat
  BY JobNumbers, EmptySeq, ExperimentAssumption
<1>2. BatchTypeOK
  <2>1. submitted \in 0..Len(Modes) /\ faults \in 0..MaxFaults /\ results \in Seq(Jobs)
    BY <1>1 DEF Init
  <2>2. DOMAIN episode = Jobs /\ late \in [Jobs -> Nat]
    BY DEF Init
  <2>3. pending \subseteq 1..submitted /\ arrived \subseteq 1..submitted
    BY DEF Init
  <2> QED
    BY <2>1, <2>2, <2>3 DEF Init, BatchTypeOK
<1>3. LateOK
  <2>1. ASSUME NEW j \in Jobs
        PROVE  /\ late[j] = 0 /\ episode[j] = NewEpisode /\ NewEpisode.pc = "new"
               /\ 0 <= Allowed(j, NewEpisode)
    BY DEF Init, NewEpisode, Allowed, AfterTurn, Begun, EndPlaces
  <2> QED
    BY <2>1 DEF LateOK
<1> QED
  BY <1>2, <1>3, NewEpisodeOK DEF Init, XInv, HaltOK

LEMMA XNext == XInv /\ [Next]_vars => XInv'
<1>1. ASSUME XInv, UNCHANGED vars PROVE XInv'
  BY <1>1 DEF vars, XInv, BatchTypeOK, HaltOK, LateOK
<1> QED
  BY <1>1, WorksStep, FillStep, WaitStep, CollectStep, LeaveStep
     DEF Next, Coordinates, Finished

LEMMA XHolds == Spec => []XInv
  BY XInit, XNext, PTL DEF Spec

\* Every submitted job is waited for, or has arrived, or has its one result; a batch
\* that is halted is one whose results hold enough errors; and a coordinator that has
\* nothing to wait for has nothing left to submit.
Running == coordinator \notin {"unwind", "raised"}

Reported == {results[n] : n \in DOMAIN results}

Accounted ==
  /\ 1..submitted \subseteq pending \cup arrived \cup Reported
  /\ Reported \subseteq (1..submitted) \ (pending \cup arrived)
  /\ pending \cap arrived = {}
  /\ \A m, n \in DOMAIN results : results[m] = results[n] => m = n
  /\ \A j \in arrived : Ended(j)
  /\ \A j \in Reported : episode[j].pc = "done"
  /\ halted <=> Errors(results) >= MaxErrors
  /\ arrived # {} => coordinator = "collect"
  /\ coordinator \in {"wait", "returned"} /\ pending = {} => stopped \/ submitted = Len(Modes)
  /\ coordinator = "returned" => pending = {}

YInv == XInv /\ (Running => Accounted)

\* The rows that report an error, and their number as results come in.
ErrorRows(s) == {i \in DOMAIN s : IntegrationError(episode[s[i]])}

LEMMA ErrorRowsFinite == \A s \in Seq(Jobs) : IsFiniteSet(ErrorRows(s)) /\ Errors(s) \in Nat
<1> SUFFICES ASSUME NEW s \in Seq(Jobs) PROVE IsFiniteSet(ErrorRows(s)) /\ Errors(s) \in Nat
  OBVIOUS
<1>1. IsFiniteSet(DOMAIN s)
  BY LenProperties, FS_Interval
<1>2. IsFiniteSet(ErrorRows(s))
  BY <1>1, FS_Subset DEF ErrorRows
<1> QED
  BY <1>2, FS_CardinalityType DEF Errors, ErrorRows

LEMMA ErrorsGrow ==
  ASSUME NEW s \in Seq(Jobs), NEW j \in Jobs
  PROVE  Errors(s) <= Errors(Append(s, j)) /\ Errors(Append(s, j)) \in Nat
<1> DEFINE t == Append(s, j)
<1>1. t \in Seq(Jobs) /\ DOMAIN s \subseteq DOMAIN t /\ \A i \in DOMAIN s : t[i] = s[i]
  BY AppendProperties, LenProperties
<1>2. ErrorRows(s) \in SUBSET ErrorRows(t)
  <2> HIDE DEF t
  <2> QED
    BY <1>1 DEF ErrorRows
<1>3. IsFiniteSet(ErrorRows(t)) /\ Errors(t) \in Nat
  BY <1>1, ErrorRowsFinite
<1>4. Cardinality(ErrorRows(s)) <= Cardinality(ErrorRows(t))
  BY <1>2, <1>3, FS_Subset
<1> QED
  BY <1>3, <1>4 DEF Errors, ErrorRows

\* Reported jobs keep their episodes, so the errors counted stay counted.
LEMMA ErrorsStay ==
  ASSUME results' = results, \A j \in Reported : episode'[j] = episode[j]
  PROVE  Errors(results)' = Errors(results)
<1>1. \A i \in DOMAIN results : episode'[results[i]] = episode[results[i]]
  BY DEF Reported
<1>2. \A i \in DOMAIN results :
        IntegrationError(episode'[results[i]]) = IntegrationError(episode[results[i]])
  BY <1>1
<1>3. {i \in DOMAIN results' : IntegrationError(episode'[results'[i]])}
        = {i \in DOMAIN results : IntegrationError(episode[results[i]])}
  BY <1>2
<1> QED
  BY <1>3 DEF Errors

LEMMA YWorks == ASSUME YInv, NEW j \in Jobs, Works(j) PROVE (Running => Accounted)'
<1>1. /\ ~Ended(j) /\ UNCHANGED batch
      /\ \A i \in Jobs : i # j => episode'[i] = episode[i]
  BY WorkFrame DEF YInv
<1>2. Running' = Running
  BY <1>1 DEF Running, batch
<1> SUFFICES ASSUME Running, Accounted PROVE Accounted'
  BY <1>2 DEF YInv
<1>3. Reported' = Reported /\ Reported \subseteq 1..submitted /\ arrived \subseteq 1..submitted
  BY <1>1 DEF batch, Reported, Accounted, YInv, XInv, BatchTypeOK
<1>4. 1..submitted \subseteq Jobs
  BY JobNumbers DEF YInv, XInv, BatchTypeOK
<1>5. \A i \in Reported : i # j /\ episode'[i] = episode[i]
  BY <1>1, <1>3, <1>4 DEF Accounted, Ended
<1>6. \A i \in arrived : i # j /\ episode'[i] = episode[i]
  BY <1>1, <1>3, <1>4 DEF Accounted
<1>7. Errors(results)' = Errors(results)
  BY <1>1, <1>5, ErrorsStay DEF batch
<1>8. (\A i \in arrived : Ended(i))'
  BY <1>1, <1>6 DEF Accounted, Ended, batch
<1> QED
  BY <1>1, <1>3, <1>5, <1>7, <1>8 DEF Accounted, batch

LEMMA YFill == ASSUME YInv, Fill PROVE Accounted'
<1> DEFINE taken == IF MayFill THEN Room ELSE {}
           upto == submitted + Cardinality(taken)
<1>1. /\ Cardinality(taken) \in Nat /\ upto \in 0..Len(Modes)
      /\ taken = (submitted + 1)..upto
      /\ stopped => taken = {} /\ upto = submitted
      /\ ~stopped /\ pending = {} /\ submitted # Len(Modes) => taken # {}
  BY FillTakes DEF YInv
<1>2. /\ coordinator = "fill" /\ coordinator' = "wait"
      /\ submitted' = upto /\ pending' = pending \cup taken
      /\ episode' = [j \in Jobs |-> IF j \in taken THEN [NewEpisode EXCEPT !.pc = "queued"]
                                    ELSE episode[j]]
      /\ UNCHANGED <<stopped, arrived, results, halted, halts, late, faults>>
  BY DEF Fill
<1>3. submitted \in Nat /\ Accounted /\ arrived = {} /\ Len(Modes) \in Nat /\ Jobs = 1..Len(Modes)
  BY <1>2, JobNumbers DEF YInv, XInv, BatchTypeOK, Running, Accounted
<1> HIDE DEF taken
<1>4. submitted <= upto /\ upto \in Nat
  BY <1>1, <1>3
<1> HIDE DEF upto
<1>5. Reported' = Reported /\ Reported \subseteq 1..submitted /\ pending \subseteq 1..submitted
  BY <1>2, <1>3 DEF Reported, Accounted, YInv, XInv, BatchTypeOK
<1>6. 1..upto = 1..submitted \cup taken /\ 1..submitted \cap taken = {}
  BY <1>1, <1>3, <1>4
<1>7. \A j \in Reported : j \in Jobs /\ j \notin taken /\ episode'[j] = episode[j]
  <2>1. \A j \in Reported : j \in Jobs /\ j \notin taken
    BY <1>1, <1>3, <1>4, <1>5, <1>6
  <2> QED
    BY <1>2, <2>1
<1>8. Errors(results)' = Errors(results)
  BY <1>2, <1>7, ErrorsStay
<1>9. pending' = {} => stopped' \/ submitted' = Len(Modes)
  <2> SUFFICES ASSUME pending' = {}, ~stopped PROVE upto = Len(Modes)
    BY <1>2
  <2>1. pending = {} /\ taken = {} /\ submitted = Len(Modes)
    BY <1>1, <1>2
  <2> QED
    BY <1>1, <1>3, <1>4, <2>1
<1>10. /\ (1..submitted \subseteq pending \cup arrived \cup Reported)'
       /\ (Reported \subseteq (1..submitted) \ (pending \cup arrived))'
       /\ (pending \cap arrived = {})'
  BY <1>2, <1>3, <1>5, <1>6 DEF Accounted
<1> QED
  BY <1>2, <1>3, <1>5, <1>7, <1>8, <1>9, <1>10 DEF Accounted

LEMMA YWait == ASSUME YInv, Wait PROVE Accounted'
<1>1. /\ UNCHANGED <<stopped, submitted, results, halted, halts, episode, late, faults>>
      /\ coordinator = "wait" /\ coordinator' = "collect"
      /\ arrived' = {j \in pending : Ended(j)} /\ pending' = pending \ arrived'
  BY DEF Wait
<1>2. Accounted /\ arrived = {} /\ Reported' = Reported
  BY <1>1 DEF YInv, Running, Accounted, Reported
<1>3. Errors(results)' = Errors(results)
  BY <1>1 DEF Errors
<1>4. (\A j \in arrived : Ended(j))'
  BY <1>1 DEF Ended
<1> QED
  BY <1>1, <1>2, <1>3, <1>4 DEF Accounted

LEMMA YCollect == ASSUME YInv, NEW j \in Jobs, Collect(j) PROVE (Running => Accounted)'
<1> SUFFICES ASSUME coordinator' # "unwind" PROVE Accounted'
  BY DEF Running
<1>1. /\ coordinator = "collect" /\ j \in arrived /\ arrived' = arrived \ {j}
      /\ ~At(j, "raised") /\ results' = Append(results, j)
      /\ halted' = (halted \/ HaltsNow(results'))
      /\ coordinator' = IF arrived' = {} THEN "fill" ELSE "collect"
      /\ UNCHANGED <<submitted, pending, episode, late>>
  BY DEF Collect, Unwinds
<1>2. /\ Accounted /\ results \in Seq(Jobs) /\ halted \in BOOLEAN
      /\ arrived \subseteq 1..submitted
  BY <1>1 DEF YInv, XInv, BatchTypeOK, Running
<1>3. /\ Len(results) \in Nat /\ DOMAIN results = 1..Len(results)
      /\ DOMAIN results' = 1..(Len(results) + 1)
      /\ results'[Len(results) + 1] = j
      /\ \A n \in DOMAIN results : results'[n] = results[n]
  BY <1>1, <1>2, AppendProperties, LenProperties
<1>4. Reported' = Reported \cup {j}
  <2>1. DOMAIN results' = DOMAIN results \cup {Len(results) + 1}
    BY <1>3
  <2> QED
    BY <1>3, <2>1 DEF Reported
<1>5. j \notin Reported /\ j \notin pending
  BY <1>1, <1>2 DEF Accounted
<1>6. \A m, n \in DOMAIN results' : results'[m] = results'[n] => m = n
  <2>1. \A n \in DOMAIN results : results'[n] # j
    BY <1>3, <1>5 DEF Reported
  <2>2. \A n \in DOMAIN results' : n \in DOMAIN results \/ n = Len(results) + 1
    BY <1>3
  <2> QED
    BY <1>2, <1>3, <2>1, <2>2 DEF Accounted
<1>7. Errors(results)' = Errors(results') /\ Errors(results) <= Errors(results')
      /\ Errors(results) \in Nat /\ Errors(results') \in Nat /\ MaxErrors \in Nat
  BY <1>1, <1>2, ErrorsGrow, ErrorRowsFinite, ExperimentAssumption DEF Errors
<1>8. (halted <=> Errors(results) >= MaxErrors)'
  <2>1. halted <=> Errors(results) >= MaxErrors
    BY <1>2 DEF Accounted
  <2>2. halted' <=> halted \/ Errors(results') >= MaxErrors
    BY <1>1, <1>2 DEF HaltsNow
  <2>3. Errors(results) >= MaxErrors => Errors(results') >= MaxErrors
    BY <1>7
  <2> QED
    BY <1>7, <2>1, <2>2, <2>3
<1>9. episode[j].pc = "done" /\ (\A i \in arrived : Ended(i))'
  BY <1>1, <1>2 DEF Accounted, Ended, At
<1>10. /\ (1..submitted \subseteq pending \cup arrived \cup Reported)'
       /\ (Reported \subseteq (1..submitted) \ (pending \cup arrived))'
       /\ (pending \cap arrived = {})'
  BY <1>1, <1>2, <1>4, <1>5 DEF Accounted
<1>11. (\A i \in Reported : episode[i].pc = "done")'
  BY <1>1, <1>2, <1>4, <1>9 DEF Accounted
<1>12. coordinator' \in {"fill", "collect"} /\ (arrived' # {} => coordinator' = "collect")
  BY <1>1
<1> QED
  BY <1>6, <1>8, <1>9, <1>10, <1>11, <1>12 DEF Accounted

LEMMA YReturn == ASSUME YInv, Return PROVE Accounted'
<1>1. /\ UNCHANGED <<stopped, submitted, pending, arrived, results, halted, halts, episode,
                     late, faults>>
      /\ coordinator = "wait" /\ coordinator' = "returned" /\ pending = {}
  BY DEF Return
<1>2. Accounted /\ Reported' = Reported /\ Errors(results)' = Errors(results)
  BY <1>1 DEF YInv, Running, Reported, Errors
<1> QED
  BY <1>1, <1>2 DEF Accounted, Ended

LEMMA YInit == Init => YInv
<1> SUFFICES ASSUME Init PROVE YInv
  OBVIOUS
<1>1. DOMAIN results = {} /\ Reported = {} /\ 1..submitted = {}
  BY EmptySeq DEF Init, Reported
<1>2. Errors(results) = 0 /\ MaxErrors > 0
  BY <1>1, FS_EmptySet, ExperimentAssumption DEF Errors
<1>3. halted <=> Errors(results) >= MaxErrors
  <2>1. 0 \in Nat /\ MaxErrors \in Nat /\ ~halted
    BY ExperimentAssumption DEF Init
  <2> QED
    BY <1>2, <2>1
<1>4. coordinator = "fill" /\ arrived = {} /\ pending = {}
  BY DEF Init
<1> QED
  BY <1>1, <1>3, <1>4, XInit DEF YInv, Accounted

LEMMA YNext == YInv /\ [Next]_vars => YInv'
<1> SUFFICES ASSUME YInv, [Next]_vars PROVE (Running => Accounted)'
  BY XNext DEF YInv
<1>1. ASSUME UNCHANGED vars PROVE (Running => Accounted)'
  <2>1. Reported' = Reported /\ Errors(results)' = Errors(results) /\ Running' = Running
    BY <1>1 DEF vars, Reported, Errors, Running
  <2> QED
    BY <1>1, <2>1 DEF vars, YInv, Accounted, Ended
<1>2. ASSUME PoolExits PROVE (Running => Accounted)'
  BY <1>2 DEF PoolExits, Running
<1> QED
  BY <1>1, <1>2, YWorks, YFill, YWait, YCollect, YReturn DEF Next, Coordinates, Finished

LEMMA YHolds == Spec => []YInv
  BY YInit, YNext, PTL DEF Spec

-------------------------------------------------------------------------------
\* Every variable of the batch and of its episodes keeps its type, for any plan and
\* any bounds (batch.py:50-98, benchmark.py:560-745).
THEOREM BatchTypeCorrect == Spec => []TypeOK
<1>1. XInv => TypeOK
  <2> SUFFICES ASSUME XInv PROVE TypeOK
    OBVIOUS
  <2>1. \A j \in Jobs : episode[j] \in Episodes
    BY HasEpisode
  <2>2. halts \in Nat
    BY DEF XInv, HaltOK
  <2> QED
    BY <2>1, <2>2 DEF XInv, BatchTypeOK, TypeOK, Episodes
<1> QED
  BY <1>1, XHolds, PTL

\* A guarded write ran only after a yes to this very proposal, in every episode of
\* every batch (benchmark.py:272-312).
THEOREM NoWriteWithoutYes == Spec => []WritesHadAYes
<1>1. XInv => WritesHadAYes
  BY DEF XInv, EpisodeOK, Truthful, WritesHadAYes
<1> QED
  BY <1>1, XHolds, PTL

\* An episode is scored on exactly the writes that ran, and refused for a difference
\* only if some record could not be read (benchmark.py:112-136, 344-359, 633).
THEOREM ScoredWhatRan == Spec => []ScoredAsRun
<1>1. XInv => ScoredAsRun
  BY DEF XInv, EpisodeOK, Judged, ScoredAsRun
<1> QED
  BY <1>1, XHolds, PTL

\* After the stop nothing is submitted, the halt is told once, and each worker begins
\* two more steps at most, four behind a guard, where a confirmation, its write and the
\* judge follow without a look at the flag: for any number of workers and any errors
\* (batch.py:50-98, benchmark.py:287-290, 481-485).
THEOREM StopIsForGood == Spec => HaltIsFinal
<1>1. ASSUME XInv, [Next]_vars
      PROVE  [/\ stopped => submitted' = submitted
              /\ halts' <= 1
              /\ \A j \in Jobs : late'[j] <= StepsAfterStop[Modes[j]]]_vars
  <2>1. XInv'
    BY <1>1, XNext
  <2>2. halts' <= 1 /\ \A j \in Jobs : late'[j] <= StepsAfterStop[Modes[j]]
    <3>1. halts' <= 1
      BY <2>1 DEF XInv, HaltOK
    <3>2. ASSUME NEW j \in Jobs PROVE late'[j] <= StepsAfterStop[Modes[j]]
      <4>1. Modes[j] \in {"baseline", "guarded"}
        BY ExperimentAssumption, ElementOfSeq DEF Jobs
      <4>2. /\ late'[j] \in Nat /\ late'[j] <= Allowed(j, episode'[j])
            /\ episode'[j].pc \in {"confirming", "executing"} => Modes[j] = "guarded"
            /\ episode'[j].tries \in {0, 1}
        BY <2>1 DEF XInv, BatchTypeOK, LateOK, EpisodeOK, Episodes, Allowed, AfterTurn
      <4> QED
        BY <4>1, <4>2 DEF Allowed, AfterTurn, StepsAfterStop
    <3> QED
      BY <3>1, <3>2
  <2>3. ASSUME stopped, Next PROVE submitted' = submitted
    <3>1. CASE Fill
      BY <1>1, <2>3, <3>1, FillTakes DEF Fill
    <3>2. CASE \E j \in Jobs : Works(j)
      BY <1>1, <3>2, WorkFrame DEF batch
    <3>3. CASE Wait \/ (\E j \in Jobs : Collect(j)) \/ Return \/ PoolExits \/ Finished
      BY <3>3 DEF Wait, Collect, Return, PoolExits, Finished, vars
    <3> QED
      BY <2>3, <3>1, <3>2, <3>3 DEF Next, Coordinates
  <2> QED
    BY <1>1, <2>2, <2>3
<1> QED
  BY <1>1, XHolds, PTL DEF Spec, HaltIsFinal

\* A batch that returns has one result per submitted job, left no host open, and
\* stopped early only for the errors it reports (batch.py:61-98, benchmark.py:720-725).
THEOREM ReturnIsComplete == Spec => []ReturnAccountsForAll
<1>1. ASSUME YInv, coordinator = "returned"
      PROVE  /\ \A j \in 1..submitted :
                  /\ Cardinality({i \in DOMAIN results : results[i] = j}) = 1
                  /\ episode[j].host # "open"
             /\ Len(results) = submitted
             /\ halted <=> Errors(results) >= MaxErrors
             /\ submitted < Len(Modes) => halted
  <2>1. /\ Accounted /\ pending = {} /\ arrived = {}
        /\ submitted \in Nat /\ results \in Seq(Jobs) /\ submitted <= Len(Modes)
        /\ Len(Modes) \in Nat /\ Jobs = 1..Len(Modes)
    BY <1>1, JobNumbers DEF YInv, XInv, BatchTypeOK, Running, Accounted
  <2>2. Reported = 1..submitted /\ 1..submitted \subseteq Jobs
    <3>1. 1..submitted \subseteq Reported /\ Reported \subseteq 1..submitted
      BY <2>1 DEF Accounted
    <3>2. 1..submitted \subseteq Jobs
      BY <2>1
    <3> QED
      BY <3>1, <3>2
  <2>3. \A j \in 1..submitted : episode[j].host # "open"
    BY <1>1, <2>1, <2>2 DEF Accounted, YInv, XInv, EpisodeOK
  <2>4. ASSUME NEW j \in 1..submitted
        PROVE  Cardinality({i \in DOMAIN results : results[i] = j}) = 1
    <3>1. PICK n \in DOMAIN results : results[n] = j
      BY <2>2 DEF Reported
    <3>2. {i \in DOMAIN results : results[i] = j} = {n}
      BY <2>1, <3>1 DEF Accounted
    <3> QED
      BY <3>2, FS_Singleton
  <2>5. Len(results) = submitted
    <3>1. /\ DOMAIN results = 1..Len(results) /\ Len(results) \in Nat
          /\ results \in [1..Len(results) -> 1..submitted]
      BY <2>1, <2>2, LenProperties DEF Reported
    <3>2. results \in Injection(1..Len(results), 1..submitted)
      <4>1. \A m, n \in 1..Len(results) : results[m] = results[n] => m = n
        BY <2>1, <3>1 DEF Accounted
      <4> QED
        BY <3>1, <4>1 DEF Injection, IsInjective
    <3>3. \A j \in 1..submitted : \E n \in 1..Len(results) : results[n] = j
      BY <2>2, <3>1 DEF Reported
    <3>4. results \in Surjection(1..Len(results), 1..submitted)
      BY <3>1, <3>3 DEF Surjection
    <3>5. ExistsBijection(1..Len(results), 1..submitted)
      BY <3>2, <3>4 DEF ExistsBijection, Bijection
    <3>6. Cardinality(1..submitted) = Len(results)
      BY <3>1, <3>5, FS_CountingElements
    <3>7. Cardinality(1..submitted) = IF 1 > submitted THEN 0 ELSE submitted - 1 + 1
      BY <2>1, FS_Interval
    <3> QED
      BY <2>1, <3>6, <3>7
  <2>6. submitted < Len(Modes) => halted
    BY <1>1, <2>1 DEF Accounted, YInv, XInv, HaltOK
  <2> QED
    BY <2>1, <2>3, <2>4, <2>5, <2>6 DEF Accounted
<1>2. YInv => ReturnAccountsForAll
  BY <1>1 DEF ReturnAccountsForAll
<1> QED
  BY <1>2, YHolds, PTL

-------------------------------------------------------------------------------
\* What an episode leaves on disk.

\* A scored episode saved its trajectory; one that ended without an error is scored,
\* and, if guarded, has a journal.
SavedOK(j, e) ==
  /\ e.scored => e.trajectory = "whole"
  /\ e.error # "none" => e.pc \in EndPlaces
  /\ e.error = "none" /\ e.pc \in {"finally", "done"} => e.scored
  /\ Modes[j] = "guarded" /\ e.journal = "none" /\ e.error = "none"
       => e.pc \in {"new", "queued", "raised"}

\* One turn of an episode: on to another place, with nothing new on disk, or to its
\* end, with an error.
Onward(e, f) ==
  /\ f.scored = e.scored /\ f.trajectory = e.trajectory /\ f.journal = e.journal
  /\ \/ f.error = e.error /\ f.pc \notin EndPlaces
     \/ f.error # "none" /\ f.pc = "finally"

LEMMA OnwardOK ==
  ASSUME NEW j \in Jobs, NEW e, NEW f, EpisodeOK(e), SavedOK(j, e), Onward(e, f),
         e.pc \notin EndPlaces \cup {"new", "queued"}
  PROVE  SavedOK(j, f)
  BY DEF EpisodeOK, Judged, SavedOK, Onward, EndPlaces

\* An exception is an error, and ends the episode.
LEMMA RaiseOnward ==
  ASSUME NEW e, NEW f \in Episodes, f.scored = e.scored, f.trajectory = e.trajectory,
         f.journal = e.journal, NEW kind \in ErrorKinds \ {"none"}
  PROVE  Onward(e, Raise(f, kind))
<1> DEFINE g == Raise(f, kind)
<1>1. g.pc = "finally" /\ g.error = kind /\ g.scored = f.scored
      /\ g.trajectory = f.trajectory /\ g.journal = f.journal
  BY DEF Raise, Episodes
<1> HIDE DEF g
<1>2. Onward(e, g)
  BY <1>1 DEF Onward
<1> QED
  BY <1>2 DEF g

LEMMA CalledOnward ==
  ASSUME NEW e \in Episodes, NEW call
  PROVE  Onward(e, Called(e, call)) /\ Called(e, call).pc = "agent"
<1> DEFINE f == Called(e, call)
<1>1. /\ f.pc = "agent" /\ f.scored = e.scored /\ f.trajectory = e.trajectory
      /\ f.journal = e.journal /\ f.error = e.error
  BY DEF Called, Episodes
<1> HIDE DEF f
<1>2. Onward(e, f)
  BY <1>1 DEF Onward, EndPlaces
<1> QED
  BY <1>1, <1>2 DEF f

LEMMA BecomesIt == ASSUME XInv, NEW j \in Jobs, NEW f, Becomes(j, f) PROVE episode'[j] = f
  BY DEF XInv, BatchTypeOK, Becomes

\* The steps between the opening of an episode and its score.
Turn(j) ==
  StopCheck(j) \/ Generate(j) \/ Reply(j) \/ Act(j) \/ RunEnds(j) \/ Call(j) \/ Confirm(j)
    \/ Execute(j)

LEMMA TurnOnward == ASSUME XInv, NEW j \in Jobs, Turn(j) PROVE Onward(episode[j], episode'[j])
<1> DEFINE e == episode[j]
<1>1. e \in Episodes
  BY HasEpisode
<1> HIDE DEF e
<1>2. \A kind \in ErrorKinds \ {"none"} : Onward(e, Raise(e, kind))
  BY <1>1, RaiseOnward
<1> DEFINE Moved(f) ==
      /\ f.scored = e.scored /\ f.trajectory = e.trajectory /\ f.journal = e.journal
      /\ f.error = e.error /\ f.pc \notin EndPlaces
<1>3. \A f : Moved(f) => Onward(e, f)
  BY DEF Onward
<1>4. ASSUME StopCheck(j) PROVE \E f : Onward(e, f) /\ Becomes(j, f)
  <2> DEFINE f == [e EXCEPT !.pc = After[e.pc]]
  <2>1. Moved(f)
    BY <1>1, <1>4 DEF StopCheck, Checkpoints, After, Episodes, EndPlaces, e
  <2> QED
    BY <1>2, <1>3, <1>4, <2>1 DEF StopCheck, Goto, ErrorKinds, e
<1>5. ASSUME Generate(j) PROVE \E f : Onward(e, f) /\ Becomes(j, f)
  <2> DEFINE usable(m) == [e EXCEPT !.pc = IF m.calls = 1 THEN "tool" ELSE "customer",
                                    !.attempt = 0, !.turns = @ + 1, !.burst = 0]
             again == [e EXCEPT !.pc = "agent", !.attempt = @ + 1]
  <2>1. Moved(again) /\ \A m \in Messages : Moved(usable(m))
    BY <1>1 DEF Episodes, EndPlaces
  <2>2. \/ \E m \in Messages : Becomes(j, usable(m))
        \/ Becomes(j, again)
        \/ \E kind \in {"listed", "other", "protocol"} : Becomes(j, Raise(e, kind))
    BY <1>5 DEF Generate, e
  <2> HIDE DEF usable, again, Moved
  <2> QED
    BY <1>2, <1>3, <2>1, <2>2 DEF ErrorKinds
<1>6. ASSUME Reply(j) PROVE \E f : Onward(e, f) /\ Becomes(j, f)
  <2> DEFINE speaks == ~e.handoff /\ e.burst < MaxBurst
             goes(p) == [e EXCEPT !.pc = p, !.turns = IF speaks THEN @ + 1 ELSE @]
  <2>1. \A p \in {"agent", "device", "scoring"} : Moved(goes(p))
    BY <1>1 DEF Episodes, EndPlaces
  <2>2. \/ \E p \in {"agent", "device", "scoring"} : Becomes(j, goes(p))
        \/ \E kind \in {"listed", "other"} : Becomes(j, Raise(e, kind))
    BY <1>6 DEF Reply, e
  <2> HIDE DEF goes, Moved
  <2> QED
    BY <1>2, <1>3, <2>1, <2>2 DEF ErrorKinds
<1>7. ASSUME Act(j) \/ RunEnds(j) PROVE \E f : Onward(e, f) /\ Becomes(j, f)
  <2> DEFINE acted == [e EXCEPT !.pc = "customer", !.burst = @ + 1]
             over == [e EXCEPT !.pc = "scoring"]
  <2>1. Moved(acted) /\ Moved(over)
    BY <1>1 DEF Episodes, EndPlaces
  <2>2. Becomes(j, acted) \/ Becomes(j, over)
    BY <1>7 DEF Act, RunEnds, Goto, e
  <2> HIDE DEF acted, over, Moved
  <2> QED
    BY <1>3, <2>1, <2>2
<1>8. ASSUME Call(j) PROVE \E f : Onward(e, f) /\ Becomes(j, f)
  <2> DEFINE bare(over) == [e EXCEPT !.pc = "agent", !.handoff = @ \/ over]
  <2>1. \A over \in BOOLEAN : Moved(bare(over))
    BY <1>1 DEF Episodes, EndPlaces
  <2>2. \A write \in BOOLEAN : Moved(Proposed(e, write))
    BY <1>1 DEF Proposed, Episodes, EndPlaces
  <2>3. \/ \E over \in BOOLEAN : Becomes(j, bare(over))
        \/ \E write \in BOOLEAN : Becomes(j, Proposed(e, write))
    BY <1>8 DEF Call, e
  <2> HIDE DEF bare, Moved
  <2> QED
    BY <1>3, <2>1, <2>2, <2>3
<1>9. ASSUME Confirm(j) PROVE \E f : Onward(e, f) /\ Becomes(j, f)
  <2> DEFINE answered(yes) == [e EXCEPT !.pc = "executing", !.approved = yes,
                                        !.said = IF yes THEN "yes" ELSE "no"]
             again == [e EXCEPT !.tries = 1]
  <2>1. Moved(again) /\ Moved(Unusable(e)) /\ \A yes \in BOOLEAN : Moved(answered(yes))
    BY <1>1, <1>9 DEF Confirm, At, Unusable, Episodes, EndPlaces, e
  <2>2. \/ \E yes \in BOOLEAN : Becomes(j, answered(yes))
        \/ Becomes(j, Unusable(e))
        \/ Becomes(j, again)
    BY <1>9 DEF Confirm, e
  <2> HIDE DEF answered, again, Moved
  <2> QED
    BY <1>3, <2>1, <2>2
<1>10. ASSUME Execute(j) PROVE \E f : Onward(e, f) /\ Becomes(j, f)
  <2>1. e.pc = "executing" /\ EpisodeOK(e)
    BY <1>10, HasEpisode DEF Execute, At, e
  <2>2. ASSUME NEW call PROVE Onward(e, Called(e, call))
    BY <1>1, CalledOnward
  <2>3. ASSUME NEW call, Called(e, call) \in Episodes
        PROVE  Onward(e, Raise(Called(e, call), "other"))
    <3>1. /\ Called(e, call).scored = e.scored /\ Called(e, call).trajectory = e.trajectory
          /\ Called(e, call).journal = e.journal
      BY <2>2 DEF Onward
    <3> QED
      BY <2>3, <3>1, RaiseOnward DEF ErrorKinds
  <2>4. PICK call :
          \/ Becomes(j, Called(e, call))
          \/ \E over \in BOOLEAN : Becomes(j, [Called(e, call) EXCEPT !.handoff = @ \/ over])
          \/ call \in CallRecords /\ Becomes(j, Raise(Called(e, call), "other"))
    <3> DEFINE read(d, r, a) == [write |-> e.write, recorded |-> TRUE, dispatched |-> d,
                                 raised |-> r, ran |-> a, said |-> e.said]
               unread(a) == [write |-> e.write, recorded |-> FALSE, dispatched |-> FALSE,
                             raised |-> FALSE, ran |-> a, said |-> e.said]
    <3>1. \A d, r, a \in BOOLEAN : read(d, r, a) \in CallRecords /\ unread(a) \in CallRecords
      BY <1>1 DEF CallRecords, Episodes
    <3>2. \A d, r, a \in BOOLEAN : Recorded(e, d, r, a) = Called(e, read(d, r, a))
      BY DEF Recorded
    <3>3. \A a \in BOOLEAN : \/ Unrecorded(e, a) = Called(e, unread(a))
                             \/ Unrecorded(e, a) = Raise(Called(e, unread(a)), "other")
      BY DEF Unrecorded
    <3>4. \/ \E d, r, a \in BOOLEAN : Becomes(j, Recorded(e, d, r, a))
          \/ \E d, r, a \in BOOLEAN : Becomes(j, Raise(Recorded(e, d, r, a), "other"))
          \/ \E d, r, a, over \in BOOLEAN :
               Becomes(j, [Recorded(e, d, r, a) EXCEPT !.handoff = @ \/ over])
          \/ \E a \in BOOLEAN : Becomes(j, Unrecorded(e, a))
      BY <1>10 DEF Execute, WroteDown, e
    <3> HIDE DEF read, unread
    <3>5. CASE \E d, r, a \in BOOLEAN : Becomes(j, Recorded(e, d, r, a))
      BY <3>2, <3>5
    <3>6. CASE \E d, r, a \in BOOLEAN : Becomes(j, Raise(Recorded(e, d, r, a), "other"))
      BY <3>1, <3>2, <3>6
    <3>7. CASE \E d, r, a, over \in BOOLEAN :
                 Becomes(j, [Recorded(e, d, r, a) EXCEPT !.handoff = @ \/ over])
      <4>1. PICK d \in BOOLEAN, r \in BOOLEAN, a \in BOOLEAN, over \in BOOLEAN :
              Becomes(j, [Recorded(e, d, r, a) EXCEPT !.handoff = @ \/ over])
        BY <3>7
      <4>2. Recorded(e, d, r, a) = Called(e, read(d, r, a))
        BY <3>2
      <4> QED
        BY <4>1, <4>2
    <3>8. CASE \E a \in BOOLEAN : Becomes(j, Unrecorded(e, a))
      BY <3>1, <3>3, <3>8
    <3> QED
      BY <3>4, <3>5, <3>6, <3>7, <3>8
  <2>5. CASE Becomes(j, Called(e, call))
    BY <2>2, <2>5
  <2>6. CASE \E over \in BOOLEAN : Becomes(j, [Called(e, call) EXCEPT !.handoff = @ \/ over])
    <3>1. PICK over \in BOOLEAN : Becomes(j, [Called(e, call) EXCEPT !.handoff = @ \/ over])
      BY <2>6
    <3> DEFINE f == [Called(e, call) EXCEPT !.handoff = @ \/ over]
    <3>2. Moved(f)
      BY <1>1 DEF Called, Episodes, EndPlaces
    <3> HIDE DEF Moved
    <3> QED
      BY <1>3, <3>1, <3>2
  <2>7. CASE call \in CallRecords /\ Becomes(j, Raise(Called(e, call), "other"))
    <3>1. Append(e.calls, call) \in Seq(CallRecords)
      BY <1>1, <2>7, AppendProperties DEF Episodes
    <3>2. Called(e, call) \in Episodes
      BY <1>1, <3>1 DEF Called, Episodes, Places, Checkpoints
    <3> QED
      BY <2>3, <2>7, <3>2
  <2> QED
    BY <2>4, <2>5, <2>6, <2>7
<1>11. PICK f : Onward(e, f) /\ Becomes(j, f)
  BY <1>4, <1>5, <1>6, <1>7, <1>8, <1>9, <1>10 DEF Turn
<1> QED
  BY <1>11, BecomesIt DEF e

\* Opening an episode, its score and its end.
LEMMA EndsSaved ==
  ASSUME XInv, NEW j \in Jobs, SavedOK(j, episode[j]),
         MkdirFails(j) \/ Initialize(j) \/ Score(j) \/ Finish(j) \/ FinishFails(j)
  PROVE  SavedOK(j, episode'[j])
<1> DEFINE e == episode[j]
<1>1. e \in Episodes /\ EpisodeOK(e) /\ SavedOK(j, e)
  BY HasEpisode
<1> HIDE DEF e
<1>2. ASSUME NEW f \in Episodes, f.scored = e.scored, f.error = e.error, ~e.scored,
             NEW kind \in ErrorKinds \ {"none"}
      PROVE  SavedOK(j, Raise(f, kind))
  <2> DEFINE g == Raise(f, kind)
  <2>1. g.pc = "finally" /\ g.error = kind /\ g.scored = f.scored
    BY <1>2 DEF Raise, Episodes
  <2> HIDE DEF g
  <2>2. SavedOK(j, g)
    BY <1>2, <2>1 DEF SavedOK, EndPlaces
  <2> QED
    BY <2>2 DEF g
<1>3. ASSUME MkdirFails(j) PROVE \E f : SavedOK(j, f) /\ Becomes(j, f)
  <2> DEFINE f == [e EXCEPT !.pc = "raised"]
  <2>1. f.pc = "raised" /\ f.scored = e.scored /\ f.error = e.error
        /\ f.trajectory = e.trajectory /\ e.pc = "queued" /\ Becomes(j, f)
    BY <1>1, <1>3 DEF MkdirFails, At, Goto, Episodes, e
  <2> HIDE DEF f
  <2> QED
    BY <1>1, <2>1 DEF SavedOK, EndPlaces
<1>4. ASSUME Initialize(j) PROVE \E f : SavedOK(j, f) /\ Becomes(j, f)
  <2> DEFINE with(h) == [e EXCEPT !.host = h.host, !.journal = h.journal]
             ready == IF Modes[j] = "guarded" THEN with(Opened) ELSE e
             opened == [ready EXCEPT !.pc = "agent"]
  <2>1. e.pc = "queued" /\ ~e.scored /\ e.error = "none"
    BY <1>1, <1>4 DEF Initialize, At, EpisodeOK, Judged, SavedOK, EndPlaces, e
  <2>2. \A h \in {Opened} \cup NotOpened :
          with(h) \in Episodes /\ with(h).scored = e.scored /\ with(h).error = e.error
    <3> SUFFICES ASSUME NEW h \in {Opened} \cup NotOpened
                 PROVE  with(h) \in Episodes /\ with(h).scored = e.scored /\ with(h).error = e.error
      OBVIOUS
    <3>1. h.host \in {"none", "open"} /\ h.journal \in {"none", "unpinned", "pinned"}
      BY DEF Opened, NotOpened
    <3> QED
      BY <1>1, <3>1 DEF Episodes
  <2>3. ready \in Episodes /\ ready.scored = e.scored /\ ready.error = e.error
        /\ (Modes[j] = "guarded" => ready.journal = "pinned")
    <3>1. with(Opened).journal = "pinned"
      BY <1>1 DEF Opened, Episodes
    <3> HIDE DEF with
    <3> QED
      BY <1>1, <2>2, <3>1
  <2>4. \/ stopped /\ Becomes(j, Raise(e, "halted"))
        \/ Becomes(j, opened)
        \/ \E kind \in {"listed", "other"} : Becomes(j, Raise(ready, kind))
        \/ \E kind \in {"listed", "other"} : \E h \in NotOpened : Becomes(j, Raise(with(h), kind))
    BY <1>4 DEF Initialize, e
  <2>5. SavedOK(j, opened)
    <3> HIDE DEF ready
    <3>1. opened.pc = "agent" /\ opened.scored = ready.scored /\ opened.error = ready.error
          /\ opened.journal = ready.journal
      BY <2>3 DEF Episodes
    <3> HIDE DEF opened
    <3> QED
      BY <2>1, <2>3, <3>1 DEF SavedOK, EndPlaces
  <2>6. \A kind \in {"listed", "other"} :
          /\ SavedOK(j, Raise(ready, kind))
          /\ \A h \in NotOpened : SavedOK(j, Raise(with(h), kind))
    <3> HIDE DEF ready, with
    <3> QED
      BY <1>2, <2>1, <2>2, <2>3 DEF ErrorKinds
  <2>7. SavedOK(j, Raise(e, "halted"))
    BY <1>1, <1>2, <2>1 DEF ErrorKinds
  <2> HIDE DEF opened, ready, with
  <2> QED
    BY <2>4, <2>5, <2>6, <2>7
<1>5. ASSUME Score(j) PROVE \E f : SavedOK(j, f) /\ Becomes(j, f)
  <2> DEFINE saved == [e EXCEPT !.trajectory = "whole"]
             good == [saved EXCEPT !.pc = "finally", !.scored = TRUE]
             cut(t) == [e EXCEPT !.trajectory = t]
  <2>1. e.pc = "scoring" /\ ~e.scored /\ e.error = "none"
    BY <1>1, <1>5 DEF Score, At, EpisodeOK, Judged, SavedOK, EndPlaces, e
  <2>2. \A t \in {"none", "torn", "whole"} :
          cut(t) \in Episodes /\ cut(t).scored = e.scored /\ cut(t).error = e.error
    BY <1>1 DEF Episodes
  <2>3. \/ Becomes(j, good)
        \/ Becomes(j, Raise(cut("whole"), "replay"))
        \/ \E t \in {"none", "torn", "whole"} : Becomes(j, Raise(cut(t), "other"))
    BY <1>5 DEF Score, e
  <2>4. SavedOK(j, good)
    <3>1. good.pc = "finally" /\ good.scored = TRUE /\ good.error = e.error
          /\ good.trajectory = "whole" /\ good.journal = e.journal
      BY <1>1 DEF Episodes
    <3> HIDE DEF good
    <3> QED
      BY <1>1, <2>1, <3>1 DEF SavedOK, EndPlaces
  <2>5. \A t \in {"none", "torn", "whole"} : \A kind \in {"other", "replay"} :
          SavedOK(j, Raise(cut(t), kind))
    <3> HIDE DEF cut
    <3> QED
      BY <1>2, <2>1, <2>2 DEF ErrorKinds
  <2> HIDE DEF good, cut
  <2> QED
    BY <2>3, <2>4, <2>5
<1>6. ASSUME Finish(j) \/ FinishFails(j) PROVE \E f : SavedOK(j, f) /\ Becomes(j, f)
  <2>1. e.pc = "finally"
    BY <1>6 DEF Finish, FinishFails, At, e
  <2>2. PICK p \in {"done", "raised"} : \E h : Becomes(j, [e EXCEPT !.pc = p, !.host = h])
    BY <1>6 DEF Finish, FinishFails, e
  <2> PICK h : Becomes(j, [e EXCEPT !.pc = p, !.host = h])
    BY <2>2
  <2> DEFINE f == [e EXCEPT !.pc = p, !.host = h]
  <2>3. f.pc = p /\ f.scored = e.scored /\ f.error = e.error
        /\ f.trajectory = e.trajectory /\ f.journal = e.journal
    BY <1>1 DEF Episodes
  <2>4. Becomes(j, f)
    BY <2>2
  <2> HIDE DEF f
  <2>5. SavedOK(j, f)
    BY <1>1, <2>1, <2>3 DEF SavedOK, EndPlaces
  <2> QED
    BY <2>4, <2>5
<1>7. PICK f : SavedOK(j, f) /\ Becomes(j, f)
  BY <1>3, <1>4, <1>5, <1>6
<1> QED
  BY <1>7, BecomesIt

LEMMA WorksSaved ==
  ASSUME XInv, NEW j \in Jobs, SavedOK(j, episode[j]), Works(j)
  PROVE  SavedOK(j, episode'[j]) /\ episode[j].pc # "new"
<1>1. episode[j].pc # "new"
  BY DEF Works, MkdirFails, Initialize, StopCheck, Generate, Reply, Act, RunEnds, Call,
         Confirm, Execute, Score, Finish, FinishFails, At, Checkpoints
<1>2. CASE Turn(j)
  <2>1. episode[j].pc \notin EndPlaces \cup {"new", "queued"}
    BY <1>2 DEF Turn, StopCheck, Generate, Reply, Act, RunEnds, Call, Confirm, Execute, At,
                Checkpoints, EndPlaces
  <2> QED
    BY <1>1, <1>2, <2>1, HasEpisode, TurnOnward, OnwardOK
<1> QED
  BY <1>1, <1>2, EndsSaved DEF Works, Turn

\* No job ahead of the coordinator was begun.
Untouched == \A j \in Jobs : j > submitted => episode[j].pc = "new"

ZInv == YInv /\ Untouched /\ \A j \in Jobs : SavedOK(j, episode[j])

LEMMA ZFill ==
  ASSUME ZInv, Fill PROVE (Untouched /\ \A j \in Jobs : SavedOK(j, episode[j]))'
<1> DEFINE taken == IF MayFill THEN Room ELSE {}
           upto == submitted + Cardinality(taken)
<1>1. upto \in Nat /\ taken = (submitted + 1)..upto
  BY FillTakes, JobNumbers DEF ZInv, YInv
<1>2. /\ submitted' = upto
      /\ episode' = [j \in Jobs |-> IF j \in taken THEN [NewEpisode EXCEPT !.pc = "queued"]
                                    ELSE episode[j]]
  BY DEF Fill
<1>3. submitted \in Nat /\ \A j \in Jobs : j \in Nat
  BY JobNumbers DEF ZInv, YInv, XInv, BatchTypeOK
<1>4. \A j \in Jobs : SavedOK(j, [NewEpisode EXCEPT !.pc = "queued"])
  BY DEF SavedOK, NewEpisode
<1> HIDE DEF taken
<1>5. submitted <= upto
  BY <1>1, <1>3, FillTakes DEF ZInv, YInv, taken
<1> HIDE DEF upto
<1>6. ASSUME NEW j \in Jobs, j > upto PROVE j \notin taken /\ j > submitted
  BY <1>1, <1>3, <1>5, <1>6
<1>7. Untouched'
  BY <1>2, <1>6 DEF ZInv, Untouched
<1> QED
  BY <1>2, <1>4, <1>7 DEF ZInv

LEMMA ZNext == ZInv /\ [Next]_vars => ZInv'
<1> SUFFICES ASSUME ZInv, [Next]_vars
             PROVE  (Untouched /\ \A j \in Jobs : SavedOK(j, episode[j]))'
  BY YNext DEF ZInv
<1>1. ASSUME NEW j \in Jobs, Works(j)
      PROVE  (Untouched /\ \A i \in Jobs : SavedOK(i, episode[i]))'
  <2>1. SavedOK(j, episode'[j]) /\ episode[j].pc # "new"
    BY <1>1, WorksSaved DEF ZInv, YInv
  <2>2. submitted' = submitted /\ \A i \in Jobs : i # j => episode'[i] = episode[i]
    BY <1>1, WorkFrame DEF ZInv, YInv, batch
  <2>3. \A i \in Jobs : SavedOK(i, episode'[i])
    BY <2>1, <2>2 DEF ZInv
  <2>4. \A i \in Jobs : i > submitted => episode'[i].pc = "new"
    BY <2>1, <2>2 DEF ZInv, Untouched
  <2> QED
    BY <2>2, <2>3, <2>4 DEF Untouched
<1>2. ASSUME Wait \/ (\E j \in Jobs : Collect(j)) \/ Return \/ PoolExits \/ UNCHANGED vars
      PROVE  (Untouched /\ \A i \in Jobs : SavedOK(i, episode[i]))'
  <2>1. submitted' = submitted /\ episode' = episode
    BY <1>2 DEF Wait, Collect, Return, PoolExits, vars
  <2> QED
    BY <2>1 DEF ZInv, Untouched
<1> QED
  BY <1>1, <1>2, ZFill DEF Next, Coordinates, Finished

LEMMA ZHolds == Spec => []ZInv
<1>1. Init => ZInv
  BY YInit DEF Init, ZInv, Untouched, SavedOK, NewEpisode
<1> QED
  BY <1>1, ZNext, PTL DEF Spec

\* Rows are counted once, the files are those of the report, and the rest never began.
LEMMA ReportAccounts == ASSUME ZInv, coordinator = "returned" PROVE Accounts
<1>1. /\ Accounted /\ pending = {} /\ arrived = {}
      /\ submitted \in Nat /\ results \in Seq(Jobs) /\ submitted <= Len(Modes)
      /\ Len(Modes) \in Nat /\ Jobs = 1..Len(Modes)
  BY JobNumbers DEF ZInv, YInv, XInv, BatchTypeOK, Running, Accounted
<1>2. InReport = 1..submitted /\ InReport \subseteq Jobs
  <2>1. InReport = Reported
    BY DEF InReport, Reported
  <2>2. 1..submitted \subseteq Reported /\ Reported \subseteq 1..submitted
    BY <1>1 DEF Accounted
  <2>3. 1..submitted \subseteq Jobs
    BY <1>1
  <2> QED
    BY <2>1, <2>2, <2>3
<1>3. Len(results) = Cardinality(InReport)
  <2>1. /\ DOMAIN results = 1..Len(results) /\ Len(results) \in Nat
        /\ results \in [1..Len(results) -> InReport]
    BY <1>1, LenProperties DEF InReport
  <2>2. results \in Injection(1..Len(results), InReport)
    BY <1>1, <2>1 DEF Accounted, Injection, IsInjective
  <2>3. results \in Surjection(1..Len(results), InReport)
    BY <2>1 DEF InReport, Surjection
  <2>4. ExistsBijection(1..Len(results), InReport)
    BY <2>2, <2>3 DEF ExistsBijection, Bijection
  <2> QED
    BY <2>1, <2>4, FS_CountingElements
<1>4. ResultFiles = InReport
  <2>1. \A j \in InReport : episode[j].pc = "done"
    BY <1>1 DEF Accounted, InReport, Reported
  <2>2. \A j \in Jobs : episode[j].pc = "done" => j \in 1..submitted
    BY <1>1 DEF ZInv, Untouched
  <2> QED
    BY <1>2, <2>1, <2>2 DEF ResultFiles, At
<1> QED
  BY <1>2, <1>3, <1>4 DEF Accounts, Unstarted

\* The scorer is stopped only by what a failure left, and believes what was scored.
LEMMA RowsAreLive ==
  ASSUME ZInv, coordinator = "returned", NEW j \in InReport
  PROVE  /\ Refused(j) => episode[j].journal = "unpinned" \/ episode[j].trajectory = "torn"
         /\ Credited(j) => Kept(episode[j]) = Ran(episode[j])
         /\ Credited(j) <=> episode[j].scored
<1>1. j \in Jobs /\ episode[j].pc = "done"
  <2>1. Accounted /\ results \in Seq(Jobs)
    BY DEF ZInv, YInv, XInv, BatchTypeOK, Running
  <2> QED
    BY <2>1, ElementOfSeq, LenProperties DEF Accounted, InReport, Reported
<1>2. /\ EpisodeOK(episode[j]) /\ SavedOK(j, episode[j]) /\ episode[j] \in Episodes
  BY <1>1, HasEpisode DEF ZInv, YInv
<1>3. Modes[j] \in {"baseline", "guarded"}
  BY <1>1, ExperimentAssumption, ElementOfSeq, LenProperties DEF Jobs
<1>4. /\ episode[j].journal \in {"none", "unpinned", "pinned"}
      /\ episode[j].trajectory \in {"none", "torn", "whole"}
      /\ episode[j].scored \in BOOLEAN
  BY <1>2 DEF Episodes
<1>5. Credited(j) <=> episode[j].scored
  BY <1>1, <1>2, <1>4 DEF Credited, ScoringSource, InvalidLiveScore, HasError, SavedOK
<1>6. Refused(j) => episode[j].journal = "unpinned" \/ episode[j].trajectory = "torn"
  <2>1. NativeReplay(j) = "refused" => episode[j].journal = "unpinned"
    <3>1. Modes[j] = "guarded" /\ episode[j].journal = "none" => HasError(j)
      BY <1>1, <1>2 DEF SavedOK, HasError
    <3>2. CASE Modes[j] = "baseline"
      BY <3>2 DEF NativeReplay
    <3>3. CASE Modes[j] = "guarded"
      BY <1>4, <3>1, <3>3 DEF NativeReplay
    <3> QED
      BY <1>3, <3>2, <3>3
  <2>2. ScoringSource(j) = "refused" => episode[j].trajectory = "torn"
    BY <1>1, <1>2, <1>4 DEF ScoringSource, InvalidLiveScore, HasError, SavedOK
  <2> QED
    BY <2>1, <2>2 DEF Refused
<1> QED
  BY <1>2, <1>5, <1>6 DEF EpisodeOK, Judged

-------------------------------------------------------------------------------
\* The plan of a batch.

\* In a finite set under a total order the ranks are 0, 1, 2, ...: those below k
\* belong to k elements.
LEMMA RanksFill ==
  ASSUME NEW D, IsFiniteSet(D), NEW b,
         \A d \in D : b[d] \in SUBSET D /\ d \notin b[d],
         \A c, d \in D : c # d => c \in b[d] \/ d \in b[c],
         \A c, d \in D : c \in b[d] => b[c] \subseteq b[d],
         NEW k \in 0..Cardinality(D)
  PROVE  Cardinality({d \in D : Cardinality(b[d]) < k}) = k
<1> DEFINE rank == [d \in D |-> Cardinality(b[d])]
           n == Cardinality(D)
           C == {d \in D : Cardinality(b[d]) < k}
<1>1. n \in Nat
  BY FS_CardinalityType
<1>2. ASSUME NEW d \in D PROVE rank[d] \in 0..(n - 1) /\ IsFiniteSet(b[d])
  <2>1. b[d] \in SUBSET D /\ d \notin b[d] /\ b[d] # D
    OBVIOUS
  <2>2. IsFiniteSet(b[d]) /\ Cardinality(b[d]) <= n /\ Cardinality(b[d]) # n
    BY <2>1, FS_Subset
  <2>3. Cardinality(b[d]) \in Nat
    BY <2>2, FS_CardinalityType
  <2> QED
    BY <1>1, <2>2, <2>3
<1>3. ASSUME NEW c \in D, NEW d \in D, c \in b[d] PROVE rank[c] < rank[d]
  <2>1. b[c] \in SUBSET b[d] /\ b[c] # b[d]
    BY <1>3
  <2>2. Cardinality(b[c]) <= Cardinality(b[d]) /\ Cardinality(b[c]) # Cardinality(b[d])
    BY <1>2, <2>1, FS_Subset
  <2>3. rank[c] \in Int /\ rank[d] \in Int
    BY <1>2
  <2> QED
    BY <2>2, <2>3
<1>4. rank \in Injection(D, 0..(n - 1))
  <2>1. \A c, d \in D : rank[c] = rank[d] => c = d
    <3> SUFFICES ASSUME NEW c \in D, NEW d \in D, c # d PROVE rank[c] # rank[d]
      OBVIOUS
    <3>1. rank[c] < rank[d] \/ rank[d] < rank[c]
      BY <1>3
    <3>2. rank[c] \in Int /\ rank[d] \in Int
      BY <1>2
    <3> HIDE DEF rank
    <3> QED
      BY <3>1, <3>2
  <2>2. rank \in [D -> 0..(n - 1)]
    BY <1>2
  <2> HIDE DEF rank
  <2> QED
    BY <2>1, <2>2 DEF Injection, IsInjective
<1>5. IsFiniteSet(0..(n - 1)) /\ Cardinality(0..(n - 1)) = n
  <2> HIDE DEF n
  <2>1. n - 1 \in Int /\ 0 \in Int
    BY <1>1
  <2> QED
    BY <1>1, <2>1, FS_Interval
<1>6. rank \in Surjection(D, 0..(n - 1))
  <2> HIDE DEF rank
  <2> QED
    BY <1>4, <1>5, FS_Injection
<1>7. k \in Nat /\ k <= n
  BY <1>1
<1> DEFINE few == [d \in C |-> rank[d]]
<1>8. few \in [C -> 0..(k - 1)]
  <2>1. ASSUME NEW d \in C PROVE few[d] \in 0..(k - 1)
    <3>1. rank[d] \in 0..(n - 1) /\ rank[d] < k
      BY <1>2
    <3> QED
      BY <1>1, <1>7, <3>1
  <2> QED
    BY <2>1
<1>9. few \in Injection(C, 0..(k - 1))
  <2>1. \A c, d \in C : few[c] = few[d] => c = d
    <3> HIDE DEF rank
    <3> QED
      BY <1>4 DEF Injection, IsInjective
  <2> HIDE DEF few, C
  <2> QED
    BY <1>8, <2>1 DEF Injection, IsInjective
<1>10. few \in Surjection(C, 0..(k - 1))
  <2>1. ASSUME NEW r \in 0..(k - 1) PROVE \E d \in C : few[d] = r
    <3>1. r \in 0..(n - 1)
      BY <1>1, <1>7
    <3>2. PICK d \in D : rank[d] = r
      <4> HIDE DEF rank
      <4> QED
        BY <1>6, <3>1 DEF Surjection
    <3>3. d \in C
      BY <1>7, <3>2
    <3> QED
      BY <3>2, <3>3
  <2> HIDE DEF few, C
  <2> QED
    BY <1>8, <2>1 DEF Surjection
<1>11. IsFiniteSet(0..(k - 1)) /\ Cardinality(0..(k - 1)) = k
  BY <1>7, FS_Interval
<1>12. Cardinality(C) = Cardinality(0..(k - 1))
  <2> HIDE DEF few, C
  <2> QED
    BY <1>9, <1>10, <1>11, FS_Injection
<1> QED
  BY <1>11, <1>12

\* Division with rest.
LEMMA DivMod ==
  ASSUME NEW a \in Nat, NEW m \in Nat, m > 0
  PROVE  /\ a \div m \in Nat /\ a % m \in Nat /\ a % m < m
         /\ a = m * (a \div m) + (a % m)
OBVIOUS

\* The shares are rounded down, and the tasks they leave over go to domains that lost
\* a part of theirs: one to each of the first in rank.
Shares(D, sizes, A, total, share, left) ==
  /\ IsFiniteSet(D) /\ A \in Nat /\ A > 0 /\ total \in Nat /\ total <= A
  /\ A = SumFunctionOnSet(sizes, D)
  /\ \A d \in D : /\ sizes[d] \in Nat /\ share[d] \in Nat /\ left[d] \in Nat
                  /\ left[d] < A /\ total * sizes[d] = A * share[d] + left[d]

LEMMA SharesLeave ==
  ASSUME NEW D, NEW sizes, NEW A, NEW total, NEW share, NEW left,
         Shares(D, sizes, A, total, share, left)
  PROVE  LET extra == total - SumFunctionOnSet(share, D)
             P == {d \in D : left[d] > 0}
         IN  /\ extra \in Nat /\ extra <= Cardinality(P)
             /\ IsFiniteSet(P) /\ Cardinality(P) <= Cardinality(D)
<1> USE DEF Shares
<1>1. PICK s \in Nat : s = SumFunctionOnSet(share, D)
  BY SumType
<1>2. PICK l \in Nat : l = SumFunctionOnSet(left, D)
  BY SumType
<1> DEFINE P == {d \in D : left[d] > 0}
<1>3. IsFiniteSet(P) /\ Cardinality(P) <= Cardinality(D) /\ Cardinality(P) \in Nat
  BY FS_Subset, FS_CardinalityType
<1>4. PICK p \in Nat : p = Cardinality(P)
  BY <1>3
<1>5. total * A = A * s + l
  <2>1. PICK u : u = [d \in D |-> total * sizes[d]]
    OBVIOUS
  <2>2. PICK zero : zero = [d \in D |-> 0]
    OBVIOUS
  <2>3. \A d \in D : u[d] = A * share[d] + left[d] /\ u[d] = total * sizes[d] + zero[d]
                     /\ zero[d] \in Nat
    BY <2>1, <2>2
  <2>4. SumFunctionOnSet(u, D) = A * SumFunctionOnSet(share, D) + SumFunctionOnSet(left, D)
    BY <2>3, SumLinear
  <2>5. SumFunctionOnSet(u, D) = total * SumFunctionOnSet(sizes, D) + SumFunctionOnSet(zero, D)
    BY <2>3, SumLinear
  <2>6. SumFunctionOnSet(zero, D) = 0
    <3>1. \A d \in D : zero[d] = IF d \in {} THEN 1 ELSE 0
      BY <2>2
    <3>2. SumFunctionOnSet(zero, D) = Cardinality({})
      BY <3>1, SumCounts
    <3> QED
      BY <3>2, FS_EmptySet
  <2> QED
    BY <1>1, <1>2, <2>4, <2>5, <2>6
<1>6. l <= A * p
  <2>1. PICK ones : ones = [d \in D |-> IF d \in P THEN 1 ELSE 0]
    OBVIOUS
  <2>2. PICK bound : bound = [d \in D |-> A * ones[d]]
    OBVIOUS
  <2>3. PICK zero : zero = [d \in D |-> 0]
    OBVIOUS
  <2>4. \A d \in D : /\ ones[d] \in Nat /\ bound[d] = A * ones[d] + zero[d]
                     /\ zero[d] \in Nat /\ bound[d] \in Nat /\ left[d] <= bound[d]
    <3> SUFFICES ASSUME NEW d \in D
                 PROVE  /\ ones[d] \in Nat /\ bound[d] = A * ones[d] + zero[d]
                        /\ zero[d] \in Nat /\ bound[d] \in Nat /\ left[d] <= bound[d]
      OBVIOUS
    <3>1. zero[d] = 0 /\ bound[d] = A * ones[d] /\ ones[d] = IF left[d] > 0 THEN 1 ELSE 0
      BY <2>1, <2>2, <2>3
    <3> QED
      BY <3>1
  <2>5. SumFunctionOnSet(left, D) <= SumFunctionOnSet(bound, D)
    BY <2>4, SumCompare
  <2>6. SumFunctionOnSet(bound, D) = A * SumFunctionOnSet(ones, D) + SumFunctionOnSet(zero, D)
    BY <2>4, SumLinear
  <2>7. SumFunctionOnSet(zero, D) = 0
    <3>1. \A d \in D : zero[d] = IF d \in {} THEN 1 ELSE 0
      BY <2>3
    <3>2. SumFunctionOnSet(zero, D) = Cardinality({})
      BY <3>1, SumCounts
    <3> QED
      BY <3>2, FS_EmptySet
  <2>8. SumFunctionOnSet(ones, D) = p
    <3>1. P \in SUBSET D /\ \A d \in D : ones[d] = IF d \in P THEN 1 ELSE 0
      BY <2>1
    <3> HIDE DEF P
    <3> QED
      BY <1>4, <3>1, SumCounts
  <2> QED
    BY <1>2, <2>5, <2>6, <2>7, <2>8
<1>7. total - s \in Nat /\ total - s <= p
  <2>1. total >= s
    <3> SUFFICES ASSUME total + 1 <= s PROVE FALSE
      OBVIOUS
    <3>1. A * (total + 1) <= A * s
      OBVIOUS
    <3> QED
      BY <1>5, <3>1
  <2>2. total <= s + p
    <3> SUFFICES ASSUME s + p + 1 <= total PROVE FALSE
      OBVIOUS
    <3>1. A * (s + p + 1) <= A * total
      OBVIOUS
    <3>2. A * (s + p + 1) = A * s + A * p + A /\ A * total = total * A
      OBVIOUS
    <3> QED
      BY <1>5, <1>6, <3>1, <3>2
  <2> QED
    BY <2>1, <2>2
<1> QED
  BY <1>1, <1>3, <1>4, <1>7

\* The allocation hands out exactly the tasks asked for, and no domain gets more than
\* it has: for any domains of any sizes (benchmark.py:71-89).
THEOREM AllocationIsExact ==
  ASSUME NEW n \in Nat, NEW sizes \in [1..n -> Nat], NEW total \in 1..Total(sizes)
  PROVE  /\ Total(Allocation(sizes, total)) = total
         /\ \A d \in 1..n : Allocation(sizes, total)[d] \in 0..sizes[d]
<1>1. DOMAIN sizes = 1..n /\ IsFiniteSet(DOMAIN sizes) /\ \A d \in DOMAIN sizes : sizes[d] \in Nat
  <2>1. n \in Int /\ 1 \in Int
    OBVIOUS
  <2>2. IsFiniteSet(1..n)
    BY <2>1, FS_Interval
  <2> QED
    BY <2>2
<1>2. PICK A \in Nat : A = Total(sizes)
  BY <1>1, SumType DEF Total
<1>3. total \in Nat /\ A > 0 /\ total <= A /\ total > 0
  BY <1>2
<1> DEFINE share == [d \in DOMAIN sizes |-> (total * sizes[d]) \div A]
           left == [d \in DOMAIN sizes |-> (total * sizes[d]) % A]
           before(d) == {c \in DOMAIN sizes : left[c] > left[d] \/ (left[c] = left[d] /\ c < d)}
           extra == total - Total(share)
           counts == [d \in DOMAIN sizes |->
                        share[d] + IF Cardinality(before(d)) < extra THEN 1 ELSE 0]
           P == {d \in DOMAIN sizes : left[d] > 0}
<1>4. Allocation(sizes, total) = counts
  BY <1>2 DEF Allocation
<1>5. ASSUME NEW d \in DOMAIN sizes
      PROVE  /\ share[d] \in Nat /\ left[d] \in Nat /\ left[d] < A
             /\ total * sizes[d] = A * share[d] + left[d]
  <2>1. PICK a \in Nat : a = total * sizes[d]
    BY <1>1, <1>3
  <2>2. /\ a \div A \in Nat /\ a % A \in Nat /\ a % A < A /\ a = A * (a \div A) + (a % A)
    BY <1>3, <2>1, DivMod
  <2>3. share[d] = a \div A /\ left[d] = a % A
    BY <2>1
  <2> HIDE DEF share, left
  <2> QED
    BY <2>1, <2>2, <2>3
<1> HIDE DEF share, left
<1>6. DOMAIN share = DOMAIN sizes /\ DOMAIN left = DOMAIN sizes
  BY DEF share, left
<1>7. /\ extra \in Nat /\ extra <= Cardinality(P) /\ IsFiniteSet(P)
      /\ Cardinality(P) <= Cardinality(DOMAIN sizes) /\ Cardinality(P) \in Nat
  <2>1. A = SumFunctionOnSet(sizes, DOMAIN sizes)
        /\ Total(share) = SumFunctionOnSet(share, DOMAIN sizes)
    BY <1>2, <1>6 DEF Total
  <2>2. LET e == total - SumFunctionOnSet(share, DOMAIN sizes)
            Q == {d \in DOMAIN sizes : left[d] > 0}
        IN  /\ e \in Nat /\ e <= Cardinality(Q)
            /\ IsFiniteSet(Q) /\ Cardinality(Q) <= Cardinality(DOMAIN sizes)
    <3>1. PICK D : D = DOMAIN sizes
      OBVIOUS
    <3>2. IsFiniteSet(D) /\ A = SumFunctionOnSet(sizes, D) /\ A > 0 /\ total \in Nat /\ total <= A
      BY <1>1, <1>3, <2>1, <3>1
    <3>3. \A d \in D : /\ sizes[d] \in Nat /\ share[d] \in Nat /\ left[d] \in Nat
                       /\ left[d] < A /\ total * sizes[d] = A * share[d] + left[d]
      BY <1>1, <1>5, <3>1
    <3>4. LET e == total - SumFunctionOnSet(share, D)
              Q == {d \in D : left[d] > 0}
          IN  /\ e \in Nat /\ e <= Cardinality(Q)
              /\ IsFiniteSet(Q) /\ Cardinality(Q) <= Cardinality(D)
      <4>1. Shares(D, sizes, A, total, share, left)
        BY <3>2, <3>3 DEF Shares
      <4> QED
        BY <4>1, SharesLeave
    <3> QED
      BY <3>1, <3>4
  <2> QED
    BY <2>1, <2>2, FS_CardinalityType
<1> DEFINE C == {d \in DOMAIN sizes : Cardinality(before(d)) < extra}
<1>8. Cardinality(C) = extra
  <2>1. PICK b : b = [d \in DOMAIN sizes |-> before(d)]
    OBVIOUS
  <2>2. \A d \in DOMAIN sizes : b[d] = before(d)
    BY <2>1
  <2>10. \A d \in DOMAIN sizes : d \in Nat /\ left[d] \in Nat
    BY <1>1, <1>5
  <2>11. \A d \in DOMAIN sizes : b[d] \in SUBSET DOMAIN sizes
    BY <2>2
  <2>12. \A c, d \in DOMAIN sizes :
           c \in b[d] <=> left[c] > left[d] \/ (left[c] = left[d] /\ c < d)
    BY <2>2
  <2> HIDE DEF before
  <2>3. \A d \in DOMAIN sizes : b[d] \in SUBSET DOMAIN sizes /\ d \notin b[d]
    <3> SUFFICES ASSUME NEW d \in DOMAIN sizes
                 PROVE  b[d] \in SUBSET DOMAIN sizes /\ d \notin b[d]
      OBVIOUS
    <3>1. d \in b[d] <=> left[d] > left[d] \/ (left[d] = left[d] /\ d < d)
      BY <2>12
    <3>2. d \in Nat /\ left[d] \in Nat
      BY <2>10
    <3>3. ~(left[d] > left[d]) /\ ~(d < d)
      BY <3>2
    <3> QED
      BY <2>11, <3>1, <3>3
  <2>4. \A c, d \in DOMAIN sizes : c # d => c \in b[d] \/ d \in b[c]
    <3> SUFFICES ASSUME NEW c \in DOMAIN sizes, NEW d \in DOMAIN sizes, c # d
                 PROVE  c \in b[d] \/ d \in b[c]
      OBVIOUS
    <3>1. left[c] \in Nat /\ left[d] \in Nat /\ c \in Nat /\ d \in Nat
      BY <2>10
    <3>2. \/ left[c] > left[d] \/ (left[c] = left[d] /\ c < d)
          \/ left[d] > left[c] \/ (left[d] = left[c] /\ d < c)
      BY <3>1
    <3> QED
      BY <2>12, <3>2
  <2>5. \A c, d \in DOMAIN sizes : c \in b[d] => b[c] \subseteq b[d]
    <3> SUFFICES ASSUME NEW c \in DOMAIN sizes, NEW d \in DOMAIN sizes, c \in b[d],
                        NEW e \in b[c]
                 PROVE  e \in b[d]
      OBVIOUS
    <3>1. e \in DOMAIN sizes
      BY <2>11
    <3>2. /\ left[c] \in Nat /\ left[d] \in Nat /\ left[e] \in Nat
          /\ c \in Nat /\ d \in Nat /\ e \in Nat
      BY <2>10, <3>1
    <3>3. /\ left[c] > left[d] \/ (left[c] = left[d] /\ c < d)
          /\ left[e] > left[c] \/ (left[e] = left[c] /\ e < c)
      BY <2>12, <3>1
    <3>4. left[e] > left[d] \/ (left[e] = left[d] /\ e < d)
      BY <3>2, <3>3
    <3> QED
      BY <2>12, <3>1, <3>4
  <2>6. Cardinality(DOMAIN sizes) \in Nat
    BY <1>1, FS_CardinalityType
  <2>7. extra \in 0..Cardinality(DOMAIN sizes)
    <3> HIDE DEF extra, P
    <3> QED
      BY <1>7, <2>6
  <2>8. Cardinality({d \in DOMAIN sizes : Cardinality(b[d]) < extra}) = extra
    <3> HIDE DEF extra, before
    <3> QED
      BY <1>1, <2>3, <2>4, <2>5, <2>7, RanksFill
  <2>9. C = {d \in DOMAIN sizes : Cardinality(b[d]) < extra}
    <3> HIDE DEF extra, before
    <3> QED
      BY <2>2
  <2> QED
    BY <2>8, <2>9
<1>9. ASSUME NEW d \in C PROVE left[d] > 0
  <2> SUFFICES ASSUME left[d] = 0 PROVE FALSE
    BY <1>5
  <2>1. P \in SUBSET before(d)
    BY <1>5
  <2>2. before(d) \in SUBSET DOMAIN sizes
    OBVIOUS
  <2>3. IsFiniteSet(before(d)) /\ Cardinality(before(d)) \in Nat
    <3> HIDE DEF before
    <3> QED
      BY <1>1, <2>2, FS_Subset, FS_CardinalityType
  <2>4. Cardinality(P) <= Cardinality(before(d))
    <3> HIDE DEF before, P
    <3> QED
      BY <2>1, <2>3, FS_Subset
  <2>5. Cardinality(before(d)) < extra
    OBVIOUS
  <2> HIDE DEF before, P, extra
  <2> QED
    BY <1>7, <2>3, <2>4, <2>5
<1>10. DOMAIN counts = DOMAIN sizes /\ \A d \in DOMAIN sizes :
          counts[d] = share[d] + (IF d \in C THEN 1 ELSE 0)
  OBVIOUS
<1> HIDE DEF counts, C, before, P, extra
<1>11. Total(counts) = total
  <2>1. PICK ones : ones = [d \in DOMAIN sizes |-> IF d \in C THEN 1 ELSE 0]
    OBVIOUS
  <2>2. \A d \in DOMAIN sizes : ones[d] = (IF d \in C THEN 1 ELSE 0) /\ ones[d] \in Nat
    BY <2>1
  <2>3. SumFunctionOnSet(ones, DOMAIN sizes) = extra
    <3>1. C \in SUBSET DOMAIN sizes
      BY DEF C
    <3> QED
      BY <1>1, <1>8, <2>2, <3>1, SumCounts
  <2>4. \A d \in DOMAIN sizes : counts[d] = 1 * share[d] + ones[d]
    BY <1>5, <1>10, <2>2
  <2>5. SumFunctionOnSet(counts, DOMAIN sizes)
          = 1 * SumFunctionOnSet(share, DOMAIN sizes) + SumFunctionOnSet(ones, DOMAIN sizes)
    <3>1. PICK one \in Nat : one = 1
      OBVIOUS
    <3>2. \A d \in DOMAIN sizes :
            share[d] \in Nat /\ ones[d] \in Nat /\ counts[d] = one * share[d] + ones[d]
      BY <1>5, <2>2, <2>4, <3>1
    <3>3. SumFunctionOnSet(counts, DOMAIN sizes)
            = one * SumFunctionOnSet(share, DOMAIN sizes) + SumFunctionOnSet(ones, DOMAIN sizes)
      <4>1. PICK D, v, w, u : D = DOMAIN sizes /\ v = share /\ w = ones /\ u = counts
        OBVIOUS
      <4>2. IsFiniteSet(D)
        BY <1>1, <4>1
      <4>3. \A d \in D : v[d] \in Nat /\ w[d] \in Nat /\ u[d] = one * v[d] + w[d]
        BY <3>2, <4>1
      <4>4. SumFunctionOnSet(u, D) = one * SumFunctionOnSet(v, D) + SumFunctionOnSet(w, D)
        BY <4>2, <4>3, SumLinear
      <4> QED
        BY <4>1, <4>4
    <3> QED
      BY <3>1, <3>3
  <2>6. Total(share) \in Nat /\ extra = total - Total(share)
    BY <1>1, <1>5, <1>6, SumType DEF Total, extra
  <2> QED
    BY <1>3, <1>6, <1>10, <2>3, <2>5, <2>6 DEF Total
<1>12. ASSUME NEW d \in DOMAIN sizes PROVE counts[d] \in 0..sizes[d]
  <2>1. PICK m \in Nat, h \in Nat, l \in Nat : m = sizes[d] /\ h = share[d] /\ l = left[d]
    BY <1>1, <1>5
  <2>2. total * m = A * h + l
    BY <1>5, <2>1
  <2>3. total * m <= A * m
    BY <1>3
  <2>4. h <= m
    <3> SUFFICES ASSUME m + 1 <= h PROVE FALSE
      BY <2>1
    <3>1. A * (m + 1) <= A * h /\ A * (m + 1) = A * m + A
      OBVIOUS
    <3> QED
      BY <1>3, <2>2, <2>3, <3>1
  <2>5. l > 0 => h < m
    <3> SUFFICES ASSUME l > 0, h = m PROVE FALSE
      BY <2>4
    <3> QED
      BY <2>2, <2>3
  <2>6. d \in C => l > 0
    BY <1>9, <2>1
  <2>7. counts[d] = h + (IF d \in C THEN 1 ELSE 0)
    BY <1>10, <2>1
  <2> QED
    BY <2>1, <2>4, <2>5, <2>6, <2>7
<1> QED
  BY <1>1, <1>4, <1>11, <1>12

-------------------------------------------------------------------------------
\* Episodes as the plan lists them.
Planneds == [domain: Nat, index: Nat, arm: Nat]

\* What Having takes of one job.
Taken(job, i, d) == IF job.index = i /\ job.domain = d THEN <<job>> ELSE << >>

LEMMA TakenType ==
  ASSUME NEW job \in Planneds, NEW i, NEW d
  PROVE  Taken(job, i, d) \in Seq(Planneds)
<1>1. <<job>> \in Seq(Planneds) /\ << >> \in Seq(Planneds)
  <2>1. <<job>> = Append(<< >>, job) /\ << >> \in Seq(Planneds)
    BY EmptySeq
  <2> QED
    BY <2>1, AppendProperties
<1> QED
  BY <1>1 DEF Taken

LEMMA HavingNone == ASSUME NEW i, NEW d PROVE Having(<< >>, i, d) = << >>
<1>1. PICK ss : ss = [k \in DOMAIN << >> |-> Taken(<< >>[k], i, d)]
  OBVIOUS
<1>2. DOMAIN << >> = {} /\ << >> \in Seq(Seq(Planneds)) /\ Len(<< >>) = 0
  BY EmptySeq
<1>3. ss = << >>
  BY <1>1, <1>2
<1>4. FlattenSeq(ss) = << >>
  BY <1>2, <1>3, FlattenType
<1> QED
  BY <1>1, <1>4 DEF Having, Taken

\* One job more.
LEMMA HavingAppend ==
  ASSUME NEW s \in Seq(Planneds), NEW job \in Planneds, NEW i, NEW d
  PROVE  /\ Having(s, i, d) \in Seq(Planneds)
         /\ Having(Append(s, job), i, d) = Having(s, i, d) \o Taken(job, i, d)
<1>1. PICK ss : ss = [k \in DOMAIN s |-> Taken(s[k], i, d)]
  OBVIOUS
<1>2. PICK n \in Nat : n = Len(s) /\ DOMAIN s = 1..n
  BY LenProperties
<1>3. \A k \in 1..n : s[k] \in Planneds
  BY <1>2, ElementOfSeq
<1>4. ss \in Seq(Seq(Planneds)) /\ Len(ss) = n
  <2>1. \A k \in 1..n : ss[k] \in Seq(Planneds)
    BY <1>1, <1>2, <1>3, TakenType
  <2>2. ss \in [1..n -> Seq(Planneds)]
    BY <1>1, <1>2, <2>1
  <2>3. ss \in Seq(Seq(Planneds))
    BY <2>2, SeqDef
  <2> QED
    BY <1>2, <2>2, <2>3, LenProperties
<1>5. Having(s, i, d) = FlattenSeq(ss)
  BY <1>1 DEF Having, Taken
<1>6. PICK t : t = Append(s, job)
  OBVIOUS
<1>7. DOMAIN t = 1..(n + 1) /\ t[n + 1] = job /\ \A k \in 1..n : t[k] = s[k]
  BY <1>2, <1>6, AppendProperties
<1>8. [k \in DOMAIN t |-> Taken(t[k], i, d)] = Append(ss, Taken(job, i, d))
  <2>1. PICK x \in Seq(Planneds) : x = Taken(job, i, d)
    BY TakenType
  <2>2. PICK tt : tt = [k \in DOMAIN t |-> Taken(t[k], i, d)]
    OBVIOUS
  <2>3. PICK uu : uu = Append(ss, x)
    OBVIOUS
  <2>4. uu \in Seq(Seq(Planneds)) /\ Len(uu) = n + 1 /\ uu[n + 1] = x
        /\ \A k \in 1..n : uu[k] = ss[k]
    BY <1>4, <2>1, <2>3, AppendProperties
  <2>5. DOMAIN uu = 1..(n + 1)
    BY <2>4, LenProperties
  <2>6. uu = [k \in 1..(n + 1) |-> uu[k]]
    BY <2>4, <2>5, SeqDef
  <2>7. \A k \in 1..(n + 1) : tt[k] = uu[k]
    <3>1. ASSUME NEW k \in 1..n PROVE tt[k] = uu[k]
      <4>1. k \in DOMAIN t /\ k \in DOMAIN s
        BY <1>2, <1>7
      <4>2. tt[k] = Taken(s[k], i, d)
        BY <1>7, <2>2, <4>1
      <4>3. ss[k] = Taken(s[k], i, d)
        BY <1>1, <4>1
      <4> QED
        BY <2>4, <4>2, <4>3
    <3>2. tt[n + 1] = x
      BY <1>7, <2>1, <2>2
    <3>3. \A k \in 1..(n + 1) : k \in 1..n \/ k = n + 1
      OBVIOUS
    <3> QED
      BY <2>4, <3>1, <3>2, <3>3
  <2>8. tt = [k \in 1..(n + 1) |-> tt[k]]
    BY <1>7, <2>2
  <2>9. tt = uu
    BY <2>6, <2>7, <2>8
  <2> QED
    BY <2>1, <2>2, <2>3, <2>9
<1>9. Having(t, i, d) = FlattenSeq(Append(ss, Taken(job, i, d)))
  <2>1. Having(t, i, d) = FlattenSeq([k \in DOMAIN t |-> Taken(t[k], i, d)])
    BY DEF Having, Taken
  <2> QED
    BY <1>8, <2>1
<1>10. FlattenSeq(Append(ss, Taken(job, i, d))) = FlattenSeq(ss) \o Taken(job, i, d)
  BY <1>4, TakenType, FlattenAppend
<1>11. FlattenSeq(ss) \in Seq(Planneds)
  BY <1>4, FlattenType
<1> QED
  BY <1>5, <1>6, <1>9, <1>10, <1>11

LEMMA HavingTakes ==
  \A s \in Seq(Planneds), job \in Planneds : \A i, d :
    Having(Append(s, job), i, d) = Having(s, i, d) \o Taken(job, i, d)
BY HavingAppend

LEMMA HavingType ==
  ASSUME NEW s \in Seq(Planneds), NEW i, NEW d
  PROVE  Having(s, i, d) \in Seq(Planneds)
<1>1. [domain |-> 0, index |-> 0, arm |-> 0] \in Planneds
  BY DEF Planneds
<1> QED
  BY <1>1, HavingAppend

\* What Having takes of two lists, one after the other.
LEMMA HavingConcat ==
  ASSUME NEW s \in Seq(Planneds), NEW t \in Seq(Planneds), NEW i, NEW d
  PROVE  Having(s \o t, i, d) = Having(s, i, d) \o Having(t, i, d)
<1> DEFINE A == {u \in Seq(Planneds) :
                   Having(s \o u, i, d) = Having(s, i, d) \o Having(u, i, d)}
<1>1. << >> \in A
  <2>1. s \o << >> = s /\ Having(<< >>, i, d) = << >> /\ << >> \in Seq(Planneds)
    BY ConcatEmptySeq, HavingNone, EmptySeq
  <2>2. Having(s, i, d) \in Seq(Planneds)
    BY HavingType
  <2>3. Having(s, i, d) \o << >> = Having(s, i, d)
    BY <2>2, ConcatEmptySeq
  <2> QED
    BY <2>1, <2>3
<1>2. ASSUME NEW u \in Seq(Planneds), NEW job \in Planneds, u \in A
      PROVE  Append(u, job) \in A
  <2>1. PICK x \in Seq(Planneds) : x = Taken(job, i, d)
    BY TakenType
  <2>2. PICK hs \in Seq(Planneds), hu \in Seq(Planneds) :
          hs = Having(s, i, d) /\ hu = Having(u, i, d)
    BY HavingType
  <2>3. s \o u \in Seq(Planneds) /\ Append(u, job) \in Seq(Planneds)
    BY ConcatProperties, AppendProperties
  <2>4. s \o Append(u, job) = Append(s \o u, job)
    <3>1. <<job>> \in Seq(Planneds)
      <4>1. <<job>> = Append(<< >>, job) /\ << >> \in Seq(Planneds)
        BY EmptySeq
      <4> QED
        BY <4>1, AppendProperties
    <3>2. Append(u, job) = u \o <<job>> /\ Append(s \o u, job) = (s \o u) \o <<job>>
      BY <2>3, AppendIsConcat
    <3>3. s \o (u \o <<job>>) = (s \o u) \o <<job>>
      BY <3>1, ConcatAssociative
    <3> QED
      BY <3>2, <3>3
  <2>5. Having(s \o Append(u, job), i, d) = (hs \o hu) \o x
    <3>1. Having(Append(s \o u, job), i, d) = Having(s \o u, i, d) \o x
      <4>1. Having(Append(s \o u, job), i, d) = Having(s \o u, i, d) \o Taken(job, i, d)
        <5>1. PICK su \in Seq(Planneds) : su = s \o u
          BY <2>3
        <5>2. Having(Append(su, job), i, d) = Having(su, i, d) \o Taken(job, i, d)
          BY HavingTakes
        <5> QED
          BY <5>1, <5>2
      <4> QED
        BY <2>1, <4>1
    <3>2. Having(s \o u, i, d) = hs \o hu
      BY <1>2, <2>2
    <3> QED
      BY <2>4, <3>1, <3>2
  <2>6. Having(Append(u, job), i, d) = hu \o x
    <3>1. Having(Append(u, job), i, d) = Having(u, i, d) \o Taken(job, i, d)
      BY HavingTakes
    <3> QED
      BY <2>1, <2>2, <3>1
  <2>7. (hs \o hu) \o x = hs \o (hu \o x)
    BY ConcatAssociative
  <2> QED
    BY <2>2, <2>3, <2>5, <2>6, <2>7
<1>3. \A u \in Seq(Planneds) : u \in A
  <2> HIDE DEF A
  <2> QED
    BY <1>1, <1>2, SequenceInduction
<1> QED
  BY <1>3

\* A list made of parts, of which one at most holds jobs of this index and domain.
OnePart(n, ss, i, d, k, b) ==
  \A m \in 1..n : Having(ss[m], i, d) = IF m = k THEN b ELSE << >>

LEMMA HavingOnePart ==
  ASSUME NEW n \in Nat, NEW ss \in [1..n -> Seq(Planneds)], NEW i, NEW d, NEW k,
         NEW b \in Seq(Planneds), OnePart(n, ss, i, d, k, b)
  PROVE  /\ FlattenSeq(ss) \in Seq(Planneds)
         /\ Having(FlattenSeq(ss), i, d) = IF k \in 1..n THEN b ELSE << >>
<1> DEFINE upto(m) == [l \in 1..m |-> ss[l]]
           Good(m) == /\ upto(m) \in Seq(Seq(Planneds)) /\ Len(upto(m)) = m
                      /\ FlattenSeq(upto(m)) \in Seq(Planneds)
                      /\ Having(FlattenSeq(upto(m)), i, d)
                           = IF k \in 1..m THEN b ELSE << >>
           A == {m \in Nat : m <= n => Good(m)}
<1>1. 0 \in A
  <2>1. upto(0) = << >> /\ << >> \in Seq(Seq(Planneds)) /\ Len(<< >>) = 0
    <3>1. 1..0 = {}
      OBVIOUS
    <3> QED
      BY <3>1, EmptySeq
  <2>2. FlattenSeq(<< >>) = << >> /\ << >> \in Seq(Planneds)
    BY <2>1, FlattenType, EmptySeq
  <2>3. Having(<< >>, i, d) = << >> /\ k \notin 1..0
    BY HavingNone
  <2>4. Good(0)
    <3> HIDE DEF upto
    <3> QED
      BY <2>1, <2>2, <2>3
  <2> QED
    BY <2>4
<1>2. ASSUME NEW m \in Nat, m \in A PROVE m + 1 \in A
  <2> SUFFICES ASSUME m + 1 <= n PROVE Good(m + 1)
    OBVIOUS
  <2>1. Good(m) /\ m + 1 \in 1..n
    BY <1>2
  <2>2. PICK s \in Seq(Planneds) : s = ss[m + 1]
    BY <2>1
  <2>3. PICK u \in Seq(Seq(Planneds)) : u = upto(m) /\ Len(u) = m
    BY <2>1
  <2>4. upto(m + 1) = Append(u, s)
    <3>1. PICK v : v = Append(u, s)
      OBVIOUS
    <3>2. v \in Seq(Seq(Planneds)) /\ Len(v) = m + 1 /\ v[m + 1] = s
          /\ \A l \in 1..m : v[l] = u[l]
      BY <2>3, <3>1, AppendProperties
    <3>3. v = [l \in 1..(m + 1) |-> v[l]]
      BY <3>2, LenProperties, SeqDef
    <3>4. \A l \in 1..(m + 1) : v[l] = ss[l]
      <4>1. \A l \in 1..m : v[l] = ss[l]
        BY <2>3, <3>2
      <4>2. \A l \in 1..(m + 1) : l \in 1..m \/ l = m + 1
        OBVIOUS
      <4> QED
        BY <2>2, <3>2, <4>1, <4>2
    <3>5. upto(m + 1) = [l \in 1..(m + 1) |-> v[l]]
      BY <3>4
    <3> QED
      BY <3>1, <3>3, <3>5
  <2>5. upto(m + 1) \in Seq(Seq(Planneds)) /\ Len(upto(m + 1)) = m + 1
    <3> HIDE DEF upto
    <3> QED
      <4>1. Append(u, s) \in Seq(Seq(Planneds)) /\ Len(Append(u, s)) = m + 1
        BY <2>3, AppendProperties
      <4> QED
        BY <2>4, <4>1
  <2>6. PICK f \in Seq(Planneds) : f = FlattenSeq(u)
    <3> HIDE DEF upto
    <3> QED
      BY <2>1, <2>3
  <2>7. FlattenSeq(upto(m + 1)) = f \o s /\ f \o s \in Seq(Planneds)
    <3> HIDE DEF upto
    <3>1. FlattenSeq(Append(u, s)) = FlattenSeq(u) \o s
      BY FlattenAppend
    <3> QED
      BY <2>4, <2>6, <3>1, ConcatProperties
  <2>8. Having(f \o s, i, d) = Having(f, i, d) \o Having(s, i, d)
    BY HavingConcat
  <2>9. Having(f, i, d) = (IF k \in 1..m THEN b ELSE << >>)
    <3> HIDE DEF upto
    <3> QED
      BY <2>1, <2>3, <2>6
  <2>10. Having(s, i, d) = (IF m + 1 = k THEN b ELSE << >>)
    BY <2>1, <2>2 DEF OnePart
  <2>11. b \o << >> = b /\ << >> \o b = b /\ << >> \o << >> = << >>
    BY EmptySeq, ConcatEmptySeq
  <2>12. Having(f \o s, i, d) = IF k \in 1..(m + 1) THEN b ELSE << >>
    <3>1. k \in 1..(m + 1) <=> k \in 1..m \/ k = m + 1
      <4>1. m + 1 \in 1..(m + 1) /\ \A l \in 1..m : l \in 1..(m + 1)
        OBVIOUS
      <4>2. \A l \in 1..(m + 1) : l \in 1..m \/ l = m + 1
        OBVIOUS
      <4> QED
        BY <4>1, <4>2
    <3>2. m + 1 \notin 1..m
      OBVIOUS
    <3> QED
      BY <2>8, <2>9, <2>10, <2>11, <3>1, <3>2
  <2> HIDE DEF upto
  <2> QED
    BY <2>5, <2>7, <2>12
<1>3. \A m \in Nat : m \in A
  <2> HIDE DEF A
  <2> QED
    BY <1>1, <1>2, Induction
<1>4. Good(n)
  <2> HIDE DEF Good
  <2> QED
    BY <1>3
<1>5. upto(n) = ss
  OBVIOUS
<1> HIDE DEF upto
<1> QED
  BY <1>4, <1>5

\* The episodes of one task.
Block(d, i, arms) == [a \in 1..arms |-> PlannedEpisode(d, i, a)]

LEMMA HavingBlock ==
  ASSUME NEW e \in Nat, NEW l \in Nat, NEW i, NEW d, NEW arms \in Nat
  PROVE  /\ Block(e, l, arms) \in Seq(Planneds)
         /\ Having(Block(e, l, arms), i, d) = IF l = i /\ e = d THEN Block(e, l, arms) ELSE << >>
<1> DEFINE Good(m) == /\ Block(e, l, m) \in Seq(Planneds) /\ Len(Block(e, l, m)) = m
                      /\ Having(Block(e, l, m), i, d)
                           = IF l = i /\ e = d THEN Block(e, l, m) ELSE << >>
           A == {m \in Nat : Good(m)}
<1>1. 0 \in A
  <2>1. Block(e, l, 0) = << >>
    <3>1. 1..0 = {}
      OBVIOUS
    <3> QED
      BY <3>1, EmptySeq DEF Block
  <2>2. << >> \in Seq(Planneds) /\ Len(<< >>) = 0 /\ Having(<< >>, i, d) = << >>
    BY EmptySeq, HavingNone
  <2> QED
    BY <2>1, <2>2
<1>2. ASSUME NEW m \in Nat, m \in A PROVE m + 1 \in A
  <2>1. PICK u \in Seq(Planneds) : u = Block(e, l, m) /\ Len(u) = m
    BY <1>2
  <2>2. PICK job \in Planneds : job = PlannedEpisode(e, l, m + 1)
    <3>1. PlannedEpisode(e, l, m + 1) \in Planneds
      BY DEF PlannedEpisode, Planneds
    <3> QED
      BY <3>1
  <2>3. job.index = l /\ job.domain = e
    BY <2>2 DEF PlannedEpisode
  <2>4. PICK v \in Seq(Planneds) : v = Append(u, job)
    BY AppendProperties
  <2>5. Len(v) = m + 1 /\ v[m + 1] = job /\ \A a \in 1..m : v[a] = u[a]
    BY <2>1, <2>4, AppendProperties
  <2>6. Block(e, l, m + 1) = v
    <3>1. v = [a \in 1..(m + 1) |-> v[a]]
      BY <2>5, LenProperties, SeqDef
    <3>2. ASSUME NEW a \in 1..(m + 1) PROVE v[a] = PlannedEpisode(e, l, a)
      <4>1. a \in 1..m \/ a = m + 1
        OBVIOUS
      <4>2. CASE a \in 1..m
        BY <2>1, <2>5, <4>2 DEF Block
      <4>3. CASE a = m + 1
        BY <2>2, <2>5, <4>3
      <4> QED
        BY <4>1, <4>2, <4>3
    <3> QED
      BY <3>1, <3>2 DEF Block
  <2>7. Having(v, i, d) = Having(u, i, d) \o Taken(job, i, d)
    BY <2>4, HavingTakes
  <2>8. CASE l = i /\ e = d
    <3>1. Having(u, i, d) = u
      BY <1>2, <2>1, <2>8
    <3>2. Taken(job, i, d) = <<job>>
      BY <2>3, <2>8 DEF Taken
    <3>3. v = u \o <<job>>
      BY <2>4, AppendIsConcat
    <3>4. Having(v, i, d) = v
      BY <2>7, <3>1, <3>2, <3>3
    <3> QED
      BY <2>5, <2>6, <2>8, <3>4
  <2>9. CASE ~(l = i /\ e = d)
    <3>1. Having(u, i, d) = << >>
      BY <1>2, <2>1, <2>9
    <3>2. Taken(job, i, d) = << >>
      BY <2>3, <2>9 DEF Taken
    <3>3. << >> \o << >> = << >>
      BY EmptySeq, ConcatEmptySeq
    <3>4. Having(v, i, d) = << >>
      BY <2>7, <3>1, <3>2, <3>3
    <3> QED
      BY <2>5, <2>6, <2>9, <3>4
  <2> QED
    BY <2>8, <2>9
<1>3. \A m \in Nat : m \in A
  <2> HIDE DEF A
  <2> QED
    BY <1>1, <1>2, Induction
<1>4. Good(arms)
  <2> HIDE DEF Good
  <2> QED
    BY <1>3
<1> QED
  BY <1>4

LEMMA BlockType == \A e, l, arms \in Nat : Block(e, l, arms) \in Seq(Planneds)
  BY HavingBlock

\* The list holds the episodes of a task exactly if its domain has that many tasks.
LEMMA HavingListed ==
  ASSUME NEW n \in Nat, NEW counts \in [1..n -> Nat], NEW arms \in Nat,
         NEW i \in Nat \ {0}, NEW d \in 1..n
  PROVE  /\ Listed(counts, arms) \in Seq(Planneds)
         /\ Having(Listed(counts, arms), i, d)
              = IF i <= counts[d] THEN Block(d, i, arms) ELSE << >>
<1> DEFINE tasks(e) == [l \in 1..counts[e] |-> Block(e, l, arms)]
           b == IF i <= counts[d] THEN Block(d, i, arms) ELSE << >>
<1>1. Block(d, i, arms) \in Seq(Planneds) /\ << >> \in Seq(Planneds)
  <2>1. d \in Nat
    OBVIOUS
  <2> QED
    BY <2>1, BlockType, EmptySeq
<1>2. ASSUME NEW e \in 1..n
      PROVE  /\ FlattenSeq(tasks(e)) \in Seq(Planneds)
             /\ Having(FlattenSeq(tasks(e)), i, d) = IF e = d THEN b ELSE << >>
  <2>1. PICK c \in Nat : c = counts[e]
    OBVIOUS
  <2>2. PICK ss : ss = tasks(e)
    OBVIOUS
  <2>3. ss \in [1..c -> Seq(Planneds)] /\ \A m \in 1..c : ss[m] = Block(e, m, arms)
    <3>1. e \in Nat /\ \A m \in 1..c : m \in Nat
      OBVIOUS
    <3> QED
      BY <2>1, <2>2, <3>1, BlockType
  <2>4. PICK k : k = IF e = d THEN i ELSE 0
    OBVIOUS
  <2>5. \A m \in 1..c : Having(ss[m], i, d) = IF m = k THEN Block(d, i, arms) ELSE << >>
    <3> SUFFICES ASSUME NEW m \in 1..c
                 PROVE  Having(Block(e, m, arms), i, d)
                          = IF m = k THEN Block(d, i, arms) ELSE << >>
      BY <2>3
    <3>1. Having(Block(e, m, arms), i, d)
            = IF m = i /\ e = d THEN Block(e, m, arms) ELSE << >>
      BY HavingBlock
    <3>2. m = k <=> m = i /\ e = d
      BY <2>4
    <3> QED
      BY <3>1, <3>2
  <2>6. /\ FlattenSeq(ss) \in Seq(Planneds)
        /\ Having(FlattenSeq(ss), i, d) = IF k \in 1..c THEN Block(d, i, arms) ELSE << >>
    <3>1. PICK block \in Seq(Planneds) : block = Block(d, i, arms)
      BY <1>1
    <3>2. OnePart(c, ss, i, d, k, block)
      BY <2>5, <3>1 DEF OnePart
    <3>3. ss \in [1..c -> Seq(Planneds)]
      BY <2>3
    <3>4. /\ FlattenSeq(ss) \in Seq(Planneds)
          /\ Having(FlattenSeq(ss), i, d) = IF k \in 1..c THEN block ELSE << >>
      BY <3>2, <3>3, HavingOnePart
    <3> QED
      BY <3>1, <3>4
  <2>7. k \in 1..c <=> e = d /\ i <= counts[d]
    BY <2>1, <2>4
  <2> QED
    BY <2>2, <2>6, <2>7
<1>3. PICK parts : parts = [e \in 1..n |-> FlattenSeq(tasks(e))]
  OBVIOUS
<1>4. parts \in [1..n -> Seq(Planneds)]
      /\ \A m \in 1..n : Having(parts[m], i, d) = IF m = d THEN b ELSE << >>
  BY <1>2, <1>3
<1>5. b \in Seq(Planneds)
  BY <1>1
<1>6. /\ FlattenSeq(parts) \in Seq(Planneds)
      /\ Having(FlattenSeq(parts), i, d) = IF d \in 1..n THEN b ELSE << >>
  <2> HIDE DEF b, tasks
  <2> QED
    <3>1. OnePart(n, parts, i, d, d, b)
      BY <1>4 DEF OnePart
    <3> QED
      BY <1>4, <1>5, <3>1, HavingOnePart
<1>7. Listed(counts, arms) = FlattenSeq(parts)
  <2>1. DOMAIN counts = 1..n
    OBVIOUS
  <2> QED
    BY <1>3, <2>1 DEF Listed, Block
<1> QED
  BY <1>6, <1>7

\* The scorer plans the episodes in the order of the runner, however many domains,
\* tasks and arms there are (benchmark.py:901-924, score_saved.py:18-28).
THEOREM OrdersAgree ==
  ASSUME NEW n \in Nat, NEW counts \in [1..n -> Nat], NEW arms \in Nat
  PROVE  Planned(counts, arms) = Expected(counts, arms)
<1> DEFINE part(i, d) == IF i <= counts[d] THEN Block(d, i, arms) ELSE << >>
<1>1. DOMAIN counts = 1..n
  OBVIOUS
<1>2. ASSUME NEW i \in 1..MaxCount(counts), NEW d \in DOMAIN counts
      PROVE  Having(Listed(counts, arms), i, d) = part(i, d)
  <2>1. i \in Nat \ {0}
    OBVIOUS
  <2> QED
    BY <1>1, <2>1, HavingListed
<1>3. Planned(counts, arms)
        = FlattenSeq([i \in 1..MaxCount(counts) |->
            FlattenSeq([d \in DOMAIN counts |-> Having(Listed(counts, arms), i, d)])])
  BY DEF Planned, ByIndexAndDomain
<1>4. Expected(counts, arms)
        = FlattenSeq([i \in 1..MaxCount(counts) |->
            FlattenSeq([d \in DOMAIN counts |-> part(i, d)])])
  BY DEF Expected, Block
<1>5. \A i \in 1..MaxCount(counts) :
        [d \in DOMAIN counts |-> Having(Listed(counts, arms), i, d)]
          = [d \in DOMAIN counts |-> part(i, d)]
  <2> HIDE DEF part
  <2> QED
    BY <1>2
<1> HIDE DEF part
<1>6. [i \in 1..MaxCount(counts) |->
         FlattenSeq([d \in DOMAIN counts |-> Having(Listed(counts, arms), i, d)])]
        = [i \in 1..MaxCount(counts) |-> FlattenSeq([d \in DOMAIN counts |-> part(i, d)])]
  BY <1>5
<1> QED
  BY <1>3, <1>4, <1>6

\* Scoring the saved files of a batch that returned agrees with what ran, whatever the
\* plan and whatever failed: every row is accounted for, the scorer is stopped only by
\* a file a failure left half written, and an episode counts exactly if it was scored
\* live (score_saved.py:52-234, benchmark.py:71-89, 735-743, 901-927).
THEOREM SavedScoresAlwaysLive == Spec => []SavedScoresAreLive
<1>1. PlansAgree
  <2>1. ASSUME NEW sizes \in Sizes, NEW total \in 1..Total(sizes)
        PROVE  /\ Total(Allocation(sizes, total)) = total
               /\ \A d \in DOMAIN sizes : Allocation(sizes, total)[d] \in 0..sizes[d]
    <3>1. PICK n \in 1..3 : sizes \in [1..n -> 1..4]
      BY DEF Sizes
    <3>2. sizes \in [1..n -> Nat] /\ DOMAIN sizes = 1..n /\ n \in Nat
      BY <3>1
    <3> QED
      BY <3>2, AllocationIsExact
  <2>2. ASSUME NEW counts \in Counts, NEW arms \in 1..2
        PROVE  Planned(counts, arms) = Expected(counts, arms)
    <3>1. PICK n \in 1..3 : counts \in [1..n -> 0..3]
      BY DEF Counts
    <3>2. counts \in [1..n -> Nat] /\ n \in Nat /\ arms \in Nat
      BY <3>1
    <3> QED
      BY <3>2, OrdersAgree
  <2> QED
    BY <2>1, <2>2 DEF PlansAgree
<1>2. ASSUME ZInv, coordinator = "returned"
      PROVE  \A arm : CreditedOf(arm) = ScoredOf(arm)
  <2>1. \A j \in InReport : Credited(j) <=> episode[j].scored
    BY <1>2, RowsAreLive
  <2> QED
    BY <2>1 DEF CreditedOf, ScoredOf
<1>3. ZInv => SavedScoresAreLive
  BY <1>1, <1>2, ReportAccounts, RowsAreLive DEF SavedScoresAreLive
<1> QED
  BY <1>3, ZHolds, PTL
===============================================================================
