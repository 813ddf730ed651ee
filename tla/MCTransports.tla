------------------------------ MODULE MCTransports ------------------------------
(***************************************************************************)
(* The two transports for TLC.  The initial state picks the engine's       *)
(* pipes, or a peer's event stream: short texts of every symbol cut in     *)
(* every way, or texts long enough for two frames cut into small chunks.   *)
(***************************************************************************)
EXTENDS EngineProcess, EventStream

VARIABLE instance

Texts == [short |-> [symbols |-> Symbols, length |-> 6, chunk |-> 6],
          long |-> [symbols |-> Symbols \ {BOM}, length |-> 8, chunk |-> 2]]

Reads(text) ==
  \/ Splits
  \/ \E n \in 1..text.chunk :
       /\ Len(read) + n <= text.length /\ Len(read) + n <= MaxLength
       /\ \E chunk \in [1..n -> text.symbols] : Arrive(chunk)

MCInit == Init /\ StreamInit /\ instance \in {"pipes"} \cup DOMAIN Texts

MCNext ==
  /\ UNCHANGED instance
  /\ IF instance = "pipes" THEN Next /\ UNCHANGED streamVars
                           ELSE Reads(Texts[instance]) /\ UNCHANGED vars

MCSpec == MCInit /\ [][MCNext]_<<vars, streamVars, instance>> /\ Deadlines
===============================================================================
