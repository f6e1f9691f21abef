--------------------------- MODULE EngineContract ---------------------------
(***************************************************************************)
(* What a traffic engine promises its callers, whatever goroutines it uses *)
(* to keep the promise.  An engine is "off", "on" (some worker may take    *)
(* new work) or "draining" (told to stop, workers still leaving).  It is   *)
(* switched on only when nothing of the previous run is left, and once it  *)
(* drains it goes off.  DownloadEngine is shown to implement this.         *)
(***************************************************************************)
VARIABLE phase

TypeOK == phase \in {"off", "on", "draining"}

Init == phase = "off"

\* A Start that takes effect finds the engine off.
TurnOn == phase = "off" /\ phase' = "on"

\* A Stop cancels every worker at once: none is left behind.
Cancel == phase = "on" /\ phase' = "draining"

\* The last cancelled worker has left.
Drained == phase = "draining" /\ phase' = "off"

Next == TurnOn \/ Cancel \/ Drained

\* The safety part of the contract.
Safety == Init /\ [][Next]_phase

Spec == Safety /\ WF_phase(Drained)
=============================================================================
