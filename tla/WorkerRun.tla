------------------------------ MODULE WorkerRun ------------------------------
(***************************************************************************)
(* What the rest of the system takes a worker to be: it runs one job at a  *)
(* time, a track appears under its final name at once and stays, and a run *)
(* ends in at most one report, which claims success only for a track that  *)
(* is there.  A run may also end in silence.  Generation implements this   *)
(* specification; JobProtocol relies on it.                                *)
(***************************************************************************)
CONSTANTS
  Jobs,
  NoJob

VARIABLES
  running,  \* the job of the run
  made,     \* jobs whose track is complete
  told      \* what was reported of which job

vars == <<running, made, told>>

Init == running = NoJob /\ made = {} /\ told = {}

Begin(j) == running = NoJob /\ running' = j /\ UNCHANGED <<made, told>>

Make == running # NoJob /\ made' = made \union {running} /\ UNCHANGED <<running, told>>

Report(ok) ==
  /\ running # NoJob /\ running' = NoJob
  /\ ok => running \in made
  /\ told' = told \union {[job |-> running, ok |-> ok]}
  /\ UNCHANGED made

Stop == running # NoJob /\ running' = NoJob /\ UNCHANGED <<made, told>>

Next ==
  \/ \E j \in Jobs : Begin(j)
  \/ Make \/ Stop
  \/ \E ok \in BOOLEAN : Report(ok)

Spec == Init /\ [][Next]_vars

=============================================================================
