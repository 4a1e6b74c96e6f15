---------------------------- MODULE ItemLifecycle ----------------------------
(***************************************************************************)
(* What the queue promises about one request, whatever the workers, the    *)
(* reaper and the hedges do behind it: it is assigned at most once, at     *)
(* most one generated file is ever delivered for it, it can only be aired  *)
(* with that file, and a played or failed request never comes back.        *)
(* JobProtocol implements this specification.                              *)
(***************************************************************************)
EXTENDS Naturals

CONSTANTS
  Items,   \* the requests
  NoJob    \* no file delivered yet

VARIABLES
  phase,   \* where the request stands, as the playout can see it
  take     \* the job whose file was delivered for it

vars == <<phase, take>>

Init ==
  /\ phase = [i \in Items |-> "absent"]
  /\ take = [i \in Items |-> NoJob]

Move(i, from, to) ==
  /\ phase[i] = from
  /\ phase' = [phase EXCEPT ![i] = to]

Submit(i) == Move(i, "absent", "queued") /\ UNCHANGED take
Assign(i) == Move(i, "queued", "generating") /\ UNCHANGED take
GiveUp(i) == Move(i, "generating", "failed") /\ UNCHANGED take
Air(i)    == Move(i, "ready", "playing") /\ UNCHANGED take
Finish(i) == Move(i, "playing", "played") /\ UNCHANGED take

\* The first completed job's file is the request's file for good.
Deliver(i) ==
  /\ Move(i, "generating", "ready")
  /\ take[i] = NoJob
  /\ take'[i] \in Nat \ {NoJob}
  /\ take' = [take EXCEPT ![i] = take'[i]]

\* Requests that were on air without being played through are aired again.
PutBack(S) ==
  /\ \A i \in S : phase[i] = "playing"
  /\ phase' = [i \in Items |-> IF i \in S THEN "ready" ELSE phase[i]]
  /\ UNCHANGED take

Next ==
  \/ \E i \in Items : Submit(i) \/ Assign(i) \/ GiveUp(i) \/ Air(i) \/ Finish(i) \/ Deliver(i)
  \/ \E S \in SUBSET Items : PutBack(S)

Spec == Init /\ [][Next]_vars

=============================================================================
