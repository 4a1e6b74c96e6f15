----------------------------- MODULE Generation -----------------------------
(***************************************************************************)
(* A worker from its claim to its report, with what JobProtocol leaves out *)
(* of it: the model server behind worker/ace_client.py, which queues tasks *)
(* and goes on with those nobody waits for, or the one paid call of        *)
(* worker/providers.py; the track, which is fetched to a temporary name    *)
(* and then renamed; and the row of timing, which goes to Timings.  One    *)
(* deployment runs windows_worker.py, mac_claim.py over mac_worker.py, or  *)
(* provider_worker.py with one provider.                                   *)
(*                                                                         *)
(* Abstracted: file names (a stem is the job it is made of, its extension  *)
(* is left out) and contents (whose audio it is, and whether all of it);   *)
(* the clock (a time limit or a lease may be over at any time); the claim  *)
(* with the lease, and the reaper's LREM with its RPUSH, which are one     *)
(* step here and two in JobProtocol; the order of the list.                *)
(***************************************************************************)
EXTENDS Timings

CONSTANTS
  Jobs, NoJob,
  Deployments,  \* host, the jobs pushed to it, and the bound on faults
  Unusable,     \* jobs that validate_request refuses
  ServerQueue,  \* tasks the model server takes on before it answers 429
  MaxRows       \* bound: the rows of timing that TimingsArrive follows

Locals    == {"windows", "mac"}
Providers == {"elevenlabs", "gemini_lyra"}

ASSUME GenerationSettings ==
  /\ Deployments \subseteq [host : Locals \union Providers, jobs : SUBSET Jobs, faults : Nat]
  /\ Unusable \subseteq Jobs /\ NoJob \notin Jobs /\ ServerQueue \in Nat \ {0} /\ MaxRows \in Nat

VARIABLES
  env,         \* the deployment
  pending,     \* its list of jobs
  inProgress,  \* jobs:in_progress
  pc,          \* where the worker is
  job,         \* the job it has in hand
  task,        \* the task it waits for
  tasks,       \* what the model server was asked for
  serverUp,    \* it answers
  engaged,     \* MacWorker._busy
  disabled,    \* the provider is no longer served
  paid,        \* calls made to the provider for each job
  tmp,         \* the file under the temporary name of each job's stem
  tracks,      \* the file under its final name
  reports,     \* what was pushed to jobs:completed
  faults       \* faults so far

queueVars  == <<pending, inProgress>>
serverVars == <<tasks, serverUp>>
fileVars   == <<tmp, tracks>>
vars == <<env, queueVars, pc, job, task, serverVars, engaged, disabled, paid, fileVars, reports,
          faults, timingVars>>

Local == env.host \in Locals
Mac   == env.host = "mac"
Fault == faults < env.faults /\ faults' = faults + 1

NoFile == [of |-> NoJob, whole |-> FALSE]
Torn(j)  == [of |-> j, whole |-> FALSE]
Whole(j) == [of |-> j, whole |-> TRUE]

Goes(from, to) == pc = from /\ pc' = to

\* The worker is done with its job; with the variant that keeps it in hand.
KeepsItsJob == pc' = "idle" /\ UNCHANGED job
Leaves == pc' = "idle" /\ job' = NoJob

-----------------------------------------------------------------------------
(* The model server *)

Accepts == Append(tasks, [job |-> job, state |-> "working"])
Working == {t \in DOMAIN tasks : tasks[t].state = "working"}

TaskEnds(t, state) ==
  /\ serverUp /\ t \in Working
  /\ tasks' = [tasks EXCEPT ![t] = [@ EXCEPT !.state = state]]
  /\ UNCHANGED <<env, queueVars, pc, job, task, serverUp, engaged, disabled, paid, fileVars,
                 reports, faults, timingVars>>

\* It forgets its tasks, the finished ones as well.
ServerStops ==
  /\ serverUp /\ Fault /\ serverUp' = FALSE
  /\ tasks' = [t \in DOMAIN tasks |-> [tasks[t] EXCEPT !.state = "gone"]]
  /\ UNCHANGED <<env, queueVars, pc, job, task, engaged, disabled, paid, fileVars, reports,
                 timingVars>>

ServerStarts ==
  /\ ~serverUp /\ serverUp' = TRUE
  /\ UNCHANGED <<env, queueVars, pc, job, task, tasks, engaged, disabled, paid, fileVars,
                 reports, faults, timingVars>>

-----------------------------------------------------------------------------
(* Claim, and the checks before the generation *)

\* A local worker waits for its model server first (wait_until_up).
Start ==
  /\ Goes("down", "idle") /\ (Local => serverUp)
  /\ UNCHANGED <<env, queueVars, job, task, serverVars, engaged, disabled, paid, fileVars,
                 reports, faults, timingVars>>

\* A reply that is lost leaves the job in the table.
Claim(j) ==
  /\ pc = "idle" /\ j \in pending /\ ~disabled
  /\ pending' = pending \ {j} /\ inProgress' = inProgress \union {j}
  /\ \/ pc' = "claimed" /\ job' = j /\ UNCHANGED faults
     \/ Fault /\ UNCHANGED <<pc, job>>
  /\ UNCHANGED <<env, task, serverVars, engaged, disabled, paid, fileVars, reports, timingVars>>

SkipCancelled ==
  /\ pc = "claimed" /\ Leaves
  /\ inProgress' = inProgress \ {job}
  /\ UNCHANGED <<env, pending, task, serverVars, engaged, disabled, paid, fileVars, reports,
                 faults, timingVars>>

\* windows_worker.py does not validate; MacWorker is "busy" when it is engaged.
Admitted == (env.host = "windows" \/ job \notin Unusable) /\ ~engaged
Begin ==
  /\ Goes("claimed", "begun") /\ Admitted
  /\ engaged' = Mac
  /\ UNCHANGED <<env, queueVars, job, task, serverVars, disabled, paid, fileVars, reports,
                 faults, timingVars>>

Refuse ==
  /\ Goes("claimed", "failing") /\ ~Admitted
  /\ UNCHANGED <<env, queueVars, job, task, serverVars, engaged, disabled, paid, fileVars,
                 reports, faults, timingVars>>

\* The exceptions of a generation that has begun, which handle_job reports.  With the
\* variant that does not reset _busy.
StaysEngaged(from) == Goes(from, "failing") /\ UNCHANGED engaged
Fails(from) == Goes(from, "failing") /\ engaged' = FALSE

-----------------------------------------------------------------------------
(* Generation on a model server: submit, wait, fetch_track *)

Submit ==
  /\ Goes("begun", "waiting") /\ Local /\ serverUp /\ Cardinality(Working) < ServerQueue
  /\ tasks' = Accepts /\ task' = Len(tasks) + 1
  /\ UNCHANGED <<env, queueVars, job, serverUp, engaged, disabled, paid, fileVars, reports,
                 faults, timingVars>>

\* 429; or no server: mac_worker.py has then waited for it to come up.
NotAccepted ==
  /\ Local /\ Fails("begun") /\ (~serverUp \/ Cardinality(Working) >= ServerQueue)
  /\ UNCHANGED <<env, queueVars, job, task, serverVars, disabled, paid, fileVars, reports,
                 faults, timingVars>>

\* An HTTP error at any request; the server may have taken the task on.
HttpError ==
  /\ Local /\ Fault
  /\ \/ Fails("begun") /\ tasks' \in {tasks, Accepts}
     \/ Fails("waiting") /\ UNCHANGED tasks
     \/ Fails("finished") /\ UNCHANGED tasks
  /\ UNCHANGED <<env, queueVars, job, task, serverUp, disabled, paid, fileVars, reports,
                 timingVars>>

\* The item is terminal and names an audio file (is_success).
Succeeds ==
  /\ Goes("waiting", "finished") /\ tasks[task].state = "done"
  /\ UNCHANGED <<env, queueVars, job, task, serverVars, engaged, disabled, paid, fileVars,
                 reports, faults, timingVars>>

\* It is terminal and names none, or the server does not know the task.
TaskFailed ==
  /\ Fails("waiting") /\ tasks[task].state \in {"failed", "gone"}
  /\ UNCHANGED <<env, queueVars, job, task, serverVars, disabled, paid, fileVars, reports,
                 faults, timingVars>>

\* max_wait_sec is over.  The task is not withdrawn.  With the variant that polls on.
PollsOn == pc = "waiting" /\ tasks[task].state = "working" /\ UNCHANGED vars
TimedOut ==
  /\ Fails("waiting") /\ tasks[task].state = "working"
  /\ UNCHANGED <<env, queueVars, job, task, serverVars, disabled, paid, fileVars, reports,
                 faults, timingVars>>

-----------------------------------------------------------------------------
(* Generation by a provider: one call *)

Call ==
  /\ Goes("begun", "called") /\ ~Local
  /\ paid' = [paid EXCEPT ![job] = @ + 1]
  /\ UNCHANGED <<env, queueVars, job, task, serverVars, engaged, disabled, fileVars, reports,
                 faults, timingVars>>

\* An answer is its HTTP status and its body, or the code in it.
Responses == {"2xx", "429", "401", "403", "other"} \X
             {"audio", "no audio", "RESOURCE_EXHAUSTED", "bad_prompt", "none"}
ElevenLabsError(r) ==
  IF r[1] = "429" THEN "QuotaExhausted"
  ELSE IF r[2] = "bad_prompt" THEN "CopyrightRejected"
  ELSE IF r[1] = "401" THEN "ProviderConfigError" ELSE "ProviderError"
GeminiError(r) ==
  IF r[1] = "429" \/ r[2] = "RESOURCE_EXHAUSTED" THEN "QuotaExhausted"
  ELSE IF r[1] \in {"401", "403"} THEN "ProviderConfigError" ELSE "ProviderError"
\* ElevenLabs answers with the track itself, and any body but an empty one is taken for
\* it; Gemini's has to contain one.
Accepted(host, r) ==
  r[1] = "2xx" /\ (IF host = "elevenlabs" THEN r[2] # "none" ELSE r[2] = "audio")
Outcome(host, r) ==
  IF Accepted(host, r) THEN "audio"
  ELSE IF r[1] = "2xx" THEN "ProviderError"
  ELSE IF host = "elevenlabs" THEN ElevenLabsError(r) ELSE GeminiError(r)

Answered(r) ==
  /\ pc = "called"
  /\ \/ Outcome(env.host, r) = "audio" /\ pc' = "finished"
     \/ Outcome(env.host, r) = "QuotaExhausted" /\ pc' = "exhausted"
     \/ Outcome(env.host, r) \notin {"audio", "QuotaExhausted"} /\ pc' = "failing"
  /\ UNCHANGED <<env, queueVars, job, task, serverVars, engaged, disabled, paid, fileVars,
                 reports, faults, timingVars>>

\* An exception that handle_job does not list: a network error or timeout of the call,
\* or an error of the disk below.  main goes on with the next job.
Escapes ==
  /\ ~Local /\ pc \in {"called", "writing", "written"} /\ Leaves
  /\ UNCHANGED <<env, queueVars, task, serverVars, engaged, disabled, paid, fileVars, reports,
                 faults, timingVars>>

-----------------------------------------------------------------------------
(* The track *)

Audio == IF Local THEN tasks[task].job ELSE job

\* With the variant that writes under the final name.
OpenFinal ==
  /\ Goes("finished", "writing")
  /\ tracks' = [tracks EXCEPT ![job] = Torn(Audio)]
  /\ UNCHANGED <<env, queueVars, job, task, serverVars, engaged, disabled, paid, tmp,
                 reports, faults, timingVars>>
OpenTmp ==
  /\ Goes("finished", "writing")
  /\ tmp' = [tmp EXCEPT ![job] = Torn(Audio)]
  /\ UNCHANGED <<env, queueVars, job, task, serverVars, engaged, disabled, paid, tracks,
                 reports, faults, timingVars>>

\* With the variant without the rename.
WrittenOnly ==
  /\ Goes("writing", "made") /\ engaged' = FALSE
  /\ tmp' = [tmp EXCEPT ![job] = Whole(Audio)]
  /\ UNCHANGED <<env, queueVars, job, task, serverVars, disabled, paid, tracks, reports,
                 faults, timingVars>>
Written ==
  /\ Goes("writing", "written")
  /\ tmp' = [tmp EXCEPT ![job] = Whole(Audio)]
  /\ UNCHANGED <<env, queueVars, job, task, serverVars, engaged, disabled, paid, tracks,
                 reports, faults, timingVars>>

WriteFails ==
  /\ Local /\ Fault /\ \E p \in {"writing", "written"} : Fails(p)
  /\ UNCHANGED <<env, queueVars, job, task, serverVars, disabled, paid, fileVars, reports,
                 timingVars>>

\* os.replace
Replace ==
  /\ Goes("written", "made") /\ engaged' = FALSE
  /\ tracks' = [tracks EXCEPT ![job] = tmp[job]]
  /\ tmp' = [tmp EXCEPT ![job] = NoFile]
  /\ UNCHANGED <<env, queueVars, job, task, serverVars, disabled, paid, reports, faults,
                 timingVars>>

-----------------------------------------------------------------------------
(* Acknowledge, count and report; each is a command whose reply may be lost *)

Answer(from, to) ==
  \/ Goes(from, to) /\ UNCHANGED <<job, faults>>
  \/ pc = from /\ Fault /\ Leaves

Acknowledge ==
  /\ Answer("made", "acked")
  /\ inProgress' = inProgress \ {job}
  /\ UNCHANGED <<env, pending, task, serverVars, engaged, disabled, paid, fileVars, reports,
                 timingVars>>

PushStats ==
  /\ Answer("acked", "counted") /\ Push
  /\ UNCHANGED <<env, queueVars, task, serverVars, engaged, disabled, paid, fileVars, reports>>

Tells(ok) == reports' = reports \union {[job |-> job, ok |-> ok]}
Done == Leaves /\ (UNCHANGED faults \/ Fault)

PushCompleted ==
  /\ pc = "counted" /\ Tells(TRUE) /\ Done
  /\ UNCHANGED <<env, queueVars, task, serverVars, engaged, disabled, paid, fileVars, timingVars>>

\* _discard_partials; the other workers leave theirs.
Discarded == IF env.host = "windows" THEN [tmp EXCEPT ![job] = NoFile] ELSE tmp

Fail ==
  /\ Answer("failing", "telling")
  /\ tmp' = Discarded /\ inProgress' = inProgress \ {job}
  /\ UNCHANGED <<env, pending, task, serverVars, engaged, disabled, paid, tracks, reports,
                 timingVars>>

\* A provider out of quota is disabled after the ack, unless that fails.
Exhausted ==
  /\ Answer("exhausted", "telling")
  /\ inProgress' = inProgress \ {job} /\ disabled' = (pc' = "telling")
  /\ UNCHANGED <<env, pending, task, serverVars, engaged, paid, fileVars, reports, timingVars>>

PushFailed ==
  /\ pc = "telling" /\ Tells(FALSE) /\ Done
  /\ UNCHANGED <<env, queueVars, task, serverVars, engaged, disabled, paid, fileVars, timingVars>>

\* The command is not carried out.  An error that leaves the connection usable is
\* caught by a local worker's except, and a finished track is reported as failed.
CommandFails ==
  /\ pc \in {"claimed", "made", "acked", "counted", "failing", "exhausted", "telling"} /\ Fault
  /\ \/ Leaves
     \/ Local /\ pc \in {"made", "acked", "counted"} /\ pc' = "failing" /\ UNCHANGED job
  /\ tmp' = IF pc = "failing" THEN Discarded ELSE tmp
  /\ UNCHANGED <<env, queueVars, task, serverVars, engaged, disabled, paid, tracks, reports,
                 timingVars>>

\* The process ends, at any point, and loses what it holds.
Dies ==
  /\ pc # "down" /\ Fault
  /\ pc' = "down" /\ job' = NoJob /\ engaged' = FALSE /\ disabled' = FALSE
  /\ UNCHANGED <<env, queueVars, task, serverVars, paid, fileVars, reports, timingVars>>

-----------------------------------------------------------------------------
(* The reaper *)

\* A lease is over when nobody has the job, or too early.  A provider's job goes to
\* jobs:pending, which nobody reads.  With the variant that gives it back.
ToItsWorker(j) == pending \union {j}
PendingWith(j) == IF Local THEN pending \union {j} ELSE pending
Requeue(j) ==
  /\ reaper = "reap" /\ j \in inProgress
  /\ IF job = j THEN Fault ELSE UNCHANGED faults
  /\ inProgress' = inProgress \ {j} /\ pending' = PendingWith(j)
  /\ UNCHANGED <<env, pc, job, task, serverVars, engaged, disabled, paid, fileVars, reports,
                 timingVars>>

ReaperWorks ==
  /\ (ReaperStep /\ UNCHANGED faults) \/ (ReaperBreaks /\ Fault)
  /\ UNCHANGED <<env, queueVars, pc, job, task, serverVars, engaged, disabled, paid, fileVars,
                 reports>>

-----------------------------------------------------------------------------
Init ==
  /\ env \in Deployments
  /\ pending = env.jobs /\ inProgress = {}
  /\ pc = "down" /\ job = NoJob /\ task = 0 /\ tasks = <<>> /\ serverUp = TRUE
  /\ engaged = FALSE /\ disabled = FALSE /\ paid = [j \in Jobs |-> 0]
  /\ tmp = [j \in Jobs |-> NoFile] /\ tracks = [j \in Jobs |-> NoFile]
  /\ reports = {} /\ faults = 0
  /\ TimingsInit

\* What a worker with a job in hand does next.
RunStep ==
  \/ SkipCancelled \/ Begin \/ Refuse
  \/ Submit \/ NotAccepted \/ Succeeds \/ TaskFailed \/ TimedOut
  \/ Call \/ Escapes \/ \E r \in Responses : Answered(r)
  \/ OpenTmp \/ Written \/ Replace
  \/ Acknowledge \/ PushStats \/ PushCompleted
  \/ Fail \/ Exhausted \/ PushFailed

WorkerBreaks == HttpError \/ WriteFails \/ CommandFails \/ Dies

ServerStep ==
  \/ ServerStops \/ ServerStarts
  \/ \E t \in DOMAIN tasks : TaskEnds(t, "done") \/ TaskEnds(t, "failed")

Next ==
  \/ Start \/ RunStep \/ WorkerBreaks \/ ServerStep \/ ReaperWorks
  \/ \E j \in Jobs : Claim(j) \/ Requeue(j)

\* The worker and the reaper go on; the model server may never answer.
Spec == Init /\ [][Next]_vars /\ WF_vars(RunStep) /\ WF_vars(ReaperWorks)

-----------------------------------------------------------------------------
(* Properties *)

Files == {NoFile} \union [of : Jobs, whole : BOOLEAN]
Places == {"down", "idle", "claimed", "begun", "waiting", "called", "finished", "writing",
           "written", "made", "acked", "counted", "failing", "exhausted", "telling"}

\* Every job, task and file is of a job that was pushed, and the worker has a
\* job in hand exactly while it is in a run.
TypeOK ==
  /\ env \in Deployments /\ pending \subseteq env.jobs /\ inProgress \subseteq env.jobs
  /\ pc \in Places /\ job \in env.jobs \union {NoJob}
  /\ job = NoJob <=> pc \in {"down", "idle"}
  /\ tasks \in Seq([job : env.jobs, state : {"working", "done", "failed", "gone"}])
  /\ task \in Nat /\ serverUp \in BOOLEAN
  /\ engaged \in BOOLEAN /\ disabled \in BOOLEAN /\ paid \in [Jobs -> Nat]
  /\ tmp \in [Jobs -> Files] /\ tracks \in [Jobs -> Files]
  /\ reports \subseteq [job : env.jobs, ok : BOOLEAN] /\ faults \in Nat
  /\ TimingsType

\* "The encoder never reads a partially written file": whatever is under a final
\* name is all that its own job's source answered, after torn writes, deaths in
\* the middle of one, runs of a job a second time, and tasks that others wait for
\* no more.  Whether the bytes are audio no worker asks.
TracksAreWhole == \A j \in Jobs : tracks[j] \in {NoFile, Whole(j)}

\* A provider is called, and paid, once for a job at most, whatever fails after
\* the call.  (It rests on the reaper giving such a job to nobody.)
PaidOnce == \A j \in Jobs : paid[j] <= 1

\* No way out of a generation leaves the Mac worker refusing every later job as
\* "busy", and it is engaged in nothing once its track is there.
FreeBetweenJobs == engaged => Mac /\ pc \in {"begun", "waiting", "finished", "writing", "written"}

\* A worker does what the rest of the system relies on: WorkerRun.
Run == INSTANCE WorkerRun WITH
  running <- job, made <- {j \in Jobs : tracks[j] = Whole(j)}, told <- reports
ImplementsRun == Run!Spec

\* A worker comes back from every job it takes, though the model server may keep a
\* task for ever, be full of abandoned ones, or forget them.
ComesBack == job # NoJob ~> job = NoJob

\* What is pushed to generation:stats gets into the table, or is refused, or is
\* lost to a fault.
TimingsArrive == \A n \in 1..MaxRows : (n <= pushed) ~> (n \in Stored \union lost)

=============================================================================
