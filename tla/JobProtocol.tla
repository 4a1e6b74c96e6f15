----------------------------- MODULE JobProtocol -----------------------------
(***************************************************************************)
(* The life of a generation job: the queue manager (queue/manager.py), the *)
(* workers that pull from their own Redis list (worker/windows_worker.py,  *)
(* worker/mac_claim.py, worker/provider_worker.py), the lease reaper       *)
(* (queue/reaper.py), the playout's claims, and the two stores they share, *)
(* Postgres (queue/store.py) and Redis.                                    *)
(*                                                                         *)
(* One action is one statement or command whose place among the steps of   *)
(* the other processes, or before a crash, makes a difference.  Commands   *)
(* on what only one process looks at (the manager's hedge record, the      *)
(* lease a worker writes just before its one look at job:cancel) are taken *)
(* together with the step they belong to.                                  *)
(*                                                                         *)
(* Abstracted: prompts, durations and wording; which plan the health of    *)
(* the sources leads to (any plan of the mode may be chosen, or none); the *)
(* clock (a lease may be over, and a hedge may fall due, at any time).     *)
(***************************************************************************)
EXTENDS Naturals, FiniteSets, SequencesExt

CONSTANTS
  Items,               \* queue_items rows, one per accepted request
  Locals,              \* the local workers: windows, mac
  Providers,           \* the paid sources: elevenlabs, gemini_lyra
  ProviderWorker,      \* the one process that serves every provider
  Shared,              \* jobs:pending, the list from before per-worker lists
  None,                \* no item, no source
  Mode,                \* GENERATION_MODE
  Outcomes,            \* how a generation may end: ok, error, quota
  ManagerFaultPoints,  \* where the manager may crash or lose a connection
  WorkerFaultPoints,   \* where a worker may crash or lose its connection
  ReaperFaultPoints,   \* where the reaper may crash or lose its connection
  MaxFaults,           \* bound: faults in one behaviour
  LeaseOutlastsRun,    \* no lease ends before the generation it covers
  MaxLapses            \* bound: requeues of a job that a worker still holds

Sources   == Locals \union Providers
Queues    == Sources \union {Shared}
Processes == Locals \union {ProviderWorker}

ASSUME NamesAreDistinct ==
  /\ Locals \intersect Providers = {}
  /\ ProviderWorker \notin Locals
  /\ Shared \notin Sources
  /\ None \notin Items \union Sources

ASSUME SettingsAreValid ==
  /\ Mode \in {"local_only", "hybrid", "paid_only"}
  /\ Outcomes \subseteq {"ok", "error", "quota"}
  /\ MaxFaults \in Nat
  /\ LeaseOutlastsRun \in BOOLEAN
  /\ MaxLapses \in Nat

VARIABLES
  \* Postgres
  position,    \* queue_position; 0 while the request is not enqueued
  status,      \* status of the queue_items row
  track,       \* the job whose file track_id points to
  \* Redis
  jobs,        \* payload of every job ever pushed; a job's id is its index
  pending,     \* jobs:pending:<source> and jobs:pending
  inProgress,  \* jobs:in_progress
  leases,      \* jobs with a live job:lease:<id>
  cancelled,   \* jobs with a job:cancel:<id>
  completed,   \* jobs:completed
  hedge,       \* hedge:item:<id> records
  \* processes
  mgr,         \* where the manager's loop stands
  msg,         \* the completion the manager has popped
  plan,        \* the assignment the manager is carrying out
  worker,      \* each worker process: where it stands, with which job
  reaper,      \* where the reaper stands, with which job
  disabled,    \* providers the provider worker has stopped serving
  faults,      \* faults so far
  lapses       \* requeues of held jobs so far

storeVars  == <<position, status, track>>
redisVars  == <<jobs, pending, inProgress, leases, cancelled, completed, hedge>>
mgrVars    == <<mgr, msg, plan>>
reaperVars == <<reaper, lapses>>
workerVars == <<worker, disabled>>
vars == <<position, status, track, jobs, pending, inProgress, leases, cancelled,
          completed, hedge, mgr, msg, plan, worker, reaper, disabled, faults, lapses>>

-----------------------------------------------------------------------------
(* Data *)

Status == {"absent", "queued", "generating", "ready", "playing", "played", "failed"}

NoJob   == 0
JobIds  == 1..Len(jobs)
SomeJob == JobIds \union {NoJob}
ItemOf(j)   == jobs[j].item
SourceOf(j) == jobs[j].source

NoMsg  == [job |-> NoJob, ok |-> FALSE]
NoPlan == [item |-> None, source |-> None, backup |-> None]
Idle   == [pc |-> "idle", job |-> NoJob, ok |-> FALSE]
Scan   == [pc |-> "scan", job |-> NoJob]

\* A hedge record.  NoHedge, with no primary job, is the absent key.
HedgeRecords == [primary : SomeJob, backup : SomeJob, backupSource : Sources \union {None},
                 primaryFailed : BOOLEAN, backupFailed : BOOLEAN, due : BOOLEAN]
NoHedge == [primary |-> NoJob, backup |-> NoJob, backupSource |-> None,
            primaryFailed |-> FALSE, backupFailed |-> FALSE, due |-> FALSE]
Hedged(i)  == hedge[i].primary # NoJob
Unfired(h) == h.backupSource # None /\ h.backup = NoJob /\ ~h.backupFailed

ProviderOf(p) == IF p = ProviderWorker THEN Providers ELSE {}
Serves(p)     == IF p = ProviderWorker THEN Providers ELSE {p}

\* The item with the lowest queue_position among those in S.
Oldest(i, S) == i \in S /\ \A k \in S : position[i] <= position[k]

\* What choose_source and pick_hedge_partner can return in this mode.
Assignable ==
  CASE Mode = "local_only" -> {a \in Locals \X (Locals \union {None}) : a[1] # a[2]}
    [] Mode = "hybrid"     -> (Locals \X (Providers \union {None}))
                                \union (Providers \X {None})
    [] Mode = "paid_only"  -> {a \in Providers \X (Providers \union {None}) : a[1] # a[2]}

\* A source whose heartbeat was dropped is not ok, so no plan names it.
Routable(s) == s \notin disabled

-----------------------------------------------------------------------------
(* Intake and playout: the other users of the store *)

Enqueue(i) ==
  /\ status[i] = "absent"
  /\ status' = [status EXCEPT ![i] = "queued"]
  /\ \E last \in Items :
       /\ \A k \in Items : position[k] <= position[last]
       /\ position' = [position EXCEPT ![i] = position[last] + 1]
  /\ UNCHANGED <<track, redisVars, mgrVars, workerVars, reaperVars, faults>>

\* The rows a claim may take: ready, and joined with their track.
AirableWithoutJoin == {k \in Items : status[k] = "ready"}   \* (a variant)
Airable == {k \in Items : status[k] = "ready" /\ track[k] # NoJob}

ClaimNextReady(i) ==
  /\ Oldest(i, Airable)
  /\ status' = [status EXCEPT ![i] = "playing"]
  /\ UNCHANGED <<position, track, redisVars, mgrVars, workerVars, reaperVars, faults>>

MarkPlayed(i) ==
  /\ status[i] = "playing"
  /\ status' = [status EXCEPT ![i] = "played"]
  /\ UNCHANGED <<position, track, redisVars, mgrVars, workerVars, reaperVars, faults>>

ReleaseToReady(i) ==
  /\ status[i] = "playing"
  /\ status' = [status EXCEPT ![i] = "ready"]
  /\ UNCHANGED <<position, track, redisVars, mgrVars, workerVars, reaperVars, faults>>

\* The playout restarts and puts back whatever was on air.
RequeueInterrupted ==
  /\ \E i \in Items : status[i] = "playing"
  /\ status' = [i \in Items |-> IF status[i] = "playing" THEN "ready" ELSE status[i]]
  /\ UNCHANGED <<position, track, redisVars, mgrVars, workerVars, reaperVars, faults>>

StoreUsers ==
  \/ \E i \in Items : Enqueue(i) \/ ClaimNextReady(i) \/ MarkPlayed(i) \/ ReleaseToReady(i)
  \/ RequeueInterrupted

-----------------------------------------------------------------------------
(* The manager's loop: drain_completed, fire_due_hedges, dispatch_one *)

GoTo(pc) == mgr' = pc
Finished == mgr' = "poll" /\ msg' = NoMsg /\ plan' = NoPlan

\* drain_completed has come to its end.  What arrives, or falls due, after that
\* and before the rest of the pass is as if it came after the rest of the pass.
Drained == mgr = "poll" /\ completed = <<>>

\* LPOP takes the record out of Redis before anything is done about it.
PopCompleted ==
  /\ mgr = "poll" /\ completed # <<>>
  /\ msg' = Head(completed)
  /\ completed' = Tail(completed)
  /\ GoTo("apply")
  /\ UNCHANGED <<storeVars, jobs, pending, inProgress, leases, cancelled, hedge,
                 plan, workerVars, reaperVars, faults>>

\* The status that mark_ready and mark_failed expect the row to have.
NotAired(i)   == status[i] \in {"generating", "ready"}   \* (a variant)
Generating(i) == status[i] = "generating"

\* mark_ready, first statement: generating -> ready, and the first one wins.
ApplyWin ==
  /\ mgr = "apply" /\ msg.ok
  /\ Generating(ItemOf(msg.job))
  /\ status' = [status EXCEPT ![ItemOf(msg.job)] = "ready"]
  /\ GoTo("track")
  /\ UNCHANGED <<position, track, redisVars, msg, plan, workerVars, reaperVars, faults>>

\* The late completion of a settled item is ignored.
ApplyLate ==
  /\ mgr = "apply" /\ msg.ok
  /\ ~Generating(ItemOf(msg.job))
  /\ cancelled' = cancelled \union {msg.job}
  /\ Finished
  /\ UNCHANGED <<storeVars, jobs, pending, inProgress, leases, completed, hedge,
                 workerVars, reaperVars, faults>>

\* mark_ready, second and third statement: the track row and track_id.
RecordTrack ==
  /\ mgr = "track"
  /\ track' = [track EXCEPT ![ItemOf(msg.job)] = msg.job]
  /\ GoTo("release")
  /\ UNCHANGED <<position, status, redisVars, msg, plan, workerVars, reaperVars, faults>>

\* The hedge record after note_side_failed has written down that j failed: a
\* backup that has not started yet falls due at once.
SideFailed(h, j) ==
  IF j = h.primary THEN [h EXCEPT !.primaryFailed = TRUE, !.due = @ \/ Unfired(h)]
                   ELSE [h EXCEPT !.backupFailed = TRUE]
NoneRuns(h)   == h.primaryFailed /\ (h.backupFailed \/ h.backup = NoJob)   \* (a variant)
BothFailed(h) == h.primaryFailed /\ (h.backupFailed \/ h.backupSource = None)
IsSide(h, j)  == h.primary # NoJob /\ j \in {h.primary, h.backup}

\* note_side_failed returns True: the other side can still finish.
ApplySideFailed ==
  /\ mgr = "apply" /\ ~msg.ok
  /\ LET i == ItemOf(msg.job)
         h == SideFailed(hedge[i], msg.job)
     IN /\ IsSide(hedge[i], msg.job)
        /\ ~BothFailed(h)
        /\ hedge' = [hedge EXCEPT ![i] = h]
  /\ Finished
  /\ UNCHANGED <<storeVars, jobs, pending, inProgress, leases, cancelled, completed,
                 workerVars, reaperVars, faults>>

\* note_side_failed returns False, and forgets the record if both sides failed.
ApplyFailed ==
  /\ mgr = "apply" /\ ~msg.ok
  /\ LET i == ItemOf(msg.job)
         h == hedge[i]
     IN /\ IsSide(h, msg.job) => BothFailed(SideFailed(h, msg.job))
        /\ hedge' = IF IsSide(h, msg.job) THEN [hedge EXCEPT ![i] = NoHedge] ELSE hedge
  /\ GoTo("fail")
  /\ UNCHANGED <<storeVars, jobs, pending, inProgress, leases, cancelled, completed,
                 msg, plan, workerVars, reaperVars, faults>>

\* mark_failed fails the item if it is still generating.
MarkFailed ==
  /\ mgr = "fail"
  /\ IF Generating(ItemOf(msg.job))
       THEN status' = [status EXCEPT ![ItemOf(msg.job)] = "failed"] /\ GoTo("release")
              /\ UNCHANGED <<msg, plan>>
       ELSE UNCHANGED status /\ Finished
  /\ UNCHANGED <<position, track, redisVars, workerVars, reaperVars, faults>>

\* The sides of item i's hedge that release_hedge cancels.
OnlyTheBackup(i, finished) == {hedge[i].backup} \ {NoJob, finished}                \* (a variant)
Losers(i, finished) == {hedge[i].primary, hedge[i].backup} \ {NoJob, finished}

\* release_hedge, the loop over both sides: a loser's job:cancel key is set, and it is
\* taken off its list if it is still there.
ReleaseHedge ==
  /\ mgr = "release"
  /\ LET L == Losers(ItemOf(msg.job), msg.job)
     IN /\ cancelled' = cancelled \union L
        /\ pending' = [q \in Queues |->
                         IF \E j \in L : SourceOf(j) = q
                           THEN RemoveFirst(pending[q], CHOOSE j \in L : SourceOf(j) = q)
                           ELSE pending[q]]
  /\ GoTo("forget")
  /\ UNCHANGED <<storeVars, jobs, inProgress, leases, completed, hedge, msg, plan,
                 workerVars, reaperVars, faults>>

\* release_hedge, its end: the record goes.
ForgetHedge ==
  /\ mgr = "forget"
  /\ hedge' = [hedge EXCEPT ![ItemOf(msg.job)] = NoHedge]
  /\ Finished
  /\ UNCHANGED <<storeVars, jobs, pending, inProgress, leases, cancelled, completed,
                 workerVars, reaperVars, faults>>

Payload(i, s) == [item |-> i, source |-> s]

\* push_job: a fresh job id, and RPUSH onto the source's list.
Push(i, s) ==
  /\ jobs' = Append(jobs, Payload(i, s))
  /\ pending' = [pending EXCEPT ![s] = Append(@, Len(jobs) + 1)]

\* fire_due_hedges starts the backup of a record that has none and is due.
DueWhilePrimaryRuns(i) ==                                                        \* (a variant)
  Hedged(i) /\ hedge[i].backup = NoJob /\ hedge[i].due /\ ~hedge[i].primaryFailed
DueToFire(i) == Hedged(i) /\ hedge[i].backup = NoJob /\ hedge[i].due

\* The id push_job returned last.
NotYetPushed == Len(jobs) + 1        \* (a variant)
Pushed       == Len(jobs)

\* A backup is pushed first and written into the record after.
FireHedge(i) ==
  /\ Drained /\ DueToFire(i)
  /\ Push(i, hedge[i].backupSource)
  /\ plan' = [item |-> i, source |-> hedge[i].backupSource, backup |-> None]
  /\ GoTo("save")
  /\ UNCHANGED <<storeVars, inProgress, leases, cancelled, completed, hedge, msg,
                 workerVars, reaperVars, faults>>

SaveHedge ==
  /\ mgr = "save"
  /\ hedge' = [hedge EXCEPT ![plan.item].backup = Pushed]
  /\ Finished
  /\ UNCHANGED <<storeVars, jobs, pending, inProgress, leases, cancelled, completed,
                 workerVars, reaperVars, faults>>

\* The rows next_queued selects from.
NotPlayed == {k \in Items : status[k] \in {"queued", "ready"}}   \* (a variant)
Waiting   == {k \in Items : status[k] = "queued"}

\* next_queued and plan_assignment.  When nothing is queued, or no source can
\* take the item (filler_pool), the manager goes on polling.
ChooseSource(i) ==
  /\ Drained /\ ~\E k \in Items : DueToFire(k)
  /\ Oldest(i, Waiting)
  /\ \E a \in Assignable :
       /\ Routable(a[1]) /\ Routable(a[2])
       /\ plan' = [item |-> i, source |-> a[1], backup |-> a[2]]
  /\ GoTo("mark")
  /\ UNCHANGED <<storeVars, redisVars, msg, workerVars, reaperVars, faults>>

\* mark_generating: an UPDATE by id alone, whatever the status is by now.
MarkGenerating ==
  /\ mgr = "mark"
  /\ status' = [status EXCEPT ![plan.item] = "generating"]
  /\ GoTo("push")
  /\ UNCHANGED <<position, track, redisVars, msg, plan, workerVars, reaperVars, faults>>

PushPrimary ==
  /\ mgr = "push"
  /\ Push(plan.item, plan.source)
  /\ IF plan.backup = None THEN Finished ELSE GoTo("remember") /\ UNCHANGED <<msg, plan>>
  /\ UNCHANGED <<storeVars, inProgress, leases, cancelled, completed, hedge,
                 workerVars, reaperVars, faults>>

RememberHedge ==
  /\ mgr = "remember"
  /\ hedge' = [hedge EXCEPT ![plan.item] =
                  [NoHedge EXCEPT !.primary = Pushed, !.backupSource = plan.backup]]
  /\ Finished
  /\ UNCHANGED <<storeVars, jobs, pending, inProgress, leases, cancelled, completed,
                 workerVars, reaperVars, faults>>

\* An exception or a crash: the loop starts over with what the stores hold.
ManagerFault ==
  /\ mgr \in ManagerFaultPoints /\ faults < MaxFaults
  /\ faults' = faults + 1
  /\ Finished
  /\ UNCHANGED <<storeVars, redisVars, workerVars, reaperVars>>

Manager ==
  \/ PopCompleted
  \/ ApplyWin \/ ApplyLate \/ ApplySideFailed \/ ApplyFailed \/ MarkFailed
  \/ RecordTrack \/ ReleaseHedge \/ ForgetHedge
  \/ \E i \in Items : FireHedge(i)
  \/ SaveHedge
  \/ \E i \in Items : ChooseSource(i)
  \/ MarkGenerating \/ PushPrimary \/ RememberHedge

-----------------------------------------------------------------------------
(* The workers: claim, lease, cancel check, generate, acknowledge, report *)

\* BRPOPLPUSH takes the tail, the end RPUSH adds to, so the newest job first.
Claim(p, s) ==
  /\ worker[p].pc = "idle"
  /\ s \in Serves(p) \ disabled /\ pending[s] # <<>>
  /\ worker' = [worker EXCEPT ![p] =
                  [pc |-> "claimed", job |-> Last(pending[s]), ok |-> FALSE]]
  /\ pending' = [pending EXCEPT ![s] = Front(@)]
  /\ inProgress' = <<Last(pending[s])>> \o inProgress
  /\ UNCHANGED <<storeVars, jobs, leases, cancelled, completed, hedge, mgrVars,
                 reaperVars, disabled, faults>>

\* acknowledge and clear_lease; whether the LREM found the entry is not looked at.
AckAndClear(j) ==
  /\ inProgress' = RemoveFirst(inProgress, j)
  /\ leases' = leases \ {j}

\* The lease, and the one look at job:cancel: a cancelled job is dropped without
\* a report.
SkipCancelled(p) ==
  /\ worker[p].pc = "claimed" /\ worker[p].job \in cancelled
  /\ AckAndClear(worker[p].job)
  /\ worker' = [worker EXCEPT ![p] = Idle]
  /\ UNCHANGED <<storeVars, jobs, pending, cancelled, completed, hedge, mgrVars,
                 reaperVars, disabled, faults>>

StartGenerating(p) ==
  /\ worker[p].pc = "claimed" /\ worker[p].job \notin cancelled
  /\ leases' = leases \union {worker[p].job}
  /\ worker' = [worker EXCEPT ![p].pc = "running"]
  /\ UNCHANGED <<storeVars, jobs, pending, inProgress, cancelled, completed, hedge,
                 mgrVars, reaperVars, disabled, faults>>

\* The generation ends.  A provider out of credits also stops being served.
Acknowledge(p, outcome) ==
  /\ worker[p].pc = "running"
  /\ outcome = "quota" => p = ProviderWorker
  /\ AckAndClear(worker[p].job)
  /\ disabled' = IF outcome = "quota" THEN disabled \union {SourceOf(worker[p].job)}
                                      ELSE disabled
  /\ worker' = [worker EXCEPT ![p].pc = "acked", ![p].ok = (outcome = "ok")]
  /\ UNCHANGED <<storeVars, jobs, pending, cancelled, completed, hedge, mgrVars,
                 reaperVars, faults>>

PushCompleted(p) ==
  /\ worker[p].pc = "acked"
  /\ completed' = Append(completed, [job |-> worker[p].job, ok |-> worker[p].ok])
  /\ worker' = [worker EXCEPT ![p] = Idle]
  /\ UNCHANGED <<storeVars, jobs, pending, inProgress, leases, cancelled, hedge,
                 mgrVars, reaperVars, disabled, faults>>

\* A crash, or a lost connection.  Only a new process serves every provider again.
WorkerFault(p) ==
  /\ worker[p].pc \in WorkerFaultPoints /\ faults < MaxFaults
  /\ faults' = faults + 1
  /\ worker' = [worker EXCEPT ![p] = Idle]
  /\ disabled' \in {disabled, disabled \ ProviderOf(p)}
  /\ UNCHANGED <<storeVars, redisVars, mgrVars, reaperVars>>

\* A Redis error on the statistics of a finished job makes it a failed one.
StatsFault(p) ==
  /\ p \in Locals /\ worker[p].pc = "acked" /\ worker[p].ok
  /\ "acked" \in WorkerFaultPoints /\ faults < MaxFaults
  /\ faults' = faults + 1
  /\ worker' = [worker EXCEPT ![p].ok = FALSE]
  /\ UNCHANGED <<storeVars, redisVars, mgrVars, reaperVars, disabled>>

WorkerStep(p) ==
  \/ \E s \in Sources : Claim(p, s)
  \/ SkipCancelled(p) \/ StartGenerating(p)
  \/ \E outcome \in Outcomes : Acknowledge(p, outcome)
  \/ PushCompleted(p)

-----------------------------------------------------------------------------
(* The reaper *)

\* A worker is at work on job j.
Held(j) == \E p \in Processes : worker[p].pc \in {"claimed", "running"} /\ worker[p].job = j

\* EXISTS of the lease of an entry of jobs:in_progress: it was never written, or
\* its TTL is over.  (An entry of the scan's snapshot that is acknowledged before
\* its turn never comes back: its LREM finds nothing.)
FindOrphan(j) ==
  /\ reaper.pc = "scan" /\ Contains(inProgress, j)
  /\ IF Held(j)
       THEN /\ LeaseOutlastsRun => j \notin leases
            /\ lapses < MaxLapses
            /\ lapses' = lapses + 1
       ELSE UNCHANGED lapses
  /\ leases' = leases \ {j}
  /\ reaper' = [pc |-> "remove", job |-> j]
  /\ UNCHANGED <<storeVars, jobs, pending, inProgress, cancelled, completed, hedge,
                 mgrVars, workerVars, faults>>

\* Whether the LREM removed an entry.
RemovedAnyway(j) == TRUE                       \* (a variant)
Removed(j) == Contains(inProgress, j)

\* LREM before RPUSH, and the RPUSH only if the LREM removed the entry.
RemoveOrphan ==
  /\ reaper.pc = "remove"
  /\ inProgress' = RemoveFirst(inProgress, reaper.job)
  /\ reaper' = IF Removed(reaper.job) THEN [reaper EXCEPT !.pc = "requeue"]
                                                   ELSE Scan
  /\ UNCHANGED <<storeVars, jobs, pending, leases, cancelled, completed, hedge,
                 mgrVars, workerVars, faults, lapses>>

\* pending_list_for: only a local worker's job goes back to its own list.
AlwaysShared(j)   == Shared                   \* (a variant)
PendingListFor(j) == IF SourceOf(j) \in Locals THEN SourceOf(j) ELSE Shared

RequeueOrphan ==
  /\ reaper.pc = "requeue"
  /\ pending' = [pending EXCEPT ![PendingListFor(reaper.job)] = Append(@, reaper.job)]
  /\ reaper' = Scan
  /\ UNCHANGED <<storeVars, jobs, inProgress, leases, cancelled, completed, hedge,
                 mgrVars, workerVars, faults, lapses>>

ReaperFault ==
  /\ reaper.pc \in ReaperFaultPoints /\ faults < MaxFaults
  /\ faults' = faults + 1
  /\ reaper' = Scan
  /\ UNCHANGED <<storeVars, redisVars, mgrVars, workerVars, lapses>>

Reaper ==
  \/ \E j \in ToSet(inProgress) : FindOrphan(j)
  \/ RemoveOrphan \/ RequeueOrphan

-----------------------------------------------------------------------------
(* Time *)

\* now reaches a record's not_before.
HedgeFallsDue(i) ==
  /\ Hedged(i) /\ ~hedge[i].due
  /\ hedge' = [hedge EXCEPT ![i].due = TRUE]
  /\ UNCHANGED <<storeVars, jobs, pending, inProgress, leases, cancelled, completed,
                 mgrVars, workerVars, reaperVars, faults>>

Clock == \E i \in Items : HedgeFallsDue(i)

-----------------------------------------------------------------------------
Init ==
  /\ position = [i \in Items |-> 0]
  /\ status = [i \in Items |-> "absent"]
  /\ track = [i \in Items |-> NoJob]
  /\ jobs = <<>>
  /\ pending = [q \in Queues |-> <<>>]
  /\ inProgress = <<>>
  /\ leases = {}
  /\ cancelled = {}
  /\ completed = <<>>
  /\ hedge = [i \in Items |-> NoHedge]
  /\ mgr = "poll" /\ msg = NoMsg /\ plan = NoPlan
  /\ worker = [p \in Processes |-> Idle]
  /\ reaper = Scan
  /\ disabled = {}
  /\ faults = 0 /\ lapses = 0

Next ==
  \/ StoreUsers
  \/ Manager \/ ManagerFault
  \/ \E p \in Processes : WorkerStep(p) \/ WorkerFault(p) \/ StatsFault(p)
  \/ Reaper \/ ReaperFault
  \/ Clock

Spec == Init /\ [][Next]_vars

-----------------------------------------------------------------------------
(* Properties *)

\* Every job id anywhere in Redis or in a process is that of a job that was
\* pushed, and every process stands at a step that fits the job it holds.
TypeOK ==
  /\ position \in [Items -> Nat]
  /\ status \in [Items -> Status]
  /\ track \in [Items -> SomeJob]
  /\ jobs \in Seq([item : Items, source : Sources])
  /\ pending \in [Queues -> Seq(JobIds)]
  /\ inProgress \in Seq(JobIds)
  /\ leases \subseteq JobIds
  /\ cancelled \subseteq JobIds
  /\ completed \in Seq([job : JobIds, ok : BOOLEAN])
  /\ hedge \in [Items -> HedgeRecords]
  /\ mgr \in {"poll", "apply", "fail", "track", "release", "forget", "save", "mark", "push",
             "remember"}
  /\ msg \in [job : SomeJob, ok : BOOLEAN]
  /\ plan \in [item : Items \union {None}, source : Sources \union {None},
              backup : Sources \union {None}]
  /\ worker \in [Processes -> [pc : {"idle", "claimed", "running", "acked"},
                              job : SomeJob, ok : BOOLEAN]]
  /\ reaper \in [pc : {"scan", "remove", "requeue"}, job : SomeJob]
  /\ disabled \subseteq Providers
  /\ faults \in Nat /\ lapses \in Nat

Settled(i) == status[i] \in {"ready", "playing", "played", "failed"}

\* A job:cancel key is only ever set for a job whose item has its outcome: no
\* interleaving of hedges, re-runs and faults cancels a job an item waits for.
CancelledOnlyWhenSettled == \A j \in cancelled : Settled(ItemOf(j))

\* An item on its way to the air has a file of one of its own jobs, and an item
\* that is not has none; only a manager stopped inside mark_ready leaves a
\* ready row without a file.
TrackMatchesStatus ==
  \A i \in Items :
    /\ track[i] # NoJob => /\ status[i] \in {"ready", "playing", "played"}
                           /\ ItemOf(track[i]) = i
    /\ status[i] \in {"playing", "played"} => track[i] # NoJob

\* Where job j's payload stands in the lists, or in the reaper's hands between
\* its LREM and its RPUSH.
Places(j) ==
  (UNION {{<<q, k>> : k \in {n \in DOMAIN pending[q] : pending[q][n] = j}} : q \in Queues})
    \union {<<"in progress", k>> : k \in {n \in DOMAIN inProgress : inProgress[n] = j}}
    \union {<<r.pc, r.job>> : r \in {reaper} \intersect {[pc |-> "requeue", job |-> j]}}

\* No interleaving of a worker's ack, the reaper's requeue and a crash leaves a
\* job queued twice, or brings back a job that is acknowledged (reaper.py: LREM
\* before RPUSH, "that job is complete and must NOT be queued twice").
JobNeverQueuedTwice ==
  [][\A j \in JobIds : Cardinality(Places(j)') <= Cardinality(Places(j))]_vars

\* A hedge ends with its losers told: once an item is won, every other job that
\* was pushed for it has its job:cancel key, so none of them starts after that.
LosersAreCancelled ==
  \A i \in Items :
    /\ status[i] \in {"ready", "playing", "played"}
    /\ ~(mgr \in {"track", "release"} /\ ItemOf(msg.job) = i)
    => \A j \in JobIds : ItemOf(j) = i /\ j # track[i] => j \in cancelled

\* Somebody will still act on job j: it waits on a list a worker claims from, it
\* is in progress or on its way back, or its result is on its way to the manager.
Live(j) ==
  \/ \E s \in Sources \ disabled : Contains(pending[s], j)
  \/ Contains(inProgress, j)
  \/ reaper.pc = "requeue" /\ reaper.job = j /\ PendingListFor(j) # Shared
  \/ \E p \in Processes : worker[p].pc = "acked" /\ worker[p].job = j
  \/ \E k \in DOMAIN completed : completed[k].job = j
  \/ mgr \in {"apply", "fail"} /\ msg.job = j

\* An item that is generating is never forgotten: a job of it is live, or its
\* backup has yet to be fired, or the manager is about to push its job.
GeneratingIsBacked ==
  \A i \in Items : status[i] = "generating" =>
    \/ \E j \in JobIds : ItemOf(j) = i /\ Live(j)
    \/ Hedged(i) /\ Unfired(hedge[i])
    \/ mgr = "push" /\ plan.item = i

\* The manager decides that nothing can finish item i any more.
GivesUp(i) == mgr = "apply" /\ mgr' = "fail" /\ ItemOf(msg.job) = i

\* The manager gives an item up only when no other side can finish: every other
\* job pushed for it has reported a failure before, and no backup is to come.  And
\* no other way leads from generating to failed.
FailOnlyWhenHopeless ==
  [][\A i \in Items : status[i] = "generating" =>
       /\ status'[i] = "failed" => mgr = "fail" /\ ItemOf(msg.job) = i
       /\ GivesUp(i) =>
            /\ \A j \in JobIds \ {msg.job} : ItemOf(j) = i =>
                 \/ j = hedge[i].primary /\ hedge[i].primaryFailed
                 \/ j = hedge[i].backup /\ hedge[i].backupFailed
            /\ ~(Hedged(i) /\ Unfired(hedge[i]))]_vars

\* What the rest of the system sees of an item: a ready row without its track
\* cannot be claimed, so it still counts as generating.
Phase(i) == IF status[i] = "ready" /\ track[i] = NoJob THEN "generating" ELSE status[i]

Lifecycle == INSTANCE ItemLifecycle WITH phase <- [i \in Items |-> Phase(i)], take <- track

\* Every step of the protocol is a step of the item lifecycle or none at all.
ImplementsLifecycle == Lifecycle!Spec

\* The list from before per-worker lists has no reader any more, so a requeued
\* job is never left on it (worker/README.md: an orphaned job returns to
\* jobs:pending and any worker can reclaim it).
RequeuedJobIsServed == pending[Shared] = <<>>

\* The manager and the reaper poll forever, a worker blocks on its list and runs
\* every job to an end, and a hedge's not_before comes.
Fairness ==
  /\ WF_vars(Manager) /\ WF_vars(Reaper) /\ WF_vars(Clock)
  /\ \A p \in Processes : WF_vars(WorkerStep(p))

FairSpec == Spec /\ Fairness

\* A generating item gets its outcome, even when the workers that run its jobs
\* die before they acknowledge them or lose them to the reaper.
GeneratingSettles == \A i \in Items : Generating(i) ~> Settled(i)

=============================================================================
