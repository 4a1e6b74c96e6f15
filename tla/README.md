# ai-roi: a verification project

TLA+ models of the AI radio station in `src/`, the TLC runs that check them on
small instances, and TLAPS proofs of what matters most. A viewer's request
becomes a row of `queue_items`; the queue manager turns it into a job on a
worker's Redis list; a worker generates a track; the manager makes the row
ready; the playout airs it. The jobs are raced (hedged) between two sources,
re-run when a worker's lease expires, and reported over a list that the manager
drains, so one request may have several jobs and several results. The project is
about that protocol first, then about the playout that airs what comes out of it,
about the two intake services that put requests in, about what the manager knows
when it chooses a source, and about what happens inside a worker between its claim
and its report.

    tlc -workers 2 -config Protocol_faults.cfg MCJobProtocol.tla
    tlc -workers 2 -config Playout_live.cfg MCPlayout.tla
    tlc -workers 2 -config Intake_both.cfg MCChatIntake.tla
    tlc -workers 2 -config Dispatch_modes.cfg MCDispatch.tla
    tlc -workers 2 -config Generation_runs.cfg MCGeneration.tla
    tlapm JobProtocolProofs.tla
    tlapm PlacesProofs.tla
    tlapm HedgeProofs.tla
    tlapm BackingProofs.tla
    tlapm PlayoutProofs.tla
    tlapm ChatIntakeProofs.tla
    tlapm DispatchProofs.tla
    tlapm GenerationProofs.tla

## 1. Inventory

| part | source | its state | its operations | what must be right |
|---|---|---|---|---|
| queue manager | `queue/manager.py` | none of its own: all in Postgres and Redis (`hedge:item:<id>`) | `drain_completed`, `fire_due_hedges`, `dispatch_one`, once per pass | one outcome per request; the losers of a race are told, the winner never; a request is given up only when nothing can finish it |
| queue store | `queue/store.py` | `queue_items.status`, `queue_position`, `track_id`; `tracks`, `prompts` | `enqueue`, `mark_*`, `claim_next_ready`, `release_to_ready`, `requeue_interrupted` | status moves only along its life cycle; an aired row has its track |
| lease reaper | `queue/reaper.py` | the open SQLite transaction | `reap_expired`, `drain_stats` | an orphan is put back where it is claimed; a finished job never is; a timing row is stored once |
| local workers | `worker/windows_worker.py`, `worker/mac_claim.py` | the job in hand | claim, lease, cancel check, generate, ack, report | the queue is never wedged |
| provider worker | `worker/provider_worker.py` | the job in hand, `disabled` | the same for elevenlabs and gemini_lyra in one thread; heartbeat and quota threads | no routing to a source out of credits |
| ACE-Step client and model server | `worker/ace_client.py`, `worker/mac_worker.py` | the server's tasks, `MacWorker._busy` | submit, wait, fetch a track, give up | a track under its final name is complete and its own job's; no task holds a worker for ever |
| provider clients | `worker/providers.py` | the balance | one call, its classification, the write of the track | a job is paid for once; an error disables a source only when it is out of credits |
| routing and timing | `queue/timing.py`, `queue/selection.py` | none (pure) | `choose_source`, `pick_hedge_partner`, `plan_assignment` | no paid call in `local_only`; no call on a balance that is unknown or 0, which the backups of `paid_only` do not keep |
| playout controller | `playout/playout_controller.py` | the playlist being streamed | claims at each boundary, restarts of ffmpeg | every claimed row is played, released or failed |
| filler pool | `playout/filler_pool.py` | play counts in SQLite | pick and mark played | a track comes again only after all others |
| submit pipeline | `queue/submit.py`, `moderation.py`, `ratelimit.py`, `intake.py` | rate-limit windows in Redis | limit, moderate, enqueue | moderation fails closed, the limit fails open; two processes enqueue without upsetting the order |
| chat intake | `queue/chat_intake.py` | page token, seen ids | connect, poll, de-duplicate, submit, reply | no message twice, none passed over while it listens |
| dashboard, Redis client, telemetry, tools, deployment | see `PROJECT.json` | | | not modelled |

The parts interact through Postgres rows and Redis lists and keys only:

    intake --enqueue--> queue_items <--claim/played-- playout
                            ^
                         manager --RPUSH--> jobs:pending:<source> --BRPOPLPUSH--> worker
                            ^                        ^                              |
                            |                      reaper <-- jobs:in_progress, job:lease
                            +------LPOP------ jobs:completed <------RPUSH----------+
                            |                                                      |
                 averages --+-- SQLite <--reaper-- generation:stats <------RPUSH---+

What is hard about it: every arrow is a separate command, every process may stop
between any two of them, a Redis list has no transactions around its claim, a
lease is a guess about how long a generation takes, and a request can have up to
two jobs at a time, each of which may be run twice. `PROJECT.json` lists the
hazards at their lines and the property that covers each.

## 2. Modules

| module | what it is |
|---|---|
| `ItemLifecycle` | what the queue promises about one request: absent, queued, generating, ready, playing, played or failed; at most one file delivered, for good |
| `JobProtocol` | manager, workers, reaper and the playout's claims over Postgres and Redis; implements `ItemLifecycle` |
| `MCJobProtocol` | the instances TLC checks |
| `JobProtocolProofs` | the theorems about `JobProtocol` that hold under any faults |
| `PlacesProofs` | the theorems about where a job stands, under any faults as well |
| `HedgeProofs` | the theorems about races, and the steps that can lose sight of one |
| `BackingProofs` | the theorems that no item is forgotten, and the steps that can lose one |
| `FillerPool` | the table of filler tracks, the rule that picks the next one, `sync_from_disk` |
| `Playout` | the playout controller over `FillerPool` and the rows of the queue, in both modes; implements `ItemLifecycle` |
| `MCPlayout` | the instances TLC checks |
| `PlayoutProofs` | the theorems about `Playout` and `FillerPool` |
| `Submission` | `submit_prompt` from the rate limit to the row, run by two processes; no Init or Next of its own |
| `ChatIntake` | the chat bot and the form over `Submission`, with the viewers, the cooldowns and the manager around them |
| `MCChatIntake` | the instance TLC checks |
| `ChatIntakeProofs` | the theorems about `ChatIntake` |
| `Routing` | the choice of a source and of a hedge partner, as functions of the health of the sources |
| `Dispatch` | `dispatch_one` with its separate readings, over `Routing`, beside workers, reaper and the three threads of the provider worker |
| `MCDispatch` | the deployments TLC checks |
| `DispatchProofs` | the theorems about `Routing` and `Dispatch` |
| `WorkerRun` | what the protocol takes a worker to be: one job at a time, tracks that appear whole, at most one report per run |
| `Timings` | `push_stats` and `drain_stats`: the rows of timing from the list to their table |
| `Generation` | one worker with its model server or its paid call, its files and its commands, over `Timings`; implements `WorkerRun` |
| `MCGeneration` | the deployments TLC checks |
| `GenerationProofs` | the theorems about `Timings` and `Generation` |

`JobProtocol` knows the playout as four statements on the rows, in any order
(`StoreUsers`); `Playout` knows the manager as the two statements that end
generating. Both are held to `ItemLifecycle`. `ChatIntake` knows the manager as the
one statement that takes a row out of the queue. `Dispatch` follows jobs only as
far as a source holds them: what becomes of a result is `JobProtocol`'s, and what
the manager knew when it made its plan is `Dispatch`'s. `JobProtocol` has one step
for a whole generation (`Acknowledge` with its outcome) and takes a report of
success to mean a track that is there: `Generation` opens that step up, and
`ImplementsRun` is the promise the other module relies on.

### How `JobProtocol` corresponds to the code

State. `status`, `position` and `track` are the columns of `queue_items`. `jobs`
holds the payload of every job ever pushed, and a job id is its index there, so
ids are fresh as `uuid4` is. `pending[s]` is `jobs:pending:<s>`, and
`pending[Shared]` the list `jobs:pending` from before per-worker lists.
`inProgress`, `completed`, `leases`, `cancelled` and `hedge` are the Redis keys
of those names. `mgr`, `worker[p]` and `reaper` are the places between the
commands of the three kinds of process, with what each holds in its locals.

Steps. A step is one statement or command wherever another process, or a crash,
can tell the difference:

* The manager is single-threaded. `PopCompleted` is its LPOP; `ApplyWin` /
  `RecordTrack` are the two halves of `mark_ready` (the guarded UPDATE, then the
  track and `track_id`, each its own autocommitted statement); `ReleaseHedge` /
  `ForgetHedge` are `release_hedge`, which cancels and then drops the record;
  `ApplySideFailed` and `ApplyFailed` are the two answers of `note_side_failed`, the
  second of which has dropped the record in Redis before `MarkFailed` touches the row
  in Postgres; `ApplyLate` is a completion that lost. `FireHedge` / `SaveHedge` and `MarkGenerating` /
  `PushPrimary` / `RememberHedge` are `fire_due_hedges` and `dispatch_one` in the
  order of their writes. `ManagerFault` is an exception or a crash at any of these
  places: the loop starts over from what the stores hold.
* Two pairs of its commands are one step. `cancel_job` sets `job:cancel` and takes
  the job off its list: a job that is cancelled and still listed is claimed and
  dropped. `remember_hedge` and `forget_hedge` write a set member and a key (below).
* `Claim` is BRPOPLPUSH. RPUSH and BRPOPLPUSH work on the same end of the list,
  so a worker takes the newest job first; the model does as well.
* The lease and the one look at `job:cancel` are taken together: nobody else's
  step between them makes a difference to either.
* `Acknowledge` is the LREM and the DEL of the lease, `PushCompleted` the report,
  with `WorkerFault` possible before, between and after. `StatsFault` is the
  `except` of the local workers: a Redis error after the ack turns a finished
  job into a failed one.
* `FindOrphan`, `RemoveOrphan`, `RequeueOrphan` are EXISTS, LREM and RPUSH.

Abstractions, and why they are sound for the properties:

* Prompts, durations, file names and wording are gone. A file is the job that
  made it.
* The clock: a lease may be over, and a hedge may fall due, at any time. A run
  that needs leases to outlast the generation says so (`LeaseOutlastsRun`).
* Health and latency: the manager may choose any plan that `choose_source` and
  `pick_hedge_partner` can return in the mode, or none; `Dispatch` has the
  functions themselves. A disabled provider is never in a plan: its heartbeat is
  deleted before the failure is reported. That its heartbeat thread may write it
  once more in between is in `Dispatch`.
* `enqueue` is one step. Its statements race only with a second intake process,
  which is what `Submission` is about.
* A hedge record is one key here and a set member plus a key in Redis. Only the
  manager touches either. A stop between SADD and SET leaves a member without a key,
  which the next pass takes away: as if it had stopped before both. A stop between
  SREM and DEL leaves a key without a member: as if it had stopped before both, but
  a backup that was not started never will be. (When `note_side_failed` drops a
  record there is none to start.)
* `mark_generating` and `set_deadline` are one step; nothing reads the deadline.

### How `Playout` and `FillerPool` correspond to the code

`pc` is the place of the controller's one thread, `slot` what it has in hand,
`ffmpeg` whether its child is alive, `stopping` is `_shutdown_requested`,
`entries`, `skips` and `attempts` are the locals of `build_playlist`. A step is
one database statement, one look at the disk or at the child, or one wait.

* `Start` and `OpenLiveStore` are `main` up to its loop; `StayOnFiller` is the
  `except` of `open_live_store`, after which the process stays in playlist mode.
* Live mode: `Launch`, `OpenFifo`, `EndSession` are a session of `play_tailable`
  and the loop around it. Each boundary is `ClaimNextReady` with `TakeLive`,
  `ReleaseMissing` or `MarkFailed`, or `NothingReady`; without a slot
  `TakeFiller` follows, and without that the wait of `starved`. `Decode`,
  `CheckAlive` and `MarkPlayed` are the rest of the loop body. What `_decode_into`
  returns is only logged, so `Decode` has one outcome.
* Playlist mode: `Rebuild` to `PlaylistEnds`, one step per pick of
  `build_playlist`. A stop during the build still plays what was built, as in
  the code.
* `Crash` is the container dying, or an exception (a failed statement) that ends
  the process; `restart: always` brings it back. `Stop` is SIGTERM.
* In `FillerPool` a row is its file, and of `last_played_at` only the order is
  kept (`later`). `PickAndMarkPlayed` is the pick and its commit: nothing else
  happens between them that a reader of the table could see.

Left out: time (the length of waits and of the backoff after failures, which
decide nothing else), `current_track.txt` and the thread that writes it,
DRY_RUN. The clock does not go backwards: were it set back, the last track would
count as played earlier than it was. Requests are numbered in the order
`claim_next_ready` takes them. A request's file appears on the shared mount some
time after its row is ready, and may disappear with the mount.

### How `Submission` and `ChatIntake` correspond to the code

`rows` is `queue_items` in the order of its INSERTs, and `windows` the keys
`ratelimit:<key>` that live in Redis. `sub[p]` is the call of `submit_prompt` that
process `p` is in, with `pc` the place between two of its calls out: `Admit`,
`Refuse` and `FailOpen` are `RateLimiter.allow`; `Screen` is `prompt_error` and
`moderate_prompt`; `RecordRejected`, `ReadPosition` and `InsertItem` are the
statements of the store. `bot`, `token`, `firstDone`, `started` and `seen` are the
fields of `ChatBot` (an empty `chat_id` is `bot = "resolve"`), `page` what the
`for` of `poll_once` has still to do. `linked` says whose Postgres connection is
alive. `heard`, `forgotten`, `behind` and `msg` are history the properties need;
no guard reads them.

A step is one call to Redis, to the moderation services, to Postgres or to
YouTube. The bot submits in the middle of a page, so a page is taken up one
message at a time (`TakeUp`, `PassOver`), and `EndPage` is the trim. The form
handles one POST at a time, since `HTTPServer` is not threaded. An exception that
nobody catches ends the bot (`BotStatementRaises`) and only the request of the
form (`FormStatementRaises`), which keeps a broken connection for good.

Abstractions:

* A prompt is what the pipeline finds out about it (`AllTexts`), a chatter or
  client its limiter key. `CheckHarmful` and `CheckCopyrightLlm` are the sets of
  what the two services can answer, an outage included.
* Messages are numbered in the order of their publication. A page token is the
  number of messages before the page, `started_at` the number of messages before
  the start. YouTube is assumed to list messages in that order; a page without
  `nextPageToken`, after which the bot asks for the same page again, is a fault.
  After a reconnect the listing begins at the first message, which is the worst
  case for repeats.
* The clock: a cooldown may end at any time. Back-offs and errors of YouTube that
  change no state are stutters, as is a broadcast that is not live yet.
* The two INSERTs of `enqueue` are one step, as the row of `prompts` is only read
  through its item; a crash between them leaves a prompt that nothing reads.
* `created_at`, which decides between equal positions, is taken before the
  position is read, so it may order them either way: `IsNext` leaves it open.
* A limiter call that fails may have carried out its SET or not.

### How `Routing` and `Dispatch` correspond to the code

A function of `Routing` returns a set of at most one source: the empty set is
`filler_pool` or `None`. A balance is above 0 ("some"), 0 or unknown; a latency is
a number, 0 where nothing was measured.

`pending`, `inProgress` and `beat` are the Redis keys, the first two as counts per
source. `dispatch_one` reads in the order of `ReadOrder`, one key per `Read`, into
`view`, and decides on that alone (`Assign`, `LeaveQueued`); the averages come
from SQLite at the decision, and are any of `Latencies`. `Claims` and
`Acknowledges` are the two ends of a job for both kinds of worker. The provider
worker is three threads over `disabled`: `ClaimLoop` with its place `turn` and the
DEL of the heartbeat as a step of its own (`DropHeartbeat`), the heartbeat in the
halves `PrepareBeat` and `WriteBeat`, and `RefreshQuota`. `ProviderRestart` forgets
`disabled` and goes back to the seeded balance.

Abstractions:

* Jobs are counted; leases are gone, so the reaper moves only what no worker has
  in hand. Early expiry, and the gap between claim and lease, are `JobProtocol`'s.
* Time: a heartbeat may lapse and a backup fall due at any moment; whether an
  assignment becomes a race is a free choice, as depth and budgets are left out.
* `BRPOPLPUSH` blocks five seconds on one provider's list; a look at a list that
  stays empty is `ProviderSkip`.
* A restart of the manager in the middle of `dispatch_one` is `JobProtocol`'s: it
  would start over with nothing read.
* `gemini_lyra` publishes a balance from its spend cap, which routing does not
  read: `pick_available_provider` needs only its heartbeat.

`moved`, `free` and `funded` are history the properties need; no guard reads them.

### How `Generation` and `Timings` correspond to the code

`pc`, `job` and `task` are the place and the locals of one worker's loop;
`env` says which worker (`windows_worker.py`, `mac_claim.py` with
`mac_worker.py`, or `provider_worker.py` with one provider), which jobs are pushed
to it and how many faults there may be. `engaged` is `MacWorker._busy`, `disabled`
the entry in the provider worker's set. `tmp` and `tracks` are the two names a
job's file has: the `.tmp` and the final one. `tasks` is what the model server
was asked for, with what became of it.

A step is one HTTP request, one command to Redis, or one operation on a file.
`Start` is `wait_until_up`; `Begin` and `Refuse` are the checks before a
generation; `Submit`, `NotAccepted`, `Succeeds`, `TaskFailed` and `TimedOut` are
`submit`, `wait` and `is_success`; `Call` and `Answered` are `generate` of a
provider, with the table of `Outcome` for the exception each answer raises: any body
that ElevenLabs sends with a 2xx is taken for the track unless it is empty
(`providers.py:297`), Gemini's has to contain audio (`Accepted`).
`OpenTmp`, `Written`, `Replace` are `fetch_track` and `_atomic_write`. `Fails` is
the way to `handle_job`'s `except`, and `Escapes` the exceptions it does not list.
`Acknowledge`, `PushStats`, `PushCompleted`, `Fail`, `Exhausted` and `PushFailed` are
the reports in the order of their commands. A command may be carried out and its
answer lost (`Answer`), or not be carried out (`CommandFails`), and the process
may end anywhere (`Dies`).

In `Timings`, `hand` is the row between RPOP and INSERT, `open` the transaction of
the SQLite connection, which `main` keeps when a pass raises, and `table` the rows
of each commit. `Pop`, `Insert`, `Drained` and `Commit` are the loop of `drain_stats`
and its one commit; `PopBreaks`, `StatementBreaks` and `ReaperDies` interrupt it.

Abstractions:

* The model server is external: it takes on `ServerQueue` tasks, works on them in
  any order, may fail, stop, or never finish one, and forgets all of them when it
  stops. A task that timed out is not withdrawn and still occupies it.
* A file is whose audio it is and whether all of it is there, that is, all that the
  source answered: nobody looks at what the bytes are. The names of a job's
  files are made of its id, so runs of one job share them and no others do.
* The claim and the lease are one step, as are the reaper's LREM and RPUSH: what
  happens between them is `JobProtocol`'s. A lease may be over while the worker is
  still at it, which counts as a fault.
* A row of timing is its number. A row of a job without a duration is refused by
  `stats_row` (`Malformed`). Some errors of SQLite undo the transaction and some
  leave it open; both may happen.

### Properties

| property | what it says |
|---|---|
| `TypeOK` | every job id and source anywhere is one that exists |
| `CancelledOnlyWhenSettled` | no job is cancelled while its item waits for an outcome |
| `LosersAreCancelled` | once an item is won and its hedge released, every other job of it is cancelled |
| `TrackMatchesStatus` | an aired item has a file of one of its own jobs, and nobody else's |
| `JobNeverQueuedTwice` | no step increases the number of places a job's payload stands in |
| `ImplementsLifecycle` | refinement: each step is one step of an item's life cycle or none |
| `GeneratingIsBacked` | a generating item always has a job, a backup or a push that can still finish it |
| `FailOnlyWhenHopeless` | the manager fails an item only when every job of it failed and no backup is to come |
| `GeneratingSettles` | a generating item gets its outcome |
| `RequeuedJobIsServed` | violated: `worker/README.md` on requeued jobs |
| `PlayingIsInHand` | a row is playing only while the controller has it in hand or a start is due |
| `ReadyIsAired` | a ready request is played in the end; violated when FFmpeg exits |
| `UnreadableIsFailed` | violated: the log line "marking failed" of `_take_live` |
| `RotationIsFair` | a filler track comes again only after every other track of the pool |
| `RepeatOnlyWhenAlone` | a playlist repeats a row at once only if all others of the pool were tried and unplayable |
| `AtMostOnce` | a chat message becomes one request at most, unless its id was trimmed out of `seen_ids` |
| `OnlyScreenedEnqueued` | no row for a prompt that a check which must not be skipped rejects |
| `FirstComeFirstServed` | the manager takes no row before one that was in the table when its enqueue began |
| `HeardWhileListening` | a message published while the bot listens is handled, or the connection ends first |
| `OccupiedIsKnown` | when the manager decides it knows of every job a local worker has, unless the reaper moved one meanwhile |
| `FreeLocalGoesFirst` | in `hybrid` no item goes to a provider while a local worker was known to be idle all along |
| `FundedCallsOnly` | before a balance above 0 was ever seeded or read, elevenlabs is handed no job but as the backup of gemini_lyra in `paid_only` |
| `DisabledGoesQuiet` | the heartbeat of a provider that stays disabled disappears for good |
| `ListIsServed` | no provider's list is starved by the other provider |
| `TracksAreWhole` | under a final name is all that was answered to its own job, after torn writes, reruns, and answers to tasks that were given up |
| `PaidOnce` | a provider is called once for a job at most |
| `FreeBetweenJobs` | no way out of a generation leaves the Mac worker "busy" |
| `EachRowOnce` | a row of timing is in one place, and in the table once |
| `LaterCommitsAreNewer` | a commit holds only newer rows than those before it |
| `ImplementsRun` | refinement: a worker does what `WorkerRun` promises |
| `ComesBack` | a worker is rid of every job in the end, whatever the model server does |
| `TimingsArrive` | a row of timing gets into the table, or is refused, or is lost to a fault |

`AtMostOnce` has its exception because `seen_ids` is a set and is cut without an
order: an id forgotten while its page is listed again (a page without a token, a
reconnect) is taken up twice. `FirstComeFirstServed` is as strong as the code
allows: two rows whose enqueues overlap may get one position, and then either may
go first.

`FundedCallsOnly` has an exception (`UncheckedBackup`) because the code breaks its
own rule: `pick_available_provider` calls an unknown balance "EXHAUSTED, the safe
default used everywhere a paid call could be made" (`timing.py:139-141`), but
`pick_hedge_partner` takes the other provider of `paid_only` on its heartbeat alone
(`timing.py:199`). The primary is elevenlabs when its balance is known to be above 0,
so whenever elevenlabs is the backup there the manager has read a balance that is
unknown or 0. No run shows the broken rule as a violation
of its own; the property says that nothing but this backup breaks it. The property is
about a first balance: `funded` is never taken back, since a balance that was above 0
when the manager read it may be spent by the time the job is pushed, and a hedge record
may wait for any time in between. `DisabledGoesQuiet` promises no more than it says:
a heartbeat written just after the DEL lives for its TTL, so the manager can
re-route in between, which the comment at `provider_worker.py:287-288` rules out;
such a job waits in its list until the worker is restarted.

`PaidOnce` rests on finding 1: an expired job of a provider is put where nobody reads,
so a call that was made before a crash is never repeated. Were the requeue
mended as the documentation has it, the property would go (the mutant of
`PendingWith`), and the provider worker would have to look for the track first.
`EachRowOnce` is the word of `drain_stats`, "can never double-insert". Its other
promise, that a crash in the middle "loses at most the row in flight"
(`reaper.py:213-215`), is not kept: there is one commit at the end of the drain, so
a crash loses every row of the open transaction. `lost` therefore takes the
whole transaction, and no property says less. Within one commit the order of the
rows is that of the RPOPs, newest first, so that `load_latency`'s newest rows by
id are only the newest commits; `LaterCommitsAreNewer` says what is left.

In `Playout`, `ImplementsLifecycle` says the same of the controller's statements:
each is a step of a row's life cycle or none.

`ImplementsLifecycle` of `JobProtocol` maps a ready row without a track to `generating`: the JOIN
in `claim_next_ready` hides it from the playout. So the mapping says that the
first `mark_ready` wins, that a file is never replaced, and that `mark_generating`,
an UPDATE with no expected status, still only ever moves a queued row.

## 3. Runs

| run | instance | shows |
|---|---|---|
| `Protocol_hedges` | 2 items, `local_only`, windows and mac, no faults; symmetric in the items | types, and both directions of hedge cancellation, in all interleavings of two races that share both workers (about 610 000 states) |
| `Protocol_faults` | 1 item, `hybrid`, windows and elevenlabs, every fault point, 2 faults, 1 lease that ends too soon, quota errors | the safety of rows, files and lists under crashes (about 700 000 states) |
| `Protocol_reruns` | 1 item, `local_only`, 2 faults of workers before the ack, 1 lease that ends too soon, fairness | nothing is forgotten or given up too early, and the item settles |
| `Protocol_provider_dies` | 1 item, `paid_only`, 1 fault | **violated**, finding 1 |
| `Protocol_dies_after_ack` | 1 item, `local_only`, 1 fault, leases that outlast every generation | **violated**, finding 2 |
| `Playout_live` | 3 requests, live mode, 2 files in the pool, late files, 2 crashes, stops or unmounts, fairness | no claim is left behind and every ready request is aired (about 160 000 states) |
| `Playout_faults` | 2 requests, 3 files, any two of all faults, both modes, playlists of 3; symmetric in the files | life cycle of rows, rotation of filler over restarts and changes of the pool (about 260 000 states) |
| `Playout_unreadable` | 2 requests, one without a duration, no faults | **violated**, finding 3 |
| `Playout_ffmpeg_exits` | 2 requests, FFmpeg exits once, fairness | **violated**, finding 4 |
| `Dispatch_modes` | seven deployments over the three modes, 2 items without faults or 1 with one, fairness of the provider worker | what the manager knows when it assigns, and what the provider worker's threads promise each other (about 170 000 states) |
| `Intake_both` | 2 chat messages, 1 prompt at the form, pages of one message, `seen_ids` of one, any one fault, fairness of the bot | order, screening and de-duplication with both services at work (about 370 000 states) |
| `Generation_runs` | eleven deployments: each of the four hosts with 1 job and 2 faults and with 2 jobs and 1 fault, three without faults; a model server that holds 1 task; fairness | what a run of a job leaves behind, that it ends, and that timings arrive (about 160 000 states) |

Bounds. `MaxFaults` and `MaxLapses` bound crashes and requeues of held jobs per
behaviour; everything else is bounded by the number of items, because an item is
assigned once and a hedge has two sides. One item already has every race of the
protocol (primary, backup, a re-run of either, late reports), and two faults are
enough for a crash and a second one during the recovery from it; two items show
that hedge records, cancellations and the shared workers do not mix up items.
Three items or sources add no new kind of interaction: sources differ only in
being local or paid, and each list has one reader.

For the playout, three requests give one in front of, one behind and one like the
request whose file is missing; three files and a window of one give a pool larger
than the window, and deletions give the pools in which the window must shrink. A
playlist of three has room for a repeat, and two skips in a row end it (ten in the
code), so that both ways out of `build_playlist` happen.

For the intake, two messages on pages of one make a first page and a later one,
and a limit of one makes `seen_ids` overflow; the prompt at the form races with
either. One fault is enough for each way out of the pipeline and each restart
or reconnect; the proofs do without the bounds.

For `Dispatch` each deployment brings its own bounds. Two items are needed for a
job in hand when the next one is assigned; one item with a fault already gives
orphans, requeues and restarts, and a backup beside its primary gives jobs for
both providers or both local workers. Latencies of none and one decide every
comparison of `Routing` both ways.

For `Generation`, two faults give a crash in a rerun of a job that crashed, or a
lost answer on top of an abandoned task; two jobs and a server for one task give the
429 that a timed-out job leaves to the next one, and a job next to a stuck flag.
Three jobs without faults make rows pile up over several passes of the reaper; the
third row is one that `stats_row` refuses, and job 4 is refused where requests are
validated. `MaxRows` says how many rows `TimingsArrive` follows: all of them.

Deadlock is not checked: once every request is played or failed, with both stores
idle, the system stops until the next request, and the model has finitely many.

Fairness (`FairSpec`): weak fairness of the manager, the reaper, the clock and
each worker, and of nothing else. The manager and the reaper are endless loops
with a sleep, a worker blocks on its list and the model server has a time limit,
`not_before` is an instant that passes. No fault is fair. The manager as a whole
is fair rather than each of its actions: it is one thread. `GeneratingSettles`
holds for crashes before the ack only; finding 2 is what happens after it.

`Playout`'s fairness is that of its one thread, of Docker's restart (a stop is
followed by a start), and of files arriving; no fault is fair. `Playout_live`
leaves out what findings 3 and 4 are about, and a Postgres that is down at start.

`ChatIntake`'s fairness is that of the bot's loop and of its restart by Docker, as
one process; viewers, the form, the manager, the clock and the faults are not
fair, and `HeardWhileListening` needs none of them.

`Dispatch` needs fairness for its two liveness properties only: of the claim loop
(an endless loop; its HTTP calls have a timeout), of a heartbeat that is about to
be written, and of the TTL of one that is no longer written.

`Generation`'s fairness is that of a worker with a job in hand and of the reaper.
A worker's waits all have limits (`max_wait_sec`, the timeouts of its HTTP
requests), and it is assumed that a command to Redis is answered or fails. The
model server, the claims and the faults are not fair.

## 4. Findings

1. `queue/reaper.py:169`: an expired job of a provider goes to `jobs:pending`,
   which no worker reads since each has its own list. `worker/README.md:231-232`
   promises that any worker can reclaim it there.
2. `worker/windows_worker.py:253`: the ack precedes the report, so the reaper is
   no safety net for a worker that dies between them (226-227 says it is).
3. `playout/playout_controller.py:377`: `mark_failed` applies to generating rows
   only, but the row it is called for has just been made playing. It stays so
   (the log line at 380 says "marking failed").
4. `playout/playout_controller.py:510`: an FFmpeg that exits during a request
   leaves its row playing, and the next session starts without
   `requeue_interrupted` (`queue/store.py:210`: "must not drop the item").

Met on the way, without a run of its own:

* `worker/provider_worker.py:317`: the claim precedes the lease, so the reaper may
  requeue the job of a worker that is alive (58-59 says only when it dies). The
  models have that step.
* `queue/reaper.py:213-215` on what a crash in the middle of a drain loses, and the
  order of the rows of one commit (above, under the properties).
* `queue/timing.py:199` and `worker/provider_worker.py:287-288` (above as well).

Hazards that no property is about, since nothing in the repository promises
otherwise: the rate limit is spent before moderation is asked
(`queue/submit.py:126`); a Postgres that is down at start is not tried again by
the playout (`playout/playout_controller.py:339`), and one that breaks later is not
by the form (`queue/intake.py:212`); an unplayable filler picked in its turn ends
a boundary of live mode (`playout_controller.py:391`); `queue_position` never goes
down and `compute_deadline` multiplies by it (`queue/timing.py:96`); the page of
the first poll is history, whatever was typed since the start
(`queue/chat_intake.py:355`). But for the deadlines, the steps are in the models.

## 5. Proofs

`JobProtocolProofs` proves, for any sets of items and sources, any mode, any
fault points and any bounds:

| theorem | statement |
|---|---|
| `TypeCorrect` | `Spec => []TypeOK` |
| `CancellationSafe` | `Spec => []CancelledOnlyWhenSettled` |
| `FilesMatchStatus` | `Spec => []TrackMatchesStatus` |
| `Refinement` | `Spec => ImplementsLifecycle` |
| `Invariance` | `Spec => [](Inv /\ Routed)`, which they follow from |

Assumptions: `NamesAreDistinct` (names of sources, processes and the null value
differ) and `SettingsAreValid` (the mode is one of three, and so on); TLC
evaluates both in every run.

None of the three invariants is inductive. `CancelledOnlyWhenSettled` needs to
know that what the manager holds when it cancels belongs to a settled item
(`Standing`), that a hedge record names jobs of its own item (`HedgesOfItem`) and
that jobs exist only for items that have left the queue: this is the argument why
the unguarded `mark_generating` and the late completions are harmless.
`TrackMatchesStatus` needs that between the halves of `mark_ready` the row is
ready and has no file, which holds because no claim takes such a row. `TypeOK`
needs `Routed`: a list, and the worker that serves it, hold only jobs of their
own source; the requeue of finding 1 keeps that, as nobody serves `Shared`. The
proof of the invariant goes process by process, one lemma per process, one step
per action. The refinement is proved on top of it: `RecordTrack` is the abstract
`Deliver`, `ApplyWin` is a stutter.

`PlacesProofs` holds under any faults too:

| theorem | statement |
|---|---|
| `OnePlaceAtMost` | `Spec => []OnePlace` |
| `NeverQueuedTwice` | `Spec => JobNeverQueuedTwice` |

`JobNeverQueuedTwice` is about one step, but no step keeps it by itself: a requeue
from the reaper's hand adds an entry, and only if the job is nowhere else does the
number of its places stay. That is `OnePlace`: a job is once on one list, or with
the reaper between its LREM and its RPUSH, or nowhere. It is inductive because LREM
comes before RPUSH and RPUSH follows only if the LREM found the entry; and because
no list has a job twice, one LREM, of an ack or of the reaper, takes all there is.
`NoneReturns` adds that a job that is nowhere, acknowledged or released, stays so;
`PlacesOfJob` turns both into the count of `Places`.

`HedgeProofs` and `BackingProofs` go on from there, for any sets of items, workers
and sources and any bounds:

| theorem | statement | holds if |
|---|---|---|
| `LosersAreTold` | `Spec /\ [][~RaceLost]_vars => []LosersAreCancelled` | always |
| `NotGivenUpEarly` | `Spec /\ [][~ContestLost]_vars => FailOnlyWhenHopeless` | always |
| `OnlyLossesForget` | `Spec /\ [][~LosingStep]_vars => []GeneratingIsBacked` | always |
| `NothingForgotten` | `Spec => []GeneratingIsBacked` | `NothingIsLost` |
| `LocalJobsAreServed` | `Spec => []RequeuedJobIsServed` | `NoPaidSource`: the mode is `local_only`, or there are no providers |

`RaceLost` names five places at which a manager that stops can lose sight of a race.
Between the statements of `mark_ready`, before `release_hedge` (or in its loop), and
before the record is dropped at its end: the item is won, and nobody comes back to the
losers, or a record is left behind whose backup is still fired. Between the push of a
backup and its record: the next pass pushes a second one, and nothing names the first.
Between `forget_hedge` in `note_side_failed` (`manager.py:313`) and `mark_failed`
(`manager.py:375`): the item is generating without a record, and a second run of a side
that then wins releases nobody. With any one of the five TLC finds a loser that is not
told; at any other place the manager may stop. `ContestLost` is the last two of them:
there alone a job that could still finish is forgotten about, so that the failure of
another one fails the item. TLC finds that with either; wherever else the manager
stops, and whatever becomes of the workers and the reaper, it does not happen.

`OnlyLossesForget` names every step that can lose an item (`LosingStep`): the
manager is interrupted with a completion in its hand, or between `note_side_failed` and
`mark_failed`, or between `mark_generating` and `push_job`; the reaper stops between its
LREM and its RPUSH; a worker dies after its ack (finding 2); a provider out of credits
is no longer served, and what waits on its list waits for a restart; the reaper takes a
provider's job, which it will return to the list nobody reads (finding 1). With any of
the seven left out TLC finds an item that is lost. All other steps, in any mode and any
order, lose none: every other interruption of the manager, deaths before the ack, in
providers too, a reaper that stops before its LREM, leases that end under a running
job, second runs and late completions.

`NothingForgotten` says under which settings no such step can be taken
(`NothingIsLost`): the manager is not interrupted at the three places, nor the reaper
before its RPUSH, no worker dies after its ack, and either there is no paid source,
or no worker fails, no lease ends under a running job and no credits run out.
Without a paid source no job, plan or backup ever names one (`AllLocal`). With one,
every job in progress is with a worker that runs it, so the reaper finds nothing to
do (`NoOrphans`); that needs `OnePlace`, or an ack could leave a second entry of its
job behind. `LocalJobsAreServed` is the other side of finding 1, from `AllLocal`.

`HedgeInv` follows a race from the first push to its release. Its heart is
`RacersKnown`: all jobs of an item that is raced are the two sides of its hedge
record, or the one that was pushed and is not recorded yet; an item without a
record has one job. The record is deleted only with the item's end, and once an
item is won, the winner is the one the file was taken from (`WinnerRecorded`), so
the loop over both sides misses nobody. `ContestInv` is what is left of it for the
items in generation alone, less the one that `MarkFailed` is about; it survives a record that a won item has left behind, whose
backup the manager will still push. `BackingInv` says that every single job
of such an item counts (`EveryJobCounts`): it is on a list, leased, in the
reaper's hand or on its way to the manager, or its failure is written in the
record. That at most one side of a record has failed, and that the manager never
writes over a record (`RecordsFit`), and that every generating item has a job
(`HasJob`), then leave one that can still finish. It needs no `HedgeInv`, so it
survives a hedge that was never released. The
weaker statement that some job is alive is not inductive: a completion of a
failed side takes one away, and nothing would be known of the other.

`PlayoutProofs` proves, for any number of requests, any pool, window, playlist
length and faults:

| theorem | statement |
|---|---|
| `PlayoutTypeCorrect` | `Spec => []TypeOK` |
| `RowsFollowLifecycle` | `Spec => ImplementsLifecycle` |
| `Rotation` | `Spec => RotationIsFair` |
| `RepeatsAreForced` | `Spec => RepeatOnlyWhenAlone` |
| `NothingDropped` | `Spec => []PlayingIsInHand`, if FFmpeg does not exit by itself, Postgres is up at start, and no track is unreadable |

`Rotation` rests on the lemma `WindowKeepsOldest`: in a strict order of plays
(`OrderOK`, which picks and synchronisations keep) the window only ever leaves
out rows that were played after the oldest one, so it never changes what the sort
would pick. `RepeatsAreForced` adds `SkipsCounted`: while a playlist is made, the rows
played after its last entry are at most as many as the skips since, so a pick that
finds the last entry oldest again has tried, and skipped, every other row. It is
about rows that were played before. A file that leaves the pool between two
synchronisations and comes back is a new row that was never played, and may follow
itself: with six files TLC finds such a playlist, which is why the property
says `played`. `NothingDropped` adds that a session airs only with an FFmpeg
(`InSession`); its hypotheses are the negations of findings 3 and 4 and of the
start without Postgres, and each is needed. The assumptions `PoolSettings` and
`PlayoutSettings` are evaluated by the runs.

`ChatIntakeProofs` proves, for any keys, any chat, page size, limit and faults:

| theorem | statement |
|---|---|
| `IntakeTypeCorrect` | `Spec => []TypeOK` |
| `ScreenedOnly` | `Spec => []OnlyScreenedEnqueued` |
| `ServedInOrder` | `Spec => FirstComeFirstServed` |
| `MessagesOnce` | `Spec => []AtMostOnce` |

`ScreenedOnly` needs that a submission past moderation carries a text that
passed it (`ScreenInv`). `ServedInOrder` needs that a row's position is above
those of all the rows its enqueue found, and the position in hand above those of
the rows counted when it was read (`OrderInv`): a row, once inserted, keeps its
position and is never deleted, so a maximum over all rows, taken ones included,
never goes back, which is what makes the read without a transaction harmless.
`MessagesOnce` needs `OnceInv`: a message once handled is in `seen`, or forgotten,
or older than the start of this run of the bot; rows stem from handled messages;
and what the bot is submitting has no row yet unless its id was forgotten. A
restart keeps it because every message is then older than the start, although
`seen` is empty. The assumptions `SubmissionSettings` and `IntakeSettings` are
evaluated by the run.

`DispatchProofs` proves, for any set of deployments, any latencies and any bounds:

| theorem | statement |
|---|---|
| `DispatchTypeCorrect` | `Spec => [](TypeOK /\ StateOK)` |
| `OnlyBackupsGoUnchecked` | `Spec => FundedCallsOnly` |
| `LoadIsTruth` | `Spec => []OccupiedIsKnown` |
| `FreeLocalFirst` | `Spec => FreeLocalGoesFirst` |

`OnlyBackupsGoUnchecked` follows a balance along its way (`FundedInv`): the provider
object, what the heartbeat thread is about to write, the heartbeat, the manager's
view and the hedge record; the lemmas on `Routing` (`SourceChoices`,
`PartnerChoices`) say that only a balance above 0 gets past it, and that in `paid_only`
elevenlabs is only the backup of gemini_lyra. `LoadIsTruth` needs
`OccupiedInv`: a list once read is not longer than its reading says, because only
the manager and the reaper add to it, and a job that leaves it for the table was
seen in the list or is seen in the table. This is why the order of the two
readings matters. `FreeLocalFirst` needs to know what the manager has read of a worker
that was idle, and known to be, ever since `dispatch_one` began (`FreeInv`): no load,
and, once its heartbeat's turn has passed, that it is idle. By `LocalChoices` the
choice then falls on a local worker, and by `WhoQueues` a job only ever reaches a
provider's list by such a choice or from a hedge record. The assumption
`DispatchSettings` is evaluated by the run.

`GenerationProofs` proves, for any deployments, any number of jobs
and faults, and any capacity of the model server:

| theorem | statement |
|---|---|
| `NoRowTwice` | `TimingsSpec => [](TimingsType /\ EachRowOnce)` |
| `CommitsAreInOrder` | `TimingsSpec => []LaterCommitsAreNewer` |
| `TimingsAreMoved` | `Spec => TimingsSpec`: what is proved of `Timings` holds inside `Generation` (`RowsOnce`, `RowsInOrder`) |
| `TypesHold` | `Spec => []TypeOK` |
| `NoTornTracks` | `Spec => []TracksAreWhole` |
| `NoSecondCall` | `Spec => []PaidOnce` |
| `NoStuckFlag` | `Spec => []FreeBetweenJobs` |
| `WorkerImplementsRun` | `Spec => ImplementsRun` |

A newer commit holds newer rows because all that is still on its way, in the list, in
the reaper's hand or in its transaction, is newer than what is stored, even when
a drain was interrupted and the transaction kept (`StoredIsOldest`). A commit keeps
that because it follows on an empty list: what was pushed since is newer
(`CommitIsComplete`). `NoTornTracks` needs that the task a worker waits for was
submitted for the job in its hand (`OwnTask`), which the tasks left behind by
others do not disturb, and that what is about to be renamed was written to its
end (`WrittenIsWhole`), which holds although a second run of the job opens the
same temporary file, because there is one worker to a list. `NoSecondCall` needs
that whatever is still to be claimed, and the job in hand before its call, has
not been paid for (`UnpaidWaits`). `WorkerImplementsRun` needs that a report of
success follows the rename (`MadeIsThere`). The assumptions `GenerationSettings` and
`RowsAreNumbers` are evaluated by the run.

Only model-checked: the liveness properties `GeneratingSettles`, `ReadyIsAired`,
`HeardWhileListening`, `DisabledGoesQuiet`, `ListIsServed`, `ComesBack` and
`TimingsArrive`, which are out of the prover's reach. Every invariant and every
action property of the passing runs is stated by a theorem. That
`RepeatOnlyWhenAlone` and `SkipsCounted`, or the theorems that name steps, hold on small instances
was tried with TLC before they were proved.

## 6. Plan

Done: the protocol, its abstract specification, the playout with its filler pool,
the intake services, routing and dispatch with the provider worker's threads, the
inside of a worker with its model server or paid call, the rows of timing, and
their proofs. Next, in order:

1. The two comments quoted under `FundedCallsOnly` and `DisabledGoesQuiet` as
   violation runs of their own.
2. The first poll of a connection drops what was typed since the start
   (`chat_intake.py:355`): whether a line of the documentation promises otherwise.

## 7. Not modelled

* The dashboard reads and renders; it changes no state.
* Of the clients: the form of the requests, the search for an id or a path in the
  model server's JSON, tokens, and the spend cap of `gemini_lyra`, which only labels
  a heartbeat.
* The socket protocol of the Redis client: a command is carried out, fails, or loses
  its answer. A connection has no timeout once it is open, so a master that vanishes
  without closing it can hold a worker for ever; the fairness assumes it away.
* The readings of the hardware and the in-process latency tracker of the workers,
  which nothing of the protocol reads.
* `stream.sh`, Docker and systemd files are configuration; chaos tests and set-up
  tools are run by hand, outside the running system.
* Completion records that are not JSON, and jobs without an item, are dropped by
  the code at once and have no counterpart here.
