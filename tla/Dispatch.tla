------------------------------ MODULE Dispatch ------------------------------
(***************************************************************************)
(* What the manager knows when it assigns an item.  dispatch_one           *)
(* (queue/manager.py) reads lists and heartbeats one by one and routes on  *)
(* them (Routing), while workers claim and finish, beat and die, the       *)
(* reaper requeues, and the three threads of the provider worker           *)
(* (worker/provider_worker.py) serve the lists, beat, and re-read the      *)
(* balance over one set of disabled providers.                             *)
(*                                                                         *)
(* Jobs are counted, not named: what becomes of one is JobProtocol's.      *)
(* Abstracted: the depth of the queue and the time budgets, which make a   *)
(* race or not; the clock (a heartbeat may lapse, a backup fall due, at    *)
(* any time); leases, which here end only when nobody has the job.         *)
(***************************************************************************)
EXTENDS Routing, Sequences

CONSTANTS
  Settings,   \* deployments: mode, local workers installed, providers with a key, the
              \* balance that ELEVENLABS_CREDIT_BALANCE seeds, and two bounds: the items
              \* that are queued, and the crashes or unexpected errors
  Latencies,  \* averages that generation_stats may show
  MaxItems    \* bound: the largest number of items of a deployment

ASSUME DispatchSettings ==
  /\ Settings \subseteq [mode : Modes, locals : SUBSET Locals, keys : SUBSET Providers,
                          seed : Balances, items : 1..MaxItems, faults : Nat]
  /\ Latencies \subseteq Nat /\ MaxItems \in Nat

VARIABLES
  env,         \* the deployment
  queued,      \* number of queued items
  pending,     \* length of jobs:pending:<source>
  inProgress,  \* entries of jobs:in_progress that name the source
  beat,        \* worker:<source>
  mgr,         \* "poll", or "dispatch" while dispatch_one runs
  unread,      \* what dispatch_one has still to read
  view,        \* what it has read
  races,       \* hedge records of the items assigned
  assigned,    \* number of items assigned
  up,          \* local workers that run
  job,         \* sources whose worker has a job in hand
  turn,        \* the provider that claim_loop is at
  dropping,    \* it is about to delete that provider's heartbeat
  disabled,    \* providers no longer served
  balance,     \* what each provider object knows of its balance
  heart,       \* what the heartbeat thread is about to write
  requeueing,  \* the source whose job the reaper is moving
  moved,       \* sources whose jobs it moved during dispatch_one
  free,        \* local workers idle, and known to be, all through dispatch_one
  funded,      \* a balance above 0 has been seeded or read
  faults       \* faults so far

managerVars  == <<mgr, unread, view, races, assigned>>
localVars    == <<up, job>>
providerVars == <<turn, dropping, disabled, balance, heart, funded>>
history      == <<moved, free>>
vars == <<env, queued, pending, inProgress, beat, managerVars, localVars, providerVars,
          requeueing, history, faults>>

Fault == faults < env.faults /\ faults' = faults + 1
More(f, s) == [f EXCEPT ![s] = @ + 1]
Less(f, s) == [f EXCEPT ![s] = @ - 1]

-----------------------------------------------------------------------------
(* The manager *)

NoRace == [primary |-> "none", backup |-> "none", fired |-> FALSE]
NoView == [load   |-> [w \in Locals |-> FALSE],
           health |-> [w \in Locals |-> "absent"],
           beats  |-> [p \in Providers |-> "absent"]]

Enqueue ==
  /\ queued + assigned < env.items /\ queued' = queued + 1
  /\ UNCHANGED <<env, pending, inProgress, beat, managerVars, localVars, providerVars,
                 requeueing, faults>>

\* fire_due_hedges: the partner is the one chosen when the item was assigned.
FireHedge(i) ==
  /\ mgr = "poll" /\ races[i] # NoRace /\ ~races[i].fired
  /\ pending' = More(pending, races[i].backup)
  /\ races' = [races EXCEPT ![i].fired = TRUE]
  /\ UNCHANGED <<env, queued, inProgress, beat, mgr, unread, view, assigned, localVars,
                 providerVars, requeueing, faults>>

\* release_hedge, once the race is over: the loser may still stand in its list.
Sides(r) == {r.primary} \union (IF r.fired THEN {r.backup} ELSE {})
ReleaseHedge(i) ==
  /\ mgr = "poll" /\ races[i] # NoRace
  /\ races' = [races EXCEPT ![i] = NoRace]
  /\ \/ UNCHANGED pending
     \/ \E s \in Sides(races[i]) : pending[s] > 0 /\ pending' = Less(pending, s)
  /\ UNCHANGED <<env, queued, inProgress, beat, mgr, unread, view, assigned, localVars,
                 providerVars, requeueing, faults>>

\* The order in which dispatch_one reads.
ProgressFirst ==                                                         \* (a variant)
  <<<<"progress", "all">>, <<"list", "windows">>, <<"list", "mac">>, <<"beat", "windows">>,
    <<"beat", "mac">>, <<"beat", "elevenlabs">>, <<"beat", "gemini_lyra">>>>
ReadOrder ==
  <<<<"list", "windows">>, <<"list", "mac">>, <<"progress", "all">>, <<"beat", "windows">>,
    <<"beat", "mac">>, <<"beat", "elevenlabs">>, <<"beat", "gemini_lyra">>>>

BeginDispatch ==
  /\ mgr = "poll" /\ queued > 0
  /\ mgr' = "dispatch" /\ unread' = ReadOrder /\ view' = NoView
  /\ UNCHANGED <<env, queued, pending, inProgress, beat, races, assigned, localVars,
                 providerVars, requeueing, faults>>

Reading(what, of) == unread # <<>> /\ Head(unread) = <<what, of>>

Read ==
  /\ \/ \E w \in Locals :                                    \* LLEN
          Reading("list", w) /\ view' = [view EXCEPT !.load[w] = @ \/ pending[w] > 0]
     \/ /\ Reading("progress", "all")                        \* LRANGE
        /\ view' = [view EXCEPT !.load = [w \in Locals |-> @[w] \/ inProgress[w] > 0]]
     \/ \E w \in Locals :
          Reading("beat", w) /\ view' = [view EXCEPT !.health[w] = beat[w]]
     \/ \E p \in Providers :
          Reading("beat", p) /\ view' = [view EXCEPT !.beats[p] = beat[p]]
  /\ unread' = Tail(unread)
  /\ UNCHANGED <<env, queued, pending, inProgress, beat, mgr, races, assigned, localVars,
                 providerVars, requeueing, faults>>

\* worker_state and health_from; provider_health_from.
WorkerHealthOf(latency) ==
  [w \in Locals |-> [ok      |-> view.health[w] # "absent",
                     busy    |-> view.health[w] # "absent"
                                   /\ (view.health[w] = "busy" \/ view.load[w]),
                     latency |-> latency[w]]]
ProviderHealthRead ==
  [p \in Providers |->
     [ok    |-> env.mode # "local_only" /\ p \in env.keys /\ view.beats[p] # "absent",
      quota |-> IF view.beats[p] # "absent" THEN view.beats[p]
                ELSE IF p = "elevenlabs" THEN "zero" ELSE "unknown"]]

Sourced(latency) == ChooseSource(env.mode, WorkerHealthOf(latency), ProviderHealthRead)
Partners(s, latency) == PickHedgePartner(env.mode, s, WorkerHealthOf(latency), ProviderHealthRead)
Deciding == mgr = "dispatch" /\ unread = <<>>

\* plan_assignment and what follows; without a source the item stays queued.
Assign(latency, s) ==
  /\ Deciding /\ s \in Sourced(latency)
  /\ queued' = queued - 1 /\ assigned' = assigned + 1
  /\ pending' = More(pending, s)
  /\ \/ UNCHANGED races
     \/ \E b \in Partners(s, latency) :
          races' = [races EXCEPT ![assigned + 1] = [primary |-> s, backup |-> b, fired |-> FALSE]]
  /\ mgr' = "poll" /\ view' = NoView
  /\ UNCHANGED <<env, inProgress, beat, unread, localVars, providerVars, requeueing, faults>>

LeaveQueued(latency) ==
  /\ Deciding /\ Sourced(latency) = {}
  /\ mgr' = "poll" /\ view' = NoView
  /\ UNCHANGED <<env, queued, pending, inProgress, beat, unread, races, assigned, localVars,
                 providerVars, requeueing, faults>>

-----------------------------------------------------------------------------
(* The local workers, and the lapse of a heartbeat *)

LocalStart(w) ==
  /\ w \in env.locals \ up /\ up' = up \union {w}
  /\ UNCHANGED <<env, queued, pending, inProgress, beat, managerVars, job, providerVars,
                 requeueing, faults>>

\* handle_job sets the busy flag a moment after the claim.
Flag(w) == IF w \in job THEN {"idle", "busy"} ELSE {"idle"}
LocalBeat(w) ==
  /\ w \in up /\ \E b \in Flag(w) : beat' = [beat EXCEPT ![w] = b]
  /\ UNCHANGED <<env, queued, pending, inProgress, managerVars, localVars, providerVars,
                 requeueing, faults>>

Claims(s) ==
  /\ s \notin job /\ pending[s] > 0
  /\ pending' = Less(pending, s) /\ inProgress' = More(inProgress, s)
  /\ job' = job \union {s}
  /\ UNCHANGED <<env, queued, beat, managerVars, up, requeueing>>

Acknowledges(s) ==
  /\ s \in job /\ inProgress' = Less(inProgress, s)
  /\ job' = job \ {s}
  /\ UNCHANGED <<env, queued, pending, beat, managerVars, up, requeueing>>

LocalClaim(w) == w \in up /\ Claims(w) /\ UNCHANGED <<providerVars, faults>>
LocalEnd(w)   == w \in up /\ Acknowledges(w) /\ UNCHANGED <<providerVars, faults>>

\* The process ends, or an exception makes main reconnect.
LocalCrash(w) ==
  /\ w \in up /\ Fault
  /\ up' \in {up, up \ {w}} /\ job' = job \ {w}
  /\ UNCHANGED <<env, queued, pending, inProgress, beat, managerVars, providerVars, requeueing>>

BeatLapses(s) ==
  /\ beat[s] # "absent" /\ beat' = [beat EXCEPT ![s] = "absent"]
  /\ UNCHANGED <<env, queued, pending, inProgress, managerVars, localVars, providerVars,
                 requeueing, faults>>

-----------------------------------------------------------------------------
(* The provider worker: claim_loop and handle_job *)

FirstTurn(keys) == IF "elevenlabs" \in keys THEN "elevenlabs" ELSE "gemini_lyra"
Others(p) == env.keys \ {p}
UntilDisabled(p) == IF p \in disabled \/ Others(p) = {} THEN {p} ELSE Others(p)   \* (a variant)
NextTurn(p) == IF Others(p) = {} THEN {p} ELSE Others(p)

Serving(p) == turn = p /\ p \in env.keys /\ ~dropping

ProviderClaim(p) ==
  /\ Serving(p) /\ p \notin disabled /\ Claims(p)
  /\ UNCHANGED <<providerVars, faults>>

ProviderSkip(p) ==
  /\ Serving(p) /\ p \notin job /\ (p \in disabled \/ pending[p] = 0)
  /\ turn' \in NextTurn(p)
  /\ UNCHANGED <<env, queued, pending, inProgress, beat, managerVars, localVars, dropping,
                 disabled, balance, heart, funded, requeueing, faults>>

ProviderEnd(p) ==
  /\ Serving(p) /\ Acknowledges(p)
  /\ turn' \in NextTurn(p)
  /\ UNCHANGED <<dropping, disabled, balance, heart, funded, faults>>

QuotaExhausted(p) ==
  /\ Serving(p) /\ Acknowledges(p)
  /\ disabled' = disabled \union {p} /\ dropping' = TRUE
  /\ UNCHANGED <<turn, balance, heart, funded, faults>>

\* The DEL; an error of it is swallowed.
DropHeartbeat ==
  /\ dropping /\ dropping' = FALSE
  /\ \/ beat' = [beat EXCEPT ![turn] = "absent"] /\ UNCHANGED faults
     \/ Fault /\ UNCHANGED beat
  /\ turn' \in NextTurn(turn)
  /\ UNCHANGED <<env, queued, pending, inProgress, managerVars, localVars, disabled, balance,
                 heart, funded, requeueing>>

\* An exception that handle_job does not list: main starts claim_loop anew.
CallBreaks(p) ==
  /\ Serving(p) /\ p \in job /\ Fault
  /\ job' = job \ {p} /\ turn' = FirstTurn(env.keys)
  /\ UNCHANGED <<env, queued, pending, inProgress, beat, managerVars, up, dropping, disabled,
                 balance, heart, funded, requeueing>>

NoBeat == [source |-> "none", quota |-> "unknown"]
Seeded == [p \in Providers |-> IF p = "elevenlabs" THEN env.seed ELSE "unknown"]

ProviderRestart ==
  /\ Fault
  /\ job' = job \ Providers /\ turn' = FirstTurn(env.keys) /\ dropping' = FALSE
  /\ disabled' = {} /\ balance' = Seeded /\ heart' = NoBeat
  /\ UNCHANGED <<env, queued, pending, inProgress, beat, managerVars, up, funded, requeueing>>

\* The heartbeat thread looks at `disabled', and then writes.
AllKeys == env.keys                                                      \* (a variant)
Beating == env.keys \ disabled
PrepareBeat(p) ==
  /\ heart = NoBeat /\ p \in Beating
  /\ heart' = [source |-> p, quota |-> balance[p]]
  /\ UNCHANGED <<env, queued, pending, inProgress, beat, managerVars, localVars, turn, dropping,
                 disabled, balance, funded, requeueing, faults>>

WriteBeat ==
  /\ heart # NoBeat /\ heart' = NoBeat
  /\ beat' = [beat EXCEPT ![heart.source] = heart.quota]
  /\ UNCHANGED <<env, queued, pending, inProgress, managerVars, localVars, turn, dropping,
                 disabled, balance, funded, requeueing, faults>>

\* The quota thread; a lookup that fails keeps the old value.  That of gemini_lyra is
\* published and never read, so it stays unknown here.
RefreshQuota(q) ==
  /\ "elevenlabs" \in env.keys \ disabled /\ q \in {"zero", "some"}
  /\ balance' = [balance EXCEPT !["elevenlabs"] = q]
  /\ funded' = (funded \/ q = "some")
  /\ UNCHANGED <<env, queued, pending, inProgress, beat, managerVars, localVars, turn, dropping,
                 disabled, heart, requeueing, faults>>

-----------------------------------------------------------------------------
(* The reaper *)

EvenHeld(s) == inProgress[s]                                             \* (a variant)
Orphans(s)  == inProgress[s] - (IF s \in job THEN 1 ELSE 0)

RemoveOrphan(s) ==
  /\ requeueing = {} /\ Orphans(s) > 0
  /\ inProgress' = Less(inProgress, s) /\ requeueing' = {s}
  /\ UNCHANGED <<env, queued, pending, beat, managerVars, localVars, providerVars, faults>>

\* A provider's job goes to jobs:pending, which nobody here reads.
RequeueOrphan(s) ==
  /\ s \in requeueing /\ requeueing' = {}
  /\ pending' = IF s \in Locals THEN More(pending, s) ELSE pending
  /\ UNCHANGED <<env, queued, inProgress, beat, managerVars, localVars, providerVars, faults>>

-----------------------------------------------------------------------------
ManagerStep ==
  \/ \E i \in 1..MaxItems : FireHedge(i) \/ ReleaseHedge(i)
  \/ BeginDispatch \/ Read
  \/ \E latency \in [Locals -> Latencies] :
       LeaveQueued(latency) \/ \E s \in Sources : Assign(latency, s)

LocalStep(w) == LocalStart(w) \/ LocalBeat(w) \/ LocalClaim(w) \/ LocalEnd(w) \/ LocalCrash(w)

ClaimLoop ==
  \/ \E p \in Providers : ProviderClaim(p) \/ ProviderSkip(p) \/ ProviderEnd(p) \/ QuotaExhausted(p)
  \/ DropHeartbeat

KnownIdle == {w \in up : beat[w] = "idle" /\ pending[w] + inProgress[w] = 0}

\* What the properties remember of a dispatch.
Remember ==
  /\ moved' = IF mgr' = "poll" THEN {}
              ELSE moved \union (requeueing \ requeueing') \union (requeueing' \ requeueing)
  /\ free'  = IF mgr' = "poll" THEN {} ELSE IF mgr = "poll" THEN KnownIdle' ELSE free \intersect KnownIdle'

Init ==
  /\ env \in Settings
  /\ queued = 0 /\ assigned = 0
  /\ pending = [s \in Sources |-> 0] /\ inProgress = [s \in Sources |-> 0]
  /\ beat = [s \in Sources |-> "absent"]
  /\ mgr = "poll" /\ unread = <<>> /\ view = NoView /\ races = [i \in 1..MaxItems |-> NoRace]
  /\ up = {} /\ job = {}
  /\ turn = FirstTurn(env.keys) /\ dropping = FALSE /\ disabled = {}
  /\ balance = Seeded /\ heart = NoBeat
  /\ requeueing = {} /\ moved = {} /\ free = {} /\ funded = (env.seed = "some") /\ faults = 0

Step ==
  \/ Enqueue \/ ManagerStep
  \/ \E w \in Locals : LocalStep(w)
  \/ \E s \in Sources : BeatLapses(s) \/ RemoveOrphan(s) \/ RequeueOrphan(s)
  \/ ClaimLoop \/ ProviderRestart
  \/ \E p \in Providers : CallBreaks(p) \/ PrepareBeat(p)
  \/ WriteBeat
  \/ \E q \in Balances : RefreshQuota(q)
Next == Step /\ Remember

\* The TTL of a heartbeat that is no longer written.
SilentBeatLapses(p) == p \in disabled /\ heart.source # p /\ BeatLapses(p) /\ Remember

\* The threads of the provider worker go on, and Redis keeps its clock.
Spec ==
  /\ Init /\ [][Next]_vars
  /\ WF_vars(ClaimLoop /\ Remember) /\ WF_vars(WriteBeat /\ Remember)
  /\ \A p \in Providers : WF_vars(SilentBeatLapses(p))

-----------------------------------------------------------------------------
(* Properties *)

Readings == {"list", "progress", "beat"} \X (Sources \union {"all"})
Views == [load : [Locals -> BOOLEAN], health : [Locals -> {"absent", "idle", "busy"}],
          beats : [Providers -> {"absent"} \union Balances]]
Races == [primary : Sources, backup : Sources, fired : BOOLEAN]

\* No list or table entry is counted below zero, and every heartbeat, job and
\* race belongs to a source that the deployment has.
TypeOK ==
  /\ env \in Settings /\ queued \in Nat /\ assigned \in Nat /\ queued + assigned <= env.items
  /\ pending \in [Sources -> Nat] /\ inProgress \in [Sources -> Nat]
  /\ beat \in [Sources -> {"absent", "idle", "busy"} \union Balances]
  /\ \A w \in Locals : beat[w] \notin Balances
  /\ \A p \in Providers : beat[p] \notin {"idle", "busy"}
  /\ mgr \in {"poll", "dispatch"} /\ unread \in Seq(Readings)
  /\ view \in Views /\ races \in [1..MaxItems -> Races \union {NoRace}]
  /\ up \subseteq env.locals /\ job \subseteq up \union env.keys
  /\ turn \in Providers /\ dropping \in BOOLEAN /\ disabled \subseteq env.keys
  /\ balance \in [Providers -> Balances]
  /\ heart \in [source : env.keys, quota : Balances] \union {NoBeat}
  /\ requeueing \in SUBSET Sources /\ moved \subseteq Sources /\ free \subseteq Locals
  /\ funded \in BOOLEAN /\ faults \in 0..env.faults
  /\ \A s \in job : inProgress[s] > 0

\* When the manager decides, it knows of every job it has handed to a local
\* worker, although the worker claims while it counts: worker_load is "the
\* source of truth" but for a job the reaper moves meanwhile.
OccupiedIsKnown ==
  Deciding => \A w \in Locals \ moved : pending[w] + inProgress[w] > 0 => view.load[w]

\* No item goes to a paid provider in hybrid while a local worker has been
\* idle, and known to be, since the manager began to look around.
FreeLocalGoesFirst ==
  [][mgr = "dispatch" /\ env.mode = "hybrid" /\ (\E p \in Providers : pending'[p] > pending[p])
       => free = {}]_vars

\* pick_hedge_partner asks no balance of the other provider in paid_only.
UncheckedBackup ==
  /\ env.mode = "paid_only"
  /\ \E i \in 1..MaxItems :
       /\ races[i] = [primary |-> "gemini_lyra", backup |-> "elevenlabs", fired |-> FALSE]
       /\ races'[i].fired

\* Before its worker was seeded with, or has read, a balance above 0 elevenlabs is
\* handed no job but as the backup of gemini_lyra in paid_only, where the code breaks
\* its own rule (pick_available_provider: unknown counts as exhausted "everywhere a paid
\* call could be made").  Every other job rests on a balance that went from thread to
\* heartbeat, manager and hedge record; it may be spent since.
FundedCallsOnly ==
  [][pending'["elevenlabs"] > pending["elevenlabs"] => funded \/ UncheckedBackup]_vars

\* A provider that stays disabled goes quiet for good, although its heartbeat
\* thread may have looked at `disabled' just before and write once more.
DisabledGoesQuiet ==
  \A p \in Providers : <>[](p \in disabled) => <>[](beat[p] = "absent")

\* One thread serves both providers, and a disabled one does not hold up the
\* other: a list does not keep its jobs while its provider is served.
ListIsServed ==
  \A p \in Providers : pending[p] > 0 ~> (pending[p] = 0 \/ p \in disabled)

=============================================================================
