--------------------------- MODULE DispatchProofs ---------------------------
(* Theorems about Dispatch and Routing, for every set of deployments, all   *)
(* latencies and any number of items and faults.                            *)
EXTENDS Dispatch, TLAPS

-----------------------------------------------------------------------------
(* What the choices of Routing can return *)

\* A local choice is a local worker.
LEMMA LocalChoices ==
  ASSUME NEW wh, NEW S, S \subseteq Locals
  PROVE  /\ Healthy(wh) \subseteq Locals /\ Idle(wh) \subseteq Locals
         /\ Fastest(S, wh) \subseteq S /\ SoonestFree(S, wh) \subseteq S
BY DEF Healthy, Idle, Fastest, SoonestFree

\* A provider is picked on its heartbeat, elevenlabs on its balance too.
LEMMA ProviderChoices ==
  ASSUME NEW ph
  PROVE  /\ PickAvailableProvider(ph) \subseteq Providers
         /\ "elevenlabs" \in PickAvailableProvider(ph) => ph["elevenlabs"].quota = "some"
BY DEF PickAvailableProvider, Providers

\* Every choice is a source, and elevenlabs is the source only with a balance.
LEMMA SourceChoices ==
  ASSUME NEW mode, NEW wh, NEW ph
  PROVE  /\ ChooseSource(mode, wh, ph) \subseteq Sources
         /\ "elevenlabs" \in ChooseSource(mode, wh, ph) => ph["elevenlabs"].quota = "some"
<1>1. /\ Healthy(wh) \subseteq Locals /\ Idle(wh) \subseteq Locals
      /\ Fastest(Idle(wh), wh) \subseteq Locals /\ SoonestFree(Healthy(wh), wh) \subseteq Locals
  BY DEF Healthy, Idle, Fastest, SoonestFree
<1>2. "elevenlabs" \notin Locals
  BY DEF Locals
<1>. QED
  BY <1>1, <1>2, ProviderChoices DEF ChooseSource, Sources

\* Every partner is a source; outside paid_only elevenlabs needs its balance.
LEMMA PartnerChoices ==
  ASSUME NEW mode, NEW s, NEW wh, NEW ph
  PROVE  /\ PickHedgePartner(mode, s, wh, ph) \subseteq Sources
         /\ mode # "paid_only" /\ "elevenlabs" \in PickHedgePartner(mode, s, wh, ph)
              => ph["elevenlabs"].quota = "some"
<1>1. Healthy(wh) \subseteq Locals /\ "elevenlabs" \notin Locals
  BY DEF Healthy, Locals
<1>. QED
  BY <1>1, ProviderChoices DEF PickHedgePartner, Sources

-----------------------------------------------------------------------------
(* Types *)

\* TypeOK but for the two variables of Remember, and with what dispatch_one needs:
\* the item it is about is still queued.
StateOK ==
  /\ env \in Settings /\ queued \in Nat /\ assigned \in Nat /\ queued + assigned <= env.items
  /\ mgr = "dispatch" => queued > 0
  /\ pending \in [Sources -> Nat] /\ inProgress \in [Sources -> Nat]
  /\ beat \in [Sources -> {"absent", "idle", "busy"} \union Balances]
  /\ \A w \in Locals : beat[w] \notin Balances
  /\ \A p \in Providers : beat[p] \notin {"idle", "busy"}
  /\ mgr \in {"poll", "dispatch"} /\ unread \in Seq(Readings)
  /\ view \in Views /\ races \in [1..MaxItems -> Races \union {NoRace}]
  /\ up \subseteq env.locals /\ job \subseteq up \union env.keys
  /\ turn \in Providers /\ dropping \in BOOLEAN /\ disabled \subseteq env.keys
  /\ balance \in [Providers -> Balances]
  /\ heart \in [source : env.keys, quota : Balances] \union {NoBeat}
  /\ requeueing \in SUBSET Sources
  /\ funded \in BOOLEAN /\ faults \in 0..env.faults
  /\ \A s \in job : inProgress[s] > 0

LEMMA SettingTyped ==
  ASSUME env \in Settings
  PROVE  /\ env.mode \in Modes /\ env.locals \subseteq Locals /\ env.keys \subseteq Providers
         /\ env.seed \in Balances /\ env.items \in 1..MaxItems /\ env.faults \in Nat
         /\ MaxItems \in Nat
BY DispatchSettings

LEMMA InitOK == Init => StateOK
<1>. SUFFICES ASSUME Init PROVE StateOK
  OBVIOUS
<1>1. /\ env.seed \in Balances /\ env.keys \subseteq Providers /\ env.items \in Nat /\ env.faults \in Nat
  BY SettingTyped DEF Init
<1>2. NoView \in Views
  BY DEF NoView, Views
<1>3. Seeded \in [Providers -> Balances] /\ FirstTurn(env.keys) \in Providers
  BY <1>1 DEF Seeded, FirstTurn, Balances, Providers
<1>. QED
  <2>1. /\ beat \in [Sources -> {"absent", "idle", "busy"} \union Balances]
        /\ \A w \in Locals : beat[w] \notin Balances
        /\ \A p \in Providers : beat[p] \notin {"idle", "busy"}
    BY DEF Init, Sources, Balances
  <2>2. queued + assigned <= env.items /\ faults \in 0..env.faults
    BY <1>1 DEF Init
  <2>3. races \in [1..MaxItems -> Races \union {NoRace}] /\ unread \in Seq(Readings)
    BY DEF Init
  <2>4. funded \in BOOLEAN
    BY Zenon DEF Init
  <2>. QED
    BY <1>1, <1>2, <1>3, <2>1, <2>2, <2>3, <2>4 DEF Init, StateOK

\* The manager but for its readings and decisions.
LEMMA QueueStepsOK ==
  ASSUME StateOK,
         \/ Enqueue \/ BeginDispatch
         \/ \E i \in 1..MaxItems : FireHedge(i) \/ ReleaseHedge(i)
  PROVE  StateOK'
<1>0. env.items \in Nat
  BY SettingTyped DEF StateOK
<1>1. CASE Enqueue
  BY <1>0, <1>1 DEF StateOK, Enqueue, managerVars, localVars, providerVars
<1>2. CASE BeginDispatch
  <2>1. ReadOrder \in Seq(Readings)
    BY DEF ReadOrder, Readings, Sources, Locals, Providers
  <2>2. NoView \in Views
    BY DEF NoView, Views
  <2>. QED
    BY <1>2, <2>1, <2>2 DEF StateOK, BeginDispatch, localVars, providerVars
<1>3. ASSUME NEW i \in 1..MaxItems, FireHedge(i) PROVE StateOK'
  <2>1. races[i] \in Races
    BY <1>3 DEF StateOK, FireHedge
  <2>2. pending' \in [Sources -> Nat]
    BY <1>3, <2>1 DEF StateOK, Races, FireHedge, More
  <2>3. races' \in [1..MaxItems -> Races \union {NoRace}]
    BY <1>3, <2>1 DEF StateOK, Races, FireHedge
  <2>. QED
    BY <1>3, <2>2, <2>3 DEF StateOK, FireHedge, localVars, providerVars
<1>4. ASSUME NEW i \in 1..MaxItems, ReleaseHedge(i) PROVE StateOK'
  <2>1. races[i] \in Races
    BY <1>4 DEF StateOK, ReleaseHedge
  <2>2. Sides(races[i]) \subseteq Sources
    BY <2>1 DEF Sides, Races
  <2>3. pending' \in [Sources -> Nat]
    BY <1>4, <2>2 DEF StateOK, ReleaseHedge, Less
  <2>4. races' \in [1..MaxItems -> Races \union {NoRace}]
    BY <1>4 DEF StateOK, ReleaseHedge
  <2>. QED
    BY <1>4, <2>3, <2>4 DEF StateOK, ReleaseHedge, localVars, providerVars
<1>. QED
  BY <1>1, <1>2, <1>3, <1>4

LEMMA ReadOK ==
  ASSUME StateOK, Read
  PROVE  StateOK'
<1>1. view' \in Views
  <2>1. ASSUME NEW w \in Locals, Reading("list", w), view' = [view EXCEPT !.load[w] = @ \/ pending[w] > 0]
        PROVE  view' \in Views
    BY <2>1 DEF StateOK, Views
  <2>2. ASSUME view' = [view EXCEPT !.load = [w \in Locals |-> @[w] \/ inProgress[w] > 0]]
        PROVE  view' \in Views
    BY <2>2 DEF StateOK, Views
  <2>3. ASSUME NEW w \in Locals, view' = [view EXCEPT !.health[w] = beat[w]]
        PROVE  view' \in Views
    BY <2>3 DEF StateOK, Views, Sources
  <2>4. ASSUME NEW p \in Providers, view' = [view EXCEPT !.beats[p] = beat[p]]
        PROVE  view' \in Views
    BY <2>4 DEF StateOK, Views, Sources
  <2>. QED
    BY <2>1, <2>2, <2>3, <2>4 DEF Read
<1>2. unread' \in Seq(Readings)
  BY DEF StateOK, Read, Reading
<1>. QED
  BY <1>1, <1>2 DEF StateOK, Read, localVars, providerVars

LEMMA DecisionsOK ==
  ASSUME StateOK, NEW latency,
         LeaveQueued(latency) \/ \E s \in Sources : Assign(latency, s)
  PROVE  StateOK'
<1>1. NoView \in Views
  BY DEF NoView, Views
<1>2. CASE LeaveQueued(latency)
  BY <1>1, <1>2 DEF StateOK, LeaveQueued, localVars, providerVars
<1>3. ASSUME NEW s \in Sources, Assign(latency, s) PROVE StateOK'
  <2>1. env.items \in Nat /\ env.items <= MaxItems /\ MaxItems \in Nat
    BY SettingTyped DEF StateOK
  <2>2. queued > 0
    BY <1>3 DEF StateOK, Assign, Deciding
  <2>3. assigned + 1 \in 1..MaxItems
    BY <2>1, <2>2 DEF StateOK
  <2>4. Partners(s, latency) \subseteq Sources
    BY PartnerChoices DEF Partners
  <2>5. races' \in [1..MaxItems -> Races \union {NoRace}]
    <3>1. races \in [1..MaxItems -> Races \union {NoRace}]
      BY DEF StateOK
    <3>2. ASSUME NEW b \in Partners(s, latency),
                 races' = [races EXCEPT ![assigned + 1] = [primary |-> s, backup |-> b, fired |-> FALSE]]
          PROVE  races' \in [1..MaxItems -> Races \union {NoRace}]
      <4>1. [primary |-> s, backup |-> b, fired |-> FALSE] \in Races
        BY <2>4 DEF Races
      <4>. QED
        BY <3>1, <3>2, <4>1
    <3>. QED
      BY <1>3, <3>1, <3>2 DEF Assign
  <2>6. pending' \in [Sources -> Nat]
    BY <1>3 DEF StateOK, Assign, More
  <2>. QED
    BY <1>1, <1>3, <2>1, <2>2, <2>5, <2>6 DEF StateOK, Assign, localVars, providerVars
<1>. QED
  BY <1>2, <1>3

\* The local workers, and the lapse of a heartbeat.
LEMMA ClaimsOK ==
  ASSUME StateOK, NEW s \in Sources, s \in env.locals => s \in up, s \in up \union env.keys,
         Claims(s) \/ Acknowledges(s)
  PROVE  /\ pending' \in [Sources -> Nat] /\ inProgress' \in [Sources -> Nat]
         /\ job' \subseteq up' \union env.keys' /\ \A t \in job' : inProgress'[t] > 0
         /\ UNCHANGED <<env, queued, beat, managerVars, up, requeueing>>
<1>1. CASE Claims(s)
  BY <1>1 DEF StateOK, Claims, More, Less
<1>2. CASE Acknowledges(s)
  BY <1>2 DEF StateOK, Acknowledges, Less
<1>. QED
  BY <1>1, <1>2

LEMMA LocalStepsOK ==
  ASSUME StateOK, \/ \E w \in Locals : LocalStep(w)
                  \/ \E s \in Sources : BeatLapses(s)
  PROVE  StateOK'
<1>0. env.locals \subseteq Locals /\ env.faults \in Nat
  BY SettingTyped DEF StateOK
<1>1. ASSUME NEW w \in Locals, LocalStart(w) PROVE StateOK'
  BY <1>1 DEF StateOK, LocalStart, managerVars, providerVars
<1>2. ASSUME NEW w \in Locals, LocalBeat(w) PROVE StateOK'
  BY <1>2 DEF StateOK, LocalBeat, Flag, Sources, Locals, Providers, Balances, managerVars, localVars, providerVars
<1>3. ASSUME NEW w \in Locals, LocalClaim(w) \/ LocalEnd(w) PROVE StateOK'
  BY <1>3, ClaimsOK DEF StateOK, LocalClaim, LocalEnd, Sources, managerVars, providerVars
<1>4. ASSUME NEW w \in Locals, LocalCrash(w) PROVE StateOK'
  BY <1>0, <1>4 DEF StateOK, LocalCrash, Fault, managerVars, providerVars
<1>5. ASSUME NEW s \in Sources, BeatLapses(s) PROVE StateOK'
  BY <1>5 DEF StateOK, BeatLapses, Balances, managerVars, localVars, providerVars
<1>. QED
  BY <1>1, <1>2, <1>3, <1>4, <1>5 DEF LocalStep

\* The claim loop of the provider worker.
LEMMA TurnTyped ==
  ASSUME StateOK, NEW p \in Providers
  PROVE  NextTurn(p) \subseteq Providers /\ FirstTurn(env.keys) \in Providers
BY SettingTyped DEF StateOK, NextTurn, Others, FirstTurn, Providers

LEMMA ClaimLoopOK ==
  ASSUME StateOK, ClaimLoop
  PROVE  StateOK'
<1>0. env.faults \in Nat /\ Providers \subseteq Sources /\ turn \in Providers
  BY SettingTyped DEF StateOK, Sources
<1>. USE DEF localVars, providerVars, managerVars
<1>1. ASSUME NEW p \in Providers, ProviderClaim(p) PROVE StateOK'
  BY <1>0, <1>1, ClaimsOK, SettingTyped DEF StateOK, ProviderClaim, Serving, Locals, Providers
<1>2. ASSUME NEW p \in Providers, ProviderSkip(p) PROVE StateOK'
  BY <1>2, TurnTyped DEF StateOK, ProviderSkip
<1>3. ASSUME NEW p \in Providers, ProviderEnd(p) PROVE StateOK'
  BY <1>0, <1>3, ClaimsOK, TurnTyped, SettingTyped DEF StateOK, ProviderEnd, Serving, Locals, Providers
<1>4. ASSUME NEW p \in Providers, QuotaExhausted(p) PROVE StateOK'
  BY <1>0, <1>4, ClaimsOK, SettingTyped DEF StateOK, QuotaExhausted, Serving, Locals, Providers
<1>5. ASSUME DropHeartbeat PROVE StateOK'
  <2>1. faults' \in 0..env.faults
    BY <1>0, <1>5 DEF StateOK, DropHeartbeat, Fault
  <2>2. turn' \in Providers
    BY <1>0, <1>5, TurnTyped DEF DropHeartbeat
  <2>3. /\ beat' \in [Sources -> {"absent", "idle", "busy"} \union Balances]
        /\ \A w \in Locals : beat'[w] \notin Balances
        /\ \A p \in Providers : beat'[p] \notin {"idle", "busy"}
    <3>1. /\ beat' \in [Sources -> {"absent", "idle", "busy"} \union Balances]
          /\ \A s \in Sources : beat'[s] \in {beat[s], "absent"}
      BY <1>5 DEF StateOK, DropHeartbeat
    <3>2. "absent" \notin Balances
      BY DEF Balances
    <3>. QED
      BY <3>1, <3>2 DEF StateOK, Sources
  <2>. QED
    <3>1. /\ dropping' = FALSE
          /\ UNCHANGED <<env, queued, pending, inProgress, managerVars, localVars, disabled, balance,
                         heart, funded, requeueing>>
      BY <1>5 DEF DropHeartbeat
    <3>. QED
      BY <2>1, <2>2, <2>3, <3>1 DEF StateOK
<1>. QED
  BY <1>1, <1>2, <1>3, <1>4, <1>5 DEF ClaimLoop

\* Its failures and its two other threads.
LEMMA ProviderThreadsOK ==
  ASSUME StateOK,
         \/ ProviderRestart \/ WriteBeat
         \/ \E p \in Providers : CallBreaks(p) \/ PrepareBeat(p)
         \/ \E q \in Balances : RefreshQuota(q)
  PROVE  StateOK'
<1>0. env.faults \in Nat /\ Providers \subseteq Sources /\ env.keys \subseteq Providers
      /\ env.seed \in Balances
  BY SettingTyped DEF StateOK, Sources
<1>. USE DEF localVars, managerVars
<1>1. CASE ProviderRestart
  <2>1. Seeded \in [Providers -> Balances] /\ FirstTurn(env.keys) \in Providers
    BY <1>0 DEF Seeded, FirstTurn, Balances, Providers
  <2>. QED
    <3>1. faults' \in 0..env.faults
      BY <1>0, <1>1 DEF StateOK, ProviderRestart, Fault
    <3>2. job' \subseteq up \union env.keys /\ \A s \in job' : inProgress'[s] > 0
      BY <1>1 DEF StateOK, ProviderRestart
    <3>. QED
      BY <1>1, <2>1, <3>1, <3>2 DEF StateOK, ProviderRestart
<1>2. CASE WriteBeat
  <2>1. heart.source \in Providers /\ heart.quota \in Balances
    BY <1>0, <1>2 DEF StateOK, WriteBeat
  <2>2. beat' \in [Sources -> {"absent", "idle", "busy"} \union Balances]
    BY <1>0, <1>2, <2>1 DEF StateOK, WriteBeat
  <2>3. \A w \in Locals : beat'[w] \notin Balances
    BY <1>2, <2>1 DEF StateOK, WriteBeat, Locals, Providers, Sources
  <2>4. \A p \in Providers : beat'[p] \notin {"idle", "busy"}
    BY <1>0, <1>2, <2>1 DEF StateOK, WriteBeat, Balances
  <2>. QED
    BY <1>2, <2>2, <2>3, <2>4 DEF StateOK, WriteBeat
<1>3. ASSUME NEW p \in Providers, CallBreaks(p) PROVE StateOK'
  BY <1>0, <1>3, TurnTyped DEF StateOK, CallBreaks, Fault
<1>4. ASSUME NEW p \in Providers, PrepareBeat(p) PROVE StateOK'
  BY <1>0, <1>4 DEF StateOK, PrepareBeat, Beating
<1>5. ASSUME NEW q \in Balances, RefreshQuota(q) PROVE StateOK'
  BY <1>5 DEF StateOK, RefreshQuota, Balances
<1>. QED
  BY <1>1, <1>2, <1>3, <1>4, <1>5

LEMMA ReaperOK ==
  ASSUME StateOK, \E s \in Sources : RemoveOrphan(s) \/ RequeueOrphan(s)
  PROVE  StateOK'
<1>1. ASSUME NEW s \in Sources, RemoveOrphan(s) PROVE StateOK'
  BY <1>1 DEF StateOK, RemoveOrphan, Orphans, Less, managerVars, localVars, providerVars
<1>2. ASSUME NEW s \in Sources, RequeueOrphan(s) PROVE StateOK'
  BY <1>2 DEF StateOK, RequeueOrphan, More, managerVars, localVars, providerVars
<1>. QED
  BY <1>1, <1>2

LEMMA StepOK ==
  ASSUME StateOK, Step
  PROVE  StateOK'
BY QueueStepsOK, ReadOK, DecisionsOK, LocalStepsOK, ClaimLoopOK, ProviderThreadsOK, ReaperOK
   DEF Step, ManagerStep

\* What Remember keeps is made of sources and local workers.
LEMMA HistoryOK ==
  ASSUME StateOK, StateOK', moved \subseteq Sources, free \subseteq Locals, Remember
  PROVE  moved' \subseteq Sources /\ free' \subseteq Locals
<1>1. KnownIdle' \subseteq Locals
  <2>1. env'.locals \subseteq Locals
    BY DispatchSettings DEF StateOK
  <2>. QED
    BY <2>1 DEF StateOK, KnownIdle
<1>. QED
  BY <1>1 DEF Remember, StateOK

\* For every set of deployments: no list is counted below zero, every job, race and
\* heartbeat belongs to a source of the deployment, and an item that dispatch_one is
\* about is still queued.
THEOREM DispatchTypeCorrect == Spec => [](TypeOK /\ StateOK)
<1>1. Init => TypeOK /\ StateOK
  BY InitOK DEF Init, TypeOK, StateOK
<1>2. TypeOK /\ StateOK /\ [Next]_vars => (TypeOK /\ StateOK)'
  <2>. SUFFICES ASSUME TypeOK, StateOK, [Next]_vars PROVE TypeOK' /\ StateOK'
    OBVIOUS
  <2>1. CASE Next
    BY <2>1, StepOK, HistoryOK DEF Next, TypeOK, StateOK
  <2>2. CASE UNCHANGED vars
    BY <2>2 DEF TypeOK, StateOK, vars, managerVars, localVars, providerVars, history
  <2>. QED
    BY <2>1, <2>2
<1>. QED
  BY <1>1, <1>2, PTL DEF Spec

-----------------------------------------------------------------------------
(* Balances *)

\* Wherever a balance above 0 stands on its way to the manager, it was seeded or
\* read; and elevenlabs is a backup on one, or of gemini_lyra in paid_only.
FundedInv ==
  /\ env.seed = "some" => funded
  /\ balance["elevenlabs"] = "some" => funded
  /\ heart.source = "elevenlabs" /\ heart.quota = "some" => funded
  /\ beat["elevenlabs"] = "some" => funded
  /\ view.beats["elevenlabs"] = "some" => funded
  /\ \A i \in 1..MaxItems :
       races[i].backup = "elevenlabs"
         => funded \/ (env.mode = "paid_only" /\ races[i].primary = "gemini_lyra")

LEMMA InitFunded == Init => FundedInv
<1>. SUFFICES ASSUME Init PROVE FundedInv
  OBVIOUS
<1>1. "elevenlabs" \in Providers /\ "elevenlabs" \in Sources
  BY DEF Sources, Providers
<1>2. balance["elevenlabs"] = env.seed
  BY <1>1 DEF Init, Seeded
<1>. QED
  BY <1>1, <1>2 DEF Init, FundedInv, NoBeat, NoView, NoRace

\* What the manager has read of elevenlabs is a balance above 0 only if one is known.
LEMMA ReadBalance ==
  ASSUME StateOK, FundedInv, ProviderHealthRead["elevenlabs"].quota = "some"
  PROVE  funded
<1>1. "elevenlabs" \in Providers
  BY DEF Providers
<1>. QED
  BY <1>1 DEF FundedInv, ProviderHealthRead

LEMMA FundedKept ==
  ASSUME StateOK, FundedInv, Step
  PROVE  FundedInv'
<1>0. "elevenlabs" \in Providers /\ Providers \subseteq Sources /\ "elevenlabs" \notin Locals
      /\ env.mode \in Modes
  BY SettingTyped DEF StateOK, Sources, Providers, Locals
<1>. USE DEF managerVars, localVars, providerVars
<1>1. ASSUME NEW i \in 1..MaxItems, FireHedge(i) PROVE FundedInv'
  BY <1>1 DEF StateOK, FundedInv, FireHedge, Races
<1>2. ASSUME NEW i \in 1..MaxItems, ReleaseHedge(i) PROVE FundedInv'
  BY <1>2 DEF StateOK, FundedInv, ReleaseHedge, NoRace
<1>3. CASE BeginDispatch
  BY <1>0, <1>3 DEF FundedInv, BeginDispatch, NoView
<1>4. CASE Read
  <2>1. view'.beats["elevenlabs"] \in {view.beats["elevenlabs"], beat["elevenlabs"]}
    <3>1. ASSUME NEW w \in Locals, \/ view' = [view EXCEPT !.load[w] = @ \/ pending[w] > 0]
                                   \/ view' = [view EXCEPT !.health[w] = beat[w]]
          PROVE  view'.beats = view.beats
      BY <3>1 DEF StateOK, Views
    <3>2. ASSUME view' = [view EXCEPT !.load = [w \in Locals |-> @[w] \/ inProgress[w] > 0]]
          PROVE  view'.beats = view.beats
      BY <3>2 DEF StateOK, Views
    <3>3. ASSUME NEW p \in Providers, view' = [view EXCEPT !.beats[p] = beat[p]]
          PROVE  view'.beats["elevenlabs"] \in {view.beats["elevenlabs"], beat["elevenlabs"]}
      <4>1. view'.beats = [view.beats EXCEPT ![p] = beat[p]]
        BY <3>3 DEF StateOK, Views
      <4>2. view.beats \in [Providers -> {"absent"} \union Balances]
        BY DEF StateOK, Views
      <4>. QED
        BY <1>0, <4>1, <4>2
    <3>. QED
      BY <1>4, <3>1, <3>2, <3>3 DEF Read
  <2>. QED
    BY <1>4, <2>1 DEF FundedInv, Read
<1>5. ASSUME NEW latency, LeaveQueued(latency) PROVE FundedInv'
  BY <1>0, <1>5 DEF FundedInv, LeaveQueued, NoView
<1>6. ASSUME NEW latency, NEW s \in Sources, Assign(latency, s) PROVE FundedInv'
  <2>1. view'.beats["elevenlabs"] # "some"
    BY <1>0, <1>6 DEF Assign, NoView
  <2>2. ASSUME NEW b \in Partners(s, latency), b = "elevenlabs"
        PROVE  funded \/ (env.mode = "paid_only" /\ s = "gemini_lyra")
    <3>1. CASE env.mode = "paid_only"
      <4>1. s \in Providers /\ s # "elevenlabs"
        BY <1>6, <2>2, <3>1, ProviderChoices
           DEF Assign, Sourced, Partners, ChooseSource, PickHedgePartner
      <4>. QED
        BY <3>1, <4>1 DEF Providers
    <3>2. CASE env.mode # "paid_only"
      BY <2>2, <3>2, PartnerChoices, ReadBalance DEF Partners
    <3>. QED
      BY <3>1, <3>2
  <2>3. \A i \in 1..MaxItems :
          races'[i].backup = "elevenlabs"
            => funded' \/ (env'.mode = "paid_only" /\ races'[i].primary = "gemini_lyra")
    <3>. SUFFICES ASSUME NEW i \in 1..MaxItems, races'[i].backup = "elevenlabs"
                  PROVE  funded \/ (env.mode = "paid_only" /\ races'[i].primary = "gemini_lyra")
      BY <1>6 DEF Assign
    <3>1. CASE races'[i] = races[i]
      BY <3>1 DEF FundedInv
    <3>2. ASSUME NEW b \in Partners(s, latency),
                 races'[i] = [primary |-> s, backup |-> b, fired |-> FALSE]
          PROVE  funded \/ (env.mode = "paid_only" /\ races'[i].primary = "gemini_lyra")
      BY <2>2, <3>2
    <3>3. races \in [1..MaxItems -> Races \union {NoRace}]
      BY DEF StateOK
    <3>. QED
      BY <1>6, <3>1, <3>2, <3>3 DEF Assign
  <2>. QED
    BY <1>6, <2>1, <2>3 DEF FundedInv, Assign
<1>7. ASSUME NEW s, Claims(s) \/ Acknowledges(s), balance' = balance, heart' = heart, funded' = funded
      PROVE  FundedInv'
  BY <1>7 DEF FundedInv, Claims, Acknowledges
<1>8. ASSUME NEW w \in Locals, LocalStep(w) PROVE FundedInv'
  <2>1. CASE LocalBeat(w)
    BY <1>0, <2>1 DEF StateOK, FundedInv, LocalBeat
  <2>2. CASE LocalStart(w) \/ LocalCrash(w)
    BY <2>2 DEF FundedInv, LocalStart, LocalCrash
  <2>. QED
    BY <1>7, <1>8, <2>1, <2>2 DEF LocalStep, LocalClaim, LocalEnd
<1>9. ASSUME NEW s \in Sources, BeatLapses(s) \/ RemoveOrphan(s) \/ RequeueOrphan(s)
      PROVE  FundedInv'
  BY <1>0, <1>9 DEF StateOK, FundedInv, BeatLapses, RemoveOrphan, RequeueOrphan
<1>10. CASE ClaimLoop
  <2>1. ASSUME NEW p \in Providers, ProviderClaim(p) \/ ProviderEnd(p) \/ QuotaExhausted(p)
        PROVE  FundedInv'
    BY <1>7, <2>1 DEF ProviderClaim, ProviderEnd, QuotaExhausted
  <2>2. ASSUME NEW p \in Providers, ProviderSkip(p) PROVE FundedInv'
    BY <2>2 DEF FundedInv, ProviderSkip
  <2>3. CASE DropHeartbeat
    <3>1. beat'["elevenlabs"] \in {beat["elevenlabs"], "absent"}
      BY <1>0, <2>3 DEF StateOK, DropHeartbeat
    <3>. QED
      BY <2>3, <3>1 DEF FundedInv, DropHeartbeat
  <2>. QED
    BY <1>10, <2>1, <2>2, <2>3 DEF ClaimLoop
<1>11. CASE ProviderRestart
  <2>1. Seeded["elevenlabs"] = "some" => funded
    BY <1>0 DEF FundedInv, Seeded
  <2>. QED
    BY <1>0, <1>11, <2>1 DEF FundedInv, ProviderRestart, NoBeat
<1>12. ASSUME NEW p \in Providers, CallBreaks(p) PROVE FundedInv'
  BY <1>12 DEF FundedInv, CallBreaks
<1>13. ASSUME NEW p \in Providers, PrepareBeat(p) PROVE FundedInv'
  BY <1>13 DEF FundedInv, PrepareBeat
<1>14. CASE WriteBeat
  <2>1. heart.source # "elevenlabs" => beat'["elevenlabs"] = beat["elevenlabs"]
    BY <1>0, <1>14 DEF StateOK, WriteBeat
  <2>2. heart.source = "elevenlabs" => beat'["elevenlabs"] = heart.quota
    BY <1>0, <1>14 DEF StateOK, WriteBeat
  <2>. QED
    BY <1>14, <2>1, <2>2 DEF FundedInv, WriteBeat, NoBeat
<1>15. ASSUME NEW q \in Balances, RefreshQuota(q) PROVE FundedInv'
  <2>1. balance'["elevenlabs"] = q
    BY <1>0, <1>15 DEF StateOK, RefreshQuota
  <2>. QED
    BY <1>15, <2>1 DEF FundedInv, RefreshQuota
<1>16. CASE Enqueue
  BY <1>16 DEF FundedInv, Enqueue
<1>. QED
  BY <1>1, <1>2, <1>3, <1>4, <1>5, <1>6, <1>8, <1>9, <1>10, <1>11, <1>12, <1>13, <1>14, <1>15, <1>16
     DEF Step, ManagerStep

\* A provider is handed a job by a race whose time has come or by dispatch_one, and by
\* nothing else: the reaper puts none back.
LEMMA WhoQueues ==
  ASSUME StateOK, Step, NEW p \in Providers, pending'[p] > pending[p]
  PROVE  \/ \E i \in 1..MaxItems : FireHedge(i) /\ races[i].backup = p
         \/ \E latency : Assign(latency, p)
<1> DEFINE Goal == \/ \E i \in 1..MaxItems : FireHedge(i) /\ races[i].backup = p
                   \/ \E latency : Assign(latency, p)
<1>0. p \in Sources /\ Providers \subseteq Sources /\ p \notin Locals /\ pending[p] \in Nat
  BY DEF StateOK, Sources, Providers, Locals
<1>1. ASSUME NEW i \in 1..MaxItems, FireHedge(i) PROVE races[i].backup = p
  BY <1>0, <1>1 DEF StateOK, FireHedge, More
<1>2. ASSUME NEW latency, NEW s \in Sources, Assign(latency, s) PROVE s = p
  BY <1>0, <1>2 DEF StateOK, Assign, More
<1>3. ASSUME UNCHANGED pending PROVE FALSE
  BY <1>0, <1>3
<1>4. ASSUME NEW s \in Sources, pending' = Less(pending, s) PROVE FALSE
  BY <1>0, <1>4 DEF StateOK, Less
<1>5. ASSUME NEW i \in 1..MaxItems, ReleaseHedge(i) PROVE FALSE
  <2>1. Sides(races[i]) \subseteq Sources
    BY <1>5 DEF StateOK, ReleaseHedge, Sides, Races
  <2>. QED
    BY <1>3, <1>4, <1>5, <2>1 DEF ReleaseHedge
<1>6. ASSUME NEW s \in Sources, RequeueOrphan(s) PROVE FALSE
  BY <1>0, <1>6 DEF StateOK, RequeueOrphan, More
<1>7. ASSUME NEW s \in Sources, Claims(s) \/ Acknowledges(s) PROVE FALSE
  BY <1>3, <1>4, <1>7 DEF Claims, Acknowledges
<1>8. ASSUME NEW w \in Locals, LocalStep(w) PROVE FALSE
  BY <1>3, <1>7, <1>8 DEF LocalStep, LocalStart, LocalBeat, LocalClaim, LocalEnd, LocalCrash, Sources
<1>9. ASSUME ClaimLoop PROVE FALSE
  BY <1>0, <1>3, <1>7, <1>9
     DEF ClaimLoop, ProviderClaim, ProviderSkip, ProviderEnd, QuotaExhausted, DropHeartbeat
<1>10. ASSUME \/ Enqueue \/ BeginDispatch \/ Read \/ ProviderRestart \/ WriteBeat
              \/ \E latency : LeaveQueued(latency)
              \/ \E s \in Sources : BeatLapses(s) \/ RemoveOrphan(s)
              \/ \E q \in Providers : CallBreaks(q) \/ PrepareBeat(q)
              \/ \E q \in Balances : RefreshQuota(q)
       PROVE  FALSE
  BY <1>3, <1>10 DEF Enqueue, BeginDispatch, Read, ProviderRestart, WriteBeat, LeaveQueued,
     BeatLapses, RemoveOrphan, CallBreaks, PrepareBeat, RefreshQuota
<1>11. CASE \E i \in 1..MaxItems : FireHedge(i)
  BY <1>1, <1>11
<1>12. CASE \E latency \in [Locals -> Latencies], s \in Sources : Assign(latency, s)
  BY <1>2, <1>12
<1>. QED
  BY <1>5, <1>6, <1>8, <1>9, <1>10, <1>11, <1>12 DEF Step, ManagerStep

LEMMA FundedStep ==
  ASSUME StateOK, FundedInv, Step, pending'["elevenlabs"] > pending["elevenlabs"]
  PROVE  funded \/ UncheckedBackup
<1>1. "elevenlabs" \in Providers
  BY DEF Providers
<1>2. ASSUME NEW i \in 1..MaxItems, FireHedge(i), races[i].backup = "elevenlabs", ~funded
      PROVE  UncheckedBackup
  <2>1. races[i] \in Races /\ ~races[i].fired /\ env.mode = "paid_only"
        /\ races[i].primary = "gemini_lyra"
    BY <1>2 DEF StateOK, FundedInv, FireHedge, NoRace
  <2>2. races[i] = [primary |-> "gemini_lyra", backup |-> "elevenlabs", fired |-> FALSE]
    BY <1>2, <2>1 DEF Races
  <2>3. races'[i].fired
    BY <1>2, <2>1 DEF StateOK, FireHedge, Races
  <2>. QED
    BY <2>1, <2>2, <2>3 DEF UncheckedBackup
<1>3. ASSUME NEW latency, Assign(latency, "elevenlabs") PROVE funded
  BY <1>3, SourceChoices, ReadBalance DEF Assign, Sourced
<1>. QED
  BY <1>1, <1>2, <1>3, WhoQueues

\* In every deployment the only job that elevenlabs is handed while no balance above 0 has
\* ever been seeded or read is the backup of gemini_lyra in paid_only, whatever the
\* threads, the heartbeats and the hedge records did in between.
THEOREM OnlyBackupsGoUnchecked == Spec => FundedCallsOnly
<1>1. Init => FundedInv
  BY InitFunded
<1>2. StateOK /\ FundedInv /\ [Next]_vars => FundedInv'
  <2>1. StateOK /\ FundedInv /\ Next => FundedInv'
    BY FundedKept DEF Next
  <2>2. FundedInv /\ UNCHANGED vars => FundedInv'
    BY DEF FundedInv, vars, managerVars, providerVars
  <2>. QED
    BY <2>1, <2>2
<1>3. StateOK /\ FundedInv /\ [Next]_vars
        => [pending'["elevenlabs"] > pending["elevenlabs"]
              => funded \/ UncheckedBackup]_vars
  BY FundedStep DEF Next
<1>. QED
  BY <1>1, <1>2, <1>3, DispatchTypeCorrect, PTL DEF Spec, FundedCallsOnly

-----------------------------------------------------------------------------
(* What dispatch_one knows of the local workers *)

\* What is left of ReadOrder.
U0 == ReadOrder
U1 == <<<<"list", "mac">>, <<"progress", "all">>, <<"beat", "windows">>, <<"beat", "mac">>,
        <<"beat", "elevenlabs">>, <<"beat", "gemini_lyra">>>>
U2 == <<<<"progress", "all">>, <<"beat", "windows">>, <<"beat", "mac">>,
        <<"beat", "elevenlabs">>, <<"beat", "gemini_lyra">>>>
BeatsLeft ==
  {<<<<"beat", "windows">>, <<"beat", "mac">>, <<"beat", "elevenlabs">>, <<"beat", "gemini_lyra">>>>,
   <<<<"beat", "mac">>, <<"beat", "elevenlabs">>, <<"beat", "gemini_lyra">>>>,
   <<<<"beat", "elevenlabs">>, <<"beat", "gemini_lyra">>>>, <<<<"beat", "gemini_lyra">>>>, <<>>}

\* A list that was read is not longer now than its reading says, unless the reaper
\* put a job back; and once the table is read, no job in it is missed either.
ListKnown(w)  == unread # U0 /\ (unread = U1 => w = "windows")
TableKnown    == unread \in BeatsLeft
OccupiedInv ==
  /\ unread \in {U0, U1, U2} \union BeatsLeft
  /\ mgr = "dispatch" =>
       \A w \in Locals \ moved :
         /\ ListKnown(w) /\ pending[w] > 0 => view.load[w]
         /\ TableKnown /\ inProgress[w] > 0 => view.load[w]

\* One reading: its turn, and what it leaves.
LEMMA Readings1 ==
  /\ Head(U0) = <<"list", "windows">> /\ Tail(U0) = U1
  /\ Head(U1) = <<"list", "mac">> /\ Tail(U1) = U2
  /\ Head(U2) = <<"progress", "all">> /\ Tail(U2) \in BeatsLeft
BY DEF U0, U1, U2, ReadOrder, BeatsLeft

LEMMA Readings2 ==
  ASSUME NEW u \in BeatsLeft, u # <<>>
  PROVE  Tail(u) \in BeatsLeft /\ \A what, of : Head(u) = <<what, of>> => what = "beat"
<1>1. CASE u = <<<<"beat", "windows">>, <<"beat", "mac">>, <<"beat", "elevenlabs">>, <<"beat", "gemini_lyra">>>>
  BY <1>1 DEF BeatsLeft
<1>2. CASE u = <<<<"beat", "mac">>, <<"beat", "elevenlabs">>, <<"beat", "gemini_lyra">>>>
  BY <1>2 DEF BeatsLeft
<1>3. CASE u = <<<<"beat", "elevenlabs">>, <<"beat", "gemini_lyra">>>>
  BY <1>3 DEF BeatsLeft
<1>4. CASE u = <<<<"beat", "gemini_lyra">>>>
  BY <1>4 DEF BeatsLeft
<1>. QED
  BY <1>1, <1>2, <1>3, <1>4 DEF BeatsLeft

LEMMA Distinct ==
  /\ U0 # U1 /\ U0 # U2 /\ U1 # U2
  /\ U0 \notin BeatsLeft /\ U1 \notin BeatsLeft /\ U2 \notin BeatsLeft
<1>1. Len(U0) = 7 /\ Len(U1) = 6 /\ Len(U2) = 5
  BY DEF U0, U1, U2, ReadOrder
<1>2. \A u \in BeatsLeft : Len(u) \in 0..4
  BY DEF BeatsLeft
<1>3. U0 # U1 /\ U0 # U2 /\ U1 # U2
  <2>1. Len(U0) # Len(U1) /\ Len(U0) # Len(U2) /\ Len(U1) # Len(U2)
    BY <1>1
  <2>. QED
    BY Zenon, <2>1
<1>4. Len(U0) \notin 0..4 /\ Len(U1) \notin 0..4 /\ Len(U2) \notin 0..4
  BY <1>1
<1>. QED
  BY Zenon, <1>2, <1>3, <1>4

\* Between two readings, the jobs of a worker that the reaper lets alone only get
\* fewer, or move from its list to the table.
OnlyFewer(w) ==
  /\ pending'[w] > 0 => pending[w] > 0
  /\ inProgress'[w] > 0 => inProgress[w] > 0 \/ pending[w] > 0

LEMMA JobsOnlyFewer ==
  ASSUME StateOK, Step, Remember, mgr = "dispatch", mgr' = "dispatch", NEW w \in Locals \ moved'
  PROVE  OnlyFewer(w)
<1>0. /\ w \in Sources /\ pending[w] \in Nat /\ inProgress[w] \in Nat /\ Providers \subseteq Sources
      /\ moved' = moved \union (requeueing \ requeueing') \union (requeueing' \ requeueing)
  BY DEF StateOK, Sources, Remember
<1>1. ASSUME UNCHANGED <<pending, inProgress>> PROVE OnlyFewer(w)
  BY <1>1 DEF OnlyFewer
<1>2. ASSUME NEW s \in Sources, Claims(s) PROVE OnlyFewer(w)
  BY <1>0, <1>2 DEF StateOK, OnlyFewer, Claims, More, Less
<1>3. ASSUME NEW s \in Sources, Acknowledges(s) PROVE OnlyFewer(w)
  BY <1>0, <1>3 DEF StateOK, OnlyFewer, Acknowledges, Less
<1>4. ASSUME NEW s \in Sources, RemoveOrphan(s) PROVE OnlyFewer(w)
  BY <1>0, <1>4 DEF StateOK, OnlyFewer, RemoveOrphan, Less
<1>5. ASSUME NEW s \in Sources, RequeueOrphan(s) PROVE OnlyFewer(w)
  <2>1. s # w
    BY <1>0, <1>5 DEF RequeueOrphan
  <2>. QED
    BY <1>0, <1>5, <2>1 DEF StateOK, OnlyFewer, RequeueOrphan, More
<1>6. ASSUME NEW v \in Locals, LocalStep(v) PROVE OnlyFewer(w)
  BY <1>1, <1>2, <1>3, <1>6
     DEF LocalStep, LocalStart, LocalBeat, LocalClaim, LocalEnd, LocalCrash, Sources
<1>7. ASSUME ClaimLoop PROVE OnlyFewer(w)
  BY <1>0, <1>1, <1>2, <1>3, <1>7
     DEF ClaimLoop, ProviderClaim, ProviderSkip, ProviderEnd, QuotaExhausted, DropHeartbeat
<1>8. ASSUME \/ Enqueue \/ Read \/ ProviderRestart \/ WriteBeat
             \/ \E s \in Sources : BeatLapses(s)
             \/ \E p \in Providers : CallBreaks(p) \/ PrepareBeat(p)
             \/ \E q \in Balances : RefreshQuota(q)
      PROVE  OnlyFewer(w)
  BY <1>1, <1>8 DEF Enqueue, Read, ProviderRestart, WriteBeat, BeatLapses, CallBreaks,
     PrepareBeat, RefreshQuota
<1>9. ASSUME \/ BeginDispatch
             \/ \E i \in 1..MaxItems : FireHedge(i) \/ ReleaseHedge(i)
             \/ \E latency : LeaveQueued(latency) \/ \E s \in Sources : Assign(latency, s)
      PROVE  FALSE
  BY <1>9 DEF BeginDispatch, FireHedge, ReleaseHedge, LeaveQueued, Assign
<1>. QED
  BY <1>4, <1>5, <1>6, <1>7, <1>8, <1>9 DEF Step, ManagerStep

\* A step that is not one of dispatch_one leaves its readings alone.
LEMMA ReadingsKept ==
  ASSUME Step, ~Read, ~BeginDispatch
  PROVE  /\ unread' = unread
         /\ mgr' = "dispatch" => mgr = "dispatch" /\ view' = view
<1>. USE DEF managerVars
<1>1. ASSUME NEW s, Claims(s) \/ Acknowledges(s) PROVE UNCHANGED managerVars
  BY <1>1 DEF Claims, Acknowledges
<1>2. ASSUME NEW w \in Locals, LocalStep(w) PROVE UNCHANGED managerVars
  BY <1>1, <1>2 DEF LocalStep, LocalStart, LocalBeat, LocalClaim, LocalEnd, LocalCrash
<1>3. ASSUME ClaimLoop PROVE UNCHANGED managerVars
  BY <1>1, <1>3
     DEF ClaimLoop, ProviderClaim, ProviderSkip, ProviderEnd, QuotaExhausted, DropHeartbeat
<1>4. ASSUME \/ Enqueue \/ ProviderRestart \/ WriteBeat
             \/ \E s \in Sources : BeatLapses(s) \/ RemoveOrphan(s) \/ RequeueOrphan(s)
             \/ \E p \in Providers : CallBreaks(p) \/ PrepareBeat(p)
             \/ \E q \in Balances : RefreshQuota(q)
      PROVE  UNCHANGED managerVars
  BY <1>4 DEF Enqueue, ProviderRestart, WriteBeat, BeatLapses, RemoveOrphan, RequeueOrphan,
     CallBreaks, PrepareBeat, RefreshQuota
<1>5. ASSUME \/ \E i \in 1..MaxItems : FireHedge(i) \/ ReleaseHedge(i)
             \/ \E latency : LeaveQueued(latency) \/ \E s \in Sources : Assign(latency, s)
      PROVE  unread' = unread /\ mgr' = "poll"
  BY <1>5 DEF FireHedge, ReleaseHedge, LeaveQueued, Assign
<1>. QED
  BY <1>2, <1>3, <1>4, <1>5 DEF Step, ManagerStep

LEMMA OccupiedKept ==
  ASSUME StateOK, OccupiedInv, Step, Remember
  PROVE  OccupiedInv'
<1>1. CASE BeginDispatch
  BY <1>1, Distinct DEF OccupiedInv, BeginDispatch, ListKnown, TableKnown, U0
<1>2. CASE Read
  <2>0. (mgr' = mgr /\ moved \subseteq moved') \/ mgr' = "poll"
    BY <1>2 DEF Read, Remember, StateOK
  <2>1. CASE unread = U0
    <3>1. unread' = U1 /\ view' = [view EXCEPT !.load["windows"] = @ \/ pending["windows"] > 0]
      BY <1>2, <2>1, Readings1 DEF Read, Reading
    <3>. QED
      BY <1>2, <2>0, <2>1, <3>1, Distinct DEF StateOK, Views, OccupiedInv, Read, ListKnown, TableKnown, Locals
  <2>2. CASE unread = U1
    <3>1. unread' = U2 /\ view' = [view EXCEPT !.load["mac"] = @ \/ pending["mac"] > 0]
      BY <1>2, <2>2, Readings1 DEF Read, Reading
    <3>. QED
      BY <1>2, <2>0, <2>2, <3>1, Distinct DEF StateOK, Views, OccupiedInv, Read, ListKnown, TableKnown, Locals
  <2>3. CASE unread = U2
    <3>1. /\ unread' \in BeatsLeft
          /\ view' = [view EXCEPT !.load = [w \in Locals |-> @[w] \/ inProgress[w] > 0]]
      BY <1>2, <2>3, Readings1 DEF Read, Reading
    <3>. QED
      BY <1>2, <2>0, <2>3, <3>1, Distinct DEF StateOK, Views, OccupiedInv, Read, ListKnown, TableKnown
  <2>4. CASE unread \in BeatsLeft
    <3>1. unread' \in BeatsLeft /\ view'.load = view.load
      BY <1>2, <2>4, Readings2 DEF StateOK, Views, Read, Reading
    <3>. QED
      BY <1>2, <2>0, <2>4, <3>1, Distinct DEF OccupiedInv, Read, ListKnown, TableKnown
  <2>. QED
    BY <2>1, <2>2, <2>3, <2>4 DEF OccupiedInv
<1>3. CASE ~BeginDispatch /\ ~Read
  <2>1. unread' = unread /\ (mgr' = "dispatch" => mgr = "dispatch" /\ view' = view)
    BY <1>3, ReadingsKept
  <2>2. CASE mgr' = "dispatch"
    <3>1. moved \subseteq moved'
      BY <2>2 DEF Remember
    <3>2. \A w \in Locals \ moved' : OnlyFewer(w)
      BY <2>1, <2>2, JobsOnlyFewer
    <3>3. \A w : TableKnown => ListKnown(w)
      BY Distinct DEF TableKnown, ListKnown
    <3>. QED
      BY <2>1, <2>2, <3>1, <3>2, <3>3 DEF OccupiedInv, OnlyFewer, TableKnown, ListKnown
  <2>. QED
    BY <2>1, <2>2 DEF OccupiedInv
<1>. QED
  BY <1>1, <1>2, <1>3

\* When the manager decides, worker_load is the source of truth: it knows of every job
\* a local worker has, although the worker went on while the manager was counting.
THEOREM LoadIsTruth == Spec => []OccupiedIsKnown
<1>1. Init => OccupiedInv
  BY DEF Init, OccupiedInv, BeatsLeft
<1>2. StateOK /\ OccupiedInv /\ [Next]_vars => OccupiedInv'
  <2>1. StateOK /\ OccupiedInv /\ Next => OccupiedInv'
    BY OccupiedKept DEF Next
  <2>2. OccupiedInv /\ UNCHANGED vars => OccupiedInv'
    BY DEF OccupiedInv, ListKnown, TableKnown, vars, managerVars, history
  <2>. QED
    BY <2>1, <2>2
<1>3. StateOK /\ OccupiedInv => OccupiedIsKnown
  <2>. SUFFICES ASSUME StateOK, OccupiedInv, Deciding, NEW w \in Locals \ moved,
                       pending[w] + inProgress[w] > 0
                PROVE  view.load[w]
    BY DEF OccupiedIsKnown
  <2>1. TableKnown /\ ListKnown(w)
    BY Distinct DEF Deciding, TableKnown, ListKnown, BeatsLeft
  <2>2. pending[w] > 0 \/ inProgress[w] > 0
    BY DEF StateOK, Sources
  <2>. QED
    BY <2>1, <2>2 DEF OccupiedInv, Deciding
<1>. QED
  BY <1>1, <1>2, <1>3, DispatchTypeCorrect, PTL DEF Spec

-----------------------------------------------------------------------------
(* A free local worker goes first *)

\* What dispatch_one has read of a worker that is idle, and known to be, ever since it
\* began: nothing else than that.
HealthRead(w) == Len(unread) <= IF w = "windows" THEN 3 ELSE 2
FreeInv ==
  mgr = "dispatch" =>
    \A w \in free : /\ w \in KnownIdle /\ ~view.load[w]
                    /\ HealthRead(w) => view.health[w] = "idle"

LEMMA HealthTurn ==
  ASSUME unread \in {U0, U1, U2} \union BeatsLeft, unread # <<>>
  PROVE  /\ Len(unread) \in 1..7 /\ Len(Tail(unread)) = Len(unread) - 1
         /\ \A w \in Locals : Head(unread) = <<"beat", w>>
                                <=> Len(unread) = IF w = "windows" THEN 4 ELSE 3
<1>0. CASE unread = U0
  BY <1>0 DEF U0, ReadOrder, Locals
<1>6. CASE unread = U1
  BY <1>6 DEF U1, Locals
<1>1. CASE unread = U2
  BY <1>1 DEF U2, Locals
<1>2. CASE unread = <<<<"beat", "windows">>, <<"beat", "mac">>, <<"beat", "elevenlabs">>, <<"beat", "gemini_lyra">>>>
  BY <1>2 DEF Locals
<1>3. CASE unread = <<<<"beat", "mac">>, <<"beat", "elevenlabs">>, <<"beat", "gemini_lyra">>>>
  BY <1>3 DEF Locals
<1>4. CASE unread = <<<<"beat", "elevenlabs">>, <<"beat", "gemini_lyra">>>>
  BY <1>4 DEF Locals
<1>5. CASE unread = <<<<"beat", "gemini_lyra">>>>
  BY <1>5 DEF Locals
<1>. QED
  BY <1>0, <1>1, <1>2, <1>3, <1>4, <1>5, <1>6 DEF BeatsLeft

LEMMA FreeKept ==
  ASSUME StateOK, OccupiedInv, FreeInv, Step, Remember
  PROVE  FreeInv'
<1>. SUFFICES ASSUME mgr' = "dispatch", NEW w \in free'
              PROVE  /\ w \in KnownIdle' /\ ~view'.load[w]
                     /\ HealthRead(w)' => view'.health[w] = "idle"
  BY DEF FreeInv
<1>1. w \in KnownIdle' /\ (mgr = "dispatch" => w \in free) /\ mgr \in {"poll", "dispatch"}
  BY DEF Remember, StateOK
<1>2. CASE BeginDispatch
  <2>1. Len(unread') = 7 /\ view' = NoView
    BY <1>2 DEF BeginDispatch, ReadOrder
  <2>2. w \in Locals
    BY <1>1, <1>2, SettingTyped DEF BeginDispatch, KnownIdle, StateOK, localVars
  <2>. QED
    BY <1>1, <2>1, <2>2 DEF NoView, HealthRead
<1>3. CASE Read
  <2>0. mgr = "dispatch" /\ w \in free /\ unread # <<>> /\ unread' = Tail(unread)
    BY <1>1, <1>3 DEF Read, Reading
  <2>1. /\ w \in Locals /\ beat[w] = "idle" /\ ~(pending[w] > 0) /\ ~(inProgress[w] > 0)
        /\ ~view.load[w]
        /\ HealthRead(w) => view.health[w] = "idle"
    <3>1. w \in up /\ beat[w] = "idle" /\ pending[w] + inProgress[w] = 0
      BY <2>0 DEF FreeInv, KnownIdle
    <3>2. w \in Locals
      BY <3>1, SettingTyped DEF StateOK
    <3>. QED
      BY <2>0, <3>1, <3>2 DEF FreeInv, StateOK, Sources
  <2>2. /\ Len(unread) \in 1..7 /\ Len(unread') = Len(unread) - 1
        /\ \A v \in Locals : Head(unread) = <<"beat", v>> <=> Len(unread) = IF v = "windows" THEN 4 ELSE 3
    BY <2>0, HealthTurn DEF OccupiedInv
  <2>3. CASE \E v \in Locals : Reading("list", v) /\ view' = [view EXCEPT !.load[v] = @ \/ pending[v] > 0]
    <3>1. PICK v \in Locals : Reading("list", v) /\ view' = [view EXCEPT !.load[v] = @ \/ pending[v] > 0]
      BY <2>3
    <3>2. ~view'.load[w] /\ view'.health = view.health
      BY <2>1, <3>1 DEF StateOK, Views
    <3>3. Head(unread) # <<"beat", w>>
      BY <3>1 DEF Reading
    <3>4. HealthRead(w)' => HealthRead(w)
      BY <2>1, <2>2, <3>3 DEF HealthRead
    <3>. QED
      BY <1>1, <2>1, <3>2, <3>4
  <2>4. CASE Reading("progress", "all") /\ view' = [view EXCEPT !.load = [v \in Locals |-> @[v] \/ inProgress[v] > 0]]
    <3>1. ~view'.load[w] /\ view'.health = view.health
      BY <2>1, <2>4 DEF StateOK, Views
    <3>2. Head(unread) # <<"beat", w>>
      BY <2>4 DEF Reading
    <3>3. HealthRead(w)' => HealthRead(w)
      BY <2>1, <2>2, <3>2 DEF HealthRead
    <3>. QED
      BY <1>1, <2>1, <3>1, <3>3
  <2>5. CASE \E v \in Locals : Reading("beat", v) /\ view' = [view EXCEPT !.health[v] = beat[v]]
    <3>1. PICK v \in Locals : Reading("beat", v) /\ view' = [view EXCEPT !.health[v] = beat[v]]
      BY <2>5
    <3>2. ~view'.load[w] /\ view'.health[w] = IF v = w THEN "idle" ELSE view.health[w]
      BY <2>1, <3>1 DEF StateOK, Views
    <3>3. v # w => Head(unread) # <<"beat", w>>
      BY <3>1 DEF Reading
    <3>4. v # w => (HealthRead(w)' => HealthRead(w))
      BY <2>1, <2>2, <3>3 DEF HealthRead
    <3>. QED
      BY <1>1, <2>1, <3>2, <3>4
  <2>6. CASE \E p \in Providers : Reading("beat", p) /\ view' = [view EXCEPT !.beats[p] = beat[p]]
    <3>1. PICK p \in Providers : Reading("beat", p) /\ view' = [view EXCEPT !.beats[p] = beat[p]]
      BY <2>6
    <3>2. view'.load = view.load /\ view'.health = view.health
      BY <3>1 DEF StateOK, Views
    <3>3. Head(unread) # <<"beat", w>>
      BY <2>1, <3>1 DEF Reading, Locals, Providers
    <3>4. HealthRead(w)' => HealthRead(w)
      BY <2>1, <2>2, <3>3 DEF HealthRead
    <3>. QED
      BY <1>1, <2>1, <3>2, <3>4
  <2>. QED
    BY <1>3, <2>3, <2>4, <2>5, <2>6 DEF Read
<1>4. CASE ~BeginDispatch /\ ~Read
  <2>1. unread' = unread /\ mgr = "dispatch" /\ view' = view
    BY <1>4, ReadingsKept
  <2>. QED
    BY <1>1, <2>1 DEF FreeInv, HealthRead
<1>. QED
  BY <1>2, <1>3, <1>4

\* In hybrid no item goes to a paid provider while a local worker has been idle, and
\* known to be, since the manager began to look around: whatever happens between its
\* readings (FreeLocalGoesFirst).
THEOREM FreeLocalFirst == Spec => FreeLocalGoesFirst
<1>1. Init => OccupiedInv /\ FreeInv
  BY DEF Init, OccupiedInv, BeatsLeft, FreeInv
<1>2. StateOK /\ OccupiedInv /\ FreeInv /\ [Next]_vars => OccupiedInv' /\ FreeInv'
  <2>1. StateOK /\ OccupiedInv /\ FreeInv /\ Next => OccupiedInv' /\ FreeInv'
    BY OccupiedKept, FreeKept DEF Next
  <2>2. FreeInv /\ OccupiedInv /\ UNCHANGED vars => OccupiedInv' /\ FreeInv'
    BY DEF OccupiedInv, ListKnown, TableKnown, FreeInv, HealthRead, KnownIdle,
           vars, managerVars, localVars, history
  <2>. QED
    BY <2>1, <2>2
<1>3. StateOK /\ FreeInv /\ [Next]_vars
        => [mgr = "dispatch" /\ env.mode = "hybrid" /\ (\E p \in Providers : pending'[p] > pending[p])
              => free = {}]_vars
  <2>. SUFFICES ASSUME StateOK, FreeInv, Step, mgr = "dispatch", env.mode = "hybrid",
                       NEW p \in Providers, pending'[p] > pending[p], NEW w \in free
                PROVE  FALSE
    BY DEF Next
  <2>1. PICK latency : Assign(latency, p)
    BY WhoQueues DEF FireHedge
  <2>2. unread = <<>> /\ p \in Sourced(latency)
    BY <2>1 DEF Assign, Deciding
  <2>3. w \in Locals /\ ~view.load[w] /\ view.health[w] = "idle"
    <3>1. w \in up /\ HealthRead(w)
      BY <2>2 DEF FreeInv, KnownIdle, HealthRead
    <3>. QED
      BY <3>1, SettingTyped DEF FreeInv, StateOK
  <2>4. w \in Idle(WorkerHealthOf(latency))
    BY <2>3 DEF Idle, Healthy, WorkerHealthOf
  <2>5. p \in Locals
    BY <2>2, <2>4, LocalChoices DEF Sourced, ChooseSource
  <2>. QED
    BY <2>5 DEF Locals, Providers
<1>. QED
  BY <1>1, <1>2, <1>3, DispatchTypeCorrect, PTL DEF Spec, FreeLocalGoesFirst

=============================================================================
