--------------------------- MODULE BackingProofs ---------------------------
(***************************************************************************)
(* The proof that an item in generation is never forgotten, for every      *)
(* number of items and sources and any races, as long as none of a few     *)
(* named steps is taken: every job that was pushed for it is on a list     *)
(* that is served, with the reaper, or on its way to the manager, or its   *)
(* failure is written down in the hedge record.  Then the settings under   *)
(* which none of those steps can be taken, and those under which no job is *)
(* returned to the list without a reader.                                  *)
(***************************************************************************)
EXTENDS HedgeProofs, PlacesProofs

\* The steps that may lose an item: the manager is interrupted with a completion in its
\* hand, before note_side_failed or between it and mark_failed, or between
\* mark_generating and push_job, the reaper stops between its LREM and its RPUSH, a
\* worker dies after its ack, a provider out of credits is no longer served, or the
\* reaper takes a provider's job, which it returns to the list nobody reads.
LosingStep ==
  \/ ManagerFault /\ mgr \in {"apply", "fail", "push"}
  \/ ReaperFault /\ reaper.pc = "requeue"
  \/ \E p \in Processes : WorkerFault(p) /\ worker[p].pc = "acked"
  \/ disabled' \ disabled # {}
  \/ RemoveOrphan /\ SourceOf(reaper.job) \in Providers

\* Every list but the shared one has its reader.
AllServed == disabled = {}

\* The manager knows that job j has failed and waits for the other side.
NotedFailed(i, j) ==
  /\ Hedged(i)
  /\ (j = hedge[i].primary /\ hedge[i].primaryFailed) \/ (j = hedge[i].backup /\ hedge[i].backupFailed)

\* The other jobs of an item that is given up have failed, and their record is gone.
EveryJobCounts ==
  \A j \in JobIds : Contested(ItemOf(j)) => Live(j) \/ NotedFailed(ItemOf(j), j)

HasJob ==
  \A i \in Items : status[i] = "generating" /\ ~(mgr = "push" /\ plan.item = i) =>
    \E j \in JobIds : ItemOf(j) = i

\* One side at most has failed, and a backup fails after it was started only.  A record
\* is written for an item that has none, and a backup into a record that has none.
RecordsFit ==
  /\ \A i \in Items : Hedged(i) => /\ ~(hedge[i].primaryFailed /\ hedge[i].backupFailed)
                                   /\ hedge[i].backupFailed => hedge[i].backup # NoJob
                                   /\ hedge[i].primary # hedge[i].backup
  /\ mgr = "save" => LET h == hedge[plan.item]
                     IN Hedged(plan.item) /\ h.backup = NoJob /\ h.primary # Pushed
  /\ mgr \in {"push", "remember"} => ~Hedged(plan.item)

BackingInv == EveryJobCounts /\ HasJob /\ RecordsFit

-----------------------------------------------------------------------------
(* What a command leaves in a list *)

LEMMA AppendHolds ==
  ASSUME NEW S, NEW s \in Seq(S), NEW e \in S
  PROVE  Contains(Append(s, e), e) /\ \A x : Contains(s, x) => Contains(Append(s, e), x)
<1>1. /\ Len(s) \in Nat /\ Len(Append(s, e)) = Len(s) + 1
      /\ \A i \in 1..Len(s) : Append(s, e)[i] = s[i]
      /\ Append(s, e)[Len(s) + 1] = e
  BY AppendProperties, LenProperties
<1>2. Contains(Append(s, e), e)
  BY <1>1 DEF Contains
<1>3. \A x : Contains(s, x) => Contains(Append(s, e), x)
  BY <1>1 DEF Contains
<1> QED BY <1>2, <1>3

LEMMA ConsHolds ==
  ASSUME NEW S, NEW s \in Seq(S), NEW e \in S
  PROVE  Contains(<<e>> \o s, e) /\ \A x : Contains(s, x) => Contains(<<e>> \o s, x)
<1>1. /\ <<e>> \in Seq(S) /\ Len(<<e>>) = 1 /\ <<e>>[1] = e
      /\ Len(s) \in Nat
  BY LenProperties
<1>2. /\ Len(<<e>> \o s) = Len(s) + 1
      /\ (<<e>> \o s)[1] = e
      /\ \A i \in 1..Len(s) : (<<e>> \o s)[i + 1] = s[i]
  BY <1>1, ConcatProperties
<1>3. \A i \in 1..Len(s) : i + 1 \in 1..(Len(s) + 1)
  BY <1>1
<1>4. Contains(<<e>> \o s, e)
  BY <1>1, <1>2 DEF Contains
<1>5. \A x : Contains(s, x) => Contains(<<e>> \o s, x)
  BY <1>2, <1>3 DEF Contains
<1> QED BY <1>4, <1>5

-----------------------------------------------------------------------------
(* A job that is live stays live until the manager has its result *)

LEMMA AllServedStep ==
  ASSUME AllServed, [Next]_vars, [~LosingStep]_vars
  PROVE  AllServed'
BY DEF AllServed, LosingStep, vars

\* Where the reaper returns a job that is not a provider's.
LEMMA Returned ==
  ASSUME Inv, NEW j \in JobIds
  PROVE  /\ SourceOf(j) \in Sources /\ PendingListFor(j) \in Queues
         /\ PendingListFor(j) # Shared <=> SourceOf(j) \notin Providers
         /\ PendingListFor(j) # Shared => PendingListFor(j) = SourceOf(j)
<1>1. jobs \in Seq([item : Items, source : Sources])
  BY DEF Inv, TypeOK
<1>2. jobs[j] \in [item : Items, source : Sources]
  BY <1>1, ElementOfSeq DEF JobIds
<1>3. SourceOf(j) \in Sources
  BY <1>2 DEF SourceOf
<1> QED BY <1>3, NamesAreDistinct DEF PendingListFor, Sources, Queues

\* A step that leaves jobs alone leaves the list a job goes back to.
LEMMA SourcesKept == ASSUME UNCHANGED jobs PROVE \A j : PendingListFor(j)' = PendingListFor(j)
BY DEF PendingListFor, SourceOf

LEMMA WorkersKeep ==
  ASSUME Inv, Inv', Routed, AllServed, ~LosingStep, NEW p \in Processes,
         WorkerStep(p) \/ WorkerFault(p) \/ StatsFault(p),
         NEW j \in JobIds, j \notin cancelled, Live(j)
  PROVE  Live(j)'
<1>1. /\ pending \in [Queues -> Seq(JobIds)] /\ inProgress \in Seq(JobIds)
      /\ completed \in Seq([job : JobIds, ok : BOOLEAN])
      /\ worker \in [Processes -> [pc : {"idle", "claimed", "running", "acked"},
                                  job : SomeJob, ok : BOOLEAN]]
      /\ worker[p].pc # "idle" => worker[p].job \in JobIds
  BY DEF Inv, TypeOK, Carried, SomeJob
<1>2. disabled = {} /\ disabled' = {}
  <2>1. AllServed'
    BY AllServedStep DEF Next
  <2> QED BY <2>1 DEF AllServed
<1>3. UNCHANGED <<jobs, mgr, msg, reaper>>
  BY DEF WorkerStep, Claim, SkipCancelled, StartGenerating, Acknowledge, PushCompleted, WorkerFault,
         StatsFault, storeVars, redisVars, mgrVars, reaperVars
<1>4. PendingListFor(j)' = PendingListFor(j)
  BY <1>3, SourcesKept
<1> HIDE DEF JobIds, SomeJob, Queues, Sources, Processes
<1>5. ASSUME NEW s \in Sources, Claim(p, s) PROVE Live(j)'
  <2>1. /\ worker[p].pc = "idle" /\ pending[s] \in Seq(JobIds) /\ pending[s] # <<>>
        /\ pending' = [pending EXCEPT ![s] = Front(pending[s])]
        /\ inProgress' = <<Last(pending[s])>> \o inProgress
        /\ completed' = completed
        /\ \A q \in Processes : q # p => worker'[q] = worker[q]
    BY <1>1, <1>5 DEF Claim, Queues
  <2>2. Last(pending[s]) \in JobIds
    <3>1. Len(pending[s]) \in 1..Len(pending[s])
      BY <2>1, EmptySeq, LenProperties
    <3> QED BY <2>1, <3>1, ElementOfSeq DEF Last
  <2>3. /\ Contains(inProgress', Last(pending[s]))
        /\ Contains(inProgress, j) => Contains(inProgress', j)
    BY <1>1, <2>1, <2>2, ConsHolds
  <2>4. Contains(pending[s], j) => j = Last(pending[s]) \/ Contains(pending'[s], j)
    <3>1. pending'[s] = Front(pending[s])
      BY <1>1, <2>1 DEF Queues
    <3> QED BY <2>1, <3>1, FrontPlaces
  <2>5. \A q \in Sources : q # s => pending'[q] = pending[q]
    BY <1>1, <2>1 DEF Queues
  <2> QED BY <1>2, <1>3, <1>4, <2>1, <2>3, <2>4, <2>5 DEF Live
<1>6. CASE SkipCancelled(p) \/ (\E outcome \in Outcomes : Acknowledge(p, outcome))
  <2> DEFINE c == worker[p].job
  <2>1. /\ inProgress' = RemoveFirst(inProgress, c)
        /\ UNCHANGED <<pending, completed>>
        /\ worker[p].pc \in {"claimed", "running"}
        /\ \A q \in Processes : q # p => worker'[q] = worker[q]
    BY <1>1, <1>6 DEF SkipCancelled, Acknowledge, AckAndClear
  <2>2. j = c => worker'[p].pc = "acked" /\ worker'[p].job = j
    BY <1>1, <1>6 DEF SkipCancelled, Acknowledge
  <2>3. Contains(inProgress, j) /\ j # c => Contains(inProgress', j)
    BY <1>1, <2>1, RemovalPlaces
  <2> HIDE DEF c
  <2> QED BY <1>2, <1>3, <1>4, <2>1, <2>2, <2>3 DEF Live
<1>7. CASE PushCompleted(p)
  <2>1. /\ UNCHANGED <<pending, inProgress>> /\ worker[p].pc = "acked"
        /\ completed' = Append(completed, [job |-> worker[p].job, ok |-> worker[p].ok])
        /\ \A q \in Processes : q # p => worker'[q] = worker[q]
    BY <1>1, <1>7 DEF PushCompleted
  <2>2. [job |-> worker[p].job, ok |-> worker[p].ok] \in [job : JobIds, ok : BOOLEAN]
    BY <1>1, <2>1
  <2>3. /\ Len(completed) \in Nat /\ Len(completed') = Len(completed) + 1
        /\ \A k \in 1..Len(completed) : completed'[k] = completed[k]
        /\ completed'[Len(completed) + 1].job = worker[p].job
        /\ DOMAIN completed = 1..Len(completed) /\ DOMAIN completed' = 1..(Len(completed) + 1)
    BY <1>1, <2>1, <2>2, AppendProperties, LenProperties
  <2>4. \A k \in DOMAIN completed : k \in DOMAIN completed' /\ completed'[k] = completed[k]
    BY <2>3
  <2>5. Len(completed) + 1 \in DOMAIN completed'
    BY <2>3
  <2> QED BY <1>2, <1>3, <1>4, <2>1, <2>3, <2>4, <2>5 DEF Live
<1>8. CASE StartGenerating(p) \/ WorkerFault(p) \/ StatsFault(p)
  <2>1. /\ UNCHANGED <<pending, inProgress, completed>>
        /\ worker[p].pc = "acked" => worker'[p].pc = "acked" /\ worker'[p].job = worker[p].job
        /\ \A q \in Processes : q # p => worker'[q] = worker[q]
    BY <1>1, <1>8 DEF StartGenerating, WorkerFault, StatsFault, LosingStep, redisVars
  <2> QED BY <1>2, <1>3, <1>4, <2>1 DEF Live
<1> QED BY <1>5, <1>6, <1>7, <1>8, NamesAreDistinct DEF WorkerStep

LEMMA ReaperKeeps ==
  ASSUME Inv, ~LosingStep, Reaper \/ ReaperFault, NEW j \in JobIds, Live(j)
  PROVE  Live(j)'
<1>1. /\ pending \in [Queues -> Seq(JobIds)] /\ inProgress \in Seq(JobIds)
      /\ reaper \in [pc : {"scan", "remove", "requeue"}, job : SomeJob]
      /\ reaper.pc # "scan" => reaper.job \in JobIds
  BY DEF Inv, TypeOK, Carried, SomeJob
<1>2. /\ PendingListFor(j) # Shared <=> SourceOf(j) \notin Providers
      /\ PendingListFor(j) # Shared => PendingListFor(j) \in Sources \ disabled
  BY Returned, NamesAreDistinct DEF Inv, TypeOK
<1>3. UNCHANGED <<jobs, completed, mgr, msg, worker, disabled>>
  BY DEF Reaper, FindOrphan, RemoveOrphan, RequeueOrphan, ReaperFault, redisVars, mgrVars, workerVars
<1>4. PendingListFor(j)' = PendingListFor(j)
  BY <1>3, SourcesKept
<1>5. CASE ReaperFault
  <2>1. reaper.pc # "requeue" /\ UNCHANGED <<pending, inProgress>>
    BY <1>5 DEF LosingStep, ReaperFault, redisVars
  <2> QED BY <1>3, <2>1 DEF Live
<1> HIDE DEF JobIds, SomeJob, Queues, Sources, Processes
<1>6. CASE \E k \in ToSet(inProgress) : FindOrphan(k)
  <2>1. reaper.pc = "scan" /\ UNCHANGED <<pending, inProgress>>
    BY <1>6 DEF FindOrphan
  <2> QED BY <1>3, <2>1 DEF Live
<1>7. CASE RemoveOrphan
  <2>1. /\ reaper.pc = "remove" /\ pending' = pending
        /\ inProgress' = RemoveFirst(inProgress, reaper.job)
        /\ reaper' = IF Contains(inProgress, reaper.job) THEN [reaper EXCEPT !.pc = "requeue"] ELSE Scan
    BY <1>7 DEF RemoveOrphan, Removed
  <2>2. Contains(inProgress, j) /\ j # reaper.job => Contains(inProgress', j)
    BY <1>1, <2>1, RemovalPlaces
  <2>3. Contains(inProgress, j) /\ j = reaper.job =>
          reaper'.pc = "requeue" /\ reaper'.job = j /\ PendingListFor(j) # Shared
    BY <1>1, <1>2, <1>7, <2>1 DEF LosingStep
  <2> QED BY <1>3, <1>4, <2>1, <2>2, <2>3 DEF Live
<1>8. CASE RequeueOrphan
  <2>1. /\ reaper.pc = "requeue" /\ inProgress' = inProgress
        /\ pending' = [pending EXCEPT ![PendingListFor(reaper.job)] =
                         Append(pending[PendingListFor(reaper.job)], reaper.job)]
    BY <1>8 DEF RequeueOrphan
  <2>2. reaper.job \in JobIds /\ PendingListFor(reaper.job) \in Queues
    BY <1>1, <2>1, Returned
  <2>3. \A q \in Queues : Contains(pending[q], j) => Contains(pending'[q], j)
    BY <1>1, <2>1, <2>2, AppendHolds
  <2>4. reaper.job = j => Contains(pending'[PendingListFor(j)], j)
    BY <1>1, <2>1, <2>2, AppendHolds
  <2>5. Sources \subseteq Queues
    BY DEF Queues
  <2> QED BY <1>2, <1>3, <1>4, <2>1, <2>3, <2>4, <2>5 DEF Live
<1> QED BY <1>5, <1>6, <1>7, <1>8 DEF Reaper

LEMMA ManagerKeeps ==
  ASSUME Inv, Manager,
         NEW j \in JobIds, status[ItemOf(j)] = "generating", Live(j)
  PROVE  Live(j)' \/ (mgr \in {"apply", "fail"} /\ msg.job = j)
<1>1. /\ pending \in [Queues -> Seq(JobIds)] /\ inProgress \in Seq(JobIds)
      /\ completed \in Seq([job : JobIds, ok : BOOLEAN])
  BY DEF Inv, TypeOK
<1>3. UNCHANGED <<inProgress, worker, reaper, disabled>>
  BY DEF Manager, PopCompleted, ApplyWin, ApplyLate, ApplySideFailed, ApplyFailed, MarkFailed, RecordTrack,
         ReleaseHedge, ForgetHedge, FireHedge, SaveHedge, ChooseSource, MarkGenerating, PushPrimary, RememberHedge,
         redisVars, workerVars, reaperVars
<1>5. CASE PopCompleted
  <2>1. /\ mgr = "poll" /\ completed # <<>> /\ mgr' = "apply" /\ msg' = Head(completed)
        /\ completed' = Tail(completed) /\ UNCHANGED <<jobs, pending>>
    BY <1>5 DEF PopCompleted, GoTo
  <2>2. PendingListFor(j)' = PendingListFor(j)
    BY <2>1, SourcesKept
  <2>3. ASSUME NEW k \in DOMAIN completed, completed[k].job = j
        PROVE  msg'.job = j \/ \E n \in DOMAIN completed' : completed'[n].job = j
    <3>1. /\ DOMAIN completed = 1..Len(completed) /\ Len(completed) \in Nat
          /\ completed' \in Seq([job : JobIds, ok : BOOLEAN])
          /\ Len(completed') = Len(completed) - 1
          /\ \A n \in 1..Len(completed') : completed'[n] = completed[n + 1]
          /\ msg' = completed[1]
      BY <1>1, <2>1, HeadTailProperties, LenProperties
    <3>2. DOMAIN completed' = 1..Len(completed')
      BY <3>1, LenProperties
    <3>3. CASE k = 1
      BY <2>3, <3>1, <3>3
    <3>4. CASE k # 1
      <4>1. k - 1 \in 1..Len(completed') /\ (k - 1) + 1 = k
        BY <3>1, <3>4
      <4>2. completed'[k - 1].job = j
        BY <2>3, <3>1, <4>1
      <4> QED BY <3>2, <4>1, <4>2
    <3> QED BY <3>3, <3>4
  <2> QED BY <1>3, <2>1, <2>2, <2>3 DEF Live
<1>6. CASE ReleaseHedge
  <2>1. PICK w \in Items : w = ItemOf(msg.job)
    BY <1>6, InHand DEF ReleaseHedge
  <2> DEFINE L == {hedge[w].primary, hedge[w].backup} \ {NoJob, msg.job}
             C(q) == CHOOSE c \in L : SourceOf(c) = q
  <2>2. /\ mgr = "release" /\ UNCHANGED <<jobs, completed>>
        /\ pending' = [q \in Queues |-> IF \E c \in L : SourceOf(c) = q
                                          THEN RemoveFirst(pending[q], C(q)) ELSE pending[q]]
    BY <1>6, <2>1 DEF ReleaseHedge, Losers
  <2>3. PendingListFor(j)' = PendingListFor(j)
    BY <2>2, SourcesKept
  <2>4. j \notin L
    <3>1. ItemOf(j) # w
      BY <2>1, <2>2 DEF Inv, Standing, Settled
    <3> QED BY <3>1 DEF Inv, HedgesOfItem
  <2> HIDE DEF L
  <2>5. ASSUME NEW q \in Queues, Contains(pending[q], j) PROVE Contains(pending'[q], j)
    <3>1. CASE \E c \in L : SourceOf(c) = q
      <4>1. C(q) \in L
        BY <3>1
      <4> HIDE DEF C
      <4>2. C(q) # j /\ pending[q] \in Seq(JobIds)
        BY <1>1, <2>4, <4>1
      <4>3. Contains(RemoveFirst(pending[q], C(q)), j)
        BY <2>5, <4>2, RemovalPlaces
      <4> QED BY <2>2, <3>1, <4>3
    <3>2. CASE ~\E c \in L : SourceOf(c) = q
      BY <2>2, <2>5, <3>2
    <3> QED BY <3>1, <3>2
  <2>6. Sources \subseteq Queues
    BY DEF Queues
  <2> QED BY <1>3, <2>2, <2>3, <2>5, <2>6 DEF Live
<1>7. ASSUME NEW w \in Items, NEW s \in Sources, Push(w, s), mgr \notin {"apply", "fail"}, completed' = completed
      PROVE  Live(j)'
  <2>1. pending' = [pending EXCEPT ![s] = Append(pending[s], Len(jobs) + 1)]
    BY <1>7 DEF Push
  <2>2. \A q \in Queues : Contains(pending[q], j) => Contains(pending'[q], j)
    <3>1. pending[s] \in Seq(Nat) /\ Len(jobs) + 1 \in Nat
      <4>1. Len(jobs) \in Nat
        BY LenProperties DEF Inv, TypeOK
      <4>2. JobIds \subseteq Nat /\ s \in Queues
        BY DEF JobIds, Queues
      <4> HIDE DEF JobIds, Queues
      <4>3. pending[s] \in Seq(JobIds)
        BY <1>1, <4>2
      <4>4. pending[s] \in Seq(Nat)
        BY <4>2, <4>3, SeqMonotonic
      <4>5. Len(jobs) + 1 \in Nat
        BY <4>1
      <4> QED BY <4>4, <4>5
    <3>2. \A x : Contains(pending[s], x) => Contains(Append(pending[s], Len(jobs) + 1), x)
      BY <3>1, AppendHolds
    <3> QED BY <1>1, <2>1, <3>2
  <2>3. PendingListFor(j)' = PendingListFor(j)
    <3>1. jobs'[j] = jobs[j]
      <4>1. jobs \in Seq([item : Items, source : Sources]) /\ Payload(w, s) \in [item : Items, source : Sources]
        BY DEF Inv, TypeOK, Payload
      <4>2. jobs' = Append(jobs, Payload(w, s)) /\ j \in 1..Len(jobs)
        BY <1>7 DEF Push, JobIds
      <4> HIDE DEF Payload
      <4> QED BY <4>1, <4>2, AppendProperties
    <3> QED BY <3>1 DEF PendingListFor, SourceOf
  <2>4. Sources \subseteq Queues
    BY DEF Queues
  <2> QED BY <1>3, <1>7, <2>2, <2>3, <2>4 DEF Live
<1>8. CASE PushPrimary
  <2>1. plan.item \in Items /\ plan.source \in Sources
    BY <1>8 DEF PushPrimary, Inv, Carried
  <2> QED BY <1>7, <1>8, <2>1 DEF PushPrimary
<1>9. ASSUME NEW w \in Items, FireHedge(w) PROVE Live(j)'
  <2>1. hedge[w].backupSource \in Sources
    BY <1>9 DEF FireHedge, DueToFire, Hedged, Inv, HedgesOfItem
  <2> QED BY <1>7, <1>9, <2>1 DEF FireHedge, Drained
<1>10. CASE ApplyWin \/ ApplyLate \/ ApplySideFailed \/ ApplyFailed \/ MarkFailed
  <2>1. UNCHANGED <<jobs, pending, completed>> /\ mgr \in {"apply", "fail"}
    BY <1>10 DEF ApplyWin, ApplyLate, ApplySideFailed, ApplyFailed, MarkFailed, redisVars
  <2>2. PendingListFor(j)' = PendingListFor(j)
    BY <2>1, SourcesKept
  <2> QED BY <1>3, <2>1, <2>2 DEF Live
<1>11. CASE RecordTrack \/ ForgetHedge \/ SaveHedge \/ MarkGenerating \/ RememberHedge
              \/ \E i \in Items : ChooseSource(i)
  <2>1. UNCHANGED <<jobs, pending, completed>> /\ mgr \notin {"apply", "fail"}
    BY <1>11 DEF RecordTrack, ForgetHedge, SaveHedge, ChooseSource, MarkGenerating, RememberHedge, redisVars, Drained
  <2>2. PendingListFor(j)' = PendingListFor(j)
    BY <2>1, SourcesKept
  <2> QED BY <1>3, <2>1, <2>2 DEF Live
<1> QED BY <1>5, <1>6, <1>8, <1>9, <1>10, <1>11 DEF Manager

-----------------------------------------------------------------------------
(* The invariant *)

\* What EveryJobCounts says after a step that pushes nothing.
LEMMA CountsIf ==
  ASSUME Inv, UNCHANGED jobs,
         \A j \in JobIds : \A i \in Items :
           i = ItemOf(j) /\ Contested(i)' => Live(j)' \/ NotedFailed(i, j)'
  PROVE  EveryJobCounts'
<1>1. JobIds' = JobIds /\ \A j : ItemOf(j)' = ItemOf(j)
  BY JobsKept
<1>2. \A j \in JobIds : ItemOf(j) \in Items
  BY InHand
<1>3. ASSUME NEW j \in JobIds', Contested(ItemOf(j))'
      PROVE  Live(j)' \/ NotedFailed(ItemOf(j), j)'
  <2>1. PICK i \in Items : i = ItemOf(j) /\ i = ItemOf(j)' /\ j \in JobIds
    BY <1>1, <1>2
  <2>2. Contested(i)'
    BY <1>3, <2>1 DEF Contested, Failing
  <2>3. Live(j)' \/ NotedFailed(i, j)'
    BY <2>1, <2>2
  <2> QED BY <2>1, <2>3 DEF NotedFailed, Hedged
<1> QED BY <1>3 DEF EveryJobCounts

LEMMA OthersBacked ==
  ASSUME Inv, Inv', Routed, AllServed, ~LosingStep, BackingInv,
         StoreUsers \/ Reaper \/ ReaperFault \/ Clock
           \/ \E p \in Processes : WorkerStep(p) \/ WorkerFault(p) \/ StatsFault(p)
  PROVE  BackingInv'
<1>1. /\ \A i \in Items : /\ status'[i] = "generating" <=> status[i] = "generating"
                          /\ hedge'[i].primary = hedge[i].primary
                          /\ hedge'[i].backup = hedge[i].backup
                          /\ hedge'[i].primaryFailed = hedge[i].primaryFailed
                          /\ hedge'[i].backupFailed = hedge[i].backupFailed
      /\ UNCHANGED <<jobs, mgr, msg, plan>>
  <2>1. CASE StoreUsers
    BY <2>1, StoreKeepsStandings DEF redisVars, mgrVars
  <2>2. CASE Clock
    <3>1. hedge \in [Items -> HedgeRecords]
      BY DEF Inv, TypeOK
    <3>2. PICK k \in Items : HedgeFallsDue(k)
      BY <2>2 DEF Clock
    <3>3. hedge' = [hedge EXCEPT ![k] = [hedge[k] EXCEPT !.due = TRUE]]
      BY <3>2 DEF HedgeFallsDue
    <3>4. \A i \in Items : /\ hedge'[i].primary = hedge[i].primary
                           /\ hedge'[i].backup = hedge[i].backup
                           /\ hedge'[i].primaryFailed = hedge[i].primaryFailed
                           /\ hedge'[i].backupFailed = hedge[i].backupFailed
      BY <3>1, <3>3 DEF HedgeRecords
    <3> QED BY <3>2, <3>4 DEF HedgeFallsDue, storeVars, mgrVars
  <2>3. CASE Reaper \/ ReaperFault
    BY <2>3 DEF Reaper, FindOrphan, RemoveOrphan, RequeueOrphan, ReaperFault, storeVars, redisVars,
                mgrVars
  <2>4. CASE \E p \in Processes : WorkerStep(p) \/ WorkerFault(p) \/ StatsFault(p)
    BY <2>4 DEF WorkerStep, Claim, SkipCancelled, StartGenerating, Acknowledge, PushCompleted,
                WorkerFault, StatsFault, storeVars, redisVars, mgrVars
  <2> QED BY <2>1, <2>2, <2>3, <2>4
<1>2. JobIds' = JobIds /\ Pushed' = Pushed /\ \A j : ItemOf(j)' = ItemOf(j)
  BY <1>1, JobsKept
<1>3. /\ \A j \in JobIds : ItemOf(j) \in Items
      /\ mgr \in {"save", "push", "remember"} => plan.item \in Items
  BY InHand
<1>4. ASSUME NEW j \in JobIds, status[ItemOf(j)] = "generating", Live(j) PROVE Live(j)'
  <2>1. j \notin cancelled
    BY <1>4 DEF Inv, CancelledOnlyWhenSettled, Settled
  <2>2. CASE StoreUsers \/ Clock
    <3>1. UNCHANGED <<jobs, pending, inProgress, completed, mgr, msg, worker, disabled, reaper>>
      BY <2>2 DEF StoreUsers, Enqueue, ClaimNextReady, MarkPlayed, ReleaseToReady, RequeueInterrupted,
                  Clock, HedgeFallsDue, redisVars, mgrVars, workerVars, reaperVars
    <3>2. PendingListFor(j)' = PendingListFor(j)
      BY <3>1, SourcesKept
    <3> QED BY <1>4, <3>1, <3>2 DEF Live
  <2> QED BY <1>4, <2>1, <2>2, WorkersKeep, ReaperKeeps
<1> HIDE DEF JobIds
<1>5. EveryJobCounts'
  <2>1. \A i \in Items : (Contested(i)' <=> Contested(i)) /\ (Contested(i) => status[i] = "generating")
    BY <1>1, <1>2 DEF Contested, Failing
  <2>2. \A i \in Items : \A j : NotedFailed(i, j)' <=> NotedFailed(i, j)
    BY <1>1 DEF NotedFailed, Hedged
  <2>3. \A j \in JobIds : \A i \in Items :
          i = ItemOf(j) /\ Contested(i)' => Live(j)' \/ NotedFailed(i, j)'
    BY <1>4, <2>1, <2>2 DEF BackingInv, EveryJobCounts
  <2> QED BY <1>1, <2>3, CountsIf
<1>6. HasJob'
  BY <1>1, <1>2 DEF BackingInv, HasJob
<1>7. RecordsFit'
  BY <1>1, <1>2, <1>3 DEF BackingInv, RecordsFit, Hedged
<1> QED BY <1>5, <1>6, <1>7 DEF BackingInv

\* A result that is not the first failure of two sides.
LEMMA QuietBacked ==
  ASSUME Inv, BackingInv,
         PopCompleted \/ ApplyWin \/ ApplyLate \/ RecordTrack \/ \E i \in Items : ChooseSource(i)
  PROVE  BackingInv'
<1>1. /\ UNCHANGED <<jobs, hedge>>
      /\ \A i \in Items : status'[i] = "generating" => status[i] = "generating"
      /\ mgr \notin {"push", "fail"} /\ mgr' \notin {"save", "push", "remember"}
  <2>1. status \in [Items -> Status]
    BY InHand
  <2> QED BY <2>1 DEF PopCompleted, ApplyWin, ApplyLate, RecordTrack, ChooseSource, Drained, GoTo,
                      Finished, storeVars, redisVars
<1>2. JobIds' = JobIds /\ \A j : ItemOf(j)' = ItemOf(j)
  BY <1>1, JobsKept
<1>3. \A j \in JobIds : ItemOf(j) \in Items
  BY InHand
<1>4. ASSUME NEW j \in JobIds, status'[ItemOf(j)] = "generating" PROVE Live(j)' \/ NotedFailed(ItemOf(j), j)
  <2>1. status[ItemOf(j)] = "generating" /\ Contested(ItemOf(j))
    BY <1>1, <1>3, <1>4 DEF Contested, Failing
  <2>2. mgr \in {"apply", "fail"} => msg.job # j
    <3>1. status \in [Items -> Status]
      BY InHand
    <3> QED BY <1>1, <1>3, <1>4, <2>1, <3>1 DEF ApplyWin, ApplyLate, PopCompleted, RecordTrack, ChooseSource,
                                         Drained, Generating
  <2>3. Live(j) \/ NotedFailed(ItemOf(j), j)
    BY <2>1 DEF BackingInv, EveryJobCounts
  <2> QED BY <2>1, <2>2, <2>3, ManagerKeeps DEF Manager
<1> HIDE DEF JobIds
<1>5. \A i \in Items : \A j : NotedFailed(i, j)' <=> NotedFailed(i, j)
  BY <1>1 DEF NotedFailed, Hedged
<1>6. EveryJobCounts'
  BY <1>1, <1>4, <1>5, CountsIf DEF Contested
<1>7. HasJob' /\ RecordsFit'
  BY <1>1, <1>2 DEF BackingInv, HasJob, RecordsFit, Hedged
<1> QED BY <1>6, <1>7 DEF BackingInv

\* The first failure of two sides is noted.
LEMMA SideBacked ==
  ASSUME Inv, BackingInv, ApplySideFailed
  PROVE  BackingInv'
<1>1. PICK w \in Items, c \in JobIds : c = msg.job /\ w = ItemOf(msg.job)
  BY InHand DEF ApplySideFailed
<1> DEFINE h == SideFailed(hedge[w], msg.job)
<1>2. /\ mgr = "apply" /\ mgr' = "poll" /\ UNCHANGED <<jobs, status>>
      /\ IsSide(hedge[w], msg.job) /\ ~BothFailed(h)
      /\ hedge' = [hedge EXCEPT ![w] = h]
  BY <1>1 DEF ApplySideFailed, Finished, storeVars
<1>3. /\ hedge \in [Items -> HedgeRecords] /\ \A j \in JobIds : ItemOf(j) \in Items /\ j # NoJob
      /\ msg.job \in JobIds
  BY <1>2, InHand
<1>4. /\ hedge[w].primary # NoJob /\ hedge[w].backupSource # None
      /\ hedge[w].primary # hedge[w].backup
      /\ hedge[w].backupFailed => hedge[w].backup # NoJob
  BY <1>2, NamesAreDistinct DEF IsSide, Inv, HedgesOfItem, BackingInv, RecordsFit, Hedged
<1>5. /\ h.primary = hedge[w].primary /\ h.backup = hedge[w].backup
      /\ h.backupSource = hedge[w].backupSource
      /\ hedge[w].primaryFailed => h.primaryFailed
      /\ hedge[w].backupFailed => h.backupFailed
      /\ msg.job = h.primary => h.primaryFailed /\ h.backupFailed = hedge[w].backupFailed
      /\ msg.job # h.primary => h.backupFailed
  BY <1>3 DEF SideFailed, HedgeRecords
<1> HIDE DEF h
<1>6. /\ hedge'[w] = h /\ \A i \in Items : i # w => hedge'[i] = hedge[i]
  BY <1>2, <1>3
<1>7. JobIds' = JobIds /\ Pushed' = Pushed /\ \A j : ItemOf(j)' = ItemOf(j)
  BY <1>2, JobsKept
<1>8. NotedFailed(w, c)'
  BY <1>1, <1>2, <1>4, <1>5, <1>6 DEF NotedFailed, Hedged, IsSide
<1>9. \A i \in Items : \A j : NotedFailed(i, j) => NotedFailed(i, j)'
  BY <1>4, <1>5, <1>6 DEF NotedFailed, Hedged
<1>10. EveryJobCounts'
  <2>1. ASSUME NEW j \in JobIds, NEW i \in Items, i = ItemOf(j), Contested(i)'
        PROVE  Live(j)' \/ NotedFailed(i, j)'
    <3>1. CASE j = c
      BY <1>1, <1>8, <2>1, <3>1
    <3>2. CASE j # c
      <4>1. status[i] = "generating" /\ (Live(j) \/ NotedFailed(i, j))
        BY <1>2, <2>1 DEF BackingInv, EveryJobCounts, Contested, Failing
      <4>2. Live(j) => Live(j)'
        BY <1>1, <1>2, <2>1, <3>2, <4>1, ManagerKeeps DEF Manager
      <4> QED BY <1>9, <4>1, <4>2
    <3> QED BY <3>1, <3>2
  <2> QED BY <1>2, <1>3, <2>1, CountsIf
<1>11. HasJob'
  BY <1>2, <1>7 DEF BackingInv, HasJob
<1>12. RecordsFit'
  <2>1. ~(h.primaryFailed /\ h.backupFailed)
    BY <1>2, <1>4, <1>5 DEF BothFailed
  <2>2. h.backupFailed => h.backup # NoJob
    BY <1>2, <1>3, <1>4, <1>5 DEF IsSide
  <2> QED BY <1>2, <1>4, <1>5, <1>6, <2>1, <2>2 DEF BackingInv, RecordsFit, Hedged
<1> QED BY <1>10, <1>11, <1>12 DEF BackingInv

\* An item that is settled, or given up, is nobody's to finish.
LEMMA SettledBacked ==
  ASSUME Inv, BackingInv, ApplyFailed \/ MarkFailed \/ ReleaseHedge \/ ForgetHedge
  PROVE  BackingInv'
<1>1. PICK w \in Items : w = ItemOf(msg.job)
  BY InHand DEF ApplyFailed, MarkFailed, ReleaseHedge, ForgetHedge
<1>2. status \in [Items -> Status] /\ hedge \in [Items -> HedgeRecords]
      /\ \A j \in JobIds : ItemOf(j) \in Items
  BY InHand
<1>3. /\ UNCHANGED jobs /\ mgr \in {"apply", "fail", "release", "forget"}
      /\ mgr' \in {"poll", "fail", "release", "forget"}
      /\ \A i \in Items : i # w => hedge'[i] = hedge[i] /\ status'[i] = status[i]
      /\ status'[w] # "generating" \/ (mgr' = "fail" /\ msg' = msg /\ status' = status)
      /\ hedge'[w] \in {hedge[w], NoHedge}
  <2>1. CASE ApplyFailed
    BY <1>1, <1>2, <2>1 DEF ApplyFailed, GoTo, storeVars
  <2>2. CASE MarkFailed
    BY <1>1, <1>2, <2>2 DEF MarkFailed, Generating, GoTo, Finished, redisVars
  <2>3. CASE ReleaseHedge
    BY <1>1, <1>2, <2>3 DEF ReleaseHedge, GoTo, storeVars, Inv, Standing, Settled
  <2>4. CASE ForgetHedge
    BY <1>1, <1>2, <2>4 DEF ForgetHedge, Finished, storeVars, Inv, Standing, Settled
  <2> QED BY <2>1, <2>2, <2>3, <2>4
<1>4. JobIds' = JobIds /\ Pushed' = Pushed /\ \A j : ItemOf(j)' = ItemOf(j)
  BY <1>3, JobsKept
<1>5. EveryJobCounts'
  <2>1. ASSUME NEW j \in JobIds, NEW i \in Items, i = ItemOf(j), Contested(i)'
        PROVE  Live(j)' \/ NotedFailed(i, j)'
    <3>1. i # w /\ status[i] = "generating" /\ Contested(i) /\ msg.job # j
      BY <1>1, <1>3, <1>4, <2>1 DEF Contested, Failing
    <3>2. Live(j) \/ NotedFailed(i, j)
      BY <2>1, <3>1 DEF BackingInv, EveryJobCounts
    <3>3. Live(j) => Live(j)'
      BY <2>1, <3>1, ManagerKeeps DEF Manager
    <3>4. NotedFailed(i, j) => NotedFailed(i, j)'
      BY <1>3, <3>1 DEF NotedFailed, Hedged
    <3> QED BY <3>2, <3>3, <3>4
  <2> QED BY <1>2, <1>3, <2>1, CountsIf
<1>6. HasJob'
  BY <1>3, <1>4 DEF BackingInv, HasJob
<1>7. RecordsFit'
  BY <1>3 DEF BackingInv, RecordsFit, Hedged, NoHedge, NoJob
<1> QED BY <1>5, <1>6, <1>7 DEF BackingInv

\* An item that leaves the queue has no jobs yet.
LEMMA MarkBacked == ASSUME Inv, BackingInv, MarkGenerating PROVE BackingInv'
<1>1. PICK w \in Items : w = plan.item
  BY InHand DEF MarkGenerating
<1>2. /\ mgr = "mark" /\ mgr' = "push" /\ plan' = plan /\ status[w] = "queued"
      /\ status' = [status EXCEPT ![w] = "generating"]
      /\ UNCHANGED <<jobs, hedge>>
  BY <1>1 DEF MarkGenerating, GoTo, redisVars, Inv, Standing
<1>3. status \in [Items -> Status] /\ \A j \in JobIds : ItemOf(j) \in Items
  BY InHand
<1>4. JobIds' = JobIds /\ Pushed' = Pushed /\ \A j : ItemOf(j)' = ItemOf(j)
  BY <1>2, JobsKept
<1>5. EveryJobCounts'
  <2>1. ASSUME NEW j \in JobIds, NEW i \in Items, i = ItemOf(j), Contested(i)'
        PROVE  Live(j)' \/ NotedFailed(i, j)'
    <3>1. i # w /\ status[i] = "generating" /\ Contested(i)
      BY <1>2, <1>3, <2>1 DEF Inv, Standing, Contested, Failing
    <3>2. Live(j) \/ NotedFailed(i, j)
      BY <2>1, <3>1 DEF BackingInv, EveryJobCounts
    <3>3. Live(j) => Live(j)'
      BY <1>2, <2>1, <3>1, ManagerKeeps DEF Manager
    <3>4. NotedFailed(i, j) => NotedFailed(i, j)'
      BY <1>2 DEF NotedFailed, Hedged
    <3> QED BY <3>2, <3>3, <3>4
  <2> QED BY <1>2, <1>3, <2>1, CountsIf
<1>6. HasJob'
  BY <1>1, <1>2, <1>3, <1>4 DEF BackingInv, HasJob
<1>7. RecordsFit'
  <2>1. ~Hedged(w)
    BY <1>2 DEF Hedged, Inv, TypeOK, HedgeRecords, SomeJob, HedgesOfItem, Standing
  <2> QED BY <1>1, <1>2, <2>1 DEF BackingInv, RecordsFit, Hedged
<1> QED BY <1>5, <1>6, <1>7 DEF BackingInv

\* A job that was just pushed is on a list that is served.
LEMMA PushedIsLive ==
  ASSUME Inv, AllServed, NEW w \in Items, NEW s \in Sources, Push(w, s), disabled' = disabled,
         NEW n, n = Len(jobs) + 1
  PROVE  Live(n)'
<1>1. /\ pending \in [Queues -> Seq(JobIds)] /\ Len(jobs) \in Nat /\ s \in Queues /\ disabled = {}
  <2>1. Len(jobs) \in Nat
    BY LenProperties DEF Inv, TypeOK
  <2>2. pending \in [Queues -> Seq(JobIds)] /\ s \in Queues
    BY DEF Inv, TypeOK, Queues
  <2> QED BY <2>1, <2>2 DEF AllServed
<1>2. pending' = [pending EXCEPT ![s] = Append(pending[s], Len(jobs) + 1)]
  BY DEF Push
<1>3. pending[s] \in Seq(Nat) /\ Len(jobs) + 1 \in Nat
  <2>1. JobIds \subseteq Nat
    BY DEF JobIds
  <2> HIDE DEF JobIds, Queues
  <2>2. pending[s] \in Seq(JobIds)
    BY <1>1
  <2>3. pending[s] \in Seq(Nat)
    BY <2>1, <2>2, SeqMonotonic
  <2>4. Len(jobs) + 1 \in Nat
    BY <1>1
  <2> QED BY <2>3, <2>4
<1>4. Contains(Append(pending[s], Len(jobs) + 1), Len(jobs) + 1)
  BY <1>3, AppendHolds
<1>5. Contains(pending'[s], n)
  BY <1>1, <1>2, <1>4
<1>6. s \in Sources \ disabled'
  BY <1>1
<1> QED BY <1>5, <1>6 DEF Live

\* A push adds a live job and nothing else.
LEMMA CountsAfterPush ==
  ASSUME Inv, AllServed, BackingInv, Manager, mgr \notin {"apply", "fail"},
         NEW w \in Items, NEW s \in Sources, Push(w, s), UNCHANGED <<status, hedge, disabled>>
  PROVE  EveryJobCounts'
<1>1. /\ JobIds' = JobIds \union {Len(jobs) + 1} /\ \A j \in JobIds : ItemOf(j)' = ItemOf(j)
  <2>1. /\ Len(jobs') = Len(jobs) + 1 /\ JobIds' = JobIds \union {Len(jobs')}
        /\ \A j \in JobIds : ItemOf(j)' = ItemOf(j)
    BY PushGrows DEF Inv
  <2> QED BY <2>1
<1>2. \A j \in JobIds : ItemOf(j) \in Items
  BY InHand
<1>3. ASSUME NEW j \in JobIds', Contested(ItemOf(j))'
      PROVE  Live(j)' \/ NotedFailed(ItemOf(j), j)'
  <2>1. CASE j = Len(jobs) + 1
    BY <2>1, PushedIsLive
  <2>2. CASE j \in JobIds
    <3>1. ItemOf(j)' = ItemOf(j) /\ status[ItemOf(j)] = "generating" /\ Contested(ItemOf(j))
      BY <1>1, <1>3, <2>2 DEF Contested, Failing
    <3>2. Live(j) \/ NotedFailed(ItemOf(j), j)
      BY <2>2, <3>1 DEF BackingInv, EveryJobCounts
    <3>3. Live(j) => Live(j)'
      BY <2>2, <3>1, ManagerKeeps
    <3>4. NotedFailed(ItemOf(j), j) => NotedFailed(ItemOf(j), j)'
      BY <3>1 DEF NotedFailed, Hedged
    <3> QED BY <3>2, <3>3, <3>4
  <2> HIDE DEF JobIds
  <2> QED BY <1>1, <1>3, <2>1, <2>2
<1> QED BY <1>3 DEF EveryJobCounts

LEMMA PushBacked ==
  ASSUME Inv, AllServed, BackingInv, PushPrimary \/ \E i \in Items : FireHedge(i)
  PROVE  BackingInv'
<1>1. PICK w \in Items, s \in Sources :
        /\ Push(w, s) /\ UNCHANGED <<status, hedge, disabled>> /\ mgr \notin {"apply", "fail"}
        /\ mgr = "push" => plan.item = w
        /\ mgr' # "push"
        /\ mgr' = "save" => plan'.item = w /\ Hedged(w) /\ hedge[w].backup = NoJob
        /\ mgr' = "remember" => plan'.item = w /\ ~Hedged(w)
  <2>1. CASE PushPrimary
    <3>1. plan.item \in Items /\ plan.source \in Sources
      BY <2>1 DEF PushPrimary, Inv, Carried
    <3>2. /\ Push(plan.item, plan.source) /\ UNCHANGED <<status, hedge, disabled>> /\ mgr \notin {"apply", "fail"}
          /\ mgr' \notin {"push", "save"} /\ (mgr' = "remember" => plan' = plan) /\ mgr = "push"
      BY <2>1 DEF PushPrimary, GoTo, Finished, storeVars, workerVars
    <3>3. ~Hedged(plan.item)
      BY <3>2 DEF BackingInv, RecordsFit
    <3> QED BY <3>1, <3>2, <3>3
  <2>2. CASE \E i \in Items : FireHedge(i)
    <3>1. PICK i \in Items : FireHedge(i)
      BY <2>2
    <3>2. hedge[i].backupSource \in Sources
      BY <3>1 DEF FireHedge, DueToFire, Hedged, Inv, HedgesOfItem
    <3>3. /\ Push(i, hedge[i].backupSource) /\ UNCHANGED <<status, hedge, disabled>> /\ mgr = "poll"
          /\ mgr' = "save" /\ plan'.item = i /\ Hedged(i) /\ hedge[i].backup = NoJob
      BY <3>1 DEF FireHedge, Drained, DueToFire, GoTo, storeVars, workerVars
    <3> QED BY <3>2, <3>3
  <2> QED BY <2>1, <2>2
<1>2. /\ JobIds' = JobIds \union {Pushed'} /\ ItemOf(Pushed)' = w
      /\ \A j \in JobIds : ItemOf(j)' = ItemOf(j)
  BY <1>1, PushRaces
<1>3. Pushed' \notin JobIds /\ Pushed' # NoJob
  <2>1. Len(jobs') = Len(jobs) + 1 /\ Len(jobs) \in Nat
    BY <1>1, PushGrows DEF Inv
  <2> QED BY <2>1 DEF Pushed, JobIds, NoJob
<1>4. EveryJobCounts'
  BY <1>1, CountsAfterPush DEF Manager
<1> HIDE DEF JobIds
<1>5. HasJob'
  <2>1. ASSUME NEW i \in Items, status[i] = "generating" PROVE \E j \in JobIds' : ItemOf(j)' = i
    <3>1. CASE i = w
      BY <1>2, <3>1
    <3>2. CASE i # w
      <4>1. PICK j \in JobIds : ItemOf(j) = i
        BY <1>1, <2>1, <3>2 DEF BackingInv, HasJob
      <4> QED BY <1>2, <4>1
    <3> QED BY <3>1, <3>2
  <2> QED BY <1>1, <2>1 DEF HasJob
<1>6. RecordsFit'
  <2>1. hedge[w].primary \in JobIds \union {NoJob}
    BY DEF Inv, TypeOK, HedgeRecords, SomeJob
  <2>2. hedge[w].primary # Pushed'
    BY <1>3, <2>1
  <2> QED BY <1>1, <2>2 DEF BackingInv, RecordsFit, Hedged
<1> QED BY <1>4, <1>5, <1>6 DEF BackingInv

\* Writing the record takes no failure back.
LEMMA WriteBacked ==
  ASSUME Inv, BackingInv, SaveHedge \/ RememberHedge
  PROVE  BackingInv'
<1>1. PICK w \in Items : w = plan.item /\ Pushed \in JobIds /\ ItemOf(Pushed) = w
  BY InHand DEF SaveHedge, RememberHedge
<1>2. /\ mgr \in {"save", "remember"} /\ mgr' = "poll" /\ UNCHANGED <<status, jobs>>
  BY <1>1 DEF SaveHedge, RememberHedge, Finished, storeVars
<1>3. /\ hedge \in [Items -> HedgeRecords] /\ Pushed # NoJob
      /\ \A j \in JobIds : ItemOf(j) \in Items /\ j # NoJob
  BY <1>1, InHand
<1>4. JobIds' = JobIds /\ Pushed' = Pushed /\ \A j : ItemOf(j)' = ItemOf(j)
  BY <1>2, JobsKept
<1>5. \A i \in Items : i # w => hedge'[i] = hedge[i]
  BY <1>1, <1>3 DEF SaveHedge, RememberHedge
<1>6. /\ \A j \in JobIds : NotedFailed(w, j) => NotedFailed(w, j)'
      /\ ~(hedge'[w].primaryFailed /\ hedge'[w].backupFailed)
      /\ hedge'[w].backupFailed => hedge'[w].backup # NoJob
      /\ hedge'[w].primary # hedge'[w].backup
  <2>1. CASE SaveHedge
    <3>1. /\ Hedged(w) /\ hedge[w].backup = NoJob /\ hedge[w].primary # Pushed
          /\ hedge'[w] = [hedge[w] EXCEPT !.backup = Pushed]
      BY <1>1, <1>3, <2>1 DEF SaveHedge, BackingInv, RecordsFit
    <3>2. /\ hedge'[w].primary = hedge[w].primary /\ hedge'[w].backup = Pushed
          /\ hedge'[w].primaryFailed = hedge[w].primaryFailed
          /\ hedge'[w].backupFailed = hedge[w].backupFailed
      BY <1>3, <3>1 DEF HedgeRecords
    <3> QED BY <1>3, <3>1, <3>2 DEF BackingInv, RecordsFit, NotedFailed, Hedged
  <2>2. CASE RememberHedge
    <3>1. ~Hedged(w)
      BY <1>1, <2>2 DEF RememberHedge, BackingInv, RecordsFit
    <3>2. /\ hedge'[w].primary = Pushed /\ hedge'[w].backup = NoJob
          /\ ~hedge'[w].primaryFailed /\ ~hedge'[w].backupFailed
      BY <1>1, <1>3, <2>2 DEF RememberHedge, NoHedge
    <3> QED BY <1>3, <3>1, <3>2 DEF NotedFailed
  <2> QED BY <2>1, <2>2
<1>7. EveryJobCounts'
  <2>1. ASSUME NEW j \in JobIds, NEW i \in Items, i = ItemOf(j), Contested(i)'
        PROVE  Live(j)' \/ NotedFailed(i, j)'
    <3>1. status[i] = "generating" /\ (Live(j) \/ NotedFailed(i, j))
      BY <1>2, <2>1 DEF BackingInv, EveryJobCounts, Contested, Failing
    <3>2. Live(j) => Live(j)'
      BY <1>2, <2>1, <3>1, ManagerKeeps DEF Manager
    <3>3. NotedFailed(i, j) => NotedFailed(i, j)'
      <4>1. CASE i = w
        BY <1>6, <2>1, <4>1
      <4>2. CASE i # w
        BY <1>5, <4>2 DEF NotedFailed, Hedged
      <4> QED BY <4>1, <4>2
    <3> QED BY <3>1, <3>2, <3>3
  <2> QED BY <1>2, <1>3, <2>1, CountsIf
<1>8. HasJob'
  BY <1>2, <1>4 DEF BackingInv, HasJob
<1>9. RecordsFit'
  BY <1>2, <1>5, <1>6 DEF BackingInv, RecordsFit, Hedged
<1> QED BY <1>7, <1>8, <1>9 DEF BackingInv

\* Between two writes the manager may stop, unless it is the only one to know of a
\* failure or of an item it has just marked.
LEMMA FaultBacked ==
  ASSUME Inv, BackingInv, ManagerFault, mgr \notin {"apply", "fail", "push"}
  PROVE  BackingInv'
<1>1. mgr' = "poll" /\ UNCHANGED <<status, jobs, pending, inProgress, completed, hedge, worker, reaper, disabled>>
  BY DEF ManagerFault, Finished, storeVars, redisVars, workerVars, reaperVars
<1>2. /\ JobIds' = JobIds /\ Pushed' = Pushed /\ \A j : ItemOf(j)' = ItemOf(j)
      /\ \A j : PendingListFor(j)' = PendingListFor(j)
  BY <1>1, JobsKept, SourcesKept
<1>3. \A j : Live(j) => Live(j)'
  BY <1>1, <1>2 DEF Live
<1>4. \A i \in Items : Hedged(i)' <=> Hedged(i)
  BY <1>1 DEF Hedged
<1>5. EveryJobCounts'
  <2>1. \A i \in Items : Contested(i)' => Contested(i)
    BY <1>1 DEF Contested, Failing
  <2>2. \A i \in Items : \A j : NotedFailed(i, j)' <=> NotedFailed(i, j)
    BY <1>1 DEF NotedFailed, Hedged
  <2> QED BY <1>1, <1>3, <2>1, <2>2, CountsIf DEF BackingInv, EveryJobCounts
<1>6. HasJob'
  BY <1>1, <1>2 DEF BackingInv, HasJob
<1>7. RecordsFit'
  BY <1>1, <1>2, <1>4 DEF BackingInv, RecordsFit
<1> QED BY <1>5, <1>6, <1>7 DEF BackingInv

-----------------------------------------------------------------------------
(* The theorem *)

LEMMA BackingInit == Init => BackingInv
<1> SUFFICES ASSUME Init PROVE BackingInv
  OBVIOUS
<1>1. JobIds = {}
  BY DEF Init, JobIds
<1>2. \A i \in Items : status[i] # "generating" /\ ~Hedged(i)
  BY DEF Init, Hedged, NoHedge
<1> QED BY <1>1, <1>2 DEF Init, BackingInv, EveryJobCounts, HasJob, RecordsFit

LEMMA BackingStep ==
  ASSUME Inv, Inv', Routed, AllServed, BackingInv, [Next]_vars, [~LosingStep]_vars
  PROVE  BackingInv'
<1>1. CASE Next /\ ~LosingStep
  <2>1. CASE ManagerFault
    BY <1>1, <2>1, FaultBacked DEF LosingStep
  <2>2. CASE Manager
    BY <2>2, QuietBacked, SideBacked, SettledBacked, MarkBacked, PushBacked, WriteBacked DEF Manager
  <2> QED BY <1>1, <2>1, <2>2, OthersBacked DEF Next
<1>2. CASE UNCHANGED vars
  <2>1. /\ JobIds' = JobIds /\ Pushed' = Pushed /\ \A j : ItemOf(j)' = ItemOf(j)
        /\ \A j : PendingListFor(j)' = PendingListFor(j)
    BY <1>2, JobsKept, SourcesKept DEF vars
  <2>2. \A j : Live(j)' <=> Live(j)
    BY <1>2, <2>1 DEF vars, Live
  <2>3. \A j \in JobIds : NotedFailed(ItemOf(j), j)' <=> NotedFailed(ItemOf(j), j)
    BY <1>2, <2>1 DEF vars, NotedFailed, Hedged
  <2>4. EveryJobCounts'
    BY <1>2, <2>1, <2>2, <2>3 DEF vars, BackingInv, EveryJobCounts, Contested, Failing
  <2>5. HasJob' /\ RecordsFit'
    BY <1>2, <2>1 DEF vars, BackingInv, HasJob, RecordsFit, Hedged
  <2> QED BY <2>4, <2>5 DEF BackingInv
<1> QED BY <1>1, <1>2

\* With one side failed the other is live, or has yet to start.
LEMMA Backed == Inv /\ BackingInv => GeneratingIsBacked
<1> SUFFICES ASSUME Inv, BackingInv, NEW i \in Items, status[i] = "generating"
             PROVE  \/ \E j \in JobIds : ItemOf(j) = i /\ Live(j)
                    \/ Hedged(i) /\ Unfired(hedge[i])
                    \/ mgr = "push" /\ plan.item = i
  BY DEF GeneratingIsBacked
<1>1. hedge[i] \in HedgeRecords
  BY DEF Inv, TypeOK
<1>2. CASE mgr = "push" /\ plan.item = i
  BY <1>2
<1>3. CASE Failing(i)
  BY <1>3, InHand DEF Failing, Live
<1>4. CASE ~(mgr = "push" /\ plan.item = i) /\ ~Failing(i)
  <2>1. PICK j \in JobIds : ItemOf(j) = i
    BY <1>4 DEF BackingInv, HasJob
  <2>2. Live(j) \/ NotedFailed(i, j)
    BY <1>4, <2>1 DEF BackingInv, EveryJobCounts, Contested
  <2>3. ASSUME NotedFailed(i, j)
        PROVE  (\E k \in JobIds : ItemOf(k) = i /\ Live(k)) \/ (Hedged(i) /\ Unfired(hedge[i]))
    <3>1. /\ Hedged(i) /\ hedge[i].backupSource # None
          /\ hedge[i].primary \in JobIds /\ ItemOf(hedge[i].primary) = i
          /\ hedge[i].backup # NoJob => hedge[i].backup \in JobIds /\ ItemOf(hedge[i].backup) = i
      BY <1>1, <2>3, NamesAreDistinct DEF NotedFailed, Hedged, Inv, HedgesOfItem, HedgeRecords, SomeJob
    <3>2. /\ ~(hedge[i].primaryFailed /\ hedge[i].backupFailed)
          /\ hedge[i].primary # hedge[i].backup
      BY <3>1 DEF BackingInv, RecordsFit
    <3>3. \A k \in JobIds : ItemOf(k) = i => Live(k) \/ NotedFailed(i, k)
      BY <1>4 DEF BackingInv, EveryJobCounts, Contested
    <3>4. CASE ~hedge[i].primaryFailed
      BY <3>1, <3>2, <3>3, <3>4 DEF NotedFailed
    <3>5. CASE ~hedge[i].backupFailed /\ hedge[i].backup = NoJob
      BY <3>1, <3>5 DEF Unfired
    <3>6. CASE ~hedge[i].backupFailed /\ hedge[i].backup # NoJob
      BY <3>1, <3>2, <3>3, <3>6 DEF NotedFailed
    <3> QED BY <3>2, <3>4, <3>5, <3>6
  <2> QED BY <2>1, <2>2, <2>3
<1> QED BY <1>2, <1>3, <1>4

\* An item in generation has a job that somebody will act on, or a backup to come, as
\* long as no losing step is taken (GeneratingIsBacked): these steps are the only ways
\* to forget it, in every mode, with crashes of workers before their ack and leases that
\* end too soon.
THEOREM OnlyLossesForget == Spec /\ [][~LosingStep]_vars => []GeneratingIsBacked
<1>1. Init => BackingInv /\ AllServed
  BY BackingInit DEF Init, AllServed
<1>2. Inv /\ AllServed /\ [Next]_vars /\ [~LosingStep]_vars => AllServed'
  BY AllServedStep
<1>3. Inv /\ Inv' /\ Routed /\ AllServed /\ BackingInv /\ [Next]_vars /\ [~LosingStep]_vars
        => BackingInv'
  BY BackingStep
<1>4. Inv /\ BackingInv => GeneratingIsBacked
  BY Backed
<1>5. Spec => [](Inv /\ Routed)
  BY Invariance
<1> QED BY <1>1, <1>2, <1>3, <1>4, <1>5, PTL DEF Spec

-----------------------------------------------------------------------------
(* Stations without a paid source in play *)

NoPaidSource == Mode = "local_only" \/ Providers = {}

AllLocal ==
  /\ \A j \in JobIds : SourceOf(j) \in Locals
  /\ {plan.source, plan.backup} \subseteq Locals \union {None}
  /\ \A i \in Items : hedge[i].backupSource \in Locals \union {None}

LEMMA LocalChoices ==
  ASSUME NoPaidSource, NEW a \in Assignable
  PROVE  a[1] \in Locals /\ a[2] \in Locals \union {None}
BY SettingsAreValid DEF NoPaidSource, Assignable

LEMMA PushedSource ==
  ASSUME Inv, AllLocal, NEW w \in Items, NEW s \in Locals, Push(w, s)
  PROVE  \A j \in JobIds' : SourceOf(j)' \in Locals
<1>1. jobs \in Seq([item : Items, source : Sources]) /\ Payload(w, s) \in [item : Items, source : Sources]
  BY DEF Inv, TypeOK, Payload, Sources
<1>2. jobs' = Append(jobs, Payload(w, s)) /\ Payload(w, s).source = s
  BY DEF Push, Payload
<1> HIDE DEF Payload
<1>3. /\ Len(jobs) \in Nat /\ Len(jobs') = Len(jobs) + 1
      /\ \A j \in 1..Len(jobs) : jobs'[j] = jobs[j]
      /\ jobs'[Len(jobs) + 1] = Payload(w, s)
  BY <1>1, <1>2, AppendProperties, LenProperties
<1>4. \A j \in 1..(Len(jobs) + 1) : j \in 1..Len(jobs) \/ j = Len(jobs) + 1
  BY <1>3
<1> QED BY <1>2, <1>3, <1>4 DEF AllLocal, SourceOf, JobIds

\* Without a paid source no job, plan or backup ever names one.
LEMMA AllLocalStep ==
  ASSUME NoPaidSource, Inv, AllLocal, [Next]_vars
  PROVE  AllLocal'
<1>1. /\ hedge \in [Items -> HedgeRecords] /\ None \notin Sources
      /\ mgr \in {"save", "remember", "push"} => plan.item \in Items /\ plan.source \in Sources
      /\ mgr = "remember" => plan.backup \in Sources
      /\ \A i \in Items : Hedged(i) => hedge[i].backupSource \in Sources
  BY NamesAreDistinct DEF Inv, TypeOK, Carried, HedgesOfItem, Hedged
<1>2. ASSUME UNCHANGED <<jobs, hedge>>, plan' = plan \/ plan' = NoPlan PROVE AllLocal'
  BY <1>2 DEF AllLocal, NoPlan, SourceOf, JobIds
<1>3. CASE PopCompleted \/ ApplyWin \/ ApplyLate \/ MarkFailed \/ RecordTrack \/ ReleaseHedge
             \/ MarkGenerating \/ ManagerFault
  BY <1>2, <1>3 DEF PopCompleted, ApplyWin, ApplyLate, MarkFailed, RecordTrack, ReleaseHedge,
                    MarkGenerating, ManagerFault, Finished, redisVars
<1>4. CASE StoreUsers \/ Reaper \/ ReaperFault \/ UNCHANGED vars
             \/ \E p \in Processes : WorkerStep(p) \/ WorkerFault(p) \/ StatsFault(p)
  BY <1>2, <1>4 DEF vars, redisVars, mgrVars, StoreUsers, Enqueue, ClaimNextReady, MarkPlayed,
                    ReleaseToReady, RequeueInterrupted, Reaper, FindOrphan, RemoveOrphan,
                    RequeueOrphan, ReaperFault, WorkerStep, Claim, SkipCancelled, StartGenerating,
                    Acknowledge, PushCompleted, WorkerFault, StatsFault
<1>5. ASSUME NEW i \in Items, ChooseSource(i) PROVE AllLocal'
  <2>1. PICK a \in Assignable : plan' = [item |-> i, source |-> a[1], backup |-> a[2]]
    BY <1>5 DEF ChooseSource
  <2>2. plan'.source \in Locals /\ plan'.backup \in Locals \union {None}
    BY <2>1, LocalChoices
  <2> QED BY <1>5, <2>2 DEF ChooseSource, AllLocal, SourceOf, JobIds, redisVars
<1>6. ASSUME UNCHANGED jobs, plan' \in {plan, NoPlan},
             \A i \in Items : hedge'[i].backupSource \in {hedge[i].backupSource, plan.backup, None}
      PROVE  AllLocal'
  BY <1>6 DEF AllLocal, NoPlan, SourceOf, JobIds
<1>7. CASE ApplySideFailed \/ ApplyFailed \/ ForgetHedge \/ SaveHedge \/ RememberHedge \/ Clock
  <2>1. UNCHANGED jobs /\ plan' \in {plan, NoPlan}
    BY <1>7 DEF ApplySideFailed, ApplyFailed, ForgetHedge, SaveHedge, RememberHedge, Clock,
                HedgeFallsDue, Finished, GoTo, mgrVars
  <2>2. ASSUME NEW i \in Items
        PROVE  hedge'[i].backupSource \in {hedge[i].backupSource, plan.backup, None}
    <3>1. CASE ApplySideFailed
      <4>1. hedge' = [hedge EXCEPT ![ItemOf(msg.job)] = SideFailed(hedge[ItemOf(msg.job)], msg.job)]
        BY <3>1 DEF ApplySideFailed
      <4>2. \A h \in HedgeRecords : \A j : SideFailed(h, j).backupSource = h.backupSource
        BY DEF SideFailed, HedgeRecords
      <4> QED BY <1>1, <4>1, <4>2
    <3>2. CASE ApplyFailed \/ ForgetHedge
      BY <1>1, <3>2 DEF ApplyFailed, ForgetHedge, NoHedge
    <3>3. CASE SaveHedge
      BY <1>1, <3>3 DEF SaveHedge, HedgeRecords
    <3>4. CASE RememberHedge
      BY <1>1, <3>4 DEF RememberHedge, NoHedge
    <3>5. CASE Clock
      BY <1>1, <3>5 DEF Clock, HedgeFallsDue, HedgeRecords
    <3> QED BY <1>7, <3>1, <3>2, <3>3, <3>4, <3>5
  <2> QED BY <1>6, <2>1, <2>2
<1>8. CASE PushPrimary
  <2>1. plan.source \in Locals /\ plan.item \in Items
    BY <1>1, <1>8 DEF PushPrimary, AllLocal
  <2>2. \A j \in JobIds' : SourceOf(j)' \in Locals
    BY <1>8, <2>1, PushedSource DEF PushPrimary
  <2>3. UNCHANGED hedge /\ plan' \in {plan, NoPlan}
    BY <1>8 DEF PushPrimary, Finished
  <2> QED BY <2>2, <2>3 DEF AllLocal, NoPlan
<1>9. ASSUME NEW i \in Items, FireHedge(i) PROVE AllLocal'
  <2>1. hedge[i].backupSource \in Locals
    BY <1>1, <1>9 DEF FireHedge, DueToFire, AllLocal
  <2>2. \A j \in JobIds' : SourceOf(j)' \in Locals
    BY <1>9, <2>1, PushedSource DEF FireHedge
  <2>3. UNCHANGED hedge /\ plan'.source = hedge[i].backupSource /\ plan'.backup = None
    BY <1>9 DEF FireHedge
  <2> QED BY <2>1, <2>2, <2>3 DEF AllLocal
<1> QED BY <1>3, <1>4, <1>5, <1>7, <1>8, <1>9 DEF Next, Manager

LEMMA AllLocalInit == Init => AllLocal
BY DEF Init, AllLocal, JobIds, NoPlan, NoHedge

LEMMA ServedStep ==
  ASSUME Inv, AllLocal, RequeuedJobIsServed, [Next]_vars
  PROVE  RequeuedJobIsServed'
<1>1. pending \in [Queues -> Seq(JobIds)] /\ Shared \in Queues /\ Shared \notin Sources
      /\ pending[Shared] = <<>>
  BY NamesAreDistinct DEF Inv, TypeOK, Queues, RequeuedJobIsServed
<1>2. ASSUME NEW i, NEW s \in Sources, Push(i, s) PROVE RequeuedJobIsServed'
  BY <1>1, <1>2 DEF Push, RequeuedJobIsServed
<1>3. CASE PushPrimary
  BY <1>2, <1>3 DEF PushPrimary, Inv, Carried
<1>4. ASSUME NEW i \in Items, FireHedge(i) PROVE RequeuedJobIsServed'
  BY <1>2, <1>4 DEF FireHedge, DueToFire, Hedged, Inv, HedgesOfItem
<1>5. CASE ReleaseHedge
  <2>1. \/ pending'[Shared] = <<>>
        \/ \E c : pending'[Shared] = RemoveFirst(<<>>, c)
    BY <1>1, <1>5 DEF ReleaseHedge
  <2>2. \A c : RemoveFirst(<<>>, c) = <<>>
    BY DEF RemoveFirst
  <2> QED BY <2>1, <2>2 DEF RequeuedJobIsServed
<1>6. ASSUME NEW p \in Processes, NEW s \in Sources, Claim(p, s) PROVE RequeuedJobIsServed'
  BY <1>1, <1>6 DEF Claim, RequeuedJobIsServed
<1>7. CASE RequeueOrphan
  <2>1. SourceOf(reaper.job) \in Locals
    BY <1>7 DEF RequeueOrphan, Inv, TypeOK, Carried, SomeJob, AllLocal
  <2> QED BY <1>1, <1>7, <2>1 DEF RequeueOrphan, PendingListFor, Sources, RequeuedJobIsServed
<1>8. ASSUME pending' = pending PROVE RequeuedJobIsServed'
  BY <1>8 DEF RequeuedJobIsServed
<1>9. CASE StoreUsers \/ ManagerFault \/ Clock \/ ReaperFault \/ RemoveOrphan \/ UNCHANGED vars
             \/ \E j \in ToSet(inProgress) : FindOrphan(j)
  BY <1>8, <1>9 DEF vars, redisVars, StoreUsers, Enqueue, ClaimNextReady, MarkPlayed, ReleaseToReady,
                    RequeueInterrupted, ManagerFault, Clock, HedgeFallsDue, ReaperFault,
                    RemoveOrphan, FindOrphan
<1>10. CASE PopCompleted \/ ApplyWin \/ ApplyLate \/ ApplySideFailed \/ ApplyFailed \/ MarkFailed
              \/ RecordTrack \/ ForgetHedge \/ SaveHedge \/ MarkGenerating \/ RememberHedge \/ \E i \in Items : ChooseSource(i)
  BY <1>8, <1>10 DEF PopCompleted, ApplyWin, ApplyLate, ApplySideFailed, ApplyFailed, MarkFailed,
                     RecordTrack, ForgetHedge, SaveHedge, ChooseSource, MarkGenerating, RememberHedge, redisVars
<1>11. ASSUME NEW p \in Processes,
              \/ SkipCancelled(p) \/ StartGenerating(p) \/ PushCompleted(p)
              \/ \E outcome \in Outcomes : Acknowledge(p, outcome)
              \/ WorkerFault(p) \/ StatsFault(p)
       PROVE  RequeuedJobIsServed'
  BY <1>8, <1>11 DEF SkipCancelled, StartGenerating, PushCompleted, Acknowledge, WorkerFault,
                     StatsFault, redisVars
<1> QED BY <1>3, <1>4, <1>5, <1>6, <1>7, <1>9, <1>10, <1>11 DEF Next, Manager, Reaper, WorkerStep

\* Where no paid source is in play, a job the reaper returns never lands on the list
\* without a reader (RequeuedJobIsServed): what worker/README.md says of an orphaned job
\* is true there, and false, as a run shows, of a provider's.
THEOREM LocalJobsAreServed ==
  ASSUME NoPaidSource
  PROVE  Spec => []RequeuedJobIsServed
<1>1. Init => RequeuedJobIsServed
  BY DEF Init, RequeuedJobIsServed, Queues
<1>2. Inv /\ AllLocal /\ [Next]_vars => AllLocal'
  BY AllLocalStep
<1>3. Inv /\ AllLocal /\ RequeuedJobIsServed /\ [Next]_vars => RequeuedJobIsServed'
  BY ServedStep
<1>4. Spec => []Inv
  BY Invariance, PTL
<1> QED BY <1>1, <1>2, <1>3, <1>4, AllLocalInit, PTL DEF Spec

-----------------------------------------------------------------------------
(* When no losing step can be taken *)

\* With a paid source in play a job must not be orphaned at all; without one, it may.
NothingIsLost ==
  /\ ManagerFaultPoints \intersect {"apply", "fail", "push"} = {} /\ "requeue" \notin ReaperFaultPoints
  /\ "acked" \notin WorkerFaultPoints
  /\ ~NoPaidSource => WorkerFaultPoints = {} /\ MaxLapses = 0 /\ "quota" \notin Outcomes

\* The reaper has nothing to do: every job in progress is with its worker.
NoOrphans == reaper.pc = "scan" /\ \A j \in JobIds : Contains(inProgress, j) => Held(j)

Undisturbed == IF NoPaidSource THEN AllLocal ELSE NoOrphans

LEMMA OrphansStep ==
  ASSUME WorkerFaultPoints = {}, MaxLapses = 0, Inv, OnePlace, NoOrphans, [Next]_vars
  PROVE  NoOrphans'
<1>1. /\ pending \in [Queues -> Seq(JobIds)] /\ inProgress \in Seq(JobIds)
      /\ worker \in [Processes -> [pc : {"idle", "claimed", "running", "acked"},
                                  job : SomeJob, ok : BOOLEAN]]
      /\ lapses \in Nat
  BY DEF Inv, TypeOK
<1>2. ~Reaper
  <2>1. ASSUME NEW j \in ToSet(inProgress) PROVE ~FindOrphan(j)
    <3>1. Contains(inProgress, j) => Held(j)
      <4>1. ToSet(inProgress) \subseteq JobIds
        <5> HIDE DEF JobIds
        <5> QED BY <1>1, LenProperties, ElementOfSeq DEF ToSet
      <4>2. Contains(inProgress, j)
        BY <2>1, <1>1, LenProperties DEF ToSet, Contains
      <4> QED BY <4>1, <4>2 DEF NoOrphans
    <3>2. ~(lapses < MaxLapses)
      BY <1>1
    <3> QED BY <3>1, <3>2 DEF FindOrphan
  <2> QED BY <2>1 DEF NoOrphans, Reaper, RemoveOrphan, RequeueOrphan
<1>3. CASE StoreUsers \/ Manager \/ ManagerFault \/ ReaperFault \/ Clock \/ UNCHANGED vars
  <2>1. UNCHANGED <<inProgress, worker>> /\ reaper'.pc = "scan"
    BY <1>3 DEF NoOrphans, Scan, vars, redisVars, workerVars, reaperVars, StoreUsers, Enqueue, ClaimNextReady, MarkPlayed,
                ReleaseToReady, RequeueInterrupted, Clock, HedgeFallsDue, Manager, PopCompleted,
                ApplyWin, ApplyLate, ApplySideFailed, ApplyFailed, MarkFailed, RecordTrack,
                ReleaseHedge, ForgetHedge, FireHedge, SaveHedge, ChooseSource, MarkGenerating, PushPrimary, RememberHedge,
                ManagerFault, ReaperFault
  <2>2. ASSUME NEW j, Contains(inProgress, j) PROVE j \in JobIds
    BY <1>1, <2>2, ElementOfSeq DEF Contains
  <2> QED BY <2>1, <2>2 DEF NoOrphans, Held
<1>4. ASSUME NEW p \in Processes, WorkerStep(p) \/ WorkerFault(p) \/ StatsFault(p) PROVE NoOrphans'
  <2>1. ~WorkerFault(p) /\ ~StatsFault(p)
    BY DEF WorkerFault, StatsFault
  <2>2. reaper' = reaper /\ JobIds' = JobIds
    BY <1>4, <2>1 DEF WorkerStep, Claim, SkipCancelled, StartGenerating, Acknowledge, PushCompleted,
                      reaperVars, JobIds
  <2> HIDE DEF JobIds, SomeJob, Queues, Sources, Processes
  <2> SUFFICES ASSUME NEW j \in JobIds, Contains(inProgress', j) PROVE Held(j)'
    BY <2>2 DEF NoOrphans
  <2>3. ASSUME NEW s \in Sources, Claim(p, s) PROVE Held(j)'
    <3>1. /\ worker[p].pc = "idle" /\ pending[s] \in Seq(JobIds) /\ pending[s] # <<>>
          /\ inProgress' = <<Last(pending[s])>> \o inProgress
          /\ worker'[p].pc = "claimed" /\ worker'[p].job = Last(pending[s])
          /\ \A q \in Processes : q # p => worker'[q] = worker[q]
      BY <1>1, <2>3 DEF Claim, Queues
    <3>2. Last(pending[s]) \in JobIds /\ Contains(pending[s], Last(pending[s]))
      BY <3>1, FrontPlaces
    <3>3. IsInjective(inProgress) /\ ~Contains(inProgress, Last(pending[s]))
      BY <3>2 DEF OnePlace, Queues
    <3>4. CASE Contains(inProgress, j)
      <4>1. PICK q \in Processes : worker[q].pc \in {"claimed", "running"} /\ worker[q].job = j
        BY <3>4 DEF NoOrphans, Held
      <4> QED BY <3>1, <4>1 DEF Held
    <3>5. CASE j = Last(pending[s])
      BY <3>1, <3>5 DEF Held
    <3> QED BY <1>1, <3>1, <3>2, <3>3, <3>4, <3>5, ConsPlaces
  <2>4. CASE SkipCancelled(p) \/ \E outcome \in Outcomes : Acknowledge(p, outcome)
    <3>1. /\ inProgress' = RemoveFirst(inProgress, worker[p].job)
          /\ \A q \in Processes : q # p => worker'[q] = worker[q]
      BY <1>1, <2>4 DEF SkipCancelled, Acknowledge, AckAndClear
    <3>2. Contains(inProgress, j) /\ j # worker[p].job
      BY <1>1, <3>1, RemovalPlaces DEF OnePlace
    <3>3. PICK q \in Processes : worker[q].pc \in {"claimed", "running"} /\ worker[q].job = j
      BY <3>2 DEF NoOrphans, Held
    <3> QED BY <3>1, <3>2, <3>3 DEF Held
  <2>5. CASE StartGenerating(p) \/ PushCompleted(p)
    <3>1. /\ inProgress' = inProgress
          /\ worker[p].pc # "acked" => worker'[p].pc = "running" /\ worker'[p].job = worker[p].job
          /\ \A q \in Processes : q # p => worker'[q] = worker[q]
      BY <1>1, <2>5 DEF StartGenerating, PushCompleted
    <3>2. PICK q \in Processes : worker[q].pc \in {"claimed", "running"} /\ worker[q].job = j
      BY <3>1 DEF NoOrphans, Held
    <3> QED BY <3>1, <3>2 DEF Held
  <2> QED BY <1>4, <2>1, <2>3, <2>4, <2>5 DEF WorkerStep
<1> QED BY <1>2, <1>3, <1>4 DEF Next

LEMMA NoLoss ==
  ASSUME NothingIsLost, Inv, Inv', Routed, Undisturbed, [Next]_vars
  PROVE  [~LosingStep]_vars
<1> SUFFICES ASSUME Next PROVE ~LosingStep \/ UNCHANGED vars
  OBVIOUS
<1>1. ~(ManagerFault /\ mgr \in {"apply", "fail", "push"}) /\ ~(ReaperFault /\ reaper.pc = "requeue")
  BY DEF ManagerFault, ReaperFault, NothingIsLost
<1>2. ~\E p \in Processes : WorkerFault(p) /\ worker[p].pc = "acked"
  BY DEF WorkerFault, NothingIsLost
<1>3. ~(RemoveOrphan /\ SourceOf(reaper.job) \in Providers)
  <2>1. CASE NoPaidSource /\ reaper.pc = "remove"
    <3>1. SourceOf(reaper.job) \in Locals
      BY <2>1 DEF Undisturbed, AllLocal, Inv, TypeOK, Carried, SomeJob
    <3> QED BY <3>1, NamesAreDistinct
  <2> QED BY <2>1 DEF RemoveOrphan, Undisturbed, NoOrphans
<1>4. disabled' \ disabled = {}
  <2>1. ASSUME NEW p \in Processes, Acknowledge(p, "quota"), "quota" \in Outcomes PROVE FALSE
    <3>1. NoPaidSource /\ p = ProviderWorker /\ worker[p].job \in JobIds /\ worker[p].pc # "idle"
      BY <2>1 DEF NothingIsLost, Acknowledge, Inv, TypeOK, Carried, SomeJob
    <3>2. SourceOf(worker[p].job) \in Providers
      BY <3>1 DEF Routed, Serves
    <3> QED BY <3>1, <3>2, NamesAreDistinct DEF Undisturbed, AllLocal
  <2>2. disabled' \subseteq disabled
    <3>1. CASE \E p \in Processes : WorkerStep(p) \/ WorkerFault(p) \/ StatsFault(p)
      BY <2>1, <3>1 DEF WorkerStep, Claim, SkipCancelled, StartGenerating, Acknowledge,
                        PushCompleted, WorkerFault, StatsFault
    <3>2. CASE StoreUsers \/ Manager \/ ManagerFault \/ Reaper \/ ReaperFault \/ Clock
      BY <3>2 DEF workerVars, StoreUsers, Enqueue, ClaimNextReady, MarkPlayed, ReleaseToReady,
                  RequeueInterrupted, Clock, HedgeFallsDue, Manager, PopCompleted, ApplyWin,
                  ApplyLate, ApplySideFailed, ApplyFailed, MarkFailed, RecordTrack, ReleaseHedge,
                  ForgetHedge, FireHedge, SaveHedge, ChooseSource, MarkGenerating, PushPrimary, RememberHedge, ManagerFault, Reaper,
                  FindOrphan, RemoveOrphan, RequeueOrphan, ReaperFault
    <3> QED BY <3>1, <3>2 DEF Next
  <2> QED BY <2>2
<1> QED BY <1>1, <1>2, <1>3, <1>4 DEF LosingStep

\* An item in generation always has a job that somebody will act on, or a backup to
\* come (GeneratingIsBacked).  Without a paid source this holds whatever the crashes
\* of workers before their ack, the leases that end too soon and the reaper's stops
\* before its LREM; with paid sources it holds while nothing fails.
THEOREM NothingForgotten ==
  ASSUME NothingIsLost
  PROVE  Spec => []GeneratingIsBacked
<1>1. Init => Undisturbed
  BY AllLocalInit DEF Init, Scan, Undisturbed, NoOrphans, JobIds
<1>2. Inv /\ OnePlace /\ Undisturbed /\ [Next]_vars => Undisturbed'
  <2>1. CASE NoPaidSource
    BY <2>1, AllLocalStep DEF Undisturbed
  <2>2. CASE ~NoPaidSource
    BY <2>2, OrphansStep DEF Undisturbed, NothingIsLost
  <2> QED BY <2>1, <2>2
<1>3. Inv /\ Inv' /\ Routed /\ Undisturbed /\ [Next]_vars => [~LosingStep]_vars
  BY NoLoss
<1>4. Spec => [](Inv /\ Routed)
  BY Invariance
<1>5. Spec => [][~LosingStep]_vars
  BY <1>1, <1>2, <1>3, <1>4, OnePlaceAtMost, PTL DEF Spec
<1> QED BY <1>5, OnlyLossesForget, PTL

=============================================================================
