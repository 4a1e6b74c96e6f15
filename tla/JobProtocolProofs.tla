-------------------------- MODULE JobProtocolProofs --------------------------
(***************************************************************************)
(* Proofs about JobProtocol, for every number of items, every set of       *)
(* sources and every choice of fault points: type correctness, two safety  *)
(* invariants, and that the protocol implements ItemLifecycle.             *)
(*                                                                         *)
(* The invariants are not inductive by themselves.  Inv adds what each     *)
(* process carries from one step to the next (Carried), whose jobs a hedge *)
(* record names (HedgesOfItem), and what the status of an item is at each  *)
(* step of the manager (Standing).  Routed, that a list and the worker     *)
(* that claims from it only hold jobs of its own source, is what keeps     *)
(* `disabled' a set of providers.                                          *)
(***************************************************************************)
EXTENDS JobProtocol, SequenceTheorems, WellFoundedInduction, TLAPS

\* A process that is between two steps has what its next step needs.
Carried ==
  /\ mgr \in {"apply", "fail", "track", "release", "forget"} => msg.job # NoJob
  /\ mgr \in {"save", "mark", "push", "remember"} => plan.item \in Items /\ plan.source \in Sources
  /\ mgr = "remember" => plan.backup \in Sources
  /\ mgr \in {"save", "remember"} => Pushed # NoJob /\ ItemOf(Pushed) = plan.item
  /\ \A p \in Processes : worker[p].pc # "idle" => worker[p].job # NoJob
  /\ reaper.pc # "scan" => reaper.job # NoJob

\* A hedge record names jobs of its own item only, and a source for its backup.
HedgesOfItem ==
  \A i \in Items :
    /\ hedge[i].primary # NoJob => /\ ItemOf(hedge[i].primary) = i
                                   /\ hedge[i].backupSource \in Sources
    /\ hedge[i].backup # NoJob => ItemOf(hedge[i].backup) = i

\* What the manager read of an item's status still holds when it acts on it, and
\* a job is only ever pushed for an item that has left the queue.
Standing ==
  /\ mgr = "track" => status[ItemOf(msg.job)] = "ready" /\ track[ItemOf(msg.job)] = NoJob
  /\ mgr \in {"release", "forget"} => Settled(ItemOf(msg.job))
  /\ mgr = "mark" => status[plan.item] = "queued"
  /\ mgr = "push" => status[plan.item] \notin {"absent", "queued"}
  /\ \A j \in JobIds : status[ItemOf(j)] \notin {"absent", "queued"}

\* The inductive invariant, together with Routed.
Inv ==
  /\ TypeOK /\ Carried /\ HedgesOfItem /\ Standing
  /\ CancelledOnlyWhenSettled /\ TrackMatchesStatus

\* A source's list, and a worker that serves the source, hold its jobs only.
Routed ==
  /\ \A s \in Sources : pending[s] \in Seq({j \in JobIds : SourceOf(j) = s})
  /\ \A p \in Processes : worker[p].pc # "idle" => SourceOf(worker[p].job) \in Serves(p)

-----------------------------------------------------------------------------
(* Sequences *)

\* A non-empty set of naturals has a least element: what Min needs in RemoveFirst.
LEMMA LeastExists ==
  ASSUME NEW I \in SUBSET Nat, I # {}
  PROVE  \E x \in I : \A y \in I : x <= y
<1> DEFINE R == OpToRel(<, Nat)
<1>1. IsWellFoundedOn(R, Nat)
  BY NatLessThanWellFounded
<1>2. \A x, y \in Nat : x < y => <<x, y>> \in R
  BY DEF OpToRel
<1>3. \E x \in I : \A y \in I : ~ (<<y, x>> \in R)
  <2> HIDE DEF R
  <2> QED BY <1>1, WFMin
<1> HIDE DEF R
<1>4. PICK x \in I : \A y \in I : ~ (<<y, x>> \in R)
  BY <1>3
<1>5. \A y \in I : x <= y
  <2> SUFFICES ASSUME NEW y \in I PROVE x <= y
    OBVIOUS
  <2>1. x \in Nat /\ y \in Nat
    OBVIOUS
  <2>2. ~(y < x)
    BY <2>1, <1>2, <1>4
  <2> QED BY <2>1, <2>2
<1> QED BY <1>5

\* LREM of one occurrence leaves a list of the same kind of elements.
LEMMA RemoveFirstType ==
  ASSUME NEW S, NEW s \in Seq(S), NEW e
  PROVE  RemoveFirst(s, e) \in Seq(S)
<1>1. CASE ~ \E i \in 1..Len(s) : s[i] = e
  BY <1>1 DEF RemoveFirst
<1>2. CASE \E i \in 1..Len(s) : s[i] = e
  <2> DEFINE I == {i \in 1..Len(s) : s[i] = e}
             k == Min(I)
  <2>1. k \in I
    <3>1. I \in SUBSET Nat /\ I # {}
      BY <1>2
    <3>2. \E x \in I : \A y \in I : x <= y
      BY <3>1, LeastExists
    <3> QED BY <3>2 DEF Min
  <2>2. RemoveFirst(s, e) = SubSeq(s, 1, k-1) \o SubSeq(s, k+1, Len(s))
    BY <1>2, <2>1 DEF RemoveFirst, RemoveAt, SelectInSeq
  <2>3. k \in 1..Len(s)
    BY <2>1
  <2> HIDE DEF k
  <2>4. \A i \in 1..Len(s) : s[i] \in S
    BY ElementOfSeq
  <2>5. Len(s) \in Nat
    BY LenProperties
  <2>6. SubSeq(s, 1, k-1) \in Seq(S)
    <3>1. \A i \in 1..(k-1) : s[i] \in S
      BY <2>3, <2>4, <2>5
    <3> QED BY <3>1, <2>3, <2>5, SubSeqProperties
  <2>7. SubSeq(s, k+1, Len(s)) \in Seq(S)
    <3>1. \A i \in (k+1)..Len(s) : s[i] \in S
      BY <2>3, <2>4, <2>5
    <3> QED BY <3>1, <2>3, <2>5, SubSeqProperties
  <2> QED BY <2>2, <2>6, <2>7, ConcatProperties
<1> QED BY <1>1, <1>2

-----------------------------------------------------------------------------
(* Lemmas on the state *)

USE DEF JobIds, SomeJob, NoJob, Queues, Sources, Processes, HedgeRecords,
        storeVars, redisVars, mgrVars, reaperVars, workerVars

\* Every pushed job is of some item.
LEMMA ItemOfJob == ASSUME TypeOK PROVE \A j \in JobIds : ItemOf(j) \in Items
<1>1. jobs \in Seq([item : Items, source : Sources])
  BY DEF TypeOK
<1>2. \A j \in JobIds : jobs[j] \in [item : Items, source : Sources]
  BY <1>1, ElementOfSeq
<1> QED BY <1>2 DEF ItemOf

\* A statement on the rows alone leaves Redis and the processes as they fit.
LEMMA StoreFrame ==
  ASSUME Inv, UNCHANGED <<track, redisVars, mgrVars, workerVars, reaperVars, faults>>,
         position' \in [Items -> Nat], status' \in [Items -> Status]
  PROVE  TypeOK' /\ Carried' /\ HedgesOfItem'
<1>1. TypeOK'
  <2>1. TypeOK
    BY DEF Inv
  <2>2. /\ track' = track /\ jobs' = jobs /\ pending' = pending /\ inProgress' = inProgress
        /\ leases' = leases /\ cancelled' = cancelled /\ completed' = completed /\ hedge' = hedge
        /\ mgr' = mgr /\ msg' = msg /\ plan' = plan /\ worker' = worker /\ reaper' = reaper
        /\ disabled' = disabled /\ faults' = faults /\ lapses' = lapses
    OBVIOUS
  <2> QED BY <2>1, <2>2 DEF TypeOK, Status
<1>2. Carried'
  BY DEF Inv, Carried, Pushed, ItemOf
<1>3. HedgesOfItem'
  BY DEF Inv, HedgesOfItem, ItemOf
<1> QED BY <1>1, <1>2, <1>3

\* A step that leaves rows, jobs, hedges and the manager alone keeps what is said of them.
LEMMA ItemsFrame ==
  ASSUME Inv, UNCHANGED <<status, track, jobs, cancelled, hedge, mgr, msg, plan>>
  PROVE  HedgesOfItem' /\ Standing' /\ CancelledOnlyWhenSettled' /\ TrackMatchesStatus'
<1>1. HedgesOfItem'
  BY DEF Inv, HedgesOfItem, ItemOf
<1>2. Standing'
  BY DEF Inv, Standing, ItemOf, Settled
<1>3. CancelledOnlyWhenSettled' /\ TrackMatchesStatus'
  BY DEF Inv, CancelledOnlyWhenSettled, TrackMatchesStatus, ItemOf, Settled
<1> QED BY <1>1, <1>2, <1>3

\* The playout moves a row with a file among ready, playing and played only.
LEMMA PlayoutStep ==
  ASSUME Inv, status' \in [Items -> Status],
         UNCHANGED <<position, track, redisVars, mgrVars, workerVars, reaperVars, faults>>,
         \A i \in Items : \/ status'[i] = status[i]
                          \/ /\ status[i] \in {"ready", "playing"} /\ track[i] # NoJob
                             /\ status'[i] \in {"ready", "playing", "played"}
  PROVE  Inv'
<1>1. TypeOK' /\ Carried' /\ HedgesOfItem'
  <2>1. position' \in [Items -> Nat]
    BY DEF Inv, TypeOK
  <2> QED BY <2>1, StoreFrame
<1>2. \A j \in JobIds : ItemOf(j) \in Items
  BY ItemOfJob DEF Inv
<1>3. Standing'
  <2>1. mgr \in {"track", "release", "forget"} => ItemOf(msg.job) \in Items
    BY <1>2 DEF Inv, TypeOK, Carried
  <2> QED BY <1>2, <2>1 DEF Inv, Carried, Standing, ItemOf, Settled
<1>4. CancelledOnlyWhenSettled'
  BY <1>2 DEF Inv, TypeOK, CancelledOnlyWhenSettled, ItemOf, Settled
<1>5. TrackMatchesStatus'
  BY DEF Inv, TrackMatchesStatus, ItemOf
<1> QED BY <1>1, <1>3, <1>4, <1>5 DEF Inv

-----------------------------------------------------------------------------
(* The steps of each process *)

\* Enqueue, the playout's claims and its restart preserve the invariant.
LEMMA StoreStep == Inv /\ StoreUsers => Inv'
<1> SUFFICES ASSUME Inv, StoreUsers PROVE Inv'
  OBVIOUS
<1>1. ASSUME NEW i \in Items, Enqueue(i) PROVE Inv'
  <2>1. TypeOK' /\ Carried' /\ HedgesOfItem'
    <3>1. position' \in [Items -> Nat] /\ status' \in [Items -> Status]
      BY <1>1 DEF Inv, TypeOK, Enqueue, Status
    <3> QED BY <1>1, <3>1, StoreFrame DEF Enqueue
  <2>2. Standing'
    BY <1>1 DEF Inv, TypeOK, Carried, Standing, Enqueue, ItemOf, Settled
  <2>3. CancelledOnlyWhenSettled'
    BY <1>1 DEF Inv, TypeOK, CancelledOnlyWhenSettled, Enqueue, ItemOf, Settled
  <2>4. TrackMatchesStatus'
    BY <1>1 DEF Inv, TypeOK, TrackMatchesStatus, Enqueue, ItemOf
  <2> QED BY <2>1, <2>2, <2>3, <2>4 DEF Inv
<1>2. ASSUME NEW i \in Items, ClaimNextReady(i) PROVE Inv'
  <2>1. status[i] = "ready" /\ track[i] # NoJob
    BY <1>2 DEF ClaimNextReady, Oldest, Airable
  <2>2. status \in [Items -> Status]
    BY DEF Inv, TypeOK
  <2> QED BY <1>2, <2>1, <2>2, PlayoutStep DEF ClaimNextReady, Status
<1>3. ASSUME NEW i \in Items, MarkPlayed(i) \/ ReleaseToReady(i) PROVE Inv'
  <2>1. status[i] = "playing" /\ track[i] # NoJob
    BY <1>3 DEF MarkPlayed, ReleaseToReady, Inv, TrackMatchesStatus
  <2>2. status \in [Items -> Status]
    BY DEF Inv, TypeOK
  <2> QED BY <1>3, <2>1, <2>2, PlayoutStep DEF MarkPlayed, ReleaseToReady, Status
<1>4. ASSUME RequeueInterrupted PROVE Inv'
  <2>1. \A i \in Items : status[i] = "playing" => track[i] # NoJob
    BY DEF Inv, TrackMatchesStatus
  <2>2. status \in [Items -> Status]
    BY DEF Inv, TypeOK
  <2> QED BY <1>4, <2>1, <2>2, PlayoutStep DEF RequeueInterrupted, Status
<1> QED BY <1>1, <1>2, <1>3, <1>4 DEF StoreUsers

\* note_side_failed changes the flags of a hedge record and nothing else.
LEMMA SideFailedType ==
  ASSUME NEW h \in HedgeRecords, NEW j
  PROVE  /\ SideFailed(h, j) \in HedgeRecords
         /\ SideFailed(h, j).primary = h.primary
         /\ SideFailed(h, j).backup = h.backup
         /\ SideFailed(h, j).backupSource = h.backupSource
<1>1. (h.due \/ Unfired(h)) \in BOOLEAN
  BY DEF Unfired
<1> QED BY <1>1 DEF SideFailed

\* Writing one hedge record that names jobs of its item keeps every record so.
LEMMA HedgeUpdate ==
  ASSUME TypeOK, HedgesOfItem, UNCHANGED jobs,
         NEW i \in Items, NEW h \in HedgeRecords, hedge' = [hedge EXCEPT ![i] = h],
         h.primary # NoJob => ItemOf(h.primary) = i /\ h.backupSource \in Sources,
         h.backup # NoJob => ItemOf(h.backup) = i
  PROVE  hedge' \in [Items -> HedgeRecords'] /\ HedgesOfItem'
<1>1. HedgeRecords' = HedgeRecords /\ ItemOf(h.primary)' = ItemOf(h.primary)
        /\ ItemOf(h.backup)' = ItemOf(h.backup)
  BY DEF ItemOf
<1>2. hedge' \in [Items -> HedgeRecords]
  <2>1. hedge \in [Items -> HedgeRecords]
    BY DEF TypeOK
  <2> HIDE DEF HedgeRecords
  <2> QED BY <2>1
<1>3. ASSUME NEW k \in Items
      PROVE  /\ hedge'[k].primary # NoJob => /\ ItemOf(hedge[k].primary)' = k
                                             /\ hedge'[k].backupSource \in Sources
             /\ hedge'[k].backup # NoJob => ItemOf(hedge[k].backup)' = k
  <2>1. hedge'[k] = IF k = i THEN h ELSE hedge[k]
    BY DEF TypeOK
  <2> QED BY <1>1, <2>1 DEF HedgesOfItem, ItemOf
<1>4. HedgesOfItem'
  BY <1>3 DEF HedgesOfItem
<1> QED BY <1>1, <1>2, <1>4

\* drain_completed up to its store update, for every kind of completion but a hopeless
\* one, where it is up to the end of note_side_failed, preserves the invariant.
LEMMA ApplyStep ==
  ASSUME Inv, PopCompleted \/ ApplyWin \/ ApplyLate \/ ApplySideFailed \/ ApplyFailed
  PROVE  Inv'
<1> USE DEF Finished, GoTo, NoMsg, NoPlan
<1>1. \A j \in JobIds : ItemOf(j) \in Items
  BY ItemOfJob DEF Inv
<1>2. mgr = "apply" => msg.job \in JobIds
  BY DEF Inv, TypeOK, Carried
<1>3. CASE PopCompleted
  <2>1. /\ Head(completed) \in [job : JobIds, ok : BOOLEAN]
        /\ Tail(completed) \in Seq([job : JobIds, ok : BOOLEAN])
    BY <1>3, HeadTailProperties DEF Inv, TypeOK, PopCompleted
  <2>2. TypeOK'
    BY <1>3, <2>1 DEF Inv, TypeOK, PopCompleted, Status
  <2>3. Carried'
    BY <1>3, <2>1 DEF Inv, Carried, PopCompleted, Pushed, ItemOf
  <2>4. HedgesOfItem' /\ CancelledOnlyWhenSettled' /\ TrackMatchesStatus'
    BY <1>3 DEF Inv, HedgesOfItem, CancelledOnlyWhenSettled, TrackMatchesStatus,
                PopCompleted, ItemOf, Settled
  <2>5. Standing'
    BY <1>3 DEF Inv, Standing, PopCompleted, ItemOf, Settled
  <2> QED BY <2>2, <2>3, <2>4, <2>5 DEF Inv
<1>4. CASE ApplyWin
  <2>1. ItemOf(msg.job) \in Items
    BY <1>1, <1>2, <1>4 DEF ApplyWin
  <2>2. TypeOK' 
    BY <1>4, <2>1 DEF Inv, TypeOK, ApplyWin, Status
  <2>3. Carried' /\ HedgesOfItem'
    BY <1>4, <2>1 DEF Inv, Carried, HedgesOfItem, ApplyWin, Pushed, ItemOf
  <2>4. track[ItemOf(msg.job)] = NoJob
    BY <1>4, <2>1 DEF Inv, TrackMatchesStatus, ApplyWin, Generating
  <2>5. Standing'
    BY <1>4, <2>1, <2>4 DEF Inv, TypeOK, Standing, ApplyWin, ItemOf, Settled
  <2>6. CancelledOnlyWhenSettled'
    BY <1>1, <1>4, <2>1 DEF Inv, TypeOK, CancelledOnlyWhenSettled, ApplyWin, ItemOf, Settled
  <2>7. TrackMatchesStatus'
    BY <1>4, <2>1 DEF Inv, TypeOK, TrackMatchesStatus, ApplyWin, Generating, ItemOf
  <2> QED BY <2>2, <2>3, <2>5, <2>6, <2>7 DEF Inv
<1>5. CASE ApplyLate
  <2>1. ItemOf(msg.job) \in Items
    BY <1>1, <1>2, <1>5 DEF ApplyLate
  <2>2. TypeOK' 
    BY <1>2, <1>5 DEF Inv, TypeOK, ApplyLate, Status
  <2>3. Carried' /\ HedgesOfItem' /\ Standing' /\ TrackMatchesStatus'
    BY <1>5 DEF Inv, Carried, HedgesOfItem, Standing, TrackMatchesStatus, ApplyLate, Pushed, ItemOf
  <2>4. Settled(ItemOf(msg.job))
    BY <1>2, <1>5, <2>1 DEF Inv, TypeOK, Status, Standing, ApplyLate, Generating, Settled
  <2>5. CancelledOnlyWhenSettled'
    BY <1>5, <2>4 DEF Inv, CancelledOnlyWhenSettled, ApplyLate, ItemOf, Settled
  <2> QED BY <2>2, <2>3, <2>5 DEF Inv
<1>6. CASE ApplySideFailed
  <2>1. ItemOf(msg.job) \in Items
    BY <1>1, <1>2, <1>6 DEF ApplySideFailed
  <2> DEFINE h == SideFailed(hedge[ItemOf(msg.job)], msg.job)
  <2>2. /\ hedge[ItemOf(msg.job)] \in HedgeRecords
        /\ h \in HedgeRecords
        /\ h.primary = hedge[ItemOf(msg.job)].primary
        /\ h.backup = hedge[ItemOf(msg.job)].backup
        /\ h.backupSource = hedge[ItemOf(msg.job)].backupSource
    <3>1. hedge[ItemOf(msg.job)] \in HedgeRecords
      BY <2>1 DEF Inv, TypeOK
    <3> QED BY <3>1, SideFailedType
  <2>3. hedge' = [hedge EXCEPT ![ItemOf(msg.job)] = h]
    BY <1>6 DEF ApplySideFailed
  <2> HIDE DEF h
  <2>4. hedge' \in [Items -> HedgeRecords'] /\ HedgesOfItem'
    BY <1>6, <2>1, <2>2, <2>3, HedgeUpdate DEF Inv, HedgesOfItem, ApplySideFailed
  <2>5. Carried' /\ Standing' /\ CancelledOnlyWhenSettled' /\ TrackMatchesStatus'
    BY <1>6 DEF Inv, Carried, Standing, CancelledOnlyWhenSettled, TrackMatchesStatus,
                ApplySideFailed, Pushed, ItemOf, Settled
  <2>6. TypeOK'
    BY <1>6, <2>4 DEF Inv, TypeOK, ApplySideFailed, Status
  <2> QED BY <2>4, <2>5, <2>6 DEF Inv
<1>7. CASE ApplyFailed
  <2>1. ItemOf(msg.job) \in Items
    BY <1>1, <1>2, <1>7 DEF ApplyFailed
  <2>2. hedge' = hedge \/ hedge' = [hedge EXCEPT ![ItemOf(msg.job)] = NoHedge]
    BY <1>7 DEF ApplyFailed
  <2>3. hedge' \in [Items -> HedgeRecords'] /\ HedgesOfItem'
    <3>1. UNCHANGED jobs
      BY <1>7 DEF ApplyFailed
    <3>2. hedge \in [Items -> HedgeRecords] /\ NoHedge \in HedgeRecords
      BY DEF Inv, TypeOK, NoHedge
    <3>3. CASE hedge' = hedge
      BY <3>1, <3>2, <3>3 DEF Inv, HedgesOfItem, ItemOf
    <3>4. CASE hedge' = [hedge EXCEPT ![ItemOf(msg.job)] = NoHedge]
      <4>1. NoHedge.primary = NoJob /\ NoHedge.backup = NoJob
        BY DEF NoHedge
      <4> QED BY <2>1, <3>1, <3>2, <3>4, <4>1, HedgeUpdate DEF Inv
    <3> QED BY <2>2, <3>3, <3>4
  <2>4. TypeOK'
    BY <1>7, <2>3 DEF Inv, TypeOK, ApplyFailed, Status
  <2>5. Carried' /\ Standing' /\ CancelledOnlyWhenSettled' /\ TrackMatchesStatus'
    BY <1>7 DEF Inv, Carried, Standing, CancelledOnlyWhenSettled, TrackMatchesStatus,
                ApplyFailed, Pushed, ItemOf, Settled
  <2> QED BY <2>3, <2>4, <2>5 DEF Inv
<1> QED BY <1>3, <1>4, <1>5, <1>6, <1>7

\* mark_failed preserves the invariant, whether it still finds the item generating or not.
LEMMA MarkFailedStep == ASSUME Inv, MarkFailed PROVE Inv'
<1> DEFINE i == ItemOf(msg.job)
<1>1. i \in Items /\ \A j \in JobIds : ItemOf(j) \in Items
  BY ItemOfJob DEF Inv, TypeOK, Carried, MarkFailed
<1>2. CASE Generating(i)
  <2>1. /\ status' = [status EXCEPT ![i] = "failed"]
        /\ mgr' = "release" /\ UNCHANGED <<msg, plan>>
        /\ UNCHANGED <<position, track, redisVars, workerVars, reaperVars, faults>>
    BY <1>2 DEF MarkFailed, GoTo
  <2>2. status[i] = "generating" /\ mgr = "fail"
    BY <1>2 DEF MarkFailed, Generating
  <2> HIDE DEF i
  <2>3. TypeOK'
    BY <1>1, <2>1 DEF Inv, TypeOK, Status
  <2>4. Carried' /\ HedgesOfItem'
    BY <2>1, <2>2 DEF Inv, Carried, HedgesOfItem, Pushed, ItemOf
  <2>5. Standing'
    BY <1>1, <2>1 DEF Inv, TypeOK, Standing, ItemOf, Settled, i
  <2>6. CancelledOnlyWhenSettled'
    BY <1>1, <2>1 DEF Inv, TypeOK, CancelledOnlyWhenSettled, ItemOf, Settled
  <2>7. TrackMatchesStatus'
    BY <1>1, <2>1, <2>2 DEF Inv, TypeOK, TrackMatchesStatus, ItemOf
  <2> QED BY <2>3, <2>4, <2>5, <2>6, <2>7 DEF Inv
<1>3. CASE ~Generating(i)
  <2>1. /\ UNCHANGED status
        /\ mgr' = "poll" /\ msg' = NoMsg /\ plan' = NoPlan
        /\ UNCHANGED <<position, track, redisVars, workerVars, reaperVars, faults>>
    BY <1>3 DEF MarkFailed, Finished
  <2> HIDE DEF i
  <2>2. TypeOK'
    BY <2>1 DEF Inv, TypeOK, Status, NoMsg, NoPlan
  <2>3. Carried' /\ HedgesOfItem' /\ Standing' /\ CancelledOnlyWhenSettled' /\ TrackMatchesStatus'
    BY <2>1 DEF Inv, Carried, HedgesOfItem, Standing, CancelledOnlyWhenSettled,
                TrackMatchesStatus, Pushed, ItemOf, Settled
  <2> QED BY <2>2, <2>3 DEF Inv
<1> QED BY <1>2, <1>3

\* mark_ready's second half preserves the invariant: nobody else can have given the
\* row a file, or aired it, since its first half.
LEMMA RecordTrackStep == ASSUME Inv, RecordTrack PROVE Inv'
<1> USE DEF RecordTrack, GoTo
<1>1. msg.job \in JobIds /\ ItemOf(msg.job) \in Items
  BY ItemOfJob DEF Inv, TypeOK, Carried
<1>2. TypeOK'
  BY <1>1 DEF Inv, TypeOK, Status
<1>3. Carried' /\ HedgesOfItem' /\ CancelledOnlyWhenSettled'
  BY DEF Inv, Carried, HedgesOfItem, CancelledOnlyWhenSettled, Pushed, ItemOf, Settled
<1>4. Standing'
  BY <1>1 DEF Inv, Standing, ItemOf, Settled
<1>5. TrackMatchesStatus'
  BY <1>1 DEF Inv, TypeOK, Standing, TrackMatchesStatus, ItemOf
<1> QED BY <1>2, <1>3, <1>4, <1>5 DEF Inv

\* The cancelling half of release_hedge preserves the invariant: the losers are jobs of
\* an item that is settled.
LEMMA ReleaseHedgeStep == ASSUME Inv, ReleaseHedge PROVE Inv'
<1> DEFINE i == ItemOf(msg.job)
           L == Losers(i, msg.job)
<1>1. msg.job \in JobIds /\ i \in Items
  BY ItemOfJob DEF Inv, TypeOK, Carried, ReleaseHedge
<1>2. \A j \in L : j \in JobIds /\ ItemOf(j) = i
  BY <1>1 DEF Inv, TypeOK, HedgesOfItem, Losers
<1>3. /\ cancelled' = cancelled \union L
      /\ UNCHANGED <<storeVars, jobs, inProgress, leases, completed, hedge, workerVars,
                     reaperVars, faults>>
      /\ mgr = "release" /\ mgr' = "forget" /\ UNCHANGED <<msg, plan>>
  BY DEF ReleaseHedge, GoTo
<1>4. HedgesOfItem'
  BY <1>3 DEF Inv, HedgesOfItem, ItemOf
<1>5. pending' \in [Queues -> Seq(JobIds)]
  <2> DEFINE after(q) == IF \E j \in L : SourceOf(j) = q
                           THEN RemoveFirst(pending[q], CHOOSE j \in L : SourceOf(j) = q)
                           ELSE pending[q]
  <2>1. \A q \in Queues : after(q) \in Seq(JobIds)
    <3> SUFFICES ASSUME NEW q \in Queues PROVE after(q) \in Seq(JobIds)
      OBVIOUS
    <3>1. pending[q] \in Seq(JobIds)
      BY DEF Inv, TypeOK
    <3>2. \A e : RemoveFirst(pending[q], e) \in Seq(JobIds)
      BY <3>1, RemoveFirstType
    <3> QED BY <3>1, <3>2
  <2>2. pending' = [q \in Queues |-> after(q)]
    BY DEF ReleaseHedge
  <2> HIDE DEF after
  <2> QED BY <2>1, <2>2
<1> HIDE DEF i, L
<1>6. TypeOK'
  BY <1>1, <1>2, <1>3, <1>5 DEF Inv, TypeOK, Status
<1>7. Carried' /\ Standing' /\ TrackMatchesStatus'
  BY <1>3 DEF Inv, Carried, Standing, TrackMatchesStatus, Pushed, ItemOf, Settled
<1>8. CancelledOnlyWhenSettled'
  <2>1. Settled(i)
    BY DEF Inv, Standing, ReleaseHedge, i
  <2> QED BY <1>2, <1>3, <2>1 DEF Inv, CancelledOnlyWhenSettled, ItemOf, Settled
<1> QED BY <1>4, <1>6, <1>7, <1>8 DEF Inv

\* The end of release_hedge preserves the invariant.
LEMMA ForgetHedgeStep == ASSUME Inv, ForgetHedge PROVE Inv'
<1> DEFINE i == ItemOf(msg.job)
<1>1. i \in Items
  BY ItemOfJob DEF Inv, TypeOK, Carried, ForgetHedge
<1>2. /\ hedge' = [hedge EXCEPT ![i] = NoHedge]
      /\ UNCHANGED <<storeVars, jobs, pending, inProgress, leases, cancelled, completed,
                     workerVars, reaperVars, faults>>
      /\ mgr' = "poll" /\ msg' = NoMsg /\ plan' = NoPlan
  BY DEF ForgetHedge, Finished
<1> HIDE DEF i
<1>3. hedge' \in [Items -> HedgeRecords'] /\ HedgesOfItem'
  <2>1. NoHedge \in HedgeRecords /\ NoHedge.primary = NoJob /\ NoHedge.backup = NoJob
    BY DEF NoHedge
  <2> QED BY <1>1, <1>2, <2>1, HedgeUpdate DEF Inv
<1>4. TypeOK'
  BY <1>2, <1>3 DEF Inv, TypeOK, Status, NoMsg, NoPlan
<1>5. Carried' /\ Standing' /\ CancelledOnlyWhenSettled' /\ TrackMatchesStatus'
  BY <1>2 DEF Inv, Carried, Standing, CancelledOnlyWhenSettled, TrackMatchesStatus, Pushed,
              ItemOf, Settled, NoMsg, NoPlan
<1> QED BY <1>3, <1>4, <1>5 DEF Inv

\* RPUSH of a new job makes the set of job ids grow and keeps what was typed by it.
LEMMA PushGrows ==
  ASSUME TypeOK, NEW i \in Items, NEW s \in Sources, Push(i, s)
  PROVE  /\ Len(jobs') = Len(jobs) + 1 /\ Len(jobs) \in Nat
         /\ JobIds \subseteq JobIds' /\ JobIds' = JobIds \union {Len(jobs')}
         /\ jobs' \in Seq([item : Items, source : Sources])
         /\ \A j \in JobIds : ItemOf(j)' = ItemOf(j)
         /\ ItemOf(Len(jobs))' = i
         /\ pending' \in [Queues -> Seq(JobIds')]
         /\ inProgress \in Seq(JobIds')
         /\ completed \in Seq([job : JobIds', ok : BOOLEAN])
<1>1. jobs \in Seq([item : Items, source : Sources])
        /\ [item |-> i, source |-> s] \in [item : Items, source : Sources]
  BY DEF TypeOK
<1>2. jobs' = Append(jobs, [item |-> i, source |-> s])
  BY DEF Push, Payload
<1>3. /\ Len(jobs') = Len(jobs) + 1 /\ Len(jobs) \in Nat
      /\ jobs' \in Seq([item : Items, source : Sources])
      /\ \A j \in JobIds : jobs'[j] = jobs[j]
      /\ jobs'[Len(jobs')] = [item |-> i, source |-> s]
  BY <1>1, <1>2, AppendProperties, LenProperties
<1>4. JobIds \subseteq JobIds' /\ JobIds' = JobIds \union {Len(jobs')}
  BY <1>3
<1>5. \A q \in Seq(JobIds) : q \in Seq(JobIds')
  BY <1>4, SeqMonotonic
<1>6. pending' \in [Queues -> Seq(JobIds')]
  <2>1. pending \in [Queues -> Seq(JobIds)] /\ s \in Queues
    BY DEF TypeOK
  <2>2. Append(pending[s], Len(jobs) + 1) \in Seq(JobIds')
    <3>1. pending[s] \in Seq(JobIds') /\ Len(jobs) + 1 \in JobIds'
      BY <1>3, <1>5, <2>1
    <3> HIDE DEF JobIds
    <3> QED BY <3>1, AppendProperties
  <2>3. pending' = [pending EXCEPT ![s] = Append(@, Len(jobs) + 1)]
    BY DEF Push
  <2> HIDE DEF JobIds, Queues
  <2> QED BY <1>5, <2>1, <2>2, <2>3
<1>7. inProgress \in Seq(JobIds')
  BY <1>5 DEF TypeOK
<1>8. completed \in Seq([job : JobIds', ok : BOOLEAN])
  <2>1. [job : JobIds, ok : BOOLEAN] \subseteq [job : JobIds', ok : BOOLEAN]
    BY <1>4
  <2> QED BY <2>1, SeqMonotonic DEF TypeOK
<1>9. ItemOf(Len(jobs))' = i /\ \A j \in JobIds : ItemOf(j)' = ItemOf(j)
  BY <1>3 DEF ItemOf
<1> QED BY <1>3, <1>4, <1>6, <1>7, <1>8, <1>9

\* A push for an item that has left the queue preserves the invariant.
LEMMA PushStep ==
  ASSUME Inv, NEW i \in Items, NEW s \in Sources, Push(i, s),
         status[i] \notin {"absent", "queued"},
         mgr' \in {"poll", "save", "remember"},
         msg' \in [job : SomeJob, ok : BOOLEAN],
         plan' \in [item : Items \union {None}, source : Sources \union {None},
                   backup : Sources \union {None}],
         mgr' # "poll" => plan'.item = i /\ plan'.source \in Sources,
         mgr' = "remember" => plan'.backup \in Sources,
         UNCHANGED <<storeVars, inProgress, leases, cancelled, completed, hedge,
                     workerVars, reaperVars, faults>>
  PROVE  Inv'
<1>1. /\ Len(jobs') = Len(jobs) + 1 /\ Len(jobs) \in Nat
      /\ JobIds \subseteq JobIds' /\ JobIds' = JobIds \union {Len(jobs')}
      /\ jobs' \in Seq([item : Items, source : Sources])
      /\ \A j \in JobIds : ItemOf(j)' = ItemOf(j)
      /\ ItemOf(Len(jobs))' = i
      /\ pending' \in [Queues -> Seq(JobIds')]
      /\ inProgress \in Seq(JobIds')
      /\ completed \in Seq([job : JobIds', ok : BOOLEAN])
  BY PushGrows DEF Inv
<1> HIDE DEF JobIds
<1>2. TypeOK'
  <2>1. hedge' \in [Items -> HedgeRecords']
    BY <1>1 DEF Inv, TypeOK
  <2>2. worker' \in [Processes -> [pc : {"idle", "claimed", "running", "acked"},
                                  job : SomeJob', ok : BOOLEAN]]
    BY <1>1 DEF Inv, TypeOK
  <2> QED BY <1>1, <2>1, <2>2 DEF Inv, TypeOK, Status
<1>3. Carried'
  BY <1>1 DEF Inv, Carried, Pushed
<1>4. HedgesOfItem'
  <2>1. SomeJob = JobIds \union {NoJob}
    BY DEF SomeJob
  <2>2. \A k \in Items : hedge[k].primary \in SomeJob /\ hedge[k].backup \in SomeJob
    BY DEF Inv, TypeOK, HedgeRecords
  <2>3. \A k \in Items :
          /\ hedge[k].primary # NoJob => ItemOf(hedge[k].primary)' = ItemOf(hedge[k].primary)
          /\ hedge[k].backup # NoJob => ItemOf(hedge[k].backup)' = ItemOf(hedge[k].backup)
    <3> HIDE DEF HedgeRecords
    <3>1. ASSUME NEW k \in Items, NEW j \in {hedge[k].primary, hedge[k].backup}, j # NoJob
          PROVE  j \in JobIds
      BY <2>1, <2>2, <3>1
    <3>2. \A j \in JobIds : ItemOf(j)' = ItemOf(j)
      BY <1>1
    <3>3. hedge' = hedge
      OBVIOUS
    <3> QED BY <3>1, <3>2, <3>3 DEF ItemOf
  <2>4. hedge' = hedge /\ HedgesOfItem
    BY DEF Inv
  <2> QED BY <2>3, <2>4 DEF HedgesOfItem, ItemOf
<1>5. Standing'
  BY <1>1 DEF Inv, TypeOK, Standing, Settled
<1>6. CancelledOnlyWhenSettled'
  BY <1>1 DEF Inv, TypeOK, CancelledOnlyWhenSettled, Settled
<1>7. TrackMatchesStatus'
  BY <1>1 DEF Inv, TypeOK, TrackMatchesStatus
<1> QED BY <1>2, <1>3, <1>4, <1>5, <1>6, <1>7 DEF Inv

\* A plan names sources that exist, whatever the mode.
LEMMA AssignableType ==
  ASSUME NEW a \in Assignable
  PROVE  a[1] \in Sources /\ a[2] \in Sources \union {None}
<1>1. Mode \in {"local_only", "hybrid", "paid_only"}
  BY SettingsAreValid
<1> QED BY <1>1 DEF Assignable

\* Every step of the manager, and its faults, preserve the invariant.
LEMMA ManagerStep == Inv /\ (Manager \/ ManagerFault) => Inv'
<1> SUFFICES ASSUME Inv, Manager \/ ManagerFault PROVE Inv'
  OBVIOUS
<1> USE DEF GoTo, Finished, NoMsg, NoPlan
<1>1. CASE PopCompleted \/ ApplyWin \/ ApplyLate \/ ApplySideFailed \/ ApplyFailed
  BY <1>1, ApplyStep
<1>2. CASE RecordTrack \/ MarkFailed \/ ReleaseHedge \/ ForgetHedge
  BY <1>2, RecordTrackStep, MarkFailedStep, ReleaseHedgeStep, ForgetHedgeStep
<1>3. ASSUME NEW i \in Items, FireHedge(i) PROVE Inv'
  <2>1. hedge[i].primary \in JobIds /\ ItemOf(hedge[i].primary) = i
          /\ hedge[i].backupSource \in Sources
    BY <1>3 DEF Inv, TypeOK, HedgesOfItem, FireHedge, DueToFire, Hedged
  <2>2. status[i] \notin {"absent", "queued"}
    BY <2>1 DEF Inv, Standing
  <2>3. msg' \in [job : SomeJob, ok : BOOLEAN]
    BY <1>3 DEF Inv, TypeOK, FireHedge
  <2> QED BY <1>3, <2>1, <2>2, <2>3, PushStep DEF FireHedge
<1>4. CASE SaveHedge
  <2> DEFINE h == [hedge[plan.item] EXCEPT !.backup = Pushed]
  <2>1. plan.item \in Items /\ Pushed \in JobIds /\ ItemOf(Pushed) = plan.item
    BY <1>4, LenProperties DEF Inv, TypeOK, Carried, SaveHedge, Pushed
  <2>2. h \in HedgeRecords /\ h.primary = hedge[plan.item].primary
          /\ h.backupSource = hedge[plan.item].backupSource /\ h.backup = Pushed
    <3>1. hedge[plan.item] \in HedgeRecords
      BY <2>1 DEF Inv, TypeOK
    <3> QED BY <2>1, <3>1
  <2>3. hedge' = [hedge EXCEPT ![plan.item] = h]
    BY <1>4 DEF SaveHedge
  <2> HIDE DEF h
  <2>4. hedge' \in [Items -> HedgeRecords'] /\ HedgesOfItem'
    <3>1. /\ h.primary # NoJob => ItemOf(h.primary) = plan.item /\ h.backupSource \in Sources
          /\ ItemOf(h.backup) = plan.item
      BY <2>1, <2>2 DEF Inv, HedgesOfItem
    <3>2. TypeOK /\ HedgesOfItem /\ UNCHANGED jobs
      BY <1>4 DEF Inv, SaveHedge
    <3> QED BY <2>1, <2>2, <2>3, <3>1, <3>2, HedgeUpdate
  <2>5. TypeOK'
    BY <1>4, <2>4 DEF Inv, TypeOK, SaveHedge, Status
  <2>6. Carried' /\ Standing' /\ CancelledOnlyWhenSettled' /\ TrackMatchesStatus'
    BY <1>4 DEF Inv, Carried, Standing, CancelledOnlyWhenSettled, TrackMatchesStatus,
                SaveHedge, ItemOf, Settled
  <2> QED BY <2>4, <2>5, <2>6 DEF Inv
<1>5. ASSUME NEW i \in Items, ChooseSource(i) PROVE Inv'
  <2>1. PICK a \in Assignable : plan' = [item |-> i, source |-> a[1], backup |-> a[2]]
    BY <1>5 DEF ChooseSource
  <2>2. a[1] \in Sources /\ a[2] \in Sources \union {None}
    BY AssignableType
  <2>3. TypeOK'
    BY <1>5, <2>1, <2>2 DEF Inv, TypeOK, ChooseSource, Status
  <2>4. Carried'
    BY <1>5, <2>1, <2>2 DEF Inv, Carried, ChooseSource, Pushed, ItemOf
  <2>5. HedgesOfItem' /\ CancelledOnlyWhenSettled' /\ TrackMatchesStatus'
    BY <1>5 DEF Inv, HedgesOfItem, CancelledOnlyWhenSettled, TrackMatchesStatus,
                ChooseSource, ItemOf, Settled
  <2>6. Standing'
    BY <1>5, <2>1 DEF Inv, Standing, ChooseSource, Oldest, Waiting, ItemOf, Settled
  <2> QED BY <2>3, <2>4, <2>5, <2>6 DEF Inv
<1>6. CASE MarkGenerating
  <2>1. plan.item \in Items /\ status[plan.item] = "queued"
    BY <1>6 DEF Inv, Carried, Standing, MarkGenerating
  <2>2. \A j \in JobIds : ItemOf(j) \in Items
    BY ItemOfJob DEF Inv
  <2>3. TypeOK'
    BY <1>6, <2>1 DEF Inv, TypeOK, MarkGenerating, Status
  <2>4. Carried' /\ HedgesOfItem'
    BY <1>6 DEF Inv, Carried, HedgesOfItem, MarkGenerating, Pushed, ItemOf
  <2>5. Standing'
    BY <1>6, <2>1, <2>2 DEF Inv, TypeOK, Standing, MarkGenerating, ItemOf, Settled
  <2>6. CancelledOnlyWhenSettled'
    BY <1>6, <2>1, <2>2 DEF Inv, TypeOK, CancelledOnlyWhenSettled, MarkGenerating, ItemOf, Settled
  <2>7. TrackMatchesStatus'
    BY <1>6, <2>1 DEF Inv, TypeOK, TrackMatchesStatus, MarkGenerating, ItemOf
  <2> QED BY <2>3, <2>4, <2>5, <2>6, <2>7 DEF Inv
<1>7. CASE PushPrimary
  <2>1. plan.item \in Items /\ plan.source \in Sources /\ status[plan.item] \notin {"absent", "queued"}
    BY <1>7 DEF Inv, Carried, Standing, PushPrimary
  <2>2. /\ msg' \in [job : SomeJob, ok : BOOLEAN]
        /\ plan' \in [item : Items \union {None}, source : Sources \union {None},
                     backup : Sources \union {None}]
        /\ mgr' \in {"poll", "remember"}
        /\ mgr' # "poll" => plan' = plan /\ plan.backup # None
    <3>1. msg \in [job : SomeJob, ok : BOOLEAN] /\ plan \in [item : Items \union {None},
             source : Sources \union {None}, backup : Sources \union {None}]
      BY DEF Inv, TypeOK
    <3>2. CASE plan.backup = None
      <4>1. mgr' = "poll" /\ msg' = NoMsg /\ plan' = NoPlan
        BY <1>7, <3>2 DEF PushPrimary
      <4> QED BY <4>1
    <3>3. CASE plan.backup # None
      BY <1>7, <3>1, <3>3 DEF PushPrimary
    <3> QED BY <3>2, <3>3
  <2>3. plan.backup \in Sources \union {None}
    BY DEF Inv, TypeOK
  <2> QED BY <1>7, <2>1, <2>2, <2>3, PushStep DEF PushPrimary
<1>8. CASE RememberHedge
  <2> DEFINE h == [NoHedge EXCEPT !.primary = Pushed, !.backupSource = plan.backup]
  <2>1. plan.item \in Items /\ plan.backup \in Sources /\ Pushed \in JobIds /\ ItemOf(Pushed) = plan.item
    BY <1>8, LenProperties DEF Inv, TypeOK, Carried, RememberHedge, Pushed
  <2>2. h \in HedgeRecords /\ h.primary = Pushed /\ h.backupSource = plan.backup /\ h.backup = NoJob
    BY <2>1 DEF NoHedge
  <2>3. hedge' = [hedge EXCEPT ![plan.item] = h]
    BY <1>8 DEF RememberHedge
  <2> HIDE DEF h
  <2>4. hedge' \in [Items -> HedgeRecords'] /\ HedgesOfItem'
    BY <1>8, <2>1, <2>2, <2>3, HedgeUpdate DEF Inv, RememberHedge
  <2>5. TypeOK'
    BY <1>8, <2>4 DEF Inv, TypeOK, RememberHedge, Status
  <2>6. Carried' /\ Standing' /\ CancelledOnlyWhenSettled' /\ TrackMatchesStatus'
    BY <1>8 DEF Inv, Carried, Standing, CancelledOnlyWhenSettled, TrackMatchesStatus,
                RememberHedge, ItemOf, Settled
  <2> QED BY <2>4, <2>5, <2>6 DEF Inv
<1>9. CASE ManagerFault
  <2>1. TypeOK'
    BY <1>9 DEF Inv, TypeOK, ManagerFault, Status
  <2>2. Carried' /\ HedgesOfItem' /\ Standing' /\ CancelledOnlyWhenSettled' /\ TrackMatchesStatus'
    BY <1>9 DEF Inv, Carried, HedgesOfItem, Standing, CancelledOnlyWhenSettled,
                TrackMatchesStatus, ManagerFault, Pushed, ItemOf, Settled
  <2> QED BY <2>1, <2>2 DEF Inv
<1> QED BY <1>1, <1>2, <1>3, <1>4, <1>5, <1>6, <1>7, <1>8, <1>9 DEF Manager

\* The types of what workers and the reaper may change are enough for TypeOK.
LEMMA WorkerFrame ==
  ASSUME TypeOK, UNCHANGED <<storeVars, jobs, cancelled, hedge, mgrVars>>,
         pending' \in [Queues -> Seq(JobIds)], inProgress' \in Seq(JobIds), leases' \subseteq JobIds,
         completed' \in Seq([job : JobIds, ok : BOOLEAN]),
         worker' \in [Processes -> [pc : {"idle", "claimed", "running", "acked"},
                                   job : SomeJob, ok : BOOLEAN]],
         reaper' \in [pc : {"scan", "remove", "requeue"}, job : SomeJob],
         disabled' \subseteq Providers, faults' \in Nat, lapses' \in Nat
  PROVE  TypeOK'
<1>1. JobIds' = JobIds
  OBVIOUS
<1>2. /\ position' = position /\ status' = status /\ track' = track /\ jobs' = jobs
      /\ cancelled' = cancelled /\ hedge' = hedge /\ mgr' = mgr /\ msg' = msg /\ plan' = plan
  OBVIOUS
<1> HIDE DEF JobIds
<1> QED BY <1>1, <1>2 DEF TypeOK, Status

\* Every step of a worker, and its faults, preserve the invariant.
LEMMA WorkersStep ==
  ASSUME Inv, Routed, NEW p \in Processes, WorkerStep(p) \/ WorkerFault(p) \/ StatsFault(p)
  PROVE  Inv'
<1> DEFINE Workers == [pc : {"idle", "claimed", "running", "acked"}, job : SomeJob, ok : BOOLEAN]
<1>0. worker \in [Processes -> Workers] /\ worker[p] \in Workers
  BY DEF Inv, TypeOK
<1>11. /\ TypeOK /\ pending \in [Queues -> Seq(JobIds)] /\ inProgress \in Seq(JobIds)
       /\ leases \subseteq JobIds /\ completed \in Seq([job : JobIds, ok : BOOLEAN])
       /\ reaper \in [pc : {"scan", "remove", "requeue"}, job : SomeJob]
       /\ disabled \subseteq Providers /\ faults \in Nat /\ lapses \in Nat
  BY DEF Inv, TypeOK
<1>1. worker[p].pc # "idle" => worker[p].job \in JobIds
  BY DEF Inv, TypeOK, Carried
<1>2. \A j : RemoveFirst(inProgress, j) \in Seq(JobIds)
  BY RemoveFirstType DEF Inv, TypeOK
<1>3. UNCHANGED <<status, track, jobs, cancelled, hedge, mgr, msg, plan>>
  BY DEF WorkerStep, WorkerFault, StatsFault, Claim, SkipCancelled, StartGenerating, Acknowledge,
         PushCompleted
<1>4. HedgesOfItem' /\ Standing' /\ CancelledOnlyWhenSettled' /\ TrackMatchesStatus'
  BY <1>3, ItemsFrame
<1>5. ASSUME NEW s \in Sources, Claim(p, s) PROVE TypeOK' /\ Carried'
  <2>1. /\ Last(pending[s]) \in JobIds
        /\ Front(pending[s]) \in Seq(JobIds)
    <3>1. pending[s] \in Seq(JobIds) /\ pending[s] # <<>>
      BY <1>5 DEF Inv, TypeOK, Claim
    <3>2. Len(pending[s]) \in Nat \ {0} /\ \A n \in 1..Len(pending[s]) : pending[s][n] \in JobIds
      BY <3>1, EmptySeq, ElementOfSeq
    <3> HIDE DEF JobIds
    <3>3. SubSeq(pending[s], 1, Len(pending[s]) - 1) \in Seq(JobIds)
      BY <3>2, SubSeqProperties
    <3> QED BY <3>2, <3>3 DEF Last, Front
  <2>2. <<Last(pending[s])>> \o inProgress \in Seq(JobIds)
    <3>1. <<Last(pending[s])>> \in Seq(JobIds) /\ inProgress \in Seq(JobIds)
      BY <2>1 DEF Inv, TypeOK
    <3> QED BY <3>1, ConcatProperties
  <2>3. worker' \in [Processes -> Workers]
    BY <1>0, <1>5, <2>1 DEF Claim
  <2>4. TypeOK'
    BY <1>5, <2>1, <2>2, <2>3, WorkerFrame DEF Inv, TypeOK, Claim
  <2>5. Carried'
    BY <1>5, <2>1 DEF Inv, TypeOK, Carried, Claim, Pushed, ItemOf
  <2> QED BY <2>4, <2>5
<1>6. ASSUME SkipCancelled(p) PROVE TypeOK' /\ Carried'
  <2>0. worker' \in [Processes -> Workers]
    BY <1>0, <1>6 DEF SkipCancelled, Idle
  <2>1. TypeOK'
    <3>1. inProgress' \in Seq(JobIds) /\ leases' \subseteq JobIds
      BY <1>2, <1>6 DEF Inv, TypeOK, SkipCancelled, AckAndClear
    <3>2. UNCHANGED <<storeVars, jobs, pending, cancelled, completed, hedge, mgrVars,
                      reaperVars, disabled, faults>>
      BY <1>6 DEF SkipCancelled
    <3> QED BY <1>11, <2>0, <3>1, <3>2, WorkerFrame
  <2>2. Carried'
    BY <1>6 DEF Inv, TypeOK, Carried, SkipCancelled, Idle, Pushed, ItemOf
  <2> QED BY <2>1, <2>2
<1>7. ASSUME StartGenerating(p) PROVE TypeOK' /\ Carried'
  <2>0. worker' \in [Processes -> Workers]
    BY <1>0, <1>7 DEF StartGenerating
  <2>1. TypeOK'
    BY <1>1, <1>7, <2>0, WorkerFrame DEF Inv, TypeOK, StartGenerating
  <2>2. Carried'
    BY <1>7 DEF Inv, TypeOK, Carried, StartGenerating, Pushed, ItemOf
  <2> QED BY <2>1, <2>2
<1>8. ASSUME NEW outcome \in Outcomes, Acknowledge(p, outcome) PROVE TypeOK' /\ Carried'
  <2>0. worker' \in [Processes -> Workers]
    BY <1>0, <1>8 DEF Acknowledge
  <2>1. disabled' \subseteq Providers
    <3>1. CASE outcome = "quota"
      <4>1. worker[p].pc = "running" /\ p = ProviderWorker
        BY <1>8, <3>1 DEF Acknowledge
      <4>2. SourceOf(worker[p].job) \in Providers
        BY <4>1 DEF Routed, Serves
      <4> QED BY <1>8, <4>2 DEF Inv, TypeOK, Acknowledge
    <3>2. CASE outcome # "quota"
      BY <1>8, <3>2 DEF Inv, TypeOK, Acknowledge
    <3> QED BY <3>1, <3>2
  <2>2. TypeOK'
    <3>1. inProgress' \in Seq(JobIds) /\ leases' \subseteq JobIds
      BY <1>2, <1>8 DEF Inv, TypeOK, Acknowledge, AckAndClear
    <3>2. UNCHANGED <<storeVars, jobs, pending, cancelled, completed, hedge, mgrVars,
                      reaperVars, faults>>
      BY <1>8 DEF Acknowledge
    <3> QED BY <1>11, <2>0, <2>1, <3>1, <3>2, WorkerFrame
  <2>3. Carried'
    BY <1>8 DEF Inv, TypeOK, Carried, Acknowledge, Pushed, ItemOf
  <2> QED BY <2>2, <2>3
<1>9. ASSUME PushCompleted(p) PROVE TypeOK' /\ Carried'
  <2>0. worker' \in [Processes -> Workers]
    BY <1>0, <1>9 DEF PushCompleted, Idle
  <2>1. completed' \in Seq([job : JobIds, ok : BOOLEAN])
    BY <1>1, <1>9, AppendProperties DEF Inv, TypeOK, PushCompleted
  <2>2. TypeOK'
    BY <1>9, <2>0, <2>1, WorkerFrame DEF Inv, TypeOK, PushCompleted
  <2>3. Carried'
    BY <1>9 DEF Inv, TypeOK, Carried, PushCompleted, Idle, Pushed, ItemOf
  <2> QED BY <2>2, <2>3
<1>10. ASSUME WorkerFault(p) PROVE TypeOK' /\ Carried'
  <2>0. worker' \in [Processes -> Workers]
    BY <1>0, <1>10 DEF WorkerFault, Idle
  <2>1. TypeOK'
    <3>1. disabled' \subseteq Providers /\ faults' \in Nat
      BY <1>10 DEF Inv, TypeOK, WorkerFault
    <3>2. UNCHANGED <<storeVars, redisVars, mgrVars, reaperVars>>
      BY <1>10 DEF WorkerFault
    <3> QED BY <1>11, <2>0, <3>1, <3>2, WorkerFrame
  <2>2. Carried'
    BY <1>10 DEF Inv, TypeOK, Carried, WorkerFault, Idle, Pushed, ItemOf
  <2> QED BY <2>1, <2>2
<1>12. ASSUME StatsFault(p) PROVE TypeOK' /\ Carried'
  <2>1. worker' \in [Processes -> Workers]
    BY <1>0, <1>12 DEF StatsFault
  <2>2. faults' \in Nat /\ UNCHANGED <<storeVars, redisVars, mgrVars, reaperVars, disabled>>
    BY <1>12 DEF Inv, TypeOK, StatsFault
  <2>3. TypeOK'
    BY <1>11, <2>1, <2>2, WorkerFrame
  <2>4. Carried'
    BY <1>12 DEF Inv, TypeOK, Carried, StatsFault, Pushed, ItemOf
  <2> QED BY <2>3, <2>4
<1> QED BY <1>4, <1>5, <1>6, <1>7, <1>8, <1>9, <1>10, <1>12 DEF WorkerStep, Inv

\* Every step of the reaper, and its faults, preserve the invariant.
LEMMA ReaperStep == Inv /\ (Reaper \/ ReaperFault) => Inv'
<1> SUFFICES ASSUME Inv, Reaper \/ ReaperFault PROVE Inv'
  OBVIOUS
<1>1. UNCHANGED <<status, track, jobs, cancelled, hedge, mgr, msg, plan>>
  BY DEF Reaper, ReaperFault, FindOrphan, RemoveOrphan, RequeueOrphan
<1>2. HedgesOfItem' /\ Standing' /\ CancelledOnlyWhenSettled' /\ TrackMatchesStatus'
  BY <1>1, ItemsFrame
<1>3. ASSUME NEW j \in ToSet(inProgress), FindOrphan(j) PROVE TypeOK' /\ Carried'
  <2>1. j \in JobIds
    <3>1. inProgress \in Seq(JobIds)
      BY DEF Inv, TypeOK
    <3> HIDE DEF JobIds
    <3> QED BY <3>1, LenProperties, ElementOfSeq DEF ToSet
  <2>2. /\ reaper' = [pc |-> "remove", job |-> j] /\ lapses' \in Nat /\ leases' = leases \ {j}
        /\ UNCHANGED <<storeVars, jobs, pending, inProgress, cancelled, completed, hedge,
                       mgrVars, workerVars, faults>>
    BY <1>3 DEF Inv, TypeOK, FindOrphan
  <2>3. TypeOK'
    BY <2>1, <2>2, WorkerFrame DEF Inv, TypeOK
  <2>4. Carried'
    BY <2>1, <2>2 DEF Inv, Carried, Pushed, ItemOf
  <2> QED BY <2>3, <2>4
<1>4. ASSUME RemoveOrphan PROVE TypeOK' /\ Carried'
  <2>1. /\ inProgress' = RemoveFirst(inProgress, reaper.job)
        /\ reaper' = Scan \/ reaper' = [reaper EXCEPT !.pc = "requeue"]
        /\ UNCHANGED <<storeVars, jobs, pending, leases, cancelled, completed, hedge,
                       mgrVars, workerVars, faults, lapses>>
    BY <1>4 DEF RemoveOrphan
  <2>2. inProgress' \in Seq(JobIds)
    BY <2>1, RemoveFirstType DEF Inv, TypeOK
  <2>3. reaper' \in [pc : {"scan", "remove", "requeue"}, job : SomeJob]
    BY <2>1 DEF Inv, TypeOK, Scan
  <2>4. TypeOK'
    BY <2>1, <2>2, <2>3, WorkerFrame DEF Inv, TypeOK
  <2>5. Carried'
    <3>1. reaper.job # NoJob
      BY <1>4 DEF Inv, Carried, RemoveOrphan
    <3> QED BY <2>1, <3>1 DEF Inv, TypeOK, Carried, Pushed, ItemOf, Scan
  <2> QED BY <2>4, <2>5
<1>5. ASSUME RequeueOrphan PROVE TypeOK' /\ Carried'
  <2>1. reaper.job \in JobIds
    BY <1>5 DEF Inv, TypeOK, Carried, RequeueOrphan
  <2>2. PendingListFor(reaper.job) \in Queues
    BY DEF PendingListFor
  <2>3. pending' \in [Queues -> Seq(JobIds)]
    <3>1. pending \in [Queues -> Seq(JobIds)]
      BY DEF Inv, TypeOK
    <3>2. Append(pending[PendingListFor(reaper.job)], reaper.job) \in Seq(JobIds)
      BY <2>1, <2>2, <3>1, AppendProperties
    <3> HIDE DEF Queues, JobIds
    <3> QED BY <1>5, <3>1, <3>2 DEF RequeueOrphan
  <2>4. /\ reaper' = Scan
        /\ UNCHANGED <<storeVars, jobs, inProgress, leases, cancelled, completed, hedge,
                       mgrVars, workerVars, faults, lapses>>
    BY <1>5 DEF RequeueOrphan
  <2>5. TypeOK'
    BY <2>3, <2>4, WorkerFrame DEF Inv, TypeOK, Scan
  <2>6. Carried'
    BY <2>4 DEF Inv, Carried, Pushed, ItemOf, Scan
  <2> QED BY <2>5, <2>6
<1>6. ASSUME ReaperFault PROVE TypeOK' /\ Carried'
  <2>1. reaper' = Scan /\ faults' \in Nat /\ UNCHANGED <<storeVars, redisVars, mgrVars, workerVars, lapses>>
    BY <1>6 DEF Inv, TypeOK, ReaperFault
  <2>2. TypeOK'
    BY <2>1, WorkerFrame DEF Inv, TypeOK, Scan
  <2>3. Carried'
    BY <2>1 DEF Inv, Carried, Pushed, ItemOf, Scan
  <2> QED BY <2>2, <2>3
<1> QED BY <1>2, <1>3, <1>4, <1>5, <1>6 DEF Reaper, Inv

\* A hedge falling due preserves the invariant.
LEMMA ClockStep == Inv /\ Clock => Inv'
<1> SUFFICES ASSUME Inv, NEW i \in Items, HedgeFallsDue(i) PROVE Inv'
  BY DEF Clock
<1> DEFINE h == [hedge[i] EXCEPT !.due = TRUE]
<1>1. h \in HedgeRecords /\ h.primary = hedge[i].primary /\ h.backup = hedge[i].backup
        /\ h.backupSource = hedge[i].backupSource
  <2>1. hedge[i] \in HedgeRecords
    BY DEF Inv, TypeOK
  <2> QED BY <2>1
<1>2. hedge' = [hedge EXCEPT ![i] = h]
  BY DEF HedgeFallsDue
<1> HIDE DEF h
<1>3. hedge' \in [Items -> HedgeRecords'] /\ HedgesOfItem'
  BY <1>1, <1>2, HedgeUpdate DEF Inv, HedgesOfItem, HedgeFallsDue
<1>4. TypeOK'
  <2>1. UNCHANGED <<storeVars, jobs, pending, inProgress, leases, cancelled, completed,
                    mgrVars, workerVars, reaperVars, faults>>
    BY DEF HedgeFallsDue
  <2> QED BY <1>3, <2>1 DEF Inv, TypeOK, Status
<1>5. Carried' /\ Standing' /\ CancelledOnlyWhenSettled' /\ TrackMatchesStatus'
  BY DEF Inv, Carried, Standing, CancelledOnlyWhenSettled, TrackMatchesStatus,
         HedgeFallsDue, Pushed, ItemOf, Settled
<1> QED BY <1>3, <1>4, <1>5 DEF Inv

\* No push, claim, cancellation or requeue puts a job where another source's worker
\* would take it.
LEMMA RoutedStep == ASSUME TypeOK, Carried, HedgesOfItem, Routed, Next PROVE Routed'
<1> DEFINE Of(s) == {j \in JobIds : SourceOf(j) = s}
<1>0. /\ \A s \in Sources : pending[s] \in Seq(Of(s))
      /\ \A p \in Processes : worker[p].pc # "idle" => SourceOf(worker[p].job) \in Serves(p)
  BY DEF Routed
<1>1. ASSUME UNCHANGED jobs, \A s \in Sources : pending'[s] \in Seq(Of(s)),
             \A p \in Processes : worker'[p].pc # "idle" => SourceOf(worker'[p].job) \in Serves(p)
      PROVE  Routed'
  BY <1>1 DEF Routed, SourceOf, Serves
<1>2. ASSUME UNCHANGED <<jobs, pending, worker>> PROVE Routed'
  BY <1>0, <1>2 DEF Routed, SourceOf, Serves
<1>3. ASSUME ReleaseHedge PROVE Routed'
  <2> DEFINE L == Losers(ItemOf(msg.job), msg.job)
             after(q) == IF \E j \in L : SourceOf(j) = q
                           THEN RemoveFirst(pending[q], CHOOSE j \in L : SourceOf(j) = q)
                           ELSE pending[q]
  <2>1. ASSUME NEW s \in Sources PROVE after(s) \in Seq(Of(s))
    <3>1. pending[s] \in Seq(Of(s))
      BY <1>0
    <3>2. \A e : RemoveFirst(pending[s], e) \in Seq(Of(s))
      BY <3>1, RemoveFirstType
    <3> HIDE DEF Of
    <3> QED BY <3>1, <3>2
  <2>2. pending' = [q \in Queues |-> after(q)] /\ UNCHANGED <<jobs, worker>>
    BY <1>3 DEF ReleaseHedge
  <2> HIDE DEF after, Of
  <2>3. \A s \in Sources : pending'[s] \in Seq(Of(s))
    BY <2>1, <2>2
  <2> QED BY <1>0, <1>1, <2>2, <2>3 DEF Of
<1>4. ASSUME NEW i \in Items, NEW s \in Sources, Push(i, s), UNCHANGED worker PROVE Routed'
  <2>1. /\ Len(jobs') = Len(jobs) + 1 /\ Len(jobs) \in Nat
        /\ \A j \in JobIds : jobs'[j] = jobs[j]
        /\ jobs'[Len(jobs')] = [item |-> i, source |-> s]
        /\ JobIds \subseteq JobIds' /\ Len(jobs') \in JobIds'
    <3>1. jobs \in Seq([item : Items, source : Sources])
            /\ [item |-> i, source |-> s] \in [item : Items, source : Sources]
      BY DEF TypeOK
    <3>2. jobs' = Append(jobs, [item |-> i, source |-> s])
      BY <1>4 DEF Push, Payload
    <3> QED BY <3>1, <3>2, AppendProperties, LenProperties
  <2>2. \A k \in Sources : Of(k) \subseteq Of(k)'
    BY <2>1 DEF SourceOf
  <2>3. \A k \in Sources : pending[k] \in Seq(Of(k)')
    <3> SUFFICES ASSUME NEW k \in Sources PROVE pending[k] \in Seq(Of(k)')
      OBVIOUS
    <3>1. pending[k] \in Seq(Of(k)) /\ Of(k) \subseteq Of(k)'
      BY <1>0, <2>2
    <3> HIDE DEF Of
    <3> QED BY <3>1, SeqMonotonic
  <2>4. pending' = [pending EXCEPT ![s] = Append(@, Len(jobs'))]
    BY <1>4, <2>1 DEF Push
  <2>5. Len(jobs') \in Of(s)'
    BY <2>1 DEF SourceOf
  <2>6. \A k \in Sources : pending'[k] \in Seq(Of(k)')
    <3>1. Append(pending[s], Len(jobs')) \in Seq(Of(s)')
      BY <2>3, <2>5, AppendProperties
    <3>2. pending \in [Queues -> Seq(JobIds)]
      BY DEF TypeOK
    <3> HIDE DEF Of
    <3> QED BY <2>3, <2>4, <3>1, <3>2
  <2>7. \A p \in Processes : worker'[p].pc # "idle" => SourceOf(worker[p].job)' \in Serves(p)
    <3>1. \A p \in Processes : worker[p].pc # "idle" => worker[p].job \in JobIds
      BY DEF TypeOK, Carried
    <3>2. \A j \in JobIds : SourceOf(j)' = SourceOf(j)
      BY <2>1 DEF SourceOf
    <3> QED BY <1>0, <1>4, <3>1, <3>2
  <2> QED BY <1>4, <2>6, <2>7 DEF Routed, Serves
<1>5. ASSUME NEW p \in Processes, NEW s \in Sources, Claim(p, s) PROVE Routed'
  <2>1. pending[s] \in Seq(Of(s)) /\ pending[s] # <<>>
    BY <1>0, <1>5 DEF Claim
  <2> HIDE DEF Of
  <2>2. Last(pending[s]) \in Of(s) /\ Front(pending[s]) \in Seq(Of(s))
    <3>1. Len(pending[s]) \in Nat \ {0} /\ \A n \in 1..Len(pending[s]) : pending[s][n] \in Of(s)
      BY <2>1, EmptySeq, ElementOfSeq
    <3>2. SubSeq(pending[s], 1, Len(pending[s]) - 1) \in Seq(Of(s))
      BY <3>1, SubSeqProperties
    <3> QED BY <3>1, <3>2 DEF Last, Front
  <2>3. \A k \in Sources : pending'[k] \in Seq(Of(k))
    BY <1>0, <1>5, <2>2 DEF Claim, TypeOK
  <2>4. SourceOf(Last(pending[s])) = s
    BY <2>2 DEF Of
  <2>5. s \in Serves(p)
    BY <1>5 DEF Claim
  <2>6. \A k \in Processes : worker'[k].pc # "idle" => SourceOf(worker'[k].job) \in Serves(k)
    BY <1>0, <1>5, <2>4, <2>5 DEF Claim, TypeOK
  <2>7. UNCHANGED jobs
    BY <1>5 DEF Claim
  <2> QED BY <1>1, <2>3, <2>6, <2>7 DEF Of
<1>6. ASSUME NEW p \in Processes, UNCHANGED <<jobs, pending>>,
             \/ worker' = [worker EXCEPT ![p] = Idle]
             \/ /\ worker[p].pc # "idle"
                /\ \A k \in Processes : worker'[k].job = worker[k].job
                /\ \A k \in Processes \ {p} : worker'[k] = worker[k]
      PROVE Routed'
  <2>1. \A k \in Processes : worker'[k].pc # "idle" => SourceOf(worker'[k].job) \in Serves(k)
    <3>1. CASE worker' = [worker EXCEPT ![p] = Idle]
      <4>1. \A k \in Processes : worker'[k] = IF k = p THEN Idle ELSE worker[k]
        BY <3>1 DEF TypeOK
      <4> QED BY <1>0, <4>1 DEF Idle
    <3>2. CASE worker' # [worker EXCEPT ![p] = Idle]
      BY <1>0, <1>6, <3>2
    <3> QED BY <3>1, <3>2
  <2>2. \A s \in Sources : pending'[s] \in Seq(Of(s))
    BY <1>0, <1>6
  <2> QED BY <1>1, <1>6, <2>1, <2>2
<1>7. ASSUME RequeueOrphan PROVE Routed'
  <2>1. reaper.job \in JobIds /\ UNCHANGED <<jobs, worker>>
    BY <1>7 DEF TypeOK, Carried, RequeueOrphan
  <2>2. PendingListFor(reaper.job) \in Sources => reaper.job \in Of(PendingListFor(reaper.job))
    BY <2>1, NamesAreDistinct DEF PendingListFor
  <2>3. pending' = [pending EXCEPT ![PendingListFor(reaper.job)] = Append(@, reaper.job)]
    BY <1>7 DEF RequeueOrphan
  <2> HIDE DEF Of
  <2>4. \A s \in Sources : pending'[s] \in Seq(Of(s))
    <3> SUFFICES ASSUME NEW s \in Sources PROVE pending'[s] \in Seq(Of(s))
      OBVIOUS
    <3>1. CASE s = PendingListFor(reaper.job)
      <4>1. Append(pending[s], reaper.job) \in Seq(Of(s))
        BY <1>0, <2>2, <3>1, AppendProperties
      <4> QED BY <2>3, <3>1, <4>1 DEF TypeOK
    <3>2. CASE s # PendingListFor(reaper.job)
      BY <1>0, <2>3, <3>2 DEF TypeOK
    <3> QED BY <3>1, <3>2
  <2>5. \A p \in Processes : worker'[p].pc # "idle" => SourceOf(worker'[p].job) \in Serves(p)
    BY <1>0, <2>1
  <2> QED BY <1>1, <2>1, <2>4, <2>5 DEF Of
<1>8. ASSUME NEW p \in Processes, WorkerStep(p) \/ WorkerFault(p) \/ StatsFault(p)
      PROVE  Routed'
  <2>1. CASE SkipCancelled(p) \/ PushCompleted(p) \/ WorkerFault(p)
    BY <2>1, <1>6 DEF SkipCancelled, PushCompleted, WorkerFault
  <2>2. CASE StartGenerating(p)
    BY <2>2, <1>6 DEF StartGenerating, TypeOK
  <2>4. CASE StatsFault(p)
    <3>1. worker[p].pc # "idle" /\ UNCHANGED <<jobs, pending>>
      BY <2>4 DEF StatsFault
    <3>2. \A k \in Processes : worker'[k].job = worker[k].job
      BY <2>4 DEF StatsFault, TypeOK
    <3>3. \A k \in Processes \ {p} : worker'[k] = worker[k]
      BY <2>4 DEF StatsFault, TypeOK
    <3> QED BY <1>6, <3>1, <3>2, <3>3
  <2>3. ASSUME NEW outcome \in Outcomes, Acknowledge(p, outcome) PROVE Routed'
    <3>1. worker[p].pc # "idle" /\ UNCHANGED <<jobs, pending>>
      BY <2>3 DEF Acknowledge
    <3>2. \A k \in Processes : worker'[k].job = worker[k].job
      BY <2>3 DEF Acknowledge, TypeOK
    <3>3. \A k \in Processes \ {p} : worker'[k] = worker[k]
      BY <2>3 DEF Acknowledge, TypeOK
    <3> QED BY <1>6, <3>1, <3>2, <3>3
  <2> QED BY <1>5, <1>8, <2>1, <2>2, <2>3, <2>4 DEF WorkerStep
<1>9. CASE StoreUsers \/ ManagerFault \/ ReaperFault \/ Clock
  BY <1>2, <1>9 DEF StoreUsers, Enqueue, ClaimNextReady, MarkPlayed, ReleaseToReady,
     RequeueInterrupted, ManagerFault, ReaperFault, Clock, HedgeFallsDue
<1>10. CASE Manager
  <2>1. ASSUME NEW i \in Items, FireHedge(i) PROVE Routed'
    <3>1. hedge[i].backupSource \in Sources
      BY <2>1 DEF HedgesOfItem, FireHedge, DueToFire, Hedged
    <3> QED BY <1>4, <2>1, <3>1 DEF FireHedge
  <2>2. CASE PushPrimary
    BY <1>4, <2>2 DEF Carried, PushPrimary
  <2>3. CASE PopCompleted \/ ApplyWin \/ ApplyLate \/ ApplySideFailed \/ ApplyFailed \/ MarkFailed
               \/ RecordTrack \/ ForgetHedge \/ SaveHedge \/ MarkGenerating \/ RememberHedge
    BY <1>2, <2>3 DEF PopCompleted, ApplyWin, ApplyLate, ApplySideFailed, ApplyFailed, MarkFailed,
       RecordTrack, ForgetHedge, SaveHedge, MarkGenerating, RememberHedge
  <2>4. ASSUME NEW i \in Items, ChooseSource(i) PROVE Routed'
    BY <1>2, <2>4 DEF ChooseSource
  <2> QED BY <1>3, <1>10, <2>1, <2>2, <2>3, <2>4 DEF Manager
<1>11. CASE Reaper
  BY <1>2, <1>7, <1>11 DEF Reaper, FindOrphan, RemoveOrphan
<1> QED BY <1>8, <1>9, <1>10, <1>11 DEF Next

-----------------------------------------------------------------------------
(* The theorems *)

\* The invariant holds when everything is empty.
LEMMA InvInit == Init => Inv /\ Routed
<1> SUFFICES ASSUME Init PROVE Inv /\ Routed
  OBVIOUS
<1> USE DEF Init
<1>1. JobIds = {} /\ Len(jobs) = 0
  OBVIOUS
<1>2. TypeOK
  BY DEF TypeOK, Status, NoHedge, NoMsg, NoPlan, Idle, Scan
<1>3. Carried /\ HedgesOfItem /\ Standing
  BY <1>1 DEF Carried, HedgesOfItem, Standing, NoHedge, Idle, Scan
<1>4. CancelledOnlyWhenSettled /\ TrackMatchesStatus
  BY DEF CancelledOnlyWhenSettled, TrackMatchesStatus
<1>5. Routed
  BY <1>1 DEF Routed, Idle
<1> QED BY <1>2, <1>3, <1>4, <1>5 DEF Inv

\* The invariant is inductive.
LEMMA InvStep == Inv /\ Routed /\ [Next]_vars => Inv' /\ Routed'
<1> SUFFICES ASSUME Inv, Routed, [Next]_vars PROVE Inv' /\ Routed'
  OBVIOUS
<1>1. CASE Next
  <2>1. Inv'
    BY <1>1, StoreStep, ManagerStep, WorkersStep, ReaperStep, ClockStep DEF Next
  <2>2. Routed'
    BY <1>1, RoutedStep DEF Inv
  <2> QED BY <2>1, <2>2
<1>2. CASE UNCHANGED vars
  <2>1. HedgesOfItem' /\ Standing' /\ CancelledOnlyWhenSettled' /\ TrackMatchesStatus'
    BY <1>2, ItemsFrame DEF vars
  <2>2. TypeOK' /\ Carried'
    BY <1>2 DEF vars, Inv, TypeOK, Carried, Status, Pushed, ItemOf
  <2>3. Routed'
    BY <1>2 DEF vars, Routed, SourceOf, Serves
  <2> QED BY <2>1, <2>2, <2>3 DEF Inv
<1> QED BY <1>1, <1>2

\* The inductive invariant holds in every reachable state, with any faults of the
\* manager, the workers and the reaper.
THEOREM Invariance == Spec => [](Inv /\ Routed)
BY InvInit, InvStep, PTL DEF Spec

\* Every id and source in Redis or in a process is one that exists (TypeOK).
THEOREM TypeCorrect == Spec => []TypeOK
<1>1. Inv => TypeOK
  BY DEF Inv
<1> QED BY <1>1, Invariance, PTL

\* cancel_job is never called for a job whose item still waits for an outcome, in
\* spite of hedges, requeues, late completions and crashes (CancelledOnlyWhenSettled).
THEOREM CancellationSafe == Spec => []CancelledOnlyWhenSettled
<1>1. Inv => CancelledOnlyWhenSettled
  BY DEF Inv
<1> QED BY <1>1, Invariance, PTL

\* An aired item has a file of one of its own jobs, and no item loses or swaps its
\* file, whatever mark_ready's two halves are interleaved with (TrackMatchesStatus).
THEOREM FilesMatchStatus == Spec => []TrackMatchesStatus
<1>1. Inv => TrackMatchesStatus
  BY DEF Inv
<1> QED BY <1>1, Invariance, PTL

-----------------------------------------------------------------------------
(* The refinement *)

\* Initially every item is absent in the abstract specification too.
LEMMA LifecycleInit == Init => Lifecycle!Init
BY DEF Init, Lifecycle!Init, Phase

\* Every step of the protocol is one step of an item's lifecycle, or none.
LEMMA LifecycleStep == ASSUME Inv, [Next]_vars PROVE [Lifecycle!Next]_(Lifecycle!vars)
<1> DEFINE phase == [i \in Items |-> Phase(i)]
<1> USE DEF Lifecycle!vars
<1>0. /\ status \in [Items -> Status] /\ track \in [Items -> SomeJob]
      /\ \A i \in Items : status[i] \in {"playing", "played"} => track[i] # NoJob
      /\ \A i \in Items : track[i] # NoJob => status[i] \in {"ready", "playing", "played"}
  BY DEF Inv, TypeOK, TrackMatchesStatus
<1>1. ASSUME UNCHANGED <<status, track>> PROVE UNCHANGED Lifecycle!vars
  BY <1>1 DEF Phase
<1>2. ASSUME NEW i \in Items, NEW new, status' = [status EXCEPT ![i] = new], UNCHANGED track,
             new # "ready" \/ track[i] # NoJob
      PROVE  phase' = [phase EXCEPT ![i] = new]
  BY <1>0, <1>2 DEF Phase
<1>3. CASE StoreUsers
  <2>1. ASSUME NEW i \in Items, Enqueue(i) PROVE Lifecycle!Submit(i)
    <3>1. phase[i] = "absent" /\ phase' = [phase EXCEPT ![i] = "queued"] /\ UNCHANGED track
      BY <1>2, <2>1 DEF Enqueue, Phase
    <3> QED BY <3>1 DEF Lifecycle!Submit, Lifecycle!Move
  <2>2. ASSUME NEW i \in Items, ClaimNextReady(i) PROVE Lifecycle!Air(i)
    <3>1. status[i] = "ready" /\ track[i] # NoJob
      BY <2>2 DEF ClaimNextReady, Oldest, Airable
    <3>2. phase[i] = "ready" /\ phase' = [phase EXCEPT ![i] = "playing"] /\ UNCHANGED track
      BY <1>2, <2>2, <3>1 DEF ClaimNextReady, Phase
    <3> QED BY <3>2 DEF Lifecycle!Air, Lifecycle!Move
  <2>3. ASSUME NEW i \in Items, MarkPlayed(i) PROVE Lifecycle!Finish(i)
    <3>1. phase[i] = "playing" /\ phase' = [phase EXCEPT ![i] = "played"] /\ UNCHANGED track
      BY <1>2, <2>3 DEF MarkPlayed, Phase
    <3> QED BY <3>1 DEF Lifecycle!Finish, Lifecycle!Move
  <2>4. ASSUME NEW i \in Items, ReleaseToReady(i) PROVE Lifecycle!PutBack({i})
    <3>1. phase[i] = "playing" /\ phase' = [phase EXCEPT ![i] = "ready"] /\ UNCHANGED track
      BY <1>0, <1>2, <2>4 DEF ReleaseToReady, Phase
    <3>2. phase' = [k \in Items |-> IF k \in {i} THEN "ready" ELSE phase[k]]
      BY <3>1
    <3> QED BY <3>1, <3>2 DEF Lifecycle!PutBack
  <2>5. ASSUME RequeueInterrupted PROVE Lifecycle!PutBack({i \in Items : status[i] = "playing"})
    <3>1. /\ \A i \in {k \in Items : status[k] = "playing"} : phase[i] = "playing"
          /\ phase' = [i \in Items |-> IF i \in {k \in Items : status[k] = "playing"}
                                         THEN "ready" ELSE phase[i]]
          /\ UNCHANGED track
      BY <1>0, <2>5 DEF RequeueInterrupted, Phase
    <3> QED BY <3>1 DEF Lifecycle!PutBack
  <2> QED BY <1>3, <2>1, <2>2, <2>3, <2>4, <2>5 DEF StoreUsers, Lifecycle!Next
<1>4. CASE Manager
  <2>1. ASSUME ApplyWin PROVE UNCHANGED Lifecycle!vars
    <3>1. /\ Generating(ItemOf(msg.job)) /\ UNCHANGED track
          /\ status' = [status EXCEPT ![ItemOf(msg.job)] = "ready"]
      BY <2>1 DEF ApplyWin
    <3>2. phase' = phase
      BY <1>0, <3>1 DEF Generating, Phase
    <3> QED BY <3>1, <3>2
  <2>2. ASSUME RecordTrack PROVE Lifecycle!Deliver(ItemOf(msg.job))
    <3> DEFINE i == ItemOf(msg.job)
    <3>1. msg.job \in JobIds /\ i \in Items /\ status[i] = "ready" /\ track[i] = NoJob
      BY <2>2, ItemOfJob DEF Inv, TypeOK, Carried, Standing, RecordTrack
    <3>2. track' = [track EXCEPT ![i] = msg.job] /\ UNCHANGED status
      BY <2>2 DEF RecordTrack
    <3> HIDE DEF i
    <3>3. phase[i] = "generating" /\ phase' = [phase EXCEPT ![i] = "ready"]
      <4>1. Phase(i) = "generating"
        BY <3>1 DEF Phase
      <4>2. \A k \in Items : track'[k] = IF k = i THEN msg.job ELSE track[k]
        BY <1>0, <3>2
      <4>3. \A k \in Items : Phase(k)' = IF k = i THEN "ready" ELSE Phase(k)
        BY <3>1, <3>2, <4>2 DEF Phase
      <4> QED BY <3>1, <4>1, <4>3
    <3>4. track'[i] = msg.job
      BY <1>0, <3>1, <3>2
    <3>5. track'[i] \in Nat \ {NoJob}
      BY <3>1, <3>4
    <3>6. track' = [track EXCEPT ![i] = track'[i]]
      BY <3>2, <3>4
    <3>7. Lifecycle!Deliver(i)
      BY <3>1, <3>3, <3>5, <3>6 DEF Lifecycle!Deliver, Lifecycle!Move
    <3> QED BY <3>7 DEF i
  <2>3. ASSUME MarkFailed PROVE Lifecycle!GiveUp(ItemOf(msg.job)) \/ UNCHANGED Lifecycle!vars
    <3>1. CASE Generating(ItemOf(msg.job))
      <4>1. ItemOf(msg.job) \in Items
        BY <2>3, ItemOfJob DEF Inv, TypeOK, Carried, MarkFailed
      <4>2. status' = [status EXCEPT ![ItemOf(msg.job)] = "failed"] /\ UNCHANGED track
        BY <2>3, <3>1 DEF MarkFailed
      <4>3. /\ phase[ItemOf(msg.job)] = "generating"
            /\ phase' = [phase EXCEPT ![ItemOf(msg.job)] = "failed"]
        BY <1>2, <3>1, <4>1, <4>2 DEF Generating, Phase
      <4> QED BY <4>2, <4>3 DEF Lifecycle!GiveUp, Lifecycle!Move
    <3>2. CASE ~Generating(ItemOf(msg.job))
      BY <1>1, <2>3, <3>2 DEF MarkFailed
    <3> QED BY <3>1, <3>2
  <2>4. ASSUME MarkGenerating PROVE Lifecycle!Assign(plan.item)
    <3>1. plan.item \in Items /\ status[plan.item] = "queued"
      BY <2>4 DEF Inv, Carried, Standing, MarkGenerating
    <3>2. status' = [status EXCEPT ![plan.item] = "generating"] /\ UNCHANGED track
      BY <2>4 DEF MarkGenerating
    <3>3. phase[plan.item] = "queued" /\ phase' = [phase EXCEPT ![plan.item] = "generating"]
      BY <1>2, <3>1, <3>2 DEF Phase
    <3> QED BY <3>2, <3>3 DEF Lifecycle!Assign, Lifecycle!Move
  <2>5. ASSUME NEW i \in Items, FireHedge(i) \/ ChooseSource(i) PROVE UNCHANGED Lifecycle!vars
    BY <1>1, <2>5 DEF FireHedge, ChooseSource
  <2>6. CASE PopCompleted \/ ApplyLate \/ ApplySideFailed \/ ApplyFailed \/ ReleaseHedge
               \/ ForgetHedge \/ SaveHedge \/ PushPrimary \/ RememberHedge
    BY <1>1, <2>6 DEF PopCompleted, ApplyLate, ApplySideFailed, ApplyFailed, ReleaseHedge,
       ForgetHedge, SaveHedge, PushPrimary, RememberHedge
  <2>7. /\ ApplyWin \/ MarkFailed \/ RecordTrack => ItemOf(msg.job) \in Items
        /\ MarkGenerating => plan.item \in Items
    BY ItemOfJob DEF Inv, TypeOK, Carried, ApplyWin, MarkFailed, RecordTrack, MarkGenerating
  <2> QED BY <1>4, <2>1, <2>2, <2>3, <2>4, <2>5, <2>6, <2>7 DEF Manager, Lifecycle!Next
<1>5. CASE ManagerFault \/ Reaper \/ ReaperFault \/ Clock
  BY <1>1, <1>5 DEF ManagerFault, Reaper, FindOrphan, RemoveOrphan, RequeueOrphan,
     ReaperFault, Clock, HedgeFallsDue
<1>6. ASSUME NEW p \in Processes, WorkerStep(p) \/ WorkerFault(p) \/ StatsFault(p)
      PROVE  UNCHANGED Lifecycle!vars
  BY <1>1, <1>6 DEF WorkerStep, WorkerFault, StatsFault, Claim, SkipCancelled, StartGenerating,
     Acknowledge, PushCompleted
<1>7. CASE UNCHANGED vars
  BY <1>1, <1>7 DEF vars
<1> QED BY <1>3, <1>4, <1>5, <1>6, <1>7 DEF Next

\* The manager, workers, reaper and playout together implement the item lifecycle:
\* at most one file delivered for an item, no second assignment, no way back from
\* played or failed (ImplementsLifecycle).
THEOREM Refinement == Spec => ImplementsLifecycle
<1>1. Init => Lifecycle!Init
  BY LifecycleInit
<1>2. Inv /\ [Next]_vars => [Lifecycle!Next]_(Lifecycle!vars)
  BY LifecycleStep
<1> QED BY <1>1, <1>2, Invariance, PTL DEF Spec, ImplementsLifecycle, Lifecycle!Spec

=============================================================================
