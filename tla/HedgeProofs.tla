---------------------------- MODULE HedgeProofs ----------------------------
(***************************************************************************)
(* Two proofs about races, for every number of items and sources and any   *)
(* faults of the workers and the reaper.  The losers are told, as long as  *)
(* the manager does not stop at five places of the race (HedgeInv): at     *)
(* every step from the first push to the end of the release all the jobs   *)
(* of the item are the two sides of its record, or the one that was pushed *)
(* last, or there is only one.  And an item is given up only when no side  *)
(* is left, as long as the manager does not stop at two of the five        *)
(* (ContestInv): that much of it is needed for the items in generation.    *)
(***************************************************************************)
EXTENDS JobProtocolProofs

Aired(i) == status[i] \in {"ready", "playing", "played"}

\* The item was won and its hedge is not released yet.
Releasing(i) == mgr \in {"track", "release", "forget"} /\ ItemOf(msg.job) = i

\* The item is given up: its record is gone, and its row is about to follow.
Failing(i) == mgr = "fail" /\ ItemOf(msg.job) = i

\* Some job of item i may still win it.
Contested(i) == status[i] = "generating" /\ ~Failing(i)

\* What happens to item i's jobs next is up to the manager.
Racing(i) == Contested(i) \/ (Releasing(i) /\ Aired(i))

\* The sides of the record, and the job that is pushed but not written into it.
Sides(i) == {hedge[i].primary, hedge[i].backup}
              \union {j \in {Pushed} : mgr = "save" /\ plan.item = i}

NoneYet == mgr = "push" => \A j \in JobIds : ItemOf(j) # plan.item

AtWork ==
  /\ mgr \in {"push", "save", "remember"} => status[plan.item] = "generating"
  /\ mgr = "save" => Hedged(plan.item) /\ hedge[plan.item].backup = NoJob
  /\ mgr \in {"push", "remember"} => ~Hedged(plan.item)

RecordsOfRaces == \A i \in Items : Hedged(i) => Racing(i)

RacersKnown ==
  \A i \in Items : Racing(i) =>
    IF Hedged(i) THEN \A j \in JobIds : ItemOf(j) = i => j \in Sides(i)
                 ELSE \A j, k \in JobIds : ItemOf(j) = i /\ ItemOf(k) = i => j = k

WinnerRecorded == mgr = "release" /\ Aired(ItemOf(msg.job)) => track[ItemOf(msg.job)] = msg.job

HedgeInv ==
  /\ NoneYet /\ AtWork /\ RecordsOfRaces /\ RacersKnown /\ WinnerRecorded
  /\ LosersAreCancelled

-----------------------------------------------------------------------------
(* Steps that leave races alone *)

\* What the manager holds, and whose jobs there are.
LEMMA InHand ==
  ASSUME Inv
  PROVE  /\ status \in [Items -> Status] /\ track \in [Items -> SomeJob]
         /\ hedge \in [Items -> HedgeRecords]
         /\ \A j \in JobIds : ItemOf(j) \in Items /\ j # NoJob
         /\ mgr \in {"apply", "fail", "track", "release", "forget"} =>
              msg.job \in JobIds /\ ItemOf(msg.job) \in Items
         /\ mgr \in {"save", "mark", "push", "remember"} => plan.item \in Items
         /\ mgr \in {"save", "remember"} => Pushed \in JobIds /\ ItemOf(Pushed) = plan.item
<1>1. TypeOK /\ Carried
  BY DEF Inv
<1>2. \A j \in JobIds : ItemOf(j) \in Items
  BY <1>1, ItemOfJob
<1>3. \A j \in JobIds : j # NoJob
  BY DEF JobIds, NoJob
<1>4. mgr \in {"apply", "fail", "track", "release", "forget"} => msg.job \in JobIds
  BY <1>1 DEF TypeOK, Carried, SomeJob
<1>5. Len(jobs) \in Nat
  BY <1>1, LenProperties DEF TypeOK
<1>6. mgr \in {"save", "remember"} => Pushed \in JobIds /\ ItemOf(Pushed) = plan.item
  BY <1>1, <1>5 DEF Carried, Pushed, JobIds, NoJob
<1>7. mgr \in {"save", "mark", "push", "remember"} => plan.item \in Items
  BY <1>1 DEF Carried
<1> QED BY <1>1, <1>2, <1>3, <1>4, <1>6, <1>7 DEF TypeOK

\* Job ids mean what they meant.
LEMMA JobsKept ==
  ASSUME UNCHANGED jobs
  PROVE  JobIds' = JobIds /\ Pushed' = Pushed /\ \A j : ItemOf(j)' = ItemOf(j)
BY DEF JobIds, Pushed, ItemOf

\* The statements of intake and playout: none takes a row into or out of generating,
\* or into those that are aired.
LEMMA StoreKeepsStandings ==
  ASSUME Inv, StoreUsers
  PROVE  /\ \A i \in Items : /\ status'[i] = "generating" <=> status[i] = "generating"
                             /\ Aired(i)' <=> Aired(i)
         /\ UNCHANGED <<track, redisVars, mgrVars>>
<1>1. status \in [Items -> Status]
  BY DEF Inv, TypeOK
<1>2. ASSUME NEW k \in Items, Enqueue(k) \/ ClaimNextReady(k) \/ MarkPlayed(k) \/ ReleaseToReady(k)
      PROVE  /\ status[k] # "generating" /\ status'[k] # "generating"
             /\ Aired(k)' <=> Aired(k)
             /\ \A i \in Items : i # k => status'[i] = status[i]
             /\ UNCHANGED <<track, redisVars, mgrVars>>
  BY <1>1, <1>2 DEF Enqueue, ClaimNextReady, Oldest, Airable, MarkPlayed, ReleaseToReady, Aired
<1>3. CASE RequeueInterrupted
  BY <1>1, <1>3 DEF RequeueInterrupted, Aired
<1>4. CASE \E k \in Items : Enqueue(k) \/ ClaimNextReady(k) \/ MarkPlayed(k) \/ ReleaseToReady(k)
  BY <1>2, <1>4 DEF Aired
<1> QED BY <1>3, <1>4 DEF StoreUsers

\* The steps of anyone but the manager.
Others ==
  \/ StoreUsers \/ Reaper \/ ReaperFault \/ Clock
  \/ \E p \in Processes : WorkerStep(p) \/ WorkerFault(p) \/ StatsFault(p)

\* They push and settle nothing, and leave the sides of every record.
LEMMA OthersKeep ==
  ASSUME Inv, Others
  PROVE  /\ \A i \in Items : /\ status'[i] = "generating" <=> status[i] = "generating"
                             /\ Aired(i)' <=> Aired(i)
                             /\ hedge'[i].primary = hedge[i].primary
                             /\ hedge'[i].backup = hedge[i].backup
         /\ UNCHANGED <<track, jobs, cancelled, mgr, msg, plan>>
<1>1. CASE StoreUsers
  BY <1>1, StoreKeepsStandings DEF redisVars, mgrVars
<1>2. CASE Clock
  <2>1. hedge \in [Items -> HedgeRecords]
    BY DEF Inv, TypeOK
  <2>2. PICK k \in Items : HedgeFallsDue(k)
    BY <1>2 DEF Clock
  <2>3. hedge' = [hedge EXCEPT ![k] = [hedge[k] EXCEPT !.due = TRUE]]
    BY <2>2 DEF HedgeFallsDue
  <2>4. \A i \in Items : hedge'[i].primary = hedge[i].primary /\ hedge'[i].backup = hedge[i].backup
    BY <2>1, <2>3 DEF HedgeRecords
  <2> QED BY <2>2, <2>4 DEF HedgeFallsDue, storeVars, mgrVars, Aired
<1>3. CASE Reaper \/ ReaperFault
  BY <1>3 DEF Reaper, FindOrphan, RemoveOrphan, RequeueOrphan, ReaperFault, storeVars, redisVars,
              mgrVars, Aired
<1>4. CASE \E p \in Processes : WorkerStep(p) \/ WorkerFault(p) \/ StatsFault(p)
  BY <1>4 DEF WorkerStep, Claim, SkipCancelled, StartGenerating, Acknowledge, PushCompleted,
              WorkerFault, StatsFault, storeVars, redisVars, mgrVars, Aired
<1> QED BY <1>1, <1>2, <1>3, <1>4 DEF Others

LEMMA OthersStep == ASSUME Inv, HedgeInv, Others PROVE HedgeInv'
<1>1. /\ \A i \in Items : /\ status'[i] = "generating" <=> status[i] = "generating"
                          /\ Aired(i)' <=> Aired(i)
                          /\ hedge'[i].primary = hedge[i].primary
                          /\ hedge'[i].backup = hedge[i].backup
      /\ UNCHANGED <<track, jobs, cancelled, mgr, msg, plan>>
  BY OthersKeep
<1>2. JobIds' = JobIds /\ Pushed' = Pushed /\ \A j : ItemOf(j)' = ItemOf(j)
  BY <1>1, JobsKept
<1>3. /\ mgr \in {"apply", "fail", "track", "release", "forget"} => ItemOf(msg.job) \in Items
      /\ mgr \in {"save", "mark", "push", "remember"} => plan.item \in Items
  BY InHand
<1>4. \A i \in Items : (Racing(i)' <=> Racing(i)) /\ (Hedged(i)' <=> Hedged(i)) /\ Sides(i)' = Sides(i)
  BY <1>1, <1>2 DEF Racing, Contested, Failing, Releasing, Hedged, Sides
<1>5. NoneYet' /\ RecordsOfRaces' /\ RacersKnown'
  BY <1>1, <1>2, <1>4 DEF HedgeInv, NoneYet, RecordsOfRaces, RacersKnown
<1>6. AtWork' /\ WinnerRecorded'
  BY <1>1, <1>2, <1>3, <1>4 DEF HedgeInv, AtWork, WinnerRecorded
<1>7. LosersAreCancelled'
  BY <1>1, <1>2 DEF HedgeInv, LosersAreCancelled, Aired
<1> QED BY <1>5, <1>6, <1>7 DEF HedgeInv

-----------------------------------------------------------------------------
(* Steps of the manager *)

\* Between two passes, or on its way to apply or mark, it disturbs no race.
LEMMA QuietStep ==
  ASSUME Inv, HedgeInv, PopCompleted \/ ApplyLate \/ \E i \in Items : ChooseSource(i)
  PROVE  HedgeInv'
<1>1. /\ mgr \in {"poll", "apply"} /\ mgr' \in {"poll", "apply", "mark"}
      /\ cancelled \subseteq cancelled'
      /\ UNCHANGED <<status, track, jobs, hedge>>
  BY DEF PopCompleted, ApplyLate, ChooseSource, Drained, GoTo, Finished, storeVars, redisVars
<1>2. JobIds' = JobIds /\ Pushed' = Pushed /\ \A j : ItemOf(j)' = ItemOf(j)
  BY <1>1, JobsKept
<1>3. \A i \in Items : (Racing(i)' <=> Racing(i)) /\ (Hedged(i)' <=> Hedged(i)) /\ Sides(i)' = Sides(i)
  BY <1>1, <1>2 DEF Racing, Contested, Failing, Releasing, Hedged, Sides
<1>4. NoneYet' /\ AtWork' /\ WinnerRecorded'
  BY <1>1 DEF NoneYet, AtWork, WinnerRecorded
<1>5. RecordsOfRaces' /\ RacersKnown'
  BY <1>1, <1>2, <1>3 DEF HedgeInv, RecordsOfRaces, RacersKnown
<1>6. LosersAreCancelled'
  BY <1>1, <1>2 DEF HedgeInv, LosersAreCancelled
<1> QED BY <1>4, <1>5, <1>6 DEF HedgeInv

\* A result: the item is won, or one side of its race is out, or it is given up, and
\* its record goes.
LEMMA ApplyRaceStep ==
  ASSUME Inv, HedgeInv, ApplyWin \/ ApplySideFailed \/ ApplyFailed
  PROVE  HedgeInv'
<1> DEFINE w == ItemOf(msg.job)
<1>1. /\ mgr = "apply" /\ w \in Items /\ msg.job \in JobIds
      /\ status \in [Items -> Status] /\ hedge \in [Items -> HedgeRecords]
  BY InHand DEF ApplyWin, ApplySideFailed, ApplyFailed
<1>2. UNCHANGED <<track, jobs, cancelled>>
  BY DEF ApplyWin, ApplySideFailed, ApplyFailed, storeVars, redisVars
<1>3. JobIds' = JobIds /\ Pushed' = Pushed /\ \A j : ItemOf(j)' = ItemOf(j)
  BY <1>2, JobsKept
<1>4. \A i \in Items : Hedged(i) => status[i] = "generating"
  BY <1>1 DEF HedgeInv, RecordsOfRaces, Racing, Contested, Failing, Releasing
<1> HIDE DEF w
<1>5. CASE ApplyWin
  <2>1. /\ status[w] = "generating" /\ status' = [status EXCEPT ![w] = "ready"]
        /\ mgr' = "track" /\ msg' = msg /\ hedge' = hedge
    BY <1>5 DEF ApplyWin, Generating, GoTo, redisVars, w
  <2>2. \A i \in Items : (Racing(i)' <=> Racing(i)) /\ (Hedged(i)' <=> Hedged(i)) /\ Sides(i)' = Sides(i)
    BY <1>1, <1>3, <2>1 DEF Racing, Contested, Failing, Releasing, Aired, Hedged, Sides, w
  <2>3. NoneYet' /\ AtWork' /\ WinnerRecorded'
    BY <2>1 DEF NoneYet, AtWork, WinnerRecorded
  <2>4. RecordsOfRaces' /\ RacersKnown'
    BY <1>3, <2>2 DEF HedgeInv, RecordsOfRaces, RacersKnown
  <2>5. LosersAreCancelled'
    BY <1>1, <1>2, <1>3, <2>1 DEF HedgeInv, LosersAreCancelled, w
  <2> QED BY <2>3, <2>4, <2>5 DEF HedgeInv
<1>6. CASE ApplySideFailed
  <2>1. /\ hedge' = [hedge EXCEPT ![w] = SideFailed(hedge[w], msg.job)]
        /\ mgr' = "poll" /\ status' = status
    BY <1>6 DEF ApplySideFailed, Finished, storeVars, w
  <2>2. /\ SideFailed(hedge[w], msg.job).primary = hedge[w].primary
        /\ SideFailed(hedge[w], msg.job).backup = hedge[w].backup
    BY <1>1 DEF SideFailed, HedgeRecords
  <2>3. \A i \in Items : hedge'[i].primary = hedge[i].primary /\ hedge'[i].backup = hedge[i].backup
    BY <1>1, <2>1, <2>2
  <2>4. \A i \in Items : (Racing(i)' <=> Racing(i)) /\ (Hedged(i)' <=> Hedged(i)) /\ Sides(i)' = Sides(i)
    BY <1>1, <1>3, <2>1, <2>3 DEF Racing, Contested, Failing, Releasing, Hedged, Sides
  <2>5. NoneYet' /\ AtWork' /\ WinnerRecorded'
    BY <2>1 DEF NoneYet, AtWork, WinnerRecorded
  <2>6. RecordsOfRaces' /\ RacersKnown'
    BY <1>3, <2>4 DEF HedgeInv, RecordsOfRaces, RacersKnown
  <2>7. LosersAreCancelled'
    BY <1>1, <1>2, <1>3, <2>1 DEF HedgeInv, LosersAreCancelled
  <2> QED BY <2>5, <2>6, <2>7 DEF HedgeInv
<1>7. CASE ApplyFailed
  <2>1. Hedged(w) => status[w] = "generating" /\ IsSide(hedge[w], msg.job)
    BY <1>1, <1>4 DEF HedgeInv, RacersKnown, Racing, Contested, Failing, Sides, Hedged, IsSide, NoJob, w
  <2>2. /\ hedge' = IF IsSide(hedge[w], msg.job) THEN [hedge EXCEPT ![w] = NoHedge] ELSE hedge
        /\ mgr' = "fail" /\ UNCHANGED <<status, msg>>
    BY <1>7 DEF ApplyFailed, GoTo, storeVars, w
  <2>3. \A i \in Items : i # w => hedge'[i] = hedge[i]
    BY <1>1, <2>2
  <2>4. \A i \in Items : i = w => ~Hedged(i)' /\ ~Racing(i)'
    <3> SUFFICES ASSUME NEW i \in Items, i = w PROVE ~Hedged(i)' /\ ~Racing(i)'
      OBVIOUS
    <3>1. ~Hedged(i)'
      BY <1>1, <2>1, <2>2 DEF Hedged, NoHedge, NoJob
    <3>2. ~Racing(i)'
      BY <1>1, <1>3, <2>2 DEF Racing, Contested, Failing, Releasing, w
    <3> QED BY <3>1, <3>2
  <2>5. \A i \in Items : i # w => /\ (Racing(i)' <=> Racing(i)) /\ (Hedged(i)' <=> Hedged(i))
                                  /\ Sides(i)' = Sides(i)
    BY <1>1, <1>3, <2>2, <2>3 DEF Racing, Contested, Failing, Releasing, Hedged, Sides, w
  <2>6. NoneYet' /\ AtWork' /\ WinnerRecorded'
    BY <2>2 DEF NoneYet, AtWork, WinnerRecorded
  <2>7. RecordsOfRaces' /\ RacersKnown'
    BY <1>3, <2>4, <2>5 DEF HedgeInv, RecordsOfRaces, RacersKnown
  <2>8. LosersAreCancelled'
    BY <1>1, <1>2, <1>3, <2>2 DEF HedgeInv, LosersAreCancelled
  <2> QED BY <2>6, <2>7, <2>8 DEF HedgeInv
<1> QED BY <1>5, <1>6, <1>7

\* The row of an item that was given up: it has no record any more.
LEMMA FailStep == ASSUME Inv, HedgeInv, MarkFailed PROVE HedgeInv'
<1>1. PICK w \in Items : w = ItemOf(msg.job)
  BY InHand DEF MarkFailed
<1>2. /\ mgr = "fail" /\ UNCHANGED <<track, jobs, cancelled, hedge>>
      /\ \/ status[w] = "generating" /\ mgr' = "release" /\ msg' = msg
            /\ status' = [status EXCEPT ![w] = "failed"]
         \/ status[w] # "generating" /\ mgr' = "poll" /\ status' = status
  BY <1>1 DEF MarkFailed, Generating, GoTo, Finished, redisVars
<1>3. status \in [Items -> Status]
  BY InHand
<1>4. JobIds' = JobIds /\ Pushed' = Pushed /\ \A j : ItemOf(j)' = ItemOf(j)
  BY <1>2, JobsKept
<1>5. ~Racing(w) /\ ~Racing(w)' /\ (Aired(w)' <=> Aired(w))
  BY <1>1, <1>2, <1>3 DEF Racing, Contested, Failing, Releasing, Aired
<1>6. \A i \in Items : i # w => /\ status'[i] = status[i] /\ (Racing(i)' <=> Racing(i))
                                /\ (Aired(i)' <=> Aired(i))
  BY <1>1, <1>2, <1>3, <1>4 DEF Racing, Contested, Failing, Releasing, Aired
<1>7. \A i \in Items : (Hedged(i)' <=> Hedged(i)) /\ Sides(i)' = Sides(i)
  BY <1>2, <1>4 DEF Hedged, Sides
<1>8. NoneYet' /\ AtWork'
  BY <1>2 DEF NoneYet, AtWork
<1>9. WinnerRecorded'
  BY <1>1, <1>2, <1>3, <1>4 DEF WinnerRecorded, Aired
<1>10. RecordsOfRaces' /\ RacersKnown'
  BY <1>4, <1>5, <1>6, <1>7 DEF HedgeInv, RecordsOfRaces, RacersKnown
<1>11. LosersAreCancelled'
  BY <1>2, <1>4, <1>5, <1>6 DEF HedgeInv, LosersAreCancelled, Aired
<1> QED BY <1>8, <1>9, <1>10, <1>11 DEF HedgeInv

\* The winner's file is recorded before its hedge is released.
LEMMA RecordStep == ASSUME Inv, HedgeInv, RecordTrack PROVE HedgeInv'
<1>1. PICK w \in Items : w = ItemOf(msg.job)
  BY InHand DEF RecordTrack
<1>2. /\ mgr = "track" /\ mgr' = "release" /\ msg' = msg
      /\ track' = [track EXCEPT ![w] = msg.job]
      /\ UNCHANGED <<status, jobs, cancelled, hedge>>
  BY <1>1 DEF RecordTrack, GoTo, redisVars
<1>3. track \in [Items -> SomeJob]
  BY InHand
<1>4. JobIds' = JobIds /\ Pushed' = Pushed /\ \A j : ItemOf(j)' = ItemOf(j)
  BY <1>2, JobsKept
<1>5. \A i \in Items : (Racing(i)' <=> Racing(i)) /\ (Hedged(i)' <=> Hedged(i)) /\ Sides(i)' = Sides(i)
  BY <1>2, <1>4 DEF Racing, Contested, Failing, Releasing, Aired, Hedged, Sides
<1>6. NoneYet' /\ AtWork'
  BY <1>2 DEF NoneYet, AtWork
<1>7. WinnerRecorded'
  BY <1>1, <1>2, <1>3, <1>4 DEF WinnerRecorded
<1>8. RecordsOfRaces' /\ RacersKnown'
  BY <1>4, <1>5 DEF HedgeInv, RecordsOfRaces, RacersKnown
<1>9. LosersAreCancelled'
  BY <1>1, <1>2, <1>3, <1>4 DEF HedgeInv, LosersAreCancelled
<1> QED BY <1>6, <1>7, <1>8, <1>9 DEF HedgeInv

\* The sides that are not the winner are all that is left to cancel.
LEMMA ReleaseRaceStep == ASSUME Inv, HedgeInv, ReleaseHedge PROVE HedgeInv'
<1>1. PICK w \in Items : w = ItemOf(msg.job) /\ msg.job \in JobIds
  BY InHand DEF ReleaseHedge
<1>2. /\ mgr = "release" /\ mgr' = "forget"
      /\ cancelled' = cancelled \union ({hedge[w].primary, hedge[w].backup} \ {NoJob, msg.job})
      /\ UNCHANGED <<status, track, jobs, hedge, msg>>
  BY <1>1 DEF ReleaseHedge, Losers, GoTo, storeVars
<1>3. \A j \in JobIds : j # NoJob
  BY InHand
<1>4. JobIds' = JobIds /\ Pushed' = Pushed /\ \A j : ItemOf(j)' = ItemOf(j)
  BY <1>2, JobsKept
<1>5. \A i \in Items : (Racing(i)' <=> Racing(i)) /\ (Hedged(i)' <=> Hedged(i)) /\ Sides(i)' = Sides(i)
  BY <1>2, <1>4 DEF Racing, Contested, Failing, Releasing, Aired, Hedged, Sides
<1>6. NoneYet' /\ AtWork' /\ WinnerRecorded'
  BY <1>2 DEF NoneYet, AtWork, WinnerRecorded
<1>7. RecordsOfRaces' /\ RacersKnown'
  BY <1>4, <1>5 DEF HedgeInv, RecordsOfRaces, RacersKnown
<1>8. LosersAreCancelled'
  <2>1. ASSUME Aired(w), NEW j \in JobIds, ItemOf(j) = w, j # track[w]
        PROVE  j \in cancelled'
    <3>1. track[w] = msg.job /\ Racing(w)
      BY <1>1, <1>2, <2>1 DEF HedgeInv, WinnerRecorded, Racing, Releasing
    <3>2. Hedged(w)
      BY <1>1, <2>1, <3>1 DEF HedgeInv, RacersKnown
    <3>3. j \in Sides(w)
      BY <2>1, <3>1, <3>2 DEF HedgeInv, RacersKnown
    <3> QED BY <1>2, <1>3, <2>1, <3>1, <3>3 DEF Sides
  <2>2. \A i \in Items : i # w /\ Aired(i) =>
          \A j \in JobIds : ItemOf(j) = i /\ j # track[i] => j \in cancelled'
    BY <1>1, <1>2 DEF HedgeInv, LosersAreCancelled, Aired
  <2> QED BY <1>2, <1>4, <2>1, <2>2 DEF LosersAreCancelled, Aired
<1> QED BY <1>6, <1>7, <1>8 DEF HedgeInv

\* The record goes after its sides are told.
LEMMA ForgetStep == ASSUME Inv, HedgeInv, ForgetHedge PROVE HedgeInv'
<1>1. PICK w \in Items : w = ItemOf(msg.job)
  BY InHand DEF ForgetHedge
<1>2. /\ mgr = "forget" /\ mgr' = "poll"
      /\ hedge' = [hedge EXCEPT ![w] = NoHedge]
      /\ UNCHANGED <<status, track, jobs, cancelled>>
  BY <1>1 DEF ForgetHedge, Finished, storeVars
<1>3. hedge \in [Items -> HedgeRecords]
  BY InHand
<1>4. JobIds' = JobIds /\ Pushed' = Pushed /\ \A j : ItemOf(j)' = ItemOf(j)
  BY <1>2, JobsKept
<1>5. ~Hedged(w)' /\ ~Racing(w)'
  <2>1. ~Hedged(w)'
    BY <1>2, <1>3 DEF Hedged, NoHedge, NoJob
  <2>2. status[w] # "generating"
    BY <1>1, <1>2 DEF Inv, Standing, Settled
  <2> QED BY <1>2, <2>1, <2>2 DEF Racing, Contested, Releasing
<1>6. \A i \in Items : i # w => /\ (Racing(i)' <=> Racing(i)) /\ (Hedged(i)' <=> Hedged(i))
                                /\ Sides(i)' = Sides(i)
  BY <1>1, <1>2, <1>3, <1>4 DEF Racing, Contested, Failing, Releasing, Hedged, Sides
<1>7. NoneYet' /\ AtWork' /\ WinnerRecorded'
  BY <1>2 DEF NoneYet, AtWork, WinnerRecorded
<1>8. RecordsOfRaces' /\ RacersKnown'
  BY <1>4, <1>5, <1>6 DEF HedgeInv, RecordsOfRaces, RacersKnown
<1>9. LosersAreCancelled'
  BY <1>2, <1>4 DEF HedgeInv, LosersAreCancelled
<1> QED BY <1>7, <1>8, <1>9 DEF HedgeInv

\* The rows of items that are not in hand stand as they stood.
LEMMA MarkStep == ASSUME Inv, HedgeInv, MarkGenerating PROVE HedgeInv'
<1>1. PICK w \in Items : w = plan.item
  BY InHand DEF MarkGenerating
<1>2. /\ mgr = "mark" /\ mgr' = "push" /\ plan' = plan /\ status[w] = "queued"
      /\ status' = [status EXCEPT ![w] = "generating"]
      /\ UNCHANGED <<track, jobs, cancelled, hedge>>
  BY <1>1 DEF MarkGenerating, GoTo, redisVars, Inv, Standing
<1>3. status \in [Items -> Status] /\ hedge \in [Items -> HedgeRecords]
  BY InHand
<1>4. JobIds' = JobIds /\ Pushed' = Pushed /\ \A j : ItemOf(j)' = ItemOf(j)
  BY <1>2, JobsKept
<1>5. \A j \in JobIds : ItemOf(j) # w
  BY <1>2 DEF Inv, Standing
<1>6. ~Hedged(w) /\ ~Hedged(w)'
  BY <1>2 DEF HedgeInv, RecordsOfRaces, Racing, Contested, Failing, Releasing, Hedged
<1>7. \A i \in Items : i # w => /\ (Racing(i)' <=> Racing(i)) /\ (Hedged(i)' <=> Hedged(i))
                                /\ Sides(i)' = Sides(i)
  BY <1>1, <1>2, <1>3, <1>4 DEF Racing, Contested, Failing, Releasing, Hedged, Sides
<1>8. NoneYet' /\ AtWork' /\ WinnerRecorded'
  BY <1>1, <1>2, <1>3, <1>4, <1>5, <1>6 DEF NoneYet, AtWork, WinnerRecorded
<1>9. RecordsOfRaces' /\ RacersKnown'
  BY <1>4, <1>5, <1>6, <1>7 DEF HedgeInv, RecordsOfRaces, RacersKnown
<1>10. LosersAreCancelled'
  BY <1>2, <1>3, <1>4, <1>5 DEF HedgeInv, LosersAreCancelled
<1> QED BY <1>8, <1>9, <1>10 DEF HedgeInv

\* A job is pushed for item w: there is one job more, and it is w's.
LEMMA PushRaces ==
  ASSUME Inv, NEW w \in Items, NEW s \in Sources, Push(w, s)
  PROVE  /\ JobIds' = JobIds \union {Pushed'} /\ ItemOf(Pushed)' = w
         /\ \A j \in JobIds : ItemOf(j)' = ItemOf(j)
BY PushGrows DEF Inv, Pushed

\* The first job of an item.
LEMMA PushPrimaryStep == ASSUME Inv, HedgeInv, PushPrimary PROVE HedgeInv'
<1>1. PICK w \in Items : w = plan.item
  BY InHand DEF PushPrimary
<1>2. /\ mgr = "push" /\ status[w] = "generating" /\ ~Hedged(w)
      /\ \A j \in JobIds : ItemOf(j) # w
  BY <1>1 DEF PushPrimary, HedgeInv, AtWork, NoneYet
<1>3. /\ mgr' = "poll" \/ (mgr' = "remember" /\ plan' = plan)
      /\ UNCHANGED <<status, track, cancelled, hedge>>
  BY DEF PushPrimary, GoTo, Finished, storeVars
<1>4. /\ JobIds' = JobIds \union {Pushed'} /\ ItemOf(Pushed)' = w
      /\ \A j \in JobIds : ItemOf(j)' = ItemOf(j)
  <2>1. plan.source \in Sources
    BY <1>2 DEF Inv, Carried
  <2> QED BY <1>1, <2>1, PushRaces DEF PushPrimary
<1>5. \A i \in Items : (Racing(i)' <=> Racing(i)) /\ (Hedged(i)' <=> Hedged(i)) /\ Sides(i)' = Sides(i)
  BY <1>2, <1>3 DEF Racing, Contested, Failing, Releasing, Hedged, Sides
<1>6. NoneYet' /\ AtWork' /\ WinnerRecorded'
  BY <1>1, <1>2, <1>3, <1>5 DEF NoneYet, AtWork, WinnerRecorded
<1>7. RecordsOfRaces' /\ RacersKnown'
  <2>1. \A j \in JobIds' : IF j \in JobIds THEN ItemOf(j)' = ItemOf(j) /\ ItemOf(j) # w
                                           ELSE j = Pushed' /\ ItemOf(j)' = w
    BY <1>2, <1>4
  <2>2. RecordsOfRaces'
    BY <1>5 DEF HedgeInv, RecordsOfRaces
  <2>3. ~Hedged(w)'
    BY <1>2, <1>5
  <2>4. \A i \in Items : i # w => \A j \in JobIds' : ItemOf(j)' = i => j \in JobIds /\ ItemOf(j) = i
    BY <2>1
  <2>5. \A j \in JobIds' : ItemOf(j)' = w => j = Pushed'
    BY <2>1
  <2> HIDE DEF JobIds
  <2> QED BY <1>5, <2>2, <2>3, <2>4, <2>5 DEF HedgeInv, RacersKnown
<1>8. LosersAreCancelled'
  BY <1>2, <1>3, <1>4 DEF HedgeInv, LosersAreCancelled
<1> QED BY <1>6, <1>7, <1>8 DEF HedgeInv

\* A backup, which is not in the record yet.
LEMMA FireStep == ASSUME Inv, HedgeInv, NEW w \in Items, FireHedge(w) PROVE HedgeInv'
<1>1. /\ mgr = "poll" /\ Hedged(w) /\ hedge[w].backup = NoJob /\ status[w] = "generating"
  BY DEF FireHedge, Drained, DueToFire, HedgeInv, RecordsOfRaces, Racing, Contested, Failing, Releasing
<1>2. /\ mgr' = "save" /\ plan'.item = w
      /\ UNCHANGED <<status, track, cancelled, hedge>>
  BY DEF FireHedge, GoTo, storeVars
<1>3. /\ JobIds' = JobIds \union {Pushed'} /\ ItemOf(Pushed)' = w
      /\ \A j \in JobIds : ItemOf(j)' = ItemOf(j)
  <2>1. hedge[w].backupSource \in Sources
    BY <1>1 DEF Inv, HedgesOfItem, Hedged
  <2> QED BY <2>1, PushRaces DEF FireHedge
<1>4. \A i \in Items : (Racing(i)' <=> Racing(i)) /\ (Hedged(i)' <=> Hedged(i))
  BY <1>1, <1>2 DEF Racing, Contested, Failing, Releasing, Hedged
<1>5. /\ Sides(w)' = Sides(w) \union {Pushed'}
      /\ \A i \in Items : i # w => Sides(i)' = Sides(i)
  BY <1>1, <1>2 DEF Sides
<1>6. NoneYet' /\ AtWork' /\ WinnerRecorded'
  BY <1>1, <1>2, <1>4 DEF NoneYet, AtWork, WinnerRecorded
<1>7. RecordsOfRaces' /\ RacersKnown'
  <2>1. \A i \in Items : \A j \in JobIds' :
          ItemOf(j)' = i => (j \in JobIds /\ ItemOf(j) = i) \/ (i = w /\ j = Pushed')
    BY <1>3
  <2>2. RecordsOfRaces'
    BY <1>4 DEF HedgeInv, RecordsOfRaces
  <2> HIDE DEF JobIds
  <2> QED BY <1>1, <1>4, <1>5, <2>1, <2>2 DEF HedgeInv, RacersKnown
<1>8. LosersAreCancelled'
  BY <1>1, <1>2, <1>3 DEF HedgeInv, LosersAreCancelled
<1> QED BY <1>6, <1>7, <1>8 DEF HedgeInv

\* The job that was pushed last is written into the record, as its backup or as the
\* primary of a new one.
LEMMA WriteStep == ASSUME Inv, HedgeInv, SaveHedge \/ RememberHedge PROVE HedgeInv'
<1>1. PICK w \in Items : w = plan.item /\ Pushed \in JobIds /\ ItemOf(Pushed) = w
  BY InHand DEF SaveHedge, RememberHedge
<1>2. /\ mgr \in {"save", "remember"} /\ mgr' = "poll" /\ status[w] = "generating"
      /\ UNCHANGED <<status, track, jobs, cancelled>>
  BY <1>1 DEF SaveHedge, RememberHedge, Finished, storeVars, HedgeInv, AtWork
<1>3. hedge \in [Items -> HedgeRecords] /\ Pushed # NoJob
  BY <1>1, InHand
<1>4. JobIds' = JobIds /\ Pushed' = Pushed /\ \A j : ItemOf(j)' = ItemOf(j)
  BY <1>2, JobsKept
<1>5. \A i \in Items : i # w => hedge'[i] = hedge[i]
  BY <1>1, <1>3 DEF SaveHedge, RememberHedge
<1>6. Hedged(w)' /\ \A j \in JobIds : ItemOf(j) = w => j \in Sides(w)'
  <2>1. CASE SaveHedge
    <3>1. /\ mgr = "save" /\ Hedged(w) /\ hedge[w].backup = NoJob
          /\ hedge'[w] = [hedge[w] EXCEPT !.backup = Pushed]
      BY <1>1, <1>3, <2>1 DEF SaveHedge, HedgeInv, AtWork
    <3>2. hedge'[w].primary = hedge[w].primary /\ hedge'[w].backup = Pushed
      BY <1>3, <3>1 DEF HedgeRecords
    <3>3. \A j \in JobIds : ItemOf(j) = w => j \in Sides(w)
      BY <1>2, <3>1 DEF HedgeInv, RacersKnown, Racing, Contested, Failing
    <3>4. \A j \in JobIds : j # NoJob
      BY InHand
    <3> QED BY <1>1, <3>1, <3>2, <3>3, <3>4 DEF Sides, Hedged
  <2>2. CASE RememberHedge
    <3>1. hedge'[w].primary = Pushed
      BY <1>1, <1>3, <2>2 DEF RememberHedge, NoHedge
    <3>2. \A j \in JobIds : ItemOf(j) = w => j = Pushed
      BY <1>1, <1>2, <2>2 DEF RememberHedge, HedgeInv, AtWork, RacersKnown, Racing,
                                       Contested, Failing
    <3> QED BY <1>3, <3>1, <3>2 DEF Sides, Hedged
  <2> QED BY <2>1, <2>2
<1>7. \A i \in Items : Racing(i)' <=> Racing(i)
  BY <1>2 DEF Racing, Contested, Failing, Releasing
<1>8. \A i \in Items : i # w => (Hedged(i)' <=> Hedged(i)) /\ Sides(i)' = Sides(i)
  BY <1>1, <1>2, <1>5 DEF Hedged, Sides
<1>9. NoneYet' /\ AtWork' /\ WinnerRecorded'
  BY <1>2 DEF NoneYet, AtWork, WinnerRecorded
<1>10. RecordsOfRaces' /\ RacersKnown'
  BY <1>2, <1>4, <1>6, <1>7, <1>8 DEF HedgeInv, RecordsOfRaces, RacersKnown,
                                         Racing, Contested, Failing
<1>11. LosersAreCancelled'
  BY <1>2, <1>4 DEF HedgeInv, LosersAreCancelled
<1> QED BY <1>9, <1>10, <1>11 DEF HedgeInv

\* A manager that stops elsewhere finds nothing of a race it cannot go on with.
LEMMA FaultStep ==
  ASSUME Inv, HedgeInv, ManagerFault, mgr \notin {"track", "release", "forget", "save", "fail"}
  PROVE  HedgeInv'
<1>1. mgr' = "poll" /\ UNCHANGED <<status, track, jobs, cancelled, hedge>>
  BY DEF ManagerFault, Finished, storeVars, redisVars
<1>2. JobIds' = JobIds /\ Pushed' = Pushed /\ \A j : ItemOf(j)' = ItemOf(j)
  BY <1>1, JobsKept
<1>3. \A i \in Items : (Racing(i)' <=> Racing(i)) /\ (Hedged(i)' <=> Hedged(i)) /\ Sides(i)' = Sides(i)
  BY <1>1, <1>2 DEF Racing, Contested, Failing, Releasing, Hedged, Sides
<1>4. NoneYet' /\ AtWork' /\ WinnerRecorded'
  BY <1>1 DEF NoneYet, AtWork, WinnerRecorded
<1>5. RecordsOfRaces' /\ RacersKnown'
  BY <1>1, <1>2, <1>3 DEF HedgeInv, RecordsOfRaces, RacersKnown
<1>6. LosersAreCancelled'
  BY <1>1, <1>2 DEF HedgeInv, LosersAreCancelled
<1> QED BY <1>4, <1>5, <1>6 DEF HedgeInv

-----------------------------------------------------------------------------
(* The losers are told *)

LEMMA RaceInit == Init => HedgeInv
<1> SUFFICES ASSUME Init PROVE HedgeInv
  OBVIOUS
<1>1. JobIds = {}
  BY DEF Init, JobIds
<1>2. \A i \in Items : ~Hedged(i) /\ ~Racing(i) /\ ~Aired(i)
  BY DEF Init, Hedged, NoHedge, Racing, Contested, Failing, Releasing, Aired
<1> QED BY <1>1, <1>2 DEF Init, HedgeInv, NoneYet, AtWork, RecordsOfRaces, RacersKnown,
                          WinnerRecorded, LosersAreCancelled

\* The steps that may lose sight of a race: the manager stops between the statements
\* of mark_ready, before the losers are told or before the record of the race is
\* forgotten, between the push of a backup and its record, or between the end of
\* note_side_failed, where the record is forgotten, and mark_failed.
RaceLost == ManagerFault /\ mgr \in {"track", "release", "forget", "save", "fail"}

LEMMA RaceStep ==
  ASSUME Inv, HedgeInv, [Next]_vars, [~RaceLost]_vars
  PROVE  HedgeInv'
<1>1. CASE Next /\ ~RaceLost
  <2>1. CASE Others
    BY <2>1, OthersStep
  <2>2. CASE Manager
    BY <2>2, QuietStep, ApplyRaceStep, FailStep, RecordStep, ReleaseRaceStep, ForgetStep, MarkStep,
       PushPrimaryStep, FireStep, WriteStep DEF Manager
  <2>3. CASE ManagerFault
    BY <1>1, <2>3, FaultStep DEF RaceLost
  <2> QED BY <1>1, <2>1, <2>2, <2>3 DEF Next, Others
<1>2. CASE UNCHANGED vars
  <2>1. JobIds' = JobIds /\ Pushed' = Pushed /\ \A j : ItemOf(j)' = ItemOf(j)
    BY <1>2, JobsKept DEF vars
  <2>2. \A i \in Items : (Racing(i)' <=> Racing(i)) /\ (Hedged(i)' <=> Hedged(i)) /\ Sides(i)' = Sides(i)
    BY <1>2, <2>1 DEF vars, Racing, Contested, Failing, Releasing, Aired, Hedged, Sides
  <2>3. NoneYet' /\ RecordsOfRaces' /\ RacersKnown'
    BY <1>2, <2>1, <2>2 DEF vars, HedgeInv, NoneYet, RecordsOfRaces, RacersKnown
  <2>4. AtWork' /\ WinnerRecorded' /\ LosersAreCancelled'
    BY <1>2, <2>1 DEF vars, HedgeInv, AtWork, WinnerRecorded, LosersAreCancelled, Aired, Hedged
  <2> QED BY <2>3, <2>4 DEF HedgeInv
<1> QED BY <1>1, <1>2

\* Once an item is won and its hedge released, every other job that was ever pushed
\* for it has its job:cancel key, so no worker starts it (LosersAreCancelled): as long
\* as the manager does not stop at one of the five places where it loses sight of a
\* race (RaceLost), and whatever the workers and the reaper go through.
THEOREM LosersAreTold == Spec /\ [][~RaceLost]_vars => []LosersAreCancelled
<1>1. Init => HedgeInv
  BY RaceInit
<1>2. Inv /\ HedgeInv /\ [Next]_vars /\ [~RaceLost]_vars => HedgeInv'
  BY RaceStep
<1>3. HedgeInv => LosersAreCancelled
  BY DEF HedgeInv
<1>4. Spec => []Inv
  BY Invariance, PTL
<1> QED BY <1>1, <1>2, <1>3, <1>4, PTL DEF Spec

-----------------------------------------------------------------------------
(* When an item is given up *)

\* The steps that may lose sight of a contest: the manager stops between the push of a
\* backup and its record, and will push another; or between the end of note_side_failed
\* and mark_failed, so that a generating item has no record of its two jobs.
ContestLost == ManagerFault /\ mgr \in {"save", "fail"}

\* A backup that is pushed has its place in the record, also for an item that was won
\* while a manager that stopped left the record behind.
PlaceForBackup == mgr = "save" => Hedged(plan.item) /\ hedge[plan.item].backup = NoJob

\* The jobs of a contested item are the sides of its record, or there is one.
ContestKnown ==
  \A i \in Items : Contested(i) =>
    IF Hedged(i) THEN \A j \in JobIds : ItemOf(j) = i => j \in Sides(i)
                 ELSE \A j, k \in JobIds : ItemOf(j) = i /\ ItemOf(k) = i => j = k

\* Only a generating item has its first job pushed, and its record written.
FirstPush == mgr \in {"push", "remember"} => ~Hedged(plan.item)

ContestInv == NoneYet /\ PlaceForBackup /\ FirstPush /\ ContestKnown

LEMMA ContestInit == Init => ContestInv
<1> SUFFICES ASSUME Init PROVE ContestInv
  OBVIOUS
<1>1. mgr = "poll" /\ \A i \in Items : status[i] # "generating"
  BY DEF Init
<1> QED BY <1>1 DEF ContestInv, NoneYet, PlaceForBackup, FirstPush, ContestKnown, Contested

\* A step that pushes nothing and brings nothing into generation.
LEMMA ContestKept ==
  ASSUME Inv, ContestInv, UNCHANGED jobs,
         \/ UNCHANGED <<mgr, plan>>
         \/ mgr # "save" /\ mgr' \notin {"push", "remember", "save"},
         \A i \in Items : Contested(i)' => Contested(i),
         \A i \in Items : Contested(i)' \/ (UNCHANGED mgr /\ mgr # "poll") =>
                            /\ hedge'[i].primary = hedge[i].primary
                            /\ hedge'[i].backup = hedge[i].backup
  PROVE  ContestInv'
<1>1. JobIds' = JobIds /\ Pushed' = Pushed /\ \A j : ItemOf(j)' = ItemOf(j)
  BY JobsKept
<1>2. mgr \in {"push", "remember", "save"} => plan.item \in Items
  BY InHand
<1>3. NoneYet' /\ PlaceForBackup' /\ FirstPush'
  BY <1>1, <1>2 DEF ContestInv, NoneYet, PlaceForBackup, FirstPush, Hedged
<1>4. ContestKnown'
  <2>1. \A i \in Items : Contested(i)' =>
          /\ Contested(i) /\ (Hedged(i)' <=> Hedged(i)) /\ Sides(i)' = Sides(i)
    BY <1>1 DEF Hedged, Sides
  <2> QED BY <1>1, <2>1 DEF ContestInv, ContestKnown
<1> QED BY <1>3, <1>4 DEF ContestInv

\* What the manager does between two pushes; the item it settles is out of the contest.
LEMMA ContestLeftAlone ==
  ASSUME Inv, ContestInv,
         \/ PopCompleted \/ ApplyWin \/ ApplyLate \/ ApplySideFailed \/ ApplyFailed \/ MarkFailed
         \/ RecordTrack \/ ReleaseHedge \/ ForgetHedge \/ \E i \in Items : ChooseSource(i)
         \/ ManagerFault /\ mgr \notin {"save", "fail"}
  PROVE  ContestInv'
<1> DEFINE w == ItemOf(msg.job)
<1>1. /\ mgr \in {"apply", "fail", "track", "release", "forget"} => w \in Items
      /\ status \in [Items -> Status] /\ hedge \in [Items -> HedgeRecords]
  BY InHand
<1>2. mgr = "forget" => status[w] # "generating"
  BY DEF Inv, Standing, Settled
<1> HIDE DEF w
<1>3. CASE PopCompleted \/ ApplyLate \/ RecordTrack \/ ReleaseHedge
              \/ (ManagerFault /\ mgr \notin {"save", "fail"}) \/ \E i \in Items : ChooseSource(i)
  <2>1. /\ mgr \notin {"save", "fail"} /\ mgr' \notin {"push", "remember", "save"}
        /\ UNCHANGED <<jobs, status, hedge>>
    BY <1>3 DEF PopCompleted, ApplyLate, RecordTrack, ReleaseHedge, ManagerFault, ChooseSource,
                 Drained, GoTo, Finished, storeVars, redisVars
  <2>2. \A i \in Items : Contested(i)' => Contested(i)
    BY <2>1 DEF Contested, Failing
  <2>3. mgr' = mgr => mgr = "poll"
    BY <1>3 DEF PopCompleted, ApplyLate, RecordTrack, ReleaseHedge, ManagerFault, ChooseSource,
                 Drained, GoTo, Finished
  <2> QED BY <2>1, <2>2, <2>3, ContestKept
<1>4. CASE ApplyWin
  <2>1. /\ mgr = "apply" /\ mgr' = "track" /\ UNCHANGED <<jobs, hedge>>
        /\ status' = [status EXCEPT ![w] = "ready"]
    BY <1>4 DEF ApplyWin, GoTo, redisVars, w
  <2>2. \A i \in Items : Contested(i)' => Contested(i)
    BY <1>1, <2>1 DEF Contested, Failing
  <2> QED BY <2>1, <2>2, ContestKept
<1>5. CASE ApplySideFailed
  <2>1. /\ mgr = "apply" /\ mgr' = "poll" /\ UNCHANGED <<jobs, status>>
        /\ hedge' = [hedge EXCEPT ![w] = SideFailed(hedge[w], msg.job)]
    BY <1>5 DEF ApplySideFailed, Finished, storeVars, w
  <2>2. /\ SideFailed(hedge[w], msg.job).primary = hedge[w].primary
        /\ SideFailed(hedge[w], msg.job).backup = hedge[w].backup
    BY <1>1, <2>1 DEF SideFailed, HedgeRecords
  <2>3. \A i \in Items : hedge'[i].primary = hedge[i].primary /\ hedge'[i].backup = hedge[i].backup
    BY <1>1, <2>1, <2>2
  <2>4. \A i \in Items : Contested(i)' => Contested(i)
    BY <2>1 DEF Contested, Failing
  <2> QED BY <2>1, <2>3, <2>4, ContestKept
<1>6. CASE ApplyFailed \/ MarkFailed \/ ForgetHedge
  <2>1. /\ mgr \in {"apply", "fail", "forget"} /\ mgr' \in {"poll", "fail", "release"} /\ mgr' # mgr
        /\ UNCHANGED jobs
        /\ hedge' \in {hedge, [hedge EXCEPT ![w] = NoHedge]}
        /\ status' \in {status, [status EXCEPT ![w] = "failed"]}
        /\ (mgr' = "fail" /\ msg' = msg) \/ status'[w] # "generating"
    <3>1. CASE ApplyFailed
      BY <1>1, <3>1 DEF ApplyFailed, GoTo, storeVars, w
    <3>2. CASE MarkFailed
      BY <1>1, <3>2 DEF MarkFailed, Generating, GoTo, Finished, redisVars, w
    <3>3. CASE ForgetHedge
      BY <1>1, <1>2, <3>3 DEF ForgetHedge, Finished, storeVars, w
    <3> QED BY <1>6, <3>1, <3>2, <3>3
  <2>2. ItemOf(msg.job)' = w \/ msg' # msg
    BY <2>1, JobsKept DEF w
  <2>3. \A i \in Items : i = w => ~Contested(i)'
    BY <2>1, <2>2 DEF Contested, Failing
  <2>4. \A i \in Items : i # w => hedge'[i] = hedge[i] /\ status'[i] = status[i]
    BY <1>1, <2>1
  <2>5. \A i \in Items : Contested(i)' => Contested(i) /\ hedge'[i] = hedge[i]
    BY <2>3, <2>4 DEF Contested, Failing, w
  <2> QED BY <2>1, <2>5, ContestKept
<1> QED BY <1>3, <1>4, <1>5, <1>6

\* An item enters the contest with no job and no record.
LEMMA ContestMark == ASSUME Inv, ContestInv, MarkGenerating PROVE ContestInv'
<1>1. PICK w \in Items : w = plan.item
  BY InHand DEF MarkGenerating
<1>2. /\ mgr = "mark" /\ mgr' = "push" /\ plan' = plan /\ status[w] = "queued"
      /\ status' = [status EXCEPT ![w] = "generating"]
      /\ UNCHANGED <<jobs, hedge>>
  BY <1>1 DEF MarkGenerating, GoTo, redisVars, Inv, Standing
<1>3. status \in [Items -> Status] /\ hedge \in [Items -> HedgeRecords]
  BY InHand
<1>4. JobIds' = JobIds /\ Pushed' = Pushed /\ \A j : ItemOf(j)' = ItemOf(j)
  BY <1>2, JobsKept
<1>5. \A j \in JobIds : ItemOf(j) # w
  BY <1>2 DEF Inv, Standing
<1>6. ~Hedged(w)
  <2>1. hedge[w].primary \in JobIds \union {NoJob}
    BY <1>3 DEF HedgeRecords, SomeJob
  <2> QED BY <1>5, <2>1 DEF Inv, HedgesOfItem, Hedged
<1>7. NoneYet' /\ PlaceForBackup' /\ FirstPush'
  BY <1>1, <1>2, <1>4, <1>5, <1>6 DEF NoneYet, PlaceForBackup, FirstPush, Hedged
<1>8. ContestKnown'
  <2>1. \A i \in Items : i # w => /\ Contested(i)' => Contested(i)
                                  /\ (Hedged(i)' <=> Hedged(i)) /\ Sides(i)' = Sides(i)
    BY <1>2, <1>3, <1>4 DEF Contested, Failing, Hedged, Sides
  <2> QED BY <1>4, <1>5, <2>1 DEF ContestInv, ContestKnown
<1> QED BY <1>7, <1>8 DEF ContestInv

\* The first job, and a backup that the record does not know yet.
LEMMA ContestPush ==
  ASSUME Inv, ContestInv, PushPrimary \/ \E i \in Items : FireHedge(i)
  PROVE  ContestInv'
<1>1. CASE PushPrimary
  <2>1. PICK w \in Items : w = plan.item
    BY <1>1, InHand DEF PushPrimary
  <2>2. /\ mgr = "push" /\ ~Hedged(w) /\ \A j \in JobIds : ItemOf(j) # w
        /\ mgr' = "poll" \/ (mgr' = "remember" /\ plan' = plan)
        /\ UNCHANGED <<status, hedge>>
    BY <1>1, <2>1 DEF PushPrimary, GoTo, Finished, storeVars, ContestInv, NoneYet, FirstPush
  <2>3. /\ JobIds' = JobIds \union {Pushed'} /\ ItemOf(Pushed)' = w
        /\ \A j \in JobIds : ItemOf(j)' = ItemOf(j)
    <3>1. plan.source \in Sources
      BY <2>2 DEF Inv, Carried
    <3> QED BY <1>1, <2>1, <3>1, PushRaces DEF PushPrimary
  <2>4. \A i \in Items : (Hedged(i)' <=> Hedged(i)) /\ Sides(i)' = Sides(i)
    BY <2>2 DEF Hedged, Sides
  <2>5. NoneYet' /\ PlaceForBackup' /\ FirstPush'
    BY <2>1, <2>2, <2>4 DEF NoneYet, PlaceForBackup, FirstPush
  <2>6. \A j \in JobIds' : IF j \in JobIds THEN ItemOf(j)' = ItemOf(j) /\ ItemOf(j) # w
                                           ELSE j = Pushed' /\ ItemOf(j)' = w
    BY <2>2, <2>3
  <2>7. \A i \in Items : i # w => \A j \in JobIds' : ItemOf(j)' = i => j \in JobIds /\ ItemOf(j) = i
    BY <2>6
  <2>8. \A j \in JobIds' : ItemOf(j)' = w => j = Pushed'
    BY <2>6
  <2> HIDE DEF JobIds
  <2>9. ContestKnown'
    BY <2>2, <2>4, <2>7, <2>8 DEF ContestInv, ContestKnown, Contested, Failing
  <2> QED BY <2>5, <2>9 DEF ContestInv
<1>2. ASSUME NEW w \in Items, FireHedge(w) PROVE ContestInv'
  <2>1. /\ mgr = "poll" /\ Hedged(w) /\ hedge[w].backup = NoJob
        /\ mgr' = "save" /\ plan'.item = w
        /\ UNCHANGED <<status, hedge>>
    BY <1>2 DEF FireHedge, Drained, DueToFire, GoTo, storeVars
  <2>2. /\ JobIds' = JobIds \union {Pushed'} /\ ItemOf(Pushed)' = w
        /\ \A j \in JobIds : ItemOf(j)' = ItemOf(j)
    <3>1. hedge[w].backupSource \in Sources
      BY <2>1 DEF Inv, HedgesOfItem, Hedged
    <3> QED BY <1>2, <3>1, PushRaces DEF FireHedge
  <2>3. /\ \A i \in Items : Hedged(i)' <=> Hedged(i)
        /\ Sides(w)' = Sides(w) \union {Pushed'}
        /\ \A i \in Items : i # w => Sides(i)' = Sides(i)
    BY <2>1 DEF Hedged, Sides
  <2>4. NoneYet' /\ PlaceForBackup' /\ FirstPush'
    BY <2>1, <2>3 DEF NoneYet, PlaceForBackup, FirstPush
  <2>5. \A i \in Items : \A j \in JobIds' :
          ItemOf(j)' = i => (j \in JobIds /\ ItemOf(j) = i) \/ (i = w /\ j = Pushed')
    BY <2>2
  <2> HIDE DEF JobIds
  <2>6. ContestKnown'
    BY <2>1, <2>3, <2>5 DEF ContestInv, ContestKnown, Contested, Failing
  <2> QED BY <2>4, <2>6 DEF ContestInv
<1> QED BY <1>1, <1>2

\* The record takes up the job that was pushed last.
LEMMA ContestWrite ==
  ASSUME Inv, ContestInv, SaveHedge \/ RememberHedge
  PROVE  ContestInv'
<1>1. PICK w \in Items : w = plan.item /\ Pushed \in JobIds /\ ItemOf(Pushed) = w
  BY InHand DEF SaveHedge, RememberHedge
<1>2. mgr \in {"save", "remember"} /\ mgr' = "poll" /\ UNCHANGED <<status, jobs>>
  BY DEF SaveHedge, RememberHedge, Finished, storeVars
<1>3. hedge \in [Items -> HedgeRecords] /\ Pushed # NoJob
  BY <1>1, InHand
<1>4. JobIds' = JobIds /\ Pushed' = Pushed /\ \A j : ItemOf(j)' = ItemOf(j)
  BY <1>2, JobsKept
<1>5. \A i \in Items : i # w => hedge'[i] = hedge[i]
  BY <1>1, <1>3 DEF SaveHedge, RememberHedge
<1>6. status[w] = "generating" =>
        Hedged(w)' /\ \A j \in JobIds : ItemOf(j) = w => j \in Sides(w)'
  <2> SUFFICES ASSUME status[w] = "generating"
               PROVE  Hedged(w)' /\ \A j \in JobIds : ItemOf(j) = w => j \in Sides(w)'
    OBVIOUS
  <2>1. CASE SaveHedge
    <3>1. /\ mgr = "save" /\ Hedged(w) /\ hedge[w].backup = NoJob
          /\ hedge'[w] = [hedge[w] EXCEPT !.backup = Pushed]
      BY <1>1, <1>3, <2>1 DEF SaveHedge, ContestInv, PlaceForBackup
    <3>2. hedge'[w].primary = hedge[w].primary /\ hedge'[w].backup = Pushed
      BY <1>3, <3>1 DEF HedgeRecords
    <3>3. \A j \in JobIds : ItemOf(j) = w => j \in Sides(w)
      BY <3>1 DEF ContestInv, ContestKnown, Contested, Failing
    <3>4. \A j \in JobIds : j # NoJob
      BY InHand
    <3> QED BY <1>1, <3>1, <3>2, <3>3, <3>4 DEF Sides, Hedged
  <2>2. CASE RememberHedge
    <3>1. hedge'[w].primary = Pushed
      BY <1>1, <1>3, <2>2 DEF RememberHedge, NoHedge
    <3>2. \A j \in JobIds : ItemOf(j) = w => j = Pushed
      BY <1>1, <2>2 DEF RememberHedge, ContestInv, FirstPush, ContestKnown, Contested, Failing
    <3> QED BY <1>3, <3>1, <3>2 DEF Sides, Hedged
  <2> QED BY <2>1, <2>2
<1>7. \A i \in Items : i # w => (Hedged(i)' <=> Hedged(i)) /\ Sides(i)' = Sides(i)
  BY <1>1, <1>2, <1>5 DEF Hedged, Sides
<1>8. NoneYet' /\ PlaceForBackup' /\ FirstPush'
  BY <1>2 DEF NoneYet, PlaceForBackup, FirstPush
<1>9. ContestKnown'
  BY <1>2, <1>4, <1>6, <1>7 DEF ContestInv, ContestKnown, Contested, Failing
<1> QED BY <1>8, <1>9 DEF ContestInv

LEMMA ContestStep ==
  ASSUME Inv, ContestInv, [Next]_vars, [~ContestLost]_vars
  PROVE  ContestInv'
<1>1. CASE Next /\ ~ContestLost
  <2>1. CASE Others
    <3>1. \A i \in Items : Contested(i)' => Contested(i)
      BY <2>1, OthersKeep, JobsKept DEF Contested, Failing
    <3> QED BY <2>1, <3>1, OthersKeep, ContestKept
  <2>2. CASE Manager
    BY <2>2, ContestLeftAlone, ContestMark, ContestPush, ContestWrite DEF Manager
  <2>3. CASE ManagerFault
    BY <1>1, <2>3, ContestLeftAlone DEF ContestLost
  <2> QED BY <1>1, <2>1, <2>2, <2>3 DEF Next, Others
<1>2. CASE UNCHANGED vars
  <2>1. \A i \in Items : Contested(i)' => Contested(i)
    BY <1>2, JobsKept DEF vars, Contested, Failing
  <2> QED BY <1>2, <2>1, ContestKept DEF vars
<1> QED BY <1>1, <1>2

\* Only mark_failed takes a generating row to failed.
LEMMA OnlyMarkFailed ==
  ASSUME Inv, [Next]_vars, NEW i \in Items, status[i] = "generating", status'[i] = "failed"
  PROVE  mgr = "fail" /\ ItemOf(msg.job) = i
<1>1. status \in [Items -> Status] /\ status' # status
  BY DEF Inv, TypeOK
<1>2. ~StoreUsers
  BY StoreKeepsStandings
<1>3. ~ManagerFault /\ ~Reaper /\ ~ReaperFault /\ ~Clock
  BY <1>1 DEF ManagerFault, Reaper, FindOrphan, RemoveOrphan, RequeueOrphan, ReaperFault, Clock,
              HedgeFallsDue, storeVars
<1>4. ~\E p \in Processes : WorkerStep(p) \/ WorkerFault(p) \/ StatsFault(p)
  BY <1>1 DEF WorkerStep, Claim, SkipCancelled, StartGenerating, Acknowledge, PushCompleted,
              WorkerFault, StatsFault, storeVars
<1>5. Manager
  BY <1>1, <1>2, <1>3, <1>4 DEF Next, vars
<1>6. ~ApplyWin /\ ~MarkGenerating
  BY <1>1 DEF ApplyWin, MarkGenerating
<1>7. MarkFailed
  BY <1>1, <1>5, <1>6 DEF Manager, PopCompleted, ApplyLate, ApplySideFailed, ApplyFailed, RecordTrack,
                         ReleaseHedge, ForgetHedge, FireHedge, SaveHedge, ChooseSource, PushPrimary,
                         RememberHedge, storeVars
<1> QED BY <1>1, <1>7 DEF MarkFailed

\* Only note_side_failed leads there.
LEMMA OnlyApplyFailed ==
  ASSUME [Next]_vars, NEW i \in Items, GivesUp(i)
  PROVE  ApplyFailed /\ i = ItemOf(msg.job) /\ mgr = "apply"
<1>1. mgr = "apply" /\ mgr' = "fail" /\ i = ItemOf(msg.job)
  BY DEF GivesUp
<1>2. Manager
  BY <1>1 DEF Next, vars, StoreUsers, Enqueue, ClaimNextReady, MarkPlayed, ReleaseToReady,
     RequeueInterrupted, ManagerFault, Finished, Reaper, FindOrphan, RemoveOrphan, RequeueOrphan,
     ReaperFault, Clock, HedgeFallsDue, WorkerStep, Claim, SkipCancelled, StartGenerating, Acknowledge,
     PushCompleted, WorkerFault, StatsFault, mgrVars
<1>3. ApplyFailed
  BY <1>1, <1>2 DEF Manager, PopCompleted, ApplyWin, ApplyLate, ApplySideFailed, MarkFailed, RecordTrack,
     ReleaseHedge, ForgetHedge, FireHedge, Drained, SaveHedge, ChooseSource, MarkGenerating, PushPrimary,
     RememberHedge, GoTo, Finished
<1> QED BY <1>1, <1>3

Hopeless(i) ==
  /\ \A j \in JobIds \ {msg.job} : ItemOf(j) = i =>
       \/ j = hedge[i].primary /\ hedge[i].primaryFailed
       \/ j = hedge[i].backup /\ hedge[i].backupFailed
  /\ ~(Hedged(i) /\ Unfired(hedge[i]))

\* Then both sides have failed, or there never was another side.
LEMMA GivenUp ==
  ASSUME Inv, ContestInv, ApplyFailed, NEW i \in Items, i = ItemOf(msg.job), status[i] = "generating"
  PROVE  Hopeless(i)
<1>1. /\ mgr = "apply" /\ msg.job \in JobIds /\ hedge[i] \in HedgeRecords
      /\ Contested(i) /\ \A j \in JobIds : j # NoJob
  BY InHand DEF ApplyFailed, Contested, Failing
<1>2. CASE Hedged(i)
  <2>1. hedge[i].backupSource \in Sources /\ hedge[i].primary # NoJob
    BY <1>2 DEF Inv, HedgesOfItem, Hedged
  <2>2. \A j \in JobIds : ItemOf(j) = i => j \in {hedge[i].primary, hedge[i].backup}
    BY <1>1, <1>2 DEF ContestInv, ContestKnown, Sides
  <2>3. IsSide(hedge[i], msg.job)
    BY <1>1, <2>1, <2>2 DEF IsSide
  <2>4. BothFailed(SideFailed(hedge[i], msg.job))
    BY <2>3 DEF ApplyFailed
  <2>5. hedge[i].backupSource # None
    BY <2>1, NamesAreDistinct
  <2>6. CASE msg.job = hedge[i].primary
    <3>1. hedge[i].backupFailed
      BY <1>1, <2>4, <2>5, <2>6 DEF BothFailed, SideFailed, HedgeRecords
    <3> QED BY <2>2, <2>6, <3>1 DEF Hopeless, Unfired
  <2>7. CASE msg.job # hedge[i].primary
    <3>1. hedge[i].primaryFailed
      BY <1>1, <2>4, <2>7 DEF BothFailed, SideFailed, HedgeRecords
    <3>2. msg.job = hedge[i].backup /\ hedge[i].backup # NoJob
      BY <1>1, <2>2, <2>7
    <3> QED BY <2>2, <3>1, <3>2 DEF Hopeless, Unfired
  <2> QED BY <2>6, <2>7
<1>3. CASE ~Hedged(i)
  BY <1>1, <1>3 DEF ContestInv, ContestKnown, Hopeless
<1> QED BY <1>2, <1>3

\* The manager gives an item up only when every other job that was ever pushed for it
\* has reported a failure, and no backup is still to come, and nothing else fails an
\* item (FailOnlyWhenHopeless): as long as the manager does not stop between the push of
\* a backup and its record, or between note_side_failed and mark_failed, and whatever
\* becomes of the workers and the reaper.
THEOREM NotGivenUpEarly == Spec /\ [][~ContestLost]_vars => FailOnlyWhenHopeless
<1> DEFINE OnlyHopeless ==
             \A i \in Items : status[i] = "generating" =>
               /\ status'[i] = "failed" => mgr = "fail" /\ ItemOf(msg.job) = i
               /\ GivesUp(i) => Hopeless(i)
<1>1. Init => ContestInv
  BY ContestInit
<1>2. Inv /\ ContestInv /\ [Next]_vars /\ [~ContestLost]_vars => ContestInv'
  BY ContestStep
<1>3. Spec => []Inv
  BY Invariance, PTL
<1>4. Inv /\ ContestInv /\ [Next]_vars => [OnlyHopeless]_vars
  <2> SUFFICES ASSUME Inv, ContestInv, [Next]_vars PROVE OnlyHopeless
    OBVIOUS
  <2>1. ASSUME NEW i \in Items, status[i] = "generating", status'[i] = "failed"
        PROVE  mgr = "fail" /\ ItemOf(msg.job) = i
    BY <2>1, OnlyMarkFailed
  <2>2. ASSUME NEW i \in Items, status[i] = "generating", GivesUp(i) PROVE Hopeless(i)
    BY <2>2, OnlyApplyFailed, GivenUp
  <2> QED BY <2>1, <2>2
<1>5. OnlyHopeless =>
        \A i \in Items : status[i] = "generating" =>
          /\ status'[i] = "failed" => mgr = "fail" /\ ItemOf(msg.job) = i
          /\ GivesUp(i) =>
               /\ \A j \in JobIds \ {msg.job} : ItemOf(j) = i =>
                    \/ j = hedge[i].primary /\ hedge[i].primaryFailed
                    \/ j = hedge[i].backup /\ hedge[i].backupFailed
               /\ ~(Hedged(i) /\ Unfired(hedge[i]))
  BY DEF Hopeless
<1> HIDE DEF OnlyHopeless
<1>6. Spec /\ [][~ContestLost]_vars => [][OnlyHopeless]_vars
  BY <1>1, <1>2, <1>3, <1>4, PTL DEF Spec
<1> QED BY <1>5, <1>6, PTL DEF FailOnlyWhenHopeless

=============================================================================
