---------------------------- MODULE PlayoutProofs ----------------------------
(***************************************************************************)
(* Theorems about Playout, for any number of requests, any pool of filler, *)
(* any window and any faults.                                              *)
(***************************************************************************)
EXTENDS Playout, FiniteSetTheorems, TLAPS

-----------------------------------------------------------------------------
(* Types *)

\* A pick and a synchronisation leave a well-formed table.
LEMMA PickTyped ==
  ASSUME PoolTypeOK, NEW t \in Files, PickAndMarkPlayed(t)
  PROVE  PoolTypeOK' /\ t \in rows
<1>1. Picks \subseteq rows
  BY DEF Picks, First, Candidates
<1>2. t \in rows
  BY <1>1 DEF PickAndMarkPlayed
<1>3. later' \subseteq played' \X played'
  BY DEF PickAndMarkPlayed, PoolTypeOK
<1> QED
  BY <1>2, <1>3 DEF PickAndMarkPlayed, PoolTypeOK

LEMMA SyncTyped ==
  ASSUME PoolTypeOK, SyncFromDisk
  PROVE  PoolTypeOK'
<1>1. later' \subseteq played' \X played'
  BY DEF SyncFromDisk, PoolTypeOK
<1> QED
  BY <1>1 DEF SyncFromDisk, PoolTypeOK, Gone

LEMMA PoolFrame ==
  ASSUME PoolTypeOK, UNCHANGED poolVars
  PROVE  PoolTypeOK'
  BY DEF PoolTypeOK, poolVars

LEMMA EmptyTyped == <<>> \in Seq(Files)
  OBVIOUS

StatusNames == {"generating", "ready", "playing", "played", "failed"}

LEMMA UpdateTyped ==
  ASSUME status \in [Items -> StatusNames], NEW i \in Items,
         NEW new \in StatusNames, NEW expected, UpdateStatus(i, new, expected)
  PROVE  status' \in [Items -> StatusNames]
  BY DEF UpdateStatus

-----------------------------------------------------------------------------
\* Spec => []TypeOK: the controller never marks played what is no request.
THEOREM PlayoutTypeCorrect == Spec => []TypeOK
<1>1. Init => TypeOK
  <2> SUFFICES ASSUME Init PROVE TypeOK
    OBVIOUS
  <2>1. PoolTypeOK
    BY DEF Init, PoolInit, PoolTypeOK
  <2>2. status \in [Items -> StatusNames] /\ audio \in [Items -> {"good", "bad", "missing"}]
    BY DEF Init, StatusNames
  <2>3. entries \in Seq(Files) /\ skips \in Nat /\ attempts \in Nat /\ faults \in Nat
    BY DEF Init
  <2> QED
    BY <2>1, <2>2, <2>3 DEF Init, TypeOK, Steps, StatusNames
<1>2. TypeOK /\ [Next]_vars => TypeOK'
  <2> SUFFICES ASSUME TypeOK, [Next]_vars PROVE TypeOK'
    OBVIOUS
  <2>0. PoolTypeOK /\ status \in [Items -> StatusNames]
    BY DEF TypeOK, StatusNames
  <2>1. PoolTypeOK'
    <3>1. CASE SyncFromDisk
      BY <3>1, <2>0, SyncTyped
    <3>2. CASE \E t \in Files : PickAndMarkPlayed(t)
      BY <3>2, <2>0, PickTyped
    <3>3. CASE PoolChanges
      BY <3>3, <2>0 DEF PoolChanges, PoolTypeOK
    <3>4. CASE UNCHANGED poolVars
      BY <3>4, <2>0, PoolFrame
    <3> QED
      BY <3>1, <3>2, <3>3, <3>4 DEF Next, Controller, Live, PlaylistMode, Outside, Trouble,
         Start, OpenLiveStore, StayOnFiller, Launch, OpenFifo, LeaveSession, ClaimNextReady,
         NothingReady, ReleaseMissing, MarkFailed, TakeLive, TakeFiller, NoFiller, Retry,
         Decode, CheckAlive, MarkPlayed, EndSession, Rebuild, LeaveMain, AppendEntry,
         SkipEntry, Resync, PlayPlaylist, PlaylistEnds, ManagerMarksReady,
         ManagerMarksFailed, FileArrives, Crash, Stop, FfmpegExits, TracksUnmounted,
         vars, poolVars
  <2>2. CASE Start
    BY <2>1, <2>2 DEF TypeOK, Steps, Start, GoTo, UpdateStatus, rowVars, listVars
  <2>3. CASE OpenLiveStore
    BY <2>1, <2>3 DEF TypeOK, Steps, OpenLiveStore, GoTo, UpdateStatus, rowVars, listVars, Interrupted
  <2>4. CASE Launch
    BY <2>1, <2>4 DEF TypeOK, Steps, Launch, GoTo, UpdateStatus, rowVars, listVars
  <2>5. CASE OpenFifo
    BY <2>1, <2>5 DEF TypeOK, Steps, OpenFifo, GoTo, UpdateStatus, rowVars, listVars
  <2>6. CASE LeaveSession
    BY <2>1, <2>6 DEF TypeOK, Steps, LeaveSession, GoTo, UpdateStatus, rowVars, listVars
  <2>7. CASE \E i \in Items : ClaimNextReady(i)
    BY <2>1, <2>7, PlayoutSettings DEF TypeOK, Steps, ClaimNextReady, GoTo, UpdateStatus, rowVars, listVars, Ready
  <2>8. CASE NothingReady
    BY <2>1, <2>8 DEF TypeOK, Steps, NothingReady, GoTo, UpdateStatus, rowVars, listVars
  <2>9. CASE ReleaseMissing
    BY <2>1, <2>9 DEF TypeOK, Steps, ReleaseMissing, GoTo, UpdateStatus, rowVars, listVars, PutBack
  <2>10. CASE MarkFailed
    BY <2>1, <2>10 DEF TypeOK, Steps, MarkFailed, GoTo, UpdateStatus, rowVars, listVars
  <2>11. CASE TakeLive
    BY <2>1, <2>11, PlayoutSettings DEF TypeOK, Steps, TakeLive, GoTo, UpdateStatus, rowVars, listVars
  <2>12. CASE \E t \in Files : TakeFiller(t)
    BY <2>1, <2>12, PlayoutSettings DEF TypeOK, Steps, TakeFiller, GoTo, UpdateStatus, rowVars, listVars
  <2>13. CASE NoFiller
    BY <2>1, <2>13 DEF TypeOK, Steps, NoFiller, GoTo, UpdateStatus, rowVars, listVars
  <2>14. CASE Retry
    BY <2>1, <2>14 DEF TypeOK, Steps, Retry, GoTo, UpdateStatus, rowVars, listVars
  <2>15. CASE Decode
    BY <2>1, <2>15 DEF TypeOK, Steps, Decode, GoTo, UpdateStatus, rowVars, listVars
  <2>16. CASE CheckAlive
    BY <2>1, <2>16 DEF TypeOK, Steps, CheckAlive, GoTo, UpdateStatus, rowVars, listVars, HasRow
  <2>17. CASE MarkPlayed
    BY <2>1, <2>17 DEF TypeOK, Steps, MarkPlayed, GoTo, UpdateStatus, rowVars, listVars
  <2>18. CASE EndSession
    BY <2>1, <2>18, PlayoutSettings DEF TypeOK, Steps, EndSession, GoTo, UpdateStatus, rowVars, listVars
  <2>19. CASE Rebuild
    BY <2>1, <2>19, EmptyTyped DEF TypeOK, Steps, Rebuild, GoTo, UpdateStatus, rowVars, listVars
  <2>20. CASE LeaveMain
    <3>1. pc' = "down" /\ slot' \in {slot, None} /\ ffmpeg' \in {ffmpeg, FALSE} /\ stopping' = FALSE
      BY <2>20 DEF LeaveMain, GoTo
    <3>2. entries' \in Seq(Files) /\ skips' \in Nat /\ attempts' \in Nat /\ faults' \in Nat
      BY <2>20, EmptyTyped DEF LeaveMain, Fault, TypeOK
    <3>3. UNCHANGED <<status, audio>>
      BY <2>20 DEF LeaveMain, rowVars
    <3> QED
      BY <2>1, <3>1, <3>2, <3>3 DEF TypeOK, Steps
  <2>21. CASE \E t \in Files : AppendEntry(t)
    BY <2>1, <2>21 DEF TypeOK, Steps, AppendEntry, GoTo, UpdateStatus, rowVars, listVars
  <2>22. CASE \E t \in Files : SkipEntry(t)
    BY <2>1, <2>22 DEF TypeOK, Steps, SkipEntry, GoTo, UpdateStatus, rowVars, listVars
  <2>23. CASE Resync
    BY <2>1, <2>23 DEF TypeOK, Steps, Resync, GoTo, UpdateStatus, rowVars, listVars
  <2>24. CASE PlayPlaylist
    BY <2>1, <2>24 DEF TypeOK, Steps, PlayPlaylist, GoTo, UpdateStatus, rowVars, listVars
  <2>25. CASE PlaylistEnds
    BY <2>1, <2>25 DEF TypeOK, Steps, PlaylistEnds, GoTo, UpdateStatus, rowVars, listVars
  <2>26. CASE \E i \in Items : ManagerMarksReady(i)
    BY <2>1, <2>26, PlayoutSettings DEF TypeOK, Steps, ManagerMarksReady, GoTo, UpdateStatus, rowVars, listVars
  <2>27. CASE \E i \in Items : ManagerMarksFailed(i)
    BY <2>1, <2>27 DEF TypeOK, Steps, ManagerMarksFailed, GoTo, UpdateStatus, rowVars, listVars
  <2>28. CASE \E i \in Items : FileArrives(i)
    BY <2>1, <2>28, PlayoutSettings DEF TypeOK, Steps, FileArrives, GoTo, UpdateStatus, rowVars, listVars
  <2>29. CASE StayOnFiller
    BY <2>1, <2>29 DEF TypeOK, Steps, StayOnFiller, GoTo, UpdateStatus, rowVars, listVars, Fault
  <2>30. CASE Crash
    <3>1. pc' = "down" /\ slot' \in {slot, None} /\ ffmpeg' \in {ffmpeg, FALSE} /\ stopping' = FALSE
      BY <2>30 DEF Crash, Reset
    <3>2. entries' \in Seq(Files) /\ skips' \in Nat /\ attempts' \in Nat /\ faults' \in Nat
      BY <2>30, EmptyTyped DEF Crash, Reset, Fault, TypeOK
    <3>3. UNCHANGED <<status, audio>>
      BY <2>30 DEF Crash, rowVars
    <3> QED
      BY <2>1, <3>1, <3>2, <3>3 DEF TypeOK, Steps
  <2>31. CASE Stop
    BY <2>1, <2>31 DEF TypeOK, Steps, Stop, GoTo, UpdateStatus, rowVars, listVars, Fault
  <2>32. CASE FfmpegExits
    <3>1. ffmpeg' \in BOOLEAN /\ UNCHANGED <<status, audio, pc, slot, stopping>>
      BY <2>32 DEF FfmpegExits, rowVars
    <3>2. UNCHANGED listVars /\ faults' \in Nat
      BY <2>32 DEF FfmpegExits, TypeOK, Fault
    <3> QED
      BY <2>1, <3>1, <3>2 DEF TypeOK, listVars
  <2>33. CASE PoolChanges
    BY <2>1, <2>33 DEF TypeOK, Steps, PoolChanges, GoTo, UpdateStatus, rowVars, listVars, Fault
  <2>34. CASE TracksUnmounted
    BY <2>1, <2>34 DEF TypeOK, Steps, TracksUnmounted, GoTo, UpdateStatus, rowVars, listVars, Fault
  <2>35. CASE UNCHANGED vars
    BY <2>1, <2>35 DEF TypeOK, Steps, vars
  <2> QED
    BY <2>2, <2>3, <2>4, <2>5, <2>6, <2>7, <2>8, <2>9, <2>10, <2>11, <2>12, <2>13, <2>14, <2>15, <2>16, <2>17, <2>18, <2>19, <2>20, <2>21, <2>22, <2>23, <2>24, <2>25, <2>26, <2>27, <2>28, <2>29, <2>30, <2>31, <2>32, <2>33, <2>34, <2>35
       DEF Next, Controller, Live, PlaylistMode, Outside, Trouble
<1> QED
  BY <1>1, <1>2, PTL DEF Spec

-----------------------------------------------------------------------------
(* The life cycle of a row *)

LEMMA Moves ==
  ASSUME status \in [Items -> StatusNames], NEW i \in Items
  PROVE  /\ UpdateStatus(i, "ready", "generating") => [Lifecycle!Next]_(Lifecycle!vars)
         /\ UpdateStatus(i, "failed", "generating") => [Lifecycle!Next]_(Lifecycle!vars)
         /\ UpdateStatus(i, "playing", "ready") => [Lifecycle!Next]_(Lifecycle!vars)
         /\ UpdateStatus(i, "played", "playing") => [Lifecycle!Next]_(Lifecycle!vars)
<1> DEFINE Take == [k \in Items |-> IF status[k] \in {"ready", "playing", "played"} THEN k ELSE 0]
<1>0. ASSUME NEW new, NEW old, UpdateStatus(i, new, old), status[i] # old
      PROVE  UNCHANGED status
  BY <1>0 DEF UpdateStatus
<1>1. ASSUME UNCHANGED status PROVE UNCHANGED Lifecycle!vars
  BY <1>1 DEF Lifecycle!vars
<1>2. ASSUME status[i] = "generating", UpdateStatus(i, "ready", "generating")
      PROVE  Lifecycle!Deliver(i)
  <2>1. status' = [status EXCEPT ![i] = "ready"]
    BY <1>2 DEF UpdateStatus
  <2>2. Take' = [Take EXCEPT ![i] = i] /\ Take[i] = 0
    BY <1>2, <2>1
  <2>3. i \in Nat \ {0}
    BY PlayoutSettings DEF Items
  <2> QED
    BY <1>2, <2>1, <2>2, <2>3 DEF Lifecycle!Deliver, Lifecycle!Move
<1>3. ASSUME status[i] = "generating", UpdateStatus(i, "failed", "generating")
      PROVE  Lifecycle!GiveUp(i)
  BY <1>3 DEF UpdateStatus, Lifecycle!GiveUp, Lifecycle!Move
<1>4. ASSUME status[i] = "ready", UpdateStatus(i, "playing", "ready")
      PROVE  Lifecycle!Air(i)
  BY <1>4 DEF UpdateStatus, Lifecycle!Air, Lifecycle!Move
<1>5. ASSUME status[i] = "playing", UpdateStatus(i, "played", "playing")
      PROVE  Lifecycle!Finish(i)
  BY <1>5 DEF UpdateStatus, Lifecycle!Finish, Lifecycle!Move
<1> QED
  BY <1>0, <1>1, <1>2, <1>3, <1>4, <1>5 DEF Lifecycle!Next

LEMMA PutsBack ==
  ASSUME status \in [Items -> StatusNames], NEW S, S \subseteq Interrupted,
         status' = [i \in Items |-> IF i \in S THEN "ready" ELSE status[i]]
  PROVE  Lifecycle!Next
<1>1. S \in SUBSET Items /\ \A i \in S : status[i] = "playing"
  BY DEF Interrupted
<1>2. Lifecycle!PutBack(S)
  BY <1>1 DEF Lifecycle!PutBack
<1> QED
  BY <1>1, <1>2 DEF Lifecycle!Next

LEMMA Releases ==
  ASSUME status \in [Items -> StatusNames], NEW i \in Items, PutBack(i)
  PROVE  [Lifecycle!Next]_(Lifecycle!vars)
<1>1. CASE status[i] = "playing"
  <2>1. status' = [k \in Items |-> IF k \in {i} THEN "ready" ELSE status[k]]
    BY <1>1 DEF PutBack, UpdateStatus
  <2> QED
    BY <1>1, <2>1, PutsBack DEF Interrupted
<1>2. CASE status[i] # "playing"
  BY <1>2 DEF PutBack, UpdateStatus, Lifecycle!vars
<1> QED
  BY <1>1, <1>2

\* Spec => ImplementsLifecycle: whatever fails, a statement of the controller
\* moves a row along its life cycle or leaves it.
THEOREM RowsFollowLifecycle == Spec => ImplementsLifecycle
<1>1. TypeOK /\ [Next]_vars => [Lifecycle!Next]_(Lifecycle!vars)
  <2> SUFFICES ASSUME TypeOK, [Next]_vars PROVE [Lifecycle!Next]_(Lifecycle!vars)
    OBVIOUS
  <2>0. status \in [Items -> StatusNames]
    BY DEF TypeOK, StatusNames
  <2>1. CASE OpenLiveStore
    BY <2>0, <2>1, PutsBack DEF OpenLiveStore
  <2>2. CASE \E i \in Items : ClaimNextReady(i)
    BY <2>0, <2>2, Moves DEF ClaimNextReady
  <2>3. CASE ReleaseMissing
    BY <2>0, <2>3, Releases DEF ReleaseMissing, TypeOK
  <2>4. CASE MarkFailed
    BY <2>0, <2>4, Moves DEF MarkFailed, TypeOK
  <2>5. CASE MarkPlayed
    BY <2>0, <2>5, Moves DEF MarkPlayed, TypeOK
  <2>6. CASE \E i \in Items : ManagerMarksReady(i)
    BY <2>0, <2>6, Moves DEF ManagerMarksReady
  <2>7. CASE \E i \in Items : ManagerMarksFailed(i)
    BY <2>0, <2>7, Moves DEF ManagerMarksFailed
  <2>8. CASE UNCHANGED status
    BY <2>8 DEF Lifecycle!vars
  <2> QED
    BY <2>1, <2>2, <2>3, <2>4, <2>5, <2>6, <2>7, <2>8 DEF Next, Controller, Live,
       PlaylistMode, Outside, Trouble, Start, StayOnFiller, Launch, OpenFifo, LeaveSession,
       NothingReady, TakeLive, TakeFiller, NoFiller, Retry, Decode, CheckAlive, EndSession,
       Rebuild, LeaveMain, AppendEntry, SkipEntry, Resync, PlayPlaylist, PlaylistEnds,
       FileArrives, Crash, Stop, FfmpegExits, PoolChanges, TracksUnmounted, rowVars, vars
<1> QED
  BY <1>1, PlayoutTypeCorrect, PTL DEF Spec, ImplementsLifecycle

-----------------------------------------------------------------------------
(* No request is dropped *)

\* What a session relies on: FFmpeg runs as long as nothing but the controller
\* ends it, and without Postgres no session is begun.
Airing == pc \in {"fifo", "boundary", "claimed", "filler", "starved", "decode", "check", "mark"}
InSession == (Airing => ffmpeg) /\ (Unmeasured = {} \/ \A i \in Items : audio[i] # "bad")

\* With an FFmpeg that keeps running, Postgres up at start, and no track that
\* ffprobe cannot read, nothing is left playing: missing files, crashes, stops
\* and unmounted tracks put every claim back.
THEOREM NothingDropped ==
  ASSUME "ffmpeg" \notin Faults, "offline" \notin Faults,
         Unmeasured = {} \/ "bad" \notin TrackFiles
  PROVE  Spec => []PlayingIsInHand
<1> DEFINE I == TypeOK /\ InSession /\ PlayingIsInHand
<1>1. Init => InSession /\ PlayingIsInHand
  BY DEF Init, InSession, Airing, PlayingIsInHand
<1>2. I /\ [Next]_vars => InSession'
  <2> SUFFICES ASSUME I, [Next]_vars PROVE InSession'
    OBVIOUS
  <2>1. Airing' => ffmpeg'
    BY DEF Next, Controller, Live,
       PlaylistMode, Outside, Trouble, Start, OpenLiveStore, StayOnFiller, Launch, OpenFifo,
       LeaveSession, ClaimNextReady, ReleaseMissing, MarkFailed, MarkPlayed,
       NothingReady, TakeLive, TakeFiller, NoFiller, Retry, Decode, CheckAlive, EndSession,
       Rebuild, LeaveMain, AppendEntry, SkipEntry, Resync, PlayPlaylist, PlaylistEnds,
       ManagerMarksReady, ManagerMarksFailed,
       FileArrives, Crash, Reset, Stop, FfmpegExits, Fault, PoolChanges, TracksUnmounted,
       vars, InSession, Airing, GoTo, TypeOK
  <2>2. Unmeasured = {} \/ \A i \in Items : audio'[i] # "bad"
    <3>1. CASE Unmeasured = {}
      BY <3>1
    <3>2. CASE Unmeasured # {}
      <4>0. "bad" \notin TrackFiles /\ audio \in [Items -> {"good", "bad", "missing"}]
            /\ \A i \in Items : audio[i] # "bad"
        BY <3>2 DEF InSession, TypeOK
      <4>1. CASE \E i \in Items : ManagerMarksReady(i)
        BY <4>0, <4>1 DEF ManagerMarksReady
      <4>2. CASE \E i \in Items : FileArrives(i)
        BY <4>0, <4>2 DEF FileArrives
      <4>3. CASE TracksUnmounted
        BY <4>0, <4>3 DEF TracksUnmounted
      <4>4. CASE UNCHANGED audio
        BY <4>0, <4>4
      <4> QED
        BY <4>1, <4>2, <4>3, <4>4 DEF Next, Controller, Live,
          PlaylistMode, Outside, Trouble, Start, OpenLiveStore, StayOnFiller, Launch, OpenFifo,
          LeaveSession, ClaimNextReady, ReleaseMissing, MarkFailed, MarkPlayed,
          NothingReady, TakeLive, TakeFiller, NoFiller, Retry, Decode, CheckAlive, EndSession,
          Rebuild, LeaveMain, AppendEntry, SkipEntry, Resync, PlayPlaylist, PlaylistEnds,
          ManagerMarksFailed, Crash, Stop, FfmpegExits, PoolChanges, vars, rowVars
    <3> QED
      BY <3>1, <3>2
  <2> QED
    BY <2>1, <2>2 DEF InSession
<1>3. I /\ [Next]_vars => PlayingIsInHand'
  <2> SUFFICES ASSUME I, [Next]_vars, NEW i \in Items, status'[i] = "playing"
               PROVE  \/ slot' = i /\ pc' \in {"claimed", "decode", "check", "mark"}
                      \/ pc' \in {"down", "open"}
    BY DEF PlayingIsInHand
  <2> DEFINE Kept == slot = i /\ pc \in {"claimed", "decode", "check", "mark"}
             Down == pc \in {"down", "open"}
  <2>0. /\ status \in [Items -> StatusNames]
        /\ status[i] = "playing" => Kept \/ Down
    BY DEF TypeOK, StatusNames, PlayingIsInHand
  <2>1. ASSUME NEW k \in Items, NEW new, NEW old, UpdateStatus(k, new, old)
        PROVE  status[i] = "playing" \/ (k = i /\ new = "playing")
    BY <2>0, <2>1 DEF UpdateStatus
  <2>2. CASE OpenLiveStore
    BY <2>2, <2>0 DEF OpenLiveStore, Interrupted
  <2>3. CASE \E k \in Items : ClaimNextReady(k)
    <3>1. PICK k \in Items : ClaimNextReady(k)
      BY <2>3
    <3>2. k = i
      BY <3>1, <2>0, <2>1 DEF ClaimNextReady
    <3> QED
      BY <3>1, <3>2 DEF ClaimNextReady, GoTo
  <2>4. CASE ReleaseMissing
    BY <2>4, <2>0 DEF ReleaseMissing, PutBack, UpdateStatus, TypeOK
  <2>5. CASE MarkFailed
    BY <2>5 DEF MarkFailed, InSession, TypeOK
  <2>6. CASE MarkPlayed
    BY <2>6, <2>0 DEF MarkPlayed, UpdateStatus, TypeOK
  <2>7. CASE \E k \in Items : ManagerMarksReady(k) \/ ManagerMarksFailed(k)
    BY <2>7, <2>0 DEF ManagerMarksReady, ManagerMarksFailed, UpdateStatus
  <2>8. CASE TakeLive \/ Decode
    BY <2>8, <2>0 DEF TakeLive, Decode, GoTo, rowVars
  <2>9. CASE CheckAlive
    <3>1. ffmpeg /\ Kept
      BY <2>9, <2>0 DEF CheckAlive, InSession, Airing, rowVars
    <3> QED
      BY <2>9, <3>1 DEF CheckAlive, HasRow, GoTo
  <2>10. CASE Start \/ Crash
    BY <2>10 DEF Start, Crash, Reset, GoTo
  <2>11. CASE UNCHANGED <<status, pc, slot>>
    BY <2>11, <2>0
  <2>12. CASE ~Kept /\ ~Down /\ UNCHANGED status
    BY <2>12, <2>0
  <2>13. CASE StayOnFiller \/ FfmpegExits
    BY <2>13 DEF StayOnFiller, FfmpegExits, Fault
  <2> QED
    BY <2>2, <2>3, <2>4, <2>5, <2>6, <2>7, <2>8, <2>9, <2>10, <2>11, <2>12, <2>13
       DEF Next, Controller, Live, PlaylistMode, Outside, Trouble, Launch, OpenFifo,
       LeaveSession, NothingReady, TakeFiller, NoFiller, Retry, EndSession, Rebuild,
       LeaveMain, AppendEntry, SkipEntry, Resync, PlayPlaylist, PlaylistEnds, FileArrives,
       Stop, PoolChanges, TracksUnmounted, rowVars, vars
<1> QED
  BY <1>1, <1>2, <1>3, PlayoutTypeCorrect, PTL DEF Spec

-----------------------------------------------------------------------------
(* The rotation of the filler pool *)

\* last_played_at puts the played rows in a strict order.
OrderOK ==
  /\ \A t \in played : <<t, t>> \notin later
  /\ \A s, t, u \in played : <<s, t>> \in later /\ <<t, u>> \in later => <<s, u>> \in later
  /\ \A t, u \in played : t # u => <<t, u>> \in later \/ <<u, t>> \in later

LEMMA PickOrders ==
  ASSUME PoolTypeOK, OrderOK, NEW t \in Files, PickAndMarkPlayed(t)
  PROVE  OrderOK'
<1>1. \A a, b \in played' : <<a, b>> \in later' <=>
        \/ a # t /\ b # t /\ <<a, b>> \in later
        \/ a = t /\ b # t
  BY DEF PickAndMarkPlayed, PoolTypeOK
<1>2. \A a \in played' : a # t => a \in played
  BY DEF PickAndMarkPlayed
<1> QED
  BY <1>1, <1>2 DEF OrderOK

LEMMA SyncOrders ==
  ASSUME PoolTypeOK, OrderOK, SyncFromDisk
  PROVE  OrderOK'
<1>1. played' \subseteq played
  BY DEF SyncFromDisk
<1>2. \A a, b \in played' : <<a, b>> \in later' <=> <<a, b>> \in later
  BY DEF SyncFromDisk, PoolTypeOK
<1> QED
  BY <1>1, <1>2 DEF OrderOK

\* The window leaves out recent rows only, so the row that is picked, if it was
\* played before, is the one that was played before all others.
LEMMA WindowKeepsOldest ==
  ASSUME PoolTypeOK, OrderOK, NEW t \in Picks, t \in played
  PROVE  rows \ {t} = PlayedAfter(t)
<1>1. rows \subseteq Files /\ played \subseteq rows /\ IsFiniteSet(played)
  BY PoolSettings, FS_Subset DEF PoolTypeOK
<1>2. t \in Candidates /\ Candidates \subseteq played
        /\ \A u \in Candidates \ {t} : <<u, t>> \in later
  BY DEF Picks, First
<1>3. rows \subseteq played
  BY <1>2 DEF Candidates, Excluded, RecentIds
<1>4. ASSUME NEW u \in rows \ {t} PROVE <<u, t>> \in later
  <2>1. CASE u \in Candidates
    BY <2>1, <1>2
  <2>2. CASE u \notin Candidates
    <3>1. u \in Excluded /\ t \notin Excluded
      BY <2>2, <1>2, <1>4 DEF Candidates
    <3>2. SUFFICES ASSUME <<t, u>> \in later PROVE FALSE
      BY <1>3, <1>4 DEF OrderOK
    <3>3. PlayedAfter(t) \subseteq PlayedAfter(u) /\ PlayedAfter(u) \subseteq played
      BY <3>2, <1>3 DEF PlayedAfter, OrderOK
    <3>4. IsFiniteSet(PlayedAfter(u))
      BY <3>3, <1>1, FS_Subset
    <3>5. Cardinality(PlayedAfter(t)) <= Cardinality(PlayedAfter(u))
      BY <3>3, <3>4, FS_Subset
    <3>6. Cardinality(PlayedAfter(t)) \in Nat /\ Cardinality(PlayedAfter(u)) \in Nat
      BY <3>3, <3>4, FS_Subset, FS_CardinalityType
    <3>7. EffectiveAvoid \in Int
      <4>1. Cardinality(rows) \in Nat
        BY <1>1, PoolSettings, FS_Subset, FS_CardinalityType
      <4> QED
        BY <4>1, PoolSettings DEF EffectiveAvoid
    <3> QED
      BY <3>1, <3>5, <3>6, <3>7 DEF Excluded, RecentIds
  <2> QED
    BY <2>1, <2>2
<1> QED
  BY <1>1, <1>3, <1>4 DEF PlayedAfter, OrderOK

LEMMA PlaysAreOrdered == Spec => []OrderOK
<1>1. Init => OrderOK
  BY DEF Init, PoolInit, OrderOK
<1>2. TypeOK /\ OrderOK /\ [Next]_vars => OrderOK'
  <2> SUFFICES ASSUME TypeOK, OrderOK, [Next]_vars PROVE OrderOK'
    OBVIOUS
  <2>0. PoolTypeOK
    BY DEF TypeOK
  <2>1. CASE SyncFromDisk
    BY <2>0, <2>1, SyncOrders
  <2>2. CASE \E t \in Files : PickAndMarkPlayed(t)
    BY <2>0, <2>2, PickOrders
  <2>3. CASE UNCHANGED <<played, later>>
    BY <2>3 DEF OrderOK
  <2> QED
    BY <2>1, <2>2, <2>3 DEF Next, Controller, Live, PlaylistMode, Outside, Trouble,
       Start, OpenLiveStore, StayOnFiller, Launch, OpenFifo, LeaveSession, ClaimNextReady,
       NothingReady, ReleaseMissing, MarkFailed, TakeLive, TakeFiller, NoFiller, Retry,
       Decode, CheckAlive, MarkPlayed, EndSession, Rebuild, LeaveMain, AppendEntry,
       SkipEntry, Resync, PlayPlaylist, PlaylistEnds, ManagerMarksReady,
       ManagerMarksFailed, FileArrives, Crash, Stop, FfmpegExits, PoolChanges,
       TracksUnmounted, vars, poolVars
<1> QED  BY <1>1, <1>2, PlayoutTypeCorrect, PTL DEF Spec

\* Spec => RotationIsFair: with any window and any pool, a filler track comes
\* again only after every other track of the pool.
THEOREM Rotation == Spec => RotationIsFair
<1> DEFINE I == TypeOK /\ OrderOK
<1> DEFINE Picking == (pc = "filler" /\ pc' \in {"decode", "starved"}) \/ attempts' = attempts + 1
<1>3. ASSUME I, Next, Picking, NEW t \in played
      PROVE  \E p \in Files : PickAndMarkPlayed(p)
  <2>0. attempts \in Nat /\ rows # {}
    BY <1>3 DEF TypeOK, PoolTypeOK
  <2>1. CASE Outside \/ Trouble
    BY <1>3, <2>0, <2>1 DEF Outside, Trouble, ManagerMarksReady, ManagerMarksFailed, FileArrives,
       StayOnFiller, Crash, Reset, Stop, FfmpegExits, PoolChanges, TracksUnmounted, listVars, GoTo
  <2>2. CASE Controller
    BY <1>3, <2>0, <2>2 DEF Controller, Live, PlaylistMode,
       Start, OpenLiveStore, Launch, OpenFifo, LeaveSession, ClaimNextReady,
       NothingReady, ReleaseMissing, MarkFailed, TakeLive, TakeFiller, NoFiller, Retry,
       Decode, CheckAlive, MarkPlayed, EndSession, Rebuild, LeaveMain, AppendEntry,
       SkipEntry, Resync, PlayPlaylist, PlaylistEnds, listVars, GoTo
  <2> QED
    BY <1>3, <2>1, <2>2 DEF Next
<1>4. I /\ [Next]_vars =>
        [\A t \in Files :
           /\ (pc = "filler" /\ pc' \in {"decode", "starved"}) \/ attempts' = attempts + 1
           /\ t \in played /\ played' \ {t} = PlayedBefore(t)'
           => rows \ {t} = PlayedAfter(t)]_vars
  <2> SUFFICES ASSUME I, Next, NEW t \in Files, Picking, t \in played,
                      played' \ {t} = PlayedBefore(t)'
               PROVE  rows \ {t} = PlayedAfter(t)
    OBVIOUS
  <2>1. PICK p \in Files : PickAndMarkPlayed(p)
    BY <1>3
  <2>2. t = p
    <3> SUFFICES ASSUME t # p PROVE FALSE
      OBVIOUS
    <3>1. p \in played'
      BY <2>1 DEF PickAndMarkPlayed
    <3>2. <<t, p>> \in later'
      BY <3>1 DEF PlayedBefore
    <3> QED
      BY <2>1, <3>2 DEF PickAndMarkPlayed
  <2> QED
    BY <2>1, <2>2, WindowKeepsOldest DEF TypeOK, PickAndMarkPlayed
<1> QED
  BY <1>4, PlaysAreOrdered, PlayoutTypeCorrect, PTL DEF Spec, RotationIsFair

-----------------------------------------------------------------------------
(* The playlists of filler *)

\* While a playlist is made, whatever was played since its last entry was skipped.
SkipsCounted ==
  entries # <<>> =>
    /\ pc \in {"rebuild", "build", "resync", "play", "empty"}
    /\ Last(entries) \in played => Cardinality(PlayedAfter(Last(entries))) <= skips

LEMMA PlayedIsFinite ==
  ASSUME PoolTypeOK, NEW t
  PROVE  IsFiniteSet(PlayedAfter(t)) /\ Cardinality(PlayedAfter(t)) \in Nat
<1>1. IsFiniteSet(played)
  BY PoolSettings, FS_Subset DEF PoolTypeOK
<1> QED BY <1>1, FS_Subset, FS_CardinalityType DEF PlayedAfter

LEMMA AppendedIsLast ==
  ASSUME NEW s \in Seq(Files), NEW t \in Files
  PROVE  Append(s, t) # <<>> /\ Append(s, t) # s /\ Last(Append(s, t)) = t
BY DEF Last

\* A pick is the newest play of all; it makes the plays after another row one more.
LEMMA PickPlaysAfter ==
  ASSUME PoolTypeOK, NEW t \in Files, PickAndMarkPlayed(t)
  PROVE  /\ Cardinality(PlayedAfter(t)') = 0
         /\ \A s \in played' \ {t} :
              /\ s \in played /\ Cardinality(PlayedAfter(s)') \in Nat
              /\ Cardinality(PlayedAfter(s)') <= Cardinality(PlayedAfter(s)) + 1
<1>1. \A a, b \in played' : <<a, b>> \in later' <=>
        \/ a # t /\ b # t /\ <<a, b>> \in later
        \/ a = t /\ b # t
  BY DEF PickAndMarkPlayed, PoolTypeOK
<1>2. t \in played' /\ played' = played \union {t}
  BY DEF PickAndMarkPlayed
<1>3. PlayedAfter(t)' = {}
  BY <1>1, <1>2 DEF PlayedAfter
<1>4. ASSUME NEW s \in played' \ {t}
      PROVE  /\ s \in played /\ Cardinality(PlayedAfter(s)') \in Nat
             /\ Cardinality(PlayedAfter(s)') <= Cardinality(PlayedAfter(s)) + 1
  <2> DEFINE A == PlayedAfter(s)
             B == PlayedAfter(s) \union {t}
  <2>1. PlayedAfter(s)' \subseteq B
    BY <1>1, <1>2, <1>4 DEF PlayedAfter
  <2>2. IsFiniteSet(A) /\ Cardinality(A) \in Nat
    BY PlayedIsFinite
  <2>3. IsFiniteSet(B) /\ Cardinality(B) \in {Cardinality(A), Cardinality(A) + 1}
    BY <2>2, FS_AddElement
  <2>4. Cardinality(PlayedAfter(s)') <= Cardinality(B) /\ Cardinality(PlayedAfter(s)') \in Nat
    BY <2>1, <2>3, FS_Subset, FS_CardinalityType
  <2> QED BY <1>2, <1>4, <2>2, <2>3, <2>4
<1> QED BY <1>3, <1>4, FS_EmptySet

LEMMA SkipsStep == TypeOK /\ SkipsCounted /\ [Next]_vars => SkipsCounted'
<1> SUFFICES ASSUME TypeOK, SkipsCounted, [Next]_vars, entries' # <<>> PROVE SkipsCounted'
  BY DEF SkipsCounted
<1>0. PoolTypeOK /\ entries \in Seq(Files) /\ skips \in Nat
  BY DEF TypeOK
<1>1. CASE \E t \in Files : AppendEntry(t)
  <2>1. PICK t \in Files : AppendEntry(t)
    BY <1>1
  <2>2. Last(entries') = t /\ skips' = 0 /\ pc' = "build" /\ PickAndMarkPlayed(t)
    BY <1>0, <2>1, AppendedIsLast DEF AppendEntry
  <2> QED BY <1>0, <2>2, PickPlaysAfter DEF SkipsCounted
<1>2. CASE \E t \in Files : SkipEntry(t)
  <2>1. PICK t \in Files : SkipEntry(t)
    BY <1>2
  <2>2. /\ entries' = entries /\ skips' = skips + 1 /\ pc' \in {"build", "resync"}
        /\ PickAndMarkPlayed(t)
    BY <2>1 DEF SkipEntry, GoTo
  <2>0. PICK L : L = Last(entries)
    OBVIOUS
  <2>3. \A s : Cardinality(PlayedAfter(s)) \in Nat
    BY <1>0, PlayedIsFinite
  <2>4. L \in played' => Cardinality(PlayedAfter(L)') <= skips'
    <3>1. CASE L = t
      <4>1. Cardinality(PlayedAfter(t)') = 0
        BY <1>0, <2>2, PickPlaysAfter
      <4>2. skips' \in Nat
        BY <1>0, <2>2
      <4>3. PlayedAfter(L)' = PlayedAfter(t)'
        BY <3>1 DEF PlayedAfter
      <4> QED BY <4>1, <4>2, <4>3
    <3>2. CASE L # t
      <4> SUFFICES ASSUME L \in played' PROVE Cardinality(PlayedAfter(L)') <= skips'
        OBVIOUS
      <4>1. /\ L \in played /\ Cardinality(PlayedAfter(L)') \in Nat
            /\ Cardinality(PlayedAfter(L)') <= Cardinality(PlayedAfter(L)) + 1
        BY <1>0, <2>2, <3>2, PickPlaysAfter
      <4>2. Cardinality(PlayedAfter(L)) <= skips
        BY <2>0, <2>2, <4>1 DEF SkipsCounted
      <4> QED BY <1>0, <2>2, <2>3, <4>1, <4>2
    <3> QED BY <3>1, <3>2
  <2> QED BY <2>0, <2>2, <2>4 DEF SkipsCounted
<1>3. CASE Resync
  <2>1. entries' = entries /\ skips' = skips /\ pc' = "build" /\ SyncFromDisk
    BY <1>3 DEF Resync, GoTo, listVars
  <2>0. PICK L : L = Last(entries)
    OBVIOUS
  <2>2. played' \subseteq played /\ PlayedAfter(L)' \subseteq PlayedAfter(L)
    BY <2>1 DEF SyncFromDisk, PlayedAfter
  <2>3. /\ IsFiniteSet(PlayedAfter(L)) /\ Cardinality(PlayedAfter(L)) \in Nat
        /\ Cardinality(PlayedAfter(L)') <= Cardinality(PlayedAfter(L))
        /\ Cardinality(PlayedAfter(L)') \in Nat
    BY <1>0, <2>2, PlayedIsFinite, FS_Subset, FS_CardinalityType
  <2> QED BY <1>0, <2>0, <2>1, <2>2, <2>3 DEF SkipsCounted
<1>4. CASE PlayPlaylist \/ PlaylistEnds
  <2>1. UNCHANGED <<played, later, entries, skips>> /\ pc' \in {"rebuild", "play", "empty"}
    BY <1>4 DEF PlayPlaylist, PlaylistEnds, GoTo, poolVars, listVars
  <2> QED BY <2>1 DEF SkipsCounted, PlayedAfter
<1>5. CASE Outside \/ Trouble \/ UNCHANGED vars
  <2>1. UNCHANGED <<played, later, entries, skips>> /\ (pc' = pc \/ pc = "open")
    BY <1>5 DEF Outside, ManagerMarksReady, ManagerMarksFailed, FileArrives, Trouble,
       StayOnFiller, Crash, Reset, Stop, FfmpegExits, PoolChanges, TracksUnmounted, vars,
       poolVars, listVars, GoTo
  <2> QED BY <2>1 DEF SkipsCounted, PlayedAfter
<1>6. CASE Rebuild \/ LeaveMain
  BY <1>6 DEF Rebuild, LeaveMain
<1>7. CASE Start \/ OpenLiveStore \/ Live
  <2>1. entries' = entries /\ pc \notin {"rebuild", "build", "resync", "play", "empty"}
    BY <1>7 DEF Start, OpenLiveStore, Live, Launch, OpenFifo, LeaveSession, ClaimNextReady,
       NothingReady, ReleaseMissing, MarkFailed, TakeLive, TakeFiller, NoFiller, Retry,
       Decode, CheckAlive, MarkPlayed, EndSession, listVars
  <2> QED BY <2>1 DEF SkipsCounted
<1> QED
  BY <1>1, <1>2, <1>3, <1>4, <1>5, <1>6, <1>7 DEF Next, Controller, PlaylistMode

\* Spec => RepeatOnlyWhenAlone: with any pool, any window and any changes of the
\* files, a playlist repeats a row at once only when every other one was tried.
THEOREM RepeatsAreForced == Spec => RepeatOnlyWhenAlone
<1> DEFINE I == TypeOK /\ OrderOK /\ SkipsCounted
<1>1. Init => SkipsCounted
  BY DEF Init, SkipsCounted
<1>2. I /\ [Next]_vars =>
        [\A t \in played :
           entries # <<>> /\ entries' = Append(entries, t) /\ Last(entries) = t
           => skips >= Cardinality(rows \ {t})]_vars
  <2> SUFFICES ASSUME I, Next, NEW t \in played, entries # <<>>,
                      entries' = Append(entries, t), Last(entries) = t
               PROVE  skips >= Cardinality(rows \ {t})
    OBVIOUS
  <2>0. PoolTypeOK /\ entries \in Seq(Files) /\ t \in Files /\ skips \in Nat
    BY DEF TypeOK, PoolTypeOK
  <2>1. entries' # entries /\ entries' # <<>> /\ Last(entries') = t
    BY <2>0, AppendedIsLast
  <2>2. PICK p \in Files : AppendEntry(p)
    BY <2>1 DEF Next, Controller, Live, PlaylistMode, Outside, Trouble,
       Start, OpenLiveStore, StayOnFiller, Launch, OpenFifo, LeaveSession, ClaimNextReady,
       NothingReady, ReleaseMissing, MarkFailed, TakeLive, TakeFiller, NoFiller, Retry,
       Decode, CheckAlive, MarkPlayed, EndSession, Rebuild, LeaveMain,
       SkipEntry, Resync, PlayPlaylist, PlaylistEnds, ManagerMarksReady,
       ManagerMarksFailed, FileArrives, Crash, Reset, Stop, FfmpegExits, PoolChanges,
       TracksUnmounted, listVars
  <2>3. t = p
    BY <2>0, <2>1, <2>2, AppendedIsLast DEF AppendEntry
  <2>4. rows \ {t} = PlayedAfter(t)
    BY <2>0, <2>2, <2>3, WindowKeepsOldest DEF AppendEntry, PickAndMarkPlayed
  <2>5. Cardinality(PlayedAfter(t)) <= skips /\ Cardinality(PlayedAfter(t)) \in Nat
    BY <2>0, PlayedIsFinite DEF SkipsCounted
  <2> QED BY <2>0, <2>4, <2>5
<1>3. TypeOK /\ SkipsCounted /\ [Next]_vars => SkipsCounted'
  BY SkipsStep
<1> QED
  BY <1>1, <1>2, <1>3, PlaysAreOrdered, PlayoutTypeCorrect, PTL DEF Spec, RepeatOnlyWhenAlone

=============================================================================
