------------------------------- MODULE Playout -------------------------------
(***************************************************************************)
(* The playout controller (playout/playout_controller.py): one FFmpeg at a *)
(* time, fed with ready requests at track boundaries and with filler when  *)
(* there is none (live mode), or with a playlist of filler alone when      *)
(* Postgres was out of reach at start (playlist mode).                     *)
(*                                                                         *)
(* A step is one database statement, one look at the disk or at the        *)
(* FFmpeg process, or one wait.  Requests are numbered in the order        *)
(* claim_next_ready takes them, and come ready in any order.               *)
(*                                                                         *)
(* Abstracted: time (a wait ends at some point; a playlist is long enough  *)
(* when it has PlaylistTracks entries), the backoff between sessions, the  *)
(* now-playing file, which only playlist mode writes, and DRY_RUN.         *)
(***************************************************************************)
EXTENDS FillerPool, SequencesExt

CONSTANTS
  NumItems,        \* requests under way
  Unmeasured,      \* the requests whose track has no duration_sec
  TrackFiles,      \* what a request's file can turn out to be: good, bad
  None,            \* no slot
  PlaylistTracks,  \* entries that make a playlist long enough
  MaxSkips,        \* unplayable tracks in a row that end a playlist
  MaxAttempts,     \* picks for one playlist
  Faults,          \* which of AllFaults may happen
  MaxFaults        \* bound: faults in one behaviour

Items == 1..NumItems
AllFaults == {"crash",      \* the container dies, or a failed statement ends it
              "stop",       \* SIGTERM, and a start by the operator
              "offline",    \* Postgres cannot be reached at start
              "ffmpeg",     \* FFmpeg exits by itself in a live session
              "pool",       \* a file of the filler pool changes
              "tracks"}     \* a request's file is not there: the mount is gone

ASSUME PlayoutSettings ==
  /\ NumItems \in Nat /\ Unmeasured \subseteq Items
  /\ TrackFiles \subseteq {"good", "bad"}
  /\ None \notin Items \union Files
  /\ PlaylistTracks \in Nat \ {0} /\ MaxSkips \in Nat \ {0} /\ MaxAttempts \in Nat \ {0}
  /\ Faults \subseteq AllFaults /\ MaxFaults \in Nat

VARIABLES
  status,     \* status of the queue_items rows, from generating on
  audio,      \* the file of each request: good, bad or missing
  pc,         \* where the controller stands
  slot,       \* the request or filler track it has in hand
  ffmpeg,     \* the FFmpeg process is alive
  stopping,   \* _shutdown_requested
  entries,    \* the playlist being built or played
  skips,      \* consecutive_skips
  attempts,   \* picks made for this playlist
  faults      \* faults so far

rowVars  == <<status, audio>>
listVars == <<entries, skips, attempts>>
vars == <<disk, rows, played, later, status, audio, pc, slot, ffmpeg, stopping,
          entries, skips, attempts, faults>>

GoTo(step) == pc' = step
\* A status transition guarded on the current status; it may change nothing.
UpdateStatus(i, new, expected) ==
  status' = [status EXCEPT ![i] = IF @ = expected THEN new ELSE @]

-----------------------------------------------------------------------------
(* Start *)

\* entrypoint.sh and the first lines of main.
Start ==
  /\ pc = "down"
  /\ SyncFromDisk
  /\ GoTo("open")
  /\ UNCHANGED <<rowVars, slot, ffmpeg, stopping, listVars, faults>>

\* The rows requeue_interrupted puts back.
Aired == {i \in Items : status[i] \in {"playing", "played"}}      \* (a variant)
NotAsked == {}                                                     \* (a variant)
Interrupted == {i \in Items : status[i] = "playing"}

OpenLiveStore ==
  /\ pc = "open"
  /\ status' = [i \in Items |-> IF i \in Interrupted THEN "ready" ELSE status[i]]
  /\ GoTo("session")
  /\ UNCHANGED <<poolVars, audio, slot, ffmpeg, stopping, listVars, faults>>

Fault(kind) == kind \in Faults /\ faults < MaxFaults /\ faults' = faults + 1

\* open_live_store returns None and is not called again.
StayOnFiller ==
  /\ pc = "open" /\ Fault("offline")
  /\ GoTo("rebuild")
  /\ UNCHANGED <<poolVars, rowVars, slot, ffmpeg, stopping, listVars>>

-----------------------------------------------------------------------------
(* Live mode: run_live_playout and play_tailable *)

\* The loop of run_live_playout; the process ends when it is asked to stop.
Launch ==
  /\ pc = "session"
  /\ IF stopping THEN GoTo("down") /\ stopping' = FALSE /\ UNCHANGED ffmpeg
                 ELSE GoTo("fifo") /\ ffmpeg' = TRUE /\ UNCHANGED stopping
  /\ UNCHANGED <<poolVars, rowVars, slot, listVars, faults>>

\* _open_fifo_writer: FFmpeg opens its end, or it is given up.
OpenFifo ==
  /\ pc = "fifo"
  /\ GoTo(IF ffmpeg THEN "boundary" ELSE "ended")
  /\ UNCHANGED <<poolVars, rowVars, slot, ffmpeg, stopping, listVars, faults>>

\* The while condition of play_tailable.
LeaveSession ==
  /\ pc = "boundary" /\ (stopping \/ ~ffmpeg)
  /\ GoTo("ended")
  /\ UNCHANGED <<poolVars, rowVars, slot, ffmpeg, stopping, listVars, faults>>

Ready == {i \in Items : status[i] = "ready"}

\* claim_next_ready, in one transaction.
ClaimNextReady(i) ==
  /\ pc = "boundary" /\ ffmpeg /\ ~stopping
  /\ i \in Ready /\ \A k \in Ready : i <= k
  /\ slot' = i
  /\ UpdateStatus(i, "playing", "ready")
  /\ GoTo("claimed")
  /\ UNCHANGED <<poolVars, audio, ffmpeg, stopping, listVars, faults>>

NothingReady ==
  /\ pc = "boundary" /\ ffmpeg /\ ~stopping /\ Ready = {}
  /\ GoTo("filler")
  /\ UNCHANGED <<poolVars, rowVars, slot, ffmpeg, stopping, listVars, faults>>

\* _take_live: the file is not on disk yet, and the row is put back.
KeepClaim(i) == UNCHANGED status                                   \* (a variant)
PutBack(i) == UpdateStatus(i, "ready", "playing")
ReleaseMissing ==
  /\ pc = "claimed" /\ audio[slot] = "missing"
  /\ PutBack(slot)
  /\ slot' = None
  /\ GoTo("filler")
  /\ UNCHANGED <<poolVars, audio, ffmpeg, stopping, listVars, faults>>

\* _take_live: no duration in the row, and ffprobe finds none.
MarkFailed ==
  /\ pc = "claimed" /\ audio[slot] = "bad" /\ slot \in Unmeasured
  /\ UpdateStatus(slot, "failed", "generating")
  /\ slot' = None
  /\ GoTo("filler")
  /\ UNCHANGED <<poolVars, audio, ffmpeg, stopping, listVars, faults>>

TakeLive ==
  /\ pc = "claimed" /\ audio[slot] # "missing"
  /\ audio[slot] = "good" \/ slot \notin Unmeasured
  /\ GoTo("decode")
  /\ UNCHANGED <<poolVars, rowVars, slot, ffmpeg, stopping, listVars, faults>>

\* _take_filler: an unplayable pick leaves the boundary without a slot.
TakeFiller(t) ==
  /\ pc = "filler"
  /\ PickAndMarkPlayed(t)
  /\ IF Playable(t) THEN slot' = t /\ GoTo("decode")
                    ELSE GoTo("starved") /\ UNCHANGED slot
  /\ UNCHANGED <<rowVars, ffmpeg, stopping, listVars, faults>>

NoFiller ==
  /\ pc = "filler" /\ rows = {}
  /\ GoTo("starved")
  /\ UNCHANGED <<poolVars, rowVars, slot, ffmpeg, stopping, listVars, faults>>

\* EMPTY_POOL_RETRY_SEC is over.
Retry ==
  /\ pc = "starved"
  /\ GoTo("boundary")
  /\ UNCHANGED <<poolVars, rowVars, slot, ffmpeg, stopping, listVars, faults>>

\* _decode_into returns: the file is through, it could not be decoded, or FFmpeg
\* has closed the fifo.  Its return code is only logged.
Decode ==
  /\ pc = "decode"
  /\ GoTo("check")
  /\ UNCHANGED <<poolVars, rowVars, slot, ffmpeg, stopping, listVars, faults>>

\* The slot has a queue_item_id.
AnySlot == slot # None                                             \* (a variant)
HasRow == slot \in Items

\* proc.poll() after the decode: without FFmpeg the session is left at once.
CheckAlive ==
  /\ pc = "check"
  /\ IF ~ffmpeg THEN GoTo("ended") /\ slot' = None
     ELSE IF HasRow THEN GoTo("mark") /\ UNCHANGED slot
     ELSE GoTo("boundary") /\ slot' = None
  /\ UNCHANGED <<poolVars, rowVars, ffmpeg, stopping, listVars, faults>>

MarkPlayed ==
  /\ pc = "mark"
  /\ UpdateStatus(slot, "played", "playing")
  /\ slot' = None
  /\ GoTo("boundary")
  /\ UNCHANGED <<poolVars, audio, ffmpeg, stopping, listVars, faults>>

\* The finally of play_tailable: FFmpeg is waited for or killed.
EndSession ==
  /\ pc = "ended"
  /\ ffmpeg' = FALSE
  /\ GoTo("session")
  /\ UNCHANGED <<poolVars, rowVars, slot, stopping, listVars, faults>>

Live ==
  \/ Launch \/ OpenFifo \/ LeaveSession \/ NothingReady
  \/ (\E i \in Items : ClaimNextReady(i))
  \/ ReleaseMissing \/ MarkFailed \/ TakeLive
  \/ (\E t \in Files : TakeFiller(t)) \/ NoFiller \/ Retry
  \/ Decode \/ CheckAlive \/ MarkPlayed \/ EndSession

-----------------------------------------------------------------------------
(* Playlist mode: the loop of main, build_playlist and play_playlist *)

Rebuild ==
  /\ pc = "rebuild" /\ ~stopping
  /\ SyncFromDisk
  /\ entries' = <<>> /\ skips' = 0 /\ attempts' = 0
  /\ GoTo("build")
  /\ UNCHANGED <<rowVars, slot, ffmpeg, stopping, faults>>

LeaveMain ==
  /\ pc = "rebuild" /\ stopping
  /\ GoTo("down") /\ stopping' = FALSE
  /\ entries' = <<>> /\ skips' = 0 /\ attempts' = 0
  /\ UNCHANGED <<poolVars, rowVars, slot, ffmpeg, faults>>

GoOn ==
  /\ ~stopping
  /\ Len(entries) < PlaylistTracks /\ skips < MaxSkips /\ attempts < MaxAttempts
  /\ rows # {}

AppendEntry(t) ==
  /\ pc = "build" /\ GoOn
  /\ PickAndMarkPlayed(t) /\ Playable(t)
  /\ entries' = Append(entries, t) /\ skips' = 0 /\ attempts' = attempts + 1
  /\ UNCHANGED <<rowVars, pc, slot, ffmpeg, stopping, faults>>

SkipEntry(t) ==
  /\ pc = "build" /\ GoOn
  /\ PickAndMarkPlayed(t) /\ ~Playable(t)
  /\ skips' = skips + 1 /\ attempts' = attempts + 1
  /\ GoTo(IF disk[t] = "missing" THEN "resync" ELSE "build")
  /\ UNCHANGED <<rowVars, slot, ffmpeg, stopping, entries, faults>>

Resync ==
  /\ pc = "resync"
  /\ SyncFromDisk
  /\ GoTo("build")
  /\ UNCHANGED <<rowVars, slot, ffmpeg, stopping, listVars, faults>>

\* A playlist is played even if the controller was asked to stop meanwhile.
PlayPlaylist ==
  /\ pc = "build" /\ ~GoOn
  /\ IF entries = <<>> THEN GoTo("empty") /\ UNCHANGED ffmpeg
                       ELSE GoTo("play") /\ ffmpeg' = TRUE
  /\ UNCHANGED <<poolVars, rowVars, slot, stopping, listVars, faults>>

\* FFmpeg has come to the end of the playlist, or died; or the wait for a file
\* in an empty pool is over.
PlaylistEnds ==
  /\ pc \in {"play", "empty"}
  /\ ffmpeg' = FALSE
  /\ GoTo("rebuild")
  /\ UNCHANGED <<poolVars, rowVars, slot, stopping, listVars, faults>>

PlaylistMode ==
  \/ Rebuild \/ LeaveMain \/ (\E t \in Files : AppendEntry(t) \/ SkipEntry(t))
  \/ Resync \/ PlayPlaylist \/ PlaylistEnds

Controller == Start \/ OpenLiveStore \/ Live \/ PlaylistMode

-----------------------------------------------------------------------------
(* The manager, and the shared directory its tracks arrive in *)

ManagerMarksReady(i) ==
  /\ status[i] = "generating"
  /\ UpdateStatus(i, "ready", "generating")
  /\ \E found \in TrackFiles \union {"missing"} : audio' = [audio EXCEPT ![i] = found]
  /\ UNCHANGED <<poolVars, pc, slot, ffmpeg, stopping, listVars, faults>>

ManagerMarksFailed(i) ==
  /\ status[i] = "generating"
  /\ UpdateStatus(i, "failed", "generating")
  /\ UNCHANGED <<poolVars, audio, pc, slot, ffmpeg, stopping, listVars, faults>>

FileArrives(i) ==
  /\ status[i] \in {"ready", "playing"} /\ audio[i] = "missing"
  /\ \E found \in TrackFiles : audio' = [audio EXCEPT ![i] = found]
  /\ UNCHANGED <<poolVars, status, pc, slot, ffmpeg, stopping, listVars, faults>>

Outside == \E i \in Items : ManagerMarksReady(i) \/ ManagerMarksFailed(i) \/ FileArrives(i)

-----------------------------------------------------------------------------
(* Faults *)

\* What a new process starts with.
Reset == /\ pc' = "down" /\ slot' = None /\ ffmpeg' = FALSE /\ stopping' = FALSE
         /\ entries' = <<>> /\ skips' = 0 /\ attempts' = 0

Crash ==
  /\ pc # "down" /\ Fault("crash")
  /\ Reset
  /\ UNCHANGED <<poolVars, rowVars>>

\* _handle_signal
Stop ==
  /\ pc # "down" /\ ~stopping /\ Fault("stop")
  /\ stopping' = TRUE
  /\ UNCHANGED <<poolVars, rowVars, pc, slot, ffmpeg, listVars>>

FfmpegExits ==
  /\ ffmpeg /\ pc # "play" /\ Fault("ffmpeg")
  /\ ffmpeg' = FALSE
  /\ UNCHANGED <<poolVars, rowVars, pc, slot, stopping, listVars>>

PoolChanges ==
  /\ Fault("pool")
  /\ \E t \in Files, now \in {"good", "bad", "missing"} :
       now # disk[t] /\ disk' = [disk EXCEPT ![t] = now]
  /\ UNCHANGED <<rows, played, later, rowVars, pc, slot, ffmpeg, stopping, listVars>>

TracksUnmounted ==
  /\ Fault("tracks")
  /\ \E i \in Items : audio[i] # "missing" /\ status[i] \in {"ready", "playing"}
  /\ audio' = [i \in Items |-> "missing"]
  /\ UNCHANGED <<poolVars, status, pc, slot, ffmpeg, stopping, listVars>>

Trouble == StayOnFiller \/ Crash \/ Stop \/ FfmpegExits \/ PoolChanges \/ TracksUnmounted

-----------------------------------------------------------------------------
Init ==
  /\ PoolInit
  /\ status = [i \in Items |-> "generating"]
  /\ audio = [i \in Items |-> "missing"]
  /\ pc = "down" /\ slot = None /\ ffmpeg = FALSE /\ stopping = FALSE
  /\ entries = <<>> /\ skips = 0 /\ attempts = 0
  /\ faults = 0

Next == Controller \/ Outside \/ Trouble

Spec == Init /\ [][Next]_vars

\* The controller is one thread that never blocks for good, Docker restarts it,
\* and a finished track reaches the shared directory.
Fairness == WF_vars(Controller) /\ \A i \in Items : WF_vars(FileArrives(i))

FairSpec == Spec /\ Fairness

-----------------------------------------------------------------------------
(* Properties *)

Steps == {"down", "open", "session", "fifo", "boundary", "claimed", "filler", "starved",
          "decode", "check", "mark", "ended", "rebuild", "build", "resync", "play", "empty"}

\* The controller stands at one of its steps, and has in hand a request where
\* that step needs one, and never anything while it chooses.
TypeOK ==
  /\ PoolTypeOK
  /\ status \in [Items -> {"generating", "ready", "playing", "played", "failed"}]
  /\ audio \in [Items -> {"good", "bad", "missing"}]
  /\ pc \in Steps
  /\ slot \in Items \union Files \union {None}
  /\ pc \in {"claimed", "mark"} => slot \in Items
  /\ pc \in {"decode", "check"} => slot # None
  /\ ffmpeg \in BOOLEAN /\ stopping \in BOOLEAN
  /\ entries \in Seq(Files) /\ skips \in Nat /\ attempts \in Nat /\ faults \in Nat

\* A row is playing only while the controller has it in hand, or until the next
\* start puts it back: no other way out of a boundary leaves one behind
\* (store.py: "A crash mid-play must not drop the item").
PlayingIsInHand ==
  \A i \in Items : status[i] = "playing" =>
    \/ slot = i /\ pc \in {"claimed", "decode", "check", "mark"}
    \/ pc \in {"down", "open"}

\* A request whose file could not be read does not stay playing (the log line of
\* _take_live: "ffprobe failed, marking failed").
UnreadableIsFailed ==
  \A i \in Items \intersect Unmeasured :
    status[i] = "playing" /\ audio[i] = "bad" /\ slot # i => pc \in {"down", "open"}

\* A ready request is played in the end, whatever restarts, late files and
\* claims that are put back come in between.
ReadyIsAired == \A i \in Items : status[i] = "ready" ~> status[i] = "played"

\* A request's rows as ItemLifecycle sees them: its file is its own number.
Lifecycle == INSTANCE ItemLifecycle WITH
  NoJob <- 0,
  phase <- status,
  take <- [i \in Items |-> IF status[i] \in {"ready", "playing", "played"} THEN i ELSE 0]

\* Every statement the controller runs moves a row along its life cycle or not
\* at all: a played row is never aired again, a failed one never at all.
ImplementsLifecycle == [][Lifecycle!Next]_(Lifecycle!vars)

\* A filler track is not picked again before every other track of the pool was,
\* across sessions, restarts and changes of the pool (filler_pool.py: the
\* recent window and the sort never get in each other's way).
RotationIsFair ==
  [][\A t \in Files :
       /\ (pc = "filler" /\ pc' \in {"decode", "starved"}) \/ attempts' = attempts + 1
       /\ t \in played /\ played' \ {t} = PlayedBefore(t)'
       => rows \ {t} = PlayedAfter(t)]_vars

\* A playlist has the same row twice in a row only if all the others of the pool
\* were tried in between and could not be played.  A file that left the pool and
\* came back meanwhile is a new row, never played: it may follow itself.
RepeatOnlyWhenAlone ==
  [][\A t \in played :
       entries # <<>> /\ entries' = Append(entries, t) /\ Last(entries) = t
       => skips >= Cardinality(rows \ {t})]_vars

=============================================================================
