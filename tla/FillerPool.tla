----------------------------- MODULE FillerPool -----------------------------
(***************************************************************************)
(* The filler pool (playout/filler_pool.py): the SQLite table of pre-made  *)
(* tracks the stream falls back to, and the rule that picks the next one.  *)
(*                                                                         *)
(* Abstracted: a row is its file, and a file that comes back after its row *)
(* was dropped is a new row, never played.  Of last_played_at only the     *)
(* order is kept.  play_count breaks no tie: two rows tie only if neither  *)
(* was ever played.                                                        *)
(***************************************************************************)
EXTENDS Naturals, FiniteSets

CONSTANTS
  Files,       \* audio files that may lie in the pool's directory
  AvoidLastN   \* DEFAULT_AVOID_LAST_N

ASSUME PoolSettings == IsFiniteSet(Files) /\ AvoidLastN \in Nat

VARIABLES
  disk,    \* each file: good, bad (ffprobe reads no duration) or missing
  rows,    \* filler_tracks
  played,  \* the rows with a last_played_at
  later    \* <<t, u>>: t was last played after u was

poolVars == <<disk, rows, played, later>>

PlayedAfter(t) == {u \in played : <<u, t>> \in later}
PlayedBefore(t) == {u \in played : <<t, u>> \in later}

\* recent_ids: the last `limit' rows that were played.
OldestIds(limit) == {t \in played : Cardinality(PlayedBefore(t)) < limit}    \* (a variant)
RecentIds(limit) == {t \in played : Cardinality(PlayedAfter(t)) < limit}

\* The window shrinks so that one row is always left.
EffectiveAvoid ==
  IF rows = {} THEN 0
  ELSE IF AvoidLastN < Cardinality(rows) THEN AvoidLastN ELSE Cardinality(rows) - 1

Excluded == RecentIds(EffectiveAvoid)
Candidates == IF rows \subseteq Excluded THEN rows ELSE rows \ Excluded

\* Shuffle, then sort on _selection_key: never played first, then oldest play.
Newest(S) ==                                                                 \* (a variant)
  IF S \subseteq played THEN {t \in S : PlayedAfter(t) \intersect S = {}} ELSE S \ played
First(S) ==
  IF S \subseteq played THEN {t \in S : \A u \in S \ {t} : <<u, t>> \in later} ELSE S \ played

\* What pick_next_track may return; nothing when the pool is empty.
Picks == First(Candidates)

\* pick_and_mark_played: the row is stamped when it is chosen.
PickAndMarkPlayed(t) ==
  /\ t \in Picks
  /\ played' = played \union {t}
  /\ later' = {e \in later : t \notin {e[1], e[2]}} \union ({t} \X (played \ {t}))
  /\ UNCHANGED <<disk, rows>>

Gone == {t \in Files : disk[t] = "missing"}

\* Rows whose file is gone are dropped; files without a row get one if ffprobe
\* can read them.
SyncFromDisk ==
  /\ rows' = (rows \ Gone) \union {t \in Files : disk[t] = "good"}
  /\ played' = played \ Gone
  /\ later' = {e \in later : e[1] \notin Gone /\ e[2] \notin Gone}
  /\ UNCHANGED disk

\* track_is_playable
Playable(t) == disk[t] = "good"

PoolTypeOK ==
  /\ disk \in [Files -> {"good", "bad", "missing"}]
  /\ rows \subseteq Files /\ played \subseteq rows
  /\ later \subseteq played \X played

PoolInit ==
  /\ disk \in [Files -> {"good", "bad", "missing"}]
  /\ rows = {} /\ played = {} /\ later = {}

=============================================================================
