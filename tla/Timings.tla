------------------------------- MODULE Timings -------------------------------
(***************************************************************************)
(* How long generations take, on the way to the averages that routing uses *)
(* (load_latency in queue/manager.py takes the newest rows by id): workers *)
(* RPUSH a row to generation:stats, and the reaper's drain_stats           *)
(* (queue/reaper.py) pops the list from the same end until it is empty and *)
(* then commits once.  Generation composes this with the workers; the      *)
(* steps named ...Breaks and ReaperDies are its faults.                    *)
(*                                                                         *)
(* Abstracted: a row is its number in the order of the pushes; the order   *)
(* within one commit; the length of the sleeps; reap_expired, of which     *)
(* only the time it runs is here.                                          *)
(***************************************************************************)
EXTENDS Naturals, SequencesExt

CONSTANT Malformed  \* rows that stats_row refuses: those of a job without a duration

ASSUME RowsAreNumbers == Malformed \subseteq Nat

VARIABLES
  pushed,  \* number of rows pushed
  stats,   \* generation:stats
  hand,    \* the row that is popped and not yet inserted
  open,    \* rows inserted in the transaction that is open
  table,   \* generation_stats: the rows of each commit, in order
  lost,    \* rows that no store holds any more
  reaper   \* "sleep", "drain", "commit" or "reap"

timingVars == <<pushed, stats, hand, open, table, lost, reaper>>
Stored == UNION ToSet(table)

TimingsInit ==
  /\ pushed = 0 /\ stats = <<>> /\ hand = {} /\ open = {} /\ table = <<>> /\ lost = {}
  /\ reaper = "sleep"

\* push_stats
Push ==
  /\ pushed' = pushed + 1 /\ stats' = Append(stats, pushed + 1)
  /\ UNCHANGED <<hand, open, table, lost, reaper>>

-----------------------------------------------------------------------------
(* One pass of the reaper *)

Passes(from, to) == reaper = from /\ reaper' = to

Wake == Passes("sleep", "drain") /\ UNCHANGED <<pushed, stats, hand, open, table, lost>>

Popping == reaper = "drain" /\ hand = {} /\ stats # <<>>
Pop ==
  /\ Popping
  /\ hand' = {Last(stats)} /\ stats' = Front(stats)
  /\ UNCHANGED <<pushed, open, table, lost, reaper>>

\* With the variant that commits after every row.
InsertAndCommit ==
  /\ reaper = "drain" /\ hand # {}
  /\ table' = Append(table, hand) /\ hand' = {}
  /\ UNCHANGED <<pushed, stats, open, lost, reaper>>
Insert ==
  /\ reaper = "drain" /\ hand # {}
  /\ open' = open \union (hand \ Malformed)
  /\ lost' = lost \union (hand \intersect Malformed)
  /\ hand' = {}
  /\ UNCHANGED <<pushed, stats, table, reaper>>

\* RPOP finds the list empty.
Drained ==
  /\ hand = {} /\ stats = <<>> /\ Passes("drain", "commit")
  /\ UNCHANGED <<pushed, stats, hand, open, table, lost>>

\* With two variants: the transaction is not closed; there is no commit.
CommitAgain ==
  /\ Passes("commit", "reap") /\ table' = Append(table, open)
  /\ UNCHANGED <<pushed, stats, hand, open, lost>>
CommitForgotten ==
  Passes("commit", "reap") /\ UNCHANGED <<pushed, stats, hand, open, table, lost>>
Commit ==
  /\ Passes("commit", "reap")
  /\ table' = IF open = {} THEN table ELSE Append(table, open)
  /\ open' = {}
  /\ UNCHANGED <<pushed, stats, hand, lost>>

ReapEnds == Passes("reap", "sleep") /\ UNCHANGED <<pushed, stats, hand, open, table, lost>>

ReaperStep == Wake \/ Pop \/ Insert \/ Drained \/ Commit \/ ReapEnds

-----------------------------------------------------------------------------
(* What interrupts a pass; main keeps the SQLite connection and goes on. *)

\* The connection to Redis, before or after the RPOP is carried out.
PopBreaks ==
  /\ Popping /\ reaper' = "sleep"
  /\ \/ UNCHANGED <<stats, lost>>
     \/ stats' = Front(stats) /\ lost' = lost \union {Last(stats)}
  /\ UNCHANGED <<pushed, hand, open, table>>

\* The INSERT or the commit, as when the database is locked or the disk full.  SQLite
\* keeps the transaction open after some errors and undoes it after others.
StatementBreaks ==
  /\ (reaper = "commit" /\ open # {}) \/ (reaper = "drain" /\ hand # {})
  /\ reaper' = "sleep" /\ hand' = {}
  /\ open' \in {open, {}} /\ lost' = lost \union hand \union (open \ open')
  /\ UNCHANGED <<pushed, stats, table>>

ReaperDies ==
  /\ reaper' = "sleep" /\ hand' = {} /\ open' = {}
  /\ lost' = lost \union hand \union open
  /\ UNCHANGED <<pushed, stats, table>>

ReaperBreaks == PopBreaks \/ StatementBreaks \/ ReaperDies

TimingsNext == Push \/ ReaperStep \/ ReaperBreaks
TimingsSpec == TimingsInit /\ [][TimingsNext]_timingVars

-----------------------------------------------------------------------------
(* Properties *)

TimingsType ==
  /\ pushed \in Nat /\ stats \in Seq(Nat) /\ hand \subseteq Nat /\ open \subseteq Nat
  /\ table \in Seq(SUBSET Nat) /\ lost \subseteq Nat
  /\ reaper \in {"sleep", "drain", "commit", "reap"}

\* Every row is in one place: the list, the reaper's hand, its transaction, the
\* table, or lost.  drain_stats "can never double-insert", although it keeps its
\* transaction over a broken pass and starts the next pass with it.
EachRowOnce ==
  /\ \A i, k \in DOMAIN stats : stats[i] = stats[k] => i = k
  /\ \A i, k \in DOMAIN table : table[i] \intersect table[k] # {} => i = k
  /\ ToSet(stats) \intersect (hand \union open \union Stored \union lost) = {}
  /\ hand \intersect (open \union Stored \union lost) = {}
  /\ open \intersect (Stored \union lost) = {}
  /\ Stored \intersect lost = {}
  /\ ToSet(stats) \union hand \union open \union Stored \union lost = 1..pushed

\* A commit holds only rows that are newer than all rows of the commits before
\* it, although the list is popped newest first: that is what makes "newest by
\* id" in load_latency the newest but for the order within one commit.
LaterCommitsAreNewer ==
  \A i, k \in DOMAIN table : i < k => \A m \in table[i], n \in table[k] : m < n

=============================================================================
